--------------------------- MODULE SdeFrameProofs ---------------------------
(***************************************************************************)
(* Proofs about SdeFrame, for every configuration with one encoder (as a   *)
(* command mode panel has that is not split): any trigger modes, any       *)
(* faults, any number of them and of frames.                               *)
(***************************************************************************)
EXTENDS SdeFrame, TLAPS, FiniteSetTheorems, FunctionTheorems, SequenceTheorems

Wr == {"wrptr", "wrlate", "wragain", "wrgone"}
Waits == {"prep", "tx", "dtx"}
Before == {"test", "wait", "over", "late"}
Begun == {"reset", "flush", "flushing", "flushhw", "count"}
Down == {"dphys", "dstop", "dflush", "dend", "off"}

EventTyping ==
    /\ pend \in Nat /\ fl \in Nat /\ cb \in BOOLEAN /\ q \in Seq(Kinds)
    /\ cur \in Kinds \cup {"none"} /\ fence \in Seq({"done", "error", "reset"})

PhysTyping ==
    /\ cfg \in Configs /\ mode \in cfg.modes \cup {"default"}
    /\ kick \in [Phys -> Nat] /\ retire \in Nat /\ done = [p \in Phys |-> 0]
    /\ wrok \in BOOLEAN /\ past \in SUBSET {"gaveup", "late"}
    /\ pdead \in {"no", "pending", "dead"}
    /\ est \in [Phys -> {"off", "on", "reset"}] /\ faults \in Nat

HwTyping ==
    hw \in [posted : Nat, frame : Nat, busy : SUBSET Phys, lat : SUBSET (0 .. cfg.n),
            dead : BOOLEAN, hung : BOOLEAN]

SendTyping ==
    send \in [Threads \cup {"irq"} -> [p : 0 .. 1, ev : Release \cup {"retire", "none"}]]

WaitTyping ==
    w \in [Threads -> [ph : Before \cup {"no", "end"}, p : 0 .. 1, chk : 0 .. 1,
                       rc : {"ok", "late"}]]

ThreadTyping ==
    /\ d \in {"idle", "start", "pend", "loop", "cdend"} \cup Wr \cup Waits \cup Begun \cup Down
    /\ e \in {"idle", "report", "flush", "tx"}
    /\ n \in Nat /\ left \in Nat /\ ph = 1
    /\ perr \in BOOLEAN /\ nreset \in BOOLEAN /\ ftm \in cfg.modes \cup {"default"}

Typing == EventTyping /\ PhysTyping /\ HwTyping /\ SendTyping /\ WaitTyping /\ ThreadTyping

\* Which thread waits, and who has an event to send.
Contexts ==
    /\ (w["disp"].ph = "no" <=> d \notin Waits) /\ (w["esd"].ph = "no" <=> e # "tx")
    /\ \A t \in Threads : w[t].ph \in Before => w[t].p = 1 /\ send[t] = NoSend
    /\ send["disp"] # NoSend =>
           \/ send["disp"].ev = "retire" /\ d \in {"wrptr", "wragain", "loop"}
           \/ send["disp"].ev \in Release /\ w["disp"].ph = "end"
    /\ send["esd"] # NoSend => send["esd"].ev \in Release /\ w["esd"].ph = "end"
    /\ \A t \in DOMAIN send : send[t] # NoSend => send[t].p = 1 /\ send[t].ev # "none"

\* The frames a wait of the display thread leaves.
Goal == IF d = "tx" THEN left ELSE 0

\* How many frames are in flight.
InFlight ==
    /\ d \in Waits /\ w["disp"].ph # "end" /\ w["disp"].ph # "late" =>
           kick[1] <= Goal + 1 /\ w["disp"].chk <= Goal
    /\ d \in Waits /\ w["disp"].ph \in {"late", "end"} => kick[1] <= Goal
    /\ d = "loop" => kick[1] <= left
    /\ d \in {"start", "pend"} \cup Wr => kick[1] <= 2
    /\ d \in {"idle", "cdend"} \cup Begun => kick[1] <= 1
    /\ d \in Down => kick[1] = 0

Sent(t) == IF send[t].ev \in Release THEN 1 ELSE 0
Told(t) == IF send[t].ev = "retire" THEN 1 ELSE 0
Late(t) == IF w[t].ph = "late" THEN 1 ELSE 0

\* Ends of frames and retire fences the CRTC has not been told of.
Ends == kick[1] + Late("disp") + Late("esd") + Sent("disp") + Sent("esd") + Sent("irq")
Retires == retire + Told("disp") + Told("irq")

RetireOnce ==
    /\ retire + Told("disp") <= 1
    /\ retire = 1 => d \in {"count", "start"} \cup Wr

Thread ==
    /\ cb <=> d # "off"
    /\ fl > 0 => d \in {"flushing", "dend"}
    /\ d = "dend" => fl = Todo
    /\ d \in Down \ {"dphys"} => e = "idle" /\ hw.posted = 0 /\ hw.busy = {}
    /\ d \in {"dflush", "dend", "off"} => send["irq"] = NoSend /\ hw.lat = {}
    /\ d = "off" => q = <<>> /\ cur = "none" /\ Len(fence) = n
    /\ e # "idle" => pdead # "no"

\* A frame is in the work the event thread runs.
Ending == IF cur \in Release THEN 1 ELSE 0
\* A frame is counted that is not in the encoder yet.
Flag == IF d \in {"flushhw", "count"} THEN 1 ELSE 0

Frames ==
    /\ pend = Ends + Releases + Flag
    /\ n = Len(fence) + Ending + Releases + Ends

Events == Kinds \ {"esd"}
From(s, K, j) == Cardinality({i \in DOMAIN s : i > j /\ s[i] \in K})
\* Retire events behind the last end of a frame.
Loose(s) == Cardinality({i \in DOMAIN s : s[i] = "retire" /\
                             \A j \in DOMAIN s : j > i => s[j] \notin Release})
\* Entries of the pool that the flush does not wait for.
Behind ==
    From(q, Events, IF cur = "none" THEN fl ELSE fl - 1)
    + IF fl = 0 /\ cur \in Events THEN 1 ELSE 0

\* With iu entries of the pool in use, be of them not waited for, en and re ends and retire
\* fences that are still to come, and lo loose entries there will be room.
Room(dd, iu, be, en, re, fg, lo) ==
    /\ iu + en + re <= 5
    /\ dd = "flushing" => be + en + re <= 3
    /\ dd = "flushhw" => iu + en + re <= 3
    /\ dd = "count" => iu + en + re <= 4
    /\ en + fg = 0 => lo + re <= 2

Pool == Room(d, InUse, Behind, Ends, Retires, Flag, Loose(q))

\* Frames the hardware may still read, counted from the last: those in the encoder,
\* but one when its pp_done is latched.
Owed == kick[1] + Late("disp") + Late("esd")
Latched == IF 1 \in hw.lat THEN 1 ELSE 0
\* A frame more once a pp_done was held up until the next frame was counted.
Slack == IF "late" \in past THEN 1 ELSE 0
Ahead == Owed - Latched + Slack
Busy == IF hw.busy # {} THEN 1 ELSE 0
Posted == IF hw.posted # 0 THEN 1 ELSE 0

Reads ==
    "gaveup" \notin past /\ ~(pdead # "no" /\ "posted" \in cfg.modes) =>
        /\ hw.busy # {} => n >= hw.frame /\ hw.frame >= n - Ahead + 1
        /\ hw.posted # 0 => n >= hw.posted /\ hw.posted >= n - Ahead + 1 + Busy
        /\ d = "start" => Ahead >= 1 + Busy + Posted

Write ==
    "gaveup" \notin past =>
        /\ hw.posted # 0 => retire = 1 /\ ~wrok /\ d \in Wr /\ 0 \notin hw.lat
        /\ 0 \in hw.lat => retire = 1 /\ d \in Wr
        /\ d \in {"count", "start"} => retire = 1

Parts ==
    Typing /\ Contexts /\ InFlight /\ RetireOnce /\ Thread /\ Frames /\ Pool /\ Reads /\ Write
IInv == cfg.n = 1 => Parts

-----------------------------------------------------------------------------
(* Counting in the queue                                                   *)

\* Sets of indices of the queue are finite.
LEMMA FiniteIndices ==
    ASSUME NEW S, NEW s \in Seq(S), NEW X \in SUBSET DOMAIN s
    PROVE  IsFiniteSet(X) /\ Cardinality(X) \in Nat
<1>1. Len(s) \in Nat /\ DOMAIN s = 1 .. Len(s)
  BY LenProperties
<1>2. IsFiniteSet(DOMAIN s)
  BY <1>1, FS_Interval
<1> QED
  BY <1>2, FS_Subset, FS_CardinalityType

\* Moving every index by one keeps their number.
LEMMA Shift ==
    ASSUME NEW X \in SUBSET Int, IsFiniteSet(X)
    PROVE  Cardinality({i - 1 : i \in X}) = Cardinality(X)
<1> DEFINE Y == {i - 1 : i \in X}
           f == [i \in X |-> i - 1]
<1>1. f \in [X -> Y] /\ \A a, b \in X : f[a] = f[b] => a = b
  OBVIOUS
<1>2. \A y \in Y : \E x \in X : f[x] = y
  OBVIOUS
<1>3. f \in Bijection(X, Y)
  <2> HIDE DEF f, Y
  <2> QED BY <1>1, <1>2, Fun_IsBij
<1>4. ExistsBijection(X, Y)
  BY <1>3 DEF ExistsBijection
<1> HIDE DEF f, Y
<1>5. Cardinality(Y) = Cardinality(X)
  BY <1>4, FS_Bijection
<1> QED
  BY <1>5 DEF Y

\* A new element adds one.
LEMMA OneMore ==
    ASSUME NEW X, NEW Y, NEW x, IsFiniteSet(X), x \notin X, Y = X \cup {x}
    PROVE  Cardinality(Y) = Cardinality(X) + 1
  BY FS_AddElement

\* The queue grows at its end.
LEMMA FromAppend ==
    ASSUME NEW s \in Seq(Kinds), NEW x \in Kinds, NEW K, NEW j \in Int
    PROVE  From(Append(s, x), K, j)
               = From(s, K, j) + IF x \in K /\ Len(s) + 1 > j THEN 1 ELSE 0
<1> DEFINE t == Append(s, x)
           X == {i \in DOMAIN s : i > j /\ s[i] \in K}
           Y == {i \in DOMAIN t : i > j /\ t[i] \in K}
<1>1. /\ Len(s) \in Nat /\ DOMAIN s = 1 .. Len(s) /\ DOMAIN t = 1 .. Len(s) + 1
      /\ t[Len(s) + 1] = x /\ \A i \in 1 .. Len(s) : t[i] = s[i]
  OBVIOUS
<1>2. IsFiniteSet(X) /\ Cardinality(X) \in Nat
  BY FiniteIndices
<1>3. CASE x \in K /\ Len(s) + 1 > j
  <2>1. Y = X \cup {Len(s) + 1} /\ Len(s) + 1 \notin X
    BY <1>1, <1>3
  <2> QED
    BY <2>1, <1>2, <1>3, OneMore DEF From
<1>4. CASE ~(x \in K /\ Len(s) + 1 > j)
  <2>1. Y = X
    BY <1>1, <1>4
  <2>2. From(s, K, j) = Cardinality(X) /\ From(t, K, j) = Cardinality(Y)
    BY DEF From
  <2> HIDE DEF X, Y
  <2> QED
    BY <2>1, <2>2, <1>2, <1>4
<1> QED
  BY <1>3, <1>4

\* It loses its head.
LEMMA FromTail ==
    ASSUME NEW s \in Seq(Kinds), s # <<>>, NEW K, NEW j \in Int, j >= 0
    PROVE  From(Tail(s), K, j) = From(s, K, j + 1)
<1> DEFINE t == Tail(s)
           X == {i \in DOMAIN s : i > j + 1 /\ s[i] \in K}
           Y == {i \in DOMAIN t : i > j /\ t[i] \in K}
<1>1. /\ Len(s) \in Nat \ {0} /\ DOMAIN s = 1 .. Len(s) /\ DOMAIN t = 1 .. Len(s) - 1
      /\ \A i \in 1 .. Len(s) - 1 : t[i] = s[i + 1]
  OBVIOUS
<1>2. Y = {i - 1 : i \in X}
  <2>1. ASSUME NEW i \in Y PROVE i + 1 \in X /\ i = (i + 1) - 1
    BY <1>1
  <2>2. ASSUME NEW i \in X PROVE i - 1 \in Y
    <3>1. i - 1 \in 1 .. Len(s) - 1 /\ t[i - 1] = s[i] /\ i - 1 > j
      BY <1>1
    <3> QED BY <3>1, <1>1
  <2>3. \A i \in Y : \E k \in X : i = k - 1
    BY <2>1
  <2> QED BY <2>2, <2>3
<1>3. IsFiniteSet(X) /\ X \in SUBSET Int
  BY <1>1, FiniteIndices
<1> HIDE DEF X, Y
<1>4. Cardinality(Y) = Cardinality(X)
  BY <1>2, <1>3, Shift
<1> QED
  BY <1>4 DEF From, X, Y

\* What is at the head is counted on top of what is behind it.
LEMMA FromOne ==
    ASSUME NEW s \in Seq(Kinds), s # <<>>, NEW K, NEW j \in Int, j <= 0
    PROVE  From(s, K, j) = From(s, K, 1) + IF Head(s) \in K THEN 1 ELSE 0
<1> DEFINE X == {i \in DOMAIN s : i > 1 /\ s[i] \in K}
           Y == {i \in DOMAIN s : i > j /\ s[i] \in K}
<1>1. /\ Len(s) \in Nat \ {0} /\ DOMAIN s = 1 .. Len(s) /\ Head(s) = s[1]
  BY EmptySeq, LenProperties
<1>2. IsFiniteSet(X) /\ Cardinality(X) \in Nat
  BY FiniteIndices
<1>3. CASE Head(s) \in K
  <2>1. Y = X \cup {1} /\ 1 \notin X
    BY <1>1, <1>3
  <2> QED
    BY <2>1, <1>2, <1>3, OneMore DEF From
<1>4. CASE Head(s) \notin K
  <2>1. Y = X
    BY <1>1, <1>4
  <2>2. From(s, K, 1) = Cardinality(X) /\ From(s, K, j) = Cardinality(Y)
    BY DEF From
  <2> HIDE DEF X, Y
  <2> QED
    BY <2>1, <2>2, <1>2, <1>4
<1> QED
  BY <1>3, <1>4

\* From the front From counts everything, from behind the end nothing.
LEMMA FromEnds ==
    ASSUME NEW s \in Seq(Kinds), NEW K, NEW j \in Int
    PROVE  /\ From(s, K, j) \in Nat
           /\ j <= 0 => From(s, K, j) = CountIn(s, K)
           /\ j >= Len(s) => From(s, K, j) = 0
<1> DEFINE X == {i \in DOMAIN s : i > j /\ s[i] \in K}
           Y == {i \in DOMAIN s : s[i] \in K}
<1>1. Len(s) \in Nat /\ DOMAIN s = 1 .. Len(s)
  BY LenProperties
<1>2. From(s, K, j) \in Nat
  BY FiniteIndices DEF From
<1>3. j <= 0 => X = Y
  BY <1>1
<1>4. j >= Len(s) => X = {}
  BY <1>1
<1> QED
  BY <1>2, <1>3, <1>4, FS_EmptySet DEF From, CountIn

\* The counts of the queue are those From counts from the front.
LEMMA CountNat ==
    ASSUME NEW s \in Seq(Kinds), NEW K
    PROVE  /\ CountIn(s, K) \in Nat
           /\ CountIn(s, K) = From(s, K, 0) /\ CountIn(s, K) = From(s, K, -1)
  BY FromEnds

\* A new end of a frame takes all entries before it along; a retire event is loose.
LEMMA LooseAppend ==
    ASSUME NEW s \in Seq(Kinds), NEW x \in Kinds
    PROVE  Loose(Append(s, x)) = IF x \in Release THEN 0
                                 ELSE Loose(s) + IF x = "retire" THEN 1 ELSE 0
<1> DEFINE t == Append(s, x)
           X == {i \in DOMAIN s : s[i] = "retire" /\
                     \A j \in DOMAIN s : j > i => s[j] \notin Release}
           Y == {i \in DOMAIN t : t[i] = "retire" /\
                     \A j \in DOMAIN t : j > i => t[j] \notin Release}
<1>1. /\ Len(s) \in Nat /\ DOMAIN s = 1 .. Len(s) /\ DOMAIN t = 1 .. Len(s) + 1
      /\ t[Len(s) + 1] = x /\ \A i \in 1 .. Len(s) : t[i] = s[i]
  OBVIOUS
<1>2. IsFiniteSet(X) /\ Cardinality(X) \in Nat
  BY FiniteIndices
<1>3. CASE x \in Release
  <2>1. Y = {}
    BY <1>1, <1>3 DEF Release
  <2> QED
    BY <2>1, <1>3, FS_EmptySet DEF Loose
<1>4. CASE x = "retire"
  <2>1. Y = X \cup {Len(s) + 1} /\ Len(s) + 1 \notin X
    BY <1>4 DEF Release
  <2> QED
    BY <2>1, <1>2, <1>4, OneMore DEF Loose, Release
<1>5. CASE x \notin Release /\ x # "retire"
  <2>1. Y = X
    BY <1>5
  <2>2. Loose(s) = Cardinality(X) /\ Loose(t) = Cardinality(Y)
    BY DEF Loose
  <2> HIDE DEF X, Y
  <2> QED
    BY <2>1, <2>2, <1>2, <1>5
<1> QED
  BY <1>3, <1>4, <1>5

\* Nothing becomes loose when the head is taken.
LEMMA LooseTail ==
    ASSUME NEW s \in Seq(Kinds), s # <<>>
    PROVE  Loose(Tail(s)) <= Loose(s) /\ Loose(Tail(s)) \in Nat /\ Loose(s) \in Nat
<1> DEFINE t == Tail(s)
           X == {i \in DOMAIN s : s[i] = "retire" /\
                     \A j \in DOMAIN s : j > i => s[j] \notin Release}
           Y == {i \in DOMAIN t : t[i] = "retire" /\
                     \A j \in DOMAIN t : j > i => t[j] \notin Release}
           Z == X \ {1}
<1>1. /\ Len(s) \in Nat \ {0} /\ DOMAIN s = 1 .. Len(s) /\ DOMAIN t = 1 .. Len(s) - 1
      /\ \A i \in 1 .. Len(s) - 1 : t[i] = s[i + 1]
  OBVIOUS
<1>2. IsFiniteSet(X) /\ IsFiniteSet(Z) /\ Z \in SUBSET Int /\ Cardinality(X) \in Nat
  BY FiniteIndices
<1>3. Y = {i - 1 : i \in Z}
  <2>1. ASSUME NEW i \in Y PROVE i + 1 \in Z /\ i = (i + 1) - 1
    <3>1. i \in 1 .. Len(s) - 1 /\ s[i + 1] = "retire"
      BY <1>1
    <3>2. ASSUME NEW j \in DOMAIN s, j > i + 1 PROVE s[j] \notin Release
      <4>1. j - 1 \in DOMAIN t /\ j - 1 > i /\ t[j - 1] = s[j]
        BY <3>2
      <4> QED BY <4>1
    <3> QED BY <1>1, <3>1, <3>2
  <2>2. ASSUME NEW i \in Z PROVE i - 1 \in Y
    <3>1. i - 1 \in DOMAIN t /\ t[i - 1] = "retire"
      BY <1>1
    <3>2. ASSUME NEW j \in DOMAIN t, j > i - 1 PROVE t[j] \notin Release
      BY <3>2
    <3> QED BY <3>1, <3>2
  <2>3. \A i \in Y : \E k \in Z : i = k - 1
    BY <2>1
  <2> QED BY <2>2, <2>3
<1>4. Cardinality(Z) <= Cardinality(X)
  BY <1>2, FS_Subset
<1> HIDE DEF X, Y, Z
<1>5. Cardinality(Y) = Cardinality(Z)
  BY <1>2, <1>3, Shift
<1>6. Loose(t) = Cardinality(Y) /\ Loose(s) = Cardinality(X)
  BY DEF Loose, X, Y
<1>7. Cardinality(Z) \in Nat
  BY <1>2, FS_CardinalityType
<1> QED
  BY <1>2, <1>4, <1>5, <1>6, <1>7

\* With no end of a frame in the queue every entry is loose.
LEMMA LooseAll ==
    ASSUME NEW s \in Seq(Kinds)
    PROVE  /\ Loose(s) \in Nat
           /\ CountIn(s, Release) = 0 => Entries(s) = Loose(s)
<1>2. Loose(s) \in Nat
  BY FiniteIndices DEF Loose
<1>3. ASSUME CountIn(s, Release) = 0 PROVE Entries(s) = Loose(s)
  <2>1. {i \in DOMAIN s : s[i] \in Release} = {}
    BY <1>3, FiniteIndices, FS_EmptySet DEF CountIn
  <2>2. {i \in DOMAIN s : s[i] \in Kinds \ {"esd"}}
            = {i \in DOMAIN s : s[i] = "retire" /\
                   \A j \in DOMAIN s : j > i => s[j] \notin Release}
    BY <2>1 DEF Kinds, Release
  <2> QED
    BY <2>2 DEF Entries, CountIn, Loose
<1> QED
  BY <1>2, <1>3

-----------------------------------------------------------------------------
(* The ways of a frame: what the steps do to the counts                    *)

One == cfg.n = 1 /\ Typing

Flows == Frames /\ Pool

\* The counts are naturals.
LEMMA Counted ==
    ASSUME One
    PROVE  /\ Ends \in Nat /\ Retires \in Nat /\ Flag \in Nat /\ Ending \in Nat /\ Behind \in Nat
           /\ Releases \in Nat /\ Entries(q) \in Nat /\ Loose(q) \in Nat /\ InUse \in Nat
<1>1. kick[1] \in Nat /\ retire \in Nat
  BY DEF One, Typing, PhysTyping, Phys
<1>2. Ends \in Nat /\ Retires \in Nat /\ Flag \in Nat
  BY <1>1 DEF Ends, Retires, Flag, Late, Sent, Told
<1>3. q \in Seq(Kinds) /\ fl \in Nat
  BY DEF One, Typing, EventTyping
<1>4. Releases \in Nat /\ Entries(q) \in Nat /\ Loose(q) \in Nat
  BY <1>3, CountNat, LooseAll DEF Releases, Entries
<1>5. Behind \in Nat
  BY <1>3, FromEnds DEF Behind
<1> QED
  BY <1>2, <1>4, <1>5 DEF InUse, Ending

\* A step of a thread, an interrupt or the hardware that neither posts nor kicks off.
LEMMA FlowRests ==
    ASSUME One, Flows, UNCHANGED <<pend, q, cur, fl, fence, n>>,
           Ends' = Ends, Retires' = Retires, Flag' = Flag,
           d' = d \/ d' \notin {"flushing", "flushhw", "count"}
    PROVE  Flows'
<1>1. InUse' = InUse /\ Behind' = Behind /\ Releases' = Releases /\ Ending' = Ending
  BY DEF Releases, InUse, Behind, Ending
<1>2. Frames'
  BY <1>1 DEF Flows, Frames
<1>3. Pool'
  BY <1>1 DEF Flows, Pool, Room
<1> QED
  BY <1>2, <1>3 DEF Flows

\* An event is posted: an end of a frame or a retire fence is told, or ESD work is queued.
LEMMA FlowPosts ==
    ASSUME One, Flows, NEW x \in Kinds, q' = Append(q, x), Retires <= 2,
           UNCHANGED <<pend, cur, fl, fence, n, d>>, One',
           Ends' = Ends - (IF x \in Release THEN 1 ELSE 0),
           Retires' = Retires - (IF x = "retire" THEN 1 ELSE 0)
    PROVE  Flows'
<1>0. /\ Ends \in Nat /\ Retires \in Nat /\ Flag \in Nat /\ Ending \in Nat /\ Behind \in Nat
      /\ Releases \in Nat /\ Entries(q) \in Nat /\ Loose(q) \in Nat /\ InUse \in Nat
  BY Counted
<1>1. q \in Seq(Kinds) /\ fl \in Nat
  BY DEF One, Typing, EventTyping
<1>2. /\ CountIn(q', Release) = CountIn(q, Release) + IF x \in Release THEN 1 ELSE 0
      /\ CountIn(q', Events) = CountIn(q, Events) + IF x \in Events THEN 1 ELSE 0
  <2>1. \A s \in Seq(Kinds) : \A K : CountIn(s, K) = From(s, K, 0)
    BY CountNat
  <2>2. q' \in Seq(Kinds) /\ Len(q) + 1 > 0
    BY <1>1
  <2>3. \A K : From(q', K, 0) = From(q, K, 0) + IF x \in K THEN 1 ELSE 0
    BY <1>1, FromAppend
  <2> QED
    BY <1>1, <2>1, <2>2, <2>3
<1>3. Loose(q') = IF x \in Release THEN 0 ELSE Loose(q) + IF x = "retire" THEN 1 ELSE 0
  BY <1>1, LooseAppend
<1>4. Behind' <= Behind + (IF x \in Events THEN 1 ELSE 0) /\ Behind' \in Int
  <2> DEFINE j == IF cur = "none" THEN fl ELSE fl - 1
  <2>2. From(q', Events, j) = From(q, Events, j) + IF x \in Events /\ Len(q) + 1 > j THEN 1 ELSE 0
    BY <1>1, FromAppend
  <2>3. From(q, Events, j) \in Nat
    BY <1>1, FromEnds
  <2>4. /\ Behind = From(q, Events, j) + IF fl = 0 /\ cur \in Events THEN 1 ELSE 0
        /\ Behind' = From(q', Events, j) + IF fl = 0 /\ cur \in Events THEN 1 ELSE 0
    BY DEF Behind
  <2> HIDE DEF j
  <2> QED
    BY <2>2, <2>3, <2>4
<1>5. Flag' = Flag /\ Ending' = Ending /\ d' = d
  BY DEF Flag, Ending
<1>6. x \in Release => x \in Events /\ x # "retire"
  BY DEF Release, Events
<1>7. "retire" \in Events
  BY DEF Events, Kinds
<1>8. Frames'
  <2>2. Releases' = Releases + IF x \in Release THEN 1 ELSE 0
    BY <1>2 DEF Releases
  <2>3. pend' = Ends' + Releases' + Flag'
    BY <1>5, <2>2, <1>0 DEF Flows, Frames
  <2>4. n' = Len(fence') + Ending' + Releases' + Ends'
    BY <1>0, <1>5, <2>2 DEF Flows, Frames
  <2> QED
    BY <2>3, <2>4 DEF Frames
<1>9. InUse' = InUse + IF x \in Events THEN 1 ELSE 0
  BY <1>2, <1>0 DEF InUse, Entries, Events
<1>10. x \in Events => x \in Release \/ x = "retire"
  BY DEF Release, Events, Kinds
<1>11. Pool'
  <2> DEFINE iu == InUse'  be == Behind'  en == Ends'  re == Retires'  lo == Loose(q')
  <2>1. CASE x \in Release
    <3>1. iu = InUse + 1 /\ be <= Behind + 1 /\ lo = 0 /\ en = Ends - 1 /\ re = Retires
      BY <1>0, <1>3, <1>4, <1>6, <1>9, <2>1
    <3>0. be \in Int
      BY <1>4
    <3>2. Room(d, iu, be, en, re, Flag, lo)
      <4> HIDE DEF iu, be, en, re, lo
      <4> QED
        BY <1>0, <3>0, <3>1 DEF Flows, Pool, Room
    <3> QED
      BY <1>5, <3>2 DEF Pool
  <2>2. CASE x = "retire"
    <3>1. /\ iu = InUse + 1 /\ be <= Behind + 1 /\ lo = Loose(q) + 1
          /\ en = Ends /\ re = Retires - 1
      BY <1>0, <1>3, <1>4, <1>6, <1>7, <1>9, <2>2
    <3>0. be \in Int
      BY <1>4
    <3>2. Room(d, iu, be, en, re, Flag, lo)
      <4> HIDE DEF iu, be, en, re, lo
      <4> QED
        BY <1>0, <3>0, <3>1 DEF Flows, Pool, Room
    <3> QED
      BY <1>5, <3>2 DEF Pool
  <2>3. CASE x \notin Events
    <3>1. iu = InUse /\ be <= Behind /\ lo = Loose(q) /\ en = Ends /\ re = Retires
      BY <1>0, <1>3, <1>4, <1>6, <1>7, <1>9, <2>3
    <3>0. be \in Int
      BY <1>4
    <3>2. Room(d, iu, be, en, re, Flag, lo)
      <4> HIDE DEF iu, be, en, re, lo
      <4> QED
        BY <1>0, <3>0, <3>1 DEF Flows, Pool, Room
    <3> QED
      BY <1>5, <3>2 DEF Pool
  <2> QED
    BY <1>10, <2>1, <2>2, <2>3
<1> QED
  BY <1>8, <1>11 DEF Flows

\* The event thread takes the next piece of work ...
LEMMA FlowTakes ==
    ASSUME One, Flows, EvTake, Ends' = Ends, Retires' = Retires, UNCHANGED <<n, d>>
    PROVE  Flows'
<1>0. /\ Ends \in Nat /\ Retires \in Nat /\ Flag \in Nat /\ Ending \in Nat /\ Behind \in Nat
      /\ Releases \in Nat /\ Entries(q) \in Nat /\ Loose(q) \in Nat /\ InUse \in Nat
  BY Counted
<1>1. q \in Seq(Kinds) /\ fl \in Nat /\ q # <<>> /\ q' = Tail(q) /\ cur = "none" /\ cur' = Head(q)
      /\ fl' = fl /\ fence' = fence
  BY DEF One, Typing, EventTyping, EvTake
<1>2. Tail(q) \in Seq(Kinds) /\ Head(q) \in Kinds
  BY <1>1
<1>3. \A K : CountIn(q, K) = CountIn(q', K) + IF Head(q) \in K THEN 1 ELSE 0
  <2>1. \A s \in Seq(Kinds) : \A K : CountIn(s, K) = From(s, K, 0)
    BY CountNat
  <2>2. \A K : From(q', K, 0) = From(q, K, 1)
    BY <1>1, FromTail
  <2>3. \A K : From(q, K, 0) = From(q, K, 1) + IF Head(q) \in K THEN 1 ELSE 0
    BY <1>1, FromOne
  <2> TAKE K
  <2>4. CountIn(q, K) = From(q, K, 0) /\ CountIn(q', K) = From(q', K, 0)
    BY <1>1, <1>2, <2>1
  <2>5. /\ From(q', K, 0) = From(q, K, 1)
        /\ From(q, K, 0) = From(q, K, 1) + IF Head(q) \in K THEN 1 ELSE 0
    BY <2>2, <2>3
  <2> QED
    BY <2>4, <2>5
<1>4. Loose(q') <= Loose(q) /\ Loose(q') \in Nat
  BY <1>1, LooseTail
<1>5. Behind' = Behind
  <2>1. CASE fl > 0
    <3>1. From(q', Events, fl - 1) = From(q, Events, fl)
      BY <1>1, <2>1, FromTail
    <3> QED
      BY <1>1, <2>1, <3>1 DEF Behind, Kinds
  <2>2. CASE fl = 0
    <3>1. From(q', Events, -1) = CountIn(q', Events) /\ From(q, Events, 0) = CountIn(q, Events)
      BY <1>1, <1>2, CountNat
    <3>2. CountIn(q', Events) \in Nat
      BY <1>1, <1>2, CountNat
    <3>3. Behind = CountIn(q, Events)
      BY <1>1, <2>2, <3>1, <3>2, <1>3 DEF Behind, Events, Kinds
    <3>4. Behind' = CountIn(q', Events) + IF Head(q) \in Events THEN 1 ELSE 0
      BY <1>1, <2>2, <3>1 DEF Behind, Kinds
    <3> QED
      BY <1>3, <3>3, <3>4
  <2> QED
    BY <1>1, <2>1, <2>2
<1>6. Flag' = Flag
  BY DEF Flag
<1>7. CountIn(q', Release) \in Nat /\ CountIn(q', Events) \in Nat
  <2>1. \A K : CountIn(q', K) \in Nat
    BY <1>1, <1>2, CountNat
  <2> QED
    BY <2>1
<1>8. Frames'
  <2>1. pend' = IF Head(q) \in Release /\ pend >= 1 THEN pend - 1 ELSE pend
    BY DEF EvTake
  <2>2. Releases' = Releases - IF Head(q) \in Release THEN 1 ELSE 0
    BY <1>3, <1>7 DEF Releases
  <2>3. Releases >= IF Head(q) \in Release THEN 1 ELSE 0
    BY <1>3, <1>7 DEF Releases
  <2>4. pend' = Ends' + Releases' + Flag'
    BY <1>6, <2>1, <2>2, <2>3, <1>0 DEF Flows, Frames
  <2>5. Ending' + Releases' = Ending + Releases /\ Ending' \in Nat /\ Ending = 0
    BY <1>1, <2>2, <1>0 DEF Release, Ending
  <2>6. n' = n /\ Len(fence') = Len(fence) /\ Len(fence) \in Nat /\ Ends' = Ends
    BY <1>1
  <2>7. n = Len(fence) + Releases + Ends
    BY <1>0, <2>5, <2>6 DEF Flows, Frames
  <2>8. Releases' \in Nat
    BY <1>7 DEF Releases
  <2>9. n' = Len(fence') + Ending' + Releases' + Ends'
    <3>1. Releases \in Nat /\ Ends \in Nat
      BY <1>0
    <3>2. Releases' \in Nat /\ Ending' \in Nat /\ Ends' = Ends
      BY <2>5, <2>8
    <3>3. Ending' + Releases' = Releases
      BY <2>5, <3>1
    <3>4. n = Len(fence) + (Ending' + Releases') + Ends
      BY <2>7, <3>3
    <3> QED
      BY <2>6, <3>1, <3>2, <3>4
  <2> QED
    BY <2>4, <2>9 DEF Frames
<1>9. InUse' = InUse
  BY <1>1, <1>3, <1>7 DEF InUse, Entries, Events, Kinds
<1>10. Pool'
  <2> DEFINE lo == Loose(q')
  <2>1. lo \in Nat /\ lo <= Loose(q)
    BY <1>4
  <2>2. Room(d, InUse, Behind, Ends, Retires, Flag, lo)
    <3> HIDE DEF lo
    <3> QED
      BY <1>0, <2>1 DEF Flows, Pool, Room
  <2> QED
    BY <1>5, <1>6, <1>9, <2>2 DEF Pool
<1> QED
  BY <1>8, <1>10 DEF Flows

\* ... and ends it.
LEMMA FlowEnds ==
    ASSUME One, Flows, EvEnd, Ends' = Ends, Retires' = Retires, UNCHANGED <<n, d>>
    PROVE  Flows'
<1>0. /\ Ends \in Nat /\ Retires \in Nat /\ Flag \in Nat /\ Ending \in Nat /\ Behind \in Nat
      /\ Releases \in Nat /\ Entries(q) \in Nat /\ Loose(q) \in Nat /\ InUse \in Nat
  BY Counted
<1>1. q \in Seq(Kinds) /\ fl \in Nat /\ q' = q /\ cur # "none" /\ cur' = "none" /\ pend' = pend
      /\ cur \in Kinds /\ fl' = IF fl > 0 THEN fl - 1 ELSE 0
  BY DEF One, Typing, EventTyping, EvEnd
<1>2. Flag' = Flag /\ Releases' = Releases /\ "none" \notin Release
  BY <1>1 DEF Flag, Releases, Release
<1>3. Frames'
  <2>1. Len(fence') = Len(fence) + Ending /\ Len(fence) \in Nat /\ Ending' = 0
    BY DEF EvEnd, Release, Ending
  <2> QED
    BY <1>1, <1>2, <2>1 DEF Flows, Frames
<1>4. Behind' <= Behind
  <2>1. CASE fl > 0
    BY <1>1, <2>1, <1>0 DEF Behind, Events, Kinds
  <2>2. CASE fl = 0
    <3>1. From(q, Events, 0) = From(q, Events, -1) /\ From(q, Events, 0) \in Nat
      BY <1>1, CountNat
    <3> QED
      BY <1>1, <2>2, <3>1 DEF Behind, Events, Kinds
  <2> QED
    BY <1>1, <2>1, <2>2
<1>5. InUse' <= InUse /\ InUse' \in Nat
  BY <1>1, <1>0 DEF InUse, Kinds
<1>6. Pool'
  <2> DEFINE iu == InUse'  be == Behind'
  <2>1. iu \in Nat /\ iu <= InUse /\ be \in Int /\ be <= Behind
    BY <1>1, <1>4, <1>5, FromEnds DEF Behind
  <2>2. Room(d, iu, be, Ends, Retires, Flag, Loose(q))
    <3> HIDE DEF iu, be
    <3> QED
      BY <1>0, <2>1 DEF Flows, Pool, Room
  <2>3. Loose(q') = Loose(q) /\ d' = d
    BY <1>1
  <2> QED
    BY <1>2, <2>2, <2>3 DEF Pool
<1> QED
  BY <1>3, <1>6 DEF Flows

\* The flush before a kickoff waits for the entries of the frames before, unless none of
\* them is pending: then the entries are retire events, and few.
LEMMA FlowFlushes ==
    ASSUME One, Flows, d = "flush", d' = "flushing", FlushStart,
           Ends' = Ends, Retires' = Retires, n' = n, Ends + Retires <= 3
    PROVE  Flows'
<1>0. /\ Ends \in Nat /\ Retires \in Nat /\ Flag \in Nat /\ Ending \in Nat /\ Behind \in Nat
      /\ Releases \in Nat /\ Entries(q) \in Nat /\ Loose(q) \in Nat /\ InUse \in Nat
  BY Counted
<1>1. /\ q \in Seq(Kinds) /\ q' = q /\ cur' = cur /\ pend' = pend /\ fence' = fence
      /\ fl' = IF pend = 0 THEN 0 ELSE Todo
  BY DEF One, Typing, EventTyping, FlushStart
<1>2. Flag = 0 /\ Flag' = 0
  BY DEF Flag
<1>3. InUse' = InUse /\ Loose(q') = Loose(q) /\ Releases' = Releases /\ Ending' = Ending
  BY <1>1 DEF InUse, Releases, Ending
<1>4. Frames'
  BY <1>1, <1>2, <1>3 DEF Flows, Frames
<1> DEFINE be == Behind'
<1>5. be \in Int /\ be + Ends + Retires <= 3
  <2>1. CASE pend = 0
    <3>1. Ends = 0 /\ Releases = 0
      BY <1>0, <2>1 DEF Flows, Frames
    <3>2. Entries(q) = Loose(q)
      BY <1>1, <3>1, LooseAll DEF Releases
    <3>3. From(q, Events, 0) = Entries(q) /\ From(q, Events, -1) = Entries(q)
      BY <1>1, CountNat DEF Entries, Events
    <3>4. be <= Entries(q) + 1 /\ be \in Int
      BY <1>0, <1>1, <2>1, <3>3 DEF Behind
    <3>5. Loose(q) + Retires <= 2
      BY <1>2, <3>1 DEF Flows, Pool, Room
    <3> HIDE DEF be
    <3> QED
      BY <1>0, <3>1, <3>2, <3>4, <3>5
  <2>2. CASE pend # 0
    <3>1. be = 0
      <4>1. Todo \in Nat /\ (cur = "none" => Todo = Len(q)) /\ (cur # "none" => Todo = Len(q) + 1)
        BY <1>1 DEF Todo
      <4>2. From(q, Events, Len(q)) = 0
        BY <1>1, FromEnds
      <4>3. cur \in Events => Todo # 0
        BY <4>1 DEF Events, Kinds
      <4> QED
        BY <1>1, <2>2, <4>1, <4>2, <4>3 DEF Behind
    <3> HIDE DEF be
    <3> QED
      BY <1>0, <3>1
  <2> QED
    BY <2>1, <2>2
<1>6. Room("flushing", InUse, be, Ends, Retires, 0, Loose(q))
  <2> HIDE DEF be
  <2> QED
    BY <1>2, <1>5 DEF Flows, Pool, Room
<1>7. Pool'
  BY <1>2, <1>3, <1>6 DEF Pool
<1> QED
  BY <1>4, <1>7 DEF Flows

\* The flush is over and the frame is counted.
LEMMA FlowKicks ==
    ASSUME One, Flows, d = "flushing", d' = "flushhw", fl = 0, Kicked,
           Ends' = Ends, Retires' = Retires, n' = n
    PROVE  Flows'
<1>0. /\ Ends \in Nat /\ Retires \in Nat /\ Flag \in Nat /\ Ending \in Nat /\ Behind \in Nat
      /\ Releases \in Nat /\ Entries(q) \in Nat /\ Loose(q) \in Nat /\ InUse \in Nat
  BY Counted
<1>1. q \in Seq(Kinds) /\ UNCHANGED <<q, cur, fl, fence>> /\ pend' = pend + 1
  BY DEF One, Typing, EventTyping, Kicked
<1>2. Flag = 0 /\ Flag' = 1
  BY DEF Flag
<1>3. /\ InUse' = InUse /\ Loose(q') = Loose(q) /\ Releases' = Releases /\ Ending' = Ending
      /\ Behind' = Behind
  BY <1>1 DEF InUse, Releases, Ending, Behind
<1>4. Frames'
  BY <1>0, <1>1, <1>2, <1>3 DEF Flows, Frames
<1>5. InUse = Behind
  <2>1. From(q, Events, 0) = Entries(q) /\ From(q, Events, -1) = Entries(q)
    BY <1>1, CountNat DEF Entries, Events
  <2> QED
    BY <2>1 DEF InUse, Behind, Events
<1>6. Room("flushhw", InUse, Behind, Ends, Retires, 1, Loose(q))
  BY <1>0, <1>5 DEF Flows, Pool, Room
<1> QED
  BY <1>2, <1>3, <1>4, <1>6 DEF Flows, Pool

\* The retire fence of the frame is counted, then the frame in the encoder.
LEMMA FlowCounts ==
    ASSUME One, Flows, UNCHANGED <<pend, q, cur, fl, fence>>,
           \/ /\ d = "flushhw" /\ d' = "count"
              /\ Ends' = Ends /\ Retires' = Retires + 1 /\ n' = n
           \/ /\ d = "count" /\ d' = "start"
              /\ Ends' = Ends + 1 /\ Retires' = Retires /\ n' = n + 1
    PROVE  Flows'
<1>0. /\ Ends \in Nat /\ Retires \in Nat /\ Flag \in Nat /\ Ending \in Nat /\ Behind \in Nat
      /\ Releases \in Nat /\ Entries(q) \in Nat /\ Loose(q) \in Nat /\ InUse \in Nat
  BY Counted
<1>2. /\ InUse' = InUse /\ Loose(q') = Loose(q) /\ Releases' = Releases /\ Ending' = Ending
      /\ Behind' = Behind
  BY DEF InUse, Releases, Ending, Behind
<1> DEFINE en == Ends'  re == Retires'
<1>3. CASE d = "flushhw"
  <2>1. Flag = 1 /\ Flag' = 1 /\ d' = "count" /\ en = Ends /\ re = Retires + 1 /\ n' = n
    BY <1>3 DEF Flag
  <2>2. Frames'
    BY <1>2, <2>1 DEF Flows, Frames
  <2>3. Room("count", InUse, Behind, en, re, 1, Loose(q))
    <3> HIDE DEF en, re
    <3> QED
      BY <1>0, <2>1 DEF Flows, Pool, Room
  <2> QED
    BY <1>2, <2>1, <2>2, <2>3 DEF Flows, Pool
<1>4. CASE d = "count"
  <2>1. Flag = 1 /\ Flag' = 0 /\ d' = "start" /\ en = Ends + 1 /\ re = Retires /\ n' = n + 1
    BY <1>4 DEF Flag
  <2>2. Frames'
    BY <1>0, <1>2, <2>1 DEF Flows, Frames
  <2>3. Room("start", InUse, Behind, en, re, 0, Loose(q))
    <3> HIDE DEF en, re
    <3> QED
      BY <1>0, <2>1 DEF Flows, Pool, Room
  <2> QED
    BY <1>2, <2>1, <2>2, <2>3 DEF Flows, Pool
<1> QED
  BY <1>3, <1>4

\* sde_crtc_disable flushes the thread for the last time ...
LEMMA FlowStops ==
    ASSUME One, Flows, d = "dflush", d' = "dend", WorkerFlush,
           Ends' = Ends, Retires' = Retires, n' = n
    PROVE  Flows'
<1>1. UNCHANGED <<pend, q, cur, fence>>
  BY DEF WorkerFlush
<1>2. InUse' = InUse /\ Loose(q') = Loose(q) /\ Releases' = Releases /\ Ending' = Ending
  BY <1>1 DEF InUse, Releases, Ending
<1>3. Flag' = Flag
  BY DEF Flag
<1>4. Frames'
  BY <1>1, <1>2, <1>3 DEF Flows, Frames
<1>5. Pool'
  BY <1>2, <1>3 DEF Flows, Pool, Room
<1> QED
  BY <1>4, <1>5 DEF Flows

\* ... and forgets the frames that did not end, of which there are none.
LEMMA FlowOff ==
    ASSUME One, Flows, d = "dend", d' = "off", Todo = 0, CrtcOff(n),
           Ends = 0, Ends' = Ends, Retires' = Retires, n' = n
    PROVE  Flows' /\ q = <<>> /\ cur = "none" /\ Len(fence') = n'
<1>1. q \in Seq(Kinds) /\ n \in Nat
  BY DEF One, Typing, EventTyping, ThreadTyping
<1>2. q = <<>> /\ cur = "none"
  <2>1. Len(q) \in Nat
    BY <1>1
  <2>2. Len(q) = 0 /\ cur = "none"
    BY <2>1 DEF Todo
  <2> QED
    BY <2>2
<1>3. UNCHANGED <<q, cur, fl>> /\ pend' = 0 /\ Len(fence') = n
  BY <1>1 DEF CrtcOff
<1>4. Flag = 0 /\ Flag' = 0
  BY DEF Flag
<1>5. Releases = 0 /\ Ending = 0
  <2>2. Cardinality({}) = 0
    BY FS_EmptySet
  <2> QED
    BY <1>2, <2>2 DEF Releases, CountIn, Ending, Release
<1>6. InUse' = InUse /\ Loose(q') = Loose(q) /\ Releases' = Releases /\ Ending' = Ending
  BY <1>3 DEF InUse, Releases, Ending
<1>7. Frames'
  BY <1>3, <1>4, <1>5, <1>6 DEF Frames
<1>8. Pool'
  BY <1>4, <1>6 DEF Flows, Pool, Room
<1> QED
  BY <1>2, <1>3, <1>7, <1>8 DEF Flows

-----------------------------------------------------------------------------
(* The steps of a wait and of the hardware in plain terms                  *)

\* One frame is taken off the count, and context t has an event to send for it.
Gives(t, ev) ==
    /\ kick[1] > 0 /\ kick'[1] = kick[1] - 1
    /\ send'[t].p = 1 /\ send'[t].ev = ev
    /\ \A u \in DOMAIN send : u # t => send'[u] = send[u]

\* The wait of thread t goes to position x.
Goes(t, x, c) ==
    /\ w'[t].ph = x /\ w'[t].p = (IF x = "end" THEN 0 ELSE 1) /\ w'[t].chk = c
    /\ \A u \in Threads : u # t => w'[u] = w[u]

Single == cfg.n = 1 /\ Phys = {1} /\ Phys' = Phys

\* A wait starts with the test of encoder 1 and leaves no frame.
LEMMA Starts ==
    ASSUME Single, Typing, NEW t \in Threads, StartWait(t)
    PROVE  WaitTyping' /\ Goes(t, "test", 0)
<1> DEFINE x == [NoWait EXCEPT !.ph = "test", !.p = 1]
<1>1. w' = [w EXCEPT ![t] = x]
  BY DEF StartWait
<1>2. x \in [ph : Before \cup {"no", "end"}, p : 0 .. 1, chk : 0 .. 1, rc : {"ok", "late"}]
  <2>1. x \in [ph : {"test"}, p : {1}, chk : {0}, rc : {"ok"}]
    BY DEF NoWait
  <2> HIDE DEF x
  <2> QED
    BY <2>1 DEF Before
<1>3. x.ph = "test" /\ x.p = 1 /\ x.chk = 0
  BY DEF NoWait
<1> HIDE DEF x
<1> QED
  BY <1>1, <1>2, <1>3 DEF Typing, WaitTyping, Goes

\* With one encoder the next encoder of a wait is its end.
LEMMA NextEnds ==
    ASSUME Single, Typing, NEW t \in Threads, NEW rc \in {"ok", "late"}, NEW all,
           w[t].p = 1, NextPhys(t, rc, all)
    PROVE  WaitTyping' /\ Goes(t, "end", 0)
<1> DEFINE r == IF rc = "late" \/ w[t].rc = "late" THEN "late" ELSE "ok"
           x == [NoWait EXCEPT !.ph = "end", !.rc = r]
<1>1. w' = [w EXCEPT ![t] = x]
  BY DEF NextPhys, Single
<1>2. x \in [ph : Before \cup {"no", "end"}, p : 0 .. 1, chk : 0 .. 1, rc : {"ok", "late"}]
  <2>1. x \in [ph : {"end"}, p : {0}, chk : {0}, rc : {r}] /\ r \in {"ok", "late"}
    BY DEF NoWait
  <2> HIDE DEF x, r
  <2> QED
    BY <2>1 DEF Before
<1>3. x.ph = "end" /\ x.p = 0 /\ x.chk = 0
  BY DEF NoWait
<1> HIDE DEF x
<1> QED
  BY <1>1, <1>2, <1>3 DEF Typing, WaitTyping, Goes

\* A waiter or an interrupt takes a frame out of the encoder, if there is one, and has its
\* end to send.
LEMMA Given ==
    ASSUME Single, Typing, NEW t \in DOMAIN send, NEW ev \in Release, GiveBack(t, 1, ev)
    PROVE  /\ kick' \in [Phys' -> Nat] /\ SendTyping'
           /\ \/ Gives(t, ev)
              \/ kick[1] = 0 /\ kick' = kick /\ send' = send
<1>1. CASE kick[1] > 0
  <2> DEFINE x == [p |-> 1, ev |-> ev]
  <2>1. kick' = [kick EXCEPT ![1] = kick[1] - 1] /\ send' = [send EXCEPT ![t] = x]
    BY <1>1 DEF GiveBack
  <2>2. x \in [p : 0 .. 1, ev : Release \cup {"retire", "none"}] /\ x.p = 1 /\ x.ev = ev
    OBVIOUS
  <2> HIDE DEF x
  <2> QED
    BY <1>1, <2>1, <2>2 DEF Gives, Single, Typing, PhysTyping, SendTyping
<1>2. CASE ~(kick[1] > 0)
  BY <1>2 DEF GiveBack, Single, Typing, PhysTyping, SendTyping
<1> QED
  BY <1>1, <1>2

\* The same for the retire fence.
LEMMA GivenRetire ==
    ASSUME Single, Typing, NEW t \in DOMAIN send, GiveRetire(t)
    PROVE  /\ retire' \in Nat /\ SendTyping'
           /\ \/ /\ retire > 0 /\ retire' = retire - 1
                 /\ send'[t].p = 1 /\ send'[t].ev = "retire"
                 /\ \A u \in DOMAIN send : u # t => send'[u] = send[u]
              \/ retire = 0 /\ retire' = retire /\ send' = send
<1>1. CASE retire > 0
  <2> DEFINE x == [p |-> 1, ev |-> "retire"]
  <2>1. retire' = retire - 1 /\ send' = [send EXCEPT ![t] = x]
    BY <1>1 DEF GiveRetire
  <2>2. x \in [p : 0 .. 1, ev : Release \cup {"retire", "none"}] /\ x.p = 1 /\ x.ev = "retire"
    OBVIOUS
  <2> HIDE DEF x
  <2> QED
    BY <1>1, <2>1, <2>2 DEF Typing, PhysTyping, SendTyping
<1>2. CASE ~(retire > 0)
  BY DEF GiveRetire, Typing, PhysTyping, SendTyping
<1> QED
  BY <1>1, <1>2

\* What the test at the start of a wait does with one encoder.
LEMMA TestDoes ==
    ASSUME Single, Typing, Contexts, NEW t \in Threads, NEW all, WaitTest(t, all)
    PROVE  /\ kick' \in [Phys' -> Nat] /\ SendTyping' /\ WaitTyping'
           /\ w[t].ph = "test" /\ send[t] = NoSend
           /\ \/ SchedulerIdle(1) /\ Gives(t, "done") /\ Goes(t, "end", 0)
              \/ kick[1] = 0 /\ kick' = kick /\ send' = send /\ Goes(t, "end", 0)
              \/ /\ kick[1] > 0 /\ kick' = kick /\ send' = send
                 /\ Goes(t, "wait", IF kick[1] > 1 THEN 1 ELSE 0)
<1>1. w[t].ph = "test" /\ send[t] = NoSend /\ w[t].p = 1
  BY DEF WaitTest, Contexts, Before
<1>2. /\ t \in DOMAIN send /\ "done" \in Release /\ kick[1] \in Nat
      /\ kick \in [Phys' -> Nat] /\ (send' = send => SendTyping')
  BY DEF Release, Single, Typing, PhysTyping, SendTyping
<1>3. CASE SchedulerIdle(1)
  <2>1. GiveBack(t, 1, "done") /\ NextPhys(t, "ok", all)
    BY <1>1, <1>3 DEF WaitTest
  <2>2. kick[1] > 0
    BY <1>3 DEF SchedulerIdle
  <2>3. WaitTyping' /\ Goes(t, "end", 0)
    BY <1>1, <2>1, NextEnds
  <2>4. kick' \in [Phys' -> Nat] /\ SendTyping' /\ Gives(t, "done")
    BY <1>2, <2>1, <2>2, Given
  <2> QED
    BY <1>1, <1>3, <2>3, <2>4
<1>4. CASE ~SchedulerIdle(1) /\ kick[1] = 0
  <2>1. NextPhys(t, "ok", all) /\ kick' = kick /\ send' = send
    BY <1>1, <1>4 DEF WaitTest
  <2>2. WaitTyping' /\ Goes(t, "end", 0)
    BY <1>1, <2>1, NextEnds
  <2> QED
    BY <1>1, <1>2, <1>4, <2>1, <2>2
<1>5. CASE ~SchedulerIdle(1) /\ kick[1] # 0
  <2> DEFINE c == IF kick[1] > 1 THEN 1 ELSE 0
  <2>1. w' = [w EXCEPT ![t].ph = "wait", ![t].chk = c] /\ kick' = kick /\ send' = send
    BY <1>1, <1>5 DEF WaitTest
  <2>2. WaitTyping' /\ Goes(t, "wait", c)
    <3>1. c \in 0 .. 1
      OBVIOUS
    <3> HIDE DEF c
    <3> QED
      BY <1>1, <2>1, <3>1 DEF Typing, WaitTyping, Before, Goes
  <2> QED
    BY <1>1, <1>2, <1>5, <2>1, <2>2
<1> QED
  BY <1>3, <1>4, <1>5

\* What the end of the time of a wait does with one encoder.
LEMMA GiveUpDoes ==
    ASSUME Single, Typing, Contexts, NEW t \in Threads, NEW all, WaitGiveUp(t, all)
    PROVE  /\ kick' \in [Phys' -> Nat] /\ SendTyping' /\ WaitTyping'
           /\ w[t].ph = "over" /\ send[t] = NoSend
           /\ \/ SchedulerIdle(1) /\ Gives(t, "done") /\ Goes(t, "end", 0)
              \/ kick[1] = 0 /\ kick' = kick /\ send' = send /\ Goes(t, "end", 0)
              \/ /\ kick[1] > 0 /\ kick'[1] = kick[1] - 1 /\ send' = send
                 /\ Goes(t, "late", w[t].chk)
<1>1. w[t].ph = "over" /\ send[t] = NoSend /\ w[t].p = 1
  BY DEF WaitGiveUp, Contexts, Before
<1>2. /\ t \in DOMAIN send /\ "done" \in Release /\ kick[1] \in Nat
      /\ kick \in [Phys' -> Nat] /\ (send' = send => SendTyping')
  BY DEF Release, Single, Typing, PhysTyping, SendTyping
<1>3. CASE SchedulerIdle(1)
  <2>1. GiveBack(t, 1, "done") /\ NextPhys(t, "ok", all)
    BY <1>1, <1>3 DEF WaitGiveUp
  <2>2. kick[1] > 0
    BY <1>3 DEF SchedulerIdle
  <2>3. WaitTyping' /\ Goes(t, "end", 0)
    BY <1>1, <2>1, NextEnds
  <2>4. kick' \in [Phys' -> Nat] /\ SendTyping' /\ Gives(t, "done")
    BY <1>2, <2>1, <2>2, Given
  <2> QED
    BY <1>1, <1>3, <2>3, <2>4
<1>4. CASE ~SchedulerIdle(1) /\ kick[1] = 0
  <2>1. NextPhys(t, "late", all) /\ kick' = kick /\ send' = send
    BY <1>1, <1>4 DEF WaitGiveUp
  <2>2. WaitTyping' /\ Goes(t, "end", 0)
    BY <1>1, <2>1, NextEnds
  <2> QED
    BY <1>1, <1>2, <1>4, <2>1, <2>2
<1>5. CASE ~SchedulerIdle(1) /\ kick[1] > 0
  <2>0. kick[1] > 0 /\ kick[1] # 0
    BY <1>2, <1>5
  <2>1. w' = [w EXCEPT ![t].ph = "late"] /\ send' = send
    BY <1>1, <1>5, <2>0 DEF WaitGiveUp
  <2>4. kick' = [kick EXCEPT ![1] = kick[1] - 1]
    BY <1>1, <1>5, <2>0 DEF WaitGiveUp
  <2>2. WaitTyping' /\ Goes(t, "late", w[t].chk)
    BY <1>1, <2>1 DEF Typing, WaitTyping, Before, Goes
  <2>3. kick' \in [Phys' -> Nat] /\ kick'[1] = kick[1] - 1
    BY <1>2, <1>5, <2>4 DEF Single
  <2> QED
    BY <1>1, <1>2, <1>5, <2>1, <2>2, <2>3
<1> QED
  BY <1>2, <1>3, <1>4, <1>5

\* What a waiter does that finds pp_done latched.
LEMMA LatchedDoes ==
    ASSUME Single, Typing, Contexts, NEW t \in Threads, NEW all, WaitLatched(t, all)
    PROVE  /\ kick' \in [Phys' -> Nat] /\ SendTyping' /\ WaitTyping'
           /\ w[t].ph = "wait" /\ send[t] = NoSend /\ 1 \in hw.lat
           /\ hw' = [hw EXCEPT !.lat = @ \ {1}] /\ retire' = retire
           /\ Gives(t, "done") /\ Goes(t, "end", 0)
<1>1. w[t].ph = "wait" /\ send[t] = NoSend /\ w[t].p = 1 /\ w[t].chk \in 0 .. 1
  BY DEF WaitLatched, Contexts, Typing, WaitTyping
<1>2. t \in DOMAIN send /\ "done" \in Release /\ kick[1] \in Nat
  BY DEF Release, Single, Typing, PhysTyping, SendTyping
<1>3. /\ 1 \in hw.lat /\ kick[1] > 0 /\ hw' = [hw EXCEPT !.lat = @ \ {1}] /\ retire' = retire
      /\ GiveBack(t, 1, "done") /\ NextPhys(t, "ok", all)
  BY <1>1, <1>2 DEF WaitLatched, Callback
<1>4. WaitTyping' /\ Goes(t, "end", 0)
  BY <1>1, <1>3, NextEnds
<1>5. kick' \in [Phys' -> Nat] /\ SendTyping' /\ Gives(t, "done")
  BY <1>2, <1>3, Given
<1> QED
  BY <1>1, <1>3, <1>4, <1>5

\* What a waiter does whose frames are done.
LEMMA OkDoes ==
    ASSUME Single, Typing, Contexts, NEW t \in Threads, NEW all, WaitOk(t, all)
    PROVE  /\ WaitTyping' /\ w[t].ph = "wait" /\ send[t] = NoSend /\ kick[1] <= w[t].chk
           /\ Goes(t, "end", 0)
<1>1. w[t].ph = "wait" /\ send[t] = NoSend /\ w[t].p = 1 /\ kick[1] <= w[t].chk
  BY DEF WaitOk, Contexts, Before
<1> QED
  BY <1>1, NextEnds DEF WaitOk

\* What the report of a frame given up does.
LEMMA FailedDoes ==
    ASSUME Single, Typing, Contexts, NEW t \in Threads, NEW all \in BOOLEAN, WaitFailed(t, all)
    PROVE  /\ kick' \in [Phys' -> Nat] /\ SendTyping' /\ WaitTyping'
           /\ w[t].ph = "late" /\ send[t] = NoSend
           /\ kick'[1] = IF all THEN 0 ELSE kick[1]
           /\ send'[t].p = 1 /\ send'[t].ev = "error"
           /\ \A u \in DOMAIN send : u # t => send'[u] = send[u]
           /\ Goes(t, "end", 0)
<1>1. w[t].ph = "late" /\ send[t] = NoSend /\ w[t].p = 1
  BY DEF WaitFailed, Contexts, Before
<1>2. t \in DOMAIN send /\ kick \in [Phys' -> Nat]
  BY DEF Single, Typing, PhysTyping, SendTyping
<1> DEFINE x == [p |-> 1, ev |-> "error"]
<1>3. send' = [send EXCEPT ![t] = x] /\ kick' = IF all THEN [kick EXCEPT ![1] = 0] ELSE kick
  BY <1>1 DEF WaitFailed
<1>4. x \in [p : 0 .. 1, ev : Release \cup {"retire", "none"}] /\ x.p = 1 /\ x.ev = "error"
  BY DEF Release
<1>5. WaitTyping' /\ Goes(t, "end", 0)
  BY <1>1, NextEnds DEF WaitFailed
<1> HIDE DEF x
<1>6. /\ SendTyping' /\ send'[t].p = 1 /\ send'[t].ev = "error"
      /\ \A u \in DOMAIN send : u # t => send'[u] = send[u]
  BY <1>3, <1>4 DEF Typing, SendTyping
<1>7. kick' \in [Phys' -> Nat] /\ kick'[1] = IF all THEN 0 ELSE kick[1]
  BY <1>2, <1>3 DEF Single
<1> QED
  BY <1>1, <1>5, <1>6, <1>7

\* What the hardware does: it takes the posted frame, or is through with one.
LEMMA HwDoes ==
    ASSUME Single, Typing, HwStart \/ HwDone(1)
    PROVE  /\ HwTyping' /\ faults' \in Nat
           /\ hw'.dead = hw.dead /\ hw'.hung = hw.hung
           /\ \/ /\ hw.posted # 0 /\ hw.busy = {} /\ 0 \notin hw.lat
                 /\ hw'.posted = 0 /\ hw'.frame = hw.posted /\ hw'.busy = {1}
                 /\ hw'.lat = hw.lat \cup {0} \/ hw'.lat = hw.lat
              \/ /\ hw.busy = {1} /\ 1 \notin hw.lat
                 /\ hw'.posted = hw.posted /\ hw'.frame = hw.frame /\ hw'.busy = {}
                 /\ hw'.lat = hw.lat \cup {1}
<1>0. cfg' = cfg /\ faults \in Nat
  BY DEF HwStart, HwDone, Typing, PhysTyping
<1>1. CASE HwStart
  <2>1. PICK wr \in {{0}, {}} :
            /\ hw' = [hw EXCEPT !.posted = 0, !.frame = hw.posted, !.busy = Phys,
                                !.lat = hw.lat \cup wr]
            /\ faults' = IF wr = {} THEN faults + 1 ELSE faults
    BY <1>1 DEF HwStart
  <2>2. hw.posted # 0 /\ hw.busy = {} /\ 0 \notin hw.lat
    BY <1>1 DEF HwStart
  <2>3. /\ hw'.posted = 0 /\ hw'.frame = hw.posted /\ hw'.busy = {1} /\ hw'.lat = hw.lat \cup wr
        /\ hw'.dead = hw.dead /\ hw'.hung = hw.hung
    BY <2>1 DEF Single
  <2>4. wr \subseteq 0 .. cfg.n
    BY DEF Single
  <2>5. HwTyping'
    BY <1>0, <2>1, <2>4 DEF Single, Typing, HwTyping
  <2>6. faults' \in Nat
    BY <1>0, <2>1
  <2> QED
    BY <2>2, <2>3, <2>5, <2>6
<1>2. CASE HwDone(1)
  <2>1. /\ hw.busy = {1} /\ 1 \notin hw.lat /\ faults' = faults
        /\ hw' = [hw EXCEPT !.busy = {}, !.lat = hw.lat \cup {1}]
    BY <1>2 DEF HwDone, Single, Typing, HwTyping
  <2>3. HwTyping'
    <3>1. {1} \subseteq 0 .. cfg.n
      BY DEF Single
    <3> QED
      BY <1>0, <2>1, <3>1 DEF Typing, HwTyping
  <2> QED
    BY <1>0, <2>1, <2>3
<1> QED
  BY <1>1, <1>2

\* What the expiry of a wait does.
LEMMA OverDoes ==
    ASSUME Single, Typing, Contexts, NEW t \in Threads, WaitLate(t)
    PROVE  /\ WaitTyping' /\ w[t].ph = "wait" /\ send[t] = NoSend /\ Goes(t, "over", w[t].chk)
           /\ kick[1] > w[t].chk
<1>1. w[t].ph = "wait" /\ send[t] = NoSend /\ w[t].p = 1 /\ kick[1] > w[t].chk
  BY DEF WaitLate, Contexts, Before
<1>2. w' = [w EXCEPT ![t].ph = "over"]
  BY DEF WaitLate
<1> QED
  BY <1>1, <1>2 DEF Typing, WaitTyping, Before, Goes

\* What the hardware reads stays as it is, or less.
LEMMA ReadsStay ==
    ASSUME Single, Typing, Reads, kick' \in [Phys' -> Nat], n' = n, cfg' = cfg,
           "gaveup" \in past => "gaveup" \in past', Ahead' \in {Ahead, Ahead + 1},
           pdead # "no" => pdead' # "no", d' = "start" => d = "start",
           hw'.busy = {} \/ (hw'.busy = hw.busy /\ hw'.frame = hw.frame),
           hw'.posted = 0 \/ hw'.posted = hw.posted
    PROVE  Reads'
<1>1. n \in Nat /\ Ahead \in Int /\ hw.posted \in Nat /\ hw.frame \in Nat
  BY DEF Single, Typing, PhysTyping, HwTyping, ThreadTyping, Ahead, Slack, Owed, Latched, Late
<1> DEFINE a == Ahead  aa == Ahead'  bu == Busy  po == Posted  bu2 == Busy'  po2 == Posted'
<1>2. /\ bu \in {0, 1} /\ po \in {0, 1} /\ bu2 \in {0, 1} /\ po2 \in {0, 1}
      /\ bu2 <= bu /\ po2 <= po
      /\ hw'.busy # {} => bu2 = 1
  BY DEF Busy, Posted
<1>3. /\ Reads <=> ("gaveup" \notin past /\ ~(pdead # "no" /\ "posted" \in cfg.modes) =>
            /\ hw.busy # {} => n >= hw.frame /\ hw.frame >= n - a + 1
            /\ hw.posted # 0 => n >= hw.posted /\ hw.posted >= n - a + 1 + bu
            /\ d = "start" => a >= 1 + bu + po)
      /\ Reads' <=> ("gaveup" \notin past' /\ ~(pdead' # "no" /\ "posted" \in cfg.modes) =>
            /\ hw'.busy # {} => n >= hw'.frame /\ hw'.frame >= n - aa + 1
            /\ hw'.posted # 0 => n >= hw'.posted /\ hw'.posted >= n - aa + 1 + bu2
            /\ d' = "start" => aa >= 1 + bu2 + po2)
  BY DEF Reads
<1>4. a \in Int /\ aa \in Int /\ aa >= a
  BY <1>1
<1> HIDE DEF a, aa, bu, po, bu2, po2
<1> QED
  BY <1>1, <1>2, <1>3, <1>4

\* A frame leaves the encoder: its end is sent, or there is a thread that gives it up.
LEMMA Leaves ==
    ASSUME Single, Typing, NEW t \in Threads \cup {"irq"}, NEW ev \in Release,
           Gives(t, ev), send[t] = NoSend, retire' = retire,
           \A u \in Threads : w'[u].ph = "late" <=> w[u].ph = "late"
    PROVE  /\ Ends' = Ends /\ Retires' = Retires
           /\ Late("disp")' = Late("disp") /\ Late("esd")' = Late("esd")
<1>1. kick[1] \in Nat /\ t \in DOMAIN send /\ send[t].ev = "none"
  BY DEF Single, Typing, PhysTyping, SendTyping, NoSend
<1>3. /\ Sent(t) = 0 /\ Told(t) = 0 /\ Sent(t)' = 1 /\ Told(t)' = 0
      /\ \A u \in Threads \cup {"irq"} : u # t => Sent(u)' = Sent(u) /\ Told(u)' = Told(u)
  <2>1. send'[t].ev = ev /\ ev # "retire" /\ "none" \notin Release
    BY DEF Gives, Release
  <2>2. Sent(t) = 0 /\ Told(t) = 0 /\ Sent(t)' = 1 /\ Told(t)' = 0
    BY <1>1, <2>1 DEF Sent, Told
  <2>3. ASSUME NEW u \in Threads \cup {"irq"}, u # t
        PROVE  Sent(u)' = Sent(u) /\ Told(u)' = Told(u)
    <3>1. send'[u] = send[u]
      BY <2>3 DEF Gives, Typing, SendTyping
    <3> QED
      BY <3>1 DEF Sent, Told
  <2> QED
    BY <2>2, <2>3
<1>4. kick'[1] = kick[1] - 1
  BY DEF Gives
<1>5. CASE t = "disp"
  BY <1>1, <1>3, <1>4, <1>5 DEF Ends, Retires, Threads, Late
<1>6. CASE t = "esd"
  BY <1>1, <1>3, <1>4 DEF Ends, Retires, Threads, Late, Sent
<1>7. CASE t = "irq"
  BY <1>1, <1>3, <1>4 DEF Ends, Retires, Threads, Late, Sent
<1> QED
  BY <1>5, <1>6, <1>7 DEF Threads

\* A step that leaves the encoder and the reports alone keeps the counts.
LEMMA Untouched ==
    ASSUME Single, kick' = kick, send' = send, retire' = retire,
           \A u \in Threads : w'[u].ph = "late" <=> w[u].ph = "late"
    PROVE  /\ Ends' = Ends /\ Retires' = Retires
           /\ Late("disp")' = Late("disp") /\ Late("esd")' = Late("esd")
  BY DEF Ends, Retires, Late, Sent, Told, Threads

\* A frame given up is still to be reported.
LEMMA GivenUp ==
    ASSUME Single, Typing, NEW t \in Threads, w[t].ph # "late", Goes(t, "late", w[t].chk),
           kick[1] > 0, kick'[1] = kick[1] - 1, send' = send, retire' = retire
    PROVE  /\ Ends' = Ends /\ Retires' = Retires
           /\ kick'[1] + Late("disp")' + Late("esd")' = kick[1] + Late("disp") + Late("esd")
<1>1. kick[1] \in Nat
  BY DEF Single, Typing, PhysTyping
<1>2. Late(t) = 0 /\ Late(t)' = 1 /\ \A u \in Threads : u # t => Late(u)' = Late(u)
  BY DEF Late, Goes
<1>3. Retires' = Retires /\ \A u \in Threads \cup {"irq"} : Sent(u)' = Sent(u)
  BY DEF Retires, Told, Sent
<1>4. CASE t = "disp"
  <2>1. Late("disp") = 0 /\ Late("disp")' = 1 /\ Late("esd")' = Late("esd")
    BY <1>2, <1>4 DEF Threads
  <2> QED
    BY <1>1, <1>3, <2>1 DEF Ends, Threads
<1>5. CASE t = "esd"
  <2>1. Late("esd") = 0 /\ Late("esd")' = 1 /\ Late("disp")' = Late("disp")
    BY <1>2, <1>5 DEF Threads
  <2> QED
    BY <1>1, <1>3, <2>1 DEF Ends, Threads, Late
<1> QED
  BY <1>4, <1>5 DEF Threads

\* The report of a frame given up is its end.
LEMMA FailedSent ==
    ASSUME Single, Typing, NEW t \in Threads, w[t].ph = "late", Goes(t, "end", 0),
           kick'[1] = kick[1], send[t] = NoSend, send'[t].ev = "error", retire' = retire,
           \A u \in DOMAIN send : u # t => send'[u] = send[u]
    PROVE  Ends' = Ends /\ Retires' = Retires
<1>1. kick[1] \in Nat /\ DOMAIN send = Threads \cup {"irq"}
  BY DEF Single, Typing, PhysTyping, SendTyping
<1>2. Late(t) = 1 /\ Late(t)' = 0 /\ \A u \in Threads : u # t => Late(u)' = Late(u)
  BY DEF Late, Goes
<1>3. Sent(t) = 0 /\ Told(t) = 0 /\ Sent(t)' = 1 /\ Told(t)' = 0
  BY DEF Sent, Told, NoSend, Release
<1>4. \A u \in Threads \cup {"irq"} : u # t => Sent(u)' = Sent(u) /\ Told(u)' = Told(u)
  BY <1>1 DEF Sent, Told
<1>5. CASE t = "disp"
  BY <1>1, <1>2, <1>3, <1>4, <1>5 DEF Ends, Retires, Threads, Late
<1>6. CASE t = "esd"
  BY <1>1, <1>2, <1>3, <1>4 DEF Ends, Retires, Threads, Late, Sent
<1> QED
  BY <1>5, <1>6 DEF Threads

\* The count of the retire fence is taken and its event is to be sent.
LEMMA Tells ==
    ASSUME Single, Typing, NEW t \in {"disp", "irq"}, send[t] = NoSend,
           retire > 0, retire' = retire - 1,
           send'[t].ev = "retire", \A u \in DOMAIN send : u # t => send'[u] = send[u],
           kick' = kick, w' = w
    PROVE  Ends' = Ends /\ Retires' = Retires
<1>1. kick[1] \in Nat /\ retire \in Nat /\ DOMAIN send = Threads \cup {"irq"}
  BY DEF Single, Typing, PhysTyping, SendTyping
<1>2. Sent(t) = 0 /\ Told(t) = 0 /\ Sent(t)' = 0 /\ Told(t)' = 1
  BY DEF Sent, Told, NoSend, Release
<1>3. \A u \in Threads \cup {"irq"} : u # t => Sent(u)' = Sent(u) /\ Told(u)' = Told(u)
  BY <1>1 DEF Sent, Told
<1>4. CASE t = "disp"
  BY <1>1, <1>2, <1>3, <1>4 DEF Ends, Retires, Threads, Late
<1>5. CASE t = "irq"
  BY <1>1, <1>2, <1>3 DEF Ends, Retires, Threads, Late, Told
<1> QED
  BY <1>4, <1>5

\* An event is sent.
LEMMA Sends ==
    ASSUME Single, Typing, Contexts, NEW t \in Threads \cup {"irq"}, Send(t),
           cb, InUse < EventSize
    PROVE  /\ send[t].ev \in Release \cup {"retire"} /\ q' = Append(q, send[t].ev)
           /\ t = "esd" => send[t].ev # "retire"
           /\ done' = [p \in Phys |-> 0] /\ SendTyping' /\ send'[t] = NoSend
           /\ \A u \in DOMAIN send : u # t => send'[u] = send[u]
           /\ UNCHANGED <<pend, cur, fl, fence, cb>>
<1>1. /\ DOMAIN send = Threads \cup {"irq"} /\ send[t] # NoSend /\ send[t].p = 1
      /\ send[t].ev \in Release \cup {"retire"} /\ done = [p \in Phys |-> 0]
  BY DEF Send, Contexts, Typing, SendTyping, PhysTyping
<1>2. t = "esd" => send[t].ev # "retire"
  BY <1>1 DEF Contexts, Release
<1>3. /\ send' = [send EXCEPT ![t] = NoSend]
      /\ SendTyping' /\ send'[t] = NoSend /\ \A u \in DOMAIN send : u # t => send'[u] = send[u]
  BY DEF Send, Typing, SendTyping, NoSend
<1>4. Post(send[t].ev) /\ done' = [p \in Phys |-> 0]
  <2>1. CASE send[t].ev = "retire"
    BY <1>1, <2>1 DEF Send
  <2>2. CASE send[t].ev # "retire"
    <3> DEFINE c == [done EXCEPT ![send[t].p] = @ + 1]
    <3>1. Phys = {1} /\ done[1] = 0 /\ done[send[t].p] = 0 /\ DOMAIN done = {1}
      BY <1>1 DEF Single
    <3>2. c = [p \in Phys |-> 1]
      BY <1>1, <3>1
    <3>3. AllDone(c) /\ [p \in Phys |-> c[p] - 1] = [p \in Phys |-> 0]
      BY <3>2 DEF AllDone
    <3>4. done[send[t].p] # 2 /\ done[send[t].p] < 2
      BY <3>1
    <3>5. Post(send[t].ev) /\ done' = [p \in Phys |-> c[p] - 1]
      <4> HIDE DEF c
      <4> QED
        BY <2>2, <3>3, <3>4 DEF Send, c
    <3> HIDE DEF c
    <3> QED
      BY <3>3, <3>5
  <2> QED
    BY <2>1, <2>2
<1> QED
  BY <1>1, <1>2, <1>3, <1>4 DEF Post

\* A report that arrives is no longer on its way.
LEMMA SentOff ==
    ASSUME Single, Typing, NEW t \in Threads \cup {"irq"}, send[t].ev \in Release \cup {"retire"},
           t = "esd" => send[t].ev # "retire", send'[t] = NoSend,
           \A u \in DOMAIN send : u # t => send'[u] = send[u],
           kick' = kick, retire' = retire, w' = w
    PROVE  /\ Ends' = Ends - (IF send[t].ev \in Release THEN 1 ELSE 0)
           /\ Retires' = Retires - (IF send[t].ev = "retire" THEN 1 ELSE 0)
<1>1. kick[1] \in Nat /\ retire \in Nat /\ DOMAIN send = Threads \cup {"irq"}
  BY DEF Single, Typing, PhysTyping, SendTyping
<1> DEFINE s == IF send[t].ev \in Release THEN 1 ELSE 0
           r == IF send[t].ev = "retire" THEN 1 ELSE 0
<1>2. Sent(t) = s /\ Told(t) = r /\ Sent(t)' = 0 /\ Told(t)' = 0
  BY DEF Sent, Told, NoSend, Release
<1>4. CASE t = "disp"
  BY <1>1, <1>2 DEF Ends, Retires, Threads, Late, Sent, Told
<1>5. CASE t = "irq"
  BY <1>1, <1>2 DEF Ends, Retires, Threads, Late, Sent, Told
<1>6. CASE t = "esd"
  BY <1>1, <1>2 DEF Ends, Retires, Threads, Late, Sent, Told
<1> QED
  BY <1>4, <1>5, <1>6 DEF Threads

-----------------------------------------------------------------------------
(* How many contexts are in a set                                          *)

\* An element more or less.
LEMMA LessOne ==
    ASSUME NEW S, IsFiniteSet(S), NEW x
    PROVE  /\ IsFiniteSet(S \ {x}) /\ Cardinality(S \ {x}) \in Nat
           /\ Cardinality(S) = Cardinality(S \ {x}) + IF x \in S THEN 1 ELSE 0
<1>1. IsFiniteSet(S \ {x}) /\ Cardinality(S \ {x}) \in Nat /\ Cardinality(S) \in Nat
  BY FS_RemoveElement, FS_CardinalityType
<1>2. x \in S => Cardinality(S) = Cardinality(S \ {x}) + 1
  BY <1>1, FS_RemoveElement
<1> QED
  BY <1>1, <1>2

\* The size of a set of threads.
LEMMA OfThree ==
    ASSUME NEW S \in SUBSET {"disp", "esd", "irq"}
    PROVE  Cardinality(S) = (IF "disp" \in S THEN 1 ELSE 0) + (IF "esd" \in S THEN 1 ELSE 0)
                            + (IF "irq" \in S THEN 1 ELSE 0)
<1> DEFINE A == S \ {"disp"}
           B == A \ {"esd"}
           C == B \ {"irq"}
<1>0. IsFiniteSet({"disp", "esd", "irq"})
  <2>1. IsFiniteSet({"irq"})
    BY FS_Singleton
  <2>2. IsFiniteSet({"irq"} \cup {"esd"})
    BY <2>1, FS_AddElement
  <2>3. IsFiniteSet({"irq"} \cup {"esd"} \cup {"disp"})
    BY <2>2, FS_AddElement
  <2>4. {"irq"} \cup {"esd"} \cup {"disp"} = {"disp", "esd", "irq"}
    OBVIOUS
  <2> QED
    BY <2>3, <2>4
<1>1. IsFiniteSet(S)
  BY <1>0, FS_Subset
<1>2. IsFiniteSet(A) /\ Cardinality(S) = Cardinality(A) + IF "disp" \in S THEN 1 ELSE 0
  BY <1>1, LessOne
<1>3. IsFiniteSet(B) /\ Cardinality(A) = Cardinality(B) + IF "esd" \in S THEN 1 ELSE 0
  BY <1>2, LessOne
<1>4. Cardinality(B) = Cardinality(C) + IF "irq" \in S THEN 1 ELSE 0
  <2>1. "irq" \in B <=> "irq" \in S
    OBVIOUS
  <2> HIDE DEF B
  <2> QED
    BY <1>3, <2>1, LessOne
<1>5. Cardinality(C) = 0
  <2>1. C = {}
    OBVIOUS
  <2> QED
    BY <2>1, FS_EmptySet
<1> HIDE DEF A, B, C
<1> QED
  BY <1>2, <1>3, <1>4, <1>5

-----------------------------------------------------------------------------
(* One step                                                                *)

\* A commit adds a frame that has no fence yet.
LEMMA CommitKeeps ==
    ASSUME Parts, Phys = {1}, cfg.n = 1, NEW m \in cfg.modes, Commit(m)
    PROVE  Parts'
<1>0. Single /\ One /\ Typing /\ Flows /\ cfg' = cfg
  BY DEF Single, One, Parts, Flows, Phys, Commit
<1>a. d = "idle" /\ d' \in {"prep", "reset"} /\ kick' = kick /\ send' = send /\ n' = n /\ e' = e
  BY DEF Commit
<1>b. WaitTyping' /\ IF d' = "prep" THEN Goes("disp", "test", 0) ELSE w' = w
  <2>1. CASE m = "default"
    <3>1. StartWait("disp") /\ d' = "prep"
      BY <2>1 DEF Commit
    <3> QED
      BY <1>0, <3>1, Starts DEF Threads
  <2>2. CASE m # "default"
    BY <1>0, <2>2 DEF Commit, Typing, WaitTyping
  <2> QED
    BY <2>1, <2>2
<1>c. /\ hw'.posted = hw.posted /\ hw'.lat = hw.lat /\ hw'.frame = hw.frame
      /\ hw'.busy = hw.busy \/ hw'.busy = {}
  BY DEF Commit, SoftReset
<1>1. Typing'
  <2>1. EventTyping'
    BY <1>0 DEF Typing, EventTyping, Commit, evvars
  <2>2. PhysTyping'
    BY <1>0 DEF Single, Typing, PhysTyping, Commit, Awake
  <2>3. HwTyping'
    BY <1>0 DEF Single, Typing, HwTyping, Commit, SoftReset
  <2>4. SendTyping'
    BY <1>0 DEF Typing, SendTyping, Commit
  <2>5. WaitTyping'
    BY <1>b
  <2>6. ThreadTyping'
    BY <1>0 DEF Typing, ThreadTyping, Waits, Begun, Commit
  <2> QED
    BY <2>1, <2>2, <2>3, <2>4, <2>5, <2>6 DEF Typing
<1>2. Contexts'
  BY <1>0, <1>a, <1>b, <1>c DEF Single, Parts, Typing, Contexts, Threads, Waits, Goes
<1>3. InFlight'
  BY <1>a, <1>b DEF Parts, Typing, PhysTyping, InFlight, Goal, Waits, Down, Goes
<1>4. RetireOnce'
  BY DEF Parts, RetireOnce, Told, Wr, Commit
<1>5. Thread'
  BY DEF Parts, Thread, Down, Commit, evvars
<1>6. Reads'
  <2>1. Ahead' \in {Ahead, Ahead + 1}
    <3>1. Owed' = Owed /\ Latched' = Latched
      BY <1>0, <1>a, <1>b, <1>c DEF Single, Parts, Typing, Contexts, Owed, Latched, Late,
         Goes, Threads, Waits
    <3>2. Slack' = Slack
      BY DEF Commit, Slack
    <3> QED
      BY <3>1, <3>2 DEF Ahead
  <2>2. kick' \in [Phys' -> Nat] /\ n' = n /\ cfg' = cfg
    BY <1>0, <1>1, <1>a DEF Typing, PhysTyping
  <2>3. /\ "gaveup" \in past => "gaveup" \in past'
        /\ (pdead # "no" => pdead' # "no") /\ (d' = "start" => d = "start")
        /\ hw'.busy = {} \/ (hw'.busy = hw.busy /\ hw'.frame = hw.frame)
        /\ hw'.posted = 0 \/ hw'.posted = hw.posted
    BY <1>c DEF Commit
  <2> QED
    BY <1>0, <2>1, <2>2, <2>3, ReadsStay DEF Parts
<1>7. Write'
  BY DEF Parts, Write, Wr, Commit, SoftReset
<1>8. Flows'
  <2>1. Ends' = Ends /\ Retires' = Retires
    BY <1>0, <1>a, <1>b, Untouched DEF Goes, Waits, Parts, Contexts, Commit
  <2>2. /\ UNCHANGED <<pend, q, cur, fl, fence, n>> /\ Flag' = Flag
        /\ d' = d \/ d' \notin {"flushing", "flushhw", "count"}
    BY DEF Flag, Commit, evvars
  <2> QED
    BY <1>0, <2>1, <2>2, FlowRests
<1>9. QED
  BY <1>1, <1>2, <1>3, <1>4, <1>5, <1>6, <1>7, <1>8 DEF Parts, Flows

\* Preparing a kickoff is over once the frames in flight are down to none.
LEMMA PreparedKeeps ==
    ASSUME Parts, Phys = {1}, cfg.n = 1, Prepared
    PROVE  Parts'
<1>0. Single /\ One /\ Typing /\ Flows /\ cfg' = cfg
  BY DEF Single, One, Parts, Flows, Phys, Prepared
<1>1. Typing'
  <2>1. EventTyping'
    BY <1>0 DEF Typing, EventTyping, Prepared, evvars
  <2>2. PhysTyping'
    BY <1>0 DEF Single, Typing, PhysTyping, Prepared, Awake
  <2>3. HwTyping'
    BY <1>0 DEF Single, Typing, HwTyping, Prepared, SoftReset
  <2>4. SendTyping'
    BY <1>0 DEF Typing, SendTyping, Prepared
  <2>5. WaitTyping'
    BY <1>0 DEF Typing, WaitTyping, Threads, Prepared, NoWait
  <2>6. ThreadTyping'
    BY <1>0 DEF Single, Typing, ThreadTyping, Begun, Prepared
  <2> QED
    BY <2>1, <2>2, <2>3, <2>4, <2>5, <2>6 DEF Typing
<1>2. Contexts'
  BY <1>0 DEF Single, Parts, Typing, EventTyping, PhysTyping, HwTyping, WaitTyping, Contexts,
     Threads, Waits, Before, Prepared, NoWait
<1>3. InFlight'
  BY DEF Parts, Typing, PhysTyping, InFlight, Goal, Waits, Prepared
<1>4. RetireOnce'
  BY DEF Parts, RetireOnce, Told, Wr, Prepared
<1>5. Thread'
  BY DEF Parts, Thread, Down, Prepared, evvars
<1>6. Reads'
  BY <1>0 DEF Single, Parts, Typing, EventTyping, PhysTyping, HwTyping, SendTyping, WaitTyping,
     ThreadTyping, Contexts, Thread, Reads, Write, Ahead, Slack, Owed, Latched, Late, Wr,
     Prepared,
  SoftReset, NoWait
<1>7. Write'
  BY <1>0 DEF Single, Parts, Typing, EventTyping, PhysTyping, HwTyping, Write, Wr, Prepared,
     SoftReset
<1>8. Flows'
  <2>1. Ends' = Ends /\ Retires' = Retires
    BY <1>0, Untouched DEF Prepared, NoWait
  <2>2. /\ UNCHANGED <<pend, q, cur, fl, fence, n>> /\ Flag' = Flag
        /\ d' = d \/ d' \notin {"flushing", "flushhw", "count"}
    BY DEF Flag, Prepared, evvars
  <2> QED
    BY <1>0, <2>1, <2>2, FlowRests
<1>9. QED
  BY <1>1, <1>2, <1>3, <1>4, <1>5, <1>6, <1>7, <1>8 DEF Parts, Flows

\* The reset of the CTL touches no count.
LEMMA ResetKeeps ==
    ASSUME Parts, Phys = {1}, cfg.n = 1, Reset
    PROVE  Parts'
<1>0. Single /\ One /\ Typing /\ Flows /\ cfg' = cfg
  BY DEF Single, One, Parts, Flows, Phys, Reset
<1>1. Typing'
  <2>1. EventTyping'
    BY <1>0 DEF Typing, EventTyping, Reset, evvars
  <2>2. PhysTyping'
    BY <1>0 DEF Single, Typing, PhysTyping, Reset
  <2>3. HwTyping'
    BY <1>0 DEF Single, Typing, HwTyping, Reset, CtlReset
  <2>4. SendTyping'
    BY <1>0 DEF Typing, SendTyping, Reset
  <2>5. WaitTyping'
    BY <1>0 DEF Typing, WaitTyping, Reset
  <2>6. ThreadTyping'
    BY <1>0 DEF Single, Typing, PhysTyping, ThreadTyping, Begun, Reset
  <2> QED
    BY <2>1, <2>2, <2>3, <2>4, <2>5, <2>6 DEF Typing
<1>2. Contexts'
  BY DEF Parts, Contexts, Waits, Reset
<1>3. InFlight'
  BY <1>0 DEF Single, Parts, Typing, EventTyping, PhysTyping, HwTyping, ThreadTyping, InFlight,
     Wr, Waits, Down, Reset
<1>4. RetireOnce'
  BY DEF Parts, RetireOnce, Told, Wr, Reset
<1>5. Thread'
  BY DEF Parts, Thread, Down, Reset, evvars
<1>6. Reads'
  BY <1>0 DEF Single, Parts, Typing, EventTyping, PhysTyping, HwTyping, SendTyping, Reads, Ahead,
     Slack,
     Owed, Latched, Late, Busy, Reset, CtlReset
<1>7. Write'
  BY DEF Parts, Write, Wr, Reset, CtlReset
<1>8. Flows'
  <2>1. Ends' = Ends /\ Retires' = Retires
    BY <1>0, Untouched DEF Reset
  <2>2. /\ UNCHANGED <<pend, q, cur, fl, fence, n>> /\ Flag' = Flag
        /\ d' = d \/ d' \notin {"flushing", "flushhw", "count"}
    BY DEF Flag, Reset, evvars
  <2> QED
    BY <1>0, <2>1, <2>2, FlowRests
<1>9. QED
  BY <1>1, <1>2, <1>3, <1>4, <1>5, <1>6, <1>7, <1>8 DEF Parts, Flows

\* The flush marks what is queued: the rest is behind it.
LEMMA FlushKeeps ==
    ASSUME Parts, Phys = {1}, cfg.n = 1, Flush
    PROVE  Parts'
<1>0. Single /\ One /\ Typing /\ Flows /\ cfg' = cfg
  BY DEF Single, One, Parts, Flows, Phys, Flush, physvars
<1>1. Typing'
  <2>1. EventTyping'
    BY <1>0 DEF Typing, EventTyping, Flush, FlushStart, Todo
  <2>2. PhysTyping'
    BY <1>0 DEF Single, Typing, PhysTyping, Flush, physvars
  <2>3. HwTyping'
    BY <1>0 DEF Single, Typing, HwTyping, Flush, physvars
  <2>4. SendTyping'
    BY <1>0 DEF Typing, SendTyping, Flush, physvars
  <2>5. WaitTyping'
    BY <1>0 DEF Typing, WaitTyping, Flush, physvars
  <2>6. ThreadTyping'
    BY <1>0 DEF Single, Typing, ThreadTyping, Begun, Flush
  <2> QED
    BY <2>1, <2>2, <2>3, <2>4, <2>5, <2>6 DEF Typing
<1>2. Contexts'
  BY DEF Parts, Contexts, Waits, Flush, physvars
<1>3. InFlight'
  BY <1>0 DEF Single, Parts, Typing, EventTyping, PhysTyping, HwTyping, ThreadTyping, InFlight,
     Wr, Waits, Down, Flush, physvars
<1>4. RetireOnce'
  BY <1>0 DEF Single, Parts, Typing, EventTyping, PhysTyping, HwTyping, RetireOnce, Told, Wr,
     Flush, physvars
<1>5. Thread'
  BY DEF Parts, Thread, Down, Flush, FlushStart, physvars
<1>6. Reads'
  BY <1>0 DEF Single, Parts, Typing, EventTyping, PhysTyping, HwTyping, SendTyping, Reads, Ahead,
     Slack,
     Owed, Latched, Late, Busy, Flush, physvars
<1>7. Write'
  BY <1>0 DEF Single, Parts, Typing, EventTyping, PhysTyping, HwTyping, Write, Wr, Flush, physvars
<1>8. Flows'
  <2>1. Ends' = Ends /\ Retires' = Retires
    BY <1>0, Untouched DEF Flush, physvars
  <2>2. Ends + Retires <= 3
    <3>1. w["disp"].ph = "no" /\ send["disp"] = NoSend /\ d = "flush"
      BY DEF Flush, Parts, Contexts, Waits
    <3>2. kick[1] <= 1 /\ kick[1] \in Nat /\ retire = 0
      BY <3>1 DEF Parts, Typing, PhysTyping, InFlight, RetireOnce, Begun, Wr, Told
    <3>3. /\ Late("disp") = 0 /\ Sent("disp") = 0 /\ Told("disp") = 0
          /\ Late("esd") + Sent("esd") <= 1 /\ Sent("irq") + Told("irq") <= 1
      BY <3>1 DEF Parts, Contexts, Late, Sent, Told, NoSend, Release
    <3> QED
      BY <3>2, <3>3 DEF Ends, Retires, Late, Sent, Told
  <2>3. d = "flush" /\ d' = "flushing" /\ FlushStart /\ n' = n
    BY DEF Flush
  <2> QED
    BY <1>0, <2>1, <2>2, <2>3, FlowFlushes
<1>9. QED
  BY <1>1, <1>2, <1>3, <1>4, <1>5, <1>6, <1>7, <1>8 DEF Parts, Flows

\* When the flush is over all that is queued is behind it, and the frame is counted.
LEMMA FlushedKeeps ==
    ASSUME Parts, Phys = {1}, cfg.n = 1, Flushed
    PROVE  Parts'
<1>0. Single /\ One /\ Typing /\ Flows /\ cfg' = cfg
  BY DEF Single, One, Parts, Flows, Phys, Flushed, physvars
<1>1. Typing'
  <2>1. EventTyping'
    BY <1>0 DEF Typing, EventTyping, Flushed, Kicked
  <2>2. PhysTyping'
    BY <1>0 DEF Single, Typing, PhysTyping, Flushed, physvars
  <2>3. HwTyping'
    BY <1>0 DEF Single, Typing, HwTyping, Flushed, physvars
  <2>4. SendTyping'
    BY <1>0 DEF Typing, SendTyping, Flushed, physvars
  <2>5. WaitTyping'
    BY <1>0 DEF Typing, WaitTyping, Flushed, physvars
  <2>6. ThreadTyping'
    BY <1>0 DEF Typing, ThreadTyping, Begun, Flushed
  <2> QED
    BY <2>1, <2>2, <2>3, <2>4, <2>5, <2>6 DEF Typing
<1>2. Contexts'
  BY DEF Parts, Contexts, Waits, Flushed, physvars
<1>3. InFlight'
  BY DEF Parts, Typing, ThreadTyping, InFlight, Wr, Waits, Down, Flushed, physvars
<1>4. RetireOnce'
  BY DEF Parts, RetireOnce, Told, Wr, Flushed, physvars
<1>5. Thread'
  BY DEF Parts, Thread, Down, Flushed, Kicked, physvars
<1>6. Reads'
  BY <1>0 DEF Single, Parts, Typing, EventTyping, PhysTyping, HwTyping, SendTyping, Reads, Ahead,
     Slack,
     Owed, Latched, Late, Busy, Flushed, physvars
<1>7. Write'
  BY DEF Parts, Write, Wr, Flushed, physvars
<1>8. Flows'
  <2>1. Ends' = Ends /\ Retires' = Retires
    BY <1>0, Untouched DEF Flushed, physvars
  <2>2. d = "flushing" /\ d' = "flushhw" /\ fl = 0 /\ Kicked /\ n' = n
    BY DEF Flushed
  <2> QED
    BY <1>0, <2>1, <2>2, FlowKicks
<1>9. QED
  BY <1>1, <1>2, <1>3, <1>4, <1>5, <1>6, <1>7, <1>8 DEF Parts, Flows

\* The master counts the retire fence of the frame.
LEMMA FlushHwKeeps ==
    ASSUME Parts, Phys = {1}, cfg.n = 1, FlushHw
    PROVE  Parts'
<1>0. Single /\ One /\ Typing /\ Flows /\ cfg' = cfg
  BY DEF Single, One, Parts, Flows, Phys, FlushHw
<1>1. Typing'
  <2>1. EventTyping'
    BY <1>0 DEF Typing, EventTyping, FlushHw, evvars
  <2>2. PhysTyping'
    BY <1>0 DEF Single, Typing, PhysTyping, FlushHw
  <2>3. HwTyping'
    BY <1>0 DEF Single, Typing, HwTyping, FlushHw
  <2>4. SendTyping'
    BY <1>0 DEF Typing, SendTyping, FlushHw
  <2>5. WaitTyping'
    BY <1>0 DEF Typing, WaitTyping, FlushHw
  <2>6. ThreadTyping'
    BY <1>0 DEF Typing, ThreadTyping, Begun, FlushHw
  <2> QED
    BY <2>1, <2>2, <2>3, <2>4, <2>5, <2>6 DEF Typing
<1>2. Contexts'
  BY DEF Parts, Contexts, Waits, FlushHw
<1>3. InFlight'
  BY <1>0 DEF Single, Parts, Typing, EventTyping, PhysTyping, HwTyping, ThreadTyping, InFlight,
     Wr, Waits, Down, FlushHw
<1>4. RetireOnce'
  BY <1>0 DEF Single, Parts, Typing, EventTyping, PhysTyping, Contexts, RetireOnce, Told, NoSend,
     Wr, Waits, FlushHw
<1>5. Thread'
  BY DEF Parts, Thread, Down, FlushHw, evvars
<1>6. Reads'
  BY <1>0 DEF Single, Parts, Typing, EventTyping, PhysTyping, HwTyping, SendTyping, Reads, Ahead,
     Slack,
     Owed, Latched, Late, Busy, FlushHw
<1>7. Write'
  BY DEF Parts, Typing, PhysTyping, RetireOnce, Write, Told, Wr, FlushHw
<1>8. Flows'
  <2>1. Ends' = Ends /\ Retires' = Retires + 1 /\ d = "flushhw" /\ d' = "count" /\ n' = n
    BY <1>0 DEF FlushHw, Ends, Retires, Late, Sent, Told, Typing, PhysTyping
  <2>2. UNCHANGED <<pend, q, cur, fl, fence>>
    BY DEF FlushHw, evvars
  <2> QED
    BY <1>0, <2>1, <2>2, FlowCounts
<1>9. QED
  BY <1>1, <1>2, <1>3, <1>4, <1>5, <1>6, <1>7, <1>8 DEF Parts, Flows

\* The frame counted before the flush of the hardware is now in the encoder.
LEMMA CountKeeps ==
    ASSUME Parts, Phys = {1}, cfg.n = 1, Count
    PROVE  Parts'
<1>0. Single /\ One /\ Typing /\ Flows /\ cfg' = cfg
  BY DEF Single, One, Parts, Flows, Phys, Count
<1>1. Typing'
  <2>1. EventTyping'
    BY <1>0 DEF Typing, EventTyping, Count, evvars
  <2>2. PhysTyping'
    BY <1>0 DEF Single, Typing, PhysTyping, Count
  <2>3. HwTyping'
    BY <1>0 DEF Single, Typing, HwTyping, Count
  <2>4. SendTyping'
    BY <1>0 DEF Typing, SendTyping, Count
  <2>5. WaitTyping'
    BY <1>0 DEF Typing, WaitTyping, Count
  <2>6. ThreadTyping'
    BY <1>0 DEF Typing, ThreadTyping, Count
  <2> QED
    BY <2>1, <2>2, <2>3, <2>4, <2>5, <2>6 DEF Typing
<1>2. Contexts'
  BY DEF Parts, Contexts, Waits, Count
<1>3. InFlight'
  BY DEF Parts, Typing, PhysTyping, InFlight, Waits, Begun, Down, Count
<1>4. RetireOnce'
  BY DEF Parts, RetireOnce, Told, Count
<1>5. Thread'
  BY DEF Parts, Thread, Down, Count, evvars
<1>6. Reads'
  <2>1. /\ kick[1] \in Nat /\ kick'[1] = kick[1] + 1 /\ n \in Nat /\ n' = n + 1 /\ d' = "start"
        /\ hw' = hw /\ w' = w /\ pdead' = pdead /\ cfg' = cfg
    BY <1>0 DEF Single, Typing, PhysTyping, ThreadTyping, Count
  <2>2. Owed' = Owed + 1 /\ Owed >= kick[1] /\ Owed \in Nat /\ Latched' = Latched
    BY <2>1 DEF Owed, Latched, Late
  <2>3. Latched \in {0, 1} /\ (Latched = 1 => kick[1] > 0 \/ Slack' = 1)
    <3>1. CASE 1 \in hw.lat /\ kick[1] = 0
      <4>1. "late" \in past'
        BY <1>0, <3>1 DEF Single, Count
      <4> QED
        BY <4>1 DEF Latched, Slack
    <3>2. CASE ~(1 \in hw.lat /\ kick[1] = 0)
      BY <2>1, <3>2 DEF Latched
    <3> QED
      BY <3>1, <3>2
  <2>4. Slack \in {0, 1} /\ Slack' \in {0, 1} /\ Slack <= Slack'
    <3>1. past \subseteq past'
      BY DEF Count
    <3> QED
      BY <3>1 DEF Slack
  <2>5. Ahead \in Int /\ Ahead' \in Int /\ Ahead' >= Ahead + 1 /\ Ahead' >= 1
    <3> DEFINE s == Slack  t == Slack'  o == Owed  p == Owed'  l == Latched  m == Latched'
    <3>1. Ahead = o - l + s /\ Ahead' = p - m + t
      BY DEF Ahead
    <3>2. /\ s \in {0, 1} /\ t \in {0, 1} /\ s <= t /\ o \in Nat /\ p = o + 1
          /\ l \in {0, 1} /\ m = l
          /\ o >= kick[1] /\ (l = 1 => kick[1] > 0 \/ t = 1)
      BY <2>2, <2>3, <2>4
    <3> HIDE DEF s, t, o, p, l, m
    <3> QED
      BY <2>1, <3>1, <3>2
  <2>6. "gaveup" \in past' <=> "gaveup" \in past
    BY DEF Count
  <2>7. "gaveup" \notin past => hw.posted = 0
    BY DEF Parts, Write, Wr, Count
  <2>8. hw.frame \in Nat
    BY <1>0 DEF Typing, HwTyping
  <2> QED
    BY <2>1, <2>5, <2>6, <2>7, <2>8 DEF Parts, Reads, Busy, Posted
<1>7. Write'
  BY DEF Parts, Write, Wr, Count
<1>8. Flows'
  <2>1. Ends' = Ends + 1 /\ Retires' = Retires /\ d = "count" /\ d' = "start" /\ n' = n + 1
    BY <1>0 DEF Count, Ends, Retires, Late, Sent, Told, Typing, PhysTyping
  <2>2. UNCHANGED <<pend, q, cur, fl, fence>>
    BY DEF Count, evvars
  <2> QED
    BY <1>0, <2>1, <2>2, FlowCounts
<1>9. QED
  BY <1>1, <1>2, <1>3, <1>4, <1>5, <1>6, <1>7, <1>8 DEF Parts, Flows

\* The hardware is given the frame that was counted last.
LEMMA StartKeeps ==
    ASSUME Parts, Phys = {1}, cfg.n = 1, Start
    PROVE  Parts'
<1>0. Single /\ One /\ Typing /\ Flows /\ cfg' = cfg
  BY DEF Single, One, Parts, Flows, Phys, Start
<1>1. Typing'
  <2>1. EventTyping'
    BY <1>0 DEF Typing, EventTyping, Start, evvars
  <2>2. PhysTyping'
    BY <1>0 DEF Single, Typing, PhysTyping, Start
  <2>3. HwTyping'
    BY <1>0 DEF Single, Typing, HwTyping, ThreadTyping, Start
  <2>4. SendTyping'
    BY <1>0 DEF Typing, SendTyping, Start
  <2>5. WaitTyping'
    BY <1>0 DEF Typing, WaitTyping, Start
  <2>6. ThreadTyping'
    BY <1>0 DEF Typing, ThreadTyping, Wr, Start
  <2> QED
    BY <2>1, <2>2, <2>3, <2>4, <2>5, <2>6 DEF Typing
<1>2. Contexts'
  BY DEF Parts, Contexts, Waits, Start
<1>3. InFlight'
  BY DEF Parts, InFlight, Waits, Begun, Down, Start
<1>4. RetireOnce'
  BY <1>0 DEF Single, Parts, Typing, EventTyping, PhysTyping, RetireOnce, Told, Wr, Start
<1>5. Thread'
  BY DEF Parts, Thread, Down, Start, evvars
<1>6. Reads'
  BY <1>0 DEF Single, Parts, Typing, PhysTyping, HwTyping, ThreadTyping, Reads, Write, Ahead,
     Slack,
     Owed, Latched, Late, Busy, Posted, Wr, Start, evvars
<1>7. Write'
  BY DEF Parts, Write, Wr, Start
<1>8. Flows'
  <2>1. Ends' = Ends /\ Retires' = Retires
    BY <1>0, Untouched DEF Start
  <2>2. /\ UNCHANGED <<pend, q, cur, fl, fence, n>> /\ Flag' = Flag
        /\ d' = d \/ d' \notin {"flushing", "flushhw", "count"}
    BY DEF Flag, Start, evvars
  <2> QED
    BY <1>0, <2>1, <2>2, FlowRests
<1>9. QED
  BY <1>1, <1>2, <1>3, <1>4, <1>5, <1>6, <1>7, <1>8 DEF Parts, Flows

\* The wait for wr_ptr: it came,
LEMMA WrOkKeeps ==
    ASSUME Parts, Phys = {1}, cfg.n = 1, WrOk
    PROVE  Parts'
<1>0. Single /\ One /\ Typing /\ Flows /\ cfg' = cfg
  BY DEF Single, One, Parts, Flows, Phys, WrOk
<1>1. Typing'
  <2>1. EventTyping'
    BY <1>0 DEF Typing, EventTyping, WrOk, evvars
  <2>2. PhysTyping'
    BY <1>0 DEF Single, Typing, PhysTyping, WrOk
  <2>3. HwTyping'
    BY <1>0 DEF Single, Typing, HwTyping, WrOk
  <2>4. SendTyping'
    BY <1>0 DEF Typing, SendTyping, WrOk
  <2>5. WaitTyping'
    BY <1>0 DEF Typing, WaitTyping, WrOk
  <2>6. ThreadTyping'
    BY <1>0 DEF Typing, ThreadTyping, WrOk
  <2> QED
    BY <2>1, <2>2, <2>3, <2>4, <2>5, <2>6 DEF Typing
<1>2. Contexts'
  BY DEF Parts, Contexts, Waits, WrOk
<1>3. InFlight'
  BY DEF Parts, Typing, ThreadTyping, InFlight, Waits, Begun, Down, WrOk
<1>4. RetireOnce'
  BY DEF RetireOnce, Told, WrOk
<1>5. Thread'
  BY DEF Parts, Thread, Down, WrOk, evvars
<1>6. Reads'
  BY DEF Parts, Reads, Write, Ahead, Slack, Owed, Latched, Late, WrOk
<1>7. Write'
  BY DEF Parts, Write, WrOk
<1>8. Flows'
  <2>1. Ends' = Ends /\ Retires' = Retires
    BY <1>0, Untouched DEF WrOk
  <2>2. /\ UNCHANGED <<pend, q, cur, fl, fence, n>> /\ Flag' = Flag
        /\ d' = d \/ d' \notin {"flushing", "flushhw", "count"}
    BY DEF Flag, WrOk, evvars
  <2> QED
    BY <1>0, <2>1, <2>2, FlowRests
<1>9. QED
  BY <1>1, <1>2, <1>3, <1>4, <1>5, <1>6, <1>7, <1>8 DEF Parts, Flows

\* ... it is latched,
LEMMA WrLatchedKeeps ==
    ASSUME Parts, Phys = {1}, cfg.n = 1, WrLatched
    PROVE  Parts'
<1>0. Single /\ One /\ Typing /\ Flows /\ cfg' = cfg
  BY DEF Single, One, Parts, Flows, Phys, WrLatched
<1>1. Typing'
  <2>1. EventTyping'
    BY <1>0 DEF Typing, EventTyping, WrLatched, evvars
  <2>2. PhysTyping'
    BY <1>0 DEF Single, Typing, PhysTyping, WrLatched, Callback, GiveRetire
  <2>3. HwTyping'
    BY <1>0 DEF Single, Typing, HwTyping, WrLatched, Callback
  <2>4. SendTyping'
    BY <1>0 DEF Typing, SendTyping, WrLatched, Callback, GiveRetire
  <2>5. WaitTyping'
    BY <1>0 DEF Typing, WaitTyping, WrLatched
  <2>6. ThreadTyping'
    BY <1>0 DEF Typing, ThreadTyping, WrLatched, threadvars
  <2> QED
    BY <2>1, <2>2, <2>3, <2>4, <2>5, <2>6 DEF Typing
<1>2. Contexts'
  BY DEF Parts, Typing, SendTyping, Contexts, Threads, Wr, Waits, Before, Down, Release,
     WrLatched, Callback, GiveRetire, threadvars
<1>3. InFlight'
  BY <1>0 DEF Single, Parts, Typing, EventTyping, PhysTyping, HwTyping, InFlight, Goal,
     WrLatched, Callback, threadvars
<1>4. RetireOnce'
  BY <1>0 DEF Single, Parts, Typing, PhysTyping, RetireOnce, Told, WrLatched, Callback, GiveRetire
<1>5. Thread'
  BY DEF Parts, Thread, Down, WrLatched, evvars, threadvars
<1>6. Reads'
  BY DEF Parts, Reads, Write, Ahead, Slack, Owed, Latched, Late, WrLatched, Callback, threadvars
<1>7. Write'
  BY DEF Parts, Write, WrLatched, Callback, threadvars
<1>8. Flows'
  <2>1. Ends' = Ends /\ Retires' = Retires
    <3>1. kick' = kick /\ w' = w /\ send["disp"] = NoSend /\ "disp" \in {"disp", "irq"}
      BY DEF Parts, Typing, PhysTyping, RetireOnce, Told, Contexts, Waits, WrLatched, Callback
    <3>2. CASE send' = send /\ retire' = retire
      BY <1>0, <3>1, <3>2, Untouched
    <3>3. CASE GiveRetire("disp")
      BY <1>0, <3>1, <3>2, <3>3, GivenRetire, Tells DEF Typing, SendTyping, Threads
    <3> QED
      BY <3>3 DEF WrLatched, Callback
  <2>2. /\ UNCHANGED <<pend, q, cur, fl, fence, n>> /\ Flag' = Flag
        /\ d' = d \/ d' \notin {"flushing", "flushhw", "count"}
    BY DEF Flag, WrLatched, evvars, threadvars
  <2> QED
    BY <1>0, <2>1, <2>2, FlowRests
<1>9. QED
  BY <1>1, <1>2, <1>3, <1>4, <1>5, <1>6, <1>7, <1>8 DEF Parts, Flows

\* ... the frame started without it,
LEMMA WrLostKeeps ==
    ASSUME Parts, Phys = {1}, cfg.n = 1, WrLost
    PROVE  Parts'
<1>0. Single /\ One /\ Typing /\ Flows /\ cfg' = cfg
  BY DEF Single, One, Parts, Flows, Phys, WrLost
<1>a. /\ UNCHANGED <<cfg, mode, kick, done, wrok, est, w, faults, past>>
      /\ UNCHANGED <<e, n, perr, nreset, ftm, ph, left>>
      /\ d \in {"wrptr", "wragain"} /\ d' \in Wr /\ retire > 0 /\ hw.posted = 0 /\ 0 \notin hw.lat
      /\ pdead # "no" => pdead' # "no"
      /\ UNCHANGED evvars
  BY DEF WrLost, EsdStatus, Wr
<1>b. hw'.posted = hw.posted /\ hw'.lat = hw.lat /\ hw'.frame = hw.frame /\ hw'.busy = hw.busy
  BY DEF WrLost, EsdStatus, Parts, Typing, HwTyping
<1>r. \/ send' = send /\ retire' = retire
      \/ /\ retire > 0 /\ retire' = retire - 1 /\ d' = d
         /\ send'["disp"].p = 1 /\ send'["disp"].ev = "retire"
         /\ \A u \in DOMAIN send : u # "disp" => send'[u] = send[u]
  BY <1>0, GivenRetire DEF WrLost, Typing, SendTyping, Threads
<1>n. send["disp"] = NoSend
  BY DEF Parts, Typing, PhysTyping, RetireOnce, Told, Contexts, Waits, WrLost
<1>1. Typing'
  <2>1. EventTyping'
    BY <1>0 DEF Typing, EventTyping, WrLost, evvars
  <2>2. PhysTyping'
    BY <1>0 DEF Single, Typing, PhysTyping, WrLost, EsdStatus, GiveRetire
  <2>3. HwTyping'
    BY <1>0 DEF Single, Parts, Typing, HwTyping, WrLost, EsdStatus
  <2>4. SendTyping'
    BY <1>0 DEF Typing, SendTyping, WrLost, GiveRetire
  <2>5. WaitTyping'
    BY <1>0 DEF Typing, WaitTyping, WrLost
  <2>6. ThreadTyping'
    BY <1>0 DEF Typing, ThreadTyping, Wr, WrLost
  <2> QED
    BY <2>1, <2>2, <2>3, <2>4, <2>5, <2>6 DEF Typing
<1>2. Contexts'
  BY <1>0, <1>a, <1>b, <1>r, <1>n, <1>1 DEF Single, Parts, Typing, SendTyping, ThreadTyping,
     Contexts, Threads, Wr, Waits, Before, Begun
<1>3. InFlight'
  BY DEF Parts, Typing, ThreadTyping, InFlight, Waits, Begun, Down, WrLost
<1>4. RetireOnce'
  BY <1>0 DEF Single, Parts, Typing, EventTyping, PhysTyping, HwTyping, RetireOnce, Told, Wr,
     WrLost, GiveRetire
<1>5. Thread'
  BY DEF Parts, Thread, Down, WrLost, EsdStatus, evvars
<1>6. Reads'
  <2>1. Ahead' \in {Ahead, Ahead + 1}
    BY <1>a, <1>b DEF Ahead, Slack, Owed, Latched, Late
  <2>2. kick' \in [Phys' -> Nat] /\ n' = n /\ cfg' = cfg
    BY <1>1, <1>a DEF Typing, PhysTyping
  <2>3. /\ "gaveup" \in past => "gaveup" \in past'
        /\ (pdead # "no" => pdead' # "no") /\ (d' = "start" => d = "start")
        /\ hw'.busy = {} \/ (hw'.busy = hw.busy /\ hw'.frame = hw.frame)
        /\ hw'.posted = 0 \/ hw'.posted = hw.posted
    BY <1>a, <1>b DEF WrLost
  <2> QED
    BY <1>0, <2>1, <2>2, <2>3, ReadsStay DEF Parts
<1>7. Write'
  BY <1>0, <1>a, <1>b, <1>r DEF Parts, Typing, PhysTyping, RetireOnce, Write, Told
<1>8. Flows'
  <2>1. Ends' = Ends /\ Retires' = Retires
    <3>1. kick' = kick /\ w' = w /\ send["disp"] = NoSend /\ "disp" \in {"disp", "irq"}
      BY DEF Parts, Typing, PhysTyping, RetireOnce, Told, Contexts, Waits, WrLost
    <3>2. CASE send' = send /\ retire' = retire
      BY <1>0, <3>1, <3>2, Untouched
    <3>3. CASE GiveRetire("disp")
      BY <1>0, <3>1, <3>2, <3>3, GivenRetire, Tells DEF Typing, SendTyping, Threads
    <3> QED
      BY <3>2, <3>3 DEF WrLost
  <2>2. /\ UNCHANGED <<pend, q, cur, fl, fence, n>> /\ Flag' = Flag
        /\ d' = d \/ d' \notin {"flushing", "flushhw", "count"}
    BY <1>a DEF Flag, Wr, evvars
  <2> QED
    BY <1>0, <2>1, <2>2, FlowRests
<1>9. QED
  BY <1>1, <1>2, <1>3, <1>4, <1>5, <1>6, <1>7, <1>8 DEF Parts, Flows

\* ... the time is over,
LEMMA WrLateKeeps ==
    ASSUME Parts, Phys = {1}, cfg.n = 1, WrLate
    PROVE  Parts'
<1>0. Single /\ One /\ Typing /\ Flows /\ cfg' = cfg
  BY DEF Single, One, Parts, Flows, Phys, WrLate, physvars
<1>1. Typing'
  <2>1. EventTyping'
    BY <1>0 DEF Typing, EventTyping, WrLate, evvars
  <2>2. PhysTyping'
    BY <1>0 DEF Single, Typing, PhysTyping, WrLate, physvars
  <2>3. HwTyping'
    BY <1>0 DEF Single, Typing, HwTyping, WrLate, physvars
  <2>4. SendTyping'
    BY <1>0 DEF Typing, SendTyping, WrLate, physvars
  <2>5. WaitTyping'
    BY <1>0 DEF Typing, WaitTyping, WrLate, physvars
  <2>6. ThreadTyping'
    BY <1>0 DEF Typing, ThreadTyping, Wr, WrLate
  <2> QED
    BY <2>1, <2>2, <2>3, <2>4, <2>5, <2>6 DEF Typing
<1>2. Contexts'
  BY DEF Parts, Typing, PhysTyping, Contexts, RetireOnce, Told, Waits, WrLate, physvars
<1>3. InFlight'
  BY <1>0 DEF Single, Parts, Typing, EventTyping, PhysTyping, HwTyping, ThreadTyping, InFlight,
     Waits, Begun, Down, WrLate, physvars
<1>4. RetireOnce'
  BY <1>0 DEF Single, Parts, Typing, EventTyping, PhysTyping, HwTyping, RetireOnce, Told, Wr,
     WrLate, physvars
<1>5. Thread'
  BY DEF Parts, Thread, Down, WrLate, evvars, physvars
<1>6. Reads'
  BY <1>0 DEF Single, Parts, Typing, EventTyping, PhysTyping, HwTyping, SendTyping, Reads, Ahead,
     Slack,
     Owed, Latched, Late, Busy, WrLate, physvars
<1>7. Write'
  BY <1>0 DEF Single, Parts, Typing, EventTyping, PhysTyping, HwTyping, Write, Wr, WrLate,
     physvars
<1>8. Flows'
  <2>1. Ends' = Ends /\ Retires' = Retires
    BY <1>0, Untouched DEF WrLate, physvars
  <2>2. /\ UNCHANGED <<pend, q, cur, fl, fence, n>> /\ Flag' = Flag
        /\ d' = d \/ d' \notin {"flushing", "flushhw", "count"}
    BY DEF Flag, WrLate, evvars
  <2> QED
    BY <1>0, <2>1, <2>2, FlowRests
<1>9. QED
  BY <1>1, <1>2, <1>3, <1>4, <1>5, <1>6, <1>7, <1>8 DEF Parts, Flows

\* ... it is tried once more,
LEMMA WrAgainKeeps ==
    ASSUME Parts, Phys = {1}, cfg.n = 1, WrAgain
    PROVE  Parts'
<1>0. Single /\ One /\ Typing /\ Flows /\ cfg' = cfg
  BY DEF Single, One, Parts, Flows, Phys, WrAgain
<1>a. UNCHANGED <<cfg, kick, w, past, pdead, n>> /\ d' # "start"
  BY DEF WrAgain
<1>b. hw'.posted = hw.posted /\ hw'.lat = hw.lat /\ hw'.frame = hw.frame /\ hw'.busy = hw.busy
  BY DEF WrAgain, Parts, Typing, HwTyping
<1>1. Typing'
  <2>1. EventTyping'
    BY <1>0 DEF Typing, EventTyping, WrAgain, evvars
  <2>2. PhysTyping'
    BY <1>0 DEF Single, Typing, PhysTyping, WrAgain
  <2>3. HwTyping'
    BY <1>0 DEF Single, Typing, HwTyping, WrAgain
  <2>4. SendTyping'
    BY <1>0 DEF Typing, SendTyping, WrAgain
  <2>5. WaitTyping'
    BY <1>0 DEF Typing, WaitTyping, WrAgain
  <2>6. ThreadTyping'
    BY <1>0 DEF Typing, ThreadTyping, Wr, WrAgain
  <2> QED
    BY <2>1, <2>2, <2>3, <2>4, <2>5, <2>6 DEF Typing
<1>2. Contexts'
  BY DEF Parts, Contexts, Waits, WrAgain
<1>3. InFlight'
  BY DEF Parts, Typing, ThreadTyping, InFlight, Waits, Begun, Down, WrAgain
<1>4. RetireOnce'
  BY <1>0 DEF Single, Parts, Typing, EventTyping, PhysTyping, RetireOnce, Told, Wr, WrAgain
<1>5. Thread'
  BY DEF Parts, Thread, Down, WrAgain, evvars
<1>6. Reads'
  <2>1. Ahead' \in {Ahead, Ahead + 1}
    BY <1>a, <1>b DEF Ahead, Slack, Owed, Latched, Late
  <2>2. kick' \in [Phys' -> Nat] /\ n' = n /\ cfg' = cfg
    BY <1>1, <1>a DEF Typing, PhysTyping
  <2>3. /\ "gaveup" \in past => "gaveup" \in past'
        /\ (pdead # "no" => pdead' # "no") /\ (d' = "start" => d = "start")
        /\ hw'.busy = {} \/ (hw'.busy = hw.busy /\ hw'.frame = hw.frame)
        /\ hw'.posted = 0 \/ hw'.posted = hw.posted
    BY <1>a, <1>b
  <2> QED
    BY <1>0, <2>1, <2>2, <2>3, ReadsStay DEF Parts
<1>7. Write'
  BY <1>a, <1>b DEF Parts, Write, Wr, WrAgain
<1>8. Flows'
  <2>1. Ends' = Ends /\ Retires' = Retires
    BY <1>0, Untouched DEF WrAgain
  <2>2. /\ UNCHANGED <<pend, q, cur, fl, fence, n>> /\ Flag' = Flag
        /\ d' = d \/ d' \notin {"flushing", "flushhw", "count"}
    BY DEF Flag, WrAgain, evvars
  <2> QED
    BY <1>0, <2>1, <2>2, FlowRests
<1>9. QED
  BY <1>1, <1>2, <1>3, <1>4, <1>5, <1>6, <1>7, <1>8 DEF Parts, Flows

\* ... the retire fence is given back.
LEMMA WrGoneKeeps ==
    ASSUME Parts, Phys = {1}, cfg.n = 1, WrGone
    PROVE  Parts'
<1>0. Single /\ One /\ Typing /\ Flows /\ cfg' = cfg
  BY DEF Single, One, Parts, Flows, Phys, WrGone
<1>a. retire' \in Nat
  BY <1>0, GivenRetire DEF WrGone, Typing, SendTyping, Threads
<1>r. \/ send' = send /\ retire' = retire
      \/ /\ retire > 0 /\ retire' = retire - 1 /\ d' = "loop"
         /\ send'["disp"].p = 1 /\ send'["disp"].ev = "retire"
         /\ \A u \in DOMAIN send : u # "disp" => send'[u] = send[u]
  BY <1>0, GivenRetire DEF WrGone, Typing, SendTyping, Threads
<1>n. send["disp"] = NoSend
  BY DEF Parts, Contexts, Waits, WrGone
<1>1. Typing'
  <2>1. EventTyping'
    BY <1>0 DEF Typing, EventTyping, WrGone, evvars
  <2>2. PhysTyping'
    BY <1>0, <1>a DEF Single, Typing, PhysTyping, WrGone
  <2>3. HwTyping'
    BY <1>0 DEF Single, Typing, HwTyping, WrGone
  <2>4. SendTyping'
    BY <1>0 DEF Typing, SendTyping, WrGone, GiveRetire
  <2>5. WaitTyping'
    BY <1>0 DEF Typing, WaitTyping, WrGone
  <2>6. ThreadTyping'
    BY <1>0 DEF Typing, PhysTyping, ThreadTyping, WrGone
  <2> QED
    BY <2>1, <2>2, <2>3, <2>4, <2>5, <2>6 DEF Typing
<1>2. Contexts'
  BY <1>0, <1>1, <1>r, <1>n DEF Single, Parts, Typing, SendTyping, Contexts, Threads, Waits,
     Before, WrGone
<1>3. InFlight'
  BY DEF Parts, Typing, PhysTyping, ThreadTyping, InFlight, Waits, Begun, Down, WrGone
<1>4. RetireOnce'
  BY DEF Parts, Typing, PhysTyping, RetireOnce, Told, WrGone, GiveRetire
<1>5. Thread'
  BY DEF Parts, Thread, Down, WrGone, evvars
<1>6. Reads'
  BY DEF Reads, WrGone
<1>7. Write'
  BY DEF Write, WrGone
<1>8. Flows'
  <2>1. Ends' = Ends /\ Retires' = Retires
    <3>1. kick' = kick /\ w' = w /\ send["disp"] = NoSend /\ "disp" \in {"disp", "irq"}
      BY DEF Parts, Contexts, Waits, WrGone
    <3>2. CASE send' = send /\ retire' = retire
      BY <1>0, <3>1, <3>2, Untouched
    <3>3. CASE GiveRetire("disp")
      BY <1>0, <3>1, <3>2, <3>3, GivenRetire, Tells DEF Typing, SendTyping, Threads
    <3> QED
      BY <3>3 DEF WrGone
  <2>2. /\ UNCHANGED <<pend, q, cur, fl, fence, n>> /\ Flag' = Flag
        /\ d' = d \/ d' \notin {"flushing", "flushhw", "count"}
    BY DEF Flag, WrGone, evvars
  <2> QED
    BY <1>0, <2>1, <2>2, FlowRests
<1>9. QED
  BY <1>1, <1>2, <1>3, <1>4, <1>5, <1>6, <1>7, <1>8 DEF Parts, Flows

\* The wait for the frame before starts, or there is none to wait for.
LEMMA PendKeeps ==
    ASSUME Parts, Phys = {1}, cfg.n = 1, Pend
    PROVE  Parts'
<1>0. Single /\ One /\ Typing /\ Flows /\ cfg' = cfg
  BY DEF Single, One, Parts, Flows, Phys, Pend, physvars
<1>1. Typing'
  <2>1. EventTyping'
    BY <1>0 DEF Typing, EventTyping, Pend, evvars
  <2>2. PhysTyping'
    BY <1>0 DEF Single, Typing, PhysTyping, Pend, physvars
  <2>3. HwTyping'
    BY <1>0 DEF Single, Typing, HwTyping, Pend, physvars
  <2>4. SendTyping'
    BY <1>0 DEF Typing, SendTyping, Pend, physvars
  <2>5. WaitTyping'
    BY <1>0 DEF Typing, WaitTyping, Pend, physvars
  <2>6. ThreadTyping'
    BY <1>0 DEF Typing, PhysTyping, ThreadTyping, Pend
  <2> QED
    BY <2>1, <2>2, <2>3, <2>4, <2>5, <2>6 DEF Typing
<1>2. Contexts'
  BY DEF Parts, Contexts, Waits, Pend, physvars
<1>3. InFlight'
  BY <1>0 DEF Single, Parts, Typing, EventTyping, PhysTyping, HwTyping, ThreadTyping, InFlight,
     Waits, Begun, Down, Pend, physvars
<1>4. RetireOnce'
  BY DEF Parts, RetireOnce, Told, Wr, Pend, physvars
<1>5. Thread'
  BY DEF Parts, Thread, Down, Pend, evvars, physvars
<1>6. Reads'
  BY <1>0 DEF Single, Parts, Typing, EventTyping, PhysTyping, HwTyping, SendTyping, Reads, Ahead,
     Slack,
     Owed, Latched, Late, Busy, Pend, physvars
<1>7. Write'
  BY DEF Parts, Write, Wr, Pend, physvars
<1>8. Flows'
  <2>1. Ends' = Ends /\ Retires' = Retires
    BY <1>0, Untouched DEF Pend, physvars
  <2>2. /\ UNCHANGED <<pend, q, cur, fl, fence, n>> /\ Flag' = Flag
        /\ d' = d \/ d' \notin {"flushing", "flushhw", "count"}
    BY DEF Flag, Pend, evvars
  <2> QED
    BY <1>0, <2>1, <2>2, FlowRests
<1>9. QED
  BY <1>1, <1>2, <1>3, <1>4, <1>5, <1>6, <1>7, <1>8 DEF Parts, Flows

\* One wait for each frame that was pending.
LEMMA LoopStartKeeps ==
    ASSUME Parts, Phys = {1}, cfg.n = 1, LoopStart
    PROVE  Parts'
<1>0. Single /\ One /\ Typing /\ Flows /\ cfg' = cfg
  BY DEF Single, One, Parts, Flows, Phys, LoopStart
<1>a. /\ d = "loop" /\ send["disp"] = NoSend
      /\ UNCHANGED <<evvars, cfg, mode, kick, retire, done, wrok, est, hw, pdead, send>>
      /\ UNCHANGED <<past, e, n>>
      /\ \/ left > 0 /\ d' = "tx" /\ left' = left - 1
         \/ ~(left > 0) /\ d' = "cdend" /\ left' = left
  BY DEF LoopStart
<1>b. WaitTyping' /\ IF d' = "tx" THEN Goes("disp", "test", 0) ELSE w' = w
  <2>1. CASE left > 0
    <3>1. StartWait("disp") /\ d' = "tx"
      BY <2>1 DEF LoopStart
    <3> QED
      BY <1>0, <3>1, Starts DEF Threads
  <2>2. CASE ~(left > 0)
    BY <1>0, <2>2 DEF LoopStart, Typing, WaitTyping
  <2> QED
    BY <2>1, <2>2
<1>1. Typing'
  <2>1. EventTyping'
    BY <1>0 DEF Typing, EventTyping, LoopStart, evvars
  <2>2. PhysTyping'
    BY <1>0 DEF Single, Typing, PhysTyping, LoopStart
  <2>3. HwTyping'
    BY <1>0 DEF Single, Typing, HwTyping, LoopStart
  <2>4. SendTyping'
    BY <1>0 DEF Typing, SendTyping, LoopStart
  <2>5. WaitTyping'
    BY <1>b
  <2>6. ThreadTyping'
    BY <1>0 DEF Typing, ThreadTyping, Waits, LoopStart
  <2> QED
    BY <2>1, <2>2, <2>3, <2>4, <2>5, <2>6 DEF Typing
<1>2. Contexts'
  BY <1>a, <1>b DEF Parts, Contexts, Threads, Waits, Goes
<1>3. InFlight'
  BY <1>a, <1>b DEF Parts, Typing, PhysTyping, ThreadTyping, InFlight, Goal, Wr, Waits, Begun,
     Down, Goes
<1>4. RetireOnce'
  BY DEF Parts, RetireOnce, Told, Wr, LoopStart
<1>5. Thread'
  BY DEF Parts, Thread, Down, LoopStart, evvars
<1>6. Reads'
  <2>1. Ahead' \in {Ahead, Ahead + 1}
    BY <1>0, <1>a, <1>b DEF Single, Parts, Typing, EventTyping, Contexts, Ahead, Slack, Owed,
       Latched,
       Late, Goes, Threads, Waits
  <2>2. kick' \in [Phys' -> Nat] /\ n' = n /\ cfg' = cfg
    BY <1>1, <1>a DEF Typing, PhysTyping
  <2>3. /\ "gaveup" \in past => "gaveup" \in past'
        /\ (pdead # "no" => pdead' # "no") /\ (d' = "start" => d = "start")
        /\ hw'.busy = {} \/ (hw'.busy = hw.busy /\ hw'.frame = hw.frame)
        /\ hw'.posted = 0 \/ hw'.posted = hw.posted
    BY <1>a
  <2> QED
    BY <1>0, <2>1, <2>2, <2>3, ReadsStay DEF Parts
<1>7. Write'
  BY DEF Parts, Write, Wr, LoopStart
<1>8. Flows'
  <2>1. Ends' = Ends /\ Retires' = Retires
    BY <1>0, <1>a, <1>b, Untouched DEF Goes, Waits, Parts, Contexts
  <2>2. /\ UNCHANGED <<pend, q, cur, fl, fence, n>> /\ Flag' = Flag
        /\ d' = d \/ d' \notin {"flushing", "flushhw", "count"}
    BY <1>a DEF Flag, evvars
  <2> QED
    BY <1>0, <2>1, <2>2, FlowRests
<1>9. QED
  BY <1>1, <1>2, <1>3, <1>4, <1>5, <1>6, <1>7, <1>8 DEF Parts, Flows

\* A wait less.
LEMMA LoopEndKeeps ==
    ASSUME Parts, Phys = {1}, cfg.n = 1, LoopEnd
    PROVE  Parts'
<1>0. Single /\ One /\ Typing /\ Flows /\ cfg' = cfg
  BY DEF Single, One, Parts, Flows, Phys, LoopEnd
<1>1. Typing'
  <2>1. EventTyping'
    BY <1>0 DEF Typing, EventTyping, LoopEnd, evvars
  <2>2. PhysTyping'
    BY <1>0 DEF Single, Typing, PhysTyping, LoopEnd
  <2>3. HwTyping'
    BY <1>0 DEF Single, Typing, HwTyping, LoopEnd
  <2>4. SendTyping'
    BY <1>0 DEF Typing, SendTyping, LoopEnd
  <2>5. WaitTyping'
    BY <1>0 DEF Typing, WaitTyping, Threads, LoopEnd, NoWait
  <2>6. ThreadTyping'
    BY <1>0 DEF Typing, ThreadTyping, LoopEnd
  <2> QED
    BY <2>1, <2>2, <2>3, <2>4, <2>5, <2>6 DEF Typing
<1>2. Contexts'
  BY <1>0 DEF Single, Parts, Typing, EventTyping, PhysTyping, WaitTyping, Contexts, Threads,
     Waits, Before, LoopEnd, NoWait
<1>3. InFlight'
  BY <1>0 DEF Single, Parts, Typing, EventTyping, PhysTyping, HwTyping, InFlight, Goal, Wr,
     Waits, Begun, Down, LoopEnd
<1>4. RetireOnce'
  BY DEF Parts, RetireOnce, Told, Wr, LoopEnd
<1>5. Thread'
  BY DEF Parts, Thread, Down, LoopEnd, evvars
<1>6. Reads'
  BY <1>0 DEF Single, Parts, Typing, EventTyping, PhysTyping, HwTyping, SendTyping, WaitTyping,
     ThreadTyping, Thread, Reads, Write, Ahead, Slack, Owed, Latched, Late, Wr, LoopEnd
<1>7. Write'
  BY DEF Parts, Write, Wr, LoopEnd
<1>8. Flows'
  <2>1. Ends' = Ends /\ Retires' = Retires
    BY <1>0, Untouched DEF LoopEnd, NoWait
  <2>2. /\ UNCHANGED <<pend, q, cur, fl, fence, n>> /\ Flag' = Flag
        /\ d' = d \/ d' \notin {"flushing", "flushhw", "count"}
    BY DEF Flag, LoopEnd, evvars
  <2> QED
    BY <1>0, <2>1, <2>2, FlowRests
<1>9. QED
  BY <1>1, <1>2, <1>3, <1>4, <1>5, <1>6, <1>7, <1>8 DEF Parts, Flows

\* The commit is done.
LEMMA CommitDoneKeeps ==
    ASSUME Parts, Phys = {1}, cfg.n = 1, CommitDone
    PROVE  Parts'
<1>0. Single /\ One /\ Typing /\ Flows /\ cfg' = cfg
  BY DEF Single, One, Parts, Flows, Phys, CommitDone
<1>1. Typing'
  <2>1. EventTyping'
    BY <1>0 DEF Typing, EventTyping, CommitDone, evvars
  <2>2. PhysTyping'
    BY <1>0 DEF Single, Typing, PhysTyping, CommitDone, Awake
  <2>3. HwTyping'
    BY <1>0 DEF Single, Typing, HwTyping, CommitDone, SoftReset, CtlReset
  <2>4. SendTyping'
    BY <1>0 DEF Typing, SendTyping, CommitDone
  <2>5. WaitTyping'
    BY <1>0 DEF Typing, WaitTyping, CommitDone
  <2>6. ThreadTyping'
    BY <1>0 DEF Typing, ThreadTyping, CommitDone
  <2> QED
    BY <2>1, <2>2, <2>3, <2>4, <2>5, <2>6 DEF Typing
<1>2. Contexts'
  BY DEF Parts, Contexts, Waits, CommitDone
<1>3. InFlight'
  BY DEF Parts, Typing, PhysTyping, InFlight, Waits, Down, CommitDone
<1>4. RetireOnce'
  BY DEF Parts, RetireOnce, Told, Wr, CommitDone
<1>5. Thread'
  BY DEF Parts, Thread, Down, CommitDone, evvars
<1>6. Reads'
  BY <1>0 DEF Single, Parts, Typing, EventTyping, PhysTyping, HwTyping, SendTyping, WaitTyping,
     Reads, Write, Ahead, Slack, Owed, Latched, Late, Wr, CommitDone, SoftReset, CtlReset
<1>7. Write'
  BY <1>0 DEF Single, Parts, Typing, EventTyping, PhysTyping, HwTyping, Write, Wr, CommitDone,
     SoftReset, CtlReset
<1>8. Flows'
  <2>1. Ends' = Ends /\ Retires' = Retires
    BY <1>0, Untouched DEF CommitDone
  <2>2. /\ UNCHANGED <<pend, q, cur, fl, fence, n>> /\ Flag' = Flag
        /\ d' = d \/ d' \notin {"flushing", "flushhw", "count"}
    BY DEF Flag, CommitDone, evvars
  <2> QED
    BY <1>0, <2>1, <2>2, FlowRests
<1>9. QED
  BY <1>1, <1>2, <1>3, <1>4, <1>5, <1>6, <1>7, <1>8 DEF Parts, Flows

\* Enable and disable find no frame between two threads.
LEMMA EnableKeeps ==
    ASSUME Parts, Phys = {1}, cfg.n = 1, Enable
    PROVE  Parts'
<1>0. Single /\ One /\ Typing /\ Flows /\ cfg' = cfg
  BY DEF Single, One, Parts, Flows, Phys, Enable
<1>1. Typing'
  <2>1. EventTyping'
    BY <1>0 DEF Typing, EventTyping, Enable
  <2>2. PhysTyping'
    BY <1>0 DEF Single, Typing, PhysTyping, Enable
  <2>3. HwTyping'
    BY <1>0 DEF Single, Typing, HwTyping, Enable
  <2>4. SendTyping'
    BY <1>0 DEF Typing, SendTyping, Enable
  <2>5. WaitTyping'
    BY <1>0 DEF Typing, WaitTyping, Enable
  <2>6. ThreadTyping'
    BY <1>0 DEF Typing, ThreadTyping, Enable
  <2> QED
    BY <2>1, <2>2, <2>3, <2>4, <2>5, <2>6 DEF Typing
<1>2. Contexts'
  BY DEF Parts, Contexts, Waits, Enable
<1>3. InFlight'
  BY <1>0 DEF Single, Parts, Typing, EventTyping, PhysTyping, ThreadTyping, InFlight, Wr, Waits,
     Begun, Enable
<1>4. RetireOnce'
  BY <1>0 DEF Single, Parts, Typing, EventTyping, PhysTyping, RetireOnce, Told, Wr, Enable
<1>5. Thread'
  BY DEF Parts, Typing, ThreadTyping, Thread, Wr, Waits, Begun, Enable
<1>6. Reads'
  BY <1>0 DEF Single, Parts, Typing, EventTyping, PhysTyping, HwTyping, SendTyping, Reads, Ahead,
     Slack,
     Owed, Latched, Late, Busy, Enable
<1>7. Write'
  BY DEF Parts, Write, Wr, Enable
<1>8. Flows'
  <2>1. Ends' = Ends /\ Retires' = Retires
    BY <1>0, Untouched DEF Enable
  <2>2. /\ UNCHANGED <<pend, q, cur, fl, fence, n>> /\ Flag' = Flag
        /\ d' = d \/ d' \notin {"flushing", "flushhw", "count"}
    BY DEF Flag, Enable
  <2> QED
    BY <1>0, <2>1, <2>2, FlowRests
<1>9. QED
  BY <1>1, <1>2, <1>3, <1>4, <1>5, <1>6, <1>7, <1>8 DEF Parts, Flows

\* A disable waits for the last frame,
LEMMA DisableKeeps ==
    ASSUME Parts, Phys = {1}, cfg.n = 1, Disable
    PROVE  Parts'
<1>0. Single /\ One /\ Typing /\ Flows /\ cfg' = cfg
  BY DEF Single, One, Parts, Flows, Phys, Disable
<1>b. WaitTyping' /\ Goes("disp", "test", 0)
  BY <1>0, Starts DEF Threads, Disable
<1>1. Typing'
  <2>1. EventTyping'
    BY <1>0 DEF Typing, EventTyping, Disable, evvars
  <2>2. PhysTyping'
    BY <1>0 DEF Single, Typing, PhysTyping, Disable
  <2>3. HwTyping'
    BY <1>0 DEF Single, Typing, HwTyping, Disable
  <2>4. SendTyping'
    BY <1>0 DEF Typing, SendTyping, Disable
  <2>5. WaitTyping'
    BY <1>b
  <2>6. ThreadTyping'
    BY <1>0 DEF Typing, ThreadTyping, Waits, Disable
  <2> QED
    BY <2>1, <2>2, <2>3, <2>4, <2>5, <2>6 DEF Typing
<1>2. Contexts'
  BY <1>0 DEF Single, Parts, Typing, EventTyping, PhysTyping, HwTyping, WaitTyping, Contexts,
     Threads, Waits, Disable, StartWait
<1>3. InFlight'
  BY <1>0 DEF Single, Parts, Typing, EventTyping, PhysTyping, HwTyping, WaitTyping, InFlight,
     Goal, Threads, Down, Disable, StartWait, NoWait
<1>4. RetireOnce'
  BY DEF Parts, RetireOnce, Told, Wr, Disable
<1>5. Thread'
  BY DEF Parts, Thread, Down, Disable, evvars
<1>6. Reads'
  BY <1>0 DEF Single, Parts, Typing, EventTyping, PhysTyping, HwTyping, SendTyping, Contexts,
     Reads, Write, Ahead, Slack, Owed, Latched, Late, Busy, Waits, Disable, StartWait
<1>7. Write'
  BY DEF Parts, Write, Wr, Disable
<1>8. Flows'
  <2>1. Ends' = Ends /\ Retires' = Retires
    BY <1>0, <1>b, Untouched DEF Goes, Waits, Parts, Contexts, Disable
  <2>2. /\ UNCHANGED <<pend, q, cur, fl, fence, n>> /\ Flag' = Flag
        /\ d' = d \/ d' \notin {"flushing", "flushhw", "count"}
    BY DEF Flag, Disable, evvars
  <2> QED
    BY <1>0, <2>1, <2>2, FlowRests
<1>9. QED
  BY <1>1, <1>2, <1>3, <1>4, <1>5, <1>6, <1>7, <1>8 DEF Parts, Flows

\* ... which is done,
LEMMA DisableWaitedKeeps ==
    ASSUME Parts, Phys = {1}, cfg.n = 1, DisableWaited
    PROVE  Parts'
<1>0. Single /\ One /\ Typing /\ Flows /\ cfg' = cfg
  BY DEF Single, One, Parts, Flows, Phys, DisableWaited
<1>1. Typing'
  <2>1. EventTyping'
    BY <1>0 DEF Typing, EventTyping, DisableWaited, evvars
  <2>2. PhysTyping'
    BY <1>0 DEF Single, Typing, PhysTyping, DisableWaited
  <2>3. HwTyping'
    BY <1>0 DEF Single, Typing, HwTyping, DisableWaited
  <2>4. SendTyping'
    BY <1>0 DEF Typing, SendTyping, DisableWaited
  <2>5. WaitTyping'
    BY <1>0 DEF Typing, WaitTyping, Threads, DisableWaited, NoWait
  <2>6. ThreadTyping'
    BY <1>0 DEF Typing, ThreadTyping, Down, DisableWaited
  <2> QED
    BY <2>1, <2>2, <2>3, <2>4, <2>5, <2>6 DEF Typing
<1>2. Contexts'
  BY <1>0 DEF Single, Parts, Typing, EventTyping, PhysTyping, WaitTyping, Contexts, Threads,
     Waits, Before, DisableWaited, NoWait
<1>3. InFlight'
  BY DEF Parts, Typing, PhysTyping, InFlight, Goal, Waits, DisableWaited
<1>4. RetireOnce'
  BY DEF Parts, RetireOnce, Told, Wr, DisableWaited
<1>5. Thread'
  BY DEF Parts, Thread, DisableWaited, evvars
<1>6. Reads'
  BY <1>0 DEF Single, Parts, Typing, EventTyping, PhysTyping, HwTyping, SendTyping, ThreadTyping,
     Thread, Reads, Write, Ahead, Slack, Owed, Latched, Late, Wr, DisableWaited
<1>7. Write'
  BY DEF Parts, Write, Wr, DisableWaited
<1>8. Flows'
  <2>1. Ends' = Ends /\ Retires' = Retires
    BY <1>0, Untouched DEF DisableWaited, NoWait
  <2>2. /\ UNCHANGED <<pend, q, cur, fl, fence, n>> /\ Flag' = Flag
        /\ d' = d \/ d' \notin {"flushing", "flushhw", "count"}
    BY DEF Flag, DisableWaited, evvars
  <2> QED
    BY <1>0, <2>1, <2>2, FlowRests
<1>9. QED
  BY <1>1, <1>2, <1>3, <1>4, <1>5, <1>6, <1>7, <1>8 DEF Parts, Flows

\* ... stops the encoder when no ESD work runs,
LEMMA DisablePhysKeeps ==
    ASSUME Parts, Phys = {1}, cfg.n = 1, DisablePhys
    PROVE  Parts'
<1>0. Single /\ One /\ Typing /\ Flows /\ cfg' = cfg
  BY DEF Single, One, Parts, Flows, Phys, DisablePhys
<1>1. Typing'
  <2>1. EventTyping'
    BY <1>0 DEF Typing, EventTyping, DisablePhys, evvars
  <2>2. PhysTyping'
    BY <1>0 DEF Single, Typing, PhysTyping, DisablePhys
  <2>3. HwTyping'
    BY <1>0 DEF Typing, HwTyping, DisablePhys, CtlReset
  <2>4. SendTyping'
    BY <1>0 DEF Typing, SendTyping, DisablePhys
  <2>5. WaitTyping'
    BY <1>0 DEF Typing, WaitTyping, DisablePhys
  <2>6. ThreadTyping'
    BY <1>0 DEF Typing, ThreadTyping, Down, DisablePhys
  <2> QED
    BY <2>1, <2>2, <2>3, <2>4, <2>5, <2>6 DEF Typing
<1>2. Contexts'
  BY DEF Parts, Contexts, Waits, DisablePhys
<1>3. InFlight'
  BY <1>0 DEF Single, Parts, Typing, EventTyping, PhysTyping, HwTyping, ThreadTyping, InFlight,
     Wr, Waits, Begun, DisablePhys
<1>4. RetireOnce'
  BY DEF Parts, RetireOnce, Told, Wr, DisablePhys
<1>5. Thread'
  BY DEF Parts, Thread, DisablePhys, CtlReset, evvars
<1>6. Reads'
  BY DEF Reads, DisablePhys, CtlReset
<1>7. Write'
  BY DEF Parts, Write, Wr, DisablePhys, CtlReset
<1>8. Flows'
  <2>1. Ends' = Ends /\ Retires' = Retires
    BY <1>0, Untouched DEF DisablePhys
  <2>2. /\ UNCHANGED <<pend, q, cur, fl, fence, n>> /\ Flag' = Flag
        /\ d' = d \/ d' \notin {"flushing", "flushhw", "count"}
    BY DEF Flag, DisablePhys, evvars
  <2> QED
    BY <1>0, <2>1, <2>2, FlowRests
<1>9. QED
  BY <1>1, <1>2, <1>3, <1>4, <1>5, <1>6, <1>7, <1>8 DEF Parts, Flows

\* ... and the interrupts,
LEMMA DisableStopKeeps ==
    ASSUME Parts, Phys = {1}, cfg.n = 1, DisableStop
    PROVE  Parts'
<1>0. Single /\ One /\ Typing /\ Flows /\ cfg' = cfg
  BY DEF Single, One, Parts, Flows, Phys, DisableStop
<1>1. Typing'
  <2>1. EventTyping'
    BY <1>0 DEF Typing, EventTyping, DisableStop, evvars
  <2>2. PhysTyping'
    BY <1>0 DEF Single, Typing, PhysTyping, DisableStop
  <2>3. HwTyping'
    BY <1>0 DEF Single, Typing, HwTyping, DisableStop
  <2>4. SendTyping'
    BY <1>0 DEF Typing, SendTyping, DisableStop
  <2>5. WaitTyping'
    BY <1>0 DEF Typing, WaitTyping, DisableStop
  <2>6. ThreadTyping'
    BY <1>0 DEF Typing, ThreadTyping, Down, DisableStop
  <2> QED
    BY <2>1, <2>2, <2>3, <2>4, <2>5, <2>6 DEF Typing
<1>2. Contexts'
  BY DEF Parts, Contexts, Waits, DisableStop
<1>3. InFlight'
  BY <1>0 DEF Single, Parts, Typing, EventTyping, PhysTyping, HwTyping, ThreadTyping, InFlight,
     Wr, Waits, Begun, DisableStop
<1>4. RetireOnce'
  BY <1>0 DEF Single, Parts, Typing, EventTyping, PhysTyping, RetireOnce, Told, Wr, DisableStop
<1>5. Thread'
  BY DEF Parts, Typing, ThreadTyping, Thread, Wr, Waits, Begun, DisableStop, evvars
<1>6. Reads'
  BY <1>0 DEF Single, Parts, Typing, EventTyping, PhysTyping, HwTyping, SendTyping, WaitTyping,
     ThreadTyping, Contexts, Thread, Reads, Write, Ahead, Slack, Owed, Latched, Late, Busy,
     Posted,
  Threads, Wr, Waits, DisableStop
<1>7. Write'
  BY DEF Parts, Write, Wr, DisableStop
<1>8. Flows'
  <2>1. Ends' = Ends /\ Retires' = Retires
    BY <1>0, Untouched DEF DisableStop
  <2>2. /\ UNCHANGED <<pend, q, cur, fl, fence, n>> /\ Flag' = Flag
        /\ d' = d \/ d' \notin {"flushing", "flushhw", "count"}
    BY DEF Flag, DisableStop, evvars
  <2> QED
    BY <1>0, <2>1, <2>2, FlowRests
<1>9. QED
  BY <1>1, <1>2, <1>3, <1>4, <1>5, <1>6, <1>7, <1>8 DEF Parts, Flows

\* ... flushes the event thread
LEMMA DisableFlushKeeps ==
    ASSUME Parts, Phys = {1}, cfg.n = 1, DisableFlush
    PROVE  Parts'
<1>0. Single /\ One /\ Typing /\ Flows /\ cfg' = cfg
  BY DEF Single, One, Parts, Flows, Phys, DisableFlush, physvars
<1>1. Typing'
  <2>1. EventTyping'
    BY <1>0 DEF Typing, EventTyping, DisableFlush, WorkerFlush, Todo
  <2>2. PhysTyping'
    BY <1>0 DEF Single, Typing, PhysTyping, DisableFlush, physvars
  <2>3. HwTyping'
    BY <1>0 DEF Single, Typing, HwTyping, DisableFlush, physvars
  <2>4. SendTyping'
    BY <1>0 DEF Typing, SendTyping, DisableFlush, physvars
  <2>5. WaitTyping'
    BY <1>0 DEF Typing, WaitTyping, DisableFlush, physvars
  <2>6. ThreadTyping'
    BY <1>0 DEF Single, Typing, ThreadTyping, Down, DisableFlush
  <2> QED
    BY <2>1, <2>2, <2>3, <2>4, <2>5, <2>6 DEF Typing
<1>2. Contexts'
  BY DEF Parts, Contexts, Waits, DisableFlush, physvars
<1>3. InFlight'
  BY <1>0 DEF Single, Parts, Typing, EventTyping, PhysTyping, HwTyping, ThreadTyping, InFlight,
     Wr, Waits, Begun, DisableFlush, physvars
<1>4. RetireOnce'
  BY <1>0 DEF Single, Parts, Typing, EventTyping, PhysTyping, HwTyping, RetireOnce, Told, Wr,
     DisableFlush, physvars
<1>5. Thread'
  BY <1>0 DEF Single, Parts, Typing, EventTyping, PhysTyping, ThreadTyping, Thread, Todo, Wr,
     Waits, Begun, DisableFlush, WorkerFlush, physvars
<1>6. Reads'
  BY <1>0 DEF Single, Parts, Typing, EventTyping, PhysTyping, HwTyping, SendTyping, Reads, Ahead,
     Slack,
     Owed, Latched, Late, Busy, DisableFlush, physvars
<1>7. Write'
  BY <1>0 DEF Single, Parts, Typing, EventTyping, PhysTyping, HwTyping, Write, Wr, DisableFlush,
     physvars
<1>8. Flows'
  <2>1. Ends' = Ends /\ Retires' = Retires
    BY <1>0, Untouched DEF DisableFlush, physvars
  <2>2. d = "dflush" /\ d' = "dend" /\ WorkerFlush /\ n' = n
    BY DEF DisableFlush
  <2> QED
    BY <1>0, <2>1, <2>2, FlowStops
<1>9. QED
  BY <1>1, <1>2, <1>3, <1>4, <1>5, <1>6, <1>7, <1>8 DEF Parts, Flows

\* ... and finds every fence signalled.
LEMMA DisableEndKeeps ==
    ASSUME Parts, Phys = {1}, cfg.n = 1, DisableEnd
    PROVE  Parts'
<1>0. Single /\ One /\ Typing /\ Flows /\ cfg' = cfg
  BY DEF Single, One, Parts, Flows, Phys, DisableEnd
<1>o. Flows' /\ q = <<>> /\ cur = "none" /\ Len(fence') = n'
  <2>1. Ends' = Ends /\ Retires' = Retires
    BY <1>0, Untouched DEF DisableEnd
  <2>2. d = "dend" /\ d' = "off" /\ Todo = 0 /\ CrtcOff(n) /\ n' = n
    BY DEF DisableEnd, Parts, Thread
  <2>3. Ends = 0
    BY <2>2 DEF Parts, Contexts, InFlight, Thread, Ends, Late, Sent, NoSend, Release, Waits, Down
  <2> QED
    BY <1>0, <2>1, <2>2, <2>3, FlowOff
<1>1. Typing'
  <2>1. EventTyping'
    <3>1. n \in Nat /\ fence \in Seq({"done", "error", "reset"}) /\ DisableEnd
      BY DEF Parts, Typing, EventTyping, ThreadTyping
    <3> DEFINE f == [i \in 1 .. n |-> IF i <= Len(fence) THEN fence[i] ELSE "reset"]
    <3>2. f \in Seq({"done", "error", "reset"}) /\ fence' = f
      BY <3>1 DEF DisableEnd, CrtcOff
    <3> HIDE DEF f
    <3> QED
      BY <3>2 DEF Parts, Typing, EventTyping, DisableEnd, CrtcOff
  <2>2. PhysTyping'
    BY <1>0 DEF Single, Typing, PhysTyping, DisableEnd
  <2>3. HwTyping'
    BY <1>0 DEF Single, Typing, HwTyping, DisableEnd
  <2>4. SendTyping'
    BY <1>0 DEF Typing, SendTyping, DisableEnd
  <2>5. WaitTyping'
    BY <1>0 DEF Typing, WaitTyping, DisableEnd
  <2>6. ThreadTyping'
    BY <1>0 DEF Typing, ThreadTyping, Down, DisableEnd
  <2> QED
    BY <2>1, <2>2, <2>3, <2>4, <2>5, <2>6 DEF Typing
<1>2. Contexts'
  BY DEF Parts, Contexts, Waits, DisableEnd
<1>3. InFlight'
  BY <1>0 DEF Single, Parts, Typing, EventTyping, PhysTyping, HwTyping, ThreadTyping, InFlight,
     Wr, Waits, Begun, DisableEnd
<1>4. RetireOnce'
  BY DEF Parts, RetireOnce, Told, Wr, DisableEnd
<1>5. Thread'
  BY <1>0, <1>o DEF Single, Parts, Typing, EventTyping, ThreadTyping, Thread, Wr, Waits, Begun,
     DisableEnd, CrtcOff
<1>6. Reads'
  BY <1>0 DEF Single, Parts, Typing, EventTyping, PhysTyping, HwTyping, SendTyping, ThreadTyping,
     Thread, Reads, Wr, Waits, Begun, DisableEnd
<1>7. Write'
  BY DEF Parts, Write, Wr, DisableEnd
<1>8. Flows'
  BY <1>o
<1>9. QED
  BY <1>1, <1>2, <1>3, <1>4, <1>5, <1>6, <1>7, <1>8 DEF Parts, Flows

\* The panel is found dead,
LEMMA EsdFailsKeeps ==
    ASSUME Parts, Phys = {1}, cfg.n = 1, EsdFails
    PROVE  Parts'
<1>0. Single /\ One /\ Typing /\ Flows /\ cfg' = cfg
  BY DEF Single, One, Parts, Flows, Phys, EsdFails
<1>1. Typing'
  <2>1. EventTyping'
    BY <1>0 DEF Typing, EventTyping, EsdFails, evvars
  <2>2. PhysTyping'
    BY <1>0 DEF Single, Typing, PhysTyping, EsdFails
  <2>3. HwTyping'
    BY <1>0 DEF Single, Typing, HwTyping, EsdFails
  <2>4. SendTyping'
    BY <1>0 DEF Typing, SendTyping, EsdFails
  <2>5. WaitTyping'
    BY <1>0 DEF Typing, WaitTyping, EsdFails
  <2>6. ThreadTyping'
    BY <1>0 DEF Typing, ThreadTyping, EsdFails
  <2> QED
    BY <2>1, <2>2, <2>3, <2>4, <2>5, <2>6 DEF Typing
<1>2. Contexts'
  BY DEF Parts, Contexts, EsdFails
<1>3. InFlight'
  BY DEF Parts, InFlight, Goal, EsdFails
<1>4. RetireOnce'
  BY DEF Parts, RetireOnce, Told, EsdFails
<1>5. Thread'
  BY DEF Parts, Thread, Down, EsdFails, evvars
<1>6. Reads'
  BY <1>0 DEF Single, Parts, Typing, EventTyping, PhysTyping, HwTyping, SendTyping, Reads, Ahead,
     Slack,
     Owed, Latched, Late, Busy, Posted, EsdFails
<1>7. Write'
  BY DEF Parts, Write, EsdFails
<1>8. Flows'
  <2>1. Ends' = Ends /\ Retires' = Retires
    BY <1>0, Untouched DEF EsdFails
  <2>2. /\ UNCHANGED <<pend, q, cur, fl, fence, n>> /\ Flag' = Flag
        /\ d' = d \/ d' \notin {"flushing", "flushhw", "count"}
    BY DEF Flag, EsdFails, evvars
  <2> QED
    BY <1>0, <2>1, <2>2, FlowRests
<1>9. QED
  BY <1>1, <1>2, <1>3, <1>4, <1>5, <1>6, <1>7, <1>8 DEF Parts, Flows

\* The report of a dead panel is queued in an entry of its own, not of the pool.
LEMMA EsdReportsKeeps ==
    ASSUME Parts, Phys = {1}, cfg.n = 1, EsdReports
    PROVE  Parts'
<1>0. Single /\ One /\ Typing /\ Flows /\ cfg' = cfg
  BY DEF Single, One, Parts, Flows, Phys, EsdReports
<1>1. Typing'
  <2>1. EventTyping'
    BY <1>0 DEF Typing, EventTyping, Kinds, EsdReports
  <2>2. PhysTyping'
    BY <1>0 DEF Single, Typing, PhysTyping, EsdReports
  <2>3. HwTyping'
    BY <1>0 DEF Single, Typing, HwTyping, EsdReports
  <2>4. SendTyping'
    BY <1>0 DEF Typing, SendTyping, EsdReports
  <2>5. WaitTyping'
    BY <1>0 DEF Typing, WaitTyping, EsdReports
  <2>6. ThreadTyping'
    BY <1>0 DEF Typing, ThreadTyping, EsdReports
  <2> QED
    BY <2>1, <2>2, <2>3, <2>4, <2>5, <2>6 DEF Typing
<1>2. Contexts'
  BY DEF Parts, Contexts, EsdReports
<1>3. InFlight'
  BY DEF Parts, InFlight, Goal, EsdReports
<1>4. RetireOnce'
  BY DEF Parts, RetireOnce, Told, EsdReports
<1>5. Thread'
  BY DEF Parts, Typing, ThreadTyping, Thread, Wr, Waits, Begun, EsdReports
<1>6. Reads'
  BY <1>0 DEF Single, Parts, Typing, EventTyping, PhysTyping, HwTyping, SendTyping, Reads, Ahead,
     Slack,
     Owed, Latched, Late, Busy, Posted, EsdReports
<1>7. Write'
  BY DEF Parts, Write, EsdReports
<1>8. Flows'
  <2>1. Ends' = Ends /\ Retires' = Retires
    BY <1>0, Untouched DEF EsdReports
  <2>2. Retires <= 2
    BY DEF Parts, Typing, PhysTyping, RetireOnce, Retires, Told
  <2>3. One'
    BY <1>0, <1>1 DEF One
  <2>4. /\ "esd" \in Kinds /\ "esd" \notin Release /\ q' = Append(q, "esd")
        /\ UNCHANGED <<pend, cur, fl, fence, n, d>>
    BY DEF Kinds, Release, EsdReports
  <2>5. Ends \in Nat /\ Retires \in Nat
    BY <1>0, Counted
  <2>6. /\ Ends' = Ends - (IF "esd" \in Release THEN 1 ELSE 0)
        /\ Retires' = Retires - (IF "esd" = "retire" THEN 1 ELSE 0)
    BY <2>1, <2>4, <2>5
  <2> QED
    BY <1>0, <2>2, <2>3, <2>4, <2>6, FlowPosts
<1>9. QED
  BY <1>1, <1>2, <1>3, <1>4, <1>5, <1>6, <1>7, <1>8 DEF Parts, Flows

\* ... its report is through and a wait begins,
LEMMA EsdFlushedKeeps ==
    ASSUME Parts, Phys = {1}, cfg.n = 1, EsdFlushed
    PROVE  Parts'
<1>0. Single /\ One /\ Typing /\ Flows /\ cfg' = cfg
  BY DEF Single, One, Parts, Flows, Phys, EsdFlushed
<1>b. WaitTyping' /\ Goes("esd", "test", 0)
  BY <1>0, Starts DEF Threads, EsdFlushed
<1>1. Typing'
  <2>1. EventTyping'
    BY <1>0 DEF Typing, EventTyping, EsdFlushed, evvars
  <2>2. PhysTyping'
    BY <1>0 DEF Single, Typing, PhysTyping, EsdFlushed
  <2>3. HwTyping'
    BY <1>0 DEF Single, Typing, HwTyping, EsdFlushed
  <2>4. SendTyping'
    BY <1>0 DEF Typing, SendTyping, EsdFlushed
  <2>5. WaitTyping'
    BY <1>b
  <2>6. ThreadTyping'
    BY <1>0 DEF Typing, ThreadTyping, EsdFlushed
  <2> QED
    BY <2>1, <2>2, <2>3, <2>4, <2>5, <2>6 DEF Typing
<1>2. Contexts'
  BY DEF Parts, Typing, WaitTyping, Contexts, Threads, EsdFlushed, StartWait
<1>3. InFlight'
  BY DEF Parts, InFlight, Goal, EsdFlushed, StartWait
<1>4. RetireOnce'
  BY DEF Parts, RetireOnce, Told, EsdFlushed
<1>5. Thread'
  BY DEF Parts, Thread, Todo, EsdFlushed, evvars
<1>6. Reads'
  BY <1>0 DEF Single, Parts, Typing, EventTyping, PhysTyping, HwTyping, SendTyping, Contexts,
     Reads, Write, Ahead, Slack, Owed, Latched, Late, Busy, Posted, EsdFlushed, StartWait
<1>7. Write'
  BY DEF Parts, Write, EsdFlushed
<1>8. Flows'
  <2>1. Ends' = Ends /\ Retires' = Retires
    BY <1>0, <1>b, Untouched DEF Goes, Parts, Contexts, EsdFlushed
  <2>2. /\ UNCHANGED <<pend, q, cur, fl, fence, n>> /\ Flag' = Flag
        /\ d' = d \/ d' \notin {"flushing", "flushhw", "count"}
    BY DEF Flag, EsdFlushed, evvars
  <2> QED
    BY <1>0, <2>1, <2>2, FlowRests
<1>9. QED
  BY <1>1, <1>2, <1>3, <1>4, <1>5, <1>6, <1>7, <1>8 DEF Parts, Flows

\* ... that has come to its end.
LEMMA EsdEndKeeps ==
    ASSUME Parts, Phys = {1}, cfg.n = 1, EsdEnd
    PROVE  Parts'
<1>0. Single /\ One /\ Typing /\ Flows /\ cfg' = cfg
  BY DEF Single, One, Parts, Flows, Phys, EsdEnd
<1>1. Typing'
  <2>1. EventTyping'
    BY <1>0 DEF Typing, EventTyping, EsdEnd, evvars
  <2>2. PhysTyping'
    BY <1>0 DEF Single, Typing, PhysTyping, EsdEnd
  <2>3. HwTyping'
    BY <1>0 DEF Single, Typing, HwTyping, EsdEnd
  <2>4. SendTyping'
    BY <1>0 DEF Typing, SendTyping, EsdEnd
  <2>5. WaitTyping'
    BY <1>0 DEF Typing, WaitTyping, Threads, EsdEnd, NoWait
  <2>6. ThreadTyping'
    BY <1>0 DEF Typing, ThreadTyping, EsdEnd
  <2> QED
    BY <2>1, <2>2, <2>3, <2>4, <2>5, <2>6 DEF Typing
<1>2. Contexts'
  BY <1>0 DEF Single, Parts, Typing, EventTyping, PhysTyping, WaitTyping, Contexts, Threads,
     Before, EsdEnd, NoWait
<1>3. InFlight'
  BY DEF Parts, InFlight, Goal, EsdEnd
<1>4. RetireOnce'
  BY DEF Parts, RetireOnce, Told, EsdEnd
<1>5. Thread'
  BY DEF Parts, Thread, Todo, EsdEnd, evvars
<1>6. Reads'
  BY DEF Parts, Reads, Ahead, Slack, Owed, Latched, Late, Busy, Posted, Threads, EsdEnd, NoWait
<1>7. Write'
  BY DEF Parts, Write, EsdEnd
<1>8. Flows'
  <2>1. Ends' = Ends /\ Retires' = Retires
    BY <1>0, Untouched DEF EsdEnd, NoWait
  <2>2. /\ UNCHANGED <<pend, q, cur, fl, fence, n>> /\ Flag' = Flag
        /\ d' = d \/ d' \notin {"flushing", "flushhw", "count"}
    BY DEF Flag, EsdEnd, evvars
  <2> QED
    BY <1>0, <2>1, <2>2, FlowRests
<1>9. QED
  BY <1>1, <1>2, <1>3, <1>4, <1>5, <1>6, <1>7, <1>8 DEF Parts, Flows

\* The steps of a wait, by either thread: the test,
LEMMA WaitTestKeeps ==
    ASSUME Parts, Phys = {1}, cfg.n = 1, NEW t \in Threads, NEW all,
           all = (t = "disp" /\ d = "prep"), WaitTest(t, all), UNCHANGED threadvars
    PROVE  Parts'
<1>0. Single /\ One /\ Typing /\ Flows /\ cfg' = cfg
  BY DEF Single, One, Parts, Flows, Phys, WaitTest
<1>a. /\ kick' \in [Phys' -> Nat] /\ SendTyping' /\ WaitTyping'
      /\ w[t].ph = "test" /\ send[t] = NoSend
      /\ \/ SchedulerIdle(1) /\ Gives(t, "done") /\ Goes(t, "end", 0)
         \/ kick[1] = 0 /\ kick' = kick /\ send' = send /\ Goes(t, "end", 0)
         \/ /\ kick[1] > 0 /\ kick' = kick /\ send' = send
            /\ Goes(t, "wait", IF kick[1] > 1 THEN 1 ELSE 0)
  BY <1>0, TestDoes DEF Parts
<1>b. /\ UNCHANGED <<cfg, mode, retire, done, wrok, est, hw, pdead, faults, past>>
      /\ UNCHANGED <<pend, q, cur, fl, fence, cb>>
      /\ UNCHANGED <<d, e, n, perr, nreset, ftm, ph, left>>
  BY DEF WaitTest, evvars, threadvars
<1>1. Typing'
  <2>1. EventTyping'
    BY <1>0, <1>b DEF Typing, EventTyping
  <2>2. PhysTyping'
    BY <1>0, <1>a, <1>b DEF Single, Typing, PhysTyping
  <2>3. HwTyping'
    BY <1>0, <1>b DEF Single, Typing, HwTyping
  <2>4. SendTyping'
    BY <1>a
  <2>5. WaitTyping'
    BY <1>a
  <2>6. ThreadTyping'
    BY <1>0, <1>b DEF Typing, ThreadTyping
  <2> QED
    BY <2>1, <2>2, <2>3, <2>4, <2>5, <2>6 DEF Typing
<1>2. Contexts'
  BY <1>a, <1>b DEF Parts, Typing, SendTyping, Contexts, Threads, NoSend, Before, Goes, Gives
<1>3. InFlight'
  BY <1>0, <1>a, <1>b DEF Single, Parts, Typing, EventTyping, PhysTyping, ThreadTyping, InFlight,
     Goal, Threads, Goes, Gives
<1>4. RetireOnce'
  BY <1>a, <1>b DEF Parts, Typing, PhysTyping, SendTyping, RetireOnce, Told, Threads, Begun, Gives
<1>5. Thread'
  BY <1>a, <1>b DEF Parts, Typing, ThreadTyping, Contexts, Thread, Threads, Wr, Waits, Begun
<1>6. Reads'
  <2>1. CASE SchedulerIdle(1)
    <3>1. mode = "posted" /\ "posted" \in cfg.modes /\ wrok /\ hw.busy = {}
      BY <1>0, <2>1 DEF SchedulerIdle, Typing, PhysTyping, HwTyping
    <3>2. CASE t = "esd"
      BY <1>a, <1>b, <3>1, <3>2 DEF Parts, Contexts, Thread, Reads
    <3>3. CASE t = "disp"
      BY <1>a, <1>b, <3>1, <3>3 DEF Parts, Contexts, Write, Reads, Waits
    <3> QED
      BY <3>2, <3>3 DEF Threads
  <2>2. CASE ~SchedulerIdle(1)
    <3>1. Ahead' = Ahead
      BY <1>a, <1>b, <2>2 DEF Ahead, Slack, Owed, Latched, Late, Goes, Threads
    <3> QED
      BY <1>0, <1>a, <1>b, <3>1, ReadsStay DEF Parts
  <2> QED
    BY <2>1, <2>2
<1>7. Write'
  BY <1>b DEF Parts, Write
<1>8. Flows'
  <2>0. t \in Threads \cup {{"irq"}} /\ "done" \in Release
    BY DEF Release
  <2>1. Ends' = Ends /\ Retires' = Retires
    <3>1. \A u \in Threads : w'[u].ph = "late" <=> w[u].ph = "late"
      BY <1>a DEF Goes
    <3>2. CASE kick' = kick /\ send' = send
      BY <1>0, <1>b, <3>1, <3>2, Untouched
    <3>3. CASE Gives(t, "done")
      BY <1>0, <1>a, <1>b, <2>0, <3>1, <3>3, Leaves
    <3> QED
      BY <1>a, <3>2, <3>3
  <2>2. /\ UNCHANGED <<pend, q, cur, fl, fence, n>> /\ Flag' = Flag
        /\ d' = d \/ d' \notin {"flushing", "flushhw", "count"}
    BY <1>b DEF Flag
  <2> QED
    BY <1>0, <2>1, <2>2, FlowRests
<1>9. QED
  BY <1>1, <1>2, <1>3, <1>4, <1>5, <1>6, <1>7, <1>8 DEF Parts, Flows

\* ... the wait that succeeds,
LEMMA WaitOkKeeps ==
    ASSUME Parts, Phys = {1}, cfg.n = 1, NEW t \in Threads, NEW all,
           all = (t = "disp" /\ d = "prep"), WaitOk(t, all), UNCHANGED threadvars
    PROVE  Parts'
<1>0. Single /\ One /\ Typing /\ Flows /\ cfg' = cfg
  BY DEF Single, One, Parts, Flows, Phys, WaitOk
<1>a. /\ WaitTyping' /\ w[t].ph = "wait" /\ send[t] = NoSend /\ kick[1] <= w[t].chk
      /\ Goes(t, "end", 0)
  BY <1>0, OkDoes DEF Parts
<1>b. /\ UNCHANGED <<cfg, mode, kick, retire, done, wrok, est, hw, pdead, send, faults, past>>
      /\ UNCHANGED <<pend, q, cur, fl, fence, cb>>
      /\ UNCHANGED <<d, e, n, perr, nreset, ftm, ph, left>>
  BY DEF WaitOk, evvars, threadvars
<1>1. Typing'
  <2>1. EventTyping'
    BY <1>0, <1>b DEF Typing, EventTyping
  <2>2. PhysTyping'
    BY <1>0, <1>b DEF Single, Typing, PhysTyping
  <2>3. HwTyping'
    BY <1>0, <1>b DEF Single, Typing, HwTyping
  <2>4. SendTyping'
    BY <1>0, <1>b DEF Typing, SendTyping
  <2>5. WaitTyping'
    BY <1>a
  <2>6. ThreadTyping'
    BY <1>0, <1>b DEF Typing, ThreadTyping
  <2> QED
    BY <2>1, <2>2, <2>3, <2>4, <2>5, <2>6 DEF Typing
<1>2. Contexts'
  BY <1>a, <1>b DEF Parts, Contexts, Threads, Before, Goes
<1>3. InFlight'
  BY <1>0, <1>a, <1>b DEF Single, Parts, Typing, EventTyping, PhysTyping, WaitTyping,
     ThreadTyping, InFlight, Goal, Threads, Goes
<1>4. RetireOnce'
  BY <1>b DEF Parts, RetireOnce, Told
<1>5. Thread'
  BY <1>b DEF Parts, Thread, Todo
<1>6. Reads'
  <2>1. Ahead' \in {Ahead, Ahead + 1}
    BY <1>a, <1>b DEF Ahead, Slack, Owed, Latched, Late, Goes, Threads
  <2>2. kick' \in [Phys' -> Nat] /\ n' = n /\ cfg' = cfg
    BY <1>1, <1>b DEF Typing, PhysTyping
  <2>3. /\ "gaveup" \in past => "gaveup" \in past'
        /\ (pdead # "no" => pdead' # "no") /\ (d' = "start" => d = "start")
        /\ hw'.busy = {} \/ (hw'.busy = hw.busy /\ hw'.frame = hw.frame)
        /\ hw'.posted = 0 \/ hw'.posted = hw.posted
    BY <1>b
  <2> QED
    BY <1>0, <2>1, <2>2, <2>3, ReadsStay DEF Parts
<1>7. Write'
  BY <1>b DEF Parts, Write
<1>8. Flows'
  <2>1. Ends' = Ends /\ Retires' = Retires
    BY <1>0, <1>a, <1>b, Untouched DEF Goes
  <2>2. /\ UNCHANGED <<pend, q, cur, fl, fence, n>> /\ Flag' = Flag
        /\ d' = d \/ d' \notin {"flushing", "flushhw", "count"}
    BY <1>b DEF Flag
  <2> QED
    BY <1>0, <2>1, <2>2, FlowRests
<1>9. QED
  BY <1>1, <1>2, <1>3, <1>4, <1>5, <1>6, <1>7, <1>8 DEF Parts, Flows

\* ... the one whose interrupt was lost,
LEMMA WaitLatchedKeeps ==
    ASSUME Parts, Phys = {1}, cfg.n = 1, NEW t \in Threads, NEW all,
           all = (t = "disp" /\ d = "prep"), WaitLatched(t, all), UNCHANGED threadvars
    PROVE  Parts'
<1>0. Single /\ One /\ Typing /\ Flows /\ cfg' = cfg
  BY DEF Single, One, Parts, Flows, Phys, WaitLatched
<1>a. /\ kick' \in [Phys' -> Nat] /\ SendTyping' /\ WaitTyping'
      /\ w[t].ph = "wait" /\ send[t] = NoSend /\ 1 \in hw.lat
      /\ hw' = [hw EXCEPT !.lat = @ \ {1}] /\ retire' = retire
      /\ Gives(t, "done") /\ Goes(t, "end", 0)
  BY <1>0, LatchedDoes DEF Parts
<1>b. /\ UNCHANGED <<cfg, mode, done, wrok, est, pdead, faults, past>>
      /\ UNCHANGED <<pend, q, cur, fl, fence, cb>>
      /\ UNCHANGED <<d, e, n, perr, nreset, ftm, ph, left>>
  BY DEF WaitLatched, evvars, threadvars
<1>c. /\ hw'.posted = hw.posted /\ hw'.lat = hw.lat \ {1}
      /\ hw'.frame = hw.frame /\ hw'.busy = hw.busy
      /\ HwTyping'
  BY <1>0, <1>a DEF Single, Typing, HwTyping
<1>1. Typing'
  <2>1. EventTyping'
    BY <1>0, <1>b DEF Typing, EventTyping
  <2>2. PhysTyping'
    BY <1>0, <1>a, <1>b DEF Single, Typing, PhysTyping
  <2>3. HwTyping'
    BY <1>c
  <2>4. SendTyping'
    BY <1>a
  <2>5. WaitTyping'
    BY <1>a
  <2>6. ThreadTyping'
    BY <1>0, <1>b DEF Typing, ThreadTyping
  <2> QED
    BY <2>1, <2>2, <2>3, <2>4, <2>5, <2>6 DEF Typing
<1>2. Contexts'
  BY <1>0, <1>a, <1>b DEF Single, Parts, Typing, EventTyping, SendTyping, WaitTyping, Contexts,
     Threads, Wr, Waits, Before, Begun, Release, Goes, Gives
<1>3. InFlight'
  BY <1>0, <1>a, <1>b DEF Single, Parts, Typing, EventTyping, PhysTyping, SendTyping, WaitTyping,
     ThreadTyping, InFlight, RetireOnce, Told, Goal, Threads, NoSend, Wr, Waits, Goes, Gives
<1>4. RetireOnce'
  BY <1>0, <1>a, <1>b DEF Single, Parts, Typing, EventTyping, PhysTyping, SendTyping, RetireOnce,
     Told, Threads, Gives
<1>5. Thread'
  BY <1>a, <1>b DEF Parts, Thread
<1>6. Reads'
  <2>1. Ahead' \in {Ahead, Ahead + 1}
    BY <1>0, <1>a, <1>b, <1>c DEF Single, Parts, Typing, PhysTyping, HwTyping, Ahead, Slack, Owed,
       Latched, Late, Goes, Gives, Threads
  <2>2. kick' \in [Phys' -> Nat] /\ n' = n /\ cfg' = cfg
    BY <1>a, <1>b
  <2>3. /\ "gaveup" \in past => "gaveup" \in past'
        /\ (pdead # "no" => pdead' # "no") /\ (d' = "start" => d = "start")
        /\ hw'.busy = {} \/ (hw'.busy = hw.busy /\ hw'.frame = hw.frame)
        /\ hw'.posted = 0 \/ hw'.posted = hw.posted
    BY <1>a, <1>b
  <2> QED
    BY <1>0, <2>1, <2>2, <2>3, ReadsStay DEF Parts
<1>7. Write'
  BY <1>a, <1>b DEF Parts, Write
<1>8. Flows'
  <2>0. t \in Threads \cup {{"irq"}} /\ "done" \in Release
    BY DEF Release
  <2>1. Ends' = Ends /\ Retires' = Retires
    <3>1. \A u \in Threads : w'[u].ph = "late" <=> w[u].ph = "late"
      BY <1>a DEF Goes
    <3>3. CASE Gives(t, "done")
      BY <1>0, <1>a, <2>0, <3>1, Leaves
    <3> QED
      BY <1>a, <3>3
  <2>2. /\ UNCHANGED <<pend, q, cur, fl, fence, n>> /\ Flag' = Flag
        /\ d' = d \/ d' \notin {"flushing", "flushhw", "count"}
    BY <1>b DEF Flag
  <2> QED
    BY <1>0, <2>1, <2>2, FlowRests
<1>9. QED
  BY <1>1, <1>2, <1>3, <1>4, <1>5, <1>6, <1>7, <1>8 DEF Parts, Flows

\* ... the frame that is given up,
LEMMA WaitGiveUpKeeps ==
    ASSUME Parts, Phys = {1}, cfg.n = 1, NEW t \in Threads, NEW all,
           all = (t = "disp" /\ d = "prep"), WaitGiveUp(t, all), UNCHANGED threadvars
    PROVE  Parts'
<1>0. Single /\ One /\ Typing /\ Flows /\ cfg' = cfg
  BY DEF Single, One, Parts, Flows, Phys, WaitGiveUp
<1>a. /\ kick' \in [Phys' -> Nat] /\ SendTyping' /\ WaitTyping'
      /\ w[t].ph = "over" /\ send[t] = NoSend
      /\ \/ SchedulerIdle(1) /\ Gives(t, "done") /\ Goes(t, "end", 0)
         \/ kick[1] = 0 /\ kick' = kick /\ send' = send /\ Goes(t, "end", 0)
         \/ /\ kick[1] > 0 /\ kick'[1] = kick[1] - 1 /\ send' = send
            /\ Goes(t, "late", w[t].chk)
  BY <1>0, GiveUpDoes DEF Parts
<1>b. /\ UNCHANGED <<cfg, mode, retire, done, wrok, est, hw, pdead, faults, past>>
      /\ UNCHANGED <<pend, q, cur, fl, fence, cb>>
      /\ UNCHANGED <<d, e, n, perr, nreset, ftm, ph, left>>
  BY DEF WaitGiveUp, evvars, threadvars
<1>1. Typing'
  <2>1. EventTyping'
    BY <1>0, <1>b DEF Typing, EventTyping
  <2>2. PhysTyping'
    BY <1>0, <1>a, <1>b DEF Single, Typing, PhysTyping
  <2>3. HwTyping'
    BY <1>0, <1>b DEF Single, Typing, HwTyping
  <2>4. SendTyping'
    BY <1>a
  <2>5. WaitTyping'
    BY <1>a
  <2>6. ThreadTyping'
    BY <1>0, <1>b DEF Typing, ThreadTyping
  <2> QED
    BY <2>1, <2>2, <2>3, <2>4, <2>5, <2>6 DEF Typing
<1>2. Contexts'
  BY <1>a, <1>b DEF Parts, Typing, SendTyping, Contexts, Threads, Before, Goes, Gives
<1>3. InFlight'
  BY <1>0, <1>a, <1>b DEF Single, Parts, Typing, EventTyping, PhysTyping, ThreadTyping, InFlight,
     Told, Goal, Threads, Goes, Gives
<1>4. RetireOnce'
  BY <1>a, <1>b DEF Parts, Typing, PhysTyping, SendTyping, RetireOnce, Told, Threads, Begun, Gives
<1>5. Thread'
  BY <1>a, <1>b DEF Parts, Typing, ThreadTyping, Contexts, Thread, Threads, Wr, Waits, Begun
<1>6. Reads'
  <2>1. CASE SchedulerIdle(1)
    <3>1. mode = "posted" /\ "posted" \in cfg.modes /\ wrok /\ hw.busy = {}
      BY <1>0, <2>1 DEF SchedulerIdle, Typing, PhysTyping, HwTyping
    <3>2. CASE t = "esd"
      BY <1>a, <1>b, <3>1, <3>2 DEF Parts, Contexts, Thread, Reads
    <3>3. CASE t = "disp"
      BY <1>a, <1>b, <3>1, <3>3 DEF Parts, Contexts, Write, Reads, Waits
    <3> QED
      BY <3>2, <3>3 DEF Threads
  <2>2. CASE ~SchedulerIdle(1)
    <3>1. Ahead' = Ahead
      <4>1. CASE kick' = kick
        BY <1>0, <1>a, <1>b, <4>1 DEF Single, Ahead, Slack, Owed, Latched, Late, Goes, Threads
      <4>2. CASE /\ kick[1] > 0 /\ kick'[1] = kick[1] - 1 /\ send' = send
                 /\ Goes(t, "late", w[t].chk)
        <5>1. Owed' = Owed
          BY <1>0, <1>a, <1>b, <4>2, GivenUp DEF Owed
        <5> QED
          BY <1>b, <5>1 DEF Ahead, Slack, Latched
      <4> QED
        BY <1>a, <2>2, <4>1, <4>2
    <3> QED
      BY <1>0, <1>a, <1>b, <3>1, ReadsStay DEF Parts
  <2> QED
    BY <2>1, <2>2
<1>7. Write'
  BY <1>b DEF Parts, Write
<1>8. Flows'
  <2>0. t \in Threads \cup {"irq"} /\ "done" \in Release
    BY DEF Release
  <2>1. Ends' = Ends /\ Retires' = Retires
    <3>1. CASE kick' = kick /\ send' = send /\ Goes(t, "end", 0)
      BY <1>0, <1>a, <1>b, <3>1, Untouched DEF Goes
    <3>2. CASE Gives(t, "done") /\ Goes(t, "end", 0)
      BY <1>0, <1>a, <1>b, <2>0, <3>2, Leaves DEF Goes
    <3>3. CASE /\ kick[1] > 0 /\ kick'[1] = kick[1] - 1 /\ send' = send
                 /\ Goes(t, "late", w[t].chk)
      BY <1>0, <1>a, <1>b, <3>3, GivenUp
    <3> QED
      BY <1>a, <3>1, <3>2, <3>3
  <2>2. /\ UNCHANGED <<pend, q, cur, fl, fence, n>> /\ Flag' = Flag
        /\ d' = d \/ d' \notin {"flushing", "flushhw", "count"}
    BY <1>b DEF Flag
  <2> QED
    BY <1>0, <2>1, <2>2, FlowRests
<1>9. QED
  BY <1>1, <1>2, <1>3, <1>4, <1>5, <1>6, <1>7, <1>8 DEF Parts, Flows

\* ... reported as failed,
LEMMA WaitFailedKeeps ==
    ASSUME Parts, Phys = {1}, cfg.n = 1, NEW t \in Threads, NEW all,
           all = (t = "disp" /\ d = "prep"), WaitFailed(t, all), UNCHANGED threadvars
    PROVE  Parts'
<1>0. Single /\ One /\ Typing /\ Flows /\ cfg' = cfg
  BY DEF Single, One, Parts, Flows, Phys, WaitFailed
<1>a. /\ kick' \in [Phys' -> Nat] /\ SendTyping' /\ WaitTyping'
      /\ w[t].ph = "late" /\ send[t] = NoSend
      /\ kick'[1] = IF all THEN 0 ELSE kick[1]
      /\ send'[t].p = 1 /\ send'[t].ev = "error"
      /\ \A u \in DOMAIN send : u # t => send'[u] = send[u]
      /\ Goes(t, "end", 0)
  BY <1>0, FailedDoes DEF Parts
<1>b. /\ UNCHANGED <<cfg, mode, retire, done, wrok, faults>>
      /\ UNCHANGED <<pend, q, cur, fl, fence, cb>>
      /\ UNCHANGED <<d, e, n, perr, nreset, ftm, ph, left>>
  BY DEF WaitFailed, evvars, threadvars
<1>c. past' = past \cup {"gaveup"} /\ est' \in [Phys -> {"off", "on", "reset"}] /\ HwTyping'
      /\ hw'.posted = hw.posted /\ hw'.lat = hw.lat /\ hw'.busy = hw.busy
      /\ pdead' \in {"no", "pending", "dead"} /\ (pdead # "no" => pdead' # "no")
  <2>1. w[t].p = 1
    BY <1>a DEF Parts, Contexts, Before
  <2>2. est \in [{1} -> {"off", "on", "reset"}] /\ pdead \in {"no", "pending", "dead"} /\ HwTyping
    BY <1>0 DEF Single, Typing, PhysTyping
  <2>3. PICK bad \in BOOLEAN :
           EsdStatus(bad) /\ est' = IF bad THEN est ELSE [est EXCEPT ![w[t].p] = "reset"]
    BY DEF WaitFailed
  <2>4. est' \in [Phys -> {"off", "on", "reset"}]
    BY <2>1, <2>2, <2>3
  <2>5. /\ past' = past \cup {"gaveup"}
        /\ pdead' \in {"no", "pending", "dead"} /\ (pdead # "no" => pdead' # "no")
    BY <2>2, <2>3 DEF WaitFailed, EsdStatus
  <2>6. hw' = hw \/ hw' = [hw EXCEPT !.dead = FALSE]
    BY <2>3 DEF EsdStatus
  <2>7. HwTyping' /\ hw'.posted = hw.posted /\ hw'.lat = hw.lat /\ hw'.busy = hw.busy
    BY <1>0, <1>a, <2>2, <2>6 DEF Single, HwTyping
  <2> QED
    BY <2>4, <2>5, <2>7
<1>d. kick'[1] = kick[1]
  <2>1. all => t = "disp" /\ d = "prep"
    OBVIOUS
  <2> QED
    BY <1>a, <2>1 DEF Parts, Typing, PhysTyping, InFlight, Goal, Waits
<1>1. Typing'
  <2>1. EventTyping'
    BY <1>0, <1>b DEF Typing, EventTyping
  <2>2. PhysTyping'
    BY <1>0, <1>a, <1>b, <1>c DEF Single, Typing, PhysTyping
  <2>3. HwTyping'
    BY <1>c
  <2>4. SendTyping'
    BY <1>a
  <2>5. WaitTyping'
    BY <1>a
  <2>6. ThreadTyping'
    BY <1>0, <1>b DEF Typing, ThreadTyping
  <2> QED
    BY <2>1, <2>2, <2>3, <2>4, <2>5, <2>6 DEF Typing
<1>2. Contexts'
  <2>1. CASE t = "disp"
    BY <1>a, <1>b DEF Parts, Typing, SendTyping, Contexts, Threads, Before, Goes
  <2>2. CASE t = "esd"
    BY <1>a, <1>b DEF Parts, Typing, SendTyping, Contexts, Threads, Before, Goes
  <2> QED
    BY <2>1, <2>2 DEF Threads
<1>3. InFlight'
  BY <1>a, <1>b, <1>d DEF Parts, InFlight, Goal, Threads, Goes
<1>4. RetireOnce'
  BY <1>0, <1>a, <1>b DEF Parts, Typing, PhysTyping, SendTyping, RetireOnce, Told, Threads
<1>5. Thread'
  BY <1>a, <1>b, <1>c DEF Parts, Typing, SendTyping, Thread, Todo, Threads
<1>6. Reads'
  BY <1>c DEF Reads
<1>7. Write'
  BY <1>c DEF Write
<1>8. Flows'
  <2>1. Ends' = Ends /\ Retires' = Retires
    BY <1>0, <1>a, <1>b, <1>d, FailedSent
  <2>2. /\ UNCHANGED <<pend, q, cur, fl, fence, n>> /\ Flag' = Flag
        /\ d' = d \/ d' \notin {"flushing", "flushhw", "count"}
    BY <1>b DEF Flag
  <2> QED
    BY <1>0, <2>1, <2>2, FlowRests
<1>9. QED
  BY <1>1, <1>2, <1>3, <1>4, <1>5, <1>6, <1>7, <1>8 DEF Parts, Flows

\* ... and the time that is over.
LEMMA WaitLateKeeps ==
    ASSUME Parts, Phys = {1}, cfg.n = 1, NEW t \in Threads, WaitLate(t), UNCHANGED threadvars
    PROVE  Parts'
<1>0. Single /\ One /\ Typing /\ Flows /\ cfg' = cfg
  BY DEF Single, One, Parts, Flows, Phys, WaitLate
<1>a. /\ WaitTyping' /\ w[t].ph = "wait" /\ send[t] = NoSend /\ Goes(t, "over", w[t].chk)
      /\ kick[1] > w[t].chk
  BY <1>0, OverDoes DEF Parts
<1>b. /\ UNCHANGED <<cfg, mode, kick, retire, done, wrok, est, hw, pdead, send, faults, past>>
      /\ UNCHANGED <<pend, q, cur, fl, fence, cb>>
      /\ UNCHANGED <<d, e, n, perr, nreset, ftm, ph, left>>
  BY DEF WaitLate, evvars, threadvars
<1>1. Typing'
  <2>1. EventTyping'
    BY <1>0, <1>b DEF Typing, EventTyping
  <2>2. PhysTyping'
    BY <1>0, <1>b DEF Single, Typing, PhysTyping
  <2>3. HwTyping'
    BY <1>0, <1>b DEF Single, Typing, HwTyping
  <2>4. SendTyping'
    BY <1>0, <1>b DEF Typing, SendTyping
  <2>5. WaitTyping'
    BY <1>a
  <2>6. ThreadTyping'
    BY <1>0, <1>b DEF Typing, ThreadTyping
  <2> QED
    BY <2>1, <2>2, <2>3, <2>4, <2>5, <2>6 DEF Typing
<1>2. Contexts'
  BY <1>a, <1>b DEF Parts, Contexts, Threads, Goes
<1>3. InFlight'
  BY <1>0, <1>a, <1>b DEF Single, Parts, Typing, EventTyping, InFlight, Goal, Threads, Goes
<1>4. RetireOnce'
  BY <1>b DEF Parts, RetireOnce, Told
<1>5. Thread'
  BY <1>b DEF Parts, Thread, Todo
<1>6. Reads'
  <2>1. Ahead' \in {Ahead, Ahead + 1}
    BY <1>a, <1>b DEF Ahead, Slack, Owed, Latched, Late, Goes, Threads
  <2>2. kick' \in [Phys' -> Nat] /\ n' = n /\ cfg' = cfg
    BY <1>1, <1>b DEF Typing, PhysTyping
  <2>3. /\ "gaveup" \in past => "gaveup" \in past'
        /\ (pdead # "no" => pdead' # "no") /\ (d' = "start" => d = "start")
        /\ hw'.busy = {} \/ (hw'.busy = hw.busy /\ hw'.frame = hw.frame)
        /\ hw'.posted = 0 \/ hw'.posted = hw.posted
    BY <1>b
  <2> QED
    BY <1>0, <2>1, <2>2, <2>3, ReadsStay DEF Parts
<1>7. Write'
  BY <1>b DEF Parts, Write
<1>8. Flows'
  <2>1. Ends' = Ends /\ Retires' = Retires
    BY <1>0, <1>a, <1>b, Untouched DEF Goes
  <2>2. /\ UNCHANGED <<pend, q, cur, fl, fence, n>> /\ Flag' = Flag
        /\ d' = d \/ d' \notin {"flushing", "flushhw", "count"}
    BY <1>b DEF Flag
  <2> QED
    BY <1>0, <2>1, <2>2, FlowRests
<1>9. QED
  BY <1>1, <1>2, <1>3, <1>4, <1>5, <1>6, <1>7, <1>8 DEF Parts, Flows

\* A report reaches the CRTC: an end or a retire fence less to come, an entry more in the
\* queue.
LEMMA SendKeeps ==
    ASSUME Parts, Phys = {1}, cfg.n = 1, NEW t \in DOMAIN send, Send(t), UNCHANGED threadvars
    PROVE  Parts'
<1>0. Single /\ One /\ Typing /\ Flows /\ cfg' = cfg
  BY DEF Single, One, Parts, Flows, Phys, Send
<1>a. t \in Threads \cup {"irq"} /\ Threads = {"disp", "esd"}
  BY DEF Parts, Typing, SendTyping, Threads
<1>b. /\ UNCHANGED <<cfg, mode, kick, retire, wrok, est, hw, pdead, w, faults, past>>
      /\ UNCHANGED <<d, e, n, perr, nreset, ftm, ph, left>>
  BY DEF Send, threadvars
<1>c. d \notin {"dend", "off"}
  BY <1>a DEF Send, Parts, Contexts, Thread, Waits, Down
<1>d. cb /\ InUse < EventSize
  <2>1. InUse <= 5
    BY <1>0, Counted DEF Parts, Pool, Room
  <2> QED
    BY <1>0, <1>c, <2>1, Counted, EventAssumption DEF Parts, Thread
<1>e. /\ send[t].ev \in Release \cup {"retire"} /\ q' = Append(q, send[t].ev)
      /\ t = "esd" => send[t].ev # "retire"
      /\ done' = [p \in Phys |-> 0] /\ SendTyping' /\ send'[t] = NoSend
      /\ \A u \in DOMAIN send : u # t => send'[u] = send[u]
      /\ UNCHANGED <<pend, cur, fl, fence, cb>>
  BY <1>0, <1>a, <1>d, Sends DEF Parts
<1>1. Typing'
  <2>1. EventTyping'
    BY <1>e DEF Parts, Typing, EventTyping, Kinds, Release
  <2>2. PhysTyping'
    BY <1>0, <1>b, <1>e DEF Single, Typing, PhysTyping
  <2>3. HwTyping'
    BY <1>0, <1>b DEF Single, Typing, HwTyping
  <2>4. SendTyping'
    BY <1>e
  <2>5. WaitTyping'
    BY <1>0, <1>b DEF Typing, WaitTyping
  <2>6. ThreadTyping'
    BY <1>0, <1>b DEF Typing, ThreadTyping
  <2> QED
    BY <2>1, <2>2, <2>3, <2>4, <2>5, <2>6 DEF Typing
<1>2. Contexts'
  BY <1>a, <1>b, <1>e DEF Parts, Typing, SendTyping, Contexts
<1>3. InFlight'
  BY <1>b DEF Parts, InFlight, Goal
<1>4. RetireOnce'
  BY <1>0, <1>a, <1>b, <1>c, <1>e DEF Single, Parts, Typing, PhysTyping, SendTyping, RetireOnce,
     Told, NoSend
<1>5. Thread'
  BY <1>b, <1>c, <1>e DEF Parts, Typing, SendTyping, Thread
<1>6. Reads'
  BY <1>b DEF Parts, Reads, Ahead, Slack, Owed, Latched, Late, Busy, Posted
<1>7. Write'
  BY <1>b DEF Parts, Write
<1>8. Flows'
  <2>1. /\ Ends' = Ends - (IF send[t].ev \in Release THEN 1 ELSE 0)
        /\ Retires' = Retires - (IF send[t].ev = "retire" THEN 1 ELSE 0)
    BY <1>0, <1>a, <1>b, <1>e, SentOff
  <2>2. Retires <= 2
    BY DEF Parts, Typing, PhysTyping, RetireOnce, Retires, Told
  <2>3. One'
    BY <1>0, <1>1 DEF One
  <2>4. send[t].ev \in Kinds
    BY <1>e DEF Kinds, Release
  <2> QED
    BY <1>0, <1>b, <1>e, <2>1, <2>2, <2>3, <2>4, FlowPosts
<1>9. QED
  BY <1>1, <1>2, <1>3, <1>4, <1>5, <1>6, <1>7, <1>8 DEF Parts, Flows

\* The interrupts of wr_ptr and pp_done.
LEMMA IrqKeeps ==
    ASSUME Parts, Phys = {1}, cfg.n = 1, NEW x \in 0 .. 1, Irq(x), UNCHANGED threadvars
    PROVE  Parts'
<1>0. Single /\ One /\ Typing /\ Flows /\ cfg' = cfg
  BY DEF Single, One, Parts, Flows, Phys, Irq
<1>a. /\ UNCHANGED <<cfg, mode, done, wrok, est, pdead, w, faults, past>>
      /\ UNCHANGED <<pend, q, cur, fl, fence, cb>>
      /\ UNCHANGED <<d, e, n, perr, nreset, ftm, ph, left>>
      /\ x \in hw.lat /\ send["irq"] = NoSend
  BY DEF Irq, evvars, threadvars
<1>b. /\ hw'.posted = hw.posted /\ hw'.lat = hw.lat \ {x}
      /\ hw'.frame = hw.frame /\ hw'.busy = hw.busy
      /\ HwTyping'
  BY <1>0 DEF Single, Irq, Callback, Typing, HwTyping
<1>c. /\ kick' \in [Phys' -> Nat] /\ retire' \in Nat /\ SendTyping'
      /\ \/ x = 1 /\ retire' = retire /\ Gives("irq", "done")
         \/ x = 1 /\ retire' = retire /\ kick' = kick /\ send' = send
         \/ /\ x = 0 /\ kick' = kick /\ retire > 0 /\ retire' = retire - 1
            /\ send'["irq"].p = 1 /\ send'["irq"].ev = "retire"
            /\ \A u \in DOMAIN send : u # "irq" => send'[u] = send[u]
         \/ x = 0 /\ kick' = kick /\ retire = 0 /\ retire' = retire /\ send' = send
  <2>0. "irq" \in DOMAIN send /\ "done" \in Release
    BY DEF Parts, Typing, SendTyping, Release
  <2>1. CASE x = 0
    <3>1. GiveRetire("irq") /\ kick' = kick
      BY <2>1 DEF Irq, Callback
    <3> QED
      BY <1>0, <2>0, <2>1, <3>1, GivenRetire DEF Single, Typing, PhysTyping
  <2>2. CASE x = 1
    <3>1. GiveBack("irq", 1, "done") /\ retire' = retire
      BY <2>2 DEF Irq, Callback
    <3> QED
      BY <1>0, <2>0, <2>2, <3>1, Given DEF Typing, PhysTyping
  <2> QED
    BY <2>1, <2>2
<1>1. Typing'
  <2>1. EventTyping'
    BY <1>0, <1>a DEF Typing, EventTyping
  <2>2. PhysTyping'
    BY <1>0, <1>a, <1>c DEF Single, Typing, PhysTyping
  <2>3. HwTyping'
    BY <1>b
  <2>4. SendTyping'
    BY <1>c
  <2>5. WaitTyping'
    BY <1>0, <1>a DEF Typing, WaitTyping
  <2>6. ThreadTyping'
    BY <1>0, <1>a DEF Typing, ThreadTyping
  <2> QED
    BY <2>1, <2>2, <2>3, <2>4, <2>5, <2>6 DEF Typing
<1>2. Contexts'
  BY <1>0, <1>a, <1>b, <1>c DEF Single, Parts, Typing, SendTyping, Contexts, Threads, Waits, Gives
<1>3. InFlight'
  BY <1>a, <1>c DEF Parts, Typing, PhysTyping, ThreadTyping, InFlight, Goal, Gives
<1>4. RetireOnce'
  <2>1. Told("disp")' = Told("disp") /\ Told("disp") \in Nat
    BY <1>0, <1>c DEF Typing, SendTyping, Told, Threads, Gives
  <2>2. retire \in Nat /\ retire' <= retire
    BY <1>0, <1>c DEF Typing, PhysTyping
  <2>3. retire' = 1 => retire = 1
    BY <1>c, <2>1, <2>2 DEF Parts, RetireOnce
  <2> QED
    BY <1>a, <1>c, <2>1, <2>2, <2>3 DEF Parts, RetireOnce
<1>5. Thread'
  BY <1>a, <1>b DEF Parts, Thread
<1>6. Reads'
  <2>1. Ahead' \in {Ahead, Ahead + 1}
    <3> DEFINE k == Owed  kk == Owed'  c == Latched  cc == Latched'  s == Slack
    <3>1. Ahead = k - c + s /\ Ahead' = kk - cc + s /\ s \in {0, 1}
      BY <1>a DEF Ahead, Slack
    <3>2. k \in Nat /\ c \in {0, 1} /\ cc \in {0, 1}
      BY <1>0 DEF Typing, PhysTyping, Owed, Late, Latched
    <3>3. \/ kk = k /\ cc = c
          \/ kk = k - 1 /\ c = 1 /\ cc = 0
          \/ kk = k /\ c = 1 /\ cc = 0
      <4>1. x = 0 => kk = k /\ cc = c
        BY <1>a, <1>b, <1>c DEF Owed, Late, Latched
      <4>2. x = 1 => c = 1 /\ cc = 0 /\ (kk = k \/ kk = k - 1)
        BY <1>0, <1>a, <1>b, <1>c DEF Owed, Late, Latched, Gives, Typing, PhysTyping
      <4> QED
        BY <4>1, <4>2
    <3> HIDE DEF k, kk, c, cc, s
    <3> QED
      BY <3>1, <3>2, <3>3
  <2>2. kick' \in [Phys' -> Nat] /\ n' = n /\ cfg' = cfg
    BY <1>a, <1>c
  <2>3. /\ "gaveup" \in past => "gaveup" \in past'
        /\ (pdead # "no" => pdead' # "no") /\ (d' = "start" => d = "start")
        /\ hw'.busy = {} \/ (hw'.busy = hw.busy /\ hw'.frame = hw.frame)
        /\ hw'.posted = 0 \/ hw'.posted = hw.posted
    BY <1>a, <1>b
  <2> QED
    BY <1>0, <2>1, <2>2, <2>3, ReadsStay DEF Parts
<1>7. Write'
  BY <1>a, <1>b, <1>c DEF Parts, Write, Wr
<1>8. Flows'
  <2>0. /\ "irq" \in Threads \cup {"irq"} /\ "done" \in Release /\ "irq" \in {"disp", "irq"}
        /\ \A u \in Threads : w'[u].ph = "late" <=> w[u].ph = "late"
    BY <1>a DEF Release
  <2>1. Ends' = Ends /\ Retires' = Retires
    <3>1. CASE kick' = kick /\ send' = send /\ retire' = retire
      BY <1>0, <1>a, <3>1, Untouched
    <3>2. CASE retire' = retire /\ Gives("irq", "done")
      BY <1>0, <1>a, <2>0, <3>2, Leaves
    <3>3. CASE /\ kick' = kick /\ retire > 0 /\ retire' = retire - 1 /\ send'["irq"].ev = "retire"
               /\ \A u \in DOMAIN send : u # "irq" => send'[u] = send[u]
      BY <1>0, <1>a, <3>3, Tells
    <3> QED
      BY <1>c, <3>1, <3>2, <3>3
  <2>2. /\ UNCHANGED <<pend, q, cur, fl, fence, n>> /\ Flag' = Flag
        /\ d' = d \/ d' \notin {"flushing", "flushhw", "count"}
    BY <1>a DEF Flag
  <2> QED
    BY <1>0, <2>1, <2>2, FlowRests
<1>9. QED
  BY <1>1, <1>2, <1>3, <1>4, <1>5, <1>6, <1>7, <1>8 DEF Parts, Flows

\* The hardware takes a frame or is through with one.
LEMMA HwKeeps ==
    ASSUME Parts, Phys = {1}, cfg.n = 1, HwStart \/ HwDone(1), UNCHANGED threadvars
    PROVE  Parts'
<1>0. Single /\ One /\ Typing /\ Flows /\ cfg' = cfg
  BY DEF Single, One, Parts, Flows, Phys, HwStart, HwDone
<1>a. /\ UNCHANGED <<cfg, mode, kick, retire, done, wrok, est, pdead, send, w, past>>
      /\ UNCHANGED <<pend, q, cur, fl, fence, cb>>
      /\ UNCHANGED <<d, e, n, perr, nreset, ftm, ph, left>>
  BY DEF HwStart, HwDone, evvars, threadvars
<1>b. /\ HwTyping' /\ faults' \in Nat
      /\ hw'.dead = hw.dead /\ hw'.hung = hw.hung
      /\ \/ /\ hw.posted # 0 /\ hw.busy = {} /\ 0 \notin hw.lat
            /\ hw'.posted = 0 /\ hw'.frame = hw.posted /\ hw'.busy = {1}
            /\ hw'.lat = hw.lat \cup {0} \/ hw'.lat = hw.lat
         \/ /\ hw.busy = {1} /\ 1 \notin hw.lat
            /\ hw'.posted = hw.posted /\ hw'.frame = hw.frame /\ hw'.busy = {}
            /\ hw'.lat = hw.lat \cup {1}
  BY <1>0, HwDoes
<1>1. Typing'
  <2>1. EventTyping'
    BY <1>0, <1>a DEF Typing, EventTyping
  <2>2. PhysTyping'
    BY <1>0, <1>a, <1>b DEF Single, Typing, PhysTyping
  <2>3. HwTyping'
    BY <1>b
  <2>4. SendTyping'
    BY <1>0, <1>a DEF Typing, SendTyping
  <2>5. WaitTyping'
    BY <1>0, <1>a DEF Typing, WaitTyping
  <2>6. ThreadTyping'
    BY <1>0, <1>a DEF Typing, ThreadTyping
  <2> QED
    BY <2>1, <2>2, <2>3, <2>4, <2>5, <2>6 DEF Typing
<1>2. Contexts'
  BY <1>a DEF Parts, Contexts
<1>3. InFlight'
  BY <1>a DEF Parts, InFlight, Goal
<1>4. RetireOnce'
  BY <1>a DEF Parts, RetireOnce, Told
<1>5. Thread'
  BY <1>0, <1>a, <1>b DEF Parts, Typing, ThreadTyping, Thread, Wr, Waits, Begun
<1>6. Reads'
  <2> DEFINE k == Owed  kk == Owed'  c == Latched  cc == Latched'  s == Slack
  <2>1. k \in Nat /\ kk = k /\ n \in Nat /\ hw.posted \in Nat /\ hw.frame \in Nat
    BY <1>0, <1>a DEF Typing, PhysTyping, HwTyping, ThreadTyping, Owed, Late
  <2>2. /\ Ahead = k - c + s /\ Ahead' = kk - cc + s /\ s \in {0, 1}
        /\ c \in {0, 1} /\ cc \in {0, 1}
        /\ (hw.busy = {} => cc = c) /\ (hw.busy # {} => c = 0 /\ cc = 1)
    BY <1>a, <1>b DEF Ahead, Slack, Latched
  <2> HIDE DEF k, kk, c, cc, s
  <2> DEFINE a == Ahead  aa == Ahead'
  <2>3. a \in Int /\ (aa = a \/ aa = a - 1)
        /\ (hw.busy = {} => aa = a) /\ (hw.busy # {} => aa = a - 1)
    BY <2>1, <2>2
  <2>4. /\ Reads <=> ("gaveup" \notin past /\ ~(pdead # "no" /\ "posted" \in cfg.modes) =>
            /\ hw.busy # {} => n >= hw.frame /\ hw.frame >= n - a + 1
            /\ hw.posted # 0 => n >= hw.posted /\ hw.posted >= n - a + 1 + Busy
            /\ d = "start" => a >= 1 + Busy + Posted)
        /\ Reads' <=> ("gaveup" \notin past /\ ~(pdead # "no" /\ "posted" \in cfg.modes) =>
            /\ hw'.busy # {} => n >= hw'.frame /\ hw'.frame >= n - aa + 1
            /\ hw'.posted # 0 => n >= hw'.posted /\ hw'.posted >= n - aa + 1 + Busy'
            /\ d = "start" => aa >= 1 + Busy' + Posted')
    BY <1>a DEF Reads
  <2>5. /\ Busy = (IF hw.busy # {} THEN 1 ELSE 0) /\ Busy' = (IF hw'.busy # {} THEN 1 ELSE 0)
        /\ Posted = (IF hw.posted # 0 THEN 1 ELSE 0)
        /\ Posted' = (IF hw'.posted # 0 THEN 1 ELSE 0)
        /\ Reads
    BY DEF Busy, Posted, Parts
  <2> DEFINE b == Busy  bb == Busy'  o == Posted  oo == Posted'
  <2> HIDE DEF a, aa, b, bb, o, oo
  <2> QED
    BY <1>b, <2>1, <2>3, <2>4, <2>5
<1>7. Write'
  BY <1>a, <1>b DEF Parts, Write
<1>8. Flows'
  <2>1. Ends' = Ends /\ Retires' = Retires
    BY <1>0, <1>a, Untouched
  <2>2. /\ UNCHANGED <<pend, q, cur, fl, fence, n>> /\ Flag' = Flag
        /\ d' = d \/ d' \notin {"flushing", "flushhw", "count"}
    BY <1>a DEF Flag
  <2> QED
    BY <1>0, <2>1, <2>2, FlowRests
<1>9. QED
  BY <1>1, <1>2, <1>3, <1>4, <1>5, <1>6, <1>7, <1>8 DEF Parts, Flows

\* A fault of the hardware, and TE that is back.
LEMMA HwFaultKeeps ==
    ASSUME Parts, Phys = {1}, cfg.n = 1, HwFault \/ TeBack, UNCHANGED threadvars
    PROVE  Parts'
<1>0. Single /\ One /\ Typing /\ Flows /\ cfg' = cfg
  BY DEF Single, One, Parts, Flows, Phys, HwFault, TeBack
<1>a. /\ UNCHANGED <<cfg, mode, kick, retire, done, wrok, est, pdead, send, w, past>>
      /\ UNCHANGED <<pend, q, cur, fl, fence, cb>>
      /\ UNCHANGED <<d, e, n, perr, nreset, ftm, ph, left>>
  BY DEF HwFault, TeBack, evvars, threadvars
<1>b. /\ HwTyping' /\ hw'.posted = hw.posted /\ hw'.frame = hw.frame
      /\ hw'.busy = hw.busy /\ hw'.lat = hw.lat
  BY <1>0 DEF Single, HwFault, TeBack, Typing, HwTyping
<1>1. Typing'
  <2>1. EventTyping'
    BY <1>0 DEF Typing, EventTyping, HwFault, TeBack, evvars
  <2>2. PhysTyping'
    BY <1>0 DEF Single, Typing, PhysTyping, HwFault, TeBack
  <2>3. HwTyping'
    BY <1>0 DEF Single, Typing, HwTyping, HwFault, TeBack
  <2>4. SendTyping'
    BY <1>0 DEF Typing, SendTyping, HwFault, TeBack
  <2>5. WaitTyping'
    BY <1>0 DEF Typing, WaitTyping, HwFault, TeBack
  <2>6. ThreadTyping'
    BY <1>0 DEF Typing, ThreadTyping, threadvars
  <2> QED
    BY <2>1, <2>2, <2>3, <2>4, <2>5, <2>6 DEF Typing
<1>2. Contexts'
  BY DEF Parts, Contexts, Waits, Before, Begun, HwFault, TeBack, evvars, threadvars
<1>3. InFlight'
  BY DEF Parts, InFlight, Goal, HwFault, TeBack, threadvars
<1>4. RetireOnce'
  BY DEF Parts, RetireOnce, Told, HwFault, TeBack, threadvars
<1>5. Thread'
  BY <1>a, <1>b DEF Parts, Thread, Todo
<1>6. Reads'
  <2>1. Ahead' \in {Ahead, Ahead + 1}
    BY <1>a, <1>b DEF Ahead, Slack, Owed, Latched, Late
  <2>2. kick' \in [Phys' -> Nat] /\ n' = n /\ cfg' = cfg
    BY <1>1, <1>a DEF Typing, PhysTyping
  <2>3. /\ "gaveup" \in past => "gaveup" \in past'
        /\ (pdead # "no" => pdead' # "no") /\ (d' = "start" => d = "start")
        /\ hw'.busy = {} \/ (hw'.busy = hw.busy /\ hw'.frame = hw.frame)
        /\ hw'.posted = 0 \/ hw'.posted = hw.posted
    BY <1>a, <1>b
  <2> QED
    BY <1>0, <2>1, <2>2, <2>3, ReadsStay DEF Parts
<1>7. Write'
  BY <1>a, <1>b DEF Parts, Write
<1>8. Flows'
  <2>1. Ends' = Ends /\ Retires' = Retires
    BY <1>0, <1>a, Untouched
  <2>2. /\ UNCHANGED <<pend, q, cur, fl, fence, n>> /\ Flag' = Flag
        /\ d' = d \/ d' \notin {"flushing", "flushhw", "count"}
    BY <1>a DEF Flag
  <2> QED
    BY <1>0, <2>1, <2>2, FlowRests
<1>9. QED
  BY <1>1, <1>2, <1>3, <1>4, <1>5, <1>6, <1>7, <1>8 DEF Parts, Flows

\* The event thread takes the head of the queue.
LEMMA EvTakeKeeps ==
    ASSUME Parts, Phys = {1}, cfg.n = 1, EvTake, UNCHANGED <<physvars, threadvars>>
    PROVE  Parts'
<1>0. Single /\ One /\ Typing /\ Flows /\ cfg' = cfg
  BY DEF Single, One, Parts, Flows, Phys, physvars
<1>1. Typing'
  <2>1. EventTyping'
    BY <1>0 DEF Typing, EventTyping, EvTake
  <2>2. PhysTyping'
    BY <1>0 DEF Single, Typing, PhysTyping, physvars
  <2>3. HwTyping'
    BY <1>0 DEF Single, Typing, HwTyping, physvars
  <2>4. SendTyping'
    BY <1>0 DEF Typing, SendTyping, physvars
  <2>5. WaitTyping'
    BY <1>0 DEF Typing, WaitTyping, physvars
  <2>6. ThreadTyping'
    BY <1>0 DEF Typing, ThreadTyping, threadvars
  <2> QED
    BY <2>1, <2>2, <2>3, <2>4, <2>5, <2>6 DEF Typing
<1>2. Contexts'
  BY DEF Parts, Contexts, physvars, threadvars
<1>3. InFlight'
  BY DEF Parts, InFlight, Goal, physvars, threadvars
<1>4. RetireOnce'
  BY DEF Parts, RetireOnce, Told, physvars, threadvars
<1>5. Thread'
  <2>1. /\ cur = "none" /\ q # <<>> /\ cur' = Head(q) /\ q' = Tail(q) /\ q \in Seq(Kinds)
        /\ UNCHANGED <<fl, cb, d, e, hw, send, pdead, n, fence>>
    BY DEF EvTake, physvars, threadvars, Parts, Typing, EventTyping
  <2>2. Head(q) \in Kinds /\ Len(Tail(q)) + 1 = Len(q)
    BY <2>1
  <2>3. Todo' = Todo
    <3>1. Todo = Len(q) + 0 /\ Todo' = Len(Tail(q)) + 1 /\ Len(q) \in Nat
      BY <2>1 DEF Todo, Kinds
    <3> QED
      BY <2>2, <3>1
  <2> QED
    BY <2>1, <2>3 DEF Parts, Thread
<1>6. Reads'
  BY <1>0 DEF Single, Parts, Typing, EventTyping, PhysTyping, HwTyping, SendTyping, Reads, Ahead,
     Slack,
     Owed, Latched, Late, Busy, Posted, physvars, threadvars
<1>7. Write'
  BY DEF Parts, Write, physvars, threadvars
<1>8. Flows'
  <2>1. Ends' = Ends /\ Retires' = Retires
    BY <1>0, Untouched DEF physvars
  <2> QED
    BY <1>0, <2>1, FlowTakes DEF threadvars
<1>9. QED
  BY <1>1, <1>2, <1>3, <1>4, <1>5, <1>6, <1>7, <1>8 DEF Parts, Flows

\* The event thread is through with a frame: its fence is signalled.
LEMMA EvEndKeeps ==
    ASSUME Parts, Phys = {1}, cfg.n = 1, EvEnd, UNCHANGED <<physvars, threadvars>>
    PROVE  Parts'
<1>0. Single /\ One /\ Typing /\ Flows /\ cfg' = cfg
  BY DEF Single, One, Parts, Flows, Phys, physvars
<1>1. Typing'
  <2>1. EventTyping'
    BY <1>0 DEF Typing, EventTyping, Release, EvEnd
  <2>2. PhysTyping'
    BY <1>0 DEF Single, Typing, PhysTyping, physvars
  <2>3. HwTyping'
    BY <1>0 DEF Single, Typing, HwTyping, physvars
  <2>4. SendTyping'
    BY <1>0 DEF Typing, SendTyping, physvars
  <2>5. WaitTyping'
    BY <1>0 DEF Typing, WaitTyping, physvars
  <2>6. ThreadTyping'
    BY <1>0 DEF Typing, ThreadTyping, threadvars
  <2> QED
    BY <2>1, <2>2, <2>3, <2>4, <2>5, <2>6 DEF Typing
<1>2. Contexts'
  BY DEF Parts, Contexts, physvars, threadvars
<1>3. InFlight'
  BY DEF Parts, InFlight, Goal, physvars, threadvars
<1>4. RetireOnce'
  BY DEF Parts, RetireOnce, Told, physvars, threadvars
<1>5. Thread'
  BY DEF Parts, Thread, Todo, EvEnd, physvars, threadvars
<1>6. Reads'
  BY <1>0 DEF Single, Parts, Typing, EventTyping, PhysTyping, HwTyping, SendTyping, Reads, Ahead,
     Slack,
     Owed, Latched, Late, Busy, Posted, physvars, threadvars
<1>7. Write'
  BY DEF Parts, Write, physvars, threadvars
<1>8. Flows'
  <2>1. Ends' = Ends /\ Retires' = Retires
    BY <1>0, Untouched DEF physvars
  <2> QED
    BY <1>0, <2>1, FlowEnds DEF threadvars
<1>9. QED
  BY <1>1, <1>2, <1>3, <1>4, <1>5, <1>6, <1>7, <1>8 DEF Parts, Flows

\* Steps that change nothing.
LEMMA RestKeeps ==
    ASSUME Parts, Phys = {1}, cfg.n = 1, UNCHANGED vars
    PROVE  Parts'
<1>0. Single /\ One /\ Typing /\ Flows /\ cfg' = cfg
  BY DEF Single, One, Parts, Flows, Phys, vars, physvars
<1>1. Typing'
  <2>1. EventTyping'
    BY <1>0 DEF Typing, EventTyping, vars, evvars
  <2>2. PhysTyping'
    BY <1>0 DEF Single, Typing, PhysTyping, vars, physvars
  <2>3. HwTyping'
    BY <1>0 DEF Single, Typing, HwTyping, vars, physvars
  <2>4. SendTyping'
    BY <1>0 DEF Typing, SendTyping, vars, physvars
  <2>5. WaitTyping'
    BY <1>0 DEF Typing, WaitTyping, vars, physvars
  <2>6. ThreadTyping'
    BY <1>0 DEF Typing, ThreadTyping, vars, threadvars
  <2> QED
    BY <2>1, <2>2, <2>3, <2>4, <2>5, <2>6 DEF Typing
<1>2. Contexts'
  BY DEF Parts, Contexts, vars, physvars, threadvars
<1>3. InFlight'
  BY DEF Parts, InFlight, Goal, vars, physvars, threadvars
<1>4. RetireOnce'
  BY DEF Parts, RetireOnce, Told, vars, physvars, threadvars
<1>5. Thread'
  BY DEF Parts, Thread, Todo, vars, evvars, physvars, threadvars
<1>6. Reads'
  BY <1>0 DEF Single, Parts, Typing, EventTyping, PhysTyping, HwTyping, SendTyping, Reads, Ahead,
     Slack,
     Owed, Latched, Late, Busy, Posted, vars, physvars, threadvars
<1>7. Write'
  BY DEF Parts, Write, vars, physvars, threadvars
<1>8. Flows'
  <2>1. Ends' = Ends /\ Retires' = Retires
    BY <1>0, Untouched DEF vars, physvars
  <2>2. /\ UNCHANGED <<pend, q, cur, fl, fence, n>> /\ Flag' = Flag
        /\ d' = d \/ d' \notin {"flushing", "flushhw", "count"}
    BY DEF Flag, vars, evvars, threadvars
  <2> QED
    BY <1>0, <2>1, <2>2, FlowRests
<1>9. QED
  BY <1>1, <1>2, <1>3, <1>4, <1>5, <1>6, <1>7, <1>8 DEF Parts, Flows

-----------------------------------------------------------------------------
(* The invariant, for ever                                                 *)

\* Nothing is under way in the initial state.
LEMMA InitHolds == Init => IInv
<1> SUFFICES ASSUME Init, cfg.n = 1 PROVE Parts
  BY DEF IInv
<1>0. Phys = {1}
  BY DEF Phys
<1>1. /\ q = <<>> /\ fence = <<>> /\ pend = 0 /\ cur = "none" /\ fl = 0 /\ cb = FALSE
      /\ kick = [p \in Phys |-> 0] /\ retire = 0 /\ done = [p \in Phys |-> 0]
      /\ send = [t \in Threads \cup {"irq"} |-> NoSend] /\ w = [t \in Threads |-> NoWait]
      /\ hw = [posted |-> 0, frame |-> 0, busy |-> {}, lat |-> {}, dead |-> FALSE, hung |-> FALSE]
      /\ d = "off" /\ e = "idle" /\ n = 0 /\ left = 0
  BY DEF Init, EventsInit, PhysInit
<1>2. Typing
  <2>1. EventTyping
    BY <1>1, EmptySeq DEF EventTyping
  <2>2. PhysTyping
    BY DEF Init, PhysInit, PhysTyping
  <2>3. HwTyping
    BY <1>1 DEF HwTyping
  <2>4. SendTyping
    BY <1>1 DEF SendTyping, NoSend
  <2>5. WaitTyping
    BY <1>1 DEF WaitTyping, NoWait
  <2>6. ThreadTyping
    BY DEF Init, ThreadTyping, Down
  <2> QED
    BY <2>1, <2>2, <2>3, <2>4, <2>5, <2>6 DEF Typing
<1>3. /\ \A t \in Threads : w[t].ph = "no"
      /\ \A t \in Threads \cup {"irq"} : send[t] = NoSend
      /\ kick[1] = 0 /\ hw.busy = {} /\ hw.posted = 0 /\ hw.lat = {}
  BY <1>0, <1>1 DEF NoWait
<1>4. Contexts /\ InFlight /\ RetireOnce
  BY <1>1, <1>3 DEF Contexts, InFlight, RetireOnce, Threads, Waits, Before, Told
<1>5. Ends = 0 /\ Retires = 0 /\ Flag = 0 /\ Ending = 0
  BY <1>1, <1>3 DEF Ends, Retires, Flag, Ending, Late, Sent, Told, Threads, NoSend, Release
<1>6. \A K, j : From(q, K, j) = 0 /\ CountIn(q, K) = 0
  <2>1. DOMAIN q = {}
    BY <1>1
  <2>2. \A K, j : /\ {i \in DOMAIN q : i > j /\ q[i] \in K} = {}
                 /\ {i \in DOMAIN q : q[i] \in K} = {}
    BY <2>1
  <2> QED
    BY <2>2, FS_EmptySet DEF From, CountIn
<1>7. Loose(q) = 0
  <2>1. DOMAIN q = {}
    BY <1>1
  <2>2. {i \in DOMAIN q : /\ q[i] = "retire"
                          /\ \A j \in DOMAIN q : j > i => q[j] \notin Release} = {}
    BY <2>1
  <2> QED
    BY <2>2, FS_EmptySet DEF Loose
<1>8. InUse = 0 /\ Behind = 0 /\ Releases = 0
  BY <1>1, <1>6 DEF InUse, Entries, Behind, Releases, Kinds, Events
<1>9. Frames /\ Pool
  BY <1>1, <1>5, <1>7, <1>8 DEF Frames, Pool, Room
<1>10. Thread
  BY <1>1 DEF Thread
<1>11. Reads /\ Write
  BY <1>1 DEF Reads, Write
<1> QED
  BY <1>2, <1>4, <1>9, <1>10, <1>11 DEF Parts

\* Every step keeps the invariant.
LEMMA NextHolds == IInv /\ [Next]_vars => IInv'
<1> SUFFICES ASSUME IInv, [Next]_vars, cfg'.n = 1 PROVE Parts'
  BY DEF IInv
<1>1. cfg' = cfg
  BY DEF Next, DispStep, EsdStep, IrqStep, EventStep, HwStep, vars, physvars, Commit, Wait,
     WaitTest, WaitOk, WaitLatched, WaitGiveUp, WaitFailed, WaitLate, Send, Irq, Prepared, Reset,
  Flush, Flushed, FlushHw, Count, Start, WrOk, WrLatched, WrLost, WrLate, WrAgain, WrGone, Pend,
  LoopStart, LoopEnd, CommitDone, Enable, Disable, DisableWaited, DisablePhys, DisableStop,
  DisableFlush, DisableEnd, EsdFails, EsdReports, EsdFlushed, EsdEnd, HwStart, HwDone, HwFault,
  TeBack
<1>2. Parts /\ cfg.n = 1 /\ Phys = {1}
  BY <1>1 DEF IInv, Phys
<1>3. CASE DispStep
  <2>1. CASE \E m \in cfg.modes : Commit(m)
    BY <1>2, <2>1, CommitKeeps
  <2>2. CASE Wait("disp", d = "prep") /\ UNCHANGED threadvars
    <3> DEFINE all == d = "prep"
    <3>1. "disp" \in Threads /\ all = ("disp" = "disp" /\ d = "prep")
      BY DEF Threads
    <3>2. WaitTest("disp", all) \/ WaitOk("disp", all) \/ WaitLatched("disp", all)
          \/ WaitGiveUp("disp", all) \/ WaitFailed("disp", all)
      BY <2>2 DEF Wait
    <3> HIDE DEF all
    <3> QED
      BY <1>2, <2>2, <3>1, <3>2, WaitTestKeeps, WaitOkKeeps, WaitLatchedKeeps, WaitGiveUpKeeps,
         WaitFailedKeeps
  <2>3. CASE (WaitLate("disp") \/ Send("disp")) /\ UNCHANGED threadvars
    <3>1. "disp" \in Threads /\ "disp" \in DOMAIN send
      BY <1>2 DEF Parts, Typing, SendTyping, Threads
    <3> QED
      BY <1>2, <2>3, <3>1, WaitLateKeeps, SendKeeps
  <2>4. CASE Prepared \/ Reset \/ Flush \/ Flushed \/ FlushHw \/ Count \/ Start
    BY <1>2, <2>4, PreparedKeeps, ResetKeeps, FlushKeeps, FlushedKeeps, FlushHwKeeps, CountKeeps,
       StartKeeps
  <2>5. CASE WrOk \/ WrLatched \/ WrLost \/ WrLate \/ WrAgain \/ WrGone
    BY <1>2, <2>5, WrOkKeeps, WrLatchedKeeps, WrLostKeeps, WrLateKeeps, WrAgainKeeps, WrGoneKeeps
  <2>6. CASE Pend \/ LoopStart \/ LoopEnd \/ CommitDone
    BY <1>2, <2>6, PendKeeps, LoopStartKeeps, LoopEndKeeps, CommitDoneKeeps
  <2>7. CASE Enable \/ Disable \/ DisableWaited \/ DisablePhys \/ DisableStop \/ DisableFlush
             \/ DisableEnd
    BY <1>2, <2>7, EnableKeeps, DisableKeeps, DisableWaitedKeeps, DisablePhysKeeps,
       DisableStopKeeps, DisableFlushKeeps, DisableEndKeeps
  <2> QED
    BY <1>3, <2>1, <2>2, <2>3, <2>4, <2>5, <2>6, <2>7 DEF DispStep
<1>4. CASE EsdStep
  <2>1. CASE EsdReports \/ EsdFlushed \/ EsdEnd
    BY <1>2, <2>1, EsdReportsKeeps, EsdFlushedKeeps, EsdEndKeeps
  <2>2. CASE Wait("esd", FALSE) /\ UNCHANGED threadvars
    <3>1. "esd" \in Threads /\ FALSE = ("esd" = "disp" /\ d = "prep")
      BY DEF Threads
    <3>2. WaitTest("esd", FALSE) \/ WaitOk("esd", FALSE) \/ WaitLatched("esd", FALSE)
          \/ WaitGiveUp("esd", FALSE) \/ WaitFailed("esd", FALSE)
      BY <2>2 DEF Wait
    <3> QED
      BY <1>2, <2>2, <3>1, <3>2, WaitTestKeeps, WaitOkKeeps, WaitLatchedKeeps, WaitGiveUpKeeps,
         WaitFailedKeeps
  <2>3. CASE ((d # "start" /\ WaitLate("esd")) \/ Send("esd")) /\ UNCHANGED threadvars
    <3>1. "esd" \in Threads /\ "esd" \in DOMAIN send
      BY <1>2 DEF Parts, Typing, SendTyping, Threads
    <3> QED
      BY <1>2, <2>3, <3>1, WaitLateKeeps, SendKeeps
  <2> QED
    BY <1>4, <2>1, <2>2, <2>3 DEF EsdStep
<1>5. CASE IrqStep
  <2>1. "irq" \in DOMAIN send
    BY <1>2 DEF Parts, Typing, SendTyping
  <2> QED
    BY <1>2, <1>5, <2>1, SendKeeps, IrqKeeps DEF IrqStep
<1>6. CASE EventStep
  BY <1>2, <1>6, EvTakeKeeps, EvEndKeeps DEF EventStep
<1>7. CASE HwStep
  BY <1>2, <1>7, HwKeeps DEF HwStep
<1>8. CASE EsdFails
  BY <1>2, <1>8, EsdFailsKeeps
<1>9. CASE (HwFault \/ TeBack) /\ UNCHANGED threadvars
  BY <1>2, <1>9, HwFaultKeeps
<1>10. CASE UNCHANGED vars
  BY <1>2, <1>10, RestKeeps
<1> QED
  BY <1>3, <1>4, <1>5, <1>6, <1>7, <1>8, <1>9, <1>10 DEF Next

\* The inductive invariant holds in every reachable state.
THEOREM FrameInvariant == Spec => []IInv
<1> QED
  BY InitHolds, NextHolds, PTL DEF Spec

\* Every variable has its type in every reachable state of a display with one encoder.
THEOREM FrameTypes == Spec => [](cfg.n = 1 => Typing)
<1>1. IInv => (cfg.n = 1 => Typing)
  BY DEF IInv, Parts
<1> QED
  BY <1>1, FrameInvariant, PTL

\* frame_pending is exact: PendingExact holds in every reachable state.
THEOREM FramePendingExact == Spec => [](cfg.n = 1 => PendingExact)
<1>1. IInv => (cfg.n = 1 => PendingExact)
  <2> SUFFICES ASSUME IInv, cfg.n = 1, NEW p \in Phys
               PROVE  pend = InEncoder(p) + Releases + IF d \in {"flushhw", "count"} THEN 1 ELSE 0
    BY DEF PendingExact
  <2>1. Parts /\ p = 1 /\ Phys = {1}
    BY DEF IInv, Phys
  <2> DEFINE S == {t \in DOMAIN send : send[t].p = 1 /\ send[t].ev \in Release}
             L == {t \in Threads : w[t].ph = "late" /\ w[t].p = 1}
  <2>2. /\ S = {t \in {"disp", "esd", "irq"} : send[t].ev \in Release}
        /\ L = {t \in {"disp", "esd"} : w[t].ph = "late"}
    BY <2>1 DEF Parts, Typing, SendTyping, Contexts, Threads, Before, NoSend, Release
  <2>3. Cardinality(S) = Sent("disp") + Sent("esd") + Sent("irq")
    <3> HIDE DEF S
    <3> QED
      BY <2>2, OfThree DEF Sent
  <2>4. Cardinality(L) = Late("disp") + Late("esd")
    <3> HIDE DEF L
    <3> QED
      BY <2>2, OfThree DEF Late
  <2>5. done[1] = 0 /\ kick[1] \in Nat
    BY <2>1 DEF Parts, Typing, PhysTyping
  <2>6. InEncoder(p) = Ends
    <3>1. InEncoder(p) = kick[1] + done[1] + Cardinality(S) + Cardinality(L)
      BY <2>1 DEF InEncoder
    <3> QED
      BY <2>3, <2>4, <2>5, <3>1 DEF Ends, Sent, Late
  <2> QED
    BY <2>1, <2>6 DEF Parts, Frames, Flag
<1> QED
  BY <1>1, FrameInvariant, PTL

\* The pool of frame events has an entry for every event: PoolSuffices holds in every
\* reachable state.
THEOREM FramePoolSuffices == Spec => [](cfg.n = 1 => PoolSuffices)
<1>1. IInv => (cfg.n = 1 => PoolSuffices)
  <2> SUFFICES ASSUME IInv, cfg.n = 1 PROVE InUse < EventSize
    BY DEF PoolSuffices
  <2>1. One /\ Parts
    BY DEF IInv, Parts, One
  <2>2. InUse \in Nat /\ Ends \in Nat /\ Retires \in Nat
    BY <2>1, Counted
  <2>3. InUse + Ends + Retires <= 5
    BY <2>1 DEF Parts, Pool, Room
  <2> QED
    BY <2>2, <2>3, EventAssumption
<1> QED
  BY <1>1, FrameInvariant, PTL

\* No frame is done while the hardware reads it: DoneIsDone holds in every reachable state.
THEOREM FrameDoneIsDone == Spec => [](cfg.n = 1 => DoneIsDone)
<1>1. IInv => (cfg.n = 1 => DoneIsDone)
  <2> SUFFICES ASSUME IInv, cfg.n = 1, "gaveup" \notin past,
                      ~(pdead # "no" /\ "posted" \in cfg.modes), NEW i \in DOMAIN fence
               PROVE  ("late" \notin past => i \notin Reading) /\ i - 1 \notin Reading
    BY DEF DoneIsDone
  <2>1. One /\ Parts
    BY DEF IInv, Parts, One
  <2>2. /\ Ends \in Nat /\ Releases \in Nat /\ Ending \in Nat
        /\ i \in Nat /\ i <= Len(fence) /\ Len(fence) \in Nat
    BY <2>1, Counted
  <2>3. n = Len(fence) + Ending + Releases + Ends
    BY <2>1 DEF Parts, Frames
  <2> DEFINE a == Ahead  k == Owed  s == Slack  j == i - 1
  <2>4. a \in Int /\ a <= k + s /\ k \in Nat /\ k <= Ends
    <3>1. kick[1] \in Nat
      BY <2>1 DEF One, Typing, PhysTyping, Phys
    <3> QED
      BY <3>1 DEF Ahead, Slack, Owed, Latched, Ends, Late, Sent
  <2>5. s \in {0, 1} /\ ("late" \notin past => s = 0) /\ j \in Int /\ j = i - 1
    BY <2>2 DEF Slack
  <2>6. /\ hw.busy # {} => hw.frame >= n - a + 1
        /\ hw.posted # 0 => hw.posted >= n - a + 1 + Busy
        /\ hw.frame \in Nat /\ hw.posted \in Nat /\ Busy \in {0, 1}
    BY <2>1 DEF Parts, Reads, Typing, HwTyping, Busy
  <2> HIDE DEF a, k, s, j
  <2> DEFINE b == Busy  l == Len(fence)  en == Ends  r == Releases  g == Ending
  <2> HIDE DEF b, l, en, r, g
  <2>7. /\ hw.busy # {} => hw.frame >= i + 1 - s
        /\ hw.posted # 0 => hw.posted >= i + 1 - s
    BY <2>2, <2>3, <2>4, <2>5, <2>6
  <2>8. /\ s = 0 => (hw.busy # {} => i # hw.frame) /\ (hw.posted # 0 => i # hw.posted)
        /\ (hw.busy # {} => j # hw.frame) /\ (hw.posted # 0 => j # hw.posted)
    BY <2>2, <2>5, <2>6, <2>7
  <2>9. \A x \in {i, j} : x \in Reading => (hw.posted # 0 /\ x = hw.posted)
                                            \/ (hw.busy # {} /\ x = hw.frame)
    BY DEF Reading
  <2> QED
    BY <2>5, <2>8, <2>9 DEF j
<1> QED
  BY <1>1, FrameInvariant, PTL

\* Nothing is left when the CRTC is off: OffIsQuiet holds in every reachable state.
THEOREM FrameOffIsQuiet == Spec => [](cfg.n = 1 => OffIsQuiet)
<1>1. IInv => (cfg.n = 1 => OffIsQuiet)
  <2> SUFFICES ASSUME IInv, cfg.n = 1, d = "off" PROVE OffIsQuiet
    BY DEF OffIsQuiet
  <2>1. Parts /\ Phys = {1}
    BY DEF IInv, Phys
  <2>2. q = <<>> /\ cur = "none" /\ e = "idle" /\ Len(fence) = n /\ send["irq"] = NoSend
    BY <2>1 DEF Parts, Thread, Down
  <2>3. kick[1] = 0
    BY <2>1 DEF Parts, InFlight, Down
  <2>4. send["disp"] = NoSend /\ send["esd"] = NoSend
    BY <2>1, <2>2 DEF Parts, Contexts, Waits
  <2> QED
    BY <2>1, <2>2, <2>3, <2>4 DEF OffIsQuiet, Parts, Typing, SendTyping, Threads
<1> QED
  BY <1>1, FrameInvariant, PTL
=============================================================================
