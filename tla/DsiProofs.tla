----------------------------- MODULE DsiProofs -----------------------------
(***************************************************************************)
(* Proofs about the DSI clock manager and the display that uses it.        *)
(* There are two invariants of the manager.  Ordered and Running hold      *)
(* whatever fails: the manager never takes for on what has no clock under  *)
(* it.  IInv holds until a clock or a callback of the link fails, however  *)
(* often supplies and core clocks do: the hardware is exactly in order,    *)
(* and until the first failure where the votes want it.                    *)
(* The display keeps the one until dsi_display_prepare is stranded at the  *)
(* link clocks, the other until a link clock fails, through enable,        *)
(* disable, transfers, ESD check and error work; and it is a client that   *)
(* keeps the protocol of the manager.                                      *)
(***************************************************************************)
EXTENDS DsiHost, TLAPS

\* No clock or callback of the link has failed.
Safe == broken = {}

\* Core clocks on top of the supplies, the link on top of the core clocks; lanes that
\* are in ULPS with the clamps open can still be asked to leave it, and have power.
HwOrdered(h) ==
    /\ h \in Hw
    /\ h.mcore = "ON" => h.pwr = "on" /\ h.core = "ON"
    /\ h.mcore = "OFF" => h.mlink = "OFF"
    /\ h.mlink = "ON" => h.lp = 1 /\ h.hs = 1 /\ h.phy = {}
    /\ h.mlink = "OFF" => h.lp = 0 /\ h.hs = 0
    /\ h.mlink = "OFF" /\ "ulps" \in h.phy /\ "clamp" \notin h.phy =>
           UlpsReqValid /\ h.mcore = "ON"

\* Nothing was left on by a failure.
Clean(h) == h.mcore = "OFF" => h.pwr = "off"

IInv ==
    /\ TypeOK
    /\ HwOrdered(hw)
    /\ \A c \in Client : link[c] <= core[c]
    /\ hw.mcore = "ON" => Want(core) = "ON"
    /\ hw.mlink = "ON" => Want(link) = "ON"
    /\ hw.mcore = "ON" /\ Want(link) = "ON" => hw.mlink = "ON"
    /\ faults = 0 => Clean(hw) /\ (Want(core) = "ON" => hw.mcore = "ON")
                               /\ (Want(link) = "ON" => hw.mlink = "ON")

Outcome == {"none", "ctrl", "phy", "core"}

-----------------------------------------------------------------------------
(* The sequences on the hardware                                           *)

\* Core clocks on: in order whatever fails, and on when nothing does.
LEMMA CoreOnOrdered ==
    ASSUME NEW h, NEW f \in Outcome, HwOrdered(h), h.mcore = "OFF"
    PROVE  /\ HwOrdered(CoreOn(h, f)) /\ CoreOn(h, f).mlink = "OFF"
           /\ f = "none" /\ Clean(h) => CoreOn(h, f).mcore = "ON"
<1>1. CASE h.pwr # "off" \/ f = "ctrl"
  <2>1. CoreOn(h, f) = h
    BY <1>1 DEF CoreOn
  <2> QED
    BY <2>1, <1>1 DEF HwOrdered, Clean, Hw
<1>2. CASE h.pwr = "off" /\ f = "phy"
  <2>1. CoreOn(h, f) = [h EXCEPT !.pwr = "ctrl"]
    BY <1>2 DEF CoreOn
  <2> QED
    BY <2>1, <1>2 DEF HwOrdered, Hw, Switch
<1>3. CASE h.pwr = "off" /\ f = "core"
  <2>1. CoreOn(h, f) = [h EXCEPT !.pwr = "on"]
    BY <1>3 DEF CoreOn
  <2> QED
    BY <2>1, <1>3 DEF HwOrdered, Hw, Switch
<1>4. CASE h.pwr = "off" /\ f = "none"
  <2>1. CoreOn(h, f) = [h EXCEPT !.pwr = "on", !.core = "ON", !.mcore = "ON"]
    BY <1>4 DEF CoreOn
  <2> QED
    BY <2>1, <1>4 DEF HwOrdered, Hw, Switch
<1> QED
  BY <1>1, <1>2, <1>3, <1>4 DEF Outcome

\* Link on: the lanes leave ULPS, whatever became of the panel since they entered it.
LEMMA LinkOnOrdered ==
    ASSUME NEW h, NEW f \in Outcome, HwOrdered(h), h.mcore = "ON", h.mlink = "OFF"
    PROVE  HwOrdered(LinkOn(h, f)) /\ LinkOn(h, f).mlink = "ON" /\ LinkOn(h, f).mcore = "ON"
<1> DEFINE relost == {"clamp", "ulps"} \subseteq h.phy /\ ~UlpsReqValid
           left == h.phy \ ({"clamp", "idle"} \cup IF relost THEN {"ulps"} ELSE {})
           g == [h EXCEPT !.lp = @ + 1, !.phy = left]
           k == [g EXCEPT !.hs = @ + 1]
<1>1. LpOn(h) = g
  BY DEF LpOn
<1>2. left \subseteq {"ulps"} /\ ("ulps" \in left => UlpsReqValid)
  BY DEF HwOrdered, Hw
<1>3. HsOn(g) = IF ~UlpsReqValid THEN k ELSE [k EXCEPT !.phy = @ \ {"ulps"}]
  BY DEF HsOn, SetUlps
<1>4. HsOn(g) \in Hw /\ HsOn(g).phy = {} /\ HsOn(g).lp = 1 /\ HsOn(g).hs = 1
      /\ HsOn(g).pwr = h.pwr /\ HsOn(g).core = h.core /\ HsOn(g).mcore = "ON"
  <2>1. h \in Hw /\ h.lp = 0 /\ h.hs = 0
    BY DEF HwOrdered
  <2>2. k \in Hw /\ k.phy = left /\ k.lp = 1 /\ k.hs = 1 /\ k.pwr = h.pwr
        /\ k.core = h.core /\ k.mcore = h.mcore
    <3>1. left \in SUBSET {"clamp", "ulps", "idle"}
      BY <1>2
    <3> HIDE DEF left
    <3>3. h.lp + 1 = 1 /\ g = [h EXCEPT !.lp = h.lp + 1, !.phy = left]
      BY <2>1
    <3> HIDE DEF g
    <3>4. g = [h EXCEPT !.lp = 1, !.phy = left]
      BY <3>3
    <3>5. 1 \in Int
      OBVIOUS
    <3>2. g \in Hw /\ g.phy = left /\ g.lp = 1 /\ g.hs = 0 /\ g.pwr = h.pwr
          /\ g.core = h.core /\ g.mcore = h.mcore
      BY <2>1, <3>1, <3>4, <3>5, Zenon DEF Hw
    <3> QED
      BY <3>2 DEF Hw
  <2>3. CASE ~UlpsReqValid
    <3>1. HsOn(g) = k /\ left = {}
      BY <1>2, <1>3, <2>3
    <3> QED
      BY <3>1, <2>2
  <2>4. CASE UlpsReqValid
    <3> HIDE DEF left, k, g
    <3>1. HsOn(g) = [k EXCEPT !.phy = @ \ {"ulps"}]
      BY <1>3, <2>4
    <3>2. left \ {"ulps"} = {}
      BY <1>2
    <3> QED
      BY <3>1, <3>2, <2>2 DEF Hw
  <2> QED
    BY <2>3, <2>4
<1>5. LinkOn(h, f) = [HsOn(g) EXCEPT !.mlink = "ON"]
  <2>1. f \notin {"lp", "clamp", "hs", "ulps", "cb"}
    BY DEF Outcome
  <2> QED
    BY <2>1, <1>1 DEF LinkOn
<1> HIDE DEF g
<1> QED
  BY <1>4, <1>5 DEF HwOrdered, Hw, Switch

\* Link off: ULPS is entered only where it can be left again.
LEMMA LinkOffOrdered ==
    ASSUME NEW h, HwOrdered(h), h.mlink = "ON"
    PROVE  HwOrdered(LinkOff(h)) /\ LinkOff(h).mlink = "OFF" /\ LinkOff(h).mcore = "ON"
<1>0. 0 \in Int /\ "OFF" \in Switch
  BY DEF Switch
<1>1. h \in Hw /\ h.mcore = "ON" /\ h.lp = 1 /\ h.hs = 1 /\ h.phy = {}
  BY DEF HwOrdered, Hw, Switch
<1> DEFINE g == IF EntersUlps THEN SetUlps(h, TRUE) ELSE h
<1>2. g = h \/ (UlpsReqValid /\ g = [h EXCEPT !.phy = @ \cup {"ulps"}])
  BY DEF SetUlps
<1>3. LinkOff(h) = [g EXCEPT !.hs = @ - 1, !.lp = @ - 1, !.mlink = "OFF"]
  BY DEF LinkOff
<1> HIDE DEF g
<1>4. CASE g = h
  <2>0. LinkOff(h) = [h EXCEPT !.hs = h.hs - 1, !.lp = h.lp - 1, !.mlink = "OFF"]
    BY <1>3, <1>4
  <2>5. h.hs - 1 = 0 /\ h.lp - 1 = 0
    BY <1>1
  <2>1. LinkOff(h) = [h EXCEPT !.hs = 0, !.lp = 0, !.mlink = "OFF"]
    BY <2>0, <2>5
  <2>2. LinkOff(h) \in Hw /\ LinkOff(h).hs = 0 /\ LinkOff(h).lp = 0 /\ LinkOff(h).phy = {}
        /\ LinkOff(h).mlink = "OFF" /\ LinkOff(h).mcore = "ON" /\ LinkOff(h).pwr = h.pwr
        /\ LinkOff(h).core = h.core
    BY <1>0, <1>1, <2>1, Zenon DEF Hw
  <2> QED
    BY <1>1, <2>2 DEF HwOrdered
<1>5. CASE UlpsReqValid /\ g = [h EXCEPT !.phy = @ \cup {"ulps"}]
  <2>1. g \in Hw /\ g.hs = 1 /\ g.lp = 1 /\ g.mcore = "ON" /\ g.pwr = h.pwr /\ g.core = h.core
    BY <1>1, <1>5 DEF Hw
  <2>3. LinkOff(h) = [g EXCEPT !.hs = 0, !.lp = 0, !.mlink = "OFF"]
    BY <1>3, <2>1
  <2>2. LinkOff(h) \in Hw /\ LinkOff(h).hs = 0 /\ LinkOff(h).lp = 0 /\ LinkOff(h).phy = g.phy
        /\ LinkOff(h).mlink = "OFF" /\ LinkOff(h).mcore = "ON" /\ LinkOff(h).pwr = h.pwr
        /\ LinkOff(h).core = h.core
    BY <1>0, <2>1, <2>3, Zenon DEF Hw
  <2>4. h.pwr = "on" /\ h.core = "ON"
    BY <1>1 DEF HwOrdered
  <2> QED
    BY <1>1, <1>5, <2>2, <2>4 DEF HwOrdered
<1> QED
  BY <1>2, <1>4, <1>5

\* Core off, with the link off already.
LEMMA CoreOffOrdered ==
    ASSUME NEW h, HwOrdered(h), h.mlink = "OFF"
    PROVE  HwOrdered(CoreOff(h)) /\ CoreOff(h).mcore = "OFF" /\ CoreOff(h).mlink = "OFF"
           /\ CoreOff(h).pwr = "off"
<1> DEFINE idle == IF conf.phyoff = "ON" THEN {"idle"} ELSE {}
           g == IF "init" \in panel \/ conf.susp = "ON"
                THEN [h EXCEPT !.phy = @ \cup {"clamp"} \cup idle]
                ELSE SetUlps(h, FALSE)
<1>1. h \in Hw /\ h.lp = 0 /\ h.hs = 0
  BY DEF HwOrdered
<1>2. g \in Hw /\ g.lp = 0 /\ g.hs = 0 /\ g.mlink = "OFF"
      /\ ("ulps" \in g.phy => "clamp" \in g.phy)
  <2>1. CASE "init" \in panel \/ conf.susp = "ON"
    <3>1. g = [h EXCEPT !.phy = @ \cup {"clamp"} \cup idle]
      BY <2>1
    <3> HIDE DEF g
    <3> QED
      BY <1>1, <3>1 DEF Hw
  <2>2. CASE ~("init" \in panel \/ conf.susp = "ON")
    <3>1. g = SetUlps(h, FALSE)
      BY <2>2
    <3> HIDE DEF g
    <3>2. (g = h /\ ~UlpsReqValid) \/ g = [h EXCEPT !.phy = @ \ {"ulps"}]
      BY <3>1 DEF SetUlps
    <3> QED
      BY <1>1, <3>2 DEF HwOrdered, Hw
  <2> QED
    BY <2>1, <2>2
<1>3. CoreOff(h) = [g EXCEPT !.core = "OFF", !.pwr = "off", !.mcore = "OFF"]
  BY DEF CoreOff
<1> HIDE DEF g
<1> QED
  BY <1>2, <1>3 DEF HwOrdered, Hw, Switch

\* dsi_update_clk_state as a whole, when the link is wanted only with the core: in
\* order whatever fails, off where it is not wanted, and on when nothing fails.
LEMMA UpdateOrdered ==
    ASSUME NEW h, HwOrdered(h), NEW wc \in Switch, NEW wl \in Switch, NEW f \in Outcome,
           wl = "ON" => wc = "ON", NEW u, u = UpdateClkState(h, wc, wl, f)
    PROVE  /\ HwOrdered(u)
           /\ u.mcore = "ON" => wc = "ON"
           /\ u.mlink = "ON" => wl = "ON"
           /\ f = "none" /\ Clean(h) =>
                  Clean(u) /\ (wc = "ON" => u.mcore = "ON") /\ (wl = "ON" => u.mlink = "ON")
           /\ h.mcore = "ON" /\ wc = "ON" => u.mcore = "ON"
           /\ u.mcore = "ON" /\ wl = "ON" => u.mlink = "ON"
<1> DEFINE h1 == WithCore(h, wc, f)
           h2 == WithLink(h1, wl, f)
<1>0. h.mcore \in Switch /\ h.mlink \in Switch
  BY DEF HwOrdered, Hw
<1>1. HwOrdered(h1) /\ (f = "none" /\ Clean(h) /\ wc = "ON" => h1.mcore = "ON")
      /\ (h1.mcore = "OFF" => h1.mlink = "OFF") /\ (wc = "OFF" => h1 = h)
      /\ (h.mcore = "ON" => h1.mcore = "ON")
  <2>1. CASE wc = "ON" /\ h.mcore = "OFF"
    <3>1. h1 = CoreOn(h, f)
      BY <2>1 DEF WithCore
    <3> HIDE DEF h1
    <3> QED
      BY <3>1, <2>1, CoreOnOrdered DEF HwOrdered
  <2>2. CASE ~(wc = "ON" /\ h.mcore = "OFF")
    <3>1. h1 = h
      BY <2>2 DEF WithCore
    <3> HIDE DEF h1
    <3> QED
      BY <3>1, <2>2, <1>0 DEF HwOrdered, Switch
  <2> QED
    BY <2>1, <2>2
<1>2. h1.mcore \in Switch /\ h1.mlink \in Switch
  BY <1>1 DEF HwOrdered, Hw
<1>3. u = IF wc = "ON" /\ h1.mcore = "OFF" THEN h1
          ELSE IF wl = "ON" /\ h2.mlink = "OFF" THEN h2
          ELSE WithoutCore(h2, wc)
  BY DEF UpdateClkState
<1>4. CASE wc = "ON" /\ h1.mcore = "OFF"
  <2>1. u = h1
    BY <1>3, <1>4
  <2> HIDE DEF h1
  <2> QED
    BY <2>1, <1>1, <1>2, <1>4 DEF Clean, Switch
<1>5. CASE ~(wc = "ON" /\ h1.mcore = "OFF")
  <2>1. HwOrdered(h2) /\ h2.mlink = wl /\ h2.mcore = h1.mcore
    <3>1. CASE wl = "ON" /\ h1.mlink = "OFF"
      <4>1. h1.mcore = "ON"
        BY <3>1, <1>5, <1>2 DEF Switch
      <4>2. h2 = LinkOn(h1, f)
        BY <3>1 DEF WithLink
      <4> HIDE DEF h2, h1
      <4> QED
        BY <4>1, <4>2, <3>1, <1>1, LinkOnOrdered
    <3>2. CASE wl = "OFF" /\ h1.mlink = "ON"
      <4>1. h1.mcore = "ON"
        BY <3>2, <1>1, <1>2 DEF Switch
      <4>2. h2 = LinkOff(h1)
        BY <3>2 DEF WithLink
      <4> HIDE DEF h2, h1
      <4> QED
        BY <4>1, <4>2, <3>2, <1>1, LinkOffOrdered
    <3>3. CASE wl = h1.mlink
      <4>1. h2 = h1
        BY <3>3 DEF WithLink
      <4> HIDE DEF h2, h1
      <4> QED
        BY <4>1, <3>3, <1>1
    <3> QED
      BY <3>1, <3>2, <3>3, <1>2 DEF Switch
  <2>2. u = WithoutCore(h2, wc)
    <3> HIDE DEF h1, h2
    <3> QED
      BY <2>1, <1>3, <1>5
  <2>3. CASE wc = "OFF" /\ h2.mcore = "ON"
    <3>1. h2.mlink = "OFF" /\ wl = "OFF"
      BY <2>3, <2>1 DEF Switch
    <3>2. u = CoreOff(h2)
      BY <2>2, <2>3 DEF WithoutCore
    <3> HIDE DEF h2, h1
    <3> QED
      BY <3>1, <3>2, <2>1, <2>3, CoreOffOrdered DEF Clean
  <2>4. CASE ~(wc = "OFF" /\ h2.mcore = "ON")
    <3>1. u = h2
      BY <2>2, <2>4 DEF WithoutCore
    <3> HIDE DEF h2
    <3>2. u.mcore = wc
      BY <3>1, <2>1, <2>4, <1>2, <1>5 DEF Switch
    <3>3. f = "none" /\ Clean(h) => Clean(u)
      <4> SUFFICES ASSUME f = "none", Clean(h), u.mcore = "OFF" PROVE u.pwr = "off"
        BY DEF Clean
      <4>1. wc = "OFF"
        BY <3>2
      <4>2. h1 = h /\ h.mcore = "OFF"
        BY <4>1, <1>1, <2>1, <3>1
      <4>3. wl = "OFF" /\ h.mlink = "OFF"
        BY <4>1, <4>2, <1>1 DEF Switch
      <4>4. h2 = h
        BY <4>2, <4>3 DEF WithLink, h2
      <4> QED
        BY <4>2, <4>4, <3>1 DEF Clean
    <3> QED
      BY <3>1, <3>2, <3>3, <2>1
  <2> QED
    BY <2>3, <2>4
<1> QED
  BY <1>4, <1>5

-----------------------------------------------------------------------------
(* The invariant                                                           *)

\* A recheck of the clocks in a step that leaves the panel alone.
LEMMA RecheckKeeps ==
    ASSUME HwOrdered(hw), NEW f \in Outcome, Recheck(f), UNCHANGED <<conf, panel>>,
           Want(link') = "ON" => Want(core') = "ON"
    PROVE  /\ HwOrdered(hw)'
           /\ (hw.mcore = "ON")' => Want(core') = "ON"
           /\ (hw.mlink = "ON")' => Want(link') = "ON"
           /\ f = "none" /\ Clean(hw) =>
                  /\ Clean(hw')
                  /\ Want(core') = "ON" => hw'.mcore = "ON"
                  /\ Want(link') = "ON" => hw'.mlink = "ON"
           /\ hw.mcore = "ON" /\ Want(core') = "ON" => hw'.mcore = "ON"
           /\ hw'.mcore = "ON" /\ Want(link') = "ON" => hw'.mlink = "ON"
<1>1. hw' = UpdateClkState(hw, Want(core'), Want(link'), f)
  BY DEF Recheck
<1>2. Want(core') \in Switch /\ Want(link') \in Switch
  BY DEF Want, Switch
<1>3. HwOrdered(hw') /\ (hw'.mcore = "ON" => Want(core') = "ON")
      /\ (hw'.mlink = "ON" => Want(link') = "ON")
      /\ (f = "none" /\ Clean(hw) =>
            Clean(hw') /\ (Want(core') = "ON" => hw'.mcore = "ON")
                       /\ (Want(link') = "ON" => hw'.mlink = "ON"))
      /\ (hw.mcore = "ON" /\ Want(core') = "ON" => hw'.mcore = "ON")
      /\ (hw'.mcore = "ON" /\ Want(link') = "ON" => hw'.mlink = "ON")
  BY <1>1, <1>2, UpdateOrdered
<1>4. HwOrdered(hw)'
  BY <1>3 DEF HwOrdered, UlpsReqValid
<1> QED
  BY <1>3, <1>4

\* The link is wanted only with the core.
LEMMA LinkWantsCore ==
    ASSUME NEW a \in [Client -> Nat], NEW b \in [Client -> Nat], \A c \in Client : b[c] <= a[c]
    PROVE  Want(b) = "ON" => Want(a) = "ON"
BY DEF Want

\* The invariant holds at the start, when everything is off and nobody votes.
LEMMA InitIInv == ClkInit => IInv
<1> SUFFICES ASSUME ClkInit PROVE IInv
  OBVIOUS
<1>1. hw \in Hw
  <2>1. 0 \in Int /\ "OFF" \in Switch
    BY DEF Switch
  <2> QED
    BY <2>1, Zenon DEF ClkInit, Hw
<1>2. TypeOK
  BY <1>1 DEF ClkInit, TypeOK
<1>3. HwOrdered(hw) /\ Clean(hw)
  BY <1>1 DEF ClkInit, HwOrdered, Clean
<1>4. Want(core) = "OFF" /\ Want(link) = "OFF"
  BY DEF ClkInit, Want
<1> QED
  BY <1>2, <1>3, <1>4 DEF IInv, ClkInit

\* One vote more: no vote goes away.
LEMMA OnVotes ==
    ASSUME TypeOK, NEW c \in Client, NEW T \in Domains, NEW rc, ClkOn(c, T, rc)
    PROVE  /\ core' \in [Client -> Nat] /\ link' \in [Client -> Nat]
           /\ \A x \in Client \ {c} : core'[x] = core[x] /\ link'[x] = link[x]
           /\ core'[c] = IF "core" \in T THEN core[c] + 1 ELSE core[c]
           /\ link'[c] = IF "link" \in T THEN link[c] + 1 ELSE link[c]
<1>1. core \in [Client -> Nat] /\ link \in [Client -> Nat]
  BY DEF TypeOK
<1>2. core' = (IF "core" \in T THEN [core EXCEPT ![c] = @ + 1] ELSE core)
      /\ link' = (IF "link" \in T THEN [link EXCEPT ![c] = @ + 1] ELSE link)
  BY DEF ClkOn
<1>3. CASE T = {"core"}
  BY <1>1, <1>2, <1>3
<1>4. CASE T = {"link"}
  BY <1>1, <1>2, <1>4
<1>5. CASE T = {"core", "link"}
  BY <1>1, <1>2, <1>5
<1> QED
  BY <1>3, <1>4, <1>5 DEF Domains

\* One vote less, if there is one.
LEMMA OffVotes ==
    ASSUME TypeOK, NEW c \in Client, NEW T \in Domains, ClkOff(c, T)
    PROVE  /\ core' \in [Client -> Nat] /\ link' \in [Client -> Nat]
           /\ \A x \in Client \ {c} : core'[x] = core[x] /\ link'[x] = link[x]
           /\ core'[c] = IF "core" \in T /\ core[c] > 0 THEN core[c] - 1 ELSE core[c]
           /\ link'[c] = IF "link" \in T /\ link[c] > 0 THEN link[c] - 1 ELSE link[c]
<1>1. core \in [Client -> Nat] /\ link \in [Client -> Nat]
  BY DEF TypeOK
<1>2. core' = (IF "core" \in T /\ core[c] > 0 THEN [core EXCEPT ![c] = @ - 1] ELSE core)
      /\ link' = (IF "link" \in T /\ link[c] > 0 THEN [link EXCEPT ![c] = @ - 1] ELSE link)
  BY DEF ClkOff
<1>3. CASE T = {"core"}
  BY <1>1, <1>2, <1>3
<1>4. CASE T = {"link"}
  BY <1>1, <1>2, <1>4
<1>5. CASE T = {"core", "link"}
  BY <1>1, <1>2, <1>5
<1> QED
  BY <1>3, <1>4, <1>5 DEF Domains

\* What a client that keeps the protocol gives back.
Releases(c, T) ==
    /\ "core" \in T => core[c] > (IF "link" \in T THEN 0 ELSE link[c])
    /\ "link" \in T => link[c] > 0
    /\ ClkOff(c, T)

\* An OFF leaves no link vote without a core vote if it releases the core vote only on top
\* of the link's.
LEMMA ReleasesVotes ==
    ASSUME TypeOK, \A x \in Client : link[x] <= core[x],
           NEW c \in Client, NEW T \in Domains, ClkOff(c, T),
           T = {"core"} => link[c] = 0 \/ link[c] < core[c]
    PROVE  /\ core' \in [Client -> Nat] /\ link' \in [Client -> Nat]
           /\ \A x \in Client : link'[x] <= core'[x]
<1>1. /\ core' \in [Client -> Nat] /\ link' \in [Client -> Nat]
      /\ \A x \in Client \ {c} : core'[x] = core[x] /\ link'[x] = link[x]
      /\ core'[c] = IF "core" \in T /\ core[c] > 0 THEN core[c] - 1 ELSE core[c]
      /\ link'[c] = IF "link" \in T /\ link[c] > 0 THEN link[c] - 1 ELSE link[c]
  BY OffVotes
<1>2. core[c] \in Nat /\ link[c] \in Nat /\ link[c] <= core[c]
  BY DEF TypeOK
<1>3. link'[c] <= core'[c]
  <2>1. CASE T = {"core"}
    BY <1>1, <1>2, <2>1
  <2>2. CASE T = {"link"}
    BY <1>1, <1>2, <2>2
  <2>3. CASE T = {"core", "link"}
    BY <1>1, <1>2, <2>3
  <2> QED
    BY <2>1, <2>2, <2>3 DEF Domains
<1> QED
  BY <1>1, <1>3

\* What a recheck that may fail leaves in the histories, and that only supplies and core
\* clocks can have failed while the link is not broken.
LEMMA RetryFails ==
    ASSUME faults \in Nat, broken \subseteq {"link", "toggle"}, Retry
    PROVE  /\ faults' \in Nat /\ (faults' = 0 => faults = 0 /\ broken' = broken)
           /\ broken' \subseteq {"link", "toggle"} /\ broken \subseteq broken'
           /\ "toggle" \in broken' => "toggle" \in broken
           /\ Safe' => \E f \in Outcome : Recheck(f) /\ (faults' = 0 => f = "none")
<1>1. CASE Recheck("none") /\ Well
  BY <1>1 DEF Well, Outcome
<1>2. ASSUME NEW f \in FaultKinds, Recheck(f), Fails(f, "link")
      PROVE  /\ faults' \in Nat /\ (faults' = 0 => faults = 0 /\ broken' = broken)
             /\ broken' \subseteq {"link", "toggle"} /\ broken \subseteq broken'
             /\ "toggle" \in broken' => "toggle" \in broken
             /\ Safe' => \E g \in Outcome : Recheck(g) /\ (faults' = 0 => g = "none")
  <2>1. faults' \in Nat /\ faults' # 0
    BY <1>2 DEF Fails
  <2>2. broken' = broken \/ broken' = broken \cup {"link"}
    BY <1>2 DEF Fails
  <2>3. Safe' => f \in Outcome
    BY <1>2 DEF Fails, Safe, FaultKinds, Outcome
  <2> QED
    BY <1>2, <2>1, <2>2, <2>3
<1> QED
  BY <1>1, <1>2 DEF Retry

\* What an ON does to the clocks, when the votes are in order after it.
LEMMA OnKeeps ==
    ASSUME IInv, Safe', NEW c \in Client, NEW T \in Domains, NEW rc, ClkOn(c, T, rc),
           \A x \in Client : link'[x] <= core'[x]
    PROVE  IInv' /\ (hw.mcore = "ON" => hw'.mcore = "ON")
<1>1. /\ core' \in [Client -> Nat] /\ link' \in [Client -> Nat]
      /\ \A x \in Client : core[x] <= core'[x] /\ link[x] <= link'[x]
  <2>1. TypeOK
    BY DEF IInv
  <2> QED
    BY <2>1, OnVotes DEF TypeOK
<1>2. UNCHANGED <<conf, panel>> /\ HwOrdered(hw) /\ TypeOK /\ faults \in Nat
      /\ (faults = 0 => Clean(hw)) /\ (hw.mcore = "ON" => Want(core) = "ON")
  BY DEF ClkOn, IInv, TypeOK
<1>3. Want(link') = "ON" => Want(core') = "ON"
  BY <1>1, LinkWantsCore
<1>4. CASE ("core" \in T /\ core[c] = 0) \/ ("link" \in T /\ link[c] = 0)
  <2>0. Retry
    BY <1>4 DEF ClkOn
  <2>1. PICK f \in Outcome : Recheck(f) /\ (faults' = 0 => f = "none")
    BY <1>2, <2>0, RetryFails DEF TypeOK
  <2>2. /\ HwOrdered(hw)'
        /\ (hw.mcore = "ON")' => Want(core') = "ON"
        /\ (hw.mlink = "ON")' => Want(link') = "ON"
        /\ hw.mcore = "ON" /\ Want(core') = "ON" => hw'.mcore = "ON"
        /\ hw'.mcore = "ON" /\ Want(link') = "ON" => hw'.mlink = "ON"
        /\ f = "none" /\ Clean(hw) =>
               /\ Clean(hw')
               /\ Want(core') = "ON" => hw'.mcore = "ON"
               /\ Want(link') = "ON" => hw'.mlink = "ON"
    BY <1>2, <1>3, <2>1, RecheckKeeps
  <2>3. TypeOK' /\ (faults' = 0 => faults = 0)
    <3>1. faults' \in Nat /\ (faults' = 0 => faults = 0) /\ broken' \subseteq {"link", "toggle"}
      BY <1>2, <2>0, RetryFails DEF TypeOK
    <3> QED
      BY <1>1, <1>2, <2>2, <3>1 DEF TypeOK, HwOrdered
  <2>4. faults' = 0 => f = "none" /\ Clean(hw)
    BY <1>2, <2>1, <2>3
  <2>5. Want(core) = "ON" => Want(core') = "ON"
    <3>1. core \in [Client -> Nat]
      BY <1>2 DEF TypeOK
    <3> QED
      BY <1>1, <3>1 DEF Want
  <2> QED
    BY <1>2, <2>2, <2>3, <2>4, <2>5 DEF IInv
<1>5. CASE ~(("core" \in T /\ core[c] = 0) \/ ("link" \in T /\ link[c] = 0))
  <2>1. hw' = hw /\ faults' = faults /\ broken' = broken
    BY <1>5 DEF ClkOn, Well
  <2>2. HwOrdered(hw)' /\ TypeOK'
    BY <1>1, <1>2, <2>1 DEF HwOrdered, UlpsReqValid, TypeOK
  <2>3. core \in [Client -> Nat] /\ link \in [Client -> Nat]
    BY <1>2 DEF TypeOK
  <2>4. core' = (IF "core" \in T THEN [core EXCEPT ![c] = @ + 1] ELSE core)
        /\ link' = (IF "link" \in T THEN [link EXCEPT ![c] = @ + 1] ELSE link)
    BY DEF ClkOn
  <2>5. Want(core') = Want(core)
    BY <1>1, <1>5, <2>3, <2>4 DEF Want
  <2>6. Want(link') = Want(link)
    BY <1>1, <1>5, <2>3, <2>4 DEF Want
  <2> QED
    BY <2>1, <2>2, <2>5, <2>6 DEF IInv
<1> QED
  BY <1>4, <1>5

\* What an OFF does to them.
LEMMA OffKeeps ==
    ASSUME IInv, Safe', NEW c \in Client, NEW T \in Domains, ClkOff(c, T),
           \A x \in Client : link'[x] <= core'[x]
    PROVE  IInv'
<1>1. core \in [Client -> Nat] /\ link \in [Client -> Nat]
  BY DEF IInv, TypeOK
<1>2. UNCHANGED <<conf, panel>> /\ HwOrdered(hw) /\ TypeOK /\ faults \in Nat
      /\ (faults = 0 => Clean(hw))
  BY DEF ClkOff, IInv, TypeOK
<1>3. core' = (IF "core" \in T /\ core[c] > 0 THEN [core EXCEPT ![c] = @ - 1] ELSE core)
      /\ link' = (IF "link" \in T /\ link[c] > 0 THEN [link EXCEPT ![c] = @ - 1] ELSE link)
  BY DEF ClkOff
<1>4. core' \in [Client -> Nat] /\ link' \in [Client -> Nat]
  BY <1>2, OffVotes
<1>5. Want(link') = "ON" => Want(core') = "ON"
  BY <1>4, LinkWantsCore
<1>6. CASE ("core" \in T /\ core[c] = 1) \/ ("link" \in T /\ link[c] = 1)
  <2>0. Retry
    BY <1>6 DEF ClkOff
  <2>1. PICK f \in Outcome : Recheck(f) /\ (faults' = 0 => f = "none")
    BY <1>2, <2>0, RetryFails DEF TypeOK
  <2>2. /\ HwOrdered(hw)'
        /\ (hw.mcore = "ON")' => Want(core') = "ON"
        /\ (hw.mlink = "ON")' => Want(link') = "ON"
        /\ hw'.mcore = "ON" /\ Want(link') = "ON" => hw'.mlink = "ON"
        /\ f = "none" /\ Clean(hw) =>
               /\ Clean(hw')
               /\ Want(core') = "ON" => hw'.mcore = "ON"
               /\ Want(link') = "ON" => hw'.mlink = "ON"
    BY <1>2, <1>5, <2>1, RecheckKeeps
  <2>3. TypeOK' /\ (faults' = 0 => faults = 0)
    <3>1. faults' \in Nat /\ (faults' = 0 => faults = 0) /\ broken' \subseteq {"link", "toggle"}
      BY <1>2, <2>0, RetryFails DEF TypeOK
    <3> QED
      BY <1>2, <1>4, <2>2, <3>1 DEF TypeOK, HwOrdered
  <2>5. faults' = 0 => f = "none" /\ Clean(hw)
    BY <1>2, <2>1, <2>3
  <2> QED
    BY <2>2, <2>3, <2>5 DEF IInv
<1>7. CASE ~(("core" \in T /\ core[c] = 1) \/ ("link" \in T /\ link[c] = 1))
  <2>1. hw' = hw /\ faults' = faults /\ broken' = broken
    BY <1>7 DEF ClkOff, Well
  <2>2. HwOrdered(hw)' /\ TypeOK'
    BY <1>2, <1>4, <2>1 DEF HwOrdered, UlpsReqValid, TypeOK
  <2>3. \A x \in Client : core'[x] > 0 <=> core[x] > 0
    BY <1>1, <1>3, <1>7
  <2>4. \A x \in Client : link'[x] > 0 <=> link[x] > 0
    BY <1>1, <1>3, <1>7
  <2>5. Want(core') = Want(core) /\ Want(link') = Want(link)
    BY <2>3, <2>4 DEF Want
  <2> QED
    BY <2>1, <2>2, <2>5 DEF IInv
<1> QED
  BY <1>6, <1>7

\* The forced update of the link keeps it.
LEMMA ForceKeeps ==
    ASSUME IInv, Safe', ForceUpdate
    PROVE  IInv' /\ faults' = faults
<1> DEFINE u == LinkOn(LinkOff(hw), "none")
<1>0. /\ UNCHANGED <<faults, broken>>
      /\ hw' = [u EXCEPT !.mlink = "ON"]
  <2>1. PICK f \in {"none"} \cup LinkFaults :
            /\ hw' = [LinkOn(LinkOff(hw), f) EXCEPT !.mlink = "ON"]
            /\ IF f = "none" THEN Well ELSE Fails(f, "toggle")
    BY DEF ForceUpdate
  <2>2. f = "none"
    BY <2>1 DEF Fails, Safe
  <2> QED
    BY <2>1, <2>2 DEF Well
<1>1. HwOrdered(hw) /\ hw.mlink = "ON" /\ UNCHANGED <<conf, panel, core, link, faults, broken>>
  BY <1>0 DEF IInv, ForceUpdate
<1>2. HwOrdered(LinkOff(hw)) /\ LinkOff(hw).mlink = "OFF" /\ LinkOff(hw).mcore = "ON"
  BY <1>1, LinkOffOrdered
<1>3. HwOrdered(u) /\ u.mlink = "ON" /\ u.mcore = "ON"
  BY <1>2, LinkOnOrdered DEF Outcome
<1> HIDE DEF u
<1>5. hw' = u
  BY <1>0, <1>3 DEF HwOrdered, Hw
<1>6. HwOrdered(hw)'
  BY <1>1, <1>3, <1>5 DEF HwOrdered, UlpsReqValid
<1>7. hw.mcore = "ON" /\ hw'.mcore = "ON" /\ hw'.mlink = "ON" /\ Clean(hw')
  BY <1>1, <1>3, <1>5 DEF HwOrdered, Hw, Switch, Clean
<1>8. TypeOK'
  BY <1>1, <1>6 DEF IInv, TypeOK, HwOrdered
<1> QED
  BY <1>1, <1>6, <1>7, <1>8 DEF IInv

\* The panel changes while the link is on or the core clocks are off, or an ESD failure
\* is forgotten.
LEMMA PanelKeeps ==
    ASSUME IInv, UNCHANGED <<conf, core, link, hw, faults, broken>>,
           panel' \in SUBSET {"init", "esd"},
           \/ hw.mlink = "ON" \/ hw.mcore = "OFF"
           \/ panel' = panel \ {"esd"} \/ panel' = panel
    PROVE  IInv'
<1>2. hw.mlink = "ON" \/ hw.mcore = "OFF" \/ (UlpsReqValid => UlpsReqValid')
  BY DEF UlpsReqValid
<1>3. HwOrdered(hw)'
  BY <1>2 DEF IInv, HwOrdered
<1>4. TypeOK'
  BY DEF IInv, TypeOK
<1> QED
  BY <1>3, <1>4 DEF IInv

\* So does every step of clients that keep the protocol.
LEMMA NextIInv ==
    ASSUME IInv, Safe', [ClkNext]_clkvars
    PROVE  IInv'
<1>0. TypeOK /\ core \in [Client -> Nat] /\ link \in [Client -> Nat]
      /\ \A x \in Client : link[x] <= core[x]
  BY DEF IInv, TypeOK
<1>1. CASE \E c \in Client, T \in Domains : Turn(c, T)
  <2> PICK c \in Client, T \in Domains : Turn(c, T)
    BY <1>1
  <2>1. ASSUME T = {"link"} => link[c] < core[c], NEW rc \in {"ok", "fail"}, ClkOn(c, T, rc)
        PROVE  IInv'
    <3>1. \A x \in Client : link'[x] <= core'[x]
      BY <1>0, <2>1, OnVotes DEF Domains
    <3> QED
      BY <1>0, <2>1, <3>1, OnKeeps
  <2>2. CASE Releases(c, T)
    <3>0. T = {"core"} => link[c] = 0 \/ link[c] < core[c]
      BY <1>0, <2>2 DEF Releases
    <3>1. \A x \in Client : link'[x] <= core'[x]
      BY <1>0, <2>2, <3>0, ReleasesVotes DEF Releases
    <3> QED
      BY <1>0, <2>2, <3>1, OffKeeps DEF Releases
  <2> QED
    BY <2>1, <2>2 DEF Turn, Releases
<1>2. CASE ForceUpdate
  BY <1>2, ForceKeeps
<1>3. CASE PanelChange
  BY <1>3, PanelKeeps DEF PanelChange, Well
<1>4. CASE UNCHANGED clkvars
  BY <1>4 DEF clkvars, IInv, TypeOK, HwOrdered, UlpsReqValid, Clean, Want
<1> QED
  BY <1>1, <1>2, <1>3, <1>4 DEF ClkNext

\* A link clock that runs has core clocks and supplies.
LEMMA OrderedLink == IInv => CoreUnderLink
<1> SUFFICES ASSUME IInv, hw.lp > 0 \/ hw.hs > 0 PROVE hw.core = "ON" /\ hw.pwr = "on"
  BY DEF CoreUnderLink
<1>1. HwOrdered(hw) /\ hw.mlink \in Switch /\ hw.mcore \in Switch
  BY DEF IInv, HwOrdered, Hw
<1>2. hw.mlink = "ON"
  BY <1>1 DEF HwOrdered, Switch
<1>3. hw.mcore = "ON"
  BY <1>1, <1>2 DEF HwOrdered, Switch
<1> QED
  BY <1>1, <1>3 DEF HwOrdered

-----------------------------------------------------------------------------
(* Whatever fails                                                          *)

\* What the manager takes for on has what it stands on,
Ordered(h) ==
    /\ h \in Hw
    /\ h.mcore = "ON" => h.pwr = "on" /\ h.core = "ON"
    /\ h.mlink = "ON" => h.mcore = "ON"

\* ... and a link it takes for on has its clocks, and neither clamps nor an idle PHY.
Running(h) ==
    /\ h.lp >= 0 /\ h.hs >= 0
    /\ h.mlink = "ON" => h.lp > 0 /\ h.hs > 0 /\ h.phy \subseteq {"ulps"}

OInv ==
    /\ TypeOK
    /\ Ordered(hw)
    /\ "toggle" \notin broken => Running(hw)
    /\ \A c \in Client : link[c] <= core[c]

AnyOutcome == {"none"} \cup FaultKinds

\* Core clocks on, or not.
LEMMA CoreOnLight ==
    ASSUME NEW h, NEW f \in AnyOutcome, Ordered(h), h.mcore = "OFF"
    PROVE  Ordered(CoreOn(h, f)) /\ (Running(h) => Running(CoreOn(h, f)))
<1>1. CASE CoreOn(h, f) = h
  BY <1>1
<1>2. CASE CoreOn(h, f) = [h EXCEPT !.pwr = "ctrl"]
  BY <1>2 DEF Ordered, Running, Hw, Switch
<1>3. CASE CoreOn(h, f) = [h EXCEPT !.pwr = "on"]
  BY <1>3 DEF Ordered, Running, Hw, Switch
<1>4. CASE CoreOn(h, f) = [h EXCEPT !.pwr = "on", !.core = "ON", !.mcore = "ON"]
  BY <1>4 DEF Ordered, Running, Hw, Switch
<1>6. CASE h.pwr # "off" \/ f = "ctrl"
  BY <1>1, <1>6 DEF CoreOn
<1>7. CASE h.pwr = "off" /\ f = "phy"
  BY <1>2, <1>7 DEF CoreOn
<1>8. CASE h.pwr = "off" /\ f = "core"
  BY <1>3, <1>8 DEF CoreOn
<1>9. CASE h.pwr = "off" /\ f \notin {"ctrl", "phy", "core"}
  BY <1>4, <1>9 DEF CoreOn
<1> QED
  BY <1>6, <1>7, <1>8, <1>9

\* LP clocks and their callback: clamps and idle PHY are gone.
LEMMA LpOnLight ==
    ASSUME NEW h \in Hw
    PROVE  /\ LpOn(h) \in Hw /\ LpOn(h).mcore = h.mcore /\ LpOn(h).mlink = h.mlink
           /\ LpOn(h).pwr = h.pwr /\ LpOn(h).core = h.core
           /\ LpOn(h).lp = h.lp + 1 /\ LpOn(h).hs = h.hs /\ LpOn(h).phy \subseteq {"ulps"}
<1> DEFINE relost == {"clamp", "ulps"} \subseteq h.phy /\ ~UlpsReqValid
           left == h.phy \ ({"clamp", "idle"} \cup IF relost THEN {"ulps"} ELSE {})
           up == h.lp + 1
<1>1. LpOn(h) = [h EXCEPT !.lp = up, !.phy = left]
  BY DEF LpOn
<1>2. left \subseteq {"ulps"} /\ up \in Int
  BY DEF Hw
<1>3. left \in SUBSET {"clamp", "ulps", "idle"}
  BY <1>2
<1> HIDE DEF left, up
<1>4. LpOn(h) \in Hw
  BY <1>1, <1>2, <1>3, Zenon DEF Hw
<1>5. /\ LpOn(h).mcore = h.mcore /\ LpOn(h).mlink = h.mlink
      /\ LpOn(h).pwr = h.pwr /\ LpOn(h).core = h.core
      /\ LpOn(h).lp = up /\ LpOn(h).hs = h.hs /\ LpOn(h).phy = left
  BY <1>1 DEF Hw
<1> QED
  BY <1>2, <1>4, <1>5 DEF up

\* HS clocks and their callback.
LEMMA HsOnLight ==
    ASSUME NEW h \in Hw
    PROVE  /\ HsOn(h) \in Hw /\ HsOn(h).mcore = h.mcore /\ HsOn(h).mlink = h.mlink
           /\ HsOn(h).pwr = h.pwr /\ HsOn(h).core = h.core
           /\ HsOn(h).lp = h.lp /\ HsOn(h).hs = h.hs + 1 /\ HsOn(h).phy \subseteq h.phy
<1> DEFINE k == [h EXCEPT !.hs = @ + 1]
<1>1. k \in Hw /\ k.mcore = h.mcore /\ k.mlink = h.mlink /\ k.pwr = h.pwr /\ k.core = h.core
      /\ k.lp = h.lp /\ k.hs = h.hs + 1 /\ k.phy = h.phy
  BY DEF Hw
<1>2. HsOn(h) = k \/ HsOn(h) = [k EXCEPT !.phy = @ \ {"ulps"}]
  BY DEF HsOn, SetUlps
<1> HIDE DEF k
<1> QED
  BY <1>1, <1>2 DEF Hw

\* Link on, or half on.
LEMMA LinkOnLight ==
    ASSUME NEW h, NEW f \in AnyOutcome, Ordered(h), h.mcore = "ON", h.mlink = "OFF"
    PROVE  /\ Ordered(LinkOn(h, f)) /\ LinkOn(h, f).mcore = "ON"
           /\ Running(h) => Running(LinkOn(h, f))
           /\ Running(h) /\ f \notin LinkFaults =>
                  /\ LinkOn(h, f).mlink = "ON" /\ LinkOn(h, f).lp > 0
                  /\ LinkOn(h, f).hs > 0 /\ LinkOn(h, f).phy \subseteq {"ulps"}
<1> DEFINE l == LpOn(h)
           k == HsOn(l)
<1>1. h \in Hw /\ h.lp \in Int /\ h.hs \in Int /\ h.pwr = "on" /\ h.core = "ON"
  BY DEF Ordered, Hw
<1>2. /\ l \in Hw /\ l.mcore = "ON" /\ l.mlink = "OFF" /\ l.pwr = "on" /\ l.core = "ON"
      /\ l.lp = h.lp + 1 /\ l.hs = h.hs /\ l.phy \subseteq {"ulps"}
  BY <1>1, LpOnLight
<1> HIDE DEF l
<1>3. /\ k \in Hw /\ k.mcore = "ON" /\ k.mlink = "OFF" /\ k.pwr = "on" /\ k.core = "ON"
      /\ k.lp = h.lp + 1 /\ k.hs = h.hs + 1 /\ k.phy \subseteq {"ulps"}
  BY <1>2, HsOnLight
<1> HIDE DEF k
<1>4. CASE f = "lp"
  <2>1. LinkOn(h, f) = h
    BY <1>4 DEF LinkOn
  <2> QED
    BY <2>1, <1>4 DEF LinkFaults
<1>5. CASE f = "clamp"
  <2>1. LinkOn(h, f) = [l EXCEPT !.phy = @ \cup (h.phy \cap {"clamp"})]
    BY <1>5 DEF LinkOn, l
  <2> QED
    BY <2>1, <1>1, <1>2, <1>5 DEF LinkFaults, Ordered, Running, Hw
<1>6. CASE f = "hs"
  <2>1. LinkOn(h, f) = l
    BY <1>6 DEF LinkOn, l
  <2> QED
    BY <2>1, <1>1, <1>2, <1>6 DEF LinkFaults, Ordered, Running
<1>7. CASE f = "ulps"
  <2>1. LinkOn(h, f) = [l EXCEPT !.hs = @ + 1]
    BY <1>7 DEF LinkOn, l
  <2> QED
    BY <2>1, <1>1, <1>2, <1>7 DEF LinkFaults, Ordered, Running, Hw
<1>8. CASE f = "cb"
  <2>1. LinkOn(h, f) = k
    BY <1>8 DEF LinkOn, l, k
  <2> QED
    BY <2>1, <1>1, <1>3, <1>8 DEF LinkFaults, Ordered, Running
<1>9. CASE f \notin {"lp", "clamp", "hs", "ulps", "cb"}
  <2>1. LinkOn(h, f) = [k EXCEPT !.mlink = "ON"]
    BY <1>9 DEF LinkOn, l, k
  <2>2. "ON" \in Switch
    BY DEF Switch
  <2>3. LinkOn(h, f) \in Hw
    BY <1>3, <2>1, <2>2, Zenon DEF Hw
  <2> QED
    BY <2>1, <2>3, <1>1, <1>3 DEF Ordered, Running, Hw
<1> QED
  BY <1>4, <1>5, <1>6, <1>7, <1>8, <1>9

\* Link off.
LEMMA LinkOffLight ==
    ASSUME NEW h, Ordered(h), h.mlink = "ON"
    PROVE  /\ Ordered(LinkOff(h)) /\ LinkOff(h).mlink = "OFF" /\ LinkOff(h).mcore = "ON"
           /\ Running(h) => Running(LinkOff(h))
<1> DEFINE g == IF EntersUlps THEN SetUlps(h, TRUE) ELSE h
           hs == g.hs - 1
           lp == g.lp - 1
<1>1. h \in Hw /\ h.mcore = "ON" /\ h.pwr = "on" /\ h.core = "ON"
  BY DEF Ordered
<1>2. g = h \/ g = [h EXCEPT !.phy = @ \cup {"ulps"}]
  BY DEF SetUlps
<1>3. g \in Hw /\ g.mcore = "ON" /\ g.pwr = "on" /\ g.core = "ON" /\ g.lp = h.lp /\ g.hs = h.hs
  <2> HIDE DEF g
  <2> QED
    BY <1>1, <1>2 DEF Hw
<1>4. LinkOff(h) = [g EXCEPT !.hs = hs, !.lp = lp, !.mlink = "OFF"]
  BY DEF LinkOff
<1> HIDE DEF g
<1>5. hs \in Int /\ lp \in Int /\ "OFF" \in Switch
  BY <1>3 DEF Hw, Switch
<1>6. Running(h) => hs >= 0 /\ lp >= 0
  BY <1>1, <1>3 DEF Running, Hw
<1> HIDE DEF hs, lp
<1>7. LinkOff(h) \in Hw
  BY <1>3, <1>4, <1>5, Zenon DEF Hw
<1>8. LinkOff(h).hs = hs /\ LinkOff(h).lp = lp /\ LinkOff(h).mlink = "OFF"
      /\ LinkOff(h).mcore = "ON" /\ LinkOff(h).pwr = "on" /\ LinkOff(h).core = "ON"
  BY <1>3, <1>4 DEF Hw
<1> QED
  BY <1>6, <1>7, <1>8 DEF Ordered, Running

\* Core off, with the link off already.
LEMMA CoreOffLight ==
    ASSUME NEW h, Ordered(h), h.mlink = "OFF"
    PROVE  Ordered(CoreOff(h)) /\ (Running(h) => Running(CoreOff(h)))
<1> DEFINE idle == IF conf.phyoff = "ON" THEN {"idle"} ELSE {}
           g == IF "init" \in panel \/ conf.susp = "ON"
                THEN [h EXCEPT !.phy = @ \cup {"clamp"} \cup idle]
                ELSE SetUlps(h, FALSE)
<1>1. h \in Hw
  BY DEF Ordered
<1>2. \/ g = h \/ g = [h EXCEPT !.phy = @ \ {"ulps"}]
      \/ g = [h EXCEPT !.phy = @ \cup {"clamp"} \cup idle]
  BY DEF SetUlps
<1>3. g \in Hw /\ g.lp = h.lp /\ g.hs = h.hs /\ g.mlink = "OFF"
  <2> HIDE DEF g
  <2> QED
    BY <1>1, <1>2 DEF Hw
<1>4. CoreOff(h) = [g EXCEPT !.core = "OFF", !.pwr = "off", !.mcore = "OFF"]
  BY DEF CoreOff
<1> HIDE DEF g
<1> QED
  BY <1>3, <1>4 DEF Ordered, Running, Hw, Switch

\* dsi_update_clk_state, when the link is wanted only with the core.
LEMMA UpdateLight ==
    ASSUME NEW h, Ordered(h), NEW wc \in Switch, NEW wl \in Switch, NEW f \in AnyOutcome,
           wl = "ON" => wc = "ON", NEW u, u = UpdateClkState(h, wc, wl, f)
    PROVE  Ordered(u) /\ (Running(h) => Running(u))
<1> DEFINE h1 == WithCore(h, wc, f)
           h2 == WithLink(h1, wl, f)
<1>1. Ordered(h1) /\ (Running(h) => Running(h1))
  <2>1. CASE wc = "ON" /\ h.mcore = "OFF"
    BY <2>1, CoreOnLight DEF WithCore
  <2>2. CASE ~(wc = "ON" /\ h.mcore = "OFF")
    BY <2>2 DEF WithCore
  <2> QED
    BY <2>1, <2>2
<1>2. h1.mcore \in Switch /\ h1.mlink \in Switch
  BY <1>1 DEF Ordered, Hw
<1>3. u = IF wc = "ON" /\ h1.mcore = "OFF" THEN h1
          ELSE IF wl = "ON" /\ h2.mlink = "OFF" THEN h2
          ELSE WithoutCore(h2, wc)
  BY DEF UpdateClkState
<1>4. CASE wc = "ON" /\ h1.mcore = "OFF"
  BY <1>1, <1>3, <1>4
<1>5. CASE ~(wc = "ON" /\ h1.mcore = "OFF")
  <2>1. Ordered(h2) /\ (Running(h) => Running(h2)) /\ (wl = "OFF" => h2.mlink = "OFF")
    <3>1. CASE wl = "ON" /\ h1.mlink = "OFF"
      <4>1. h1.mcore = "ON"
        BY <3>1, <1>5, <1>2 DEF Switch
      <4>2. h2 = LinkOn(h1, f)
        BY <3>1 DEF WithLink
      <4> HIDE DEF h2, h1
      <4> QED
        BY <4>1, <4>2, <3>1, <1>1, LinkOnLight
    <3>2. CASE wl = "OFF" /\ h1.mlink = "ON"
      <4>1. h2 = LinkOff(h1)
        BY <3>2 DEF WithLink
      <4> HIDE DEF h2, h1
      <4> QED
        BY <4>1, <3>2, <1>1, LinkOffLight
    <3>3. CASE wl = h1.mlink
      <4>1. h2 = h1
        BY <3>3 DEF WithLink
      <4> HIDE DEF h2, h1
      <4> QED
        BY <4>1, <3>3, <1>1
    <3> QED
      BY <3>1, <3>2, <3>3, <1>2 DEF Switch
  <2>2. CASE wl = "ON" /\ h2.mlink = "OFF"
    BY <1>3, <1>5, <2>1, <2>2
  <2>3. CASE ~(wl = "ON" /\ h2.mlink = "OFF")
    <3> HIDE DEF h2, h1
    <3>1. u = WithoutCore(h2, wc)
      BY <1>3, <1>5, <2>3
    <3>2. CASE wc = "OFF" /\ h2.mcore = "ON"
      <4>1. h2.mlink = "OFF"
        BY <2>1, <3>2 DEF Switch
      <4>2. u = CoreOff(h2)
        BY <3>1, <3>2 DEF WithoutCore
      <4> QED
        BY <2>1, <4>1, <4>2, CoreOffLight
    <3>3. CASE ~(wc = "OFF" /\ h2.mcore = "ON")
      BY <2>1, <3>1, <3>3 DEF WithoutCore
    <3> QED
      BY <3>2, <3>3
  <2> QED
    BY <2>2, <2>3
<1> QED
  BY <1>4, <1>5

\* A recheck, or a request that needs none.
LEMMA RetryLight ==
    ASSUME OInv, UNCHANGED conf, panel' \subseteq {"init", "esd"},
           core' \in [Client -> Nat], link' \in [Client -> Nat],
           \A x \in Client : link'[x] <= core'[x],
           Retry \/ (UNCHANGED hw /\ Well)
    PROVE  OInv' /\ broken \subseteq broken'
<1>1. TypeOK /\ Ordered(hw) /\ ("toggle" \notin broken => Running(hw))
  BY DEF OInv
<1>2. Want(core') \in Switch /\ Want(link') \in Switch
      /\ (Want(link') = "ON" => Want(core') = "ON")
  BY LinkWantsCore DEF Want, Switch
<1>3. CASE Retry
  <2>1. /\ faults' \in Nat /\ broken' \subseteq {"link", "toggle"} /\ broken \subseteq broken'
        /\ "toggle" \in broken' => "toggle" \in broken
    BY <1>1, <1>3, RetryFails DEF TypeOK
  <2>2. PICK f \in AnyOutcome : Recheck(f)
    BY <1>3 DEF Retry, AnyOutcome
  <2>3. Ordered(hw') /\ (Running(hw) => Running(hw'))
    BY <1>1, <1>2, <2>2, UpdateLight DEF Recheck
  <2>4. TypeOK'
    BY <1>1, <2>1, <2>3 DEF TypeOK, Ordered
  <2>5. Ordered(hw)' /\ ("toggle" \notin broken' => Running(hw)')
    BY <1>1, <2>1, <2>3 DEF Ordered, Running
  <2> QED
    BY <2>1, <2>4, <2>5 DEF OInv
<1>4. CASE UNCHANGED hw /\ Well
  <2>1. TypeOK'
    BY <1>1, <1>4 DEF TypeOK, Well
  <2>2. Ordered(hw)' /\ ("toggle" \notin broken' => Running(hw)')
    BY <1>1, <1>4 DEF Ordered, Running, Well
  <2> QED
    BY <1>4, <2>1, <2>2 DEF OInv, Well
<1> QED
  BY <1>3, <1>4

\* One vote more.
LEMMA OnLight ==
    ASSUME OInv, NEW c \in Client, NEW T \in Domains, NEW rc, ClkOn(c, T, rc),
           T = {"link"} => link[c] < core[c]
    PROVE  OInv' /\ broken \subseteq broken'
<1>1. TypeOK /\ \A x \in Client : link[x] <= core[x]
  BY DEF OInv
<1>4. core \in [Client -> Nat] /\ link \in [Client -> Nat]
  BY <1>1 DEF TypeOK
<1>5. /\ core' \in [Client -> Nat] /\ link' \in [Client -> Nat]
      /\ \A x \in Client \ {c} : core'[x] = core[x] /\ link'[x] = link[x]
      /\ core'[c] = IF "core" \in T THEN core[c] + 1 ELSE core[c]
      /\ link'[c] = IF "link" \in T THEN link[c] + 1 ELSE link[c]
  BY <1>1, OnVotes
<1>6. link'[c] <= core'[c]
  <2>1. CASE T = {"link"}
    BY <1>4, <1>5, <2>1
  <2>2. CASE T \in {{"core"}, {"core", "link"}}
    BY <1>1, <1>4, <1>5, <2>2
  <2> QED
    BY <2>1, <2>2 DEF Domains
<1>2. /\ core' \in [Client -> Nat] /\ link' \in [Client -> Nat]
      /\ \A x \in Client : link'[x] <= core'[x]
  BY <1>1, <1>5, <1>6
<1>3. UNCHANGED <<conf, panel>> /\ (Retry \/ (UNCHANGED hw /\ Well))
  BY DEF ClkOn
<1> QED
  BY <1>1, <1>2, <1>3, RetryLight DEF TypeOK

\* One vote less.
LEMMA OffLight ==
    ASSUME OInv, NEW c \in Client, NEW T \in Domains, ClkOff(c, T),
           T = {"core"} => link[c] = 0 \/ link[c] < core[c]
    PROVE  OInv' /\ broken \subseteq broken'
<1>1. TypeOK /\ \A x \in Client : link[x] <= core[x]
  BY DEF OInv
<1>2. /\ core' \in [Client -> Nat] /\ link' \in [Client -> Nat]
      /\ \A x \in Client : link'[x] <= core'[x]
  BY <1>1, ReleasesVotes
<1>3. UNCHANGED <<conf, panel>> /\ (Retry \/ (UNCHANGED hw /\ Well))
  BY DEF ClkOff
<1> QED
  BY <1>1, <1>2, <1>3, RetryLight DEF TypeOK

\* The forced update, which takes the link for on although it may have failed.
LEMMA ForceLight ==
    ASSUME OInv, ForceUpdate
    PROVE  OInv' /\ broken \subseteq broken'
<1>1. TypeOK /\ Ordered(hw) /\ ("toggle" \notin broken => Running(hw)) /\ hw.mlink = "ON"
  BY DEF OInv, ForceUpdate
<1>2. PICK f \in {"none"} \cup LinkFaults :
          /\ hw' = [LinkOn(LinkOff(hw), f) EXCEPT !.mlink = "ON"]
          /\ IF f = "none" THEN Well ELSE Fails(f, "toggle")
  BY DEF ForceUpdate
<1> DEFINE u == LinkOn(LinkOff(hw), f)
<1>3. f \in AnyOutcome /\ (f \notin LinkFaults <=> f = "none")
  BY DEF AnyOutcome, FaultKinds, LinkFaults
<1>4. /\ Ordered(LinkOff(hw)) /\ LinkOff(hw).mlink = "OFF" /\ LinkOff(hw).mcore = "ON"
      /\ Running(hw) => Running(LinkOff(hw))
  BY <1>1, LinkOffLight
<1>5. /\ Ordered(u) /\ u.mcore = "ON"
      /\ Running(hw) /\ f = "none" => /\ u.lp > 0 /\ u.hs > 0 /\ u.phy \subseteq {"ulps"}
  BY <1>3, <1>4, LinkOnLight
<1> HIDE DEF u
<1>6. hw' = [u EXCEPT !.mlink = "ON"]
  BY <1>2 DEF u
<1>7. Ordered(hw') /\ (Running(hw) /\ f = "none" => Running(hw'))
  BY <1>5, <1>6 DEF Ordered, Running, Hw, Switch
<1>8. /\ faults' \in Nat /\ broken' \subseteq {"link", "toggle"} /\ broken \subseteq broken'
      /\ "toggle" \notin broken' => f = "none" /\ "toggle" \notin broken
  BY <1>1, <1>2, <1>3 DEF Well, Fails, TypeOK
<1>9. TypeOK'
  BY <1>1, <1>7, <1>8 DEF TypeOK, ForceUpdate, Ordered
<1>10. Ordered(hw)' /\ ("toggle" \notin broken' => Running(hw)')
  BY <1>1, <1>7, <1>8 DEF Ordered, Running
<1> QED
  BY <1>8, <1>9, <1>10 DEF OInv, ForceUpdate

\* A step that leaves votes and hardware alone.
LEMMA StillLight ==
    ASSUME OInv, UNCHANGED <<conf, core, link, hw, faults, broken>>,
           panel' \subseteq {"init", "esd"}
    PROVE  OInv'
<1>1. TypeOK'
  BY DEF OInv, TypeOK
<1>2. Ordered(hw)' /\ ("toggle" \notin broken' => Running(hw)')
  BY DEF OInv, Ordered, Running
<1> QED
  BY <1>1, <1>2 DEF OInv

\* While nothing of the link is broken the exact order gives the loose one.
LEMMA LightOf == ASSUME IInv, Safe PROVE OInv
<1>1. TypeOK /\ HwOrdered(hw) /\ hw.mlink \in Switch /\ hw.mcore \in Switch
  BY DEF IInv, TypeOK, Hw
<1>2. hw.mlink = "ON" => hw.mcore = "ON"
  BY <1>1 DEF HwOrdered, Switch
<1>3. Ordered(hw)
  BY <1>1, <1>2 DEF HwOrdered, Ordered
<1>4. Running(hw)
  BY <1>1 DEF HwOrdered, Running, Switch
<1> QED
  BY <1>1, <1>3, <1>4 DEF IInv, OInv

\* What holds in every reachable state of the manager.
MInv == OInv /\ (Safe => IInv)

\* It holds at the start,
LEMMA InitMInv == ClkInit => MInv
<1> SUFFICES ASSUME ClkInit PROVE MInv
  OBVIOUS
<1>1. IInv /\ HwOrdered(hw)
  BY InitIInv DEF IInv
<1>2. Ordered(hw) /\ Running(hw)
  BY <1>1 DEF ClkInit, Ordered, Running, HwOrdered
<1> QED
  BY <1>1, <1>2 DEF MInv, OInv, IInv

\* ... is kept by every step of clients that keep the protocol,
LEMMA NextMInv == MInv /\ [ClkNext]_clkvars => MInv'
<1> SUFFICES ASSUME MInv, [ClkNext]_clkvars PROVE MInv'
  OBVIOUS
<1>0. OInv /\ TypeOK /\ (Safe => IInv)
  BY DEF MInv, OInv
<1>1. OInv' /\ broken \subseteq broken'
  <2>1. CASE \E c \in Client, T \in Domains : Turn(c, T)
    <3> PICK c \in Client, T \in Domains : Turn(c, T)
      BY <2>1
    <3>1. core[c] \in Nat /\ link[c] \in Nat /\ link[c] <= core[c]
      BY <1>0 DEF OInv, TypeOK
    <3>2. ASSUME T = {"link"} => link[c] < core[c], NEW rc \in {"ok", "fail"}, ClkOn(c, T, rc)
          PROVE  OInv' /\ broken \subseteq broken'
      BY <1>0, <3>2, OnLight
    <3>3. ASSUME Releases(c, T)
          PROVE  OInv' /\ broken \subseteq broken'
      BY <1>0, <3>1, <3>3, OffLight DEF Releases
    <3> QED
      BY <3>2, <3>3 DEF Turn, Releases
  <2>2. CASE ForceUpdate
    BY <1>0, <2>2, ForceLight
  <2>3. CASE PanelChange
    BY <1>0, <2>3, StillLight DEF PanelChange, Well
  <2>4. CASE UNCHANGED clkvars
    BY <1>0, <2>4, StillLight DEF clkvars, TypeOK
  <2> QED
    BY <2>1, <2>2, <2>3, <2>4 DEF ClkNext
<1>2. Safe' => Safe
  BY <1>1 DEF Safe
<1>3. Safe' => IInv'
  BY <1>0, <1>2, NextIInv
<1> QED
  BY <1>1, <1>3 DEF MInv, Safe

\* ... and so always holds.
LEMMA Inductive == ClkSpec => []MInv
BY InitMInv, NextMInv, PTL DEF ClkSpec

-----------------------------------------------------------------------------
(* Theorems about the manager                                              *)

\* The counts never leave the naturals and the panel and hardware states keep their
\* types, for every set of clients and panels and whatever fails (dsi_clk_req_state).
THEOREM ClkTypeCorrect == ClkSpec => []TypeOK
<1>1. MInv => TypeOK
  BY DEF MInv, OInv
<1> QED
  BY <1>1, Inductive, PTL

\* What the two invariants say of the order of the clocks,
LEMMA NeedsCore == OInv /\ (Safe => IInv) => LinkNeedsCore
<1> SUFFICES ASSUME OInv, Safe => IInv PROVE LinkNeedsCore
  OBVIOUS
<1>1. hw.mlink = "ON" => hw.core = "ON" /\ hw.pwr = "on"
  BY DEF OInv, Ordered
<1>2. broken = {} => CoreUnderLink
  BY OrderedLink DEF Safe
<1> QED
  BY <1>1, <1>2 DEF LinkNeedsCore

\* ... and of a link that is on.
LEMMA IsReady == OInv /\ (Safe => IInv) => LinkReady
<1> SUFFICES ASSUME OInv, Safe => IInv, hw.mlink = "ON"
             PROVE  /\ "toggle" \notin broken =>
                           hw.lp > 0 /\ hw.hs > 0 /\ hw.phy \subseteq {"ulps"}
                    /\ broken = {} => hw.lp = 1 /\ hw.hs = 1 /\ hw.phy = {}
  BY DEF LinkReady
<1>1. "toggle" \notin broken => hw.lp > 0 /\ hw.hs > 0 /\ hw.phy \subseteq {"ulps"}
  BY DEF OInv, Running
<1>2. broken = {} => hw.lp = 1 /\ hw.hs = 1 /\ hw.phy = {}
  BY DEF Safe, IInv, HwOrdered
<1> QED
  BY <1>1, <1>2

\* The manager takes a link for on only with core clocks and supplies, whichever clock or
\* callback failed, the link's included, and however the requests of the clients
\* interleave; and no link clock at all runs without them until one of the link fails
\* (dsi_update_clk_state).
THEOREM LinkAlwaysNeedsCore == ClkSpec => []LinkNeedsCore
<1>1. MInv => LinkNeedsCore
  BY NeedsCore DEF MInv
<1> QED
  BY <1>1, Inductive, PTL

\* A link that is on has its clocks, no clamp and no idle PHY, whichever requests failed
\* before; and until one fails at the link, no lane in ULPS, whatever the ESD check and the
\* display thread did to the panel since (dsi_post_clkon_cb).
THEOREM LinkAlwaysReady == ClkSpec => []LinkReady
<1>1. MInv => LinkReady
  BY IsReady DEF MInv
<1> QED
  BY <1>1, Inductive, PTL

\* Until the first failure both domains are on exactly while some client votes for
\* them (dsi_recheck_clk_state).
THEOREM ManagerAlwaysFollows == ClkSpec => []ManagerFollows
<1>0. ClkSpec => [](faults = 0 => Safe)
  <2>1. ClkInit => (faults = 0 => Safe) /\ MInv
    BY InitMInv DEF ClkInit, Safe
  <2>2. (faults = 0 => Safe) /\ MInv /\ [ClkNext]_clkvars => (faults = 0 => Safe)' /\ MInv'
    <3> SUFFICES ASSUME faults = 0 => Safe, MInv, [ClkNext]_clkvars
                 PROVE  (faults' = 0 => Safe') /\ MInv'
      OBVIOUS
    <3>1. MInv' /\ faults \in Nat /\ broken \subseteq {"link", "toggle"}
      BY NextMInv DEF MInv, OInv, TypeOK
    <3>2. faults' = 0 => faults = 0 /\ broken' = broken
      BY <3>1, RetryFails DEF ClkNext, Turn, ClkOn, ClkOff, ForceUpdate, PanelChange, Well, Fails,
         clkvars
    <3> QED
      BY <3>1, <3>2 DEF Safe
  <2> QED
    BY <2>1, <2>2, PTL DEF ClkSpec
<1>1. MInv /\ (faults = 0 => Safe) => ManagerFollows
  <2> SUFFICES ASSUME IInv, faults = 0 PROVE hw.mcore = Want(core) /\ hw.mlink = Want(link)
    BY DEF ManagerFollows, MInv
  <2>1. hw.mcore \in Switch /\ hw.mlink \in Switch
    BY DEF IInv, TypeOK, Hw
  <2>2. Want(core) \in Switch /\ Want(link) \in Switch
    BY DEF Want, Switch
  <2> QED
    BY <2>1, <2>2 DEF IInv, Switch
<1> QED
  BY <1>0, <1>1, Inductive, PTL

-----------------------------------------------------------------------------
(* The display at work                                                     *)

\* Positions of the display thread: in transit with display_lock, with panel_lock, and
\* those where the panel may be initialized.
DispHolds == {"hostinit", "unwind", "panelon", "oncmd", "engine", "update", "updateflush",
              "toggle", "engineoff", "paneloff", "offcmd", "hostoff", "ulink", "ucore"}
PanelHolds == {"oncmd", "offcmd", "updateflush", "toggle"}
EngineRuns == {"postenable", "on", "update", "updateflush", "toggle", "mdpoff", "disable",
               "engineoff"}
PanelUp == EngineRuns \cup {"engine", "paneloff", "offcmd"}
Positions == DispHolds \cup PanelUp \cup {"off", "prepare", "enable", "unprep"}

\* Who holds which lock and runs which transfer, always.
Shape ==
    /\ d \in Positions
    /\ tx \in {"no", "vote", "flush", "wait", "clean", "ok", "fail", "checked"}
    /\ plock \in {"free", "disp", "bl", "esd"} /\ dlock \in {"free", "disp", "err"}
    /\ work \in {"none", "queued", "running", "ending"}
    /\ eng \in Nat /\ panel \subseteq {"init", "esd"}
    /\ plock = "disp" <=> d \in PanelHolds
    /\ dlock = "disp" <=> d \in DispHolds
    /\ tx = "no" <=> plock = "free" \/ d \in {"updateflush", "toggle"}
    /\ tx = "checked" => plock = "esd"
    /\ kind = "async" /\ tx # "no" => plock = "bl"
    /\ plock \in {"bl", "esd"} => "init" \in panel
    /\ "init" \in panel => d \in PanelUp
    /\ queued <=> work # "none"
    /\ tx \in {"wait", "clean"} \/ d = "toggle" => work = "none"
    /\ work # "none" => "init" \in panel \/ d \in {"unprep", "hostoff"}
    /\ dma => ~irq /\ (tx = "wait" \/ work \in {"queued", "running"})

\* Requests leave panel and configuration alone.
LEMMA ClkPanel ==
    ASSUME NEW c, NEW T, NEW rc, ClkOn(c, T, rc) \/ ClkOff(c, T) \/ UNCHANGED clkvars
    PROVE  panel' = panel /\ conf' = conf
BY DEF ClkOn, ClkOff, clkvars

\* Shape is kept by the sender of a command,
LEMMA SenderShape == ASSUME Shape, Sender PROVE Shape'
<1>0. panel' = panel
  BY ClkPanel DEF Sender, TxVote, TxReap, TxSend, TxRefused, TxDone, TxClean
<1>1. CASE TxVote
  BY <1>0, <1>1 DEF TxVote, Shape
<1>2. CASE TxReap
  BY <1>0, <1>2 DEF TxReap, CmdEngineOff, Shape
<1>3. CASE TxSend
  BY <1>0, <1>3 DEF TxSend, CmdEngineOn, Shape
<1>4. CASE TxRefused
  BY <1>0, <1>4 DEF TxRefused, Shape
<1>5. CASE TxDone
  BY <1>0, <1>5 DEF TxDone, CmdEngineOff, Shape
<1>6. CASE TxClean
  BY <1>0, <1>6 DEF TxClean, Shape
<1> QED
  BY <1>1, <1>2, <1>3, <1>4, <1>5, <1>6 DEF Sender

\* ... by its interrupt and timeout,
LEMMA DmaShape ==
    ASSUME Shape, DmaDone \/ DmaTimeout
    PROVE  Shape'
<1>1. CASE DmaDone
  BY <1>1, ClkPanel DEF DmaDone, Shape
<1>2. CASE DmaTimeout
  BY <1>2, ClkPanel DEF DmaTimeout, Shape
<1> QED
  BY <1>1, <1>2

\* ... by the work that ends an asynchronous one,
LEMMA WorkShape ==
    ASSUME Shape, WorkStart \/ WorkDone \/ WorkEnd
    PROVE  Shape'
<1>1. CASE WorkStart
  BY <1>1, ClkPanel DEF WorkStart, Shape
<1>2. CASE WorkDone
  BY <1>2 DEF WorkDone, CmdEngineOff, clkvars, Shape
<1>3. CASE WorkEnd
  BY <1>3, ClkPanel DEF WorkEnd, Shape, PanelHolds
<1> QED
  BY <1>1, <1>2, <1>3

\* ... by backlight, ESD check and error work,
LEMMA OthersShape ==
    ASSUME Shape, BlStart \/ BlEnd \/ EsdStart \/ EsdResult \/ EsdEnd \/ ErrStart \/ ErrEnd
    PROVE  Shape'
<1>1. CASE BlStart
  BY <1>1, ClkPanel DEF BlStart, Shape, PanelHolds
<1>2. CASE BlEnd
  BY <1>2, ClkPanel DEF BlEnd, Shape
<1>3. CASE EsdStart
  BY <1>3, ClkPanel DEF EsdStart, Shape, PanelHolds
<1>4. CASE EsdResult
  BY <1>4 DEF EsdResult, Shape
<1>5. CASE EsdEnd
  BY <1>5, ClkPanel DEF EsdEnd, Shape
<1>6. CASE ErrStart
  BY <1>6, ClkPanel DEF ErrStart, Shape, Positions, DispHolds, PanelHolds, PanelUp, EngineRuns
<1>7. CASE ErrEnd
  BY <1>7, ClkPanel DEF ErrEnd, Shape, Positions, DispHolds, PanelHolds, PanelUp, EngineRuns
<1> QED
  BY <1>1, <1>2, <1>3, <1>4, <1>5, <1>6, <1>7

\* ... by enable with its error paths,
LEMMA OnShape ==
    ASSUME Shape, PreEnable \/ Prepare \/ HostOn \/ HostFails \/ Unwind \/ Enable \/ PanelOn
                  \/ PanelOnDone \/ EngineOn \/ PostEnable
    PROVE  Shape'
<1>1. CASE PreEnable
  BY <1>1 DEF PreEnable, Shape, Positions, DispHolds, PanelHolds, PanelUp, EngineRuns
<1>2. CASE Prepare
  BY <1>2, ClkPanel DEF Prepare, Shape, Positions, DispHolds, PanelHolds, PanelUp, EngineRuns
<1>3. CASE HostOn
  BY <1>3, ClkPanel DEF HostOn, Shape, Positions, DispHolds, PanelHolds, PanelUp, EngineRuns
<1>4. CASE HostFails
  BY <1>4, ClkPanel DEF HostFails, Shape, Positions, DispHolds, PanelHolds, PanelUp, EngineRuns
<1>5. CASE Unwind
  BY <1>5, ClkPanel DEF Unwind, Shape, Positions, DispHolds, PanelHolds, PanelUp, EngineRuns
<1>6. CASE Enable
  BY <1>6, ClkPanel DEF Enable, Shape, Positions, DispHolds, PanelHolds, PanelUp, EngineRuns
<1>7. CASE PanelOn
  BY <1>7, ClkPanel DEF PanelOn, Shape, Positions, DispHolds, PanelHolds, PanelUp, EngineRuns
<1>8. CASE PanelOnDone
  BY <1>8 DEF PanelOnDone, Shape, Positions, DispHolds, PanelHolds, PanelUp, EngineRuns
<1>9. CASE EngineOn
  BY <1>9 DEF EngineOn, CmdEngineOn, clkvars, Shape, Positions, DispHolds, PanelHolds, PanelUp,
     EngineRuns
<1>10. CASE PostEnable
  BY <1>10, ClkPanel DEF PostEnable, Shape, Positions, DispHolds, PanelHolds, PanelUp, EngineRuns
<1> QED
  BY <1>1, <1>2, <1>3, <1>4, <1>5, <1>6, <1>7, <1>8, <1>9, <1>10

\* ... by a kickoff and the forced update it may call for,
LEMMA KickoffShape ==
    ASSUME Shape, MdpVote \/ Update \/ UpdateLock \/ UpdateFlush \/ Toggle
    PROVE  Shape'
<1>1. CASE MdpVote
  BY <1>1, ClkPanel DEF MdpVote, hostvars, Shape
<1>2. CASE Update
  BY <1>2, ClkPanel DEF Update, Shape, Positions, DispHolds, PanelHolds, PanelUp, EngineRuns
<1>3. CASE UpdateLock
  BY <1>3, ClkPanel DEF UpdateLock, Shape, Positions, DispHolds, PanelHolds, PanelUp, EngineRuns
<1>4. CASE UpdateFlush
  BY <1>4, ClkPanel DEF UpdateFlush, Shape, Positions, DispHolds, PanelHolds, PanelUp, EngineRuns
<1>5. CASE Toggle
  BY <1>5, ClkPanel DEF Toggle, ForceUpdate, Shape, Positions, DispHolds, PanelHolds, PanelUp,
     EngineRuns
<1> QED
  BY <1>1, <1>2, <1>3, <1>4, <1>5

\* ... and by disable.
LEMMA OffShape ==
    ASSUME Shape, PreDisable \/ MdpOff \/ Disable \/ EngineOff \/ PanelOff \/ PanelOffDone
                  \/ Unprepare \/ HostDisable \/ UnprepareLink \/ UnprepareCore
    PROVE  Shape'
<1>1. CASE PreDisable
  BY <1>1, ClkPanel DEF PreDisable, Shape, Positions, DispHolds, PanelHolds, PanelUp, EngineRuns
<1>2. CASE MdpOff
  BY <1>2, ClkPanel DEF MdpOff, Shape, Positions, DispHolds, PanelHolds, PanelUp, EngineRuns
<1>3. CASE Disable
  BY <1>3, ClkPanel DEF Disable, Shape, Positions, DispHolds, PanelHolds, PanelUp, EngineRuns
<1>4. CASE EngineOff
  BY <1>4 DEF EngineOff, CmdEngineOff, clkvars, Shape, Positions, DispHolds, PanelHolds, PanelUp
<1>5. CASE PanelOff
  BY <1>5, ClkPanel DEF PanelOff, Shape, Positions, DispHolds, PanelHolds, PanelUp
<1>6. CASE PanelOffDone
  BY <1>6 DEF PanelOffDone, Shape, Positions, DispHolds, PanelHolds
<1>7. CASE Unprepare
  BY <1>7, ClkPanel DEF Unprepare, Shape, Positions, DispHolds, PanelHolds, PanelUp, EngineRuns
<1>8. CASE HostDisable
  BY <1>8, ClkPanel DEF HostDisable, Shape, Positions, DispHolds, PanelHolds, PanelUp, EngineRuns
<1>9. CASE UnprepareLink
  BY <1>9, ClkPanel DEF UnprepareLink, Shape, Positions, DispHolds, PanelHolds, PanelUp,
     EngineRuns
<1>10. CASE UnprepareCore
  BY <1>10, ClkPanel DEF UnprepareCore, Shape, Positions, DispHolds, PanelHolds, PanelUp,
     EngineRuns
<1> QED
  BY <1>1, <1>2, <1>3, <1>4, <1>5, <1>6, <1>7, <1>8, <1>9, <1>10

\* Votes of the DSI client besides those of the display thread.
Claims == Flag(tx \in {"flush", "wait", "clean"}) + Flag(work # "none")
          + Flag(plock = "esd") + Flag(dlock = "err")

\* Whatever failed, no vote for the link is without one for the core, and nobody's vote
\* for the link was given away while the panel is up.
Paired ==
    /\ core["mdp"] = link["mdp"]
    /\ d \in {"hostinit", "unwind"} => core["dsi"] > link["dsi"]
    /\ d = "ucore" => link["dsi"] = 0 \/ core["dsi"] > link["dsi"]
    /\ d = "hostinit" => hw.mcore = "ON" \/ core["dsi"] >= 2
    /\ link["dsi"] >= Claims + IF "init" \in panel \/ d \in {"enable", "panelon", "oncmd"}
                              THEN DispVote.link ELSE 0

\* What the controller is at each position, and the engine references.
CtlOf == CASE d \in {"off", "prepare", "hostinit"} -> {}
           [] d \in {"ulink", "ucore"} -> {"init"}
           [] d \in EngineRuns /\ conf.mode = "vid" -> {"init", "host", "vid"}
           [] OTHER -> {"init", "host"}
EngOf == Flag(d \in EngineRuns /\ conf.mode = "cmd") + Flag(tx = "wait")
         + Flag(work \in {"queued", "running"})

\* Until a clock fails nothing else does, and every vote is accounted for.
Quiet ==
    /\ failed = {} /\ tx # "fail" /\ d # "unwind"
    /\ ctl = CtlOf /\ eng = EngOf
    /\ core["dsi"] = DispVote.core + Claims
    /\ link["dsi"] = DispVote.link + Claims

\* However often a clock failed, no vote for the link is without one for the core either,
\* until dsi_display_prepare fails and keeps its link vote.
Held ==
    /\ core["mdp"] = link["mdp"]
    /\ d \in {"hostinit", "unwind"} => core["dsi"] > link["dsi"]
    /\ d = "ucore" => link["dsi"] = 0 \/ core["dsi"] > link["dsi"]

HInv ==
    /\ faults \in Nat /\ broken \subseteq {"link", "toggle"} /\ (faults = 0 => Safe)
    /\ Shape
    /\ "kept" \notin failed => OInv /\ Held
    /\ Safe => IInv /\ Paired
    /\ faults = 0 => Quiet

\* A request for all clocks, as far as the display is concerned.
LEMMA OnAll ==
    ASSUME IInv, Safe', NEW c \in Client, NEW rc, ClkOn(c, All, rc)
    PROVE  /\ IInv'
           /\ core'[c] = core[c] + 1 /\ link'[c] = link[c] + 1
           /\ \A x \in Client \ {c} : core'[x] = core[x] /\ link'[x] = link[x]
           /\ faults' = 0 => faults = 0 /\ rc = "ok"
<1>1. TypeOK /\ All \in Domains /\ \A x \in Client : link[x] <= core[x]
  BY DEF IInv, All, Domains
<1>2. /\ core'[c] = core[c] + 1 /\ link'[c] = link[c] + 1
      /\ \A x \in Client \ {c} : core'[x] = core[x] /\ link'[x] = link[x]
  BY <1>1, OnVotes DEF All
<1>3. IInv'
  <2>1. \A x \in Client : link'[x] <= core'[x]
    BY <1>1, <1>2 DEF TypeOK
  <2> QED
    BY <1>1, <2>1, OnKeeps
<1>4. faults' = 0 => faults = 0
  BY <1>1, RetryFails DEF ClkOn, TypeOK, Well
<1>5. faults' = 0 => rc = "ok"
  BY <1>3 DEF IInv, ClkOn, Missed
<1> QED
  BY <1>2, <1>3, <1>4, <1>5

\* A release of all clocks.
LEMMA OffAll ==
    ASSUME IInv, Safe', NEW c \in Client, ClkOff(c, All)
    PROVE  /\ IInv'
           /\ core'[c] = IF core[c] > 0 THEN core[c] - 1 ELSE core[c]
           /\ link'[c] = IF link[c] > 0 THEN link[c] - 1 ELSE link[c]
           /\ \A x \in Client \ {c} : core'[x] = core[x] /\ link'[x] = link[x]
           /\ faults' = 0 => faults = 0
<1>1. TypeOK /\ All \in Domains /\ \A x \in Client : link[x] <= core[x]
  BY DEF IInv, All, Domains
<1>2. /\ core'[c] = IF core[c] > 0 THEN core[c] - 1 ELSE core[c]
      /\ link'[c] = IF link[c] > 0 THEN link[c] - 1 ELSE link[c]
      /\ \A x \in Client \ {c} : core'[x] = core[x] /\ link'[x] = link[x]
  BY <1>1, OffVotes DEF All
<1>3. IInv'
  <2>1. \A x \in Client : link'[x] <= core'[x]
    BY <1>1, <1>2 DEF TypeOK
  <2> QED
    BY <1>1, <2>1, OffKeeps
<1>4. faults' = 0 => faults = 0
  BY <1>1, RetryFails DEF ClkOff, TypeOK, Well
<1> QED
  BY <1>2, <1>3, <1>4

\* A request for one of the domains.
LEMMA OnPart ==
    ASSUME IInv, Safe', NEW c \in Client, NEW T \in Domains, NEW rc, ClkOn(c, T, rc),
           T = {"link"} => link[c] < core[c]
    PROVE  /\ IInv'
           /\ core'[c] = IF "core" \in T THEN core[c] + 1 ELSE core[c]
           /\ link'[c] = IF "link" \in T THEN link[c] + 1 ELSE link[c]
           /\ \A x \in Client \ {c} : core'[x] = core[x] /\ link'[x] = link[x]
           /\ faults' = 0 => faults = 0 /\ rc = "ok"
           /\ hw.mcore = "ON" => hw'.mcore = "ON"
<1>1. TypeOK /\ \A x \in Client : link[x] <= core[x]
  BY DEF IInv
<1>2. /\ core'[c] = IF "core" \in T THEN core[c] + 1 ELSE core[c]
      /\ link'[c] = IF "link" \in T THEN link[c] + 1 ELSE link[c]
      /\ \A x \in Client \ {c} : core'[x] = core[x] /\ link'[x] = link[x]
  BY <1>1, OnVotes
<1>3. IInv' /\ (hw.mcore = "ON" => hw'.mcore = "ON")
  <2>1. \A x \in Client : link'[x] <= core'[x]
    BY <1>1, <1>2 DEF TypeOK, Domains
  <2> QED
    BY <2>1, OnKeeps
<1>4. faults' = 0 => faults = 0
  BY <1>1, RetryFails DEF ClkOn, TypeOK, Well
<1>5. faults' = 0 => rc = "ok"
  BY <1>3 DEF IInv, ClkOn, Missed
<1> QED
  BY <1>2, <1>3, <1>4, <1>5

\* A release of some clocks, by a client that then has no link vote without a core vote.
LEMMA OffPart ==
    ASSUME IInv, Safe', NEW c \in Client, NEW T \in Domains, ClkOff(c, T),
           T = {"core"} => link[c] = 0 \/ link[c] < core[c]
    PROVE  /\ IInv'
           /\ core'[c] = IF "core" \in T /\ core[c] > 0 THEN core[c] - 1 ELSE core[c]
           /\ link'[c] = IF "link" \in T /\ link[c] > 0 THEN link[c] - 1 ELSE link[c]
           /\ \A x \in Client \ {c} : core'[x] = core[x] /\ link'[x] = link[x]
           /\ faults' = 0 => faults = 0
<1>1. TypeOK /\ \A x \in Client : link[x] <= core[x]
  BY DEF IInv
<1>2. /\ core'[c] = IF "core" \in T /\ core[c] > 0 THEN core[c] - 1 ELSE core[c]
      /\ link'[c] = IF "link" \in T /\ link[c] > 0 THEN link[c] - 1 ELSE link[c]
      /\ \A x \in Client \ {c} : core'[x] = core[x] /\ link'[x] = link[x]
  BY <1>1, OffVotes
<1>3. IInv'
  <2>0. core[c] \in Nat /\ link[c] \in Nat /\ link[c] <= core[c]
    BY <1>1 DEF TypeOK
  <2>1. link'[c] <= core'[c]
    <3>1. CASE T = {"core"}
      BY <1>2, <2>0, <3>1
    <3>2. CASE T = {"link"}
      BY <1>2, <2>0, <3>2
    <3>3. CASE T = {"core", "link"}
      BY <1>2, <2>0, <3>3
    <3> QED
      BY <3>1, <3>2, <3>3 DEF Domains
  <2>2. \A x \in Client : link'[x] <= core'[x]
    BY <1>1, <1>2, <2>1
  <2> QED
    BY <2>2, OffKeeps
<1>4. faults' = 0 => faults = 0
  BY <1>1, RetryFails DEF ClkOff, TypeOK, Well
<1> QED
  BY <1>2, <1>3, <1>4

\* The panel changes while somebody votes for the link.
LEMMA PanelMoves ==
    ASSUME IInv, UNCHANGED <<conf, core, link, hw, faults, broken>>,
           panel' \in SUBSET {"init", "esd"},
           link["dsi"] > 0 \/ panel' = panel \ {"esd"} \/ panel' = panel
    PROVE  IInv'
<1>1. "dsi" \in Client /\ hw.mcore \in Switch
  BY HostAssumption DEF IInv, TypeOK, Hw
<1>2. link["dsi"] > 0 => hw.mlink = "ON" \/ hw.mcore = "OFF"
  BY <1>1 DEF IInv, Want, Switch
<1> QED
  BY <1>2, PanelKeeps

\* The counts of the two clients are naturals.
LEMMA Counts ==
    ASSUME IInv
    PROVE  /\ "dsi" \in Client /\ "mdp" \in Client
           /\ core["dsi"] \in Nat /\ link["dsi"] \in Nat /\ link["dsi"] <= core["dsi"]
           /\ core["mdp"] \in Nat /\ link["mdp"] \in Nat
           /\ conf.mode \in {"cmd", "vid"} /\ faults \in Nat
BY HostAssumption, ClkAssumption DEF IInv, TypeOK

\* Until the first failure a voted domain is on.
LEMMA VotedIsOn ==
    ASSUME IInv, faults = 0
    PROVE  /\ core["dsi"] > 0 => hw.pwr = "on" /\ hw.mcore = "ON"
           /\ link["dsi"] > 0 => hw.mlink = "ON" /\ hw.hs = 1
BY Counts DEF IInv, HwOrdered, Want

\* A step that asks for no clock.
LEMMA Still ==
    ASSUME IInv, UNCHANGED clkvars
    PROVE  IInv' /\ core' = core /\ link' = link /\ hw' = hw /\ faults' = faults
           /\ conf' = conf /\ panel' = panel
BY DEF clkvars, IInv, TypeOK, HwOrdered, UlpsReqValid

\* A transfer.
LEMMA SenderKeeps ==
    ASSUME HInv, Safe, Safe', Shape', Sender
    PROVE  IInv' /\ Paired' /\ (faults' = 0 => Quiet')
<1>0. IInv /\ Paired /\ Shape /\ (faults = 0 => Quiet)
  BY DEF HInv
<1>1. CASE TxVote
  <2>1. CASE "esd" \in panel
    <3>1. IInv' /\ core' = core /\ link' = link /\ hw' = hw /\ faults' = faults
          /\ conf' = conf /\ panel' = panel
      BY <1>0, <1>1, <2>1, Still DEF TxVote
    <3>2. Paired'
      BY <1>0, <1>1, <2>1, <3>1 DEF TxVote, Paired, Claims, DispVote
    <3>3. ASSUME faults' = 0 PROVE Quiet'
      BY <1>0, <1>1, <2>1, <3>1, <3>3 DEF TxVote, Quiet, CtlOf, EngOf, Claims, DispVote
    <3> QED
      BY <3>1, <3>2, <3>3
  <2>2. CASE "esd" \notin panel
    <3>0. PICK rc \in {"ok", "fail"} :
            ClkOn("dsi", All, rc) /\ tx' = IF rc = "ok" THEN "flush" ELSE "fail"
      BY <1>1, <2>2 DEF TxVote
    <3>1. IInv' /\ core'["dsi"] = core["dsi"] + 1 /\ link'["dsi"] = link["dsi"] + 1
          /\ core'["mdp"] = core["mdp"] /\ link'["mdp"] = link["mdp"]
          /\ (faults' = 0 => faults = 0 /\ rc = "ok") /\ conf' = conf /\ panel' = panel
      BY <1>0, <3>0, OnAll, Counts, ClkPanel
    <3>2. Paired'
      BY <1>0, <1>1, <3>1, Counts DEF TxVote, Paired, Claims, DispVote, Flag, Shape,
         PanelHolds, PanelUp, EngineRuns
    <3>3. ASSUME faults' = 0 PROVE Quiet'
      BY <1>0, <1>1, <3>0, <3>1, <3>3 DEF TxVote, Quiet, CtlOf, EngOf, Claims, DispVote, Flag
    <3> QED
      BY <3>1, <3>2, <3>3
  <2> QED
    BY <2>1, <2>2
<1>2. CASE TxReap
  <2>1. IInv' /\ core'["dsi"] = (IF core["dsi"] > 0 THEN core["dsi"] - 1 ELSE core["dsi"])
        /\ link'["dsi"] = (IF link["dsi"] > 0 THEN link["dsi"] - 1 ELSE link["dsi"])
        /\ core'["mdp"] = core["mdp"] /\ link'["mdp"] = link["mdp"]
        /\ (faults' = 0 => faults = 0) /\ conf' = conf /\ panel' = panel
    BY <1>0, <1>2, OffAll, Counts, ClkPanel DEF TxReap
  <2>2. Paired'
    BY <1>0, <1>2, <2>1, Counts DEF TxReap, Paired, Claims, DispVote, Flag
  <2>3. ASSUME faults' = 0 PROVE Quiet'
    BY <1>0, <1>2, <2>1, <2>3, Counts, VotedIsOn DEF TxReap, Quiet, CtlOf, EngOf, Claims,
       DispVote, Flag, Ready, CmdEngineOff, Shape, PanelUp
  <2> QED
    BY <2>1, <2>2, <2>3
<1>3. CASE TxSend
  <2>1. IInv' /\ core' = core /\ link' = link /\ hw' = hw /\ faults' = faults
        /\ conf' = conf /\ panel' = panel
    BY <1>0, <1>3, Still DEF TxSend
  <2>2. Paired'
    BY <1>0, <1>3, <2>1, Counts DEF TxSend, Paired, Claims, DispVote, Flag
  <2>3. ASSUME faults' = 0 PROVE Quiet'
    BY <1>0, <1>3, <2>1, <2>3 DEF TxSend, Quiet, CtlOf, EngOf, Claims, DispVote, Flag,
       CmdEngineOn, Shape
  <2> QED
    BY <2>1, <2>2, <2>3
<1>4. CASE TxRefused
  <2>1. IInv' /\ core'["dsi"] = (IF core["dsi"] > 0 THEN core["dsi"] - 1 ELSE core["dsi"])
        /\ link'["dsi"] = (IF link["dsi"] > 0 THEN link["dsi"] - 1 ELSE link["dsi"])
        /\ core'["mdp"] = core["mdp"] /\ link'["mdp"] = link["mdp"]
        /\ (faults' = 0 => faults = 0) /\ conf' = conf /\ panel' = panel
    BY <1>0, <1>4, OffAll, Counts, ClkPanel DEF TxRefused
  <2>2. Paired'
    BY <1>0, <1>4, <2>1, Counts DEF TxRefused, Paired, Claims, DispVote, Flag, Shape,
       PanelHolds, PanelUp, EngineRuns
  <2>3. ASSUME faults' = 0 PROVE Quiet'
    BY <1>0, <1>4, <2>1, <2>3, Counts, VotedIsOn DEF TxRefused, Quiet, CtlOf, EngOf, Claims,
       DispVote, Flag, Ready, Shape, PanelHolds, PanelUp
  <2> QED
    BY <2>1, <2>2, <2>3
<1>5. CASE TxDone
  <2>1. IInv' /\ core' = core /\ link' = link /\ hw' = hw /\ faults' = faults
        /\ conf' = conf /\ panel' = panel
    BY <1>0, <1>5, Still DEF TxDone
  <2>2. Paired'
    BY <1>0, <1>5, <2>1 DEF TxDone, Paired, Claims, DispVote
  <2>3. ASSUME faults' = 0 PROVE Quiet'
    BY <1>0, <1>5, <2>1, <2>3, Counts, VotedIsOn DEF TxDone, Quiet, CtlOf, EngOf, Claims,
       DispVote, Flag, Ready, CmdEngineOff, Shape, PanelHolds, PanelUp
  <2> QED
    BY <2>1, <2>2, <2>3
<1>6. CASE TxClean
  <2>1. IInv' /\ core'["dsi"] = (IF core["dsi"] > 0 THEN core["dsi"] - 1 ELSE core["dsi"])
        /\ link'["dsi"] = (IF link["dsi"] > 0 THEN link["dsi"] - 1 ELSE link["dsi"])
        /\ core'["mdp"] = core["mdp"] /\ link'["mdp"] = link["mdp"]
        /\ (faults' = 0 => faults = 0) /\ conf' = conf /\ panel' = panel
    BY <1>0, <1>6, OffAll, Counts, ClkPanel DEF TxClean
  <2>2. Paired'
    BY <1>0, <1>6, <2>1, Counts DEF TxClean, Paired, Claims, DispVote, Flag, Shape, PanelHolds,
       PanelUp, EngineRuns
  <2>3. ASSUME faults' = 0 PROVE Quiet'
    BY <1>0, <1>6, <2>1, <2>3 DEF TxClean, Quiet, CtlOf, EngOf, Claims, DispVote, Flag
  <2> QED
    BY <2>1, <2>2, <2>3
<1> QED
  BY <1>1, <1>2, <1>3, <1>4, <1>5, <1>6 DEF Sender

\* The end of a command.
LEMMA WorkKeeps ==
    ASSUME HInv, Safe, Safe', Shape', DmaDone \/ DmaTimeout \/ Work
    PROVE  IInv' /\ Paired' /\ (faults' = 0 => Quiet')
<1>0. IInv /\ Paired /\ Shape /\ (faults = 0 => Quiet)
  BY DEF HInv
<1>1. CASE DmaDone
  <2>1. IInv' /\ core' = core /\ link' = link /\ hw' = hw /\ faults' = faults
        /\ conf' = conf /\ panel' = panel
    BY <1>0, <1>1, Still DEF DmaDone
  <2>2. Paired'
    BY <1>0, <1>1, <2>1 DEF DmaDone, Paired, Claims, DispVote
  <2>3. ASSUME faults' = 0 PROVE Quiet'
    BY <1>0, <1>1, <2>1, <2>3 DEF DmaDone, Quiet, CtlOf, EngOf, Claims, DispVote
  <2> QED
    BY <2>1, <2>2, <2>3
<1>2. CASE DmaTimeout
  <2>1. IInv' /\ core' = core /\ link' = link /\ hw' = hw /\ faults' = faults
        /\ conf' = conf /\ panel' = panel
    BY <1>0, <1>2, Still DEF DmaTimeout
  <2>2. Paired'
    BY <1>0, <1>2, <2>1 DEF DmaTimeout, Paired, Claims, DispVote
  <2>3. ASSUME faults' = 0 PROVE Quiet'
    BY <1>0, <1>2, <2>1, <2>3 DEF DmaTimeout, Quiet, CtlOf, EngOf, Claims, DispVote
  <2> QED
    BY <2>1, <2>2, <2>3
<1>3. CASE WorkStart
  <2>1. IInv' /\ core' = core /\ link' = link /\ hw' = hw /\ faults' = faults
        /\ conf' = conf /\ panel' = panel
    BY <1>0, <1>3, Still DEF WorkStart
  <2>2. Paired'
    BY <1>0, <1>3, <2>1 DEF WorkStart, Paired, Claims, DispVote
  <2>3. ASSUME faults' = 0 PROVE Quiet'
    BY <1>0, <1>3, <2>1, <2>3 DEF WorkStart, Quiet, CtlOf, EngOf, Claims, DispVote
  <2> QED
    BY <2>1, <2>2, <2>3
<1>4. CASE WorkDone
  <2>1. IInv' /\ core' = core /\ link' = link /\ hw' = hw /\ faults' = faults
        /\ conf' = conf /\ panel' = panel
    BY <1>0, <1>4, Still DEF WorkDone
  <2>2. Paired'
    BY <1>0, <1>4, <2>1 DEF WorkDone, Paired, Claims, DispVote
  <2>3. ASSUME faults' = 0 PROVE Quiet'
    BY <1>0, <1>4, <2>1, <2>3, Counts, VotedIsOn DEF WorkDone, Quiet, CtlOf, EngOf, Claims,
       DispVote, Flag, Ready, CmdEngineOff, Shape, PanelUp
  <2> QED
    BY <2>1, <2>2, <2>3
<1>5. CASE WorkEnd
  <2>1. IInv' /\ core'["dsi"] = (IF core["dsi"] > 0 THEN core["dsi"] - 1 ELSE core["dsi"])
        /\ link'["dsi"] = (IF link["dsi"] > 0 THEN link["dsi"] - 1 ELSE link["dsi"])
        /\ core'["mdp"] = core["mdp"] /\ link'["mdp"] = link["mdp"]
        /\ (faults' = 0 => faults = 0) /\ conf' = conf /\ panel' = panel
    BY <1>0, <1>5, OffAll, Counts, ClkPanel DEF WorkEnd
  <2>2. Paired'
    BY <1>0, <1>5, <2>1, Counts DEF WorkEnd, Paired, Claims, DispVote, Flag, Shape, PanelUp,
       EngineRuns
  <2>3. ASSUME faults' = 0 PROVE Quiet'
    BY <1>0, <1>5, <2>1, <2>3 DEF WorkEnd, Quiet, CtlOf, EngOf, Claims, DispVote, Flag
  <2> QED
    BY <2>1, <2>2, <2>3
<1> QED
  BY <1>1, <1>2, <1>3, <1>4, <1>5 DEF Work
\* The other users of the display.
LEMMA OthersKeep ==
    ASSUME HInv, Safe, Safe', Shape', Others
    PROVE  IInv' /\ Paired' /\ (faults' = 0 => Quiet')
<1>0. IInv /\ Paired /\ Shape /\ (faults = 0 => Quiet)
  BY DEF HInv
<1>1. CASE BlStart
  <2>1. IInv' /\ core' = core /\ link' = link /\ hw' = hw /\ faults' = faults
        /\ conf' = conf /\ panel' = panel
    BY <1>0, <1>1, Still DEF BlStart
  <2>2. Paired'
    BY <1>0, <1>1, <2>1, Counts DEF BlStart, Paired, Claims, DispVote, Flag
  <2>3. ASSUME faults' = 0 PROVE Quiet'
    BY <1>0, <1>1, <2>1, <2>3 DEF BlStart, Quiet, CtlOf, EngOf, Claims, DispVote, Shape
  <2> QED
    BY <2>1, <2>2, <2>3
<1>2. CASE BlEnd
  <2>1. IInv' /\ core' = core /\ link' = link /\ hw' = hw /\ faults' = faults
        /\ conf' = conf /\ panel' = panel
    BY <1>0, <1>2, Still DEF BlEnd
  <2>2. Paired'
    BY <1>0, <1>2, <2>1 DEF BlEnd, Paired, Claims, DispVote
  <2>3. ASSUME faults' = 0 PROVE Quiet'
    BY <1>0, <1>2, <2>1, <2>3 DEF BlEnd, Quiet, CtlOf, EngOf, Claims, DispVote
  <2> QED
    BY <2>1, <2>2, <2>3
<1>3. CASE EsdStart
  <2>0. PICK rc \in {"ok", "fail"} : ClkOn("dsi", All, rc)
    BY <1>3 DEF EsdStart
  <2>1. IInv' /\ core'["dsi"] = core["dsi"] + 1 /\ link'["dsi"] = link["dsi"] + 1
        /\ core'["mdp"] = core["mdp"] /\ link'["mdp"] = link["mdp"]
        /\ (faults' = 0 => faults = 0 /\ rc = "ok") /\ conf' = conf /\ panel' = panel
    BY <1>0, <2>0, OnAll, Counts, ClkPanel
  <2>2. Paired'
    BY <1>0, <1>3, <2>1, Counts DEF EsdStart, Paired, Claims, DispVote, Flag, Shape, PanelUp,
       EngineRuns
  <2>3. ASSUME faults' = 0 PROVE Quiet'
    BY <1>0, <1>3, <2>1, <2>3 DEF EsdStart, Quiet, CtlOf, EngOf, Claims, DispVote, Flag, Shape
  <2> QED
    BY <2>1, <2>2, <2>3
<1>4. CASE EsdResult
  <2>1. /\ core' = core /\ link' = link /\ hw' = hw /\ faults' = faults
        /\ broken' = broken /\ conf' = conf
    BY <1>4 DEF EsdResult
  <2>2. /\ panel' \in SUBSET {"init", "esd"}
        /\ link["dsi"] > 0 \/ panel' = panel \ {"esd"} \/ panel' = panel
    BY <1>0, <1>4, Counts DEF EsdResult, Paired, Claims, DispVote, Flag, Shape
  <2>3. IInv'
    BY <1>0, <2>1, <2>2, PanelMoves
  <2>4. Paired'
    BY <1>0, <1>4 DEF EsdResult, Paired, Claims, DispVote
  <2>5. ASSUME faults' = 0 PROVE Quiet'
    BY <1>0, <1>4, <2>5 DEF EsdResult, Quiet, CtlOf, EngOf, Claims, DispVote
  <2> QED
    BY <2>3, <2>4, <2>5
<1>5. CASE EsdEnd
  <2>1. IInv' /\ core'["dsi"] = (IF core["dsi"] > 0 THEN core["dsi"] - 1 ELSE core["dsi"])
        /\ link'["dsi"] = (IF link["dsi"] > 0 THEN link["dsi"] - 1 ELSE link["dsi"])
        /\ core'["mdp"] = core["mdp"] /\ link'["mdp"] = link["mdp"]
        /\ (faults' = 0 => faults = 0) /\ conf' = conf /\ panel' = panel
    BY <1>0, <1>5, OffAll, Counts, ClkPanel DEF EsdEnd
  <2>2. Paired'
    BY <1>0, <1>5, <2>1, Counts DEF EsdEnd, Paired, Claims, DispVote, Flag, Shape, PanelUp,
       EngineRuns
  <2>3. ASSUME faults' = 0 PROVE Quiet'
    BY <1>0, <1>5, <2>1, <2>3 DEF EsdEnd, Quiet, CtlOf, EngOf, Claims, DispVote, Flag, Shape
  <2> QED
    BY <2>1, <2>2, <2>3
<1>6. CASE ErrStart
  <2>0. PICK rc \in {"ok", "fail"} : ClkOn("dsi", All, rc)
    BY <1>6 DEF ErrStart
  <2>1. IInv' /\ core'["dsi"] = core["dsi"] + 1 /\ link'["dsi"] = link["dsi"] + 1
        /\ core'["mdp"] = core["mdp"] /\ link'["mdp"] = link["mdp"]
        /\ (faults' = 0 => faults = 0 /\ rc = "ok") /\ conf' = conf /\ panel' = panel
    BY <1>0, <2>0, OnAll, Counts, ClkPanel
  <2>2. Paired'
    BY <1>0, <1>6, <2>1, Counts DEF ErrStart, Paired, Claims, DispVote, Flag, Shape, DispHolds
  <2>3. ASSUME faults' = 0 PROVE Quiet'
    BY <1>0, <1>6, <2>1, <2>3 DEF ErrStart, Quiet, CtlOf, EngOf, Claims, DispVote, Flag
  <2> QED
    BY <2>1, <2>2, <2>3
<1>7. CASE ErrEnd
  <2>1. IInv' /\ core'["dsi"] = (IF core["dsi"] > 0 THEN core["dsi"] - 1 ELSE core["dsi"])
        /\ link'["dsi"] = (IF link["dsi"] > 0 THEN link["dsi"] - 1 ELSE link["dsi"])
        /\ core'["mdp"] = core["mdp"] /\ link'["mdp"] = link["mdp"]
        /\ (faults' = 0 => faults = 0) /\ conf' = conf /\ panel' = panel
    BY <1>0, <1>7, OffAll, Counts, ClkPanel DEF ErrEnd
  <2>2. Paired'
    BY <1>0, <1>7, <2>1, Counts DEF ErrEnd, Paired, Claims, DispVote, Flag, Shape, DispHolds
  <2>3. ASSUME faults' = 0 PROVE Quiet'
    BY <1>0, <1>7, <2>1, <2>3 DEF ErrEnd, Quiet, CtlOf, EngOf, Claims, DispVote, Flag
  <2> QED
    BY <2>1, <2>2, <2>3
<1> QED
  BY <1>1, <1>2, <1>3, <1>4, <1>5, <1>6, <1>7 DEF Others

\* The display goes on.
LEMMA OnKeep ==
    ASSUME HInv, Safe, Safe', Shape', PreEnable \/ GoingOn
    PROVE  IInv' /\ Paired' /\ (faults' = 0 => Quiet')
<1>0. IInv /\ Paired /\ Shape /\ (faults = 0 => Quiet)
  BY DEF HInv
<1>1. CASE PreEnable
  <2>1. /\ core' = core /\ link' = link /\ hw' = hw /\ faults' = faults
        /\ broken' = broken /\ conf' = conf
    BY <1>1 DEF PreEnable
  <2>2. /\ panel' \in SUBSET {"init", "esd"}
        /\ link["dsi"] > 0 \/ panel' = panel \ {"esd"} \/ panel' = panel
    BY <1>1 DEF PreEnable, Shape
  <2>3. IInv'
    BY <1>0, <2>1, <2>2, PanelMoves
  <2>4. Paired'
    BY <1>0, <1>1 DEF PreEnable, Paired, Claims, DispVote
  <2>5. ASSUME faults' = 0 PROVE Quiet'
    BY <1>0, <1>1, <2>5 DEF PreEnable, Quiet, CtlOf, EngOf, Claims, DispVote, EngineRuns
  <2> QED
    BY <2>3, <2>4, <2>5
<1>2. CASE Prepare
  <2>0. PICK rc \in {"ok", "fail"} :
            /\ ClkOn("dsi", {"core"}, rc)
            /\ d' = IF rc = "ok" THEN "hostinit" ELSE "postenable"
    BY <1>2 DEF Prepare
  <2>1. "core" \in {"core"} /\ "link" \notin {"core"} /\ {"core"} \in Domains
    BY DEF Domains
  <2>3. IInv' /\ (faults' = 0 => faults = 0 /\ rc = "ok") /\ (hw.mcore = "ON" => hw'.mcore = "ON")
        /\ core'["dsi"] = core["dsi"] + 1 /\ link'["dsi"] = link["dsi"]
        /\ core'["mdp"] = core["mdp"] /\ link'["mdp"] = link["mdp"]
        /\ conf' = conf /\ panel' = panel
    BY <1>0, <2>0, <2>1, OnPart, Counts, ClkPanel
  <2>4. rc = "ok" => hw'.mcore = "ON" \/ core'["dsi"] >= 2
    <3>1. core["dsi"] = 0 /\ rc = "ok" => ~Missed'
      BY <2>0 DEF ClkOn
    <3>2. core' \in [Client -> Nat] /\ hw'.mcore \in Switch
      BY <2>3 DEF IInv, TypeOK, Hw
    <3>3. core["dsi"] = 0 => Want(core)' = "ON"
      BY <1>0, <2>3, Counts DEF Want
    <3>4. core["dsi"] = 0 /\ rc = "ok" => hw'.mcore = "ON"
      BY <3>1, <3>2, <3>3 DEF Missed, Switch
    <3> QED
      BY <1>0, <2>3, <3>4, Counts
  <2>5. Paired'
    BY <1>0, <1>2, <2>0, <2>3, <2>4, Counts DEF Prepare, Paired, Claims, Shape, PanelUp,
       EngineRuns
  <2>6. ASSUME faults' = 0 PROVE Quiet'
    BY <1>0, <1>2, <2>0, <2>3, <2>6 DEF Prepare, Quiet, CtlOf, EngOf, Claims, DispVote, Flag,
       EngineRuns
  <2> QED
    BY <2>3, <2>5, <2>6
<1>3. CASE HostOn
  <2>0. PICK rc \in {"ok", "fail"} :
            /\ ClkOn("dsi", {"link"}, rc)
            /\ d' = IF rc = "ok" THEN "enable" ELSE "unwind"
            /\ rc = "ok" => ctl' = ctl \cup {"init", "host"} /\ failed' = failed
    BY <1>3 DEF HostOn
  <2>1. "link" \in {"link"} /\ "core" \notin {"link"} /\ {"link"} \in Domains
    BY DEF Domains
  <2>2. link["dsi"] < core["dsi"]
    BY <1>0, <1>3 DEF HostOn, Paired
  <2>3. IInv' /\ (faults' = 0 => faults = 0 /\ rc = "ok") /\ (hw.mcore = "ON" => hw'.mcore = "ON")
        /\ core'["dsi"] = core["dsi"] /\ link'["dsi"] = link["dsi"] + 1
        /\ core'["mdp"] = core["mdp"] /\ link'["mdp"] = link["mdp"]
        /\ conf' = conf /\ panel' = panel
    BY <1>0, <2>0, <2>1, <2>2, OnPart, Counts, ClkPanel
  <2>4. link["dsi"] > 0 \/ hw.mcore = "ON" => rc = "ok"
    <3>2. hw.mcore = "ON" => ~Missed'
      <4> QED
        BY <2>3 DEF IInv, Missed
    <3> QED
      BY <2>0, <3>2 DEF ClkOn
  <2>5. Paired'
    BY <1>0, <1>3, <2>0, <2>3, <2>4, Counts DEF HostOn, Paired, Claims, DispVote, Flag
  <2>6. ASSUME faults' = 0 PROVE Quiet'
    BY <1>0, <1>3, <2>0, <2>3, <2>6 DEF HostOn, Quiet, CtlOf, EngOf, Claims, DispVote, Flag,
       Shape, DispHolds, EngineRuns
  <2> QED
    BY <2>3, <2>5, <2>6
<1>4. CASE HostFails
  <2>1. IInv' /\ core' = core /\ link' = link /\ hw' = hw /\ faults' = faults
        /\ conf' = conf /\ panel' = panel
    BY <1>0, <1>4, Still DEF HostFails
  <2>2. Paired'
    BY <1>0, <1>4, <2>1 DEF HostFails, Paired, Claims, Shape, PanelUp, EngineRuns
  <2>3. ASSUME faults' = 0 PROVE Quiet'
    BY <1>0, <1>4, <2>1, <2>3, VotedIsOn DEF HostFails, Quiet, CtlOf, Claims, DispVote, Flag,
       EngineRuns
  <2> QED
    BY <2>1, <2>2, <2>3
<1>5. CASE Unwind
  <2>1. "core" \in {"core"} /\ "link" \notin {"core"} /\ {"core"} \in Domains
    BY DEF Domains
  <2>2. link["dsi"] = 0 \/ link["dsi"] < core["dsi"]
    BY <1>0, <1>5 DEF Unwind, Paired
  <2>3. IInv' /\ (faults' = 0 => faults = 0)
        /\ core'["dsi"] = (IF core["dsi"] > 0 THEN core["dsi"] - 1 ELSE core["dsi"])
        /\ link'["dsi"] = link["dsi"]
        /\ core'["mdp"] = core["mdp"] /\ link'["mdp"] = link["mdp"]
        /\ conf' = conf /\ panel' = panel
    BY <1>0, <1>5, <2>1, <2>2, OffPart, Counts, ClkPanel DEF Unwind
  <2>5. Paired'
    BY <1>0, <1>5, <2>3, Counts DEF Unwind, Paired, Claims, DispVote, Flag
  <2>6. ASSUME faults' = 0 PROVE Quiet'
    BY <1>0, <1>5, <2>3, <2>6 DEF Unwind, Quiet
  <2> QED
    BY <2>3, <2>5, <2>6
<1>6. CASE Enable
  <2>1. IInv' /\ core' = core /\ link' = link /\ hw' = hw /\ faults' = faults
        /\ conf' = conf /\ panel' = panel
    BY <1>0, <1>6, Still DEF Enable
  <2>2. Paired'
    BY <1>0, <1>6, <2>1 DEF Enable, Paired, Claims, DispVote
  <2>3. ASSUME faults' = 0 PROVE Quiet'
    BY <1>0, <1>6, <2>1, <2>3 DEF Enable, Quiet, CtlOf, EngOf, Claims, DispVote, EngineRuns
  <2> QED
    BY <2>1, <2>2, <2>3
<1>7. CASE PanelOn
  <2>1. IInv' /\ core' = core /\ link' = link /\ hw' = hw /\ faults' = faults
        /\ conf' = conf /\ panel' = panel
    BY <1>0, <1>7, Still DEF PanelOn
  <2>2. Paired'
    BY <1>0, <1>7, <2>1, Counts DEF PanelOn, Paired, Claims, DispVote, Flag
  <2>3. ASSUME faults' = 0 PROVE Quiet'
    BY <1>0, <1>7, <2>1, <2>3 DEF PanelOn, Quiet, CtlOf, EngOf, Claims, DispVote, Shape,
       EngineRuns
  <2> QED
    BY <2>1, <2>2, <2>3
<1>8. CASE PanelOnDone
  <2>1. /\ core' = core /\ link' = link /\ hw' = hw /\ faults' = faults
        /\ broken' = broken /\ conf' = conf
    BY <1>8 DEF PanelOnDone
  <2>2. /\ panel' \in SUBSET {"init", "esd"}
        /\ link["dsi"] > 0 \/ panel' = panel \ {"esd"} \/ panel' = panel
    BY <1>0, <1>8, Counts DEF PanelOnDone, Paired, Claims, DispVote, Flag, Shape
  <2>3. IInv'
    BY <1>0, <2>1, <2>2, PanelMoves
  <2>4. Paired'
    BY <1>0, <1>8, Counts DEF PanelOnDone, Paired, Claims, DispVote, Flag
  <2>5. ASSUME faults' = 0 PROVE Quiet'
    BY <1>0, <1>8, <2>5 DEF PanelOnDone, Quiet, CtlOf, EngOf, Claims, DispVote, Shape,
       PanelHolds, EngineRuns
  <2> QED
    BY <2>3, <2>4, <2>5
<1>9. CASE EngineOn
  <2>1. IInv' /\ core' = core /\ link' = link /\ hw' = hw /\ faults' = faults
        /\ conf' = conf /\ panel' = panel
    BY <1>0, <1>9, Still DEF EngineOn
  <2>2. Paired'
    BY <1>0, <1>9, <2>1, Counts DEF EngineOn, Paired, Claims, DispVote, Flag
  <2>3. ASSUME faults' = 0 PROVE Quiet'
    BY <1>0, <1>9, <2>1, <2>3, Counts DEF EngineOn, Quiet, CtlOf, EngOf, Claims, DispVote,
       Flag, CmdEngineOn, Shape, DispHolds, EngineRuns
  <2> QED
    BY <2>1, <2>2, <2>3
<1>10. CASE PostEnable
  <2>1. CASE conf.mode = "cmd"
    <3>1. IInv' /\ core'["dsi"] = (IF core["dsi"] > 0 THEN core["dsi"] - 1 ELSE core["dsi"])
          /\ link'["dsi"] = (IF link["dsi"] > 0 THEN link["dsi"] - 1 ELSE link["dsi"])
          /\ core'["mdp"] = core["mdp"] /\ link'["mdp"] = link["mdp"]
          /\ (faults' = 0 => faults = 0) /\ conf' = conf /\ panel' = panel
      BY <1>0, <1>10, <2>1, OffAll, Counts, ClkPanel DEF PostEnable
    <3>2. Paired'
      BY <1>0, <1>10, <2>1, <3>1, Counts DEF PostEnable, Paired, Claims, DispVote, Flag, Shape,
         PanelHolds
    <3>3. ASSUME faults' = 0 PROVE Quiet'
      BY <1>0, <1>10, <2>1, <3>1, <3>3 DEF PostEnable, Quiet, CtlOf, EngOf, Claims, DispVote,
         Flag, Shape, Positions, PanelUp
    <3> QED
      BY <3>1, <3>2, <3>3
  <2>2. CASE conf.mode # "cmd"
    <3>1. IInv' /\ core' = core /\ link' = link /\ hw' = hw /\ faults' = faults
          /\ conf' = conf /\ panel' = panel
      BY <1>0, <1>10, <2>2, Still DEF PostEnable
    <3>2. Paired'
      BY <1>0, <1>10, <2>2, <3>1 DEF PostEnable, Paired, Claims, DispVote
    <3>3. ASSUME faults' = 0 PROVE Quiet'
      BY <1>0, <1>10, <2>2, <3>1, <3>3 DEF PostEnable, Quiet, CtlOf, EngOf, Claims, DispVote,
         Shape, Positions, PanelUp
    <3> QED
      BY <3>1, <3>2, <3>3
  <2> QED
    BY <2>1, <2>2
<1> QED
  BY <1>1, <1>2, <1>3, <1>4, <1>5, <1>6, <1>7, <1>8, <1>9, <1>10 DEF GoingOn

\* The panel is on.
LEMMA UpKeeps ==
    ASSUME HInv, Safe, Safe', Shape', MdpVote \/ Update \/ UpdateLock \/ UpdateFlush \/ Toggle
    PROVE  IInv' /\ Paired' /\ (faults' = 0 => Quiet')
<1>0. IInv /\ Paired /\ Shape /\ (faults = 0 => Quiet)
  BY DEF HInv
<1>1. CASE MdpVote
  <2>1. CASE core["mdp"] = 0
    <3>0. PICK rc \in {"ok", "fail"} : ClkOn("mdp", All, rc)
      BY <1>1, <2>1 DEF MdpVote
    <3>1. IInv' /\ core'["mdp"] = core["mdp"] + 1 /\ link'["mdp"] = link["mdp"] + 1
          /\ core'["dsi"] = core["dsi"] /\ link'["dsi"] = link["dsi"]
          /\ (faults' = 0 => faults = 0 /\ rc = "ok") /\ conf' = conf /\ panel' = panel
      BY <1>0, <3>0, OnAll, Counts, ClkPanel
    <3>2. Paired'
      BY <1>0, <1>1, <2>1, <3>0, <3>1, Counts DEF MdpVote, hostvars, Paired, Claims, DispVote,
         Flag, Shape, Positions, DispHolds, PanelHolds, PanelUp, EngineRuns
    <3>3. ASSUME faults' = 0 PROVE Quiet'
      BY <1>0, <1>1, <3>1, <3>3 DEF MdpVote, hostvars, Quiet, CtlOf, EngOf, Claims, DispVote
    <3> QED
      BY <3>1, <3>2, <3>3
  <2>2. CASE core["mdp"] # 0
    <3>1. IInv' /\ core'["mdp"] = (IF core["mdp"] > 0 THEN core["mdp"] - 1 ELSE core["mdp"])
          /\ link'["mdp"] = (IF link["mdp"] > 0 THEN link["mdp"] - 1 ELSE link["mdp"])
          /\ core'["dsi"] = core["dsi"] /\ link'["dsi"] = link["dsi"]
          /\ (faults' = 0 => faults = 0) /\ conf' = conf /\ panel' = panel
      BY <1>0, <1>1, <2>2, OffAll, Counts, ClkPanel DEF MdpVote
    <3>2. Paired'
      BY <1>0, <1>1, <3>1 DEF MdpVote, hostvars, Paired, Claims, DispVote
    <3>3. ASSUME faults' = 0 PROVE Quiet'
      BY <1>0, <1>1, <3>1, <3>3 DEF MdpVote, hostvars, Quiet, CtlOf, EngOf, Claims, DispVote
    <3> QED
      BY <3>1, <3>2, <3>3
  <2> QED
    BY <2>1, <2>2
<1>2. CASE Update
  <2>1. IInv' /\ core' = core /\ link' = link /\ hw' = hw /\ faults' = faults
        /\ conf' = conf /\ panel' = panel
    BY <1>0, <1>2, Still DEF Update
  <2>2. Paired'
    BY <1>0, <1>2, <2>1 DEF Update, Paired, Claims, DispVote
  <2>3. ASSUME faults' = 0 PROVE Quiet'
    BY <1>0, <1>2, <2>1, <2>3 DEF Update, Quiet, CtlOf, EngOf, Claims, DispVote, EngineRuns
  <2> QED
    BY <2>1, <2>2, <2>3
<1>3. CASE UpdateLock
  <2>1. IInv' /\ core' = core /\ link' = link /\ hw' = hw /\ faults' = faults
        /\ conf' = conf /\ panel' = panel
    BY <1>0, <1>3, Still DEF UpdateLock
  <2>2. Paired'
    BY <1>0, <1>3, <2>1 DEF UpdateLock, Paired, Claims, DispVote
  <2>3. ASSUME faults' = 0 PROVE Quiet'
    BY <1>0, <1>3, <2>1, <2>3 DEF UpdateLock, Quiet, CtlOf, EngOf, Claims, DispVote, EngineRuns
  <2> QED
    BY <2>1, <2>2, <2>3
<1>4. CASE UpdateFlush
  <2>1. IInv' /\ core' = core /\ link' = link /\ hw' = hw /\ faults' = faults
        /\ conf' = conf /\ panel' = panel
    BY <1>0, <1>4, Still DEF UpdateFlush
  <2>2. Paired'
    BY <1>0, <1>4, <2>1 DEF UpdateFlush, Paired, Claims, DispVote
  <2>3. ASSUME faults' = 0 PROVE Quiet'
    BY <1>0, <1>4, <2>1, <2>3 DEF UpdateFlush, Quiet, CtlOf, EngOf, Claims, DispVote, EngineRuns
  <2> QED
    BY <2>1, <2>2, <2>3
<1>5. CASE Toggle
  <2>1. IInv' /\ core' = core /\ link' = link /\ faults' = faults
        /\ conf' = conf /\ panel' = panel
    <3>1. CASE hw.mlink = "ON"
      BY <1>0, <1>5, <3>1, ForceKeeps DEF Toggle, ForceUpdate
    <3>2. CASE hw.mlink # "ON"
      BY <1>0, <1>5, <3>2, Still DEF Toggle
    <3> QED
      BY <3>1, <3>2
  <2>2. Paired'
    BY <1>0, <1>5, <2>1, Counts DEF Toggle, Paired, Claims, DispVote, Flag
  <2>3. ASSUME faults' = 0 PROVE Quiet'
    BY <1>0, <1>5, <2>1, <2>3 DEF Toggle, Quiet, CtlOf, EngOf, Claims, DispVote, Shape,
       DispHolds, PanelHolds, EngineRuns
  <2> QED
    BY <2>1, <2>2, <2>3
<1> QED
  BY <1>1, <1>2, <1>3, <1>4, <1>5

\* The display goes off.
LEMMA OffKeep ==
    ASSUME HInv, Safe, Safe', Shape', PreDisable \/ GoingOff
    PROVE  IInv' /\ Paired' /\ (faults' = 0 => Quiet')
<1>0. IInv /\ Paired /\ Shape /\ (faults = 0 => Quiet)
  BY DEF HInv
<1>1. CASE PreDisable
  <2>1. CASE conf.mode = "cmd"
    <3>0. PICK rc \in {"ok", "fail"} : ClkOn("dsi", All, rc)
      BY <1>1, <2>1 DEF PreDisable
    <3>1. IInv' /\ core'["dsi"] = core["dsi"] + 1 /\ link'["dsi"] = link["dsi"] + 1
          /\ core'["mdp"] = core["mdp"] /\ link'["mdp"] = link["mdp"]
          /\ (faults' = 0 => faults = 0 /\ rc = "ok") /\ conf' = conf /\ panel' = panel
      BY <1>0, <3>0, OnAll, Counts, ClkPanel
    <3>2. Paired'
      BY <1>0, <1>1, <3>1, Counts DEF PreDisable, Paired, Claims, DispVote, Flag
    <3>3. ASSUME faults' = 0 PROVE Quiet'
      BY <1>0, <1>1, <2>1, <3>1, <3>3 DEF PreDisable, Quiet, CtlOf, EngOf, Claims, DispVote,
         Flag, Shape, Positions, PanelUp
    <3> QED
      BY <3>1, <3>2, <3>3
  <2>2. CASE conf.mode # "cmd"
    <3>1. IInv' /\ core' = core /\ link' = link /\ hw' = hw /\ faults' = faults
          /\ conf' = conf /\ panel' = panel
      BY <1>0, <1>1, <2>2, Still DEF PreDisable
    <3>2. Paired'
      BY <1>0, <1>1, <2>2, <3>1 DEF PreDisable, Paired, Claims, DispVote
    <3>3. ASSUME faults' = 0 PROVE Quiet'
      BY <1>0, <1>1, <2>2, <3>1, <3>3 DEF PreDisable, Quiet, CtlOf, EngOf, Claims, DispVote,
         Shape, Positions, PanelUp
    <3> QED
      BY <3>1, <3>2, <3>3
  <2> QED
    BY <2>1, <2>2
<1>2. CASE MdpOff
  <2>1. CASE core["mdp"] > 0
    <3>1. IInv' /\ core'["mdp"] = (IF core["mdp"] > 0 THEN core["mdp"] - 1 ELSE core["mdp"])
          /\ link'["mdp"] = (IF link["mdp"] > 0 THEN link["mdp"] - 1 ELSE link["mdp"])
          /\ core'["dsi"] = core["dsi"] /\ link'["dsi"] = link["dsi"]
          /\ (faults' = 0 => faults = 0) /\ conf' = conf /\ panel' = panel
      BY <1>0, <1>2, <2>1, OffAll, Counts, ClkPanel DEF MdpOff
    <3>2. Paired'
      BY <1>0, <1>2, <3>1 DEF MdpOff, Paired, Claims, DispVote
    <3>3. ASSUME faults' = 0 PROVE Quiet'
      BY <1>0, <1>2, <3>1, <3>3 DEF MdpOff, Quiet, CtlOf, EngOf, Claims, DispVote, Shape,
         Positions, DispHolds, PanelUp
    <3> QED
      BY <3>1, <3>2, <3>3
  <2>2. CASE ~(core["mdp"] > 0)
    <3>1. IInv' /\ core' = core /\ link' = link /\ hw' = hw /\ faults' = faults
          /\ conf' = conf /\ panel' = panel
      BY <1>0, <1>2, <2>2, Still DEF MdpOff
    <3>2. Paired'
      BY <1>0, <1>2, <3>1 DEF MdpOff, Paired, Claims, DispVote
    <3>3. ASSUME faults' = 0 PROVE Quiet'
      BY <1>0, <1>2, <3>1, <3>3 DEF MdpOff, Quiet, CtlOf, EngOf, Claims, DispVote, Shape,
         Positions, DispHolds, PanelUp
    <3> QED
      BY <3>1, <3>2, <3>3
  <2> QED
    BY <2>1, <2>2
<1>3. CASE Disable
  <2>1. IInv' /\ core' = core /\ link' = link /\ hw' = hw /\ faults' = faults
        /\ conf' = conf /\ panel' = panel
    BY <1>0, <1>3, Still DEF Disable
  <2>2. Paired'
    BY <1>0, <1>3, <2>1 DEF Disable, Paired, Claims, DispVote
  <2>3. ASSUME faults' = 0 PROVE Quiet'
    BY <1>0, <1>3, <2>1, <2>3 DEF Disable, Quiet, CtlOf, EngOf, Claims, DispVote, EngineRuns
  <2> QED
    BY <2>1, <2>2, <2>3
<1>4. CASE EngineOff
  <2>1. IInv' /\ core' = core /\ link' = link /\ hw' = hw /\ faults' = faults
        /\ conf' = conf /\ panel' = panel
    BY <1>0, <1>4, Still DEF EngineOff
  <2>2. Paired'
    BY <1>0, <1>4, <2>1 DEF EngineOff, Paired, Claims, DispVote
  <2>3. ASSUME faults' = 0 PROVE Quiet'
    BY <1>0, <1>4, <2>1, <2>3, VotedIsOn DEF EngineOff, Quiet, CtlOf, EngOf, Claims, DispVote,
       Flag, Ready, CmdEngineOff, EngineRuns
  <2> QED
    BY <2>1, <2>2, <2>3
<1>5. CASE PanelOff
  <2>1. IInv' /\ core' = core /\ link' = link /\ hw' = hw /\ faults' = faults
        /\ conf' = conf /\ panel' = panel
    BY <1>0, <1>5, Still DEF PanelOff
  <2>2. Paired'
    BY <1>0, <1>5, <2>1, Counts DEF PanelOff, Paired, Claims, DispVote, Flag
  <2>3. ASSUME faults' = 0 PROVE Quiet'
    BY <1>0, <1>5, <2>1, <2>3 DEF PanelOff, Quiet, CtlOf, EngOf, Claims, DispVote, Shape,
       EngineRuns
  <2> QED
    BY <2>1, <2>2, <2>3
<1>6. CASE PanelOffDone
  <2>1. /\ core' = core /\ link' = link /\ hw' = hw /\ faults' = faults
        /\ broken' = broken /\ conf' = conf
    BY <1>6 DEF PanelOffDone
  <2>2. /\ panel' \in SUBSET {"init", "esd"}
        /\ link["dsi"] > 0 \/ panel' = panel \ {"esd"} \/ panel' = panel
    BY <1>0, <1>6, Counts DEF PanelOffDone, Paired, Claims, DispVote, Flag, Shape
  <2>3. IInv'
    BY <1>0, <2>1, <2>2, PanelMoves
  <2>4. Paired'
    BY <1>0, <1>6, Counts DEF PanelOffDone, Paired, Claims, DispVote, Flag
  <2>5. ASSUME faults' = 0 PROVE Quiet'
    BY <1>0, <1>6, <2>5 DEF PanelOffDone, Quiet, CtlOf, EngOf, Claims, DispVote, Shape,
       DispHolds, PanelHolds, EngineRuns
  <2> QED
    BY <2>3, <2>4, <2>5
<1>7. CASE Unprepare
  <2>1. IInv' /\ core' = core /\ link' = link /\ hw' = hw /\ faults' = faults
        /\ conf' = conf /\ panel' = panel
    BY <1>0, <1>7, Still DEF Unprepare
  <2>2. Paired'
    BY <1>0, <1>7, <2>1 DEF Unprepare, Paired, Claims, DispVote
  <2>3. ASSUME faults' = 0 PROVE Quiet'
    BY <1>0, <1>7, <2>1, <2>3 DEF Unprepare, Quiet, CtlOf, EngOf, Claims, DispVote, EngineRuns
  <2> QED
    BY <2>1, <2>2, <2>3
<1>8. CASE HostDisable
  <2>1. IInv' /\ core' = core /\ link' = link /\ hw' = hw /\ faults' = faults
        /\ conf' = conf /\ panel' = panel
    BY <1>0, <1>8, Still DEF HostDisable
  <2>2. Paired'
    BY <1>0, <1>8, <2>1 DEF HostDisable, Paired, Claims, DispVote
  <2>3. ASSUME faults' = 0 PROVE Quiet'
    BY <1>0, <1>8, <2>1, <2>3, VotedIsOn DEF HostDisable, Quiet, CtlOf, EngOf, Claims,
       DispVote, Flag, Ready, HostOff, Shape, PanelHolds, PanelUp, EngineRuns
  <2> QED
    BY <2>1, <2>2, <2>3
<1>9. CASE UnprepareLink
  <2>1. "link" \in {"link"} /\ "core" \notin {"link"} /\ {"link"} \in Domains
    BY DEF Domains
  <2>3. IInv' /\ (faults' = 0 => faults = 0)
        /\ core'["dsi"] = core["dsi"]
        /\ link'["dsi"] = (IF link["dsi"] > 0 THEN link["dsi"] - 1 ELSE link["dsi"])
        /\ core'["mdp"] = core["mdp"] /\ link'["mdp"] = link["mdp"]
        /\ conf' = conf /\ panel' = panel
    BY <1>0, <1>9, <2>1, OffPart, Counts, ClkPanel DEF UnprepareLink
  <2>5. Paired'
    BY <1>0, <1>9, <2>3, Counts DEF UnprepareLink, Paired, Claims, DispVote, Flag, Shape,
       DispHolds, PanelHolds
  <2>6. ASSUME faults' = 0 PROVE Quiet'
    BY <1>0, <1>9, <2>3, <2>6 DEF UnprepareLink, Quiet, CtlOf, EngOf, Claims, DispVote, Flag,
       EngineRuns
  <2> QED
    BY <2>3, <2>5, <2>6
<1>10. CASE UnprepareCore
  <2>1. "core" \in {"core"} /\ "link" \notin {"core"} /\ {"core"} \in Domains
    BY DEF Domains
  <2>2. link["dsi"] = 0 \/ link["dsi"] < core["dsi"]
    BY <1>0, <1>10 DEF UnprepareCore, Paired
  <2>3. IInv' /\ (faults' = 0 => faults = 0)
        /\ core'["dsi"] = (IF core["dsi"] > 0 THEN core["dsi"] - 1 ELSE core["dsi"])
        /\ link'["dsi"] = link["dsi"]
        /\ core'["mdp"] = core["mdp"] /\ link'["mdp"] = link["mdp"]
        /\ conf' = conf /\ panel' = panel
    BY <1>0, <1>10, <2>1, <2>2, OffPart, Counts, ClkPanel DEF UnprepareCore
  <2>5. Paired'
    BY <1>0, <1>10, <2>3, Counts DEF UnprepareCore, Paired, Claims, Flag, Shape, PanelUp,
       EngineRuns
  <2>6. ASSUME faults' = 0 PROVE Quiet'
    <3>1. Quiet /\ core["dsi"] > 0
      BY <1>0, <1>10, <2>3, <2>6 DEF UnprepareCore, Quiet, Claims, DispVote, Flag
    <3>2. hw.pwr = "on"
      BY <1>0, <2>3, <2>6, <3>1, VotedIsOn
    <3>3. /\ failed' = {} /\ d' = "off" /\ ctl' = ctl \ {"init"}
          /\ UNCHANGED <<plock, tx, work, eng>>
      BY <1>10, <3>1, <3>2 DEF UnprepareCore, Quiet
    <3>4. ctl' = {} /\ CtlOf' = {}
      BY <1>10, <3>1, <3>3 DEF UnprepareCore, Quiet, CtlOf, EngineRuns
    <3>5. eng' = EngOf'
      BY <1>10, <3>1, <3>3 DEF UnprepareCore, Quiet, EngOf, EngineRuns, Flag
    <3>6. core'["dsi"] = DispVote.core' + Claims' /\ link'["dsi"] = DispVote.link' + Claims'
      <4>1. d = "ucore" /\ dlock = "disp" /\ dlock' = "free"
        BY <1>0, <1>10 DEF UnprepareCore, Shape, DispHolds
      <4>2. Claims' = Claims /\ Claims \in Nat
        BY <3>3, <4>1 DEF Claims, Flag
      <4>3. /\ DispVote.core = 1 /\ DispVote.link = 0
            /\ DispVote.core' = 0 /\ DispVote.link' = 0
        BY <3>3, <4>1 DEF DispVote
      <4>4. core["dsi"] = DispVote.core + Claims /\ link["dsi"] = DispVote.link + Claims
        BY <3>1 DEF Quiet
      <4> QED
        BY <2>3, <3>1, <4>2, <4>3, <4>4
    <3> QED
      BY <3>1, <3>3, <3>4, <3>5, <3>6 DEF Quiet
  <2> QED
    BY <2>3, <2>5, <2>6
<1> QED
  BY <1>1, <1>2, <1>3, <1>4, <1>5, <1>6, <1>7, <1>8, <1>9, <1>10 DEF GoingOff

-----------------------------------------------------------------------------
(* Whatever fails in the display                                           *)

\* Who runs a transfer, ends one or waits for display_lock meets the display thread
\* outside of its set-up and of the release of its core vote.
LEMMA Away ==
    ASSUME Shape, tx # "no" \/ work # "none" \/ dlock # "disp"
    PROVE  d \notin {"hostinit", "unwind", "ucore"}
<1>1. CASE tx # "no"
  BY <1>1 DEF Shape, PanelHolds, PanelUp, EngineRuns
<1>2. CASE work # "none"
  BY <1>2 DEF Shape, PanelUp, EngineRuns
<1>3. CASE dlock # "disp"
  BY <1>3 DEF Shape, DispHolds
<1> QED
  BY <1>1, <1>2, <1>3

\* A request of all clocks and its release, by either client.
LEMMA AllLight ==
    ASSUME OInv, Held, NEW c \in {"mdp", "dsi"}, NEW rc, ClkOn(c, All, rc) \/ ClkOff(c, All),
           d' \notin {"hostinit", "unwind", "ucore"}
    PROVE  OInv' /\ Held'
<1>1. c \in Client /\ All \in Domains /\ TypeOK /\ All # {"link"} /\ All # {"core"}
      /\ "core" \in All /\ "link" \in All
  BY HostAssumption DEF All, Domains, OInv
<1>2. OInv'
  BY <1>1, OnLight, OffLight
<1>3. core'["mdp"] = link'["mdp"]
  <2>1. core["mdp"] = link["mdp"] /\ core["mdp"] \in Nat /\ "mdp" \in Client
    BY <1>1, HostAssumption DEF Held, TypeOK
  <2>2. CASE ClkOn(c, All, rc)
    BY <1>1, <2>1, <2>2, OnVotes
  <2>3. CASE ClkOff(c, All)
    BY <1>1, <2>1, <2>3, OffVotes
  <2> QED
    BY <2>2, <2>3
<1> QED
  BY <1>2, <1>3 DEF Held

\* A step that leaves the clocks alone.
LEMMA CalmLight ==
    ASSUME OInv, Held, UNCHANGED <<conf, core, link, hw, faults, broken>>,
           panel' \subseteq {"init", "esd"},
           d' \in {"hostinit", "unwind"} => d \in {"hostinit", "unwind"},
           d' = "ucore" => d = "ucore"
    PROVE  OInv' /\ Held'
<1>1. OInv'
  BY StillLight
<1> QED
  BY <1>1 DEF Held

\* The steps that do.
Calm ==
    \/ TxSend \/ TxDone \/ DmaDone \/ DmaTimeout \/ WorkStart \/ WorkDone
    \/ BlStart \/ BlEnd \/ EsdResult \/ PreEnable \/ HostFails \/ Enable \/ PanelOn \/ PanelOnDone
    \/ EngineOn \/ Update \/ UpdateLock \/ UpdateFlush
    \/ Disable \/ EngineOff \/ PanelOff \/ PanelOffDone \/ Unprepare \/ HostDisable

\* They leave the clocks alone, and the thread does not enter the three positions by them.
LEMMA CalmSteps ==
    ASSUME Calm \/ UNCHANGED vars, Shape, Shape'
    PROVE  /\ UNCHANGED <<conf, core, link, hw, faults, broken>>
           /\ panel' \subseteq {"init", "esd"}
           /\ d' \in {"hostinit", "unwind"} => d \in {"hostinit", "unwind"}
           /\ d' = "ucore" => d = "ucore"
<1>1. panel' \subseteq {"init", "esd"}
  BY DEF Shape
<1>2. CASE TxSend \/ TxDone \/ DmaDone \/ DmaTimeout \/ WorkStart \/ WorkDone
  BY <1>1, <1>2 DEF TxSend, TxDone, DmaDone, DmaTimeout, WorkStart, WorkDone, clkvars
<1>3. CASE BlStart \/ BlEnd \/ EsdResult \/ PreEnable \/ HostFails \/ Enable
  BY <1>1, <1>3 DEF BlStart, BlEnd, EsdResult, PreEnable, HostFails, Enable, clkvars
<1>4. CASE PanelOn \/ PanelOnDone \/ EngineOn \/ Update \/ UpdateLock \/ UpdateFlush
  BY <1>1, <1>4 DEF PanelOn, PanelOnDone, EngineOn, Update, UpdateLock, UpdateFlush, clkvars
<1>5. CASE Disable \/ EngineOff \/ PanelOff \/ PanelOffDone \/ Unprepare \/ HostDisable
  BY <1>1, <1>5 DEF Disable, EngineOff, PanelOff, PanelOffDone, Unprepare, HostDisable, clkvars
<1>6. CASE UNCHANGED vars
  BY <1>1, <1>6 DEF vars, clkvars, hostvars
<1> QED
  BY <1>2, <1>3, <1>4, <1>5, <1>6 DEF Calm

\* Every step keeps the light invariant, or keeps a link vote in dsi_display_prepare.
LEMMA HostLight ==
    ASSUME OInv, Held, Shape, Shape', [Next]_vars
    PROVE  "kept" \notin failed' => OInv' /\ Held'
<1> DEFINE goal == OInv' /\ Held'
<1>0. TypeOK /\ {"mdp", "dsi"} \subseteq Client
      /\ {"core"} \in Domains /\ {"link"} \in Domains /\ {"core"} # {"link"}
  BY HostAssumption DEF OInv, Domains
<1>1. core["dsi"] \in Nat /\ link["dsi"] \in Nat /\ core["mdp"] \in Nat
      /\ link["dsi"] <= core["dsi"]
  BY <1>0 DEF OInv, TypeOK
<1>2. panel' \subseteq {"init", "esd"}
  BY DEF Shape
<1>3. CASE Calm \/ UNCHANGED vars
  BY <1>3, CalmSteps, CalmLight
<1>4. ASSUME UNCHANGED clkvars, d' \notin {"hostinit", "unwind", "ucore"}
      PROVE  goal
  BY <1>2, <1>4, CalmLight DEF clkvars
<1>5. CASE TxVote
  <2>1. d' \notin {"hostinit", "unwind", "ucore"}
    BY <1>5, Away DEF TxVote
  <2>2. UNCHANGED clkvars \/ \E rc \in {"ok", "fail"} : ClkOn("dsi", All, rc)
    BY <1>5 DEF TxVote
  <2> QED
    BY <1>4, <2>1, <2>2, AllLight
<1>6. CASE TxReap \/ TxRefused \/ TxClean \/ WorkEnd \/ EsdEnd \/ ErrEnd
  <2>1. d' \notin {"hostinit", "unwind", "ucore"}
    BY <1>6, Away DEF TxReap, TxRefused, TxClean, WorkEnd, EsdEnd, ErrEnd
  <2>2. ClkOff("dsi", All)
    BY <1>6 DEF TxReap, TxRefused, TxClean, WorkEnd, EsdEnd, ErrEnd
  <2> QED
    BY <2>1, <2>2, AllLight
<1>7. CASE EsdStart \/ ErrStart
  <2>1. d' \notin {"hostinit", "unwind", "ucore"}
    BY <1>7, Away DEF EsdStart, ErrStart, Shape, PanelUp, EngineRuns
  <2>2. \E rc \in {"ok", "fail"} : ClkOn("dsi", All, rc)
    BY <1>7 DEF EsdStart, ErrStart
  <2> QED
    BY <2>1, <2>2, AllLight
<1>8. CASE PostEnable \/ PreDisable
  <2>1. d' \notin {"hostinit", "unwind", "ucore"}
    BY <1>8 DEF PostEnable, PreDisable
  <2>2. \/ UNCHANGED clkvars \/ ClkOff("dsi", All)
        \/ \E rc \in {"ok", "fail"} : ClkOn("dsi", All, rc)
    BY <1>8 DEF PostEnable, PreDisable
  <2> QED
    BY <1>4, <2>1, <2>2, AllLight
<1>9. CASE MdpVote \/ MdpOff
  <2>1. d' \notin {"hostinit", "unwind", "ucore"}
    BY <1>9 DEF MdpVote, MdpOff, hostvars
  <2>2. \/ UNCHANGED clkvars \/ ClkOff("mdp", All)
        \/ \E rc \in {"ok", "fail"} : ClkOn("mdp", All, rc)
    BY <1>9 DEF MdpVote, MdpOff
  <2> QED
    BY <1>4, <2>1, <2>2, AllLight
<1>10. CASE Prepare
  <2>1. PICK rc \in {"ok", "fail"} : ClkOn("dsi", {"core"}, rc)
    BY <1>10 DEF Prepare
  <2>2. OInv'
    BY <1>0, <2>1, OnLight
  <2>3. core'["dsi"] = core["dsi"] + 1 /\ link'["dsi"] = link["dsi"]
        /\ core'["mdp"] = core["mdp"] /\ link'["mdp"] = link["mdp"]
    BY <1>0, <2>1, OnVotes
  <2>4. d' \in {"hostinit", "postenable"}
    BY <1>10 DEF Prepare
  <2> QED
    BY <1>1, <2>2, <2>3, <2>4 DEF Held
<1>11. CASE HostOn
  <2>1. PICK rc \in {"ok", "fail"} :
            /\ ClkOn("dsi", {"link"}, rc)
            /\ IF rc = "ok" THEN d' = "enable" ELSE "kept" \in failed'
    BY <1>11 DEF HostOn
  <2>2. link["dsi"] < core["dsi"]
    BY <1>1, <1>11 DEF HostOn, Held
  <2>3. OInv'
    BY <1>0, <2>1, <2>2, OnLight
  <2>4. core'["mdp"] = core["mdp"] /\ link'["mdp"] = link["mdp"]
    BY <1>0, <2>1, OnVotes
  <2> QED
    BY <2>1, <2>3, <2>4 DEF Held
<1>12. CASE Unwind \/ UnprepareCore
  <2>1. ClkOff("dsi", {"core"}) /\ d' \in {"postenable", "off"}
    BY <1>12 DEF Unwind, UnprepareCore
  <2>2. link["dsi"] = 0 \/ link["dsi"] < core["dsi"]
    BY <1>1, <1>12 DEF Unwind, UnprepareCore, Held
  <2>3. OInv'
    BY <1>0, <2>1, <2>2, OffLight
  <2>4. core'["mdp"] = core["mdp"] /\ link'["mdp"] = link["mdp"]
    BY <1>0, <2>1, OffVotes
  <2> QED
    BY <2>1, <2>3, <2>4 DEF Held
<1>13. CASE UnprepareLink
  <2>1. ClkOff("dsi", {"link"}) /\ d' = "ucore"
    BY <1>13 DEF UnprepareLink
  <2>2. OInv'
    BY <1>0, <2>1, OffLight
  <2>3. core'["dsi"] = core["dsi"]
        /\ link'["dsi"] = (IF link["dsi"] > 0 THEN link["dsi"] - 1 ELSE link["dsi"])
        /\ core'["mdp"] = core["mdp"] /\ link'["mdp"] = link["mdp"]
    BY <1>0, <2>1, OffVotes
  <2> QED
    BY <1>1, <2>1, <2>2, <2>3 DEF Held
<1>14. CASE Toggle
  <2>1. d' = "on"
    BY <1>14 DEF Toggle
  <2>2. CASE hw.mlink = "ON"
    <3>1. ForceUpdate
      BY <1>14, <2>2 DEF Toggle
    <3> QED
      BY <2>1, <3>1, ForceLight DEF ForceUpdate, Held
  <2>3. CASE hw.mlink # "ON"
    BY <1>4, <1>14, <2>1, <2>3 DEF Toggle
  <2> QED
    BY <2>2, <2>3
<1> QED
  BY <1>3, <1>5, <1>6, <1>7, <1>8, <1>9, <1>10, <1>11, <1>12, <1>13, <1>14
     DEF Next, Sender, Work, Others, GoingOn, GoingOff, Calm

-----------------------------------------------------------------------------
(* The invariant of the display                                            *)

\* A step that asks for clocks counts what fails and breaks, and nothing is repaired.
LEMMA RequestGrows ==
    ASSUME faults \in Nat, broken \subseteq {"link", "toggle"},
           NEW c, NEW T, NEW rc,
           ClkOn(c, T, rc) \/ ClkOff(c, T) \/ ForceUpdate \/ UNCHANGED clkvars
    PROVE  /\ faults' \in Nat /\ (faults' = 0 => faults = 0 /\ broken' = broken)
           /\ broken' \subseteq {"link", "toggle"} /\ broken \subseteq broken'
<1>1. CASE Retry
  BY <1>1, RetryFails
<1>2. CASE Well
  BY <1>2 DEF Well
<1>3. ASSUME NEW f, Fails(f, "toggle")
      PROVE  /\ faults' \in Nat /\ faults' # 0
             /\ broken' \subseteq {"link", "toggle"} /\ broken \subseteq broken'
  BY <1>3 DEF Fails
<1> QED
  BY <1>1, <1>2, <1>3 DEF ClkOn, ClkOff, ForceUpdate, clkvars, Well

\* Every step of the display asks for clocks or leaves the histories alone.
LEMMA FaultsGrow ==
    ASSUME faults \in Nat, broken \subseteq {"link", "toggle"}, [Next]_vars
    PROVE  /\ faults' \in Nat /\ (faults' = 0 => faults = 0 /\ broken' = broken)
           /\ broken' \subseteq {"link", "toggle"} /\ broken \subseteq broken'
<1> DEFINE some == \E c, T, rc : \/ ClkOn(c, T, rc) \/ ClkOff(c, T)
                                  \/ ForceUpdate \/ UNCHANGED clkvars
<1>1. some =>
          /\ faults' \in Nat /\ (faults' = 0 => faults = 0 /\ broken' = broken)
          /\ broken' \subseteq {"link", "toggle"} /\ broken \subseteq broken'
  BY RequestGrows
<1>2. CASE TxVote \/ TxReap \/ TxRefused \/ TxClean \/ WorkEnd
  <2>1. some
    BY <1>2 DEF TxVote, TxReap, TxRefused, TxClean, WorkEnd
  <2> QED
    BY <1>1, <2>1
<1>3. CASE EsdStart \/ EsdEnd \/ ErrStart \/ ErrEnd
  <2>1. some
    BY <1>3 DEF EsdStart, EsdEnd, ErrStart, ErrEnd
  <2> QED
    BY <1>1, <2>1
<1>4. CASE Prepare \/ HostOn \/ Unwind \/ PostEnable \/ PreDisable
  <2>1. some
    BY <1>4 DEF Prepare, HostOn, Unwind, PostEnable, PreDisable
  <2> QED
    BY <1>1, <2>1
<1>5. CASE MdpVote \/ MdpOff \/ Toggle \/ UnprepareLink \/ UnprepareCore
  <2>1. some
    BY <1>5 DEF MdpVote, MdpOff, Toggle, UnprepareLink, UnprepareCore
  <2> QED
    BY <1>1, <2>1
<1>6. CASE Calm \/ UNCHANGED vars
  BY <1>6 DEF Calm, TxSend, TxDone, DmaDone, DmaTimeout, WorkStart, WorkDone, BlStart, BlEnd,
     EsdResult, PreEnable, HostFails, Enable, PanelOn, PanelOnDone, EngineOn, Update,
     UpdateLock, UpdateFlush, Disable, EngineOff, PanelOff, PanelOffDone, Unprepare,
     HostDisable, vars, clkvars
<1> QED
  BY <1>2, <1>3, <1>4, <1>5, <1>6 DEF Next, Sender, Work, Others, GoingOn, GoingOff, Calm

\* No step forgets that dsi_display_prepare kept a vote.
LEMMA KeptStays ==
    ASSUME [Next]_vars
    PROVE  "kept" \in failed => "kept" \in failed'
<1>1. CASE Sender \/ DmaDone \/ DmaTimeout \/ Work
  BY <1>1 DEF Sender, TxVote, TxReap, TxSend, TxRefused, TxDone, TxClean, DmaDone, DmaTimeout,
     Work, WorkStart, WorkDone, WorkEnd
<1>2. CASE Others
  BY <1>2 DEF Others, BlStart, BlEnd, EsdStart, EsdResult, EsdEnd, ErrStart, ErrEnd
<1>3. CASE PreEnable \/ GoingOn
  BY <1>3 DEF PreEnable, GoingOn, Prepare, HostOn, HostFails, Unwind, Enable, PanelOn,
     PanelOnDone, EngineOn, PostEnable
<1>4. CASE MdpVote \/ Update \/ UpdateLock \/ UpdateFlush \/ Toggle \/ PreDisable
  BY <1>4 DEF MdpVote, hostvars, Update, UpdateLock, UpdateFlush, Toggle, PreDisable
<1>5. CASE GoingOff
  BY <1>5 DEF GoingOff, MdpOff, Disable, EngineOff, PanelOff, PanelOffDone, Unprepare,
     HostDisable, UnprepareLink, UnprepareCore
<1>6. CASE UNCHANGED vars
  BY <1>6 DEF vars, hostvars
<1> QED
  BY <1>1, <1>2, <1>3, <1>4, <1>5, <1>6 DEF Next

\* HInv holds at the start,
LEMMA HostInit == Init => HInv
<1> SUFFICES ASSUME Init PROVE HInv
  OBVIOUS
<1>1. IInv
  BY InitIInv DEF Init
<1>2. faults = 0 /\ panel = {} /\ core["dsi"] = 0 /\ link["dsi"] = 0 /\ core["mdp"] = 0
      /\ link["mdp"] = 0
  BY HostAssumption DEF Init, ClkInit
<1>3. Shape
  BY <1>2 DEF Init, Shape, Positions, DispHolds, PanelHolds
<1>4. Paired
  BY <1>2 DEF Init, Paired, Claims, Flag
<1>5. Quiet
  BY <1>2 DEF Init, Quiet, Claims, DispVote, Flag, CtlOf, EngOf, EngineRuns
<1>6. OInv
  BY InitMInv DEF Init, MInv
<1>7. Held
  BY <1>2 DEF Init, Held
<1>8. broken = {}
  BY DEF Init, ClkInit
<1> QED
  BY <1>1, <1>2, <1>3, <1>4, <1>5, <1>6, <1>7, <1>8 DEF HInv, Safe

\* ... is kept by every step of the display,
LEMMA HostNext == HInv /\ [Next]_vars => HInv'
<1> SUFFICES ASSUME HInv, [Next]_vars PROVE HInv'
  OBVIOUS
<1>1. Shape /\ faults \in Nat /\ broken \subseteq {"link", "toggle"} /\ (faults = 0 => Safe)
  BY DEF HInv
<1>2. /\ faults' \in Nat /\ broken' \subseteq {"link", "toggle"} /\ (faults' = 0 => Safe')
      /\ Safe' => Safe
  <2>1. /\ faults' \in Nat /\ (faults' = 0 => faults = 0 /\ broken' = broken)
        /\ broken' \subseteq {"link", "toggle"} /\ broken \subseteq broken'
    BY <1>1, FaultsGrow
  <2> QED
    BY <1>1, <2>1 DEF Safe
<1>3. Shape'
  <2>1. CASE UNCHANGED vars
    BY <1>1, <2>1 DEF Shape, vars, hostvars, clkvars
  <2> QED
    BY <1>1, <2>1, SenderShape, DmaShape, WorkShape, OthersShape, OnShape, KickoffShape,
       OffShape DEF Next, Work, Others, GoingOn, GoingOff
<1>4. Safe' => IInv' /\ Paired' /\ (faults' = 0 => Quiet')
  <2> SUFFICES ASSUME Safe' PROVE IInv' /\ Paired' /\ (faults' = 0 => Quiet')
    OBVIOUS
  <2>1. CASE UNCHANGED vars
    <3>1. IInv /\ Paired /\ (faults = 0 => Quiet)
      BY <1>2 DEF HInv
    <3>2. IInv'
      BY <2>1, <3>1, Still DEF vars
    <3> QED
      BY <2>1, <3>1, <3>2 DEF vars, hostvars, clkvars, Paired, Quiet, Claims, DispVote, CtlOf,
         EngOf
  <2> QED
    BY <1>2, <1>3, <2>1, SenderKeeps, WorkKeeps, OthersKeep, OnKeep, UpKeeps, OffKeep DEF Next
<1>5. "kept" \notin failed' => OInv' /\ Held'
  BY <1>1, <1>3, KeptStays, HostLight DEF HInv
<1> QED
  BY <1>2, <1>3, <1>4, <1>5 DEF HInv

\* ... and so holds in every reachable state.
LEMMA HostInductive == Spec => []HInv
<1> QED
  BY HostInit, HostNext, PTL DEF Spec

\* Until a clock fails a step of the display is one of the manager.
LEMMA StepKeepsProtocol ==
    ASSUME HInv, Next, faults = 0
    PROVE  ClkNext \/ UNCHANGED clkvars
<1>0. IInv /\ Paired /\ Shape /\ Quiet
  BY DEF HInv, Safe
<1>1. /\ {"mdp", "dsi"} \subseteq Client /\ All \in Domains /\ "core" \in All /\ "link" \in All
      /\ {"core"} \in Domains /\ {"link"} \in Domains /\ All # {"link"}
  BY HostAssumption DEF All, Domains
<1>2. ASSUME NEW c \in {"mdp", "dsi"}, NEW rc \in {"ok", "fail"}, ClkOn(c, All, rc)
      PROVE  ClkNext
  <2>1. Turn(c, All)
    BY <1>1, <1>2 DEF Turn
  <2> QED
    BY <1>1, <2>1 DEF ClkNext
<1>3. ASSUME NEW c \in {"mdp", "dsi"}, ClkOff(c, All), core[c] > 0, link[c] > 0
      PROVE  ClkNext
  <2>1. Turn(c, All)
    BY <1>1, <1>3 DEF Turn
  <2> QED
    BY <1>1, <2>1 DEF ClkNext
<1>4. ASSUME UNCHANGED <<conf, core, link, hw, faults, broken>>,
             panel' \in SUBSET {"init", "esd"}, hw.mlink = "ON" \/ panel' = panel \ {"esd"}
      PROVE  ClkNext
  BY <1>4 DEF ClkNext, PanelChange, Well
<1>5. CASE TxVote
  BY <1>2, <1>5 DEF TxVote
<1>6. CASE EsdStart
  BY <1>2, <1>6 DEF EsdStart
<1>7. CASE ErrStart
  BY <1>2, <1>7 DEF ErrStart
<1>8. CASE PreDisable
  BY <1>2, <1>8 DEF PreDisable
<1>9. CASE TxReap
  <2>1. core["dsi"] > 0 /\ link["dsi"] > 0
    BY <1>0, <1>9, Counts DEF TxReap, Paired, Claims, DispVote, Flag
  <2> QED
    BY <1>3, <1>9, <2>1 DEF TxReap
<1>10. CASE TxRefused
  <2>1. core["dsi"] > 0 /\ link["dsi"] > 0
    BY <1>0, <1>10, Counts DEF TxRefused, Paired, Claims, DispVote, Flag
  <2> QED
    BY <1>3, <1>10, <2>1 DEF TxRefused
<1>11. CASE TxClean
  <2>1. core["dsi"] > 0 /\ link["dsi"] > 0
    BY <1>0, <1>11, Counts DEF TxClean, Paired, Claims, DispVote, Flag
  <2> QED
    BY <1>3, <1>11, <2>1 DEF TxClean
<1>12. CASE WorkEnd
  <2>1. core["dsi"] > 0 /\ link["dsi"] > 0
    BY <1>0, <1>12, Counts DEF WorkEnd, Paired, Claims, DispVote, Flag
  <2> QED
    BY <1>3, <1>12, <2>1 DEF WorkEnd
<1>13. CASE EsdEnd
  <2>1. core["dsi"] > 0 /\ link["dsi"] > 0
    BY <1>0, <1>13, Counts DEF EsdEnd, Paired, Claims, DispVote, Flag, Shape
  <2> QED
    BY <1>3, <1>13, <2>1 DEF EsdEnd
<1>14. CASE ErrEnd
  <2>1. core["dsi"] > 0 /\ link["dsi"] > 0
    BY <1>0, <1>14, Counts DEF ErrEnd, Paired, Claims, DispVote, Flag
  <2> QED
    BY <1>3, <1>14, <2>1 DEF ErrEnd
<1>15. CASE PostEnable
  <2>1. conf.mode = "cmd" => core["dsi"] > 0 /\ link["dsi"] > 0
    BY <1>0, <1>15 DEF PostEnable, Quiet, Claims, DispVote, Flag
  <2> QED
    BY <1>3, <1>15, <2>1 DEF PostEnable
<1>16. CASE MdpOff
  <2>1. core["mdp"] = link["mdp"]
    BY <1>0 DEF Paired
  <2> QED
    BY <1>3, <1>16, <2>1 DEF MdpOff
<1>17. CASE MdpVote
  <2>1. core["mdp"] = link["mdp"] /\ core["mdp"] \in Nat
    BY <1>0, Counts DEF Paired
  <2> QED
    BY <1>2, <1>3, <1>17, <2>1 DEF MdpVote
<1>18. CASE PreEnable
  BY <1>0, <1>4, <1>18 DEF PreEnable, Shape
<1>19. CASE EsdResult
  <2>1. link["dsi"] > 0
    BY <1>0, <1>19, Counts DEF EsdResult, Paired, Claims, DispVote, Flag
  <2> QED
    BY <1>0, <1>4, <1>19, <2>1, VotedIsOn DEF EsdResult, Shape
<1>20. CASE PanelOnDone
  <2>1. link["dsi"] > 0
    BY <1>0, <1>20, Counts DEF PanelOnDone, Paired, Claims, DispVote, Flag
  <2> QED
    BY <1>0, <1>4, <1>20, <2>1, VotedIsOn DEF PanelOnDone, Shape
<1>21. CASE PanelOffDone
  <2>1. link["dsi"] > 0
    BY <1>0, <1>21 DEF PanelOffDone, Quiet, Claims, DispVote, Flag
  <2> QED
    BY <1>0, <1>4, <1>21, <2>1, VotedIsOn DEF PanelOffDone, Shape
<1>22. CASE Prepare
  <2>1. PICK rc \in {"ok", "fail"} : ClkOn("dsi", {"core"}, rc)
    BY <1>22 DEF Prepare
  <2>2. Turn("dsi", {"core"})
    BY <2>1 DEF Turn
  <2> QED
    BY <1>1, <2>2 DEF ClkNext
<1>23. CASE HostOn
  <2>1. PICK rc \in {"ok", "fail"} : ClkOn("dsi", {"link"}, rc)
    BY <1>23 DEF HostOn
  <2>2. link["dsi"] < core["dsi"]
    BY <1>0, <1>23 DEF HostOn, Paired
  <2>3. Turn("dsi", {"link"})
    BY <2>1, <2>2 DEF Turn
  <2> QED
    BY <1>1, <2>3 DEF ClkNext
<1>24. CASE Unwind
  BY <1>0, <1>24 DEF Unwind, Quiet
<1>25. CASE Toggle
  BY <1>25 DEF Toggle, ClkNext
<1>26. CASE UnprepareLink
  <2>1. link["dsi"] > 0
    BY <1>0, <1>26 DEF UnprepareLink, Quiet, Claims, DispVote, Flag
  <2>2. Turn("dsi", {"link"})
    BY <1>26, <2>1 DEF Turn, UnprepareLink
  <2> QED
    BY <1>1, <2>2 DEF ClkNext
<1>27. CASE UnprepareCore
  <2>1. core["dsi"] > link["dsi"]
    BY <1>0, <1>27 DEF UnprepareCore, Quiet, Claims, DispVote, Flag
  <2>2. Turn("dsi", {"core"})
    BY <1>27, <2>1 DEF Turn, UnprepareCore
  <2> QED
    BY <1>1, <2>2 DEF ClkNext
<1>28. CASE TxSend \/ TxDone \/ DmaDone \/ DmaTimeout \/ WorkStart \/ WorkDone \/ BlStart
            \/ BlEnd \/ HostFails \/ Enable \/ PanelOn
         \/ EngineOn \/ Update \/ UpdateLock \/ UpdateFlush \/ Disable \/ EngineOff
         \/ PanelOff \/ Unprepare \/ HostDisable
  BY <1>28 DEF TxSend, TxDone, DmaDone, DmaTimeout, WorkStart, WorkDone, BlStart, BlEnd,
     HostFails, Enable, PanelOn, EngineOn, Update, UpdateLock, UpdateFlush, Disable, EngineOff,
     PanelOff, Unprepare, HostDisable
<1> QED
  BY <1>5, <1>6, <1>7, <1>8, <1>9, <1>10, <1>11, <1>12, <1>13, <1>14, <1>15, <1>16, <1>17,
     <1>18, <1>19, <1>20, <1>21, <1>22, <1>23, <1>24, <1>25, <1>26, <1>27, <1>28
     DEF Next, Sender, Work, Others, GoingOn, GoingOff

-----------------------------------------------------------------------------
(* Theorems about the display                                              *)

\* The counts of the DSI client are the votes of those that hold one, at every point of
\* enable, disable, transfers, ESD check and error work (dsi_display.c), for any panel.
THEOREM HostVotesMatch == Spec => []VotesMatch
<1>1. HInv => VotesMatch
  <2> SUFFICES ASSUME HInv, faults = 0, NEW dom \in All
               PROVE  (IF dom = "core" THEN core["dsi"] ELSE link["dsi"]) =
                          DispVote[dom] + Flag(tx \in {"flush", "wait", "clean"})
                          + Flag(work # "none") + Flag(plock = "esd") + Flag(dlock = "err")
    BY DEF VotesMatch
  <2>1. /\ core["dsi"] = DispVote.core + Claims
        /\ link["dsi"] = DispVote.link + Claims
    BY DEF HInv, Quiet
  <2>2. dom \in {"core", "link"}
    BY DEF All
  <2> QED
    BY <2>1, <2>2 DEF Claims, DispVote, Flag
<1> QED
  BY <1>1, HostInductive, PTL

\* A command in flight is never left without link clocks, host and command engine, and
\* the link is not toggled under it (dsi_display_link_clk_force_update_ctrl).
THEOREM HostCommandsSafe == Spec => []InFlight
<1>1. HInv => InFlight
  <2> SUFFICES ASSUME HInv PROVE InFlight
    OBVIOUS
  <2>1. Shape
    BY DEF HInv
  <2>2. ASSUME dma, faults = 0
        PROVE  hw.mlink = "ON" /\ hw.hs = 1 /\ "host" \in ctl /\ eng > 0
    <3>1. IInv /\ Quiet
      BY <2>2 DEF HInv, Safe
    <3>2. tx = "wait" \/ work \in {"queued", "running"}
      BY <2>1, <2>2 DEF Shape
    <3>3. link["dsi"] > 0
      BY <3>1, <3>2 DEF Quiet, Claims, DispVote, Flag
    <3>4. eng > 0
      BY <3>1, <3>2 DEF Quiet, EngOf, Flag
    <3>5. "host" \in ctl
      BY <2>1, <3>1, <3>2 DEF Quiet, CtlOf, Shape, PanelHolds, PanelUp, EngineRuns
    <3> QED
      BY <2>2, <3>1, <3>3, <3>4, <3>5, VotedIsOn
  <2>3. d = "toggle" => ~dma
    BY <2>1 DEF Shape
  <2> QED
    BY <2>2, <2>3 DEF InFlight
<1> QED
  BY <1>1, HostInductive, PTL

\* A host that was disabled is off, with no engine on and no command queued
\* (dsi_display_unprepare).
THEOREM HostAlwaysGoesOff == Spec => []HostGoesOff
<1>1. HInv => HostGoesOff
  <2> SUFFICES ASSUME HInv, faults = 0, d \in {"ulink", "ucore", "off"}
               PROVE  ctl \cap {"host", "vid"} = {} /\ eng = 0 /\ ~queued
    BY DEF HostGoesOff
  <2>1. Shape /\ Quiet
    BY DEF HInv
  <2>2. work = "none" /\ tx # "wait"
    BY <2>1 DEF Shape, PanelHolds, PanelUp, EngineRuns
  <2> QED
    BY <2>1, <2>2 DEF Shape, Quiet, CtlOf, EngOf, Flag, EngineRuns
<1> QED
  BY <1>1, HostInductive, PTL

\* Until a clock fails the display uses the clock manager as its other theorems assume:
\* no link vote without a core vote, no OFF without its ON.
THEOREM HostKeepsProtocol == Spec => KeepsProtocol
<1>1. HInv /\ [Next]_vars => [faults = 0 => ClkNext]_clkvars
  <2>1. CASE UNCHANGED vars
    BY <2>1 DEF vars
  <2>2. CASE HInv /\ Next
    BY <2>2, StepKeepsProtocol
  <2> QED
    BY <2>1, <2>2
<1> QED
  BY <1>1, HostInductive, PTL DEF Spec, KeepsProtocol

\* A link the manager takes for on has core clocks and supplies, through every enable,
\* disable, transfer and error path of the display, whichever clocks and callbacks fail, the
\* link's included, and whatever votes the failed calls leave behind; and no link clock runs
\* without them until one of the link fails.  The exception is the display whose
\* dsi_display_prepare failed at the link clocks and kept the vote for them (Stranded).
THEOREM HostLinkNeedsCore == Spec => []LinkOnCore
<1>1. HInv => LinkOnCore
  <2> SUFFICES ASSUME HInv, ~Stranded PROVE LinkNeedsCore
    BY DEF LinkOnCore
  <2>1. CASE "kept" \notin failed
    BY <2>1, NeedsCore DEF HInv
  <2>2. CASE broken = {}
    BY <2>2, LightOf, NeedsCore DEF HInv, Safe
  <2> QED
    BY <2>1, <2>2 DEF Stranded
<1> QED
  BY <1>1, HostInductive, PTL

\* And a link that is on is usable, with the same exception: its clocks run, without clamps
\* or an idle PHY, unless one failed in a forced update; and until one of the link fails the
\* lanes are out of ULPS, although the panel is switched on and off and reported dead
\* meanwhile.
THEOREM HostLinkReady == Spec => []LinkOnReady
<1>1. HInv => LinkOnReady
  <2> SUFFICES ASSUME HInv, ~Stranded PROVE LinkReady
    BY DEF LinkOnReady
  <2>1. CASE "kept" \notin failed
    BY <2>1, IsReady DEF HInv
  <2>2. CASE broken = {}
    BY <2>2, LightOf, IsReady DEF HInv, Safe
  <2> QED
    BY <2>1, <2>2 DEF Stranded
<1> QED
  BY <1>1, HostInductive, PTL
=============================================================================
