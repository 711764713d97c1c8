------------------------------ MODULE DpProofs ------------------------------
(***************************************************************************)
(* Proofs about the hot plug of a DisplayPort display, for any number of   *)
(* reports of the port manager, failures and suspends, where TLC stops at  *)
(* a few.  What carries them is that the threads exclude one another: a    *)
(* disconnect of src has flushed the work queue before it takes the        *)
(* session down, one of wq is the work itself, and the trainings hold      *)
(* session_lock.  Between HPD low and the end of the clean-up CONNECTED    *)
(* stays clear, so no client starts a session that is being taken down.    *)
(***************************************************************************)
EXTENDS DpDisplay, TLAPS

SrcAt == {"idle", "configure", "abort", "cancel", "flush", "low", "tell", "wait", "lowoff", "late",
          "clean", "deinit"}
WqAt == {"idle", "high", "train", "notify", "told", "serve", "low", "tell", "wait", "lowoff", "late",
         "clean"}
UserAt == {"idle", "train", "enable", "post", "disable", "unprepare"}
Bits == {"CONFIGURED", "INITIALIZED", "READY", "CONNECTED", "ENABLED", "ABORTED", "SUSPENDED",
         "SRC_PWRDN", "CONNECT_NOTIFIED", "DISCONNECT_NOTIFIED"}

TypeOK ==
    /\ hpd \in {{}, {"alt"}, {"alt", "high"}}
    /\ streams \in Nat
    /\ lock \in {"none", "wq", "user"}
    /\ work \in {"none", "connect", "attention"}
    /\ req \in {"none", "ports", "pattern", "training", "link"}
    /\ at \in [Threads -> SrcAt \cup WqAt \cup UserAt]
    /\ at["src"] \in SrcAt /\ at["wq"] \in WqAt /\ at["user"] \in UserAt

FlagOK ==
    /\ process \in BOOLEAN /\ aborted \in BOOLEAN /\ power \in BOOLEAN /\ sinks \in BOOLEAN
    /\ sst \in BOOLEAN /\ comp \in BOOLEAN /\ seen \in BOOLEAN /\ on \in BOOLEAN

BitsOK == state \subseteq Bits

UsedOK == used \in [{"report", "fault", "suspend"} -> Nat]

\* A thread between HPD low and the end of its clean-up.
Leaving == {"tell", "wait", "lowoff", "late", "clean"}

\* Who may run while another does: the locks, and a queue that src has flushed.
WorkInv ==
    /\ work = "none" <=> at["wq"] = "idle"
    /\ at["wq"] \in {"high", "train"} => work = "connect"
    /\ lock = "wq" <=> at["wq"] = "train"
    /\ lock = "user" <=> at["user"] = "train"
    /\ at["src"] \in {"low", "deinit"} \cup Leaving => at["wq"] = "idle" /\ queue = <<>>
    /\ at["src"] \notin {"idle", "configure"} => "high" \notin hpd
    /\ at["src"] = "deinit" => hpd = {}
    /\ at["src"] = "configure" => hpd # {}

\* The host is ready for a display that is connected, or about to be taken down; a link
\* is trained before there is a stream on it.
Left(t) == at[t] \in Leaving => "CONNECTED" \notin state
HostInv ==
    /\ "READY" \in state => "INITIALIZED" \in state
    /\ "READY" \in state => "CONNECTED" \in state \/ at["src"] \in Leaving \/ at["wq"] \in Leaving
    /\ at["wq"] = "train" => streams = 0
    /\ Left("src") /\ Left("wq")
    /\ StreamHasLink

\* After a disconnect, until the next report that brings the display back, nothing is left
\* and nothing runs.
Out == at["src"] \in {"idle", "configure", "deinit"} /\ ("high" \notin hpd \/ "ABORTED" \in state)
OutInv ==
    /\ Out => /\ streams = 0 /\ state \cap {"READY", "CONNECTED", "ENABLED"} = {}
              /\ at["wq"] = "idle" /\ queue = <<>>
    /\ at["src"] = "idle" /\ hpd = {} => state \cap {"CONFIGURED", "INITIALIZED"} = {}

\* A client that holds the display for connected is right, or is about to be told better.
ToldInv ==
    /\ sst => "CONNECT_NOTIFIED" \in state /\ "DISCONNECT_NOTIFIED" \notin state
    /\ sst => "CONNECTED" \in state \/ at["src"] = "tell" \/ at["wq"] = "tell"
    /\ \A t \in {"src", "wq"} : at[t] \in {"wait", "lowoff", "late", "clean"} => ~sst
    /\ at["wq"] = "train" => ~sst

-----------------------------------------------------------------------------
(* Every action keeps every part.                                          *)


\* What a notification does to the flags.
LEMMA NotifyFlags ==
    ASSUME FlagOK, NEW t, NEW wait, NEW next, Notify(t, wait, next)
    PROVE  sst' \in BOOLEAN /\ comp' \in BOOLEAN
<1> DEFINE high == Is("CONNECTED")
           bit == IF high THEN "CONNECT_NOTIFIED" ELSE "DISCONNECT_NOTIFIED"
<1>1. sst' = (IF Is(bit) THEN sst ELSE high) /\ comp' = (comp /\ Is(bit))
  BY Zenon DEF Notify
<1>2. high \in BOOLEAN
  <2>1. ("CONNECTED" \in state) \in BOOLEAN
    OBVIOUS
  <2> QED
    BY <2>1, Zenon DEF Is
<1>3. sst \in BOOLEAN
  BY Zenon DEF FlagOK
<1> HIDE DEF high, bit
<1>4. sst' \in BOOLEAN
  BY <1>1, <1>2, <1>3, Zenon
<1>5. comp' \in BOOLEAN
  BY <1>1, Zenon
<1> QED
  BY <1>4, <1>5

\* The positions of the threads, the lock and the counters.
LEMMA TypeStep ==
    ASSUME TypeOK, Next
    PROVE  TypeOK'
<1>1. ASSUME NEW h \in BOOLEAN, Attach(h) PROVE TypeOK'
  BY <1>1 DEF TypeOK, SrcAt, Attach, Step, Threads
<1>2. ASSUME NEW h \in BOOLEAN, Attention(h) PROVE TypeOK'
  BY <1>2 DEF TypeOK, Attention
<1>3. CASE AttentionLow
  BY <1>3 DEF TypeOK, SrcAt, AttentionLow, Step, Threads
<1>4. CASE Detach
  BY <1>4 DEF TypeOK, SrcAt, Detach, Goto, Threads
<1>5. ASSUME NEW ok \in BOOLEAN, Configure(ok) PROVE TypeOK'
  BY <1>5 DEF TypeOK, SrcAt, Configure, Step, Threads
<1>6. CASE Abort
  BY <1>6 DEF TypeOK, SrcAt, Abort, Step, Threads
<1>7. CASE Cancel
  BY <1>7 DEF TypeOK, SrcAt, Cancel, Step, Threads
<1>8. CASE Flush
  BY <1>8 DEF TypeOK, SrcAt, Flush, Step, Threads
<1>9. CASE HostDeinit
  BY <1>9 DEF TypeOK, SrcAt, HostDeinit, Step, Threads
<1>10. ASSUME NEW t \in {"src", "wq"}, HpdLow(t) PROVE TypeOK'
  BY <1>10 DEF TypeOK, SrcAt, WqAt, HpdLow, Step, Threads
<1>11. ASSUME NEW t \in {"src", "wq"}, TellLow(t) PROVE TypeOK'
  BY <1>11 DEF TypeOK, SrcAt, WqAt, TellLow, Notify, Goto, Threads
<1>12. ASSUME NEW t \in {"src", "wq"}, WaitLow(t) PROVE TypeOK'
  BY <1>12 DEF TypeOK, SrcAt, WqAt, WaitLow, Goto, Threads
<1>13. ASSUME NEW t \in {"src", "wq"}, LowOff(t) PROVE TypeOK'
  BY <1>13 DEF TypeOK, SrcAt, WqAt, LowOff, Goto, Threads
<1>14. ASSUME NEW t \in {"src", "wq"}, Clean(t) PROVE TypeOK'
  BY <1>14 DEF TypeOK, SrcAt, WqAt, Clean, Goto, Threads
<1>15. CASE StartConnect
  BY <1>15 DEF TypeOK, WqAt, StartConnect, Goto, Threads
<1>16. CASE StartAttention
  BY <1>16 DEF TypeOK, WqAt, StartAttention, Goto, Threads
<1>17. ASSUME NEW ok \in BOOLEAN, HpdHigh(ok) PROVE TypeOK'
  BY <1>17 DEF TypeOK, WqAt, HpdHigh, Goto, Threads
<1>18. ASSUME NEW ok \in BOOLEAN, ServeLink(ok) PROVE TypeOK'
  BY <1>18 DEF TypeOK, WqAt, ServeLink, Goto, Threads
<1>19. ASSUME NEW ok \in BOOLEAN, NEW sink \in BOOLEAN, Train(ok, sink) PROVE TypeOK'
  BY <1>19 DEF TypeOK, WqAt, Train, Goto, Threads
<1>20. CASE TellHigh
  BY <1>20 DEF TypeOK, WqAt, TellHigh, Notify, Goto, Threads
<1>21. CASE WaitHigh
  BY <1>21 DEF TypeOK, WqAt, WaitHigh, Step, Threads
<1>22. CASE ServePorts
  BY <1>22 DEF TypeOK, WqAt, ServePorts, Goto, Threads
<1>23. CASE ServePattern
  BY <1>23 DEF TypeOK, WqAt, ServePattern, Step, Threads
<1>24. CASE ServeNone
  BY <1>24 DEF TypeOK, WqAt, ServeNone, Step, Threads
<1>25. CASE ClientLooks
  BY <1>25 DEF TypeOK, ClientLooks
<1>26. CASE StartDisable
  BY <1>26 DEF TypeOK, UserAt, StartDisable, Step, Threads
<1>27. ASSUME NEW ok \in BOOLEAN, Prepare(ok) PROVE TypeOK'
  BY <1>27 DEF TypeOK, UserAt, Prepare, Goto, Threads
<1>28. ASSUME NEW ok \in BOOLEAN, PrepareLink(ok) PROVE TypeOK'
  BY <1>28 DEF TypeOK, UserAt, PrepareLink, Goto, Threads
<1>29. ASSUME NEW ok \in BOOLEAN, Enable(ok) PROVE TypeOK'
  BY <1>29 DEF TypeOK, UserAt, Enable, Step, Threads
<1>30. CASE PostEnable
  BY <1>30 DEF TypeOK, UserAt, PostEnable, Step, Threads
<1>31. CASE Disable
  BY <1>31 DEF TypeOK, UserAt, Disable, Step, Threads
<1>32. CASE Unprepare
  BY <1>32 DEF TypeOK, UserAt, Unprepare, Step, Threads
<1>33. CASE Suspend
  BY <1>33 DEF TypeOK, Suspend
<1>34. CASE Resume
  BY <1>34 DEF TypeOK, Resume
<1> QED
  BY <1>1, <1>2, <1>3, <1>4, <1>5, <1>6, <1>7, <1>8, <1>9, <1>10, <1>11, <1>12, <1>13, <1>14,
     <1>15, <1>16, <1>17, <1>18, <1>19, <1>20, <1>21, <1>22, <1>23, <1>24, <1>25, <1>26, <1>27, <1>28, <1>29, <1>30, <1>31, <1>32, <1>33, <1>34
     DEF Next, Report, Source, WorkQueue, Client, Commit, Disconnect

\* Flags stay flags.
LEMMA FlagStep ==
    ASSUME TypeOK, FlagOK, Next
    PROVE  FlagOK'
<1>1. ASSUME NEW h \in BOOLEAN, Attach(h) PROVE FlagOK'
  BY <1>1, Zenon DEF FlagOK, Attach
<1>2. ASSUME NEW h \in BOOLEAN, Attention(h) PROVE FlagOK'
  BY <1>2, Zenon DEF FlagOK, Attention
<1>3. CASE AttentionLow
  BY <1>3, Zenon DEF FlagOK, AttentionLow
<1>4. CASE Detach
  BY <1>4, Zenon DEF FlagOK, Detach
<1>5. ASSUME NEW ok \in BOOLEAN, Configure(ok) PROVE FlagOK'
  BY <1>5, Zenon DEF FlagOK, Configure
<1>6. CASE Abort
  BY <1>6, Zenon DEF FlagOK, Abort
<1>7. CASE Cancel
  BY <1>7, Zenon DEF FlagOK, Cancel
<1>8. CASE Flush
  BY <1>8, Zenon DEF FlagOK, Flush
<1>9. CASE HostDeinit
  BY <1>9, Zenon DEF FlagOK, HostDeinit
<1>10. ASSUME NEW t \in {"src", "wq"}, HpdLow(t) PROVE FlagOK'
  BY <1>10, Zenon DEF FlagOK, HpdLow
<1>11. ASSUME NEW t \in {"src", "wq"}, TellLow(t) PROVE FlagOK'
  <2>1. sst' \in BOOLEAN
    BY <1>11, NotifyFlags, Zenon DEF TellLow, FlagOK, Goto
  <2>2. comp' \in BOOLEAN
    BY <1>11, NotifyFlags, Zenon DEF TellLow, FlagOK, Goto
  <2> QED
    BY <1>11, <2>1, <2>2, Zenon DEF TellLow, FlagOK
<1>12. ASSUME NEW t \in {"src", "wq"}, WaitLow(t) PROVE FlagOK'
  BY <1>12, Zenon DEF FlagOK, WaitLow
<1>13. ASSUME NEW t \in {"src", "wq"}, LowOff(t) PROVE FlagOK'
  BY <1>13, Zenon DEF FlagOK, LowOff
<1>14. ASSUME NEW t \in {"src", "wq"}, Clean(t) PROVE FlagOK'
  BY <1>14, Zenon DEF FlagOK, Clean
<1>15. CASE StartConnect
  BY <1>15, Zenon DEF FlagOK, StartConnect
<1>16. CASE StartAttention
  BY <1>16, Zenon DEF FlagOK, StartAttention
<1>17. ASSUME NEW ok \in BOOLEAN, HpdHigh(ok) PROVE FlagOK'
  BY <1>17, Zenon DEF FlagOK, HpdHigh
<1>18. ASSUME NEW ok \in BOOLEAN, ServeLink(ok) PROVE FlagOK'
  BY <1>18, Zenon DEF FlagOK, ServeLink
<1>19. ASSUME NEW ok \in BOOLEAN, NEW sink \in BOOLEAN, Train(ok, sink) PROVE FlagOK'
  BY <1>19, Zenon DEF FlagOK, Train
<1>20. CASE TellHigh
  <2>1. sst' \in BOOLEAN
    BY <1>20, NotifyFlags, Zenon DEF TellHigh, FlagOK, Goto
  <2>2. comp' \in BOOLEAN
    BY <1>20, NotifyFlags, Zenon DEF TellHigh, FlagOK, Goto
  <2> QED
    BY <1>20, <2>1, <2>2, Zenon DEF TellHigh, FlagOK
<1>21. CASE WaitHigh
  BY <1>21, Zenon DEF FlagOK, WaitHigh
<1>22. CASE ServePorts
  BY <1>22, Zenon DEF FlagOK, ServePorts
<1>23. CASE ServePattern
  BY <1>23, Zenon DEF FlagOK, ServePattern
<1>24. CASE ServeNone
  BY <1>24, Zenon DEF FlagOK, ServeNone
<1>25. CASE ClientLooks
  BY <1>25, Zenon DEF FlagOK, ClientLooks
<1>26. CASE StartDisable
  BY <1>26, Zenon DEF FlagOK, StartDisable
<1>27. ASSUME NEW ok \in BOOLEAN, Prepare(ok) PROVE FlagOK'
  BY <1>27, Zenon DEF FlagOK, Prepare
<1>28. ASSUME NEW ok \in BOOLEAN, PrepareLink(ok) PROVE FlagOK'
  BY <1>28, Zenon DEF FlagOK, PrepareLink
<1>29. ASSUME NEW ok \in BOOLEAN, Enable(ok) PROVE FlagOK'
  BY <1>29, Zenon DEF FlagOK, Enable
<1>30. CASE PostEnable
  BY <1>30, Zenon DEF FlagOK, PostEnable
<1>31. CASE Disable
  BY <1>31, Zenon DEF FlagOK, Disable
<1>32. CASE Unprepare
  BY <1>32, Zenon DEF FlagOK, Unprepare
<1>33. CASE Suspend
  BY <1>33, Zenon DEF FlagOK, Suspend
<1>34. CASE Resume
  BY <1>34, Zenon DEF FlagOK, Resume
<1> QED
  BY <1>1, <1>2, <1>3, <1>4, <1>5, <1>6, <1>7, <1>8, <1>9, <1>10, <1>11, <1>12, <1>13, <1>14,
     <1>15, <1>16, <1>17, <1>18, <1>19, <1>20, <1>21, <1>22, <1>23, <1>24, <1>25, <1>26, <1>27, <1>28, <1>29, <1>30, <1>31, <1>32, <1>33, <1>34
     DEF Next, Report, Source, WorkQueue, Client, Commit, Disconnect

\* dp->state has no other bits.
LEMMA BitsStep ==
    ASSUME TypeOK, BitsOK, Next
    PROVE  BitsOK'
<1>1. ASSUME NEW h \in BOOLEAN, Attach(h) PROVE BitsOK'
  BY <1>1 DEF BitsOK, Attach
<1>2. ASSUME NEW h \in BOOLEAN, Attention(h) PROVE BitsOK'
  BY <1>2 DEF BitsOK, Attention
<1>3. CASE AttentionLow
  BY <1>3 DEF BitsOK, AttentionLow
<1>4. CASE Detach
  BY <1>4 DEF BitsOK, Detach
<1>5. ASSUME NEW ok \in BOOLEAN, Configure(ok) PROVE BitsOK'
  BY <1>5 DEF BitsOK, Bits, Configure
<1>6. CASE Abort
  BY <1>6 DEF BitsOK, Bits, Abort
<1>7. CASE Cancel
  BY <1>7 DEF BitsOK, Cancel
<1>8. CASE Flush
  BY <1>8 DEF BitsOK, Flush
<1>9. CASE HostDeinit
  BY <1>9 DEF BitsOK, HostDeinit, Deinit
<1>10. ASSUME NEW t \in {"src", "wq"}, HpdLow(t) PROVE BitsOK'
  BY <1>10 DEF BitsOK, HpdLow
<1>11. ASSUME NEW t \in {"src", "wq"}, TellLow(t) PROVE BitsOK'
  BY <1>11 DEF BitsOK, Bits, TellLow, Notify
<1>12. ASSUME NEW t \in {"src", "wq"}, WaitLow(t) PROVE BitsOK'
  BY <1>12 DEF BitsOK, WaitLow
<1>13. ASSUME NEW t \in {"src", "wq"}, LowOff(t) PROVE BitsOK'
  BY <1>13 DEF BitsOK, LowOff
<1>14. ASSUME NEW t \in {"src", "wq"}, Clean(t) PROVE BitsOK'
  BY <1>14 DEF BitsOK, Clean, Unready
<1>15. CASE StartConnect
  BY <1>15 DEF BitsOK, StartConnect
<1>16. CASE StartAttention
  BY <1>16 DEF BitsOK, StartAttention
<1>17. ASSUME NEW ok \in BOOLEAN, HpdHigh(ok) PROVE BitsOK'
  BY <1>17 DEF BitsOK, Bits, HpdHigh
<1>18. ASSUME NEW ok \in BOOLEAN, ServeLink(ok) PROVE BitsOK'
  BY <1>18 DEF BitsOK, ServeLink
<1>19. ASSUME NEW ok \in BOOLEAN, NEW sink \in BOOLEAN, Train(ok, sink) PROVE BitsOK'
  BY <1>19 DEF BitsOK, Train, Unready
<1>20. CASE TellHigh
  BY <1>20 DEF BitsOK, Bits, TellHigh, Notify
<1>21. CASE WaitHigh
  BY <1>21 DEF BitsOK, WaitHigh
<1>22. CASE ServePorts
  BY <1>22 DEF BitsOK, ServePorts
<1>23. CASE ServePattern
  BY <1>23 DEF BitsOK, ServePattern
<1>24. CASE ServeNone
  BY <1>24 DEF BitsOK, ServeNone
<1>25. CASE ClientLooks
  BY <1>25 DEF BitsOK, ClientLooks
<1>26. CASE StartDisable
  BY <1>26 DEF BitsOK, StartDisable
<1>27. ASSUME NEW ok \in BOOLEAN, Prepare(ok) PROVE BitsOK'
  BY <1>27 DEF BitsOK, Bits, Prepare
<1>28. ASSUME NEW ok \in BOOLEAN, PrepareLink(ok) PROVE BitsOK'
  BY <1>28 DEF BitsOK, PrepareLink
<1>29. ASSUME NEW ok \in BOOLEAN, Enable(ok) PROVE BitsOK'
  BY <1>29 DEF BitsOK, Bits, Enable
<1>30. CASE PostEnable
  BY <1>30 DEF BitsOK, PostEnable
<1>31. CASE Disable
  BY <1>31 DEF BitsOK, Disable
<1>32. CASE Unprepare
  BY <1>32 DEF BitsOK, Bits, Unprepare, Deinit
<1>33. CASE Suspend
  BY <1>33 DEF BitsOK, Bits, Suspend
<1>34. CASE Resume
  BY <1>34 DEF BitsOK, Resume
<1> QED
  BY <1>1, <1>2, <1>3, <1>4, <1>5, <1>6, <1>7, <1>8, <1>9, <1>10, <1>11, <1>12, <1>13, <1>14,
     <1>15, <1>16, <1>17, <1>18, <1>19, <1>20, <1>21, <1>22, <1>23, <1>24, <1>25, <1>26, <1>27, <1>28, <1>29, <1>30, <1>31, <1>32, <1>33, <1>34
     DEF Next, Report, Source, WorkQueue, Client, Commit, Disconnect

\* The bounds are counted.
LEMMA UsedStep ==
    ASSUME UsedOK, Next
    PROVE  UsedOK'
<1>1. ASSUME NEW h \in BOOLEAN, Attach(h) PROVE UsedOK'
  BY <1>1 DEF UsedOK, Spend, Attach
<1>2. ASSUME NEW h \in BOOLEAN, Attention(h) PROVE UsedOK'
  BY <1>2 DEF UsedOK, Spend, Attention
<1>3. CASE AttentionLow
  BY <1>3 DEF UsedOK, Spend, AttentionLow
<1>4. CASE Detach
  BY <1>4 DEF UsedOK, Spend, Detach
<1>5. ASSUME NEW ok \in BOOLEAN, Configure(ok) PROVE UsedOK'
  BY <1>5 DEF UsedOK, Works, Spend, Configure
<1>6. CASE Abort
  BY <1>6 DEF UsedOK, Abort
<1>7. CASE Cancel
  BY <1>7 DEF UsedOK, Cancel
<1>8. CASE Flush
  BY <1>8 DEF UsedOK, Flush
<1>9. CASE HostDeinit
  BY <1>9 DEF UsedOK, HostDeinit
<1>10. ASSUME NEW t \in {"src", "wq"}, HpdLow(t) PROVE UsedOK'
  BY <1>10 DEF UsedOK, HpdLow
<1>11. ASSUME NEW t \in {"src", "wq"}, TellLow(t) PROVE UsedOK'
  BY <1>11 DEF UsedOK, TellLow
<1>12. ASSUME NEW t \in {"src", "wq"}, WaitLow(t) PROVE UsedOK'
  BY <1>12 DEF UsedOK, WaitLow
<1>13. ASSUME NEW t \in {"src", "wq"}, LowOff(t) PROVE UsedOK'
  BY <1>13 DEF UsedOK, LowOff
<1>14. ASSUME NEW t \in {"src", "wq"}, Clean(t) PROVE UsedOK'
  BY <1>14 DEF UsedOK, Clean
<1>15. CASE StartConnect
  BY <1>15 DEF UsedOK, StartConnect
<1>16. CASE StartAttention
  BY <1>16 DEF UsedOK, StartAttention
<1>17. ASSUME NEW ok \in BOOLEAN, HpdHigh(ok) PROVE UsedOK'
  BY <1>17 DEF UsedOK, Spend, HpdHigh
<1>18. ASSUME NEW ok \in BOOLEAN, ServeLink(ok) PROVE UsedOK'
  BY <1>18 DEF UsedOK, Spend, ServeLink
<1>19. ASSUME NEW ok \in BOOLEAN, NEW sink \in BOOLEAN, Train(ok, sink) PROVE UsedOK'
  BY <1>19 DEF UsedOK, Train
<1>20. CASE TellHigh
  BY <1>20 DEF UsedOK, TellHigh
<1>21. CASE WaitHigh
  BY <1>21 DEF UsedOK, WaitHigh
<1>22. CASE ServePorts
  BY <1>22 DEF UsedOK, ServePorts
<1>23. CASE ServePattern
  BY <1>23 DEF UsedOK, ServePattern
<1>24. CASE ServeNone
  BY <1>24 DEF UsedOK, ServeNone
<1>25. CASE ClientLooks
  BY <1>25 DEF UsedOK, ClientLooks
<1>26. CASE StartDisable
  BY <1>26 DEF UsedOK, StartDisable
<1>27. ASSUME NEW ok \in BOOLEAN, Prepare(ok) PROVE UsedOK'
  BY <1>27 DEF UsedOK, Spend, Prepare
<1>28. ASSUME NEW ok \in BOOLEAN, PrepareLink(ok) PROVE UsedOK'
  BY <1>28 DEF UsedOK, Works, Spend, PrepareLink
<1>29. ASSUME NEW ok \in BOOLEAN, Enable(ok) PROVE UsedOK'
  BY <1>29 DEF UsedOK, Works, Spend, Enable
<1>30. CASE PostEnable
  BY <1>30 DEF UsedOK, PostEnable
<1>31. CASE Disable
  BY <1>31 DEF UsedOK, Disable
<1>32. CASE Unprepare
  BY <1>32 DEF UsedOK, Unprepare
<1>33. CASE Suspend
  BY <1>33 DEF UsedOK, Spend, Suspend
<1>34. CASE Resume
  BY <1>34 DEF UsedOK, Resume
<1> QED
  BY <1>1, <1>2, <1>3, <1>4, <1>5, <1>6, <1>7, <1>8, <1>9, <1>10, <1>11, <1>12, <1>13, <1>14,
     <1>15, <1>16, <1>17, <1>18, <1>19, <1>20, <1>21, <1>22, <1>23, <1>24, <1>25, <1>26, <1>27, <1>28, <1>29, <1>30, <1>31, <1>32, <1>33, <1>34
     DEF Next, Report, Source, WorkQueue, Client, Commit, Disconnect

\* The threads exclude one another.
LEMMA WorkStep ==
    ASSUME TypeOK, FlagOK, WorkInv, Next
    PROVE  WorkInv'
<1>1. ASSUME NEW h \in BOOLEAN, Attach(h) PROVE WorkInv'
  BY <1>1 DEF WorkInv, Leaving, Attach, Step
<1>2. ASSUME NEW h \in BOOLEAN, Attention(h) PROVE WorkInv'
  BY <1>2 DEF WorkInv, Leaving, Attention
<1>3. CASE AttentionLow
  BY <1>3 DEF WorkInv, Leaving, AttentionLow, Step
<1>4. CASE Detach
  BY <1>4 DEF WorkInv, Leaving, Detach, Goto
<1>5. ASSUME NEW ok \in BOOLEAN, Configure(ok) PROVE WorkInv'
  BY <1>5 DEF WorkInv, Leaving, Configure, Step
<1>6. CASE Abort
  BY <1>6 DEF WorkInv, Leaving, Abort, Step
<1>7. CASE Cancel
  BY <1>7 DEF WorkInv, Leaving, Cancel, Step
<1>8. CASE Flush
  BY <1>8 DEF WorkInv, Flush, Step
<1>9. CASE HostDeinit
  BY <1>9 DEF WorkInv, HostDeinit, Step
<1>10. ASSUME NEW t \in {"src", "wq"}, HpdLow(t) PROVE WorkInv'
  BY <1>10 DEF WorkInv, HpdLow, Step
<1>11. ASSUME NEW t \in {"src", "wq"}, TellLow(t) PROVE WorkInv'
  BY <1>11 DEF TypeOK, WorkInv, Leaving, TellLow, Notify, Goto, Threads
<1>12. ASSUME NEW t \in {"src", "wq"}, WaitLow(t) PROVE WorkInv'
  BY <1>12 DEF WorkInv, Leaving, WaitLow, Goto
<1>13. ASSUME NEW t \in {"src", "wq"}, LowOff(t) PROVE WorkInv'
  BY <1>13 DEF WorkInv, Leaving, LowOff, Goto
<1>14. ASSUME NEW t \in {"src", "wq"}, Clean(t) PROVE WorkInv'
  BY <1>14 DEF TypeOK, WorkInv, Leaving, Clean, Goto, Threads
<1>15. CASE StartConnect
  BY <1>15 DEF TypeOK, WorkInv, StartConnect, Goto, Threads
<1>16. CASE StartAttention
  BY <1>16 DEF TypeOK, WorkInv, StartAttention, Goto, Threads
<1>17. ASSUME NEW ok \in BOOLEAN, HpdHigh(ok) PROVE WorkInv'
  BY <1>17 DEF TypeOK, WorkInv, HpdHigh, Goto, Free, Threads
<1>18. ASSUME NEW ok \in BOOLEAN, ServeLink(ok) PROVE WorkInv'
  BY <1>18 DEF TypeOK, WorkInv, ServeLink, Goto, Threads
<1>19. ASSUME NEW ok \in BOOLEAN, NEW sink \in BOOLEAN, Train(ok, sink) PROVE WorkInv'
  BY <1>19 DEF TypeOK, WorkInv, Train, Goto, Threads
<1>20. CASE TellHigh
  BY <1>20 DEF TypeOK, WorkInv, TellHigh, Notify, Goto, Threads
<1>21. CASE WaitHigh
  BY <1>21 DEF TypeOK, WorkInv, WaitHigh, Step, Threads
<1>22. CASE ServePorts
  BY <1>22 DEF TypeOK, WorkInv, ServePorts, Goto, Threads
<1>23. CASE ServePattern
  BY <1>23 DEF WorkInv, ServePattern, Step
<1>24. CASE ServeNone
  BY <1>24 DEF WorkInv, ServeNone, Step
<1>25. CASE ClientLooks
  BY <1>25 DEF WorkInv, ClientLooks
<1>26. CASE StartDisable
  BY <1>26 DEF WorkInv, StartDisable, Step
<1>27. ASSUME NEW ok \in BOOLEAN, Prepare(ok) PROVE WorkInv'
  BY <1>27 DEF TypeOK, WorkInv, Prepare, Goto, Free, Threads
<1>28. ASSUME NEW ok \in BOOLEAN, PrepareLink(ok) PROVE WorkInv'
  BY <1>28 DEF TypeOK, WorkInv, PrepareLink, Goto, Threads
<1>29. ASSUME NEW ok \in BOOLEAN, Enable(ok) PROVE WorkInv'
  BY <1>29 DEF WorkInv, Enable, Step
<1>30. CASE PostEnable
  BY <1>30 DEF WorkInv, PostEnable, Step
<1>31. CASE Disable
  BY <1>31 DEF WorkInv, Disable, Step
<1>32. CASE Unprepare
  BY <1>32 DEF WorkInv, Unprepare, Step
<1>33. CASE Suspend
  BY <1>33 DEF WorkInv, Suspend
<1>34. CASE Resume
  BY <1>34 DEF WorkInv, Resume
<1> QED
  BY <1>1, <1>2, <1>3, <1>4, <1>5, <1>6, <1>7, <1>8, <1>9, <1>10, <1>11, <1>12, <1>13, <1>14,
     <1>15, <1>16, <1>17, <1>18, <1>19, <1>20, <1>21, <1>22, <1>23, <1>24, <1>25, <1>26, <1>27, <1>28, <1>29, <1>30, <1>31, <1>32, <1>33, <1>34
     DEF Next, Report, Source, WorkQueue, Client, Commit, Disconnect

\* The host follows the connection.
LEMMA HostStep ==
    ASSUME TypeOK, FlagOK, WorkInv, HostInv, Next
    PROVE  HostInv'
<1>1. ASSUME NEW h \in BOOLEAN, Attach(h) PROVE HostInv'
  BY <1>1 DEF HostInv, Left, StreamHasLink, Leaving, Attach, Step
<1>2. ASSUME NEW h \in BOOLEAN, Attention(h) PROVE HostInv'
  BY <1>2 DEF HostInv, Left, StreamHasLink, Attention
<1>3. CASE AttentionLow
  BY <1>3 DEF HostInv, Left, StreamHasLink, Leaving, AttentionLow, Step
<1>4. CASE Detach
  BY <1>4 DEF HostInv, Left, StreamHasLink, Leaving, Detach, Goto
<1>5. ASSUME NEW ok \in BOOLEAN, Configure(ok) PROVE HostInv'
  BY <1>5 DEF HostInv, Left, StreamHasLink, Leaving, Configure, Step
<1>6. CASE Abort
  BY <1>6 DEF HostInv, Left, StreamHasLink, Leaving, Abort, Step
<1>7. CASE Cancel
  BY <1>7 DEF HostInv, Left, StreamHasLink, Leaving, Cancel, Step
<1>8. CASE Flush
  BY <1>8 DEF HostInv, Left, StreamHasLink, Leaving, Flush, Step
<1>9. CASE HostDeinit
  BY <1>9 DEF HostInv, Left, StreamHasLink, Leaving, HostDeinit, Deinit, Step
<1>10. ASSUME NEW t \in {"src", "wq"}, HpdLow(t) PROVE HostInv'
  BY <1>10 DEF TypeOK, HostInv, Left, StreamHasLink, Leaving, HpdLow, Step, Threads
<1>11. ASSUME NEW t \in {"src", "wq"}, TellLow(t) PROVE HostInv'
  BY <1>11 DEF TypeOK, HostInv, Left, StreamHasLink, Leaving, TellLow, Notify, Goto, Threads
<1>12. ASSUME NEW t \in {"src", "wq"}, WaitLow(t) PROVE HostInv'
  BY <1>12 DEF HostInv, Left, StreamHasLink, Leaving, WaitLow, Goto
<1>13. ASSUME NEW t \in {"src", "wq"}, LowOff(t) PROVE HostInv'
  BY <1>13 DEF TypeOK, HostInv, Left, StreamHasLink, Leaving, LowOff, Goto, Threads
<1>14. ASSUME NEW t \in {"src", "wq"}, Clean(t) PROVE HostInv'
  BY <1>14 DEF HostInv, Left, StreamHasLink, Leaving, Clean, Unready, Goto, Is
<1>15. CASE StartConnect
  BY <1>15 DEF HostInv, Left, StreamHasLink, Leaving, StartConnect, Goto
<1>16. CASE StartAttention
  BY <1>16 DEF TypeOK, HostInv, Left, StreamHasLink, Leaving, StartAttention, Goto, Threads
<1>17. ASSUME NEW ok \in BOOLEAN, HpdHigh(ok) PROVE HostInv'
  BY <1>17 DEF TypeOK, WorkInv, HostInv, Left, StreamHasLink, Leaving, HpdHigh, Goto, Is, Threads
<1>18. ASSUME NEW ok \in BOOLEAN, ServeLink(ok) PROVE HostInv'
  BY <1>18 DEF HostInv, Left, StreamHasLink, Leaving, ServeLink, Goto
<1>19. ASSUME NEW ok \in BOOLEAN, NEW sink \in BOOLEAN, Train(ok, sink) PROVE HostInv'
  BY <1>19 DEF HostInv, Left, StreamHasLink, Leaving, Train, Unready, Goto
<1>20. CASE TellHigh
  BY <1>20 DEF TypeOK, HostInv, Left, StreamHasLink, Leaving, TellHigh, Notify, Goto, Threads
<1>21. CASE WaitHigh
  BY <1>21 DEF HostInv, Left, StreamHasLink, Leaving, WaitHigh, Step
<1>22. CASE ServePorts
  BY <1>22 DEF TypeOK, HostInv, Left, StreamHasLink, Leaving, ServePorts, Goto, Threads
<1>23. CASE ServePattern
  BY <1>23 DEF HostInv, Left, StreamHasLink, Leaving, ServePattern, Step
<1>24. CASE ServeNone
  BY <1>24 DEF HostInv, Left, StreamHasLink, Leaving, ServeNone, Step
<1>25. CASE ClientLooks
  BY <1>25 DEF HostInv, Left, StreamHasLink, ClientLooks
<1>26. CASE StartDisable
  BY <1>26 DEF HostInv, Left, StreamHasLink, StartDisable, Step
<1>27. ASSUME NEW ok \in BOOLEAN, Prepare(ok) PROVE HostInv'
  BY <1>27 DEF TypeOK, HostInv, Left, StreamHasLink, Prepare, Ready, Goto, Is, Threads
<1>28. ASSUME NEW ok \in BOOLEAN, PrepareLink(ok) PROVE HostInv'
  BY <1>28 DEF TypeOK, HostInv, Left, StreamHasLink, PrepareLink, Goto, Threads
<1>29. ASSUME NEW ok \in BOOLEAN, Enable(ok) PROVE HostInv'
  BY <1>29 DEF WorkInv, HostInv, Left, StreamHasLink, Enable, Step, Is, Free
<1>30. CASE PostEnable
  BY <1>30 DEF HostInv, Left, StreamHasLink, PostEnable, Step
<1>31. CASE Disable
  BY <1>31 DEF HostInv, Left, StreamHasLink, Disable, Step
<1>32. CASE Unprepare
  BY <1>32 DEF HostInv, Left, StreamHasLink, Unprepare, Deinit, Step
<1>33. CASE Suspend
  BY <1>33 DEF HostInv, Left, StreamHasLink, Suspend
<1>34. CASE Resume
  BY <1>34 DEF HostInv, Left, StreamHasLink, Resume
<1> QED
  BY <1>1, <1>2, <1>3, <1>4, <1>5, <1>6, <1>7, <1>8, <1>9, <1>10, <1>11, <1>12, <1>13, <1>14,
     <1>15, <1>16, <1>17, <1>18, <1>19, <1>20, <1>21, <1>22, <1>23, <1>24, <1>25, <1>26, <1>27, <1>28, <1>29, <1>30, <1>31, <1>32, <1>33, <1>34
     DEF Next, Report, Source, WorkQueue, Client, Commit, Disconnect

\* Nothing comes back after a disconnect.
LEMMA OutStep ==
    ASSUME TypeOK, FlagOK, WorkInv, HostInv, OutInv, Next
    PROVE  OutInv'
<1>1. ASSUME NEW h \in BOOLEAN, Attach(h) PROVE OutInv'
  BY <1>1 DEF TypeOK, OutInv, Out, Attach, Step
<1>2. ASSUME NEW h \in BOOLEAN, Attention(h) PROVE OutInv'
  BY <1>2 DEF OutInv, Out, Attention, Is
<1>3. CASE AttentionLow
  BY <1>3 DEF TypeOK, OutInv, Out, AttentionLow, Step, Threads
<1>4. CASE Detach
  BY <1>4 DEF TypeOK, OutInv, Out, Detach, Goto, Is, Threads
<1>5. ASSUME NEW ok \in BOOLEAN, Configure(ok) PROVE OutInv'
  BY <1>5 DEF WorkInv, OutInv, Out, Configure, Step
<1>6. CASE Abort
  BY <1>6 DEF OutInv, Out, Abort, Step
<1>7. CASE Cancel
  BY <1>7 DEF OutInv, Out, Cancel, Step
<1>8. CASE Flush
  BY <1>8 DEF OutInv, Out, Flush, Step
<1>9. CASE HostDeinit
  BY <1>9 DEF OutInv, Out, HostDeinit, Deinit, Step
<1>10. ASSUME NEW t \in {"src", "wq"}, HpdLow(t) PROVE OutInv'
  BY <1>10 DEF OutInv, Out, HpdLow, Step
<1>11. ASSUME NEW t \in {"src", "wq"}, TellLow(t) PROVE OutInv'
  BY <1>11 DEF TypeOK, OutInv, Out, TellLow, Notify, Goto, Threads
<1>12. ASSUME NEW t \in {"src", "wq"}, WaitLow(t) PROVE OutInv'
  BY <1>12 DEF OutInv, Out, WaitLow, Goto
<1>13. ASSUME NEW t \in {"src", "wq"}, LowOff(t) PROVE OutInv'
  BY <1>13 DEF OutInv, Out, LowOff, Goto
<1>14. ASSUME NEW t \in {"src", "wq"}, Clean(t) PROVE OutInv'
  BY <1>14 DEF TypeOK, WorkInv, HostInv, Left, StreamHasLink, OutInv, Out, Leaving, Clean,
     Unready, Goto, Is
<1>15. CASE StartConnect
  BY <1>15 DEF OutInv, Out, StartConnect, Goto
<1>16. CASE StartAttention
  BY <1>16 DEF TypeOK, OutInv, Out, StartAttention, Goto, Threads
<1>17. ASSUME NEW ok \in BOOLEAN, HpdHigh(ok) PROVE OutInv'
  BY <1>17 DEF TypeOK, OutInv, Out, HpdHigh, Goto, Threads
<1>18. ASSUME NEW ok \in BOOLEAN, ServeLink(ok) PROVE OutInv'
  BY <1>18 DEF OutInv, Out, ServeLink, Goto
<1>19. ASSUME NEW ok \in BOOLEAN, NEW sink \in BOOLEAN, Train(ok, sink) PROVE OutInv'
  BY <1>19 DEF OutInv, Out, Train, Unready, Goto
<1>20. CASE TellHigh
  BY <1>20 DEF TypeOK, OutInv, Out, TellHigh, Notify, Goto, Threads
<1>21. CASE WaitHigh
  BY <1>21 DEF OutInv, Out, WaitHigh, Step
<1>22. CASE ServePorts
  BY <1>22 DEF TypeOK, OutInv, Out, ServePorts, Goto, Threads
<1>23. CASE ServePattern
  BY <1>23 DEF OutInv, Out, ServePattern, Step
<1>24. CASE ServeNone
  BY <1>24 DEF OutInv, Out, ServeNone, Step
<1>25. CASE ClientLooks
  BY <1>25 DEF OutInv, Out, ClientLooks
<1>26. CASE StartDisable
  BY <1>26 DEF OutInv, Out, StartDisable, Step
<1>27. ASSUME NEW ok \in BOOLEAN, Prepare(ok) PROVE OutInv'
  BY <1>27 DEF TypeOK, OutInv, Out, Prepare, Ready, Goto, Is, Threads
<1>28. ASSUME NEW ok \in BOOLEAN, PrepareLink(ok) PROVE OutInv'
  BY <1>28 DEF OutInv, Out, PrepareLink, Goto
<1>29. ASSUME NEW ok \in BOOLEAN, Enable(ok) PROVE OutInv'
  BY <1>29 DEF OutInv, Out, Enable, Step, Is
<1>30. CASE PostEnable
  BY <1>30 DEF OutInv, Out, PostEnable, Step
<1>31. CASE Disable
  BY <1>31 DEF OutInv, Out, Disable, Step
<1>32. CASE Unprepare
  BY <1>32 DEF OutInv, Out, Unprepare, Deinit, Step
<1>33. CASE Suspend
  BY <1>33 DEF OutInv, Out, Suspend
<1>34. CASE Resume
  BY <1>34 DEF OutInv, Out, Resume
<1> QED
  BY <1>1, <1>2, <1>3, <1>4, <1>5, <1>6, <1>7, <1>8, <1>9, <1>10, <1>11, <1>12, <1>13, <1>14,
     <1>15, <1>16, <1>17, <1>18, <1>19, <1>20, <1>21, <1>22, <1>23, <1>24, <1>25, <1>26, <1>27, <1>28, <1>29, <1>30, <1>31, <1>32, <1>33, <1>34
     DEF Next, Report, Source, WorkQueue, Client, Commit, Disconnect

\* The client is told.
LEMMA ToldStep ==
    ASSUME TypeOK, FlagOK, WorkInv, HostInv, ToldInv, Next
    PROVE  ToldInv'
<1>1. ASSUME NEW h \in BOOLEAN, Attach(h) PROVE ToldInv'
  BY <1>1 DEF ToldInv, Attach, Step
<1>2. ASSUME NEW h \in BOOLEAN, Attention(h) PROVE ToldInv'
  BY <1>2 DEF ToldInv, Attention
<1>3. CASE AttentionLow
  BY <1>3 DEF ToldInv, AttentionLow, Step
<1>4. CASE Detach
  BY <1>4 DEF ToldInv, Detach, Goto
<1>5. ASSUME NEW ok \in BOOLEAN, Configure(ok) PROVE ToldInv'
  BY <1>5 DEF ToldInv, Configure, Step
<1>6. CASE Abort
  BY <1>6 DEF ToldInv, Abort, Step
<1>7. CASE Cancel
  BY <1>7 DEF ToldInv, Cancel, Step
<1>8. CASE Flush
  BY <1>8 DEF ToldInv, Flush, Step
<1>9. CASE HostDeinit
  BY <1>9 DEF ToldInv, HostDeinit, Deinit, Step
<1>10. ASSUME NEW t \in {"src", "wq"}, HpdLow(t) PROVE ToldInv'
  BY <1>10 DEF TypeOK, ToldInv, HpdLow, Step, Threads
<1>11. ASSUME NEW t \in {"src", "wq"}, TellLow(t) PROVE ToldInv'
  BY <1>11 DEF HostInv, Left, ToldInv, Leaving, TellLow, Notify, Is
<1>12. ASSUME NEW t \in {"src", "wq"}, WaitLow(t) PROVE ToldInv'
  BY <1>12 DEF ToldInv, WaitLow
<1>13. ASSUME NEW t \in {"src", "wq"}, LowOff(t) PROVE ToldInv'
  BY <1>13 DEF ToldInv, LowOff
<1>14. ASSUME NEW t \in {"src", "wq"}, Clean(t) PROVE ToldInv'
  BY <1>14 DEF ToldInv, Clean
<1>15. CASE StartConnect
  BY <1>15 DEF ToldInv, StartConnect, Goto
<1>16. CASE StartAttention
  BY <1>16 DEF TypeOK, ToldInv, StartAttention, Goto, Threads
<1>17. ASSUME NEW ok \in BOOLEAN, HpdHigh(ok) PROVE ToldInv'
  BY <1>17 DEF TypeOK, WorkInv, ToldInv, Leaving, HpdHigh, Goto, Is, Threads
<1>18. ASSUME NEW ok \in BOOLEAN, ServeLink(ok) PROVE ToldInv'
  BY <1>18 DEF ToldInv, ServeLink, Goto
<1>19. ASSUME NEW ok \in BOOLEAN, NEW sink \in BOOLEAN, Train(ok, sink) PROVE ToldInv'
  BY <1>19 DEF ToldInv, Train
<1>20. CASE TellHigh
  BY <1>20 DEF TypeOK, FlagOK, WorkInv, ToldInv, Leaving, TellHigh, Notify, Goto, Is, Threads
<1>21. CASE WaitHigh
  BY <1>21 DEF ToldInv, WaitHigh, Step
<1>22. CASE ServePorts
  BY <1>22 DEF TypeOK, ToldInv, ServePorts, Goto, Threads
<1>23. CASE ServePattern
  BY <1>23 DEF ToldInv, ServePattern, Step
<1>24. CASE ServeNone
  BY <1>24 DEF ToldInv, ServeNone, Step
<1>25. CASE ClientLooks
  BY <1>25 DEF ToldInv, ClientLooks
<1>26. CASE StartDisable
  BY <1>26 DEF ToldInv, StartDisable, Step
<1>27. ASSUME NEW ok \in BOOLEAN, Prepare(ok) PROVE ToldInv'
  BY <1>27 DEF TypeOK, ToldInv, Prepare, Goto, Threads
<1>28. ASSUME NEW ok \in BOOLEAN, PrepareLink(ok) PROVE ToldInv'
  BY <1>28 DEF ToldInv, PrepareLink, Goto
<1>29. ASSUME NEW ok \in BOOLEAN, Enable(ok) PROVE ToldInv'
  BY <1>29 DEF ToldInv, Enable, Step
<1>30. CASE PostEnable
  BY <1>30 DEF ToldInv, PostEnable, Step
<1>31. CASE Disable
  BY <1>31 DEF ToldInv, Disable, Step
<1>32. CASE Unprepare
  BY <1>32 DEF ToldInv, Unprepare, Deinit, Step
<1>33. CASE Suspend
  BY <1>33 DEF ToldInv, Suspend
<1>34. CASE Resume
  BY <1>34 DEF ToldInv, Resume
<1> QED
  BY <1>1, <1>2, <1>3, <1>4, <1>5, <1>6, <1>7, <1>8, <1>9, <1>10, <1>11, <1>12, <1>13, <1>14,
     <1>15, <1>16, <1>17, <1>18, <1>19, <1>20, <1>21, <1>22, <1>23, <1>24, <1>25, <1>26, <1>27, <1>28, <1>29, <1>30, <1>31, <1>32, <1>33, <1>34
     DEF Next, Report, Source, WorkQueue, Client, Commit, Disconnect

-----------------------------------------------------------------------------
(* The theorems.                                                           *)

IInv == TypeOK /\ FlagOK /\ BitsOK /\ UsedOK /\ WorkInv /\ HostInv /\ OutInv /\ ToldInv

LEMMA InitIInv == Init => IInv
<1> SUFFICES ASSUME Init PROVE IInv
  OBVIOUS
<1>1. TypeOK /\ UsedOK
  BY DEF Init, TypeOK, UsedOK, SrcAt, WqAt, UserAt, Threads
<1>2. FlagOK /\ BitsOK
  BY Zenon DEF Init, FlagOK, BitsOK
<1>3. WorkInv /\ HostInv
  BY DEF Init, WorkInv, HostInv, Left, StreamHasLink, Leaving, Threads
<1>4. OutInv /\ ToldInv
  BY DEF Init, OutInv, Out, ToldInv, Threads
<1> QED
  BY <1>1, <1>2, <1>3, <1>4 DEF IInv

LEMMA NextIInv == IInv /\ [Next]_vars => IInv'
<1>1. ASSUME IInv, Next PROVE IInv'
  BY <1>1, TypeStep, FlagStep, BitsStep, UsedStep, WorkStep, HostStep, OutStep, ToldStep DEF IInv
<1>2. ASSUME IInv, UNCHANGED vars PROVE IInv'
  <2>1. TypeOK' /\ BitsOK' /\ UsedOK' /\ WorkInv'
    BY <1>2 DEF IInv, TypeOK, BitsOK, UsedOK, WorkInv, Leaving, vars
  <2>2. FlagOK'
    BY <1>2, Zenon DEF IInv, FlagOK, vars
  <2>3. HostInv' /\ OutInv' /\ ToldInv'
    BY <1>2 DEF IInv, HostInv, Left, StreamHasLink, OutInv, Out, ToldInv, Leaving, vars
  <2> QED
    BY <2>1, <2>2, <2>3 DEF IInv
<1> QED
  BY <1>1, <1>2

LEMMA Invariance == Spec => []IInv
  BY InitIInv, NextIInv, PTL DEF Spec

\* Every variable but the queue keeps its type.
THEOREM DpTypeCorrect == Spec => [](TypeOK /\ FlagOK /\ BitsOK /\ UsedOK)
<1>1. IInv => TypeOK /\ FlagOK /\ BitsOK /\ UsedOK
  BY DEF IInv
<1> QED
  BY <1>1, Invariance, PTL

\* However often the cable is pulled and the sink pulses its line while a client enables
\* and disables the display, no stream runs without its link and a ready host
\* (dp_display_process_hpd_low and dp_display_clean).
THEOREM StreamsHaveLinks == Spec => []StreamHasLink
<1>1. IInv => StreamHasLink
  BY DEF IInv, HostInv
<1> QED
  BY <1>1, Invariance, PTL

\* When the callback of a disconnect has returned nothing of the session is left, nor
\* brought back before the next report (dp_display_disconnect_sync).
THEOREM LowMeansDown == Spec => []LowIsDown
<1>1. IInv => LowIsDown
  <2> SUFFICES ASSUME IInv, at["src"] = "idle", "high" \notin hpd
               PROVE  streams = 0 /\ state \cap Gone = {}
    BY DEF LowIsDown
  <2>1. streams = 0 /\ state \cap {"READY", "CONNECTED", "ENABLED"} = {}
    BY DEF IInv, OutInv, Out
  <2>2. "alt" \notin hpd => state \cap {"CONFIGURED", "INITIALIZED"} = {}
    BY DEF IInv, OutInv, TypeOK
  <2> QED
    BY <2>1, <2>2 DEF Gone
<1> QED
  BY <1>1, Invariance, PTL

\* A client that was told of the display, and of nothing else since, has it
\* (dp_display_send_hpd_notification).
THEOREM ToldMeansConnected == Spec => []QuietTold
<1>1. IInv => QuietTold
  BY DEF IInv, ToldInv, QuietTold, Quiet
<1> QED
  BY <1>1, Invariance, PTL

=============================================================================
