----------------------------- MODULE DpDisplay -----------------------------
(***************************************************************************)
(* DisplayPort hot plug over a USB-C port, single stream.  Three threads   *)
(* meet on dp->state:                                                      *)
(*   src   the callback of the type-C port manager (configure, attention,  *)
(*         disconnect)                                                     *)
(*   wq    the single-threaded work queue "drm_dp", which runs             *)
(*         connect_work and attention_work                                 *)
(*   user  the DRM commit that enables or disables the display             *)
(* session_lock is held for one action, except by process_hpd_high and     *)
(* prepare, which hold it over the training of the link.                   *)
(*                                                                         *)
(* A bit of dp->state is set and cleared in one step, although the code    *)
(* does it with a plain |= and &= and not always under session_lock.       *)
(*                                                                         *)
(* Left out: MST, eDP, the simulation mode, audio, HDCP, the hand-over to  *)
(* a trusted VM, the compliance test of the PHY, and the callback of the   *)
(* clock manager (dp_display_mmrm_callback).                               *)
(***************************************************************************)
EXTENDS Naturals, Sequences, SequencesExt

CONSTANTS
    MaxReports,    \* bound: reports of the port manager
    MaxFaults,     \* bound: failures of host_init, link training and stream_on
    MaxSuspends    \* bound: system suspends

ASSUME Bounds == {MaxReports, MaxFaults, MaxSuspends} \subseteq Nat

VARIABLES
    state,     \* dp->state: the set of its bits
    hpd,       \* of dp->hpd: the set of hpd_high, alt_mode_cfg_done
    process,   \* process_hpd_connect
    aborted,   \* the controller's abort flag
    power,     \* the controller's power_on: the link is up
    streams,   \* active_stream_cnt
    sinks,     \* the adapter reports a sink behind it (sink_count)
    sst,       \* is_sst_connected, and cached_connector_status
    comp,      \* notification_comp is complete
    lock,      \* holder of session_lock between two actions
    queue,     \* pending works of drm_dp
    work,      \* the running one
    req,       \* sink_request of the running attention_work
    at,        \* position of each thread
    seen,      \* the status a client has read last
    on,        \* the client's CRTC is active
    used       \* how much of each bound is used

vars == <<state, hpd, process, aborted, power, streams, sinks, sst, comp, lock, queue, work, req,
          at, seen, on, used>>

\* The callback of the port manager, the workqueue and the commit thread.
Threads == {"src", "wq", "user"}

Init ==
    /\ state = {} /\ hpd = {} /\ process = FALSE
    /\ aborted = FALSE /\ power = FALSE /\ streams = 0 /\ sinks = TRUE
    /\ sst = FALSE /\ comp = FALSE
    /\ lock = "none" /\ queue = <<>> /\ work = "none" /\ req = "none"
    /\ at = [t \in Threads |-> "idle"]
    /\ seen = FALSE /\ on = FALSE
    /\ used = [b \in {"report", "fault", "suspend"} |-> 0]

-----------------------------------------------------------------------------
Is(bit) == bit \in state
Step(t, from, to) == at[t] = from /\ at' = [at EXCEPT ![t] = to]
Goto(t, to) == at' = [at EXCEPT ![t] = to]
Free == lock = "none"
Spend(b, max) == used[b] < max /\ used' = [used EXCEPT ![b] = @ + 1]
\* A call that may fail takes a fault of the budget when it does.
Works(ok) == IF ok THEN UNCHANGED used ELSE Spend("fault", MaxFaults)

\* queue_work: a work that is pending already is not queued twice.
Queued(w) == IF Contains(queue, w) THEN queue ELSE Append(queue, w)

\* dp_display_is_ready
Ready == hpd = {"high", "alt"} /\ Is("CONNECTED") /\ sinks

\* dp_display_host_unready and dp_display_host_deinit, on the bits s.
Unready(s) == IF "INITIALIZED" \in s THEN s \ {"READY"} ELSE s
Deinit(s) == IF streams > 0 THEN s ELSE s \ {"INITIALIZED", "READY"}

\* dp_display_send_hpd_notification by thread t: what was told already is not told again;
\* else the client gets an event, and t waits for the client unless the display is already in
\* the state told.  An event is sent, and the bits follow, only when the connector's status
\* changed.
Notify(t, wait, next) ==
    LET high == Is("CONNECTED")
        bit == IF high THEN "CONNECT_NOTIFIED" ELSE "DISCONNECT_NOTIFIED"
        sent == ~Is(bit) /\ sst # high
    IN  /\ sst' = IF Is(bit) THEN sst ELSE high
        /\ comp' = (comp /\ Is(bit))
        /\ state' = IF sent THEN (state \ {"CONNECT_NOTIFIED", "DISCONNECT_NOTIFIED"}) \cup {bit}
                    ELSE state
        /\ Goto(t, IF sent /\ Is("ENABLED") # high THEN wait ELSE next)

-----------------------------------------------------------------------------
(* dp_display_handle_disconnect, by src or wq                              *)

\* dp_display_process_hpd_low, without the lock ...
HpdLow(t) ==
    /\ Step(t, "low", "tell")
    /\ state' = state \ {"CONNECTED"} /\ process' = FALSE
    /\ UNCHANGED <<hpd, aborted, power, streams, sinks, sst, comp, lock, queue, work, req, seen,
                   on, used>>

\* Mutant: only a display that was enabled is reported gone.
MutTellLow(t) ==
    /\ at[t] = "tell"
    /\ IF Is("ENABLED") THEN Notify(t, "wait", "lowoff")
       ELSE Goto(t, "lowoff") /\ UNCHANGED <<state, sst, comp>>
    /\ UNCHANGED <<hpd, process, aborted, power, streams, sinks, lock, queue, work, req, seen, on,
                   used>>

TellLow(t) ==
    /\ at[t] = "tell"
    /\ IF Is("CONNECT_NOTIFIED") \/ Is("ENABLED") THEN Notify(t, "wait", "lowoff")
       ELSE Goto(t, "lowoff") /\ UNCHANGED <<state, sst, comp>>
    /\ UNCHANGED <<hpd, process, aborted, power, streams, sinks, lock, queue, work, req, seen, on,
                   used>>

\* Mutant: the wait has no timeout.
MutWaitLow(t) ==
    /\ comp /\ Step(t, "wait", "lowoff")
    /\ UNCHANGED <<state, hpd, process, aborted, power, streams, sinks, sst, comp, lock, queue,
                   work, req, seen, on, used>>

\* ... it waits up to 5 s for the client to leave the display ...
WaitLow(t) ==
    /\ at[t] = "wait" /\ Goto(t, IF comp THEN "lowoff" ELSE "late")
    /\ UNCHANGED <<state, hpd, process, aborted, power, streams, sinks, sst, comp, lock, queue,
                   work, req, seen, on, used>>

\* Mutant: the link goes off under a stream.
MutLowOff(t) ==
    /\ at[t] \in {"lowoff", "late"} /\ Free /\ Goto(t, "clean")
    /\ power' = FALSE
    /\ aborted' = (aborted \/ at[t] = "late")
    /\ UNCHANGED <<state, hpd, process, streams, sinks, sst, comp, lock, queue, work, req, seen, on,
                   used>>

\* ... and switches the link off when no stream is left on it.
LowOff(t) ==
    /\ at[t] \in {"lowoff", "late"} /\ Free /\ Goto(t, "clean")
    /\ power' = (power /\ streams > 0)
    /\ aborted' = (aborted \/ at[t] = "late")
    /\ UNCHANGED <<state, hpd, process, streams, sinks, sst, comp, lock, queue, work, req, seen, on,
                   used>>

\* Mutant: the host is left ready when there is no display to clean.
MutClean(t) ==
    /\ at[t] = "clean" /\ Free
    /\ state' = IF Is("ENABLED") THEN Unready(state \ {"ENABLED", "CONNECTED"}) ELSE state
    /\ streams' = IF Is("ENABLED") THEN 0 ELSE streams
    /\ power' = (power /\ ~Is("ENABLED"))
    /\ Goto(t, IF t = "src" /\ "alt" \notin hpd THEN "deinit" ELSE "idle")
    /\ queue' = IF t = "wq" /\ req = "pattern" THEN Queued("connect") ELSE queue
    /\ work' = IF t = "wq" THEN "none" ELSE work
    /\ UNCHANGED <<hpd, process, aborted, sinks, sst, comp, lock, req, seen, on, used>>

\* dp_display_clean, when the client has not disabled the display; then host_unready.
Clean(t) ==
    /\ at[t] = "clean" /\ Free
    /\ LET s == IF Is("ENABLED") THEN state \ {"ENABLED", "CONNECTED"} ELSE state
       IN  state' = Unready(s)
    /\ streams' = IF Is("ENABLED") THEN 0 ELSE streams
    /\ power' = (power /\ ~Is("ENABLED"))
    /\ Goto(t, IF t = "src" /\ "alt" \notin hpd THEN "deinit" ELSE "idle")
    /\ queue' = IF t = "wq" /\ req = "pattern" THEN Queued("connect") ELSE queue
    /\ work' = IF t = "wq" THEN "none" ELSE work
    /\ UNCHANGED <<hpd, process, aborted, sinks, sst, comp, lock, req, seen, on, used>>

Disconnect(t) == HpdLow(t) \/ TellLow(t) \/ WaitLow(t) \/ LowOff(t) \/ Clean(t)

-----------------------------------------------------------------------------
(* src: the reports of the port manager                                    *)

\* The cable is attached: dp_altmode_pmic_notify calls dp_display_usbpd_configure_cb.
Attach(h) ==
    /\ "alt" \notin hpd /\ Step("src", "idle", "configure") /\ Spend("report", MaxReports)
    /\ hpd' = {"alt"} \cup (IF h THEN {"high"} ELSE {})
    /\ UNCHANGED <<state, process, aborted, power, streams, sinks, sst, comp, lock, queue, work,
                   req, seen, on>>

Configure(ok) ==
    /\ Step("src", "configure", "idle") /\ Free
    /\ LET init == ~Is("INITIALIZED")
           s == (state \ {"ABORTED"}) \cup {"CONFIGURED"}
       IN  /\ init \/ ok
           /\ Works(ok)
           /\ state' = s \cup (IF ok THEN {"INITIALIZED"} ELSE {})
           /\ aborted' = (aborted /\ ~(init /\ ok))
    /\ queue' = IF ok /\ "high" \in hpd THEN Queued("connect") ELSE queue
    /\ process' = (process \/ (ok /\ "high" \notin hpd))
    /\ UNCHANGED <<hpd, power, streams, sinks, sst, comp, lock, work, req, seen, on>>

\* dp_display_usbpd_attention_cb: the sink's HPD line went down, or it is up, perhaps after a
\* short pulse (irq).  It takes no lock.
AttentionLow ==
    /\ "alt" \in hpd /\ Step("src", "idle", "abort") /\ Spend("report", MaxReports)
    /\ hpd' = {"alt"}
    /\ UNCHANGED <<state, process, aborted, power, streams, sinks, sst, comp, lock, queue, work,
                   req, seen, on>>

Attention(irq) ==
    /\ "alt" \in hpd /\ at["src"] = "idle" /\ Spend("report", MaxReports)
    /\ hpd' = {"alt", "high"}
    /\ \/ /\ irq /\ Is("READY")
          /\ queue' = Queued("attention") /\ UNCHANGED state
       \/ /\ ~(irq /\ Is("READY")) /\ (process \/ ~Is("CONNECTED"))
          /\ queue' = Queued("connect") /\ state' = state \ {"ABORTED"}
       \/ /\ ~(irq /\ Is("READY")) /\ ~process /\ Is("CONNECTED")
          /\ UNCHANGED <<queue, state>>
    /\ UNCHANGED <<process, aborted, power, streams, sinks, sst, comp, lock, work, req, at, seen,
                   on>>

\* The cable is gone: dp_display_usbpd_disconnect_cb, unless a disconnect is in progress.
Detach ==
    /\ "alt" \in hpd /\ at["src"] = "idle" /\ Spend("report", MaxReports)
    /\ hpd' = {}
    /\ Goto("src", IF Is("ABORTED") /\ Is("READY") THEN "idle" ELSE "abort")
    /\ UNCHANGED <<state, process, aborted, power, streams, sinks, sst, comp, lock, queue, work,
                   req, seen, on>>

\* dp_display_disconnect_sync: abort what runs, without the lock, ...
Abort ==
    /\ Step("src", "abort", "cancel")
    /\ state' = state \cup {"ABORTED"} /\ aborted' = TRUE
    /\ queue' = Remove(queue, "connect")
    /\ UNCHANGED <<hpd, process, power, streams, sinks, sst, comp, lock, work, req, seen, on, used>>

\* ... cancel_work_sync of connect_work, then of attention_work, flush_workqueue.
Cancel ==
    /\ Step("src", "cancel", "flush") /\ work # "connect"
    /\ queue' = Remove(queue, "attention")
    /\ UNCHANGED <<state, hpd, process, aborted, power, streams, sinks, sst, comp, lock, work, req,
                   seen, on, used>>

Flush ==
    /\ Step("src", "flush", "low") /\ work = "none" /\ queue = <<>>
    /\ UNCHANGED <<state, hpd, process, aborted, power, streams, sinks, sst, comp, lock, queue,
                   work, req, seen, on, used>>

\* The end of dp_display_usbpd_disconnect_cb.
HostDeinit ==
    /\ Step("src", "deinit", "idle") /\ Free
    /\ state' = Deinit(state) \ {"CONFIGURED"}
    /\ UNCHANGED <<hpd, process, aborted, power, streams, sinks, sst, comp, lock, queue, work, req,
                   seen, on, used>>

-----------------------------------------------------------------------------
(* wq: connect_work and attention_work                                     *)

\* dp_display_connect_work gives up on an abort or when HPD is low.
StartConnect ==
    /\ at["wq"] = "idle" /\ queue # <<>> /\ Head(queue) = "connect"
    /\ queue' = Tail(queue)
    /\ LET stop == Is("ABORTED") \/ "high" \notin hpd
       IN  /\ work' = IF stop THEN "none" ELSE "connect"
           /\ Goto("wq", IF stop THEN "idle" ELSE "high")
    /\ UNCHANGED <<state, hpd, process, aborted, power, streams, sinks, sst, comp, lock, req, seen,
                   on, used>>

\* dp_display_process_hpd_high: the host is made ready ...
HpdHigh(ok) ==
    /\ at["wq"] = "high" /\ Free
    /\ LET again == Is("CONNECTED")
           restore == {"SRC_PWRDN", "CONFIGURED"} \subseteq state
           init == ~Is("INITIALIZED")
           s == (state \cup {"CONNECTED"}) \ (IF restore THEN {"SRC_PWRDN"} ELSE {})
       IN  \/ /\ again /\ ok /\ UNCHANGED <<state, aborted, lock, used>>
              /\ Goto("wq", "idle") /\ work' = "none"
           \/ /\ ~again /\ ok /\ state' = s \cup {"INITIALIZED", "READY"}
              /\ aborted' = (aborted /\ Is("READY") /\ ~init) /\ lock' = "wq"
              /\ Goto("wq", "train") /\ UNCHANGED <<work, used>>
           \/ /\ ~again /\ init /\ ~ok /\ Spend("fault", MaxFaults)
              /\ state' = IF restore /\ Is("SUSPENDED") THEN state \cup {"CONNECTED"} ELSE state
              /\ Goto("wq", "idle") /\ work' = "none" /\ UNCHANGED <<aborted, lock>>
    /\ UNCHANGED <<hpd, process, power, streams, sinks, sst, comp, queue, req, seen, on>>

\* ... its capabilities are read and the link is trained (dp_ctrl_on).  An adapter may have no
\* sink behind it, and an abort or a removed cable makes both fail.
Train(ok, sink) ==
    /\ at["wq"] = "train"
    /\ sinks' = sink
    /\ ok => sink /\ (power \/ ~aborted)
    /\ (~ok /\ sink /\ ~aborted /\ "high" \in hpd) => used["fault"] < MaxFaults
    /\ used' = IF ~ok /\ sink /\ ~aborted /\ "high" \in hpd THEN [used EXCEPT !["fault"] = @ + 1]
               ELSE used
    /\ power' = (power \/ ok)
    /\ process' = (process /\ ~ok)
    /\ state' = IF ok THEN state ELSE Unready(state) \ {"CONNECTED"}
    /\ lock' = "none" /\ Goto("wq", IF ok THEN "notify" ELSE "idle")
    /\ work' = IF ok THEN work ELSE "none"
    /\ UNCHANGED <<hpd, aborted, streams, sst, comp, queue, req, seen, on>>

\* After a delay the client is told, unless a sink request is pending or the cable is gone.
TellHigh ==
    /\ at["wq"] = "notify"
    /\ IF work = "connect" /\ (Contains(queue, "attention") \/ Is("ABORTED"))
       THEN Goto("wq", "idle") /\ UNCHANGED <<state, sst, comp>>
       ELSE Notify("wq", "told", "idle")
    /\ work' = IF at'["wq"] = "idle" THEN "none" ELSE work
    /\ UNCHANGED <<hpd, process, aborted, power, streams, sinks, lock, queue, req, seen, on, used>>

\* The wait for the client ends with its answer or after 5 s, with the same result.
WaitHigh ==
    /\ Step("wq", "told", "idle") /\ work' = "none"
    /\ UNCHANGED <<state, hpd, process, aborted, power, streams, sinks, sst, comp, lock, queue,
                   req, seen, on, used>>

\* dp_display_attention_work asks the sink what it wants.
StartAttention ==
    /\ at["wq"] = "idle" /\ queue # <<>> /\ Head(queue) = "attention" /\ Free
    /\ queue' = Tail(queue)
    /\ \E r \in {"none", "ports", "pattern", "training", "link"}, n \in BOOLEAN:
          /\ n = sinks \/ r = "ports"
          /\ IF Is("ABORTED") \/ ~Is("READY")
             THEN Goto("wq", "idle") /\ UNCHANGED <<work, req, sinks>>
             ELSE /\ req' = r /\ sinks' = n /\ work' = "attention"
                  /\ Goto("wq", "serve")
    /\ UNCHANGED <<state, hpd, process, aborted, power, streams, sst, comp, lock, seen, on, used>>

\* What it asked for: the ports behind an adapter changed, ...
ServePorts ==
    /\ at["wq"] = "serve" /\ req = "ports"
    /\ IF sinks THEN Goto("wq", "idle") /\ queue' = Queued("connect") /\ work' = "none"
       ELSE Goto("wq", "low") /\ UNCHANGED <<queue, work>>
    /\ UNCHANGED <<state, hpd, process, aborted, power, streams, sinks, sst, comp, lock, req, seen,
                   on, used>>

\* ... a test pattern, for which the display is disconnected and connected again, ...
ServePattern ==
    /\ req = "pattern" /\ Step("wq", "serve", "low")
    /\ UNCHANGED <<state, hpd, process, aborted, power, streams, sinks, sst, comp, lock, queue,
                   work, req, seen, on, used>>

\* ... a new training of the link (dp_ctrl_link_maintenance, which an abort lets succeed), ...
ServeLink(ok) ==
    /\ at["wq"] = "serve" /\ req \in {"training", "link"} /\ Free
    /\ ok => power
    /\ IF ok \/ ~power THEN UNCHANGED used ELSE ~aborted /\ Spend("fault", MaxFaults)
    /\ LET done == ~ok \/ req = "training"
       IN  /\ Goto("wq", IF done THEN "idle" ELSE "notify")
           /\ work' = IF done THEN "none" ELSE work
    /\ UNCHANGED <<state, hpd, process, aborted, power, streams, sinks, sst, comp, lock, queue, req,
                   seen, on>>

\* ... or nothing that changes the display.
ServeNone ==
    /\ req = "none" /\ Step("wq", "serve", "notify")
    /\ UNCHANGED <<state, hpd, process, aborted, power, streams, sinks, sst, comp, lock, queue,
                   work, req, seen, on, used>>

-----------------------------------------------------------------------------
(* user: a commit through the DRM bridge                                   *)

ClientLooks ==
    /\ seen # sst /\ seen' = sst
    /\ UNCHANGED <<state, hpd, process, aborted, power, streams, sinks, sst, comp, lock, queue,
                   work, req, at, on, used>>

\* dp_display_prepare.  A failure skips dp_display_enable, not dp_display_post_enable.
Prepare(ok) ==
    /\ at["user"] = "idle" /\ ~on /\ seen /\ Free
    /\ LET restore == {"SRC_PWRDN", "CONFIGURED"} \subseteq state
           skip == Is("ABORTED") \/ Is("ENABLED") \/ ~Ready
           init == ~Is("INITIALIZED") /\ (restore \/ ~skip)
           s == state \ (IF restore THEN {"SRC_PWRDN"} ELSE {})
       IN  \/ /\ ~ok /\ init /\ Spend("fault", MaxFaults)
              /\ Goto("user", "post") /\ UNCHANGED <<state, aborted, lock>>
           \/ /\ ok /\ UNCHANGED used
              /\ state' = s \cup (IF init THEN {"INITIALIZED"} ELSE {})
                            \cup (IF skip THEN {} ELSE {"READY"})
              /\ aborted' = (aborted /\ ~init /\ (skip \/ Is("READY")))
              /\ lock' = IF skip THEN "none" ELSE "user"
              /\ Goto("user", IF skip THEN "enable" ELSE "train")
    /\ UNCHANGED <<hpd, process, power, streams, sinks, sst, comp, queue, work, req, seen, on>>

\* dp_ctrl_on in shallow mode: training may fail, the clocks of the link may not.
PrepareLink(ok) ==
    /\ at["user"] = "train" /\ lock' = "none"
    /\ ok => power \/ ~aborted
    /\ Works(ok \/ aborted)
    /\ power' = (power \/ ok)
    /\ Goto("user", IF ok THEN "enable" ELSE "post")
    /\ UNCHANGED <<state, hpd, process, aborted, streams, sinks, sst, comp, queue, work, req, seen,
                   on>>

\* dp_display_enable, "aborted, but continue on".
Enable(ok) ==
    /\ Step("user", "enable", "post") /\ Free
    /\ IF Is("READY") /\ power
       THEN /\ Works(ok)
            /\ streams' = IF ok THEN streams + 1 ELSE streams
            /\ state' = IF ok THEN state \cup {"ENABLED"} ELSE state
       ELSE ok /\ UNCHANGED <<streams, state, used>>
    /\ UNCHANGED <<hpd, process, aborted, power, sinks, sst, comp, lock, queue, work, req, seen,
                   on>>

PostEnable ==
    /\ Step("user", "post", "idle") /\ Free /\ on' = TRUE
    /\ comp' = (comp \/ ({"ENABLED", "READY"} \subseteq state /\ ~Is("ABORTED") /\ Ready))
    /\ UNCHANGED <<state, hpd, process, aborted, power, streams, sinks, sst, lock, queue, work, req,
                   seen, used>>

\* dp_display_pre_disable changes none of this state.
StartDisable ==
    /\ on /\ Step("user", "idle", "disable")
    /\ UNCHANGED <<state, hpd, process, aborted, power, streams, sinks, sst, comp, lock, queue,
                   work, req, seen, on, used>>

Disable ==
    /\ Step("user", "disable", "unprepare") /\ Free
    /\ streams' = IF {"ENABLED", "READY"} \subseteq state /\ streams > 0 THEN streams - 1
                  ELSE streams
    /\ UNCHANGED <<state, hpd, process, aborted, power, sinks, sst, comp, lock, queue, work, req,
                   seen, on, used>>

\* dp_display_unprepare: a client that leaves a connected display powers the host down.
Unprepare ==
    /\ Step("user", "unprepare", "idle") /\ Free /\ on' = FALSE
    /\ IF streams > 0 THEN UNCHANGED <<state, power, comp>>
       ELSE /\ state' = (IF Ready THEN Deinit(state) \cup {"SRC_PWRDN"} ELSE state) \ {"ENABLED"}
            /\ power' = (power /\ ~Ready)
            /\ comp' = TRUE
    /\ UNCHANGED <<hpd, process, aborted, streams, sinks, sst, lock, queue, work, req, seen, used>>

-----------------------------------------------------------------------------
(* The system suspends and resumes.                                        *)

\* dp_pm_prepare and dp_pm_complete.
Connecting == Is("CONNECTED") /\ ~Is("ENABLED")

Suspend ==
    /\ Free /\ ~Is("SUSPENDED") /\ Spend("suspend", MaxSuspends)
    /\ state' = state \cup {"SUSPENDED"} /\ aborted' = (aborted \/ Connecting)
    /\ UNCHANGED <<hpd, process, power, streams, sinks, sst, comp, lock, queue, work, req, at, seen,
                   on>>

Resume ==
    /\ Free /\ Is("SUSPENDED")
    /\ state' = state \ {"SUSPENDED"} /\ aborted' = (aborted /\ ~Connecting)
    /\ UNCHANGED <<hpd, process, power, streams, sinks, sst, comp, lock, queue, work, req, at, seen,
                   on, used>>

-----------------------------------------------------------------------------
Report == (\E h \in BOOLEAN: Attach(h) \/ Attention(h)) \/ AttentionLow \/ Detach

Source ==
    \/ \E ok \in BOOLEAN: Configure(ok)
    \/ Abort \/ Cancel \/ Flush \/ HostDeinit \/ Disconnect("src")

WorkQueue ==
    \/ StartConnect \/ StartAttention
    \/ \E ok \in BOOLEAN: HpdHigh(ok) \/ ServeLink(ok) \/ \E sink \in BOOLEAN: Train(ok, sink)
    \/ TellHigh \/ WaitHigh \/ ServePorts \/ ServePattern \/ ServeNone
    \/ Disconnect("wq")

Client == ClientLooks \/ StartDisable \/ \E ok \in BOOLEAN: Prepare(ok)

Commit ==
    \/ \E ok \in BOOLEAN: PrepareLink(ok) \/ Enable(ok)
    \/ PostEnable \/ Disable \/ Unprepare

Next == Report \/ Source \/ WorkQueue \/ Client \/ Commit \/ Suspend \/ Resume

Spec == Init /\ [][Next]_vars

\* A thread that has something to do runs; reports, suspends and what a client wants may fail
\* to come.
FairSpec == Spec /\ WF_vars(Source) /\ WF_vars(WorkQueue) /\ WF_vars(Commit)

-----------------------------------------------------------------------------
(* Properties                                                              *)

\* A stream runs only on a link that is up and a host that is ready, and the display is marked
\* enabled as long as it runs: unplugging, which takes the link and the host down while the
\* client is on its way in or out, never does so under a stream (dp_display_process_hpd_low,
\* dp_display_host_deinit, dp_display_process_hpd_high).
StreamHasLink == streams > 0 => power /\ {"READY", "ENABLED"} \subseteq state

\* Once the callback of a report "HPD low" or "detached" has returned, no work, no late client
\* and no resume has left or brought back anything of the session (dp_display_disconnect_sync
\* cancels and flushes the works, every entry checks what is left).
Gone == (IF "alt" \in hpd THEN {} ELSE {"CONFIGURED", "INITIALIZED"})
            \cup {"READY", "CONNECTED", "ENABLED"}
LowIsDown == at["src"] = "idle" /\ "high" \notin hpd => streams = 0 /\ state \cap Gone = {}

\* When nothing is on its way, a client that was told the display is connected can use it: the
\* bits that suppress repeated notifications never suppress a disconnect
\* (dp_display_send_hpd_notification, dp_display_process_hpd_low).
Quiet == at["src"] = "idle" /\ at["wq"] = "idle" /\ queue = <<>>
QuietTold == Quiet /\ sst => {"CONNECTED", "CONNECT_NOTIFIED"} \subseteq state

\* The callback of the port manager returns, whatever the client and the works are doing.
SourceEnds == at["src"] # "idle" ~> at["src"] = "idle"

\* A client is told that the cable is gone.
UnpluggedTold == "alt" \notin hpd ~> ~sst \/ "alt" \in hpd

\* dp_display.c:1907 says of a change behind an adapter that "connect work should take care of
\* sending the HPD notification": afterwards the client knows of the display.
PortsTold ==
    Quiet /\ req = "ports" /\ {"CONNECTED", "READY"} \subseteq state /\ ~Is("ABORTED") => sst
=============================================================================
