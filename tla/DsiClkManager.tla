--------------------------- MODULE DsiClkManager ---------------------------
(***************************************************************************)
(* The DSI clock manager (dsi_clk_manager.c) and the callbacks of the DSI  *)
(* display it runs around every change (dsi_pre_clkoff_cb ...              *)
(* dsi_pre_clkon_cb in dsi_display.c).                                     *)
(*                                                                         *)
(* Each client votes for the core clocks and for the link clocks with a    *)
(* reference count; the manager turns a domain on at the first vote of any *)
(* client and off at the last one: core clocks and power before the link,  *)
(* the link before the core clocks and the power.  Every request runs      *)
(* under dsi_mngr_clk_mutex, so it is one step.                            *)
(*                                                                         *)
(* A client's clock state (core_clk_state, link_clk_state) is ON exactly   *)
(* while its count is positive, so the counts stand for both.  EARLY_GATE  *)
(* is left out: no caller in the tree requests it.  The controllers of a   *)
(* split display follow their master and are modelled as one.              *)
(***************************************************************************)
EXTENDS Integers, FiniteSets

CONSTANTS
    Client,     \* clients registered with the manager
    Configs,    \* panel configurations: records [mode, ulps, susp, phyoff]
    Fault,      \* what may fail while clocks go on: subset of FaultKinds
    MaxFaults   \* bound on the failures in a behaviour

Switch == {"OFF", "ON"}
LinkFaults == {"lp", "clamp", "hs", "ulps", "cb"}
FaultKinds == {"ctrl", "phy", "core"} \cup LinkFaults

ASSUME ClkAssumption ==
    /\ Configs \subseteq [mode : {"cmd", "vid"}, ulps : Switch, susp : Switch,
                          phyoff : Switch]
    /\ Fault \subseteq FaultKinds
    /\ MaxFaults \in Nat

VARIABLES
    conf,    \* configuration of the panel
    panel,   \* subset of {"init", "esd"}: panel_initialized, esd_recovery_pending
    core,    \* core_refcount of each client
    link,    \* link_refcount of each client
    hw,      \* state of the manager and of the hardware
    faults,  \* failures so far
    broken   \* history: "link": a link clock, or a callback around it, has failed;
             \* "toggle": one has failed in a forced update

clkvars == <<conf, panel, core, link, hw, faults, broken>>

\* mcore, mlink: core_clk_state and link_clk_state of the manager; pwr: supplies
\* of controller and PHY; core, lp, hs: the clocks (enable counts for the link);
\* phy: clamp_enabled, ulps_enabled and phy_idle_power_off of the display.
Hw == [mcore : Switch, mlink : Switch, pwr : {"off", "ctrl", "on"}, core : Switch,
       lp : Int, hs : Int, phy : SUBSET {"clamp", "ulps", "idle"}]

TypeOK ==
    /\ conf \in Configs
    /\ panel \subseteq {"init", "esd"}
    /\ core \in [Client -> Nat] /\ link \in [Client -> Nat]
    /\ hw \in Hw
    /\ faults \in Nat /\ broken \subseteq {"link", "toggle"}

ClkInit ==
    /\ conf \in Configs
    /\ panel = {}
    /\ core = [c \in Client |-> 0] /\ link = [c \in Client |-> 0]
    /\ hw = [mcore |-> "OFF", mlink |-> "OFF", pwr |-> "off", core |-> "OFF",
             lp |-> 0, hs |-> 0, phy |-> {}]
    /\ faults = 0 /\ broken = {}

-----------------------------------------------------------------------------
(* The callbacks and the clock sequences, on a record h \in Hw.            *)

\* dsi_display_is_ulps_req_valid: an ESD recovery or a panel that is off refuse
\* every ULPS request.
UlpsReqValid ==
    /\ "esd" \notin panel
    /\ conf.ulps = "ON" \/ conf.susp = "ON"
    /\ "init" \in panel \/ conf.susp = "ON"

SetUlps(h, on) ==
    IF ~UlpsReqValid THEN h
    ELSE [h EXCEPT !.phy = IF on THEN @ \cup {"ulps"} ELSE @ \ {"ulps"}]

\* Core clocks on: the supplies of controller and PHY first.  The controller
\* refuses to be powered twice, so what a failure left on blocks the next try.
CoreOn(h, f) ==
    CASE h.pwr # "off" \/ f = "ctrl" -> h
      [] h.pwr = "off" /\ f = "phy"  -> [h EXCEPT !.pwr = "ctrl"]
      [] h.pwr = "off" /\ f = "core" -> [h EXCEPT !.pwr = "on"]
      [] OTHER -> [h EXCEPT !.pwr = "on", !.core = "ON", !.mcore = "ON"]

\* Mutant: an idle PHY is not brought back.
MutLpOn(h) == [h EXCEPT !.lp = @ + 1, !.phy = @ \ {"clamp"}]

\* Clamps or idle PHY: the controller is set up again, lanes that were in ULPS
\* re-enter it, then the clamps open.
LpOn(h) ==
    LET relost == {"clamp", "ulps"} \subseteq h.phy /\ ~UlpsReqValid
    IN  [h EXCEPT !.lp = @ + 1,
                  !.phy = @ \ ({"clamp", "idle"} \cup IF relost THEN {"ulps"} ELSE {})]

HsOn(h) == SetUlps([h EXCEPT !.hs = @ + 1], FALSE)

\* LP clocks, their callback, HS clocks, their callback.  The first failure ends it and
\* undoes nothing: what was turned on and counted stays.
LinkOn(h, f) ==
    CASE f = "lp"    -> h
      [] f = "clamp" -> [LpOn(h) EXCEPT !.phy = @ \cup (h.phy \cap {"clamp"})]
      [] f = "hs"    -> LpOn(h)
      [] f = "ulps"  -> [LpOn(h) EXCEPT !.hs = @ + 1]
      [] f = "cb"    -> HsOn(LpOn(h))
      [] OTHER       -> [HsOn(LpOn(h)) EXCEPT !.mlink = "ON"]

\* HS clocks, then LP clocks; the lanes enter ULPS before the LP clocks stop.
EntersUlps == IF "init" \in panel THEN conf.ulps = "ON" ELSE conf.susp = "ON"

LinkOff(h) ==
    LET g == IF EntersUlps THEN SetUlps(h, TRUE) ELSE h
    IN  [g EXCEPT !.hs = @ - 1, !.lp = @ - 1, !.mlink = "OFF"]

\* Clamps for an idle display, a plain ULPS exit for one that goes off.
CoreOff(h) ==
    LET idle == IF conf.phyoff = "ON" THEN {"idle"} ELSE {}
        g == IF "init" \in panel \/ conf.susp = "ON"
             THEN [h EXCEPT !.phy = @ \cup {"clamp"} \cup idle]
             ELSE SetUlps(h, FALSE)
    IN  [g EXCEPT !.core = "OFF", !.pwr = "off", !.mcore = "OFF"]

\* dsi_update_clk_state: core on, link on or off, core off; the first failure ends it.
WithCore(h, wc, f) == IF wc = "ON" /\ h.mcore = "OFF" THEN CoreOn(h, f) ELSE h

WithLink(h, wl, f) ==
    CASE wl = "ON" /\ h.mlink = "OFF" -> LinkOn(h, f)
      [] wl = "OFF" /\ h.mlink = "ON" -> LinkOff(h)
      [] OTHER -> h

WithoutCore(h, wc) == IF wc = "OFF" /\ h.mcore = "ON" THEN CoreOff(h) ELSE h

\* Mutant: a failure of the core clocks does not end the request.
MutUpdateClkState(h, wc, wl, f) == WithoutCore(WithLink(WithCore(h, wc, f), wl, f), wc)

UpdateClkState(h, wc, wl, f) ==
    LET h1 == WithCore(h, wc, f)
        h2 == WithLink(h1, wl, f)
    IN  CASE wc = "ON" /\ h1.mcore = "OFF" -> h1
          [] ~(wc = "ON" /\ h1.mcore = "OFF") /\ wl = "ON" /\ h2.mlink = "OFF" -> h2
          [] OTHER -> WithoutCore(h2, wc)

-----------------------------------------------------------------------------
(* Requests                                                                *)

\* dsi_recheck_clk_state: a domain is wanted while any client votes for it.
Want(count) == IF \E c \in Client : count[c] > 0 THEN "ON" ELSE "OFF"

Recheck(f) == hw' = UpdateClkState(hw, Want(core'), Want(link'), f)

Well == UNCHANGED <<faults, broken>>

\* A failure of kind f; where says what it breaks if it is one of the link.
Fails(f, where) ==
    /\ f \in Fault /\ faults < MaxFaults
    /\ faults' = faults + 1
    /\ broken' = IF f \in LinkFaults THEN broken \cup {where} ELSE broken

\* The manager is not where the votes want it: the request failed.
Missed == (Want(core) = "ON" /\ hw.mcore = "OFF") \/ (Want(link) = "ON" /\ hw.mlink = "OFF")

\* A recheck that goes well, unless an older failure is in its way, or one that fails.
Retry ==
    \/ Recheck("none") /\ Well
    \/ \E f \in FaultKinds : Recheck(f) /\ Missed' /\ Fails(f, "link")

\* dsi_clk_req_state(ON) for the domains T: the counts go up whatever happens,
\* the manager looks at the clocks only if the state of the client changed.
ClkOn(c, T, rc) ==
    /\ core' = IF "core" \in T THEN [core EXCEPT ![c] = @ + 1] ELSE core
    /\ link' = IF "link" \in T THEN [link EXCEPT ![c] = @ + 1] ELSE link
    /\ IF ("core" \in T /\ core[c] = 0) \/ ("link" \in T /\ link[c] = 0)
       THEN Retry /\ rc = IF Missed' THEN "fail" ELSE "ok"
       ELSE UNCHANGED hw /\ Well /\ rc = "ok"
    /\ UNCHANGED <<conf, panel>>

\* dsi_clk_req_state(OFF): a count of zero only warns.  The recheck of a manager that
\* missed a vote tries again to turn that domain on.
ClkOff(c, T) ==
    /\ core' = IF "core" \in T /\ core[c] > 0 THEN [core EXCEPT ![c] = @ - 1] ELSE core
    /\ link' = IF "link" \in T /\ link[c] > 0 THEN [link EXCEPT ![c] = @ - 1] ELSE link
    /\ IF ("core" \in T /\ core[c] = 1) \/ ("link" \in T /\ link[c] = 1)
       THEN Retry
       ELSE UNCHANGED hw /\ Well
    /\ UNCHANGED <<conf, panel>>

\* dsi_display_link_clk_force_update: the link off and on again at the new rate,
\* whatever the counts; refused while the link is off.  When it fails half way the
\* manager still takes the link for on.
ForceUpdate ==
    /\ hw.mlink = "ON"
    /\ \E f \in {"none"} \cup LinkFaults :
           /\ hw' = [LinkOn(LinkOff(hw), f) EXCEPT !.mlink = "ON"]
           /\ IF f = "none" THEN Well ELSE Fails(f, "toggle")
    /\ UNCHANGED <<conf, panel, core, link>>

-----------------------------------------------------------------------------
(* The manager on its own: any clients that keep the protocol of the tree, *)
(* a link vote only on top of a core vote and no OFF without its ON.       *)

Domains == {{"core"}, {"link"}, {"core", "link"}}

Turn(c, T) ==
    \/ /\ T = {"link"} => link[c] < core[c]
       /\ \E rc \in {"ok", "fail"} : ClkOn(c, T, rc)
    \/ /\ "core" \in T => core[c] > (IF "link" \in T THEN 0 ELSE link[c])
       /\ "link" \in T => link[c] > 0
       /\ ClkOff(c, T)

\* The display thread and the ESD check change the panel, never the counts: with the
\* link on, except that an enable forgets an ESD failure.
PanelChange ==
    /\ panel' \in SUBSET {"init", "esd"}
    /\ hw.mlink = "ON" \/ panel' = panel \ {"esd"}
    /\ UNCHANGED <<conf, core, link, hw>> /\ Well

ClkNext ==
    \/ \E c \in Client, T \in Domains : Turn(c, T)
    \/ ForceUpdate
    \/ PanelChange

ClkSpec == ClkInit /\ [][ClkNext]_clkvars

-----------------------------------------------------------------------------
(* Properties                                                              *)

\* What dsi_update_clk_state says of its sequence: "For ON sequence, Core clocks before
\* link clocks.  For OFF sequence, Link clocks before core clocks."  A link clock only
\* runs on top of the core clocks and the supplies.
CoreUnderLink == hw.lp > 0 \/ hw.hs > 0 => hw.core = "ON" /\ hw.pwr = "on"

\* What holds of it: a link the manager takes for on has core clocks and supplies, whichever
\* clock or callback failed; and until one of the link fails, which may leave the other
\* link clock running, so has every link clock.
LinkNeedsCore ==
    /\ hw.mlink = "ON" => hw.core = "ON" /\ hw.pwr = "on"
    /\ broken = {} => CoreUnderLink

\* Until a clock fails, the manager is where the votes of all its clients want it.
ManagerFollows == faults = 0 => hw.mcore = Want(core) /\ hw.mlink = Want(link)

\* A link that is on can be used: its clocks run, clamps open, PHY not idle, however often
\* clocks and callbacks failed before (but for those of a forced update, after which the
\* manager takes for on what is off).  Until one of the link fails its clocks are counted
\* once and the lanes are out of ULPS, whatever happened to the panel since they were set;
\* afterwards an ESD failure may keep the lanes half way.
LinkReady ==
    hw.mlink = "ON" =>
        /\ "toggle" \notin broken => hw.lp > 0 /\ hw.hs > 0 /\ hw.phy \subseteq {"ulps"}
        /\ broken = {} => hw.lp = 1 /\ hw.hs = 1 /\ hw.phy = {}
=============================================================================
