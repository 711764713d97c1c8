# A verification project for the MSM display drivers

This directory models the concurrent core of the Qualcomm MSM display drivers in TLA+:
the SDE display controller (`src/msm`, `src/msm/sde`), the DSI host (`src/msm/dsi`) and
DisplayPort hot plug (`src/msm/dp`). TLC checks small instances, and TLAPS proves the main
safety properties for every value of the constants. Paths below are relative to `src/`.

| Part | Modules | Runs | Proofs |
|---|---|---|---|
| atomic commit | `MsmAtomic`, abstract `MsmCommitOrder` | `atomic` | `MsmAtomicProofs` |
| release-fence timeline | `SdeFence`, abstract `SdeTimeline` | `fence` | `SdeFenceProofs` |
| encoder resource control | `SdeEncoderRc` | `rc_modes`, `rc_live` | `SdeEncoderRcProofs` |
| display RSC | `SdeRsc` | `rsc` | `SdeRscProofs` |
| life of a command-mode frame | `SdeFrameEvents`, `SdePhysCmd`, `SdeFrame` | `frame`, `frame_live` | `SdeFrameProofs` |
| DSI clock manager | `DsiClkManager` | in `dsi_host` | `DsiProofs` |
| DSI host | `DsiHost` on `DsiClkManager` | `dsi_host`, `dsi_link` | `DsiProofs` |
| DisplayPort hot plug | `DpDisplay` | `dp`, `dp_told` | `DpProofs` |
| hand-over between virtual machines | `SdeVm` | `vm` | `SdeVmProofs` |

`MCMsmAtomic`, `MCSdeFence`, `MCSdeEncoderRc`, `MCSdeRsc`, `MCSdeFrame`, `MCDsiHost`,
`MCDpDisplay` and `MCSdeVm` give the constants their values for TLC.

## 1. Inventory

### How a frame goes through the driver

A client's atomic ioctl takes modeset locks in the DRM core and reaches
`msm_atomic_commit` (`msm/msm_atomic.c`). It waits until no pending commit shares a CRTC
or plane with its own, marks them, swaps the new state in, has the KMS layer make the
release fences (`sde_kms_prepare_fence`), and queues the commit on the *display thread*
of its first CRTC. That thread runs `complete_commit`: it waits for the input fences,
programs planes, mixers and encoders, and kicks off the frame. The interrupt of the
finished frame queues a *frame event* to the *event thread* of the CRTC
(`sde_crtc_frame_event_work`), which signals the fences. Between frames a delayed work on
the display thread powers the encoder down. The event thread also carries the recovery
from a dead panel (ESD), and power management may suspend everything from outside.

Below the encoder the DSI host powers its link through a clock manager that several
clients vote on, and sends panel commands on the link while frames run. A DisplayPort
sink comes and goes with the reports of a USB-C port. On platforms with a trusted virtual
machine the whole display is handed over between two drivers.

So one CRTC has three kinds of threads (clients, its display thread, its event thread)
and interrupts; they share the pending masks, the fence timelines, the encoder's resource
state, the frame counters and the link clocks, each under a lock of its own. The hard
behaviour is in the gaps between these locks.

### Components

For each one: its state; its operations; whom it talks to; what is hard; what makes it
correct. `PROJECT.json` lists the same components with their files and status, and the
hazards with their lines.

**Atomic commit** (`msm/msm_atomic.c`; `MsmAtomic`).
State: `pending_crtcs`, `pending_planes` with their wait queue, `struct msm_commit`,
references to `drm_atomic_state`, one kthread worker per CRTC.
Operations: `msm_atomic_commit`, `msm_atomic_commit_dispatch`, `complete_commit`,
`commit_destroy`. Callers: DRM core; callees: KMS callbacks, CRTC and bridge helpers.
Hard: waits with modeset locks held, `-EDEADLK` and signals between the check and the
swap, blocking against nonblocking ownership of the commit, several CRTCs in one commit.
Correct when: commits in flight are disjoint, marks are neither lost nor left behind,
nothing is used after it was freed, every commit and every ioctl ends.

**Fence timelines** (`msm/sde/sde_fence.c`; `SdeFence`).
State: `commit_count`, `done_count`, the list of fences, reference counts of fences and
context, the error bookkeeping in `sde_fence_error_ctx`.
Operations: create, prepare, signal, reset, error signal, deinit; poll and close by the
client. Callers: CRTC (release fences), connector (retire fences), encoder (input-fence
errors). Hard: two locks per context taken one after the other, descriptors visible to
clients before the fence is listed, two threads advancing one counter, u32 wrap.
Correct when: a fence is signalled neither early nor never, and freed exactly once.

**Encoder resource control** (`sde_encoder_resource_control` and its users in
`msm/sde/sde_encoder.c`; `SdeEncoderRc`).
State: `rc_state`, votes for clocks, interrupts, pm_qos and RSC, the delayed work,
`cur_master`, panel mode, `delay_kickoff`.
Operations: KICKOFF, PRE_STOP, STOP, PRE_MODESET, POST_MODESET, ENTER_IDLE,
EARLY_WAKEUP; `sde_encoder_off_work`, early wakeup, the ESD work, suspend.
Callers: display thread, event thread, ioctls, power management. Hard: five contexts
drive one state machine, one event sleeps with `rc_lock` held, every event treats
command and video mode in its own way.
Correct when: votes match the state, nothing is collapsed under a frame, a disabled
encoder holds nothing, and an idle display does power down.

**CRTC frame events and kickoff** (`msm/sde/sde_crtc.c`; `SdeFrameEvents`, `SdeFrame`).
State: `frame_pending`, a pool of frame events under `spin_lock`, registered callbacks,
mixers, vblank requests. Operations: `sde_crtc_frame_event_cb` (interrupt),
`sde_crtc_frame_event_work`, `sde_crtc_commit_kickoff`, `sde_crtc_disable`. Hard: an empty
pool drops an event with its decrement; disable flushes the event thread while interrupts
still come. Correct when: `frame_pending` is exact, no event is dropped, a fence says
"done" only of a frame that is, and a disabled CRTC hears of nothing.

**Physical encoders** (`msm/sde/sde_encoder_phys_{cmd,vid,wb}.c`; `SdePhysCmd`).
State: `pending_kickoff_cnt`, `pending_retire_fence_cnt`, enable state, interrupt
references. Hard: interrupts decrement what the commit thread increments; timeouts guess
which interrupt was lost; with posted start the software answers for an interrupt that may
still come. Correct when: counters are given back once, and a waiter always leaves.

**Connector and ESD** (`msm/sde/sde_connector.c`; parts in `SdeEncoderRc`, `SdeFrame`,
`DsiHost`). State: `panel_dead`, `esd_status_check`, backlight, retire fence, properties.
Hard: several reporters of one dead panel, status work against disable. Correct when: one
report causes one recovery and none after disable.

**KMS glue** (`msm/sde/sde_kms.c`). State: runtime-PM votes, splash and secure-session
state. Operations: `prepare_commit`, `complete_commit`, `wait_for_commit_done`,
`prepare_fence`, `pm_suspend`, `pm_resume`. Hard: a failed resume in `prepare_commit` is
not told to `complete_commit`. `prepare_fence`, the waits and the idle helper of suspend
are part of the models above, the requests for a hand-over of `SdeVm`.

**DSI clock manager** (`msm/dsi/dsi_clk_manager.c`; `DsiClkManager`). State: per client
reference counts and states of core and link clocks, the aggregated states. Operations:
`dsi_display_clk_ctrl`, `dsi_clk_req_state`, `dsi_clk_force_update`, with the callbacks of
the display around every change. Hard: order of supplies, core and link clocks; ULPS,
clamps and an idle PHY around them; a failure in the middle. Correct when: link clocks are
never on without core clocks, a link that is on is ready, and counts balance.

**DSI display, controller, PHY, panel** (`msm/dsi/dsi_{display,ctrl,phy,panel,drm}.c`;
`DsiHost`). State: controller and engine states, `cmd_engine_refcount`, a command in
flight with its interrupt and its work, the locks of display and panel. Hard: display
thread, panel commands, ESD check and error work share votes, engines and locks; transfer
against timeout. Correct when: nothing turns a link off or toggles it under a command,
every vote is given back, and a disabled host is off.

**DisplayPort display and hot plug** (`msm/dp/dp_display.c`, `dp_usbpd.c`,
`dp_altmode.c`, ...; `DpDisplay`). State: the bits of `dp->state`, hot-plug flags, the
link, streams, two works, a completion. Hard: the port manager waits inside its callback
for a client, while works and a late client decide by bits that a disconnect clears one by
one. Correct when: a stream never outlives its link, an unplugged session leaves nothing,
clients are told.

**DisplayPort link, control and AUX** (`msm/dp/dp_{ctrl,link,aux,panel,power}.c`): link
training and register traffic; `DpDisplay` sees its outcomes. **DisplayPort MST**
(`msm/dp/dp_mst_*.c`): topology, payloads. **HDCP** (`msm/sde_hdcp_*.c`,
`hdcp/msm_hdcp.c`, `msm/dp/dp_hdcp2p2.c`): message sequence with timeouts and
re-authentication. Not modelled.

**Virtual machine hand-over** (`msm/sde/sde_vm_*.c` and callers in `sde_kms.c`; `SdeVm`).
State: `n_irq_lent`, `io_mem_handle`, what the hypervisor has, the requested state of the
CRTC. Operations: lend and reclaim (primary), accept and release (trusted), a notification
handler, `sde_vm_request_valid`. Hard: a sequence of calls of the hypervisor in one VM
interleaves with that of the other, and each call may fail; taking the hardware happens
when a commit is checked, giving it away when one is complete. Correct when: who touches
the hardware has it, both know what they gave and took, and nobody gets stuck.

**Display RSC** (`msm/sde_rsc*.c` and its callers in `sde_encoder.c` and
`sde_power_handle.c`; `SdeRsc`). State: clients with requested states, the state of the
RSC, `resource_refcount`, `power_collapse`, the count of vsyncs waited for. Operations:
`sde_rsc_client_state_update` by encoders and power handle, the wait for a vblank and the
lowering of the count. Hard: one state serves all clients in whatever order they ask; a
client sleeps for the vsync of another with `client_lock` held; a switch that fails leaves
the client in its new state and the RSC in the old one. Correct when: the state is the one
that serves the clients, the core is up while there is power, and the sleeper is woken.

**Driver core** (`msm/msm_drv.c`, `msm_gem*.c`, `msm_smmu.c`, `msm_prop.c`). State: the
threads, buffer objects with their address-space mappings, properties. Hard: `lastclose`
waits for pending commits with a timeout; detaching an address space with live buffers.
Not modelled.

**Bandwidth, power handle, resource manager, interrupt manager**
(`sde_core_perf.c`, `sde_power_handle.c`, `sde_rm.c`, `sde_core_irq.c`). Votes, event
lists, reservations of hardware blocks (current and next), interrupt callbacks. Hard:
release of a reservation when a commit is tested but never made; callbacks that
unregister themselves. Not modelled.

**Rotator** (`rotator/`). State: requests, queues, sessions, the free hardware slots.
Hard: session close with requests in flight. Not modelled.

**Data and I/O**: planes and formats, register blocks and the catalog, register DMA and
colour processing, PLLs and PHY timing, compression and EDID helpers, writeback, external
bridges, debug dumps. Mostly computation in one thread or register writes; not modelled.

## 2. Modules

Each variable is commented in its module; `PROJECT.json` "map" gives the source lines of
every definition.

### MsmAtomic

One *user thread* walks through an ioctl: `Begin`, `Acquire` one lock after the other
(`Restart` on `-EDEADLK`), `Call` enters `msm_atomic_commit` and makes the commit,
`ConnLock`/`ConnBackoff`/`ConnSlow` take `connection_mutex`, `Mark` waits for and sets the
masks in one step (the wait queue's lock is held for both), `Swap` swaps the state, makes
the fences and dispatches, `Flushed` ends a blocking commit, `Return` drops the locks.
`ConnInterrupted` and `Interrupted` are signals. A *commit* goes through `Start`, `Apply`,
`Finish` and `Destroy` on its display thread, or on the thread of the ioctl when it has no
CRTC.

- The DRM core is external: acquire contexts are ordered by age (`older`), a thread is
  told `-EDEADLK` when an older one waits for one of its locks.
- Versions of the state are abstracted to `dirty`, the objects whose current state the
  hardware does not have yet.
- The body of `complete_commit` between taking the job and having programmed everything is
  one step, `Apply`: the order of its parts is seen by no other thread in the model.
- The queue of a display thread is not a sequence: `OneJob`, proved, shows that it has at
  most one.
- `Commit` bounds the number of `msm_commit` objects alive; `Call` waits for a free one.

`MsmCommitOrder` is what clients are promised: a set of commits in flight, pairwise
disjoint, each open, then on the hardware, then closed. `OrderSpec` maps `flight` to the
commits between swap and destroy.

### SdeFence

One timeline with three actors. The *user thread* creates a fence in the steps the code
takes it in: read the trigger value under `ctx->lock` (`CreateRead`), allocate and
initialise (`CreateInit`, or `CreateNoMemory`), install the descriptor (`CreateInstall`, or
`CreateFail`), list it (`CreateList`); `Prepare` opens a commit. The *event thread* and the
*display thread* signal: `FrameEvent`/`ErrorSignal`/`Reset` advance the counter under
`ctx->lock`, and a walk (`WalkStart`, `WalkFence`, `WalkEnd`) goes over the list under
`list_lock`. The *display thread* also handles a failed input fence (`InputFenceError`,
`ErrorEnd`), kicks off and waits (`Kickoff`, `FlipDone`). Clients `Poll` and `Close` at any
time. `Deinit` is the destruction of the CRTC.

- Counters are kept unwrapped and every comparison goes through `Int32`, the signed
  difference of the code; theorem `WrappedDifference` shows that nothing is lost.
- The list is a set: order on it is seen by no property, and every walk visits all of it.
- `held` (fences kept back by a walk as last good frame) is auxiliary: no guard reads it.
- `MsmAtomic` justifies that one commit of a CRTC is opened at a time (`OneJob`,
  `Exclusive`).

`SdeTimeline` is what a holder of a descriptor is promised: a point that is still to come,
released when time has reached it or broken by an error, never waiting again.

### SdeEncoderRc

One operator per event of `sde_encoder_resource_control` (`Kickoff`, `PreStop`, `Stop`,
`PreModeset`, `PostModeset`, `IdleSkip`/`IdleBusy`/`IdleVideo`/`IdleFlush`/`IdleCollapse`,
`EarlyWakeup`), and actions for the threads that send them: a job of the display thread is
a chain of steps (enable; commit and frame; modeset with reservation; disable with kickoff,
PRE_STOP, STOP, reset, post-disable), `OffWork` and `WakeWork` run between jobs on the same
thread, `Suspend` comes from power management, `FrameDone` from the event thread, and a
dead panel is reported by the status work or by a DSI error thread (`StatusReport`,
`DsiReport`, then `ReportMark`, `ReportQueue`, `ReportVsync`, `ReportEnd`), which has the event
thread send a KICKOFF of its own (`EsdWork`).

- Every event holds `rc_lock` from start to end, so it is one step where nobody can tell. Two
  can be told apart. The idle event waits for the event thread with the lock held (`IdleFlush`,
  `IdleCollapse`). And `sde_encoder_virt_reset` takes no lock, so it can come in the middle of
  the KICKOFF of the event thread: the reset is three steps (`ResetConnectors`, `ResetMaster`,
  `ResetCrtc`), that KICKOFF one step for each look at `cur_master` or the CRTC and each use of
  it (`EsdTake`, `EsdLock`, `EsdClk`, `EsdRsc`, `EsdAsk`, `EsdArm`, `EsdUse`, `EsdEnd`, at
  position `kick`). The display thread cannot reset while it sends a KICKOFF itself.
- A use of a NULL pointer sets `oops`, and the kernel stops.
- `past` is history: `"torn"`, a reset met a KICKOFF; `"half"`, a seamless mode switch stopped
  half-way; `"late"`, a command-mode event met an idle video-mode display. The properties name
  what these change.
- One CRTC per commit, idle power collapse enabled; autorefresh, clone mode and the
  writeback encoder are left out. The input handler's wakeup takes the same path as the
  ioctl's and is `WakeCheck`/`WakeQueue`.
- A vote is a counter (`pm`, `irq`) or a flag (`qos`, `rsc`) that says what this encoder
  asked for; what the power handle and the RSC do with it is outside.
- Threads of the DSI error interrupt end when the interrupt is freed (`PostDisable` waits).

### SdeRsc

One action per request: `PowerOn` and `PowerOff` of the power handle, `Primary` and `Ext`
of the encoders, all through `Update`, which is `sde_rsc_client_state_update` under
`client_lock`. `Goal` is what the four `sde_rsc_switch_to_...` functions decide; the switch
is refused or unneeded (`Stay`), done or failed (`Move`), or waits for the vsync of another
with the lock held (`Queue`, until `Counted`). Outside the lock a caller that was told to
wait looks at the count (`ReadCount`), waits for the vblank and lowers it (`Vblank`).

- The clients keep to what `SdeEncoderRc` shows of encoders: a display asks for more than
  IDLE only while it has a vote for power (`VotesMatchState`), one request at a time. The
  RSC relies on it: `sde_rsc_switch_to_idle` looks at the power handle alone when more than
  one display was on (`sde_rsc.c:740`), and writes timers before it turns its clocks on.
- Hardware of revision 3 and later takes a request for VID as one for CLK; `Versions` are
  the revisions of a run, chosen in the initial state.
- `unclocked` and `stale` remember that the clocks did not go on, and that the last switch
  failed: nobody else in the code does, the result of `sde_rsc_resource_enable` is dropped.

### SdeFrameEvents, SdePhysCmd, SdeFrame

Three layers of one state machine, each extending the one before.
`SdeFrameEvents` is the pool of frame events of a CRTC (`Post` takes an entry, often in
interrupt context, or drops the event), the event thread (`EvTake`, `EvEnd`) and its
flushes. `SdePhysCmd` is the command-mode encoder, one or two of them: a small hardware
(`HwStart` at the tearing effect, `HwDone`, latched interrupts, a panel that stops sending
TE, a link that hangs), the interrupt handlers (`Irq`), a wait for the end of a frame with
its timeout, re-check and giving up (`StartWait`, `WaitTest`, `WaitOk`, `WaitLatched`,
`WaitLate`, `WaitGiveUp`), and the virtual
encoder that joins the events of two encoders (`Send`). `SdeFrame` has the display thread
from `sde_kms_prepare_commit` to `wait_for_commit_done` (one position of `d` per step that
another context can see) and through `sde_crtc_disable`, and the ESD work that reports a
dead panel while the frame is under way.

- `hw.posted`, `hw.frame`, `hw.busy` and `hw.lat` are what the CTL, the ping-pong blocks
  and the interrupt status registers say; the code reads them through
  `get_scheduler_status` and the interrupt status only, and so does the model.
- A counter and the event it stands for change in two steps (`atomic_dec`, then the
  callback), so each context has at most one event on its way (`send`).
- `past` and `faults` are history variables.
- Time is abstracted to two facts, stated at the head of `SdePhysCmd`: a wait (84 ms and
  more) lasts longer than a frame, so it ends without its interrupt only when the hardware
  stands still or the interrupt is held up; and an interrupt is handled before the hardware
  raises the same one again for the next frame. A frame is counted and posted whatever is
  latched: an interrupt of the frame before may still come then, and ends the new one
  (`"late"` in `past`).
- Left out: autorefresh, qsync, `ctl_done` interrupts, pp-split, hardware fences.

### DsiClkManager and DsiHost

`DsiClkManager` is written so that it can be proved about: counts `core` and `link` of each
client, and one record `hw` for the manager's two states, supplies, clocks (enable counts
for the link, so that a double enable shows) and the PHY flags `clamp`, `ulps`, `idle`. A
request (`ClkOn`, `ClkOff`) runs under `dsi_mngr_clk_mutex` and is one step, built of the
sub-steps the code goes through (`UpdateClkState` with the callbacks of `dsi_display.c`
before and after each change), each of which may fail on the way up (`Fault`): supplies of
controller and PHY, core clocks, LP and HS clocks of the link and the callbacks after them. The
first failure ends the request and undoes nothing, and a later request tries again (`Retry`),
also an OFF. `broken` remembers whether one of the link failed, in a request or in the forced
update. `Turn` is a
request of a client within the protocol it follows, `ForceUpdate` is the toggle without
counts, `PanelChange` are the panel flags the callbacks read. `ClkSpec` is the manager
with clients that keep the protocol.

`DsiHost` puts the real clients on it. The display thread (`d`) goes through
`dsi_bridge_pre_enable` ... `dsi_bridge_post_disable` with the error paths that a failed
clock vote or panel command takes in `dsi_display_prepare` and `dsi_display_enable`; panel
commands take `panel_lock` and go
through `dsi_host_transfer_sub` (`TxVote` ... `TxClean`), synchronous, or asynchronous with
the work that ends them (`Work`), with an interrupt or a timeout; the ESD check, backlight,
the FIFO error work and the forced update compete for the locks. `KeepsProtocol` says that
every step of `DsiHost` is a step of `ClkNext`, so what is proved of the manager for any
clients holds of this one; it is checked until a clock has failed, because after that some
callers keep a vote they were refused.

- Both controllers of a split display go through every request together: one stands for
  both.
- Left out: EARLY_GATE (nobody requests it), clock rates, continuous splash, the trusted
  VM, mode switches, batches of commands (one transfer under one lock), failures of clocks on
  the way down, of the soft reset and of the supplies of the panel.

### DpDisplay

Three threads meet on `dp->state`: `src`, the callback of the port manager (`Attach`,
`Configure`, `Attention`, `AttentionLow`, `Detach`, and the disconnect in its steps
`Abort`, `Cancel`, `Flush`, `HpdLow`, `TellLow`, `WaitLow`, `LowOff`, `Clean`,
`HostDeinit`); `wq`, the single-threaded work queue with `connect_work` (`StartConnect`,
`HpdHigh`, `Train`, `TellHigh`, `WaitHigh`) and `attention_work` (`StartAttention`,
`Serve...`); `user`, the commit that enables or disables the display (`Prepare` ...
`Unprepare`). `session_lock` is held for one action, except over the training of the link.
`Notify` is `dp_display_send_hpd_notification` up to its wait; `WaitLow`/`WaitHigh` end
when the completion is there or the time is over.

- A bit of `dp->state` is set and cleared in one step, though the code does it with a
  plain `|=` and `&=` and not always under a lock.
- Left out: MST, eDP, simulation, audio, HDCP, the hand-over to a trusted VM, the PHY test,
  the callback of the clock manager (`dp_display_mmrm_callback`).

### SdeVm

Both drivers, each with a client thread that checks commits (`Check`, `CheckFails`,
`Abandon`, `Swap`), a display thread that completes them (`Complete`, `PrimaryPostCommit`,
`TrustedPostCommit`) and an operation under `vm_res_lock` (`op`) that goes through its
calls of the hypervisor one at a time: `LendMem`, `NotifyMem`, `LendIrq` and on failure
`ReclaimMem`, `ReclaimIrq` in the primary VM; `AcceptMem`, `AcceptIrq`, `ResourceInit` and
on failure `ReleaseIrq`, `ReleaseMem` in the trusted one. `Deliver` is the handler of the
notification that sets `io_mem_handle`.

- The hypervisor is external (`Call`, `mem`, `irq`, `lends`, `notif`): it refuses to give
  what another has, and any call may fail.
- A commit of a CRTC that is inactive before and after it (`active`, `seen`) is neither checked
  (`sde_kms.c:3113`) nor looked at when it is complete (`sde_kms.c:1083`), but its request
  becomes the CRTC's with the swap. `unseen` are the VMs whose request such a commit changed
  last; the properties name it, as the code then asks nobody.
- One CRTC; both VMs list the interrupts in the same order; the message queue has no
  listener in this tree; what is done to the hardware around the hand-over is left out.

### How they fit

`MsmAtomic` gives each display thread one commit at a time; its `Apply` is what the phases
of `SdeFence`, the jobs of `SdeEncoderRc` and the thread `d` of `SdeFrame` and `DsiHost`
carry out; the frame event of `SdeFence` is the event of `SdeFrameEvents` and the
`FrameDone` of `SdeEncoderRc`; the RELEASE and ACQUIRE of `SdeVm` are commits of
`MsmAtomic`, which is why its `Swap` waits for the commit before. The modules of a frame
and of the DSI host are composed (by EXTENDS); the others are not, each assumes of the
others exactly the invariants named here.

## 3. Runs

| Run | Instance | Shows |
|---|---|---|
| `atomic` | 2 threads, 2 CRTCs, 1 plane, 2 commits; flip, flip with a borrowed plane, modeset of both CRTCs, commit without CRTC; fair | `PendingExact`, `CommitAlive`, refinement `OrderSpec`, `CommitsEnd`, `IoctlReturns`; deadlock freedom |
| `fence` | 2 fences, 3 commits, video or command mode, fair | `NoEarlySignal`, `NoLostFence`, `References`, `ResetReleasesAll`, refinement `TimelineSpec`, `DueReleased` |
| `rc_modes` | not primary, both modes, switched; wakeups, status work and a DSI thread, failing votes | `VotesMatchState`, `OffWorkSafe` |
| `rc_live` | primary, both modes, wakeups, seamless switches that may fail, no panel errors, fair | `QuietIdle`, `OffHoldsNothing`, `PowersDown`; deadlock freedom |
| `rsc` | 2 external displays, hardware of revision 2 and 4, all faults, fair | `Arbitrated`, `UpWhilePowered`, `CountEnds`; deadlock freedom |
| `frame` | one encoder with all faults, two with TE loss, two with posted start; up to 3 frames and a disable | `PendingExact`, `PoolSuffices`, `DoneIsDone`, `OffIsQuiet` |
| `frame_live` | the same with fewer frames | `CommitEnds`, `RetireSignalled` |
| `dsi_host` | clients `mdp` and `dsi`, command and video panels with ULPS, ULPS in suspend, idle PHY; one failure of any supply, clock or callback | `LinkOnCore`, `LinkOnReady`, `VotesMatch`, `InFlight`, `HostGoesOff`, `KeepsProtocol`, `DisableEnds` |
| `dsi_link` | the same, one failure of an LP link clock | violation of `CoreUnderLink`, see the findings |
| `dp` | 3 reports of the port, one failure, one suspend, fair | `StreamHasLink`, `LowIsDown`, `QuietTold`, `SourceEnds`, `UnpluggedTold` |
| `dp_told` | 3 reports, no failure | violation of `PortsTold`, see the finding |
| `vm` | 2 interrupts, 3 lends, one kind of call may fail, commits of active and inactive CRTCs | `TouchesOwn`, `BooksMatch`, `NotStuck` |

Every property has a mutant in `PROJECT.json`: a definition of the model changed the way a
plausible mistake in the code would, under which TLC finds the property violated.

### Bounds

- `MsmAtomic`: two threads and two commits, the fewest that can collide and wait for each
  other. Its safety properties are proved for any number of both.
- `SdeFence`: `MaxAhead` (2) bounds the commits opened and not yet done: one whose frame
  event is still to come and the next; the code has no counter for it, it waits for frames.
  `HalfRange` (5) is the smallest that `BoundAssumption` allows with `ExtraOffset` 0, so a
  comparison that is off by more than the real lag would change its sign; that the wrap of
  the u32 counters changes nothing is not left to the run but proved (`WrappedDifference`).
  `MaxCommit` (3) ends the run; two fences are enough for a walk to be between two of them
  while a third actor acts. The run may stop when the commits are used up or after
  `Deinit`, so deadlock is not checked there.
- `SdeEncoderRc`: `MaxFrames` (3) frames in flight, `MaxVotes` (2) bounds the votes that a
  mode switch or a wakeup starts with, since these can pile up. Deadlock is not checked with
  panel errors, because the code does have one (below), which would hide everything behind it,
  and because `oops` stops the kernel; `rc_live` does check it. `OffWorkSafe` and
  `VotesMatchState` with seamless switches beside a DSI thread are proved and in no run.
- `SdeRsc`: nothing is bounded. Two external displays, so that one may come while the other
  goes; one revision from before and one from after the change at 3.
- `SdeFrame`: three frames let one be given up, one be late and one be good; two frames
  with two encoders and TE loss (the state space grows fastest there). `MaxFaults` (1):
  with two encoders and two faults the end of a frame is known to get lost (hazards).
  `EventSize` is 6 where the code has 8, so `PoolSuffices` is stronger than it need be; six
  is also all the proof assumes. With one encoder the proofs need no other bound.
  The behaviour ends with the disable of the CRTC, so deadlock is not checked.
- `DsiHost`: two clients are all the driver registers for a display. `MaxFaults` is 1, of any
  kind at any point: each error path of the callers is taken, `Unwind` after the core vote and
  after the link vote among them. The proofs allow any number of failures of all kinds. The
  display may stay off for ever. `dsi_link` needs no more than the LP clock of the first enable.
- `DpDisplay`: three reports make plug, change and unplug, or unplug and plug again while
  the first session is still being taken down; one failure of host, training or stream and
  one suspend at any point.
- `SdeVm`: two interrupts, so that a sequence may stop between them; three lends, so that a
  notification may be overtaken and a handle stale. With `MaxFaults` 1 one call fails, any
  one at any time; the theorems need no bound. The run ends with the lends.

### What is known not to hold

Some combinations make a property false by something the code does; the run that checks
the property leaves the combination out or the property names it, and the hazard in
`PROJECT.json` says so. Two of them contradict a comment in a run of their own: the findings.

- The idle event of a command-mode display flushes the event thread with `rc_lock` held
  (`sde_encoder.c:2661`), and the ESD work on that thread wants `rc_lock`: both wait.
- Two DSI error threads that report a dead panel at a time (a display with two
  controllers) disarm each other's `delay_kickoff` (`sde_encoder.c:6643`) and break
  `OffWorkSafe`; the runs have one, next to the status work, which a DSI report stops.
- A KICKOFF of the ESD work between PRE_STOP and STOP makes STOP fail and leaves the
  encoder on (`OffHoldsNothing` is of displays without panel errors); failing clock votes break
  `QuietIdle`. An early wakeup or a seamless switch of an idle video-mode encoder (`"late"`) and
  a seamless switch after one whose reservation failed (`"half"`) vote twice.
- `sde_encoder_virt_reset` clears `cur_master` and the CRTC while the KICKOFF of the ESD work
  may be under way (`sde_encoder.c:3634`): the KICKOFF then may not ask the RSC (`"torn"`), and
  it or the report behind it may use a NULL pointer (`oops`). `OffWorkSafe` says when.
- A client that polls between the advance of `done_count` and the walk sees its fence
  signalled without the error the walk then sets; of two bad frames in a row the second
  replaces the last good frame.
- `drm_modeset_backoff` before the swap drops the locks under which a state was checked
  (`msm_atomic.c:860`).
- With posted start a dead panel can end a frame before it starts, and a pp_done that is
  handled after the next frame was counted ends that one instead, from when on the reports run
  one frame early (`sde_encoder.c:4577`): `DoneIsDone` names both.
- After a clock failure some callers of the DSI clock manager leak votes: `VotesMatch`,
  `InFlight`, `HostGoesOff` and `KeepsProtocol` speak of behaviours up to it.
- After a failure of a link clock the other one may go on running without core clocks, and
  after one in a forced update the manager takes for on what is off: `LinkNeedsCore` and
  `LinkReady` say what still holds (`broken`). After one in `dsi_display_prepare`, which keeps
  its vote, not even that does (`Stranded`); this is the finding of `dsi_link`.
- A trusted VM that could not release an interrupt, but did give away the memory and could not
  say so, counts both as its own (`"kept"`).
- A commit of an inactive CRTC changes the request of a VM unchecked (`unseen`): one that asks
  for nothing, in a VM without the hardware, lets the next commits in without it.
- A client of the RSC that is destroyed between its switch and its vblank leaves the count
  above 0: the next switch to CLK runs into its timeout. `SdeRsc` destroys no client, as
  encoders live as long as the driver.
- The trusted VM may take the claim of a RELEASE that is still queued for an acquisition
  (`sde_kms.c:3064`); the primary VM refuses every request after an ACQUIRE that was
  granted in a check and never committed, or after a failed reclaim, which also forgets
  the interrupts not yet back (`sde_vm_primary.c:101`). `TouchesOwn` and `NotStuck` name
  them.

### Findings

`dp_told`: a changed port behind an adapter is reported while `connect_work` finishes, so
`connect_work` leaves the notification to the attention that is pending
(`msm/dp/dp_display.c:1420`). `attention_work` queues `connect_work` and returns, since
"connect work should take care of sending the HPD notification"
(`msm/dp/dp_display.c:1907`). That one returns at once, because the display is CONNECTED
(`msm/dp/dp_display.c:1300`). The display is trained and ready and no client is ever told.

`dsi_link`: when the link clocks fail in `dsi_display_prepare`
(`msm/dsi/dsi_display.c:8445`), the error path starts behind the OFF of the link vote
(`msm/dsi/dsi_display.c:8478`), although the vote has been counted. Its CORE OFF
(`msm/dsi/dsi_display.c:8484`) rechecks all votes in one request: `dsi_update_clk_state` turns
the link on for the vote that is left and then the core clocks off, in a sequence of which it
says "For ON sequence, Core clocks before link clocks" and "For OFF sequence, Link clocks
before core clocks" (`msm/dsi/dsi_clk_manager.c:951`).

### Fairness

Weak fairness on every kernel thread that has work: kthread workers run queued works, the
delayed work's timer expires, frames complete or time out, input fences signal or time
out (the code waits for both with a timeout), the event thread and the interrupts run
(`SdeFrame`), the waits for a command, a client or a frame end with their timeout
(`DsiHost`, `DpDisplay`, `SdeFrame`), vblanks come or the five waits for one are over
(`SdeRsc`). Strong fairness only on taking a mutex (`LockStep` of
`MsmAtomic`, the steps of the display thread of `DsiHost` that lock): the kernel's mutexes
hand over to waiters. No fairness for clients, reports or signals: they may stop
committing, polling, waking, plugging at any time (`PowersDown` is about that), and
`IoctlReturns` only speaks of behaviours in which a signal does not keep letting others
past `connection_mutex`. `SourceEnds` and `UnpluggedTold` do not need a client that
answers.

## 4. Proofs

`SdeFenceProofs`, for any set of fences, offset, range and bounds that satisfy the
assumptions of `SdeFence`:

- `WrappedDifference`: the model's unwrapped counters compare as the u32 counters do.
- `TypeCorrect`, `TimelineStaysOrdered`, `NeverEarly`, `NeverLost`, `ReferencesSafe`,
  `DisableReleasesAll` (when the commits stay within half the range of the counters), and
  the refinement `ImplementsTimeline`.

`NoLostFence` is not inductive alone. A fence is listed after its trigger value was read,
so one must know that the commit it was read for cannot have finished: `SeqnoBound` (a
fence that is being made lies ahead of `done_count`), which needs `TimelineOrdered`, which
needs to know how many frame events are outstanding for the commits opened (`Bounded`,
`DispInv`). The walk needs `LockInv` (who holds `list_lock` and what is left to visit), and
freeing needs `FenceRefs`. The inductive invariant `IInv` is their conjunction; each
action has a lemma, with one step per part that it can disturb. The references on the
context count sets, the fences alive and the walks, so `ContextStep` says of every action
which set gains or loses which element. `DisableReleasesAll` is an action property:
`DisableInv` says that while a disable runs nothing is held back any more, that a fence held
before it has a walk to come once the timeline is reset, and that the event thread stays out
from then on.

`MsmAtomicProofs`, for any threads, CRTCs, planes, commits and requests:

- `TypeCorrect`, `AlwaysExclusive`, `MarksExact`, `HardwareFollows`,
  `NothingUsedAfterFree`, `AtMostOneJob`, and the refinement `ImplementsOrder`.

Here `Exclusive` speaks of commits after the swap, while the mark is set before it; the
inductive form `MarkedDisjoint` is about marked commits, and rests on `PendingPointwise`
(the masks are exactly the objects of marked commits) and on `ComOwned` and `StepOfPc`
(which thread owns a commit, and how far both are). `DirtyOwned` strengthens
`HardwareCurrent`: what the hardware lacks belongs to a commit not yet applied.
`AtMostOneJob` follows from `Exclusive`, because the first CRTC of a commit is one of its
objects.

`DsiProofs`, for any clients, panel configurations, failures and bounds. First the clock
manager, of clients that keep the protocol (`ClkSpec`):

- `ClkTypeCorrect`, `LinkAlwaysNeedsCore`, `LinkAlwaysReady`, `ManagerAlwaysFollows`.

They hold whatever fails and however often, so there are two invariants. `OInv`, that always
holds, says of the hardware what the manager's own states promise (`Ordered`, `Running`): what
it takes for on has everything under it. `IInv` holds until a clock or callback of the link
fails (`Safe`); it says of the hardware `HwOrdered` (supplies below core clocks below
the link, and lanes in ULPS behind open clamps can still be asked to leave it), of the votes
that no client has more for the link than for the core, and of both that what is on is
wanted; until the first failure it also says that what is wanted is on (`Clean`). Each
sequence of the manager keeps `HwOrdered` (`CoreOnOrdered`, `LinkOnOrdered`,
`LinkOffOrdered`, `CoreOffOrdered`, put together in `UpdateOrdered`), and each action the
invariant (`OnKeeps`, `OffKeeps`, `ForceKeeps`, `PanelKeeps`).

Then the display that uses the manager (`Spec` of `DsiHost`):

- `HostVotesMatch`, `HostCommandsSafe`, `HostAlwaysGoesOff`, and `HostKeepsProtocol`: the
  display is such a client. They hold whatever may fail (their properties speak of
  behaviours up to the first clock failure).
- `HostLinkNeedsCore`, `HostLinkReady`: the two properties of the manager through all
  failures, also after one, when votes have leaked, unless the display is `Stranded`.

The invariant `HInv` has three layers. `Shape` holds always: who has `panel_lock` and the
display's lock at each position of the display thread, which transfer runs, when the
asynchronous work is queued. `Paired` holds until something of the link fails: no
link vote without a core vote, and enough link votes for everybody who counts on one, so
that an OFF on an error path gives away nobody else's; a vote that a failed ON left behind
makes this an inequality. `Quiet` holds until a clock fails: the votes, the engines and
their references are exactly those of the position. `OnAll`, `OffAll` and `OffPart` state
once what a request does to `IInv` and the votes.

`SdeFrameProofs`, with one encoder (a command-mode panel that is not split), for any trigger
modes and faults, any number of faults and frames:

- `FrameTypes`, `FramePendingExact`, `FramePoolSuffices`, `FrameDoneIsDone`,
  `FrameOffIsQuiet`.

A frame is at any time in one of many places: in the encoder, taken out of it by a waiter
that timed out or by an interrupt but not yet reported, in the queue of the event thread, in
its hands, or signalled. `Frames` counts them all: `frame_pending` is what is left before the
event thread, and the fences are what is behind it. `Contexts` says which threads can be in
the middle of a report, `InFlight` how many frames each step of the display thread may have
in the encoder (the waits lower it, the kickoff raises it), `RetireOnce` that there is one
retire fence on its way, `Thread` what a disable has already shut down. That the pool of
events suffices is a matter of the one flush per frame, before the write pointer: `Pool` says
how many entries may be in use at each step, where `Behind` counts those queued after the
flush began and `Loose` the retire events behind the last frame, which nobody waits for until
the next kickoff. `DoneIsDone` is about one frame number and one register; `Reads` says which
of the last frames the hardware may still read (`Ahead`: those in the encoder, less one whose
interrupt is latched, and one more from when on the reports run early), and `Write` that a
start latched or posted belongs to the frame whose retire fence is outstanding. A lemma per
action (`CountKeeps`, ..., `HwFaultKeeps`) shows that it keeps all parts; `Counted` and the
lemmas on `CountIn` and `From` say what appending to the queue and taking its head do to the
sums.

With two encoders the properties stay with TLC: which end of a frame is dropped when the
encoders disagree depends on how the faults fall, and with two of them the end of a frame is
known to get lost.

`SdeVmProofs`, for any number of interrupts and lends and failures of any calls, as many as
there are:

- `VmTypeCorrect`, `BooksAlwaysMatch`, `NeverStuck`, `OnlyTheOwnerTouches`. None has an
  assumption; what is excepted is in the properties.

The properties speak of VMs at rest, the hazards are in the middle of an operation. So the
invariant says of every step what the books mean: interrupts are lent and accepted in
order, so a count is a prefix (`PrimaryBooks`, `TrustedBooks`); notifications are of later
lends than the trusted VM knows (`Notifs`), so a handle it holds with accepted memory is
the last one. A request and the commits under way say who holds the claim (`Shape`,
`Entitled`), and a VM with the claim owns, as far as the requests were looked at; the commits of
inactive CRTCs keep their own account (`Asked`, `unseen`). An interrupt that could not be
reclaimed is forgotten, so that the counts are prefixes only from below after it (`Rest` says
what they are before). `WayOut` says how a primary VM gets into state RELEASE with hardware it
owns. After a release that failed the trusted VM may count interrupts without the memory:
`Backed` says that they lie behind memory it has, or that it has no handle then and gets none,
because the primary VM cannot lend the memory again before it has those interrupts back. The one
exception is a memory given away by a VM that kept interrupts (`"kept"`).

`SdeEncoderRcProofs`, for any modes, threads and numbers of frames and votes:

- `RcTypeCorrect`; `IdleIsQuiet`, unless clock votes fail; `DelayedWorkFindsItsCrtc` and
  `VotesAlwaysMatch`, with one reporter of a dead panel at a time (`OneReporter`); `OffMeansOff`,
  with no reporter; `RscAskedUnderPower`, with one reporter and, when the panel mode may change,
  clocks that do not fail (`SureSwitch`).

What a theorem assumes is what the code needs (see above); each run takes an instance that
keeps the assumptions of its properties and nothing else. The base is `Core`: `JobInv` says
at which step of a job master and CRTC are set, `LockInv` who holds `rc_lock` over several
steps and that nothing starts in the meantime. On it rest, one by one, `QuietInv`,
`ReportInv` (one report at a time, `delay_kickoff` set until it ends, the work not pending
where the encoder is reset unless its report is still under way), `KickInv` (which pointers
the KICKOFF of the event thread can have lost at each of its steps, and that only a reset
takes them), `VotesInv` (votes of each state and of each step of that KICKOFF, and which
states a step of a job may meet), `OffInv` and `RscInv` (a switch of the panel mode is the
only one to ask the RSC with the clocks off). `RscAskedUnderPower` discharges what `SdeRsc`
assumes of its clients. Its last assumption is needed: when the clocks fail in a commit that
changed the panel mode the encoder stays off, with an active request of the RSC and without a
vote. The effect of an event is stated once per event (`KickoffStep`, `PreStopStep`,
`CollapseStep`, ...) and cited by each invariant.

`SdeRscProofs`, for any external displays, revisions and faults:

- `RscTypeCorrect`, `AlwaysArbitrated`, `AlwaysUpWhilePowered`, `CountHasPayer` (while a
  vsync is waited for, a client that keeps the RSC in CLK is about to lower the count), and
  `SwitchesServe` (also after a failure, every switch is to the state that serves the clients
  at that moment).

The parts need each other. That a switch ends in the right state needs `SleepInv` for one
that was put off and `PowerInv` for who may ask; that CLK lasts as long as the count needs
`PayInv`, which needs `ChoiceInv` (in CMD and VID the primary display is alone, even when
the last switch failed). `GoalIsChoice` is the step in the middle: what the four functions
decide is the state that serves the clients.

`DpProofs`, for any number of reports, failures and suspends:

- `DpTypeCorrect`, `StreamsHaveLinks`, `LowMeansDown`, `ToldMeansConnected`.

The bits of `dp->state` mean different things at each step of each thread. `WorkInv` says
which threads can be where at the same time (the locks, the flush of a disconnect),
`HostInv` what the bits promise of host, link and streams while nobody is between two of
them, `OutInv` what is left after a disconnect, `ToldInv` what a client knows.

The assumptions are those of the constants (`FenceAssumption`, `OffsetAssumption`,
`BoundAssumption`, `RequestAssumption`, `IndexAssumption`, `CommitAssumption`,
`ClkAssumption`, `HostAssumption`, `EventAssumption`, `VmAssumption`, `RcAssumption`,
`RscAssumption`, and `Bounds` of `DpDisplay`); TLC evaluates them in the runs.

Only model-checked: the properties of `SdeFrame` with two encoders; the liveness properties,
which are out of the prover's reach. Only proved, and in no run: the
type invariants of the modules with proofs, `TimelineOrdered`, `Exclusive` (which the
refinement implies), `HardwareCurrent`, `OneJob`, `ManagerFollows`, `RscUnderPower`, and the
statements of `CountHasPayer` and `SwitchesServe`.

## 5. Not modelled, and the plan

The driver has about 244 000 lines, of which the models stand for about 9 900. Most of the
rest is out of reach of a model of this kind for good: register offsets and sequences, the
hardware catalog and device-tree parsing, colour processing and register DMA, PLL and PHY
tables, formats, EDID and compression, debug dumps and generated data. They run in one
thread and compute; a model of them would repeat them line by line.

Left out of the modelled parts: hardware fences and the spec-fence ioctl; the retire fence
of a connector; seamless-switch rules inside `complete_commit`; power votes of
`prepare_commit`; `lastclose`; autorefresh, clone mode, video-mode and writeback encoders;
TE and vsync source; mode switches and continuous splash of DSI; DisplayPort MST, HDCP and
audio; the message queue between the virtual machines.

Next, in this order:

1. Proofs about `SdeFrame` with two encoders and one fault: an invariant that says which
   encoder's end of a frame is still to come.
2. An abstract arbiter for `SdeRsc` that takes the place of the flag `rsc` of
   `SdeEncoderRc`.
3. `SdeRotator` (session close against requests in flight) and `SdeRm` (reservations that
   are tested and never committed).
4. The interrupt manager: callbacks that unregister themselves.
5. `DpMst` and `Hdcp2x` on top of `DpDisplay`.
6. A composition of `MsmAtomic` with the frame and resource modules for one CRTC, to
   discharge the assumptions they make of each other.
