# TLA+ models of GPU debugging and tracing in ROCgdb

ROCgdb is GDB with support for AMD GPUs. Its GPU part is the *amd-dbgapi target*
(`src/gdb/amd-dbgapi-target.c`), a layer on the native Linux target that makes every
GPU *wave* a GDB thread through the amd-dbgapi library. This repository adds an
instruction tracer for GPU kernels (`src/gdb/amdgpu_tracer.py`) and a browser view of
its traces. The models cover the run control of waves, stepping them over breakpoints,
the delivery of library events through GDB's event loop, GPU watchpoints, and the
tracer. The rest of GDB and binutils is inventoried below and left out.

| Module | Models | Code |
| --- | --- | --- |
| `AmdDbgapiTarget` | waves of one inferior: resume, stop, events, thread list, `stop_all_threads` | `amd-dbgapi-target.c`, `infrun.c` |
| `WaveControl` | what that run control promises (abstract specification) | |
| `AmdDbgapiTargetProofs`, `WaveControlProofs` | TLAPS proofs about `AmdDbgapiTarget`; its refinement of `WaveControl` | |
| `StepOver` | stepping waves over breakpoints: displaced and in-line steps, the queue, restarts | `infrun.c`, `amd-dbgapi-target.c`, `thread.c` |
| `EventLoop` | the rotation of the event loop over its sources | `event-loop.cc`, `async-event.c` |
| `EventDelivery` | extends `EventLoop`: notifiers, async event handler and polling of several inferiors | `amd-dbgapi-target.c`, `infrun.c`, `inf-loop.c` |
| `Watchpoints` | the CPU and GPU halves of hardware watchpoints | `breakpoint.c`, `amd-dbgapi-target.c` |
| `GpuTracer` | the `amdgpu_trace` command | `amdgpu_tracer.py` |
| `StepOverProofs`, `EventDeliveryProofs`, `WatchpointsProofs`, `GpuTracerProofs` | TLAPS proofs about these modules | |
| `LoopTheorems`, `ListTheorems` | what those proofs share: induction over a loop, sequences without repetition | |
| `MC*` | model values and locations for TLC | |

`PROJECT.json` maps each definition to its source lines. Definitions whose comment
begins with "Bug:" are not part of any specification: each is a plausible mistake in
the definition after it, used to see that a property notices it.

## Inventory

**amd-dbgapi target, run control.** State: per inferior a `wave_info` for each known
wave (`last_resume_mode`, `stopping`), the queue `wave_events`, the flag
`m_report_thread_events`. Operations: `resume`, `stop`, `wait`, `process_event_queue`,
`process_one_event`, `update_thread_list`, `add_gpu_thread`, `thread_events`,
`prevent_new_threads`. Called by infrun; calls the library, whose waves change on
their own between any two calls. Hard: a wave that terminates while it is stepped or
stopped (the library reports it only if a command was outstanding), a trap that races
a stop, a wave first heard of through its own stop. Correct when GDB's idea of each
wave is right or an event that corrects it is coming, and each event comes once.

**infrun.** State per thread: `state`, `executing`, `stop_requested`, a pending wait
status. Operations: `resume_1`, `fetch_inferior_event`, `do_target_wait`,
`handle_inferior_event`, `stop_all_threads` with `handle_one`, the
`thread_stop_requested` observer. Hard: `stop_all_threads` counts the stops it asked
for and waits for that many events, while waves start, trap and vanish. Correct when
it returns, and no wave runs then.

**amd-dbgapi target, event delivery.** State: per inferior `process_id`, `notifier`,
`runtime_state`; one async event handler for all inferiors. Operations:
`attach_amd_dbgapi`, `detach_amd_dbgapi`, `dbgapi_notifier_handler`, `async`, `wait`,
`close`. Interacts with the event loop (file handlers, the async event handler), the
Linux target's own wakeup file, and the runtime of each process, whose loading pushes
the target and whose unloading pops it. Hard: a wakeup is consumed by someone other
than the one it was for. Correct when no event is left without a wakeup.

**infrun, step-overs.** State: per thread `resumed`, `trap_expected`,
`stepping_over_breakpoint`, `stop_pc`, a displaced step; the queue
`global_thread_step_over_list` and `step_over_info`; in the target `stepping_id_map`, in
the library a few buffers. Operations: `proceed`, `keep_going_pass_signal`, `resume_1`,
`displaced_step_prepare` and `_finish`, `start_step_over`, `finish_step_over`,
`restart_threads`. Hard: every operation may stop all threads in its middle, which cancels
displaced steps, leaves events pending and refills the queue. Correct when nobody runs past
a removed breakpoint, nobody is forgotten, and the many assertions hold; and `insert_breakpoints`,
which each of them calls, may fail.

**Event loop.** State: `poll_fds`, `next_poll_fds_index`, `event_source_head`. One call of
`gdb_do_one_event` serves one source. Correct when no ready source is passed over for ever,
although handlers are added and removed under its index.

**Watchpoints.** State: the sorted list of locations with `inserted` and `duplicate`, the
debug registers, `watchpoint_map` and the library's watchpoints. Operations: the commands,
`update_global_location_list`, `insert_watchpoint`, `remove_watchpoint`, and
`insert_initial_watchpoints` when the runtime loads. Hard: each insertion has two halves,
either of which may fail. Correct when both halves agree with what GDB believes.

**amdgpu_trace command.** State: the register values recorded last (a global), the
steps of the current wave, the trace. Operations: reach the kernel, lock the
scheduler, step each wave to `s_endpgm` or a cap, write JSON. Hard: waves that vanish,
loop or still have a stop pending, calls that raise. Correct when the trace has each
wave from its first instruction with enough to tell its registers, and the scheduler
is unlocked afterwards.

**Not modelled.**
- *Core file observers*: nothing runs in a core file. *Timers and signal handlers* of the
  event loop, and more than one async event handler (the first ready one is served, so
  infrun's own can starve the target's; it is not busy by itself).
- *Range stepping, inferior calls, fork following, reverse execution, signals* of infrun:
  none is particular to waves.
- *ROCm code objects* (`src/gdb/solib-rocm.c`): its file descriptor cache is a candidate.
- *Native Linux target*: kept in `EventDelivery` as a wakeup file and three answers.
- *AMDGPU architecture* (`src/gdb/amdgpu-tdep.c`) and the *info commands*: description
  and formatting, no protocol.
- *Trace visualizer*: three React states and a text parser. *`amdgpu_tracer.cpp`*: a stub.
- *Remote protocol, gdbserver, host displaced stepping*: the amd-dbgapi target attaches
  to native processes and core files. *bfd, gas, ld, sim, ...*: not GPU debugging.

## AmdDbgapiTarget

Three actors. The **library** (external) has a state per wave (`unborn`, `run`,
`stop`, `gone`), the commands it has accepted, and at most one event per wave. The
**target** has the thread and `wave_info` of each wave and `wave_events`. **infrun** has
`executing`, `stop_requested`, `pending_waitstatus` and the locals of
`stop_all_threads`. GDB is one thread, so its handlers exclude each other, but each call
into the library is a step of its own, and waves run between them:

| Action | Code |
| --- | --- |
| `WaveStart`, `WaveTraps`, `StopCompletes`, `WaveTerminates` | the GPU and the library |
| `Resume` | `amd_dbgapi_target::resume`, `resume_1`, the creation mode set by `proceed` |
| `Interrupt` | the `interrupt` command: `target_stop`, `set_stop_requested`, the observer |
| `StopOneThread`, `StopVanishedWave` | the lambda of `amd_dbgapi_target::stop` |
| `BeginDrain`, `ProcessOneEvent`, `EndDrain` | `process_event_queue`, one step per event |
| `UpdateThreadList`, `RefreshThreads` | `update_thread_list` of the target, if pushed on the current inferior, and of the one beneath |
| `HandleInferiorEvent`, `HandlePendingEvent` | `wait` and `handle_inferior_event`; a status pending in a thread |
| `BeginStopAll`, `StopAllUpdate`, `VisitThread`, `EndRequests`, `HandleOne` | `stop_all_threads`, one step per thread and per event |

Abstractions. `keep_going` after an event is the stop followed by `Resume`. A pending
status infrun discards is handled and followed by `Resume`. Signals other than
`GDB_SIGNAL_0` are one value. Forward progress and `commit_resumed` only change how soon
the library acts. `delete_thread_silent` erases the thread or leaves it `THREAD_EXITED`,
whichever its references say: both are allowed.

Assumed of the library: a wave id is not reused; a halted wave does not terminate until
it is resumed; wave creation mode `stop` prevents new waves; a wave does not change
between the state query and `amd_dbgapi_wave_stop` of one `stop`; and, in `wait_one`, it
does not say "no event" while a stop it accepted is unanswered. The last matters
because `wait_one` sleeps on the process target's descriptor and not on the notifiers.

Two constants admit sessions the code allows and that break; the other runs and the
proofs are about sessions without them. `RepeatInterrupt` says whether a thread already
asked to stop may be interrupted again (`target_interrupts`). `TargetAtFirst` says whether
the first inferior of the process target has the amd-dbgapi target: `stop_all_threads`
enables thread events and refreshes the thread list through that one only, and `wait_one`
takes its `NO_RESUMED` for the end of the wait (`target_first_inferior`).

Properties:
- `ExitHasThread`: an exit on its way to infrun is of a wave with a thread, so the
  assertion in `amd_dbgapi_thread_deleted` holds and infrun resurrects nothing.
- `ReportedOnce`: one event per wave in flight at most, none for a stopped thread.
- `StoppedMeansStopped`, `ExecutingIsNotForgotten`: GDB's view of a wave is right, or
  what corrects it is on its way.
- `TrapNotLost`: a trap is in flight, pending or handled until the wave is resumed.
- `WaitsAreOwed`, `StopAllReturns`: what `stop_all_threads` waits for comes.
- `AllStoppedOnReturn`: no wave runs when it returns.
- `ImplementsWaveControl`: refinement of `WaveControl` (`INSTANCE WaveControl WITH status <-
  WaveStatus`), a machine in which a stopped wave can only be resumed, exits are final and each
  request to stop is answered.

**Fairness.** Weak fairness of GDB's own loops, of serving a queued event, and of the
library completing a stop it accepted. None for resumes, interrupts, traps, starts,
terminations or `info threads`: nothing obliges the user or the kernel.

## StepOver

A wave is at no breakpoint, at a breakpoint, or at one whose instruction the library
refuses to displace. infrun handles a command or an event to its end without returning to
the event loop, so each is one step, written as a composition of operators named for the
functions: `Proceed` is `proceed` with its calls of `start_step_over` and
`proceed_resume_thread_checked`; `HandleEvent` and `HandlePending` are
`handle_inferior_event` with `finish_step_over`, `restart_threads` and `keep_going`. All
work on one record `t`, as the functions work on GDB's globals. A loop over the threads is a
recursive function (`EachWave`) of the operator for one pass: `StopThread`, `RestartThread`,
`QueueThread`, `ResumeChecked`; `start_step_over`'s, over the queue it took, is of `StepOne`.

What waves do while such a step runs shows only in `stop_all_threads`, which is modelled
by its contract (the detail is `AmdDbgapiTarget`'s): `out` chooses for each wave whether it
stops where it is, gets to a place, or terminates first. `WaveReports` and `WaveEnds` are
what waves do between steps, `Interrupt` the `interrupt` command in non-stop mode,
`HostEvent` an event of a host thread, which also starts queued step-overs.

`insert_breakpoints` is called by `keep_going_pass_signal`, `resume_1` and `finish_step_over`, for a
thread each time, and `out` also chooses which of these calls fail. In the first it is caught: the
thread is not resumed, `step_over_info` is cleared, and what was stopped stays stopped ("gave up" in
`t.failed`). What comes of that depends on the caller: `keep_going` presents a stop;
`start_step_over`, which has taken the thread off the queue, and `proceed_resume_thread_checked`
raise "Command aborted."; `restart_threads` takes no notice. In the other two the error goes through
("error"). An error ends the loop at hand, puts back what `start_step_over` had not come to, and
leaves `proceed` or `fetch_inferior_event`, where `finish_thread_state` stops those of the command's
threads, or the thread of the event, that do not execute. The constant `InsertFails` says whether
any of this may happen. After it the code does not keep what it relies on (`step_over_insert`), so
`step_over` and the theorems are for sessions in which `insert_breakpoints` succeeds: in the
instance with failures `DisplacedOwned`, `QueueQuiet` and `NoSecondHit` fail as well.

Abstractions: no signals, watchpoints under step, inferior calls or vfork; whether a
thread stops or goes on after a trap is open (`HandleSignalStop`), which covers breakpoint
conditions and stepping commands. A running wave that ends is deleted at once. Host threads
do not take buffers (their own pool's `unavailable` flag could defer waves of the same
inferior). After a command that failed on a wave that is gone (`t.error`) no other is given. In
all-stop mode a command is given when no thread runs for the user, which restricts the model only
after a failed insertion: GDB asks only that the selected thread does not run.

- `DisplacedOwned`: infrun, `stepping_id_map` and the library agree on who is in a displaced
  step, except that the library forgets a wave that has terminated first.
- `QueueQuiet`: what `start_step_over` takes for granted of a queued thread.
- `InLineAlone`: with a breakpoint removed, no wave but the stepping one executes.
- `NeedyAreQueued`: what the comment at `infrun.c:6743` says: a thread that runs for the user, is
  not resumed, has nothing to report and needs a step-over is in the queue. `restart_threads` ends
  in an internal error otherwise.
- `NoAssertionFails`: the assertions of `start_step_over` (lines 2209, 2251-2261, 2288, 2294, 2300),
  `finish_step_over` (6803, 6867, 6876), `restart_threads` (6683, 6720, 6741, 6746), `resume_1`
  (2699, 2700), `keep_going_pass_signal` (9167), `proceed` (3549, 3672, 3772), `set_pending_waitstatus` (`thread.c:493`), the queue (queued once) and the
  target's displaced steps (`stepping_id_map`). Those that repeat the test just before them
  (6728, for instance) are not restated.
- `NoSecondHit`, `PausedIsResumed`: in non-stop mode no breakpoint is hit twice without an
  instruction in between, and no thread stays paused or queued. Both fail in all-stop mode,
  see the observations below.

**Fairness.** Strong for serving each thread's event: `do_target_wait_1` and the library
pick among several at random. Weak for the report of a wave that steps or was asked to
stop. Strong for a step that does not end at another breakpoint: programs do not consist of
breakpoints only.

## EventLoop and EventDelivery

`EventLoop` has `poll_fds`, the index at which the search for a readable descriptor goes on,
and the kind of source asked first. `ServeFile` and `ServeHandler` are one call of
`gdb_do_one_event`; which source is served is determined, so what used to be a fairness
assumption of the delivery is now the code's own rotation. Timers are never ready.

Inferiors `1..N` share the Linux target and the async event handler. The library raises
wave events (once the runtime is loaded) and load or unload events; a host event marks
the Linux target's file. `NotifierHandler` is `dbgapi_notifier_handler`; `StartFetch` and
`Poll` are `fetch_inferior_event` with `do_target_wait`'s loop over inferiors, one step
per inferior, and `amd_dbgapi_target::wait` in each (`PollHost`, `PollBeneath`,
`ConsumeOneEvent`, `ProcessEventQueue`). A host event is a stop, an exit, an exec
(`amd_dbgapi_inferior_execd`: detach, then attach to the new image) or a fork
(`amd_dbgapi_inferior_forked`). `Report` is the end of a fetch, after which all-stop mode
may switch async off (`AsyncOff`). `Attach`, `Leave`, `Detach`, `Closed`, `AsyncOn` are the
registration code.

Abstractions: an event only has to arrive, what it does to threads is
`AmdDbgapiTarget`'s; `stop_all_threads`' own draining is not repeated; infrun's async
token, an extra wakeup when async is switched on, is left out; `follow-exec-mode new` and
``same` are one case. Assumed: the library writes to the notifier once per event; a process
does not go on past the loading of its runtime before GDB has handled it; nothing runs while
the target is not async; a host thread loads and unloads the runtime. It may unload it behind wave
events nobody has read: then `wait` drains both in one call and, if no other inferior has the
target, its `more_events` guard marks the handler `close` has just deleted. The assertion at
`amd-dbgapi-target.c:785` fails, and the model stops there, as GDB does in its internal-error query
(`InternalError`). The `wave_events` of an inferior whose runtime is unloaded are kept, and
returned only while another inferior has the target. `MaxEvents` bounds attaches and library
events; host events are not bounded.

- `NoLostWakeupIfResumed`: while GDB waits and a host thread is resumed, any event held by
  the library or by `wave_events` has a wakeup. Without a resumed host thread,
  `NoLostWakeup` fails (`delivery_no_resumed`).
- `HandlerExists`: while the target is async and pushed on some inferior, the handler exists.
- `FailsOnlyAtUnload`: the assertion of `async_event_handler_mark` fails in the case above and in no
  other: for a wave event drained together with the `UNLOADED` of the last inferior with the target.
- `NotifiersWatched`: while async, every attached inferior's notifier is watched. It fails
  if the last inferior with the target leaves while stopped (`LeaveWhileStopped`,
  `delivery_leave`).
- `NotifiersServed`: a readable notifier is read, however busy the host threads are.
- `EventsDelivered`: once the host threads fall silent, each event is pulled and returned,
  unless GDB stops listening or the assertion has failed. The Linux target is polled first, so host threads that never
  cease to report would keep the GPU's events waiting.

**Fairness.** Weak for `gdb_do_one_event` as a whole (the loop goes round; it chooses by
itself) and for `Poll` (a fetch runs to its end). Strong for `StartFetch(i)`:
`do_target_wait` starts from a random inferior, and one that is possible again and again is
eventually drawn.

## Watchpoints

The constant `BpLocations` is `all_bp_locations` in its order. Each command is one step through
`update_global_location_list`. Its first loop is `Retire`, a turn per location: one that is inserted
and no longer wanted hands its insertion to a duplicate (`HandOver`), with the mark `duplicate` the
other way (`SwapInsertion`), or leaves the target. The heir is then no duplicate, so its own turn
keeps it. The second loop is `Rescanned`: each wanted location is the first of its kind or the
duplicate of the first, to which it passes its insertion. Then come `InsertMissing` and
`RemoveHalfInserted` (`insert_breakpoint_locations`). Below are `InsertWatchpoint` and
`RemoveWatchpoint`, of the Linux target alone or, once the runtime is loaded, of both.
`RuntimeLoaded` runs `insert_initial_watchpoints`; `RuntimeUnloaded` leaves `watchpoint_map`
alone; `MournInferior` ends the process. A debug register holds a region; the library has
`GpuRegs` watchpoints and reduces the range of the locations in `Reduced`. The loops over the
list are `ForEach`, a recursive function, and have names (`InsertAll`, `RemoveAll`, `RetireAll`,
`RescanAll`, `InsertInitialAll`) so that lemmas can speak of them. `Contiguous`, a condition on the
locations (no other location of their type stands between two that match), is stated and not assumed
by the module; `MCWatchpoints` asserts that the instance checked satisfies it. Left out:
the reference counts of the debug registers, software watchpoints, the retry of a read
watchpoint as an access one, and re-evaluation of the watched expression, so a watchpoint's
locations are fixed.

- `HostMatches`: the debug registers hold what GDB believes inserted.
- `NoGpuLeak`: each watchpoint of the library is in `watchpoint_map`.
- `WatchedOnGpu`: what is believed inserted is watched on the GPU, unless the user was warned or
  another location's range lies within its own. The second exception is what `remove_watchpoint`
  does: it takes an entry that *holds* a range for the range's own. With TLC the property without
  it fails in six states of the instance (set watchpoints 2 and 3, continue, load the runtime, which
  warns of the nested location, disable 3).
- `HandedOver`: disabling or deleting a watchpoint takes no region from another that wants it.
- `TriggerAttributed`: whichever watchpoints trigger at once, each is considered.
- `ResumedWatched`: the program is not resumed while an enabled watchpoint lacks a location.

## GpuTracer

`pc` is the place in `AMDGPUTrace.invoke`. A wave's program is a line of instructions
ending in `s_endpgm`, with branches backwards if `Loops`. `Stepi` is GDB and the GPU:
the wave executes one instruction, or reports a stop that was pending, or ends; other
waves move only if the scheduler is not locked. Any subset of the registers may be
unreadable at any step, the disassembler may fail, listing threads may fail, and every
call that may raise has its action (`CommandFails`, `LoopRaises`, `StepiFails`). `seen`,
`ran` and `listed` are history variables. Output settings, the text of the disassembly
and the wave number are left out.

- `RegistersReconstruct`: although only changes are recorded, each step's registers
  can be told from the record.
- `TraceComplete`: under the lock, the file has each wave once, from its first instruction.
- `LockReleased`: once tracing has begun, every exit releases the scheduler lock.
- `TraceEnds`: the command ends. **Fairness:** weak for the command as a whole: the
  interpreter runs on and each `stepi` returns. It does not return if the wave waits at a
  barrier for waves the lock holds; barriers are not modelled.

## Runs

| Run | Instance | Distinct states | Result |
| --- | --- | --- | --- |
| `target` | 2 waves | 56,942 | ten properties hold |
| `target_interrupts` | 2 waves, repeated interrupts | | `ExitHasThread` violated |
| `target_first_inferior` | 2 waves, first inferior without the target | | `AllStoppedOnReturn` violated |
| `step_over` | 2 waves, 1 buffer, no failing insertion | 10,758 | eight properties hold |
| `step_over_gone` | the same | | `ResumingGoneSucceeds` violated |
| `step_over_insert` | the same, insertions may fail | | `NeedyAreQueued` violated |
| `delivery` | 2 inferiors, 4 library events and attaches | 121,999 | seven properties hold |
| `delivery_no_resumed` | the same | | `NoLostWakeup` violated |
| `delivery_leave` | the same, leave while stopped | | `NotifiersWatched` violated |
| `watchpoints` | 4 watchpoints, 5 locations, 3 debug registers, 2 on the GPU | 214,625 | seven properties hold |
| `tracer` | 2 waves, 1 register, 2 values, loops, cap 2 | 985,908 | five properties hold |
| `tracer_stepping` | 2 waves, no loops, no cap | | `OneInstructionPerStep` violated |

Why the bounds are enough. In `target`, waves interact only through `stop_all_threads`' counter
and passes and the queue's order, and the proofs cover any number of waves for every safety
property; likewise any number of waves and buffers for `step_over`, of inferiors and events for
`delivery`, any locations and registers for `watchpoints`, any kernel for `tracer`. In `step_over`, two waves and one buffer
give a wave that has the buffer and one that waits for it, or one that steps in line and one
that is paused; a step handles any number of waves in sequence, and the state of each is
whatever `out` says. In `delivery`, the second inferior is the one polled first, the one without
the target, or the one whose notifier moves in `poll_fds`; four events let both attach, one load
and one raise a wave event and unload behind it, with forks and execs unbounded but for that (with
five events, 300,919 states, the properties hold too). In `watchpoints`, the five locations
are a duplicate pair, a watchpoint that overlaps the pair, a location nested in that one whose range
is reduced and whose watchpoint also owns half of the pair, and an access watchpoint; each kind of
register can run out. In the tracer, two waves
show interference between waves, two values a change, and a cap of two both exits of the loop;
`Length` 1 with loops gives every path of up to two instructions.

The tracer's runs do not check deadlock because the command ends; the delivery runs
because the session ends when `MaxEvents` is used up; the step-over runs because all waves
may have ended. The other runs do.

## Proofs

`AmdDbgapiTargetProofs` proves, for any finite set of waves, `TypeCorrect`
(`Spec => []TypeOK`), and, assuming `~RepeatInterrupt` and `TargetAtFirst`, the five wave
invariants and `AllStoppedOnReturn`: `ExitsHaveThreads`, `EventsAreReportedOnce`,
`StoppedThreadsAreStopped`, `NoThreadIsForgotten`, `TrapsAreNotLost`, `StopAllStopsAll`.
Without either assumption the runs above show violations.

`TypeOK` is not inductive, since `handle_one` decrements `waits_needed`: `TypeInv` adds
that the wait loop is entered with something to wait for. The safety properties rest on

    IInv == TypeInv /\ QueueInv /\ LoopInv /\ \A w \in Waves : WaveInv(w)

- `EventInv(w)`: an event in flight agrees with the wave's state and belongs to a thread
  infrun believes executing; an exit in flight has its thread, and a reason for it
  (stepping, or both `stopping` and `stop_requested`).
- `CommandInv(w)`: `wave_info` and the library agree about outstanding commands. This
  is what `stop` and `update_thread_list` gamble on: they infer from `last_resume_mode`
  and `stopping` whether an exit event will come.
- `ThreadInv(w)`: each pair of wave state and thread state has its explanation.
- `TrapInv(w)`: `TrapNotLost`.
- `QueueInv`: the queue has one event per wave and none the library still has.
- `LoopInv`: during `stop_all_threads` thread events are on and creation is off, and in a
  pass that has found nothing to wait for, executing threads are still to be visited.
  At the end of such a pass no wave runs.

No property is inductive alone: that an exit has its thread needs `CommandInv` (why
`stop` may delete), which needs `ThreadInv` (a listed running wave is executing), which
needs `EventInv`. There is a lemma per action (`ResumeInv`, `InterruptInv`, ...); most
actions touch one wave, and `WaveFrame` disposes of the others.

`WaveControlProofs` goes on from `IInv`, under the same two assumptions.

- `WaitsOwed`: `WaitsAreOwed` for any finite set of waves. The property compares a counter with
  a set, so the proof is about cardinalities: `WaitInv` says that `waits_needed` is at most the
  number of `Debtors`, the waves visited in this pass that owe an event. Visiting a thread adds
  one to both sides, handling an event takes one off both, and no step of a wave or of the
  library makes a debtor forget its debt without an event (this is where `IInv` enters).
- `ImplementsSafely`: the safety half of `ImplementsWaveControl` (`Spec => Promise!Safety`).
  A lemma per action gives the moves it can make in the status of each wave, and each is one the
  abstract machine allows or a stutter. The other half, that requests are answered, is fairness.

`EventDeliveryProofs` is for any number of inferiors and any `MaxEvents`. `TypeCorrect`,
`HandlerIsThere` and `FailsAtUnload` need that `BaseInv` holds until the assertion fails, and
`FailedInv` (no inferior has the target) from then on. `BaseInv` has types; what the library may hold for an inferior with the
target, without it, or not attached (`LibraryInv`); and that the handler exists exactly while
the Linux target is async and some inferior has the target (`HandlerInv`). `AllNotifiersWatched`
and `NoWakeupLost` assume `~LeaveWhileStopped` (the run `delivery_leave` shows why). `WatchInv`
says that the notifiers are watched, or will be by the next `target_async (true)` since a target
is pushed. `WakeInv` follows an event through a fetch: it is announced by its notifier, during
the fetch by a poll still to come, after it by the handler's mark or the Linux target's file.
The hard step is the poll that finds a host event and leaves inferiors unpolled.

`WatchpointsProofs` is for any list of locations in address order and any numbers of registers.
Each command runs loops over the list that call loops, and no induction theorem of the library
can be used, since they take operators as parameters. `LoopTheorems` proves a first-order one
(from the least natural number outside a set): if each pass keeps the state in a *set* X, the
loop ends in X. The sets are
- `Base`: types, the numbers of registers, and that the library's watchpoints are in
  `watchpoint_map`, which has no address twice. It gives `TypeCorrect`, `NothingLeaks`,
  `StopsAreAttributed`, and, with the result of `InsertAll`, the action property
  `ResumesWatched`, all without further assumptions;
- `HostSet`: the debug registers hold the inserted locations, one each, and of equal locations
  one at most is inserted. It gives `HostIsInStep`, assuming `Contiguous`. GDB compares a
  location only with the one before it, and the model's registers are not counted: with a location
  of another length between two that match, both are inserted, and removing one
  takes the register (x86 counts its references, so there the second keeps it);
- `GpuSet`: the library has a watchpoint for each inserted location without a warning that has no
  other range within its own. It gives `GpuWatches`, assuming `Contiguous`. `Kept(S)` says that the
  primitives keep a set S; what the commands do is proved once for every such S.

`InsertionsAreHandedOver`, assuming `Contiguous`, follows one wanted location through the first
loop: up to the turn of the location that holds the insertion of its region the region is in the
target, in that turn it passes to an heir that is no duplicate any more, and no later turn finds a
reason to remove it.

`StepOverProofs` is for any number of waves and of buffers, at least one of each, in both modes,
with `set displaced-stepping` changing at any time, assuming `~InsertFails`. All seven theorems
follow from one inductive invariant (`StepOverInvariant`), a conjunct per wave:

- `ResumedInv`: a thread that executes was resumed and has nothing pending; if it expects a trap
  it steps, out of line or as the thread of `step_over_info`, and until it reports there is a
  breakpoint under it to step over; if not, it runs free, in non-stop mode from no breakpoint. It
  gives `NoSecondHits`.
- `DisplacedInv`: the three records of a displaced step (`DisplacedStepsAreOwned`).
- `QueuedInv`: a queued thread meets what `start_step_over` asserts (`QueueIsQuiet`) and still
  needs its step-over, which is why its step-over can only start, wait, or be queued again.
- `PausedInv`: a thread that only `restart_threads` would resume meets what that asserts
  (`NeedyThreadsAreQueued`). A
  thread of a wave that is gone has the exit to report. In non-stop mode a stopped thread has
  its `stop_pc`, which is how `proceed` knows that it must step over.
- `InLine`: with `step_over_info` set, only its thread is resumed, and it steps
  (`InLineStepsAreAlone`).

`Sound` adds types, that no assertion has failed (`NoAssertionEverFails`), that no thread is queued
twice and that the buffers suffice (`TypeCorrect`).

Inside a step the invariant does not hold: `start_step_over` has taken the queue and its threads
are in no list; the thread of an event is neither resumed nor stopped until the handler has
decided; `proceed` has marked all threads running and resumed none. `Inv(s, E)` is the invariant
of such a state, with the set E of threads that are still to be settled excused from `PausedInv`;
every operator has a lemma that says which threads it settles. A pass of a loop that starts an
in-line step-over pauses the others, so the loop lemmas also say what becomes of the threads that
are *not* at hand (`Alone`: nothing; `Aside`: paused). Each loop is an instance of the loop
induction above, with the set of states before pass i as X[i]; `StopAllThreads` within
`KeepGoingPassSignal` within `StartStepOver` within an event needs three of them.

`GpuTracerProofs` is for any waves, registers, values, length and cap, with no assumption but
those of the module: `TypeCorrect`; `LockIsReleased` (`LockInv`: between the lock and its
release the scheduler is locked if and only if locking succeeded); `RegistersAreReconstructed`
(`CurrentInv`: `REG_CHANGE_RECORD` holds the values that the steps recorded so far give);
`TraceIsComplete` (`CompleteInv`: the waves listed are those traced, the current one and those
still to come, none traced twice, and under the lock those still to come stand at their first
instruction).

Every invariant and every safety action property of a passing run is thus stated by a theorem.
Only model-checked is everything temporal under fairness, which is beyond the prover:
`StopAllReturns`, `PausedIsResumed`, `NotifiersServed`, `EventsDelivered`, `TraceEnds`, and the
liveness half of `ImplementsWaveControl`.

## Findings

1. **`target_interrupts`.** `stop` of a thread that is being stopped, after its wave
   terminated, deletes the thread (`amd-dbgapi-target.c:1511`) although
   `WAVE_COMMAND_TERMINATED` is coming for the first stop; when it is handled, the
   assertion at line 1761 fails. `interrupt -a` stops every thread once per inferior of a
   target (`infcmd.c:2896-2900`), so it does this alone with two inferiors.
2. **`tracer_stepping`.** A wave whose breakpoint stop is pending executes nothing at its
   first `stepi`; its first instruction is recorded as two steps.
3. **`delivery_no_resumed`.** `wait` clears the shared handler and drains one inferior. A
   host event ends that fetch, and if the host threads then stay stopped the next fetch
   may begin with an inferior without the target and end on `NO_RESUMED`: the event of the
   first inferior has no wakeup left.
4. **`delivery_leave`.** `async (false)` unregisters every notifier; after the last
   inferior with the target leaves, `target_async (true)` no longer reaches the code that
   registers them, and the loading of another inferior's runtime goes unnoticed.
5. **`target_first_inferior`.** `stop_all_threads` works through the first inferior of the
   process target (`infrun.c:5751`, `5799`). If that one lacks the amd-dbgapi target, a wave of
   another inferior that has just started is never listed and still runs on return.
6. **`step_over_gone`.** A wave terminates while all-stop mode stops it. Its thread stays, the
   exit pending, and the next `continue` fails in `thread_architecture`.
7. **`step_over_insert`.** `start_step_over` takes a thread off the queue, and `insert_breakpoints`
   fails while it is resumed (`infrun.c:9260-9270`, 2279). "Command aborted." stops only the thread
   whose event was being handled: the other stays marked running, not resumed, not queued and
   needing its step-over. `infrun.c:2232-2234` expects it to be queued
   again "when we try to resume it normally", which nothing does, and `infrun.c:6743-6745` that it is in the queue.

Seen while modelling, without a run:
- A wave event and the last runtime's unloading drained by one `process_event_queue`: see
  `FailsOnlyAtUnload` above.
- After a failed `insert_breakpoints`: in non-stop mode the thread of `step_over_insert` makes the
  next end of an in-line step-over reach the internal error at `infrun.c:6748` (eleven states), and
  threads paused for a step-over that could not start stay marked running and are not restarted. A
  `continue` that fails after it has resumed a thread with a pending event leaves it stopped for
  the user yet resumed, and the next `continue` fails an assertion (`infrun.c:2255`, 9167).
- An access or read watchpoint set before the runtime loads gets a GPU half from
  `insert_initial_watchpoints` (`amd-dbgapi-target.c:1180-1194`), which `insert_watchpoint` would
  refuse; removing it fails the assertion at line 1245.
- Without the target on the first inferior, `wait_one` gets `NO_RESUMED` from it for ever once
  its host threads have stopped (`infrun.c:5348`), and `stop_all_threads` may go round without
  end.
- Step-overs in all-stop mode: a stop presented while another thread steps in line leaves
  `step_over_info` set (`infrun.c:4803`), and the next `continue` resumes nothing. A cancelled
  displaced step leaves no `stop_pc`, so continuing with that thread selected reports its
  breakpoint again (`infrun.c:3685`). A finished step that is pending is dropped by
  `clear_proceed_status_thread` while `stepping_over_breakpoint` stays set, and a breakpoint at
  the next instruction is stepped over unreported.
- Step-overs in non-stop mode: `handle_one` clears `stop_requested` (`infrun.c:5575`) of a thread
  the user has interrupted; after the in-line step-over it is resumed and the interrupt lost.
- `displaced_step_prepare` leaves its entry in `stepping_id_map` when reading the displaced pc
  fails (`amd-dbgapi-target.c:2723-2731`).
- Watchpoints on nested ranges set before the runtime loads: removing the inner one takes the
  outer one's entry (`amd-dbgapi-target.c:1236`, "Find the watch_id for the addr..addr+len range").
  Taking out a watchpoint that is only half inserted (`breakpoint.c:3553`) also takes a region that
  another watchpoint's location relies on as its duplicate. A watchpoint that is disabled when the runtime
  loads gets a GPU half all the same, and enabling it later fails because its address has an
  entry. After `UNLOADED` the entries of `watchpoint_map` stay.
- `amdgpu_tracer.py:9` says each step dumps "all readable registers"; only changed ones are
  recorded (no information is lost: `RegistersReconstruct`). `inf.threads()` at line 201
  raises outside the `try`, with the lock held. "set scheduler-lock off" does not restore
  the mode that was set before. An exception in the loop loses the trace of every wave.
  Line 17 uses `sys` without importing it, and line 295 assigns `sys.sterr`, so standard
  error stays redirected.
- The visualizer accepts `.log` and `.txt` while the tracer writes `.json`; two files chosen
  quickly are shown in the order their texts arrive.

## Plan

Done: all modules above, with theorems for every safety property. Left:

1. The code object file descriptor cache of `solib-rocm.c`.
2. Barriers in the tracer's kernel, under which a `stepi` does not return.
3. In-line step-overs that a stop in all-stop mode leaves behind, as a run of their own.
