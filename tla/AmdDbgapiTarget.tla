------------------------- MODULE AmdDbgapiTarget -------------------------
(***************************************************************************)
(* How GDB stops, resumes and forgets the waves of one GPU inferior.       *)
(*                                                                         *)
(* Three actors share the state:                                           *)
(*   - the amd-dbgapi library and the GPU behind it (external to the       *)
(*     repository): waves start, halt, terminate, and raise events;        *)
(*   - amd_dbgapi_target (gdb/amd-dbgapi-target.c): one thread_info and    *)
(*     one wave_info per known wave, and the wave_events queue;            *)
(*   - infrun (gdb/infrun.c): resumes and interrupts threads, handles      *)
(*     events at the event loop, and runs stop_all_threads.                *)
(*                                                                         *)
(* GDB is one thread, so its actions are atomic with respect to each       *)
(* other, but every call into the library is a step of its own: waves may  *)
(* change between any two of them.                                         *)
(***************************************************************************)
EXTENDS Integers, Sequences, FiniteSets

CONSTANTS
  Waves,            \* wave ids the GPU may create; an id is never reused
  RepeatInterrupt,  \* may the user interrupt a thread already being stopped?
  TargetAtFirst     \* has the first inferior of the process target, which may
                    \* be another one, the amd-dbgapi target pushed?

ASSUME WavesAssumption == IsFiniteSet(Waves)
ASSUME SessionAssumption == {RepeatInterrupt, TargetAtFirst} \subseteq BOOLEAN

VARIABLES
  \* amd-dbgapi library, external
  wave,             \* state of each wave
  stop_reason,      \* why a stopped wave stopped
  command,          \* step / stop commands accepted and not yet completed
  raised,           \* the event the library holds for the wave
  changed,          \* wave list changed since amd_dbgapi_process_wave_list
  creation,         \* wave creation mode
  \* amd_dbgapi_target
  thread,           \* thread_info::state, "none" when there is no thread_info
  last_resume_mode, \* wave_info::last_resume_mode
  stopping,         \* wave_info::stopping
  wave_events,      \* amd_dbgapi_inferior_info::wave_events
  draining,         \* inside process_event_queue
  m_report_thread_events,
  \* infrun
  executing, stop_requested, pending_waitstatus,
  pc, todo, waits_needed, pass  \* where stop_all_threads is, its locals

lib  == <<wave, stop_reason, command, raised, changed, creation>>
tgt  == <<thread, last_resume_mode, stopping, wave_events, draining,
          m_report_thread_events>>
inf  == <<executing, stop_requested, pending_waitstatus>>
loop == <<pc, todo, waits_needed, pass>>
vars == <<lib, tgt, inf, loop>>

\* target_waitstatus of a GPU event, reduced to what infrun distinguishes
Stops   == {"GDB_SIGNAL_0", "GDB_SIGNAL_TRAP"}
Statuses == Stops \cup {"THREAD_EXITED"}
Event(w, ws) == [ptid |-> w, ws |-> ws]

\* all_non_exited_threads
Listed(w) == thread[w] \in {"THREAD_RUNNING", "THREAD_STOPPED"}

Init ==
  /\ wave = [w \in Waves |-> "unborn"]
  /\ stop_reason = [w \in Waves |-> "none"]
  /\ command = [w \in Waves |-> {}]
  /\ raised = [w \in Waves |-> "none"]
  /\ changed = FALSE
  /\ creation = "normal"
  /\ thread = [w \in Waves |-> "none"]
  /\ last_resume_mode = [w \in Waves |-> "normal"]
  /\ stopping = {}
  /\ wave_events = <<>>
  /\ draining = FALSE
  /\ m_report_thread_events = FALSE
  /\ executing = {}
  /\ stop_requested = {}
  /\ pending_waitstatus = [w \in Waves |-> "none"]
  /\ pc = "idle"
  /\ todo = {}
  /\ waits_needed = 0
  /\ pass = 0

-----------------------------------------------------------------------------
(* The library and the GPU (external).                                     *)

\* The dispatcher starts a wave, unless wave creation is stopped.
WaveStart(w) ==
  /\ wave[w] = "unborn"
  /\ creation = "normal"
  /\ wave' = [wave EXCEPT ![w] = "run"]
  /\ changed' = TRUE
  /\ UNCHANGED <<stop_reason, command, raised, creation, tgt, inf, loop>>

\* A running wave halts; whatever commands it had are complete.
Halt(w, reason) ==
  /\ wave[w] = "run"
  /\ wave' = [wave EXCEPT ![w] = "stop"]
  /\ stop_reason' = [stop_reason EXCEPT ![w] = reason]
  /\ command' = [command EXCEPT ![w] = {}]
  /\ raised' = [raised EXCEPT ![w] = "WAVE_STOP"]
  /\ UNCHANGED <<changed, creation, tgt, inf, loop>>

\* The wave hits a breakpoint, faults or completes its single-step.
WaveTraps(w) == Halt(w, "trap")

\* The library completes amd_dbgapi_wave_stop.
StopCompletes(w) == "stop" \in command[w] /\ Halt(w, "none")

\* A wave that terminates with a command outstanding raises
\* WAVE_COMMAND_TERMINATED; otherwise it disappears without an event.
WaveTerminates(w) ==
  /\ wave[w] = "run"
  /\ wave' = [wave EXCEPT ![w] = "gone"]
  /\ raised' = [raised EXCEPT ![w] = IF command[w] # {}
                                     THEN "WAVE_COMMAND_TERMINATED"
                                     ELSE "none"]
  /\ command' = [command EXCEPT ![w] = {}]
  /\ changed' = TRUE
  /\ UNCHANGED <<stop_reason, creation, tgt, inf, loop>>

LibraryStep == \E w \in Waves :
  \/ WaveStart(w)
  \/ WaveTraps(w)
  \/ StopCompletes(w)
  \/ WaveTerminates(w)

-----------------------------------------------------------------------------
(* amd_dbgapi_target: threads and stopping.                                *)

\* GDB is at its event loop, running no handler.
AtEventLoop == pc = "idle" /\ ~draining

\* Bug: the flag of the previous stop survives the resume.
StoppingNotCleared(w) == UNCHANGED stopping

\* The wave runs again: no stop of it is in progress.
ClearStopping(w) == stopping' = stopping \ {w}

\* Bug: the status pending in the thread is not looked at.
ResumableIgnoringPending(w) == Listed(w) /\ w \notin executing

\* resume_1 does not touch the target when a wait status is pending.
Resumable(w) == Listed(w) /\ w \notin executing /\ pending_waitstatus[w] = "none"

\* amd_dbgapi_target::resume of one GPU thread, with infrun's bookkeeping.
\* proceed allows new threads, or prevents them under scheduler-locking or an
\* in-line step over; keep_going leaves the mode alone.
Resume(w, mode) ==
  /\ AtEventLoop
  /\ Resumable(w)
  /\ last_resume_mode' = [last_resume_mode EXCEPT ![w] = mode]
  /\ IF wave[w] = "stop"
     THEN /\ wave' = [wave EXCEPT ![w] = "run"]
          /\ stop_reason' = [stop_reason EXCEPT ![w] = "none"]
          /\ command' = [command EXCEPT ![w] = IF mode = "step" THEN {"step"} ELSE {}]
     ELSE UNCHANGED <<wave, stop_reason, command>>
  /\ ClearStopping(w)
  /\ thread' = [thread EXCEPT ![w] = "THREAD_RUNNING"]
  /\ executing' = executing \cup {w}
  /\ stop_requested' = stop_requested \ {w}
  /\ creation' \in {"normal", "stop"}
  /\ UNCHANGED <<raised, changed, wave_events, draining,
                 m_report_thread_events, pending_waitstatus, loop>>

\* Bug: the exit of a stepping wave is reported without waiting for its event.
StopVanishedIgnoringStep(w, left) ==
  /\ stopping' = stopping \cup {w}
  /\ UNCHANGED command
  /\ wave_events' = IF m_report_thread_events
                    THEN Append(wave_events, Event(w, "THREAD_EXITED"))
                    ELSE wave_events
  /\ thread' = IF m_report_thread_events \/ last_resume_mode[w] = "step"
               THEN thread ELSE [thread EXCEPT ![w] = left]

\* The wave is gone (AMD_DBGAPI_STATUS_ERROR_INVALID_WAVE_ID).  "left" is what
\* delete_thread_silent leaves behind: nothing, or a THREAD_EXITED entry when
\* the thread is current or referenced.
StopVanishedWave(w, left) ==
  /\ stopping' = stopping \cup {w}
  /\ UNCHANGED command
  /\ \/ /\ last_resume_mode[w] = "step"
        /\ UNCHANGED <<wave_events, thread>>
     \/ /\ last_resume_mode[w] = "normal" /\ m_report_thread_events
        /\ wave_events' = Append(wave_events, Event(w, "THREAD_EXITED"))
        /\ UNCHANGED thread
     \/ /\ last_resume_mode[w] = "normal" /\ ~m_report_thread_events
        /\ thread' = [thread EXCEPT ![w] = left]
        /\ UNCHANGED wave_events

\* The stop_one_thread lambda of amd_dbgapi_target::stop.
StopOneThread(w, left) ==
  \/ /\ wave[w] = "stop"
     /\ UNCHANGED <<command, stopping, wave_events, thread>>
  \/ /\ wave[w] = "run"
     /\ command' = [command EXCEPT ![w] = @ \cup {"stop"}]
     /\ stopping' = stopping \cup {w}
     /\ UNCHANGED <<wave_events, thread>>
  \/ /\ wave[w] = "gone"
     /\ StopVanishedWave(w, left)

\* "interrupt" in non-stop mode: target_stop, then set_stop_requested, then
\* the thread_stop_requested observer, which gives a thread that infrun paused
\* behind the user's back a stop to report.
Interrupt(w) ==
  /\ AtEventLoop
  /\ Listed(w)
  /\ RepeatInterrupt \/ w \notin stop_requested
  /\ \E left \in {"none", "THREAD_EXITED"} : StopOneThread(w, left)
  /\ stop_requested' = IF thread'[w] = thread[w] THEN stop_requested \cup {w}
                       ELSE stop_requested \ {w}
  /\ pending_waitstatus' =
       [pending_waitstatus EXCEPT ![w] =
          IF thread'[w] # thread[w] THEN "none"
          ELSE IF thread[w] = "THREAD_RUNNING" /\ w \notin executing /\ @ = "none"
          THEN "GDB_SIGNAL_0" ELSE @]
  /\ UNCHANGED <<wave, stop_reason, raised, changed, creation,
                 last_resume_mode, draining, m_report_thread_events,
                 executing, loop>>

-----------------------------------------------------------------------------
(* amd_dbgapi_target: pulling events out of the library.                   *)

\* Bug: the thread is created without being marked executing.
AddedNotExecuting(new) == UNCHANGED executing

\* add_gpu_thread marks the new threads executing.
AddedExecuting(new) == executing' = executing \cup new

\* add_gpu_thread for the waves in "new": a fresh wave_info and a thread that
\* is running.  The states of the other threads are given by "others".
AddGpuThreads(new, others) ==
  /\ thread' = [w \in Waves |-> IF w \in new THEN "THREAD_RUNNING" ELSE others[w]]
  /\ last_resume_mode' =
       [w \in Waves |-> IF w \in new THEN "normal" ELSE last_resume_mode[w]]
  /\ stopping' = stopping \ new
  /\ stop_requested' = stop_requested \ new
  /\ AddedExecuting(new)

\* process_event_queue starts: from wait with no queued wave event, or from
\* the runtime breakpoint's check_status.  A pull that finds nothing is a
\* stuttering step and is left out.
BeginDrain ==
  /\ ~draining
  /\ \/ pc = "idle" /\ \E w \in Waves : raised[w] # "none"
     \/ /\ pc = "wait" /\ wave_events = <<>>
        /\ \E w \in Waves : raised[w] # "none" \/ "stop" \in command[w]
  /\ draining' = TRUE
  /\ UNCHANGED <<lib, thread, last_resume_mode, stopping, wave_events,
                 m_report_thread_events, inf, loop>>

\* Bug: the library's stop reason is passed on unconverted.
RawStopReason(w) ==
  IF raised[w] = "WAVE_COMMAND_TERMINATED" THEN "THREAD_EXITED" ELSE stop_reason[w]

\* The status process_one_event derives from the event and the stop reason.
WaitStatus(w) ==
  IF raised[w] = "WAVE_COMMAND_TERMINATED" THEN "THREAD_EXITED"
  ELSE IF stop_reason[w] = "trap" THEN "GDB_SIGNAL_TRAP" ELSE "GDB_SIGNAL_0"

\* process_one_event for a wave event: queue it, adding the thread if the
\* stop is the first thing heard of the wave.
ProcessOneEvent(w) ==
  /\ draining
  /\ raised[w] # "none"
  /\ raised' = [raised EXCEPT ![w] = "none"]
  /\ wave_events' = Append(wave_events, Event(w, WaitStatus(w)))
  /\ AddGpuThreads({w} \cap {v \in Waves : /\ thread[v] = "none"
                                          /\ raised[v] = "WAVE_STOP"}, thread)
  /\ UNCHANGED <<wave, stop_reason, command, changed, creation, draining,
                 m_report_thread_events, pending_waitstatus, loop>>

\* amd_dbgapi_process_next_pending_event reports no event.  wait_one sleeps on
\* the process target's descriptor only, so it relies on the library not
\* saying so while a stop it accepted is unanswered.
EndDrain ==
  /\ draining
  /\ \A w \in Waves : raised[w] = "none"
  /\ pc = "wait" => \A w \in Waves : "stop" \notin command[w]
  /\ draining' = FALSE
  /\ UNCHANGED <<lib, thread, last_resume_mode, stopping, wave_events,
                 m_report_thread_events, inf, loop>>

\* Bug: only stepping waves are waited for.
KeptIfStepping(w) == last_resume_mode[w] = "step"

\* Waves whose termination will still be reported: update_thread_list keeps
\* their threads.
Kept(w) == last_resume_mode[w] = "step" \/ w \in stopping

\* update_thread_list: that of amd_dbgapi_target if the current inferior has it
\* pushed, then that of the target beneath, which erases the exited threads
\* nobody refers to any more.
UpdateThreadList(pushed) ==
  LET news == pushed /\ changed
      vanished == {w \in Waves : news /\ Listed(w) /\ wave[w] = "gone" /\ ~Kept(w)}
      new == {w \in Waves : news /\ thread[w] = "none" /\ wave[w] \in {"run", "stop"}}
      exited == vanished \cup {w \in Waves : thread[w] = "THREAD_EXITED"}
  IN /\ \E referenced \in SUBSET exited :
          AddGpuThreads(new, [w \in Waves |->
            IF w \in referenced THEN "THREAD_EXITED"
            ELSE IF w \in exited THEN "none" ELSE thread[w]])
     /\ changed' = (changed /\ ~pushed)
     /\ UNCHANGED <<wave, stop_reason, command, raised, creation,
                    wave_events, draining, m_report_thread_events,
                    pending_waitstatus>>

\* "info threads" and other callers at the event loop, the inferior current.
RefreshThreads ==
  /\ AtEventLoop
  /\ UpdateThreadList(TRUE)
  /\ UNCHANGED loop

-----------------------------------------------------------------------------
(* infrun: handling one event at the event loop.                           *)

\* handle_inferior_event and, for an exit, handle_thread_exited, for thread w.
\* An exit of a wave without wave_info fails the assertion of
\* amd_dbgapi_thread_deleted: GDB does not get past it.
HandleStatus(w, ws) ==
  /\ executing' = executing \ {w}
  /\ IF ws = "THREAD_EXITED"
     THEN /\ thread[w] # "none"
          /\ \E left \in {"none", "THREAD_EXITED"} :
               thread' = [thread EXCEPT ![w] = left]
     ELSE thread' = [thread EXCEPT ![w] = "THREAD_STOPPED"]

\* amd_dbgapi_target::wait returns the front of wave_events to fetch_inferior_event.
HandleInferiorEvent ==
  /\ AtEventLoop
  /\ wave_events # <<>>
  /\ wave_events' = Tail(wave_events)
  /\ HandleStatus(Head(wave_events).ptid, Head(wave_events).ws)
  /\ UNCHANGED <<lib, last_resume_mode, stopping, draining,
                 m_report_thread_events, stop_requested, pending_waitstatus, loop>>

\* do_target_wait_1 takes the status stop_all_threads left pending in a thread
\* that infrun has marked resumed again.
HandlePendingEvent(w) ==
  /\ AtEventLoop
  /\ Listed(w) /\ w \notin executing /\ pending_waitstatus[w] # "none"
  /\ pending_waitstatus' = [pending_waitstatus EXCEPT ![w] = "none"]
  /\ HandleStatus(w, pending_waitstatus[w])
  /\ UNCHANGED <<lib, last_resume_mode, stopping, wave_events, draining,
                 m_report_thread_events, stop_requested, loop>>

-----------------------------------------------------------------------------
(* infrun: stop_all_threads.                                               *)

\* Bug: wave creation stays enabled.
CreationNotPrevented == UNCHANGED creation

\* prevent_new_threads (true), down to amd_dbgapi_target::prevent_new_threads.
PreventNewThreads == creation' = "stop"

\* Bug: thread exit events are never enabled.
ThreadEventsNotEnabled == UNCHANGED m_report_thread_events

\* target_thread_events (true) through the first inferior, down to
\* amd_dbgapi_target::thread_events if it is there.
EnableThreadEvents == m_report_thread_events' = TargetAtFirst

\* Entry of stop_all_threads.
BeginStopAll ==
  /\ AtEventLoop
  /\ EnableThreadEvents
  /\ PreventNewThreads
  /\ pc' = "update"
  /\ pass' = 0
  /\ UNCHANGED <<wave, stop_reason, command, raised, changed, thread,
                 last_resume_mode, stopping, wave_events, draining, inf,
                 todo, waits_needed>>

\* Top of the while loop: refresh the thread list through the first inferior,
\* start the request loop.
StopAllUpdate ==
  /\ pc = "update"
  /\ UpdateThreadList(TargetAtFirst)
  /\ pc' = "request"
  /\ todo' = {w \in Waves : thread'[w] \in {"THREAD_RUNNING", "THREAD_STOPPED"}}
  /\ waits_needed' = 0
  /\ UNCHANGED pass

\* Threads whose stop the wait loop has to see.
NeedsWait(w) == w \in executing

\* One turn of the loop over all_non_exited_threads.  The thread is current,
\* so a deletion leaves it THREAD_EXITED.
VisitThread(w) ==
  /\ pc = "request"
  /\ w \in todo
  /\ todo' = todo \ {w}
  /\ IF w \in executing /\ w \notin stop_requested
     THEN /\ StopOneThread(w, "THREAD_EXITED")
          /\ stop_requested' = stop_requested \cup {w}
     ELSE UNCHANGED <<command, stopping, wave_events, thread, stop_requested>>
  /\ waits_needed' = IF NeedsWait(w) THEN waits_needed + 1 ELSE waits_needed
  /\ UNCHANGED <<wave, stop_reason, raised, changed, creation,
                 last_resume_mode, draining, m_report_thread_events,
                 executing, pending_waitstatus, pc, pass>>

\* Bug: a quiet pass does not count.
PassNotCounted == pass

\* The for loop over passes: two in a row must find nothing to stop.
NextPass == pass + 1

\* wait_one polls the inferiors in their order.  One that has only the Linux
\* target answers NO_RESUMED once its host threads have stopped; handle_one
\* takes that for the end of the wait.
WaitOne == IF TargetAtFirst THEN {"wait"} ELSE {"wait", "update"}

\* All requests are out: wait for them, or finish the pass.
EndRequests ==
  /\ pc = "request"
  /\ todo = {}
  /\ \/ /\ waits_needed > 0
        /\ pc' \in WaitOne
        /\ pass' = IF pass > 0 THEN -1 ELSE pass
        /\ UNCHANGED m_report_thread_events
     \/ /\ waits_needed = 0 /\ pass < 1
        /\ pc' = "update"
        /\ pass' = NextPass
        /\ UNCHANGED m_report_thread_events
     \/ /\ waits_needed = 0 /\ pass = 1
        /\ pc' = "idle"
        /\ pass' = 0
        /\ m_report_thread_events' = FALSE
  /\ UNCHANGED <<lib, thread, last_resume_mode, stopping, wave_events,
                 draining, inf, todo, waits_needed>>

\* Bug: only an exit is recorded for later.
SavedIfExit(w, ws) == IF ws = "THREAD_EXITED" THEN ws ELSE pending_waitstatus[w]

\* What handle_one leaves pending: everything but the stop it asked for.
SavedWaitStatus(w, ws) == IF ws # "GDB_SIGNAL_0" THEN ws ELSE pending_waitstatus[w]

\* handle_one: the awaited event of a known thread.  An exit of an unknown
\* thread is dropped.
HandleOne ==
  /\ pc = "wait" /\ ~draining
  /\ wave_events # <<>>
  /\ wave_events' = Tail(wave_events)
  /\ LET w == Head(wave_events).ptid
         ws == Head(wave_events).ws
     IN IF thread[w] = "none" /\ ws = "THREAD_EXITED"
        THEN UNCHANGED inf
        ELSE /\ executing' = executing \ {w}
             /\ stop_requested' = stop_requested \ {w}
             /\ pending_waitstatus' =
                  [pending_waitstatus EXCEPT ![w] = SavedWaitStatus(w, ws)]
  /\ waits_needed' = waits_needed - 1
  /\ pc' \in IF waits_needed = 1 THEN {"update"} ELSE WaitOne
  /\ UNCHANGED <<lib, thread, last_resume_mode, stopping, draining,
                 m_report_thread_events, todo, pass>>

-----------------------------------------------------------------------------

EventLoopStep ==
  \/ \E w \in Waves : \/ Resume(w, "normal")
                      \/ Resume(w, "step")
                      \/ Interrupt(w)
                      \/ HandlePendingEvent(w)
  \/ RefreshThreads
  \/ HandleInferiorEvent

DrainStep == BeginDrain \/ (\E w \in Waves : ProcessOneEvent(w)) \/ EndDrain

StopAllStep ==
  \/ BeginStopAll
  \/ StopAllUpdate
  \/ \E w \in Waves : VisitThread(w)
  \/ EndRequests
  \/ HandleOne

Next == LibraryStep \/ EventLoopStep \/ DrainStep \/ StopAllStep

Spec == Init /\ [][Next]_vars

\* GDB's loops run to their end, the event loop serves each source in turn,
\* and the library answers the stops it accepts.  Nothing obliges the user or
\* the kernel, so resumes, interrupts, traps and terminations are not fair.
Fairness ==
  /\ WF_vars(BeginDrain) /\ WF_vars(EndDrain)
  /\ WF_vars(HandleInferiorEvent)
  /\ WF_vars(StopAllUpdate) /\ WF_vars(EndRequests) /\ WF_vars(HandleOne)
  /\ \A w \in Waves : /\ WF_vars(ProcessOneEvent(w))
                      /\ WF_vars(VisitThread(w))
                      /\ WF_vars(StopCompletes(w))

FairSpec == Spec /\ Fairness

-----------------------------------------------------------------------------
(* Properties.                                                             *)

\* The event is in wave_events.
Queued(w, ws) == \E i \in 1..Len(wave_events) : wave_events[i] = Event(w, ws)

\* An event about the wave is on its way to infrun.
InFlight(w) == raised[w] # "none" \/ \E ws \in Statuses : Queued(w, ws)

\* The exit of the wave is on its way to infrun.
ExitInFlight(w) ==
  raised[w] = "WAVE_COMMAND_TERMINATED" \/ Queued(w, "THREAD_EXITED")

TypeOK ==
  /\ wave \in [Waves -> {"unborn", "run", "stop", "gone"}]
  /\ stop_reason \in [Waves -> {"none", "trap"}]
  /\ command \in [Waves -> SUBSET {"step", "stop"}]
  /\ raised \in [Waves -> {"none", "WAVE_STOP", "WAVE_COMMAND_TERMINATED"}]
  /\ changed \in BOOLEAN
  /\ creation \in {"normal", "stop"}
  /\ thread \in [Waves -> {"none", "THREAD_RUNNING", "THREAD_STOPPED",
                           "THREAD_EXITED"}]
  /\ last_resume_mode \in [Waves -> {"normal", "step"}]
  /\ stopping \in SUBSET Waves
  /\ wave_events \in Seq([ptid : Waves, ws : Statuses])
  /\ draining \in BOOLEAN
  /\ m_report_thread_events \in BOOLEAN
  /\ executing \in SUBSET Waves
  /\ stop_requested \in SUBSET Waves
  /\ pending_waitstatus \in [Waves -> Statuses \cup {"none"}]
  /\ pc \in {"idle", "update", "request", "wait"}
  /\ todo \in SUBSET Waves
  /\ waits_needed \in Nat
  /\ pass \in {-1, 0, 1}

\* Every exit on its way to infrun is of a wave that still has a thread and a
\* wave_info: infrun never resurrects the thread of a dead wave, and the
\* assertion of amd_dbgapi_thread_deleted holds.
ExitHasThread == \A w \in Waves : ExitInFlight(w) => thread[w] # "none"

\* A wave has at most one event between the library and infrun, and a thread
\* infrun has seen stop has none: no stop or exit is reported twice.
ReportedOnce ==
  /\ \A i, j \in 1..Len(wave_events) :
       wave_events[i].ptid = wave_events[j].ptid => i = j
  /\ \A i \in 1..Len(wave_events) : raised[wave_events[i].ptid] = "none"
  /\ \A w \in Waves : Listed(w) /\ w \notin executing => ~InFlight(w)

\* A thread GDB holds as stopped is a wave that really is stopped, or whose
\* exit is kept pending: GDB never reads the state of a running wave.
StoppedMeansStopped == \A w \in Waves :
  Listed(w) /\ w \notin executing =>
    \/ wave[w] = "stop"
    \/ wave[w] = "gone" /\ pending_waitstatus[w] = "THREAD_EXITED"

\* A thread GDB thinks is executing is running, or the event that says
\* otherwise is coming, or the next update_thread_list will drop it.
ExecutingIsNotForgotten == \A w \in Waves :
  Listed(w) /\ w \in executing =>
    \/ wave[w] = "run"
    \/ InFlight(w)
    \/ wave[w] = "gone" /\ changed /\ ~Kept(w)

\* A trap is never lost: until the wave is resumed it is in flight, pending in
\* the thread, or has been handled.
TrapNotLost == \A w \in Waves :
  wave[w] = "stop" /\ stop_reason[w] = "trap" =>
    \/ InFlight(w)
    \/ pending_waitstatus[w] # "none"
    \/ thread[w] = "THREAD_STOPPED"

\* Threads that stop_all_threads is waiting for.
Awaited == {w \in Waves : Listed(w) /\ w \in executing /\ w \in stop_requested}

\* stop_all_threads never waits for more stops than there are threads that
\* still owe it one, and each of those is being stopped or has reported.
WaitsAreOwed ==
  /\ pc = "wait" => waits_needed <= Cardinality(Awaited)
  /\ \A w \in Awaited : "stop" \in command[w] \/ InFlight(w)

\* "Only returns after everything is halted": no wave runs when
\* stop_all_threads returns.
AllStoppedOnReturn ==
  [][pc # "idle" /\ pc' = "idle" => \A w \in Waves : wave[w] # "run"]_vars

\* stop_all_threads always returns.
StopAllReturns == pc # "idle" ~> pc = "idle"

\* The promise of WaveControl, read off the detailed state: a wave GDB has not
\* listed, or believes executing, is running; one whose thread is gone, or
\* holds its exit, has exited.
WaveStatus == [w \in Waves |->
  IF Listed(w) /\ w \in executing
  THEN IF w \in stop_requested THEN "asked" ELSE "running"
  ELSE IF Listed(w)
  THEN IF pending_waitstatus[w] = "THREAD_EXITED" THEN "exited" ELSE "stopped"
  ELSE IF wave[w] = "unborn" THEN "none"
  ELSE IF wave[w] = "gone" THEN "exited" ELSE "running"]

Promise == INSTANCE WaveControl WITH status <- WaveStatus

\* The target, the library and infrun together implement WaveControl, its
\* fairness included: stopped waves do not vanish, exits are final, only
\* stopped waves are resumed, and every request to stop is answered.
ImplementsWaveControl == Promise!Spec

=============================================================================
