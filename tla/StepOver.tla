------------------------------ MODULE StepOver ------------------------------
(***************************************************************************)
(* Stepping waves over breakpoints.                                        *)
(*                                                                         *)
(* A wave resumed at a breakpoint first steps over it: out of line, in a   *)
(* displaced stepping buffer of the amd-dbgapi library, or in line, with   *)
(* the breakpoint removed and every other thread paused.  Waves that must  *)
(* wait for a buffer or for an in-line step-over are queued.  infrun.c is  *)
(* one thread and handles a command or an event to the end, so each is one *)
(* step here; what the waves do meanwhile shows only when stop_all_threads *)
(* collects them.  OUT says what each of them does then (AmdDbgapiTarget is *)
(* the detail of that), and which calls of insert_breakpoints fail.        *)
(***************************************************************************)
EXTENDS Integers, Sequences, FiniteSets, SequencesExt

CONSTANTS
  N,           \* number of waves
  Buffers,     \* displaced stepping buffers of the library
  InsertFails  \* may insert_breakpoints raise an error?

ASSUME StepOverAssumption == {N, Buffers} \subseteq Nat \ {0} /\ InsertFails \in BOOLEAN

Waves == 1..N
None == 0
\* What a wave is stopped at: no breakpoint; a breakpoint; a breakpoint on an
\* instruction the library refuses to displace.
Places == {"none", "bp", "illegal"}
Breakpoints == {"bp", "illegal"}
\* What a wave may do before stop_all_threads has it stopped: stop where it is,
\* get to a place, or terminate.
Outcomes == {"stop", "exit"} \cup Places
\* The calls of insert_breakpoints, each for a thread.
Insertions == {"keep_going_pass_signal", "resume_1", "finish_step_over"} \X Waves
\* What is not GDB's to decide while it handles a command or an event.
Chances == [does : [Waves -> Outcomes],
            fails : IF InsertFails THEN SUBSET Insertions ELSE {{}}]

VARIABLES
  non_stop,       \* set non-stop; the target is always in non-stop mode
  use_displaced,  \* set displaced-stepping
  t               \* what the handlers work on:
                  \*   at:       where the wave is; "gone" once terminated
                  \*   event:    what the wave has to report
                  \*   buffers:  the waves that hold a buffer of the library
                  \*   state, resumed, executing, pending, stop_requested,
                  \*     trap_expected, over (stepping_over_breakpoint) and
                  \*     stop_pc (it has a value): of the thread_info
                  \*   displaced: threads with a displaced step in progress
                  \*   map:      the keys of stepping_id_map
                  \*   chain:    global_thread_step_over_list
                  \*   info:     the thread of step_over_info
                  \*   failed:   "gave up" once keep_going_pass_signal could not
                  \*             insert the breakpoints, "error" once an error
                  \*             is on its way out; "no" between handlers
                  \*   aborted:  an assertion failed
                  \*   error:    a command failed on a wave that is gone

vars == <<non_stop, use_displaced, t>>

Everywhere(v) == [w \in Waves |-> v]

\* The kernel was just launched: every wave runs.
Init ==
  /\ non_stop \in BOOLEAN
  /\ use_displaced \in BOOLEAN
  /\ t = [at |-> Everywhere("none"), event |-> Everywhere("none"), buffers |-> {},
          state |-> Everywhere("THREAD_RUNNING"), resumed |-> Everywhere(TRUE),
          executing |-> Everywhere(TRUE), pending |-> Everywhere("none"),
          stop_requested |-> Everywhere(FALSE),
          trap_expected |-> Everywhere(FALSE), over |-> Everywhere(FALSE),
          stop_pc |-> Everywhere(FALSE), displaced |-> {}, map |-> {},
          chain |-> <<>>, info |-> None, failed |-> "no", aborted |-> FALSE,
          error |-> FALSE]

-----------------------------------------------------------------------------
(* Helpers on the state.                                                   *)

gdb_assert(s, cond) == [s EXCEPT !.aborted = @ \/ ~cond]

InChain(s, w) == w \in ToSet(s.chain)
AtBreakpoint(s, w) == s.at[w] \in Breakpoints

Unchain(s, w) ==
  [s EXCEPT !.chain = IF InChain(s, w) THEN RemoveAt(@, CHOOSE k \in 1..Len(@) : @[k] = w)
                      ELSE @]

Enqueue(s, w) ==
  [gdb_assert(s, ~InChain(s, w)) EXCEPT !.chain = Append(@, w)]

\* A loop over the threads.
EachWave(op(_, _), s) ==
  LET after[w \in 0..N] == IF w = 0 THEN s ELSE op(after[w - 1], w)
  IN after[N]

\* set_running (false) for a thread, and for all of them.
Halted(state) == IF state = "THREAD_EXITED" THEN state ELSE "THREAD_STOPPED"
SetStopped(s, w) == [Unchain(s, w) EXCEPT !.state[w] = Halted(@)]
SetAllStopped(s) ==
  [s EXCEPT !.chain = <<>>, !.state = [w \in Waves |-> Halted(@[w])]]

\* finish_thread_state for the threads WS, after an error has ended a handler.
FinishThreadState(s, ws) ==
  LET still == {w \in ws : ~s.executing[w]}
  IN [s EXCEPT !.failed = "no", !.chain = SelectSeq(@, LAMBDA w : w \notin still),
               !.state = [w \in Waves |-> IF w \in still THEN Halted(@[w]) ELSE @[w]]]

\* error ("Command aborted."), once keep_going_pass_signal has given up.
CommandAborted(s) == IF s.failed = "no" THEN s ELSE [s EXCEPT !.failed = "error"]
Threw(s) == s.failed = "error"

\* What is asserted of a thread found resumed.
ResumedForAReason(s, w) == s.executing[w] \/ s.pending[w] # "none"

\* save_waitstatus.
SaveWaitstatus(s, w, ws) == [gdb_assert(s, s.pending[w] = "none") EXCEPT !.pending[w] = ws]

\* A deleted thread: nothing of it is looked at again.
Deleted(s, w) ==
  [Unchain(s, w) EXCEPT
     !.state[w] = "THREAD_EXITED", !.resumed[w] = FALSE, !.executing[w] = FALSE,
     !.pending[w] = "none", !.event[w] = "none", !.stop_requested[w] = FALSE,
     !.trap_expected[w] = FALSE, !.over[w] = FALSE, !.stop_pc[w] = FALSE]

\* thread_still_needs_step_over, and its update of stepping_over_breakpoint.
NeedsStepOver(s, w) == s.over[w] /\ AtBreakpoint(s, w)
Checked(s, w) == [s EXCEPT !.over[w] = NeedsStepOver(s, w)]

-----------------------------------------------------------------------------
(* The waves and the library.                                              *)

\* The wave executes one instruction only.
Stepping(s, w) == s.trap_expected[w]

\* A wave that runs gets somewhere and says so; with a breakpoint under it, it
\* gets nowhere.  The library gives up the buffer of a wave it deletes.
Reports(s, w, o) ==
  LET stuck == ~Stepping(s, w) /\ AtBreakpoint(s, w)
  IN IF o = "exit" /\ ~stuck
     THEN [s EXCEPT !.at[w] = "gone", !.event[w] = "exit", !.buffers = @ \ {w}]
     ELSE IF o \in Places /\ (Stepping(s, w) \/ o # "none")
     THEN [s EXCEPT !.at[w] = IF stuck THEN @ ELSE o,
                    !.event[w] = IF Stepping(s, w) THEN "step" ELSE "bp"]
     ELSE [s EXCEPT !.event[w] = "stop"]

-----------------------------------------------------------------------------
(* Displaced stepping.                                                     *)

\* Bug: the step of a wave that exited is left in stepping_id_map.
DisplacedStepFinishAlive(s, w, ws) ==
  IF w \notin s.displaced THEN s
  ELSE IF ws = "exit" THEN [s EXCEPT !.displaced = @ \ {w}]
  ELSE [s EXCEPT !.displaced = @ \ {w}, !.map = @ \ {w}, !.buffers = @ \ {w}]

\* displaced_step_finish of infrun and of the target.  The target gives the
\* buffer back, unless the wave is gone.
DisplacedStepFinish(s, w, ws) ==
  IF w \notin s.displaced THEN s
  ELSE [gdb_assert(s, w \in s.map) EXCEPT
          !.displaced = @ \ {w}, !.map = @ \ {w},
          !.buffers = IF ws = "exit" THEN @ ELSE @ \ {w}]

\* DISPLACED_STEP_FINISH_STATUS_NOT_EXECUTED: no SINGLE_STEP stop reason.
NotExecuted(s, w, ws) == w \in s.displaced /\ ws = "stop"

-----------------------------------------------------------------------------
(* stop_all_threads.                                                       *)

\* Bug: a cancelled displaced step is not queued again.
RequeueForgotten(s, w, ws) == DisplacedStepFinish(s, w, ws)

\* The displaced step of a thread that was stopped: cancelled or finished.
Requeue(s, w, ws) ==
  LET f == DisplacedStepFinish(s, w, ws)
  IN IF NotExecuted(s, w, ws)
     THEN Enqueue([f EXCEPT !.trap_expected[w] = FALSE], w)
     ELSE f

\* handle_one: the event WS of thread W is saved, unless it is the stop asked
\* for.  A saved stop records the pc.
HandleOne(s, w, ws) ==
  LET still == [s EXCEPT !.stop_requested[w] = FALSE, !.executing[w] = FALSE,
                         !.resumed[w] = FALSE, !.event[w] = "none"]
      saved == [SaveWaitstatus(still, w, ws) EXCEPT !.stop_pc[w] = @ \/ ws # "exit"]
  IN Requeue(IF ws = "stop" THEN still ELSE saved, w, ws)

\* stop_all_threads, by its contract: every thread that executes is stopped
\* and its event handled, and no thread is left resumed.
StopThread(s, w, out) ==
  IF ~s.executing[w] THEN [s EXCEPT !.resumed[w] = FALSE]
  ELSE LET r == IF s.event[w] = "none" THEN Reports(s, w, out.does[w]) ELSE s
       IN HandleOne(r, w, r.event[w])

StopAllThreads(s, out) == EachWave(LAMBDA a, w : StopThread(a, w, out), s)

-----------------------------------------------------------------------------
(* Resuming one thread.                                                    *)

\* do_target_resume.
Go(s, w) ==
  [s EXCEPT !.resumed[w] = TRUE, !.executing[w] = TRUE, !.stop_pc[w] = FALSE]

\* Bug: the thread still expects the trap of the step it could not start.
UnavailableStillExpected(s, w) == Enqueue(s, w)

\* DISPLACED_STEP_PREPARE_STATUS_UNAVAILABLE.
Unavailable(s, w) == [Enqueue(s, w) EXCEPT !.trap_expected[w] = FALSE]

\* DISPLACED_STEP_PREPARE_STATUS_CANT: fall back on an in-line step-over.
\* The error of insert_breakpoints leaves step_over_info and trap_expected set.
Cant(s, w, out) ==
  LET a == [StopAllThreads(s, out) EXCEPT !.info = w]
  IN IF <<"resume_1", w>> \in out.fails THEN [a EXCEPT !.failed = "error"] ELSE Go(a, w)

\* Bug: one step more than there are buffers is started.
NoBufferLeftInclusive(s) == Cardinality(s.buffers) > Buffers

\* AMD_DBGAPI_STATUS_ERROR_DISPLACED_STEPPING_BUFFER_NOT_AVAILABLE.
NoBufferLeft(s) == Cardinality(s.buffers) = Buffers

\* displaced_step_prepare of infrun and of the target.
DisplacedStepPrepare(s, w, out) ==
  IF s.at[w] = "illegal" THEN Cant(s, w, out)
  ELSE IF NoBufferLeft(s) THEN Unavailable(s, w)
  ELSE Go([gdb_assert(s, w \notin s.displaced \cup s.map) EXCEPT
             !.displaced = @ \cup {w}, !.map = @ \cup {w}, !.buffers = @ \cup {w}], w)

\* resume_1.
Resume(s, w, out) ==
  LET a == gdb_assert(s, ~s.stop_requested[w] /\ ~InChain(s, w))
  IN IF a.pending[w] # "none" THEN [a EXCEPT !.resumed[w] = TRUE]
     ELSE IF a.trap_expected[w] /\ use_displaced /\ a.info = None
     THEN DisplacedStepPrepare(a, w, out)
     ELSE Go(a, w)

\* Bug: the other threads are not stopped first.
StartInLineAlone(s, w, out) == [s EXCEPT !.info = w]

\* set_step_over_info, then stop_all_threads.
StartInLine(s, w, out) == StopAllThreads([s EXCEPT !.info = w], out)

\* keep_going_pass_signal.  If the breakpoints cannot be inserted it gives up
\* without resuming W: whatever was stopped for W's step-over stays stopped.
KeepGoingPassSignal(s, w, out) ==
  LET needs == NeedsStepOver(s, w)
      inline == needs /\ ~use_displaced
      a == gdb_assert(s, ~s.resumed[w])
      b == IF inline THEN StartInLine(a, w, out) ELSE Checked(a, w)
  IN IF s.trap_expected[w] THEN Resume(a, w, out)
     ELSE IF s.info # None
     THEN IF needs THEN Enqueue(a, w) ELSE Checked(a, w)
     ELSE IF <<"keep_going_pass_signal", w>> \in out.fails
     THEN [b EXCEPT !.info = None, !.failed = "gave up"]
     ELSE Resume([b EXCEPT !.trap_expected[w] = needs], w, out)

-----------------------------------------------------------------------------
(* The queue and the restart of paused threads.                            *)

\* One thread of the queue start_step_over took.  The rest of it goes back once
\* an in-line step-over has started, or an error has ended the loop; the thread
\* that could not be resumed does not.
StepOne(s, w, out) ==
  LET waits == NeedsStepOver(s, w) /\ ~use_displaced /\ s.displaced # {}
      idle == ~s.stop_requested[w] /\ ~s.trap_expected[w] /\ ~s.resumed[w] /\ ~s.executing[w]
      r == KeepGoingPassSignal(s, w, out)
  IN IF s.info # None \/ Threw(s) THEN Enqueue(s, w)
     ELSE IF waits THEN Enqueue(gdb_assert(s, ~s.stop_requested[w]), w)
     ELSE IF r.failed # "no" THEN CommandAborted(gdb_assert(r, idle))
     ELSE gdb_assert(r, /\ idle
                        /\ r.resumed[w] # InChain(r, w)
                        /\ r.info # None => r.trap_expected[w])

\* start_step_over.
StartStepOver(s, out) ==
  LET after[i \in 0..Len(s.chain)] ==
        IF i = 0 THEN [s EXCEPT !.chain = <<>>] ELSE StepOne(after[i - 1], s.chain[i], out)
  IN IF s.info # None THEN s ELSE after[Len(s.chain)]

\* restart_threads: what an in-line step-over paused runs again.  It does not
\* look whether keep_going_pass_signal gave up.
RestartThread(s, ev, w, out) ==
  LET a == gdb_assert(s, ~s.stop_requested[w] /\ ~NeedsStepOver(s, w))
      r == KeepGoingPassSignal(a, w, out)
  IN IF Threw(s) \/ w = ev \/ s.state[w] # "THREAD_RUNNING" THEN s
     ELSE IF s.resumed[w] THEN gdb_assert(s, ResumedForAReason(s, w))
     ELSE IF InChain(s, w) THEN s
     ELSE IF s.pending[w] # "none" THEN [s EXCEPT !.resumed[w] = TRUE]
     ELSE IF r.failed = "gave up" THEN [r EXCEPT !.failed = "no"]
     ELSE r

RestartThreads(s, ev, out) == EachWave(LAMBDA a, w : RestartThread(a, ev, w, out), s)

\* Bug: step_over_info is looked at only after it has been cleared.
RestartUnnoticed(had, s) == FALSE

\* Restart after an in-line step-over, unless another one has started.
MayRestart(had, s) == had /\ s.info = None

\* finish_step_over up to the restart, before which it inserts the breakpoints.
StepOverFinished(s, w, ws, out) ==
  LET had == s.info # None
      f == [gdb_assert(DisplacedStepFinish(s, w, ws), had => s.trap_expected[w])
              EXCEPT !.info = None]
      n == StartStepOver(f, out)
      restarts == ~Threw(n) /\ MayRestart(had, n)
  IN [restarted |-> restarts,
      s |-> IF ~restarts THEN n
            ELSE IF <<"finish_step_over", w>> \in out.fails THEN [n EXCEPT !.failed = "error"]
            ELSE RestartThreads(gdb_assert(n, n.info = None), w, out)]

\* Its end: after a restart the event of another thread goes first, and the
\* event at hand is put back.
PutBack(f, ws) ==
  /\ f.restarted /\ ws # "exit"
  /\ \E x \in Waves : f.s.resumed[x] /\ f.s.pending[x] # "none"

EventPutBack(s, w, ws) ==
  LET a == gdb_assert(s, ~(s.resumed[w] /\ s.pending[w] # "none") /\ ~s.executing[w])
  IN [SaveWaitstatus(a, w, ws) EXCEPT
        !.resumed[w] = TRUE, !.stop_pc[w] = TRUE, !.over[w] = FALSE]

-----------------------------------------------------------------------------
(* Events.                                                                 *)

\* stop_waiting and normal_stop: in all-stop every thread stops.
PresentStop(s, w, out) ==
  IF non_stop THEN SetStopped(s, w) ELSE SetAllStopped(StopAllThreads(s, out))

\* keep_going after a trap.  If it gives up, the thread stops for the user.
KeepGoing(s, w, out) ==
  LET r == KeepGoingPassSignal([s EXCEPT !.trap_expected[w] = FALSE], w, out)
  IN IF r.failed = "gave up" THEN PresentStop([r EXCEPT !.failed = "no"], w, out)
     ELSE IF Threw(r) THEN FinishThreadState(r, {w})
     ELSE r

\* handle_signal_stop for a thread whose event was not put back.  A stop the
\* user asked for is presented; else the thread stops or goes on, as its
\* breakpoint conditions and the command it executes say.
HandleSignalStop(s, w, ws, out) ==
  LET asked == s.stop_requested[w] \/ ws = "stop"
  IN \E a \in {[s EXCEPT !.stop_pc[w] = TRUE, !.over[w] = ~asked /\ AtBreakpoint(s, w)]} :
       \/ t' = PresentStop(a, w, out)
       \/ ~asked /\ t' = KeepGoing(a, w, out)

\* The end of handle_thread_exited.  The exit is presented as a stop if it ends
\* the command that the thread executed.
ThreadExited(s, w, out) ==
  \/ t' = Deleted(s, w)
  \/ t' = Deleted(PresentStop(s, w, out), w)

\* handle_inferior_event for the event WS of thread W.  An error leaves
\* fetch_inferior_event, which then stops W for the user.
HandleInferiorEvent(w, ws, out) ==
  LET exits == ws = "exit"
      a == [t EXCEPT !.executing[w] = FALSE, !.resumed[w] = FALSE,
                     !.event[w] = "none", !.pending[w] = "none",
                     !.state[w] = IF exits THEN "THREAD_EXITED" ELSE @,
                     !.over[w] = @ /\ ~exits]
  IN \E f \in {StepOverFinished(v, w, ws, out) : v \in {a}} :
       IF Threw(f.s) THEN t' = FinishThreadState(f.s, {w})
       ELSE IF exits THEN ThreadExited(f.s, w, out)
       ELSE IF PutBack(f, ws) THEN t' = EventPutBack(f.s, w, ws)
       ELSE HandleSignalStop(f.s, w, ws, out)

SomePending == \E w \in Waves : t.resumed[w] /\ t.pending[w] # "none"

\* do_target_wait: a pending status of a resumed thread goes first.
HandlePending(w) ==
  /\ t.resumed[w] /\ t.pending[w] # "none"
  /\ \E out \in Chances : HandleInferiorEvent(w, t.pending[w], out)
  /\ UNCHANGED <<non_stop, use_displaced>>

HandleEvent(w) ==
  /\ ~SomePending
  /\ t.executing[w] /\ t.event[w] # "none"
  /\ \E out \in Chances : HandleInferiorEvent(w, t.event[w], out)
  /\ UNCHANGED <<non_stop, use_displaced>>

\* A thread of the host has an event: it runs when no step-over is in line.
HostEvent ==
  /\ ~SomePending
  /\ t.info = None
  /\ \E w \in Waves : t.state[w] = "THREAD_RUNNING"
  /\ \E out \in Chances :
       \E s \in {StartStepOver(t, out)} :
         \/ t' = [s EXCEPT !.failed = "no"]
         \/ ~Threw(s) /\ ~non_stop /\ t' = SetAllStopped(StopAllThreads(s, out))
  /\ UNCHANGED <<non_stop, use_displaced>>

-----------------------------------------------------------------------------
(* What the waves do on their own.                                         *)

\* A stepping wave reports once it has stepped; one that runs free reports a
\* breakpoint, or the stop it was asked for.
WaveReports(w, o) ==
  /\ t.executing[w] /\ t.event[w] = "none"
  /\ o = "none" => Stepping(t, w)
  /\ o = "stop" => t.stop_requested[w]
  /\ o = "exit" => Stepping(t, w) \/ (t.stop_requested[w] /\ t.at[w] = "none")
  /\ t' = Reports(t, w, o)
  /\ UNCHANGED <<non_stop, use_displaced>>

\* It owes the report.
WaveAnswers(w) ==
  /\ Stepping(t, w) \/ t.stop_requested[w]
  /\ \E o \in Outcomes : WaveReports(w, o)

\* A wave that runs free ends: the target finds it missing and deletes it.
WaveEnds(w) ==
  /\ t.executing[w] /\ t.event[w] = "none" /\ t.at[w] = "none"
  /\ ~Stepping(t, w) /\ ~t.stop_requested[w]
  /\ t' = [Deleted(t, w) EXCEPT !.at[w] = "gone"]
  /\ UNCHANGED <<non_stop, use_displaced>>

-----------------------------------------------------------------------------
(* Commands.                                                               *)

\* Bug: the stop the user asked for before is still asked for.
ClearProceedStatusStillAsked(s, ws) ==
  [s EXCEPT
     !.trap_expected = [w \in Waves |-> @[w] /\ w \notin ws],
     !.pending = [w \in Waves |-> IF w \in ws /\ @[w] = "step" THEN "none" ELSE @[w]]]

\* clear_proceed_status_thread: a finished step that is pending is dropped.
ClearProceedStatus(s, ws) ==
  [s EXCEPT
     !.trap_expected = [w \in Waves |-> @[w] /\ w \notin ws],
     !.stop_requested = [w \in Waves |-> @[w] /\ w \notin ws],
     !.pending = [w \in Waves |-> IF w \in ws /\ @[w] = "step" THEN "none" ELSE @[w]]]

\* Bug: the current thread is never stepped over its breakpoint.
CurrentNotOver(s, cur) == [s EXCEPT !.over[cur] = FALSE]

\* The current thread steps over the breakpoint it stopped at.
CurrentOver(s, cur) == [s EXCEPT !.over[cur] = s.stop_pc[cur] /\ AtBreakpoint(s, cur)]

\* proceed queues every thread to resume that reported a breakpoint, CUR last.
QueueThread(s, ws, w) ==
  IF w \notin ws THEN s ELSE IF NeedsStepOver(s, w) THEN Enqueue(s, w) ELSE Checked(s, w)

QueueOthers(s, ws) == EachWave(LAMBDA a, w : QueueThread(a, ws, w), s)

QueueStepOvers(s, cur, ws) ==
  LET others == QueueOthers(s, ws \ {cur})
  IN IF s.over[cur] THEN Enqueue(others, cur) ELSE others

\* proceed_resume_thread_checked.
ResumeChecked(s, ws, w, out) ==
  IF Threw(s) \/ w \notin ws THEN s
  ELSE IF s.resumed[w] THEN gdb_assert(s, ResumedForAReason(s, w))
  ELSE IF InChain(s, w) THEN s
  ELSE CommandAborted(KeepGoingPassSignal(s, w, out))

ResumeAll(s, ws, out) == EachWave(LAMBDA a, w : ResumeChecked(a, ws, w, out), s)

\* Threads of waves that are gone, their exit still pending.  Their registers,
\* even their architecture, can no longer be asked for.
Gone(s, ws) == {w \in ws : s.at[w] = "gone"}

\* clear_proceed_status and proceed with thread CUR selected; in all-stop for
\* all threads.  A command that needs the registers of a wave that is gone
\* fails, unless the architecture of that wave is the one cached.  After an error
\* the threads that do not execute stop for the user.
Proceed(cur) ==
  /\ ~t.error
  /\ t.state[cur] = "THREAD_STOPPED" /\ t.at[cur] # "gone"
  /\ ~non_stop => \A w \in Waves : t.state[w] # "THREAD_RUNNING"
  /\ LET ws == IF non_stop THEN {cur}
               ELSE {w \in Waves : t.state[w] # "THREAD_EXITED"}
         gone == Gone(t, ws)
         a == [gdb_assert(CurrentOver(ClearProceedStatus(t, ws), cur), ~InChain(t, cur))
                 EXCEPT !.state = [w \in Waves |->
                                     IF w \in ws THEN "THREAD_RUNNING" ELSE @[w]]]
     IN \E q \in {QueueStepOvers(v, cur, ws) : v \in {a}},
           out \in Chances, cached \in gone \cup {None} :
          \E n \in {StartStepOver(q, out)} :
            \E r \in {IF n.info # None THEN n ELSE ResumeAll(n, ws, out)} :
              t' = IF \/ \E w \in gone : t.over[w]
                      \/ ~Threw(n) /\ n.info = None /\ gone \ {cached} # {}
                   THEN [t EXCEPT !.error = TRUE]
                   ELSE IF Threw(r) THEN FinishThreadState(r, ws) ELSE r
  /\ UNCHANGED <<non_stop, use_displaced>>

\* interrupt_target_1 in non-stop: target_stop, set_stop_requested and its
\* observer infrun_thread_stop_requested.
Interrupt(w) ==
  /\ non_stop
  /\ t.state[w] = "THREAD_RUNNING" /\ ~t.stop_requested[w]
  /\ LET a == [t EXCEPT !.stop_requested[w] = TRUE]
     IN t' = IF t.executing[w] THEN a
             ELSE [Unchain(a, w) EXCEPT
                     !.pending[w] = IF @ = "none" THEN "stop" ELSE @,
                     !.resumed[w] = @ \/ t.info = None]
  /\ UNCHANGED <<non_stop, use_displaced>>

\* set displaced-stepping.
SetDisplacedStepping ==
  /\ use_displaced' = ~use_displaced
  /\ UNCHANGED <<non_stop, t>>

-----------------------------------------------------------------------------
Next ==
  \/ \E w \in Waves : \/ HandlePending(w) \/ HandleEvent(w)
                      \/ \E o \in Outcomes : WaveReports(w, o)
                      \/ WaveEnds(w) \/ Proceed(w) \/ Interrupt(w)
  \/ HostEvent
  \/ SetDisplacedStepping

Spec == Init /\ [][Next]_vars

\* The event loop serves every event in the end: it picks among the pending
\* ones at random.  A wave that steps or was asked to stop reports; it does not
\* step from breakpoint to breakpoint for ever.
FairSpec ==
  /\ Spec
  /\ \A w \in Waves : /\ SF_vars(HandlePending(w)) /\ SF_vars(HandleEvent(w))
                      /\ WF_vars(WaveAnswers(w))
                      /\ SF_vars(WaveReports(w, "none"))

-----------------------------------------------------------------------------
(* Properties.                                                             *)

Events == {"none", "step", "bp", "stop", "exit"}

\* Every variable has its type; no more buffers are in use than there are.
TypeOK ==
  /\ non_stop \in BOOLEAN /\ use_displaced \in BOOLEAN
  /\ t.at \in [Waves -> Places \cup {"gone"}]
  /\ t.event \in [Waves -> Events] /\ t.pending \in [Waves -> Events]
  /\ t.state \in [Waves -> {"THREAD_RUNNING", "THREAD_STOPPED", "THREAD_EXITED"}]
  /\ \A f \in {t.resumed, t.executing, t.stop_requested, t.trap_expected, t.over,
                t.stop_pc} : f \in [Waves -> BOOLEAN]
  /\ t.displaced \subseteq Waves /\ t.map \subseteq Waves /\ t.buffers \subseteq Waves
  /\ Cardinality(t.buffers) <= Buffers
  /\ t.chain \in Seq(Waves) /\ t.info \in Waves \cup {None} /\ t.failed = "no"

\* A displaced step is known to infrun, to stepping_id_map and to the library
\* alike, for as long as its wave executes it and no longer: only the library
\* drops it earlier, when the wave terminates.
DisplacedOwned ==
  /\ t.map = t.displaced
  /\ t.buffers \subseteq t.displaced
  /\ \A w \in t.displaced : /\ t.executing[w] /\ t.trap_expected[w]
                            /\ w \notin t.buffers => t.event[w] = "exit"

\* A queued thread is one the user sees running, that does not run, that nobody
\* asked to stop, and that is queued once: what start_step_over relies on.
QueueQuiet ==
  /\ IsInjective(t.chain)
  /\ \A w \in ToSet(t.chain) :
       /\ t.state[w] = "THREAD_RUNNING"
       /\ ~t.resumed[w] /\ ~t.executing[w] /\ ~t.stop_requested[w]
       /\ ~t.trap_expected[w]

\* While a breakpoint is removed to step over it in line, no wave but the one
\* that steps can run past it.
InLineAlone == t.info # None => \A w \in Waves \ {t.info} : ~t.executing[w]

\* "If some thread needs to start a step-over at this point, it should still be
\* in the step-over queue": a thread that runs for the user, is not resumed, has
\* nothing to report and needs a step-over is queued for it.
NeedyAreQueued ==
  \A w \in Waves :
    (/\ t.state[w] = "THREAD_RUNNING" /\ ~t.resumed[w]
     /\ t.pending[w] = "none" /\ NeedsStepOver(t, w)) => InChain(t, w)

\* While insert_breakpoints succeeds, infrun never trips over its own records:
\* what start_step_over asserts of a thread it takes off the queue and of one it
\* has resumed, finish_step_over of the thread that stepped and of an event it
\* puts back, restart_threads of every thread it finds ("thread needs a
\* step-over, but not in step-over queue"), resume_1 and keep_going_pass_signal
\* of the thread they resume, proceed of a thread found resumed,
\* set_pending_waitstatus, the queue, and the target of stepping_id_map.
NoAssertionFails == ~t.aborted

\* In non-stop, no wave is resumed to run free with a breakpoint under it that
\* it has already reported: it would report a second hit.
NoSecondHit ==
  non_stop => \A w \in Waves :
    t.executing[w] /\ ~t.trap_expected[w] /\ t.event[w] = "none" => t.at[w] = "none"

\* In non-stop, and while insert_breakpoints succeeds, a thread that was paused
\* or queued for a step-over is resumed in the end, or stops or exits: nobody is
\* forgotten.  After a failed insertion nothing restarts the threads that were
\* paused (NeedyAreQueued is where that starts).
PausedIsResumed ==
  \A w \in Waves :
    non_stop /\ t.state[w] = "THREAD_RUNNING" /\ ~t.resumed[w]
      ~> t.resumed[w] \/ t.state[w] # "THREAD_RUNNING"

\* "GDB treats resuming a thread that no longer exists as being successful."
ResumingGoneSucceeds == ~t.error
=============================================================================
