--------------------------- MODULE EventDelivery ---------------------------
(***************************************************************************)
(* How the events of the amd-dbgapi library reach fetch_inferior_event,    *)
(* for inferiors 1..N sharing the native Linux target.                     *)
(*                                                                         *)
(* The library queues an event and writes to the inferior's notifier pipe. *)
(* The event loop watches the pipes; dbgapi_notifier_handler empties one   *)
(* and, when the amd-dbgapi target is pushed, marks the one async event    *)
(* handler all inferiors share.  A marked handler starts a fetch, which    *)
(* polls the inferiors in turn through amd_dbgapi_target::wait.  The Linux *)
(* target has a wakeup file of its own and starts fetches too.             *)
(*                                                                         *)
(* What the events do to threads is the subject of AmdDbgapiTarget: here   *)
(* an event only has to arrive.                                            *)
(***************************************************************************)
EXTENDS EventLoop

CONSTANTS
  N,                 \* inferiors, in the order of inferior_list
  MaxEvents,         \* bound on attaches and library events
  LeaveWhileStopped  \* may an inferior leave while the target is not async?

Inferiors == 1..N

ASSUME DeliveryAssumption ==
  /\ N \in Nat \ {0}
  /\ MaxEvents \in Nat
  /\ LeaveWhileStopped \in BOOLEAN

VARIABLES
  \* external: the library and the processes
  library,      \* events the library holds for each inferior
  notified,     \* inferiors whose notifier pipe is readable
  host,         \* a host thread has an event to report
  resumed,      \* a host thread is resumed
  left,         \* events and attaches still allowed by the bound
  \* amd_dbgapi_inferior_info
  attached,     \* inferiors with a process_id and a notifier
  runtime_state,
  wave_events,  \* length of the queue of each inferior
  \* what the event loop is asked to serve, beside poll_fds
  handler,      \* amd_dbgapi_async_event_handler
  async,        \* the Linux target is async
  file,         \* its wakeup file is readable
  polls         \* inferiors the current fetch has yet to poll

external == <<library, notified, host, resumed, left>>
info == <<attached, runtime_state, wave_events>>
eventloop == <<poll_fds, turns, handler, async, file, polls>>
vars == <<external, info, eventloop>>

RuntimeStates == {"UNLOADED", "LOADED_SUCCESS", "LOADED_ERROR_RESTRICTION"}

\* The descriptors: inferior i's notifier is i, the Linux target's wakeup file
\* comes first.
LinuxFile == 0
Watched == Inferiors \cap ToSet(poll_fds)

\* The target is pushed exactly while the runtime is loaded: the two change
\* together in dbgapi_notifier_handler, process_one_event and
\* detach_amd_dbgapi.
Pushed(state, i) == state[i] = "LOADED_SUCCESS"
AnyPushed(state) == \E i \in Inferiors : Pushed(state, i)

Init ==
  /\ library = [i \in Inferiors |-> <<>>]
  /\ notified = {}
  /\ host = FALSE /\ resumed = FALSE
  /\ left = MaxEvents
  /\ attached = {}
  /\ runtime_state = [i \in Inferiors |-> "UNLOADED"]
  /\ wave_events = [i \in Inferiors |-> 0]
  /\ InitLoop
  /\ handler = "null"
  /\ async = FALSE /\ file = FALSE
  /\ polls = <<>>

-----------------------------------------------------------------------------
(* The library and the processes (external).  Nothing runs while the target *)
(* is not async, and what runs while GDB sits in a query is left out.      *)

\* An assertion of async_event_handler_mark has failed: GDB sits in its
\* internal-error query.
InternalError == handler = "assertion failed"

\* What inferior i may raise next.  Waves run without the host; loading and
\* unloading the runtime is done by a host thread.  A process that loads it waits
\* for the debugger to have handled that; one that unloads it does not wait for
\* the events of its waves to have been read.
MayRaise(i) ==
  {e \in RuntimeStates \cup {"WAVE"} :
     /\ "UNLOADED" \notin ToSet(library[i])
     /\ CASE e = "WAVE" -> Pushed(runtime_state, i)
          [] e = "UNLOADED" -> resumed /\ runtime_state[i] # "UNLOADED"
          [] OTHER -> /\ resumed /\ runtime_state[i] = "UNLOADED"
                      /\ library[i] = <<>>}

LibraryRaises(i) ==
  /\ async /\ ~InternalError /\ i \in attached /\ left > 0
  /\ \E e \in MayRaise(i) : library' = [library EXCEPT ![i] = Append(@, e)]
  /\ notified' = notified \cup {i}
  /\ left' = left - 1
  /\ UNCHANGED <<host, resumed, info, eventloop>>

\* A host thread stops or exits: SIGCHLD marks the Linux target's file.
HostEvent ==
  /\ async /\ ~InternalError /\ resumed /\ ~host
  /\ host' = TRUE
  /\ file' = TRUE
  /\ UNCHANGED <<library, notified, resumed, left, info, poll_fds, turns, handler,
                 async, polls>>

\* Whether host threads are resumed after GDB has handled something: under
\* scheduler-locking, or after a stop in non-stop mode, only waves may be.
HostThreads == resumed' \in BOOLEAN

-----------------------------------------------------------------------------
(* Registering with the event loop.                                        *)

AtEventLoop == polls = <<>> /\ ~InternalError

\* amd_dbgapi_target::async (true), reached by target_async when the target is
\* pushed on some inferior: watch every notifier, create and mark the handler.
\* "fds" are the descriptors watched before it.
AsyncOn(state, all, fds) ==
  IF AnyPushed(state) /\ handler = "null"
  THEN poll_fds' = AddFileHandlers(fds, all) /\ handler' = "marked"
  ELSE poll_fds' = fds /\ UNCHANGED handler

\* target_async (false).  "h" is the handler's state before it.
AsyncOff(state, h, fds) ==
  /\ async' = FALSE /\ file' = FALSE
  /\ IF AnyPushed(state) /\ h # "null"
     THEN poll_fds' = <<>> /\ handler' = "null"
     ELSE poll_fds' = DeleteFileHandler(fds, LinuxFile) /\ handler' = h

\* An execution command resumes threads; linux_nat_target::async marks its
\* file when it is switched on.
UserResumes ==
  /\ AtEventLoop /\ attached # {} /\ ~async
  /\ async' = TRUE /\ file' = TRUE
  /\ AsyncOn(runtime_state, attached, AddFileHandlers(poll_fds, {LinuxFile}))
  /\ HostThreads
  /\ UNCHANGED <<library, notified, host, left, info, turns, polls>>

\* Bug: the notifier is left to a later target_async (true).
NotWatchedYet(i) == UNCHANGED poll_fds

\* add_file_handler of one notifier
Watch(i) == poll_fds' = AddFileHandlers(poll_fds, {i})

\* attach_amd_dbgapi of a process: its runtime is found in some state by the
\* call of dbgapi_notifier_handler, before the notifier is watched.
AttachAmdDbgapi(i) ==
  /\ left > 0 /\ left' = left - 1
  /\ attached' = attached \cup {i}
  /\ \E state \in RuntimeStates :
       runtime_state' = [runtime_state EXCEPT ![i] = state]
  /\ IF async /\ Pushed(runtime_state', i) /\ handler = "null"
     THEN AsyncOn(runtime_state', attached', poll_fds)
     ELSE Watch(i) /\ UNCHANGED handler
  /\ UNCHANGED <<library, notified, wave_events>>

\* A process is created, or attached to.
Attach(i) ==
  /\ AtEventLoop /\ i \notin attached
  /\ AttachAmdDbgapi(i)
  /\ UNCHANGED <<host, resumed, turns, async, file, polls>>

\* Bug: every unpush deletes the handler.
ClosedAtOnce(state, h) == "null"

\* amd_dbgapi_target::close, when no inferior has the target any more.
Closed(state, h) == IF AnyPushed(state) THEN h ELSE "null"

\* Bug: the file handler of the notifier is left behind.
StillWatched(i) == poll_fds

\* delete_file_handler of one notifier
Unwatched(i) == DeleteFileHandler(poll_fds, i)

\* detach_amd_dbgapi, up to its effect on poll_fds.
DetachAmdDbgapi(i) ==
  /\ library' = [library EXCEPT ![i] = <<>>]
  /\ notified' = notified \ {i}
  /\ runtime_state' = [runtime_state EXCEPT ![i] = "UNLOADED"]
  /\ wave_events' = [wave_events EXCEPT ![i] = 0]
  /\ handler' = IF Pushed(runtime_state, i) THEN Closed(runtime_state', handler)
                ELSE handler

\* The process exits, is killed or detached; the Linux target goes with its
\* last inferior.
Detach(i) ==
  /\ DetachAmdDbgapi(i)
  /\ attached' = attached \ {i}
  /\ async' = (async /\ attached' # {})
  /\ poll_fds' = IF attached' = {} THEN <<>> ELSE Unwatched(i)

\* The "kill" and "detach" commands.
Leave(i) ==
  /\ AtEventLoop /\ i \in attached
  /\ async \/ LeaveWhileStopped
  /\ Detach(i)
  /\ file' = (file /\ async')
  /\ host' = (host /\ async')
  /\ UNCHANGED <<resumed, left, turns, polls>>

-----------------------------------------------------------------------------
(* dbgapi_notifier_handler.                                                *)

\* async_event_handler_mark asserts that there is a handler.
Mark(h) == IF h = "null" THEN "assertion failed" ELSE "marked"

\* Bug: the pipe is emptied and nobody told.
HandlerNotMarked == UNCHANGED handler

\* The target is pushed: the event is left to wait.
SignalHandler == handler' = Mark(handler)

\* The target is not pushed: pull one RUNTIME event.
PullRuntimeEvent(i) ==
  \/ /\ library[i] = <<>>
     /\ UNCHANGED <<library, runtime_state, poll_fds, handler>>
  \/ /\ library[i] # <<>>
     /\ library' = [library EXCEPT ![i] = Tail(@)]
     /\ runtime_state' = [runtime_state EXCEPT ![i] = Head(library[i])]
     /\ IF async /\ Pushed(runtime_state', i) THEN AsyncOn(runtime_state', attached, poll_fds)
        ELSE UNCHANGED <<poll_fds, handler>>

\* The descriptors poll reports.
Readable ==
  (notified \cap Watched) \cup
  (IF file /\ LinuxFile \in ToSet(poll_fds) THEN {LinuxFile} ELSE {})

\* Bug: the notifier handler does not ask whether the target is pushed.
NotifierAlwaysSignals(i) ==
  /\ AtEventLoop
  /\ ServeFile(i, Readable, handler = "marked")
  /\ notified' = notified \ {i}
  /\ SignalHandler
  /\ UNCHANGED <<library, host, resumed, left, info, poll_fds, async, file, polls>>

\* gdb_do_one_event serves a notifier.
NotifierHandler(i) ==
  /\ AtEventLoop
  /\ ServeFile(i, Readable, handler = "marked")
  /\ notified' = notified \ {i}
  /\ IF Pushed(runtime_state, i)
     THEN SignalHandler /\ UNCHANGED <<library, runtime_state, poll_fds>>
     ELSE PullRuntimeEvent(i)
  /\ UNCHANGED <<host, resumed, left, attached, wave_events, async, file, polls>>

-----------------------------------------------------------------------------
(* fetch_inferior_event.                                                   *)

\* gdb_do_one_event serves the Linux target's file or the async event handler.
\* do_target_wait: poll every inferior, from a random one on.
StartFetch(s) ==
  /\ AtEventLoop
  /\ \/ ServeFile(LinuxFile, Readable, handler = "marked")
     \/ ServeHandler(Readable, handler = "marked")
  /\ s \in attached
  /\ polls' = InOrder({i \in attached : i >= s}) \o InOrder({i \in attached : i < s})
  /\ UNCHANGED <<external, info, poll_fds, handler, async, file>>

\* The event ends the fetch, and perhaps the command: in all-stop mode
\* inferior_event_handler then switches the target's async mode off.
Report(state, h, marked) ==
  /\ polls' = <<>>
  /\ \/ handler' = h /\ file' = marked /\ UNCHANGED <<poll_fds, async>>
     \/ h # "assertion failed" /\ AsyncOff(state, h, poll_fds)

\* A host thread stopped.
HostStop ==
  /\ Report(runtime_state, handler, TRUE)
  /\ UNCHANGED <<library, notified, left, info>>

\* A process exited: its inferior is gone when the fetch is over.
HostExit(i) ==
  /\ Detach(i)
  /\ file' = async' /\ polls' = <<>>
  /\ UNCHANGED left

\* amd_dbgapi_inferior_execd: detach from the old image, attach to the new
\* one, which has not loaded the runtime and has a notifier of its own.
HostExec(i) ==
  /\ DetachAmdDbgapi(i)
  /\ poll_fds' = AddFileHandlers(Unwatched(i), {i})
  /\ file' = TRUE /\ polls' = <<>>
  /\ UNCHANGED <<attached, async, left>>

\* amd_dbgapi_inferior_forked: attach to the child (after a vfork the child is
\* left alone until it execs, when it is a process like a new one).
HostFork(child) ==
  /\ AttachAmdDbgapi(child)
  /\ file' = TRUE /\ polls' = <<>>
  /\ UNCHANGED async

\* The Linux target, polled first, reports its event and marks its file again.
PollHost ==
  /\ host' = FALSE
  /\ HostThreads
  /\ \/ HostStop
     \/ \E i \in attached : HostExit(i) \/ HostExec(i)
     \/ \E child \in Inferiors \ attached : HostFork(child)

\* An inferior without the amd-dbgapi target: nothing to report, unless that
\* no thread is resumed.
PollBeneath ==
  /\ IF resumed
     THEN polls' = Tail(polls) /\ file' = FALSE /\ UNCHANGED <<poll_fds, handler, async>>
     ELSE Report(runtime_state, handler, FALSE)
  /\ UNCHANGED <<external, info>>

\* Bug: the handler stays flushed after an event has been returned.
NoMoreEvents(h) == IF h = "null" THEN "null" ELSE "clear"

\* The more_events scope guard of wait.
MoreEvents(h) == Mark(h)

\* Inferiors of the target with queued wave events.
Queues == {j \in attached : wave_events[j] > 0}

\* consume_one_event finds a queued event in the first such inferior.
ConsumeOneEvent ==
  /\ \E j \in Queues : /\ \A k \in Queues : j <= k
                       /\ wave_events' = [wave_events EXCEPT ![j] = @ - 1]
  /\ Report(runtime_state, MoreEvents("clear"), FALSE)
  /\ UNCHANGED <<external, attached, runtime_state>>

\* process_event_queue empties the library's queue of the current inferior;
\* the first wave event is returned, the others stay queued.  The UNLOADED event
\* pops the target, and close deletes the handler, before the scope guard runs.
ProcessEventQueue(i) ==
  LET waves == Cardinality({k \in 1..Len(library[i]) : library[i][k] = "WAVE"})
      state == IF "UNLOADED" \in ToSet(library[i])
               THEN [runtime_state EXCEPT ![i] = "UNLOADED"] ELSE runtime_state
      h == IF state = runtime_state THEN "clear" ELSE Closed(state, "clear")
  IN /\ library' = [library EXCEPT ![i] = <<>>]
     /\ runtime_state' = state
     /\ IF waves > 0
        THEN /\ wave_events' = [wave_events EXCEPT ![i] = waves - 1]
             /\ Report(state, MoreEvents(h), FALSE)
        ELSE /\ UNCHANGED wave_events
             /\ IF resumed \/ AnyPushed(state)
                THEN /\ polls' = Tail(polls)
                     /\ handler' = h /\ file' = FALSE
                     /\ UNCHANGED <<poll_fds, async>>
                ELSE Report(state, h, FALSE)
     /\ UNCHANGED <<notified, host, resumed, left, attached>>

\* amd_dbgapi_target::wait on the next inferior of the fetch.
Poll ==
  /\ polls # <<>>
  /\ UNCHANGED turns
  /\ LET i == Head(polls)
     IN \/ host /\ PollHost
        \/ ~host /\ ~Pushed(runtime_state, i) /\ PollBeneath
        \/ ~host /\ Pushed(runtime_state, i) /\ Queues # {} /\ ConsumeOneEvent
        \/ ~host /\ Pushed(runtime_state, i) /\ Queues = {} /\ ProcessEventQueue(i)

-----------------------------------------------------------------------------

Next ==
  \/ \E i \in Inferiors : \/ LibraryRaises(i)
                          \/ Attach(i)
                          \/ Leave(i)
                          \/ NotifierHandler(i)
                          \/ StartFetch(i)
  \/ HostEvent
  \/ UserResumes
  \/ Poll

Spec == Init /\ [][Next]_vars

\* The event loop goes round, a fetch runs to its end, and every inferior is
\* picked again and again to be polled first, since the choice is random.
gdb_do_one_event == \E i \in Inferiors : NotifierHandler(i) \/ StartFetch(i)

FairSpec ==
  /\ Spec
  /\ WF_vars(gdb_do_one_event) /\ WF_vars(Poll)
  /\ \A i \in Inferiors : SF_vars(StartFetch(i))

-----------------------------------------------------------------------------
(* Properties.                                                             *)

TypeOK ==
  /\ library \in [Inferiors -> Seq(RuntimeStates \cup {"WAVE"})]
  /\ notified \subseteq attached
  /\ poll_fds \in Seq(attached \cup {LinuxFile}) /\ IsInjective(poll_fds)
  /\ next_poll_fds_index \in 0 .. N + 1 /\ event_source_head \in 0..2
  /\ attached \subseteq Inferiors
  /\ runtime_state \in [Inferiors -> RuntimeStates]
  /\ wave_events \in [Inferiors -> Nat]
  /\ handler \in {"null", "clear", "marked", "assertion failed"}
  /\ {host, resumed, async, file} \subseteq BOOLEAN
  /\ left \in 0..MaxEvents
  /\ polls \in Seq(attached)

\* Something will make the event loop start a fetch, or look at inferior i.
Wakeup(i) == handler = "marked" \/ Readable \cap {LinuxFile, i} # {}

\* Inferior i has an event infrun has not seen.  A queue left behind by a runtime
\* that was unloaded is read as long as another inferior has the target.
HasEvent(i) ==
  library[i] # <<>> \/ (wave_events[i] > 0 /\ AnyPushed(runtime_state))

\* "The event will be consumed through our wait method": while GDB waits, an
\* event of an inferior, in the library or in wave_events, has a wakeup.
NoLostWakeup == \A i \in attached :
  async /\ AtEventLoop /\ HasEvent(i) => Wakeup(i)

\* The same, as far as it goes: no wakeup is lost while a host thread is
\* resumed, so that no fetch ends on NO_RESUMED.
NoLostWakeupIfResumed == resumed => NoLostWakeup

\* While the target is async and pushed the async event handler exists: wait can
\* clear it, and a notifier mark it.
HandlerExists ==
  async /\ AnyPushed(runtime_state) => handler \in {"clear", "marked"}

\* gdb_assert (amd_dbgapi_async_event_handler != nullptr) fails in one case only:
\* wait drains an event of a wave together with the UNLOADED event of the last
\* inferior that has the target, and its scope guard marks the handler that
\* amd_dbgapi_target::close has just deleted.
FailsOnlyAtUnload ==
  [][InternalError' /\ ~InternalError =>
       /\ polls # <<>> /\ {"WAVE", "UNLOADED"} \subseteq ToSet(library[Head(polls)])
       /\ ~AnyPushed(runtime_state')]_vars

\* "Register them all with the event loop": while the target is async, the
\* notifier of every attached inferior is watched, its runtime loaded or not.
NotifiersWatched == async => attached \subseteq Watched

\* "To level the fairness across event sources, we poll them in a round-robin
\* fashion": however busy the host threads and the other inferiors are, a
\* notifier that has something to read is read, unless GDB stops listening or
\* sits in its internal-error query.
NotifiersServed == \A i \in Inferiors :
  i \in notified ~> i \notin notified \/ ~async \/ InternalError

\* An event the library raises is pulled out of it, and a queued one returned
\* by wait, unless GDB stops listening to the target, no host thread is resumed
\* or an assertion failed.  The host threads, which are polled first, must fall silent.
EventsDelivered == <>[]~host => \A i \in Inferiors :
  HasEvent(i) ~> ~HasEvent(i) \/ ~async \/ ~resumed \/ InternalError

=============================================================================
