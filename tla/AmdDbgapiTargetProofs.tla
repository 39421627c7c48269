---------------------- MODULE AmdDbgapiTargetProofs ----------------------
(***************************************************************************)
(* Proofs about AmdDbgapiTarget, for any finite set of waves, when a       *)
(* thread that is being stopped is not interrupted again.                  *)
(***************************************************************************)
EXTENDS AmdDbgapiTarget, TLAPS

(***************************************************************************)
(* The inductive invariant.  What is said of a wave depends on that wave's *)
(* own state, on its events, and on where stop_all_threads is.             *)
(***************************************************************************)

\* The events of a wave agree with its state, and belong to a thread that
\* infrun still believes to be executing.
EventInv(w) ==
  /\ raised[w] = "WAVE_STOP" => wave[w] = "stop"
  /\ raised[w] = "WAVE_COMMAND_TERMINATED" => wave[w] = "gone"
  /\ Queued(w, "GDB_SIGNAL_0") => wave[w] = "stop" /\ stop_reason[w] = "none"
  /\ Queued(w, "GDB_SIGNAL_TRAP") => wave[w] = "stop"
  /\ Queued(w, "THREAD_EXITED") => wave[w] = "gone"
  /\ InFlight(w) => w \in executing \/ thread[w] = "none"
  /\ (\E ws \in Statuses : Queued(w, ws)) => Listed(w)
  /\ ExitInFlight(w) =>
       /\ Listed(w)
       /\ last_resume_mode[w] = "step" \/ (w \in stopping /\ w \in stop_requested)

\* A command is outstanding exactly where wave_info says one is.
CommandInv(w) ==
  /\ command[w] # {} => wave[w] = "run" /\ Listed(w)
  /\ "step" \in command[w] => last_resume_mode[w] = "step"
  /\ "stop" \in command[w] => w \in stopping /\ w \in stop_requested
  /\ wave[w] = "run" /\ Listed(w) =>
       /\ w \in executing
       /\ last_resume_mode[w] = "step" => "step" \in command[w]
       /\ w \in stopping => "stop" \in command[w]

\* The thread of a wave.
ThreadInv(w) ==
  /\ wave[w] = "unborn" => thread[w] = "none"
  /\ thread[w] = "THREAD_EXITED" => wave[w] = "gone"
  /\ wave[w] \in {"run", "stop"} /\ ~Listed(w) => thread[w] = "none" /\ changed
  /\ wave[w] = "stop" /\ ~Listed(w) => raised[w] = "WAVE_STOP"
  /\ pending_waitstatus[w] # "none" =>
       \/ wave[w] = "gone" /\ ~Listed(w)
       \/ Listed(w) /\ w \notin executing
  /\ Listed(w) /\ w \notin executing =>
       \/ wave[w] = "stop" /\ pending_waitstatus[w] # "THREAD_EXITED"
       \/ wave[w] = "gone" /\ pending_waitstatus[w] = "THREAD_EXITED" /\ Kept(w)
  /\ Listed(w) /\ w \in executing =>
       /\ wave[w] = "stop" => InFlight(w)
       /\ wave[w] = "gone" /\ Kept(w) => ExitInFlight(w)
       /\ wave[w] = "gone" /\ ~Kept(w) => changed
       /\ w \in stop_requested /\ wave[w] # "stop" => w \in stopping

\* A trap stays visible until the wave is resumed.
TrapInv(w) ==
  wave[w] = "stop" /\ stop_reason[w] = "trap" =>
    \/ InFlight(w)
    \/ pending_waitstatus[w] # "none"
    \/ thread[w] = "THREAD_STOPPED"

\* The queue holds one event per wave, and none the library still holds.
QueueInv ==
  /\ \A i, j \in 1..Len(wave_events) :
       wave_events[i].ptid = wave_events[j].ptid => i = j
  /\ \A i \in 1..Len(wave_events) : raised[wave_events[i].ptid] = "none"

\* Where stop_all_threads is.
LoopInv ==
  /\ m_report_thread_events <=> pc # "idle"
  /\ draining => pc \in {"idle", "wait"}
  /\ pc # "idle" => creation = "stop"
  /\ pc = "request" =>
       /\ \A w \in todo : Listed(w)
       /\ \A w \in Waves : wave[w] \in {"run", "stop"} => Listed(w)
       /\ waits_needed = 0 =>
            \A w \in Waves : Listed(w) /\ w \in executing => w \in todo

\* The wait loop runs at least once.  TypeOK alone is not inductive: handle_one
\* decrements waits_needed.
TypeInv == TypeOK /\ (pc = "wait" => waits_needed > 0)

WaveInv(w) == EventInv(w) /\ CommandInv(w) /\ ThreadInv(w) /\ TrapInv(w)

IInv ==
  /\ TypeInv
  /\ QueueInv
  /\ LoopInv
  /\ \A w \in Waves : WaveInv(w)

-----------------------------------------------------------------------------
(* Type correctness.                                                       *)

\* The event queue stays a sequence of events when one is added or consumed.
LEMMA QueueTyping ==
  ASSUME NEW S, NEW q \in Seq(S)
  PROVE  /\ \A e \in S : Append(q, e) \in Seq(S)
         /\ q # <<>> => Tail(q) \in Seq(S) /\ Head(q) \in S
         /\ \A i \in 1..Len(q) : q[i] \in S
         /\ q # <<>> => Len(q) >= 1 /\ Head(q) = q[1]
OBVIOUS

\* Every step of the library leaves the state well-typed.
LEMMA LibraryTyping == TypeInv /\ LibraryStep => TypeInv'
<1> SUFFICES ASSUME TypeInv, NEW w \in Waves,
                    WaveStart(w) \/ WaveTraps(w) \/ StopCompletes(w) \/ WaveTerminates(w)
             PROVE  TypeInv'
  BY DEF LibraryStep
<1>1. CASE WaveStart(w)
  BY <1>1 DEF TypeInv, TypeOK, WaveStart, tgt, inf, loop
<1>2. CASE WaveTraps(w)
  BY <1>2 DEF TypeInv, TypeOK, WaveTraps, Halt, tgt, inf, loop
<1>3. CASE StopCompletes(w)
  BY <1>3 DEF TypeInv, TypeOK, StopCompletes, Halt, tgt, inf, loop
<1>4. CASE WaveTerminates(w)
  BY <1>4 DEF TypeInv, TypeOK, WaveTerminates, tgt, inf, loop
<1> QED BY <1>1, <1>2, <1>3, <1>4

\* stop_one_thread keeps its four variables well-typed.
LEMMA StopOneThreadTyping ==
  ASSUME TypeOK, NEW w \in Waves, NEW left \in {"none", "THREAD_EXITED"},
         StopOneThread(w, left)
  PROVE  /\ command' \in [Waves -> SUBSET {"step", "stop"}]
         /\ stopping' \in SUBSET Waves
         /\ wave_events' \in Seq([ptid : Waves, ws : Statuses])
         /\ thread' \in [Waves -> {"none", "THREAD_RUNNING", "THREAD_STOPPED",
                                   "THREAD_EXITED"}]
<1>1. Event(w, "THREAD_EXITED") \in [ptid : Waves, ws : Statuses]
  BY DEF Event, Statuses
<1>2. Append(wave_events, Event(w, "THREAD_EXITED")) \in Seq([ptid : Waves, ws : Statuses])
  BY <1>1, QueueTyping DEF TypeOK
<1>3. CASE wave[w] = "stop" /\ UNCHANGED <<command, stopping, wave_events, thread>>
  BY <1>3 DEF TypeOK
<1>4. CASE /\ command' = [command EXCEPT ![w] = @ \cup {"stop"}]
           /\ stopping' = stopping \cup {w}
           /\ UNCHANGED <<wave_events, thread>>
  BY <1>4 DEF TypeOK
<1>5. CASE StopVanishedWave(w, left)
  <2>1. stopping' \in SUBSET Waves /\ command' = command
    BY <1>5 DEF TypeOK, StopVanishedWave
  <2>2. wave_events' \in Seq([ptid : Waves, ws : Statuses])
    BY <1>2, <1>5 DEF TypeOK, StopVanishedWave
  <2>3. thread' \in [Waves -> {"none", "THREAD_RUNNING", "THREAD_STOPPED",
                               "THREAD_EXITED"}]
    BY <1>5 DEF TypeOK, StopVanishedWave
  <2> QED BY <2>1, <2>2, <2>3 DEF TypeOK
<1> QED BY <1>3, <1>4, <1>5 DEF StopOneThread

\* add_gpu_thread keeps the thread table well-typed.
LEMMA AddGpuThreadsTyping ==
  ASSUME TypeOK, NEW new \in SUBSET Waves,
         NEW others \in [Waves -> {"none", "THREAD_RUNNING", "THREAD_STOPPED",
                                   "THREAD_EXITED"}],
         AddGpuThreads(new, others)
  PROVE  /\ thread' \in [Waves -> {"none", "THREAD_RUNNING", "THREAD_STOPPED",
                                   "THREAD_EXITED"}]
         /\ last_resume_mode' \in [Waves -> {"normal", "step"}]
         /\ stopping' \in SUBSET Waves
         /\ stop_requested' \in SUBSET Waves
         /\ executing' \in SUBSET Waves
BY DEF TypeOK, AddGpuThreads, AddedExecuting

\* update_thread_list leaves the state well-typed.
LEMMA UpdateTyping ==
  ASSUME TypeOK, NEW pushed \in BOOLEAN, UpdateThreadList(pushed)
  PROVE  /\ thread' \in [Waves -> {"none", "THREAD_RUNNING", "THREAD_STOPPED",
                                   "THREAD_EXITED"}]
         /\ last_resume_mode' \in [Waves -> {"normal", "step"}]
         /\ stopping' \in SUBSET Waves
         /\ stop_requested' \in SUBSET Waves
         /\ executing' \in SUBSET Waves
         /\ changed' \in BOOLEAN
         /\ UNCHANGED <<wave, stop_reason, command, raised, creation, wave_events,
                        draining, m_report_thread_events, pending_waitstatus>>
<1> DEFINE news == pushed /\ changed
           new == {w \in Waves : news /\ thread[w] = "none" /\ wave[w] \in {"run", "stop"}}
           exited == {w \in Waves : news /\ Listed(w) /\ wave[w] = "gone" /\ ~Kept(w)}
                       \cup {w \in Waves : thread[w] = "THREAD_EXITED"}
           others(R) == [w \in Waves |-> IF w \in R THEN "THREAD_EXITED"
                           ELSE IF w \in exited THEN "none" ELSE thread[w]]
<1>1. PICK R \in SUBSET exited : AddGpuThreads(new, others(R))
  BY DEF UpdateThreadList
<1>2. others(R) \in [Waves -> {"none", "THREAD_RUNNING", "THREAD_STOPPED",
                               "THREAD_EXITED"}]
  BY DEF TypeOK
<1> QED BY <1>1, <1>2, AddGpuThreadsTyping DEF UpdateThreadList

\* Every step at the event loop leaves the state well-typed.
LEMMA EventLoopTyping == TypeInv /\ EventLoopStep => TypeInv'
<1> SUFFICES ASSUME TypeInv, EventLoopStep PROVE TypeInv'
  OBVIOUS
<1>1. ASSUME NEW w \in Waves, NEW mode \in {"normal", "step"}, Resume(w, mode)
      PROVE  TypeInv'
  BY <1>1 DEF TypeInv, TypeOK, Resume, ClearStopping, loop
<1>2. ASSUME NEW w \in Waves, Interrupt(w) PROVE TypeInv'
  <2>1. PICK left \in {"none", "THREAD_EXITED"} : StopOneThread(w, left)
    BY <1>2 DEF Interrupt
  <2>2. stop_requested' \in SUBSET Waves
    BY <1>2 DEF TypeInv, TypeOK, Interrupt
  <2>3. pending_waitstatus' \in [Waves -> Statuses \cup {"none"}]
    BY <1>2 DEF TypeInv, TypeOK, Interrupt, Statuses, Stops
  <2>4. /\ command' \in [Waves -> SUBSET {"step", "stop"}]
        /\ stopping' \in SUBSET Waves
        /\ wave_events' \in Seq([ptid : Waves, ws : Statuses])
        /\ thread' \in [Waves -> {"none", "THREAD_RUNNING", "THREAD_STOPPED",
                                  "THREAD_EXITED"}]
    BY <2>1, StopOneThreadTyping DEF TypeInv
  <2>5. UNCHANGED <<wave, stop_reason, raised, changed, creation, last_resume_mode,
                    draining, m_report_thread_events, executing, loop>>
    BY <1>2 DEF Interrupt
  <2> QED BY <2>2, <2>3, <2>4, <2>5 DEF TypeInv, TypeOK, loop
<1>3. ASSUME NEW w \in Waves, HandlePendingEvent(w) PROVE TypeInv'
  BY <1>3 DEF TypeInv, TypeOK, HandlePendingEvent, HandleStatus, lib, loop
<1>4. CASE RefreshThreads
  BY <1>4, UpdateTyping DEF TypeInv, TypeOK, RefreshThreads, loop
<1>5. CASE HandleInferiorEvent
  <2>1. /\ wave_events' \in Seq([ptid : Waves, ws : Statuses])
        /\ Head(wave_events) \in [ptid : Waves, ws : Statuses]
    BY <1>5, QueueTyping DEF TypeInv, TypeOK, HandleInferiorEvent
  <2> QED BY <1>5, <2>1 DEF TypeInv, TypeOK, HandleInferiorEvent, HandleStatus, lib, loop
<1> QED BY <1>1, <1>2, <1>3, <1>4, <1>5 DEF EventLoopStep

\* Pulling events leaves the state well-typed.
LEMMA DrainTyping == TypeInv /\ DrainStep => TypeInv'
<1> SUFFICES ASSUME TypeInv, DrainStep PROVE TypeInv'
  OBVIOUS
<1>1. CASE BeginDrain
  BY <1>1 DEF TypeInv, TypeOK, BeginDrain, lib, inf, loop
<1>2. ASSUME NEW w \in Waves, ProcessOneEvent(w) PROVE TypeInv'
  <2>1. Event(w, WaitStatus(w)) \in [ptid : Waves, ws : Statuses]
    BY DEF Event, WaitStatus, Statuses, Stops
  <2>2. wave_events' \in Seq([ptid : Waves, ws : Statuses])
    BY <1>2, <2>1, QueueTyping DEF TypeInv, TypeOK, ProcessOneEvent
  <2> DEFINE new == {w} \cap {v \in Waves : thread[v] = "none" /\ raised[v] = "WAVE_STOP"}
  <2>3. new \in SUBSET Waves /\ AddGpuThreads(new, thread)
    BY <1>2 DEF ProcessOneEvent
  <2> HIDE DEF new
  <2>4. raised' \in [Waves -> {"none", "WAVE_STOP", "WAVE_COMMAND_TERMINATED"}]
    BY <1>2 DEF TypeInv, TypeOK, ProcessOneEvent
  <2> QED BY <1>2, <2>2, <2>3, <2>4, AddGpuThreadsTyping
          DEF TypeInv, TypeOK, ProcessOneEvent, loop
<1>3. CASE EndDrain
  BY <1>3 DEF TypeInv, TypeOK, EndDrain, lib, inf, loop
<1> QED BY <1>1, <1>2, <1>3 DEF DrainStep

\* stop_all_threads leaves the state well-typed.
LEMMA StopAllTyping == TypeInv /\ StopAllStep => TypeInv'
<1> SUFFICES ASSUME TypeInv, StopAllStep PROVE TypeInv'
  OBVIOUS
<1>1. CASE BeginStopAll
  BY <1>1, SessionAssumption
  DEF TypeInv, TypeOK, BeginStopAll, EnableThreadEvents, PreventNewThreads, inf
<1>2. CASE StopAllUpdate
  BY <1>2, UpdateTyping, SessionAssumption DEF TypeInv, TypeOK, StopAllUpdate
<1>3. ASSUME NEW w \in Waves, VisitThread(w) PROVE TypeInv'
  <2>1. /\ command' \in [Waves -> SUBSET {"step", "stop"}]
        /\ stopping' \in SUBSET Waves
        /\ wave_events' \in Seq([ptid : Waves, ws : Statuses])
        /\ thread' \in [Waves -> {"none", "THREAD_RUNNING", "THREAD_STOPPED",
                                  "THREAD_EXITED"}]
    <3>1. CASE w \in executing /\ w \notin stop_requested
      BY <1>3, <3>1, StopOneThreadTyping DEF VisitThread, TypeInv
    <3>2. CASE ~(w \in executing /\ w \notin stop_requested)
      BY <1>3, <3>2 DEF VisitThread, TypeInv, TypeOK
    <3> QED BY <3>1, <3>2
  <2>2. stop_requested' \in SUBSET Waves
    BY <1>3 DEF TypeInv, TypeOK, VisitThread
  <2> QED BY <1>3, <2>1, <2>2 DEF TypeInv, TypeOK, VisitThread
<1>4. CASE EndRequests
  <2>1. /\ pc' \in {"idle", "update", "wait"}
        /\ pc' = "wait" => waits_needed > 0
        /\ UNCHANGED <<lib, thread, last_resume_mode, stopping, wave_events,
                       draining, inf, todo, waits_needed>>
    BY <1>4 DEF EndRequests, WaitOne
  <2>2. pass' \in {-1, 0, 1}
    BY <1>4 DEF TypeInv, TypeOK, EndRequests, NextPass
  <2>3. m_report_thread_events' \in BOOLEAN
    BY <1>4 DEF TypeInv, TypeOK, EndRequests
  <2> QED BY <2>1, <2>2, <2>3 DEF TypeInv, TypeOK, lib, inf
<1>5. CASE HandleOne
  <2>1. /\ wave_events' \in Seq([ptid : Waves, ws : Statuses])
        /\ Head(wave_events) \in [ptid : Waves, ws : Statuses]
    BY <1>5, QueueTyping DEF TypeInv, TypeOK, HandleOne
  <2>2. pending_waitstatus' \in [Waves -> Statuses \cup {"none"}]
    BY <1>5, <2>1 DEF TypeInv, TypeOK, HandleOne, SavedWaitStatus, inf
  <2>3. executing' \in SUBSET Waves /\ stop_requested' \in SUBSET Waves
    BY <1>5 DEF TypeInv, TypeOK, HandleOne, inf
  <2>4. /\ waits_needed' \in Nat
        /\ pc' \in {"update", "wait"}
        /\ pc' = "wait" => waits_needed' > 0
    BY <1>5 DEF TypeInv, TypeOK, HandleOne, WaitOne
  <2>5. UNCHANGED <<lib, thread, last_resume_mode, stopping, draining,
                    m_report_thread_events, todo, pass>>
    BY <1>5 DEF HandleOne
  <2> QED BY <2>1, <2>2, <2>3, <2>4, <2>5 DEF TypeInv, TypeOK, lib
<1> QED BY <1>1, <1>2, <1>3, <1>4, <1>5 DEF StopAllStep

\* Every step of GDB and the library leaves the state well-typed.
LEMMA TypeStep == TypeInv /\ [Next]_vars => TypeInv'
<1>1. TypeInv /\ UNCHANGED vars => TypeInv'
  BY DEF TypeInv, TypeOK, vars, lib, tgt, inf, loop
<1> QED BY <1>1, LibraryTyping, EventLoopTyping, DrainTyping, StopAllTyping DEF Next

\* The initial state is well-typed.
LEMMA InitTyping == Init => TypeInv
<1> SUFFICES ASSUME Init PROVE TypeInv
  OBVIOUS
<1>1. wave_events \in Seq([ptid : Waves, ws : Statuses])
  BY DEF Init
<1>2. pending_waitstatus \in [Waves -> Statuses \cup {"none"}]
  BY DEF Init
<1>3. /\ changed \in BOOLEAN
      /\ draining \in BOOLEAN
      /\ m_report_thread_events \in BOOLEAN
  BY DEF Init
<1>4. pass \in {-1, 0, 1} /\ waits_needed \in Nat
  BY DEF Init
<1> QED BY <1>1, <1>2, <1>3, <1>4 DEF Init, TypeInv, TypeOK

\* The state of the library, the target and infrun stays well-typed; in
\* particular stop_all_threads never counts its waits below zero.
THEOREM TypeCorrect == Spec => []TypeOK
<1>1. TypeInv => TypeOK
  BY DEF TypeInv
<1> QED BY <1>1, InitTyping, TypeStep, PTL DEF Spec

-----------------------------------------------------------------------------
(* Facts about the queue and about waves a step does not touch.            *)

\* Adding an event to wave_events adds that event and no other.
LEMMA QueuedAppend ==
  ASSUME TypeOK, NEW v \in Waves, NEW s \in Statuses,
         wave_events' = Append(wave_events, Event(v, s))
  PROVE  \A w \in Waves, ws \in Statuses :
           Queued(w, ws)' <=> Queued(w, ws) \/ (w = v /\ ws = s)
<1> USE DEF TypeOK
<1>1. /\ Len(wave_events') = Len(wave_events) + 1
      /\ \A i \in 1..Len(wave_events) : wave_events'[i] = wave_events[i]
      /\ wave_events'[Len(wave_events) + 1] = Event(v, s)
  BY DEF Event
<1>2. Len(wave_events) \in Nat
  OBVIOUS
<1> SUFFICES ASSUME NEW w \in Waves, NEW ws \in Statuses
             PROVE  Queued(w, ws)' <=> Queued(w, ws) \/ (w = v /\ ws = s)
  OBVIOUS
<1>3. Event(w, ws) = Event(v, s) <=> w = v /\ ws = s
  BY DEF Event
<1>4. Queued(w, ws)' => Queued(w, ws) \/ (w = v /\ ws = s)
  <2> SUFFICES ASSUME NEW i \in 1..Len(wave_events'), wave_events'[i] = Event(w, ws)
               PROVE  Queued(w, ws) \/ (w = v /\ ws = s)
    BY DEF Queued, Event
  <2>1. CASE i \in 1..Len(wave_events)
    BY <1>1, <2>1 DEF Queued
  <2>2. CASE i = Len(wave_events) + 1
    BY <1>1, <1>3, <2>2
  <2> QED BY <1>1, <1>2, <2>1, <2>2
<1>5. Queued(w, ws) => Queued(w, ws)'
  <2> SUFFICES ASSUME NEW i \in 1..Len(wave_events), wave_events[i] = Event(w, ws)
               PROVE  Queued(w, ws)'
    BY DEF Queued
  <2>1. i \in 1..Len(wave_events') /\ wave_events'[i] = Event(w, ws)
    BY <1>1, <1>2
  <2> QED BY <2>1 DEF Queued, Event
<1>6. w = v /\ ws = s => Queued(w, ws)'
  <2>1. Len(wave_events) + 1 \in 1..Len(wave_events')
    BY <1>1, <1>2
  <2> QED BY <1>1, <2>1 DEF Queued, Event
<1> QED BY <1>4, <1>5, <1>6

\* Consuming the front of wave_events removes the one event of its wave.
LEMMA QueuedTail ==
  ASSUME TypeOK, QueueInv, wave_events # <<>>, wave_events' = Tail(wave_events)
  PROVE  /\ Head(wave_events).ptid \in Waves
         /\ Head(wave_events).ws \in Statuses
         /\ Queued(Head(wave_events).ptid, Head(wave_events).ws)
         /\ \A w \in Waves, ws \in Statuses :
              Queued(w, ws)' <=> Queued(w, ws) /\ w # Head(wave_events).ptid
<1> DEFINE h == wave_events[1]
<1>0. wave_events \in Seq([ptid : Waves, ws : Statuses])
  BY DEF TypeOK
<1>1. /\ Len(wave_events) \in Nat
      /\ Len(wave_events) >= 1
      /\ Head(wave_events) = h
      /\ h \in [ptid : Waves, ws : Statuses]
  <2>1. Len(wave_events) \in Nat
    BY <1>0
  <2>2. Len(wave_events) >= 1 /\ Head(wave_events) = h
    BY <1>0, QueueTyping
  <2> QED BY <1>0, <2>1, <2>2, QueueTyping
<1>2. /\ Len(wave_events') = Len(wave_events) - 1
      /\ \A i \in 1..(Len(wave_events) - 1) : wave_events'[i] = wave_events[i + 1]
  BY <1>0, <1>1
<1>3. h = Event(h.ptid, h.ws)
  BY <1>1 DEF Event
<1>4. Queued(h.ptid, h.ws)
  BY <1>1, <1>3 DEF Queued
<1>5. ASSUME NEW w \in Waves, NEW ws \in Statuses
      PROVE  Queued(w, ws)' <=> Queued(w, ws) /\ w # h.ptid
  <2>1. ASSUME Queued(w, ws)' PROVE Queued(w, ws) /\ w # h.ptid
    <3>1. PICK i \in 1..Len(wave_events') : wave_events'[i] = Event(w, ws)
      BY <2>1 DEF Queued, Event
    <3>2. i + 1 \in 1..Len(wave_events) /\ wave_events[i + 1] = Event(w, ws) /\ i + 1 # 1
      BY <1>1, <1>2, <3>1
    <3>3. wave_events[i + 1].ptid = w
      BY <3>2 DEF Event
    <3>4. 1 \in 1..Len(wave_events)
      BY <1>1
    <3> QED BY <3>2, <3>3, <3>4 DEF Queued, QueueInv
  <2>2. ASSUME Queued(w, ws), w # h.ptid PROVE Queued(w, ws)'
    <3>1. PICK i \in 1..Len(wave_events) : wave_events[i] = Event(w, ws)
      BY <2>2 DEF Queued
    <3>2. i # 1
      BY <2>2, <3>1 DEF Event
    <3>3. i - 1 \in 1..Len(wave_events') /\ wave_events'[i - 1] = Event(w, ws)
      BY <1>1, <1>2, <3>1, <3>2
    <3> QED BY <3>3 DEF Queued, Event
  <2> QED BY <2>1, <2>2
<1> QED BY <1>1, <1>4, <1>5

\* A queue that does not change holds the same events.
LEMMA QueuedSame ==
  ASSUME UNCHANGED wave_events
  PROVE  \A w \in Waves, ws \in Statuses : Queued(w, ws)' <=> Queued(w, ws)
BY DEF Queued, Event

\* The event in the queue is of the wave it names.
LEMMA QueuedAny ==
  ASSUME TypeOK, NEW i \in 1..Len(wave_events)
  PROVE  /\ wave_events[i].ptid \in Waves
         /\ \E ws \in Statuses : Queued(wave_events[i].ptid, ws)
<1>1. wave_events[i] \in [ptid : Waves, ws : Statuses]
  BY QueueTyping DEF TypeOK
<1>2. wave_events[i] = Event(wave_events[i].ptid, wave_events[i].ws)
  BY <1>1 DEF Event
<1> QED BY <1>1, <1>2 DEF Queued

\* The queue invariant survives an event of a wave that has none in flight.
LEMMA QueueInvAppend ==
  ASSUME TypeOK, QueueInv, NEW v \in Waves, NEW s \in Statuses,
         \A ws \in Statuses : ~Queued(v, ws),
         wave_events' = Append(wave_events, Event(v, s)),
         raised'[v] = "none",
         \A w \in Waves \ {v} : raised'[w] = raised[w]
  PROVE  QueueInv'
<1>1. /\ Len(wave_events) \in Nat
      /\ Len(wave_events') = Len(wave_events) + 1
      /\ \A i \in 1..Len(wave_events) : wave_events'[i] = wave_events[i]
      /\ wave_events'[Len(wave_events) + 1].ptid = v
  BY DEF TypeOK, Event
<1>2. \A i \in 1..Len(wave_events) : /\ wave_events[i].ptid \in Waves
                                     /\ wave_events[i].ptid # v
  BY QueuedAny
<1> QED BY <1>1, <1>2 DEF QueueInv

\* The queue invariant survives the consumption of an event.
LEMMA QueueInvTail ==
  ASSUME TypeOK, QueueInv, wave_events # <<>>,
         wave_events' = Tail(wave_events), UNCHANGED raised
  PROVE  QueueInv'
<1>1. /\ Len(wave_events) \in Nat
      /\ Len(wave_events') = Len(wave_events) - 1
      /\ \A i \in 1..(Len(wave_events) - 1) : wave_events'[i] = wave_events[i + 1]
  BY DEF TypeOK
<1>2. \A i \in 1..(Len(wave_events) - 1) : i + 1 \in 1..Len(wave_events)
  BY <1>1
<1> QED BY <1>1, <1>2 DEF QueueInv

\* What a step leaves alone about a wave.
SameWave(w) ==
  /\ wave'[w] = wave[w] /\ stop_reason'[w] = stop_reason[w]
  /\ command'[w] = command[w] /\ raised'[w] = raised[w]
  /\ thread'[w] = thread[w] /\ last_resume_mode'[w] = last_resume_mode[w]
  /\ pending_waitstatus'[w] = pending_waitstatus[w]
  /\ w \in stopping' <=> w \in stopping
  /\ w \in executing' <=> w \in executing
  /\ w \in stop_requested' <=> w \in stop_requested
  /\ \A ws \in Statuses : Queued(w, ws)' <=> Queued(w, ws)

\* The invariant of a wave depends on nothing else, but for the changed flag,
\* which only has to stay set.
LEMMA WaveFrame ==
  ASSUME NEW w \in Waves, WaveInv(w), SameWave(w), changed => changed'
  PROVE  WaveInv(w)'
<1>1. /\ Listed(w)' <=> Listed(w)
      /\ Kept(w)' <=> Kept(w)
      /\ InFlight(w)' <=> InFlight(w)
      /\ ExitInFlight(w)' <=> ExitInFlight(w)
  BY DEF SameWave, Listed, Kept, InFlight, ExitInFlight, Statuses, Stops
<1>2. EventInv(w)'
  BY <1>1 DEF WaveInv, EventInv, SameWave, Statuses, Stops
<1>3. CommandInv(w)'
  BY <1>1 DEF WaveInv, CommandInv, SameWave
<1>4. ThreadInv(w)'
  BY <1>1 DEF WaveInv, ThreadInv, SameWave
<1>5. TrapInv(w)'
  BY <1>1 DEF WaveInv, TrapInv, SameWave
<1> QED BY <1>2, <1>3, <1>4, <1>5 DEF WaveInv

-----------------------------------------------------------------------------
(* The steps of the library preserve the invariant.                        *)

\* A wave that runs has no event in flight.
LEMMA RunningIsQuiet ==
  ASSUME NEW v \in Waves, TypeOK, WaveInv(v), wave[v] \in {"unborn", "run"}
  PROVE  /\ raised[v] = "none"
         /\ \A ws \in Statuses : ~Queued(v, ws)
BY DEF WaveInv, EventInv, TypeOK, Statuses, Stops

\* The queue invariant survives an event raised for a wave that has none.
LEMMA QueueInvRaise ==
  ASSUME TypeOK, QueueInv, NEW v \in Waves,
         \A ws \in Statuses : ~Queued(v, ws),
         UNCHANGED wave_events,
         \A w \in Waves \ {v} : raised'[w] = raised[w]
  PROVE  QueueInv'
<1>1. \A i \in 1..Len(wave_events) : /\ wave_events[i].ptid \in Waves
                                     /\ wave_events[i].ptid # v
  BY QueuedAny
<1> QED BY <1>1 DEF QueueInv

\* A wave starting, halting or terminating, at any moment, keeps the invariant.
LEMMA LibraryInv ==
  ASSUME IInv, LibraryStep
  PROVE  QueueInv' /\ LoopInv' /\ \A w \in Waves : WaveInv(w)'
<1> USE DEF IInv
<1>t. TypeOK
  BY DEF TypeInv
<1>1. ASSUME NEW v \in Waves, WaveStart(v)
      PROVE  QueueInv' /\ LoopInv' /\ \A w \in Waves : WaveInv(w)'
  <2> USE DEF WaveStart, tgt, inf, loop
  <2>1. \A w \in Waves, ws \in Statuses : Queued(w, ws)' <=> Queued(w, ws)
    BY <1>1, QueuedSame
  <2>2. \A w \in Waves \ {v} : SameWave(w)
    BY <1>1, <1>t, <2>1 DEF SameWave, TypeOK
  <2>3. \A w \in Waves \ {v} : WaveInv(w)'
    BY <1>1, <2>2, WaveFrame
  <2>4. WaveInv(v)'
    <3>1. /\ raised[v] = "none" /\ thread[v] = "none"
          /\ \A ws \in Statuses : ~Queued(v, ws)
      BY <1>1, <1>t, RunningIsQuiet DEF WaveInv, ThreadInv
    <3>2. /\ wave'[v] = "run" /\ raised'[v] = "none" /\ thread'[v] = "none" /\ changed'
          /\ command'[v] = command[v] /\ pending_waitstatus'[v] = pending_waitstatus[v]
          /\ \A ws \in Statuses : ~Queued(v, ws)'
      BY <1>1, <1>t, <2>1, <3>1 DEF TypeOK
    <3>3. command[v] = {} /\ pending_waitstatus[v] = "none"
      BY <1>1, <1>t DEF WaveInv, CommandInv, ThreadInv, TypeOK
    <3> QED BY <3>2, <3>3
            DEF WaveInv, EventInv, CommandInv, ThreadInv, TrapInv, Listed, InFlight,
                ExitInFlight, Statuses, Stops
  <2>5. LoopInv'
    BY <1>1, <1>t DEF LoopInv, Listed, TypeOK
  <2>6. QueueInv'
    BY <1>1 DEF QueueInv
  <2> QED BY <2>3, <2>4, <2>5, <2>6
<1>2. ASSUME NEW v \in Waves, NEW reason \in {"none", "trap"}, Halt(v, reason)
      PROVE  QueueInv' /\ LoopInv' /\ \A w \in Waves : WaveInv(w)'
  <2> USE DEF Halt, tgt, inf, loop
  <2>1. \A w \in Waves, ws \in Statuses : Queued(w, ws)' <=> Queued(w, ws)
    BY <1>2, QueuedSame
  <2>2. \A w \in Waves \ {v} : SameWave(w)
    BY <1>2, <1>t, <2>1 DEF SameWave, TypeOK
  <2>3. \A w \in Waves \ {v} : WaveInv(w)'
    BY <1>2, <2>2, WaveFrame
  <2>4. \A ws \in Statuses : ~Queued(v, ws)
    BY <1>2, <1>t, RunningIsQuiet
  <2>5. WaveInv(v)'
    <3>1. /\ wave[v] = "run" /\ wave'[v] = "stop" /\ raised'[v] = "WAVE_STOP"
          /\ command'[v] = {} /\ thread'[v] = thread[v]
          /\ changed' = changed
          /\ executing' = executing /\ pending_waitstatus' = pending_waitstatus
          /\ \A ws \in Statuses : ~Queued(v, ws)'
      BY <1>2, <1>t, <2>1, <2>4 DEF TypeOK
    <3> QED BY <3>1 DEF WaveInv, EventInv, CommandInv, ThreadInv, TrapInv, Listed,
                        InFlight, ExitInFlight, Statuses, Stops
  <2>6. LoopInv'
    BY <1>2, <1>t DEF LoopInv, Listed, TypeOK
  <2>7. QueueInv'
    BY <1>2, <1>t, <2>4, QueueInvRaise DEF TypeOK
  <2> QED BY <2>3, <2>5, <2>6, <2>7
<1>3. ASSUME NEW v \in Waves, WaveTerminates(v)
      PROVE  QueueInv' /\ LoopInv' /\ \A w \in Waves : WaveInv(w)'
  <2> USE DEF WaveTerminates, tgt, inf, loop
  <2>1. \A w \in Waves, ws \in Statuses : Queued(w, ws)' <=> Queued(w, ws)
    BY <1>3, QueuedSame
  <2>2. \A w \in Waves \ {v} : SameWave(w)
    BY <1>3, <1>t, <2>1 DEF SameWave, TypeOK
  <2>3. \A w \in Waves \ {v} : WaveInv(w)'
    BY <1>3, <2>2, WaveFrame
  <2>4. \A ws \in Statuses : ~Queued(v, ws)
    BY <1>3, <1>t, RunningIsQuiet
  <2>5. WaveInv(v)'
    <3>1. /\ wave[v] = "run" /\ wave'[v] = "gone"
          /\ command[v] # {} => raised'[v] = "WAVE_COMMAND_TERMINATED"
          /\ command[v] = {} => raised'[v] = "none"
          /\ command'[v] = {} /\ thread'[v] = thread[v] /\ changed'
          /\ last_resume_mode' = last_resume_mode /\ stopping' = stopping
          /\ stop_requested' = stop_requested
          /\ executing' = executing /\ pending_waitstatus' = pending_waitstatus
          /\ \A ws \in Statuses : ~Queued(v, ws)'
      BY <1>3, <1>t, <2>1, <2>4 DEF TypeOK
    <3>2. command[v] \in SUBSET {"step", "stop"}
      BY <1>t DEF TypeOK
    <3> QED BY <3>1, <3>2
            DEF WaveInv, EventInv, CommandInv, ThreadInv, TrapInv, Listed, Kept,
                InFlight, ExitInFlight, Statuses, Stops
  <2>6. LoopInv'
    BY <1>3, <1>t DEF LoopInv, Listed, TypeOK
  <2>7. QueueInv'
    BY <1>3, <1>t, <2>4, QueueInvRaise DEF TypeOK
  <2> QED BY <2>3, <2>5, <2>6, <2>7
<1> QED BY <1>1, <1>2, <1>3 DEF LibraryStep, WaveTraps, StopCompletes

-----------------------------------------------------------------------------
(* The steps at the event loop preserve the invariant.                     *)

\* A listed wave GDB does not believe executing has no event in flight.
LEMMA StoppedIsQuiet ==
  ASSUME NEW v \in Waves, TypeOK, WaveInv(v), Listed(v), v \notin executing
  PROVE  /\ raised[v] = "none"
         /\ \A ws \in Statuses : ~Queued(v, ws)
BY DEF WaveInv, EventInv, TypeOK, Listed, InFlight, Statuses, Stops

\* Resuming a stopped thread keeps the invariant.
LEMMA ResumeInv ==
  ASSUME IInv, NEW v \in Waves, NEW mode \in {"normal", "step"}, Resume(v, mode)
  PROVE  QueueInv' /\ LoopInv' /\ \A w \in Waves : WaveInv(w)'
<1> USE DEF IInv, Resume, AtEventLoop, Resumable, ClearStopping, loop
<1>t. TypeOK
  BY DEF TypeInv
<1>1. \A w \in Waves, ws \in Statuses : Queued(w, ws)' <=> Queued(w, ws)
  BY QueuedSame
<1>2. \A w \in Waves \ {v} : SameWave(w)
  BY <1>t, <1>1 DEF SameWave, TypeOK
<1>3. \A w \in Waves \ {v} : WaveInv(w)'
  BY <1>2, WaveFrame
<1>4. WaveInv(v)'
  <2>1. /\ raised[v] = "none" /\ wave[v] = "stop" /\ pending_waitstatus[v] = "none"
        /\ \A ws \in Statuses : ~Queued(v, ws)
    BY <1>t, StoppedIsQuiet DEF WaveInv, ThreadInv
  <2>2. /\ wave'[v] = "run" /\ raised'[v] = "none" /\ pending_waitstatus'[v] = "none"
        /\ command'[v] = (IF mode = "step" THEN {"step"} ELSE {})
        /\ last_resume_mode'[v] = mode /\ thread'[v] = "THREAD_RUNNING"
        /\ v \in executing' /\ v \notin stopping' /\ v \notin stop_requested'
        /\ \A ws \in Statuses : ~Queued(v, ws)'
    BY <1>t, <1>1, <2>1 DEF TypeOK
  <2> QED BY <2>2 DEF WaveInv, EventInv, CommandInv, ThreadInv, TrapInv, Listed, Kept,
                      InFlight, ExitInFlight, Statuses, Stops
<1>5. LoopInv'
  BY DEF LoopInv
<1>6. QueueInv'
  BY DEF QueueInv
<1> QED BY <1>3, <1>4, <1>5, <1>6

\* Interrupting a thread nobody asked to stop yet keeps the invariant; the
\* thread of a wave that vanished is dropped only if no exit is coming.
LEMMA InterruptInv ==
  ASSUME IInv, ~RepeatInterrupt, NEW v \in Waves, Interrupt(v)
  PROVE  QueueInv' /\ LoopInv' /\ \A w \in Waves : WaveInv(w)'
<1> USE DEF IInv, Interrupt, AtEventLoop, loop
<1>t. TypeOK
  BY DEF TypeInv
<1>0. ~m_report_thread_events
  BY DEF LoopInv
<1>1. PICK left \in {"none", "THREAD_EXITED"} : StopOneThread(v, left)
  OBVIOUS
<1>2. wave_events' = wave_events
  BY <1>0, <1>1 DEF StopOneThread, StopVanishedWave
<1>3. \A w \in Waves, ws \in Statuses : Queued(w, ws)' <=> Queued(w, ws)
  BY <1>2, QueuedSame
<1>4. \A w \in Waves \ {v} : SameWave(w)
  BY <1>t, <1>1, <1>3 DEF SameWave, TypeOK, StopOneThread, StopVanishedWave
<1>5. \A w \in Waves \ {v} : WaveInv(w)'
  BY <1>4, WaveFrame
<1>6. WaveInv(v)'
  <2>0. /\ wave'[v] = wave[v] /\ stop_reason'[v] = stop_reason[v] /\ raised'[v] = raised[v]
        /\ last_resume_mode' = last_resume_mode /\ executing' = executing
        /\ changed' = changed /\ v \notin stop_requested /\ Listed(v)
        /\ \A ws \in Statuses : Queued(v, ws)' <=> Queued(v, ws)
    BY <1>3
  <2>1. CASE /\ wave[v] = "stop"
             /\ UNCHANGED <<command, stopping, wave_events, thread>>
    <3>1. /\ v \in stop_requested'
          /\ pending_waitstatus'[v] = pending_waitstatus[v]
             \/ (v \notin executing /\ pending_waitstatus'[v] = "GDB_SIGNAL_0")
      BY <1>t, <2>1 DEF TypeOK
    <3> QED BY <2>0, <2>1, <3>1
            DEF WaveInv, EventInv, CommandInv, ThreadInv, TrapInv, Listed, Kept,
                InFlight, ExitInFlight, Statuses, Stops
  <2>2. CASE /\ wave[v] = "run"
             /\ command' = [command EXCEPT ![v] = @ \cup {"stop"}]
             /\ stopping' = stopping \cup {v}
             /\ UNCHANGED <<wave_events, thread>>
    <3>1. v \in executing
      BY <2>0, <2>2 DEF WaveInv, CommandInv
    <3>2. /\ v \in stop_requested' /\ command'[v] = command[v] \cup {"stop"}
          /\ pending_waitstatus'[v] = pending_waitstatus[v]
      BY <1>t, <2>2, <3>1 DEF TypeOK
    <3> QED BY <2>0, <2>2, <3>1, <3>2
            DEF WaveInv, EventInv, CommandInv, ThreadInv, TrapInv, Listed, Kept,
                InFlight, ExitInFlight, Statuses, Stops
  <2>3. CASE /\ wave[v] = "gone" /\ last_resume_mode[v] = "step"
             /\ UNCHANGED <<command, wave_events, thread>>
             /\ stopping' = stopping \cup {v}
    <3>1. v \in stop_requested' /\ pending_waitstatus'[v] = pending_waitstatus[v]
      BY <1>t, <2>0, <2>3 DEF TypeOK, WaveInv, ThreadInv
    <3> QED BY <2>0, <2>3, <3>1
            DEF WaveInv, EventInv, CommandInv, ThreadInv, TrapInv, Listed, Kept,
                InFlight, ExitInFlight, Statuses, Stops
  <2>4. CASE /\ wave[v] = "gone" /\ last_resume_mode[v] = "normal"
             /\ thread' = [thread EXCEPT ![v] = left]
             /\ UNCHANGED command
    <3>1. thread'[v] = left /\ pending_waitstatus'[v] = "none"
      BY <1>t, <2>0, <2>4 DEF TypeOK, Listed
    <3>2. ~ExitInFlight(v)
      BY <2>0, <2>4 DEF WaveInv, EventInv
    <3> QED BY <2>0, <2>4, <3>1, <3>2
            DEF WaveInv, EventInv, CommandInv, ThreadInv, TrapInv, Listed, Kept,
                InFlight, ExitInFlight, Statuses, Stops
  <2> QED BY <1>0, <1>1, <2>1, <2>2, <2>3, <2>4 DEF StopOneThread, StopVanishedWave
<1>7. LoopInv'
  BY DEF LoopInv
<1>8. QueueInv'
  BY <1>2 DEF QueueInv
<1> QED BY <1>5, <1>6, <1>7, <1>8

\* Handling a status left pending in a thread keeps the invariant.
LEMMA HandlePendingInv ==
  ASSUME IInv, NEW v \in Waves, HandlePendingEvent(v)
  PROVE  QueueInv' /\ LoopInv' /\ \A w \in Waves : WaveInv(w)'
<1> USE DEF IInv, HandlePendingEvent, HandleStatus, AtEventLoop, lib, loop
<1>t. TypeOK
  BY DEF TypeInv
<1>1. \A w \in Waves, ws \in Statuses : Queued(w, ws)' <=> Queued(w, ws)
  BY QueuedSame
<1>2. \A w \in Waves \ {v} : SameWave(w)
  BY <1>t, <1>1 DEF SameWave, TypeOK
<1>3. \A w \in Waves \ {v} : WaveInv(w)'
  BY <1>2, WaveFrame
<1>4. WaveInv(v)'
  <2>1. raised[v] = "none" /\ \A ws \in Statuses : ~Queued(v, ws)
    BY <1>t, StoppedIsQuiet
  <2>2. /\ \/ wave[v] = "stop" /\ thread'[v] = "THREAD_STOPPED"
           \/ wave[v] = "gone" /\ thread'[v] \in {"none", "THREAD_EXITED"}
        /\ pending_waitstatus'[v] = "none" /\ v \notin executing'
    BY <1>t DEF TypeOK, WaveInv, ThreadInv
  <2>3. /\ wave' = wave /\ raised'[v] = "none" /\ command' = command
        /\ \A ws \in Statuses : ~Queued(v, ws)'
    BY <1>1, <2>1
  <2> QED BY <2>2, <2>3
          DEF WaveInv, EventInv, CommandInv, ThreadInv, TrapInv, Listed, Kept,
              InFlight, ExitInFlight, Statuses, Stops
<1>5. LoopInv'
  BY DEF LoopInv
<1>6. QueueInv'
  BY DEF QueueInv
<1> QED BY <1>3, <1>4, <1>5, <1>6

\* Handling the front of the event queue keeps the invariant.
LEMMA HandleInferiorEventInv ==
  ASSUME IInv, HandleInferiorEvent
  PROVE  QueueInv' /\ LoopInv' /\ \A w \in Waves : WaveInv(w)'
<1> USE DEF IInv, HandleInferiorEvent, HandleStatus, AtEventLoop, lib, loop
<1>t. TypeOK
  BY DEF TypeInv
<1>h. PICK v \in Waves, s \in Statuses :
        v = Head(wave_events).ptid /\ s = Head(wave_events).ws
  BY <1>t, QueuedTail
<1>1. /\ Queued(v, s)
      /\ \A w \in Waves, ws \in Statuses : Queued(w, ws)' <=> Queued(w, ws) /\ w # v
  BY <1>t, <1>h, QueuedTail
<1>0. /\ raised[v] = "none"
      /\ executing' = executing \ {v}
      /\ \/ s = "THREAD_EXITED" /\ \E left \in {"none", "THREAD_EXITED"} :
                                     thread' = [thread EXCEPT ![v] = left]
         \/ s # "THREAD_EXITED" /\ thread' = [thread EXCEPT ![v] = "THREAD_STOPPED"]
  <2>1. 1 \in 1..Len(wave_events) /\ Head(wave_events) = wave_events[1]
    BY <1>t, QueueTyping DEF TypeOK
  <2> QED BY <1>h, <2>1 DEF QueueInv
<1>2. \A w \in Waves \ {v} : SameWave(w)
  BY <1>t, <1>0, <1>1 DEF SameWave, TypeOK
<1>3. \A w \in Waves \ {v} : WaveInv(w)'
  BY <1>2, WaveFrame
<1>4. WaveInv(v)'
  <2>1. Listed(v) /\ v \in executing /\ pending_waitstatus[v] = "none"
    BY <1>1 DEF WaveInv, EventInv, ThreadInv, Listed, InFlight
  <2>2. \/ wave[v] = "stop" /\ thread'[v] = "THREAD_STOPPED"
        \/ wave[v] = "gone" /\ thread'[v] \in {"none", "THREAD_EXITED"}
    BY <1>t, <1>0, <1>1 DEF TypeOK, WaveInv, EventInv, Statuses, Stops
  <2>3. /\ wave' = wave /\ raised'[v] = "none" /\ command' = command
        /\ pending_waitstatus'[v] = "none" /\ v \notin executing'
        /\ \A ws \in Statuses : ~Queued(v, ws)'
    BY <1>0, <1>1, <2>1
  <2> QED BY <1>1, <2>2, <2>3
          DEF WaveInv, EventInv, CommandInv, ThreadInv, TrapInv, Listed, Kept,
              InFlight, ExitInFlight, Statuses, Stops
<1>5. LoopInv'
  BY DEF LoopInv
<1>6. QueueInv'
  BY <1>t, QueueInvTail
<1> QED BY <1>3, <1>4, <1>5, <1>6

\* Refreshing the thread list keeps the invariant of every wave, and leaves
\* every wave that is not gone listed.
LEMMA UpdateInv ==
  ASSUME IInv, UpdateThreadList(TRUE)
  PROVE  /\ QueueInv'
         /\ \A w \in Waves : /\ WaveInv(w)'
                             /\ wave[w] \in {"run", "stop"} => Listed(w)'
<1> USE DEF IInv
<1>t. TypeOK
  BY DEF TypeInv
<1> DEFINE new == {w \in Waves : changed /\ thread[w] = "none" /\ wave[w] \in {"run", "stop"}}
           exited == {w \in Waves : changed /\ Listed(w) /\ wave[w] = "gone" /\ ~Kept(w)}
                       \cup {w \in Waves : thread[w] = "THREAD_EXITED"}
           others(R) == [w \in Waves |-> IF w \in R THEN "THREAD_EXITED"
                           ELSE IF w \in exited THEN "none" ELSE thread[w]]
<1>1. PICK R \in SUBSET exited : AddGpuThreads(new, others(R))
  BY DEF UpdateThreadList
<1>2. /\ changed' = FALSE
      /\ UNCHANGED <<wave, stop_reason, command, raised, wave_events, pending_waitstatus>>
  BY DEF UpdateThreadList
<1>3. \A w \in Waves, ws \in Statuses : Queued(w, ws)' <=> Queued(w, ws)
  BY <1>2, QueuedSame
<1>4. ASSUME NEW w \in Waves
      PROVE  WaveInv(w)' /\ (wave[w] \in {"run", "stop"} => Listed(w)')
  <2>0. /\ wave'[w] = wave[w] /\ stop_reason'[w] = stop_reason[w]
        /\ command'[w] = command[w] /\ raised'[w] = raised[w]
        /\ pending_waitstatus'[w] = pending_waitstatus[w] /\ ~changed'
        /\ \A ws \in Statuses : Queued(w, ws)' <=> Queued(w, ws)
    BY <1>2, <1>3
  <2>1. CASE w \in new
    <3>1. /\ thread[w] = "none" /\ wave[w] \in {"run", "stop"}
          /\ thread'[w] = "THREAD_RUNNING" /\ last_resume_mode'[w] = "normal"
          /\ w \notin stopping' /\ w \notin stop_requested' /\ w \in executing'
      BY <1>1, <2>1 DEF AddGpuThreads, AddedExecuting
    <3>2. /\ command[w] = {} /\ pending_waitstatus[w] = "none"
          /\ wave[w] = "stop" => raised[w] = "WAVE_STOP"
          /\ wave[w] = "run" => raised[w] = "none"
          /\ \A ws \in Statuses : ~Queued(w, ws)
      BY <1>t, <3>1, RunningIsQuiet
         DEF WaveInv, EventInv, CommandInv, ThreadInv, Listed, TypeOK
    <3> QED BY <2>0, <3>1, <3>2
            DEF WaveInv, EventInv, CommandInv, ThreadInv, TrapInv, Listed, Kept,
                InFlight, ExitInFlight, Statuses, Stops
  <2>2. CASE w \in exited
    <3>1. wave[w] = "gone" /\ ~ExitInFlight(w)
      BY <2>2 DEF WaveInv, EventInv, ThreadInv, Listed, Kept
    <3>2. thread'[w] \in {"none", "THREAD_EXITED"}
      BY <1>1, <2>2, <3>1 DEF AddGpuThreads
    <3>3. command[w] = {}
      BY <3>1 DEF WaveInv, CommandInv
    <3>4. /\ raised[w] \in {"none", "WAVE_STOP", "WAVE_COMMAND_TERMINATED"}
          /\ \A ws \in Statuses : ~Queued(w, ws)
      BY <1>t, <3>1
         DEF TypeOK, WaveInv, EventInv, ExitInFlight, Statuses, Stops
    <3>5. ~InFlight(w)'
      BY <2>0, <3>1, <3>4 DEF WaveInv, EventInv, InFlight, ExitInFlight
    <3> QED BY <2>0, <3>1, <3>2, <3>3, <3>4, <3>5
            DEF WaveInv, EventInv, CommandInv, ThreadInv, TrapInv, Listed, Kept,
                InFlight, ExitInFlight, Statuses, Stops
  <2>3. CASE w \notin new /\ w \notin exited
    <3>1. /\ thread'[w] = thread[w] /\ last_resume_mode'[w] = last_resume_mode[w]
          /\ w \in stopping' <=> w \in stopping
          /\ w \in stop_requested' <=> w \in stop_requested
          /\ w \in executing' <=> w \in executing
      BY <1>1, <2>3 DEF AddGpuThreads, AddedExecuting
    <3>2. /\ wave[w] \in {"run", "stop"} => Listed(w)
          /\ Listed(w) /\ wave[w] = "gone" => Kept(w) \/ ~changed
      BY <1>t, <2>3 DEF WaveInv, ThreadInv, Listed, TypeOK
    <3>3. Listed(w)' <=> Listed(w)
      BY <3>1 DEF Listed
    <3>4. EventInv(w)' /\ CommandInv(w)' /\ TrapInv(w)'
      BY <2>0, <3>1, <3>3
         DEF WaveInv, EventInv, CommandInv, TrapInv, InFlight, ExitInFlight,
             Statuses, Stops
    <3>5. ThreadInv(w)'
      BY <2>0, <3>1, <3>2, <3>3
         DEF WaveInv, ThreadInv, Kept, InFlight, ExitInFlight, Statuses, Stops
    <3> QED BY <3>2, <3>3, <3>4, <3>5 DEF WaveInv
  <2> QED BY <2>1, <2>2, <2>3
<1>5. QueueInv'
  BY <1>2 DEF QueueInv
<1> QED BY <1>4, <1>5

\* Every step at the event loop keeps the invariant.
LEMMA EventLoopInv ==
  ASSUME IInv, ~RepeatInterrupt, EventLoopStep
  PROVE  QueueInv' /\ LoopInv' /\ \A w \in Waves : WaveInv(w)'
<1>1. CASE RefreshThreads
  <2>1. LoopInv'
    BY <1>1 DEF IInv, LoopInv, RefreshThreads, UpdateThreadList, AtEventLoop, loop
  <2> QED BY <1>1, <2>1, UpdateInv DEF RefreshThreads
<1> QED BY <1>1, ResumeInv, InterruptInv, HandlePendingInv, HandleInferiorEventInv
        DEF EventLoopStep

-----------------------------------------------------------------------------
(* Pulling events and stop_all_threads preserve the invariant.             *)

\* Pulling events out of the library keeps the invariant.
LEMMA DrainInv ==
  ASSUME IInv, DrainStep
  PROVE  QueueInv' /\ LoopInv' /\ \A w \in Waves : WaveInv(w)'
<1> USE DEF IInv
<1>t. TypeOK
  BY DEF TypeInv
<1>1. CASE BeginDrain \/ EndDrain
  <2>1. /\ UNCHANGED <<lib, thread, last_resume_mode, stopping, wave_events,
                       m_report_thread_events, inf, loop>>
        /\ draining' => draining \/ pc \in {"idle", "wait"}
    BY <1>1 DEF BeginDrain, EndDrain
  <2>2. \A w \in Waves : SameWave(w)
    BY <2>1, QueuedSame DEF SameWave, lib, inf
  <2>3. \A w \in Waves : WaveInv(w)'
    BY <2>1, <2>2, WaveFrame DEF lib
  <2>4. LoopInv'
    BY <2>1 DEF LoopInv, Listed, lib, inf, loop
  <2>5. QueueInv'
    BY <2>1 DEF QueueInv, lib
  <2> QED BY <2>3, <2>4, <2>5
<1>2. ASSUME NEW v \in Waves, ProcessOneEvent(v)
      PROVE  QueueInv' /\ LoopInv' /\ \A w \in Waves : WaveInv(w)'
  <2> DEFINE new == {v} \cap {w \in Waves : thread[w] = "none" /\ raised[w] = "WAVE_STOP"}
  <2>0. /\ raised[v] # "none" /\ raised' = [raised EXCEPT ![v] = "none"]
        /\ wave_events' = Append(wave_events, Event(v, WaitStatus(v)))
        /\ draining /\ draining' = draining /\ changed' = changed
        /\ UNCHANGED <<wave, stop_reason, command, pending_waitstatus, creation,
                       m_report_thread_events, loop>>
    BY <1>2 DEF ProcessOneEvent
  <2>1. /\ thread' = [w \in Waves |-> IF w \in new THEN "THREAD_RUNNING" ELSE thread[w]]
        /\ last_resume_mode' =
             [w \in Waves |-> IF w \in new THEN "normal" ELSE last_resume_mode[w]]
        /\ stopping' = stopping \ new /\ stop_requested' = stop_requested \ new
        /\ executing' = executing \cup new
    BY <1>2 DEF ProcessOneEvent, AddGpuThreads, AddedExecuting
  <2>2. PICK s \in Statuses : s = WaitStatus(v)
    BY DEF WaitStatus, Statuses, Stops
  <2>3. \A w \in Waves, ws \in Statuses :
          Queued(w, ws)' <=> Queued(w, ws) \/ (w = v /\ ws = s)
    BY <1>t, <2>0, <2>2, QueuedAppend
  <2>4. \A ws \in Statuses : ~Queued(v, ws)
    <3>1. SUFFICES ASSUME NEW ws \in Statuses, NEW i \in 1..Len(wave_events),
                          wave_events[i] = Event(v, ws)
                   PROVE  FALSE
      BY DEF Queued
    <3> QED BY <2>0, <3>1 DEF QueueInv, Event
  <2>5. \A w \in Waves \ {v} : SameWave(w)
    BY <1>t, <2>0, <2>1, <2>3 DEF SameWave, TypeOK
  <2>6. \A w \in Waves \ {v} : WaveInv(w)'
    BY <2>0, <2>5, WaveFrame
  <2>7. WaveInv(v)'
    <3>1. /\ raised'[v] = "none" /\ wave'[v] = wave[v] /\ stop_reason'[v] = stop_reason[v]
          /\ command'[v] = command[v] /\ pending_waitstatus'[v] = pending_waitstatus[v]
          /\ \A ws \in Statuses : Queued(v, ws)' <=> ws = s
      BY <1>t, <2>0, <2>3, <2>4 DEF TypeOK
    <3>2. CASE raised[v] = "WAVE_COMMAND_TERMINATED"
      <4>1. /\ s = "THREAD_EXITED"
            /\ wave[v] = "gone" /\ Listed(v) /\ v \in executing
        BY <2>2, <3>2 DEF WaitStatus, WaveInv, EventInv, InFlight, ExitInFlight, Listed
      <4>2. /\ thread'[v] = thread[v] /\ last_resume_mode'[v] = last_resume_mode[v]
            /\ v \in stopping' <=> v \in stopping
            /\ v \in stop_requested' <=> v \in stop_requested
            /\ v \in executing'
        BY <2>1, <3>2, <4>1
      <4> QED BY <2>0, <3>1, <3>2, <4>1, <4>2
              DEF WaveInv, EventInv, CommandInv, ThreadInv, TrapInv, Listed, Kept,
                  InFlight, ExitInFlight, Statuses, Stops
    <3>3. CASE raised[v] = "WAVE_STOP" /\ thread[v] = "none"
      <4>1. /\ wave[v] = "stop" /\ command[v] = {} /\ pending_waitstatus[v] = "none"
            /\ s \in Stops /\ (s = "GDB_SIGNAL_0" => stop_reason[v] = "none")
        BY <1>t, <2>2, <3>3
           DEF WaitStatus, WaveInv, EventInv, CommandInv, ThreadInv, Listed, Stops, TypeOK
      <4>2. /\ thread'[v] = "THREAD_RUNNING" /\ last_resume_mode'[v] = "normal"
            /\ v \notin stopping' /\ v \notin stop_requested' /\ v \in executing'
        BY <2>1, <3>3
      <4> QED BY <2>0, <3>1, <4>1, <4>2
              DEF WaveInv, EventInv, CommandInv, ThreadInv, TrapInv, Listed, Kept,
                  InFlight, ExitInFlight, Statuses, Stops
    <3>4. CASE raised[v] = "WAVE_STOP" /\ thread[v] # "none"
      <4>1. /\ wave[v] = "stop" /\ Listed(v) /\ v \in executing
            /\ s \in Stops /\ (s = "GDB_SIGNAL_0" => stop_reason[v] = "none")
        BY <1>t, <2>2, <3>4
           DEF WaitStatus, WaveInv, EventInv, ThreadInv, Listed, InFlight, Stops, TypeOK
      <4>2. /\ thread'[v] = thread[v] /\ last_resume_mode'[v] = last_resume_mode[v]
            /\ v \in stopping' <=> v \in stopping
            /\ v \in stop_requested' <=> v \in stop_requested
            /\ v \in executing'
        BY <2>1, <3>4, <4>1
      <4> QED BY <2>0, <3>1, <4>1, <4>2
              DEF WaveInv, EventInv, CommandInv, ThreadInv, TrapInv, Listed, Kept,
                  InFlight, ExitInFlight, Statuses, Stops
    <3> QED BY <1>t, <2>0, <3>2, <3>3, <3>4 DEF TypeOK
  <2>8. LoopInv'
    BY <2>0 DEF LoopInv, loop
  <2>9. QueueInv'
    <3>1. /\ raised'[v] = "none"
          /\ \A w \in Waves \ {v} : raised'[w] = raised[w]
      BY <1>t, <2>0 DEF TypeOK
    <3> QED BY <1>t, <2>0, <2>2, <2>4, <3>1, QueueInvAppend
  <2> QED BY <2>6, <2>7, <2>8, <2>9
<1> QED BY <1>1, <1>2 DEF DrainStep

\* Asking one thread to stop keeps the invariant: an exit is made up only for
\* a wave whose own exit event is not coming.
LEMMA VisitThreadInv ==
  ASSUME IInv, NEW v \in Waves, VisitThread(v)
  PROVE  QueueInv' /\ LoopInv' /\ \A w \in Waves : WaveInv(w)'
<1> USE DEF IInv
<1>t. TypeOK
  BY DEF TypeInv
<1>0. /\ pc = "request" /\ v \in todo /\ Listed(v) /\ m_report_thread_events
      /\ UNCHANGED <<wave, stop_reason, raised, changed, creation, last_resume_mode,
                     draining, m_report_thread_events, executing, pending_waitstatus, pc>>
      /\ todo' = todo \ {v}
      /\ waits_needed' = IF v \in executing THEN waits_needed + 1 ELSE waits_needed
  BY DEF VisitThread, NeedsWait, LoopInv
<1>l. ASSUME UNCHANGED thread PROVE LoopInv'
  BY <1>0, <1>l, <1>t DEF LoopInv, Listed, TypeOK
<1>1. CASE ~(v \in executing /\ v \notin stop_requested)
  <2>1. UNCHANGED <<command, stopping, wave_events, thread, stop_requested>>
    BY <1>1 DEF VisitThread
  <2>2. \A w \in Waves : SameWave(w)
    BY <1>0, <2>1, QueuedSame DEF SameWave
  <2>3. \A w \in Waves : WaveInv(w)'
    BY <1>0, <2>2, WaveFrame
  <2> QED BY <1>0, <1>l, <2>1, <2>3 DEF QueueInv
<1>2. CASE v \in executing /\ v \notin stop_requested
  <2>0. StopOneThread(v, "THREAD_EXITED") /\ stop_requested' = stop_requested \cup {v}
    BY <1>2 DEF VisitThread
  <2>1. CASE wave[v] = "gone" /\ last_resume_mode[v] = "normal"
    <3>1. /\ stopping' = stopping \cup {v} /\ UNCHANGED <<command, thread>>
          /\ wave_events' = Append(wave_events, Event(v, "THREAD_EXITED"))
      BY <1>0, <2>0, <2>1 DEF StopOneThread, StopVanishedWave
    <3>2. /\ ~ExitInFlight(v) /\ raised[v] = "none"
          /\ \A ws \in Statuses : ~Queued(v, ws)
      BY <1>t, <1>2, <2>1
         DEF WaveInv, EventInv, ExitInFlight, TypeOK, Statuses, Stops
    <3>3. "THREAD_EXITED" \in Statuses
      BY DEF Statuses
    <3>4. \A w \in Waves, ws \in Statuses :
            Queued(w, ws)' <=> Queued(w, ws) \/ (w = v /\ ws = "THREAD_EXITED")
      BY <1>t, <3>1, <3>3, QueuedAppend
    <3>5. \A w \in Waves \ {v} : SameWave(w)
      BY <1>0, <2>0, <3>1, <3>4 DEF SameWave
    <3>6. \A w \in Waves \ {v} : WaveInv(w)'
      BY <1>0, <3>5, WaveFrame
    <3>7. WaveInv(v)'
      <4>1. \A ws \in Statuses : Queued(v, ws)' <=> ws = "THREAD_EXITED"
        BY <3>2, <3>4
      <4>2. v \in stopping' /\ v \in stop_requested'
        BY <2>0, <3>1
      <4> QED BY <1>0, <1>2, <2>1, <3>1, <3>2, <4>1, <4>2
              DEF WaveInv, EventInv, CommandInv, ThreadInv, TrapInv, Listed, Kept,
                  InFlight, ExitInFlight, Statuses, Stops
    <3>8. QueueInv'
      BY <1>t, <1>0, <3>1, <3>2, <3>3, QueueInvAppend
    <3> QED BY <1>l, <3>1, <3>6, <3>7, <3>8
  <2>2. CASE ~(wave[v] = "gone" /\ last_resume_mode[v] = "normal")
    <3>1. /\ UNCHANGED <<wave_events, thread>>
          /\ \/ wave[v] = "stop" /\ UNCHANGED <<command, stopping>>
             \/ /\ wave[v] = "run" /\ stopping' = stopping \cup {v}
                /\ command' = [command EXCEPT ![v] = @ \cup {"stop"}]
             \/ /\ wave[v] = "gone" /\ last_resume_mode[v] = "step"
                /\ stopping' = stopping \cup {v} /\ UNCHANGED command
      BY <2>0, <2>2 DEF StopOneThread, StopVanishedWave
    <3>2. \A w \in Waves, ws \in Statuses : Queued(w, ws)' <=> Queued(w, ws)
      BY <3>1, QueuedSame
    <3>3. \A w \in Waves \ {v} : SameWave(w)
      BY <1>t, <1>0, <2>0, <3>1, <3>2 DEF SameWave, TypeOK
    <3>4. \A w \in Waves \ {v} : WaveInv(w)'
      BY <1>0, <3>3, WaveFrame
    <3>5. WaveInv(v)'
      <4>1. v \in stop_requested'
        BY <2>0
      <4>2. wave[v] = "run" => command'[v] = command[v] \cup {"stop"}
        BY <1>t, <3>1 DEF TypeOK
      <4> QED BY <1>0, <1>2, <3>1, <3>2, <4>1, <4>2
              DEF WaveInv, EventInv, CommandInv, ThreadInv, TrapInv, Listed, Kept,
                  InFlight, ExitInFlight, Statuses, Stops
    <3>6. QueueInv'
      BY <1>0, <3>1 DEF QueueInv
    <3> QED BY <1>l, <3>1, <3>4, <3>5, <3>6
  <2> QED BY <2>1, <2>2
<1> QED BY <1>1, <1>2

\* Recording an awaited event keeps the invariant.
LEMMA HandleOneInv ==
  ASSUME IInv, HandleOne
  PROVE  QueueInv' /\ LoopInv' /\ \A w \in Waves : WaveInv(w)'
<1> USE DEF IInv
<1>t. TypeOK
  BY DEF TypeInv
<1>u. /\ pc = "wait" /\ wave_events # <<>> /\ wave_events' = Tail(wave_events)
      /\ UNCHANGED <<lib, thread, last_resume_mode, stopping, draining,
                     m_report_thread_events>>
      /\ ~draining /\ pc' \in {"update", "wait"}
  BY DEF HandleOne, WaitOne
<1>h. PICK v \in Waves, s \in Statuses :
        v = Head(wave_events).ptid /\ s = Head(wave_events).ws
  BY <1>t, <1>u, QueuedTail
<1>1. /\ Queued(v, s)
      /\ \A w \in Waves, ws \in Statuses : Queued(w, ws)' <=> Queued(w, ws) /\ w # v
  BY <1>t, <1>u, <1>h, QueuedTail
<1>2. Listed(v) /\ v \in executing /\ pending_waitstatus[v] = "none"
  BY <1>1 DEF WaveInv, EventInv, ThreadInv, Listed, InFlight
<1>3. raised[v] = "none"
  <2>1. 1 \in 1..Len(wave_events) /\ Head(wave_events) = wave_events[1]
    BY <1>t, <1>u, QueueTyping DEF TypeOK
  <2> QED BY <1>h, <2>1 DEF QueueInv
<1>4. /\ executing' = executing \ {v}
      /\ stop_requested' = stop_requested \ {v}
      /\ pending_waitstatus' = [pending_waitstatus EXCEPT ![v] = SavedWaitStatus(v, s)]
  BY <1>h, <1>2 DEF HandleOne, Listed
<1>5. \A w \in Waves \ {v} : SameWave(w)
  BY <1>t, <1>u, <1>1, <1>4 DEF SameWave, TypeOK, lib
<1>6. \A w \in Waves \ {v} : WaveInv(w)'
  BY <1>u, <1>5, WaveFrame DEF lib
<1>7. WaveInv(v)'
  <2>1. /\ wave' = wave /\ raised'[v] = "none" /\ command' = command /\ thread' = thread
        /\ stop_reason' = stop_reason /\ last_resume_mode' = last_resume_mode
        /\ stopping' = stopping /\ v \notin executing' /\ v \notin stop_requested'
        /\ \A ws \in Statuses : ~Queued(v, ws)'
    BY <1>u, <1>1, <1>3, <1>4 DEF lib
  <2>2. pending_waitstatus'[v] = IF s = "GDB_SIGNAL_0" THEN "none" ELSE s
    BY <1>t, <1>2, <1>4 DEF TypeOK, SavedWaitStatus
  <2>3. \/ s = "GDB_SIGNAL_0" /\ wave[v] = "stop" /\ stop_reason[v] = "none"
        \/ s = "GDB_SIGNAL_TRAP" /\ wave[v] = "stop"
        \/ s = "THREAD_EXITED" /\ wave[v] = "gone" /\ Kept(v)
    BY <1>1 DEF WaveInv, EventInv, ExitInFlight, Kept, Statuses, Stops
  <2> QED BY <1>2, <2>1, <2>2, <2>3
          DEF WaveInv, EventInv, CommandInv, ThreadInv, TrapInv, Listed, Kept,
              InFlight, ExitInFlight, Statuses, Stops
<1>8. LoopInv'
  BY <1>u DEF LoopInv, lib
<1>9. QueueInv'
  BY <1>t, <1>u, QueueInvTail DEF lib
<1> QED BY <1>6, <1>7, <1>8, <1>9

\* Every step of stop_all_threads keeps the invariant.
LEMMA StopAllInv ==
  ASSUME IInv, TargetAtFirst, StopAllStep
  PROVE  QueueInv' /\ LoopInv' /\ \A w \in Waves : WaveInv(w)'
<1>1. CASE BeginStopAll \/ EndRequests
  <2>1. UNCHANGED <<wave, stop_reason, command, raised, changed, thread,
                    last_resume_mode, stopping, wave_events, draining, inf>>
    BY <1>1 DEF BeginStopAll, EndRequests, lib
  <2>2. \A w \in Waves : SameWave(w)
    BY <2>1, QueuedSame DEF SameWave, inf
  <2>3. \A w \in Waves : WaveInv(w)'
    BY <2>1, <2>2, WaveFrame DEF IInv
  <2>4. LoopInv'
    <3>1. CASE BeginStopAll
      <4>1. m_report_thread_events' = TRUE
        BY <3>1, SessionAssumption DEF BeginStopAll, EnableThreadEvents
      <4>2. pc = "idle" /\ pc' = "update" /\ ~draining' /\ creation' = "stop"
        BY <3>1 DEF BeginStopAll, AtEventLoop, PreventNewThreads
      <4> QED BY <4>1, <4>2 DEF LoopInv
    <3>2. CASE EndRequests
      <4>1. pc = "request" /\ pc' \in {"idle", "update", "wait"}
        BY <3>2 DEF EndRequests, WaitOne
      <4>2. UNCHANGED <<creation, draining>>
        BY <3>2 DEF EndRequests, lib
      <4>3. IF pc' = "idle" THEN m_report_thread_events' = FALSE
            ELSE UNCHANGED m_report_thread_events
        BY <3>2 DEF EndRequests, WaitOne
      <4> QED BY <4>1, <4>2, <4>3 DEF IInv, LoopInv
    <3> QED BY <1>1, <3>1, <3>2
  <2>5. QueueInv'
    BY <2>1 DEF IInv, QueueInv
  <2> QED BY <2>3, <2>4, <2>5
<1>2. CASE StopAllUpdate
  <2>1. QueueInv' /\ \A w \in Waves : /\ WaveInv(w)'
                                      /\ wave[w] \in {"run", "stop"} => Listed(w)'
    BY <1>2, UpdateInv DEF StopAllUpdate
  <2>2. /\ pc = "update" /\ pc' = "request" /\ waits_needed' = 0
        /\ todo' = {w \in Waves : thread'[w] \in {"THREAD_RUNNING", "THREAD_STOPPED"}}
        /\ UNCHANGED <<wave, creation, draining, m_report_thread_events>>
    BY <1>2 DEF StopAllUpdate, UpdateThreadList
  <2>3. LoopInv'
    BY <2>1, <2>2 DEF IInv, LoopInv, Listed
  <2> QED BY <2>1, <2>3
<1> QED BY <1>1, <1>2, VisitThreadInv, HandleOneInv DEF StopAllStep

-----------------------------------------------------------------------------
(* The theorems.                                                           *)

\* The invariant holds initially.
LEMMA InitInv == Init => IInv
<1> SUFFICES ASSUME Init PROVE IInv
  OBVIOUS
<1>1. TypeInv
  BY InitTyping
<1>2. wave_events = <<>> /\ Len(wave_events) = 0
  BY DEF Init
<1>3. \A w \in Waves, ws \in Statuses : ~Queued(w, ws)
  BY <1>2 DEF Queued
<1>4. QueueInv
  BY <1>2 DEF QueueInv
<1>5. LoopInv
  BY DEF Init, LoopInv
<1>6. ASSUME NEW w \in Waves PROVE WaveInv(w)
  <2>1. /\ wave[w] = "unborn" /\ command[w] = {} /\ raised[w] = "none"
        /\ thread[w] = "none" /\ pending_waitstatus[w] = "none"
    BY DEF Init
  <2> QED BY <1>3, <2>1
          DEF WaveInv, EventInv, CommandInv, ThreadInv, TrapInv, Listed, Kept,
              InFlight, ExitInFlight, Statuses, Stops
<1> QED BY <1>1, <1>4, <1>5, <1>6 DEF IInv

\* Every step keeps the invariant.
LEMMA StepInv == ASSUME ~RepeatInterrupt, TargetAtFirst PROVE IInv /\ [Next]_vars => IInv'
<1> SUFFICES ASSUME IInv, [Next]_vars PROVE IInv'
  OBVIOUS
<1>1. TypeInv'
  BY TypeStep DEF IInv
<1>2. CASE UNCHANGED vars
  <2>1. \A w \in Waves : SameWave(w)
    BY <1>2, QueuedSame DEF SameWave, vars, lib, tgt, inf
  <2>2. \A w \in Waves : WaveInv(w)'
    BY <1>2, <2>1, WaveFrame DEF IInv, vars, lib
  <2>3. QueueInv' /\ LoopInv'
    BY <1>2 DEF IInv, QueueInv, LoopInv, Listed, vars, lib, tgt, inf, loop
  <2> QED BY <1>1, <2>2, <2>3 DEF IInv
<1> QED BY <1>1, <1>2, LibraryInv, EventLoopInv, DrainInv, StopAllInv DEF Next, IInv

\* The inductive invariant holds of every behaviour in which a thread being
\* stopped is not interrupted again and the first inferior has the target.
THEOREM Invariance ==
  ASSUME ~RepeatInterrupt, TargetAtFirst PROVE Spec => []IInv
BY InitInv, StepInv, PTL DEF Spec

\* An exit on its way to infrun always finds the thread and the wave_info of
\* its wave, so amd_dbgapi_thread_deleted's assertion holds.
THEOREM ExitsHaveThreads ==
  ASSUME ~RepeatInterrupt, TargetAtFirst PROVE Spec => []ExitHasThread
<1>1. IInv => ExitHasThread
  BY DEF IInv, WaveInv, EventInv, ExitHasThread, Listed
<1> QED BY <1>1, Invariance, PTL

\* No stop or exit is reported twice.
THEOREM EventsAreReportedOnce ==
  ASSUME ~RepeatInterrupt, TargetAtFirst PROVE Spec => []ReportedOnce
<1>1. IInv => ReportedOnce
  BY DEF IInv, QueueInv, WaveInv, EventInv, ReportedOnce, Listed
<1> QED BY <1>1, Invariance, PTL

\* GDB never takes a running wave for stopped.
THEOREM StoppedThreadsAreStopped ==
  ASSUME ~RepeatInterrupt, TargetAtFirst PROVE Spec => []StoppedMeansStopped
<1>1. IInv => StoppedMeansStopped
  BY DEF IInv, WaveInv, ThreadInv, StoppedMeansStopped
<1> QED BY <1>1, Invariance, PTL

\* No thread is left executing for a wave that no event and no refresh will
\* ever resolve.
THEOREM NoThreadIsForgotten ==
  ASSUME ~RepeatInterrupt, TargetAtFirst PROVE Spec => []ExecutingIsNotForgotten
<1>1. IInv => ExecutingIsNotForgotten
  <2> SUFFICES ASSUME IInv, NEW w \in Waves, Listed(w), w \in executing
               PROVE  \/ wave[w] = "run"
                      \/ InFlight(w)
                      \/ wave[w] = "gone" /\ changed /\ ~Kept(w)
    BY DEF ExecutingIsNotForgotten
  <2>1. wave[w] \in {"run", "stop", "gone"}
    BY DEF IInv, TypeInv, TypeOK, WaveInv, ThreadInv, Listed
  <2>2. ExitInFlight(w) => InFlight(w)
    BY DEF ExitInFlight, InFlight, Statuses
  <2> QED BY <2>1, <2>2 DEF IInv, WaveInv, ThreadInv
<1> QED BY <1>1, Invariance, PTL

\* No trap is lost between the wave and infrun.
THEOREM TrapsAreNotLost ==
  ASSUME ~RepeatInterrupt, TargetAtFirst PROVE Spec => []TrapNotLost
<1>1. IInv => TrapNotLost
  BY DEF IInv, WaveInv, TrapInv, TrapNotLost
<1> QED BY <1>1, Invariance, PTL

\* When stop_all_threads returns no wave runs.
THEOREM StopAllStopsAll ==
  ASSUME ~RepeatInterrupt, TargetAtFirst PROVE Spec => AllStoppedOnReturn
<1>1. IInv /\ [Next]_vars =>
        [pc # "idle" /\ pc' = "idle" => \A w \in Waves : wave[w] # "run"]_vars
  <2> SUFFICES ASSUME IInv, Next, pc # "idle", pc' = "idle", NEW w \in Waves,
                      wave[w] = "run"
               PROVE  FALSE
    BY DEF vars, loop
  <2>1. EndRequests
    BY DEF Next, LibraryStep, WaveStart, WaveTraps, StopCompletes, Halt,
           WaveTerminates, EventLoopStep, Resume, Interrupt, HandlePendingEvent,
           RefreshThreads, HandleInferiorEvent, DrainStep, BeginDrain,
           ProcessOneEvent, EndDrain, StopAllStep, BeginStopAll, StopAllUpdate,
           VisitThread, HandleOne, WaitOne, AtEventLoop, loop
  <2>2. pc = "request" /\ todo = {} /\ waits_needed = 0
    BY <2>1 DEF EndRequests, WaitOne
  <2>3. Listed(w) /\ w \notin executing
    BY <2>2 DEF IInv, LoopInv
  <2> QED BY <2>3 DEF IInv, WaveInv, ThreadInv
<1> QED BY <1>1, Invariance, PTL DEF Spec, AllStoppedOnReturn

=============================================================================
