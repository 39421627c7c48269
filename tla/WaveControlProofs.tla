------------------------- MODULE WaveControlProofs -------------------------
(***************************************************************************)
(* What the rest of GDB may rely on, proved of AmdDbgapiTarget: that       *)
(* stop_all_threads waits only for what it is owed, and that every step    *)
(* is a step of WaveControl, or none.                                      *)
(***************************************************************************)
EXTENDS AmdDbgapiTargetProofs, FiniteSetTheorems

(***************************************************************************)
(* The waits of stop_all_threads.                                          *)
(***************************************************************************)

\* The threads stop_all_threads has visited and waits for.
Debtors == Awaited \ todo

\* Each turn of the request loop that counts a wait leaves one debtor more;
\* each turn of the wait loop takes one of both.
WaitInv ==
  /\ pc = "wait" => todo = {}
  /\ pc \in {"request", "wait"} => waits_needed <= Cardinality(Debtors)

\* The debtors are waves, and there are finitely many of those.
LEMMA DebtorsFinite == IsFiniteSet(Debtors) /\ Cardinality(Debtors) \in Nat
<1>1. Debtors \in SUBSET Waves
  BY DEF Debtors, Awaited
<1> QED BY <1>1, WavesAssumption, FS_Subset, FS_CardinalityType

\* A step after which there are no fewer debtors keeps a bound by their number.
LEMMA DebtorsGrow ==
  ASSUME Debtors \subseteq Debtors', todo' = todo, waits_needed' = waits_needed,
         pc' = pc, WaitInv, TypeOK
  PROVE  WaitInv'
<1>1. IsFiniteSet(Debtors') /\ Cardinality(Debtors') \in Nat
  <2>1. Debtors' \in SUBSET Waves
    BY DEF Debtors, Awaited
  <2> QED BY <2>1, WavesAssumption, FS_Subset, FS_CardinalityType
<1>2. Cardinality(Debtors) <= Cardinality(Debtors')
  BY <1>1, FS_Subset
<1> QED BY <1>1, <1>2, DebtorsFinite DEF WaitInv, TypeOK

\* Visiting a thread: a counted wait is a new debtor.
LEMMA VisitWait ==
  ASSUME IInv, WaitInv, NEW v \in Waves, VisitThread(v)
  PROVE  WaitInv'
<1>0. /\ pc = "request" /\ pc' = "request" /\ v \in todo /\ todo' = todo \ {v}
      /\ Listed(v) /\ m_report_thread_events /\ executing' = executing
      /\ waits_needed' = IF v \in executing THEN waits_needed + 1 ELSE waits_needed
  BY DEF VisitThread, NeedsWait, IInv, LoopInv
<1>1. thread' = thread /\ stop_requested \subseteq stop_requested'
      /\ (v \in executing => v \in stop_requested')
  BY <1>0 DEF VisitThread, StopOneThread, StopVanishedWave
<1>2. Debtors \subseteq Debtors'
  BY <1>0, <1>1 DEF Debtors, Awaited, Listed
<1>3. v \in executing => Debtors \cup {v} \subseteq Debtors'
  BY <1>0, <1>1, <1>2 DEF Debtors, Awaited, Listed
<1>4. v \notin Debtors
  BY <1>0 DEF Debtors
<1>5. IsFiniteSet(Debtors') /\ Cardinality(Debtors') \in Nat
  <2>1. Debtors' \in SUBSET Waves
    BY DEF Debtors, Awaited
  <2> QED BY <2>1, WavesAssumption, FS_Subset, FS_CardinalityType
<1>6. waits_needed \in Nat /\ waits_needed <= Cardinality(Debtors)
  BY <1>0 DEF WaitInv, IInv, TypeInv, TypeOK
<1>7. CASE v \in executing
  <2>1. Cardinality(Debtors \cup {v}) = Cardinality(Debtors) + 1
    BY <1>4, DebtorsFinite, FS_AddElement
  <2>2. Cardinality(Debtors \cup {v}) <= Cardinality(Debtors')
    BY <1>3, <1>5, <1>7, FS_Subset
  <2>3. waits_needed' <= Cardinality(Debtors')
    BY <1>0, <1>5, <1>6, <1>7, <2>1, <2>2, DebtorsFinite
  <2> QED BY <1>0, <2>3 DEF WaitInv
<1>8. CASE v \notin executing
  <2>1. Cardinality(Debtors) <= Cardinality(Debtors')
    BY <1>2, <1>5, FS_Subset
  <2>2. waits_needed' <= Cardinality(Debtors')
    BY <1>0, <1>5, <1>6, <1>8, <2>1, DebtorsFinite
  <2> QED BY <1>0, <2>2 DEF WaitInv
<1> QED BY <1>7, <1>8

\* Handling an awaited event: one debtor less, and one wait less.
LEMMA HandleOneWait ==
  ASSUME IInv, WaitInv, TargetAtFirst, HandleOne
  PROVE  WaitInv'
<1> DEFINE v == Head(wave_events).ptid
<1>0. /\ pc = "wait" /\ todo = {} /\ todo' = todo /\ thread' = thread
      /\ waits_needed' = waits_needed - 1 /\ pc' \in {"update", "wait"}
  BY DEF HandleOne, WaitOne, WaitInv
<1>1. executing \ {v} \subseteq executing' /\ stop_requested \ {v} \subseteq stop_requested'
  BY DEF HandleOne, inf
<1> HIDE DEF v
<1>2. Debtors \ {v} \subseteq Debtors'
  BY <1>0, <1>1 DEF Debtors, Awaited, Listed
<1>3. IsFiniteSet(Debtors') /\ Cardinality(Debtors') \in Nat
  <2>1. Debtors' \in SUBSET Waves
    BY DEF Debtors, Awaited
  <2> QED BY <2>1, WavesAssumption, FS_Subset, FS_CardinalityType
<1>4. Cardinality(Debtors \ {v}) >= Cardinality(Debtors) - 1
  BY DebtorsFinite, FS_RemoveElement
<1>5. Cardinality(Debtors \ {v}) <= Cardinality(Debtors')
  BY <1>2, <1>3, FS_Subset
<1>6. Cardinality(Debtors \ {v}) \in Nat
  BY DebtorsFinite, FS_RemoveElement, FS_CardinalityType
<1>7. waits_needed \in Nat /\ waits_needed <= Cardinality(Debtors)
  BY <1>0 DEF WaitInv, IInv, TypeInv, TypeOK
<1>8. waits_needed' <= Cardinality(Debtors')
  BY <1>0, <1>3, <1>4, <1>5, <1>6, <1>7, DebtorsFinite
<1> QED BY <1>0, <1>8 DEF WaitInv

\* Every step keeps the bound.
LEMMA WaitStep ==
  ASSUME TargetAtFirst PROVE IInv /\ WaitInv /\ [Next]_vars => WaitInv'
<1> SUFFICES ASSUME IInv, WaitInv, [Next]_vars PROVE WaitInv'
  OBVIOUS
<1>t. TypeOK
  BY DEF IInv, TypeInv
<1>1. CASE LibraryStep \/ UNCHANGED vars \/ BeginDrain \/ EndDrain
  <2>1. UNCHANGED <<thread, executing, stop_requested, loop>>
    BY <1>1 DEF LibraryStep, WaveStart, WaveTraps, StopCompletes, Halt, WaveTerminates,
                BeginDrain, EndDrain, vars, tgt, inf
  <2>2. Debtors' = Debtors
    BY <2>1 DEF Debtors, Awaited, Listed, loop
  <2> QED BY <1>t, <2>1, <2>2, DebtorsGrow DEF loop
<1>2. ASSUME NEW v \in Waves, ProcessOneEvent(v) PROVE WaitInv'
  <2> DEFINE new == {v} \cap {w \in Waves : thread[w] = "none" /\ raised[w] = "WAVE_STOP"}
  <2>1. AddGpuThreads(new, thread) /\ UNCHANGED loop
    BY <1>2 DEF ProcessOneEvent
  <2>2. \A w \in new : ~Listed(w)
    BY DEF Listed
  <2> HIDE DEF new
  <2>3. Debtors \subseteq Debtors'
    BY <2>1, <2>2 DEF AddGpuThreads, AddedExecuting, Debtors, Awaited, Listed, loop
  <2> QED BY <1>t, <2>1, <2>3, DebtorsGrow DEF loop
<1>3. CASE EventLoopStep \/ BeginStopAll
  <2>1. pc' \in {"idle", "update"}
    BY <1>3 DEF EventLoopStep, Resume, Interrupt, HandlePendingEvent, RefreshThreads,
                HandleInferiorEvent, BeginStopAll, AtEventLoop, loop
  <2> QED BY <2>1 DEF WaitInv
<1>4. CASE StopAllUpdate
  <2>1. pc' = "request" /\ waits_needed' = 0
    BY <1>4 DEF StopAllUpdate
  <2>2. Debtors' \in SUBSET Waves
    BY DEF Debtors, Awaited
  <2>3. Cardinality(Debtors') \in Nat
    BY <2>2, WavesAssumption, FS_Subset, FS_CardinalityType
  <2> QED BY <2>1, <2>3 DEF WaitInv
<1>5. CASE EndRequests
  <2>1. /\ pc = "request" /\ todo = {} /\ pc' \in {"idle", "update", "wait"}
        /\ UNCHANGED <<thread, executing, stop_requested, todo, waits_needed>>
    BY <1>5 DEF EndRequests, WaitOne, inf
  <2>2. Debtors' = Debtors
    BY <2>1 DEF Debtors, Awaited, Listed
  <2> QED BY <2>1, <2>2 DEF WaitInv
<1> QED BY <1>1, <1>2, <1>3, <1>4, <1>5, VisitWait, HandleOneWait
        DEF Next, DrainStep, StopAllStep

\* stop_all_threads never waits for more stops than there are threads that owe
\* it one, and each of these is being stopped or has its event on the way.
THEOREM WaitsOwed ==
  ASSUME ~RepeatInterrupt, TargetAtFirst PROVE Spec => []WaitsAreOwed
<1>1. Init => WaitInv
  BY DEF Init, WaitInv
<1>2. IInv /\ WaitInv => WaitsAreOwed
  <2> SUFFICES ASSUME IInv, WaitInv PROVE WaitsAreOwed
    OBVIOUS
  <2>1. pc = "wait" => waits_needed <= Cardinality(Awaited)
    <3> SUFFICES ASSUME pc = "wait" PROVE waits_needed <= Cardinality(Awaited)
      OBVIOUS
    <3>1. Debtors = Awaited
      BY DEF WaitInv, Debtors
    <3> QED BY <3>1 DEF WaitInv
  <2>2. ASSUME NEW w \in Awaited PROVE "stop" \in command[w] \/ InFlight(w)
    <3>1. w \in Waves /\ Listed(w) /\ w \in executing /\ w \in stop_requested
      BY DEF Awaited
    <3>2. wave[w] \in {"run", "stop", "gone"}
      BY <3>1 DEF IInv, TypeInv, TypeOK, WaveInv, ThreadInv, Listed
    <3>3. ExitInFlight(w) => InFlight(w)
      BY DEF ExitInFlight, InFlight, Statuses
    <3> QED BY <3>1, <3>2, <3>3 DEF IInv, WaveInv, ThreadInv, CommandInv, Kept
  <2> QED BY <2>1, <2>2 DEF WaitsAreOwed
<1> QED BY <1>1, <1>2, Invariance, WaitStep, PTL DEF Spec

-----------------------------------------------------------------------------
(***************************************************************************)
(* The refinement.  A step of the detailed specification moves the status  *)
(* of one wave along an edge of WaveControl, or lets several waves exit,   *)
(* or moves none.                                                          *)
(***************************************************************************)

\* WaveStatus of one wave.
StatusOf(w) ==
  IF Listed(w) /\ w \in executing
  THEN IF w \in stop_requested THEN "asked" ELSE "running"
  ELSE IF Listed(w)
  THEN IF pending_waitstatus[w] = "THREAD_EXITED" THEN "exited" ELSE "stopped"
  ELSE IF wave[w] = "unborn" THEN "none"
  ELSE IF wave[w] = "gone" THEN "exited" ELSE "running"

\* The moves WaveControl allows a wave.
Moves == {<<"none", "running">>, <<"running", "asked">>, <<"running", "stopped">>,
          <<"asked", "stopped">>, <<"stopped", "running">>, <<"running", "exited">>,
          <<"asked", "exited">>}

\* No wave moves: a stuttering step.
LEMMA NoMove ==
  ASSUME \A w \in Waves : StatusOf(w)' = StatusOf(w)
  PROVE  [Promise!Next]_WaveStatus
<1>1. WaveStatus = [w \in Waves |-> StatusOf(w)]
  BY DEF WaveStatus, StatusOf
<1>2. WaveStatus' = [w \in Waves |-> StatusOf(w)']
  BY DEF WaveStatus, StatusOf
<1>3. WaveStatus' = WaveStatus
  BY <1>1, <1>2
<1> QED BY <1>3

\* Several waves exit.
LEMMA ExitMove ==
  ASSUME NEW S \in SUBSET Waves,
         \A w \in S : StatusOf(w) \in {"running", "asked"} /\ StatusOf(w)' = "exited",
         \A w \in Waves \ S : StatusOf(w)' = StatusOf(w)
  PROVE  [Promise!Next]_WaveStatus
<1>1. WaveStatus = [w \in Waves |-> StatusOf(w)]
  BY DEF WaveStatus, StatusOf
<1>2. WaveStatus' = [w \in Waves |-> StatusOf(w)']
  BY DEF WaveStatus, StatusOf
<1>3. CASE S = {}
  BY <1>3, NoMove
<1>4. CASE S # {}
  <2>1. \A w \in S : WaveStatus[w] \in {"running", "asked"}
    BY <1>1
  <2>2. WaveStatus' = [w \in Waves |-> IF w \in S THEN "exited" ELSE WaveStatus[w]]
    BY <1>1, <1>2
  <2>3. Promise!Exit(S)
    BY <1>4, <2>1, <2>2 DEF Promise!Exit
  <2> QED BY <2>3 DEF Promise!Next
<1> QED BY <1>3, <1>4

\* One wave moves along an edge.
LEMMA OneMove ==
  ASSUME NEW v \in Waves,
         <<StatusOf(v), StatusOf(v)'>> \in Moves,
         \A w \in Waves \ {v} : StatusOf(w)' = StatusOf(w)
  PROVE  [Promise!Next]_WaveStatus
<1>1. WaveStatus = [w \in Waves |-> StatusOf(w)]
  BY DEF WaveStatus, StatusOf
<1>2. WaveStatus' = [w \in Waves |-> StatusOf(w)']
  BY DEF WaveStatus, StatusOf
<1>3. WaveStatus' = [WaveStatus EXCEPT ![v] = StatusOf(v)']
  BY <1>1, <1>2
<1>4. WaveStatus[v] = StatusOf(v)
  BY <1>1
<1>5. CASE StatusOf(v) = "none" /\ StatusOf(v)' = "running"
  BY <1>3, <1>4, <1>5 DEF Promise!Next, Promise!Start
<1>6. CASE StatusOf(v) = "running" /\ StatusOf(v)' = "asked"
  BY <1>3, <1>4, <1>6 DEF Promise!Next, Promise!Ask
<1>7. CASE StatusOf(v) \in {"running", "asked"} /\ StatusOf(v)' = "stopped"
  BY <1>3, <1>4, <1>7 DEF Promise!Next, Promise!Stop
<1>8. CASE StatusOf(v) = "stopped" /\ StatusOf(v)' = "running"
  BY <1>3, <1>4, <1>8 DEF Promise!Next, Promise!Resume
<1>9. CASE StatusOf(v) \in {"running", "asked"} /\ StatusOf(v)' = "exited"
  <2>1. /\ {v} \in SUBSET Waves
        /\ \A w \in {v} : StatusOf(w) \in {"running", "asked"} /\ StatusOf(w)' = "exited"
    BY <1>9
  <2> QED BY <2>1, ExitMove
<1> QED BY <1>5, <1>6, <1>7, <1>8, <1>9 DEF Moves

\* A wave of which nothing has changed that its status depends on.
LEMMA SameStatus ==
  ASSUME NEW w \in Waves, wave'[w] = wave[w], thread'[w] = thread[w],
         pending_waitstatus'[w] = pending_waitstatus[w],
         w \in executing' <=> w \in executing,
         w \in stop_requested' <=> w \in stop_requested
  PROVE  StatusOf(w)' = StatusOf(w)
BY DEF StatusOf, Listed

\* A wave starts: Start.  A wave halts or ends: what GDB believes does not
\* change, unless GDB has not listed the wave.
LEMMA LibraryMoves ==
  ASSUME IInv, LibraryStep PROVE [Promise!Next]_WaveStatus
<1>t. TypeOK
  BY DEF IInv, TypeInv
<1>1. PICK v \in Waves : WaveStart(v) \/ WaveTraps(v) \/ StopCompletes(v) \/ WaveTerminates(v)
  BY DEF LibraryStep
<1>2. UNCHANGED <<thread, executing, stop_requested, pending_waitstatus>>
  BY <1>1 DEF WaveStart, WaveTraps, StopCompletes, Halt, WaveTerminates, tgt, inf
<1>3. \A w \in Waves \ {v} : wave'[w] = wave[w]
  BY <1>1, <1>t DEF WaveStart, WaveTraps, StopCompletes, Halt, WaveTerminates, TypeOK
<1>4. \A w \in Waves \ {v} : StatusOf(w)' = StatusOf(w)
  BY <1>2, <1>3, SameStatus
<1>5. CASE WaveStart(v)
  <2>1. wave[v] = "unborn" /\ wave'[v] = "run" /\ ~Listed(v) /\ ~Listed(v)'
    BY <1>2, <1>5, <1>t DEF WaveStart, TypeOK, IInv, WaveInv, ThreadInv, Listed
  <2>2. StatusOf(v) = "none" /\ StatusOf(v)' = "running"
    BY <2>1 DEF StatusOf
  <2> QED BY <1>4, <2>2, OneMove DEF Moves
<1>6. CASE WaveTraps(v) \/ StopCompletes(v)
  <2>1. wave[v] = "run" /\ wave'[v] = "stop"
    BY <1>6, <1>t DEF WaveTraps, StopCompletes, Halt, TypeOK
  <2>2. StatusOf(v)' = StatusOf(v)
    BY <1>2, <2>1 DEF StatusOf, Listed
  <2> QED BY <1>4, <2>2, NoMove
<1>7. CASE WaveTerminates(v)
  <2>1. wave[v] = "run" /\ wave'[v] = "gone"
    BY <1>7, <1>t DEF WaveTerminates, TypeOK
  <2>2. CASE Listed(v)
    <3>1. StatusOf(v)' = StatusOf(v)
      BY <1>2, <2>1, <2>2 DEF StatusOf, Listed
    <3> QED BY <1>4, <3>1, NoMove
  <2>3. CASE ~Listed(v)
    <3>1. StatusOf(v) = "running" /\ StatusOf(v)' = "exited"
      BY <1>2, <2>1, <2>3 DEF StatusOf, Listed
    <3> QED BY <1>4, <3>1, OneMove DEF Moves
  <2> QED BY <2>2, <2>3
<1> QED BY <1>1, <1>5, <1>6, <1>7

\* update_thread_list: the waves it finds gone exit, those it lists run.
LEMMA UpdateMoves ==
  ASSUME IInv, NEW pushed \in BOOLEAN, UpdateThreadList(pushed)
  PROVE  [Promise!Next]_WaveStatus
<1> DEFINE news == pushed /\ changed
           vanished == {w \in Waves : news /\ Listed(w) /\ wave[w] = "gone" /\ ~Kept(w)}
           new == {w \in Waves : news /\ thread[w] = "none" /\ wave[w] \in {"run", "stop"}}
           exited == vanished \cup {w \in Waves : thread[w] = "THREAD_EXITED"}
           others(R) == [w \in Waves |-> IF w \in R THEN "THREAD_EXITED"
                           ELSE IF w \in exited THEN "none" ELSE thread[w]]
<1>t. TypeOK
  BY DEF IInv, TypeInv
<1>1. PICK R \in SUBSET exited : AddGpuThreads(new, others(R))
  BY DEF UpdateThreadList
<1>2. wave' = wave /\ pending_waitstatus' = pending_waitstatus
  BY DEF UpdateThreadList
<1>3. ASSUME NEW w \in vanished
      PROVE  StatusOf(w) \in {"running", "asked"} /\ StatusOf(w)' = "exited"
  <2>1. w \in executing
    BY DEF IInv, WaveInv, ThreadInv
  <2>2. ~Listed(w)' /\ wave'[w] = "gone"
    BY <1>1, <1>2 DEF AddGpuThreads, Listed
  <2> QED BY <2>1, <2>2 DEF StatusOf
<1>4. ASSUME NEW w \in Waves \ vanished PROVE StatusOf(w)' = StatusOf(w)
  <2>1. CASE w \in new
    <3>1. StatusOf(w) = "running"
      BY <2>1 DEF StatusOf, Listed
    <3>2. /\ thread'[w] = "THREAD_RUNNING" /\ w \in executing'
          /\ w \notin stop_requested'
      BY <1>1, <2>1 DEF AddGpuThreads, AddedExecuting
    <3> QED BY <3>1, <3>2 DEF StatusOf, Listed
  <2>2. CASE w \notin new
    <3>1. /\ w \in executing' <=> w \in executing
          /\ w \in stop_requested' <=> w \in stop_requested
      BY <1>1, <2>2 DEF AddGpuThreads, AddedExecuting
    <3>2. CASE thread[w] = "THREAD_EXITED"
      <4>1. ~Listed(w) /\ ~Listed(w)'
        BY <1>1, <2>2, <3>2 DEF AddGpuThreads, Listed
      <4> QED BY <1>2, <4>1 DEF StatusOf
    <3>3. CASE thread[w] # "THREAD_EXITED"
      <4>1. w \notin exited
        BY <3>3
      <4>2. thread'[w] = thread[w]
        BY <1>1, <2>2, <4>1 DEF AddGpuThreads
      <4> QED BY <1>2, <3>1, <4>2, SameStatus
    <3> QED BY <3>2, <3>3
  <2> QED BY <2>1, <2>2
<1> QED BY <1>3, <1>4, ExitMove

\* The commands and events of the event loop.
LEMMA EventLoopMoves ==
  ASSUME IInv, ~RepeatInterrupt, EventLoopStep PROVE [Promise!Next]_WaveStatus
<1>t. TypeOK
  BY DEF IInv, TypeInv
<1>1. ASSUME NEW v \in Waves, NEW mode \in {"normal", "step"}, Resume(v, mode)
      PROVE  [Promise!Next]_WaveStatus
  <2>1. /\ Listed(v) /\ v \notin executing /\ pending_waitstatus[v] = "none"
        /\ thread' = [thread EXCEPT ![v] = "THREAD_RUNNING"]
        /\ executing' = executing \cup {v} /\ stop_requested' = stop_requested \ {v}
        /\ pending_waitstatus' = pending_waitstatus
    BY <1>1 DEF Resume, Resumable
  <2>2. \A w \in Waves \ {v} : wave'[w] = wave[w]
    BY <1>1, <1>t DEF Resume, TypeOK
  <2>3. StatusOf(v) = "stopped" /\ StatusOf(v)' = "running"
    BY <2>1, <1>t DEF StatusOf, Listed, TypeOK
  <2>4. \A w \in Waves \ {v} : thread'[w] = thread[w]
    BY <2>1, <1>t DEF TypeOK
  <2>5. \A w \in Waves \ {v} : StatusOf(w)' = StatusOf(w)
    BY <2>1, <2>2, <2>4, SameStatus
  <2> QED BY <2>3, <2>5, OneMove DEF Moves
<1>2. ASSUME NEW v \in Waves, Interrupt(v) PROVE [Promise!Next]_WaveStatus
  <2>1. /\ Listed(v) /\ v \notin stop_requested
        /\ wave' = wave /\ executing' = executing
        /\ stop_requested' = IF thread'[v] = thread[v] THEN stop_requested \cup {v}
                             ELSE stop_requested \ {v}
        /\ \A w \in Waves \ {v} : pending_waitstatus'[w] = pending_waitstatus[w]
    BY <1>2, <1>t DEF Interrupt, TypeOK
  <2>2. PICK left \in {"none", "THREAD_EXITED"} : StopOneThread(v, left)
    BY <1>2 DEF Interrupt
  <2>3. \/ thread' = thread
        \/ wave[v] = "gone" /\ thread' = [thread EXCEPT ![v] = left]
    BY <2>2 DEF StopOneThread, StopVanishedWave
  <2>4. \A w \in Waves \ {v} : StatusOf(w)' = StatusOf(w)
    <3>1. \A w \in Waves \ {v} : thread'[w] = thread[w]
      BY <2>3, <1>t DEF TypeOK
    <3> QED BY <2>1, <3>1, SameStatus
  <2>5. CASE thread' = thread
    <3>1. CASE v \in executing
      <4>1. StatusOf(v) = "running" /\ StatusOf(v)' = "asked"
        BY <2>1, <2>5, <3>1 DEF StatusOf, Listed
      <4> QED BY <2>4, <4>1, OneMove DEF Moves
    <3>2. CASE v \notin executing
      <4>1. pending_waitstatus'[v] = "THREAD_EXITED" <=> pending_waitstatus[v] = "THREAD_EXITED"
        BY <1>2, <1>t, <2>5 DEF Interrupt, TypeOK
      <4>2. StatusOf(v)' = StatusOf(v)
        BY <2>1, <2>5, <3>2, <4>1 DEF StatusOf, Listed
      <4> QED BY <2>4, <4>2, NoMove
    <3> QED BY <3>1, <3>2
  <2>6. CASE wave[v] = "gone" /\ thread' = [thread EXCEPT ![v] = left]
    <3>1. StatusOf(v)' = "exited"
      <4>1. ~Listed(v)' /\ wave'[v] = "gone"
        BY <1>t, <2>1, <2>6 DEF TypeOK, Listed
      <4> QED BY <4>1 DEF StatusOf
    <3>2. CASE v \in executing
      <4>1. StatusOf(v) = "running"
        BY <2>1, <3>2 DEF StatusOf
      <4> QED BY <2>4, <3>1, <4>1, OneMove DEF Moves
    <3>3. CASE v \notin executing
      <4>1. StatusOf(v) = "exited"
        BY <2>1, <2>6, <3>3 DEF StatusOf, IInv, WaveInv, ThreadInv
      <4>2. StatusOf(v)' = StatusOf(v)
        BY <3>1, <4>1
      <4> QED BY <2>4, <4>2, NoMove
    <3> QED BY <3>2, <3>3
  <2> QED BY <2>3, <2>5, <2>6
<1>3. ASSUME NEW v \in Waves, HandlePendingEvent(v) PROVE [Promise!Next]_WaveStatus
  <2>1. /\ Listed(v) /\ v \notin executing /\ pending_waitstatus[v] # "none"
        /\ pending_waitstatus' = [pending_waitstatus EXCEPT ![v] = "none"]
        /\ executing' = executing \ {v} /\ stop_requested' = stop_requested /\ wave' = wave
    BY <1>3 DEF HandlePendingEvent, HandleStatus, lib
  <2>2. IF pending_waitstatus[v] = "THREAD_EXITED"
        THEN \E left \in {"none", "THREAD_EXITED"} : thread' = [thread EXCEPT ![v] = left]
        ELSE thread' = [thread EXCEPT ![v] = "THREAD_STOPPED"]
    BY <1>3 DEF HandlePendingEvent, HandleStatus
  <2>3. \A w \in Waves \ {v} : StatusOf(w)' = StatusOf(w)
    <3>1. \A w \in Waves \ {v} : /\ thread'[w] = thread[w]
                                 /\ pending_waitstatus'[w] = pending_waitstatus[w]
      BY <2>1, <2>2, <1>t DEF TypeOK
    <3> QED BY <2>1, <3>1, SameStatus
  <2>4. StatusOf(v)' = StatusOf(v)
    <3>1. CASE pending_waitstatus[v] = "THREAD_EXITED"
      <4>1. ~Listed(v)' /\ wave'[v] = "gone"
        BY <1>t, <2>1, <2>2, <3>1 DEF TypeOK, Listed, IInv, WaveInv, ThreadInv
      <4> QED BY <2>1, <3>1, <4>1 DEF StatusOf
    <3>2. CASE pending_waitstatus[v] # "THREAD_EXITED"
      <4>1. thread'[v] = "THREAD_STOPPED" /\ pending_waitstatus'[v] = "none"
        BY <1>t, <2>1, <2>2, <3>2 DEF TypeOK
      <4> QED BY <2>1, <3>2, <4>1 DEF StatusOf, Listed
    <3> QED BY <3>1, <3>2
  <2> QED BY <2>3, <2>4, NoMove
<1>4. CASE RefreshThreads
  BY <1>4, UpdateMoves DEF RefreshThreads
<1>5. CASE HandleInferiorEvent
  <2>0. wave_events # <<>>
    BY <1>5 DEF HandleInferiorEvent
  <2>1. PICK v \in Waves, s \in Statuses :
          v = Head(wave_events).ptid /\ s = Head(wave_events).ws /\ Queued(v, s)
    <3>1. wave_events' = Tail(wave_events)
      BY <1>5 DEF HandleInferiorEvent
    <3> QED BY <1>t, <2>0, <3>1, QueuedTail DEF IInv
  <2>2. /\ executing' = executing \ {v}
        /\ IF s = "THREAD_EXITED"
           THEN \E left \in {"none", "THREAD_EXITED"} : thread' = [thread EXCEPT ![v] = left]
           ELSE thread' = [thread EXCEPT ![v] = "THREAD_STOPPED"]
        /\ UNCHANGED <<wave, stop_requested, pending_waitstatus>>
    BY <1>5, <2>1 DEF HandleInferiorEvent, HandleStatus, lib
  <2>3. Listed(v) /\ v \in executing /\ pending_waitstatus[v] = "none"
    BY <2>1 DEF IInv, WaveInv, EventInv, ThreadInv, Listed, InFlight
  <2>4. \A w \in Waves \ {v} : StatusOf(w)' = StatusOf(w)
    <3>1. \A w \in Waves \ {v} : thread'[w] = thread[w]
      BY <2>2, <1>t DEF TypeOK
    <3> QED BY <2>2, <3>1, SameStatus
  <2>5. StatusOf(v) \in {"running", "asked"}
    BY <2>3 DEF StatusOf
  <2>6. CASE s = "THREAD_EXITED"
    <3>1. wave[v] = "gone"
      BY <2>1, <2>6 DEF IInv, WaveInv, EventInv
    <3>2. ~Listed(v)' /\ wave'[v] = "gone"
      BY <1>t, <2>2, <2>6, <3>1 DEF TypeOK, Listed
    <3>3. StatusOf(v)' = "exited"
      BY <3>2 DEF StatusOf
    <3> QED BY <2>4, <2>5, <3>3, OneMove DEF Moves
  <2>7. CASE s # "THREAD_EXITED"
    <3>1. thread'[v] = "THREAD_STOPPED" /\ v \notin executing' /\ pending_waitstatus'[v] = "none"
      BY <1>t, <2>2, <2>3, <2>7 DEF TypeOK
    <3>2. StatusOf(v)' = "stopped"
      BY <3>1 DEF StatusOf, Listed
    <3> QED BY <2>4, <2>5, <3>2, OneMove DEF Moves
  <2> QED BY <2>6, <2>7
<1> QED BY <1>1, <1>2, <1>3, <1>4, <1>5 DEF EventLoopStep

\* Pulling events moves no wave: a wave listed on its first stop was running
\* as far as anybody knew, and still is.
LEMMA DrainMoves ==
  ASSUME IInv, DrainStep PROVE [Promise!Next]_WaveStatus
<1>1. CASE BeginDrain \/ EndDrain
  <2>1. UNCHANGED <<wave, thread, executing, stop_requested, pending_waitstatus>>
    BY <1>1 DEF BeginDrain, EndDrain, lib, inf
  <2> QED BY <2>1, SameStatus, NoMove
<1>2. ASSUME NEW v \in Waves, ProcessOneEvent(v) PROVE [Promise!Next]_WaveStatus
  <2> DEFINE new == {v} \cap {w \in Waves : thread[w] = "none" /\ raised[w] = "WAVE_STOP"}
  <2>1. AddGpuThreads(new, thread) /\ UNCHANGED <<wave, pending_waitstatus>>
    BY <1>2 DEF ProcessOneEvent
  <2>2. \A w \in new : thread[w] = "none" /\ wave[w] = "stop"
    BY DEF IInv, WaveInv, EventInv
  <2> HIDE DEF new
  <2>3. ASSUME NEW w \in Waves PROVE StatusOf(w)' = StatusOf(w)
    <3>1. CASE w \in new
      <4>1. /\ thread'[w] = "THREAD_RUNNING" /\ w \in executing'
            /\ w \notin stop_requested'
        BY <2>1, <3>1 DEF AddGpuThreads, AddedExecuting
      <4> QED BY <2>2, <3>1, <4>1 DEF StatusOf, Listed
    <3>2. CASE w \notin new
      <4>1. /\ thread'[w] = thread[w]
            /\ w \in executing' <=> w \in executing
            /\ w \in stop_requested' <=> w \in stop_requested
        BY <2>1, <3>2 DEF AddGpuThreads, AddedExecuting
      <4> QED BY <2>1, <4>1, SameStatus
    <3> QED BY <3>1, <3>2
  <2> QED BY <2>3, NoMove
<1> QED BY <1>1, <1>2 DEF DrainStep

\* stop_all_threads asks waves to stop and hears them stop or exit.
LEMMA StopAllMoves ==
  ASSUME IInv, StopAllStep PROVE [Promise!Next]_WaveStatus
<1>t. TypeOK
  BY DEF IInv, TypeInv
<1>1. CASE BeginStopAll \/ EndRequests
  <2>1. UNCHANGED <<wave, thread, executing, stop_requested, pending_waitstatus>>
    BY <1>1 DEF BeginStopAll, EndRequests, lib, inf
  <2> QED BY <2>1, SameStatus, NoMove
<1>2. CASE StopAllUpdate
  BY <1>2, UpdateMoves, SessionAssumption DEF StopAllUpdate
<1>3. ASSUME NEW v \in Waves, VisitThread(v) PROVE [Promise!Next]_WaveStatus
  <2>1. /\ Listed(v) /\ UNCHANGED <<wave, executing, pending_waitstatus>>
        /\ m_report_thread_events
    BY <1>3 DEF VisitThread, IInv, LoopInv
  <2>2. thread' = thread
    BY <1>3, <2>1 DEF VisitThread, StopOneThread, StopVanishedWave
  <2>3. \/ stop_requested' = stop_requested
        \/ v \in executing /\ v \notin stop_requested /\ stop_requested' = stop_requested \cup {v}
    BY <1>3 DEF VisitThread
  <2>4. \A w \in Waves \ {v} : StatusOf(w)' = StatusOf(w)
    BY <2>1, <2>2, <2>3, SameStatus
  <2>5. CASE stop_requested' = stop_requested
    BY <2>1, <2>2, <2>5, SameStatus, NoMove
  <2>6. CASE /\ v \in executing /\ v \notin stop_requested
             /\ stop_requested' = stop_requested \cup {v}
    <3>1. StatusOf(v) = "running" /\ StatusOf(v)' = "asked"
      BY <2>1, <2>2, <2>6 DEF StatusOf, Listed
    <3> QED BY <2>4, <3>1, OneMove DEF Moves
  <2> QED BY <2>3, <2>5, <2>6
<1>4. CASE HandleOne
  <2>0. wave_events # <<>> /\ wave_events' = Tail(wave_events)
    BY <1>4 DEF HandleOne
  <2>1. PICK v \in Waves, s \in Statuses :
          v = Head(wave_events).ptid /\ s = Head(wave_events).ws /\ Queued(v, s)
    BY <1>t, <2>0, QueuedTail DEF IInv
  <2>2. Listed(v) /\ v \in executing /\ pending_waitstatus[v] = "none"
    BY <2>1 DEF IInv, WaveInv, EventInv, ThreadInv, Listed, InFlight
  <2>3. /\ executing' = executing \ {v} /\ stop_requested' = stop_requested \ {v}
        /\ pending_waitstatus' = [pending_waitstatus EXCEPT ![v] = SavedWaitStatus(v, s)]
        /\ UNCHANGED <<wave, thread>>
    BY <1>4, <2>1, <2>2 DEF HandleOne, Listed, lib
  <2>4. \A w \in Waves \ {v} : StatusOf(w)' = StatusOf(w)
    <3>1. \A w \in Waves \ {v} : pending_waitstatus'[w] = pending_waitstatus[w]
      BY <2>3, <1>t DEF TypeOK
    <3> QED BY <2>3, <3>1, SameStatus
  <2>5. StatusOf(v) \in {"running", "asked"}
    BY <2>2 DEF StatusOf
  <2>6. StatusOf(v)' \in {"stopped", "exited"}
    BY <2>2, <2>3 DEF StatusOf, Listed
  <2> QED BY <2>4, <2>5, <2>6, OneMove DEF Moves
<1> QED BY <1>1, <1>2, <1>3, <1>4 DEF StopAllStep

\* The target, the library and infrun together do only what WaveControl allows:
\* a stopped wave is resumed before anything else happens to it, no wave comes
\* back from its exit, and nobody is asked to stop twice.
THEOREM ImplementsSafely ==
  ASSUME ~RepeatInterrupt, TargetAtFirst PROVE Spec => Promise!Safety
<1>1. Init => Promise!Init
  <2> SUFFICES ASSUME Init PROVE Promise!Init
    OBVIOUS
  <2>1. \A w \in Waves : wave[w] = "unborn" /\ ~Listed(w)
    BY DEF Init, Listed
  <2>2. WaveStatus = [w \in Waves |-> "none"]
    BY <2>1 DEF WaveStatus
  <2> QED BY <2>2 DEF Promise!Init
<1>2. IInv /\ [Next]_vars => [Promise!Next]_WaveStatus
  <2> SUFFICES ASSUME IInv, [Next]_vars PROVE [Promise!Next]_WaveStatus
    OBVIOUS
  <2>1. CASE UNCHANGED vars
    <3>1. UNCHANGED <<wave, thread, executing, stop_requested, pending_waitstatus>>
      BY <2>1 DEF vars, lib, tgt, inf
    <3> QED BY <3>1, SameStatus, NoMove
  <2> QED BY <2>1, LibraryMoves, EventLoopMoves, DrainMoves, StopAllMoves DEF Next
<1> QED BY <1>1, <1>2, Invariance, PTL DEF Spec, Promise!Safety

=============================================================================
