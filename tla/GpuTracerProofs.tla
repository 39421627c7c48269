--------------------------- MODULE GpuTracerProofs ---------------------------
(***************************************************************************)
(* Proofs about GpuTracer, for any kernel, any number of waves and         *)
(* registers and any cap on the steps.                                     *)
(***************************************************************************)
EXTENDS GpuTracer, FiniteSetTheorems, TLAPS

\* The values of some registers.
Records == UNION {[R -> Values] : R \in SUBSET Registers}

\* What wave_steps, trace_data["waves"] and the history are made of.
Steps == [step_index : Nat, pc : 0..Length, registers : Records]
Traces == [ptid : Waves, total_steps : Nat, steps : Seq(Steps)]
Views == [regs : Records, ran : BOOLEAN]

\* The command is inside the while loop, or leaves it with an exception.
Tracing == pc \in {"loop", "stepi", "append", "raise"}

\* TypeOK in a form that the steps preserve: the traces are sequences, a wave
\* is being traced where the code uses t, the cap is checked before stepi, and
\* the file is written last.
TypeInv ==
  /\ alive \in SUBSET Waves /\ pending \in SUBSET alive
  /\ gpu \in [Waves -> WaveState]
  /\ locked \in BOOLEAN /\ scheduler_locked \in BOOLEAN
  /\ ran \in BOOLEAN /\ listed \in BOOLEAN
  /\ pc \in {"invoke", "entry", "next", "loop", "stepi", "append", "raise",
             "write", "done", "failed"}
  /\ gpu_threads \in SUBSET Waves /\ todo \in SUBSET gpu_threads
  /\ t \in gpu_threads \cup {None}
  /\ Tracing => t \in gpu_threads
  /\ steps \in Nat /\ (max_steps > 0 => steps <= max_steps)
  /\ pc = "stepi" => WithinCap
  /\ REG_CHANGE_RECORD \in Records
  /\ wave_steps \in Seq(Steps)
  /\ waves \in Seq(Traces)
  /\ \A i \in 1..Len(waves) : waves[i].ptid \in gpu_threads
  /\ seen \in [Waves -> Seq(Views)]
  /\ pc \in {"invoke", "entry"} => waves = <<>> /\ t = None
  /\ file = IF pc = "done" THEN <<waves>> ELSE <<>>

-----------------------------------------------------------------------------
(* Type correctness.                                                       *)

\* What appending does to a sequence.
LEMMA AppendFacts ==
  ASSUME NEW S, NEW s \in Seq(S), NEW e \in S
  PROVE  /\ Append(s, e) \in Seq(S)
         /\ Len(s) \in Nat
         /\ Len(Append(s, e)) = Len(s) + 1
         /\ \A i \in 1..Len(s) : Append(s, e)[i] = s[i]
         /\ Append(s, e)[Len(s) + 1] = e
OBVIOUS

\* What one turn of the while loop records.
LEMMA RecordTyping ==
  ASSUME TypeInv, NEW readable \in SUBSET Registers, t \in Waves
  PROVE  LET regs == gpu[t].regs
             new == Changed(readable, regs)
         IN /\ regs \in [Registers -> Values]
            /\ gpu[t].at \in 0..Length
            /\ new \in SUBSET Registers
            /\ [r \in DOMAIN REG_CHANGE_RECORD \cup new |->
                  IF r \in new THEN regs[r] ELSE REG_CHANGE_RECORD[r]] \in Records
            /\ [r \in new |-> regs[r]] \in Records
            /\ [r \in readable |-> regs[r]] \in Records
<1> DEFINE regs == gpu[t].regs
           new == Changed(readable, regs)
<1>1. regs \in [Registers -> Values] /\ gpu[t].at \in 0..Length
  BY DEF TypeInv, WaveState, Regs
<1>2. new \in SUBSET Registers
  BY DEF Changed
<1>3. PICK R \in SUBSET Registers : REG_CHANGE_RECORD \in [R -> Values]
  BY DEF TypeInv, Records
<1> HIDE DEF regs, new
<1>4. [r \in DOMAIN REG_CHANGE_RECORD \cup new |->
         IF r \in new THEN regs[r] ELSE REG_CHANGE_RECORD[r]] \in [R \cup new -> Values]
  BY <1>1, <1>2, <1>3
<1>5. R \cup new \in SUBSET Registers
  BY <1>2, <1>3
<1>6. [r \in DOMAIN REG_CHANGE_RECORD \cup new |->
         IF r \in new THEN regs[r] ELSE REG_CHANGE_RECORD[r]] \in Records
  BY <1>4, <1>5 DEF Records
<1>7. [r \in new |-> regs[r]] \in [new -> Values] /\ [r \in readable |-> regs[r]] \in [readable -> Values]
  BY <1>1, <1>2
<1>8. [r \in new |-> regs[r]] \in Records /\ [r \in readable |-> regs[r]] \in Records
  BY <1>2, <1>7 DEF Records
<1> QED BY <1>1, <1>2, <1>6, <1>8 DEF regs, new

\* Recording a step appends to wave_steps and to the history of the wave, and
\* updates REG_CHANGE_RECORD; a register that could be read and is left out of
\* the step has the value of REG_CHANGE_RECORD.
LEMMA RecordStepEffect ==
  ASSUME TypeInv, RecordStep
  PROVE  /\ pc = "loop" /\ t \in gpu_threads /\ t \in Waves /\ WithinCap /\ t \in alive
         /\ pc' \in {"append", "stepi"}
         /\ UNCHANGED <<env, scheduler_locked, gpu_threads, todo, t, steps, waves, file,
                        ran, listed>>
         /\ REG_CHANGE_RECORD' \in Records
         /\ \E step \in Steps, view \in Views :
              /\ wave_steps' = Append(wave_steps, step)
              /\ seen' = [seen EXCEPT ![t] = Append(@, view)]
              /\ step.pc = gpu[t].at
              /\ \A r \in DOMAIN view.regs :
                   IF r \in DOMAIN step.registers THEN step.registers[r] = view.regs[r]
                   ELSE r \in DOMAIN REG_CHANGE_RECORD /\ REG_CHANGE_RECORD[r] = view.regs[r]
              /\ \A r \in DOMAIN REG_CHANGE_RECORD' :
                   IF r \in DOMAIN step.registers
                   THEN REG_CHANGE_RECORD'[r] = step.registers[r]
                   ELSE /\ r \in DOMAIN REG_CHANGE_RECORD
                        /\ REG_CHANGE_RECORD'[r] = REG_CHANGE_RECORD[r]
<1>1. pc = "loop" /\ t \in gpu_threads /\ t \in Waves /\ WithinCap /\ t \in alive
  BY DEF RecordStep, TypeInv, Tracing, WaveAlive
<1>2. PICK readable \in SUBSET Registers, shown \in BOOLEAN :
       LET regs == gpu[t].regs
           new == Changed(readable, regs)
       IN /\ REG_CHANGE_RECORD' =
               [r \in DOMAIN REG_CHANGE_RECORD \cup new |->
                  IF r \in new THEN regs[r] ELSE REG_CHANGE_RECORD[r]]
          /\ wave_steps' = Append(wave_steps,
               [step_index |-> steps, pc |-> gpu[t].at,
                registers |-> [r \in new |-> regs[r]]])
          /\ seen' = [seen EXCEPT ![t] =
               Append(@, [regs |-> [r \in readable |-> regs[r]],
                          ran |-> wave_steps = <<>> \/ ran])]
          /\ pc' = IF AtEndpgm(shown) THEN "append" ELSE "stepi"
  BY DEF RecordStep
<1> DEFINE regs == gpu[t].regs
           new == Changed(readable, regs)
           step == [step_index |-> steps, pc |-> gpu[t].at, registers |-> [r \in new |-> regs[r]]]
           view == [regs |-> [r \in readable |-> regs[r]], ran |-> wave_steps = <<>> \/ ran]
<1>3. REG_CHANGE_RECORD' \in Records /\ step \in Steps
  BY <1>1, <1>2, RecordTyping DEF Steps, TypeInv
<1>4. view \in Views
  <2>1. (wave_steps = <<>> \/ ran) \in BOOLEAN
    BY DEF TypeInv
  <2> QED BY <1>1, <2>1, RecordTyping DEF Views
<1>5. wave_steps' = Append(wave_steps, step) /\ seen' = [seen EXCEPT ![t] = Append(@, view)]
      /\ pc' \in {"append", "stepi"} /\ step.pc = gpu[t].at
  BY <1>2
<1>6. ASSUME NEW r \in DOMAIN view.regs
      PROVE  IF r \in DOMAIN step.registers THEN step.registers[r] = view.regs[r]
             ELSE r \in DOMAIN REG_CHANGE_RECORD /\ REG_CHANGE_RECORD[r] = view.regs[r]
  BY DEF Changed
<1>7. ASSUME NEW r \in DOMAIN REG_CHANGE_RECORD'
      PROVE  IF r \in DOMAIN step.registers
             THEN REG_CHANGE_RECORD'[r] = step.registers[r]
             ELSE r \in DOMAIN REG_CHANGE_RECORD /\ REG_CHANGE_RECORD'[r] = REG_CHANGE_RECORD[r]
  BY <1>2
<1>8. UNCHANGED <<env, scheduler_locked, gpu_threads, todo, t, steps, waves, file, ran, listed>>
  BY DEF RecordStep
<1> HIDE DEF step, view
<1>9. \E st \in Steps, vw \in Views :
        /\ wave_steps' = Append(wave_steps, st)
        /\ seen' = [seen EXCEPT ![t] = Append(@, vw)]
        /\ st.pc = gpu[t].at
        /\ \A r \in DOMAIN vw.regs :
             IF r \in DOMAIN st.registers THEN st.registers[r] = vw.regs[r]
             ELSE r \in DOMAIN REG_CHANGE_RECORD /\ REG_CHANGE_RECORD[r] = vw.regs[r]
        /\ \A r \in DOMAIN REG_CHANGE_RECORD' :
             IF r \in DOMAIN st.registers
             THEN REG_CHANGE_RECORD'[r] = st.registers[r]
             ELSE /\ r \in DOMAIN REG_CHANGE_RECORD
                  /\ REG_CHANGE_RECORD'[r] = REG_CHANGE_RECORD[r]
  BY <1>3, <1>4, <1>5, <1>6, <1>7
<1> QED BY <1>1, <1>3, <1>5, <1>8, <1>9

\* Recording a step leaves the state well-typed.
LEMMA RecordStepTyping ==
  ASSUME TypeInv, RecordStep PROVE TypeInv'
<1>1. /\ pc = "loop" /\ t \in gpu_threads /\ t \in Waves /\ WithinCap
      /\ pc' \in {"append", "stepi"}
      /\ UNCHANGED <<env, scheduler_locked, gpu_threads, todo, t, steps, waves, file,
                     ran, listed>>
      /\ REG_CHANGE_RECORD' \in Records
  BY RecordStepEffect
<1>2. PICK step \in Steps, view \in Views :
        wave_steps' = Append(wave_steps, step) /\ seen' = [seen EXCEPT ![t] = Append(@, view)]
  BY RecordStepEffect
<1>3. wave_steps' \in Seq(Steps)
  BY <1>2, AppendFacts DEF TypeInv
<1>4. seen' \in [Waves -> Seq(Views)]
  <2>1. Append(seen[t], view) \in Seq(Views)
    BY <1>1, <1>2, AppendFacts DEF TypeInv
  <2> QED BY <1>2, <2>1 DEF TypeInv
<1> QED BY <1>1, <1>3, <1>4 DEF TypeInv, env, Tracing, WithinCap

\* A stepi moves waves, and removes some, but only within their types.
LEMMA StepiTyping ==
  ASSUME TypeInv, Stepi PROVE TypeInv'
<1>1. /\ pc = "stepi" /\ pc' = "loop" /\ t \in gpu_threads /\ t \in Waves /\ WithinCap
      /\ steps' = steps + 1
      /\ UNCHANGED <<locked, scheduler_locked, gpu_threads, todo, t, wave_steps,
                     REG_CHANGE_RECORD, waves, file, seen, listed>>
  BY DEF Stepi, TypeInv, Tracing
<1>2. PICK next \in WaveState, others \in [Waves \ {t} -> WaveState] :
       /\ alive' \in SUBSET alive
       /\ StepWave(next)
       /\ \A w \in Waves \ {t} :
            \/ others[w] = gpu[w] /\ (w \in alive' <=> w \in alive)
            \/ ~locked /\ w \in alive /\ w \notin pending
       /\ gpu' = [w \in Waves |-> IF w = t THEN next ELSE others[w]]
  BY DEF Stepi
<1>3. gpu' \in [Waves -> WaveState]
  BY <1>2
<1>4. alive' \in SUBSET Waves /\ ran' \in BOOLEAN
  BY <1>2 DEF TypeInv, StepWave
<1>5. pending' \in SUBSET alive'
  <2>1. pending' \subseteq pending /\ (t \in pending' => t \in alive')
    BY <1>2 DEF StepWave
  <2>2. ASSUME NEW w \in pending', w # t PROVE w \in alive'
    BY <1>2, <2>1, <2>2 DEF TypeInv
  <2> QED BY <2>1, <2>2
<1>6. steps' \in Nat /\ (max_steps > 0 => steps' <= max_steps)
  BY <1>1, TracerAssumption DEF TypeInv, WithinCap
<1> QED BY <1>1, <1>3, <1>4, <1>5, <1>6 DEF TypeInv, Tracing

\* Every step leaves the state well-typed.
LEMMA TypeStep == TypeInv /\ [Next]_vars => TypeInv'
<1> SUFFICES ASSUME TypeInv, [Next]_vars PROVE TypeInv'
  OBVIOUS
<1> USE DEF TypeInv, Tracing, WithinCap
<1>1. CASE RunToKernel
  <2>1. /\ pc = "invoke" /\ pc' = "entry" /\ alive' \in SUBSET Waves
        /\ UNCHANGED <<gpu, gpu_threads, todo, t, wave_steps, steps,
                       REG_CHANGE_RECORD, waves, file, seen, ran, listed>>
    BY <1>1 DEF RunToKernel
  <2>2. pending' \in SUBSET alive'
    BY <1>1 DEF RunToKernel
  <2>3. scheduler_locked' \in BOOLEAN /\ locked' \in BOOLEAN
    BY <1>1 DEF RunToKernel, LockScheduler
  <2> QED BY <2>1, <2>2, <2>3
<1>2. CASE FindWaves
  <2>1. /\ pc = "entry" /\ gpu_threads' = alive /\ todo' = alive
        /\ UNCHANGED <<alive, gpu, pending, scheduler_locked, t, wave_steps, steps,
                       REG_CHANGE_RECORD, waves, seen, ran, listed>>
    BY <1>2 DEF FindWaves
  <2>2. /\ pc' \in {"done", "next"} /\ locked' \in BOOLEAN
        /\ file' = IF pc' = "done" THEN <<waves'>> ELSE <<>>
    BY <1>2, <2>1 DEF FindWaves
  <2> QED BY <2>1, <2>2
<1>3. CASE CommandFails
  BY <1>3 DEF CommandFails, env
<1>4. ASSUME NEW w \in Waves, NextWave(w) PROVE TypeInv'
  <2>1. /\ pc = "next" /\ w \in todo /\ todo' = todo \ {w}
        /\ UNCHANGED <<env, scheduler_locked, gpu_threads, waves, file, seen, ran>>
    BY <1>4 DEF NextWave
  <2>2. REG_CHANGE_RECORD' \in Records
    <3>1. <<>> \in [{} -> Values]
      OBVIOUS
    <3>2. <<>> \in Records
      BY <3>1 DEF Records
    <3> QED BY <1>4, <3>2 DEF NextWave, ClearRecord
  <2>3. /\ listed' \in BOOLEAN
        /\ \/ t' = w /\ wave_steps' = <<>> /\ steps' = 0 /\ pc' = "loop"
           \/ UNCHANGED <<t, wave_steps, steps, pc>>
    BY <1>4 DEF NextWave
  <2>4. CASE t' = w /\ wave_steps' = <<>> /\ steps' = 0 /\ pc' = "loop"
    <3>1. wave_steps' \in Seq(Steps)
      BY <2>4
    <3>2. steps' \in Nat /\ (max_steps > 0 => steps' <= max_steps)
      BY <2>4, TracerAssumption
    <3> QED BY <2>1, <2>2, <2>3, <2>4, <3>1, <3>2 DEF env
  <2>5. CASE UNCHANGED <<t, wave_steps, steps, pc>>
    BY <2>1, <2>2, <2>3, <2>5 DEF env
  <2> QED BY <2>3, <2>4, <2>5
<1>5. CASE RecordStep
  BY <1>5, RecordStepTyping
<1>6. CASE LoopRaises
  BY <1>6 DEF LoopRaises, env
<1>7. CASE LeaveLoop
  BY <1>7 DEF LeaveLoop, env
<1>8. CASE Stepi
  BY <1>8, StepiTyping
<1>9. CASE StepiFails
  BY <1>9 DEF StepiFails, env
<1>10. CASE AppendWave
  <2> DEFINE trace == [ptid |-> t, total_steps |-> Len(wave_steps), steps |-> wave_steps]
  <2>1. /\ pc = "append" /\ pc' = "next" /\ waves' = Append(waves, trace)
        /\ UNCHANGED <<env, scheduler_locked, gpu_threads, todo, t, wave_steps,
                       steps, REG_CHANGE_RECORD, file, seen, ran, listed>>
    BY <1>10 DEF AppendWave
  <2>2. trace \in Traces /\ trace.ptid \in gpu_threads
    BY <2>1 DEF Traces
  <2> HIDE DEF trace
  <2>3. /\ waves' \in Seq(Traces) /\ Len(waves) \in Nat /\ Len(waves') = Len(waves) + 1
        /\ \A i \in 1..Len(waves) : waves'[i] = waves[i]
        /\ waves'[Len(waves) + 1] = trace
    BY <2>1, <2>2, AppendFacts
  <2>4. \A i \in 1..Len(waves') : waves'[i].ptid \in gpu_threads'
    <3> SUFFICES ASSUME NEW i \in 1..Len(waves') PROVE waves'[i].ptid \in gpu_threads
      BY <2>1
    <3>1. CASE i \in 1..Len(waves)
      BY <2>3, <3>1
    <3>2. CASE i = Len(waves) + 1
      BY <2>2, <2>3, <3>2
    <3> QED BY <2>3, <3>1, <3>2
  <2> QED BY <2>1, <2>3, <2>4 DEF env
<1>11. CASE Finally
  BY <1>11 DEF Finally, ReleaseLock
<1>12. CASE WriteFile
  BY <1>12 DEF WriteFile, env
<1>13. CASE UNCHANGED vars
  BY <1>13 DEF vars, env, cmd
<1> QED BY <1>1, <1>2, <1>3, <1>4, <1>5, <1>6, <1>7, <1>8, <1>9, <1>10, <1>11, <1>12,
           <1>13 DEF Next

\* The initial state is well-typed.
LEMMA InitTyping == Init => TypeInv
<1> SUFFICES ASSUME Init PROVE TypeInv
  OBVIOUS
<1>1. gpu \in [Waves -> WaveState]
  BY TracerAssumption DEF Init, WaveState
<1>2. REG_CHANGE_RECORD \in Records
  <2>1. <<>> \in [{} -> Values]
    OBVIOUS
  <2> QED BY <2>1 DEF Init, Records
<1>3. wave_steps \in Seq(Steps) /\ waves \in Seq(Traces) /\ Len(waves) = 0
  BY DEF Init
<1>4. seen \in [Waves -> Seq(Views)]
  BY DEF Init
<1>5. steps \in Nat /\ (max_steps > 0 => steps <= max_steps)
  BY TracerAssumption DEF Init
<1>6. /\ locked \in BOOLEAN /\ scheduler_locked \in BOOLEAN
      /\ ran \in BOOLEAN /\ listed \in BOOLEAN
  BY DEF Init
<1> QED BY <1>1, <1>2, <1>3, <1>4, <1>5, <1>6 DEF Init, TypeInv, Tracing

\* The state stays well-typed; in particular no more steps are taken than
\* max_steps allows, and the file has the traces of waves that were found.
THEOREM TypeCorrect == Spec => []TypeOK
<1>1. TypeInv => TypeOK
  <2> SUFFICES ASSUME TypeInv PROVE TypeOK
    OBVIOUS
  <2>1. \A s \in Steps : StepRecord(s)
    BY DEF Steps, Records, StepRecord
  <2>2. \A k \in 1..Len(wave_steps) : StepRecord(wave_steps[k])
    BY <2>1 DEF TypeInv
  <2>3. ASSUME NEW i \in 1..Len(waves)
        PROVE  /\ waves[i].ptid \in gpu_threads
               /\ \A k \in 1..Len(waves[i].steps) : StepRecord(waves[i].steps[k])
    <3>1. waves[i] \in Traces
      BY DEF TypeInv
    <3>2. waves[i].steps \in Seq(Steps)
      BY <3>1 DEF Traces
    <3> QED BY <2>1, <3>2 DEF TypeInv
  <2>4. \E R \in SUBSET Registers : REG_CHANGE_RECORD \in [R -> Values]
    BY DEF TypeInv, Records
  <2>5. file \in {<<>>, <<waves>>}
    BY DEF TypeInv
  <2> QED BY <2>2, <2>3, <2>4, <2>5 DEF TypeInv, TypeOK
<1> QED BY <1>1, InitTyping, TypeStep, PTL DEF Spec

-----------------------------------------------------------------------------
(* The scheduler lock.                                                     *)

\* Between taking the lock and the finally clause, the command knows whether
\* it holds the lock.
LockInv ==
  /\ pc \in {"entry", "next"} \/ Tracing => (locked <=> scheduler_locked)
  /\ pc \in {"invoke", "entry"} => gpu_threads = {}
  /\ LockReleased

\* Every step keeps it.
LEMMA LockStep == TypeInv /\ LockInv /\ [Next]_vars => LockInv'
<1> SUFFICES ASSUME TypeInv, LockInv, [Next]_vars PROVE LockInv'
  OBVIOUS
<1> USE DEF LockInv, LockReleased, Tracing
<1>1. CASE RunToKernel
  <2>1. pc = "invoke" /\ pc' = "entry" /\ gpu_threads' = gpu_threads
    BY <1>1 DEF RunToKernel
  <2>2. locked' <=> scheduler_locked'
    BY <1>1 DEF RunToKernel, LockScheduler
  <2> QED BY <2>1, <2>2
<1>2. CASE FindWaves
  <2>1. pc = "entry" /\ UNCHANGED scheduler_locked
    BY <1>2 DEF FindWaves
  <2>2. \/ pc' = "done" /\ locked' = FALSE
        \/ pc' = "next" /\ UNCHANGED locked
    BY <1>2 DEF FindWaves
  <2> QED BY <2>1, <2>2
<1>3. CASE CommandFails
  BY <1>3 DEF CommandFails, env
<1>4. ASSUME NEW w \in Waves, NextWave(w) PROVE LockInv'
  <2>1. /\ pc = "next" /\ pc' \in {"next", "loop"}
        /\ UNCHANGED <<locked, scheduler_locked, gpu_threads>>
    BY <1>4 DEF NextWave, env
  <2> QED BY <2>1
<1>5. CASE RecordStep \/ LoopRaises \/ LeaveLoop \/ Stepi \/ StepiFails \/ AppendWave
  <2>1. /\ Tracing /\ pc # "raise" /\ (pc' = "next" \/ Tracing')
        /\ UNCHANGED <<locked, scheduler_locked, gpu_threads>>
    BY <1>5 DEF RecordStep, LoopRaises, LeaveLoop, Stepi, StepiFails, AppendWave, env
  <2> QED BY <2>1
<1>6. CASE Finally
  <2>1. /\ pc \in {"next", "raise"} /\ pc' \in {"write", "failed"}
        /\ locked' = (locked /\ ~scheduler_locked)
    BY <1>6 DEF Finally, ReleaseLock
  <2> QED BY <2>1
<1>7. CASE WriteFile
  BY <1>7 DEF WriteFile, env
<1>8. CASE UNCHANGED vars
  BY <1>8 DEF vars, env, cmd
<1> QED BY <1>1, <1>2, <1>3, <1>4, <1>5, <1>6, <1>7, <1>8 DEF Next

\* Once waves have been found, the scheduler is unlocked however the command
\* ends: after the last wave, at the cap, or by an exception inside the loop.
THEOREM LockIsReleased == Spec => []LockReleased
<1>1. Init => LockInv
  BY DEF Init, LockInv, LockReleased, Tracing
<1>2. LockInv => LockReleased
  BY DEF LockInv
<1> QED BY <1>1, <1>2, InitTyping, TypeStep, LockStep, PTL DEF Spec

-----------------------------------------------------------------------------
(***************************************************************************)
(* Reconstructing registers.  REG_CHANGE_RECORD holds the values that the  *)
(* trace so far gives: that is what makes it safe to leave out a register  *)
(* whose value is the one in REG_CHANGE_RECORD.                            *)
(***************************************************************************)

\* The wave being traced: each of its steps has its view in the history, and
\* REG_CHANGE_RECORD agrees with the steps recorded so far.
CurrentInv ==
  /\ Len(seen[t]) = Len(wave_steps)
  /\ \A r \in DOMAIN REG_CHANGE_RECORD :
       Given(wave_steps, Len(wave_steps), r, REG_CHANGE_RECORD[r])
  /\ Reconstructs(t, wave_steps)
  /\ t \notin todo
  /\ \A i \in 1..Len(waves) : waves[i].ptid # t

\* The waves that are still to come have no history, those that are done keep
\* theirs.
ReconstructInv ==
  /\ pc \in {"invoke", "entry"} => seen = [w \in Waves |-> <<>>]
  /\ pc \in {"loop", "stepi", "append"} => CurrentInv
  /\ \A w \in todo : seen[w] = <<>>
  /\ \A i \in 1..Len(waves) : /\ waves[i].ptid \notin todo
                              /\ Reconstructs(waves[i].ptid, waves[i].steps)

\* A value given at step k is given by any longer record as well.
LEMMA GivenAppend ==
  ASSUME NEW record \in Seq(Steps), NEW step \in Steps, NEW r, NEW v,
         NEW k \in 1..Len(record)
  PROVE  Given(record, k, r, v) => Given(Append(record, step), k, r, v)
BY AppendFacts DEF Given

\* The value given at the last step stays given by a step that leaves the
\* register out.
LEMMA GivenKept ==
  ASSUME NEW record \in Seq(Steps), NEW step \in Steps, NEW r, NEW v,
         Given(record, Len(record), r, v), r \notin DOMAIN step.registers
  PROVE  Given(Append(record, step), Len(record) + 1, r, v)
<1> DEFINE longer == Append(record, step)
<1>1. /\ Len(record) \in Nat /\ longer[Len(record) + 1] = step
      /\ \A i \in 1..Len(record) : longer[i] = record[i]
  BY AppendFacts
<1>2. PICK j \in 1..Len(record) :
        /\ r \in DOMAIN record[j].registers /\ record[j].registers[r] = v
        /\ \A i \in j + 1 .. Len(record) : r \notin DOMAIN record[i].registers
  BY DEF Given
<1> HIDE DEF longer
<1>3. r \in DOMAIN longer[j].registers /\ longer[j].registers[r] = v
  BY <1>1, <1>2
<1>4. \A i \in j + 1 .. Len(record) + 1 : r \notin DOMAIN longer[i].registers
  <2> SUFFICES ASSUME NEW i \in j + 1 .. Len(record) + 1
               PROVE  r \notin DOMAIN longer[i].registers
    OBVIOUS
  <2>1. CASE i = Len(record) + 1
    BY <1>1, <2>1
  <2>2. CASE i \in j + 1 .. Len(record)
    BY <1>1, <1>2, <2>2
  <2> QED BY <1>1, <2>1, <2>2
<1>5. j \in 1 .. Len(record) + 1
  BY <1>1
<1> QED BY <1>3, <1>4, <1>5 DEF Given, longer

\* The last step gives the registers it records.
LEMMA GivenNew ==
  ASSUME NEW record \in Seq(Steps), NEW step \in Steps, NEW r \in DOMAIN step.registers
  PROVE  Given(Append(record, step), Len(record) + 1, r, step.registers[r])
<1> DEFINE longer == Append(record, step)
           n == Len(record) + 1
<1>1. n \in Nat /\ n >= 1 /\ longer[n] = step
  BY AppendFacts
<1> HIDE DEF longer, n
<1>2. n \in 1..n /\ \A i \in n + 1 .. n : r \notin DOMAIN longer[i].registers
  BY <1>1
<1>3. Given(longer, n, r, step.registers[r])
  BY <1>1, <1>2 DEF Given
<1> QED BY <1>3 DEF longer, n

\* A wave whose history does not change stays reconstructible.
LEMMA ReconstructsSame ==
  ASSUME NEW w, NEW record, seen'[w] = seen[w], Reconstructs(w, record)
  PROVE  Reconstructs(w, record)'
BY DEF Reconstructs, Given

\* So does a trace in trace_data["waves"].
LEMMA FinishedSame ==
  ASSUME NEW i, waves'[i] = waves[i], seen'[waves[i].ptid] = seen[waves[i].ptid],
         Reconstructs(waves[i].ptid, waves[i].steps)
  PROVE  Reconstructs(waves[i].ptid, waves[i].steps)'
<1>1. PICK w, record : w = waves[i].ptid /\ record = waves[i].steps
  OBVIOUS
<1>2. Reconstructs(w, record)'
  BY <1>1, ReconstructsSame
<1> QED BY <1>1, <1>2 DEF Reconstructs, Given

\* A step that leaves the traces alone keeps what is known of them.
LEMMA SameReconstruct ==
  ASSUME ReconstructInv, UNCHANGED <<seen, wave_steps, REG_CHANGE_RECORD, t, todo, waves>>,
         pc' \in {"loop", "stepi", "append"} => pc \in {"loop", "stepi", "append"},
         pc' \notin {"invoke", "entry"} \/ pc \in {"invoke", "entry"}
  PROVE  ReconstructInv'
<1>1. pc' \in {"loop", "stepi", "append"} => CurrentInv'
  BY DEF ReconstructInv, CurrentInv, Reconstructs, Given
<1>2. ASSUME NEW i \in 1..Len(waves')
      PROVE  waves'[i].ptid \notin todo' /\ Reconstructs(waves[i].ptid, waves[i].steps)'
  BY FinishedSame DEF ReconstructInv
<1> QED BY <1>1, <1>2 DEF ReconstructInv

\* A recorded step keeps the agreement of REG_CHANGE_RECORD with the trace.
LEMMA RecordReconstruct ==
  ASSUME TypeInv, ReconstructInv, RecordStep PROVE ReconstructInv'
<1>1. /\ pc = "loop" /\ t \in gpu_threads /\ t \in Waves
      /\ pc' \in {"append", "stepi"}
      /\ UNCHANGED <<todo, t, waves>>
  BY RecordStepEffect
<1>2. PICK step \in Steps, view \in Views :
        /\ wave_steps' = Append(wave_steps, step)
        /\ seen' = [seen EXCEPT ![t] = Append(@, view)]
        /\ \A r \in DOMAIN view.regs :
             IF r \in DOMAIN step.registers THEN step.registers[r] = view.regs[r]
             ELSE r \in DOMAIN REG_CHANGE_RECORD /\ REG_CHANGE_RECORD[r] = view.regs[r]
        /\ \A r \in DOMAIN REG_CHANGE_RECORD' :
             IF r \in DOMAIN step.registers
             THEN REG_CHANGE_RECORD'[r] = step.registers[r]
             ELSE /\ r \in DOMAIN REG_CHANGE_RECORD
                  /\ REG_CHANGE_RECORD'[r] = REG_CHANGE_RECORD[r]
  BY RecordStepEffect
<1> DEFINE n == Len(wave_steps)
<1>c. CurrentInv
  BY <1>1 DEF ReconstructInv
<1>3. /\ wave_steps \in Seq(Steps) /\ seen[t] \in Seq(Views)
      /\ n \in Nat /\ Len(seen[t]) = n
  BY <1>1, <1>c DEF TypeInv, CurrentInv
<1>4. Len(wave_steps') = n + 1
  BY <1>2, <1>3, AppendFacts
<1>5. /\ Len(seen'[t]) = n + 1
      /\ \A k \in 1..n : seen'[t][k] = seen[t][k]
      /\ seen'[t][n + 1] = view
  <2>1. seen'[t] = Append(seen[t], view)
    BY <1>1, <1>2 DEF TypeInv
  <2> QED BY <1>2, <1>3, <2>1, AppendFacts
<1>6. ASSUME NEW r \in DOMAIN REG_CHANGE_RECORD'
      PROVE  Given(wave_steps', n + 1, r, REG_CHANGE_RECORD'[r])
  <2>1. CASE r \in DOMAIN step.registers
    BY <1>2, <1>3, <2>1, GivenNew
  <2>2. CASE r \notin DOMAIN step.registers
    <3>1. Given(wave_steps, n, r, REG_CHANGE_RECORD'[r])
      BY <1>2, <1>c, <2>2 DEF CurrentInv
    <3> QED BY <1>2, <1>3, <2>2, <3>1, GivenKept
  <2> QED BY <2>1, <2>2
<1>7. ASSUME NEW k \in 1..(n + 1), NEW r \in DOMAIN seen'[t][k].regs
      PROVE  Given(wave_steps', k, r, seen'[t][k].regs[r])
  <2>1. CASE k \in 1..n
    <3>1. Given(wave_steps, k, r, seen[t][k].regs[r])
      BY <1>5, <1>7, <1>c, <2>1 DEF CurrentInv, Reconstructs
    <3>2. Given(wave_steps', k, r, seen[t][k].regs[r])
      BY <1>2, <1>3, <2>1, <3>1, GivenAppend
    <3> QED BY <1>5, <2>1, <3>2
  <2>2. CASE k = n + 1
    <3>1. r \in DOMAIN view.regs /\ seen'[t][k] = view
      BY <1>5, <1>7, <2>2
    <3>2. CASE r \in DOMAIN step.registers
      BY <1>2, <1>3, <2>2, <3>1, <3>2, GivenNew
    <3>3. CASE r \notin DOMAIN step.registers
      <4>1. Given(wave_steps, n, r, view.regs[r])
        BY <1>2, <1>c, <3>1, <3>3 DEF CurrentInv
      <4> QED BY <1>2, <1>3, <2>2, <3>1, <3>3, <4>1, GivenKept
    <3> QED BY <3>2, <3>3
  <2> QED BY <1>3, <2>1, <2>2
<1>8. Reconstructs(t, wave_steps)'
  BY <1>1, <1>4, <1>7 DEF Reconstructs, Given
<1>9. CurrentInv'
  <2>1. \A r \in DOMAIN REG_CHANGE_RECORD' :
          Given(wave_steps', Len(wave_steps'), r, REG_CHANGE_RECORD'[r])
    BY <1>4, <1>6
  <2> QED BY <1>1, <1>4, <1>5, <1>8, <1>c, <2>1 DEF CurrentInv, Given
<1>10. \A w \in Waves \ {t} : seen'[w] = seen[w]
  BY <1>2 DEF TypeInv
<1>11. \A w \in todo' : seen'[w] = <<>>
  BY <1>1, <1>10, <1>c DEF CurrentInv, ReconstructInv, TypeInv
<1>12. ASSUME NEW i \in 1..Len(waves')
       PROVE  /\ waves'[i].ptid \notin todo'
              /\ Reconstructs(waves[i].ptid, waves[i].steps)'
  <2>1. waves[i].ptid \in Waves \ {t}
    BY <1>1, <1>c DEF CurrentInv, TypeInv
  <2>2. Reconstructs(waves[i].ptid, waves[i].steps)
    BY <1>1 DEF ReconstructInv
  <2>3. Reconstructs(waves[i].ptid, waves[i].steps)'
    BY <1>1, <1>10, <2>1, <2>2, FinishedSame
  <2> QED BY <1>1, <2>3 DEF ReconstructInv
<1> QED BY <1>1, <1>9, <1>11, <1>12 DEF ReconstructInv

\* Every step keeps the traces reconstructible.
LEMMA ReconstructStep == TypeInv /\ ReconstructInv /\ [Next]_vars => ReconstructInv'
<1> SUFFICES ASSUME TypeInv, ReconstructInv, [Next]_vars PROVE ReconstructInv'
  OBVIOUS
<1>1. CASE RunToKernel \/ CommandFails \/ LoopRaises \/ LeaveLoop \/ Stepi \/ StepiFails
           \/ Finally \/ WriteFile \/ UNCHANGED vars
  <2>1. /\ UNCHANGED <<seen, wave_steps, REG_CHANGE_RECORD, t, todo, waves>>
        /\ pc' \in {"loop", "stepi", "append"} => pc \in {"loop", "stepi", "append"}
        /\ pc' \notin {"invoke", "entry"} \/ pc \in {"invoke", "entry"}
    BY <1>1 DEF RunToKernel, CommandFails, LoopRaises, LeaveLoop, Stepi, StepiFails, Finally,
                WriteFile, vars, cmd
  <2> QED BY <2>1, SameReconstruct
<1>2. CASE FindWaves
  <2>1. /\ pc = "entry" /\ pc' \in {"done", "next"} /\ todo' = alive
        /\ UNCHANGED <<waves, seen>> /\ waves = <<>>
    BY <1>2 DEF FindWaves, TypeInv
  <2>2. \A w \in todo' : seen'[w] = <<>>
    BY <2>1 DEF ReconstructInv, TypeInv
  <2> QED BY <2>1, <2>2 DEF ReconstructInv
<1>3. ASSUME NEW w \in Waves, NextWave(w) PROVE ReconstructInv'
  <2>1. /\ pc = "next" /\ w \in todo /\ todo' = todo \ {w} /\ REG_CHANGE_RECORD' = <<>>
        /\ UNCHANGED <<waves, seen>>
    BY <1>3 DEF NextWave, ClearRecord
  <2>2. \/ t' = w /\ wave_steps' = <<>> /\ pc' = "loop"
        \/ pc' = "next"
    BY <1>3, <2>1 DEF NextWave
  <2>3. ASSUME NEW i \in 1..Len(waves')
        PROVE  /\ waves'[i].ptid \notin todo
               /\ Reconstructs(waves[i].ptid, waves[i].steps)'
    BY <2>1, FinishedSame DEF ReconstructInv
  <2>4. pc' = "loop" => CurrentInv'
    <3> SUFFICES ASSUME pc' = "loop" PROVE CurrentInv'
      OBVIOUS
    <3>1. t' = w /\ wave_steps' = <<>> /\ Len(wave_steps') = 0 /\ seen'[t'] = <<>>
      BY <2>1, <2>2 DEF ReconstructInv
    <3>2. Reconstructs(t, wave_steps)'
      BY <3>1 DEF Reconstructs
    <3>3. t' \notin todo' /\ \A i \in 1..Len(waves') : waves'[i].ptid # t'
      BY <2>1, <2>3, <3>1
    <3>4. DOMAIN REG_CHANGE_RECORD' = {}
      BY <2>1
    <3> QED BY <3>1, <3>2, <3>3, <3>4 DEF CurrentInv
  <2>5. \A x \in todo' : seen'[x] = <<>>
    BY <2>1 DEF ReconstructInv
  <2> QED BY <2>1, <2>2, <2>3, <2>4, <2>5 DEF ReconstructInv
<1>4. CASE RecordStep
  BY <1>4, RecordReconstruct
<1>5. CASE AppendWave
  <2> DEFINE trace == [ptid |-> t, total_steps |-> Len(wave_steps), steps |-> wave_steps]
  <2>1. /\ pc = "append" /\ pc' = "next" /\ waves' = Append(waves, trace)
        /\ t \in Waves /\ UNCHANGED <<todo, t, wave_steps, seen>>
    BY <1>5 DEF AppendWave, TypeInv, Tracing
  <2>2. trace \in Traces
    BY <2>1 DEF Traces, TypeInv
  <2>3. trace.ptid = t /\ trace.steps = wave_steps
    OBVIOUS
  <2> HIDE DEF trace
  <2>4. /\ Len(waves) \in Nat /\ Len(waves') = Len(waves) + 1
        /\ \A i \in 1..Len(waves) : waves'[i] = waves[i]
        /\ waves'[Len(waves) + 1] = trace
    BY <2>1, <2>2, AppendFacts DEF TypeInv
  <2>5. CurrentInv
    BY <2>1 DEF ReconstructInv
  <2>6. ASSUME NEW i \in 1..Len(waves')
        PROVE  waves'[i].ptid \notin todo' /\ Reconstructs(waves[i].ptid, waves[i].steps)'
    <3>1. CASE i \in 1..Len(waves)
      BY <2>1, <2>4, <3>1, FinishedSame DEF ReconstructInv
    <3>2. CASE i = Len(waves) + 1
      <4>1. waves'[i].ptid = t /\ waves'[i].steps = wave_steps
        BY <2>3, <2>4, <3>2
      <4>2. Reconstructs(t, wave_steps) /\ t \notin todo
        BY <2>5 DEF CurrentInv
      <4>3. Reconstructs(waves[i].ptid, waves[i].steps)'
        BY <2>1, <4>1, <4>2 DEF Reconstructs, Given
      <4> QED BY <2>1, <4>1, <4>2, <4>3
    <3> QED BY <2>4, <3>1, <3>2
  <2> QED BY <2>1, <2>6 DEF ReconstructInv
<1> QED BY <1>1, <1>2, <1>3, <1>4, <1>5 DEF Next

\* Recording only the registers that changed loses nothing: at every step of
\* every wave, the values that could be read follow from the steps recorded.
THEOREM RegistersAreReconstructed == Spec => []RegistersReconstruct
<1>1. Init => ReconstructInv
  <2> SUFFICES ASSUME Init PROVE ReconstructInv
    OBVIOUS
  <2>1. Len(waves) = 0 /\ todo = {} /\ pc = "invoke"
    BY DEF Init
  <2> QED BY <2>1 DEF Init, ReconstructInv
<1>2. ReconstructInv => RegistersReconstruct
  BY DEF ReconstructInv, CurrentInv, RegistersReconstruct
<1> QED BY <1>1, <1>2, InitTyping, TypeStep, ReconstructStep, PTL DEF Spec

-----------------------------------------------------------------------------
(***************************************************************************)
(* The trace is complete.  A wave that has not had its turn is where the   *)
(* breakpoint left it, because stepi moves no other wave under the lock;   *)
(* so it is alive when its turn comes, and its first turn of the loop      *)
(* records address 0 before the loop can be left.                          *)
(***************************************************************************)

\* The waves that trace_data["waves"] has.
Traced == {waves[i].ptid : i \in 1..Len(waves)}

\* The wave whose trace has yet to be appended.
Current == IF pc \in {"loop", "stepi", "append"} THEN {t} ELSE {}

\* A trace begins at the first instruction.
FromTheStart(record) == record # <<>> /\ record[1].pc = 0

\* Every wave is traced, in hand or still to come, and no wave is traced twice.
EachWaveOnce ==
  /\ Len(waves) = Cardinality(Traced)
  /\ pc \notin {"raise", "failed"} => gpu_threads = Traced \cup Current \cup todo

\* The waves to come stand at their first instruction, the others were
\* recorded there.
StartsRecorded ==
  /\ \A w \in todo : w \in alive /\ gpu[w].at = 0
  /\ \A i \in 1..Len(waves) : FromTheStart(waves[i].steps)
  /\ pc \in {"stepi", "append"} => FromTheStart(wave_steps)
  /\ pc = "loop" => \/ FromTheStart(wave_steps)
                    \/ wave_steps = <<>> /\ steps = 0 /\ t \in alive /\ gpu[t].at = 0

CompleteInv ==
  /\ pc \in {"invoke", "entry"} => \A w \in Waves : gpu[w].at = 0
  /\ pc \in {"write", "done"} => todo = {}
  /\ pc \notin {"invoke", "entry"} /\ scheduler_locked /\ listed =>
       EachWaveOnce /\ StartsRecorded

\* A step within the command that moves no wave, appends no trace and takes no
\* wave keeps the counts.
LEMMA SameCounts ==
  ASSUME EachWaveOnce, UNCHANGED <<waves, gpu_threads, todo, t>>,
         pc' \notin {"raise", "failed"} => pc \notin {"raise", "failed"} /\ Current' = Current
  PROVE  EachWaveOnce'
BY DEF EachWaveOnce, Traced

\* Recording the first step records the first instruction.
LEMMA RecordComplete ==
  ASSUME TypeInv, CompleteInv, RecordStep PROVE CompleteInv'
<1>1. /\ pc = "loop" /\ pc' \in {"append", "stepi"}
      /\ UNCHANGED <<alive, gpu, scheduler_locked, gpu_threads, todo, t, waves, listed>>
  BY RecordStepEffect DEF env
<1>2. PICK step \in Steps : wave_steps' = Append(wave_steps, step) /\ step.pc = gpu[t].at
  BY RecordStepEffect
<1> SUFFICES ASSUME scheduler_locked, listed PROVE EachWaveOnce' /\ StartsRecorded'
  BY <1>1 DEF CompleteInv
<1>3. EachWaveOnce /\ StartsRecorded
  BY <1>1 DEF CompleteInv
<1>4. EachWaveOnce'
  BY <1>1, <1>3, SameCounts DEF Current
<1>5. wave_steps \in Seq(Steps)
  BY DEF TypeInv
<1>6. FromTheStart(wave_steps)'
  <2>1. CASE wave_steps = <<>>
    <3>1. wave_steps' = <<step>> /\ step.pc = 0
      BY <1>1, <1>2, <1>3, <2>1 DEF StartsRecorded, FromTheStart
    <3> QED BY <3>1 DEF FromTheStart
  <2>2. CASE wave_steps # <<>>
    <3>1. wave_steps[1].pc = 0 /\ 1 \in 1..Len(wave_steps)
      BY <1>1, <1>3, <1>5, <2>2 DEF StartsRecorded, FromTheStart
    <3>2. wave_steps'[1] = wave_steps[1] /\ wave_steps' # <<>>
      BY <1>2, <1>5, <3>1, AppendFacts
    <3> QED BY <3>1, <3>2 DEF FromTheStart
  <2> QED BY <2>1, <2>2
<1>7. \A i \in 1..Len(waves') : FromTheStart(waves[i].steps)'
  BY <1>1, <1>3 DEF StartsRecorded, FromTheStart
<1> QED BY <1>1, <1>3, <1>4, <1>6, <1>7 DEF StartsRecorded

\* stepi under the lock moves no wave but the selected one, which has been
\* recorded before.
LEMMA StepiComplete ==
  ASSUME TypeInv, LockInv, ReconstructInv, CompleteInv, Stepi PROVE CompleteInv'
<1>1. /\ pc = "stepi" /\ pc' = "loop" /\ t \in Waves
      /\ UNCHANGED <<scheduler_locked, gpu_threads, todo, t, wave_steps, waves, listed>>
  BY DEF Stepi, TypeInv, Tracing
<1> SUFFICES ASSUME scheduler_locked, listed PROVE EachWaveOnce' /\ StartsRecorded'
  BY <1>1 DEF CompleteInv
<1>2. EachWaveOnce /\ StartsRecorded /\ locked
  BY <1>1 DEF CompleteInv, LockInv, Tracing
<1>3. EachWaveOnce'
  BY <1>1, <1>2, SameCounts DEF Current
<1>4. t \notin todo
  BY <1>1 DEF ReconstructInv, CurrentInv
<1>5. \A w \in Waves \ {t} : gpu'[w] = gpu[w] /\ (w \in alive' <=> w \in alive)
  BY <1>2 DEF Stepi
<1>6. \A w \in todo' : w \in alive' /\ gpu'[w].at = 0
  BY <1>1, <1>2, <1>4, <1>5 DEF StartsRecorded, TypeInv
<1>7. FromTheStart(wave_steps)' /\ \A i \in 1..Len(waves') : FromTheStart(waves[i].steps)'
  BY <1>1, <1>2 DEF StartsRecorded, FromTheStart
<1> QED BY <1>1, <1>3, <1>6, <1>7 DEF StartsRecorded

\* A wave that is taken is alive and stands at its first instruction.
LEMMA NextWaveComplete ==
  ASSUME TypeInv, CompleteInv, NEW w \in Waves, NextWave(w) PROVE CompleteInv'
<1>1. /\ pc = "next" /\ w \in todo /\ todo' = todo \ {w} /\ pc' \in {"next", "loop"}
      /\ UNCHANGED <<alive, gpu, scheduler_locked, gpu_threads, waves>>
      /\ (listed' => listed)
  BY DEF NextWave, env
<1> SUFFICES ASSUME scheduler_locked, listed' PROVE EachWaveOnce' /\ StartsRecorded'
  BY <1>1 DEF CompleteInv
<1>2. EachWaveOnce /\ StartsRecorded
  BY <1>1 DEF CompleteInv
<1>3. w \in alive /\ gpu[w].at = 0
  BY <1>1, <1>2 DEF StartsRecorded
<1>4. t' = w /\ wave_steps' = <<>> /\ steps' = 0 /\ pc' = "loop"
  BY <1>3 DEF NextWave, WaveAlive
<1>5. EachWaveOnce'
  BY <1>1, <1>2, <1>4 DEF EachWaveOnce, Traced, Current
<1>6. \A i \in 1..Len(waves') : FromTheStart(waves[i].steps)'
  BY <1>1, <1>2 DEF StartsRecorded, FromTheStart
<1> QED BY <1>1, <1>2, <1>3, <1>4, <1>5, <1>6 DEF StartsRecorded

\* The wave that is appended had not been traced before.
LEMMA AppendComplete ==
  ASSUME TypeInv, ReconstructInv, CompleteInv, AppendWave PROVE CompleteInv'
<1> DEFINE trace == [ptid |-> t, total_steps |-> Len(wave_steps), steps |-> wave_steps]
           n == Len(waves)
<1>1. /\ pc = "append" /\ pc' = "next" /\ waves' = Append(waves, trace) /\ t \in Waves
      /\ UNCHANGED <<alive, gpu, scheduler_locked, gpu_threads, todo, t, listed>>
  BY DEF AppendWave, TypeInv, Tracing, env
<1>2. trace \in Traces /\ trace.ptid = t /\ trace.steps = wave_steps
  BY <1>1 DEF Traces, TypeInv
<1> HIDE DEF trace
<1>3. /\ n \in Nat /\ Len(waves') = n + 1
      /\ \A i \in 1..n : waves'[i] = waves[i]
      /\ waves'[n + 1] = trace
  BY <1>1, <1>2, AppendFacts DEF TypeInv
<1> SUFFICES ASSUME scheduler_locked, listed PROVE EachWaveOnce' /\ StartsRecorded'
  BY <1>1 DEF CompleteInv
<1>4. EachWaveOnce /\ StartsRecorded
  BY <1>1 DEF CompleteInv
<1>5. Traced' = Traced \cup {t}
  <2>1. Traced' = {waves'[i].ptid : i \in 1..(n + 1)}
    BY <1>3 DEF Traced
  <2>2. 1..(n + 1) = 1..n \cup {n + 1}
    BY <1>3
  <2>3. waves'[n + 1].ptid = t /\ \A i \in 1..n : waves'[i].ptid = waves[i].ptid
    BY <1>2, <1>3
  <2>4. ASSUME NEW i \in 1..n PROVE waves[i].ptid \in {waves'[j].ptid : j \in 1..(n + 1)}
    BY <2>2, <2>3
  <2>5. t \in {waves'[j].ptid : j \in 1..(n + 1)}
    BY <2>2, <2>3
  <2>6. ASSUME NEW j \in 1..(n + 1) PROVE waves'[j].ptid \in Traced \cup {t}
    BY <2>2, <2>3 DEF Traced
  <2> QED BY <2>1, <2>4, <2>5, <2>6 DEF Traced
<1>6. t \notin Traced
  BY <1>1 DEF ReconstructInv, CurrentInv, Traced
<1>7. IsFiniteSet(Traced)
  <2>1. waves \in Seq(Traces) /\ \A i \in 1..Len(waves) : waves[i] \in Traces
    BY DEF TypeInv
  <2>2. Traced \in SUBSET Waves
    BY <2>1 DEF Traced, Traces
  <2> QED BY <2>2, TracerAssumption, FS_Subset
<1>8. Len(waves') = Cardinality(Traced')
  <2>1. Cardinality(Traced \cup {t}) = Cardinality(Traced) + 1
    BY <1>6, <1>7, FS_AddElement
  <2>2. n = Cardinality(Traced)
    BY <1>4 DEF EachWaveOnce
  <2> QED BY <1>3, <1>5, <2>1, <2>2
<1>9. EachWaveOnce'
  BY <1>1, <1>4, <1>5, <1>8 DEF EachWaveOnce, Current
<1>10. \A i \in 1..Len(waves') : FromTheStart(waves[i].steps)'
  <2> SUFFICES ASSUME NEW i \in 1..(n + 1) PROVE FromTheStart(waves'[i].steps)
    BY <1>3 DEF FromTheStart
  <2>1. CASE i \in 1..n
    BY <1>3, <1>4, <2>1 DEF StartsRecorded
  <2>2. CASE i = n + 1
    BY <1>1, <1>2, <1>3, <1>4, <2>2 DEF StartsRecorded
  <2> QED BY <1>3, <2>1, <2>2
<1> QED BY <1>1, <1>4, <1>9, <1>10 DEF StartsRecorded

\* Every step keeps what the completeness of the trace rests on.
LEMMA CompleteStep ==
  TypeInv /\ LockInv /\ ReconstructInv /\ CompleteInv /\ [Next]_vars => CompleteInv'
<1> SUFFICES ASSUME TypeInv, LockInv, ReconstructInv, CompleteInv, [Next]_vars
             PROVE  CompleteInv'
  OBVIOUS
<1>1. CASE RunToKernel
  BY <1>1 DEF RunToKernel, CompleteInv
<1>2. CASE FindWaves
  <2>1. /\ pc = "entry" /\ pc' \in {"next", "done"} /\ gpu_threads' = alive /\ todo' = alive
        /\ waves = <<>> /\ UNCHANGED <<alive, gpu, waves>>
        /\ (pc' = "done" => alive = {})
    BY <1>2 DEF FindWaves, TypeInv
  <2>2. Traced' = {} /\ Len(waves') = 0 /\ Cardinality({}) = 0
    BY <2>1, FS_EmptySet DEF Traced
  <2>3. EachWaveOnce'
    BY <2>1, <2>2 DEF EachWaveOnce, Current
  <2>4. StartsRecorded'
    BY <2>1, <2>2 DEF StartsRecorded, CompleteInv, TypeInv
  <2> QED BY <2>1, <2>3, <2>4 DEF CompleteInv
<1>3. CASE CommandFails \/ LoopRaises \/ WriteFile \/ Finally
  <2>1. /\ UNCHANGED <<alive, gpu, scheduler_locked, gpu_threads, todo, t, wave_steps, steps,
                       waves, listed>>
        /\ \/ pc' \in {"failed", "raise"}
           \/ pc' = "done" /\ pc = "write"
           \/ pc' = "write" /\ pc = "next" /\ todo = {}
    BY <1>3 DEF CommandFails, LoopRaises, WriteFile, Finally, env
  <2>2. CASE pc \in {"invoke", "entry"}
    <3>1. pc' \in {"failed", "raise"} /\ waves = <<>> /\ todo = {}
      BY <2>1, <2>2 DEF TypeInv, LockInv
    <3>2. Traced' = {} /\ Len(waves') = 0 /\ Cardinality({}) = 0
      BY <2>1, <3>1, FS_EmptySet DEF Traced
    <3> QED BY <2>1, <3>1, <3>2 DEF CompleteInv, EachWaveOnce, StartsRecorded
  <2>3. CASE pc \notin {"invoke", "entry"}
    <3> SUFFICES ASSUME scheduler_locked, listed PROVE EachWaveOnce' /\ StartsRecorded'
      BY <2>1 DEF CompleteInv
    <3>1. EachWaveOnce /\ StartsRecorded
      BY <2>3 DEF CompleteInv
    <3>2. EachWaveOnce'
      BY <2>1, <3>1, SameCounts DEF Current
    <3>3. \A i \in 1..Len(waves') : FromTheStart(waves[i].steps)'
      BY <2>1, <3>1 DEF StartsRecorded, FromTheStart
    <3> QED BY <2>1, <3>1, <3>2, <3>3 DEF StartsRecorded
  <2> QED BY <2>2, <2>3
<1>4. ASSUME NEW w \in Waves, NextWave(w) PROVE CompleteInv'
  BY <1>4, NextWaveComplete
<1>5. CASE RecordStep
  BY <1>5, RecordComplete
<1>6. CASE LeaveLoop \/ StepiFails
  <2>1. /\ pc \in {"loop", "stepi"} /\ pc' = "append"
        /\ UNCHANGED <<alive, gpu, scheduler_locked, gpu_threads, todo, t, wave_steps, steps,
                       waves>>
        /\ (listed' => listed)
    <3>1. CASE LeaveLoop
      BY <3>1 DEF LeaveLoop, env
    <3>2. CASE StepiFails
      BY <3>2 DEF StepiFails, env
    <3> QED BY <1>6, <3>1, <3>2
  <2> SUFFICES ASSUME scheduler_locked, listed' PROVE EachWaveOnce' /\ StartsRecorded'
    BY <2>1 DEF CompleteInv
  <2>2. EachWaveOnce /\ StartsRecorded
    BY <2>1 DEF CompleteInv
  <2>3. EachWaveOnce'
    BY <2>1, <2>2, SameCounts DEF Current
  <2>4. ASSUME pc = "loop", wave_steps = <<>> PROVE FALSE
    <3>1. steps = 0 /\ t \in alive
      BY <2>2, <2>4 DEF StartsRecorded, FromTheStart
    <3>2. LoopOver(TRUE)
      BY <1>6, <2>4 DEF LeaveLoop, StepiFails
    <3> QED BY <3>1, <3>2, TracerAssumption DEF LoopOver, WaveAlive, WithinCap
  <2>5. FromTheStart(wave_steps)'
    BY <2>1, <2>2, <2>4 DEF StartsRecorded, FromTheStart
  <2>6. \A i \in 1..Len(waves') : FromTheStart(waves[i].steps)'
    BY <2>1, <2>2 DEF StartsRecorded, FromTheStart
  <2> QED BY <2>1, <2>2, <2>3, <2>5, <2>6 DEF StartsRecorded
<1>7. CASE Stepi
  BY <1>7, StepiComplete
<1>8. CASE AppendWave
  BY <1>8, AppendComplete
<1>9. CASE UNCHANGED vars
  <2>1. /\ UNCHANGED <<pc, alive, gpu, scheduler_locked, gpu_threads, todo, t, wave_steps, steps,
                       waves, listed>>
    BY <1>9 DEF vars, env, cmd
  <2> QED BY <2>1 DEF CompleteInv, EachWaveOnce, StartsRecorded, Traced, Current, FromTheStart
<1> QED BY <1>1, <1>2, <1>3, <1>4, <1>5, <1>6, <1>7, <1>8, <1>9 DEF Next

\* Under the scheduler lock, and if the threads could always be listed, the
\* file that is written has every wave found at the kernel exactly once, from
\* its first instruction.
THEOREM TraceIsComplete == Spec => []TraceComplete
<1>1. Init => LockInv /\ ReconstructInv /\ CompleteInv
  <2> SUFFICES ASSUME Init PROVE LockInv /\ ReconstructInv /\ CompleteInv
    OBVIOUS
  <2>1. Len(waves) = 0 /\ todo = {} /\ pc = "invoke"
    BY DEF Init
  <2>2. \A w \in Waves : gpu[w].at = 0
    BY DEF Init
  <2>3. LockInv
    BY <2>1 DEF Init, LockInv, LockReleased, Tracing
  <2> QED BY <2>1, <2>2, <2>3 DEF Init, ReconstructInv, CompleteInv
<1>2. TypeInv /\ CompleteInv => TraceComplete
  <2> SUFFICES ASSUME TypeInv, CompleteInv, pc = "done", scheduler_locked, listed
               PROVE  /\ {file[1][i].ptid : i \in 1..Len(file[1])} = gpu_threads
                      /\ Len(file[1]) = Cardinality(gpu_threads)
                      /\ \A i \in 1..Len(file[1]) :
                           file[1][i].steps # <<>> /\ file[1][i].steps[1].pc = 0
    BY DEF TraceComplete
  <2>1. file[1] = waves /\ todo = {} /\ EachWaveOnce /\ StartsRecorded
    BY DEF TypeInv, CompleteInv
  <2>2. Traced = gpu_threads
    BY <2>1 DEF EachWaveOnce, Current
  <2> QED BY <2>1, <2>2 DEF EachWaveOnce, StartsRecorded, FromTheStart, Traced
<1> QED BY <1>1, <1>2, InitTyping, TypeStep, LockStep, ReconstructStep, CompleteStep, PTL DEF Spec

=============================================================================
