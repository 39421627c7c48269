----------------------------- MODULE GpuTracer -----------------------------
(***************************************************************************)
(* The amdgpu_trace command (gdb/amdgpu_tracer.py): run to a kernel, lock  *)
(* the scheduler, then single-step every wave found there, one wave after  *)
(* the other, recording at each step the registers that changed.           *)
(*                                                                         *)
(* The waves and the stepi command belong to GDB and the GPU (external);   *)
(* everything else is the Python code.  A wave's program is a line of      *)
(* instructions 0..Length, s_endpgm last.                                  *)
(***************************************************************************)
EXTENDS Integers, Sequences, FiniteSets

CONSTANTS
  Waves,      \* GPU threads the kernel may have
  Registers,  \* their registers
  Values,     \* and what these hold
  Length,     \* address of s_endpgm
  Loops,      \* may the program branch backwards?
  max_steps   \* the command's max_steps argument; 0 means no cap

ASSUME TracerAssumption ==
  /\ IsFiniteSet(Waves)
  /\ Length \in Nat
  /\ Loops \in BOOLEAN
  /\ max_steps \in Nat

VARIABLES
  \* GDB and the GPU
  alive,             \* waves that have a thread
  gpu,               \* program counter and registers of each wave
  pending,           \* waves with a breakpoint stop GDB has yet to report
  locked,            \* scheduler-locking is on
  \* AMDGPUTrace.invoke
  pc, scheduler_locked, gpu_threads, todo, t,
  wave_steps, steps, REG_CHANGE_RECORD,
  waves,             \* trace_data["waves"]
  file,              \* the traces written to the output file: one at most
  \* history: what each wave was like at its recorded steps, whether the last
  \* stepi executed an instruction, whether inf.threads() has always worked
  seen, ran, listed

env == <<alive, gpu, pending, locked>>
cmd == <<pc, scheduler_locked, gpu_threads, todo, t, wave_steps, steps,
         REG_CHANGE_RECORD, waves, file>>
vars == <<env, cmd, seen, ran, listed>>

None == "none"
Regs == [Registers -> Values]
WaveState == [at : 0..Length, regs : Regs]

Init ==
  /\ alive = {}
  /\ gpu \in [Waves -> [at : {0}, regs : Regs]]
  /\ pending = {}
  /\ locked = FALSE
  /\ pc = "invoke"
  /\ scheduler_locked = FALSE
  /\ gpu_threads = {} /\ todo = {} /\ t = None
  /\ wave_steps = <<>> /\ steps = 0
  /\ REG_CHANGE_RECORD = <<>>
  /\ waves = <<>>
  /\ file = <<>>
  /\ seen = [w \in Waves |-> <<>>]
  /\ ran = FALSE
  /\ listed = TRUE

\* _wave_alive: the thread is in the list of the inferior.  A list that cannot
\* be had (ok is FALSE) counts as the end of the wave.
WaveAlive(w, ok) == ok /\ w \in alive

\* _at_endpgm of what _disassemble_one returns: s_endpgm is recognised unless
\* the disassembler fails.
AtEndpgm(shown) == shown /\ gpu[t].at = Length

-----------------------------------------------------------------------------
(* Reaching the kernel.                                                    *)

\* Bug: the command believes in a lock it never took.
LockNotTaken == scheduler_locked' = TRUE /\ locked' = FALSE

\* "set scheduler-lock on"; where the target cannot lock, GDB turns the mode
\* off and raises gdb.error.
LockScheduler == \E ok \in BOOLEAN : scheduler_locked' = ok /\ locked' = ok

\* "break" and "continue".  One wave reports the breakpoint; GDB stops the
\* others, and those that had hit it too keep their stop pending.  The
\* program may also end without reaching the kernel.
RunToKernel ==
  /\ pc = "invoke"
  /\ alive' \in SUBSET Waves
  /\ \/ alive' = {} /\ pending' = {}
     \/ \E first \in alive' : pending' \in SUBSET (alive' \ {first})
  /\ LockScheduler
  /\ pc' = "entry"
  /\ UNCHANGED <<gpu, gpu_threads, todo, t, wave_steps, steps,
                 REG_CHANGE_RECORD, waves, file, seen, ran, listed>>

\* The "inf.threads()" list, restricted to GPU threads; without any, the empty
\* trace is written and the lock released at once.
FindWaves ==
  /\ pc = "entry"
  /\ gpu_threads' = alive
  /\ todo' = alive
  /\ IF alive = {}
     THEN pc' = "done" /\ file' = <<waves>> /\ locked' = FALSE
     ELSE pc' = "next" /\ UNCHANGED <<file, locked>>
  /\ UNCHANGED <<alive, gpu, pending, scheduler_locked, t, wave_steps, steps,
                 REG_CHANGE_RECORD, waves, seen, ran, listed>>

\* An error of break, continue, inf.threads() or open() ends the command:
\* these calls are outside its try block, so a lock still held stays.
CommandFails ==
  /\ pc \in {"invoke", "entry", "write"}
  /\ pc' = "failed"
  /\ UNCHANGED <<env, scheduler_locked, gpu_threads, todo, t, wave_steps,
                 steps, REG_CHANGE_RECORD, waves, file, seen, ran, listed>>

-----------------------------------------------------------------------------
(* Tracing the waves.                                                      *)

\* Bug: the values of the previous wave are kept.
RecordKept == UNCHANGED REG_CHANGE_RECORD

\* REG_CHANGE_RECORD.clear()
ClearRecord == REG_CHANGE_RECORD' = <<>>

\* The for loop takes the next thread, and skips it if it is gone.
NextWave(w) ==
  /\ pc = "next"
  /\ w \in todo
  /\ todo' = todo \ {w}
  /\ ClearRecord
  /\ \E ok \in BOOLEAN :
       /\ listed' = (listed /\ ok)
       /\ IF WaveAlive(w, ok)
          THEN t' = w /\ wave_steps' = <<>> /\ steps' = 0 /\ pc' = "loop"
          ELSE UNCHANGED <<t, wave_steps, steps, pc>>
  /\ UNCHANGED <<env, scheduler_locked, gpu_threads, waves, file, seen, ran>>

\* Bug: one step too many.
WithinCapInclusive == max_steps = 0 \/ steps <= max_steps

WithinCap == max_steps = 0 \/ steps < max_steps

\* _read_all_changed_registers: of the registers that can be read, those whose
\* value is not the one recorded last.
Changed(readable, regs) ==
  {r \in readable : \/ r \notin DOMAIN REG_CHANGE_RECORD
                    \/ REG_CHANGE_RECORD[r] # regs[r]}

\* One turn of the while loop up to the append.  The wave is left alone at
\* s_endpgm, unless the disassembler could not show the instruction.
RecordStep ==
  /\ pc = "loop"
  /\ WaveAlive(t, TRUE) /\ WithinCap
  /\ \E readable \in SUBSET Registers, shown \in BOOLEAN :
       LET regs == gpu[t].regs
           new == Changed(readable, regs)
       IN /\ REG_CHANGE_RECORD' =
               [r \in DOMAIN REG_CHANGE_RECORD \cup new |->
                  IF r \in new THEN regs[r] ELSE REG_CHANGE_RECORD[r]]
          /\ wave_steps' = Append(wave_steps,
               [step_index |-> steps, pc |-> gpu[t].at,
                registers |-> [r \in new |-> regs[r]]])
          /\ seen' = [seen EXCEPT ![t] =
               Append(@, [regs |-> [r \in readable |-> regs[r]],
                          ran |-> wave_steps = <<>> \/ ran])]
          /\ pc' = IF AtEndpgm(shown) THEN "append" ELSE "stepi"
  /\ UNCHANGED <<env, scheduler_locked, gpu_threads, todo, t, steps, waves,
                 file, ran, listed>>

\* selected_frame() or a register read raises: nothing inside the loop
\* catches it.
LoopRaises ==
  /\ pc = "loop"
  /\ WaveAlive(t, TRUE) /\ WithinCap
  /\ pc' = "raise"
  /\ UNCHANGED <<env, scheduler_locked, gpu_threads, todo, t, wave_steps,
                 steps, REG_CHANGE_RECORD, waves, file, seen, ran, listed>>

\* Bug: only the cap ends the loop, which retries a thread that is gone.
LoopOverAtCap(ok) == ~WithinCap

\* The condition of the while loop fails.  (The other exit, a failure of
\* t.switch(), needs a thread that is not listed any more.)
LoopOver(ok) == ~WaveAlive(t, ok) \/ ~WithinCap

LeaveLoop ==
  /\ pc = "loop"
  /\ \E ok \in BOOLEAN : LoopOver(ok) /\ listed' = (listed /\ ok)
  /\ pc' = "append"
  /\ UNCHANGED <<env, scheduler_locked, gpu_threads, todo, t, wave_steps,
                 steps, REG_CHANGE_RECORD, waves, file, seen, ran>>

\* Instructions that may follow the one at "a".
Successors(a) == IF Loops THEN 0..Length ELSE {a + 1}

\* What stepi does to the selected wave: report the stop that was pending,
\* execute one instruction, or run off the end of the program.
StepWave(next) ==
  \/ /\ t \in pending
     /\ pending' = pending \ {t}
     /\ ran' = FALSE /\ next = gpu[t] /\ t \in alive'
  \/ /\ t \notin pending /\ gpu[t].at < Length
     /\ next.at \in Successors(gpu[t].at)
     /\ ran' = TRUE /\ t \in alive' /\ UNCHANGED pending
  \/ /\ t \notin pending /\ gpu[t].at = Length
     /\ ran' = TRUE /\ next = gpu[t] /\ t \notin alive' /\ UNCHANGED pending

\* The stepi command.  Waves other than the selected one are held only when
\* the scheduler is locked.
Stepi ==
  /\ pc = "stepi"
  /\ \E next \in WaveState, others \in [Waves \ {t} -> WaveState] :
       /\ alive' \in SUBSET alive
       /\ StepWave(next)
       /\ \A w \in Waves \ {t} :
            \/ others[w] = gpu[w] /\ (w \in alive' <=> w \in alive)
            \/ ~locked /\ w \in alive /\ w \notin pending
       /\ gpu' = [w \in Waves |-> IF w = t THEN next ELSE others[w]]
  /\ steps' = steps + 1
  /\ pc' = "loop"
  /\ UNCHANGED <<locked, scheduler_locked, gpu_threads, todo, t, wave_steps,
                 REG_CHANGE_RECORD, waves, file, seen, listed>>

\* stepi raises gdb.error: the loop is left.
StepiFails ==
  /\ pc = "stepi"
  /\ pc' = "append"
  /\ UNCHANGED <<env, scheduler_locked, gpu_threads, todo, t, wave_steps,
                 steps, REG_CHANGE_RECORD, waves, file, seen, ran, listed>>

\* trace_data["waves"].append
AppendWave ==
  /\ pc = "append"
  /\ waves' = Append(waves, [ptid |-> t, total_steps |-> Len(wave_steps),
                             steps |-> wave_steps])
  /\ pc' = "next"
  /\ UNCHANGED <<env, scheduler_locked, gpu_threads, todo, t, wave_steps,
                 steps, REG_CHANGE_RECORD, file, seen, ran, listed>>

-----------------------------------------------------------------------------
(* Leaving the command.                                                    *)

\* Bug: an exception skips the release.
ReleasedIfNoException == locked' = (locked /\ pc = "raise")

\* "set scheduler-lock off" in the finally clause.
ReleaseLock == locked' = (locked /\ ~scheduler_locked)

\* The finally clause, at the end of the for loop or under an exception.
Finally ==
  /\ \/ pc = "next" /\ todo = {} /\ pc' = "write"
     \/ pc = "raise" /\ pc' = "failed"
  /\ ReleaseLock
  /\ UNCHANGED <<alive, gpu, pending, scheduler_locked, gpu_threads, todo, t,
                 wave_steps, steps, REG_CHANGE_RECORD, waves, file, seen, ran, listed>>

\* json.dump, reached only without an exception.
WriteFile ==
  /\ pc = "write"
  /\ file' = <<waves>>
  /\ pc' = "done"
  /\ UNCHANGED <<env, scheduler_locked, gpu_threads, todo, t, wave_steps,
                 steps, REG_CHANGE_RECORD, waves, seen, ran, listed>>

-----------------------------------------------------------------------------

Next ==
  \/ RunToKernel \/ FindWaves \/ CommandFails
  \/ \E w \in Waves : NextWave(w)
  \/ RecordStep \/ LoopRaises \/ LeaveLoop
  \/ Stepi \/ StepiFails \/ AppendWave
  \/ Finally \/ WriteFile

Spec == Init /\ [][Next]_vars

\* The interpreter runs on and every stepi returns.
FairSpec == Spec /\ WF_vars(Next)

-----------------------------------------------------------------------------
(* Properties.                                                             *)

StepRecord(s) ==
  /\ s.step_index \in Nat /\ s.pc \in 0..Length
  /\ \E R \in SUBSET Registers : s.registers \in [R -> Values]

TypeOK ==
  /\ alive \in SUBSET Waves /\ pending \in SUBSET alive
  /\ gpu \in [Waves -> WaveState]
  /\ locked \in BOOLEAN /\ scheduler_locked \in BOOLEAN
  /\ ran \in BOOLEAN /\ listed \in BOOLEAN
  /\ pc \in {"invoke", "entry", "next", "loop", "stepi", "append", "raise",
             "write", "done", "failed"}
  /\ gpu_threads \in SUBSET Waves /\ todo \in SUBSET gpu_threads
  /\ t \in gpu_threads \cup {None}
  /\ steps \in Nat /\ (max_steps > 0 => steps <= max_steps)
  /\ \E R \in SUBSET Registers : REG_CHANGE_RECORD \in [R -> Values]
  /\ \A k \in 1..Len(wave_steps) : StepRecord(wave_steps[k])
  /\ \A i \in 1..Len(waves) :
       /\ waves[i].ptid \in gpu_threads
       /\ \A k \in 1..Len(waves[i].steps) : StepRecord(waves[i].steps[k])
  /\ file \in {<<>>, <<waves>>}

\* The value the trace gives register r at step k: the last one recorded.
Given(record, k, r, v) == \E j \in 1..k :
  /\ r \in DOMAIN record[j].registers /\ record[j].registers[r] = v
  /\ \A i \in j + 1 .. k : r \notin DOMAIN record[i].registers

\* "record" gives every register that could be read at each step the value it
\* had in wave w at that step.
Reconstructs(w, record) ==
  \A k \in 1..Len(record) : \A r \in DOMAIN seen[w][k].regs :
    Given(record, k, r, seen[w][k].regs[r])

\* Recording only changes loses nothing: from a wave's steps alone, the
\* registers read at any of its steps can be told.
RegistersReconstruct ==
  /\ pc \in {"loop", "stepi", "append"} => Reconstructs(t, wave_steps)
  /\ \A i \in 1..Len(waves) : Reconstructs(waves[i].ptid, waves[i].steps)

\* Under the scheduler lock, and if the threads could always be listed, the
\* file has each wave found at the kernel exactly once, and from its first
\* instruction: tracing one wave moves no other.
TraceComplete ==
  pc = "done" /\ scheduler_locked /\ listed =>
    LET written == file[1]
    IN /\ {written[i].ptid : i \in 1..Len(written)} = gpu_threads
       /\ Len(written) = Cardinality(gpu_threads)
       /\ \A i \in 1..Len(written) :
            written[i].steps # <<>> /\ written[i].steps[1].pc = 0

\* Once tracing has begun, the command leaves the scheduler unlocked however
\* it ends.
LockReleased ==
  pc \in {"write", "done"} \/ (pc = "failed" /\ gpu_threads # {}) => ~locked

\* The command ends, with its file written or with an error, although a wave
\* may loop forever or vanish under it: the cap and _wave_alive see to it.
TraceEnds == <>(pc \in {"done", "failed"})

\* "Traces each GPU wave by single-stepping one instruction at a time": between
\* two recorded steps the wave executed an instruction.
OneInstructionPerStep ==
  \A w \in Waves : \A k \in 1..Len(seen[w]) : seen[w][k].ran

=============================================================================
