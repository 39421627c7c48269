--------------------------- MODULE StepOverProofs ---------------------------
(***************************************************************************)
(* Proofs about StepOver, for any number of waves and of displaced         *)
(* stepping buffers.  A handler of infrun runs loops over the threads,     *)
(* which call stop_all_threads, a loop itself; each loop has a lemma that  *)
(* says where it ends if every pass keeps to given sets of states.         *)
(***************************************************************************)
EXTENDS StepOver, ListTheorems, LoopTheorems, FiniteSetTheorems, TLAPS

\* The waves are numbers, and 0 is none of them.
LEMMA WaveFacts ==
  /\ N \in Nat /\ Buffers \in Nat /\ Waves = 1..N /\ None \notin Waves /\ None = 0
  /\ IsFiniteSet(Waves)
  /\ \A w \in Waves : w \in Nat /\ w - 1 \in Nat /\ w # None
<1>1. N \in Nat /\ Buffers \in Nat
  BY StepOverAssumption
<1>2. IsFiniteSet(1..N)
  BY <1>1, FS_Interval
<1> QED  BY <1>1, <1>2 DEF Waves, None

\* What happens when insert_breakpoints never fails.
Reliable == [does : [Waves -> Outcomes], fails : {{}}]

-----------------------------------------------------------------------------
(* The loops over the threads.                                             *)

\* The loop of stop_all_threads.
LEMMA StopLoop ==
  ASSUME NEW X, NEW s \in X[0], NEW out,
         \A w \in Waves : \A x \in X[w - 1] : StopThread(x, w, out) \in X[w]
  PROVE  StopAllThreads(s, out) \in X[N]
<1> DEFINE Turn(x, w) == StopThread(x, w, out)
           pass == [w \in Waves |-> [x \in X[w - 1] |-> Turn(x, w)]]
           Def(f) == [w \in 0..N |-> IF w = 0 THEN s ELSE StopThread(f[w - 1], w, out)]
<1>1. ASSUME NEW w \in 1..N, NEW x \in X[w - 1]
      PROVE  pass[w][x] = Turn(x, w) /\ Turn(x, w) \in X[w]
  BY DEF Waves
<1> HIDE DEF pass, Turn
<1>2. IsLoop(N, X, pass, s)
  BY <1>1 DEF IsLoop
<1>3. PICK f : IsRun(N, X, pass, s, f)
  BY <1>2, WaveFacts, LoopRuns
<1>4. f = Def(f)
  <2>1. \A w \in 0..N : f[w] = IF w = 0 THEN s ELSE Turn(f[w - 1], w)
    <3>1. \A w \in 0..N : w = 0 \/ (w \in 1..N /\ w - 1 \in 0..N)
      BY WaveFacts
    <3> QED  BY <1>1, <1>3, <3>1 DEF IsRun
  <2>2. f = [w \in 0..N |-> f[w]]
    BY <1>3 DEF IsRun
  <2> QED  BY <2>1, <2>2 DEF Turn
<1> DEFINE after == CHOOSE g : g = Def(g)
<1>5. after = Def(after)
  <2> HIDE DEF Def
  <2> QED  BY <1>4
<1>6. StopAllThreads(s, out) = after[N]
  BY WaveFacts DEF StopAllThreads, EachWave
<1> HIDE DEF after
<1>7. /\ after[0] = s
      /\ \A w \in 1..N : after[w] = Turn(after[w - 1], w)
  <2>1. 0 \in 0..N /\ \A w \in 1..N : w \in 0..N /\ w # 0
    BY WaveFacts
  <2> QED  BY <1>5, <2>1 DEF Turn
<1>8. after[N] \in X[N]
  <2>1. \A w \in 1..N : after[w - 1] \in X[w - 1] => after[w] = pass[w][after[w - 1]]
    BY <1>1, <1>7
  <2> QED  BY <1>2, <1>7, <2>1, WaveFacts, LoopEnds
<1> QED  BY <1>6, <1>8

\* The loop of restart_threads.
LEMMA RestartLoop ==
  ASSUME NEW X, NEW s \in X[0], NEW ev, NEW out,
         \A w \in Waves : \A x \in X[w - 1] : RestartThread(x, ev, w, out) \in X[w]
  PROVE  RestartThreads(s, ev, out) \in X[N]
<1> DEFINE Turn(x, w) == RestartThread(x, ev, w, out)
           pass == [w \in Waves |-> [x \in X[w - 1] |-> Turn(x, w)]]
           Def(f) == [w \in 0..N |-> IF w = 0 THEN s ELSE RestartThread(f[w - 1], ev, w, out)]
<1>1. ASSUME NEW w \in 1..N, NEW x \in X[w - 1]
      PROVE  pass[w][x] = Turn(x, w) /\ Turn(x, w) \in X[w]
  BY DEF Waves
<1> HIDE DEF pass, Turn
<1>2. IsLoop(N, X, pass, s)
  BY <1>1 DEF IsLoop
<1>3. PICK f : IsRun(N, X, pass, s, f)
  BY <1>2, WaveFacts, LoopRuns
<1>4. f = Def(f)
  <2>1. \A w \in 0..N : f[w] = IF w = 0 THEN s ELSE Turn(f[w - 1], w)
    <3>1. \A w \in 0..N : w = 0 \/ (w \in 1..N /\ w - 1 \in 0..N)
      BY WaveFacts
    <3> QED  BY <1>1, <1>3, <3>1 DEF IsRun
  <2>2. f = [w \in 0..N |-> f[w]]
    BY <1>3 DEF IsRun
  <2> QED  BY <2>1, <2>2 DEF Turn
<1> DEFINE after == CHOOSE g : g = Def(g)
<1>5. after = Def(after)
  <2> HIDE DEF Def
  <2> QED  BY <1>4
<1>6. RestartThreads(s, ev, out) = after[N]
  BY WaveFacts DEF RestartThreads, EachWave
<1> HIDE DEF after
<1>7. /\ after[0] = s
      /\ \A w \in 1..N : after[w] = Turn(after[w - 1], w)
  <2>1. 0 \in 0..N /\ \A w \in 1..N : w \in 0..N /\ w # 0
    BY WaveFacts
  <2> QED  BY <1>5, <2>1 DEF Turn
<1>8. after[N] \in X[N]
  <2>1. \A w \in 1..N : after[w - 1] \in X[w - 1] => after[w] = pass[w][after[w - 1]]
    BY <1>1, <1>7
  <2> QED  BY <1>2, <1>7, <2>1, WaveFacts, LoopEnds
<1> QED  BY <1>6, <1>8

\* The loop of proceed that queues threads.
LEMMA QueueLoop ==
  ASSUME NEW X, NEW s \in X[0], NEW ws,
         \A w \in Waves : \A x \in X[w - 1] : QueueThread(x, ws, w) \in X[w]
  PROVE  QueueOthers(s, ws) \in X[N]
<1> DEFINE Turn(x, w) == QueueThread(x, ws, w)
           pass == [w \in Waves |-> [x \in X[w - 1] |-> Turn(x, w)]]
           Def(f) == [w \in 0..N |-> IF w = 0 THEN s ELSE QueueThread(f[w - 1], ws, w)]
<1>1. ASSUME NEW w \in 1..N, NEW x \in X[w - 1]
      PROVE  pass[w][x] = Turn(x, w) /\ Turn(x, w) \in X[w]
  BY DEF Waves
<1> HIDE DEF pass, Turn
<1>2. IsLoop(N, X, pass, s)
  BY <1>1 DEF IsLoop
<1>3. PICK f : IsRun(N, X, pass, s, f)
  BY <1>2, WaveFacts, LoopRuns
<1>4. f = Def(f)
  <2>1. \A w \in 0..N : f[w] = IF w = 0 THEN s ELSE Turn(f[w - 1], w)
    <3>1. \A w \in 0..N : w = 0 \/ (w \in 1..N /\ w - 1 \in 0..N)
      BY WaveFacts
    <3> QED  BY <1>1, <1>3, <3>1 DEF IsRun
  <2>2. f = [w \in 0..N |-> f[w]]
    BY <1>3 DEF IsRun
  <2> QED  BY <2>1, <2>2 DEF Turn
<1> DEFINE after == CHOOSE g : g = Def(g)
<1>5. after = Def(after)
  <2> HIDE DEF Def
  <2> QED  BY <1>4
<1>6. QueueOthers(s, ws) = after[N]
  BY WaveFacts DEF QueueOthers, EachWave
<1> HIDE DEF after
<1>7. /\ after[0] = s
      /\ \A w \in 1..N : after[w] = Turn(after[w - 1], w)
  <2>1. 0 \in 0..N /\ \A w \in 1..N : w \in 0..N /\ w # 0
    BY WaveFacts
  <2> QED  BY <1>5, <2>1 DEF Turn
<1>8. after[N] \in X[N]
  <2>1. \A w \in 1..N : after[w - 1] \in X[w - 1] => after[w] = pass[w][after[w - 1]]
    BY <1>1, <1>7
  <2> QED  BY <1>2, <1>7, <2>1, WaveFacts, LoopEnds
<1> QED  BY <1>6, <1>8

\* The loop of proceed that resumes threads.
LEMMA ResumeLoop ==
  ASSUME NEW X, NEW s \in X[0], NEW ws, NEW out,
         \A w \in Waves : \A x \in X[w - 1] : ResumeChecked(x, ws, w, out) \in X[w]
  PROVE  ResumeAll(s, ws, out) \in X[N]
<1> DEFINE Turn(x, w) == ResumeChecked(x, ws, w, out)
           pass == [w \in Waves |-> [x \in X[w - 1] |-> Turn(x, w)]]
           Def(f) == [w \in 0..N |-> IF w = 0 THEN s ELSE ResumeChecked(f[w - 1], ws, w, out)]
<1>1. ASSUME NEW w \in 1..N, NEW x \in X[w - 1]
      PROVE  pass[w][x] = Turn(x, w) /\ Turn(x, w) \in X[w]
  BY DEF Waves
<1> HIDE DEF pass, Turn
<1>2. IsLoop(N, X, pass, s)
  BY <1>1 DEF IsLoop
<1>3. PICK f : IsRun(N, X, pass, s, f)
  BY <1>2, WaveFacts, LoopRuns
<1>4. f = Def(f)
  <2>1. \A w \in 0..N : f[w] = IF w = 0 THEN s ELSE Turn(f[w - 1], w)
    <3>1. \A w \in 0..N : w = 0 \/ (w \in 1..N /\ w - 1 \in 0..N)
      BY WaveFacts
    <3> QED  BY <1>1, <1>3, <3>1 DEF IsRun
  <2>2. f = [w \in 0..N |-> f[w]]
    BY <1>3 DEF IsRun
  <2> QED  BY <2>1, <2>2 DEF Turn
<1> DEFINE after == CHOOSE g : g = Def(g)
<1>5. after = Def(after)
  <2> HIDE DEF Def
  <2> QED  BY <1>4
<1>6. ResumeAll(s, ws, out) = after[N]
  BY WaveFacts DEF ResumeAll, EachWave
<1> HIDE DEF after
<1>7. /\ after[0] = s
      /\ \A w \in 1..N : after[w] = Turn(after[w - 1], w)
  <2>1. 0 \in 0..N /\ \A w \in 1..N : w \in 0..N /\ w # 0
    BY WaveFacts
  <2> QED  BY <1>5, <2>1 DEF Turn
<1>8. after[N] \in X[N]
  <2>1. \A w \in 1..N : after[w - 1] \in X[w - 1] => after[w] = pass[w][after[w - 1]]
    BY <1>1, <1>7
  <2> QED  BY <1>2, <1>7, <2>1, WaveFacts, LoopEnds
<1> QED  BY <1>6, <1>8

\* The loop of start_step_over, over the queue it took.
LEMMA StepOverLoop ==
  ASSUME NEW X, NEW s, NEW n \in Nat, n = Len(s.chain), s.info = None, NEW out,
         [s EXCEPT !.chain = <<>>] \in X[0],
         \A i \in 1..n : \A x \in X[i - 1] : StepOne(x, s.chain[i], out) \in X[i]
  PROVE  StartStepOver(s, out) \in X[n]
<1> DEFINE s0 == [s EXCEPT !.chain = <<>>]
           Turn(x, i) == StepOne(x, s.chain[i], out)
           pass == [i \in 1..n |-> [x \in X[i - 1] |-> Turn(x, i)]]
           Def(f) == [i \in 0..n |-> IF i = 0 THEN [s EXCEPT !.chain = <<>>]
                                     ELSE StepOne(f[i - 1], s.chain[i], out)]
<1>1. ASSUME NEW i \in 1..n, NEW x \in X[i - 1]
      PROVE  pass[i][x] = Turn(x, i) /\ Turn(x, i) \in X[i]
  OBVIOUS
<1> HIDE DEF pass, Turn
<1>2. IsLoop(n, X, pass, s0)
  BY <1>1 DEF IsLoop
<1>3. PICK f : IsRun(n, X, pass, s0, f)
  BY <1>2, LoopRuns
<1>4. f = Def(f)
  <2>1. \A i \in 0..n : f[i] = IF i = 0 THEN s0 ELSE Turn(f[i - 1], i)
    <3>1. \A i \in 0..n : i = 0 \/ (i \in 1..n /\ i - 1 \in 0..n)
      OBVIOUS
    <3> QED  BY <1>1, <1>3, <3>1 DEF IsRun
  <2>2. f = [i \in 0..n |-> f[i]]
    BY <1>3 DEF IsRun
  <2> QED  BY <2>1, <2>2 DEF Turn
<1> DEFINE after == CHOOSE g : g = Def(g)
<1>5. after = Def(after)
  <2> HIDE DEF Def
  <2> QED  BY <1>4
<1>6. StartStepOver(s, out) = after[n]
  BY DEF StartStepOver
<1> HIDE DEF after
<1>7. /\ after[0] = s0
      /\ \A i \in 1..n : after[i] = Turn(after[i - 1], i)
  <2>1. 0 \in 0..n /\ \A i \in 1..n : i \in 0..n /\ i # 0
    OBVIOUS
  <2> QED  BY <1>5, <2>1 DEF Turn
<1>8. after[n] \in X[n]
  <2>1. \A i \in 1..n : after[i - 1] \in X[i - 1] => after[i] = pass[i][after[i - 1]]
    BY <1>1, <1>7
  <2> HIDE DEF s0
  <2> QED  BY <1>2, <1>7, <2>1, LoopEnds
<1> QED  BY <1>6, <1>8

-----------------------------------------------------------------------------
(* The invariant.  It speaks of a state s of the handlers and of a set E   *)
(* of threads that a handler is about to settle.                           *)

States == {"THREAD_RUNNING", "THREAD_STOPPED", "THREAD_EXITED"}

Fields ==
  [at : [Waves -> Places \cup {"gone"}], event : [Waves -> Events],
   buffers : SUBSET Waves, state : [Waves -> States],
   resumed : [Waves -> BOOLEAN], executing : [Waves -> BOOLEAN],
   pending : [Waves -> Events], stop_requested : [Waves -> BOOLEAN],
   trap_expected : [Waves -> BOOLEAN], over : [Waves -> BOOLEAN],
   stop_pc : [Waves -> BOOLEAN], displaced : SUBSET Waves, map : SUBSET Waves,
   chain : Seq(Waves), info : Waves \cup {None}, failed : {"no"},
   aborted : BOOLEAN, error : BOOLEAN]

\* The thread runs as far as the user knows, but neither does it execute nor is
\* it queued, and it has nothing to report: only restart_threads would resume it.
Paused(s, x) ==
  s.state[x] = "THREAD_RUNNING" /\ ~s.resumed[x] /\ ~InChain(s, x) /\ s.pending[x] = "none"

\* What a resumed thread may be doing.  One that executes either steps over the
\* breakpoint at which it is, out of line or in line, or runs free.
ResumedInv(s, x) ==
  /\ s.event[x] # "none" => s.executing[x]
  /\ s.executing[x] =>
       /\ s.resumed[x] /\ s.pending[x] = "none"
       /\ IF s.trap_expected[x]
          THEN /\ x \in s.displaced \/ x = s.info
               /\ s.event[x] \in {"none", "stop"} => NeedsStepOver(s, x)
          ELSE /\ ~s.over[x]
               /\ non_stop /\ s.event[x] \in {"none", "stop"} => s.at[x] = "none"
  /\ s.resumed[x] =>
       /\ s.state[x] = "THREAD_RUNNING"
       /\ s.executing[x] \/ s.pending[x] # "none"

\* A displaced step, in infrun, in stepping_id_map and in the library.
DisplacedInv(s, x) ==
  /\ x \in s.map <=> x \in s.displaced
  /\ x \in s.buffers => x \in s.displaced /\ s.event[x] # "exit"
  /\ x \in s.displaced => /\ s.executing[x] /\ s.trap_expected[x]
                          /\ x \in s.buffers \/ s.event[x] = "exit"

\* A queued thread needs a step over and is ready for it.
QueuedInv(s, x) ==
  InChain(s, x) => /\ s.state[x] = "THREAD_RUNNING" /\ ~s.resumed[x] /\ ~s.executing[x]
                   /\ ~s.stop_requested[x] /\ ~s.trap_expected[x] /\ NeedsStepOver(s, x)

\* A thread that was paused may run free.  A wave that is gone has said so.  In
\* non-stop, a thread that stopped knows where.
PausedInv(s, x, E) ==
  /\ x \notin E /\ Paused(s, x) =>
       /\ ~s.stop_requested[x] /\ ~s.trap_expected[x] /\ ~NeedsStepOver(s, x)
       /\ non_stop => s.at[x] = "none"
  /\ s.at[x] = "gone" =>
       s.state[x] = "THREAD_EXITED" \/ s.event[x] = "exit" \/ s.pending[x] = "exit"
  /\ non_stop /\ s.state[x] = "THREAD_STOPPED" => s.stop_pc[x]

WaveInv(s, x, E) ==
  ResumedInv(s, x) /\ DisplacedInv(s, x) /\ QueuedInv(s, x) /\ PausedInv(s, x, E)

\* No assertion has failed, no thread is queued twice, the buffers suffice.
Sound(s) ==
  s \in Fields /\ ~s.aborted /\ IsInjective(s.chain) /\ Cardinality(s.buffers) <= Buffers

Base(s, E) == Sound(s) /\ \A x \in Waves : WaveInv(s, x, E)

\* During an in-line step-over only its thread is resumed, and it steps.
InLine(s, x) == s.resumed[x] /\ s.info # None => x = s.info /\ s.trap_expected[x]

Inv(s, E) == Base(s, E) /\ \A x \in Waves : InLine(s, x)

-----------------------------------------------------------------------------
(* What the operations change.                                             *)

\* Two states agree on a thread but for its being resumed.
Calm(s, r, x) ==
  /\ r.at[x] = s.at[x] /\ r.event[x] = s.event[x] /\ r.pending[x] = s.pending[x]
  /\ r.state[x] = s.state[x] /\ r.executing[x] = s.executing[x]
  /\ r.stop_requested[x] = s.stop_requested[x]
  /\ r.trap_expected[x] = s.trap_expected[x]
  /\ r.over[x] = s.over[x] /\ r.stop_pc[x] = s.stop_pc[x]
  /\ (x \in r.displaced <=> x \in s.displaced) /\ (x \in r.map <=> x \in s.map)
  /\ (x \in r.buffers <=> x \in s.buffers) /\ (InChain(r, x) <=> InChain(s, x))

Agree(s, r, x) == Calm(s, r, x) /\ r.resumed[x] = s.resumed[x]

\* Only thread w changes.
Alone(s, r, w) == r.info = s.info /\ \A x \in Waves \ {w} : Agree(s, r, x)

\* A thread on which the states agree keeps its invariant.
LEMMA AgreeInv ==
  ASSUME NEW s, NEW r, NEW x, NEW E, NEW F, r.info = s.info, Agree(s, r, x),
         x \in E => x \in F, WaveInv(s, x, E)
  PROVE  WaveInv(r, x, F)
BY DEF Agree, Calm, WaveInv, ResumedInv, DisplacedInv, QueuedInv, PausedInv, Paused,
       NeedsStepOver, AtBreakpoint

\* The fields of a state, and two states that differ only in the fields F.
Names ==
  {"at", "event", "buffers", "state", "resumed", "executing", "pending",
   "stop_requested", "trap_expected", "over", "stop_pc", "displaced", "map", "chain",
   "info", "failed", "aborted", "error"}

Keeps(s, r, F) == \A f \in Names \ F : r[f] = s[f]

\* A step that changes one thread keeps the invariant if it does for that thread.
LEMMA AloneBase ==
  ASSUME NEW s, NEW r, NEW w \in Waves, NEW E, NEW F, Base(s, E), Alone(s, r, w),
         E \ {w} \subseteq F, Sound(r), WaveInv(r, w, F)
  PROVE  Base(r, F)
<1>1. ASSUME NEW x \in Waves \ {w} PROVE WaveInv(r, x, F)
  BY AgreeInv DEF Base, Alone
<1> QED  BY <1>1 DEF Base

\* The same with the in-line step-over.
LEMMA AloneInv ==
  ASSUME NEW s, NEW r, NEW w \in Waves, NEW E, NEW F, Inv(s, E), Alone(s, r, w),
         E \ {w} \subseteq F, Sound(r), WaveInv(r, w, F), InLine(r, w)
  PROVE  Inv(r, F)
<1>1. Base(r, F)
  BY AloneBase DEF Inv
<1>2. ASSUME NEW x \in Waves \ {w} PROVE InLine(r, x)
  BY DEF Inv, Alone, Agree, Calm, InLine
<1> QED  BY <1>1, <1>2 DEF Inv

\* Excusing more threads.
LEMMA MoreExcused ==
  ASSUME NEW s, NEW E, NEW F, Inv(s, E), E \subseteq F
  PROVE  Inv(s, F)
<1>1. ASSUME NEW x \in Waves PROVE WaveInv(s, x, F)
  BY DEF Inv, Base, WaveInv, PausedInv
<1> QED  BY <1>1 DEF Inv, Base

\* Two steps that change one thread are one.
LEMMA AloneTwice ==
  ASSUME NEW s, NEW a, NEW r, NEW w, Alone(s, a, w), Alone(a, r, w)
  PROVE  Alone(s, r, w)
<1>1. ASSUME NEW x \in Waves \ {w} PROVE Agree(s, r, x)
  BY DEF Alone, Agree, Calm
<1> QED  BY <1>1 DEF Alone

\* An assertion that holds changes nothing.
LEMMA AssertHolds ==
  ASSUME NEW s \in Fields, NEW cond, cond
  PROVE  gdb_assert(s, cond) = s
BY DEF gdb_assert, Fields

\* No handler has failed in a state of Fields.
LEMMA NothingFailed ==
  ASSUME NEW s \in Fields
  PROVE  s.failed = "no" /\ ~Threw(s) /\ CommandAborted(s) = s
<1>1. s.failed = "no"
  BY DEF Fields
<1> QED  BY <1>1 DEF Threw, CommandAborted

\* Every call of insert_breakpoints succeeds.
LEMMA AllInserted ==
  ASSUME NEW out \in Reliable
  PROVE  \A call : call \notin out.fails
BY DEF Reliable

\* That is all there is if insert_breakpoints never fails.
LEMMA ReliableChances ==
  ASSUME ~InsertFails
  PROVE  Chances = Reliable
BY DEF Chances, Reliable

\* The buffers in use can be counted.
LEMMA BuffersFinite ==
  ASSUME NEW s \in Fields
  PROVE  IsFiniteSet(s.buffers) /\ Cardinality(s.buffers) \in Nat
<1>1. s.buffers \subseteq Waves
  BY DEF Fields
<1>2. IsFiniteSet(s.buffers)
  BY <1>1, WaveFacts, FS_Subset
<1> QED  BY <1>2, FS_CardinalityType

\* With fewer buffers in use there are still enough.
LEMMA FewerBuffers ==
  ASSUME NEW s \in Fields, NEW B, B \subseteq s.buffers
  PROVE  Cardinality(B) <= Cardinality(s.buffers)
<1>1. s.buffers \subseteq Waves
  BY DEF Fields
<1>2. IsFiniteSet(s.buffers)
  BY <1>1, WaveFacts, FS_Subset
<1> QED  BY <1>2, FS_Subset

\* The report of a wave.
LEMMA ReportsFacts ==
  ASSUME NEW s \in Fields, NEW w \in Waves, NEW o \in Outcomes
  PROVE  LET r == Reports(s, w, o)
         IN /\ r \in Fields /\ Keeps(s, r, {"at", "event", "buffers"}) /\ Alone(s, r, w)
            /\ r.buffers \subseteq s.buffers
            /\ \/ r.event[w] = "exit" /\ w \notin r.buffers
               \/ /\ r.event[w] = IF s.trap_expected[w] THEN "step" ELSE "bp"
                  /\ r.at[w] \in Places /\ r.buffers = s.buffers
               \/ r.event[w] = "stop" /\ r.at[w] = s.at[w] /\ r.buffers = s.buffers
<1> DEFINE r == Reports(s, w, o)
           stuck == ~s.trap_expected[w] /\ AtBreakpoint(s, w)
           stops == o \in Places /\ (s.trap_expected[w] \/ o # "none")
<1>1. CASE o = "exit" /\ ~stuck
  <2>1. r = [s EXCEPT !.at[w] = "gone", !.event[w] = "exit", !.buffers = @ \ {w}]
    BY <1>1 DEF Reports, Stepping
  <2> HIDE DEF r
  <2>2. /\ r \in Fields /\ Keeps(s, r, {"at", "event", "buffers"})
        /\ r.at = [s.at EXCEPT ![w] = "gone"] /\ r.event = [s.event EXCEPT ![w] = "exit"]
        /\ r.buffers = s.buffers \ {w}
    BY <2>1 DEF Fields, Keeps, Names, Events
  <2>3. ASSUME NEW x \in Waves \ {w} PROVE Agree(s, r, x)
    BY <2>2 DEF Fields, Keeps, Names, Agree, Calm, InChain
  <2>4. Alone(s, r, w) /\ r.event[w] = "exit"
    BY <2>2, <2>3 DEF Fields, Keeps, Names, Alone
  <2> QED  BY <2>2, <2>4 DEF r
<1>2. CASE ~(o = "exit" /\ ~stuck) /\ stops
  <2> DEFINE a == IF stuck THEN s.at[w] ELSE o
             e == IF s.trap_expected[w] THEN "step" ELSE "bp"
  <2>1. r = [s EXCEPT !.at[w] = a, !.event[w] = e]
    BY <1>2 DEF Reports, Stepping
  <2>2. a \in Places /\ e \in Events
    BY <1>2 DEF AtBreakpoint, Breakpoints, Places, Events
  <2> HIDE DEF r, a, e
  <2>3. /\ r \in Fields /\ Keeps(s, r, {"at", "event"})
        /\ r.at = [s.at EXCEPT ![w] = a] /\ r.event = [s.event EXCEPT ![w] = e]
    BY <2>1, <2>2 DEF Fields, Keeps, Names
  <2>4. ASSUME NEW x \in Waves \ {w} PROVE Agree(s, r, x)
    BY <2>3 DEF Fields, Keeps, Names, Agree, Calm, InChain
  <2>5. /\ Alone(s, r, w) /\ r.at[w] \in Places /\ r.event[w] = e
        /\ r.buffers = s.buffers
    BY <2>2, <2>3, <2>4 DEF Fields, Keeps, Names, Alone
  <2>6. Keeps(s, r, {"at", "event", "buffers"})
    BY <2>3 DEF Keeps
  <2> QED  BY <2>3, <2>5, <2>6 DEF r, e
<1>3. CASE ~(o = "exit" /\ ~stuck) /\ ~stops
  <2>1. r = [s EXCEPT !.event[w] = "stop"]
    BY <1>3 DEF Reports, Stepping
  <2> HIDE DEF r
  <2>2. /\ r \in Fields /\ Keeps(s, r, {"event"})
        /\ r.event = [s.event EXCEPT ![w] = "stop"]
    BY <2>1 DEF Fields, Keeps, Names, Events
  <2>3. ASSUME NEW x \in Waves \ {w} PROVE Agree(s, r, x)
    BY <2>2 DEF Fields, Keeps, Names, Agree, Calm, InChain
  <2>4. /\ Alone(s, r, w) /\ r.event[w] = "stop"
        /\ r.at[w] = s.at[w] /\ r.buffers = s.buffers
    BY <2>2, <2>3 DEF Fields, Keeps, Names, Alone
  <2>5. Keeps(s, r, {"at", "event", "buffers"})
    BY <2>2 DEF Keeps
  <2> QED  BY <2>2, <2>4, <2>5 DEF r
<1> QED  BY <1>1, <1>2, <1>3

\* Queueing a thread.
LEMMA EnqueueFacts ==
  ASSUME NEW s \in Fields, NEW w \in Waves, ~InChain(s, w)
  PROVE  LET r == Enqueue(s, w)
         IN /\ r \in Fields /\ Keeps(s, r, {"chain"}) /\ Alone(s, r, w) /\ InChain(r, w)
            /\ IsInjective(s.chain) => IsInjective(r.chain)
<1> DEFINE r == Enqueue(s, w)
           c == Append(s.chain, w)
<1>1. r = [s EXCEPT !.chain = c]
  <2>1. gdb_assert(s, ~InChain(s, w)) = s
    BY AssertHolds
  <2> QED  BY <2>1 DEF Enqueue
<1>2. /\ c \in Seq(Waves) /\ ToSet(c) = ToSet(s.chain) \cup {w}
      /\ IsInjective(s.chain) => IsInjective(c)
  <2>1. s.chain \in Seq(Waves)
    BY DEF Fields
  <2> QED  BY <2>1, AppendFacts DEF InChain
<1> HIDE DEF r, c
<1>3. r \in Fields /\ Keeps(s, r, {"chain"}) /\ r.chain = c
  BY <1>1, <1>2 DEF Fields, Keeps, Names
<1>4. ASSUME NEW x \in Waves \ {w} PROVE Agree(s, r, x)
  BY <1>2, <1>3 DEF Keeps, Names, Agree, Calm, InChain
<1>5. Alone(s, r, w) /\ InChain(r, w)
  BY <1>2, <1>3, <1>4 DEF Keeps, Names, Alone, InChain
<1> QED  BY <1>2, <1>3, <1>5 DEF r

\* Taking a thread out of the queue, if it is there.
LEMMA UnchainFacts ==
  ASSUME NEW s \in Fields, NEW w \in Waves, IsInjective(s.chain)
  PROVE  LET r == Unchain(s, w)
         IN /\ r \in Fields /\ Keeps(s, r, {"chain"}) /\ Alone(s, r, w) /\ ~InChain(r, w)
            /\ IsInjective(r.chain)
<1> DEFINE r == Unchain(s, w)
           k == CHOOSE i \in 1..Len(s.chain) : s.chain[i] = w
           c == IF InChain(s, w) THEN RemoveAt(s.chain, k) ELSE s.chain
<1>1. r = [s EXCEPT !.chain = c]
  BY DEF Unchain
<1>2. s.chain \in Seq(Waves)
  BY DEF Fields
<1>3. c \in Seq(Waves) /\ ToSet(c) = ToSet(s.chain) \ {w} /\ IsInjective(c)
  <2>1. CASE InChain(s, w)
    <3>1. k \in 1..Len(s.chain) /\ s.chain[k] = w
      BY <1>2, <2>1, RangeFacts DEF InChain
    <3> HIDE DEF k
    <3> QED  BY <1>2, <2>1, <3>1, RemoveAtFacts
  <2>2. CASE ~InChain(s, w)
    BY <1>2, <2>2 DEF InChain
  <2> QED  BY <2>1, <2>2
<1> HIDE DEF r, c
<1>4. r \in Fields /\ Keeps(s, r, {"chain"}) /\ r.chain = c
  BY <1>1, <1>3 DEF Fields, Keeps, Names
<1>5. ASSUME NEW x \in Waves \ {w} PROVE Agree(s, r, x)
  BY <1>3, <1>4 DEF Keeps, Names, Agree, Calm, InChain
<1>6. Alone(s, r, w) /\ ~InChain(r, w)
  BY <1>3, <1>4, <1>5 DEF Keeps, Names, Alone, InChain
<1> QED  BY <1>3, <1>4, <1>6 DEF r

-----------------------------------------------------------------------------
(* stop_all_threads.                                                       *)

\* The displaced step of a thread ends in infrun, in stepping_id_map and, unless
\* the wave is gone, in the library.
LEMMA FinishFacts ==
  ASSUME NEW s \in Fields, NEW w \in Waves, NEW ws,
         w \in s.map <=> w \in s.displaced, w \in s.buffers => w \in s.displaced
  PROVE  LET r == DisplacedStepFinish(s, w, ws)
         IN /\ r \in Fields /\ Keeps(s, r, {"displaced", "map", "buffers"}) /\ Alone(s, r, w)
            /\ w \notin r.displaced /\ w \notin r.map /\ r.buffers \subseteq s.buffers
            /\ w \in r.buffers => ws = "exit" /\ w \in s.buffers
<1> DEFINE r == DisplacedStepFinish(s, w, ws)
           b == IF ws = "exit" THEN s.buffers ELSE s.buffers \ {w}
<1>1. CASE w \notin s.displaced
  <2>1. r = s
    BY <1>1 DEF DisplacedStepFinish
  <2>2. Keeps(s, s, {"displaced", "map", "buffers"}) /\ Alone(s, s, w)
    BY DEF Keeps, Alone, Agree, Calm
  <2> HIDE DEF r
  <2> QED  BY <1>1, <2>1, <2>2 DEF r
<1>2. CASE w \in s.displaced
  <2>1. gdb_assert(s, w \in s.map) = s
    BY <1>2, AssertHolds
  <2>2. r = [s EXCEPT !.displaced = @ \ {w}, !.map = @ \ {w}, !.buffers = b]
    BY <1>2, <2>1 DEF DisplacedStepFinish
  <2>3. b \subseteq s.buffers /\ \A x \in Waves \ {w} : x \in b <=> x \in s.buffers
    OBVIOUS
  <2>4. w \in b => ws = "exit" /\ w \in s.buffers
    OBVIOUS
  <2> HIDE DEF r, b
  <2>5. /\ r \in Fields /\ Keeps(s, r, {"displaced", "map", "buffers"})
        /\ r.displaced = s.displaced \ {w} /\ r.map = s.map \ {w} /\ r.buffers = b
    BY <2>2, <2>3 DEF Fields, Keeps, Names
  <2>6. ASSUME NEW x \in Waves \ {w} PROVE Agree(s, r, x)
    BY <2>3, <2>5 DEF Keeps, Names, Agree, Calm, InChain
  <2>7. Alone(s, r, w)
    BY <2>5, <2>6 DEF Keeps, Names, Alone
  <2> QED  BY <2>3, <2>4, <2>5, <2>7 DEF r
<1> QED  BY <1>1, <1>2

\* The event of a stopped thread is saved, and a displaced step that was not
\* executed is queued again.
Handled(s, r, w, ws) ==
  /\ r \in Fields /\ Alone(s, r, w) /\ IsInjective(r.chain)
  /\ Keeps(s, r, Names \ {"at", "state", "over", "info", "aborted", "error"})
  /\ ~r.stop_requested[w] /\ ~r.executing[w] /\ ~r.resumed[w]
  /\ r.event[w] = "none"
  /\ r.pending[w] = IF ws = "stop" THEN s.pending[w] ELSE ws
  /\ w \notin r.displaced /\ w \notin r.map /\ r.buffers \subseteq s.buffers
  /\ w \in r.buffers => ws = "exit" /\ w \in s.buffers
  /\ IF NotExecuted(s, w, ws) THEN InChain(r, w) /\ ~r.trap_expected[w]
     ELSE ~InChain(r, w) /\ r.trap_expected[w] = s.trap_expected[w]

\* That is what handle_one does.
LEMMA HandleOneFacts ==
  ASSUME NEW s \in Fields, NEW w \in Waves, NEW ws \in Events \ {"none"},
         w \in s.map <=> w \in s.displaced, w \in s.buffers => w \in s.displaced,
         ~InChain(s, w), IsInjective(s.chain), s.pending[w] = "none"
  PROVE  Handled(s, HandleOne(s, w, ws), w, ws)
<1> DEFINE r == HandleOne(s, w, ws)
           still == [s EXCEPT !.stop_requested[w] = FALSE, !.executing[w] = FALSE,
                              !.resumed[w] = FALSE, !.event[w] = "none"]
           saved == [SaveWaitstatus(still, w, ws) EXCEPT !.stop_pc[w] = @ \/ ws # "exit"]
           a == IF ws = "stop" THEN still ELSE saved
           f == DisplacedStepFinish(a, w, ws)
           q == [f EXCEPT !.trap_expected[w] = FALSE]
           G == {"stop_requested", "executing", "resumed", "event"}
<1>1. r = Requeue(a, w, ws)
  BY DEF HandleOne
<1>2. /\ still \in Fields /\ Keeps(s, still, G)
      /\ still.stop_requested = [s.stop_requested EXCEPT ![w] = FALSE]
      /\ still.executing = [s.executing EXCEPT ![w] = FALSE]
      /\ still.resumed = [s.resumed EXCEPT ![w] = FALSE]
      /\ still.event = [s.event EXCEPT ![w] = "none"]
  BY DEF Fields, Keeps, Names, Events
<1> HIDE DEF still
<1>3. /\ ~still.stop_requested[w] /\ ~still.executing[w] /\ ~still.resumed[w]
      /\ still.event[w] = "none"
  BY <1>2 DEF Fields
<1>4. Alone(s, still, w)
  <2>1. ASSUME NEW x \in Waves \ {w} PROVE Agree(s, still, x)
    BY <1>2 DEF Fields, Keeps, Names, Agree, Calm, InChain
  <2> QED  BY <1>2, <2>1 DEF Keeps, Names, Alone
<1>5. /\ saved \in Fields /\ Keeps(still, saved, {"pending", "stop_pc"})
      /\ saved.pending[w] = ws /\ Alone(still, saved, w)
  <2> DEFINE p == still.stop_pc[w] \/ ws # "exit"
  <2>1. p \in BOOLEAN /\ saved = [[still EXCEPT !.pending[w] = ws] EXCEPT !.stop_pc[w] = p]
    <3>1. still.pending[w] = "none"
      BY <1>2 DEF Keeps, Names
    <3>2. gdb_assert(still, still.pending[w] = "none") = still
      BY <1>2, <3>1, AssertHolds
    <3>3. SaveWaitstatus(still, w, ws) = [still EXCEPT !.pending[w] = ws]
      BY <3>2, Zenon DEF SaveWaitstatus
    <3>4. [still EXCEPT !.pending[w] = ws].stop_pc = still.stop_pc
      BY <1>2 DEF Fields
    <3>5. p \in BOOLEAN
      BY <1>2 DEF Fields
    <3> QED  BY <3>3, <3>4, <3>5
  <2> HIDE DEF saved, p
  <2>2. /\ saved \in Fields /\ Keeps(still, saved, {"pending", "stop_pc"})
        /\ saved.pending = [still.pending EXCEPT ![w] = ws]
        /\ saved.stop_pc = [still.stop_pc EXCEPT ![w] = p]
    BY <1>2, <2>1 DEF Fields, Keeps, Names
  <2>3. ASSUME NEW x \in Waves \ {w} PROVE Agree(still, saved, x)
    BY <1>2, <2>2 DEF Fields, Keeps, Names, Agree, Calm, InChain
  <2> QED  BY <1>2, <2>2, <2>3 DEF Fields, Keeps, Names, Alone
<1> HIDE DEF saved
<1>6. /\ a \in Fields /\ Keeps(s, a, G \cup {"pending", "stop_pc"}) /\ Alone(s, a, w)
      /\ ~a.stop_requested[w] /\ ~a.executing[w] /\ ~a.resumed[w] /\ a.event[w] = "none"
      /\ a.pending[w] = IF ws = "stop" THEN s.pending[w] ELSE ws
  <2>1. CASE ws = "stop"
    <3>1. a = still
      BY <2>1
    <3> HIDE DEF a
    <3> QED  BY <1>2, <1>3, <1>4, <2>1, <3>1 DEF Keeps, Names
  <2>2. CASE ws # "stop"
    <3>1. a = saved
      BY <2>2
    <3>2. Alone(s, saved, w)
      BY <1>4, <1>5, AloneTwice
    <3> HIDE DEF a
    <3> QED  BY <1>2, <1>3, <1>5, <2>2, <3>1, <3>2 DEF Keeps, Names
  <2> QED  BY <2>1, <2>2
<1> HIDE DEF a
<1>7. /\ a.map = s.map /\ a.displaced = s.displaced /\ a.buffers = s.buffers
      /\ a.chain = s.chain /\ a.trap_expected = s.trap_expected
  BY <1>6 DEF Keeps, Names
<1>8. /\ f \in Fields /\ Keeps(a, f, {"displaced", "map", "buffers"}) /\ Alone(a, f, w)
      /\ w \notin f.displaced /\ w \notin f.map /\ f.buffers \subseteq s.buffers
      /\ w \in f.buffers => ws = "exit" /\ w \in s.buffers
  BY <1>6, <1>7, FinishFacts
<1>9. f.chain = s.chain /\ f.trap_expected = s.trap_expected
  BY <1>7, <1>8 DEF Keeps, Names
<1>10. NotExecuted(a, w, ws) <=> NotExecuted(s, w, ws)
  BY <1>7 DEF NotExecuted
<1> HIDE DEF f
<1>11. CASE ~NotExecuted(s, w, ws)
  <2>1. r = f
    BY <1>1, <1>10, <1>11 DEF Requeue, f
  <2>2. Alone(s, f, w)
    BY <1>6, <1>8, AloneTwice
  <2>3. /\ Keeps(s, f, Names \ {"at", "state", "over", "info", "aborted", "error"})
        /\ ~f.stop_requested[w] /\ ~f.executing[w] /\ ~f.resumed[w]
        /\ f.event[w] = "none" /\ f.pending[w] = a.pending[w]
    BY <1>6, <1>8 DEF Keeps, Names
  <2> HIDE DEF r
  <2> QED  BY <1>6, <1>8, <1>9, <1>11, <2>1, <2>2, <2>3 DEF r, InChain, Handled
<1>12. CASE NotExecuted(s, w, ws)
  <2>1. r = Enqueue(q, w)
    BY <1>1, <1>10, <1>12 DEF Requeue, f
  <2>2. /\ q \in Fields /\ Keeps(f, q, {"trap_expected"})
        /\ q.trap_expected = [f.trap_expected EXCEPT ![w] = FALSE]
    BY <1>8 DEF Fields, Keeps, Names
  <2> HIDE DEF q, r
  <2>3. Alone(f, q, w) /\ ~q.trap_expected[w]
    <3>1. ASSUME NEW x \in Waves \ {w} PROVE Agree(f, q, x)
      <4>1. q.trap_expected[x] = f.trap_expected[x]
        BY <1>8, <2>2 DEF Fields
      <4>2. \A g \in Names \ {"trap_expected"} : q[g] = f[g]
        BY <2>2 DEF Keeps
      <4> QED  BY <4>1, <4>2 DEF Names, Agree, Calm, InChain
    <3> QED  BY <1>8, <2>2, <3>1 DEF Fields, Keeps, Names, Alone
  <2>4. q.chain = s.chain
    BY <1>9, <2>2 DEF Keeps, Names
  <2>5. /\ r \in Fields /\ Keeps(q, r, {"chain"}) /\ Alone(q, r, w) /\ InChain(r, w)
        /\ IsInjective(r.chain)
    BY <2>1, <2>2, <2>4, EnqueueFacts DEF InChain
  <2>6. Alone(s, r, w)
    BY <1>6, <1>8, <2>3, <2>5, AloneTwice
  <2>7. /\ r.stop_requested = a.stop_requested /\ r.executing = a.executing
        /\ r.resumed = a.resumed /\ r.event = a.event /\ r.pending = a.pending
        /\ r.displaced = f.displaced /\ r.map = f.map /\ r.buffers = f.buffers
        /\ r.trap_expected = q.trap_expected
    BY <1>8, <2>2, <2>5 DEF Keeps, Names
  <2>8. Keeps(s, r, Names \ {"at", "state", "over", "info", "aborted", "error"})
    BY <1>6, <1>8, <2>2, <2>5 DEF Keeps, Names
  <2> QED  BY <1>6, <1>8, <1>12, <2>3, <2>5, <2>6, <2>7, <2>8 DEF r, Handled
<1> QED  BY <1>11, <1>12

\* A thread that stop_all_threads stops.  A wave that steps in line, or over
\* which a handler has not yet decided, is excused.
LEMMA StopThreadBase ==
  ASSUME NEW s, NEW E, Base(s, E), s.info \in E \cup {None}, NEW w \in Waves,
         NEW out \in Reliable
  PROVE  LET r == StopThread(s, w, out)
         IN /\ Base(r, E) /\ Alone(s, r, w) /\ r.state[w] = s.state[w] /\ r.error = s.error
            /\ ~r.resumed[w] /\ ~r.executing[w]
            /\ ~s.executing[w] => Calm(s, r, w)
<1> DEFINE r == StopThread(s, w, out)
<1>1. s \in Fields /\ ~s.aborted /\ IsInjective(s.chain) /\ Cardinality(s.buffers) <= Buffers
  BY DEF Base, Sound
<1>2. WaveInv(s, w, E)
  BY DEF Base
<1>3. CASE ~s.executing[w]
  <2>1. r = [s EXCEPT !.resumed[w] = FALSE]
    BY <1>3 DEF StopThread
  <2> HIDE DEF r
  <2>2. /\ r \in Fields /\ Keeps(s, r, {"resumed"})
        /\ r.resumed = [s.resumed EXCEPT ![w] = FALSE]
    BY <1>1, <2>1 DEF Fields, Keeps, Names
  <2>3. ASSUME NEW x \in Waves \ {w} PROVE Agree(s, r, x)
    BY <1>1, <2>2 DEF Fields, Keeps, Names, Agree, Calm, InChain
  <2>4. Alone(s, r, w) /\ Calm(s, r, w) /\ ~r.resumed[w] /\ r.error = s.error
    BY <1>1, <2>2, <2>3 DEF Fields, Keeps, Names, Alone, Calm, InChain
  <2>5. Sound(r)
    BY <1>1, <2>2 DEF Sound, Keeps, Names
  <2>6. WaveInv(r, w, E)
    BY <1>2, <1>3, <2>4 DEF Alone, Calm, WaveInv, ResumedInv, DisplacedInv, QueuedInv,
       PausedInv, Paused, NeedsStepOver, AtBreakpoint
  <2>7. Base(r, E)
    BY <2>4, <2>5, <2>6, AloneBase
  <2> QED  BY <1>3, <2>4, <2>7 DEF r, Calm
<1>4. CASE s.executing[w]
  <2> DEFINE a == IF s.event[w] = "none" THEN Reports(s, w, out.does[w]) ELSE s
             ws == a.event[w]
  <2>1. r = HandleOne(a, w, ws)
    BY <1>4 DEF StopThread
  <2>2. /\ a \in Fields /\ Keeps(s, a, {"at", "event", "buffers"}) /\ Alone(s, a, w)
        /\ a.buffers \subseteq s.buffers
        /\ IF s.event[w] # "none" THEN a = s
           ELSE \/ a.event[w] = "exit" /\ w \notin a.buffers
                \/ /\ a.event[w] = IF s.trap_expected[w] THEN "step" ELSE "bp"
                   /\ a.at[w] \in Places /\ a.buffers = s.buffers
                \/ a.event[w] = "stop" /\ a.at[w] = s.at[w] /\ a.buffers = s.buffers
    <3>1. CASE s.event[w] = "none"
      <4>1. out.does[w] \in Outcomes /\ a = Reports(s, w, out.does[w])
        BY <3>1 DEF Reliable
      <4> HIDE DEF a
      <4> QED  BY <1>1, <3>1, <4>1, ReportsFacts
    <3>2. CASE s.event[w] # "none"
      <4>1. a = s
        BY <3>2
      <4> HIDE DEF a
      <4> QED  BY <1>1, <3>2, <4>1 DEF Keeps, Alone, Agree, Calm
    <3> QED  BY <3>1, <3>2
  <2> HIDE DEF a
  <2>3. /\ a.state = s.state /\ a.resumed = s.resumed /\ a.executing = s.executing
        /\ a.pending = s.pending /\ a.trap_expected = s.trap_expected
        /\ a.over = s.over /\ a.displaced = s.displaced /\ a.map = s.map
        /\ a.chain = s.chain /\ a.info = s.info /\ a.aborted = s.aborted
        /\ a.error = s.error
    BY <2>2 DEF Keeps, Names
  <2>4. ws \in Events \ {"none"}
    BY <1>1, <2>2 DEF Fields, Events
  <2>5. /\ w \in a.map <=> w \in a.displaced
        /\ w \in a.buffers => w \in a.displaced /\ ws # "exit"
        /\ ~InChain(a, w)
    BY <1>2, <1>4, <2>2, <2>3 DEF WaveInv, DisplacedInv, QueuedInv, InChain
  <2> HIDE DEF ws, r
  <2>6. /\ r \in Fields /\ Alone(a, r, w) /\ IsInjective(r.chain)
        /\ Keeps(a, r, Names \ {"at", "state", "over", "info", "aborted", "error"})
        /\ ~r.stop_requested[w] /\ ~r.executing[w] /\ ~r.resumed[w]
        /\ r.event[w] = "none"
        /\ r.pending[w] = IF ws = "stop" THEN a.pending[w] ELSE ws
        /\ w \notin r.displaced /\ w \notin r.map /\ r.buffers \subseteq a.buffers
        /\ w \in r.buffers => ws = "exit" /\ w \in a.buffers
        /\ IF NotExecuted(a, w, ws) THEN InChain(r, w) /\ ~r.trap_expected[w]
           ELSE ~InChain(r, w) /\ r.trap_expected[w] = a.trap_expected[w]
    <3>1. /\ a \in Fields /\ IsInjective(a.chain) /\ a.pending[w] = "none"
          /\ w \in a.buffers => w \in a.displaced
      BY <1>1, <1>2, <1>4, <2>2, <2>3, <2>5 DEF WaveInv, ResumedInv
    <3>2. Handled(a, r, w, ws)
      BY <2>1, <2>4, <2>5, <3>1, HandleOneFacts
    <3> QED  BY <3>2, Zenon DEF Handled
  <2>7. /\ r.at = a.at /\ r.state = s.state /\ r.over = s.over /\ r.info = s.info
        /\ r.aborted = s.aborted /\ r.error = s.error
    BY <2>3, <2>6 DEF Keeps, Names
  <2>8. Alone(s, r, w)
    BY <2>2, <2>6, AloneTwice
  <2>9. Sound(r)
    <3>1. r.buffers \subseteq s.buffers
      BY <2>2, <2>6
    <3>2. Cardinality(r.buffers) <= Buffers
      <4>1. Cardinality(r.buffers) \in Nat /\ Cardinality(s.buffers) \in Nat
        BY <1>1, <2>6, BuffersFinite
      <4> QED  BY <1>1, <3>1, <4>1, FewerBuffers, WaveFacts
    <3> QED  BY <1>1, <2>6, <2>7, <3>2 DEF Sound
  <2>10. WaveInv(r, w, E)
    <3>1. s.resumed[w] /\ s.pending[w] = "none" /\ s.state[w] = "THREAD_RUNNING"
      BY <1>2, <1>4 DEF WaveInv, ResumedInv
    <3>2. ResumedInv(r, w) /\ DisplacedInv(r, w)
      BY <2>5, <2>6 DEF ResumedInv, DisplacedInv
    <3>3. QueuedInv(r, w)
      <4>1. SUFFICES ASSUME NotExecuted(a, w, ws) PROVE NeedsStepOver(r, w)
        BY <2>6, <2>7, <3>1 DEF QueuedInv
      <4>2. s.trap_expected[w] /\ s.event[w] \in {"none", "stop"} /\ a.at[w] = s.at[w]
        BY <1>2, <2>2, <2>3, <4>1 DEF NotExecuted, ws, WaveInv, DisplacedInv
      <4> QED  BY <1>2, <1>4, <2>7, <4>2 DEF WaveInv, ResumedInv, NeedsStepOver, AtBreakpoint
    <3>4. PausedInv(r, w, E)
      <4>1. ASSUME w \notin E, Paused(r, w)
            PROVE  ~r.trap_expected[w] /\ ~NeedsStepOver(r, w) /\ (non_stop => r.at[w] = "none")
        <5>1. ws = "stop" /\ ~NotExecuted(a, w, ws)
          BY <2>4, <2>6, <4>1 DEF Paused
        <5>2. w \notin s.displaced /\ w # s.info
          BY <2>3, <4>1, <5>1, WaveFacts DEF NotExecuted
        <5>3. ~s.trap_expected[w] /\ ~s.over[w]
          BY <1>2, <1>4, <5>2 DEF WaveInv, ResumedInv
        <5>4. s.event[w] \in {"none", "stop"} /\ a.at[w] = s.at[w]
          BY <2>2, <5>1 DEF ws
        <5>5. non_stop => s.at[w] = "none"
          BY <1>2, <1>4, <5>3, <5>4 DEF WaveInv, ResumedInv
        <5> QED  BY <2>3, <2>6, <2>7, <5>1, <5>3, <5>4, <5>5 DEF NeedsStepOver
      <4>2. r.at[w] = "gone" => r.pending[w] = "exit"
        <5>1. ASSUME a.at[w] = "gone" PROVE ws = "exit"
          BY <1>2, <2>2, <3>1, <5>1 DEF ws, WaveInv, PausedInv, Places
        <5> QED  BY <2>6, <2>7, <5>1
      <4> QED  BY <2>6, <2>7, <3>1, <4>1, <4>2 DEF PausedInv
    <3> QED  BY <3>2, <3>3, <3>4 DEF WaveInv
  <2>11. Base(r, E)
    BY <2>8, <2>9, <2>10, AloneBase
  <2> QED  BY <1>4, <2>6, <2>7, <2>8, <2>11 DEF r
<1> QED  BY <1>3, <1>4

\* stop_all_threads: nothing runs any more, and the threads that did not execute
\* are as they were.
LEMMA StopAllInv ==
  ASSUME NEW s, NEW E, Base(s, E), s.info \in E \cup {None}, NEW out \in Reliable
  PROVE  LET r == StopAllThreads(s, out)
         IN /\ Inv(r, E) /\ r.info = s.info /\ r.error = s.error
            /\ \A x \in Waves : /\ ~r.resumed[x] /\ ~r.executing[x] /\ r.state[x] = s.state[x]
                                /\ ~s.executing[x] => Calm(s, r, x)
<1> DEFINE Good(a, i, x) ==
             /\ a.state[x] = s.state[x] /\ (~s.executing[x] => Calm(s, a, x))
             /\ x <= i => ~a.resumed[x] /\ ~a.executing[x]
             /\ x > i => Agree(s, a, x)
           X == [i \in 0..N |->
                   {a \in Fields : /\ Base(a, E) /\ a.info = s.info /\ a.error = s.error
                                   /\ \A x \in Waves : Good(a, i, x)}]
<1>1. s \in X[0]
  <2>1. \A x \in Waves : x > 0 /\ ~(x <= 0)
    BY WaveFacts
  <2>2. \A x \in Waves : Good(s, 0, x)
    BY <2>1 DEF Agree, Calm
  <2>3. s \in Fields /\ 0 \in 0..N
    BY WaveFacts DEF Base, Sound
  <2> QED  BY <2>2, <2>3
<1>2. ASSUME NEW w \in Waves, NEW a \in X[w - 1] PROVE StopThread(a, w, out) \in X[w]
  <2> DEFINE r == StopThread(a, w, out)
  <2>1. w \in 0..N /\ w - 1 \in 0..N /\ w \in Nat
    BY WaveFacts
  <2>2. /\ Base(a, E) /\ a.info = s.info /\ a.error = s.error
        /\ \A x \in Waves : Good(a, w - 1, x)
    BY <2>1
  <2>3. /\ Base(r, E) /\ Alone(a, r, w) /\ r.state[w] = a.state[w] /\ r.error = a.error
        /\ ~r.resumed[w] /\ ~r.executing[w]
        /\ ~a.executing[w] => Calm(a, r, w)
    BY <2>2, StopThreadBase
  <2> HIDE DEF r
  <2>4. ASSUME NEW x \in Waves PROVE Good(r, w, x)
    <3>1. x \in Nat /\ (x <= w <=> x <= w - 1 \/ x = w) /\ (x > w => x > w - 1 /\ x # w)
          /\ (w > w - 1) /\ ~(w > w)
      BY <2>1, WaveFacts
    <3>2. CASE x # w
      BY <2>2, <2>3, <3>1, <3>2 DEF Alone, Agree, Calm
    <3>3. CASE x = w
      BY <2>2, <2>3, <3>1, <3>3 DEF Agree, Calm
    <3> QED  BY <3>2, <3>3
  <2>5. r \in Fields /\ r.info = s.info /\ r.error = s.error
    BY <2>2, <2>3 DEF Base, Sound, Alone
  <2>6. r \in X[w]
    BY <2>1, <2>3, <2>4, <2>5
  <2> QED  BY <2>6 DEF r
<1> HIDE DEF X
<1>3. StopAllThreads(s, out) \in X[N]
  BY <1>1, <1>2, StopLoop
<1> DEFINE r == StopAllThreads(s, out)
<1> HIDE DEF r
<1>4. /\ Base(r, E) /\ r.info = s.info /\ r.error = s.error
      /\ \A x \in Waves : Good(r, N, x)
  BY <1>3, WaveFacts DEF X, r
<1>5. \A x \in Waves : x <= N
  BY WaveFacts
<1>6. Inv(r, E)
  BY <1>4, <1>5 DEF Inv, InLine
<1> QED  BY <1>4, <1>5, <1>6 DEF r

-----------------------------------------------------------------------------
(* Resuming a thread.                                                      *)

\* A thread that may be resumed: it is stopped, nobody waits for it, and in
\* non-stop it has no breakpoint under it but the one it is to step over.
Ready(s, w) ==
  /\ s.state[w] = "THREAD_RUNNING" /\ ~s.resumed[w] /\ ~s.executing[w] /\ ~InChain(s, w)
  /\ ~s.stop_requested[w] /\ ~s.trap_expected[w]
  /\ non_stop => NeedsStepOver(s, w) \/ s.at[w] = "none"

\* An in-line step-over of w has started and paused every other thread.
Aside(s, r, w) ==
  /\ s.info = None /\ r.info = w /\ r.trap_expected[w]
  /\ \A x \in Waves \ {w} : /\ ~r.resumed[x] /\ r.state[x] = s.state[x]
                            /\ ~s.executing[x] => Calm(s, r, x)

\* The thread is resumed; it executes only if it has no event to report.
Marked(s, w) == [s EXCEPT !.resumed[w] = TRUE]

\* What resume_1 does to a thread with a pending event.
LEMMA MarkedFacts ==
  ASSUME NEW s \in Fields, NEW w \in Waves
  PROVE  LET r == Marked(s, w)
         IN r \in Fields /\ Keeps(s, r, {"resumed"}) /\ Alone(s, r, w) /\ r.resumed[w]
<1> DEFINE r == Marked(s, w)
<1>1. /\ r \in Fields /\ Keeps(s, r, {"resumed"})
      /\ r.resumed = [s.resumed EXCEPT ![w] = TRUE]
  BY DEF Marked, Fields, Keeps, Names
<1> HIDE DEF r
<1>2. ASSUME NEW x \in Waves \ {w} PROVE Agree(s, r, x)
  BY <1>1 DEF Fields, Keeps, Names, Agree, Calm, InChain
<1>3. Alone(s, r, w) /\ r.resumed[w]
  BY <1>1, <1>2 DEF Fields, Keeps, Names, Alone
<1> QED  BY <1>1, <1>3 DEF r

\* What do_target_resume changes.
LEMMA GoFacts ==
  ASSUME NEW s \in Fields, NEW w \in Waves
  PROVE  LET r == Go(s, w)
         IN /\ r \in Fields /\ Keeps(s, r, {"resumed", "executing", "stop_pc"})
            /\ Alone(s, r, w) /\ r.resumed[w] /\ r.executing[w]
<1> DEFINE r == Go(s, w)
<1>1. /\ r \in Fields /\ Keeps(s, r, {"resumed", "executing", "stop_pc"})
      /\ r.resumed = [s.resumed EXCEPT ![w] = TRUE]
      /\ r.executing = [s.executing EXCEPT ![w] = TRUE]
      /\ r.stop_pc = [s.stop_pc EXCEPT ![w] = FALSE]
  BY DEF Go, Fields, Keeps, Names
<1> HIDE DEF r
<1>2. ASSUME NEW x \in Waves \ {w} PROVE Agree(s, r, x)
  BY <1>1 DEF Fields, Keeps, Names, Agree, Calm, InChain
<1>3. Alone(s, r, w) /\ r.resumed[w] /\ r.executing[w]
  BY <1>1, <1>2 DEF Fields, Keeps, Names, Alone
<1> QED  BY <1>1, <1>3 DEF r

\* The thread expects, or no longer expects, the trap of a step.
Trapping(s, w, b) == [s EXCEPT !.trap_expected[w] = b]

\* What setting trap_expected changes.
LEMMA TrappingFacts ==
  ASSUME NEW s \in Fields, NEW w \in Waves, NEW b \in BOOLEAN
  PROVE  LET r == Trapping(s, w, b)
         IN /\ r \in Fields /\ Keeps(s, r, {"trap_expected"})
            /\ Alone(s, r, w) /\ r.trap_expected[w] = b
<1> DEFINE r == Trapping(s, w, b)
<1>1. /\ r \in Fields /\ Keeps(s, r, {"trap_expected"})
      /\ r.trap_expected = [s.trap_expected EXCEPT ![w] = b]
  BY DEF Trapping, Fields, Keeps, Names
<1> HIDE DEF r
<1>2. ASSUME NEW x \in Waves \ {w} PROVE Agree(s, r, x)
  BY <1>1 DEF Fields, Keeps, Names, Agree, Calm, InChain
<1>3. Alone(s, r, w) /\ r.trap_expected[w] = b
  BY <1>1, <1>2 DEF Fields, Keeps, Names, Alone
<1> QED  BY <1>1, <1>3 DEF r

\* A displaced step-over that starts has a buffer in the library.
Displacing(s, w) ==
  [s EXCEPT !.displaced = @ \cup {w}, !.map = @ \cup {w}, !.buffers = @ \cup {w}]

\* What displaced_step_prepare changes when it gets a buffer.
LEMMA DisplacingFacts ==
  ASSUME NEW s \in Fields, NEW w \in Waves, w \notin s.buffers
  PROVE  LET r == Displacing(s, w)
         IN /\ r \in Fields /\ Keeps(s, r, {"displaced", "map", "buffers"})
            /\ Alone(s, r, w) /\ w \in r.displaced /\ w \in r.map /\ w \in r.buffers
            /\ Cardinality(s.buffers) < Buffers => Cardinality(r.buffers) <= Buffers
<1> DEFINE r == Displacing(s, w)
<1>1. /\ r \in Fields /\ Keeps(s, r, {"displaced", "map", "buffers"})
      /\ r.displaced = s.displaced \cup {w} /\ r.map = s.map \cup {w}
      /\ r.buffers = s.buffers \cup {w}
  BY DEF Displacing, Fields, Keeps, Names
<1> HIDE DEF r
<1>2. ASSUME NEW x \in Waves \ {w} PROVE Agree(s, r, x)
  BY <1>1 DEF Keeps, Names, Agree, Calm, InChain
<1>3. Alone(s, r, w) /\ w \in r.displaced /\ w \in r.map /\ w \in r.buffers
  BY <1>1, <1>2 DEF Keeps, Names, Alone
<1>4. Cardinality(s.buffers) < Buffers => Cardinality(r.buffers) <= Buffers
  <2>1. /\ IsFiniteSet(s.buffers) /\ Cardinality(s.buffers) \in Nat
        /\ Cardinality(s.buffers \cup {w}) = Cardinality(s.buffers) + 1
    BY BuffersFinite, FS_AddElement
  <2> QED  BY <1>1, <2>1, WaveFacts
<1> QED  BY <1>1, <1>3, <1>4 DEF r

\* What resume_1 is called on: the thread steps exactly if it is over a breakpoint.
Set(s, w) ==
  /\ s.state[w] = "THREAD_RUNNING" /\ ~s.resumed[w] /\ ~s.executing[w] /\ ~InChain(s, w)
  /\ ~s.stop_requested[w] /\ s.trap_expected[w] = s.over[w]
  /\ IF s.over[w] THEN AtBreakpoint(s, w) ELSE non_stop => s.at[w] = "none"
  /\ s.info # None => s.info = w /\ s.trap_expected[w]
  /\ s.trap_expected[w] => use_displaced \/ s.info = w

\* A thread that is about to execute: it steps over the breakpoint under it, out
\* of line or in line, or runs free.
Going(s, w) ==
  /\ s.state[w] = "THREAD_RUNNING" /\ s.event[w] = "none" /\ s.pending[w] = "none"
  /\ ~InChain(s, w) /\ s.at[w] # "gone" /\ s.trap_expected[w] = s.over[w]
  /\ IF s.over[w] THEN AtBreakpoint(s, w) /\ (w \in s.displaced \/ w = s.info)
     ELSE (non_stop => s.at[w] = "none") /\ s.info = None /\ w \notin s.displaced
  /\ s.info # None => s.info = w
  /\ (w \in s.map <=> w \in s.displaced) /\ (w \in s.buffers <=> w \in s.displaced)

\* do_target_resume keeps the invariant and settles its thread.
LEMMA GoInv ==
  ASSUME NEW s, NEW E, NEW w \in E, E \subseteq Waves, Sound(s), Going(s, w),
         \A x \in Waves \ {w} : WaveInv(s, x, E) /\ InLine(s, x)
  PROVE  LET r == Go(s, w)
         IN /\ Inv(r, E \ {w}) /\ Alone(s, r, w) /\ r.resumed[w] /\ ~InChain(r, w)
            /\ r.state[w] = s.state[w] /\ r.error = s.error
<1> DEFINE r == Go(s, w)
<1>1. /\ r \in Fields /\ Keeps(s, r, {"resumed", "executing", "stop_pc"})
      /\ Alone(s, r, w) /\ r.resumed[w] /\ r.executing[w]
  BY GoFacts DEF Sound
<1> HIDE DEF r
<1>2. /\ r.at = s.at /\ r.event = s.event /\ r.buffers = s.buffers /\ r.state = s.state
      /\ r.pending = s.pending /\ r.stop_requested = s.stop_requested
      /\ r.trap_expected = s.trap_expected /\ r.over = s.over /\ r.displaced = s.displaced
      /\ r.map = s.map /\ r.chain = s.chain /\ r.info = s.info
      /\ r.aborted = s.aborted /\ r.error = s.error
  BY <1>1 DEF Keeps, Names
<1>3. Sound(r)
  BY <1>1, <1>2 DEF Sound
<1>4. ~InChain(r, w)
  BY <1>2 DEF InChain, Going
<1>5. ResumedInv(r, w)
  BY <1>1, <1>2 DEF ResumedInv, NeedsStepOver, AtBreakpoint, Going
<1>6. DisplacedInv(r, w) /\ QueuedInv(r, w) /\ InLine(r, w)
  BY <1>1, <1>2, <1>4 DEF DisplacedInv, QueuedInv, InLine, Going
<1>7. PausedInv(r, w, E \ {w})
  BY <1>1, <1>2 DEF PausedInv, Paused, Going
<1>8. ASSUME NEW x \in Waves \ {w} PROVE WaveInv(r, x, E \ {w}) /\ InLine(r, x)
  <2>1. Agree(s, r, x) /\ r.info = s.info /\ (x \in E => x \in E \ {w})
    BY <1>1 DEF Alone
  <2>2. WaveInv(r, x, E \ {w})
    BY <2>1, AgreeInv
  <2> QED  BY <2>1, <2>2 DEF InLine, Agree, Calm
<1>9. WaveInv(r, w, E \ {w})
  BY <1>5, <1>6, <1>7 DEF WaveInv
<1>10. Inv(r, E \ {w})
  BY <1>3, <1>6, <1>8, <1>9 DEF Inv, Base
<1> QED  BY <1>1, <1>2, <1>4, <1>10 DEF r

\* resume_1: the thread is resumed, or waits for a buffer, or, where it cannot be
\* displaced, steps in line.
LEMMA ResumeInv ==
  ASSUME NEW s, NEW E, E \subseteq Waves, Inv(s, E), NEW w \in E, Set(s, w),
         NEW out \in Reliable
  PROVE  LET r == Resume(s, w, out)
         IN /\ Inv(r, E \ {w}) /\ r.state[w] = s.state[w] /\ r.error = s.error
            /\ r.resumed[w] <=> ~InChain(r, w)
            /\ Alone(s, r, w) \/ Aside(s, r, w)
            /\ ~s.trap_expected[w] \/ s.info # None => Alone(s, r, w) /\ r.resumed[w]
<1> DEFINE r == Resume(s, w, out)
<1> USE DEF Set
<1>1. s \in Fields /\ Sound(s) /\ WaveInv(s, w, E) /\ w \in Waves
  BY DEF Inv, Base, Sound
<1>2. gdb_assert(s, ~s.stop_requested[w] /\ ~InChain(s, w)) = s
  BY <1>1, AssertHolds
<1>3. s.event[w] = "none" /\ w \notin s.displaced /\ w \notin s.map /\ w \notin s.buffers
  BY <1>1 DEF WaveInv, ResumedInv, DisplacedInv
<1>4. CASE s.pending[w] # "none"
  <2>1. r = Marked(s, w)
    BY <1>2, <1>4 DEF Resume, Marked
  <2> HIDE DEF r
  <2>2. r \in Fields /\ Keeps(s, r, {"resumed"}) /\ Alone(s, r, w) /\ r.resumed[w]
    BY <1>1, <2>1, MarkedFacts
  <2>3. /\ r.at = s.at /\ r.event = s.event /\ r.buffers = s.buffers /\ r.state = s.state
        /\ r.pending = s.pending /\ r.trap_expected = s.trap_expected /\ r.over = s.over
        /\ r.displaced = s.displaced /\ r.executing = s.executing /\ r.map = s.map
        /\ r.chain = s.chain /\ r.info = s.info /\ r.aborted = s.aborted
        /\ r.error = s.error /\ r.stop_pc = s.stop_pc
    BY <2>2 DEF Keeps, Names
  <2>4. Sound(r) /\ ~InChain(r, w)
    BY <1>1, <2>2, <2>3 DEF Sound, InChain
  <2>5. WaveInv(r, w, E \ {w}) /\ InLine(r, w)
    <3>1. ResumedInv(r, w) /\ DisplacedInv(r, w) /\ QueuedInv(r, w) /\ InLine(r, w)
      BY <1>3, <1>4, <2>2, <2>3, <2>4 DEF ResumedInv, DisplacedInv, QueuedInv, InLine
    <3>2. PausedInv(r, w, E \ {w})
      BY <1>1, <2>2, <2>3 DEF WaveInv, PausedInv, Paused
    <3> QED  BY <3>1, <3>2 DEF WaveInv
  <2>6. Inv(r, E \ {w})
    BY <1>1, <2>2, <2>4, <2>5, AloneInv
  <2> QED  BY <2>2, <2>3, <2>4, <2>6 DEF r
<1>5. CASE s.pending[w] = "none" /\ ~(s.trap_expected[w] /\ use_displaced /\ s.info = None)
  <2>1. r = Go(s, w)
    BY <1>2, <1>5 DEF Resume
  <2>2. s.at[w] # "gone"
    BY <1>1, <1>3, <1>5 DEF WaveInv, PausedInv
  <2>3. Going(s, w)
    BY <1>3, <1>5, <2>2 DEF Going
  <2> HIDE DEF r
  <2>4. \A x \in Waves \ {w} : WaveInv(s, x, E) /\ InLine(s, x)
    BY DEF Inv, Base
  <2>5. /\ Inv(r, E \ {w}) /\ Alone(s, r, w) /\ r.resumed[w] /\ ~InChain(r, w)
        /\ r.state[w] = s.state[w] /\ r.error = s.error
    BY <1>1, <2>1, <2>3, <2>4, GoInv
  <2> QED  BY <2>5 DEF r
<1>6. CASE s.pending[w] = "none" /\ s.trap_expected[w] /\ use_displaced /\ s.info = None
  <2>1. r = DisplacedStepPrepare(s, w, out)
    BY <1>2, <1>6 DEF Resume
  <2>2. s.at[w] # "gone" /\ NeedsStepOver(s, w)
    BY <1>6 DEF AtBreakpoint, Breakpoints, NeedsStepOver
  <2> HIDE DEF r
  <2>3. CASE s.at[w] = "illegal"
    <3> DEFINE p == StopAllThreads(s, out)
               q == [p EXCEPT !.info = w]
    <3>1. r = Go(q, w)
      BY <2>1, <2>3, AllInserted DEF DisplacedStepPrepare, Cant
    <3>2. /\ Inv(p, E) /\ p.info = None /\ p.error = s.error
          /\ \A x \in Waves : /\ ~p.resumed[x] /\ ~p.executing[x]
                              /\ p.state[x] = s.state[x]
                              /\ ~s.executing[x] => Calm(s, p, x)
      BY <1>6, StopAllInv DEF Inv
    <3> HIDE DEF p
    <3>3. q \in Fields /\ Keeps(p, q, {"info"}) /\ q.info = w
      BY <1>1, <3>2 DEF Inv, Base, Sound, Fields, Keeps, Names
    <3> HIDE DEF q
    <3>4. /\ q.at = p.at /\ q.event = p.event /\ q.buffers = p.buffers /\ q.state = p.state
          /\ q.resumed = p.resumed /\ q.executing = p.executing /\ q.pending = p.pending
          /\ q.stop_requested = p.stop_requested /\ q.trap_expected = p.trap_expected
          /\ q.over = p.over /\ q.stop_pc = p.stop_pc /\ q.displaced = p.displaced
          /\ q.map = p.map /\ q.chain = p.chain /\ q.aborted = p.aborted
          /\ q.error = p.error
      BY <3>3 DEF Keeps, Names
    <3>5. Sound(q)
      BY <3>2, <3>3, <3>4 DEF Inv, Base, Sound
    <3>6. ASSUME NEW x \in Waves \ {w} PROVE WaveInv(q, x, E) /\ InLine(q, x)
      <4>1. WaveInv(p, x, E) /\ ~p.resumed[x] /\ ~p.executing[x]
        BY <3>2 DEF Inv, Base
      <4>2. ResumedInv(q, x) /\ DisplacedInv(q, x) /\ InLine(q, x)
        BY <3>4, <4>1 DEF WaveInv, ResumedInv, DisplacedInv, InLine
      <4>3. QueuedInv(q, x) /\ PausedInv(q, x, E)
        BY <3>4, <4>1 DEF WaveInv, QueuedInv, PausedInv, Paused, InChain, NeedsStepOver,
                          AtBreakpoint
      <4> QED  BY <4>2, <4>3 DEF WaveInv
    <3>7. Going(q, w)
      <4>1. Calm(s, p, w)
        BY <1>1, <3>2
      <4>2. /\ q.state[w] = s.state[w] /\ q.event[w] = s.event[w] /\ q.pending[w] = s.pending[w]
            /\ q.at[w] = s.at[w] /\ q.trap_expected[w] = s.trap_expected[w]
            /\ q.over[w] = s.over[w] /\ (w \in q.map <=> w \in s.map)
            /\ (w \in q.displaced <=> w \in s.displaced) /\ (w \in q.buffers <=> w \in s.buffers)
            /\ (InChain(q, w) <=> InChain(s, w))
        BY <3>4, <4>1 DEF Calm, InChain
      <4> QED  BY <1>3, <1>6, <2>2, <3>3, <4>2 DEF Going, AtBreakpoint
    <3>8. /\ Inv(r, E \ {w}) /\ Alone(q, r, w) /\ r.resumed[w] /\ ~InChain(r, w)
          /\ r.state[w] = q.state[w] /\ r.error = q.error
      BY <3>1, <3>5, <3>6, <3>7, GoInv
    <3>9. r.info = w /\ r.trap_expected[w]
      <4>1. r.info = w /\ InLine(r, w)
        BY <1>1, <3>3, <3>8 DEF Alone, Inv
      <4> QED  BY <1>1, <3>8, <4>1, WaveFacts DEF InLine
    <3>10. ASSUME NEW x \in Waves \ {w}
           PROVE  ~r.resumed[x] /\ r.state[x] = s.state[x] /\ (~s.executing[x] => Calm(s, r, x))
      BY <3>2, <3>4, <3>8 DEF Alone, Agree, Calm, InChain
    <3>11. Aside(s, r, w)
      BY <1>6, <3>9, <3>10 DEF Aside
    <3> QED  BY <1>1, <1>6, <3>2, <3>4, <3>8, <3>11 DEF r
  <2>4. CASE s.at[w] # "illegal" /\ NoBufferLeft(s)
    <3> DEFINE q == Enqueue(s, w)
    <3>1. r = Trapping(q, w, FALSE)
      BY <2>1, <2>4 DEF DisplacedStepPrepare, Unavailable, Trapping
    <3>2. /\ q \in Fields /\ Keeps(s, q, {"chain"}) /\ Alone(s, q, w) /\ InChain(q, w)
          /\ IsInjective(q.chain)
      BY <1>1, EnqueueFacts DEF Sound
    <3> HIDE DEF q
    <3>3. /\ r \in Fields /\ Keeps(q, r, {"trap_expected"})
          /\ Alone(q, r, w) /\ ~r.trap_expected[w]
      BY <1>1, <3>1, <3>2, TrappingFacts
    <3>4. /\ r.at = s.at /\ r.event = s.event /\ r.buffers = s.buffers /\ r.state = s.state
          /\ r.resumed = s.resumed /\ r.executing = s.executing /\ r.pending = s.pending
          /\ r.stop_requested = s.stop_requested /\ r.over = s.over
          /\ r.stop_pc = s.stop_pc /\ r.displaced = s.displaced /\ r.map = s.map
          /\ r.info = s.info /\ r.chain = q.chain
          /\ r.aborted = s.aborted /\ r.error = s.error
      BY <3>2, <3>3 DEF Keeps, Names
    <3>5. Sound(r) /\ InChain(r, w) /\ Alone(s, r, w)
      BY <1>1, <3>2, <3>3, <3>4, AloneTwice DEF Sound, InChain
    <3>6. ResumedInv(r, w) /\ DisplacedInv(r, w) /\ InLine(r, w)
      BY <1>3, <3>4 DEF ResumedInv, DisplacedInv, InLine
    <3>7. QueuedInv(r, w) /\ PausedInv(r, w, E \ {w})
      BY <2>2, <3>3, <3>4, <3>5 DEF QueuedInv, PausedInv, Paused, NeedsStepOver, AtBreakpoint
    <3>8. Inv(r, E \ {w})
      BY <1>1, <3>5, <3>6, <3>7, AloneInv DEF WaveInv
    <3> QED  BY <1>6, <3>4, <3>5, <3>8 DEF r
  <2>5. CASE s.at[w] # "illegal" /\ ~NoBufferLeft(s)
    <3> DEFINE q == Displacing(s, w)
    <3>1. gdb_assert(s, w \notin s.displaced \cup s.map) = s
      BY <1>1, <1>3, AssertHolds
    <3>2. r = Go(q, w)
      BY <2>1, <2>5, <3>1 DEF DisplacedStepPrepare, Displacing
    <3>3. /\ q \in Fields /\ Keeps(s, q, {"displaced", "map", "buffers"})
          /\ Alone(s, q, w) /\ w \in q.displaced /\ w \in q.map /\ w \in q.buffers
          /\ Cardinality(q.buffers) <= Buffers
      <4>1. Cardinality(s.buffers) \in Nat /\ Cardinality(s.buffers) < Buffers
        BY <1>1, <2>5, BuffersFinite, WaveFacts DEF Sound, NoBufferLeft
      <4> QED  BY <1>1, <1>3, <4>1, DisplacingFacts
    <3> HIDE DEF q
    <3>4. /\ q.at = s.at /\ q.event = s.event /\ q.state = s.state
          /\ q.pending = s.pending /\ q.trap_expected = s.trap_expected
          /\ q.over = s.over /\ q.chain = s.chain /\ q.info = s.info
          /\ q.aborted = s.aborted /\ q.error = s.error
      BY <3>3 DEF Keeps, Names
    <3>5. Sound(q) /\ ~InChain(q, w)
      BY <1>1, <3>3, <3>4 DEF Sound, InChain
    <3>6. ASSUME NEW x \in Waves \ {w} PROVE WaveInv(q, x, E) /\ InLine(q, x)
      <4>1. Agree(s, q, x) /\ WaveInv(s, x, E) /\ InLine(s, x)
        BY <3>3 DEF Alone, Inv, Base
      <4>2. WaveInv(q, x, E)
        BY <3>4, <4>1, AgreeInv
      <4> QED  BY <3>4, <4>1, <4>2 DEF InLine, Agree, Calm
    <3>7. Going(q, w)
      BY <1>3, <1>6, <2>2, <3>3, <3>4, <3>5 DEF Going, AtBreakpoint
    <3>8. /\ Inv(r, E \ {w}) /\ Alone(q, r, w) /\ r.resumed[w] /\ ~InChain(r, w)
          /\ r.state[w] = q.state[w] /\ r.error = q.error
      BY <3>2, <3>5, <3>6, <3>7, GoInv
    <3>9. Alone(s, r, w)
      BY <3>3, <3>8, AloneTwice
    <3> QED  BY <3>4, <3>8, <3>9 DEF r
  <2> QED  BY <2>3, <2>4, <2>5
<1> QED  BY <1>4, <1>5, <1>6

\* What thread_still_needs_step_over changes.
LEMMA CheckedFacts ==
  ASSUME NEW s \in Fields, NEW w \in Waves
  PROVE  LET r == Checked(s, w)
         IN /\ r \in Fields /\ Keeps(s, r, {"over"}) /\ Alone(s, r, w)
            /\ r.over[w] = NeedsStepOver(s, w)
<1> DEFINE r == Checked(s, w)
           b == NeedsStepOver(s, w)
<1>1. b \in BOOLEAN
  BY DEF Fields, NeedsStepOver
<1>2. /\ r \in Fields /\ Keeps(s, r, {"over"})
      /\ r.over = [s.over EXCEPT ![w] = b]
  <2>1. r = [s EXCEPT !.over[w] = b]
    BY DEF Checked
  <2> HIDE DEF r, b
  <2> QED  BY <1>1, <2>1 DEF Fields, Keeps, Names
<1> HIDE DEF r, b
<1>3. ASSUME NEW x \in Waves \ {w} PROVE Agree(s, r, x)
  BY <1>2 DEF Fields, Keeps, Names, Agree, Calm, InChain
<1>4. Alone(s, r, w) /\ r.over[w] = b
  BY <1>2, <1>3 DEF Fields, Keeps, Names, Alone
<1> QED  BY <1>2, <1>4 DEF r, b

\* A paused thread that is only checked stays paused.
LEMMA CheckedInv ==
  ASSUME NEW s, NEW E, NEW w \in Waves, Inv(s, E), ~s.executing[w], ~InChain(s, w)
  PROVE  LET r == Checked(s, w)
         IN /\ Inv(r, E) /\ Alone(s, r, w) /\ Keeps(s, r, {"over"})
            /\ r.over[w] = NeedsStepOver(s, w)
            /\ NeedsStepOver(r, w) = NeedsStepOver(s, w)
<1> DEFINE r == Checked(s, w)
<1>1. s \in Fields /\ Sound(s) /\ WaveInv(s, w, E) /\ InLine(s, w)
  BY DEF Inv, Base, Sound
<1>2. /\ r \in Fields /\ Keeps(s, r, {"over"}) /\ Alone(s, r, w)
      /\ r.over[w] = NeedsStepOver(s, w)
  BY <1>1, CheckedFacts
<1> HIDE DEF r
<1>3. /\ r.at = s.at /\ r.event = s.event /\ r.buffers = s.buffers /\ r.state = s.state
      /\ r.resumed = s.resumed /\ r.executing = s.executing /\ r.pending = s.pending
      /\ r.stop_requested = s.stop_requested /\ r.trap_expected = s.trap_expected
      /\ r.stop_pc = s.stop_pc /\ r.displaced = s.displaced
      /\ r.map = s.map /\ r.chain = s.chain /\ r.info = s.info
      /\ r.aborted = s.aborted /\ r.error = s.error
  BY <1>2 DEF Keeps, Names
<1>4. NeedsStepOver(r, w) = NeedsStepOver(s, w)
  BY <1>1, <1>2, <1>3 DEF NeedsStepOver, AtBreakpoint, Fields
<1>5. Sound(r) /\ InLine(r, w)
  BY <1>1, <1>2, <1>3 DEF Sound, InLine
<1>6. ResumedInv(r, w) /\ DisplacedInv(r, w)
  BY <1>1, <1>3 DEF WaveInv, ResumedInv, DisplacedInv
<1>7. QueuedInv(r, w) /\ PausedInv(r, w, E)
  BY <1>1, <1>3, <1>4 DEF WaveInv, QueuedInv, PausedInv, Paused, InChain
<1>8. Inv(r, E)
  BY <1>2, <1>5, <1>6, <1>7, AloneInv DEF WaveInv
<1> QED  BY <1>2, <1>4, <1>8 DEF r

\* A queued thread waits to step over its breakpoint.
LEMMA EnqueueInv ==
  ASSUME NEW s, NEW E, NEW w \in E, E \subseteq Waves, Inv(s, E), Ready(s, w),
         NeedsStepOver(s, w)
  PROVE  LET r == Enqueue(s, w)
         IN /\ Inv(r, E \ {w}) /\ Alone(s, r, w) /\ Keeps(s, r, {"chain"}) /\ InChain(r, w)
<1> DEFINE r == Enqueue(s, w)
<1>1. s \in Fields /\ Sound(s) /\ WaveInv(s, w, E) /\ InLine(s, w) /\ w \in Waves
  BY DEF Inv, Base, Sound
<1>2. /\ r \in Fields /\ Keeps(s, r, {"chain"}) /\ Alone(s, r, w) /\ InChain(r, w)
      /\ IsInjective(r.chain)
  BY <1>1, EnqueueFacts DEF Sound, Ready
<1> HIDE DEF r
<1>3. /\ r.at = s.at /\ r.event = s.event /\ r.buffers = s.buffers /\ r.state = s.state
      /\ r.resumed = s.resumed /\ r.executing = s.executing /\ r.pending = s.pending
      /\ r.stop_requested = s.stop_requested /\ r.trap_expected = s.trap_expected
      /\ r.stop_pc = s.stop_pc /\ r.displaced = s.displaced /\ r.over = s.over
      /\ r.map = s.map /\ r.info = s.info /\ r.aborted = s.aborted /\ r.error = s.error
  BY <1>2 DEF Keeps, Names
<1>4. Sound(r) /\ InLine(r, w)
  BY <1>1, <1>2, <1>3 DEF Sound, InLine
<1>5. ResumedInv(r, w) /\ DisplacedInv(r, w)
  BY <1>1, <1>3 DEF WaveInv, ResumedInv, DisplacedInv, Ready
<1>6. QueuedInv(r, w) /\ PausedInv(r, w, E \ {w})
  BY <1>1, <1>2, <1>3 DEF WaveInv, QueuedInv, PausedInv, Paused, NeedsStepOver, AtBreakpoint,
     Ready
<1>7. Inv(r, E \ {w})
  BY <1>1, <1>2, <1>4, <1>5, <1>6, AloneInv DEF WaveInv
<1> QED  BY <1>2, <1>7 DEF r

\* Whether a thread that waits for a decision expects a trap is part of it.
LEMMA TrappingInv ==
  ASSUME NEW s, NEW E, NEW w \in E, E \subseteq Waves, Inv(s, E), NEW b \in BOOLEAN,
         ~s.executing[w], ~s.resumed[w], ~InChain(s, w)
  PROVE  LET r == Trapping(s, w, b)
         IN /\ Inv(r, E) /\ Alone(s, r, w) /\ Keeps(s, r, {"trap_expected"})
            /\ r.trap_expected[w] = b
<1> DEFINE r == Trapping(s, w, b)
<1>1. s \in Fields /\ Sound(s) /\ WaveInv(s, w, E) /\ w \in Waves
  BY DEF Inv, Base, Sound
<1>2. /\ r \in Fields /\ Keeps(s, r, {"trap_expected"}) /\ Alone(s, r, w)
      /\ r.trap_expected[w] = b
  BY <1>1, TrappingFacts
<1> HIDE DEF r
<1>3. /\ r.at = s.at /\ r.event = s.event /\ r.buffers = s.buffers /\ r.state = s.state
      /\ r.resumed = s.resumed /\ r.executing = s.executing /\ r.pending = s.pending
      /\ r.stop_pc = s.stop_pc /\ r.displaced = s.displaced
      /\ r.map = s.map /\ r.chain = s.chain /\ r.aborted = s.aborted
  BY <1>2 DEF Keeps, Names
<1>4. Sound(r) /\ InLine(r, w)
  BY <1>1, <1>2, <1>3 DEF Sound, InLine
<1>5. ResumedInv(r, w) /\ DisplacedInv(r, w) /\ QueuedInv(r, w)
  BY <1>1, <1>3 DEF WaveInv, ResumedInv, DisplacedInv, QueuedInv, InChain
<1>6. PausedInv(r, w, E)
  BY <1>1, <1>3 DEF WaveInv, PausedInv
<1>7. Inv(r, E)
  BY <1>1, <1>2, <1>4, <1>5, <1>6, AloneInv DEF WaveInv
<1> QED  BY <1>2, <1>7 DEF r

\* keep_going_pass_signal on a thread whose last step is over.
LEMMA KeepGoingInv ==
  ASSUME NEW s, NEW E, E \subseteq Waves, Inv(s, E), NEW w \in E, Ready(s, w),
         NEW out \in Reliable
  PROVE  LET r == KeepGoingPassSignal(s, w, out)
         IN /\ Inv(r, E \ {w}) /\ r.state[w] = s.state[w] /\ r.error = s.error
            /\ Alone(s, r, w) \/ Aside(s, r, w)
            /\ ~NeedsStepOver(s, w) => Alone(s, r, w)
            /\ s.info = None => (r.resumed[w] <=> ~InChain(r, w))
<1> DEFINE r == KeepGoingPassSignal(s, w, out)
           needs == NeedsStepOver(s, w)
<1>1. s \in Fields /\ Sound(s) /\ WaveInv(s, w, E) /\ w \in Waves
  BY DEF Inv, Base, Sound
<1>2. gdb_assert(s, ~s.resumed[w]) = s
  BY <1>1, AssertHolds DEF Ready
<1>3. needs \in BOOLEAN
  BY <1>1 DEF Fields, NeedsStepOver
<1>4. CASE s.info # None /\ needs
  <2>1. r = Enqueue(s, w)
    BY <1>2, <1>4 DEF KeepGoingPassSignal, Ready
  <2> HIDE DEF r
  <2>2. /\ Inv(r, E \ {w}) /\ Alone(s, r, w) /\ Keeps(s, r, {"chain"}) /\ InChain(r, w)
    BY <1>4, <2>1, EnqueueInv
  <2>3. r.state = s.state /\ r.error = s.error
    BY <2>2 DEF Keeps, Names
  <2> QED  BY <1>4, <2>2, <2>3 DEF r
<1>5. CASE ~needs \/ (s.info = None /\ use_displaced)
  <2> DEFINE c == Checked(s, w)
             q == Trapping(c, w, needs)
  <2>1. /\ Inv(c, E) /\ Alone(s, c, w) /\ Keeps(s, c, {"over"})
        /\ c.over[w] = needs /\ NeedsStepOver(c, w) = needs
    BY <1>1, CheckedInv DEF Ready
  <2> HIDE DEF c
  <2>2. /\ c.at = s.at /\ c.state = s.state /\ c.resumed = s.resumed
        /\ c.executing = s.executing /\ c.chain = s.chain /\ c.pending = s.pending
        /\ c.stop_requested = s.stop_requested /\ c.trap_expected = s.trap_expected
        /\ c.info = s.info /\ c.error = s.error
    BY <2>1 DEF Keeps, Names
  <2>3. CASE s.info # None
    <3>1. r = c
      BY <1>2, <1>5, <2>3 DEF KeepGoingPassSignal, Ready, c
    <3>2. PausedInv(c, w, E \ {w})
      BY <1>5, <2>1, <2>2, <2>3, <1>1 DEF PausedInv, Ready, Inv, Base, WaveInv
    <3>3. Inv(c, E \ {w})
      <4>1. Sound(c) /\ WaveInv(c, w, E \ {w}) /\ InLine(c, w)
        BY <1>1, <2>1, <3>2 DEF Inv, Base, WaveInv
      <4> QED  BY <1>1, <2>1, <4>1, AloneInv
    <3> HIDE DEF r
    <3> QED  BY <2>1, <2>2, <2>3, <3>1, <3>3 DEF r
  <2>4. CASE s.info = None
    <3>1. r = Resume(q, w, out)
      BY <1>2, <1>5, <2>4, AllInserted DEF KeepGoingPassSignal, Ready, c, Trapping
    <3>2. /\ Inv(q, E) /\ Alone(c, q, w) /\ Keeps(c, q, {"trap_expected"})
          /\ q.trap_expected[w] = needs
      <4>1. ~c.executing[w] /\ ~c.resumed[w] /\ ~InChain(c, w)
        BY <2>2 DEF Ready, InChain
      <4> HIDE DEF needs
      <4> QED  BY <1>3, <2>1, <4>1, TrappingInv
    <3> HIDE DEF q, r
    <3>3. /\ q.at = s.at /\ q.state = s.state /\ q.resumed = s.resumed
          /\ q.executing = s.executing /\ q.chain = s.chain /\ q.over = c.over
          /\ q.stop_requested = s.stop_requested /\ q.info = s.info /\ q.error = s.error
      BY <2>2, <3>2 DEF Keeps, Names
    <3>4. Set(q, w)
      <4>1. q.trap_expected[w] = q.over[w] /\ q.over[w] = needs
        BY <2>1, <3>2, <3>3
      <4>2. IF needs THEN AtBreakpoint(q, w) ELSE non_stop => q.at[w] = "none"
        BY <3>3 DEF Ready, NeedsStepOver, AtBreakpoint
      <4> HIDE DEF needs
      <4> QED  BY <1>5, <2>4, <3>3, <4>1, <4>2 DEF Set, Ready, InChain
    <3>5. /\ Inv(r, E \ {w}) /\ r.state[w] = q.state[w] /\ r.error = q.error
          /\ r.resumed[w] <=> ~InChain(r, w)
          /\ Alone(q, r, w) \/ Aside(q, r, w)
          /\ ~q.trap_expected[w] \/ q.info # None => Alone(q, r, w) /\ r.resumed[w]
      BY <3>1, <3>2, <3>4, ResumeInv
    <3>6. Alone(s, q, w)
      BY <2>1, <3>2, AloneTwice
    <3>7. Alone(q, r, w) => Alone(s, r, w)
      BY <3>6, AloneTwice
    <3>8. Aside(q, r, w) => Aside(s, r, w)
      BY <3>6 DEF Aside, Alone, Agree, Calm
    <3> QED  BY <3>2, <3>3, <3>5, <3>7, <3>8 DEF r
  <2> QED  BY <2>3, <2>4
<1>6. CASE s.info = None /\ needs /\ ~use_displaced
  <2> DEFINE a == [s EXCEPT !.info = w]
             p == StopAllThreads(a, out)
             q == Trapping(p, w, TRUE)
  <2>1. r = Resume(q, w, out)
    <3>1. r = Resume([p EXCEPT !.trap_expected[w] = needs], w, out)
      BY <1>2, <1>6, AllInserted DEF KeepGoingPassSignal, Ready, StartInLine
    <3>2. needs = TRUE
      BY <1>3, <1>6
    <3> HIDE DEF needs, p, r
    <3> QED  BY <3>1, <3>2 DEF Trapping
  <2>2. a \in Fields /\ Keeps(s, a, {"info"}) /\ a.info = w
    BY <1>1 DEF Fields, Keeps, Names
  <2> HIDE DEF a
  <2>3. /\ a.at = s.at /\ a.event = s.event /\ a.buffers = s.buffers /\ a.state = s.state
        /\ a.resumed = s.resumed /\ a.executing = s.executing /\ a.pending = s.pending
        /\ a.stop_requested = s.stop_requested /\ a.trap_expected = s.trap_expected
        /\ a.over = s.over /\ a.stop_pc = s.stop_pc /\ a.displaced = s.displaced
        /\ a.map = s.map /\ a.chain = s.chain /\ a.aborted = s.aborted
        /\ a.error = s.error
    BY <2>2 DEF Keeps, Names
  <2>4. Base(a, E)
    <3>1. ASSUME NEW x \in Waves PROVE WaveInv(a, x, E)
      <4>1. WaveInv(s, x, E) /\ x # s.info
        BY <1>6, WaveFacts DEF Inv, Base
      <4>2. ResumedInv(a, x) /\ DisplacedInv(a, x)
        BY <2>3, <4>1 DEF WaveInv, ResumedInv, DisplacedInv, NeedsStepOver, AtBreakpoint
      <4>3. QueuedInv(a, x) /\ PausedInv(a, x, E)
        BY <2>3, <4>1 DEF WaveInv, QueuedInv, PausedInv, Paused, InChain, NeedsStepOver,
                          AtBreakpoint
      <4> QED  BY <4>2, <4>3 DEF WaveInv
    <3> QED  BY <1>1, <2>2, <2>3, <3>1 DEF Base, Sound
  <2>5. /\ Inv(p, E) /\ p.info = w /\ p.error = s.error
        /\ \A x \in Waves : /\ ~p.resumed[x] /\ ~p.executing[x] /\ p.state[x] = s.state[x]
                            /\ ~s.executing[x] => Calm(a, p, x)
    BY <2>2, <2>3, <2>4, StopAllInv
  <2> HIDE DEF p, r
  <2>6. ASSUME NEW x \in Waves, ~s.executing[x] PROVE Calm(s, p, x)
    BY <2>3, <2>5, <2>6 DEF Calm, InChain
  <2>7. Calm(s, p, w) /\ ~p.resumed[w]
    BY <1>1, <2>5, <2>6 DEF Ready
  <2>8. /\ Inv(q, E) /\ Alone(p, q, w) /\ Keeps(p, q, {"trap_expected"})
        /\ q.trap_expected[w] = TRUE
    BY <1>1, <2>5, <2>7, TrappingInv DEF Ready, Calm
  <2> HIDE DEF q
  <2>9. /\ q.at = p.at /\ q.state = p.state /\ q.resumed = p.resumed
        /\ q.executing = p.executing /\ q.chain = p.chain /\ q.over = p.over
        /\ q.stop_requested = p.stop_requested /\ q.info = w /\ q.error = s.error
    BY <2>5, <2>8 DEF Keeps, Names
  <2>10. Set(q, w)
    <3>1. /\ q.at[w] = s.at[w] /\ q.state[w] = s.state[w] /\ q.over[w] = s.over[w]
          /\ q.stop_requested[w] = s.stop_requested[w] /\ q.executing[w] = s.executing[w]
          /\ (InChain(q, w) <=> InChain(s, w)) /\ ~q.resumed[w]
      BY <2>7, <2>9 DEF Calm, InChain
    <3>2. s.over[w] /\ s.over[w] \in BOOLEAN /\ AtBreakpoint(s, w)
      BY <1>1, <1>6 DEF NeedsStepOver, Fields
    <3>3. q.over[w] = TRUE /\ AtBreakpoint(q, w)
      BY <3>1, <3>2 DEF AtBreakpoint
    <3> QED  BY <2>8, <2>9, <3>1, <3>3 DEF Set, Ready
  <2>11. /\ Inv(r, E \ {w}) /\ r.state[w] = q.state[w] /\ r.error = q.error
         /\ r.resumed[w] /\ ~InChain(r, w) /\ Alone(q, r, w)
    <3>1. q.info # None
      BY <1>1, <2>9, WaveFacts
    <3>2. /\ Inv(r, E \ {w}) /\ r.state[w] = q.state[w] /\ r.error = q.error
          /\ r.resumed[w] <=> ~InChain(r, w)
          /\ ~q.trap_expected[w] \/ q.info # None => Alone(q, r, w) /\ r.resumed[w]
      BY <2>1, <2>8, <2>10, ResumeInv
    <3> QED  BY <3>1, <3>2
  <2>12. Alone(p, r, w) /\ r.info = w
    BY <2>8, <2>9, <2>11, AloneTwice DEF Alone
  <2>13. r.trap_expected[w]
    <3>1. InLine(r, w)
      BY <1>1, <2>11 DEF Inv
    <3> QED  BY <1>1, <2>11, <2>12, <3>1, WaveFacts DEF InLine
  <2>14. ASSUME NEW x \in Waves \ {w}
         PROVE  ~r.resumed[x] /\ r.state[x] = s.state[x] /\ (~s.executing[x] => Calm(s, r, x))
    BY <2>5, <2>6, <2>12 DEF Alone, Agree, Calm
  <2>15. Aside(s, r, w)
    BY <1>6, <2>12, <2>13, <2>14 DEF Aside
  <2> QED  BY <1>1, <1>6, <2>5, <2>9, <2>11, <2>15 DEF r
<1> QED  BY <1>4, <1>5, <1>6

-----------------------------------------------------------------------------
(* start_step_over.                                                        *)

\* A thread that was queued.
Queueable(s, w) == Ready(s, w) /\ NeedsStepOver(s, w)

\* One thread of the queue: it starts its step-over, or is queued again.
LEMMA StepOneInv ==
  ASSUME NEW s, NEW E, E \subseteq Waves, Inv(s, E), NEW w \in E, Queueable(s, w),
         NEW out \in Reliable
  PROVE  LET r == StepOne(s, w, out)
         IN /\ Inv(r, E \ {w}) /\ r.state[w] = s.state[w] /\ r.error = s.error
            /\ Alone(s, r, w) \/ Aside(s, r, w)
            /\ r.resumed[w] \/ InChain(r, w)
<1> DEFINE r == StepOne(s, w, out)
           waits == NeedsStepOver(s, w) /\ ~use_displaced /\ s.displaced # {}
           k == KeepGoingPassSignal(s, w, out)
<1>1. w \in Waves /\ Ready(s, w) /\ NeedsStepOver(s, w)
  BY DEF Queueable
<1>2. CASE s.info # None \/ waits
  <2>1. r = Enqueue(s, w)
    <3>1. s \in Fields
      BY DEF Inv, Base, Sound
    <3>2. gdb_assert(s, ~s.stop_requested[w]) = s
      BY <1>1, <3>1, AssertHolds DEF Ready
    <3> QED  BY <1>2, <3>2, Zenon DEF StepOne
  <2> HIDE DEF r
  <2>2. /\ Inv(r, E \ {w}) /\ Alone(s, r, w) /\ Keeps(s, r, {"chain"}) /\ InChain(r, w)
    BY <1>1, <2>1, EnqueueInv
  <2>3. r.state = s.state /\ r.error = s.error
    BY <2>2 DEF Keeps, Names
  <2> QED  BY <2>2, <2>3 DEF r
<1>3. CASE s.info = None /\ ~waits
  <2> DEFINE sure == /\ ~s.stop_requested[w] /\ ~s.trap_expected[w] /\ ~s.resumed[w]
                        /\ ~s.executing[w]
                     /\ k.resumed[w] # InChain(k, w)
                     /\ k.info # None => k.trap_expected[w]
  <2>1. /\ Inv(k, E \ {w}) /\ k.state[w] = s.state[w] /\ k.error = s.error
        /\ Alone(s, k, w) \/ Aside(s, k, w)
        /\ s.info = None => (k.resumed[w] <=> ~InChain(k, w))
    BY <1>1, KeepGoingInv
  <2>2. r = gdb_assert(k, sure)
    <3>1. s \in Fields /\ k \in Fields
      BY <2>1 DEF Inv, Base, Sound
    <3>2. ~Threw(s) /\ k.failed = "no"
      BY <3>1, NothingFailed
    <3> QED  BY <1>3, <3>2 DEF StepOne
  <2> HIDE DEF k
  <2>3. k \in Fields /\ k.resumed[w] \in BOOLEAN
    BY <1>1, <2>1 DEF Inv, Base, Sound, Fields
  <2>4. k.resumed[w] # InChain(k, w)
    BY <1>3, <2>1, <2>3 DEF InChain
  <2>5. k.info # None => k.trap_expected[w]
    BY <1>3, <2>1 DEF Alone, Aside
  <2>6. sure
    BY <1>1, <2>4, <2>5 DEF Ready
  <2> HIDE DEF sure, r
  <2>7. r = k
    BY <2>2, <2>3, <2>6, AssertHolds
  <2> QED  BY <1>3, <2>1, <2>7 DEF r
<1> QED  BY <1>2, <1>3

\* The queue is taken from the list.
Taken(s) == [s EXCEPT !.chain = <<>>]

\* A thread of the queue taken is one that start_step_over has to settle.
LEMMA TakenInv ==
  ASSUME NEW s, NEW E, E \subseteq Waves, Inv(s, E)
  PROVE  LET r == Taken(s)
         IN /\ Inv(r, E \cup ToSet(s.chain)) /\ Keeps(s, r, {"chain"})
            /\ \A x \in Waves \ ToSet(s.chain) : Agree(s, r, x)
            /\ \A x \in ToSet(s.chain) : Queueable(r, x)
<1> DEFINE r == Taken(s)
           F == E \cup ToSet(s.chain)
<1>1. s \in Fields /\ Sound(s)
  BY DEF Inv, Base, Sound
<1>2. r \in Fields /\ Keeps(s, r, {"chain"}) /\ r.chain = <<>>
  <2>1. <<>> \in Seq(Waves)
    OBVIOUS
  <2> QED  BY <1>1, <2>1 DEF Taken, Fields, Keeps, Names
<1> HIDE DEF r
<1>3. \A x : ~InChain(r, x)
  BY <1>2, EmptyFacts DEF InChain
<1>4. /\ r.at = s.at /\ r.event = s.event /\ r.buffers = s.buffers /\ r.state = s.state
      /\ r.resumed = s.resumed /\ r.executing = s.executing /\ r.pending = s.pending
      /\ r.stop_requested = s.stop_requested /\ r.trap_expected = s.trap_expected
      /\ r.stop_pc = s.stop_pc /\ r.displaced = s.displaced /\ r.over = s.over
      /\ r.map = s.map /\ r.info = s.info /\ r.aborted = s.aborted /\ r.error = s.error
  BY <1>2 DEF Keeps, Names
<1>5. Sound(r)
  BY <1>1, <1>2, <1>4, EmptyFacts DEF Sound
<1>6. ASSUME NEW x \in Waves \ ToSet(s.chain) PROVE Agree(s, r, x)
  BY <1>3, <1>4 DEF Agree, Calm, InChain
<1>7. ASSUME NEW x \in Waves PROVE WaveInv(r, x, F) /\ InLine(r, x)
  <2>1. WaveInv(s, x, E) /\ InLine(s, x)
    BY DEF Inv, Base
  <2>2. ResumedInv(r, x) /\ DisplacedInv(r, x) /\ QueuedInv(r, x) /\ InLine(r, x)
    BY <1>3, <1>4, <2>1 DEF WaveInv, ResumedInv, DisplacedInv, QueuedInv, InLine,
                            NeedsStepOver, AtBreakpoint
  <2>3. PausedInv(r, x, F)
    BY <1>3, <1>4, <2>1 DEF WaveInv, PausedInv, Paused, NeedsStepOver, AtBreakpoint, InChain
  <2> QED  BY <2>2, <2>3 DEF WaveInv
<1>8. ASSUME NEW x \in ToSet(s.chain) PROVE Queueable(r, x)
  <2>1. x \in Waves
    BY <1>1, RangeFacts DEF Fields
  <2>2. QueuedInv(s, x) /\ InChain(s, x)
    BY <2>1 DEF Inv, Base, WaveInv, InChain
  <2> QED  BY <1>3, <1>4, <2>2 DEF QueuedInv, Queueable, Ready, NeedsStepOver, AtBreakpoint
<1> QED  BY <1>2, <1>5, <1>6, <1>7, <1>8 DEF r, Inv, Base

\* What start_step_over does to a thread x of none of its queue: nothing, unless
\* it starts an in-line step-over, which may stop the thread.
Untouched(s, r, x) ==
  /\ r.state[x] = s.state[x]
  /\ ~s.executing[x] => Calm(s, r, x) /\ (r.resumed[x] => s.resumed[x])
  /\ r.info = None => Agree(s, r, x)

\* start_step_over settles every thread of the queue it took.
LEMMA StartStepOverInv ==
  ASSUME NEW s, NEW E, E \subseteq Waves, Inv(s, E), NEW out \in Reliable
  PROVE  LET r == StartStepOver(s, out)
         IN /\ Inv(r, E) /\ r.error = s.error
            /\ \A x \in Waves : r.state[x] = s.state[x]
            /\ \A x \in Waves \ ToSet(s.chain) : Untouched(s, r, x)
            /\ r.info = None => \A x \in ToSet(s.chain) : r.resumed[x] \/ InChain(r, x)
<1> DEFINE r == StartStepOver(s, out)
           c == s.chain
           n == Len(c)
           Todo(i) == {c[j] : j \in (i + 1)..n}
           Done(i) == {c[j] : j \in 1..i}
<1>1. s \in Fields /\ IsInjective(c) /\ c \in Seq(Waves)
  BY DEF Inv, Base, Sound, Fields
<1>2. /\ n \in Nat /\ DOMAIN c = 1..n /\ ToSet(c) \subseteq Waves
      /\ \A i \in 1..n : c[i] \in ToSet(c)
      /\ ToSet(c) = {c[i] : i \in 1..n}
  <2>1. n \in Nat /\ DOMAIN c = 1..n /\ ToSet(c) \subseteq Waves
        /\ \A i \in 1..n : c[i] \in ToSet(c)
    BY <1>1, RangeFacts
  <2> QED  BY <2>1 DEF ToSet
<1>3. CASE s.info # None
  <2>1. r = s
    BY <1>3 DEF StartStepOver
  <2> HIDE DEF r
  <2> QED  BY <1>3, <2>1 DEF r, Untouched, Agree, Calm
<1>4. CASE s.info = None
  <2> DEFINE Good(a, i, x) ==
               /\ a.state[x] = s.state[x]
               /\ x \in Todo(i) => Queueable(a, x)
               /\ x \notin ToSet(c) => Untouched(s, a, x)
               /\ a.info = None /\ x \in Done(i) => a.resumed[x] \/ InChain(a, x)
             X == [i \in 0..n |->
                     {a \in Fields : /\ Inv(a, E \cup Todo(i)) /\ a.error = s.error
                                     /\ \A x \in Waves : Good(a, i, x)}]
  <2>1. Todo(0) = ToSet(c) /\ Done(0) = {} /\ Todo(n) = {} /\ Done(n) = ToSet(c)
    BY <1>2
  <2>2. Taken(s) \in X[0]
    <3> DEFINE a == Taken(s)
    <3>1. /\ Inv(a, E \cup ToSet(s.chain)) /\ Keeps(s, a, {"chain"})
          /\ \A x \in Waves \ ToSet(s.chain) : Agree(s, a, x)
          /\ \A x \in ToSet(s.chain) : Queueable(a, x)
      BY TakenInv
    <3> HIDE DEF a
    <3>2. a.state = s.state /\ a.error = s.error
      BY <3>1 DEF Keeps, Names
    <3>3. ASSUME NEW x \in Waves PROVE Good(a, 0, x)
      <4>1. x \notin ToSet(c) => Untouched(s, a, x)
        BY <3>1 DEF Untouched, Agree, Calm
      <4> QED  BY <2>1, <3>1, <3>2, <4>1
    <3>4. a \in Fields /\ 0 \in 0..n
      BY <1>2, <3>1 DEF Inv, Base, Sound
    <3>5. a \in X[0]
      BY <2>1, <3>1, <3>2, <3>3, <3>4
    <3> QED  BY <3>5 DEF a
  <2>3. ASSUME NEW i \in 1..n, NEW a \in X[i - 1] PROVE StepOne(a, c[i], out) \in X[i]
    <3> DEFINE w == c[i]
               q == StepOne(a, w, out)
               F == E \cup Todo(i - 1)
    <3>1. i \in 0..n /\ i - 1 \in 0..n /\ w \in Waves /\ w \in ToSet(c)
      BY <1>2
    <3>2. Todo(i - 1) = Todo(i) \cup {w} /\ Done(i) = Done(i - 1) \cup {w}
      <4>1. ((i - 1) + 1)..n = ((i + 1)..n) \cup {i} /\ 1..i = (1..(i - 1)) \cup {i}
        BY <1>2
      <4> QED  BY <4>1
    <3>3. w \notin Todo(i) /\ Todo(i) \subseteq ToSet(c)
      <4>1. \A j \in (i + 1)..n : j \in 1..n /\ i \in 1..n /\ j # i
        BY <1>2
      <4>2. \A j \in (i + 1)..n : c[j] # c[i]
        BY <1>1, <1>2, <4>1 DEF IsInjective
      <4> QED  BY <1>2, <4>1, <4>2
    <3>4. /\ a \in Fields /\ Inv(a, F) /\ a.error = s.error
          /\ \A x \in Waves : Good(a, i - 1, x)
      BY <3>1
    <3> HIDE DEF Todo, Done, X, c
    <3>5. w \in F /\ F \subseteq Waves /\ Queueable(a, w)
      BY <1>2, <3>1, <3>2, <3>3, <3>4
    <3>6. /\ Inv(q, F \ {w}) /\ q.state[w] = a.state[w] /\ q.error = a.error
          /\ Alone(a, q, w) \/ Aside(a, q, w)
          /\ q.resumed[w] \/ InChain(q, w)
      BY <3>4, <3>5, StepOneInv
    <3> HIDE DEF q, w, F
    <3>7. Inv(q, E \cup Todo(i))
      <4>1. F \ {w} \subseteq E \cup Todo(i)
        BY <3>2 DEF F
      <4> QED  BY <3>6, <4>1, MoreExcused
    <3>8. ASSUME NEW x \in Waves PROVE Good(q, i, x)
      <4>1. Good(a, i - 1, x)
        BY <3>4
      <4>2. q.info = None => a.info = None /\ Alone(a, q, w)
        BY <3>1, <3>6, WaveFacts DEF Alone, Aside
      <4>3. CASE x = w
        BY <3>1, <3>2, <3>3, <3>6, <4>1, <4>3
      <4>4. CASE x # w
        <5>1. /\ q.state[x] = a.state[x]
              /\ ~a.executing[x] => Calm(a, q, x) /\ (q.resumed[x] => a.resumed[x])
              /\ q.info = None => Agree(a, q, x)
          BY <3>6, <4>2, <4>4 DEF Alone, Aside, Agree, Calm
        <5>2. x \in Todo(i) => Queueable(q, x)
          <6>1. SUFFICES ASSUME x \in Todo(i) PROVE Queueable(q, x)
            OBVIOUS
          <6>2. Queueable(a, x)
            BY <3>2, <4>1, <6>1
          <6>3. Calm(a, q, x) /\ ~q.resumed[x]
            BY <5>1, <6>2 DEF Queueable, Ready
          <6> QED  BY <6>2, <6>3 DEF Queueable, Ready, Calm, NeedsStepOver, AtBreakpoint
        <5>3. x \notin ToSet(c) => Untouched(s, q, x)
          BY <4>1, <4>2, <5>1 DEF Untouched, Agree, Calm
        <5>4. q.info = None /\ x \in Done(i) => q.resumed[x] \/ InChain(q, x)
          BY <3>2, <4>1, <4>2, <4>4, <5>1 DEF Agree, Calm
        <5> QED  BY <4>1, <5>1, <5>2, <5>3, <5>4
      <4> QED  BY <4>3, <4>4
    <3>9. q \in Fields /\ q.error = s.error
      BY <3>4, <3>6 DEF Inv, Base, Sound
    <3>10. q \in X[i]
      BY <3>1, <3>7, <3>8, <3>9 DEF X
    <3> QED  BY <3>10 DEF q, w
  <2> HIDE DEF X
  <2>4. r \in X[n]
    BY <1>2, <1>4, <2>2, <2>3, StepOverLoop DEF Taken
  <2> HIDE DEF r
  <2>5. Inv(r, E) /\ r.error = s.error /\ \A x \in Waves : Good(r, n, x)
    <3>1. n \in 0..n /\ E \cup Todo(n) = E
      BY <1>2, <2>1
    <3> QED  BY <2>4, <3>1 DEF X
  <2> QED  BY <1>2, <2>1, <2>5 DEF r
<1> QED  BY <1>3, <1>4

-----------------------------------------------------------------------------
(* finish_step_over.                                                       *)

\* A thread that may be restarted is one that was paused and runs free, or has
\* something to report.
LEMMA RestartThreadInv ==
  ASSUME NEW s, NEW ev \in Waves, NEW w \in Waves, Inv(s, {ev}), s.info = None,
         NEW out \in Reliable
  PROVE  LET r == RestartThread(s, ev, w, out)
         IN /\ Inv(r, {ev}) /\ Alone(s, r, w) /\ r.state[w] = s.state[w]
            /\ r.error = s.error /\ Agree(s, r, ev)
<1> DEFINE r == RestartThread(s, ev, w, out)
           skip == w = ev \/ s.state[w] # "THREAD_RUNNING" \/ s.resumed[w] \/ InChain(s, w)
<1>1. s \in Fields /\ Sound(s) /\ WaveInv(s, w, {ev})
  BY DEF Inv, Base, Sound
<1>2. CASE skip
  <2>1. r = s
    <3>1. s.resumed[w] => gdb_assert(s, ResumedForAReason(s, w)) = s
      BY <1>1, AssertHolds DEF WaveInv, ResumedInv, ResumedForAReason
    <3> QED  BY <1>2, <3>1 DEF RestartThread
  <2> HIDE DEF r
  <2> QED  BY <2>1 DEF r, Alone, Agree, Calm
<1>3. CASE ~skip /\ s.pending[w] # "none"
  <2>1. r = Marked(s, w)
    BY <1>1, <1>3, NothingFailed DEF RestartThread, Marked
  <2> HIDE DEF r
  <2>2. r \in Fields /\ Keeps(s, r, {"resumed"}) /\ Alone(s, r, w) /\ r.resumed[w]
    BY <1>1, <2>1, MarkedFacts
  <2>3. /\ r.at = s.at /\ r.event = s.event /\ r.buffers = s.buffers /\ r.state = s.state
        /\ r.pending = s.pending /\ r.trap_expected = s.trap_expected /\ r.over = s.over
        /\ r.displaced = s.displaced /\ r.executing = s.executing /\ r.map = s.map
        /\ r.chain = s.chain /\ r.info = s.info /\ r.aborted = s.aborted
        /\ r.error = s.error /\ r.stop_pc = s.stop_pc
    BY <2>2 DEF Keeps, Names
  <2>4. Sound(r) /\ ~InChain(r, w) /\ InLine(r, w)
    BY <1>1, <1>3, <2>2, <2>3 DEF Sound, InChain, InLine
  <2>5. ResumedInv(r, w)
    BY <1>1, <1>3, <2>2, <2>3 DEF WaveInv, ResumedInv
  <2>6. DisplacedInv(r, w) /\ QueuedInv(r, w) /\ PausedInv(r, w, {ev})
    BY <1>1, <2>2, <2>3, <2>4 DEF WaveInv, DisplacedInv, QueuedInv, PausedInv, Paused
  <2>7. Inv(r, {ev})
    BY <2>2, <2>4, <2>5, <2>6, AloneInv DEF WaveInv
  <2> QED  BY <1>3, <2>2, <2>3, <2>7 DEF r, Alone
<1>4. CASE ~skip /\ s.pending[w] = "none"
  <2>1. /\ ~s.stop_requested[w] /\ ~s.trap_expected[w] /\ ~NeedsStepOver(s, w)
        /\ non_stop => s.at[w] = "none"
    BY <1>1, <1>4 DEF WaveInv, PausedInv, Paused
  <2>2. gdb_assert(s, ~s.stop_requested[w] /\ ~NeedsStepOver(s, w)) = s
    BY <1>1, <2>1, AssertHolds
  <2> DEFINE k == KeepGoingPassSignal(s, w, out)
  <2>3. Ready(s, w)
    BY <1>1, <1>4, <2>1 DEF WaveInv, ResumedInv, Ready
  <2>4. Inv(s, {ev, w}) /\ {ev, w} \subseteq Waves
    BY MoreExcused
  <2>5. /\ Inv(k, {ev, w} \ {w}) /\ k.state[w] = s.state[w] /\ k.error = s.error
        /\ ~NeedsStepOver(s, w) => Alone(s, k, w)
    BY <2>3, <2>4, KeepGoingInv
  <2>6. r = k
    <3>1. k \in Fields
      BY <2>5 DEF Inv, Base, Sound
    <3>2. ~Threw(s) /\ k.failed = "no"
      BY <1>1, <3>1, NothingFailed
    <3> QED  BY <1>4, <2>2, <3>2 DEF RestartThread
  <2> HIDE DEF r, k
  <2>7. Inv(r, {ev})
    BY <2>5, <2>6, MoreExcused
  <2> QED  BY <1>4, <2>1, <2>5, <2>6, <2>7 DEF r, Alone
<1> QED  BY <1>2, <1>3, <1>4

\* restart_threads leaves the thread of the event alone.
LEMMA RestartInv ==
  ASSUME NEW s, NEW ev \in Waves, Inv(s, {ev}), s.info = None,
         NEW out \in Reliable
  PROVE  LET r == RestartThreads(s, ev, out)
         IN /\ Inv(r, {ev}) /\ r.info = None /\ r.error = s.error /\ Agree(s, r, ev)
            /\ \A x \in Waves : r.state[x] = s.state[x]
<1> DEFINE Good(a) == /\ Inv(a, {ev}) /\ a.info = None /\ a.error = s.error
                      /\ Agree(s, a, ev) /\ \A x \in Waves : a.state[x] = s.state[x]
           X == [i \in 0..N |-> {a \in Fields : Good(a)}]
<1>1. \A a : Good(a) => a \in Fields
  BY DEF Inv, Base, Sound
<1>2. s \in X[0]
  <2>1. Good(s)
    BY DEF Agree, Calm
  <2>2. 0 \in 0..N
    BY WaveFacts
  <2>3. s \in Fields
    BY <1>1, <2>1
  <2> HIDE DEF Good
  <2> QED  BY <2>1, <2>2, <2>3
<1>3. ASSUME NEW w \in Waves, NEW a \in X[w - 1] PROVE RestartThread(a, ev, w, out) \in X[w]
  <2> DEFINE r == RestartThread(a, ev, w, out)
  <2>1. w \in 0..N /\ w - 1 \in 0..N
    BY WaveFacts
  <2>2. Good(a)
    BY <2>1
  <2>3. /\ Inv(r, {ev}) /\ Alone(a, r, w) /\ r.state[w] = a.state[w]
        /\ r.error = a.error /\ Agree(a, r, ev)
    BY <2>2, RestartThreadInv
  <2> HIDE DEF r
  <2>4. Agree(s, r, ev) /\ r.info = None
    BY <2>2, <2>3 DEF Agree, Calm, Alone
  <2>5. ASSUME NEW x \in Waves PROVE r.state[x] = s.state[x]
    BY <2>2, <2>3 DEF Agree, Calm, Alone
  <2>6. Good(r)
    BY <2>2, <2>3, <2>4, <2>5
  <2>7. r \in X[w]
    BY <1>1, <2>1, <2>6
  <2> QED  BY <2>7 DEF r
<1> HIDE DEF X
<1>4. RestartThreads(s, ev, out) \in X[N]
  BY <1>2, <1>3, RestartLoop
<1>5. Good(RestartThreads(s, ev, out))
  BY <1>4, WaveFacts DEF X
<1> QED  BY <1>5

\* An event of the thread that infrun can take.
Has(s, w, ws) ==
  /\ s.resumed[w] /\ ws \in Events \ {"none"}
  /\ s.pending[w] = ws \/ (s.executing[w] /\ s.event[w] = ws)

\* The state in which handle_inferior_event calls finish_step_over.
Received(s, w, ws) ==
  [s EXCEPT !.executing[w] = FALSE, !.resumed[w] = FALSE,
            !.event[w] = "none", !.pending[w] = "none",
            !.state[w] = IF ws = "exit" THEN "THREAD_EXITED" ELSE @,
            !.over[w] = @ /\ ~(ws = "exit")]

\* The thread of an event after its event was taken: what becomes of it is open.
Open(s, w, ws) ==
  /\ Inv(s, {w})
  /\ ~s.resumed[w] /\ ~s.executing[w] /\ ~InChain(s, w)
  /\ s.event[w] = "none" /\ s.pending[w] = "none"
  /\ s.state[w] = IF ws = "exit" THEN "THREAD_EXITED" ELSE "THREAD_RUNNING"
  /\ ws # "exit" => s.at[w] # "gone"

\* What receiving an event changes.
LEMMA ReceivedFacts ==
  ASSUME NEW s \in Fields, NEW w \in Waves, NEW ws
  PROVE  LET r == Received(s, w, ws)
         IN /\ r \in Fields /\ Alone(s, r, w)
            /\ Keeps(s, r, {"executing", "resumed", "event", "pending", "state", "over"})
            /\ ~r.executing[w] /\ ~r.resumed[w]
            /\ r.event[w] = "none" /\ r.pending[w] = "none"
            /\ r.state[w] = IF ws = "exit" THEN "THREAD_EXITED" ELSE s.state[w]
<1> DEFINE r == Received(s, w, ws)
           u == IF ws = "exit" THEN "THREAD_EXITED" ELSE s.state[w]
           b == s.over[w] /\ ~(ws = "exit")
<1>1. r = [s EXCEPT !.executing[w] = FALSE, !.resumed[w] = FALSE, !.event[w] = "none",
                    !.pending[w] = "none", !.state[w] = u, !.over[w] = b]
  BY DEF Received
<1>2. u \in States /\ b \in BOOLEAN
  BY DEF Fields, States
<1> HIDE DEF r, u, b
<1>3. r \in Fields
  BY <1>1, <1>2 DEF Fields, Events
<1>4. Keeps(s, r, {"executing", "resumed", "event", "pending", "state", "over"})
  BY <1>1, <1>2 DEF Fields, Keeps, Names
<1>5. /\ r.executing = [s.executing EXCEPT ![w] = FALSE]
      /\ r.resumed = [s.resumed EXCEPT ![w] = FALSE]
      /\ r.event = [s.event EXCEPT ![w] = "none"]
      /\ r.pending = [s.pending EXCEPT ![w] = "none"]
      /\ r.state = [s.state EXCEPT ![w] = u] /\ r.over = [s.over EXCEPT ![w] = b]
  BY <1>1 DEF Fields
<1>6. ASSUME NEW x \in Waves \ {w} PROVE Agree(s, r, x)
  <2>1. /\ r.executing[x] = s.executing[x] /\ r.resumed[x] = s.resumed[x]
        /\ r.event[x] = s.event[x] /\ r.pending[x] = s.pending[x]
        /\ r.state[x] = s.state[x] /\ r.over[x] = s.over[x]
    BY <1>5 DEF Fields
  <2> QED  BY <1>4, <2>1 DEF Keeps, Names, Agree, Calm, InChain
<1>7. Alone(s, r, w)
  BY <1>4, <1>6 DEF Keeps, Names, Alone
<1>8. /\ ~r.executing[w] /\ ~r.resumed[w] /\ r.event[w] = "none" /\ r.pending[w] = "none"
      /\ r.state[w] = u
  BY <1>5 DEF Fields
<1> QED  BY <1>3, <1>4, <1>7, <1>8 DEF r, u

\* The event is taken, the displaced step finished, the in-line step over.
LEMMA TakenEventInv ==
  ASSUME NEW s, NEW w \in Waves, NEW ws, Inv(s, {}), Has(s, w, ws)
  PROVE  LET d == DisplacedStepFinish(Received(s, w, ws), w, ws)
             r == [d EXCEPT !.info = None]
         IN d \in Fields /\ Open(r, w, ws) /\ r.info = None /\ r.error = s.error
<1> DEFINE a == Received(s, w, ws)
           d == DisplacedStepFinish(a, w, ws)
           r == [d EXCEPT !.info = None]
<1>1. s \in Fields /\ Sound(s) /\ WaveInv(s, w, {}) /\ InLine(s, w)
  BY DEF Inv, Base, Sound
<1>2. /\ s.state[w] = "THREAD_RUNNING" /\ ~InChain(s, w)
      /\ s.at[w] = "gone" => ws = "exit"
      /\ w \in s.map <=> w \in s.displaced
      /\ w \in s.buffers => w \in s.displaced /\ ws # "exit"
  <2>1. s.state[w] = "THREAD_RUNNING" /\ ~InChain(s, w) /\ (w \in s.map <=> w \in s.displaced)
    BY <1>1 DEF Has, WaveInv, ResumedInv, QueuedInv, DisplacedInv
  <2>2. s.executing[w] => s.pending[w] = "none" /\ s.event[w] = ws
    BY <1>1 DEF Has, WaveInv, ResumedInv
  <2>3. ~s.executing[w] => s.event[w] = "none" /\ s.pending[w] = ws
    BY <1>1 DEF Has, WaveInv, ResumedInv
  <2>4. s.at[w] = "gone" => ws = "exit"
    BY <1>1, <2>1, <2>2, <2>3 DEF WaveInv, PausedInv
  <2>5. w \in s.buffers => w \in s.displaced /\ ws # "exit"
    BY <1>1, <2>2 DEF WaveInv, DisplacedInv
  <2> QED  BY <2>1, <2>4, <2>5
<1>3. /\ a \in Fields /\ Alone(s, a, w)
      /\ Keeps(s, a, {"executing", "resumed", "event", "pending", "state", "over"})
      /\ ~a.executing[w] /\ ~a.resumed[w] /\ a.event[w] = "none" /\ a.pending[w] = "none"
      /\ a.state[w] = IF ws = "exit" THEN "THREAD_EXITED" ELSE s.state[w]
  BY <1>1, ReceivedFacts
<1> HIDE DEF a
<1>4. /\ a.at = s.at /\ a.map = s.map /\ a.displaced = s.displaced /\ a.buffers = s.buffers
      /\ a.chain = s.chain /\ a.aborted = s.aborted /\ a.error = s.error
  BY <1>3 DEF Keeps, Names
<1>5. /\ d \in Fields /\ Keeps(a, d, {"displaced", "map", "buffers"}) /\ Alone(a, d, w)
      /\ w \notin d.displaced /\ w \notin d.map /\ d.buffers \subseteq a.buffers
      /\ w \in d.buffers => ws = "exit" /\ w \in a.buffers
  BY <1>2, <1>3, <1>4, FinishFacts
<1> HIDE DEF d
<1>6. r \in Fields /\ Keeps(d, r, {"info"}) /\ r.info = None
  BY <1>5 DEF Fields, Keeps, Names
<1> HIDE DEF r
<1>7. /\ r.at = s.at /\ r.event = a.event /\ r.state = a.state /\ r.resumed = a.resumed
      /\ r.executing = a.executing /\ r.pending = a.pending
      /\ r.displaced = d.displaced /\ r.map = d.map /\ r.buffers = d.buffers
      /\ r.chain = s.chain /\ r.aborted = s.aborted /\ r.error = s.error
  BY <1>4, <1>5, <1>6 DEF Keeps, Names
<1>8. Alone(s, d, w)
  BY <1>3, <1>5, AloneTwice
<1>9. ASSUME NEW x \in Waves \ {w} PROVE WaveInv(r, x, {w}) /\ InLine(r, x)
  <2>1. Agree(s, d, x) /\ WaveInv(s, x, {})
    BY <1>8 DEF Alone, Inv, Base
  <2>2. /\ r.stop_requested = d.stop_requested /\ r.trap_expected = d.trap_expected
        /\ r.over = d.over /\ r.stop_pc = d.stop_pc /\ r.at = d.at /\ r.event = d.event
        /\ r.state = d.state /\ r.resumed = d.resumed /\ r.executing = d.executing
        /\ r.pending = d.pending /\ r.chain = d.chain
    BY <1>6 DEF Keeps, Names
  <2>3. Agree(s, r, x)
    BY <1>7, <2>1, <2>2 DEF Agree, Calm, InChain
  <2>4. x # s.info
    BY <1>1, WaveFacts DEF InLine, Has
  <2>5. ResumedInv(r, x)
    BY <2>1, <2>3, <2>4 DEF WaveInv, ResumedInv, Agree, Calm, NeedsStepOver, AtBreakpoint
  <2>6. DisplacedInv(r, x) /\ QueuedInv(r, x) /\ PausedInv(r, x, {w})
    BY <2>1, <2>3 DEF WaveInv, DisplacedInv, QueuedInv, PausedInv, Paused, Agree, Calm,
                      NeedsStepOver, AtBreakpoint
  <2> QED  BY <1>6, <2>5, <2>6 DEF WaveInv, InLine
<1>10. Sound(r)
  <2>1. Cardinality(r.buffers) <= Buffers
    <3>1. r.buffers \subseteq s.buffers
      BY <1>4, <1>5, <1>7
    <3>2. Cardinality(r.buffers) \in Nat /\ Cardinality(s.buffers) \in Nat
      BY <1>1, <1>6, BuffersFinite
    <3> QED  BY <1>1, <3>1, <3>2, FewerBuffers, WaveFacts DEF Sound
  <2> QED  BY <1>1, <1>6, <1>7, <2>1 DEF Sound
<1>11. WaveInv(r, w, {w}) /\ InLine(r, w)
  <2>1. ResumedInv(r, w) /\ QueuedInv(r, w) /\ InLine(r, w)
    BY <1>2, <1>3, <1>7 DEF ResumedInv, QueuedInv, InLine, InChain
  <2>2. DisplacedInv(r, w)
    BY <1>2, <1>4, <1>5, <1>7 DEF DisplacedInv
  <2>3. PausedInv(r, w, {w})
    BY <1>2, <1>3, <1>7 DEF PausedInv
  <2> QED  BY <2>1, <2>2, <2>3 DEF WaveInv
<1>12. Inv(r, {w})
  BY <1>9, <1>10, <1>11 DEF Inv, Base
<1>13. Open(r, w, ws)
  BY <1>2, <1>3, <1>7, <1>12 DEF Open, InChain
<1> QED  BY <1>5, <1>6, <1>7, <1>13 DEF r, d, a

\* finish_step_over settles every thread but that of the event.
LEMMA StepOverFinishedInv ==
  ASSUME NEW s, NEW w \in Waves, NEW ws, Inv(s, {}), Has(s, w, ws),
         NEW out \in Reliable
  PROVE  LET f == StepOverFinished(Received(s, w, ws), w, ws, out)
         IN Open(f.s, w, ws) /\ (f.restarted => f.s.info = None)
<1> DEFINE v == Received(s, w, ws)
           d == DisplacedStepFinish(v, w, ws)
           a == [d EXCEPT !.info = None]
           had == v.info # None
           n == StartStepOver(a, out)
           m == RestartThreads(n, w, out)
           f == StepOverFinished(v, w, ws, out)
<1>1. d \in Fields /\ Open(a, w, ws) /\ a.info = None
  BY TakenEventInv
<1>2. had => v.trap_expected[w]
  <2>1. s \in Fields /\ InLine(s, w)
    BY DEF Inv, Base, Sound
  <2>2. v.info = s.info /\ v.trap_expected = s.trap_expected
    BY <2>1, ReceivedFacts DEF Keeps, Names
  <2> HIDE DEF v
  <2> QED  BY <2>1, <2>2 DEF InLine, Has
<1>3. Open(n, w, ws)
  <2> HIDE DEF a
  <2>1. w \notin ToSet(a.chain) /\ Inv(a, {w}) /\ ~a.executing[w] /\ ~a.resumed[w]
    BY <1>1 DEF Open, InChain
  <2>2. Inv(n, {w}) /\ Untouched(a, n, w)
    BY <2>1, StartStepOverInv
  <2> HIDE DEF n
  <2>3. Calm(a, n, w) /\ ~n.resumed[w]
    BY <2>1, <2>2 DEF Untouched
  <2> QED  BY <1>1, <2>2, <2>3 DEF Open, Calm
<1>4. f = [restarted |-> MayRestart(had, n), s |-> IF MayRestart(had, n) THEN m ELSE n]
  <2> DEFINE sure == had => v.trap_expected[w]
             g == gdb_assert(d, sure)
  <2>1. g = d
    <3>1. sure
      BY <1>2
    <3> HIDE DEF sure, d
    <3> QED  BY <1>1, <3>1, AssertHolds
  <2>2. f = LET b == [g EXCEPT !.info = None]
                k == StartStepOver(b, out)
                restarts == ~Threw(k) /\ MayRestart(had, k)
            IN [restarted |-> restarts,
                s |-> IF ~restarts THEN k
                      ELSE RestartThreads(gdb_assert(k, k.info = None), w, out)]
    BY AllInserted DEF StepOverFinished
  <2>3. n \in Fields
    BY <1>3 DEF Open, Inv, Base, Sound
  <2> DEFINE Finished(k) ==
               [restarted |-> ~Threw(k) /\ MayRestart(had, k),
                s |-> IF ~(~Threw(k) /\ MayRestart(had, k)) THEN k
                      ELSE RestartThreads(gdb_assert(k, k.info = None), w, out)]
  <2>4. f = Finished(n)
    <3> HIDE DEF g, f, had, v, d
    <3> QED  BY <2>1, <2>2
  <2> HIDE DEF n, f, had
  <2>5. ~Threw(n)
    BY <2>3, NothingFailed
  <2>6. MayRestart(had, n) => gdb_assert(n, n.info = None) = n
    BY <2>3, AssertHolds DEF MayRestart
  <2> QED  BY <2>4, <2>5, <2>6 DEF MayRestart
<1> HIDE DEF f, a, had
<1>5. CASE MayRestart(had, n)
  <2>1. n.info = None /\ Inv(n, {w})
    BY <1>3, <1>5 DEF MayRestart, Open
  <2> HIDE DEF n
  <2>2. Inv(m, {w}) /\ m.info = None /\ Agree(n, m, w)
    BY <2>1, RestartInv
  <2> HIDE DEF m
  <2>3. Open(m, w, ws)
    BY <1>3, <2>2 DEF Open, Agree, Calm
  <2>4. f.s = m
    BY <1>4, <1>5
  <2> QED  BY <2>2, <2>3, <2>4 DEF f
<1>6. CASE ~MayRestart(had, n)
  <2> HIDE DEF n
  <2>1. f.s = n /\ ~f.restarted
    BY <1>4, <1>6
  <2> QED  BY <1>3, <2>1 DEF f
<1> QED  BY <1>5, <1>6

-----------------------------------------------------------------------------
(* The end of an event.                                                    *)

\* set_running (false) for all threads that do not run.
LEMMA AllStoppedInv ==
  ASSUME NEW s, Inv(s, Waves), \A x \in Waves : ~s.resumed[x], ~non_stop
  PROVE  Inv(SetAllStopped(s), {})
<1> DEFINE r == SetAllStopped(s)
           u == [w \in Waves |-> Halted(s.state[w])]
<1>1. s \in Fields /\ Sound(s)
  BY DEF Inv, Base, Sound
<1>2. u \in [Waves -> States]
  BY <1>1 DEF Fields, States, Halted
<1>3. <<>> \in Seq(Waves)
  OBVIOUS
<1>4. r = [s EXCEPT !.chain = <<>>, !.state = u]
  BY DEF SetAllStopped
<1> HIDE DEF r, u
<1>5. r \in Fields /\ Keeps(s, r, {"chain", "state"}) /\ r.chain = <<>> /\ r.state = u
  BY <1>1, <1>2, <1>3, <1>4 DEF Fields, Keeps, Names
<1>6. /\ r.at = s.at /\ r.event = s.event /\ r.buffers = s.buffers
      /\ r.resumed = s.resumed /\ r.executing = s.executing /\ r.pending = s.pending
      /\ r.trap_expected = s.trap_expected /\ r.displaced = s.displaced
      /\ r.map = s.map /\ r.aborted = s.aborted
  BY <1>5 DEF Keeps, Names
<1>7. Sound(r)
  BY <1>1, <1>5, <1>6, EmptyFacts DEF Sound
<1>8. ASSUME NEW x \in Waves PROVE WaveInv(r, x, {}) /\ InLine(r, x)
  <2>1. WaveInv(s, x, Waves) /\ ~s.resumed[x] /\ ~InChain(r, x)
    BY <1>5, EmptyFacts DEF Inv, Base, InChain
  <2>2. r.state[x] = Halted(s.state[x])
    BY <1>5 DEF u
  <2>3. ResumedInv(r, x) /\ DisplacedInv(r, x) /\ QueuedInv(r, x) /\ InLine(r, x)
    BY <1>6, <2>1 DEF WaveInv, ResumedInv, DisplacedInv, QueuedInv, InLine
  <2>4. PausedInv(r, x, {})
    BY <1>6, <2>1, <2>2 DEF WaveInv, PausedInv, Paused, Halted
  <2> QED  BY <2>3, <2>4 DEF WaveInv
<1> QED  BY <1>7, <1>8 DEF Inv, Base, r

\* In all-stop every thread is stopped, whatever was undecided about it.
LEMMA EveryoneStopsInv ==
  ASSUME NEW s, NEW E, E \subseteq Waves, Inv(s, E), ~non_stop, NEW out \in Reliable
  PROVE  LET r == SetAllStopped(StopAllThreads(s, out))
         IN Inv(r, {}) /\ \A x \in Waves : ~r.executing[x]
<1> DEFINE p == StopAllThreads(s, out)
           r == SetAllStopped(p)
<1>1. Inv(s, Waves) /\ s.info \in Waves \cup {None}
  BY MoreExcused DEF Inv, Base, Sound, Fields
<1>2. Inv(p, Waves) /\ \A x \in Waves : ~p.resumed[x] /\ ~p.executing[x]
  BY <1>1, StopAllInv DEF Inv
<1> HIDE DEF p
<1>3. Inv(r, {})
  BY <1>2, AllStoppedInv
<1>4. r.executing = p.executing
  BY <1>2 DEF SetAllStopped, Inv, Base, Sound, Fields
<1> QED  BY <1>2, <1>3, <1>4 DEF p

\* A thread that stops in non-stop.
LEMMA SetStoppedInv ==
  ASSUME NEW s, NEW w \in Waves, Inv(s, {w}), ~s.resumed[w],
         s.stop_pc[w] \/ s.state[w] = "THREAD_EXITED"
  PROVE  LET r == SetStopped(s, w)
         IN Inv(r, {}) /\ r.executing = s.executing
<1> DEFINE q == Unchain(s, w)
           u == Halted(q.state[w])
           r == [q EXCEPT !.state[w] = u]
<1>1. s \in Fields /\ Sound(s) /\ WaveInv(s, w, {w})
  BY DEF Inv, Base, Sound
<1>2. SetStopped(s, w) = r
  BY DEF SetStopped
<1>3. /\ q \in Fields /\ Keeps(s, q, {"chain"}) /\ Alone(s, q, w) /\ ~InChain(q, w)
      /\ IsInjective(q.chain)
  BY <1>1, UnchainFacts DEF Sound
<1> HIDE DEF q
<1>4. u \in States /\ u # "THREAD_RUNNING" /\ (s.state[w] = "THREAD_EXITED" => u = "THREAD_EXITED")
  BY <1>1, <1>3 DEF Halted, Fields, States, Keeps, Names
<1> HIDE DEF u
<1>5. r \in Fields /\ Keeps(q, r, {"state"}) /\ r.state = [q.state EXCEPT ![w] = u]
  BY <1>3, <1>4 DEF Fields, Keeps, Names
<1> HIDE DEF r
<1>6. Alone(q, r, w) /\ r.state[w] = u
  <2>1. ASSUME NEW x \in Waves \ {w} PROVE Agree(q, r, x)
    BY <1>3, <1>5 DEF Fields, Keeps, Names, Agree, Calm, InChain
  <2> QED  BY <1>3, <1>5, <2>1 DEF Fields, Keeps, Names, Alone
<1>7. Alone(s, r, w)
  BY <1>3, <1>6, AloneTwice
<1>8. /\ r.at = s.at /\ r.event = s.event /\ r.buffers = s.buffers
      /\ r.resumed = s.resumed /\ r.executing = s.executing /\ r.pending = s.pending
      /\ r.trap_expected = s.trap_expected /\ r.displaced = s.displaced
      /\ r.map = s.map /\ r.aborted = s.aborted /\ r.stop_pc = s.stop_pc
      /\ r.chain = q.chain
  BY <1>3, <1>5 DEF Keeps, Names
<1>9. Sound(r)
  BY <1>1, <1>3, <1>5, <1>8 DEF Sound
<1>10. ResumedInv(r, w) /\ DisplacedInv(r, w) /\ QueuedInv(r, w) /\ InLine(r, w)
  BY <1>1, <1>3, <1>8 DEF WaveInv, ResumedInv, DisplacedInv, QueuedInv, InLine, InChain
<1>11. PausedInv(r, w, {})
  BY <1>1, <1>4, <1>6, <1>8 DEF WaveInv, PausedInv, Paused
<1>12. Inv(r, {})
  BY <1>7, <1>9, <1>10, <1>11, AloneInv DEF WaveInv
<1> QED  BY <1>2, <1>8, <1>12

\* stop_waiting and normal_stop.
LEMMA PresentStopInv ==
  ASSUME NEW s, NEW w \in Waves, Inv(s, {w}), ~s.resumed[w], ~s.executing[w],
         s.stop_pc[w] \/ s.state[w] = "THREAD_EXITED", NEW out \in Reliable
  PROVE  LET r == PresentStop(s, w, out)
         IN Inv(r, {}) /\ ~r.executing[w]
<1>1. CASE non_stop
  <2>1. PresentStop(s, w, out) = SetStopped(s, w)
    BY <1>1 DEF PresentStop
  <2> QED  BY <2>1, SetStoppedInv
<1>2. CASE ~non_stop
  <2>1. PresentStop(s, w, out) = SetAllStopped(StopAllThreads(s, out))
    BY <1>2 DEF PresentStop
  <2> QED  BY <1>2, <2>1, EveryoneStopsInv
<1> QED  BY <1>1, <1>2

\* A thread that is deleted.
LEMMA DeletedInv ==
  ASSUME NEW s, NEW E, E \subseteq Waves, NEW w \in Waves, Inv(s, E), w \notin s.displaced
  PROVE  LET r == Deleted(s, w)
         IN /\ Inv(r, E \ {w}) /\ r.state[w] = "THREAD_EXITED" /\ ~r.executing[w]
            /\ ~r.resumed[w]
<1> DEFINE q == Unchain(s, w)
           r == Deleted(s, w)
           G == {"state", "resumed", "executing", "pending", "event", "stop_requested",
                 "trap_expected", "over", "stop_pc"}
<1>1. s \in Fields /\ Sound(s) /\ WaveInv(s, w, E)
  BY DEF Inv, Base, Sound
<1>2. /\ q \in Fields /\ Keeps(s, q, {"chain"}) /\ Alone(s, q, w) /\ ~InChain(q, w)
      /\ IsInjective(q.chain)
  BY <1>1, UnchainFacts DEF Sound
<1>3. r = [q EXCEPT
             !.state[w] = "THREAD_EXITED", !.resumed[w] = FALSE, !.executing[w] = FALSE,
             !.pending[w] = "none", !.event[w] = "none", !.stop_requested[w] = FALSE,
             !.trap_expected[w] = FALSE, !.over[w] = FALSE, !.stop_pc[w] = FALSE]
  BY DEF Deleted
<1> HIDE DEF q, r
<1>4. r \in Fields
  <2> DEFINE p == [q EXCEPT !.state[w] = "THREAD_EXITED", !.resumed[w] = FALSE,
                            !.executing[w] = FALSE, !.pending[w] = "none",
                            !.event[w] = "none"]
  <2>1. p \in Fields
    BY <1>2 DEF Fields, States, Events
  <2>2. r = [p EXCEPT !.stop_requested[w] = FALSE, !.trap_expected[w] = FALSE,
                      !.over[w] = FALSE, !.stop_pc[w] = FALSE]
    BY <1>2, <1>3 DEF Fields
  <2> HIDE DEF p
  <2> QED  BY <2>1, <2>2 DEF Fields
<1>5. Keeps(q, r, G)
  BY <1>2, <1>3 DEF Fields, Keeps, Names
<1>6. /\ r.state = [q.state EXCEPT ![w] = "THREAD_EXITED"]
      /\ r.resumed = [q.resumed EXCEPT ![w] = FALSE]
      /\ r.executing = [q.executing EXCEPT ![w] = FALSE]
      /\ r.pending = [q.pending EXCEPT ![w] = "none"]
      /\ r.event = [q.event EXCEPT ![w] = "none"]
      /\ r.stop_requested = [q.stop_requested EXCEPT ![w] = FALSE]
      /\ r.trap_expected = [q.trap_expected EXCEPT ![w] = FALSE]
      /\ r.over = [q.over EXCEPT ![w] = FALSE]
      /\ r.stop_pc = [q.stop_pc EXCEPT ![w] = FALSE]
  BY <1>2, <1>3 DEF Fields
<1>7. ASSUME NEW x \in Waves \ {w} PROVE Agree(q, r, x)
  <2>1. /\ r.state[x] = q.state[x] /\ r.resumed[x] = q.resumed[x]
        /\ r.executing[x] = q.executing[x] /\ r.pending[x] = q.pending[x]
        /\ r.event[x] = q.event[x] /\ r.stop_requested[x] = q.stop_requested[x]
        /\ r.trap_expected[x] = q.trap_expected[x] /\ r.over[x] = q.over[x]
        /\ r.stop_pc[x] = q.stop_pc[x]
    BY <1>2, <1>6 DEF Fields
  <2> QED  BY <1>5, <2>1 DEF Keeps, Names, Agree, Calm, InChain
<1>8. Alone(s, r, w)
  <2>1. Alone(q, r, w)
    BY <1>5, <1>7 DEF Keeps, Names, Alone
  <2> QED  BY <1>2, <2>1, AloneTwice
<1>9. /\ r.state[w] = "THREAD_EXITED" /\ ~r.resumed[w] /\ ~r.executing[w]
      /\ r.event[w] = "none"
  BY <1>2, <1>6 DEF Fields
<1>10. /\ r.displaced = s.displaced /\ r.map = s.map /\ r.buffers = s.buffers
       /\ r.chain = q.chain /\ r.aborted = s.aborted
  BY <1>2, <1>5 DEF Keeps, Names
<1>11. Sound(r) /\ ~InChain(r, w)
  BY <1>1, <1>2, <1>4, <1>10 DEF Sound, InChain
<1>12. ResumedInv(r, w) /\ DisplacedInv(r, w) /\ QueuedInv(r, w) /\ InLine(r, w)
  BY <1>1, <1>9, <1>10, <1>11 DEF WaveInv, ResumedInv, DisplacedInv, QueuedInv, InLine
<1>13. PausedInv(r, w, E \ {w})
  BY <1>9 DEF PausedInv, Paused
<1>14. Inv(r, E \ {w})
  BY <1>8, <1>11, <1>12, <1>13, AloneInv DEF WaveInv
<1> QED  BY <1>9, <1>14 DEF r

\* The end of handle_thread_exited.
LEMMA ThreadExitedInv ==
  ASSUME NEW s, NEW w \in Waves, Open(s, w, "exit"), NEW out \in Reliable,
         ThreadExited(s, w, out)
  PROVE  Inv(t', {})
<1>1. Inv(s, {w}) /\ ~s.resumed[w] /\ ~s.executing[w] /\ s.state[w] = "THREAD_EXITED"
  BY DEF Open
<1>2. \A a : Inv(a, {w}) /\ ~a.executing[w] => w \notin a.displaced
  BY DEF Inv, Base, WaveInv, DisplacedInv
<1>3. \A E : E \subseteq {w} => E \ {w} = {}
  OBVIOUS
<1>4. CASE t' = Deleted(s, w)
  <2>1. Inv(Deleted(s, w), {w} \ {w})
    BY <1>1, <1>2, DeletedInv
  <2> QED  BY <1>3, <1>4, <2>1
<1>5. CASE t' = Deleted(PresentStop(s, w, out), w)
  <2> DEFINE p == PresentStop(s, w, out)
  <2>1. Inv(p, {}) /\ ~p.executing[w]
    BY <1>1, PresentStopInv
  <2> HIDE DEF p
  <2>2. w \notin p.displaced
    BY <2>1 DEF Inv, Base, WaveInv, DisplacedInv
  <2>3. Inv(Deleted(p, w), {} \ {w})
    BY <2>1, <2>2, DeletedInv
  <2> QED  BY <1>3, <1>5, <2>3 DEF p
<1> QED  BY <1>4, <1>5 DEF ThreadExited

\* handle_signal_stop: the thread stops or goes on.
LEMMA SignalStopInv ==
  ASSUME NEW s, NEW w \in Waves, NEW ws, ws # "exit", Open(s, w, ws),
         NEW out \in Reliable, HandleSignalStop(s, w, ws, out)
  PROVE  Inv(t', {})
<1> DEFINE asked == s.stop_requested[w] \/ ws = "stop"
           b == ~asked /\ AtBreakpoint(s, w)
           a == [s EXCEPT !.stop_pc[w] = TRUE, !.over[w] = b]
<1>1. t' = PresentStop(a, w, out) \/ (~asked /\ t' = KeepGoing(a, w, out))
  BY DEF HandleSignalStop
<1>2. /\ s \in Fields /\ Sound(s) /\ WaveInv(s, w, {w}) /\ b \in BOOLEAN
      /\ Inv(s, {w}) /\ ~s.resumed[w] /\ ~s.executing[w] /\ ~InChain(s, w)
      /\ s.event[w] = "none" /\ s.state[w] = "THREAD_RUNNING" /\ s.at[w] # "gone"
  BY DEF Open, Inv, Base, Sound
<1>3. ~asked => ~s.stop_requested[w] /\ (b <=> AtBreakpoint(s, w))
  OBVIOUS
<1> HIDE DEF b, asked
<1>4. /\ a \in Fields /\ Keeps(s, a, {"stop_pc", "over"})
      /\ a.stop_pc = [s.stop_pc EXCEPT ![w] = TRUE] /\ a.over = [s.over EXCEPT ![w] = b]
  BY <1>2 DEF Fields, Keeps, Names
<1> HIDE DEF a
<1>5. Alone(s, a, w) /\ a.stop_pc[w] /\ a.over[w] = b
  <2>1. ASSUME NEW x \in Waves \ {w} PROVE Agree(s, a, x)
    BY <1>2, <1>4 DEF Fields, Keeps, Names, Agree, Calm, InChain
  <2> QED  BY <1>2, <1>4, <2>1 DEF Fields, Keeps, Names, Alone
<1>6. /\ a.at = s.at /\ a.event = s.event /\ a.buffers = s.buffers /\ a.state = s.state
      /\ a.resumed = s.resumed /\ a.executing = s.executing
      /\ a.stop_requested = s.stop_requested /\ a.pending = s.pending
      /\ a.displaced = s.displaced /\ a.map = s.map /\ a.chain = s.chain
      /\ a.aborted = s.aborted
  BY <1>4 DEF Keeps, Names
<1>7. Inv(a, {w})
  <2>1. Sound(a)
    BY <1>2, <1>4, <1>6 DEF Sound
  <2>2. ResumedInv(a, w) /\ DisplacedInv(a, w) /\ QueuedInv(a, w) /\ InLine(a, w)
    BY <1>2, <1>6 DEF WaveInv, ResumedInv, DisplacedInv, QueuedInv, InLine, InChain
  <2>3. PausedInv(a, w, {w})
    BY <1>2, <1>6 DEF PausedInv
  <2> QED  BY <1>2, <1>5, <2>1, <2>2, <2>3, AloneInv DEF WaveInv
<1>8. CASE t' = PresentStop(a, w, out)
  BY <1>2, <1>5, <1>6, <1>7, <1>8, PresentStopInv
<1>9. CASE ~asked /\ t' = KeepGoing(a, w, out)
  <2> DEFINE q == Trapping(a, w, FALSE)
             r == KeepGoingPassSignal(q, w, out)
  <2>1. /\ Inv(q, {w}) /\ Keeps(a, q, {"trap_expected"}) /\ q.trap_expected[w] = FALSE
    BY <1>2, <1>6, <1>7, TrappingInv DEF InChain
  <2> HIDE DEF q
  <2>2. /\ q.at = s.at /\ q.state = s.state /\ q.over = a.over /\ q.chain = s.chain
        /\ q.resumed = s.resumed /\ q.executing = s.executing
        /\ q.stop_requested = s.stop_requested
    BY <1>6, <2>1 DEF Keeps, Names
  <2>3. NeedsStepOver(q, w) \/ q.at[w] = "none"
    <3>1. s.at[w] \in Places
      BY <1>2 DEF Fields
    <3> QED  BY <1>3, <1>5, <1>9, <2>2, <3>1 DEF NeedsStepOver, AtBreakpoint, Places, Breakpoints
  <2>4. Ready(q, w)
    BY <1>2, <1>3, <1>9, <2>1, <2>2, <2>3 DEF Ready, InChain
  <2>5. Inv(r, {w} \ {w})
    BY <2>1, <2>4, KeepGoingInv
  <2>6. {w} \ {w} = {}
    OBVIOUS
  <2>7. t' = r
    <3>1. r \in Fields
      BY <2>5 DEF Inv, Base, Sound
    <3>2. r.failed = "no" /\ ~Threw(r)
      BY <3>1, NothingFailed
    <3> QED  BY <1>9, <3>2 DEF KeepGoing, q, Trapping
  <2> HIDE DEF r
  <2> QED  BY <2>7, <2>5, <2>6
<1> QED  BY <1>1, <1>8, <1>9

\* An event that is put back is found again.
LEMMA PutBackInv ==
  ASSUME NEW s, NEW w \in Waves, NEW ws \in Events \ {"none", "exit"}, Open(s, w, ws),
         s.info = None
  PROVE  Inv(EventPutBack(s, w, ws), {})
<1> DEFINE r == EventPutBack(s, w, ws)
<1>1. /\ s \in Fields /\ Sound(s) /\ WaveInv(s, w, {w})
      /\ Inv(s, {w}) /\ ~s.executing[w] /\ ~InChain(s, w)
      /\ s.event[w] = "none" /\ s.state[w] = "THREAD_RUNNING" /\ s.at[w] # "gone"
  BY DEF Open, Inv, Base, Sound
<1>2. /\ r \in Fields /\ Keeps(s, r, {"pending", "resumed", "stop_pc", "over"})
      /\ r.pending = [s.pending EXCEPT ![w] = ws] /\ r.resumed = [s.resumed EXCEPT ![w] = TRUE]
      /\ r.stop_pc = [s.stop_pc EXCEPT ![w] = TRUE] /\ r.over = [s.over EXCEPT ![w] = FALSE]
  <2> DEFINE kept == [s EXCEPT !.pending[w] = ws]
             sure == ~(s.resumed[w] /\ s.pending[w] # "none") /\ ~s.executing[w]
  <2>1. sure /\ s.pending[w] = "none"
    BY DEF Open
  <2>2. gdb_assert(s, sure) = s /\ gdb_assert(s, s.pending[w] = "none") = s
    <3> HIDE DEF sure
    <3> QED  BY <1>1, <2>1, AssertHolds
  <2>3. SaveWaitstatus(s, w, ws) = kept
    BY <2>2, Zenon DEF SaveWaitstatus
  <2>4. r = [kept EXCEPT !.resumed[w] = TRUE, !.stop_pc[w] = TRUE, !.over[w] = FALSE]
    <3>1. r = LET a == gdb_assert(s, sure)
              IN [SaveWaitstatus(a, w, ws) EXCEPT
                    !.resumed[w] = TRUE, !.stop_pc[w] = TRUE, !.over[w] = FALSE]
      BY DEF EventPutBack
    <3> HIDE DEF r, kept, sure
    <3> QED  BY <2>2, <2>3, <3>1
  <2> HIDE DEF r
  <2>5. kept \in Fields /\ Keeps(s, kept, {"pending"}) /\ kept.pending = [s.pending EXCEPT ![w] = ws]
    BY <1>1 DEF Fields, Keeps, Names
  <2> HIDE DEF kept
  <2>6. /\ r \in Fields /\ Keeps(kept, r, {"resumed", "stop_pc", "over"})
        /\ r.resumed = [kept.resumed EXCEPT ![w] = TRUE]
        /\ r.stop_pc = [kept.stop_pc EXCEPT ![w] = TRUE]
        /\ r.over = [kept.over EXCEPT ![w] = FALSE]
    BY <2>4, <2>5 DEF Fields, Keeps, Names
  <2> QED  BY <2>5, <2>6 DEF Keeps, Names
<1> HIDE DEF r
<1>3. Alone(s, r, w) /\ r.pending[w] = ws /\ r.resumed[w]
  <2>1. ASSUME NEW x \in Waves \ {w} PROVE Agree(s, r, x)
    BY <1>1, <1>2 DEF Fields, Keeps, Names, Agree, Calm, InChain
  <2> QED  BY <1>1, <1>2, <2>1 DEF Fields, Keeps, Names, Alone
<1>4. /\ r.at = s.at /\ r.event = s.event /\ r.buffers = s.buffers /\ r.state = s.state
      /\ r.executing = s.executing /\ r.displaced = s.displaced /\ r.map = s.map
      /\ r.chain = s.chain /\ r.info = s.info /\ r.aborted = s.aborted
  BY <1>2 DEF Keeps, Names
<1>5. Sound(r)
  BY <1>1, <1>2, <1>4 DEF Sound
<1>6. ResumedInv(r, w) /\ DisplacedInv(r, w) /\ QueuedInv(r, w) /\ InLine(r, w)
  BY <1>1, <1>3, <1>4 DEF WaveInv, ResumedInv, DisplacedInv, QueuedInv, InLine, InChain
<1>7. PausedInv(r, w, {})
  BY <1>1, <1>3, <1>4 DEF PausedInv, Paused
<1> QED  BY <1>1, <1>3, <1>5, <1>6, <1>7, AloneInv DEF WaveInv, r

\* handle_inferior_event.
LEMMA EventInv ==
  ASSUME NEW w \in Waves, NEW ws, Inv(t, {}), Has(t, w, ws),
         NEW out \in Reliable, HandleInferiorEvent(w, ws, out)
  PROVE  Inv(t', {})
<1> DEFINE v == Received(t, w, ws)
           f == StepOverFinished(v, w, ws, out)
<1>1. Open(f.s, w, ws) /\ (f.restarted => f.s.info = None)
  BY StepOverFinishedInv
<1>2. IF ws = "exit" THEN ThreadExited(f.s, w, out)
      ELSE IF PutBack(f, ws) THEN t' = EventPutBack(f.s, w, ws)
      ELSE HandleSignalStop(f.s, w, ws, out)
  <2>1. f.s \in Fields
    BY <1>1 DEF Open, Inv, Base, Sound
  <2>2. ~Threw(f.s)
    BY <2>1, NothingFailed
  <2> QED  BY <2>2 DEF HandleInferiorEvent, Received
<1> HIDE DEF f
<1>3. CASE ws = "exit"
  BY <1>2, <1>1, <1>3, ThreadExitedInv
<1>4. CASE ws # "exit" /\ PutBack(f, ws)
  <2> DEFINE s == f.s
  <2>1. s.info = None /\ ws \in Events \ {"none", "exit"} /\ Open(s, w, ws)
    BY <1>1, <1>4 DEF PutBack, Has
  <2>2. t' = EventPutBack(s, w, ws)
    BY <1>2, <1>4
  <2> HIDE DEF s
  <2> QED  BY <2>1, <2>2, PutBackInv
<1>5. CASE ws # "exit" /\ ~PutBack(f, ws)
  BY <1>2, <1>1, <1>5, SignalStopInv
<1> QED  BY <1>3, <1>4, <1>5

-----------------------------------------------------------------------------
(* The waves.                                                              *)

\* What a wave reports agrees with how its thread was resumed.
LEMMA WaveReportsInv ==
  ASSUME NEW w \in Waves, NEW o \in Outcomes, Inv(t, {}), WaveReports(w, o)
  PROVE  Inv(t', {})
<1> DEFINE s == t
           r == Reports(t, w, o)
<1>1. t' = r /\ s.executing[w] /\ s.event[w] = "none"
  BY DEF WaveReports
<1>2. s \in Fields /\ Sound(s) /\ WaveInv(s, w, {}) /\ InLine(s, w)
  BY DEF Inv, Base, Sound
<1>3. /\ r \in Fields /\ Keeps(s, r, {"at", "event", "buffers"}) /\ Alone(s, r, w)
      /\ r.buffers \subseteq s.buffers
      /\ \/ r.event[w] = "exit" /\ w \notin r.buffers
         \/ /\ r.event[w] = IF s.trap_expected[w] THEN "step" ELSE "bp"
            /\ r.at[w] \in Places /\ r.buffers = s.buffers
         \/ r.event[w] = "stop" /\ r.at[w] = s.at[w] /\ r.buffers = s.buffers
  BY <1>2, ReportsFacts
<1>4. Inv(s, {})
  OBVIOUS
<1> HIDE DEF r, s
<1>5. /\ r.state = s.state /\ r.resumed = s.resumed /\ r.executing = s.executing
      /\ r.pending = s.pending /\ r.trap_expected = s.trap_expected
      /\ r.over = s.over /\ r.displaced = s.displaced /\ r.map = s.map
      /\ r.chain = s.chain /\ r.info = s.info /\ r.aborted = s.aborted
  BY <1>3 DEF Keeps, Names
<1>6. Sound(r)
  <2>1. Cardinality(r.buffers) \in Nat /\ Cardinality(s.buffers) \in Nat
    BY <1>2, <1>3, BuffersFinite
  <2>2. Cardinality(r.buffers) <= Buffers
    BY <1>2, <1>3, <2>1, FewerBuffers, WaveFacts DEF Sound
  <2> QED  BY <1>2, <1>3, <1>5, <2>2 DEF Sound
<1>7. /\ s.resumed[w] /\ s.pending[w] = "none" /\ s.state[w] = "THREAD_RUNNING"
      /\ ~InChain(s, w)
  BY <1>1, <1>2 DEF WaveInv, ResumedInv, QueuedInv
<1>8. ResumedInv(r, w)
  BY <1>1, <1>2, <1>3, <1>5, <1>7 DEF WaveInv, ResumedInv, NeedsStepOver, AtBreakpoint
<1>9. DisplacedInv(r, w) /\ InLine(r, w)
  BY <1>1, <1>2, <1>3, <1>5 DEF WaveInv, DisplacedInv, InLine
<1>10. QueuedInv(r, w) /\ PausedInv(r, w, {})
  <2>1. s.at[w] # "gone"
    BY <1>1, <1>2, <1>7 DEF WaveInv, PausedInv
  <2> QED  BY <1>3, <1>5, <1>7, <2>1 DEF QueuedInv, PausedInv, Paused, InChain, Places
<1>11. Inv(r, {})
  BY <1>3, <1>4, <1>6, <1>8, <1>9, <1>10, AloneInv DEF WaveInv
<1> QED  BY <1>1, <1>11

\* A wave that runs free and ends holds no buffer and is in no queue.
LEMMA WaveEndsInv ==
  ASSUME NEW w \in Waves, Inv(t, {}), WaveEnds(w)
  PROVE  Inv(t', {})
<1> DEFINE s == Deleted(t, w)
           r == [s EXCEPT !.at[w] = "gone"]
<1>1. t' = r /\ ~t.trap_expected[w]
  BY DEF WaveEnds, Stepping
<1>2. Inv(s, {}) /\ s.state[w] = "THREAD_EXITED" /\ ~s.executing[w] /\ ~s.resumed[w]
  <2>1. w \notin t.displaced
    BY <1>1 DEF Inv, Base, WaveInv, DisplacedInv
  <2>2. {} \ {w} = {}
    OBVIOUS
  <2>3. /\ Inv(s, {} \ {w}) /\ s.state[w] = "THREAD_EXITED" /\ ~s.executing[w]
        /\ ~s.resumed[w]
    BY <2>1, DeletedInv
  <2> HIDE DEF s
  <2> QED  BY <2>2, <2>3
<1> HIDE DEF s
<1>3. s \in Fields /\ Sound(s) /\ WaveInv(s, w, {})
  BY <1>2 DEF Inv, Base, Sound
<1>4. r \in Fields /\ Keeps(s, r, {"at"}) /\ r.at = [s.at EXCEPT ![w] = "gone"]
  BY <1>3 DEF Fields, Keeps, Names
<1> HIDE DEF r
<1>5. Alone(s, r, w)
  <2>1. ASSUME NEW x \in Waves \ {w} PROVE Agree(s, r, x)
    BY <1>3, <1>4 DEF Fields, Keeps, Names, Agree, Calm, InChain
  <2> QED  BY <1>4, <2>1 DEF Keeps, Names, Alone
<1>6. /\ r.event = s.event /\ r.state = s.state /\ r.executing = s.executing
      /\ r.resumed = s.resumed /\ r.displaced = s.displaced /\ r.map = s.map
      /\ r.buffers = s.buffers /\ r.chain = s.chain /\ r.aborted = s.aborted
  BY <1>4 DEF Keeps, Names
<1>7. Sound(r)
  BY <1>3, <1>4, <1>6 DEF Sound
<1>8. ResumedInv(r, w) /\ DisplacedInv(r, w) /\ QueuedInv(r, w) /\ InLine(r, w)
  BY <1>2, <1>3, <1>6 DEF WaveInv, ResumedInv, DisplacedInv, QueuedInv, InLine, InChain
<1>9. PausedInv(r, w, {})
  BY <1>2, <1>6 DEF PausedInv, Paused
<1>10. Inv(r, {})
  BY <1>2, <1>5, <1>7, <1>8, <1>9, AloneInv DEF WaveInv
<1> QED  BY <1>1, <1>10

-----------------------------------------------------------------------------
(* Commands.                                                               *)

\* An event of a host thread starts queued steps, and may stop every thread.
LEMMA HostEventInv ==
  ASSUME ~InsertFails, Inv(t, {}), HostEvent
  PROVE  Inv(t', {})
<1>1. PICK out \in Reliable :
        \/ t' = [StartStepOver(t, out) EXCEPT !.failed = "no"]
        \/ ~non_stop /\ t' = SetAllStopped(StopAllThreads(StartStepOver(t, out), out))
  BY ReliableChances DEF HostEvent
<1> DEFINE s == StartStepOver(t, out)
<1>2. Inv(s, {})
  BY StartStepOverInv
<1> HIDE DEF s
<1>3. [s EXCEPT !.failed = "no"] = s
  <2>1. s \in Fields
    BY <1>2 DEF Inv, Base, Sound
  <2> QED  BY <2>1 DEF Fields
<1>4. ~non_stop => Inv(SetAllStopped(StopAllThreads(s, out)), {})
  BY <1>2, EveryoneStopsInv
<1> QED  BY <1>1, <1>2, <1>4, <1>3 DEF s

\* The interrupt command on a thread that executes, is queued, or is paused.
LEMMA InterruptInv ==
  ASSUME NEW w \in Waves, Inv(t, {}), Interrupt(w)
  PROVE  Inv(t', {})
<1> DEFINE s == t
           a == [s EXCEPT !.stop_requested[w] = TRUE]
<1>1. /\ Inv(s, {}) /\ s.state[w] = "THREAD_RUNNING"
      /\ t' = IF s.executing[w] THEN a
              ELSE [Unchain(a, w) EXCEPT
                      !.pending[w] = IF @ = "none" THEN "stop" ELSE @,
                      !.resumed[w] = @ \/ s.info = None]
  BY DEF Interrupt
<1> HIDE DEF s
<1>2. s \in Fields /\ Sound(s) /\ WaveInv(s, w, {}) /\ InLine(s, w)
  BY <1>1 DEF Inv, Base, Sound
<1>3. /\ a \in Fields /\ Keeps(s, a, {"stop_requested"})
      /\ a.stop_requested = [s.stop_requested EXCEPT ![w] = TRUE]
  BY <1>2 DEF Fields, Keeps, Names
<1> HIDE DEF a
<1>4. Alone(s, a, w)
  <2>1. ASSUME NEW x \in Waves \ {w} PROVE Agree(s, a, x)
    BY <1>2, <1>3 DEF Fields, Keeps, Names, Agree, Calm, InChain
  <2> QED  BY <1>3, <2>1 DEF Keeps, Names, Alone
<1>5. /\ a.at = s.at /\ a.event = s.event /\ a.buffers = s.buffers /\ a.state = s.state
      /\ a.resumed = s.resumed /\ a.executing = s.executing /\ a.pending = s.pending
      /\ a.trap_expected = s.trap_expected /\ a.over = s.over /\ a.stop_pc = s.stop_pc
      /\ a.displaced = s.displaced /\ a.map = s.map /\ a.chain = s.chain
      /\ a.info = s.info /\ a.aborted = s.aborted
  BY <1>3 DEF Keeps, Names
<1>6. CASE s.executing[w]
  <2>1. s.resumed[w] /\ ~InChain(s, w)
    BY <1>2, <1>6 DEF WaveInv, ResumedInv, QueuedInv
  <2>2. Sound(a)
    BY <1>2, <1>3, <1>5 DEF Sound
  <2>3. ResumedInv(a, w) /\ DisplacedInv(a, w) /\ InLine(a, w)
    BY <1>2, <1>5 DEF WaveInv, ResumedInv, DisplacedInv, InLine, NeedsStepOver, AtBreakpoint
  <2>4. QueuedInv(a, w) /\ PausedInv(a, w, {})
    BY <1>2, <1>5, <2>1 DEF WaveInv, QueuedInv, PausedInv, Paused, InChain
  <2>5. Inv(a, {})
    BY <1>1, <1>4, <2>2, <2>3, <2>4, AloneInv DEF WaveInv
  <2> QED  BY <1>1, <1>6, <2>5
<1>7. CASE ~s.executing[w]
  <2> DEFINE q == Unchain(a, w)
             p == IF q.pending[w] = "none" THEN "stop" ELSE q.pending[w]
             b == q.resumed[w] \/ s.info = None
             r == [q EXCEPT !.pending[w] = p, !.resumed[w] = b]
  <2>1. t' = r
    BY <1>1, <1>7
  <2>2. /\ q \in Fields /\ Keeps(a, q, {"chain"}) /\ Alone(a, q, w) /\ ~InChain(q, w)
        /\ IsInjective(q.chain)
    BY <1>2, <1>3, <1>5, UnchainFacts DEF Sound
  <2> HIDE DEF q
  <2>3. /\ p \in Events /\ p # "none" /\ b \in BOOLEAN
        /\ q.pending = s.pending /\ q.resumed = s.resumed
    BY <1>5, <2>2 DEF Fields, Keeps, Names, Events
  <2>4. (s.pending[w] # "none" => p = s.pending[w]) /\ (b <=> s.resumed[w] \/ s.info = None)
    BY <2>3
  <2> HIDE DEF p, b
  <2>5. /\ r \in Fields /\ Keeps(q, r, {"pending", "resumed"})
        /\ r.pending = [q.pending EXCEPT ![w] = p] /\ r.resumed = [q.resumed EXCEPT ![w] = b]
    BY <2>2, <2>3 DEF Fields, Keeps, Names
  <2> HIDE DEF r
  <2>6. Alone(q, r, w) /\ r.pending[w] = p /\ r.resumed[w] = b
    <3>1. ASSUME NEW x \in Waves \ {w} PROVE Agree(q, r, x)
      BY <2>2, <2>5 DEF Fields, Keeps, Names, Agree, Calm, InChain
    <3> QED  BY <2>2, <2>5, <3>1 DEF Fields, Keeps, Names, Alone
  <2>7. Alone(s, r, w)
    BY <1>4, <2>2, <2>6, AloneTwice
  <2>8. /\ r.at = s.at /\ r.event = s.event /\ r.buffers = s.buffers /\ r.state = s.state
        /\ r.executing = s.executing /\ r.trap_expected = s.trap_expected
        /\ r.over = s.over /\ r.stop_pc = s.stop_pc /\ r.displaced = s.displaced
        /\ r.map = s.map /\ r.chain = q.chain /\ r.info = s.info /\ r.aborted = s.aborted
    BY <1>5, <2>2, <2>5 DEF Keeps, Names
  <2>9. Sound(r) /\ ~InChain(r, w)
    BY <1>2, <2>2, <2>5, <2>8 DEF Sound, InChain
  <2>10. ResumedInv(r, w) /\ DisplacedInv(r, w) /\ QueuedInv(r, w)
    BY <1>1, <1>2, <1>7, <2>3, <2>6, <2>8, <2>9 DEF WaveInv, ResumedInv, DisplacedInv,
       QueuedInv
  <2>11. PausedInv(r, w, {}) /\ InLine(r, w)
    BY <1>1, <1>2, <1>7, <2>3, <2>4, <2>6, <2>8 DEF WaveInv, ResumedInv, PausedInv, Paused,
       InLine
  <2>12. Inv(r, {})
    BY <1>1, <2>7, <2>9, <2>10, <2>11, AloneInv DEF WaveInv
  <2> QED  BY <2>1, <2>12
<1> QED  BY <1>6, <1>7

\* What proceed starts from: the threads to resume are running for the user, and
\* nothing of their last stop is left but the breakpoint to step over.
Proceeding(s, cur, ws) ==
  [gdb_assert(CurrentOver(ClearProceedStatus(s, ws), cur), ~InChain(s, cur))
     EXCEPT !.state = [w \in Waves |-> IF w \in ws THEN "THREAD_RUNNING" ELSE @[w]]]

\* Those threads are ready, and proceed has to settle them.
LEMMA ProceedingInv ==
  ASSUME NEW s, Inv(s, {}), NEW cur \in Waves, NEW ws, ws \subseteq Waves, cur \in ws,
         s.state[cur] = "THREAD_STOPPED", s.at[cur] # "gone",
         \A w \in ws : s.state[w] = "THREAD_STOPPED",
         non_stop => ws = {cur}
  PROVE  LET r == Proceeding(s, cur, ws)
         IN /\ Inv(r, ws) /\ \A w \in ws : Ready(r, w)
            /\ r.over[cur] <=> NeedsStepOver(r, cur)
<1> DEFINE trap == [w \in Waves |-> s.trap_expected[w] /\ w \notin ws]
           stop == [w \in Waves |-> s.stop_requested[w] /\ w \notin ws]
           pend == [w \in Waves |-> IF w \in ws /\ s.pending[w] = "step" THEN "none"
                                    ELSE s.pending[w]]
           c == [s EXCEPT !.trap_expected = trap, !.stop_requested = stop, !.pending = pend]
           b == c.stop_pc[cur] /\ AtBreakpoint(c, cur)
           o == [c EXCEPT !.over[cur] = b]
           run == [w \in Waves |-> IF w \in ws THEN "THREAD_RUNNING" ELSE o.state[w]]
           r == [o EXCEPT !.state = run]
<1>1. s \in Fields /\ Sound(s)
  BY DEF Inv, Base, Sound
<1>2. /\ trap \in [Waves -> BOOLEAN] /\ stop \in [Waves -> BOOLEAN]
      /\ pend \in [Waves -> Events]
  BY <1>1 DEF Fields, Events
<1>3. /\ \A w \in ws : ~trap[w] /\ ~stop[w]
      /\ \A w \in ws : pend[w] = IF s.pending[w] = "step" THEN "none" ELSE s.pending[w]
      /\ \A w \in Waves \ ws : /\ trap[w] = s.trap_expected[w] /\ stop[w] = s.stop_requested[w]
                               /\ pend[w] = s.pending[w]
  BY <1>1 DEF Fields
<1>4. c = ClearProceedStatus(s, ws)
  BY DEF ClearProceedStatus
<1> HIDE DEF trap, stop, pend
<1>5. /\ c \in Fields /\ Keeps(s, c, {"trap_expected", "stop_requested", "pending"})
      /\ c.trap_expected = trap /\ c.stop_requested = stop /\ c.pending = pend
  BY <1>1, <1>2 DEF Fields, Keeps, Names
<1>6. o = CurrentOver(c, cur)
  BY DEF CurrentOver
<1> HIDE DEF c
<1>7. b \in BOOLEAN
  BY <1>5 DEF Fields
<1>8. b <=> s.stop_pc[cur] /\ AtBreakpoint(s, cur)
  BY <1>5 DEF Keeps, Names, AtBreakpoint
<1> HIDE DEF b
<1>9. o \in Fields /\ Keeps(c, o, {"over"}) /\ o.over = [c.over EXCEPT ![cur] = b]
  BY <1>5, <1>7 DEF Fields, Keeps, Names
<1> HIDE DEF o
<1>10. o.state = s.state
  BY <1>5, <1>9 DEF Keeps, Names
<1>11. /\ run \in [Waves -> States]
       /\ \A w \in Waves : run[w] = IF w \in ws THEN "THREAD_RUNNING" ELSE s.state[w]
  BY <1>1, <1>10 DEF Fields, States
<1>12. Proceeding(s, cur, ws) = r
  <2>1. WaveInv(s, cur, {})
    BY DEF Inv, Base
  <2>2. ~InChain(s, cur)
    BY <2>1 DEF WaveInv, QueuedInv
  <2>3. gdb_assert(o, ~InChain(s, cur)) = o
    BY <1>9, <2>2, AssertHolds
  <2> QED  BY <1>4, <1>6, <2>3 DEF Proceeding
<1> HIDE DEF run
<1>13. r \in Fields /\ Keeps(o, r, {"state"}) /\ r.state = run
  BY <1>9, <1>11 DEF Fields, Keeps, Names
<1> HIDE DEF r
<1>14. /\ r.at = s.at /\ r.event = s.event /\ r.buffers = s.buffers
       /\ r.resumed = s.resumed /\ r.executing = s.executing /\ r.pending = pend
       /\ r.stop_requested = stop /\ r.trap_expected = trap /\ r.stop_pc = s.stop_pc
       /\ r.displaced = s.displaced /\ r.map = s.map /\ r.chain = s.chain
       /\ r.info = s.info /\ r.aborted = s.aborted /\ r.over = o.over /\ c.over = s.over
  BY <1>5, <1>9, <1>13 DEF Keeps, Names
<1>15. r.over[cur] = b /\ \A x \in Waves \ {cur} : r.over[x] = s.over[x]
  BY <1>1, <1>9, <1>14 DEF Fields
<1>16. Sound(r)
  BY <1>1, <1>13, <1>14 DEF Sound
<1>17. ASSUME NEW x \in Waves \ ws PROVE WaveInv(r, x, ws) /\ InLine(r, x)
  <2>1. WaveInv(s, x, {}) /\ InLine(s, x)
    BY DEF Inv, Base
  <2>2. /\ r.state[x] = s.state[x] /\ r.trap_expected[x] = s.trap_expected[x]
        /\ r.stop_requested[x] = s.stop_requested[x] /\ r.pending[x] = s.pending[x]
        /\ r.over[x] = s.over[x]
    BY <1>3, <1>11, <1>13, <1>14, <1>15
  <2>3. Agree(s, r, x)
    BY <1>14, <2>2 DEF Agree, Calm, InChain
  <2>4. WaveInv(r, x, ws)
    BY <1>14, <2>1, <2>3, AgreeInv
  <2> QED  BY <1>14, <2>1, <2>2, <2>4 DEF InLine
<1>18. ASSUME NEW x \in ws PROVE WaveInv(r, x, ws) /\ InLine(r, x) /\ Ready(r, x)
  <2>1. WaveInv(s, x, {}) /\ s.state[x] = "THREAD_STOPPED" /\ x \in Waves
    BY DEF Inv, Base
  <2>2. /\ ~s.resumed[x] /\ ~s.executing[x] /\ ~InChain(s, x) /\ s.event[x] = "none"
        /\ x \notin s.displaced /\ x \notin s.map /\ x \notin s.buffers
    BY <2>1 DEF WaveInv, ResumedInv, QueuedInv, DisplacedInv
  <2>3. /\ r.state[x] = "THREAD_RUNNING" /\ ~r.trap_expected[x] /\ ~r.stop_requested[x]
        /\ s.pending[x] = "exit" => r.pending[x] = "exit"
    BY <1>3, <1>11, <1>13, <1>14, <2>1
  <2>4. s.at[x] = "gone" => s.pending[x] = "exit"
    BY <2>1, <2>2 DEF WaveInv, PausedInv
  <2>5. ResumedInv(r, x) /\ DisplacedInv(r, x) /\ QueuedInv(r, x) /\ InLine(r, x)
    BY <1>14, <2>2 DEF ResumedInv, DisplacedInv, QueuedInv, InLine, InChain
  <2>6. PausedInv(r, x, ws)
    BY <1>14, <2>3, <2>4 DEF PausedInv
  <2>7. non_stop => NeedsStepOver(r, x) \/ r.at[x] = "none"
    <3>1. SUFFICES ASSUME non_stop PROVE NeedsStepOver(r, x) \/ r.at[x] = "none"
      OBVIOUS
    <3>2. x = cur /\ s.stop_pc[cur]
      BY <2>1, <3>1 DEF WaveInv, PausedInv
    <3>3. s.at[cur] \in Places
      BY <1>1 DEF Fields
    <3> QED  BY <1>8, <1>14, <1>15, <3>2, <3>3 DEF NeedsStepOver, AtBreakpoint, Places,
                                                   Breakpoints
  <2>8. Ready(r, x)
    BY <1>14, <2>2, <2>3, <2>7 DEF Ready, InChain
  <2> QED  BY <2>5, <2>6, <2>8 DEF WaveInv
<1>19. r.over[cur] <=> NeedsStepOver(r, cur)
  BY <1>8, <1>14, <1>15 DEF NeedsStepOver, AtBreakpoint
<1>20. Inv(r, ws)
  BY <1>16, <1>17, <1>18 DEF Inv, Base
<1> QED  BY <1>12, <1>18, <1>19, <1>20

\* A thread for which proceed has nothing more to do, or that it may resume.
Settled(s, w) ==
  s.resumed[w] \/ InChain(s, w) \/ (Ready(s, w) /\ ~NeedsStepOver(s, w))

\* A thread on which the states agree stays settled.
LEMMA AgreeSettled ==
  ASSUME NEW s, NEW r, NEW x, Agree(s, r, x)
  PROVE  /\ Ready(s, x) => Ready(r, x)
         /\ NeedsStepOver(r, x) <=> NeedsStepOver(s, x)
         /\ Settled(s, x) => Settled(r, x)
<1>1. NeedsStepOver(r, x) <=> NeedsStepOver(s, x)
  BY DEF Agree, Calm, NeedsStepOver, AtBreakpoint
<1>2. Ready(s, x) => Ready(r, x)
  BY <1>1 DEF Agree, Calm, Ready
<1> QED  BY <1>1, <1>2 DEF Settled, Agree, Calm

\* A thread that may run free needs no excuse.
LEMMA SettledInv ==
  ASSUME NEW s, NEW E, NEW w \in Waves, Inv(s, E), Ready(s, w), ~NeedsStepOver(s, w)
  PROVE  Inv(s, E \ {w})
<1>1. ASSUME NEW x \in Waves PROVE WaveInv(s, x, E \ {w})
  <2>1. WaveInv(s, x, E)
    BY DEF Inv, Base
  <2>2. PausedInv(s, x, E \ {w})
    <3>1. CASE x = w
      BY <2>1, <3>1 DEF WaveInv, PausedInv, Ready
    <3>2. CASE x # w
      BY <2>1, <3>2 DEF WaveInv, PausedInv
    <3> QED  BY <3>1, <3>2
  <2> QED  BY <2>1, <2>2 DEF WaveInv
<1> QED  BY <1>1 DEF Inv, Base

\* One thread of those that proceed queues.
LEMMA QueueThreadInv ==
  ASSUME NEW s, NEW E, E \subseteq Waves, Inv(s, E), NEW w \in E, Ready(s, w), NEW ws, w \in ws
  PROVE  LET r == QueueThread(s, ws, w)
         IN Inv(r, E \ {w}) /\ Alone(s, r, w) /\ Settled(r, w)
<1> DEFINE r == QueueThread(s, ws, w)
<1>1. w \in Waves
  OBVIOUS
<1>2. CASE NeedsStepOver(s, w)
  <2>1. r = Enqueue(s, w)
    BY <1>2 DEF QueueThread
  <2> HIDE DEF r
  <2>2. Inv(r, E \ {w}) /\ Alone(s, r, w) /\ InChain(r, w)
    BY <1>2, <2>1, EnqueueInv
  <2> QED  BY <2>2 DEF Settled, r
<1>3. CASE ~NeedsStepOver(s, w)
  <2>1. r = Checked(s, w)
    BY <1>3 DEF QueueThread
  <2> HIDE DEF r
  <2>2. /\ Inv(r, E) /\ Alone(s, r, w) /\ Keeps(s, r, {"over"})
        /\ NeedsStepOver(r, w) = NeedsStepOver(s, w)
    BY <1>1, <2>1, CheckedInv DEF Ready
  <2>3. /\ r.at = s.at /\ r.state = s.state /\ r.resumed = s.resumed
        /\ r.executing = s.executing /\ r.chain = s.chain
        /\ r.stop_requested = s.stop_requested /\ r.trap_expected = s.trap_expected
    BY <2>2 DEF Keeps, Names
  <2>4. Ready(r, w) /\ ~NeedsStepOver(r, w)
    BY <1>3, <2>2, <2>3 DEF Ready, InChain
  <2>5. Inv(r, E \ {w})
    BY <2>2, <2>4, SettledInv
  <2> QED  BY <2>2, <2>4, <2>5 DEF Settled, r
<1> QED  BY <1>2, <1>3

\* The loop of proceed that queues threads, and the current thread after it.
LEMMA QueueStepOversInv ==
  ASSUME NEW s, NEW ws, ws \subseteq Waves, NEW cur \in ws, Inv(s, ws),
         \A w \in ws : Ready(s, w), s.over[cur] <=> NeedsStepOver(s, cur)
  PROVE  LET r == QueueStepOvers(s, cur, ws)
         IN Inv(r, {}) /\ \A w \in ws : Settled(r, w)
<1> DEFINE Left(i) == {x \in ws : x = cur \/ x > i}
           Good(a, i, x) == IF x \in Left(i) THEN Agree(s, a, x) ELSE Settled(a, x)
           X == [i \in 0..N |-> {a \in Fields : /\ Inv(a, Left(i))
                                                /\ \A x \in ws : Good(a, i, x)}]
           o == QueueOthers(s, ws \ {cur})
<1>1. s \in X[0]
  <2>1. Left(0) = ws /\ 0 \in 0..N
    <3>1. \A x \in Waves : x > 0
      BY WaveFacts
    <3>2. 0 \in 0..N
      BY WaveFacts
    <3> QED  BY <3>1, <3>2
  <2>2. \A x \in ws : Good(s, 0, x)
    BY <2>1 DEF Agree, Calm
  <2>3. s \in Fields
    BY DEF Inv, Base, Sound
  <2> HIDE DEF Left, Good
  <2> QED  BY <2>1, <2>2, <2>3
<1>2. ASSUME NEW w \in Waves, NEW a \in X[w - 1]
      PROVE  QueueThread(a, ws \ {cur}, w) \in X[w]
  <2> DEFINE q == QueueThread(a, ws \ {cur}, w)
  <2>1. w \in 0..N /\ w - 1 \in 0..N /\ w \in Nat
    BY WaveFacts
  <2>2. Inv(a, Left(w - 1)) /\ \A x \in ws : Good(a, w - 1, x)
    BY <2>1
  <2>3. CASE w \notin ws \ {cur}
    <3>1. q = a
      BY <2>3 DEF QueueThread
    <3>2. Left(w) = Left(w - 1)
      <4>1. ASSUME NEW x \in ws PROVE x \in Left(w) <=> x \in Left(w - 1)
        BY <2>1, <2>3, WaveFacts
      <4> QED  BY <4>1
    <3> HIDE DEF q, Left
    <3> QED  BY <2>1, <2>2, <3>1, <3>2 DEF q, Inv, Base, Sound
  <2>4. CASE w \in ws \ {cur}
    <3>1. w \in Left(w - 1) /\ Left(w) = Left(w - 1) \ {w}
      <4>1. ASSUME NEW x \in ws PROVE x \in Left(w) <=> x \in Left(w - 1) /\ x # w
        BY <2>1, <2>4, WaveFacts
      <4>2. w > w - 1
        BY <2>1
      <4> QED  BY <2>4, <4>1, <4>2
    <3>2. Left(w - 1) \subseteq Waves
      OBVIOUS
    <3> HIDE DEF Left
    <3>3. Ready(a, w)
      <4>1. Agree(s, a, w) /\ Ready(s, w)
        BY <2>2, <2>4, <3>1
      <4> QED  BY <4>1, AgreeSettled
    <3>4. Inv(q, Left(w)) /\ Alone(a, q, w) /\ Settled(q, w)
      BY <2>2, <2>4, <3>1, <3>2, <3>3, QueueThreadInv
    <3> HIDE DEF q
    <3>5. ASSUME NEW x \in ws PROVE Good(q, w, x)
      <4>1. CASE x = w
        BY <3>1, <3>4, <4>1
      <4>2. CASE x # w
        <5>1. Agree(a, q, x) /\ Good(a, w - 1, x) /\ (x \in Left(w) <=> x \in Left(w - 1))
          BY <2>2, <3>1, <3>4, <4>2 DEF Alone
        <5>2. x \notin Left(w) => Settled(q, x)
          BY <5>1, AgreeSettled
        <5> QED  BY <5>1, <5>2 DEF Agree, Calm
      <4> QED  BY <4>1, <4>2
    <3>6. q \in Fields
      BY <3>4 DEF Inv, Base, Sound
    <3> QED  BY <2>1, <3>4, <3>5, <3>6 DEF q
  <2> QED  BY <2>3, <2>4
<1> HIDE DEF X
<1>3. o \in X[N]
  BY <1>1, <1>2, QueueLoop
<1> HIDE DEF o
<1>4. /\ Inv(o, {cur}) /\ Agree(s, o, cur)
      /\ \A x \in ws \ {cur} : Settled(o, x)
  <2>1. Left(N) = {cur}
    <3>1. \A x \in Waves : ~(x > N)
      BY WaveFacts
    <3> QED  BY <3>1
  <2>2. N \in 0..N
    BY WaveFacts
  <2> HIDE DEF Left
  <2> QED  BY <1>3, <2>1, <2>2 DEF X
<1>5. Ready(o, cur) /\ (NeedsStepOver(o, cur) <=> s.over[cur])
  BY <1>4, AgreeSettled
<1>6. {cur} \ {cur} = {}
  OBVIOUS
<1>7. CASE s.over[cur]
  <2> DEFINE r == Enqueue(o, cur)
  <2>1. QueueStepOvers(s, cur, ws) = r
    BY <1>7 DEF QueueStepOvers, o
  <2>2. Inv(r, {cur} \ {cur}) /\ Alone(o, r, cur) /\ InChain(r, cur)
    BY <1>4, <1>5, <1>7, EnqueueInv
  <2> HIDE DEF r
  <2>3. ASSUME NEW x \in ws PROVE Settled(r, x)
    <3>1. CASE x = cur
      BY <2>2, <3>1 DEF Settled
    <3>2. CASE x # cur
      <4>1. Agree(o, r, x) /\ Settled(o, x)
        BY <1>4, <2>2, <3>2 DEF Alone
      <4> QED  BY <4>1, AgreeSettled
    <3> QED  BY <3>1, <3>2
  <2> QED  BY <1>6, <2>1, <2>2, <2>3
<1>8. CASE ~s.over[cur]
  <2>1. QueueStepOvers(s, cur, ws) = o
    BY <1>8 DEF QueueStepOvers, o
  <2>2. Inv(o, {cur} \ {cur})
    BY <1>4, <1>5, <1>8, SettledInv
  <2> QED  BY <1>4, <1>5, <1>6, <1>8, <2>1, <2>2 DEF Settled
<1> QED  BY <1>7, <1>8

\* The loop of proceed that resumes threads starts no step-over.
LEMMA ResumeAllInv ==
  ASSUME NEW s, NEW ws, ws \subseteq Waves, Inv(s, {}), s.info = None,
         \A w \in ws : Settled(s, w), NEW out \in Reliable
  PROVE  Inv(ResumeAll(s, ws, out), {})
<1> DEFINE Good(a) == Inv(a, {}) /\ a.info = None
           Next1(a, i) == \A x \in ws : x > i => Settled(a, x)
           X == [i \in 0..N |-> {a \in Fields : Good(a) /\ Next1(a, i)}]
<1>1. \A a : Good(a) => a \in Fields
  BY DEF Inv, Base, Sound
<1>2. s \in X[0]
  <2>1. 0 \in 0..N
    BY WaveFacts
  <2>2. Good(s) /\ Next1(s, 0)
    OBVIOUS
  <2> HIDE DEF Good, Next1
  <2> QED  BY <1>1, <2>1, <2>2
<1>3. ASSUME NEW w \in Waves, NEW a \in X[w - 1] PROVE ResumeChecked(a, ws, w, out) \in X[w]
  <2> DEFINE r == ResumeChecked(a, ws, w, out)
  <2>1. w \in 0..N /\ w - 1 \in 0..N /\ \A x \in ws : x > w => x > w - 1 /\ x # w
    BY WaveFacts
  <2>2. Good(a) /\ Next1(a, w - 1)
    BY <2>1
  <2>3. Good(r) /\ Next1(r, w)
    <3>1. CASE w \notin ws \/ a.resumed[w] \/ InChain(a, w)
      <4>1. r = a
        <5>1. a \in Fields /\ ResumedInv(a, w)
          BY <2>2 DEF Inv, Base, Sound, WaveInv
        <5>2. a.resumed[w] => gdb_assert(a, ResumedForAReason(a, w)) = a
          BY <5>1, AssertHolds DEF ResumedInv, ResumedForAReason
        <5> QED  BY <3>1, <5>2 DEF ResumeChecked
      <4> HIDE DEF r
      <4> QED  BY <2>1, <2>2, <4>1
    <3>2. CASE ~(w \notin ws \/ a.resumed[w] \/ InChain(a, w))
      <4> DEFINE k == KeepGoingPassSignal(a, w, out)
      <4>1. Ready(a, w) /\ ~NeedsStepOver(a, w)
        <5>1. w > w - 1
          BY <2>1
        <5> QED  BY <2>2, <3>2, <5>1 DEF Settled
      <4>2. Inv(a, {w}) /\ {w} \ {w} = {}
        BY <2>2, MoreExcused
      <4>3. Inv(k, {w} \ {w}) /\ Alone(a, k, w)
        BY <4>1, <4>2, KeepGoingInv
      <4>4. Inv(r, {w} \ {w}) /\ Alone(a, r, w)
        <5>1. a \in Fields /\ k \in Fields
          BY <2>2, <4>3 DEF Inv, Base, Sound
        <5>2. ~Threw(a) /\ CommandAborted(k) = k
          BY <5>1, NothingFailed
        <5>3. r = k
          BY <3>2, <5>2 DEF ResumeChecked
        <5> HIDE DEF r, k
        <5> QED  BY <4>3, <5>3
      <4> HIDE DEF r
      <4>5. Good(r)
        BY <2>2, <4>2, <4>4 DEF Alone
      <4>6. ASSUME NEW x \in ws, x > w PROVE Settled(r, x)
        <5>1. Agree(a, r, x) /\ Settled(a, x)
          BY <2>1, <2>2, <4>4, <4>6 DEF Alone
        <5> QED  BY <5>1, AgreeSettled
      <4> QED  BY <4>5, <4>6
    <3> QED  BY <3>1, <3>2
  <2> HIDE DEF Good, Next1, r
  <2>4. r \in X[w]
    BY <1>1, <2>1, <2>3
  <2> QED  BY <2>4 DEF r
<1> HIDE DEF X
<1>4. ResumeAll(s, ws, out) \in X[N]
  BY <1>2, <1>3, ResumeLoop
<1>5. N \in 0..N
  BY WaveFacts
<1> HIDE DEF Next1
<1> QED  BY <1>4, <1>5 DEF X

\* proceed: it fails, or steps in line, or resumes every thread that is not queued.
LEMMA ProceedInv ==
  ASSUME ~InsertFails, NEW cur \in Waves, Inv(t, {}), Proceed(cur)
  PROVE  Inv(t', {})
<1> DEFINE ws == IF non_stop THEN {cur} ELSE {w \in Waves : t.state[w] # "THREAD_EXITED"}
           gone == Gone(t, ws)
           a == Proceeding(t, cur, ws)
           q == QueueStepOvers(a, cur, ws)
           Resumed(n, out) == IF n.info # None THEN n ELSE ResumeAll(n, ws, out)
           Result(n, r, cached) ==
             t' = IF \/ \E w \in gone : t.over[w]
                     \/ ~Threw(n) /\ n.info = None /\ gone \ {cached} # {}
                  THEN [t EXCEPT !.error = TRUE]
                  ELSE IF Threw(r) THEN FinishThreadState(r, ws) ELSE r
<1>1. /\ t.state[cur] = "THREAD_STOPPED" /\ t.at[cur] # "gone"
      /\ ~non_stop => \A w \in Waves : t.state[w] # "THREAD_RUNNING"
  BY DEF Proceed
<1>2. PICK out \in Reliable, cached \in gone \cup {None} :
        Result(StartStepOver(q, out), Resumed(StartStepOver(q, out), out), cached)
  <2>1. \E p \in {QueueStepOvers(v, cur, ws) : v \in {a}},
           out \in Reliable, cached \in gone \cup {None} :
          \E n \in {StartStepOver(p, out)} :
            \E r \in {Resumed(n, out)} : Result(n, r, cached)
    BY ReliableChances, ZenonT(60) DEF Proceed, Proceeding
  <2> HIDE DEF Result, Resumed, ws, gone, a
  <2> QED  BY <2>1
<1> DEFINE n == StartStepOver(q, out)
<1>3. /\ ws \subseteq Waves /\ cur \in ws /\ (non_stop => ws = {cur})
      /\ \A w \in ws : t.state[w] = "THREAD_STOPPED"
  <2>1. t.state \in [Waves -> States]
    BY DEF Inv, Base, Sound, Fields
  <2> QED  BY <1>1, <2>1 DEF States
<1> HIDE DEF ws, gone
<1>4. /\ Inv(a, ws) /\ \A w \in ws : Ready(a, w)
      /\ a.over[cur] <=> NeedsStepOver(a, cur)
  BY <1>1, <1>3, ProceedingInv
<1> HIDE DEF a
<1>5. Inv(q, {}) /\ \A w \in ws : Settled(q, w)
  BY <1>3, <1>4, QueueStepOversInv
<1> HIDE DEF q
<1>6. /\ Inv(n, {})
      /\ \A x \in Waves \ ToSet(q.chain) : Untouched(q, n, x)
      /\ n.info = None => \A x \in ToSet(q.chain) : n.resumed[x] \/ InChain(n, x)
  BY <1>5, StartStepOverInv
<1> HIDE DEF n
<1>7. ASSUME n.info = None PROVE Inv(ResumeAll(n, ws, out), {})
  <2>1. ASSUME NEW w \in ws PROVE Settled(n, w)
    <3>1. CASE w \in ToSet(q.chain)
      BY <1>6, <1>7, <3>1 DEF Settled
    <3>2. CASE w \notin ToSet(q.chain)
      <4>1. Agree(q, n, w) /\ Settled(q, w)
        BY <1>3, <1>5, <1>6, <1>7, <3>2 DEF Untouched
      <4> QED  BY <4>1, AgreeSettled
    <3> QED  BY <3>1, <3>2
  <2> QED  BY <1>3, <1>6, <1>7, <2>1, ResumeAllInv
<1>8. Inv([t EXCEPT !.error = TRUE], {})
  <2> DEFINE r == [t EXCEPT !.error = TRUE]
  <2>1. t \in Fields
    BY DEF Inv, Base, Sound
  <2>2. r \in Fields /\ Keeps(t, r, {"error"})
    BY <2>1 DEF Fields, Keeps, Names
  <2> HIDE DEF r
  <2>3. ASSUME NEW x \in Waves PROVE Agree(t, r, x)
    BY <2>2 DEF Keeps, Names, Agree, Calm, InChain
  <2>4. /\ r.info = t.info /\ r.aborted = t.aborted /\ r.chain = t.chain
        /\ r.buffers = t.buffers
    BY <2>2 DEF Keeps, Names
  <2>5. ASSUME NEW x \in Waves PROVE WaveInv(r, x, {}) /\ InLine(r, x)
    <3>1. WaveInv(t, x, {}) /\ InLine(t, x)
      BY DEF Inv, Base
    <3>2. WaveInv(r, x, {})
      BY <2>3, <2>4, <3>1, AgreeInv
    <3> QED  BY <2>3, <2>4, <3>1, <3>2 DEF InLine, Agree, Calm
  <2>6. Sound(r)
    BY <2>2, <2>4 DEF Inv, Base, Sound
  <2> QED  BY <2>5, <2>6 DEF Inv, Base, r
<1>9. Inv(Resumed(n, out), {})
  BY <1>6, <1>7
<1> HIDE DEF Resumed
<1>10. ~Threw(Resumed(n, out))
  <2>1. Resumed(n, out) \in Fields
    BY <1>9 DEF Inv, Base, Sound
  <2> QED  BY <2>1, NothingFailed
<1> QED  BY <1>2, <1>8, <1>9, <1>10 DEF n

-----------------------------------------------------------------------------
(* The theorems.                                                           *)

\* Between two commands or events every thread is settled.
IInv == non_stop \in BOOLEAN /\ use_displaced \in BOOLEAN /\ Inv(t, {})

\* The waves of a kernel that was just launched all run free.
LEMMA InitInv == Init => IInv
<1> SUFFICES ASSUME Init PROVE IInv
  OBVIOUS
<1>1. /\ t.at = Everywhere("none") /\ t.event = Everywhere("none") /\ t.buffers = {}
      /\ t.state = Everywhere("THREAD_RUNNING") /\ t.resumed = Everywhere(TRUE)
      /\ t.executing = Everywhere(TRUE) /\ t.pending = Everywhere("none")
      /\ t.stop_requested = Everywhere(FALSE) /\ t.trap_expected = Everywhere(FALSE)
      /\ t.over = Everywhere(FALSE) /\ t.displaced = {} /\ t.map = {}
      /\ t.chain = <<>> /\ t.info = None /\ t.aborted = FALSE
  BY DEF Init
<1>2. t \in Fields
  <2>1. /\ Everywhere("none") \in [Waves -> Places \cup {"gone"}]
        /\ Everywhere("none") \in [Waves -> Events]
        /\ Everywhere("THREAD_RUNNING") \in [Waves -> States]
        /\ Everywhere(TRUE) \in [Waves -> BOOLEAN] /\ Everywhere(FALSE) \in [Waves -> BOOLEAN]
        /\ <<>> \in Seq(Waves)
    BY DEF Everywhere, Places, Events, States
  <2> HIDE DEF Everywhere
  <2> QED  BY <2>1 DEF Init, Fields
<1>3. Sound(t)
  BY <1>1, <1>2, EmptyFacts, FS_EmptySet, WaveFacts DEF Sound
<1>4. ASSUME NEW x \in Waves PROVE WaveInv(t, x, {}) /\ InLine(t, x)
  <2>1. ~InChain(t, x)
    BY <1>1, EmptyFacts DEF InChain
  <2>2. /\ t.at[x] = "none" /\ t.event[x] = "none" /\ t.state[x] = "THREAD_RUNNING"
        /\ t.resumed[x] = TRUE /\ t.executing[x] = TRUE /\ t.pending[x] = "none"
        /\ t.trap_expected[x] = FALSE /\ t.over[x] = FALSE
    BY <1>1 DEF Everywhere
  <2>3. ResumedInv(t, x) /\ DisplacedInv(t, x)
    BY <1>1, <2>2 DEF ResumedInv, DisplacedInv
  <2> QED  BY <1>1, <2>1, <2>2, <2>3 DEF WaveInv, QueuedInv, PausedInv, Paused, InLine
<1> QED  BY <1>3, <1>4 DEF IInv, Inv, Base, Init

\* The invariant speaks of the mode, which no step changes.
LEMMA SameMode ==
  ASSUME Inv(t', {}), non_stop' = non_stop
  PROVE  Inv(t, {})'
BY DEF Inv, Base, Sound, WaveInv, ResumedInv, DisplacedInv, QueuedInv, PausedInv, Paused, InLine,
       InChain, NeedsStepOver, AtBreakpoint, Fields

\* One step per action.
LEMMA NextInv ==
  ASSUME ~InsertFails
  PROVE  IInv /\ [Next]_vars => IInv'
<1> SUFFICES ASSUME IInv, [Next]_vars PROVE IInv'
  OBVIOUS
<1>1. Inv(t, {}) /\ non_stop \in BOOLEAN /\ use_displaced \in BOOLEAN
  BY DEF IInv
<1>2. ASSUME Inv(t', {}), UNCHANGED <<non_stop, use_displaced>> PROVE IInv'
  BY <1>1, <1>2, SameMode DEF IInv
<1>3. ASSUME NEW w \in Waves, HandlePending(w) PROVE IInv'
  <2>1. PICK out \in Reliable : HandleInferiorEvent(w, t.pending[w], out)
    BY <1>3, ReliableChances DEF HandlePending
  <2>2. Has(t, w, t.pending[w])
    BY <1>1, <1>3 DEF HandlePending, Has, Inv, Base, Sound, Fields
  <2>3. Inv(t', {})
    BY <1>1, <2>1, <2>2, EventInv
  <2> QED  BY <1>2, <1>3, <2>3 DEF HandlePending
<1>4. ASSUME NEW w \in Waves, HandleEvent(w) PROVE IInv'
  <2>1. PICK out \in Reliable : HandleInferiorEvent(w, t.event[w], out)
    BY <1>4, ReliableChances DEF HandleEvent
  <2>2. Has(t, w, t.event[w])
    <3>1. t.executing[w] /\ t.event[w] # "none" /\ t.event[w] \in Events
      BY <1>1, <1>4 DEF HandleEvent, Inv, Base, Sound, Fields
    <3>2. t.resumed[w]
      BY <1>1, <3>1 DEF Inv, Base, WaveInv, ResumedInv
    <3> QED  BY <3>1, <3>2 DEF Has
  <2>3. Inv(t', {})
    BY <1>1, <2>1, <2>2, EventInv
  <2> QED  BY <1>2, <1>4, <2>3 DEF HandleEvent
<1>5. ASSUME NEW w \in Waves, NEW o \in Outcomes, WaveReports(w, o) PROVE IInv'
  <2>1. Inv(t', {})
    BY <1>1, <1>5, WaveReportsInv
  <2> QED  BY <1>2, <1>5, <2>1 DEF WaveReports
<1>6. ASSUME NEW w \in Waves, WaveEnds(w) PROVE IInv'
  <2>1. Inv(t', {})
    BY <1>1, <1>6, WaveEndsInv
  <2> QED  BY <1>2, <1>6, <2>1 DEF WaveEnds
<1>7. ASSUME NEW w \in Waves, Proceed(w) PROVE IInv'
  <2>1. Inv(t', {})
    BY <1>1, <1>7, ProceedInv
  <2>2. UNCHANGED <<non_stop, use_displaced>>
    BY <1>7, Zenon DEF Proceed
  <2> QED  BY <1>2, <2>1, <2>2
<1>8. ASSUME NEW w \in Waves, Interrupt(w) PROVE IInv'
  <2>1. Inv(t', {})
    BY <1>1, <1>8, InterruptInv
  <2> QED  BY <1>2, <1>8, <2>1 DEF Interrupt
<1>9. ASSUME HostEvent PROVE IInv'
  <2>1. Inv(t', {})
    BY <1>1, <1>9, HostEventInv
  <2> QED  BY <1>2, <1>9, <2>1 DEF HostEvent
<1>10. CASE SetDisplacedStepping
  <2>1. t' = t /\ non_stop' = non_stop /\ use_displaced' \in BOOLEAN
    BY <1>1, <1>10 DEF SetDisplacedStepping
  <2>2. Inv(t, {})'
    BY <1>1, <2>1, SameMode
  <2> QED  BY <1>1, <2>1, <2>2 DEF IInv
<1>11. CASE UNCHANGED vars
  BY <1>1, <1>2, <1>11 DEF vars
<1> QED  BY <1>3, <1>4, <1>5, <1>6, <1>7, <1>8, <1>9, <1>10, <1>11 DEF Next

\* If insert_breakpoints never fails, as all theorems below assume, then
\* whatever infrun handles, an event or a command, it leaves every thread as
\* the next handler expects it: what executes was resumed and, with a breakpoint
\* under it, steps over it; what steps out of line has its buffer; what is
\* queued or paused may be resumed by start_step_over or restart_threads.
THEOREM StepOverInvariant ==
  ASSUME ~InsertFails
  PROVE  Spec => []IInv
BY InitInv, NextInv, PTL DEF Spec

\* If insert_breakpoints never fails, the thread_info fields, the queue,
\* step_over_info and stepping_id_map keep
\* their types, and displaced_step_prepare never takes a buffer beyond the ones
\* the library has.
THEOREM TypeCorrect ==
  ASSUME ~InsertFails
  PROVE  Spec => []TypeOK
<1>1. IInv => TypeOK
  <2> SUFFICES ASSUME IInv PROVE TypeOK
    OBVIOUS
  <2>1. t \in Fields /\ Cardinality(t.buffers) <= Buffers
    BY DEF IInv, Inv, Base, Sound
  <2> QED  BY <2>1 DEF IInv, Fields, States, TypeOK
<1> QED  BY <1>1, StepOverInvariant, PTL

\* If insert_breakpoints never fails, the three records of a displaced step agree: displaced_step_state of infrun,
\* stepping_id_map of the target and the buffers of the library, however the
\* step ends (finished, cancelled by stop_all_threads, or by the exit of its wave).
THEOREM DisplacedStepsAreOwned ==
  ASSUME ~InsertFails
  PROVE  Spec => []DisplacedOwned
<1>1. IInv => DisplacedOwned
  <2> SUFFICES ASSUME IInv PROVE DisplacedOwned
    OBVIOUS
  <2>1. t.displaced \subseteq Waves /\ t.map \subseteq Waves /\ t.buffers \subseteq Waves
    BY DEF IInv, Inv, Base, Sound, Fields
  <2>2. \A x \in Waves : DisplacedInv(t, x)
    BY DEF IInv, Inv, Base, WaveInv
  <2> QED  BY <2>1, <2>2 DEF DisplacedInv, DisplacedOwned
<1> QED  BY <1>1, StepOverInvariant, PTL

\* If insert_breakpoints never fails, what global_thread_step_over_list holds meets the assertions with which
\* start_step_over takes a thread from it.
THEOREM QueueIsQuiet ==
  ASSUME ~InsertFails
  PROVE  Spec => []QueueQuiet
<1>1. IInv => QueueQuiet
  <2> SUFFICES ASSUME IInv PROVE QueueQuiet
    OBVIOUS
  <2>1. t.chain \in Seq(Waves) /\ IsInjective(t.chain)
    BY DEF IInv, Inv, Base, Sound, Fields
  <2>2. ToSet(t.chain) \subseteq Waves
    BY <2>1, RangeFacts
  <2>3. \A x \in Waves : QueuedInv(t, x)
    BY DEF IInv, Inv, Base, WaveInv
  <2> QED  BY <2>1, <2>2, <2>3 DEF QueuedInv, InChain, QueueQuiet
<1> QED  BY <1>1, StepOverInvariant, PTL

\* If insert_breakpoints never fails: while step_over_info has a breakpoint
\* removed, no other thread executes: not
\* one that restart_threads, proceed or a command resumes meanwhile either.
THEOREM InLineStepsAreAlone ==
  ASSUME ~InsertFails
  PROVE  Spec => []InLineAlone
<1>1. IInv => InLineAlone
  <2> SUFFICES ASSUME IInv, t.info # None, NEW w \in Waves \ {t.info}
               PROVE  ~t.executing[w]
    BY DEF InLineAlone
  <2>1. ResumedInv(t, w) /\ InLine(t, w)
    BY DEF IInv, Inv, Base, WaveInv
  <2> QED  BY <2>1 DEF ResumedInv, InLine
<1> QED  BY <1>1, StepOverInvariant, PTL

\* If insert_breakpoints never fails, what restart_threads relies on: a thread that still needs a step-over when it
\* is neither resumed nor has anything to report is in the queue.
THEOREM NeedyThreadsAreQueued ==
  ASSUME ~InsertFails
  PROVE  Spec => []NeedyAreQueued
<1>1. IInv => NeedyAreQueued
  <2> SUFFICES ASSUME IInv, NEW w \in Waves, t.state[w] = "THREAD_RUNNING", ~t.resumed[w],
                      t.pending[w] = "none", NeedsStepOver(t, w)
               PROVE  InChain(t, w)
    BY DEF NeedyAreQueued
  <2>1. PausedInv(t, w, {})
    BY DEF IInv, Inv, Base, WaveInv
  <2> QED  BY <2>1 DEF PausedInv, Paused
<1> QED  BY <1>1, StepOverInvariant, PTL

\* If insert_breakpoints never fails, no assertion of start_step_over,
\* finish_step_over, restart_threads, resume_1, keep_going_pass_signal, proceed,
\* set_pending_waitstatus, the queue or displaced_step_prepare and _finish of the
\* target fails.
THEOREM NoAssertionEverFails ==
  ASSUME ~InsertFails
  PROVE  Spec => []NoAssertionFails
<1>1. IInv => NoAssertionFails
  BY DEF IInv, Inv, Base, Sound, NoAssertionFails
<1> QED  BY <1>1, StepOverInvariant, PTL

\* If insert_breakpoints never fails: in non-stop, proceed, keep_going and
\* restart_threads let no wave run free
\* from a breakpoint that it has reported.
THEOREM NoSecondHits ==
  ASSUME ~InsertFails
  PROVE  Spec => []NoSecondHit
<1>1. IInv => NoSecondHit
  <2> SUFFICES ASSUME IInv, non_stop, NEW w \in Waves, t.executing[w],
                      ~t.trap_expected[w], t.event[w] = "none"
               PROVE  t.at[w] = "none"
    BY DEF NoSecondHit
  <2>1. ResumedInv(t, w)
    BY DEF IInv, Inv, Base, WaveInv
  <2> QED  BY <2>1 DEF ResumedInv
<1> QED  BY <1>1, StepOverInvariant, PTL

=============================================================================
