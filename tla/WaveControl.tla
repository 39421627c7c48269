---------------------------- MODULE WaveControl ----------------------------
(***************************************************************************)
(* What the run-control of GPU waves promises to the rest of GDB, without  *)
(* the library, the queues or stop_all_threads: a wave runs, may be asked  *)
(* to stop, stops or exits, and an accepted request is always answered.    *)
(***************************************************************************)
CONSTANT Waves

VARIABLE status   \* status[w]: what infrun may rely on about wave w

Init == status = [w \in Waves |-> "none"]

\* The GPU starts a wave.
Start(w) ==
  /\ status[w] = "none"
  /\ status' = [status EXCEPT ![w] = "running"]

\* The user or stop_all_threads asks a running wave to stop.
Ask(w) ==
  /\ status[w] = "running"
  /\ status' = [status EXCEPT ![w] = "asked"]

\* A stop is reported, asked for or not.
Stop(w) ==
  /\ status[w] \in {"running", "asked"}
  /\ status' = [status EXCEPT ![w] = "stopped"]

\* A stopped wave, and no other, is resumed.
Resume(w) ==
  /\ status[w] = "stopped"
  /\ status' = [status EXCEPT ![w] = "running"]

\* The exits of some waves that were not stopped become known.  Exits are
\* final: nothing brings a wave back.
Exit(S) ==
  /\ S # {}
  /\ \A w \in S : status[w] \in {"running", "asked"}
  /\ status' = [w \in Waves |-> IF w \in S THEN "exited" ELSE status[w]]

Answer(w) == status[w] = "asked" /\ (Stop(w) \/ Exit({w}))

Next ==
  \/ \E w \in Waves : Start(w) \/ Ask(w) \/ Stop(w) \/ Resume(w)
  \/ \E S \in SUBSET Waves : Exit(S)

\* What may happen; an implementation is proved to do nothing else.
Safety == Init /\ [][Next]_status

Spec == Safety /\ \A w \in Waves : WF_status(Answer(w))

=============================================================================
