----------------------------- MODULE MCStepOver -----------------------------
(* Two waves, one displaced stepping buffer. *)
EXTENDS StepOver
=============================================================================
