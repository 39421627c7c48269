---------------------------- MODULE MCGpuTracer ----------------------------
(* Small instances of GpuTracer for TLC. *)
EXTENDS GpuTracer

CONSTANTS w1, w2, r1, v1, v2
=============================================================================
