----------------------- MODULE MCAmdDbgapiTarget -----------------------
(* Small instances of AmdDbgapiTarget for TLC. *)
EXTENDS AmdDbgapiTarget

CONSTANTS w1, w2
=============================================================================
