------------------------- MODULE MCRequestPipeline -------------------------
(* RequestPipeline has no constants: its own sets are small.               *)
EXTENDS RequestPipeline
=============================================================================
