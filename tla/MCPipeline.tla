----------------------------- MODULE MCPipeline -----------------------------
(* TLC's instance of Pipeline.tla.                                         *)
EXTENDS Pipeline
=============================================================================
