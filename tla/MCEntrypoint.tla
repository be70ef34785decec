--------------------------- MODULE MCEntrypoint ---------------------------
(* TLC's instance of Entrypoint.tla: the three profiles of the container.  *)
EXTENDS Entrypoint

CONSTANTS classic, hybrid, pqc

ThreeProfiles == <<classic, hybrid, pqc>>
=============================================================================
