--------------------------- MODULE MCConfigGate ---------------------------
(* TLC's instance of ConfigGate.tla, which has no constants.               *)
EXTENDS ConfigGate
=============================================================================
