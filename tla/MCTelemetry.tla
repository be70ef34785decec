----------------------------- MODULE MCTelemetry -----------------------------
(* TLC's instance of Telemetry.tla: two runs, of one branch or of two.     *)
EXTENDS Telemetry, TLC

CONSTANTS r1, r2, main, dev
OneOrTwoBranches == {r1 :> main @@ r2 :> main, r1 :> main @@ r2 :> dev}
=============================================================================
