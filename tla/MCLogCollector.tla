-------------------------- MODULE MCLogCollector --------------------------
(* TLC's instance of LogCollector.tla: two groups.                         *)
EXTENDS LogCollector

CONSTANTS classic, pqc

TwoGroups == <<classic, pqc>>
=============================================================================
