------------------------------- MODULE EventLog -------------------------------
(***************************************************************************)
(* What TlsServer.tla takes an append to be: an event enters the log as a  *)
(* whole, at its end, or it is dropped and never enters it; no event does  *)
(* both, and none enters twice.  JsonLogger.tla implements it              *)
(* (app/include/JsonLogger.hpp, app/src/TlsServer.cpp lines 165-169 and    *)
(* 602-606).                                                               *)
(***************************************************************************)
EXTENDS Sequences

CONSTANT Events

VARIABLES log, dropped
vars == <<log, dropped>>

Entered == {log[i] : i \in DOMAIN log}

Init == log = <<>> /\ dropped = {}

Enter(e) == e \notin Entered \cup dropped /\ log' = Append(log, e) /\ UNCHANGED dropped

Drop(e) == e \notin Entered \cup dropped /\ dropped' = dropped \cup {e} /\ UNCHANGED log

Next == \E e \in Events : Enter(e) \/ Drop(e)

Spec == Init /\ [][Next]_vars

=============================================================================
