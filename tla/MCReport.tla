------------------------------ MODULE MCReport ------------------------------
(* TLC's instance of Report.tla: loads below the threshold, at it, and one *)
(* that rounding takes to it; failure rates of 30%, just below and just    *)
(* above it, one that rounding takes to 30%, events that count as neither, *)
(* and logs without events.                                                *)
EXTENDS Report

Count(ok, unknown, internal, failed) ==
  [k \in Kinds |-> CASE k = "tls_request" -> ok
                     [] k = "route_not_found" -> unknown
                     [] k = "internal_error" -> internal
                     [] k = "tls_handshake_failed" -> failed]
SomeLogs == {Count(0, 0, 0, 0), Count(7, 0, 0, 3), Count(5, 1, 1, 3), Count(5, 0, 2, 3),
             Count(5, 2, 0, 2), Count(7001, 0, 0, 2999), Count(6999, 0, 0, 3001),
             Count(1405, 0, 0, 602), Count(0, 1, 1, 0)}
AroundThreshold == {799994, 799996, 800000}
=============================================================================
