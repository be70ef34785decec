------------------------------- MODULE Report -------------------------------
(***************************************************************************)
(* One run of the telemetry tools (tools/telemetry): the active TLS tests  *)
(* one after the other (tls_tests.py), what CloudWatch returns, and the    *)
(* report made of both (report.py, aggregator.py) with the findings that   *)
(* the thresholds yield (nist_findings.py).                                *)
(*                                                                         *)
(* What a test encounters is the state of the endpoint at that moment; the *)
(* code sees an exit status and an output. An event of the log is one of   *)
(* the kinds that TlsServer writes.                                        *)
(***************************************************************************)
EXTENDS Utils

CONSTANTS
  Load,      \* values of CPU and memory, in parts of a thousandth of a percent
  Missing,   \* no datapoint in the window
  Logs       \* BOUND: what the log groups may hold, as a count of each kind of event

Kinds == {"tls_request", "route_not_found", "internal_error", "tls_handshake_failed"}

ASSUME LoadAssumption == Load \subseteq Nat /\ Missing \notin Nat
ASSUME LogsAssumption == Logs \subseteq [Kinds -> Nat]

Test(profile, group, expected) == [profile |-> profile, group |-> group, expected |-> expected]

DEFAULT_ACTIVE_TESTS ==
  <<Test("classic", "X25519", TRUE), Test("classic", "MLKEM768", FALSE),
    Test("hybrid", "X25519MLKEM768", TRUE), Test("hybrid", "MLKEM768", FALSE),
    Test("pqc", "MLKEM768", TRUE), Test("pqc", "X25519", FALSE)>>

Tests == DOMAIN DEFAULT_ACTIVE_TESTS
Expected(i) == DEFAULT_ACTIVE_TESTS[i].expected

VARIABLES
  stage,       \* what the tools are doing
  encounters,  \* what the tests so far have met with
  results,     \* what they have made of it
  loads,       \* CPU and memory as CloudWatch has them
  metrics,     \* cloudwatch_metrics: CPU, memory, whether both network values exist
  log,         \* cloudwatch_logs: parsed events of each kind
  report,      \* build_final_report()
  findings     \* evaluate_findings()
vars == <<stage, encounters, results, loads, metrics, log, report, findings>>

(* An answer with a JSON body (of whatever status), a handshake the server *)
(* rejects, nobody who listens, silence.                                   *)
Encounters == {"answered", "rejected", "nobody", "silent"}

Unread == [cpu |-> Missing, memory |-> Missing, network |-> FALSE]

Init ==
  /\ stage = "tests" /\ encounters = <<>> /\ results = <<>>
  /\ loads = [cpu |-> Missing, memory |-> Missing] /\ metrics = Unread /\ log = [k \in Kinds |-> 0]
  /\ report = [made |-> FALSE] /\ findings = {}

-----------------------------------------------------------------------------
(* The active tests.                                                       *)

Testing == stage = "tests" /\ Len(results) < Len(DEFAULT_ACTIVE_TESTS)
Turn == Len(results) + 1

(* The client ends before the timeout.                                     *)
RunTest ==
  LET Observed(encounter) == encounter = "answered"
  IN  /\ Testing
      /\ \E encounter \in Encounters \ {"silent"} :
           /\ encounters' = Append(encounters, encounter)
           /\ results' = Append(results, [success |-> Observed(encounter),
                                          met |-> Observed(encounter) = Expected(Turn)])
      /\ UNCHANGED <<stage, loads, metrics, log, report, findings>>

(* Wrong: a timeout says nothing of the expectation.                       *)
TimeoutExcused ==
  /\ Testing
  /\ encounters' = Append(encounters, "silent")
  /\ results' = Append(results, [success |-> FALSE, met |-> TRUE])
  /\ UNCHANGED <<stage, loads, metrics, log, report, findings>>

(* TimeoutExpired: a failure observed.                                     *)
Timeout ==
  /\ Testing
  /\ encounters' = Append(encounters, "silent")
  /\ results' = Append(results, [success |-> FALSE, met |-> FALSE = Expected(Turn)])
  /\ UNCHANGED <<stage, loads, metrics, log, report, findings>>

(* What a killed client has written is bytes, even in text mode: adding it *)
(* to a string raises a TypeError, and the results so far are lost.        *)
TimeoutWithOutput ==
  /\ Testing /\ stage' = "aborted"
  /\ UNCHANGED <<encounters, results, loads, metrics, log, report, findings>>

(* expectation_mismatches of the summary.                                  *)
Mismatches == Cardinality({i \in DOMAIN results : ~results[i].met})

(* The value of a metric in the report.                                    *)
Told(load) == IF load = Missing THEN Missing ELSE RoundFloat(load, Precision)

(* The collector: metrics, then logs.                                      *)
CollectMetrics ==
  /\ stage = "tests" /\ Len(results) = Len(DEFAULT_ACTIVE_TESTS) /\ stage' = "logs"
  /\ \E cpu, memory \in Load \cup {Missing}, network \in BOOLEAN :
       /\ loads' = [cpu |-> cpu, memory |-> memory]
       /\ metrics' = [cpu |-> Told(cpu), memory |-> Told(memory), network |-> network]
  /\ UNCHANGED <<encounters, results, log, report, findings>>

CollectLogs ==
  /\ stage = "logs" /\ stage' = "report" /\ log' \in Logs
  /\ UNCHANGED <<encounters, results, loads, metrics, report, findings>>

-----------------------------------------------------------------------------
(* Aggregation.                                                            *)

(* metadata.status; the body of an internal error has no metadata.         *)
Status(kind) ==
  CASE kind = "tls_request" -> "ok"
    [] kind = "tls_handshake_failed" -> "error"
    [] kind = "route_not_found" -> "not_found"
    [] kind = "internal_error" -> "unknown"

IsSuccess(kind) == Status(kind) = "ok" \/ kind = "tls_request"

(* Wrong: what is no success is a failure.                                 *)
IsNoSuccess(kind) == ~IsSuccess(kind)

IsFailure(kind) ==
  ~IsSuccess(kind) /\ (Status(kind) = "error" \/ kind = "tls_handshake_failed")

Events(kinds) ==
  LET Of(kind) == IF kind \in kinds THEN log[kind] ELSE 0
  IN  Of("tls_request") + Of("route_not_found") + Of("internal_error")
        + Of("tls_handshake_failed")

(* totals of aggregate_log_events(): events and failure_percent.           *)
Total == Events(Kinds)
FailurePercent == Percent(Events({kind \in Kinds : IsFailure(kind)}), Total)

(* aggregate_active_tests(): the row of the tests of one profile or group. *)
Row(tests) ==
  [total    |-> Cardinality(tests),
   success  |-> Cardinality({i \in tests : results[i].success}),
   failure  |-> Cardinality({i \in tests : ~results[i].success}),
   mismatch |-> Cardinality({i \in tests : ~results[i].met})]

Profiles == {DEFAULT_ACTIVE_TESTS[i].profile : i \in Tests}
TestsOf(profile) == {i \in Tests : DEFAULT_ACTIVE_TESTS[i].profile = profile}

-----------------------------------------------------------------------------
(* Findings.                                                               *)

RateIsHigh == report.failurePercent >= 3000

LoadFindings(value, high, missing) ==
  IF value = Missing THEN {missing} ELSE IF value >= 80000 THEN {high} ELSE {}

EvaluateFindings ==
  /\ stage = "evaluate" /\ stage' = "done"
  /\ findings' =
       (IF report.mismatches > 0 THEN {"mismatch"} ELSE {})
       \cup (IF RateIsHigh THEN {"failure_rate"} ELSE {})
       \cup LoadFindings(report.metrics.cpu, "cpu_high", "cpu_missing")
       \cup LoadFindings(report.metrics.memory, "memory_high", "memory_missing")
       \cup (IF report.metrics.network THEN {} ELSE {"network_missing"})
       \cup (IF report.parsedEventCount = 0 THEN {"no_logs"} ELSE {})
  /\ UNCHANGED <<encounters, results, loads, metrics, log, report>>

(* build_final_report(), but for the findings.                             *)
BuildFinalReport ==
  /\ stage = "report" /\ stage' = "evaluate"
  /\ report' = [made |-> TRUE, mismatches |-> Mismatches, metrics |-> metrics,
                byProfile |-> [p \in Profiles |-> Row(TestsOf(p))],
                failurePercent |-> FailurePercent, parsedEventCount |-> Total]
  /\ UNCHANGED <<encounters, results, loads, metrics, log, findings>>

Next ==
  \/ RunTest \/ Timeout \/ TimeoutWithOutput
  \/ CollectMetrics \/ CollectLogs \/ BuildFinalReport \/ EvaluateFindings

Spec == Init /\ [][Next]_vars

-----------------------------------------------------------------------------
(* Properties.                                                             *)

(* The share of the handshake failures is at least n/20000.                *)
FailuresReach(n) == Total > 0 /\ 20000 * log["tls_handshake_failed"] >= n * Total
TooManyFailures == FailuresReach(6000)

(* A load of at least n/2000 percent.                                      *)
LoadReaches(load, n) == load # Missing /\ 2 * load >= n * Precision
Loads == {loads.cpu, loads.memory}

(* Every endpoint behaved as expected, fewer than 30% of the events are    *)
(* handshake failures, and all measurements are there and below 80%.       *)
Contrary == {i \in DOMAIN encounters : (encounters[i] = "answered") # Expected(i)}
Healthy ==
  /\ Contrary = {} /\ Total > 0 /\ ~TooManyFailures
  /\ \A load \in Loads : load # Missing /\ ~LoadReaches(load, 160000)
  /\ metrics.network

(* What rounding takes to a threshold: 29.995% of failures, or a load of   *)
(* 79.9995%.                                                               *)
AlmostTooHigh == FailuresReach(5999) \/ \E load \in Loads : LoadReaches(load, 159999)

(* A report without findings vouches for the lab, and one with findings    *)
(* has a cause: by what the endpoints did, not what was made of it, and by *)
(* the exact share of the failures and the exact loads, not the rounded    *)
(* ones, with unknown paths and internal errors not among the failures.    *)
(* A threshold itself is too high, as the findings say of themselves       *)
(* ("failure_percent < 30"). Rounding never hides that it is reached; it   *)
(* may anticipate it.                                                      *)
FindingsTellTheTruth ==
  stage = "done" =>
    /\ findings = {} => Healthy
    /\ Healthy /\ ~AlmostTooHigh => findings = {}
    /\ TooManyFailures => "failure_rate" \in findings
    /\ "failure_rate" \in findings => FailuresReach(5999)
    /\ LoadReaches(loads.cpu, 160000) => "cpu_high" \in findings
    /\ "cpu_high" \in findings => LoadReaches(loads.cpu, 159999)
    /\ LoadReaches(loads.memory, 160000) => "memory_high" \in findings
    /\ "memory_high" \in findings => LoadReaches(loads.memory, 159999)

(* What the README's table of thresholds says: bad is a load of more than  *)
(* 80% and an error rate of more than 30%.                                 *)
OnlyAboveTheThreshold ==
  stage = "done" =>
    /\ "cpu_high" \in findings => loads.cpu > 80000 * Precision
    /\ "memory_high" \in findings => loads.memory > 80000 * Precision
    /\ "failure_rate" \in findings => 20000 * log["tls_handshake_failed"] > 6000 * Total

(* An endpoint that was there for none of its tests is found out, although *)
(* each failure meets the expectation of some test: its row has mismatches *)
(* and no success, and the report a finding.                               *)
DownEndpointIsFound ==
  stage = "done" =>
    \A p \in Profiles :
      (\A i \in TestsOf(p) : encounters[i] \in {"nobody", "silent"}) =>
        /\ report.byProfile[p].success = 0 /\ report.byProfile[p].mismatch > 0
        /\ "mismatch" \in findings

=============================================================================
