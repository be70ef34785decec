---------------------------- MODULE ToolsProofs -----------------------------
(***************************************************************************)
(* Theorems about Report.tla: for every log and every load, the findings   *)
(* of a report say what endpoints, log and measurements were. And about    *)
(* Algorithms.tla: whatever CloudWatch holds and advertises, the metrics   *)
(* of an instance are its newest datapoints in the window; of any list of  *)
(* durations the statistics are in order; in any text the first object is  *)
(* found.                                                                  *)
(***************************************************************************)
EXTENDS Report, Algorithms, FiniteSetTheorems, SequenceTheorems, WellFoundedInduction, TLAPS

Result == [success : BOOLEAN, met : BOOLEAN]
Measured == [cpu : Load \cup {Missing}, memory : Load \cup {Missing}]

TypeOK ==
  /\ stage \in {"tests", "logs", "report", "evaluate", "done", "aborted"}
  /\ encounters \in Seq(Encounters) /\ results \in Seq(Result)
  /\ loads \in Measured /\ metrics.network \in BOOLEAN
  /\ metrics.cpu = Told(loads.cpu) /\ metrics.memory = Told(loads.memory)
  /\ log \in [Kinds -> Nat]

(* A test is judged by what it met with, and the report waits for all six. *)
Judged ==
  /\ Len(results) = Len(encounters) /\ Len(results) <= 6
  /\ stage \notin {"tests", "aborted"} => Len(results) = 6
  /\ \A i \in 1 .. Len(results) :
       /\ results[i].success <=> encounters[i] = "answered"
       /\ results[i].met <=> results[i].success = Expected(i)

(* The report is of what was measured, which does not change any more.     *)
Reported ==
  stage \in {"evaluate", "done"} =>
    /\ report.mismatches = Mismatches /\ report.metrics = metrics
    /\ report.byProfile = [p \in Profiles |-> Row(TestsOf(p))]
    /\ report.failurePercent = FailurePercent /\ report.parsedEventCount = Total

(* What gives rise to a finding.                                           *)
TooHigh(value) == value # Missing /\ value >= 80000
High(value) == value = Missing \/ TooHigh(value)

Found ==
  stage = "done" =>
    /\ "mismatch" \in findings <=> Mismatches > 0
    /\ "failure_rate" \in findings <=> FailurePercent >= 3000
    /\ "cpu_high" \in findings <=> TooHigh(metrics.cpu)
    /\ "memory_high" \in findings <=> TooHigh(metrics.memory)
    /\ findings = {} <=> /\ ~(Mismatches > 0) /\ ~(FailurePercent >= 3000) /\ Total # 0
                         /\ ~High(metrics.cpu) /\ ~High(metrics.memory) /\ metrics.network

(* The inductive invariant: findings follow from the report, the report    *)
(* from what was measured, and results from what was met.                  *)
Inductive == TypeOK /\ Judged /\ Reported /\ Found

-----------------------------------------------------------------------------
(* Rounding (Utils.tla), of whatever numbers.                              *)

LEMMA Multiples ==
  ASSUME NEW d \in Nat, NEW a \in Int, NEW b \in Int
  PROVE  /\ d * a \in Int /\ d * b \in Int
         /\ a <= b => d * a <= d * b
         /\ d * (a + 1) = d * a + d
<1>1. d * a \in Int /\ d * b \in Int /\ d * (a + 1) = d * a + d
  OBVIOUS
<1>2. ASSUME a <= b PROVE d * a <= d * b
  <2>1. b - a \in Nat /\ d * (b - a) \in Nat
    BY <1>2
  <2>2. d * b = d * a + d * (b - a)
    BY <2>1
  <2> QED
    BY <1>1, <2>1, <2>2
<1> QED
  BY <1>1, <1>2

(* Division with a remainder.                                              *)
LEMMA Divided ==
  ASSUME NEW a \in Nat, NEW d \in Nat \ {0}
  PROVE  /\ a \div d \in Nat /\ a % d \in Nat /\ a % d < d
         /\ a = d * (a \div d) + (a % d) /\ d * (a \div d) \in Nat
OBVIOUS

LEMMA QuotientBounds ==
  ASSUME NEW a \in Nat, NEW d \in Nat \ {0}, NEW q \in Nat
  PROVE  /\ d * q <= a => q <= a \div d
         /\ a < d * (q + 1) => a \div d <= q
<1> DEFINE f == a \div d
           r == a % d
<1>1. f \in Nat /\ r \in Nat /\ r < d /\ a = d * f + r
  BY Divided
<1> HIDE DEF f, r
<1>2. ASSUME d * q <= a, ~(q <= f) PROVE FALSE
  <2>1. d * (f + 1) <= d * q /\ d * (f + 1) = d * f + d /\ d * f \in Int /\ d * q \in Int
    BY <1>1, <1>2, Multiples
  <2> QED
    BY <1>1, <1>2, <2>1
<1>3. ASSUME a < d * (q + 1), ~(f <= q) PROVE FALSE
  <2>1. d * (q + 1) <= d * f /\ d * f \in Int /\ d * (q + 1) \in Int
    BY <1>1, <1>3, Multiples
  <2> QED
    BY <1>1, <1>3, <2>1
<1> QED
  BY <1>1, <1>2, <1>3 DEF f

LEMMA OneQuotient ==
  ASSUME NEW d \in Nat \ {0}, NEW q \in Nat, NEW r \in Nat, r < d
  PROVE  (d * q + r) \div d = q /\ (d * q + r) % d = r
<1> DEFINE a == d * q + r
           f == a \div d
           m == a % d
<1>1. a \in Nat /\ d * q \in Nat /\ d * (q + 1) = d * q + d
  OBVIOUS
<1>2. d * q <= a /\ a < d * (q + 1)
  BY <1>1
<1>3. a = d * q + r
  OBVIOUS
<1> HIDE DEF a
<1>4. f \in Nat /\ m \in Nat /\ a = d * f + m
  BY <1>1, Divided
<1>5. q <= f /\ f <= q
  BY <1>1, <1>2, QuotientBounds
<1> HIDE DEF f, m
<1>6. f = q
  BY <1>4, <1>5
<1>7. m = r
  BY <1>1, <1>3, <1>4, <1>6
<1> QED
  BY <1>6, <1>7 DEF a, f, m

(* Rounded is one of two neighbours, and the error at most a half.         *)
LEMMA RoundingError ==
  ASSUME NEW a \in Nat, NEW d \in Nat \ {0}
  PROVE  /\ RoundFloat(a, d) \in {a \div d, a \div d + 1} /\ RoundFloat(a, d) \in Nat
         /\ d * RoundFloat(a, d) \in Nat
         /\ 2 * a - d <= 2 * (d * RoundFloat(a, d)) /\ 2 * (d * RoundFloat(a, d)) <= 2 * a + d
<1> DEFINE f == a \div d
           r == a % d
           n == RoundFloat(a, d)
<1>1. f \in Nat /\ r \in Nat /\ r < d /\ a = d * f + r /\ d * f \in Nat
  BY Divided
<1>2. n = IF 2 * r > d \/ (2 * r = d /\ f \in TiesUp) THEN f + 1 ELSE f
  BY DEF RoundFloat
<1>3. n \in {a \div d, a \div d + 1}
  BY <1>2
<1> HIDE DEF f, r, n
<1>4. d * (f + 1) = d * f + d
  BY <1>1, Multiples
<1>5. CASE n = f + 1
  <2>1. 2 * r >= d
    BY <1>1, <1>2, <1>5
  <2> QED
    BY <1>1, <1>3, <1>4, <1>5, <2>1 DEF n
<1>6. CASE n = f
  <2>1. 2 * r <= d
    BY <1>1, <1>2, <1>6
  <2> QED
    BY <1>1, <1>3, <1>6, <2>1 DEF n
<1> QED
  BY <1>2, <1>5, <1>6

(* The greater of two numbers is not rounded to the lesser.                *)
LEMMA RoundsInOrder ==
  ASSUME NEW a \in Nat, NEW b \in Nat, NEW d \in Nat \ {0}, a <= b
  PROVE  RoundFloat(a, d) <= RoundFloat(b, d)
<1> DEFINE f == a \div d
           r == a % d
           g == b \div d
           s == b % d
           m == RoundFloat(a, d)
           n == RoundFloat(b, d)
<1>1. f \in Nat /\ r \in Nat /\ r < d /\ a = d * f + r /\ d * f \in Nat
  BY Divided
<1>2. g \in Nat /\ s \in Nat /\ s < d /\ b = d * g + s /\ d * g \in Nat
  BY Divided
<1>3. m = IF 2 * r > d \/ (2 * r = d /\ f \in TiesUp) THEN f + 1 ELSE f
  BY DEF RoundFloat
<1>4. n = IF 2 * s > d \/ (2 * s = d /\ g \in TiesUp) THEN g + 1 ELSE g
  BY DEF RoundFloat
<1>5. f <= g
  <2>1. d * f <= b
    BY <1>1
  <2> QED
    BY <1>1, <2>1, QuotientBounds
<1> HIDE DEF f, r, g, s, m, n
<1>6. ASSUME f < g PROVE m <= n
  BY <1>1, <1>2, <1>3, <1>4, <1>6
<1>7. ASSUME f = g PROVE m <= n
  <2>1. r <= s
    BY <1>1, <1>2, <1>7
  <2> QED
    BY <1>1, <1>2, <1>3, <1>4, <1>7, <2>1
<1>8. m <= n
  BY <1>1, <1>2, <1>5, <1>6, <1>7
<1> QED
  BY <1>8 DEF m, n

(* In hundredths, a number is rounded as it is itself.                     *)
LEMMA RoundsHundredths ==
  ASSUME NEW a \in Nat, NEW d \in Nat \ {0}
  PROVE  RoundFloat(100 * a, 100 * d) = RoundFloat(a, d)
<1> DEFINE f == a \div d
           r == a % d
<1>1. f \in Nat /\ r \in Nat /\ r < d /\ a = d * f + r
  BY Divided
<1> HIDE DEF f, r
<1>2. 100 * a = (100 * d) * f + 100 * r /\ 100 * d \in Nat \ {0} /\ 100 * r \in Nat
      /\ 100 * r < 100 * d
  BY <1>1
<1>3. (100 * a) \div (100 * d) = f /\ (100 * a) % (100 * d) = 100 * r
  BY <1>1, <1>2, OneQuotient
<1>4. RoundFloat(100 * a, 100 * d) =
        IF 2 * (100 * r) > 100 * d \/ (2 * (100 * r) = 100 * d /\ f \in TiesUp)
        THEN f + 1 ELSE f
  BY <1>3 DEF RoundFloat
<1>5. RoundFloat(a, d) = IF 2 * r > d \/ (2 * r = d /\ f \in TiesUp) THEN f + 1 ELSE f
  BY DEF RoundFloat, f, r
<1>6. (2 * (100 * r) > 100 * d <=> 2 * r > d) /\ (2 * (100 * r) = 100 * d <=> 2 * r = d)
  BY <1>1
<1> QED
  BY <1>4, <1>5, <1>6

-----------------------------------------------------------------------------
(* The percentage of the failures, for logs of every length.               *)

(* Rounded to hundredths, a share reaches 30% from 30% on, and not below   *)
(* 29.995%.                                                                *)
LEMMA Rounded ==
  ASSUME NEW part \in Nat, NEW total \in Nat
  PROVE  /\ Percent(part, total) >= 3000 => total > 0 /\ 20000 * part >= 5999 * total
         /\ total > 0 /\ 20000 * part >= 6000 * total => Percent(part, total) >= 3000
<1>1. CASE total = 0
  BY <1>1 DEF Percent
<1>2. CASE total > 0
  <2> DEFINE a == 10000 * part
             n == RoundFloat(a, total)
  <2>1. a \in Nat /\ total \in Nat \ {0} /\ Percent(part, total) = n
    BY <1>2 DEF Percent
  <2>2. a = 10000 * part
    OBVIOUS
  <2> HIDE DEF a
  <2>3. /\ n \in {a \div total, a \div total + 1} /\ n \in Nat /\ total * n \in Nat
        /\ 2 * (total * n) <= 2 * a + total
    BY <2>1, RoundingError
  <2>4. a \div total \in Nat
    BY <2>1, Divided
  <2>5. ASSUME n >= 3000 PROVE 20000 * part >= 5999 * total
    <3>1. total * 3000 <= total * n
      BY <2>1, <2>3, <2>5, Multiples
    <3> HIDE DEF n
    <3> QED
      BY <2>1, <2>2, <2>3, <3>1
  <2>6. ASSUME 20000 * part >= 6000 * total PROVE n >= 3000
    <3>1. total * 3000 <= a
      BY <2>2, <2>6
    <3>2. 3000 <= a \div total
      BY <2>1, <3>1, QuotientBounds
    <3> QED
      BY <2>3, <2>4, <3>2
  <2> QED
    BY <1>2, <2>1, <2>5, <2>6
<1> QED
  BY <1>1, <1>2

(* A load is too high from 80% on, and not below 79.9995%.                 *)
LEMMA ToldLoad ==
  ASSUME NEW load \in Load \cup {Missing}
  PROVE  /\ Told(load) = Missing <=> load = Missing
         /\ LoadReaches(load, 160000) => TooHigh(Told(load))
         /\ TooHigh(Told(load)) => LoadReaches(load, 159999)
<1>1. CASE load = Missing
  BY <1>1 DEF Told, LoadReaches, TooHigh
<1>2. CASE load # Missing
  <2> DEFINE n == RoundFloat(load, Precision)
  <2>1. load \in Nat /\ Missing \notin Nat /\ Precision \in Nat \ {0}
    BY <1>2, LoadAssumption, PrecisionAssumption
  <2>2. Told(load) = n
    BY <1>2 DEF Told
  <2>3. /\ n \in {load \div Precision, load \div Precision + 1} /\ n \in Nat
        /\ Precision * n \in Nat /\ 2 * (Precision * n) <= 2 * load + Precision
    BY <2>1, RoundingError
  <2>4. load \div Precision \in Nat
    BY <2>1, Divided
  <2>5. ASSUME n >= 80000 PROVE 2 * load >= 159999 * Precision
    <3>1. Precision * 80000 <= Precision * n
      BY <2>1, <2>3, <2>5, Multiples
    <3> HIDE DEF n
    <3> QED
      BY <2>1, <2>3, <3>1
  <2>6. ASSUME 2 * load >= 160000 * Precision PROVE n >= 80000
    <3>1. Precision * 80000 <= load
      BY <2>1, <2>6
    <3>2. 80000 <= load \div Precision
      BY <2>1, <3>1, QuotientBounds
    <3> QED
      BY <2>3, <2>4, <3>2
  <2>7. n # Missing
    BY <2>1, <2>3
  <2> HIDE DEF n
  <2> QED
    BY <1>2, <2>2, <2>5, <2>6, <2>7 DEF LoadReaches, TooHigh
<1> QED
  BY <1>1, <1>2

(* Of the four kinds of events, one is a failure.                          *)
LEMMA FailureShare ==
  ASSUME TypeOK
  PROVE  /\ Total \in Nat
         /\ FailurePercent >= 3000 => FailuresReach(5999)
         /\ FailuresReach(6000) => FailurePercent >= 3000
<1> DEFINE failed == log["tls_handshake_failed"]
           failures == Events({kind \in Kinds : IsFailure(kind)})
<1>1. \A kind \in Kinds : log[kind] \in Nat
  BY DEF TypeOK
<1>2. failed \in Nat /\ Total \in Nat
  BY <1>1 DEF Total, Events, Kinds
<1>3. failures = failed
  <2>1. /\ ~IsFailure("tls_request") /\ ~IsFailure("route_not_found")
        /\ ~IsFailure("internal_error") /\ IsFailure("tls_handshake_failed")
    BY DEF IsFailure, IsSuccess, Status
  <2>2. {kind \in Kinds : IsFailure(kind)} = {"tls_handshake_failed"}
    BY <2>1 DEF Kinds
  <2>3. Events({"tls_handshake_failed"}) = 0 + 0 + 0 + failed
    BY DEF Events
  <2> QED
    BY <1>2, <2>2, <2>3
<1>4. FailurePercent = Percent(failed, Total)
  BY <1>3 DEF FailurePercent
<1>5. /\ FailurePercent >= 3000 => Total > 0 /\ 20000 * failed >= 5999 * Total
      /\ Total > 0 /\ 20000 * failed >= 6000 * Total => FailurePercent >= 3000
  BY <1>2, <1>4, Rounded
<1> QED
  BY <1>2, <1>5 DEF FailuresReach

-----------------------------------------------------------------------------
(* The tests and their rows.                                               *)

LEMMA Cardinalities ==
  ASSUME NEW S, NEW n \in Nat, S \in SUBSET (1 .. n)
  PROVE  Cardinality(S) \in Nat /\ (Cardinality(S) > 0 <=> S # {})
<1>1. IsFiniteSet(S)
  <2>1. IsFiniteSet(1 .. n)
    BY FS_Interval
  <2> QED
    BY <2>1, FS_Subset
<1> DEFINE c == Cardinality(S)
<1>2. c \in Nat /\ (c = 0 <=> S = {})
  BY <1>1, FS_CardinalityType, FS_EmptySet
<1> HIDE DEF c
<1>3. ASSUME c \in Nat PROVE c > 0 <=> c # 0
  BY <1>3
<1>4. c \in Nat /\ (c > 0 <=> S # {})
  BY <1>2, <1>3, Zenon
<1> QED
  BY <1>4 DEF c

LEMMA SixTests ==
  /\ Tests = 1 .. 6 /\ Len(DEFAULT_ACTIVE_TESTS) = 6
  /\ Profiles = {"classic", "hybrid", "pqc"}
  /\ \A i \in Tests : Expected(i) \in BOOLEAN
  /\ \A p \in Profiles : \E i \in TestsOf(p) : Expected(i)
<1>1. /\ DEFAULT_ACTIVE_TESTS[1].profile = "classic" /\ Expected(1) = TRUE
      /\ DEFAULT_ACTIVE_TESTS[2].profile = "classic" /\ Expected(2) = FALSE
      /\ DEFAULT_ACTIVE_TESTS[3].profile = "hybrid" /\ Expected(3) = TRUE
      /\ DEFAULT_ACTIVE_TESTS[4].profile = "hybrid" /\ Expected(4) = FALSE
      /\ DEFAULT_ACTIVE_TESTS[5].profile = "pqc" /\ Expected(5) = TRUE
      /\ DEFAULT_ACTIVE_TESTS[6].profile = "pqc" /\ Expected(6) = FALSE
  BY DEF DEFAULT_ACTIVE_TESTS, Test, Expected
<1>2. Tests = 1 .. 6 /\ Len(DEFAULT_ACTIVE_TESTS) = 6
  BY DEF Tests, DEFAULT_ACTIVE_TESTS
<1>3. \A i : i \in Tests <=> i = 1 \/ i = 2 \/ i = 3 \/ i = 4 \/ i = 5 \/ i = 6
  BY <1>2
<1>4. Profiles = {"classic", "hybrid", "pqc"}
  BY <1>1, <1>3 DEF Profiles
<1>5. \A i \in Tests : Expected(i) \in BOOLEAN
  BY <1>1, <1>3
<1>6. 1 \in TestsOf("classic") /\ 3 \in TestsOf("hybrid") /\ 5 \in TestsOf("pqc")
  BY <1>1, <1>3 DEF TestsOf
<1> QED
  BY <1>1, <1>2, <1>4, <1>5, <1>6

(* The mismatches counted are the tests that went contrary.                *)
LEMMA MismatchesAreContrary == ASSUME TypeOK, Judged PROVE Mismatches > 0 <=> Contrary # {}
<1> DEFINE missed == {i \in DOMAIN results : ~results[i].met}
<1>1. /\ Len(results) \in Nat /\ Len(results) <= 6 /\ DOMAIN results = 1 .. Len(results)
      /\ DOMAIN encounters = 1 .. Len(results)
  BY DEF TypeOK, Judged
<1>2. \A i \in 1 .. Len(results) : ~results[i].met <=> (encounters[i] = "answered") # Expected(i)
  <2>1. \A i \in 1 .. Len(results) : results[i] \in Result /\ Expected(i) \in BOOLEAN
    BY <1>1, SixTests DEF TypeOK
  <2>2. \A i \in 1 .. Len(results) : results[i].success \in BOOLEAN /\ results[i].met \in BOOLEAN
    BY <2>1 DEF Result
  <2> QED
    BY <2>1, <2>2 DEF Judged
<1>3. missed = Contrary
  BY <1>1, <1>2 DEF Contrary
<1>4. missed \in SUBSET (1 .. Len(results))
  BY <1>1
<1>5. Mismatches = Cardinality(missed)
  BY DEF Mismatches
<1> HIDE DEF missed
<1>6. Cardinality(missed) > 0 <=> missed # {}
  BY <1>1, <1>4, Cardinalities
<1> QED
  BY <1>3, <1>5, <1>6

-----------------------------------------------------------------------------
(* The inductive invariant.                                                *)

LEMMA InitInductive == Init => Inductive
<1> SUFFICES ASSUME Init PROVE Inductive
  OBVIOUS
<1>1. /\ stage = "tests" /\ encounters = <<>> /\ results = <<>> /\ metrics = Unread
      /\ loads = [cpu |-> Missing, memory |-> Missing] /\ log = [k \in Kinds |-> 0]
  BY DEF Init
<1>2. TypeOK
  BY <1>1 DEF TypeOK, Unread, Measured, Told
<1> QED
  BY <1>1, <1>2 DEF Inductive, Judged, Reported, Found

(* A test more: what both handlers do.                                     *)
LEMMA OneMoreTest ==
  ASSUME Inductive, Testing, NEW encounter \in Encounters, NEW result \in Result,
         encounters' = Append(encounters, encounter), results' = Append(results, result),
         result.success <=> encounter = "answered",
         result.met <=> result.success = Expected(Turn),
         UNCHANGED <<stage, loads, metrics, log, report, findings>>
  PROVE  Inductive'
<1> USE DEF Inductive
<1>1. stage = "tests" /\ Len(results) < 6 /\ UNCHANGED <<stage, loads, metrics, log, report, findings>>
  BY SixTests DEF Testing
<1>2. /\ encounters' \in Seq(Encounters) /\ results' \in Seq(Result)
      /\ Len(results) \in Nat /\ Len(encounters) = Len(results)
      /\ Len(results') = Len(results) + 1 /\ Len(encounters') = Len(results) + 1
      /\ \A i \in 1 .. Len(results) :
           results'[i] = results[i] /\ encounters'[i] = encounters[i]
      /\ results'[Turn] = result /\ encounters'[Turn] = encounter /\ Turn = Len(results) + 1
  BY DEF TypeOK, Judged, Turn
<1>3. TypeOK'
  BY <1>1, <1>2 DEF TypeOK
<1>4. Judged'
  <2>1. \A i \in 1 .. Len(results') : i \in 1 .. Len(results) \/ i = Turn
    BY <1>2
  <2>2. ASSUME NEW i \in 1 .. Len(results')
        PROVE  /\ results'[i].success <=> encounters'[i] = "answered"
               /\ results'[i].met <=> results'[i].success = Expected(i)
    <3>1. CASE i \in 1 .. Len(results)
      BY <1>2, <3>1 DEF Judged
    <3>2. CASE i = Turn
      BY <1>2, <3>2
    <3> QED
      BY <2>1, <3>1, <3>2
  <2> QED
    BY <1>1, <1>2, <2>2 DEF Judged
<1> QED
  BY <1>1, <1>3, <1>4 DEF Reported, Found

LEMMA TestsInductive == ASSUME Inductive, RunTest \/ Timeout PROVE Inductive'
<1>1. ASSUME RunTest PROVE Inductive'
  <2>1. /\ Testing /\ UNCHANGED <<stage, loads, metrics, log, report, findings>>
        /\ \E encounter \in Encounters :
             /\ encounters' = Append(encounters, encounter)
             /\ results' = Append(results, [success |-> encounter = "answered",
                                            met |-> (encounter = "answered") = Expected(Turn)])
    BY <1>1 DEF RunTest
  <2>2. PICK encounter \in Encounters :
             /\ encounters' = Append(encounters, encounter)
             /\ results' = Append(results, [success |-> encounter = "answered",
                                            met |-> (encounter = "answered") = Expected(Turn)])
    BY <2>1
  <2> DEFINE result == [success |-> encounter = "answered",
                        met |-> (encounter = "answered") = Expected(Turn)]
  <2>3. /\ result \in Result /\ result.success = (encounter = "answered")
        /\ result.met = ((encounter = "answered") = Expected(Turn))
    BY Zenon DEF Result
  <2>4. /\ result.success <=> encounter = "answered"
        /\ result.met <=> result.success = Expected(Turn)
    BY <2>3, Zenon
  <2>5. results' = Append(results, result)
    BY <2>2
  <2> HIDE DEF result
  <2> QED
    BY <2>1, <2>2, <2>3, <2>4, <2>5, OneMoreTest
<1>2. ASSUME Timeout PROVE Inductive'
  <2> DEFINE result == [success |-> FALSE, met |-> FALSE = Expected(Turn)]
  <2>1. /\ Testing /\ UNCHANGED <<stage, loads, metrics, log, report, findings>>
        /\ encounters' = Append(encounters, "silent") /\ results' = Append(results, result)
    BY <1>2 DEF Timeout
  <2>2. result \in Result /\ result.success = FALSE /\ result.met = (FALSE = Expected(Turn))
    BY Zenon DEF Result
  <2>3. /\ result.success <=> "silent" = "answered"
        /\ result.met <=> result.success = Expected(Turn)
    BY <2>2
  <2>4. "silent" \in Encounters
    BY DEF Encounters
  <2> HIDE DEF result
  <2> QED
    BY <2>1, <2>2, <2>3, <2>4, OneMoreTest
<1> QED
  BY <1>1, <1>2

(* The tests are lost, or over; then the metrics and the logs.             *)
LEMMA CollectionInductive ==
  ASSUME Inductive, TimeoutWithOutput \/ CollectMetrics \/ CollectLogs
  PROVE  Inductive'
<1> USE DEF Inductive
<1>1. ASSUME TimeoutWithOutput PROVE Inductive'
  <2>1. /\ stage' = "aborted" /\ UNCHANGED <<encounters, results, loads, metrics, log, report, findings>>
    BY <1>1 DEF TimeoutWithOutput
  <2> QED
    BY <2>1 DEF TypeOK, Judged, Reported, Found
<1>2. ASSUME CollectMetrics PROVE Inductive'
  <2>1. /\ stage' = "logs" /\ Len(results) = 6
        /\ UNCHANGED <<encounters, results, log, report, findings>>
    BY <1>2, SixTests DEF CollectMetrics
  <2>2. /\ loads' \in Measured /\ metrics'.network \in BOOLEAN
        /\ metrics'.cpu = Told(loads'.cpu) /\ metrics'.memory = Told(loads'.memory)
    <3>1. PICK cpu \in Load \cup {Missing}, memory \in Load \cup {Missing}, network \in BOOLEAN :
            /\ loads' = [cpu |-> cpu, memory |-> memory]
            /\ metrics' = [cpu |-> Told(cpu), memory |-> Told(memory), network |-> network]
      BY <1>2 DEF CollectMetrics
    <3> QED
      BY <3>1 DEF Measured
  <2>3. TypeOK'
    <3>1. (Told(loads.cpu))' = Told(loads'.cpu) /\ (Told(loads.memory))' = Told(loads'.memory)
      BY DEF Told
    <3> QED
      BY <2>1, <2>2, <3>1 DEF TypeOK
  <2>4. Judged'
    BY <2>1 DEF Judged
  <2>5. Reported' /\ Found'
    <3>1. stage' \notin {"evaluate", "done"}
      BY <2>1
    <3> QED
      BY <3>1 DEF Reported, Found
  <2> QED
    BY <2>3, <2>4, <2>5
<1>3. ASSUME CollectLogs PROVE Inductive'
  <2>1. /\ stage = "logs" /\ stage' = "report" /\ log' \in [Kinds -> Nat]
        /\ UNCHANGED <<encounters, results, loads, metrics, report, findings>>
    BY <1>3, LogsAssumption DEF CollectLogs
  <2> QED
    BY <2>1 DEF TypeOK, Judged, Reported, Found
<1> QED
  BY <1>1, <1>2, <1>3

LEMMA ReportInductive == ASSUME Inductive, BuildFinalReport PROVE Inductive'
<1> USE DEF Inductive
<1>1. /\ stage = "report" /\ stage' = "evaluate"
      /\ UNCHANGED <<encounters, results, loads, metrics, log, findings>>
  BY DEF BuildFinalReport
<1>2. TypeOK' /\ Judged' /\ Found'
  BY <1>1 DEF TypeOK, Judged, Found
<1>3. /\ Mismatches' = Mismatches /\ FailurePercent' = FailurePercent /\ Total' = Total
      /\ [p \in Profiles |-> Row(TestsOf(p))]' = [p \in Profiles |-> Row(TestsOf(p))]
  BY <1>1 DEF Mismatches, FailurePercent, Total, Events, Row
<1>4. report' = [made |-> TRUE, mismatches |-> Mismatches, metrics |-> metrics,
                 byProfile |-> [p \in Profiles |-> Row(TestsOf(p))],
                 failurePercent |-> FailurePercent, parsedEventCount |-> Total]
  BY DEF BuildFinalReport
<1>5. /\ report'.mismatches = Mismatches /\ report'.metrics = metrics
      /\ report'.byProfile = [p \in Profiles |-> Row(TestsOf(p))]
      /\ report'.failurePercent = FailurePercent /\ report'.parsedEventCount = Total
  BY <1>4
<1>6. Reported'
  BY <1>1, <1>3, <1>5 DEF Reported
<1> QED
  BY <1>2, <1>6

LEMMA EvaluateInductive == ASSUME Inductive, EvaluateFindings PROVE Inductive'
<1> USE DEF Inductive
<1>1. /\ stage = "evaluate" /\ stage' = "done"
      /\ UNCHANGED <<encounters, results, loads, metrics, log, report>>
  BY DEF EvaluateFindings
<1>2. TypeOK' /\ Judged'
  BY <1>1 DEF TypeOK, Judged
<1>3. /\ Mismatches' = Mismatches /\ FailurePercent' = FailurePercent /\ Total' = Total
      /\ [p \in Profiles |-> Row(TestsOf(p))]' = [p \in Profiles |-> Row(TestsOf(p))]
  BY <1>1 DEF Mismatches, FailurePercent, Total, Events, Row
<1>4. Reported'
  BY <1>1, <1>3 DEF Reported
<1>5. /\ report.mismatches = Mismatches /\ report.metrics = metrics
      /\ report.failurePercent = FailurePercent /\ report.parsedEventCount = Total
  BY <1>1 DEF Reported
<1> DEFINE mismatch == IF Mismatches > 0 THEN {"mismatch"} ELSE {}
           rate == IF FailurePercent >= 3000 THEN {"failure_rate"} ELSE {}
           cpu == LoadFindings(metrics.cpu, "cpu_high", "cpu_missing")
           memory == LoadFindings(metrics.memory, "memory_high", "memory_missing")
           network == IF metrics.network THEN {} ELSE {"network_missing"}
           nothing == IF Total = 0 THEN {"no_logs"} ELSE {}
<1>6. findings' = mismatch \cup rate \cup cpu \cup memory \cup network \cup nothing
  BY <1>5 DEF EvaluateFindings, RateIsHigh
<1>7. /\ mismatch = {} <=> ~(Mismatches > 0)
      /\ rate = {} <=> ~(FailurePercent >= 3000)
      /\ cpu = {} <=> ~High(metrics.cpu)
      /\ memory = {} <=> ~High(metrics.memory)
      /\ network = {} <=> metrics.network
      /\ nothing = {} <=> Total # 0
  BY DEF LoadFindings, High, TooHigh
<1>8. /\ "mismatch" \in mismatch <=> Mismatches > 0
      /\ "failure_rate" \in rate <=> FailurePercent >= 3000
      /\ \A f \in rate \cup cpu \cup memory \cup network \cup nothing : f # "mismatch"
      /\ \A f \in mismatch \cup cpu \cup memory \cup network \cup nothing : f # "failure_rate"
  BY DEF LoadFindings
<1>12. /\ "cpu_high" \in cpu <=> TooHigh(metrics.cpu)
       /\ "memory_high" \in memory <=> TooHigh(metrics.memory)
       /\ \A f \in mismatch \cup rate \cup memory \cup network \cup nothing : f # "cpu_high"
       /\ \A f \in mismatch \cup rate \cup cpu \cup network \cup nothing : f # "memory_high"
  BY DEF LoadFindings, TooHigh
<1> HIDE DEF mismatch, rate, cpu, memory, network, nothing
<1>9. /\ findings' = {} <=> /\ mismatch = {} /\ rate = {} /\ cpu = {} /\ memory = {}
                            /\ network = {} /\ nothing = {}
      /\ "mismatch" \in findings' <=> "mismatch" \in mismatch
      /\ "failure_rate" \in findings' <=> "failure_rate" \in rate
      /\ "cpu_high" \in findings' <=> "cpu_high" \in cpu
      /\ "memory_high" \in findings' <=> "memory_high" \in memory
  BY <1>6, <1>8, <1>12
<1>10. findings' = {} <=> /\ ~(Mismatches > 0) /\ ~(FailurePercent >= 3000) /\ Total # 0
                          /\ ~High(metrics.cpu) /\ ~High(metrics.memory) /\ metrics.network
  BY <1>7, <1>9
<1>11. Found'
  <2>1. /\ "mismatch" \in findings' <=> Mismatches > 0
        /\ "failure_rate" \in findings' <=> FailurePercent >= 3000
        /\ "cpu_high" \in findings' <=> TooHigh(metrics.cpu)
        /\ "memory_high" \in findings' <=> TooHigh(metrics.memory)
    BY <1>8, <1>9, <1>12
  <2> QED
    BY <1>1, <1>3, <1>10, <2>1 DEF Found, High, TooHigh
<1> QED
  BY <1>2, <1>4, <1>11

(* The invariant, for every load and every set of logs.                    *)
THEOREM InductiveInvariant == Spec => []Inductive
<1>1. ASSUME Inductive, [Next]_vars PROVE Inductive'
  <2>1. CASE Next
    BY <1>1, <2>1, TestsInductive, CollectionInductive, ReportInductive, EvaluateInductive
    DEF Next
  <2>2. CASE UNCHANGED vars
    <3>1. UNCHANGED <<stage, encounters, results, loads, metrics, log, report, findings>>
      BY <2>2 DEF vars
    <3>2. TypeOK' /\ Judged'
      BY <1>1, <3>1 DEF Inductive, TypeOK, Judged
    <3>3. /\ Mismatches' = Mismatches /\ FailurePercent' = FailurePercent /\ Total' = Total
          /\ [p \in Profiles |-> Row(TestsOf(p))]' = [p \in Profiles |-> Row(TestsOf(p))]
      BY <3>1 DEF Mismatches, FailurePercent, Total, Events, Row
    <3>4. Reported' /\ Found'
      BY <1>1, <3>1, <3>3 DEF Inductive, Reported, Found, High, TooHigh
    <3> QED
      BY <3>2, <3>4 DEF Inductive
  <2> QED
    BY <1>1, <2>1, <2>2
<1> QED
  BY <1>1, InitInductive, PTL DEF Spec

-----------------------------------------------------------------------------
(* What follows.                                                           *)

(* A report without findings vouches for endpoints, log and measurements;  *)
(* a failure rate is reported from 30% on and only from 29.995% on, of     *)
(* logs of every length, and a load from 80% on and only from 79.9995% on, *)
(* however precisely it is told and whichever way a half is rounded.       *)
THEOREM FindingsAreTrue == Spec => []FindingsTellTheTruth
<1>1. ASSUME Inductive PROVE FindingsTellTheTruth
  <2> SUFFICES ASSUME stage = "done"
               PROVE  /\ findings = {} => Healthy
                      /\ Healthy /\ ~AlmostTooHigh => findings = {}
                      /\ TooManyFailures => "failure_rate" \in findings
                      /\ "failure_rate" \in findings => FailuresReach(5999)
                      /\ LoadReaches(loads.cpu, 160000) => "cpu_high" \in findings
                      /\ "cpu_high" \in findings => LoadReaches(loads.cpu, 159999)
                      /\ LoadReaches(loads.memory, 160000) => "memory_high" \in findings
                      /\ "memory_high" \in findings => LoadReaches(loads.memory, 159999)
    BY DEF FindingsTellTheTruth
  <2>1. /\ "failure_rate" \in findings <=> FailurePercent >= 3000
        /\ "cpu_high" \in findings <=> TooHigh(metrics.cpu)
        /\ "memory_high" \in findings <=> TooHigh(metrics.memory)
        /\ findings = {} <=> /\ ~(Mismatches > 0) /\ ~(FailurePercent >= 3000) /\ Total # 0
                             /\ ~High(metrics.cpu) /\ ~High(metrics.memory) /\ metrics.network
    BY <1>1 DEF Inductive, Found
  <2>2. /\ FailurePercent >= 3000 => FailuresReach(5999)
        /\ FailuresReach(6000) => FailurePercent >= 3000
    BY <1>1, FailureShare DEF Inductive
  <2>3. Total # 0 <=> Total > 0
    BY <1>1, FailureShare DEF Inductive
  <2>4. Mismatches > 0 <=> Contrary # {}
    BY <1>1, MismatchesAreContrary DEF Inductive
  <2>5. /\ loads.cpu \in Load \cup {Missing} /\ loads.memory \in Load \cup {Missing}
        /\ metrics.cpu = Told(loads.cpu) /\ metrics.memory = Told(loads.memory)
    BY <1>1 DEF Inductive, TypeOK, Measured
  <2>6. /\ metrics.cpu = Missing <=> loads.cpu = Missing
        /\ LoadReaches(loads.cpu, 160000) => TooHigh(metrics.cpu)
        /\ TooHigh(metrics.cpu) => LoadReaches(loads.cpu, 159999)
    BY <2>5, ToldLoad
  <2>7. /\ metrics.memory = Missing <=> loads.memory = Missing
        /\ LoadReaches(loads.memory, 160000) => TooHigh(metrics.memory)
        /\ TooHigh(metrics.memory) => LoadReaches(loads.memory, 159999)
    BY <2>5, ToldLoad
  <2>8. Healthy <=> /\ ~(Mismatches > 0) /\ ~FailuresReach(6000) /\ Total # 0
                    /\ loads.cpu # Missing /\ ~LoadReaches(loads.cpu, 160000)
                    /\ loads.memory # Missing /\ ~LoadReaches(loads.memory, 160000)
                    /\ metrics.network
    BY <2>3, <2>4 DEF Healthy, TooManyFailures, Loads
  <2>9. AlmostTooHigh <=> \/ FailuresReach(5999)
                          \/ LoadReaches(loads.cpu, 159999) \/ LoadReaches(loads.memory, 159999)
    BY DEF AlmostTooHigh, Loads
  <2>10. /\ High(metrics.cpu) <=> metrics.cpu = Missing \/ TooHigh(metrics.cpu)
         /\ High(metrics.memory) <=> metrics.memory = Missing \/ TooHigh(metrics.memory)
    BY DEF High
  <2> QED
    BY <2>1, <2>2, <2>6, <2>7, <2>8, <2>9, <2>10 DEF TooManyFailures
<1> QED
  BY <1>1, InductiveInvariant, PTL

(* An endpoint that was there for none of its tests is found out.          *)
THEOREM DownEndpointFound == Spec => []DownEndpointIsFound
<1>1. ASSUME Inductive PROVE DownEndpointIsFound
  <2> SUFFICES ASSUME stage = "done", NEW p \in Profiles,
                      \A i \in TestsOf(p) : encounters[i] \in {"nobody", "silent"}
               PROVE  /\ report.byProfile[p].success = 0 /\ report.byProfile[p].mismatch > 0
                      /\ "mismatch" \in findings
    BY DEF DownEndpointIsFound
  <2> DEFINE tests == TestsOf(p)
             good == {i \in tests : results[i].success}
             bad == {i \in tests : ~results[i].met}
  <2>1. /\ Len(results) = 6 /\ Len(encounters) = 6
        /\ \A i \in 1 .. 6 : /\ results[i].success <=> encounters[i] = "answered"
                             /\ results[i].met <=> results[i].success = Expected(i)
    BY <1>1 DEF Inductive, Judged
  <2>2. tests \in SUBSET (1 .. 6)
    BY SixTests DEF TestsOf
  <2>3. PICK i \in tests : Expected(i)
    BY SixTests
  <2>4. \A j \in tests : ~results[j].success
    BY <2>1, <2>2
  <2>5. ~results[i].met
    BY <2>1, <2>2, <2>3, <2>4, Zenon
  <2>6. report.byProfile[p].success = Cardinality(good)
        /\ report.byProfile[p].mismatch = Cardinality(bad)
    <3>1. report.byProfile[p] = Row(TestsOf(p))
      BY <1>1 DEF Inductive, Reported
    <3> QED
      BY <3>1 DEF Row
  <2>7. good = {} /\ bad \in SUBSET (1 .. 6) /\ bad # {}
    BY <2>2, <2>4, <2>5
  <2>8. "mismatch" \in findings
    <3>1. DOMAIN encounters = 1 .. 6
      BY <1>1, <2>1 DEF Inductive, TypeOK
    <3>2. i \in Contrary
      <4>1. i \in 1 .. 6 /\ encounters[i] # "answered" /\ Expected(i)
        BY <2>2, <2>3
      <4> QED
        BY <3>1, <4>1 DEF Contrary
    <3>3. Mismatches > 0
      BY <1>1, <3>2, MismatchesAreContrary DEF Inductive
    <3> QED
      BY <1>1, <3>3 DEF Inductive, Found
  <2> HIDE DEF good, bad, tests
  <2>9. Cardinality(good) = 0
    BY <2>7, FS_EmptySet
  <2>10. 6 \in Nat
    OBVIOUS
  <2>11. Cardinality(bad) > 0
    BY <2>7, <2>10, Cardinalities
  <2> QED
    BY <2>6, <2>8, <2>9, <2>11
<1> QED
  BY <1>1, InductiveInvariant, PTL
-----------------------------------------------------------------------------
(* The metrics of an instance (Algorithms.tla).                            *)

(* What is asked: a text, durations, or a state of CloudWatch, which       *)
(* advertises all dimension sets, in some order.                           *)
Asked ==
  /\ question.kind = "text" => question.text \in Upto(MaxText, Characters)
  /\ question.kind = "values" => question.values \in Upto(MaxValues, Values)
  /\ question.kind = "metrics" => /\ question.points \in SUBSET Datapoints
                                  /\ question.listed \in SetToSeqs(Dimensions)

(* An answer is what the code makes of the question that was asked.        *)
Answered ==
  /\ answer.kind = "text" => /\ question.kind = "text"
                             /\ answer.found = ExtractFirst(question.text, Objects)
  /\ answer.kind = "values" => /\ question.kind = "values"
                               /\ answer.stats \in Stats(question.values)
  /\ answer.kind = "metrics" =>
       /\ question.kind = "metrics"
       /\ answer.metrics = CollectCloudWatchMetrics(question.points, question.listed, Instance)

(* The inductive invariant of Algorithms.                                  *)
AnswersInductive == Asked /\ Answered

(* Every non-empty set of natural numbers has a least element.             *)
LEMMA LeastNatural ==
  ASSUME NEW T \in SUBSET Nat, T # {}
  PROVE  \E m \in T : \A k \in T : m <= k
<1> DEFINE R == OpToRel(<, Nat)
<1>1. \A x, y \in Nat : <<x, y>> \in R <=> x < y
  BY DEF OpToRel
<1>2. IsWellFoundedOn(R, Nat)
  BY NatLessThanWellFounded
<1> HIDE DEF R
<1>3. PICK m \in T : \A y \in T : <<y, m>> \notin R
  BY <1>2, WFMin
<1>4. ASSUME NEW k \in T PROVE m <= k
  <2>1. ~ k < m
    BY <1>1, <1>3
  <2> QED
    BY <2>1
<1> QED
  BY <1>4

(* And one with an upper bound has a greatest.                             *)
LEMMA GreatestNatural ==
  ASSUME NEW n \in Nat, NEW T \in SUBSET (0 .. n), T # {}
  PROVE  \E m \in T : \A k \in T : k <= m
<1> DEFINE Distances == {k \in Nat : n - k \in T}
<1>1. PICK t \in T : TRUE
  OBVIOUS
<1>2. n - t \in Nat /\ n - (n - t) = t
  BY <1>1
<1>3. n - t \in Distances
  BY <1>1, <1>2
<1>4. PICK d \in Distances : \A e \in Distances : d <= e
  <2>1. Distances \in SUBSET Nat /\ Distances # {}
    BY <1>3
  <2> HIDE DEF Distances
  <2> QED
    BY <2>1, LeastNatural
<1>5. d \in Nat /\ n - d \in T
  OBVIOUS
<1>6. ASSUME NEW k \in T PROVE k <= n - d
  <2>1. n - k \in Nat /\ n - (n - k) = k
    OBVIOUS
  <2>2. n - k \in Distances
    BY <2>1
  <2>3. d <= n - k
    BY <1>4, <2>2
  <2> QED
    BY <2>1, <2>3, <1>5
<1> QED
  BY <1>5, <1>6

-----------------------------------------------------------------------------
(* The order in which list_metrics advertises leaves no dimension set out. *)
LEMMA AllListed ==
  ASSUME NEW listed \in SetToSeqs(Dimensions), NEW dims \in Dimensions
  PROVE  \E i \in DOMAIN listed : listed[i] = dims
<1> DEFINE n == Cardinality(Dimensions)
<1>1. IsFiniteSet(Dimensions)
  BY DimensionsAssumption
<1>2. n \in Nat
  BY <1>1, FS_CardinalityType
<1>3. /\ listed \in [1 .. n -> Dimensions]
      /\ \A i, j \in 1 .. n : i # j => listed[i] # listed[j]
  BY DEF SetToSeqs
<1>4. Cardinality(1 .. n) = n
  <2> HIDE DEF n
  <2>1. Cardinality(1 .. n) = IF 1 > n THEN 0 ELSE n - 1 + 1
    BY <1>2, FS_Interval
  <2> QED
    BY <1>2, <2>1
<1> HIDE DEF n
<1>5. listed \in Injection(1 .. n, Dimensions)
  BY <1>3 DEF Injection, IsInjective
<1>6. listed \in Surjection(1 .. n, Dimensions)
  <2>1. Cardinality(1 .. n) = Cardinality(Dimensions) <=> listed \in Surjection(1 .. n, Dimensions)
    BY <1>1, <1>5, FS_Injection
  <2> QED
    BY <1>4, <2>1 DEF n
<1> QED
  BY <1>3, <1>6 DEF Surjection

(* The first of the places that serve.                                     *)
LEMMA FirstPlace ==
  ASSUME NEW n \in Nat, NEW S \in SUBSET (1 .. n), S # {}
  PROVE  Min(S) \in S
<1>1. PICK m \in S : \A k \in S : m <= k
  <2>1. S \in SUBSET Nat
    OBVIOUS
  <2> QED
    BY <2>1, LeastNatural
<1> QED
  BY <1>1 DEF Min

-----------------------------------------------------------------------------
(* One dimension set: the latest of its datapoints in the window.          *)

InWindow(points, dims) == {p \in points : p.dims = dims /\ p.at \in Start .. End}

LEMMA Latest ==
  ASSUME NEW points \in SUBSET Datapoints, NEW dims
  PROVE  /\ GetLatest(points, dims) \subseteq InWindow(points, dims)
         /\ Cardinality(GetLatest(points, dims)) <= 1
         /\ \A p \in GetLatest(points, dims), q \in InWindow(points, dims) : q.at <= p.at
         /\ GetLatest(points, dims) = {} <=> InWindow(points, dims) = {}
<1> DEFINE found == InWindow(points, dims)
           latest == GetLatest(points, dims)
<1>1. latest = {p \in found : \A q \in found : q.at <= p.at}
  BY DEF GetLatest, LatestDatapoint, GetMetricStatistics, InWindow
<1>2. \A p \in found : p \in Datapoints /\ p.dims = dims /\ p.at \in Start .. End
  BY DEF InWindow
<1>3. \A p \in Datapoints : p = [dims |-> p.dims, at |-> p.at]
  BY DEF Datapoints
<1> HIDE DEF found, latest
<1>4. \A p \in found : p.at \in 0 .. End
  BY <1>2, TimesAssumption
<1>5. \A p, q \in latest : p = q
  <2> SUFFICES ASSUME NEW p \in latest, NEW q \in latest PROVE p = q
    OBVIOUS
  <2>1. p \in found /\ q \in found /\ q.at <= p.at /\ p.at <= q.at
    BY <1>1
  <2>2. p.at = q.at /\ p.dims = q.dims
    BY <1>2, <1>4, <2>1
  <2> QED
    BY <1>2, <1>3, <2>1, <2>2
<1>6. Cardinality(latest) <= 1
  <2>1. CASE latest = {}
    BY <2>1, FS_EmptySet
  <2>2. CASE latest # {}
    <3>1. PICK p \in latest : TRUE
      BY <2>2
    <3>2. latest = {p}
      BY <1>5
    <3>3. Cardinality({p}) = 1
      BY FS_Singleton
    <3>4. Cardinality(latest) = 1
      BY <3>2, <3>3
    <3> QED
      BY <3>4
  <2> QED
    BY <2>1, <2>2
<1>7. ASSUME found # {} PROVE latest # {}
  <2> DEFINE ats == {p.at : p \in found}
  <2>1. ats \in SUBSET (0 .. End) /\ ats # {}
    BY <1>4, <1>7
  <2>2. PICK m \in ats : \A k \in ats : k <= m
    <3> HIDE DEF ats
    <3> QED
      BY <2>1, GreatestNatural, TimesAssumption
  <2>3. PICK p \in found : p.at = m
    OBVIOUS
  <2>4. \A q \in found : q.at <= p.at
    BY <2>2, <2>3
  <2> QED
    BY <1>1, <2>4
<1> QED
  BY <1>1, <1>6, <1>7 DEF found, latest

-----------------------------------------------------------------------------
(* What is collected is evidence, whatever CloudWatch holds and in which   *)
(* order it advertises.                                                    *)
LEMMA CollectedIsEvidence ==
  ASSUME NEW points \in SUBSET Datapoints, NEW listed \in SetToSeqs(Dimensions),
         question.points = points,
         answer.metrics = CollectCloudWatchMetrics(points, listed, Instance)
  PROVE  MetricIsEvidence
<1> DEFINE first == Primary(Instance)
           network == GetLatest(points, first)
           memory == GetLatestWithFallback(points, listed, Instance)
           serving == {i \in CandidateDimensions(listed, Instance) :
                         listed[i] # first /\ GetLatest(points, listed[i]) # {}}
           recent == {p \in points : p.dims.instance = Instance /\ p.at \in Start .. End}
           alone == {p \in recent : p.dims.extra = Alone}
           Evidence(found) ==
             /\ found \subseteq recent /\ Cardinality(found) <= 1
             /\ \A p \in found, q \in recent : q.dims = p.dims => q.at <= p.at
<1>1. answer.metrics.network = network /\ answer.metrics.memory = memory
  BY DEF CollectCloudWatchMetrics
<1>2. memory = IF network # {} \/ serving = {} THEN network
               ELSE GetLatest(points, listed[Min(serving)])
  BY DEF GetLatestWithFallback
<1>3. PICK n \in Nat : DOMAIN listed = 1 .. n /\ \A i \in 1 .. n : listed[i] \in Dimensions
  BY DimensionsAssumption, FS_CardinalityType DEF SetToSeqs
<1>4. first.instance = Instance /\ first.extra = Alone
  BY DEF Primary
<1>5. \A dims \in Dimensions : dims.instance = Instance /\ dims.extra = Alone => dims = first
  BY DimensionsAssumption DEF Primary
<1>6. \A p \in points : p.dims \in Dimensions
  BY DEF Datapoints
<1> HIDE DEF first
<1>7. ASSUME NEW dims, dims.instance = Instance
      PROVE  Evidence(GetLatest(points, dims))
  <2>1. /\ GetLatest(points, dims) \subseteq InWindow(points, dims)
        /\ Cardinality(GetLatest(points, dims)) <= 1
        /\ \A p \in GetLatest(points, dims), q \in InWindow(points, dims) : q.at <= p.at
    BY Latest
  <2>2. InWindow(points, dims) = {p \in recent : p.dims = dims}
    BY <1>7 DEF InWindow
  <2> HIDE DEF recent
  <2> QED
    BY <2>1, <2>2
<1>8. Evidence(network)
  BY <1>4, <1>7
<1>9. serving \in SUBSET (1 .. n)
      /\ \A i \in serving : listed[i].instance = Instance /\ GetLatest(points, listed[i]) # {}
  BY <1>3 DEF CandidateDimensions
<1>10. serving # {} => Min(serving) \in serving
  <2> HIDE DEF serving
  <2> QED
    BY <1>9, FirstPlace
<1> HIDE DEF memory, network
<1>11. Evidence(memory)
  <2> HIDE DEF serving
  <2>1. CASE network # {} \/ serving = {}
    <3>1. memory = network
      BY <1>2, <2>1
    <3> QED
      BY <1>8, <3>1
  <2>2. CASE ~(network # {} \/ serving = {})
    <3>1. memory = GetLatest(points, listed[Min(serving)])
      BY <1>2, <2>2
    <3>2. listed[Min(serving)].instance = Instance
      BY <1>9, <1>10, <2>2
    <3>3. Evidence(GetLatest(points, listed[Min(serving)]))
      BY <1>7, <3>2
    <3> QED
      BY <3>1, <3>3
  <2> QED
    BY <2>1, <2>2
<1>12. memory = {} => recent = {}
  <2> SUFFICES ASSUME memory = {}, NEW p \in recent PROVE FALSE
    OBVIOUS
  <2>1. network = {} /\ serving = {}
    <3> HIDE DEF serving, recent
    <3> QED
      BY <1>2, <1>9, <1>10
  <2>2. p \in points /\ p.dims \in Dimensions /\ p.dims.instance = Instance
        /\ p.at \in Start .. End
    BY <1>6
  <2>3. p \in InWindow(points, p.dims)
    BY <2>2 DEF InWindow
  <2>4. GetLatest(points, p.dims) # {}
    BY <2>3, Latest
  <2>5. p.dims # first
    BY <2>1, <2>4 DEF network
  <2>6. PICK i \in DOMAIN listed : listed[i] = p.dims
    BY <2>2, AllListed
  <2>7. i \in serving
    BY <2>2, <2>4, <2>5, <2>6 DEF CandidateDimensions
  <2> QED
    BY <2>1, <2>7
<1>13. recent = {} => memory = {}
  <2> HIDE DEF recent
  <2> QED
    BY <1>11
<1>14. alone # {} => memory = network
  <2> SUFFICES ASSUME NEW p \in alone PROVE memory = network
    OBVIOUS
  <2>1. p \in points /\ p.at \in Start .. End /\ p.dims = first
    BY <1>5, <1>6
  <2>2. p \in InWindow(points, first)
    BY <2>1 DEF InWindow
  <2>3. network # {}
    BY <2>2, Latest DEF network
  <2> QED
    BY <1>2, <2>3
<1> HIDE DEF serving
<1> QED
  BY <1>1, <1>8, <1>11, <1>12, <1>13, <1>14 DEF MetricIsEvidence

-----------------------------------------------------------------------------
(* The statistics of a list of values (Utils.tla), of whatever length.     *)

(* The places of the values that are not above v, or below it.             *)
NotAbove(values, v) == {j \in DOMAIN values : values[j] <= v}
Under(values, v) == {j \in DOMAIN values : values[j] < v}

(* The places in a list of n values.                                       *)
LEMMA Places ==
  ASSUME NEW n \in Nat
  PROVE  /\ IsFiniteSet(1 .. n) /\ Cardinality(1 .. n) = n
         /\ \A S \in SUBSET (1 .. n) :
              /\ IsFiniteSet(S) /\ Cardinality(S) \in Nat /\ Cardinality(S) <= n
              /\ Cardinality(S) = n => S = 1 .. n
              /\ \A R \in SUBSET S : /\ Cardinality(R) <= Cardinality(S)
                                     /\ Cardinality(R) = Cardinality(S) => R = S
<1>1. IsFiniteSet(1 .. n) /\ Cardinality(1 .. n) = n
  <2>1. Cardinality(1 .. n) = IF 1 > n THEN 0 ELSE n - 1 + 1
    BY FS_Interval
  <2>2. IsFiniteSet(1 .. n)
    BY FS_Interval
  <2> QED
    BY <2>1, <2>2
<1>2. ASSUME NEW S \in SUBSET (1 .. n)
      PROVE  /\ IsFiniteSet(S) /\ Cardinality(S) \in Nat /\ Cardinality(S) <= n
             /\ Cardinality(S) = n => S = 1 .. n
             /\ \A R \in SUBSET S : /\ Cardinality(R) <= Cardinality(S)
                                    /\ Cardinality(R) = Cardinality(S) => R = S
  <2>1. /\ IsFiniteSet(S) /\ Cardinality(S) <= n /\ (n = Cardinality(S) => 1 .. n = S)
    BY <1>1, FS_Subset
  <2>2. Cardinality(S) \in Nat
    BY <2>1, FS_CardinalityType
  <2>3. ASSUME NEW R \in SUBSET S
        PROVE  Cardinality(R) <= Cardinality(S) /\ (Cardinality(S) = Cardinality(R) => S = R)
    BY <2>1, FS_Subset
  <2> QED
    BY <2>1, <2>2, <2>3
<1> QED
  BY <1>1, <1>2

LEMMA Counted ==
  ASSUME NEW n \in Nat, NEW values \in [1 .. n -> Nat], NEW v
  PROVE  /\ NotAbove(values, v) \in SUBSET (1 .. n) /\ Under(values, v) \in SUBSET (1 .. n)
         /\ Cardinality(NotAbove(values, v)) \in Nat /\ Cardinality(Under(values, v)) \in Nat
<1>1. NotAbove(values, v) \in SUBSET (1 .. n) /\ Under(values, v) \in SUBSET (1 .. n)
  BY DEF NotAbove, Under
<1> QED
  BY <1>1, Places

(* Of one or more values, one is above none.                               *)
LEMMA GreatestValue ==
  ASSUME NEW n \in Nat \ {0}, NEW values \in [1 .. n -> Nat]
  PROVE  \E j \in 1 .. n : NotAbove(values, values[j]) = 1 .. n
<1> DEFINE counts == {Cardinality(NotAbove(values, values[j])) : j \in 1 .. n}
<1>1. /\ \A j \in 1 .. n : NotAbove(values, values[j]) \in SUBSET (1 .. n)
      /\ \A j \in 1 .. n : Cardinality(NotAbove(values, values[j])) \in 0 .. n
  <2>1. ASSUME NEW j \in 1 .. n
        PROVE  /\ NotAbove(values, values[j]) \in SUBSET (1 .. n)
               /\ Cardinality(NotAbove(values, values[j])) \in 0 .. n
    <3>1. NotAbove(values, values[j]) \in SUBSET (1 .. n)
      BY Counted
    <3>2. /\ Cardinality(NotAbove(values, values[j])) \in Nat
          /\ Cardinality(NotAbove(values, values[j])) <= n
      BY <3>1, Places
    <3> QED
      BY <3>1, <3>2
  <2> QED
    BY <2>1
<1>2. counts \in SUBSET (0 .. n) /\ counts # {}
  <2>1. 1 \in 1 .. n
    OBVIOUS
  <2> QED
    BY <1>1, <2>1
<1>3. PICK m \in counts : \A k \in counts : k <= m
  <2> HIDE DEF counts
  <2> QED
    BY <1>2, GreatestNatural
<1>4. PICK j \in 1 .. n : m = Cardinality(NotAbove(values, values[j]))
  OBVIOUS
<1>5. ASSUME NEW k \in 1 .. n PROVE k \in NotAbove(values, values[j])
  <2> SUFFICES ASSUME values[j] < values[k] PROVE FALSE
    BY DEF NotAbove
  <2>1. /\ NotAbove(values, values[j]) \in SUBSET NotAbove(values, values[k])
        /\ k \in NotAbove(values, values[k]) /\ k \notin NotAbove(values, values[j])
    BY DEF NotAbove
  <2>2. /\ Cardinality(NotAbove(values, values[j])) <= Cardinality(NotAbove(values, values[k]))
        /\ Cardinality(NotAbove(values, values[j])) # Cardinality(NotAbove(values, values[k]))
    BY <1>1, <2>1, Places
  <2>3. Cardinality(NotAbove(values, values[k])) <= m
    BY <1>3
  <2> QED
    BY <1>1, <1>4, <2>2, <2>3
<1>6. 1 .. n \subseteq NotAbove(values, values[j])
  BY <1>5
<1> QED
  BY <1>1, <1>6

(* There is an i-th value.                                                 *)
LEMMA Ranked ==
  ASSUME NEW n \in Nat, NEW values \in [1 .. n -> Nat], NEW i \in 1 .. n
  PROVE  \E v \in Range(values) : /\ Cardinality(Under(values, v)) < i
                                  /\ Cardinality(NotAbove(values, v)) >= i
<1> DEFINE V == Range(values)
           Enough == {v \in V : Cardinality(NotAbove(values, v)) >= i}
<1>1. /\ V \in SUBSET Nat /\ \A v \in V : \E j \in 1 .. n : values[j] = v
      /\ \A j \in 1 .. n : values[j] \in V
  BY DEF Range
<1> HIDE DEF V
<1>2. Enough # {}
  <2>1. n \in Nat \ {0}
    OBVIOUS
  <2>2. PICK j \in 1 .. n : NotAbove(values, values[j]) = 1 .. n
    BY <2>1, GreatestValue
  <2>3. Cardinality(NotAbove(values, values[j])) >= i
    BY <2>2, Places
  <2> QED
    BY <1>1, <2>3
<1>3. PICK least \in Enough : \A v \in Enough : least <= v
  <2>1. Enough \in SUBSET Nat
    BY <1>1
  <2> HIDE DEF Enough
  <2> QED
    BY <1>2, <2>1, LeastNatural
<1>4. least \in V /\ least \in Nat /\ Cardinality(NotAbove(values, least)) >= i
  BY <1>1
<1>5. Cardinality(Under(values, least)) < i
  <2> SUFFICES ASSUME Cardinality(Under(values, least)) >= i PROVE FALSE
    BY Counted
  <2>1. Under(values, least) # {}
    BY FS_EmptySet
  <2> DEFINE lower == {values[j] : j \in Under(values, least)}
  <2>2. lower \in SUBSET (0 .. least) /\ lower # {}
    BY <1>4, <2>1 DEF Under
  <2>3. PICK u \in lower : \A w \in lower : w <= u
    <3> HIDE DEF lower
    <3> QED
      BY <1>4, <2>2, GreatestNatural
  <2>4. PICK k \in Under(values, least) : u = values[k]
    OBVIOUS
  <2>5. u \in V /\ u \in Nat /\ u < least
    BY <1>1, <2>4 DEF Under
  <2>6. NotAbove(values, u) = Under(values, least)
    BY <1>4, <2>3, <2>5 DEF NotAbove, Under
  <2>7. u \in Enough
    BY <2>5, <2>6
  <2> QED
    BY <1>3, <1>4, <2>5, <2>7
<1> QED
  BY <1>4, <1>5 DEF V

(* The values in their order.                                              *)
LEMMA InOrder ==
  ASSUME NEW n \in Nat, NEW values \in [1 .. n -> Nat]
  PROVE  /\ Ascending(values) \in [1 .. n -> Nat]
         /\ \A i \in 1 .. n : /\ Cardinality(Under(values, Ascending(values)[i])) < i
                              /\ Cardinality(NotAbove(values, Ascending(values)[i])) >= i
         /\ \A i, j \in 1 .. n : i <= j => Ascending(values)[i] <= Ascending(values)[j]
<1> DEFINE sorted == Ascending(values)
           Fits(i, v) == /\ Cardinality(Under(values, v)) < i
                         /\ Cardinality(NotAbove(values, v)) >= i
<1>1. sorted = [i \in 1 .. n |-> CHOOSE v \in Range(values) : Fits(i, v)]
  BY DEF Ascending, Under, NotAbove
<1>2. Range(values) \in SUBSET Nat
  BY DEF Range
<1>3. ASSUME NEW i \in 1 .. n PROVE sorted[i] \in Nat /\ Fits(i, sorted[i])
  <2>1. sorted[i] = CHOOSE v \in Range(values) : Fits(i, v)
    BY <1>1
  <2>2. \E v \in Range(values) : Fits(i, v)
    BY Ranked
  <2> HIDE DEF Fits, sorted
  <2> QED
    BY <1>2, <2>1, <2>2
<1>4. sorted \in [1 .. n -> Nat]
  <2> HIDE DEF Fits
  <2>1. sorted = [i \in 1 .. n |-> sorted[i]]
    BY <1>1
  <2> HIDE DEF sorted
  <2> QED
    BY <1>3, <2>1
<1> HIDE DEF sorted
<1>5. ASSUME NEW i \in 1 .. n, NEW j \in 1 .. n, i <= j PROVE sorted[i] <= sorted[j]
  <2> SUFFICES ASSUME sorted[j] < sorted[i] PROVE FALSE
    BY <1>3
  <2>1. NotAbove(values, sorted[j]) \in SUBSET Under(values, sorted[i])
    <3>1. sorted[i] \in Nat /\ sorted[j] \in Nat
      BY <1>3
    <3>2. \A k \in DOMAIN values : values[k] \in Nat
      OBVIOUS
    <3>3. \A k \in DOMAIN values : values[k] <= sorted[j] => values[k] < sorted[i]
      BY <3>1, <3>2
    <3> QED
      BY <3>3, Zenon DEF NotAbove, Under
  <2>2. Cardinality(NotAbove(values, sorted[j])) <= Cardinality(Under(values, sorted[i]))
    BY <2>1, Counted, Places
  <2>3. /\ Cardinality(NotAbove(values, sorted[j])) \in Nat
        /\ Cardinality(Under(values, sorted[i])) \in Nat
    BY Counted
  <2>4. Cardinality(NotAbove(values, sorted[j])) >= j /\ Cardinality(Under(values, sorted[i])) < i
    BY <1>3
  <2> QED
    BY <1>5, <2>2, <2>3, <2>4
<1> QED
  BY <1>3, <1>4, <1>5 DEF sorted

-----------------------------------------------------------------------------
(* A percentile is between two neighbours.                                 *)
LEMMA ShareOf ==
  ASSUME NEW d \in Nat, NEW r \in 0 .. 99
  PROVE  /\ d * r \in Nat /\ d * r <= 100 * d /\ d * 0 = 0
         /\ \A t \in r .. 99 : d * r <= d * t
<1>1. d * r \in Nat
  OBVIOUS
<1>2. ASSUME NEW a \in Nat, NEW b \in Nat, a <= b PROVE d * a <= d * b
  <2>1. b - a \in Nat /\ d * (b - a) \in Nat
    BY <1>2
  <2>2. d * b = d * a + d * (b - a)
    BY <2>1
  <2>3. d * a \in Nat /\ d * b \in Nat
    OBVIOUS
  <2> QED
    BY <2>1, <2>2, <2>3
<1>3. d * 100 = 100 * d /\ d * 0 = 0
  OBVIOUS
<1> QED
  BY <1>1, <1>2, <1>3

(* The places of the neighbours.                                           *)
Lower(n, p) == Rank(n, p) \div 100 + 1
Upper(n, p) == (Rank(n, p) + 99) \div 100 + 1

LEMMA Ranks ==
  ASSUME NEW n \in Nat \ {0}, NEW p \in 0 .. 100
  PROVE  /\ Rank(n, p) \in Nat /\ Rank(n, p) = (n - 1) * p
         /\ Lower(n, p) \in 1 .. n /\ Upper(n, p) \in 1 .. n
         /\ Rank(n, p) % 100 \in 0 .. 99
         /\ Rank(n, p) = 100 * (Lower(n, p) - 1) + (Rank(n, p) % 100)
         /\ Upper(n, p) = IF Rank(n, p) % 100 = 0 THEN Lower(n, p) ELSE Lower(n, p) + 1
<1> DEFINE k == (n - 1) * p
           q == k \div 100
           r == k % 100
<1>1. k \in Nat /\ k <= 100 * (n - 1)
  <2>1. n - 1 \in Nat /\ p \in Nat /\ 100 - p \in Nat
    OBVIOUS
  <2> DEFINE m == n - 1
  <2> HIDE DEF m
  <2>2. m \in Nat
    BY <2>1 DEF m
  <2>3. m * p \in Nat /\ m * (100 - p) \in Nat
    BY <2>1, <2>2
  <2>4. m * 100 = m * p + m * (100 - p)
    BY <2>1, <2>2
  <2>5. m * p <= 100 * m
    BY <2>2, <2>3, <2>4
  <2> QED
    BY <2>3, <2>5 DEF m
<1>2. Rank(n, p) = k
  BY DEF Rank
<1> HIDE DEF k
<1>3. /\ q \in Nat /\ r \in 0 .. 99 /\ k = 100 * q + r
  BY <1>1
<1>4. (k + 99) \div 100 = IF r = 0 THEN q ELSE q + 1
  BY <1>1
<1>5. Lower(n, p) = q + 1 /\ Upper(n, p) = IF r = 0 THEN q + 1 ELSE q + 2
  BY <1>2, <1>3, <1>4 DEF Lower, Upper
<1>6. q <= n - 1 /\ (r # 0 => q + 1 <= n - 1)
  BY <1>1, <1>3
<1> HIDE DEF q, r
<1> QED
  BY <1>1, <1>2, <1>3, <1>5, <1>6 DEF k, r

(* What is taken for sorted: a list that ascends.                          *)
Ascends(sorted, n) ==
  /\ sorted \in [1 .. n -> Nat]
  /\ \A i, j \in 1 .. n : i <= j => sorted[i] <= sorted[j]

LEMMA Interpolated ==
  ASSUME NEW n \in Nat \ {0}, NEW p \in 0 .. 100, NEW sorted, Ascends(sorted, n)
  PROVE  /\ Interpolation(sorted, p) =
              100 * sorted[Lower(n, p)]
                + (sorted[Upper(n, p)] - sorted[Lower(n, p)]) * (Rank(n, p) % 100)
         /\ Interpolation(sorted, p) \in Nat
         /\ 100 * sorted[Lower(n, p)] <= Interpolation(sorted, p)
         /\ Interpolation(sorted, p) <= 100 * sorted[Upper(n, p)]
<1> DEFINE lo == Lower(n, p)
           hi == Upper(n, p)
           r == Rank(n, p) % 100
           a == sorted[lo]
           b == sorted[hi]
<1>1. Len(sorted) = n
  <2>1. sorted \in Seq(Nat) /\ DOMAIN sorted = 1 .. n
    BY SeqDef DEF Ascends
  <2>2. Len(sorted) \in Nat /\ DOMAIN sorted = 1 .. Len(sorted)
    BY <2>1, LenProperties
  <2> QED
    BY <2>1, <2>2
<1>2. Interpolation(sorted, p) = 100 * a + (b - a) * r
  BY <1>1 DEF Interpolation, Lower, Upper
<1>3. lo \in 1 .. n /\ hi \in 1 .. n /\ lo <= hi /\ r \in 0 .. 99
  <2>1. /\ lo \in 1 .. n /\ hi \in 1 .. n /\ r \in 0 .. 99
        /\ hi = IF r = 0 THEN lo ELSE lo + 1
    BY Ranks
  <2> HIDE DEF lo, hi, r
  <2> QED
    BY <2>1
<1>4. a \in Nat /\ b \in Nat /\ a <= b
  BY <1>3 DEF Ascends
<1> HIDE DEF a, b, r, lo, hi
<1>5. b - a \in Nat
  BY <1>4
<1>6. (b - a) * r \in Nat /\ (b - a) * r <= 100 * (b - a)
  BY <1>3, <1>5, ShareOf
<1>7. /\ 100 * a + (b - a) * r \in Nat /\ 100 * a <= 100 * a + (b - a) * r
      /\ 100 * a + (b - a) * r <= 100 * b
  BY <1>4, <1>6
<1> QED
  BY <1>2, <1>7 DEF a, b, r, lo, hi

(* Interpolations are in order.                                            *)
LEMMA InterpolationsAscend ==
  ASSUME NEW n \in Nat \ {0}, NEW sorted, Ascends(sorted, n)
  PROVE  /\ 100 * sorted[1] <= Interpolation(sorted, 50)
         /\ Interpolation(sorted, 50) <= Interpolation(sorted, 95)
         /\ Interpolation(sorted, 95) <= 100 * sorted[n]
<1> DEFINE k50 == Rank(n, 50)
           k95 == Rank(n, 95)
<1>1. k50 <= k95
  BY DEF Rank
<1>2. /\ Lower(n, 50) \in 1 .. n /\ Upper(n, 50) \in 1 .. n /\ k50 % 100 \in 0 .. 99
      /\ k50 = 100 * (Lower(n, 50) - 1) + (k50 % 100)
      /\ Upper(n, 50) = IF k50 % 100 = 0 THEN Lower(n, 50) ELSE Lower(n, 50) + 1
  BY Ranks
<1>3. /\ Lower(n, 95) \in 1 .. n /\ Upper(n, 95) \in 1 .. n /\ k95 % 100 \in 0 .. 99
      /\ k95 = 100 * (Lower(n, 95) - 1) + (k95 % 100)
      /\ Upper(n, 95) = IF k95 % 100 = 0 THEN Lower(n, 95) ELSE Lower(n, 95) + 1
  BY Ranks
<1>4. /\ Interpolation(sorted, 50) = 100 * sorted[Lower(n, 50)]
            + (sorted[Upper(n, 50)] - sorted[Lower(n, 50)]) * (k50 % 100)
      /\ Interpolation(sorted, 50) \in Nat /\ 100 * sorted[Lower(n, 50)] <= Interpolation(sorted, 50)
      /\ Interpolation(sorted, 50) <= 100 * sorted[Upper(n, 50)]
  BY Interpolated
<1>5. /\ Interpolation(sorted, 95) = 100 * sorted[Lower(n, 95)]
            + (sorted[Upper(n, 95)] - sorted[Lower(n, 95)]) * (k95 % 100)
      /\ Interpolation(sorted, 95) \in Nat /\ 100 * sorted[Lower(n, 95)] <= Interpolation(sorted, 95)
      /\ Interpolation(sorted, 95) <= 100 * sorted[Upper(n, 95)]
  BY Interpolated
<1>6. /\ \A i \in 1 .. n : sorted[i] \in Nat
      /\ \A i, j \in 1 .. n : i <= j => sorted[i] <= sorted[j]
      /\ 1 \in 1 .. n /\ n \in 1 .. n
  BY DEF Ascends
<1> DEFINE lo == Lower(n, 50)
           hi == Upper(n, 50)
           lo95 == Lower(n, 95)
           hi95 == Upper(n, 95)
           r50 == k50 % 100
           r95 == k95 % 100
           p50 == Interpolation(sorted, 50)
           p95 == Interpolation(sorted, 95)
<1> HIDE DEF k50, k95, lo, hi, lo95, hi95, r50, r95, p50, p95
<1>7. 100 * sorted[1] <= p50
  <2>1. lo \in 1 .. n /\ 1 <= lo /\ p50 \in Nat /\ 100 * sorted[lo] <= p50
    BY <1>2, <1>4 DEF lo, p50
  <2>2. sorted[1] <= sorted[lo] /\ sorted[1] \in Nat /\ sorted[lo] \in Nat
    BY <1>6, <2>1
  <2> QED
    BY <2>1, <2>2
<1>8. p95 <= 100 * sorted[n]
  <2>1. hi95 \in 1 .. n /\ hi95 <= n /\ p95 \in Nat /\ p95 <= 100 * sorted[hi95]
    BY <1>3, <1>5 DEF hi95, p95
  <2>2. sorted[hi95] <= sorted[n] /\ sorted[n] \in Nat /\ sorted[hi95] \in Nat
    BY <1>6, <2>1
  <2> QED
    BY <2>1, <2>2
<1>9. /\ lo \in 1 .. n /\ hi \in 1 .. n /\ r50 \in 0 .. 99 /\ k50 = 100 * (lo - 1) + r50
      /\ hi = IF r50 = 0 THEN lo ELSE lo + 1
      /\ lo95 \in 1 .. n /\ hi95 \in 1 .. n /\ r95 \in 0 .. 99 /\ k95 = 100 * (lo95 - 1) + r95
      /\ hi95 = IF r95 = 0 THEN lo95 ELSE lo95 + 1
  BY <1>2, <1>3 DEF lo, hi, lo95, hi95, r50, r95
<1>10. p50 <= p95
  <2>1. CASE hi <= lo95
    <3>1. sorted[hi] <= sorted[lo95] /\ sorted[hi] \in Nat /\ sorted[lo95] \in Nat
      BY <1>6, <1>9, <2>1
    <3>2. /\ p50 \in Nat /\ p50 <= 100 * sorted[hi]
          /\ p95 \in Nat /\ 100 * sorted[lo95] <= p95
      BY <1>4, <1>5 DEF p50, p95, hi, lo95
    <3> QED
      BY <3>1, <3>2
  <2>2. CASE hi > lo95
    <3>1. lo = lo95 /\ hi = hi95 /\ r95 \in r50 .. 99
      BY <1>1, <1>9, <2>2
    <3>2. p50 = 100 * sorted[lo] + (sorted[hi] - sorted[lo]) * r50
      BY <1>4 DEF p50, lo, hi, r50
    <3>3. p95 = 100 * sorted[lo] + (sorted[hi] - sorted[lo]) * r95
      BY <1>5, <3>1 DEF p95, lo95, hi95, r95
    <3>4. /\ sorted[lo] \in Nat /\ sorted[hi] \in Nat /\ sorted[lo] <= sorted[hi]
      BY <1>6, <1>9
    <3> DEFINE d == sorted[hi] - sorted[lo]
    <3>5. d \in Nat
      BY <3>4
    <3> HIDE DEF d
    <3>6. d * r50 <= d * r95 /\ d * r50 \in Nat /\ d * r95 \in Nat
      BY <1>9, <3>1, <3>5, ShareOf
    <3>7. p50 = 100 * sorted[lo] + d * r50 /\ p95 = 100 * sorted[lo] + d * r95
      BY <3>2, <3>3 DEF d
    <3> QED
      BY <3>4, <3>6, <3>7
  <2> QED
    BY <1>9, <2>1, <2>2
<1> QED
  BY <1>7, <1>8, <1>10 DEF p50, p95

-----------------------------------------------------------------------------
(* The sum of the values.                                                  *)

(* A set of naturals with 0 and, with each number, its successor, has all  *)
(* of them.                                                                *)
LEMMA SetInduction ==
  ASSUME NEW T \in SUBSET Nat, 0 \in T, \A n \in T : n + 1 \in T
  PROVE  T = Nat
<1> SUFFICES ASSUME Nat \ T # {} PROVE FALSE
  OBVIOUS
<1>1. PICK m \in Nat \ T : \A k \in Nat \ T : m <= k
  BY LeastNatural
<1>2. m - 1 \in Nat /\ ~(m <= m - 1) /\ m - 1 + 1 = m
  BY <1>1
<1> QED
  BY <1>1, <1>2

Chosen(s) == CHOOSE x \in s : TRUE

(* What FoldSeq chooses: a function that solves this equation.             *)
SumOver(h, values, s) == IF s = {} THEN 0 ELSE values[Chosen(s)] + h[s \ {Chosen(s)}]
Sums(h, values, S) == h = [s \in SUBSET S |-> SumOver(h, values, s)]

(* The library's fold, expanded.                                           *)
LEMMA FoldSums ==
  ASSUME NEW values
  PROVE  FoldSeq(+, 0, values) = (CHOOSE h : Sums(h, values, DOMAIN values))[DOMAIN values]
BY DEF FoldSeq, FoldFunction, FoldFunctionOnSet, MapThenFoldSet, Sums, SumOver, Chosen

(* One place fewer.                                                        *)
LEMMA WithoutChosen ==
  ASSUME NEW n \in Nat, NEW s \in SUBSET (1 .. n), s # {}
  PROVE  /\ Chosen(s) \in 1 .. n /\ s \ {Chosen(s)} \in SUBSET (1 .. n)
         /\ Cardinality(s) \in Nat \ {0}
         /\ Cardinality(s \ {Chosen(s)}) = Cardinality(s) - 1
<1>1. Chosen(s) \in s
  BY DEF Chosen
<1>2. IsFiniteSet(s) /\ Cardinality(s) \in Nat
  BY Places
<1>3. Cardinality(s \ {Chosen(s)}) = Cardinality(s) - 1
  BY <1>1, <1>2, FS_RemoveElement
<1>4. Cardinality(s) # 0
  BY <1>2, FS_EmptySet
<1> QED
  BY <1>1, <1>2, <1>3, <1>4

LEMMA NoPlaces ==
  ASSUME NEW n \in Nat, NEW s \in SUBSET (1 .. n), Cardinality(s) <= 0
  PROVE  s = {}
<1> SUFFICES ASSUME s # {} PROVE FALSE
  OBVIOUS
<1>1. Cardinality(s) \in Nat \ {0}
  BY WithoutChosen
<1> QED
  BY <1>1

(* There is one, whatever the order in which the places are chosen.        *)
LEMMA SumsExist ==
  ASSUME NEW n \in Nat, NEW values
  PROVE  \E h : Sums(h, values, 1 .. n)
<1> DEFINE Below(h, m) == \A s \in SUBSET (1 .. n) :
                            Cardinality(s) <= m => h[s] = SumOver(h, values, s)
           T == {m \in Nat : \E h : Below(h, m)}
<1>1. 0 \in T
  <2> DEFINE h == [s \in SUBSET (1 .. n) |-> 0]
  <2>1. ASSUME NEW s \in SUBSET (1 .. n), Cardinality(s) <= 0
        PROVE  h[s] = SumOver(h, values, s)
    <3>1. s = {}
      BY <2>1, NoPlaces
    <3> QED
      BY <3>1 DEF SumOver
  <2>2. Below(h, 0)
    BY <2>1
  <2> QED
    BY <2>2
<1>2. ASSUME NEW m \in T PROVE m + 1 \in T
  <2>1. PICK h : Below(h, m)
    BY <1>2
  <2>2. m \in Nat
    BY <1>2
  <2> DEFINE more == [s \in SUBSET (1 .. n) |-> SumOver(h, values, s)]
  <2>3. ASSUME NEW s \in SUBSET (1 .. n), Cardinality(s) <= m PROVE more[s] = h[s]
    BY <2>1, <2>3
  <2>4. ASSUME NEW s \in SUBSET (1 .. n), Cardinality(s) <= m + 1
        PROVE  more[s] = SumOver(more, values, s)
    <3>1. more[s] = SumOver(h, values, s)
      OBVIOUS
    <3>2. CASE s = {}
      BY <3>1, <3>2 DEF SumOver
    <3>3. CASE s # {}
      <4> DEFINE t == s \ {Chosen(s)}
      <4>1. t \in SUBSET (1 .. n) /\ Cardinality(t) <= m
        BY <2>2, <2>4, <3>3, WithoutChosen
      <4>2. more[t] = h[t]
        BY <2>3, <4>1
      <4> HIDE DEF more
      <4> QED
        BY <3>1, <3>3, <4>2 DEF SumOver
    <3> QED
      BY <3>2, <3>3
  <2>5. Below(more, m + 1)
    <3> HIDE DEF more
    <3> QED
      BY <2>4
  <2> HIDE DEF Below, more
  <2> QED
    BY <2>2, <2>5
<1>3. n \in T
  <2>1. T \in SUBSET Nat
    OBVIOUS
  <2> HIDE DEF T
  <2> QED
    BY <1>1, <1>2, <2>1, SetInduction
<1>4. PICK h : Below(h, n)
  BY <1>3
<1> DEFINE sums == [s \in SUBSET (1 .. n) |-> h[s]]
<1>5. ASSUME NEW s \in SUBSET (1 .. n) PROVE sums[s] = SumOver(sums, values, s)
  <2>1. Cardinality(s) <= n
    BY Places
  <2>2. sums[s] = SumOver(h, values, s)
    BY <1>4, <2>1
  <2>3. s # {} => s \ {Chosen(s)} \in SUBSET (1 .. n)
    OBVIOUS
  <2> QED
    BY <2>2, <2>3 DEF SumOver
<1>6. sums = [s \in SUBSET (1 .. n) |-> sums[s]]
  OBVIOUS
<1> HIDE DEF sums
<1>7. Sums(sums, values, 1 .. n)
  BY <1>5, <1>6 DEF Sums
<1> QED
  BY <1>7

(* The sum of n values is between n times the least and n times the        *)
(* greatest.                                                               *)
LEMMA SumIsBetween ==
  ASSUME NEW n \in Nat, NEW values \in [1 .. n -> Nat], NEW least \in Nat, NEW most \in Nat,
         \A j \in 1 .. n : least <= values[j] /\ values[j] <= most
  PROVE  /\ FoldSeq(+, 0, values) \in Nat
         /\ n * least <= FoldSeq(+, 0, values) /\ FoldSeq(+, 0, values) <= n * most
<1> DEFINE h == CHOOSE f : Sums(f, values, 1 .. n)
<1>1. Sums(h, values, 1 .. n)
  BY SumsExist
<1>2. FoldSeq(+, 0, values) = h[1 .. n]
  BY FoldSums
<1> HIDE DEF h
<1>3. \A s \in SUBSET (1 .. n) : h[s] = SumOver(h, values, s)
  BY <1>1 DEF Sums
<1> DEFINE Good(m) == \A s \in SUBSET (1 .. n) : Cardinality(s) = m =>
                        h[s] \in Nat /\ m * least <= h[s] /\ h[s] <= m * most
           T == {m \in Nat : Good(m)}
<1>4. 0 \in T
  <2>1. ASSUME NEW s \in SUBSET (1 .. n), Cardinality(s) = 0
        PROVE  h[s] = 0
    <3>1. s = {}
      <4> HIDE DEF Good, T
      <4>1. Cardinality(s) <= 0
        BY <2>1
      <4> QED
        BY <4>1, NoPlaces
    <3> QED
      BY <1>3, <3>1 DEF SumOver
  <2>2. 0 * least = 0 /\ 0 * most = 0
    OBVIOUS
  <2> QED
    BY <2>1, <2>2
<1>5. ASSUME NEW m \in T PROVE m + 1 \in T
  <2>1. m \in Nat /\ Good(m)
    BY <1>5
  <2>2. ASSUME NEW s \in SUBSET (1 .. n), Cardinality(s) = m + 1
        PROVE  h[s] \in Nat /\ (m + 1) * least <= h[s] /\ h[s] <= (m + 1) * most
    <3> DEFINE x == Chosen(s)
               t == s \ {Chosen(s)}
    <3>1. s # {}
      <4> HIDE DEF Good, T
      <4>1. Cardinality(s) # 0
        BY <2>1, <2>2
      <4> QED
        BY <4>1, FS_EmptySet
    <3>2. x \in 1 .. n /\ t \in SUBSET (1 .. n) /\ Cardinality(t) = m
      <4> HIDE DEF Good, T
      <4>1. /\ Chosen(s) \in 1 .. n /\ s \ {Chosen(s)} \in SUBSET (1 .. n)
            /\ Cardinality(s \ {Chosen(s)}) = Cardinality(s) - 1
        BY <3>1, WithoutChosen
      <4> QED
        BY <2>1, <2>2, <4>1
    <3>3. h[s] = values[x] + h[t]
      BY <1>3, <3>1 DEF SumOver
    <3>4. h[t] \in Nat /\ m * least <= h[t] /\ h[t] <= m * most
      BY <2>1, <3>2
    <3>5. values[x] \in Nat /\ least <= values[x] /\ values[x] <= most
      BY <3>2
    <3> HIDE DEF x, t, Good, T
    <3>6. (m + 1) * least = m * least + least /\ (m + 1) * most = m * most + most
      BY <2>1
    <3>7. m * least \in Nat /\ m * most \in Nat
      BY <2>1
    <3> QED
      BY <3>3, <3>4, <3>5, <3>6, <3>7
  <2>3. Good(m + 1)
    BY <2>2
  <2> HIDE DEF Good
  <2> QED
    BY <2>1, <2>3
<1>6. n \in T
  <2>1. T \in SUBSET Nat
    OBVIOUS
  <2> HIDE DEF T
  <2> QED
    BY <1>4, <1>5, <2>1, SetInduction
<1>7. Cardinality(1 .. n) = n
  BY Places
<1> QED
  BY <1>2, <1>6, <1>7

(* Their average, rounded, may leave the rounded extremes by one.          *)
LEMMA AverageIsNear ==
  ASSUME NEW n \in Nat \ {0}, NEW sum \in Nat, NEW least \in Nat, NEW most \in Nat,
         n * least <= sum, sum <= n * most, NEW avg \in Nearest(sum, n * Precision)
  PROVE  /\ RoundFloat(least, Precision) - 1 <= avg
         /\ avg <= RoundFloat(most, Precision) + 1
<1> DEFINE d == n * Precision
           f == sum \div d
           g == least \div Precision
           h == most \div Precision
<1>1. Precision \in Nat \ {0}
  BY PrecisionAssumption
<1>2. d \in Nat \ {0}
  BY <1>1
<1>3. /\ g \in Nat /\ Precision * g <= least /\ Precision * g \in Nat
      /\ h \in Nat /\ most < Precision * (h + 1) /\ Precision * (h + 1) \in Nat
  <2>1. /\ g \in Nat /\ least % Precision \in Nat /\ Precision * g \in Nat
        /\ least = Precision * g + (least % Precision)
    BY <1>1, Divided
  <2>2. /\ h \in Nat /\ most % Precision \in Nat /\ Precision * h \in Nat
        /\ most = Precision * h + (most % Precision) /\ most % Precision < Precision
    BY <1>1, Divided
  <2>3. Precision * (h + 1) = Precision * h + Precision
    BY <1>1, <2>2, Multiples
  <2> HIDE DEF g, h
  <2> QED
    BY <1>1, <2>1, <2>2, <2>3
<1>4. avg \in {f, f + 1}
  BY DEF Nearest
<1>5. d * g = n * (Precision * g) /\ d * (h + 1) = n * (Precision * (h + 1))
  <2> HIDE DEF g, h
  <2> QED
    BY <1>1, <1>3
<1>6. RoundFloat(least, Precision) \in {g, g + 1} /\ RoundFloat(most, Precision) \in {h, h + 1}
  BY <1>1, RoundingError
<1> HIDE DEF g, h, d
<1>7. f \in Nat
  BY <1>2, Divided
<1>8. g <= f
  <2>1. n * (Precision * g) <= n * least /\ n * (Precision * g) \in Int /\ n * least \in Int
    BY <1>3, Multiples
  <2>2. d * g <= sum
    BY <1>5, <2>1
  <2> QED
    BY <1>2, <1>3, <2>2, QuotientBounds
<1>9. f <= h
  <2> DEFINE m == Precision * (h + 1)
  <2>1. m \in Nat /\ most + 1 <= m
    BY <1>3
  <2> HIDE DEF m
  <2>2. /\ n * (most + 1) <= n * m /\ n * (most + 1) = n * most + n
        /\ n * m \in Int /\ n * most \in Int
    BY <2>1, Multiples
  <2>3. sum < n * m
    BY <2>2
  <2>4. sum < d * (h + 1)
    BY <1>5, <2>3 DEF m
  <2> QED
    BY <1>2, <1>3, <2>4, QuotientBounds
<1> HIDE DEF f
<1> QED
  BY <1>3, <1>4, <1>6, <1>7, <1>8, <1>9

-----------------------------------------------------------------------------
(* How many values an interpolation has below and above it.                *)
SplitsAt(values, n, v, p) ==
  /\ 100 * Cardinality({i \in 1 .. n : 100 * values[i] < v}) < (n - 1) * p + 100
  /\ 100 * Cardinality({i \in 1 .. n : 100 * values[i] > v}) < (n - 1) * (100 - p) + 100

LEMMA InterpolationSplits ==
  ASSUME NEW n \in Nat \ {0}, NEW values \in [1 .. n -> Nat], NEW p \in 0 .. 100,
         NEW v, v = Interpolation(Ascending(values), p)
  PROVE  SplitsAt(values, n, v, p)
<1> DEFINE sorted == Ascending(values)
           lo == Lower(n, p)
           hi == Upper(n, p)
           k == Rank(n, p)
           r == k % 100
           below == {i \in 1 .. n : 100 * values[i] < v}
           above == {i \in 1 .. n : 100 * values[i] > v}
<1>1. /\ sorted \in [1 .. n -> Nat]
      /\ \A i \in 1 .. n : /\ Cardinality(Under(values, sorted[i])) < i
                           /\ Cardinality(NotAbove(values, sorted[i])) >= i
      /\ \A i, j \in 1 .. n : i <= j => sorted[i] <= sorted[j]
  BY InOrder
<1>2. /\ k \in Nat /\ lo \in 1 .. n /\ hi \in 1 .. n /\ r \in 0 .. 99
      /\ k = 100 * (lo - 1) + r
      /\ hi = IF r = 0 THEN lo ELSE lo + 1
  BY Ranks
<1> HIDE DEF sorted
<1>3. Ascends(sorted, n)
  BY <1>1 DEF Ascends
<1>4. v \in Nat /\ 100 * sorted[lo] <= v /\ v <= 100 * sorted[hi]
  BY <1>3, Interpolated DEF sorted
<1> HIDE DEF lo, hi, k, r
<1>5. /\ sorted[lo] \in Nat /\ sorted[hi] \in Nat
      /\ Cardinality(Under(values, sorted[hi])) < hi
      /\ Cardinality(NotAbove(values, sorted[lo])) >= lo
      /\ Cardinality(Under(values, sorted[hi])) \in Nat
      /\ Cardinality(NotAbove(values, sorted[lo])) \in Nat
  BY <1>1, <1>2, Counted
<1>6. \A i \in 1 .. n : values[i] \in Nat
  OBVIOUS
<1>7. Cardinality(below) \in Nat /\ Cardinality(below) <= hi - 1
  <2>1. \A i \in 1 .. n : 100 * values[i] < v => values[i] < sorted[hi]
    BY <1>4, <1>5, <1>6
  <2>2. below \in SUBSET Under(values, sorted[hi])
    BY <2>1 DEF Under
  <2>3. Under(values, sorted[hi]) \in SUBSET (1 .. n) /\ below \in SUBSET (1 .. n)
    BY Counted
  <2> HIDE DEF below
  <2>4. /\ Cardinality(below) <= Cardinality(Under(values, sorted[hi]))
        /\ Cardinality(below) \in Nat
    BY <2>2, <2>3, Places
  <2> QED
    BY <1>2, <1>5, <2>4
<1>8. Cardinality(above) \in Nat /\ Cardinality(above) <= n - lo
  <2> DEFINE others == (1 .. n) \ NotAbove(values, sorted[lo])
  <2>1. \A i \in 1 .. n : 100 * values[i] > v => ~(values[i] <= sorted[lo])
    BY <1>4, <1>5, <1>6
  <2>2. above \in SUBSET others
    BY <2>1 DEF NotAbove
  <2>3. /\ NotAbove(values, sorted[lo]) \in SUBSET (1 .. n)
        /\ others \in SUBSET (1 .. n) /\ above \in SUBSET (1 .. n)
    BY Counted
  <2> DEFINE upTo == NotAbove(values, sorted[lo])
  <2>4. Cardinality(others) = n - Cardinality(upTo)
    <3>1. IsFiniteSet(1 .. n) /\ Cardinality(1 .. n) = n
      BY Places
    <3>2. (1 .. n) \cap upTo = upTo
      BY <2>3
    <3>3. Cardinality((1 .. n) \ upTo) = Cardinality(1 .. n) - Cardinality((1 .. n) \cap upTo)
      BY <3>1, FS_Difference
    <3> QED
      BY <3>1, <3>2, <3>3
  <2> HIDE DEF above, others, upTo
  <2>5. Cardinality(above) <= Cardinality(others) /\ Cardinality(above) \in Nat
    BY <2>2, <2>3, Places
  <2> QED
    BY <1>2, <1>5, <2>4, <2>5 DEF upTo
<1>9. 100 * Cardinality(below) < k + 100
  BY <1>2, <1>7
<1>10. (n - 1) * p = k /\ (n - 1) * (100 - p) = 100 * (n - 1) - k
  <2>1. (n - 1) * p = k
    BY Ranks DEF k
  <2>2. (n - 1) * (100 - p) = 100 * (n - 1) - (n - 1) * p
    OBVIOUS
  <2> QED
    BY <2>1, <2>2
<1>11. 100 * Cardinality(above) < (100 * (n - 1) - k) + 100
  BY <1>2, <1>8
<1> HIDE DEF below, above
<1> QED
  BY <1>9, <1>10, <1>11 DEF below, above, SplitsAt

LEMMA Halves ==
  ASSUME NEW v \in Int, NEW d \in Int
  PROVE  /\ (2 * v - 1) * d = 2 * (d * v) - d /\ (2 * v + 1) * d = 2 * (d * v) + d
         /\ (100 * d) * v = 100 * (d * v) /\ d * v \in Int
OBVIOUS

(* And a percentile, by more than the error of its rounding.               *)
ClearlyBelow(values, n, v) == {i \in 1 .. n : 2 * values[i] < (2 * v - 1) * Precision}
ClearlyAbove(values, n, v) == {i \in 1 .. n : 2 * values[i] > (2 * v + 1) * Precision}
SplitsClearly(values, n, v, p) ==
  /\ 100 * Cardinality(ClearlyBelow(values, n, v)) < (n - 1) * p + 100
  /\ 100 * Cardinality(ClearlyAbove(values, n, v)) < (n - 1) * (100 - p) + 100

LEMMA PercentileSplits ==
  ASSUME NEW n \in Nat \ {0}, NEW values \in [1 .. n -> Nat], NEW p \in 0 .. 100,
         NEW v, v = Percentile(Ascending(values), p)
  PROVE  SplitsClearly(values, n, v, p)
<1> DEFINE x == Interpolation(Ascending(values), p)
           below == {i \in 1 .. n : 100 * values[i] < x}
           above == {i \in 1 .. n : 100 * values[i] > x}
           low == (2 * v - 1) * Precision
           high == (2 * v + 1) * Precision
<1>1. /\ 100 * Cardinality(below) < (n - 1) * p + 100
      /\ 100 * Cardinality(above) < (n - 1) * (100 - p) + 100
  BY InterpolationSplits DEF SplitsAt
<1>2. x \in Nat
  <2>1. Ascends(Ascending(values), n)
    BY InOrder DEF Ascends
  <2> QED
    BY <2>1, Interpolated
<1>3. v = RoundFloat(x, 100 * Precision) /\ Precision \in Nat \ {0}
  BY PrecisionAssumption DEF Percentile
<1> HIDE DEF x
<1>4. /\ v \in Nat /\ (100 * Precision) * v \in Nat
      /\ 2 * x - 100 * Precision <= 2 * ((100 * Precision) * v)
      /\ 2 * ((100 * Precision) * v) <= 2 * x + 100 * Precision
  <2> DEFINE d == 100 * Precision
  <2>1. d \in Nat \ {0} /\ v = RoundFloat(x, d)
    BY <1>3
  <2> HIDE DEF d
  <2>2. v \in Nat /\ d * v \in Nat /\ 2 * x - d <= 2 * (d * v) /\ 2 * (d * v) <= 2 * x + d
    BY <1>2, <2>1, RoundingError
  <2> QED
    BY <2>2 DEF d
<1>5. low \in Int /\ high \in Int /\ 100 * low <= 2 * x /\ 2 * x <= 100 * high
  <2>1. /\ low = 2 * (Precision * v) - Precision /\ high = 2 * (Precision * v) + Precision
        /\ (100 * Precision) * v = 100 * (Precision * v) /\ Precision * v \in Int
    <3>1. v \in Int /\ Precision \in Int
      BY <1>3, <1>4
    <3> QED
      BY <3>1, Halves
  <2> DEFINE w == Precision * v
             u == (100 * Precision) * v
  <2>2. /\ low = 2 * w - Precision /\ high = 2 * w + Precision /\ u = 100 * w /\ w \in Int
        /\ 2 * x - 100 * Precision <= 2 * u /\ 2 * u <= 2 * x + 100 * Precision
        /\ Precision \in Int
    BY <1>3, <1>4, <2>1
  <2> HIDE DEF low, high, u, w
  <2> QED
    BY <1>2, <2>2
<1> HIDE DEF low, high
<1>6. \A i \in 1 .. n : values[i] \in Nat
  OBVIOUS
<1>7. /\ \A i \in 1 .. n : 2 * values[i] < low => 100 * values[i] < x
      /\ \A i \in 1 .. n : 2 * values[i] > high => 100 * values[i] > x
  <2>1. \A i \in 1 .. n : 2 * values[i] < low => 100 * values[i] < x
    <3> SUFFICES ASSUME NEW i \in 1 .. n, 2 * values[i] < low PROVE 100 * values[i] < x
      OBVIOUS
    <3>1. values[i] \in Nat
      BY <1>6
    <3> QED
      BY <1>2, <1>5, <3>1
  <2>2. \A i \in 1 .. n : 2 * values[i] > high => 100 * values[i] > x
    <3> SUFFICES ASSUME NEW i \in 1 .. n, 2 * values[i] > high PROVE 100 * values[i] > x
      OBVIOUS
    <3>1. values[i] \in Nat
      BY <1>6
    <3> QED
      BY <1>2, <1>5, <3>1
  <2> QED
    BY <2>1, <2>2
<1>8. /\ ClearlyBelow(values, n, v) \in SUBSET below /\ below \in SUBSET (1 .. n)
      /\ ClearlyAbove(values, n, v) \in SUBSET above /\ above \in SUBSET (1 .. n)
      /\ ClearlyBelow(values, n, v) \in SUBSET (1 .. n)
      /\ ClearlyAbove(values, n, v) \in SUBSET (1 .. n)
  <2>1. ClearlyBelow(values, n, v) = {i \in 1 .. n : 2 * values[i] < low}
    BY DEF ClearlyBelow, low
  <2>2. ClearlyAbove(values, n, v) = {i \in 1 .. n : 2 * values[i] > high}
    BY DEF ClearlyAbove, high
  <2> QED
    BY <1>7, <2>1, <2>2, Zenon
<1> HIDE DEF below, above
<1>9. /\ Cardinality(ClearlyBelow(values, n, v)) <= Cardinality(below)
      /\ Cardinality(ClearlyAbove(values, n, v)) <= Cardinality(above)
      /\ Cardinality(ClearlyBelow(values, n, v)) \in Nat /\ Cardinality(below) \in Nat
      /\ Cardinality(ClearlyAbove(values, n, v)) \in Nat /\ Cardinality(above) \in Nat
  BY <1>8, Places
<1>10. (n - 1) * p \in Int /\ (n - 1) * (100 - p) \in Int
  OBVIOUS
<1> QED
  BY <1>1, <1>9, <1>10 DEF SplitsClearly

(* PercentilesSplit, of one list of values.                                *)
LEMMA DescribedSplits ==
  ASSUME NEW n \in Nat \ {0}, NEW values \in [1 .. n -> Nat],
         question.values = values, answer.stats \in Stats(values)
  PROVE  PercentilesSplit
<1> DEFINE sorted == Ascending(values)
           sum == FoldSeq(+, 0, values)
           s == answer.stats
<1>1. /\ sorted \in [1 .. n -> Nat]
      /\ \A i \in 1 .. n : /\ Cardinality(Under(values, sorted[i])) < i
                           /\ Cardinality(NotAbove(values, sorted[i])) >= i
      /\ \A i, j \in 1 .. n : i <= j => sorted[i] <= sorted[j]
  BY InOrder
<1>2. 1 \in 1 .. n /\ n \in 1 .. n
  OBVIOUS
<1>3. Len(values) = n /\ Len(sorted) = n
  <2> HIDE DEF sorted
  <2>1. /\ values \in Seq(Nat) /\ DOMAIN values = 1 .. n
        /\ sorted \in Seq(Nat) /\ DOMAIN sorted = 1 .. n
    BY <1>1, SeqDef
  <2>2. /\ Len(values) \in Nat /\ DOMAIN values = 1 .. Len(values)
        /\ Len(sorted) \in Nat /\ DOMAIN sorted = 1 .. Len(sorted)
    BY <2>1, LenProperties
  <2> QED
    BY <2>1, <2>2
<1>4. /\ s.avg \in Nearest(sum, n * Precision)
      /\ s.min = RoundFloat(sorted[1], Precision) /\ s.max = RoundFloat(sorted[n], Precision)
      /\ s.p50 = Percentile(sorted, 50) /\ s.p95 = Percentile(sorted, 95)
  <2> DEFINE near == Nearest(sum, Len(values) * Precision)
             min == RoundFloat(sorted[1], Precision)
             max == RoundFloat(Last(sorted), Precision)
             p50 == Percentile(sorted, 50)
             p95 == Percentile(sorted, 95)
  <2>1. s \in {[avg |-> avg, min |-> min, max |-> max, p50 |-> p50, p95 |-> p95] : avg \in near}
    BY DEF Stats
  <2> HIDE DEF near, min, max, p50, p95, s
  <2>2. s.avg \in near /\ s.min = min /\ s.max = max /\ s.p50 = p50 /\ s.p95 = p95
    BY <2>1
  <2>3. Last(sorted) = sorted[n]
    BY <1>3 DEF Last
  <2> QED
    BY <1>3, <2>2, <2>3 DEF near, min, max, p50, p95
<1> HIDE DEF sorted, s
<1>5. \A j \in 1 .. n : sorted[1] <= values[j] /\ values[j] <= sorted[n]
  <2>1. Under(values, sorted[1]) = {}
    <3>1. /\ Under(values, sorted[1]) \in SUBSET (1 .. n)
          /\ Cardinality(Under(values, sorted[1])) \in Nat
      BY Counted
    <3>2. Cardinality(Under(values, sorted[1])) <= 0
      BY <1>1, <1>2, <3>1
    <3> QED
      BY <3>1, <3>2, NoPlaces
  <2>2. NotAbove(values, sorted[n]) = 1 .. n
    <3>1. /\ NotAbove(values, sorted[n]) \in SUBSET (1 .. n)
          /\ Cardinality(NotAbove(values, sorted[n])) \in Nat
      BY Counted
    <3>2. Cardinality(NotAbove(values, sorted[n])) >= n
      BY <1>1, <1>2
    <3>3. Cardinality(NotAbove(values, sorted[n])) <= n
      BY <3>1, Places
    <3>4. Cardinality(NotAbove(values, sorted[n])) = n
      BY <3>1, <3>2, <3>3
    <3> QED
      BY <3>1, <3>4, Places
  <2>3. ASSUME NEW j \in 1 .. n PROVE sorted[1] <= values[j] /\ values[j] <= sorted[n]
    <3>1. j \notin Under(values, sorted[1]) /\ j \in NotAbove(values, sorted[n])
      BY <2>1, <2>2
    <3>2. ~(values[j] < sorted[1]) /\ values[j] <= sorted[n]
      BY <3>1 DEF Under, NotAbove
    <3> QED
      BY <1>1, <1>2, <3>2
  <2> QED
    BY <2>3
<1>6. sum \in Nat /\ n * sorted[1] <= sum /\ sum <= n * sorted[n]
  BY <1>1, <1>2, <1>5, SumIsBetween
<1>7. s.min - 1 <= s.avg /\ s.avg <= s.max + 1
  <2> HIDE DEF sum
  <2>1. /\ RoundFloat(sorted[1], Precision) - 1 <= s.avg
        /\ s.avg <= RoundFloat(sorted[n], Precision) + 1
    BY <1>1, <1>2, <1>4, <1>6, AverageIsNear
  <2> QED
    BY <1>4, <2>1
<1>8. s.min <= s.p50 /\ s.p50 <= s.p95 /\ s.p95 <= s.max
  <2> DEFINE i50 == Interpolation(sorted, 50)
             i95 == Interpolation(sorted, 95)
             d == 100 * Precision
  <2>1. Ascends(sorted, n)
    BY <1>1 DEF Ascends
  <2>2. 100 * sorted[1] <= i50 /\ i50 <= i95 /\ i95 <= 100 * sorted[n]
    BY <2>1, InterpolationsAscend
  <2>11. 50 \in 0 .. 100 /\ 95 \in 0 .. 100
    OBVIOUS
  <2>3. i50 \in Nat /\ i95 \in Nat
    BY <2>1, <2>11, Interpolated
  <2>4. Precision \in Nat \ {0} /\ d \in Nat \ {0}
    BY PrecisionAssumption
  <2>5. /\ sorted[1] \in Nat /\ sorted[n] \in Nat
        /\ 100 * sorted[1] \in Nat /\ 100 * sorted[n] \in Nat
    BY <1>1, <1>2
  <2>6. s.min = RoundFloat(100 * sorted[1], d) /\ s.max = RoundFloat(100 * sorted[n], d)
    <3>1. /\ RoundFloat(100 * sorted[1], 100 * Precision) = RoundFloat(sorted[1], Precision)
          /\ RoundFloat(100 * sorted[n], 100 * Precision) = RoundFloat(sorted[n], Precision)
      BY <2>4, <2>5, RoundsHundredths
    <3> QED
      BY <1>4, <3>1
  <2>7. s.p50 = RoundFloat(i50, d) /\ s.p95 = RoundFloat(i95, d)
    BY <1>4 DEF Percentile
  <2> HIDE DEF i50, i95, d
  <2>8. RoundFloat(100 * sorted[1], d) <= RoundFloat(i50, d)
    BY <2>2, <2>3, <2>4, <2>5, RoundsInOrder
  <2>9. RoundFloat(i50, d) <= RoundFloat(i95, d)
    BY <2>2, <2>3, <2>4, RoundsInOrder
  <2>10. RoundFloat(i95, d) <= RoundFloat(100 * sorted[n], d)
    BY <2>2, <2>3, <2>4, <2>5, RoundsInOrder
  <2> QED
    BY <2>6, <2>7, <2>8, <2>9, <2>10
<1>9. SplitsClearly(values, n, s.p50, 50) /\ SplitsClearly(values, n, s.p95, 95)
  <2>1. 50 \in 0 .. 100 /\ 95 \in 0 .. 100
    OBVIOUS
  <2> QED
    BY <1>4, <2>1, PercentileSplits DEF sorted
<1>10. /\ 100 * Cardinality(ClearlyBelow(values, n, s.p50)) < (n - 1) * 50 + 100
       /\ 100 * Cardinality(ClearlyAbove(values, n, s.p50)) < (n - 1) * (100 - 50) + 100
       /\ 100 * Cardinality(ClearlyBelow(values, n, s.p95)) < (n - 1) * 95 + 100
       /\ 100 * Cardinality(ClearlyAbove(values, n, s.p95)) < (n - 1) * (100 - 95) + 100
  BY <1>9 DEF SplitsClearly
<1>11. answer.stats = s
  BY DEF s
<1> QED
  BY <1>3, <1>7, <1>8, <1>10, <1>11 DEF PercentilesSplit, ClearlyBelow, ClearlyAbove

-----------------------------------------------------------------------------
(* The first object in a text (Algorithms.tla), of whatever length.        *)

(* The states of the scan.                                                 *)
Outside(d) == [depth |-> d, inString |-> FALSE, escape |-> FALSE]
Inside(d) == [depth |-> d, inString |-> TRUE, escape |-> FALSE]
Escaped(d) == [depth |-> d, inString |-> TRUE, escape |-> TRUE]

(* Outside a string, a quote opens one and braces change the depth.        *)
LEMMA ScansOutside ==
  ASSUME NEW d \in Int
  PROVE  /\ After(Outside(d), "x") = Outside(d) /\ After(Outside(d), "quote") = Inside(d)
         /\ After(Outside(d), "open") = Outside(d + 1) /\ After(Outside(d), "close") = Outside(d - 1)
         /\ Outside(d).depth = d
BY DEF After, Outside, Inside

(* Inside a string, only a quote and a backslash mean anything.            *)
LEMMA ScansInside ==
  ASSUME NEW d \in Int
  PROVE  /\ After(Inside(d), "quote") = Outside(d) /\ After(Inside(d), "backslash") = Escaped(d)
         /\ After(Inside(d), "open") = Inside(d) /\ After(Inside(d), "close") = Inside(d)
         /\ After(Inside(d), "x") = Inside(d)
         /\ Inside(d).depth = d
BY DEF After, Outside, Inside, Escaped

(* Behind a backslash, nothing does.                                       *)
LEMMA ScansEscaped ==
  ASSUME NEW d \in Int
  PROVE  /\ After(Escaped(d), "quote") = Inside(d) /\ After(Escaped(d), "backslash") = Inside(d)
         /\ After(Escaped(d), "x") = Inside(d)
         /\ Escaped(d).depth = d
BY DEF After, Inside, Escaped

(* The states st are those of the scan of c, from the p-th on.             *)
Follows(st, p, c) == \A k \in 1 .. Len(c) : st[p + k] = After(st[p + k - 1], c[k])

(* A part that the scan passes on its level...                             *)
Balanced(c) ==
  \A st : \A p, d \in Nat :
    Follows(st, p, c) /\ st[p] = Outside(d)
      => /\ st[p + Len(c)] = Outside(d)
         /\ \A k \in 0 .. Len(c) : st[p + k].depth \in Nat /\ st[p + k].depth >= d

(* ... or within a string.                                                 *)
Quoted(c) ==
  \A st : \A p, d \in Nat :
    Follows(st, p, c) /\ st[p] = Inside(d)
      => /\ st[p + Len(c)] = Inside(d)
         /\ \A k \in 0 .. Len(c) : st[p + k].depth = d

(* The scan of two parts is the scan of each.                              *)
LEMMA FollowsParts ==
  ASSUME NEW a \in Seq(Characters), NEW b \in Seq(Characters), NEW st, NEW p \in Nat,
         Follows(st, p, a \o b)
  PROVE  /\ Follows(st, p, a) /\ Follows(st, p + Len(a), b)
         /\ a \o b \in Seq(Characters) /\ Len(a \o b) = Len(a) + Len(b)
<1>1. /\ a \o b \in Seq(Characters) /\ Len(a \o b) = Len(a) + Len(b)
      /\ Len(a) \in Nat /\ Len(b) \in Nat
      /\ \A k \in 1 .. Len(a) : (a \o b)[k] = a[k]
      /\ \A k \in 1 .. Len(b) : (a \o b)[Len(a) + k] = b[k]
  OBVIOUS
<1> DEFINE c == a \o b
<1>2. \A k \in 1 .. Len(c) : st[p + k] = After(st[p + k - 1], c[k])
  BY DEF Follows
<1>3. Len(c) = Len(a) + Len(b)
  BY <1>1
<1> HIDE DEF c
<1>4. ASSUME NEW k \in 1 .. Len(a) PROVE st[p + k] = After(st[p + k - 1], a[k])
  <2>1. k \in 1 .. Len(c)
    BY <1>1, <1>3
  <2>2. c[k] = a[k]
    BY <1>1 DEF c
  <2> QED
    BY <1>2, <2>1, <2>2
<1>5. ASSUME NEW k \in 1 .. Len(b)
      PROVE  st[p + Len(a) + k] = After(st[p + Len(a) + k - 1], b[k])
  <2>1. Len(a) + k \in 1 .. Len(c)
    BY <1>1, <1>3
  <2>2. c[Len(a) + k] = b[k]
    BY <1>1 DEF c
  <2>3. st[p + (Len(a) + k)] = After(st[p + (Len(a) + k) - 1], c[Len(a) + k])
    BY <1>2, <2>1
  <2>4. p + (Len(a) + k) = p + Len(a) + k
    BY <1>1
  <2> QED
    BY <2>2, <2>3, <2>4
<1> QED
  BY <1>1, <1>4, <1>5 DEF Follows

(* The scan of one character is one step.                                  *)
LEMMA OneCharacter ==
  ASSUME NEW c \in Characters, NEW st, NEW p \in Nat, Follows(st, p, <<c>>)
  PROVE  st[p + 1] = After(st[p], c)
<1>1. Len(<<c>>) = 1 /\ <<c>>[1] = c
  OBVIOUS
<1>2. st[p + 1] = After(st[p + 1 - 1], <<c>>[1])
  BY <1>1 DEF Follows
<1>3. p + 1 - 1 = p
  OBVIOUS
<1> QED
  BY <1>1, <1>2, <1>3

(* What is balanced.                                                       *)
LEMMA BalancedNone == Balanced(<<>>)
<1> SUFFICES ASSUME NEW st, NEW p \in Nat, NEW d \in Nat, st[p] = Outside(d)
             PROVE  /\ st[p + 0] = Outside(d)
                    /\ \A k \in 0 .. 0 : st[p + k].depth \in Nat /\ st[p + k].depth >= d
  BY DEF Balanced
<1>1. Outside(d).depth = d
  BY ScansOutside
<1>2. p + 0 = p
  OBVIOUS
<1> QED
  BY <1>1, <1>2

(* Two balanced parts are balanced together.                               *)
LEMMA BalancedBoth ==
  ASSUME NEW a \in Seq(Characters), NEW b \in Seq(Characters), Balanced(a), Balanced(b)
  PROVE  Balanced(a \o b)
<1> SUFFICES ASSUME NEW st, NEW p \in Nat, NEW d \in Nat, Follows(st, p, a \o b), st[p] = Outside(d)
             PROVE  /\ st[p + Len(a \o b)] = Outside(d)
                    /\ \A k \in 0 .. Len(a \o b) : st[p + k].depth \in Nat /\ st[p + k].depth >= d
  BY DEF Balanced
<1>1. /\ Follows(st, p, a) /\ Follows(st, p + Len(a), b) /\ Len(a \o b) = Len(a) + Len(b)
      /\ Len(a) \in Nat /\ Len(b) \in Nat /\ p + Len(a) \in Nat
  BY FollowsParts
<1>2. /\ st[p + Len(a)] = Outside(d)
      /\ \A k \in 0 .. Len(a) : st[p + k].depth \in Nat /\ st[p + k].depth >= d
  BY <1>1 DEF Balanced
<1>3. /\ st[p + Len(a) + Len(b)] = Outside(d)
      /\ \A k \in 0 .. Len(b) : st[p + Len(a) + k].depth \in Nat /\ st[p + Len(a) + k].depth >= d
  BY <1>1, <1>2 DEF Balanced
<1>4. ASSUME NEW k \in 0 .. Len(a) + Len(b)
      PROVE  st[p + k].depth \in Nat /\ st[p + k].depth >= d
  <2>1. CASE k <= Len(a)
    BY <1>1, <1>2, <2>1
  <2>2. CASE k > Len(a)
    <3>1. k - Len(a) \in 0 .. Len(b) /\ p + Len(a) + (k - Len(a)) = p + k
      BY <1>1, <2>2
    <3> QED
      BY <1>3, <3>1
  <2> QED
    BY <1>1, <2>1, <2>2
<1> QED
  BY <1>1, <1>3, <1>4

(* A character that is neither brace nor quote is balanced.                *)
LEMMA BalancedOther == Balanced(<<"x">>)
<1> SUFFICES ASSUME NEW st, NEW p \in Nat, NEW d \in Nat, Follows(st, p, <<"x">>), st[p] = Outside(d)
             PROVE  /\ st[p + 1] = Outside(d)
                    /\ \A k \in 0 .. 1 : st[p + k].depth \in Nat /\ st[p + k].depth >= d
  BY DEF Balanced
<1>1. st[p + 1] = After(st[p], "x")
  BY OneCharacter DEF Characters
<1>2. After(Outside(d), "x") = Outside(d) /\ Outside(d).depth = d
  BY ScansOutside
<1>3. st[p + 1] = Outside(d) /\ p + 0 = p
  BY <1>1, <1>2
<1>4. \A k \in 0 .. 1 : k = 0 \/ k = 1
  OBVIOUS
<1> QED
  BY <1>2, <1>3, <1>4

(* The scan of a part between two characters.                              *)
LEMMA FollowsBetween ==
  ASSUME NEW left \in Characters, NEW c \in Seq(Characters), NEW right \in Characters,
         NEW st, NEW p \in Nat, Follows(st, p, <<left>> \o c \o <<right>>)
  PROVE  /\ st[p + 1] = After(st[p], left) /\ Follows(st, p + 1, c)
         /\ st[p + 1 + Len(c) + 1] = After(st[p + 1 + Len(c)], right)
         /\ Len(<<left>> \o c \o <<right>>) = Len(c) + 2 /\ Len(c) \in Nat
         /\ <<left>> \o c \o <<right>> \in Seq(Characters)
<1>1. /\ <<left>> \in Seq(Characters) /\ <<right>> \in Seq(Characters)
      /\ Len(<<left>>) = 1 /\ Len(<<right>>) = 1 /\ Len(c) \in Nat
  OBVIOUS
<1> DEFINE begun == <<left>> \o c
<1>2. begun \in Seq(Characters) /\ Len(begun) = 1 + Len(c)
  BY <1>1
<1> HIDE DEF begun
<1>3. Follows(st, p, begun \o <<right>>)
  BY DEF begun
<1>4. /\ Follows(st, p, begun) /\ Follows(st, p + Len(begun), <<right>>)
      /\ begun \o <<right>> \in Seq(Characters)
      /\ Len(begun \o <<right>>) = Len(begun) + Len(<<right>>)
  BY <1>1, <1>2, <1>3, FollowsParts
<1>5. Follows(st, p, <<left>>) /\ Follows(st, p + Len(<<left>>), c)
  BY <1>1, <1>4, FollowsParts DEF begun
<1>6. st[p + 1] = After(st[p], left)
  BY <1>5, OneCharacter
<1>7. st[p + Len(begun) + 1] = After(st[p + Len(begun)], right)
  BY <1>1, <1>2, <1>4, OneCharacter
<1>8. p + Len(begun) = p + 1 + Len(c)
  BY <1>1, <1>2
<1>9. /\ Len(begun \o <<right>>) = Len(c) + 2
  BY <1>1, <1>2, <1>4
<1> QED
  BY <1>1, <1>4, <1>5, <1>6, <1>7, <1>8, <1>9 DEF begun

(* The places of a part with a character before and behind it.             *)
LEMMA BetweenPlaces ==
  ASSUME NEW p \in Nat, NEW n \in Nat, NEW k \in 0 .. n + 2
  PROVE  \/ k = 0 /\ p + k = p
         \/ k = n + 2 /\ p + k = p + 1 + n + 1
         \/ k - 1 \in 0 .. n /\ p + k = p + 1 + (k - 1)
OBVIOUS

(* A balanced part between braces is balanced: one deeper.                 *)
LEMMA BalancedBraces ==
  ASSUME NEW c \in Seq(Characters), Balanced(c)
  PROVE  Balanced(<<"open">> \o c \o <<"close">>)
<1> DEFINE o == <<"open">> \o c \o <<"close">>
<1> SUFFICES ASSUME NEW st, NEW p \in Nat, NEW d \in Nat, Follows(st, p, o), st[p] = Outside(d)
             PROVE  /\ st[p + Len(o)] = Outside(d)
                    /\ \A k \in 0 .. Len(o) : st[p + k].depth \in Nat /\ st[p + k].depth >= d
  BY DEF Balanced
<1>1. /\ st[p + 1] = After(st[p], "open") /\ Follows(st, p + 1, c)
      /\ st[p + 1 + Len(c) + 1] = After(st[p + 1 + Len(c)], "close")
      /\ Len(o) = Len(c) + 2 /\ Len(c) \in Nat
  BY FollowsBetween DEF Characters
<1> HIDE DEF o
<1>2. After(Outside(d), "open") = Outside(d + 1) /\ Outside(d).depth = d
  <2>1. d \in Int
    OBVIOUS
  <2>2. After(Outside(d), "open") = Outside(d + 1)
    BY <2>1, ScansOutside
  <2>3. Outside(d).depth = d
    BY <2>1, ScansOutside
  <2> QED
    BY <2>2, <2>3
<1>3. After(Outside(d + 1), "close") = Outside(d)
  <2>1. d + 1 \in Int /\ d + 1 - 1 = d
    OBVIOUS
  <2>2. After(Outside(d + 1), "close") = Outside(d + 1 - 1)
    BY <2>1, ScansOutside
  <2> QED
    BY <2>1, <2>2
<1>4. st[p + 1] = Outside(d + 1) /\ p + 1 \in Nat /\ d + 1 \in Nat
  BY <1>1, <1>2
<1>5. /\ st[p + 1 + Len(c)] = Outside(d + 1)
      /\ \A k \in 0 .. Len(c) : st[p + 1 + k].depth \in Nat /\ st[p + 1 + k].depth >= d + 1
  BY <1>1, <1>4 DEF Balanced
<1>6. st[p + 1 + Len(c) + 1] = Outside(d) /\ p + Len(o) = p + 1 + Len(c) + 1
  BY <1>1, <1>3, <1>5
<1>7. ASSUME NEW k \in 0 .. Len(o) PROVE st[p + k].depth \in Nat /\ st[p + k].depth >= d
  <2>1. CASE k = 0 /\ p + k = p
    BY <1>2, <2>1
  <2>2. CASE p + k = p + 1 + Len(c) + 1
    BY <1>2, <1>6, <2>2
  <2>3. CASE k - 1 \in 0 .. Len(c) /\ p + k = p + 1 + (k - 1)
    <3>1. st[p + 1 + (k - 1)].depth \in Nat /\ st[p + 1 + (k - 1)].depth >= d + 1
      BY <1>5, <2>3
    <3> QED
      BY <2>3, <3>1
  <2> QED
    BY <1>1, <2>1, <2>2, <2>3, BetweenPlaces
<1> QED
  BY <1>6, <1>7

(* A string is balanced.                                                   *)
LEMMA BalancedQuotes ==
  ASSUME NEW c \in Seq(Characters), Quoted(c)
  PROVE  Balanced(<<"quote">> \o c \o <<"quote">>)
<1> DEFINE o == <<"quote">> \o c \o <<"quote">>
<1> SUFFICES ASSUME NEW st, NEW p \in Nat, NEW d \in Nat, Follows(st, p, o), st[p] = Outside(d)
             PROVE  /\ st[p + Len(o)] = Outside(d)
                    /\ \A k \in 0 .. Len(o) : st[p + k].depth \in Nat /\ st[p + k].depth >= d
  BY DEF Balanced
<1>1. /\ st[p + 1] = After(st[p], "quote") /\ Follows(st, p + 1, c)
      /\ st[p + 1 + Len(c) + 1] = After(st[p + 1 + Len(c)], "quote")
      /\ Len(o) = Len(c) + 2 /\ Len(c) \in Nat
  BY FollowsBetween DEF Characters
<1> HIDE DEF o
<1>2. /\ After(Outside(d), "quote") = Inside(d) /\ After(Inside(d), "quote") = Outside(d)
      /\ Outside(d).depth = d
  <2>1. After(Outside(d), "quote") = Inside(d)
    BY ScansOutside
  <2>2. Outside(d).depth = d
    BY DEF Outside
  <2>3. After(Inside(d), "quote") = Outside(d)
    BY ScansInside
  <2> QED
    BY <2>1, <2>2, <2>3
<1>3. st[p + 1] = Inside(d) /\ p + 1 \in Nat
  BY <1>1, <1>2
<1>4. /\ st[p + 1 + Len(c)] = Inside(d)
      /\ \A k \in 0 .. Len(c) : st[p + 1 + k].depth = d
  BY <1>1, <1>3 DEF Quoted
<1>5. st[p + 1 + Len(c) + 1] = Outside(d) /\ p + Len(o) = p + 1 + Len(c) + 1
  BY <1>1, <1>2, <1>4
<1>6. ASSUME NEW k \in 0 .. Len(o) PROVE st[p + k].depth = d
  <2>1. CASE k = 0 /\ p + k = p
    BY <1>2, <2>1
  <2>2. CASE p + k = p + 1 + Len(c) + 1
    BY <1>2, <1>5, <2>2
  <2>3. CASE k - 1 \in 0 .. Len(c) /\ p + k = p + 1 + (k - 1)
    BY <1>4, <2>3
  <2> QED
    BY <1>1, <2>1, <2>2, <2>3, BetweenPlaces
<1> QED
  BY <1>5, <1>6

(* What stands in a string.                                                *)
LEMMA QuotedNone == Quoted(<<>>)
<1> SUFFICES ASSUME NEW st, NEW p \in Nat, NEW d \in Nat, st[p] = Inside(d)
             PROVE  /\ st[p + 0] = Inside(d)
                    /\ \A k \in 0 .. 0 : st[p + k].depth = d
  BY DEF Quoted
<1>1. Inside(d).depth = d
  BY ScansInside
<1>2. p + 0 = p
  OBVIOUS
<1> QED
  BY <1>1, <1>2

(* A plain character may stand in a string...                              *)
LEMMA QuotedOneMore ==
  ASSUME NEW c \in {"open", "close", "x"}, NEW s \in Seq(Characters), Quoted(s)
  PROVE  Quoted(<<c>> \o s)
<1> DEFINE o == <<c>> \o s
<1> SUFFICES ASSUME NEW st, NEW p \in Nat, NEW d \in Nat, Follows(st, p, o), st[p] = Inside(d)
             PROVE  /\ st[p + Len(o)] = Inside(d)
                    /\ \A k \in 0 .. Len(o) : st[p + k].depth = d
  BY DEF Quoted
<1>1. c \in Characters /\ <<c>> \in Seq(Characters) /\ Len(<<c>>) = 1 /\ Len(s) \in Nat
  BY DEF Characters
<1>2. Follows(st, p, <<c>>) /\ Follows(st, p + 1, s) /\ Len(o) = 1 + Len(s)
  BY <1>1, FollowsParts
<1> HIDE DEF o
<1>3. st[p + 1] = Inside(d) /\ Inside(d).depth = d /\ p + 1 \in Nat
  <2>1. st[p + 1] = After(st[p], c)
    BY <1>1, <1>2, OneCharacter
  <2>2. After(Inside(d), c) = Inside(d) /\ Inside(d).depth = d
    BY ScansInside
  <2> QED
    BY <2>1, <2>2
<1>4. st[p + 1 + Len(s)] = Inside(d) /\ \A k \in 0 .. Len(s) : st[p + 1 + k].depth = d
  BY <1>2, <1>3 DEF Quoted
<1>5. ASSUME NEW k \in 0 .. Len(o) PROVE st[p + k].depth = d
  <2>1. CASE k = 0
    <3>1. p + k = p
      BY <2>1
    <3> QED
      BY <1>3, <3>1
  <2>2. CASE k # 0
    <3>1. k - 1 \in 0 .. Len(s) /\ p + k = p + 1 + (k - 1)
      BY <1>1, <1>2, <2>2
    <3> QED
      BY <1>4, <3>1
  <2> QED
    BY <2>1, <2>2
<1>6. p + Len(o) = p + 1 + Len(s)
  BY <1>1, <1>2
<1> QED
  BY <1>4, <1>5, <1>6

(* ... and so may an escape.                                               *)
LEMMA QuotedEscape ==
  ASSUME NEW c \in {"quote", "backslash", "x"}, NEW s \in Seq(Characters), Quoted(s)
  PROVE  Quoted(<<"backslash", c>> \o s)
<1> DEFINE e == <<"backslash", c>>
           o == e \o s
<1> SUFFICES ASSUME NEW st, NEW p \in Nat, NEW d \in Nat, Follows(st, p, o), st[p] = Inside(d)
             PROVE  /\ st[p + Len(o)] = Inside(d)
                    /\ \A k \in 0 .. Len(o) : st[p + k].depth = d
  BY DEF Quoted
<1>1. /\ c \in Characters /\ e \in Seq(Characters) /\ Len(e) = 2 /\ Len(s) \in Nat
      /\ e[1] = "backslash" /\ e[2] = c
  BY DEF Characters
<1> HIDE DEF e
<1>2. Follows(st, p, e) /\ Follows(st, p + 2, s) /\ Len(o) = 2 + Len(s)
  BY <1>1, FollowsParts
<1> HIDE DEF o
<1>3. /\ After(Inside(d), "backslash") = Escaped(d) /\ After(Escaped(d), c) = Inside(d)
      /\ Inside(d).depth = d /\ Escaped(d).depth = d /\ p + 2 \in Nat
  <2>1. After(Inside(d), "backslash") = Escaped(d) /\ Inside(d).depth = d
    BY ScansInside
  <2>2. After(Escaped(d), c) = Inside(d) /\ Escaped(d).depth = d
    BY ScansEscaped
  <2> QED
    BY <2>1, <2>2
<1>4. st[p + 1] = Escaped(d) /\ st[p + 2] = Inside(d)
  <2>1. \A k \in 1 .. 2 : st[p + k] = After(st[p + k - 1], e[k])
    BY <1>1, <1>2 DEF Follows
  <2>2. st[p + 1] = After(st[p + 1 - 1], e[1]) /\ st[p + 2] = After(st[p + 2 - 1], e[2])
    BY <2>1
  <2>3. p + 1 - 1 = p /\ p + 2 - 1 = p + 1
    OBVIOUS
  <2> QED
    BY <1>1, <1>3, <2>2, <2>3
<1>5. /\ st[p + 2 + Len(s)] = Inside(d)
      /\ \A k \in 0 .. Len(s) : st[p + 2 + k].depth = d
  BY <1>2, <1>3, <1>4 DEF Quoted
<1>6. ASSUME NEW k \in 0 .. Len(o) PROVE st[p + k].depth = d
  <2>1. CASE k = 0
    <3>1. p + k = p
      BY <2>1
    <3> QED
      BY <1>3, <3>1
  <2>2. CASE k = 1
    BY <1>3, <1>4, <2>2
  <2>3. CASE k # 0 /\ k # 1
    <3>1. k - 2 \in 0 .. Len(s) /\ p + k = p + 2 + (k - 2)
      BY <1>1, <1>2, <2>3
    <3> QED
      BY <1>5, <3>1
  <2> QED
    BY <2>1, <2>2, <2>3
<1>7. p + Len(o) = p + 2 + Len(s)
  BY <1>1, <1>2
<1> QED
  BY <1>5, <1>6, <1>7

-----------------------------------------------------------------------------
(* The grammar: the equations of StringBodies and Contents have solutions. *)

BodiesOf(h, n) ==
  IF n = 0 THEN {<<>>}
  ELSE Joined(Plain, h[n - 1]) \cup IF n = 1 THEN {} ELSE Joined(Escapes, h[n - 2])

(* What the definition of StringBodies says...                             *)
LEMMA BodiesUnfold == StringBodies = CHOOSE h : h = [n \in 0 .. MaxText |-> BodiesOf(h, n)]
BY DEF StringBodies, BodiesOf

ItemsOf(h, m) ==
  CASE m = 0 -> {}
    [] m = 1 -> {<<"x">>}
    [] m > 1 -> Between("quote", StringBodies[m - 2], "quote")
                  \cup Between("open", h[m - 2], "close")
ContentsOf(h, n) ==
  IF n = 0 THEN {<<>>}
  ELSE UNION {Joined(ItemsOf(h, m), h[n - m]) : m \in 1 .. n}

(* ... and that of Contents.                                               *)
LEMMA ContentsUnfold == Contents = CHOOSE h : h = [n \in 0 .. MaxText |-> ContentsOf(h, n)]
BY DEF Contents, ContentsOf, ItemsOf

(* A right side depends on the shorter parts only...                       *)
LEMMA BodiesOfBelow ==
  ASSUME NEW g, NEW h, NEW n \in Nat, \A k \in 0 .. n - 1 : g[k] = h[k]
  PROVE  BodiesOf(g, n) = BodiesOf(h, n)
<1>1. CASE n = 0
  BY <1>1 DEF BodiesOf
<1>2. CASE n = 1
  <2>1. n - 1 \in 0 .. n - 1
    BY <1>2
  <2>2. g[n - 1] = h[n - 1]
    BY <2>1
  <2> QED
    BY <1>2, <2>2 DEF BodiesOf
<1>3. CASE n > 1
  <2>1. n - 1 \in 0 .. n - 1 /\ n - 2 \in 0 .. n - 1
    BY <1>3
  <2>2. g[n - 1] = h[n - 1] /\ g[n - 2] = h[n - 2]
    BY <2>1
  <2> QED
    BY <1>3, <2>2 DEF BodiesOf
<1> QED
  BY <1>1, <1>2, <1>3

(* ... and so does the other.                                              *)
LEMMA ContentsOfBelow ==
  ASSUME NEW g, NEW h, NEW n \in Nat, \A k \in 0 .. n - 1 : g[k] = h[k]
  PROVE  ContentsOf(g, n) = ContentsOf(h, n)
<1>1. CASE n = 0
  BY <1>1 DEF ContentsOf
<1>2. CASE n # 0
  <2>1. ASSUME NEW m \in 1 .. n PROVE ItemsOf(g, m) = ItemsOf(h, m) /\ g[n - m] = h[n - m]
    <3>1. n - m \in 0 .. n - 1 /\ (m > 1 => m - 2 \in 0 .. n - 1) /\ m # 0 /\ (m = 1 \/ m > 1)
      OBVIOUS
    <3>2. g[n - m] = h[n - m] /\ (m > 1 => g[m - 2] = h[m - 2])
      BY <3>1
    <3>3. CASE m = 1
      BY <3>2, <3>3 DEF ItemsOf
    <3>4. CASE m > 1
      <4>1. g[m - 2] = h[m - 2]
        BY <3>2, <3>4
      <4>2. \A f : ItemsOf(f, m) = Between("quote", StringBodies[m - 2], "quote")
                                     \cup Between("open", f[m - 2], "close")
        BY <3>4 DEF ItemsOf
      <4> QED
        BY <3>2, <4>1, <4>2
    <3> QED
      BY <3>1, <3>2, <3>3, <3>4
  <2> DEFINE G(m) == Joined(ItemsOf(g, m), g[n - m])
             H(m) == Joined(ItemsOf(h, m), h[n - m])
  <2>2. ASSUME NEW m \in 1 .. n PROVE G(m) = H(m)
    <3>1. ItemsOf(g, m) = ItemsOf(h, m) /\ g[n - m] = h[n - m]
      BY <2>1
    <3> QED
      BY <3>1
  <2>3. ContentsOf(g, n) = UNION {G(m) : m \in 1 .. n} /\ ContentsOf(h, n) = UNION {H(m) : m \in 1 .. n}
    BY <1>2 DEF ContentsOf
  <2> HIDE DEF G, H
  <2>4. {G(m) : m \in 1 .. n} = {H(m) : m \in 1 .. n}
    BY <2>2
  <2> QED
    BY <2>3, <2>4
<1> QED
  BY <1>1, <1>2

(* The solutions.                                                          *)
LEMMA BodiesExist == \E h : h = [n \in 0 .. MaxText |-> BodiesOf(h, n)]
<1> DEFINE Solves(h, m) == \A n \in 0 .. m : h[n] = BodiesOf(h, n)
           T == {m \in Nat : \E h : Solves(h, m)}
<1>1. 0 \in T
  <2> DEFINE h == [n \in 0 .. 0 |-> {<<>>}]
  <2>1. h[0] = {<<>>} /\ BodiesOf(h, 0) = {<<>>}
    BY DEF BodiesOf
  <2>2. \A n \in 0 .. 0 : n = 0
    OBVIOUS
  <2> HIDE DEF h
  <2>3. Solves(h, 0)
    BY <2>1, <2>2
  <2> QED
    BY <2>3
<1>2. ASSUME NEW m \in T PROVE m + 1 \in T
  <2>1. PICK h : Solves(h, m)
    BY <1>2
  <2>2. m \in Nat
    BY <1>2
  <2> DEFINE more == [n \in 0 .. m + 1 |-> BodiesOf(h, n)]
  <2>3. ASSUME NEW n \in 0 .. m PROVE more[n] = h[n]
    <3>1. n \in 0 .. m + 1
      BY <2>2
    <3> QED
      BY <2>1, <3>1
  <2>4. ASSUME NEW n \in 0 .. m + 1 PROVE more[n] = BodiesOf(more, n)
    <3>1. more[n] = BodiesOf(h, n)
      OBVIOUS
    <3> HIDE DEF more
    <3>2. n \in Nat /\ \A k \in 0 .. n - 1 : k \in 0 .. m
      BY <2>2
    <3>3. \A k \in 0 .. n - 1 : more[k] = h[k]
      BY <2>3, <3>2
    <3>4. BodiesOf(more, n) = BodiesOf(h, n)
      BY <3>2, <3>3, BodiesOfBelow
    <3> QED
      BY <3>1, <3>4
  <2> HIDE DEF more
  <2>5. Solves(more, m + 1)
    BY <2>4
  <2> HIDE DEF Solves
  <2> QED
    BY <2>2, <2>5
<1>3. MaxText \in T
  <2>1. T \in SUBSET Nat
    OBVIOUS
  <2> HIDE DEF T
  <2> QED
    BY <1>1, <1>2, <2>1, BoundsAssumption, SetInduction
<1>4. PICK h : Solves(h, MaxText)
  BY <1>3
<1> DEFINE bodies == [n \in 0 .. MaxText |-> h[n]]
<1>5. ASSUME NEW n \in 0 .. MaxText PROVE bodies[n] = BodiesOf(bodies, n)
  <2>1. bodies[n] = BodiesOf(h, n)
    BY <1>4
  <2>2. n \in Nat /\ \A k \in 0 .. n - 1 : k \in 0 .. MaxText
    BY BoundsAssumption
  <2>3. \A k \in 0 .. n - 1 : bodies[k] = h[k]
    BY <2>2
  <2> HIDE DEF bodies
  <2>4. BodiesOf(bodies, n) = BodiesOf(h, n)
    BY <2>2, <2>3, BodiesOfBelow
  <2> QED
    BY <2>1, <2>4
<1>6. bodies = [n \in 0 .. MaxText |-> bodies[n]]
  OBVIOUS
<1> HIDE DEF bodies
<1>7. bodies = [n \in 0 .. MaxText |-> BodiesOf(bodies, n)]
  BY <1>5, <1>6
<1> QED
  BY <1>7

(* And of the objects.                                                     *)
LEMMA ContentsExist == \E h : h = [n \in 0 .. MaxText |-> ContentsOf(h, n)]
<1> DEFINE Solves(h, m) == \A n \in 0 .. m : h[n] = ContentsOf(h, n)
           T == {m \in Nat : \E h : Solves(h, m)}
<1>1. 0 \in T
  <2> DEFINE h == [n \in 0 .. 0 |-> {<<>>}]
  <2>1. h[0] = {<<>>} /\ ContentsOf(h, 0) = {<<>>}
    BY DEF ContentsOf
  <2>2. \A n \in 0 .. 0 : n = 0
    OBVIOUS
  <2> HIDE DEF h
  <2>3. Solves(h, 0)
    BY <2>1, <2>2
  <2> QED
    BY <2>3
<1>2. ASSUME NEW m \in T PROVE m + 1 \in T
  <2>1. PICK h : Solves(h, m)
    BY <1>2
  <2>2. m \in Nat
    BY <1>2
  <2> DEFINE more == [n \in 0 .. m + 1 |-> ContentsOf(h, n)]
  <2>3. ASSUME NEW n \in 0 .. m PROVE more[n] = h[n]
    <3>1. n \in 0 .. m + 1
      BY <2>2
    <3> QED
      BY <2>1, <3>1
  <2>4. ASSUME NEW n \in 0 .. m + 1 PROVE more[n] = ContentsOf(more, n)
    <3>1. more[n] = ContentsOf(h, n)
      OBVIOUS
    <3> HIDE DEF more
    <3>2. n \in Nat /\ \A k \in 0 .. n - 1 : k \in 0 .. m
      BY <2>2
    <3>3. \A k \in 0 .. n - 1 : more[k] = h[k]
      BY <2>3, <3>2
    <3>4. ContentsOf(more, n) = ContentsOf(h, n)
      BY <3>2, <3>3, ContentsOfBelow
    <3> QED
      BY <3>1, <3>4
  <2> HIDE DEF more
  <2>5. Solves(more, m + 1)
    BY <2>4
  <2> HIDE DEF Solves
  <2> QED
    BY <2>2, <2>5
<1>3. MaxText \in T
  <2>1. T \in SUBSET Nat
    OBVIOUS
  <2> HIDE DEF T
  <2> QED
    BY <1>1, <1>2, <2>1, BoundsAssumption, SetInduction
<1>4. PICK h : Solves(h, MaxText)
  BY <1>3
<1> DEFINE contents == [n \in 0 .. MaxText |-> h[n]]
<1>5. ASSUME NEW n \in 0 .. MaxText PROVE contents[n] = ContentsOf(contents, n)
  <2>1. contents[n] = ContentsOf(h, n)
    BY <1>4
  <2>2. n \in Nat /\ \A k \in 0 .. n - 1 : k \in 0 .. MaxText
    BY BoundsAssumption
  <2>3. \A k \in 0 .. n - 1 : contents[k] = h[k]
    BY <2>2
  <2> HIDE DEF contents
  <2>4. ContentsOf(contents, n) = ContentsOf(h, n)
    BY <2>2, <2>3, ContentsOfBelow
  <2> QED
    BY <2>1, <2>4
<1>6. contents = [n \in 0 .. MaxText |-> contents[n]]
  OBVIOUS
<1> HIDE DEF contents
<1>7. contents = [n \in 0 .. MaxText |-> ContentsOf(contents, n)]
  BY <1>5, <1>6
<1> QED
  BY <1>7

(* So the equations hold.                                                  *)
LEMMA BodiesEquation ==
  ASSUME NEW n \in 0 .. MaxText
  PROVE  StringBodies[n] = BodiesOf(StringBodies, n)
<1>1. StringBodies = [k \in 0 .. MaxText |-> BodiesOf(StringBodies, k)]
  BY BodiesUnfold, BodiesExist
<1> QED
  BY <1>1

(* And for the objects.                                                    *)
LEMMA ContentsEquation ==
  ASSUME NEW n \in 0 .. MaxText
  PROVE  Contents[n] = ContentsOf(Contents, n)
<1>1. Contents = [k \in 0 .. MaxText |-> ContentsOf(Contents, k)]
  BY ContentsUnfold, ContentsExist
<1> QED
  BY <1>1

(* By induction over the length: what a string holds is quoted...          *)
LEMMA BodiesAreQuoted ==
  ASSUME NEW n \in 0 .. MaxText, NEW s \in StringBodies[n]
  PROVE  s \in Seq(Characters) /\ Quoted(s)
<1> DEFINE Good(k) == \A b \in StringBodies[k] : b \in Seq(Characters) /\ Quoted(b)
           T == {m \in Nat : \A k \in 0 .. m : k <= MaxText => Good(k)}
<1>1. ASSUME NEW k \in 0 .. MaxText, \A i \in 0 .. k - 1 : Good(i)
      PROVE  Good(k)
  <2> SUFFICES ASSUME NEW b \in StringBodies[k] PROVE b \in Seq(Characters) /\ Quoted(b)
    OBVIOUS
  <2>1. b \in BodiesOf(StringBodies, k)
    BY BodiesEquation
  <2>2. CASE k = 0
    <3>1. b = <<>>
      BY <2>1, <2>2 DEF BodiesOf
    <3> QED
      BY <3>1, QuotedNone
  <2>3. CASE k # 0 /\ b \in Joined(Plain, StringBodies[k - 1])
    <3>1. PICK a \in Plain, r \in StringBodies[k - 1] : b = a \o r
      BY <2>3 DEF Joined
    <3>2. k - 1 \in 0 .. k - 1
      BY <2>3
    <3>3. r \in Seq(Characters) /\ Quoted(r)
      BY <1>1, <3>2
    <3>4. PICK c \in {"open", "close", "x"} : a = <<c>>
      BY DEF Plain
    <3>5. Quoted(b) /\ c \in Characters
      BY <3>1, <3>3, <3>4, QuotedOneMore DEF Characters
    <3>6. b \in Seq(Characters)
      BY <3>1, <3>3, <3>4, <3>5
    <3> QED
      BY <3>5, <3>6
  <2>4. CASE k # 0 /\ k # 1 /\ b \in Joined(Escapes, StringBodies[k - 2])
    <3>1. PICK a \in Escapes, r \in StringBodies[k - 2] : b = a \o r
      BY <2>4 DEF Joined
    <3>2. k - 2 \in 0 .. k - 1
      BY <2>4
    <3>3. r \in Seq(Characters) /\ Quoted(r)
      BY <1>1, <3>2
    <3>4. PICK c \in {"quote", "backslash", "x"} : a = <<"backslash", c>>
      BY DEF Escapes
    <3>5. Quoted(b)
      BY <3>1, <3>3, <3>4, QuotedEscape
    <3>6. c \in Characters /\ "backslash" \in Characters
      BY DEF Characters
    <3>7. b \in Seq(Characters)
      BY <3>1, <3>3, <3>4, <3>6
    <3> QED
      BY <3>5, <3>7
  <2> QED
    BY <2>1, <2>2, <2>3, <2>4 DEF BodiesOf
<1> HIDE DEF Good
<1>2. 0 \in T
  <2>1. 0 \in 0 .. MaxText /\ \A k \in 0 .. 0 : k = 0
    BY BoundsAssumption
  <2>2. Good(0)
    BY <1>1, <2>1
  <2> QED
    BY <2>1, <2>2
<1>3. ASSUME NEW m \in T PROVE m + 1 \in T
  <2>1. m \in Nat /\ \A k \in 0 .. m : k <= MaxText => Good(k)
    BY <1>3
  <2>2. m + 1 <= MaxText => Good(m + 1)
    <3>1. ASSUME m + 1 <= MaxText PROVE Good(m + 1)
      <4>1. m + 1 \in 0 .. MaxText /\ \A i \in 0 .. (m + 1) - 1 : i \in 0 .. m /\ i <= MaxText
        BY <2>1, <3>1, BoundsAssumption
      <4> QED
        BY <1>1, <2>1, <4>1
    <3> QED
      BY <3>1
  <2>3. \A k \in 0 .. m + 1 : k \in 0 .. m \/ k = m + 1
    BY <2>1
  <2> QED
    BY <2>1, <2>2, <2>3
<1>4. MaxText \in T
  <2>1. T \in SUBSET Nat
    OBVIOUS
  <2> HIDE DEF T
  <2> QED
    BY <1>2, <1>3, <2>1, BoundsAssumption, SetInduction
<1>5. Good(n)
  BY <1>4, BoundsAssumption
<1> QED
  BY <1>5 DEF Good

(* ... what an object holds is balanced, item by item...                   *)
LEMMA ItemsAreBalanced ==
  ASSUME NEW m \in 1 .. MaxText, NEW item \in ItemsOf(Contents, m),
         \A i \in 0 .. m - 1 : \A c \in Contents[i] : c \in Seq(Characters) /\ Balanced(c)
  PROVE  item \in Seq(Characters) /\ Balanced(item)
<1>1. CASE m = 1
  <2>1. item = <<"x">>
    BY <1>1 DEF ItemsOf
  <2>2. "x" \in Characters
    BY DEF Characters
  <2> QED
    BY <2>1, <2>2, BalancedOther
<1>2. CASE m > 1
  <2>1. m - 2 \in 0 .. MaxText /\ m - 2 \in 0 .. m - 1
    BY <1>2, BoundsAssumption
  <2>2. item \in Between("quote", StringBodies[m - 2], "quote")
          \cup Between("open", Contents[m - 2], "close")
    BY <1>2 DEF ItemsOf
  <2>3. CASE \E s \in StringBodies[m - 2] : item = <<"quote">> \o s \o <<"quote">>
    <3>1. PICK s \in StringBodies[m - 2] : item = <<"quote">> \o s \o <<"quote">>
      BY <2>3
    <3>2. s \in Seq(Characters) /\ Quoted(s)
      BY <2>1, BodiesAreQuoted
    <3>3. "quote" \in Characters
      BY DEF Characters
    <3>4. item \in Seq(Characters)
      BY <3>1, <3>2, <3>3
    <3>5. Balanced(item)
      BY <3>1, <3>2, BalancedQuotes
    <3> QED
      BY <3>4, <3>5
  <2>4. CASE \E c \in Contents[m - 2] : item = <<"open">> \o c \o <<"close">>
    <3>1. PICK c \in Contents[m - 2] : item = <<"open">> \o c \o <<"close">>
      BY <2>4
    <3>2. c \in Seq(Characters) /\ Balanced(c)
      BY <2>1
    <3>3. "open" \in Characters /\ "close" \in Characters
      BY DEF Characters
    <3>4. item \in Seq(Characters)
      BY <3>1, <3>2, <3>3
    <3>5. Balanced(item)
      BY <3>1, <3>2, BalancedBraces
    <3> QED
      BY <3>4, <3>5
  <2> QED
    BY <2>2, <2>3, <2>4 DEF Between
<1> QED
  BY <1>1, <1>2

(* ... and as a whole.                                                     *)
LEMMA ContentsAreBalanced ==
  ASSUME NEW n \in 0 .. MaxText, NEW c \in Contents[n]
  PROVE  c \in Seq(Characters) /\ Balanced(c)
<1> DEFINE Good(k) == \A b \in Contents[k] : b \in Seq(Characters) /\ Balanced(b)
           T == {m \in Nat : \A k \in 0 .. m : k <= MaxText => Good(k)}
<1>1. ASSUME NEW k \in 0 .. MaxText, \A i \in 0 .. k - 1 : Good(i)
      PROVE  Good(k)
  <2> SUFFICES ASSUME NEW b \in Contents[k] PROVE b \in Seq(Characters) /\ Balanced(b)
    OBVIOUS
  <2>1. b \in ContentsOf(Contents, k)
    BY ContentsEquation
  <2>2. CASE k = 0
    <3>1. b = <<>>
      BY <2>1, <2>2 DEF ContentsOf
    <3> QED
      BY <3>1, BalancedNone
  <2>3. CASE k # 0
    <3>1. PICK m \in 1 .. k : \E i \in ItemsOf(Contents, m), r \in Contents[k - m] : b = i \o r
      <4>1. b \in UNION {Joined(ItemsOf(Contents, m), Contents[k - m]) : m \in 1 .. k}
        BY <2>1, <2>3 DEF ContentsOf
      <4>2. PICK m \in 1 .. k : b \in Joined(ItemsOf(Contents, m), Contents[k - m])
        BY <4>1
      <4> QED
        BY <4>2 DEF Joined
    <3>2. PICK i \in ItemsOf(Contents, m), r \in Contents[k - m] : b = i \o r
      BY <3>1
    <3>3. m \in 1 .. MaxText /\ k - m \in 0 .. k - 1 /\ \A j \in 0 .. m - 1 : j \in 0 .. k - 1
      BY BoundsAssumption
    <3>4. r \in Seq(Characters) /\ Balanced(r)
      BY <1>1, <3>3
    <3>5. i \in Seq(Characters) /\ Balanced(i)
      <4>1. \A j \in 0 .. m - 1 : \A x \in Contents[j] : x \in Seq(Characters) /\ Balanced(x)
        BY <1>1, <3>3
      <4> HIDE DEF Good
      <4> QED
        BY <3>3, <4>1, ItemsAreBalanced
    <3>6. Balanced(b)
      BY <3>2, <3>4, <3>5, BalancedBoth
    <3>7. b \in Seq(Characters)
      BY <3>2, <3>4, <3>5
    <3> QED
      BY <3>6, <3>7
  <2> QED
    BY <2>2, <2>3
<1> HIDE DEF Good
<1>2. 0 \in T
  <2>1. 0 \in 0 .. MaxText /\ \A k \in 0 .. 0 : k = 0
    BY BoundsAssumption
  <2>2. Good(0)
    BY <1>1, <2>1
  <2> QED
    BY <2>1, <2>2
<1>3. ASSUME NEW m \in T PROVE m + 1 \in T
  <2>1. m \in Nat /\ \A k \in 0 .. m : k <= MaxText => Good(k)
    BY <1>3
  <2>2. m + 1 <= MaxText => Good(m + 1)
    <3>1. ASSUME m + 1 <= MaxText PROVE Good(m + 1)
      <4>1. m + 1 \in 0 .. MaxText /\ \A i \in 0 .. (m + 1) - 1 : i \in 0 .. m /\ i <= MaxText
        BY <2>1, <3>1, BoundsAssumption
      <4> QED
        BY <1>1, <2>1, <4>1
    <3> QED
      BY <3>1
  <2>3. \A k \in 0 .. m + 1 : k \in 0 .. m \/ k = m + 1
    BY <2>1
  <2> QED
    BY <2>1, <2>2, <2>3
<1>4. MaxText \in T
  <2>1. T \in SUBSET Nat
    OBVIOUS
  <2> HIDE DEF T
  <2> QED
    BY <1>2, <1>3, <2>1, BoundsAssumption, SetInduction
<1>5. Good(n)
  BY <1>4, BoundsAssumption
<1> QED
  BY <1>5 DEF Good

-----------------------------------------------------------------------------
(* The states of the scan of a text from one brace on.                     *)
Scans(h, text, start) ==
  h = [i \in start - 1 .. Len(text) |->
         IF i = start - 1 THEN AtStart ELSE After(h[i - 1], text[i])]

(* There are such states: the recursion has a solution.                    *)
LEMMA ScanExists ==
  ASSUME NEW text \in Seq(Characters), NEW start \in 1 .. Len(text)
  PROVE  \E h : Scans(h, text, start)
<1> DEFINE At(h, k) == IF k = 0 THEN AtStart ELSE After(h[k - 1], text[start - 1 + k])
           Solves(h, m) == \A k \in 0 .. m : h[k] = At(h, k)
           T == {m \in Nat : \E h : Solves(h, m)}
<1>1. 0 \in T
  <2> DEFINE h == [k \in 0 .. 0 |-> AtStart]
  <2>1. h[0] = At(h, 0)
    OBVIOUS
  <2>2. \A k \in 0 .. 0 : k = 0
    OBVIOUS
  <2> HIDE DEF h, At
  <2>3. Solves(h, 0)
    BY <2>1, <2>2
  <2> QED
    BY <2>3
<1>2. ASSUME NEW m \in T PROVE m + 1 \in T
  <2>1. PICK h : Solves(h, m)
    BY <1>2
  <2>2. m \in Nat
    BY <1>2
  <2> DEFINE more == [k \in 0 .. m + 1 |-> At(h, k)]
  <2>3. ASSUME NEW k \in 0 .. m PROVE more[k] = h[k]
    <3>1. k \in 0 .. m + 1
      BY <2>2
    <3> HIDE DEF At
    <3> QED
      BY <2>1, <3>1
  <2>4. ASSUME NEW k \in 0 .. m + 1 PROVE more[k] = At(more, k)
    <3>1. more[k] = At(h, k)
      BY DEF more
    <3> HIDE DEF more
    <3>2. CASE k = 0
      BY <3>1, <3>2
    <3>3. CASE k # 0
      <4>1. k - 1 \in 0 .. m
        BY <2>2, <3>3
      <4>2. more[k - 1] = h[k - 1]
        BY <2>3, <4>1
      <4> QED
        BY <3>1, <3>3, <4>2
    <3> QED
      BY <3>2, <3>3
  <2> HIDE DEF more, At
  <2>5. Solves(more, m + 1)
    BY <2>4
  <2> HIDE DEF Solves
  <2> QED
    BY <2>2, <2>5
<1> DEFINE rest == Len(text) - start + 1
<1>3. rest \in Nat
  OBVIOUS
<1> HIDE DEF rest
<1>4. rest \in T
  <2>1. T \in SUBSET Nat
    OBVIOUS
  <2> HIDE DEF T
  <2> QED
    BY <1>1, <1>2, <1>3, <2>1, SetInduction
<1>5. PICK h : Solves(h, rest)
  BY <1>4
<1> DEFINE scan == [i \in start - 1 .. Len(text) |-> h[i - (start - 1)]]
           Computed(i) == IF i = start - 1 THEN AtStart ELSE After(scan[i - 1], text[i])
<1>6. ASSUME NEW i \in start - 1 .. Len(text) PROVE scan[i] = Computed(i)
  <2> DEFINE k == i - (start - 1)
  <2>1. k \in 0 .. rest /\ start - 1 + k = i /\ (k = 0 <=> i = start - 1)
    BY DEF rest
  <2>2. scan[i] = h[k]
    OBVIOUS
  <2>3. h[k] = At(h, k)
    <3> HIDE DEF k, scan, At
    <3> QED
      BY <1>5, <2>1
  <2>4. CASE i = start - 1
    <3> HIDE DEF k, scan
    <3> QED
      BY <2>1, <2>2, <2>3, <2>4
  <2>5. CASE i # start - 1
    <3>1. i - 1 \in start - 1 .. Len(text) /\ k - 1 = (i - 1) - (start - 1)
      BY <2>5
    <3>2. scan[i - 1] = h[k - 1]
      BY <3>1
    <3> HIDE DEF k, scan
    <3> QED
      BY <2>1, <2>2, <2>3, <2>5, <3>2
  <2> QED
    BY <2>4, <2>5
<1>7. scan = [i \in start - 1 .. Len(text) |-> scan[i]]
  OBVIOUS
<1> HIDE DEF scan
<1>8. scan = [i \in start - 1 .. Len(text) |-> Computed(i)]
  <2> HIDE DEF Computed
  <2> QED
    BY <1>6, <1>7
<1> QED
  BY <1>8 DEF Scans

(* The braces that bring a scan back to its level.                         *)
Closed(st, text, start) == {i \in start .. Len(text) : text[i] = "close" /\ st[i].depth = 0}

(* What the scan finds, told by one solution of its recursion.             *)
LEMMA CandidatesOf ==
  ASSUME NEW text \in Seq(Characters), NEW start \in 1 .. Len(text)
  PROVE  \E st : /\ Scans(st, text, start)
                 /\ Candidates(text, start) =
                      IF Closed(st, text, start) = {} THEN {}
                      ELSE {SubSeq(text, start, Min(Closed(st, text, start)))}
<1> DEFINE st == CHOOSE h : Scans(h, text, start)
<1>1. Scans(st, text, start)
  BY ScanExists
<1>2. Candidates(text, start) = IF Closed(st, text, start) = {} THEN {}
                                ELSE {SubSeq(text, start, Min(Closed(st, text, start)))}
  BY DEF Candidates, Closed, Scans
<1> HIDE DEF st
<1> QED
  BY <1>1, <1>2

(* The least of a set of numbers is in it.                                 *)
LEMMA MinIsLeast ==
  ASSUME NEW T \in SUBSET Nat, T # {}
  PROVE  Min(T) \in T /\ \A k \in T : Min(T) <= k
<1>1. \E m \in T : \A k \in T : m <= k
  BY LeastNatural
<1> QED
  BY <1>1 DEF Min

(* An object in a text is what the scan finds at its first brace.          *)
LEMMA ObjectsAreFound ==
  ASSUME NEW text \in Seq(Characters), NEW i \in 1 .. Len(text), NEW j \in i .. Len(text),
         SubSeq(text, i, j) \in Objects
  PROVE  text[i] = "open" /\ Candidates(text, i) = {SubSeq(text, i, j)}
<1> DEFINE o == SubSeq(text, i, j)
<1>1. PICK n \in 2 .. MaxText : o \in Between("open", Contents[n - 2], "close")
  BY DEF Objects
<1>2. PICK c \in Contents[n - 2] : o = <<"open">> \o c \o <<"close">>
  BY <1>1 DEF Between
<1>3. c \in Seq(Characters) /\ Balanced(c)
  <2>1. n - 2 \in 0 .. MaxText
    BY BoundsAssumption
  <2> QED
    BY <2>1, ContentsAreBalanced
<1>4. Len(o) = j - i + 1 /\ \A k \in 1 .. Len(o) : o[k] = text[i + k - 1]
  OBVIOUS
<1> HIDE DEF o
<1>5. PICK st : /\ Scans(st, text, i)
                /\ Candidates(text, i) = IF Closed(st, text, i) = {} THEN {}
                                         ELSE {SubSeq(text, i, Min(Closed(st, text, i)))}
  BY CandidatesOf
<1>6. st[i - 1] = AtStart /\ \A k \in i .. Len(text) : st[k] = After(st[k - 1], text[k])
  <2>1. i - 1 \in i - 1 .. Len(text)
    OBVIOUS
  <2>2. \A k \in i .. Len(text) : k \in i - 1 .. Len(text) /\ k # i - 1
    OBVIOUS
  <2>3. \A k \in i - 1 .. Len(text) : st[k] = IF k = i - 1 THEN AtStart ELSE After(st[k - 1], text[k])
    BY <1>5 DEF Scans
  <2> QED
    BY <2>1, <2>2, <2>3
<1> DEFINE p == i - 1
<1>7. p \in Nat /\ p + 1 = i
  OBVIOUS
<1> HIDE DEF p
<1>8. Follows(st, p, o)
  <2>1. ASSUME NEW k \in 1 .. Len(o) PROVE st[p + k] = After(st[p + k - 1], o[k])
    <3>1. p + k \in i .. Len(text) /\ i + k - 1 = p + k
      BY <1>4, <1>7
    <3>2. o[k] = text[p + k]
      <4>1. o[k] = text[i + k - 1]
        BY <1>4
      <4> QED
        BY <3>1, <4>1
    <3>3. st[p + k] = After(st[p + k - 1], text[p + k])
      <4>1. PICK q \in i .. Len(text) : q = p + k
        BY <3>1
      <4>2. st[q] = After(st[q - 1], text[q])
        BY <1>6, <4>1
      <4>3. q - 1 = p + k - 1
        <5>1. Len(o) \in Nat
          BY <1>4
        <5>2. k \in Nat
          BY <5>1
        <5> QED
          BY <1>7, <4>1, <5>2
      <4> QED
        BY <4>1, <4>2, <4>3, Zenon
    <3> QED
      BY <3>2, <3>3
  <2> QED
    BY <2>1 DEF Follows
<1>9. /\ st[p + 1] = After(st[p], "open") /\ Follows(st, p + 1, c)
      /\ st[p + 1 + Len(c) + 1] = After(st[p + 1 + Len(c)], "close")
      /\ Len(o) = Len(c) + 2 /\ Len(c) \in Nat
  <2>1. Follows(st, p, <<"open">> \o c \o <<"close">>)
    BY <1>2, <1>8
  <2>2. "open" \in Characters /\ "close" \in Characters
    BY DEF Characters
  <2>3. /\ st[p + 1] = After(st[p], "open") /\ Follows(st, p + 1, c)
        /\ st[p + 1 + Len(c) + 1] = After(st[p + 1 + Len(c)], "close")
        /\ Len(<<"open">> \o c \o <<"close">>) = Len(c) + 2 /\ Len(c) \in Nat
    BY <1>3, <1>7, <2>1, <2>2, FollowsBetween
  <2> QED
    BY <1>2, <2>3
<1>10. st[i] = Outside(1)
  <2>1. AtStart = Outside(0)
    BY DEF AtStart, Outside
  <2>2. After(Outside(0), "open") = Outside(0 + 1)
    BY ScansOutside
  <2>3. st[p] = AtStart
    BY <1>6 DEF p
  <2> QED
    BY <1>7, <1>9, <2>1, <2>2, <2>3
<1>11. /\ st[i + Len(c)] = Outside(1)
       /\ \A k \in 0 .. Len(c) : st[i + k].depth \in Nat /\ st[i + k].depth >= 1
  <2>1. i \in Nat /\ 1 \in Nat /\ Follows(st, i, c)
    BY <1>7, <1>9
  <2> QED
    BY <1>3, <1>10, <2>1 DEF Balanced
<1>12. j = i + Len(c) + 1
  BY <1>4, <1>9
<1>13. st[j] = Outside(0) /\ st[j].depth = 0
  <2>1. After(Outside(1), "close") = Outside(1 - 1)
    BY ScansOutside
  <2>2. st[j] = After(st[i + Len(c)], "close")
    BY <1>7, <1>9, <1>12
  <2>3. Outside(0).depth = 0
    BY DEF Outside
  <2> QED
    BY <1>11, <2>1, <2>2, <2>3
<1>14. text[i] = "open" /\ text[j] = "close"
  <2>1. o[1] = "open" /\ o[Len(c) + 2] = "close"
    BY <1>2, <1>3
  <2>2. 1 \in 1 .. Len(o) /\ Len(c) + 2 \in 1 .. Len(o) /\ i + 1 - 1 = i /\ i + (Len(c) + 2) - 1 = j
    BY <1>9, <1>12
  <2> QED
    BY <1>4, <2>1, <2>2
<1> DEFINE closed == Closed(st, text, i)
<1>15. j \in closed
  BY <1>13, <1>14 DEF Closed
<1>16. ASSUME NEW k \in closed PROVE j <= k
  <2>1. k \in i .. Len(text) /\ st[k].depth = 0
    BY DEF Closed
  <2>2. ASSUME k < j PROVE FALSE
    <3>1. k - i \in 0 .. Len(c) /\ i + (k - i) = k
      BY <1>9, <1>12, <2>1, <2>2
    <3>2. st[i + (k - i)].depth \in Nat /\ st[i + (k - i)].depth >= 1
      BY <1>11, <3>1
    <3>3. st[i + (k - i)] = st[k]
      BY <3>1
    <3>4. st[k].depth >= 1
      BY <3>2, <3>3
    <3> QED
      BY <2>1, <3>4
  <2>3. k \in Nat /\ j \in Nat
    BY <2>1
  <2> QED
    BY <2>2, <2>3
<1>17. closed \in SUBSET Nat
  BY DEF Closed
<1> HIDE DEF closed
<1>18. Min(closed) \in closed /\ Min(closed) <= j
  BY <1>15, <1>17, MinIsLeast
<1>19. Min(closed) = j
  <2> DEFINE least == Min(closed)
  <2>1. least \in closed /\ least <= j
    BY <1>18
  <2> HIDE DEF least
  <2>2. least \in Nat /\ j \in Nat /\ j <= least
    BY <1>15, <1>16, <1>17, <2>1
  <2>3. least = j
    BY <2>1, <2>2
  <2> QED
    BY <2>3 DEF least
<1> QED
  BY <1>5, <1>14, <1>15, <1>19 DEF closed, o

(* And what the scan finds there is a part of the text.                    *)
LEMMA CandidatesAreParts ==
  ASSUME NEW text \in Seq(Characters), NEW i \in 1 .. Len(text), NEW o \in Candidates(text, i)
  PROVE  \E j \in i .. Len(text) : o = SubSeq(text, i, j)
<1>1. PICK st : /\ Scans(st, text, i)
                /\ Candidates(text, i) = IF Closed(st, text, i) = {} THEN {}
                                         ELSE {SubSeq(text, i, Min(Closed(st, text, i)))}
  BY CandidatesOf
<1> DEFINE closed == Closed(st, text, i)
<1>2. closed \in SUBSET Nat /\ closed \subseteq i .. Len(text)
  BY DEF Closed
<1> HIDE DEF closed
<1>3. closed # {} /\ o = SubSeq(text, i, Min(closed))
  BY <1>1 DEF closed
<1>4. Min(closed) \in i .. Len(text)
  BY <1>2, <1>3, MinIsLeast
<1> QED
  BY <1>3, <1>4

(* So the search finds the first object.                                   *)
LEMMA FirstIsFound ==
  ASSUME question.text \in Upto(MaxText, Characters),
         answer.found = ExtractFirst(question.text, Objects)
  PROVE  ExtractsFirstObject
<1> DEFINE text == question.text
           Begins(i) == \E j \in i .. Len(text) : SubSeq(text, i, j) \in Objects
           begins == {i \in DOMAIN text : Begins(i)}
           starts == {i \in DOMAIN text : text[i] = "open" /\ Candidates(text, i) \cap Objects # {}}
<1>1. text \in Seq(Characters) /\ DOMAIN text = 1 .. Len(text)
  <2>1. PICK k \in 1 .. MaxText : question.text \in [1 .. k -> Characters]
    BY DEF Upto
  <2>2. k \in Nat
    BY BoundsAssumption
  <2> QED
    BY <2>1, <2>2
<1> HIDE DEF text
<1>2. ASSUME NEW i \in begins PROVE i \in starts
  <2>1. i \in 1 .. Len(text)
    BY <1>1
  <2>2. PICK j \in i .. Len(text) : SubSeq(text, i, j) \in Objects
    OBVIOUS
  <2>3. text[i] = "open" /\ Candidates(text, i) = {SubSeq(text, i, j)}
    BY <1>1, <2>1, <2>2, ObjectsAreFound
  <2> QED
    BY <1>1, <2>1, <2>2, <2>3
<1>3. ASSUME NEW i \in starts PROVE i \in begins
  <2>1. i \in 1 .. Len(text)
    BY <1>1
  <2>2. PICK o \in Candidates(text, i) : o \in Objects
    OBVIOUS
  <2>3. PICK j \in i .. Len(text) : o = SubSeq(text, i, j)
    BY <1>1, <2>1, CandidatesAreParts
  <2> QED
    BY <1>1, <2>1, <2>2, <2>3
<1>4. begins = starts
  <2> HIDE DEF begins, starts
  <2>1. begins \subseteq starts /\ starts \subseteq begins
    BY <1>2, <1>3
  <2> QED
    BY <2>1
<1>5. answer.found = IF starts = {} THEN {} ELSE Candidates(text, Min(starts))
  BY DEF ExtractFirst, text
<1> HIDE DEF starts
<1>6. begins = {} => answer.found = {}
  BY <1>4, <1>5
<1>7. ASSUME begins # {}
      PROVE  \E j \in DOMAIN text :
               answer.found = {SubSeq(text, Min(begins), j)} \cap Objects /\ answer.found # {}
  <2> DEFINE m == Min(begins)
  <2>1. begins \in SUBSET Nat
    BY <1>1
  <2>2. m \in begins
    <3> HIDE DEF begins
    <3> QED
      BY <1>7, <2>1, MinIsLeast
  <2> HIDE DEF m
  <2>3. m \in 1 .. Len(text)
    BY <1>1, <2>2
  <2>4. PICK j \in m .. Len(text) : SubSeq(text, m, j) \in Objects
    BY <2>2
  <2>5. Candidates(text, m) = {SubSeq(text, m, j)}
    BY <1>1, <2>3, <2>4, ObjectsAreFound
  <2> HIDE DEF begins
  <2>6. answer.found = Candidates(text, m)
    BY <1>4, <1>5, <1>7 DEF m
  <2>7. j \in DOMAIN text
    BY <1>1, <2>3
  <2>8. answer.found = {SubSeq(text, m, j)} \cap Objects /\ answer.found # {}
    BY <2>4, <2>5, <2>6
  <2> QED
    BY <2>7, <2>8 DEF m
<1> QED
  BY <1>6, <1>7 DEF ExtractsFirstObject, text

-----------------------------------------------------------------------------
(* Every answer is of its question.                                        *)
LEMMA AnswersInit == AlgorithmsInit => AnswersInductive
  BY DEF AlgorithmsInit, AnswersInductive, Asked, Answered

(* A question is answered as it was asked.                                 *)
LEMMA AnswersStep == AnswersInductive /\ [AlgorithmsNext]_asked => AnswersInductive'
<1> SUFFICES ASSUME AnswersInductive, [AlgorithmsNext]_asked PROVE AnswersInductive'
  OBVIOUS
<1>1. CASE Search
  <2>1. /\ answer'.kind = "text" /\ answer'.found = ExtractFirst(question.text, Objects)
        /\ question.kind = "text" /\ question' = question
    BY <1>1 DEF Search
  <2> QED
    BY <2>1 DEF AnswersInductive, Asked, Answered
<1>2. CASE Describe
  <2>1. /\ answer'.kind = "values" /\ answer'.stats \in Stats(question.values)
        /\ question.kind = "values" /\ question' = question
    BY <1>2 DEF Describe
  <2> QED
    BY <2>1 DEF AnswersInductive, Asked, Answered
<1>3. CASE Collect
  <2>1. /\ answer'.kind = "metrics" /\ question.kind = "metrics" /\ question' = question
        /\ answer'.metrics = CollectCloudWatchMetrics(question.points, question.listed, Instance)
    BY <1>3 DEF Collect
  <2> QED
    BY <2>1 DEF AnswersInductive, Asked, Answered
<1>4. CASE UNCHANGED asked
  BY <1>4 DEF asked, AnswersInductive, Asked, Answered
<1> QED
  BY <1>1, <1>2, <1>3, <1>4 DEF AlgorithmsNext

(* So every answer is.                                                     *)
LEMMA AnswersAreOfQuestions == AlgorithmsSpec => []AnswersInductive
BY AnswersInit, AnswersStep, PTL DEF AlgorithmsSpec

(* MetricIsEvidence: whatever datapoints CloudWatch holds, and in whatever *)
(* order list_metrics advertises the dimensions, a metric in the report is *)
(* the newest datapoint in the window of dimensions of the instance, and   *)
(* memory is missing only if there is none.                                *)
THEOREM MetricsAreEvidence == AlgorithmsSpec => []MetricIsEvidence
<1>1. AnswersInductive => MetricIsEvidence
  <2>1. CASE answer.kind = "metrics"
    BY <2>1, CollectedIsEvidence DEF AnswersInductive, Asked, Answered
  <2>2. CASE answer.kind # "metrics"
    BY <2>2 DEF MetricIsEvidence
  <2> QED
    BY <2>1, <2>2
<1> QED
  BY <1>1, AnswersAreOfQuestions, PTL

(* PercentilesSplit: of any number of durations, told however precisely,   *)
(* the statistics of a report are in order, the average but for one        *)
(* thousandth, and a percentile has no more values clearly below and above *)
(* it than its rank allows, all rounded as the code rounds.                *)
THEOREM StatisticsAreInOrder == AlgorithmsSpec => []PercentilesSplit
<1>1. AnswersInductive => PercentilesSplit
  <2>1. CASE AnswersInductive /\ answer.kind = "values"
    <3>1. question.values \in Upto(MaxValues, Values) /\ answer.stats \in Stats(question.values)
      BY <2>1 DEF AnswersInductive, Asked, Answered
    <3>2. PICK n \in 1 .. MaxValues : question.values \in [1 .. n -> Values]
      BY <3>1 DEF Upto
    <3>3. n \in Nat \ {0}
      BY BoundsAssumption
    <3>4. [1 .. n -> Values] \subseteq [1 .. n -> Nat]
      BY ValuesAssumption
    <3> QED
      BY <3>1, <3>2, <3>3, <3>4, DescribedSplits
  <2>2. CASE answer.kind # "values"
    BY <2>2 DEF PercentilesSplit
  <2> QED
    BY <2>1, <2>2
<1> QED
  BY <1>1, AnswersAreOfQuestions, PTL

(* ExtractsFirstObject: of any text, whatever braces, quotes and           *)
(* backslashes it mixes, extract_first_json_object() finds the object that *)
(* begins first, and none only if there is none.                           *)
THEOREM FirstObjectIsExtracted == AlgorithmsSpec => []ExtractsFirstObject
<1>1. AnswersInductive => ExtractsFirstObject
  <2>1. CASE AnswersInductive /\ answer.kind = "text"
    <3>1. /\ question.text \in Upto(MaxText, Characters)
          /\ answer.found = ExtractFirst(question.text, Objects)
      BY <2>1 DEF AnswersInductive, Asked, Answered
    <3> QED
      BY <3>1, FirstIsFound
  <2>2. CASE answer.kind # "text"
    BY <2>2 DEF ExtractsFirstObject
  <2> QED
    BY <2>1, <2>2
<1> QED
  BY <1>1, AnswersAreOfQuestions, PTL
=============================================================================
