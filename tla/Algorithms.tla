----------------------------- MODULE Algorithms -----------------------------
(***************************************************************************)
(* The pure algorithms of the telemetry tools (Utils, Metrics) put to one  *)
(* question each: a text to search, values to rank, or a state of          *)
(* CloudWatch to ask for the metrics of an instance.                       *)
(***************************************************************************)
EXTENDS Utils, Metrics

CONSTANTS
  Instance,   \* the instance asked for
  MaxText,    \* BOUND: characters of a text
  MaxValues,  \* BOUND: number of values
  Values      \* durations, in parts of a thousandth of a ms

ASSUME BoundsAssumption == MaxText \in Nat /\ MaxValues \in Nat
ASSUME ValuesAssumption == Values \subseteq Nat

VARIABLES question, answer
asked == <<question, answer>>

Upto(n, S) == UNION {[1 .. k -> S] : k \in 1 .. n}

-----------------------------------------------------------------------------
(* The objects that json.loads() takes, as far as the search can tell:     *)
(* braces and strings nest, a backslash stands in a string only, and not   *)
(* before a brace. What "x" stands for is taken to be in its place.        *)

Between(left, S, right) == {<<left>> \o s \o <<right>> : s \in S}

Joined(S, T) == {a \o b : a \in S, b \in T}

Plain == {<<"open">>, <<"close">>, <<"x">>}
Escapes == {<<"backslash", "quote">>, <<"backslash", "backslash">>, <<"backslash", "x">>}

(* The n characters of a string, and those of an object, between its       *)
(* delimiters.                                                             *)
StringBodies[n \in 0 .. MaxText] ==
  IF n = 0 THEN {<<>>}
  ELSE Joined(Plain, StringBodies[n - 1])
         \cup IF n = 1 THEN {} ELSE Joined(Escapes, StringBodies[n - 2])

Contents[n \in 0 .. MaxText] ==
  LET Items(m) ==
        CASE m = 0 -> {}
          [] m = 1 -> {<<"x">>}
          [] m > 1 -> Between("quote", StringBodies[m - 2], "quote")
                        \cup Between("open", Contents[m - 2], "close")
  IN  IF n = 0 THEN {<<>>} ELSE UNION {Joined(Items(m), Contents[n - m]) : m \in 1 .. n}

Objects == UNION {Between("open", Contents[n - 2], "close") : n \in 2 .. MaxText}

-----------------------------------------------------------------------------
AlgorithmsInit ==
  /\ \/ \E text \in Upto(MaxText, Characters) : question = [kind |-> "text", text |-> text]
     \/ \E values \in Upto(MaxValues, Values) : question = [kind |-> "values", values |-> values]
     \/ \E points \in SUBSET Datapoints, listed \in SetToSeqs(Dimensions) :
          question = [kind |-> "metrics", points |-> points, listed |-> listed]
  /\ answer = [kind |-> "none"]

Search ==
  /\ question.kind = "text" /\ answer.kind = "none"
  /\ answer' = [kind |-> "text", found |-> ExtractFirst(question.text, Objects)]
  /\ UNCHANGED question

Describe ==
  /\ question.kind = "values" /\ answer.kind = "none"
  /\ \E stats \in Stats(question.values) : answer' = [kind |-> "values", stats |-> stats]
  /\ UNCHANGED question

Collect ==
  /\ question.kind = "metrics" /\ answer.kind = "none"
  /\ answer' = [kind |-> "metrics",
                metrics |-> CollectCloudWatchMetrics(question.points, question.listed, Instance)]
  /\ UNCHANGED question

AlgorithmsNext == Search \/ Describe \/ Collect

AlgorithmsSpec == AlgorithmsInit /\ [][AlgorithmsNext]_asked

-----------------------------------------------------------------------------
(* Properties.                                                             *)

(* "Extract the first valid JSON object from mixed openssl/HTTP output"    *)
(* (utils.py): of all objects in the text, wherever braces, quotes and     *)
(* backslashes stand around and inside them, the one that begins first;    *)
(* and None only if there is no object.                                    *)
ExtractsFirstObject ==
  answer.kind = "text" =>
    LET text == question.text
        begins == {i \in DOMAIN text : \E j \in i .. Len(text) : SubSeq(text, i, j) \in Objects}
    IN  IF begins = {} THEN answer.found = {}
        ELSE \E j \in DOMAIN text :
               answer.found = {SubSeq(text, Min(begins), j)} \cap Objects /\ answer.found # {}

(* The statistics of a report are in order, all rounded as they are, and a *)
(* percentile has as many values clearly below and above it (by more than  *)
(* half a thousandth, which is the error of its rounding) as its rank      *)
(* says, whatever their number. The average keeps between the extremes but *)
(* for one thousandth: six times 0.0015 have the average 0.001 and the     *)
(* minimum 0.002.                                                          *)
PercentilesSplit ==
  answer.kind = "values" =>
    LET s == answer.stats
        n == Len(question.values)
        Below(v) == Cardinality({i \in 1 .. n : 2 * question.values[i] < (2 * v - 1) * Precision})
        Above(v) == Cardinality({i \in 1 .. n : 2 * question.values[i] > (2 * v + 1) * Precision})
        Splits(v, p) == /\ 100 * Below(v) < (n - 1) * p + 100
                        /\ 100 * Above(v) < (n - 1) * (100 - p) + 100
    IN  /\ s.min <= s.p50 /\ s.p50 <= s.p95 /\ s.p95 <= s.max
        /\ s.min - 1 <= s.avg /\ s.avg <= s.max + 1
        /\ Splits(s.p50, 50) /\ Splits(s.p95, 95)

(* A metric in the report is a datapoint of the instance it names, the     *)
(* newest of its dimensions and within the window; and memory is missing   *)
(* only if no dimension of the instance has a datapoint in the window.     *)
MetricIsEvidence ==
  answer.kind = "metrics" =>
    LET recent == {p \in question.points : p.dims.instance = Instance /\ p.at \in Start .. End}
        Evidence(found) ==
          /\ found \subseteq recent /\ Cardinality(found) <= 1
          /\ \A p \in found, q \in recent : q.dims = p.dims => q.at <= p.at
        alone == {p \in recent : p.dims.extra = Alone}
    IN  /\ Evidence(answer.metrics.network) /\ Evidence(answer.metrics.memory)
        /\ answer.metrics.memory = {} <=> recent = {}
        /\ alone # {} => answer.metrics.memory = answer.metrics.network
=============================================================================
