------------------------------- MODULE Metrics -------------------------------
(***************************************************************************)
(* collect_cloudwatch_metrics() (tools/telemetry/telemetry/                *)
(* cloudwatch_metrics.py) over what CloudWatch, which is external, holds:  *)
(* of each metric a set of datapoints [dims, at], at most one per time.    *)
(* Dimensions are the instance and possibly one more, on which the agent   *)
(* may publish besides (or instead of) the instance alone.                 *)
(***************************************************************************)
EXTENDS Naturals, FiniteSets, SequencesExt

CONSTANTS
  Alone,       \* no dimension but the instance
  Dimensions,  \* dimension sets: records [instance, extra]
  Times,       \* of datapoints, in periods
  Start, End   \* of the lookback window

ASSUME DimensionsAssumption ==
  /\ IsFiniteSet(Dimensions)
  /\ \A dims \in Dimensions : dims = [instance |-> dims.instance, extra |-> dims.extra]
ASSUME TimesAssumption == Times \subseteq Nat /\ Start \in Nat /\ End \in Nat

Datapoints == [dims : Dimensions, at : Times]

(* get_metric_statistics: exactly these dimensions, within the window.     *)
GetMetricStatistics(points, dims) == {p \in points : p.dims = dims /\ p.at \in Start .. End}

(* The last of the datapoints, sorted by time; none of none.               *)
LatestDatapoint(found) == {p \in found : \A q \in found : q.at <= p.at}

GetLatest(points, dims) == LatestDatapoint(GetMetricStatistics(points, dims))

Primary(instance) == [instance |-> instance, extra |-> Alone]

(* Wrong: whatever list_metrics advertises.                                *)
CandidatesOfAll(listed, instance) == DOMAIN listed

(* Where the dimension sets of the instance are in what is advertised.     *)
CandidateDimensions(listed, instance) == {i \in DOMAIN listed : listed[i].instance = instance}

(* The instance alone if there is a datapoint, or else the first candidate *)
(* that has one.                                                           *)
GetLatestWithFallback(points, listed, instance) ==
  LET serving == {i \in CandidateDimensions(listed, instance) :
                    listed[i] # Primary(instance) /\ GetLatest(points, listed[i]) # {}}
  IN  IF GetLatest(points, Primary(instance)) # {} \/ serving = {}
      THEN GetLatest(points, Primary(instance))
      ELSE GetLatest(points, listed[Min(serving)])

(* Of the instance's own metrics, one of EC2 and the agent's memory.       *)
CollectCloudWatchMetrics(points, listed, instance) ==
  [network |-> GetLatest(points, Primary(instance)),
   memory  |-> GetLatestWithFallback(points, listed, instance)]
=============================================================================
