------------------------------ MODULE Pipeline ------------------------------
(***************************************************************************)
(* From an event the server logs to an event in the report: JsonLogger     *)
(* writes the file, the CloudWatch agent ships its lines to a log group,   *)
(* and LogCollector reads the group page by page, all at the same time.    *)
(*                                                                         *)
(* The agent is external: it ships each complete line once, in order, and  *)
(* when it likes. A line is one message; it is JSON if it is the line of   *)
(* one event and nothing else.                                             *)
(***************************************************************************)
EXTENDS JsonLogger

CONSTANTS
  LogGroup,                  \* the log group of the file
  LimitPerGroup, PageLimit,  \* of the collector
  MaxEmpty                   \* BOUND: empty pages

ASSUME CollectorAssumption ==
  LimitPerGroup \in Nat \ {0} /\ PageLimit \in Nat \ {0} /\ MaxEmpty \in Nat

VARIABLES stored, deleted, empties, turn, token, waiting, fetched, events_for_group, events,
          summary, aborted

C == INSTANCE LogCollector WITH LOG_GROUPS <- <<LogGroup>>, MaxStored <- MaxEvents

collector == <<stored, deleted, empties, turn, token, waiting, fetched, events_for_group, events,
               summary, aborted>>

-----------------------------------------------------------------------------
(* The n-th line of the file, which ends at its n-th line break.           *)
NthLine(n) == SubSeq(file, IF n = 1 THEN 1 ELSE Nth(Breaks, n - 1) + 1, Nth(Breaks, n))

(* The events whose line that is: none or one.                             *)
EventsOf(n) == {e \in Events : NthLine(n) = Line(e)}

Ship ==
  LET n == Len(stored[LogGroup]) + 1
  IN  /\ LogGroup \notin deleted /\ n <= Cardinality(Breaks)
      /\ stored' = [stored EXCEPT ![LogGroup] = Append(@, IF EventsOf(n) = {} THEN "torn" ELSE "json")]
      /\ UNCHANGED <<vars, deleted, empties, turn, token, waiting, fetched, events_for_group,
                     events, summary, aborted>>

PipelineInit == Init /\ C!Init

PipelineNext ==
  \/ Next /\ UNCHANGED collector
  \/ Ship
  \/ (C!Collect \/ C!Abort \/ C!DeleteGroup(LogGroup)) /\ UNCHANGED vars

PipelineSpec == PipelineInit /\ [][PipelineNext]_<<vars, collector>>

-----------------------------------------------------------------------------
(* Properties.                                                             *)

(* The appends that have left a part of a line in the file, without its    *)
(* line break.                                                             *)
Torn == {e \in Events : /\ \E i \in DOMAIN file : file[i].of = e
                        /\ ~\E i \in DOMAIN file : file[i] = Byte(e, "nl")}

(* The report is the audit trail.  Behind every event in it is a line the  *)
(* server logged and did not give up on; and once a group has been read to *)
(* the end of its pages, every append that had returned and been shipped   *)
(* when reading began is in it - but for one event, at most, for each      *)
(* append that was torn, whose remains the next line is glued to.          *)
ReportTellsTheLog ==
  LET inReport == UNION {EventsOf(events[i].at) : i \in DOMAIN events}
      shipped == {Entered[n] : n \in 1 .. waiting}
      lost == {e \in shipped : outcome[e] = "appended"} \ inReport
  IN  /\ \A i \in DOMAIN events : \E e \in EventsOf(events[i].at) : outcome[e] # "failed"
      /\ turn = 2 /\ summary[LogGroup].exists /\ ~summary[LogGroup].truncated
           => Cardinality(lost) <= Cardinality(Torn)
=============================================================================
