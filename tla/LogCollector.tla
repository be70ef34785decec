---------------------------- MODULE LogCollector ----------------------------
(***************************************************************************)
(* collect_log_events() (tools/telemetry/telemetry/cloudwatch_logs.py):    *)
(* the groups one after the other, and within a group page after page of   *)
(* FilterLogEvents, until the service hands out no token or the limit is   *)
(* reached.                                                                *)
(*                                                                         *)
(* CloudWatch is external: a page holds as many events as the service      *)
(* likes up to the limit asked for, none included, and while the collector *)
(* reads, the agent ships further events, and a group may be deleted.      *)
(***************************************************************************)
EXTENDS Naturals, Sequences, FiniteSets

CONSTANTS
  LOG_GROUPS,     \* log_groups, in the order they are read
  LimitPerGroup,  \* limit_per_group
  PageLimit,      \* the most the service accepts as limit (10000)
  MaxStored,      \* BOUND: events of a group
  MaxEmpty        \* BOUND: empty pages of a group that come with a token

Groups == {LOG_GROUPS[i] : i \in DOMAIN LOG_GROUPS}

ASSUME LogGroupsAssumption ==
  /\ LOG_GROUPS \in Seq(Groups)
  /\ \A i, j \in DOMAIN LOG_GROUPS : LOG_GROUPS[i] = LOG_GROUPS[j] => i = j
ASSUME LimitsAssumption == LimitPerGroup \in Nat \ {0} /\ PageLimit \in Nat \ {0}
ASSUME BoundsAssumption == MaxStored \in Nat /\ MaxEmpty \in Nat

VARIABLES
  \* CloudWatch
  stored,   \* the messages of each group in the time window, oldest first
  deleted,  \* groups that do not exist (any more)
  empties,  \* empty pages so far
  \* the collector
  turn,     \* index in LOG_GROUPS of the group at hand
  token,    \* next_token: how many events it skips; 0 is no token
  waiting,  \* messages the group held when its first page was asked for
  fetched,  \* raw events of each group
  events_for_group,  \* what was made of each message of the group at hand
  events,   \* parsed_events, with their group and their place in it
  summary,  \* groups: what is said of each group, once it is known
  aborted   \* whether an exception has ended the collector
cloudwatch == <<stored, deleted, empties>>
vars == <<cloudwatch, turn, token, waiting, fetched, events_for_group, events, summary, aborted>>

(* A message is a line of JSON, or what a torn append has left of one.     *)
Messages == {"json", "torn"}

Unknown == [exists |-> FALSE, known |-> FALSE, raw |-> 0, parsed |-> 0, truncated |-> FALSE]

Init ==
  /\ stored = [g \in Groups |-> <<>>] /\ deleted \in SUBSET Groups /\ empties = 0
  /\ turn = 1 /\ token = 0 /\ waiting = 0
  /\ fetched = [g \in Groups |-> 0] /\ events_for_group = <<>> /\ events = <<>>
  /\ summary = [g \in Groups |-> Unknown] /\ aborted = FALSE

Running == turn <= Len(LOG_GROUPS) /\ ~aborted
Group == LOG_GROUPS[turn]
Least(a, b) == IF a <= b THEN a ELSE b
Most(a, b) == IF a <= b THEN b ELSE a

-----------------------------------------------------------------------------
(* CloudWatch.                                                             *)

Ship(g) ==
  /\ g \notin deleted /\ Len(stored[g]) < MaxStored
  /\ \E m \in Messages : stored' = [stored EXCEPT ![g] = Append(@, m)]
  /\ UNCHANGED <<deleted, empties, turn, token, waiting, fetched, events_for_group, events,
                 summary, aborted>>

DeleteGroup(g) ==
  /\ g \notin deleted /\ deleted' = deleted \cup {g}
  /\ UNCHANGED <<stored, empties, turn, token, waiting, fetched, events_for_group, events,
                 summary, aborted>>

-----------------------------------------------------------------------------
(* The collector.                                                          *)

(* Wrong: the limit of a page is the limit of the whole group.             *)
AskedIgnoringFetched == Least(PageLimit, LimitPerGroup)

(* The limit of the next page.                                             *)
Asked == Least(PageLimit, Most(1, LimitPerGroup - fetched[Group]))

(* _parse_log_event() over a page of count messages: those that are JSON,  *)
(* with their place in the group, of which the page skips the first.       *)
Parsed(first, count) ==
  LET kept[n \in 0 .. count] ==
        IF n = 0 THEN <<>>
        ELSE IF stored[Group][first + n] = "json"
             THEN Append(kept[n - 1], [group |-> Group, at |-> first + n])
             ELSE kept[n - 1]
  IN  kept[count]

(* Those of the group's messages that are JSON.                            *)
WithJson(seq) == {i \in DOMAIN seq : seq[i] = "json"}

(* Wrong: what is not JSON is counted as well.                             *)
ExistsUnparsed(raw, sofar) ==
  [exists |-> TRUE, known |-> TRUE, raw |-> Len(sofar), parsed |-> Len(sofar),
   truncated |-> raw >= LimitPerGroup]

(* The entry of a group that exists, when raw of its events are fetched.   *)
Exists(raw, sofar) ==
  [exists |-> TRUE, known |-> TRUE, raw |-> Len(sofar),
   parsed |-> Cardinality(WithJson(sofar)), truncated |-> raw >= LimitPerGroup]

(* The loop over the pages ends; the next group starts with an empty list. *)
Conclude(said) ==
  /\ summary' = [summary EXCEPT ![Group] = said]
  /\ turn' = turn + 1 /\ token' = 0 /\ events_for_group' = <<>>

(* Wrong: the token is forgotten between two pages.                        *)
ContinueAfresh(next, sofar) ==
  token' = 0 /\ events_for_group' = sofar /\ UNCHANGED <<turn, summary>>

Continue(next, sofar) ==
  token' = next /\ events_for_group' = sofar /\ UNCHANGED <<turn, summary>>

(* Wrong: a short page is taken for the last.                              *)
LastPageIfShort(next, count, more) == ~more \/ count < Asked \/ next >= LimitPerGroup

LastPage(next, count, more) == ~more \/ next >= LimitPerGroup

(* One page: count events behind the token; more says whether the service  *)
(* hands out another token, which it must while events are left.           *)
Page(count, more) ==
  LET next == fetched[Group] + count
      first == IF token = 0 THEN 0 ELSE token - 1
      sofar == events_for_group \o SubSeq(stored[Group], first + 1, first + count)
  IN  /\ Running /\ Group \notin deleted
      /\ count <= Asked /\ first + count <= Len(stored[Group])
      /\ more \/ first + count = Len(stored[Group])
      /\ IF count = 0 /\ more
         THEN empties < MaxEmpty /\ empties' = empties + 1
         ELSE UNCHANGED empties
      /\ waiting' = IF token = 0 THEN Len(stored[Group]) ELSE waiting
      /\ fetched' = [fetched EXCEPT ![Group] = next]
      /\ events' = events \o Parsed(first, count)
      /\ IF LastPage(next, count, more)
         THEN Conclude(Exists(next, sofar))
         ELSE Continue(first + count + 1, sofar)
      /\ UNCHANGED <<stored, deleted, aborted>>

(* Wrong: a group that is not there is asked for again.                    *)
NotFoundRetried ==
  /\ Running /\ Group \in deleted
  /\ UNCHANGED vars

(* ResourceNotFoundException, for the first page or a later one.           *)
NotFound ==
  /\ Running /\ Group \in deleted
  /\ Conclude([Unknown EXCEPT !.known = TRUE])
  /\ UNCHANGED <<cloudwatch, waiting, fetched, events, aborted>>

(* Any other exception is not caught: there will be no report.             *)
Abort ==
  /\ Running /\ aborted' = TRUE
  /\ UNCHANGED <<cloudwatch, turn, token, waiting, fetched, events_for_group, events, summary>>

Collect == NotFound \/ \E count \in 0 .. MaxStored, more \in BOOLEAN : Page(count, more)

Next == Collect \/ Abort \/ \E g \in Groups : Ship(g) \/ DeleteGroup(g)

Spec == Init /\ [][Next]_vars

FairSpec == Spec /\ WF_vars(Collect)

-----------------------------------------------------------------------------
(* Properties.                                                             *)

(* Every variable stays within its range.                                  *)
TypeOK ==
  /\ stored \in [Groups -> Seq(Messages)] /\ deleted \subseteq Groups /\ empties \in Nat
  /\ turn \in 1 .. Len(LOG_GROUPS) + 1 /\ token \in Nat /\ waiting \in Nat
  /\ fetched \in [Groups -> 0 .. LimitPerGroup]
  /\ events_for_group \in Seq(Messages)
  /\ events \in Seq([group : Groups, at : Nat])
  /\ summary \in [Groups -> [exists : BOOLEAN, known : BOOLEAN, raw : Nat, parsed : Nat,
                             truncated : BOOLEAN]]
  /\ aborted \in BOOLEAN

(* However the service cuts its pages and whatever arrives meanwhile: what *)
(* is collected of a group is exactly the JSON among its first events, as  *)
(* many as have been fetched - nothing else, no hole, none out of order or *)
(* twice.                                                                  *)
Json(g) == {n \in DOMAIN stored[g] : stored[g][n] = "json"}

CollectedExactly ==
  /\ \A i \in DOMAIN events : events[i].at \in Json(events[i].group)
  /\ \A g \in Groups : \A n \in Json(g) :
       n <= fetched[g] <=> \E i \in DOMAIN events : events[i] = [group |-> g, at |-> n]
  /\ \A i, j \in DOMAIN events :
       i < j /\ events[i].group = events[j].group => events[i].at < events[j].at

(* A group that is not said to be truncated is complete: at the end of its *)
(* pages, everything that was there at their beginning has been fetched.   *)
CompleteUnlessTruncated ==
  [][turn' = turn + 1 /\ summary'[Group].exists /\ ~summary'[Group].truncated
       => fetched'[Group] >= waiting']_vars

(* The numbers said of a group are taken from a list of its own, the       *)
(* events in the report go to another: they agree for each group that is   *)
(* said to exist, whatever was read of the groups before it.  (Of a group  *)
(* deleted between two of its pages the code says that it does not exist,  *)
(* beside the events of it that are in the report already.)                *)
InReport(g) == {i \in DOMAIN events : events[i].group = g}

CountsAgree ==
  \A g \in Groups : summary[g].known /\ summary[g].exists =>
    summary[g].raw = fetched[g] /\ summary[g].parsed = Cardinality(InReport(g))

(* The loop over the pages ends, if the service does not send empty pages  *)
(* for ever.                                                               *)
CollectionEnds == <>(turn = Len(LOG_GROUPS) + 1 \/ aborted)

=============================================================================
