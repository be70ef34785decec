------------------------- MODULE LogCollectorProofs -------------------------
(***************************************************************************)
(* Theorems about LogCollector.tla, for every list of log groups and all   *)
(* limits, whatever the service puts on its pages.                         *)
(***************************************************************************)
EXTENDS LogCollector, SequenceTheorems, FiniteSetTheorems, WellFoundedInduction, TLAPS

USE LogGroupsAssumption, LimitsAssumption, BoundsAssumption

(* What the collector has not reached, nothing is fetched or known of; and *)
(* a token stands for what has been fetched, which is below the limit.     *)
Place ==
  /\ \A k \in DOMAIN LOG_GROUPS : k >= turn =>
       /\ ~summary[LOG_GROUPS[k]].known
       /\ k > turn \/ token = 0 => fetched[LOG_GROUPS[k]] = 0
  /\ token > 0 => /\ turn \in DOMAIN LOG_GROUPS
                  /\ fetched[Group] = token - 1 /\ fetched[Group] < LimitPerGroup
                  /\ waiting <= Len(stored[Group])

(* No more is fetched than there is.                                       *)
Within == \A g \in Groups : fetched[g] <= Len(stored[g])

(* The list of the group at hand holds what has been fetched of it.        *)
Tally ==
  turn \in DOMAIN LOG_GROUPS =>
    /\ Len(events_for_group) = fetched[Group]
    /\ \A n \in DOMAIN events_for_group : events_for_group[n] = stored[Group][n]

(* The inductive invariant.                                                *)
Inductive == TypeOK /\ Place /\ Within /\ Tally /\ CollectedExactly /\ CountsAgree

Record == [group : Groups, at : Nat]

-----------------------------------------------------------------------------
(* A set of naturals with 0 and, with each number, its successor, has all  *)
(* of them.                                                                *)
LEMMA SetInduction ==
  ASSUME NEW T \in SUBSET Nat, 0 \in T, \A n \in T : n + 1 \in T
  PROVE  T = Nat
<1> DEFINE R == OpToRel(<, Nat)
<1>1. \A x, y \in Nat : <<x, y>> \in R <=> x < y
  BY DEF OpToRel
<1>2. IsWellFoundedOn(R, Nat)
  BY NatLessThanWellFounded
<1> HIDE DEF R
<1> SUFFICES ASSUME Nat \ T # {} PROVE FALSE
  OBVIOUS
<1>3. PICK m \in Nat \ T : \A y \in Nat \ T : <<y, m>> \notin R
  BY <1>2, WFMin
<1>4. m # 0 /\ m - 1 \in Nat /\ m - 1 < m
  BY <1>3
<1>5. m - 1 \in T
  BY <1>1, <1>3, <1>4
<1>6. m - 1 + 1 \in T
  BY <1>5
<1> QED
  BY <1>3, <1>4, <1>6

(* The equation of kept in Parsed has a solution...                        *)
Solves(kept, messages, g, from, N) ==
  kept = [n \in 0 .. N |-> IF n = 0 THEN <<>>
                           ELSE IF messages[from + n] = "json"
                                THEN Append(kept[n - 1], [group |-> g, at |-> from + n])
                                ELSE kept[n - 1]]

LEMMA Solvable ==
  ASSUME NEW messages, NEW g, NEW from \in Nat, NEW N \in Nat
  PROVE  \E kept : Solves(kept, messages, g, from, N)
<1> DEFINE T == {n \in Nat : \E kept : Solves(kept, messages, g, from, n)}
<1>1. 0 \in T
  <2> DEFINE none == [n \in 0 .. 0 |-> <<>>]
  <2>1. Solves(none, messages, g, from, 0)
    BY DEF Solves
  <2> QED
    BY <2>1
<1>2. ASSUME NEW n \in T PROVE n + 1 \in T
  <2>1. PICK kept : Solves(kept, messages, g, from, n)
    BY <1>2
  <2> DEFINE last == IF messages[from + (n + 1)] = "json"
                     THEN Append(kept[n], [group |-> g, at |-> from + (n + 1)]) ELSE kept[n]
             more == [k \in 0 .. n + 1 |-> IF k = n + 1 THEN last ELSE kept[k]]
  <2>2. n \in Nat /\ \A k \in 0 .. n + 1 : k = n + 1 \/ k \in 0 .. n
    BY <1>2
  <2>3. ASSUME NEW k \in 0 .. n + 1
        PROVE  more[k] = IF k = 0 THEN <<>>
                         ELSE IF messages[from + k] = "json"
                              THEN Append(more[k - 1], [group |-> g, at |-> from + k])
                              ELSE more[k - 1]
    <3>1. CASE k = n + 1
      <4>1. k # 0 /\ more[k] = last /\ more[k - 1] = kept[n]
        BY <2>2, <3>1
      <4> QED
        BY <3>1, <4>1
    <3>2. CASE k \in 0 .. n
      <4>1. more[k] = kept[k] /\ (k # 0 => more[k - 1] = kept[k - 1])
        BY <2>2, <3>2
      <4>2. kept[k] = IF k = 0 THEN <<>>
                      ELSE IF messages[from + k] = "json"
                           THEN Append(kept[k - 1], [group |-> g, at |-> from + k])
                           ELSE kept[k - 1]
        BY <2>1, <3>2 DEF Solves
      <4> QED
        BY <4>1, <4>2
    <3> QED
      BY <2>2, <3>1, <3>2
  <2>4. Solves(more, messages, g, from, n + 1)
    <3> HIDE DEF last
    <3>1. more = [k \in 0 .. n + 1 |-> more[k]]
      OBVIOUS
    <3> HIDE DEF more
    <3> QED
      BY <2>3, <3>1 DEF Solves
  <2> QED
    BY <2>2, <2>4
<1> HIDE DEF T
<1>3. T = Nat
  <2>1. T \in SUBSET Nat
    BY DEF T
  <2> QED
    BY <1>1, <1>2, <2>1, SetInduction
<1> QED
  BY <1>3 DEF T

(* ... and its values are what has been kept of the first n messages: the  *)
(* JSON among them, all of it, in its order.                               *)
Keeps(found, messages, g, from, n) ==
  LET places == {k \in from + 1 .. from + n : messages[k] = "json"}
  IN  /\ found \in Seq([group : {g}, at : places])
      /\ \A k \in places : \E i \in DOMAIN found : found[i] = [group |-> g, at |-> k]
      /\ \A i, j \in DOMAIN found : i < j => found[i].at < found[j].at

LEMMA KeepsNone ==
  ASSUME NEW messages, NEW g, NEW from \in Nat
  PROVE  Keeps(<<>>, messages, g, from, 0)
<1>1. from + 1 .. from + 0 = {}
  OBVIOUS
<1> QED
  BY <1>1 DEF Keeps

LEMMA KeepsOneMore ==
  ASSUME NEW messages, NEW g, NEW from \in Nat, NEW n \in Nat, NEW found,
         Keeps(found, messages, g, from, n)
  PROVE  Keeps(IF messages[from + (n + 1)] = "json"
               THEN Append(found, [group |-> g, at |-> from + (n + 1)]) ELSE found,
               messages, g, from, n + 1)
<1> DEFINE old == {k \in from + 1 .. from + n : messages[k] = "json"}
           new == {k \in from + 1 .. from + (n + 1) : messages[k] = "json"}
           e == [group |-> g, at |-> from + (n + 1)]
<1>1. /\ found \in Seq([group : {g}, at : old])
      /\ \A k \in old : \E i \in DOMAIN found : found[i] = [group |-> g, at |-> k]
      /\ \A i, j \in DOMAIN found : i < j => found[i].at < found[j].at
  BY DEF Keeps
<1>2. /\ old \subseteq new /\ \A k \in old : k < from + (n + 1) /\ k \in Nat
      /\ new \subseteq old \cup {from + (n + 1)}
  OBVIOUS
<1>3. /\ found \in Seq([group : {g}, at : new]) /\ Len(found) \in Nat
      /\ DOMAIN found = 1 .. Len(found) /\ \A i \in DOMAIN found : found[i].at \in old
  <2> DEFINE Old == [group : {g}, at : old]
             New == [group : {g}, at : new]
  <2>1. Old \subseteq New /\ \A x \in Old : x.at \in old
    BY <1>2
  <2>2. found \in Seq(Old)
    BY <1>1
  <2> HIDE DEF Old, New
  <2>3. Len(found) \in Nat /\ DOMAIN found = 1 .. Len(found) /\ \A i \in DOMAIN found : found[i] \in Old
    BY <2>2
  <2>4. found \in Seq(New)
    BY <2>1, <2>2, <2>3
  <2> QED
    BY <2>1, <2>3, <2>4 DEF New
<1>4. CASE messages[from + (n + 1)] = "json"
  <2>1. from + (n + 1) \in new
    BY <1>4
  <2> HIDE DEF old, new
  <2>2. e \in [group : {g}, at : new] /\ e.at = from + (n + 1)
    BY <2>1
  <2> HIDE DEF e
  <2> DEFINE more == Append(found, e)
  <2>3. /\ more \in Seq([group : {g}, at : new]) /\ DOMAIN more = 1 .. Len(found) + 1
        /\ more[Len(found) + 1] = e /\ \A i \in DOMAIN found : more[i] = found[i]
    BY <1>3, <2>2
  <2> HIDE DEF more
  <2>4. ASSUME NEW k \in new PROVE \E i \in DOMAIN more : more[i] = [group |-> g, at |-> k]
    <3>1. CASE k \in old
      BY <1>1, <1>3, <2>3, <3>1
    <3>2. CASE k = from + (n + 1)
      BY <1>3, <2>3, <3>2 DEF e
    <3> QED
      BY <1>2, <3>1, <3>2
  <2>5. ASSUME NEW i \in DOMAIN more, NEW j \in DOMAIN more, i < j
        PROVE  more[i].at < more[j].at
    <3>1. i \in DOMAIN found /\ (j \in DOMAIN found \/ j = Len(found) + 1)
      BY <1>3, <2>3, <2>5
    <3> QED
      BY <1>1, <1>2, <1>3, <2>2, <2>3, <2>5, <3>1
  <2> QED
    BY <1>4, <2>3, <2>4, <2>5 DEF Keeps, more, e, new
<1>5. CASE messages[from + (n + 1)] # "json"
  <2>1. new = old
    BY <1>2, <1>5
  <2> QED
    BY <1>1, <1>5, <2>1 DEF Keeps
<1> QED
  BY <1>4, <1>5

(* So Parsed is the JSON of the page, whole and in order.                  *)
LEMMA ParsedKeeps ==
  ASSUME NEW from \in Nat, NEW count \in Nat
  PROVE  Keeps(Parsed(from, count), stored[Group], Group, from, count)
<1> DEFINE kept == CHOOSE f : Solves(f, stored[Group], Group, from, count)
<1>1. Solves(kept, stored[Group], Group, from, count)
  BY Solvable
<1>2. Parsed(from, count) = kept[count]
  BY DEF Parsed, Solves
<1> HIDE DEF kept
<1> DEFINE T == {n \in Nat : n <= count => Keeps(kept[n], stored[Group], Group, from, n)}
<1>3. 0 \in T
  <2>1. kept[0] = <<>>
    BY <1>1 DEF Solves
  <2> QED
    BY <2>1, KeepsNone
<1>4. ASSUME NEW n \in T PROVE n + 1 \in T
  <2> SUFFICES ASSUME n + 1 <= count
               PROVE  Keeps(kept[n + 1], stored[Group], Group, from, n + 1)
    OBVIOUS
  <2>1. n \in Nat /\ Keeps(kept[n], stored[Group], Group, from, n)
    BY <1>4
  <2>2. n + 1 \in 0 .. count /\ n + 1 # 0 /\ (n + 1) - 1 = n
    BY <2>1
  <2>3. kept[n + 1] = IF stored[Group][from + (n + 1)] = "json"
                      THEN Append(kept[n], [group |-> Group, at |-> from + (n + 1)])
                      ELSE kept[n]
    <3>1. \A k \in 0 .. count :
            kept[k] = IF k = 0 THEN <<>>
                      ELSE IF stored[Group][from + k] = "json"
                           THEN Append(kept[k - 1], [group |-> Group, at |-> from + k])
                           ELSE kept[k - 1]
      BY <1>1 DEF Solves
    <3> QED
      BY <2>2, <3>1
  <2> HIDE DEF T
  <2> QED
    BY <2>1, <2>3, KeepsOneMore
<1> HIDE DEF T
<1>5. count \in T
  <2>1. T \in SUBSET Nat
    BY DEF T
  <2> QED
    BY <1>3, <1>4, <2>1, SetInduction
<1> QED
  BY <1>2, <1>5 DEF T

-----------------------------------------------------------------------------
(* The initial states satisfy the invariant.                               *)
LEMMA InitInductive == Init => Inductive
<1> SUFFICES ASSUME Init PROVE Inductive
  OBVIOUS
<1>1. DOMAIN events = {} /\ Len(<<>>) = 0 /\ DOMAIN <<>> = {} /\ <<>> \in Seq(Messages) /\ <<>> \in Seq(Record)
  BY DEF Init
<1>2. Len(LOG_GROUPS) \in Nat
  OBVIOUS
<1>3. TypeOK
  <2>1. Unknown \in [exists : BOOLEAN, known : BOOLEAN, raw : Nat, parsed : Nat, truncated : BOOLEAN]
    BY DEF Unknown
  <2>2. 1 \in 1 .. Len(LOG_GROUPS) + 1
    BY <1>2
  <2>3. stored \in [Groups -> Seq(Messages)] /\ fetched \in [Groups -> 0 .. LimitPerGroup]
    BY <1>1 DEF Init
  <2>4. summary \in [Groups -> [exists : BOOLEAN, known : BOOLEAN, raw : Nat, parsed : Nat,
                                truncated : BOOLEAN]]
    BY <2>1 DEF Init
  <2>5. events \in Seq([group : Groups, at : Nat]) /\ events_for_group \in Seq(Messages)
    BY <1>1 DEF Init, Record
  <2> QED
    BY <2>2, <2>3, <2>4, <2>5 DEF Init, TypeOK
<1>4. Place /\ Within
  BY DEF Init, Place, Within, Unknown, Groups
<1>5. CollectedExactly
  <2>1. \A g \in Groups : Json(g) = {}
    BY DEF Init, Json
  <2> QED
    BY <1>1, <2>1 DEF CollectedExactly
<1>6. CountsAgree
  BY DEF Init, CountsAgree, Unknown
<1>7. Tally
  BY <1>1 DEF Init, Tally, Group, Groups
<1> QED
  BY <1>3, <1>4, <1>5, <1>6, <1>7 DEF Inductive

(* The group at hand is one of the groups, and no other has its place.     *)
LEMMA GroupAtHand ==
  ASSUME TypeOK, Running
  PROVE  /\ turn \in DOMAIN LOG_GROUPS /\ Group \in Groups
         /\ turn \in Nat /\ Len(LOG_GROUPS) \in Nat /\ turn + 1 \in 1 .. Len(LOG_GROUPS) + 1
         /\ \A k \in DOMAIN LOG_GROUPS : k \in Nat /\ LOG_GROUPS[k] \in Groups
         /\ \A k \in DOMAIN LOG_GROUPS : LOG_GROUPS[k] = Group => k = turn
<1>1. Len(LOG_GROUPS) \in Nat /\ DOMAIN LOG_GROUPS = 1 .. Len(LOG_GROUPS)
  OBVIOUS
<1>2. turn \in DOMAIN LOG_GROUPS
  BY <1>1 DEF TypeOK, Running
<1> QED
  BY <1>1, <1>2 DEF Group, Groups

(* Events are records of their group and their place in it.                *)
LEMMA EventFacts ==
  ASSUME TypeOK
  PROVE  /\ events \in Seq(Record) /\ Len(events) \in Nat /\ DOMAIN events = 1 .. Len(events)
         /\ \A i \in DOMAIN events :
              /\ events[i].group \in Groups /\ events[i].at \in Nat
              /\ events[i] = [group |-> events[i].group, at |-> events[i].at]
<1>1. events \in Seq(Record)
  BY DEF TypeOK, Record
<1>2. Len(events) \in Nat /\ DOMAIN events = 1 .. Len(events)
  BY <1>1
<1>3. \A i \in DOMAIN events : events[i] \in Record
  BY <1>1, <1>2
<1> QED
  BY <1>1, <1>2, <1>3 DEF Record

(* Where neither the report nor the numbers change, they still agree.      *)
LEMMA SameCounts ==
  ASSUME CountsAgree, UNCHANGED <<events, fetched, summary>>
  PROVE  CountsAgree'
<1>1. \A g : InReport(g)' = InReport(g)
  BY DEF InReport
<1> QED
  BY <1>1 DEF CountsAgree

(* The service: a message more...                                          *)
LEMMA ShipInductive == ASSUME Inductive, NEW g \in Groups, Ship(g) PROVE Inductive'
<1> USE DEF Inductive
<1>1. PICK m \in Messages : stored' = [stored EXCEPT ![g] = Append(@, m)]
  BY DEF Ship
<1>2. UNCHANGED <<deleted, empties, turn, token, waiting, fetched, events_for_group, events, summary, aborted>>
  BY DEF Ship
<1>3. /\ stored'[g] = Append(stored[g], m) /\ \A h \in Groups \ {g} : stored'[h] = stored[h]
      /\ stored' \in [Groups -> Seq(Messages)]
  BY <1>1 DEF TypeOK
<1>4. /\ stored[g] \in Seq(Messages) /\ Len(stored[g]) \in Nat /\ DOMAIN stored[g] = 1 .. Len(stored[g])
      /\ Len(stored'[g]) = Len(stored[g]) + 1
      /\ DOMAIN stored'[g] = 1 .. Len(stored[g]) + 1
      /\ \A n \in DOMAIN stored[g] : stored'[g][n] = stored[g][n]
  BY <1>3 DEF TypeOK
<1>5. TypeOK'
  BY <1>2, <1>3 DEF TypeOK
<1>6. \A h \in Groups : Len(stored[h]) <= Len(stored'[h]) /\ Len(stored'[h]) \in Nat
                        /\ Len(stored[h]) \in Nat
  <2>1. \A h \in Groups : stored[h] \in Seq(Messages) /\ stored'[h] \in Seq(Messages)
    BY <1>3 DEF TypeOK
  <2>2. \A h \in Groups : Len(stored'[h]) \in Nat /\ Len(stored[h]) \in Nat
    BY <2>1
  <2>3. \A h \in Groups \ {g} : Len(stored'[h]) = Len(stored[h])
    BY <1>3
  <2> QED
    BY <1>4, <2>2, <2>3
<1>7. Place'
  <2>1. Group' = Group
    BY <1>2 DEF Group
  <2>2. ASSUME token > 0
        PROVE  /\ turn \in DOMAIN LOG_GROUPS
               /\ fetched[Group] = token - 1 /\ fetched[Group] < LimitPerGroup
               /\ waiting <= Len(stored'[Group])
    <3>1. Group \in Groups
      BY <2>2 DEF Place, Group, Groups
    <3>2. /\ turn \in DOMAIN LOG_GROUPS
          /\ fetched[Group] = token - 1 /\ fetched[Group] < LimitPerGroup
          /\ waiting <= Len(stored[Group]) /\ waiting \in Nat
      BY <2>2 DEF Place, TypeOK
    <3>3. waiting <= Len(stored'[Group])
      BY <1>6, <3>1, <3>2
    <3> QED
      BY <3>2, <3>3
  <2> QED
    BY <1>2, <2>1, <2>2 DEF Place
<1>8. Within'
  BY <1>2, <1>6 DEF Within, TypeOK
<1>9. CollectedExactly'
  <2> DEFINE last == Len(stored[g]) + 1
  <2>1. /\ Json(g) \subseteq Json(g)' /\ \A n \in Json(g)' : n \in Json(g) \/ n = last
        /\ \A h \in Groups \ {g} : Json(h)' = Json(h)
    <3>1. \A n : n \in DOMAIN stored'[g] => n \in DOMAIN stored[g] \/ n = last
      BY <1>4
    <3>2. DOMAIN stored[g] \subseteq DOMAIN stored'[g]
      BY <1>4
    <3> HIDE DEF last
    <3>3. Json(g) \subseteq Json(g)'
      BY <1>4, <3>2 DEF Json
    <3>4. \A n \in Json(g)' : n \in Json(g) \/ n = last
      BY <1>4, <3>1 DEF Json
    <3>5. \A h \in Groups \ {g} : Json(h)' = Json(h)
      BY <1>3 DEF Json
    <3> QED
      BY <3>3, <3>4, <3>5
  <2>2. ASSUME NEW h \in Groups PROVE Json(h) \subseteq Json(h)'
    BY <2>1
  <2>3. ASSUME NEW h \in Groups, NEW n \in Json(h)' PROVE n \in Json(h) \/ fetched[h] < n
    <3>1. fetched[g] < last
      BY <1>4 DEF Within, TypeOK
    <3> QED
      BY <2>1, <2>3, <3>1
  <2>4. (\A i \in DOMAIN events : events[i].at \in Json(events[i].group))'
    BY <1>2, <2>2, EventFacts DEF CollectedExactly
  <2>5. ASSUME NEW h \in Groups, NEW n \in Json(h)'
        PROVE  n <= fetched[h] <=> \E i \in DOMAIN events : events[i] = [group |-> h, at |-> n]
    <3>1. CASE n \in Json(h)
      BY <3>1 DEF CollectedExactly
    <3>2. CASE n \notin Json(h)
      <4>1. fetched[h] \in Nat /\ n \in Nat
        <5>1. n \in DOMAIN stored'[h] /\ stored'[h] \in Seq(Messages)
          BY <1>3, <2>5 DEF Json
        <5>2. DOMAIN stored'[h] = 1 .. Len(stored'[h])
          BY <5>1
        <5> QED
          BY <1>6, <5>1, <5>2 DEF TypeOK
      <4>2. fetched[h] < n /\ fetched[h] \in Nat /\ n \in Nat
        BY <2>3, <2>5, <3>2, <4>1
      <4>3. ASSUME NEW i \in DOMAIN events, events[i] = [group |-> h, at |-> n] PROVE FALSE
        BY <3>2, <4>3 DEF CollectedExactly
      <4> QED
        BY <4>2, <4>3
    <3> QED
      BY <3>1, <3>2
  <2> QED
    BY <1>2, <2>4, <2>5 DEF CollectedExactly
<1>10. CountsAgree'
  BY <1>2, SameCounts
<1>11. Tally'
  <2> SUFFICES ASSUME turn \in DOMAIN LOG_GROUPS
               PROVE  /\ Len(events_for_group) = fetched[Group]
                      /\ \A n \in DOMAIN events_for_group : events_for_group[n] = stored'[Group][n]
    BY <1>2 DEF Tally, Group
  <2>1. /\ Group \in Groups /\ events_for_group \in Seq(Messages)
        /\ Len(events_for_group) = fetched[Group] /\ fetched[Group] <= Len(stored[Group])
        /\ \A n \in DOMAIN events_for_group : events_for_group[n] = stored[Group][n]
    BY DEF Tally, Within, TypeOK, Group, Groups
  <2>2. DOMAIN events_for_group = 1 .. Len(events_for_group) /\ Len(events_for_group) \in Nat
    BY <2>1
  <2>3. ASSUME NEW n \in DOMAIN events_for_group PROVE stored'[Group][n] = stored[Group][n]
    <3>1. Group # g => stored'[Group] = stored[Group]
      BY <1>3, <2>1
    <3>2. Group = g => n \in DOMAIN stored[g]
      BY <1>4, <2>1, <2>2, <2>3
    <3> QED
      BY <1>4, <3>1, <3>2
  <2> QED
    BY <2>1, <2>3
<1> QED
  BY <1>5, <1>7, <1>8, <1>9, <1>10, <1>11

(* ... or a group less.                                                    *)
LEMMA DeleteInductive == ASSUME Inductive, NEW g \in Groups, DeleteGroup(g) PROVE Inductive'
<1>1. deleted' = deleted \cup {g}
      /\ UNCHANGED <<stored, empties, turn, token, waiting, fetched, events_for_group, events, summary, aborted>>
  BY DEF DeleteGroup
<1>2. TypeOK' /\ Place' /\ Within' /\ Tally' /\ CountsAgree'
  BY <1>1, SameCounts DEF Inductive, TypeOK, Place, Within, Tally, Group
<1>3. CollectedExactly'
  BY <1>1 DEF Inductive, CollectedExactly, Json
<1> QED
  BY <1>2, <1>3 DEF Inductive

(* The next group starts with an empty list.                               *)
LEMMA EmptyTally ==
  ASSUME turn' \in Nat, token' = 0, events_for_group' = <<>>, Place'
  PROVE  Tally'
<1>1. Len(<<>>) = 0 /\ DOMAIN <<>> = {}
  OBVIOUS
<1>2. ASSUME turn' \in DOMAIN LOG_GROUPS PROVE fetched'[LOG_GROUPS[turn']] = 0
  <2>1. turn' >= turn'
    OBVIOUS
  <2> QED
    BY <1>2, <2>1 DEF Place
<1> QED
  BY <1>1, <1>2 DEF Tally, Group

(* A group that is not there.                                              *)
LEMMA NotFoundInductive == Inductive /\ NotFound => Inductive'
<1> SUFFICES ASSUME Inductive, NotFound PROVE Inductive'
  OBVIOUS
<1> USE DEF Inductive
<1> DEFINE said == [Unknown EXCEPT !.known = TRUE]
<1>1. /\ Running /\ Group \in deleted /\ turn' = turn + 1 /\ token' = 0
      /\ events_for_group' = <<>>
      /\ summary' = [summary EXCEPT ![Group] = said]
      /\ UNCHANGED <<stored, deleted, empties, waiting, fetched, events, aborted>>
  BY DEF NotFound, Conclude, cloudwatch
<1>2. /\ turn \in DOMAIN LOG_GROUPS /\ Group \in Groups
      /\ turn \in Nat /\ turn + 1 \in 1 .. Len(LOG_GROUPS) + 1
      /\ \A k \in DOMAIN LOG_GROUPS : k \in Nat /\ LOG_GROUPS[k] \in Groups
      /\ \A k \in DOMAIN LOG_GROUPS : LOG_GROUPS[k] = Group => k = turn
  BY <1>1, GroupAtHand
<1>3. /\ said \in [exists : BOOLEAN, known : BOOLEAN, raw : Nat, parsed : Nat, truncated : BOOLEAN]
      /\ said.exists = FALSE /\ said.raw = 0 /\ said.parsed = 0
  BY DEF Unknown
<1> HIDE DEF said
<1>4. TypeOK'
  <2>1. <<>> \in Seq(Messages)
    OBVIOUS
  <2> QED
    BY <1>1, <1>2, <1>3, <2>1 DEF TypeOK
<1>5. Place'
  <2>1. ASSUME NEW k \in DOMAIN LOG_GROUPS, k >= turn + 1
        PROVE  ~summary'[LOG_GROUPS[k]].known /\ fetched[LOG_GROUPS[k]] = 0
    <3>1. k >= turn /\ k > turn /\ LOG_GROUPS[k] # Group
      BY <1>2, <2>1
    <3>2. summary'[LOG_GROUPS[k]] = summary[LOG_GROUPS[k]]
      BY <1>1, <1>2, <3>1 DEF TypeOK
    <3> QED
      BY <3>1, <3>2 DEF Place
  <2> QED
    BY <1>1, <2>1 DEF Place
<1>6. Within' /\ CollectedExactly'
  BY <1>1 DEF Within, CollectedExactly, Json
<1>7. CountsAgree'
  <2>1. summary'[Group] = said /\ \A g \in Groups \ {Group} : summary'[g] = summary[g]
    BY <1>1, <1>2 DEF TypeOK
  <2>2. \A g : InReport(g)' = InReport(g)
    BY <1>1 DEF InReport
  <2> QED
    BY <1>1, <1>3, <2>1, <2>2 DEF CountsAgree
<1>8. Tally'
  BY <1>1, <1>2, <1>5, EmptyTally
<1> QED
  BY <1>4, <1>5, <1>6, <1>7, <1>8

(* A page: what it adds is the JSON behind what has been fetched.          *)
PageStep(first, count, found) ==
  /\ Running /\ Group \in Groups /\ turn \in DOMAIN LOG_GROUPS
  /\ first = fetched[Group] /\ first \in Nat /\ count \in Nat
  /\ first + count <= Len(stored[Group]) /\ first + count <= LimitPerGroup
  /\ Keeps(found, stored[Group], Group, first, count)
  /\ fetched' = [fetched EXCEPT ![Group] = first + count]
  /\ events' = events \o found
  /\ UNCHANGED <<stored, deleted, aborted>>

SoFar(first, count) == events_for_group \o SubSeq(stored[Group], first + 1, first + count)

LEMMA PageFacts ==
  ASSUME Inductive, NEW count \in 0 .. MaxStored, NEW more \in BOOLEAN, Page(count, more)
  PROVE  LET first == fetched[Group]
             found == Parsed(first, count)
         IN  /\ PageStep(first, count, found)
             /\ more \/ first + count = Len(stored[Group])
             /\ waiting' = IF token = 0 THEN Len(stored[Group]) ELSE waiting
             /\ empties' \in Nat
             /\ IF LastPage(first + count, count, more)
                THEN Conclude(Exists(first + count, SoFar(first, count)))
                ELSE Continue(first + count + 1, SoFar(first, count))
<1> USE DEF Inductive
<1>1. Running
  BY DEF Page
<1>2. /\ turn \in DOMAIN LOG_GROUPS /\ Group \in Groups
      /\ fetched[Group] \in Nat /\ stored[Group] \in Seq(Messages) /\ Len(stored[Group]) \in Nat
  <2>1. turn \in DOMAIN LOG_GROUPS /\ Group \in Groups
    BY <1>1, GroupAtHand
  <2>2. stored[Group] \in Seq(Messages) /\ fetched[Group] \in Nat
    BY <2>1 DEF TypeOK
  <2> QED
    BY <2>1, <2>2
<1>3. fetched[Group] = (IF token = 0 THEN 0 ELSE token - 1) /\ fetched[Group] < LimitPerGroup
  <2>1. CASE token = 0
    <3>1. turn >= turn
      BY DEF TypeOK
    <3> QED
      BY <1>2, <2>1, <3>1 DEF Place, Group
  <2>2. CASE token # 0
    <3>1. token > 0
      BY <2>2 DEF TypeOK
    <3> QED
      BY <2>2, <3>1 DEF Place
  <2> QED
    BY <2>1, <2>2
<1> DEFINE first == fetched[Group]
           found == Parsed(first, count)
<1>4. Keeps(found, stored[Group], Group, first, count)
  BY <1>2, ParsedKeeps
<1>5. Page(count, more) =>
        /\ count <= Asked /\ first + count <= Len(stored[Group])
        /\ more \/ first + count = Len(stored[Group])
        /\ IF count = 0 /\ more
           THEN empties < MaxEmpty /\ empties' = empties + 1
           ELSE UNCHANGED empties
        /\ waiting' = IF token = 0 THEN Len(stored[Group]) ELSE waiting
        /\ fetched' = [fetched EXCEPT ![Group] = first + count]
        /\ events' = events \o found
        /\ IF LastPage(first + count, count, more)
           THEN Conclude(Exists(first + count, SoFar(first, count)))
           ELSE Continue(first + count + 1, SoFar(first, count))
        /\ UNCHANGED <<stored, deleted, aborted>>
  BY <1>3 DEF Page, SoFar
<1> HIDE DEF first, found
<1>6. first + count <= LimitPerGroup
  <2>1. count <= LimitPerGroup - first
    BY <1>2, <1>3, <1>5 DEF Asked, Least, Most, first
  <2> QED
    BY <1>2, <2>1 DEF first
<1>7. empties' \in Nat
  BY <1>5 DEF TypeOK
<1>8. PageStep(first, count, found)
  BY <1>1, <1>2, <1>4, <1>5, <1>6 DEF PageStep, first
<1> QED
  BY <1>5, <1>7, <1>8 DEF first, found

(* The events of a page go to the end of the report.                       *)
LEMMA FoundFacts ==
  ASSUME Inductive, NEW first, NEW count, NEW found, PageStep(first, count, found)
  PROVE  LET places == {k \in first + 1 .. first + count : stored[Group][k] = "json"}
             m == Len(events)
         IN  /\ m \in Nat /\ DOMAIN events = 1 .. m /\ Len(found) \in Nat
             /\ events' \in Seq(Record) /\ DOMAIN events' = 1 .. m + Len(found)
             /\ \A i \in 1 .. m : events'[i] = events[i]
             /\ \A i \in 1 .. Len(found) : events'[m + i] = found[i]
             /\ \A i \in 1 .. Len(found) : found[i].group = Group /\ found[i].at \in places
                                           /\ found[i] = [group |-> Group, at |-> found[i].at]
             /\ \A k \in places : \E i \in 1 .. Len(found) : found[i] = [group |-> Group, at |-> k]
             /\ \A i, j \in 1 .. Len(found) : i < j => found[i].at < found[j].at
<1> DEFINE places == {k \in first + 1 .. first + count : stored[Group][k] = "json"}
           Found == [group : {Group}, at : places]
<1>1. /\ found \in Seq(Found)
      /\ \A k \in places : \E i \in DOMAIN found : found[i] = [group |-> Group, at |-> k]
      /\ \A i, j \in DOMAIN found : i < j => found[i].at < found[j].at
  BY DEF PageStep, Keeps
<1>2. Found \subseteq Record
  BY DEF PageStep, Record
<1>3. \A x \in Found : x.group = Group /\ x.at \in places /\ x = [group |-> Group, at |-> x.at]
  OBVIOUS
<1>4. events \in Seq(Record) /\ events' = events \o found
  BY EventFacts DEF Inductive, PageStep
<1> HIDE DEF Found, places
<1>5. /\ Len(found) \in Nat /\ DOMAIN found = 1 .. Len(found)
      /\ \A i \in 1 .. Len(found) : found[i] \in Found
  BY <1>1
<1>6. found \in Seq(Record)
  BY <1>1, <1>2, <1>5
<1>7. /\ Len(events) \in Nat /\ DOMAIN events = 1 .. Len(events)
      /\ events' \in Seq(Record) /\ DOMAIN events' = 1 .. Len(events) + Len(found)
      /\ \A i \in 1 .. Len(events) : events'[i] = events[i]
      /\ \A i \in 1 .. Len(found) : events'[Len(events) + i] = found[i]
  BY <1>4, <1>6
<1> QED
  BY <1>1, <1>3, <1>5, <1>7 DEF places

(* What has been collected is still exactly what has been fetched.         *)
LEMMA PageCollects ==
  ASSUME Inductive, NEW first, NEW count, NEW found, PageStep(first, count, found)
  PROVE  Within' /\ CollectedExactly'
<1> DEFINE places == {k \in first + 1 .. first + count : stored[Group][k] = "json"}
           m == Len(events)
<1>1. /\ m \in Nat /\ DOMAIN events = 1 .. m /\ Len(found) \in Nat
      /\ DOMAIN events' = 1 .. m + Len(found)
      /\ \A i \in 1 .. m : events'[i] = events[i]
      /\ \A i \in 1 .. Len(found) : events'[m + i] = found[i]
      /\ \A i \in 1 .. Len(found) : found[i].group = Group /\ found[i].at \in places
                                    /\ found[i] = [group |-> Group, at |-> found[i].at]
      /\ \A k \in places : \E i \in 1 .. Len(found) : found[i] = [group |-> Group, at |-> k]
      /\ \A i, j \in 1 .. Len(found) : i < j => found[i].at < found[j].at
  BY FoundFacts
<1>2. /\ first = fetched[Group] /\ first \in Nat /\ count \in Nat /\ Group \in Groups
      /\ first + count <= Len(stored[Group]) /\ UNCHANGED stored
      /\ stored[Group] \in Seq(Messages)
      /\ fetched'[Group] = first + count /\ \A g \in Groups \ {Group} : fetched'[g] = fetched[g]
  BY DEF PageStep, Inductive, TypeOK
<1>3. \A g : Json(g)' = Json(g)
  BY <1>2 DEF Json
<1>4. /\ \A k \in places : k \in Json(Group) /\ first < k /\ k <= first + count
      /\ \A n \in Json(Group) : n \in Nat /\ (first < n /\ n <= first + count => n \in places)
  <2>1. Len(stored[Group]) \in Nat /\ DOMAIN stored[Group] = 1 .. Len(stored[Group])
    BY <1>2
  <2> QED
    BY <1>2, <2>1 DEF Json
<1>5. \A i \in DOMAIN events' : i \in 1 .. m \/ \E j \in 1 .. Len(found) : i = m + j
  <2> SUFFICES ASSUME NEW i \in DOMAIN events', i \notin 1 .. m
               PROVE  \E j \in 1 .. Len(found) : i = m + j
    OBVIOUS
  <2>1. i - m \in 1 .. Len(found) /\ i = m + (i - m)
    BY <1>1
  <2> QED
    BY <2>1
<1>6. Within'
  BY <1>2 DEF Inductive, Within
<1>7. \A i \in 1 .. m : /\ events[i].at \in Json(events[i].group) /\ events[i].group \in Groups
                         /\ events[i] = [group |-> events[i].group, at |-> events[i].at]
                         /\ events[i].at <= fetched[events[i].group]
  BY <1>1, EventFacts DEF Inductive, CollectedExactly
<1> HIDE DEF places, m
<1>8. ASSUME NEW i \in DOMAIN events' PROVE events'[i].at \in Json(events'[i].group)
  <2>1. CASE i \in 1 .. m
    BY <1>1, <1>7, <2>1
  <2>2. ASSUME NEW j \in 1 .. Len(found), i = m + j PROVE events'[i].at \in Json(events'[i].group)
    <3>1. events'[i] = found[j]
      BY <1>1, <2>2
    <3>2. found[j].group = Group /\ found[j].at \in places
      BY <1>1
    <3>3. found[j].at \in Json(Group)
      BY <1>4, <3>2
    <3> QED
      BY <3>1, <3>2, <3>3
  <2> QED
    BY <1>5, <2>1, <2>2
<1>9. ASSUME NEW g \in Groups, NEW n \in Json(g)
      PROVE  n <= fetched'[g] <=> \E i \in DOMAIN events' : events'[i] = [group |-> g, at |-> n]
  <2>1. n <= fetched[g] <=> \E i \in 1 .. m : events[i] = [group |-> g, at |-> n]
    BY <1>1 DEF Inductive, CollectedExactly
  <2>2. CASE g # Group
    <3>1. ASSUME NEW j \in 1 .. Len(found), found[j] = [group |-> g, at |-> n] PROVE FALSE
      <4>1. found[j].group = g
        BY <3>1
      <4> QED
        BY <1>1, <2>2, <4>1
    <3>2. ASSUME NEW i \in DOMAIN events', events'[i] = [group |-> g, at |-> n]
          PROVE  n <= fetched'[g]
      <4>1. CASE i \in 1 .. m
        BY <1>1, <1>2, <2>1, <2>2, <3>2, <4>1
      <4>2. ASSUME NEW j \in 1 .. Len(found), i = m + j PROVE FALSE
        <5>1. events'[i] = found[j]
          BY <1>1, <4>2
        <5> QED
          BY <3>1, <3>2, <5>1
      <4> QED
        BY <1>5, <4>1, <4>2
    <3>3. ASSUME n <= fetched'[g]
          PROVE  \E i \in DOMAIN events' : events'[i] = [group |-> g, at |-> n]
      <4>1. PICK i \in 1 .. m : events[i] = [group |-> g, at |-> n]
        BY <1>2, <2>1, <2>2, <3>3
      <4> QED
        BY <1>1, <4>1
    <3> QED
      BY <3>2, <3>3
  <2>3. CASE g = Group
    <3>1. ASSUME n <= fetched'[g]
          PROVE  \E i \in DOMAIN events' : events'[i] = [group |-> g, at |-> n]
      <4>1. CASE n <= first
        <5>1. PICK i \in 1 .. m : events[i] = [group |-> g, at |-> n]
          BY <1>2, <2>1, <2>3, <4>1
        <5> QED
          BY <1>1, <5>1
      <4>2. CASE first < n
        <5>1. n \in places
          BY <1>2, <1>4, <1>9, <2>3, <3>1, <4>2
        <5>2. PICK j \in 1 .. Len(found) : found[j] = [group |-> g, at |-> n]
          BY <1>1, <2>3, <5>1
        <5>3. m + j \in DOMAIN events' /\ events'[m + j] = found[j]
          BY <1>1
        <5> QED
          BY <5>2, <5>3
      <4> QED
        BY <1>2, <1>4, <1>9, <2>3, <4>1, <4>2
    <3>2. ASSUME NEW i \in DOMAIN events', events'[i] = [group |-> g, at |-> n]
          PROVE  n <= fetched'[g]
      <4>1. CASE i \in 1 .. m
        <5>1. n <= first
          BY <1>1, <1>2, <2>1, <2>3, <3>2, <4>1
        <5> QED
          BY <1>2, <1>4, <1>9, <2>3, <5>1
      <4>2. ASSUME NEW j \in 1 .. Len(found), i = m + j PROVE n <= fetched'[g]
        <5>1. found[j] = [group |-> g, at |-> n]
          BY <1>1, <3>2, <4>2
        <5>2. found[j].at = n
          BY <5>1
        <5>3. n \in places
          BY <1>1, <5>2
        <5> QED
          BY <1>2, <1>4, <2>3, <5>3
      <4> QED
        BY <1>5, <4>1, <4>2
    <3> QED
      BY <3>1, <3>2
  <2> QED
    BY <2>2, <2>3
<1>10. ASSUME NEW i \in DOMAIN events', NEW j \in DOMAIN events', i < j,
              events'[i].group = events'[j].group
       PROVE  events'[i].at < events'[j].at
  <2>1. CASE j \in 1 .. m
    <3>1. i \in 1 .. m
      BY <1>1, <1>10, <2>1
    <3> QED
      BY <1>1, <1>10, <2>1, <3>1 DEF Inductive, CollectedExactly
  <2>2. ASSUME NEW q \in 1 .. Len(found), j = m + q PROVE events'[i].at < events'[j].at
    <3>1. /\ events'[j] = found[q] /\ events'[j].group = Group
          /\ first < events'[j].at /\ events'[j].at \in Nat
      <4>1. events'[j] = found[q]
        BY <1>1, <2>2
      <4>2. found[q].group = Group /\ found[q].at \in places
        BY <1>1
      <4> QED
        BY <1>4, <4>1, <4>2
    <3>2. CASE i \in 1 .. m
      <4>1. /\ events'[i] = events[i] /\ events[i].group = Group
            /\ events[i].at <= first /\ events[i].at \in Nat
        BY <1>1, <1>2, <1>4, <1>7, <1>10, <3>1, <3>2
      <4> QED
        BY <1>2, <3>1, <4>1
    <3>3. ASSUME NEW p \in 1 .. Len(found), i = m + p PROVE events'[i].at < events'[j].at
      <4>1. p < q
        BY <1>1, <1>10, <2>2, <3>3
      <4> QED
        BY <1>1, <2>2, <3>3, <4>1
    <3> QED
      BY <1>5, <3>2, <3>3
  <2> QED
    BY <1>5, <2>1, <2>2
<1>11. CollectedExactly'
  BY <1>2, <1>8, <1>9, <1>10 DEF CollectedExactly, Json
<1> QED
  BY <1>6, <1>11

(* The events of another group stay.                                       *)
LEMMA OtherCounts ==
  ASSUME Inductive, NEW first, NEW count, NEW found, PageStep(first, count, found),
         NEW g \in Groups, g # Group
  PROVE  InReport(g)' = InReport(g)
<1>1. /\ Len(events) \in Nat /\ DOMAIN events = 1 .. Len(events) /\ Len(found) \in Nat
      /\ DOMAIN events' = 1 .. Len(events) + Len(found)
      /\ \A i \in 1 .. Len(events) : events'[i] = events[i]
      /\ \A i \in 1 .. Len(found) : events'[Len(events) + i] = found[i]
      /\ \A i \in 1 .. Len(found) : found[i].group = Group
  <2> DEFINE places == {k \in first + 1 .. first + count : stored[Group][k] = "json"}
             m == Len(events)
  <2>1. /\ m \in Nat /\ DOMAIN events = 1 .. m /\ Len(found) \in Nat
        /\ events' \in Seq(Record) /\ DOMAIN events' = 1 .. m + Len(found)
        /\ \A i \in 1 .. m : events'[i] = events[i]
        /\ \A i \in 1 .. Len(found) : events'[m + i] = found[i]
        /\ \A i \in 1 .. Len(found) : found[i].group = Group /\ found[i].at \in places
                                      /\ found[i] = [group |-> Group, at |-> found[i].at]
        /\ \A k \in places : \E i \in 1 .. Len(found) : found[i] = [group |-> Group, at |-> k]
        /\ \A i, j \in 1 .. Len(found) : i < j => found[i].at < found[j].at
    BY FoundFacts
  <2> QED
    BY <2>1
<1> DEFINE old == {i \in DOMAIN events : events[i].group = g}
           new == {i \in DOMAIN events' : events'[i].group = g}
<1>2. ASSUME NEW i \in new PROVE i \in old
  <2>1. CASE i \in 1 .. Len(events)
    BY <1>1, <1>2, <2>1
  <2>2. CASE i \notin 1 .. Len(events)
    <3>1. i - Len(events) \in 1 .. Len(found) /\ Len(events) + (i - Len(events)) = i
      BY <1>1, <1>2, <2>2
    <3> QED
      BY <1>1, <1>2, <3>1
  <2> QED
    BY <2>1, <2>2
<1>3. ASSUME NEW i \in old PROVE i \in new
  BY <1>1, <1>3
<1>4. old = new
  BY <1>2, <1>3
<1> QED
  BY <1>4 DEF InReport

(* Two lists of messages, one behind the other.                            *)
LEMMA JoinedPages ==
  ASSUME NEW s \in Seq(Messages), NEW t \in Seq(Messages)
  PROVE  /\ s \o t \in Seq(Messages) /\ Len(s \o t) = Len(s) + Len(t)
         /\ \A i \in 1 .. Len(s) + Len(t) :
              (s \o t)[i] = IF i <= Len(s) THEN s[i] ELSE t[i - Len(s)]
BY ConcatProperties

(* The list of the group at hand takes the page as it is.                  *)
LEMMA SoFarFacts ==
  ASSUME Inductive, NEW first, NEW count, NEW found, PageStep(first, count, found)
  PROVE  /\ SoFar(first, count) \in Seq(Messages) /\ Len(SoFar(first, count)) = first + count
         /\ \A n \in DOMAIN SoFar(first, count) : SoFar(first, count)[n] = stored[Group][n]
<1> DEFINE page == SubSeq(stored[Group], first + 1, first + count)
<1>1. /\ first \in Nat /\ count \in Nat /\ stored[Group] \in Seq(Messages)
      /\ first + count <= Len(stored[Group]) /\ events_for_group \in Seq(Messages)
      /\ Len(events_for_group) = first
      /\ \A n \in DOMAIN events_for_group : events_for_group[n] = stored[Group][n]
  BY DEF PageStep, Inductive, TypeOK, Tally
<1>2. /\ page \in Seq(Messages) /\ Len(page) = count
      /\ \A n \in 1 .. count : page[n] = stored[Group][first + n]
  <2>1. Len(stored[Group]) \in Nat /\ first + 1 \in Nat /\ first + count \in Nat
    BY <1>1
  <2>2. page \in Seq(Messages)
    BY <1>1, <2>1
  <2>3. Len(page) = count
    BY <1>1, <2>1
  <2>4. ASSUME NEW n \in 1 .. count PROVE page[n] = stored[Group][first + n]
    <3>1. first + 1 + n - 1 = first + n /\ n \in 1 .. (first + count) - (first + 1) + 1
      BY <1>1, <2>4
    <3> QED
      BY <1>1, <2>1, <3>1, SubSeqProperties
  <2> QED
    BY <2>2, <2>3, <2>4
<1> HIDE DEF page
<1> DEFINE both == events_for_group \o page
<1>3. /\ both \in Seq(Messages) /\ Len(both) = first + count
      /\ DOMAIN both = 1 .. first + count /\ DOMAIN events_for_group = 1 .. first
      /\ \A n \in 1 .. first : both[n] = events_for_group[n]
      /\ \A n \in 1 .. count : both[first + n] = page[n]
  <2>0. events_for_group \in Seq(Messages) /\ page \in Seq(Messages)
    BY <1>1, <1>2
  <2>1. /\ both \in Seq(Messages) /\ Len(both) = Len(events_for_group) + Len(page)
        /\ \A i \in 1 .. Len(events_for_group) + Len(page) :
             both[i] = IF i <= Len(events_for_group) THEN events_for_group[i]
                       ELSE page[i - Len(events_for_group)]
    BY <2>0, JoinedPages
  <2> HIDE DEF both
  <2>2. DOMAIN both = 1 .. first + count /\ DOMAIN events_for_group = 1 .. first
    BY <1>1, <1>2, <2>1
  <2>3. ASSUME NEW n \in 1 .. first PROVE both[n] = events_for_group[n]
    BY <1>1, <1>2, <2>1, <2>3
  <2>4. ASSUME NEW n \in 1 .. count PROVE both[first + n] = page[n]
    <3>1. first + n \in 1 .. first + count /\ ~(first + n <= first) /\ first + n - first = n
      BY <1>1, <2>4
    <3> QED
      BY <1>1, <1>2, <2>1, <3>1
  <2> QED
    BY <1>1, <1>2, <2>1, <2>2, <2>3, <2>4
<1> HIDE DEF both
<1>4. ASSUME NEW n \in 1 .. first + count PROVE both[n] = stored[Group][n]
  <2>1. CASE n \in 1 .. first
    BY <1>1, <1>3, <2>1
  <2>2. CASE n \notin 1 .. first
    <3>1. n - first \in 1 .. count /\ first + (n - first) = n
      BY <1>1, <2>2
    <3> QED
      BY <1>2, <1>3, <3>1
  <2> QED
    BY <2>1, <2>2
<1> QED
  BY <1>3, <1>4 DEF SoFar, both, page

(* Numbered records whose places ascend are as many as their places.       *)
LEMMA AsManyAsPlaces ==
  ASSUME NEW n \in Nat, NEW S \in SUBSET Nat, NEW I \in SUBSET (1 .. n), NEW place \in [I -> S],
         \A k \in S : \E i \in I : place[i] = k,
         \A i, j \in I : i < j => place[i] < place[j]
  PROVE  Cardinality(I) = Cardinality(S) /\ Cardinality(S) \in Nat
<1>1. IsFiniteSet(I)
  <2>1. IsFiniteSet(1 .. n)
    BY FS_Interval
  <2> QED
    BY <2>1, FS_Subset
<1>3. ASSUME NEW i \in I, NEW j \in I, place[i] = place[j] PROVE i = j
  <2>1. i \in 1 .. n /\ j \in 1 .. n /\ place[i] \in S /\ place[j] \in S /\ S \subseteq Nat
    OBVIOUS
  <2>2. (i < j => place[i] < place[j]) /\ (j < i => place[j] < place[i])
    OBVIOUS
  <2>3. \A x, y \in Nat : (i < j => x < y) /\ (j < i => y < x) /\ x = y => i = j
    BY <2>1
  <2> QED
    BY <1>3, <2>1, <2>2, <2>3
<1>5. place \in Bijection(I, S)
  BY <1>3 DEF Bijection, Injection, Surjection, IsInjective
<1>6. ExistsBijection(I, S)
  BY <1>5 DEF ExistsBijection
<1>7. Cardinality(S) = Cardinality(I) /\ Cardinality(I) \in Nat
  BY <1>1, <1>6, FS_Bijection, FS_CardinalityType
<1> QED
  BY <1>7

(* So the list of the group at hand and the report count alike.            *)
LEMMA SameCount ==
  ASSUME CollectedExactly', stored' = stored, NEW g \in Groups, stored[g] \in Seq(Messages),
         events' \in Seq(Record), NEW next \in Nat, fetched'[g] = next,
         next <= Len(stored[g]), NEW sofar \in Seq(Messages), Len(sofar) = next,
         \A n \in DOMAIN sofar : sofar[n] = stored[g][n]
  PROVE  /\ Cardinality(WithJson(sofar)) = Cardinality(InReport(g)')
         /\ Cardinality(WithJson(sofar)) \in Nat
<1> DEFINE S == WithJson(sofar)
           m == Len(events')
<1>1. /\ DOMAIN sofar = 1 .. next /\ Len(stored[g]) \in Nat
      /\ DOMAIN stored[g] = 1 .. Len(stored[g]) /\ m \in Nat /\ DOMAIN events' = 1 .. m
      /\ \A i \in 1 .. m : events'[i] \in Record
  OBVIOUS
<1>2. \A k : k \in S <=> k \in 1 .. next /\ stored[g][k] = "json"
  BY <1>1 DEF WithJson
<1>3. S \in SUBSET Nat
  BY <1>2
<1> DEFINE J(h) == {k \in DOMAIN stored[h] : stored[h][k] = "json"}
           records == events'
<1>4. \A k : k \in S <=> k \in J(g) /\ k <= next
  BY <1>1, <1>2
<1>5. DOMAIN records = 1 .. m /\ \A i \in 1 .. m : records[i] = [group |-> records[i].group,
                                                                  at |-> records[i].at]
  BY <1>1 DEF Record
<1>6. /\ \A i \in 1 .. m : records[i].at \in J(records[i].group)
      /\ \A k \in J(g) :
           k <= next <=> \E i \in 1 .. m : records[i] = [group |-> g, at |-> k]
      /\ \A i, j \in 1 .. m :
           i < j /\ records[i].group = records[j].group => records[i].at < records[j].at
  <2>1. \A i \in DOMAIN records : records[i].at \in J(records[i].group)
    BY DEF CollectedExactly, Json
  <2>2. \A k \in J(g) :
          k <= fetched'[g] <=> \E i \in DOMAIN records : records[i] = [group |-> g, at |-> k]
    BY DEF CollectedExactly, Json
  <2>3. \A i, j \in DOMAIN records :
          i < j /\ records[i].group = records[j].group => records[i].at < records[j].at
    BY DEF CollectedExactly
  <2> HIDE DEF J, records
  <2> QED
    BY <1>5, <2>1, <2>2, <2>3
<1>7. m \in Nat
  BY <1>1
<1> HIDE DEF S, m, J, records
<1>8. ASSUME NEW i \in 1 .. m, records[i].group = g PROVE records[i].at \in S
  <2>1. records[i].at \in J(g) /\ records[i] = [group |-> g, at |-> records[i].at]
    BY <1>5, <1>6, <1>8
  <2> QED
    BY <1>4, <1>6, <2>1
<1>9. ASSUME NEW k \in S PROVE \E i \in 1 .. m : records[i].group = g /\ records[i].at = k
  <2>1. PICK i \in 1 .. m : records[i] = [group |-> g, at |-> k]
    BY <1>4, <1>6
  <2> QED
    BY <2>1
<1> DEFINE I == {i \in 1 .. m : records[i].group = g}
<1>10. I \in SUBSET (1 .. m) /\ \A i \in 1 .. m : i \in I <=> records[i].group = g
  OBVIOUS
<1> HIDE DEF I
<1>11. Cardinality(I) = Cardinality(S) /\ Cardinality(S) \in Nat
  <2> DEFINE place == [i \in I |-> records[i].at]
  <2>1. place \in [I -> S]
    BY <1>8, <1>10
  <2>2. \A k \in S : \E i \in I : place[i] = k
    BY <1>9, <1>10
  <2>3. ASSUME NEW i \in I, NEW j \in I, i < j PROVE place[i] < place[j]
    <3>1. i \in 1 .. m /\ j \in 1 .. m /\ records[i].group = records[j].group
      BY <1>10
    <3> QED
      BY <1>6, <2>3, <3>1
  <2>4. I \in SUBSET (1 .. m)
    BY <1>10
  <2> HIDE DEF place
  <2> QED
    BY <1>3, <1>7, <2>1, <2>2, <2>3, <2>4, AsManyAsPlaces
<1>12. InReport(g)' = I
  BY <1>5 DEF InReport, records, I
<1> QED
  BY <1>11, <1>12 DEF S

(* The entry of a group, at the end of its pages, and the groups before    *)
(* it.                                                                     *)
LEMMA PageInductive ==
  ASSUME Inductive, NEW count \in 0 .. MaxStored, NEW more \in BOOLEAN, Page(count, more)
  PROVE  Inductive'
<1> DEFINE first == fetched[Group]
           found == Parsed(first, count)
           next == first + count
<1>1. /\ PageStep(first, count, found)
      /\ waiting' = IF token = 0 THEN Len(stored[Group]) ELSE waiting
      /\ empties' \in Nat
      /\ IF LastPage(next, count, more)
         THEN Conclude(Exists(next, SoFar(first, count)))
         ELSE Continue(next + 1, SoFar(first, count))
  BY PageFacts
<1> DEFINE sofar == SoFar(first, count)
<1> HIDE DEF found, sofar
<1>2. /\ turn \in DOMAIN LOG_GROUPS /\ Group \in Groups
      /\ turn \in Nat /\ turn + 1 \in 1 .. Len(LOG_GROUPS) + 1
      /\ \A k \in DOMAIN LOG_GROUPS : k \in Nat /\ LOG_GROUPS[k] \in Groups
      /\ \A k \in DOMAIN LOG_GROUPS : LOG_GROUPS[k] = Group => k = turn
  BY <1>1, GroupAtHand DEF Inductive, PageStep
<1>3. /\ next \in Nat /\ next <= LimitPerGroup /\ next <= Len(stored[Group])
      /\ UNCHANGED <<stored, deleted, aborted>>
      /\ fetched' = [fetched EXCEPT ![Group] = next]
  BY <1>1 DEF PageStep
<1>4. /\ fetched' \in [Groups -> 0 .. LimitPerGroup] /\ fetched'[Group] = next
      /\ \A g \in Groups \ {Group} : fetched'[g] = fetched[g]
  BY <1>2, <1>3 DEF Inductive, TypeOK
<1> HIDE DEF first, next
<1>5. Within' /\ CollectedExactly'
  BY <1>1, PageCollects
<1>6. events' \in Seq(Record) /\ Len(events') \in Nat
  <2>1. events' \in Seq(Record)
    BY <1>1, FoundFacts
  <2> QED
    BY <2>1
<1>7. /\ sofar \in Seq(Messages) /\ Len(sofar) = next
      /\ \A n \in DOMAIN sofar : sofar[n] = stored[Group][n]
  BY <1>1, SoFarFacts DEF first, next, sofar
<1>8. \A g \in Groups \ {Group} : InReport(g)' = InReport(g)
  BY <1>1, OtherCounts
<1>9. waiting' \in Nat /\ (token = 0 => waiting' = Len(stored[Group])) /\ waiting' <= Len(stored[Group])
  <2>1. stored[Group] \in Seq(Messages) /\ token \in Nat /\ waiting \in Nat
    BY <1>2 DEF Inductive, TypeOK
  <2>2. token > 0 => waiting <= Len(stored[Group])
    BY DEF Inductive, Place
  <2> QED
    BY <1>1, <2>1, <2>2
<1>10. ASSUME turn' \in 1 .. Len(LOG_GROUPS) + 1, token' \in Nat,
              events_for_group' \in Seq(Messages),
              summary' \in [Groups -> [exists : BOOLEAN, known : BOOLEAN, raw : Nat, parsed : Nat,
                                       truncated : BOOLEAN]]
       PROVE  TypeOK'
  BY <1>1, <1>3, <1>4, <1>6, <1>9, <1>10 DEF Inductive, TypeOK, Record
<1>11. ASSUME NEW k \in DOMAIN LOG_GROUPS, k > turn
       PROVE  /\ ~summary[LOG_GROUPS[k]].known /\ fetched'[LOG_GROUPS[k]] = 0
              /\ LOG_GROUPS[k] \in Groups \ {Group}
  <2>1. k >= turn /\ LOG_GROUPS[k] \in Groups \ {Group}
    BY <1>2, <1>11
  <2>2. ~summary[LOG_GROUPS[k]].known /\ fetched[LOG_GROUPS[k]] = 0
    BY <1>11, <2>1 DEF Inductive, Place
  <2> QED
    BY <1>4, <2>1, <2>2
<1>12. ASSUME NEW g \in Groups \ {Group}, summary'[g] = summary[g], summary'[g].known,
              summary'[g].exists
       PROVE  /\ summary'[g].raw = fetched'[g]
              /\ summary'[g].parsed = Cardinality(InReport(g)')
  <2>1. summary[g].raw = fetched[g] /\ summary[g].parsed = Cardinality(InReport(g))
    BY <1>12 DEF Inductive, CountsAgree
  <2> QED
    BY <1>3, <1>4, <1>8, <1>12, <2>1
<1>13. CASE LastPage(next, count, more)
  <2> DEFINE said == Exists(next, sofar)
  <2>1. /\ summary' = [summary EXCEPT ![Group] = said] /\ turn' = turn + 1 /\ token' = 0
        /\ events_for_group' = <<>>
    BY <1>1, <1>13 DEF Conclude, sofar
  <2>2. /\ said \in [exists : BOOLEAN, known : BOOLEAN, raw : Nat, parsed : Nat, truncated : BOOLEAN]
        /\ said.raw = next
        /\ \A g \in Groups : g = Group => said.parsed = Cardinality(InReport(g)')
    <3>1. ASSUME NEW g \in Groups, g = Group
          PROVE  /\ Cardinality(WithJson(sofar)) = Cardinality(InReport(g)')
                 /\ Cardinality(WithJson(sofar)) \in Nat
      <4>1. /\ CollectedExactly' /\ stored' = stored /\ stored[g] \in Seq(Messages)
            /\ events' \in Seq(Record) /\ next \in Nat /\ fetched'[g] = next
            /\ next <= Len(stored[g]) /\ sofar \in Seq(Messages) /\ Len(sofar) = next
            /\ \A n \in DOMAIN sofar : sofar[n] = stored[g][n]
        BY <1>3, <1>4, <1>5, <1>6, <1>7, <3>1 DEF Inductive, TypeOK
      <4> QED
        BY <4>1, SameCount
    <3> QED
      BY <1>2, <1>3, <1>7, <3>1 DEF Exists
  <2> HIDE DEF said
  <2>3. /\ summary' \in [Groups -> [exists : BOOLEAN, known : BOOLEAN, raw : Nat, parsed : Nat,
                                    truncated : BOOLEAN]]
        /\ summary'[Group] = said /\ \A g \in Groups \ {Group} : summary'[g] = summary[g]
    BY <1>2, <2>1, <2>2 DEF Inductive, TypeOK
  <2>4. TypeOK'
    <3>1. <<>> \in Seq(Messages)
      OBVIOUS
    <3> QED
      BY <1>2, <1>10, <2>1, <2>3, <3>1
  <2>5. Place'
    <3>1. ASSUME NEW k \in DOMAIN LOG_GROUPS, k >= turn + 1
          PROVE  ~summary'[LOG_GROUPS[k]].known /\ fetched'[LOG_GROUPS[k]] = 0
      <4>1. k > turn
        BY <1>2, <3>1
      <4> QED
        BY <1>11, <2>3, <4>1
    <3> QED
      BY <2>1, <3>1 DEF Place
  <2>6. CountsAgree'
    <3>1. ASSUME NEW g \in Groups, summary'[g].known, summary'[g].exists
          PROVE  /\ summary'[g].raw = fetched'[g]
                 /\ summary'[g].parsed = Cardinality(InReport(g)')
      <4>1. CASE g = Group
        BY <1>4, <2>2, <2>3, <4>1
      <4>2. CASE g # Group
        BY <1>12, <2>3, <3>1, <4>2
      <4> QED
        BY <4>1, <4>2
    <3> QED
      BY <3>1 DEF CountsAgree, InReport
  <2>7. Tally'
    BY <1>2, <2>1, <2>5, EmptyTally
  <2> QED
    BY <1>5, <2>4, <2>5, <2>6, <2>7 DEF Inductive
<1>14. CASE ~LastPage(next, count, more)
  <2>1. token' = next + 1 /\ turn' = turn /\ summary' = summary /\ events_for_group' = sofar
    BY <1>1, <1>14 DEF Continue, sofar
  <2>2. next < LimitPerGroup
    BY <1>3, <1>14 DEF LastPage
  <2>3. Group' = Group
    BY <2>1 DEF Group
  <2>4. TypeOK'
    BY <1>3, <1>7, <1>10, <2>1 DEF Inductive, TypeOK
  <2>5. ~summary[Group].known
    <3>1. turn >= turn
      BY <1>2
    <3> QED
      BY <1>2, <3>1 DEF Inductive, Place, Group
  <2>6. Place'
    <3>1. ASSUME NEW k \in DOMAIN LOG_GROUPS, k >= turn
          PROVE  ~summary[LOG_GROUPS[k]].known /\ (k > turn => fetched'[LOG_GROUPS[k]] = 0)
      BY <1>2, <1>11, <2>5, <3>1 DEF Group
    <3>2. token' > 0 /\ token' # 0 /\ token' - 1 = next
      BY <1>3, <2>1
    <3> QED
      BY <1>2, <1>3, <1>4, <1>9, <2>1, <2>2, <2>3, <3>1, <3>2 DEF Place
  <2>7. CountsAgree'
    <3>1. ASSUME NEW g \in Groups, summary'[g].known, summary'[g].exists
          PROVE  /\ summary'[g].raw = fetched'[g]
                 /\ summary'[g].parsed = Cardinality(InReport(g)')
      BY <1>12, <2>1, <2>5, <3>1
    <3> QED
      BY <3>1 DEF CountsAgree, InReport
  <2>8. Tally'
    BY <1>3, <1>4, <1>7, <2>1, <2>3 DEF Tally
  <2> QED
    BY <1>5, <2>4, <2>6, <2>7, <2>8 DEF Inductive
<1> QED
  BY <1>13, <1>14

(* An exception changes nothing that has been collected.                   *)
LEMMA AbortInductive == ASSUME Inductive, Abort PROVE Inductive'
<1>1. aborted' = TRUE
      /\ UNCHANGED <<stored, deleted, empties, turn, token, waiting, fetched, events_for_group, events, summary>>
  BY DEF Abort, cloudwatch
<1>2. TypeOK'
  BY <1>1 DEF Inductive, TypeOK
<1>3. Place' /\ Within' /\ Tally' /\ CollectedExactly' /\ CountsAgree'
  BY <1>1, SameCounts DEF Inductive, Place, Within, Tally, CollectedExactly, Json, Group
<1> QED
  BY <1>2, <1>3 DEF Inductive

LEMMA StutterInductive == ASSUME Inductive, UNCHANGED vars PROVE Inductive'
<1>1. UNCHANGED <<stored, deleted, empties, turn, token, waiting, fetched, events_for_group, events, summary, aborted>>
  BY DEF vars, cloudwatch
<1>2. TypeOK'
  BY <1>1 DEF Inductive, TypeOK
<1>3. Place' /\ Within' /\ Tally' /\ CollectedExactly' /\ CountsAgree'
  BY <1>1, SameCounts DEF Inductive, Place, Within, Tally, CollectedExactly, Json, Group
<1> QED
  BY <1>2, <1>3 DEF Inductive

-----------------------------------------------------------------------------
(* Every step preserves the invariant.                                     *)
LEMMA StepInductive == ASSUME Inductive, [Next]_vars PROVE Inductive'
<1>1. ASSUME NEW g \in Groups, Ship(g) PROVE Inductive'
  BY <1>1, ShipInductive
<1>2. ASSUME NEW g \in Groups, DeleteGroup(g) PROVE Inductive'
  BY <1>2, DeleteInductive
<1>3. CASE NotFound
  BY <1>3, NotFoundInductive
<1>4. ASSUME NEW count \in 0 .. MaxStored, NEW more \in BOOLEAN, Page(count, more)
      PROVE  Inductive'
  BY <1>4, PageInductive
<1>5. CASE Abort
  BY <1>5, AbortInductive
<1>6. CASE UNCHANGED vars
  BY <1>6, StutterInductive
<1> QED
  BY <1>1, <1>2, <1>3, <1>4, <1>5, <1>6 DEF Next, Collect

(* Every state satisfies the invariant.                                    *)
THEOREM InductiveInvariant == Spec => []Inductive
<1>1. Init => Inductive
  BY InitInductive
<1>2. Inductive /\ [Next]_vars => Inductive'
  BY StepInductive
<1> QED
  BY <1>1, <1>2, PTL DEF Spec

(* Every variable stays within its range: no group is ever read beyond its *)
(* limit.                                                                  *)
THEOREM TypeCorrect == Spec => []TypeOK
<1>1. Inductive => TypeOK
  BY DEF Inductive
<1> QED
  BY <1>1, InductiveInvariant, PTL

(* The report holds exactly the JSON among what has been fetched of each   *)
(* group, whole, once and in its order, however the service cuts its pages *)
(* and whatever arrives or is deleted meanwhile.                           *)
THEOREM NothingLostOrTwice == Spec => []CollectedExactly
<1>1. Inductive => CollectedExactly
  BY DEF Inductive
<1> QED
  BY <1>1, InductiveInvariant, PTL

(* The numbers said of a group are those of its events in the report,      *)
(* unless it was deleted between two of its pages.                         *)
THEOREM SummaryAgrees == Spec => []CountsAgree
<1>1. Inductive => CountsAgree
  BY DEF Inductive
<1> QED
  BY <1>1, InductiveInvariant, PTL

(* A step that ends a group without calling it truncated has fetched all   *)
(* that was there when its first page was asked for.                       *)
LEMMA StepCompletes ==
  ASSUME Inductive, Next, turn' = turn + 1, summary'[Group].exists, ~summary'[Group].truncated
  PROVE  fetched'[Group] >= waiting'
<1>1. turn \in Nat
  BY DEF Inductive, TypeOK
<1>2. CASE NotFound
  <2>1. Running /\ summary' = [summary EXCEPT ![Group] = [Unknown EXCEPT !.known = TRUE]]
    BY <1>2 DEF NotFound, Conclude
  <2>2. Group \in Groups
    BY <2>1, GroupAtHand DEF Inductive
  <2>3. summary'[Group] = [Unknown EXCEPT !.known = TRUE]
    BY <2>1, <2>2 DEF Inductive, TypeOK
  <2> QED
    BY <2>3 DEF Unknown
<1>3. ASSUME NEW count \in 0 .. MaxStored, NEW more \in BOOLEAN, Page(count, more)
      PROVE  fetched'[Group] >= waiting'
  <2> DEFINE first == fetched[Group]
             found == Parsed(first, count)
             next == first + count
  <2>1. /\ PageStep(first, count, found)
        /\ more \/ next = Len(stored[Group])
        /\ waiting' = IF token = 0 THEN Len(stored[Group]) ELSE waiting
        /\ IF LastPage(next, count, more)
           THEN Conclude(Exists(next, SoFar(first, count)))
           ELSE Continue(next + 1, SoFar(first, count))
    BY <1>3, PageFacts
  <2> DEFINE sofar == SoFar(first, count)
  <2> HIDE DEF found, sofar
  <2>2. /\ Group \in Groups /\ next \in Nat /\ fetched' = [fetched EXCEPT ![Group] = next]
    BY <2>1 DEF PageStep
  <2>3. stored[Group] \in Seq(Messages) /\ token \in Nat /\ waiting \in Nat
        /\ (token > 0 => waiting <= Len(stored[Group]))
    BY <2>2 DEF Inductive, TypeOK, Place
  <2>4. waiting' <= Len(stored[Group]) /\ waiting' \in Nat
    BY <2>1, <2>3
  <2>5. fetched'[Group] = next
    BY <2>2 DEF Inductive, TypeOK
  <2> HIDE DEF first, next
  <2>6. LastPage(next, count, more)
    BY <1>1, <2>1 DEF Continue
  <2>7. summary'[Group] = Exists(next, sofar)
    BY <2>1, <2>2, <2>6 DEF Conclude, Inductive, TypeOK, sofar
  <2>8. ~(next >= LimitPerGroup)
    <3>1. Exists(next, sofar).truncated = (next >= LimitPerGroup)
      BY DEF Exists
    <3> QED
      BY <2>7, <3>1, Zenon
  <2>9. next = Len(stored[Group])
    BY <2>1, <2>6, <2>8 DEF LastPage
  <2> QED
    BY <2>2, <2>4, <2>5, <2>9
<1>4. CASE Abort
  BY <1>1, <1>4 DEF Abort
<1>5. ASSUME NEW g \in Groups, Ship(g) \/ DeleteGroup(g) PROVE FALSE
  BY <1>1, <1>5 DEF Ship, DeleteGroup
<1> QED
  BY <1>2, <1>3, <1>4, <1>5 DEF Next, Collect

(* A group that is not said to be truncated is complete.                   *)
THEOREM UntruncatedIsComplete == Spec => CompleteUnlessTruncated
<1>1. Inductive /\ [Next]_vars
        => [turn' = turn + 1 /\ summary'[Group].exists /\ ~summary'[Group].truncated
              => fetched'[Group] >= waiting']_vars
  BY StepCompletes
<1> QED
  BY <1>1, InductiveInvariant, PTL DEF Spec, CompleteUnlessTruncated

=============================================================================
