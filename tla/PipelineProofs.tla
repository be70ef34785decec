--------------------------- MODULE PipelineProofs ---------------------------
(***************************************************************************)
(* Theorems about JsonLogger.tla and Pipeline.tla, for any number of       *)
(* events, whichever of them do not parse, however the kernel cuts the     *)
(* writes, whenever the agent ships a line and the collector asks for a    *)
(* page: of the log file, of its implementation of EventLog.tla, and of    *)
(* the report that is made of it.                                          *)
(***************************************************************************)
EXTENDS Pipeline, FiniteSetTheorems, SequenceTheorems, TLAPS

USE MaxEventsAssumption, CollectorAssumption

-----------------------------------------------------------------------------
(* JsonLogger.                                                             *)

(* The event being logged has no outcome yet, nor has any after it.        *)
Pending ==
  /\ call # "none" => event \in Events /\ outcome[event] = "none"
  /\ \A e \in Events : e > event => outcome[e] = "none"
  /\ call # "write" => unsent = <<>>

(* What is left to write is the rest of the line, whose beginning is at    *)
(* the end of the file.                                                    *)
Rest(line) ==
  /\ Len(unsent) <= Len(line) /\ Len(line) - Len(unsent) <= Len(file)
  /\ \A k \in 1 .. Len(unsent) : unsent[k] = line[Len(line) - Len(unsent) + k]
  /\ \A k \in 1 .. Len(line) - Len(unsent) :
       file[Len(file) - (Len(line) - Len(unsent)) + k] = line[k]
UnsentIsTheRest == call = "write" => Rest(Line(event))

(* The file has all of a line, from its (i + 1)-th byte on.                *)
LineAt(i, line) ==
  /\ i \in Nat /\ i + Len(line) <= Len(file)
  /\ \A k \in 1 .. Len(line) : file[i + k] = line[k]
Contiguous == \A e \in Events : outcome[e] = "appended" => \E i : LineAt(i, Line(e))

(* If the file ends in the middle of a line, the append of that line has   *)
(* gone wrong or is under way.                                             *)
LastByte ==
  Len(file) > 0 /\ file[Len(file)].text # "nl"
    => \/ outcome[file[Len(file)].of] \in {"failed", "crashed"}
       \/ call = "write" /\ file[Len(file)].of = event

(* No event that has entered the file is still to be written.              *)
EnteredIsWritten ==
  /\ Entered \in Seq(Events)
  /\ \A n \in DOMAIN Entered :
       /\ Nth(Breaks, n) \in Breaks
       /\ Entered[n] <= event /\ outcome[Entered[n]] # "failed"
       /\ Entered[n] = event => unsent = <<>> /\ call # "open"

(* No byte is of an event that is still to be logged: whoever throws before *)
(* its first write has left nothing in the file.                           *)
BytesOfPast ==
  \A i \in DOMAIN file : file[i].of <= event /\ (call = "open" => file[i].of # event)

(* The inductive invariant.                                                *)
Inductive ==
  /\ TypeOK /\ BytesOfPast /\ Pending /\ UnsentIsTheRest /\ Contiguous
  /\ SpoiledOnlyByTorn /\ LastByte /\ EnteredIsWritten

-----------------------------------------------------------------------------
(* Behind the positions of a set comes a further one.                      *)
Behind(k, P) == k \in Nat /\ \E m \in Nat : P \in SUBSET (1 .. m) /\ k > m

LEMMA OneMorePlace ==
  ASSUME NEW P, NEW k, Behind(k, P)
  PROVE  /\ Cardinality(P) \in Nat /\ Cardinality(P \cup {k}) = Cardinality(P) + 1
         /\ Nth(P \cup {k}, Cardinality(P) + 1) = k
         /\ \A n \in 1 .. Cardinality(P) : Nth(P \cup {k}, n) = Nth(P, n)
<1> DEFINE Q == P \cup {k}
           c == Cardinality(P)
<1> PICK m \in Nat : P \in SUBSET (1 .. m) /\ k > m
  BY DEF Behind
<1> k \in Nat
  BY DEF Behind
<1>1. IsFiniteSet(P) /\ k \notin P
  <2>1. IsFiniteSet(1 .. m)
    BY FS_Interval
  <2>2. IsFiniteSet(P)
    BY <2>1, FS_Subset
  <2> QED
    BY <2>2
<1>2. c \in Nat /\ Cardinality(Q) = c + 1
  BY <1>1, FS_CardinalityType, FS_AddElement
<1>3. ASSUME NEW i \in P
      PROVE  /\ Cardinality({j \in Q : j <= i}) = Cardinality({j \in P : j <= i})
             /\ Cardinality({j \in P : j <= i}) <= c
  <2>1. {j \in Q : j <= i} = {j \in P : j <= i}
    OBVIOUS
  <2>2. {j \in P : j <= i} \in SUBSET P
    OBVIOUS
  <2>3. Cardinality({j \in P : j <= i}) <= c
    BY <1>1, <2>2, FS_Subset
  <2> QED
    BY <2>1, <2>3
<1>4. Cardinality({j \in Q : j <= k}) = c + 1
  <2>1. \A j \in P : j \in 1 .. m
    OBVIOUS
  <2>2. \A j \in Q : j <= k
    BY <2>1
  <2>3. {j \in Q : j <= k} = Q
    BY <2>2
  <2> QED
    BY <1>2, <2>3
<1>5. Nth(Q, c + 1) = k
  <2>1. \A i \in P : Cardinality({j \in Q : j <= i}) # c + 1
    <3>1. ASSUME NEW i \in P PROVE Cardinality({j \in Q : j <= i}) # c + 1
      <4>1. {j \in P : j <= i} \in SUBSET P
        OBVIOUS
      <4>2. Cardinality({j \in P : j <= i}) \in Nat
        BY <1>1, <4>1, FS_Subset, FS_CardinalityType
      <4> QED
        BY <1>2, <1>3, <4>2
    <3> QED
      BY <3>1
  <2>2. \A i \in Q : Cardinality({j \in Q : j <= i}) = c + 1 <=> i = k
    BY <1>4, <2>1
  <2>3. k \in Q
    OBVIOUS
  <2> HIDE DEF Q, c
  <2> QED
    BY <2>2, <2>3 DEF Nth
<1>6. ASSUME NEW n \in 1 .. c PROVE Nth(Q, n) = Nth(P, n)
  <2>1. n # c + 1
    BY <1>2
  <2>2. \A i : i \in Q /\ Cardinality({j \in Q : j <= i}) = n
               <=> i \in P /\ Cardinality({j \in P : j <= i}) = n
    BY <1>3, <1>4, <2>1
  <2> HIDE DEF Q, c
  <2> DEFINE InQ(i) == i \in Q /\ Cardinality({j \in Q : j <= i}) = n
             InP(i) == i \in P /\ Cardinality({j \in P : j <= i}) = n
  <2>3. \A i : InQ(i) <=> InP(i)
    BY <2>2
  <2>4. Nth(Q, n) = (CHOOSE i : InQ(i)) /\ Nth(P, n) = (CHOOSE i : InP(i))
    BY DEF Nth
  <2> HIDE DEF InQ, InP
  <2>5. (CHOOSE i : InQ(i)) = (CHOOSE i : InP(i))
    BY <2>3, Zenon
  <2> QED
    BY <2>4, <2>5
<1> QED
  BY <1>2, <1>5, <1>6

(* The places of a set of positive numbers are numbered in their order.    *)
LEMMA Enumeration ==
  ASSUME NEW m \in Nat, NEW P \in SUBSET (1 .. m)
  PROVE  /\ \A n \in 1 .. Cardinality(P) : Nth(P, n) \in P
         /\ \A i \in P : \E n \in 1 .. Cardinality(P) : Nth(P, n) = i
         /\ \A a, b \in 1 .. Cardinality(P) : a < b => Nth(P, a) < Nth(P, b)
<1> DEFINE c == Cardinality(P)
           UpTo(i) == {j \in P : j <= i}
           Count == [i \in P |-> Cardinality(UpTo(i))]
<1>1. IsFiniteSet(P) /\ c \in Nat /\ \A i \in P : i \in Nat
  <2>1. IsFiniteSet(1 .. m)
    BY FS_Interval
  <2>2. IsFiniteSet(P)
    BY <2>1, FS_Subset
  <2> QED
    BY <2>2, FS_CardinalityType
<1>2. \A i \in P : UpTo(i) \in SUBSET P /\ i \in UpTo(i) /\ IsFiniteSet(UpTo(i))
  <2>1. \A i \in P : UpTo(i) \in SUBSET P /\ i \in UpTo(i)
    BY <1>1
  <2> QED
    BY <1>1, <2>1, FS_Subset
<1>3. ASSUME NEW i \in P, NEW j \in P, i < j
      PROVE  UpTo(i) \in SUBSET UpTo(j) /\ UpTo(i) # UpTo(j)
  <2>1. \A k \in P : k <= i => k <= j
    BY <1>1, <1>3
  <2>2. j \in UpTo(j) /\ j \notin UpTo(i)
    BY <1>1, <1>3
  <2> QED
    BY <2>1, <2>2
<1> HIDE DEF c, UpTo
<1>4. \A i \in P : Cardinality(UpTo(i)) \in 1 .. c
  <2> SUFFICES ASSUME NEW i \in P PROVE Cardinality(UpTo(i)) \in 1 .. c
    OBVIOUS
  <2>1. Cardinality(UpTo(i)) \in Nat /\ Cardinality(UpTo(i)) <= c
    BY <1>1, <1>2, FS_Subset, FS_CardinalityType DEF c
  <2>2. Cardinality(UpTo(i)) # 0
    BY <1>2, FS_EmptySet
  <2> QED
    BY <1>1, <2>1, <2>2
<1>5. ASSUME NEW i \in P, NEW j \in P, i < j
      PROVE  Cardinality(UpTo(i)) < Cardinality(UpTo(j))
  <2>1. /\ Cardinality(UpTo(i)) <= Cardinality(UpTo(j))
        /\ Cardinality(UpTo(j)) = Cardinality(UpTo(i)) => UpTo(j) = UpTo(i)
    BY <1>2, <1>3, <1>5, FS_Subset
  <2>2. Cardinality(UpTo(i)) # Cardinality(UpTo(j))
    BY <1>3, <1>5, <2>1
  <2> QED
    BY <1>1, <1>4, <2>1, <2>2
<1>6. \A i, j \in P : Cardinality(UpTo(i)) = Cardinality(UpTo(j)) => i = j
  <2> SUFFICES ASSUME NEW i \in P, NEW j \in P, i # j
               PROVE  Cardinality(UpTo(i)) # Cardinality(UpTo(j))
    OBVIOUS
  <2>1. i < j \/ j < i
    BY <1>1
  <2> QED
    BY <1>1, <1>4, <1>5, <2>1
<1>7. Count \in Injection(P, 1 .. c)
  BY <1>4, <1>6 DEF Injection, IsInjective
<1>8. IsFiniteSet(1 .. c) /\ Cardinality(1 .. c) = c
  BY <1>1, FS_Interval
<1>9. \A n \in 1 .. c : \E i \in P : Cardinality(UpTo(i)) = n
  <2>1. Count \in Surjection(P, 1 .. c)
    <3> HIDE DEF Count
    <3> QED
    BY <1>7, <1>8, FS_Injection DEF c
  <2> QED
    BY <2>1 DEF Surjection
<1>10. \A n : Nth(P, n) = CHOOSE i \in P : Cardinality(UpTo(i)) = n
  BY DEF Nth, UpTo
<1>11. \A n \in 1 .. c : Nth(P, n) \in P /\ Cardinality(UpTo(Nth(P, n))) = n
  BY <1>9, <1>10
<1>12. ASSUME NEW i \in P PROVE \E n \in 1 .. c : Nth(P, n) = i
  <2>1. Cardinality(UpTo(i)) \in 1 .. c
    BY <1>4
  <2> QED
    BY <1>6, <1>11, <2>1
<1>13. ASSUME NEW a \in 1 .. c, NEW b \in 1 .. c, a < b PROVE Nth(P, a) < Nth(P, b)
  <2> DEFINE i == Nth(P, a)
             j == Nth(P, b)
  <2>1. i \in P /\ j \in P /\ Cardinality(UpTo(i)) = a /\ Cardinality(UpTo(j)) = b
    BY <1>11
  <2> HIDE DEF i, j
  <2>2. i # j /\ ~ (j < i)
    BY <1>1, <1>5, <1>13, <2>1
  <2>3. i < j
    BY <1>1, <2>1, <2>2
  <2> QED
    BY <2>3 DEF i, j
<1> QED
  BY <1>11, <1>12, <1>13 DEF c

(* A function on the first n numbers is a sequence of length n.            *)
LEMMA AsSequence ==
  ASSUME NEW S, NEW n \in Nat, NEW f \in [1 .. n -> S]
  PROVE  f \in Seq(S) /\ Len(f) = n
<1>1. f \in Seq(S)
  BY SeqDef
<1>2. Len(f) \in Nat /\ DOMAIN f = 1 .. Len(f)
  BY <1>1, LenProperties
<1>3. 1 .. Len(f) = 1 .. n
  BY <1>2
<1>4. Len(f) = n
  BY <1>2, <1>3
<1> QED
  BY <1>1, <1>4

(* A part of a sequence, element by element.                               *)
LEMMA PartOf ==
  ASSUME NEW S, NEW seq \in Seq(S), NEW a \in Nat, NEW b \in Nat, 1 <= a, a <= b, b <= Len(seq)
  PROVE  /\ SubSeq(seq, a, b) \in Seq(S) /\ Len(SubSeq(seq, a, b)) = b - a + 1
         /\ \A k \in 1 .. b - a + 1 : SubSeq(seq, a, b)[k] = seq[a + k - 1]
<1>1. Len(seq) \in Nat /\ \A i \in 1 .. Len(seq) : seq[i] \in S
  OBVIOUS
<1>2. \A i \in a .. b : i \in 1 .. Len(seq)
  BY <1>1
<1>3. a \in Int /\ b \in Int /\ \A i \in a .. b : seq[i] \in S
  BY <1>1, <1>2
<1>4. /\ SubSeq(seq, a, b) \in Seq(S)
      /\ Len(SubSeq(seq, a, b)) = (IF a <= b THEN b - a + 1 ELSE 0)
      /\ \A k \in 1 .. b - a + 1 : SubSeq(seq, a, b)[k] = seq[a + k - 1]
  BY <1>3, SubSeqProperties
<1> QED
  BY <1>4

(* It is any sequence of its length that agrees with it.                   *)
LEMMA PartIs ==
  ASSUME NEW S, NEW seq \in Seq(S), NEW a \in Nat, NEW b \in Nat, 1 <= a, a <= b, b <= Len(seq),
         NEW part \in Seq(S), Len(part) = b - a + 1,
         \A k \in 1 .. b - a + 1 : part[k] = seq[a + k - 1]
  PROVE  SubSeq(seq, a, b) = part
<1> DEFINE whole == SubSeq(seq, a, b)
<1>1. /\ whole \in Seq(S) /\ Len(whole) = b - a + 1
      /\ \A k \in 1 .. b - a + 1 : whole[k] = seq[a + k - 1]
  BY PartOf
<1> HIDE DEF whole
<1>2. Len(whole) = Len(part) /\ \A k \in 1 .. Len(whole) : whole[k] = part[k]
  BY <1>1
<1>3. whole = part
  BY <1>1, <1>2, SeqEqual
<1> QED
  BY <1>3 DEF whole

(* The two positions that the compaction of a payload keeps.               *)
LEMMA OneAndThree ==
  Cardinality({1, 3}) = 2 /\ Nth({1, 3}, 1) = 1 /\ Nth({1, 3}, 2) = 3
<1> DEFINE places == {1, 3}
           Counted(i) == Cardinality({j \in places : j <= i})
<1>1. Cardinality({1}) = 1 /\ IsFiniteSet({1})
  BY FS_Singleton
<1>2. Cardinality(places) = 2
  <2>1. Cardinality({1} \cup {3}) = Cardinality({1}) + 1
    BY <1>1, FS_AddElement
  <2>2. places = {1} \cup {3}
    OBVIOUS
  <2> QED
    BY <1>1, <2>1, <2>2
<1>3. Counted(1) = 1 /\ Counted(3) = 2
  <2>1. {j \in places : j <= 1} = {1} /\ {j \in places : j <= 3} = places
    OBVIOUS
  <2> QED
    BY <1>1, <1>2, <2>1
<1>4. \A i : i \in places <=> i = 1 \/ i = 3
  OBVIOUS
<1>5. \A n : Nth(places, n) = CHOOSE i \in places : Counted(i) = n
  BY DEF Nth
<1> HIDE DEF places, Counted
<1>6. Nth(places, 1) = 1 /\ Nth(places, 2) = 3
  <2>1. \A i \in places : (Counted(i) = 1 <=> i = 1) /\ (Counted(i) = 2 <=> i = 3)
    BY <1>3, <1>4
  <2> QED
    BY <1>4, <1>5, <2>1
<1>7. Cardinality(places) = 2 /\ Nth(places, 1) = 1 /\ Nth(places, 2) = 3
  BY <1>2, <1>6
<1> QED
  BY <1>7 DEF places

(* A line is made of bytes of its event, and its one line break ends it.   *)
LEMMA LineFacts ==
  ASSUME NEW e \in Events
  PROVE  /\ Line(e) \in Seq(Bytes) /\ Len(Line(e)) \in Nat /\ Len(Line(e)) >= 1
         /\ DOMAIN Line(e) = 1 .. Len(Line(e))
         /\ \A k \in 1 .. Len(Line(e)) :
              /\ Line(e)[k].of = e
              /\ Line(e)[k].text = "nl" <=> k = Len(Line(e))
<1> DEFINE opens == Byte(e, "{")
           breaks == Byte(e, "nl")
           closes == Byte(e, "}")
           wraps == Byte(e, "wrap")
           escaped == Byte(e, "\\n")
           payload == Payload(e)
           compact == Compact(e)
           Piece(b) == b \in Bytes /\ b.of = e /\ b.text # "nl"
<1>1. /\ Piece(opens) /\ Piece(closes) /\ Piece(wraps) /\ Piece(escaped)
      /\ breaks \in Bytes /\ breaks.of = e /\ breaks.text = "nl"
  BY DEF Byte, Bytes
<1>2. payload[1] = opens /\ payload[2] = breaks /\ payload[3] = closes
  BY DEF Payload
<1>3. /\ e \in Malformed =>
           compact = <<wraps>> \o [i \in 1 .. 3 |-> IF payload[i].text = "nl"
                                                    THEN escaped ELSE payload[i]]
      /\ e \notin Malformed => compact = ReadAt(payload, {i \in 1 .. 3 : payload[i].text # "nl"})
      /\ Line(e) = compact \o <<breaks>>
  BY DEF Compact, Line
<1> HIDE DEF opens, breaks, closes, wraps, escaped, payload, compact
<1>4. \A i \in 1 .. 3 : i = 1 \/ i = 2 \/ i = 3
  OBVIOUS
<1>5. compact \in Seq(Bytes) /\ \A k \in 1 .. Len(compact) : Piece(compact[k])
  <2>1. CASE e \in Malformed
    <3> DEFINE rest == [i \in 1 .. 3 |-> IF payload[i].text = "nl" THEN escaped ELSE payload[i]]
    <3>1. rest[1] = opens /\ rest[2] = escaped /\ rest[3] = closes
      BY <1>1, <1>2
    <3>2. rest = [i \in 1 .. 3 |-> rest[i]]
      OBVIOUS
    <3>3. compact = <<wraps>> \o rest
      BY <1>3, <2>1
    <3> HIDE DEF rest
    <3>4. rest \in [1 .. 3 -> Bytes]
      BY <1>1, <1>4, <3>1, <3>2
    <3>5. rest \in Seq(Bytes) /\ Len(rest) = 3
      BY <3>4, AsSequence
    <3>6. wraps \in Bytes
      BY <1>1
    <3>7. /\ compact \in Seq(Bytes) /\ Len(compact) = 4
          /\ compact[1] = wraps /\ compact[2] = rest[1] /\ compact[3] = rest[2] /\ compact[4] = rest[3]
      <4> DEFINE one == <<wraps>>
      <4>1. one \in Seq(Bytes) /\ Len(one) = 1 /\ one[1] = wraps
        BY <3>6
      <4>2. compact = one \o rest
        BY <3>3
      <4> HIDE DEF one
      <4>3. /\ one \o rest \in Seq(Bytes) /\ Len(one \o rest) = Len(one) + Len(rest)
            /\ \A i \in 1 .. Len(one) + Len(rest) :
                 (one \o rest)[i] = IF i <= Len(one) THEN one[i] ELSE rest[i - Len(one)]
        BY <3>5, <4>1, ConcatProperties
      <4>4. \A i \in 1 .. 4 : compact[i] = IF i <= 1 THEN one[i] ELSE rest[i - 1]
        BY <3>5, <4>1, <4>2, <4>3
      <4>5. 1 \in 1 .. 4 /\ 2 \in 1 .. 4 /\ 3 \in 1 .. 4 /\ 4 \in 1 .. 4
        OBVIOUS
      <4> QED
        BY <3>5, <4>1, <4>2, <4>3, <4>4, <4>5
    <3>8. \A k \in 1 .. 4 : k = 1 \/ k = 2 \/ k = 3 \/ k = 4
      OBVIOUS
    <3> QED
      BY <1>1, <3>1, <3>7, <3>8
  <2>2. CASE e \notin Malformed
    <3> DEFINE places == {i \in 1 .. 3 : payload[i].text # "nl"}
    <3>1. places = {1, 3}
      <4>1. payload[1].text # "nl" /\ payload[2].text = "nl" /\ payload[3].text # "nl"
        BY <1>1, <1>2
      <4> QED
        BY <1>4, <4>1
    <3>2. compact = ReadAt(payload, places)
      BY <1>3, <2>2
    <3> HIDE DEF places
    <3>3. Cardinality(places) = 2 /\ Nth(places, 1) = 1 /\ Nth(places, 2) = 3
      BY <3>1, OneAndThree
    <3>4. compact = [n \in 1 .. 2 |-> payload[Nth(places, n)]]
      BY <3>2, <3>3 DEF ReadAt
    <3>5. \A k \in 1 .. 2 : k = 1 \/ k = 2
      OBVIOUS
    <3>6. compact[1] = opens /\ compact[2] = closes
      BY <1>2, <3>3, <3>4
    <3>7. compact \in [1 .. 2 -> Bytes]
      <4>1. \A n \in 1 .. 2 : payload[Nth(places, n)] \in Bytes
        BY <1>1, <1>2, <3>3, <3>5
      <4> QED
        BY <3>4, <4>1
    <3>8. compact \in Seq(Bytes) /\ Len(compact) = 2
      BY <3>7, AsSequence
    <3> QED
      BY <1>1, <3>5, <3>6, <3>8
  <2> QED
    BY <2>1, <2>2
<1>6. /\ Line(e) \in Seq(Bytes) /\ Len(Line(e)) = Len(compact) + 1 /\ Len(compact) \in Nat
      /\ \A k \in 1 .. Len(compact) : Line(e)[k] = compact[k]
      /\ Line(e)[Len(compact) + 1] = breaks
  <2>1. Line(e) = compact \o <<breaks>> /\ compact \in Seq(Bytes) /\ breaks \in Bytes
    BY <1>1, <1>3, <1>5
  <2> QED
    BY <2>1
<1>7. \A k \in 1 .. Len(Line(e)) : k \in 1 .. Len(compact) \/ k = Len(compact) + 1
  BY <1>6
<1>8. ASSUME NEW k \in 1 .. Len(Line(e))
      PROVE  Line(e)[k].of = e /\ (Line(e)[k].text = "nl" <=> k = Len(Line(e)))
  <2>1. CASE k \in 1 .. Len(compact)
    <3>1. Piece(Line(e)[k]) /\ k # Len(Line(e))
      BY <1>5, <1>6, <2>1
    <3> QED
      BY <3>1
  <2>2. CASE k = Len(compact) + 1
    BY <1>1, <1>6, <2>2
  <2> QED
    BY <1>7, <2>1, <2>2
<1> QED
  BY <1>6, <1>8

-----------------------------------------------------------------------------
(* The file is a sequence of bytes, each of an event.                      *)
LEMMA FileFacts ==
  ASSUME TypeOK
  PROVE  /\ file \in Seq(Bytes) /\ Len(file) \in Nat /\ DOMAIN file = 1 .. Len(file)
         /\ \A i \in 1 .. Len(file) : file[i] \in Bytes /\ file[i].of \in Events
<1>1. file \in Seq(Bytes) /\ Len(file) \in Nat /\ DOMAIN file = 1 .. Len(file)
  BY DEF TypeOK
<1>2. \A b \in Bytes : b.of \in Events
  BY DEF Bytes
<1> HIDE DEF Bytes
<1> QED
  BY <1>1, <1>2

(* The initial state satisfies the invariant.                              *)
LEMMA InitInductive == Init => Inductive
<1> SUFFICES ASSUME Init PROVE Inductive
  OBVIOUS
<1>1. file = <<>> /\ Len(file) = 0 /\ DOMAIN file = {}
  BY DEF Init
<1>2. TypeOK
  <2>1. <<>> \in Seq(Bytes)
    OBVIOUS
  <2>2. fds = {}
    BY DEF Init
  <2>3. outcome \in [Events -> Outcomes]
    BY DEF Init, Outcomes
  <2>4. 0 \in Nat /\ 0 <= MaxEvents
    OBVIOUS
  <2> QED
    BY <2>1, <2>2, <2>3, <2>4 DEF Init, TypeOK
<1>3. BytesOfPast /\ Pending /\ UnsentIsTheRest /\ Contiguous /\ LastByte
  BY <1>1 DEF Init, BytesOfPast, Pending, UnsentIsTheRest, Contiguous, LastByte
<1>4. SpoiledOnlyByTorn
  BY <1>1 DEF SpoiledOnlyByTorn
<1>5. EnteredIsWritten
  <2>1. Breaks = {}
    BY <1>1 DEF Breaks
  <2>2. DOMAIN Lines = {}
    BY <2>1, FS_EmptySet DEF Lines, ReadAt
  <2>3. Entered = <<>>
    BY <2>2 DEF Entered
  <2> QED
    BY <2>3 DEF EnteredIsWritten
<1> QED
  BY <1>2, <1>3, <1>4, <1>5 DEF Inductive

(* Whoever leaves the file alone leaves what has entered it alone.         *)
LEMMA SameFile == ASSUME UNCHANGED file PROVE Entered' = Entered /\ Breaks' = Breaks
<1>1. Breaks' = Breaks
  BY DEF Breaks
<1> QED
  BY <1>1 DEF Entered, Lines, ReadAt

LEMMA CallInductive == ASSUME Inductive, Call PROVE Inductive'
<1>1. /\ call = "none" /\ event < MaxEvents /\ event' = event + 1 /\ call' = "open"
      /\ UNCHANGED <<file, unsent, fds, outcome>>
  BY DEF Call
<1>2. event \in Nat
  BY <1>1 DEF Inductive, TypeOK
<1>3. TypeOK'
  <2>1. \A e \in fds : outcome[e] = "failed" /\ \A i \in DOMAIN file : file[i].of # e
    BY <1>1 DEF Inductive, TypeOK
  <2> QED
    BY <1>1, <1>2, <2>1 DEF Inductive, TypeOK
<1>7. BytesOfPast'
  <2>1. \A i \in DOMAIN file : file[i].of \in Nat /\ file[i].of <= event
    BY FileFacts DEF Inductive, BytesOfPast, Events
  <2>2. \A i \in DOMAIN file : file[i].of <= event + 1 /\ file[i].of # event + 1
    BY <1>2, <2>1
  <2> QED
    BY <1>1, <2>2 DEF BytesOfPast
<1>4. Pending'
  BY <1>1, <1>2 DEF Inductive, Pending, Events
<1>5. UnsentIsTheRest' /\ Contiguous' /\ SpoiledOnlyByTorn' /\ LastByte'
  BY <1>1 DEF Inductive, UnsentIsTheRest, Contiguous, LineAt, SpoiledOnlyByTorn, LastByte
<1>6. EnteredIsWritten'
  <2>1. Entered' = Entered /\ Breaks' = Breaks
    BY <1>1, SameFile
  <2>2. \A n \in DOMAIN Entered : Entered[n] \in Nat
    <3>1. \A n \in DOMAIN Entered : Entered[n] \in Events
      BY DEF Inductive, EnteredIsWritten
    <3> QED
      BY <3>1 DEF Events
  <2>3. \A n \in DOMAIN Entered : Entered[n] <= event /\ outcome[Entered[n]] # "failed"
    BY DEF Inductive, EnteredIsWritten
  <2>4. \A n \in DOMAIN Entered : Entered[n] <= event + 1 /\ Entered[n] # event + 1
    BY <1>2, <2>2, <2>3
  <2> QED
    BY <1>1, <2>1, <2>3, <2>4 DEF Inductive, EnteredIsWritten
<1> QED
  BY <1>3, <1>4, <1>5, <1>6, <1>7 DEF Inductive

LEMMA OpenInductive == ASSUME Inductive, Open PROVE Inductive'
<1>1. /\ call = "open" /\ call' = "write" /\ fds' = fds \cup {event} /\ unsent' = Line(event)
      /\ UNCHANGED <<file, event, outcome>>
  BY DEF Open
<1>2. /\ event \in Events /\ outcome[event] = "none"
  BY <1>1 DEF Inductive, Pending
<1>3. TypeOK'
  <2>1. unsent' \in Seq(Bytes) /\ fds' \subseteq Events
    BY <1>1, <1>2, LineFacts DEF Inductive, TypeOK
  <2>2. \A e \in fds : outcome[e] = "failed" /\ \A i \in DOMAIN file : file[i].of # e
    BY <1>1 DEF Inductive, TypeOK
  <2> QED
    BY <1>1, <2>1, <2>2 DEF Inductive, TypeOK
<1>8. BytesOfPast'
  BY <1>1 DEF Inductive, BytesOfPast
<1>4. Pending'
  BY <1>1, <1>2 DEF Inductive, Pending
<1>5. UnsentIsTheRest'
  <2> DEFINE line == Line(event)
  <2>1. Len(line) \in Nat /\ Len(file) \in Nat
    BY <1>2, LineFacts, FileFacts DEF Inductive
  <2>2. Line(event)' = line /\ unsent' = line
    BY <1>1 DEF Line, Compact, Payload
  <2> HIDE DEF line
  <2>3. Len(unsent') = Len(line) /\ Len(line) - Len(line) = 0 /\ 1 .. 0 = {}
    BY <2>1, <2>2
  <2>4. \A k \in 1 .. Len(line) : 0 + k = k
    BY <2>1
  <2> QED
    BY <1>1, <2>1, <2>2, <2>3, <2>4 DEF UnsentIsTheRest, Rest
<1>6. Contiguous' /\ SpoiledOnlyByTorn' /\ LastByte'
  BY <1>1 DEF Inductive, Contiguous, LineAt, SpoiledOnlyByTorn, LastByte
<1>7. EnteredIsWritten'
  <2>1. Entered' = Entered /\ Breaks' = Breaks
    BY <1>1, SameFile
  <2> QED
    BY <1>1, <2>1 DEF Inductive, EnteredIsWritten
<1> QED
  BY <1>3, <1>4, <1>5, <1>6, <1>7, <1>8 DEF Inductive

(* A call ends.  It is said to have failed only if its event has not       *)
(* entered the file, and to have appended only if nothing is left; and it  *)
(* leaves its descriptor open only if it throws before its first write.    *)
LEMMA EndsInductive ==
  ASSUME Inductive, call # "none", NEW how \in {"appended", "failed", "crashed"}, Ends(how),
         fds' \subseteq fds \cup {event}, event \in fds' => how = "failed" /\ call = "open",
         how = "failed" => call = "open" \/ unsent # <<>>,
         how = "appended" => call = "write" /\ unsent = <<>>
  PROVE  Inductive'
<1>1. /\ call' = "none" /\ unsent' = <<>> /\ UNCHANGED <<file, event>>
      /\ outcome' = [outcome EXCEPT ![event] = how]
  BY DEF Ends
<1>2. event \in Events /\ outcome[event] = "none"
  BY DEF Inductive, Pending
<1>3. /\ outcome' \in [Events -> Outcomes] /\ outcome'[event] = how
      /\ \A e \in Events \ {event} : outcome'[e] = outcome[e]
  BY <1>1, <1>2 DEF Inductive, TypeOK, Outcomes
<1>4. TypeOK'
  <2>1. fds' \subseteq Events
    BY <1>2 DEF Inductive, TypeOK
  <2>4. ASSUME NEW e \in fds'
        PROVE  outcome'[e] = "failed" /\ \A i \in DOMAIN file : file[i].of # e
    <3>1. CASE e = event
      BY <1>3, <3>1 DEF Inductive, BytesOfPast
    <3>2. CASE e # event
      BY <1>3, <2>1, <3>2 DEF Inductive, TypeOK
    <3> QED
      BY <3>1, <3>2
  <2>2. unsent' \in Seq(Bytes) /\ call' \in {"none", "open", "write"}
    BY <1>1
  <2>3. file' \in Seq(Bytes) /\ event' \in Nat /\ event' <= MaxEvents
    BY <1>1 DEF Inductive, TypeOK
  <2> QED
    BY <1>1, <1>3, <2>1, <2>2, <2>3, <2>4 DEF TypeOK
<1>15. BytesOfPast'
  BY <1>1 DEF Inductive, BytesOfPast
<1>5. Pending'
  <2>1. \A e \in Events : e > event => e # event
    BY <1>2 DEF Events
  <2> QED
    BY <1>1, <1>3, <2>1 DEF Inductive, Pending
<1>6. UnsentIsTheRest'
  BY <1>1 DEF UnsentIsTheRest
<1> DEFINE line == Line(event)
<1>7. /\ Len(line) \in Nat /\ Len(line) >= 1 /\ line[Len(line)].text = "nl"
      /\ file \in Seq(Bytes) /\ Len(file) \in Nat /\ DOMAIN file = 1 .. Len(file)
      /\ \A i \in 1 .. Len(file) : file[i].of \in Events
  BY <1>2, LineFacts, FileFacts DEF Inductive
<1>8. ASSUME how = "appended" PROVE LineAt(Len(file) - Len(line), line)
  <2>1. unsent = <<>> /\ Len(unsent) = 0 /\ Rest(line)
    BY <1>8 DEF Inductive, UnsentIsTheRest
  <2> HIDE DEF line
  <2>2. /\ Len(line) <= Len(file)
        /\ \A k \in 1 .. Len(line) : file[Len(file) - Len(line) + k] = line[k]
    BY <1>7, <2>1 DEF Rest
  <2> QED
    BY <1>7, <2>2 DEF LineAt
<1>9. \A e : Line(e)' = Line(e)
  BY DEF Line, Compact, Payload
<1>10. Contiguous'
  <2> SUFFICES ASSUME NEW e \in Events, outcome'[e] = "appended"
               PROVE  \E i : LineAt(i, Line(e))
    BY <1>1 DEF Contiguous, LineAt
  <2>1. CASE e = event
    BY <1>3, <1>8, <2>1
  <2>2. CASE e # event
    BY <1>3, <2>2 DEF Inductive, Contiguous
  <2> QED
    BY <2>1, <2>2
<1>11. \A e \in Events : outcome[e] \in {"failed", "crashed"} => outcome'[e] \in {"failed", "crashed"}
  BY <1>2, <1>3
<1>12. SpoiledOnlyByTorn'
  <2>1. \A i \in DOMAIN file \ {1} : i - 1 \in 1 .. Len(file)
    BY <1>7
  <2> QED
    BY <1>1, <1>7, <1>11, <2>1 DEF Inductive, SpoiledOnlyByTorn
<1>13. LastByte'
  <2> SUFFICES ASSUME Len(file) > 0, file[Len(file)].text # "nl"
               PROVE  outcome'[file[Len(file)].of] \in {"failed", "crashed"}
    BY <1>1 DEF LastByte
  <2>1. Len(file) \in 1 .. Len(file)
    BY <1>7
  <2>2. CASE outcome[file[Len(file)].of] \in {"failed", "crashed"}
    BY <1>7, <1>11, <2>1, <2>2
  <2>3. CASE call = "write" /\ file[Len(file)].of = event
    <3>1. ASSUME how = "appended" PROVE FALSE
      <4>1. LineAt(Len(file) - Len(line), line)
        BY <1>8, <3>1
      <4> HIDE DEF line
      <4>2. Len(line) \in 1 .. Len(line) /\ Len(file) - Len(line) + Len(line) = Len(file)
        BY <1>7
      <4>3. file[Len(file)] = line[Len(line)]
        BY <4>1, <4>2 DEF LineAt
      <4> QED
        BY <1>7, <4>3
    <3> QED
      BY <1>3, <2>3, <3>1
  <2> QED
    BY <2>2, <2>3 DEF Inductive, LastByte
<1>14. EnteredIsWritten'
  <2>1. Entered' = Entered /\ Breaks' = Breaks
    BY <1>1, SameFile
  <2>2. ASSUME NEW n \in DOMAIN Entered PROVE outcome'[Entered[n]] # "failed"
    <3>1. /\ Entered[n] \in Events /\ outcome[Entered[n]] # "failed"
          /\ Entered[n] = event => unsent = <<>> /\ call # "open"
      BY DEF Inductive, EnteredIsWritten
    <3> QED
      BY <1>3, <3>1
  <2> QED
    BY <1>1, <2>1, <2>2 DEF Inductive, EnteredIsWritten
<1> QED
  BY <1>4, <1>5, <1>6, <1>10, <1>12, <1>13, <1>14, <1>15 DEF Inductive

(* A write puts the next n bytes at the end of the file...                 *)
Written(n) ==
  /\ n \in 1 .. Len(unsent) /\ Len(unsent) \in Nat /\ Len(unsent') = Len(unsent) - n
  /\ unsent' \in Seq(Bytes) /\ \A k \in 1 .. Len(unsent) - n : unsent'[k] = unsent[n + k]
  /\ file' \in Seq(Bytes) /\ Len(file') = Len(file) + n
  /\ \A i \in 1 .. Len(file) : file'[i] = file[i]
  /\ \A i \in 1 .. n : file'[Len(file) + i] = unsent[i]

LEMMA WriteFacts ==
  ASSUME TypeOK, Write
  PROVE  \E n : Written(n)
<1>1. PICK n \in 1 .. Len(unsent) :
        /\ file' = file \o SubSeq(unsent, 1, n)
        /\ unsent' = SubSeq(unsent, n + 1, Len(unsent))
  BY DEF Write
<1>2. /\ unsent \in Seq(Bytes) /\ Len(unsent) \in Nat /\ file \in Seq(Bytes) /\ Len(file) \in Nat
      /\ \A i \in 1 .. Len(unsent) : unsent[i] \in Bytes
  BY DEF TypeOK
<1> DEFINE front == SubSeq(unsent, 1, n)
           back == SubSeq(unsent, n + 1, Len(unsent))
<1>3. front \in Seq(Bytes) /\ Len(front) = n /\ \A i \in 1 .. n : front[i] = unsent[i]
  <2>1. n \in Nat /\ n >= 1 /\ \A i \in 1 .. n : unsent[i] \in Bytes
    BY <1>2
  <2>2. /\ front \in Seq(Bytes) /\ Len(front) = (IF 1 <= n THEN n - 1 + 1 ELSE 0)
        /\ \A i \in 1 .. n - 1 + 1 : front[i] = unsent[1 + i - 1]
    BY <2>1, SubSeqProperties
  <2> HIDE DEF front
  <2> QED
    BY <2>1, <2>2
<1>4. /\ back \in Seq(Bytes) /\ Len(back) = Len(unsent) - n
      /\ \A k \in 1 .. Len(unsent) - n : back[k] = unsent[n + k]
  <2> DEFINE N == Len(unsent)
  <2>1. n \in Nat /\ n + 1 \in Int /\ N \in Int /\ n <= N /\ \A i \in n + 1 .. N : unsent[i] \in Bytes
    BY <1>2
  <2>2. /\ back \in Seq(Bytes) /\ Len(back) = (IF n + 1 <= N THEN N - (n + 1) + 1 ELSE 0)
        /\ \A i \in 1 .. N - (n + 1) + 1 : back[i] = unsent[n + 1 + i - 1]
    BY <2>1, SubSeqProperties
  <2> HIDE DEF back, N
  <2>3. Len(back) = N - n /\ N - (n + 1) + 1 = N - n
    BY <2>1, <2>2
  <2>4. \A i \in 1 .. N - n : n + 1 + i - 1 = n + i
    BY <2>1
  <2> QED
    BY <2>2, <2>3, <2>4 DEF N
<1> HIDE DEF front, back
<1>5. file' = file \o front /\ unsent' = back
  BY <1>1 DEF front, back
<1>6. /\ file' \in Seq(Bytes) /\ Len(file') = Len(file) + n
      /\ \A i \in 1 .. Len(file) : file'[i] = file[i]
      /\ \A i \in 1 .. n : file'[Len(file) + i] = front[i]
  <2>1. /\ file' \in Seq(Bytes) /\ Len(file') = Len(file) + Len(front)
        /\ \A i \in 1 .. Len(file) + Len(front) :
             file'[i] = IF i <= Len(file) THEN file[i] ELSE front[i - Len(file)]
    BY <1>2, <1>3, <1>5, ConcatProperties
  <2>2. n \in Nat
    OBVIOUS
  <2>3. ASSUME NEW i \in 1 .. n PROVE file'[Len(file) + i] = front[i]
    <3>1. /\ Len(file) + i \in 1 .. Len(file) + Len(front) /\ ~(Len(file) + i <= Len(file))
          /\ Len(file) + i - Len(file) = i
      BY <1>2, <1>3, <2>2
    <3> QED
      BY <2>1, <3>1
  <2>4. ASSUME NEW i \in 1 .. Len(file) PROVE file'[i] = file[i]
    BY <1>2, <1>3, <2>1, <2>2
  <2> QED
    BY <1>3, <2>1, <2>3, <2>4
<1>7. Written(n)
  BY <1>2, <1>3, <1>4, <1>5, <1>6 DEF Written
<1> QED
  BY <1>7

(* ... which are of the event being logged; a line break is the last byte. *)
LEMMA WrittenBytes ==
  ASSUME Inductive, call = "write", NEW n, Written(n)
  PROVE  /\ Len(file) \in Nat /\ n \in Nat /\ n >= 1
         /\ DOMAIN file = 1 .. Len(file) /\ DOMAIN file' = 1 .. Len(file) + n
         /\ \A i \in DOMAIN file' : i \in 1 .. Len(file) \/ \E k \in 1 .. n : i = Len(file) + k
         /\ \A k \in 1 .. n :
              /\ file'[Len(file) + k].of = event
              /\ file'[Len(file) + k].text = "nl" <=> k = n /\ Len(unsent') = 0
<1> DEFINE line == Line(event)
<1>1. /\ event \in Events /\ Rest(line)
      /\ Len(file) \in Nat /\ DOMAIN file = 1 .. Len(file)
  BY FileFacts DEF Inductive, Pending, UnsentIsTheRest
<1>2. Len(line) \in Nat
      /\ \A k \in 1 .. Len(line) : line[k].of = event /\ (line[k].text = "nl" <=> k = Len(line))
  BY <1>1, LineFacts
<1> HIDE DEF line
<1>3. n \in Nat /\ n >= 1 /\ DOMAIN file' = 1 .. Len(file) + n
  BY DEF Written
<1>4. ASSUME NEW i \in DOMAIN file', i \notin 1 .. Len(file)
      PROVE  \E k \in 1 .. n : i = Len(file) + k
  <2>1. i - Len(file) \in 1 .. n /\ i = Len(file) + (i - Len(file))
    BY <1>1, <1>3, <1>4
  <2> QED
    BY <2>1
<1>5. ASSUME NEW k \in 1 .. n
      PROVE  /\ file'[Len(file) + k].of = event
             /\ file'[Len(file) + k].text = "nl" <=> k = n /\ Len(unsent') = 0
  <2>1. /\ n \in 1 .. Len(unsent) /\ Len(unsent) \in Nat /\ Len(unsent) <= Len(line)
        /\ Len(unsent') = Len(unsent) - n
    BY <1>1 DEF Written, Rest
  <2>2. k \in 1 .. Len(unsent) /\ Len(line) - Len(unsent) + k \in 1 .. Len(line)
    BY <1>2, <1>3, <2>1
  <2>3. file'[Len(file) + k] = line[Len(line) - Len(unsent) + k]
    BY <1>1, <2>2 DEF Written, Rest
  <2>4. Len(line) - Len(unsent) + k = Len(line) <=> k = n /\ Len(unsent') = 0
    BY <1>2, <1>3, <2>1, <2>2
  <2> QED
    BY <1>2, <2>2, <2>3, <2>4
<1> QED
  BY <1>1, <1>3, <1>4, <1>5

(* The last byte of a line, and no other, adds a line break to the file,   *)
(* behind those that are there.                                            *)
LEMMA WriteBreaks ==
  ASSUME Inductive, call = "write", NEW n, Written(n)
  PROVE  /\ Len(unsent') # 0 => Breaks' = Breaks
         /\ Len(unsent') = 0 => Breaks' = Breaks \cup {Len(file) + n}
         /\ Behind(Len(file) + n, Breaks)
         /\ Cardinality(Breaks) \in Nat /\ Cardinality(Breaks') \in Nat
         /\ Cardinality(Breaks) <= Cardinality(Breaks')
         /\ \A k \in 1 .. Cardinality(Breaks) : Nth(Breaks', k) = Nth(Breaks, k)
<1> DEFINE last == Len(file) + n
           more == Breaks \cup {last}
<1>1. /\ Len(file) \in Nat /\ n \in Nat /\ n >= 1
      /\ DOMAIN file = 1 .. Len(file) /\ DOMAIN file' = 1 .. Len(file) + n
      /\ \A i \in DOMAIN file' : i \in 1 .. Len(file) \/ \E k \in 1 .. n : i = Len(file) + k
      /\ \A k \in 1 .. n : file'[Len(file) + k].text = "nl" <=> k = n /\ Len(unsent') = 0
  BY WrittenBytes
<1>2. \A i \in 1 .. Len(file) : file'[i] = file[i]
  BY DEF Written
<1>3. \A i \in 1 .. Len(file) : i \in DOMAIN file'
  BY <1>1
<1>4. ASSUME Len(unsent') # 0 PROVE Breaks' = Breaks
  <2>1. ASSUME NEW i \in DOMAIN file', file'[i].text = "nl" PROVE i \in 1 .. Len(file)
    BY <1>1, <1>4, <2>1
  <2>2. \A i : i \in Breaks' <=> i \in Breaks
    BY <1>1, <1>2, <1>3, <2>1 DEF Breaks
  <2> QED
    BY <2>2
<1>5. ASSUME Len(unsent') = 0 PROVE Breaks' = more
  <2>1. last \in DOMAIN file' /\ file'[last].text = "nl"
    <3>1. n \in 1 .. n
      BY <1>1
    <3> QED
      BY <1>1, <1>5, <3>1
  <2>2. ASSUME NEW i \in DOMAIN file', file'[i].text = "nl" PROVE i \in 1 .. Len(file) \/ i = last
    <3>1. CASE i \in 1 .. Len(file)
      BY <3>1
    <3>2. ASSUME NEW k \in 1 .. n, i = Len(file) + k PROVE i = last
      <4>1. k = n
        BY <1>1, <2>2, <3>2
      <4> QED
        BY <3>2, <4>1
    <3> QED
      BY <1>1, <3>1, <3>2
  <2> HIDE DEF last
  <2>3. \A i : i \in Breaks' <=> i \in Breaks \cup {last}
    BY <1>1, <1>2, <1>3, <2>1, <2>2 DEF Breaks
  <2> QED
    BY <2>3
<1>6. Behind(last, Breaks)
  <2>1. Breaks \in SUBSET (1 .. Len(file)) /\ Len(file) \in Nat /\ last \in Nat /\ last > Len(file)
    BY <1>1 DEF Breaks
  <2> QED
    BY <2>1 DEF Behind
<1> HIDE DEF last, more
<1>7. /\ Cardinality(Breaks) \in Nat /\ Cardinality(more) = Cardinality(Breaks) + 1
      /\ \A k \in 1 .. Cardinality(Breaks) : Nth(more, k) = Nth(Breaks, k)
  BY <1>6, OneMorePlace DEF more
<1>8. Breaks' = Breaks \/ Breaks' = more
  BY <1>4, <1>5
<1>9. /\ Cardinality(Breaks') \in Nat /\ Cardinality(Breaks) <= Cardinality(Breaks')
      /\ \A k \in 1 .. Cardinality(Breaks) : Nth(Breaks', k) = Nth(Breaks, k)
  BY <1>7, <1>8
<1> QED
  BY <1>4, <1>5, <1>6, <1>7, <1>9 DEF last, more

(* So the event enters the file with the last byte, and nothing else does. *)
LEMMA WriteEnters ==
  ASSUME Inductive, call = "write", NEW n, Written(n)
  PROVE  /\ Len(unsent') # 0 => Entered' = Entered
         /\ Len(unsent') = 0 => Entered' = Append(Entered, event)
         /\ \A k \in DOMAIN Entered' : Nth(Breaks, k)' \in Breaks'
<1>1. /\ Len(file) \in Nat /\ n \in Nat /\ n >= 1
      /\ DOMAIN file = 1 .. Len(file) /\ DOMAIN file' = 1 .. Len(file) + n
      /\ \A i \in DOMAIN file' : i \in 1 .. Len(file) \/ \E k \in 1 .. n : i = Len(file) + k
      /\ \A k \in 1 .. n : file'[Len(file) + k].text = "nl" <=> k = n /\ Len(unsent') = 0
      /\ file'[Len(file) + n].of = event
  <2>1. n \in 1 .. n
    BY DEF Written
  <2>2. /\ Len(file) \in Nat /\ n \in Nat /\ n >= 1
        /\ DOMAIN file = 1 .. Len(file) /\ DOMAIN file' = 1 .. Len(file) + n
        /\ \A i \in DOMAIN file' : i \in 1 .. Len(file) \/ \E k \in 1 .. n : i = Len(file) + k
        /\ \A k \in 1 .. n :
             /\ file'[Len(file) + k].of = event
             /\ file'[Len(file) + k].text = "nl" <=> k = n /\ Len(unsent') = 0
    BY WrittenBytes
  <2> QED
    BY <2>1, <2>2
<1>2. \A i \in 1 .. Len(file) : file'[i] = file[i]
  BY DEF Written
<1> DEFINE c == Cardinality(Breaks)
           size == Len(file)
           last == Len(file) + n
           more == Breaks \cup {last}
<1>3. Breaks \in SUBSET (1 .. size) /\ size \in Nat /\ last \in Nat /\ last > size
  BY <1>1 DEF Breaks
<1>4. /\ c \in Nat /\ Cardinality(more) = c + 1 /\ Nth(more, c + 1) = last
      /\ \A k \in 1 .. c : Nth(more, k) = Nth(Breaks, k)
  <2>1. Behind(last, Breaks)
    BY WriteBreaks
  <2> HIDE DEF size, last
  <2> QED
    BY <2>1, OneMorePlace
<1>5. DOMAIN Entered = 1 .. c /\ \A k \in 1 .. c : Entered[k] = file[Nth(Breaks, k)].of
  BY DEF Entered, Lines, ReadAt
<1>6. DOMAIN Entered' = 1 .. Cardinality(Breaks')
      /\ \A k \in 1 .. Cardinality(Breaks') : Entered'[k] = file'[Nth(Breaks', k)].of
  BY DEF Entered, Lines, ReadAt, Nth
<1>7. \A k \in 1 .. c : Nth(Breaks, k) \in Breaks
  BY <1>5 DEF Inductive, EnteredIsWritten
<1>8. \A k : Nth(Breaks, k)' = Nth(Breaks', k)
  BY DEF Nth
<1>9. Entered = [k \in 1 .. c |-> Entered[k]]
  BY DEF Entered, Lines, ReadAt
<1>10. Entered' = [k \in 1 .. Cardinality(Breaks') |-> Entered'[k]]
  BY DEF Entered, Lines, ReadAt
<1>11. Entered \in Seq(Events) /\ Len(Entered) = c
  <2>1. Entered \in Seq(Events)
    BY DEF Inductive, EnteredIsWritten
  <2> QED
    BY <1>4, <1>5, <2>1
<1> HIDE DEF c
<1>12. CASE Len(unsent') # 0
  <2>1. Breaks' = Breaks
    BY <1>12, WriteBreaks
  <2>2. \A k \in 1 .. c : Entered'[k] = Entered[k]
    BY <1>2, <1>3, <1>5, <1>6, <1>7, <2>1 DEF c
  <2>3. Entered' = Entered
    BY <1>9, <1>10, <2>1, <2>2 DEF c
  <2> QED
    BY <1>5, <1>7, <1>8, <1>12, <2>1, <2>3
<1>13. CASE Len(unsent') = 0
  <2>1. Breaks' = more
    BY <1>13, WriteBreaks
  <2>7. Breaks \subseteq more /\ last \in more /\ file'[last].of = event
    BY <1>1
  <2> HIDE DEF more, last
  <2>8. Cardinality(Breaks') = c + 1 /\ \A k : Nth(Breaks', k) = Nth(more, k)
    BY <1>4, <2>1
  <2>2. \A k \in 1 .. c : Entered'[k] = Entered[k] /\ Nth(Breaks', k) \in Breaks'
    <3> SUFFICES ASSUME NEW k \in 1 .. c
                 PROVE  Entered'[k] = Entered[k] /\ Nth(Breaks', k) \in Breaks'
      OBVIOUS
    <3>1. k \in 1 .. c + 1 /\ Nth(Breaks', k) = Nth(Breaks, k)
      BY <1>4, <2>8
    <3>2. Nth(Breaks, k) \in Breaks /\ Nth(Breaks, k) \in 1 .. Len(file)
      BY <1>3, <1>7
    <3>3. Entered'[k] = file'[Nth(Breaks, k)].of
      BY <1>6, <2>8, <3>1
    <3> QED
      BY <1>2, <1>5, <2>1, <2>7, <3>1, <3>2, <3>3
  <2>3. Entered'[c + 1] = event /\ Nth(Breaks', c + 1) = last /\ c + 1 \in 1 .. c + 1
    <3>1. c + 1 \in 1 .. c + 1 /\ Nth(Breaks', c + 1) = last
      BY <1>4, <2>8
    <3> QED
      BY <1>6, <2>7, <2>8, <3>1
  <2>4. \A k \in 1 .. c + 1 : k \in 1 .. c \/ k = c + 1
    BY <1>4
  <2>5. Entered' = Append(Entered, event)
    <3>1. event \in Events
      BY DEF Inductive, Pending
    <3> DEFINE longer == Append(Entered, event)
    <3>2. /\ longer \in Seq(Events) /\ Len(longer) = c + 1
          /\ \A k \in 1 .. c : longer[k] = Entered[k]
          /\ longer[c + 1] = event
      BY <1>4, <1>11, <3>1
    <3> HIDE DEF longer
    <3>3. \A k \in 1 .. c + 1 : Entered'[k] = longer[k]
      BY <2>2, <2>3, <2>4, <3>2
    <3>4. Cardinality(Breaks') = c + 1
      BY <2>8
    <3>5. Entered' = [k \in 1 .. c + 1 |-> longer[k]]
      BY <1>10, <3>3, <3>4
    <3>6. longer = [k \in 1 .. c + 1 |-> longer[k]]
      <4>1. longer \in [1 .. Len(longer) -> Events]
        BY <3>2, LenProperties
      <4> QED
        BY <3>2, <4>1
    <3> QED
      BY <3>5, <3>6 DEF longer
  <2>6. \A k \in DOMAIN Entered' : Nth(Breaks', k) \in Breaks'
    <3>1. DOMAIN Entered' = 1 .. c + 1
      BY <1>6, <2>8
    <3>2. last \in Breaks'
      BY <2>1, <2>7
    <3> QED
      BY <2>2, <2>3, <2>4, <3>1, <3>2
  <2> QED
    BY <1>8, <1>13, <2>5, <2>6
<1> QED
  BY <1>12, <1>13

LEMMA WriteInductive == ASSUME Inductive, Write PROVE Inductive'
<1>1. call = "write" /\ UNCHANGED <<event, call, fds, outcome>>
  BY DEF Write
<1>2. PICK n : Written(n)
  BY WriteFacts DEF Inductive
<1> DEFINE line == Line(event)
<1>3. /\ Len(file) \in Nat /\ n \in Nat /\ n >= 1
      /\ DOMAIN file = 1 .. Len(file) /\ DOMAIN file' = 1 .. Len(file) + n
      /\ \A i \in DOMAIN file' : i \in 1 .. Len(file) \/ \E k \in 1 .. n : i = Len(file) + k
      /\ \A k \in 1 .. n : file'[Len(file) + k].of = event
  BY <1>1, <1>2, WrittenBytes
<1>4. /\ n <= Len(unsent) /\ Len(unsent) \in Nat /\ Len(unsent') = Len(unsent) - n
      /\ unsent' \in Seq(Bytes) /\ \A k \in 1 .. Len(unsent) - n : unsent'[k] = unsent[n + k]
      /\ file' \in Seq(Bytes) /\ Len(file') = Len(file) + n
      /\ \A i \in 1 .. Len(file) : file'[i] = file[i]
      /\ \A i \in 1 .. n : file'[Len(file) + i] = unsent[i]
  BY <1>2 DEF Written
<1>5. event \in Events /\ Rest(line) /\ Len(line) \in Nat
  BY <1>1, LineFacts DEF Inductive, Pending, UnsentIsTheRest
<1>6. \A e : Line(e)' = Line(e)
  BY DEF Line, Compact, Payload
<1>7. TypeOK'
  <2>1. ASSUME NEW e \in fds, e # event
        PROVE  outcome[e] = "failed" /\ \A i \in DOMAIN file' : file'[i].of # e
    <3>1. outcome[e] = "failed" /\ \A i \in 1 .. Len(file) : file[i].of # e
      BY <1>3, <2>1 DEF Inductive, TypeOK
    <3> QED
      BY <1>3, <1>4, <2>1, <3>1
  <2>2. \A e \in fds' : \/ call' = "write" /\ e = event'
                        \/ outcome'[e] = "failed" /\ \A i \in DOMAIN file' : file'[i].of # e
    BY <1>1, <2>1
  <2> QED
    BY <1>1, <1>4, <2>2 DEF Inductive, TypeOK
<1>14. BytesOfPast'
  <2>1. \A i \in 1 .. Len(file) : file'[i].of <= event
    BY <1>3, <1>4 DEF Inductive, BytesOfPast
  <2>2. event \in Nat
    BY DEF Inductive, TypeOK
  <2>3. ASSUME NEW i \in DOMAIN file' PROVE file'[i].of <= event
    <3>1. CASE i \in 1 .. Len(file)
      BY <2>1, <3>1
    <3>2. ASSUME NEW k \in 1 .. n, i = Len(file) + k PROVE file'[i].of <= event
      <4>1. file'[i].of = event
        BY <1>3, <3>2
      <4> QED
        BY <2>2, <4>1
    <3> QED
      BY <1>3, <3>1, <3>2
  <2> QED
    BY <1>1, <2>3 DEF BytesOfPast
<1>8. Pending'
  BY <1>1 DEF Inductive, Pending
<1>9. UnsentIsTheRest'
  <2>1. Line(event)' = line
    BY <1>1 DEF Line, Compact, Payload
  <2> HIDE DEF line
  <2> DEFINE done == Len(line) - Len(unsent)
  <2>2. /\ done \in Nat /\ done <= Len(file) /\ Len(line) - Len(unsent') = done + n
        /\ \A k \in 1 .. Len(unsent) : unsent[k] = line[done + k]
        /\ \A k \in 1 .. done : file[Len(file) - done + k] = line[k]
    BY <1>3, <1>4, <1>5 DEF Rest
  <2> HIDE DEF done
  <2>3. ASSUME NEW k \in 1 .. Len(unsent') PROVE unsent'[k] = line[done + n + k]
    <3>1. k \in 1 .. Len(unsent) - n /\ n + k \in 1 .. Len(unsent) /\ done + (n + k) = done + n + k
      BY <1>3, <1>4, <2>2, <2>3
    <3> QED
      BY <1>4, <2>2, <3>1
  <2>4. ASSUME NEW k \in 1 .. done + n
        PROVE  file'[Len(file') - (done + n) + k] = line[k]
    <3>1. Len(file') - (done + n) + k = Len(file) - done + k
      BY <1>3, <1>4, <2>2
    <3>2. CASE k \in 1 .. done
      <4>1. Len(file) - done + k \in 1 .. Len(file)
        BY <1>3, <2>2, <3>2
      <4> QED
        BY <1>4, <2>2, <3>1, <3>2, <4>1
    <3>3. CASE k \notin 1 .. done
      <4>1. /\ k - done \in 1 .. n /\ k - done \in 1 .. Len(unsent)
            /\ Len(file) - done + k = Len(file) + (k - done) /\ done + (k - done) = k
        BY <1>3, <1>4, <2>2, <3>3
      <4> QED
        BY <1>4, <2>2, <3>1, <4>1
    <3> QED
      BY <3>2, <3>3
  <2>5. Len(unsent') <= Len(line) /\ done + n <= Len(file')
    BY <1>3, <1>4, <1>5, <2>2 DEF Rest
  <2> QED
    BY <2>1, <2>2, <2>3, <2>4, <2>5 DEF UnsentIsTheRest, Rest
<1>10. Contiguous'
  <2>1. ASSUME NEW e \in Events, outcome[e] = "appended"
        PROVE  \E i : /\ i \in Nat /\ i + Len(Line(e)) <= Len(file')
                      /\ \A k \in 1 .. Len(Line(e)) : file'[i + k] = Line(e)[k]
    <3>1. PICK i : LineAt(i, Line(e))
      BY <2>1 DEF Inductive, Contiguous
    <3>2. /\ i \in Nat /\ i + Len(Line(e)) <= Len(file) /\ Len(Line(e)) \in Nat
          /\ \A k \in 1 .. Len(Line(e)) : file[i + k] = Line(e)[k]
      BY <3>1, LineFacts DEF LineAt
    <3>3. \A k \in 1 .. Len(Line(e)) : i + k \in 1 .. Len(file)
      BY <1>3, <3>2
    <3>4. i + Len(Line(e)) <= Len(file')
      BY <1>3, <1>4, <3>2
    <3> QED
      BY <1>4, <3>2, <3>3, <3>4
  <2> QED
    BY <1>1, <1>6, <2>1 DEF Contiguous, LineAt
<1>11. SpoiledOnlyByTorn'
  <2> SUFFICES ASSUME NEW i \in DOMAIN file', i # 1,
                      file'[i].of # file'[i - 1].of, file'[i - 1].text # "nl"
               PROVE  outcome[file'[i - 1].of] \in {"failed", "crashed"}
    BY <1>1 DEF SpoiledOnlyByTorn
  <2>1. CASE i \in 1 .. Len(file)
    <3>1. i - 1 \in 1 .. Len(file) /\ i \in DOMAIN file \ {1}
      BY <1>3, <2>1
    <3>2. file'[i] = file[i] /\ file'[i - 1] = file[i - 1]
      BY <1>4, <2>1, <3>1
    <3> QED
      BY <3>1, <3>2 DEF Inductive, SpoiledOnlyByTorn
  <2>2. ASSUME NEW k \in 1 .. n, i = Len(file) + k
        PROVE  outcome[file'[i - 1].of] \in {"failed", "crashed"}
    <3>1. file'[i].of = event
      BY <1>3, <2>2
    <3>2. CASE k = 1
      <4>1. i - 1 = Len(file) /\ Len(file) > 0 /\ Len(file) \in 1 .. Len(file)
        BY <1>3, <2>2, <3>2
      <4>2. file'[i - 1] = file[Len(file)]
        BY <1>4, <4>1
      <4> QED
        BY <3>1, <4>1, <4>2 DEF Inductive, LastByte
    <3>3. CASE k # 1
      <4>1. k - 1 \in 1 .. n /\ i - 1 = Len(file) + (k - 1)
        BY <1>3, <2>2, <3>3
      <4>2. file'[i - 1].of = event
        BY <1>3, <4>1
      <4> QED
        BY <3>1, <4>2
    <3> QED
      BY <3>2, <3>3
  <2> QED
    BY <1>3, <2>1, <2>2
<1>12. LastByte'
  <2>1. n \in 1 .. n
    BY <1>3
  <2>2. file'[Len(file')].of = event
    BY <1>3, <1>4, <2>1
  <2> QED
    BY <1>1, <2>2 DEF LastByte
<1>13. EnteredIsWritten'
  <2>1. /\ Len(unsent') # 0 => Entered' = Entered
        /\ Len(unsent') = 0 => Entered' = Append(Entered, event)
        /\ \A k \in DOMAIN Entered' : Nth(Breaks, k)' \in Breaks'
    BY <1>1, <1>2, WriteEnters
  <2>2. /\ Entered \in Seq(Events)
        /\ \A k \in DOMAIN Entered : Entered[k] <= event /\ outcome[Entered[k]] # "failed"
        /\ \A k \in DOMAIN Entered : Entered[k] = event => unsent = <<>>
    BY DEF Inductive, EnteredIsWritten
  <2>3. unsent # <<>>
    BY DEF Write
  <2>4. CASE Len(unsent') # 0
    BY <1>1, <2>1, <2>2, <2>3, <2>4 DEF EnteredIsWritten
  <2>5. CASE Len(unsent') = 0
    <3> DEFINE longer == Append(Entered, event)
    <3>1. /\ longer \in Seq(Events)
          /\ \A k \in DOMAIN longer : (k \in DOMAIN Entered /\ longer[k] = Entered[k]) \/ longer[k] = event
      BY <1>5, <2>2
    <3>2. unsent' = <<>> /\ Entered' = longer
      BY <1>4, <2>1, <2>5
    <3>3. event \in Nat /\ event <= event /\ outcome[event] # "failed"
      BY <1>1, <1>5 DEF Inductive, Pending, Events
    <3> HIDE DEF longer
    <3>4. \A k \in DOMAIN longer : longer[k] <= event /\ outcome[longer[k]] # "failed"
      BY <2>2, <3>1, <3>3
    <3> QED
      BY <1>1, <2>1, <3>1, <3>2, <3>4 DEF EnteredIsWritten
  <2> QED
    BY <2>4, <2>5
<1> QED
  BY <1>7, <1>8, <1>9, <1>10, <1>11, <1>12, <1>13, <1>14 DEF Inductive

(* Neither does a death between two calls: it only closes descriptors.     *)
LEMMA StutterInductive ==
  ASSUME Inductive, UNCHANGED <<file, event, call, unsent, outcome>>, fds' \subseteq fds
  PROVE  Inductive'
<1>1. UNCHANGED <<file, event, call, unsent, outcome>>
  OBVIOUS
<1>2. TypeOK' /\ BytesOfPast' /\ Pending'
  BY <1>1 DEF Inductive, TypeOK, BytesOfPast, Pending
<1>3. UnsentIsTheRest' /\ Contiguous'
  <2>1. \A e : Line(e)' = Line(e)
    BY DEF Line, Compact, Payload
  <2>2. \A line : Rest(line)' = Rest(line)
    BY <1>1 DEF Rest
  <2>3. Line(event)' = Line(event)
    BY <1>1 DEF Line, Compact, Payload
  <2>4. Rest(Line(event))' = Rest(Line(event))
    BY <1>1, <2>3 DEF Rest
  <2>5. UnsentIsTheRest'
    BY <1>1, <2>4 DEF Inductive, UnsentIsTheRest
  <2>6. Contiguous'
    BY <1>1, <2>1 DEF Inductive, Contiguous, LineAt
  <2> QED
    BY <2>5, <2>6
<1>4. SpoiledOnlyByTorn' /\ LastByte'
  BY <1>1 DEF Inductive, SpoiledOnlyByTorn, LastByte
<1>5. EnteredIsWritten'
  <2>1. Entered' = Entered /\ Breaks' = Breaks
    BY <1>1, SameFile
  <2> QED
    BY <1>1, <2>1 DEF Inductive, EnteredIsWritten
<1> QED
  BY <1>2, <1>3, <1>4, <1>5 DEF Inductive

(* The ways a call ends.                                                   *)
LEMMA EndingInductive ==
  ASSUME Inductive, OpenFails \/ DumpThrows \/ WriteFails \/ Close \/ Crash
  PROVE  Inductive'
<1>5. ASSUME call = "open" PROVE event \notin fds
  BY <1>5 DEF Inductive, TypeOK, Pending
<1>1. CASE OpenFails \/ DumpThrows
  BY <1>1, <1>5, EndsInductive DEF OpenFails, DumpThrows
<1>2. CASE WriteFails
  BY <1>2, EndsInductive DEF WriteFails, Closed
<1>3. CASE Close
  BY <1>3, EndsInductive DEF Close, Closed
<1>4. CASE Crash
  BY <1>4, EndsInductive, StutterInductive DEF Crash
<1> QED
  BY <1>1, <1>2, <1>3, <1>4

-----------------------------------------------------------------------------
(* Every step preserves the invariant.                                     *)
LEMMA StepInductive == ASSUME Inductive, [Next]_vars PROVE Inductive'
<1>1. CASE Call
  BY <1>1, CallInductive
<1>2. CASE Open
  BY <1>2, OpenInductive
<1>3. CASE Write
  BY <1>3, WriteInductive
<1>4. CASE OpenFails \/ DumpThrows \/ WriteFails \/ Close \/ Crash
  BY <1>4, EndingInductive
<1>5. CASE UNCHANGED vars
  BY <1>5, StutterInductive DEF vars
<1> QED
  BY <1>1, <1>2, <1>3, <1>4, <1>5 DEF Next

(* Every state satisfies the invariant.                                    *)
THEOREM InductiveInvariant == Spec => []Inductive
<1>1. Init => Inductive
  BY InitInductive
<1>2. Inductive /\ [Next]_vars => Inductive'
  BY StepInductive
<1> QED
  BY <1>1, <1>2, PTL DEF Spec

(* A call leaves its descriptor open only if it threw before its first     *)
(* write.                                                                  *)
THEOREM TypeCorrect == Spec => []TypeOK
<1>1. Inductive => TypeOK
  BY DEF Inductive
<1> QED
  BY <1>1, InductiveInvariant, PTL

(* An event starts in the middle of a line only behind the remains of an   *)
(* append that failed or of a process that died.                           *)
THEOREM OnlyTornLinesSpoil == Spec => []SpoiledOnlyByTorn
<1>1. Inductive => SpoiledOnlyByTorn
  BY DEF Inductive
<1> QED
  BY <1>1, InductiveInvariant, PTL

(* The bytes of an event whose append returned lie side by side in the     *)
(* file and make up its line, however the kernel cuts the writes.          *)
THEOREM AppendedLinesAreWhole == Spec => []AppendedIsContiguous
<1>1. Inductive => AppendedIsContiguous
  <2> SUFFICES ASSUME Inductive, NEW e \in Events, outcome[e] = "appended"
               PROVE  \E i \in 0 .. Len(file) - Len(Line(e)) :
                        SubSeq(file, i + 1, i + Len(Line(e))) = Line(e)
    BY DEF AppendedIsContiguous
  <2> DEFINE line == Line(e)
             l == Len(line)
  <2>1. line \in Seq(Bytes) /\ l \in Nat /\ l >= 1
    BY LineFacts
  <2>2. file \in Seq(Bytes) /\ Len(file) \in Nat
    BY FileFacts DEF Inductive
  <2>3. PICK i : LineAt(i, line)
    BY DEF Inductive, Contiguous
  <2> HIDE DEF line
  <2>4. i \in Nat /\ i + l <= Len(file) /\ \A k \in 1 .. l : file[i + k] = line[k]
    BY <2>3 DEF LineAt
  <2> DEFINE a == i + 1
             b == i + l
  <2>5. /\ a \in Nat /\ b \in Nat /\ 1 <= a /\ a <= b /\ b <= Len(file)
        /\ l = b - a + 1 /\ \A k \in 1 .. l : a + k - 1 = i + k
    BY <2>1, <2>4
  <2> HIDE DEF a, b
  <2>6. \A k \in 1 .. b - a + 1 : line[k] = file[a + k - 1]
    BY <2>4, <2>5
  <2>7. SubSeq(file, a, b) = line
    BY <2>1, <2>2, <2>5, <2>6, PartIs
  <2>8. i \in 0 .. Len(file) - l
    BY <2>1, <2>2, <2>4
  <2> QED
    BY <2>7, <2>8 DEF a, b, line
<1> QED
  BY <1>1, InductiveInvariant, PTL

-----------------------------------------------------------------------------
(* What the abstract log calls dropped.                                    *)
Dropped == {e \in Events : outcome[e] = "failed"}

(* A step of the logger is one of the abstract log: the write of the last  *)
(* byte enters the event, a failure drops it, and nothing else shows.      *)
LEMMA StepRefines ==
  ASSUME Inductive, [Next]_vars
  PROVE  [Atomic!Next]_(Atomic!vars)
<1>1. /\ Atomic!vars = <<Entered, Dropped>>
      /\ Atomic!Entered = {Entered[k] : k \in DOMAIN Entered}
  BY DEF Atomic!vars, Atomic!Entered, Dropped
<1>2. ASSUME UNCHANGED <<Entered, Dropped>> PROVE UNCHANGED Atomic!vars
  BY <1>2 DEF Atomic!vars, Dropped
<1>3. ASSUME UNCHANGED <<file, outcome>> PROVE UNCHANGED Atomic!vars
  BY <1>2, <1>3, SameFile DEF Dropped
<1>4. ASSUME call # "none", \A k \in DOMAIN Entered : Entered[k] # event
      PROVE  event \in Events /\ event \notin Atomic!Entered \cup Dropped
  BY <1>1, <1>4 DEF Inductive, Pending, Dropped
<1>5. \A k \in DOMAIN Entered : Entered[k] = event => unsent = <<>> /\ call # "open"
  BY DEF Inductive, EnteredIsWritten
<1>6. CASE Write
  <2>1. PICK n : Written(n)
    BY <1>6, WriteFacts DEF Inductive
  <2>2. call = "write" /\ unsent # <<>> /\ UNCHANGED outcome
    BY <1>6 DEF Write
  <2>3. /\ Len(unsent') # 0 => Entered' = Entered
        /\ Len(unsent') = 0 => Entered' = Append(Entered, event)
    BY <2>1, <2>2, WriteEnters
  <2>4. CASE Len(unsent') # 0
    BY <1>2, <2>2, <2>3, <2>4 DEF Dropped
  <2>5. CASE Len(unsent') = 0
    <3>1. event \in Events /\ event \notin Atomic!Entered \cup Dropped
      BY <1>4, <1>5, <2>2
    <3>2. Atomic!Enter(event)
      BY <2>2, <2>3, <2>5, <3>1 DEF Atomic!Enter, Dropped
    <3> QED
      BY <3>1, <3>2 DEF Atomic!Next
  <2> QED
    BY <2>4, <2>5
<1>7. ASSUME Ends("failed"), call # "none", call = "open" \/ unsent # <<>>
      PROVE  Atomic!Next
  <2>1. event \in Events /\ event \notin Atomic!Entered \cup Dropped
    BY <1>4, <1>5, <1>7
  <2>2. outcome' = [outcome EXCEPT ![event] = "failed"] /\ outcome \in [Events -> Outcomes]
    BY <1>7 DEF Ends, Inductive, TypeOK
  <2>3. Dropped' = Dropped \cup {event}
    BY <2>1, <2>2 DEF Dropped
  <2>4. Entered' = Entered
    BY <1>7, SameFile DEF Ends
  <2>5. \E e \in Events : e \notin Atomic!Entered \cup Dropped
                           /\ Dropped' = Dropped \cup {e} /\ UNCHANGED Entered
    BY <2>1, <2>3, <2>4
  <2>6. \E e \in Events : Atomic!Drop(e)
    BY <2>5 DEF Atomic!Drop, Dropped
  <2> QED
    BY <2>6 DEF Atomic!Next
<1>8. ASSUME NEW how \in {"appended", "crashed"}, Ends(how), call # "none"
      PROVE  UNCHANGED Atomic!vars
  <2>1. event \in Events /\ outcome[event] = "none"
    BY <1>8 DEF Inductive, Pending
  <2>2. outcome' = [outcome EXCEPT ![event] = how] /\ outcome \in [Events -> Outcomes]
    BY <1>8 DEF Ends, Inductive, TypeOK
  <2>3. \A e \in Events : outcome'[e] = "failed" <=> outcome[e] = "failed"
    BY <2>1, <2>2
  <2>4. Dropped' = Dropped
    BY <2>3 DEF Dropped
  <2> QED
    BY <1>2, <1>8, <2>4, SameFile DEF Ends
<1>9. CASE Call \/ Open
  BY <1>3, <1>9 DEF Call, Open
<1>10. CASE OpenFails \/ DumpThrows \/ WriteFails
  BY <1>7, <1>10 DEF OpenFails, DumpThrows, WriteFails
<1>11. CASE Close \/ Crash
  BY <1>3, <1>8, <1>11 DEF Close, Crash
<1>12. CASE UNCHANGED vars
  BY <1>3, <1>12 DEF vars
<1> QED
  BY <1>6, <1>9, <1>10, <1>11, <1>12 DEF Next

(* appendJsonLogLine() implements the atomic append TlsServer.tla assumes: *)
(* events enter the log at its end, whole and once, or not at all.         *)
THEOREM LoggerImplementsEventLog == Spec => ImplementsEventLog
<1>1. Init => Atomic!Init
  <2> SUFFICES ASSUME Init PROVE Atomic!Init
    OBVIOUS
  <2>1. file = <<>> /\ DOMAIN file = {} /\ Dropped = {}
    BY DEF Init, Dropped
  <2>2. Breaks = {}
    BY <2>1 DEF Breaks
  <2>3. DOMAIN Lines = {}
    BY <2>2, FS_EmptySet DEF Lines, ReadAt
  <2>4. Entered = <<>>
    BY <2>3 DEF Entered
  <2> QED
    BY <2>1, <2>4 DEF Atomic!Init, Dropped
<1>2. Inductive /\ [Next]_vars => [Atomic!Next]_(Atomic!vars)
  BY StepRefines
<1> QED
  BY <1>1, <1>2, InductiveInvariant, PTL DEF Spec, ImplementsEventLog, Atomic!Spec

-----------------------------------------------------------------------------
(* The lines of the file and the order of its bytes.                       *)

(* The line breaks of the file, numbered from its beginning.               *)
LEMMA BreakFacts ==
  ASSUME Inductive
  PROVE  /\ Breaks \in SUBSET (1 .. Len(file)) /\ Len(file) \in Nat /\ Cardinality(Breaks) \in Nat
         /\ \A i \in Breaks : file[i].text = "nl"
         /\ \A n \in 1 .. Cardinality(Breaks) : Nth(Breaks, n) \in Breaks
         /\ \A i \in Breaks : \E n \in 1 .. Cardinality(Breaks) : Nth(Breaks, n) = i
         /\ \A a, b \in 1 .. Cardinality(Breaks) : a < b => Nth(Breaks, a) < Nth(Breaks, b)
         /\ DOMAIN Entered = 1 .. Cardinality(Breaks)
         /\ \A n \in 1 .. Cardinality(Breaks) : Entered[n] = file[Nth(Breaks, n)].of
<1>1. /\ Breaks \in SUBSET (1 .. Len(file)) /\ Len(file) \in Nat
      /\ \A i \in Breaks : file[i].text = "nl"
  <2>1. Len(file) \in Nat /\ DOMAIN file = 1 .. Len(file)
    BY FileFacts DEF Inductive
  <2> QED
    BY <2>1 DEF Breaks
<1>2. Cardinality(Breaks) \in Nat
  <2>1. IsFiniteSet(1 .. Len(file))
    BY <1>1, FS_Interval
  <2>2. IsFiniteSet(Breaks)
    BY <1>1, <2>1, FS_Subset
  <2> QED
    BY <2>2, FS_CardinalityType
<1>3. /\ DOMAIN Entered = 1 .. Cardinality(Breaks)
      /\ \A n \in 1 .. Cardinality(Breaks) : Entered[n] = file[Nth(Breaks, n)].of
  BY DEF Entered, Lines, ReadAt
<1>4. /\ \A n \in 1 .. Cardinality(Breaks) : Nth(Breaks, n) \in Breaks
      /\ \A i \in Breaks : \E n \in 1 .. Cardinality(Breaks) : Nth(Breaks, n) = i
      /\ \A a, b \in 1 .. Cardinality(Breaks) : a < b => Nth(Breaks, a) < Nth(Breaks, b)
  BY <1>1, Enumeration
<1> QED
  BY <1>1, <1>2, <1>3, <1>4

(* The byte the n-th line begins with.                                     *)
Start(n) == IF n = 1 THEN 1 ELSE Nth(Breaks, n - 1) + 1

(* The n-th line is what lies between two line breaks that follow each     *)
(* other.                                                                  *)
LEMMA NthLineFacts ==
  ASSUME Inductive, NEW n \in 1 .. Cardinality(Breaks)
  PROVE  /\ Start(n) \in Nat /\ Nth(Breaks, n) \in Nat
         /\ 1 <= Start(n) /\ Start(n) <= Nth(Breaks, n) /\ Nth(Breaks, n) <= Len(file)
         /\ NthLine(n) = SubSeq(file, Start(n), Nth(Breaks, n))
         /\ \A i \in Breaks : i < Start(n) \/ i >= Nth(Breaks, n)
         /\ n = 1 \/ Start(n) - 1 \in Breaks
<1> DEFINE c == Cardinality(Breaks)
           end == Nth(Breaks, n)
           start == Start(n)
<1>1. /\ Breaks \in SUBSET (1 .. Len(file)) /\ Len(file) \in Nat /\ c \in Nat
      /\ \A k \in 1 .. c : Nth(Breaks, k) \in Breaks
      /\ \A i \in Breaks : \E k \in 1 .. c : Nth(Breaks, k) = i
      /\ \A a, b \in 1 .. c : a < b => Nth(Breaks, a) < Nth(Breaks, b)
  BY BreakFacts
<1>2. n \in 1 .. c
  OBVIOUS
<1>3. NthLine(n) = SubSeq(file, start, end)
  BY DEF NthLine, Start
<1>4. n # 1 => n - 1 \in 1 .. c /\ n - 1 < n /\ start = Nth(Breaks, n - 1) + 1
  BY <1>1 DEF Start
<1>5. n = 1 => start = 1
  BY DEF Start
<1>6. \A i \in Breaks : i \in Nat /\ 1 <= i /\ i <= Len(file)
  BY <1>1
<1> HIDE DEF c, start
<1>7. end \in Breaks /\ end \in Nat /\ end <= Len(file) /\ 1 <= end
  BY <1>1, <1>2, <1>6
<1>8. /\ start \in Nat /\ 1 <= start /\ start <= end
      /\ n # 1 => start - 1 \in Breaks
  <2>1. CASE n = 1
    BY <1>5, <1>7, <2>1
  <2>2. CASE n # 1
    <3>1. Nth(Breaks, n - 1) \in Breaks /\ Nth(Breaks, n - 1) < end
      BY <1>1, <1>2, <1>4, <2>2
    <3> HIDE DEF end
    <3>2. Nth(Breaks, n - 1) \in Nat
      BY <1>6, <3>1
    <3> QED
      BY <1>4, <1>7, <2>2, <3>1, <3>2
  <2> QED
    BY <2>1, <2>2
<1>9. ASSUME NEW i \in Breaks PROVE i < start \/ i >= end
  <2>1. PICK k \in 1 .. c : Nth(Breaks, k) = i
    BY <1>1
  <2>2. CASE k < n
    <3>1. n # 1 /\ (k = n - 1 \/ k < n - 1)
      BY <1>1, <1>2, <2>2
    <3>2. i = Nth(Breaks, n - 1) \/ i < Nth(Breaks, n - 1)
      BY <1>1, <1>4, <2>1, <3>1
    <3>3. Nth(Breaks, n - 1) \in Nat /\ i \in Nat
      BY <1>1, <1>4, <1>6, <3>1
    <3> QED
      BY <1>4, <3>1, <3>2, <3>3
  <2>3. CASE k = n
    BY <1>7, <2>1, <2>3
  <2>4. CASE k > n
    <3>1. end < i
      BY <1>1, <1>2, <2>1, <2>4
    <3> QED
      BY <1>6, <1>7, <3>1
  <2>5. k < n \/ k = n \/ k > n
    BY <1>1, <1>2
  <2> QED
    BY <2>2, <2>3, <2>4, <2>5
<1> QED
  BY <1>3, <1>7, <1>8, <1>9 DEF start

(* A line of the file that is the line of an event is the one its line     *)
(* break has entered; the event has not failed.                            *)
LEMMA LineOfEvent ==
  ASSUME Inductive, NEW n \in 1 .. Cardinality(Breaks), NEW e \in EventsOf(n)
  PROVE  e \in Events /\ Entered[n] = e /\ outcome[e] # "failed"
<1> DEFINE line == Line(e)
           start == Start(n)
           end == Nth(Breaks, n)
<1>1. e \in Events /\ NthLine(n) = line
  BY DEF EventsOf
<1>2. /\ Len(line) \in Nat /\ Len(line) >= 1 /\ \A k \in 1 .. Len(line) : line[k].of = e
  BY <1>1, LineFacts
<1>3. /\ start \in Nat /\ end \in Nat /\ 1 <= start /\ start <= end /\ end <= Len(file)
      /\ NthLine(n) = SubSeq(file, start, end)
  BY NthLineFacts
<1>4. file \in Seq(Bytes)
  BY FileFacts DEF Inductive
<1> HIDE DEF line, start, end
<1>5. Len(line) = end - start + 1 /\ \A k \in 1 .. end - start + 1 : line[k] = file[start + k - 1]
  BY <1>1, <1>3, <1>4, PartOf
<1>6. end - start + 1 \in 1 .. end - start + 1 /\ start + (end - start + 1) - 1 = end
  BY <1>3
<1>7. file[end].of = e
  BY <1>2, <1>5, <1>6
<1>8. n \in DOMAIN Entered /\ Entered[n] = file[end].of
  BY BreakFacts DEF end
<1>9. outcome[Entered[n]] # "failed"
  BY <1>8 DEF Inductive, EnteredIsWritten
<1> QED
  BY <1>1, <1>7, <1>8, <1>9

(* The events of the file come in their order, and behind a line break     *)
(* begins another event.  The event being logged has none yet, unless its  *)
(* line is complete.                                                       *)
Ordered ==
  /\ \A i \in DOMAIN file :
       /\ file[i].of <= event
       /\ call = "open" => file[i].of < event
       /\ call = "write" /\ file[i].of = event /\ file[i].text = "nl" => unsent = <<>>
  /\ \A i, j \in DOMAIN file :
       i < j => file[i].of <= file[j].of /\ (file[i].text = "nl" => file[i].of < file[j].of)

(* What is before the line of an event is of an earlier one.               *)
Fresh(i, e) == i > 0 => file[i].of < e
Whole ==
  /\ \A e \in Events : outcome[e] = "appended" => \E i : LineAt(i, Line(e)) /\ Fresh(i, e)
  /\ call = "write" => Fresh(Len(file) - (Len(Line(event)) - Len(unsent)), event)

(* Both hold of the empty file.                                            *)
LEMMA InitWhole == Init => Ordered /\ Whole
<1> SUFFICES ASSUME Init PROVE Ordered /\ Whole
  OBVIOUS
<1>1. file = <<>> /\ DOMAIN file = {} /\ call = "none" /\ \A e \in Events : outcome[e] # "appended"
  BY DEF Init
<1>2. Ordered
  BY <1>1 DEF Ordered
<1>3. Whole
  BY <1>1 DEF Whole
<1> QED
  BY <1>2, <1>3

(* A step that leaves the file alone keeps the events in order.            *)
LEMMA OtherOrdered ==
  ASSUME Inductive, Ordered, (Next /\ ~Write) \/ UNCHANGED vars
  PROVE  Ordered'
<1>1. \A i \in DOMAIN file : file[i].of \in Nat /\ file[i].of <= event
  <2>1. \A i \in DOMAIN file : file[i].of \in Events
    BY FileFacts DEF Inductive
  <2> QED
    BY <2>1 DEF Events, Ordered
<1>2. /\ \A i \in DOMAIN file : call = "open" => file[i].of < event
      /\ \A i, j \in DOMAIN file :
           i < j => file[i].of <= file[j].of /\ (file[i].text = "nl" => file[i].of < file[j].of)
      /\ event \in Nat
  BY DEF Ordered, Inductive, TypeOK
<1>3. CASE Call
  <2>1. file' = file /\ event' = event + 1 /\ call' = "open"
    BY <1>3 DEF Call
  <2>2. \A i \in DOMAIN file : file[i].of < event + 1 /\ file[i].of <= event + 1
    BY <1>1, <1>2
  <2> QED
    BY <1>2, <2>1, <2>2 DEF Ordered
<1>4. CASE Open
  <2>1. file' = file /\ event' = event /\ call = "open" /\ call' = "write"
    BY <1>4 DEF Open
  <2>2. \A i \in DOMAIN file : file[i].of # event
    BY <1>1, <1>2, <2>1
  <2> QED
    BY <1>1, <1>2, <2>1, <2>2 DEF Ordered
<1>5. CASE OpenFails \/ DumpThrows \/ WriteFails \/ Close \/ Crash
  <2>1. file' = file /\ event' = event /\ call' = "none"
    BY <1>5 DEF OpenFails, DumpThrows, WriteFails, Close, Crash, Ends
  <2> QED
    BY <1>1, <1>2, <2>1 DEF Ordered
<1>6. CASE UNCHANGED vars
  BY <1>6 DEF Ordered, vars
<1> QED
  BY <1>3, <1>4, <1>5, <1>6 DEF Next

(* So does a write: its bytes are of the last event, and come last.        *)
LEMMA WriteOrdered == ASSUME Inductive, Ordered, Write PROVE Ordered'
<1>1. call = "write" /\ unsent # <<>> /\ UNCHANGED <<event, call>>
  BY DEF Write
<1>2. PICK n : Written(n)
  BY WriteFacts DEF Inductive
<1>3. /\ Len(file) \in Nat /\ n \in Nat /\ n >= 1
      /\ DOMAIN file = 1 .. Len(file) /\ DOMAIN file' = 1 .. Len(file) + n
      /\ \A i \in DOMAIN file' : i \in 1 .. Len(file) \/ \E k \in 1 .. n : i = Len(file) + k
      /\ \A k \in 1 .. n :
           /\ file'[Len(file) + k].of = event
           /\ file'[Len(file) + k].text = "nl" <=> k = n /\ Len(unsent') = 0
  BY <1>1, <1>2, WrittenBytes
<1>4. \A i \in 1 .. Len(file) : file'[i] = file[i]
  BY <1>2 DEF Written
<1>5. unsent' \in Seq(Bytes) /\ (Len(unsent') = 0 => unsent' = <<>>)
  BY <1>2 DEF Written
<1>6. event \in Nat /\ \A i \in 1 .. Len(file) : file[i].of \in Nat
  <2>1. \A i \in 1 .. Len(file) : file[i].of \in Events
    BY FileFacts DEF Inductive
  <2> QED
    BY <2>1 DEF Events, Inductive, TypeOK
<1>7. /\ \A i \in 1 .. Len(file) :
           file[i].of <= event /\ (file[i].text = "nl" => file[i].of < event)
      /\ \A i, j \in 1 .. Len(file) :
           i < j => file[i].of <= file[j].of /\ (file[i].text = "nl" => file[i].of < file[j].of)
  <2>1. /\ \A i \in 1 .. Len(file) : file[i].of <= event
        /\ \A i, j \in 1 .. Len(file) :
             i < j => file[i].of <= file[j].of /\ (file[i].text = "nl" => file[i].of < file[j].of)
    BY <1>3 DEF Ordered
  <2>2. \A i \in 1 .. Len(file) : file[i].text = "nl" => file[i].of # event
    BY <1>1, <1>3, Zenon DEF Ordered
  <2>3. ASSUME NEW i \in 1 .. Len(file), file[i].text = "nl" PROVE file[i].of < event
    BY <1>6, <2>1, <2>2, <2>3
  <2> QED
    BY <2>1, <2>3
<1>8. ASSUME NEW i \in DOMAIN file'
      PROVE  /\ file'[i].of <= event
             /\ file'[i].of = event /\ file'[i].text = "nl" => unsent' = <<>>
  <2>1. CASE i \in 1 .. Len(file)
    BY <1>4, <1>6, <1>7, <2>1
  <2>2. ASSUME NEW k \in 1 .. n, i = Len(file) + k
        PROVE  /\ file'[i].of <= event
               /\ file'[i].of = event /\ file'[i].text = "nl" => unsent' = <<>>
    <3>1. file'[i].of = event
      BY <1>3, <2>2
    <3>2. file'[i].text = "nl" => Len(unsent') = 0
      BY <1>3, <2>2
    <3> QED
      BY <1>5, <1>6, <3>1, <3>2
  <2> QED
    BY <1>3, <2>1, <2>2
<1>9. ASSUME NEW i \in DOMAIN file', NEW j \in DOMAIN file', i < j
      PROVE  file'[i].of <= file'[j].of /\ (file'[i].text = "nl" => file'[i].of < file'[j].of)
  <2>1. CASE j \in 1 .. Len(file)
    <3>1. i \in 1 .. Len(file)
      BY <1>3, <1>9, <2>1
    <3> QED
      BY <1>4, <1>7, <1>9, <2>1, <3>1
  <2>2. ASSUME NEW k \in 1 .. n, j = Len(file) + k
        PROVE  file'[i].of <= file'[j].of /\ (file'[i].text = "nl" => file'[i].of < file'[j].of)
    <3>1. file'[j].of = event
      BY <1>3, <2>2
    <3>2. CASE i \in 1 .. Len(file)
      BY <1>4, <1>7, <3>1, <3>2
    <3>3. ASSUME NEW h \in 1 .. n, i = Len(file) + h
          PROVE  file'[i].of = event /\ file'[i].text # "nl"
      <4>1. h # n
        BY <1>3, <1>9, <2>2, <3>3
      <4> QED
        BY <1>3, <3>3, <4>1
    <3> QED
      BY <1>3, <1>6, <3>1, <3>2, <3>3
  <2> QED
    BY <1>3, <2>1, <2>2
<1> QED
  BY <1>1, <1>8, <1>9 DEF Ordered

(* The line that is being written begins where it began, and the lines     *)
(* before it stay where they are.                                          *)
LEMMA WriteWhole == ASSUME Inductive, Whole, Write PROVE Whole'
<1>1. call = "write" /\ UNCHANGED <<event, call, outcome>>
  BY DEF Write
<1>2. PICK n : Written(n)
  BY WriteFacts DEF Inductive
<1>3. /\ n \in Nat /\ Len(unsent) \in Nat /\ n <= Len(unsent) /\ Len(unsent') = Len(unsent) - n
      /\ Len(file) \in Nat /\ Len(file') = Len(file) + n
      /\ \A i \in 1 .. Len(file) : file'[i] = file[i]
  BY <1>2, FileFacts DEF Written, Inductive
<1>4. \A e : Line(e)' = Line(e)
  BY DEF Line, Compact, Payload
<1>5. ASSUME NEW e \in Events, outcome[e] = "appended"
      PROVE  \E i : LineAt(i, Line(e))' /\ Fresh(i, e)'
  <2>1. PICK i : LineAt(i, Line(e)) /\ Fresh(i, e)
    BY <1>5 DEF Whole
  <2>2. Len(Line(e)) \in Nat
    BY LineFacts
  <2> DEFINE line == Line(e)
  <2>3. line' = line
    BY <1>4
  <2> HIDE DEF line
  <2>4. i \in Nat /\ i + Len(line) <= Len(file) /\ \A k \in 1 .. Len(line) : file[i + k] = line[k]
    BY <2>1 DEF LineAt, line
  <2>5. \A k \in 1 .. Len(line) : i + k \in 1 .. Len(file)
    BY <1>3, <2>2, <2>4 DEF line
  <2>6. i + Len(line) <= Len(file')
    BY <1>3, <2>2, <2>4 DEF line
  <2>7. LineAt(i, line)'
    BY <1>3, <2>3, <2>4, <2>5, <2>6 DEF LineAt
  <2>8. i > 0 => i \in 1 .. Len(file)
    BY <1>3, <2>2, <2>4 DEF line
  <2>9. Fresh(i, e)'
    BY <1>3, <2>1, <2>8 DEF Fresh
  <2> QED
    BY <2>7, <2>9 DEF line
<1>6. Fresh(Len(file) - (Len(Line(event)) - Len(unsent)), event)'
  <2> DEFINE line == Line(event)
             done == Len(line) - Len(unsent)
  <2>1. Rest(line) /\ Len(line) \in Nat
    BY <1>1, LineFacts DEF Inductive, Pending, UnsentIsTheRest
  <2>2. Fresh(Len(file) - done, event)
    BY <1>1 DEF Whole
  <2>3. Line(event)' = line
    BY <1>1 DEF Line, Compact, Payload
  <2> HIDE DEF line
  <2>4. /\ Len(file') - (Len(line) - Len(unsent')) = Len(file) - done
        /\ Len(file) - done > 0 => Len(file) - done \in 1 .. Len(file)
    BY <1>3, <2>1 DEF Rest
  <2> HIDE DEF done
  <2> DEFINE last == Len(file') - (Len(line) - Len(unsent'))
  <2>5. last > 0 => file'[last].of < event'
    BY <1>1, <1>3, <2>2, <2>4 DEF Fresh
  <2> QED
    BY <2>3, <2>5 DEF Fresh
<1> QED
  BY <1>1, <1>5, <1>6 DEF Whole

(* A line begins at the end of the file, and is whole when the call that   *)
(* wrote it returns.                                                       *)
LEMMA OtherWhole ==
  ASSUME Inductive, Ordered, Whole, (Next /\ ~Write) \/ UNCHANGED vars
  PROVE  Whole'
<1>1. \A e : Line(e)' = Line(e)
  BY DEF Line, Compact, Payload
<1>2. ASSUME UNCHANGED file, NEW e, NEW i, LineAt(i, Line(e)) /\ Fresh(i, e)
      PROVE  LineAt(i, Line(e))' /\ Fresh(i, e)'
  BY <1>1, <1>2 DEF LineAt, Fresh
<1>3. CASE Call
  <2>1. UNCHANGED file /\ UNCHANGED outcome /\ call' = "open"
    BY <1>3 DEF Call
  <2> QED
    BY <1>2, <2>1 DEF Whole
<1>4. CASE Open
  <2>1. /\ UNCHANGED file /\ UNCHANGED outcome /\ UNCHANGED event
        /\ call = "open" /\ call' = "write" /\ unsent' = Line(event)
    BY <1>4 DEF Open
  <2>2. \A e \in Events : outcome'[e] = "appended" => \E i : LineAt(i, Line(e))' /\ Fresh(i, e)'
    BY <1>2, <2>1 DEF Whole
  <2> DEFINE line == Line(event)
             last == Len(file') - (Len(line) - Len(unsent'))
  <2>3. Line(event)' = line /\ unsent' = line /\ event \in Events
    BY <2>1 DEF Line, Compact, Payload, Inductive, Pending
  <2>4. Len(line) \in Nat /\ Len(file) \in Nat /\ DOMAIN file = 1 .. Len(file)
    BY <2>3, LineFacts, FileFacts DEF Inductive
  <2> HIDE DEF line
  <2>5. last = Len(file)
    BY <2>1, <2>3, <2>4
  <2>6. last > 0 => file'[last].of < event'
    <3>1. Len(file) > 0 => file[Len(file)].of < event
      BY <2>1, <2>4 DEF Ordered
    <3> QED
      BY <2>1, <2>5, <3>1
  <2> QED
    BY <2>2, <2>3, <2>6 DEF Whole, Fresh
<1>5. ASSUME NEW how \in {"appended", "failed", "crashed"}, Ends(how),
             call # "none", how = "appended" => call = "write" /\ unsent = <<>>
      PROVE  Whole'
  <2>1. /\ UNCHANGED file /\ UNCHANGED event
        /\ call' = "none" /\ outcome' = [outcome EXCEPT ![event] = how]
    BY <1>5 DEF Ends
  <2>2. event \in Events /\ outcome \in [Events -> Outcomes]
    BY <1>5 DEF Inductive, Pending, TypeOK
  <2>3. ASSUME NEW e \in Events, outcome'[e] = "appended"
        PROVE  \E i : LineAt(i, Line(e)) /\ Fresh(i, e)
    <3>1. CASE e # event
      BY <2>1, <2>2, <2>3, <3>1 DEF Whole
    <3>2. CASE e = event
      <4> DEFINE line == Line(event)
      <4>1. how = "appended"
        BY <2>1, <2>2, <2>3, <3>2
      <4>2. call = "write" /\ unsent = <<>> /\ Len(unsent) = 0
        BY <1>5, <4>1
      <4>3. Rest(line) /\ Fresh(Len(file) - (Len(line) - Len(unsent)), event)
        BY <4>2 DEF Inductive, UnsentIsTheRest, Whole
      <4>4. Len(line) \in Nat /\ Len(file) \in Nat
        BY <2>2, LineFacts, FileFacts DEF Inductive
      <4> HIDE DEF line
      <4>5. Len(line) - Len(unsent) = Len(line)
        BY <4>2, <4>4
      <4>6. LineAt(Len(file) - Len(line), line) /\ Fresh(Len(file) - Len(line), event)
        <5>1. /\ Len(line) <= Len(file)
              /\ \A k \in 1 .. Len(line) : file[Len(file) - Len(line) + k] = line[k]
          BY <4>3, <4>5 DEF Rest
        <5>2. LineAt(Len(file) - Len(line), line)
          BY <4>4, <5>1 DEF LineAt
        <5> QED
          BY <4>3, <4>5, <5>2
      <4> QED
        BY <3>2, <4>6 DEF line
    <3> QED
      BY <3>1, <3>2
  <2> QED
    BY <1>2, <2>1, <2>3 DEF Whole
<1>7. CASE UNCHANGED <<file, event, call, unsent, outcome>>
  <2>2. \A e \in Events : outcome'[e] = "appended" => \E i : LineAt(i, Line(e))' /\ Fresh(i, e)'
    BY <1>2, <1>7 DEF Whole
  <2>3. Line(event)' = Line(event)
    BY <1>7 DEF Line, Compact, Payload
  <2> QED
    BY <1>7, <2>2, <2>3 DEF Whole, Fresh
<1>6. CASE OpenFails \/ DumpThrows \/ WriteFails \/ Close \/ Crash
  <2>1. OpenFails \/ DumpThrows => Whole'
    BY <1>5 DEF OpenFails, DumpThrows
  <2>2. WriteFails => Whole'
    BY <1>5 DEF WriteFails
  <2>3. Close => Whole'
    BY <1>5 DEF Close
  <2>4. Crash => Whole'
    BY <1>5, <1>7 DEF Crash
  <2> QED
    BY <1>6, <2>1, <2>2, <2>3, <2>4
<1> QED
  BY <1>3, <1>4, <1>6, <1>7 DEF Next, vars

(* A step of the logger leaves the lines that are in the file as they are. *)
LEMMA LinesStay ==
  ASSUME Inductive, [Next]_vars
  PROVE  /\ Cardinality(Breaks) \in Nat /\ Cardinality(Breaks') \in Nat
         /\ Cardinality(Breaks) <= Cardinality(Breaks')
         /\ \A n \in 1 .. Cardinality(Breaks) : EventsOf(n)' = EventsOf(n)
<1>1. Cardinality(Breaks) \in Nat
  BY BreakFacts
<1>2. \A e : Line(e)' = Line(e)
  BY DEF Line, Compact, Payload
<1>3. CASE ~Write
  <2>1. UNCHANGED file
    BY <1>3 DEF Next, Call, Open, OpenFails, DumpThrows, WriteFails, Close, Crash, Ends, vars
  <2>2. Breaks' = Breaks
    BY <2>1, SameFile
  <2>3. \A n : EventsOf(n)' = EventsOf(n)
    BY <1>2, <2>1, <2>2 DEF EventsOf, NthLine, Nth
  <2> QED
    BY <1>1, <2>2, <2>3
<1>4. CASE Write
  <2>1. call = "write"
    BY <1>4 DEF Write
  <2>2. PICK n : Written(n)
    BY <1>4, WriteFacts DEF Inductive
  <2>3. /\ Cardinality(Breaks) \in Nat /\ Cardinality(Breaks') \in Nat
        /\ Cardinality(Breaks) <= Cardinality(Breaks')
        /\ \A k \in 1 .. Cardinality(Breaks) : Nth(Breaks', k) = Nth(Breaks, k)
    BY <2>1, <2>2, WriteBreaks
  <2>4. /\ file \in Seq(Bytes) /\ Len(file) \in Nat /\ file' \in Seq(Bytes)
        /\ Len(file') >= Len(file) /\ Len(file') \in Nat
        /\ \A i \in 1 .. Len(file) : file'[i] = file[i]
    BY <2>2, FileFacts DEF Written, Inductive
  <2>5. ASSUME NEW k \in 1 .. Cardinality(Breaks) PROVE EventsOf(k)' = EventsOf(k)
    <3> DEFINE start == Start(k)
               end == Nth(Breaks, k)
               line == SubSeq(file, start, end)
    <3>1. /\ start \in Nat /\ end \in Nat /\ 1 <= start /\ start <= end /\ end <= Len(file)
          /\ NthLine(k) = SubSeq(file, start, end)
      BY NthLineFacts
    <3>2. NthLine(k)' = SubSeq(file', start, end)
      <4>1. k # 1 => k - 1 \in 1 .. Cardinality(Breaks)
        BY <2>3
      <4>2. Nth(Breaks', k) = Nth(Breaks, k) /\ (k # 1 => Nth(Breaks', k - 1) = Nth(Breaks, k - 1))
        BY <2>3, <4>1
      <4>3. NthLine(k)' =
              SubSeq(file', IF k = 1 THEN 1 ELSE Nth(Breaks', k - 1) + 1, Nth(Breaks', k))
        BY DEF NthLine, Nth
      <4> QED
        BY <4>2, <4>3 DEF Start
    <3> HIDE DEF start, end
    <3>3. /\ line \in Seq(Bytes) /\ Len(line) = end - start + 1
          /\ \A i \in 1 .. end - start + 1 : line[i] = file[start + i - 1]
      BY <2>4, <3>1, PartOf
    <3>4. \A i \in 1 .. end - start + 1 : line[i] = file'[start + i - 1]
      <4>1. \A i \in 1 .. end - start + 1 : start + i - 1 \in 1 .. Len(file)
        BY <2>4, <3>1
      <4> QED
        BY <2>4, <3>3, <4>1
    <3> HIDE DEF line
    <3>5. end <= Len(file')
      BY <2>4, <3>1
    <3>6. SubSeq(file', start, end) = line
      BY <2>4, <3>1, <3>3, <3>4, <3>5, PartIs
    <3>7. NthLine(k)' = NthLine(k)
      BY <3>1, <3>2, <3>6 DEF line
    <3> QED
      BY <1>2, <3>7 DEF EventsOf
  <2> QED
    BY <2>3, <2>5
<1> QED
  BY <1>3, <1>4

(* There is no more than one line for each event.                          *)
LEMMA LinesBounded ==
  ASSUME Inductive, Ordered
  PROVE  Cardinality(Breaks) <= MaxEvents
<1>1. /\ \A i \in Breaks : i \in DOMAIN file /\ i \in Nat /\ file[i].text = "nl"
      /\ \A i \in DOMAIN file : file[i].of \in Events
  BY BreakFacts, FileFacts DEF Inductive, Breaks
<1> DEFINE f == [i \in Breaks |-> file[i].of]
<1>2. \A i, j \in Breaks : file[i].of = file[j].of => i = j
  <2> SUFFICES ASSUME NEW i \in Breaks, NEW j \in Breaks, i < j
               PROVE  file[i].of # file[j].of
    BY <1>1
  <2>1. file[i].of < file[j].of
    BY <1>1 DEF Ordered
  <2> QED
    BY <1>1, <2>1 DEF Events
<1>3. f \in Injection(Breaks, Events)
  BY <1>1, <1>2 DEF Injection, IsInjective
<1>4. IsFiniteSet(Events) /\ Cardinality(Events) = MaxEvents
  BY FS_Interval DEF Events
<1> HIDE DEF f
<1> QED
  BY <1>3, <1>4, FS_Injection

-----------------------------------------------------------------------------
(* The collector of the pipeline.  What LogCollectorProofs.tla proves for  *)
(* every list of groups is cited for the one group of the file.            *)
CP == INSTANCE LogCollectorProofs WITH LOG_GROUPS <- <<LogGroup>>, MaxStored <- MaxEvents

(* The one group of the pipeline satisfies what LogCollector.tla assumes   *)
(* of its constants.                                                       *)
LEMMA OneGroup ==
  /\ CP!Groups = {LogGroup} /\ Len(<<LogGroup>>) = 1
  /\ <<LogGroup>> \in Seq(CP!Groups)
  /\ \A i, j \in DOMAIN <<LogGroup>> : <<LogGroup>>[i] = <<LogGroup>>[j] => i = j
  /\ LimitPerGroup \in Nat \ {0} /\ PageLimit \in Nat \ {0}
  /\ MaxEvents \in Nat /\ MaxEmpty \in Nat
<1>1. CP!Groups = {LogGroup}
  BY DEF CP!Groups
<1>2. LogGroup \in {LogGroup}
  OBVIOUS
<1> DEFINE one == <<LogGroup>>
<1>3. one \in Seq({LogGroup}) /\ Len(one) = 1 /\ DOMAIN one = 1 .. 1
  OBVIOUS
<1>4. \A i, j \in 1 .. 1 : i = j
  OBVIOUS
<1>5. \A i, j \in DOMAIN one : one[i] = one[j] => i = j
  BY <1>3, <1>4
<1> QED
  BY <1>1, <1>3, <1>5

(* The instances C, of the model, and CP, of its proofs, are the same.     *)
LEMMA CollectorInit == C!Init => CP!Inductive
<1>1. C!Init => CP!Init
  BY DEF C!Init, CP!Init, C!Groups, CP!Groups, C!Unknown, CP!Unknown
<1>2. CP!Init => CP!Inductive
  BY OneGroup, CP!InitInductive
<1> QED
  BY <1>1, <1>2

LEMMA CollectorNext == C!Next => CP!Next
<1>1. C!Groups = CP!Groups /\ C!Group = CP!Group /\ (C!Running <=> CP!Running)
  BY DEF C!Groups, CP!Groups, C!Group, CP!Group, C!Running, CP!Running
<1>2. C!NotFound => CP!NotFound
  BY <1>1, Zenon DEF C!NotFound, CP!NotFound, C!Conclude, CP!Conclude, C!Unknown, CP!Unknown,
                     C!cloudwatch, CP!cloudwatch, C!Running, CP!Running, C!Group, CP!Group
<1>3. ASSUME NEW count \in 0 .. MaxEvents, NEW more \in BOOLEAN, C!Page(count, more)
      PROVE  CP!Page(count, more)
  BY <1>1, <1>3, Zenon DEF C!Page, CP!Page, C!Running, CP!Running, C!Group, CP!Group,
                           C!Asked, CP!Asked, C!Least, CP!Least, C!Most, CP!Most,
                           C!Parsed, CP!Parsed, C!LastPage, CP!LastPage, C!Conclude, CP!Conclude,
                           C!Exists, CP!Exists, C!WithJson, CP!WithJson, C!Continue, CP!Continue,
                           C!Cardinality, CP!Cardinality
<1>4. C!Abort => CP!Abort
  BY DEF C!Abort, CP!Abort, C!Running, CP!Running, C!cloudwatch, CP!cloudwatch
<1>5. ASSUME NEW g \in C!Groups, C!Ship(g) \/ C!DeleteGroup(g) PROVE CP!Ship(g) \/ CP!DeleteGroup(g)
  BY <1>5 DEF C!Ship, CP!Ship, C!DeleteGroup, CP!DeleteGroup, C!Messages, CP!Messages
<1> QED
  BY <1>1, <1>2, <1>3, <1>4, <1>5 DEF C!Next, CP!Next, C!Collect, CP!Collect

(* So the pipeline inherits the invariant of the collector.                *)
LEMMA CollectorStep ==
  ASSUME CP!Inductive, C!Next \/ UNCHANGED collector
  PROVE  CP!Inductive'
<1>1. C!Next => CP!Next
  BY CollectorNext
<1>2. UNCHANGED collector => UNCHANGED CP!vars
  BY DEF collector, CP!vars, CP!cloudwatch
<1>3. [CP!Next]_(CP!vars)
  BY <1>1, <1>2
<1> QED
  BY <1>3, OneGroup, CP!StepInductive

(* What the collector's invariant says of the one group.                   *)
LEMMA CollectorFacts ==
  ASSUME CP!Inductive
  PROVE  /\ stored \in [{LogGroup} -> Seq({"json", "torn"})] /\ Len(stored[LogGroup]) \in Nat
         /\ DOMAIN stored[LogGroup] = 1 .. Len(stored[LogGroup])
         /\ turn \in 1 .. 2 /\ token \in Nat /\ waiting \in Nat /\ fetched[LogGroup] \in Nat
         /\ token > 0 => waiting <= Len(stored[LogGroup])
         /\ \A i \in DOMAIN events :
              events[i].at \in DOMAIN stored[LogGroup] /\ stored[LogGroup][events[i].at] = "json"
         /\ \A n \in DOMAIN stored[LogGroup] :
              stored[LogGroup][n] = "json" /\ n <= fetched[LogGroup]
                => \E i \in DOMAIN events : events[i].at = n
<1>1. CP!Groups = {LogGroup} /\ Len(<<LogGroup>>) = 1 /\ LimitPerGroup \in Nat
  BY OneGroup
<1>2. CP!TypeOK /\ CP!Place /\ CP!CollectedExactly
  BY DEF CP!Inductive
<1>3. /\ stored \in [{LogGroup} -> Seq({"json", "torn"})] /\ Len(stored[LogGroup]) \in Nat
      /\ DOMAIN stored[LogGroup] = 1 .. Len(stored[LogGroup])
  <2>1. stored \in [{LogGroup} -> Seq({"json", "torn"})]
    BY <1>1, <1>2 DEF CP!TypeOK, CP!Messages
  <2>2. stored[LogGroup] \in Seq({"json", "torn"})
    BY <2>1
  <2> QED
    BY <2>1, <2>2
<1>4. turn \in 1 .. 2 /\ token \in Nat /\ waiting \in Nat
  <2>1. turn \in 1 .. Len(<<LogGroup>>) + 1 /\ token \in Nat /\ waiting \in Nat
    BY <1>2 DEF CP!TypeOK
  <2> QED
    BY <1>1, <2>1
<1>5. fetched[LogGroup] \in Nat
  <2>1. fetched \in [{LogGroup} -> 0 .. LimitPerGroup]
    BY <1>1, <1>2 DEF CP!TypeOK
  <2> QED
    BY <1>1, <2>1
<1>6. token > 0 => waiting <= Len(stored[LogGroup])
  <2> SUFFICES ASSUME token > 0 PROVE waiting <= Len(stored[LogGroup])
    OBVIOUS
  <2>1. turn \in DOMAIN <<LogGroup>> /\ waiting <= Len(stored[CP!Group])
    BY <1>2 DEF CP!Place
  <2>2. CP!Group = LogGroup
    BY <2>1 DEF CP!Group
  <2> QED
    BY <2>1, <2>2
<1>7. ASSUME NEW i \in DOMAIN events
      PROVE  events[i].at \in DOMAIN stored[LogGroup] /\ stored[LogGroup][events[i].at] = "json"
  <2>1. events \in Seq([group : {LogGroup}, at : Nat])
    BY <1>1, <1>2 DEF CP!TypeOK
  <2>2. events[i] \in [group : {LogGroup}, at : Nat]
    <3> DEFINE R == [group : {LogGroup}, at : Nat]
    <3>1. events \in Seq(R)
      BY <2>1
    <3> HIDE DEF R
    <3>2. \A k \in DOMAIN events : events[k] \in R
      BY <3>1
    <3> QED
      BY <3>2 DEF R
  <2>3. events[i].group = LogGroup
    BY <2>2
  <2>4. events[i].at \in CP!Json(events[i].group)
    BY <1>2 DEF CP!CollectedExactly
  <2> QED
    BY <2>3, <2>4 DEF CP!Json
<1>8. ASSUME NEW n \in DOMAIN stored[LogGroup], stored[LogGroup][n] = "json", n <= fetched[LogGroup]
      PROVE  \E i \in DOMAIN events : events[i].at = n
  <2>1. n \in CP!Json(LogGroup) /\ LogGroup \in CP!Groups
    BY <1>1, <1>8 DEF CP!Json
  <2>2. \E i \in DOMAIN events : events[i] = [group |-> LogGroup, at |-> n]
    BY <1>2, <1>8, <2>1 DEF CP!CollectedExactly
  <2> QED
    BY <2>2
<1> QED
  BY <1>3, <1>4, <1>5, <1>6, <1>7, <1>8

(* No more was waiting than is stored; and once a group has been read and  *)
(* is not said to be truncated, all that was waiting has been fetched.     *)
Settled ==
  /\ waiting <= Len(stored[LogGroup])
  /\ turn = 2 /\ summary[LogGroup].exists /\ ~summary[LogGroup].truncated
       => fetched[LogGroup] >= waiting

(* A step of the collector reads, and settles the group when it ends it.   *)
LEMMA CollectorReads ==
  ASSUME CP!Inductive, Settled, C!Collect \/ C!Abort \/ C!DeleteGroup(LogGroup)
  PROVE  stored' = stored /\ Settled'
<1>1. /\ turn \in 1 .. 2 /\ token \in Nat /\ waiting \in Nat /\ Len(stored[LogGroup]) \in Nat
      /\ token > 0 => waiting <= Len(stored[LogGroup])
  BY CollectorFacts
<1>2. CASE C!Abort \/ C!DeleteGroup(LogGroup)
  <2>1. UNCHANGED <<stored, turn, waiting, fetched, summary>>
    BY <1>2 DEF C!Abort, C!DeleteGroup, C!cloudwatch
  <2> QED
    BY <2>1 DEF Settled
<1>3. CASE C!Collect
  <2>1. CP!Next /\ turn = 1 /\ CP!Group = LogGroup
    <3>1. CP!Next
      <4>1. C!Next
        BY <1>3 DEF C!Next
      <4> QED
        BY <4>1, CollectorNext
    <3>2. turn <= Len(<<LogGroup>>)
      BY <1>3 DEF C!Collect, C!NotFound, C!Page, C!Running
    <3>3. turn = 1
      BY <1>1, <3>2, OneGroup
    <3> QED
      BY <3>1, <3>3 DEF CP!Group
  <2>2. stored' = stored /\ (waiting' = waiting \/ waiting' = Len(stored[LogGroup]))
    <3>1. C!NotFound => stored' = stored /\ waiting' = waiting
      BY DEF C!NotFound, C!cloudwatch
    <3>2. ASSUME NEW count, NEW more, C!Page(count, more)
          PROVE  stored' = stored /\ (waiting' = waiting \/ waiting' = Len(stored[LogGroup]))
      <4>1. stored' = stored /\ waiting' = IF token = 0 THEN Len(stored[C!Group]) ELSE waiting
        BY <3>2 DEF C!Page
      <4>2. C!Group = LogGroup
        BY <2>1 DEF C!Group
      <4> QED
        BY <4>1, <4>2
    <3> QED
      BY <1>3, <3>1, <3>2 DEF C!Collect
  <2>3. waiting' <= Len(stored'[LogGroup])
    BY <1>1, <2>2 DEF Settled
  <2>4. ASSUME turn' = 2, summary'[LogGroup].exists, ~summary'[LogGroup].truncated
        PROVE  fetched'[LogGroup] >= waiting'
    <3>1. turn' = turn + 1 /\ summary'[CP!Group].exists /\ ~summary'[CP!Group].truncated
      BY <2>1, <2>4
    <3>2. fetched'[CP!Group] >= waiting'
      BY <2>1, <3>1, OneGroup, CP!StepCompletes
    <3> QED
      BY <2>1, <3>2
  <2> QED
    BY <2>2, <2>3, <2>4 DEF Settled
<1> QED
  BY <1>2, <1>3

-----------------------------------------------------------------------------
(* The pipeline.                                                           *)

(* What the agent has shipped is a line of the file, and is JSON if that   *)
(* line is the line of an event.                                           *)
Shipped ==
  /\ Len(stored[LogGroup]) <= Cardinality(Breaks)
  /\ \A n \in DOMAIN stored[LogGroup] : stored[LogGroup][n] = "json" <=> EventsOf(n) # {}

(* The inductive invariant of the pipeline.                                *)
PipelineInductive ==
  Inductive /\ CP!Inductive /\ Ordered /\ Whole /\ Shipped /\ Settled

(* Nothing is logged, shipped or read in an initial state.                 *)
LEMMA PipelineInitInductive == PipelineInit => PipelineInductive
<1> SUFFICES ASSUME PipelineInit PROVE PipelineInductive
  OBVIOUS
<1>1. Inductive /\ CP!Inductive /\ Ordered /\ Whole
  BY InitInductive, InitWhole, CollectorInit DEF PipelineInit
<1>2. stored[LogGroup] = <<>> /\ waiting = 0 /\ turn = 1
  <2>1. CP!Groups = {LogGroup} /\ C!Groups = CP!Groups
    BY OneGroup DEF C!Groups, CP!Groups
  <2> QED
    BY <2>1 DEF PipelineInit, C!Init
<1>3. Shipped
  <2>1. Len(stored[LogGroup]) = 0 /\ DOMAIN stored[LogGroup] = {} /\ Cardinality(Breaks) \in Nat
    BY <1>1, <1>2, BreakFacts
  <2> QED
    BY <2>1 DEF Shipped
<1>4. Settled
  BY <1>2 DEF Settled
<1> QED
  BY <1>1, <1>3, <1>4 DEF PipelineInductive

(* A step of the pipeline is a step of the collector or of CloudWatch as   *)
(* LogCollector.tla has them: the agent never ships more than one line for *)
(* each event.                                                             *)
LEMMA ShipIsCollectors == ASSUME PipelineInductive, Ship PROVE C!Next
<1> DEFINE n == Len(stored[LogGroup]) + 1
           message == IF EventsOf(n) = {} THEN "torn" ELSE "json"
<1>1. /\ LogGroup \notin deleted /\ n <= Cardinality(Breaks)
      /\ stored' = [stored EXCEPT ![LogGroup] = Append(@, message)]
      /\ UNCHANGED <<deleted, empties, turn, token, waiting, fetched, events_for_group, events, summary, aborted>>
  BY DEF Ship
<1>2. message \in C!Messages
  BY DEF C!Messages
<1> HIDE DEF message
<1>3. Len(stored[LogGroup]) < MaxEvents
  <2>1. Cardinality(Breaks) \in Nat /\ Cardinality(Breaks) <= MaxEvents
    BY LinesBounded, BreakFacts DEF PipelineInductive
  <2>2. Len(stored[LogGroup]) \in Nat
    BY CollectorFacts DEF PipelineInductive
  <2> QED
    BY <1>1, <2>1, <2>2
<1>4. C!Ship(LogGroup)
  BY <1>1, <1>2, <1>3 DEF C!Ship
<1>5. LogGroup \in C!Groups
  BY OneGroup DEF C!Groups, CP!Groups
<1> QED
  BY <1>4, <1>5 DEF C!Next

(* The agent ships the next line as what it is.                            *)
LEMMA ShipPreserves == ASSUME PipelineInductive, Ship PROVE PipelineInductive'
<1> DEFINE n == Len(stored[LogGroup]) + 1
           message == IF EventsOf(n) = {} THEN "torn" ELSE "json"
<1>1. /\ LogGroup \notin deleted /\ n <= Cardinality(Breaks)
      /\ stored' = [stored EXCEPT ![LogGroup] = Append(@, message)]
      /\ UNCHANGED <<vars, deleted, empties, turn, token, waiting, fetched, events_for_group, events, summary, aborted>>
  BY DEF Ship
<1>2. /\ stored \in [{LogGroup} -> Seq({"json", "torn"})] /\ Len(stored[LogGroup]) \in Nat
      /\ DOMAIN stored[LogGroup] = 1 .. Len(stored[LogGroup]) /\ waiting \in Nat
  BY CollectorFacts DEF PipelineInductive
<1>3. Cardinality(Breaks) \in Nat /\ Cardinality(Breaks) <= MaxEvents
  BY LinesBounded, BreakFacts DEF PipelineInductive
<1>4. message \in {"json", "torn"} /\ (message = "json" <=> EventsOf(n) # {})
  OBVIOUS
<1>5. vars' = vars
  BY <1>1
<1> HIDE DEF message
<1>6. CP!Inductive'
  BY ShipIsCollectors, CollectorStep DEF PipelineInductive
<1>7. Inductive'
  BY <1>5, StutterInductive DEF PipelineInductive, vars
<1>8. Ordered'
  BY <1>5, OtherOrdered DEF PipelineInductive
<1>9. Whole'
  BY <1>5, OtherWhole DEF PipelineInductive
<1>10. Shipped'
  <2> DEFINE old == stored[LogGroup]
             new == Append(old, message)
  <2>1. stored'[LogGroup] = new
    BY <1>1, <1>2
  <2>2. old \in Seq({"json", "torn"})
    BY <1>2
  <2>3. /\ Len(new) = n /\ DOMAIN new = 1 .. n /\ new[n] = message
        /\ \A k \in 1 .. n : (k \in DOMAIN old /\ new[k] = old[k]) \/ k = n
    BY <1>4, <2>2
  <2>4. \A k : EventsOf(k)' = EventsOf(k)
    BY <1>5 DEF vars, EventsOf, NthLine, Nth, Breaks, Line, Compact, Payload
  <2>5. Breaks' = Breaks
    BY <1>5 DEF vars, Breaks
  <2>6. \A k \in DOMAIN old : old[k] = "json" <=> EventsOf(k) # {}
    BY DEF PipelineInductive, Shipped
  <2> HIDE DEF new, old, n
  <2>7. \A k \in DOMAIN new : new[k] = "json" <=> EventsOf(k) # {}
    BY <1>4, <2>3, <2>6
  <2> QED
    BY <1>1, <2>1, <2>3, <2>4, <2>5, <2>7 DEF Shipped
<1>11. Settled'
  <2>1. Len(stored'[LogGroup]) = n
    <3>1. /\ stored'[LogGroup] = Append(stored[LogGroup], message)
          /\ stored[LogGroup] \in Seq({"json", "torn"})
      BY <1>1, <1>2
    <3> QED
      BY <1>4, <3>1
  <2>2. waiting <= n
    BY <1>2 DEF Settled, PipelineInductive
  <2> QED
    BY <1>1, <2>1, <2>2 DEF Settled, PipelineInductive
<1> QED
  BY <1>6, <1>7, <1>8, <1>9, <1>10, <1>11 DEF PipelineInductive

(* The logger writes behind the lines that may have been shipped.          *)
LEMMA LoggerPreserves ==
  ASSUME PipelineInductive, [Next]_vars, UNCHANGED collector
  PROVE  PipelineInductive'
<1>1. Inductive' /\ CP!Inductive'
  BY StepInductive, CollectorStep DEF PipelineInductive
<1>2. Ordered' /\ Whole'
  <2>1. CASE Write
    BY <2>1, WriteOrdered, WriteWhole DEF PipelineInductive
  <2>2. CASE ~Write
    BY <2>2, OtherOrdered, OtherWhole DEF PipelineInductive
  <2> QED
    BY <2>1, <2>2
<1>3. UNCHANGED <<stored, turn, waiting, fetched, events, summary>>
  BY DEF collector
<1>4. Shipped'
  <2>1. /\ Cardinality(Breaks) \in Nat /\ Cardinality(Breaks') \in Nat
        /\ Cardinality(Breaks) <= Cardinality(Breaks')
        /\ \A k \in 1 .. Cardinality(Breaks) : EventsOf(k)' = EventsOf(k)
    BY LinesStay DEF PipelineInductive
  <2>2. Len(stored[LogGroup]) \in Nat /\ DOMAIN stored[LogGroup] = 1 .. Len(stored[LogGroup])
    BY CollectorFacts DEF PipelineInductive
  <2>3. /\ Len(stored[LogGroup]) <= Cardinality(Breaks)
        /\ \A k \in DOMAIN stored[LogGroup] : stored[LogGroup][k] = "json" <=> EventsOf(k) # {}
    BY DEF PipelineInductive, Shipped
  <2>4. \A k \in DOMAIN stored[LogGroup] : k \in 1 .. Cardinality(Breaks)
    BY <2>1, <2>2, <2>3
  <2>5. \A k \in DOMAIN stored[LogGroup] : stored[LogGroup][k] = "json" <=> EventsOf(k)' # {}
    BY <2>1, <2>3, <2>4
  <2>6. Len(stored[LogGroup]) <= Cardinality(Breaks')
    BY <2>1, <2>2, <2>3
  <2> QED
    BY <1>3, <2>5, <2>6 DEF Shipped
<1>5. Settled'
  BY <1>3 DEF Settled, PipelineInductive
<1> QED
  BY <1>1, <1>2, <1>4, <1>5 DEF PipelineInductive

(* The collector changes neither the file nor what is stored.              *)
LEMMA CollectorPreserves ==
  ASSUME PipelineInductive, C!Collect \/ C!Abort \/ C!DeleteGroup(LogGroup), UNCHANGED vars
  PROVE  PipelineInductive'
<1>1. Inductive'
  BY StutterInductive DEF PipelineInductive, vars
<1>2. CP!Inductive'
  <2>1. LogGroup \in C!Groups
    <3>1. LogGroup \in CP!Groups /\ C!Groups = CP!Groups
      BY OneGroup DEF C!Groups, CP!Groups
    <3> QED
      BY <3>1
  <2>2. C!Next
    BY <2>1 DEF C!Next
  <2> QED
    BY <2>2, CollectorStep DEF PipelineInductive
<1>3. stored' = stored /\ Settled'
  BY CollectorReads DEF PipelineInductive
<1>4. Ordered'
  BY OtherOrdered DEF PipelineInductive
<1>5. Whole'
  BY OtherWhole DEF PipelineInductive
<1>6. Shipped'
  <2>1. \A k : EventsOf(k)' = EventsOf(k)
    BY DEF vars, EventsOf, NthLine, Nth, Breaks, Line, Compact, Payload
  <2>2. Breaks' = Breaks
    BY DEF vars, Breaks
  <2> QED
    BY <1>3, <2>1, <2>2 DEF Shipped, PipelineInductive
<1> QED
  BY <1>1, <1>2, <1>3, <1>4, <1>5, <1>6 DEF PipelineInductive

(* Every state of the pipeline satisfies the invariant.                    *)
THEOREM PipelineInvariant == PipelineSpec => []PipelineInductive
<1>1. PipelineInit => PipelineInductive
  BY PipelineInitInductive
<1>2. PipelineInductive /\ [PipelineNext]_<<vars, collector>> => PipelineInductive'
  <2> SUFFICES ASSUME PipelineInductive, [PipelineNext]_<<vars, collector>>
               PROVE  PipelineInductive'
    OBVIOUS
  <2>1. CASE [Next]_vars /\ UNCHANGED collector
    BY <2>1, LoggerPreserves
  <2>2. CASE Ship
    BY <2>2, ShipPreserves
  <2>3. CASE (C!Collect \/ C!Abort \/ C!DeleteGroup(LogGroup)) /\ UNCHANGED vars
    BY <2>3, CollectorPreserves
  <2> QED
    BY <2>1, <2>2, <2>3 DEF PipelineNext
<1> QED
  BY <1>1, <1>2, PTL DEF PipelineSpec

(* The pipeline is the two components as they are on their own: what is    *)
(* proved of JsonLogger and of LogCollector holds in it.                   *)
THEOREM PipelineComposes == PipelineSpec => Spec /\ C!Spec
<1>1. PipelineInit => Init /\ C!Init
  BY DEF PipelineInit
<1>2. PipelineInductive /\ [PipelineNext]_<<vars, collector>> => [Next]_vars /\ [C!Next]_(C!vars)
  <2> SUFFICES ASSUME PipelineInductive, [PipelineNext]_<<vars, collector>>
               PROVE  [Next]_vars /\ [C!Next]_(C!vars)
    OBVIOUS
  <2>1. UNCHANGED collector => UNCHANGED C!vars
    BY DEF collector, C!vars, C!cloudwatch
  <2>2. CASE [Next]_vars /\ UNCHANGED collector
    BY <2>1, <2>2
  <2>3. CASE Ship
    <3>1. C!Next
      BY <2>3, ShipIsCollectors
    <3>2. UNCHANGED vars
      BY <2>3 DEF Ship
    <3> QED
      BY <3>1, <3>2
  <2>4. CASE (C!Collect \/ C!Abort \/ C!DeleteGroup(LogGroup)) /\ UNCHANGED vars
    <3>1. LogGroup \in C!Groups
      BY OneGroup DEF C!Groups, CP!Groups
    <3> QED
      BY <2>4, <3>1 DEF C!Next
  <2> QED
    BY <2>2, <2>3, <2>4 DEF PipelineNext
<1> QED
  BY <1>1, <1>2, PipelineInvariant, PTL DEF PipelineSpec, Spec, C!Spec

-----------------------------------------------------------------------------
(* The report and the log.                                                 *)

(* The line of e is glued to what is left of an earlier one: the i-th byte *)
(* of the file, before it, is no line break.                               *)
Glued(e, i) ==
  /\ LineAt(i, Line(e)) /\ i > 0
  /\ file[i].of < e /\ file[i].text # "nl"

(* Where the line of an event is in the file.                              *)
LEMMA GluedFacts ==
  ASSUME Inductive, NEW e \in Events, NEW i, LineAt(i, Line(e))
  PROVE  /\ i \in Nat /\ Len(Line(e)) \in Nat /\ Len(Line(e)) >= 1
         /\ i + Len(Line(e)) \in DOMAIN file
         /\ DOMAIN file = 1 .. Len(file) /\ Len(file) \in Nat
         /\ \A j \in DOMAIN file : file[j].of \in Nat
         /\ file[i + Len(Line(e))].text = "nl"
         /\ \A j \in DOMAIN file : i < j /\ j <= i + Len(Line(e))
              => file[j].of = e /\ (file[j].text = "nl" => j = i + Len(Line(e)))
<1> DEFINE line == Line(e)
           end == i + Len(line)
<1>1. /\ Len(line) \in Nat /\ Len(line) >= 1
      /\ \A k \in 1 .. Len(line) : line[k].of = e /\ (line[k].text = "nl" <=> k = Len(line))
  BY LineFacts
<1>2. /\ DOMAIN file = 1 .. Len(file) /\ Len(file) \in Nat
      /\ \A j \in DOMAIN file : file[j].of \in Events
  BY FileFacts DEF Inductive
<1> HIDE DEF line
<1>3. /\ i \in Nat /\ end <= Len(file) /\ \A k \in 1 .. Len(line) : file[i + k] = line[k]
  BY DEF LineAt, line
<1>4. end \in DOMAIN file
  BY <1>1, <1>2, <1>3
<1>5. Len(line) \in 1 .. Len(line)
  BY <1>1
<1>6. ASSUME NEW j \in DOMAIN file, i < j, j <= end
      PROVE  file[j].of = e /\ (file[j].text = "nl" => j = end)
  <2> DEFINE k == j - i
  <2>1. k \in 1 .. Len(line) /\ i + k = j /\ (k = Len(line) => j = end)
    BY <1>1, <1>2, <1>3, <1>6
  <2> HIDE DEF k
  <2>2. file[j] = line[k]
    BY <1>3, <2>1
  <2> QED
    BY <1>1, <2>1, <2>2
<1>7. file[end].text = "nl"
  BY <1>1, <1>3, <1>5
<1>8. \A j \in DOMAIN file : file[j].of \in Nat
  BY <1>2 DEF Events
<1> QED
  BY <1>1, <1>2, <1>3, <1>4, <1>6, <1>7, <1>8 DEF line

(* What it is glued to has been torn.                                      *)
LEMMA GluedToTorn ==
  ASSUME Inductive, Ordered, NEW e \in Events, NEW i, Glued(e, i)
  PROVE  file[i].of \in Torn
<1> DEFINE t == file[i].of
           end == i + Len(Line(e))
<1>1. LineAt(i, Line(e)) /\ i > 0 /\ t < e /\ file[i].text # "nl"
  BY DEF Glued
<1>2. /\ i \in Nat /\ end \in DOMAIN file /\ i < end
      /\ DOMAIN file = 1 .. Len(file) /\ Len(file) \in Nat
      /\ \A j \in DOMAIN file : file[j].of \in Nat
      /\ \A j \in DOMAIN file : i < j /\ j <= end => file[j].of = e
  <2>1. /\ i \in Nat /\ Len(Line(e)) \in Nat /\ Len(Line(e)) >= 1
        /\ end \in DOMAIN file
        /\ DOMAIN file = 1 .. Len(file) /\ Len(file) \in Nat
        /\ \A j \in DOMAIN file : file[j].of \in Nat
        /\ \A j \in DOMAIN file : i < j /\ j <= end => file[j].of = e
    BY <1>1, GluedFacts
  <2> QED
    BY <2>1
<1> HIDE DEF end
<1>3. i \in DOMAIN file /\ t \in Nat /\ t \in Events /\ e \in Nat
  <2>1. i \in DOMAIN file
    BY <1>1, <1>2
  <2>2. t \in Events
    BY <2>1, FileFacts DEF Inductive
  <2> QED
    BY <2>1, <2>2 DEF Events
<1>4. ASSUME NEW j \in DOMAIN file, file[j] = Byte(t, "nl") PROVE FALSE
  <2>1. file[j].of = t /\ file[j].text = "nl"
    BY <1>4 DEF Byte
  <2>2. CASE j < i
    <3>1. file[j].of < file[i].of
      BY <1>3, <2>1, <2>2 DEF Ordered
    <3> QED
      BY <1>3, <2>1, <3>1
  <2>3. CASE i < j /\ j <= end
    BY <1>1, <1>2, <1>3, <2>1, <2>3
  <2>4. CASE end < j
    <3>1. file[end].of = e
      BY <1>2
    <3>2. file[end].of <= file[j].of
      BY <1>2, <2>4 DEF Ordered
    <3> QED
      BY <1>1, <1>3, <2>1, <3>1, <3>2
  <2>5. i # j
    BY <1>1, <2>1
  <2>6. j < i \/ (i < j /\ j <= end) \/ end < j
    BY <1>2, <1>3, <2>5
  <2> QED
    BY <2>2, <2>3, <2>4, <2>6
<1> QED
  BY <1>3, <1>4 DEF Torn

(* Two lines are not glued to the remains of the same append.              *)
LEMMA GluedApart ==
  ASSUME Inductive, Ordered, NEW d \in Events, NEW e \in Events, d < e,
         NEW i, NEW j, Glued(d, i), Glued(e, j)
  PROVE  file[i].of # file[j].of
<1> DEFINE end == i + Len(Line(d))
           stop == j + Len(Line(e))
<1>1. /\ LineAt(i, Line(d)) /\ LineAt(j, Line(e)) /\ j > 0 /\ file[i].of < d
  BY DEF Glued
<1>2. /\ i \in Nat /\ end \in DOMAIN file /\ i < end
      /\ DOMAIN file = 1 .. Len(file) /\ Len(file) \in Nat
      /\ \A k \in DOMAIN file : file[k].of \in Nat
      /\ file[end].of = d
  <2>1. /\ i \in Nat /\ Len(Line(d)) \in Nat /\ Len(Line(d)) >= 1
        /\ end \in DOMAIN file
        /\ DOMAIN file = 1 .. Len(file) /\ Len(file) \in Nat
        /\ \A k \in DOMAIN file : file[k].of \in Nat
        /\ \A k \in DOMAIN file : i < k /\ k <= end => file[k].of = d
    BY <1>1, GluedFacts
  <2>2. i < end /\ end <= end
    BY <2>1
  <2> HIDE DEF end
  <2> QED
    BY <2>1, <2>2
<1>3. /\ j \in Nat /\ stop \in DOMAIN file /\ j < stop
      /\ \A k \in DOMAIN file : j < k /\ k <= stop => file[k].of = e
  <2>1. /\ j \in Nat /\ Len(Line(e)) \in Nat /\ Len(Line(e)) >= 1
        /\ stop \in DOMAIN file
        /\ \A k \in DOMAIN file : j < k /\ k <= stop => file[k].of = e
    BY <1>1, GluedFacts
  <2> QED
    BY <2>1
<1> HIDE DEF end, stop
<1>4. d \in Nat /\ e \in Nat
  BY DEF Events
<1>5. end <= j
  <2> SUFFICES ASSUME j < end PROVE FALSE
    BY <1>2, <1>3
  <2>1. j + 1 \in DOMAIN file /\ j < j + 1 /\ j + 1 <= stop /\ j + 1 <= end
    BY <1>2, <1>3
  <2>2. file[j + 1].of = e
    BY <1>3, <2>1
  <2>3. j + 1 = end \/ file[j + 1].of <= file[end].of
    BY <1>2, <2>1 DEF Ordered
  <2> QED
    BY <1>2, <1>4, <2>2, <2>3
<1>6. j \in DOMAIN file
  BY <1>1, <1>2, <1>3
<1>7. j = end \/ file[end].of <= file[j].of
  BY <1>2, <1>5, <1>6 DEF Ordered
<1>8. d <= file[j].of /\ file[j].of \in Nat
  BY <1>2, <1>4, <1>6, <1>7
<1>9. file[i].of < d /\ file[i].of \in Nat
  <2>1. i \in DOMAIN file
    BY <1>2 DEF Glued
  <2> QED
    BY <1>1, <1>2, <2>1
<1> QED
  BY <1>4, <1>8, <1>9

(* An event whose append returned and whose line break is in the file has  *)
(* a line of its own there, or is glued to what is before it.              *)
LEMMA OwnLineOrGlued ==
  ASSUME Inductive, Ordered, Whole, NEW n \in 1 .. Cardinality(Breaks),
         outcome[Entered[n]] = "appended", EventsOf(n) = {}
  PROVE  Entered[n] \in Events /\ \E i : Glued(Entered[n], i)
<1> DEFINE e == Entered[n]
           line == Line(e)
           start == Start(n)
           end == Nth(Breaks, n)
<1>1. /\ Breaks \in SUBSET (1 .. Len(file)) /\ end \in Breaks /\ n \in DOMAIN Entered
      /\ e = file[end].of
  BY BreakFacts
<1>2. e \in Events
  BY <1>1 DEF Inductive, EnteredIsWritten
<1> HIDE DEF e
<1>3. PICK i : LineAt(i, line) /\ Fresh(i, e)
  BY <1>2 DEF Whole, e
<1>4. /\ i \in Nat /\ Len(line) \in Nat /\ Len(line) >= 1
      /\ i + Len(line) \in DOMAIN file
      /\ DOMAIN file = 1 .. Len(file) /\ Len(file) \in Nat
      /\ \A j \in DOMAIN file : file[j].of \in Nat
      /\ file[i + Len(line)].text = "nl"
      /\ \A j \in DOMAIN file : i < j /\ j <= i + Len(line)
           => file[j].of = e /\ (file[j].text = "nl" => j = i + Len(line))
  BY <1>2, <1>3, GluedFacts
<1>5. /\ start \in Nat /\ end \in Nat /\ 1 <= start /\ start <= end /\ end <= Len(file)
      /\ NthLine(n) = SubSeq(file, start, end)
      /\ \A j \in Breaks : j < start \/ j >= end
      /\ n = 1 \/ start - 1 \in Breaks
      /\ n = 1 => start = 1
  BY NthLineFacts DEF Start
<1>6. \A j : j \in Breaks <=> j \in DOMAIN file /\ file[j].text = "nl"
  BY DEF Breaks
<1>7. line \in Seq(Bytes) /\ file \in Seq(Bytes) /\ \A k \in 1 .. Len(line) : file[i + k] = line[k]
  BY <1>2, <1>3, LineFacts, FileFacts DEF LineAt, Inductive
<1> HIDE DEF line, start, end
<1> DEFINE stop == i + Len(line)
<1>8. stop = end
  <2>1. stop \in Breaks /\ stop \in Nat /\ file[stop].of = e /\ end \in DOMAIN file
    BY <1>1, <1>4, <1>6
  <2> HIDE DEF stop
  <2>2. ASSUME stop < end PROVE FALSE
    <3>1. file[stop].of < file[end].of
      BY <1>6, <2>1, <2>2 DEF Ordered
    <3> QED
      BY <1>1, <1>4, <2>1, <3>1
  <2>3. ASSUME end < stop PROVE FALSE
    <3>1. file[end].of < file[stop].of
      BY <1>1, <1>6, <2>1, <2>3 DEF Ordered
    <3> QED
      BY <1>1, <1>4, <2>1, <3>1
  <2> QED
    BY <1>5, <2>1, <2>2, <2>3
<1>9. start <= i + 1
  <2> SUFFICES ASSUME i + 1 < start PROVE FALSE
    BY <1>4, <1>5
  <2>1. start - 1 \in Breaks /\ i < start - 1 /\ start - 1 < end
    BY <1>4, <1>5
  <2>2. start - 1 \in DOMAIN file /\ file[start - 1].text = "nl"
    BY <1>6, <2>1
  <2> QED
    BY <1>4, <1>5, <1>8, <2>1, <2>2
<1>10. start # i + 1
  <2> SUFFICES ASSUME start = i + 1 PROVE FALSE
    OBVIOUS
  <2>1. Len(line) = end - start + 1 /\ \A k \in 1 .. end - start + 1 : line[k] = file[start + k - 1]
    <3>1. Len(line) = end - start + 1 /\ \A k \in 1 .. Len(line) : start + k - 1 = i + k
      BY <1>4, <1>5, <1>8
    <3> QED
      BY <1>7, <3>1
  <2>2. NthLine(n) = line
    BY <1>5, <1>7, <2>1, PartIs
  <2>3. e \in EventsOf(n)
    BY <1>2, <2>2 DEF EventsOf, line
  <2> QED
    BY <2>3
<1>11. i > 0 /\ i \in DOMAIN file /\ file[i].of < e
  BY <1>3, <1>4, <1>5, <1>8, <1>9, <1>10 DEF Fresh
<1>12. file[i].text # "nl"
  <2>1. i >= start /\ i < end
    BY <1>4, <1>5, <1>8, <1>9, <1>10
  <2> QED
    BY <1>4, <1>5, <1>6, <1>11, <2>1
<1> QED
  BY <1>2, <1>3, <1>11, <1>12 DEF Glued, e, line

(* Behind every event in the report is a line the server logged and did    *)
(* not give up on.                                                         *)
LEMMA ReportedIsLogged ==
  ASSUME PipelineInductive, NEW i \in DOMAIN events
  PROVE  \E e \in EventsOf(events[i].at) : outcome[e] # "failed"
<1> DEFINE n == events[i].at
<1>1. /\ n \in DOMAIN stored[LogGroup] /\ stored[LogGroup][n] = "json"
      /\ DOMAIN stored[LogGroup] = 1 .. Len(stored[LogGroup]) /\ Len(stored[LogGroup]) \in Nat
  BY CollectorFacts DEF PipelineInductive
<1> HIDE DEF n
<1>2. Cardinality(Breaks) \in Nat
  BY BreakFacts DEF PipelineInductive
<1>3. n \in 1 .. Cardinality(Breaks) /\ EventsOf(n) # {}
  BY <1>1, <1>2 DEF PipelineInductive, Shipped
<1>4. PICK e \in EventsOf(n) : TRUE
  BY <1>3
<1>5. outcome[e] # "failed"
  BY <1>3, LineOfEvent DEF PipelineInductive
<1> QED
  BY <1>4, <1>5 DEF n

(* The events whose append returned, among those waiting when the first    *)
(* page was asked for, that are not in the report.                         *)
InReport == UNION {EventsOf(events[i].at) : i \in DOMAIN events}
Lost == {e \in {Entered[n] : n \in 1 .. waiting} : outcome[e] = "appended"} \ InReport

(* Once the group is settled, the line of a lost event is not its own.     *)
LEMMA LostIsGlued ==
  ASSUME PipelineInductive,
         turn = 2, summary[LogGroup].exists, ~summary[LogGroup].truncated,
         NEW e \in Lost
  PROVE  e \in Events /\ \E i : Glued(e, i)
<1>1. PICK n \in 1 .. waiting : e = Entered[n]
  BY DEF Lost
<1>2. outcome[e] = "appended" /\ e \notin InReport
  BY DEF Lost
<1>3. /\ DOMAIN stored[LogGroup] = 1 .. Len(stored[LogGroup]) /\ Len(stored[LogGroup]) \in Nat
      /\ waiting \in Nat /\ fetched[LogGroup] \in Nat
      /\ \A k \in DOMAIN stored[LogGroup] :
           stored[LogGroup][k] = "json" /\ k <= fetched[LogGroup]
             => \E i \in DOMAIN events : events[i].at = k
  BY CollectorFacts DEF PipelineInductive
<1>4. waiting <= Len(stored[LogGroup]) /\ fetched[LogGroup] >= waiting
  BY DEF PipelineInductive, Settled
<1>5. n \in DOMAIN stored[LogGroup] /\ n <= fetched[LogGroup]
  BY <1>3, <1>4
<1>6. Cardinality(Breaks) \in Nat
  BY BreakFacts DEF PipelineInductive
<1>7. n \in 1 .. Cardinality(Breaks) /\ (stored[LogGroup][n] = "json" <=> EventsOf(n) # {})
  BY <1>3, <1>5, <1>6 DEF PipelineInductive, Shipped
<1>8. EventsOf(n) = {}
  <2> SUFFICES ASSUME NEW d \in EventsOf(n) PROVE FALSE
    OBVIOUS
  <2>1. d = e
    BY <1>1, <1>7, LineOfEvent DEF PipelineInductive
  <2>2. PICK i \in DOMAIN events : events[i].at = n
    BY <1>3, <1>5, <1>7
  <2>3. d \in InReport
    BY <2>2 DEF InReport
  <2> QED
    BY <1>2, <2>1, <2>3
<1> QED
  BY <1>1, <1>2, <1>7, <1>8, OwnLineOrGlued DEF PipelineInductive

(* So each lost event has a torn append of its own.                        *)
LEMMA LostByTorn ==
  ASSUME PipelineInductive,
         turn = 2, summary[LogGroup].exists, ~summary[LogGroup].truncated
  PROVE  Cardinality(Lost) <= Cardinality(Torn)
<1> DEFINE Before(e) == CHOOSE i : Glued(e, i)
           f == [e \in Lost |-> file[Before(e)].of]
<1>1. \A e \in Lost : e \in Events /\ e \in Nat /\ Glued(e, Before(e))
  <2> SUFFICES ASSUME NEW e \in Lost PROVE e \in Events /\ e \in Nat /\ Glued(e, Before(e))
    OBVIOUS
  <2>1. e \in Events /\ \E i : Glued(e, i)
    BY LostIsGlued
  <2> QED
    BY <2>1 DEF Events
<1> HIDE DEF Before
<1>2. ASSUME NEW e \in Lost PROVE file[Before(e)].of \in Torn
  BY <1>1, GluedToTorn DEF PipelineInductive
<1>3. ASSUME NEW d \in Lost, NEW e \in Lost, d # e
      PROVE  file[Before(d)].of # file[Before(e)].of
  <2>1. d < e \/ e < d
    BY <1>1, <1>3
  <2>2. CASE d < e
    BY <1>1, <2>2, GluedApart DEF PipelineInductive
  <2>3. CASE e < d
    BY <1>1, <2>3, GluedApart DEF PipelineInductive
  <2> QED
    BY <2>1, <2>2, <2>3
<1>4. f \in Injection(Lost, Torn)
  BY <1>2, <1>3 DEF Injection, IsInjective
<1>5. IsFiniteSet(Torn)
  <2>1. IsFiniteSet(Events) /\ Torn \in SUBSET Events
    BY FS_Interval DEF Events, Torn
  <2> QED
    BY <2>1, FS_Subset
<1> HIDE DEF f
<1> QED
  BY <1>4, <1>5, FS_Injection

(* The report is the audit trail: nothing in it is made up, and no more    *)
(* of the trail is missing from it than torn appends account for.          *)
THEOREM ReportIsTheTrail == PipelineSpec => []ReportTellsTheLog
<1>1. PipelineInductive => ReportTellsTheLog
  <2> SUFFICES ASSUME PipelineInductive PROVE ReportTellsTheLog
    OBVIOUS
  <2>1. \A i \in DOMAIN events : \E e \in EventsOf(events[i].at) : outcome[e] # "failed"
    BY ReportedIsLogged
  <2>2. turn = 2 /\ summary[LogGroup].exists /\ ~summary[LogGroup].truncated
          => Cardinality(Lost) <= Cardinality(Torn)
    BY LostByTorn
  <2> QED
    BY <2>1, <2>2 DEF ReportTellsTheLog, Lost, InReport
<1> QED
  BY <1>1, PipelineInvariant, PTL

=============================================================================
