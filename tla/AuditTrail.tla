------------------------------ MODULE AuditTrail ------------------------------
(***************************************************************************)
(* What the telemetry server promises to whoever reads its log: a trail    *)
(* that only grows, with at most one record per connection; a connection   *)
(* may be missed, once and for all; and a client is told at most one       *)
(* thing, after it was recorded, and word for word what was recorded.      *)
(* TlsServer.tla implements it (app/src/TlsServer.cpp, lines 586-625).     *)
(***************************************************************************)
EXTENDS Sequences

CONSTANTS
  Conns,   \* connections
  Record,  \* records: each has a field conn and a field kind
  Private  \* kinds of records that are never told

VARIABLES
  trail,   \* the records written
  missed,  \* connections whose record could not be written
  told     \* the records clients were told
vars == <<trail, missed, told>>

Recorded == {trail[i].conn : i \in DOMAIN trail}

Init == trail = <<>> /\ missed = {} /\ told = {}

Write(e) ==
  /\ e.conn \notin Recorded \cup missed
  /\ trail' = Append(trail, e)
  /\ UNCHANGED <<missed, told>>

Miss(c) ==
  /\ c \notin Recorded \cup missed
  /\ missed' = missed \cup {c}
  /\ UNCHANGED <<trail, told>>

Tell(e) ==
  /\ e.kind \notin Private
  /\ e.conn \in missed \/ \E i \in DOMAIN trail : trail[i] = e
  /\ e.conn \notin {t.conn : t \in told}
  /\ told' = told \cup {e}
  /\ UNCHANGED <<trail, missed>>

Next ==
  \/ \E e \in Record : Write(e) \/ Tell(e)
  \/ \E c \in Conns : Miss(c)

Spec == Init /\ [][Next]_vars

=============================================================================
