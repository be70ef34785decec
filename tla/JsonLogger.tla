----------------------------- MODULE JsonLogger -----------------------------
(***************************************************************************)
(* appendJsonLogLine() (app/src/JsonLogger.cpp) at the level of the system *)
(* calls it makes on log_file: open, as many writes as the kernel wants,   *)
(* close.  A write may take a part of the line, or fail - a full disk, an  *)
(* interrupted call - and the process may die between any two calls; the   *)
(* file stays, and the next process appends to it.                         *)
(*                                                                         *)
(* One server process writes each log file (the container gives every      *)
(* instance a file of its own), so calls do not overlap: events are        *)
(* numbered in the order the server logs them.                             *)
(***************************************************************************)
EXTENDS Naturals, Sequences, FiniteSets

CONSTANTS
  MaxEvents,  \* BOUND: events the server logs
  Malformed   \* events whose payload is not JSON (a 500 quoting a quote)

ASSUME MaxEventsAssumption == MaxEvents \in Nat
ASSUME MalformedAssumption == Malformed \subseteq Nat

Events == 1 .. MaxEvents

VARIABLES
  file,     \* bytes of log_file, oldest first
  event,    \* event being logged, or the last one
  call,     \* the system call appendJsonLogLine() is about to make
  unsent,   \* data and remaining: what is left to write
  fds,      \* events whose call's descriptor is open in the process
  outcome   \* how the call for each event ended
vars == <<file, event, call, unsent, fds, outcome>>

Outcomes == {"none", "appended", "failed", "crashed"}

-----------------------------------------------------------------------------
(* Text.  A payload is pretty-printed (dump(2)): a few pieces with line    *)
(* breaks between them.  A byte remembers the event it was written for.    *)

Byte(e, text) == [of |-> e, text |-> text]
Bytes == [of : Events, text : {"{", "}", "nl", "wrap", "\\n"}]

Payload(e) == <<Byte(e, "{"), Byte(e, "nl"), Byte(e, "}")>>

(* The n-th of a set of positions, and what a sequence has at them.        *)
Nth(places, n) == CHOOSE i \in places : Cardinality({j \in places : j <= i}) = n
ReadAt(seq, places) == [n \in 1 .. Cardinality(places) |-> seq[Nth(places, n)]]

(* json::parse(payload).dump() drops the line breaks between the pieces; a *)
(* payload that does not parse is wrapped as a JSON string, which escapes  *)
(* them.                                                                   *)
Compact(e) ==
  IF e \in Malformed
  THEN <<Byte(e, "wrap")>> \o [i \in 1 .. 3 |-> IF Payload(e)[i].text = "nl"
                                                THEN Byte(e, "\\n") ELSE Payload(e)[i]]
  ELSE ReadAt(Payload(e), {i \in 1 .. 3 : Payload(e)[i].text # "nl"})

(* Wrong: the line break is forgotten.                                     *)
LineUnbroken(e) == Compact(e)

Line(e) == Compact(e) \o <<Byte(e, "nl")>>

Init ==
  /\ file = <<>> /\ event = 0 /\ call = "none" /\ unsent = <<>> /\ fds = {}
  /\ outcome = [e \in Events |-> "none"]

-----------------------------------------------------------------------------
(* The function, one system call at a time.                                *)

Call ==
  /\ call = "none" /\ event < MaxEvents
  /\ event' = event + 1 /\ call' = "open"
  /\ UNCHANGED <<file, unsent, fds, outcome>>

Ends(how) ==
  /\ call' = "none" /\ unsent' = <<>>
  /\ outcome' = [outcome EXCEPT ![event] = how]
  /\ UNCHANGED <<file, event>>

(* close(fd)                                                               *)
Closed == fds' = fds \ {event}

(* O_APPEND: every write goes to the end of the file.                      *)
Open ==
  /\ call = "open"
  /\ call' = "write" /\ fds' = fds \cup {event} /\ unsent' = Line(event)
  /\ UNCHANGED <<file, event, outcome>>

OpenFails == call = "open" /\ Ends("failed") /\ UNCHANGED fds

(* The file is open, and the line cannot be built: dump() refuses a        *)
(* payload that is not UTF-8, or memory is exhausted.  The exception       *)
(* leaves the function and nobody closes the descriptor.                   *)
DumpThrows == call = "open" /\ Ends("failed") /\ fds' = fds \cup {event}

(* Wrong: a short write is taken for a whole one.                          *)
WriteOnce ==
  /\ call = "write" /\ unsent # <<>>
  /\ \E n \in 1 .. Len(unsent) : file' = file \o SubSeq(unsent, 1, n)
  /\ unsent' = <<>>
  /\ UNCHANGED <<event, call, fds, outcome>>

(* write() takes n of the remaining bytes.                                 *)
Write ==
  /\ call = "write" /\ unsent # <<>>
  /\ \E n \in 1 .. Len(unsent) :
       /\ file' = file \o SubSeq(unsent, 1, n)
       /\ unsent' = SubSeq(unsent, n + 1, Len(unsent))
  /\ UNCHANGED <<event, call, fds, outcome>>

(* Wrong: this exception leaves the descriptor open, too.                  *)
WriteFailsLeaky == call = "write" /\ unsent # <<>> /\ Ends("failed") /\ UNCHANGED fds

(* write() fails: close and throw, whatever has been written so far.       *)
WriteFails == call = "write" /\ unsent # <<>> /\ Ends("failed") /\ Closed

(* Wrong: an error of close() throws although the line is in the file.     *)
CloseThrows == call = "write" /\ unsent = <<>> /\ Ends("failed") /\ Closed

Close == call = "write" /\ unsent = <<>> /\ Ends("appended") /\ Closed

(* The process dies, inside the call or between two, and its descriptors   *)
(* with it; its successor logs the next event.                             *)
Crash ==
  /\ \/ call # "none" /\ Ends("crashed")
     \/ call = "none" /\ UNCHANGED <<file, event, call, unsent, outcome>>
  /\ fds' = {}

Next == Call \/ Open \/ OpenFails \/ DumpThrows \/ Write \/ WriteFails \/ Close \/ Crash

Spec == Init /\ [][Next]_vars

-----------------------------------------------------------------------------
(* Properties.                                                             *)

(* The line breaks in the file, and the events they belong to, in order.   *)
Breaks == {i \in DOMAIN file : file[i].text = "nl"}
Lines == ReadAt(file, Breaks)
Entered == [n \in DOMAIN Lines |-> Lines[n].of]

(* Every variable stays within its range.  Of the descriptors of calls     *)
(* that are over the process still holds at most those of calls that threw *)
(* before they wrote a byte: whatever comes after the first byte, each     *)
(* return closes; a full disk never costs a descriptor.                    *)
TypeOK ==
  /\ file \in Seq(Bytes) /\ event \in Nat /\ event <= MaxEvents
  /\ call \in {"none", "open", "write"} /\ unsent \in Seq(Bytes)
  /\ outcome \in [Events -> Outcomes]
  /\ fds \subseteq Events
  /\ \A e \in fds : \/ call = "write" /\ e = event
                    \/ outcome[e] = "failed" /\ \A i \in DOMAIN file : file[i].of # e

(* However the kernel cuts the writes, and whatever happened to the events *)
(* before it, the bytes of an event whose append returned lie side by side *)
(* in the file and make up its line.                                       *)
AppendedIsContiguous ==
  \A e \in Events : outcome[e] = "appended" =>
    \E i \in 0 .. Len(file) - Len(Line(e)) :
      SubSeq(file, i + 1, i + Len(Line(e))) = Line(e)

(* The damage of a torn line is limited: an event starts in the middle of  *)
(* a line only right behind the remains of an append that failed or of a   *)
(* process that died.  Two appends that returned never share a line.       *)
SpoiledOnlyByTorn ==
  \A i \in DOMAIN file \ {1} :
    file[i].of # file[i - 1].of /\ file[i - 1].text # "nl"
      => outcome[file[i - 1].of] \in {"failed", "crashed"}

(* "It does not overwrite previous logs" (app/include/JsonLogger.hpp).     *)
(* Seen through the events whose line break is in the file, and those      *)
(* whose append threw, this is the atomic append TlsServer.tla assumes.    *)
Atomic == INSTANCE EventLog WITH
  log <- Entered,
  dropped <- {e \in Events : outcome[e] = "failed"}
ImplementsEventLog == Atomic!Spec

=============================================================================
