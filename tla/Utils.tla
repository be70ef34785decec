-------------------------------- MODULE Utils --------------------------------
(***************************************************************************)
(* The algorithms of tools/telemetry/telemetry/utils.py: percentages,      *)
(* percentiles, and the search for a JSON object in mixed output.          *)
(*                                                                         *)
(* A share is in hundredths of a percent; values and what is made of them  *)
(* are in thousandths of their unit, a value in parts of a thousandth.     *)
(* A text is a sequence of the characters that the search tells apart: an  *)
(* opening and a closing brace, a quote, a backslash, and "x" for all      *)
(* others.                                                                 *)
(***************************************************************************)
EXTENDS Integers, SequencesExt

CONSTANTS
  Precision,  \* the parts of a thousandth that values are told in
  TiesUp      \* numbers from which a half is rounded up

ASSUME PrecisionAssumption == Precision \in Nat \ {0}

(* round_float(), and the rounding of safe_percent(): num / den to the     *)
(* nearest. Of what is half way, the binary form decides: it is as good as *)
(* unknown, but the same for the same number.                              *)
RoundFloat(num, den) ==
  LET below == num \div den
      rest == 2 * (num % den)
  IN  IF rest > den \/ (rest = den /\ below \in TiesUp) THEN below + 1 ELSE below

(* The same of a sum, which floating-point numbers hold only nearly: what  *)
(* is half way may go either way.                                          *)
Nearest(num, den) ==
  LET below == num \div den
      rest == 2 * (num % den)
  IN  {n \in {below, below + 1} : (n = below => rest <= den) /\ (n > below => rest >= den)}

(* safe_percent()                                                          *)
Percent(part, total) == IF total = 0 THEN 0 ELSE RoundFloat(10000 * part, total)

-----------------------------------------------------------------------------
(* percentile(): linear interpolation between two ranks.                   *)

(* Wrong: a share of the values, not of the steps between them.            *)
RankOfValues(n, p) == IF n * p < 100 THEN 0 ELSE n * p - 100

(* k, counted from 0 and in hundredths.                                    *)
Rank(n, p) == (n - 1) * p

(* Between the two values next to it, in hundredths of their difference.   *)
Interpolation(sorted, p) ==
  LET k == Rank(Len(sorted), p)
      lower == sorted[k \div 100 + 1]
      upper == sorted[(k + 99) \div 100 + 1]
  IN  100 * lower + (upper - lower) * (k % 100)

(* The p-th percentile of sorted values; not of none, where the code       *)
(* returns None.                                                           *)
Percentile(sorted, p) == RoundFloat(Interpolation(sorted, p), 100 * Precision)

(* sorted(): the i-th value has fewer than i values below it, and at least *)
(* i that are not above it.                                                *)
Ascending(values) ==
  [i \in DOMAIN values |->
    CHOOSE v \in Range(values) :
      /\ Cardinality({j \in DOMAIN values : values[j] < v}) < i
      /\ Cardinality({j \in DOMAIN values : values[j] <= v}) >= i]

(* stats(), of at least one value: what the record may be.                 *)
Stats(values) ==
  LET sorted == Ascending(values)
  IN  {[avg |-> avg,
        min |-> RoundFloat(sorted[1], Precision), max |-> RoundFloat(Last(sorted), Precision),
        p50 |-> Percentile(sorted, 50), p95 |-> Percentile(sorted, 95)] :
         avg \in Nearest(FoldSeq(+, 0, values), Len(values) * Precision)}

-----------------------------------------------------------------------------
(* extract_first_json_object()                                             *)

Characters == {"open", "close", "quote", "backslash", "x"}

AtStart == [depth |-> 0, inString |-> FALSE, escape |-> FALSE]

(* Wrong: a backslash is a character like any other.                       *)
AfterUnescaped(state, char) ==
  IF state.inString
  THEN [state EXCEPT !.inString = char # "quote"]
  ELSE CASE char = "quote" -> [state EXCEPT !.inString = TRUE]
         [] char = "open" -> [state EXCEPT !.depth = @ + 1]
         [] char = "close" -> [state EXCEPT !.depth = @ - 1]
         [] OTHER -> state

(* The state of the inner loop behind one more character.                  *)
After(state, char) ==
  IF state.inString
  THEN [state EXCEPT !.escape = ~@ /\ char = "backslash",
                     !.inString = state.escape \/ char # "quote"]
  ELSE CASE char = "quote" -> [state EXCEPT !.inString = TRUE]
         [] char = "open" -> [state EXCEPT !.depth = @ + 1]
         [] char = "close" -> [state EXCEPT !.depth = @ - 1]
         [] OTHER -> state

(* What lies between the brace at start and the one that closes it: the    *)
(* only candidate that begins there, if there is one.                      *)
Candidates(text, start) ==
  LET state[i \in start - 1 .. Len(text)] ==
        IF i = start - 1 THEN AtStart ELSE After(state[i - 1], text[i])
      closed == {i \in start .. Len(text) : text[i] = "close" /\ state[i].depth = 0}
  IN  IF closed = {} THEN {} ELSE {SubSeq(text, start, Min(closed))}

(* The first candidate that json.loads() takes, which takes the objects.   *)
ExtractFirst(text, objects) ==
  LET starts == {i \in DOMAIN text : text[i] = "open" /\ Candidates(text, i) \cap objects # {}}
  IN  IF starts = {} THEN {} ELSE Candidates(text, Min(starts))
=============================================================================
