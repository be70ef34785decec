-------------------------- MODULE ConfigGateProofs --------------------------
(***************************************************************************)
(* Theorems about ConfigGate.tla, for every field and every file.          *)
(***************************************************************************)
EXTENDS ConfigGate, TLAPS

Stages == {"commit", "blocked", "built", "loaded", "failed", "serving"}

(* The file was judged once, before anything was loaded...                 *)
Judged ==
  /\ stage = "blocked" => Deny
  /\ stage \in {"built", "loaded", "failed", "serving"} => ~Deny

(* ... and the server uses what its look-up found, if that is a string; a  *)
(* server that fails has found none, or refuses the one it found.          *)
Found ==
  /\ stage \in {"loaded", "serving"} => effective = LookedUp /\ effective \in Strings
  /\ stage = "failed" => (LookedUp \in Strings => effective = LookedUp)

(* The inductive invariant. The file does not change on its way.           *)
Inductive ==
  /\ stage \in Stages /\ field \in AppFields \cup TlsFields /\ config \in Places
  /\ Judged /\ Found

(* For a file that declares the field, policy and loader read one value.   *)
LEMMA OneValue ==
  ASSUME config \in Places, Declared
  PROVE  PolicyValue = config.named /\ LookedUp = config.named
<1>1. config.shape = "object" /\ config.named \in Strings
  BY DEF Declared
<1>2. config.named # "absent"
  BY <1>1 DEF Strings
<1>3. PolicyValue = config.named
  BY <1>1, <1>2 DEF PolicyValue
<1>4. SectionOrRoot.named = config.named
  BY <1>1 DEF SectionOrRoot
<1>5. LookedUp = config.named
  BY <1>1, <1>4 DEF LookedUp, GetStringWithAlias
<1> QED
  BY <1>3, <1>5

(* A file of the categorized schema that the policy lets pass declares     *)
(* every field the policy requires.                                        *)
LEMMA PassedIsDeclared ==
  ASSUME Categorized, field \in RequiredTlsFields, ~Deny
  PROVE  Declared
<1>1. PolicyValue # "empty" /\ config.shape = "object"
  BY DEF Deny, Categorized
<1>2. config.named # "absent"
  BY <1>1 DEF PolicyValue
<1> QED
  BY <1>1, <1>2 DEF Categorized, Declared

(* The look-ups and the policy's verdict depend on the file only.          *)
LEMMA SameFile ==
  ASSUME UNCHANGED <<field, config>>
  PROVE  LookedUp' = LookedUp /\ Deny' = Deny
BY DEF LookedUp, SectionOrRoot, GetStringWithAlias, Deny, PolicyValue

(* The inductive invariant holds in every reachable state.                 *)
THEOREM InductiveInvariant == Spec => []Inductive
<1>1. Init => Inductive
  BY DEF Init, Inductive, Judged, Found, Stages
<1>2. ASSUME Inductive, [Next]_vars PROVE Inductive'
  <2>1. field \in AppFields \cup TlsFields /\ config \in Places /\ Judged /\ Found
    BY <1>2 DEF Inductive
  <2> USE DEF Stages, Judged, Found
  <2>2. CASE Validate
    <3>1. UNCHANGED <<field, config>> /\ stage' = IF Deny THEN "blocked" ELSE "built"
      BY <2>2 DEF Validate
    <3> QED
      BY <2>1, <3>1, SameFile DEF Inductive
  <2>3. CASE LoadConfig
    <3>1. /\ stage = "built" /\ UNCHANGED <<field, config>>
          /\ IF LookedUp \in Strings THEN stage' = "loaded" /\ effective' = LookedUp
                                     ELSE stage' = "failed" /\ UNCHANGED effective
      BY <2>3 DEF LoadConfig
    <3> QED
      BY <2>1, <3>1, SameFile DEF Inductive
  <2>4. CASE CreateTlsContext
    <3>1. /\ stage = "loaded" /\ stage' \in {"failed", "serving"}
          /\ UNCHANGED <<field, config, effective>>
      BY <2>4 DEF CreateTlsContext
    <3> QED
      BY <2>1, <3>1, SameFile DEF Inductive
  <2>5. CASE UNCHANGED vars
    BY <1>2, <2>1, <2>5, SameFile DEF vars, Inductive
  <2> QED
    BY <1>2, <2>2, <2>3, <2>4, <2>5 DEF Next
<1> QED
  BY <1>1, <1>2, PTL DEF Spec

(* The gate judges what runs: of a file that declares the field, the value *)
(* the policy passed is the value the server uses, so none that is weak;   *)
(* and the one false alarm is a list that mentions a weak name without     *)
(* allowing anything weak.                                                 *)
THEOREM GateIsSound == Spec => []GateJudgesWhatRuns
<1>1. ASSUME Inductive PROVE GateJudgesWhatRuns
  <2> SUFFICES ASSUME Declared
               PROVE  /\ stage \in {"loaded", "serving"} => effective # "weak"
                      /\ stage = "blocked" /\ LookedUp \in {"sound", "mentions"} =>
                           LookedUp = "mentions" /\ field \in ListFields
    BY DEF GateJudgesWhatRuns
  <2>1. PolicyValue = config.named /\ LookedUp = config.named
    BY <1>1, OneValue DEF Inductive
  <2> QED
    BY <1>1, <2>1 DEF Inductive, Judged, Found, Deny
<1> QED
  BY <1>1, InductiveInvariant, PTL

(* What the policy requires the loader finds: of a categorized file that   *)
(* passed, no required field is missing at start-up.                       *)
THEOREM PassedFilesLoad == Spec => []RequiredFieldsLoad
<1>1. ASSUME Inductive PROVE RequiredFieldsLoad
  <2> SUFFICES ASSUME Categorized, field \in RequiredTlsFields, stage = "failed"
               PROVE  effective \in Strings
    BY DEF RequiredFieldsLoad
  <2>1. Declared
    BY <1>1, PassedIsDeclared DEF Inductive, Judged
  <2>2. LookedUp = config.named /\ config.named \in Strings
    BY <1>1, <2>1, OneValue DEF Inductive, Declared
  <2> QED
    BY <1>1, <2>2 DEF Inductive, Found
<1> QED
  BY <1>1, InductiveInvariant, PTL

=============================================================================
