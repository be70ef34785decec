------------------------------ MODULE ConfigGate ------------------------------
(***************************************************************************)
(* The way of one config.json from a commit to a running server: the       *)
(* policy gate of the build (tools/policy/validate_crypto_config.py and    *)
(* policy/rego/crypto_config.rego) and the server's own loader             *)
(* (app/src/AppConfig.cpp), which read the same file by different rules.   *)
(*                                                                         *)
(* The policy's rules and the loader's look-ups treat each security field  *)
(* on its own, so a behaviour follows one field, the rest being in order.  *)
(* A value is what the two programs tell apart: absent, not a string, or a *)
(* string that is empty, sound, unknown to both, weak (it allows something *)
(* on the policy's weak list), or one that only mentions what is weak: it  *)
(* has a weak name within it and allows nothing weak, as the exclusion     *)
(* !MD5 of a cipher list, or ECDSA+SHA256, in which DSA+SHA256 is found.   *)
(* A list is weak if any entry is, and mentions if none is and any does.   *)
(***************************************************************************)
EXTENDS Naturals

Strings == {"empty", "weak", "mentions", "sound", "unknown"}
Values == Strings \cup {"absent", "number"}

(* Where the file may hold a field: under its name or its former name, in  *)
(* its section or at the root.  A section may be missing, or no object.    *)
Shapes == {"object", "missing", "other"}

AppFields == {"digest_algorithm", "cipher_algorithm"}
VersionFields == {"minimum_version", "maximum_version"}
ListFields == {"tls12_cipher_list", "tls13_ciphersuites", "groups"}
TlsFields == VersionFields \cup ListFields \cup {"signature_algorithms"}
AliasedFields == VersionFields \cup {"groups", "signature_algorithms"}
RequiredTlsFields == TlsFields \ {"tls12_cipher_list"}

Places == [shape : Shapes, named : Values, legacy : Values, rootNamed : Values,
           rootLegacy : Values]

VARIABLES
  field,     \* the field followed
  config,    \* what the file says about it
  stage,     \* how far the file has come
  effective  \* the value the server uses
vars == <<field, config, stage, effective>>

(* A field without a former name has nothing under one; what is not in an  *)
(* object is nowhere.                                                      *)
Consistent ==
  /\ field \notin AliasedFields => config.legacy = "absent" /\ config.rootLegacy = "absent"
  /\ config.shape # "object" => config.named = "absent" /\ config.legacy = "absent"

Init ==
  /\ field \in AppFields \cup TlsFields /\ config \in Places /\ Consistent
  /\ stage = "commit" /\ effective = "absent"

-----------------------------------------------------------------------------
(* The policy.                                                             *)

(* object.get(section, field, ""), where section defaults to {}; undefined *)
(* when the section is no object, so that no rule of it applies.           *)
PolicyValue ==
  CASE config.shape = "missing" -> "empty"
    [] config.shape = "object" /\ config.named = "absent" -> "empty"
    [] config.shape = "object" /\ config.named # "absent" -> config.named
    [] config.shape = "other" -> "undefined"

(* Wrong: nothing is required.                                             *)
DenyWeakOnly == PolicyValue = "weak"

(* Entries of the three lists are searched for weak names; the values and  *)
(* entries of other fields are compared with them.                         *)
Deny ==
  \/ PolicyValue = "weak"
  \/ field \in ListFields /\ PolicyValue = "mentions"
  \/ field \in RequiredTlsFields /\ PolicyValue = "empty"

(* validate_crypto_config.py exits non-zero on any finding, which fails    *)
(* the job that builds the image.                                          *)
Validate ==
  /\ stage = "commit"
  /\ stage' = IF Deny THEN "blocked" ELSE "built"
  /\ UNCHANGED <<field, config, effective>>

-----------------------------------------------------------------------------
(* The loader.                                                             *)

SectionOrRoot ==
  IF config.shape = "object"
  THEN [named |-> config.named, legacy |-> config.legacy]
  ELSE [named |-> config.rootNamed, legacy |-> config.rootLegacy]

(* Wrong: the former name is looked up first.                              *)
GetStringWithLegacyFirst(section) ==
  IF section.legacy \in Strings THEN section.legacy ELSE section.named

GetStringWithAlias(section) ==
  IF section.named \in Strings THEN section.named ELSE section.legacy

LookedUp ==
  IF field \in AliasedFields THEN GetStringWithAlias(SectionOrRoot) ELSE SectionOrRoot.named

LoadConfig ==
  /\ stage = "built"
  /\ IF LookedUp \in Strings
     THEN stage' = "loaded" /\ effective' = LookedUp
     ELSE stage' = "failed" /\ UNCHANGED effective
  /\ UNCHANGED <<field, config>>

(* parseTlsVersion() knows two versions and refuses the rest.              *)
CreateTlsContext ==
  /\ stage = "loaded"
  /\ stage' = IF field \in VersionFields /\ effective # "sound" THEN "failed" ELSE "serving"
  /\ UNCHANGED <<field, config, effective>>

Next == Validate \/ LoadConfig \/ CreateTlsContext

Spec == Init /\ [][Next]_vars

-----------------------------------------------------------------------------
(* Properties.                                                             *)

(* The categorized schema of app/include/AppConfig.hpp: the section is an  *)
(* object, and what it says under the field's present name is a string.    *)
Categorized == config.shape = "object" /\ config.named \in Strings \cup {"absent"}
Declared == config.shape = "object" /\ config.named \in Strings

(* For a file of the categorized schema the gate judges the value the      *)
(* server will use, whatever former names and root keys it still carries:  *)
(* no server runs on a weak value, and one that would have run on a value  *)
(* with nothing weak in it was stopped only by the false alarm of a list   *)
(* that mentions a weak name.                                              *)
GateJudgesWhatRuns ==
  Declared =>
    /\ stage \in {"loaded", "serving"} => effective # "weak"
    /\ stage = "blocked" /\ LookedUp \in {"sound", "mentions"} =>
         LookedUp = "mentions" /\ field \in ListFields

(* A field the policy requires is one the loader finds: a file of the      *)
(* categorized schema that passed does not fail to load.                   *)
RequiredFieldsLoad ==
  Categorized /\ field \in RequiredTlsFields /\ stage = "failed" => effective \in Strings

(* Said in the repository's README.md of the gate: "The build is           *)
(* automatically blocked if any insecure configuration is detected".       *)
NoWeakServer == stage = "serving" => effective # "weak"

=============================================================================
