---------------------------- MODULE DeployProofs ----------------------------
(***************************************************************************)
(* Theorems about Deploy.tla, for every set of runs and every number of    *)
(* rounds of polling.                                                      *)
(***************************************************************************)
EXTENDS Deploy, TLAPS

USE NoneAssumption, MaxPollsAssumption, KeepAssumption

Before == {"gate", "push_sha", "push_latest", "send"}

(* A run has a round of polling left while it polls, and sends its command *)
(* once, just before it begins to poll.                                    *)
Polling ==
  \A r \in Runs : /\ pc[r] \in Before => polls[r] = 0 /\ command[r] = "none"
                  /\ pc[r] = "poll" => polls[r] < MaxPolls

(* A run gets as far as it does through the gate and the registry, and an  *)
(* image reaches the host only by way of the registry, which keeps it or   *)
(* has been given as many newer ones as it keeps.                          *)
Known(r) == r \in passed /\ (r \in images \/ newer[r] >= KeepImages)

Published ==
  /\ \A r \in Runs : pc[r] = "push_sha" => r \in passed
  /\ \A r \in Runs : pc[r] \in {"push_latest", "send"} => Known(r)
  /\ images \subseteq passed
  /\ latest # None => Known(latest)
  /\ local # None => Known(local)
  /\ container # None => Known(container)
  /\ \A r \in Runs : resolved[r] # None => Known(resolved[r])

(* What a command has behind it is there: it tags what it has resolved,    *)
(* and it runs what has been tagged.                                       *)
Supplied ==
  /\ up => container # None
  /\ \A r \in Runs : /\ command[r] \in {"none", "pull"} => resolved[r] = None
                     /\ command[r] = "tag" => resolved[r] # None
                     /\ command[r] \in {"remove", "run"} => local # None

(* A command has removed the container before it starts another.           *)
Removed ==
  /\ \A r \in Runs : started[r] # None => command[r] \in {"logs", "Success", "Failed"}
  /\ remover # None => command[remover] \in {"run", "logs", "Success", "Failed"}

(* Runs that are under way together have met. What a run finds in the      *)
(* registry after its push is its own image or one pushed since by a run   *)
(* it has met; what it finds on the host is what it tagged there, or what  *)
(* the command of a run it has met has pulled.                             *)
Own(r) == {r} \cup met[r]

From(r, image) == \/ image \in Own(r)
                  \/ \E q \in met[r] : image = resolved[q]

Acquainted ==
  /\ \A q, r \in Runs : UnderWay(q) /\ UnderWay(r) => q \in Own(r)
  /\ \A r \in Runs : /\ pc[r] = "send" \/ command[r] = "pull" => latest \in Own(r) \cup {None}
                     /\ command[r] = "tag" => resolved[r] \in Own(r)
                     /\ command[r] \in {"remove", "run"} => From(r, local)
                     /\ command[r] \in {"logs", "Success"} => From(r, started[r])
                     /\ command[r] \in {"logs", "Success"} => started[r] # None
                     /\ pc[r] = "succeeded" => command[r] = "Success"

(* The inductive invariant.                                                *)
Inductive ==
  /\ TypeOK /\ Polling /\ Published /\ Supplied /\ Removed /\ DownOnlyWhileReplaced /\ Acquainted

-----------------------------------------------------------------------------
(* The initial states satisfy the invariant.                               *)
LEMMA InitInductive == Init => Inductive
<1> SUFFICES ASSUME Init PROVE Inductive
  OBVIOUS
<1> USE DEF Init
<1>1. TypeOK
  <2>1. /\ met \in [Runs -> SUBSET Runs] /\ newer \in [Runs -> Nat]
        /\ polls \in [Runs -> 0 .. MaxPolls]
    OBVIOUS
  <2>2. /\ pc \in [Runs -> RunSteps] /\ command \in [Runs -> CommandSteps]
        /\ resolved \in [Runs -> Image] /\ started \in [Runs -> Image]
    BY DEF RunSteps, CommandSteps, Image
  <2> QED
    BY <2>1, <2>2 DEF TypeOK, Image
<1>2. Polling /\ Published /\ Supplied
  BY DEF Polling, Published, Supplied, Before
<1>3. Removed /\ DownOnlyWhileReplaced
  BY DEF Removed, DownOnlyWhileReplaced
<1>4. Acquainted
  BY DEF Acquainted, UnderWay, Working
<1> QED
  BY <1>1, <1>2, <1>3, <1>4 DEF Inductive

(* What is known of an image stays known: its commit has passed for good,  *)
(* and it leaves the registry only behind newer ones.                      *)
LEMMA StaysKnown ==
  ASSUME Inductive, passed \subseteq passed',
         \/ images' = images /\ newer' = newer
         \/ \E r \in Runs : PushSha(r) \/ Expire(r)
  PROVE  \A q \in Runs : Known(q) => Known(q)'
<1>1. newer \in [Runs -> Nat] /\ KeepImages \in Nat
  BY DEF Inductive, TypeOK
<1> SUFFICES ASSUME NEW q \in Runs, Known(q) PROVE Known(q)'
  OBVIOUS
<1>2. CASE images' = images /\ newer' = newer
  BY <1>2 DEF Known
<1>3. ASSUME NEW r \in Runs, PushSha(r) PROVE Known(q)'
  <2>1. images' = images \cup {r} /\ newer'[q] = IF q \in images THEN newer[q] + 1 ELSE newer[q]
    BY <1>3 DEF PushSha
  <2> QED
    BY <1>1, <2>1 DEF Known
<1>4. ASSUME NEW r \in Runs, Expire(r) PROVE Known(q)'
  BY <1>4 DEF Known, Expire
<1> QED
  BY <1>2, <1>3, <1>4

(* The steps of the runner keep it.                                        *)
LEMMA WorkflowInductive ==
  ASSUME Inductive, NEW r \in Runs, Workflow(r)
  PROVE  Inductive'
<1> USE DEF Inductive, RunStep, Goto, workflow, registry, host
<1>1. CASE Gate(r)
  <2>1. /\ pc[r] = "gate" /\ pc' \in {[pc EXCEPT ![r] = "push_sha"], [pc EXCEPT ![r] = "failed"]}
        /\ passed \subseteq passed' /\ passed' \subseteq passed \cup {r}
        /\ (pc'[r] = "push_sha" => r \in passed' /\ Meet(r))
        /\ (Meet(r) \/ met' = met)
        /\ UNCHANGED <<polls, images, newer, latest, command, resolved, local, container, up,
                       remover, started>>
    BY <1>1 DEF Gate, TypeOK
  <2>2. TypeOK'
    <3>1. met' \in [Runs -> SUBSET Runs]
      <4>1. ASSUME Meet(r) PROVE met' \in [Runs -> SUBSET Runs]
        <5> DEFINE new(q) == IF q = r THEN {p \in Runs \ {r} : UnderWay(p)}
                                      ELSE met[q] \cup {p \in {r} : UnderWay(q)}
        <5>1. met' = [q \in Runs |-> new(q)]
          BY <4>1 DEF Meet
        <5>2. \A q \in Runs : new(q) \in SUBSET Runs
          BY DEF TypeOK
        <5> HIDE DEF new
        <5> QED
          BY <5>1, <5>2
      <4> QED
        BY <2>1, <4>1 DEF TypeOK
    <3>2. pc' \in [Runs -> RunSteps] /\ passed' \subseteq Runs
      BY <2>1 DEF TypeOK, RunSteps
    <3> QED
      BY <2>1, <3>1, <3>2 DEF TypeOK
  <2>3. Polling' /\ Published' /\ Supplied'
    <3>1. \A q \in Runs : Known(q) => Known(q)'
      BY <2>1, StaysKnown
    <3> QED
      BY <2>1, <3>1 DEF TypeOK, Polling, Published, Supplied, Before, Image
  <2>4. Removed' /\ DownOnlyWhileReplaced'
    BY <2>1 DEF Removed, DownOnlyWhileReplaced, TypeOK, Polling, Before, Image
  <2>5. Acquainted'
    <3>1. \A q \in Runs \ {r} : UnderWay(q)' = UnderWay(q)
      BY <2>1 DEF UnderWay, TypeOK
    <3>2. ASSUME NEW q \in Runs \ {r}
          PROVE  met'[q] = met[q] \/ (UnderWay(q) /\ met'[q] = met[q] \cup {r})
      <4>1. ASSUME Meet(r) PROVE met'[q] = met[q] \/ (UnderWay(q) /\ met'[q] = met[q] \cup {r})
        BY <4>1 DEF Meet
      <4> QED
        BY <2>1, <4>1
    <3>3. pc'[r] = "push_sha" => met'[r] = {q \in Runs \ {r} : UnderWay(q)}
      BY <2>1 DEF Meet, TypeOK
    <3>4. command[r] = "none" /\ (pc'[r] = "failed" => ~UnderWay(r)')
      BY <2>1 DEF Polling, Before, UnderWay, Working, TypeOK
    <3>5. ASSUME NEW p \in Runs, NEW q \in Runs, UnderWay(p)', UnderWay(q)'
          PROVE  p \in Own(q)'
      <4>1. CASE p = q
        BY <4>1 DEF Own
      <4>2. CASE p # q /\ q = r
        <5>1. UnderWay(p) /\ pc'[r] = "push_sha"
          BY <2>1, <3>1, <3>4, <3>5, <4>2 DEF TypeOK
        <5> QED
          BY <3>3, <4>2, <5>1 DEF Own
      <4>3. CASE p # q /\ p = r
        <5>1. UnderWay(q) /\ UnderWay(r)'
          BY <3>1, <3>5, <4>3
        <5>4. pc'[r] \in {"push_sha", "failed"}
          BY <2>1 DEF TypeOK
        <5>2. Meet(r)
          BY <2>1, <3>4, <5>1, <5>4
        <5>3. met'[q] = met[q] \cup {r}
          BY <4>3, <5>1, <5>2 DEF Meet
        <5> QED
          BY <4>3, <5>3 DEF Own
      <4>4. CASE p # r /\ q # r
        <5>1. p \in Own(q)
          BY <3>1, <3>5, <4>4 DEF Acquainted
        <5> QED
          BY <3>2, <4>4, <5>1 DEF Own
      <4> QED
        BY <4>1, <4>2, <4>3, <4>4
    <3>6. \A q \in Runs \ {r} : Own(q) \subseteq Own(q)' /\ met[q] \subseteq met'[q]
      BY <3>2 DEF Own
    <3>7. \A q \in Runs \ {r} : pc'[q] = pc[q]
      BY <2>1 DEF TypeOK
    <3>8. ASSUME NEW q \in Runs \ {r}
          PROVE  /\ pc'[q] = "send" \/ command'[q] = "pull" => latest' \in Own(q)' \cup {None}
                 /\ command'[q] = "tag" => resolved'[q] \in Own(q)'
                 /\ command'[q] \in {"remove", "run"} => From(q, local)'
                 /\ command'[q] \in {"logs", "Success"} => From(q, started[q])'
                 /\ command'[q] \in {"logs", "Success"} => started'[q] # None
                 /\ pc'[q] = "succeeded" => command'[q] = "Success"
      <4>1. /\ pc[q] = "send" \/ command[q] = "pull" => latest \in Own(q) \cup {None}
            /\ command[q] = "tag" => resolved[q] \in Own(q)
            /\ command[q] \in {"logs", "Success"} => started[q] # None
            /\ pc[q] = "succeeded" => command[q] = "Success"
        BY DEF Acquainted
      <4>2. command'[q] \in {"remove", "run"} => From(q, local)'
        BY <2>1, <3>6 DEF Acquainted, From
      <4>3. command'[q] \in {"logs", "Success"} => From(q, started[q])'
        BY <2>1, <3>6 DEF Acquainted, From
      <4> QED
        BY <2>1, <3>6, <3>7, <4>1, <4>2, <4>3
    <3>9. pc'[r] \notin {"send", "succeeded"} /\ command'[r] = "none"
      BY <2>1, <3>4 DEF TypeOK
    <3> QED
      BY <3>5, <3>8, <3>9 DEF Acquainted
  <2> QED
    BY <2>2, <2>3, <2>4, <2>5
<1>2. CASE PushSha(r)
  <2>1. /\ pc[r] = "push_sha" /\ pc' = [pc EXCEPT ![r] = "push_latest"]
        /\ images' = images \cup {r}
        /\ newer' = [q \in Runs |-> IF q \in images THEN newer[q] + 1 ELSE newer[q]]
        /\ UNCHANGED <<polls, passed, met, latest, command, resolved, local, container, up,
                       remover, started>>
    BY <1>2 DEF PushSha
  <2>2. TypeOK'
    BY <2>1 DEF TypeOK, RunSteps
  <2>3. Polling' /\ Published' /\ Supplied'
    <3>1. \A q \in Runs : Known(q) => Known(q)'
      BY <1>2, <2>1, StaysKnown
    <3>2. Known(r)'
      BY <2>1 DEF Known, Published
    <3> QED
      BY <2>1, <3>1, <3>2 DEF TypeOK, Polling, Published, Supplied, Before, Image
  <2>4. Removed' /\ DownOnlyWhileReplaced'
    BY <2>1 DEF Removed, DownOnlyWhileReplaced, TypeOK, Polling, Before, Image
  <2>5. Acquainted'
    BY <2>1 DEF TypeOK, Acquainted, Own, From, UnderWay, Working
  <2> QED
    BY <2>2, <2>3, <2>4, <2>5
<1>3. CASE PushLatest(r)
  <2>1. /\ pc[r] = "push_latest" /\ pc' = [pc EXCEPT ![r] = "send"] /\ latest' = r
        /\ UNCHANGED <<polls, passed, met, images, newer, command, resolved, local, container,
                       up, remover, started>>
    BY <1>3 DEF PushLatest
  <2>2. TypeOK'
    BY <2>1 DEF TypeOK, RunSteps, Image
  <2>3. Polling' /\ Published' /\ Supplied'
    BY <2>1 DEF TypeOK, Polling, Published, Known, Supplied, Before, Image
  <2>4. Removed' /\ DownOnlyWhileReplaced'
    BY <2>1 DEF Removed, DownOnlyWhileReplaced, TypeOK, Polling, Before, Image
  <2>5. Acquainted'
    <3>1. UnderWay(r)
      BY <2>1 DEF UnderWay
    <3>2. \A q \in Runs : /\ UnderWay(q)' = UnderWay(q) /\ Own(q)' = Own(q)
                          /\ \A image : From(q, image)' = From(q, image)
      BY <2>1 DEF UnderWay, Own, From, TypeOK
    <3>3. \A q \in Runs : pc'[q] = "send" \/ command'[q] = "pull" => latest' \in Own(q)'
      BY <2>1, <3>1, <3>2 DEF Acquainted, UnderWay, Working, TypeOK
    <3> QED
      BY <2>1, <3>2, <3>3 DEF Acquainted, TypeOK
  <2> QED
    BY <2>2, <2>3, <2>4, <2>5
<1>4. CASE SendCommand(r)
  <2>1. /\ pc[r] = "send" /\ pc' = [pc EXCEPT ![r] = "poll"]
        /\ command' = [command EXCEPT ![r] = "pull"] /\ command[r] = "none"
        /\ UNCHANGED <<polls, passed, met, images, newer, latest, resolved, local, container, up,
                       remover, started>>
    BY <1>4 DEF SendCommand, Polling, Before
  <2>2. TypeOK'
    BY <2>1 DEF TypeOK, RunSteps, CommandSteps, Working
  <2>3. Polling' /\ Published' /\ Supplied'
    BY <2>1 DEF TypeOK, Polling, Published, Known, Supplied, Before
  <2>4. Removed' /\ DownOnlyWhileReplaced'
    BY <2>1 DEF Removed, DownOnlyWhileReplaced, TypeOK, Polling, Before, Image
  <2>5. Acquainted'
    BY <2>1 DEF TypeOK, Acquainted, Own, From, UnderWay, Working
  <2> QED
    BY <2>2, <2>3, <2>4, <2>5
<1>5. CASE StepFails(r)
  <2>1. /\ pc[r] \in {"push_sha", "push_latest", "send"} /\ pc' = [pc EXCEPT ![r] = "failed"]
        /\ UNCHANGED <<polls, passed, met, images, newer, latest, command, resolved, local,
                       container, up, remover, started>>
    BY <1>5 DEF StepFails
  <2>2. TypeOK'
    BY <2>1 DEF TypeOK, RunSteps
  <2>3. Polling' /\ Published' /\ Supplied'
    BY <2>1 DEF TypeOK, Polling, Published, Known, Supplied, Before
  <2>4. Removed' /\ DownOnlyWhileReplaced'
    BY <2>1 DEF Removed, DownOnlyWhileReplaced, TypeOK, Polling, Before, Image
  <2>5. Acquainted'
    BY <2>1 DEF TypeOK, Acquainted, Own, From, UnderWay, Working
  <2> QED
    BY <2>2, <2>3, <2>4, <2>5
<1>6. CASE Poll(r)
  <2>1. /\ pc[r] = "poll"
        /\ \/ pc' = pc \/ pc' = [pc EXCEPT ![r] = "failed"]
           \/ pc' = [pc EXCEPT ![r] = "succeeded"] /\ command[r] = "Success"
        /\ \/ polls' = polls /\ pc'[r] # "poll"
           \/ /\ polls' = [polls EXCEPT ![r] = @ + 1]
              /\ pc'[r] = "poll" => polls[r] + 1 < MaxPolls
        /\ UNCHANGED <<passed, met, images, newer, latest, command, resolved, local, container,
                       up, remover, started>>
    BY <1>6 DEF Poll, Waiting, TypeOK
  <2>2. polls[r] \in 0 .. MaxPolls /\ polls[r] < MaxPolls
    BY <2>1 DEF TypeOK, Polling
  <2>3. TypeOK'
    BY <2>1, <2>2 DEF TypeOK, RunSteps
  <2>4. Polling'
    BY <2>1, <2>2 DEF TypeOK, Polling, Before
  <2>5. Published' /\ Supplied'
    BY <2>1 DEF TypeOK, Published, Known, Supplied
  <2>6. Removed' /\ DownOnlyWhileReplaced'
    BY <2>1 DEF Removed, DownOnlyWhileReplaced
  <2>7. Acquainted'
    BY <2>1 DEF Acquainted, Own, From, TypeOK, UnderWay
  <2> QED
    BY <2>3, <2>4, <2>5, <2>6, <2>7
<1> QED
  BY <1>1, <1>2, <1>3, <1>4, <1>5, <1>6 DEF Workflow

(* So does the registry's lifecycle policy.                                *)
LEMMA ExpireInductive ==
  ASSUME Inductive, NEW r \in Runs, Expire(r)
  PROVE  Inductive'
<1> USE DEF Inductive, workflow, host
<1>1. /\ r \in images /\ images' = images \ {r} /\ latest' \in {latest, None}
      /\ UNCHANGED <<pc, polls, passed, met, newer, command, resolved, local, container, up,
                     remover, started>>
  BY DEF Expire
<1>2. TypeOK'
  BY <1>1 DEF TypeOK, Image
<1>3. \A q \in Runs : Known(q) => Known(q)'
  BY <1>1, StaysKnown
<1>4. Polling' /\ Published' /\ Supplied'
  BY <1>1, <1>3 DEF TypeOK, Image, Polling, Published, Supplied
<1>5. Removed' /\ DownOnlyWhileReplaced'
  BY <1>1 DEF Removed, DownOnlyWhileReplaced
<1>6. Acquainted'
  BY <1>1 DEF Acquainted, Own, From, UnderWay
<1> QED
  BY <1>2, <1>4, <1>5, <1>6

(* The steps of a command keep it.                                         *)
LEMMA CommandInductive ==
  ASSUME Inductive, NEW r \in Runs, Command(r)
  PROVE  Inductive'
<1> USE DEF Inductive, CommandStep, workflow, registry, host
<1>1. CASE Pull(r)
  <2>1. /\ command[r] = "pull" /\ command' = [command EXCEPT ![r] = "tag"] /\ latest # None
        /\ resolved' = [resolved EXCEPT ![r] = latest] /\ resolved[r] = None
        /\ UNCHANGED <<pc, polls, passed, met, images, newer, latest, local, container, up,
                       remover, started>>
    BY <1>1 DEF Pull, Supplied
  <2>2. TypeOK'
    BY <2>1 DEF TypeOK, CommandSteps, Working
  <2>3. Polling' /\ Published' /\ Supplied'
    BY <2>1 DEF TypeOK, Polling, Published, Known, Supplied, Before, Image
  <2>4. Removed' /\ DownOnlyWhileReplaced'
    BY <2>1 DEF Removed, DownOnlyWhileReplaced, TypeOK, Polling, Before, Image
  <2>5. Acquainted'
    <3>1. \A q \in Runs : UnderWay(q)' = UnderWay(q) /\ Own(q)' = Own(q)
      BY <2>1 DEF UnderWay, Own, Working, TypeOK
    <3>2. ASSUME NEW q \in Runs, NEW image, image # None, From(q, image)
          PROVE  image \in Own(q)' \/ \E p \in met'[q] : image = resolved'[p]
      BY <2>1, <3>2 DEF TypeOK, From, Own
    <3>3. resolved'[r] \in Own(r)'
      BY <2>1, <3>1 DEF Acquainted, TypeOK
    <3>4. \A q \in Runs : /\ command'[q] \in {"remove", "run"} => From(q, local)'
                          /\ command'[q] \in {"logs", "Success"} => From(q, started[q])'
      BY <2>1, <3>2 DEF Acquainted, From, Supplied, TypeOK
    <3> QED
      BY <2>1, <3>1, <3>3, <3>4 DEF Acquainted, TypeOK
  <2> QED
    BY <2>2, <2>3, <2>4, <2>5
<1>2. CASE Tag(r)
  <2>1. /\ command[r] = "tag" /\ command' = [command EXCEPT ![r] = "remove"]
        /\ local' = resolved[r]
        /\ UNCHANGED <<pc, polls, passed, met, images, newer, latest, resolved, container, up,
                       remover, started>>
    BY <1>2 DEF Tag
  <2>2. TypeOK'
    BY <2>1 DEF TypeOK, CommandSteps, Working
  <2>3. Polling' /\ Published' /\ Supplied'
    BY <2>1 DEF TypeOK, Polling, Published, Known, Supplied, Before, Image
  <2>4. Removed' /\ DownOnlyWhileReplaced'
    BY <2>1 DEF Removed, DownOnlyWhileReplaced, TypeOK, Polling, Before, Image
  <2>5. Acquainted'
    <3>1. \A q \in Runs : /\ UnderWay(q)' = UnderWay(q) /\ Own(q)' = Own(q)
                          /\ \A image : From(q, image)' = From(q, image)
      BY <2>1 DEF UnderWay, Own, From, Working, TypeOK
    <3>2. ASSUME NEW q \in Runs, command'[q] \in {"remove", "run"} PROVE From(q, resolved[r])
      <4>1. CASE q = r
        BY <2>1, <4>1 DEF Acquainted, From
      <4>2. CASE q # r
        <5>1. UnderWay(q) /\ UnderWay(r)
          BY <2>1, <3>2, <4>2 DEF UnderWay, Working, TypeOK
        <5>2. r \in met[q]
          BY <4>2, <5>1 DEF Acquainted, Own
        <5> QED
          BY <5>2 DEF From
      <4> QED
        BY <4>1, <4>2
    <3>3. \A q \in Runs : command'[q] \in {"remove", "run"} => From(q, local)'
      BY <2>1, <3>1, <3>2 DEF From, Own
    <3> QED
      BY <2>1, <3>1, <3>3 DEF Acquainted, TypeOK
  <2> QED
    BY <2>2, <2>3, <2>4, <2>5
<1>3. CASE Remove(r)
  <2>1. /\ command[r] = "remove" /\ command' = [command EXCEPT ![r] = "run"]
        /\ \/ container' = None /\ up' = FALSE /\ remover' = r
           \/ UNCHANGED <<container, up, remover>>
        /\ UNCHANGED <<pc, polls, passed, met, images, newer, latest, resolved, local, started>>
    BY <1>3 DEF Remove
  <2>2. TypeOK'
    BY <2>1 DEF TypeOK, CommandSteps, Working, Image
  <2>3. Polling' /\ Published' /\ Supplied'
    BY <2>1 DEF TypeOK, Polling, Published, Known, Supplied, Before, Image
  <2>4. Removed' /\ DownOnlyWhileReplaced'
    BY <2>1 DEF Removed, DownOnlyWhileReplaced, TypeOK, Polling, Before, Image
  <2>5. Acquainted'
    BY <2>1 DEF TypeOK, Acquainted, Own, From, UnderWay, Working
  <2> QED
    BY <2>2, <2>3, <2>4, <2>5
<1>4. CASE Run(r)
  <2>1. /\ command[r] = "run" /\ command' = [command EXCEPT ![r] = "logs"]
        /\ container' = local /\ up' = TRUE /\ started' = [started EXCEPT ![r] = local]
        /\ UNCHANGED <<pc, polls, passed, met, images, newer, latest, resolved, local, remover>>
    BY <1>4 DEF Run
  <2>2. TypeOK'
    BY <2>1 DEF TypeOK, CommandSteps, Working
  <2>3. Polling' /\ Published' /\ Supplied'
    BY <2>1 DEF TypeOK, Polling, Published, Known, Supplied, Before, Image
  <2>4. Removed' /\ DownOnlyWhileReplaced'
    BY <2>1 DEF Removed, DownOnlyWhileReplaced, Supplied, TypeOK, Image
  <2>5. Acquainted'
    <3>1. \A q \in Runs : /\ UnderWay(q)' = UnderWay(q) /\ Own(q)' = Own(q)
                          /\ \A image : From(q, image)' = From(q, image)
      BY <2>1 DEF UnderWay, Own, From, Working, TypeOK
    <3>2. From(r, local) /\ local # None /\ started'[r] = local
      BY <2>1 DEF Acquainted, Supplied, TypeOK
    <3>3. \A q \in Runs : /\ command'[q] \in {"remove", "run"} => From(q, local)
                          /\ command'[q] \in {"logs", "Success"} =>
                               From(q, started'[q]) /\ started'[q] # None
      BY <2>1, <3>2 DEF Acquainted, TypeOK
    <3>4. \A q \in Runs : /\ command'[q] \in {"remove", "run"} => From(q, local)'
                          /\ command'[q] \in {"logs", "Success"} => From(q, started[q])'
      BY <2>1, <3>1, <3>3 DEF From, Own
    <3> QED
      BY <2>1, <3>1, <3>3, <3>4 DEF Acquainted, TypeOK
  <2> QED
    BY <2>2, <2>3, <2>4, <2>5
<1>5. ASSUME NEW to \in {"Failed", "Success"}, command[r] \in Working,
             command' = [command EXCEPT ![r] = to],
             to = "Success" => command[r] = "logs",
             \/ container' = container
             \/ container = None /\ container' = local /\ command[r] = "run",
             UNCHANGED <<pc, polls, passed, met, images, newer, latest, resolved, local, up,
                         remover,
                         started>>
      PROVE  Inductive'
  <2>1. TypeOK'
    BY <1>5 DEF TypeOK, CommandSteps
  <2>2. Polling' /\ Published' /\ Supplied'
    BY <1>5 DEF TypeOK, Polling, Published, Known, Supplied, Before, Working
  <2>3. Removed' /\ DownOnlyWhileReplaced'
    BY <1>5 DEF Removed, DownOnlyWhileReplaced, Supplied, TypeOK, Image
  <2>4. Acquainted'
    BY <1>5 DEF Acquainted, Own, From, TypeOK, UnderWay, Working
  <2> QED
    BY <2>1, <2>2, <2>3, <2>4
<1>6. CASE NameTaken(r) \/ StartFails(r) \/ CommandFails(r)
  <2>1. /\ command[r] \in Working /\ command' = [command EXCEPT ![r] = "Failed"]
        /\ \/ container' = container
           \/ container = None /\ container' = local /\ command[r] = "run"
        /\ UNCHANGED <<pc, polls, passed, met, images, newer, latest, resolved, local, up, remover,
                       started>>
    BY <1>6 DEF NameTaken, StartFails, CommandFails, Working
  <2>2. "Failed" = "Success" => command[r] = "logs"
    OBVIOUS
  <2> QED
    BY <1>5, <2>1, <2>2
<1>7. CASE Logs(r)
  <2>1. /\ command[r] = "logs" /\ container' = container
        /\ \/ command' = [command EXCEPT ![r] = "Failed"]
           \/ command' = [command EXCEPT ![r] = "Success"]
        /\ UNCHANGED <<pc, polls, passed, met, images, newer, latest, resolved, local, up, remover,
                       started>>
    BY <1>7 DEF Logs
  <2>2. command[r] \in Working
    BY <2>1 DEF Working
  <2> QED
    BY <1>5, <2>1, <2>2
<1> QED
  BY <1>1, <1>2, <1>3, <1>4, <1>6, <1>7 DEF Command

-----------------------------------------------------------------------------
(* The inductive invariant holds in every reachable state.                 *)
THEOREM InductiveInvariant == Spec => []Inductive
<1>1. Init => Inductive
  BY InitInductive
<1>2. Inductive /\ UNCHANGED vars => Inductive'
  BY DEF vars, workflow, registry, host, Inductive, TypeOK, Polling, Published, Known, Supplied,
         Removed, DownOnlyWhileReplaced, Acquainted, Own, From, UnderWay
<1>3. Inductive /\ Next => Inductive'
  BY WorkflowInductive, CommandInductive, ExpireInductive DEF Next
<1> QED
  BY <1>1, <1>2, <1>3, PTL DEF Spec

(* Every variable stays within its range.                                  *)
THEOREM TypeCorrect == Spec => []TypeOK
<1>1. Inductive => TypeOK
  BY DEF Inductive
<1> QED
  BY <1>1, InductiveInvariant, PTL

(* Whatever runs overlap and give up, the host runs nothing that did not   *)
(* pass the policy gate, and nothing that was not pushed under the tag of  *)
(* its commit, however many images the registry keeps.                     *)
THEOREM HostRunsGatedImages == Spec => []OnlyGatedImagesRun
<1>1. Inductive => OnlyGatedImagesRun
  BY DEF Inductive, Published, Known, OnlyGatedImagesRun
<1> QED
  BY <1>1, InductiveInvariant, PTL

(* The service is down only while the command that removed it last is      *)
(* about to start it, or after that command failed.                        *)
THEOREM DownBriefly == Spec => []DownOnlyWhileReplaced
<1>1. Inductive => DownOnlyWhileReplaced
  BY DEF Inductive
<1> QED
  BY <1>1, InductiveInvariant, PTL

(* A run that succeeded has started its own commit's image, or that of a   *)
(* run it has met, or what the command of such a run had pulled.           *)
THEOREM ForeignImagesWereMet == Spec => []ForeignImageWasMet
<1>1. Inductive => ForeignImageWasMet
  BY DEF Inductive, Acquainted, From, Own, ForeignImageWasMet
<1> QED
  BY <1>1, InductiveInvariant, PTL

=============================================================================
