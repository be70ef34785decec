-------------------------- MODULE TelemetryProofs --------------------------
(***************************************************************************)
(* Theorems about Telemetry.tla, for every set of runs and of branches,    *)
(* every number of launches and of rounds of polling.                      *)
(***************************************************************************)
EXTENDS Telemetry, WellFoundedInduction, TLAPS

USE RunsAssumption, MaxPollsAssumption, MaxInstancesAssumption

Early == {"queued", "resolve", "send"}
Idle == Over \cup {"queued"}

(* The runs whose work a run may find in its directory: its own, and that  *)
(* of the runs it met on the host.                                         *)
Near(r) == {r} \cup met[r]

(* How far a run is, and what it has in hand there: a command once it has  *)
(* sent one, one that succeeded once it has asked, whole results once it   *)
(* has looked at them.                                                     *)
Progress ==
  \A r \in Runs : /\ pc[r] \in Early => command[r] = "none" /\ polls[r] = 0
                  /\ pc[r] = "poll" => polls[r] < MaxPolls
                  /\ pc[r] \in {"extract", "collect", "done"} => command[r] = "Success"
                  /\ pc[r] \in {"collect", "done"} => fetched[r].kind = "whole"

(* One active run for each branch.                                         *)
Exclusive ==
  \A q, r \in Runs : branch[q] = branch[r] /\ q # r => pc[q] \in Idle \/ pc[r] \in Idle

(* Runs have met if, and only if, their commands were on one instance at   *)
(* one time.                                                               *)
Encounters ==
  /\ \A r \in Runs : AtWork(r) => target[r] \in up
  /\ \A r \in Runs : \A q \in met[r] :
       q # r /\ target[q] = target[r] /\ command[q] # "none" /\ command[r] # "none"
  /\ \A q, r \in Runs : AtWork(q) /\ AtWork(r) /\ target[q] = target[r] /\ q # r => q \in met[r]

(* Once a command has cleaned the directory it finds in it only its own    *)
(* work and that of commands it has met.                                   *)
Workplace ==
  /\ \A r \in Runs : AtWork(r) /\ command[r] # "clean" =>
       /\ code[target[r]] # None => code[target[r]] \in Near(r)
       /\ file[target[r]].kind = "whole" => file[target[r]].by \in Near(r)
  /\ \A r \in Runs : command[r] \in {"open", "write"} => ran[r] \in Near(r)

(* Whole results have been written by a run with the code of a run it met, *)
(* or its own.                                                             *)
Signed(result) == result.kind = "whole" => result.by \in Runs /\ result.code \in Near(result.by)

Provenance ==
  /\ \A i \in Instances : Signed(file[i])
  /\ \A r \in Runs : \A result \in {output[r], fetched[r]} :
       result.kind = "whole" => /\ command[r] # "none"
                                /\ result.by \in Near(r) /\ result.code \in Near(result.by)

(* The inductive invariant.                                                *)
Inductive ==
  /\ TypeOK /\ Progress /\ Exclusive /\ Encounters /\ Workplace /\ Provenance
  /\ BranchesAreSerial /\ NeverAnOlderDevice

-----------------------------------------------------------------------------
(* Every non-empty set of natural numbers has a least element.             *)
LEMMA LeastNatural ==
  ASSUME NEW T \in SUBSET Nat, T # {}
  PROVE  \E m \in T : \A k \in T : m <= k
<1> DEFINE R == OpToRel(<, Nat)
<1>1. \A x, y \in Nat : <<x, y>> \in R <=> x < y
  BY DEF OpToRel
<1>2. IsWellFoundedOn(R, Nat)
  BY NatLessThanWellFounded
<1> HIDE DEF R
<1>3. PICK m \in T : \A y \in T : <<y, m>> \notin R
  BY <1>2, WFMin
<1>4. ASSUME NEW k \in T PROVE m <= k
  <2>1. ~ k < m
    BY <1>1, <1>3
  <2> QED
    BY <2>1
<1> QED
  BY <1>4

(* So a non-empty set of numbers up to n has a greatest, which Max chooses. *)
LEMMA MaxOfBounded ==
  ASSUME NEW n \in Nat, NEW S \in SUBSET (1 .. n), S # {}
  PROVE  Max(S) \in S /\ \A x \in S : x <= Max(S)
<1> DEFINE Above == {k \in Nat : \A x \in S : x <= k}
<1>1. n \in Above
  OBVIOUS
<1>2. PICK m \in Above : \A k \in Above : m <= k
  <2> HIDE DEF Above
  <2>1. Above \in SUBSET Nat
    BY DEF Above
  <2> QED
    BY <1>1, <2>1, LeastNatural
<1>3. m \in Nat /\ \A x \in S : x \in Nat /\ x <= m
  OBVIOUS
<1>4. m \in S
  <2> SUFFICES ASSUME m \notin S PROVE FALSE
    OBVIOUS
  <2>1. \A x \in S : x <= m - 1
    BY <1>3
  <2>2. m - 1 \in Nat
    <3>1. PICK x \in S : TRUE
      OBVIOUS
    <3> QED
      BY <1>3, <2>1, <3>1
  <2> QED
    BY <1>2, <2>1, <2>2
<1>5. \E x \in S : \A y \in S : x >= y
  BY <1>3, <1>4
<1> QED
  BY <1>3, <1>5 DEF Max

(* The instance that is looked up is up, and none that is up is younger.   *)
LEMMA YoungestIsUp ==
  ASSUME TypeOK, up # {}
  PROVE  Max(up) \in up /\ Max(up) \in 0 .. launched /\ \A i \in up : i <= Max(up)
<1>1. launched \in Nat /\ up \in SUBSET (1 .. launched)
  BY DEF TypeOK
<1> DEFINE youngest == Max(up)
<1>2. youngest \in up /\ \A i \in up : i <= youngest
  BY <1>1, MaxOfBounded
<1> HIDE DEF youngest
<1>3. youngest \in 0 .. launched
  BY <1>1, <1>2
<1> QED
  BY <1>2, <1>3 DEF youngest

(* The instances that are up are among those that may be launched.         *)
LEMMA UpInstances == TypeOK => up \subseteq Instances /\ launched \in Nat
BY DEF TypeOK, Instances

(* The record of no results, and that of broken ones, are results.         *)
LEMMA NoResults ==
  /\ Nothing \in Results /\ Broken \in Results
  /\ Nothing.kind # "whole" /\ Broken.kind # "whole" /\ Broken.kind # "none"
BY DEF Nothing, Broken, Results

(* The initial states satisfy the invariant.                               *)
LEMMA InitInductive == Init => Inductive
<1> SUFFICES ASSUME Init PROVE Inductive
  OBVIOUS
<1> USE DEF Init
<1>1. TypeOK
  BY NoResults DEF TypeOK, RunSteps, CommandSteps, Instances
<1>2. Progress /\ Exclusive
  BY DEF Progress, Exclusive, Idle, Early
<1>3. Encounters /\ Workplace /\ Provenance
  BY NoResults DEF Encounters, Workplace, Provenance, Signed, AtWork
<1>4. BranchesAreSerial /\ NeverAnOlderDevice
  BY DEF BranchesAreSerial, NeverAnOlderDevice
<1> QED
  BY <1>1, <1>2, <1>3, <1>4 DEF Inductive

-----------------------------------------------------------------------------
(* A step of the runner that leaves the host and the target alone.         *)
LEMMA RunnerStep ==
  ASSUME Inductive, NEW r \in Runs, NEW to \in RunSteps,
         UNCHANGED <<launched, up, branch, target, commands, hosts, met>>,
         pc[r] \notin Over, pc' = [pc EXCEPT ![r] = to],
         to \in Idle \/ \A q \in Runs \ {r} : branch[q] = branch[r] => pc[q] \in Idle,
         polls' \in [Runs -> 0 .. MaxPolls],
         fetched' \in {fetched, [fetched EXCEPT ![r] = Nothing], [fetched EXCEPT ![r] = output[r]]},
         device' \in [Runs -> 0 .. launched],
         Progress', NeverAnOlderDevice'
  PROVE  Inductive'
<1> USE DEF Inductive, commands, hosts
<1>1. TypeOK'
  <2>1. fetched' \in [Runs -> Results]
    BY NoResults DEF TypeOK
  <2>2. \A maker \in {cwd', handle', ran'} : maker \in [Runs -> Runs \cup {None}]
    BY DEF TypeOK
  <2>3. pc' \in [Runs -> RunSteps]
    BY DEF TypeOK
  <2> QED
    BY <2>1, <2>2, <2>3 DEF TypeOK
<1>2. Exclusive'
  BY DEF Exclusive, TypeOK
<1>3. Encounters' /\ Workplace'
  BY DEF Encounters, Workplace, AtWork, Near
<1>4. Provenance'
  <2>1. (\A i \in Instances : Signed(file[i]))'
    BY DEF Provenance, Signed, Near
  <2>2. ASSUME NEW q \in Runs, NEW result \in {output'[q], fetched'[q]}, result.kind = "whole"
        PROVE  /\ command'[q] # "none"
               /\ result.by \in Near(q)' /\ result.code \in Near(result.by)'
    <3>1. result \in {output[q], fetched[q]}
      BY <2>2, NoResults DEF TypeOK
    <3> QED
      BY <2>2, <3>1 DEF Provenance, Near
  <2> QED
    BY <2>1, <2>2 DEF Provenance
<1>5. BranchesAreSerial'
  BY DEF BranchesAreSerial, TypeOK, Over
<1> QED
  BY <1>1, <1>2, <1>3, <1>4, <1>5

(* A run that fails, at any of its steps.                                  *)
LEMMA FailInductive ==
  ASSUME Inductive, NEW r \in Runs, NEW from \in RunSteps \ Idle, Fail(r, from)
  PROVE  Inductive'
<1>1. /\ pc[r] = from /\ pc' = [pc EXCEPT ![r] = "failed"]
      /\ polls' = [polls EXCEPT ![r] = 0] /\ fetched' = [fetched EXCEPT ![r] = Nothing]
      /\ UNCHANGED <<launched, up, branch, target, device, commands, hosts, met>>
  BY DEF Fail, RunStep
<1>2. polls' \in [Runs -> 0 .. MaxPolls] /\ device' \in [Runs -> 0 .. launched]
  BY <1>1 DEF Inductive, TypeOK
<1>3. Progress'
  BY <1>1 DEF Inductive, TypeOK, Progress, Early, commands
<1>4. NeverAnOlderDevice'
  BY <1>1 DEF Inductive, TypeOK, NeverAnOlderDevice
<1> QED
  BY <1>1, <1>2, <1>3, <1>4, RunnerStep DEF Idle, Over, RunSteps

(* A run that goes on to its next step.                                    *)
LEMMA GoOnInductive ==
  ASSUME Inductive, NEW r \in Runs,
         \/ Start(r) \/ Poll(r) \/ FetchOutput(r) \/ FinalStatus(r) \/ Extract(r) \/ Collect(r)
  PROVE  Inductive'
<1> USE DEF RunStep, RunSteps, Idle, Over
<1>1. /\ polls \in [Runs -> 0 .. MaxPolls] /\ device \in [Runs -> 0 .. launched]
      /\ pc \in [Runs -> RunSteps] /\ MaxPolls \in Nat
  BY DEF Inductive, TypeOK
<1>2. ASSUME pc[r] \notin Idle
      PROVE  \A q \in Runs \ {r} : branch[q] = branch[r] => pc[q] \in Idle
  BY <1>2 DEF Inductive, Exclusive
<1>3. CASE Start(r)
  <2>1. /\ pc[r] = "queued" /\ pc' = [pc EXCEPT ![r] = "resolve"]
        /\ UNCHANGED <<launched, up, branch, polls, target, fetched, device, commands, hosts, met>>
        /\ \A q \in Runs \ {r} : branch[q] = branch[r] => pc[q] \in Idle
    BY <1>3 DEF Start
  <2>2. Progress' /\ NeverAnOlderDevice'
    BY <1>1, <2>1 DEF Inductive, Progress, NeverAnOlderDevice, Early, commands
  <2> QED
    BY <1>1, <2>1, <2>2, RunnerStep
<1>4. CASE Poll(r)
  <2>1. /\ pc[r] = "poll" /\ polls[r] < MaxPolls
        /\ UNCHANGED <<launched, up, branch, target, fetched, device, commands, hosts, met>>
        /\ \/ pc' = [pc EXCEPT ![r] = "fetch"] /\ polls' = polls
           \/ pc' = [pc EXCEPT ![r] = "fetch"] /\ polls' = [polls EXCEPT ![r] = @ + 1]
           \/ /\ pc' = [pc EXCEPT ![r] = "poll"] /\ polls' = [polls EXCEPT ![r] = @ + 1]
              /\ polls[r] + 1 < MaxPolls
    BY <1>4 DEF Poll, Inductive, Progress
  <2>2. polls' \in [Runs -> 0 .. MaxPolls]
    BY <1>1, <2>1
  <2>3. Progress'
    BY <1>1, <2>1 DEF Inductive, Progress, Early, commands
  <2>4. NeverAnOlderDevice'
    BY <1>1, <2>1 DEF Inductive, NeverAnOlderDevice
  <2> QED
    BY <1>1, <1>2, <2>1, <2>2, <2>3, <2>4, RunnerStep
<1>5. CASE FetchOutput(r)
  <2>1. /\ pc[r] = "fetch" /\ pc' = [pc EXCEPT ![r] = "status"]
        /\ fetched' = [fetched EXCEPT ![r] = output[r]]
        /\ UNCHANGED <<launched, up, branch, polls, target, device, commands, hosts, met>>
    BY <1>5 DEF FetchOutput
  <2>2. Progress' /\ NeverAnOlderDevice'
    BY <1>1, <2>1 DEF Inductive, TypeOK, Progress, NeverAnOlderDevice, Early, commands
  <2> QED
    BY <1>1, <1>2, <2>1, <2>2, RunnerStep
<1>6. CASE FinalStatus(r)
  <2>1. CASE Fail(r, "status")
    BY <2>1, FailInductive
  <2>2. CASE ~Fail(r, "status")
    <3>1. /\ pc[r] = "status" /\ pc' = [pc EXCEPT ![r] = "extract"] /\ command[r] = "Success"
          /\ UNCHANGED <<launched, up, branch, polls, target, fetched, device, commands, hosts, met>>
      BY <1>6, <2>2 DEF FinalStatus
    <3>2. Progress' /\ NeverAnOlderDevice'
      BY <1>1, <3>1 DEF Inductive, Progress, NeverAnOlderDevice, Early, commands
    <3> QED
      BY <1>1, <1>2, <3>1, <3>2, RunnerStep
  <2> QED
    BY <2>1, <2>2
<1>7. CASE Extract(r)
  <2>1. CASE Fail(r, "extract")
    BY <2>1, FailInductive
  <2>2. CASE ~Fail(r, "extract")
    <3>1. /\ pc[r] = "extract" /\ pc' = [pc EXCEPT ![r] = "collect"] /\ fetched[r].kind = "whole"
          /\ UNCHANGED <<launched, up, branch, polls, target, fetched, device, commands, hosts, met>>
      BY <1>7, <2>2 DEF Extract
    <3>2. Progress' /\ NeverAnOlderDevice'
      BY <1>1, <3>1 DEF Inductive, Progress, NeverAnOlderDevice, Early, commands
    <3> QED
      BY <1>1, <1>2, <3>1, <3>2, RunnerStep
  <2> QED
    BY <2>1, <2>2
<1>8. CASE Collect(r)
  <2>1. CASE Fail(r, "collect")
    BY <2>1, FailInductive
  <2>2. CASE ~Fail(r, "collect")
    <3>1. /\ pc[r] = "collect" /\ pc' = [pc EXCEPT ![r] = "done"] /\ up # {}
          /\ device' = [device EXCEPT ![r] = Max(up)]
          /\ UNCHANGED <<launched, up, branch, polls, target, fetched, commands, hosts, met>>
      BY <1>8, <2>2 DEF Collect, MostRecentlyLaunched
    <3>2. Max(up) \in 0 .. launched /\ \A i \in up : i <= Max(up)
      BY <3>1, YoungestIsUp DEF Inductive
    <3>3. launched \in Nat /\ up \subseteq Nat
      BY DEF Inductive, TypeOK
    <3> DEFINE youngest == Max(up)
    <3> HIDE DEF youngest
    <3>4. /\ device' = [device EXCEPT ![r] = youngest]
          /\ youngest \in 0 .. launched /\ \A i \in up : i <= youngest
      BY <3>1, <3>2 DEF youngest
    <3>5. device' \in [Runs -> 0 .. launched]
      BY <1>1, <3>4
    <3>6. NeverAnOlderDevice'
      BY <1>1, <3>1, <3>3, <3>4 DEF Inductive, NeverAnOlderDevice
    <3>7. Progress'
      BY <1>1, <3>1 DEF Inductive, Progress, Early, commands
    <3> QED
      BY <1>1, <3>1, <3>5, <3>6, <3>7, RunnerStep
  <2> QED
    BY <2>1, <2>2
<1> QED
  BY <1>3, <1>4, <1>5, <1>6, <1>7, <1>8

-----------------------------------------------------------------------------
(* The first look-up decides the target, before there is a command.        *)
LEMMA ResolveInductive == ASSUME Inductive, NEW r \in Runs, Resolve(r) PROVE Inductive'
<1> USE DEF Inductive, RunStep
<1>1. CASE Fail(r, "resolve")
  BY <1>1, FailInductive DEF RunSteps, Idle, Over
<1>2. CASE ~Fail(r, "resolve")
  <2> DEFINE youngest == Max(up)
  <2>1. /\ pc[r] = "resolve" /\ pc' = [pc EXCEPT ![r] = "send"] /\ up # {}
        /\ target' = [target EXCEPT ![r] = youngest]
        /\ UNCHANGED <<launched, up, branch, polls, fetched, device, commands, hosts, met>>
    BY <1>2 DEF Resolve
  <2>2. youngest \in 0 .. launched
    BY <2>1, YoungestIsUp
  <2> HIDE DEF youngest
  <2>3. command[r] = "none" /\ met[r] = {} /\ \A q \in Runs : r \notin met[q]
    BY <2>1 DEF Progress, Early, Encounters, TypeOK
  <2> USE DEF commands, hosts
  <2>4. TypeOK'
    <3>1. target' \in [Runs -> 0 .. launched] /\ pc' \in [Runs -> RunSteps]
      BY <2>1, <2>2 DEF TypeOK, RunSteps
    <3> QED
      BY <2>1, <3>1 DEF TypeOK
  <2>5. Progress' /\ Exclusive'
    <3>1. Progress'
      BY <2>1 DEF Progress, Early, TypeOK
    <3>2. Exclusive'
      BY <2>1 DEF Exclusive, Idle, Over, TypeOK
    <3> QED
      BY <3>1, <3>2
  <2>6. Encounters'
    BY <2>1, <2>3 DEF Encounters, AtWork, TypeOK
  <2>7. Workplace'
    BY <2>1, <2>3 DEF Workplace, AtWork, Near, TypeOK
  <2>8. Provenance'
    BY <2>1 DEF Provenance, Signed, Near
  <2>9. BranchesAreSerial' /\ NeverAnOlderDevice'
    BY <2>1 DEF BranchesAreSerial, NeverAnOlderDevice, TypeOK
  <2> QED
    BY <2>4, <2>5, <2>6, <2>7, <2>8, <2>9
<1> QED
  BY <1>1, <1>2

(* A command is sent: it meets the commands that are on the instance.      *)
LEMMA SendInductive == ASSUME Inductive, NEW r \in Runs, SendCommand(r) PROVE Inductive'
<1> USE DEF Inductive, RunStep
<1>1. CASE Fail(r, "send")
  BY <1>1, FailInductive DEF RunSteps, Idle, Over
<1>2. CASE ~Fail(r, "send")
  <2> DEFINE others == {q \in Runs \ {r} : AtWork(q) /\ target[q] = target[r]}
  <2>1. /\ pc[r] = "send" /\ pc' = [pc EXCEPT ![r] = "poll"] /\ target[r] \in up
        /\ command' = [command EXCEPT ![r] = "clean"]
        /\ met' = [q \in Runs |-> IF q = r THEN others
                                  ELSE IF q \in others THEN met[q] \cup {r} ELSE met[q]]
        /\ UNCHANGED <<launched, up, branch, polls, target, fetched, device, cwd, handle, ran,
                       output, hosts>>
    BY <1>2 DEF SendCommand
  <2>2. command[r] = "none" /\ polls[r] = 0 /\ met[r] = {} /\ \A q \in Runs : r \notin met[q]
    BY <2>1 DEF Progress, Early, Encounters, TypeOK
  <2> USE DEF hosts
  <2>3. \A q \in others : q \in Runs /\ q # r /\ AtWork(q) /\ target[q] = target[r]
    OBVIOUS
  <2>4. \A q \in Runs \ {r} : AtWork(q) /\ target[q] = target[r] => q \in others
    OBVIOUS
  <2>5. others \subseteq Runs
    OBVIOUS
  <2> HIDE DEF others
  <2>6. met' \in [Runs -> SUBSET Runs] /\ \A q \in Runs : met[q] \subseteq met'[q]
    BY <2>1, <2>2, <2>5 DEF TypeOK
  <2>7. AtWork(r)' /\ \A q \in Runs \ {r} : AtWork(q)' = AtWork(q)
    BY <2>1 DEF AtWork, TypeOK, Ended
  <2>8. TypeOK'
    <3>1. pc' \in [Runs -> RunSteps] /\ command' \in [Runs -> CommandSteps]
      BY <2>1 DEF TypeOK, RunSteps, CommandSteps
    <3> QED
      BY <2>1, <2>6, <3>1 DEF TypeOK
  <2>9. Progress'
    BY <2>1, <2>2 DEF Progress, Early, TypeOK
  <2>10. Exclusive'
    BY <2>1 DEF Exclusive, Idle, Over, TypeOK
  <2>11. Encounters'
    <3>1. (\A q \in Runs : AtWork(q) => target[q] \in up)'
      BY <2>1, <2>7 DEF Encounters
    <3>2. (\A p \in Runs : \A q \in met[p] :
             q # p /\ target[q] = target[p] /\ command[q] # "none" /\ command[p] # "none")'
      BY <2>1, <2>2, <2>3 DEF Encounters, AtWork, TypeOK
    <3>3. (\A q, p \in Runs : AtWork(q) /\ AtWork(p) /\ target[q] = target[p] /\ q # p
                                => q \in met[p])'
      BY <2>1, <2>4, <2>6, <2>7 DEF Encounters
    <3> QED
      BY <3>1, <3>2, <3>3 DEF Encounters
  <2>12. \A q \in Runs : Near(q) \subseteq Near(q)'
    BY <2>6 DEF Near
  <2>13. Workplace'
    <3>1. ASSUME NEW q \in Runs, q # r
          PROVE  /\ command'[q] = command[q] /\ AtWork(q)' = AtWork(q)
      BY <2>1, <2>7, <3>1 DEF TypeOK
    <3>2. command'[r] = "clean"
      BY <2>1 DEF TypeOK
    <3> QED
      BY <2>1, <2>12, <3>1, <3>2 DEF Workplace
  <2>14. Provenance'
    <3>1. (\A i \in Instances : Signed(file[i]))'
      BY <2>1, <2>12 DEF Provenance, Signed
    <3>2. ASSUME NEW q \in Runs, NEW result \in {output[q], fetched[q]}, result.kind = "whole"
          PROVE  /\ command'[q] # "none"
                 /\ result.by \in Near(q)' /\ result.code \in Near(result.by)'
      <4>1. command[q] # "none" /\ result.by \in Near(q) /\ result.code \in Near(result.by)
        BY <3>2 DEF Provenance
      <4>2. result.by \in Runs
        BY <4>1 DEF Near, TypeOK
      <4> QED
        BY <2>1, <2>12, <4>1, <4>2 DEF TypeOK
    <3> QED
      BY <2>1, <3>1, <3>2 DEF Provenance
  <2>15. BranchesAreSerial'
    <3>1. ASSUME NEW q \in others, branch[q] = branch[r] PROVE pc[q] = "failed"
      BY <2>1, <2>3, <3>1 DEF Exclusive, Idle, Over, Progress, Early, AtWork, Ended
    <3> QED
      BY <2>1, <2>2, <2>3, <3>1 DEF BranchesAreSerial, TypeOK
  <2>16. NeverAnOlderDevice'
    BY <2>1 DEF NeverAnOlderDevice, TypeOK
  <2> QED
    BY <2>8, <2>9, <2>10, <2>11, <2>13, <2>14, <2>15, <2>16
<1> QED
  BY <1>1, <1>2

(* The lab: an instance is launched...                                     *)
LEMMA LaunchInductive == Inductive /\ Launch => Inductive'
<1> SUFFICES ASSUME Inductive, Launch PROVE Inductive'
  OBVIOUS
<1> USE DEF Inductive, runner, commands, hosts
<1>1. /\ launched \in Nat /\ launched < MaxInstances /\ launched' = launched + 1
      /\ up' = up \cup {launched + 1}
      /\ UNCHANGED <<branch, pc, polls, target, fetched, device, command, cwd, handle, ran, output,
                     dir, code, file, met>>
  BY DEF Launch, TypeOK
<1>2. TypeOK'
  <2>1. launched' \in 0 .. MaxInstances /\ up' \subseteq 1 .. launched'
    BY <1>1 DEF TypeOK
  <2>2. target' \in [Runs -> 0 .. launched'] /\ device' \in [Runs -> 0 .. launched']
    BY <1>1 DEF TypeOK
  <2> QED
    BY <1>1, <2>1, <2>2 DEF TypeOK
<1>3. Progress' /\ Exclusive' /\ BranchesAreSerial'
  BY <1>1 DEF Progress, Exclusive, BranchesAreSerial
<1>4. Encounters' /\ Workplace' /\ Provenance'
  BY <1>1 DEF Encounters, Workplace, Provenance, Signed, AtWork, Near
<1>5. NeverAnOlderDevice'
  BY <1>1 DEF NeverAnOlderDevice, TypeOK
<1> QED
  BY <1>2, <1>3, <1>4, <1>5

(* ... or goes, with the commands and the directory on it.                 *)
LEMMA TerminateInductive ==
  ASSUME Inductive, NEW i \in Instances, Terminate(i) PROVE Inductive'
<1> USE DEF Inductive, runner
<1>1. /\ i \in up /\ up' = up \ {i}
      /\ command' = [r \in Runs |-> IF AtWork(r) /\ target[r] = i THEN "Failed" ELSE command[r]]
      /\ dir' = [dir EXCEPT ![i] = None] /\ code' = [code EXCEPT ![i] = None]
      /\ file' = [file EXCEPT ![i] = Nothing]
      /\ UNCHANGED <<launched, branch, pc, polls, target, fetched, device, cwd, handle, ran, output,
                     met>>
  BY DEF Terminate
<1>2. ASSUME NEW r \in Runs
      PROVE  /\ AtWork(r)' => AtWork(r) /\ target[r] # i /\ command'[r] = command[r]
             /\ command'[r] = "none" <=> command[r] = "none"
             /\ command[r] = "Success" => command'[r] = "Success"
             /\ command'[r] \in {"open", "write"} => command[r] = command'[r]
  <2>1. command'[r] = IF AtWork(r) /\ target[r] = i THEN "Failed" ELSE command[r]
    BY <1>1
  <2>2. AtWork(r)' <=> command'[r] \notin Ended \cup {"none"}
    BY DEF AtWork, Ended
  <2> QED
    BY <2>1, <2>2 DEF AtWork, Ended
<1>3. TypeOK'
  <2>1. command' \in [Runs -> CommandSteps]
    BY <1>1 DEF TypeOK, CommandSteps, Ended
  <2>2. file' \in [Instances -> Results]
    BY <1>1, NoResults DEF TypeOK
  <2>3. dir' \in [Instances -> Runs \cup {None}] /\ code' \in [Instances -> Runs \cup {None}]
    BY <1>1 DEF TypeOK
  <2> QED
    BY <1>1, <2>1, <2>2, <2>3 DEF TypeOK
<1>4. /\ Progress' /\ Exclusive' /\ BranchesAreSerial' /\ NeverAnOlderDevice'
  <2>1. Progress'
    <3>1. UNCHANGED <<pc, polls, fetched>>
      BY <1>1
    <3> QED
      BY <1>2, <3>1 DEF Progress, Early
  <2>2. Exclusive'
    BY <1>1 DEF Exclusive
  <2>3. BranchesAreSerial'
    BY <1>1 DEF BranchesAreSerial
  <2>4. NeverAnOlderDevice'
    BY <1>1 DEF NeverAnOlderDevice
  <2> QED
    BY <2>1, <2>2, <2>3, <2>4
<1>5. Encounters'
  <2>1. (\A r \in Runs : AtWork(r) => target[r] \in up)'
    BY <1>1, <1>2 DEF Encounters, AtWork
  <2>2. (\A r \in Runs : \A q \in met[r] :
           q # r /\ target[q] = target[r] /\ command[q] # "none" /\ command[r] # "none")'
    BY <1>1, <1>2 DEF Encounters, TypeOK
  <2>3. (\A q, r \in Runs : AtWork(q) /\ AtWork(r) /\ target[q] = target[r] /\ q # r
                              => q \in met[r])'
    BY <1>1, <1>2 DEF Encounters, AtWork
  <2> QED
    BY <2>1, <2>2, <2>3 DEF Encounters
<1>6. Workplace'
  <2>1. ASSUME NEW r \in Runs, AtWork(r)'
        PROVE  code'[target[r]] = code[target[r]] /\ file'[target[r]] = file[target[r]]
    <3>1. target[r] \in up /\ target[r] # i
      BY <1>2, <2>1 DEF Encounters
    <3> QED
      BY <1>1, <3>1, UpInstances DEF TypeOK
  <2>2. ASSUME NEW r \in Runs, AtWork(r)', command'[r] # "clean"
        PROVE  /\ code'[target[r]] # None => code'[target[r]] \in Near(r)
               /\ file'[target[r]].kind = "whole" => file'[target[r]].by \in Near(r)
    BY <1>2, <2>1, <2>2 DEF Workplace
  <2>3. (\A r \in Runs : command[r] \in {"open", "write"} => ran[r] \in Near(r))'
    BY <1>1, <1>2 DEF Workplace, Near
  <2>4. \A r \in Runs : Near(r)' = Near(r)
    BY <1>1 DEF Near
  <2> QED
    BY <1>1, <2>2, <2>3, <2>4 DEF Workplace
<1>7. Provenance'
  <2>1. (\A j \in Instances : Signed(file[j]))'
    BY <1>1, NoResults DEF Provenance, Signed, Near, TypeOK
  <2>2. ASSUME NEW q \in Runs, NEW result \in {output[q], fetched[q]}, result.kind = "whole"
        PROVE  /\ command'[q] # "none"
               /\ result.by \in Near(q)' /\ result.code \in Near(result.by)'
    BY <1>1, <1>2, <2>2 DEF Provenance, Near
  <2> QED
    BY <1>1, <2>1, <2>2 DEF Provenance
<1> QED
  BY <1>3, <1>4, <1>5, <1>6, <1>7

-----------------------------------------------------------------------------
(* A step of a command: what it does to the runs is the same for all.      *)
LEMMA HostStep ==
  ASSUME Inductive, NEW r \in Runs, NEW to \in CommandSteps \ {"none"},
         AtWork(r), command' = [command EXCEPT ![r] = to],
         UNCHANGED <<launched, up, runner, met>>,
         dir' \in [Instances -> Runs \cup {None}], code' \in [Instances -> Runs \cup {None}],
         file' \in [Instances -> Results], output' \in [Runs -> Results],
         \A maker \in {cwd', handle', ran'} : maker \in [Runs -> Runs \cup {None}],
         Workplace', Provenance'
  PROVE  Inductive'
<1> USE DEF Inductive, runner
<1>1. command' \in [Runs -> CommandSteps]
  BY DEF TypeOK
<1>2. ASSUME NEW q \in Runs
      PROVE  /\ AtWork(q)' => AtWork(q)
             /\ command'[q] = "none" <=> command[q] = "none"
             /\ command[q] = "Success" => command'[q] = "Success"
  <2>1. AtWork(q)' <=> command'[q] \notin Ended \cup {"none"}
    BY DEF AtWork, Ended
  <2>2. command'[q] = IF q = r THEN to ELSE command[q]
    BY DEF TypeOK
  <2> QED
    BY <2>1, <2>2 DEF AtWork, Ended
<1>3. TypeOK'
  BY <1>1 DEF TypeOK
<1>4. Progress'
  BY <1>2 DEF Progress, Early
<1>5. Exclusive'
  BY DEF Exclusive
<1>6. Encounters'
  <2>1. (\A q \in Runs : AtWork(q) => target[q] \in up)'
    BY <1>2 DEF Encounters
  <2>2. (\A p \in Runs : \A q \in met[p] :
           q # p /\ target[q] = target[p] /\ command[q] # "none" /\ command[p] # "none")'
    BY <1>2 DEF Encounters, TypeOK
  <2>3. (\A q, p \in Runs : AtWork(q) /\ AtWork(p) /\ target[q] = target[p] /\ q # p
                              => q \in met[p])'
    BY <1>2 DEF Encounters
  <2> QED
    BY <2>1, <2>2, <2>3 DEF Encounters
<1>7. BranchesAreSerial' /\ NeverAnOlderDevice'
  BY DEF BranchesAreSerial, NeverAnOlderDevice
<1> QED
  BY <1>3, <1>4, <1>5, <1>6, <1>7

(* What a step of a command leaves the same for the others: their steps,   *)
(* whom they met, and, if they are elsewhere, their instance.              *)
LEMMA Others ==
  ASSUME Inductive, NEW r \in Runs, NEW q \in Runs, AtWork(r),
         NEW to \in CommandSteps, command' = [command EXCEPT ![r] = to],
         UNCHANGED <<target, met>>
  PROVE  /\ Near(q)' = Near(q)
         /\ command'[q] = IF q = r THEN to ELSE command[q]
         /\ AtWork(q)' /\ target[q] = target[r] => r \in Near(q) /\ AtWork(q)
<1>1. Near(q)' = Near(q)
  BY DEF Near
<1>2. command'[q] = IF q = r THEN to ELSE command[q]
  BY DEF Inductive, TypeOK
<1>3. ASSUME AtWork(q)', target[q] = target[r] PROVE r \in Near(q) /\ AtWork(q)
  <2>1. AtWork(q)
    BY <1>2, <1>3 DEF AtWork, Ended
  <2>2. q # r => r \in met[q]
    BY <1>3, <2>1 DEF Inductive, Encounters
  <2> QED
    BY <2>1, <2>2 DEF Near
<1> QED
  BY <1>1, <1>2, <1>3

(* The instance of a command that is at work is there, and its run has     *)
(* nothing but its own name and those of other runs.                       *)
LEMMA AtWorkFacts ==
  ASSUME Inductive, NEW r \in Runs, AtWork(r)
  PROVE  /\ target[r] \in up /\ target[r] \in Instances
         /\ \A q \in Runs : Near(q) \subseteq Runs /\ q \in Near(q)
         /\ None \notin Runs
<1>1. target[r] \in up
  BY DEF Inductive, Encounters
<1>2. target[r] \in Instances
  BY <1>1, UpInstances DEF Inductive
<1> QED
  BY <1>1, <1>2 DEF Inductive, TypeOK, Near

(* Results that were in order still are, where none of them has changed    *)
(* and no command has become one that never was.                           *)
LEMMA SameResults ==
  ASSUME Inductive, NEW r \in Runs, NEW to \in CommandSteps \ {"none"},
         command' = [command EXCEPT ![r] = to], UNCHANGED <<met, fetched>>,
         \A i \in Instances : Signed(file'[i]),
         \A q \in Runs \ {r} : output'[q] = output[q],
         output'[r].kind = "whole" => output'[r].by \in Near(r)
                                      /\ output'[r].code \in Near(output'[r].by)
  PROVE  Provenance'
<1>1. \A q \in Runs : command[q] # "none" => command'[q] # "none"
  BY DEF Inductive, TypeOK
<1>2. \A q : Near(q)' = Near(q)
  BY DEF Near
<1>3. (\A i \in Instances : Signed(file[i]))'
  BY <1>2 DEF Signed
<1>4. ASSUME NEW q \in Runs, NEW result \in {output'[q], fetched'[q]}, result.kind = "whole"
      PROVE  /\ command'[q] # "none"
             /\ result.by \in Near(q)' /\ result.code \in Near(result.by)'
  <2>1. CASE q = r /\ result = output'[q]
    BY <1>2, <1>4, <2>1 DEF Inductive, TypeOK
  <2>2. CASE ~(q = r /\ result = output'[q])
    <3>1. result \in {output[q], fetched[q]}
      BY <1>4, <2>2
    <3> QED
      BY <1>1, <1>2, <1>4, <3>1 DEF Inductive, Provenance
  <2> QED
    BY <2>1, <2>2
<1> QED
  BY <1>3, <1>4 DEF Provenance

(* The script cleans up.                                                   *)
LEMMA CleanInductive == ASSUME Inductive, NEW r \in Runs, Clean(r) PROVE Inductive'
<1>1. /\ command[r] = "clean" /\ command' = [command EXCEPT ![r] = "unpack"]
      /\ UNCHANGED <<launched, up, runner, met, cwd, handle, ran, output>>
      /\ dir' = [dir EXCEPT ![target[r]] = r]
      /\ code' = [code EXCEPT ![target[r]] = None]
      /\ file' = [file EXCEPT ![target[r]] = Nothing]
  BY DEF Clean, CommandStep
<1>2. AtWork(r) /\ "unpack" \in CommandSteps \ {"none"} /\ UNCHANGED <<target, fetched>>
  BY <1>1 DEF AtWork, Ended, CommandSteps, runner
<1>3. target[r] \in Instances
  BY <1>2, AtWorkFacts
<1>4. Workplace'
  <2>1. ASSUME NEW q \in Runs, AtWork(q)', command'[q] # "clean"
        PROVE  /\ code'[target[q]] # None => code'[target[q]] \in Near(q)
               /\ file'[target[q]].kind = "whole" => file'[target[q]].by \in Near(q)
    <3>1. CASE target[q] = target[r]
      BY <1>1, <1>3, <3>1, NoResults DEF Inductive, TypeOK
    <3>2. CASE target[q] # target[r]
      <4>1. AtWork(q) /\ command[q] # "clean"
        BY <1>1, <1>2, <2>1, <3>2, Others DEF AtWork
      <4>2. code'[target[q]] = code[target[q]] /\ file'[target[q]] = file[target[q]]
        BY <1>1, <1>2, <3>2, <4>1, AtWorkFacts DEF Inductive, TypeOK
      <4> QED
        BY <4>1, <4>2 DEF Inductive, Workplace
    <3> QED
      BY <3>1, <3>2
  <2>2. (\A q \in Runs : command[q] \in {"open", "write"} => ran[q] \in Near(q))'
    BY <1>1 DEF Inductive, Workplace, Near, TypeOK
  <2>3. \A q \in Runs : Near(q)' = Near(q)
    BY <1>1 DEF Near
  <2> QED
    BY <1>2, <2>1, <2>2, <2>3 DEF Workplace
<1>5. Provenance'
  <2>1. \A i \in Instances : Signed(file'[i])
    BY <1>1, NoResults DEF Inductive, Provenance, Signed, TypeOK
  <2> QED
    BY <1>1, <1>2, <2>1, SameResults DEF Inductive, Provenance
<1> QED
  <2>1. /\ dir' \in [Instances -> Runs \cup {None}] /\ code' \in [Instances -> Runs \cup {None}]
        /\ file' \in [Instances -> Results] /\ output' \in [Runs -> Results]
        /\ \A maker \in {cwd', handle', ran'} : maker \in [Runs -> Runs \cup {None}]
    BY <1>1, NoResults DEF Inductive, TypeOK
  <2> QED
    BY <1>1, <1>2, <1>4, <1>5, <2>1, HostStep

(* The telemetry package is unpacked, over another's, too.                 *)
LEMMA UnpackInductive == ASSUME Inductive, NEW r \in Runs, Unpack(r) PROVE Inductive'
<1>1. /\ command[r] = "unpack" /\ command' = [command EXCEPT ![r] = "test"]
      /\ UNCHANGED <<launched, up, runner, met, handle, ran, output, dir, file>>
      /\ code' = [code EXCEPT ![target[r]] = r]
      /\ cwd' = [cwd EXCEPT ![r] = dir[target[r]]]
  BY DEF Unpack, CommandStep
<1>2. AtWork(r) /\ "test" \in CommandSteps \ {"none"} /\ UNCHANGED <<target, fetched>>
  BY <1>1 DEF AtWork, Ended, CommandSteps, runner
<1>3. target[r] \in Instances
  BY <1>2, AtWorkFacts
<1>4. Workplace'
  <2>1. ASSUME NEW q \in Runs, AtWork(q)', command'[q] # "clean"
        PROVE  /\ code'[target[q]] # None => code'[target[q]] \in Near(q)
               /\ file'[target[q]].kind = "whole" => file'[target[q]].by \in Near(q)
    <3>1. AtWork(q) /\ command[q] # "clean"
      <4>1. command'[q] = IF q = r THEN "test" ELSE command[q]
        BY <1>1, <1>2, Others
      <4> QED
        BY <1>1, <1>2, <2>1, <4>1 DEF AtWork
    <3>2. /\ code[target[q]] # None => code[target[q]] \in Near(q)
          /\ file'[target[q]].kind = "whole" => file'[target[q]].by \in Near(q)
      BY <1>1, <3>1 DEF Inductive, Workplace
    <3>3. CASE target[q] = target[r]
      <4>1. code'[target[q]] = r
        BY <1>1, <1>3, <3>3 DEF Inductive, TypeOK
      <4>2. r \in Near(q)
        BY <1>1, <1>2, <2>1, <3>3, Others
      <4> QED
        BY <3>2, <4>1, <4>2
    <3>4. CASE target[q] # target[r]
      <4>1. code'[target[q]] = code[target[q]]
        BY <1>1, <3>1, <3>4, AtWorkFacts DEF Inductive, TypeOK
      <4> QED
        BY <3>2, <4>1
    <3> QED
      BY <3>3, <3>4
  <2>2. (\A q \in Runs : command[q] \in {"open", "write"} => ran[q] \in Near(q))'
    BY <1>1 DEF Inductive, Workplace, Near, TypeOK
  <2>3. \A q \in Runs : Near(q)' = Near(q)
    BY <1>1 DEF Near
  <2> QED
    BY <1>2, <2>1, <2>2, <2>3 DEF Workplace
<1>5. Provenance'
  BY <1>1, <1>2, SameResults DEF Inductive, Provenance
<1> QED
  <2>1. /\ dir' \in [Instances -> Runs \cup {None}] /\ code' \in [Instances -> Runs \cup {None}]
        /\ file' \in [Instances -> Results] /\ output' \in [Runs -> Results]
        /\ \A maker \in {cwd', handle', ran'} : maker \in [Runs -> Runs \cup {None}]
    BY <1>1, <1>3 DEF Inductive, TypeOK
  <2> QED
    BY <1>1, <1>2, <1>4, <1>5, <2>1, HostStep

(* The tests run with the package that is there.                           *)
LEMMA RunTestsInductive == ASSUME Inductive, NEW r \in Runs, RunTests(r) PROVE Inductive'
<1>1. /\ command[r] = "test" /\ command' = [command EXCEPT ![r] = "open"]
      /\ UNCHANGED <<launched, up, runner, met, handle, output, dir, code, file>>
      /\ code[target[r]] # None /\ ran' = [ran EXCEPT ![r] = code[target[r]]]
      /\ cwd' = [cwd EXCEPT ![r] = None]
  BY DEF RunTests, CommandStep, hosts
<1>2. AtWork(r) /\ "open" \in CommandSteps \ {"none"} /\ UNCHANGED <<target, fetched>>
  BY <1>1 DEF AtWork, Ended, CommandSteps, runner
<1>3. target[r] \in Instances
  BY <1>2, AtWorkFacts
<1>4. Workplace'
  <2>1. ASSUME NEW q \in Runs, AtWork(q)', command'[q] # "clean"
        PROVE  /\ code'[target[q]] # None => code'[target[q]] \in Near(q)
               /\ file'[target[q]].kind = "whole" => file'[target[q]].by \in Near(q)
    <3>1. command'[q] = IF q = r THEN "open" ELSE command[q]
      BY <1>1, <1>2, Others
    <3>2. AtWork(q) /\ command[q] # "clean"
      BY <1>1, <1>2, <2>1, <3>1 DEF AtWork
    <3> QED
      BY <1>1, <3>2 DEF Inductive, Workplace
  <2>2. ASSUME NEW q \in Runs, command'[q] \in {"open", "write"} PROVE ran'[q] \in Near(q)
    <3>1. CASE q = r
      <4>1. code[target[r]] \in Near(r)
        BY <1>1, <1>2 DEF Inductive, Workplace
      <4> QED
        BY <1>1, <3>1, <4>1 DEF Inductive, TypeOK
    <3>2. CASE q # r
      BY <1>1, <2>2, <3>2 DEF Inductive, TypeOK, Workplace
    <3> QED
      BY <3>1, <3>2
  <2>3. \A q \in Runs : Near(q)' = Near(q)
    BY <1>1 DEF Near
  <2> QED
    BY <1>2, <2>1, <2>2, <2>3 DEF Workplace
<1>5. Provenance'
  BY <1>1, <1>2, SameResults DEF Inductive, Provenance
<1> QED
  <2>1. /\ dir' \in [Instances -> Runs \cup {None}] /\ code' \in [Instances -> Runs \cup {None}]
        /\ file' \in [Instances -> Results] /\ output' \in [Runs -> Results]
        /\ \A maker \in {cwd', handle', ran'} : maker \in [Runs -> Runs \cup {None}]
    BY <1>1, <1>3 DEF Inductive, TypeOK
  <2> QED
    BY <1>1, <1>2, <1>4, <1>5, <2>1, HostStep

(* A step that may change the results file on the instance, to results     *)
(* that are the command's own or broken, and no more of the directory.     *)
LEMMA FileStep ==
  ASSUME Inductive, NEW r \in Runs, AtWork(r),
         NEW to \in CommandSteps \ {"none", "clean"},
         command[r] # "clean" \/ to \in Ended,
         command' = [command EXCEPT ![r] = to],
         UNCHANGED <<launched, up, runner, met, output, dir, code>>,
         handle' \in [Runs -> Runs \cup {None}], ran' \in [Runs -> Runs \cup {None}],
         cwd' \in [Runs -> Runs \cup {None}], file' \in [Instances -> Results],
         \A i \in Instances \ {target[r]} : file'[i] = file[i],
         \/ file'[target[r]] = file[target[r]]
         \/ file'[target[r]].kind # "whole"
         \/ file'[target[r]].by = r /\ file'[target[r]].code \in Near(r),
         \A q \in Runs : command'[q] \in {"open", "write"} =>
           command[q] \in {"open", "write"} /\ ran'[q] = ran[q]
  PROVE  Inductive'
<1>1. UNCHANGED <<target, fetched>>
  BY DEF runner
<1>2. target[r] \in Instances
  BY AtWorkFacts
<1>3. Workplace'
  <2>1. ASSUME NEW q \in Runs, AtWork(q)', command'[q] # "clean"
        PROVE  /\ code'[target[q]] # None => code'[target[q]] \in Near(q)
               /\ file'[target[q]].kind = "whole" => file'[target[q]].by \in Near(q)
    <3>1. AtWork(q) /\ command[q] # "clean"
      <4>1. command'[q] = IF q = r THEN to ELSE command[q]
        BY DEF Inductive, TypeOK
      <4> QED
        BY <2>1, <4>1 DEF AtWork
    <3>2. /\ code'[target[q]] # None => code'[target[q]] \in Near(q)
          /\ file[target[q]].kind = "whole" => file[target[q]].by \in Near(q)
      BY <3>1 DEF Inductive, Workplace
    <3>3. CASE target[q] = target[r]
      <4>1. r \in Near(q)
        BY <1>1, <2>1, <3>3, Others
      <4> QED
        BY <3>2, <3>3, <4>1
    <3>4. CASE target[q] # target[r]
      <4>1. file'[target[q]] = file[target[q]]
        BY <3>1, <3>4, AtWorkFacts
      <4> QED
        BY <3>2, <4>1
    <3> QED
      BY <3>3, <3>4
  <2>2. \A q \in Runs : command'[q] \in {"open", "write"} => ran'[q] \in Near(q)
    BY DEF Inductive, Workplace
  <2>3. \A q \in Runs : Near(q)' = Near(q)
    BY DEF Near
  <2> QED
    BY <1>1, <2>1, <2>2, <2>3 DEF Workplace
<1>4. Provenance'
  <2>1. \A i \in Instances : Signed(file'[i])
    BY <1>2 DEF Inductive, Provenance, Signed
  <2> QED
    BY <1>1, <2>1, SameResults DEF Inductive, Provenance
<1> QED
  <2>1. /\ dir' \in [Instances -> Runs \cup {None}] /\ code' \in [Instances -> Runs \cup {None}]
        /\ output' \in [Runs -> Results]
        /\ \A maker \in {cwd', handle', ran'} : maker \in [Runs -> Runs \cup {None}]
    BY DEF Inductive, TypeOK
  <2> QED
    BY <1>3, <1>4, <2>1, HostStep

(* The results file is truncated...                                        *)
LEMMA OpenResultsInductive == ASSUME Inductive, NEW r \in Runs, OpenResults(r) PROVE Inductive'
<1>1. /\ command[r] = "open" /\ command' = [command EXCEPT ![r] = "write"]
      /\ UNCHANGED <<launched, up, runner, met, cwd, ran, output, dir, code>>
      /\ handle' = [handle EXCEPT ![r] = dir[target[r]]]
      /\ file' = [file EXCEPT ![target[r]] = Broken]
  BY DEF OpenResults, CommandStep
<1>2. AtWork(r) /\ "write" \in CommandSteps \ {"none", "clean"}
  BY <1>1 DEF AtWork, Ended, CommandSteps
<1>3. target[r] \in Instances
  BY <1>2, AtWorkFacts
<1>4. /\ handle' \in [Runs -> Runs \cup {None}] /\ ran' \in [Runs -> Runs \cup {None}]
      /\ cwd' \in [Runs -> Runs \cup {None}] /\ file' \in [Instances -> Results]
      /\ \A i \in Instances \ {target[r]} : file'[i] = file[i]
      /\ file'[target[r]].kind # "whole"
  BY <1>1, <1>3, NoResults DEF Inductive, TypeOK
<1>5. \A q \in Runs : command'[q] \in {"open", "write"} =>
        command[q] \in {"open", "write"} /\ ran'[q] = ran[q]
  BY <1>1 DEF Inductive, TypeOK
<1> QED
  BY <1>1, <1>2, <1>4, <1>5, FileStep

(* ... and written.                                                        *)
LEMMA WriteResultsInductive ==
  ASSUME Inductive, NEW r \in Runs, WriteResults(r) PROVE Inductive'
<1>1. PICK text \in {Whole(r), Broken} :
        file' = [file EXCEPT ![target[r]] = IF handle[r] = dir[target[r]] THEN text ELSE @]
  BY DEF WriteResults
<1>2. /\ command[r] = "write" /\ command' = [command EXCEPT ![r] = "pack"]
      /\ UNCHANGED <<launched, up, runner, met, cwd, output, dir, code>>
      /\ handle' = [handle EXCEPT ![r] = None] /\ ran' = [ran EXCEPT ![r] = None]
  BY DEF WriteResults, CommandStep
<1>3. AtWork(r) /\ "pack" \in CommandSteps \ {"none", "clean"}
  BY <1>2 DEF AtWork, Ended, CommandSteps
<1>4. target[r] \in Instances /\ ran[r] \in Near(r) /\ ran[r] \in Runs
  BY <1>2, <1>3, AtWorkFacts DEF Inductive, Workplace
<1>5. text \in Results /\ (text.kind = "whole" => text.by = r /\ text.code \in Near(r))
  <2>1. Whole(r) \in Results /\ Whole(r).by = r /\ Whole(r).code = ran[r]
    BY <1>4 DEF Whole, Results
  <2> QED
    BY <1>1, <1>4, <2>1, NoResults
<1>6. /\ file' \in [Instances -> Results]
      /\ \A i \in Instances \ {target[r]} : file'[i] = file[i]
      /\ \/ file'[target[r]] = file[target[r]]
         \/ file'[target[r]].kind # "whole"
         \/ file'[target[r]].by = r /\ file'[target[r]].code \in Near(r)
  BY <1>1, <1>4, <1>5 DEF Inductive, TypeOK
<1>7. /\ handle' \in [Runs -> Runs \cup {None}] /\ ran' \in [Runs -> Runs \cup {None}]
      /\ cwd' \in [Runs -> Runs \cup {None}]
  BY <1>2 DEF Inductive, TypeOK
<1>8. \A q \in Runs : command'[q] \in {"open", "write"} =>
        command[q] \in {"open", "write"} /\ ran'[q] = ran[q]
  BY <1>2 DEF Inductive, TypeOK
<1> QED
  BY <1>2, <1>3, <1>6, <1>7, <1>8, FileStep

(* A command that fails leaves the directory to the others.                *)
LEMMA CommandFailsInductive ==
  ASSUME Inductive, NEW r \in Runs, CommandFails(r) PROVE Inductive'
<1>1. /\ AtWork(r) /\ command' = [command EXCEPT ![r] = "Failed"]
      /\ UNCHANGED <<launched, up, runner, met, output, dir, code, file>>
      /\ cwd' = [cwd EXCEPT ![r] = None] /\ handle' = [handle EXCEPT ![r] = None]
      /\ ran' = [ran EXCEPT ![r] = None]
  BY DEF CommandFails, CommandStep, hosts
<1>2. "Failed" \in CommandSteps \ {"none", "clean"} /\ "Failed" \in Ended
  BY DEF Ended, CommandSteps
<1>3. /\ handle' \in [Runs -> Runs \cup {None}] /\ ran' \in [Runs -> Runs \cup {None}]
      /\ cwd' \in [Runs -> Runs \cup {None}] /\ file' \in [Instances -> Results]
      /\ \A i \in Instances \ {target[r]} : file'[i] = file[i]
  BY <1>1 DEF Inductive, TypeOK
<1>4. \A q \in Runs : command'[q] \in {"open", "write"} =>
        command[q] \in {"open", "write"} /\ ran'[q] = ran[q]
  BY <1>1 DEF Inductive, TypeOK
<1> QED
  BY <1>1, <1>2, <1>3, <1>4, FileStep

(* The file goes to the output: it is the command's own, or that of one it *)
(* met.                                                                    *)
LEMMA PackInductive == ASSUME Inductive, NEW r \in Runs, Pack(r) PROVE Inductive'
<1>1. PICK text \in {file[target[r]], Broken} : output' = [output EXCEPT ![r] = text]
  BY DEF Pack
<1>2. /\ command[r] = "pack" /\ command' = [command EXCEPT ![r] = "Success"]
      /\ UNCHANGED <<launched, up, runner, met, cwd, handle, ran, dir, code, file>>
  BY DEF Pack, CommandStep, hosts
<1>3. AtWork(r) /\ "Success" \in CommandSteps \ {"none"} /\ UNCHANGED <<target, fetched>>
  BY <1>2 DEF AtWork, Ended, CommandSteps, runner
<1>4. target[r] \in Instances
  BY <1>3, AtWorkFacts
<1>5. text \in Results /\ (text.kind = "whole" => text.by \in Near(r) /\ text.code \in Near(text.by))
  <2>1. file[target[r]] \in Results /\ Signed(file[target[r]])
    BY <1>4 DEF Inductive, TypeOK, Provenance
  <2>2. file[target[r]].kind = "whole" => file[target[r]].by \in Near(r)
    BY <1>2, <1>3 DEF Inductive, Workplace
  <2> QED
    BY <1>1, <2>1, <2>2, NoResults DEF Signed
<1>6. /\ output' \in [Runs -> Results] /\ output'[r] = text
      /\ \A q \in Runs \ {r} : output'[q] = output[q]
  BY <1>1, <1>5 DEF Inductive, TypeOK
<1>7. Workplace'
  <2>1. ASSUME NEW q \in Runs
        PROVE  /\ Near(q)' = Near(q) /\ (AtWork(q)' => AtWork(q) /\ command'[q] = command[q])
               /\ command'[q] \in {"open", "write"} => command[q] = command'[q]
    <3>1. /\ Near(q)' = Near(q)
          /\ command'[q] = IF q = r THEN "Success" ELSE command[q]
      BY <1>2, <1>3, Others
    <3> QED
      BY <3>1 DEF AtWork, Ended
  <2>2. ASSUME NEW q \in Runs, AtWork(q)', command'[q] # "clean"
        PROVE  /\ code'[target[q]] # None => code'[target[q]] \in Near(q)
               /\ file'[target[q]].kind = "whole" => file'[target[q]].by \in Near(q)
    BY <1>2, <2>1, <2>2 DEF Inductive, Workplace
  <2>3. \A q \in Runs : command'[q] \in {"open", "write"} => ran'[q] \in Near(q)
    BY <1>2, <2>1 DEF Inductive, Workplace
  <2> QED
    BY <1>3, <2>1, <2>2, <2>3 DEF Workplace
<1>8. Provenance'
  <2>1. \A i \in Instances : Signed(file'[i])
    BY <1>2 DEF Inductive, Provenance
  <2> QED
    BY <1>2, <1>3, <1>5, <1>6, <2>1, SameResults
<1> QED
  <2>1. /\ dir' \in [Instances -> Runs \cup {None}] /\ code' \in [Instances -> Runs \cup {None}]
        /\ file' \in [Instances -> Results]
        /\ \A maker \in {cwd', handle', ran'} : maker \in [Runs -> Runs \cup {None}]
    BY <1>2 DEF Inductive, TypeOK
  <2> QED
    BY <1>2, <1>3, <1>6, <1>7, <1>8, <2>1, HostStep

-----------------------------------------------------------------------------
(* The invariant holds in every reachable state.                           *)
THEOREM InductiveInvariant == Spec => []Inductive
<1>1. Inductive /\ [Next]_vars => Inductive'
  <2> SUFFICES ASSUME Inductive, [Next]_vars PROVE Inductive'
    OBVIOUS
  <2>1. CASE Launch
    BY <2>1, LaunchInductive
  <2>2. CASE \E i \in Instances : Terminate(i)
    BY <2>2, TerminateInductive
  <2>3. ASSUME NEW r \in Runs, Workflow(r) PROVE Inductive'
    BY <2>3, GoOnInductive, ResolveInductive, SendInductive DEF Workflow
  <2>4. ASSUME NEW r \in Runs, StepFails(r) PROVE Inductive'
    <3>1. pc[r] \in RunSteps \ Idle
      BY <2>4 DEF StepFails, Idle, Inductive, TypeOK
    <3> QED
      BY <2>4, <3>1, FailInductive DEF StepFails
  <2>5. ASSUME NEW r \in Runs, Command(r) PROVE Inductive'
    BY <2>5, CleanInductive, UnpackInductive, RunTestsInductive, OpenResultsInductive,
       WriteResultsInductive, PackInductive, CommandFailsInductive DEF Command
  <2>6. CASE UNCHANGED vars
    <3>1. UNCHANGED <<launched, up, branch, pc, polls, target, fetched, device, command, cwd,
                      handle, ran, output, dir, code, file, met>>
      BY <2>6 DEF vars, runner, commands, hosts
    <3>2. TypeOK' /\ Progress' /\ Exclusive' /\ BranchesAreSerial' /\ NeverAnOlderDevice'
      BY <3>1 DEF Inductive, TypeOK, Progress, Exclusive, BranchesAreSerial, NeverAnOlderDevice
    <3>3. Encounters' /\ Workplace' /\ Provenance'
      BY <3>1 DEF Inductive, Encounters, Workplace, Provenance, Signed, AtWork, Near
    <3> QED
      BY <3>2, <3>3 DEF Inductive
  <2> QED
    BY <2>1, <2>2, <2>3, <2>4, <2>5, <2>6 DEF Next
<1> QED
  BY InitInductive, <1>1, PTL DEF Spec

(* Every variable stays within its range; no run polls more than MaxPolls  *)
(* times (Telemetry!TypeOK).                                               *)
THEOREM TypeCorrect == Spec => []TypeOK
<1>1. Inductive => TypeOK
  BY DEF Inductive
<1> QED
  BY InductiveInvariant, <1>1, PTL

(* The results in a report are those of one execution of the tests, by its *)
(* own command or by one that was on the instance with it; its own, by its *)
(* own branch's code, if it was alone (the SSM command of the workflow).   *)
THEOREM ReportsAreOfTheirTime == Spec => []ReportIsOfItsTime
<1>1. Inductive => ReportIsOfItsTime
  <2> SUFFICES ASSUME Inductive, NEW r \in Runs, pc[r] = "done"
               PROVE  /\ fetched[r].kind = "whole" /\ fetched[r].by \in {r} \cup met[r]
                      /\ target[fetched[r].by] = target[r]
                      /\ met[r] = {} => fetched[r].code = r
    BY DEF ReportIsOfItsTime
  <2>1. fetched[r].kind = "whole"
    BY DEF Inductive, Progress
  <2>2. fetched[r].by \in Near(r) /\ fetched[r].code \in Near(fetched[r].by)
    BY <2>1 DEF Inductive, Provenance
  <2>3. target[fetched[r].by] = target[r]
    BY <2>2 DEF Inductive, Encounters, Near
  <2> QED
    BY <2>1, <2>2, <2>3 DEF Near
<1> QED
  BY InductiveInvariant, <1>1, PTL

(* Of two runs of one branch whose commands met, one has been given up:    *)
(* what the concurrency group of the workflow is there for.                *)
THEOREM SerialBranches == Spec => []BranchesAreSerial
<1>1. Inductive => BranchesAreSerial
  BY DEF Inductive
<1> QED
  BY InductiveInvariant, <1>1, PTL

(* The collector's look-up never names an instance older than the one that *)
(* was tested, while that one is there (resolve_ec2_instance_by_tag()).    *)
THEOREM DevicesOnlyGetYounger == Spec => []NeverAnOlderDevice
<1>1. Inductive => NeverAnOlderDevice
  BY DEF Inductive
<1> QED
  BY InductiveInvariant, <1>1, PTL

=============================================================================
