------------------------------ MODULE Telemetry ------------------------------
(***************************************************************************)
(* Runs of the telemetry workflow (.github/workflows/                      *)
(* telemetry-collector.yml): each resolves an instance by its tag, has the *)
(* active tests run there by an SSM command, polls, fetches the results    *)
(* from the command's output, and calls the collector, which resolves the  *)
(* instance once more (ec2_discovery.py).                                  *)
(*                                                                         *)
(* The concurrency group keeps the runs of one branch apart, but not those *)
(* of two branches, nor a run and the command an earlier one has given up  *)
(* on: on the host, all commands work in the same directory.               *)
(*                                                                         *)
(* Instances are numbered in the order of their launch. A generation of    *)
(* the directory and what is in it are named after the run whose command   *)
(* made them. AWS is external, and any call of it may fail.                *)
(***************************************************************************)
EXTENDS Naturals, FiniteSetsExt

CONSTANTS
  Runs,          \* runs of the workflow
  Refs,          \* what github.ref may be: functions from Runs to branches
  None,          \* no run
  MaxPolls,      \* rounds of polling (60)
  MaxInstances   \* BOUND: launches

ASSUME RunsAssumption == None \notin Runs /\ \A branch \in Refs : DOMAIN branch = Runs
ASSUME MaxPollsAssumption == MaxPolls \in Nat \ {0}
ASSUME MaxInstancesAssumption == MaxInstances \in Nat

Instances == 1 .. MaxInstances

VARIABLES
  \* AWS
  launched,  \* instances launched so far
  up,        \* those that are running
  \* the runner
  branch,    \* the branch of each run
  pc,        \* what each run does next
  polls,     \* rounds of polling so far
  target,    \* the instance its tests run on
  fetched,   \* the results it has extracted from the output
  device,    \* the instance its report is about
  \* the host, for each command
  command,   \* what it does next, or its status
  cwd,       \* the generation of the directory it has changed to
  handle,    \* the generation its results file is in
  ran,       \* the code it has run
  output,    \* the results on its standard output
  \* the host, for each instance
  dir,       \* generation of WORK_DIR
  code,      \* whose telemetry package is unpacked there
  file,      \* active-tls-tests.json
  \* for the properties
  met        \* runs whose command was on the same host at the same time
runner == <<branch, pc, polls, target, fetched, device>>
commands == <<command, cwd, handle, ran, output>>
hosts == <<dir, code, file>>
vars == <<launched, up, runner, commands, hosts, met>>

(* Results are whole - with the run that wrote them and the code that it   *)
(* ran - or no valid JSON: an empty file, one written over a longer one,   *)
(* or an output cut at SSM's limit.                                        *)
Nothing == [kind |-> "none", by |-> None, code |-> None]
Broken == [kind |-> "broken", by |-> None, code |-> None]
Whole(r) == [kind |-> "whole", by |-> r, code |-> ran[r]]

Ended == {"Success", "Failed"}
AtWork(r) == command[r] \notin Ended \cup {"none"}

Init ==
  /\ launched = 0 /\ up = {}
  /\ branch \in Refs /\ pc = [r \in Runs |-> "queued"]
  /\ polls = [r \in Runs |-> 0] /\ target = [r \in Runs |-> 0]
  /\ fetched = [r \in Runs |-> Nothing] /\ device = [r \in Runs |-> 0]
  /\ command = [r \in Runs |-> "none"] /\ cwd = [r \in Runs |-> None]
  /\ handle = [r \in Runs |-> None] /\ ran = [r \in Runs |-> None]
  /\ output = [r \in Runs |-> Nothing]
  /\ dir = [i \in Instances |-> None] /\ code = [i \in Instances |-> None]
  /\ file = [i \in Instances |-> Nothing]
  /\ met = [r \in Runs |-> {}]

-----------------------------------------------------------------------------
(* The lab: Terraform replaces an instance, in either order. The commands  *)
(* on an instance and its disk go with it.                                 *)

Launch ==
  /\ launched < MaxInstances
  /\ launched' = launched + 1 /\ up' = up \cup {launched'}
  /\ UNCHANGED <<runner, commands, hosts, met>>

Terminate(i) ==
  /\ i \in up /\ up' = up \ {i}
  /\ command' = [r \in Runs |-> IF AtWork(r) /\ target[r] = i THEN "Failed" ELSE command[r]]
  /\ dir' = [dir EXCEPT ![i] = None] /\ code' = [code EXCEPT ![i] = None]
  /\ file' = [file EXCEPT ![i] = Nothing]
  /\ UNCHANGED <<launched, runner, cwd, handle, ran, output, met>>

-----------------------------------------------------------------------------
(* The runner.                                                             *)

Over == {"done", "failed"}

RunStep(r, from, to) ==
  /\ pc[r] = from /\ pc' = [pc EXCEPT ![r] = to]
  /\ UNCHANGED <<launched, up, branch, hosts>>

(* What a run has fetched goes with its runner.                            *)
Fail(r, from) ==
  /\ RunStep(r, from, "failed")
  /\ polls' = [polls EXCEPT ![r] = 0] /\ fetched' = [fetched EXCEPT ![r] = Nothing]
  /\ UNCHANGED <<target, device, commands, met>>

(* Wrong: no concurrency group.                                            *)
StartAtOnce(r) ==
  /\ RunStep(r, "queued", "resolve")
  /\ UNCHANGED <<polls, target, fetched, device, commands, met>>

(* concurrency: group nist-telemetry-${{ github.ref }}                     *)
Start(r) ==
  /\ \A q \in Runs \ {r} : branch[q] = branch[r] => pc[q] \in Over \cup {"queued"}
  /\ RunStep(r, "queued", "resolve")
  /\ UNCHANGED <<polls, target, fetched, device, commands, met>>

(* jq: the last of the running instances, sorted by their launch.          *)
Resolve(r) ==
  \/ up = {} /\ Fail(r, "resolve")
  \/ /\ up # {} /\ RunStep(r, "resolve", "send")
     /\ target' = [target EXCEPT ![r] = Max(up)]
     /\ UNCHANGED <<polls, fetched, device, commands, met>>

SendCommand(r) ==
  LET others == {q \in Runs \ {r} : AtWork(q) /\ target[q] = target[r]}
  IN  \/ target[r] \notin up /\ Fail(r, "send")
      \/ /\ target[r] \in up /\ RunStep(r, "send", "poll")
         /\ command' = [command EXCEPT ![r] = "clean"]
         /\ met' = [q \in Runs |-> IF q = r THEN others
                                   ELSE IF q \in others THEN met[q] \cup {r} ELSE met[q]]
         /\ UNCHANGED <<polls, target, fetched, device, cwd, handle, ran, output>>

(* Wrong: the loop ends with the command only.                             *)
PollForever(r) ==
  /\ RunStep(r, "poll", IF command[r] \in Ended THEN "fetch" ELSE "poll")
  /\ UNCHANGED <<polls, target, fetched, device, commands, met>>

(* Wrong: one round too many.                                              *)
PollOnceMore(r) ==
  /\ \/ command[r] \in Ended /\ RunStep(r, "poll", "fetch") /\ UNCHANGED polls
     \/ /\ polls' = [polls EXCEPT ![r] = @ + 1]
        /\ RunStep(r, "poll", IF polls[r] < MaxPolls THEN "poll" ELSE "fetch")
  /\ UNCHANGED <<target, fetched, device, commands, met>>

(* One round; after the last one the run goes on all the same. A status    *)
(* that cannot be read is no status.                                       *)
Poll(r) ==
  /\ \/ command[r] \in Ended /\ RunStep(r, "poll", "fetch") /\ UNCHANGED polls
     \/ /\ polls' = [polls EXCEPT ![r] = @ + 1]
        /\ RunStep(r, "poll", IF polls[r] + 1 < MaxPolls THEN "poll" ELSE "fetch")
  /\ UNCHANGED <<target, fetched, device, commands, met>>

(* StandardOutputContent is there when the command has ended.              *)
FetchOutput(r) ==
  /\ RunStep(r, "fetch", "status")
  /\ fetched' = [fetched EXCEPT ![r] = output[r]]
  /\ UNCHANGED <<polls, target, device, commands, met>>

(* FINAL_STATUS, asked for after the output.                               *)
FinalStatus(r) ==
  \/ command[r] # "Success" /\ Fail(r, "status")
  \/ /\ command[r] = "Success" /\ RunStep(r, "status", "extract")
     /\ UNCHANGED <<polls, target, fetched, device, commands, met>>

(* Wrong: whatever lies between the markers.                               *)
ExtractUnchecked(r) ==
  /\ RunStep(r, "extract", "collect")
  /\ UNCHANGED <<polls, target, fetched, device, commands, met>>

(* Between the markers: not empty, decompressed, and JSON.                 *)
Extract(r) ==
  \/ fetched[r].kind # "whole" /\ Fail(r, "extract")
  \/ /\ fetched[r].kind = "whole" /\ RunStep(r, "extract", "collect")
     /\ UNCHANGED <<polls, target, fetched, device, commands, met>>

(* Wrong: not sorted.                                                      *)
FirstMatch == Min(up)

(* resolve_ec2_instance_by_tag(): the last of them, by launch time.        *)
MostRecentlyLaunched == Max(up)

(* nist_telemetry_collector.py resolves the instance by its tag again; the *)
(* results of the tests come from the file.                                *)
Collect(r) ==
  \/ up = {} /\ Fail(r, "collect")
  \/ /\ up # {} /\ RunStep(r, "collect", "done")
     /\ device' = [device EXCEPT ![r] = MostRecentlyLaunched]
     /\ UNCHANGED <<polls, target, fetched, commands, met>>

Workflow(r) ==
  \/ Start(r) \/ Resolve(r) \/ SendCommand(r) \/ Poll(r) \/ FetchOutput(r)
  \/ FinalStatus(r) \/ Extract(r) \/ Collect(r)

(* Any other step may fail, too: credentials, pip, a call of AWS.          *)
StepFails(r) == pc[r] \notin Over \cup {"queued"} /\ Fail(r, pc[r])

-----------------------------------------------------------------------------
(* The command on the host: a shell script under set -euo pipefail.        *)

CommandStep(r, from, to) ==
  /\ command[r] = from /\ target[r] \in up
  /\ command' = [command EXCEPT ![r] = to]
  /\ UNCHANGED <<launched, up, runner, met>>

(* rm -rf, mkdir -p                                                        *)
Clean(r) ==
  /\ CommandStep(r, "clean", "unpack")
  /\ dir' = [dir EXCEPT ![target[r]] = r]
  /\ code' = [code EXCEPT ![target[r]] = None]
  /\ file' = [file EXCEPT ![target[r]] = Nothing]
  /\ UNCHANGED <<cwd, handle, ran, output>>

(* The package from the command's text, unpacked; cd.                      *)
Unpack(r) ==
  /\ CommandStep(r, "unpack", "test")
  /\ code' = [code EXCEPT ![target[r]] = r]
  /\ cwd' = [cwd EXCEPT ![r] = dir[target[r]]]
  /\ UNCHANGED <<handle, ran, output, dir, file>>

(* python3 -m telemetry.tls_tests finds its module in the directory the    *)
(* shell is in, unless that has been removed.                              *)
RunTests(r) ==
  /\ CommandStep(r, "test", "open")
  /\ cwd[r] = dir[target[r]] /\ code[target[r]] # None
  /\ ran' = [ran EXCEPT ![r] = code[target[r]]] /\ cwd' = [cwd EXCEPT ![r] = None]
  /\ UNCHANGED <<handle, output, hosts>>

(* write_text() truncates the file of that name...                         *)
OpenResults(r) ==
  /\ CommandStep(r, "open", "write")
  /\ handle' = [handle EXCEPT ![r] = dir[target[r]]]
  /\ file' = [file EXCEPT ![target[r]] = Broken]
  /\ UNCHANGED <<cwd, ran, output, dir, code>>

(* ... and writes from its beginning, over the results another command has *)
(* written since; their end remains if they are longer. A file that was    *)
(* removed since takes them along.                                         *)
WriteResults(r) ==
  LET i == target[r]
  IN  /\ CommandStep(r, "write", "pack")
      /\ \E text \in {Whole(r)} \cup IF file[i].kind = "whole" THEN {Broken} ELSE {} :
           file' = [file EXCEPT ![i] = IF handle[r] = dir[i] THEN text ELSE @]
      /\ handle' = [handle EXCEPT ![r] = None] /\ ran' = [ran EXCEPT ![r] = None]
      /\ UNCHANGED <<cwd, output, dir, code>>

(* gzip | base64 of whatever the file now holds; SSM may cut the output.   *)
Pack(r) ==
  /\ CommandStep(r, "pack", "Success")
  /\ file[target[r]].kind # "none"
  /\ \E text \in {file[target[r]], Broken} : output' = [output EXCEPT ![r] = text]
  /\ UNCHANGED <<cwd, handle, ran, hosts>>

(* Any command of the script fails, or SSM ends it.                        *)
CommandFails(r) ==
  /\ AtWork(r) /\ CommandStep(r, command[r], "Failed")
  /\ cwd' = [cwd EXCEPT ![r] = None] /\ handle' = [handle EXCEPT ![r] = None]
  /\ ran' = [ran EXCEPT ![r] = None]
  /\ UNCHANGED <<output, hosts>>

Command(r) ==
  \/ Clean(r) \/ Unpack(r) \/ RunTests(r) \/ OpenResults(r) \/ WriteResults(r)
  \/ Pack(r) \/ CommandFails(r)

Next ==
  \/ Launch \/ \E i \in Instances : Terminate(i)
  \/ \E r \in Runs : Workflow(r) \/ StepFails(r) \/ Command(r)

Spec == Init /\ [][Next]_vars

(* The runner goes on; the host need not, and no step is bound to fail.    *)
FairSpec == Spec /\ \A r \in Runs : WF_vars(Workflow(r))

-----------------------------------------------------------------------------
(* Properties.                                                             *)

RunSteps == {"queued", "resolve", "send", "poll", "fetch", "status", "extract", "collect"}
            \cup Over
CommandSteps == {"none", "clean", "unpack", "test", "open", "write", "pack"} \cup Ended
Results == [kind : {"none", "broken", "whole"}, by : Runs \cup {None}, code : Runs \cup {None}]

(* Every variable stays within its range.                                  *)
TypeOK ==
  /\ launched \in 0 .. MaxInstances /\ up \subseteq 1 .. launched
  /\ branch \in Refs /\ pc \in [Runs -> RunSteps]
  /\ polls \in [Runs -> 0 .. MaxPolls] /\ target \in [Runs -> 0 .. launched]
  /\ fetched \in [Runs -> Results] /\ device \in [Runs -> 0 .. launched]
  /\ command \in [Runs -> CommandSteps] /\ output \in [Runs -> Results]
  /\ \A maker \in {cwd, handle, ran} : maker \in [Runs -> Runs \cup {None}]
  /\ dir \in [Instances -> Runs \cup {None}] /\ code \in [Instances -> Runs \cup {None}]
  /\ file \in [Instances -> Results] /\ met \in [Runs -> SUBSET Runs]

(* However runs, commands and their directory interfere, the results in a  *)
(* report are those of one execution of the tests on the target, and were  *)
(* written while the run's own command was there: its own, if it was alone *)
(* - and then by the code of its own branch.                               *)
ReportIsOfItsTime ==
  \A r \in Runs : pc[r] = "done" =>
    /\ fetched[r].kind = "whole" /\ fetched[r].by \in {r} \cup met[r]
    /\ target[fetched[r].by] = target[r]
    /\ met[r] = {} => fetched[r].code = r

(* Two reports of one branch never come from commands that met: of two     *)
(* that did, one was given up.                                             *)
BranchesAreSerial ==
  \A r \in Runs : \A q \in met[r] :
    branch[q] = branch[r] => "failed" \in {pc[q], pc[r]}

(* The collector looks the instance up a second time: its report is about  *)
(* the instance that was tested or a later one, never an earlier one,      *)
(* while the tested one is there.                                          *)
NeverAnOlderDevice ==
  \A r \in Runs : pc[r] = "done" /\ target[r] \in up => device[r] >= target[r]

(* Every run ends, even if its command never does.                         *)
RunsEnd == \A r \in Runs : <>(pc[r] \in Over)

=============================================================================
