------------------------------- MODULE Deploy -------------------------------
(***************************************************************************)
(* The deployment workflow (.github/workflows/docker-build-push.yml):      *)
(* policy gate, build, push under the commit's tag and under latest, one   *)
(* SSM command to the host, and polling for its end.                       *)
(*                                                                         *)
(* Runs are dispatched by hand and the workflow has no concurrency group,  *)
(* so they overlap, and so do their commands on the host; a run that gives *)
(* up polling leaves its command running.  A run is named by its commit.   *)
(* The registry expires images by the lifecycle policy that                *)
(* infra/terraform/modules/ecr gives it.                                   *)
(***************************************************************************)
EXTENDS Naturals

CONSTANTS
  Runs,        \* runs of the workflow
  None,        \* no image, no container
  MaxPolls,    \* BOUND: rounds of the polling loop (60 in the workflow)
  KeepImages   \* images the lifecycle policy keeps (10)

ASSUME NoneAssumption == None \notin Runs
ASSUME MaxPollsAssumption == MaxPolls \in Nat \ {0}
ASSUME KeepAssumption == KeepImages \in Nat \ {0}

VARIABLES
  \* the workflow
  pc,         \* the step each run is about to take
  polls,      \* rounds of the polling loop so far
  passed,     \* commits the policy gate has passed
  met,        \* history: the runs that were under way while a run was
  \* the registry
  images,     \* commits whose image is there under its own tag
  newer,      \* images pushed since that of a commit
  latest,     \* the image tagged latest
  \* the host
  command,    \* where the command of each run is
  resolved,   \* the image its docker pull is downloading
  local,      \* the host's own tag latest
  container,  \* the image of the container named pqc-tls
  up,         \* whether that container has been started
  remover,    \* the last command that removed the container
  started     \* what each command has started

workflow == <<pc, polls, passed, met>>
registry == <<images, newer, latest>>
host == <<local, container, up, remover, started>>
vars == <<workflow, registry, command, resolved, host>>

Image == Runs \cup {None}
RunSteps == {"gate", "push_sha", "push_latest", "send", "poll", "succeeded", "failed"}
Working == {"pull", "tag", "remove", "run", "logs"}
CommandSteps == {"none", "Success", "Failed"} \cup Working

Init ==
  /\ pc = [r \in Runs |-> "gate"] /\ polls = [r \in Runs |-> 0] /\ passed = {}
  /\ met = [r \in Runs |-> {}]
  /\ images = {} /\ newer = [r \in Runs |-> 0] /\ latest = None
  /\ command = [r \in Runs |-> "none"] /\ resolved = [r \in Runs |-> None]
  /\ local = None /\ container = None /\ up = FALSE /\ remover = None
  /\ started = [r \in Runs |-> None]

-----------------------------------------------------------------------------
(* The runner.                                                             *)

Goto(r, step) == pc' = [pc EXCEPT ![r] = step]

RunStep(r, from, to) ==
  /\ pc[r] = from /\ Goto(r, to)
  /\ UNCHANGED <<polls, host, resolved>>

(* A run is under way on behalf of the host from its start to the end of   *)
(* its command, which may come after the end of the run.                   *)
UnderWay(r) ==
  \/ pc[r] \in {"push_sha", "push_latest", "send", "poll"}
  \/ command[r] \in Working

(* A run that gets under way meets those that are.                         *)
Meet(r) ==
  met' = [q \in Runs |-> IF q = r THEN {p \in Runs \ {r} : UnderWay(p)}
                                  ELSE met[q] \cup {p \in {r} : UnderWay(q)}]

(* Wrong: the exit status of the gate is not looked at.                    *)
GateAdvisory(r) ==
  /\ RunStep(r, "gate", "push_sha") /\ passed' \in {passed, passed \cup {r}} /\ Meet(r)
  /\ UNCHANGED <<registry, command>>

(* validate_crypto_config.py: the job ends here unless the policy passes.  *)
Gate(r) ==
  /\ \/ RunStep(r, "gate", "push_sha") /\ passed' = passed \cup {r} /\ Meet(r)
     \/ RunStep(r, "gate", "failed") /\ UNCHANGED <<passed, met>>
  /\ UNCHANGED <<registry, command>>

PushSha(r) ==
  /\ RunStep(r, "push_sha", "push_latest")
  /\ images' = images \cup {r}
  /\ newer' = [q \in Runs |-> IF q \in images THEN newer[q] + 1 ELSE newer[q]]
  /\ UNCHANGED <<passed, met, latest, command>>

PushLatest(r) ==
  /\ RunStep(r, "push_latest", "send")
  /\ latest' = r
  /\ UNCHANGED <<passed, met, images, newer, command>>

(* The registry applies its lifecycle policy within a day or so: of the    *)
(* images that have a commit's tag it keeps the KeepImages newest. An      *)
(* image goes with all its tags.                                           *)
Expire(r) ==
  /\ r \in images /\ newer[r] >= KeepImages
  /\ images' = images \ {r} /\ latest' = IF latest = r THEN None ELSE latest
  /\ UNCHANGED <<newer, workflow, command, resolved, host>>

SendCommand(r) ==
  /\ RunStep(r, "send", "poll")
  /\ command' = [command EXCEPT ![r] = "pull"]
  /\ UNCHANGED <<passed, met, registry>>

(* Any other step of the job may fail and end it: build, credentials, no   *)
(* running instance with the tag, an instance that is not online.          *)
StepFails(r) ==
  /\ pc[r] \in {"push_sha", "push_latest", "send"} /\ RunStep(r, pc[r], "failed")
  /\ UNCHANGED <<passed, met, registry, command>>

(* Wrong: one round too many.                                              *)
WaitingTooLong(r) ==
  /\ polls' = [polls EXCEPT ![r] = @ + 1]
  /\ IF polls[r] < MaxPolls THEN UNCHANGED pc ELSE Goto(r, "failed")

(* A round without a result: the command is not over, or the status could  *)
(* not be read.                                                            *)
Waiting(r) ==
  /\ polls' = [polls EXCEPT ![r] = @ + 1]
  /\ IF polls[r] + 1 < MaxPolls THEN UNCHANGED pc ELSE Goto(r, "failed")

(* One round. The run fails, too, if the output of a command that has      *)
(* succeeded cannot be read.                                               *)
Poll(r) ==
  /\ pc[r] = "poll"
  /\ \/ command[r] = "Success" /\ (Goto(r, "succeeded") \/ Goto(r, "failed")) /\ UNCHANGED polls
     \/ command[r] = "Failed" /\ Goto(r, "failed") /\ UNCHANGED polls
     \/ Waiting(r)
  /\ UNCHANGED <<passed, met, registry, command, resolved, host>>

-----------------------------------------------------------------------------
(* The command on the host: a shell script under set -e.                   *)

CommandStep(r, from, to) ==
  /\ command[r] = from /\ command' = [command EXCEPT ![r] = to]
  /\ UNCHANGED <<workflow, registry>>

(* Wrong: the image is not pulled when the host has one.                   *)
PullIfMissing(r) ==
  /\ CommandStep(r, "pull", "tag")
  /\ resolved' = [resolved EXCEPT ![r] = IF local = None THEN latest ELSE local]
  /\ UNCHANGED host

(* docker pull: the tag is resolved first...                               *)
Pull(r) ==
  /\ latest # None
  /\ CommandStep(r, "pull", "tag")
  /\ resolved' = [resolved EXCEPT ![r] = latest]
  /\ UNCHANGED host

(* ... and set on the host when the layers have arrived.                   *)
Tag(r) ==
  /\ CommandStep(r, "tag", "remove")
  /\ local' = resolved[r]
  /\ UNCHANGED <<resolved, container, up, remover, started>>

(* docker rm -f, whose failure is ignored.                                 *)
Remove(r) ==
  /\ CommandStep(r, "remove", "run")
  /\ \/ container' = None /\ up' = FALSE /\ remover' = r
     \/ UNCHANGED <<container, up, remover>>
  /\ UNCHANGED <<resolved, local, started>>

(* docker run, from the host's tag; the name must be free. It creates the  *)
(* container and starts it.                                                *)
Run(r) ==
  /\ container = None
  /\ CommandStep(r, "run", "logs")
  /\ container' = local /\ up' = TRUE /\ started' = [started EXCEPT ![r] = local]
  /\ UNCHANGED <<resolved, local, remover>>

(* One it could not start is left behind, with the name.                   *)
StartFails(r) ==
  /\ container = None
  /\ CommandStep(r, "run", "Failed")
  /\ container' = local
  /\ UNCHANGED <<resolved, local, up, remover, started>>

NameTaken(r) ==
  /\ container # None
  /\ CommandStep(r, "run", "Failed")
  /\ UNCHANGED <<resolved, host>>

(* docker logs fails when another command has removed the container.       *)
Logs(r) ==
  /\ CommandStep(r, "logs", IF container = None THEN "Failed" ELSE "Success")
  /\ UNCHANGED <<resolved, host>>

(* Wrong: a script that fails removes the container on its way out.        *)
CommandFailsTidily(r) ==
  /\ command[r] \in Working /\ CommandStep(r, command[r], "Failed")
  /\ container' = None /\ up' = FALSE
  /\ UNCHANGED <<resolved, local, remover, started>>

(* A step of the script fails, or SSM ends it: Failed and TimedOut are one *)
(* to the poller. Nothing in the repository cancels a command.             *)
CommandFails(r) ==
  /\ command[r] \in Working /\ CommandStep(r, command[r], "Failed")
  /\ UNCHANGED <<resolved, host>>

-----------------------------------------------------------------------------
Workflow(r) ==
  Gate(r) \/ PushSha(r) \/ PushLatest(r) \/ SendCommand(r) \/ StepFails(r) \/ Poll(r)

Command(r) ==
  \/ Pull(r) \/ Tag(r) \/ Remove(r) \/ Run(r) \/ StartFails(r) \/ NameTaken(r) \/ Logs(r)
  \/ CommandFails(r)

Next == \E r \in Runs : Workflow(r) \/ Command(r) \/ Expire(r)

Spec == Init /\ [][Next]_vars

-----------------------------------------------------------------------------
(* Properties.                                                             *)

(* Every variable stays within its range.                                  *)
TypeOK ==
  /\ pc \in [Runs -> RunSteps] /\ polls \in [Runs -> 0 .. MaxPolls]
  /\ passed \subseteq Runs /\ met \in [Runs -> SUBSET Runs]
  /\ images \subseteq Runs /\ newer \in [Runs -> Nat] /\ latest \in Image
  /\ command \in [Runs -> CommandSteps] /\ resolved \in [Runs -> Image]
  /\ local \in Image /\ container \in Image /\ up \in BOOLEAN
  /\ remover \in Image /\ started \in [Runs -> Image]

(* However runs and commands overlap, what the host runs is an image that  *)
(* the policy gate has passed and that was pushed under the tag of its     *)
(* commit, where it can be found until KeepImages newer ones have come.    *)
OnlyGatedImagesRun ==
  container # None => /\ container \in passed
                      /\ container \in images \/ newer[container] >= KeepImages

(* Once deployed, the service is down only while the last command that     *)
(* removed it is about to start it again, or has failed before it could:   *)
(* no other command, and none that has failed elsewhere, takes it down.    *)
DownOnlyWhileReplaced ==
  ~up /\ remover # None =>
    command[remover] \in {"run", "Failed"} /\ started[remover] = None

(* Said by the summary of a run that succeeded: "Docker image built,       *)
(* pushed and deployed", with the tag of the run's own commit.  If it has  *)
(* started another image, it has met the reason on its way, be it a run    *)
(* or the command that a run left behind when it gave up polling: the      *)
(* image is the other run's, or what that run's command pulled.            *)
ForeignImageWasMet ==
  \A r \in Runs : pc[r] = "succeeded" =>
    \/ started[r] = r
    \/ \E q \in met[r] : started[r] \in {q, resolved[q]}

=============================================================================
