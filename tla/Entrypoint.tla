----------------------------- MODULE Entrypoint -----------------------------
(***************************************************************************)
(* The container: container/entrypoint.sh, which generates the lab         *)
(* certificates that are missing, starts one server instance per profile,  *)
(* waits for the first of them to end and stops the others; and Docker     *)
(* around it (--restart unless-stopped), which starts the script again in  *)
(* the same file system.                                                   *)
(*                                                                         *)
(* openssl req writes the private key, then the certificate, each by       *)
(* creating (truncating) the file and then filling it.  The container may  *)
(* be killed between any two steps; what it has written is then in the     *)
(* file system.  A loss of power is not modelled: nothing is fsynced.      *)
(***************************************************************************)
EXTENDS Naturals, Sequences

CONSTANTS
  CONFIGS,     \* the profiles, in the order the script goes through them
  MaxCrashes,  \* BOUND: crashes of the container
  MaxRuns      \* BOUND: starts of the container

Profiles == {CONFIGS[i] : i \in DOMAIN CONFIGS}

ASSUME ConfigsAssumption ==
  /\ CONFIGS \in Seq(Profiles) /\ CONFIGS # <<>>
  /\ \A i, j \in DOMAIN CONFIGS : CONFIGS[i] = CONFIGS[j] => i = j
ASSUME BoundsAssumption == MaxCrashes \in Nat /\ MaxRuns \in Nat \ {0}

VARIABLES
  pc,        \* where the script is
  turn,      \* index in CONFIGS of the profile at hand
  key, crt,  \* server.key and server.crt of each profile
  keys,      \* key pairs generated so far, by profile
  pids,      \* instances whose process id the script has recorded
  instance,  \* each profile's server
  wanted,    \* whether the operator wants the container up (unless-stopped)
  crashes, runs

files == <<key, crt, keys>>
script == <<pc, turn, pids>>
docker == <<wanted, crashes, runs>>
vars == <<files, script, instance, docker>>

(* A file is absent, empty (created, nothing flushed), or whole: it holds  *)
(* the key, or certifies the key, of one generation.                       *)
Absent == 0
Empty == 1
Whole(generation) == generation + 1  \* generations are numbered from 1

FilesReady(p) == key[p] # Absent /\ crt[p] # Absent
Pair(p) == key[p] > Empty /\ crt[p] = key[p]

InstanceStates == {"none", "starting", "listening", "ended", "orphaned"}
Alive(p) == instance[p] \in {"starting", "listening"}

Init ==
  /\ pc = "validate_openssl" /\ turn = 1 /\ pids = {}
  /\ key = [p \in Profiles |-> Absent] /\ crt = [p \in Profiles |-> Absent]
  /\ keys = [p \in Profiles |-> 0]
  /\ instance = [p \in Profiles |-> "none"]
  /\ wanted = TRUE /\ crashes = 0 /\ runs = 1

-----------------------------------------------------------------------------
(* The script, up to the first instance.  Its exit status is left out:      *)
(* Docker restarts the container whatever it is.                           *)

Exit == pc' = "exited"

ValidateOpenssl ==
  /\ pc = "validate_openssl"
  /\ \/ pc' = "check_files"
     \/ Exit
  /\ UNCHANGED <<turn, pids, files, instance, docker>>

(* Wrong: one profile too many.                                            *)
NextProfileTooFar(again, after) ==
  IF turn <= Len(CONFIGS) THEN pc' = again /\ turn' = turn + 1
                          ELSE pc' = after /\ turn' = 1

(* The next profile, or what follows the last one.                         *)
NextProfile(again, after) ==
  IF turn < Len(CONFIGS) THEN pc' = again /\ turn' = turn + 1
                         ELSE pc' = after /\ turn' = 1

(* Wrong: files that exist are generated again.                            *)
CheckFilesAlways ==
  /\ pc = "check_files"
  /\ pc' = "create_key"
  /\ UNCHANGED <<turn, pids, files, instance, docker>>

(* Wrong: a profile that has its files is not left behind.                 *)
CheckFilesStuck ==
  /\ pc = "check_files"
  /\ pc' = IF FilesReady(CONFIGS[turn]) THEN "check_files" ELSE "create_key"
  /\ UNCHANGED <<turn, pids, files, instance, docker>>

(* [ -f key ] && [ -f crt ]: both exist, whatever they hold.               *)
CheckFiles ==
  /\ pc = "check_files"
  /\ IF FilesReady(CONFIGS[turn])
     THEN NextProfile("check_files", "validate_files")
     ELSE pc' = "create_key" /\ UNCHANGED turn
  /\ UNCHANGED <<pids, files, instance, docker>>

(* Wrong: both files are created at once.                                  *)
CreateBoth ==
  LET p == CONFIGS[turn]
  IN  /\ pc = "create_key" /\ pc' = "fill_key"
      /\ key' = [key EXCEPT ![p] = Empty] /\ crt' = [crt EXCEPT ![p] = Empty]
      /\ keys' = [keys EXCEPT ![p] = @ + 1]
      /\ UNCHANGED <<turn, pids, instance, docker>>

CreateKey ==
  LET p == CONFIGS[turn]
  IN  /\ pc = "create_key" /\ pc' = "fill_key"
      /\ key' = [key EXCEPT ![p] = Empty]
      /\ keys' = [keys EXCEPT ![p] = @ + 1]
      /\ UNCHANGED <<crt, turn, pids, instance, docker>>

FillKey ==
  LET p == CONFIGS[turn]
  IN  /\ pc = "fill_key" /\ pc' = "create_crt"
      /\ key' = [key EXCEPT ![p] = Whole(keys[p])]
      /\ UNCHANGED <<crt, keys, turn, pids, instance, docker>>

CreateCrt ==
  /\ pc = "create_crt" /\ pc' = "fill_crt"
  /\ crt' = [crt EXCEPT ![CONFIGS[turn]] = Empty]
  /\ UNCHANGED <<key, keys, turn, pids, instance, docker>>

FillCrt ==
  LET p == CONFIGS[turn]
  IN  /\ pc = "fill_crt"
      /\ crt' = [crt EXCEPT ![p] = Whole(keys[p])]
      /\ NextProfile("check_files", "validate_files")
      /\ UNCHANGED <<key, keys, pids, instance, docker>>

(* openssl fails in the middle (a full disk): set -e ends the script.      *)
OpensslFails ==
  /\ pc \in {"create_key", "fill_key", "create_crt", "fill_crt"}
  /\ Exit
  /\ UNCHANGED <<turn, pids, files, instance, docker>>

(* require_file only asks whether a file can be read.                      *)
ValidateRuntimeFiles ==
  /\ pc = "validate_files"
  /\ IF \A p \in Profiles : FilesReady(p)
     THEN pc' = "start"
     ELSE Exit
  /\ UNCHANGED <<turn, pids, files, instance, docker>>

(* start_instance: "$APP_BIN" "$config" &                                  *)
StartInstance ==
  /\ pc = "start" /\ pc' = "record"
  /\ instance' = [instance EXCEPT ![CONFIGS[turn]] = "starting"]
  /\ UNCHANGED <<turn, pids, files, docker>>

(* Wrong: pids=("$!") forgets the instances before.                        *)
RecordOnlyPid ==
  /\ pc = "record"
  /\ pids' = {CONFIGS[turn]}
  /\ NextProfile("start", "wait")
  /\ UNCHANGED <<files, instance, docker>>

(* pids+=("$!")                                                            *)
RecordPid ==
  /\ pc = "record"
  /\ pids' = pids \cup {CONFIGS[turn]}
  /\ NextProfile("start", "wait")
  /\ UNCHANGED <<files, instance, docker>>

(* Wrong: wait without -n.                                                 *)
WaitAll ==
  /\ pc = "wait" /\ \A p \in pids : instance[p] = "ended"
  /\ pc' = "kill"
  /\ UNCHANGED <<turn, pids, files, instance, docker>>

(* wait -n returns with the status of the first instance that has ended.   *)
WaitAny ==
  /\ pc = "wait" /\ \E p \in pids : instance[p] = "ended"
  /\ pc' = "kill"
  /\ UNCHANGED <<turn, pids, files, instance, docker>>

(* shutdown(): kill -TERM to every recorded instance...                    *)
KillAll ==
  /\ pc = "kill" /\ pc' = "reap"
  /\ instance' = [p \in Profiles |-> IF p \in pids /\ Alive(p) THEN "ended" ELSE instance[p]]
  /\ UNCHANGED <<turn, pids, files, docker>>

(* ... wait for all of them, and exit.  The container ends with its first  *)
(* process; an instance that still runs then has not been stopped by the   *)
(* script, nor waited for: it is left to the kernel, which kills it.       *)
Reap ==
  /\ pc = "reap" /\ \A p \in pids : instance[p] = "ended"
  /\ pc' = "exited"
  /\ instance' = [p \in Profiles |-> IF Alive(p) THEN "orphaned" ELSE instance[p]]
  /\ UNCHANGED <<turn, pids, files, docker>>

(* docker stop: the trap runs between two commands of the script; once it  *)
(* has begun it may be entered again, with the same effect.  A command     *)
(* that has started (openssl) ends first, so no file is left half-way.     *)
Term ==
  /\ wanted /\ pc \notin {"fill_key", "create_crt", "fill_crt", "exited"}
  /\ pc' = "kill" /\ wanted' = FALSE
  /\ UNCHANGED <<turn, pids, files, instance, crashes, runs>>

-----------------------------------------------------------------------------
(* The instances: TlsServer.tla seen from outside.                         *)

(* The start-up of a server loads the pair, checks that the two match, and *)
(* listens, or ends with status 1 (as it does for any other reason).       *)
Listen(p) ==
  /\ instance[p] = "starting" /\ Pair(p)
  /\ instance' = [instance EXCEPT ![p] = "listening"]
  /\ UNCHANGED <<script, files, docker>>

InstanceEnds(p) ==
  /\ Alive(p)
  /\ instance' = [instance EXCEPT ![p] = "ended"]
  /\ UNCHANGED <<script, files, docker>>

Refuse(p) == instance[p] = "starting" /\ ~Pair(p) /\ InstanceEnds(p)

(* SIGKILL, or the machine out of memory: the script ends, and all         *)
(* processes of the container with it.                                     *)
Crash ==
  /\ pc # "exited" /\ crashes < MaxCrashes
  /\ crashes' = crashes + 1 /\ Exit
  /\ instance' = [p \in Profiles |-> IF Alive(p) THEN "ended" ELSE instance[p]]
  /\ UNCHANGED <<turn, pids, files, wanted, runs>>

(* Docker starts the same container again: the files are still there.      *)
DockerRestart ==
  /\ pc = "exited" /\ wanted /\ runs < MaxRuns
  /\ runs' = runs + 1
  /\ pc' = "validate_openssl" /\ turn' = 1 /\ pids' = {}
  /\ instance' = [p \in Profiles |-> "none"]
  /\ UNCHANGED <<files, wanted, crashes>>

(* A deployment: docker rm -f, then docker run, in a new file system.      *)
Recreate ==
  /\ runs < MaxRuns
  /\ runs' = runs + 1 /\ wanted' = TRUE
  /\ pc' = "validate_openssl" /\ turn' = 1 /\ pids' = {}
  /\ instance' = [p \in Profiles |-> "none"]
  /\ key' = [p \in Profiles |-> Absent] /\ crt' = [p \in Profiles |-> Absent]
  /\ UNCHANGED <<keys, crashes>>

-----------------------------------------------------------------------------
Script ==
  \/ ValidateOpenssl \/ CheckFiles
  \/ CreateKey \/ FillKey \/ CreateCrt \/ FillCrt \/ OpensslFails
  \/ ValidateRuntimeFiles \/ StartInstance \/ RecordPid
  \/ WaitAny \/ KillAll \/ Reap

Next ==
  \/ Script \/ Term \/ Crash \/ DockerRestart \/ Recreate
  \/ \E p \in Profiles : Listen(p) \/ InstanceEnds(p) \/ Refuse(p)

Spec == Init /\ [][Next]_vars

(* The script runs on, and a server that starts gets through its start-up; *)
(* nothing says that a listening server ever ends.                         *)
FairSpec ==
  /\ Spec /\ WF_vars(Script)
  /\ \A p \in Profiles : WF_vars(Listen(p) \/ Refuse(p))

-----------------------------------------------------------------------------
(* Properties.                                                             *)

Generating == {"create_key", "fill_key", "create_crt", "fill_crt"}
Steps == {"validate_openssl", "check_files", "validate_files", "start", "record", "wait",
          "kill", "reap", "exited"} \cup Generating

(* Every variable stays within its range.                                  *)
TypeOK ==
  /\ pc \in Steps /\ turn \in DOMAIN CONFIGS /\ pids \subseteq Profiles
  /\ key \in [Profiles -> Nat] /\ crt \in [Profiles -> Nat] /\ keys \in [Profiles -> Nat]
  /\ instance \in [Profiles -> InstanceStates]
  /\ wanted \in BOOLEAN /\ crashes \in Nat /\ runs \in Nat

(* Wherever the machine stops and however often the script is started      *)
(* again: a certificate file is there only beside a whole key, and a whole *)
(* certificate certifies the key that is beside it, never an earlier one;  *)
(* and an instance that listens does so on such a pair, which has not      *)
(* changed underneath it.                                                  *)
CertificateOfItsKey ==
  \A p \in Profiles : /\ crt[p] # Absent => key[p] > Empty
                      /\ crt[p] > Empty => crt[p] = key[p]
                      /\ instance[p] = "listening" => Pair(p)

(* A script that ends has stopped what it started, and waited for it: the  *)
(* one instance that may be left to the kernel is the one that docker stop *)
(* found started and not yet recorded.                                     *)
OnlyUnrecordedAreOrphaned ==
  \A p \in Profiles : instance[p] = "orphaned" =>
    /\ pc = "exited" /\ p = CONFIGS[turn] /\ p \notin pids
    /\ ~wanted

(* A matching pair is kept for the life of the container: no restart       *)
(* generates a new one over it.                                            *)
PairsAreKept ==
  [][\A p \in Profiles : Pair(p) =>
       \/ key'[p] = key[p] /\ crt'[p] = crt[p]
       \/ key'[p] = Absent /\ crt'[p] = Absent /\ runs' = runs + 1]_vars

(* The container is never left serving a part of its profiles: once an     *)
(* instance has ended, the script stops the others and exits, so that      *)
(* Docker can start all of them again.                                     *)
OneDownAllDown ==
  (pc = "wait" /\ \E p \in Profiles : instance[p] = "ended") ~> pc \in {"exited", "validate_openssl"}

(* Every start of the container reaches the point where all instances have *)
(* been started, or ends.                                                  *)
BootEnds == pc = "validate_openssl" ~> pc \in {"wait", "exited"}

=============================================================================
