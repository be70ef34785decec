-------------------------- MODULE EntrypointProofs --------------------------
(***************************************************************************)
(* Theorems about Entrypoint.tla, for every list of profiles and any       *)
(* number of crashes and restarts of the container.                        *)
(***************************************************************************)
EXTENDS Entrypoint, TLAPS

USE ConfigsAssumption, BoundsAssumption

(* What lies between the first instance and the files: while the script    *)
(* may still write a file, no instance runs.                               *)
BeforeStart == {"validate_openssl", "check_files", "validate_files"} \cup Generating

NothingRunsYet == pc \in BeforeStart => \A p \in Profiles : instance[p] = "none"

(* How far openssl has come with the pair of the profile at hand.          *)
HalfWay ==
  LET p == CONFIGS[turn]
  IN  /\ pc \in {"create_key", "fill_key", "create_crt"} => crt[p] = Absent
      /\ pc \in {"fill_key", "create_crt", "fill_crt"} => keys[p] > 0
      /\ pc = "fill_key" => key[p] = Empty
      /\ pc \in {"create_crt", "fill_crt"} => key[p] = Whole(keys[p])
      /\ pc = "fill_crt" => crt[p] = Empty

(* Of the instances that run the script knows all but, for a moment, the   *)
(* one it has just started; if docker stop comes in that moment, it never  *)
(* knows of that one.                                                      *)
Unrecorded(p) ==
  /\ p = CONFIGS[turn]
  /\ \/ pc = "record"
     \/ ~wanted /\ pc \in {"kill", "reap", "exited"}

Supervised ==
  \A p \in Profiles :
    /\ Alive(p) => pc # "exited" /\ (p \in pids \/ Unrecorded(p))
    /\ instance[p] = "orphaned" => pc = "exited" /\ p \notin pids /\ Unrecorded(p)

(* The inductive invariant: what the runs check of the files, and the      *)
(* facts above, which say that a certificate is written only beside the    *)
(* key it was made for, and only while nobody reads it.                    *)
Inductive ==
  /\ TypeOK /\ NothingRunsYet /\ HalfWay
  /\ CertificateOfItsKey /\ Supervised

-----------------------------------------------------------------------------
(* The profile at hand is one of the profiles.                             *)
LEMMA ProfileAtHand == TypeOK => CONFIGS[turn] \in Profiles
BY DEF TypeOK, Profiles

(* The turn stays within the list.                                         *)
LEMMA NextProfileType ==
  ASSUME TypeOK, NEW again \in Steps, NEW after \in Steps, NextProfile(again, after)
  PROVE  pc' \in {again, after} /\ turn' \in DOMAIN CONFIGS
<1>1. /\ DOMAIN CONFIGS = 1 .. Len(CONFIGS) /\ Len(CONFIGS) \in Nat /\ turn \in 1 .. Len(CONFIGS)
  BY DEF TypeOK
<1> QED
  BY <1>1 DEF NextProfile

(* The initial states satisfy the invariant.                               *)
LEMMA InitInductive == Init => Inductive
<1> SUFFICES ASSUME Init PROVE Inductive
  OBVIOUS
<1> USE DEF Init, Absent, Empty, Steps, Generating
<1>1. 1 \in DOMAIN CONFIGS
  <2>1. DOMAIN CONFIGS = 1 .. Len(CONFIGS) /\ Len(CONFIGS) \in Nat /\ Len(CONFIGS) # 0
    OBVIOUS
  <2> QED
    BY <2>1
<1>2. TypeOK
  BY <1>1 DEF TypeOK, InstanceStates
<1>3. NothingRunsYet /\ HalfWay
  BY DEF NothingRunsYet, HalfWay
<1>4. CertificateOfItsKey /\ Supervised
  BY DEF CertificateOfItsKey, Supervised, Alive
<1> QED
  BY <1>2, <1>3, <1>4 DEF Inductive

(* Steps of the script that leave files and instances alone.               *)
LEMMA QuietStep ==
  ASSUME Inductive, pc' \in Steps, turn' \in DOMAIN CONFIGS, pids' = pids,
         UNCHANGED <<files, instance, crashes, runs>>, wanted' \in BOOLEAN,
         pc' \in BeforeStart => pc \in BeforeStart,
         \/ pc \in BeforeStart
         \/ /\ turn' = turn /\ pc # "exited" /\ pc' = "kill"
            /\ pc = "wait" \/ ~wanted',
         pc' \notin Generating
  PROVE  Inductive'
<1> USE DEF Inductive, files
<1>1. TypeOK'
  BY DEF TypeOK
<1>2. NothingRunsYet'
  BY DEF NothingRunsYet
<1>3. HalfWay'
  BY DEF HalfWay, Generating
<1>4. CertificateOfItsKey'
  BY DEF CertificateOfItsKey, Pair
<1>5. Supervised'
  <2>1. CASE pc \in BeforeStart
    BY <2>1 DEF Supervised, NothingRunsYet, Alive
  <2>2. CASE turn' = turn /\ pc # "exited" /\ pc' = "kill" /\ (pc = "wait" \/ ~wanted')
    <3>1. ASSUME NEW p \in Profiles, Alive(p)' PROVE p \in pids \/ Unrecorded(p)'
      <4>1. Alive(p)
        BY <3>1 DEF Alive
      <4> QED
        BY <2>2, <4>1 DEF Supervised, Unrecorded
    <3>2. \A p \in Profiles : instance'[p] # "orphaned"
      BY <2>2 DEF Supervised
    <3> QED
      BY <2>2, <3>1, <3>2 DEF Supervised
  <2> QED
    BY <2>1, <2>2
<1> QED
  BY <1>1, <1>2, <1>3, <1>4, <1>5

(* A step of the generation: only the files of the profile at hand change, *)
(* and they stay such that a certificate has its key beside it.            *)
LEMMA GeneratingStep ==
  ASSUME Inductive, pc \in Generating, pc' \in BeforeStart, turn' \in DOMAIN CONFIGS,
         UNCHANGED <<pids, instance, docker>>,
         /\ key' \in [Profiles -> Nat] /\ crt' \in [Profiles -> Nat] /\ keys' \in [Profiles -> Nat],
         \A q \in Profiles \ {CONFIGS[turn]} : key'[q] = key[q] /\ crt'[q] = crt[q],
         crt'[CONFIGS[turn]] # Absent => key'[CONFIGS[turn]] > Empty,
         crt'[CONFIGS[turn]] > Empty => crt'[CONFIGS[turn]] = key'[CONFIGS[turn]],
         HalfWay'
  PROVE  Inductive'
<1> USE DEF Inductive, docker, BeforeStart, Generating
<1>1. CONFIGS[turn] \in Profiles
  BY ProfileAtHand
<1>2. TypeOK'
  BY <1>1 DEF TypeOK, Steps
<1>3. NothingRunsYet'
  BY DEF NothingRunsYet
<1>4. CertificateOfItsKey'
  <2>1. \A p \in Profiles : instance'[p] # "listening"
    BY DEF NothingRunsYet
  <2> SUFFICES ASSUME NEW p \in Profiles
               PROVE  /\ crt'[p] # Absent => key'[p] > Empty
                      /\ crt'[p] > Empty => crt'[p] = key'[p]
    BY <2>1 DEF CertificateOfItsKey
  <2>2. CASE p = CONFIGS[turn]
    BY <2>2
  <2>3. CASE p # CONFIGS[turn]
    BY <2>3 DEF CertificateOfItsKey
  <2> QED
    BY <2>2, <2>3
<1>5. Supervised'
  BY DEF Supervised, NothingRunsYet, Alive
<1> QED
  BY <1>2, <1>3, <1>4, <1>5

(* Steps that change instances only: nothing comes to listen but on a      *)
(* matching pair, and nothing comes to life but while the script starts    *)
(* instances, which is after it has written its last file.                 *)
LEMMA InstanceStep ==
  ASSUME Inductive, pc' \in Steps, turn' \in DOMAIN CONFIGS, pids' \subseteq Profiles,
         UNCHANGED files, wanted' \in BOOLEAN, crashes' \in Nat, runs' \in Nat,
         instance' \in [Profiles -> InstanceStates],
         \A p \in Profiles : instance'[p] = "listening" => instance[p] = "listening" \/ Pair(p),
         pc' \in BeforeStart => \A p \in Profiles : instance'[p] = "none",
         Supervised',
         pc' \in Generating => pc' = pc /\ turn' = turn
  PROVE  Inductive'
<1> USE DEF Inductive, files
<1>1. TypeOK'
  BY DEF TypeOK
<1>2. NothingRunsYet'
  BY DEF NothingRunsYet
<1>3. HalfWay'
  BY DEF HalfWay, Generating
<1>4. CertificateOfItsKey'
  BY DEF CertificateOfItsKey, Pair
<1> QED
  BY <1>1, <1>2, <1>3, <1>4

-----------------------------------------------------------------------------
(* The checks of the script before it writes or starts anything.           *)
LEMMA CheckInductive ==
  Inductive /\ (ValidateOpenssl \/ CheckFiles \/ ValidateRuntimeFiles) => Inductive'
<1> SUFFICES ASSUME Inductive, ValidateOpenssl \/ CheckFiles \/ ValidateRuntimeFiles
             PROVE  Inductive'
  OBVIOUS
<1> USE DEF BeforeStart, Generating, Steps
<1>1. turn \in DOMAIN CONFIGS /\ wanted \in BOOLEAN
  BY DEF Inductive, TypeOK
<1>2. CASE ValidateOpenssl
  BY <1>1, <1>2, QuietStep DEF ValidateOpenssl, Exit, docker
<1>3. CASE ValidateRuntimeFiles
  BY <1>1, <1>3, QuietStep DEF ValidateRuntimeFiles, Exit, docker
<1>4. CASE CheckFiles
  <2>1. pc = "check_files" /\ UNCHANGED <<pids, files, instance, docker>>
    BY <1>4 DEF CheckFiles
  <2>2. CASE FilesReady(CONFIGS[turn])
    <3>1. NextProfile("check_files", "validate_files")
      BY <1>4, <2>2 DEF CheckFiles
    <3>2. pc' \in {"check_files", "validate_files"} /\ turn' \in DOMAIN CONFIGS
      BY <3>1, NextProfileType DEF Inductive
    <3> QED
      BY <1>1, <2>1, <3>2, QuietStep DEF docker
  <2>3. CASE ~FilesReady(CONFIGS[turn])
    <3>1. pc' = "create_key" /\ turn' = turn
      BY <1>4, <2>3 DEF CheckFiles
    <3>2. CONFIGS[turn] \in Profiles
      BY ProfileAtHand DEF Inductive
    <3>3. crt[CONFIGS[turn]] = Absent
      BY <2>3, <3>2 DEF Inductive, CertificateOfItsKey, FilesReady, TypeOK, Absent, Empty
    <3>4. TypeOK'
      BY <1>1, <2>1, <3>1 DEF Inductive, TypeOK, files, docker
    <3>5. HalfWay'
      BY <2>1, <3>1, <3>3 DEF HalfWay, files
    <3>6. NothingRunsYet' /\ Supervised' /\ CertificateOfItsKey'
      BY <2>1, <3>1 DEF Inductive, NothingRunsYet, Supervised, Alive,
                        CertificateOfItsKey, Pair, files
    <3> QED
      BY <3>4, <3>5, <3>6 DEF Inductive
  <2> QED
    BY <2>2, <2>3
<1> QED
  BY <1>2, <1>3, <1>4

(* The four steps of openssl, and its failure at any of them.              *)
LEMMA GenerateInductive ==
  Inductive /\ (CreateKey \/ FillKey \/ CreateCrt \/ FillCrt \/ OpensslFails) => Inductive'
<1> SUFFICES ASSUME Inductive, CreateKey \/ FillKey \/ CreateCrt \/ FillCrt \/ OpensslFails
             PROVE  Inductive'
  OBVIOUS
<1> DEFINE p == CONFIGS[turn]
<1>1. /\ p \in Profiles /\ turn \in DOMAIN CONFIGS /\ wanted \in BOOLEAN
      /\ key \in [Profiles -> Nat] /\ crt \in [Profiles -> Nat] /\ keys \in [Profiles -> Nat]
  BY ProfileAtHand DEF Inductive, TypeOK
<1>2. key[p] \in Nat /\ crt[p] \in Nat /\ keys[p] \in Nat
  BY <1>1
<1>3. ASSUME UNCHANGED keys \/ keys' = [keys EXCEPT ![p] = keys[p] + 1],
             UNCHANGED key \/ \E k \in Nat : key' = [key EXCEPT ![p] = k],
             UNCHANGED crt \/ \E c \in Nat : crt' = [crt EXCEPT ![p] = c]
      PROVE  /\ key' \in [Profiles -> Nat] /\ crt' \in [Profiles -> Nat]
             /\ keys' \in [Profiles -> Nat]
             /\ \A q \in Profiles \ {p} : key'[q] = key[q] /\ crt'[q] = crt[q]
  <2>1. keys[p] + 1 \in Nat
    BY <1>2
  <2> HIDE DEF p
  <2>2. keys' \in [Profiles -> Nat]
    BY <1>1, <1>3, <2>1
  <2>3. key' \in [Profiles -> Nat] /\ \A q \in Profiles \ {p} : key'[q] = key[q]
    BY <1>1, <1>3
  <2>4. crt' \in [Profiles -> Nat] /\ \A q \in Profiles \ {p} : crt'[q] = crt[q]
    BY <1>1, <1>3
  <2> QED
    BY <2>2, <2>3, <2>4
<1> USE DEF BeforeStart, Generating, Absent, Empty, Whole
<1>4. CASE CreateKey
  <2>1. /\ pc = "create_key" /\ pc' = "fill_key" /\ UNCHANGED <<crt, turn, pids, instance, docker>>
        /\ key' = [key EXCEPT ![p] = Empty] /\ keys' = [keys EXCEPT ![p] = keys[p] + 1]
        /\ crt[p] = Absent
    BY <1>4 DEF CreateKey, Inductive, HalfWay
  <2>2. HalfWay'
    BY <1>1, <1>2, <2>1 DEF HalfWay
  <2>3. /\ crt'[p] # Absent => key'[p] > Empty
        /\ crt'[p] > Empty => crt'[p] = key'[p]
    BY <1>1, <1>2, <2>1
  <2> QED
    BY <1>1, <1>2, <1>3, <2>1, <2>2, <2>3, GeneratingStep
<1>5. CASE FillKey
  <2>1. /\ pc = "fill_key" /\ pc' = "create_crt"
        /\ UNCHANGED <<crt, keys, turn, pids, instance, docker>>
        /\ key' = [key EXCEPT ![p] = Whole(keys[p])]
        /\ crt[p] = Absent /\ keys[p] > 0
    BY <1>5 DEF FillKey, Inductive, HalfWay
  <2>2. HalfWay'
    BY <1>1, <1>2, <2>1 DEF HalfWay
  <2>3. /\ crt'[p] # Absent => key'[p] > Empty
        /\ crt'[p] > Empty => crt'[p] = key'[p]
    BY <1>1, <1>2, <2>1
  <2> QED
    BY <1>1, <1>2, <1>3, <2>1, <2>2, <2>3, GeneratingStep
<1>6. CASE CreateCrt
  <2>1. /\ pc = "create_crt" /\ pc' = "fill_crt"
        /\ UNCHANGED <<key, keys, turn, pids, instance, docker>>
        /\ crt' = [crt EXCEPT ![p] = Empty]
        /\ key[p] = Whole(keys[p]) /\ keys[p] > 0
    BY <1>6 DEF CreateCrt, Inductive, HalfWay
  <2>2. HalfWay'
    BY <1>1, <1>2, <2>1 DEF HalfWay
  <2>3. /\ crt'[p] # Absent => key'[p] > Empty
        /\ crt'[p] > Empty => crt'[p] = key'[p]
    BY <1>1, <1>2, <2>1
  <2> QED
    BY <1>1, <1>2, <1>3, <2>1, <2>2, <2>3, GeneratingStep
<1>7. CASE FillCrt
  <2>1. /\ pc = "fill_crt" /\ NextProfile("check_files", "validate_files")
        /\ UNCHANGED <<key, keys, pids, instance, docker>>
        /\ crt' = [crt EXCEPT ![p] = Whole(keys[p])]
        /\ key[p] = Whole(keys[p]) /\ keys[p] > 0
    BY <1>7 DEF FillCrt, Inductive, HalfWay
  <2>2. pc' \in {"check_files", "validate_files"} /\ turn' \in DOMAIN CONFIGS
    BY <2>1, NextProfileType DEF Inductive, Steps
  <2>3. HalfWay'
    BY <2>2 DEF HalfWay
  <2>4. /\ crt'[p] # Absent => key'[p] > Empty
        /\ crt'[p] > Empty => crt'[p] = key'[p]
    BY <1>1, <1>2, <2>1
  <2> QED
    BY <1>1, <1>2, <1>3, <2>1, <2>2, <2>3, <2>4, GeneratingStep
<1>8. CASE OpensslFails
  BY <1>1, <1>8, QuietStep DEF OpensslFails, Exit, Steps, docker
<1> QED
  BY <1>4, <1>5, <1>6, <1>7, <1>8

(* The script from the first instance on, and SIGTERM at any of its steps. *)
LEMMA SuperviseInductive ==
  Inductive /\ (StartInstance \/ RecordPid \/ WaitAny \/ KillAll \/ Reap \/ Term) => Inductive'
<1> SUFFICES ASSUME Inductive,
                    StartInstance \/ RecordPid \/ WaitAny \/ KillAll \/ Reap \/ Term
             PROVE  Inductive'
  OBVIOUS
<1>1. /\ CONFIGS[turn] \in Profiles /\ turn \in DOMAIN CONFIGS /\ wanted \in BOOLEAN
      /\ pids \subseteq Profiles /\ crashes \in Nat /\ runs \in Nat
      /\ instance \in [Profiles -> InstanceStates]
  BY ProfileAtHand DEF Inductive, TypeOK
<1> USE DEF BeforeStart, Generating, Steps
<1>2. CASE StartInstance
  <2>1. pc' = "record" /\ UNCHANGED <<turn, pids, files, docker>>
        /\ instance' = [instance EXCEPT ![CONFIGS[turn]] = "starting"]
    BY <1>2 DEF StartInstance
  <2>2. instance' \in [Profiles -> InstanceStates]
        /\ \A p \in Profiles : instance'[p] = "listening" => instance[p] = "listening"
    BY <1>1, <2>1 DEF InstanceStates
  <2>3. Supervised'
    <3>1. pc = "start"
      BY <1>2 DEF StartInstance
    <3>2. ASSUME NEW p \in Profiles
          PROVE  /\ instance'[p] # "orphaned"
                 /\ Alive(p)' => p \in pids \/ p = CONFIGS[turn]
      <4>1. instance[p] # "orphaned" /\ (Alive(p) => p \in pids)
        BY <3>1 DEF Inductive, Supervised, Unrecorded
      <4>2. instance'[p] = IF p = CONFIGS[turn] THEN "starting" ELSE instance[p]
        BY <1>1, <2>1
      <4> QED
        BY <4>1, <4>2 DEF Alive
    <3> QED
      BY <2>1, <3>2 DEF Supervised, Unrecorded
  <2> QED
    BY <1>1, <2>1, <2>2, <2>3, InstanceStep DEF docker
<1>3. CASE RecordPid
  <2>1. pc = "record" /\ NextProfile("start", "wait") /\ UNCHANGED <<files, instance, docker>>
        /\ pids' \subseteq Profiles
    BY <1>1, <1>3 DEF RecordPid
  <2>2. pc' \in {"start", "wait"} /\ turn' \in DOMAIN CONFIGS
    BY <2>1, NextProfileType DEF Inductive
  <2>3. Supervised'
    <3>1. pids' = pids \cup {CONFIGS[turn]}
      BY <1>3 DEF RecordPid
    <3>2. \A p \in Profiles : instance[p] # "orphaned" /\ (Alive(p) => p \in pids')
      BY <2>1, <3>1 DEF Inductive, Supervised, Unrecorded
    <3>3. instance' = instance /\ pc' # "exited"
      BY <2>1, <2>2
    <3>4. ASSUME NEW p \in Profiles
          PROVE  /\ Alive(p)' => p \in pids'
                 /\ instance'[p] # "orphaned"
      BY <3>2, <3>3 DEF Alive
    <3> QED
      BY <3>3, <3>4 DEF Supervised
  <2> QED
    BY <1>1, <2>1, <2>2, <2>3, InstanceStep DEF docker
<1>4. CASE WaitAny
  BY <1>1, <1>4, QuietStep DEF WaitAny, docker
<1>6. CASE KillAll
  <2>1. /\ pc = "kill" /\ pc' = "reap" /\ UNCHANGED <<turn, pids, files, docker>>
        /\ instance' = [p \in Profiles |-> IF p \in pids /\ Alive(p) THEN "ended" ELSE instance[p]]
    BY <1>6 DEF KillAll
  <2>2. /\ instance' \in [Profiles -> InstanceStates]
        /\ \A p \in Profiles : instance'[p] = "listening" => instance[p] = "listening"
    BY <1>1, <2>1 DEF InstanceStates
  <2>3. Supervised'
    <3>1. ASSUME NEW p \in Profiles
          PROVE  instance'[p] # "orphaned" /\ (Alive(p)' => Unrecorded(p)')
      <4>1. instance[p] # "orphaned" /\ (Alive(p) => p \in pids \/ Unrecorded(p))
        BY <2>1 DEF Inductive, Supervised
      <4>2. Unrecorded(p) => Unrecorded(p)'
        BY <2>1 DEF Unrecorded, docker
      <4>3. instance'[p] = IF p \in pids /\ Alive(p) THEN "ended" ELSE instance[p]
        BY <2>1
      <4> QED
        BY <4>1, <4>2, <4>3 DEF Alive
    <3> QED
      BY <2>1, <3>1 DEF Supervised
  <2> QED
    BY <1>1, <2>1, <2>2, <2>3, InstanceStep DEF docker
<1>7. CASE Reap
  <2>1. /\ pc = "reap" /\ pc' = "exited" /\ UNCHANGED <<turn, pids, files, docker>>
        /\ \A p \in pids : instance[p] = "ended"
        /\ instance' = [p \in Profiles |-> IF Alive(p) THEN "orphaned" ELSE instance[p]]
    BY <1>7 DEF Reap
  <2>2. /\ instance' \in [Profiles -> InstanceStates]
        /\ \A p \in Profiles : instance'[p] = "listening" => instance[p] = "listening"
    BY <1>1, <2>1 DEF InstanceStates
  <2>3. Supervised'
    <3>1. ASSUME NEW p \in Profiles
          PROVE  ~Alive(p)' /\ (instance'[p] = "orphaned" => p \notin pids /\ Unrecorded(p)')
      <4>1. instance[p] # "orphaned" /\ (Alive(p) => p \in pids \/ Unrecorded(p))
        BY <2>1 DEF Inductive, Supervised
      <4>2. Alive(p) => p \notin pids
        BY <2>1 DEF Alive
      <4>3. Unrecorded(p) => Unrecorded(p)'
        BY <2>1 DEF Unrecorded, docker
      <4>4. instance'[p] = IF Alive(p) THEN "orphaned" ELSE instance[p]
        BY <2>1
      <4> QED
        BY <4>1, <4>2, <4>3, <4>4 DEF Alive
    <3> QED
      BY <2>1, <3>1 DEF Supervised
  <2> QED
    BY <1>1, <2>1, <2>2, <2>3, InstanceStep DEF docker
<1>8. CASE Term
  BY <1>1, <1>8, QuietStep DEF Term
<1> QED
  BY <1>2, <1>3, <1>4, <1>6, <1>7, <1>8

(* The instances themselves.                                               *)
LEMMA InstanceInductive ==
  ASSUME Inductive, NEW p \in Profiles, Listen(p) \/ InstanceEnds(p) \/ Refuse(p)
  PROVE  Inductive'
<1>1. /\ turn \in DOMAIN CONFIGS /\ wanted \in BOOLEAN /\ pc \in Steps
      /\ pids \subseteq Profiles /\ crashes \in Nat /\ runs \in Nat
      /\ instance \in [Profiles -> InstanceStates]
  BY DEF Inductive, TypeOK
<1>2. pc \notin BeforeStart /\ pc # "exited" /\ UNCHANGED <<script, files, docker>>
  BY DEF Inductive, NothingRunsYet, Supervised, Listen, InstanceEnds, Refuse, Alive
<1>5. ASSUME Alive(p), instance' = [instance EXCEPT ![p] = "listening"]
             \/ instance' = [instance EXCEPT ![p] = "ended"]
      PROVE  Supervised'
  <2>1. UNCHANGED <<pc, turn, pids, wanted>>
    BY <1>2 DEF script, docker
  <2>2. ASSUME NEW q \in Profiles
        PROVE  /\ Alive(q)' => Alive(q)
               /\ instance'[q] = "orphaned" => instance[q] = "orphaned"
    BY <1>1, <1>5 DEF Alive
  <2> QED
    BY <2>1, <2>2 DEF Inductive, Supervised, Unrecorded
<1>3. CASE Listen(p)
  <2>1. /\ instance' \in [Profiles -> InstanceStates]
        /\ \A q \in Profiles : instance'[q] = "listening" => instance[q] = "listening" \/ Pair(q)
    BY <1>1, <1>3 DEF Listen, InstanceStates
  <2>2. Supervised'
    BY <1>3, <1>5 DEF Listen, Alive
  <2> QED
    BY <1>1, <1>2, <2>1, <2>2, InstanceStep DEF script, docker, BeforeStart
<1>4. CASE InstanceEnds(p)
  <2>1. /\ instance' \in [Profiles -> InstanceStates]
        /\ \A q \in Profiles : instance'[q] = "listening" => instance[q] = "listening" \/ Pair(q)
    BY <1>1, <1>4 DEF InstanceEnds, InstanceStates
  <2>2. Supervised'
    BY <1>4, <1>5 DEF InstanceEnds
  <2> QED
    BY <1>1, <1>2, <2>1, <2>2, InstanceStep DEF script, docker, BeforeStart
<1> QED
  BY <1>3, <1>4 DEF Refuse

(* The machine and Docker around the script.                               *)
LEMMA DockerInductive ==
  Inductive /\ (Crash \/ DockerRestart \/ Recreate) => Inductive'
<1> SUFFICES ASSUME Inductive, Crash \/ DockerRestart \/ Recreate PROVE Inductive'
  OBVIOUS
<1>1. /\ turn \in DOMAIN CONFIGS /\ wanted \in BOOLEAN
      /\ pids \subseteq Profiles /\ crashes \in Nat /\ runs \in Nat
      /\ instance \in [Profiles -> InstanceStates]
      /\ 1 \in DOMAIN CONFIGS
  <2>1. DOMAIN CONFIGS = 1 .. Len(CONFIGS) /\ Len(CONFIGS) \in Nat /\ Len(CONFIGS) # 0
    OBVIOUS
  <2> QED
    BY <2>1 DEF Inductive, TypeOK
<1> USE DEF BeforeStart, Generating, Steps, InstanceStates
<1>2. CASE Crash
  <2>1. /\ pc # "exited" /\ pc' = "exited"
        /\ instance' = [p \in Profiles |-> IF Alive(p) THEN "ended" ELSE instance[p]]
    BY <1>2 DEF Crash, Exit
  <2>2. Supervised'
    <3>1. \A p \in Profiles : instance[p] # "orphaned"
      BY <2>1 DEF Inductive, Supervised
    <3> QED
      BY <2>1, <3>1 DEF Supervised, Alive
  <2> QED
    BY <1>1, <1>2, <2>2, InstanceStep DEF Crash, Exit, Alive
<1>3. CASE DockerRestart
  <2>1. Supervised'
    BY <1>3 DEF DockerRestart, Supervised, Alive
  <2> QED
    BY <1>1, <1>3, <2>1, InstanceStep DEF DockerRestart
<1>4. CASE Recreate
  <2>1. /\ pc' = "validate_openssl" /\ turn' = 1 /\ pids' = {} /\ UNCHANGED <<keys, crashes>>
        /\ wanted' = TRUE /\ runs' = runs + 1
        /\ instance' = [p \in Profiles |-> "none"]
        /\ key' = [p \in Profiles |-> Absent] /\ crt' = [p \in Profiles |-> Absent]
    BY <1>4 DEF Recreate
  <2>2. TypeOK'
    BY <1>1, <2>1 DEF Inductive, TypeOK, Absent
  <2>3. NothingRunsYet' /\ HalfWay' /\ Supervised' /\ CertificateOfItsKey'
    BY <2>1 DEF NothingRunsYet, HalfWay, Supervised, Alive, CertificateOfItsKey, Absent, Empty
  <2> QED
    BY <2>2, <2>3 DEF Inductive
<1> QED
  BY <1>2, <1>3, <1>4

-----------------------------------------------------------------------------
(* The inductive invariant holds in every reachable state.                 *)
THEOREM InductiveInvariant == Spec => []Inductive
<1>1. Init => Inductive
  BY InitInductive
<1>2. Inductive /\ UNCHANGED vars => Inductive'
  BY DEF vars, files, script, docker, Inductive, TypeOK, NothingRunsYet, HalfWay,
         CertificateOfItsKey, Supervised, Unrecorded, Pair, Alive
<1>3. Inductive /\ Next => Inductive'
  BY CheckInductive, GenerateInductive, SuperviseInductive, InstanceInductive, DockerInductive
     DEF Next, Script
<1> QED
  BY <1>1, <1>2, <1>3, PTL DEF Spec

(* Every variable stays within its range.                                  *)
THEOREM TypeCorrect == Spec => []TypeOK
<1>1. Inductive => TypeOK
  BY DEF Inductive
<1> QED
  BY <1>1, InductiveInvariant, PTL

(* No sequence of crashes, failures of openssl and restarts leaves a whole *)
(* certificate beside a key it does not certify, and no instance listens   *)
(* on anything but a matching pair.                                        *)
THEOREM CertificatesMatch == Spec => []CertificateOfItsKey
<1>1. Inductive => CertificateOfItsKey
  BY DEF Inductive
<1> QED
  BY <1>1, InductiveInvariant, PTL

(* The only instance that the script can leave to the kernel is the last   *)
(* one it started, when docker stop came before it had recorded it.        *)
THEOREM OrphansAreUnrecorded == Spec => []OnlyUnrecordedAreOrphaned
<1>1. Inductive => OnlyUnrecordedAreOrphaned
  BY DEF Inductive, Supervised, Unrecorded, OnlyUnrecordedAreOrphaned
<1> QED
  BY <1>1, InductiveInvariant, PTL

(* A matching pair, once there, stays until the container is recreated:    *)
(* openssl writes only where a file of the pair is missing.                *)
THEOREM PairsSurvive == Spec => PairsAreKept
<1> DEFINE Kept(p) == \/ key'[p] = key[p] /\ crt'[p] = crt[p]
                      \/ key'[p] = Absent /\ crt'[p] = Absent /\ runs' = runs + 1
<1>1. ASSUME Inductive, Next, NEW p \in Profiles, Pair(p) PROVE Kept(p)
  <2>1. key \in [Profiles -> Nat] /\ crt \in [Profiles -> Nat]
    BY <1>1 DEF Inductive, TypeOK
  <2>2. CASE CreateKey \/ FillKey \/ CreateCrt \/ FillCrt
    <3>1. pc \in Generating /\ p # CONFIGS[turn]
      BY <1>1, <2>2 DEF Inductive, HalfWay, Pair, Absent, Empty, Generating, CreateKey, FillKey,
                        CreateCrt, FillCrt
    <3>2. key'[p] = key[p] /\ crt'[p] = crt[p]
      BY <2>1, <2>2, <3>1 DEF CreateKey, FillKey, CreateCrt, FillCrt
    <3> QED
      BY <3>2
  <2>3. CASE Recreate
    BY <2>3 DEF Recreate
  <2>4. CASE UNCHANGED files
    BY <2>4 DEF files
  <2> QED
    BY <1>1, <2>2, <2>3, <2>4 DEF Next, Script, ValidateOpenssl, CheckFiles, OpensslFails,
         ValidateRuntimeFiles, StartInstance, RecordPid, WaitAny, KillAll, Reap, Term, Crash,
         DockerRestart, Listen, InstanceEnds, Refuse
<1>2. Inductive /\ [Next]_vars => [\A p \in Profiles : Pair(p) => Kept(p)]_vars
  BY <1>1
<1> QED
  BY <1>2, InductiveInvariant, PTL DEF Spec, PairsAreKept

=============================================================================
