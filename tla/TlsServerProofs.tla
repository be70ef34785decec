--------------------------- MODULE TlsServerProofs ---------------------------
(***************************************************************************)
(* Theorems about TlsServer.tla, for every set of connections, every       *)
(* length of the kernel's queue and any number of restarts.                *)
(***************************************************************************)
EXTENDS TlsServer, SequenceTheorems, TLAPS

USE NoConnAssumption, BacklogAssumption, MaxRestartsAssumption, OperatorStopsAssumption

(* getOpenSslError() leaves a queue, and called with one that is not empty *)
(* it answers with one of its entries.                                     *)
Diagnosis == [newest : Error \cup {NoError}, reported : Error \cup {NoError}]

LEMMA GetOpenSslErrorType ==
  ASSUME diagnoses \subseteq Diagnosis, NEW queue \in Seq(Error), GetOpenSslError(queue)
  PROVE  /\ diagnoses' \subseteq Diagnosis
         /\ errq' \in Seq(Error)
         /\ queue # <<>> => Oldest(queue) \in Error
<1>1. ASSUME queue # <<>>
      PROVE  Head(queue) \in Error /\ Tail(queue) \in Seq(Error) /\ queue[Len(queue)] \in Error
  BY <1>1
<1>2. Oldest(queue) \in Error \cup {NoError} /\ Newest(queue) \in Error \cup {NoError}
  BY <1>1 DEF Oldest, Newest
<1>3. [newest |-> Newest(queue), reported |-> Oldest(queue)] \in Diagnosis
  BY <1>2 DEF Diagnosis
<1>4. diagnoses' \subseteq Diagnosis
  BY <1>3 DEF GetOpenSslError
<1>5. errq' \in Seq(Error)
  BY <1>1 DEF GetOpenSslError
<1> QED
  BY <1>1, <1>4, <1>5 DEF Oldest

(* Entries of the error queue have the type of entries.                    *)
LEMMA ErrType ==
  ASSUME NEW op \in Ops, NEW c \in Conns \cup {NoConn}
  PROVE  Err(op, c) \in Error
BY DEF Err, Error

(* An error queue that was just appended to is a queue and is not empty.   *)
LEMMA AppendError ==
  ASSUME NEW queue \in Seq(Error), NEW e \in Error
  PROVE  Append(queue, e) \in Seq(Error) /\ Append(queue, e) # <<>>
<1>1. Append(queue, e) \in Seq(Error) /\ Len(Append(queue, e)) = Len(queue) + 1
  OBVIOUS
<1>2. Len(queue) \in Nat /\ Len(<<>>) = 0
  OBVIOUS
<1> QED
  BY <1>1, <1>2

(* The end of the process keeps every variable within its range.           *)
LEMMA ProcessEndsType ==
  ASSUME TypeOK, ProcessEnds
  PROVE  /\ pc' \in Steps /\ current' \in Conns \cup {NoConn} /\ fds' \subseteq Conns
         /\ ssl' \in {"none", "live", "failed"} /\ request' \in Requests
         /\ body' \in [conn : Conns \cup {NoConn}, kind : Kinds \cup {"none"},
                       phase : Phases \cup {"none"}, errors : Seq(Error)]
         /\ backlog' \in Seq(Conns) /\ gone' \subseteq Conns /\ fate' \in [Conns -> Fates]
         /\ UNCHANGED <<machineVars, auditVars, client, secured>>
<1>1. <<>> \in Seq(Error) /\ <<>> \in Seq(Conns)
  OBVIOUS
<1>2. NoBody \in [conn : Conns \cup {NoConn}, kind : Kinds \cup {"none"},
                  phase : Phases \cup {"none"}, errors : Seq(Error)]
  BY <1>1 DEF NoBody
<1>3. fate' \in [Conns -> Fates]
  BY DEF ProcessEnds, TypeOK, Fates
<1> QED
  BY <1>1, <1>2, <1>3 DEF TypeOK, ProcessEnds, Goto, Steps, Requests

(* The initial states are well typed.                                      *)
LEMMA InitType == Init => TypeOK
<1> SUFFICES ASSUME Init PROVE TypeOK
  OBVIOUS
<1>1. <<>> \in Seq(Error) /\ <<>> \in Seq(Conns) /\ <<>> \in Seq(Event)
  OBVIOUS
<1>2. client \in [Conns -> ClientStates] /\ fate \in [Conns -> Fates]
  BY DEF Init, ClientStates, Fates
<1> QED
  BY <1>1, <1>2 DEF Init, TypeOK, NoBody, Steps, StartupSteps, Requests

(* Appending an event, or dropping it, keeps the log a log.                *)
LEMMA AppendOrDropType ==
  ASSUME TypeOK, NEW e \in Event, AppendOrDrop(e)
  PROVE  log' \in Seq(Event) /\ dropped' \subseteq Conns
<1>1. e.conn \in Conns
  BY DEF Event
<1>2. log \in Seq(Event) /\ dropped \subseteq Conns
  BY DEF TypeOK
<1>3. CASE log' = Append(log, e) /\ UNCHANGED dropped
  BY <1>2, <1>3
<1>4. CASE dropped' = dropped \cup {e.conn} /\ UNCHANGED log
  BY <1>1, <1>2, <1>4
<1> QED
  BY <1>3, <1>4 DEF AppendOrDrop

(* Every step keeps every variable within its range.                       *)
LEMMA StartupType == TypeOK /\ Startup => TypeOK'
<1> SUFFICES ASSUME TypeOK, Startup PROVE TypeOK'
  OBVIOUS
<1> USE DEF Startup
<1>1. /\ Err("oqs", NoConn) \in Error /\ Err("default", NoConn) \in Error
      /\ Err("SSL_CTX", NoConn) \in Error
  BY ErrType DEF Ops
<1>2. ASSUME NEW from, NEW to \in Steps, StartupStep(from, to), errq' \in Seq(Error)
      PROVE  TypeOK'
  BY <1>2 DEF TypeOK, StartupStep, Goto, machineVars, auditVars, clientVars
<1>3. ASSUME Fatal PROVE TypeOK'
  BY <1>3, ProcessEndsType DEF Fatal, TypeOK, machineVars, auditVars
<1>4. ASSUME NEW queue \in Seq(Error), FatalOpenSsl(queue)
      PROVE  TypeOK'
  <2>1. ProcessEnds /\ GetOpenSslError(queue)
    BY <1>4 DEF FatalOpenSsl
  <2>2. diagnoses' \subseteq Diagnosis /\ errq' \in Seq(Error)
    BY <1>4, <2>1, GetOpenSslErrorType DEF TypeOK, Diagnosis
  <2> QED
    BY <2>1, <2>2, ProcessEndsType DEF TypeOK, Diagnosis, machineVars, auditVars
<1>5. CASE LoadConfig
  BY <1>2, <1>3, <1>5 DEF LoadConfig, Steps, StartupSteps, TypeOK
<1>6. CASE LoadProviders
  <2> DEFINE queue == IF oqs THEN errq ELSE Append(errq, Err("oqs", NoConn))
  <2>1. queue \in Seq(Error) /\ Append(queue, Err("default", NoConn)) \in Seq(Error)
    BY <1>1, AppendError DEF TypeOK
  <2>2. CASE StartupStep("load_providers", "create_context") /\ errq' = queue
    BY <1>2, <2>1, <2>2 DEF Steps, StartupSteps
  <2>3. CASE FatalOpenSsl(Append(queue, Err("default", NoConn)))
    BY <1>1, <1>4, <2>1, <2>3
  <2> QED
    BY <1>6, <2>2, <2>3 DEF LoadProviders
<1>7. CASE CreateTlsContext
  <2>1. errq \in Seq(Error) /\ Append(errq, Err("SSL_CTX", NoConn)) \in Seq(Error)
    BY <1>1, AppendError DEF TypeOK
  <2>2. CASE StartupStep("create_context", "create_socket") /\ UNCHANGED errq
    BY <1>2, <2>2 DEF Steps, StartupSteps, TypeOK
  <2>3. CASE \E queue \in {errq, Append(errq, Err("SSL_CTX", NoConn))} : FatalOpenSsl(queue)
    BY <1>4, <2>1, <2>3
  <2> QED
    BY <1>3, <1>7, <2>2, <2>3 DEF CreateTlsContext
<1>8. CASE CreateTcpServerSocket
  BY <1>2, <1>3, <1>8 DEF CreateTcpServerSocket, Steps, TypeOK
<1> QED
  BY <1>5, <1>6, <1>7, <1>8

(* A client's step keeps every variable within its range.                  *)
LEMMA ClientType == ASSUME TypeOK, NEW c \in Conns, Connect(c) \/ Client(c) PROVE TypeOK'
<1> USE DEF TypeOK, ClientActs, processVars, machineVars, auditVars
<1>1. CASE Connect(c)
  <2>1. client' \in [Conns -> ClientStates] /\ fate' \in [Conns -> Fates]
    BY <1>1 DEF Connect, ClientStates, Fates
  <2>2. backlog' \in Seq(Conns)
    BY <1>1 DEF Connect
  <2> QED
    BY <1>1, <2>1, <2>2 DEF Connect
<1>2. CASE Greet(c)
  BY <1>2 DEF Greet, ClientStates
<1>3. CASE Ask(c)
  BY <1>3 DEF Ask, ClientStates
<1>4. CASE Leave(c)
  BY <1>4 DEF Leave
<1> QED
  BY <1>1, <1>2, <1>3, <1>4 DEF Client

(* So does a step of the accept loop or the handler, given what the        *)
(* program counter says of what is in hand.                                *)
LEMMA ServeType == TypeOK /\ InHand /\ Draft /\ Serve => TypeOK'
<1> SUFFICES ASSUME TypeOK, InHand, Draft, Serve PROVE TypeOK'
  OBVIOUS
<1> USE DEF HandlerStep, Goto, Steps, HandlerSteps, machineVars, auditVars, clientVars
<1>1. NoBody \in [conn : Conns \cup {NoConn}, kind : Kinds \cup {"none"},
                  phase : Phases \cup {"none"}, errors : Seq(Error)]
  BY DEF NoBody
<1>2. ASSUME NEW op \in Ops, current \in Conns
      PROVE  Err(op, current) \in Error /\ Append(errq, Err(op, current)) \in Seq(Error)
  BY <1>2, ErrType, AppendError DEF TypeOK
<1>3. CASE AcceptConnection
  <2>1. Head(backlog) \in Conns /\ Tail(backlog) \in Seq(Conns)
    BY <1>3 DEF AcceptConnection, TypeOK
  <2>2. fate' \in [Conns -> Fates]
    BY <1>3, <2>1 DEF AcceptConnection, TypeOK, Fates
  <2> QED
    BY <1>3, <2>1, <2>2 DEF AcceptConnection, TypeOK
<1>4. CASE SslNew
  <2>1. current \in Conns
    BY <1>4 DEF SslNew, InHand
  <2>2. body' \in [conn : Conns \cup {NoConn}, kind : Kinds \cup {"none"},
                   phase : Phases \cup {"none"}, errors : Seq(Error)]
    BY <1>1, <1>4, <2>1 DEF SslNew, TypeOK, Phases
  <2>3. errq' \in Seq(Error)
    BY <1>2, <1>4, <2>1 DEF SslNew, TypeOK, Ops
  <2> QED
    BY <1>4, <2>2, <2>3 DEF SslNew, TypeOK
<1>5. CASE SslAcceptDone
  <2>1. <<>> \in Seq(Error) /\ current \in Conns
    BY <1>5 DEF SslAcceptDone, InHand
  <2> QED
    BY <1>5, <2>1 DEF SslAcceptDone, ErrClearError, TypeOK
<1>6. CASE SslAcceptFailed
  <2>1. current \in Conns
    BY <1>6 DEF SslAcceptFailed, InHand
  <2>2. Err("SSL_accept", current) \in Error
    BY <1>2, <2>1 DEF Ops
  <2>3. errq' \in Seq(Error)
    <3>1. <<>> \in Seq(Error)
      OBVIOUS
    <3>2. Append(<<>>, Err("SSL_accept", current)) \in Seq(Error)
      BY <2>2, <3>1, AppendError
    <3> QED
      BY <1>6, <3>1, <3>2 DEF SslAcceptFailed, ErrClearError
  <2>4. body' \in [conn : Conns \cup {NoConn}, kind : Kinds \cup {"none"},
                   phase : Phases \cup {"none"}, errors : Seq(Error)]
    BY <1>1, <1>6, <2>1 DEF SslAcceptFailed, Phases
  <2> QED
    BY <1>6, <2>3, <2>4 DEF SslAcceptFailed, TypeOK
<1>7. CASE LogTlsErrorEvent
  <2> DEFINE event == [body EXCEPT !.kind = "tls_handshake_failed", !.errors = errq]
  <2>1. event \in Event
    BY <1>7 DEF LogTlsErrorEvent, Event, TypeOK, Kinds, InHand, Draft
  <2>2. event \in [conn : Conns \cup {NoConn}, kind : Kinds \cup {"none"},
                   phase : Phases \cup {"none"}, errors : Seq(Error)]
    BY <2>1 DEF Event
  <2>3. <<>> \in Seq(Error)
    OBVIOUS
  <2>4. log' \in Seq(Event) /\ dropped' \subseteq Conns
    BY <1>7, <2>1, AppendOrDropType DEF LogTlsErrorEvent
  <2> QED
    BY <1>7, <2>2, <2>3, <2>4 DEF LogTlsErrorEvent, TypeOK
<1>8. ASSUME NEW from, Release(from), errq' \in Seq(Error), from \in HandlerSteps
      PROVE  TypeOK'
  <2>1. current \in Conns
    BY <1>8 DEF Release, InHand
  <2>2. fate' \in [Conns -> Fates]
    BY <1>8, <2>1 DEF Release, TypeOK, Fates
  <2> QED
    BY <1>1, <1>8, <2>2 DEF Release, TypeOK, Requests
<1>9. CASE ReleaseFailed
  BY <1>8, <1>9 DEF ReleaseFailed, TypeOK
<1>10. CASE SslRead
  <2>1. current \in Conns
    BY <1>10 DEF SslRead, InHand
  <2>2. errq' \in Seq(Error) /\ ssl' \in {"none", "live", "failed"}
    BY <1>2, <1>10, <2>1 DEF SslRead, TypeOK, Ops
  <2> QED
    BY <1>10, <2>2 DEF SslRead, TypeOK
<1>11. CASE BuildResponse
  <2>1. current \in Conns
    BY <1>11 DEF BuildResponse, InHand
  <2>2. <<>> \in Seq(Error)
    OBVIOUS
  <2>3. ASSUME NEW kind \in Kinds, NEW errors \in Seq(Error), Respond(kind, errors)
        PROVE  body' \in [conn : Conns \cup {NoConn}, kind : Kinds \cup {"none"},
                          phase : Phases \cup {"none"}, errors : Seq(Error)]
    BY <2>1, <2>3 DEF Respond, Phases
  <2>4. ASSUME SelftestResponse, evp
        PROVE  body' \in [conn : Conns \cup {NoConn}, kind : Kinds \cup {"none"},
                          phase : Phases \cup {"none"}, errors : Seq(Error)]
               /\ errq' \in Seq(Error)
               /\ diagnoses' \subseteq Diagnosis
    BY <2>2, <2>3, <2>4 DEF SelftestResponse, Kinds, TypeOK, Diagnosis
  <2>5. ASSUME SelftestResponse, ~evp
        PROVE  body' \in [conn : Conns \cup {NoConn}, kind : Kinds \cup {"none"},
                          phase : Phases \cup {"none"}, errors : Seq(Error)]
               /\ errq' \in Seq(Error)
               /\ diagnoses' \subseteq Diagnosis
    <3> DEFINE queue == Append(errq, Err("EVP", current))
    <3>1. Err("EVP", current) \in Error
      BY <1>2, <2>1 DEF Ops
    <3>2. queue \in Seq(Error) /\ queue # <<>>
      BY <3>1, AppendError DEF TypeOK
    <3>3. GetOpenSslError(queue) /\ Respond("internal_error", <<Oldest(queue)>>)
      BY <2>5 DEF SelftestResponse
    <3>4. diagnoses \subseteq Diagnosis
      BY DEF TypeOK, Diagnosis
    <3> HIDE DEF queue
    <3>5. /\ diagnoses' \subseteq Diagnosis
          /\ errq' \in Seq(Error) /\ Oldest(queue) \in Error
      BY <3>2, <3>3, <3>4, GetOpenSslErrorType
    <3>6. <<Oldest(queue)>> \in Seq(Error)
      BY <3>5
    <3> QED
      BY <2>3, <3>3, <3>5, <3>6 DEF Kinds
  <2>6. ASSUME \/ request = "unknown" /\ Respond("route_not_found", <<>>)
               \/ request = "undecodable" /\ Respond("internal_error", <<>>),
               UNCHANGED <<errq, diagnoses>>
        PROVE  body' \in [conn : Conns \cup {NoConn}, kind : Kinds \cup {"none"},
                          phase : Phases \cup {"none"}, errors : Seq(Error)]
               /\ errq' \in Seq(Error)
               /\ diagnoses' \subseteq Diagnosis
    BY <2>2, <2>3, <2>6 DEF Kinds, TypeOK, Diagnosis
  <2>7. body' \in [conn : Conns \cup {NoConn}, kind : Kinds \cup {"none"},
                   phase : Phases \cup {"none"}, errors : Seq(Error)]
        /\ errq' \in Seq(Error)
        /\ diagnoses' \subseteq Diagnosis
    BY <1>11, <2>4, <2>5, <2>6 DEF BuildResponse
  <2> QED
    BY <1>11, <2>7 DEF BuildResponse, TypeOK, Diagnosis
<1>12. CASE AppendResponse
  <2>1. log' \in Seq(Event) /\ dropped' \subseteq Conns
    BY <1>12, AppendOrDropType DEF AppendResponse, Draft
  <2> QED
    BY <1>12, <2>1 DEF AppendResponse, TypeOK
<1>13. CASE SslWrite
  <2>1. current \in Conns /\ body \in Event
    BY <1>13 DEF SslWrite, InHand, Draft
  <2>2. errq' \in Seq(Error)
    BY <1>2, <1>13, <2>1 DEF SslWrite, TypeOK, Ops
  <2>3. replies' \subseteq Event
    BY <1>13, <2>1 DEF SslWrite, TypeOK
  <2> QED
    BY <1>13, <2>2, <2>3 DEF SslWrite, TypeOK
<1>14. CASE SslShutdown
  <2>1. pc = "ssl_shutdown" /\ current \in Conns
    BY <1>14 DEF SslShutdown, Release, InHand
  <2>2. errq' \in Seq(Error)
    BY <1>2, <1>14, <2>1 DEF SslShutdown, TypeOK, Ops
  <2> QED
    BY <1>8, <1>14, <2>2 DEF SslShutdown
<1> QED
  BY <1>3, <1>4, <1>5, <1>6, <1>7, <1>9, <1>10, <1>11, <1>12, <1>13, <1>14 DEF Serve

(* The two steps that end the process, and the one that starts it again.   *)
LEMMA LifeType == TypeOK /\ (BrokenPipe \/ Terminated \/ Restart) => TypeOK'
<1> SUFFICES ASSUME TypeOK, BrokenPipe \/ Terminated \/ Restart PROVE TypeOK'
  OBVIOUS
<1>1. <<>> \in Seq(Error)
  OBVIOUS
<1>2. ASSUME ProcessEnds, errq' = <<>>, diagnoses' = {} PROVE TypeOK'
  BY <1>1, <1>2, ProcessEndsType DEF TypeOK, machineVars, auditVars
<1>3. CASE Restart
  BY <1>1, <1>3 DEF Restart, TypeOK, Goto, Steps, StartupSteps, auditVars, clientVars
<1> QED
  BY <1>2, <1>3 DEF BrokenPipe, Terminated

-----------------------------------------------------------------------------
(* The ledger: what one append does to the log and to who is accounted.    *)
LEMMA AppendOrDropFacts ==
  ASSUME TypeOK, AccountedOnce,
         NEW e \in Event, e.conn \notin Accounted, AppendOrDrop(e)
  PROVE  /\ Accounted' = Accounted \cup {e.conn}
         /\ \A i, j \in DOMAIN log' : log'[i].conn = log'[j].conn => i = j
         /\ Logged' \cap dropped' = {}
         /\ e.conn \in dropped' \/ \E i \in DOMAIN log' : log'[i] = e
         /\ \A x : (\E i \in DOMAIN log : log[i] = x) => \E i \in DOMAIN log' : log'[i] = x
         /\ dropped \subseteq dropped'
<1>1. log \in Seq(Event) /\ DOMAIN log = 1 .. Len(log) /\ Len(log) \in Nat
  BY DEF TypeOK
<1>2. CASE log' = Append(log, e) /\ UNCHANGED dropped
  <2>1. /\ DOMAIN log' = 1 .. (Len(log) + 1) /\ log'[Len(log) + 1] = e
        /\ \A i \in DOMAIN log : i \in DOMAIN log' /\ log'[i] = log[i]
    BY <1>1, <1>2
  <2>2. Logged' = Logged \cup {e.conn}
    BY <1>1, <2>1 DEF Logged
  <2>3. \A i, j \in DOMAIN log' : log'[i].conn = log'[j].conn => i = j
    BY <1>1, <2>1 DEF AccountedOnce, Accounted, Logged
  <2> QED
    BY <1>1, <1>2, <2>1, <2>2, <2>3 DEF AccountedOnce, Accounted
<1>3. CASE dropped' = dropped \cup {e.conn} /\ UNCHANGED log
  <2>1. Logged' = Logged
    BY <1>3 DEF Logged
  <2> QED
    BY <1>3, <2>1 DEF AccountedOnce, Accounted
<1> QED
  BY <1>2, <1>3 DEF AppendOrDrop

(* What a step that leaves log, dropped and replies alone leaves alone.    *)
LEMMA AuditUnchanged ==
  ASSUME UNCHANGED auditVars
  PROVE  /\ Logged' = Logged /\ Accounted' = Accounted
         /\ LoggedBeforeAnswered => LoggedBeforeAnswered'
BY DEF auditVars, Logged, Accounted, LoggedBeforeAnswered

(* Only connections are accounted for.                                     *)
LEMMA AccountedConns == TypeOK => Accounted \subseteq Conns
<1> SUFFICES ASSUME TypeOK PROVE Accounted \subseteq Conns
  OBVIOUS
<1>1. log \in Seq(Event) /\ dropped \subseteq Conns
  BY DEF TypeOK
<1>2. \A i \in DOMAIN log : log[i] \in Event
  BY <1>1
<1> QED
  BY <1>1, <1>2 DEF Accounted, Logged, Event

(* The end of the process keeps the inductive invariant.                   *)
LEMMA ProcessEndsInductive ==
  ASSUME Inductive, ProcessEnds
  PROVE  InHand' /\ Queue' /\ Ledger' /\ Draft' /\ AccountedOnce' /\ LoggedBeforeAnswered'
<1> USE DEF Inductive
<1>1. /\ pc' = "exited" /\ current' = NoConn /\ fds' = {} /\ ssl' = "none" /\ backlog' = <<>>
      /\ UNCHANGED auditVars /\ UNCHANGED client
  BY DEF ProcessEnds, Goto
<1>2. \A c \in Conns : /\ fate'[c] \notin {"queued", "accepted"}
                       /\ fate'[c] = "none" <=> fate[c] = "none"
                       /\ fate'[c] = "served" <=> fate[c] = "served"
                       /\ fate[c] \in {"accepted", "served", "aborted"}
                            => fate'[c] \in {"accepted", "served", "aborted"}
  BY DEF ProcessEnds
<1>3. Logged' = Logged /\ Accounted' = Accounted /\ LoggedBeforeAnswered'
  BY <1>1, AuditUnchanged
<1>4. Accounted \subseteq Conns
  BY AccountedConns
<1>5. InHand' /\ Draft'
  BY <1>1, <1>2 DEF InHand, Draft, HandlerSteps
<1>6. Queue'
  BY <1>1 DEF Queue
<1>7. Ledger'
  BY <1>1, <1>2, <1>3, <1>4 DEF Ledger, HandlerSteps
<1>8. AccountedOnce'
  BY <1>1, <1>2, <1>3 DEF AccountedOnce, auditVars
<1> QED
  BY <1>3, <1>5, <1>6, <1>7, <1>8

(* The initial states satisfy the inductive invariant.                     *)
LEMMA InitInductive == Init => Inductive
<1> SUFFICES ASSUME Init PROVE Inductive
  OBVIOUS
<1>1. TypeOK
  BY InitType
<1>2. DOMAIN log = {} /\ DOMAIN backlog = {}
  BY DEF Init
<1>3. Logged = {} /\ Accounted = {}
  BY <1>2 DEF Logged, Accounted, Init
<1>4. InHand /\ Draft
  BY DEF Init, InHand, Draft, HandlerSteps
<1>5. Queue /\ Ledger /\ AccountedOnce /\ LoggedBeforeAnswered
  BY <1>2, <1>3 DEF Init, Queue, Ledger, AccountedOnce, LoggedBeforeAnswered, HandlerSteps
<1> QED
  BY <1>1, <1>4, <1>5 DEF Inductive

(* Start-up, death and restart.                                            *)
LEMMA LifeInductive ==
  Inductive /\ (Startup \/ BrokenPipe \/ Terminated \/ Restart) => Inductive'
<1> SUFFICES ASSUME Inductive, Startup \/ BrokenPipe \/ Terminated \/ Restart
             PROVE  Inductive'
  OBVIOUS
<1> USE DEF Inductive
<1>1. TypeOK'
  BY StartupType, LifeType
<1>2. ASSUME NEW to \in StartupSteps \cup {"accept"}, pc \notin HandlerSteps, pc' = to,
             UNCHANGED <<current, fds, ssl, backlog, auditVars, client, fate>>
      PROVE  InHand' /\ Queue' /\ Ledger' /\ Draft' /\ AccountedOnce' /\ LoggedBeforeAnswered'
  <2>1. pc' \notin HandlerSteps
    BY <1>2 DEF StartupSteps, HandlerSteps
  <2>2. Logged' = Logged /\ Accounted' = Accounted /\ LoggedBeforeAnswered'
    BY <1>2, AuditUnchanged
  <2>3. InHand' /\ Queue' /\ Ledger' /\ Draft'
    BY <1>2, <2>1, <2>2 DEF InHand, Queue, Ledger, Draft, HandlerSteps
  <2> QED
    BY <1>2, <2>2, <2>3 DEF AccountedOnce, auditVars
<1>3. ASSUME NEW from \in StartupSteps, NEW to \in StartupSteps \cup {"accept"},
             StartupStep(from, to)
      PROVE  InHand' /\ Queue' /\ Ledger' /\ Draft' /\ AccountedOnce' /\ LoggedBeforeAnswered'
  <2>1. pc \notin HandlerSteps /\ pc' = to
        /\ UNCHANGED <<current, fds, ssl, backlog, auditVars, client, fate>>
    BY <1>3 DEF StartupStep, Goto, StartupSteps, HandlerSteps, clientVars
  <2> QED
    BY <1>2, <2>1
<1>4. CASE ProcessEnds
  BY <1>1, <1>4, ProcessEndsInductive
<1>5. CASE Restart
  <2>1. pc \notin HandlerSteps /\ pc' = "load_config"
        /\ UNCHANGED <<current, fds, ssl, backlog, auditVars, client, fate>>
    BY <1>5 DEF Restart, Goto, HandlerSteps, clientVars
  <2> QED
    BY <1>1, <1>2, <2>1 DEF StartupSteps
<1>6. CASE Startup
  <2>1. CASE ProcessEnds
    BY <1>4, <2>1
  <2>2. CASE \/ StartupStep("load_config", "load_providers")
             \/ StartupStep("load_providers", "create_context")
             \/ StartupStep("create_context", "create_socket")
             \/ StartupStep("create_socket", "accept")
    BY <1>1, <1>3, <2>2 DEF StartupSteps
  <2> QED
    BY <1>6, <2>1, <2>2 DEF Startup, LoadConfig, LoadProviders, CreateTlsContext,
                            CreateTcpServerSocket, Fatal, FatalOpenSsl
<1> QED
  BY <1>4, <1>5, <1>6 DEF BrokenPipe, Terminated

(* A client's step.                                                        *)
LEMMA ClientInductive ==
  ASSUME Inductive, NEW c \in Conns, Connect(c) \/ Client(c)
  PROVE  Inductive'
<1> USE DEF Inductive, ClientActs
<1>1. TypeOK'
  BY ClientType
<1>2. UNCHANGED auditVars /\ UNCHANGED <<pc, current, fds, ssl, body>>
  BY DEF Connect, Client, Greet, Ask, Leave, processVars
<1>3. Logged' = Logged /\ Accounted' = Accounted /\ LoggedBeforeAnswered'
  BY <1>2, AuditUnchanged
<1>4. Accounted \subseteq Conns
  BY AccountedConns
<1>5. Draft'
  BY <1>2 DEF Draft, auditVars
<1>6. CASE Connect(c)
  <2>1. /\ fate[c] = "none" /\ fate' = [fate EXCEPT ![c] = "queued"]
        /\ backlog' = Append(backlog, c) /\ client' = [client EXCEPT ![c] = "silent"]
    BY <1>6 DEF Connect, Ledger
  <2>2. InHand'
    BY <1>2, <2>1 DEF InHand, TypeOK
  <2>3. Queue'
    <3>1. backlog \in Seq(Conns) /\ \A i \in DOMAIN backlog : backlog[i] # c
      BY <2>1 DEF Queue, TypeOK
    <3>2. /\ DOMAIN backlog' = 1 .. (Len(backlog) + 1) /\ backlog'[Len(backlog) + 1] = c
          /\ DOMAIN backlog = 1 .. Len(backlog) /\ Len(backlog) \in Nat
          /\ \A i \in DOMAIN backlog : backlog'[i] = backlog[i]
      BY <2>1, <3>1
    <3> QED
      BY <2>1, <3>1, <3>2 DEF Queue, TypeOK
  <2>4. Ledger' /\ AccountedOnce'
    BY <1>2, <1>3, <1>4, <2>1 DEF Ledger, AccountedOnce, TypeOK, auditVars
  <2> QED
    BY <1>1, <1>3, <1>5, <2>2, <2>3, <2>4
<1>7. CASE Client(c)
  <2>1. UNCHANGED <<backlog, fate>>
    BY <1>7 DEF Client, Greet, Ask, Leave
  <2>2. \A d \in Conns : client'[d] = "absent" => client[d] = "absent"
    BY <1>7 DEF Client, Greet, Ask, Leave, TypeOK, Greetings, Requests
  <2>3. InHand' /\ Queue' /\ Ledger' /\ AccountedOnce'
    BY <1>2, <1>3, <2>1, <2>2 DEF InHand, Queue, Ledger, AccountedOnce, auditVars
  <2> QED
    BY <1>1, <1>3, <1>5, <2>3
<1> QED
  BY <1>6, <1>7

(* A step of the handler that logs nothing, answers nothing and keeps the  *)
(* connection in hand.                                                     *)
LEMMA QuietStep ==
  ASSUME Inductive, pc \in HandlerSteps, pc' \in HandlerSteps,
         pc \notin {"release_failed", "ssl_write", "ssl_shutdown"},
         pc' \notin {"release_failed", "ssl_write", "ssl_shutdown"},
         UNCHANGED <<current, fds, backlog, auditVars, client, fate>>
  PROVE  InHand' /\ Queue' /\ Ledger' /\ AccountedOnce' /\ LoggedBeforeAnswered'
<1> USE DEF Inductive
<1>1. Logged' = Logged /\ Accounted' = Accounted /\ LoggedBeforeAnswered'
  BY AuditUnchanged
<1>2. InHand' /\ Queue'
  BY DEF InHand, Queue
<1>3. Ledger' /\ AccountedOnce'
  BY <1>1 DEF Ledger, AccountedOnce, auditVars
<1> QED
  BY <1>1, <1>2, <1>3

(* A step of the handler that accounts for the connection in hand.         *)
LEMMA AccountingStep ==
  ASSUME Inductive, NEW e \in Event, e.conn = current, AppendOrDrop(e),
         pc \in HandlerSteps, pc' \in {"release_failed", "ssl_write"},
         pc \notin {"release_failed", "ssl_write", "ssl_shutdown"},
         UNCHANGED <<current, fds, backlog, replies, client, fate>>
  PROVE  InHand' /\ Queue' /\ Ledger' /\ AccountedOnce' /\ LoggedBeforeAnswered'
<1> USE DEF Inductive
<1>1. current \in Conns /\ fate[current] = "accepted" /\ pc' \in HandlerSteps
  BY DEF InHand, HandlerSteps
<1>2. current \notin Accounted
  BY DEF Ledger
<1>3. /\ Accounted' = Accounted \cup {current}
      /\ \A i, j \in DOMAIN log' : log'[i].conn = log'[j].conn => i = j
      /\ Logged' \cap dropped' = {}
      /\ \A x : (\E i \in DOMAIN log : log[i] = x) => \E i \in DOMAIN log' : log'[i] = x
      /\ dropped \subseteq dropped'
  BY <1>2, AppendOrDropFacts
<1>4. InHand' /\ Queue'
  BY <1>1 DEF InHand, Queue
<1>5. Ledger'
  BY <1>1, <1>3 DEF Ledger
<1>6. AccountedOnce'
  BY <1>3 DEF AccountedOnce
<1>7. LoggedBeforeAnswered'
  BY <1>3 DEF LoggedBeforeAnswered
<1> QED
  BY <1>4, <1>5, <1>6, <1>7

(* The return of the handler.                                              *)
LEMMA ReleaseInductive ==
  ASSUME Inductive, NEW from \in {"release_failed", "ssl_shutdown"}, Release(from)
  PROVE  InHand' /\ Queue' /\ Ledger' /\ Draft' /\ AccountedOnce' /\ LoggedBeforeAnswered'
<1> USE DEF Inductive
<1>1. /\ pc = from /\ pc' = "accept" /\ current \in Conns /\ fds = {current}
      /\ current \in Accounted /\ fate[current] = "accepted"
  BY DEF Release, Goto, InHand, Ledger, HandlerSteps
<1>2. Logged' = Logged /\ Accounted' = Accounted /\ LoggedBeforeAnswered'
  BY AuditUnchanged DEF Release
<1>3. /\ current' = NoConn /\ fds' = {} /\ ssl' = "none" /\ UNCHANGED <<backlog, client>>
      /\ fate' = [fate EXCEPT ![current] = "served"]
      /\ UNCHANGED <<log, dropped, replies>>
  BY <1>1 DEF Release, auditVars, clientVars
<1>4. InHand'
  BY <1>1, <1>3 DEF InHand, HandlerSteps, TypeOK
<1>5. Queue'
  BY <1>1, <1>3 DEF Queue, TypeOK
<1>6. Ledger'
  BY <1>1, <1>2, <1>3, AccountedConns DEF Ledger, HandlerSteps, TypeOK
<1>7. Draft'
  BY <1>1 DEF Draft
<1>8. AccountedOnce'
  BY <1>1, <1>2, <1>3 DEF AccountedOnce, TypeOK
<1> QED
  BY <1>2, <1>4, <1>5, <1>6, <1>7, <1>8

(* The steps of the accept loop and the handler.                           *)
LEMMA ServeInductive == Inductive /\ Serve => Inductive'
<1> SUFFICES ASSUME Inductive, Serve PROVE Inductive'
  OBVIOUS
<1> USE DEF Inductive, HandlerStep, Goto
<1>1. TypeOK'
  BY ServeType
<1>2. CASE AcceptConnection
  <2> DEFINE c == Head(backlog)
  <2>1. /\ c \in Conns /\ c = backlog[1] /\ fate[c] = "queued" /\ Len(backlog) \in Nat
        /\ 1 \in DOMAIN backlog /\ DOMAIN Tail(backlog) = 1 .. (Len(backlog) - 1)
        /\ \A i \in DOMAIN Tail(backlog) : i + 1 \in DOMAIN backlog /\ Tail(backlog)[i] = backlog[i + 1]
    BY <1>2 DEF AcceptConnection, Queue, TypeOK
  <2>2. /\ pc' = "ssl_new" /\ current' = c /\ fds' = {c} /\ pc \notin HandlerSteps
        /\ backlog' = Tail(backlog) /\ fate' = [fate EXCEPT ![c] = "accepted"]
        /\ UNCHANGED <<client, log, dropped, replies, auditVars>>
    BY <1>2 DEF AcceptConnection, InHand, HandlerSteps, auditVars, clientVars
  <2>3. Logged' = Logged /\ Accounted' = Accounted /\ LoggedBeforeAnswered'
    BY <2>2, AuditUnchanged
  <2>4. InHand'
    BY <2>1, <2>2 DEF InHand, HandlerSteps, TypeOK
  <2>5. Queue'
    BY <2>1, <2>2 DEF Queue, TypeOK
  <2>6. Ledger'
    BY <2>1, <2>2, <2>3, AccountedConns DEF Ledger, HandlerSteps, TypeOK
  <2>7. Draft' /\ AccountedOnce'
    BY <2>1, <2>2, <2>3 DEF Draft, AccountedOnce, TypeOK
  <2> QED
    BY <1>1, <2>3, <2>4, <2>5, <2>6, <2>7
<1>3. CASE SslNew
  <2>1. Draft'
    BY <1>3 DEF SslNew, Draft, Phases, NoBody
  <2> QED
    BY <1>1, <1>3, <2>1, QuietStep DEF SslNew, HandlerSteps, clientVars
<1>4. CASE SslAcceptDone
  <2>1. Draft'
    BY <1>4 DEF SslAcceptDone, Draft
  <2> QED
    BY <1>1, <1>4, <2>1, QuietStep DEF SslAcceptDone, HandlerSteps, clientVars
<1>5. CASE SslAcceptFailed
  <2>1. Draft'
    BY <1>5 DEF SslAcceptFailed, Draft, Phases, NoBody
  <2> QED
    BY <1>1, <1>5, <2>1, QuietStep DEF SslAcceptFailed, HandlerSteps, clientVars
<1>6. CASE LogTlsErrorEvent
  <2> DEFINE event == [body EXCEPT !.kind = "tls_handshake_failed", !.errors = errq]
  <2>1. current \in Conns /\ body.conn = current /\ body.phase \in Phases
    BY <1>6 DEF LogTlsErrorEvent, InHand, Draft, HandlerSteps
  <2>2. event \in Event /\ event.conn = current
    BY <2>1 DEF Event, TypeOK, Kinds
  <2>3. AppendOrDrop(event) /\ pc = "log_tls_error" /\ pc' = "release_failed"
        /\ UNCHANGED <<current, fds, backlog, replies, client, fate>>
    BY <1>6 DEF LogTlsErrorEvent, clientVars
  <2>4. Draft'
    BY <2>3 DEF Draft
  <2> HIDE DEF event
  <2> QED
    BY <1>1, <2>2, <2>3, <2>4, AccountingStep DEF HandlerSteps
<1>7. CASE ReleaseFailed
  BY <1>1, <1>7, ReleaseInductive DEF ReleaseFailed
<1>8. CASE SslRead
  <2>1. Draft'
    BY <1>8 DEF SslRead, Draft
  <2> QED
    BY <1>1, <1>8, <2>1, QuietStep DEF SslRead, HandlerSteps, clientVars
<1>9. CASE BuildResponse
  <2>1. current \in Conns /\ pc' = "append" /\ UNCHANGED <<current, log, dropped>>
    BY <1>9 DEF BuildResponse, InHand, HandlerSteps, auditVars
  <2>2. /\ body'.conn = current /\ body'.kind \in Kinds \ {"tls_handshake_failed"}
        /\ body'.phase = "http"
    BY <1>9 DEF BuildResponse, SelftestResponse, Respond, Kinds
  <2>3. body' \in Event
    BY <1>1, <2>1, <2>2 DEF TypeOK, Event, Phases
  <2>4. Draft'
    BY <2>1, <2>2, <2>3 DEF Draft
  <2> QED
    BY <1>1, <1>9, <2>4, QuietStep DEF BuildResponse, HandlerSteps, clientVars
<1>10. CASE AppendResponse
  <2>1. /\ current \in Conns /\ body \in Event /\ body.conn = current
        /\ pc = "append" /\ pc' = "ssl_write" /\ AppendOrDrop(body) /\ UNCHANGED body
        /\ UNCHANGED <<current, fds, backlog, replies, client, fate>>
    BY <1>10 DEF AppendResponse, InHand, Draft, HandlerSteps, clientVars
  <2>2. current \notin Accounted
    BY <2>1 DEF Ledger, HandlerSteps
  <2>3. current \in dropped' \/ \E i \in DOMAIN log' : log'[i] = body
    BY <2>1, <2>2, AppendOrDropFacts
  <2>4. \A answer \in replies : answer.conn \in Accounted
    BY DEF LoggedBeforeAnswered, Accounted, Logged
  <2>5. Draft'
    BY <2>1, <2>2, <2>3, <2>4 DEF Draft
  <2> QED
    BY <1>1, <2>1, <2>5, AccountingStep DEF HandlerSteps
<1>11. CASE SslWrite
  <2>1. /\ pc = "ssl_write" /\ pc' = "ssl_shutdown" /\ current \in Conns
        /\ body.conn = current /\ UNCHANGED body
        /\ current \in dropped \/ \E i \in DOMAIN log : log[i] = body
        /\ UNCHANGED <<current, fds, backlog, log, dropped, client, fate>>
        /\ replies' \in {replies, replies \cup {body}}
    BY <1>11 DEF SslWrite, InHand, Draft, HandlerSteps, clientVars
  <2>2. Logged' = Logged /\ Accounted' = Accounted
    BY <2>1 DEF Logged, Accounted
  <2>3. InHand' /\ Queue' /\ Ledger' /\ Draft'
    BY <2>1, <2>2 DEF InHand, Queue, Ledger, Draft, HandlerSteps
  <2>4. AccountedOnce' /\ LoggedBeforeAnswered'
    BY <2>1, <2>2 DEF AccountedOnce, LoggedBeforeAnswered
  <2> QED
    BY <1>1, <2>3, <2>4
<1>12. CASE SslShutdown
  BY <1>1, <1>12, ReleaseInductive DEF SslShutdown
<1> QED
  BY <1>2, <1>3, <1>4, <1>5, <1>6, <1>7, <1>8, <1>9, <1>10, <1>11, <1>12 DEF Serve

(* A stuttering step keeps it.                                             *)
LEMMA StutterInductive == Inductive /\ UNCHANGED vars => Inductive'
<1> SUFFICES ASSUME Inductive, UNCHANGED vars PROVE Inductive'
  OBVIOUS
<1> USE DEF vars, processVars, machineVars, auditVars, clientVars
<1>1. TypeOK' /\ InHand' /\ Queue' /\ Draft'
  BY DEF Inductive, TypeOK, InHand, Queue, Draft
<1>2. Ledger' /\ AccountedOnce' /\ LoggedBeforeAnswered'
  BY DEF Inductive, Ledger, AccountedOnce, LoggedBeforeAnswered, Accounted, Logged
<1> QED
  BY <1>1, <1>2 DEF Inductive

-----------------------------------------------------------------------------
(* The inductive invariant holds in every reachable state.                 *)
THEOREM InductiveInvariant == Spec => []Inductive
<1>1. Init => Inductive
  BY InitInductive
<1>2. Inductive /\ [Next]_vars => Inductive'
  BY LifeInductive, ServeInductive, ClientInductive, StutterInductive DEF Next
<1> QED
  BY <1>1, <1>2, PTL DEF Spec

(* Every variable stays within its range.                                  *)
THEOREM TypeCorrect == Spec => []TypeOK
<1>1. Inductive => TypeOK
  BY DEF Inductive
<1> QED
  BY <1>1, InductiveInvariant, PTL

(* No path through handleClientConnection leaks a socket or an SSL object: *)
(* between two clients the server holds none.                              *)
THEOREM NoLeak == Spec => []NothingHeldBetweenClients
<1>1. Inductive => NothingHeldBetweenClients
  BY DEF Inductive, InHand, NothingHeldBetweenClients
<1> QED
  BY <1>1, InductiveInvariant, PTL

(* Every connection whose handler returned is accounted for exactly once,  *)
(* over any number of deaths and restarts of the process.                  *)
THEOREM AccountedExactlyOnce == Spec => []AccountedOnce
<1>1. Inductive => AccountedOnce
  BY DEF Inductive
<1> QED
  BY <1>1, InductiveInvariant, PTL

(* No client is answered before the answer was appended to the log, or the *)
(* append failed, wherever the process dies.                               *)
THEOREM NoUnloggedAnswer == Spec => []LoggedBeforeAnswered
<1>1. Inductive => LoggedBeforeAnswered
  BY DEF Inductive
<1> QED
  BY <1>1, InductiveInvariant, PTL

-----------------------------------------------------------------------------
(* What the log says.  Inductive does not tell what a client has done; the *)
(* two definitions below do, as far as the handler may rely on it.         *)

(* Only a connection the server has taken can be secured, and the one in   *)
(* hand is just when its handshake is behind it.                           *)
Secured ==
  /\ \A c \in secured : fate[c] \notin {"none", "queued"}
  /\ pc \in {"ssl_new", "ssl_accept", "log_tls_error"} => current \notin secured
  /\ pc \in {"ssl_read", "build", "append"} => current \in secured

(* What the handler is about to act on is still true of the client and of  *)
(* the machine.                                                            *)
Informed ==
  /\ pc = "build" /\ request = "unknown" => client[current] = "unknown"
  /\ pc = "append" =>
       /\ body.kind = "route_not_found" => client[current] = "unknown"
       /\ body.kind = "tls_request" => evp

Truthful == Secured /\ Informed /\ EventsTellTheHandshake

(* The initial states are truthful.                                        *)
LEMMA InitTruthful == Init => Truthful
<1> SUFFICES ASSUME Init PROVE Truthful
  OBVIOUS
<1>1. DOMAIN log = {}
  BY DEF Init
<1> QED
  BY <1>1 DEF Init, Truthful, Secured, Informed, EventsTellTheHandshake

(* Who is logged, is a connection.                                         *)
LEMMA LoggedFacts ==
  ASSUME TypeOK
  PROVE  \A i \in DOMAIN log : log[i] \in Event /\ log[i].conn \in Conns /\ log[i].conn \in Accounted
<1>1. log \in Seq(Event)
  BY DEF TypeOK
<1>2. \A i \in DOMAIN log : log[i] \in Event
  BY <1>1
<1> QED
  BY <1>2 DEF Event, Accounted, Logged

(* A step that logs nothing and takes nothing back keeps what the log says *)
(* true.                                                                   *)
LEMMA SameLog ==
  ASSUME Inductive, Truthful, UNCHANGED <<log, evp>>,
         secured' = secured \/ \E c \in Conns \ Accounted : secured' = secured \cup {c},
         \A c \in Conns : client[c] = "unknown" => client'[c] = "unknown"
  PROVE  EventsTellTheHandshake'
<1>1. \A i \in DOMAIN log : log[i].conn \in Conns /\ log[i].conn \in Accounted
  BY LoggedFacts DEF Inductive
<1>2. \A i \in DOMAIN log : log[i].conn \in secured' <=> log[i].conn \in secured
  BY <1>1
<1> QED
  BY <1>1, <1>2 DEF Truthful, EventsTellTheHandshake

(* What the log holds after an append: the event, or what it held before.  *)
LEMMA AppendedOrOld ==
  ASSUME TypeOK, NEW e \in Event, AppendOrDrop(e)
  PROVE  \A i \in DOMAIN log' : log'[i] = e \/ (i \in DOMAIN log /\ log'[i] = log[i])
<1>1. log \in Seq(Event) /\ DOMAIN log = 1 .. Len(log) /\ Len(log) \in Nat
  BY DEF TypeOK
<1>2. CASE log' = Append(log, e)
  BY <1>1, <1>2
<1>3. CASE UNCHANGED log
  BY <1>3
<1> QED
  BY <1>2, <1>3 DEF AppendOrDrop

(* An event that tells the truth may be appended, or dropped.              *)
LEMMA TrueEvent ==
  ASSUME Inductive, Truthful, NEW e \in Event, AppendOrDrop(e), UNCHANGED <<evp, secured, client>>,
         e.kind = "tls_handshake_failed" <=> e.conn \notin secured,
         e.kind = "route_not_found" => client[e.conn] = "unknown",
         e.kind = "tls_request" => evp
  PROVE  EventsTellTheHandshake'
<1>1. \A i \in DOMAIN log' : log'[i] = e \/ (i \in DOMAIN log /\ log'[i] = log[i])
  BY AppendedOrOld DEF Inductive
<1> QED
  BY <1>1 DEF Truthful, EventsTellTheHandshake

(* The end of the process, start-up and restart.                           *)
LEMMA LifeTruthful ==
  Inductive /\ Truthful /\ (Startup \/ BrokenPipe \/ Terminated \/ Restart) => Truthful'
<1> SUFFICES ASSUME Inductive, Truthful, Startup \/ BrokenPipe \/ Terminated \/ Restart
             PROVE  Truthful'
  OBVIOUS
<1>1. ASSUME ProcessEnds PROVE Truthful'
  <2>1. /\ pc' = "exited" /\ UNCHANGED <<log, evp, secured, client>>
        /\ \A c \in Conns : fate'[c] \in {"none", "queued"} => fate[c] = "none"
    BY <1>1 DEF ProcessEnds, Goto, machineVars, auditVars
  <2>2. secured \subseteq Conns
    BY DEF Inductive, TypeOK
  <2>3. Secured' /\ Informed'
    BY <2>1, <2>2 DEF Truthful, Secured, Informed
  <2> QED
    BY <2>1, <2>3, SameLog DEF Truthful
<1>2. ASSUME NEW to \in StartupSteps \cup {"accept"}, pc' = to,
             UNCHANGED <<log, evp, secured, client, fate>>
      PROVE  Truthful'
  <2>1. Secured' /\ Informed'
    BY <1>2 DEF Truthful, Secured, Informed, StartupSteps
  <2> QED
    BY <1>2, <2>1, SameLog DEF Truthful
<1>3. CASE Startup
  BY <1>1, <1>2, <1>3 DEF Startup, LoadConfig, LoadProviders, CreateTlsContext,
                          CreateTcpServerSocket, Fatal, FatalOpenSsl, StartupStep, Goto,
                          StartupSteps, machineVars, auditVars, clientVars
<1>4. CASE Restart
  BY <1>2, <1>4 DEF Restart, Goto, StartupSteps, auditVars, clientVars
<1> QED
  BY <1>1, <1>3, <1>4 DEF BrokenPipe, Terminated

(* A client never takes back what it has asked.                            *)
LEMMA ClientTruthful ==
  ASSUME Inductive, Truthful, NEW c \in Conns, Connect(c) \/ Client(c)
  PROVE  Truthful'
<1>1. /\ UNCHANGED <<pc, current, errq, request, body, log, evp, secured>>
      /\ \A d \in Conns : client[d] = "unknown" => client'[d] = "unknown"
      /\ \A d \in Conns : fate'[d] = fate[d] \/ fate[d] = "none"
  <2>1. UNCHANGED <<pc, current, errq, request, body, log, evp, secured>>
    BY DEF Connect, Client, Greet, Ask, Leave, ClientActs, processVars, machineVars, auditVars
  <2>2. \A d \in Conns : client[d] = "unknown" => client'[d] = "unknown"
    BY DEF Connect, Client, Greet, Ask, Leave, Inductive, TypeOK
  <2>3. \A d \in Conns : fate'[d] = fate[d] \/ fate[d] = "none"
    BY DEF Connect, Client, Greet, Ask, Leave, Inductive, TypeOK, Ledger
  <2> QED
    BY <2>1, <2>2, <2>3
<1>2. Secured'
  <2>1. secured \subseteq Conns
    BY DEF Inductive, TypeOK
  <2> QED
    BY <1>1, <2>1 DEF Truthful, Secured
<1>3. Informed'
  <2>1. pc \in {"build", "append"} => current \in Conns
    BY DEF Inductive, InHand, HandlerSteps
  <2> QED
    BY <1>1, <2>1 DEF Truthful, Informed
<1> QED
  BY <1>1, <1>2, <1>3, SameLog DEF Truthful

(* The accept loop and the handler.                                        *)
LEMMA ServeTruthful == Inductive /\ Truthful /\ Serve => Truthful'
<1> SUFFICES ASSUME Inductive, Truthful, Serve PROVE Truthful'
  OBVIOUS
<1> USE DEF HandlerStep, Goto, machineVars, auditVars, clientVars
<1>1. /\ pc \in HandlerSteps => current \in Conns /\ fate[current] = "accepted"
      /\ secured \subseteq Conns
  BY DEF Inductive, InHand, TypeOK
<1>2. ASSUME UNCHANGED <<log, evp, secured, client>>, Secured', Informed' PROVE Truthful'
  BY <1>2, SameLog DEF Truthful
<1>3. CASE AcceptConnection
  <2>1. /\ pc' = "ssl_new" /\ current' = Head(backlog)
        /\ fate' = [fate EXCEPT ![Head(backlog)] = "accepted"]
        /\ UNCHANGED <<log, evp, secured, client>>
    BY <1>3 DEF AcceptConnection
  <2>2. Head(backlog) \in Conns /\ fate[Head(backlog)] = "queued"
    BY <1>3 DEF AcceptConnection, Inductive, Queue, TypeOK
  <2>3. Secured' /\ Informed'
    BY <1>1, <2>1, <2>2 DEF Truthful, Secured, Informed, Inductive, TypeOK
  <2> QED
    BY <1>2, <2>1, <2>3
<1>4. CASE SslNew
  <2>1. /\ pc = "ssl_new" /\ pc' \in {"ssl_accept", "log_tls_error"}
        /\ pc' = "log_tls_error" => body'.phase = "ssl_object_creation"
        /\ UNCHANGED <<current, log, evp, secured, client, fate>>
    BY <1>4 DEF SslNew, NoBody
  <2>2. Secured' /\ Informed'
    BY <2>1 DEF Truthful, Secured, Informed
  <2> QED
    BY <1>2, <2>1, <2>2
<1>5. CASE SslAcceptDone
  <2>1. /\ pc = "ssl_accept" /\ pc' = "ssl_read" /\ secured' = secured \cup {current}
        /\ UNCHANGED <<current, log, evp, client, fate>>
    BY <1>5 DEF SslAcceptDone
  <2>2. current \in Conns \ Accounted /\ fate[current] = "accepted"
    BY <1>1, <2>1 DEF Inductive, Ledger, HandlerSteps
  <2>3. Secured' /\ Informed'
    BY <2>1, <2>2 DEF Truthful, Secured, Informed
  <2> QED
    BY <2>1, <2>2, <2>3, SameLog DEF Truthful
<1>6. CASE SslAcceptFailed
  <2>1. /\ pc = "ssl_accept" /\ pc' = "log_tls_error"
        /\ UNCHANGED <<current, log, evp, secured, client, fate>>
    BY <1>6 DEF SslAcceptFailed
  <2>2. Secured' /\ Informed'
    BY <2>1 DEF Truthful, Secured, Informed
  <2> QED
    BY <1>2, <2>1, <2>2
<1>7. CASE LogTlsErrorEvent
  <2> DEFINE event == [body EXCEPT !.kind = "tls_handshake_failed", !.errors = errq]
  <2>1. /\ pc = "log_tls_error" /\ pc' = "release_failed" /\ AppendOrDrop(event)
        /\ UNCHANGED <<current, evp, secured, client, fate>>
    BY <1>7 DEF LogTlsErrorEvent
  <2>2. body.conn = current /\ body.phase \in Phases /\ current \in Conns \ secured
    BY <1>1, <2>1 DEF Inductive, Draft, Truthful, Secured, HandlerSteps
  <2>3. /\ event \in Event /\ event.conn = current /\ event.kind = "tls_handshake_failed"
    BY <2>2 DEF Event, Kinds, Inductive, TypeOK
  <2> HIDE DEF event
  <2>4. EventsTellTheHandshake'
    BY <2>1, <2>2, <2>3, TrueEvent
  <2>5. Secured' /\ Informed'
    BY <2>1 DEF Truthful, Secured, Informed
  <2> QED
    BY <2>4, <2>5 DEF Truthful
<1>8. ASSUME NEW from \in HandlerSteps, Release(from) PROVE Truthful'
  <2>1. /\ pc = from /\ pc' = "accept" /\ fate' = [fate EXCEPT ![current] = "served"]
        /\ UNCHANGED <<log, evp, secured, client>>
    BY <1>8 DEF Release
  <2>2. Secured' /\ Informed'
    BY <1>1, <2>1 DEF Truthful, Secured, Informed, Inductive, TypeOK
  <2> QED
    BY <1>2, <2>1, <2>2
<1>9. CASE SslRead
  <2>1. /\ pc = "ssl_read" /\ pc' = "build" /\ request' \in RecordRead \cap Requests
        /\ UNCHANGED <<current, log, evp, secured, client, fate>>
    BY <1>9 DEF SslRead
  <2>2. request' = "unknown" => client[current] = "unknown"
    BY <2>1 DEF RecordRead
  <2>3. Secured' /\ Informed'
    BY <2>1, <2>2 DEF Truthful, Secured, Informed
  <2> QED
    BY <1>2, <2>1, <2>3
<1>10. CASE BuildResponse
  <2>1. /\ pc = "build" /\ pc' = "append"
        /\ UNCHANGED <<current, log, evp, secured, client, fate>>
    BY <1>10 DEF BuildResponse
  <2>2. /\ body'.kind = "route_not_found" => request = "unknown"
        /\ body'.kind = "tls_request" => evp
    BY <1>10 DEF BuildResponse, SelftestResponse, Respond
  <2>3. Secured' /\ Informed'
    BY <2>1, <2>2 DEF Truthful, Secured, Informed
  <2> QED
    BY <1>2, <2>1, <2>3
<1>11. CASE AppendResponse
  <2>1. /\ pc = "append" /\ pc' = "ssl_write" /\ AppendOrDrop(body)
        /\ UNCHANGED <<current, evp, secured, client, fate>>
    BY <1>11 DEF AppendResponse
  <2>2. /\ body \in Event /\ body.conn = current /\ body.kind # "tls_handshake_failed"
        /\ current \in secured
    BY <2>1 DEF Inductive, Draft, Truthful, Secured
  <2>3. /\ body.kind = "route_not_found" => client[current] = "unknown"
        /\ body.kind = "tls_request" => evp
    BY <2>1 DEF Truthful, Informed
  <2>4. EventsTellTheHandshake'
    BY <2>1, <2>2, <2>3, TrueEvent
  <2>5. Secured' /\ Informed'
    BY <2>1 DEF Truthful, Secured, Informed
  <2> QED
    BY <2>4, <2>5 DEF Truthful
<1>12. CASE SslWrite
  <2>1. /\ pc = "ssl_write" /\ pc' = "ssl_shutdown"
        /\ UNCHANGED <<current, log, evp, secured, client, fate>>
    BY <1>12 DEF SslWrite
  <2>2. Secured' /\ Informed'
    BY <2>1 DEF Truthful, Secured, Informed
  <2> QED
    BY <1>2, <2>1, <2>2
<1>13. CASE ReleaseFailed \/ SslShutdown
  BY <1>8, <1>13 DEF ReleaseFailed, SslShutdown, HandlerSteps
<1> QED
  BY <1>3, <1>4, <1>5, <1>6, <1>7, <1>9, <1>10, <1>11, <1>12, <1>13 DEF Serve

(* In every reachable state the log tells the truth.                       *)
THEOREM TruthfulInvariant == Spec => []Truthful
<1>1. Init => Truthful
  BY InitTruthful
<1>2. Inductive /\ Truthful /\ [Next]_vars => Truthful'
  <2> SUFFICES ASSUME Inductive, Truthful, [Next]_vars PROVE Truthful'
    OBVIOUS
  <2>1. CASE UNCHANGED vars
    <3>1. UNCHANGED <<pc, current, errq, request, body, log, evp, secured, client, fate>>
      BY <2>1 DEF vars, processVars, machineVars, auditVars, clientVars
    <3>2. Secured' /\ Informed'
      BY <3>1 DEF Truthful, Secured, Informed
    <3> QED
      BY <3>1, <3>2, SameLog DEF Truthful
  <2> QED
    BY <2>1, LifeTruthful, ServeTruthful, ClientTruthful DEF Next
<1> QED
  BY <1>1, <1>2, InductiveInvariant, PTL DEF Spec

(* The log tells what became of the handshake of each connection it names, *)
(* whatever its client does after: logTlsErrorEvent() and the append of    *)
(* handleClientConnection never speak of the wrong outcome.                *)
THEOREM EventsAreTrue == Spec => []EventsTellTheHandshake
<1>1. Truthful => EventsTellTheHandshake
  BY DEF Truthful
<1> QED
  BY <1>1, TruthfulInvariant, PTL

-----------------------------------------------------------------------------
(* What the events quote.  Between two calls of SSL_new() nothing but the  *)
(* leftovers of tolerated failures is in the queue; behind a handshake     *)
(* those are of the connection in hand; and the event about to be logged   *)
(* already quotes what it should.                                          *)
Leftovers(queue) == \A k \in DOMAIN queue : queue[k].op \in Tolerated
Own(queue) == \A k \in DOMAIN queue : queue[k].conn = current

Served == {"ssl_read", "build", "append", "ssl_write", "ssl_shutdown"}

Quotable ==
  /\ pc \notin {"log_tls_error", "exited"} => Leftovers(errq)
  /\ pc \in Served => Own(errq)
  /\ pc = "append" => QuotesItsFailure(body)
  /\ pc = "log_tls_error" => QuotesItsFailure([body EXCEPT !.errors = errq])

(* One more entry in the queue, and one less.                              *)
LEMMA AppendedEntry ==
  ASSUME NEW queue \in Seq(Error), NEW e \in Error
  PROVE  /\ \A k \in DOMAIN Append(queue, e) :
              Append(queue, e)[k] = e \/ (k \in DOMAIN queue /\ Append(queue, e)[k] = queue[k])
         /\ Append(queue, e) # <<>> /\ Append(queue, e)[Len(Append(queue, e))] = e
<1>1. /\ Len(queue) \in Nat /\ DOMAIN queue = 1 .. Len(queue)
      /\ DOMAIN Append(queue, e) = 1 .. (Len(queue) + 1)
      /\ Len(Append(queue, e)) = Len(queue) + 1
      /\ Append(queue, e)[Len(queue) + 1] = e
      /\ \A k \in 1 .. Len(queue) : Append(queue, e)[k] = queue[k]
  OBVIOUS
<1>2. \A k \in 1 .. (Len(queue) + 1) : k = Len(queue) + 1 \/ k \in 1 .. Len(queue)
  BY <1>1
<1> QED
  BY <1>1, <1>2, AppendError

LEMMA PoppedEntry ==
  ASSUME NEW queue \in Seq(Error), queue # <<>>
  PROVE  /\ 1 \in DOMAIN queue /\ Oldest(queue) = queue[1]
         /\ \A k \in DOMAIN Tail(queue) : k + 1 \in DOMAIN queue /\ Tail(queue)[k] = queue[k + 1]
BY DEF Oldest

(* The handler and the loop.                                               *)
LEMMA ServeQuotes ==
  ASSUME Inductive, Quotable, EventsQuoteTheirFailure, Serve
  PROVE  Quotable' /\ EventsQuoteTheirFailure'
<1> USE DEF HandlerStep, Goto
<1>1. TypeOK /\ errq \in Seq(Error) /\ (pc \in HandlerSteps => current \in Conns)
  BY DEF Inductive, TypeOK, InHand
<1>2. ASSUME NEW op \in Ops, current \in Conns
      PROVE  Err(op, current) \in Error /\ Err(op, current).op = op /\ Err(op, current).conn = current
  BY <1>2, ErrType DEF Err
<1>3. ASSUME NEW op \in Tolerated, pc \in Served, Leftovers(errq), Own(errq), UNCHANGED current,
             errq' = errq \/ errq' = Append(errq, Err(op, current))
      PROVE  Leftovers(errq') /\ \A k \in DOMAIN errq' : errq'[k].conn = current
  <2>1. current \in Conns /\ op \in Ops
    BY <1>1, <1>3 DEF Served, HandlerSteps, Tolerated, Ops
  <2>2. CASE errq' = errq
    BY <1>3, <2>2 DEF Leftovers, Own
  <2>3. CASE errq' = Append(errq, Err(op, current))
    BY <1>1, <1>2, <1>3, <2>1, <2>3, AppendedEntry DEF Leftovers, Own
  <2> QED
    BY <1>3, <2>2, <2>3
<1>4. ASSUME UNCHANGED log PROVE EventsQuoteTheirFailure'
  BY <1>4 DEF EventsQuoteTheirFailure, QuotesItsFailure
<1>5. ASSUME NEW e \in Event, QuotesItsFailure(e), AppendOrDrop(e) PROVE EventsQuoteTheirFailure'
  <2>1. \A i \in DOMAIN log' : log'[i] = e \/ (i \in DOMAIN log /\ log'[i] = log[i])
    BY <1>1, <1>5, AppendedOrOld
  <2> QED
    BY <1>5, <2>1 DEF EventsQuoteTheirFailure, QuotesItsFailure
<1>6. CASE AcceptConnection
  <2>1. pc = "accept" /\ pc' = "ssl_new" /\ UNCHANGED <<errq, log>>
    BY <1>6 DEF AcceptConnection, auditVars
  <2>2. Quotable'
    BY <2>1 DEF Quotable, Leftovers, Served
  <2> QED
    BY <1>4, <2>1, <2>2
<1>7. CASE SslNew
  <2>1. pc = "ssl_new" /\ UNCHANGED <<current, log>> /\ current \in Conns /\ Leftovers(errq)
    BY <1>1, <1>7 DEF SslNew, auditVars, HandlerSteps, Quotable
  <2>2. CASE pc' = "ssl_accept" /\ UNCHANGED errq
    BY <1>4, <2>1, <2>2 DEF Quotable, Leftovers, Served
  <2>3. CASE /\ pc' = "log_tls_error" /\ errq' = Append(errq, Err("SSL_new", current))
             /\ body' = [NoBody EXCEPT !.conn = current, !.phase = "ssl_object_creation"]
    <3>1. Err("SSL_new", current) \in Error /\ Err("SSL_new", current).conn = current
      BY <1>2, <2>1 DEF Ops
    <3>2. /\ \A k \in DOMAIN errq' :
               errq'[k] = Err("SSL_new", current) \/ (k \in DOMAIN errq /\ errq'[k] = errq[k])
          /\ errq' # <<>> /\ errq'[Len(errq')] = Err("SSL_new", current)
      BY <1>1, <2>3, <3>1, AppendedEntry
    <3> DEFINE event == [body' EXCEPT !.errors = errq']
    <3>3. event.conn = current /\ event.phase = "ssl_object_creation" /\ event.errors = errq'
      BY <2>3 DEF NoBody
    <3> HIDE DEF event
    <3>4. QuotesItsFailure(event)
      BY <2>1, <3>1, <3>2, <3>3 DEF QuotesItsFailure, Leftovers
    <3>5. QuotesItsFailure([body' EXCEPT !.errors = errq'])
      BY <3>4 DEF event
    <3>6. QuotesItsFailure([body EXCEPT !.errors = errq])'
      BY <3>5 DEF QuotesItsFailure, Err
    <3>7. Quotable'
      BY <2>3, <3>6 DEF Quotable, Served
    <3> QED
      BY <1>4, <2>1, <3>7
  <2> QED
    BY <1>7, <2>2, <2>3 DEF SslNew
<1>8. CASE SslAcceptDone
  <2>1. pc' = "ssl_read" /\ errq' = <<>> /\ UNCHANGED log
    BY <1>8 DEF SslAcceptDone, ErrClearError, auditVars
  <2>2. Quotable'
    BY <2>1 DEF Quotable, Leftovers, Own, Served
  <2> QED
    BY <1>4, <2>1, <2>2
<1>9. CASE SslAcceptFailed
  <2>1. /\ pc = "ssl_accept" /\ pc' = "log_tls_error" /\ UNCHANGED <<current, log>>
        /\ body' = [NoBody EXCEPT !.conn = current, !.phase = "SSL_accept"]
        /\ errq' = <<>> \/ errq' = Append(<<>>, Err("SSL_accept", current))
    BY <1>9 DEF SslAcceptFailed, ErrClearError, auditVars
  <2>2. \A k \in DOMAIN errq' : errq'[k].conn = current
    BY <2>1 DEF Err
  <2> DEFINE event == [body' EXCEPT !.errors = errq']
  <2>3. event.conn = current /\ event.phase = "SSL_accept" /\ event.errors = errq'
    BY <2>1 DEF NoBody
  <2> HIDE DEF event
  <2>4. QuotesItsFailure(event)
    BY <2>2, <2>3 DEF QuotesItsFailure
  <2>5. QuotesItsFailure([body' EXCEPT !.errors = errq'])
    BY <2>4 DEF event
  <2>6. QuotesItsFailure([body EXCEPT !.errors = errq])'
    BY <2>5 DEF QuotesItsFailure, Err
  <2>7. Quotable'
    BY <2>1, <2>6 DEF Quotable, Served
  <2> QED
    BY <1>4, <2>1, <2>7
<1>10. CASE LogTlsErrorEvent
  <2> DEFINE event == [body EXCEPT !.kind = "tls_handshake_failed", !.errors = errq]
  <2>1. pc = "log_tls_error" /\ pc' = "release_failed" /\ errq' = <<>> /\ AppendOrDrop(event)
    BY <1>10 DEF LogTlsErrorEvent
  <2>2. event \in Event
    BY <1>1, <2>1 DEF Inductive, Draft, HandlerSteps, TypeOK, Event, Kinds
  <2> DEFINE quoted == [body EXCEPT !.errors = errq]
  <2>3. /\ event.conn = quoted.conn /\ event.phase = quoted.phase /\ event.errors = quoted.errors
        /\ QuotesItsFailure(quoted)
    BY <2>1 DEF Quotable, TypeOK, Inductive
  <2> HIDE DEF event, quoted
  <2>4. QuotesItsFailure(event)
    BY <2>3 DEF QuotesItsFailure
  <2>5. Quotable'
    BY <2>1 DEF Quotable, Leftovers, Served
  <2> QED
    BY <1>5, <2>1, <2>2, <2>4, <2>5
<1>11. CASE ReleaseFailed
  <2>1. pc = "release_failed" /\ pc' = "accept" /\ UNCHANGED <<errq, log>>
    BY <1>11 DEF ReleaseFailed, Release, auditVars
  <2>2. Quotable'
    BY <2>1 DEF Quotable, Leftovers, Served
  <2> QED
    BY <1>4, <2>1, <2>2
<1>12. CASE SslRead
  <2>1. /\ pc = "ssl_read" /\ pc' = "build" /\ UNCHANGED <<current, log>>
        /\ errq' = errq \/ errq' = Append(errq, Err("SSL_read", current))
    BY <1>12 DEF SslRead, auditVars
  <2>2. Leftovers(errq') /\ \A k \in DOMAIN errq' : errq'[k].conn = current
    BY <1>3, <2>1 DEF Quotable, Served, Tolerated
  <2>3. Quotable'
    BY <2>1, <2>2 DEF Quotable, Leftovers, Own, Served
  <2> QED
    BY <1>4, <2>1, <2>3
<1>13. CASE BuildResponse
  <2>1. /\ pc = "build" /\ pc' = "append" /\ UNCHANGED <<current, log>> /\ current \in Conns
        /\ Leftovers(errq) /\ Own(errq)
    BY <1>1, <1>13 DEF BuildResponse, auditVars, Quotable, Served, HandlerSteps
  <2>2. ASSUME NEW kind, NEW errors, Respond(kind, errors), Leftovers(errq'),
               \A k \in DOMAIN errors : errors[k].conn = current,
               \A k \in DOMAIN errq' : errq'[k].conn = current
        PROVE  Quotable'
    <3>1. body'.conn = current /\ body'.phase = "http" /\ body'.errors = errors
      BY <2>2 DEF Respond
    <3>2. QuotesItsFailure(body)'
      BY <2>2, <3>1 DEF QuotesItsFailure
    <3> QED
      BY <2>1, <2>2, <3>2 DEF Quotable, Leftovers, Own, Served
  <2>3. ASSUME NEW kind, Respond(kind, <<>>), UNCHANGED errq PROVE Quotable'
    BY <2>1, <2>2, <2>3 DEF Leftovers, Own
  <2>4. ASSUME SelftestResponse, ~evp PROVE Quotable'
    <3> DEFINE queue == Append(errq, Err("EVP", current))
    <3>1. Err("EVP", current) \in Error
      BY <1>2, <2>1 DEF Ops
    <3>2. queue \in Seq(Error) /\ queue # <<>>
      BY <1>1, <3>1, AppendError
    <3>3. \A k \in DOMAIN queue : queue[k].op \in Tolerated /\ queue[k].conn = current
      BY <1>1, <2>1, <3>1, AppendedEntry DEF Leftovers, Own, Err, Tolerated
    <3>4. GetOpenSslError(queue) /\ Respond("internal_error", <<Oldest(queue)>>)
      BY <2>4 DEF SelftestResponse
    <3> HIDE DEF queue
    <3>5. errq' = Tail(queue)
      BY <3>2, <3>4 DEF GetOpenSslError
    <3>6. /\ 1 \in DOMAIN queue /\ Oldest(queue) = queue[1]
          /\ \A k \in DOMAIN Tail(queue) : k + 1 \in DOMAIN queue /\ Tail(queue)[k] = queue[k + 1]
      BY <3>2, PoppedEntry
    <3>7. Leftovers(errq') /\ \A k \in DOMAIN errq' : errq'[k].conn = current
      BY <3>3, <3>5, <3>6 DEF Leftovers
    <3>8. Oldest(queue).conn = current
      BY <3>3, <3>6
    <3>9. \A k \in DOMAIN <<Oldest(queue)>> : <<Oldest(queue)>>[k].conn = current
      BY <3>8
    <3> QED
      BY <2>2, <3>4, <3>7, <3>9
  <2>5. ASSUME SelftestResponse, evp PROVE Quotable'
    BY <2>3, <2>5 DEF SelftestResponse
  <2>6. Quotable'
    BY <1>13, <2>3, <2>4, <2>5 DEF BuildResponse
  <2> QED
    BY <1>4, <2>1, <2>6
<1>14. CASE AppendResponse
  <2>1. /\ pc = "append" /\ pc' = "ssl_write" /\ UNCHANGED <<current, errq>> /\ AppendOrDrop(body)
        /\ body \in Event /\ QuotesItsFailure(body) /\ Leftovers(errq) /\ Own(errq)
    BY <1>14 DEF AppendResponse, Inductive, Draft, Quotable, Served
  <2>2. Quotable'
    BY <2>1 DEF Quotable, Leftovers, Own, Served
  <2> QED
    BY <1>5, <2>1, <2>2
<1>15. CASE SslWrite
  <2>1. /\ pc = "ssl_write" /\ pc' = "ssl_shutdown" /\ UNCHANGED <<current, log>>
        /\ errq' = errq \/ errq' = Append(errq, Err("SSL_write", current))
    BY <1>15 DEF SslWrite
  <2>2. Leftovers(errq') /\ \A k \in DOMAIN errq' : errq'[k].conn = current
    BY <1>3, <2>1 DEF Quotable, Served, Tolerated
  <2>3. Quotable'
    BY <2>1, <2>2 DEF Quotable, Leftovers, Own, Served
  <2> QED
    BY <1>4, <2>1, <2>3
<1>16. CASE SslShutdown
  <2>1. /\ pc = "ssl_shutdown" /\ pc' = "accept" /\ UNCHANGED log
        /\ errq' = errq \/ errq' = Append(errq, Err("SSL_shutdown", current))
        /\ Leftovers(errq) /\ current \in Conns
    BY <1>1, <1>16 DEF SslShutdown, Release, auditVars, Quotable, HandlerSteps
  <2>2. Err("SSL_shutdown", current) \in Error /\ Err("SSL_shutdown", current).op = "SSL_shutdown"
    BY <1>2, <2>1 DEF Ops
  <2>3. ASSUME errq' = errq PROVE Quotable'
    BY <2>1, <2>3 DEF Quotable, Leftovers, Served
  <2>4. ASSUME errq' = Append(errq, Err("SSL_shutdown", current)) PROVE Quotable'
    <3>1. Leftovers(errq')
      BY <1>1, <2>1, <2>2, <2>4, AppendedEntry DEF Leftovers, Tolerated
    <3> QED
      BY <2>1, <3>1 DEF Quotable, Leftovers, Served
  <2> QED
    BY <1>4, <2>1, <2>3, <2>4
<1> QED
  BY <1>6, <1>7, <1>8, <1>9, <1>10, <1>11, <1>12, <1>13, <1>14, <1>15, <1>16 DEF Serve

(* Start-up leaves at most the warning about oqsprovider behind; the end   *)
(* of the process takes the queue with it.                                 *)
LEMMA LifeQuotes ==
  ASSUME Inductive, Quotable, EventsQuoteTheirFailure,
         Startup \/ BrokenPipe \/ Terminated \/ Restart
  PROVE  Quotable' /\ EventsQuoteTheirFailure'
<1> USE DEF Goto
<1>1. ASSUME UNCHANGED log PROVE EventsQuoteTheirFailure'
  BY <1>1 DEF EventsQuoteTheirFailure, QuotesItsFailure
<1>2. ASSUME pc' = "exited" PROVE Quotable'
  BY <1>2 DEF Quotable, Served
<1>3. ASSUME ProcessEnds PROVE Quotable' /\ EventsQuoteTheirFailure'
  BY <1>1, <1>2, <1>3 DEF ProcessEnds, auditVars
<1>4. ASSUME NEW from \in StartupSteps, NEW to \in StartupSteps \cup {"accept"},
             StartupStep(from, to), Leftovers(errq')
      PROVE  Quotable' /\ EventsQuoteTheirFailure'
  <2>1. pc' = to /\ UNCHANGED log
    BY <1>4 DEF StartupStep, auditVars
  <2>2. Quotable'
    BY <1>4, <2>1 DEF Quotable, Leftovers, Served, StartupSteps
  <2> QED
    BY <1>1, <2>1, <2>2
<1>5. ASSUME pc \in StartupSteps, UNCHANGED errq PROVE Leftovers(errq')
  BY <1>5 DEF Quotable, Leftovers, StartupSteps
<1>6. CASE LoadProviders
  <2> DEFINE queue == IF oqs THEN errq ELSE Append(errq, Err("oqs", NoConn))
  <2>1. CASE StartupStep("load_providers", "create_context") /\ errq' = queue
    <3>1. errq \in Seq(Error) /\ Leftovers(errq)
      BY <2>1 DEF Inductive, TypeOK, Quotable, StartupStep
    <3>2. Err("oqs", NoConn) \in Error /\ Err("oqs", NoConn).op = "oqs"
      BY ErrType DEF Ops, Err
    <3>3. Leftovers(Append(errq, Err("oqs", NoConn)))
      BY <3>1, <3>2, AppendedEntry DEF Leftovers, Tolerated
    <3>4. Leftovers(errq')
      BY <2>1, <3>1, <3>3
    <3> QED
      BY <1>4, <2>1, <3>4 DEF StartupSteps
  <2> QED
    BY <1>3, <1>6, <2>1 DEF LoadProviders, FatalOpenSsl
<1>7. CASE LoadConfig
  BY <1>3, <1>4, <1>5, <1>7 DEF LoadConfig, Fatal, StartupSteps, StartupStep
<1>8. CASE CreateTlsContext
  BY <1>3, <1>4, <1>5, <1>8 DEF CreateTlsContext, Fatal, FatalOpenSsl, StartupSteps, StartupStep
<1>9. CASE CreateTcpServerSocket
  BY <1>3, <1>4, <1>5, <1>9 DEF CreateTcpServerSocket, Fatal, StartupSteps, StartupStep
<1>10. CASE Restart
  <2>1. pc' = "load_config" /\ errq' = <<>> /\ UNCHANGED log
    BY <1>10 DEF Restart, auditVars
  <2>2. Quotable'
    BY <2>1 DEF Quotable, Leftovers, Served
  <2> QED
    BY <1>1, <2>1, <2>2
<1> QED
  BY <1>3, <1>6, <1>7, <1>8, <1>9, <1>10 DEF Startup, BrokenPipe, Terminated

(* No event quotes the OpenSSL errors of another connection's handshake;   *)
(* one of a failed SSL_new() may open with leftovers of tolerated          *)
(* failures, and always ends with its own error.                           *)
THEOREM ErrorsAreOwn == Spec => []EventsQuoteTheirFailure
<1>1. Init => Quotable /\ EventsQuoteTheirFailure
  BY DEF Init, Quotable, Leftovers, Served, EventsQuoteTheirFailure
<1>2. Inductive /\ Quotable /\ EventsQuoteTheirFailure /\ [Next]_vars
        => Quotable' /\ EventsQuoteTheirFailure'
  <2> SUFFICES ASSUME Inductive, Quotable, EventsQuoteTheirFailure, [Next]_vars
               PROVE  Quotable' /\ EventsQuoteTheirFailure'
    OBVIOUS
  <2>1. ASSUME UNCHANGED <<processVars, log>> PROVE Quotable' /\ EventsQuoteTheirFailure'
    BY <2>1 DEF processVars, Quotable, Leftovers, Own, Served, EventsQuoteTheirFailure,
                QuotesItsFailure
  <2>2. ASSUME NEW c \in Conns, Connect(c) \/ Client(c)
        PROVE  Quotable' /\ EventsQuoteTheirFailure'
    BY <2>1, <2>2 DEF Connect, Client, Greet, Ask, Leave, ClientActs, auditVars
  <2>3. CASE UNCHANGED vars
    BY <2>1, <2>3 DEF vars, auditVars
  <2> QED
    BY <2>2, <2>3, ServeQuotes, LifeQuotes DEF Next
<1> QED
  BY <1>1, <1>2, InductiveInvariant, PTL DEF Spec

-----------------------------------------------------------------------------
(* The refinement.                                                         *)

Trail == [i \in DOMAIN log |-> Summary(log[i])]
Told == {Summary(answer) : answer \in replies}

(* The abstract trail records the connections the log names.               *)
LEMMA RecordedIsLogged == TypeOK => Audit!Recorded = Logged
<1>1. DOMAIN Trail = DOMAIN log /\ \A i \in DOMAIN log : Trail[i].conn = log[i].conn
  BY DEF Trail, Summary
<1> QED
  BY <1>1 DEF Audit!Recorded, Trail, Summary, Logged

(* An append to the log is an append to the trail.                         *)
LEMMA TrailAppend ==
  ASSUME TypeOK, NEW e \in Event, log' = Append(log, e)
  PROVE  Trail' = Append(Trail, Summary(e))
<1> DEFINE S == [conn : Conns, kind : Kinds]
<1>1. log \in Seq(Event) /\ log' \in Seq(Event) /\ Len(log) \in Nat
  BY DEF TypeOK
<1>2. /\ DOMAIN log = 1 .. Len(log) /\ DOMAIN log' = 1 .. Len(log') /\ Len(log') = Len(log) + 1
      /\ log'[Len(log) + 1] = e /\ \A i \in 1 .. Len(log) : log'[i] = log[i]
  BY <1>1
<1>3. \A i \in 1 .. Len(log) : log[i] \in Event
  BY <1>1, <1>2
<1>4. \A x \in Event : Summary(x) \in S
  BY DEF Summary, Event
<1>5. /\ Trail = [i \in 1 .. Len(log) |-> Summary(log[i])]
      /\ Trail' = [i \in 1 .. (Len(log) + 1) |-> Summary(log'[i])]
  BY <1>2 DEF Trail, Summary
<1> HIDE DEF Trail, S
<1>6. Trail \in Seq(S) /\ Len(Trail) = Len(log)
  BY <1>1, <1>3, <1>4, <1>5
<1>7. Trail' \in Seq(S) /\ Len(Trail') = Len(log) + 1
  BY <1>1, <1>2, <1>3, <1>4, <1>5
<1> DEFINE T == Append(Trail, Summary(e))
<1>8. /\ T \in Seq(S) /\ Len(T) = Len(log) + 1 /\ T[Len(log) + 1] = Summary(e)
      /\ \A i \in 1 .. Len(log) : T[i] = Trail[i]
  BY <1>4, <1>6, AppendProperties
<1>9. \A i \in 1 .. (Len(log) + 1) : Trail'[i] = T[i]
  <2> TAKE i \in 1 .. (Len(log) + 1)
  <2>1. CASE i = Len(log) + 1
    BY <1>1, <1>2, <1>5, <1>8, <2>1
  <2>2. CASE i \in 1 .. Len(log)
    BY <1>2, <1>5, <1>8, <2>2
  <2>3. Len(log) \in Nat
    BY <1>1
  <2>4. i = Len(log) + 1 \/ i \in 1 .. Len(log)
    BY <2>3
  <2> QED
    BY <2>1, <2>2, <2>4
<1> HIDE DEF T
<1>10. Trail' = T
  BY <1>7, <1>8, <1>9, SeqEqual
<1> QED
  BY <1>10 DEF T

(* The summary of an event keeps its connection and its kind.              *)
LEMMA SummaryConn ==
  ASSUME NEW e \in Event
  PROVE  /\ Summary(e) \in [conn : Conns, kind : Kinds]
         /\ Summary(e).conn = e.conn /\ Summary(e).kind = e.kind
BY DEF Summary, Event

(* A step that appends or drops the event of a connection not accounted    *)
(* for is a step of the abstract trail.                                    *)
LEMMA AppendOrDropRefines ==
  ASSUME TypeOK, NEW e \in Event, e.conn \notin Accounted, AppendOrDrop(e), UNCHANGED replies
  PROVE  Audit!Next
<1>1. e.conn \notin Audit!Recorded \cup dropped /\ e.conn \in Conns
  BY RecordedIsLogged DEF Accounted, Event
<1>2. Told' = Told
  BY DEF Told
<1>3. CASE log' = Append(log, e) /\ UNCHANGED dropped
  <2>1. Trail' = Append(Trail, Summary(e))
    BY <1>3, TrailAppend
  <2>2. Audit!Write(Summary(e))
    BY <1>1, <1>2, <1>3, <2>1, SummaryConn DEF Audit!Write, Trail, Told
  <2> QED
    BY <2>2, SummaryConn DEF Audit!Next
<1>4. CASE dropped' = dropped \cup {e.conn} /\ UNCHANGED log
  <2>1. Trail' = Trail
    BY <1>4 DEF Trail
  <2>2. Audit!Miss(e.conn)
    BY <1>1, <1>2, <1>4, <2>1 DEF Audit!Miss, Trail, Told
  <2> QED
    BY <1>1, <2>2 DEF Audit!Next
<1> QED
  BY <1>3, <1>4 DEF AppendOrDrop

(* Writing the answer to the client is telling what was recorded.          *)
LEMMA WriteRefines ==
  ASSUME Inductive, SslWrite, replies' = replies \cup {body}
  PROVE  Audit!Next
<1> USE DEF Inductive
<1>1. /\ pc = "ssl_write" /\ UNCHANGED <<log, dropped>> /\ current \in Conns
      /\ body \in Event /\ body.conn = current /\ body.kind # "tls_handshake_failed"
      /\ current \in dropped \/ \E i \in DOMAIN log : log[i] = body
      /\ \A answer \in replies : answer.conn # current /\ answer \in Event
  BY DEF SslWrite, HandlerStep, InHand, Draft, TypeOK, HandlerSteps
<1> DEFINE e == Summary(body)
<1>2. e \in [conn : Conns, kind : Kinds] /\ e.conn = current /\ e.kind = body.kind
  BY <1>1, SummaryConn
<1>3. Told' = Told \cup {e} /\ Trail' = Trail
  BY <1>1 DEF Told, Trail, Summary
<1>4. e.conn \in dropped \/ \E i \in DOMAIN Trail : Trail[i] = e
  BY <1>1, <1>2 DEF Trail
<1>5. e.conn \notin {t.conn : t \in Told}
  BY <1>1, <1>2, SummaryConn DEF Told
<1> HIDE DEF e
<1>6. Audit!Tell(e)
  BY <1>1, <1>2, <1>3, <1>4, <1>5 DEF Audit!Tell, Trail, Told
<1> QED
  BY <1>2, <1>6 DEF Audit!Next

(* Every step of the server is a step of the audit trail, or none.         *)
LEMMA StepRefines == Inductive /\ [Next]_vars => [Audit!Next]_(Audit!vars)
<1> SUFFICES ASSUME Inductive, [Next]_vars PROVE [Audit!Next]_(Audit!vars)
  OBVIOUS
<1>1. CASE UNCHANGED auditVars
  BY <1>1 DEF Audit!vars, auditVars, Summary
<1>2. CASE LogTlsErrorEvent
  <2> DEFINE event == [body EXCEPT !.kind = "tls_handshake_failed", !.errors = errq]
  <2>1. event \in Event /\ event.conn \notin Accounted
    BY <1>2 DEF LogTlsErrorEvent, HandlerStep, Inductive, InHand, Draft, Ledger, TypeOK,
                HandlerSteps, Event, Kinds
  <2>2. AppendOrDrop(event) /\ UNCHANGED replies
    BY <1>2 DEF LogTlsErrorEvent
  <2> HIDE DEF event
  <2> QED
    BY <2>1, <2>2, AppendOrDropRefines DEF Inductive
<1>3. CASE AppendResponse
  <2>1. body \in Event /\ body.conn \notin Accounted /\ AppendOrDrop(body) /\ UNCHANGED replies
    BY <1>3 DEF AppendResponse, HandlerStep, Inductive, InHand, Draft, Ledger, HandlerSteps
  <2> QED
    BY <2>1, AppendOrDropRefines DEF Inductive
<1>4. CASE SslWrite
  <2>1. CASE UNCHANGED replies
    BY <1>1, <1>4, <2>1 DEF SslWrite, auditVars
  <2>2. CASE replies' = replies \cup {body}
    BY <1>4, <2>2, WriteRefines
  <2> QED
    BY <1>4, <2>1, <2>2 DEF SslWrite
<1>5. ASSUME ProcessEnds PROVE UNCHANGED auditVars
  BY <1>5 DEF ProcessEnds
<1>6. CASE Startup
  BY <1>1, <1>5, <1>6 DEF Startup, LoadConfig, LoadProviders, CreateTlsContext,
                          CreateTcpServerSocket, Fatal, FatalOpenSsl, StartupStep
<1>7. CASE BrokenPipe \/ Terminated \/ Restart
  BY <1>1, <1>5, <1>7 DEF BrokenPipe, Terminated, Restart
<1>8. ASSUME NEW c \in Conns, Connect(c) \/ Client(c) PROVE UNCHANGED auditVars
  BY <1>8 DEF Connect, Client, Greet, Ask, Leave, ClientActs
<1>9. CASE Serve
  BY <1>1, <1>2, <1>3, <1>4, <1>9 DEF Serve, AcceptConnection, SslNew, SslAcceptDone,
       SslAcceptFailed, ReleaseFailed, SslRead, BuildResponse, SslShutdown, Release
<1>10. CASE UNCHANGED vars
  BY <1>1, <1>10 DEF vars
<1> QED
  BY <1>1, <1>6, <1>7, <1>8, <1>9, <1>10 DEF Next

(* The server implements the audit trail: at most one record per           *)
(* connection, and nothing told that was not recorded first.               *)
THEOREM Refinement == Spec => ImplementsAuditTrail
<1>1. Init => Audit!Init
  BY DEF Init, Audit!Init
<1>2. Inductive /\ [Next]_vars => [Audit!Next]_(Audit!vars)
  BY StepRefines
<1> QED
  BY <1>1, <1>2, InductiveInvariant, PTL DEF Spec, Audit!Spec, ImplementsAuditTrail

=============================================================================
