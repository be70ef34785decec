------------------------------ MODULE TlsServer ------------------------------
(***************************************************************************)
(* One process of the TLS telemetry server (app/src/main.cpp,              *)
(* app/src/TlsServer.cpp): start-up, the blocking accept loop, and the     *)
(* handler that takes one client through SSL_new, SSL_accept, SSL_read,    *)
(* the response builder, the JSON log and SSL_write.                       *)
(*                                                                         *)
(* The server is one thread; what interleaves with it is the world:        *)
(* clients that connect, greet, ask and leave at any moment, appends to    *)
(* the log that fail, the peer's reset turning a write into SIGPIPE (which *)
(* nothing in the program handles), the operator's SIGTERM, and the        *)
(* restart of the process by its supervisor.  The log file outlives it.    *)
(*                                                                         *)
(* A client is named by its connection: a member of Conns connects at most *)
(* once.  An append is atomic here; JsonLogger.tla opens it up.            *)
(***************************************************************************)
EXTENDS Naturals, Sequences

CONSTANTS
  Conns,         \* connections clients may open
  NoConn,        \* "no connection": what belongs to start-up
  Backlog,       \* length of the kernel's queue of the listening socket
  MaxRestarts,   \* BOUND: how often the supervisor starts the process again
  OperatorStops  \* whether SIGTERM may arrive

ASSUME NoConnAssumption == NoConn \notin Conns
ASSUME BacklogAssumption == Backlog \in Nat \ {0}
ASSUME MaxRestartsAssumption == MaxRestarts \in Nat
ASSUME OperatorStopsAssumption == OperatorStops \in BOOLEAN

VARIABLES
  \* the process
  pc,         \* the call the server's only thread is about to make
  current,    \* connection of the running handler
  fds,        \* client sockets the process holds open
  ssl,        \* the handler's SSL object: none, live, or failed (fatal error)
  errq,       \* the thread's OpenSSL error queue, oldest first
  request,    \* what the handler read, or assumed
  body,       \* the event or response the handler has in hand
  diagnoses,  \* history: what getOpenSslError() answered, beside the newest error
  \* the machine around it
  backlog,    \* the listening socket's queue of connections
  oqs,        \* whether oqsprovider can be loaded on this machine
  evp,        \* whether the configured digest and cipher can be fetched
  restarts,
  \* what outlives the process
  log,        \* events in log_file
  dropped,    \* connections whose event could not be appended
  replies,    \* responses written to clients
  \* the clients
  client,     \* what each client has done so far
  gone,       \* clients whose end of the connection is closed
  secured,    \* clients whose handshake completed
  fate        \* where each connection is, seen from the server

processVars == <<pc, current, fds, ssl, errq, request, body, diagnoses>>
machineVars == <<oqs, evp, restarts>>
auditVars   == <<log, dropped, replies>>
clientVars  == <<client, gone>>
vars == <<processVars, backlog, machineVars, auditVars, clientVars, secured, fate>>

-----------------------------------------------------------------------------
(* Data.  The first TLS record of a request is "selftest" (GET / or        *)
(* /crypto-selftest), "unknown" (any other path), "undecodable" (a path    *)
(* that is not UTF-8, which the JSON library refuses to dump) or "empty"   *)
(* (the client ends its sending side without a request).                   *)

Requests == {"selftest", "unknown", "undecodable", "empty"}
Greetings == {"compatible", "incompatible"}  \* shares version, group and sigalg, or not
ClientStates == {"absent", "silent"} \cup Greetings \cup Requests

Fates == {"none", "queued", "accepted", "served", "aborted", "refused"}

Ops == {"oqs", "default", "SSL_CTX", "SSL_new", "SSL_accept", "SSL_read",
        "EVP", "SSL_write", "SSL_shutdown"}

(* An entry of the error queue: the call that failed and for whom.         *)
Error == [op : Ops, conn : Conns \cup {NoConn}]
Err(op, c) == [op |-> op, conn |-> c]
NoError == [op |-> "none", conn |-> NoConn]  \* "no OpenSSL error available"

(* Failures that nobody reports, so that their entries stay in the queue:  *)
(* the provider's is only a warning, the others are not looked at, or      *)
(* getOpenSslError() has popped an older entry in their stead.             *)
Tolerated == {"oqs", "SSL_read", "EVP", "SSL_write", "SSL_shutdown"}

Kinds == {"tls_request", "route_not_found", "internal_error", "tls_handshake_failed"}
Phases == {"ssl_object_creation", "SSL_accept", "http"}

(* An event: the JSON object that is logged and, for the last phase,       *)
(* answered.  errors holds the OpenSSL errors it quotes.                   *)
Event == [conn : Conns, kind : Kinds, phase : Phases, errors : Seq(Error)]
NoBody == [conn |-> NoConn, kind |-> "none", phase |-> "none", errors |-> <<>>]

StartupSteps == {"load_config", "load_providers", "create_context", "create_socket"}
HandlerSteps == {"ssl_new", "ssl_accept", "log_tls_error", "release_failed", "ssl_read",
                 "build", "append", "ssl_write", "ssl_shutdown"}
Steps == StartupSteps \cup {"accept", "exited"} \cup HandlerSteps

Init ==
  /\ pc = "load_config" /\ current = NoConn /\ fds = {} /\ ssl = "none"
  /\ errq = <<>> /\ request = "empty" /\ body = NoBody /\ diagnoses = {}
  /\ backlog = <<>> /\ oqs \in BOOLEAN /\ evp \in BOOLEAN /\ restarts = 0
  /\ log = <<>> /\ dropped = {} /\ replies = {}
  /\ client = [c \in Conns |-> "absent"] /\ gone = {} /\ secured = {}
  /\ fate = [c \in Conns |-> "none"]

-----------------------------------------------------------------------------
(* Start-up: main() and the constructor.                                   *)

Goto(step) == pc' = step

(* getOpenSslError() pops one entry, the oldest: ERR_get_error().          *)
Oldest(queue) == IF queue = <<>> THEN NoError ELSE Head(queue)
Newest(queue) == IF queue = <<>> THEN NoError ELSE queue[Len(queue)]

GetOpenSslError(queue) ==
  /\ diagnoses' = diagnoses \cup {[newest |-> Newest(queue), reported |-> Oldest(queue)]}
  /\ errq' = IF queue = <<>> THEN queue ELSE Tail(queue)

(* The process is over: the kernel closes every descriptor it held, which  *)
(* resets the connection in hand and those nobody had accepted yet.        *)
ProcessEnds ==
  /\ Goto("exited")
  /\ current' = NoConn /\ fds' = {} /\ ssl' = "none"
  /\ request' = "empty" /\ body' = NoBody
  /\ backlog' = <<>>
  /\ gone' = gone \cup {c \in Conns : fate[c] \in {"queued", "accepted"}}
  /\ fate' = [c \in Conns |-> IF fate[c] = "queued" THEN "refused"
                              ELSE IF fate[c] = "accepted" THEN "aborted"
                              ELSE fate[c]]
  /\ UNCHANGED <<machineVars, auditVars, client, secured>>

(* A C++ exception that main() catches: "Fatal error", exit status 1.      *)
FatalOpenSsl(queue) ==
  /\ GetOpenSslError(queue)
  /\ ProcessEnds

Fatal == ProcessEnds /\ errq' = <<>> /\ diagnoses' = {}

StartupStep(from, to) ==
  /\ pc = from /\ Goto(to)
  /\ UNCHANGED <<current, fds, ssl, request, body, diagnoses, backlog, machineVars,
                 auditVars, clientVars, secured, fate>>

LoadConfig ==
  \/ StartupStep("load_config", "load_providers") /\ UNCHANGED errq
  \/ pc = "load_config" /\ Fatal

(* A missing oqsprovider is only a warning: its errors stay in the queue.  *)
LoadProviders ==
  LET queue == IF oqs THEN errq ELSE Append(errq, Err("oqs", NoConn))
  IN  \/ StartupStep("load_providers", "create_context") /\ errq' = queue
      \/ /\ pc = "load_providers"
         /\ FatalOpenSsl(Append(queue, Err("default", NoConn)))

(* A call on the context that fails may leave no entry in the queue        *)
(* (OpenSSL's parser of group lists meeting a name it does not know); a    *)
(* TLS version the code does not know is refused without asking OpenSSL.   *)
CreateTlsContext ==
  \/ StartupStep("create_context", "create_socket") /\ UNCHANGED errq
  \/ /\ pc = "create_context"
     /\ \/ Fatal
        \/ \E queue \in {errq, Append(errq, Err("SSL_CTX", NoConn))} : FatalOpenSsl(queue)

CreateTcpServerSocket ==
  \/ StartupStep("create_socket", "accept") /\ UNCHANGED errq
  \/ pc = "create_socket" /\ Fatal

Listening == pc \in {"accept"} \cup HandlerSteps

-----------------------------------------------------------------------------
(* The loop and the handler.                                               *)

HandlerStep(from, to) ==
  /\ pc = from /\ Goto(to)
  /\ UNCHANGED <<current, backlog, machineVars, clientVars>>

(* accept(2); a failure (a signal, no descriptor left) only writes a line  *)
(* to stderr and loops, so it is a stuttering step.                        *)
AcceptConnection ==
  /\ pc = "accept" /\ backlog # <<>>
  /\ Goto("ssl_new")
  /\ current' = Head(backlog) /\ backlog' = Tail(backlog)
  /\ fds' = fds \cup {Head(backlog)}
  /\ fate' = [fate EXCEPT ![Head(backlog)] = "accepted"]
  /\ UNCHANGED <<ssl, errq, request, body, diagnoses, machineVars, auditVars, clientVars,
                 secured>>

(* SSL_new() and SSL_set_fd(); on failure the handler logs and returns.    *)
SslNew ==
  /\ \/ HandlerStep("ssl_new", "ssl_accept") /\ ssl' = "live" /\ UNCHANGED <<errq, body>>
     \/ /\ HandlerStep("ssl_new", "log_tls_error") /\ UNCHANGED ssl
        /\ errq' = Append(errq, Err("SSL_new", current))
        /\ body' = [NoBody EXCEPT !.conn = current, !.phase = "ssl_object_creation"]
  /\ UNCHANGED <<fds, request, diagnoses, auditVars, secured, fate>>

(* OpenSSL's handshake empties the thread's error queue when it starts     *)
(* (ERR_clear_error in its state machine); the program never does.         *)
ErrClearError(queue) == <<>>

(* SSL_accept() blocks until the client has greeted or gone.               *)
SslAcceptDone ==
  /\ HandlerStep("ssl_accept", "ssl_read")
  /\ client[current] = "compatible" /\ current \notin gone
  /\ errq' = ErrClearError(errq)
  /\ secured' = secured \cup {current}
  /\ UNCHANGED <<fds, ssl, request, body, diagnoses, auditVars, fate>>

(* Wrong: the failure is not logged.                                       *)
SslAcceptFailedUnlogged ==
  /\ HandlerStep("ssl_accept", "release_failed")
  /\ client[current] = "incompatible" \/ current \in gone
  /\ errq' = ErrClearError(errq)
  /\ UNCHANGED <<fds, ssl, request, body, diagnoses, auditVars, secured, fate>>

(* Wrong: the result of the handshake is not looked at.                    *)
SslAcceptUnchecked ==
  /\ HandlerStep("ssl_accept", "ssl_read")
  /\ client[current] = "incompatible" \/ current \in gone
  /\ errq' = ErrClearError(errq)
  /\ UNCHANGED <<fds, ssl, request, body, diagnoses, auditVars, secured, fate>>

(* Wrong: a client that is gone is waited for.                             *)
SslAcceptFailedPatient ==
  /\ HandlerStep("ssl_accept", "log_tls_error")
  /\ client[current] = "incompatible" /\ current \notin gone
  /\ errq' = Append(ErrClearError(errq), Err("SSL_accept", current))
  /\ body' = [NoBody EXCEPT !.conn = current, !.phase = "SSL_accept"]
  /\ UNCHANGED <<fds, ssl, request, diagnoses, auditVars, secured, fate>>

(* A lost transport may fail the handshake without an entry in the queue.  *)
SslAcceptFailed ==
  /\ HandlerStep("ssl_accept", "log_tls_error")
  /\ client[current] = "incompatible" \/ current \in gone
  /\ \/ errq' = Append(ErrClearError(errq), Err("SSL_accept", current))
     \/ current \in gone /\ errq' = ErrClearError(errq)
  /\ body' = [NoBody EXCEPT !.conn = current, !.phase = "SSL_accept"]
  /\ UNCHANGED <<fds, ssl, request, diagnoses, auditVars, secured, fate>>

(* Wrong: an append that seemed to fail is made again.                     *)
AppendTwice(event) ==
  \/ log' = log \o <<event, event>> /\ UNCHANGED dropped
  \/ dropped' = dropped \cup {event.conn} /\ UNCHANGED log

(* appendJsonLogLine() inside its try block: the event reaches the file,   *)
(* or an exception is caught and only stderr knows.                        *)
AppendOrDrop(event) ==
  \/ log' = Append(log, event) /\ UNCHANGED dropped
  \/ dropped' = dropped \cup {event.conn} /\ UNCHANGED log

(* Wrong: one error is taken, the way getOpenSslError() takes it.          *)
LogOneTlsError ==
  LET event == [body EXCEPT !.kind = "tls_handshake_failed", !.errors = <<Oldest(errq)>>]
  IN  /\ HandlerStep("log_tls_error", "release_failed")
      /\ errq' = (IF errq = <<>> THEN errq ELSE Tail(errq)) /\ body' = event
      /\ AppendOrDrop(event)
      /\ UNCHANGED <<fds, ssl, request, diagnoses, replies, secured, fate>>

(* logTlsErrorEvent(): the event takes the whole error queue with it.      *)
LogTlsErrorEvent ==
  LET event == [body EXCEPT !.kind = "tls_handshake_failed", !.errors = errq]
  IN  /\ HandlerStep("log_tls_error", "release_failed")
      /\ errq' = <<>> /\ body' = event
      /\ AppendOrDrop(event)
      /\ UNCHANGED <<fds, ssl, request, diagnoses, replies, secured, fate>>

(* Wrong: the socket is not closed.                                        *)
ReleaseLeaky(from) ==
  /\ pc = from /\ Goto("accept")
  /\ current' = NoConn /\ request' = "empty" /\ body' = NoBody /\ ssl' = "none"
  /\ fate' = [fate EXCEPT ![current] = "served"]
  /\ UNCHANGED <<fds, diagnoses, backlog, machineVars, auditVars, clientVars, secured>>

(* The end of the handler: the SSL object is freed, the socket closed.     *)
Release(from) ==
  /\ pc = from /\ Goto("accept")
  /\ current' = NoConn /\ request' = "empty" /\ body' = NoBody /\ ssl' = "none"
  /\ fds' = fds \ {current}
  /\ fate' = [fate EXCEPT ![current] = "served"]
  /\ UNCHANGED <<diagnoses, backlog, machineVars, auditVars, clientVars, secured>>

ReleaseFailed == Release("release_failed") /\ UNCHANGED errq

(* SSL_read() returns the first record, or nothing: a client that is gone  *)
(* may have left a request behind (FIN) or taken it along (reset).         *)
(* parseHttpRequest is by-passed when nothing arrived: GET / is assumed.   *)
RecordRead ==
  IF current \in gone THEN {client[current], "empty"} ELSE {client[current]}

SslRead ==
  /\ HandlerStep("ssl_read", "build")
  /\ client[current] \in Requests \/ current \in gone
  /\ request' \in RecordRead \cap Requests
  /\ \/ UNCHANGED <<ssl, errq>>
     \/ /\ request' = "empty"
        /\ ssl' = "failed" /\ errq' = Append(errq, Err("SSL_read", current))
  /\ UNCHANGED <<fds, body, diagnoses, auditVars, secured, fate>>

(* Wrong: the response does not say whose it is.                           *)
RespondAnonymous(kind, errors) ==
  body' = [conn |-> NoConn, kind |-> kind, phase |-> "http", errors |-> errors]

(* The route lambda of main(): / and /crypto-selftest run the EVP          *)
(* self-test; an exception becomes the body of a 500.                      *)
Respond(kind, errors) ==
  body' = [conn |-> current, kind |-> kind, phase |-> "http", errors |-> errors]

SelftestResponse ==
  LET queue == Append(errq, Err("EVP", current))
  IN  /\ request \in {"selftest", "empty"}
      /\ IF evp
         THEN Respond("tls_request", <<>>) /\ UNCHANGED <<errq, diagnoses>>
         ELSE /\ GetOpenSslError(queue)
              /\ Respond("internal_error", <<Oldest(queue)>>)

(* Wrong: the response is not logged.                                      *)
BuildResponseUnlogged ==
  /\ HandlerStep("build", "ssl_write")
  /\ SelftestResponse
  /\ UNCHANGED <<fds, ssl, request, auditVars, secured, fate>>

BuildResponse ==
  /\ HandlerStep("build", "append")
  /\ \/ SelftestResponse
     \/ /\ \/ request = "unknown" /\ Respond("route_not_found", <<>>)
           \/ request = "undecodable" /\ Respond("internal_error", <<>>)
        /\ UNCHANGED <<errq, diagnoses>>
  /\ UNCHANGED <<fds, ssl, request, auditVars, secured, fate>>

AppendResponse ==
  /\ HandlerStep("append", "ssl_write")
  /\ AppendOrDrop(body)
  /\ UNCHANGED <<fds, ssl, errq, request, body, diagnoses, replies, secured, fate>>

(* The result of SSL_write() is not looked at.  It fails on an SSL object  *)
(* that has seen a fatal error; and once the client is gone the kernel may *)
(* still take the bytes, or refuse them.                                   *)
SslWrite ==
  /\ HandlerStep("ssl_write", "ssl_shutdown")
  /\ \/ ssl = "live" /\ current \notin gone /\ replies' = replies \cup {body} /\ UNCHANGED errq
     \/ ssl = "live" /\ current \in gone /\ UNCHANGED <<replies, errq>>
     \/ /\ ssl = "failed" \/ current \in gone
        /\ errq' = Append(errq, Err("SSL_write", current)) /\ UNCHANGED replies
  /\ UNCHANGED <<fds, ssl, request, body, diagnoses, log, dropped, secured, fate>>

SslShutdown ==
  /\ Release("ssl_shutdown")
  /\ \/ ssl = "live" /\ UNCHANGED errq
     \/ /\ ssl = "failed" \/ current \in gone
        /\ errq' = Append(errq, Err("SSL_shutdown", current))

-----------------------------------------------------------------------------
(* The ways a process ends in the middle of its work.                      *)

(* A write to a connection the peer has reset raises SIGPIPE, whose        *)
(* default action ends the process.  SSL_accept (its flight), SSL_read     *)
(* (the alert for a connection cut short), SSL_write and SSL_shutdown      *)
(* (close_notify) write; not after a fatal error.                          *)
BrokenPipe ==
  /\ pc \in {"ssl_accept", "ssl_read", "ssl_write", "ssl_shutdown"}
  /\ current \in gone /\ ssl = "live"
  /\ pc = "ssl_accept" => client[current] # "silent"
  /\ ProcessEnds /\ errq' = <<>> /\ diagnoses' = {}

(* SIGTERM from the entrypoint: the server installs no handler.            *)
Terminated ==
  /\ OperatorStops /\ pc # "exited"
  /\ ProcessEnds /\ errq' = <<>> /\ diagnoses' = {}

(* The supervisor starts the program again, on the same log file.          *)
Restart ==
  /\ pc = "exited" /\ restarts < MaxRestarts
  /\ Goto("load_config") /\ restarts' = restarts + 1
  /\ errq' = <<>> /\ diagnoses' = {}
  /\ UNCHANGED <<current, fds, ssl, request, body, backlog, oqs, evp,
                 auditVars, clientVars, secured, fate>>

-----------------------------------------------------------------------------
(* The clients.                                                            *)

ClientActs == UNCHANGED <<processVars, machineVars, auditVars, secured>>

Connect(c) ==
  /\ client[c] = "absent" /\ Listening /\ Len(backlog) < Backlog
  /\ client' = [client EXCEPT ![c] = "silent"]
  /\ backlog' = Append(backlog, c)
  /\ fate' = [fate EXCEPT ![c] = "queued"]
  /\ UNCHANGED gone /\ ClientActs

(* The ClientHello may be sent before the server has called accept().      *)
Greet(c) ==
  /\ client[c] = "silent" /\ c \notin gone
  /\ \E greeting \in Greetings : client' = [client EXCEPT ![c] = greeting]
  /\ UNCHANGED <<gone, backlog, fate>> /\ ClientActs

Ask(c) ==
  /\ client[c] = "compatible" /\ c \in secured \ gone
  /\ \E wanted \in Requests : client' = [client EXCEPT ![c] = wanted]
  /\ UNCHANGED <<gone, backlog, fate>> /\ ClientActs

Leave(c) ==
  /\ fate[c] \in {"queued", "accepted"} /\ c \notin gone
  /\ gone' = gone \cup {c}
  /\ UNCHANGED <<client, backlog, fate>> /\ ClientActs

-----------------------------------------------------------------------------
Serve ==
  \/ AcceptConnection \/ SslNew \/ SslAcceptDone \/ SslAcceptFailed
  \/ LogTlsErrorEvent \/ ReleaseFailed
  \/ SslRead \/ BuildResponse \/ AppendResponse \/ SslWrite \/ SslShutdown

Startup == LoadConfig \/ LoadProviders \/ CreateTlsContext \/ CreateTcpServerSocket

Client(c) == Greet(c) \/ Ask(c) \/ Leave(c)

Next ==
  \/ Startup \/ Serve
  \/ BrokenPipe \/ Terminated \/ Restart
  \/ \E c \in Conns : Connect(c) \/ Client(c)

Spec == Init /\ [][Next]_vars

(* The thread runs whenever it is not blocked.  No call of the server has  *)
(* a timeout, so a client that stays silent for ever holds the server for  *)
(* ever: a client is assumed to move on, if only by leaving.               *)
FairSpec == Spec /\ WF_vars(Serve) /\ \A c \in Conns : WF_vars(Client(c))


-----------------------------------------------------------------------------
(* Properties.                                                             *)

Logged == {log[i].conn : i \in DOMAIN log}
Accounted == Logged \cup dropped

(* Every variable stays within its range.                                  *)
TypeOK ==
  /\ pc \in Steps /\ current \in Conns \cup {NoConn} /\ fds \subseteq Conns
  /\ ssl \in {"none", "live", "failed"} /\ errq \in Seq(Error)
  /\ request \in Requests
  /\ body \in [conn : Conns \cup {NoConn}, kind : Kinds \cup {"none"},
               phase : Phases \cup {"none"}, errors : Seq(Error)]
  /\ diagnoses \subseteq [newest : Error \cup {NoError}, reported : Error \cup {NoError}]
  /\ backlog \in Seq(Conns) /\ oqs \in BOOLEAN /\ evp \in BOOLEAN /\ restarts \in Nat
  /\ log \in Seq(Event) /\ dropped \subseteq Conns /\ replies \subseteq Event
  /\ client \in [Conns -> ClientStates] /\ gone \subseteq Conns /\ secured \subseteq Conns
  /\ fate \in [Conns -> Fates]

(* Whichever way the handler ends - a failed SSL_new, a failed handshake,  *)
(* an answered request - it leaves no socket and no SSL object behind: a   *)
(* server that takes connections for months never runs out of them.        *)
NothingHeldBetweenClients ==
  pc \notin HandlerSteps => fds = {} /\ ssl = "none"

(* Each connection whose handler returned is accounted for exactly once:   *)
(* one event in the log, or one failed append; and none twice, however     *)
(* often the process dies and is started on the same log.                  *)
AccountedOnce ==
  /\ \A i, j \in DOMAIN log : log[i].conn = log[j].conn => i = j
  /\ Logged \cap dropped = {}
  /\ \A c \in Conns : fate[c] = "served" => c \in Accounted

(* No client ever holds an answer the log does not know of: the very body  *)
(* answered was appended first, unless that append failed.  A process that *)
(* dies in between loses the answer, never the record.                     *)
LoggedBeforeAnswered ==
  \A answer \in replies :
    answer.conn \in dropped \/ \E i \in DOMAIN log : log[i] = answer

(* The log tells what became of the handshake: a failure event exactly for *)
(* the logged connections whose client did not complete it, and an         *)
(* unknown route only for a client that asked for one.                     *)
EventsTellTheHandshake ==
  \A i \in DOMAIN log :
    /\ log[i].kind = "tls_handshake_failed" <=> log[i].conn \notin secured
    /\ log[i].kind = "route_not_found" => client[log[i].conn] = "unknown"
    /\ log[i].kind = "tls_request" => evp

(* An event quotes the OpenSSL errors of its own connection, and none of   *)
(* another client's handshake.  Only when SSL_new() fails, before the      *)
(* handshake could empty the queue, may the event open with the leftovers  *)
(* of tolerated failures, its description then being one of them; the      *)
(* error of SSL_new() is never missing, and stands last.                   *)
QuotesItsFailure(event) ==
  LET early == event.phase = "ssl_object_creation"
  IN  /\ \A k \in DOMAIN event.errors :
           \/ event.errors[k].conn = event.conn
           \/ early /\ event.errors[k].op \in Tolerated
      /\ early => /\ event.errors # <<>>
                  /\ event.errors[Len(event.errors)] = Err("SSL_new", event.conn)

EventsQuoteTheirFailure == \A i \in DOMAIN log : QuotesItsFailure(log[i])

(* The inductive invariant behind the four above (TlsServerProofs.tla).    *)
(* InHand ties the program counter to what the process holds, Queue the    *)
(* kernel's queue to the fate of its members, Ledger the log to how far    *)
(* the handler of a connection has come, and Draft the event in hand to    *)
(* the log.                                                                *)
InHand ==
  IF pc \in HandlerSteps
  THEN /\ current \in Conns /\ fds = {current}
       /\ \A c \in Conns : fate[c] = "accepted" <=> c = current
  ELSE /\ current = NoConn /\ fds = {} /\ ssl = "none"
       /\ \A c \in Conns : fate[c] # "accepted"

Queue ==
  /\ \A i \in DOMAIN backlog : fate[backlog[i]] = "queued"
  /\ \A i, j \in DOMAIN backlog : backlog[i] = backlog[j] => i = j

Ledger ==
  /\ \A c \in Accounted : fate[c] \in {"accepted", "served", "aborted"}
  /\ pc \in HandlerSteps =>
       (current \in Accounted <=> pc \in {"release_failed", "ssl_write", "ssl_shutdown"})
  /\ \A c \in Conns : client[c] = "absent" => fate[c] = "none"

Draft ==
  /\ pc \in {"log_tls_error", "append", "ssl_write", "ssl_shutdown"} => body.conn = current
  /\ pc = "log_tls_error" => body.phase \in Phases
  /\ pc \in {"append", "ssl_write"} => body \in Event /\ body.kind # "tls_handshake_failed"
  /\ pc = "ssl_write" =>
       /\ current \in dropped \/ \E i \in DOMAIN log : log[i] = body
       /\ \A answer \in replies : answer.conn # current

Inductive ==
  /\ TypeOK /\ InHand /\ Queue /\ Ledger /\ Draft
  /\ AccountedOnce /\ LoggedBeforeAnswered

(* Every connection the kernel took is eventually dealt with: its handler  *)
(* returns, or the process is gone and the client has been told by a       *)
(* reset.                                                                  *)
EveryConnectionEnds ==
  \A c \in Conns : fate[c] = "queued" ~> fate[c] \in {"served", "aborted", "refused"}

(* What a client and the log can see of the server implements the          *)
(* abstract audit trail.                                                   *)
Summary(event) == [conn |-> event.conn, kind |-> event.kind]
Audit == INSTANCE AuditTrail WITH
  Record <- [conn : Conns, kind : Kinds],
  Private <- {"tls_handshake_failed"},
  trail <- [i \in DOMAIN log |-> Summary(log[i])],
  missed <- dropped,
  told <- {Summary(answer) : answer \in replies}
ImplementsAuditTrail == Audit!Spec

(* Said of getOpenSslError() in app/include/OpenSslUtils.hpp: it "Returns  *)
(* the latest OpenSSL error".                                              *)
LatestErrorReported == \A d \in diagnoses : d.reported = d.newest

=============================================================================
