# A TLA+ model of pqc-tls-agility-telemetry

The repository is a laboratory for crypto-agility: a small C++ TLS server that
runs three times in one container (classic, hybrid and post-quantum profile),
logs one JSON event per connection, and is built, gated, deployed and observed
by GitHub workflows and Python tools. This directory holds TLA+ modules that
model it, TLC runs that check them on small instances, and theorems proved
with TLAPS for instances of every size.

## The system: parts, state, interactions

| Part | Source | State it keeps | Operations | What makes it correct |
|---|---|---|---|---|
| TLS server | `app/src/TlsServer.cpp`, `main.cpp` | one thread, the client socket and SSL object in hand, OpenSSL's error queue | start-up, accept loop, handshake, read, build, log, answer, close | no leak on any path; each connection in the log once; nothing answered before it was logged; events tell the truth about the handshake; every client is eventually dealt with |
| EVP self-test | `app/src/CryptoEvp.cpp` | the error queue | digest and AEAD of the configured message | its failures become a 500 and an event |
| OpenSSL errors | `app/src/OpenSslUtils.cpp` | the error queue | pop one error | the error reported is the one that occurred |
| JSON logger | `app/src/JsonLogger.cpp` | the log file, a descriptor | append one line | appended lines stay whole; no failed write leaks a descriptor |
| Configuration | `app/src/AppConfig.cpp` | none | load a categorized or flat file | reads what the policy judged |
| Policy gate | `policy/rego`, `tools/policy` | none | deny weak or missing settings | no weak setting reaches a server; a usable one is refused only by a known false alarm |
| Entrypoint | `container/entrypoint.sh` | certificate files, process ids | generate, validate, start, wait, stop | certificates fit keys; all or none of the instances serve; the script stops what it has started |
| Deployment | `.github/workflows/docker-build-push.yml` | image tags, the host's images and container | build, push, send an SSM command, poll | what runs has passed the gate; a report of success that is not true has a cause that was met |
| Telemetry workflow | `.github/workflows/telemetry-collector.yml`, `ec2_discovery.py` | the target, a scratch directory on the host | resolve, send a command, poll, extract, collect | a report holds results of its time and its target; runs of one branch do not mix |
| Telemetry tools | `tools/telemetry` | what one run has collected | active tests, paging through CloudWatch Logs, metrics, aggregation, findings | nothing lost or counted twice; findings if and only if something is wrong; metrics of the right instance |
| System information | `app/src/SystemInfo.cpp` | none | host name, address, time | - |
| Infrastructure | `infra/terraform` | Terraform's; the registry's lifecycle policy | declarative; images expire | - |

The parts meet in few places. The entrypoint starts the servers and is told of
their end by `wait -n`; each server has a log file of its own, which outlives
its process and its container (a bind mount); the CloudWatch agent ships the
file to a log group, which the collector reads; the deployment removes and
creates the container; the policy and the loader read the same file.

What is hard here: a single thread with blocking calls and no timeouts, at the
mercy of its clients; a process that can die at any write (SIGPIPE has its
default action); an error queue that carries errors from one connection to the
next; appends that are torn by a failed write and lines appended behind them;
files left half-made by a crash and found by the next start; two readers of one
configuration file; workflow runs that overlap; services that answer page by
page. `PROJECT.json` lists these hazards at their lines, each with the
properties that would catch it going wrong; those to which the code is simply
exposed have a note in their place.

## The modules

| Module | Models | Extends / instantiates |
|---|---|---|
| `AuditTrail` | abstract: the trail of records the server promises | |
| `TlsServer` | the server process, its clients, its death and restart | instantiates `AuditTrail` |
| `EventLog` | abstract: an atomic append | |
| `JsonLogger` | the append, one system call at a time | instantiates `EventLog` |
| `Pipeline` | from the append to the report: logger, agent and collector at once | extends `JsonLogger`, instantiates `LogCollector` |
| `Entrypoint` | the script, the files, the instances, Docker | |
| `ConfigGate` | one configuration field from commit to server | |
| `Deploy` | overlapping runs of the deployment workflow, the registry, the host | |
| `Telemetry` | overlapping runs of the telemetry workflow, their commands on the host, instances | |
| `LogCollector` | paging through CloudWatch Logs while events arrive | |
| `Report` | the active tests, the report of one run and its findings | extends `Utils` |
| `Utils` | percentages, percentiles, the search for a JSON object | |
| `Metrics` | the latest datapoint and the fallback to other dimensions | |
| `Algorithms` | `Utils` and `Metrics` put to all small questions | extends both |
| `MC*` | TLC instances of the above | extend the module they are named after |
| `TlsServerProofs`, `EntrypointProofs`, `ConfigGateProofs`, `DeployProofs`, `TelemetryProofs`, `LogCollectorProofs` | theorems | extend the module they are named after |
| `PipelineProofs` | theorems about `JsonLogger` and `Pipeline` | extends `Pipeline`, instantiates `LogCollectorProofs` |
| `ToolsProofs` | theorems about `Report` and `Algorithms` | extends both |

### TlsServer

The program counter `pc` names the call the thread is about to make:
`load_config`, `load_providers`, `create_context`, `create_socket` (start-up),
`accept`, then the handler's `ssl_new`, `ssl_accept`, `log_tls_error`,
`release_failed`, `ssl_read`, `build`, `append`, `ssl_write`, `ssl_shutdown`,
and `exited`. Each action is the code between two blocking or externally
visible calls, so that a client's step, a crash or SIGTERM can fall between
any two of them. `errq` is the thread's OpenSSL error queue with its entries
labelled by the call and the connection that left them: `SSL_accept` empties
it first (OpenSSL's state machine does, by `ERR_clear_error`; the program never
does, and `SSL_new` comes before it), `SSL_read`, `SSL_write`, `SSL_shutdown` and
the EVP calls add to it, `getOpenSslError` pops the oldest,
`drainOpenSslErrorQueue` takes all of it. So what an event may quote differs:
after a failed handshake the errors of its own connection, after a failed
`SSL_new` everything that tolerated failures have left since the last handshake,
with its own error last. `EventsQuoteTheirFailure` says both, and that the program
must take the whole queue for it, not one entry. A client is named by its
connection; its requests are reduced to the four cases the code distinguishes
(a known path, an unknown one, one that JSON refuses to dump, nothing at all).
Death - SIGPIPE on a write to a connection that is gone, SIGTERM - closes
every descriptor and takes the kernel's queue along; `Restart` starts the
program again on the same log. `fate` records where each connection is, seen
from the server.

`AuditTrail` is what an auditor relies on: records enter once per connection
and stay; a client is told only what was recorded, or whose record was missed.
`ImplementsAuditTrail` maps the log to the trail (kind and connection of each
event), the failed appends to `missed` and the answers written to `told`.

### JsonLogger

Opens up the append that `TlsServer` takes to be atomic: open, as many writes
as the kernel wants, close; a write may be short or fail; the process may die
in between. Between open and the first write the line is built, and `dump()`
may throw there (`DumpThrows`): nothing closes the descriptor then, so `fds` holds the
descriptors of such calls for as long as the process lives. `TypeOK` says that no
other way out of the function leaves one. The file is a sequence of bytes that remember their event; a line
is a few of them and a line break. It implements `EventLog` when "logged" is
read as "its line break is in the file". What atomicity hides is stated by
`SpoiledOnlyByTorn`: only the line behind a torn one is damaged.

### Pipeline

The composition in which an event travels: `JsonLogger` writes the file, the
CloudWatch agent (external) ships each complete line once and in order,
`LogCollector` reads its one group page by page. All three interleave. A line
is JSON to the collector if it is the line of one event and nothing else, so
that here, unlike in `LogCollector` alone, what the pages hold is what the
server's writes have left. `ReportTellsTheLog` speaks of both ends: nothing in
the report that the logger gave up on, and no more events lost than appends
were torn. `TlsServer` is not part of the composition: its log is `EventLog`,
which `JsonLogger` implements.

### Entrypoint

`pc` walks through the script; `turn` is the profile at hand. A file is
absent, empty (created and truncated by openssl, not yet filled) or whole,
where a whole key or certificate carries the number of its generation, so that
"this certificate belongs to that key" can be said. Crashes hit between any
two steps and leave the files as they are: they are the death of the processes,
not a loss of power, of which nothing could be said since nothing is fsynced.
Instances are `TlsServer` seen from outside: starting, listening, ended, or
orphaned, which is what `Reap` calls an instance that still runs when the script ends.
The kernel kills it with the container, but the script has neither stopped it nor
waited for it. `DockerRestart` keeps the file system,
`Recreate` (the deployment's `docker rm -f; docker run`) starts with a new one.

### ConfigGate

One behaviour follows one security field of one file: the policy judges
`section.field`; the loader looks in the section if it is an object and at the
root otherwise, under the present name and, for four fields, under a former
one. Values are classes: absent, not a string, empty, weak (it allows something
on the policy's list), one that only mentions a weak name and allows nothing weak,
sound, unknown to both. The policy looks for weak names as parts of list entries, so
that it blocks a list that excludes `!MD5` as it blocks one that has MD5; entries
of other fields are compared with them. Initial states are all combinations.

### Deploy

Runs of the workflow are dispatched by hand and overlap (the workflow has no
concurrency group). A run passes the gate, pushes its image under its commit
and under `latest`, sends one command to the host, and polls it `MaxPolls`
times. Commands on the host overlap too: each pulls `latest` (resolve, then
tag the downloaded image locally), removes the container, and runs a new one
from the local tag; the container's name is taken if another command was
faster, or if a container was created that could not be started (`StartFails`).
`docker rm` may fail and is not looked at. The registry expires images
(`Expire`, the lifecycle policy of `infra/terraform/modules/ecr`): all but the
`KeepImages` newest with a commit's tag, together with their other tags. `met` is
a history variable: the runs that were under way, or had a command under way, at
some moment while a run was. `ForeignImageWasMet` says where a foreign image can
come from, with no assumption on how runs overlap. The container is `TlsServer` and `Entrypoint` from far away.

### LogCollector

The loop of `collect_log_events`: groups one after the other, pages within a
group. The service decides how long a page is - it may be empty and still come
with a token - and events keep arriving while the collector reads; a group may
be deleted in between. A call may fail otherwise (`Abort`), which ends the
collector without a report. Events of a group arrive in the order in which they
are stored: each group is fed from one file by one agent. The code keeps two lists,
and so does the model: `events_for_group`, of which the numbers in the summary
are taken, and `events` (`parsed_events`), which becomes the report. Their
agreement is `CountsAgree`. A group that is deleted between two of its pages is
said not to exist, with zeros, beside its events in the report.

### Report

One run of the tools. The six tests of `DEFAULT_ACTIVE_TESTS` meet an endpoint
that answers, rejects the handshake, is not there, or is silent until the
timeout; the code sees an outcome and compares it with the expectation, and the
model remembers what was really there. `TimeoutWithOutput` is the `TypeError`
of adding a killed client's bytes to a string, after which there is no report.
The collector then obtains metrics and logs (a log is a count of each kind of
event that `TlsServer` writes; `internal_error` is a body without `metadata`),
`BuildFinalReport` aggregates, `EvaluateFindings` compares with the thresholds.
Percentages are those of `safe_percent`, in hundredths; loads come in parts of a
thousandth of a percent (`Precision` of them) and are rounded to thousandths on
their way into the report (`Told`). Properties compare the findings with the
exact shares and loads and with the endpoints, not with what was made of them.

### Telemetry

Two workflow runs, dispatched on one branch or on two. The runner's steps are
`pc`: resolve the newest running instance, send the command, poll, fetch the
output, ask for the final status, extract, collect; any of them may fail. The
command's steps are `command`: remove and make the directory, unpack and enter
it, run the tests, open, write and pack the results. The directory has a
fixed name, so commands of two branches, or of a run and of one that gave up
polling, interleave in it. Its generations are told apart, because a shell
keeps the directory it has entered and a descriptor the file it has opened,
even when another `rm -rf` has removed them; a file opened twice is
written over by both. Instances come and go: their number is their launch
order, and their commands and disks go with them.

### Utils, Metrics, Algorithms

Pure functions. `Candidates` carries the state of the scan (depth, string,
escape) over the text from a brace on, and `ExtractFirst` takes the first of
what it finds that is an object; `Percentile` interpolates between two
ranks, in hundredths, of the list `Ascending`, which says of each place how many
values lie below and not above it, and rounds to thousandths as `round_float` does.
Of a number half way between two thousandths the binary form decides
which way it goes; `TiesUp` is the set of those that go up, and theorems hold for
every such set. The average is the quotient of a floating-point sum, so that its
ties go either way (`Nearest`), even for one list; `GetLatestWithFallback` asks for the instance alone and
then for each advertised dimension set. `Algorithms` gives them one question
each - any text over five classes of characters, any list of durations, any
content of CloudWatch in any order of listing - and its properties are
reference definitions written from the other side: the set of all objects
within the text, generated from the grammar; the values clearly below and above a
percentile, counted; the datapoints of the instance within the window.

## The runs

| Run | Bounds | Shows |
|---|---|---|
| `TlsServer` | 2 clients, queue of 1, 1 restart, SIGTERM | type, no leak, accounted once, logged before answered, events tell the handshake and quote their failure, the refinement of `AuditTrail`; every queued connection ends |
| `TlsServerDiagnosis` | 1 client | finding: a stale error is reported |
| `Pipeline` | 3 events, the second malformed; a limit of 4, pages of 2, 1 empty page | wholeness, confined damage, descriptors held, refinement of `EventLog`; the report holds the log |
| `Entrypoint` | 3 profiles, 2 crashes, 3 starts | certificates, stopped instances, kept pairs; one down, all down; every boot ends |
| `ConfigGate` | every field, every combination of value classes | for the categorized schema the gate judges what will run, and blocks a usable value only by a false alarm |
| `ConfigGateFlat` | the same | finding: weak values under flat keys |
| `Deploy` | 3 runs, at most 2 under way at a time, 1 poll, 1 image kept | only gated images run, the service is down only where it must be, a foreign image comes from a run that was met |
| `Telemetry` | 2 runs of 1 or 2 branches, 1 poll, 2 instances | results of their time and target, branches serial, never an older instance, every run ends |
| `LogCollector` | 2 groups of up to 4 events, limit 3, pages of 2, 1 empty page | exactly what was fetched, counts, limit, completeness unless truncated, termination |
| `Report` | 6 tests, 4 encounters each, 9 logs, loads of 79.9994%, 79.9996%, 80% or none | no findings only if all is well, no finding without a cause, a dead endpoint found |
| `ReportThresholds` | the same | finding: the thresholds themselves are too high |
| `Algorithms` | texts of 8 characters, 6 durations of 4 values, 4 dimension sets at 3 times | the first object, rounded percentiles that split, metrics that are evidence |

The bounds are where the interesting cases start. Two connections give a
handler with a predecessor that left errors behind and with a successor in the
queue; one restart lets a log outlive its process. Two torn events before an
intact one are the longest chain a line of the log can depend on. Three
profiles have a first, a middle and a last; three starts allow a crash while
repairing the damage of a crash. Of three workflow runs no more than two are
under way at the same time (`TwoAtATime`; one of them may be the command of a run
that has ended), so that two interfere on what a third has left; one image kept is
the shortest list to expire from. Two telemetry runs, of which one may give up on its command, are
the shortest way to two commands in one directory, and two instances the
shortest to a wrong one; one poll is enough for the verdict and for giving up.
A limit of 3 with pages of 2 makes the last page a short one. The logs of
`Report` have failure rates of 30%, of 29.99% and of 30.01%, one of 602 in 2007
that rounding takes to 30%, and some that are below it only by events that count
as neither; of the loads, one is below the other threshold, one at it, and one is below
it and rounded to it. Eight characters hold an object in a string in an object,
an escaped quote before a brace, and an unclosed brace or string in front.
Six values have medians at and between ranks, and a 95th percentile between
the last two; the values are told in tenths of a thousandth, two of them are ties
and go up or down, and the interpolation meets further ties. The names the properties speak of are few and symmetric, and no
step counts beyond these bounds.

Deadlock is not checked where a behaviour ends: the server that has exited with
its restarts spent, the clients all gone, the script whose container is not to
be restarted, the field whose file has been judged, the workflow runs
over, the collection, the report or the answer finished.

### Fairness

* `TlsServer`: weak fairness of `Serve` - the thread runs when it is not
  blocked. `SSL_accept` and `SSL_read` are blocked while the client is silent,
  and no call has a timeout; so `EveryConnectionEnds` also assumes that each
  client moves on, if only by leaving. Without that the property fails: this is
  the code's exposure, not the model's. Nothing is assumed of the supervisor: a
  connection that the kernel queued is refused when the process ends.
* `Entrypoint`: the script runs on, and a starting server gets through its
  start-up one way or the other. No listening server is assumed to end.
* `LogCollector`: the collector moves on - an exception (`Abort`) may end it but
  is no progress; the service sends finitely many empty
  pages (`MaxEmpty`).
* `Telemetry`: each run's own steps go on; the commands on the host need not, and
  no step is assumed to fail. So `RunsEnd` rests on the bound of the
  polling loop and on the order of the concurrency group alone.

## What is proved

Every theorem is about the specification that the run of the same component
checks (those about `JsonLogger` alone reach the run `Pipeline` by
`PipelineComposes`), for all values of its constants: any number of connections, restarts,
profiles, workflow runs, polls, log groups, events, any limits. The only
assumptions are those named `...Assumption` beside the constants, which say what
a constant is (a natural number, a list without repetitions, a value outside a
set); TLC evaluates them in every run. The bounds of the models (`MaxRestarts`,
`MaxCrashes`, `MaxStored`, ...) are constants too, so that a theorem holds for
every bound.

All follow one argument. The properties are seldom inductive, because they do
not say where in a program the steps are that keep them true. Each module
therefore has a predicate `Inductive` that adds what was missing; a lemma per
action (or group of actions) shows that the action preserves it, part by part,
and `InductiveInvariant` combines them.

**`TlsServerProofs`**: `NoLeak`, `AccountedExactlyOnce`, `NoUnloggedAnswer`,
`EventsAreTrue`, `ErrorsAreOwn` and `Refinement` (`Spec =>
ImplementsAuditTrail`). `InHand` ties `pc` to what the process
holds: in the handler there is one connection, it is the only open socket and
the only one whose fate is "accepted"; outside it there is none. `Queue` says
that the kernel's queue holds distinct connections whose fate is "queued" - so
what `accept` returns is new. `Ledger` says that only connections that have
been accepted are accounted for, and that the one in hand is accounted for
exactly from its append onwards. `Draft` says that the event in hand belongs
to the connection in hand, and that while it is being answered it is in the
log (or its append failed) and no answer has been given yet. What the log says
rests on a second invariant, `Truthful`, on top of the first: `Secured` (only
connections that were taken completed a handshake, and the one in hand has
exactly when `SSL_accept` is behind it) and `Informed` (what the handler decided
upon - the request, the self-test - is still so when it acts). What the events quote
rests on a third, `Quotable`: except while a failure is being logged, only tolerated
failures have left anything in the queue (`Leftovers`); behind a handshake those are of
the connection in hand (`Own`); and the event about to be logged, with the queue as
it is, already quotes what it should.

**`PipelineProofs`, the logger**: `AppendedLinesAreWhole`, `OnlyTornLinesSpoil` and
`LoggerImplementsEventLog`. `TypeCorrect` includes which descriptors are held: that of
the line being written, and those of calls that threw before their first byte.
`UnsentIsTheRest` is the loop's own invariant: what is
left to write is the end of the line, and what is written is at the end of the
file. `Contiguous` says of each appended line where in the file it is, byte by
byte, so that further writes leave it alone. `LastByte` says that a file that
ends within a line does so because of a failed append, a crash, or the one in
progress: whoever writes next is spoiled by that one only. `EnteredIsWritten`
says that the events whose line break is in the file are those before the one at
hand, or that one with nothing left to write. In the refinement the write of the
last byte is `EventLog`'s append, a failure or a crash before it drops the event,
and all other system calls stutter; `Entered` is defined by the positions of the
line breaks, and the lemma `OneMorePlace` says how such an enumeration grows.

**`PipelineProofs`, from log call to report**: `PipelineComposes` and
`ReportIsTheTrail` (`ReportTellsTheLog`). A step of the composition is a step of
the logger, or one of the collector, or the agent's, which is to the collector
an arrival: so every behaviour is one of `JsonLogger` and one of `LogCollector`,
and the invariants proved of each alone - the collector's by way of an instance of
`LogCollectorProofs` with the one group of the file - hold of the two together.
What neither knows is added: `Ordered` (events stand in the file in the order of
their calls, and behind a line break begins another one), `Whole` (the line of an
append that returned is there, and nothing before it is of a later event),
`Shipped` (what CloudWatch holds is what the first lines of the file are, JSON or
torn) and `Settled` (a group that was read to the end and is not called truncated
has been fetched up to everything that waited). An event that is missing from
such a report shares its line with bytes before it; these are of an append that
was torn (`GluedToTorn`), and two missing events have two different ones
(`GluedApart`), so that the map from lost events to torn ones is an injection.

**`EntrypointProofs`**: `CertificatesMatch`, `OrphansAreUnrecorded`, `PairsSurvive` (an action
property). `NothingRunsYet`: while the script may still write a file, nothing
that reads it runs. `HalfWay`: how far openssl has come with the pair at hand -
a certificate is begun only beside the whole key it is made for. `Supervised`: of
the instances that run the script has recorded all but, for a moment, the one it has
just started, or the one that `docker stop` found in that moment.

**`ConfigGateProofs`**: `GateIsSound`, `PassedFilesLoad`. `Judged` and `Found` say
that what was built was passed and that what a server uses is what its look-up found;
the rest is a lemma without state, that policy and loader read one value
(`OneValue`) of a file that declares the field. So the gate misses no weak value, and
what it blocks although the server could have used it is a list that mentions a
weak name.

**`DeployProofs`**: `HostRunsGatedImages`, `DownBriefly`, `ForeignImagesWereMet`.
`Published` follows an image from the gate over the registry and `latest` to the
host, and says of each that it is in the registry or has `KeepImages` newer ones;
`Supplied` says that a command has what its next step needs; `Removed`
that whoever started a container has removed the one before; `Acquainted` that runs
that are under way together have met, and that what a run finds at each of its
steps - in the registry after its push, on the host after its pull - is its own,
or of a run it has met, or what the command of such a run has pulled.

**`TelemetryProofs`**: `ReportsAreOfTheirTime`, `SerialBranches`,
`DevicesOnlyGetYounger`. `Encounters` says when two commands have met;
`Workplace` that a command, once it has cleaned the directory, finds there only
its own work and that of commands it has met; `Provenance` that every whole
result, in a file, an output or a report, was written by such a command with the
code of such a command. `Progress` and `Exclusive` locate the runs.

**`LogCollectorProofs`**: `NothingLostOrTwice`, `SummaryAgrees`,
`UntruncatedIsComplete`. `Place` says what a token stands for (the events fetched
so far, fewer than the limit, in a group not yet known), `Within` that no more
is fetched than there is, `Tally` that the list of the group at hand is the
beginning of what the group holds. `SummaryAgrees` then compares two lists that the
code fills side by side: the JSON in the one, counted by position, and the events
of the group in the other (`SameCount`: a bijection between their places). What a page adds to the report is defined by a
recursive function; `SetInduction`, proved from the least element of a set of
naturals, takes the place of the library's induction theorems, and
`ParsedKeeps` says what the function yields for pages of every length.

**`ToolsProofs`, the report**: `FindingsAreTrue`, `DownEndpointFound`. `Judged` says that
results follow from what the tests met with, `Reported` that the report is of
what was measured, `Found` what gives rise to findings. The lemma `Rounded`
settles the arithmetic of `safe_percent` and the threshold for logs of every
length, `ToldLoad` that of `round_float` and the loads for every precision and for
ties that go either way. The arithmetic shaped the property: rounding lets a failure
rate of 29.995% pass for 30% once there are about 2000 events, and a load of
79.9995% for 80%, so that what holds for all is that a finding is never missed at
its threshold, and never raised below what rounds to it.

**`ToolsProofs`, the algorithms**: `MetricsAreEvidence`, `StatisticsAreInOrder` and
`FirstObjectIsExtracted`. An answer is what the code makes of its question
(`AnswersInductive`); the rest is about operators, for inputs of every size.

* *Metrics.* What `list_metrics` advertises is a list of all dimension sets in some
  order, so that none is left out (`AllListed`: an injection between sets of one
  size is onto); the datapoints of a window that ends have a latest one.
* *Statistics.* That the list `Ascending` exists is itself an argument by
  counting: for each place there is a least value with enough others not above it.
  Before rounding a percentile lies between two neighbours of that list, and what lies
  below and above it is counted by their places. Rounding keeps the order
  (`RoundsInOrder`) and moves a number by half a thousandth at most
  (`RoundingError`), so that values further away stay on their side. The sum behind the average is a fold; its
  recursion is shown to have a solution, which `SetInduction` keeps between
  the number of values times the least and times the greatest; its rounded quotient
  may leave the rounded extremes by one thousandth, at a tie (`AverageIsNear`).
* *The first object.* The grammar (`StringBodies`, `Contents`) and the scan are
  recursions whose solutions are shown to exist. `Quoted` says of a part of the text
  that the scan, entering it within a string, leaves it so, on the same depth
  all along; `Balanced`, that the scan enters and leaves it outside strings and is
  never below its depth in between. By induction over the length, what stands in
  a string is quoted and what stands in an object is balanced. So behind the first
  brace of an object the depth is zero at its last brace and not before
  (`ObjectsAreFound`), and the search, which begins at a brace, finds it; what it
  finds anywhere is a part of the text (`CandidatesAreParts`), and an object only
  if the grammar has it.

## What is only model-checked, and what is not modelled

Liveness under fairness (`EveryConnectionEnds`, the ends of the script, of the
collection and of the runs) stays with TLC: it needs `ENABLED`, which the provers
do not handle. Every invariant, every action property and both refinements that
a passing run checks is also proved. Two definitions have the form they have for the
sake of the proofs: sorting is stated by `Ascending`, since TLC's `SortSeq` is
defined by a choice of permutations that the provers cannot see through, and
`StringBodies` and `Contents` have the domain `0 .. MaxText`, on which their recursions
can be solved. What `json.loads()` accepts is external: the grammar in `Algorithms`
stands for it, and `FirstObjectIsExtracted` is about the objects of that grammar.

Not modelled: the content of events beyond what the properties tell apart
(certificates, byte counts, addresses, and the aggregator's counters of them);
`SystemInfo` (stateless reads); the cryptography of the self-test; HTTP parsing
beyond the four cases; command lines and the wording of findings and errors;
the check that SSM is online, which the only caller of instance discovery
switches off; a loss of power, which may take back what was written, since neither
the log nor the certificates are fsynced; errors of floating-point arithmetic, but for the ties they
decide; Terraform, which is declarative, but for the registry's lifecycle policy.
`list_metrics` is taken to list every dimension set that has a metric, at once;
CloudWatch may take minutes to do so, and memory may be missing for as long.

## Findings

`PROJECT.json` quotes for each of the `violation` runs the sentence of the
repository that the code does not keep: `getOpenSslError` and "latest", the
weak setting under a flat key, and the thresholds, which the README calls bad when
exceeded and the findings when reached.

More things a reader of the models will notice, stated here without a run of
their own:

* A client that resets its connection during `SSL_accept` ends the process by
  SIGPIPE, and the handshake failure is not logged (`BrokenPipe` in
  `TlsServer`), although `TlsServer.hpp` names that among its duties.
* Overlapping deployments share the tag `latest`: a run can report its own image
  as deployed and have started another's. `ForeignImageWasMet` says that
  this takes an overlap, and with whom.
* When runs overlap, the image tagged `latest` need not be one of the newest that have a
  commit's tag (the other run may have pushed in between), so that the lifecycle policy,
  whose description says "preserve latest", can expire it (`Expire` in `Deploy`).
* A payload that is neither JSON nor UTF-8 makes the second `dump()` of
  `appendJsonLogLine` throw with the file open (JsonLogger.cpp:47), and the
  descriptor is lost (`DumpThrows`). No present caller passes such a payload - the
  body of a 500 may fail to be JSON, but quotes messages in ASCII only - but want of
  memory has the same effect.
* A client that connects and stays silent holds all others up, and a failed `SSL_read`
  is logged as a successful request for `/` (`SslRead`).
* The policy blocks list entries that mention a weak name without allowing anything
  weak, such as `!MD5` (`Deny` in `ConfigGate`).
* A log group that is deleted between two of its pages is reported as not existing, with
  no events, beside its events in the report (`NotFound` in `LogCollector`).
* The average of equal durations may differ from their minimum and maximum by one
  thousandth: `stats([0.0015] * 6)` has the average 0.001 and the extremes 0.002.
* The line behind a torn one is not JSON; `SpoiledOnlyByTorn` and
  `ReportTellsTheLog` say that the damage goes no further.
* Files that openssl left empty are found by `-f` and kept at the next start, so
  the container cannot come up again until they are removed (`Refuse` in
  `Entrypoint`).
* A report may hold the results of another branch's tests, if the commands were
  on the host at the same time (`ReportIsOfItsTime` allows `met`), and may be
  about a later instance than the one that was tested (`NeverAnOlderDevice`).
* An answer with a JSON body is a success to the active tests, whatever its HTTP
  status: a 500 counts as well as a 200 (`RunTest` in `Report`).
* The example report under `tools/telemetry/examples` shows a failure rate of
  40% without a finding, which `EvaluateFindings` never yields.

## Plan

Done: `TlsServer` with `AuditTrail` and its proofs (1), `JsonLogger` with
`EventLog` (2), `Entrypoint` (3), `ConfigGate` (4), `Deploy` (5),
`LogCollector` (6), `Report` with the active tests (7, 9), `Telemetry` (8),
`Metrics` and `Utils` (10), `Pipeline` (11), the proofs of the safety properties of
`JsonLogger`, `Entrypoint`, `ConfigGate`, `Deploy`, `LogCollector`, `Telemetry`,
`Report` and the rest of `TlsServer` (12), those of `Pipeline` and of `Algorithms` (13).

What would come next:

14. `TlsServer` in the place of `EventLog` at the head of the pipeline, so that a
    connection is followed into the report.
15. The aggregator's counters of suites and groups, when a property is to be said of them.
