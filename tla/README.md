# A TLA+ model of the TrumanBox

The TrumanBox (`src/src`, C) is a transparent proxy between a machine that runs
malware and the Internet. iptables redirects every TCP connection and datagram
of the infected machine to it; it passes them on, or turns them to emulated
services, and logs what it sees. This directory holds TLA+ modules of its
process structure and relay logic, TLC configurations that check them, and
TLAPS proofs.

## The system

| component | source | state | operations |
|---|---|---|---|
| dispatcher | `dispatching.c` | listening sockets (TCP 400, UDP 400, control UDP 401), `tries_pars_ct` | `disp_run`: select one readable socket, look the connection up in conntrack, fork a handler; obey `restart`, `start`, `stop` |
| process manager | `process_manager.c`, `signals.c` | doubly linked list of (pid, restart_flag) | `pm_fork_permanent`, `pm_fork_temporary`, `pm_kill_temporary`, the SIGCHLD handler |
| TCP handler | `tcp_handler.c` | both sockets, `app_proto`, `dest`, `dport`, `destOffline`, `connectedToFinal`, `targetServAddr` | identify, choose the target by mode, connect, relay, time out |
| UDP handler | `udp_handler.c` | the inherited socket, one payload buffer | receive, look up, forward or echo |
| identification | `protocols/proto_ident_truman.c` | table `awaited_pasv` | `bypayload`, `byport` |
| protocol handlers | `protocols/*.c` | per-connection log structures, chunk counters | rewrite and log payloads in either direction, `determine_target` |
| TLS interceptor | `ssl_handler.c` | a listener, two TLS sessions | accept the client, connect the server, relay and log plain text |
| DNS resolver | `dns_resolver.c` | its socket | answer A queries with the real or the fake address, log |
| PostgreSQL logger | `log_postgres.c`, `etc/trumanbox/setupdb.sh` | `CURRENT_SAMPLE`, `malwaresamples`, log tables | `lpg_create_log`, `lpg_finish_log`, `lpg_log_struct` |
| other loggers | `log_sqlite.c`, `log_truman.c`, `semaphore.c` | a database file; log files behind a semaphore | same interface |
| start-up | `main.c`, `configuration.c`, `logger.c` | configuration, mode | sequential initialisation |

Interactions: `main` forks the DNS worker and then runs the dispatcher in the
same process. The dispatcher forks one handler per TCP connection and (at
least) one per datagram; a TCP handler may fork a TLS interceptor. All of them
write to the same database, on one connection per statement. Commands end the
handlers with SIGINT; SIGCHLD interrupts whatever its receiver is doing.

What is hard about it: pids that are reused while the list still holds them;
elements unlinked and freed under the cursor of a walk; SIGCHLD between any two
steps; one `connect()` per handler that may be caused by a timeout, a
recognised payload or a fallback, with four fields to keep consistent; several
processes in `select()` on one datagram socket; a counter of failures shared by
all connections; two-statement updates of the database of which either may
fail; processes that outlive the command that ended their session.

## Modules

| module | models | checked by |
|---|---|---|
| `ProcessManager` | list, forks, walk, signals, reuse of pids | `ProcessManager.cfg`, `ProcessManager_Sessions.cfg` |
| `ProcessManagerProofs` | proofs | TLAPS |
| `Relay` | what a TCP handler promises (abstract) | as a property of `TcpHandler` |
| `TcpHandler` | one TCP handler with its client, service and interceptor | `TcpHandler.cfg`, `TcpHandler_HalfProxy.cfg` |
| `TcpHandlerProofs` | proofs | TLAPS |
| `Dispatcher`, `MCDispatcher` | the dispatcher loop and its descriptors, the UDP handlers | `MCDispatcher.cfg` |
| `DispatcherProofs` | proofs | TLAPS |
| `SampleLog` | sample counter, datasets, rows, commands | `SampleLog.cfg` |
| `SampleLogProofs` | proofs | TLAPS |
| `HttpLog`, `MCHttpLog` | header, body and length accounting of the HTTP handler, `HTTP_LOGS` rows | `MCHttpLog.cfg` |
| `HttpReplay`, `MCHttpReplay` | answers for services that are offline: rows, filed bodies and the document tree shared by the HTTP handlers | `MCHttpReplay.cfg` |
| `HttpProofs` | proofs about both HTTP modules | TLAPS |
| `LineHandlers`, `MCLineHandlers` | what IRC, SMTP, FTP and unknown handlers make of the pieces of a stream | `MCLineHandlers.cfg` |
| `DnsResolver` | the DNS worker: its buffer, answers and rows | `DnsResolver.cfg` |
| `DnsResolverProofs` | proofs | TLAPS |
| `FtpPassive`, `MCFtpPassive` | announcements of passive FTP, `AWAITED_PASV`, the data connections that use them | `MCFtpPassive.cfg` |
| `ProtocolProofs` | proofs about `FtpPassive` and `LineHandlers` | TLAPS |
| `TlsInterceptor` | one TLS interceptor between its client and its service | `TlsInterceptor.cfg` |
| `TlsInterceptorProofs` | proofs | TLAPS |

Operators whose comment begins with "Fault:" are mutated forms of the operator
after them. They show, for every property, a plausible slip in the code that
the property catches; no specification uses them. Type invariants that are proved
(`TypeCorrect`) are not checked by the runs as well.

### ProcessManager

`processes` is the list, in order. `pm_del` is split by the place of the element
it finds: `KillUnlink` (it has a predecessor) and `KillHead` (it is the head:
`free` twice, `pm->processes = NULL`). After `KillHead` the program aborts in
the allocator or gets through, as the build decides; both are in the model.
The walk takes one step per element, so that exits, SIGCHLD (`sig_chld`), and
new processes of the system that get a freed pid (`StrangerStarts`,
`HandlerForks`) come in between. `sig_chld` waits for children but does not
touch the list. The freed element's `next` is read after `free`; the allocator
leaves it alone at its offset, so the cursor goes on to the successor.

Checked, with three pids and lists up to four entries (so that at least one pid
occurs twice): every living child is in the list with its flag (`Registered`);
the double free of the head is unreachable as long as the DNS worker lives
(`HeadSafe`); a finished walk has signalled every handler (`WalkComplete`);
the DNS worker is never signalled (`PermanentSpared`); every handler that runs
when a walk begins ends (`HandlersEnd`, under weak fairness of the walk, which
contains no blocking call, and of signal delivery, which is the kernel's).
Three pids are enough for a permanent child, a handler and a third process that
takes over a pid; more only repeat the pattern, and the proofs cover any number.

`SessionsKilled` is the comment of `restart_flag`. It does not hold: the TLS
interceptor is registered in the handler's copy of the list, so a stop misses
it.

### TcpHandler and Relay

One handler from `tcphandler_create` to its end, in every mode and with every
combination of `nepenthesActive` and `sslMitmActive`. A message is what one
`read()` returns and is identified by its position; its payload is chosen when
`bypayload` looks at it. Addresses are names for who is behind them. `at` is
where the handler is: in `select()`, in a blocking call (`intercept`, `unknown`,
`connect`, `fallback`), about to write (`forward`), or gone. Clients and
services may send, close or reset at any point between two steps, a handler may crash over
a message that has no end of a line or header where HTTP and IRC look for one, the
interceptor may exit (and its SIGCHLD may end `select()`), and SIGINT may arrive.

Uninitialised memory is a choice: `targetServAddr` in full emulation
("garbage": connects somewhere, fails, or is `AF_UNSPEC` and connects nothing)
and the count of announced passive ports after a failed query.

Checked, with three payloads (emulated, TLS, unidentified), ports 21 (identified by
port), 445 (nepenthes) and 8080, and two messages per side: `RightPeer`,
`OfflineMeansRedirected`, `LoggedPeer`, the refinement `IsRelay` and `Ends`. Two
messages let a second one meet what the first one, or a timeout before it,
left. The other payloads behave like one of the three in every guard.

Fairness: weak fairness of `HandlerStep`. Every step is enabled until it
is taken or an event of the environment replaces it; `connect()` and `select()`
have time-outs of the kernel or of the code. `IsRelay` includes the fairness of
`Relay`: a message that was taken is passed on or the session ends.

`LoggedPeer` has one exception: a client that was silent for five seconds has been
connected to the original service, and its TLS session, recognised only then, starts an
interceptor and turns `dest` to it although nobody connects it. `RightPeer` lets an
uninitialised address be connected in full emulation only, for a protocol that is not
identified (`tcp_handler.c:66`); `doc/CONFIGURATION:24-25` promises a local service or a
drop instead.

`HalfProxyRedirects` quotes `doc/CONFIGURATION` and does not hold; `PROJECT.json` has
the details under "findings".

### Dispatcher

`at` is the position in `disp_run`; `conn` and `datagram` say what became of each
connection and datagram. `SelectTcp`, `SelectUdp` and `SelectControl` keep the
order of `wait_for_incoming_connection`. `tries` is never reset, as in the
code. The datagram that wakes the dispatcher stays in the socket: it forks a
handler and may fork more until one of them has taken it (`ForkUdp`), and wakes the
dispatcher again when a fork fails (`ForkUdpFails`), which any fork may.
`KidReadable` and `KidRecv` are the two halves of the race for a datagram.
A command that ends handlers is one step here, its walk is `ProcessManager`.
`table` is how many descriptors are left to the dispatcher: it never closes what it
accepts (`Full`). Then `Accept` returns -1, which is used (`AcceptFails`), the lookup
cannot open the conntrack table either, and the connection stays in the backlog.

Checked, with two connections, three datagrams, one command and two
handlers: a datagram that was taken is with exactly one living handler
(`Custody`); the lookups of the whole run sleep at most five times more often
than they drop a client (`BoundedWaiting`); connections, datagrams and
commands are eventually dealt with (`ConnSettled`, `DatagramTaken`,
`CommandsObeyed`). When the descriptors are used up and a client waits, the loop turns on
that client for ever (`Starved`), and with forks that never cease to fail on one datagram
(`ForksFailing`): the properties name both and show that nothing else starves the others. One initial state has a single descriptor to spare, the other
three, so that they run out after the first connection or never. The liveness properties hold for bounded traffic: an endless
stream of connections starves datagrams and commands, since TCP has priority.
Two connections suffice for a lookup that starts from a used-up counter, three
datagrams for a handler on its second round to race with another one.
Fairness: the dispatcher and each handler are scheduled, and their lookups
end. `recvfrom` blocks, so it is only taken when enabled.

`CHECK_DEADLOCK FALSE` is set where the system really stops: a crashed
dispatcher, a handler that is over.

### SampleLog

The commands of `disp_run` as the sequences of statements they send. `restart` is
kill, finish, update, insert; `stop` is kill, finish; `start` is update, insert
with the results ignored; boot is `create_log` alone. The program is run again and again
on one database, each time in the test mode or not (`Boot`), and dies at any statement
(`Dies`), which leaves its handlers and the DNS worker behind as `orphan`s. Any statement
may fail, and any that was executed may be reported as failed (`UpdateLost`, `Insert`,
`lpg_finish_log`): `create_log` looks at the report, `start` does not. Handlers and the
DNS worker file rows between any two statements, and handlers that were sent SIGINT
(`doomed`) may still file some. A run in the test mode sets the number to -1 and keeps the
datasets, so that the next run counts through numbers that are in use: the history
variable `era` says how often that was, and datasets and rows carry it. `counted`,
`missing` and `allDone` record what became of the statements, so that the properties can
say what is promised despite failures. The tables begin empty but for the number of
`CURRENT_SAMPLE` (`FirstNumber`), which the schema script leaves to be stored by hand.

Checked, with two handlers and four starts and commands: `DistinctSamples` (a number is
used twice only if the test mode has set it back in between, or by a `start` whose update was
not executed), `RowsHaveDataset` (with the number that counting begins from, which has no
dataset, and lost or failed insertions excepted), `EarlierSamplesEnded`,
`NoHandlerCarriedOver`. Four give a run in the test mode between two others, and after a boot
every order of two sessions with a stop or a start between them.

### HttpLog

`ph_http_handle_payload_cts` and `ph_http_handle_payload_stc` on one connection.
The input is a pair of streams of tokens (first part of a header, its end with
the empty line, units of the body); a step reads any number of tokens from either
side, so every way to cut the streams and every interleaving of the two sides is
covered. `multiple` is the `multiple_*_chunks` flags, `length` and `done` the
counters of the log structures, `stored` the body file, `rows` the rows of
`HTTP_LOGS`. `ClientNoHeader` is the handler's crash on a request without an
empty line in its first piece, `ServerNoHeader` the early return, `Overrun` the
"Malformed" branch. `aligned` is a history variable: it says for each side
whether all its pieces belonged to one message and cut no header.

Checked, with one or two messages per side, declared lengths 0 to 3, and messages
without a length: a body that is waited for is short of its length
(`NeverOverfull`, equality is the only way out); with well-cut pieces the file of a
body of declared length is what was read of it, and the handler is ready for the
next header at its end (`BodyStored`, for a side whose messages are as long as they
declare, `Truthful`; a response that is longer than it declares is in the instance too); a response without a length swallows
exactly the rest of the connection (`RestStored`); the requests of a connection
share the last response (`RowsShareResponse`). Two messages are needed for a piece
to hold the end of one and the start of the next; three units of body for one that
is neither first nor last. The streams of one side are combined with single
responses or two requests on the other, since the sides meet only in `rows`.
Connections end, so `CHECK_DEADLOCK FALSE`. `NumberingAssumption` says that a message
has one empty line and that messages are numbered in their order; TLC evaluates it for
the streams of the run, and the proof of `RowsShareResponse` needs it.

### HttpReplay

The HTTP handlers of several connections. An online one logs a request with type
`new` and files the response under a name of its own; an offline one
(`emulate_server_response`) looks the latest row of a real service up (`ReadOffline`),
builds the directories of the location in the document tree, one `chdir` and `mkdir` at a
time (`ChangeDir`, `MakeDir`), finds the name of the body (`FindSource`), copies it
(`OpenPage`, `WritePage`) and lets the web server answer with what is there by then
(`LocalResponse`), under a server name that was logged before (`Servers`). `src` is the
uninitialised array: when no row fits, the second query has
no result either and the array is neither null nor empty, so the dummy page that the
comment at `http.c:93` promises is not sent. `logs` (the rows of `HTTP_LOGS`), `filed` and `htdocs` are shared;
`timestamp` is compared as text, so connections sort in any order. `found` and `touched` of
a request, `answer` and `overlapped` are history.

A location is cut at its slashes and question marks.
`extract_dir_and_filename_from_request` takes the file's name from before the query and
the directories from before the last slash, even one in the query: `Destination` is the page
that is written, shared by all locations that differ in their query only, and `PathOf` the one the
web server looks for. They differ for a query with a slash: its answer is copied to where
no request finds it.

Checked, with one handler that is online and two that are not, two sites, four locations
(one a directory of another, one with a query, one with a slash in it), and one or
two requests per connection: nothing invented is taken for real (`NoEcho`); a request for
which a row was found is answered with a real response given on a connection on which just
this was asked for, or with the dummy page if the row had none yet, and with the
response to something else only if something else was asked on that connection too, since the
last response replaces the others in all its rows (`AnswersRight`); a handler loses its
working directory only when two build directories at once or a page has the name of a
directory (`HomeKept`). `AnswersRight` excuses requests
whose page was written to by another handler before the answer, pipelined requests as
far as the server name goes, pages that are directories, locations with a slash in the
query, and handlers that lost their working directory: TLC
shows that nothing else needs an excuse. Two offline handlers are needed to race for a
directory, two requests for a row without a response or one that names the response
to another, the second site for a lookup
that must not fit. Handlers run out of requests, so `CHECK_DEADLOCK FALSE`.
`MarkAssumption` says that what marks an absence (`Null`, `Garbage`, the pages that are no
response) is told from requests, names and responses. The
names of this module differ from those of `HttpLog` because one module proves about both.

### LineHandlers

The handlers of `irc.c`, `smtp.c`, `ftp.c` and `unknown.c` on one connection. A line is two
tokens, its head and the rest with the newline; a step hands a handler any number of
tokens, so a piece may hold several lines, begin or end inside one, or have no newline.
`InjectCommands` writes WHO, LIST and USERS behind the last newline (`Behind`), which
takes away the beginning of a line that is cut there, or crashes without a newline
(`ClientCrash`); `ReplaceRecipient` replaces the recipient of a piece that begins with
RCPT TO and drops the rest of the piece; `ClientTexts`, `Replies` and `FileRow` are the
rows. Every statement may fail (`stored`; a quote in the text is enough), and for unknown
protocols all do: the insert names columns that `UNKNOWN_LOGS` does not have
(`log_postgres.c:278`, `setupdb.sh:177-180`). SMTP cuts the last two characters of every
piece from its row, which end the line or belong to it (`Cut`). `whole` and `single` are
history: how the pieces were cut so far.

Checked, with up to three lines of a client and two of a service in all combinations of
the kinds that matter: pieces of one line are passed on as they are meant
(`AsMeant`); injected commands split no line and lose no end of one, whatever the cuts
(`LinesKept`); as long as no statement fails, rows tell what the service got of an IRC client and what an FTP
client sent, and of an SMTP client all ends of lines, and all there is while pieces are
whole lines (`RowsTell`); for the file of an IRC connection one row is sent, with its first
piece, although both directions write to it (`FileHasRow`). At most one statement that need not
fail does (`MaxFailures`): what the properties say of a side stops at the first. `AsMeant` does not extend to pieces of several lines, and
the code does not either: the second recipient in a piece goes out, although the comment
at `smtp.c:73` is about avoiding spam, and WHO is asked for the first channel only. Three
lines are a line before, at and behind what is rewritten. Connections end, so
`CHECK_DEADLOCK FALSE`. What a text is cut into and what rows put together give is written
with `FlattenSeq`, which the proofs can work with; the definitions that `FtpPassive` has
too are named apart (`LineTypeOK`, `LineInit`, `LineNext`, `LineSpec`).

### DnsResolver

`dns_worker` with its socket (`queue`), the buffer all datagrams are received into
(`buffer`: of its content only the opcode and the first name matter), the datagram
under way (`asking`), the answers and the rows of `DNS_LOGS`. The length test at
`dns_resolver.c:123` only writes a message, so `Overlay` gives what the
buffer may hold after a datagram that is too short: the part it does not reach is
its predecessor's. A name made of such remains is parsed or crashes the worker
(`ParseCrashes`); less than a header makes a negative length, and the answer to a "long"
datagram, which is 16 bytes longer, runs over the end of its buffer
(`AnswerCrashes`). That overflow ends the worker or goes unnoticed: what it may write over
is not followed. `gethostbyname()` returns either way, logging may fail, and
`sig_int` may end the worker anywhere.

Checked, with two clients, two names and three datagrams of every size: a whole
query is answered for its own name, once, in turn (`AnswersRight`); a row belongs to
one answer and tells what was answered (`RowsRight`); every whole query is
eventually answered unless the worker is gone (`Answered`). Three datagrams let one
meet what two others left in the buffer and in the socket. Fairness: the worker is
scheduled, and `gethostbyname()` and the database return; both have time-outs of their
libraries. The worker may be gone and the clients done, so `CHECK_DEADLOCK FALSE`.

`doc/CONFIGURATION:88-91` says that `return_original = 0` always returns the fake address.
The setting is read (`dns_resolver.c:44`) and never looked at: `Respond` answers the real
address whenever there is one.

### FtpPassive

Handlers of control connections (`ftp.c`) and of connections that may be data
connections (`ftp_data.c`, `proto_ident_truman.c`) as processes that meet in
`AWAITED_PASV`, one statement at a time (`InsertRow`, `DeleteRows`), each of which may
fail. An announcement (227, 229) is known by its number; `pasv` is what a
control connection's log structure holds of it, filed with the client's next line.
A data connection is found by its address (`Identify`) or by an uninitialised count
after a failed query (`Guess`), logged once per direction, and its address deleted
from the table each time. `dest` may become an uninitialised address in full
emulation. `excused` and `guessed` are history: the data connections one
of whose statements failed or never came, and those that were taken for one without the
table's word (after a failed query, or for a piece that begins with "FTP_data").

Checked, with two control connections, two data connections, one port on the server
and on the local service, and two announcements: `Consumed`, `CommandKnown` and
`LostOnDuplicate` (an insertion that is executed and stores no row meets two
announcements of its address, neither of them used up before). Two announcements may be of one address or of two, by one
control connection or by two, and two data connections race for one row. The
proofs cover any number. Connections are symmetric in all properties and there is no
liveness property, so symmetry is sound. Connections end, so `CHECK_DEADLOCK FALSE`.

### TlsInterceptor

`sslhandler_run` from the fork to its end. Lines and pieces are known by their
positions; of a line matters whether it is empty or has a `Content-Length`. `files`
are the files it writes, `rows` those of `SSL_MITM_LOGS`. A failed write is not seen,
since `SSL_get_error` is asked of the other session (`ssl_handler.c:329`): its loop
has no way out (`spinning`), unless SIGPIPE ends the process, as it may when a piece is
passed to a client that is gone (`ReadPiece`). Either session may fail at any time
(`Errors`), which ends the request or the response being read.

Checked, with four lines and two pieces: the files and rows are those of the
direction they are named for, up to the body of a request, which is read after the
response (`FilesRight`: everything that was read is in a file, once and in its order, and
files keep the directions apart); the interceptor implements the safety part of `Relay`
(`IsRelay`), so it may stand inside `TcpHandler`'s relay without changing what that
promises; when both sides have closed it ends (`Ends`). Four lines allow two requests
or a request with lines of a body after it, two pieces one after the other. Not
promised, and not so in the code: that it ends when only one side closes, or when the
handler never connects. Fairness: the process is scheduled, and `Ends` holds without an
error to help it (`Errors` is not fair). `CHECK_DEADLOCK FALSE`: it
ends.

## Proofs

All are for every value of the constants (any set of pids, ports, any number of
messages) under the named assumptions of the modules.

`ProcessManagerProofs` proves `TypeOK`, `HeadSafe`, `Registered`, `WalkComplete` and
`PermanentSpared`. The inductive invariant `IInv` adds that the permanent
child is the head and its pid occurs nowhere else in the list while it lives
(`PermanentIsHead`), that all others are temporary (`OthersTemporary`), that
only running processes have a signal pending (`PendingRuns`), and that
nothing behind the cursor is left to kill (`WalkedClean`). Without
`PermanentIsHead`, `KillHead` could not be excluded; without `OthersTemporary`
the first occurrence of a reused pid, which is the one `pm_del` removes, need not be
equivalent to the one under the cursor.

`DispatcherProofs` proves `TypeOK`, `Custody` and `BoundedWaiting` for any number of
clients, handlers and descriptors. A handler holds at most one datagram (`OneEach`);
a lookup is for a connection that was accepted or could not be (`Reasons`); and a
descriptor is never given back, so that `Full`, which `BoundedWaiting` excuses, stays once
it holds.

`SampleLogProofs` proves `TypeOK` and the four properties of the run for any number of
handlers, runs of the program and commands. None of them is inductive: each needs what the
command under way has still to do (`Underway`), that numbers only grow within an era
(`Growing`), that the number in force is covered (`Covered`), that without a failure the
newest dataset is the current one whenever its end may be next, and was ended when
`restart` opens another (`LastOne`), and that no handler runs during `restart` and `stop`
or before `create_log` (`Quiet`).

`TcpHandlerProofs` proves `TypeOK`, `LoggedPeer`, `OfflineMeansRedirected`,
`RightPeer` and the safety part of the refinement of `Relay`. Its invariant ties
the message held to the position of the handler (`Holding`), the socket to the
peer (`Attached`), and says for each mode what the target may be (`Proxy`,
`Redirected`, `Interceptor`, `Emulation`).

`HttpProofs` proves, about `HttpLog`, `TypeOK` and `NeverOverfull` for all streams, with
the one assumption that they are sequences of tokens. The two are inductive together: a
structure is begun with at least one unit outstanding or not waited for
(`BeginStruct`), and each piece either leaves it so or ends the wait. `RestStored` follows
from `Rest`, which says where in the stream the file begins, and that it ends where the
stream was read to; `RowsShareResponse` from `Followed`: the rows of a connection are of
requests that were read, in order, so a new one is none of the old; `BodyStored` from
`Bodies`: a well-cut piece begins and ends with a message, so what is collected is behind
one header and a header that comes next finds the wait over. All need facts about `SubSeq`
and concatenation only.

About `HttpReplay` the same module proves `ReplayTypeOK`, `NoEcho`, `HomeKept` and
`AnswersRight`, for any number of handlers, requests, sites and locations. `Working` says
what a handler has in hand at each step, `Kept` that a step of one handler leaves it so for
the others. `NoEcho` needs that rows and files carry the stamp of the handler that made
them (`Stamped`, `Given`) and that only online handlers make them real (`Marked`).
`HomeKept` follows from `Tree`: what a handler has changed to stays a directory.
`AnswersRight` is the longest: from the row that was found over the page that was
written to the answer, `Pages` says of every handler and step that its page is one that
`AnswersRight` allows, or that the request is excused. It holds because rows are only added,
bodies are written before their rows can be found, directories stay, and whoever writes
to a page marks the requests whose page it is.

`DnsResolverProofs` proves `TypeOK`, `AnswersRight` and `RowsRight` for any number of
datagrams. The invariant numbers the datagrams as they leave the socket (`Queued`),
says that the one under way is the last one taken and fills the buffer if it is
whole (`Asked`), that nothing later is answered (`Answering`), and that the answer to be
logged is the last one and has no row (`Logging`).

`ProtocolProofs` proves, about `FtpPassive`, `TypeOK`, `Consumed`, `CommandKnown` and
`LostOnDuplicate` for any number of connections, ports and announcements. An
announcement is held by one control connection (`Held`), or in the table under its
own address and held by none (`Filed`), or logged with a connection to that address
(`Logged`); what a handler has logged and come past the deletion of (`Through`) stays out
of the table (`Spent`), because only a holder can file it. `Expected` carries the row that identified a
connection to its insertion, or names who deleted it.

About `LineHandlers` the same module proves all the run checks and `LineTypeOK`, for
streams of any length, any order of lines and any cuts. `AsMeant`, `LinesKept` and
`RowsTell` compare sequences put together piece by piece with the stream, so the proofs
rest on lemmas about `FlattenSeq` (`FlattenConcat`, `FlattenUnits`): the library defines it
by recursion over the length, and a fact about every length is proved as a fact about a
set of numbers (`SetInduction`, from the well-foundedness of `<`), because the induction
theorems with an operator as parameter are of no use to the provers. `LinesTell` says that
the lines `strtok` finds put together are the text; `BehindIs`, that what is written
behind the last newline loses no end of a line and, if the text ends with it, nothing;
`LineAsMeant`, that a piece of one line becomes what it is meant to. The invariant
(`LineInv`) tells the streams from the rows whatever became of their statements (`SaidInv`,
of which `RowsTell` is what the table shows as long as none failed), and adds that the mark of the file is set exactly when the file has something in
it (`FileInv`) and that pieces of one line end after an even number of tokens
(`MeantInv`). Sessions are only assumed to be sequences of tokens.

`TlsInterceptorProofs` proves `TypeOK`, `FilesRight` and the refinement of `Relay`'s safety
part. A line is held only between reading and writing it, and there is a file exactly
when the service is connected (`Holding`). For `FilesRight` it is known at each step which
file is in use, and records are added behind the last file only (`InUse`).

Model-checked only: liveness (`HandlersEnd`, `Ends`, the fairness half of `Relay`,
`ConnSettled`, `DatagramTaken`, `CommandsObeyed`, `Answered`), which is out of the prover's
reach, and the two runs that expect a violation. Every invariant and every action
property of the other runs is a theorem.

## Not modelled

- Content of messages beyond the protocol they identify and the lines and bodies above;
  columns of rows that only describe the connection.
- `log_truman.c` with `semaphore.c`: in the built program nothing calls the text
  log any more (`protocols/ftp.c:256` is commented out), so the semaphore is
  initialised and never taken; `log_sqlite.c`, the alternative logger.
  `doc/CONFIGURATION:160` says that neither works.
- The certificate dump of `protocols/ssl.c` (16-313): it is guarded by
  `log_client_struct_initialized == 100` (353), a value nothing assigns. The
  contexts and certificates of `ssl_handler.c` succeed or fail as a whole.
- `main.c`, `configuration.c`, `logger.c`: sequential start-up that ends before anything
  runs concurrently. `iniparser.c` is vendored.
- `helper_net.c` (nothing calls it), `msg.c` (printing), `http_post.c` and `http_put.c` (not
  built), `proto_ident_opendpi.c` (needs a library that is not in the repository), the
  commented block of `ftp.c` (196-257).
- Failures of the disk, and of the database in `HttpReplay`.

## Plan

Done: every component that runs concurrently with another or keeps state over several
messages is in a module; proofs of all safety properties.

What would add most from here:

1. a pointer-level list that implements the sequence of `ProcessManager`.
2. `TcpHandler` and `TlsInterceptor` as one system: the two relays in series.
3. failures of the database in `HttpReplay`, as in `SampleLog` and `FtpPassive`.
