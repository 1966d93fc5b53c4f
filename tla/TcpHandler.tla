------------------------------ MODULE TcpHandler ------------------------------
(***************************************************************************)
(* One TCP handler process (tcp_handler.c): it reads what the client and   *)
(* the service it was attached to send, identifies the application         *)
(* protocol from the payload (proto_ident_truman.c) or, in full emulation, *)
(* from the port, chooses the service by the mode of the trumanbox, and    *)
(* passes the messages on.                                                 *)
(*                                                                         *)
(* A message is what one read() returns; its payload is the protocol its   *)
(* bytes identify, "plain" when they identify none, and is chosen when     *)
(* bypayload looks at it.  The address of a service is a name: "orig" is   *)
(* what the client asked for, "local" the emulation service of the         *)
(* identified protocol, "nepenthes" the redirect of the [nepenthes]        *)
(* section, "sslproxy" the listener of the TLS interceptor, "garbage"      *)
(* whatever the uninitialised targetServAddr of tcphandler_run holds.      *)
(***************************************************************************)
EXTENDS Naturals, Sequences

CONSTANTS Payloads,   \* the payloads client and service send
          Ports,      \* the ports clients connect to
          MaxMsgs     \* bound of the model on the messages of each side

ASSUME PayloadsAssumption ==
    Payloads \subseteq {"HTTP", "IRC", "FTP", "SMTP", "FTP_data", "SSL_Proto", "plain"}
ASSUME PortsAssumption == Ports \subseteq Nat
ASSUME MaxMsgsAssumption == MaxMsgs \in Nat

VARIABLES
    setup,            \* what tcphandler_create copies from the configuration
    at,               \* where the handler is
    first,            \* the first select() watches the client only
    app,              \* connection->app_proto
    held,             \* position of the client's message in payload, 0: none
    target,           \* targetServAddr
    dest,             \* connection->dest, the address that is logged
    destOffline,      \* connection->destOffline
    connectedToFinal,
    peer,             \* the service targetServiceFd was connected to
    sock,             \* state of targetServiceFd
    client,           \* the client's end of the connection
    shut,             \* the handler has shut down inConnFd
    clientSent,       \* how many messages the client has sent
    serverSent,       \* how many messages the service has sent
    clientRead,       \* how many messages were read from inConnFd
    serverRead,       \* how many messages were read from targetServiceFd
    toServer,         \* positions of the messages written to the service
    toClient,         \* positions of the messages written to the client
    tls,              \* the forked TLS interceptor
    failed            \* services a connect() has failed for

routing == <<app, target, dest, destOffline>>
sockets == <<connectedToFinal, peer, sock, failed>>
ends    == <<client, clientSent, serverSent>>
streams == <<clientRead, serverRead, toServer, toClient>>
vars    == <<setup, at, first, held, routing, sockets, ends, shut, streams, tls>>

Protocols == {"UNKNOWN", "HTTP", "IRC", "FTP", "SMTP", "FTP_data", "SSL_Proto"}
Addresses == {"orig", "local", "nepenthes", "sslproxy", "garbage"}

\* The protocols whose determine_target knows a local service
Emulated == {"HTTP", "IRC", "FTP", "SMTP"}

NepenthesPorts == {42, 135, 139, 445, 1023, 1025, 1433, 3127, 3128}

Setup == [mode            : {"full_emulation", "half_proxy", "full_proxy"},
          nepenthesActive : BOOLEAN,
          sslMitmActive   : BOOLEAN,
          dport           : Ports]

\* The process is gone: it returned from tcphandler_run, was killed by SIGINT,
\* or died of SIGPIPE or of an invalid memory access.
Over == at \in {"done", "killed", "crashed"}

FlagsOK ==
    /\ first \in BOOLEAN /\ shut \in BOOLEAN
    /\ destOffline \in BOOLEAN /\ connectedToFinal \in BOOLEAN

RoutingOK ==
    /\ app \in Protocols
    /\ target \in Addresses
    /\ dest \in Addresses \cup {"unset"}

SocketsOK ==
    /\ peer \subseteq Addresses
    /\ failed \subseteq Addresses
    /\ sock \in {"closed", "up", "fin", "reset"}
    /\ client \in {"open", "fin", "reset"}
    /\ tls \in {"none", "running", "exited"}

StreamsOK ==
    /\ held \in Nat
    /\ clientSent \in Nat /\ clientRead \in 0..clientSent
    /\ serverSent \in Nat /\ serverRead \in 0..serverSent
    /\ toServer \in Seq(Nat)
    /\ toClient \in Seq(Nat)

TypeOK ==
    /\ setup \in Setup
    /\ at \in {"select", "intercept", "unknown", "connect", "fallback", "forward",
               "done", "killed", "crashed"}
    /\ FlagsOK /\ RoutingOK /\ SocketsOK /\ StreamsOK

\* tcphandler_run up to the loop: determine_target with UNKNOWN sets the
\* address in the proxy modes and only clears dest in full emulation.
Init ==
    /\ setup \in Setup
    /\ at = "select"
    /\ first = TRUE
    /\ app = "UNKNOWN"
    /\ held = 0
    /\ destOffline = (setup.mode = "full_emulation")
    /\ target = IF destOffline THEN "garbage" ELSE "orig"
    /\ dest = IF destOffline THEN "unset" ELSE "orig"
    /\ connectedToFinal = FALSE
    /\ peer = {}
    /\ sock = "closed"
    /\ client = "open"
    /\ shut = FALSE
    /\ clientSent = 0
    /\ serverSent = 0
    /\ clientRead = 0
    /\ serverRead = 0
    /\ toServer = <<>>
    /\ toClient = <<>>
    /\ tls = "none"
    /\ failed = {}

-----------------------------------------------------------------------------
\* Identification and choice of the target

\* bypayload: unidentified bytes are FTP data when the database holds an
\* announced passive port, and also when the query failed and left garbage in
\* the value that is compared with 0.
bypayload(p) == IF p = "plain" THEN {"UNKNOWN", "FTP_data"} ELSE {p}

\* What the payload of the next message may be identified as
identified == UNION {bypayload(p) : p \in Payloads}

byport(port) == CASE port = 21   -> "FTP"
                  [] port = 25   -> "SMTP"
                  [] port = 6667 -> "IRC"
                  [] OTHER       -> "UNKNOWN"

\* determine_target of the protocol handlers: the ones without a service of
\* their own leave the address as it is.
OwnTarget(a, t) ==
    IF a \in Emulated /\ setup.mode # "full_proxy" THEN "local" ELSE t

\* Fault: half proxy falls through to the emulation as full emulation does
determine_target_Emulates(a, d) ==
    IF setup.mode # "full_proxy" /\ a # "UNKNOWN"
      THEN /\ destOffline' = TRUE
           /\ target' = OwnTarget(a, target)
           /\ dest' = target'
      ELSE /\ target' = d
           /\ dest' = d
           /\ UNCHANGED destOffline

\* tcphandler_determine_target, called when connection->dest is d
determine_target(a, d) ==
    IF setup.mode = "full_emulation"
      THEN /\ destOffline' = TRUE
           /\ target' = IF a = "UNKNOWN" THEN target ELSE OwnTarget(a, target)
           /\ dest' = IF a = "UNKNOWN" THEN "unset" ELSE target'
      ELSE /\ target' = d
           /\ dest' = d
           /\ UNCHANGED destOffline

\* tcphandler_handle_unknown up to its connect(); back is where the caller
\* goes on.  The nepenthes ports return before they are connected.
handle_unknown(back) ==
    IF setup.nepenthesActive /\ setup.dport \in NepenthesPorts
      THEN /\ target' = "nepenthes"
           /\ dest' = "nepenthes"
           /\ app' = "UNKNOWN"
           /\ at' = back
           /\ UNCHANGED destOffline
      ELSE /\ app' = IF setup.mode = "full_emulation" THEN byport(setup.dport)
                     ELSE "UNKNOWN"
           /\ determine_target(app', dest)
           /\ at' = IF connectedToFinal THEN back ELSE "unknown"

-----------------------------------------------------------------------------
\* The loop of tcphandler_run

\* Only an unconnected or answering socket wakes select() up: a socket that
\* was never connected, or whose connect() failed, polls as hung up.
TargetReadable ==
    /\ ~first
    /\ sock # "up" \/ serverRead < serverSent

ClientReadable ==
    \/ clientRead < clientSent
    \/ client # "open"
    \/ shut

\* out: both connections are shut down
GoOut ==
    /\ at' = "done"
    /\ shut' = TRUE

\* read() from the service returns -1 (not connected, or reset by it): the
\* result is used as the length of a memcpy.
ReadTargetError ==
    /\ at = "select"
    /\ TargetReadable
    /\ serverRead = serverSent
    /\ sock \in {"closed", "reset"}
    /\ at' = "crashed"
    /\ UNCHANGED <<setup, first, held, routing, sockets, ends, shut, streams, tls>>

ReadTargetEnd ==
    /\ at = "select"
    /\ TargetReadable
    /\ serverRead = serverSent
    /\ sock = "fin"
    /\ GoOut
    /\ UNCHANGED <<setup, first, held, routing, sockets, ends, streams, tls>>

\* A message of the service: it may identify the protocol and is written to
\* the client.  The write fails once the client has reset the connection
\* (error, or SIGPIPE when the error was already reported) or inConnFd is shut.
ReadTarget ==
    /\ at = "select"
    /\ TargetReadable
    /\ serverRead < serverSent
    /\ serverRead' = serverRead + 1
    /\ IF app = "UNKNOWN" THEN app' \in identified ELSE UNCHANGED app
    /\ \/ /\ client # "reset" /\ ~shut
          /\ toClient' = Append(toClient, serverRead')
          /\ UNCHANGED <<at, shut>>
       \/ /\ client = "reset" /\ ~shut
          /\ GoOut
          /\ UNCHANGED toClient
       \/ /\ client = "reset" \/ shut
          /\ at' = "crashed"
          /\ UNCHANGED <<toClient, shut>>
    /\ first' = FALSE
    /\ UNCHANGED <<setup, held, target, dest, destOffline, sockets, ends,
                   clientRead, toServer, tls>>

ReadClientEnd ==
    /\ at = "select"
    /\ ~TargetReadable
    /\ ClientReadable
    /\ shut \/ clientRead = clientSent
    /\ GoOut
    /\ UNCHANGED <<setup, first, held, routing, sockets, ends, streams, tls>>

\* The part every message of the client has in common
TakeFromClient ==
    /\ at = "select"
    /\ ~TargetReadable
    /\ ~shut
    /\ clientRead < clientSent
    /\ clientRead' = clientRead + 1
    /\ held' = clientRead + 1
    /\ first' = FALSE
    /\ UNCHANGED <<setup, sockets, ends, shut, serverRead, toServer, toClient>>

\* The protocol is known: on to the protocol handler.
ReadClientKnown ==
    /\ TakeFromClient
    /\ app # "UNKNOWN"
    /\ at' = "forward"
    /\ UNCHANGED <<routing, tls>>

ReadClientUnknown ==
    /\ TakeFromClient
    /\ app = "UNKNOWN"
    /\ "UNKNOWN" \in identified
    /\ handle_unknown("forward")
    /\ UNCHANGED tls

\* Identified just now: connect, unless a timeout has connected already.
ReadClientIdentified ==
    /\ TakeFromClient
    /\ app = "UNKNOWN"
    /\ app' \in identified \ {"UNKNOWN"}
    /\ app' = "SSL_Proto" => ~setup.sslMitmActive \/ setup.mode = "full_emulation"
    /\ IF connectedToFinal
         THEN at' = "forward" /\ UNCHANGED <<target, dest, destOffline>>
         ELSE at' = "connect" /\ determine_target(app', dest)
    /\ UNCHANGED tls

\* A TLS session to be intercepted
ReadClientSsl ==
    /\ TakeFromClient
    /\ app = "UNKNOWN"
    /\ app' = "SSL_Proto"
    /\ "SSL_Proto" \in identified
    /\ setup.sslMitmActive /\ setup.mode # "full_emulation"
    /\ at' = "intercept"
    /\ UNCHANGED <<target, dest, destOffline, tls>>

\* Fault: an identified connection is kept after the timeout as well
Timeout_KeepsIdentified ==
    /\ at = "select"
    /\ ~TargetReadable
    /\ ~ClientReadable
    /\ IF app # "UNKNOWN"
         THEN UNCHANGED <<at, routing>>
         ELSE handle_unknown("select")
    /\ first' = FALSE
    /\ UNCHANGED <<setup, held, sockets, ends, shut, streams, tls>>

\* select() comes back without a readable descriptor, after 5 s the first
\* time and after 300 s later
Timeout ==
    /\ at = "select"
    /\ ~TargetReadable
    /\ ~ClientReadable
    /\ IF app # "UNKNOWN"
         THEN GoOut /\ UNCHANGED <<first, routing>>
         ELSE handle_unknown("select") /\ first' = FALSE /\ UNCHANGED shut
    /\ UNCHANGED <<setup, held, sockets, ends, streams, tls>>

-----------------------------------------------------------------------------
\* The blocking calls

\* tcphandler_handle_ssl: the interceptor listens, dest is turned to it, a
\* child is forked for it (or not, if fork fails: the listener is there all
\* the same), and 2 s later the loop goes on.  Without a listener the NULL
\* handle is dereferenced.
handle_ssl ==
    /\ at = "intercept"
    /\ \/ /\ tls' \in {"none", "running"}
          /\ IF connectedToFinal
               THEN at' = "forward" /\ dest' = "sslproxy" /\ UNCHANGED <<target, destOffline>>
               ELSE at' = "connect" /\ determine_target(app, "sslproxy")
       \/ at' = "crashed" /\ UNCHANGED <<tls, target, dest, destOffline>>
    /\ UNCHANGED <<setup, first, held, app, sockets, ends, shut, streams>>

\* connect() to target went through.  An uninitialised address may also be of
\* the family AF_UNSPEC, for which connect() returns 0 and connects nothing.
Connected ==
    /\ connectedToFinal' = TRUE
    /\ \/ peer' = {target} /\ sock' = "up"
       \/ target = "garbage" /\ UNCHANGED <<peer, sock>>
    /\ UNCHANGED failed

ConnectFails ==
    /\ failed' = failed \cup {target}
    /\ UNCHANGED <<connectedToFinal, peer, sock>>

\* handle_unknown: its callers ignore the -1 it returns, so the handler goes
\* on with the message it holds after it has dropped the client.
ConnectUnknown ==
    /\ at = "unknown"
    /\ at' = IF held = 0 THEN "select" ELSE "forward"
    /\ \/ Connected /\ UNCHANGED shut
       \/ ConnectFails /\ shut' = TRUE
    /\ UNCHANGED <<setup, first, held, routing, ends, streams, tls>>

\* Fault: the fallback leaves connection->dest as it is
ConnectIdentified_KeepsDest ==
    /\ at = "connect"
    /\ \/ /\ Connected
          /\ at' = "forward"
          /\ UNCHANGED <<routing, shut>>
       \/ /\ ConnectFails
          /\ setup.mode = "half_proxy"
          /\ target' = OwnTarget(app, target)
          /\ destOffline' = TRUE
          /\ at' = "fallback"
          /\ UNCHANGED <<app, dest, shut>>
       \/ /\ ConnectFails
          /\ setup.mode # "half_proxy"
          /\ GoOut
          /\ UNCHANGED routing
    /\ UNCHANGED <<setup, first, held, ends, streams, tls>>

\* Fault: the fallback does not set destOffline
ConnectIdentified_StaysOnline ==
    /\ at = "connect"
    /\ \/ /\ Connected
          /\ at' = "forward"
          /\ UNCHANGED <<routing, shut>>
       \/ /\ ConnectFails
          /\ setup.mode = "half_proxy"
          /\ target' = OwnTarget(app, target)
          /\ dest' = target'
          /\ at' = "fallback"
          /\ UNCHANGED <<app, destOffline, shut>>
       \/ /\ ConnectFails
          /\ setup.mode # "half_proxy"
          /\ GoOut
          /\ UNCHANGED routing
    /\ UNCHANGED <<setup, first, held, ends, streams, tls>>

\* The connect() of tcphandler_run for an identified protocol; in half proxy
\* a failure turns the same socket to the local service of the protocol.
ConnectIdentified ==
    /\ at = "connect"
    /\ \/ /\ Connected
          /\ at' = "forward"
          /\ UNCHANGED <<routing, shut>>
       \/ /\ ConnectFails
          /\ setup.mode = "half_proxy"
          /\ target' = OwnTarget(app, target)
          /\ dest' = target'
          /\ destOffline' = TRUE
          /\ at' = "fallback"
          /\ UNCHANGED <<app, shut>>
       \/ /\ ConnectFails
          /\ setup.mode # "half_proxy"
          /\ GoOut
          /\ UNCHANGED routing
    /\ UNCHANGED <<setup, first, held, ends, streams, tls>>

\* Fault: the loop goes on without the message that was read before
ConnectFallback_Drops ==
    /\ at = "fallback"
    /\ \/ Connected /\ at' = "select" /\ held' = 0 /\ UNCHANGED shut
       \/ ConnectFails /\ GoOut /\ UNCHANGED held
    /\ UNCHANGED <<setup, first, routing, ends, streams, tls>>

ConnectFallback ==
    /\ at = "fallback"
    /\ \/ Connected /\ at' = "forward" /\ UNCHANGED shut
       \/ ConnectFails /\ GoOut
    /\ UNCHANGED <<setup, first, held, routing, ends, streams, tls>>

\* handle_payload_cts and the write to the service.  An unconnected socket
\* raises SIGPIPE; a reset one raises it or returns an error.  The handler of
\* HTTP computes with a NULL pointer when the header does not end in the
\* message (http.c:279-291), that of IRC writes through one when it injects a
\* command into a message without a newline (irc.c:28-37).
Forward ==
    /\ at = "forward"
    /\ \/ /\ sock \in {"up", "fin"}
          /\ toServer' = Append(toServer, held)
          /\ at' = "select"
          /\ held' = 0
          /\ UNCHANGED shut
       \/ /\ sock = "reset"
          /\ GoOut
          /\ UNCHANGED <<held, toServer>>
       \/ /\ sock \in {"closed", "reset"} \/ app \in {"HTTP", "IRC"}
          /\ at' = "crashed"
          /\ UNCHANGED <<held, toServer, shut>>
    /\ UNCHANGED <<setup, first, routing, sockets, ends,
                   clientRead, serverRead, toClient, tls>>

HandlerStep ==
    \/ ReadTargetError \/ ReadTargetEnd \/ ReadTarget
    \/ ReadClientEnd \/ ReadClientKnown \/ ReadClientUnknown
    \/ ReadClientIdentified \/ ReadClientSsl
    \/ Timeout \/ handle_ssl
    \/ ConnectUnknown \/ ConnectIdentified \/ ConnectFallback \/ Forward

-----------------------------------------------------------------------------
\* The two ends of the connection, as long as the handler watches them, and
\* signals

handler == <<setup, at, first, held, routing, shut, streams, tls>>

ClientSends ==
    /\ ~Over
    /\ client = "open"
    /\ clientSent < MaxMsgs
    /\ clientSent' = clientSent + 1
    /\ UNCHANGED <<handler, sockets, client, serverSent>>

ClientLeaves ==
    /\ ~Over
    /\ client = "open"
    /\ client' \in {"fin", "reset"}
    /\ UNCHANGED <<handler, sockets, clientSent, serverSent>>

ServerSends ==
    /\ ~Over
    /\ sock = "up"
    /\ serverSent < MaxMsgs
    /\ serverSent' = serverSent + 1
    /\ UNCHANGED <<handler, sockets, client, clientSent>>

ServerLeaves ==
    /\ ~Over
    /\ sock = "up"
    /\ sock' \in {"fin", "reset"}
    /\ UNCHANGED <<handler, connectedToFinal, peer, failed, ends>>

\* The interceptor exits: SIGCHLD ends a select() it interrupts, with the
\* result -1 that ends the loop; elsewhere it only runs sig_chld.
TlsExit ==
    /\ ~Over
    /\ tls = "running"
    /\ tls' = "exited"
    /\ \/ UNCHANGED <<at, shut>>
       \/ at = "select" /\ GoOut
    /\ UNCHANGED <<setup, first, held, routing, sockets, ends, streams>>

\* SIGINT of pm_kill_temporary.  The dispatcher still holds the client's
\* connection, so it is not shut down.
Interrupt ==
    /\ ~Over
    /\ at' = "killed"
    /\ UNCHANGED <<setup, first, held, routing, sockets, ends, shut, streams, tls>>

Next ==
    \/ HandlerStep
    \/ ClientSends \/ ClientLeaves
    \/ ServerSends \/ ServerLeaves
    \/ TlsExit \/ Interrupt

Spec == Init /\ [][Next]_vars

\* connect() and select() come back, and the scheduler runs the handler.
FairSpec == Spec /\ WF_vars(HandlerStep)

-----------------------------------------------------------------------------
\* The service the client is connected to is the one the mode calls for at
\* that moment: full emulation turns every protocol it has a service for to
\* that service, half proxy does so only after the original was unreachable,
\* full proxy never, and an intercepted TLS session goes to the interceptor.  An
\* uninitialised address is connected in full emulation only, for a protocol it
\* has no service for (tcp_handler.c:54-131, 305-331).
Intercepted == app' = "SSL_Proto" /\ setup.sslMitmActive /\ setup.mode # "full_emulation"

Called(p) ==
    /\ p = "sslproxy" <=> Intercepted
    /\ setup.mode = "full_emulation" /\ app' \in Emulated => p = "local"
    /\ setup.mode = "half_proxy" /\ p = "local" => "orig" \in failed
    /\ setup.mode = "full_proxy" => p # "local"
    /\ p = "garbage" => setup.mode = "full_emulation"

RightPeer == [][\A p \in peer' \ peer : Called(p)]_vars

\* http.c:140 and http.c:359 invent the content of an HTTP exchange when
\* destOffline is set: outside full emulation that is exactly when the client
\* was turned to the local service.
OfflineMeansRedirected ==
    connectedToFinal /\ app = "HTTP" /\ setup.mode # "full_emulation" =>
        (destOffline <=> peer = {"local"})

\* The address every log row is written with (connection->dest) is the peer
\* the bytes come from, through timeouts, fallback and late identification,
\* as long as no emulation turns dest after the fact.  There is one exception:
\* an interceptor that is started for a client a timeout has connected before
\* takes over the address, but not the connection (tcp_handler.c:117-118).
LoggedPeer ==
    peer # {} /\ setup.mode # "full_emulation" =>
      \/ peer = {dest}
      \/ /\ peer = {"orig"} /\ dest = "sslproxy"
         /\ app = "SSL_Proto" /\ setup.sslMitmActive

\* The handler keeps the promise of Relay: one peer at most, no message of
\* the client lost, repeated or reordered while the session lasts, none
\* written before a peer is attached.
SessionPhase == IF Over THEN "over" ELSE IF peer = {} THEN "open" ELSE "relaying"

Session == INSTANCE Relay WITH Peers <- Addresses, phase <- SessionPhase

IsRelay == Session!Spec

\* A handler comes to its end once both sides are silent, however it got
\* there; the only ones that may stay for ever relay a protocol that was
\* never identified (tcp_handler.c:344-353).
Ends ==
    (app # "UNKNOWN" \/ ~connectedToFinal) ~> (Over \/ (connectedToFinal /\ app = "UNKNOWN"))

\* doc/CONFIGURATION:27-29, "half proxy, will try to forward the connection
\* to the internet and redirect to a local service in case the internet
\* servcie is not reachable": a client is not dropped after only the original
\* destination was tried.
HalfProxyRedirects ==
    setup.mode = "half_proxy" /\ shut /\ ~connectedToFinal /\ "orig" \in failed
        => "local" \in failed

=============================================================================
