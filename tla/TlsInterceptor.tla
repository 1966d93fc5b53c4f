---------------------------- MODULE TlsInterceptor ----------------------------
(***************************************************************************)
(* The TLS interceptor (ssl_handler.c): a process that the TCP handler     *)
(* forks when TLS interception is active.  It accepts the handler's        *)
(* connection, whose other end is the client, and a TLS session on it,     *)
(* connects a TLS session to the service, and passes a request on line by  *)
(* line.  At an empty line it turns round and passes the response back     *)
(* until the service closes, whatever the client sends meanwhile.          *)
(*                                                                         *)
(* Lines and pieces of the response are known by their positions.  Both    *)
(* directions are recorded in files, each with a row in SSL_MITM_LOGS.     *)
(***************************************************************************)
EXTENDS Integers, Sequences

CONSTANTS MaxLines,    \* bound of the model on the client's lines
          MaxPieces    \* bound of the model on the pieces of the service

ASSUME TlsAssumption == MaxLines \in Nat /\ MaxPieces \in Nat

VARIABLES at,          \* where the interceptor is
          arrived,     \* the handler has connected
          lines,       \* what the client sent: the kind of each line
          clientOpen,  \* the client's side was not closed
          pieces,      \* how many pieces the service sent
          serverOpen,  \* the service's side was not closed
          lineRead,    \* how many lines were read
          pieceRead,   \* how many pieces were read
          toServer,    \* lines written to the service's session
          toClient,    \* pieces written to the client's session
          requestWithBody,
          files,       \* the files written, the current one last
          rows         \* rows of SSL_MITM_LOGS

vars == <<at, arrived, lines, clientOpen, pieces, serverOpen, lineRead, pieceRead,
          toServer, toClient, requestWithBody, files, rows>>
peers == <<arrived, lines, clientOpen, pieces, serverOpen>>

Kinds == {"plain", "length", "empty"}
Item == [from : {"client", "server"}, n : Nat]
Row == [file : Nat, type : {"client", "server"}]

TypeOK ==
    /\ at \in {"accept", "handshake", "connect", "sslconnect", "line", "write",
               "logclient", "response", "logserver", "spinning", "done"}
    /\ arrived \in BOOLEAN
    /\ lines \in Seq(Kinds)
    /\ clientOpen \in BOOLEAN
    /\ pieces \in Nat
    /\ serverOpen \in BOOLEAN
    /\ lineRead \in 0 .. Len(lines)
    /\ pieceRead \in 0 .. pieces
    /\ toServer \in Seq(Nat)
    /\ toClient \in Seq(Nat)
    /\ requestWithBody \in BOOLEAN
    /\ files \in Seq(Seq(Item))
    /\ rows \in Seq(Row)
    /\ at \in {"write", "logclient"} => lineRead > 0

\* sslhandler_create has bound the listener before the fork.
Init ==
    /\ at = "accept"
    /\ arrived = FALSE
    /\ lines = <<>> /\ clientOpen = TRUE
    /\ pieces = 0 /\ serverOpen = TRUE
    /\ lineRead = 0 /\ pieceRead = 0
    /\ toServer = <<>> /\ toClient = <<>>
    /\ requestWithBody = FALSE
    /\ files = <<>>
    /\ rows = <<>>

-----------------------------------------------------------------------------
\* The handler, the client behind it and the service

Arrive ==
    /\ ~arrived
    /\ arrived' = TRUE
    /\ UNCHANGED <<at, lines, clientOpen, pieces, serverOpen, lineRead, pieceRead,
                   toServer, toClient, requestWithBody, files, rows>>

ClientSends(kind) ==
    /\ arrived /\ clientOpen
    /\ Len(lines) < MaxLines
    /\ lines' = Append(lines, kind)
    /\ UNCHANGED <<at, arrived, clientOpen, pieces, serverOpen, lineRead, pieceRead,
                   toServer, toClient, requestWithBody, files, rows>>

ClientCloses ==
    /\ arrived /\ clientOpen
    /\ clientOpen' = FALSE
    /\ UNCHANGED <<at, arrived, lines, pieces, serverOpen, lineRead, pieceRead,
                   toServer, toClient, requestWithBody, files, rows>>

Connected == files # <<>>

ServerSends ==
    /\ Connected /\ serverOpen
    /\ pieces < MaxPieces
    /\ pieces' = pieces + 1
    /\ UNCHANGED <<at, arrived, lines, clientOpen, serverOpen, lineRead, pieceRead,
                   toServer, toClient, requestWithBody, files, rows>>

ServerCloses ==
    /\ Connected /\ serverOpen
    /\ serverOpen' = FALSE
    /\ UNCHANGED <<at, arrived, lines, clientOpen, pieces, lineRead, pieceRead,
                   toServer, toClient, requestWithBody, files, rows>>

-----------------------------------------------------------------------------
\* sslhandler_run

Goto(from, to) == at = from /\ at' = to

Accept ==
    /\ arrived
    /\ Goto("accept", "handshake")
    /\ UNCHANGED <<peers, lineRead, pieceRead, toServer, toClient, requestWithBody, files, rows>>

\* SSL_accept, the connection and SSL_connect follow each other.
SetUp ==
    /\ \/ Goto("handshake", "connect")
       \/ Goto("connect", "sslconnect")
       \/ Goto("sslconnect", "line")
    /\ files' = IF at = "sslconnect" THEN <<<<>>>> ELSE files
    /\ UNCHANGED <<peers, lineRead, pieceRead, toServer, toClient, requestWithBody, rows>>

\* Each of them may fail, and none has to.  Without its certificate the process
\* does not even get to accept(): the context it goes on with is NULL.
SetUpFails ==
    /\ at \in {"accept", "handshake", "connect", "sslconnect"}
    /\ at' = "done"
    /\ UNCHANGED <<peers, lineRead, pieceRead, toServer, toClient, requestWithBody, files, rows>>

\* append_binarydata_to_file to the file whose name is in filename
Record(from, n) ==
    files' = [files EXCEPT ![Len(files)] = Append(@, [from |-> from, n |-> n])]

\* BIO_gets returns a line.  Waiting for the first one in select() is left out:
\* the timeouts of 5 s and 300 s only wait again.
ReadLine ==
    /\ Goto("line", "write")
    /\ lineRead < Len(lines)
    /\ lineRead' = lineRead + 1
    /\ Record("client", lineRead')
    /\ UNCHANGED <<peers, pieceRead, toServer, toClient, requestWithBody, rows>>

\* Fault: only an error ends the session, the end of the data does not
ReadEnd_Waits ==
    /\ at = "line"
    /\ lineRead = Len(lines) /\ ~clientOpen
    /\ UNCHANGED vars

ReadEnd ==
    /\ Goto("line", "done")
    /\ lineRead = Len(lines) /\ ~clientOpen
    /\ UNCHANGED <<peers, lineRead, pieceRead, toServer, toClient, requestWithBody, files, rows>>

\* "SSL read problem": the session fails, with the client still there and lines
\* of its on their way.
ReadError ==
    /\ Goto("line", "done")
    /\ UNCHANGED <<peers, lineRead, pieceRead, toServer, toClient, requestWithBody, files, rows>>

\* Fault: what was written is counted wrong and the line written once more
WriteLine_Twice ==
    /\ at = "write"
    /\ toServer' = toServer \o <<lineRead, lineRead>>
    /\ requestWithBody' = (requestWithBody \/ lines[lineRead] = "length")
    /\ at' = IF lines[lineRead] = "empty" THEN "logclient" ELSE "line"
    /\ UNCHANGED <<peers, lineRead, pieceRead, toClient, files, rows>>

\* The line goes to the service; a service that closed may not get it.
WriteLine ==
    /\ at = "write"
    /\ toServer' = Append(toServer, lineRead)
    /\ requestWithBody' = (requestWithBody \/ lines[lineRead] = "length")
    /\ at' = IF lines[lineRead] = "empty" THEN "logclient" ELSE "line"
    /\ UNCHANGED <<peers, lineRead, pieceRead, toClient, files, rows>>

\* SSL_write returns -1: bytesWritten moves away from r, and the error is asked of
\* the other session, which has none.  The loop goes on, unless SIGPIPE ends it.
WriteFails ==
    /\ at = "write"
    /\ ~serverOpen
    /\ at' \in {"spinning", "done"}
    /\ UNCHANGED <<peers, lineRead, pieceRead, toServer, toClient, requestWithBody, files, rows>>

\* Fault: the response goes to the file of the request
LogClient_OneFile ==
    /\ Goto("logclient", "response")
    /\ rows' \in {rows, Append(rows, [file |-> Len(files), type |-> "client"])}
    /\ UNCHANGED <<peers, lineRead, pieceRead, toServer, toClient, requestWithBody, files>>

\* The statement may fail; the name of the next file replaces the last one's.
LogClient ==
    /\ Goto("logclient", "response")
    /\ rows' \in {rows, Append(rows, [file |-> Len(files), type |-> "client"])}
    /\ files' = Append(files, <<>>)
    /\ UNCHANGED <<peers, lineRead, pieceRead, toServer, toClient, requestWithBody>>

\* A piece is recorded before it is passed on.  That the client is gone is only
\* reported, or the process dies of SIGPIPE and the response has no row.
ReadPiece ==
    /\ at = "response"
    /\ pieceRead < pieces
    /\ pieceRead' = pieceRead + 1
    /\ Record("server", pieceRead')
    /\ \/ toClient' = Append(toClient, pieceRead') /\ UNCHANGED at
       \/ ~clientOpen /\ at' = "done" /\ UNCHANGED toClient
    /\ UNCHANGED <<peers, lineRead, toServer, requestWithBody, rows>>

ResponseEnds ==
    /\ Goto("response", "logserver")
    /\ pieceRead = pieces /\ ~serverOpen
    /\ UNCHANGED <<peers, lineRead, pieceRead, toServer, toClient, requestWithBody, files, rows>>

\* "SSL read problem" on the service's session: what was read is the response.
ResponseError ==
    /\ Goto("response", "logserver")
    /\ UNCHANGED <<peers, lineRead, pieceRead, toServer, toClient, requestWithBody, files, rows>>

LogServer ==
    /\ at = "logserver"
    /\ rows' \in {rows, Append(rows, [file |-> Len(files), type |-> "server"])}
    /\ at' = IF requestWithBody THEN "line" ELSE "done"
    /\ UNCHANGED <<peers, lineRead, pieceRead, toServer, toClient, requestWithBody, files>>

sslhandler_run ==
    \/ Accept \/ SetUp
    \/ ReadLine \/ ReadEnd \/ WriteLine \/ WriteFails
    \/ LogClient \/ ReadPiece \/ ResponseEnds \/ LogServer

\* What may go wrong at any time, and need not
Errors == SetUpFails \/ ReadError \/ ResponseError

Next ==
    \/ Arrive \/ (\E kind \in Kinds : ClientSends(kind)) \/ ClientCloses
    \/ ServerSends \/ ServerCloses
    \/ sslhandler_run \/ Errors

\* The process is scheduled, and needs no error to go on.
Spec == Init /\ [][Next]_vars /\ WF_vars(sslhandler_run)

-----------------------------------------------------------------------------
\* How much of a side was read
ReadOf(side) == IF side = "client" THEN lineRead ELSE pieceRead

\* Everything that was read of a side, and nothing else, is in the files
Complete ==
    /\ \A side \in {"client", "server"} : \A n \in 1 .. ReadOf(side) :
         \E f \in DOMAIN files : \E i \in DOMAIN files[f] :
           files[f][i] = [from |-> side, n |-> n]
    /\ \A f \in DOMAIN files : \A i \in DOMAIN files[f] :
         files[f][i].n \in 1 .. ReadOf(files[f][i].from)

\* Of one side, what stands further back in a file or in a later one was read later
InOrder ==
    \A f, g \in DOMAIN files : \A i \in DOMAIN files[f], j \in DOMAIN files[g] :
      /\ f < g \/ (f = g /\ i < j)
      /\ files[f][i].from = files[g][j].from
      => files[f][i].n < files[g][j].n

\* The first file is the request; the others are responses, but for bodies
Apart ==
    \A f \in DOMAIN files : \A i \in DOMAIN files[f] :
      /\ f = 1 => files[f][i].from = "client"
      /\ f > 1 /\ ~requestWithBody => files[f][i].from = "server"

\* Everything that was read is in one of the files, once and in its order, and
\* the first file is the request alone.  As long as no line declares a length
\* the second is the response alone and the rows say so; a body, which is read
\* after the response, goes into the file of the response (ssl_handler.c:302,
\* 324, 355, 365).
FilesRight ==
    /\ Complete /\ InOrder /\ Apart
    /\ ~requestWithBody =>
         \A i \in DOMAIN rows : rows[i].file = IF rows[i].type = "client" THEN 1 ELSE 2

\* Within the handler's relay the interceptor is one itself: it passes lines on
\* once and in order, none before the service is connected, and answers only
\* while it holds no line (ssl_handler.c:325-341, 359-436).
Session == INSTANCE Relay WITH
             Peers <- {"service"},
             phase <- IF at \in {"spinning", "done"} THEN "over"
                      ELSE IF Connected THEN "relaying" ELSE "open",
             peer <- IF Connected THEN {"service"} ELSE {},
             clientRead <- lineRead,
             serverRead <- pieceRead

IsRelay == Session!SafetySpec

\* When both sides have closed the process comes to its end, and with it the
\* handler gets the SIGCHLD that ends its own relay.  The exception is a line
\* that cannot be written: its loop has no way out (ssl_handler.c:325, 329).
Ends ==
    arrived /\ ~clientOpen /\ ~serverOpen ~> at \in {"done", "spinning"}
=============================================================================
