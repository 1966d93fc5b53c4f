------------------------- MODULE TlsInterceptorProofs -------------------------
(***************************************************************************)
(* The TLS interceptor keeps its types and is a relay, for any number of   *)
(* lines and pieces.  The strengthening relates where the interceptor is   *)
(* to what it holds: a line only between reading and writing it, and no    *)
(* file before the service is connected.                                   *)
(***************************************************************************)
EXTENDS TlsInterceptor, TLAPS

Unconnected == {"accept", "handshake", "connect", "sslconnect"}
Over == {"spinning", "done"}

\* A line is held only at "write", and the first file is begun with the session.
Holding ==
    /\ at \notin Over => lineRead = Len(toServer) + (IF at = "write" THEN 1 ELSE 0)
    /\ at \in Unconnected => files = <<>>
    /\ at \notin Unconnected \cup Over => files # <<>>

Inv == TypeOK /\ Holding

LEMMA InitInv == Init => Inv
<1> SUFFICES ASSUME Init PROVE Inv
  OBVIOUS
<1>1. Holding
  BY DEF Init, Holding, Unconnected, Over
<1>2. files \in Seq(Seq(Item)) /\ rows \in Seq(Row)
  BY DEF Init
<1>3. lines \in Seq(Kinds) /\ toServer \in Seq(Nat) /\ toClient \in Seq(Nat)
  BY DEF Init
<1>4. lineRead \in 0 .. Len(lines) /\ pieces \in Nat /\ pieceRead \in 0 .. pieces
  BY DEF Init
<1>5. QED
  BY <1>1, <1>2, <1>3, <1>4 DEF Init, Inv, TypeOK

\* What LogClient and LogServer do with the rows
LEMMA RowStep ==
  ASSUME TypeOK, NEW type \in {"client", "server"},
         rows' \in {rows, Append(rows, [file |-> Len(files), type |-> type])}
  PROVE  rows' \in Seq(Row)
<1>1. Len(files) \in Nat /\ rows \in Seq(Row)
  BY DEF TypeOK
<1>2. [file |-> Len(files), type |-> type] \in Row
  BY <1>1 DEF Row
<1>3. QED
  BY <1>1, <1>2

\* A record is added to the file in use; the number of files stays.
LEMMA RecordStep ==
  ASSUME TypeOK, files # <<>>,
         NEW from \in {"client", "server"}, NEW n \in Nat, Record(from, n)
  PROVE  files' \in Seq(Seq(Item)) /\ files' # <<>>
<1>1. files \in Seq(Seq(Item)) /\ Len(files) \in 1 .. Len(files)
  BY DEF TypeOK
<1>2. Append(files[Len(files)], [from |-> from, n |-> n]) \in Seq(Item)
  BY <1>1 DEF Item
<1>3. QED
  BY <1>1, <1>2 DEF Record

LEMMA StepInv == Inv /\ [Next]_vars => Inv'
<1> SUFFICES ASSUME Inv, [Next]_vars PROVE Inv'
  OBVIOUS
<1> USE DEF Inv, Holding, Unconnected, Over
<1>1. CASE Arrive
  BY <1>1 DEF Arrive, TypeOK
<1>2. ASSUME NEW kind \in Kinds, ClientSends(kind) PROVE Inv'
  BY <1>2 DEF ClientSends, TypeOK
<1>3. CASE ClientCloses
  BY <1>3 DEF ClientCloses, TypeOK
<1>4. CASE ServerSends
  BY <1>4 DEF ServerSends, TypeOK
<1>5. CASE ServerCloses
  BY <1>5 DEF ServerCloses, TypeOK
<1>6. CASE Accept
  BY <1>6 DEF Accept, Goto, peers, TypeOK
<1>7. CASE SetUp
  BY <1>7 DEF SetUp, Goto, peers, TypeOK
<1>8. CASE SetUpFails
  BY <1>8 DEF SetUpFails, peers, TypeOK
<1>9. CASE ReadLine
  <2>1. lineRead' \in Nat /\ Record("client", lineRead') /\ files # <<>>
    BY <1>9 DEF ReadLine, Goto, TypeOK
  <2>2. files' \in Seq(Seq(Item)) /\ files' # <<>>
    BY <2>1, RecordStep
  <2>3. QED
    BY <1>9, <2>2 DEF ReadLine, Goto, peers, TypeOK
<1>10. CASE ReadEnd \/ ReadError
  BY <1>10 DEF ReadEnd, ReadError, Goto, peers, TypeOK
<1>11. CASE WriteLine
  BY <1>11 DEF WriteLine, peers, TypeOK
<1>12. CASE WriteFails
  BY <1>12 DEF WriteFails, peers, TypeOK
<1>13. CASE LogClient
  <2>1. rows' \in Seq(Row)
    BY <1>13, RowStep DEF LogClient
  <2>2. files' \in Seq(Seq(Item)) /\ files' # <<>>
    <3>1. files \in Seq(Seq(Item)) /\ files' = Append(files, <<>>)
      BY <1>13 DEF LogClient, TypeOK
    <3>2. <<>> \in Seq(Item)
      OBVIOUS
    <3>3. Append(files, <<>>) \in Seq(Seq(Item))
      BY <3>1, <3>2
    <3>4. Append(files, <<>>) # <<>>
      BY <3>1
    <3>5. QED
      BY <3>1, <3>3, <3>4
  <2>3. QED
    BY <1>13, <2>1, <2>2 DEF LogClient, Goto, peers, TypeOK
<1>14. CASE ReadPiece
  <2>1. pieceRead' \in Nat /\ Record("server", pieceRead') /\ files # <<>>
    BY <1>14 DEF ReadPiece, TypeOK
  <2>2. files' \in Seq(Seq(Item)) /\ files' # <<>>
    BY <2>1, RecordStep
  <2>3. toClient' \in Seq(Nat)
    <3>1. toClient' = Append(toClient, pieceRead') \/ toClient' = toClient
      BY <1>14 DEF ReadPiece
    <3>2. toClient \in Seq(Nat)
      BY DEF TypeOK
    <3>3. Append(toClient, pieceRead') \in Seq(Nat)
      BY <2>1, <3>2
    <3>4. QED
      BY <3>1, <3>2, <3>3
  <2>4. pieceRead' \in 0 .. pieces' /\ UNCHANGED <<peers, lineRead, toServer, requestWithBody, rows>>
    BY <1>14 DEF ReadPiece, peers, TypeOK
  <2>5. at = "response" /\ at' \in {"response", "done"}
    BY <1>14 DEF ReadPiece
  <2>6. QED
    BY <2>2, <2>3, <2>4, <2>5 DEF peers, TypeOK
<1>15. CASE ResponseEnds \/ ResponseError
  BY <1>15 DEF ResponseEnds, ResponseError, Goto, peers, TypeOK
<1>16. CASE LogServer
  <2>1. rows' \in Seq(Row)
    BY <1>16, RowStep DEF LogServer
  <2>2. QED
    BY <1>16, <2>1 DEF LogServer, peers, TypeOK
<1>17. CASE UNCHANGED vars
  BY <1>17 DEF vars, TypeOK
<1>18. QED
  BY <1>1, <1>2, <1>3, <1>4, <1>5, <1>6, <1>7, <1>8, <1>9, <1>10, <1>11, <1>12,
     <1>13, <1>14, <1>15, <1>16, <1>17 DEF Next, sslhandler_run, Errors

LEMMA AlwaysInv == Spec => []Inv
  BY InitInv, StepInv, PTL DEF Spec

\* The interceptor reads no line and no piece that was not sent, and holds a line
\* when it writes one (ssl_handler.c:298-351, 359-405).
THEOREM TypeCorrect == Spec => []TypeOK
<1>1. Inv => TypeOK
  BY DEF Inv
<1>2. QED
  BY AlwaysInv, <1>1, PTL

-----------------------------------------------------------------------------
LEMMA InitRelay == Init => Session!Init
  BY DEF Init, Session!Init, Connected

\* Each step of the interceptor is one of the relay or changes nothing of it.
LEMMA StepRelay == Inv /\ Inv' /\ [Next]_vars => [Session!Next]_(Session!vars)
<1> SUFFICES ASSUME Inv, Inv', [Next]_vars
             PROVE  Session!Next \/ UNCHANGED Session!vars
  OBVIOUS
<1> USE DEF Inv, Holding, Unconnected, Over, Connected
<1>1. CASE \/ Arrive \/ (\E kind \in Kinds : ClientSends(kind)) \/ ClientCloses
           \/ ServerSends \/ ServerCloses \/ UNCHANGED vars
  BY <1>1 DEF Arrive, ClientSends, ClientCloses, ServerSends, ServerCloses, vars, Session!vars
<1>2. CASE Accept
  BY <1>2 DEF Accept, Goto, peers, Session!vars
<1>3. CASE SetUp
  <2>1. CASE at = "sslconnect"
    <3>1. Session!Attach
      BY <1>3, <2>1 DEF SetUp, Goto, peers, Session!Attach
    <3>2. QED
      BY <3>1 DEF Session!Next
  <2>2. CASE at # "sslconnect"
    BY <1>3, <2>2 DEF SetUp, Goto, peers, Session!vars
  <2>3. QED
    BY <2>1, <2>2
<1>4. CASE SetUpFails \/ ReadEnd \/ ReadError \/ WriteFails \/ (LogServer /\ at' = "done")
  <2>1. Session!End
    BY <1>4 DEF SetUpFails, ReadEnd, ReadError, WriteFails, LogServer, Goto, peers, Session!End
  <2>2. QED
    BY <2>1 DEF Session!Next
<1>5. CASE ReadLine
  <2>1. files # <<>> /\ files' # <<>>
    BY <1>5 DEF ReadLine, Goto
  <2>2. Session!TakeFromClient
    BY <1>5, <2>1 DEF ReadLine, Goto, peers, Session!TakeFromClient
  <2>3. QED
    BY <2>2 DEF Session!Next
<1>6. CASE WriteLine
  <2>1. Session!PassToServer
    BY <1>6 DEF WriteLine, peers, Session!PassToServer, TypeOK
  <2>2. QED
    BY <2>1 DEF Session!Next
<1>7. CASE ReadPiece
  <2>1. files # <<>> /\ files' # <<>>
    <3>1. pieceRead' \in Nat /\ Record("server", pieceRead') /\ files # <<>>
      BY <1>7 DEF ReadPiece, TypeOK
    <3>2. QED
      BY <3>1, RecordStep
  <2>2. CASE toClient' = Append(toClient, pieceRead') /\ UNCHANGED at
    <3>1. at = "response" /\ at' = "response" /\ lineRead = Len(toServer)
      BY <1>7, <2>2 DEF ReadPiece
    <3>2. /\ pieceRead' = pieceRead + 1 /\ toClient' = Append(toClient, pieceRead')
          /\ UNCHANGED <<lineRead, toServer>>
      BY <1>7, <2>2 DEF ReadPiece
    <3>3. Session!PassToClient
      BY <2>1, <3>1, <3>2 DEF Session!PassToClient
    <3>4. QED
      BY <3>3 DEF Session!Next
  <2>3. CASE at' = "done" /\ UNCHANGED toClient
    <3>1. Session!End
      BY <1>7, <2>1, <2>3 DEF ReadPiece, peers, Session!End, TypeOK
    <3>2. QED
      BY <3>1 DEF Session!Next
  <2>4. QED
    BY <1>7, <2>2, <2>3 DEF ReadPiece
<1>8. CASE LogClient \/ ResponseEnds \/ ResponseError \/ (LogServer /\ at' # "done")
  BY <1>8 DEF LogClient, ResponseEnds, ResponseError, LogServer, Goto, peers, Session!vars
<1>9. QED
  BY <1>1, <1>2, <1>3, <1>4, <1>5, <1>6, <1>7, <1>8 DEF Next, sslhandler_run, Errors

\* Lines go to the service once and in their order, none before it is connected,
\* and answers come back in theirs: the interceptor may stand in the handler's
\* relay without changing what the relay promises (ssl_handler.c:298-405).
THEOREM RelayCorrect == Spec => IsRelay
  BY InitRelay, StepRelay, AlwaysInv, PTL DEF Spec, IsRelay, Session!SafetySpec

-----------------------------------------------------------------------------
\* The files

\* Which file is in use
InUse ==
    /\ at \in {"response", "logserver"} => Len(files) >= 2
    /\ ~requestWithBody =>
         /\ at \in {"line", "write", "logclient"} => Len(files) = 1
         /\ at \in {"response", "logserver"} => Len(files) = 2

\* A record is added behind the last file; everything else stays where it is.
LEMMA RecordPlaces ==
  ASSUME TypeOK, files # <<>>,
         NEW from \in {"client", "server"}, NEW n \in Nat, Record(from, n)
  PROVE  /\ DOMAIN files' = DOMAIN files /\ Len(files') = Len(files)
         /\ \A f \in DOMAIN files : \A i \in DOMAIN files[f] :
              i \in DOMAIN files'[f] /\ files'[f][i] = files[f][i]
         /\ \A f \in DOMAIN files : \A i \in DOMAIN files'[f] :
              \/ i \in DOMAIN files[f]
              \/ /\ f = Len(files) /\ i = Len(files[f]) + 1
                 /\ files'[f][i] = [from |-> from, n |-> n]
         /\ \E i \in DOMAIN files'[Len(files)] :
              files'[Len(files)][i] = [from |-> from, n |-> n]
<1> DEFINE last == Len(files)
<1> DEFINE item == [from |-> from, n |-> n]
<1>1. files \in Seq(Seq(Item)) /\ last \in 1 .. last /\ DOMAIN files = 1 .. last
  BY DEF TypeOK
<1>2. item \in Item
  BY DEF Item
<1>3. files[last] \in Seq(Item)
  BY <1>1
<1>4. files' = [files EXCEPT ![last] = Append(files[last], item)]
  BY DEF Record
<1> HIDE DEF last, item
<1>5. /\ DOMAIN files' = DOMAIN files
      /\ files'[last] = Append(files[last], item)
      /\ \A f \in DOMAIN files : f # last => files'[f] = files[f]
  BY <1>1, <1>4
<1>6. Len(files') = Len(files)
  BY <1>1, <1>4
<1>7. /\ DOMAIN files[last] = 1 .. Len(files[last]) /\ Len(files[last]) \in Nat
      /\ DOMAIN files'[last] = 1 .. Len(files[last]) + 1
      /\ \A i \in 1 .. Len(files[last]) : files'[last][i] = files[last][i]
      /\ files'[last][Len(files[last]) + 1] = item
  BY <1>2, <1>3, <1>5
<1>8. \A i \in 1 .. Len(files[last]) + 1 :
        i \in 1 .. Len(files[last]) \/ i = Len(files[last]) + 1
  BY <1>7
<1>9. \A i \in 1 .. Len(files[last]) : i \in 1 .. Len(files[last]) + 1
  BY <1>7
<1>10. Len(files[last]) + 1 \in 1 .. Len(files[last]) + 1
  BY <1>7
<1>11. \A f \in DOMAIN files : \A i \in DOMAIN files[f] :
         i \in DOMAIN files'[f] /\ files'[f][i] = files[f][i]
  BY <1>5, <1>7, <1>9, Zenon
<1>12. \A f \in DOMAIN files : \A i \in DOMAIN files'[f] :
         \/ i \in DOMAIN files[f]
         \/ f = last /\ i = Len(files[f]) + 1 /\ files'[f][i] = item
  BY <1>5, <1>7, <1>8, Zenon
<1>13. QED
  BY <1>5, <1>6, <1>7, <1>10, <1>11, <1>12, Zenon DEF last, item

\* What was read next is recorded behind everything of its side.
LEMMA RecordRight ==
  ASSUME TypeOK, FilesRight, files # <<>>,
         NEW from \in {"client", "server"}, NEW n \in Nat, Record(from, n),
         n = ReadOf(from) + 1, ReadOf(from)' = n,
         \A side \in {"client", "server"} : side # from => ReadOf(side)' = ReadOf(side),
         from = "client" => Len(files) = 1 \/ requestWithBody,
         from = "server" => Len(files) >= 2,
         rows' = rows, requestWithBody' = requestWithBody
  PROVE  FilesRight'
<1>1. /\ DOMAIN files' = DOMAIN files
      /\ \A f \in DOMAIN files : \A i \in DOMAIN files[f] :
           i \in DOMAIN files'[f] /\ files'[f][i] = files[f][i]
      /\ \A f \in DOMAIN files : \A i \in DOMAIN files'[f] :
           \/ i \in DOMAIN files[f]
           \/ /\ f = Len(files) /\ i = Len(files[f]) + 1
              /\ files'[f][i] = [from |-> from, n |-> n]
      /\ \E i \in DOMAIN files'[Len(files)] :
           files'[Len(files)][i] = [from |-> from, n |-> n]
  BY RecordPlaces
<1>2. /\ files \in Seq(Seq(Item)) /\ DOMAIN files = 1 .. Len(files)
      /\ Len(files) \in DOMAIN files
      /\ \A f \in DOMAIN files : /\ Len(files[f]) \in Nat
                                 /\ DOMAIN files[f] = 1 .. Len(files[f])
                                 /\ files[f] \in Seq(Item)
  BY DEF TypeOK
<1>3. \A side \in {"client", "server"} : ReadOf(side) \in Nat
  BY DEF TypeOK, ReadOf
<1>4. \A f \in DOMAIN files : \A i \in DOMAIN files[f] :
        /\ files[f][i].from \in {"client", "server"} /\ files[f][i].n \in Nat
        /\ files[f][i].n \in 1 .. ReadOf(files[f][i].from)
  <2> SUFFICES ASSUME NEW f \in DOMAIN files, NEW i \in DOMAIN files[f]
               PROVE  files[f][i].from \in {"client", "server"} /\ files[f][i].n \in Nat
    BY DEF FilesRight, Complete
  <2>1. files[f][i] \in Item
    BY <1>2
  <2>2. QED
    BY <2>1 DEF Item
<1>5. Complete'
  <2>1. ASSUME NEW side \in {"client", "server"}, NEW m \in 1 .. ReadOf(side)'
        PROVE  \E f \in DOMAIN files' : \E i \in DOMAIN files'[f] :
                 files'[f][i] = [from |-> side, n |-> m]
    <3>1. CASE side = from /\ m = n
      BY <1>1, <1>2, <3>1
    <3>2. CASE ~(side = from /\ m = n)
      <4>1. m \in 1 .. ReadOf(side)
        BY <1>3, <3>2
      <4>2. PICK f \in DOMAIN files : \E i \in DOMAIN files[f] :
              files[f][i] = [from |-> side, n |-> m]
        BY <4>1 DEF FilesRight, Complete
      <4>3. PICK i \in DOMAIN files[f] : files[f][i] = [from |-> side, n |-> m]
        BY <4>2
      <4>4. /\ f \in DOMAIN files' /\ i \in DOMAIN files'[f]
            /\ files'[f][i] = [from |-> side, n |-> m]
        <5>1. i \in DOMAIN files'[f] /\ files'[f][i] = files[f][i]
          BY <1>1, Zenon
        <5> QED BY <1>1, <4>3, <5>1, Zenon
      <4>5. QED
        BY <4>4
    <3>3. QED
      BY <3>1, <3>2
  <2>2. ASSUME NEW f \in DOMAIN files', NEW i \in DOMAIN files'[f]
        PROVE  files'[f][i].n \in 1 .. IF files'[f][i].from = "client" THEN lineRead'
                                       ELSE pieceRead'
    <3>1. CASE i \in DOMAIN files[f]
      <4>1. /\ files'[f][i] = files[f][i]
            /\ files[f][i].from \in {"client", "server"}
            /\ files[f][i].n \in 1 .. ReadOf(files[f][i].from)
        BY <1>1, <1>4, <3>1
      <4>2. \A side \in {"client", "server"} :
              1 .. ReadOf(side) \subseteq 1 .. ReadOf(side)'
        BY <1>3
      <4>3. QED
        BY <4>1, <4>2 DEF ReadOf
    <3>2. CASE files'[f][i] = [from |-> from, n |-> n]
      <4>1. files'[f][i].from = from /\ files'[f][i].n = n
        BY <3>2
      <4>2. n \in 1 .. n
        BY <1>3
      <4>3. QED
        BY <4>1, <4>2 DEF ReadOf
    <3>3. QED
      BY <1>1, <3>1, <3>2
  <2>3. QED
    BY <2>1, <2>2 DEF Complete, ReadOf
<1>6. InOrder'
  <2> SUFFICES ASSUME NEW f \in DOMAIN files, NEW g \in DOMAIN files,
                      NEW i \in DOMAIN files'[f], NEW j \in DOMAIN files'[g],
                      f < g \/ (f = g /\ i < j),
                      files'[f][i].from = files'[g][j].from
               PROVE  files'[f][i].n < files'[g][j].n
    BY <1>1, Zenon DEF InOrder
  <2>1. CASE i \in DOMAIN files[f] /\ j \in DOMAIN files[g]
    <3>1. files'[f][i] = files[f][i] /\ files'[g][j] = files[g][j]
      BY <1>1, <2>1
    <3>2. QED
      BY <2>1, <3>1, Zenon DEF FilesRight, InOrder
  <2>2. CASE i \in DOMAIN files[f] /\ j \notin DOMAIN files[g]
    <3>1. files'[f][i] = files[f][i] /\ files'[g][j] = [from |-> from, n |-> n]
      BY <1>1, <2>2, Zenon
    <3>2. files[f][i].from = from /\ files[f][i].n \in 1 .. ReadOf(from)
      BY <1>4, <2>2, <3>1
    <3>3. files'[f][i].n = files[f][i].n /\ files'[g][j].n = n
      BY <3>1
    <3>4. QED
      BY <1>3, <3>2, <3>3
  <2>3. CASE i \notin DOMAIN files[f]
    <3>1. f = Len(files) /\ i = Len(files[f]) + 1
      BY <1>1, <2>3, Zenon
    <3>2. f = g /\ i < j
      BY <1>2, <3>1
    <3>3. j \in DOMAIN files[f] \/ j = Len(files[f]) + 1
      BY <1>1, <3>2, Zenon
    <3>4. QED
      BY <1>2, <3>1, <3>2, <3>3
  <2>4. QED
    BY <2>1, <2>2, <2>3
<1>7. Apart'
  <2> SUFFICES ASSUME NEW f \in DOMAIN files, NEW i \in DOMAIN files'[f]
               PROVE  /\ f = 1 => files'[f][i].from = "client"
                      /\ f > 1 /\ ~requestWithBody => files'[f][i].from = "server"
    BY <1>1 DEF Apart
  <2>1. CASE i \in DOMAIN files[f]
    <3>1. files'[f][i] = files[f][i]
      BY <1>1, <2>1
    <3>2. QED
      BY <2>1, <3>1 DEF FilesRight, Apart
  <2>2. CASE i \notin DOMAIN files[f]
    <3>1. f = Len(files) /\ files'[f][i] = [from |-> from, n |-> n]
      BY <1>1, <2>2, Zenon
    <3>2. files'[f][i].from = from
      BY <3>1
    <3>3. QED
      BY <3>1, <3>2
  <2>3. QED
    BY <2>1, <2>2
<1>8. QED
  BY <1>5, <1>6, <1>7 DEF FilesRight

\* A new file is empty.
LEMMA NewFileRight ==
  ASSUME TypeOK, FilesRight, files' = Append(files, <<>>),
         UNCHANGED <<lineRead, pieceRead, requestWithBody>>
  PROVE  Complete' /\ InOrder' /\ Apart' /\ Len(files') = Len(files) + 1
<1>1. files \in Seq(Seq(Item)) /\ Len(files) \in Nat
  BY DEF TypeOK
<1>2. /\ DOMAIN files = 1 .. Len(files) /\ DOMAIN files' = 1 .. Len(files) + 1
      /\ \A f \in DOMAIN files : files'[f] = files[f]
      /\ files'[Len(files) + 1] = <<>> /\ Len(files') = Len(files) + 1
  BY <1>1
<1>3. /\ \A f \in DOMAIN files : f \in DOMAIN files'
      /\ \A f \in DOMAIN files' : f \in DOMAIN files \/ DOMAIN files'[f] = {}
  BY <1>2
<1>4. \A side \in {"client", "server"} : ReadOf(side)' = ReadOf(side)
  BY DEF ReadOf
<1>5. Complete'
  <2>1. ASSUME NEW side \in {"client", "server"}, NEW n \in 1 .. ReadOf(side)
        PROVE  \E f \in DOMAIN files' : \E i \in DOMAIN files'[f] :
                 files'[f][i] = [from |-> side, n |-> n]
    <3>1. PICK f \in DOMAIN files : \E i \in DOMAIN files[f] :
            files[f][i] = [from |-> side, n |-> n]
      BY DEF FilesRight, Complete
    <3>2. QED
      BY <1>2, <1>3, <3>1, Zenon
  <2>2. ASSUME NEW f \in DOMAIN files', NEW i \in DOMAIN files'[f]
        PROVE  files'[f][i].n \in 1 .. ReadOf(files'[f][i].from)
    BY <1>2, <1>3, Zenon DEF FilesRight, Complete
  <2>3. QED
    BY <2>1, <2>2, <1>4, ZenonT(40) DEF Complete, ReadOf
<1>6. \A f \in DOMAIN files' : \A i \in DOMAIN files'[f] :
        f \in DOMAIN files /\ i \in DOMAIN files[f] /\ files'[f][i] = files[f][i]
  <2> SUFFICES ASSUME NEW f \in DOMAIN files', NEW i \in DOMAIN files'[f]
               PROVE  f \in DOMAIN files
    BY <1>2
  <2>1. QED
    BY <1>3
<1>7. InOrder'
  <2> SUFFICES ASSUME NEW f \in DOMAIN files', NEW g \in DOMAIN files',
                      NEW i \in DOMAIN files'[f], NEW j \in DOMAIN files'[g],
                      f < g \/ (f = g /\ i < j),
                      files'[f][i].from = files'[g][j].from
               PROVE  files'[f][i].n < files'[g][j].n
    BY DEF InOrder
  <2>1. /\ f \in DOMAIN files /\ i \in DOMAIN files[f] /\ files'[f][i] = files[f][i]
        /\ g \in DOMAIN files /\ j \in DOMAIN files[g] /\ files'[g][j] = files[g][j]
    BY <1>6
  <2>2. QED
    BY <2>1, Zenon DEF FilesRight, InOrder
<1>8. Apart'
  <2> SUFFICES ASSUME NEW f \in DOMAIN files', NEW i \in DOMAIN files'[f]
               PROVE  /\ f = 1 => files'[f][i].from = "client"
                      /\ f > 1 /\ ~requestWithBody => files'[f][i].from = "server"
    BY DEF Apart
  <2>1. f \in DOMAIN files /\ i \in DOMAIN files[f] /\ files'[f][i] = files[f][i]
    BY <1>6
  <2>2. QED
    BY <2>1 DEF FilesRight, Apart
<1>9. QED
  BY <1>2, <1>5, <1>7, <1>8

\* A row names the file in use.
LEMMA RowRight ==
  ASSUME TypeOK, FilesRight, requestWithBody' = requestWithBody,
         NEW type \in {"client", "server"},
         rows' \in {rows, Append(rows, [file |-> Len(files), type |-> type])},
         ~requestWithBody => Len(files) = IF type = "client" THEN 1 ELSE 2
  PROVE  ~requestWithBody' =>
           \A i \in DOMAIN rows' : rows'[i].file = IF rows'[i].type = "client" THEN 1 ELSE 2
<1> SUFFICES ASSUME ~requestWithBody, NEW i \in DOMAIN rows'
             PROVE  rows'[i].file = IF rows'[i].type = "client" THEN 1 ELSE 2
  OBVIOUS
<1>1. rows \in Seq(Row)
  BY DEF TypeOK
<1>2. CASE i \in DOMAIN rows
  <2>1. rows'[i] = rows[i]
    BY <1>1, <1>2
  <2>2. QED
    BY <1>2, <2>1 DEF FilesRight
<1>3. CASE i \notin DOMAIN rows
  <2>1. rows'[i] = [file |-> Len(files), type |-> type]
    BY <1>1, <1>3
  <2>2. QED
    BY <2>1
<1>4. QED
  BY <1>2, <1>3

LEMMA InitFiles == Init => InUse /\ FilesRight
<1> SUFFICES ASSUME Init PROVE InUse /\ FilesRight
  OBVIOUS
<1>1. /\ files = <<>> /\ rows = <<>> /\ lineRead = 0 /\ pieceRead = 0
      /\ DOMAIN files = {} /\ DOMAIN rows = {} /\ at = "accept"
  BY DEF Init
<1>2. QED
  BY <1>1 DEF InUse, FilesRight, Complete, InOrder, Apart, ReadOf

\* Every step keeps the files right.
LEMMA StepFiles == Inv /\ Inv' /\ InUse /\ FilesRight /\ [Next]_vars => InUse' /\ FilesRight'
<1> SUFFICES ASSUME Inv, Inv', InUse, FilesRight, [Next]_vars PROVE InUse' /\ FilesRight'
  OBVIOUS
<1>0. TypeOK /\ Len(files) \in Nat
  BY DEF Inv, TypeOK
<1>1. ASSUME UNCHANGED <<files, rows, lineRead, pieceRead, requestWithBody>>
      PROVE  FilesRight'
  BY <1>1 DEF FilesRight, Complete, InOrder, Apart, ReadOf
<1>2. CASE \/ Arrive \/ (\E kind \in Kinds : ClientSends(kind)) \/ ClientCloses
           \/ ServerSends \/ ServerCloses \/ UNCHANGED vars
  BY <1>1, <1>2 DEF Arrive, ClientSends, ClientCloses, ServerSends, ServerCloses, vars, InUse
<1>3. CASE Accept \/ SetUpFails \/ ReadEnd \/ ReadError \/ WriteFails
  BY <1>1, <1>3 DEF Accept, SetUpFails, ReadEnd, ReadError, WriteFails, Goto, peers, InUse
<1>4. CASE SetUp
  <2>1. CASE at = "sslconnect"
    <3>1. /\ files = <<>> /\ files' = Append(files, <<>>) /\ at' = "line"
          /\ UNCHANGED <<lineRead, pieceRead, requestWithBody, rows>>
      BY <1>4, <2>1 DEF SetUp, Goto, peers, Inv, Holding, Unconnected, Over
    <3>2. Complete' /\ InOrder' /\ Apart' /\ Len(files') = Len(files) + 1
      BY <1>0, <3>1, NewFileRight
    <3>3. Len(files) = 0
      BY <3>1
    <3>4. FilesRight'
      BY <3>1, <3>2 DEF FilesRight
    <3>5. InUse'
      BY <3>1, <3>2, <3>3 DEF InUse
    <3>6. QED
      BY <3>4, <3>5
  <2>2. CASE at # "sslconnect"
    BY <1>1, <1>4, <2>2 DEF SetUp, Goto, peers, InUse
  <2>3. QED
    BY <2>1, <2>2
<1>5. CASE ReadLine
  <2>1. /\ Record("client", lineRead') /\ lineRead' = lineRead + 1 /\ lineRead \in Nat
        /\ at = "line" /\ at' = "write" /\ files # <<>>
        /\ UNCHANGED <<pieceRead, requestWithBody, rows>>
    BY <1>5 DEF ReadLine, Goto, peers, Inv, TypeOK, Holding, Unconnected, Over
  <2>2. /\ lineRead' = ReadOf("client") + 1 /\ ReadOf("client")' = lineRead'
        /\ \A side \in {"client", "server"} : side # "client" => ReadOf(side)' = ReadOf(side)
        /\ lineRead' \in Nat
    BY <2>1 DEF ReadOf
  <2>3. Len(files) = 1 \/ requestWithBody
    BY <2>1 DEF InUse
  <2>4. FilesRight'
    BY <1>0, <2>1, <2>2, <2>3, RecordRight
  <2>5. Len(files') = Len(files)
    BY <1>0, <2>1, <2>2, RecordPlaces
  <2>6. QED
    BY <2>1, <2>4, <2>5 DEF InUse
<1>6. CASE WriteLine
  <2>1. /\ at = "write" /\ at' \in {"line", "logclient"}
        /\ requestWithBody' = (requestWithBody \/ lines[lineRead] = "length")
        /\ UNCHANGED <<files, rows, lineRead, pieceRead>>
    BY <1>6 DEF WriteLine, peers
  <2>2. ~requestWithBody' => ~requestWithBody
    BY <2>1
  <2>3. FilesRight'
    BY <2>1, <2>2 DEF FilesRight, Complete, InOrder, Apart, ReadOf
  <2>4. InUse'
    BY <2>1, <2>2 DEF InUse
  <2>5. QED
    BY <2>3, <2>4
<1>7. CASE LogClient
  <2>1. /\ at = "logclient" /\ at' = "response" /\ files' = Append(files, <<>>)
        /\ UNCHANGED <<lineRead, pieceRead, requestWithBody>>
        /\ rows' \in {rows, Append(rows, [file |-> Len(files), type |-> "client"])}
        /\ files # <<>>
    BY <1>7 DEF LogClient, Goto, Inv, Holding, Unconnected, Over
  <2>2. ~requestWithBody => Len(files) = 1
    BY <2>1 DEF InUse
  <2>3. Complete' /\ InOrder' /\ Apart' /\ Len(files') = Len(files) + 1
    BY <1>0, <2>1, NewFileRight
  <2>4. ~requestWithBody' =>
          \A i \in DOMAIN rows' : rows'[i].file = IF rows'[i].type = "client" THEN 1 ELSE 2
    BY <1>0, <2>1, <2>2, RowRight
  <2>5. FilesRight'
    BY <2>3, <2>4 DEF FilesRight
  <2>6. Len(files) >= 1
    BY <1>0, <2>1 DEF TypeOK
  <2>7. Len(files') >= 2 /\ (~requestWithBody => Len(files') = 2)
    <3>1. Len(files') = Len(files) + 1
      BY <2>3, Zenon
    <3>2. Len(files') >= 2
      BY <1>0, <2>6, <3>1
    <3>3. Len(files) = 1 => Len(files') = 2
      BY <3>1
    <3>4. QED
      BY <2>2, <3>2, <3>3, Zenon
  <2>8. InUse'
    BY <2>1, <2>7 DEF InUse
  <2>9. QED
    BY <2>5, <2>8
<1>8. CASE ReadPiece
  <2>1. /\ Record("server", pieceRead') /\ pieceRead' = pieceRead + 1 /\ pieceRead \in Nat
        /\ at = "response" /\ at' \in {at, "done"} /\ files # <<>>
        /\ UNCHANGED <<lineRead, requestWithBody, rows>>
    BY <1>8 DEF ReadPiece, peers, Inv, TypeOK, Holding, Unconnected, Over
  <2>2. /\ pieceRead' = ReadOf("server") + 1 /\ ReadOf("server")' = pieceRead'
        /\ \A side \in {"client", "server"} : side # "server" => ReadOf(side)' = ReadOf(side)
        /\ pieceRead' \in Nat
    BY <2>1 DEF ReadOf
  <2>3. Len(files) >= 2
    BY <2>1 DEF InUse
  <2>4. FilesRight'
    BY <1>0, <2>1, <2>2, <2>3, RecordRight
  <2>5. Len(files') = Len(files)
    BY <1>0, <2>1, <2>2, RecordPlaces
  <2>6. QED
    BY <2>1, <2>4, <2>5 DEF InUse
<1>9. CASE ResponseEnds \/ ResponseError
  BY <1>1, <1>9 DEF ResponseEnds, ResponseError, Goto, peers, InUse
<1>10. CASE LogServer
  <2>1. /\ at = "logserver" /\ at' = (IF requestWithBody THEN "line" ELSE "done")
        /\ UNCHANGED <<files, lineRead, pieceRead, requestWithBody>>
        /\ rows' \in {rows, Append(rows, [file |-> Len(files), type |-> "server"])}
    BY <1>10 DEF LogServer
  <2>2. ~requestWithBody => Len(files) = 2
    BY <2>1 DEF InUse
  <2>3. ~requestWithBody' =>
          \A i \in DOMAIN rows' : rows'[i].file = IF rows'[i].type = "client" THEN 1 ELSE 2
    BY <1>0, <2>1, <2>2, RowRight
  <2>4. FilesRight'
    BY <2>1, <2>3 DEF FilesRight, Complete, InOrder, Apart, ReadOf
  <2>5. InUse'
    BY <2>1 DEF InUse
  <2>6. QED
    BY <2>4, <2>5
<1>11. QED
  BY <1>2, <1>3, <1>4, <1>5, <1>6, <1>7, <1>8, <1>9, <1>10 DEF Next, sslhandler_run, Errors

\* Everything the interceptor reads is in one of its files, once and in its order, and
\* files and rows are those of the direction they are named for, up to the body of a
\* request, for any number of lines and pieces (ssl_handler.c:302-365).
THEOREM FilesAreRight == Spec => []FilesRight
  BY InitFiles, StepFiles, AlwaysInv, PTL DEF Spec
=============================================================================
