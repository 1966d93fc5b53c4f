-------------------------- MODULE DnsResolverProofs ---------------------------
(***************************************************************************)
(* The DNS worker answers and logs rightly, for any number of datagrams    *)
(* and clients.  The strengthening says that datagrams are numbered as     *)
(* they leave the socket, that the buffer holds the datagram under way if  *)
(* that was a whole message, and that an answer not logged yet is the last *)
(* one and belongs to that datagram.                                       *)
(***************************************************************************)
EXTENDS DnsResolver, TLAPS

Taken == sent - Len(queue)

\* The socket keeps the order in which datagrams were sent.
Queued ==
    /\ Len(queue) <= sent
    /\ \A i \in 1 .. Len(queue) : queue[i].n = Taken + i

\* The datagram under way is the last one taken, and what is in the buffer.
Asked ==
    /\ asking # <<>> =>
         /\ asking[1].n = Taken
         /\ asking[1].size \in Whole =>
              buffer.query = asking[1].query /\ buffer.name = asking[1].name
    /\ at = "answer" => buffer.query

\* Nothing not yet taken is answered, nor is the datagram under way before its time.
Answering ==
    \A i \in 1 .. Len(answers) :
      /\ answers[i].to.n <= Taken
      /\ at \in {"parse", "answer"} => answers[i].to.n < Taken

\* The answer that is to be logged
Logging ==
    at = "log" =>
      /\ LET a == answers[Len(answers)] IN
           /\ a.client = asking[1].client
           /\ a.name = buffer.name
           /\ a.address = IF found THEN "real" ELSE "fake"
      /\ \A r \in rows : r.answer # Len(answers)

Inv == TypeOK /\ Queued /\ Asked /\ Answering /\ Logging /\ AnswersRight /\ RowsRight

LEMMA InitInv == Init => Inv
<1> SUFFICES ASSUME Init PROVE Inv
  OBVIOUS
<1>1. TypeOK
  <2>1. queue \in Seq(Datagram) /\ asking \in Seq(Datagram) /\ answers \in Seq(Answer)
    BY DEF Init
  <2>2. sent \in 0 .. MaxDatagrams /\ Len(asking) <= 1
    BY DnsAssumption DEF Init
  <2>3. buffer \in [query : BOOLEAN, name : AllNames]
    BY DEF Init, AllNames
  <2>4. QED
    BY <2>1, <2>2, <2>3 DEF Init, TypeOK
<1>2. Queued /\ Asked /\ Answering /\ Logging
  BY DEF Init, Queued, Asked, Answering, Logging, Taken
<1>3. AnswersRight /\ RowsRight
  BY DEF Init, AnswersRight, RowsRight
<1>4. QED
  BY <1>1, <1>2, <1>3 DEF Inv

-----------------------------------------------------------------------------
\* A datagram joins the end of the queue with the next number.
LEMMA SendInv ==
  ASSUME Inv, NEW c \in Clients, NEW size \in Sizes,
         NEW query \in BOOLEAN, NEW name \in AllNames, Send(c, size, query, name)
  PROVE  Inv'
<1> DEFINE d == [n |-> sent + 1, client |-> c, size |-> size, query |-> query, name |-> name]
<1>1. sent \in 0 .. MaxDatagrams /\ sent < MaxDatagrams /\ MaxDatagrams \in Nat
  BY DnsAssumption DEF Inv, TypeOK, Send
<1>2. d \in Datagram /\ d.n = sent + 1
  BY <1>1 DEF Datagram
<1>3. queue' = Append(queue, d) /\ sent' = sent + 1 /\ queue \in Seq(Datagram)
  BY DEF Inv, TypeOK, Send
<1> HIDE DEF d
<1>4. queue' \in Seq(Datagram) /\ Len(queue') = Len(queue) + 1
  BY <1>2, <1>3
<1>5. Taken' = Taken
  BY <1>1, <1>3, <1>4 DEF Taken
<1>6. Queued'
  <2>1. \A i \in 1 .. Len(queue) : queue'[i] = queue[i]
    BY <1>3
  <2>2. queue'[Len(queue) + 1] = d
    BY <1>3
  <2>3. Len(queue) <= sent /\ Len(queue) \in Nat
    BY <1>3 DEF Inv, Queued
  <2>4. ASSUME NEW i \in 1 .. Len(queue') PROVE queue'[i].n = Taken' + i
    <3>1. CASE i = Len(queue) + 1
      BY <1>1, <1>2, <1>5, <2>2, <2>3, <3>1 DEF Taken
    <3>2. CASE i # Len(queue) + 1
      <4>1. i \in 1 .. Len(queue)
        BY <1>4, <2>3, <3>2
      <4>2. QED
        BY <1>5, <2>1, <4>1 DEF Inv, Queued
    <3>3. QED
      BY <3>1, <3>2
  <2>5. Len(queue') <= sent'
    BY <1>1, <1>3, <1>4, <2>3
  <2>6. QED
    BY <2>4, <2>5 DEF Queued
<1>7. UNCHANGED <<at, buffer, asking, found, answers, rows>>
  BY DEF Send
<1>8. TypeOK'
  BY <1>1, <1>3, <1>4, <1>7 DEF Inv, TypeOK
<1>9. QED
  BY <1>5, <1>6, <1>7, <1>8 DEF Inv, Asked, Answering, Logging, AnswersRight, RowsRight

\* The buffer can only be what Overlay leaves of it.
LEMMA OverlayType ==
  ASSUME TypeOK, NEW d \in Datagram, NEW b \in Overlay(d)
  PROVE  /\ b \in [query : BOOLEAN, name : AllNames]
         /\ d.size \in Whole => b.query = d.query /\ b.name = d.name
<1>1. d.size \in Sizes /\ d.query \in BOOLEAN /\ d.name \in AllNames
  BY DEF Datagram
<1>2. buffer.query \in BOOLEAN /\ buffer.name \in AllNames /\ Garbage \in AllNames
  BY DEF TypeOK, AllNames
<1>3. CASE d.size \in Whole
  BY <1>1, <1>3 DEF Overlay, Whole
<1>4. CASE d.size = "stump"
  BY <1>1, <1>2, <1>4 DEF Overlay, Whole
<1>5. CASE d.size = "short"
  BY <1>1, <1>2, <1>5 DEF Overlay, Whole
<1>6. QED
  BY <1>1, <1>3, <1>4, <1>5 DEF Sizes

LEMMA ReceiveInv == ASSUME Inv, Receive PROVE Inv'
<1> DEFINE d == Head(queue)
<1>1. /\ queue \in Seq(Datagram) /\ queue # <<>> /\ sent \in Nat
      /\ queue' = Tail(queue) /\ asking' = <<d>> /\ buffer' \in Overlay(d)
      /\ at = "select" /\ at' = "parse"
      /\ UNCHANGED <<sent, found, answers, rows>>
  BY DEF Inv, TypeOK, Receive
<1>2. /\ d \in Datagram /\ d = queue[1] /\ Len(queue) \in Nat \ {0}
      /\ queue' \in Seq(Datagram) /\ Len(queue') = Len(queue) - 1
      /\ \A i \in 1 .. Len(queue') : queue'[i] = queue[i + 1]
  BY <1>1
<1>3. d.n = Taken + 1 /\ Taken \in Nat
  BY <1>1, <1>2 DEF Inv, Queued, Taken
<1>4. /\ buffer' \in [query : BOOLEAN, name : AllNames]
      /\ d.size \in Whole => buffer'.query = d.query /\ buffer'.name = d.name
  BY <1>1, <1>2, OverlayType DEF Inv
<1> HIDE DEF d
<1>5. Taken' = Taken + 1
  BY <1>1, <1>2 DEF Taken
<1>6. Queued'
  BY <1>1, <1>2, <1>5 DEF Inv, Queued, Taken
<1>7. asking' \in Seq(Datagram) /\ Len(asking') = 1 /\ asking'[1] = d
  BY <1>1, <1>2
<1>8. Asked'
  BY <1>1, <1>3, <1>4, <1>5, <1>7 DEF Asked
<1>9. Answering'
  <2>1. \A i \in 1 .. Len(answers) : answers[i].to.n \in Nat /\ answers[i].to.n <= Taken
    <3>1. ASSUME NEW i \in 1 .. Len(answers) PROVE answers[i] \in Answer
      BY DEF Inv, TypeOK
    <3>2. QED
      BY <3>1 DEF Inv, Answering, Answer, Datagram
  <2>2. QED
    BY <1>1, <1>3, <1>5, <2>1 DEF Answering
<1>10. TypeOK'
  BY <1>1, <1>2, <1>4, <1>7 DEF Inv, TypeOK
<1>11. Logging' /\ AnswersRight' /\ RowsRight'
  BY <1>1 DEF Inv, Logging, AnswersRight, RowsRight
<1>12. QED
  BY <1>6, <1>8, <1>9, <1>10, <1>11 DEF Inv

\* The answer joins the others behind all those to earlier datagrams.
LEMMA RespondInv == ASSUME Inv, Respond PROVE Inv'
<1> DEFINE a == [to |-> asking[1], client |-> asking[1].client, name |-> buffer.name,
                 address |-> IF found THEN "real" ELSE "fake"]
<1>1. /\ at = "answer" /\ at' = "log" /\ asking[1].size # "short"
      /\ answers' = Append(answers, a)
      /\ UNCHANGED <<queue, sent, buffer, asking, found, rows>>
  BY DEF Respond
<1>2. /\ asking \in Seq(Datagram) /\ asking # <<>> /\ asking[1] \in Datagram
      /\ buffer.name \in AllNames /\ answers \in Seq(Answer)
  BY <1>1 DEF Inv, TypeOK
<1>3. asking[1].client \in Clients /\ asking[1].n \in Nat
  BY <1>2 DEF Datagram
<1>4. /\ a \in Answer /\ a.to = asking[1] /\ a.client = asking[1].client
      /\ a.name = buffer.name /\ a.address = IF found THEN "real" ELSE "fake"
  BY <1>2, <1>3 DEF Answer
<1>5. /\ asking[1].n = Taken
      /\ asking[1].size \in Whole => asking[1].query /\ buffer.name = asking[1].name
  BY <1>1, <1>2 DEF Inv, Asked
<1> HIDE DEF a
<1>6. /\ answers' \in Seq(Answer) /\ Len(answers') = Len(answers) + 1
      /\ answers'[Len(answers')] = a
      /\ \A i \in 1 .. Len(answers) : answers'[i] = answers[i]
      /\ Len(answers) \in Nat
  BY <1>1, <1>2, <1>4
<1>7. \A i \in 1 .. Len(answers) : answers[i].to.n < Taken
  BY <1>1 DEF Inv, Answering
<1>8. Taken' = Taken
  BY <1>1 DEF Taken
<1>9. TypeOK'
  BY <1>1, <1>2, <1>6 DEF Inv, TypeOK
<1>10. Answering'
  BY <1>1, <1>3, <1>4, <1>5, <1>6, <1>7, <1>8 DEF Answering, Inv
<1>11. AnswersRight'
  <2>1. \A i \in 1 .. Len(answers') :
          /\ answers'[i].client = answers'[i].to.client
          /\ answers'[i].to.size \in Whole =>
               answers'[i].to.query /\ answers'[i].name = answers'[i].to.name
          /\ answers'[i].to.size # "short"
    BY <1>1, <1>4, <1>5, <1>6 DEF Inv, AnswersRight
  <2>2. \A i, j \in 1 .. Len(answers') : i < j => answers'[i].to.n < answers'[j].to.n
    <3>1. \A i, j \in 1 .. Len(answers) : i < j => answers[i].to.n < answers[j].to.n
      BY <1>2 DEF Inv, AnswersRight
    <3>2. SUFFICES ASSUME NEW i \in 1 .. Len(answers'), NEW j \in 1 .. Len(answers'), i < j
                   PROVE  answers'[i].to.n < answers'[j].to.n
      OBVIOUS
    <3>3. i \in 1 .. Len(answers)
      BY <1>6, <3>2
    <3>4. CASE j \in 1 .. Len(answers)
      BY <1>6, <3>1, <3>2, <3>3, <3>4
    <3>5. CASE j = Len(answers')
      BY <1>4, <1>5, <1>6, <1>7, <3>3, <3>5
    <3>6. QED
      BY <1>6, <3>4, <3>5
  <2>3. QED
    BY <1>6, <2>1, <2>2 DEF AnswersRight
<1>12. \A r \in rows : r.answer \in 1 .. Len(answers)
  BY <1>2 DEF Inv, RowsRight
<1>13. RowsRight'
  BY <1>1, <1>6, <1>12 DEF Inv, RowsRight
<1>14. Logging'
  BY <1>1, <1>4, <1>6, <1>12 DEF Logging
<1>15. Queued' /\ Asked'
  BY <1>1, <1>8 DEF Inv, Queued, Asked
<1>16. QED
  BY <1>9, <1>10, <1>11, <1>13, <1>14, <1>15 DEF Inv

\* The row written belongs to the last answer, which had none.
LEMMA LogInv == ASSUME Inv, Log PROVE Inv'
<1> DEFINE r == [answer |-> Len(answers), client |-> asking[1].client,
                 orig_ServerIP |-> IF found THEN "real" ELSE "fake",
                 ServerIP |-> IF found THEN "real" ELSE "0.0.0.0", name |-> buffer.name]
<1>1. /\ at = "log" /\ at' = "select" /\ rows' = rows \cup {r}
      /\ UNCHANGED <<queue, sent, buffer, asking, found, answers>>
  BY DEF Log
<1>2. /\ asking \in Seq(Datagram) /\ asking # <<>> /\ asking[1] \in Datagram
      /\ buffer.name \in AllNames /\ answers \in Seq(Answer) /\ answers # <<>>
      /\ rows \in SUBSET Row /\ Len(answers) \in Nat \ {0}
  BY <1>1 DEF Inv, TypeOK
<1>3. r \in Row
  BY <1>2 DEF Row, Datagram
<1>4. /\ r.answer = Len(answers) /\ r.client = asking[1].client /\ r.name = buffer.name
      /\ r.orig_ServerIP = IF found THEN "real" ELSE "fake"
      /\ r.ServerIP = IF found THEN "real" ELSE "0.0.0.0"
  OBVIOUS
<1> HIDE DEF r
<1>5. TypeOK'
  BY <1>1, <1>2, <1>3 DEF Inv, TypeOK
<1>6. RowsRight'
  <2>1. r.answer \in DOMAIN answers
    BY <1>2, <1>4
  <2>2. \A q \in rows : q.answer # r.answer
    BY <1>1, <1>4 DEF Inv, Logging
  <2>3. <<r.client, r.orig_ServerIP, r.name>>
          = <<answers[r.answer].client, answers[r.answer].address, answers[r.answer].name>>
    BY <1>1, <1>4 DEF Inv, Logging
  <2>4. r.ServerIP = "0.0.0.0" <=> r.orig_ServerIP = "fake"
    BY <1>4
  <2>5. QED
    BY <1>1, <2>1, <2>2, <2>3, <2>4 DEF Inv, RowsRight
<1>7. Answering'
  BY <1>1 DEF Inv, Answering, Taken
<1>8. Queued' /\ Asked' /\ Logging' /\ AnswersRight'
  BY <1>1 DEF Inv, Queued, Asked, Logging, AnswersRight, Taken
<1>9. QED
  BY <1>5, <1>6, <1>7, <1>8 DEF Inv

LEMMA StepInv == Inv /\ [Next]_vars => Inv'
<1> SUFFICES ASSUME Inv, [Next]_vars PROVE Inv'
  OBVIOUS
<1>1. ASSUME NEW c \in Clients, NEW size \in Sizes,
             NEW query \in BOOLEAN, NEW name \in AllNames, Send(c, size, query, name)
      PROVE  Inv'
  BY <1>1, SendInv
<1>2. CASE Receive \/ Respond \/ Log
  BY <1>2, ReceiveInv, RespondInv, LogInv
<1>3. CASE Ignore \/ ParseCrashes \/ AnswerCrashes \/ LogFails \/ Stop \/ UNCHANGED vars
  <2>1. /\ UNCHANGED <<queue, sent, buffer, asking, found, answers, rows>>
        /\ at' \in {at, "select", "crashed", "ended"}
    BY <1>3 DEF Ignore, ParseCrashes, AnswerCrashes, LogFails, Stop, vars
  <2>2. TypeOK'
    BY <2>1 DEF Inv, TypeOK
  <2>3. QED
    BY <2>1, <2>2 DEF Inv, Queued, Asked, Answering, Logging, AnswersRight, RowsRight, Taken
<1>4. CASE Resolve
  <2>1. /\ UNCHANGED <<queue, sent, buffer, asking, answers, rows>>
        /\ at = "parse" /\ at' = "answer" /\ buffer.query /\ found' \in BOOLEAN
    BY <1>4 DEF Resolve
  <2>2. TypeOK'
    BY <2>1 DEF Inv, TypeOK
  <2>3. QED
    BY <2>1, <2>2 DEF Inv, Queued, Asked, Answering, Logging, AnswersRight, RowsRight, Taken
<1>5. QED
  BY <1>1, <1>2, <1>3, <1>4 DEF Next, dns_worker

-----------------------------------------------------------------------------
LEMMA AlwaysInv == Spec => []Inv
  BY InitInv, StepInv, PTL DEF Spec

\* The worker handles datagrams one at a time and answers only what it holds.
THEOREM TypeCorrect == Spec => []TypeOK
<1>1. Inv => TypeOK
  BY DEF Inv
<1>2. QED
  BY AlwaysInv, <1>1, PTL

\* Whoever sends a whole message is answered for its own name, once and in turn,
\* although the buffer is never cleared (dns_resolver.c:121-174).
THEOREM AnswersAreRight == Spec => []AnswersRight
<1>1. Inv => AnswersRight
  BY DEF Inv
<1>2. QED
  BY AlwaysInv, <1>1, PTL

\* Every row tells of one answer what was answered (dns_resolver.c:167-185).
THEOREM RowsAreRight == Spec => []RowsRight
<1>1. Inv => RowsRight
  BY DEF Inv
<1>2. QED
  BY AlwaysInv, <1>1, PTL
=============================================================================
