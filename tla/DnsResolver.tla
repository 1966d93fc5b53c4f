----------------------------- MODULE DnsResolver ------------------------------
(***************************************************************************)
(* The DNS worker (dns_resolver.c): one process that takes one datagram    *)
(* after the other, waits for gethostbyname() and answers with the address *)
(* it got or the fake one.  All datagrams are received into one buffer     *)
(* that is never cleared, and the length is tested without consequence:    *)
(* what a datagram does not overwrite is read from its predecessor.        *)
(*                                                                         *)
(* A "full" datagram is a well-formed message and a "long" one as well,    *)
(* but so long that it does not fit into the answer; a "stump" ends behind *)
(* the header of 12 bytes, a "short" one within it.  Only the opcode, the  *)
(* first name and the length matter.                                       *)
(***************************************************************************)
EXTENDS Integers, Sequences

CONSTANTS Clients,      \* who asks
          Names,        \* domain names
          Garbage,      \* what is not a name anybody asked for
          MaxDatagrams  \* bound of the model on the datagrams that are sent

ASSUME DnsAssumption == Garbage \notin Names /\ MaxDatagrams \in Nat

VARIABLES queue,       \* datagrams in the socket
          sent,        \* datagrams so far
          at,          \* where the worker is
          buffer,      \* request: its opcode and its name
          asking,      \* cliaddr and r: the datagram under way
          found,       \* hent # NULL
          answers,     \* answers sent
          rows         \* rows of DNS_LOGS, with the answer they belong to

vars == <<queue, sent, at, buffer, asking, found, answers, rows>>

AllNames == Names \cup {Garbage}
Whole == {"full", "long"}
Sizes == Whole \cup {"stump", "short"}
Datagram == [n : Nat, client : Clients, size : Sizes, query : BOOLEAN, name : AllNames]
Answer == [to : Datagram, client : Clients, name : AllNames, address : {"real", "fake"}]
Row == [answer : Nat, client : Clients, orig_ServerIP : {"real", "fake"},
        ServerIP : {"real", "0.0.0.0"}, name : AllNames]

TypeOK ==
    /\ queue \in Seq(Datagram)
    /\ sent \in 0 .. MaxDatagrams
    /\ at \in {"select", "parse", "answer", "log", "crashed", "ended"}
    /\ buffer \in [query : BOOLEAN, name : AllNames]
    /\ asking \in Seq(Datagram) /\ Len(asking) <= 1
    /\ at \in {"parse", "answer", "log"} => asking # <<>>
    /\ found \in BOOLEAN
    /\ answers \in Seq(Answer)
    /\ rows \in SUBSET Row
    /\ at = "log" => answers # <<>>

Gone == at \in {"crashed", "ended"}

\* The buffer is on the stack.
Init ==
    /\ queue = <<>> /\ sent = 0
    /\ at = "select"
    /\ buffer \in [query : BOOLEAN, name : {Garbage}]
    /\ asking = <<>>
    /\ found = FALSE
    /\ answers = <<>> /\ rows = {}

\* A client sends; only a whole message has a name that counts.
Send(c, size, query, name) ==
    /\ sent < MaxDatagrams
    /\ name = Garbage <=> ~(size \in Whole /\ query)
    /\ sent' = sent + 1
    /\ queue' = Append(queue, [n |-> sent + 1, client |-> c, size |-> size,
                               query |-> query, name |-> name])
    /\ UNCHANGED <<at, buffer, asking, found, answers, rows>>

\* What the buffer may hold when datagram d was written over its beginning
Overlay(d) ==
    CASE d.size \in Whole -> {[query |-> d.query, name |-> d.name]}
      [] d.size = "stump" -> {[query |-> d.query, name |-> m] : m \in {buffer.name, Garbage}}
      [] d.size = "short" -> {[query |-> q, name |-> buffer.name] : q \in {buffer.query, d.query}}

Receive ==
    /\ at = "select"
    /\ queue # <<>>
    /\ asking' = <<Head(queue)>>
    /\ buffer' \in Overlay(Head(queue))
    /\ queue' = Tail(queue)
    /\ at' = "parse"
    /\ UNCHANGED <<sent, found, answers, rows>>

\* Fault: a message that is not a query is waited for again
Ignore_Rereads ==
    /\ at = "parse"
    /\ ~buffer.query
    /\ UNCHANGED vars

\* "Unknown DNS request"
Ignore ==
    /\ at = "parse"
    /\ ~buffer.query
    /\ at' = "select"
    /\ UNCHANGED <<queue, sent, buffer, asking, found, answers, rows>>

\* Lengths of labels that nobody sent as such lead anywhere.
ParseCrashes ==
    /\ at = "parse"
    /\ buffer.query
    /\ buffer.name = Garbage
    /\ at' = "crashed"
    /\ UNCHANGED <<queue, sent, buffer, asking, found, answers, rows>>

\* gethostbyname() returns.
Resolve ==
    /\ at = "parse"
    /\ buffer.query
    /\ found' \in BOOLEAN
    /\ at' = "answer"
    /\ UNCHANGED <<queue, sent, buffer, asking, answers, rows>>

\* Less than a header: r - 12 is negative and taken for a length.  More than 984
\* bytes: the answer is 16 bytes longer and runs over the end of response, which
\* may go unnoticed.
AnswerCrashes ==
    /\ at = "answer"
    /\ asking[1].size \in {"short", "long"}
    /\ at' = "crashed"
    /\ UNCHANGED <<queue, sent, buffer, asking, found, answers, rows>>

\* Fault: the answer is for the next one who asks
Respond_Late ==
    /\ at = "answer"
    /\ asking[1].size # "short"
    /\ answers' = Append(answers,
         [to |-> asking[1],
          client |-> IF queue = <<>> THEN asking[1].client ELSE Head(queue).client,
          name |-> buffer.name, address |-> IF found THEN "real" ELSE "fake"])
    /\ at' = "log"
    /\ UNCHANGED <<queue, sent, buffer, asking, found, rows>>

\* Fault: the fake address is not sent, although it is logged
Respond_RealOnly ==
    /\ at = "answer"
    /\ asking[1].size # "short"
    /\ answers' = Append(answers, [to |-> asking[1], client |-> asking[1].client,
                                   name |-> buffer.name, address |-> "real"])
    /\ at' = "log"
    /\ UNCHANGED <<queue, sent, buffer, asking, found, rows>>

\* The setting return_original is read (dns_resolver.c:44) and not looked at.
Respond ==
    /\ at = "answer"
    /\ asking[1].size # "short"
    /\ answers' = Append(answers,
         [to |-> asking[1], client |-> asking[1].client, name |-> buffer.name,
          address |-> IF found THEN "real" ELSE "fake"])
    /\ at' = "log"
    /\ UNCHANGED <<queue, sent, buffer, asking, found, rows>>

\* The columns of DNS_LOGS get the answered and the resolved address.
Log ==
    /\ at = "log"
    /\ rows' = rows \cup
         {[answer |-> Len(answers), client |-> asking[1].client,
           orig_ServerIP |-> IF found THEN "real" ELSE "fake",
           ServerIP |-> IF found THEN "real" ELSE "0.0.0.0", name |-> buffer.name]}
    /\ at' = "select"
    /\ UNCHANGED <<queue, sent, buffer, asking, found, answers>>

LogFails ==
    /\ at = "log"
    /\ at' = "select"
    /\ UNCHANGED <<queue, sent, buffer, asking, found, answers, rows>>

\* sig_int
Stop ==
    /\ ~Gone
    /\ at' = "ended"
    /\ UNCHANGED <<queue, sent, buffer, asking, found, answers, rows>>

dns_worker ==
    \/ Receive \/ Ignore \/ ParseCrashes \/ Resolve
    \/ AnswerCrashes \/ Respond \/ Log \/ LogFails

Next ==
    \/ \E c \in Clients, size \in Sizes, query \in BOOLEAN, name \in AllNames :
         Send(c, size, query, name)
    \/ dns_worker
    \/ Stop

Spec == Init /\ [][Next]_vars /\ WF_vars(dns_worker)

-----------------------------------------------------------------------------
\* A client is answered for the name it asked for, once per datagram and in the
\* order of the datagrams; only to a datagram that ends before the name can the
\* answer be about something else, such as the name another client asked for
\* before (dns_resolver.c:123, 134-145).
AnswersRight ==
    /\ \A i \in DOMAIN answers :
         LET a == answers[i] IN
         /\ a.client = a.to.client
         /\ a.to.size \in Whole => a.to.query /\ a.name = a.to.name
         /\ a.to.size # "short"
    /\ \A i, j \in DOMAIN answers : i < j => answers[i].to.n < answers[j].to.n

\* A row tells what was answered: sending comes before logging, a statement may
\* fail and the worker may be stopped between the two, but no row is without
\* its answer (dns_resolver.c:167-185, log_postgres.c:290).
RowsRight ==
    \A r \in rows :
      /\ r.answer \in DOMAIN answers
      /\ LET a == answers[r.answer] IN
         <<r.client, r.orig_ServerIP, r.name>> = <<a.client, a.address, a.name>>
      /\ r.ServerIP = "0.0.0.0" <=> r.orig_ServerIP = "fake"
      /\ \A q \in rows : q.answer = r.answer => q = r

\* Every query in the socket is answered unless the worker is gone, whatever
\* malformed datagrams and failing statements come before it: one answer at a
\* time, behind one gethostbyname() at a time.
Answered ==
    \A n \in 1 .. MaxDatagrams :
      (\E i \in DOMAIN queue : queue[i].n = n /\ queue[i].size \in Whole /\ queue[i].query)
        ~> Gone \/ \E i \in DOMAIN answers : answers[i].to.n = n

=============================================================================
