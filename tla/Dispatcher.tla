------------------------------ MODULE Dispatcher ------------------------------
(***************************************************************************)
(* The dispatcher loop (dispatching.c) with the UDP handlers it forks      *)
(* (udp_handler.c), which all read the one datagram socket they inherit.   *)
(*                                                                         *)
(* Connections and datagrams are numbered in the order in which clients    *)
(* send them; the kernel queues both first in, first out.  The conntrack   *)
(* table is the environment: a lookup finds an entry or not.  A command    *)
(* that stops the analysis ends every handler in one step; the walk over   *)
(* the process list behind it is the module ProcessManager.  The           *)
(* dispatcher has one descriptor less for every connection it accepted:    *)
(* it keeps them when they are dropped, served or over.                    *)
(***************************************************************************)
EXTENDS Integers, FiniteSets

CONSTANTS NConns,     \* number of connections that clients may open
          NDatagrams, \* number of datagrams that clients may send
          NCommands,  \* number of commands that the operator may send
          Kids,       \* slots for living UDP handlers, then fork() must fail
          Tables,     \* how many descriptors the dispatcher may open beside its own
          MaxTries    \* bound of tries_pars_ct when it has none left

ASSUME BoundsAssumption ==
    /\ NConns \in Nat /\ NDatagrams \in Nat /\ NCommands \in Nat
    /\ Tables \subseteq Nat
    /\ MaxTries \in Nat /\ MaxTries > NConns + 5

Conns == 1 .. NConns
Datagrams == 1 .. NDatagrams

VARIABLES table,      \* the descriptors that accept() and fopen() may use
          at,         \* where the dispatcher is in disp_run
          tries,      \* tries_pars_ct
          conn,       \* what became of each connection
          datagram,   \* what became of each datagram
          orders,     \* commands sent to the control socket so far
          obeyed,     \* commands read from it so far
          kid,        \* where each UDP handler is
          holds       \* the datagram in the payload buffer of each handler

vars == <<table, at, tries, conn, datagram, orders, obeyed, kid, holds>>

\* A connection that was served belongs to its handler from then on
\* (module TcpHandler).
ConnStates == {"idle", "queued", "current", "served", "dropped", "abandoned"}
DatagramStates == {"idle", "queued", "held", "answered", "lost"}

TypeOK ==
    /\ table \in Nat
    /\ at \in {"select", "lookup", "fork", "udp", "control", "crashed"}
    /\ tries \in Nat
    /\ conn \in [Conns -> ConnStates]
    /\ datagram \in [Datagrams -> DatagramStates]
    /\ orders \in Nat
    /\ obeyed \in 0 .. orders
    /\ kid \in [Kids -> {"free", "select", "recv", "work"}]
    /\ holds \in [Kids -> SUBSET Datagrams]

Init ==
    /\ table \in Tables
    /\ at = "select"
    /\ tries = 0
    /\ conn = [c \in Conns |-> "idle"]
    /\ datagram = [d \in Datagrams |-> "idle"]
    /\ orders = 0
    /\ obeyed = 0
    /\ kid = [k \in Kids |-> "free"]
    /\ holds = [k \in Kids |-> {}]

\* x is the first element of queue q that is in state s.
FirstIn(q, s, x) == q[x] = s /\ \A y \in DOMAIN q : q[y] = s => x <= y

\* No descriptor is free, and none will be: accept() and fopen() fail.
Full == Cardinality({c \in Conns : conn[c] \notin {"idle", "queued"}}) >= table

TcpReadable == \E c \in Conns : conn[c] = "queued"
UdpReadable == \E d \in Datagrams : datagram[d] = "queued"
ControlReadable == obeyed < orders

-----------------------------------------------------------------------------
\* The dispatcher

\* wait_for_incoming_connection answers for one descriptor: TCP first
SelectTcp ==
    /\ at = "select"
    /\ ~Full
    /\ \E c \in Conns :
         /\ FirstIn(conn, "queued", c)
         /\ conn' = [conn EXCEPT ![c] = "current"]
    /\ at' = "lookup"
    /\ UNCHANGED <<table, tries, datagram, orders, obeyed, kid, holds>>

\* accept() fails and the connection stays in the backlog; the dispatcher goes
\* on with the address of the client before.
AcceptFails ==
    /\ at = "select"
    /\ Full /\ TcpReadable
    /\ at' = "lookup"
    /\ UNCHANGED <<table, tries, conn, datagram, orders, obeyed, kid, holds>>

SelectUdp ==
    /\ at = "select"
    /\ ~TcpReadable
    /\ UdpReadable
    /\ at' = "udp"
    /\ UNCHANGED <<table, tries, conn, datagram, orders, obeyed, kid, holds>>

SelectControl ==
    /\ at = "select"
    /\ ~TcpReadable
    /\ ~UdpReadable
    /\ ControlReadable
    /\ at' = "control"
    /\ UNCHANGED <<table, tries, conn, datagram, orders, obeyed, kid, holds>>

\* The state of the connection under way becomes s.
Settle(s) == conn' = [c \in Conns |-> IF conn[c] = "current" THEN s ELSE conn[c]]

\* parse_conntrack opens the table of the kernel.
LookupFinds ==
    /\ at = "lookup"
    /\ ~Full
    /\ at' = "fork"
    /\ UNCHANGED <<table, tries, conn, datagram, orders, obeyed, kid, holds>>

\* Fault: the connection is given up without being closed
LookupFails_Forgets ==
    /\ at = "lookup"
    /\ tries' = IF tries < MaxTries THEN tries + 1 ELSE tries
    /\ IF tries' > 5
         THEN at' = "select" /\ UNCHANGED conn
         ELSE UNCHANGED <<conn, at>>
    /\ UNCHANGED <<table, datagram, orders, obeyed, kid, holds>>

\* tries_pars_ct counts the failures of all connections and is never reset:
\* after the fifth one, every failure drops the connection at once, if there is
\* one: the bound is met only by a dispatcher that cannot accept any.
LookupFails ==
    /\ at = "lookup"
    /\ tries' = IF tries < MaxTries THEN tries + 1 ELSE tries
    /\ IF tries' > 5
         THEN Settle("dropped") /\ at' = "select"
         ELSE UNCHANGED <<conn, at>>
    /\ UNCHANGED <<table, datagram, orders, obeyed, kid, holds>>

\* A failed fork leaves the connection to nobody: it is neither served nor
\* closed.
ForkTcp ==
    /\ at = "fork"
    /\ Settle("served") \/ Settle("abandoned")
    /\ at' = "select"
    /\ UNCHANGED <<table, tries, datagram, orders, obeyed, kid, holds>>

\* The datagram that woke the dispatcher is left to the child, which may find
\* that another child was faster.
ForkUdp ==
    /\ at = "udp"
    /\ \E k \in Kids :
         /\ kid[k] = "free"
         /\ kid' = [kid EXCEPT ![k] = "select"]
    /\ at' = "select"
    /\ UNCHANGED <<table, tries, conn, datagram, orders, obeyed, holds>>

\* A failed fork is only reported: the datagram stays in the socket and wakes the
\* dispatcher again.
ForkUdpFails ==
    /\ at = "udp"
    /\ at' = "select"
    /\ UNCHANGED <<table, tries, conn, datagram, orders, obeyed, kid, holds>>

\* pm_kill_temporary: what a handler holds is lost with it.
KillAll ==
    /\ kid' = [k \in Kids |-> "free"]
    /\ holds' = [k \in Kids |-> {}]
    /\ datagram' = [d \in Datagrams |->
                      IF datagram[d] = "held" THEN "lost" ELSE datagram[d]]

\* read_command takes one command.  restart and stop end the handlers, start
\* and anything else leave them alone; a start without a file name computes
\* with the NULL pointer strstr returned.
ReadCommand ==
    /\ at = "control"
    /\ obeyed' = obeyed + 1
    /\ \/ KillAll /\ at' = "select"
       \/ at' \in {"select", "crashed"} /\ UNCHANGED <<datagram, kid, holds>>
    /\ UNCHANGED <<table, tries, conn, orders>>

DispatcherStep ==
    \/ SelectTcp \/ AcceptFails \/ SelectUdp \/ SelectControl
    \/ LookupFinds \/ LookupFails
    \/ ForkTcp \/ ForkUdp \/ ForkUdpFails
    \/ ReadCommand

-----------------------------------------------------------------------------
\* The UDP handlers

\* select() sees the datagram in the shared socket, nobody has taken it yet.
KidReadable(k) ==
    /\ kid[k] = "select"
    /\ UdpReadable
    /\ kid' = [kid EXCEPT ![k] = "recv"]
    /\ UNCHANGED <<table, at, tries, conn, datagram, orders, obeyed, holds>>

\* Fault: the datagram is looked at and left in the socket
KidRecv_Peeks(k) ==
    /\ kid[k] = "recv"
    /\ \E d \in Datagrams :
         /\ FirstIn(datagram, "queued", d)
         /\ holds' = [holds EXCEPT ![k] = {d}]
    /\ kid' = [kid EXCEPT ![k] = "work"]
    /\ UNCHANGED <<table, at, tries, conn, datagram, orders, obeyed>>

\* recvfrom() blocks while the socket is empty, the losers of the race too.
KidRecv(k) ==
    /\ kid[k] = "recv"
    /\ \E d \in Datagrams :
         /\ FirstIn(datagram, "queued", d)
         /\ datagram' = [datagram EXCEPT ![d] = "held"]
         /\ holds' = [holds EXCEPT ![k] = {d}]
    /\ kid' = [kid EXCEPT ![k] = "work"]
    /\ UNCHANGED <<table, at, tries, conn, orders, obeyed>>

\* Fault: the descriptor set of select() is not filled again
KidWork_Deaf(k) ==
    /\ kid[k] = "work"
    /\ \E d \in holds[k] : datagram' = [datagram EXCEPT ![d] = "answered"]
    /\ holds' = [holds EXCEPT ![k] = {}]
    /\ UNCHANGED <<table, at, tries, conn, orders, obeyed, kid>>

\* Up to six lookups, then the datagram is sent to its destination, skipped
\* when that is the broadcast address of the box, or, when no entry was
\* found, sent back to the client: the handler is done with it.
KidWork(k) ==
    /\ kid[k] = "work"
    /\ \E d \in holds[k] : datagram' = [datagram EXCEPT ![d] = "answered"]
    /\ holds' = [holds EXCEPT ![k] = {}]
    /\ kid' = [kid EXCEPT ![k] = "select"]
    /\ UNCHANGED <<table, at, tries, conn, orders, obeyed>>

\* The 300 s that all calls of select() share are over: the process exits.
KidTimeout(k) ==
    /\ kid[k] = "select"
    /\ ~UdpReadable
    /\ kid' = [kid EXCEPT ![k] = "free"]
    /\ UNCHANGED <<table, at, tries, conn, datagram, orders, obeyed, holds>>

KidStep(k) == KidReadable(k) \/ KidRecv(k) \/ KidWork(k)

-----------------------------------------------------------------------------
\* Clients and the operator

Connect ==
    /\ \E c \in Conns :
         /\ FirstIn(conn, "idle", c)
         /\ conn' = [conn EXCEPT ![c] = "queued"]
    /\ UNCHANGED <<table, at, tries, datagram, orders, obeyed, kid, holds>>

Send ==
    /\ \E d \in Datagrams :
         /\ FirstIn(datagram, "idle", d)
         /\ datagram' = [datagram EXCEPT ![d] = "queued"]
    /\ UNCHANGED <<table, at, tries, conn, orders, obeyed, kid, holds>>

Order ==
    /\ orders < NCommands
    /\ orders' = orders + 1
    /\ UNCHANGED <<table, at, tries, conn, datagram, obeyed, kid, holds>>

Next ==
    \/ DispatcherStep
    \/ \E k \in Kids : KidStep(k) \/ KidTimeout(k)
    \/ Connect \/ Send \/ Order

Spec == Init /\ [][Next]_vars

\* The dispatcher and every handler are scheduled, and a handler's lookups,
\* at most six with two seconds between them, come to an end.
FairSpec ==
    /\ Spec
    /\ WF_vars(DispatcherStep)
    /\ \A k \in Kids : WF_vars(KidStep(k))

-----------------------------------------------------------------------------
\* A datagram taken from the socket is in the hands of exactly one living
\* handler, whatever the race for it was and whatever a stop interrupted
\* (udp_handler.c:108-110, dispatching.c:196-225).
Custody ==
    \A d \in Datagrams :
      LET owners == {k \in Kids : d \in holds[k]} IN
      IF datagram[d] = "held"
        THEN \E k \in Kids : owners = {k} /\ kid[k] = "work"
        ELSE owners = {}

Dropped == {c \in Conns : conn[c] = "dropped"}

\* The loop that waits for the conntrack table blocks everything else: over
\* the whole life of the dispatcher it sleeps at most five times more often
\* than it drops a client, as long as it has descriptors (dispatching.c:149-156).
BoundedWaiting == tries <= 5 + Cardinality(Dropped) \/ Full

\* Liveness, with a bounded number of connections, datagrams and commands.
\* A connection that cannot be accepted stays readable for ever, and then
\* nothing else is served any more.
Starved == at = "crashed" \/ (Full /\ TcpReadable)

\* For want of memory or processes fork() may fail for ever, with a slot left; then
\* one datagram keeps the dispatcher busy without a handler to take it.
ForksFailing == []<><<ForkUdpFails /\ \E k \in Kids : kid[k] = "free">>_vars

\* A client in the backlog is eventually handed to a handler, dropped, or left
\* behind by a failed fork, however often lookups fail, unless descriptors run
\* out before it is accepted (dispatching.c:143-185).
ConnSettled ==
    \A c \in Conns :
      conn[c] \in {"queued", "current"} ~>
        \/ conn[c] \in {"served", "dropped", "abandoned"}
        \/ at = "crashed"
        \/ Full /\ conn[c] = "queued"

\* A datagram does not stay in the socket although the dispatcher never reads
\* it, forks fail and handlers time out, block in recvfrom or are ended
\* meanwhile, unless forks never cease to fail (dispatching.c:188-198,
\* udp_handler.c:95-160).
DatagramTaken ==
    \/ ForksFailing
    \/ \A d \in Datagrams : datagram[d] = "queued" ~> (datagram[d] # "queued" \/ Starved)

\* Every command is eventually obeyed although both other sockets come first
\* and one datagram may fork several handlers, with the same exception
\* (dispatching.c:120-127, 199-229).
CommandsObeyed ==
    \/ ForksFailing
    \/ ControlReadable ~> (~ControlReadable \/ Starved)
=============================================================================
