--------------------------- MODULE DispatcherProofs ---------------------------
(***************************************************************************)
(* Proofs about Dispatcher for any number of clients, datagrams, commands, *)
(* handlers and descriptors.  Custody is inductive once a handler holds at *)
(* most one datagram; the bound on the lookups rests on a descriptor that  *)
(* was used never being given back.                                        *)
(***************************************************************************)
EXTENDS Dispatcher, FiniteSetTheorems, TLAPS

\* A handler has one payload buffer.
OneEach == \A k \in Kids : \A d, e \in holds[k] : d = e

\* Where the dispatcher is tells why: it looks a connection up because it has
\* accepted one or could not, and forks only for one it has.
Reasons ==
    /\ at = "lookup" => Full \/ \E c \in Conns : conn[c] = "current"
    /\ at = "control" => obeyed < orders

Inv == TypeOK /\ Custody /\ OneEach /\ Reasons /\ BoundedWaiting

LEMMA InitInv == Init => Inv
<1> SUFFICES ASSUME Init PROVE Inv
  OBVIOUS
<1>1. TypeOK
  BY BoundsAssumption DEF Init, TypeOK, ConnStates, DatagramStates
<1>2. Custody /\ OneEach
  BY DEF Init, Custody, OneEach
<1>3. Reasons
  BY DEF Init, Reasons
<1>4. Dropped = {}
  BY DEF Init, Dropped
<1>5. BoundedWaiting
  BY <1>4, FS_EmptySet DEF Init, BoundedWaiting
<1> QED BY <1>1, <1>2, <1>3, <1>5 DEF Inv

-----------------------------------------------------------------------------
\* Who holds what

\* A handler that is not at work holds nothing.
LEMMA IdleHoldsNothing ==
  ASSUME TypeOK, Custody, NEW k \in Kids, kid[k] # "work"
  PROVE  holds[k] = {}
BY DEF TypeOK, Custody

\* A handler may come and go, or wake, while it holds nothing.
LEMMA KidMoves ==
  ASSUME TypeOK, Custody, OneEach, NEW k \in Kids, kid[k] # "work",
         NEW w \in {"free", "select", "recv"}, kid' = [kid EXCEPT ![k] = w],
         datagram' = datagram, holds' = holds
  PROVE  Custody' /\ OneEach'
<1>1. holds[k] = {}
  BY IdleHoldsNothing
<1> QED BY <1>1 DEF TypeOK, Custody, OneEach

\* The datagram that is taken was nobody's, and the buffer was empty.
LEMMA RecvCustody ==
  ASSUME TypeOK, Custody, OneEach, NEW k \in Kids, KidRecv(k)
  PROVE  Custody' /\ OneEach'
<1>1. PICK d \in Datagrams : /\ datagram[d] = "queued"
                             /\ datagram' = [datagram EXCEPT ![d] = "held"]
                             /\ holds' = [holds EXCEPT ![k] = {d}]
  BY DEF KidRecv, FirstIn
<1>2. kid[k] = "recv" /\ kid' = [kid EXCEPT ![k] = "work"]
  BY DEF KidRecv
<1>3. holds[k] = {}
  BY <1>2, IdleHoldsNothing
<1>4. \A j \in Kids : d \notin holds[j]
  BY <1>1 DEF Custody
<1>5. OneEach'
  BY <1>1 DEF TypeOK, OneEach
<1>6. Custody'
  <2> SUFFICES ASSUME NEW e \in Datagrams
               PROVE  LET owners == {j \in Kids : e \in holds'[j]} IN
                      IF datagram'[e] = "held"
                        THEN \E j \in Kids : owners = {j} /\ kid'[j] = "work"
                        ELSE owners = {}
    BY DEF Custody
  <2>1. CASE e = d
    <3>1. {j \in Kids : e \in holds'[j]} = {k}
      BY <1>1, <1>4, <2>1 DEF TypeOK
    <3> QED BY <1>1, <1>2, <2>1, <3>1 DEF TypeOK
  <2>2. CASE e # d
    <3>1. {j \in Kids : e \in holds'[j]} = {j \in Kids : e \in holds[j]}
      BY <1>1, <1>3, <2>2 DEF TypeOK
    <3>2. datagram'[e] = datagram[e]
      BY <1>1, <2>2 DEF TypeOK
    <3> QED BY <1>2, <3>1, <3>2 DEF TypeOK, Custody
  <2> QED BY <2>1, <2>2
<1> QED BY <1>5, <1>6

\* The datagram that is answered is the only one the handler held.
LEMMA WorkCustody ==
  ASSUME TypeOK, Custody, OneEach, NEW k \in Kids, KidWork(k)
  PROVE  Custody' /\ OneEach'
<1>1. PICK d \in holds[k] : datagram' = [datagram EXCEPT ![d] = "answered"]
  BY DEF KidWork
<1>2. /\ holds' = [holds EXCEPT ![k] = {}]
      /\ kid' = [kid EXCEPT ![k] = "select"]
  BY DEF KidWork
<1>3. d \in Datagrams /\ holds[k] = {d}
  BY <1>1 DEF TypeOK, OneEach
<1>4. \A j \in Kids : j # k => d \notin holds[j]
  BY <1>3 DEF Custody
<1>5. OneEach'
  BY <1>2 DEF TypeOK, OneEach
<1>6. Custody'
  <2> SUFFICES ASSUME NEW e \in Datagrams
               PROVE  LET owners == {j \in Kids : e \in holds'[j]} IN
                      IF datagram'[e] = "held"
                        THEN \E j \in Kids : owners = {j} /\ kid'[j] = "work"
                        ELSE owners = {}
    BY DEF Custody
  <2>1. CASE e = d
    <3>1. {j \in Kids : e \in holds'[j]} = {}
      BY <1>2, <1>4, <2>1 DEF TypeOK
    <3> QED BY <1>1, <1>3, <2>1, <3>1 DEF TypeOK
  <2>2. CASE e # d
    <3>1. {j \in Kids : e \in holds'[j]} = {j \in Kids : e \in holds[j]}
      BY <1>2, <1>3, <2>2 DEF TypeOK
    <3>2. datagram'[e] = datagram[e]
      BY <1>1, <2>2 DEF TypeOK
    <3>3. k \notin {j \in Kids : e \in holds[j]}
      BY <1>3, <2>2
    <3> QED BY <1>2, <3>1, <3>2, <3>3 DEF TypeOK, Custody
  <2> QED BY <2>1, <2>2
<1> QED BY <1>5, <1>6

-----------------------------------------------------------------------------
\* Descriptors

Used == {c \in Conns : conn[c] \notin {"idle", "queued"}}

LEMMA ConnsFinite == \A S \in SUBSET Conns : IsFiniteSet(S) /\ Cardinality(S) \in Nat
<1>1. IsFiniteSet(Conns)
  BY FS_Interval, BoundsAssumption DEF Conns
<1> QED BY <1>1, FS_Subset, FS_CardinalityType

\* Connections are not closed again: a dispatcher without descriptors stays so.
LEMMA FullStays ==
  ASSUME table \in Nat, Used \subseteq Used', table' = table, Full
  PROVE  Full'
<1>1. Full <=> Cardinality(Used) >= table
  BY DEF Full, Used
<1>2. Full' <=> Cardinality(Used') >= table'
  BY DEF Full, Used
<1>3. Used' \subseteq Conns /\ Used \subseteq Conns
  BY DEF Used
<1>4. Cardinality(Used) <= Cardinality(Used')
  BY <1>3, ConnsFinite, FS_Subset
<1> QED BY <1>1, <1>2, <1>3, <1>4, ConnsFinite

\* What settling the connection under way does
LEMMA SettleUses ==
  ASSUME TypeOK, NEW s \in {"dropped", "served", "abandoned"}, Settle(s)
  PROVE  /\ conn' \in [Conns -> ConnStates]
         /\ Used' = Used
         /\ Dropped \subseteq Dropped'
BY DEF TypeOK, ConnStates, Settle, Used, Dropped

\* The bound survives a step without a lookup that forgets no dropped client.
LEMMA BoundStays ==
  ASSUME TypeOK, BoundedWaiting, tries' = tries, table' = table,
         Used \subseteq Used', Dropped \subseteq Dropped'
  PROVE  BoundedWaiting'
<1>1. Full => Full'
  BY FullStays DEF TypeOK
<1>2. Dropped \subseteq Conns /\ Dropped' \subseteq Conns
  BY DEF Dropped
<1>3. Cardinality(Dropped) <= Cardinality(Dropped')
  BY <1>2, ConnsFinite, FS_Subset
<1> QED BY <1>1, <1>2, <1>3, ConnsFinite DEF BoundedWaiting, TypeOK

\* After five failures each one more costs a client, or there is none to lose.
LEMMA LookupBound ==
  ASSUME Inv, LookupFails
  PROVE  BoundedWaiting' /\ Used' = Used
<1> USE DEF Inv
<1>0. tries \in Nat /\ tries' \in Nat /\ tries' <= tries + 1 /\ table' = table
  BY BoundsAssumption DEF LookupFails, TypeOK
<1>1. CASE tries' <= 5
  <2>1. conn' = conn
    BY <1>0, <1>1 DEF LookupFails
  <2>2. Dropped' \subseteq Conns
    BY DEF Dropped
  <2> QED BY <1>0, <1>1, <2>1, <2>2, ConnsFinite DEF BoundedWaiting, Used
<1>2. CASE tries' > 5
  <2>1. Settle("dropped") /\ at = "lookup"
    BY <1>2 DEF LookupFails
  <2>2. Used' = Used /\ Dropped \subseteq Dropped'
    BY <2>1, SettleUses
  <2>3. CASE Full
    BY <1>0, <2>2, <2>3, FullStays DEF BoundedWaiting, TypeOK
  <2>4. CASE ~Full
    <3>1. PICK c \in Conns : conn[c] = "current"
      BY <2>1, <2>4 DEF Reasons
    <3>2. c \in Dropped' /\ c \notin Dropped
      BY <2>1, <3>1 DEF Settle, Dropped
    <3>3. Dropped \cup {c} \subseteq Dropped' /\ Dropped' \subseteq Conns
      BY <2>2, <3>2 DEF Dropped
    <3>4. IsFiniteSet(Dropped) /\ IsFiniteSet(Dropped')
      BY <2>2, <3>3, ConnsFinite
    <3>5. Cardinality(Dropped \cup {c}) = Cardinality(Dropped) + 1
      BY <3>2, <3>4, FS_AddElement
    <3>6. Cardinality(Dropped) + 1 <= Cardinality(Dropped')
      BY <3>3, <3>4, <3>5, FS_Subset
    <3>7. Cardinality(Dropped) \in Nat /\ Cardinality(Dropped') \in Nat
      BY <3>4, FS_CardinalityType
    <3> QED BY <1>0, <2>2, <2>4, <3>6, <3>7 DEF BoundedWaiting
  <2> QED BY <2>2, <2>3, <2>4
<1> QED BY <1>0, <1>1, <1>2

-----------------------------------------------------------------------------
\* The specification

\* Nothing of the handlers changes.
LEMMA CustodyKept ==
  ASSUME Custody, OneEach, UNCHANGED <<datagram, kid, holds>>
  PROVE  Custody' /\ OneEach'
BY Zenon DEF Custody, OneEach

\* Nothing of the connections changes.
LEMMA ConnsKept ==
  ASSUME TypeOK, BoundedWaiting, UNCHANGED <<table, tries, conn>>
  PROVE  BoundedWaiting' /\ (Full' <=> Full)
BY DEF BoundedWaiting, Full, Dropped

LEMMA DispatcherInv == Inv /\ DispatcherStep => Inv'
<1> SUFFICES ASSUME Inv, DispatcherStep PROVE Inv'
  OBVIOUS
<1> USE DEF Inv
<1>1. CASE SelectTcp
  <2>1. PICK c \in Conns : conn[c] = "queued" /\ conn' = [conn EXCEPT ![c] = "current"]
    BY <1>1 DEF SelectTcp, FirstIn
  <2>2. TypeOK' /\ conn'[c] = "current"
    BY <1>1, <2>1 DEF SelectTcp, TypeOK, ConnStates
  <2>3. Used \subseteq Used' /\ Dropped \subseteq Dropped'
    BY <2>1 DEF TypeOK, Used, Dropped
  <2>4. BoundedWaiting'
    BY <1>1, <2>3, BoundStays DEF SelectTcp
  <2>5. Custody' /\ OneEach'
    BY <1>1, CustodyKept DEF SelectTcp
  <2> QED BY <1>1, <2>2, <2>4, <2>5 DEF SelectTcp, Reasons
<1>2. CASE AcceptFails
  <2>1. TypeOK'
    BY <1>2 DEF AcceptFails, TypeOK
  <2>2. BoundedWaiting' /\ Full'
    BY <1>2, ConnsKept DEF AcceptFails
  <2>3. Custody' /\ OneEach'
    BY <1>2, CustodyKept DEF AcceptFails
  <2> QED BY <1>2, <2>1, <2>2, <2>3 DEF AcceptFails, Reasons
<1>3. CASE SelectUdp
  <2>1. TypeOK' /\ Reasons'
    BY <1>3 DEF SelectUdp, TypeOK, Reasons
  <2>2. BoundedWaiting'
    BY <1>3, ConnsKept DEF SelectUdp
  <2> QED BY <1>3, <2>1, <2>2, CustodyKept DEF SelectUdp
<1>4. CASE SelectControl
  <2>1. TypeOK' /\ Reasons'
    BY <1>4 DEF SelectControl, ControlReadable, TypeOK, Reasons
  <2>2. BoundedWaiting'
    BY <1>4, ConnsKept DEF SelectControl
  <2> QED BY <1>4, <2>1, <2>2, CustodyKept DEF SelectControl
<1>5. CASE LookupFinds
  <2>1. TypeOK' /\ Reasons'
    BY <1>5 DEF LookupFinds, TypeOK, Reasons
  <2>2. BoundedWaiting'
    BY <1>5, ConnsKept DEF LookupFinds
  <2> QED BY <1>5, <2>1, <2>2, CustodyKept DEF LookupFinds
<1>6. CASE LookupFails
  <2>1. BoundedWaiting' /\ Used' = Used
    BY <1>6, LookupBound
  <2>2. TypeOK'
    <3>1. conn' \in [Conns -> ConnStates]
      BY <1>6, SettleUses DEF LookupFails, TypeOK
    <3> QED BY <1>6, <3>1, BoundsAssumption DEF LookupFails, TypeOK
  <2>3. Reasons'
    <3>1. Full => Full'
      BY <1>6, <2>1, FullStays DEF LookupFails, TypeOK
    <3> QED BY <1>6, <3>1 DEF LookupFails, Reasons
  <2>4. Custody' /\ OneEach'
    BY <1>6, CustodyKept DEF LookupFails
  <2> QED BY <2>1, <2>2, <2>3, <2>4
<1>7. CASE ForkTcp
  <2>1. PICK s \in {"served", "abandoned"} : Settle(s)
    BY <1>7 DEF ForkTcp
  <2>2. /\ conn' \in [Conns -> ConnStates]
        /\ Used \subseteq Used' /\ Dropped \subseteq Dropped'
    BY <2>1, SettleUses
  <2>3. TypeOK' /\ Reasons'
    BY <1>7, <2>2 DEF ForkTcp, TypeOK, Reasons
  <2>4. BoundedWaiting'
    BY <1>7, <2>2, BoundStays DEF ForkTcp
  <2> QED BY <1>7, <2>3, <2>4, CustodyKept DEF ForkTcp
<1>8. CASE ForkUdp \/ ForkUdpFails
  <2>1. TypeOK' /\ Reasons'
    BY <1>8 DEF ForkUdp, ForkUdpFails, TypeOK, Reasons
  <2>2. BoundedWaiting'
    BY <1>8, ConnsKept DEF ForkUdp, ForkUdpFails
  <2>3. Custody' /\ OneEach'
    <3>1. CASE ForkUdp
      BY <3>1, CustodyKept, KidMoves DEF ForkUdp
    <3>2. CASE ForkUdpFails
      BY <3>2, CustodyKept DEF ForkUdpFails
    <3> QED BY <1>8, <3>1, <3>2
  <2> QED BY <2>1, <2>2, <2>3
<1>9. CASE ReadCommand
  <2>1. Reasons'
    BY <1>9 DEF ReadCommand, Reasons
  <2>2. BoundedWaiting'
    BY <1>9, ConnsKept DEF ReadCommand
  <2>3. obeyed' \in 0 .. orders'
    BY <1>9 DEF ReadCommand, Reasons, TypeOK
  <2>4. CASE KillAll /\ at' = "select"
    <3>1. TypeOK'
      BY <1>9, <2>3, <2>4 DEF ReadCommand, KillAll, TypeOK, DatagramStates
    <3>2. Custody' /\ OneEach'
      BY <2>4 DEF KillAll, Custody, OneEach, TypeOK
    <3> QED BY <2>1, <2>2, <3>1, <3>2
  <2>5. CASE at' \in {"select", "crashed"} /\ UNCHANGED <<datagram, kid, holds>>
    <3>1. TypeOK'
      BY <1>9, <2>3, <2>5 DEF ReadCommand, TypeOK
    <3> QED BY <2>1, <2>2, <2>5, <3>1, CustodyKept
  <2> QED BY <1>9, <2>4, <2>5 DEF ReadCommand
<1> QED BY <1>1, <1>2, <1>3, <1>4, <1>5, <1>6, <1>7, <1>8, <1>9 DEF DispatcherStep

LEMMA KidInv ==
  ASSUME Inv, NEW k \in Kids, KidStep(k) \/ KidTimeout(k)
  PROVE  Inv'
<1> USE DEF Inv
<1>1. UNCHANGED <<table, at, tries, conn, orders, obeyed>>
  BY DEF KidStep, KidReadable, KidRecv, KidWork, KidTimeout
<1>2. Reasons' /\ BoundedWaiting'
  BY <1>1, ConnsKept DEF Reasons
<1>3. CASE KidReadable(k)
  <2>1. TypeOK'
    BY <1>1, <1>3 DEF KidReadable, TypeOK
  <2> QED BY <1>2, <1>3, <2>1, KidMoves DEF KidReadable
<1>4. CASE KidRecv(k)
  <2>1. TypeOK'
    BY <1>1, <1>4 DEF KidRecv, TypeOK, DatagramStates
  <2> QED BY <1>2, <1>4, <2>1, RecvCustody
<1>5. CASE KidWork(k)
  <2>1. TypeOK'
    BY <1>1, <1>5 DEF KidWork, TypeOK, DatagramStates
  <2> QED BY <1>2, <1>5, <2>1, WorkCustody
<1>6. CASE KidTimeout(k)
  <2>1. TypeOK'
    BY <1>1, <1>6 DEF KidTimeout, TypeOK
  <2> QED BY <1>2, <1>6, <2>1, KidMoves DEF KidTimeout
<1> QED BY <1>3, <1>4, <1>5, <1>6 DEF KidStep

LEMMA ClientInv == Inv /\ (Connect \/ Send \/ Order) => Inv'
<1> SUFFICES ASSUME Inv, Connect \/ Send \/ Order PROVE Inv'
  OBVIOUS
<1> USE DEF Inv
<1>1. CASE Connect
  <2>1. PICK c \in Conns : conn[c] = "idle" /\ conn' = [conn EXCEPT ![c] = "queued"]
    BY <1>1 DEF Connect, FirstIn
  <2>2. TypeOK'
    BY <1>1, <2>1 DEF Connect, TypeOK, ConnStates
  <2>3. Used' = Used /\ Dropped' = Dropped
    BY <2>1 DEF TypeOK, Used, Dropped
  <2>4. BoundedWaiting' /\ (Full => Full')
    BY <1>1, <2>3, BoundStays, FullStays DEF Connect, TypeOK
  <2>5. (\E x \in Conns : conn[x] = "current") => \E x \in Conns : conn'[x] = "current"
    BY <2>1 DEF TypeOK
  <2> QED BY <1>1, <2>2, <2>4, <2>5, CustodyKept DEF Connect, Reasons
<1>2. CASE Send
  <2>1. PICK d \in Datagrams : /\ datagram[d] = "idle"
                               /\ datagram' = [datagram EXCEPT ![d] = "queued"]
    BY <1>2 DEF Send, FirstIn
  <2>2. TypeOK'
    BY <1>2, <2>1 DEF Send, TypeOK, DatagramStates
  <2>3. Custody' /\ OneEach'
    BY <1>2, <2>1 DEF Send, TypeOK, Custody, OneEach
  <2>4. BoundedWaiting' /\ Reasons'
    BY <1>2, ConnsKept DEF Send, Reasons
  <2> QED BY <2>2, <2>3, <2>4
<1>3. CASE Order
  <2>1. TypeOK'
    BY <1>3 DEF Order, TypeOK
  <2>2. BoundedWaiting' /\ Reasons'
    BY <1>3, ConnsKept DEF Order, Reasons, TypeOK
  <2> QED BY <1>3, <2>1, <2>2, CustodyKept DEF Order
<1> QED BY <1>1, <1>2, <1>3

LEMMA NextInv == Inv /\ [Next]_vars => Inv'
<1> SUFFICES ASSUME Inv, [Next]_vars PROVE Inv'
  OBVIOUS
<1>1. CASE UNCHANGED vars
  <2>1. TypeOK' /\ Reasons'
    BY <1>1 DEF Inv, vars, TypeOK, Reasons, Full
  <2>2. BoundedWaiting'
    BY <1>1, ConnsKept DEF Inv, vars
  <2> QED BY <1>1, <2>1, <2>2, CustodyKept DEF Inv, vars
<1> QED BY <1>1, DispatcherInv, KidInv, ClientInv DEF Next

LEMMA AlwaysInv == Spec => []Inv
BY InitInv, NextInv, PTL DEF Spec

\* No more commands are obeyed than were sent, and every process is where the
\* code can be, whatever lookups, forks and accepts fail.
THEOREM TypeCorrect == Spec => []TypeOK
<1>1. Inv => TypeOK
  BY DEF Inv
<1> QED BY <1>1, AlwaysInv, PTL

\* Of any number of handlers that race for a datagram exactly one has it
\* (udp_handler.c:108-110, dispatching.c:196-225).
THEOREM CustodyIsClear == Spec => []Custody
<1>1. Inv => Custody
  BY DEF Inv
<1> QED BY <1>1, AlwaysInv, PTL

\* Over its whole life, and for any number of connections, the dispatcher waits
\* five times more often than it drops a client, while it has descriptors
\* (dispatching.c:149-156).
THEOREM WaitingIsBounded == Spec => []BoundedWaiting
<1>1. Inv => BoundedWaiting
  BY DEF Inv
<1> QED BY <1>1, AlwaysInv, PTL
=============================================================================
