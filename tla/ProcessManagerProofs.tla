------------------------- MODULE ProcessManagerProofs -------------------------
(***************************************************************************)
(* Proofs, for every set of pids, of the safety properties of              *)
(* ProcessManager.                                                         *)
(***************************************************************************)
EXTENDS ProcessManager, TLAPS

\* What unlinking leaves of a list.
LEMMA UnlinkLemma ==
    ASSUME NEW list \in Seq(Element), NEW i \in 1..Len(list)
    PROVE  /\ Unlink(list, i) \in Seq(Element)
           /\ Len(Unlink(list, i)) = Len(list) - 1
           /\ \A j \in 1..(Len(list) - 1) :
                Unlink(list, i)[j] = IF j < i THEN list[j] ELSE list[j + 1]
<1> DEFINE n == Len(list) - 1
<1>1. n \in Nat
  OBVIOUS
<1>2. \A j \in 1..n : (IF j < i THEN list[j] ELSE list[j + 1]) \in Element
  OBVIOUS
<1>3. Unlink(list, i) \in [1..n -> Element]
  BY <1>2 DEF Unlink
<1>4. Unlink(list, i) \in Seq(Element)
  BY <1>1, <1>3
<1>5. Len(Unlink(list, i)) = n
  BY <1>1, <1>3, <1>4
<1>6. QED
  BY <1>4, <1>5 DEF Unlink

\* Appending leaves the elements where they are.
LEMMA AppendLemma ==
    ASSUME NEW list \in Seq(Element), NEW e \in Element
    PROVE  /\ Append(list, e) \in Seq(Element)
           /\ Len(list) \in Nat
           /\ Len(Append(list, e)) = Len(list) + 1
           /\ \A i \in 1..Len(list) : Append(list, e)[i] = list[i]
           /\ Append(list, e)[Len(list) + 1] = e
  OBVIOUS

-----------------------------------------------------------------------------
(***************************************************************************)
(* The inductive invariant.  The permanent child is forked before every    *)
(* other one and the list only grows at its end, so it is the head, and    *)
(* while it runs nobody else has its pid; every other entry is temporary;  *)
(* behind the cursor of the walk nothing is left to kill.                  *)
(***************************************************************************)
Own(p) == os[p] \in {"permanent", "temporary"}

Fresh ==
    pc = "init" => processes = <<>> /\ \A p \in Pids : ~Own(p)

OthersTemporary ==
    \A i \in 2..Len(processes) : processes[i].restart_flag

PermanentIsHead ==
    \A p \in Pids : os[p] = "permanent" =>
      /\ Len(processes) >= 1
      /\ processes[1] = [pid |-> p, restart_flag |-> FALSE]
      /\ \A i \in 2..Len(processes) : processes[i].pid # p

PendingRuns ==
    \A p \in pending : Running(p) /\ os[p] # "permanent"

WalkedClean ==
    pc = "walk" =>
      /\ cursor <= Len(processes) + 1
      /\ \A i \in 1..Len(processes) : i < cursor => ~processes[i].restart_flag

IInv ==
    /\ TypeOK
    /\ Fresh
    /\ OthersTemporary
    /\ PermanentIsHead
    /\ PendingRuns
    /\ WalkedClean
    /\ HeadSafe
    /\ Registered

LEMMA InitIInv == Init => IInv
  BY DEF Init, IInv, TypeOK, Fresh, OthersTemporary, PermanentIsHead, PendingRuns,
         WalkedClean, HeadSafe, Registered, Running, Own, Element, Occupant

LEMMA ForkPermanentIInv == IInv /\ pm_fork_permanent => IInv'
<1> SUFFICES ASSUME IInv, pm_fork_permanent PROVE IInv'
  OBVIOUS
<1> USE DEF IInv, TypeOK, Fresh, Own
<1>1. CASE UNCHANGED <<os, processes>>
  BY <1>1 DEF pm_fork_permanent, OthersTemporary, PermanentIsHead, PendingRuns,
       WalkedClean, HeadSafe, Registered, Running
<1>2. ASSUME NEW p \in Pids, os[p] = "free", os' = [os EXCEPT ![p] = "permanent"],
             processes' = PmAdd(processes, p, FALSE)
      PROVE  IInv'
  <2>1. /\ processes' \in Seq(Element)
        /\ Len(processes') = 1
        /\ processes'[1] = [pid |-> p, restart_flag |-> FALSE]
    <3> DEFINE e == [pid |-> p, restart_flag |-> FALSE]
    <3>1. processes = <<>> /\ processes' = Append(processes, e)
      BY <1>2 DEF pm_fork_permanent, PmAdd
    <3>2. e \in Element
      BY DEF Element
    <3> HIDE DEF e
    <3>3. processes' = <<e>>
      BY <3>1
    <3>4. processes' \in Seq(Element) /\ Len(processes') = 1 /\ processes'[1] = e
      BY <3>2, <3>3
    <3>5. QED
      BY <3>4 DEF e
  <2>2. pc' = "loop" /\ UNCHANGED <<cursor, pending>>
    BY DEF pm_fork_permanent
  <2>3. TypeOK'
    BY <1>2, <2>1, <2>2 DEF Occupant
  <2>4. Fresh' /\ OthersTemporary' /\ WalkedClean' /\ HeadSafe'
    BY <2>1, <2>2 DEF OthersTemporary, WalkedClean, HeadSafe
  <2>5. \A q \in Pids : Own(q)' => q = p /\ os'[p] = "permanent"
    BY <1>2 DEF pm_fork_permanent
  <2>6. PermanentIsHead'
    <3>1. \A i \in 2..Len(processes') : FALSE
      BY <2>1
    <3>2. ASSUME NEW q \in Pids, os'[q] = "permanent"
          PROVE  /\ Len(processes') >= 1
                 /\ processes'[1] = [pid |-> q, restart_flag |-> FALSE]
                 /\ \A i \in 2..Len(processes') : processes'[i].pid # q
      <4>1. q = p
        BY <2>5, <3>2
      <4>2. QED
        BY <2>1, <3>1, <4>1
    <3>3. QED
      BY <3>2 DEF PermanentIsHead
  <2>9. Registered'
    <3>1. 1 \in 1..Len(processes')
      BY <2>1
    <3>2. QED
      BY <2>1, <2>5, <3>1 DEF Registered
  <2>7. PendingRuns'
    BY <1>2, <2>2 DEF PendingRuns, Running
  <2>8. QED
    BY <2>3, <2>4, <2>6, <2>7, <2>9
<1>3. QED
  BY <1>1, <1>2 DEF pm_fork_permanent

LEMMA ForkTemporaryIInv == IInv /\ pm_fork_temporary => IInv'
<1> SUFFICES ASSUME IInv, pm_fork_temporary PROVE IInv'
  OBVIOUS
<1>1. PICK p \in Pids : /\ os[p] = "free"
                        /\ os' = [os EXCEPT ![p] = "temporary"]
                        /\ processes' = PmAdd(processes, p, TRUE)
  BY DEF pm_fork_temporary
<1> USE DEF IInv, TypeOK
<1>2. /\ processes' \in Seq(Element)
      /\ Len(processes) \in Nat
      /\ Len(processes') = Len(processes) + 1
      /\ \A i \in 1..Len(processes) : processes'[i] = processes[i]
      /\ processes'[Len(processes) + 1] = [pid |-> p, restart_flag |-> TRUE]
  <2> DEFINE e == [pid |-> p, restart_flag |-> TRUE]
  <2>1. processes \in Seq(Element) /\ e \in Element
    BY DEF Element
  <2>2. processes' = Append(processes, e)
    BY <1>1 DEF PmAdd
  <2> HIDE DEF e
  <2>3. /\ processes' \in Seq(Element)
        /\ Len(processes) \in Nat
        /\ Len(processes') = Len(processes) + 1
        /\ \A i \in 1..Len(processes) : processes'[i] = processes[i]
        /\ processes'[Len(processes) + 1] = e
    BY <2>1, <2>2, AppendLemma
  <2>4. QED
    BY <2>3 DEF e
<1>3. pc = "loop" /\ UNCHANGED <<pc, cursor, pending>>
  BY DEF pm_fork_temporary
<1>4. TypeOK' /\ Fresh' /\ WalkedClean' /\ HeadSafe'
  BY <1>1, <1>2, <1>3 DEF Fresh, WalkedClean, HeadSafe, Occupant
<1>5. OthersTemporary'
  BY <1>2 DEF OthersTemporary
<1>6. PermanentIsHead'
  <2> SUFFICES ASSUME NEW q \in Pids, os'[q] = "permanent"
               PROVE  /\ Len(processes') >= 1
                      /\ processes'[1] = [pid |-> q, restart_flag |-> FALSE]
                      /\ \A i \in 2..Len(processes') : processes'[i].pid # q
    BY DEF PermanentIsHead
  <2>1. q # p /\ os[q] = "permanent"
    BY <1>1
  <2>2. /\ Len(processes) >= 1
        /\ processes[1] = [pid |-> q, restart_flag |-> FALSE]
        /\ \A i \in 2..Len(processes) : processes[i].pid # q
    BY <2>1 DEF PermanentIsHead
  <2>3. 1 \in 1..Len(processes)
    BY <2>2
  <2>4. ASSUME NEW i \in 2..Len(processes') PROVE processes'[i].pid # q
    <3>1. CASE i \in 2..Len(processes)
      BY <1>2, <2>2, <3>1
    <3>2. CASE i = Len(processes) + 1
      BY <1>2, <2>1, <3>2
    <3>3. QED
      BY <1>2, <2>4, <3>1, <3>2
  <2>5. QED
    BY <1>2, <2>2, <2>3, <2>4
<1>7. PendingRuns'
  BY <1>1, <1>3 DEF PendingRuns, Running
<1>8. Registered'
  <2> SUFFICES ASSUME NEW q \in Pids, os'[q] \in {"permanent", "temporary"},
                      q \notin pending'
               PROVE  \E i \in 1..Len(processes') :
                        processes'[i] = [pid |-> q, restart_flag |-> os'[q] = "temporary"]
    BY DEF Registered
  <2>1. CASE q = p
    <3>1. os'[q] = "temporary"
      BY <1>1, <2>1
    <3>2. Len(processes) + 1 \in 1..Len(processes')
      BY <1>2
    <3>3. QED
      BY <1>2, <2>1, <3>1, <3>2
  <2>2. CASE q # p
    <3>1. PICK i \in 1..Len(processes) :
            processes[i] = [pid |-> q, restart_flag |-> os[q] = "temporary"]
      BY <1>1, <1>3, <2>2 DEF Registered
    <3>2. os'[q] = os[q]
      BY <1>1, <2>2
    <3>3. QED
      BY <1>2, <3>1, <3>2
  <2>3. QED
    BY <2>1, <2>2
<1>9. QED
  BY <1>4, <1>5, <1>6, <1>7, <1>8

\* In the walk: the child that runs under the pid to be killed gets its SIGINT,
\* and it is not the permanent one.
LEMMA SignalLemma ==
    ASSUME IInv, pc = "walk", cursor <= Len(processes), processes[cursor].restart_flag,
           Signal(processes[cursor].pid)
    PROVE  /\ processes[cursor].pid \in Pids
           /\ os[processes[cursor].pid] # "permanent"
           /\ pending \subseteq pending'
           /\ pending' \subseteq pending \cup {processes[cursor].pid}
           /\ Running(processes[cursor].pid) => processes[cursor].pid \in pending'
           /\ \A p \in pending' : Running(p) /\ os[p] # "permanent"
<1>1. processes[cursor] \in Element
  BY DEF IInv, TypeOK
<1>2. processes[cursor].pid \in Pids
  BY <1>1 DEF Element
<1>3. os[processes[cursor].pid] # "permanent"
  <2> SUFFICES ASSUME os[processes[cursor].pid] = "permanent" PROVE FALSE
    OBVIOUS
  <2>1. CASE cursor = 1
    <3>1. processes[1] = [pid |-> processes[1].pid, restart_flag |-> FALSE]
      BY <1>2, <2>1 DEF IInv, PermanentIsHead
    <3>2. ~processes[1].restart_flag
      BY <3>1
    <3>3. QED
      BY <2>1, <3>2
  <2>2. CASE cursor \in 2..Len(processes)
    BY <1>2, <2>2 DEF IInv, PermanentIsHead
  <2>3. QED
    BY <2>1, <2>2 DEF IInv, TypeOK
<1>4. QED
  BY <1>2, <1>3 DEF Signal, IInv, PendingRuns

LEMMA KillUnlinkIInv == IInv /\ KillUnlink => IInv'
<1> SUFFICES ASSUME IInv, KillUnlink PROVE IInv'
  OBVIOUS
<1>1. PICK i \in 2..Len(processes) : /\ IsFirst(processes, processes[cursor].pid, i)
                                     /\ processes' = Unlink(processes, i)
  BY DEF KillUnlink
<1>2. /\ pc = "walk" /\ cursor <= Len(processes) /\ processes[cursor].restart_flag
      /\ Signal(processes[cursor].pid) /\ UNCHANGED <<pc, cursor, os>>
  BY DEF KillUnlink
<1> USE DEF IInv, TypeOK
<1>3. /\ processes' \in Seq(Element)
      /\ Len(processes') = Len(processes) - 1
      /\ \A j \in 1..(Len(processes) - 1) :
           processes'[j] = IF j < i THEN processes[j] ELSE processes[j + 1]
  <2>1. processes \in Seq(Element) /\ i \in 1..Len(processes)
    OBVIOUS
  <2>2. /\ Unlink(processes, i) \in Seq(Element)
        /\ Len(Unlink(processes, i)) = Len(processes) - 1
        /\ \A j \in 1..(Len(processes) - 1) :
             Unlink(processes, i)[j] = IF j < i THEN processes[j] ELSE processes[j + 1]
    BY <2>1, UnlinkLemma
  <2>3. QED
    BY <1>1, <2>2
<1>4. /\ os[processes[cursor].pid] # "permanent"
      /\ pending \subseteq pending'
      /\ pending' \subseteq pending \cup {processes[cursor].pid}
      /\ processes[cursor].pid \in Pids
      /\ Running(processes[cursor].pid) => processes[cursor].pid \in pending'
      /\ \A p \in pending' : Running(p) /\ os[p] # "permanent"
  BY <1>2, SignalLemma
<1>5. processes[i].pid = processes[cursor].pid
  BY <1>1 DEF IsFirst
\* the entry found is not behind the cursor: it has the flag
<1>6. processes[i].restart_flag /\ i >= cursor
  BY <1>2 DEF OthersTemporary, WalkedClean
<1>7. TypeOK' /\ Fresh' /\ HeadSafe' /\ PendingRuns'
  <2>1. TypeOK'
    BY <1>2, <1>3, <1>4
  <2>2. PendingRuns'
    BY <1>2, <1>4 DEF PendingRuns, Running
  <2>3. QED
    BY <1>2, <2>1, <2>2 DEF Fresh, HeadSafe
<1>8. OthersTemporary'
  BY <1>3 DEF OthersTemporary
<1>9. PermanentIsHead'
  <2> SUFFICES ASSUME NEW p \in Pids, os[p] = "permanent"
               PROVE  /\ Len(processes') >= 1
                      /\ processes'[1] = [pid |-> p, restart_flag |-> FALSE]
                      /\ \A j \in 2..Len(processes') : processes'[j].pid # p
    BY <1>2 DEF PermanentIsHead
  <2>1. /\ Len(processes) >= 2
        /\ processes[1] = [pid |-> p, restart_flag |-> FALSE]
        /\ \A j \in 2..Len(processes) : processes[j].pid # p
    BY DEF PermanentIsHead
  <2>2. QED
    BY <1>3, <2>1
<1>10. WalkedClean'
  BY <1>2, <1>3, <1>6 DEF WalkedClean
<1>11. Registered'
  <2> SUFFICES ASSUME NEW q \in Pids, os[q] \in {"permanent", "temporary"},
                      q \notin pending'
               PROVE  \E j \in 1..Len(processes') :
                        processes'[j] = [pid |-> q, restart_flag |-> os[q] = "temporary"]
    BY <1>2 DEF Registered
  <2>1. PICK k \in 1..Len(processes) :
          processes[k] = [pid |-> q, restart_flag |-> os[q] = "temporary"]
    BY <1>2, <1>4 DEF Registered
  <2>2. q # processes[cursor].pid
    BY <1>4 DEF Running
  <2>3. k # i
    BY <1>5, <2>1, <2>2
  <2>4. CASE k < i
    BY <1>3, <2>1, <2>4
  <2>5. CASE k > i
    <3>1. k - 1 \in 1..(Len(processes) - 1) /\ ~(k - 1 < i)
      BY <2>5
    <3>2. processes'[k - 1] = processes[k]
      BY <1>3, <3>1
    <3>3. QED
      BY <1>3, <2>1, <3>1, <3>2
  <2>6. QED
    BY <2>3, <2>4, <2>5
<1>12. QED
  BY <1>7, <1>8, <1>9, <1>10, <1>11

LEMMA KillHeadIInv == IInv /\ KillHead => IInv'
<1> SUFFICES ASSUME IInv, KillHead PROVE IInv'
  OBVIOUS
<1>1. /\ pc = "walk" /\ cursor <= Len(processes) /\ processes[cursor].restart_flag
      /\ Signal(processes[cursor].pid) /\ UNCHANGED <<cursor, os>>
      /\ processes[1].pid = processes[cursor].pid
  BY DEF KillHead
<1>2. /\ os[processes[cursor].pid] # "permanent"
      /\ pending' \subseteq pending \cup {processes[cursor].pid}
      /\ processes[cursor].pid \in Pids
      /\ \A p \in pending' : Running(p) /\ os[p] # "permanent"
      /\ Running(processes[cursor].pid) => processes[cursor].pid \in pending'
      /\ pending \subseteq pending'
  BY <1>1, SignalLemma
<1> USE DEF IInv, TypeOK
\* The head would be the permanent child, and it has another pid.
<1>3. \A p \in Pids : os[p] # "permanent"
  <2> SUFFICES ASSUME NEW p \in Pids, os[p] = "permanent" PROVE FALSE
    OBVIOUS
  <2>1. processes[1] = [pid |-> p, restart_flag |-> FALSE]
    BY DEF PermanentIsHead
  <2>2. processes[1].pid = p
    BY <2>1
  <2>3. QED
    BY <1>1, <1>2, <2>2
<1>4. PendingRuns'
  BY <1>1, <1>2 DEF PendingRuns, Running
<1>5. PermanentIsHead' /\ HeadSafe'
  BY <1>1, <1>3 DEF PermanentIsHead, HeadSafe
<1>6. CASE pc' = "crashed" /\ UNCHANGED processes
  <2>1. TypeOK' /\ Fresh' /\ OthersTemporary' /\ WalkedClean' /\ Registered'
    BY <1>1, <1>2, <1>6 DEF Fresh, OthersTemporary, WalkedClean, Registered
  <2>2. QED
    BY <1>4, <1>5, <2>1
<1>7. CASE cursor = Len(processes) /\ pc' = "loop" /\ processes' = <<>>
  <2>1. TypeOK' /\ Fresh' /\ OthersTemporary' /\ WalkedClean'
    BY <1>1, <1>2, <1>7 DEF Fresh, OthersTemporary, WalkedClean
  <2>2. Registered'
    <3> SUFFICES ASSUME NEW q \in Pids, os[q] \in {"permanent", "temporary"},
                        q \notin pending'
                 PROVE  FALSE
      BY <1>1 DEF Registered
    <3>1. os[q] = "temporary" /\ q \notin pending
      BY <1>2, <1>3
    <3>2. PICK i \in 1..Len(processes) :
            processes[i] = [pid |-> q, restart_flag |-> TRUE]
      BY <1>1, <3>1 DEF Registered
    <3>3. processes[i].restart_flag /\ processes[i].pid = q
      BY <3>2
    <3>4. i = cursor
      BY <1>1, <1>7, <3>3 DEF WalkedClean
    <3>5. QED
      BY <1>2, <3>1, <3>3, <3>4 DEF Running
  <2>3. QED
    BY <1>4, <1>5, <2>1, <2>2
<1>8. QED
  BY <1>6, <1>7 DEF KillHead

\* The steps of the walk that leave the list alone.
LEMMA KillOtherIInv == IInv /\ (KillBegin \/ KillSkip \/ KillEnd) => IInv'
<1> SUFFICES ASSUME IInv, KillBegin \/ KillSkip \/ KillEnd PROVE IInv'
  OBVIOUS
<1> USE DEF IInv
<1>1. UNCHANGED <<processes, os, pending>>
  BY DEF KillBegin, KillSkip, KillEnd
<1>2. pc \in {"loop", "walk"} /\ pc' \in {"loop", "walk"}
  BY DEF KillBegin, KillSkip, KillEnd
<1>3. TypeOK'
  BY <1>1, <1>2 DEF KillBegin, KillSkip, KillEnd, TypeOK
<1>4. OthersTemporary' /\ PermanentIsHead' /\ PendingRuns'
  BY <1>1 DEF OthersTemporary, PermanentIsHead, PendingRuns, Running
<1>5. Fresh' /\ HeadSafe' /\ Registered'
  BY <1>1, <1>2 DEF Fresh, HeadSafe, Registered
<1>6. WalkedClean'
  BY <1>1, <1>2 DEF WalkedClean, KillBegin, KillSkip, KillEnd, TypeOK
<1>7. QED
  BY <1>3, <1>4, <1>5, <1>6

\* A process that ends, whether by itself or because of its SIGINT.
LEMMA ExitIInv ==
    ASSUME NEW p \in Pids, IInv, ProcessExit(p)
    PROVE  IInv'
<1>1. UNCHANGED <<pc, processes, cursor>> /\ pending' = pending \ {p}
  BY DEF ProcessExit
<1>2. /\ \A q \in Pids : q # p => os'[q] = os[q]
      /\ os'[p] \in {"zombie", "free"}
      /\ os' \in [Pids -> Occupant]
  BY DEF ProcessExit, Remains, IInv, TypeOK, Occupant
<1> USE DEF IInv
<1>3. TypeOK' /\ OthersTemporary' /\ WalkedClean'
  BY <1>1, <1>2 DEF TypeOK, OthersTemporary, WalkedClean
<1>4. Fresh' /\ HeadSafe' /\ PendingRuns'
  BY <1>1, <1>2 DEF TypeOK, Fresh, Own, HeadSafe, PendingRuns, Running
<1>5. PermanentIsHead'
  BY <1>1, <1>2 DEF PermanentIsHead
<1>6. Registered'
  BY <1>1, <1>2 DEF Registered
<1>7. QED
  BY <1>3, <1>4, <1>5, <1>6

LEMMA ReapIInv == IInv /\ sig_chld => IInv'
<1> SUFFICES ASSUME IInv, sig_chld PROVE IInv'
  OBVIOUS
<1>1. UNCHANGED <<pc, processes, cursor, pending>>
  BY DEF sig_chld
<1>2. /\ \A q \in Pids : os[q] # "zombie" => os'[q] = os[q]
      /\ \A q \in Pids : os[q] = "zombie" => os'[q] = "free"
      /\ os' \in [Pids -> Occupant]
  BY DEF sig_chld, IInv, TypeOK, Occupant
<1> USE DEF IInv
<1>3. TypeOK' /\ OthersTemporary' /\ WalkedClean'
  BY <1>1, <1>2 DEF TypeOK, OthersTemporary, WalkedClean
<1>4. Fresh' /\ HeadSafe' /\ PendingRuns'
  BY <1>1, <1>2 DEF TypeOK, Fresh, Own, HeadSafe, PendingRuns, Running
<1>5. PermanentIsHead'
  BY <1>1, <1>2 DEF PermanentIsHead
<1>6. Registered'
  BY <1>1, <1>2 DEF Registered
<1>7. QED
  BY <1>3, <1>4, <1>5, <1>6

\* Processes the dispatcher did not fork.
LEMMA OutsiderIInv ==
    ASSUME NEW p \in Pids, IInv, HandlerForks(p) \/ StrangerStarts(p)
    PROVE  IInv'
<1>1. UNCHANGED <<pc, processes, cursor, pending>> /\ os[p] = "free"
  BY DEF HandlerForks, StrangerStarts
<1>2. /\ \A q \in Pids : q # p => os'[q] = os[q]
      /\ os'[p] \in {"session", "stranger"}
      /\ os' \in [Pids -> Occupant]
  BY DEF HandlerForks, StrangerStarts, IInv, TypeOK, Occupant
<1> USE DEF IInv
<1>3. TypeOK' /\ OthersTemporary' /\ WalkedClean'
  BY <1>1, <1>2 DEF TypeOK, OthersTemporary, WalkedClean
<1>4. Fresh' /\ HeadSafe' /\ PendingRuns'
  BY <1>1, <1>2 DEF TypeOK, Fresh, Own, HeadSafe, PendingRuns, Running
<1>5. PermanentIsHead'
  BY <1>1, <1>2 DEF PermanentIsHead
<1>6. Registered'
  BY <1>1, <1>2 DEF Registered
<1>7. QED
  BY <1>3, <1>4, <1>5, <1>6

LEMMA StutterIInv == IInv /\ UNCHANGED vars => IInv'
  BY DEF vars, IInv, TypeOK, Fresh, OthersTemporary, PermanentIsHead, PendingRuns,
         WalkedClean, HeadSafe, Registered, Running, Own

LEMMA NextIInv == IInv /\ [Next]_vars => IInv'
<1> SUFFICES ASSUME IInv, [Next]_vars PROVE IInv'
  OBVIOUS
<1>1. CASE pm_fork_permanent
  BY <1>1, ForkPermanentIInv
<1>2. CASE pm_fork_temporary
  BY <1>2, ForkTemporaryIInv
<1>3. CASE pm_kill_temporary
  BY <1>3, KillUnlinkIInv, KillHeadIInv, KillOtherIInv DEF pm_kill_temporary
<1>4. CASE sig_chld
  BY <1>4, ReapIInv
<1>5. ASSUME NEW p \in Pids, ProcessExit(p) \/ Deliver(p) PROVE IInv'
  BY <1>5, ExitIInv DEF Deliver
<1>6. ASSUME NEW p \in Pids, HandlerForks(p) \/ StrangerStarts(p) PROVE IInv'
  BY <1>6, OutsiderIInv
<1>7. CASE UNCHANGED vars
  BY <1>7, StutterIInv
<1>8. QED
  BY <1>1, <1>2, <1>3, <1>4, <1>5, <1>6, <1>7 DEF Next

THEOREM Invariance == Spec => []IInv
  BY InitIInv, NextIInv, PTL DEF Spec

-----------------------------------------------------------------------------
\* The variables keep their types.
THEOREM TypeCorrect == Spec => []TypeOK
  BY Invariance, PTL DEF IInv

\* While the DNS worker lives, pm_del never frees the head twice.
THEOREM HeadIsSafe == Spec => []HeadSafe
  BY Invariance, PTL DEF IInv

\* Every child that was not signalled is in the list, with its flag.
THEOREM AllRegistered == Spec => []Registered
  BY Invariance, PTL DEF IInv

\* No walk ever signals the DNS worker.
THEOREM SparesPermanent == Spec => PermanentSpared
<1>1. IInv /\ [Next]_vars =>
        [\A p \in Pids : os[p] = "permanent" => p \notin pending']_vars
  <2> SUFFICES ASSUME IInv, [Next]_vars, NEW p \in Pids, os[p] = "permanent"
               PROVE  p \notin pending'
    OBVIOUS
  <2>1. p \notin pending
    BY DEF IInv, PendingRuns
  <2>2. CASE KillUnlink \/ KillHead
    BY <2>2, SignalLemma DEF KillUnlink, KillHead
  <2>3. CASE pending' \subseteq pending
    BY <2>1, <2>3
  <2>4. KillUnlink \/ KillHead \/ pending' \subseteq pending
    BY DEF Next, vars, pm_fork_permanent, pm_fork_temporary, pm_kill_temporary,
           KillBegin, KillSkip, KillEnd, sig_chld, ProcessExit, Deliver, HandlerForks,
           StrangerStarts
  <2>5. QED
    BY <2>2, <2>3, <2>4
<1>2. QED
  BY <1>1, Invariance, PTL DEF Spec, PermanentSpared

\* A walk that ends has signalled every handler that still runs, and leaves
\* no entry to be killed.
THEOREM WalkIsComplete == Spec => WalkComplete
<1>1. IInv /\ [Next]_vars =>
        [pc = "walk" /\ pc' = "loop" =>
           /\ \A p \in Pids : os'[p] = "temporary" => p \in pending'
           /\ \A i \in 1..Len(processes') : ~processes'[i].restart_flag]_vars
  <2> SUFFICES ASSUME IInv, [Next]_vars, pc = "walk", pc' = "loop"
               PROVE  /\ \A p \in Pids : os'[p] = "temporary" => p \in pending'
                      /\ \A i \in 1..Len(processes') : ~processes'[i].restart_flag
    OBVIOUS
  <2>1. KillEnd \/ (KillHead /\ cursor = Len(processes) /\ processes' = <<>>)
    BY DEF Next, vars, pm_fork_permanent, pm_fork_temporary, pm_kill_temporary, KillBegin,
           KillSkip, KillUnlink, KillHead, sig_chld, ProcessExit, Deliver, HandlerForks,
           StrangerStarts
  <2>2. os' = os
    BY <2>1 DEF KillEnd, KillHead
  <2> USE DEF IInv, TypeOK
  <2>3. ASSUME NEW p \in Pids, os[p] = "temporary", p \notin pending
        PROVE  \E i \in 1..Len(processes) : i >= cursor /\ processes[i].pid = p
    <3>1. PICK i \in 1..Len(processes) :
            processes[i] = [pid |-> p, restart_flag |-> TRUE]
      BY <2>3 DEF Registered
    <3>2. processes[i].restart_flag /\ processes[i].pid = p
      BY <3>1
    <3>3. QED
      BY <3>2 DEF WalkedClean
  <2>4. CASE KillEnd
    <3>1. cursor > Len(processes) /\ processes' = processes /\ pending' = pending
      BY <2>4 DEF KillEnd
    <3>2. QED
      BY <2>2, <2>3, <3>1 DEF WalkedClean
  <2>5. CASE KillHead /\ cursor = Len(processes) /\ processes' = <<>>
    <3>1. /\ processes[cursor].restart_flag
          /\ Signal(processes[cursor].pid)
      BY <2>5 DEF KillHead
    <3>2. /\ pending \subseteq pending'
          /\ Running(processes[cursor].pid) => processes[cursor].pid \in pending'
      BY <2>5, <3>1, SignalLemma
    <3>3. ASSUME NEW p \in Pids, os[p] = "temporary" PROVE p \in pending'
      <4>1. CASE p \in pending
        BY <3>2, <4>1
      <4>2. CASE p \notin pending
        <5>1. processes[cursor].pid = p
          BY <2>3, <2>5, <3>3, <4>2
        <5>2. QED
          BY <3>2, <3>3, <5>1 DEF Running
      <4>3. QED
        BY <4>1, <4>2
    <3>4. QED
      BY <2>2, <2>5, <3>3
  <2>6. QED
    BY <2>1, <2>4, <2>5
<1>2. QED
  BY <1>1, Invariance, PTL DEF Spec, WalkComplete
=============================================================================
