---------------------------- MODULE ProcessManager ----------------------------
(***************************************************************************)
(* The process manager of the dispatcher (process_manager.c) together with *)
(* the part of the operating system it depends on: process ids that are    *)
(* handed out again once a child was reaped (signals.c), SIGINT as an      *)
(* asynchronous event, and children that fork children of their own.       *)
(*                                                                         *)
(* The doubly linked list of struct pl_element is a sequence, in list      *)
(* order.  A pl_element that pm_kill_temporary still reads after pm_del    *)
(* freed it keeps its next pointer (the allocator overwrites only the      *)
(* first 16 bytes of a free chunk, next is at offset 16), so the cursor of *)
(* the walk is an index into the sequence.                                 *)
(***************************************************************************)
EXTENDS Naturals, Sequences

CONSTANTS Pids,       \* the process ids the operating system hands out
          MaxListed   \* bound of the model on the length of the list

ASSUME MaxListedAssumption == MaxListed \in Nat

VARIABLES pc,         \* where the dispatcher process is
          processes,  \* pm->processes, the children in list order
          cursor,     \* ple of pm_kill_temporary, as an index
          os,         \* what runs under each pid
          pending     \* pids with an undelivered SIGINT

vars == <<pc, processes, cursor, os, pending>>

Element == [pid : Pids, restart_flag : BOOLEAN]

\* "session": a child that a handler forked through its own copy of the
\* process manager (the TLS interceptor); "stranger": a process that has
\* nothing to do with the trumanbox.
Occupant == {"free", "permanent", "temporary", "session", "stranger", "zombie"}

Running(p) == os[p] \in {"permanent", "temporary", "session", "stranger"}

TypeOK ==
    /\ pc \in {"init", "loop", "walk", "crashed"}
    /\ processes \in Seq(Element)
    /\ cursor \in Nat \ {0}
    /\ os \in [Pids -> Occupant]
    /\ pending \subseteq Pids

-----------------------------------------------------------------------------
\* Operators on the list

\* Fault: the new element is linked in at the front
PmAdd_Front(list, pid, restart) == <<[pid |-> pid, restart_flag |-> restart]>> \o list

PmAdd(list, pid, restart) == Append(list, [pid |-> pid, restart_flag |-> restart])

\* pm_del unlinks the first element with the pid
IsFirst(list, pid, i) ==
    /\ i \in 1..Len(list)
    /\ list[i].pid = pid
    /\ \A j \in 1..(i - 1) : list[j].pid # pid

\* Fault: the element after the one found is unlinked
Unlink_Next(list, i) ==
    [j \in 1..(Len(list) - 1) |-> IF j <= i THEN list[j] ELSE list[j + 1]]

Unlink(list, i) ==
    [j \in 1..(Len(list) - 1) |-> IF j < i THEN list[j] ELSE list[j + 1]]

-----------------------------------------------------------------------------
Init ==
    /\ pc = "init"
    /\ processes = <<>>
    /\ cursor = 1
    /\ os = [p \in Pids |-> "free"]
    /\ pending = {}

\* dns_start_resolver: the only permanent child, forked before the dispatcher
\* loop starts.  Fork adds nothing when fork() fails, and main goes on.
pm_fork_permanent ==
    /\ pc = "init"
    /\ pc' = "loop"
    /\ \/ \E p \in Pids :
            /\ os[p] = "free"
            /\ os' = [os EXCEPT ![p] = "permanent"]
            /\ processes' = PmAdd(processes, p, FALSE)
       \/ UNCHANGED <<os, processes>>
    /\ UNCHANGED <<cursor, pending>>

\* One child per connection or datagram; a failed fork changes nothing.
pm_fork_temporary ==
    /\ pc = "loop"
    /\ Len(processes) < MaxListed
    /\ \E p \in Pids :
         /\ os[p] = "free"
         /\ os' = [os EXCEPT ![p] = "temporary"]
         /\ processes' = PmAdd(processes, p, TRUE)
    /\ UNCHANGED <<pc, cursor, pending>>

\* A stop or restart command starts the walk over the list.
KillBegin ==
    /\ pc = "loop"
    /\ pc' = "walk"
    /\ cursor' = 1
    /\ UNCHANGED <<processes, os, pending>>

\* ple->restart_flag is 0: the element stays
KillSkip ==
    /\ pc = "walk"
    /\ cursor <= Len(processes)
    /\ ~processes[cursor].restart_flag
    /\ cursor' = cursor + 1
    /\ UNCHANGED <<pc, processes, os, pending>>

\* kill() on a pid nobody runs under fails with ESRCH
Signal(pid) == pending' = IF Running(pid) THEN pending \cup {pid} ELSE pending

\* Fault: the successor of ple is skipped after its removal
KillUnlink_Skips ==
    /\ pc = "walk"
    /\ cursor <= Len(processes)
    /\ processes[cursor].restart_flag
    /\ Signal(processes[cursor].pid)
    /\ \E i \in 2..Len(processes) :
         /\ IsFirst(processes, processes[cursor].pid, i)
         /\ processes' = Unlink(processes, i)
    /\ cursor' = cursor + 1
    /\ UNCHANGED <<pc, os>>

\* Fault: the element is removed without kill()
KillUnlink_NoKill ==
    /\ pc = "walk"
    /\ cursor <= Len(processes)
    /\ processes[cursor].restart_flag
    /\ \E i \in 2..Len(processes) :
         /\ IsFirst(processes, processes[cursor].pid, i)
         /\ processes' = Unlink(processes, i)
    /\ UNCHANGED <<pc, cursor, os, pending>>

\* The element pm_del finds has a predecessor: it is unlinked, and ple->next
\* is now at the position the cursor already has.
KillUnlink ==
    /\ pc = "walk"
    /\ cursor <= Len(processes)
    /\ processes[cursor].restart_flag
    /\ Signal(processes[cursor].pid)
    /\ \E i \in 2..Len(processes) :
         /\ IsFirst(processes, processes[cursor].pid, i)
         /\ processes' = Unlink(processes, i)
    /\ UNCHANGED <<pc, cursor, os>>

\* Fault: restart_flag is not consulted
KillHead_AnyFlag ==
    /\ pc = "walk"
    /\ cursor <= Len(processes)
    /\ Signal(processes[cursor].pid)
    /\ processes[1].pid = processes[cursor].pid
    /\ pc' = "crashed"
    /\ UNCHANGED <<processes, cursor, os>>

\* The element pm_del finds is the head: it is freed, pm->processes becomes
\* NULL, and the freed element is read, written through and freed a second
\* time.  The allocator aborts, or lets it pass; then the next pm_del of the
\* walk finds no processes stored and exits, and only a walk that was at its
\* last element comes to its end, with every entry of the list forgotten.
KillHead ==
    /\ pc = "walk"
    /\ cursor <= Len(processes)
    /\ processes[cursor].restart_flag
    /\ Signal(processes[cursor].pid)
    /\ processes[1].pid = processes[cursor].pid
    /\ \/ pc' = "crashed" /\ UNCHANGED processes
       \/ /\ cursor = Len(processes)
          /\ pc' = "loop"
          /\ processes' = <<>>
    /\ UNCHANGED <<cursor, os>>

KillEnd ==
    /\ pc = "walk"
    /\ cursor > Len(processes)
    /\ pc' = "loop"
    /\ UNCHANGED <<processes, cursor, os, pending>>

pm_kill_temporary == KillBegin \/ KillSkip \/ KillUnlink \/ KillHead \/ KillEnd

-----------------------------------------------------------------------------
\* What a pid is after its process ended: the dispatcher's own children stay
\* zombies until sig_chld waits for them, the others are somebody else's.
Remains(p) == IF os[p] \in {"permanent", "temporary"} THEN "zombie" ELSE "free"

ProcessExit(p) ==
    /\ Running(p)
    /\ os' = [os EXCEPT ![p] = Remains(p)]
    /\ pending' = pending \ {p}
    /\ UNCHANGED <<pc, processes, cursor>>

\* SIGINT ends the receiver: handlers keep the default action, sig_int of the
\* DNS worker exits.
Deliver(p) ==
    /\ p \in pending
    /\ ProcessExit(p)

\* The waitpid loop collects every zombie, wherever the dispatcher is.  No
\* call to pm_del: the entries of the dead children stay in the list.
sig_chld ==
    /\ pc # "crashed"
    /\ \E p \in Pids : os[p] = "zombie"
    /\ os' = [p \in Pids |-> IF os[p] = "zombie" THEN "free" ELSE os[p]]
    /\ UNCHANGED <<pc, processes, cursor, pending>>

\* tcphandler_handle_ssl runs pm_fork_temporary in the handler process
HandlerForks(p) ==
    /\ os[p] = "free"
    /\ \E h \in Pids : os[h] = "temporary"
    /\ os' = [os EXCEPT ![p] = "session"]
    /\ UNCHANGED <<pc, processes, cursor, pending>>

StrangerStarts(p) ==
    /\ os[p] = "free"
    /\ os' = [os EXCEPT ![p] = "stranger"]
    /\ UNCHANGED <<pc, processes, cursor, pending>>

Next ==
    \/ pm_fork_permanent
    \/ pm_fork_temporary
    \/ pm_kill_temporary
    \/ sig_chld
    \/ \E p \in Pids : \/ ProcessExit(p)
                       \/ Deliver(p)
                       \/ HandlerForks(p)
                       \/ StrangerStarts(p)

Spec == Init /\ [][Next]_vars

\* The walk contains no blocking call, and the kernel delivers a signal to a
\* process that is scheduled again.
Fairness ==
    /\ WF_vars(KillSkip \/ KillUnlink \/ KillHead \/ KillEnd)
    /\ \A p \in Pids : WF_vars(Deliver(p))

FairSpec == Spec /\ Fairness

-----------------------------------------------------------------------------
\* Safety

\* As long as the DNS worker lives, no sequence of forks, exits, reaped
\* children and recycled pids brings pm_del (process_manager.c:97-106) to the
\* branch that frees the head of the list twice.
HeadSafe ==
    (\E p \in Pids : os[p] = "permanent") => pc # "crashed"

\* Every child the dispatcher forked and has not sent SIGINT is in the list
\* with the flag it was forked with, so the next stop or restart reaches it.
Registered ==
    pc # "crashed" =>
      \A p \in Pids : os[p] \in {"permanent", "temporary"} /\ p \notin pending =>
        \E i \in 1..Len(processes) :
          processes[i] = [pid |-> p, restart_flag |-> os[p] = "temporary"]

\* When the walk of pm_kill_temporary ends, every handler that still runs has
\* its SIGINT, and no entry to be killed is left in the list: the cursor
\* skips nothing although elements are unlinked under it.
WalkComplete ==
    [][pc = "walk" /\ pc' = "loop" =>
         /\ \A p \in Pids : os'[p] = "temporary" => p \in pending'
         /\ \A i \in 1..Len(processes') : ~processes'[i].restart_flag]_vars

\* A stop or restart never signals the DNS worker, whatever pids its dead
\* children left in the list.
PermanentSpared ==
    [][\A p \in Pids : os[p] = "permanent" => p \notin pending']_vars

\* Comment of process_manager.c:18: restart_flag "stores whether a process
\* needs to be killed on pm_kill_temporary".  A TLS interceptor is forked with
\* the flag set, so once a walk with an intact list is over, it should have
\* its SIGINT.
SessionsKilled ==
    [][pc = "walk" /\ pc' = "loop" /\ (\E d \in Pids : os[d] = "permanent") =>
         \A p \in Pids : os'[p] = "session" => p \in pending']_vars

\* Liveness

\* Every handler that runs when a stop or restart begins comes to its end
\* (or the dispatcher itself dies in pm_del), however the exits, the reaping
\* and the reuse of pids interleave with the walk.
HandlersEnd ==
    \A p \in Pids :
      (pc = "walk" /\ os[p] = "temporary") ~> (os[p] # "temporary" \/ pc = "crashed")
=============================================================================
