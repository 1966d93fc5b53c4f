------------------------------ MODULE SampleLog -------------------------------
(***************************************************************************)
(* The samples of the PostgreSQL logger (log_postgres.c): the setting      *)
(* CURRENT_SAMPLE, the table malwaresamples, and the rows that handlers    *)
(* and the DNS worker file under the current sample while the dispatcher   *)
(* (dispatching.c) obeys restart, start and stop commands.  The program is *)
(* run again and again on the same database, in the test mode or not.      *)
(*                                                                         *)
(* Every statement goes to the database on a connection of its own and is  *)
(* atomic there.  Any of them may fail, and any that was executed may be   *)
(* reported as failed.  A log statement reads the setting when it is       *)
(* executed.  The walk that kills the handlers is one step here (module    *)
(* ProcessManager has its detail): it leaves handlers doomed, and what a   *)
(* doomed handler, or a last statement of its, still does comes before its *)
(* end.                                                                    *)
(***************************************************************************)
EXTENDS Integers, Sequences

CONSTANTS Handlers,    \* slots for handler processes
          FirstNumber, \* the number that was stored when the tables were made
          MaxCommands  \* bound of the model on starts and commands

ASSUME FirstNumberAssumption == FirstNumber \in Int
ASSUME MaxCommandsAssumption == MaxCommands \in Nat

VARIABLES testmode,   \* [logging] testmode is not "0"
          at,         \* the next statement of the dispatcher, "idle", or "down"
          cmd,        \* the command under way
          obeyed,     \* starts of the program and commands so far
          setting,    \* value of CURRENT_SAMPLE
          datasets,   \* rows of malwaresamples, oldest first
          filed,      \* what log rows were filed under
          handler,    \* what each handler slot is
          era,        \* history: how often the test mode has set the number back
          counted,    \* history: the last update was executed
          missing,    \* history: numbers whose dataset was not stored
          allDone     \* history: no statement of the dispatcher failed

vars == <<testmode, at, cmd, obeyed, setting, datasets, filed, handler,
          era, counted, missing, allDone>>
history == <<era, counted, missing, allDone>>

\* Numbers repeat after they were set back, so history keeps them with the era.
Number == [era : Nat, id : Int]
Dataset == [era : Nat, id : Int, ended : BOOLEAN, counted : BOOLEAN,
            by : {"boot", "restart", "start"}]

TypeOK ==
    /\ testmode \in BOOLEAN
    /\ at \in {"down", "idle", "finish", "update", "insert"}
    /\ cmd \in {"boot", "restart", "start", "stop"}
    /\ obeyed \in 0 .. MaxCommands
    /\ setting \in Int
    /\ datasets \in Seq(Dataset)
    /\ filed \subseteq Number
    /\ handler \in [Handlers -> {"free", "running", "doomed", "orphan"}]
    /\ era \in Nat
    /\ counted \in BOOLEAN
    /\ missing \subseteq Number
    /\ allDone \in BOOLEAN

Current == [era |-> era, id |-> setting]

\* The tables as setupdb.sh makes them, with the number stored by hand
Init ==
    /\ testmode = FALSE
    /\ at = "down"
    /\ cmd = "boot"
    /\ obeyed = 0
    /\ setting = FirstNumber
    /\ datasets = <<>>
    /\ filed = {}
    /\ handler = [h \in Handlers |-> "free"]
    /\ era = 0
    /\ counted = FALSE
    /\ missing = {}
    /\ allDone = TRUE

-----------------------------------------------------------------------------
\* The dispatcher

\* disp_run begins with create_log, in the mode of the configuration.
Boot ==
    /\ at = "down"
    /\ obeyed < MaxCommands
    /\ obeyed' = obeyed + 1
    /\ cmd' = "boot"
    /\ at' = "update"
    /\ testmode' \in BOOLEAN
    /\ UNCHANGED <<setting, datasets, filed, handler, history>>

\* It ends only by a signal, an exit() or a crash, at any statement; handlers and
\* the DNS worker live on, and no later dispatcher knows them.
Dies ==
    /\ at # "down"
    /\ at' = "down"
    /\ handler' = [h \in Handlers |->
         IF handler[h] = "running" THEN "orphan" ELSE handler[h]]
    /\ missing' = IF at = "insert" THEN missing \cup {Current} ELSE missing
    /\ UNCHANGED <<testmode, cmd, obeyed, setting, datasets, filed, era, counted, allDone>>

Doomed == [h \in Handlers |-> IF handler[h] = "running" THEN "doomed" ELSE handler[h]]

\* Fault: restart leaves the handlers alone, like start does
Command_Spares(c) ==
    /\ at = "idle"
    /\ obeyed < MaxCommands
    /\ obeyed' = obeyed + 1
    /\ cmd' = c
    /\ handler' = IF c = "stop" THEN Doomed ELSE handler
    /\ at' = IF c = "start" THEN "update" ELSE "finish"
    /\ UNCHANGED <<testmode, setting, datasets, filed, history>>

\* restart and stop first kill the handlers; start does not, and it does not
\* end the current sample either.
Command(c) ==
    /\ at = "idle"
    /\ obeyed < MaxCommands
    /\ obeyed' = obeyed + 1
    /\ cmd' = c
    /\ handler' = IF c = "start" THEN handler ELSE Doomed
    /\ at' = IF c = "start" THEN "update" ELSE "finish"
    /\ UNCHANGED <<testmode, setting, datasets, filed, history>>

Ended(n) == [i \in DOMAIN datasets |->
    IF datasets[i].id = n THEN [datasets[i] EXCEPT !.ended = TRUE] ELSE datasets[i]]

\* Fault: the dataset of the sample before the current one is ended
lpg_finish_log_Previous ==
    /\ at = "finish"
    /\ datasets' = Ended(setting - 1)
    /\ at' = IF cmd = "restart" THEN "update" ELSE "idle"
    /\ UNCHANGED <<testmode, cmd, obeyed, setting, filed, handler, history>>

\* Every dataset with the current number is ended, again if it was before.
\* The caller ignores a failure.
lpg_finish_log ==
    /\ at = "finish"
    /\ \E executed, reported \in BOOLEAN :
         /\ reported => executed
         /\ datasets' = IF executed THEN Ended(setting) ELSE datasets
         /\ allDone' = (allDone /\ reported)
    /\ at' = IF cmd = "restart" THEN "update" ELSE "idle"
    /\ UNCHANGED <<testmode, cmd, obeyed, setting, filed, handler, era, counted, missing>>

\* create_log knows the test mode; start opens a sample in any mode
Reset == testmode /\ cmd # "start"

Counts ==
    /\ setting' = IF Reset THEN -1 ELSE setting + 1
    /\ era' = IF Reset THEN era + 1 ELSE era
    /\ counted' = TRUE

\* Fault: only start stores a dataset
Update_NoInsert ==
    /\ at = "update"
    /\ Counts
    /\ at' = IF cmd = "start" THEN "insert" ELSE "idle"
    /\ UNCHANGED <<testmode, cmd, obeyed, datasets, filed, handler, missing, allDone>>

Update ==
    /\ at = "update"
    /\ Counts
    /\ at' = IF Reset THEN "idle" ELSE "insert"
    /\ UNCHANGED <<testmode, cmd, obeyed, datasets, filed, handler, missing, allDone>>

\* The reply of an update that was executed is lost: create_log gives up.
UpdateLost ==
    /\ at = "update"
    /\ Counts
    /\ at' = IF cmd = "start" THEN "insert" ELSE "idle"
    /\ missing' = IF cmd = "start" \/ Reset THEN missing ELSE missing \cup {Current'}
    /\ allDone' = FALSE
    /\ UNCHANGED <<testmode, cmd, obeyed, datasets, filed, handler>>

\* Fault: create_log ignores the failure, like start does
UpdateFails_Ignored ==
    /\ at = "update"
    /\ counted' = FALSE
    /\ allDone' = FALSE
    /\ at' = IF Reset THEN "idle" ELSE "insert"
    /\ UNCHANGED <<testmode, cmd, obeyed, setting, datasets, filed, handler, era, missing>>

\* create_log gives up; start inserts another dataset for the same number.
UpdateFails ==
    /\ at = "update"
    /\ counted' = FALSE
    /\ allDone' = FALSE
    /\ at' = IF cmd = "start" THEN "insert" ELSE "idle"
    /\ UNCHANGED <<testmode, cmd, obeyed, setting, datasets, filed, handler, era, missing>>

\* Nobody looks at the result.
Insert ==
    /\ at = "insert"
    /\ datasets' = Append(datasets, [era |-> era, id |-> setting, ended |-> FALSE,
                                     counted |-> counted, by |-> cmd])
    /\ allDone' \in {allDone, FALSE}
    /\ at' = "idle"
    /\ UNCHANGED <<testmode, cmd, obeyed, setting, filed, handler, era, counted, missing>>

InsertFails ==
    /\ at = "insert"
    /\ missing' = missing \cup {Current}
    /\ allDone' = FALSE
    /\ at' = "idle"
    /\ UNCHANGED <<testmode, cmd, obeyed, setting, datasets, filed, handler, era, counted>>

\* No new handler while a command is under way
pm_fork_temporary(h) ==
    /\ at = "idle"
    /\ handler[h] = "free"
    /\ handler' = [handler EXCEPT ![h] = "running"]
    /\ UNCHANGED <<testmode, at, cmd, obeyed, setting, datasets, filed, history>>

-----------------------------------------------------------------------------
\* The other processes

\* The row takes the number that is current when the statement is executed.
FileRow ==
    /\ filed' = filed \cup {Current}
    /\ UNCHANGED <<testmode, at, cmd, obeyed, setting, datasets, handler, history>>

lpg_log_struct(h) == handler[h] # "free" /\ FileRow

\* The DNS worker is forked before create_log, is spared by every command, goes
\* on after stop, and outlives a dispatcher that dies.
DnsLog == obeyed > 0 /\ FileRow

HandlerEnds(h) ==
    /\ handler[h] # "free"
    /\ handler' = [handler EXCEPT ![h] = "free"]
    /\ UNCHANGED <<testmode, at, cmd, obeyed, setting, datasets, filed, history>>

Next ==
    \/ Boot \/ Dies
    \/ \E c \in {"restart", "start", "stop"} : Command(c)
    \/ lpg_finish_log
    \/ Update \/ UpdateLost \/ UpdateFails
    \/ Insert \/ InsertFails
    \/ DnsLog
    \/ \E h \in Handlers : \/ pm_fork_temporary(h)
                           \/ lpg_log_struct(h)
                           \/ HandlerEnds(h)

Spec == Init /\ [][Next]_vars

-----------------------------------------------------------------------------
\* Safety

\* Two datasets share a number only if a run in the test mode has set the number
\* back between them, or the second was inserted by start after an update that
\* was not executed, although the table has no key, the program dies and is run
\* again at any time, and any other statement may fail or lose its reply
\* (log_postgres.c:155-168, dispatching.c:215-219).
DistinctSamples ==
    \A i, j \in DOMAIN datasets :
      i < j /\ datasets[i].id = datasets[j].id /\ datasets[i].era = datasets[j].era =>
        datasets[j].by = "start" /\ ~datasets[j].counted

\* The number that counting begins with has no dataset.
Base(e) == IF e = 0 THEN FirstNumber ELSE -1

\* A row is filed under a number that has a dataset of the same era, unless the
\* insertion of that dataset failed, was given up for an update whose reply was
\* lost, was prevented by the end of the program, or is the next statement, or
\* nothing was counted since the number was set (-1 by the test mode): rows of the
\* DNS worker before create_log and of handlers that outlive the dispatcher
\* included.
RowsHaveDataset ==
    \A r \in filed :
      \/ \E i \in DOMAIN datasets : datasets[i].era = r.era /\ datasets[i].id = r.id
      \/ r \in missing
      \/ r = Current /\ at = "insert"
      \/ r.id = Base(r.era)

\* When no statement failed, every sample but the last one has its end, or is
\* followed by one that start or a new run of the program opened: whatever the
\* order of the commands, stop twice or restart after stop included.
EarlierSamplesEnded ==
    allDone =>
      \A i \in DOMAIN datasets :
        i < Len(datasets) =>
          datasets[i].ended \/ datasets[i + 1].by \in {"start", "boot"}

\* The current number changes under a handler of the dispatcher that was not sent
\* SIGINT only when start is obeyed: restart does not mix two samples through a
\* handler that goes on living.
NoHandlerCarriedOver ==
    [][setting' # setting /\ cmd # "start" =>
         \A h \in Handlers : handler[h] # "running"]_vars
=============================================================================
