---------------------------- MODULE SampleLogProofs ----------------------------
(***************************************************************************)
(* Proofs about SampleLog for any number of handlers, of runs of the       *)
(* program and of commands, and for any number stored at first.  None of   *)
(* its invariants is inductive: each one needs what the dispatcher has     *)
(* still to do for the command under way.                                  *)
(***************************************************************************)
EXTENDS SampleLog, SequenceTheorems, TLAPS

\* The command tells which statements are still to come, and only start goes on
\* after an update that was not executed.
Underway ==
    /\ at = "finish" => cmd \in {"restart", "stop"}
    /\ at \in {"update", "insert"} => cmd # "stop"
    /\ at = "insert" => ~Reset
    /\ at = "insert" /\ ~counted => cmd = "start"

\* Numbers are counted up in an era: none in the table is above the current one,
\* which is not in it before it is inserted.
Growing ==
    \A i \in DOMAIN datasets :
      /\ datasets[i].era <= era
      /\ datasets[i].era = era =>
           /\ datasets[i].id <= setting
           /\ at = "insert" /\ counted => datasets[i].id < setting

Covered(r) ==
    \/ \E i \in DOMAIN datasets : datasets[i].era = r.era /\ datasets[i].id = r.id
    \/ r \in missing
    \/ r = Current /\ at = "insert"
    \/ r.id = Base(r.era)

\* Without a failure the newest dataset is the current one whenever its end may be
\* the next statement, and was ended when restart opens another one.
LastOne ==
    LET last == datasets[Len(datasets)] IN
    allDone =>
      /\ at \in {"finish", "idle"} /\ ~(testmode /\ setting = -1) =>
           Len(datasets) >= 1 /\ last.id = setting
      /\ at \in {"update", "insert"} /\ cmd = "restart" /\ ~testmode =>
           Len(datasets) >= 1 /\ last.ended

\* Nobody runs while restart or stop is under way, or before create_log.
Quiet ==
    at = "down" \/ (at # "idle" /\ cmd # "start") =>
      \A h \in Handlers : handler[h] # "running"

Inv ==
    /\ TypeOK /\ Underway /\ Quiet
    /\ Growing /\ DistinctSamples
    /\ Covered(Current) /\ RowsHaveDataset
    /\ LastOne /\ EarlierSamplesEnded

\* What the table consists of
LEMMA DatasetsTyped ==
  ASSUME TypeOK
  PROVE  /\ datasets \in Seq(Dataset) /\ Len(datasets) \in Nat
         /\ DOMAIN datasets = 1 .. Len(datasets)
         /\ \A i \in 1 .. Len(datasets) :
              /\ datasets[i] \in Dataset
              /\ datasets[i].id \in Int /\ datasets[i].era \in Nat
<1>1. datasets \in Seq(Dataset)
  BY Zenon DEF TypeOK
<1>2. /\ Len(datasets) \in Nat /\ DOMAIN datasets = 1 .. Len(datasets)
      /\ \A i \in 1 .. Len(datasets) : datasets[i] \in Dataset
  BY <1>1
<1>3. \A d \in Dataset : d.id \in Int /\ d.era \in Nat
  BY DEF Dataset
<1> QED BY <1>1, <1>2, <1>3

\* An end changes nothing else of a dataset.
LEMMA EndedDataset ==
  ASSUME NEW d \in Dataset
  PROVE  LET e == [d EXCEPT !.ended = TRUE] IN
         /\ e \in Dataset /\ e.ended
         /\ e.era = d.era /\ e.id = d.id /\ e.counted = d.counted /\ e.by = d.by
<1>1. /\ d = [era |-> d.era, id |-> d.id, ended |-> d.ended, counted |-> d.counted,
              by |-> d.by]
      /\ d.era \in Nat /\ d.id \in Int /\ d.ended \in BOOLEAN /\ d.counted \in BOOLEAN
      /\ d.by \in {"boot", "restart", "start"}
  BY DEF Dataset
<1> QED BY <1>1 DEF Dataset

LEMMA CurrentTyped ==
  ASSUME TypeOK
  PROVE  Current \in Number /\ Current.era = era /\ Current.id = setting
BY DEF TypeOK, Current, Number

LEMMA InitInv == Init => Inv
<1> SUFFICES ASSUME Init PROVE Inv
  OBVIOUS
<1>1. TypeOK
  <2>1. obeyed \in 0 .. MaxCommands /\ setting \in Int /\ era \in Nat
    BY MaxCommandsAssumption, FirstNumberAssumption DEF Init
  <2>2. handler \in [Handlers -> {"free", "running", "doomed", "orphan"}]
    BY DEF Init
  <2>3. datasets \in Seq(Dataset)
    BY DEF Init
  <2> QED BY <2>1, <2>2, <2>3, Zenon DEF Init, TypeOK
<1>2. DOMAIN datasets = {}
  BY DEF Init
<1>3. Underway /\ Quiet
  BY DEF Init, Underway, Quiet
<1>4. Growing /\ DistinctSamples /\ EarlierSamplesEnded
  BY <1>2 DEF Growing, DistinctSamples, EarlierSamplesEnded
<1>5. Covered(Current) /\ RowsHaveDataset
  BY DEF Init, Covered, Current, Base, RowsHaveDataset
<1>6. LastOne
  BY DEF Init, LastOne
<1> QED BY <1>1, <1>3, <1>4, <1>5, <1>6 DEF Inv

-----------------------------------------------------------------------------
\* A step that leaves the tables and the numbers alone, and comes at no statement
\* of create_log or brings none nearer, disturbs only the shape of the dispatcher.
LEMMA TablesKept ==
  ASSUME Inv, UNCHANGED <<setting, datasets, filed, era>>,
         missing \subseteq missing',
         at = "insert" => at' = "insert" \/ Current \in missing',
         at' = "insert" => at = "insert" /\ counted' = counted
  PROVE  /\ Growing' /\ DistinctSamples'
         /\ Covered(Current)' /\ RowsHaveDataset'
<1> USE DEF Inv
<1>1. Growing' /\ DistinctSamples'
  BY DEF Growing, DistinctSamples
<1>2. Covered(Current)' /\ RowsHaveDataset'
  <2>1. Current' = Current
    BY DEF Current
  <2> QED BY <2>1, Zenon DEF Covered, RowsHaveDataset
<1> QED BY <1>1, <1>2

\* A new run finds the tables as the last one left them.
LEMMA BootInv == Inv /\ Boot => Inv'
<1> SUFFICES ASSUME Inv, Boot PROVE Inv'
  OBVIOUS
<1> USE DEF Inv, Boot, history
<1>0. obeyed' \in 0 .. MaxCommands
  BY MaxCommandsAssumption DEF TypeOK
<1>1. TypeOK' /\ Underway' /\ Quiet'
  BY <1>0 DEF TypeOK, Underway, Quiet
<1>2. Growing' /\ DistinctSamples' /\ Covered(Current)' /\ RowsHaveDataset'
  BY TablesKept
<1>3. EarlierSamplesEnded' /\ LastOne'
  BY DEF EarlierSamplesEnded, LastOne
<1> QED BY <1>1, <1>2, <1>3

\* A dataset that was to be inserted is missing from now on.
LEMMA DiesInv == Inv /\ Dies => Inv'
<1> SUFFICES ASSUME Inv, Dies PROVE Inv'
  OBVIOUS
<1> USE DEF Inv, Dies
<1>1. /\ handler' \in [Handlers -> {"free", "running", "doomed", "orphan"}]
      /\ \A h \in Handlers : handler'[h] # "running"
  <2>1. \A h \in Handlers : handler[h] \in {"free", "running", "doomed", "orphan"}
    BY DEF TypeOK
  <2>2. handler' = [h \in Handlers |->
                      IF handler[h] = "running" THEN "orphan" ELSE handler[h]]
    OBVIOUS
  <2> HIDE DEF Inv, Dies
  <2> QED BY <2>1, <2>2
<1>2. missing' \subseteq Number
  BY CurrentTyped DEF TypeOK
<1>3. TypeOK' /\ Underway' /\ Quiet'
  BY <1>1, <1>2 DEF TypeOK, Underway, Quiet
<1>4. Growing' /\ DistinctSamples' /\ Covered(Current)' /\ RowsHaveDataset'
  BY TablesKept
<1>5. EarlierSamplesEnded' /\ LastOne'
  BY DEF EarlierSamplesEnded, LastOne
<1> QED BY <1>3, <1>4, <1>5

\* A new command finds the newest dataset in place.
LEMMA CommandInv ==
  ASSUME Inv, NEW c \in {"restart", "start", "stop"}, Command(c)
  PROVE  Inv'
<1> USE DEF Inv, Command, history
<1>1. TypeOK' /\ Underway' /\ Quiet'
  <2>0. obeyed' \in 0 .. MaxCommands
    BY MaxCommandsAssumption DEF TypeOK
  <2>1. CASE c = "start"
    <3>1. at' = "update" /\ cmd' = "start"
      BY <2>1
    <3>2. UNCHANGED <<testmode, setting, datasets, filed, handler, era, counted, missing,
                      allDone>>
      BY <2>1
    <3> HIDE DEF Command
    <3> QED BY <2>0, <3>1, <3>2 DEF TypeOK, Underway, Quiet
  <2>2. CASE c # "start"
    <3>1. \A h \in Handlers : handler[h] \in {"free", "running", "doomed", "orphan"}
      BY DEF TypeOK
    <3>2. handler' = [h \in Handlers |->
                        IF handler[h] = "running" THEN "doomed" ELSE handler[h]]
      BY <2>2 DEF Doomed
    <3>3. /\ handler' \in [Handlers -> {"free", "running", "doomed", "orphan"}]
          /\ \A h \in Handlers : handler'[h] # "running"
      BY <3>1, <3>2
    <3>4. at' = "finish" /\ cmd' = c
      BY <2>2
    <3>5. UNCHANGED <<testmode, setting, datasets, filed, era, counted, missing, allDone>>
      OBVIOUS
    <3> HIDE DEF Command
    <3> QED BY <2>0, <2>2, <3>3, <3>4, <3>5 DEF TypeOK, Underway, Quiet
  <2> QED BY <2>1, <2>2
<1>2. Growing' /\ DistinctSamples' /\ Covered(Current)' /\ RowsHaveDataset'
  BY TablesKept
<1>3. EarlierSamplesEnded' /\ LastOne'
  BY DEF EarlierSamplesEnded, LastOne
<1> QED BY <1>1, <1>2, <1>3

\* An end that is stored changes no number.
LEMMA FinishInv == Inv /\ lpg_finish_log => Inv'
<1> SUFFICES ASSUME Inv, lpg_finish_log PROVE Inv'
  OBVIOUS
<1> USE DEF Inv
<1>1. /\ at = "finish" /\ at' = (IF cmd = "restart" THEN "update" ELSE "idle")
      /\ UNCHANGED <<testmode, cmd, obeyed, setting, filed, handler, era, counted, missing>>
  BY DEF lpg_finish_log
<1>2. PICK executed \in BOOLEAN, reported \in BOOLEAN :
        /\ reported => executed
        /\ datasets' = IF executed THEN Ended(setting) ELSE datasets
        /\ allDone' = (allDone /\ reported)
  BY DEF lpg_finish_log
<1>3. /\ datasets \in Seq(Dataset) /\ Len(datasets) \in Nat
      /\ DOMAIN datasets = 1 .. Len(datasets)
  BY DatasetsTyped
<1>4. \A i \in 1 .. Len(datasets) :
        /\ datasets[i] \in Dataset
        /\ datasets'[i] \in Dataset
        /\ datasets'[i].era = datasets[i].era /\ datasets'[i].id = datasets[i].id
        /\ datasets'[i].counted = datasets[i].counted /\ datasets'[i].by = datasets[i].by
        /\ datasets[i].ended => datasets'[i].ended
        /\ executed /\ datasets[i].id = setting => datasets'[i].ended
  <2> SUFFICES ASSUME NEW i \in 1 .. Len(datasets)
               PROVE  /\ datasets[i] \in Dataset
                      /\ datasets'[i] \in Dataset
                      /\ datasets'[i].era = datasets[i].era
                      /\ datasets'[i].id = datasets[i].id
                      /\ datasets'[i].counted = datasets[i].counted
                      /\ datasets'[i].by = datasets[i].by
                      /\ datasets[i].ended => datasets'[i].ended
                      /\ executed /\ datasets[i].id = setting => datasets'[i].ended
    OBVIOUS
  <2>1. datasets[i] \in Dataset
    BY DatasetsTyped
  <2>2. datasets'[i] = IF executed /\ datasets[i].id = setting
                         THEN [datasets[i] EXCEPT !.ended = TRUE] ELSE datasets[i]
    BY <1>2, <1>3, Zenon DEF Ended
  <2> HIDE DEF Inv
  <2> QED BY <2>1, <2>2, EndedDataset, Zenon
<1>5. /\ datasets' \in Seq(Dataset) /\ Len(datasets') = Len(datasets)
      /\ DOMAIN datasets' = 1 .. Len(datasets)
  <2>1. CASE executed
    <3>1. datasets' \in [1 .. Len(datasets) -> Dataset]
      BY <1>2, <1>3, <1>4, <2>1 DEF Ended
    <3> QED BY <1>3, <3>1
  <2>2. CASE ~executed
    BY <1>2, <1>3, <2>2
  <2> QED BY <2>1, <2>2
<1>6. TypeOK' /\ Underway' /\ Quiet'
  BY <1>1, <1>2, <1>5 DEF TypeOK, Underway, Quiet, Reset
<1>7. Growing' /\ DistinctSamples'
  BY <1>1, <1>3, <1>4, <1>5 DEF Growing, DistinctSamples
<1>8. Covered(Current)' /\ RowsHaveDataset'
  BY <1>1, <1>3, <1>4, <1>5 DEF Covered, RowsHaveDataset, Current
<1>9. EarlierSamplesEnded'
  <2> SUFFICES ASSUME allDone', NEW i \in 1 .. Len(datasets), i < Len(datasets)
               PROVE  datasets'[i].ended \/ datasets'[i + 1].by \in {"start", "boot"}
    BY <1>3, <1>5 DEF EarlierSamplesEnded
  <2>1. i + 1 \in 1 .. Len(datasets)
    BY <1>3
  <2>2. datasets[i].ended \/ datasets[i + 1].by \in {"start", "boot"}
    BY <1>2, <1>3 DEF EarlierSamplesEnded
  <2> QED BY <1>4, <2>1, <2>2
<1>10. LastOne'
  <2> SUFFICES ASSUME allDone'
               PROVE  /\ at' \in {"finish", "idle"} /\ ~(testmode /\ setting = -1) =>
                           Len(datasets') >= 1 /\ datasets'[Len(datasets')].id = setting
                      /\ at' \in {"update", "insert"} /\ cmd = "restart" /\ ~testmode =>
                           Len(datasets') >= 1 /\ datasets'[Len(datasets')].ended
    BY <1>1 DEF LastOne
  <2>1. allDone /\ executed
    BY <1>2
  <2>2. ~(testmode /\ setting = -1) =>
          Len(datasets) >= 1 /\ datasets[Len(datasets)].id = setting
    BY <1>1, <2>1 DEF LastOne
  <2>3. Len(datasets) >= 1 => Len(datasets) \in 1 .. Len(datasets)
    BY <1>3
  <2> HIDE DEF Inv
  <2> QED BY <1>4, <1>5, <2>1, <2>2, <2>3
<1> QED BY <1>6, <1>7, <1>8, <1>9, <1>10

-----------------------------------------------------------------------------
\* A number that was counted is above every one of its era, and begins the next
\* era when the test mode sets it back.
LEMMA CountsKeeps ==
  ASSUME Inv, Counts, at = "update", UNCHANGED <<testmode, cmd, datasets, filed>>,
         missing \subseteq missing'
  PROVE  /\ Growing' /\ DistinctSamples' /\ RowsHaveDataset'
         /\ Reset => Covered(Current)'
<1> USE DEF Inv, Counts
<1>1. /\ Len(datasets) \in Nat /\ DOMAIN datasets = 1 .. Len(datasets)
      /\ \A i \in 1 .. Len(datasets) : datasets[i].id \in Int /\ datasets[i].era \in Nat
      /\ setting \in Int /\ era \in Nat
  BY DatasetsTyped DEF TypeOK
<1>2. Growing'
  <2> SUFFICES ASSUME NEW i \in 1 .. Len(datasets)
               PROVE  /\ datasets[i].era <= era'
                      /\ datasets[i].era = era' =>
                           datasets[i].id <= setting' /\ datasets[i].id < setting'
    BY <1>1 DEF Growing
  <2>1. /\ datasets[i].era <= era
        /\ datasets[i].era = era => datasets[i].id <= setting
    BY <1>1 DEF Growing
  <2>2. CASE Reset
    BY <1>1, <2>1, <2>2
  <2>3. CASE ~Reset
    BY <1>1, <2>1, <2>3
  <2> QED BY <2>2, <2>3
<1>3. DistinctSamples'
  BY DEF DistinctSamples
<1>4. RowsHaveDataset'
  BY DEF RowsHaveDataset
<1>5. Reset => Covered(Current)'
  <2> SUFFICES ASSUME Reset PROVE Covered(Current)'
    OBVIOUS
  <2>1. setting' = -1 /\ era' = era + 1
    OBVIOUS
  <2>2. Current'.id = -1 /\ Current'.era = era'
    BY <2>1 DEF Current
  <2>3. era' # 0
    BY <1>1, <2>1
  <2> HIDE DEF Inv, Counts
  <2> QED BY <2>2, <2>3 DEF Covered, Base
<1> QED BY <1>2, <1>3, <1>4, <1>5

LEMMA UpdateInv == Inv /\ Update => Inv'
<1> SUFFICES ASSUME Inv, Update PROVE Inv'
  OBVIOUS
<1> USE DEF Inv, Update
<1>1. TypeOK' /\ Underway' /\ Quiet'
  BY DEF TypeOK, Underway, Quiet, Counts, Reset
<1>2. Growing' /\ DistinctSamples' /\ RowsHaveDataset'
  BY CountsKeeps
<1>3. Covered(Current)'
  <2>1. ~Reset => at' = "insert"
    OBVIOUS
  <2> QED BY <2>1, CountsKeeps DEF Covered
<1>4. EarlierSamplesEnded' /\ LastOne'
  BY DEF EarlierSamplesEnded, LastOne, Counts, Reset
<1> QED BY <1>1, <1>2, <1>3, <1>4

LEMMA UpdateLostInv == Inv /\ UpdateLost => Inv'
<1> SUFFICES ASSUME Inv, UpdateLost PROVE Inv'
  OBVIOUS
<1> USE DEF Inv, UpdateLost
<1>0. setting' \in Int /\ era' \in Nat
  BY DEF TypeOK, Counts
<1>1. TypeOK' /\ Underway' /\ Quiet'
  <2>1. Current' \in Number
    BY <1>0 DEF Current, Number
  <2>2. missing' \subseteq Number
    BY <2>1 DEF TypeOK
  <2> QED BY <1>0, <2>2 DEF TypeOK, Underway, Quiet, Counts, Reset
<1>2. Growing' /\ DistinctSamples' /\ RowsHaveDataset'
  BY CountsKeeps
<1>3. Covered(Current)'
  <2>1. CASE Reset
    BY <2>1, CountsKeeps
  <2>2. CASE cmd = "start"
    BY <2>2 DEF Covered
  <2>3. CASE ~Reset /\ cmd # "start"
    <3>1. Current' \in missing'
      BY <2>3
    <3> HIDE DEF Inv, UpdateLost
    <3> QED BY <3>1 DEF Covered
  <2> QED BY <2>1, <2>2, <2>3
<1>4. EarlierSamplesEnded' /\ LastOne'
  BY DEF EarlierSamplesEnded, LastOne
<1> QED BY <1>1, <1>2, <1>3, <1>4

LEMMA UpdateFailsInv == Inv /\ UpdateFails => Inv'
<1> SUFFICES ASSUME Inv, UpdateFails PROVE Inv'
  OBVIOUS
<1> USE DEF Inv, UpdateFails
<1>1. TypeOK' /\ Underway' /\ Quiet'
  BY DEF TypeOK, Underway, Quiet, Reset
<1>2. Growing' /\ DistinctSamples'
  BY DEF Growing, DistinctSamples
<1>3. Covered(Current)' /\ RowsHaveDataset'
  BY DEF Covered, RowsHaveDataset, Current
<1>4. EarlierSamplesEnded' /\ LastOne'
  BY DEF EarlierSamplesEnded, LastOne
<1> QED BY <1>1, <1>2, <1>3, <1>4

\* The new dataset has a new number, or follows an update of start that was not
\* executed; the one before it was ended when restart opens it.
LEMMA InsertInv == Inv /\ Insert => Inv'
<1> SUFFICES ASSUME Inv, Insert PROVE Inv'
  OBVIOUS
<1> USE DEF Inv
<1> DEFINE new == [era |-> era, id |-> setting, ended |-> FALSE, counted |-> counted,
                   by |-> cmd]
<1>1. /\ at = "insert" /\ at' = "idle" /\ datasets' = Append(datasets, new)
      /\ UNCHANGED <<testmode, cmd, obeyed, setting, filed, handler, era, counted, missing>>
  BY DEF Insert
<1>0. allDone' => allDone
  BY Zenon DEF Insert
<1>2. /\ datasets \in Seq(Dataset) /\ Len(datasets) \in Nat
      /\ DOMAIN datasets = 1 .. Len(datasets)
      /\ setting \in Int /\ era \in Nat /\ counted \in BOOLEAN
      /\ cmd \in {"boot", "restart", "start"}
  BY <1>1, DatasetsTyped DEF TypeOK, Underway
<1>3. /\ new \in Dataset /\ new.era = era /\ new.id = setting
      /\ new.counted = counted /\ new.by = cmd
  BY <1>2 DEF Dataset
<1> HIDE DEF new
<1>4. /\ datasets' \in Seq(Dataset)
      /\ Len(datasets') = Len(datasets) + 1
      /\ DOMAIN datasets' = 1 .. Len(datasets) + 1
      /\ \A i \in 1 .. Len(datasets) : datasets'[i] = datasets[i]
      /\ datasets'[Len(datasets) + 1] = new
  BY <1>1, <1>2, <1>3
<1>5. \A i \in 1 .. Len(datasets) : datasets[i].id \in Int /\ datasets[i].era \in Nat
  BY DatasetsTyped
<1>6. TypeOK' /\ Underway' /\ Quiet'
  <2>1. allDone' \in BOOLEAN
    BY DEF Insert, TypeOK
  <2> QED BY <1>1, <1>4, <2>1 DEF TypeOK, Underway, Quiet
<1>7. Growing'
  BY <1>1, <1>2, <1>3, <1>4 DEF Growing
<1>8. DistinctSamples'
  <2> SUFFICES ASSUME NEW i \in 1 .. Len(datasets) + 1, NEW j \in 1 .. Len(datasets) + 1,
                      i < j, datasets'[i].id = datasets'[j].id,
                      datasets'[i].era = datasets'[j].era
               PROVE  datasets'[j].by = "start" /\ ~datasets'[j].counted
    BY <1>4 DEF DistinctSamples
  <2>1. i \in 1 .. Len(datasets) /\ datasets'[i] = datasets[i]
    <3>1. i \in 1 .. Len(datasets)
      BY <1>2
    <3> QED BY <1>4, <3>1
  <2>2. CASE j = Len(datasets) + 1
    <3>1. datasets[i].era = era /\ datasets[i].id = setting
      BY <1>3, <1>4, <2>1, <2>2
    <3>2. counted => datasets[i].id < setting
      BY <1>1, <1>2, <2>1, <3>1 DEF Growing
    <3>3. ~counted
      BY <1>2, <3>1, <3>2
    <3> QED BY <1>1, <1>3, <1>4, <2>2, <3>3 DEF Underway
  <2>3. CASE j # Len(datasets) + 1
    <3>1. j \in 1 .. Len(datasets) /\ datasets'[j] = datasets[j]
      <4>1. j \in 1 .. Len(datasets)
        BY <1>2, <2>3
      <4> QED BY <1>4, <4>1
    <3> QED BY <1>2, <2>1, <3>1 DEF DistinctSamples
  <2> QED BY <2>2, <2>3
<1>9. Covered(Current)' /\ RowsHaveDataset'
  <2>1. Len(datasets) + 1 \in DOMAIN datasets' /\ DOMAIN datasets \subseteq DOMAIN datasets'
    BY <1>2, <1>4
  <2>2. /\ datasets'[Len(datasets) + 1].era = Current.era
        /\ datasets'[Len(datasets) + 1].id = Current.id
    BY <1>3, <1>4 DEF Current
  <2>3. Current' = Current
    BY <1>1 DEF Current
  <2>4. Covered(Current)'
    BY <2>1, <2>2, <2>3 DEF Covered
  <2>5. RowsHaveDataset'
    BY <1>1, <1>2, <1>4, <2>1, <2>2 DEF RowsHaveDataset
  <2> QED BY <2>4, <2>5
<1>10. EarlierSamplesEnded'
  <2> SUFFICES ASSUME allDone, NEW i \in 1 .. Len(datasets)
               PROVE  datasets'[i].ended \/ datasets'[i + 1].by \in {"start", "boot"}
    BY <1>0, <1>1, <1>2, <1>4 DEF EarlierSamplesEnded
  <2>1. CASE i = Len(datasets)
    <3>1. i + 1 = Len(datasets) + 1 /\ datasets'[i] = datasets[i]
      BY <1>2, <1>4, <2>1
    <3>2. cmd = "restart" => datasets[i].ended
      <4>1. cmd = "restart" => ~testmode
        BY <1>1 DEF Underway, Reset
      <4> QED BY <1>1, <2>1, <4>1 DEF LastOne
    <3> QED BY <1>2, <1>3, <1>4, <3>1, <3>2
  <2>2. CASE i < Len(datasets)
    <3>1. i \in 1 .. Len(datasets) /\ i + 1 \in 1 .. Len(datasets)
      BY <1>2, <2>2
    <3>2. datasets[i].ended \/ datasets[i + 1].by \in {"start", "boot"}
      BY <1>2, <2>2 DEF EarlierSamplesEnded
    <3>3. datasets'[i] = datasets[i] /\ datasets'[i + 1] = datasets[i + 1]
      BY <1>4, <3>1
    <3> QED BY <3>2, <3>3
  <2>3. i = Len(datasets) \/ i < Len(datasets)
    <3>1. Len(datasets) \in Int
      BY <1>2
    <3> HIDE DEF Inv
    <3> QED BY <3>1
  <2> QED BY <2>1, <2>2, <2>3, Zenon
<1>11. LastOne'
  BY <1>0, <1>1, <1>2, <1>3, <1>4 DEF LastOne
<1> QED BY <1>6, <1>7, <1>8, <1>9, <1>10, <1>11

LEMMA InsertFailsInv == Inv /\ InsertFails => Inv'
<1> SUFFICES ASSUME Inv, InsertFails PROVE Inv'
  OBVIOUS
<1> USE DEF Inv, InsertFails
<1>1. TypeOK' /\ Underway' /\ Quiet'
  <2>1. missing' \subseteq Number
    BY CurrentTyped DEF TypeOK
  <2> QED BY <2>1 DEF TypeOK, Underway, Quiet
<1>2. Growing' /\ DistinctSamples' /\ Covered(Current)' /\ RowsHaveDataset'
  BY TablesKept
<1>3. EarlierSamplesEnded' /\ LastOne'
  BY DEF EarlierSamplesEnded, LastOne
<1> QED BY <1>1, <1>2, <1>3

-----------------------------------------------------------------------------
\* A row takes the current number, which is covered at any time.
LEMMA FileRowInv == Inv /\ FileRow => Inv'
<1> SUFFICES ASSUME Inv, FileRow PROVE Inv'
  OBVIOUS
<1> USE DEF Inv, FileRow, history
<1>1. TypeOK' /\ Underway' /\ Quiet'
  <2>1. filed' \subseteq Number
    BY CurrentTyped DEF TypeOK
  <2> QED BY <2>1 DEF TypeOK, Underway, Quiet, Reset
<1>2. Growing' /\ DistinctSamples'
  BY DEF Growing, DistinctSamples
<1>3. Covered(Current)' /\ RowsHaveDataset'
  BY DEF Covered, RowsHaveDataset, Current
<1>4. EarlierSamplesEnded' /\ LastOne'
  BY DEF EarlierSamplesEnded, LastOne
<1> QED BY <1>1, <1>2, <1>3, <1>4

LEMMA HandlerInv ==
  ASSUME Inv, NEW h \in Handlers, pm_fork_temporary(h) \/ HandlerEnds(h)
  PROVE  Inv'
<1> USE DEF Inv, pm_fork_temporary, HandlerEnds, history
<1>1. TypeOK' /\ Underway' /\ Quiet'
  BY DEF TypeOK, Underway, Quiet, Reset
<1>2. Growing' /\ DistinctSamples' /\ Covered(Current)' /\ RowsHaveDataset'
  BY TablesKept
<1>3. EarlierSamplesEnded' /\ LastOne'
  BY DEF EarlierSamplesEnded, LastOne
<1> QED BY <1>1, <1>2, <1>3

LEMMA NextInv == Inv /\ [Next]_vars => Inv'
<1> SUFFICES ASSUME Inv, [Next]_vars PROVE Inv'
  OBVIOUS
<1>1. CASE UNCHANGED vars
  <2> USE <1>1 DEF vars, history, Inv
  <2>1. TypeOK' /\ Underway' /\ Quiet'
    BY DEF TypeOK, Underway, Reset, Quiet
  <2>2. Growing' /\ DistinctSamples' /\ Covered(Current)' /\ RowsHaveDataset'
    BY TablesKept
  <2>3. EarlierSamplesEnded' /\ LastOne'
    BY DEF EarlierSamplesEnded, LastOne
  <2> QED BY <2>1, <2>2, <2>3
<1>2. CASE Next
  BY <1>2, BootInv, DiesInv, CommandInv, FinishInv, UpdateInv, UpdateLostInv,
     UpdateFailsInv, InsertInv, InsertFailsInv, FileRowInv, HandlerInv
     DEF Next, DnsLog, lpg_log_struct
<1> QED BY <1>1, <1>2

LEMMA AlwaysInv == Spec => []Inv
BY InitInv, NextInv, PTL DEF Spec

-----------------------------------------------------------------------------
\* The number of the current sample is an integer, -1 in the test mode, and the
\* dispatcher is always at a statement of the command it obeys.
THEOREM TypeCorrect == Spec => []TypeOK
<1>1. Inv => TypeOK
  BY DEF Inv
<1> QED BY <1>1, AlwaysInv, PTL

\* However often the program is run, in whatever mode, and whatever statements
\* fail, are executed but reported as failed, or are cut off by its end, two
\* datasets that share a number have a run in the test mode between them, or the
\* second was inserted by start after an update that was not executed
\* (log_postgres.c:155-168).
THEOREM SamplesAreDistinct == Spec => []DistinctSamples
<1>1. Inv => DistinctSamples
  BY DEF Inv
<1> QED BY <1>1, AlwaysInv, PTL

\* For any number of handlers, runs and commands, no row is filed under a number
\* without a dataset but where its insertion failed, was given up or cut off, or
\* is the next statement, or where no number was counted yet
\* (log_postgres.c:241-286).
THEOREM RowsAreCovered == Spec => []RowsHaveDataset
<1>1. Inv => RowsHaveDataset
  BY DEF Inv
<1> QED BY <1>1, AlwaysInv, PTL

\* Without a failure every order of runs and commands ends every sample that
\* neither start nor a new run follows (dispatching.c:205-219).
THEOREM SamplesAreEnded == Spec => []EarlierSamplesEnded
<1>1. Inv => EarlierSamplesEnded
  BY DEF Inv
<1> QED BY <1>1, AlwaysInv, PTL

\* No handler of the dispatcher that was not sent SIGINT sees the number change
\* under it, except by start (dispatching.c:205-225).
THEOREM HandlersStayInSample == Spec => NoHandlerCarriedOver
<1>1. Inv /\ [Next]_vars =>
        (setting' # setting /\ cmd # "start" =>
           \A h \in Handlers : handler[h] # "running")
  <2> SUFFICES ASSUME Inv, [Next]_vars, setting' # setting, cmd # "start"
               PROVE  \A h \in Handlers : handler[h] # "running"
    OBVIOUS
  <2>1. Update \/ UpdateLost
    BY DEF Next, vars, Boot, Dies, Command, lpg_finish_log, UpdateFails, Insert,
           InsertFails, DnsLog, FileRow, lpg_log_struct, pm_fork_temporary, HandlerEnds
  <2> QED BY <2>1 DEF Inv, Quiet, Update, UpdateLost
<1> QED BY <1>1, AlwaysInv, PTL DEF Spec, NoHandlerCarriedOver
=============================================================================
