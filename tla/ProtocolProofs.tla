---------------------------- MODULE ProtocolProofs ----------------------------
(***************************************************************************)
(* What holds of the handlers of the line protocols.                       *)
(*                                                                         *)
(* FtpPassive: the table AWAITED_PASV and the log agree, for any number of *)
(* control and data connections.  The strengthening: an announcement is    *)
(* held by one control connection, or filed under its own address, or      *)
(* logged, and once its handler has been through both statements it is not *)
(* in the table.                                                           *)
(*                                                                         *)
(* LineHandlers: however a stream is cut and whatever is in it, the rows   *)
(* tell it and what is injected splits no line.  The invariant says what   *)
(* has been passed on and logged so far; that a further piece keeps it are *)
(* lemmas about sequences put together, and about the lines of a text.     *)
(***************************************************************************)
EXTENDS FtpPassive, LineHandlers, FiniteSetTheorems, SequenceTheorems,
        WellFoundedInduction, TLAPS

-----------------------------------------------------------------------------
\* FtpPassive

\* An announcement is held by at most one control connection.
Held ==
    \A b, c \in Controls : pasv[b] # 0 /\ pasv[b] = pasv[c] => b = c

\* A row of the table is an announcement nobody holds any more.
Filed ==
    \A r \in awaited :
      /\ r.n <= Len(announced)
      /\ r.address = announced[r.n]
      /\ \A c \in Controls : pasv[c] # r.n

\* How far a data connection got
Stage ==
    \A d \in Transfers :
      /\ at[d] \in {"none", "unknown"} => begun[d] = 0
      /\ at[d] \in {"insert", "delete", "known"} => begun[d] > 0
      /\ dest[d] \in {where[d], Elsewhere}

\* A row of the log is an announcement of the address its handler worked with.
Logged ==
    \A l \in logs :
      /\ begun[l.by] > 0
      /\ ~l.first => begun[l.by] = 2
      /\ at[l.by] = "insert" => l.first /\ begun[l.by] = 2
      /\ l.n # 0 =>
           /\ l.n <= Len(announced)
           /\ announced[l.n] = dest[l.by]
           /\ \A c \in Controls : pasv[c] # l.n

\* What was logged by a handler that came past its deletion is not in the table.
Spent == \A l \in logs : l.n # 0 /\ Through(l) => \A r \in awaited : r.n # l.n

\* The two directions are logged with different announcements.
Apart ==
    \A k, l \in logs :
      k.by = l.by /\ l.by \notin excused /\ k # l /\ l.n # 0 => k.n # l.n

\* Somebody else used the address of d.
Shared(d) == \E e \in Transfers \ {d} : dest[e] = dest[d] /\ begun[e] > 0

\* The row that identified a connection is there until somebody else deletes it.
Expected ==
    /\ \A d \in Transfers :
         at[d] = "insert" /\ begun[d] = 1 /\ d \notin excused \cup guessed /\ dest[d] = where[d] =>
           RowsFor(dest[d]) # {} \/ Shared(d)
    /\ \A l \in logs :
         l.n = 0 /\ l.first /\ l.by \notin excused \cup guessed /\ dest[l.by] = where[l.by] =>
           Shared(l.by)

Inv ==
    /\ TypeOK
    /\ Held /\ Filed /\ Stage /\ Logged
    /\ Spent /\ Apart /\ Expected

LEMMA InitInv == Init => Inv
<1> SUFFICES ASSUME Init PROVE Inv
  OBVIOUS
<1>1. TypeOK
  BY MaxAnnouncedAssumption DEF Init, TypeOK
<1>2. Held /\ Filed /\ Stage /\ Logged /\ Spent /\ Apart
  BY DEF Init, Held, Filed, Stage, Logged, Spent, Apart
<1>3. Expected
  BY DEF Init, Expected
<1>4. QED
  BY <1>1, <1>2, <1>3 DEF Inv

\* Two rows differ in their announcement, and only two rows are more than one.
LEMMA MoreThanOne ==
  ASSUME NEW found, Cardinality(found) > 1
  PROVE  \E r, q \in found : r # q
<1>1. CASE found = {}
  BY <1>1, FS_EmptySet
<1>2. CASE found # {}
  <2>1. PICK r \in found : TRUE
    BY <1>2
  <2>2. found # {r}
    BY FS_Singleton
  <2>3. QED
    BY <2>1, <2>2
<1>3. QED
  BY <1>1, <1>2

-----------------------------------------------------------------------------
\* The control connections

LEMMA AnnounceInv ==
  ASSUME Inv, NEW c \in Controls, NEW port \in Ports, Announce(c, port)
  PROVE  Inv'
<1> DEFINE a == [ip |-> IF c \in redirected THEN "local" ELSE "server", port |-> port]
<1>1. /\ announced \in Seq(Address) /\ Len(announced) < MaxAnnounced
      /\ announced' = Append(announced, a)
      /\ pasv' = [pasv EXCEPT ![c] = Len(announced) + 1]
      /\ pasv \in [Controls -> 0 .. Len(announced)]
      /\ UNCHANGED <<redirected, emulation, awaited, at, where, dest, begun, logs, excused, guessed>>
  BY DEF Inv, TypeOK, Announce
<1>2. a \in Address
  BY DEF Address
<1> HIDE DEF a
<1>3. /\ announced' \in Seq(Address) /\ Len(announced') = Len(announced) + 1
      /\ \A i \in 1 .. Len(announced) : announced'[i] = announced[i]
      /\ Len(announced) \in Nat
  BY <1>1, <1>2
<1>4. TypeOK'
  BY <1>1, <1>3, MaxAnnouncedAssumption DEF Inv, TypeOK
<1>5. Held'
  BY <1>1, <1>3 DEF Inv, Held
<1>6. Filed'
  BY <1>1, <1>3 DEF Inv, Filed, TypeOK, Awaited
<1>7. Logged'
  BY <1>1, <1>3 DEF Inv, Logged, TypeOK, LogRow
<1>8. Stage' /\ Spent' /\ Apart' /\ Expected'
  BY <1>1 DEF Inv, Stage, Spent, Through, Apart, Expected, Shared, RowsFor
<1>10. QED
  BY <1>4, <1>5, <1>6, <1>7, <1>8 DEF Inv

\* The announcement leaves its holder, for the table or for nowhere.
LEMMA CommandInv ==
  ASSUME Inv, NEW c \in Controls, Command(c) \/ CommandFails(c)
  PROVE  Inv'
<1> DEFINE r == [n |-> pasv[c], address |-> announced[pasv[c]]]
<1>1. /\ pasv[c] # 0
      /\ awaited' \in {awaited, awaited \cup {r}}
      /\ pasv' = [pasv EXCEPT ![c] = 0]
      /\ UNCHANGED <<redirected, emulation, announced, at, where, dest, begun, logs, excused, guessed>>
  BY DEF Command, CommandFails
<1>2. /\ announced \in Seq(Address) /\ Len(announced) <= MaxAnnounced
      /\ pasv \in [Controls -> 0 .. Len(announced)]
      /\ pasv[c] \in 1 .. Len(announced) /\ Len(announced) \in Nat
      /\ awaited \in SUBSET Awaited
  BY <1>1 DEF Inv, TypeOK
<1>3. r \in Awaited /\ r.n = pasv[c] /\ r.address = announced[pasv[c]]
  BY <1>2, MaxAnnouncedAssumption DEF Awaited
<1> HIDE DEF r
<1>4. TypeOK'
  BY <1>1, <1>2, <1>3 DEF Inv, TypeOK
<1>5. Held'
  BY <1>1, <1>2 DEF Inv, Held
<1>6. Filed'
  <2>1. \A b \in Controls : pasv'[b] # pasv[c]
    BY <1>1, <1>2 DEF Inv, Held
  <2>2. \A q \in awaited : \A b \in Controls : pasv'[b] # q.n
    BY <1>1, <1>2 DEF Inv, Filed, Awaited
  <2>3. QED
    BY <1>1, <1>2, <1>3, <2>1, <2>2 DEF Inv, Filed
<1>7. Logged'
  <2>1. \A l \in logs : l.n # 0 => \A b \in Controls : pasv'[b] # l.n
    BY <1>1, <1>2 DEF Inv, Logged
  <2>2. QED
    BY <1>1, <2>1 DEF Inv, Logged
<1>8. Spent'
  <2>1. \A l \in logs : l.n # 0 => pasv[c] # l.n
    BY DEF Inv, Logged
  <2>2. QED
    BY <1>1, <1>3, <2>1 DEF Inv, Spent, Through
<1>9. Expected'
  BY <1>1 DEF Inv, Expected, Shared, RowsFor
<1>10. Stage' /\ Apart'
  BY <1>1 DEF Inv, Stage, Apart
<1>11. QED
  BY <1>4, <1>5, <1>6, <1>7, <1>8, <1>9, <1>10 DEF Inv

-----------------------------------------------------------------------------
\* The data connections

\* Nothing is logged by a handler that has not begun.
LEMMA NotBegun ==
  ASSUME Inv, NEW d \in Transfers, at[d] \in {"none", "unknown"}
  PROVE  begun[d] = 0 /\ LoggedBy(d) = {}
  BY DEF Inv, Stage, Logged, LoggedBy

LEMMA OpenInv ==
  ASSUME Inv, NEW d \in Transfers, NEW a \in Address, Open(d, a)
  PROVE  Inv'
<1>1. /\ at[d] = "none"
      /\ at' = [at EXCEPT ![d] = "unknown"]
      /\ where' = [where EXCEPT ![d] = a]
      /\ dest' = [dest EXCEPT ![d] = a]
      /\ UNCHANGED <<control, awaited, begun, logs, excused, guessed>>
  BY DEF Open, Goto
<1>2. begun[d] = 0 /\ LoggedBy(d) = {}
  BY <1>1, NotBegun
<1>3. \A l \in logs : l.by \in Transfers /\ l.by # d
  BY <1>2 DEF Inv, TypeOK, LogRow, LoggedBy
<1>4. TypeOK'
  BY <1>1 DEF Inv, TypeOK, control
<1>5. Held' /\ Filed' /\ Apart'
  BY <1>1 DEF Inv, Held, Filed, Apart, control
<1>6. Stage'
  BY <1>1 DEF Inv, TypeOK, Stage
<1>7. Logged' /\ Spent'
  BY <1>1, <1>3 DEF Inv, TypeOK, Logged, Spent, Through, control
<1>8. Expected'
  <2>1. \A e \in Transfers \ {d} : Shared(e) => Shared(e)'
    BY <1>1, <1>2 DEF Inv, TypeOK, Shared
  <2>2. QED
    BY <1>1, <1>3, <2>1 DEF Inv, TypeOK, Expected, RowsFor
<1>10. QED
  BY <1>4, <1>5, <1>6, <1>7, <1>8 DEF Inv

LEMMA RecogniseInv ==
  ASSUME Inv, NEW d \in Transfers, Recognise(d)
  PROVE  Inv'
<1>1. /\ at[d] = "unknown"
      /\ at' = [at EXCEPT ![d] = "gone"]
      /\ UNCHANGED <<control, awaited, where, dest, begun, logs, excused, guessed>>
  BY DEF Recognise, Goto
<1>2. \A l \in logs : l.by \in Transfers /\ l.by # d
  BY <1>1, NotBegun DEF Inv, TypeOK, LogRow, LoggedBy
<1>3. TypeOK' /\ Stage'
  BY <1>1 DEF Inv, TypeOK, Stage, control
<1>4. Held' /\ Filed' /\ Apart'
  BY <1>1 DEF Inv, Held, Filed, Apart, control
<1>5. Logged' /\ Spent'
  BY <1>1, <1>2 DEF Inv, TypeOK, Logged, Spent, Through, control
<1>6. Expected'
  <2>1. \A e \in Transfers : at'[e] = "insert" => at[e] = "insert"
    BY <1>1 DEF Inv, TypeOK
  <2>2. QED
    BY <1>1, <2>1 DEF Inv, Expected, Shared, RowsFor
<1>8. QED
  BY <1>3, <1>4, <1>5, <1>6 DEF Inv

\* The handler takes its connection for a data connection, because of a row of
\* the table or by chance.
LEMMA TakenInv ==
  ASSUME Inv, NEW d \in Transfers, Identify(d) \/ Guess(d)
  PROVE  Inv'
<1>1. /\ at[d] = "unknown"
      /\ at' = [at EXCEPT ![d] = "insert"]
      /\ begun' = [begun EXCEPT ![d] = 1]
      /\ \E a \in {where[d], Elsewhere} : dest' = [dest EXCEPT ![d] = a]
      /\ UNCHANGED <<control, awaited, where, logs, excused>>
      /\ \/ RowsFor(where[d]) # {} /\ guessed' = guessed
         \/ guessed' = guessed \cup {d}
  BY DEF Identify, Guess, TakenForData, Goto
<1>2. \A l \in logs : l.by \in Transfers /\ l.by # d
  BY <1>1, NotBegun DEF Inv, TypeOK, LogRow, LoggedBy
<1>3. begun[d] = 0
  BY <1>1, NotBegun
<1>4. TypeOK'
  BY <1>1 DEF Inv, TypeOK, control
<1>5. Stage'
  BY <1>1 DEF Inv, TypeOK, Stage
<1>6. Held' /\ Filed' /\ Apart'
  BY <1>1 DEF Inv, Held, Filed, Apart, control
<1>7. Logged' /\ Spent'
  BY <1>1, <1>2 DEF Inv, TypeOK, Logged, Spent, Through, control
<1>8. Expected'
  <2>1. \A e \in Transfers \ {d} : Shared(e) => Shared(e)'
    BY <1>1, <1>3 DEF Inv, TypeOK, Shared
  <2>2. QED
    BY <1>1, <1>2, <2>1 DEF Inv, TypeOK, Expected, RowsFor
<1>10. QED
  BY <1>4, <1>5, <1>6, <1>7, <1>8 DEF Inv

LEMMA OtherSideInv ==
  ASSUME Inv, NEW d \in Transfers, OtherSide(d)
  PROVE  Inv'
<1>1. /\ at[d] = "known" /\ begun[d] = 1
      /\ at' = [at EXCEPT ![d] = "insert"]
      /\ begun' = [begun EXCEPT ![d] = 2]
      /\ UNCHANGED <<control, awaited, where, dest, logs, excused, guessed>>
  BY DEF OtherSide, Goto
<1>2. \A l \in logs : l.by \in Transfers
  BY DEF Inv, TypeOK, LogRow
<1>3. TypeOK' /\ Stage'
  BY <1>1 DEF Inv, TypeOK, Stage, control
<1>4. Held' /\ Filed' /\ Apart'
  BY <1>1 DEF Inv, Held, Filed, Apart, control
<1>5. Logged'
  BY <1>1, <1>2 DEF Inv, TypeOK, Logged, control
<1>6. Spent'
  BY <1>1, <1>2 DEF Inv, TypeOK, Spent, Through
<1>7. Expected'
  <2>1. \A e \in Transfers : Shared(e) => Shared(e)'
    BY <1>1 DEF Inv, TypeOK, Shared
  <2>2. QED
    BY <1>1, <1>2, <2>1 DEF Inv, TypeOK, Expected, RowsFor
<1>9. QED
  BY <1>3, <1>4, <1>5, <1>6, <1>7 DEF Inv

-----------------------------------------------------------------------------
\* The row inserted has an announcement that is in the table, or none.
LEMMA InsertRowInv ==
  ASSUME Inv, NEW d \in Transfers, InsertRow(d)
  PROVE  Inv'
<1> PICK found : found = RowsFor(dest[d])
  OBVIOUS
<1> PICK n : n = IF found = {} THEN 0 ELSE (CHOOSE r \in found : TRUE).n
  OBVIOUS
<1> PICK l : l = [by |-> d, first |-> begun[d] = 1, n |-> n]
  OBVIOUS
<1>1. /\ at[d] = "insert"
      /\ at' = [at EXCEPT ![d] = "delete"]
      /\ logs' = IF Cardinality(found) > 1 THEN logs ELSE logs \cup {l}
      /\ UNCHANGED <<control, awaited, where, dest, begun, excused, guessed>>
  BY DEF InsertRow, InsertFrom, Goto
<1>2. found \subseteq awaited /\ \A r \in found : r.address = dest[d]
  BY DEF RowsFor
<1>3. \A r \in awaited : /\ r.n \in 1 .. MaxAnnounced /\ r.n <= Len(announced)
                         /\ r.address = announced[r.n]
                         /\ \A c \in Controls : pasv[c] # r.n
  BY DEF Inv, TypeOK, Awaited, Filed
<1>4. \/ n = 0 /\ found = {}
      \/ n # 0 /\ \E r \in found : r.n = n
  <2>1. ASSUME found # {} PROVE (CHOOSE r \in found : TRUE) \in found
    BY <2>1
  <2>2. CASE found # {}
    <3>1. PICK r \in found : r = CHOOSE q \in found : TRUE
      BY <2>1, <2>2, Zenon
    <3>2. n = r.n
      BY <2>2, <3>1, Zenon
    <3>3. r.n # 0
      BY <1>2, <1>3, MaxAnnouncedAssumption
    <3>4. QED
      BY <3>2, <3>3
  <2>3. QED
    BY <2>2
<1>5. n \in 0 .. MaxAnnounced
  BY <1>2, <1>3, <1>4, MaxAnnouncedAssumption
<1>6. l \in LogRow /\ l.by = d /\ (l.first <=> begun[d] = 1) /\ l.n = n
  <2>1. (begun[d] = 1) \in BOOLEAN
    OBVIOUS
  <2>2. l \in LogRow
    BY <1>5, <2>1 DEF LogRow
  <2>3. l.by = d /\ l.first = (begun[d] = 1) /\ l.n = n
    OBVIOUS
  <2>4. QED
    BY <2>2, <2>3, Zenon
<1>7. /\ \A k \in logs : k.by \in Transfers
      /\ \A k \in logs' : k \in logs \/ k = l
  BY <1>1 DEF Inv, TypeOK, LogRow
<1>8. begun[d] \in {1, 2}
  BY <1>1 DEF Inv, TypeOK, Stage
<1>9. TypeOK'
  BY <1>1, <1>6 DEF Inv, TypeOK, control
<1>10. Held' /\ Filed' /\ Stage'
  BY <1>1 DEF Inv, TypeOK, Held, Filed, Stage, control
<1>11. n # 0 => /\ n <= Len(announced) /\ announced[n] = dest[d]
                /\ \A c \in Controls : pasv[c] # n
                /\ \E r \in awaited : r.n = n
  BY <1>2, <1>3, <1>4
<1>12. Logged'
  <2>1. \A k \in logs : at'[k.by] = "insert" => at[k.by] = "insert"
    BY <1>1, <1>7 DEF Inv, TypeOK
  <2>2. at'[d] # "insert"
    BY <1>1 DEF Inv, TypeOK
  <2>3. begun[d] > 0 /\ (~l.first => begun[d] = 2)
    BY <1>6, <1>8
  <2>4. QED
    BY <1>1, <1>6, <1>7, <1>11, <2>1, <2>2, <2>3 DEF Inv, Logged, control
<1>13. Spent'
  <2>1. ~Through(l)'
    <3>1. ~(l.first /\ begun[d] = 2)
      BY <1>6, <1>8
    <3>2. at'[d] = "delete"
      BY <1>1 DEF Inv, TypeOK
    <3>3. QED
      BY <1>1, <1>6, <3>1, <3>2 DEF Through
  <2>2. \A k \in logs : Through(k)' => Through(k)
    BY <1>1, <1>7 DEF Inv, TypeOK, Through
  <2>3. QED
    BY <1>1, <1>7, <2>1, <2>2 DEF Inv, Spent
<1>14. Apart'
  <2>1. ASSUME NEW k \in logs, k.by = d, d \notin excused PROVE k.n = 0 \/ k.n # n \/ n = 0
    <3>1. k.first /\ begun[d] = 2
      BY <1>1, <2>1 DEF Inv, Logged
    <3>2. Through(k)
      BY <2>1, <3>1 DEF Through
    <3>3. QED
      BY <1>11, <3>2 DEF Inv, Spent
  <2>2. QED
    BY <1>1, <1>6, <1>7, <2>1 DEF Inv, Apart
<1>15. Expected'
  <2>1. \A e \in Transfers : Shared(e)' <=> Shared(e)
    BY <1>1 DEF Shared
  <2>2. l.n = 0 /\ l.first /\ d \notin excused \cup guessed /\ dest[d] = where[d] => Shared(d)
    BY <1>1, <1>4, <1>6 DEF Inv, Expected
  <2>3. \A e \in Transfers : at'[e] = "insert" => at[e] = "insert"
    BY <1>1 DEF Inv, TypeOK
  <2>4. \A e \in Transfers : at[e] = "insert" /\ begun[e] = 1 /\ e \notin excused \cup guessed
          /\ dest[e] = where[e] => (RowsFor(dest[e]))' # {} \/ Shared(e)
    BY <1>1 DEF Inv, Expected, RowsFor
  <2>5. \A k \in logs' : k.n = 0 /\ k.first /\ k.by \notin excused \cup guessed
          /\ dest[k.by] = where[k.by] => k.by \in Transfers /\ Shared(k.by)
    BY <1>6, <1>7, <2>2 DEF Inv, Expected
  <2>6. UNCHANGED <<where, dest, begun, excused, guessed>>
    BY <1>1
  <2>7. QED
    BY <2>1, <2>3, <2>4, <2>5, <2>6 DEF Expected
<1>17. QED
  BY <1>9, <1>10, <1>12, <1>13, <1>14, <1>15 DEF Inv

\* What the handler logged was filed under the address it deletes.
LEMMA DeleteRowsInv ==
  ASSUME Inv, NEW d \in Transfers, DeleteRows(d)
  PROVE  Inv'
<1>1. /\ at[d] = "delete"
      /\ at' = [at EXCEPT ![d] = "known"]
      /\ awaited' = awaited \ RowsFor(dest[d])
      /\ UNCHANGED <<control, where, dest, begun, logs, excused, guessed>>
  BY DEF DeleteRows, Goto
<1>2. \A l \in logs : l.by \in Transfers
  BY DEF Inv, TypeOK, LogRow
<1>3. begun[d] > 0
  BY <1>1 DEF Inv, Stage
<1>4. TypeOK' /\ Stage'
  BY <1>1 DEF Inv, TypeOK, Stage, control
<1>5. Held' /\ Filed' /\ Apart'
  BY <1>1 DEF Inv, Held, Filed, Apart, control
<1>6. Logged'
  BY <1>1, <1>2 DEF Inv, TypeOK, Logged, control
<1>7. Spent'
  <2>1. ASSUME NEW l \in logs, l.n # 0, l.by = d, NEW r \in awaited' PROVE r.n # l.n
    <3>1. announced[l.n] = dest[d]
      BY <2>1 DEF Inv, Logged
    <3>2. r \in awaited /\ r.address = announced[r.n] /\ r.address # dest[d]
      BY <1>1 DEF Inv, Filed, RowsFor
    <3>3. QED
      BY <3>1, <3>2
  <2>2. \A l \in logs : l.by # d => (Through(l)' => Through(l))
    BY <1>1, <1>2 DEF Inv, TypeOK, Through
  <2>3. QED
    BY <1>1, <2>1, <2>2 DEF Inv, Spent
<1>8. Expected'
  <2>1. \A e \in Transfers : Shared(e)' <=> Shared(e)
    BY <1>1 DEF Shared
  <2>2. ASSUME NEW e \in Transfers, e # d, RowsFor(dest[e]) # {}
        PROVE  RowsFor(dest[e])' # {} \/ Shared(e)
    <3>1. CASE dest[e] = dest[d]
      BY <1>3, <2>2, <3>1 DEF Shared
    <3>2. CASE dest[e] # dest[d]
      BY <1>1, <2>2, <3>2 DEF RowsFor
    <3>3. QED
      BY <3>1, <3>2
  <2>3. \A e \in Transfers : at'[e] = "insert" => e # d /\ at[e] = "insert"
    BY <1>1 DEF Inv, TypeOK
  <2>4. \A e \in Transfers : (RowsFor(dest[e]))' = {r \in awaited' : r.address = dest[e]}
    BY <1>1 DEF RowsFor
  <2>5. QED
    BY <1>1, <1>2, <2>1, <2>2, <2>3, <2>4 DEF Inv, Expected
<1>10. QED
  BY <1>4, <1>5, <1>6, <1>7, <1>8 DEF Inv

\* A failed statement and the end change where the handler is, and excuse it.
LEMMA FailsInv ==
  ASSUME Inv, NEW d \in Transfers, InsertFails(d) \/ DeleteFails(d) \/ End(d)
  PROVE  Inv'
<1>1. /\ at[d] \in {"unknown", "insert", "delete", "known"}
      /\ \E place \in {"delete", "known", "gone"} : at' = [at EXCEPT ![d] = place]
      /\ at[d] \in {"insert", "delete"} => d \in excused'
      /\ excused' \in {excused, excused \cup {d}}
      /\ at[d] = "unknown" => at'[d] = "gone"
      /\ at[d] = "known" => at'[d] = "gone"
      /\ UNCHANGED <<control, awaited, where, dest, begun, logs, guessed>>
  BY DEF Inv, TypeOK, InsertFails, DeleteFails, End, Goto
<1>2. \A l \in logs : l.by \in Transfers
  BY DEF Inv, TypeOK, LogRow
<1>3. at[d] = "unknown" => LoggedBy(d) = {}
  BY NotBegun
<1>4. TypeOK'
  BY <1>1 DEF Inv, TypeOK, control
<1>5. Stage'
  BY <1>1 DEF Inv, TypeOK, Stage
<1>6. Held' /\ Filed' /\ Apart'
  BY <1>1 DEF Inv, Held, Filed, Apart, control
<1>7. Logged'
  BY <1>1, <1>2 DEF Inv, TypeOK, Logged, control
<1>8. Spent'
  <2>1. ASSUME NEW l \in logs, Through(l)' PROVE Through(l)
    <3>1. CASE l.by # d
      BY <1>1, <1>2, <2>1, <3>1 DEF Inv, TypeOK, Through
    <3>2. CASE l.by = d
      BY <1>1, <1>3, <2>1, <3>2 DEF Through, LoggedBy
    <3>3. QED
      BY <3>1, <3>2
  <2>2. QED
    BY <1>1, <2>1 DEF Inv, Spent
<1>9. Expected'
  <2>1. \A e \in Transfers : at'[e] = "insert" => at[e] = "insert"
    BY <1>1 DEF Inv, TypeOK
  <2>2. QED
    BY <1>1, <1>2, <2>1 DEF Inv, Expected, Shared, RowsFor
<1>11. QED
  BY <1>4, <1>5, <1>6, <1>7, <1>8, <1>9 DEF Inv

LEMMA StutterInv == ASSUME Inv, UNCHANGED vars PROVE Inv'
  BY DEF vars, Inv, TypeOK, Held, Filed, Stage, Logged, Spent, Through, Apart, Expected,
         Shared, RowsFor

LEMMA StepInv == Inv /\ [Next]_vars => Inv'
<1> SUFFICES ASSUME Inv, [Next]_vars PROVE Inv'
  OBVIOUS
<1>1. ASSUME NEW c \in Controls, NEW port \in Ports, Announce(c, port) PROVE Inv'
  BY <1>1, AnnounceInv
<1>2. ASSUME NEW c \in Controls, Command(c) \/ CommandFails(c) PROVE Inv'
  BY <1>2, CommandInv
<1>3. ASSUME NEW d \in Transfers, NEW a \in Address, Open(d, a) PROVE Inv'
  BY <1>3, OpenInv
<1>4. ASSUME NEW d \in Transfers,
             \/ Recognise(d) \/ Identify(d) \/ Guess(d) \/ OtherSide(d)
             \/ InsertRow(d) \/ InsertFails(d) \/ DeleteRows(d) \/ DeleteFails(d)
             \/ End(d)
      PROVE  Inv'
  BY <1>4, RecogniseInv, TakenInv, OtherSideInv, InsertRowInv, DeleteRowsInv, FailsInv
<1>5. QED
  BY <1>1, <1>2, <1>3, <1>4, StutterInv DEF Next

-----------------------------------------------------------------------------
LEMMA AlwaysInv == Spec => []Inv
  BY InitInv, StepInv, PTL DEF Spec

\* The types, for any number of connections
THEOREM TypeCorrect == Spec => []TypeOK
<1>1. Inv => TypeOK
  BY DEF Inv
<1>2. QED
  BY AlwaysInv, <1>1, PTL

\* Both statements together use up an announcement, whatever the other handlers
\* do between them (log_postgres.c:300, 308).
THEOREM IsConsumed == Spec => []Consumed
<1>1. Inv => Consumed
  BY DEF Inv, Spent, Through, Apart, Consumed, LoggedBy
<1>2. QED
  BY AlwaysInv, <1>1, PTL

\* A data connection is logged with an announcement of its own address, or there
\* is somebody else who used it (log_postgres.c:303).
THEOREM CommandIsKnown == Spec => []CommandKnown
<1>1. Inv => CommandKnown
  <2>1. ASSUME Inv, NEW l \in logs, l.n # 0 PROVE announced[l.n] = where[l.by]
    <3>1. l \in LogRow /\ l.n \in 1 .. Len(announced) /\ announced[l.n] = dest[l.by]
      BY <2>1 DEF Inv, TypeOK, Logged, LogRow
    <3>2. dest[l.by] \in Address
      BY <2>1, <3>1 DEF Inv, TypeOK
    <3>3. dest[l.by] # Elsewhere
      BY <3>2 DEF Address, Elsewhere
    <3>4. QED
      BY <2>1, <3>1, <3>3 DEF Inv, Stage, LogRow
  <2>2. QED
    BY <2>1 DEF Inv, Expected, Shared, CommandKnown
<1>2. QED
  BY AlwaysInv, <1>1, PTL

\* An insertion that is executed and stores nothing meets two announcements of its
\* address that no data connection before it has used up (log_postgres.c:303).
THEOREM IsLostOnDuplicate == Spec => LostOnDuplicate
<1>1. ASSUME Inv, [Next]_vars, NEW d \in Transfers, at[d] = "insert", at'[d] = "delete",
             logs' = logs, d \notin excused'
      PROVE  \E n, m \in DOMAIN announced :
               /\ n # m /\ announced[n] = dest[d] /\ announced[m] = dest[d]
               /\ \A l \in logs : Through(l) => l.n \notin {n, m}
  <2>1. InsertRow(d)
    <3>1. \A e \in Transfers, place \in {"none", "unknown", "insert", "delete", "known", "gone"} :
            at' = [at EXCEPT ![e] = place] => e = d /\ place = "delete"
      BY <1>1 DEF Inv, TypeOK
    <3>2. at' # at
      BY <1>1
    <3>3. PICK e \in Transfers : \/ \E a \in Address : Open(e, a)
                                 \/ Recognise(e) \/ Identify(e) \/ Guess(e) \/ OtherSide(e)
                                 \/ InsertRow(e) \/ InsertFails(e) \/ DeleteRows(e)
                                 \/ DeleteFails(e) \/ End(e)
      BY <1>1, <3>2 DEF Next, vars, Announce, Command, CommandFails
    <3>4. CASE InsertRow(e) \/ InsertFails(e)
      <4>1. e = d
        BY <3>1, <3>4 DEF InsertRow, InsertFrom, InsertFails, Goto
      <4>2. QED
        BY <1>1, <3>4, <4>1 DEF InsertFails
    <3>5. CASE \E a \in Address : Open(e, a)
      BY <3>1, <3>5 DEF Open, Goto
    <3>6. CASE Recognise(e) \/ Identify(e) \/ Guess(e) \/ OtherSide(e)
      BY <3>1, <3>6 DEF Recognise, Identify, Guess, OtherSide, TakenForData, Goto
    <3>7. CASE DeleteRows(e) \/ DeleteFails(e) \/ End(e)
      BY <3>1, <3>7 DEF DeleteRows, DeleteFails, End, Goto
    <3>8. QED
      BY <3>3, <3>4, <3>5, <3>6, <3>7
  <2> PICK found : found = RowsFor(dest[d])
    OBVIOUS
  <2> PICK l : l = [by |-> d, first |-> begun[d] = 1,
                    n |-> IF found = {} THEN 0 ELSE (CHOOSE r \in found : TRUE).n]
    OBVIOUS
  <2>2. logs' = IF Cardinality(found) > 1 THEN logs ELSE logs \cup {l}
    BY <2>1 DEF InsertRow, InsertFrom
  <2>3. l \notin logs
    <3>1. l.by = d /\ l.first = (begun[d] = 1)
      OBVIOUS
    <3>2. l \in logs => l.first /\ begun[d] = 2
      <4>1. \A k \in logs : at[k.by] = "insert" => k.first /\ begun[k.by] = 2
        BY <1>1 DEF Inv, Logged
      <4>2. QED
        BY <1>1, <3>1, <4>1, Zenon
    <3>3. begun[d] = 2 => ~(begun[d] = 1)
      OBVIOUS
    <3>4. QED
      BY <3>1, <3>2, <3>3, Zenon
  <2>4. Cardinality(found) > 1
    BY <1>1, <2>2, <2>3
  <2>5. PICK r \in found, q \in found : r # q
    BY <2>4, MoreThanOne
  <2>6. /\ r \in awaited /\ q \in awaited /\ r \in Awaited /\ q \in Awaited
        /\ r.address = dest[d] /\ q.address = dest[d]
        /\ announced[r.n] = dest[d] /\ announced[q.n] = dest[d]
        /\ r.n \in DOMAIN announced /\ q.n \in DOMAIN announced
        /\ r.n # 0 /\ q.n # 0
    <3>1. \A t \in awaited : t \in Awaited /\ t.n \in 1 .. MaxAnnounced
                             /\ t.n <= Len(announced) /\ t.address = announced[t.n]
      BY <1>1 DEF Inv, TypeOK, Awaited, Filed
    <3>2. \A t \in awaited : t.n \in DOMAIN announced /\ t.n # 0
      BY <1>1, <3>1, MaxAnnouncedAssumption DEF Inv, TypeOK
    <3>3. QED
      BY <2>5, <3>1, <3>2 DEF RowsFor
  <2>7. r.n # q.n
    BY <2>5, <2>6 DEF Awaited
  <2>8. \A t \in logs : Through(t) => t.n \notin {r.n, q.n}
    BY <1>1, <2>6 DEF Inv, Spent
  <2>9. QED
    BY <2>6, <2>7, <2>8
<1>2. Inv /\ [Next]_vars =>
        \A d \in Transfers :
          at[d] = "insert" /\ at'[d] = "delete" /\ logs' = logs /\ d \notin excused' =>
            \E n, m \in DOMAIN announced :
              /\ n # m /\ announced[n] = dest[d] /\ announced[m] = dest[d]
              /\ \A l \in logs : Through(l) => l.n \notin {n, m}
  BY <1>1
<1>3. QED
  BY AlwaysInv, <1>2, PTL DEF Spec, LostOnDuplicate

-----------------------------------------------------------------------------
\* Induction for sets: the natural numbers are well founded.
LEMMA SetInduction ==
  ASSUME NEW S, 0 \in S, \A n \in Nat : n \in S => n + 1 \in S
  PROVE  Nat \subseteq S
<1> DEFINE less == {ss \in Nat \X Nat : ss[1] < ss[2]}
<1>1. IsWellFoundedOn(less, Nat)
  BY NatLessThanWellFounded DEF OpToRel
<1>2. SUFFICES ASSUME Nat \ S # {} PROVE FALSE
  OBVIOUS
<1>3. Nat \ S \subseteq Nat
  OBVIOUS
<1> HIDE DEF less
<1>4. \E x \in Nat \ S : \A y \in Nat \ S : <<y, x>> \notin less
  BY <1>1, <1>2, <1>3, WFMin
<1>5. PICK x \in Nat \ S : \A y \in Nat \ S : <<y, x>> \notin less
  BY <1>4
<1>6. x # 0 /\ x \in Nat
  BY <1>5
<1>7. x - 1 \in Nat /\ x - 1 + 1 = x /\ x - 1 < x
  BY <1>6
<1>8. x - 1 \notin S
  BY <1>5, <1>7
<1>9. <<x - 1, x>> \in less
  BY <1>6, <1>7 DEF less
<1> QED
  BY <1>5, <1>7, <1>8, <1>9
-----------------------------------------------------------------------------
\* Sequences put together

\* What FlattenSeq computes, one sequence after the other
Partial(ss, T, n, f) ==
    /\ f \in [0 .. n -> Seq(T)]
    /\ f[0] = <<>>
    /\ \A i \in 1 .. n : f[i] = f[i - 1] \o ss[i]

LEMMA PartialExists ==
  ASSUME NEW T, NEW ss \in Seq(Seq(T)), NEW n \in Nat, n <= Len(ss)
  PROVE  \E f : Partial(ss, T, n, f)
<1> DEFINE S == {m \in Nat : m <= Len(ss) => \E f : Partial(ss, T, m, f)}
<1>1. 0 \in S
  <2>1. Partial(ss, T, 0, [i \in 0 .. 0 |-> <<>>])
    BY DEF Partial
  <2> QED
    BY <2>1
<1>2. ASSUME NEW m \in Nat, m \in S
      PROVE  m + 1 \in S
  <2> SUFFICES ASSUME m + 1 <= Len(ss) PROVE \E f : Partial(ss, T, m + 1, f)
    OBVIOUS
  <2>1. PICK f : Partial(ss, T, m, f)
    BY <1>2
  <2> DEFINE g == [i \in 0 .. m + 1 |-> IF i = m + 1 THEN f[m] \o ss[m + 1] ELSE f[i]]
  <2>2. m + 1 \in 1 .. Len(ss) /\ m \in 0 .. m
    OBVIOUS
  <2>3. ss[m + 1] \in Seq(T) /\ f[m] \in Seq(T) /\ f[m] \o ss[m + 1] \in Seq(T)
    BY <2>1, <2>2 DEF Partial
  <2>4. g \in [0 .. m + 1 -> Seq(T)]
    <3>1. ASSUME NEW i \in 0 .. m + 1
          PROVE  g[i] \in Seq(T)
      <4>1. i = m + 1 \/ i \in 0 .. m
        OBVIOUS
      <4> QED
        BY <2>1, <2>3, <4>1 DEF Partial
    <3> QED
      BY <3>1
  <2>5. g[0] = <<>>
    <3>1. 0 # m + 1 /\ 0 \in 0 .. m + 1
      OBVIOUS
    <3> QED
      BY <2>1, <3>1 DEF Partial
  <2>6. ASSUME NEW i \in 1 .. m + 1
        PROVE  g[i] = g[i - 1] \o ss[i]
    <3>1. i - 1 \in 0 .. m /\ i - 1 \in 0 .. m + 1 /\ i - 1 # m + 1 /\ i \in 0 .. m + 1
      OBVIOUS
    <3>2. g[i - 1] = f[i - 1]
      BY <3>1
    <3>3. CASE i = m + 1
      <4>1. i - 1 = m
        BY <3>3
      <4> QED
        BY <3>1, <3>2, <3>3, <4>1
    <3>4. CASE i # m + 1
      <4>1. i \in 1 .. m
        BY <3>4
      <4>2. f[i] = f[i - 1] \o ss[i]
        BY <2>1, <4>1 DEF Partial
      <4> QED
        BY <3>1, <3>2, <3>4, <4>2
    <3> QED
      BY <3>3, <3>4
  <2> HIDE DEF g
  <2>7. Partial(ss, T, m + 1, g)
    BY <2>4, <2>5, <2>6 DEF Partial
  <2> QED
    BY <2>7
<1> HIDE DEF S
<1>3. Nat \subseteq S
  BY <1>1, <1>2, SetInduction
<1>4. n \in S
  BY <1>3
<1> QED
  BY <1>4 DEF S

LEMMA PartialUnique ==
  ASSUME NEW T, NEW ss \in Seq(Seq(T)), NEW n \in Nat, n <= Len(ss),
         NEW f, NEW g, Partial(ss, T, n, f), Partial(ss, T, n, g)
  PROVE  f[n] = g[n]
<1> DEFINE S == {m \in Nat : m <= n => f[m] = g[m]}
<1>1. 0 \in S
  BY DEF Partial
<1>2. ASSUME NEW m \in Nat, m \in S
      PROVE  m + 1 \in S
  <2> SUFFICES ASSUME m + 1 <= n PROVE f[m + 1] = g[m + 1]
    OBVIOUS
  <2>1. PICK i \in 1 .. n : i = m + 1
    OBVIOUS
  <2>2. f[i] = f[i - 1] \o ss[i] /\ g[i] = g[i - 1] \o ss[i]
    BY DEF Partial
  <2>3. i - 1 = m /\ m <= n
    BY <2>1
  <2>4. f[m] = g[m]
    BY <1>2, <2>3
  <2> QED
    BY <2>1, <2>2, <2>3, <2>4
<1> HIDE DEF S
<1>3. Nat \subseteq S
  BY <1>1, <1>2, SetInduction
<1>4. n \in S
  BY <1>3
<1> QED
  BY <1>4 DEF S

LEMMA FlattenStep ==
  ASSUME NEW T, NEW ss \in Seq(Seq(T)), NEW f, Partial(ss, T, Len(ss), f)
  PROVE  FlattenSeq(ss) = f[Len(ss)]
<1> DEFINE n == Len(ss)
<1> n \in Nat
  OBVIOUS
<1>1. CASE n = 0
  <2>1. ss = <<>>
    BY <1>1
  <2>2. FlattenSeq(ss) = ss
    BY <1>1 DEF FlattenSeq
  <2> QED
    BY <1>1, <2>1, <2>2 DEF Partial
<1>2. CASE n # 0
  <2> DEFINE Is(g) == g = [i \in 1 .. n |-> IF i = 1 THEN ss[i] ELSE g[i - 1] \o ss[i]]
  <2> DEFINE h == [i \in 1 .. n |-> f[i]]
  <2> DEFINE k == CHOOSE g : Is(g)
  <2>1. FlattenSeq(ss) = k[n]
    BY <1>2 DEF FlattenSeq
  <2>2. Is(h)
    <3>1. ASSUME NEW i \in 1 .. n
          PROVE  h[i] = IF i = 1 THEN ss[i] ELSE h[i - 1] \o ss[i]
      <4>1. f[i] = f[i - 1] \o ss[i]
        BY DEF Partial
      <4>2. CASE i = 1
        <5>1. f[i - 1] = <<>>
          BY <4>2 DEF Partial
        <5>2. ss[i] \in Seq(T)
          OBVIOUS
        <5>3. <<>> \o ss[i] = ss[i]
          BY <5>2
        <5> QED
          BY <4>1, <4>2, <5>1, <5>3
      <4>3. CASE i # 1
        <5>1. i - 1 \in 1 .. n
          BY <4>3
        <5> QED
          BY <4>1, <4>3, <5>1
      <4> QED
        BY <4>2, <4>3
    <3> QED
      BY <3>1
  <2> HIDE DEF Is, h
  <2>3. Is(k)
    BY <2>2
  <2> HIDE DEF k
  <2> DEFINE e == [i \in 0 .. n |-> IF i = 0 THEN <<>> ELSE k[i]]
  <2>4. \A i \in 1 .. n : k[i] = IF i = 1 THEN ss[i] ELSE k[i - 1] \o ss[i]
    BY <2>3 DEF Is
  <2>5. \A i \in 1 .. n : k[i] \in Seq(T)
    <3> DEFINE S == {m \in Nat : m + 1 <= n => k[m + 1] \in Seq(T)}
    <3>1. 0 \in S
      <4>1. 1 \in 1 .. n
        BY <1>2
      <4> QED
        BY <2>4, <4>1
    <3>2. ASSUME NEW m \in Nat, m \in S
          PROVE  m + 1 \in S
      <4> SUFFICES ASSUME m + 1 + 1 <= n PROVE k[m + 1 + 1] \in Seq(T)
        OBVIOUS
      <4>1. PICK i \in 1 .. n : i = m + 1 + 1
        OBVIOUS
      <4>2. i # 1 /\ i - 1 = m + 1 /\ m + 1 <= n
        BY <4>1
      <4>3. k[i] = k[i - 1] \o ss[i]
        BY <2>4, <4>2
      <4>4. k[i - 1] \in Seq(T) /\ ss[i] \in Seq(T)
        BY <3>2, <4>2
      <4>5. k[i] \in Seq(T)
        BY <4>3, <4>4
      <4> QED
        BY <4>1, <4>5
    <3> HIDE DEF S
    <3>3. Nat \subseteq S
      BY <3>1, <3>2, SetInduction
    <3>4. ASSUME NEW i \in 1 .. n
          PROVE  k[i] \in Seq(T)
      <4>1. i - 1 \in Nat /\ i - 1 + 1 = i /\ i <= n
        OBVIOUS
      <4>2. i - 1 \in S
        BY <3>3, <4>1
      <4> QED
        BY <4>1, <4>2 DEF S
    <3> QED
      BY <3>4
  <2>6. Partial(ss, T, n, e)
    <3>1. e \in [0 .. n -> Seq(T)] /\ e[0] = <<>>
      BY <2>5
    <3>2. ASSUME NEW i \in 1 .. n
          PROVE  e[i] = e[i - 1] \o ss[i]
      <4>1. e[i] = k[i]
        OBVIOUS
      <4>2. CASE i = 1
        <5>1. e[i - 1] = <<>> /\ k[i] = ss[i] /\ ss[i] \in Seq(T)
          BY <2>4, <4>2
        <5>2. <<>> \o ss[i] = ss[i]
          BY <5>1
        <5> QED
          BY <4>1, <5>1, <5>2
      <4>3. CASE i # 1
        <5>1. i - 1 \in 0 .. n /\ i - 1 # 0
          BY <4>3
        <5> QED
          BY <2>4, <4>1, <4>3, <5>1
      <4> QED
        BY <4>2, <4>3
    <3> HIDE DEF e
    <3> QED
      BY <3>1, <3>2 DEF Partial
  <2>7. e[n] = k[n]
    BY <1>2
  <2> HIDE DEF e
  <2>8. e[n] = f[n]
    BY <2>6, PartialUnique
  <2> QED
    BY <2>1, <2>7, <2>8
<1> QED
  BY <1>1, <1>2

LEMMA FlattenPartial ==
  ASSUME NEW T, NEW ss \in Seq(Seq(T))
  PROVE  \E f : Partial(ss, T, Len(ss), f) /\ FlattenSeq(ss) = f[Len(ss)]
<1>1. Len(ss) \in Nat
  OBVIOUS
<1>2. PICK f : Partial(ss, T, Len(ss), f)
  BY <1>1, PartialExists
<1> QED
  BY <1>2, FlattenStep

LEMMA FlattenType ==
  ASSUME NEW T, NEW ss \in Seq(Seq(T))
  PROVE  FlattenSeq(ss) \in Seq(T)
<1>1. PICK f : Partial(ss, T, Len(ss), f) /\ FlattenSeq(ss) = f[Len(ss)]
  BY FlattenPartial
<1>2. Len(ss) \in 0 .. Len(ss)
  OBVIOUS
<1> QED
  BY <1>1, <1>2 DEF Partial

LEMMA Together ==
  ASSUME NEW T, NEW a \in Seq(T), NEW b \in Seq(T), NEW c \in Seq(T)
  PROVE  a \o (b \o c) = (a \o b) \o c
<1>1. a \o (b \o c) \in Seq(T) /\ (a \o b) \o c \in Seq(T)
  OBVIOUS
<1>2. Len(a \o (b \o c)) = Len((a \o b) \o c)
  OBVIOUS
<1>3. ASSUME NEW i \in 1 .. Len(a \o (b \o c))
      PROVE  (a \o (b \o c))[i] = ((a \o b) \o c)[i]
  OBVIOUS
<1> QED
  BY <1>1, <1>2, <1>3, SeqEqual

LEMMA FlattenConcat ==
  ASSUME NEW T, NEW ss \in Seq(Seq(T)), NEW tt \in Seq(Seq(T))
  PROVE  FlattenSeq(ss \o tt) = FlattenSeq(ss) \o FlattenSeq(tt)
<1>0. ASSUME NEW a \in Seq(T), NEW b \in Seq(T), NEW c \in Seq(T)
      PROVE  a \o (b \o c) = (a \o b) \o c
  BY Together, SMTT(30)
<1> DEFINE m == Len(ss)
<1> DEFINE n == Len(tt)
<1>1. PICK f : Partial(ss, T, m, f) /\ FlattenSeq(ss) = f[m]
  BY FlattenPartial
<1>2. PICK g : Partial(tt, T, n, g) /\ FlattenSeq(tt) = g[n]
  BY FlattenPartial
<1> DEFINE h == [i \in 0 .. m + n |-> IF i <= m THEN f[i] ELSE f[m] \o g[i - m]]
<1>3. ss \o tt \in Seq(Seq(T)) /\ Len(ss \o tt) = m + n /\ m \in Nat /\ n \in Nat
  OBVIOUS
<1>4. f[m] \in Seq(T)
  BY <1>1, <1>3 DEF Partial
<1>5. h \in [0 .. m + n -> Seq(T)]
  <2>1. ASSUME NEW i \in 0 .. m + n
        PROVE  h[i] \in Seq(T)
    <3>1. CASE i <= m
      <4>1. i \in 0 .. m
        BY <3>1, <1>3
      <4> QED
        BY <1>1, <3>1, <4>1 DEF Partial
    <3>2. CASE ~(i <= m)
      <4>1. i - m \in 0 .. n
        BY <3>2, <1>3
      <4>2. g[i - m] \in Seq(T)
        BY <1>2, <4>1 DEF Partial
      <4> QED
        BY <1>4, <3>2, <4>2
    <3> QED
      BY <3>1, <3>2
  <2> QED
    BY <2>1
<1>6. h[0] = <<>>
  BY <1>1, <1>3 DEF Partial
<1>7. ASSUME NEW i \in 1 .. m + n
      PROVE  h[i] = h[i - 1] \o (ss \o tt)[i]
  <2>1. i \in 0 .. m + n /\ i - 1 \in 0 .. m + n
    BY <1>3
  <2>2. CASE i <= m
    <3>1. i \in 1 .. m /\ i - 1 <= m
      BY <2>2, <1>3
    <3>2. f[i] = f[i - 1] \o ss[i]
      BY <1>1, <3>1 DEF Partial
    <3>3. (ss \o tt)[i] = ss[i]
      BY <3>1
    <3> QED
      BY <2>1, <2>2, <3>1, <3>2, <3>3
  <2>3. CASE ~(i <= m)
    <3>0. i - m \in 1 .. n
      <4> HIDE DEF m, n
      <4> QED
        BY <2>3, <1>3
    <3>1. PICK j \in 1 .. n : j = i - m
      BY <3>0
    <3>2. g[j] = g[j - 1] \o tt[j]
      BY <1>2 DEF Partial
    <3>3. i - 1 - m = j - 1 /\ j - 1 \in 0 .. n /\ i \in Len(ss) + 1 .. Len(ss) + Len(tt)
      BY <3>1, <1>3
    <3>4. (ss \o tt)[i] = tt[j] /\ tt[j] \in Seq(T)
      BY <3>1, <3>3
    <3>5. h[i] = f[m] \o g[j]
      BY <2>1, <2>3, <3>1
    <3>6. g[j - 1] \in Seq(T)
      BY <1>2, <3>3 DEF Partial
    <3>7. h[i - 1] = f[m] \o g[j - 1]
      <4>1. CASE i - 1 <= m
        <5>1. i - 1 = m /\ j - 1 = 0
          BY <4>1, <2>3, <3>1, <1>3
        <5>2. g[j - 1] = <<>>
          BY <5>1, <1>2 DEF Partial
        <5>3. f[m] \o <<>> = f[m]
          BY <1>4
        <5> QED
          BY <2>1, <4>1, <5>1, <5>2, <5>3
      <4>2. CASE ~(i - 1 <= m)
        BY <2>1, <4>2, <3>3
      <4> QED
        BY <4>1, <4>2
    <3>8. f[m] \o (g[j - 1] \o tt[j]) = (f[m] \o g[j - 1]) \o tt[j]
      BY <1>0, <1>4, <3>4, <3>6
    <3> QED
      BY <3>2, <3>4, <3>5, <3>7, <3>8
  <2> QED
    BY <2>2, <2>3
<1> HIDE DEF h
<1>8. Partial(ss \o tt, T, m + n, h)
  BY <1>5, <1>6, <1>7 DEF Partial
<1>9. FlattenSeq(ss \o tt) = h[m + n]
  BY <1>3, <1>8, FlattenStep
<1>10. h[m + n] = f[m] \o g[n]
  <2>1. m + n \in 0 .. m + n /\ m + n - m = n
    BY <1>3
  <2>2. CASE n = 0
    <3>1. g[n] = <<>>
      BY <2>2, <1>2 DEF Partial
    <3>2. f[m] \o <<>> = f[m]
      BY <1>4
    <3>3. m + n = m
      BY <2>2, <1>3
    <3>4. h[m + n] = f[m]
      BY <2>1, <3>3 DEF h
    <3> HIDE DEF m, n
    <3> QED
      BY <3>1, <3>2, <3>4
  <2>3. CASE n # 0
    <3> HIDE DEF m, n
    <3>1. ~(m + n <= m)
      BY <2>3, <1>3
    <3>2. PICK i \in 0 .. m + n : i = m + n
      BY <2>1
    <3>3. h[i] = f[m] \o g[i - m]
      BY <3>1, <3>2 DEF h
    <3>4. i - m = n
      BY <3>2, <1>3
    <3> QED
      BY <3>2, <3>3, <3>4, Zenon
  <2> QED
    BY <2>2, <2>3
<1> QED
  BY <1>1, <1>2, <1>9, <1>10

LEMMA FlattenEmpties ==
  ASSUME NEW T, NEW ss \in Seq(Seq(T)), \A i \in 1 .. Len(ss) : ss[i] = <<>>
  PROVE  FlattenSeq(ss) = <<>>
<1> DEFINE f == [i \in 0 .. Len(ss) |-> <<>>]
<1>1. ASSUME NEW i \in 1 .. Len(ss)
      PROVE  f[i] = f[i - 1] \o ss[i]
  <2>1. i \in 0 .. Len(ss) /\ i - 1 \in 0 .. Len(ss)
    OBVIOUS
  <2>2. f[i] = <<>> /\ f[i - 1] = <<>> /\ ss[i] = <<>>
    BY <2>1
  <2> QED
    BY <2>2
<1>2. f \in [0 .. Len(ss) -> Seq(T)] /\ f[0] = <<>>
  OBVIOUS
<1>4. Partial(ss, T, Len(ss), f)
  <2> HIDE DEF f
  <2> QED
    BY <1>1, <1>2 DEF Partial
<1>3. f[Len(ss)] = <<>>
  OBVIOUS
<1> HIDE DEF f
<1> QED
  BY <1>3, <1>4, FlattenStep

LEMMA FlattenSingle ==
  ASSUME NEW T, NEW s \in Seq(T)
  PROVE  FlattenSeq(<<s>>) = s
<1> DEFINE f == [i \in 0 .. 1 |-> IF i = 0 THEN <<>> ELSE s]
<1>1. <<s>> \in Seq(Seq(T)) /\ Len(<<s>>) = 1
  OBVIOUS
<1>2. \A i \in 1 .. 1 : f[i] = f[i - 1] \o <<s>>[i]
  OBVIOUS
<1>3. Partial(<<s>>, T, 1, f)
  BY <1>2 DEF Partial
<1>4. f[1] = s
  OBVIOUS
<1> HIDE DEF f
<1> QED
  BY <1>1, <1>3, <1>4, FlattenStep

LEMMA FlattenUnits ==
  ASSUME NEW T, NEW p \in Seq(T)
  PROVE  FlattenSeq([i \in DOMAIN p |-> <<p[i]>>]) = p
<1> DEFINE ss == [i \in DOMAIN p |-> <<p[i]>>]
<1> DEFINE f == [i \in 0 .. Len(p) |-> SubSeq(p, 1, i)]
<1>1. ss \in Seq(Seq(T)) /\ Len(ss) = Len(p)
  <2>1. DOMAIN p = 1 .. Len(p) /\ Len(p) \in Nat
    OBVIOUS
  <2>2. \A i \in 1 .. Len(p) : <<p[i]>> \in Seq(T)
    OBVIOUS
  <2> QED
    BY <2>1, <2>2
<1>2. f \in [0 .. Len(p) -> Seq(T)] /\ f[0] = <<>>
  OBVIOUS
<1>3. ASSUME NEW i \in 1 .. Len(p)
      PROVE  f[i] = f[i - 1] \o ss[i]
  <2>1. SubSeq(p, 1, i) = SubSeq(p, 1, i - 1) \o <<p[i]>>
    <3>1. \A j \in 1 .. i : SubSeq(p, 1, i)[j] = (SubSeq(p, 1, i - 1) \o <<p[i]>>)[j]
      OBVIOUS
    <3>2. Len(SubSeq(p, 1, i)) = i /\ Len(SubSeq(p, 1, i - 1) \o <<p[i]>>) = i
      OBVIOUS
    <3>3. SubSeq(p, 1, i) \in Seq(T) /\ SubSeq(p, 1, i - 1) \o <<p[i]>> \in Seq(T)
      OBVIOUS
    <3> QED
      BY <3>1, <3>2, <3>3, SeqEqual
  <2>2. i \in 0 .. Len(p) /\ i - 1 \in 0 .. Len(p) /\ i \in DOMAIN p
    OBVIOUS
  <2>3. f[i] = SubSeq(p, 1, i) /\ f[i - 1] = SubSeq(p, 1, i - 1) /\ ss[i] = <<p[i]>>
    BY <2>2
  <2> HIDE DEF f, ss
  <2> QED
    BY <2>1, <2>3
<1>4. f[Len(p)] = p
  OBVIOUS
<1> HIDE DEF ss, f
<1>5. Partial(ss, T, Len(p), f)
  BY <1>2, <1>3 DEF Partial
<1>6. FlattenSeq(ss) = f[Len(p)]
  BY <1>1, <1>5, FlattenStep
<1> QED
  BY <1>4, <1>6 DEF ss

LEMMA FlattenFlatten ==
  ASSUME NEW T, NEW sss \in Seq(Seq(Seq(T)))
  PROVE  FlattenSeq(FlattenSeq(sss)) = FlattenSeq([i \in DOMAIN sss |-> FlattenSeq(sss[i])])
<1> DEFINE n == Len(sss)
<1> DEFINE ss == [i \in DOMAIN sss |-> FlattenSeq(sss[i])]
<1>1. PICK g : Partial(sss, Seq(T), n, g) /\ FlattenSeq(sss) = g[n]
  BY FlattenPartial
<1> DEFINE f == [i \in 0 .. n |-> FlattenSeq(g[i])]
<1>2. DOMAIN sss = 1 .. n /\ n \in Nat
  OBVIOUS
<1>3. \A i \in 1 .. n : sss[i] \in Seq(Seq(T))
  OBVIOUS
<1>4. \A i \in 1 .. n : FlattenSeq(sss[i]) \in Seq(T)
  BY <1>3, FlattenType
<1>5. ss \in Seq(Seq(T)) /\ Len(ss) = n
  BY <1>2, <1>4
<1>6. \A i \in 0 .. n : g[i] \in Seq(Seq(T))
  BY <1>1 DEF Partial
<1>7. \A i \in 0 .. n : FlattenSeq(g[i]) \in Seq(T)
  BY <1>6, FlattenType
<1>8. f \in [0 .. n -> Seq(T)]
  BY <1>7
<1>9. f[0] = <<>>
  <2>1. g[0] = <<>> /\ FlattenSeq(<<>>) = <<>>
    BY <1>1 DEF Partial, FlattenSeq
  <2> QED
    BY <2>1, <1>2
<1>10. ASSUME NEW i \in 1 .. n
       PROVE  f[i] = f[i - 1] \o ss[i]
  <2>1. i \in 0 .. n /\ i - 1 \in 0 .. n
    OBVIOUS
  <2>2. g[i] = g[i - 1] \o sss[i]
    BY <1>1 DEF Partial
  <2>3. FlattenSeq(g[i - 1] \o sss[i]) = FlattenSeq(g[i - 1]) \o FlattenSeq(sss[i])
    BY <1>3, <1>6, <2>1, FlattenConcat
  <2> QED
    BY <1>2, <2>1, <2>2, <2>3
<1>11. f[n] = FlattenSeq(FlattenSeq(sss))
  BY <1>1, <1>2
<1> HIDE DEF ss, f
<1>12. Partial(ss, T, n, f)
  BY <1>8, <1>9, <1>10 DEF Partial
<1>13. FlattenSeq(ss) = f[n]
  BY <1>5, <1>12, FlattenStep
<1> QED
  BY <1>11, <1>13 DEF ss
-----------------------------------------------------------------------------
\* What is collected from the members of a sequence

Parts(q, F) == [i \in DOMAIN q |-> F[q[i]]]
Collect(q, F) == FlattenSeq(Parts(q, F))
Into(F, U, T) == F \in [U -> Seq(T)]

LEMMA PartsAre ==
  ASSUME NEW T, NEW U, NEW F, Into(F, U, T)
  PROVE  \A q \in Seq(U) :
           /\ Parts(q, F) \in Seq(Seq(T)) /\ Len(Parts(q, F)) = Len(q)
           /\ \A i \in 1 .. Len(q) : Parts(q, F)[i] = F[q[i]]
<1> SUFFICES ASSUME NEW q \in Seq(U)
             PROVE  /\ Parts(q, F) \in Seq(Seq(T)) /\ Len(Parts(q, F)) = Len(q)
                    /\ \A i \in 1 .. Len(q) : Parts(q, F)[i] = F[q[i]]
  OBVIOUS
<1>1. DOMAIN q = 1 .. Len(q) /\ Len(q) \in Nat
  OBVIOUS
<1>2. \A i \in 1 .. Len(q) : F[q[i]] \in Seq(T)
  BY DEF Into
<1> QED
  BY <1>1, <1>2 DEF Parts

LEMMA CollectType ==
  ASSUME NEW T, NEW U, NEW q \in Seq(U), NEW F, Into(F, U, T)
  PROVE  Collect(q, F) \in Seq(T)
<1>1. Parts(q, F) \in Seq(Seq(T))
  BY PartsAre
<1> QED
  BY <1>1, FlattenType DEF Collect

LEMMA CollectConcat ==
  ASSUME NEW T, NEW U, NEW F, Into(F, U, T)
  PROVE  \A a, b \in Seq(U) : Collect(a \o b, F) = Collect(a, F) \o Collect(b, F)
<1> SUFFICES ASSUME NEW a \in Seq(U), NEW b \in Seq(U)
             PROVE  Collect(a \o b, F) = Collect(a, F) \o Collect(b, F)
  OBVIOUS
<1> DEFINE c == a \o b
<1>1. c \in Seq(U) /\ Len(c) = Len(a) + Len(b)
  OBVIOUS
<1>2. /\ \A i \in 1 .. Len(a) : c[i] = a[i]
      /\ \A i \in 1 .. Len(b) : c[Len(a) + i] = b[i]
  OBVIOUS
<1> HIDE DEF c
<1>0. \A q \in Seq(U) :
        /\ Parts(q, F) \in Seq(Seq(T)) /\ Len(Parts(q, F)) = Len(q)
        /\ \A i \in 1 .. Len(q) : Parts(q, F)[i] = F[q[i]]
  BY PartsAre
<1> DEFINE ss == Parts(a, F)
<1> DEFINE tt == Parts(b, F)
<1> DEFINE uu == Parts(c, F)
<1>3. /\ ss \in Seq(Seq(T)) /\ Len(ss) = Len(a)
      /\ \A i \in 1 .. Len(a) : ss[i] = F[a[i]]
  BY <1>0
<1>4. /\ tt \in Seq(Seq(T)) /\ Len(tt) = Len(b)
      /\ \A i \in 1 .. Len(b) : tt[i] = F[b[i]]
  BY <1>0
<1>5. /\ uu \in Seq(Seq(T)) /\ Len(uu) = Len(c)
      /\ \A i \in 1 .. Len(c) : uu[i] = F[c[i]]
  BY <1>0, <1>1
<1> HIDE DEF ss, tt, uu
<1>6. ss \o tt \in Seq(Seq(T)) /\ Len(ss \o tt) = Len(ss) + Len(tt)
  <2>1. ss \in Seq(Seq(T)) /\ tt \in Seq(Seq(T))
    BY <1>3, <1>4
  <2> QED
    BY <2>1
<1>7. ASSUME NEW i \in 1 .. Len(uu)
      PROVE  uu[i] = (ss \o tt)[i]
  <2>1. uu[i] = F[c[i]]
    BY <1>5
  <2>2. CASE i <= Len(a)
    <3>1. i \in 1 .. Len(a)
      BY <2>2
    <3>2. c[i] = a[i]
      BY <1>2, <3>1
    <3>3. (ss \o tt)[i] = ss[i]
      BY <1>3, <1>4, <3>1
    <3> QED
      BY <1>3, <2>1, <3>1, <3>2, <3>3
  <2>3. CASE ~(i <= Len(a))
    <3>1. i - Len(a) \in 1 .. Len(b)
      BY <1>1, <1>5, <2>3
    <3>2. PICK j \in 1 .. Len(b) : j = i - Len(a)
      BY <3>1
    <3>3. i = Len(a) + j
      BY <3>2
    <3>4. c[i] = b[j]
      BY <1>2, <3>3
    <3>5. (ss \o tt)[Len(ss) + j] = tt[j]
      BY <1>3, <1>4
    <3> QED
      BY <1>3, <1>4, <2>1, <3>3, <3>4, <3>5
  <2> QED
    BY <2>2, <2>3
<1>8. uu = ss \o tt
  BY <1>1, <1>3, <1>4, <1>5, <1>6, <1>7, SeqEqual
<1>9. FlattenSeq(ss \o tt) = FlattenSeq(ss) \o FlattenSeq(tt)
  BY <1>3, <1>4, FlattenConcat
<1> QED
  BY <1>8, <1>9 DEF Collect, ss, tt, uu, c

\* Nothing is collected, or everything
LEMMA CollectNone ==
  ASSUME NEW T, NEW U, NEW q \in Seq(U), NEW F, Into(F, U, T),
         \A i \in 1 .. Len(q) : F[q[i]] = <<>>
  PROVE  Collect(q, F) = <<>>
<1>0. \A r \in Seq(U) :
        /\ Parts(r, F) \in Seq(Seq(T)) /\ Len(Parts(r, F)) = Len(r)
        /\ \A i \in 1 .. Len(r) : Parts(r, F)[i] = F[r[i]]
  BY PartsAre
<1> DEFINE ss == Parts(q, F)
<1>1. /\ ss \in Seq(Seq(T)) /\ Len(ss) = Len(q)
      /\ \A i \in 1 .. Len(q) : ss[i] = F[q[i]]
  BY <1>0
<1> HIDE DEF ss
<1>2. \A i \in 1 .. Len(ss) : ss[i] = <<>>
  BY <1>1
<1>3. FlattenSeq(ss) = <<>>
  BY <1>1, <1>2, FlattenEmpties
<1> QED
  BY <1>3 DEF Collect, ss

LEMMA CollectAll ==
  ASSUME NEW U, NEW q \in Seq(U), NEW F, Into(F, U, U),
         \A i \in 1 .. Len(q) : F[q[i]] = <<q[i]>>
  PROVE  Collect(q, F) = q
<1>1. DOMAIN q = 1 .. Len(q)
  OBVIOUS
<1>2. [i \in DOMAIN q |-> F[q[i]]] = [i \in DOMAIN q |-> <<q[i]>>]
  BY <1>1
<1>3. FlattenSeq([i \in DOMAIN q |-> <<q[i]>>]) = q
  BY FlattenUnits
<1> QED
  BY <1>2, <1>3 DEF Collect, Parts

LEMMA JoinSubSeq ==
  ASSUME NEW T, NEW p \in Seq(T), NEW b \in Nat, NEW i \in Nat, b <= i, i <= Len(p)
  PROVE  /\ SubSeq(p, 1, b) \in Seq(T) /\ SubSeq(p, b + 1, i) \in Seq(T)
         /\ SubSeq(p, 1, i) = SubSeq(p, 1, b) \o SubSeq(p, b + 1, i)
<1>1. SubSeq(p, 1, b) \in Seq(T) /\ Len(SubSeq(p, 1, b)) = b
  OBVIOUS
<1>2. SubSeq(p, b + 1, i) \in Seq(T) /\ Len(SubSeq(p, b + 1, i)) = i - b
  OBVIOUS
<1>3. SubSeq(p, 1, i) \in Seq(T) /\ Len(SubSeq(p, 1, i)) = i
  OBVIOUS
<1>4. ASSUME NEW j \in 1 .. i
      PROVE  SubSeq(p, 1, i)[j] = (SubSeq(p, 1, b) \o SubSeq(p, b + 1, i))[j]
  OBVIOUS
<1>5. /\ SubSeq(p, 1, b) \o SubSeq(p, b + 1, i) \in Seq(T)
      /\ Len(SubSeq(p, 1, b) \o SubSeq(p, b + 1, i)) = i
  BY <1>1, <1>2
<1> QED
  BY <1>1, <1>2, <1>3, <1>4, <1>5, SeqEqual

\* A finite set of numbers has a first and a last.
LEMMA MaxIs ==
  ASSUME NEW n \in Nat, NEW S, S \subseteq 0 .. n, S # {}
  PROVE  Max(S) \in S /\ \A y \in S : y <= Max(S)
<1> DEFINE N == {m \in Nat : \A X : X \subseteq 0 .. m /\ X # {} =>
                   \E x \in X : \A y \in X : x >= y}
<1>1. 0 \in N
  OBVIOUS
<1>2. ASSUME NEW m \in Nat, m \in N
      PROVE  m + 1 \in N
  <2> SUFFICES ASSUME NEW X, X \subseteq 0 .. m + 1, X # {}
               PROVE  \E x \in X : \A y \in X : x >= y
    OBVIOUS
  <2>1. CASE m + 1 \in X
    BY <2>1
  <2>2. CASE m + 1 \notin X
    <3>1. X \subseteq 0 .. m
      BY <2>2
    <3> QED
      BY <1>2, <3>1
  <2> QED
    BY <2>1, <2>2
<1> HIDE DEF N
<1>3. Nat \subseteq N
  BY <1>1, <1>2, SetInduction
<1>4. n \in N
  BY <1>3
<1>5. \E x \in S : \A y \in S : x >= y
  BY <1>4 DEF N
<1>6. Max(S) \in S /\ \A y \in S : Max(S) >= y
  BY <1>5 DEF Max
<1> QED
  BY <1>6

LEMMA MinIs ==
  ASSUME NEW n \in Nat, NEW S, S \subseteq 0 .. n, S # {}
  PROVE  Min(S) \in S
<1> DEFINE N == {m \in Nat : \A X : X \subseteq 0 .. m /\ X # {} =>
                   \E x \in X : \A y \in X : x <= y}
<1>1. 0 \in N
  OBVIOUS
<1>2. ASSUME NEW m \in Nat, m \in N
      PROVE  m + 1 \in N
  <2> SUFFICES ASSUME NEW X, X \subseteq 0 .. m + 1, X # {}
               PROVE  \E x \in X : \A y \in X : x <= y
    OBVIOUS
  <2>1. CASE X = {m + 1}
    BY <2>1
  <2>2. CASE X # {m + 1}
    <3> DEFINE Y == X \ {m + 1}
    <3>1. Y \subseteq 0 .. m /\ Y # {}
      BY <2>2
    <3>2. PICK x \in Y : \A y \in Y : x <= y
      BY <1>2, <3>1
    <3>3. x \in X /\ x <= m + 1
      BY <3>1, <3>2
    <3> QED
      BY <3>2, <3>3
  <2> QED
    BY <2>1, <2>2
<1> HIDE DEF N
<1>3. Nat \subseteq N
  BY <1>1, <1>2, SetInduction
<1>4. n \in N
  BY <1>3
<1>5. \E x \in S : \A y \in S : x <= y
  BY <1>4 DEF N
<1> QED
  BY <1>5 DEF Min
-----------------------------------------------------------------------------
\* Pieces

Tok == Token \cup Own

LEMMA Newline ==
  ASSUME NEW p \in Seq(Tok)
  PROVE  /\ Newlines(p) \subseteq 1 .. Len(p)
         /\ \A i \in 1 .. Len(p) : i \in Newlines(p) <=> p[i].part # "head"
<1>1. DOMAIN p = 1 .. Len(p)
  OBVIOUS
<1> QED
  BY <1>1 DEF Newlines

LEMMA Head1 ==
  ASSUME NEW p \in Seq(Tok), NEW kind
  PROVE  /\ Heads(p, kind) \subseteq 1 .. Len(p)
         /\ \A i \in 1 .. Len(p) : i \in Heads(p, kind) <=> p[i].part = "head" /\ p[i].kind = kind
<1>1. DOMAIN p = 1 .. Len(p)
  OBVIOUS
<1> QED
  BY <1>1 DEF Heads

LEMMA BeforeIs ==
  ASSUME NEW p \in Seq(Tok), NEW i \in 1 .. Len(p) + 1
  PROVE  /\ Before(p, i) \in 0 .. i - 1
         /\ Before(p, i) \in {0} \cup Newlines(p)
         /\ \A j \in Newlines(p) : j < i => j <= Before(p, i)
<1> DEFINE S == {0} \cup {j \in Newlines(p) : j < i}
<1>1. Newlines(p) \subseteq 1 .. Len(p) /\ Len(p) \in Nat
  BY Newline
<1>2. S \subseteq 0 .. i - 1 /\ S # {} /\ i - 1 \in Nat
  BY <1>1
<1> HIDE DEF S
<1>3. Max(S) \in S /\ \A y \in S : y <= Max(S)
  BY <1>2, MaxIs
<1>4. Before(p, i) = Max(S)
  BY DEF Before, S
<1> QED
  BY <1>2, <1>3, <1>4 DEF S

\* Where the next line begins
LEMMA BeforeNext ==
  ASSUME NEW p \in Seq(Tok), NEW i \in 1 .. Len(p)
  PROVE  Before(p, i + 1) = IF i \in Newlines(p) THEN i ELSE Before(p, i)
<1>1. Newlines(p) \subseteq 1 .. Len(p) /\ Len(p) \in Nat
  BY Newline
<1>2. i \in 1 .. Len(p) + 1 /\ i + 1 \in 1 .. Len(p) + 1
  OBVIOUS
<1> DEFINE a == Before(p, i)
<1> DEFINE b == Before(p, i + 1)
<1>3. a \in 0 .. i - 1 /\ a \in {0} \cup Newlines(p) /\ \A j \in Newlines(p) : j < i => j <= a
  BY <1>2, BeforeIs
<1>4. /\ b \in 0 .. i + 1 - 1 /\ b \in {0} \cup Newlines(p)
      /\ \A j \in Newlines(p) : j < i + 1 => j <= b
  BY <1>2, BeforeIs
<1> HIDE DEF a, b
<1>5. CASE i \in Newlines(p)
  BY <1>4, <1>5 DEF a, b
<1>6. CASE i \notin Newlines(p)
  <2>1. a <= b
    BY <1>3, <1>4
  <2>2. b <= a
    <3>1. CASE b = 0
      BY <3>1, <1>3
    <3>2. CASE b # 0
      <4>1. b \in Newlines(p) /\ b # i
        BY <3>2, <1>4, <1>6
      <4>2. b < i
        BY <4>1, <1>4
      <4> QED
        BY <4>1, <4>2, <1>3
    <3> QED
      BY <3>1, <3>2
  <2> QED
    BY <2>1, <2>2, <1>3, <1>4, <1>6 DEF a, b
<1> QED
  BY <1>5, <1>6

LEMMA LineToType ==
  ASSUME NEW p \in Seq(Tok), NEW i \in 1 .. Len(p)
  PROVE  LineTo(p, i) \in Seq(Seq(Tok))
<1>1. Before(p, i) \in 0 .. i - 1
  BY BeforeIs
<1>2. SubSeq(p, Before(p, i) + 1, i) \in Seq(Tok)
  <2>1. PICK b \in 0 .. i - 1 : b = Before(p, i)
    BY <1>1
  <2>2. SubSeq(p, b + 1, i) \in Seq(Tok)
    OBVIOUS
  <2> QED
    BY <2>1, <2>2
<1> QED
  BY <1>2 DEF LineTo

LEMMA LinesType ==
  ASSUME NEW p \in Seq(Tok)
  PROVE  Lines(p) \in Seq(Seq(Tok))
<1>1. DOMAIN p = 1 .. Len(p) /\ Len(p) \in Nat
  OBVIOUS
<1>2. [i \in DOMAIN p |-> LineTo(p, i)] \in Seq(Seq(Seq(Tok)))
  BY <1>1, LineToType
<1> QED
  BY <1>2, FlattenType DEF Lines

\* The lines of a piece are the piece.
LEMMA LinesTell ==
  ASSUME NEW p \in Seq(Tok)
  PROVE  FlattenSeq(Lines(p)) = p
<1> DEFINE n == Len(p)
<1> DEFINE sss == [i \in DOMAIN p |-> LineTo(p, i)]
<1> DEFINE ss == [i \in DOMAIN sss |-> FlattenSeq(sss[i])]
<1> DEFINE f == [i \in 0 .. n |-> SubSeq(p, 1, IF i = n THEN n ELSE Before(p, i + 1))]
<1>1. DOMAIN p = 1 .. n /\ n \in Nat
  OBVIOUS
<1>2. sss \in Seq(Seq(Seq(Tok))) /\ DOMAIN sss = 1 .. n /\ Len(sss) = n
  BY <1>1, LineToType
<1>3. FlattenSeq(Lines(p)) = FlattenSeq(ss)
  <2> HIDE DEF sss
  <2>1. FlattenSeq(FlattenSeq(sss)) = FlattenSeq(ss)
    BY <1>2, FlattenFlatten
  <2> QED
    BY <2>1 DEF Lines, sss
<1>4. \A i \in 1 .. n : FlattenSeq(LineTo(p, i)) \in Seq(Tok)
  BY LineToType, FlattenType
<1>5. \A i \in 1 .. n : ss[i] = FlattenSeq(LineTo(p, i))
  BY <1>1, <1>2
<1>6. ss \in Seq(Seq(Tok)) /\ Len(ss) = n
  <2>1. DOMAIN ss = 1 .. n
    BY <1>2
  <2>2. \A i \in 1 .. n : ss[i] \in Seq(Tok)
    BY <1>4, <1>5
  <2>3. ss = [i \in 1 .. n |-> ss[i]]
    BY <1>2
  <2> HIDE DEF ss
  <2> QED
    BY <2>1, <2>2, <2>3, <1>1
<1>7. \A i \in 0 .. n : i # n => Before(p, i + 1) \in 0 .. i
  <2> TAKE i \in 0 .. n
  <2> HAVE i # n
  <2>1. i + 1 \in 1 .. Len(p) + 1 /\ i + 1 - 1 = i
    OBVIOUS
  <2>2. Before(p, i + 1) \in 0 .. i + 1 - 1
    BY <2>1, BeforeIs
  <2> QED
    BY <2>1, <2>2
<1>8. f \in [0 .. n -> Seq(Tok)]
  <2>1. ASSUME NEW i \in 0 .. n
        PROVE  f[i] \in Seq(Tok)
    <3>1. CASE i = n
      <4>1. f[i] = SubSeq(p, 1, n)
        BY <3>1
      <4> HIDE DEF f
      <4> QED
        BY <4>1
    <3>2. CASE i # n
      <4>1. PICK k \in 0 .. i : k = Before(p, i + 1)
        BY <1>7, <3>2
      <4>2. f[i] = SubSeq(p, 1, k)
        BY <3>2, <4>1
      <4>3. SubSeq(p, 1, k) \in Seq(Tok)
        BY <1>1
      <4> HIDE DEF f
      <4> QED
        BY <4>2, <4>3
    <3> QED
      BY <3>1, <3>2
  <2> QED
    BY <2>1
<1>9. f[0] = <<>>
  <2>1. CASE n = 0
    BY <2>1
  <2>2. CASE n # 0
    <3>1. 0 \in 0 .. n /\ 0 + 1 = 1
      BY <1>1
    <3>2. Before(p, 0 + 1) = 0
      BY <1>7, <2>2, <3>1
    <3>3. SubSeq(p, 1, 0) = <<>>
      OBVIOUS
    <3> QED
      BY <2>2, <3>1, <3>2, <3>3
  <2> QED
    BY <2>1, <2>2
<1>10. ASSUME NEW i \in 1 .. n
       PROVE  f[i] = f[i - 1] \o ss[i]
  <2>1. PICK b \in 0 .. i - 1 : b = Before(p, i)
    BY BeforeIs
  <2>2. i - 1 \in 0 .. n /\ i - 1 # n /\ i - 1 + 1 = i /\ i \in 0 .. n
    BY <1>1
  <2>3. f[i - 1] = SubSeq(p, 1, b)
    BY <2>1, <2>2
  <2>4. Before(p, i + 1) = IF i \in Newlines(p) THEN i ELSE b
    BY <2>1, BeforeNext
  <2>5. /\ SubSeq(p, 1, b) \in Seq(Tok) /\ SubSeq(p, b + 1, i) \in Seq(Tok)
        /\ SubSeq(p, 1, i) = SubSeq(p, 1, b) \o SubSeq(p, b + 1, i)
    BY <1>1, JoinSubSeq
  <2>6. CASE i \in Newlines(p) \cup {Len(p)}
    <3>1. f[i] = SubSeq(p, 1, i)
      BY <2>2, <2>4, <2>6
    <3>2. LineTo(p, i) = <<SubSeq(p, b + 1, i)>>
      BY <2>1, <2>6 DEF LineTo
    <3>3. ss[i] = SubSeq(p, b + 1, i)
      BY <1>5, <2>5, <3>2, FlattenSingle
    <3> HIDE DEF f, ss
    <3> QED
      BY <2>3, <2>5, <3>1, <3>3
  <2>7. CASE i \notin Newlines(p) \cup {Len(p)}
    <3>1. f[i] = SubSeq(p, 1, b)
      BY <2>2, <2>4, <2>7
    <3>2. LineTo(p, i) = <<>>
      BY <2>7 DEF LineTo
    <3>3. FlattenSeq(<<>>) = <<>>
      BY DEF FlattenSeq
    <3>4. ss[i] = <<>>
      BY <1>5, <3>2, <3>3
    <3> HIDE DEF f, ss
    <3> QED
      BY <2>3, <2>5, <3>1, <3>4
  <2> QED
    BY <2>6, <2>7
<1>11. f[n] = p
  BY <1>1
<1> HIDE DEF ss, f
<1>12. Partial(ss, Tok, n, f)
  BY <1>8, <1>9, <1>10 DEF Partial
<1>13. FlattenSeq(ss) = f[n]
  BY <1>6, <1>12, FlattenStep
<1> QED
  BY <1>3, <1>11, <1>13
-----------------------------------------------------------------------------
\* What is left of the client's tokens, and what is put behind them

EndOf == [t \in Tok |-> IF t.part = "end" THEN <<t>> ELSE <<>>]
NotOwnOf == [t \in Tok |-> IF t.kind = "own" THEN <<>> ELSE <<t>>]

LEMMA EndOfInto == Into(EndOf, Tok, Tok)
  BY DEF Into, EndOf

LEMMA NotOwnOfInto == Into(NotOwnOf, Tok, Tok)
  BY DEF Into, NotOwnOf

LEMMA EndsOfCollects ==
  ASSUME NEW q \in Seq(Tok)
  PROVE  EndsOf(q) = Collect(q, EndOf)
<1>1. DOMAIN q = 1 .. Len(q) /\ \A i \in 1 .. Len(q) : q[i] \in Tok
  OBVIOUS
<1>2. \A i \in DOMAIN q : EndOf[q[i]] = IF q[i].part = "end" THEN <<q[i]>> ELSE <<>>
  BY <1>1 DEF EndOf
<1> QED
  BY <1>2 DEF EndsOf, Collect, Parts

LEMMA NotOwnCollects ==
  ASSUME NEW q \in Seq(Tok)
  PROVE  NotOwn(q) = Collect(q, NotOwnOf)
<1>1. DOMAIN q = 1 .. Len(q) /\ \A i \in 1 .. Len(q) : q[i] \in Tok
  OBVIOUS
<1>2. \A i \in DOMAIN q : NotOwnOf[q[i]] = IF q[i].kind = "own" THEN <<>> ELSE <<q[i]>>
  BY <1>1 DEF NotOwnOf
<1> QED
  BY <1>2 DEF NotOwn, Collect, Parts

LEMMA EndsOfConcat ==
  ASSUME NEW a \in Seq(Tok), NEW b \in Seq(Tok)
  PROVE  /\ EndsOf(a) \in Seq(Tok)
         /\ EndsOf(a \o b) = EndsOf(a) \o EndsOf(b)
<1>1. a \o b \in Seq(Tok)
  OBVIOUS
<1>2. \A x, y \in Seq(Tok) : Collect(x \o y, EndOf) = Collect(x, EndOf) \o Collect(y, EndOf)
  BY EndOfInto, CollectConcat, SMTT(30)
<1>3. Collect(a, EndOf) \in Seq(Tok)
  BY EndOfInto, CollectType
<1> QED
  <2>1. EndsOf(a) = Collect(a, EndOf) /\ EndsOf(b) = Collect(b, EndOf)
    BY EndsOfCollects, Zenon
  <2>2. EndsOf(a \o b) = Collect(a \o b, EndOf)
    BY <1>1, EndsOfCollects, Zenon
  <2> QED
    BY <1>2, <1>3, <2>1, <2>2, Zenon

LEMMA NotOwnConcat ==
  ASSUME NEW a \in Seq(Tok), NEW b \in Seq(Tok)
  PROVE  /\ NotOwn(a) \in Seq(Tok)
         /\ NotOwn(a \o b) = NotOwn(a) \o NotOwn(b)
<1>1. a \o b \in Seq(Tok)
  OBVIOUS
<1>2. \A x, y \in Seq(Tok) : Collect(x \o y, NotOwnOf) = Collect(x, NotOwnOf) \o Collect(y, NotOwnOf)
  BY NotOwnOfInto, CollectConcat, SMTT(30)
<1>3. Collect(a, NotOwnOf) \in Seq(Tok)
  BY NotOwnOfInto, CollectType
<1> QED
  <2>1. NotOwn(a) = Collect(a, NotOwnOf) /\ NotOwn(b) = Collect(b, NotOwnOf)
    BY NotOwnCollects, Zenon
  <2>2. NotOwn(a \o b) = Collect(a \o b, NotOwnOf)
    BY <1>1, NotOwnCollects, Zenon
  <2> QED
    BY <1>2, <1>3, <2>1, <2>2, Zenon

LEMMA NoEnds ==
  ASSUME NEW q \in Seq(Tok), \A i \in 1 .. Len(q) : q[i].part # "end"
  PROVE  EndsOf(q) = <<>>
<1>1. \A i \in 1 .. Len(q) : EndOf[q[i]] = <<>>
  BY DEF EndOf
<1>2. Collect(q, EndOf) = <<>>
  BY <1>1, EndOfInto, CollectNone
<1> QED
  BY <1>2, EndsOfCollects

LEMMA OwnLines ==
  ASSUME NEW lines \in Seq(Own)
  PROVE  /\ lines \in Seq(Tok) /\ EndsOf(lines) = <<>> /\ NotOwn(lines) = <<>>
         /\ \A i \in 1 .. Len(lines) : lines[i].part # "head"
<1>1. lines \in Seq(Tok)
  BY SeqMonotonic DEF Tok
<1>2. \A i \in 1 .. Len(lines) : /\ lines[i].part # "end" /\ lines[i].part # "head"
                                 /\ lines[i].kind = "own"
  <2> TAKE i \in 1 .. Len(lines)
  <2>1. lines[i] \in Own
    OBVIOUS
  <2> QED
    BY <2>1 DEF Own
<1>3. EndsOf(lines) = <<>>
  BY <1>1, <1>2, NoEnds
<1>4. \A i \in 1 .. Len(lines) : NotOwnOf[lines[i]] = <<>>
  BY <1>1, <1>2 DEF NotOwnOf
<1>5. Collect(lines, NotOwnOf) = <<>>
  BY <1>1, <1>4, NotOwnOfInto, CollectNone
<1> QED
  BY <1>1, <1>2, <1>3, <1>5, NotOwnCollects

LEMMA TokenLines ==
  ASSUME NEW p \in Seq(Token)
  PROVE  /\ p \in Seq(Tok) /\ NotOwn(p) = p
         /\ \A i \in 1 .. Len(p) : p[i].kind # "own"
<1>1. p \in Seq(Tok)
  BY SeqMonotonic DEF Tok
<1>2. \A i \in 1 .. Len(p) : p[i].kind # "own"
  <2> TAKE i \in 1 .. Len(p)
  <2>1. p[i] \in Token
    OBVIOUS
  <2> QED
    BY <2>1 DEF Token, Kinds
<1>3. \A i \in 1 .. Len(p) : NotOwnOf[p[i]] = <<p[i]>>
  BY <1>1, <1>2 DEF NotOwnOf
<1>4. Collect(p, NotOwnOf) = p
  BY <1>1, <1>3, NotOwnOfInto, CollectAll
<1> QED
  BY <1>1, <1>2, <1>4, NotOwnCollects

\* No line is split by one of the TrumanBox.
Unsplit(q) ==
    \A i \in DOMAIN q : q[i].kind = "own" => i > 1 /\ q[i - 1].part # "head"

LEMMA UnsplitConcat ==
  ASSUME NEW a \in Seq(Tok), NEW b \in Seq(Tok), Unsplit(a), Unsplit(b)
  PROVE  Unsplit(a \o b)
<1>1. a \o b \in Seq(Tok) /\ Len(a \o b) = Len(a) + Len(b)
  OBVIOUS
<1>2. ASSUME NEW i \in 1 .. Len(a) + Len(b), (a \o b)[i].kind = "own"
      PROVE  i > 1 /\ (a \o b)[i - 1].part # "head"
  <2>1. CASE i <= Len(a)
    <3>1. i \in 1 .. Len(a) /\ i \in DOMAIN a
      BY <2>1
    <3>2. (a \o b)[i] = a[i]
      BY <3>1
    <3>3. i > 1 /\ a[i - 1].part # "head"
      BY <1>2, <3>1, <3>2 DEF Unsplit
    <3>4. i - 1 \in 1 .. Len(a)
      BY <3>1, <3>3
    <3>5. (a \o b)[i - 1] = a[i - 1]
      BY <3>4
    <3> QED
      BY <3>3, <3>5
  <2>2. CASE ~(i <= Len(a))
    <3>1. i - Len(a) \in 1 .. Len(b)
      BY <2>2
    <3>2. PICK j \in 1 .. Len(b) : j = i - Len(a)
      BY <3>1
    <3>3. j \in DOMAIN b /\ i = Len(a) + j
      BY <3>2
    <3>4. (a \o b)[Len(a) + j] = b[j]
      OBVIOUS
    <3>5. j > 1 /\ b[j - 1].part # "head"
      BY <1>2, <3>3, <3>4 DEF Unsplit
    <3>6. PICK k \in 1 .. Len(b) : k = j - 1
      BY <3>5
    <3>7. (a \o b)[Len(a) + k] = b[k]
      OBVIOUS
    <3>8. i - 1 = Len(a) + k /\ i > 1
      <4>1. i = Len(a) + j /\ k = j - 1 /\ Len(a) \in Nat /\ j > 1
        BY <3>3, <3>5, <3>6
      <4> QED
        BY <4>1
    <3> QED
      BY <3>5, <3>6, <3>7, <3>8
  <2> QED
    BY <2>1, <2>2
<1>3. DOMAIN (a \o b) = 1 .. Len(a) + Len(b)
  BY <1>1
<1> QED
  BY <1>2, <1>3 DEF Unsplit

\* What is written behind the last newline
LEMMA BehindIs ==
  ASSUME NEW p \in Seq(Tok), Unsplit(p), Newlines(p) # {},
         NEW lines \in Seq(Own), lines # <<>>
  PROVE  /\ Behind(p, lines) \in Seq(Tok) /\ Behind(p, lines) # <<>>
         /\ Newlines(Behind(p, lines)) # {}
         /\ Unsplit(Behind(p, lines))
         /\ EndsOf(Behind(p, lines)) = EndsOf(p)
         /\ Len(p) \in Newlines(p) =>
              /\ Behind(p, lines) = p \o lines
              /\ NotOwn(Behind(p, lines)) = NotOwn(p)
              /\ Len(Behind(p, lines)) \in Newlines(Behind(p, lines))
<1> DEFINE m == Max(Newlines(p))
<1> DEFINE n == Len(p)
<1> DEFINE a == SubSeq(p, 1, m)
<1> DEFINE c == SubSeq(p, m + 1, n)
<1> DEFINE q == a \o lines
<1>1. Newlines(p) \subseteq 1 .. n /\ n \in Nat /\ Newlines(p) \subseteq 0 .. n
  BY Newline
<1>2. m \in Newlines(p) /\ m \in 1 .. n /\ \A y \in Newlines(p) : y <= m
  BY <1>1, MaxIs
<1>3. p[m].part # "head" /\ \A i \in 1 .. n : i > m => p[i].part = "head"
  BY <1>1, <1>2, Newline
<1>4. Behind(p, lines) = q
  BY DEF Behind
<1> HIDE DEF m
<1>5. /\ lines \in Seq(Tok) /\ EndsOf(lines) = <<>> /\ NotOwn(lines) = <<>>
      /\ \A i \in 1 .. Len(lines) : lines[i].part # "head"
  BY OwnLines
<1>6. a \in Seq(Tok) /\ c \in Seq(Tok) /\ SubSeq(p, 1, n) = a \o c
  BY <1>1, <1>2, JoinSubSeq
<1>7. Len(a) = m /\ \A i \in 1 .. m : a[i] = p[i]
  BY <1>1, <1>2
<1>8. Len(c) = n - m /\ \A i \in 1 .. n - m : c[i] = p[m + i]
  BY <1>1, <1>2
<1>9. SubSeq(p, 1, n) = p
  OBVIOUS
<1> HIDE DEF n, a, c
<1>10. q \in Seq(Tok) /\ Len(q) = m + Len(lines) /\ Len(lines) \in Nat /\ Len(lines) > 0
  <2>0. a \in Seq(Tok) /\ lines \in Seq(Tok)
    BY <1>5, <1>6
  <2>1. q \in Seq(Tok) /\ Len(q) = m + Len(lines)
    <3>1. Len(a) = m
      BY <1>7, Zenon
    <3>2. q \in Seq(Tok) /\ Len(q) = Len(a) + Len(lines)
      BY <2>0
    <3> QED BY <3>1, <3>2, Zenon
  <2>2. Len(lines) \in Nat /\ Len(lines) # 0
    OBVIOUS
  <2> QED
    BY <2>1, <2>2
<1>11. /\ \A i \in 1 .. m : q[i] = a[i]
       /\ \A i \in 1 .. Len(lines) : q[m + i] = lines[i]
  BY <1>2, <1>5, <1>6, <1>7
<1>12. q[m + Len(lines)].part # "head"
  BY <1>5, <1>10, <1>11
<1>13. q # <<>>
  BY <1>2, <1>10
<1> HIDE DEF q
<1>14. Len(q) \in Newlines(q)
  <2>1. Len(q) \in 1 .. Len(q)
    BY <1>2, <1>10
  <2> QED
    BY <1>10, <1>12, <2>1, Newline
<1>15. Unsplit(q)
  <2>1. ASSUME NEW i \in 1 .. Len(q), q[i].kind = "own"
        PROVE  i > 1 /\ q[i - 1].part # "head"
    <3>1. CASE i <= m
      <4>1. i \in 1 .. m /\ i \in 1 .. n
        BY <3>1, <1>1, <1>2, <1>10
      <4>2. q[i] = p[i] /\ i \in DOMAIN p
        BY <4>1, <1>7, <1>11, <1>9 DEF n
      <4>3. i > 1 /\ p[i - 1].part # "head"
        BY <2>1, <4>2 DEF Unsplit
      <4>4. i - 1 \in 1 .. m
        BY <4>1, <4>3, <1>2
      <4> QED
        BY <4>3, <4>4, <1>7, <1>11
    <3>2. CASE i = m + 1
      <4>1. m \in 1 .. m /\ i > 1 /\ i - 1 = m
        BY <3>2, <1>2
      <4> QED
        BY <4>1, <1>3, <1>7, <1>11
    <3>3. CASE i > m + 1
      <4>1. i - 1 - m \in 1 .. Len(lines)
        BY <3>3, <1>2, <1>10
      <4>2. PICK k \in 1 .. Len(lines) : k = i - 1 - m
        BY <4>1
      <4>3. i - 1 = m + k /\ i > 1
        BY <4>2, <3>3, <1>2
      <4> QED
        BY <4>3, <1>5, <1>11
    <3>4. i <= m \/ i = m + 1 \/ i > m + 1
      BY <1>2
    <3> QED
      BY <3>1, <3>2, <3>3, <3>4
  <2>2. DOMAIN q = 1 .. Len(q)
    BY <1>10
  <2> QED
    BY <2>1, <2>2 DEF Unsplit
<1>16. EndsOf(q) = EndsOf(p)
  <2>1. ASSUME NEW i \in 1 .. Len(c)
        PROVE  c[i].part # "end"
    <3>1. i \in 1 .. n - m /\ m + i \in 1 .. n /\ m + i > m
      BY <1>1, <1>2, <1>8
    <3>2. p[m + i].part = "head" /\ c[i] = p[m + i]
      BY <1>3, <1>8, <3>1
    <3> QED
      BY <3>2
  <2>2. EndsOf(c) = <<>>
    BY <1>6, <2>1, NoEnds
  <2>3. EndsOf(a) \in Seq(Tok)
    BY <1>6, EndsOfConcat
  <2>4. EndsOf(p) = EndsOf(a) \o EndsOf(c)
    <3>1. p = a \o c
      BY <1>6, <1>9
    <3>2. EndsOf(a \o c) = EndsOf(a) \o EndsOf(c)
      BY <1>6, EndsOfConcat
    <3> QED
      BY <3>1, <3>2
  <2>5. EndsOf(q) = EndsOf(a) \o EndsOf(lines)
    BY <1>5, <1>6, EndsOfConcat DEF q
  <2> QED
    BY <1>5, <2>2, <2>3, <2>4, <2>5
<1>17. ASSUME n \in Newlines(p)
       PROVE  q = p \o lines /\ NotOwn(q) = NotOwn(p)
  <2>1. m = n
    BY <1>1, <1>2, <1>17
  <2>2. q = p \o lines
    BY <2>1, <1>9 DEF a, q
  <2>3. NotOwn(p \o lines) = NotOwn(p) \o NotOwn(lines) /\ NotOwn(p) \in Seq(Tok)
    BY <1>5, NotOwnConcat
  <2> QED
    BY <1>5, <2>2, <2>3
<1> QED
  BY <1>4, <1>10, <1>13, <1>14, <1>15, <1>16, <1>17 DEF n
-----------------------------------------------------------------------------
\* What is made of a piece of the client

LEMMA OwnTexts ==
  /\ \A n \in Nat : <<Who(n)>> \in Seq(Own) /\ <<Who(n)>> # <<>>
  /\ ListAndUsers \in Seq(Own) /\ ListAndUsers # <<>>
  /\ LocalEmailAddress \in Own
  BY DEF Who, ListAndUsers, LocalEmailAddress, Own

LEMMA JoinLine ==
  ASSUME NEW p \in Seq(Token), Heads(p, "join") # {}
  PROVE  /\ Min(Heads(p, "join")) \in Heads(p, "join")
         /\ p[Min(Heads(p, "join"))].line \in Nat
<1>1. p \in Seq(Tok) /\ Len(p) \in Nat
  BY TokenLines
<1>2. Heads(p, "join") \subseteq 1 .. Len(p)
  BY <1>1, Head1
<1>3. Min(Heads(p, "join")) \in Heads(p, "join")
  BY <1>1, <1>2, MinIs
<1>4. \A i \in 1 .. Len(p) : p[i] \in Token
  OBVIOUS
<1> QED
  BY <1>2, <1>3, <1>4 DEF Token

\* Written behind a newline or not at all
Adds(p, q) ==
    /\ q \in Seq(Tok) /\ q # <<>> /\ Unsplit(q)
    /\ EndsOf(q) = EndsOf(p)
    /\ Newlines(p) # {} => Newlines(q) # {}
    /\ Len(p) \in Newlines(p) => NotOwn(q) = NotOwn(p) /\ Len(q) \in Newlines(q)

LEMMA WithWhoAdds ==
  ASSUME NEW p \in Seq(Token), p # <<>>, ~NoPlaceBehind(p)
  PROVE  /\ Adds(p, WithWho(p))
         /\ Heads(p, "join") # {} => Newlines(WithWho(p)) # {}
<1>1. p \in Seq(Tok) /\ NotOwn(p) = p /\ \A i \in 1 .. Len(p) : p[i].kind # "own"
  BY TokenLines
<1>2. Unsplit(p)
  BY <1>1 DEF Unsplit
<1>3. CASE Heads(p, "join") = {}
  BY <1>1, <1>2, <1>3 DEF WithWho, Adds
<1>4. CASE Heads(p, "join") # {}
  <2> DEFINE n == p[Min(Heads(p, "join"))].line
  <2>1. Newlines(p) # {}
    BY <1>4 DEF NoPlaceBehind
  <2>2. n \in Nat
    BY <1>4, JoinLine
  <2> DEFINE lines == <<Who(n)>>
  <2>3. lines \in Seq(Own) /\ lines # <<>>
    BY <2>2, OwnTexts
  <2>4. WithWho(p) = Behind(p, lines)
    BY <1>4 DEF WithWho
  <2> HIDE DEF lines
  <2> DEFINE q == Behind(p, lines)
  <2>5. /\ q \in Seq(Tok) /\ q # <<>>
        /\ Newlines(q) # {}
        /\ Unsplit(q)
        /\ EndsOf(q) = EndsOf(p)
        /\ Len(p) \in Newlines(p) =>
             /\ q = p \o lines
             /\ NotOwn(q) = NotOwn(p)
             /\ Len(q) \in Newlines(q)
    BY <1>1, <1>2, <2>1, <2>3, BehindIs
  <2> HIDE DEF q
  <2> QED
    BY <2>4, <2>5 DEF Adds, q
<1> QED
  BY <1>3, <1>4

LEMMA InjectAdds ==
  ASSUME NEW p \in Seq(Token), p # <<>>, ~NoPlaceBehind(p)
  PROVE  Adds(p, InjectCommands(p))
<1> DEFINE w == WithWho(p)
<1> DEFINE q == Behind(w, ListAndUsers)
<1>1. Adds(p, w) /\ (Heads(p, "join") # {} => Newlines(w) # {})
  BY WithWhoAdds
<1>2. CASE Heads(w, "nick") = {}
  BY <1>1, <1>2 DEF InjectCommands
<1>3. CASE Heads(w, "nick") # {}
  <2>1. Newlines(w) # {}
    <3>1. CASE Heads(p, "join") # {}
      BY <1>1, <3>1
    <3>2. CASE Heads(p, "join") = {}
      <4>1. w = p
        BY <3>2 DEF WithWho
      <4> QED
        BY <1>3, <4>1 DEF NoPlaceBehind
    <3> QED
      BY <3>1, <3>2
  <2>2. InjectCommands(p) = q
    BY <1>3 DEF InjectCommands
  <2> HIDE DEF w
  <2>3. w \in Seq(Tok) /\ Unsplit(w)
    BY <1>1 DEF Adds
  <2>4. ListAndUsers \in Seq(Own) /\ ListAndUsers # <<>>
    BY OwnTexts
  <2>5. /\ q \in Seq(Tok) /\ q # <<>>
        /\ Newlines(q) # {}
        /\ Unsplit(q)
        /\ EndsOf(q) = EndsOf(w)
        /\ Len(w) \in Newlines(w) =>
             /\ q = w \o ListAndUsers
             /\ NotOwn(q) = NotOwn(w)
             /\ Len(q) \in Newlines(q)
    BY <2>1, <2>3, <2>4, BehindIs
  <2> HIDE DEF q
  <2> QED
    BY <1>1, <2>2, <2>5 DEF Adds
<1> QED
  BY <1>2, <1>3

LEMMA RewriteType ==
  ASSUME NEW p \in Seq(Token), p # <<>>, session.protocol \in Protocols,
         session.protocol = "irc" => ~NoPlaceBehind(p)
  PROVE  Rewrite(p) \in Seq(Tok) /\ Rewrite(p) # <<>>
<1>1. p \in Seq(Tok)
  BY TokenLines
<1>2. CASE session.protocol = "irc"
  <2>1. Rewrite(p) = InjectCommands(p)
    BY <1>2 DEF Rewrite
  <2> QED
    BY <1>2, <2>1, InjectAdds DEF Adds
<1>3. CASE session.protocol = "smtp"
  <2>1. Rewrite(p) = ReplaceRecipient(p)
    BY <1>3 DEF Rewrite
  <2>2. p[1] \in Tok /\ LocalEmailAddress \in Tok
    BY <1>1, OwnTexts DEF Tok
  <2> QED
    BY <1>1, <2>1, <2>2 DEF ReplaceRecipient
<1>4. CASE session.protocol \notin {"irc", "smtp"}
  BY <1>1, <1>4 DEF Rewrite, Protocols
<1> QED
  BY <1>2, <1>3, <1>4

LEMMA OneMore ==
  ASSUME NEW p \in Seq(Tok), NEW t \in Tok
  PROVE  /\ Len(p \o <<t>>) = Len(p) + 1 /\ (p \o <<t>>)[Len(p) + 1] = t
         /\ \A i \in 1 .. Len(p) : (p \o <<t>>)[i] = p[i]
  OBVIOUS

\* A piece that is a line becomes what the line is meant to.
LEMMA LineAsMeant ==
  ASSUME NEW p \in Seq(Token), Len(p) = 2, WholeLines(p), session.protocol \in Protocols
  PROVE  ~NoPlaceBehind(p) /\ Rewrite(p) = Meant(session.protocol, p)
<1>1. p \in Seq(Tok) /\ \A i \in 1 .. Len(p) : p[i].kind # "own"
  BY TokenLines
<1>2. p[1].part = "head" /\ p[2].part # "head"
  BY <1>1 DEF WholeLines, Last
<1>3. \A i \in 1 .. Len(p) : i \in {1, 2}
  OBVIOUS
<1>4. Newlines(p) = {2}
  BY <1>1, <1>2, <1>3, Newline
<1>5. \A kind : Heads(p, kind) = IF p[1].kind = kind THEN {1} ELSE {}
  BY <1>1, <1>2, <1>3, Head1
<1>6. ~NoPlaceBehind(p)
  BY <1>4 DEF NoPlaceBehind
<1>7. Unsplit(p)
  BY <1>1 DEF Unsplit
<1>8. ASSUME NEW lines \in Seq(Own), lines # <<>>
      PROVE  Behind(p, lines) = p \o lines
  BY <1>1, <1>4, <1>7, <1>8, BehindIs
<1>9. CASE session.protocol = "irc"
  <2>1. Rewrite(p) = InjectCommands(p)
    BY <1>9 DEF Rewrite
  <2>2. CASE p[1].kind = "join"
    <3>1. Heads(p, "join") = {1}
      BY <1>5, <2>2
    <3>2. Min(Heads(p, "join")) = 1 /\ p[1].line \in Nat
      BY <3>1, JoinLine
    <3> DEFINE w == p \o <<Who(p[1].line)>>
    <3>3. WithWho(p) = w
      BY <1>8, <3>1, <3>2, OwnTexts DEF WithWho
    <3>4. Heads(w, "nick") = {}
      <4>1. DOMAIN w = 1 .. 3 /\ w[1] = p[1] /\ w[2] = p[2] /\ w[3] = Who(p[1].line)
        <5>1. PICK t \in Tok : t = Who(p[1].line)
          BY <3>2, OwnTexts DEF Tok, Who, Own
        <5>2. /\ Len(p \o <<t>>) = 3
              /\ (p \o <<t>>)[1] = p[1] /\ (p \o <<t>>)[2] = p[2] /\ (p \o <<t>>)[3] = t
          <6>1. /\ Len(p \o <<t>>) = Len(p) + 1 /\ (p \o <<t>>)[Len(p) + 1] = t
                /\ \A i \in 1 .. Len(p) : (p \o <<t>>)[i] = p[i]
            BY <1>1, OneMore
          <6>2. 1 \in 1 .. Len(p) /\ 2 \in 1 .. Len(p) /\ Len(p) + 1 = 3
            OBVIOUS
          <6> QED
            BY <6>1, <6>2
        <5>3. DOMAIN (p \o <<t>>) = 1 .. 3
          BY <1>1, <5>2
        <5> QED
          BY <5>1, <5>2, <5>3
      <4>2. w[3].part = "who" /\ w[1].kind = "join" /\ w[2].part # "head"
        BY <1>2, <2>2, <4>1 DEF Who
      <4> HIDE DEF w
      <4>3. ASSUME NEW i \in 1 .. 3
            PROVE  ~(w[i].part = "head" /\ w[i].kind = "nick")
        <5>1. i = 1 \/ i = 2 \/ i = 3
          OBVIOUS
        <5> QED
          BY <4>2, <5>1
      <4> QED
        BY <4>1, <4>3 DEF Heads
    <3>5. InjectCommands(p) = w
      BY <3>3, <3>4 DEF InjectCommands
    <3>6. Meant(session.protocol, p) = w
      BY <1>9, <2>2 DEF Meant
    <3> QED
      BY <1>6, <2>1, <3>5, <3>6
  <2>3. CASE p[1].kind = "nick"
    <3>1. Heads(p, "join") = {} /\ Heads(p, "nick") # {}
      BY <1>5, <2>3
    <3>2. InjectCommands(p) = Behind(p, ListAndUsers)
      BY <3>1 DEF InjectCommands, WithWho
    <3>3. Behind(p, ListAndUsers) = p \o ListAndUsers
      BY <1>8, OwnTexts
    <3>4. Meant(session.protocol, p) = p \o ListAndUsers
      BY <1>9, <2>3 DEF Meant
    <3> QED
      BY <1>6, <2>1, <3>2, <3>3, <3>4
  <2>4. CASE p[1].kind \notin {"join", "nick"}
    <3>1. Heads(p, "join") = {} /\ Heads(p, "nick") = {}
      BY <1>5, <2>4
    <3>2. InjectCommands(p) = p
      BY <3>1 DEF InjectCommands, WithWho
    <3>3. Meant(session.protocol, p) = p
      BY <1>9, <2>4 DEF Meant
    <3> QED
      BY <1>6, <2>1, <3>2, <3>3
  <2> QED
    BY <2>2, <2>3, <2>4
<1>10. CASE session.protocol = "smtp"
  <2>1. Rewrite(p) = ReplaceRecipient(p)
    BY <1>10 DEF Rewrite
  <2>2. Heads(p, "rcpt") = IF p[1].kind = "rcpt" THEN {1} ELSE {}
    BY <1>5
  <2>3. ReplaceRecipient(p) = IF p[1].kind = "rcpt" THEN <<p[1], LocalEmailAddress>> ELSE p
    BY <2>2 DEF ReplaceRecipient
  <2>4. Meant(session.protocol, p) = IF p[1].kind = "rcpt" THEN <<p[1], LocalEmailAddress>> ELSE p
    BY <1>10 DEF Meant
  <2> QED
    BY <1>6, <2>1, <2>3, <2>4
<1>11. CASE session.protocol \notin {"irc", "smtp"}
  <2>1. Rewrite(p) = p
    BY <1>11 DEF Rewrite
  <2>2. Meant(session.protocol, p) = p
    BY <1>11 DEF Meant
  <2> QED
    BY <1>6, <2>1, <2>2
<1> QED
  BY <1>9, <1>10, <1>11
-----------------------------------------------------------------------------
\* A step

LEMMA SessionIs ==
  ASSUME LineTypeOK
  PROVE  /\ session.protocol \in Protocols
         /\ session.client \in Seq(Token) /\ session.server \in Seq(Token)
         /\ session["client"] = session.client /\ session["server"] = session.server
  BY SessionsAssumption DEF LineTypeOK

LEMMA PieceIs ==
  ASSUME LineTypeOK, NEW s \in Sides, NEW k \in Nat, k >= 1, Take(s, k),
         NEW p, p = SubSeq(session[s], pos[s] + 1, pos[s] + k)
  PROVE  /\ p \in Seq(Token) /\ Len(p) = k /\ p # <<>>
         /\ session' = session /\ pos' \in [Sides -> Nat]
         /\ \A t \in Sides : pos'[t] = (IF t = s THEN pos[s] + k ELSE pos[t])
         /\ \A t \in Sides : pos'[t] <= Len(session[t])
         /\ Sent(s) \in Seq(Token) /\ Sent(s)' = Sent(s) \o p
         /\ \A t \in Sides : t # s => Sent(t)' = Sent(t)
<1>1. session[s] \in Seq(Token) /\ pos[s] \in Nat /\ pos[s] <= Len(session[s])
  BY SessionIs DEF Sides, LineTypeOK
<1>2. PICK b \in Nat : b = pos[s]
  BY <1>1
<1>3. PICK c \in Seq(Token) : c = session[s]
  BY <1>1
<1>4. b + k <= Len(c)
  <2>1. pos[s] + k <= Len(session[s])
    BY DEF Take
  <2> QED
    BY <1>2, <1>3, <2>1
<1>5. PICK e \in Nat : e = b + k
  OBVIOUS
<1>6. /\ SubSeq(c, 1, b) \in Seq(Token) /\ p \in Seq(Token)
      /\ SubSeq(c, 1, b + k) = SubSeq(c, 1, b) \o p
  <2>1. b <= e /\ e <= Len(c)
    BY <1>4, <1>5
  <2>2. /\ SubSeq(c, 1, b) \in Seq(Token) /\ SubSeq(c, b + 1, e) \in Seq(Token)
        /\ SubSeq(c, 1, e) = SubSeq(c, 1, b) \o SubSeq(c, b + 1, e)
    BY <2>1, JoinSubSeq
  <2>3. p = SubSeq(c, b + 1, e)
    BY <1>2, <1>3, <1>5
  <2> QED
    BY <1>5, <2>2, <2>3
<1>7. Len(p) = k /\ p # <<>>
  <2>1. Len(SubSeq(c, b + 1, e)) = k
    <3>1. b + 1 \in 1 .. Len(c) + 1 /\ b + 1 <= e /\ e <= Len(c) /\ e - (b + 1) + 1 = k
      BY <1>4, <1>5
    <3> QED
      BY <3>1
  <2>2. p = SubSeq(c, b + 1, e)
    BY <1>2, <1>3, <1>5
  <2>3. Len(p) = k
    BY <2>1, <2>2, Zenon
  <2>4. ASSUME p = <<>> PROVE FALSE
    <3>1. Len(<<>>) = k
      BY <2>3, <2>4, Zenon
    <3> QED
      BY <3>1
  <2> QED
    BY <2>3, <2>4
<1>8. session' = session /\ pos' = [pos EXCEPT ![s] = b + k]
  BY <1>2 DEF Take
<1>9. pos \in [Sides -> Nat] /\ \A t \in Sides : pos[t] <= Len(session[t])
  BY DEF LineTypeOK
<1>10. /\ pos' \in [Sides -> Nat]
       /\ \A t \in Sides : pos'[t] = IF t = s THEN b + k ELSE pos[t]
  BY <1>4, <1>8, <1>9
<1>11. \A t \in Sides : pos'[t] <= Len(session[t])
  BY <1>3, <1>4, <1>9, <1>10
<1>12. Sent(s) = SubSeq(c, 1, b)
  BY <1>2, <1>3 DEF Sent
<1>13. Sent(s)' = SubSeq(c, 1, b + k)
  BY <1>3, <1>8, <1>10 DEF Sent
<1>14. \A t \in Sides : t # s => Sent(t)' = Sent(t)
  BY <1>8, <1>10 DEF Sent
<1> QED
  BY <1>2, <1>6, <1>7, <1>8, <1>10, <1>11, <1>12, <1>13, <1>14

\* What SMTP cuts off is no end of a line, and nothing of whole lines.
LEMMA CutIs ==
  ASSUME NEW p \in Seq(Token), p # <<>>, NEW q \in Cut(p)
  PROVE  /\ q \in Seq(Tok) /\ EndsOf(q) = EndsOf(p)
         /\ WholeLines(p) => q = p
<1>1. p \in Seq(Tok)
  BY TokenLines
<1>2. CASE q = p
  BY <1>1, <1>2
<1>3. CASE q # p
  <2>1. Last(p).part = "head" /\ q = Front(p)
    BY <1>3 DEF Cut
  <2>2. ~WholeLines(p)
    BY <2>1 DEF WholeLines
  <2>3. PICK n \in Nat : n + 1 = Len(p)
    BY <1>1
  <2>4. q = SubSeq(p, 1, n)
    BY <2>1, <2>3 DEF Front
  <2>5. PICK l \in Tok : l = p[n + 1]
    <3>1. n + 1 \in 1 .. Len(p)
      BY <2>3
    <3> QED
      BY <1>1, <3>1
  <2>6. q \in Seq(Tok) /\ SubSeq(p, n + 1, n + 1) \in Seq(Tok)
        /\ SubSeq(p, 1, n + 1) = q \o SubSeq(p, n + 1, n + 1)
    BY <1>1, <2>3, <2>4, JoinSubSeq
  <2>7. SubSeq(p, 1, n + 1) = p
    BY <1>1, <2>3
  <2>8. SubSeq(p, n + 1, n + 1) = <<l>>
    <3> DEFINE s == SubSeq(p, n + 1, n + 1)
    <3>1. s \in Seq(Tok)
      BY <2>6
    <3>2. Len(s) = 1 /\ s[1] = p[n + 1]
      BY <1>1, <2>3
    <3> HIDE DEF s
    <3>3. s = <<s[1]>>
      BY <3>1, <3>2
    <3> QED
      BY <2>5, <3>2, <3>3 DEF s
  <2>9. p = q \o <<l>> /\ <<l>> \in Seq(Tok)
    BY <2>6, <2>7, <2>8
  <2>10. l.part = "head"
    BY <2>1, <2>3, <2>5 DEF Last
  <2>11. EndsOf(<<l>>) = <<>>
    <3>1. \A i \in 1 .. Len(<<l>>) : <<l>>[i].part # "end"
      BY <2>10
    <3> QED
      BY <2>9, <3>1, NoEnds
  <2>12. EndsOf(q \o <<l>>) = EndsOf(q) \o EndsOf(<<l>>) /\ EndsOf(q) \in Seq(Tok)
    BY <2>6, <2>9, EndsOfConcat
  <2>13. EndsOf(q) \o <<>> = EndsOf(q)
    BY <2>12
  <2> QED
    BY <2>2, <2>6, <2>9, <2>11, <2>12, <2>13
<1> QED
  BY <1>2, <1>3

\* What the rows of a piece say of it
TellPiece(p, q, texts) ==
    CASE session.protocol = "irc" -> FlattenSeq(texts) = q
      [] session.protocol = "smtp" ->
           /\ EndsOf(FlattenSeq(texts)) = EndsOf(p)
           /\ WholeLines(p) => FlattenSeq(texts) = p
      [] OTHER -> FlattenSeq(texts) = p

LEMMA ClientTextsType ==
  ASSUME NEW p \in Seq(Token), p # <<>>, session.protocol \in Protocols,
         session.protocol = "irc" => ~NoPlaceBehind(p), NEW texts \in ClientTexts(p)
  PROVE  texts \in Seq(Text) /\ FlattenSeq(texts) \in Seq(Tok) /\ TellPiece(p, Rewrite(p), texts)
<1>1. p \in Seq(Tok) /\ Text = Seq(Tok)
  BY TokenLines DEF Text, Tok
<1>2. CASE session.protocol = "irc"
  <2>1. Rewrite(p) = InjectCommands(p) /\ texts = Lines(InjectCommands(p))
    BY <1>2 DEF Rewrite, ClientTexts
  <2>2. Rewrite(p) \in Seq(Tok)
    BY RewriteType
  <2>3. PICK q \in Seq(Tok) : q = Rewrite(p)
    BY <2>2
  <2>4. Lines(q) \in Seq(Seq(Tok)) /\ FlattenSeq(Lines(q)) = q
    BY LinesType, LinesTell
  <2> QED
    BY <1>1, <1>2, <2>1, <2>3, <2>4 DEF TellPiece
<1>3. CASE session.protocol = "ftp"
  <2>1. texts = Lines(p)
    BY <1>3 DEF ClientTexts
  <2>2. Lines(p) \in Seq(Seq(Tok)) /\ FlattenSeq(Lines(p)) = p
    BY <1>1, LinesType, LinesTell
  <2> QED
    BY <1>1, <1>3, <2>1, <2>2 DEF TellPiece
<1>4. CASE session.protocol = "smtp"
  <2>1. PICK q \in Cut(p) : texts = <<q>>
    BY <1>4 DEF ClientTexts
  <2>2. q \in Seq(Tok) /\ EndsOf(q) = EndsOf(p) /\ (WholeLines(p) => q = p)
    BY CutIs
  <2>3. <<q>> \in Seq(Seq(Tok)) /\ FlattenSeq(<<q>>) = q
    BY <2>2, FlattenSingle
  <2> QED
    BY <1>1, <1>4, <2>1, <2>2, <2>3 DEF TellPiece
<1>5. CASE session.protocol = "unknown"
  <2>1. texts = <<p>>
    BY <1>5 DEF ClientTexts
  <2>2. <<p>> \in Seq(Seq(Tok)) /\ FlattenSeq(<<p>>) = p
    BY <1>1, FlattenSingle
  <2> QED
    BY <1>1, <1>5, <2>1, <2>2 DEF TellPiece
<1> QED
  BY <1>2, <1>3, <1>4, <1>5 DEF Protocols

LEMMA RepliesType ==
  ASSUME NEW p \in Seq(Tok)
  PROVE  Replies(p) \in Seq(Seq(Tok))
<1>1. PICK ll \in Seq(Seq(Tok)) : ll = Lines(p)
  BY LinesType
<1>2. DOMAIN ll = 1 .. Len(ll) /\ Len(ll) \in Nat
  OBVIOUS
<1>3. \A i \in 1 .. Len(ll) : ReplyTexts(ll[i]) \in Seq(Seq(Tok))
  <2> TAKE i \in 1 .. Len(ll)
  <2>1. PICK l \in Seq(Tok) : l = ll[i]
    OBVIOUS
  <2>2. <<>> \in Seq(Seq(Tok)) /\ <<l>> \in Seq(Seq(Tok)) /\ <<<<>>>> \in Seq(Seq(Tok))
    OBVIOUS
  <2>3. ReplyTexts(l) \in {<<>>, <<l>>, <<<<>>>>}
    BY DEF ReplyTexts
  <2> QED
    BY <2>1, <2>2, <2>3
<1>4. [i \in DOMAIN ll |-> ReplyTexts(ll[i])] \in Seq(Seq(Seq(Tok)))
  BY <1>2, <1>3
<1>5. FlattenSeq([i \in DOMAIN ll |-> ReplyTexts(ll[i])]) \in Seq(Seq(Tok))
  BY <1>4, FlattenType
<1> QED
  BY <1>1, <1>5 DEF Replies

LEMMA ServerTextsType ==
  ASSUME NEW p \in Seq(Token)
  PROVE  /\ ServerTexts(p) \in Seq(Text)
         /\ session.protocol # "irc" => FlattenSeq(ServerTexts(p)) = p
<1>1. p \in Seq(Tok) /\ Text = Seq(Tok)
  BY TokenLines DEF Text, Tok
<1>2. CASE session.protocol = "irc"
  <2>1. ServerTexts(p) = Replies(p)
    BY <1>2 DEF ServerTexts
  <2> QED
    BY <1>1, <1>2, <2>1, RepliesType
<1>3. CASE session.protocol = "unknown"
  <2>1. ServerTexts(p) = <<p>>
    BY <1>3 DEF ServerTexts
  <2>2. <<p>> \in Seq(Seq(Tok)) /\ FlattenSeq(<<p>>) = p
    BY <1>1, FlattenSingle
  <2> QED
    BY <1>1, <2>1, <2>2
<1>4. CASE session.protocol \notin {"irc", "unknown"}
  <2>1. ServerTexts(p) = Lines(p)
    BY <1>4 DEF ServerTexts
  <2>2. Lines(p) \in Seq(Seq(Tok)) /\ FlattenSeq(Lines(p)) = p
    BY <1>1, LinesType, LinesTell
  <2> QED
    BY <1>1, <2>1, <2>2
<1> QED
  BY <1>2, <1>3, <1>4
-----------------------------------------------------------------------------
\* The rows

TextOf(tag) == [r \in LineRow |-> IF r.tag = tag THEN r.text ELSE <<>>]

LEMMA TextOfInto ==
  ASSUME NEW tag
  PROVE  Into(TextOf(tag), LineRow, Tok)
<1>1. \A r \in LineRow : r.text \in Seq(Tok)
  BY DEF LineRow, Text, Tok
<1> QED
  BY <1>1 DEF Into, TextOf

\* What the rows of a side say, whether they were stored or not
Said(tag) == FlattenSeq([i \in DOMAIN rows |->
    IF rows[i].tag = tag THEN rows[i].text ELSE <<>>])

LEMMA SaidCollects ==
  ASSUME NEW t \in Seq(LineRow), NEW tag
  PROVE  FlattenSeq([i \in DOMAIN t |-> IF t[i].tag = tag THEN t[i].text ELSE <<>>])
           = Collect(t, TextOf(tag))
<1>1. DOMAIN t = 1 .. Len(t) /\ \A i \in 1 .. Len(t) : t[i] \in LineRow
  OBVIOUS
<1>2. \A i \in DOMAIN t :
        TextOf(tag)[t[i]] = IF t[i].tag = tag THEN t[i].text ELSE <<>>
  BY <1>1 DEF TextOf
<1> QED
  BY <1>2 DEF Collect, Parts

LEMMA RowsOfAre ==
  ASSUME NEW tag \in Sides \cup {"logfile"}, NEW texts \in Seq(Text), NEW t \in RowsOf(tag, texts)
  PROVE  /\ t \in Seq(LineRow) /\ Len(t) = Len(texts)
         /\ \A i \in 1 .. Len(texts) : t[i].tag = tag /\ t[i].text = texts[i]
         /\ Collect(t, TextOf(tag)) = FlattenSeq(texts)
         /\ \A other \in Sides : other # tag => Collect(t, TextOf(other)) = <<>>
<1>1. DOMAIN texts = 1 .. Len(texts) /\ Len(texts) \in Nat
      /\ \A i \in 1 .. Len(texts) : texts[i] \in Text
  OBVIOUS
<1>2. PICK done \in [1 .. Len(texts) -> BOOLEAN] :
        t = [i \in 1 .. Len(texts) |-> [tag |-> tag, text |-> texts[i], stored |-> done[i]]]
  <2>1. PICK done \in [DOMAIN texts -> IF session.protocol = "unknown" THEN {FALSE} ELSE BOOLEAN] :
          t = [i \in DOMAIN texts |-> [tag |-> tag, text |-> texts[i], stored |-> done[i]]]
    BY DEF RowsOf
  <2>2. done \in [1 .. Len(texts) -> BOOLEAN]
    BY <1>1
  <2> QED
    BY <1>1, <2>1, <2>2
<1>3. \A i \in 1 .. Len(texts) :
        [tag |-> tag, text |-> texts[i], stored |-> done[i]] \in LineRow
  BY <1>1 DEF LineRow, Sides
<1>4. t \in Seq(LineRow) /\ Len(t) = Len(texts) /\ DOMAIN t = 1 .. Len(texts)
  BY <1>1, <1>2, <1>3
<1>5. \A i \in 1 .. Len(texts) : t[i] \in LineRow /\ t[i].tag = tag /\ t[i].text = texts[i]
  BY <1>2, <1>3
<1>6. \A i \in 1 .. Len(texts) : TextOf(tag)[t[i]] = texts[i]
  BY <1>5 DEF TextOf
<1>7. Collect(t, TextOf(tag)) = FlattenSeq(texts)
  <2>1. Parts(t, TextOf(tag)) = [i \in 1 .. Len(texts) |-> texts[i]]
    BY <1>4, <1>6 DEF Parts
  <2>2. [i \in 1 .. Len(texts) |-> texts[i]] = texts
    BY <1>1
  <2> QED
    BY <2>1, <2>2 DEF Collect
<1>8. ASSUME NEW other \in Sides, other # tag
      PROVE  Collect(t, TextOf(other)) = <<>>
  <2>1. \A i \in 1 .. Len(t) : TextOf(other)[t[i]] = <<>>
    BY <1>4, <1>5, <1>8 DEF TextOf
  <2> QED
    BY <1>4, <2>1, TextOfInto, CollectNone
<1> QED
  BY <1>4, <1>5, <1>7, <1>8

\* The row of a file tells nothing, and there is one or none.
LEMMA FileRowIs ==
  ASSUME NEW last \in FileRow
  PROVE  /\ last \in Seq(LineRow)
         /\ \A other \in Sides : Collect(last, TextOf(other)) = <<>>
         /\ session.protocol = "irc" /\ ~logged =>
              \E r \in LineRow : r.tag = "logfile" /\ last = <<r>>
         /\ ~(session.protocol = "irc" /\ ~logged) => last = <<>>
<1> DEFINE texts == IF session.protocol = "irc" /\ ~logged THEN <<<<>>>> ELSE <<>>
<1>1. last \in RowsOf("logfile", texts)
  BY DEF FileRow
<1>2. texts \in Seq(Text)
  <2>1. <<>> \in Text
    BY DEF Text
  <2>2. <<<<>>>> \in Seq(Text) /\ <<>> \in Seq(Text)
    BY <2>1
  <2> QED
    BY <2>2
<1> HIDE DEF texts
<1>3. /\ last \in Seq(LineRow) /\ Len(last) = Len(texts)
      /\ \A i \in 1 .. Len(texts) : last[i].tag = "logfile"
      /\ \A other \in Sides : other # "logfile" => Collect(last, TextOf(other)) = <<>>
  <2>1. "logfile" \in Sides \cup {"logfile"}
    OBVIOUS
  <2>2. PICK t \in RowsOf("logfile", texts) : t = last
    BY <1>1
  <2>3. /\ t \in Seq(LineRow) /\ Len(t) = Len(texts)
        /\ \A i \in 1 .. Len(texts) : t[i].tag = "logfile" /\ t[i].text = texts[i]
        /\ \A other \in Sides : other # "logfile" => Collect(t, TextOf(other)) = <<>>
    BY <1>2, <2>1, <2>2, RowsOfAre
  <2> QED
    BY <2>2, <2>3
<1>4. ASSUME session.protocol = "irc" /\ ~logged
      PROVE  \E r \in LineRow : r.tag = "logfile" /\ last = <<r>>
  <2>1. Len(texts) = 1
    BY <1>4 DEF texts
  <2>2. 1 \in 1 .. Len(last)
    BY <1>3, <2>1
  <2>3. last \in Seq(LineRow) /\ Len(last) = 1
    BY <1>3, <2>1
  <2>4. \A s \in Seq(LineRow) : Len(s) = 1 => s[1] \in LineRow /\ s = <<s[1]>>
    OBVIOUS
  <2>5. last[1] \in LineRow /\ last = <<last[1]>>
    BY <2>3, <2>4
  <2>6. last[1].tag = "logfile"
    BY <1>3, <2>1
  <2> QED
    BY <2>5, <2>6
<1>5. ASSUME ~(session.protocol = "irc" /\ ~logged)
      PROVE  last = <<>>
  <2>1. Len(texts) = 0
    BY <1>5 DEF texts
  <2> QED
    BY <1>3, <2>1
<1> QED
  BY <1>3, <1>4, <1>5 DEF Sides

LEMMA RowsGrow ==
  ASSUME LineTypeOK, NEW tag \in Sides, NEW texts \in Seq(Text), Log(tag, texts)
  PROVE  /\ rows' \in Seq(LineRow)
         /\ \A other \in Sides : Said(other) \in Seq(Tok)
         /\ Said(tag)' = Said(tag) \o FlattenSeq(texts)
         /\ \A other \in Sides : other # tag => Said(other)' = Said(other)
<1>0. PICK t \in RowsOf(tag, texts), last \in FileRow : rows' = rows \o t \o last
  BY DEF Log
<1> DEFINE u == rows \o t
<1>1. /\ t \in Seq(LineRow) /\ Collect(t, TextOf(tag)) = FlattenSeq(texts)
      /\ \A other \in Sides : other # tag => Collect(t, TextOf(other)) = <<>>
  BY RowsOfAre
<1>2. last \in Seq(LineRow) /\ \A other \in Sides : Collect(last, TextOf(other)) = <<>>
  BY FileRowIs
<1>3. rows \in Seq(LineRow)
  BY DEF LineTypeOK
<1>4. u \in Seq(LineRow)
  BY <1>1, <1>3
<1>5. rows' = u \o last
  BY <1>0
<1> HIDE DEF u
<1>6. rows' \in Seq(LineRow)
  BY <1>2, <1>4, <1>5
<1>7. ASSUME NEW other \in Sides
      PROVE  /\ Said(other) \in Seq(Tok)
             /\ Said(other)' = Said(other) \o Collect(t, TextOf(other))
  <2> DEFINE F == TextOf(other)
  <2>0. Into(F, LineRow, Tok)
    BY TextOfInto
  <2>1. Said(other) = Collect(rows, F)
    BY <1>3, SaidCollects DEF Said
  <2>2. Said(other)' = Collect(rows', F)
    BY <1>6, SaidCollects DEF Said
  <2>3. Collect(last, F) = <<>>
    BY <1>2
  <2> HIDE DEF F
  <2>4. \A a, b \in Seq(LineRow) : Collect(a \o b, F) = Collect(a, F) \o Collect(b, F)
    BY <2>0, CollectConcat
  <2>5. Collect(u \o last, F) = Collect(u, F) \o Collect(last, F)
    BY <1>2, <1>4, <2>4
  <2>6. Collect(u, F) = Collect(rows, F) \o Collect(t, F)
    BY <1>1, <1>3, <2>4 DEF u
  <2>7. Collect(rows, F) \in Seq(Tok) /\ Collect(u, F) \in Seq(Tok)
    BY <1>3, <1>4, <2>0, CollectType
  <2>8. Collect(u, F) \o <<>> = Collect(u, F)
    BY <2>7
  <2> QED
    BY <1>5, <2>1, <2>2, <2>3, <2>5, <2>6, <2>7, <2>8 DEF F
<1>8. ASSUME NEW other \in Sides, other # tag
      PROVE  Said(other)' = Said(other)
  <2>1. Said(other)' = Said(other) \o <<>> /\ Said(other) \in Seq(Tok)
    BY <1>1, <1>7, <1>8
  <2> QED
    BY <2>1
<1> QED
  BY <1>1, <1>6, <1>7, <1>8
-----------------------------------------------------------------------------
\* The invariant

\* The rows tell the streams, whatever becomes of their statements.
SaidInv ==
    /\ CASE session.protocol = "irc" -> Said("client") = passed["client"]
         [] session.protocol = "smtp" ->
              /\ EndsOf(Said("client")) = EndsOf(Sent("client"))
              /\ whole => Said("client") = Sent("client")
         [] OTHER -> Said("client") = Sent("client")
    /\ session.protocol # "irc" => Said("server") = passed["server"]

FileInv == FileHasRow /\ (logged <=> file # <<>>)
MeantInv == AsMeant /\ (single => pos["client"] % 2 = 0)
LineInv == LineTypeOK /\ FileInv /\ SaidInv /\ LinesKept /\ MeantInv

LEMMA LineInitInv ==
  ASSUME LineInit
  PROVE  LineInv
<1>1. LineTypeOK
  <2>1. \A s \in Sides : session[s] \in Seq(Token)
    BY SessionsAssumption DEF LineInit, Sides
  <2>2. \A s \in Sides : 0 <= Len(session[s])
    BY <2>1
  <2>3. /\ session \in Sessions /\ pos \in [Sides -> Nat]
        /\ \A s \in Sides : pos[s] <= Len(session[s])
    BY <2>2 DEF LineInit
  <2>4. passed \in [Sides -> Text] /\ rows \in Seq(LineRow) /\ file \in Text
    BY DEF LineInit, Text
  <2>5. {logged, crashed, whole, single} \subseteq BOOLEAN
    BY DEF LineInit
  <2> QED
    BY <2>3, <2>4, <2>5 DEF LineTypeOK
<1>2. FileInv
  BY DEF LineInit, FileInv, FileHasRow
<1>3. \A s \in Sides : Sent(s) = <<>>
  <2>1. \A s \in Sides : session[s] \in Seq(Token) /\ pos[s] = 0
    BY SessionsAssumption DEF LineInit, Sides
  <2> QED
    BY <2>1 DEF Sent
<1>4. passed["client"] = <<>> /\ passed["server"] = <<>> /\ pos["client"] = 0
  BY DEF LineInit, Sides
<1>5. FlattenSeq(<<>>) = <<>>
  BY DEF FlattenSeq
<1>6. SaidInv
  <2>1. \A tag : Said(tag) = <<>>
    <3> TAKE tag
    <3>1. [i \in DOMAIN rows |-> IF rows[i].tag = tag THEN rows[i].text ELSE <<>>] = <<>>
      BY DEF LineInit
    <3> QED
      BY <1>5, <3>1 DEF Said
  <2> QED
    BY <1>3, <1>4, <2>1 DEF SaidInv, Sides
<1>7. LinesKept
  <2>1. EndsOf(<<>>) = <<>>
    BY <1>5 DEF EndsOf
  <2>2. NotOwn(<<>>) = <<>>
    BY <1>5 DEF NotOwn
  <2> QED
    BY <1>3, <1>4, <2>1, <2>2 DEF LinesKept, Sides
<1>8. MeantInv
  <2>1. pos["client"] \div 2 = 0 /\ pos["client"] % 2 = 0
    BY <1>4
  <2> DEFINE F == [i \in 1 .. pos["client"] \div 2 |->
                     Meant(session.protocol, SubSeq(session.client, 2 * i - 1, 2 * i))]
  <2>2. F = <<>>
    BY <2>1
  <2>3. ~crashed
    BY DEF LineInit
  <2> HIDE DEF F
  <2>4. FlattenSeq(F) = <<>>
    BY <1>5, <2>2
  <2> QED
    BY <1>4, <2>1, <2>3, <2>4 DEF MeantInv, AsMeant, F
<1> QED
  BY <1>1, <1>2, <1>6, <1>7, <1>8 DEF LineInv

\* What both kinds of steps make of the rows and the file
LEMMA Logs ==
  ASSUME LineTypeOK, FileInv, NEW tag \in Sides, NEW texts \in Seq(Text),
         NEW p \in Text, p # <<>>,
         Log(tag, texts), LogFile(p), session' = session
  PROVE  FileInv' /\ file' \in Text /\ logged' \in BOOLEAN
<1>0. PICK t \in RowsOf(tag, texts), last \in FileRow : rows' = rows \o t \o last
  BY DEF Log
<1> DEFINE u == rows \o t
<1> DEFINE about == {i \in DOMAIN rows : rows[i].tag = "logfile"}
<1> DEFINE next == {i \in DOMAIN rows' : rows'[i].tag = "logfile"}
<1>1. /\ t \in Seq(LineRow) /\ Len(t) = Len(texts)
      /\ \A i \in 1 .. Len(t) : t[i].tag = tag
  BY RowsOfAre
<1>2. rows \in Seq(LineRow) /\ file \in Text /\ logged \in BOOLEAN /\ last \in Seq(LineRow)
  BY FileRowIs DEF LineTypeOK
<1>3. u \in Seq(LineRow) /\ Len(u) = Len(rows) + Len(t)
  <2>1. t \in Seq(LineRow) /\ rows \in Seq(LineRow)
    BY <1>1, <1>2
  <2> QED
    BY <2>1
<1>4. \A i \in 1 .. Len(u) : u[i].tag = "logfile" <=> i \in about
  <2> TAKE i \in 1 .. Len(u)
  <2>1. CASE i <= Len(rows)
    <3>1. u[i] = rows[i] /\ i \in DOMAIN rows
      BY <1>1, <1>2, <2>1
    <3> QED
      BY <3>1
  <2>2. CASE ~(i <= Len(rows))
    <3>1. i - Len(rows) \in 1 .. Len(t)
      BY <1>1, <1>2, <1>3, <2>2
    <3>2. PICK j \in 1 .. Len(t) : j = i - Len(rows)
      BY <3>1
    <3>3. (rows \o t)[Len(rows) + j] = t[j]
      BY <1>1, <1>2
    <3>4. i = Len(rows) + j /\ i \notin DOMAIN rows
      BY <1>2, <2>2, <3>2
    <3>5. u[i].tag = tag
      BY <1>1, <3>3, <3>4
    <3> QED
      BY <3>4, <3>5 DEF Sides
  <2> QED
    BY <2>1, <2>2
<1>5. about \subseteq 1 .. Len(u)
  BY <1>1, <1>2, <1>3
<1>6. rows' = u \o last
  BY <1>0
<1> HIDE DEF u
<1>7. (\A i, j \in about : i = j) /\ (about # {} <=> file # <<>>) /\ (logged <=> file # <<>>)
  BY DEF FileInv, FileHasRow
<1>8. CASE session.protocol = "irc" /\ ~logged
  <2>1. PICK r \in LineRow : r.tag = "logfile" /\ last = <<r>>
    BY <1>8, FileRowIs
  <2>2. r \in LineRow /\ r.tag = "logfile"
    BY <2>1
  <2>3. rows' = u \o <<r>>
    BY <1>6, <2>1
  <2>4. /\ DOMAIN rows' = 1 .. Len(u) + 1 /\ rows'[Len(u) + 1] = r
        /\ \A i \in 1 .. Len(u) : rows'[i] = u[i]
    BY <1>3, <2>2, <2>3
  <2>5. about = {}
    BY <1>7, <1>8
  <2>6. \A i \in DOMAIN rows' : rows'[i].tag = "logfile" <=> i = Len(u) + 1
    <3> TAKE i \in DOMAIN rows'
    <3>1. Len(u) \in Nat /\ i \in 1 .. Len(u) + 1
      BY <1>3, <2>4
    <3>2. CASE i = Len(u) + 1
      BY <2>2, <2>4, <3>2
    <3>3. CASE i # Len(u) + 1
      <4>1. i \in 1 .. Len(u)
        BY <3>1, <3>3
      <4>2. rows'[i] = u[i]
        BY <2>4, <4>1
      <4>3. u[i].tag # "logfile"
        BY <1>4, <2>5, <4>1
      <4> QED
        BY <3>3, <4>2, <4>3
    <3> QED
      BY <3>2, <3>3
  <2>7. next = {Len(u) + 1}
    BY <1>3, <2>4, <2>6
  <2>8. file' = file \o p /\ logged' = TRUE
    BY <1>8 DEF LogFile
  <2>9. file' \in Text /\ file' # <<>>
    BY <1>2, <2>8 DEF Text
  <2> QED
    BY <2>7, <2>8, <2>9 DEF FileInv, FileHasRow
<1>9. CASE ~(session.protocol = "irc" /\ ~logged)
  <2>1. last = <<>>
    BY <1>9, FileRowIs
  <2>2. rows' = u
    BY <1>3, <1>6, <2>1
  <2>3. next = about
    BY <1>3, <1>4, <1>5, <2>2
  <2>4. CASE session.protocol = "irc"
    <3>1. file' = file \o p /\ logged' = TRUE /\ logged
      BY <1>2, <1>9, <2>4 DEF LogFile
    <3>2. file' \in Text /\ file' # <<>>
      BY <1>2, <3>1 DEF Text
    <3> QED
      BY <1>7, <2>3, <3>1, <3>2 DEF FileInv, FileHasRow
  <2>5. CASE session.protocol # "irc"
    <3>1. file' = file /\ logged' = logged
      BY <2>5 DEF LogFile
    <3> QED
      BY <1>2, <1>7, <2>3, <3>1 DEF FileInv, FileHasRow
  <2> QED
    BY <2>4, <2>5
<1> QED
  BY <1>8, <1>9

\* A piece of the client
LEMMA ClientPieceInv ==
  ASSUME LineInv, NEW k \in 1 .. Len(session.client), ClientPiece(k)
  PROVE  LineInv'
<1> DEFINE p == SubSeq(session.client, pos["client"] + 1, pos["client"] + k)
<1> DEFINE q == Rewrite(p)
<1> DEFINE c == "client"
<1>1. LineTypeOK /\ FileInv /\ SaidInv /\ LinesKept /\ MeantInv
  BY DEF LineInv
<1>2. /\ session.protocol \in Protocols
      /\ session.client \in Seq(Token) /\ session[c] = session.client
  BY <1>1, SessionIs
<1>3. k \in Nat /\ k >= 1 /\ c \in Sides /\ "server" \in Sides
  BY <1>2 DEF Sides
<1>4. Take(c, k) /\ p = SubSeq(session[c], pos[c] + 1, pos[c] + k)
  BY <1>2 DEF ClientPiece
<1>5. /\ session.protocol = "irc" => ~NoPlaceBehind(p)
      /\ passed' = [passed EXCEPT ![c] = @ \o q]
      /\ \E texts \in ClientTexts(p) : Log(c, texts)
      /\ LogFile(q) /\ crashed' = crashed
  BY DEF ClientPiece
<1> HIDE DEF p
<1>0. PICK texts \in ClientTexts(p) : Log(c, texts)
  BY <1>5
<1>6. /\ p \in Seq(Token) /\ Len(p) = k /\ p # <<>>
      /\ session' = session /\ pos' \in [Sides -> Nat]
      /\ \A t \in Sides : pos'[t] = (IF t = c THEN pos[c] + k ELSE pos[t])
      /\ \A t \in Sides : pos'[t] <= Len(session[t])
      /\ Sent(c) \in Seq(Token) /\ Sent(c)' = Sent(c) \o p
      /\ \A t \in Sides : t # c => Sent(t)' = Sent(t)
  BY <1>1, <1>3, <1>4, PieceIs, ZenonT(60)
<1>7. q \in Seq(Tok) /\ q # <<>> /\ Text = Seq(Tok)
  BY <1>2, <1>5, <1>6, RewriteType DEF Text, Tok
<1>8. texts \in Seq(Text) /\ FlattenSeq(texts) \in Seq(Tok) /\ TellPiece(p, q, texts)
  BY <1>2, <1>5, <1>6, ClientTextsType
<1>9. p \in Seq(Tok) /\ NotOwn(p) = p /\ Sent(c) \in Seq(Tok)
  BY <1>6, TokenLines
<1>10. /\ whole' = (whole /\ WholeLines(p)) /\ single' = (single /\ WholeLines(p) /\ k = 2)
       /\ ~crashed
  BY <1>4 DEF Take
<1> HIDE DEF q
<1>11. passed \in [Sides -> Seq(Tok)] /\ passed[c] \in Seq(Tok)
  BY <1>1, <1>3, <1>7 DEF LineTypeOK
<1>12. /\ passed' \in [Sides -> Seq(Tok)]
       /\ passed'[c] = passed[c] \o q /\ passed'["server"] = passed["server"]
  BY <1>3, <1>5, <1>7, <1>11
<1>13. FileInv' /\ file' \in Text /\ logged' \in BOOLEAN
  BY <1>0, <1>1, <1>3, <1>5, <1>6, <1>7, <1>8, Logs
<1>14. /\ rows' \in Seq(LineRow) /\ Said(c) \in Seq(Tok)
       /\ Said(c)' = Said(c) \o FlattenSeq(texts)
       /\ Said("server")' = Said("server")
  BY <1>0, <1>1, <1>3, <1>8, RowsGrow
<1>15. LineTypeOK'
  <2>1. {logged', crashed', whole', single'} \subseteq BOOLEAN
    BY <1>1, <1>5, <1>10, <1>13 DEF LineTypeOK
  <2>2. session' \in Sessions
    BY <1>1, <1>6 DEF LineTypeOK
  <2>3. \A s \in Sides : pos'[s] <= Len(session'[s])
    BY <1>6
  <2> QED
    BY <1>6, <1>7, <1>12, <1>13, <1>14, <2>1, <2>2, <2>3 DEF LineTypeOK
<1>16. SaidInv'
  <2>1. session.protocol # "irc" => Said("server")' = passed'["server"]
    BY <1>1, <1>12, <1>14 DEF SaidInv
  <2>2. CASE session.protocol = "irc"
    <3>1. Said(c) = passed[c] /\ FlattenSeq(texts) = q
      BY <1>1, <1>8, <2>2 DEF SaidInv, TellPiece
    <3>2. Said(c)' = passed'[c]
      BY <1>12, <1>14, <3>1
    <3> QED
      BY <1>6, <2>2, <3>2 DEF SaidInv
  <2>3. CASE session.protocol = "smtp"
    <3>1. /\ EndsOf(Said(c)) = EndsOf(Sent(c)) /\ (whole => Said(c) = Sent(c))
          /\ EndsOf(FlattenSeq(texts)) = EndsOf(p) /\ (WholeLines(p) => FlattenSeq(texts) = p)
      BY <1>1, <1>8, <2>3 DEF SaidInv, TellPiece
    <3>2. EndsOf(Said(c)') = EndsOf(Sent(c)')
      <4>1. EndsOf(Said(c) \o FlattenSeq(texts)) = EndsOf(Said(c)) \o EndsOf(FlattenSeq(texts))
        BY <1>8, <1>14, EndsOfConcat
      <4>2. EndsOf(Sent(c) \o p) = EndsOf(Sent(c)) \o EndsOf(p)
        BY <1>9, EndsOfConcat
      <4> QED
        BY <1>6, <1>14, <3>1, <4>1, <4>2
    <3>3. whole' => Said(c)' = Sent(c)'
      BY <1>6, <1>10, <1>14, <3>1
    <3> QED
      BY <1>6, <2>1, <2>3, <3>2, <3>3 DEF SaidInv
  <2>4. CASE session.protocol \notin {"irc", "smtp"}
    <3>1. Said(c) = Sent(c) /\ FlattenSeq(texts) = p
      BY <1>1, <1>8, <2>4 DEF SaidInv, TellPiece
    <3>2. Said(c)' = Sent(c)'
      BY <1>6, <1>14, <3>1
    <3> QED
      BY <1>6, <2>1, <2>4, <3>2 DEF SaidInv
  <2> QED
    BY <2>2, <2>3, <2>4
<1>17. LinesKept'
  <2>1. CASE session.protocol = "irc"
    <3>1. /\ Unsplit(passed[c])
          /\ EndsOf(passed[c]) = EndsOf(Sent(c))
          /\ whole => NotOwn(passed[c]) = Sent(c)
      BY <1>1, <1>10, <2>1 DEF LinesKept, Unsplit
    <3>2. q = InjectCommands(p)
      BY <2>1 DEF Rewrite, q
    <3>3. Unsplit(q) /\ EndsOf(q) = EndsOf(p) /\ (Len(p) \in Newlines(p) => NotOwn(q) = p)
      BY <1>5, <1>6, <1>9, <2>1, <3>2, InjectAdds DEF Adds
    <3>4. Unsplit(passed'[c])
      BY <1>7, <1>11, <1>12, <3>1, <3>3, UnsplitConcat
    <3>5. EndsOf(passed[c] \o q) = EndsOf(passed[c]) \o EndsOf(q)
      <4>1. PICK a \in Seq(Tok) : a = passed[c]
        BY <1>11
      <4>2. EndsOf(a \o q) = EndsOf(a) \o EndsOf(q)
        BY <1>7, EndsOfConcat
      <4> QED
        BY <4>1, <4>2
    <3>6. EndsOf(Sent(c) \o p) = EndsOf(Sent(c)) \o EndsOf(p)
      <4>1. PICK a \in Seq(Tok) : a = Sent(c)
        BY <1>9
      <4>2. EndsOf(a \o p) = EndsOf(a) \o EndsOf(p)
        BY <1>9, EndsOfConcat
      <4> QED
        BY <4>1, <4>2
    <3>7. EndsOf(passed'[c]) = EndsOf(Sent(c)')
      BY <1>6, <1>12, <3>1, <3>3, <3>5, <3>6
    <3>8. ASSUME whole'
          PROVE  NotOwn(passed'[c]) = Sent(c)'
      <4>1. whole /\ WholeLines(p)
        BY <1>10, <3>8
      <4>2. Len(p) \in Newlines(p)
        <5>1. Len(p) \in 1 .. Len(p) /\ p[Len(p)].part # "head"
          BY <1>6, <4>1, <1>3 DEF WholeLines, Last
        <5> QED
          BY <1>9, <5>1, Newline
      <4>3. NotOwn(passed[c] \o q) = NotOwn(passed[c]) \o NotOwn(q)
        <5>1. PICK a \in Seq(Tok) : a = passed[c]
          BY <1>11
        <5>2. NotOwn(a \o q) = NotOwn(a) \o NotOwn(q)
          BY <1>7, NotOwnConcat
        <5> QED
          BY <5>1, <5>2
      <4> QED
        BY <1>6, <1>12, <3>1, <3>3, <4>1, <4>2, <4>3
    <3> QED
      BY <3>4, <3>7, <3>8 DEF LinesKept, Unsplit
  <2>2. CASE session.protocol # "irc"
    BY <1>6, <2>2 DEF LinesKept
  <2> QED
    BY <2>1, <2>2
<1>18. MeantInv'
  <2> SUFFICES ASSUME single' PROVE AsMeant' /\ pos'[c] % 2 = 0
    BY DEF MeantInv, AsMeant
  <2>1. single /\ WholeLines(p) /\ k = 2
    BY <1>10
  <2>2. q = Meant(session.protocol, p)
    BY <1>2, <1>6, <2>1, LineAsMeant DEF q
  <2>3. pos[c] \in Nat /\ pos[c] % 2 = 0 /\ pos'[c] = pos[c] + 2
    BY <1>1, <1>3, <1>6, <2>1 DEF MeantInv, LineTypeOK
  <2>4. PICK n \in Nat : n = pos[c] \div 2 /\ pos[c] = 2 * n
    <3>1. PICK m \in Nat : m = pos[c]
      BY <2>3
    <3>2. m % 2 = 0
      BY <2>3, <3>1
    <3>3. m \div 2 \in Nat /\ m = 2 * (m \div 2)
      BY <3>2
    <3> QED
      BY <3>1, <3>3
  <2>5. pos'[c] \div 2 = n + 1 /\ pos'[c] % 2 = 0
    BY <2>3, <2>4
  <2> DEFINE M(i) == Meant(session.protocol, SubSeq(session.client, 2 * i - 1, 2 * i))
  <2> DEFINE a == [i \in 1 .. n |-> M(i)]
  <2> DEFINE b == [i \in 1 .. n + 1 |-> M(i)]
  <2>6. passed[c] = FlattenSeq(a)
    BY <1>1, <2>1, <2>4 DEF MeantInv, AsMeant
  <2>7. M(n + 1) = q
    <3>1. 2 * (n + 1) - 1 = pos[c] + 1 /\ 2 * (n + 1) = pos[c] + k
      BY <2>1, <2>4
    <3>2. SubSeq(session.client, 2 * (n + 1) - 1, 2 * (n + 1)) = p
      BY <1>2, <1>4, <3>1
    <3> QED
      BY <2>2, <3>2
  <2>8. ASSUME NEW i \in 1 .. n
        PROVE  M(i) \in Seq(Tok)
    <3> DEFINE l == SubSeq(session.client, 2 * i - 1, 2 * i)
    <3>1. 2 * i - 1 \in 1 .. Len(session.client) /\ 2 * i \in 1 .. Len(session.client)
      <4>1. pos[c] <= Len(session.client) /\ Len(session.client) \in Nat
        BY <1>1, <1>2, <1>3 DEF LineTypeOK
      <4> QED
        BY <2>4, <4>1
    <3>2. l \in Seq(Token) /\ Len(l) = 2 
      BY <1>2, <3>1
    <3> HIDE DEF l
    <3>3. l \in Seq(Tok) /\ l[1] \in Token
      <4>1. l \in Seq(Tok)
        BY <3>2, TokenLines
      <4>2. 1 \in 1 .. Len(l)
        BY <3>2
      <4>3. l \in Seq(Token)
        BY <3>2
      <4>4. \A j \in 1 .. Len(l) : l[j] \in Token
        BY <4>3
      <4> QED
        BY <4>1, <4>2, <4>4
    <3>4. l[1].line \in Nat /\ l[1] \in Tok /\ LocalEmailAddress \in Tok
      BY <3>3, OwnTexts DEF Token, Tok
    <3>5. <<Who(l[1].line)>> \in Seq(Tok) /\ ListAndUsers \in Seq(Tok)
      BY <3>4, OwnTexts, OwnLines
    <3>6. Meant(session.protocol, l)
            \in {l \o <<Who(l[1].line)>>, l \o ListAndUsers, <<l[1], LocalEmailAddress>>, l}
      BY DEF Meant
    <3>7. /\ l \o <<Who(l[1].line)>> \in Seq(Tok) /\ l \o ListAndUsers \in Seq(Tok)
          /\ <<l[1], LocalEmailAddress>> \in Seq(Tok)
      BY <3>3, <3>4, <3>5
    <3>8. Meant(session.protocol, l) \in Seq(Tok)
      BY <3>3, <3>6, <3>7
    <3> QED
      BY <3>8 DEF l
  <2> HIDE DEF M
  <2>9. a \in Seq(Seq(Tok)) /\ Len(a) = n /\ <<q>> \in Seq(Seq(Tok))
    BY <1>7, <2>8
  <2>10. b = a \o <<q>>
    <3>1. b \in Seq(Seq(Tok)) /\ Len(b) = n + 1
      <4>1. \A i \in 1 .. n + 1 : M(i) \in Seq(Tok)
        <5> TAKE i \in 1 .. n + 1
        <5>1. i \in 1 .. n \/ i = n + 1
          OBVIOUS
        <5> QED
          BY <1>7, <2>7, <2>8, <5>1
      <4> QED
        BY <4>1
    <3>2. a \o <<q>> \in Seq(Seq(Tok)) /\ Len(a \o <<q>>) = n + 1
      BY <2>9
    <3>3. ASSUME NEW i \in 1 .. Len(b)
          PROVE  b[i] = (a \o <<q>>)[i]
      <4>1. CASE i <= n
        <5>1. b[i] = M(i) /\ a[i] = M(i) /\ i \in 1 .. n
          BY <3>1, <4>1
        <5> HIDE DEF a, b
        <5>2. (a \o <<q>>)[i] = a[i]
          BY <2>9, <5>1
        <5> QED
          BY <5>1, <5>2
      <4>2. CASE ~(i <= n)
        <5>1. i = n + 1
          BY <3>1, <4>2
        <5>2. b[i] = M(n + 1)
          BY <5>1
        <5> HIDE DEF a, b
        <5>3. (a \o <<q>>)[n + 1] = q
          BY <2>9
        <5> QED
          BY <2>7, <5>1, <5>2, <5>3
      <4> QED
        BY <4>1, <4>2
    <3> HIDE DEF a, b
    <3> QED
      BY <3>1, <3>2, <3>3, SeqEqual
  <2>11. FlattenSeq(b) = passed'[c]
    <3> HIDE DEF a, b
    <3>1. FlattenSeq(a \o <<q>>) = FlattenSeq(a) \o FlattenSeq(<<q>>)
      BY <2>9, FlattenConcat
    <3>2. FlattenSeq(<<q>>) = q
      BY <1>7, FlattenSingle
    <3> QED
      BY <1>12, <2>6, <2>10, <3>1, <3>2
  <2>12. ~crashed'
    BY <1>5, <1>10
  <2>13. session' = session
    BY <1>6
  <2>14. passed'["client"] = FlattenSeq([i \in 1 .. pos'["client"] \div 2 |->
           Meant(session'.protocol, SubSeq(session'.client, 2 * i - 1, 2 * i))])
    BY <2>5, <2>11, <2>13 DEF b, M
  <2> QED
    BY <2>5, <2>12, <2>14 DEF AsMeant
<1> QED
  BY <1>13, <1>15, <1>16, <1>17, <1>18 DEF LineInv

\* The end of the handler at a piece it has no place behind
LEMMA ClientCrashInv ==
  ASSUME LineInv, NEW k \in 1 .. Len(session.client), ClientCrash(k)
  PROVE  LineInv'
<1> DEFINE p == SubSeq(session.client, pos["client"] + 1, pos["client"] + k)
<1> DEFINE c == "client"
<1>1. LineTypeOK /\ FileInv /\ SaidInv /\ LinesKept /\ MeantInv
  BY DEF LineInv
<1>2. /\ session.protocol \in Protocols
      /\ session.client \in Seq(Token) /\ session[c] = session.client
  BY <1>1, SessionIs
<1>3. k \in Nat /\ k >= 1 /\ c \in Sides
  BY <1>2 DEF Sides
<1>4. Take(c, k) /\ p = SubSeq(session[c], pos[c] + 1, pos[c] + k)
  BY <1>2 DEF ClientCrash
<1>5. /\ session.protocol = "irc" /\ NoPlaceBehind(p) /\ crashed' = TRUE
      /\ passed' = passed /\ rows' = rows /\ file' = file /\ logged' = logged
  BY DEF ClientCrash
<1> HIDE DEF p
<1>6. /\ p \in Seq(Token) /\ Len(p) = k
      /\ session' = session /\ pos' \in [Sides -> Nat]
      /\ \A t \in Sides : pos'[t] <= Len(session[t])
  BY <1>1, <1>3, <1>4, PieceIs
<1>7. whole' = (whole /\ WholeLines(p)) /\ single' = (single /\ WholeLines(p) /\ k = 2)
  BY <1>4 DEF Take
<1>8. ~single'
  <2> SUFFICES ASSUME single' PROVE FALSE
    OBVIOUS
  <2>1. WholeLines(p) /\ Len(p) = 2
    BY <1>6, <1>7
  <2>2. ~NoPlaceBehind(p)
    BY <1>2, <1>6, <2>1, LineAsMeant
  <2> QED
    BY <1>5, <2>2
<1>9. LineTypeOK'
  <2>1. {logged', crashed', whole', single'} \subseteq BOOLEAN
    BY <1>1, <1>5, <1>7 DEF LineTypeOK
  <2>2. session' \in Sessions /\ \A s \in Sides : pos'[s] <= Len(session'[s])
    BY <1>1, <1>6 DEF LineTypeOK
  <2> QED
    BY <1>1, <1>5, <1>6, <2>1, <2>2 DEF LineTypeOK
<1>10. FileInv'
  BY <1>1, <1>5 DEF FileInv, FileHasRow
<1>11. SaidInv'
  <2>1. Said(c) = passed[c]
    BY <1>1, <1>5 DEF SaidInv
  <2>2. Said(c)' = passed'[c]
    BY <1>5, <2>1 DEF Said
  <2> QED
    BY <1>5, <1>6, <2>2 DEF SaidInv
<1>12. LinesKept'
  BY <1>5 DEF LinesKept
<1>13. MeantInv'
  BY <1>8 DEF MeantInv, AsMeant
<1> QED
  BY <1>9, <1>10, <1>11, <1>12, <1>13 DEF LineInv

\* A piece of the service
LEMMA ServerPieceInv ==
  ASSUME LineInv, NEW k \in 1 .. Len(session.server), ServerPiece(k)
  PROVE  LineInv'
<1> DEFINE p == SubSeq(session.server, pos["server"] + 1, pos["server"] + k)
<1> DEFINE texts == ServerTexts(p)
<1> DEFINE s == "server"
<1> DEFINE c == "client"
<1>1. LineTypeOK /\ FileInv /\ SaidInv /\ LinesKept /\ MeantInv
  BY DEF LineInv
<1>2. /\ session.protocol \in Protocols
      /\ session.server \in Seq(Token) /\ session[s] = session.server
  BY <1>1, SessionIs
<1>3. k \in Nat /\ k >= 1 /\ s \in Sides /\ c \in Sides /\ c # s
  BY <1>2 DEF Sides
<1>4. Take(s, k) /\ p = SubSeq(session[s], pos[s] + 1, pos[s] + k)
  BY <1>2 DEF ServerPiece
<1>5. /\ passed' = [passed EXCEPT ![s] = @ \o p]
      /\ Log(s, texts)
      /\ LogFile(p) /\ crashed' = crashed
  BY DEF ServerPiece
<1> HIDE DEF p
<1>6. /\ p \in Seq(Token) /\ p # <<>>
      /\ session' = session /\ pos' \in [Sides -> Nat]
      /\ \A t \in Sides : pos'[t] = (IF t = s THEN pos[s] + k ELSE pos[t])
      /\ \A t \in Sides : pos'[t] <= Len(session[t])
      /\ \A t \in Sides : t # s => Sent(t)' = Sent(t)
  BY <1>1, <1>3, <1>4, PieceIs
<1>7. p \in Seq(Tok) /\ Text = Seq(Tok)
  BY <1>6, TokenLines DEF Text, Tok
<1>8. texts \in Seq(Text) /\ (session.protocol # "irc" => FlattenSeq(texts) = p)
  BY <1>6, ServerTextsType
<1>9. whole' = (whole /\ WholeLines(p)) /\ single' = (single /\ WholeLines(p) /\ k = 2)
  BY <1>4 DEF Take
<1> HIDE DEF texts
<1>10. pos'[c] = pos[c] /\ Sent(c)' = Sent(c)
  BY <1>3, <1>6
<1>11. passed \in [Sides -> Seq(Tok)] /\ passed[s] \in Seq(Tok)
  BY <1>1, <1>3, <1>7 DEF LineTypeOK
<1>12. /\ passed' \in [Sides -> Seq(Tok)]
       /\ passed'[s] = passed[s] \o p /\ passed'[c] = passed[c]
  BY <1>3, <1>5, <1>7, <1>11
<1>13. FileInv' /\ file' \in Text /\ logged' \in BOOLEAN
  BY <1>1, <1>3, <1>5, <1>6, <1>7, <1>8, Logs
<1>14. /\ rows' \in Seq(LineRow)
       /\ Said(s)' = Said(s) \o FlattenSeq(texts)
       /\ Said(c)' = Said(c)
  BY <1>1, <1>3, <1>5, <1>8, RowsGrow
<1>15. LineTypeOK'
  <2>1. {logged', crashed', whole', single'} \subseteq BOOLEAN
    BY <1>1, <1>5, <1>9, <1>13 DEF LineTypeOK
  <2>2. session' \in Sessions /\ \A t \in Sides : pos'[t] <= Len(session'[t])
    BY <1>1, <1>6 DEF LineTypeOK
  <2> QED
    BY <1>6, <1>7, <1>12, <1>13, <1>14, <2>1, <2>2 DEF LineTypeOK
<1>16. SaidInv'
  <2>1. session.protocol # "irc" => Said(s)' = passed'[s]
    BY <1>1, <1>8, <1>12, <1>14 DEF SaidInv
  <2>2. /\ Said(c)' = Said(c) /\ Sent(c)' = Sent(c) /\ passed'[c] = passed[c]
        /\ whole' => whole
    BY <1>9, <1>10, <1>12, <1>14
  <2>3. CASE session.protocol = "irc"
    BY <1>1, <1>6, <2>2, <2>3 DEF SaidInv
  <2>4. CASE session.protocol = "smtp"
    BY <1>1, <1>6, <2>1, <2>2, <2>4 DEF SaidInv
  <2>5. CASE session.protocol \notin {"irc", "smtp"}
    BY <1>1, <1>6, <2>1, <2>2, <2>5 DEF SaidInv
  <2> QED
    BY <2>3, <2>4, <2>5
<1>17. LinesKept'
  <2> SUFFICES ASSUME session.protocol = "irc", ~crashed'
               PROVE  /\ Unsplit(passed'[c])
                      /\ EndsOf(passed'[c]) = EndsOf(Sent(c)')
                      /\ whole' => NotOwn(passed'[c]) = Sent(c)'
    BY <1>6 DEF LinesKept, Unsplit
  <2>1. /\ Unsplit(passed[c])
        /\ EndsOf(passed[c]) = EndsOf(Sent(c))
        /\ whole => NotOwn(passed[c]) = Sent(c)
    BY <1>1, <1>5 DEF LinesKept, Unsplit
  <2> QED
    BY <1>9, <1>10, <1>12, <2>1
<1>18. MeantInv'
  <2> SUFFICES ASSUME single' PROVE AsMeant' /\ pos'[c] % 2 = 0
    BY DEF MeantInv, AsMeant
  <2>1. single /\ AsMeant /\ pos[c] % 2 = 0
    BY <1>1, <1>9 DEF MeantInv
  <2>2. ~crashed'
    BY <1>5, <2>1 DEF AsMeant
  <2>3. passed[c] = FlattenSeq([i \in 1 .. pos[c] \div 2 |->
          Meant(session.protocol, SubSeq(session.client, 2 * i - 1, 2 * i))])
    BY <2>1 DEF AsMeant
  <2>4. passed'[c] = FlattenSeq([i \in 1 .. pos'[c] \div 2 |->
          Meant(session'.protocol, SubSeq(session'.client, 2 * i - 1, 2 * i))])
    BY <1>6, <1>10, <1>12, <2>3
  <2> QED
    BY <1>10, <2>1, <2>2, <2>4 DEF AsMeant
<1> QED
  BY <1>13, <1>15, <1>16, <1>17, <1>18 DEF LineInv

LEMMA LineStutterInv ==
  ASSUME LineInv, UNCHANGED lineVars
  PROVE  LineInv'
<1>1. LineTypeOK'
  BY DEF LineInv, LineTypeOK, lineVars
<1>2. FileInv'
  BY DEF LineInv, FileInv, FileHasRow, lineVars
<1>3. SaidInv'
  BY DEF LineInv, SaidInv, Said, Sent, lineVars
<1>4. LinesKept'
  BY DEF LineInv, LinesKept, Sent, lineVars
<1>5. MeantInv'
  BY DEF LineInv, MeantInv, AsMeant, lineVars
<1> QED
  BY <1>1, <1>2, <1>3, <1>4, <1>5 DEF LineInv

LEMMA LineAlwaysInv == LineSpec => []LineInv
<1>1. LineInit => LineInv
  BY LineInitInv
<1>2. LineInv /\ [LineNext]_lineVars => LineInv'
  BY ClientPieceInv, ClientCrashInv, ServerPieceInv, LineStutterInv DEF LineNext
<1> QED
  BY <1>1, <1>2, PTL DEF LineSpec

-----------------------------------------------------------------------------
\* What has been passed on, logged and filed is made of tokens and rows, and no
\* more is read of a stream than it has.
THEOREM LinesTyped == LineSpec => []LineTypeOK
<1>1. LineInv => LineTypeOK
  BY DEF LineInv
<1> QED
  BY <1>1, LineAlwaysInv, PTL

\* Whatever a client says: as long as read() returns its lines one at a time,
\* the service gets each as it is meant, WHO behind every JOIN, LIST and USERS
\* behind every NICK, the local address for every recipient (irc.c:9-66,
\* smtp.c:73-82).
THEOREM LinesAsMeant == LineSpec => []AsMeant
<1>1. LineInv => AsMeant
  BY DEF LineInv, MeantInv
<1> QED
  BY <1>1, LineAlwaysInv, PTL

\* However the stream of an IRC client is cut: no command is put into a line, no
\* end of a line is lost, and of pieces of whole lines nothing (irc.c:28-37,
\* 49-59).
THEOREM LinesStay == LineSpec => []LinesKept
<1>1. LineInv => LinesKept
  BY DEF LineInv
<1> QED
  BY <1>1, LineAlwaysInv, PTL

\* However the streams are cut: as long as the statements of a side are executed,
\* its rows put together are what IRC passed on and what the others read, but for
\* the beginnings of lines that an SMTP client's pieces end in (irc.c:207-246,
\* smtp.c:69-84, ftp.c:149-194).
THEOREM RowsTold == LineSpec => []RowsTell
<1>1. LineInv => RowsTell
  <2> SUFFICES ASSUME SaidInv
               PROVE  RowsTell
    BY DEF LineInv
  <2>1. ASSUME NEW tag \in Sides, Executed(tag)
        PROVE  Told(tag) = Said(tag)
    <3>1. [i \in DOMAIN rows |-> IF rows[i].tag = tag /\ rows[i].stored THEN rows[i].text ELSE <<>>]
          = [i \in DOMAIN rows |-> IF rows[i].tag = tag THEN rows[i].text ELSE <<>>]
      BY <2>1 DEF Executed
    <3> QED
      BY <3>1 DEF Told, Said
  <2>2. ASSUME Executed("client")
        PROVE  CASE session.protocol = "irc" -> Told("client") = passed["client"]
                 [] session.protocol = "smtp" ->
                      /\ EndsOf(Told("client")) = EndsOf(Sent("client"))
                      /\ whole => Told("client") = Sent("client")
                 [] OTHER -> Told("client") = Sent("client")
    <3>1. Told("client") = Said("client")
      BY <2>1, <2>2 DEF Sides
    <3>2. CASE session.protocol = "irc"
      BY <3>1, <3>2 DEF SaidInv
    <3>3. CASE session.protocol = "smtp"
      BY <3>1, <3>3 DEF SaidInv
    <3>4. CASE session.protocol \notin {"irc", "smtp"}
      BY <3>1, <3>4 DEF SaidInv
    <3> QED
      BY <3>2, <3>3, <3>4
  <2>3. ASSUME Executed("server"), session.protocol # "irc"
        PROVE  Told("server") = passed["server"]
    BY <2>1, <2>3 DEF SaidInv, Sides
  <2> QED
    BY <2>2, <2>3 DEF RowsTell
<1> QED
  BY <1>1, LineAlwaysInv, PTL

\* An IRC connection has one row for its file from the first piece on, any
\* other connection none and no file (irc.c:189-200, 249-262).
THEOREM FileRowOnce == LineSpec => []FileHasRow
<1>1. LineInv => FileHasRow
  BY DEF LineInv, FileInv
<1> QED
  BY <1>1, LineAlwaysInv, PTL
=============================================================================
