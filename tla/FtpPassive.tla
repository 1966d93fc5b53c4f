----------------------------- MODULE FtpPassive ------------------------------
(***************************************************************************)
(* Passive FTP (ftp.c, ftp_data.c): the handler of a control connection    *)
(* remembers the address a server announces (227, 229) and files it in     *)
(* AWAITED_PASV with the client's next line; the handler of any connection *)
(* to such an address takes it for the data connection, logs it with what  *)
(* the table says, and deletes the address from the table.  All handlers   *)
(* are processes of their own that meet in the database, one statement at  *)
(* a time, each of which may fail.                                         *)
(*                                                                         *)
(* A control connection that was redirected is announced addresses of the  *)
(* local service.  A log structure that the client's first line finds      *)
(* uninitialised is as good as an empty one: an address it may hold is     *)
(* nobody's.                                                               *)
(***************************************************************************)
EXTENDS Integers, Sequences, FiniteSets

CONSTANTS Controls,      \* control connections
          Transfers,     \* connections that may be data connections
          Ports,         \* ports a server announces
          MaxAnnounced   \* bound of the model on announcements

ASSUME MaxAnnouncedAssumption == MaxAnnounced \in Nat

VARIABLES redirected,    \* the control connections whose dest is a local service
          emulation,     \* mode == full_emulation
          announced,     \* history: the addresses announced, in order
          pasv,          \* pasvPort, serverIP: the announcement held, 0 for none
          awaited,       \* AWAITED_PASV
          at,            \* where the handler of a data connection is
          where,         \* orig_dest and dport of its connection
          dest,          \* dest and dport
          begun,         \* how many of log_client_struct_initialized and
                         \* log_server_struct_initialized are set
          logs,          \* FTP_Passive_Logs
          excused,       \* history: data connections with a failed or missing statement
          guessed        \* history: those taken for one without the table's word

vars == <<redirected, emulation, announced, pasv, awaited, at, where, dest, begun,
          logs, excused, guessed>>
control == <<redirected, emulation, announced, pasv>>

Address == [ip : {"server", "local"}, port : Ports]
Elsewhere == [ip |-> "garbage", port |-> 0]   \* an uninitialised one
Awaited == [n : 1 .. MaxAnnounced, address : Address]
LogRow == [by : Transfers, first : BOOLEAN, n : 0 .. MaxAnnounced]

TypeOK ==
    /\ redirected \in SUBSET Controls
    /\ emulation \in BOOLEAN
    /\ announced \in Seq(Address) /\ Len(announced) <= MaxAnnounced
    /\ pasv \in [Controls -> 0 .. Len(announced)]
    /\ awaited \in SUBSET Awaited
    /\ at \in [Transfers -> {"none", "unknown", "insert", "delete", "known", "gone"}]
    /\ where \in [Transfers -> Address \cup {Elsewhere}]
    /\ dest \in [Transfers -> Address \cup {Elsewhere}]
    /\ begun \in [Transfers -> 0 .. 2]
    /\ logs \in SUBSET LogRow
    /\ excused \in SUBSET Transfers
    /\ guessed \in SUBSET Transfers

Init ==
    /\ redirected \in SUBSET Controls
    /\ emulation \in BOOLEAN
    /\ announced = <<>>
    /\ pasv = [c \in Controls |-> 0]
    /\ awaited = {}
    /\ at = [d \in Transfers |-> "none"]
    /\ where = [d \in Transfers |-> Elsewhere]
    /\ dest = where
    /\ begun = [d \in Transfers |-> 0]
    /\ logs = {}
    /\ excused = {}
    /\ guessed = {}

-----------------------------------------------------------------------------
\* The control connections

\* ph_ftp_handle_payload_stc: a reply 227 or 229.  The address held before is
\* forgotten.  One without a parenthesis is read behind a null pointer: the handler
\* ends, and is then as one that takes no step any more.
Announce(c, port) ==
    /\ Len(announced) < MaxAnnounced
    /\ announced' = Append(announced,
         [ip |-> IF c \in redirected THEN "local" ELSE "server", port |-> port])
    /\ pasv' = [pasv EXCEPT ![c] = Len(announced) + 1]
    /\ UNCHANGED <<redirected, emulation, awaited, at, where, dest, begun, logs, excused,
                   guessed>>

\* Fault: pasvPort is not reset
Command_Keeps(c) ==
    /\ pasv[c] # 0
    /\ awaited' = awaited \cup {[n |-> pasv[c], address |-> announced[pasv[c]]]}
    /\ UNCHANGED <<control, at, where, dest, begun, logs, excused, guessed>>

\* ph_ftp_handle_payload_cts: the first line after the reply, whatever it is
Command(c) ==
    /\ pasv[c] # 0
    /\ awaited' = awaited \cup {[n |-> pasv[c], address |-> announced[pasv[c]]]}
    /\ pasv' = [pasv EXCEPT ![c] = 0]
    /\ UNCHANGED <<redirected, emulation, announced, at, where, dest, begun, logs, excused,
                   guessed>>

\* "insertion not succcessful!": it is not tried again.
CommandFails(c) ==
    /\ pasv[c] # 0
    /\ pasv' = [pasv EXCEPT ![c] = 0]
    /\ UNCHANGED <<redirected, emulation, announced, awaited, at, where, dest, begun,
                   logs, excused, guessed>>

-----------------------------------------------------------------------------
\* The data connections

RowsFor(a) == {r \in awaited : r.address = a}

Goto(d, place) == at' = [at EXCEPT ![d] = place]

Open(d, a) ==
    /\ at[d] = "none"
    /\ Goto(d, "unknown")
    /\ where' = [where EXCEPT ![d] = a]
    /\ dest' = [dest EXCEPT ![d] = a]
    /\ UNCHANGED <<control, awaited, begun, logs, excused, guessed>>

\* pi_buildin_payload found nothing in a piece and asks for the address.  In full
\* emulation the target that is connected then is uninitialised.
TakenForData(d) ==
    /\ Goto(d, "insert")
    /\ begun' = [begun EXCEPT ![d] = 1]
    /\ dest' \in {[dest EXCEPT ![d] = a] :
                    a \in {where[d]} \cup (IF emulation THEN {Elsewhere} ELSE {})}

Identify(d) ==
    /\ at[d] = "unknown"
    /\ RowsFor(where[d]) # {}
    /\ TakenForData(d)
    /\ UNCHANGED <<control, awaited, where, logs, excused, guessed>>

\* The query fails and the count is uninitialised, or the piece itself says
\* FTP_data.
Guess(d) ==
    /\ at[d] = "unknown"
    /\ TakenForData(d)
    /\ guessed' = guessed \cup {d}
    /\ UNCHANGED <<control, awaited, where, logs, excused>>

\* A piece that looks like another protocol, whose handler does not use the table
Recognise(d) ==
    /\ at[d] = "unknown"
    /\ Goto(d, "gone")
    /\ UNCHANGED <<control, awaited, where, dest, begun, logs, excused, guessed>>

\* The first piece of the other side; later ones are appended to the file only.
OtherSide(d) ==
    /\ at[d] = "known"
    /\ begun[d] = 1
    /\ Goto(d, "insert")
    /\ begun' = [begun EXCEPT ![d] = 2]
    /\ UNCHANGED <<control, awaited, where, dest, logs, excused, guessed>>

\* lpg_log_struct: the row takes type and file name from the table.  With two
\* rows for the address the subqueries are errors and nothing is inserted.
InsertFrom(d, rows) ==
    /\ at[d] = "insert"
    /\ logs' = IF Cardinality(rows) > 1 THEN logs
               ELSE logs \cup {[by |-> d, first |-> begun[d] = 1,
                                n |-> IF rows = {} THEN 0 ELSE (CHOOSE r \in rows : TRUE).n]}
    /\ Goto(d, "delete")
    /\ UNCHANGED <<control, awaited, where, dest, begun, excused, guessed>>

\* Fault: only the port is compared
InsertRow_AnyIP(d) == InsertFrom(d, {r \in awaited : r.address.port = dest[d].port})

InsertRow(d) == InsertFrom(d, RowsFor(dest[d]))

InsertFails(d) ==
    /\ at[d] = "insert"
    /\ excused' = excused \cup {d}
    /\ Goto(d, "delete")
    /\ UNCHANGED <<control, awaited, where, dest, begun, logs, guessed>>

\* Fault: one row is deleted, not all with the address
DeleteRows_One(d) ==
    /\ at[d] = "delete"
    /\ awaited' = awaited \ (IF RowsFor(dest[d]) = {} THEN {}
                             ELSE {CHOOSE r \in RowsFor(dest[d]) : TRUE})
    /\ Goto(d, "known")
    /\ UNCHANGED <<control, where, dest, begun, logs, excused, guessed>>

DeleteRows(d) ==
    /\ at[d] = "delete"
    /\ awaited' = awaited \ RowsFor(dest[d])
    /\ Goto(d, "known")
    /\ UNCHANGED <<control, where, dest, begun, logs, excused, guessed>>

DeleteFails(d) ==
    /\ at[d] = "delete"
    /\ excused' = excused \cup {d}
    /\ Goto(d, "known")
    /\ UNCHANGED <<control, awaited, where, dest, begun, logs, guessed>>

\* The connection ends, or its handler is killed.
End(d) ==
    /\ at[d] \notin {"none", "gone"}
    /\ excused' = IF at[d] \in {"insert", "delete"} THEN excused \cup {d} ELSE excused
    /\ Goto(d, "gone")
    /\ UNCHANGED <<control, awaited, where, dest, begun, logs, guessed>>

Next ==
    \/ \E c \in Controls :
         \/ \E port \in Ports : Announce(c, port)
         \/ Command(c) \/ CommandFails(c)
    \/ \E d \in Transfers :
         \/ \E a \in Address : Open(d, a)
         \/ Recognise(d) \/ Identify(d) \/ Guess(d) \/ OtherSide(d)
         \/ InsertRow(d) \/ InsertFails(d) \/ DeleteRows(d) \/ DeleteFails(d)
         \/ End(d)

Spec == Init /\ [][Next]_vars

-----------------------------------------------------------------------------
LoggedBy(d) == {l \in logs : l.by = d}

\* The handler of the row's connection has come past the deletion that follows it.
Through(l) ==
    /\ l.by \notin excused
    /\ \/ at[l.by] \in {"known", "gone"}
       \/ l.first /\ begun[l.by] = 2

\* An announcement is used up by the data connection it was logged for: once the
\* handler has deleted the address it is not in the table again, so that neither
\* the other direction nor a later connection is logged under it.  Only handlers
\* that come between the two statements are (log_postgres.c:300, 308).
Consumed ==
    \A l \in logs :
      l.n # 0 /\ at[l.by] \in {"known", "gone"} /\ l.by \notin excused =>
        /\ \A r \in awaited : r.n # l.n
        /\ \A k \in LoggedBy(l.by) : k # l => k.n # l.n

\* A data connection is logged with its own announcement: one for the address
\* its client connected to.  The row of its first piece has none only when the
\* handler of another data connection was at the address too, when it was logged
\* under an uninitialised target, when the table was not asked, or when a
\* statement failed (proto_ident_truman.c:158, log_postgres.c:303).
CommandKnown ==
    \A l \in logs :
      /\ l.n # 0 => announced[l.n] = where[l.by]
      /\ l.n = 0 /\ l.first /\ l.by \notin excused \cup guessed /\ dest[l.by] = where[l.by] =>
           \E e \in Transfers \ {l.by} : dest[e] = dest[l.by] /\ begun[e] > 0

\* An insertion that is executed and stores no row meets an address that was
\* announced twice, and neither announcement was used up before by a data
\* connection whose handler came past its deletion: a transfer is lost from the
\* log only for announcements that wait at the same time (log_postgres.c:303).
LostOnDuplicate ==
    [][\A d \in Transfers :
         at[d] = "insert" /\ at'[d] = "delete" /\ logs' = logs /\ d \notin excused' =>
           \E n, m \in DOMAIN announced :
             /\ n # m /\ announced[n] = dest[d] /\ announced[m] = dest[d]
             /\ \A l \in logs : Through(l) => l.n \notin {n, m}]_vars
=============================================================================
