---------------------------- MODULE LineHandlers -----------------------------
(***************************************************************************)
(* The handlers of protocols that talk in lines, and of unknown ones: what *)
(* they make of the pieces in which read() returns the two streams of a    *)
(* connection.  IRC gets commands injected, SMTP recipients replaced, FTP  *)
(* and the unknown are passed on as they are, and all are logged.  None    *)
(* keeps a line that is cut from one piece to the next.                    *)
(*                                                                         *)
(* A line is two tokens: its head, the command with the name it names, and *)
(* the rest with the carriage return and the newline, each longer than two *)
(* characters but for these.  Pieces are cut between tokens, fit the       *)
(* buffers and hold no zero bytes.  What a row holds behind a message that *)
(* was copied without its zero byte is left out; what FTP makes of its     *)
(* lines beyond the log is in FtpPassive.                                  *)
(*                                                                         *)
(* Any statement may fail, for a quote in the text for instance.  Those    *)
(* for unknown connections always do: they name columns that UNKNOWN_LOGS  *)
(* as setupdb.sh makes it does not have.                                   *)
(***************************************************************************)
EXTENDS Integers, Sequences, FiniteSets, SequencesExt, FiniteSetsExt

CONSTANTS Sessions,   \* the protocols with pairs of streams to look at
          MaxFailures \* bound of the model on statements that may but need not fail

Sides == {"client", "server"}
Protocols == {"irc", "smtp", "ftp", "unknown"}

\* Lines of clients: JOIN, NICK, RCPT TO or none of them; lines of servers:
\* a reply of IRC, a line that begins like one, or anything else.
Kinds == {"join", "nick", "rcpt", "reply", "bad", "other"}
Token == [line : Nat, part : {"head", "end"}, kind : Kinds]

\* Lines of the TrumanBox: WHO, LIST, USERS and the local address
Own == [line : Nat, part : {"who", "list", "users", "local"}, kind : {"own"}]

ASSUME SessionsAssumption ==
    Sessions \subseteq [protocol : Protocols, client : Seq(Token), server : Seq(Token)]
ASSUME MaxFailuresAssumption == MaxFailures \in Nat

VARIABLES session,
          pos,        \* how much of each stream was read
          passed,     \* what was passed on of each stream
          rows,       \* the rows sent to the database, stored or not
          file,       \* the file of an IRC connection
          logged,     \* log_client_struct_initialized: the file has its row
          crashed,
          whole,      \* history: every piece was made of whole lines
          single      \* history: of one line each

lineVars == <<session, pos, passed, rows, file, logged, crashed, whole, single>>

Text == Seq(Token \cup Own)
LineRow == [tag : {"client", "server", "logfile"}, text : Text, stored : BOOLEAN]

LineTypeOK ==
    /\ session \in Sessions
    /\ pos \in [Sides -> Nat] /\ \A s \in Sides : pos[s] <= Len(session[s])
    /\ passed \in [Sides -> Text]
    /\ rows \in Seq(LineRow)
    /\ file \in Text
    /\ {logged, crashed, whole, single} \subseteq BOOLEAN

LineInit ==
    /\ session \in Sessions
    /\ pos = [s \in Sides |-> 0]
    /\ passed = [s \in Sides |-> <<>>]
    /\ rows = <<>>
    /\ file = <<>>
    /\ logged = FALSE
    /\ crashed = FALSE
    /\ whole = TRUE
    /\ single = TRUE

-----------------------------------------------------------------------------
\* Pieces

Heads(p, kind) == {i \in DOMAIN p : p[i].part = "head" /\ p[i].kind = kind}
Newlines(p) == {i \in DOMAIN p : p[i].part # "head"}

\* strtok: the lines of a piece, the last of which may be unfinished
Before(p, i) == Max({0} \cup {j \in Newlines(p) : j < i})
LineTo(p, i) ==
    IF i \in Newlines(p) \cup {Len(p)} THEN <<SubSeq(p, Before(p, i) + 1, i)>> ELSE <<>>
Lines(p) == FlattenSeq([i \in DOMAIN p |-> LineTo(p, i)])

WholeLines(p) == Newlines(p) # {} /\ Head(p).part = "head" /\ Last(p).part # "head"

Take(s, k) ==
    LET p == SubSeq(session[s], pos[s] + 1, pos[s] + k) IN
    /\ ~crashed
    /\ pos[s] + k <= Len(session[s])
    /\ pos' = [pos EXCEPT ![s] = pos[s] + k]
    /\ whole' = (whole /\ WholeLines(p))
    /\ single' = (single /\ WholeLines(p) /\ k = 2)
    /\ UNCHANGED session

-----------------------------------------------------------------------------
\* inject_commands

\* Fault: behind the last byte of the piece
Behind_LastByte(p, lines) == p \o lines

\* Written behind the last newline, over the beginning of a line cut there
Behind(p, lines) == SubSeq(p, 1, Max(Newlines(p))) \o lines

Who(n) == [line |-> n, part |-> "who", kind |-> "own"]
ListAndUsers == <<[line |-> 0, part |-> "list", kind |-> "own"],
                  [line |-> 0, part |-> "users", kind |-> "own"]>>

WithWho(p) ==
    LET joins == Heads(p, "join") IN
    IF joins = {} THEN p ELSE Behind(p, <<Who(p[Min(joins)].line)>>)

InjectCommands(p) ==
    LET q == WithWho(p) IN
    IF Heads(q, "nick") = {} THEN q ELSE Behind(q, ListAndUsers)

\* Without a newline the commands are written through a null pointer.
NoPlaceBehind(p) == Heads(p, "join") \cup Heads(p, "nick") # {} /\ Newlines(p) = {}

-----------------------------------------------------------------------------
\* ph_smtp_handle_payload_cts

LocalEmailAddress == [line |-> 0, part |-> "local", kind |-> "own"]

\* Fault: the address is put in front of the one of the client
ReplaceRecipient_Keeps(p) ==
    IF 1 \in Heads(p, "rcpt") THEN <<p[1], LocalEmailAddress>> \o Tail(p) ELSE p

\* Only a piece that begins with the command; its rest goes with the address.
ReplaceRecipient(p) ==
    IF 1 \in Heads(p, "rcpt") THEN <<p[1], LocalEmailAddress>> ELSE p

-----------------------------------------------------------------------------
\* handle_payload_cts and handle_payload_stc

Rewrite(p) ==
    CASE session.protocol = "irc" -> InjectCommands(p)
      [] session.protocol = "smtp" -> ReplaceRecipient(p)
      [] OTHER -> p

\* The rows sent for the texts, with every way the statements may end
RowsOf(tag, texts) ==
    {[i \in DOMAIN texts |-> [tag |-> tag, text |-> texts[i], stored |-> done[i]]] :
       done \in [DOMAIN texts -> IF session.protocol = "unknown" THEN {FALSE} ELSE BOOLEAN]}

\* SMTP cuts the last two characters from its row: they end a line, or are text, or
\* follow the piece in memory that is not initialised.
Cut(p) == IF Last(p).part = "head" THEN {p, Front(p)} ELSE {p}

\* Fault: SMTP logs what it has written over
ClientTexts_After(p) ==
    CASE session.protocol = "irc" -> {Lines(InjectCommands(p))}
      [] session.protocol = "ftp" -> {Lines(p)}
      [] session.protocol = "smtp" -> {<<ReplaceRecipient(p)>>}
      [] OTHER -> {<<p>>}

\* IRC logs the lines after its commands were injected, SMTP the piece before
\* the recipient was replaced.
ClientTexts(p) ==
    CASE session.protocol = "irc" -> {Lines(InjectCommands(p))}
      [] session.protocol = "ftp" -> {Lines(p)}
      [] session.protocol = "smtp" -> {<<q>> : q \in Cut(p)}
      [] OTHER -> {<<p>>}

\* A line that only begins like a reply has no row, and the row of one that
\* does not nothing of it.
ReplyTexts(l) ==
    CASE 1 \in Heads(l, "bad") -> <<>>
      [] 1 \in Heads(l, "reply") -> <<l>>
      [] OTHER -> <<<<>>>>

Replies(p) == FlattenSeq([i \in DOMAIN Lines(p) |-> ReplyTexts(Lines(p)[i])])

ServerTexts(p) ==
    CASE session.protocol = "irc" -> Replies(p)
      [] session.protocol = "unknown" -> <<p>>
      [] OTHER -> Lines(p)

\* Fault: the file is not marked as logged
LogFile_Forgets(p) ==
    IF session.protocol = "irc" THEN file' = file \o p /\ UNCHANGED logged
    ELSE UNCHANGED <<file, logged>>

\* The file of an IRC connection gets both directions, and one row, which is not
\* sent again when its statement fails.
LogFile(p) ==
    IF session.protocol = "irc" THEN file' = file \o p /\ logged' = TRUE
    ELSE UNCHANGED <<file, logged>>

FileRow == RowsOf("logfile", IF session.protocol = "irc" /\ ~logged THEN <<<<>>>> ELSE <<>>)

Log(tag, texts) ==
    /\ \E said \in RowsOf(tag, texts), last \in FileRow : rows' = rows \o said \o last
    /\ session.protocol # "unknown" =>
         Cardinality({i \in DOMAIN rows' : ~rows'[i].stored}) <= MaxFailures

ClientPiece(k) ==
    LET p == SubSeq(session.client, pos["client"] + 1, pos["client"] + k) IN
    /\ Take("client", k)
    /\ session.protocol = "irc" => ~NoPlaceBehind(p)
    /\ passed' = [passed EXCEPT !["client"] = @ \o Rewrite(p)]
    /\ \E texts \in ClientTexts(p) : Log("client", texts)
    /\ LogFile(Rewrite(p))
    /\ UNCHANGED crashed

ClientCrash(k) ==
    LET p == SubSeq(session.client, pos["client"] + 1, pos["client"] + k) IN
    /\ Take("client", k)
    /\ session.protocol = "irc" /\ NoPlaceBehind(p)
    /\ crashed' = TRUE
    /\ UNCHANGED <<passed, rows, file, logged>>

ServerPiece(k) ==
    LET p == SubSeq(session.server, pos["server"] + 1, pos["server"] + k) IN
    /\ Take("server", k)
    /\ passed' = [passed EXCEPT !["server"] = @ \o p]
    /\ Log("server", ServerTexts(p))
    /\ LogFile(p)
    /\ UNCHANGED crashed

LineNext ==
    \/ \E k \in 1 .. Len(session.client) : ClientPiece(k) \/ ClientCrash(k)
    \/ \E k \in 1 .. Len(session.server) : ServerPiece(k)

LineSpec == LineInit /\ [][LineNext]_lineVars

-----------------------------------------------------------------------------
Sent(s) == SubSeq(session[s], 1, pos[s])

\* What a line is meant to become
Meant(protocol, l) ==
    CASE protocol = "irc" /\ l[1].kind = "join" -> l \o <<Who(l[1].line)>>
      [] protocol = "irc" /\ l[1].kind = "nick" -> l \o ListAndUsers
      [] protocol = "smtp" /\ l[1].kind = "rcpt" -> <<l[1], LocalEmailAddress>>
      [] OTHER -> l

\* As long as every piece is one line, the service gets every line as it is
\* meant: WHO asked for every channel joined, LIST and USERS for every name,
\* and no recipient but the local address (irc.c:9-66, smtp.c:73-82).  With
\* more than a line in a piece the second recipient of a mail is let through,
\* and only the first channel is asked for.
AsMeant ==
    single =>
      /\ ~crashed
      /\ passed["client"] = FlattenSeq([i \in 1 .. pos["client"] \div 2 |->
                              Meant(session.protocol, SubSeq(session.client, 2 * i - 1, 2 * i))])

\* Of a text the ends of lines, and what is not the TrumanBox's
EndsOf(q) == FlattenSeq([i \in DOMAIN q |-> IF q[i].part = "end" THEN <<q[i]>> ELSE <<>>])
NotOwn(q) == FlattenSeq([i \in DOMAIN q |-> IF q[i].kind = "own" THEN <<>> ELSE <<q[i]>>])

\* However the stream is cut, the commands injected into IRC split no line and
\* lose no end of a line; all they can overwrite is the beginning of a line that
\* is cut behind it (irc.c:28-37, 49-59).
LinesKept ==
    LET out == passed["client"] IN
    session.protocol = "irc" /\ ~crashed =>
      /\ \A i \in DOMAIN out : out[i].kind = "own" => i > 1 /\ out[i - 1].part # "head"
      /\ EndsOf(out) = EndsOf(Sent("client"))
      /\ whole => NotOwn(out) = Sent("client")

Told(tag) == FlattenSeq([i \in DOMAIN rows |->
    IF rows[i].tag = tag /\ rows[i].stored THEN rows[i].text ELSE <<>>])
Executed(tag) == \A i \in DOMAIN rows : rows[i].tag = tag => rows[i].stored

\* However the streams are cut, as long as no statement for a side fails, its rows
\* put together are what the service got of an IRC client and what an FTP client
\* sent, and of the services of SMTP and FTP all lines (irc.c:207-246,
\* ftp.c:149-194).  Of an SMTP client they miss no end of a line, and nothing at all
\* while pieces are whole lines, so that the recipient a mail was meant for is in
\* the log; the beginning of a line that is cut they may miss (smtp.c:69-84).
RowsTell ==
    /\ Executed("client") =>
         CASE session.protocol = "irc" -> Told("client") = passed["client"]
           [] session.protocol = "smtp" ->
                /\ EndsOf(Told("client")) = EndsOf(Sent("client"))
                /\ whole => Told("client") = Sent("client")
           [] OTHER -> Told("client") = Sent("client")
    /\ Executed("server") /\ session.protocol # "irc" => Told("server") = passed["server"]

\* For the file of an IRC connection one row is sent, with its first piece,
\* whichever side writes to it first and however often both do; no other
\* connection has a file (irc.c:189-200, 249-262).
FileHasRow ==
    LET about == {i \in DOMAIN rows : rows[i].tag = "logfile"} IN
    /\ \A i, j \in about : i = j
    /\ about # {} <=> file # <<>>
=============================================================================
