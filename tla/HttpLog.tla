------------------------------- MODULE HttpLog --------------------------------
(***************************************************************************)
(* What the HTTP handler (http.c) stores of one connection: it sees the    *)
(* two byte streams in the pieces that read() returns, takes every piece   *)
(* it is not prepared for as the beginning of a header, collects bodies by *)
(* their Content-Length over several pieces, and keeps one row per request *)
(* in HTTP_LOGS.                                                           *)
(*                                                                         *)
(* A stream is a sequence of tokens, which stand for bytes: the first part *)
(* of a header, its last part with the empty line, and single units of the *)
(* body.  Every token carries the number of its message and the            *)
(* Content-Length that message declares, -1 for none or for one that atoi  *)
(* makes negative because it does not fit into an int.  Pieces are never   *)
(* cut inside the empty line, bodies do not contain one, and no body is 4  *)
(* GiB long.  What the handler makes of the text of a header, and the      *)
(* answers it invents when the service is offline, are left out.           *)
(***************************************************************************)
EXTENDS Integers, Sequences

CONSTANTS Streams     \* the pairs of streams to look at

None == -1
Sides == {"client", "server"}
Token == [msg : Nat, part : {"head", "end", "body"}, declared : Nat \cup {None}]

ASSUME StreamsAssumption == Streams \subseteq [Sides -> Seq(Token)]

\* A message has one empty line, and messages are numbered in their order.
ASSUME NumberingAssumption ==
    \A st \in Streams, s \in Sides : \A i, j \in 1 .. Len(st[s]) :
      i < j /\ st[s][i].part = "end" /\ st[s][j].part = "end" =>
        st[s][i].msg < st[s][j].msg

VARIABLES stream,     \* what each side sends
          pos,        \* how much of it was read
          multiple,   \* multiple_client_chunks, multiple_server_chunks
          current,    \* the message of the log structure made last, 0 for none
          length,     \* its sent_content_length, rcvd_content_length
          done,       \* its sent_content_done, rcvd_content_done
          stored,     \* the tokens in its body file
          rows,       \* the rows of HTTP_LOGS
          aligned,    \* history: no piece was cut in a way the code is not made for
          crashed

struct == <<multiple, current, length, done, stored>>
vars == <<stream, pos, struct, rows, aligned, crashed>>

Row == [request : Nat, response : Nat]

TypeOK ==
    /\ stream \in [Sides -> Seq(Token)]
    /\ pos \in [Sides -> Nat]
    /\ multiple \in [Sides -> BOOLEAN]
    /\ current \in [Sides -> Nat]
    /\ length \in [Sides -> Int]
    /\ done \in [Sides -> Nat]
    /\ stored \in [Sides -> Seq(Token)]
    /\ rows \in Seq(Row)
    /\ aligned \in [Sides -> BOOLEAN]
    /\ crashed \in BOOLEAN
    /\ \A s \in Sides : pos[s] <= Len(stream[s]) /\ length[s] >= None

Init ==
    /\ stream \in Streams
    /\ pos = [s \in Sides |-> 0]
    /\ multiple = [s \in Sides |-> FALSE]
    /\ current = [s \in Sides |-> 0]
    /\ length = [s \in Sides |-> 0]
    /\ done = [s \in Sides |-> 0]
    /\ stored = [s \in Sides |-> <<>>]
    /\ rows = <<>>
    /\ aligned = [s \in Sides |-> TRUE]
    /\ crashed = FALSE

-----------------------------------------------------------------------------
\* Pieces

\* The piece of k tokens that side s is read next
Piece(s, k) == SubSeq(stream[s], pos[s] + 1, pos[s] + k)

\* The empty line the handler finds is the first one in the piece.
HeaderEnds(p, e) ==
    /\ e \in 1 .. Len(p)
    /\ p[e].part = "end"
    /\ \A i \in 1 .. (e - 1) : p[i].part # "end"

HasHeader(p) == \E e \in 1 .. Len(p) : p[e].part = "end"

\* The Content-Length the handler finds: it is the declared one when the whole
\* header is in the piece, and may be in the part that is not otherwise.
Found(p, e) == {p[e].declared} \cup (IF e > 1 THEN {} ELSE {None})

\* A piece the handler is made for belongs to one message and holds all of its
\* header or nothing of it.
WellCut(p) ==
    /\ \A i \in 1 .. Len(p) : p[i].msg = p[1].msg
    /\ p[1].part # "end"
    /\ p[1].part = "head" => HasHeader(p)

Take(s, k) ==
    /\ ~crashed
    /\ pos[s] + k <= Len(stream[s])
    /\ pos' = [pos EXCEPT ![s] = pos[s] + k]
    /\ aligned' = [aligned EXCEPT ![s] = aligned[s] /\ WellCut(Piece(s, k))]
    /\ UNCHANGED stream

-----------------------------------------------------------------------------
\* ph_http_handle_payload_cts and ph_http_handle_payload_stc

\* Fault: a body that came complete with its header is waited for
Begin_Waits(s, p, e, declared) ==
    LET body == SubSeq(p, e + 1, Len(p)) IN
    /\ current' = [current EXCEPT ![s] = p[e].msg]
    /\ length' = [length EXCEPT ![s] = declared]
    /\ done' = [done EXCEPT ![s] = Len(body)]
    /\ stored' = [stored EXCEPT ![s] = IF declared = 0 THEN <<>> ELSE body]
    /\ multiple' = [multiple EXCEPT ![s] =
         \/ Len(body) <= declared /\ declared > 0
         \/ declared < 0 /\ (s = "client" => Len(body) > 0)]

\* A header: a new log structure is begun and the rest of the piece taken as
\* its body.  Where the code leaves length and done unset it will not read them:
\* more pieces are expected only after both were set.
Begin(s, p, e, declared) ==
    LET body == SubSeq(p, e + 1, Len(p)) IN
    /\ current' = [current EXCEPT ![s] = p[e].msg]
    /\ length' = [length EXCEPT ![s] = declared]
    /\ done' = [done EXCEPT ![s] = Len(body)]
    /\ stored' = [stored EXCEPT ![s] = IF declared = 0 THEN <<>> ELSE body]
    /\ multiple' = [multiple EXCEPT ![s] =
         \/ Len(body) < declared
         \/ declared < 0 /\ (s = "client" => Len(body) > 0)]

ClientHeader(k) ==
    LET p == Piece("client", k) IN
    /\ Take("client", k)
    /\ ~multiple["client"]
    /\ \E e \in 1 .. k : \E declared \in Found(p, e) :
         /\ HeaderEnds(p, e)
         /\ Begin("client", p, e, declared)
         /\ rows' = Append(rows, [request |-> p[e].msg, response |-> 0])
    /\ UNCHANGED crashed

\* The handler computes with NULL + 4.
ClientNoHeader(k) ==
    /\ Take("client", k)
    /\ ~multiple["client"]
    /\ ~HasHeader(Piece("client", k))
    /\ crashed' = TRUE
    /\ UNCHANGED <<struct, rows>>

\* Fault: only rows without a response are updated
ServerHeader_FirstOnly(k) ==
    LET p == Piece("server", k) IN
    /\ Take("server", k)
    /\ ~multiple["server"]
    /\ \E e \in 1 .. k : \E declared \in Found(p, e) :
         /\ HeaderEnds(p, e)
         /\ Begin("server", p, e, declared)
         /\ rows' = [i \in DOMAIN rows |-> IF rows[i].response = 0
                       THEN [rows[i] EXCEPT !.response = p[e].msg] ELSE rows[i]]
    /\ UNCHANGED crashed

\* The update names the connection's timestamp, which all its rows share.
ServerHeader(k) ==
    LET p == Piece("server", k) IN
    /\ Take("server", k)
    /\ ~multiple["server"]
    /\ \E e \in 1 .. k : \E declared \in Found(p, e) :
         /\ HeaderEnds(p, e)
         /\ Begin("server", p, e, declared)
         /\ rows' = [i \in DOMAIN rows |-> [rows[i] EXCEPT !.response = p[e].msg]]
    /\ UNCHANGED crashed

\* "header not ended": the piece is relayed and not logged.
ServerNoHeader(k) ==
    /\ Take("server", k)
    /\ ~multiple["server"]
    /\ ~HasHeader(Piece("server", k))
    /\ UNCHANGED <<struct, rows, crashed>>

\* Fault: the file is written anew for every piece
Collect_Overwrites(s, k) ==
    /\ Take(s, k)
    /\ multiple[s]
    /\ length[s] = None \/ done[s] + k < length[s]
    /\ stored' = [stored EXCEPT ![s] = Piece(s, k)]
    /\ done' = [done EXCEPT ![s] = done[s] + k]
    /\ UNCHANGED <<multiple, current, length, rows, crashed>>

\* A piece of the body that does not complete it.  Without a length that is
\* every piece: -1 is the largest u_int32_t, the comparison is made first.
Collect(s, k) ==
    /\ Take(s, k)
    /\ multiple[s]
    /\ length[s] = None \/ done[s] + k < length[s]
    /\ stored' = [stored EXCEPT ![s] = stored[s] \o Piece(s, k)]
    /\ done' = [done EXCEPT ![s] = done[s] + k]
    /\ UNCHANGED <<multiple, current, length, rows, crashed>>

\* Fault: multiple_*_chunks is not reset
Complete_StaysOn(s, k) ==
    /\ Take(s, k)
    /\ multiple[s]
    /\ length[s] # None /\ done[s] + k = length[s]
    /\ stored' = [stored EXCEPT ![s] = stored[s] \o Piece(s, k)]
    /\ done' = [done EXCEPT ![s] = done[s] + k]
    /\ UNCHANGED <<multiple, current, length, rows, crashed>>

Complete(s, k) ==
    /\ Take(s, k)
    /\ multiple[s]
    /\ length[s] # None /\ done[s] + k = length[s]
    /\ stored' = [stored EXCEPT ![s] = stored[s] \o Piece(s, k)]
    /\ done' = [done EXCEPT ![s] = done[s] + k]
    /\ multiple' = [multiple EXCEPT ![s] = FALSE]
    /\ UNCHANGED <<current, length, rows, crashed>>

\* "Malformed http request! Nothing to do": the piece runs over the length.
Overrun(s, k) ==
    /\ Take(s, k)
    /\ multiple[s]
    /\ length[s] # None /\ done[s] + k > length[s]
    /\ UNCHANGED <<struct, rows, crashed>>

Handle(k) ==
    \/ ClientHeader(k) \/ ClientNoHeader(k)
    \/ ServerHeader(k) \/ ServerNoHeader(k)
    \/ \E s \in Sides : Collect(s, k) \/ Complete(s, k) \/ Overrun(s, k)

Next == \E k \in 1 .. Len(stream["client"]) + Len(stream["server"]) : Handle(k)

Spec == Init /\ [][Next]_vars

-----------------------------------------------------------------------------
\* While more of a body of declared length is expected, it is short of it: some
\* next piece can complete it, and by equality, the only way out of the
\* collection (http.c:237, http.c:380).
NeverOverfull ==
    \A s \in Sides : multiple[s] /\ length[s] # None => done[s] < length[s]

\* The header that ends at i is followed by as much of a body as it declares, and
\* then by the header of another message or nothing.
DeclaresRight(s, i) ==
    LET last == i + stream[s][i].declared IN
    /\ last <= Len(stream[s])
    /\ \A j \in (i + 1) .. last :
         stream[s][j].part = "body" /\ stream[s][j].msg = stream[s][i].msg
    /\ last < Len(stream[s]) =>
         stream[s][last + 1].part = "head" /\ stream[s][last + 1].msg # stream[s][i].msg

\* Side s declares no length that is not the one of the body.
Truthful(s) ==
    \A i \in 1 .. Len(stream[s]) :
      stream[s][i].part = "end" /\ stream[s][i].declared # None => DeclaresRight(s, i)

\* What was read of the body of message m, whose header ends at i
BodyRead(s, m, i) ==
    /\ stream[s][i].part = "end" /\ stream[s][i].msg = m
    /\ \A j \in (i + 1) .. pos[s] : stream[s][j].part = "body" /\ stream[s][j].msg = m
    /\ stored[s] = SubSeq(stream[s], i + 1, pos[s])

\* The message the last token read belongs to is over.
AtEnd(s) ==
    pos[s] > 0 /\ (pos[s] = Len(stream[s]) \/ stream[s][pos[s] + 1].part = "head")

\* As long as the pieces are well cut and lengths are declared as they are, the
\* file of the last message holds exactly what was read of its body, which is all
\* that was read after its header, over all ways to cut two messages in one
\* connection, and at its end the handler is ready for the next header
\* (http.c:186-204, 228-246, 326-339, 369-390).
BodyStored ==
    \A s \in Sides :
      aligned[s] /\ Truthful(s) /\ current[s] # 0 /\ length[s] # None =>
        /\ \E i \in 1 .. pos[s] : BodyRead(s, current[s], i)
        /\ AtEnd(s) => ~multiple[s]

\* A response without a length takes everything up to the end of the
\* connection, whatever it is: nothing that was read after its header is
\* missing from its file, and nothing else is in it (http.c:205-218, 228-252).
RestStored ==
    multiple["server"] /\ length["server"] = None =>
      \E i \in 1 .. pos["server"] :
        /\ stream["server"][i] = [msg |-> current["server"], part |-> "end",
                                  declared |-> stream["server"][i].declared]
        /\ stored["server"] = SubSeq(stream["server"], i + 1, pos["server"])

\* The requests of one connection have a row each, in their order, but share
\* the response: every response replaces the ones logged for the requests
\* before, however the two streams interleave (log_postgres.c:230).
RowsShareResponse ==
    \A i, j \in DOMAIN rows : i < j =>
      /\ rows[i].request < rows[j].request
      /\ rows[j].response # 0 => rows[i].response = rows[j].response
=============================================================================
