------------------------------ MODULE HttpProofs ------------------------------
(***************************************************************************)
(* Proofs about the two halves of the HTTP handler: HttpLog for all        *)
(* streams, however they are cut, and HttpReplay for any number of         *)
(* handlers, sites and locations.                                          *)
(***************************************************************************)
EXTENDS HttpLog, HttpReplay, SequenceTheorems, TLAPS

\* TypeOK, by what an action does with the parts
InputOK ==
    /\ stream \in [Sides -> Seq(Token)]
    /\ pos \in [Sides -> Nat]
    /\ aligned \in [Sides -> BOOLEAN]
    /\ \A s \in Sides : pos[s] <= Len(stream[s])

StructOK ==
    /\ multiple \in [Sides -> BOOLEAN]
    /\ current \in [Sides -> Nat]
    /\ length \in [Sides -> Int]
    /\ done \in [Sides -> Nat]
    /\ stored \in [Sides -> Seq(Token)]
    /\ \A s \in Sides : length[s] >= None

RowsOK == rows \in Seq(Row)

IInv == InputOK /\ StructOK /\ RowsOK /\ crashed \in BOOLEAN /\ NeverOverfull

\* The parts are TypeOK.
LEMMA TypeOKParts == IInv => TypeOK
BY DEF IInv, TypeOK, InputOK, StructOK, RowsOK

-----------------------------------------------------------------------------
\* Pieces

\* A piece consists of tokens, as many as were read.
LEMMA PieceTokens ==
  ASSUME InputOK, NEW s \in Sides, NEW k \in Nat \ {0},
         pos[s] + k <= Len(stream[s])
  PROVE  Piece(s, k) \in Seq(Token) /\ Len(Piece(s, k)) = k
<1>1. stream[s] \in Seq(Token) /\ pos[s] \in Nat /\ pos[s] + k <= Len(stream[s])
  BY DEF InputOK
<1> DEFINE t == stream[s]
<1> DEFINE m == pos[s] + 1
<1> DEFINE n == pos[s] + k
<1>2. m \in Int /\ n \in Int /\ m <= n /\ n - m + 1 = k
  BY <1>1
<1>3. \A i \in m .. n : t[i] \in Token
  BY <1>1
<1>4. Piece(s, k) = SubSeq(t, m, n)
  BY DEF Piece
<1> HIDE DEF t, m, n
<1>5. SubSeq(t, m, n) \in Seq(Token) /\ Len(SubSeq(t, m, n)) = k
  BY <1>2, <1>3, SubSeqProperties
<1> QED BY <1>4, <1>5

\* What follows the header in a piece consists of tokens.
LEMMA BodyTokens ==
  ASSUME NEW p \in Seq(Token), NEW e \in 1 .. Len(p)
  PROVE  /\ SubSeq(p, e + 1, Len(p)) \in Seq(Token)
         /\ Len(SubSeq(p, e + 1, Len(p))) = Len(p) - e
<1>1. \A i \in (e + 1) .. Len(p) : p[i] \in Token
  OBVIOUS
<1>2. e + 1 \in Int /\ Len(p) \in Int
  OBVIOUS
<1>3. /\ SubSeq(p, e + 1, Len(p)) \in Seq(Token)
      /\ Len(SubSeq(p, e + 1, Len(p)))
           = IF e + 1 <= Len(p) THEN Len(p) - (e + 1) + 1 ELSE 0
  BY <1>1, <1>2, SubSeqProperties
<1> QED BY <1>2, <1>3

\* Reading moves on in the stream and stays in it.
LEMMA TakeInput ==
  ASSUME InputOK, NEW s \in Sides, NEW k \in Nat \ {0}, Take(s, k)
  PROVE  InputOK' /\ pos[s] + k <= Len(stream[s])
<1> USE DEF InputOK, Take
<1>1. stream' = stream
  OBVIOUS
<1>2. pos' \in [Sides -> Nat]
  OBVIOUS
<1>3. aligned' \in [Sides -> BOOLEAN]
  <2>1. (aligned[s] /\ WellCut(Piece(s, k))) \in BOOLEAN
    BY Zenon
  <2> QED BY <2>1, Zenon
<1>4. \A t \in Sides : pos'[t] <= Len(stream'[t])
  <2> SUFFICES ASSUME NEW t \in Sides PROVE pos'[t] <= Len(stream[t])
    BY <1>1
  <2>1. CASE t = s
    BY <2>1
  <2>2. CASE t # s
    BY <2>2
  <2> QED BY <2>1, <2>2
<1> QED BY <1>1, <1>2, <1>3, <1>4

-----------------------------------------------------------------------------
\* The log structures

\* A header leaves the structure complete, or short of a declared length.
LEMMA BeginStruct ==
  ASSUME StructOK, NeverOverfull, NEW s \in Sides, NEW p \in Seq(Token),
         NEW e \in 1 .. Len(p), NEW declared \in Found(p, e),
         Begin(s, p, e, declared)
  PROVE  StructOK' /\ NeverOverfull'
<1> DEFINE body == SubSeq(p, e + 1, Len(p))
<1>1. body \in Seq(Token) /\ Len(body) \in Nat
  BY BodyTokens
<1>2. p[e] \in Token
  OBVIOUS
<1>3. p[e].msg \in Nat /\ declared \in Nat \cup {None}
  BY <1>2 DEF Token, Found
<1>4. /\ current' = [current EXCEPT ![s] = p[e].msg]
      /\ length' = [length EXCEPT ![s] = declared]
      /\ done' = [done EXCEPT ![s] = Len(body)]
      /\ stored' = [stored EXCEPT ![s] = IF declared = 0 THEN <<>> ELSE body]
      /\ multiple' = [multiple EXCEPT ![s] =
           \/ Len(body) < declared
           \/ declared < 0 /\ (s = "client" => Len(body) > 0)]
  BY DEF Begin
<1> HIDE DEF body
<1>5. StructOK'
  <2>1. multiple' \in [Sides -> BOOLEAN]
    BY <1>4, Zenon DEF StructOK
  <2>2. current' \in [Sides -> Nat]
    BY <1>3, <1>4 DEF StructOK
  <2>3. length' \in [Sides -> Int]
    BY <1>3, <1>4 DEF StructOK, None
  <2>4. done' \in [Sides -> Nat]
    BY <1>1, <1>4 DEF StructOK
  <2>5. stored' \in [Sides -> Seq(Token)]
    BY <1>1, <1>4 DEF StructOK
  <2>6. \A t \in Sides : length'[t] >= None
    BY <1>3, <1>4 DEF StructOK, None
  <2> QED BY <2>1, <2>2, <2>3, <2>4, <2>5, <2>6 DEF StructOK
<1>6. NeverOverfull'
  <2> SUFFICES ASSUME NEW t \in Sides, multiple'[t], length'[t] # None
               PROVE  done'[t] < length'[t]
    BY DEF NeverOverfull
  <2>1. CASE t = s
    <3>1. length'[s] = declared /\ done'[s] = Len(body)
      BY <1>4 DEF StructOK
    <3>2. multiple'[s] = (\/ Len(body) < declared
                          \/ declared < 0 /\ (s = "client" => Len(body) > 0))
      BY <1>4, Zenon DEF StructOK
    <3>3. \/ Len(body) < declared
          \/ declared < 0
      BY <2>1, <3>2, Zenon
    <3> QED BY <1>3, <2>1, <3>1, <3>3 DEF None
  <2>2. CASE t # s
    <3>1. multiple'[t] = multiple[t] /\ length'[t] = length[t] /\ done'[t] = done[t]
      BY <1>4, <2>2, Zenon DEF StructOK
    <3> QED BY <3>1 DEF NeverOverfull
  <2> QED BY <2>1, <2>2
<1> QED BY <1>5, <1>6

\* A piece of the body leaves the structure short of a declared length.
LEMMA CollectStruct ==
  ASSUME InputOK, StructOK, NeverOverfull, NEW s \in Sides, NEW k \in Nat \ {0},
         Collect(s, k)
  PROVE  StructOK' /\ NeverOverfull'
<1>1. Piece(s, k) \in Seq(Token)
  BY PieceTokens, TakeInput DEF Collect
<1>2. /\ stored' = [stored EXCEPT ![s] = stored[s] \o Piece(s, k)]
      /\ done' = [done EXCEPT ![s] = done[s] + k]
      /\ multiple' = multiple /\ current' = current /\ length' = length
      /\ length[s] = None \/ done[s] + k < length[s]
  BY Zenon DEF Collect
<1>3. stored[s] \o Piece(s, k) \in Seq(Token)
  BY <1>1, ConcatProperties DEF StructOK
<1>4. StructOK'
  BY <1>2, <1>3 DEF StructOK
<1>5. NeverOverfull'
  <2> SUFFICES ASSUME NEW t \in Sides, multiple'[t], length'[t] # None
               PROVE  done'[t] < length'[t]
    BY DEF NeverOverfull
  <2> QED BY <1>2 DEF StructOK, NeverOverfull
<1> QED BY <1>4, <1>5

\* The piece that completes the body ends the collection.
LEMMA CompleteStruct ==
  ASSUME InputOK, StructOK, NeverOverfull, NEW s \in Sides, NEW k \in Nat \ {0},
         Complete(s, k)
  PROVE  StructOK' /\ NeverOverfull'
<1>1. Piece(s, k) \in Seq(Token)
  BY PieceTokens, TakeInput DEF Complete
<1>2. /\ stored' = [stored EXCEPT ![s] = stored[s] \o Piece(s, k)]
      /\ done' = [done EXCEPT ![s] = done[s] + k]
      /\ multiple' = [multiple EXCEPT ![s] = FALSE]
      /\ current' = current /\ length' = length
  BY Zenon DEF Complete
<1>3. stored[s] \o Piece(s, k) \in Seq(Token)
  BY <1>1, ConcatProperties DEF StructOK
<1>4. StructOK'
  BY <1>2, <1>3 DEF StructOK
<1>5. NeverOverfull'
  <2> SUFFICES ASSUME NEW t \in Sides, multiple'[t], length'[t] # None
               PROVE  done'[t] < length'[t]
    BY DEF NeverOverfull
  <2>1. t # s
    BY <1>2, Zenon DEF StructOK
  <2>2. multiple'[t] = multiple[t] /\ length'[t] = length[t] /\ done'[t] = done[t]
    BY <1>2, <2>1, Zenon DEF StructOK
  <2> QED BY <2>2 DEF NeverOverfull
<1> QED BY <1>4, <1>5

-----------------------------------------------------------------------------
\* The specification

\* The initial states satisfy the invariant.
LEMMA InitIInv == Init => IInv
<1> SUFFICES ASSUME Init PROVE IInv
  OBVIOUS
<1>1. stream \in [Sides -> Seq(Token)]
  BY StreamsAssumption DEF Init
<1>2. InputOK
  <2>1. \A s \in Sides : Len(stream[s]) \in Nat
    BY <1>1
  <2> QED BY <1>1, <2>1 DEF Init, InputOK
<1>3. StructOK
  BY DEF Init, StructOK, None
<1>4. NeverOverfull
  BY Zenon DEF Init, NeverOverfull
<1>5. rows = <<>>
  BY Zenon DEF Init
<1>6. crashed \in BOOLEAN
  BY Zenon DEF Init
<1> QED BY <1>2, <1>3, <1>4, <1>5, <1>6 DEF IInv, RowsOK

\* A header preserves it.
LEMMA ClientHeaderIInv ==
  ASSUME IInv, NEW k \in Nat \ {0}, ClientHeader(k)
  PROVE  IInv'
<1> DEFINE p == Piece("client", k)
<1>0. "client" \in Sides
  BY DEF Sides
<1>1. Take("client", k) /\ crashed' = crashed
  BY DEF ClientHeader
<1>2. InputOK' /\ p \in Seq(Token) /\ Len(p) = k
  BY <1>0, <1>1, TakeInput, PieceTokens DEF IInv
<1>3. PICK e \in 1 .. k : \E declared \in Found(p, e) :
        /\ Begin("client", p, e, declared)
        /\ rows' = Append(rows, [request |-> p[e].msg, response |-> 0])
  BY DEF ClientHeader
<1> HIDE DEF p
<1>4. StructOK' /\ NeverOverfull'
  BY <1>0, <1>2, <1>3, BeginStruct DEF IInv
<1>5. RowsOK'
  <2>1. p[e] \in Token
    BY <1>2
  <2>2. [request |-> p[e].msg, response |-> 0] \in Row
    BY <2>1 DEF Token, Row
  <2> QED BY <1>3, <2>2 DEF IInv, RowsOK
<1> QED BY <1>1, <1>2, <1>4, <1>5 DEF IInv

LEMMA ServerHeaderIInv ==
  ASSUME IInv, NEW k \in Nat \ {0}, ServerHeader(k)
  PROVE  IInv'
<1> DEFINE p == Piece("server", k)
<1>0. "server" \in Sides
  BY DEF Sides
<1>1. Take("server", k) /\ crashed' = crashed
  BY DEF ServerHeader
<1>2. InputOK' /\ p \in Seq(Token) /\ Len(p) = k
  BY <1>0, <1>1, TakeInput, PieceTokens DEF IInv
<1>3. PICK e \in 1 .. k : \E declared \in Found(p, e) :
        /\ Begin("server", p, e, declared)
        /\ rows' = [i \in DOMAIN rows |-> [rows[i] EXCEPT !.response = p[e].msg]]
  BY DEF ServerHeader
<1> HIDE DEF p
<1>4. StructOK' /\ NeverOverfull'
  BY <1>0, <1>2, <1>3, BeginStruct DEF IInv
<1>5. RowsOK'
  <2>1. p[e] \in Token
    BY <1>2
  <2>2. p[e].msg \in Nat
    BY <2>1 DEF Token
  <2>3. rows \in Seq(Row)
    BY DEF IInv, RowsOK
  <2>4. DOMAIN rows = 1 .. Len(rows) /\ Len(rows) \in Nat
    BY <2>3
  <2>5. \A i \in 1 .. Len(rows) : [rows[i] EXCEPT !.response = p[e].msg] \in Row
    <3> SUFFICES ASSUME NEW i \in 1 .. Len(rows)
                 PROVE  [rows[i] EXCEPT !.response = p[e].msg] \in Row
      OBVIOUS
    <3>1. rows[i] \in Row
      BY <2>3, <2>4
    <3> QED BY <2>2, <3>1, Zenon DEF Row
  <2>6. rows' \in [1 .. Len(rows) -> Row]
    BY <1>3, <2>4, <2>5
  <2> QED BY <2>4, <2>6 DEF RowsOK
<1> QED BY <1>1, <1>2, <1>4, <1>5 DEF IInv

\* Every step preserves the invariant.
LEMMA NextIInv == IInv /\ [Next]_vars => IInv'
<1> SUFFICES ASSUME IInv, [Next]_vars PROVE IInv'
  OBVIOUS
<1>1. CASE UNCHANGED vars
  BY <1>1, Zenon DEF vars, struct, IInv, InputOK, StructOK, RowsOK, NeverOverfull
<1>2. CASE Next
  <2>0. "client" \in Sides /\ "server" \in Sides
    BY DEF Sides
  <2>1. PICK k \in 1 .. (Len(stream["client"]) + Len(stream["server"])) : Handle(k)
    BY <1>2 DEF Next
  <2>2. k \in Nat \ {0}
    BY <2>0, <2>1 DEF IInv, InputOK
  <2>3. CASE ClientHeader(k)
    BY <2>2, <2>3, ClientHeaderIInv
  <2>4. CASE ServerHeader(k)
    BY <2>2, <2>4, ServerHeaderIInv
  <2>5. CASE ClientNoHeader(k)
    <3>1. InputOK'
      BY <2>0, <2>2, <2>5, TakeInput DEF IInv, ClientNoHeader
    <3>2. UNCHANGED <<struct, rows>> /\ crashed' = TRUE
      BY <2>5, Zenon DEF ClientNoHeader
    <3> QED BY <3>1, <3>2, Zenon DEF struct, IInv, StructOK, RowsOK, NeverOverfull
  <2>6. CASE ServerNoHeader(k)
    <3>1. InputOK'
      BY <2>0, <2>2, <2>6, TakeInput DEF IInv, ServerNoHeader
    <3>2. UNCHANGED <<struct, rows, crashed>>
      BY <2>6, Zenon DEF ServerNoHeader
    <3> QED BY <3>1, <3>2, Zenon DEF struct, IInv, StructOK, RowsOK, NeverOverfull
  <2>7. ASSUME NEW s \in Sides, Collect(s, k) PROVE IInv'
    <3>1. InputOK'
      BY <2>2, <2>7, TakeInput DEF IInv, Collect
    <3>2. StructOK' /\ NeverOverfull'
      BY <2>2, <2>7, CollectStruct DEF IInv
    <3>3. rows' = rows /\ crashed' = crashed
      BY <2>7 DEF Collect
    <3> QED BY <3>1, <3>2, <3>3 DEF IInv, RowsOK
  <2>8. ASSUME NEW s \in Sides, Complete(s, k) PROVE IInv'
    <3>1. InputOK'
      BY <2>2, <2>8, TakeInput DEF IInv, Complete
    <3>2. StructOK' /\ NeverOverfull'
      BY <2>2, <2>8, CompleteStruct DEF IInv
    <3>3. rows' = rows /\ crashed' = crashed
      BY <2>8 DEF Complete
    <3> QED BY <3>1, <3>2, <3>3 DEF IInv, RowsOK
  <2>9. ASSUME NEW s \in Sides, Overrun(s, k) PROVE IInv'
    <3>1. InputOK'
      BY <2>2, <2>9, TakeInput DEF IInv, Overrun
    <3>2. UNCHANGED <<struct, rows, crashed>>
      BY <2>9, Zenon DEF Overrun
    <3> QED BY <3>1, <3>2, Zenon DEF struct, IInv, StructOK, RowsOK, NeverOverfull
  <2> QED BY <2>1, <2>3, <2>4, <2>5, <2>6, <2>7, <2>8, <2>9, Zenon DEF Handle
<1> QED BY <1>1, <1>2

LEMMA AlwaysIInv == Spec => []IInv
BY InitIInv, NextIInv, PTL DEF Spec

\* Type correctness, for all streams
THEOREM TypeCorrect == Spec => []TypeOK
BY AlwaysIInv, TypeOKParts, PTL

\* However a stream is cut, a body that is waited for is short of its declared
\* length, so that the next piece can complete it.
THEOREM NeverTooFull == Spec => []NeverOverfull
<1>1. IInv => NeverOverfull
  BY DEF IInv
<1> QED BY <1>1, AlwaysIInv, PTL

-----------------------------------------------------------------------------
\* The response that is not declared

\* A piece is the part of the stream between the old position and the new one.
LEMMA PieceOfStream ==
  ASSUME InputOK, NEW s \in Sides, NEW k \in Nat \ {0}, Take(s, k)
  PROVE  /\ stream[s] \in Seq(Token) /\ pos[s] \in Nat
         /\ pos'[s] = pos[s] + k /\ pos'[s] <= Len(stream[s])
         /\ stream' = stream /\ \A t \in Sides : t # s => pos'[t] = pos[t]
         /\ Piece(s, k) = SubSeq(stream[s], pos[s] + 1, pos'[s])
         /\ Len(Piece(s, k)) = k
         /\ \A i \in 1 .. k : Piece(s, k)[i] = stream[s][pos[s] + i]
<1>1. /\ stream[s] \in Seq(Token) /\ pos[s] \in Nat
      /\ pos' = [pos EXCEPT ![s] = pos[s] + k] /\ pos \in [Sides -> Nat]
      /\ pos[s] + k <= Len(stream[s]) /\ stream' = stream
  BY DEF InputOK, Take
<1>2. pos'[s] = pos[s] + k /\ \A t \in Sides : t # s => pos'[t] = pos[t]
  BY <1>1
<1>3. \A i \in (pos[s] + 1) .. (pos[s] + k) : stream[s][i] \in Token
  BY <1>1
<1>4. /\ Len(Piece(s, k)) = k
      /\ \A i \in 1 .. k : Piece(s, k)[i] = stream[s][(pos[s] + 1) + i - 1]
  <2> DEFINE m == pos[s] + 1
  <2> DEFINE n == pos[s] + k
  <2>1. m \in Int /\ n \in Int /\ m <= n /\ n - m + 1 = k
    BY <1>1
  <2>2. Piece(s, k) = SubSeq(stream[s], m, n)
    BY DEF Piece
  <2>3. \A i \in m .. n : stream[s][i] \in Token
    BY <1>3
  <2>4. m = pos[s] + 1
    OBVIOUS
  <2> HIDE DEF m, n
  <2>5. /\ Len(SubSeq(stream[s], m, n)) = k
        /\ \A i \in 1 .. k : SubSeq(stream[s], m, n)[i] = stream[s][m + i - 1]
    BY <2>1, <2>3, SubSeqProperties
  <2> QED BY <2>2, <2>4, <2>5
<1>5. \A i \in 1 .. k : (pos[s] + 1) + i - 1 = pos[s] + i
  BY <1>1
<1> QED BY <1>1, <1>2, <1>4, <1>5 DEF Piece

\* The file goes from the header of the response to where the stream was read to.
StoredFrom(i) ==
    /\ i \in 1 .. pos["server"]
    /\ stream["server"][i].part = "end"
    /\ stream["server"][i].msg = current["server"]
    /\ stored["server"] = SubSeq(stream["server"], i + 1, pos["server"])

Rest == multiple["server"] /\ length["server"] = None => \E i \in Nat : StoredFrom(i)

\* Rest is RestStored.
LEMMA RestIsStored == IInv /\ Rest => RestStored
<1> SUFFICES ASSUME IInv, Rest, multiple["server"], length["server"] = None
             PROVE  \E i \in 1 .. pos["server"] :
                      /\ stream["server"][i] = [msg |-> current["server"], part |-> "end",
                                                declared |-> stream["server"][i].declared]
                      /\ stored["server"] = SubSeq(stream["server"], i + 1, pos["server"])
  BY DEF RestStored
<1>1. PICK i \in Nat : StoredFrom(i)
  BY DEF Rest
<1>2. i \in 1 .. Len(stream["server"]) /\ stream["server"] \in Seq(Token)
  BY <1>1 DEF StoredFrom, IInv, InputOK, Sides
<1>3. stream["server"][i] \in Token
  BY <1>2
<1>4. stream["server"][i] = [msg |-> stream["server"][i].msg,
                             part |-> stream["server"][i].part,
                             declared |-> stream["server"][i].declared]
  BY <1>3 DEF Token
<1> QED BY <1>1, <1>4 DEF StoredFrom

\* The end of a piece is a part of the stream.
LEMMA EndOfPiece ==
  ASSUME NEW t \in Seq(Token), NEW b \in Nat, NEW k \in Nat \ {0}, b + k <= Len(t),
         NEW e \in 1 .. k
  PROVE  SubSeq(SubSeq(t, b + 1, b + k), e + 1, k) = SubSeq(t, b + e + 1, b + k)
<1>1. CASE e = k
  <2>1. SubSeq(SubSeq(t, b + 1, b + k), e + 1, k) = <<>>
    BY <1>1, SubSeqEmpty
  <2>2. SubSeq(t, b + e + 1, b + k) = <<>>
    BY <1>1, SubSeqEmpty
  <2> QED BY <2>1, <2>2
<1>2. CASE e < k
  <2>1. b + 1 \in 1 .. Len(t) /\ b + k \in 1 .. Len(t)
    OBVIOUS
  <2>2. e + 1 \in 1 .. (b + k) - (b + 1) + 1 /\ k \in 1 .. (b + k) - (b + 1) + 1
    BY <1>2
  <2>3. SubSeq(SubSeq(t, b + 1, b + k), e + 1, k)
          = SubSeq(t, (b + 1) + (e + 1) - 1, (b + 1) + k - 1)
    BY <2>1, <2>2, SubSeqOfSubSeq
  <2>4. (b + 1) + (e + 1) - 1 = b + e + 1 /\ (b + 1) + k - 1 = b + k
    OBVIOUS
  <2> QED BY <2>3, <2>4
<1> QED BY <1>1, <1>2

\* What comes with the header is the first part of the file.
LEMMA BeginRest ==
  ASSUME IInv, NEW k \in Nat \ {0}, ServerHeader(k)
  PROVE  Rest'
<1> DEFINE p == Piece("server", k)
<1>0. "server" \in Sides /\ InputOK /\ StructOK
  BY DEF Sides, IInv
<1>1. Take("server", k)
  BY DEF ServerHeader
<1>2. PICK e \in 1 .. k : \E declared \in Found(p, e) :
        HeaderEnds(p, e) /\ Begin("server", p, e, declared)
  BY DEF ServerHeader
<1>3. PICK declared \in Found(p, e) :
        HeaderEnds(p, e) /\ Begin("server", p, e, declared)
  BY <1>2
<1>4. /\ stream["server"] \in Seq(Token) /\ pos["server"] \in Nat
      /\ pos'["server"] = pos["server"] + k /\ pos'["server"] <= Len(stream["server"])
      /\ stream' = stream
      /\ p = SubSeq(stream["server"], pos["server"] + 1, pos["server"] + k)
      /\ Len(p) = k /\ \A i \in 1 .. k : p[i] = stream["server"][pos["server"] + i]
  BY <1>0, <1>1, PieceOfStream
<1> HIDE DEF p
<1>5. p[e].part = "end" /\ p[e] = stream["server"][pos["server"] + e]
  BY <1>3, <1>4 DEF HeaderEnds
<1>6. /\ length' = [length EXCEPT !["server"] = declared]
      /\ current' = [current EXCEPT !["server"] = p[e].msg]
      /\ stored' = [stored EXCEPT !["server"] =
                      IF declared = 0 THEN <<>> ELSE SubSeq(p, e + 1, Len(p))]
  BY <1>3 DEF Begin
<1>7. /\ length'["server"] = declared /\ current'["server"] = p[e].msg
      /\ stored'["server"] = IF declared = 0 THEN <<>> ELSE SubSeq(p, e + 1, Len(p))
  BY <1>0, <1>6, Zenon DEF StructOK
<1>8. pos["server"] \in Nat /\ pos'["server"] = pos["server"] + k /\ Len(p) = k
  BY <1>4, Zenon
<1>9. stream["server"] \in Seq(Token) /\ pos["server"] + k <= Len(stream["server"])
  BY <1>4, <1>8, Zenon
<1>10. PICK x \in Nat : x = pos["server"] + e
  BY <1>8
<1> SUFFICES ASSUME length'["server"] = None PROVE StoredFrom(x)'
  BY <1>10 DEF Rest
<1>11. stored'["server"] = SubSeq(p, e + 1, k)
  <2>1. declared # 0
    BY <1>7 DEF None
  <2> QED BY <1>7, <1>8, <2>1, Zenon
<1>12. SubSeq(p, e + 1, k) = SubSeq(stream["server"], x + 1, pos'["server"])
  <2>1. SubSeq(SubSeq(stream["server"], pos["server"] + 1, pos["server"] + k), e + 1, k)
          = SubSeq(stream["server"], pos["server"] + e + 1, pos["server"] + k)
    <3>1. pos["server"] \in Nat
      BY <1>8, Zenon
    <3> QED BY <1>9, <3>1, EndOfPiece, Zenon
  <2> QED BY <1>4, <1>8, <1>10, <2>1, Zenon
<1>13. x \in 1 .. pos'["server"]
  BY <1>8, <1>10
<1> QED BY <1>4, <1>5, <1>7, <1>10, <1>11, <1>12, <1>13, Zenon DEF StoredFrom

\* A later piece is added to the file.
LEMMA CollectRest ==
  ASSUME IInv, Rest, NEW k \in Nat \ {0}, Collect("server", k)
  PROVE  Rest'
<1>0. "server" \in Sides /\ InputOK
  BY DEF Sides, IInv
<1>1. Take("server", k) /\ UNCHANGED <<multiple, current, length>>
      /\ stored' = [stored EXCEPT !["server"] = stored["server"] \o Piece("server", k)]
  BY DEF Collect
<1> SUFFICES ASSUME multiple["server"], length["server"] = None
             PROVE  \E i \in Nat : StoredFrom(i)'
  BY <1>1 DEF Rest
<1>2. PICK i \in Nat : StoredFrom(i)
  BY DEF Rest
<1>3. /\ stream["server"] \in Seq(Token) /\ pos["server"] \in Nat
      /\ pos'["server"] = pos["server"] + k /\ pos'["server"] <= Len(stream["server"])
      /\ stream' = stream
      /\ Piece("server", k) = SubSeq(stream["server"], pos["server"] + 1, pos'["server"])
  BY <1>0, <1>1, PieceOfStream
<1>4. stored'["server"] = stored["server"] \o Piece("server", k)
  BY <1>0, <1>1 DEF IInv, StructOK
<1>5. SubSeq(stream["server"], i + 1, pos["server"])
        \o SubSeq(stream["server"], pos["server"] + 1, pos'["server"])
      = SubSeq(stream["server"], i + 1, pos'["server"])
  <2> DEFINE t == stream["server"]
  <2> DEFINE b == pos["server"]
  <2> DEFINE c == pos'["server"]
  <2>1. /\ t \in Seq(Token) /\ b \in Nat /\ c \in Nat /\ b <= c /\ c <= Len(t)
        /\ i \in 1 .. b
    BY <1>2, <1>3 DEF StoredFrom
  <2> HIDE DEF t, b, c
  <2>2. /\ i + 1 \in 1 .. Len(t) + 1 /\ b \in (i + 1) - 1 .. Len(t)
        /\ c \in b .. Len(t)
    BY <2>1
  <2>3. SubSeq(t, i + 1, b) \o SubSeq(t, b + 1, c) = SubSeq(t, i + 1, c)
    BY <2>1, <2>2, ConcatAdjacentSubSeq
  <2> QED BY <2>3 DEF t, b, c
<1>6. i \in 1 .. pos'["server"] /\ current' = current
  BY <1>1, <1>2, <1>3 DEF StoredFrom
<1>7. StoredFrom(i)'
  BY <1>2, <1>3, <1>4, <1>5, <1>6, Zenon DEF StoredFrom
<1> QED BY <1>7

\* The server's structure is touched by no other step.
LEMMA RestKept ==
  ASSUME Rest, UNCHANGED <<stream, struct>>, pos'["server"] = pos["server"]
  PROVE  Rest'
BY Zenon DEF Rest, StoredFrom, struct

LEMMA NextRest == IInv /\ Rest /\ [Next]_vars => Rest'
<1> SUFFICES ASSUME IInv, Rest, [Next]_vars PROVE Rest'
  OBVIOUS
<1>1. CASE UNCHANGED vars
  BY <1>1, RestKept DEF vars
<1>2. CASE Next
  <2>0. "client" \in Sides /\ "server" \in Sides /\ "client" # "server" /\ InputOK
    BY DEF Sides, IInv
  <2>1. PICK k \in 1 .. (Len(stream["client"]) + Len(stream["server"])) : Handle(k)
    BY <1>2 DEF Next
  <2>2. k \in Nat \ {0}
    BY <2>0, <2>1 DEF InputOK
  <2>3. CASE ServerHeader(k)
    BY <2>2, <2>3, BeginRest
  <2>4. CASE ServerNoHeader(k) \/ Overrun("server", k)
    <3>1. Take("server", k) /\ UNCHANGED <<struct, rows, crashed>>
      BY <2>4, Zenon DEF ServerNoHeader, Overrun
    <3>2. pos'["server"] = pos["server"] + k /\ stream' = stream
      BY <2>0, <2>2, <3>1, PieceOfStream
    <3>3. CASE multiple["server"] /\ length["server"] = None
      <4>1. ServerNoHeader(k) => ~multiple["server"]
        BY DEF ServerNoHeader
      <4>2. Overrun("server", k) => length["server"] # None
        BY DEF Overrun
      <4> QED BY <2>4, <3>3, <4>1, <4>2
    <3>4. CASE ~(multiple["server"] /\ length["server"] = None)
      BY <3>1, <3>4, Zenon DEF Rest, struct
    <3> QED BY <3>3, <3>4
  <2>5. CASE Collect("server", k)
    BY <2>2, <2>5, CollectRest
  <2>6. CASE Complete("server", k)
    <3>1. multiple'["server"] = FALSE
      BY <2>0, <2>6, Zenon DEF Complete, IInv, StructOK
    <3> QED BY <3>1 DEF Rest
  <2>7. CASE ClientHeader(k) \/ ClientNoHeader(k) \/ Collect("client", k)
             \/ Complete("client", k) \/ Overrun("client", k)
    <3>1. Take("client", k)
      BY <2>7 DEF ClientHeader, ClientNoHeader, Collect, Complete, Overrun
    <3>2. stream' = stream /\ pos'["server"] = pos["server"]
      BY <2>0, <2>2, <3>1, PieceOfStream
    <3>3. /\ multiple'["server"] = multiple["server"]
          /\ current'["server"] = current["server"]
          /\ length'["server"] = length["server"]
          /\ stored'["server"] = stored["server"]
      BY <2>0, <2>7, Zenon DEF ClientHeader, ClientNoHeader, Collect, Complete, Overrun,
                               Begin, struct, IInv, StructOK
    <3> QED BY <3>2, <3>3, Zenon DEF Rest, StoredFrom
  <2> QED BY <2>1, <2>3, <2>4, <2>5, <2>6, <2>7, Zenon DEF Handle, Sides
<1> QED BY <1>1, <1>2

\* However the two streams are cut and interleave, a response without a length is
\* stored from the end of its header on (http.c:205-218, 228-252).
THEOREM RestIsKept == Spec => []RestStored
<1>1. Init => Rest
  BY Zenon DEF Init, Rest, Sides
<1> QED BY <1>1, AlwaysIInv, NextRest, RestIsStored, PTL DEF Spec

-----------------------------------------------------------------------------
\* Bodies of declared length

\* The body of the last message is filed up to where the stream was read to, and
\* waited for as long as it is short of its length.
Filed(s, i) ==
    /\ i \in 1 .. pos[s]
    /\ BodyRead(s, current[s], i)
    /\ stream[s][i].declared = length[s]
    /\ done[s] = pos[s] - i
    /\ done[s] <= length[s]
    /\ multiple[s] <=> done[s] < length[s]

Collected(s) ==
    aligned[s] /\ Truthful(s) /\ current[s] # 0 /\ length[s] # None =>
      \E i \in Nat : Filed(s, i)

Bodies == \A s \in Sides : Collected(s)

\* What a truthful side sends after a header
LEMMA AfterHeader ==
  ASSUME InputOK, NEW s \in Sides, Truthful(s), NEW i \in 1 .. Len(stream[s]),
         stream[s][i].part = "end", stream[s][i].declared # None
  PROVE  /\ stream[s][i].declared \in Nat
         /\ i + stream[s][i].declared <= Len(stream[s])
         /\ \A j \in (i + 1) .. (i + stream[s][i].declared) :
              stream[s][j].part = "body" /\ stream[s][j].msg = stream[s][i].msg
         /\ i + stream[s][i].declared < Len(stream[s]) =>
              /\ stream[s][i + stream[s][i].declared + 1].part = "head"
              /\ stream[s][i + stream[s][i].declared + 1].msg # stream[s][i].msg
<1>1. stream[s] \in Seq(Token)
  BY DEF InputOK
<1>2. stream[s][i] \in Token
  BY <1>1
<1>3. stream[s][i].declared \in Nat
  BY <1>2 DEF Token
<1>4. DeclaresRight(s, i)
  BY DEF Truthful
<1> QED BY <1>3, <1>4 DEF DeclaresRight

\* Whether a side is truthful does not change.
LEMMA TruthfulStays ==
  ASSUME NEW s \in Sides, stream' = stream
  PROVE  Truthful(s)' <=> Truthful(s)
<1>1. \A i : DeclaresRight(s, i)' <=> DeclaresRight(s, i)
  BY DEF DeclaresRight
<1> QED BY <1>1 DEF Truthful

\* A file is what it was when its side is not touched.
LEMMA FiledStays ==
  ASSUME NEW s \in Sides, NEW i \in Nat, Filed(s, i), stream' = stream,
         pos'[s] = pos[s], multiple'[s] = multiple[s], current'[s] = current[s],
         length'[s] = length[s], done'[s] = done[s], stored'[s] = stored[s]
  PROVE  Filed(s, i)'
<1>1. BodyRead(s, current[s], i)'
  BY DEF Filed, BodyRead
<1>2. multiple'[s] <=> done'[s] < length'[s]
  BY Zenon DEF Filed
<1>3. /\ i \in 1 .. pos'[s] /\ stream'[s][i].declared = length'[s]
      /\ done'[s] = pos'[s] - i /\ done'[s] <= length'[s]
  BY DEF Filed
<1> QED BY <1>1, <1>2, <1>3, Zenon DEF Filed

\* Bodies is BodyStored: at the end of a message its body is complete.
LEMMA BodiesAreStored == IInv /\ Bodies => BodyStored
<1> SUFFICES ASSUME IInv, Bodies, NEW s \in Sides,
                    aligned[s] /\ Truthful(s) /\ current[s] # 0 /\ length[s] # None
             PROVE  /\ \E i \in 1 .. pos[s] : BodyRead(s, current[s], i)
                    /\ AtEnd(s) => ~multiple[s]
  BY DEF BodyStored
<1>1. PICK i \in Nat : Filed(s, i)
  BY DEF Bodies, Collected
<1>2. \E x \in 1 .. pos[s] : BodyRead(s, current[s], x)
  BY <1>1 DEF Filed
<1>3. ASSUME AtEnd(s), multiple[s] PROVE FALSE
  <2>1. /\ i \in 1 .. pos[s] /\ pos[s] \in Nat /\ pos[s] <= Len(stream[s])
        /\ stream[s][i].part = "end" /\ stream[s][i].declared = length[s]
        /\ pos[s] - i < length[s] /\ length[s] # None
    BY <1>1, <1>3 DEF Filed, BodyRead, IInv, InputOK
  <2>2. i \in 1 .. Len(stream[s]) /\ InputOK
    BY <2>1 DEF IInv, InputOK
  <2>3. /\ length[s] \in Nat
        /\ i + length[s] <= Len(stream[s])
        /\ \A j \in (i + 1) .. (i + length[s]) : stream[s][j].part = "body"
    BY <2>1, <2>2, AfterHeader
  <2>4. pos[s] + 1 \in (i + 1) .. (i + length[s]) /\ pos[s] < Len(stream[s])
    BY <2>1, <2>2, <2>3
  <2>5. stream[s][pos[s] + 1].part = "body"
    BY <2>3, <2>4
  <2> QED BY <1>3, <2>4, <2>5 DEF AtEnd
<1> QED BY <1>2, <1>3

\* A header that comes whole begins a file with what follows it in the piece.
LEMMA BeginBody ==
  ASSUME IInv, NEW s \in Sides, NEW k \in Nat \ {0}, Take(s, k),
         NEW e \in 1 .. k, HeaderEnds(Piece(s, k), e),
         NEW declared \in Found(Piece(s, k), e), Begin(s, Piece(s, k), e, declared)
  PROVE  Collected(s)'
<1> DEFINE p == Piece(s, k)
<1> DEFINE t == stream[s]
<1>1. InputOK /\ StructOK
  BY DEF IInv
<1>2. /\ t \in Seq(Token) /\ pos[s] \in Nat
      /\ pos'[s] = pos[s] + k /\ pos'[s] <= Len(t)
      /\ stream' = stream
      /\ p = SubSeq(t, pos[s] + 1, pos[s] + k)
      /\ Len(p) = k /\ \A i \in 1 .. k : p[i] = t[pos[s] + i]
  BY <1>1, PieceOfStream
<1>3. aligned'[s] = (aligned[s] /\ WellCut(p))
  BY <1>1, Zenon DEF Take, InputOK
<1>4. p[e].part = "end"
  BY DEF HeaderEnds
<1>5. /\ current'[s] = p[e].msg /\ length'[s] = declared
      /\ done'[s] = Len(SubSeq(p, e + 1, Len(p)))
      /\ stored'[s] = IF declared = 0 THEN <<>> ELSE SubSeq(p, e + 1, Len(p))
      /\ multiple'[s] = \/ Len(SubSeq(p, e + 1, Len(p))) < declared
                        \/ declared < 0 /\ (s = "client" => Len(SubSeq(p, e + 1, Len(p))) > 0)
  BY <1>1, Zenon DEF Begin, StructOK
<1>0. /\ pos[s] \in Nat /\ Len(t) \in Nat /\ pos[s] + k <= Len(t)
      /\ pos'[s] = pos[s] + k /\ pos'[s] \in Nat
  <2>1. pos[s] \in Nat /\ pos'[s] = pos[s] + k /\ pos'[s] <= Len(t) /\ t \in Seq(Token)
    BY <1>2, Zenon
  <2> HIDE DEF t
  <2> QED BY <2>1
<1>6. SubSeq(p, e + 1, k) = SubSeq(t, pos[s] + e + 1, pos[s] + k)
  <2> HIDE DEF t
  <2>1. SubSeq(SubSeq(t, pos[s] + 1, pos[s] + k), e + 1, k)
          = SubSeq(t, pos[s] + e + 1, pos[s] + k)
    BY <1>0, <1>2, EndOfPiece
  <2> QED BY <1>2, <2>1, Zenon
<1>7. Len(SubSeq(p, e + 1, k)) = k - e
  <2>1. p \in Seq(Token)
    BY <1>1, <1>2, PieceTokens
  <2>2. Len(SubSeq(p, e + 1, Len(p))) = Len(p) - e
    BY <1>2, <2>1, BodyTokens
  <2> QED BY <1>2, <2>2
<1>8. PICK x \in Nat : x = pos[s] + e
  BY <1>0
<1> HIDE DEF p, t
<1>9. p[e] = t[x] /\ x \in 1 .. pos'[s] /\ x \in 1 .. Len(t)
  <2>1. p[e] = t[pos[s] + e]
    BY <1>2, Zenon
  <2> QED BY <1>0, <1>8, <2>1
<1> SUFFICES ASSUME aligned'[s], Truthful(s)', current'[s] # 0, length'[s] # None
             PROVE  Filed(s, x)'
  BY DEF Collected
<1>10. Truthful(s) /\ WellCut(p)
  BY <1>2, <1>3, TruthfulStays, Zenon
<1>11. declared = t[x].declared /\ declared # None
  <2>1. p[1].part # "end"
    BY <1>10 DEF WellCut
  <2>2. e > 1
    BY <1>4, <2>1
  <2> QED BY <1>5, <1>9, <2>2 DEF Found, p
<1>12. /\ declared \in Nat /\ x + declared <= Len(t)
       /\ \A j \in (x + 1) .. (x + declared) :
            t[j].part = "body" /\ t[j].msg = t[x].msg
       /\ x + declared < Len(t) => t[x + declared + 1].msg # t[x].msg
  BY <1>1, <1>4, <1>9, <1>10, <1>11, AfterHeader DEF t
<1>13. k - e <= declared
  <2>0. declared \in Nat
    BY <1>12, Zenon
  <2> SUFFICES ASSUME k - e > declared PROVE FALSE
    BY <2>0
  <2>1. e + declared + 1 \in 1 .. k /\ x + declared < Len(t)
    BY <1>0, <1>8, <2>0
  <2>2. p[e + declared + 1] = t[pos[s] + (e + declared + 1)]
    BY <1>2, <2>1, Zenon
  <2>3. pos[s] + (e + declared + 1) = x + declared + 1
    <3>1. pos[s] \in Nat
      BY <1>0, Zenon
    <3> QED BY <1>8, <2>0, <3>1
  <2>4. p[e + declared + 1].msg = p[1].msg /\ p[e].msg = p[1].msg
    BY <1>2, <1>10, <2>1, Zenon DEF WellCut
  <2> QED BY <1>9, <1>12, <2>1, <2>2, <2>3, <2>4
<1>14. \A j \in (x + 1) .. pos'[s] : t[j].part = "body" /\ t[j].msg = t[x].msg
  <2>1. (x + 1) .. pos'[s] \subseteq (x + 1) .. (x + declared)
    <3>0. declared \in Nat
      BY <1>12, Zenon
    <3>1. pos'[s] <= x + declared
      BY <1>0, <1>8, <1>13, <3>0
    <3> QED BY <1>0, <1>12, <3>1
  <2> QED BY <1>12, <2>1
<1>15. stored'[s] = SubSeq(t, x + 1, pos'[s])
  <2>1. pos[s] + e + 1 = x + 1 /\ pos[s] + k = pos'[s]
    BY <1>0, <1>8
  <2>2. CASE declared = 0
    <3>1. stored'[s] = <<>>
      BY <1>5, <2>2
    <3>2. x + 1 > pos'[s] /\ x + 1 \in Int /\ pos'[s] \in Int
      BY <1>0, <1>8, <1>13, <2>2
    <3>3. SubSeq(t, x + 1, pos'[s]) = <<>>
      BY <3>2, SubSeqEmpty
    <3> QED BY <3>1, <3>3
  <2>3. CASE declared # 0
    BY <1>2, <1>5, <1>6, <2>1, <2>3, Zenon
  <2> QED BY <2>2, <2>3
<1>16. /\ done'[s] = k - e /\ k - e = pos'[s] - x
       /\ multiple'[s] <=> k - e < declared
  <2>1. done'[s] = k - e
    BY <1>2, <1>5, <1>7, Zenon
  <2>2. k - e = pos'[s] - x
    BY <1>0, <1>8
  <2>3. ~(declared < 0)
    <3>1. declared \in Nat
      BY <1>12, Zenon
    <3> QED BY <3>1
  <2>4. multiple'[s] <=> k - e < declared
    <3>1. Len(SubSeq(p, e + 1, Len(p))) = k - e
      BY <1>2, <1>7, Zenon
    <3>2. multiple'[s] = \/ k - e < declared
                         \/ declared < 0 /\ (s = "client" => k - e > 0)
      BY <1>5, <3>1, Zenon
    <3> QED BY <2>3, <3>2, Zenon
  <2> QED BY <2>1, <2>2, <2>4
<1>17. BodyRead(s, current[s], x)'
  <2>1. t' = t /\ t[x].part = "end" /\ current'[s] = t[x].msg
    BY <1>2, <1>4, <1>5, <1>9, Zenon DEF t
  <2> QED BY <1>14, <1>15, <2>1, Zenon DEF BodyRead, t
<1>18. done'[s] = pos'[s] - x /\ done'[s] <= length'[s]
  <2>1. done'[s] = k - e /\ k - e = pos'[s] - x /\ length'[s] = declared
    BY <1>5, <1>16, Zenon
  <2> QED BY <1>13, <2>1
<1>19. multiple'[s] <=> done'[s] < length'[s]
  BY <1>5, <1>16, Zenon
<1>20. stream'[s][x].declared = length'[s]
  BY <1>2, <1>5, <1>11 DEF t
<1> QED BY <1>9, <1>17, <1>18, <1>19, <1>20, Zenon DEF Filed

\* A piece of a body that is waited for, and does not run over its length
LEMMA CollectBody ==
  ASSUME IInv, NEW s \in Sides, Collected(s), NEW k \in Nat \ {0},
         Collect(s, k) \/ Complete(s, k)
  PROVE  Collected(s)'
<1> DEFINE t == stream[s]
<1>1. InputOK /\ StructOK
  BY DEF IInv
<1>2. /\ Take(s, k) /\ multiple[s] /\ current' = current /\ length' = length
      /\ stored' = [stored EXCEPT ![s] = stored[s] \o Piece(s, k)]
      /\ done' = [done EXCEPT ![s] = done[s] + k]
  BY Zenon DEF Collect, Complete
<1>3. /\ t \in Seq(Token) /\ pos[s] \in Nat
      /\ pos'[s] = pos[s] + k /\ pos'[s] <= Len(t)
      /\ stream' = stream
      /\ Piece(s, k) = SubSeq(t, pos[s] + 1, pos'[s])
  BY <1>1, <1>2, PieceOfStream
<1>4. stored'[s] = stored[s] \o Piece(s, k) /\ done'[s] = done[s] + k
  BY <1>1, <1>2, Zenon DEF StructOK
<1>5. aligned'[s] => aligned[s]
  BY <1>1, <1>2, Zenon DEF Take, InputOK
<1>6. /\ length[s] # None => done[s] + k <= length[s]
      /\ length[s] # None => (multiple'[s] <=> done[s] + k < length[s])
  <2>1. done[s] + k \in Int /\ length[s] \in Int
    BY <1>1 DEF StructOK
  <2>2. CASE Collect(s, k)
    <3>1. multiple'[s] /\ (length[s] = None \/ done[s] + k < length[s])
      BY <1>2, <2>2, Zenon DEF Collect
    <3> QED BY <2>1, <3>1
  <2>3. CASE Complete(s, k)
    <3>1. multiple'[s] = FALSE /\ done[s] + k = length[s]
      BY <1>1, <2>3, Zenon DEF Complete, StructOK
    <3> QED BY <2>1, <3>1
  <2> QED BY <2>2, <2>3
<1> SUFFICES ASSUME aligned'[s], Truthful(s)', current'[s] # 0, length'[s] # None
             PROVE  \E i \in Nat : Filed(s, i)'
  BY DEF Collected
<1>7. Truthful(s) /\ length[s] # None /\ current[s] # 0
  BY <1>2, <1>3, TruthfulStays, Zenon
<1>8. PICK i \in Nat : Filed(s, i)
  BY <1>5, <1>7 DEF Collected
<1>9. /\ i \in 1 .. pos[s] /\ t[i].part = "end" /\ t[i].msg = current[s]
      /\ t[i].declared = length[s] /\ done[s] = pos[s] - i
      /\ stored[s] = SubSeq(t, i + 1, pos[s])
  BY <1>8 DEF Filed, BodyRead
<1>10. i \in 1 .. Len(t)
  BY <1>3, <1>9
<1>11. /\ length[s] \in Nat
       /\ \A j \in (i + 1) .. (i + length[s]) : t[j].part = "body" /\ t[j].msg = current[s]
  BY <1>1, <1>7, <1>9, <1>10, AfterHeader
<1>12. \A j \in (i + 1) .. pos'[s] : t[j].part = "body" /\ t[j].msg = current[s]
  <2>1. (i + 1) .. pos'[s] \subseteq (i + 1) .. (i + length[s])
    <3>1. /\ length[s] \in Nat /\ pos[s] \in Nat /\ pos'[s] = pos[s] + k
          /\ done[s] = pos[s] - i
      BY <1>3, <1>9, <1>11, Zenon
    <3>2. done[s] + k <= length[s]
      BY <1>6, <1>7, Zenon
    <3> HIDE DEF t
    <3> QED BY <3>1, <3>2
  <2> QED BY <1>11, <2>1
<1>13. stored'[s] = SubSeq(t, i + 1, pos'[s])
  <2> DEFINE b == pos[s]
  <2> DEFINE c == pos'[s]
  <2>1. b \in Nat /\ c \in Nat /\ b <= c /\ c <= Len(t) /\ i \in 1 .. b
    BY <1>3, <1>9
  <2>2. t \in Seq(Token)
    BY <1>3
  <2>3. stored'[s] = SubSeq(t, i + 1, b) \o SubSeq(t, b + 1, c)
    BY <1>3, <1>4, <1>9, Zenon
  <2> HIDE DEF b, c, t
  <2>4. /\ i + 1 \in 1 .. Len(t) + 1 /\ b \in (i + 1) - 1 .. Len(t)
        /\ c \in b .. Len(t)
    BY <2>1
  <2>5. SubSeq(t, i + 1, b) \o SubSeq(t, b + 1, c) = SubSeq(t, i + 1, c)
    BY <2>2, <2>4, ConcatAdjacentSubSeq
  <2> QED BY <2>3, <2>5 DEF c
<1>14. BodyRead(s, current[s], i)'
  <2>1. stream'[s] = t /\ current'[s] = current[s]
    BY <1>2, <1>3
  <2> HIDE DEF t
  <2> QED BY <1>9, <1>12, <1>13, <2>1, Zenon DEF BodyRead
<1>15. i \in 1 .. pos'[s] /\ done'[s] = pos'[s] - i /\ done'[s] <= length'[s]
  <2>1. /\ pos[s] \in Nat /\ pos'[s] = pos[s] + k /\ length'[s] = length[s]
        /\ done[s] = pos[s] - i /\ i \in 1 .. pos[s]
        /\ done'[s] = done[s] + k /\ done[s] + k <= length[s]
    BY <1>2, <1>3, <1>4, <1>6, <1>7, <1>9, Zenon
  <2> QED BY <2>1
<1>16. multiple'[s] <=> done'[s] < length'[s]
  BY <1>2, <1>4, <1>6, <1>7, Zenon
<1>17. stream'[s][i].declared = length'[s]
  BY <1>2, <1>3, <1>9, Zenon
<1> QED BY <1>14, <1>15, <1>16, <1>17, Zenon DEF Filed

\* The side's stream and structure stay: the piece that was read is not well cut, or
\* nothing is promised.
LEMMA DroppedBody ==
  ASSUME IInv, NEW s \in Sides, Collected(s), NEW k \in Nat \ {0}, Take(s, k),
         UNCHANGED struct,
         \/ multiple[s] /\ length[s] # None /\ done[s] + k > length[s]
         \/ ~multiple[s] /\ ~HasHeader(Piece(s, k))
  PROVE  Collected(s)'
<1> DEFINE t == stream[s]
<1> DEFINE p == Piece(s, k)
<1>1. InputOK /\ StructOK
  BY DEF IInv
<1>2. /\ t \in Seq(Token) /\ pos[s] \in Nat
      /\ pos[s] + k <= Len(t) /\ stream' = stream
      /\ Len(p) = k /\ \A i \in 1 .. k : p[i] = t[pos[s] + i]
  BY <1>1, PieceOfStream
<1>3. aligned'[s] = (aligned[s] /\ WellCut(p))
  BY <1>1, Zenon DEF Take, InputOK
<1> SUFFICES ASSUME aligned[s], WellCut(p), Truthful(s), current[s] # 0, length[s] # None
             PROVE  FALSE
  <2>1. Truthful(s)' <=> Truthful(s)
    BY <1>2, TruthfulStays
  <2>2. current' = current /\ length' = length
    BY DEF struct
  <2> QED BY <1>3, <2>1, <2>2, Zenon DEF Collected
<1>0. pos[s] \in Nat /\ Len(t) \in Nat /\ pos[s] + k <= Len(t)
  BY <1>2
<1>4. PICK i \in Nat : Filed(s, i)
  BY DEF Collected
<1>5. /\ i \in 1 .. pos[s] /\ t[i].part = "end" /\ t[i].msg = current[s]
      /\ t[i].declared = length[s] /\ done[s] = pos[s] - i /\ done[s] <= length[s]
  BY <1>4 DEF Filed, BodyRead
<1>6. multiple[s] <=> done[s] < length[s]
  BY <1>4, Zenon DEF Filed
<1>7. i \in 1 .. Len(t)
  BY <1>2, <1>5
<1>8. /\ length[s] \in Nat
      /\ \A j \in (i + 1) .. (i + length[s]) : t[j].part = "body" /\ t[j].msg = current[s]
      /\ i + length[s] < Len(t) =>
           t[i + length[s] + 1].part = "head" /\ t[i + length[s] + 1].msg # current[s]
  BY <1>1, <1>5, <1>7, AfterHeader
<1> HIDE DEF t, p
<1>9. p[1] = t[pos[s] + 1]
  <2>1. 1 \in 1 .. k
    OBVIOUS
  <2> QED BY <1>2, <2>1, Zenon
<1>10. CASE multiple[s] /\ done[s] + k > length[s]
  <2>0. /\ length[s] \in Nat /\ pos[s] \in Nat /\ i \in Nat
        /\ done[s] = pos[s] - i /\ done[s] <= length[s]
    BY <1>0, <1>5, <1>8, Zenon
  <2>1. pos[s] + 1 \in (i + 1) .. (i + length[s])
    <3>1. done[s] < length[s]
      BY <1>6, <1>10, Zenon
    <3> QED BY <1>5, <2>0, <3>1
  <2>2. p[1].msg = current[s]
    BY <1>8, <1>9, <2>1
  <2>3. i + length[s] < Len(t)
    BY <1>0, <1>5, <1>8, <1>10
  <2>4. PICK y \in 1 .. k : y = length[s] - done[s] + 1
    BY <1>10, <2>0
  <2>5. p[y] = t[pos[s] + y] /\ pos[s] + y = i + length[s] + 1
    <3>1. p[y] = t[pos[s] + y]
      BY <1>2, Zenon
    <3>2. pos[s] + y = i + length[s] + 1
      BY <2>0, <2>4
    <3> QED BY <3>1, <3>2
  <2>6. p[y].msg = p[1].msg
    BY <1>2, <2>4, Zenon DEF WellCut
  <2> QED BY <1>8, <2>2, <2>3, <2>5, <2>6
<1>11. CASE ~multiple[s] /\ ~HasHeader(p)
  <2>1. done[s] = length[s]
    <3>1. ~(done[s] < length[s])
      BY <1>6, <1>11, Zenon
    <3>2. done[s] \in Int /\ length[s] \in Int
      BY <1>1 DEF StructOK
    <3> QED BY <1>5, <3>1, <3>2
  <2>2. pos[s] = i + length[s] /\ pos[s] < Len(t)
    BY <1>0, <1>5, <1>8, <2>1
  <2>3. p[1].part = "head"
    BY <1>8, <1>9, <2>2
  <2> QED BY <1>11, <2>3 DEF WellCut
<1> QED BY <1>10, <1>11 DEF p

\* A step of one side leaves the other one's file alone.
LEMMA OtherBody ==
  ASSUME NEW s \in Sides, Collected(s), stream' = stream, pos'[s] = pos[s],
         aligned'[s] = aligned[s], multiple'[s] = multiple[s], current'[s] = current[s],
         length'[s] = length[s], done'[s] = done[s], stored'[s] = stored[s]
  PROVE  Collected(s)'
<1> SUFFICES ASSUME aligned'[s], Truthful(s)', current'[s] # 0, length'[s] # None
             PROVE  \E i \in Nat : Filed(s, i)'
  BY DEF Collected
<1>1. aligned[s] /\ Truthful(s) /\ current[s] # 0 /\ length[s] # None
  BY TruthfulStays, Zenon
<1>2. PICK i \in Nat : Filed(s, i)
  BY <1>1 DEF Collected
<1>3. Filed(s, i)'
  BY <1>2, FiledStays
<1> QED BY <1>3

LEMMA NextBodies == IInv /\ Bodies /\ [Next]_vars => Bodies'
<1> SUFFICES ASSUME IInv, Bodies, [Next]_vars, NEW s \in Sides PROVE Collected(s)'
  BY DEF Bodies
<1>0. Collected(s) /\ InputOK /\ StructOK
  BY DEF Bodies, IInv
<1>1. CASE UNCHANGED vars
  BY <1>0, <1>1, OtherBody DEF vars, struct
<1>2. CASE Next
  <2>0. "client" \in Sides /\ "server" \in Sides
    BY DEF Sides
  <2>1. PICK k \in 1 .. (Len(stream["client"]) + Len(stream["server"])) : Handle(k)
    BY <1>2 DEF Next
  <2>2. k \in Nat \ {0}
    BY <1>0, <2>0, <2>1 DEF InputOK
  <2>3. ASSUME NEW r \in Sides, s # r, Take(r, k),
               \/ UNCHANGED struct
               \/ \E e, d : Begin(r, Piece(r, k), e, d)
               \/ Collect(r, k)
               \/ Complete(r, k)
        PROVE  Collected(s)'
    <3>1. stream' = stream /\ pos'[s] = pos[s] /\ aligned'[s] = aligned[s]
      BY <1>0, <2>3, Zenon DEF Take, InputOK
    <3>2. /\ multiple'[s] = multiple[s] /\ current'[s] = current[s]
          /\ length'[s] = length[s] /\ done'[s] = done[s] /\ stored'[s] = stored[s]
      BY <1>0, <2>3, Zenon DEF StructOK, Begin, Collect, Complete, struct
    <3> QED BY <1>0, <3>1, <3>2, OtherBody
  <2>4. ASSUME NEW r \in Sides, Take(r, k),
               \E e \in 1 .. k : \E d \in Found(Piece(r, k), e) :
                 HeaderEnds(Piece(r, k), e) /\ Begin(r, Piece(r, k), e, d)
        PROVE  Collected(s)'
    <3>1. CASE r = s
      <4>1. PICK e \in 1 .. k : \E d \in Found(Piece(s, k), e) :
              HeaderEnds(Piece(s, k), e) /\ Begin(s, Piece(s, k), e, d)
        BY <2>4, <3>1
      <4>2. PICK d \in Found(Piece(s, k), e) :
              HeaderEnds(Piece(s, k), e) /\ Begin(s, Piece(s, k), e, d)
        BY <4>1
      <4> QED BY <2>2, <2>4, <3>1, <4>2, BeginBody
    <3>2. CASE r # s
      BY <2>3, <2>4, <3>2, Zenon
    <3> QED BY <3>1, <3>2
  <2>5. ASSUME NEW r \in Sides, Take(r, k), UNCHANGED struct,
               \/ multiple[r] /\ length[r] # None /\ done[r] + k > length[r]
               \/ ~multiple[r] /\ ~HasHeader(Piece(r, k))
        PROVE  Collected(s)'
    <3>1. CASE r = s
      BY <1>0, <2>2, <2>5, <3>1, DroppedBody
    <3>2. CASE r # s
      BY <2>3, <2>5, <3>2, Zenon
    <3> QED BY <3>1, <3>2
  <2>6. ASSUME NEW r \in Sides, Collect(r, k) \/ Complete(r, k) PROVE Collected(s)'
    <3>1. CASE r = s
      BY <1>0, <2>2, <2>6, <3>1, CollectBody
    <3>2. CASE r # s
      <4>1. Take(r, k)
        BY <2>6 DEF Collect, Complete
      <4> QED BY <2>3, <2>6, <3>2, <4>1, Zenon
    <3> QED BY <3>1, <3>2
  <2>7. CASE ClientHeader(k)
    BY <2>0, <2>4, <2>7, Zenon DEF ClientHeader
  <2>8. CASE ServerHeader(k)
    BY <2>0, <2>4, <2>8, Zenon DEF ServerHeader
  <2>9. CASE ClientNoHeader(k)
    BY <2>0, <2>5, <2>9, Zenon DEF ClientNoHeader
  <2>10. CASE ServerNoHeader(k)
    BY <2>0, <2>5, <2>10, Zenon DEF ServerNoHeader
  <2>11. ASSUME NEW r \in Sides, Overrun(r, k) PROVE Collected(s)'
    BY <2>5, <2>11, Zenon DEF Overrun
  <2> QED BY <2>1, <2>6, <2>7, <2>8, <2>9, <2>10, <2>11, Zenon DEF Handle
<1> QED BY <1>1, <1>2

\* For all streams and however they are cut: with pieces that are well cut, the file of
\* a body of declared length is what was read of it, and at its end the handler waits
\* for the next header (http.c:186-204, 228-246, 326-339, 369-390).
THEOREM BodyIsStored == Spec => []BodyStored
<1>1. Init => Bodies
  BY Zenon DEF Init, Bodies, Collected, Sides
<1> QED BY <1>1, AlwaysIInv, NextBodies, BodiesAreStored, PTL DEF Spec

-----------------------------------------------------------------------------
\* The rows

\* The request of a row has ended in what was read of the client.
Followed ==
    /\ stream \in Streams
    /\ \A i \in DOMAIN rows : \E x \in 1 .. pos["client"] :
         /\ stream["client"][x].part = "end"
         /\ stream["client"][x].msg = rows[i].request

RowsInv == Followed /\ RowsShareResponse

\* A request that is read now is later than those that have a row.
LEMMA ClientHeaderRows ==
  ASSUME IInv, RowsInv, NEW k \in Nat \ {0}, ClientHeader(k)
  PROVE  RowsInv'
<1> DEFINE p == Piece("client", k)
<1>0. "client" \in Sides /\ InputOK
  BY DEF Sides, IInv
<1>1. Take("client", k)
  BY DEF ClientHeader
<1>2. PICK e \in 1 .. k :
        /\ p[e].part = "end"
        /\ rows' = Append(rows, [request |-> p[e].msg, response |-> 0])
  BY DEF ClientHeader, HeaderEnds
<1>3. /\ stream["client"] \in Seq(Token) /\ pos["client"] \in Nat
      /\ pos'["client"] = pos["client"] + k /\ pos'["client"] <= Len(stream["client"])
      /\ stream' = stream
      /\ \A i \in 1 .. k : p[i] = stream["client"][pos["client"] + i]
  BY <1>0, <1>1, PieceOfStream
<1> HIDE DEF p
<1>4. pos["client"] \in Nat /\ pos'["client"] = pos["client"] + k
  BY <1>3, Zenon
<1>5. PICK y \in 1 .. pos'["client"] : y = pos["client"] + e
  BY <1>4
<1>6. /\ p[e] = stream["client"][y] /\ y \in 1 .. Len(stream["client"])
      /\ Len(stream["client"]) \in Nat
  BY <1>3, <1>4, <1>5
<1>7. rows \in Seq(Row) /\ Len(rows) \in Nat /\ DOMAIN rows = 1 .. Len(rows)
  BY DEF IInv, RowsOK
<1>8. /\ DOMAIN rows' = 1 .. Len(rows) + 1
      /\ \A i \in 1 .. Len(rows) : rows'[i] = rows[i]
      /\ rows'[Len(rows) + 1] = [request |-> p[e].msg, response |-> 0]
  BY <1>2, <1>7
<1>9. \A i \in 1 .. Len(rows) : rows[i].request < p[e].msg
  <2> SUFFICES ASSUME NEW i \in 1 .. Len(rows) PROVE rows[i].request < p[e].msg
    OBVIOUS
  <2>1. PICK x \in 1 .. pos["client"] :
          /\ stream["client"][x].part = "end"
          /\ stream["client"][x].msg = rows[i].request
    BY <1>7 DEF RowsInv, Followed
  <2>2. x \in 1 .. Len(stream["client"]) /\ x < y
    <3>1. /\ pos["client"] \in Nat /\ Len(stream["client"]) \in Nat
          /\ y \in 1 .. Len(stream["client"])
      BY <1>4, <1>6, Zenon
    <3> QED BY <1>5, <3>1
  <2>3. stream["client"][x].msg < stream["client"][y].msg
    BY <1>0, <1>2, <1>6, <2>1, <2>2, NumberingAssumption DEF RowsInv, Followed
  <2> QED BY <1>6, <2>1, <2>3
<1>10. RowsShareResponse'
  <2> SUFFICES ASSUME NEW i \in 1 .. Len(rows) + 1, NEW j \in 1 .. Len(rows) + 1, i < j
               PROVE  /\ rows'[i].request < rows'[j].request
                      /\ rows'[j].response # 0 => rows'[i].response = rows'[j].response
    BY <1>8 DEF RowsShareResponse
  <2>1. i \in 1 .. Len(rows)
    BY <1>7
  <2>2. CASE j = Len(rows) + 1
    BY <1>8, <1>9, <2>1, <2>2
  <2>3. CASE j # Len(rows) + 1
    <3>1. j \in 1 .. Len(rows)
      BY <1>7, <2>3
    <3>2. rows'[i] = rows[i] /\ rows'[j] = rows[j]
      BY <1>8, <2>1, <3>1
    <3>3. i \in DOMAIN rows /\ j \in DOMAIN rows
      BY <1>7, <2>1, <3>1
    <3>4. /\ rows[i].request < rows[j].request
          /\ rows[j].response # 0 => rows[i].response = rows[j].response
      BY <3>3 DEF RowsInv, RowsShareResponse
    <3> QED BY <3>2, <3>4
  <2> QED BY <2>2, <2>3
<1>11. Followed'
  <2>1. \A i \in 1 .. Len(rows) : \E x \in 1 .. pos'["client"] :
          /\ stream["client"][x].part = "end"
          /\ stream["client"][x].msg = rows[i].request
    <3> SUFFICES ASSUME NEW i \in 1 .. Len(rows)
                 PROVE  \E x \in 1 .. pos'["client"] :
                          /\ stream["client"][x].part = "end"
                          /\ stream["client"][x].msg = rows[i].request
      OBVIOUS
    <3>1. PICK x \in 1 .. pos["client"] :
            /\ stream["client"][x].part = "end"
            /\ stream["client"][x].msg = rows[i].request
      BY <1>7 DEF RowsInv, Followed
    <3>2. x \in 1 .. pos'["client"]
      BY <1>4
    <3> QED BY <3>1, <3>2
  <2>2. /\ stream["client"][y].part = "end"
        /\ stream["client"][y].msg = rows'[Len(rows) + 1].request
    BY <1>2, <1>6, <1>8
  <2>3. \A i \in 1 .. Len(rows) + 1 : i = Len(rows) + 1 \/ i \in 1 .. Len(rows)
    BY <1>7
  <2>4. stream' = stream
    BY <1>3
  <2> QED BY <1>5, <1>8, <2>1, <2>2, <2>3, <2>4, Zenon DEF RowsInv, Followed
<1> QED BY <1>10, <1>11 DEF RowsInv

\* A response is given to all rows there are.
LEMMA ServerHeaderRows ==
  ASSUME IInv, RowsInv, NEW k \in Nat \ {0}, ServerHeader(k)
  PROVE  RowsInv'
<1>1. PICK r : rows' = [i \in DOMAIN rows |-> [rows[i] EXCEPT !.response = r]]
  BY DEF ServerHeader
<1>2. rows \in Seq(Row) /\ DOMAIN rows = 1 .. Len(rows)
  BY DEF IInv, RowsOK
<1>3. \A i \in DOMAIN rows : rows'[i].request = rows[i].request /\ rows'[i].response = r
  <2> SUFFICES ASSUME NEW i \in DOMAIN rows
               PROVE  rows'[i].request = rows[i].request /\ rows'[i].response = r
    OBVIOUS
  <2>1. rows[i] \in Row
    BY <1>2
  <2>2. rows'[i] = [rows[i] EXCEPT !.response = r]
    BY <1>1, Zenon
  <2>3. [rows[i] EXCEPT !.response = r].response = r
        /\ [rows[i] EXCEPT !.response = r].request = rows[i].request
    BY <2>1 DEF Row
  <2> QED BY <2>2, <2>3
<1>4. DOMAIN rows' = DOMAIN rows
  BY <1>1, Zenon
<1>5. stream' = stream /\ pos'["client"] = pos["client"]
  <2>1. "client" \in Sides /\ "server" \in Sides /\ InputOK /\ Take("server", k)
    BY DEF Sides, IInv, ServerHeader
  <2> QED BY <2>1, PieceOfStream
<1>6. Followed'
  BY <1>3, <1>4, <1>5, Zenon DEF RowsInv, Followed
<1>7. RowsShareResponse'
  BY <1>3, <1>4, Zenon DEF RowsInv, RowsShareResponse
<1> QED BY <1>6, <1>7 DEF RowsInv

LEMMA NextRows == IInv /\ RowsInv /\ [Next]_vars => RowsInv'
<1> SUFFICES ASSUME IInv, RowsInv, [Next]_vars PROVE RowsInv'
  OBVIOUS
<1>1. CASE UNCHANGED vars
  BY <1>1, Zenon DEF vars, RowsInv, Followed, RowsShareResponse
<1>2. CASE Next
  <2>0. "client" \in Sides /\ "server" \in Sides /\ InputOK
    BY DEF Sides, IInv
  <2>1. PICK k \in 1 .. (Len(stream["client"]) + Len(stream["server"])) : Handle(k)
    BY <1>2 DEF Next
  <2>2. k \in Nat \ {0}
    BY <2>0, <2>1 DEF InputOK
  <2>3. CASE ClientHeader(k)
    BY <2>2, <2>3, ClientHeaderRows
  <2>4. CASE ServerHeader(k)
    BY <2>2, <2>4, ServerHeaderRows
  <2>5. ASSUME NEW s \in Sides, Take(s, k), rows' = rows PROVE RowsInv'
    <3>0. /\ stream' = stream /\ pos'[s] = pos[s] + k
          /\ \A t \in Sides : t # s => pos'[t] = pos[t]
      BY <2>0, <2>2, <2>5, PieceOfStream
    <3>1. /\ pos["client"] \in Nat /\ stream' = stream
          /\ pos'["client"] = pos["client"] \/ pos'["client"] = pos["client"] + k
      BY <2>0, <3>0, Zenon DEF InputOK
    <3>2. 1 .. pos["client"] \subseteq 1 .. pos'["client"]
      BY <2>2, <3>1
    <3>3. Followed'
      BY <2>5, <3>1, <3>2, Zenon DEF RowsInv, Followed
    <3>4. RowsShareResponse'
      BY <2>5, Zenon DEF RowsInv, RowsShareResponse
    <3> QED BY <3>3, <3>4 DEF RowsInv
  <2>6. CASE ClientNoHeader(k) \/ ServerNoHeader(k)
             \/ \E s \in Sides : Collect(s, k) \/ Complete(s, k) \/ Overrun(s, k)
    BY <2>0, <2>5, <2>6, Zenon
       DEF ClientNoHeader, ServerNoHeader, Collect, Complete, Overrun
  <2> QED BY <2>1, <2>3, <2>4, <2>6, Zenon DEF Handle
<1> QED BY <1>1, <1>2

\* For all streams, rows are in the order of the requests and all share the last
\* response (log_postgres.c:230).
THEOREM RowsAreShared == Spec => []RowsShareResponse
<1>1. Init => RowsInv
  <2> SUFFICES ASSUME Init PROVE RowsInv
    OBVIOUS
  <2>1. rows = <<>> /\ DOMAIN rows = {} /\ stream \in Streams
    BY DEF Init
  <2> QED BY <2>1 DEF RowsInv, Followed, RowsShareResponse
<1>2. RowsInv => RowsShareResponse
  BY DEF RowsInv
<1> QED BY <1>1, <1>2, AlwaysIInv, NextRows, PTL DEF Spec

-----------------------------------------------------------------------------
\* HttpReplay: what the steps do to the rows, the queues and the files

\* The handlers whose service can be reached
Online == Handler \ Offline

\* The beginnings of a location are paths.
LEMMA Beginning ==
  ASSUME NEW l \in Location, NEW n \in 1 .. Len(l) - 1
  PROVE  SubSeq(l, 1, n) \in Paths /\ SubSeq(l, 1, n) \in Seq(Part)
         /\ Len(SubSeq(l, 1, n)) = n
<1>1. l \in Seq(Part)
  BY LocationAssumption
<1>2. SubSeq(l, 1, n) \in Paths
  <2>1. SubSeq(l, 1, n) \in {SubSeq(l, 1, m) : m \in 1 .. Len(l) - 1}
                             \cup {Destination(l), PathOf(l)}
    BY Zenon
  <2> QED BY <2>1, Zenon DEF Paths
<1>3. 1 \in Int /\ n \in Int /\ Len(l) \in Nat /\ 1 <= n
  BY <1>1
<1>4. \A i \in 1 .. n : l[i] \in Part
  BY <1>1, <1>3
<1>5. /\ SubSeq(l, 1, n) \in Seq(Part)
      /\ Len(SubSeq(l, 1, n)) = IF 1 <= n THEN n - 1 + 1 ELSE 0
  BY <1>3, <1>4, SubSeqProperties
<1> QED BY <1>2, <1>3, <1>5

\* What a location leads to are paths.
LEMMA LocationPath ==
  ASSUME NEW l \in Location
  PROVE  /\ l \in Seq(Part) /\ Len(l) \in Nat \ {0}
         /\ Destination(l) \in Paths /\ PathOf(l) \in Paths
         /\ Directories(l) \in Seq(Part) /\ Len(Directories(l)) = Len(l) - 1
         /\ \A n \in 1 .. Len(l) - 1 :
              /\ SubSeq(Directories(l), 1, n) = SubSeq(l, 1, n)
              /\ SubSeq(l, 1, n) \in Paths
<1>1. l \in Seq(Part) /\ l # <<>>
  BY LocationAssumption
<1>2. Len(l) \in Nat /\ Len(l) # 0
  BY <1>1, EmptySeq
<1>4. Destination(l) \in Paths /\ PathOf(l) \in Paths
  <2> DEFINE those == {SubSeq(l, 1, m) : m \in 1 .. Len(l) - 1} \cup {Destination(l), PathOf(l)}
  <2>1. Destination(l) \in those /\ PathOf(l) \in those
    BY Zenon
  <2> QED BY <2>1, Zenon DEF Paths
<1>5. Directories(l) \in Seq(Part) /\ Len(Directories(l)) = Len(l) - 1
  <2> DEFINE n == Len(l) - 1
  <2>1. n \in Int /\ n >= 0
    BY <1>2
  <2>2. \A i \in 1 .. n : l[i] \in Part
    BY <1>1, <1>2
  <2>3. Directories(l) = SubSeq(l, 1, n)
    BY DEF Directories
  <2> HIDE DEF n
  <2>4. /\ SubSeq(l, 1, n) \in Seq(Part)
        /\ Len(SubSeq(l, 1, n)) = IF 1 <= n THEN n - 1 + 1 ELSE 0
    BY <2>1, <2>2, SubSeqProperties
  <2>5. Len(Directories(l)) = n
    BY <2>1, <2>3, <2>4
  <2> QED BY <2>3, <2>4, <2>5 DEF n
<1>6. ASSUME NEW n \in 1 .. Len(l) - 1
      PROVE  /\ SubSeq(Directories(l), 1, n) = SubSeq(l, 1, n)
             /\ SubSeq(l, 1, n) \in Paths
  <2> DEFINE j == Len(l) - 1
  <2>1. 1 \in 1 .. Len(l) /\ j \in 1 .. Len(l) /\ 1 \in 1 .. (j - 1) + 1
        /\ n \in 1 .. (j - 1) + 1 /\ (1 + 1) - 1 = 1 /\ (1 + n) - 1 = n
    BY <1>2
  <2>2. Directories(l) = SubSeq(l, 1, j)
    BY DEF Directories
  <2> HIDE DEF j
  <2>3. SubSeq(SubSeq(l, 1, j), 1, n) = SubSeq(l, (1 + 1) - 1, (1 + n) - 1)
    BY <1>1, <2>1, SubSeqOfSubSeq
  <2>4. SubSeq(l, 1, n) \in Paths
    BY Beginning
  <2> QED BY <2>1, <2>2, <2>3, <2>4
<1> QED BY <1>1, <1>2, <1>4, <1>5, <1>6

\* A request is put at the end of the queue and of the rows.
LEMMA Forwarded ==
  ASSUME ReplayTypeOK, NEW h \in Handler, NEW r \in Request, Forward(h, r)
  PROVE  /\ logs' \in Seq(LogRow) /\ waiting' \in [Handler -> Seq(Request)]
         /\ DOMAIN logs' = DOMAIN logs \cup {Len(logs) + 1}
         /\ \A i \in DOMAIN logs : logs'[i] = logs[i]
         /\ logs'[Len(logs) + 1] = [ts |-> timestamp[h], site |-> r.site,
                                    location |-> r.location, type |-> r.type, body |-> Null]
         /\ waiting'[h] = Append(waiting[h], r)
         /\ \A k \in Handler : k # h => waiting'[k] = waiting[k]
<1> DEFINE row == [ts |-> timestamp[h], site |-> r.site, location |-> r.location,
                   type |-> r.type, body |-> Null]
<1>1. logs \in Seq(LogRow) /\ Len(logs) \in Nat /\ timestamp[h] \in Stamp
      /\ waiting \in [Handler -> Seq(Request)]
  BY DEF ReplayTypeOK
<1>2. row \in LogRow
  BY <1>1 DEF LogRow, Request
<1>3. logs' = Append(logs, row)
  BY DEF Forward
<1> HIDE DEF row
<1>4. /\ logs' \in Seq(LogRow) /\ DOMAIN logs' = DOMAIN logs \cup {Len(logs) + 1}
      /\ \A i \in DOMAIN logs : logs'[i] = logs[i]
      /\ logs'[Len(logs) + 1] = row
  BY <1>1, <1>2, <1>3
<1>5. /\ waiting' \in [Handler -> Seq(Request)] /\ waiting'[h] = Append(waiting[h], r)
      /\ \A k \in Handler : k # h => waiting'[k] = waiting[k]
  BY <1>1 DEF Forward
<1> QED BY <1>4, <1>5 DEF row

\* A response is filed under its own name, unless it cannot be, and put into the rows
\* of its connection.
LEMMA FileStep ==
  ASSUME ReplayTypeOK, NEW h \in Handler, NEW page \in Page, waiting[h] # <<>>, File(h, page)
  PROVE  /\ logs' \in Seq(LogRow) /\ DOMAIN logs' = DOMAIN logs
         /\ \A i \in DOMAIN logs :
              /\ logs'[i].ts = logs[i].ts /\ logs'[i].site = logs[i].site
              /\ logs'[i].location = logs[i].location /\ logs'[i].type = logs[i].type
              /\ logs[i].ts # timestamp[h] => logs'[i].body = logs[i].body
              /\ logs[i].ts = timestamp[h] =>
                   logs'[i].body = <<timestamp[h], answered[h] + 1>>
         /\ DOMAIN filed' \subseteq Name /\ \A n \in DOMAIN filed' : filed'[n] \in Page
         /\ \A n \in DOMAIN filed : n \in DOMAIN filed'
         /\ \A n \in DOMAIN filed' :
              \/ n \in DOMAIN filed /\ filed'[n] = filed[n]
              \/ n = <<timestamp[h], answered[h] + 1>> /\ filed'[n] = page
         /\ ~lost[h] => <<timestamp[h], answered[h] + 1>> \in DOMAIN filed'
         /\ answered' \in [Handler -> Nat] /\ waiting' \in [Handler -> Seq(Request)]
         /\ DOMAIN waiting'[h] = 1 .. Len(waiting[h]) - 1
         /\ \A i \in 1 .. Len(waiting[h]) - 1 : waiting'[h][i] = waiting[h][i + 1]
         /\ \A k \in Handler : k # h => waiting'[k] = waiting[k]
         /\ Len(waiting'[h]) = Len(waiting[h]) - 1
<1> DEFINE name == <<timestamp[h], answered[h] + 1>>
<1>1. /\ logs \in Seq(LogRow) /\ timestamp[h] \in Stamp /\ answered \in [Handler -> Nat]
      /\ waiting \in [Handler -> Seq(Request)]
      /\ DOMAIN filed \subseteq Name /\ \A n \in DOMAIN filed : filed[n] \in Page
  BY DEF ReplayTypeOK
<1>2. name \in Name
  BY <1>1 DEF Name
<1>3. /\ filed' = IF lost[h] THEN filed
                  ELSE [n \in DOMAIN filed \cup {name} |-> IF n = name THEN page ELSE filed[n]]
      /\ logs' = [i \in DOMAIN logs |-> IF logs[i].ts = timestamp[h]
                    THEN [logs[i] EXCEPT !.body = name] ELSE logs[i]]
      /\ answered' = [answered EXCEPT ![h] = answered[h] + 1]
      /\ waiting' = [waiting EXCEPT ![h] = Tail(waiting[h])]
  BY DEF File
<1> HIDE DEF name
<1>4. /\ logs' \in Seq(LogRow) /\ DOMAIN logs' = DOMAIN logs
      /\ \A i \in DOMAIN logs :
           /\ logs'[i].ts = logs[i].ts /\ logs'[i].site = logs[i].site
           /\ logs'[i].location = logs[i].location /\ logs'[i].type = logs[i].type
           /\ logs[i].ts # timestamp[h] => logs'[i].body = logs[i].body
           /\ logs[i].ts = timestamp[h] => logs'[i].body = name
  <2>1. DOMAIN logs = 1 .. Len(logs) /\ Len(logs) \in Nat
    BY <1>1
  <2>2. ASSUME NEW i \in DOMAIN logs
        PROVE  /\ logs'[i] \in LogRow
               /\ logs'[i].ts = logs[i].ts /\ logs'[i].site = logs[i].site
               /\ logs'[i].location = logs[i].location /\ logs'[i].type = logs[i].type
               /\ logs[i].ts # timestamp[h] => logs'[i].body = logs[i].body
               /\ logs[i].ts = timestamp[h] => logs'[i].body = name
    <3>1. logs[i] \in LogRow
      BY <1>1
    <3>2. logs'[i] = IF logs[i].ts = timestamp[h]
                     THEN [logs[i] EXCEPT !.body = name] ELSE logs[i]
      BY <1>3, Zenon
    <3> QED BY <1>2, <3>1, <3>2 DEF LogRow
  <2>3. logs' \in [1 .. Len(logs) -> LogRow]
    <3>1. \A i \in 1 .. Len(logs) : logs'[i] \in LogRow
      BY <2>1, <2>2
    <3>2. logs' = [i \in 1 .. Len(logs) |-> logs'[i]]
      BY <1>3, <2>1, Zenon
    <3> QED BY <3>1, <3>2
  <2> QED BY <2>1, <2>2, <2>3
<1>5. /\ DOMAIN filed' \subseteq Name /\ \A n \in DOMAIN filed' : filed'[n] \in Page
      /\ \A n \in DOMAIN filed : n \in DOMAIN filed'
      /\ \A n \in DOMAIN filed' :
           \/ n \in DOMAIN filed /\ filed'[n] = filed[n]
           \/ n = name /\ filed'[n] = page
      /\ ~lost[h] => name \in DOMAIN filed'
  BY <1>1, <1>2, <1>3
<1>6. /\ answered' \in [Handler -> Nat] /\ waiting' \in [Handler -> Seq(Request)]
      /\ waiting'[h] = Tail(waiting[h])
      /\ \A k \in Handler : k # h => waiting'[k] = waiting[k]
  BY <1>1, <1>3
<1>7. /\ DOMAIN waiting'[h] = 1 .. Len(waiting[h]) - 1
      /\ Len(waiting'[h]) = Len(waiting[h]) - 1
      /\ \A i \in 1 .. Len(waiting[h]) - 1 : waiting'[h][i] = waiting[h][i + 1]
  <2>1. waiting[h] \in Seq(Request)
    BY <1>1
  <2> QED BY <1>6, <2>1
<1> QED BY <1>4, <1>5, <1>6, <1>7 DEF name

\* Writing a page marks requests as touched and changes nothing else of them.
LEMMA TouchedStep ==
  ASSUME ReplayTypeOK, NEW h \in Handler, NEW p, Touched(h, p)
  PROVE  /\ request' \in [Handler -> Request \cup {Null}]
         /\ waiting' \in [Handler -> Seq(Request)]
         /\ request'[h] = request[h]
         /\ \A k \in Handler :
              /\ request'[k] = Null <=> request[k] = Null
              /\ request[k] # Null =>
                   /\ request'[k].site = request[k].site
                   /\ request'[k].location = request[k].location
                   /\ request'[k].type = request[k].type
                   /\ request'[k].found = request[k].found
                   /\ ~request'[k].touched => ~request[k].touched /\
                        (Destination(request[k].location) # p \/ k = h)
              /\ DOMAIN waiting'[k] = DOMAIN waiting[k] /\ Len(waiting'[k]) = Len(waiting[k])
              /\ \A i \in DOMAIN waiting[k] :
                   /\ waiting'[k][i].site = waiting[k][i].site
                   /\ waiting'[k][i].location = waiting[k][i].location
                   /\ waiting'[k][i].type = waiting[k][i].type
                   /\ waiting'[k][i].found = waiting[k][i].found
                   /\ ~waiting'[k][i].touched =>
                        ~waiting[k][i].touched /\ Destination(waiting[k][i].location) # p
<1>1. /\ request \in [Handler -> Request \cup {Null}]
      /\ waiting \in [Handler -> Seq(Request)]
  BY DEF ReplayTypeOK
<1>2. ASSUME NEW k \in Handler
      PROVE  /\ request'[k] \in Request \cup {Null}
             /\ request'[k] = Null <=> request[k] = Null
             /\ k = h => request'[k] = request[k]
             /\ request[k] # Null =>
                  /\ request'[k].site = request[k].site
                  /\ request'[k].location = request[k].location
                  /\ request'[k].type = request[k].type
                  /\ request'[k].found = request[k].found
                  /\ ~request'[k].touched => ~request[k].touched /\
                       (Destination(request[k].location) # p \/ k = h)
  <2>1. request'[k] = IF k # h /\ request[k] # Null /\ Destination(request[k].location) = p
                      THEN [request[k] EXCEPT !.touched = TRUE] ELSE request[k]
    BY DEF Touched
  <2>2. CASE k # h /\ request[k] # Null /\ Destination(request[k].location) = p
    <3>1. request[k] \in Request
      BY <1>1, <2>2
    <3>2. request'[k] = [request[k] EXCEPT !.touched = TRUE]
      BY <2>1, <2>2, Zenon
    <3>3. /\ request'[k] \in Request
          /\ request'[k].site = request[k].site
          /\ request'[k].location = request[k].location
          /\ request'[k].type = request[k].type
          /\ request'[k].found = request[k].found
          /\ request'[k].touched
      BY <3>1, <3>2 DEF Request
    <3>4. request'[k] # Null
      BY <3>3, MarkAssumption
    <3> QED BY <2>2, <3>3, <3>4, Zenon
  <2>3. CASE ~(k # h /\ request[k] # Null /\ Destination(request[k].location) = p)
    <3>1. request'[k] = request[k]
      BY <2>1, <2>3, Zenon
    <3> QED BY <1>1, <2>3, <3>1
  <2> QED BY <2>2, <2>3
<1>3. ASSUME NEW k \in Handler
      PROVE  /\ waiting'[k] \in Seq(Request)
             /\ DOMAIN waiting'[k] = DOMAIN waiting[k] /\ Len(waiting'[k]) = Len(waiting[k])
             /\ \A i \in DOMAIN waiting[k] :
                  /\ waiting'[k][i].site = waiting[k][i].site
                  /\ waiting'[k][i].location = waiting[k][i].location
                  /\ waiting'[k][i].type = waiting[k][i].type
                  /\ waiting'[k][i].found = waiting[k][i].found
                  /\ ~waiting'[k][i].touched =>
                       ~waiting[k][i].touched /\ Destination(waiting[k][i].location) # p
  <2>1. waiting'[k] = [i \in DOMAIN waiting[k] |->
          [waiting[k][i] EXCEPT !.touched = waiting[k][i].touched \/ Destination(waiting[k][i].location) = p]]
    BY DEF Touched
  <2>2. waiting[k] \in Seq(Request) /\ DOMAIN waiting[k] = 1 .. Len(waiting[k])
        /\ Len(waiting[k]) \in Nat
    BY <1>1
  <2>3. ASSUME NEW i \in DOMAIN waiting[k]
        PROVE  /\ waiting'[k][i] \in Request
               /\ waiting'[k][i].site = waiting[k][i].site
               /\ waiting'[k][i].location = waiting[k][i].location
               /\ waiting'[k][i].type = waiting[k][i].type
               /\ waiting'[k][i].found = waiting[k][i].found
               /\ ~waiting'[k][i].touched =>
                    ~waiting[k][i].touched /\ Destination(waiting[k][i].location) # p
    <3>1. waiting[k][i] \in Request
      BY <2>2
    <3>2. waiting'[k][i] = [waiting[k][i] EXCEPT
            !.touched = waiting[k][i].touched \/ Destination(waiting[k][i].location) = p]
      BY <2>1, Zenon
    <3>3. PICK b \in BOOLEAN : b = (waiting[k][i].touched \/ Destination(waiting[k][i].location) = p)
      BY Zenon
    <3>4. waiting'[k][i] = [waiting[k][i] EXCEPT !.touched = b]
      BY <3>2, <3>3, Zenon
    <3>5. /\ waiting'[k][i] \in Request
          /\ waiting'[k][i].site = waiting[k][i].site
          /\ waiting'[k][i].location = waiting[k][i].location
          /\ waiting'[k][i].type = waiting[k][i].type
          /\ waiting'[k][i].found = waiting[k][i].found
          /\ waiting'[k][i].touched = b
      BY <3>1, <3>4 DEF Request
    <3> QED BY <3>3, <3>5, Zenon
  <2>4. waiting'[k] \in [1 .. Len(waiting[k]) -> Request]
    <3>1. \A i \in 1 .. Len(waiting[k]) : waiting'[k][i] \in Request
      BY <2>2, <2>3
    <3>2. waiting'[k] = [i \in 1 .. Len(waiting[k]) |-> waiting'[k][i]]
      BY <2>1, <2>2, Zenon
    <3> QED BY <3>1, <3>2
  <2>5. waiting'[k] \in Seq(Request) /\ Len(waiting'[k]) = Len(waiting[k])
        /\ DOMAIN waiting'[k] = DOMAIN waiting[k]
    BY <2>2, <2>4
  <2> QED BY <2>3, <2>5
<1>4. request' \in [Handler -> Request \cup {Null}]
  <2>1. request' = [k \in Handler |-> request'[k]]
    BY Zenon DEF Touched
  <2>2. \A k \in Handler : request'[k] \in Request \cup {Null}
    BY <1>2
  <2> QED BY <2>1, <2>2
<1>5. waiting' \in [Handler -> Seq(Request)]
  <2>1. waiting' = [k \in Handler |-> waiting'[k]]
    BY Zenon DEF Touched
  <2>2. \A k \in Handler : waiting'[k] \in Seq(Request)
    BY <1>3
  <2> QED BY <2>1, <2>2
<1> QED BY <1>2, <1>3, <1>4, <1>5

-----------------------------------------------------------------------------
\* HttpReplay: the handlers and the requests in work

\* A request is in work from its lookup to its row; what is copied stays filed, and
\* the page that is written stays a page.
Works(h) ==
    /\ pc[h] = "read" <=> request[h] = Null
    /\ h \in Online => pc[h] = "read" /\ ~lost[h]
    /\ IF Building(h) THEN depth[h] < Len(Directories(request[h].location)) ELSE depth[h] = 0
    /\ pc[h] = "write" =>
         /\ src[h] = DummyPage \/ src[h] \in DOMAIN filed
         /\ htdocs[Destination(request[h].location)] \in Page

Working == \A h \in Handler : Works(h)

\* What a step of h leaves alone, of the other handlers and of what all share
Elsewhere(h) ==
    /\ \A k \in Handler \ {h} :
         /\ pc'[k] = pc[k] /\ emulated'[k] = emulated[k] /\ depth'[k] = depth[k]
         /\ src'[k] = src[k] /\ lost'[k] = lost[k] /\ answer'[k] = answer[k]
         /\ request'[k] = Null <=> request[k] = Null
         /\ request[k] # Null =>
              /\ request'[k].site = request[k].site
              /\ request'[k].location = request[k].location
              /\ request'[k].type = request[k].type
              /\ request'[k].found = request[k].found
              /\ ~request'[k].touched => ~request[k].touched
         /\ DOMAIN waiting'[k] = DOMAIN waiting[k] /\ Len(waiting'[k]) = Len(waiting[k])
         /\ \A i \in DOMAIN waiting[k] :
              /\ waiting'[k][i].site = waiting[k][i].site
              /\ waiting'[k][i].location = waiting[k][i].location
              /\ waiting'[k][i].type = waiting[k][i].type
              /\ waiting'[k][i].found = waiting[k][i].found
              /\ ~waiting'[k][i].touched => ~waiting[k][i].touched
    /\ load' = load /\ timestamp' = timestamp
    /\ \A i \in DOMAIN logs :
         /\ i \in DOMAIN logs'
         /\ logs'[i].ts = logs[i].ts /\ logs'[i].site = logs[i].site
         /\ logs'[i].location = logs[i].location /\ logs'[i].type = logs[i].type
    /\ \A n \in DOMAIN filed : n \in DOMAIN filed'
    /\ \A p \in Paths : /\ htdocs[p] = Directory => htdocs'[p] = Directory
                        /\ htdocs[p] \in Page => htdocs'[p] \in Page

\* What every step of h keeps
Kept(h) == ReplayTypeOK' /\ Works(h)' /\ Elsewhere(h)

LEMMA ReadRequestKeeps ==
  ASSUME ReplayTypeOK, Working, NEW h \in Handler, ReadRequest(h), overlapped' \in BOOLEAN
  PROVE  Kept(h)
<1>1. PICK s \in Site, l \in Location :
        Forward(h, [site |-> s, location |-> l, type |-> "new", found |-> FALSE,
                    touched |-> FALSE])
  BY DEF ReadRequest
<1> DEFINE r == [site |-> s, location |-> l, type |-> "new", found |-> FALSE,
                 touched |-> FALSE]
<1>2. r \in Request
  BY DEF Request, Type
<1>3. Forward(h, r)
  BY <1>1
<1> HIDE DEF r
<1>4. /\ logs' \in Seq(LogRow) /\ waiting' \in [Handler -> Seq(Request)]
      /\ DOMAIN logs' = DOMAIN logs \cup {Len(logs) + 1}
      /\ \A i \in DOMAIN logs : logs'[i] = logs[i]
      /\ \A k \in Handler : k # h => waiting'[k] = waiting[k]
  BY <1>2, <1>3, Forwarded
<1>5. UNCHANGED <<load, timestamp, filed, htdocs, pc, request, emulated, depth, src, lost,
                  answered, answer>>
  BY DEF ReadRequest, conn, disk
<1>6. ReplayTypeOK'
  BY <1>4, <1>5 DEF ReplayTypeOK
<1>7. Elsewhere(h)
  BY <1>4, <1>5 DEF Elsewhere
<1>8. Works(h)'
  BY <1>5 DEF Works, Working, Building
<1> QED BY <1>6, <1>7, <1>8 DEF Kept

LEMMA ReadOfflineKeeps ==
  ASSUME ReplayTypeOK, Working, NEW h \in Handler, ReadOffline(h), overlapped' \in BOOLEAN
  PROVE  Kept(h)
<1>1. PICK s \in Site, l \in Location :
        LET stamps == {logs[i].ts : i \in Fitting(s, l)} IN
        /\ request' = [request EXCEPT ![h] =
             [site |-> s, location |-> l, type |-> "old", found |-> stamps # {},
              touched |-> FALSE]]
        /\ \E t \in stamps \cup {Null} :
             /\ IF stamps = {} THEN t = Null ELSE t # Null /\ \A u \in stamps : u <= t
             /\ emulated' = [emulated EXCEPT ![h] = t]
        /\ Goto(h, IF Directories(l) = <<>> THEN "source" ELSE "walk")
  BY DEF ReadOffline
<1>2. PICK b \in BOOLEAN :
        request' = [request EXCEPT ![h] =
          [site |-> s, location |-> l, type |-> "old", found |-> b, touched |-> FALSE]]
  BY <1>1, Zenon
<1>3. \E t \in {logs[i].ts : i \in Fitting(s, l)} \cup {Null} :
        emulated' = [emulated EXCEPT ![h] = t]
  BY <1>1, Zenon
<1>4. {logs[i].ts : i \in Fitting(s, l)} \subseteq Stamp
  <2>1. ASSUME NEW i \in Fitting(s, l)
        PROVE  logs[i].ts \in Stamp
    <3>1. logs[i] \in LogRow
      BY DEF Fitting, ReplayTypeOK
    <3> QED BY <3>1 DEF LogRow
  <2> QED BY <2>1, Zenon
<1>5. PICK t \in Stamp \cup {Null} : emulated' = [emulated EXCEPT ![h] = t]
  BY <1>3, <1>4, Zenon
<1>6. pc' = [pc EXCEPT ![h] = IF Directories(l) = <<>> THEN "source" ELSE "walk"]
  BY <1>1, Zenon DEF Goto
<1>7. /\ UNCHANGED <<load, timestamp, logs, filed, htdocs, depth, src, lost, waiting,
                     answered, answer>>
      /\ h \in Offline /\ pc[h] = "read"
  BY DEF ReadOffline, CanRead, conn, disk, replies
<1> DEFINE r == [site |-> s, location |-> l, type |-> "old", found |-> b, touched |-> FALSE]
<1>8. r \in Request /\ r.location = l
  BY DEF Request, Type
<1>9. request' = [request EXCEPT ![h] = r]
  BY <1>2
<1> HIDE DEF r
<1>10. ReplayTypeOK'
  BY <1>5, <1>6, <1>7, <1>8, <1>9 DEF ReplayTypeOK
<1>11. Elsewhere(h)
  <2>1. request \in [Handler -> Request \cup {Null}]
        /\ pc \in [Handler -> {"read", "walk", "mkdir", "source", "open", "write", "log"}]
        /\ emulated \in [Handler -> Stamp \cup {Null}]
    BY DEF ReplayTypeOK
  <2>2. \A k \in Handler \ {h} : /\ pc'[k] = pc[k] /\ request'[k] = request[k]
                                 /\ emulated'[k] = emulated[k]
    BY <1>5, <1>6, <1>9, <2>1
  <2> QED BY <1>7, <2>2 DEF Elsewhere
<1>12. Works(h)'
  <2>1. h \notin Online /\ depth[h] = 0 /\ depth'[h] = 0
    BY <1>7 DEF Working, Works, Building, Online
  <2>2. request'[h] = r /\ request'[h] # Null
    BY <1>8, <1>9, MarkAssumption DEF ReplayTypeOK
  <2>3. pc'[h] = IF Directories(l) = <<>> THEN "source" ELSE "walk"
    BY <1>6 DEF ReplayTypeOK
  <2>4. Directories(l) # <<>> => 0 < Len(Directories(l))
    BY LocationPath, EmptySeq
  <2> QED BY <1>8, <2>1, <2>2, <2>3, <2>4 DEF Works, Building
<1> QED BY <1>10, <1>11, <1>12 DEF Kept

\* Where build_tree goes on after a directory
LEMMA EnteredStep ==
  ASSUME ReplayTypeOK, Working, NEW h \in Handler, Building(h), Entered(h)
  PROVE  /\ pc' \in [Handler -> {"read", "walk", "mkdir", "source", "open", "write", "log"}]
         /\ depth' \in [Handler -> Nat] /\ lost' = lost
         /\ \A k \in Handler \ {h} : pc'[k] = pc[k] /\ depth'[k] = depth[k]
         /\ \/ /\ pc'[h] = "source" /\ depth'[h] = 0
               /\ depth[h] + 1 = Len(Directories(request[h].location))
            \/ /\ pc'[h] = "walk" /\ depth'[h] = depth[h] + 1
               /\ depth[h] + 1 < Len(Directories(request[h].location))
<1>1. /\ pc \in [Handler -> {"read", "walk", "mkdir", "source", "open", "write", "log"}]
      /\ depth \in [Handler -> Nat] /\ depth[h] \in Nat
  BY DEF ReplayTypeOK
<1>2. depth[h] < Len(Directories(request[h].location))
  BY DEF Working, Works
<1>3. Len(Directories(request[h].location)) \in Nat
  <2>1. request[h] # Null
    BY DEF Building, Working, Works
  <2>2. request[h].location \in Location
    BY <2>1 DEF ReplayTypeOK, Request
  <2> QED BY <2>2, LocationPath
<1>4. CASE depth[h] + 1 = Len(Directories(request[h].location))
  BY <1>1, <1>4 DEF Entered, Goto
<1>5. CASE depth[h] + 1 # Len(Directories(request[h].location))
  <2>1. depth[h] + 1 < Len(Directories(request[h].location))
    BY <1>1, <1>2, <1>3, <1>5
  <2>2. /\ depth' = [depth EXCEPT ![h] = depth[h] + 1]
        /\ pc' = [pc EXCEPT ![h] = "walk"] /\ lost' = lost
    BY <1>5, Zenon DEF Entered, Goto
  <2> QED BY <1>1, <2>1, <2>2
<1> QED BY <1>4, <1>5

\* The directory that is looked at is a path.
LEMMA NextDirPath ==
  ASSUME ReplayTypeOK, Working, NEW h \in Handler, Building(h)
  PROVE  /\ request[h] \in Request /\ request[h].location \in Location
         /\ depth[h] + 1 \in 1 .. Len(request[h].location) - 1
         /\ NextDir(h) = SubSeq(request[h].location, 1, depth[h] + 1)
         /\ NextDir(h) \in Paths /\ h \notin Online
<1>1. request[h] \in Request /\ h \notin Online
  BY DEF ReplayTypeOK, Building, Working, Works
<1>2. request[h].location \in Location
  BY <1>1 DEF Request
<1>3. depth[h] < Len(Directories(request[h].location)) /\ depth[h] \in Nat
  BY DEF ReplayTypeOK, Working, Works
<1>4. depth[h] + 1 \in 1 .. Len(request[h].location) - 1
  <2>1. Len(Directories(request[h].location)) = Len(request[h].location) - 1
        /\ Len(request[h].location) \in Nat
    BY <1>2, LocationPath
  <2> QED BY <1>3, <2>1
<1>5. /\ SubSeq(Directories(request[h].location), 1, depth[h] + 1)
           = SubSeq(request[h].location, 1, depth[h] + 1)
      /\ SubSeq(request[h].location, 1, depth[h] + 1) \in Paths
  BY <1>2, <1>4, LocationPath
<1> QED BY <1>1, <1>2, <1>4, <1>5 DEF NextDir

LEMMA ChangeDirKeeps ==
  ASSUME ReplayTypeOK, Working, NEW h \in Handler, ChangeDir(h), overlapped' \in BOOLEAN
  PROVE  Kept(h)
<1>1. /\ UNCHANGED <<load, timestamp, logs, filed, htdocs, request, emulated, src, waiting,
                     answered, answer>>
      /\ Building(h) /\ pc[h] = "walk"
  BY DEF ChangeDir, conn, disk, replies, Building
<1>2. /\ pc' \in [Handler -> {"read", "walk", "mkdir", "source", "open", "write", "log"}]
      /\ depth' \in [Handler -> Nat] /\ lost' = lost
      /\ \A k \in Handler \ {h} : pc'[k] = pc[k] /\ depth'[k] = depth[k]
      /\ \/ pc'[h] = "source" /\ depth'[h] = 0
         \/ /\ pc'[h] \in {"walk", "mkdir"}
            /\ depth'[h] < Len(Directories(request[h].location))
  <2>1. CASE Entered(h)
    BY <1>1, <2>1, EnteredStep
  <2>2. CASE Goto(h, "mkdir") /\ UNCHANGED <<depth, lost>>
    BY <1>1, <2>2 DEF Goto, ReplayTypeOK, Working, Works
  <2> QED BY <2>1, <2>2 DEF ChangeDir
<1>3. ReplayTypeOK'
  BY <1>1, <1>2 DEF ReplayTypeOK
<1>4. Elsewhere(h)
  BY <1>1, <1>2 DEF Elsewhere
<1>5. Works(h)'
  <2>1. h \notin Online /\ request[h] # Null
    BY <1>1 DEF Working, Works, Building
  <2> QED BY <1>1, <1>2, <2>1 DEF Works, Building
<1> QED BY <1>3, <1>4, <1>5 DEF Kept

LEMMA MakeDirKeeps ==
  ASSUME ReplayTypeOK, Working, NEW h \in Handler, MakeDir(h), overlapped' \in BOOLEAN
  PROVE  Kept(h)
<1>1. /\ UNCHANGED <<load, timestamp, logs, filed, request, emulated, src, waiting,
                     answered, answer>>
      /\ Building(h) /\ pc[h] = "mkdir"
  BY DEF MakeDir, conn, replies, Building
<1>2. NextDir(h) \in Paths /\ h \notin Online
  BY <1>1, NextDirPath
<1>3. /\ pc' \in [Handler -> {"read", "walk", "mkdir", "source", "open", "write", "log"}]
      /\ depth' \in [Handler -> Nat] /\ lost' \in [Handler -> BOOLEAN]
      /\ \A k \in Handler \ {h} : pc'[k] = pc[k] /\ depth'[k] = depth[k] /\ lost'[k] = lost[k]
      /\ \/ pc'[h] = "source" /\ depth'[h] = 0
         \/ pc'[h] = "walk" /\ depth'[h] < Len(Directories(request[h].location))
  <2>1. CASE Entered(h)
    BY <1>1, <2>1, EnteredStep DEF ReplayTypeOK
  <2>2. CASE /\ lost' = [lost EXCEPT ![h] = TRUE]
             /\ depth' = [depth EXCEPT ![h] = 0]
             /\ Goto(h, "source")
    BY <2>2 DEF Goto, ReplayTypeOK
  <2> QED BY <2>1, <2>2 DEF MakeDir
<1>4. /\ htdocs' \in [Paths -> Page \cup {Null, Directory}]
      /\ \A p \in Paths : /\ htdocs[p] = Directory => htdocs'[p] = Directory
                          /\ htdocs[p] \in Page => htdocs'[p] \in Page
  <2>1. htdocs \in [Paths -> Page \cup {Null, Directory}]
    BY DEF ReplayTypeOK
  <2>2. CASE htdocs' = htdocs
    BY <2>1, <2>2
  <2>3. CASE htdocs[NextDir(h)] = Null /\ htdocs' = [htdocs EXCEPT ![NextDir(h)] = Directory]
    BY <1>2, <2>1, <2>3, MarkAssumption
  <2> QED BY <2>2, <2>3 DEF MakeDir
<1>5. ReplayTypeOK'
  BY <1>1, <1>3, <1>4 DEF ReplayTypeOK
<1>6. Elsewhere(h)
  BY <1>1, <1>3, <1>4 DEF Elsewhere
<1>7. Works(h)'
  <2>1. request[h] # Null
    BY <1>1 DEF Working, Works, Building
  <2> QED BY <1>1, <1>2, <1>3, <2>1 DEF Works, Building
<1> QED BY <1>5, <1>6, <1>7 DEF Kept

LEMMA FindSourceKeeps ==
  ASSUME ReplayTypeOK, Working, NEW h \in Handler, FindSource(h), overlapped' \in BOOLEAN
  PROVE  Kept(h)
<1>1. /\ UNCHANGED <<load, timestamp, logs, filed, htdocs, emulated, depth, lost, waiting,
                     answered, answer>>
      /\ pc[h] = "source" /\ pc' = [pc EXCEPT ![h] = "open"]
  BY DEF FindSource, Goto, conn, disk, replies
<1>2. request[h] \in Request /\ h \notin Online /\ depth[h] = 0
  BY <1>1 DEF ReplayTypeOK, Working, Works, Building
<1>3. PICK s \in Sources(h) :
        IF s = Null
          THEN /\ src' = [src EXCEPT ![h] = DummyPage]
               /\ request' = [request EXCEPT ![h].type = "dummy"]
          ELSE /\ src' = [src EXCEPT ![h] = s]
               /\ UNCHANGED request
  BY DEF FindSource
<1>4. s \in Name \cup {Garbage, DummyPage, Null}
  <2>1. CASE emulated[h] = Null
    BY <2>1 DEF Sources, ReplayTypeOK
  <2>2. CASE emulated[h] # Null
    <3>1. PICK i \in DOMAIN logs : s = logs[i].body
      BY <2>2 DEF Sources
    <3>2. logs[i] \in LogRow
      BY DEF ReplayTypeOK
    <3> QED BY <3>1, <3>2 DEF LogRow
  <2> QED BY <2>1, <2>2
<1>5. /\ src' \in [Handler -> Name \cup {Garbage, DummyPage}]
      /\ \A k \in Handler \ {h} : src'[k] = src[k]
  BY <1>3, <1>4 DEF ReplayTypeOK
<1>6. /\ request' \in [Handler -> Request \cup {Null}]
      /\ \A k \in Handler \ {h} : request'[k] = request[k]
      /\ request'[h] \in Request
  <2>1. request \in [Handler -> Request \cup {Null}]
    BY DEF ReplayTypeOK
  <2>2. CASE request' = request
    BY <1>2, <2>1, <2>2
  <2>3. CASE request' = [request EXCEPT ![h].type = "dummy"]
    <3> DEFINE r == [request[h] EXCEPT !.type = "dummy"]
    <3>1. r \in Request
      BY <1>2 DEF Request, Type
    <3>2. request' = [request EXCEPT ![h] = r]
      BY <2>3, Zenon
    <3> HIDE DEF r
    <3> QED BY <2>1, <3>1, <3>2
  <2> QED BY <1>3, <2>2, <2>3
<1>7. \A k \in Handler \ {h} : pc'[k] = pc[k]
  BY <1>1 DEF ReplayTypeOK
<1>8. pc' \in [Handler -> {"read", "walk", "mkdir", "source", "open", "write", "log"}]
      /\ pc'[h] = "open"
  BY <1>1 DEF ReplayTypeOK
<1>9. ReplayTypeOK'
  BY <1>1, <1>5, <1>6, <1>8 DEF ReplayTypeOK
<1>10. Elsewhere(h)
  BY <1>1, <1>5, <1>6, <1>7 DEF Elsewhere
<1>11. Works(h)'
  <2>1. request'[h] # Null
    BY <1>6, MarkAssumption
  <2> QED BY <1>1, <1>2, <1>8, <2>1 DEF Works, Building
<1> QED BY <1>9, <1>10, <1>11 DEF Kept

\* The page of a request in work can be looked at.
LEMMA PagePath ==
  ASSUME ReplayTypeOK, Working, NEW h \in Handler, pc[h] # "read"
  PROVE  /\ request[h] \in Request /\ request[h].location \in Location
         /\ Destination(request[h].location) \in Paths /\ h \notin Online
<1>1. request[h] \in Request /\ h \notin Online
  BY DEF ReplayTypeOK, Working, Works
<1>2. request[h].location \in Location
  BY <1>1 DEF Request
<1> QED BY <1>1, <1>2, LocationPath

LEMMA OpenPageKeeps ==
  ASSUME ReplayTypeOK, Working, NEW h \in Handler, OpenPage(h), overlapped' \in BOOLEAN
  PROVE  Kept(h)
<1> DEFINE l == request[h].location
           d == Destination(l)
<1>1. /\ UNCHANGED <<load, timestamp, logs, filed, emulated, depth, src, lost, answered, answer>>
      /\ pc[h] = "open" /\ pc' = [pc EXCEPT ![h] = "write"]
      /\ CanOpen(h) /\ htdocs[d] # Directory
      /\ htdocs' = [htdocs EXCEPT ![d] = EmptyPage] /\ Touched(h, d)
  BY DEF OpenPage, CanCreate, Goto, conn
<1>2. request[h] \in Request /\ l \in Location /\ d \in Paths /\ h \notin Online
  BY <1>1, PagePath
<1>3. /\ request' \in [Handler -> Request \cup {Null}]
      /\ waiting' \in [Handler -> Seq(Request)]
      /\ request'[h] = request[h]
      /\ \A k \in Handler :
           /\ request'[k] = Null <=> request[k] = Null
           /\ request[k] # Null =>
                /\ request'[k].site = request[k].site
                /\ request'[k].location = request[k].location
                /\ request'[k].type = request[k].type
                /\ request'[k].found = request[k].found
                /\ ~request'[k].touched => ~request[k].touched
           /\ DOMAIN waiting'[k] = DOMAIN waiting[k] /\ Len(waiting'[k]) = Len(waiting[k])
           /\ \A i \in DOMAIN waiting[k] :
                /\ waiting'[k][i].site = waiting[k][i].site
                /\ waiting'[k][i].location = waiting[k][i].location
                /\ waiting'[k][i].type = waiting[k][i].type
                /\ waiting'[k][i].found = waiting[k][i].found
                /\ ~waiting'[k][i].touched => ~waiting[k][i].touched
  BY <1>1, <1>2, TouchedStep
<1>4. /\ htdocs' \in [Paths -> Page \cup {Null, Directory}] /\ htdocs'[d] = EmptyPage
      /\ \A p \in Paths : /\ htdocs[p] = Directory => htdocs'[p] = Directory
                          /\ htdocs[p] \in Page => htdocs'[p] \in Page
  <2>1. htdocs \in [Paths -> Page \cup {Null, Directory}]
    BY DEF ReplayTypeOK
  <2>2. EmptyPage \in Page
    BY DEF Page
  <2> HIDE DEF l
  <2> QED BY <1>1, <1>2, <2>1, <2>2
<1>5. /\ pc' \in [Handler -> {"read", "walk", "mkdir", "source", "open", "write", "log"}]
      /\ pc'[h] = "write" /\ \A k \in Handler \ {h} : pc'[k] = pc[k]
  BY <1>1 DEF ReplayTypeOK
<1>6. ReplayTypeOK'
  BY <1>1, <1>3, <1>4, <1>5 DEF ReplayTypeOK
<1>7. Elsewhere(h)
  BY <1>1, <1>3, <1>4, <1>5 DEF Elsewhere
<1>8. Works(h)'
  <2>1. depth[h] = 0 /\ request'[h] # Null /\ request'[h].location = l
    BY <1>1, <1>3 DEF Working, Works, Building
  <2>2. src[h] = DummyPage \/ src[h] \in DOMAIN filed
    BY <1>1 DEF CanOpen
  <2>3. htdocs'[d] \in Page
    BY <1>4 DEF Page
  <2> QED BY <1>1, <1>2, <1>5, <2>1, <2>2, <2>3 DEF Works, Building
<1> QED BY <1>6, <1>7, <1>8 DEF Kept

LEMMA CopyFailsKeeps ==
  ASSUME ReplayTypeOK, Working, NEW h \in Handler, CopyFails(h), overlapped' \in BOOLEAN
  PROVE  Kept(h)
<1>1. /\ UNCHANGED <<load, timestamp, logs, filed, htdocs, request, emulated, depth, src, lost,
                     waiting, answered, answer>>
      /\ pc[h] = "open" /\ pc' = [pc EXCEPT ![h] = "log"]
  BY DEF CopyFails, Goto, conn, disk, replies
<1>2. /\ pc' \in [Handler -> {"read", "walk", "mkdir", "source", "open", "write", "log"}]
      /\ pc'[h] = "log" /\ \A k \in Handler \ {h} : pc'[k] = pc[k]
  BY <1>1 DEF ReplayTypeOK
<1>3. ReplayTypeOK'
  BY <1>1, <1>2 DEF ReplayTypeOK
<1>4. Elsewhere(h)
  BY <1>1, <1>2 DEF Elsewhere
<1>5. Works(h)'
  BY <1>1, <1>2 DEF Working, Works, Building
<1> QED BY <1>3, <1>4, <1>5 DEF Kept

\* The content that is copied, and what is left in the page by it
LEMMA Written ==
  ASSUME ReplayTypeOK, Working, NEW h \in Handler, WritePage(h)
  PROVE  /\ Content(src[h]) \in Page
         /\ \E page \in Page :
              /\ htdocs' = [htdocs EXCEPT ![Destination(request[h].location)] = page]
              /\ htdocs[Destination(request[h].location)] \in {EmptyPage, Content(src[h])} =>
                   page = Content(src[h])
              /\ page \in {Content(src[h]), MixedPage}
<1>1. pc[h] = "write"
  BY DEF WritePage
<1>2. Content(src[h]) \in Page
  <2>1. CASE src[h] = DummyPage
    BY <2>1 DEF Content, Page
  <2>2. CASE src[h] # DummyPage
    BY <1>1, <2>2 DEF Content, Working, Works, ReplayTypeOK
  <2> QED BY <2>1, <2>2
<1>3. PICK page \in {Content(src[h])} \cup
              (IF htdocs[Destination(request[h].location)] \in {EmptyPage, Content(src[h])} THEN {}
               ELSE {MixedPage}) :
        htdocs' = [htdocs EXCEPT ![Destination(request[h].location)] = page]
  BY Zenon DEF WritePage
<1>4. /\ page \in {Content(src[h]), MixedPage}
      /\ htdocs[Destination(request[h].location)] \in {EmptyPage, Content(src[h])} => page = Content(src[h])
  BY <1>3
<1>5. page \in Page
  BY <1>2, <1>4 DEF Page
<1> QED BY <1>2, <1>3, <1>4, <1>5

LEMMA WritePageKeeps ==
  ASSUME ReplayTypeOK, Working, NEW h \in Handler, WritePage(h), overlapped' \in BOOLEAN
  PROVE  Kept(h)
<1> DEFINE l == request[h].location
           d == Destination(l)
<1>1. /\ UNCHANGED <<load, timestamp, logs, filed, emulated, depth, src, lost, answered, answer>>
      /\ pc[h] = "write" /\ pc' = [pc EXCEPT ![h] = "log"] /\ Touched(h, d)
  BY DEF WritePage, Goto, conn
<1>2. request[h] \in Request /\ l \in Location /\ d \in Paths /\ h \notin Online
  BY <1>1, PagePath
<1>3. /\ request' \in [Handler -> Request \cup {Null}]
      /\ waiting' \in [Handler -> Seq(Request)]
      /\ request'[h] = request[h]
      /\ \A k \in Handler :
           /\ request'[k] = Null <=> request[k] = Null
           /\ request[k] # Null =>
                /\ request'[k].site = request[k].site
                /\ request'[k].location = request[k].location
                /\ request'[k].type = request[k].type
                /\ request'[k].found = request[k].found
                /\ ~request'[k].touched => ~request[k].touched
           /\ DOMAIN waiting'[k] = DOMAIN waiting[k] /\ Len(waiting'[k]) = Len(waiting[k])
           /\ \A i \in DOMAIN waiting[k] :
                /\ waiting'[k][i].site = waiting[k][i].site
                /\ waiting'[k][i].location = waiting[k][i].location
                /\ waiting'[k][i].type = waiting[k][i].type
                /\ waiting'[k][i].found = waiting[k][i].found
                /\ ~waiting'[k][i].touched => ~waiting[k][i].touched
  BY <1>1, <1>2, TouchedStep
<1>4. /\ htdocs' \in [Paths -> Page \cup {Null, Directory}]
      /\ \A p \in Paths : /\ htdocs[p] = Directory => htdocs'[p] = Directory
                          /\ htdocs[p] \in Page => htdocs'[p] \in Page
  <2>1. htdocs \in [Paths -> Page \cup {Null, Directory}]
    BY DEF ReplayTypeOK
  <2>2. htdocs[d] \in Page /\ htdocs[d] # Directory
    BY <1>1, MarkAssumption DEF Working, Works
  <2>3. PICK page \in Page : htdocs' = [htdocs EXCEPT ![d] = page]
    BY Written
  <2> HIDE DEF l
  <2> QED BY <1>1, <1>2, <2>1, <2>2, <2>3
<1>5. /\ pc' \in [Handler -> {"read", "walk", "mkdir", "source", "open", "write", "log"}]
      /\ pc'[h] = "log" /\ \A k \in Handler \ {h} : pc'[k] = pc[k]
  BY <1>1 DEF ReplayTypeOK
<1>6. ReplayTypeOK'
  BY <1>1, <1>3, <1>4, <1>5 DEF ReplayTypeOK
<1>7. Elsewhere(h)
  BY <1>1, <1>3, <1>4, <1>5 DEF Elsewhere
<1>8. Works(h)'
  <2>1. depth[h] = 0 /\ request'[h] # Null
    BY <1>1, <1>3 DEF Working, Works, Building
  <2> QED BY <1>1, <1>2, <1>5, <2>1 DEF Works, Building
<1> QED BY <1>6, <1>7, <1>8 DEF Kept

LEMMA LogRequestKeeps ==
  ASSUME ReplayTypeOK, Working, NEW h \in Handler, LogRequest(h), overlapped' \in BOOLEAN
  PROVE  Kept(h)
<1>1. /\ UNCHANGED <<load, timestamp, filed, htdocs, emulated, depth, src, lost,
                     answered, answer>>
      /\ pc[h] = "log" /\ pc' = [pc EXCEPT ![h] = "read"]
      /\ request' = [request EXCEPT ![h] = Null] /\ Forward(h, request[h])
  BY DEF LogRequest, Goto, conn, disk
<1>2. request[h] \in Request /\ h \notin Online
  BY <1>1, PagePath
<1>3. /\ logs' \in Seq(LogRow) /\ waiting' \in [Handler -> Seq(Request)]
      /\ DOMAIN logs' = DOMAIN logs \cup {Len(logs) + 1}
      /\ \A i \in DOMAIN logs : logs'[i] = logs[i]
      /\ \A k \in Handler : k # h => waiting'[k] = waiting[k]
  BY <1>1, <1>2, Forwarded
<1>4. /\ pc' \in [Handler -> {"read", "walk", "mkdir", "source", "open", "write", "log"}]
      /\ pc'[h] = "read" /\ request'[h] = Null
      /\ request' \in [Handler -> Request \cup {Null}]
      /\ \A k \in Handler \ {h} : pc'[k] = pc[k] /\ request'[k] = request[k]
  BY <1>1 DEF ReplayTypeOK
<1>5. ReplayTypeOK'
  BY <1>1, <1>3, <1>4 DEF ReplayTypeOK
<1>6. Elsewhere(h)
  BY <1>1, <1>3, <1>4 DEF Elsewhere
<1>7. Works(h)'
  <2>1. depth[h] = 0
    BY <1>1 DEF Working, Works, Building
  <2> QED BY <1>1, <1>2, <1>4, <2>1 DEF Works, Building
<1> QED BY <1>5, <1>6, <1>7 DEF Kept

\* Filing a response changes nothing that is in work.
LEMMA FileKeeps ==
  ASSUME ReplayTypeOK, Working, NEW h \in Handler, NEW page \in Page,
         pc[h] = "read", waiting[h] # <<>>, File(h, page),
         UNCHANGED <<load, timestamp, htdocs, pc, request, emulated, depth, src, lost>>,
         \A k \in Handler \ {h} : answer'[k] = answer[k],
         overlapped' \in BOOLEAN
  PROVE  Kept(h)
<1>1. /\ logs' \in Seq(LogRow) /\ DOMAIN logs' = DOMAIN logs
      /\ \A i \in DOMAIN logs :
           /\ logs'[i].ts = logs[i].ts /\ logs'[i].site = logs[i].site
           /\ logs'[i].location = logs[i].location /\ logs'[i].type = logs[i].type
      /\ DOMAIN filed' \subseteq Name /\ \A n \in DOMAIN filed' : filed'[n] \in Page
      /\ \A n \in DOMAIN filed : n \in DOMAIN filed'
      /\ answered' \in [Handler -> Nat] /\ waiting' \in [Handler -> Seq(Request)]
      /\ \A k \in Handler : k # h => waiting'[k] = waiting[k]
  BY FileStep
<1>2. ReplayTypeOK'
  BY <1>1 DEF ReplayTypeOK
<1>3. Elsewhere(h)
  BY <1>1 DEF Elsewhere
<1>4. Works(h)'
  BY <1>1 DEF Working, Works, Building
<1> QED BY <1>2, <1>3, <1>4 DEF Kept

\* The first request that was not answered
LEMMA Headed ==
  ASSUME ReplayTypeOK, NEW h \in Handler, waiting[h] # <<>>
  PROVE  /\ Head(waiting[h]) = waiting[h][1] /\ 1 \in DOMAIN waiting[h]
         /\ waiting[h][1] \in Request /\ waiting[h][1].location \in Location
         /\ PathOf(waiting[h][1].location) \in Paths
<1>1. waiting[h] \in Seq(Request)
  BY DEF ReplayTypeOK
<1>2. /\ Head(waiting[h]) = waiting[h][1] /\ 1 \in DOMAIN waiting[h]
      /\ waiting[h][1] \in Request
  BY <1>1, EmptySeq
<1>3. waiting[h][1].location \in Location
  BY <1>2 DEF Request
<1> QED BY <1>2, <1>3, LocationPath

LEMMA RealResponseKeeps ==
  ASSUME ReplayTypeOK, Working, NEW h \in Handler, RealResponse(h), overlapped' \in BOOLEAN
  PROVE  Kept(h)
<1> DEFINE r == waiting[h][1]
           page == [site |-> r.site, location |-> r.location, ts |-> timestamp[h]]
<1>1. /\ UNCHANGED <<load, timestamp, htdocs, pc, request, emulated, depth, src, lost, answer>>
      /\ pc[h] = "read" /\ waiting[h] # <<>>
  BY DEF RealResponse, conn
<1>2. r = Head(waiting[h]) /\ r \in Request
  BY <1>1, Headed
<1>3. File(h, page)
  BY <1>2 DEF RealResponse
<1>4. page \in Page
  <2>1. timestamp[h] \in Stamp
    BY DEF ReplayTypeOK
  <2> QED BY <1>2, <2>1 DEF Page, Real, Request
<1> HIDE DEF page
<1> QED BY <1>1, <1>3, <1>4, FileKeeps

LEMMA LocalResponseKeeps ==
  ASSUME ReplayTypeOK, Working, NEW h \in Handler, LocalResponse(h), overlapped' \in BOOLEAN
  PROVE  Kept(h)
<1> DEFINE r == Head(waiting[h])
           there == htdocs[PathOf(r.location)]
           page == IF there \in {Null, Directory} THEN ErrorPage ELSE there
<1>1. /\ UNCHANGED <<load, timestamp, htdocs, pc, request, emulated, depth, src, lost>>
      /\ pc[h] = "read" /\ waiting[h] # <<>> /\ File(h, page)
      /\ \A k \in Handler \ {h} : answer'[k] = answer[k]
  <2>1. /\ UNCHANGED <<load, timestamp, htdocs, pc, request, emulated, depth, src, lost>>
        /\ pc[h] = "read" /\ waiting[h] # <<>> /\ File(h, page)
    BY DEF LocalResponse, conn
  <2>2. \A k \in Handler \ {h} : answer'[k] = answer[k]
    BY DEF LocalResponse
  <2> QED BY <2>1, <2>2
<1>2. there \in Page \cup {Null, Directory}
  BY <1>1, Headed DEF ReplayTypeOK
<1>3. page \in Page
  BY <1>2 DEF Page
<1> HIDE DEF page
<1> QED BY <1>1, <1>3, FileKeeps

\* What a step of h does to the others
LEMMA StepKeeps ==
  ASSUME ReplayTypeOK, Working, NEW h \in Handler, Step(h), overlapped' \in BOOLEAN
  PROVE  Kept(h)
BY ReadRequestKeeps, ReadOfflineKeeps, ChangeDirKeeps, MakeDirKeeps, FindSourceKeeps,
   OpenPageKeeps, CopyFailsKeeps, WritePageKeeps, LogRequestKeeps, RealResponseKeeps,
   LocalResponseKeeps, Zenon DEF Step

\* The requests in work stay consistent, those of the other handlers too.
LEMMA StepWorking ==
  ASSUME ReplayTypeOK, Working, NEW h \in Handler, Kept(h)
  PROVE  ReplayTypeOK' /\ Working'
<1>1. Works(h)' /\ Elsewhere(h) /\ ReplayTypeOK'
  BY DEF Kept
<1>2. ASSUME NEW k \in Handler \ {h}
      PROVE  Works(k)'
  <2>1. /\ pc'[k] = pc[k] /\ depth'[k] = depth[k] /\ src'[k] = src[k] /\ lost'[k] = lost[k]
        /\ request'[k] = Null <=> request[k] = Null
        /\ request[k] # Null => request'[k].location = request[k].location
        /\ \A n \in DOMAIN filed : n \in DOMAIN filed'
        /\ \A p \in Paths : htdocs[p] \in Page => htdocs'[p] \in Page
    BY <1>1 DEF Elsewhere
  <2>2. Works(k)
    BY DEF Working
  <2>3. pc[k] = "write" => request[k] # Null /\ Destination(request[k].location) \in Paths
    BY <2>2, PagePath, MarkAssumption
  <2>4. Building(k) => request[k] # Null
    BY <2>2 DEF Building, Works
  <2> QED BY <2>1, <2>2, <2>3, <2>4 DEF Works, Building
<1> QED BY <1>1, <1>2 DEF Working

\* Every step is one of a handler.
LEMMA NextStep ==
  ASSUME ReplayTypeOK, Working, ReplayNext
  PROVE  \E h \in Handler : Step(h) /\ Kept(h)
<1>1. overlapped' \in BOOLEAN
  BY Zenon DEF ReplayNext, ReplayTypeOK
<1>2. PICK h \in Handler : Step(h)
  BY DEF ReplayNext
<1> QED BY <1>1, <1>2, StepKeeps

LEMMA InitWorking == ReplayInit => ReplayTypeOK /\ Working
<1> SUFFICES ASSUME ReplayInit
             PROVE  ReplayTypeOK /\ Working
  OBVIOUS
<1>1. load \in [Handler -> Nat] /\ timestamp \in [Handler -> Stamp]
  BY HandlerAssumption DEF ReplayInit
<1>2. logs \in Seq(LogRow) /\ waiting \in [Handler -> Seq(Request)]
  BY DEF ReplayInit
<1>3. ReplayTypeOK
  <2>1. DOMAIN filed = {}
    BY DEF ReplayInit
  <2>2. htdocs \in [Paths -> Page \cup {Null, Directory}]
    BY DEF ReplayInit
  <2>3. /\ request \in [Handler -> Request \cup {Null}]
        /\ emulated \in [Handler -> Stamp \cup {Null}]
        /\ src \in [Handler -> Name \cup {Garbage, DummyPage}]
    BY DEF ReplayInit
  <2> QED BY <1>1, <1>2, <2>1, <2>2, <2>3 DEF ReplayInit, ReplayTypeOK
<1>4. Working
  BY DEF ReplayInit, Working, Works, Building, Online
<1> QED BY <1>3, <1>4

\* Nothing that is described changes when nothing changes.
LEMMA IdleWorking ==
  ASSUME ReplayTypeOK, Working, UNCHANGED replayVars
  PROVE  ReplayTypeOK' /\ Working'
<1>1. UNCHANGED <<load, timestamp, logs, filed, htdocs, pc, request, emulated, depth, src,
                  lost, waiting, answered, answer, overlapped>>
  BY DEF replayVars, conn, disk, replies
<1>2. ReplayTypeOK'
  BY <1>1 DEF ReplayTypeOK
<1>3. Working'
  BY <1>1 DEF Working, Works, Building
<1> QED BY <1>2, <1>3

LEMMA ReplayWorks == ReplaySpec => [](ReplayTypeOK /\ Working)
<1>1. ReplayTypeOK /\ Working /\ [ReplayNext]_replayVars => (ReplayTypeOK /\ Working)'
  BY NextStep, StepWorking, IdleWorking
<1> QED BY <1>1, InitWorking, PTL DEF ReplaySpec

\* ReplayTypeOK: what the handlers, the rows, the queues and the pages hold is what the
\* code puts there, and a page that is looked at is one of the tree (http.c:50-104).
THEOREM ReplayTypeCorrect == ReplaySpec => []ReplayTypeOK
<1>1. ReplayTypeOK /\ Working => ReplayTypeOK
  OBVIOUS
<1> QED BY <1>1, ReplayWorks, PTL

-----------------------------------------------------------------------------
\* HttpReplay: what is marked 'new'

\* Requests for services that are offline are not marked 'new'.
Marked ==
    \A h \in Handler :
      /\ request[h] # Null => request[h].type # "new"
      /\ h \in Offline => \A i \in DOMAIN waiting[h] : waiting[h][i].type # "new"

\* The rows marked 'new' are those of the handlers that are online.
Stamped ==
    /\ \A h, k \in Handler : timestamp[h] = timestamp[k] => h = k
    /\ \A i \in DOMAIN logs :
         logs[i].type = "new" <=> \E h \in Online : logs[i].ts = timestamp[h]

\* What a handler that is online files is real, under a name that has its timestamp.
Given ==
    /\ \A i \in DOMAIN logs : logs[i].type = "new" /\ logs[i].body # Null =>
         logs[i].body \in DOMAIN filed /\ logs[i].body[1] = logs[i].ts
    /\ \A n \in DOMAIN filed, h \in Online : n[1] = timestamp[h] =>
         filed[n] \in Real /\ filed[n].ts = timestamp[h]

Told == Marked /\ Stamped /\ Given

\* A step leaves rows and files alone, forwards a request or files a response.
Forwards(h) ==
    \E r \in Request : /\ Forward(h, r) /\ (r.type = "new" <=> h \in Online)
                       /\ filed' = filed
Files(h) ==
    \E page \in Page : /\ File(h, page) /\ waiting[h] # <<>>
                       /\ h \in Online => page \in Real /\ page.ts = timestamp[h]
Quiet(h) ==
    /\ logs' = logs /\ filed' = filed
    /\ DOMAIN waiting'[h] = DOMAIN waiting[h]
    /\ \A i \in DOMAIN waiting[h] : waiting'[h][i].type = waiting[h][i].type

LEMMA RowsMove ==
  ASSUME ReplayTypeOK, Working, Marked, NEW h \in Handler, Step(h)
  PROVE  /\ Forwards(h) \/ Files(h) \/ Quiet(h)
         /\ request'[h] # Null => request'[h].type # "new"
<1>1. request \in [Handler -> Request \cup {Null}] /\ Online = Handler \ Offline
      /\ (request[h] # Null => request[h].type # "new")
  BY DEF ReplayTypeOK, Online, Marked
<1>2. CASE ReadRequest(h)
  <2>1. PICK s \in Site, l \in Location :
          Forward(h, [site |-> s, location |-> l, type |-> "new", found |-> FALSE,
                      touched |-> FALSE])
    BY <1>2 DEF ReadRequest
  <2> DEFINE r == [site |-> s, location |-> l, type |-> "new", found |-> FALSE,
                   touched |-> FALSE]
  <2>2. r \in Request /\ r.type = "new"
    BY DEF Request, Type
  <2>3. filed' = filed /\ request' = request /\ h \in Online /\ Forward(h, r)
    BY <1>1, <1>2, <2>1 DEF ReadRequest, disk
  <2> HIDE DEF r
  <2>4. Forwards(h)
    BY <2>2, <2>3 DEF Forwards
  <2> QED BY <1>1, <2>3, <2>4
<1>3. CASE ReadOffline(h)
  <2>1. UNCHANGED <<logs, filed, waiting>>
    BY <1>3 DEF ReadOffline, disk, replies
  <2>2. \E s, l, b : request' = [request EXCEPT ![h] =
          [site |-> s, location |-> l, type |-> "old", found |-> b, touched |-> FALSE]]
    BY <1>3, Zenon DEF ReadOffline
  <2>3. request'[h].type = "old"
    BY <1>1, <2>2
  <2> QED BY <2>1, <2>3 DEF Quiet
<1>4. CASE ChangeDir(h)
  BY <1>1, <1>4 DEF ChangeDir, disk, replies, Quiet
<1>5. CASE MakeDir(h)
  BY <1>1, <1>5 DEF MakeDir, replies, Quiet
<1>6. CASE FindSource(h)
  <2>1. UNCHANGED <<logs, filed, waiting>> /\ request[h] \in Request
    BY <1>6 DEF FindSource, disk, replies, ReplayTypeOK, Working, Works
  <2>2. request' = request \/ request' = [request EXCEPT ![h].type = "dummy"]
    BY <1>6 DEF FindSource
  <2>3. request' = request \/ request'[h].type = "dummy"
    BY <1>1, <2>1, <2>2 DEF Request
  <2> QED BY <1>1, <2>1, <2>3 DEF Quiet
<1>7. CASE OpenPage(h) \/ WritePage(h)
  <2>1. /\ UNCHANGED <<logs, filed>> /\ Touched(h, Destination(request[h].location))
        /\ pc[h] # "read"
    BY <1>7 DEF OpenPage, WritePage
  <2>2. request[h].location \in Location
    BY <2>1, PagePath
  <2> QED BY <1>1, <2>1, <2>2, TouchedStep DEF Quiet
<1>8. CASE CopyFails(h)
  BY <1>1, <1>8 DEF CopyFails, disk, replies, Quiet
<1>9. CASE LogRequest(h)
  <2>1. pc[h] = "log" /\ Forward(h, request[h]) /\ filed' = filed /\ request'[h] = Null
    BY <1>1, <1>9 DEF LogRequest, disk
  <2>2. request[h] \in Request /\ h \notin Online /\ request[h] # Null
    BY <2>1, PagePath, MarkAssumption
  <2>3. Forwards(h)
    BY <1>1, <2>1, <2>2, Zenon DEF Forwards
  <2> QED BY <2>1, <2>3
<1>10. CASE RealResponse(h)
  <2> DEFINE r == waiting[h][1]
             page == [site |-> r.site, location |-> r.location, ts |-> timestamp[h]]
  <2>1. waiting[h] # <<>> /\ request' = request
    BY <1>10 DEF RealResponse
  <2>2. r = Head(waiting[h]) /\ r \in Request
    BY <2>1, Headed
  <2>3. File(h, page)
    BY <1>10, <2>2 DEF RealResponse
  <2>4. page \in Page /\ page \in Real /\ page.ts = timestamp[h]
    <3>1. timestamp[h] \in Stamp
      BY DEF ReplayTypeOK
    <3> QED BY <2>2, <3>1 DEF Page, Real, Request
  <2> HIDE DEF page
  <2> QED BY <1>1, <2>1, <2>3, <2>4 DEF Files
<1>11. CASE LocalResponse(h)
  <2> DEFINE r == Head(waiting[h])
             there == htdocs[PathOf(r.location)]
             page == IF there \in {Null, Directory} THEN ErrorPage ELSE there
  <2>1. waiting[h] # <<>> /\ request' = request /\ File(h, page) /\ h \in Offline
    BY <1>11 DEF LocalResponse
  <2>2. there \in Page \cup {Null, Directory}
    BY <2>1, Headed DEF ReplayTypeOK
  <2>3. page \in Page
    BY <2>2 DEF Page
  <2> HIDE DEF page
  <2> QED BY <1>1, <2>1, <2>3 DEF Files
<1> QED BY <1>2, <1>3, <1>4, <1>5, <1>6, <1>7, <1>8, <1>9, <1>10, <1>11 DEF Step

LEMMA StepTold ==
  ASSUME ReplayTypeOK, Working, Told, NEW h \in Handler, Step(h), Kept(h)
  PROVE  Told'
<1>1. /\ Forwards(h) \/ Files(h) \/ Quiet(h)
      /\ request'[h] # Null => request'[h].type # "new"
  BY RowsMove DEF Told
<1>2. /\ \A k \in Handler \ {h} :
           /\ request'[k] = Null <=> request[k] = Null
           /\ request[k] # Null => request'[k].type = request[k].type
           /\ DOMAIN waiting'[k] = DOMAIN waiting[k]
           /\ \A i \in DOMAIN waiting[k] : waiting'[k][i].type = waiting[k][i].type
      /\ timestamp' = timestamp
  BY DEF Kept, Elsewhere
<1>3. Online = Handler \ Offline /\ waiting[h] \in Seq(Request)
  BY DEF Online, ReplayTypeOK
<1>4. h \in Offline => \A i \in DOMAIN waiting'[h] : waiting'[h][i].type # "new"
  <2>1. h \in Offline => \A i \in DOMAIN waiting[h] : waiting[h][i].type # "new"
    BY DEF Told, Marked
  <2>2. CASE Forwards(h)
    <3>1. PICK r \in Request : Forward(h, r) /\ (r.type = "new" <=> h \in Online)
      BY <2>2 DEF Forwards
    <3>2. waiting'[h] = Append(waiting[h], r)
      BY <3>1, Forwarded
    <3> QED BY <1>3, <2>1, <3>1, <3>2
  <2>3. CASE Files(h)
    <3>1. waiting[h] # <<>> /\ \E page \in Page : File(h, page)
      BY <2>3 DEF Files
    <3>2. /\ DOMAIN waiting'[h] = 1 .. Len(waiting[h]) - 1
          /\ \A i \in 1 .. Len(waiting[h]) - 1 : waiting'[h][i] = waiting[h][i + 1]
      BY <3>1, FileStep
    <3>3. ASSUME NEW i \in DOMAIN waiting'[h]
          PROVE  waiting'[h][i] = waiting[h][i + 1] /\ i + 1 \in DOMAIN waiting[h]
      BY <1>3, <3>2
    <3> QED BY <2>1, <3>3
  <2>4. CASE Quiet(h)
    BY <2>1, <2>4 DEF Quiet
  <2> QED BY <1>1, <2>2, <2>3, <2>4
<1>5. Marked'
  BY <1>1, <1>2, <1>4 DEF Told, Marked
<1>6. /\ \A k, m \in Handler : timestamp[k] = timestamp[m] => k = m
      /\ \A i \in DOMAIN logs :
           logs[i].type = "new" <=> \E k \in Online : logs[i].ts = timestamp[k]
      /\ \A i \in DOMAIN logs : logs[i].type = "new" /\ logs[i].body # Null =>
           logs[i].body \in DOMAIN filed /\ logs[i].body[1] = logs[i].ts
      /\ \A n \in DOMAIN filed, k \in Online : n[1] = timestamp[k] =>
           filed[n] \in Real /\ filed[n].ts = timestamp[k]
  BY DEF Told, Stamped, Given
<1>7. Stamped' /\ Given'
  <2>1. CASE Forwards(h)
    <3>1. PICK r \in Request :
            Forward(h, r) /\ (r.type = "new" <=> h \in Online) /\ filed' = filed
      BY <2>1 DEF Forwards
    <3>2. /\ DOMAIN logs' = DOMAIN logs \cup {Len(logs) + 1}
          /\ \A i \in DOMAIN logs : logs'[i] = logs[i]
          /\ logs'[Len(logs) + 1].ts = timestamp[h]
          /\ logs'[Len(logs) + 1].type = r.type
          /\ logs'[Len(logs) + 1].body = Null
      <4>1. /\ DOMAIN logs' = DOMAIN logs \cup {Len(logs) + 1}
            /\ \A i \in DOMAIN logs : logs'[i] = logs[i]
            /\ logs'[Len(logs) + 1] = [ts |-> timestamp[h], site |-> r.site,
                                       location |-> r.location, type |-> r.type, body |-> Null]
        BY <3>1, Forwarded
      <4> QED BY <4>1
    <3>3. r.type = "new" <=> \E k \in Online : timestamp[h] = timestamp[k]
      BY <1>3, <1>6, <3>1
    <3> HIDE DEF Forwards
    <3> QED BY <1>2, <1>6, <3>1, <3>2, <3>3 DEF Stamped, Given
  <2>2. CASE Files(h)
    <3>1. PICK page \in Page :
            /\ File(h, page) /\ waiting[h] # <<>>
            /\ h \in Online => page \in Real /\ page.ts = timestamp[h]
      BY <2>2 DEF Files
    <3> DEFINE name == <<timestamp[h], answered[h] + 1>>
    <3>2. name[1] = timestamp[h]
      OBVIOUS
    <3>3. /\ DOMAIN logs' = DOMAIN logs
          /\ \A i \in DOMAIN logs :
               /\ logs'[i].ts = logs[i].ts /\ logs'[i].type = logs[i].type
               /\ logs[i].ts # timestamp[h] => logs'[i].body = logs[i].body
               /\ logs[i].ts = timestamp[h] => logs'[i].body = name
          /\ \A n \in DOMAIN filed : n \in DOMAIN filed'
          /\ \A n \in DOMAIN filed' :
               \/ n \in DOMAIN filed /\ filed'[n] = filed[n]
               \/ n = name /\ filed'[n] = page
          /\ ~lost[h] => name \in DOMAIN filed'
      BY <3>1, FileStep
    <3>4. h \in Online => ~lost[h]
      BY DEF Working, Works
    <3> HIDE DEF name
    <3>5. Stamped'
      BY <1>2, <1>6, <3>3 DEF Stamped
    <3>6. ASSUME NEW i \in DOMAIN logs', logs'[i].type = "new", logs'[i].body # Null
          PROVE  logs'[i].body \in DOMAIN filed' /\ logs'[i].body[1] = logs'[i].ts
      <4>1. i \in DOMAIN logs /\ logs[i].type = "new"
        BY <3>3, <3>6
      <4>2. CASE logs[i].ts = timestamp[h]
        <5>1. h \in Online
          BY <1>6, <4>1, <4>2 DEF Online
        <5> QED BY <3>2, <3>3, <3>4, <4>1, <4>2, <5>1
      <4>3. CASE logs[i].ts # timestamp[h]
        BY <1>6, <3>3, <3>6, <4>1, <4>3
      <4> QED BY <4>2, <4>3
    <3>7. ASSUME NEW n \in DOMAIN filed', NEW k \in Online, n[1] = timestamp[k]
          PROVE  filed'[n] \in Real /\ filed'[n].ts = timestamp[k]
      <4>1. CASE n \in DOMAIN filed /\ filed'[n] = filed[n]
        BY <1>6, <3>7, <4>1
      <4>2. CASE n = name /\ filed'[n] = page
        BY <1>6, <3>1, <3>2, <3>7, <4>2 DEF Online
      <4> QED BY <3>3, <4>1, <4>2
    <3> QED BY <1>2, <3>5, <3>6, <3>7 DEF Given
  <2>3. CASE Quiet(h)
    BY <1>2, <1>6, <2>3 DEF Quiet, Stamped, Given
  <2> QED BY <1>1, <2>1, <2>2, <2>3
<1> QED BY <1>5, <1>7 DEF Told

LEMMA ReplayTold == ReplaySpec => [](ReplayTypeOK /\ Working /\ Told)
<1>1. ReplayInit => Told
  <2> SUFFICES ASSUME ReplayInit
               PROVE  Told
    OBVIOUS
  <2>1. Marked
    BY DEF ReplayInit, Marked
  <2>2. Stamped
    BY DEF ReplayInit, Stamped
  <2>3. Given
    BY DEF ReplayInit, Given
  <2> QED BY <2>1, <2>2, <2>3 DEF Told
<1>2. ReplayTypeOK /\ Working /\ Told /\ [ReplayNext]_replayVars
        => (ReplayTypeOK /\ Working /\ Told)'
  <2> SUFFICES ASSUME ReplayTypeOK, Working, Told, [ReplayNext]_replayVars
               PROVE  (ReplayTypeOK /\ Working /\ Told)'
    OBVIOUS
  <2>1. CASE ReplayNext
    BY <2>1, NextStep, StepWorking, StepTold
  <2>2. CASE UNCHANGED replayVars
    <3>1. UNCHANGED <<timestamp, logs, filed, request, waiting>>
      BY <2>2 DEF replayVars, conn, disk, replies
    <3>2. Marked' /\ Stamped' /\ Given'
      BY <3>1 DEF Told, Marked, Stamped, Given
    <3> QED BY <2>2, <3>2, IdleWorking DEF Told
  <2> QED BY <2>1, <2>2
<1> QED BY <1>1, <1>2, InitWorking, PTL DEF ReplaySpec

\* NoEcho: nothing the TrumanBox invented is taken for real: what a row marked 'new'
\* leads to is a response of a real service, given on that connection (http.c:52, 277;
\* log_postgres.c:222, 230).
THEOREM NothingEchoes == ReplaySpec => []NoEcho
<1>1. Told => NoEcho
  <2> SUFFICES ASSUME Told, NEW i \in DOMAIN logs, logs[i].type = "new", logs[i].body # Null
               PROVE  /\ logs[i].body \in DOMAIN filed
                      /\ filed[logs[i].body] \in Real
                      /\ filed[logs[i].body].ts = logs[i].ts
    BY DEF NoEcho
  <2>1. logs[i].body \in DOMAIN filed /\ logs[i].body[1] = logs[i].ts
    BY DEF Told, Given
  <2>2. PICK h \in Online : logs[i].ts = timestamp[h]
    BY DEF Told, Stamped
  <2> QED BY <2>1, <2>2 DEF Told, Given
<1> QED BY <1>1, ReplayTold, PTL

-----------------------------------------------------------------------------
\* HttpReplay: what becomes of the working directory

\* What the document tree holds, and who is about to add to it
Tree ==
    /\ \A h, k \in Handler : h # k /\ Building(h) /\ Building(k) => overlapped
    /\ \A h \in Handler : pc[h] = "mkdir" /\ htdocs[NextDir(h)] = Directory => overlapped
    /\ \A p \in Paths : htdocs[p] \in Page => \E l \in Asked(Handler) : Destination(l) = p

\* The document tree stays, gets a directory or a page.
LEMMA TreeMoves ==
  ASSUME ReplayTypeOK, Working, NEW h \in Handler, Step(h)
  PROVE  \/ htdocs' = htdocs
         \/ /\ MakeDir(h) /\ Building(h) /\ htdocs[NextDir(h)] = Null
            /\ htdocs' = [htdocs EXCEPT ![NextDir(h)] = Directory]
         \/ /\ OpenPage(h) \/ WritePage(h)
            /\ pc[h] # "read"
            /\ \E page \in Page : htdocs' = [htdocs EXCEPT ![Destination(request[h].location)] = page]
<1>1. CASE ReadRequest(h) \/ ReadOffline(h) \/ ChangeDir(h) \/ FindSource(h) \/ CopyFails(h)
           \/ LogRequest(h) \/ RealResponse(h) \/ LocalResponse(h)
  BY <1>1 DEF ReadRequest, ReadOffline, ChangeDir, FindSource, CopyFails, LogRequest,
              RealResponse, LocalResponse, disk
<1>2. CASE MakeDir(h)
  BY <1>2 DEF MakeDir, Building
<1>3. CASE OpenPage(h)
  BY <1>3 DEF OpenPage, Page
<1>4. CASE WritePage(h)
  <2>1. \E page \in Page : htdocs' = [htdocs EXCEPT ![Destination(request[h].location)] = page]
    BY <1>4, Written
  <2> QED BY <1>4, <2>1 DEF WritePage
<1> QED BY <1>1, <1>2, <1>3, <1>4 DEF Step

\* A request in work keeps its location until it is put into the rows.
LEMMA RequestStays ==
  ASSUME ReplayTypeOK, Working, NEW h \in Handler, Step(h), request[h] # Null
  PROVE  \/ request'[h] # Null /\ request'[h].location = request[h].location
         \/ LogRequest(h)
<1>1. pc[h] # "read" /\ request[h] \in Request /\ request \in [Handler -> Request \cup {Null}]
  BY DEF Working, Works, ReplayTypeOK
<1>2. CASE ReadRequest(h) \/ ReadOffline(h) \/ RealResponse(h) \/ LocalResponse(h)
  BY <1>1, <1>2 DEF ReadRequest, ReadOffline, CanRead, RealResponse, LocalResponse
<1>3. CASE ChangeDir(h) \/ MakeDir(h) \/ CopyFails(h)
  BY <1>3 DEF ChangeDir, MakeDir, CopyFails
<1>4. CASE FindSource(h)
  <2>1. request' = request \/ request' = [request EXCEPT ![h].type = "dummy"]
    BY <1>4 DEF FindSource
  <2>2. CASE request' = [request EXCEPT ![h].type = "dummy"]
    <3> DEFINE r == [request[h] EXCEPT !.type = "dummy"]
    <3>1. r \in Request /\ r.location = request[h].location
      BY <1>1 DEF Request, Type
    <3>2. request'[h] = r
      BY <1>1, <2>2
    <3> QED BY <3>1, <3>2, MarkAssumption
  <2> QED BY <2>1, <2>2
<1>5. CASE OpenPage(h) \/ WritePage(h)
  <2>1. Touched(h, Destination(request[h].location)) /\ request[h].location \in Location
    BY <1>1, <1>5, PagePath DEF OpenPage, WritePage
  <2> QED BY <2>1, TouchedStep
<1> QED BY <1>2, <1>3, <1>4, <1>5 DEF Step

\* What was asked for stays asked for.
LEMMA AskedGrows ==
  ASSUME ReplayTypeOK, Working, NEW h \in Handler, Step(h), Kept(h),
         NEW hs \in SUBSET Handler, NEW l \in Asked(hs)
  PROVE  l \in Asked(hs)'
<1>1. \/ \E i \in DOMAIN logs, k \in hs : logs[i].ts = timestamp[k] /\ l = logs[i].location
      \/ \E k \in hs : request[k] # Null /\ l = request[k].location
  BY Zenon DEF Asked
<1>2. (\E i \in DOMAIN logs', k \in hs : logs'[i].ts = timestamp'[k] /\ l = logs'[i].location)
        => l \in Asked(hs)'
  BY Zenon DEF Asked
<1>3. (\E k \in hs : request'[k] # Null /\ l = request'[k].location) => l \in Asked(hs)'
  BY Zenon DEF Asked
<1>4. /\ \A k \in Handler \ {h} :
           /\ request'[k] = Null <=> request[k] = Null
           /\ request[k] # Null => request'[k].location = request[k].location
      /\ timestamp' = timestamp
      /\ \A i \in DOMAIN logs : /\ i \in DOMAIN logs' /\ logs'[i].ts = logs[i].ts
                                /\ logs'[i].location = logs[i].location
  BY DEF Kept, Elsewhere
<1>5. CASE \E i \in DOMAIN logs, k \in hs : logs[i].ts = timestamp[k] /\ l = logs[i].location
  BY <1>2, <1>4, <1>5
<1>6. ASSUME NEW k \in hs, request[k] # Null, l = request[k].location
      PROVE  l \in Asked(hs)'
  <2>1. CASE k # h
    BY <1>3, <1>4, <1>6, <2>1
  <2>2. CASE k = h
    <3>1. CASE request'[h] # Null /\ request'[h].location = request[h].location
      BY <1>3, <1>6, <2>2, <3>1
    <3>2. CASE LogRequest(h)
      <4>1. request[h] \in Request /\ Forward(h, request[h])
        BY <1>6, <2>2, <3>2 DEF LogRequest, ReplayTypeOK
      <4>2. /\ DOMAIN logs' = DOMAIN logs \cup {Len(logs) + 1}
            /\ logs'[Len(logs) + 1] =
                 [ts |-> timestamp[h], site |-> request[h].site,
                  location |-> request[h].location, type |-> request[h].type, body |-> Null]
        BY <4>1, Forwarded
      <4>3. /\ Len(logs) + 1 \in DOMAIN logs' /\ logs'[Len(logs) + 1].ts = timestamp'[h]
            /\ logs'[Len(logs) + 1].location = l
        BY <1>4, <1>6, <2>2, <4>2
      <4> QED BY <1>2, <2>2, <4>3
    <3> QED BY <1>6, <2>2, <3>1, <3>2, RequestStays
  <2> QED BY <2>1, <2>2
<1> QED BY <1>1, <1>5, <1>6

\* The directory that is looked at stays, unless its handler goes on.
LEMMA NextDirStays ==
  ASSUME ReplayTypeOK, Working, NEW h \in Handler, Kept(h), NEW k \in Handler, k # h,
         Building(k)
  PROVE  NextDir(k)' = NextDir(k) /\ pc'[k] = pc[k]
<1>1. request[k] # Null
  BY DEF Building, Working, Works
<1>2. request'[k].location = request[k].location /\ depth'[k] = depth[k] /\ pc'[k] = pc[k]
  BY <1>1 DEF Kept, Elsewhere
<1> QED BY <1>2 DEF NextDir, Directories

LEMMA StepTree ==
  ASSUME ReplayTypeOK, Working, Tree, ReplayNext, NEW h \in Handler, Step(h), Kept(h)
  PROVE  Tree'
<1>1. \A j, k \in Handler : j # k /\ Building(j)' /\ Building(k)' => overlapped'
  BY DEF ReplayNext
<1>2. overlapped => overlapped'
  BY DEF ReplayNext
<1>3. htdocs \in [Paths -> Page \cup {Null, Directory}]
  BY DEF ReplayTypeOK
<1>4. ASSUME NEW k \in Handler, pc'[k] = "mkdir", htdocs'[NextDir(k)'] = Directory
      PROVE  overlapped'
  <2>1. CASE k = h
    <3>1. ChangeDir(h) /\ Goto(h, "mkdir") /\ htdocs[NextDir(h)] # Directory
      <4>1. pc \in [Handler -> {"read", "walk", "mkdir", "source", "open", "write", "log"}]
            /\ request[h] # Null <=> pc[h] # "read"
        BY DEF ReplayTypeOK, Working, Works
      <4>2. ~MakeDir(h)
        <5>1. SUFFICES ASSUME MakeDir(h)
                       PROVE  FALSE
          OBVIOUS
        <5>2. Building(h)
          BY <5>1 DEF MakeDir, Building
        <5>3. CASE Entered(h)
          BY <1>4, <2>1, <5>2, <5>3, EnteredStep
        <5>4. CASE Goto(h, "source")
          BY <1>4, <2>1, <4>1, <5>4 DEF Goto
        <5> QED BY <5>1, <5>3, <5>4 DEF MakeDir
      <4>3. ~ReadOffline(h)
        <5>1. SUFFICES ASSUME ReadOffline(h)
                       PROVE  FALSE
          OBVIOUS
        <5>2. PICK l \in Location : Goto(h, IF Directories(l) = <<>> THEN "source" ELSE "walk")
          BY <5>1, Zenon DEF ReadOffline
        <5> QED BY <1>4, <2>1, <4>1, <5>2 DEF Goto
      <4>4. ~(FindSource(h) \/ OpenPage(h) \/ CopyFails(h) \/ WritePage(h) \/ LogRequest(h))
        BY <1>4, <2>1, <4>1
           DEF FindSource, OpenPage, CopyFails, WritePage, LogRequest, Goto
      <4>5. ~(ReadRequest(h) \/ RealResponse(h) \/ LocalResponse(h))
        BY <1>4, <2>1, <4>1 DEF ReadRequest, CanRead, RealResponse, LocalResponse
      <4>6. ChangeDir(h)
        BY <4>2, <4>3, <4>4, <4>5 DEF Step
      <4>7. ~Entered(h)
        BY <1>4, <2>1, <4>6, EnteredStep DEF ChangeDir, Building
      <4> QED BY <4>6, <4>7 DEF ChangeDir
    <3>2. NextDir(h)' = NextDir(h) /\ htdocs' = htdocs
      BY <3>1, Zenon DEF ChangeDir, Goto, NextDir, Directories, disk, Entered
    <3> QED BY <1>4, <2>1, <3>1, <3>2
  <2>2. CASE k # h
    <3>1. pc[k] = "mkdir" /\ Building(k) /\ NextDir(k)' = NextDir(k)
      <4>1. pc[k] = "mkdir" /\ Building(k)
        BY <1>4, <2>2 DEF Kept, Elsewhere, Building
      <4> QED BY <2>2, <4>1, NextDirStays
    <3>2. NextDir(k) \in Paths
      BY <3>1, NextDirPath
    <3>3. CASE htdocs'[NextDir(k)] = htdocs[NextDir(k)]
      BY <1>2, <1>4, <3>1, <3>3 DEF Tree
    <3>4. CASE MakeDir(h) /\ Building(h)
      BY <1>2, <2>2, <3>1, <3>4 DEF Tree
    <3>5. ASSUME NEW page \in Page, pc[h] # "read",
                 htdocs' = [htdocs EXCEPT ![Destination(request[h].location)] = page]
          PROVE  htdocs'[NextDir(k)] = htdocs[NextDir(k)]
      <4>1. htdocs'[NextDir(k)] \in {page, htdocs[NextDir(k)]}
        BY <1>3, <3>2, <3>5
      <4> QED BY <1>4, <3>1, <4>1, MarkAssumption
    <3> QED BY <3>3, <3>4, <3>5, TreeMoves
  <2> QED BY <2>1, <2>2
<1>5. ASSUME NEW p \in Paths, htdocs'[p] \in Page
      PROVE  \E l \in Asked(Handler)' : Destination(l) = p
  <2>1. \E l \in Asked(Handler) : Destination(l) = p
    <3>1. CASE htdocs[p] \in Page
      BY <3>1 DEF Tree
    <3>2. CASE htdocs[p] \notin Page
      <4>1. pc[h] # "read" /\ p = Destination(request[h].location)
        <5>1. ~(htdocs' = htdocs)
          BY <1>5, <3>2
        <5>2. ~(htdocs' = [htdocs EXCEPT ![NextDir(h)] = Directory])
          <6>1. SUFFICES ASSUME htdocs' = [htdocs EXCEPT ![NextDir(h)] = Directory]
                         PROVE  FALSE
            OBVIOUS
          <6>2. htdocs'[p] \in {Directory, htdocs[p]}
            BY <1>3, <6>1
          <6> QED BY <1>5, <3>2, <6>2, MarkAssumption
        <5>3. /\ pc[h] # "read"
              /\ \E page \in Page : htdocs' = [htdocs EXCEPT ![Destination(request[h].location)] = page]
          BY <5>1, <5>2, TreeMoves
        <5> QED BY <1>3, <1>5, <3>2, <5>3
      <4>2. request[h] # Null
        BY <4>1 DEF Working, Works
      <4>3. request[h].location \in Asked(Handler)
        BY <4>2, Zenon DEF Asked
      <4> QED BY <4>1, <4>3
    <3> QED BY <3>1, <3>2
  <2> QED BY <2>1, AskedGrows
<1>6. \A k \in Handler : pc'[k] = "mkdir" /\ htdocs'[NextDir(k)'] = Directory => overlapped'
  BY <1>4
<1>7. \A p \in Paths : htdocs'[p] \in Page => \E l \in Asked(Handler)' : Destination(l) = p
  BY <1>5
<1> QED BY <1>1, <1>6, <1>7, Zenon DEF Tree

\* A handler that has lost its working directory asked for a page below another page,
\* or directories were built at once.
LEMMA StepHome ==
  ASSUME ReplayTypeOK, Working, Tree, HomeKept, ReplayNext, NEW h \in Handler, Step(h), Kept(h)
  PROVE  HomeKept'
<1> SUFFICES ASSUME NEW k \in Handler, lost'[k], ~overlapped'
             PROVE  \E l \in Asked({k})', m \in Asked(Handler)' :
                      \E n \in 1 .. Len(l) - 1 : Destination(m) = SubSeq(l, 1, n)
  BY DEF HomeKept
<1>1. ~overlapped
  BY DEF ReplayNext
<1> SUFFICES \E l \in Asked({k}), m \in Asked(Handler) :
               \E n \in 1 .. Len(l) - 1 : Destination(m) = SubSeq(l, 1, n)
  <2>1. \A l : l \in Asked({k}) => l \in Asked({k})'
    BY AskedGrows
  <2>2. \A m : m \in Asked(Handler) => m \in Asked(Handler)'
    BY AskedGrows
  <2> QED BY <2>1, <2>2
<1>2. CASE lost[k]
  BY <1>1, <1>2 DEF HomeKept
<1>3. CASE ~lost[k]
  <2>1. k = h
    BY <1>3 DEF Kept, Elsewhere
  <2>2. MakeDir(h) /\ Building(h) /\ htdocs[NextDir(h)] # Null
    <3>1. lost' # lost
      BY <1>3
    <3>2. ~(\/ ReadRequest(h) \/ ReadOffline(h) \/ FindSource(h) \/ OpenPage(h) \/ CopyFails(h)
            \/ WritePage(h) \/ LogRequest(h) \/ RealResponse(h) \/ LocalResponse(h))
      BY <3>1 DEF ReadRequest, ReadOffline, FindSource, OpenPage, CopyFails, WritePage,
                  LogRequest, RealResponse, LocalResponse
    <3>3. ~Entered(h)
      BY <3>1 DEF Entered
    <3>4. ~ChangeDir(h)
      BY <3>1, <3>3 DEF ChangeDir
    <3>5. MakeDir(h)
      BY <3>2, <3>4 DEF Step
    <3> QED BY <3>3, <3>5 DEF MakeDir, Building
  <2> DEFINE l == request[h].location
             n == depth[h] + 1
  <2>3. l \in Location /\ n \in 1 .. Len(l) - 1 /\ NextDir(h) = SubSeq(l, 1, n)
        /\ NextDir(h) \in Paths /\ request[h] # Null
    BY <2>2, NextDirPath, MarkAssumption
  <2>5. l \in Asked({h})
    BY <2>3, Zenon DEF Asked
  <2>6. PICK m \in Asked(Handler) : Destination(m) = NextDir(h)
    <3>1. htdocs[NextDir(h)] # Directory
      BY <1>1, <2>2 DEF Tree, MakeDir
    <3>2. htdocs[NextDir(h)] \in Page
      BY <2>2, <2>3, <3>1 DEF ReplayTypeOK
    <3> QED BY <2>3, <3>2 DEF Tree
  <2> HIDE DEF l, n
  <2> QED BY <2>1, <2>3, <2>5, <2>6
<1> QED BY <1>2, <1>3

LEMMA ReplayTree == ReplaySpec => [](ReplayTypeOK /\ Working /\ Tree /\ HomeKept)
<1>1. ReplayInit => Tree /\ HomeKept
  <2> SUFFICES ASSUME ReplayInit
               PROVE  Tree /\ HomeKept
    OBVIOUS
  <2>1. Tree
    <3>1. \A h \in Handler : pc[h] = "read"
      BY DEF ReplayInit
    <3>2. \A p \in Paths : htdocs[p] = Null
      BY DEF ReplayInit
    <3> QED BY <3>1, <3>2, MarkAssumption DEF Tree, Building
  <2>2. HomeKept
    BY DEF ReplayInit, HomeKept
  <2> QED BY <2>1, <2>2
<1>2. ReplayTypeOK /\ Working /\ Tree /\ HomeKept /\ [ReplayNext]_replayVars
        => (ReplayTypeOK /\ Working /\ Tree /\ HomeKept)'
  <2> SUFFICES ASSUME ReplayTypeOK, Working, Tree, HomeKept, [ReplayNext]_replayVars
               PROVE  (ReplayTypeOK /\ Working /\ Tree /\ HomeKept)'
    OBVIOUS
  <2>1. CASE ReplayNext
    BY <2>1, NextStep, StepWorking, StepTree, StepHome
  <2>2. CASE UNCHANGED replayVars
    <3>1. UNCHANGED <<timestamp, logs, htdocs, pc, request, depth, lost, overlapped>>
      BY <2>2 DEF replayVars, conn, disk
    <3>2. Tree' /\ HomeKept'
      BY <3>1 DEF Tree, HomeKept, Asked, Building, NextDir, Directories
    <3> QED BY <2>2, <3>2, IdleWorking
  <2> QED BY <2>1, <2>2
<1> QED BY <1>1, <1>2, InitWorking, PTL DEF ReplaySpec

\* HomeKept: only handlers that build directories at the same time, and a page of the
\* name of a directory, can make a handler lose its working directory
\* (helper_file.c:88-126, 254-276).
THEOREM HomeIsKept == ReplaySpec => []HomeKept
<1>1. ReplayTypeOK /\ Working /\ Tree /\ HomeKept => HomeKept
  OBVIOUS
<1> QED BY <1>1, ReplayTree, PTL

-----------------------------------------------------------------------------
\* HttpReplay: what is in the pages

\* A row of a real service that fits request r has timestamp t.
Fits(table, r, t) ==
    \E i \in DOMAIN table :
      /\ table[i].ts = t /\ table[i].type = "new"
      /\ table[i].site = r.site /\ table[i].location = r.location

\* Request r was promised an old response, and nothing came in between.
Counts(tree, r) == /\ r.found /\ ~r.touched
                   /\ PathOf(r.location) = Destination(r.location)
                   /\ tree[Destination(r.location)] # Directory

\* The page is what request r was promised.
Right(table, r, page) ==
    IF r.type = "dummy" THEN page = DummyPage
    ELSE page \in Real /\ Fits(table, r, page.ts)

Served(table, tree, r) == Counts(tree, r) => Right(table, r, tree[Destination(r.location)])

\* ... and of the connection whose timestamp was used last.
Named(tree, r, t) == Counts(tree, r) /\ r.type # "dummy" => tree[Destination(r.location)].ts = t

\* The directories of location l that were made
Made(tree, l, n) == \A m \in 1 .. n : tree[SubSeq(l, 1, m)] = Directory

\* Where the page of a request in work has got to
InWork(h) ==
    /\ request[h].found => Fits(logs, request[h], emulated[h])
    /\ pc[h] \in {"walk", "mkdir", "source"} => request[h].type # "dummy"
    /\ ~lost[h] /\ Building(h) => Made(htdocs, request[h].location, depth[h])
    /\ ~lost[h] /\ pc[h] \in {"source", "open"} =>
         Made(htdocs, request[h].location, Len(request[h].location) - 1)
    /\ request[h].found /\ pc[h] \in {"open", "write"} =>
         IF request[h].type = "dummy" THEN src[h] = DummyPage
         ELSE src[h] \in DOMAIN filed /\ src[h][1] = emulated[h]
    /\ pc[h] = "write" /\ ~request[h].touched =>
         htdocs[Destination(request[h].location)] = EmptyPage

\* What was answered last was what had been promised.
Answered(h) ==
    answer[h] # Null /\ Counts(htdocs, answer[h].request) =>
      /\ Right(logs, answer[h].request, answer[h].page)
      /\ answer[h].request.type # "dummy" /\ answer[h].alone =>
           answer[h].server \in {answer[h].page.ts, Null}

PagesAt(h) ==
    /\ request[h] # Null => InWork(h)
    /\ answer[h] # Null => answer[h].request \in Request
    /\ ~lost[h] =>
         /\ pc[h] = "log" => /\ Served(logs, htdocs, request[h])
                             /\ Named(htdocs, request[h], emulated[h])
         /\ \A i \in DOMAIN waiting[h] : Served(logs, htdocs, waiting[h][i])
         /\ pc[h] = "read" /\ waiting[h] # <<>> =>
              Named(htdocs, waiting[h][Len(waiting[h])], emulated[h])
         /\ Answered(h)

Pages == \A h \in Handler : PagesAt(h)

\* The rows only get more, and keep what a lookup asks for.
Grows(table, next) ==
    \A i \in DOMAIN table :
      /\ i \in DOMAIN next
      /\ next[i].ts = table[i].ts /\ next[i].site = table[i].site
      /\ next[i].location = table[i].location /\ next[i].type = table[i].type

\* Request q is request r later on; its page is as it was if nobody touched it.
Follows(tree, next, r, q) ==
    /\ q.site = r.site /\ q.location = r.location
    /\ q.type = r.type /\ q.found = r.found
    /\ LET p == Destination(r.location) IN
         /\ tree[p] = Directory => next[p] = Directory
         /\ ~q.touched => ~r.touched /\ next[p] \in {tree[p], Directory}

LEMMA FitsStays ==
  ASSUME NEW table, NEW next, NEW r, NEW q, NEW t, Grows(table, next), Fits(table, r, t),
         q.site = r.site, q.location = r.location
  PROVE  Fits(next, q, t)
BY Zenon DEF Fits, Grows

LEMMA ServedStays ==
  ASSUME NEW table, NEW moretable, NEW tree, NEW next, NEW r, NEW q, NEW t,
         Grows(table, moretable), Follows(tree, next, r, q)
  PROVE  /\ Served(table, tree, r) => Served(moretable, next, q)
         /\ Named(tree, r, t) => Named(next, q, t)
<1>1. Counts(next, q) =>
        Counts(tree, r) /\ next[Destination(q.location)] = tree[Destination(r.location)]
  BY DEF Counts, Follows
<1>2. q.site = r.site /\ q.location = r.location /\ q.type = r.type
  BY DEF Follows
<1>3. \A page : Right(table, r, page) => Right(moretable, q, page)
  BY <1>2, FitsStays, Zenon DEF Right
<1> QED BY <1>1, <1>2, <1>3, Zenon DEF Served, Named

\* What a step of h leaves of the pages
LEMMA PageMoves ==
  ASSUME ReplayTypeOK, Working, NEW h \in Handler, Step(h), Kept(h)
  PROVE  /\ Grows(logs, logs')
         /\ \A k \in Handler : ~lost'[k] => ~lost[k]
         /\ \A p \in Paths : htdocs[p] = Directory => htdocs'[p] = Directory
         /\ OpenPage(h) \/ WritePage(h) \/
              \A p \in Paths : htdocs'[p] = htdocs[p] \/ htdocs'[p] = Directory
         /\ \A k \in Handler \ {h} :
              /\ request[k] # Null => Follows(htdocs, htdocs', request[k], request'[k])
              /\ \A i \in DOMAIN waiting[k] :
                   Follows(htdocs, htdocs', waiting[k][i], waiting'[k][i])
<1>1. Elsewhere(h) /\ htdocs \in [Paths -> Page \cup {Null, Directory}]
  BY DEF Kept, ReplayTypeOK
<1>2. Grows(logs, logs')
  BY <1>1 DEF Grows, Elsewhere
<1>3. \A p \in Paths : htdocs[p] = Directory => htdocs'[p] = Directory
  BY <1>1 DEF Elsewhere
<1>4. ~lost'[h] => ~lost[h]
  <2>1. lost' = lost \/ lost' = [lost EXCEPT ![h] = TRUE]
    <3>1. \A k \in Handler : Entered(k) => lost' = lost
      BY DEF Entered
    <3> QED BY <3>1 DEF Step, ReadRequest, ReadOffline, ChangeDir, MakeDir, FindSource,
               OpenPage, CopyFails, WritePage, LogRequest, RealResponse, LocalResponse
  <2> QED BY <2>1 DEF ReplayTypeOK
<1>5. \A k \in Handler : ~lost'[k] => ~lost[k]
  BY <1>1, <1>4 DEF Elsewhere
<1>6. OpenPage(h) \/ WritePage(h) \/
        \A p \in Paths : htdocs'[p] = htdocs[p] \/ htdocs'[p] = Directory
  <2>1. CASE htdocs' = [htdocs EXCEPT ![NextDir(h)] = Directory]
    BY <1>1, <2>1
  <2> QED BY <2>1, TreeMoves
<1>7. ASSUME NEW k \in Handler \ {h}
      PROVE  /\ request[k] # Null => Follows(htdocs, htdocs', request[k], request'[k])
             /\ \A i \in DOMAIN waiting[k] :
                  Follows(htdocs, htdocs', waiting[k][i], waiting'[k][i])
  <2>1. /\ request[k] # Null => Destination(request[k].location) \in Paths
        /\ \A i \in DOMAIN waiting[k] : Destination(waiting[k][i].location) \in Paths
    <3>1. request[k] # Null => request[k].location \in Location
      BY DEF ReplayTypeOK, Request
    <3>2. ASSUME NEW i \in DOMAIN waiting[k]
          PROVE  waiting[k][i].location \in Location
      <4>1. waiting[k][i] \in Request
        BY DEF ReplayTypeOK
      <4> QED BY <4>1 DEF Request
    <3> QED BY <3>1, <3>2, LocationPath
  <2>2. CASE \A p \in Paths : htdocs'[p] = htdocs[p] \/ htdocs'[p] = Directory
    BY <1>1, <1>3, <2>1, <2>2 DEF Elsewhere, Follows
  <2>3. CASE OpenPage(h) \/ WritePage(h)
    <3> DEFINE l == request[h].location
               d == Destination(l)
    <3>1. pc[h] # "read" /\ Touched(h, d)
      BY <2>3 DEF OpenPage, WritePage
    <3>2. l \in Location /\ d \in Paths
      BY <3>1, PagePath
    <3>3. \A p \in Paths : p # d => htdocs'[p] = htdocs[p]
      <4>1. \E page : htdocs' = [htdocs EXCEPT ![d] = page]
        BY <2>3, Written, Zenon DEF OpenPage
      <4> QED BY <1>1, <4>1
    <3>4. /\ request[k] # Null =>
               (~request'[k].touched => ~request[k].touched /\ Destination(request[k].location) # d)
          /\ \A i \in DOMAIN waiting[k] :
               ~waiting'[k][i].touched => ~waiting[k][i].touched /\ Destination(waiting[k][i].location) # d
      BY <3>1, <3>2, TouchedStep
    <3> HIDE DEF l
    <3> QED BY <1>1, <1>3, <2>1, <3>3, <3>4 DEF Elsewhere, Follows
  <2> QED BY <1>6, <2>2, <2>3
<1> QED BY <1>2, <1>3, <1>5, <1>6, <1>7

\* What was made stays made.
LEMMA MadeStays ==
  ASSUME NEW tree, NEW next, NEW l \in Location, NEW n \in Nat, n < Len(l),
         \A p \in Paths : tree[p] = Directory => next[p] = Directory,
         Made(tree, l, n)
  PROVE  Made(next, l, n)
<1> SUFFICES ASSUME NEW m \in 1 .. n
             PROVE  next[SubSeq(l, 1, m)] = Directory
  BY DEF Made
<1>1. m \in 1 .. Len(l) - 1
  <2>1. Len(l) \in Nat
    BY LocationPath
  <2> QED BY <2>1
<1>2. SubSeq(l, 1, m) \in Paths
  BY <1>1, Beginning
<1> QED BY <1>2 DEF Made

\* What was answered stays right.
LEMMA AnsweredStays ==
  ASSUME ReplayTypeOK, Working, NEW h \in Handler, Step(h), Kept(h), NEW k \in Handler,
         PagesAt(k), answer'[k] = answer[k], ~lost'[k]
  PROVE  Answered(k)'
<1> SUFFICES ASSUME answer'[k] # Null, Counts(htdocs', answer'[k].request)
             PROVE  /\ Right(logs', answer'[k].request, answer'[k].page)
                    /\ answer'[k].request.type # "dummy" /\ answer'[k].alone =>
                         answer'[k].server \in {answer'[k].page.ts, Null}
  BY DEF Answered
<1> DEFINE r == answer[k].request
<1>1. answer[k] # Null /\ r \in Request /\ ~lost[k] /\ Answered(k)
  BY PageMoves DEF PagesAt
<1>2. Destination(r.location) \in Paths
  <2>1. r.location \in Location
    BY <1>1 DEF Request
  <2> QED BY <2>1, LocationPath
<1>3. Counts(htdocs, r)
  <2>1. htdocs[Destination(r.location)] = Directory => htdocs'[Destination(r.location)] = Directory
    BY <1>2, PageMoves
  <2> QED BY <2>1 DEF Counts
<1>4. /\ Right(logs, r, answer[k].page)
      /\ r.type # "dummy" /\ answer[k].alone =>
           answer[k].server \in {answer[k].page.ts, Null}
  BY <1>1, <1>3 DEF Answered
<1>5. Right(logs', r, answer[k].page)
  <2>1. Grows(logs, logs')
    BY PageMoves
  <2>2. \A t : Fits(logs, r, t) => Fits(logs', r, t)
    BY <2>1, FitsStays
  <2> QED BY <1>4, <2>2 DEF Right
<1> QED BY <1>4, <1>5

\* The requests of the other handlers stay as they should be.
LEMMA PagesElsewhere ==
  ASSUME ReplayTypeOK, Working, NEW h \in Handler, Step(h), Kept(h), NEW k \in Handler \ {h},
         PagesAt(k)
  PROVE  PagesAt(k)'
<1>1. /\ pc'[k] = pc[k] /\ emulated'[k] = emulated[k] /\ depth'[k] = depth[k]
      /\ src'[k] = src[k] /\ lost'[k] = lost[k] /\ answer'[k] = answer[k]
      /\ request'[k] = Null <=> request[k] = Null
      /\ DOMAIN waiting'[k] = DOMAIN waiting[k] /\ Len(waiting'[k]) = Len(waiting[k])
      /\ \A n \in DOMAIN filed : n \in DOMAIN filed'
      /\ \A p \in Paths : /\ htdocs[p] = Directory => htdocs'[p] = Directory
                          /\ htdocs[p] \in Page => htdocs'[p] \in Page
  BY DEF Kept, Elsewhere
<1>2. /\ Grows(logs, logs')
      /\ request[k] # Null => Follows(htdocs, htdocs', request[k], request'[k])
      /\ \A i \in DOMAIN waiting[k] :
           Follows(htdocs, htdocs', waiting[k][i], waiting'[k][i])
  BY PageMoves
<1>3. ASSUME request'[k] # Null
      PROVE  InWork(k)'
  <2> DEFINE r == request[k]
             q == request'[k]
  <2>1. r \in Request /\ r.location \in Location /\ Destination(r.location) \in Paths /\ InWork(k)
    BY <1>1, <1>3, LocationPath DEF ReplayTypeOK, Request, PagesAt
  <2>2. /\ q.site = r.site /\ q.location = r.location /\ q.type = r.type /\ q.found = r.found
        /\ ~q.touched => ~r.touched /\
             htdocs'[Destination(r.location)] \in {htdocs[Destination(r.location)], Directory}
    BY <1>1, <1>2, <1>3 DEF Follows
  <2>3. q.found => Fits(logs', q, emulated'[k])
    BY <1>1, <1>2, <2>1, <2>2, FitsStays DEF InWork
  <2>4. \A n \in Nat : n < Len(r.location) /\ Made(htdocs, r.location, n) =>
          Made(htdocs', r.location, n)
    BY <1>1, <2>1, MadeStays
  <2>5. ~lost'[k] /\ Building(k)' => Made(htdocs', q.location, depth'[k])
    <3>1. Building(k) => depth[k] \in Nat /\ depth[k] < Len(r.location)
      <4>1. Building(k) => depth[k] + 1 \in 1 .. Len(r.location) - 1
        BY NextDirPath
      <4>2. Len(r.location) \in Nat /\ depth[k] \in Nat
        BY <2>1, LocationPath DEF ReplayTypeOK
      <4> HIDE DEF r
      <4> QED BY <4>1, <4>2
    <3> QED BY <1>1, <2>1, <2>2, <2>4, <3>1 DEF InWork, Building
  <2>6. ~lost'[k] /\ pc'[k] \in {"source", "open"} =>
          Made(htdocs', q.location, Len(q.location) - 1)
    <3>1. Len(r.location) - 1 \in Nat /\ Len(r.location) - 1 < Len(r.location)
      <4>1. Len(r.location) \in Nat \ {0}
        BY <2>1, LocationPath
      <4> HIDE DEF r
      <4> QED BY <4>1
    <3>2. ~lost[k] /\ pc[k] \in {"source", "open"} =>
            Made(htdocs, r.location, Len(r.location) - 1)
      BY <2>1 DEF InWork
    <3>3. Made(htdocs, r.location, Len(r.location) - 1) =>
            Made(htdocs', r.location, Len(r.location) - 1)
      BY <2>4, <3>1
    <3> QED BY <1>1, <2>2, <3>2, <3>3
  <2>7. pc'[k] = "write" /\ ~q.touched => htdocs'[Destination(q.location)] = EmptyPage
    <3>1. pc[k] = "write" => htdocs'[Destination(r.location)] \in Page
      BY <1>1, <2>1 DEF Working, Works
    <3> QED BY <1>1, <2>1, <2>2, <3>1, MarkAssumption DEF InWork
  <2>8. pc'[k] \in {"walk", "mkdir", "source"} => q.type # "dummy"
    BY <1>1, <2>1, <2>2 DEF InWork
  <2>9. q.found /\ pc'[k] \in {"open", "write"} =>
          IF q.type = "dummy" THEN src'[k] = DummyPage
          ELSE src'[k] \in DOMAIN filed' /\ src'[k][1] = emulated'[k]
    BY <1>1, <2>1, <2>2 DEF InWork
  <2> QED BY <2>3, <2>5, <2>6, <2>7, <2>8, <2>9 DEF InWork
<1>4. ASSUME ~lost'[k]
      PROVE  /\ pc'[k] = "log" => /\ Served(logs', htdocs', request'[k])
                                  /\ Named(htdocs', request'[k], emulated'[k])
             /\ \A i \in DOMAIN waiting'[k] : Served(logs', htdocs', waiting'[k][i])
             /\ pc'[k] = "read" /\ waiting'[k] # <<>> =>
                  Named(htdocs', waiting'[k][Len(waiting'[k])], emulated'[k])
  <2>1. /\ pc[k] = "log" => /\ Served(logs, htdocs, request[k])
                            /\ Named(htdocs, request[k], emulated[k])
        /\ \A i \in DOMAIN waiting[k] : Served(logs, htdocs, waiting[k][i])
        /\ pc[k] = "read" /\ waiting[k] # <<>> =>
             Named(htdocs, waiting[k][Len(waiting[k])], emulated[k])
    BY <1>1, <1>4 DEF PagesAt
  <2>2. pc[k] = "log" => request[k] # Null
    BY DEF Working, Works
  <2>3. pc'[k] = "log" => /\ Served(logs', htdocs', request'[k])
                          /\ Named(htdocs', request'[k], emulated'[k])
    BY <1>1, <1>2, <2>1, <2>2, ServedStays
  <2>4. \A i \in DOMAIN waiting'[k] : Served(logs', htdocs', waiting'[k][i])
    BY <1>1, <1>2, <2>1, ServedStays
  <2>5. waiting'[k] # <<>> => waiting[k] # <<>> /\ Len(waiting[k]) \in DOMAIN waiting[k]
    <3>1. waiting[k] \in Seq(Request) /\ waiting'[k] \in Seq(Request)
      BY DEF Kept, ReplayTypeOK
    <3> QED BY <1>1, <3>1, EmptySeq
  <2>6. pc'[k] = "read" /\ waiting'[k] # <<>> =>
          Named(htdocs', waiting'[k][Len(waiting'[k])], emulated'[k])
    <3> SUFFICES ASSUME pc'[k] = "read", waiting'[k] # <<>>
                 PROVE  Named(htdocs', waiting'[k][Len(waiting'[k])], emulated'[k])
      OBVIOUS
    <3> DEFINE n == Len(waiting[k])
    <3>1. Follows(htdocs, htdocs', waiting[k][n], waiting'[k][n])
      BY <1>2, <2>5
    <3>2. Named(htdocs, waiting[k][n], emulated[k])
      BY <1>1, <2>1, <2>5
    <3>3. Grows(logs, logs')
      BY <1>2
    <3> HIDE DEF n
    <3>4. Named(htdocs', waiting'[k][n], emulated[k])
      BY <3>1, <3>2, <3>3, ServedStays
    <3> QED BY <1>1, <3>4 DEF n
  <2> QED BY <2>3, <2>4, <2>6
<1>5. ~lost'[k] => Answered(k)'
  BY <1>1, AnsweredStays
<1>6. answer'[k] # Null => answer'[k].request \in Request
  BY <1>1 DEF PagesAt
<1> QED BY <1>3, <1>4, <1>5, <1>6 DEF PagesAt

\* Unless h itself writes a page, what was as it should be stays so.
LEMMA RightStays ==
  ASSUME ReplayTypeOK, Working, NEW h \in Handler, Step(h), Kept(h),
         ~(OpenPage(h) \/ WritePage(h)), NEW r \in Request, NEW t
  PROVE  /\ Served(logs, htdocs, r) => Served(logs', htdocs', r)
         /\ Named(htdocs, r, t) => Named(htdocs', r, t)
         /\ Fits(logs, r, t) => Fits(logs', r, t)
<1>1. r.location \in Location
  BY DEF Request
<1>2. Destination(r.location) \in Paths
  BY <1>1, LocationPath
<1>3. /\ Grows(logs, logs')
      /\ \A p \in Paths : htdocs[p] = Directory => htdocs'[p] = Directory
      /\ \A p \in Paths : htdocs'[p] = htdocs[p] \/ htdocs'[p] = Directory
  BY PageMoves
<1>4. Follows(htdocs, htdocs', r, r)
  BY <1>2, <1>3 DEF Follows
<1>5. Fits(logs, r, t) => Fits(logs', r, t)
  BY <1>3, FitsStays
<1> QED BY <1>3, <1>4, <1>5, ServedStays

LEMMA QueueStays ==
  ASSUME ReplayTypeOK, Working, NEW h \in Handler, Step(h), Kept(h), PagesAt(h), ~lost'[h],
         ~(OpenPage(h) \/ WritePage(h)), waiting'[h] = waiting[h]
  PROVE  /\ \A i \in DOMAIN waiting'[h] : Served(logs', htdocs', waiting'[h][i])
         /\ \A t : waiting[h] # <<>> /\ Named(htdocs, waiting[h][Len(waiting[h])], t) =>
                     Named(htdocs', waiting'[h][Len(waiting'[h])], t)
<1>1. waiting[h] \in Seq(Request) /\ ~lost[h]
  BY PageMoves DEF ReplayTypeOK
<1>2. \A i \in DOMAIN waiting[h] : waiting[h][i] \in Request /\ Served(logs, htdocs, waiting[h][i])
  BY <1>1 DEF PagesAt
<1>3. \A i \in DOMAIN waiting'[h] : Served(logs', htdocs', waiting'[h][i])
  BY <1>2, RightStays
<1>4. waiting[h] # <<>> => waiting[h][Len(waiting[h])] \in Request
  BY <1>1, EmptySeq
<1>5. \A t : waiting[h] # <<>> /\ Named(htdocs, waiting[h][Len(waiting[h])], t) =>
               Named(htdocs', waiting[h][Len(waiting[h])], t)
  BY <1>4, RightStays
<1> QED BY <1>3, <1>5

\* A request is put at the end of the queue.
LEMMA QueueGrows ==
  ASSUME ReplayTypeOK, Working, NEW h \in Handler, Step(h), Kept(h), PagesAt(h), ~lost'[h],
         ~(OpenPage(h) \/ WritePage(h)), NEW r \in Request, waiting'[h] = Append(waiting[h], r),
         Served(logs, htdocs, r), NEW t, Named(htdocs, r, t)
  PROVE  /\ \A i \in DOMAIN waiting'[h] : Served(logs', htdocs', waiting'[h][i])
         /\ Named(htdocs', waiting'[h][Len(waiting'[h])], t)
<1>1. waiting[h] \in Seq(Request) /\ ~lost[h]
  BY PageMoves DEF ReplayTypeOK
<1>2. /\ \A i \in DOMAIN waiting'[h] :
           \/ waiting'[h][i] = r
           \/ i \in DOMAIN waiting[h] /\ waiting'[h][i] = waiting[h][i]
      /\ waiting'[h][Len(waiting'[h])] = r
  BY <1>1
<1>3. \A i \in DOMAIN waiting[h] : waiting[h][i] \in Request /\ Served(logs, htdocs, waiting[h][i])
  BY <1>1 DEF PagesAt
<1>4. \A i \in DOMAIN waiting[h] : Served(logs', htdocs', waiting[h][i])
  BY <1>3, RightStays
<1>5. Served(logs', htdocs', r) /\ Named(htdocs', r, t)
  BY RightStays
<1> QED BY <1>2, <1>4, <1>5

LEMMA ReadRequestPages ==
  ASSUME ReplayTypeOK, Working, NEW h \in Handler, Step(h), Kept(h), PagesAt(h), ReadRequest(h)
  PROVE  PagesAt(h)'
<1>1. PICK s \in Site, l \in Location :
        Forward(h, [site |-> s, location |-> l, type |-> "new", found |-> FALSE,
                    touched |-> FALSE])
  BY DEF ReadRequest
<1> DEFINE r == [site |-> s, location |-> l, type |-> "new", found |-> FALSE,
                 touched |-> FALSE]
<1>2. r \in Request /\ ~r.found /\ Forward(h, r)
  BY <1>1 DEF Request, Type
<1>3. /\ UNCHANGED <<htdocs, pc, request, emulated, lost, answer>> /\ pc[h] = "read"
      /\ request[h] = Null
  BY DEF ReadRequest, CanRead, disk, Working, Works
<1> HIDE DEF r
<1>4. waiting'[h] = Append(waiting[h], r)
  BY <1>2, Forwarded
<1>5. ~(OpenPage(h) \/ WritePage(h))
  BY <1>3 DEF OpenPage, WritePage
<1>6. Served(logs, htdocs, r) /\ Named(htdocs, r, emulated[h])
  BY <1>2 DEF Served, Named, Counts
<1>7. ~lost'[h] =>
        /\ \A i \in DOMAIN waiting'[h] : Served(logs', htdocs', waiting'[h][i])
        /\ Named(htdocs', waiting'[h][Len(waiting'[h])], emulated[h])
  BY <1>2, <1>4, <1>5, <1>6, QueueGrows
<1>8. ~lost'[h] => Answered(h)'
  BY <1>3, AnsweredStays
<1> QED BY <1>3, <1>7, <1>8 DEF PagesAt

LEMMA ReadOfflinePages ==
  ASSUME ReplayTypeOK, Working, NEW h \in Handler, Step(h), Kept(h), PagesAt(h), ReadOffline(h)
  PROVE  PagesAt(h)'
<1>1. PICK s \in Site, l \in Location :
        LET stamps == {logs[i].ts : i \in Fitting(s, l)} IN
        /\ request' = [request EXCEPT ![h] =
             [site |-> s, location |-> l, type |-> "old", found |-> stamps # {},
              touched |-> FALSE]]
        /\ \E t \in stamps \cup {Null} :
             /\ IF stamps = {} THEN t = Null ELSE t # Null /\ \A u \in stamps : u <= t
             /\ emulated' = [emulated EXCEPT ![h] = t]
        /\ Goto(h, IF Directories(l) = <<>> THEN "source" ELSE "walk")
  BY DEF ReadOffline
<1> DEFINE stamps == {logs[i].ts : i \in Fitting(s, l)}
<1>2. PICK b \in BOOLEAN :
        /\ b = (stamps # {})
        /\ request' = [request EXCEPT ![h] =
             [site |-> s, location |-> l, type |-> "old", found |-> b, touched |-> FALSE]]
  BY <1>1, Zenon
<1>3. PICK t \in stamps \cup {Null} :
        /\ stamps # {} => t # Null
        /\ emulated' = [emulated EXCEPT ![h] = t]
  BY <1>1, Zenon
<1>4. /\ UNCHANGED <<logs, filed, htdocs, depth, src, lost, waiting, answer>>
      /\ pc[h] = "read" /\ depth[h] = 0
  BY DEF ReadOffline, CanRead, disk, replies, Working, Works, Building
<1>5. /\ pc' = [pc EXCEPT ![h] = IF Directories(l) = <<>> THEN "source" ELSE "walk"]
      /\ pc \in [Handler -> {"read", "walk", "mkdir", "source", "open", "write", "log"}]
      /\ request \in [Handler -> Request \cup {Null}]
      /\ emulated \in [Handler -> Stamp \cup {Null}]
  BY <1>1, Zenon DEF Goto, ReplayTypeOK
<1> DEFINE q == [site |-> s, location |-> l, type |-> "old", found |-> b, touched |-> FALSE]
<1>6. request'[h] = q /\ emulated'[h] = t
  BY <1>2, <1>3, <1>5
<1>7. q.found => Fits(logs', q, t)
  <2>1. SUFFICES ASSUME b
                 PROVE  Fits(logs, q, t)
    BY <1>4
  <2>2. t \in stamps
    BY <1>2, <1>3, <2>1, Zenon
  <2>3. PICK i \in Fitting(s, l) : t = logs[i].ts
    BY <2>2, Zenon
  <2> QED BY <2>3 DEF Fitting, Fits
<1>8. /\ q.location = l /\ q.type = "old"
      /\ pc'[h] = IF Directories(l) = <<>> THEN "source" ELSE "walk"
  BY <1>5
<1> HIDE DEF stamps
<1>9. InWork(h)'
  <2>1. Made(htdocs', l, 0)
    BY DEF Made
  <2>2. Directories(l) = <<>> => Len(l) - 1 = 0
    BY LocationPath, EmptySeq
  <2>3. pc'[h] = "source" => Len(l) - 1 = 0
    BY <1>8, <2>2
  <2>4. pc'[h] \in {"walk", "source"} /\ depth'[h] = 0
    BY <1>4, <1>8
  <2> HIDE DEF q
  <2>5. pc'[h] = "source" => Made(htdocs', l, Len(l) - 1)
    BY <2>1, <2>3
  <2> QED BY <1>6, <1>7, <1>8, <2>1, <2>4, <2>5 DEF InWork
<1>10. ~(OpenPage(h) \/ WritePage(h))
  BY <1>4 DEF OpenPage, WritePage
<1>11. ~lost'[h] => \A i \in DOMAIN waiting'[h] : Served(logs', htdocs', waiting'[h][i])
  BY <1>4, <1>10, QueueStays
<1>12. ~lost'[h] => Answered(h)'
  BY <1>4, AnsweredStays
<1>13. pc'[h] # "read" /\ pc'[h] # "log"
  BY <1>8
<1> HIDE DEF q
<1> QED BY <1>4, <1>9, <1>11, <1>12, <1>13 DEF PagesAt

\* A handler that goes on building has made one directory more.
LEMMA EnteredMade ==
  ASSUME ReplayTypeOK, Working, NEW h \in Handler, Building(h), Entered(h), NEW next,
         \A p \in Paths : htdocs[p] = Directory => next[p] = Directory,
         next[NextDir(h)] = Directory, Made(htdocs, request[h].location, depth[h])
  PROVE  \/ pc'[h] = "source" /\ Made(next, request[h].location, Len(request[h].location) - 1)
         \/ pc'[h] = "walk" /\ Made(next, request[h].location, depth'[h])
<1> DEFINE l == request[h].location
           n == depth[h]
<1>1. l \in Location /\ n + 1 \in 1 .. Len(l) - 1 /\ NextDir(h) = SubSeq(l, 1, n + 1)
  BY NextDirPath
<1>2. n \in Nat /\ Len(l) \in Nat /\ Len(Directories(l)) = Len(l) - 1
  BY <1>1, LocationPath DEF ReplayTypeOK
<1>3. \/ pc'[h] = "source" /\ n + 1 = Len(Directories(l))
      \/ pc'[h] = "walk" /\ depth'[h] = n + 1
  BY EnteredStep
<1>4. next[SubSeq(l, 1, n + 1)] = Directory /\ Made(htdocs, l, n)
  BY <1>1
<1> HIDE DEF l, n
<1>5. Made(next, l, n)
  <2>1. n < Len(l)
    BY <1>1, <1>2
  <2> QED BY <1>1, <1>2, <1>4, <2>1, MadeStays
<1>6. Made(next, l, n + 1)
  <2> SUFFICES ASSUME NEW m \in 1 .. n + 1
               PROVE  next[SubSeq(l, 1, m)] = Directory
    BY DEF Made
  <2>1. m = n + 1 \/ m \in 1 .. n
    BY <1>2
  <2> QED BY <1>4, <1>5, <2>1 DEF Made
<1> QED BY <1>2, <1>3, <1>6 DEF l, n

LEMMA BuildPages ==
  ASSUME ReplayTypeOK, Working, NEW h \in Handler, Step(h), Kept(h), PagesAt(h),
         ChangeDir(h) \/ MakeDir(h)
  PROVE  PagesAt(h)'
<1>1. /\ UNCHANGED <<logs, filed, request, emulated, src, waiting, answer>>
      /\ Building(h)
  BY DEF ChangeDir, MakeDir, Building, disk, replies
<1>2. request[h] \in Request /\ request[h] # Null /\ InWork(h)
  BY <1>1, NextDirPath, MarkAssumption DEF PagesAt
<1>3. ~(OpenPage(h) \/ WritePage(h))
  BY <1>1 DEF OpenPage, WritePage, Building
<1>4. pc \in [Handler -> {"read", "walk", "mkdir", "source", "open", "write", "log"}]
      /\ NextDir(h) \in Paths /\ htdocs \in [Paths -> Page \cup {Null, Directory}]
      /\ lost \in [Handler -> BOOLEAN]
  BY <1>1, NextDirPath DEF ReplayTypeOK
<1>5. /\ \A p \in Paths : htdocs[p] = Directory => htdocs'[p] = Directory
      /\ ~lost'[h] => ~lost[h]
  BY PageMoves
<1>6. \/ Entered(h) /\ htdocs'[NextDir(h)] = Directory
      \/ Goto(h, "mkdir") /\ UNCHANGED <<depth, htdocs>>
      \/ lost' = [lost EXCEPT ![h] = TRUE] /\ Goto(h, "source")
  <2>1. CASE ChangeDir(h)
    BY <2>1 DEF ChangeDir, disk
  <2>2. CASE MakeDir(h)
    BY <1>4, <2>2 DEF MakeDir
  <2> QED BY <2>1, <2>2
<1>7. pc'[h] \in {"walk", "mkdir", "source"}
  <2>1. CASE Entered(h)
    BY <1>1, <2>1, EnteredStep
  <2>2. CASE Goto(h, "mkdir") \/ Goto(h, "source")
    BY <1>4, <2>2 DEF Goto
  <2> QED BY <1>6, <2>1, <2>2
<1>8. ASSUME ~lost'[h]
      PROVE  /\ pc'[h] \in {"walk", "mkdir"} => Made(htdocs', request[h].location, depth'[h])
             /\ pc'[h] = "source" =>
                  Made(htdocs', request[h].location, Len(request[h].location) - 1)
  <2>1. Made(htdocs, request[h].location, depth[h])
    BY <1>1, <1>2, <1>5, <1>8 DEF InWork
  <2>2. CASE Entered(h) /\ htdocs'[NextDir(h)] = Directory
    <3>1. \/ pc'[h] = "source" /\ Made(htdocs', request[h].location, Len(request[h].location) - 1)
          \/ pc'[h] = "walk" /\ Made(htdocs', request[h].location, depth'[h])
      BY <1>1, <1>5, <2>1, <2>2, EnteredMade
    <3> QED BY <3>1
  <2>3. CASE Goto(h, "mkdir") /\ UNCHANGED <<depth, htdocs>>
    BY <1>4, <2>1, <2>3 DEF Goto
  <2>4. CASE lost' = [lost EXCEPT ![h] = TRUE] /\ Goto(h, "source")
    BY <1>4, <1>8, <2>4
  <2> QED BY <1>6, <2>2, <2>3, <2>4
<1>9. request[h].found => Fits(logs', request[h], emulated[h])
  BY <1>1, <1>2 DEF InWork
<1>10. request[h].type # "dummy"
  BY <1>1, <1>2 DEF InWork, Building
<1>11. InWork(h)'
  BY <1>1, <1>7, <1>8, <1>9, <1>10 DEF InWork, Building
<1>12. ~lost'[h] => \A i \in DOMAIN waiting'[h] : Served(logs', htdocs', waiting'[h][i])
  BY <1>1, <1>3, QueueStays
<1>13. ~lost'[h] => Answered(h)'
  BY <1>1, AnsweredStays
<1> QED BY <1>1, <1>7, <1>11, <1>12, <1>13 DEF PagesAt

LEMMA FindSourcePages ==
  ASSUME ReplayTypeOK, Working, Told, NEW h \in Handler, Step(h), Kept(h), PagesAt(h),
         FindSource(h)
  PROVE  PagesAt(h)'
<1>1. /\ UNCHANGED <<logs, filed, htdocs, emulated, depth, lost, waiting, answer>>
      /\ pc[h] = "source" /\ pc'[h] = "open"
  BY DEF FindSource, Goto, disk, replies, ReplayTypeOK
<1>2. request[h] \in Request /\ request[h] # Null /\ InWork(h)
  BY <1>1, PagePath, MarkAssumption DEF PagesAt
<1>3. PICK s \in Sources(h) :
        IF s = Null
          THEN /\ src' = [src EXCEPT ![h] = DummyPage]
               /\ request' = [request EXCEPT ![h].type = "dummy"]
          ELSE /\ src' = [src EXCEPT ![h] = s]
               /\ UNCHANGED request
  BY DEF FindSource
<1>4. /\ request \in [Handler -> Request \cup {Null}]
      /\ src \in [Handler -> Name \cup {Garbage, DummyPage}]
  BY DEF ReplayTypeOK
<1>5. /\ request'[h].location = request[h].location /\ request'[h].found = request[h].found
      /\ request'[h].site = request[h].site
      /\ \/ s = Null /\ request'[h].type = "dummy" /\ src'[h] = DummyPage
         \/ s # Null /\ request'[h].type = request[h].type /\ src'[h] = s
  <2>1. CASE s = Null
    <3>1. request'[h] = [request[h] EXCEPT !.type = "dummy"]
      BY <1>3, <1>4, <2>1
    <3> QED BY <1>2, <1>3, <1>4, <2>1, <3>1 DEF Request
  <2>2. CASE s # Null
    BY <1>3, <1>4, <2>2
  <2> QED BY <2>1, <2>2
<1>6. ASSUME request[h].found, s # Null
      PROVE  s \in DOMAIN filed /\ s[1] = emulated[h]
  <2>1. Fits(logs, request[h], emulated[h])
    BY <1>2, <1>6 DEF InWork
  <2>2. PICK j \in DOMAIN logs : logs[j].ts = emulated[h] /\ logs[j].type = "new"
    BY <2>1 DEF Fits
  <2>3. emulated[h] # Null
    <3>1. logs[j] \in LogRow
      BY DEF ReplayTypeOK
    <3>2. logs[j].ts \in Stamp
      BY <3>1 DEF LogRow
    <3> QED BY <2>2, <3>2, MarkAssumption
  <2>4. PICK i \in DOMAIN logs : logs[i].ts = emulated[h] /\ s = logs[i].body
    BY <2>3 DEF Sources
  <2>5. logs[i].type = "new"
    BY <2>2, <2>4 DEF Told, Stamped
  <2> QED BY <1>6, <2>4, <2>5 DEF Told, Given
<1>7. request[h].type # "dummy"
  BY <1>1, <1>2 DEF InWork
<1>8. InWork(h)'
  <2>1. request'[h].found => Fits(logs', request'[h], emulated'[h])
    BY <1>1, <1>2, <1>5 DEF InWork, Fits
  <2>2. ~lost'[h] => Made(htdocs', request'[h].location, Len(request'[h].location) - 1)
    BY <1>1, <1>2, <1>5 DEF InWork
  <2>3. request'[h].found =>
          IF request'[h].type = "dummy" THEN src'[h] = DummyPage
          ELSE src'[h] \in DOMAIN filed' /\ src'[h][1] = emulated'[h]
    BY <1>1, <1>5, <1>6, <1>7
  <2> QED BY <1>1, <2>1, <2>2, <2>3 DEF InWork, Building
<1>9. ~(OpenPage(h) \/ WritePage(h))
  BY <1>1 DEF OpenPage, WritePage
<1>10. ~lost'[h] => \A i \in DOMAIN waiting'[h] : Served(logs', htdocs', waiting'[h][i])
  BY <1>1, <1>9, QueueStays
<1>11. ~lost'[h] => Answered(h)'
  BY <1>1, AnsweredStays
<1> QED BY <1>1, <1>2, <1>8, <1>10, <1>11 DEF PagesAt

\* Requests that wait while h writes a page, to it or not
LEMMA TouchedQueue ==
  ASSUME ReplayTypeOK, Working, NEW h \in Handler, Step(h), Kept(h), PagesAt(h), ~lost'[h],
         OpenPage(h) \/ WritePage(h)
  PROVE  \A i \in DOMAIN waiting'[h] : Served(logs', htdocs', waiting'[h][i])
<1> DEFINE l == request[h].location
           d == Destination(l)
<1>1. Touched(h, d) /\ pc[h] # "read" /\ ~lost[h]
  BY PageMoves DEF OpenPage, WritePage
<1>2. l \in Location
  BY <1>1, PagePath
<1>3. /\ Grows(logs, logs') /\ htdocs \in [Paths -> Page \cup {Null, Directory}]
      /\ \A p \in Paths : htdocs[p] = Directory => htdocs'[p] = Directory
      /\ \A p \in Paths : p # d => htdocs'[p] = htdocs[p]
  <2>1. htdocs \in [Paths -> Page \cup {Null, Directory}]
    BY DEF ReplayTypeOK
  <2>2. \E page : htdocs' = [htdocs EXCEPT ![d] = page]
    BY Written, Zenon DEF OpenPage
  <2>3. \A p \in Paths : p # d => htdocs'[p] = htdocs[p]
    BY <2>1, <2>2
  <2> QED BY <2>1, <2>3, PageMoves
<1>4. /\ DOMAIN waiting'[h] = DOMAIN waiting[h]
      /\ \A i \in DOMAIN waiting[h] :
           /\ waiting'[h][i].site = waiting[h][i].site
           /\ waiting'[h][i].location = waiting[h][i].location
           /\ waiting'[h][i].type = waiting[h][i].type
           /\ waiting'[h][i].found = waiting[h][i].found
           /\ ~waiting'[h][i].touched => ~waiting[h][i].touched /\ Destination(waiting[h][i].location) # d
  BY <1>1, <1>2, TouchedStep
<1> HIDE DEF l
<1>5. ASSUME NEW i \in DOMAIN waiting[h]
      PROVE  Served(logs', htdocs', waiting'[h][i])
  <2>1. Served(logs, htdocs, waiting[h][i])
    BY <1>1 DEF PagesAt
  <2>2. waiting[h][i].location \in Location
    <3>1. waiting[h][i] \in Request
      BY DEF ReplayTypeOK
    <3> QED BY <3>1 DEF Request
  <2>3. Destination(waiting[h][i].location) \in Paths
    BY <2>2, LocationPath
  <2>4. Follows(htdocs, htdocs', waiting[h][i], waiting'[h][i])
    BY <1>3, <1>4, <2>3 DEF Follows
  <2> QED BY <1>3, <2>1, <2>4, ServedStays
<1> QED BY <1>4, <1>5

LEMMA OpenPagePages ==
  ASSUME ReplayTypeOK, Working, NEW h \in Handler, Step(h), Kept(h), PagesAt(h), OpenPage(h)
  PROVE  PagesAt(h)'
<1> DEFINE l == request[h].location
           d == Destination(l)
<1>1. /\ UNCHANGED <<logs, filed, emulated, src, lost, answer>>
      /\ pc[h] = "open" /\ pc'[h] = "write"
      /\ htdocs' = [htdocs EXCEPT ![d] = EmptyPage] /\ Touched(h, d)
  BY DEF OpenPage, Goto, ReplayTypeOK
<1>2. request[h] # Null /\ l \in Location /\ d \in Paths /\ InWork(h)
  BY <1>1, PagePath, MarkAssumption DEF PagesAt
<1>3. request'[h] = request[h]
  BY <1>1, <1>2, TouchedStep
<1>4. htdocs'[d] = EmptyPage
  BY <1>1, <1>2 DEF ReplayTypeOK
<1>5. InWork(h)'
  BY <1>1, <1>2, <1>3, <1>4 DEF InWork, Building
<1>6. ~lost'[h] => \A i \in DOMAIN waiting'[h] : Served(logs', htdocs', waiting'[h][i])
  BY TouchedQueue
<1>7. ~lost'[h] => Answered(h)'
  BY <1>1, AnsweredStays
<1> QED BY <1>1, <1>5, <1>6, <1>7 DEF PagesAt

LEMMA CopyFailsPages ==
  ASSUME ReplayTypeOK, Working, NEW h \in Handler, Step(h), Kept(h), PagesAt(h), CopyFails(h)
  PROVE  PagesAt(h)'
<1> DEFINE r == request[h]
<1>1. /\ UNCHANGED <<logs, filed, htdocs, request, emulated, src, lost, waiting, answer>>
      /\ pc[h] = "open" /\ pc'[h] = "log" /\ ~(CanOpen(h) /\ CanCreate(r.location))
  BY DEF CopyFails, Goto, disk, replies, ReplayTypeOK
<1>2. r \in Request /\ r # Null /\ r.location \in Location /\ InWork(h)
  BY <1>1, PagePath, MarkAssumption DEF PagesAt
<1>3. InWork(h)'
  BY <1>1, <1>2 DEF InWork, Building
<1>4. ~lost[h] => ~Counts(htdocs, r)
  <2> SUFFICES ASSUME ~lost[h], r.found, htdocs[Destination(r.location)] # Directory
               PROVE  FALSE
    BY DEF Counts
  <2>1. CanOpen(h)
    BY <1>1, <1>2 DEF InWork, CanOpen
  <2>2. Made(htdocs, r.location, Len(r.location) - 1)
    BY <1>1, <1>2 DEF InWork
  <2>3. DOMAIN Directories(r.location) = 1 .. Len(r.location) - 1
    <3>1. Directories(r.location) \in Seq(Part)
          /\ Len(Directories(r.location)) = Len(r.location) - 1
      BY <1>2, LocationPath
    <3> HIDE DEF r
    <3> QED BY <3>1
  <2>4. CanCreate(r.location)
    BY <2>2, <2>3 DEF CanCreate, Made
  <2> QED BY <1>1, <2>1, <2>4
<1>5. ~(OpenPage(h) \/ WritePage(h))
  <2>1. ~WritePage(h)
    BY <1>1 DEF WritePage
  <2> QED BY <1>1, <2>1 DEF OpenPage
<1>6. ~lost'[h] => \A i \in DOMAIN waiting'[h] : Served(logs', htdocs', waiting'[h][i])
  BY <1>1, <1>5, QueueStays
<1>7. ~lost'[h] => Answered(h)'
  BY <1>1, AnsweredStays
<1>8. ~lost'[h] => /\ Served(logs', htdocs', request'[h])
                   /\ Named(htdocs', request'[h], emulated'[h])
  BY <1>1, <1>4 DEF Served, Named
<1>9. answer'[h] # Null => answer'[h].request \in Request
  BY <1>1 DEF PagesAt
<1> QED BY <1>1, <1>3, <1>6, <1>7, <1>8, <1>9 DEF PagesAt

LEMMA WritePagePages ==
  ASSUME ReplayTypeOK, Working, Told, NEW h \in Handler, Step(h), Kept(h), PagesAt(h),
         WritePage(h)
  PROVE  PagesAt(h)'
<1> DEFINE r == request[h]
           l == r.location
           d == Destination(l)
<1>1. /\ UNCHANGED <<logs, filed, emulated, src, lost, answer>>
      /\ pc[h] = "write" /\ pc'[h] = "log" /\ Touched(h, d)
  BY DEF WritePage, Goto, ReplayTypeOK
<1>2. r \in Request /\ r # Null /\ l \in Location /\ d \in Paths /\ InWork(h)
  BY <1>1, PagePath, MarkAssumption DEF PagesAt
<1>3. request'[h] = request[h]
  BY <1>1, <1>2, TouchedStep
<1>4. InWork(h)'
  BY <1>1, <1>2, <1>3 DEF InWork, Building
<1>5. PICK page \in Page :
        /\ htdocs' = [htdocs EXCEPT ![d] = page]
        /\ htdocs[d] \in {EmptyPage, Content(src[h])} => page = Content(src[h])
  BY Written
<1>6. htdocs'[d] = page
  BY <1>2, <1>5 DEF ReplayTypeOK
<1>7. Served(logs, htdocs', r) /\ Named(htdocs', r, emulated[h])
  <2> SUFFICES ASSUME r.found, ~r.touched
               PROVE  /\ Right(logs, r, page)
                      /\ r.type # "dummy" => page.ts = emulated[h]
    BY <1>6, Zenon DEF Served, Named, Counts
  <2>1. page = Content(src[h])
    BY <1>1, <1>2, <1>5 DEF InWork
  <2>2. CASE r.type = "dummy"
    BY <1>1, <1>2, <2>1, <2>2 DEF InWork, Content, Right
  <2>3. CASE r.type # "dummy"
    <3>1. src[h] \in DOMAIN filed /\ src[h][1] = emulated[h]
      BY <1>1, <1>2, <2>3 DEF InWork
    <3>2. page = filed[src[h]]
      BY <2>1, <3>1, MarkAssumption DEF Content, ReplayTypeOK
    <3>3. Fits(logs, r, emulated[h])
      BY <1>2 DEF InWork
    <3>4. PICK i \in DOMAIN logs : logs[i].ts = emulated[h] /\ logs[i].type = "new"
      BY <3>3 DEF Fits
    <3>5. PICK k \in Online : emulated[h] = timestamp[k]
      BY <3>4 DEF Told, Stamped
    <3>6. page \in Real /\ page.ts = emulated[h]
      BY <3>1, <3>2, <3>5 DEF Told, Given
    <3> QED BY <2>3, <3>3, <3>6 DEF Right
  <2> QED BY <2>2, <2>3
<1>8. ~lost'[h] => \A i \in DOMAIN waiting'[h] : Served(logs', htdocs', waiting'[h][i])
  BY TouchedQueue
<1>9. ~lost'[h] => Answered(h)'
  BY <1>1, AnsweredStays
<1>10. Served(logs', htdocs', request'[h]) /\ Named(htdocs', request'[h], emulated'[h])
  BY <1>1, <1>3, <1>7
<1>11. answer'[h] # Null => answer'[h].request \in Request
  BY <1>1 DEF PagesAt
<1> QED BY <1>1, <1>4, <1>8, <1>9, <1>10, <1>11 DEF PagesAt

LEMMA LogRequestPages ==
  ASSUME ReplayTypeOK, Working, NEW h \in Handler, Step(h), Kept(h), PagesAt(h), LogRequest(h)
  PROVE  PagesAt(h)'
<1> DEFINE r == request[h]
<1>1. /\ UNCHANGED <<htdocs, emulated, lost, answer>>
      /\ pc[h] = "log" /\ pc'[h] = "read" /\ request'[h] = Null /\ Forward(h, r)
  BY DEF LogRequest, Goto, disk, ReplayTypeOK
<1>2. r \in Request
  BY <1>1, PagePath
<1>3. waiting'[h] = Append(waiting[h], r)
  BY <1>1, <1>2, Forwarded
<1>4. ~(OpenPage(h) \/ WritePage(h))
  BY <1>1 DEF OpenPage, WritePage
<1>5. ~lost'[h] => Served(logs, htdocs, r) /\ Named(htdocs, r, emulated[h])
  BY <1>1 DEF PagesAt
<1> HIDE DEF r
<1>6. ~lost'[h] =>
        /\ \A i \in DOMAIN waiting'[h] : Served(logs', htdocs', waiting'[h][i])
        /\ Named(htdocs', waiting'[h][Len(waiting'[h])], emulated[h])
  BY <1>2, <1>3, <1>4, <1>5, QueueGrows
<1>7. ~lost'[h] => Answered(h)'
  BY <1>1, AnsweredStays
<1>8. answer'[h] # Null => answer'[h].request \in Request
  BY <1>1 DEF PagesAt
<1> QED BY <1>1, <1>6, <1>7, <1>8 DEF PagesAt

\* A response takes the first request from the queue.
LEMMA QueueShrinks ==
  ASSUME ReplayTypeOK, Working, NEW h \in Handler, Step(h), Kept(h), PagesAt(h), ~lost'[h],
         ~(OpenPage(h) \/ WritePage(h)), pc[h] = "read", waiting[h] # <<>>,
         NEW page \in Page, File(h, page)
  PROVE  /\ \A i \in DOMAIN waiting'[h] : Served(logs', htdocs', waiting'[h][i])
         /\ waiting'[h] # <<>> => Named(htdocs', waiting'[h][Len(waiting'[h])], emulated[h])
<1>1. waiting[h] \in Seq(Request) /\ ~lost[h] /\ waiting'[h] \in Seq(Request)
  BY PageMoves DEF ReplayTypeOK, Kept
<1>2. /\ DOMAIN waiting'[h] = 1 .. Len(waiting[h]) - 1 /\ Len(waiting'[h]) = Len(waiting[h]) - 1
      /\ \A i \in 1 .. Len(waiting[h]) - 1 : waiting'[h][i] = waiting[h][i + 1]
  BY FileStep
<1>3. \A i \in DOMAIN waiting[h] : waiting[h][i] \in Request /\ Served(logs, htdocs, waiting[h][i])
  BY <1>1 DEF PagesAt
<1>4. \A i \in DOMAIN waiting[h] : Served(logs', htdocs', waiting[h][i])
  BY <1>3, RightStays
<1>5. \A i \in DOMAIN waiting'[h] :
        i + 1 \in DOMAIN waiting[h] /\ waiting'[h][i] = waiting[h][i + 1]
  BY <1>1, <1>2
<1>6. Named(htdocs', waiting[h][Len(waiting[h])], emulated[h])
  <2>1. Named(htdocs, waiting[h][Len(waiting[h])], emulated[h])
    BY <1>1 DEF PagesAt
  <2>2. waiting[h][Len(waiting[h])] \in Request
    BY <1>1, EmptySeq
  <2> QED BY <2>1, <2>2, RightStays
<1>7. waiting'[h] # <<>> => waiting'[h][Len(waiting'[h])] = waiting[h][Len(waiting[h])]
  <2>1. waiting'[h] # <<>> => Len(waiting'[h]) \in Nat \ {0}
    BY <1>1, EmptySeq
  <2>2. waiting'[h] # <<>> => /\ Len(waiting'[h]) \in 1 .. Len(waiting[h]) - 1
                             /\ Len(waiting'[h]) + 1 = Len(waiting[h])
    <3>1. Len(waiting[h]) \in Nat
      BY <1>1
    <3> QED BY <1>2, <2>1, <3>1
  <2> QED BY <1>2, <2>2
<1> QED BY <1>4, <1>5, <1>6, <1>7

LEMMA RealResponsePages ==
  ASSUME ReplayTypeOK, Working, NEW h \in Handler, Step(h), Kept(h), PagesAt(h), RealResponse(h)
  PROVE  PagesAt(h)'
<1> DEFINE r == waiting[h][1]
           page == [site |-> r.site, location |-> r.location, ts |-> timestamp[h]]
<1>1. /\ UNCHANGED <<htdocs, pc, request, emulated, lost, answer>>
      /\ pc[h] = "read" /\ waiting[h] # <<>> /\ request[h] = Null
  BY DEF RealResponse, Working, Works
<1>2. r = Head(waiting[h]) /\ r \in Request
  BY <1>1, Headed
<1>3. File(h, page)
  BY <1>2 DEF RealResponse
<1>4. page \in Page
  <2>1. timestamp[h] \in Stamp
    BY DEF ReplayTypeOK
  <2> QED BY <1>2, <2>1 DEF Page, Real, Request
<1> HIDE DEF page
<1>5. ~(OpenPage(h) \/ WritePage(h))
  BY <1>1 DEF OpenPage, WritePage
<1>6. ~lost'[h] =>
        /\ \A i \in DOMAIN waiting'[h] : Served(logs', htdocs', waiting'[h][i])
        /\ waiting'[h] # <<>> => Named(htdocs', waiting'[h][Len(waiting'[h])], emulated[h])
  BY <1>1, <1>3, <1>4, <1>5, QueueShrinks
<1>7. ~lost'[h] => Answered(h)'
  BY <1>1, AnsweredStays
<1>8. answer'[h] # Null => answer'[h].request \in Request
  BY <1>1 DEF PagesAt
<1> QED BY <1>1, <1>6, <1>7, <1>8 DEF PagesAt

LEMMA LocalResponsePages ==
  ASSUME ReplayTypeOK, Working, DOMAIN answer = Handler, NEW h \in Handler, Step(h), Kept(h),
         PagesAt(h), LocalResponse(h)
  PROVE  PagesAt(h)'
<1> DEFINE r == Head(waiting[h])
           there == htdocs[PathOf(r.location)]
           page == IF there \in {Null, Directory} THEN ErrorPage ELSE there
<1>1. /\ UNCHANGED <<htdocs, pc, request, emulated, lost>>
      /\ pc[h] = "read" /\ waiting[h] # <<>> /\ request[h] = Null /\ File(h, page)
  BY DEF LocalResponse, Working, Works
<1>2. r \in Request /\ r = waiting[h][1] /\ 1 \in DOMAIN waiting[h] /\ PathOf(r.location) \in Paths
  BY <1>1, Headed
<1>3. there \in Page \cup {Null, Directory}
  BY <1>2 DEF ReplayTypeOK
<1>4. page \in Page
  BY <1>3 DEF Page
<1>5. PICK server \in Servers(h), alone \in BOOLEAN :
        /\ alone = (Len(waiting[h]) = 1)
        /\ answer' = [answer EXCEPT ![h] =
             [request |-> r, page |-> page, alone |-> alone, server |-> server]]
  BY Zenon DEF LocalResponse
<1> HIDE DEF r, page, there
<1>6. answer'[h] = [request |-> r, page |-> page, alone |-> alone, server |-> server]
  BY <1>5
<1>7. ~(OpenPage(h) \/ WritePage(h))
  BY <1>1 DEF OpenPage, WritePage
<1>8. ~lost'[h] =>
        /\ \A i \in DOMAIN waiting'[h] : Served(logs', htdocs', waiting'[h][i])
        /\ waiting'[h] # <<>> => Named(htdocs', waiting'[h][Len(waiting'[h])], emulated[h])
  BY <1>1, <1>4, <1>7, QueueShrinks
<1>9. ASSUME ~lost'[h], Counts(htdocs, r)
      PROVE  /\ Right(logs', r, page)
             /\ r.type # "dummy" /\ alone => server \in {page.ts, Null}
  <2>1. Served(logs, htdocs, r)
    BY <1>1, <1>2, <1>9 DEF PagesAt
  <2>2. Right(logs, r, htdocs[Destination(r.location)]) /\ there = htdocs[Destination(r.location)]
    BY <1>9, <2>1 DEF Served, Counts, there
  <2>3. there # Null /\ there # Directory
    BY <1>9, <2>2, MarkAssumption DEF Right, Counts, Page
  <2>4. page = there
    BY <2>3 DEF page
  <2>5. Served(logs', htdocs', r)
    BY <1>2, <1>7, <2>1, RightStays
  <2>6. Right(logs', r, page)
    BY <1>1, <1>9, <2>2, <2>4, <2>5 DEF Served
  <2>7. ASSUME r.type # "dummy", alone
        PROVE  server \in {page.ts, Null}
    <3>1. Len(waiting[h]) = 1
      BY <1>5, <2>7, Zenon
    <3>2. Named(htdocs, r, emulated[h])
      BY <1>1, <1>2, <1>9, <3>1 DEF PagesAt
    <3>3. page.ts = emulated[h]
      BY <1>9, <2>2, <2>4, <2>7, <3>2 DEF Named
    <3>4. page \in Real
      BY <2>2, <2>4, <2>7 DEF Right
    <3>5. page.ts \in Stamp
      BY <3>4 DEF Real
    <3>6. emulated[h] # Null
      BY <3>3, <3>5, MarkAssumption
    <3> QED BY <1>5, <3>3, <3>6 DEF Servers
  <2> QED BY <2>6, <2>7
<1>10. ~lost'[h] => Answered(h)'
  <2>1. answer'[h].request = r /\ answer'[h].page = page /\ answer'[h].server = server
    BY <1>6
  <2>2. answer'[h].alone = alone
    BY <1>6
  <2>3. answer'[h].alone => alone
    BY <2>2, Zenon
  <2> QED BY <1>1, <1>9, <2>1, <2>3 DEF Answered
<1>11. answer'[h].request \in Request
  BY <1>2, <1>6
<1> QED BY <1>1, <1>8, <1>10, <1>11 DEF PagesAt

Shown == DOMAIN answer = Handler /\ Pages

LEMMA StepPages ==
  ASSUME ReplayTypeOK, Working, Told, Shown, NEW h \in Handler, Step(h), Kept(h)
  PROVE  Shown'
<1>1. DOMAIN answer = Handler /\ PagesAt(h)
  BY DEF Shown, Pages
<1>2. PagesAt(h)'
  BY <1>1, ReadRequestPages, ReadOfflinePages, BuildPages, FindSourcePages, OpenPagePages,
     CopyFailsPages, WritePagePages, LogRequestPages, RealResponsePages, LocalResponsePages,
     Zenon DEF Step
<1>3. \A k \in Handler \ {h} : PagesAt(k)'
  BY PagesElsewhere DEF Shown, Pages
<1>4. DOMAIN answer' = Handler
  <2>1. CASE LocalResponse(h)
    BY <1>1, <2>1 DEF LocalResponse
  <2>2. CASE ~LocalResponse(h)
    BY <1>1, <2>2 DEF Step, ReadRequest, ReadOffline, ChangeDir, MakeDir, FindSource, OpenPage,
                      CopyFails, WritePage, LogRequest, RealResponse, replies
  <2> QED BY <2>1, <2>2
<1> QED BY <1>2, <1>3, <1>4 DEF Shown, Pages

LEMMA ReplayShown == ReplaySpec => [](ReplayTypeOK /\ Working /\ Told /\ Shown)
<1>1. ReplayInit => Shown
  <2> SUFFICES ASSUME ReplayInit
               PROVE  Shown
    OBVIOUS
  <2>1. ASSUME NEW h \in Handler
        PROVE  PagesAt(h)
    BY DEF ReplayInit, PagesAt, Answered
  <2> QED BY <2>1 DEF ReplayInit, Shown, Pages
<1>2. Shown /\ UNCHANGED replayVars => Shown'
  <2> SUFFICES ASSUME Shown, UNCHANGED replayVars
               PROVE  Shown'
    OBVIOUS
  <2>1. UNCHANGED <<logs, filed, htdocs, pc, request, emulated, depth, src, lost, waiting,
                    answer>>
    BY DEF replayVars, disk, replies
  <2>2. ASSUME NEW h \in Handler
        PROVE  PagesAt(h)'
    <3>1. InWork(h)' = InWork(h) /\ Answered(h)' = Answered(h)
      BY <2>1 DEF InWork, Answered, Building
    <3>2. PagesAt(h)
      BY DEF Shown, Pages
    <3> QED BY <2>1, <3>1, <3>2 DEF PagesAt
  <2> QED BY <2>1, <2>2 DEF Shown, Pages
<1>3. ReplayTypeOK /\ Working /\ Told /\ Shown /\ ReplayNext => Shown'
  BY NextStep, StepPages
<1>4. Shown /\ [ReplayNext]_replayVars /\ ReplayTypeOK /\ Working /\ Told => Shown'
  BY <1>2, <1>3
<1> QED BY <1>1, <1>4, ReplayTold, PTL DEF ReplaySpec

-----------------------------------------------------------------------------
\* HttpReplay: what was asked for on the connection of a response

\* A real response is to what was asked for on its own connection.
Genuine(table, page) == page \in Real => Fits(table, page, page.ts)

Sourced ==
    /\ \A n \in DOMAIN filed : Genuine(logs, filed[n])
    /\ \A p \in Paths : Genuine(logs, htdocs[p])
    /\ \A h \in Handler : answer[h] # Null => Genuine(logs, answer[h].page)
    /\ \A h \in Online : \A i \in DOMAIN waiting[h] : Fits(logs, waiting[h][i], timestamp[h])

\* What is filed by a response of h
LEMMA FiledGenuine ==
  ASSUME ReplayTypeOK, NEW h \in Handler, NEW page \in Page, waiting[h] # <<>>, File(h, page),
         Grows(logs, logs'), Sourced, Genuine(logs', page)
  PROVE  \A n \in DOMAIN filed' : Genuine(logs', filed'[n])
<1>1. \A q : Genuine(logs, q) => Genuine(logs', q)
  BY FitsStays, Zenon DEF Genuine
<1>2. \A n \in DOMAIN filed' : (n \in DOMAIN filed /\ filed'[n] = filed[n]) \/ filed'[n] = page
  BY FileStep
<1> QED BY <1>1, <1>2 DEF Sourced

\* The pages in the document tree are copies.
LEMMA TreeGenuine ==
  ASSUME ReplayTypeOK, Working, NEW h \in Handler, Step(h), Grows(logs, logs'), Sourced
  PROVE  \A p \in Paths : Genuine(logs', htdocs'[p])
<1>1. \A q : Genuine(logs, q) => Genuine(logs', q)
  BY FitsStays, Zenon DEF Genuine
<1>2. ASSUME NEW p \in Paths
      PROVE  \/ htdocs'[p] = htdocs[p] \/ htdocs'[p] \in {Directory, EmptyPage, MixedPage, DummyPage}
             \/ \E n \in DOMAIN filed : htdocs'[p] = filed[n]
  <2>1. htdocs \in [Paths -> Page \cup {Null, Directory}]
    BY DEF ReplayTypeOK
  <2>2. CASE htdocs' = htdocs
    BY <2>2
  <2>3. CASE htdocs' = [htdocs EXCEPT ![NextDir(h)] = Directory]
    BY <2>1, <2>3
  <2>4. CASE OpenPage(h)
    <3>1. htdocs' = [htdocs EXCEPT ![Destination(request[h].location)] = EmptyPage]
      BY <2>4 DEF OpenPage
    <3> QED BY <2>1, <3>1
  <2>5. CASE WritePage(h)
    <3>1. PICK page \in {Content(src[h]), MixedPage} :
            htdocs' = [htdocs EXCEPT ![Destination(request[h].location)] = page]
      BY <2>5, Written
    <3>2. src[h] = DummyPage \/ src[h] \in DOMAIN filed
      BY <2>5 DEF WritePage, Working, Works
    <3>3. page \in {DummyPage, MixedPage} \/ \E n \in DOMAIN filed : page = filed[n]
      BY <3>1, <3>2 DEF Content
    <3>4. htdocs'[p] \in {htdocs[p], page}
      BY <2>1, <3>1
    <3> QED BY <3>3, <3>4
  <2> QED BY <2>2, <2>3, <2>4, <2>5, TreeMoves
<1>3. {Directory, EmptyPage, MixedPage, DummyPage} \cap Real = {}
  BY MarkAssumption DEF Page
<1> QED BY <1>1, <1>2, <1>3 DEF Sourced, Genuine

\* What was asked for and not answered is in the rows.
LEMMA WaitingFits ==
  ASSUME ReplayTypeOK, Working, NEW h \in Handler, Step(h), Kept(h), Grows(logs, logs'), Sourced,
         NEW k \in Online
  PROVE  \A i \in DOMAIN waiting'[k] : Fits(logs', waiting'[k][i], timestamp[k])
<1>1. \A i \in DOMAIN waiting[k] : Fits(logs, waiting[k][i], timestamp[k])
  BY DEF Sourced
<1>2. \A i \in DOMAIN waiting[k] : Fits(logs', waiting[k][i], timestamp[k])
  BY <1>1, FitsStays
<1>3. CASE k # h
  <2>1. k \in Handler \ {h}
    BY <1>3 DEF Online
  <2>2. /\ DOMAIN waiting'[k] = DOMAIN waiting[k]
        /\ \A i \in DOMAIN waiting[k] : /\ waiting'[k][i].site = waiting[k][i].site
                                        /\ waiting'[k][i].location = waiting[k][i].location
    BY <2>1 DEF Kept, Elsewhere
  <2> QED BY <1>1, <2>2, FitsStays
<1>4. CASE k = h
  <2>1. pc[h] = "read" /\ h \notin Offline
    BY <1>4 DEF Online, Working, Works
  <2>2. ReadRequest(h) \/ RealResponse(h)
    BY <2>1 DEF Step, ReadOffline, ChangeDir, MakeDir, FindSource, OpenPage, CopyFails, WritePage,
                LogRequest, LocalResponse
  <2>3. CASE ReadRequest(h)
    <3>1. PICK s \in Site, l \in Location :
            Forward(h, [site |-> s, location |-> l, type |-> "new", found |-> FALSE,
                        touched |-> FALSE])
      BY <2>3 DEF ReadRequest
    <3> DEFINE r == [site |-> s, location |-> l, type |-> "new", found |-> FALSE,
                     touched |-> FALSE]
    <3>2. r \in Request /\ r.type = "new" /\ Forward(h, r)
      BY <3>1 DEF Request, Type
    <3> HIDE DEF r
    <3>3. /\ Len(logs) + 1 \in DOMAIN logs'
          /\ logs'[Len(logs) + 1] = [ts |-> timestamp[h], site |-> r.site,
                                     location |-> r.location, type |-> r.type, body |-> Null]
          /\ waiting'[h] = Append(waiting[h], r)
      BY <3>2, Forwarded
    <3>4. Fits(logs', r, timestamp[h])
      BY <3>2, <3>3 DEF Fits
    <3>5. waiting[h] \in Seq(Request)
      BY DEF ReplayTypeOK
    <3>6. \A i \in DOMAIN waiting'[h] :
            \/ waiting'[h][i] = r
            \/ i \in DOMAIN waiting[h] /\ waiting'[h][i] = waiting[h][i]
      BY <3>2, <3>3, <3>5
    <3> QED BY <1>2, <1>4, <3>4, <3>6
  <2>4. CASE RealResponse(h)
    <3>1. waiting[h] # <<>> /\ Head(waiting[h]) = waiting[h][1] /\ waiting[h][1] \in Request
      BY <2>4, Headed DEF RealResponse
    <3> DEFINE page == [site |-> waiting[h][1].site, location |-> waiting[h][1].location,
                        ts |-> timestamp[h]]
    <3>2. File(h, page)
      BY <2>4, <3>1 DEF RealResponse
    <3>3. page \in Page
      <4>1. timestamp[h] \in Stamp
        BY DEF ReplayTypeOK
      <4> QED BY <3>1, <4>1 DEF Page, Real, Request
    <3> HIDE DEF page
    <3>4. /\ DOMAIN waiting'[h] = 1 .. Len(waiting[h]) - 1
          /\ \A i \in 1 .. Len(waiting[h]) - 1 : waiting'[h][i] = waiting[h][i + 1]
      BY <3>1, <3>2, <3>3, FileStep
    <3>5. waiting[h] \in Seq(Request)
      BY DEF ReplayTypeOK
    <3>6. \A i \in DOMAIN waiting'[h] :
            i + 1 \in DOMAIN waiting[h] /\ waiting'[h][i] = waiting[h][i + 1]
      BY <3>4, <3>5
    <3> QED BY <1>2, <1>4, <3>6
  <2> QED BY <2>2, <2>3, <2>4
<1> QED BY <1>3, <1>4

LEMMA StepSourced ==
  ASSUME ReplayTypeOK, Working, DOMAIN answer = Handler, Sourced, NEW h \in Handler, Step(h),
         Kept(h)
  PROVE  Sourced'
<1>1. Grows(logs, logs') /\ timestamp' = timestamp
  BY PageMoves DEF Kept, Elsewhere
<1>2. \A q : Genuine(logs, q) => Genuine(logs', q)
  BY <1>1, FitsStays, Zenon DEF Genuine
<1>3. \A p \in Paths : Genuine(logs', htdocs'[p])
  BY <1>1, TreeGenuine
<1>4. \A k \in Online : \A i \in DOMAIN waiting'[k] : Fits(logs', waiting'[k][i], timestamp'[k])
  BY <1>1, WaitingFits
<1>5. CASE RealResponse(h)
  <2> DEFINE r == waiting[h][1]
             page == [site |-> r.site, location |-> r.location, ts |-> timestamp[h]]
  <2>1. waiting[h] # <<>> /\ h \notin Offline /\ answer' = answer
    BY <1>5 DEF RealResponse
  <2>2. r = Head(waiting[h]) /\ r \in Request /\ 1 \in DOMAIN waiting[h]
    BY <2>1, Headed
  <2>3. File(h, page)
    BY <1>5, <2>2 DEF RealResponse
  <2>4. page \in Page
    <3>1. timestamp[h] \in Stamp
      BY DEF ReplayTypeOK
    <3> QED BY <2>2, <3>1 DEF Page, Real, Request
  <2>5. Fits(logs, r, timestamp[h])
    BY <2>1, <2>2 DEF Sourced, Online
  <2>6. page.site = r.site /\ page.location = r.location /\ page.ts = timestamp[h]
    OBVIOUS
  <2> HIDE DEF page, r
  <2>7. Genuine(logs', page)
    BY <1>1, <2>5, <2>6, FitsStays DEF Genuine
  <2>8. \A n \in DOMAIN filed' : Genuine(logs', filed'[n])
    BY <1>1, <2>1, <2>3, <2>4, <2>7, FiledGenuine
  <2>9. \A k \in Handler : answer'[k] # Null => Genuine(logs', answer'[k].page)
    BY <1>2, <2>1 DEF Sourced
  <2> QED BY <1>3, <1>4, <2>8, <2>9 DEF Sourced
<1>6. CASE LocalResponse(h)
  <2> DEFINE r == Head(waiting[h])
             there == htdocs[PathOf(r.location)]
             page == IF there \in {Null, Directory} THEN ErrorPage ELSE there
  <2>1. waiting[h] # <<>> /\ File(h, page)
    BY <1>6 DEF LocalResponse
  <2>2. r = waiting[h][1] /\ r \in Request /\ PathOf(r.location) \in Paths
    BY <2>1, Headed
  <2>3. there \in Page \cup {Null, Directory} /\ Genuine(logs, there)
    BY <2>2 DEF ReplayTypeOK, Sourced
  <2>4. \E server \in Servers(h), alone \in BOOLEAN :
          answer' = [answer EXCEPT ![h] =
            [request |-> r, page |-> page, alone |-> alone, server |-> server]]
    BY <1>6, Zenon DEF LocalResponse
  <2> HIDE DEF there, r
  <2>5. page \in Page /\ Genuine(logs, page)
    BY <2>3, MarkAssumption DEF Page, Genuine
  <2> HIDE DEF page
  <2>6. Genuine(logs', page)
    BY <1>2, <2>5
  <2>7. \A n \in DOMAIN filed' : Genuine(logs', filed'[n])
    BY <1>1, <2>1, <2>5, <2>6, FiledGenuine
  <2>8. \A k \in Handler : answer'[k].page = page \/ answer'[k] = answer[k]
    BY <2>4
  <2>9. \A k \in Handler : answer'[k] # Null => Genuine(logs', answer'[k].page)
    BY <1>2, <2>6, <2>8 DEF Sourced
  <2> QED BY <1>3, <1>4, <2>7, <2>9 DEF Sourced
<1>7. CASE ~(RealResponse(h) \/ LocalResponse(h))
  <2>1. filed' = filed /\ answer' = answer
    BY <1>7 DEF Step, ReadRequest, ReadOffline, ChangeDir, MakeDir, FindSource, OpenPage,
                CopyFails, WritePage, LogRequest, disk, replies
  <2> QED BY <1>2, <1>3, <1>4, <2>1 DEF Sourced
<1> QED BY <1>5, <1>6, <1>7

LEMMA ReplaySourced == ReplaySpec => [](Shown /\ Sourced)
<1>1. ReplayInit => Sourced
  <2> SUFFICES ASSUME ReplayInit
               PROVE  Sourced
    OBVIOUS
  <2>1. \A p \in Paths : htdocs[p] = Null
    BY DEF ReplayInit
  <2>2. Null \notin Real
    BY MarkAssumption DEF Page
  <2>3. DOMAIN filed = {}
    BY DEF ReplayInit
  <2>4. \A h \in Handler : answer[h] = Null /\ DOMAIN waiting[h] = {}
    BY DEF ReplayInit
  <2> QED BY <2>1, <2>2, <2>3, <2>4 DEF Sourced, Genuine, Online
<1>2. Sourced /\ UNCHANGED replayVars => Sourced'
  <2> SUFFICES ASSUME Sourced, UNCHANGED replayVars
               PROVE  Sourced'
    OBVIOUS
  <2>1. UNCHANGED <<logs, filed, htdocs, waiting, answer, timestamp>>
    BY DEF replayVars, conn, disk, replies
  <2> QED BY <2>1 DEF Sourced
<1>3. ReplayTypeOK /\ Working /\ Shown /\ Sourced /\ ReplayNext => Sourced'
  BY NextStep, StepSourced DEF Shown
<1>4. Sourced /\ [ReplayNext]_replayVars /\ ReplayTypeOK /\ Working /\ Told /\ Shown => Sourced'
  BY <1>2, <1>3
<1> QED BY <1>1, <1>4, ReplayShown, PTL DEF ReplaySpec

\* AnswersRight: when an old response was found and nobody else has written to the page,
\* the client gets a response of a real service, given on a connection on which just this
\* was asked for, and to this unless something else was asked for on it too; or the dummy
\* page.  Unless requests are pipelined, the name of the server is of the same connection
\* or missing (http.c:10-17, 50-104; helper_file.c:137-215; log_postgres.c:230).
THEOREM AnswersAreRight == ReplaySpec => []AnswersRight
<1>1. ASSUME Shown, Sourced
      PROVE  AnswersRight
  <2> SUFFICES ASSUME NEW h \in Handler,
                      answer[h] # Null, ~lost[h],
                      answer[h].request.found, ~answer[h].request.touched,
                      PathOf(answer[h].request.location) = Destination(answer[h].request.location),
                      htdocs[Destination(answer[h].request.location)] # Directory
               PROVE  LET a == answer[h]
                          l == a.request.location IN
                      IF a.request.type = "dummy" THEN a.page = DummyPage
                      ELSE /\ a.page \in Real
                           /\ <<a.request.site, l>> \in AskedAt(a.page.ts)
                           /\ AskedAt(a.page.ts) = {<<a.request.site, l>>} =>
                                a.page.site = a.request.site /\ a.page.location = l
                           /\ a.alone => a.server \in {a.page.ts, Null}
    BY Zenon DEF AnswersRight
  <2> DEFINE a == answer[h]
             r == a.request
             page == a.page
  <2>1. Answered(h) /\ Genuine(logs, page)
    BY <1>1 DEF Shown, Pages, PagesAt, Sourced
  <2>2. /\ Right(logs, r, page)
        /\ r.type # "dummy" /\ a.alone => a.server \in {page.ts, Null}
    BY <2>1 DEF Answered, Counts
  <2> HIDE DEF a
  <2>3. CASE r.type = "dummy"
    BY <2>2, <2>3 DEF Right, a
  <2>4. CASE r.type # "dummy"
    <3>1. page \in Real /\ Fits(logs, r, page.ts) /\ Fits(logs, page, page.ts)
      BY <2>1, <2>2, <2>4 DEF Right, Genuine
    <3>2. \A q : Fits(logs, q, page.ts) => <<q.site, q.location>> \in AskedAt(page.ts)
      BY Zenon DEF Fits, AskedAt
    <3>3. /\ <<r.site, r.location>> \in AskedAt(page.ts)
          /\ <<page.site, page.location>> \in AskedAt(page.ts)
      BY <3>1, <3>2
    <3>4. AskedAt(page.ts) = {<<r.site, r.location>>} =>
            page.site = r.site /\ page.location = r.location
      BY <3>3
    <3> QED BY <2>2, <2>4, <3>1, <3>3, <3>4 DEF a
  <2> QED BY <2>3, <2>4
<1> QED BY <1>1, ReplaySourced, PTL
=============================================================================
