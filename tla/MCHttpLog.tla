------------------------------ MODULE MCHttpLog -------------------------------
(***************************************************************************)
(* An instance of HttpLog for TLC: up to two requests and two responses,   *)
(* with no body, with bodies that are declared, with bodies that are not,  *)
(* and with one that is longer than declared, in every combination.        *)
(***************************************************************************)
EXTENDS HttpLog, SequencesExt

\* The tokens of message m of a kind
Message(m, kind) ==
    <<[msg |-> m, part |-> "head", declared |-> kind.declared],
      [msg |-> m, part |-> "end", declared |-> kind.declared]>>
    \o [i \in 1 .. kind.body |->
         [msg |-> m, part |-> "body", declared |-> kind.declared]]

StreamOf(kinds) == FlattenSeq([m \in DOMAIN kinds |-> Message(m, kinds[m])])

Requests == {[declared |-> None, body |-> 0], [declared |-> None, body |-> 1],
             [declared |-> 2, body |-> 2]}
Responses == {[declared |-> 0, body |-> 0], [declared |-> None, body |-> 2],
              [declared |-> 1, body |-> 1], [declared |-> 3, body |-> 3],
              [declared |-> 1, body |-> 2]}

UpToTwo(kinds) == {<<a>> : a \in kinds} \cup (kinds \X kinds)

Get == [declared |-> None, body |-> 0]

Pair(c, r) == [s \in Sides |-> IF s = "client" THEN StreamOf(c) ELSE StreamOf(r)]

\* One response to every stream of requests, and every stream of responses to
\* two requests; the two sides meet only in the rows.
MCStreams == {Pair(c, <<r>>) : c \in UpToTwo(Requests), r \in Responses}
             \cup {Pair(<<Get, Get>>, r) : r \in UpToTwo(Responses)}
=============================================================================
