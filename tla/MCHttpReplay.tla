----------------------------- MODULE MCHttpReplay -----------------------------
(***************************************************************************)
(* An instance of HttpReplay for TLC: a page whose name is a directory of  *)
(* another one, two locations that differ in their query, one of them with *)
(* a slash in it.                                                          *)
(***************************************************************************)
EXTENDS HttpReplay, TLC

CONSTANTS h1, h2, h3, s1, s2

plain == <<<<"a">>>>                         \* /a
below == <<<<"a">>, <<"b">>>>               \* /a/b
queried == <<<<"a", "q">>>>                 \* /a?q
slashed == <<<<"a", "q">>, <<"r">>>>        \* /a?q/r

MCLocation == {plain, below, queried, slashed}

MCAsks == {<<s1, plain>>, <<s1, below>>, <<s2, below>>, <<s1, queried>>, <<s1, slashed>>}

Load(x, y, z) == [h \in Handler |-> IF h = h1 THEN x ELSE IF h = h2 THEN y ELSE z]

MCLoads == {Load(1, 1, 1), Load(2, 1, 0), Load(1, 2, 0)}
=============================================================================
