----------------------------- MODULE MCDispatcher -----------------------------
(***************************************************************************)
(* An instance of Dispatcher for TLC: two connections, so that the second  *)
(* one meets a counter the first one has used up; two handlers, so that    *)
(* they race for a datagram; three datagrams, so that every handler has    *)
(* been through its loop before the last one arrives; one command; and     *)
(* descriptors for one connection without its lookup, or for all of both.  *)
(***************************************************************************)
EXTENDS Dispatcher

MCTables == {1, 3}

MCKids == {"k1", "k2"}
=============================================================================
