--------------------------- MODULE MCLineHandlers ----------------------------
(***************************************************************************)
(* An instance of LineHandlers for TLC: up to three lines of a client, up  *)
(* to two of a service, in every combination of the kinds that the         *)
(* protocol tells apart.                                                   *)
(***************************************************************************)
EXTENDS LineHandlers

Stream(kinds) ==
    FlattenSeq([n \in DOMAIN kinds |->
      <<[line |-> n, part |-> "head", kind |-> kinds[n]],
        [line |-> n, part |-> "end", kind |-> kinds[n]]>>])

UpTo(n, kinds) == UNION {[1 .. m -> kinds] : m \in 0 .. n}

Talk(protocol, clients, servers) ==
    {[protocol |-> protocol, client |-> Stream(c), server |-> Stream(s)] :
       c \in clients, s \in servers}

MCSessions ==
    Talk("irc", UpTo(3, {"join", "nick", "other"}), {<<"reply">>})
    \cup Talk("irc", {<<"nick">>}, UpTo(2, {"reply", "bad", "other"}))
    \cup Talk("smtp", UpTo(3, {"rcpt", "other"}), {<<"other", "other">>})
    \cup Talk("ftp", {<<"other", "other">>}, {<<"other", "other">>})
    \cup Talk("unknown", {<<"other", "other">>}, {<<"other", "other">>})
=============================================================================
