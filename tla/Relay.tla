-------------------------------- MODULE Relay --------------------------------
(***************************************************************************)
(* What one TCP handler promises about one intercepted connection, without *)
(* saying how the other end is chosen: it is attached to at most one peer, *)
(* every message it takes from the client is passed on, in order and once, *)
(* to that peer, every message it takes from the peer is passed on to the  *)
(* client, and no message is held for ever unless the session is over.     *)
(***************************************************************************)
EXTENDS Naturals, Sequences

CONSTANT Peers        \* the services a client may be connected to

VARIABLES phase,      \* "open": nobody attached, "relaying", "over"
          peer,       \* the service attached, {} for none and {p} for p
          clientRead, \* how many messages were taken from the client
          serverRead, \* how many messages were taken from the peer
          toServer,   \* the client's messages passed on, by their position
          toClient    \* the peer's messages passed on, by their position

vars == <<phase, peer, clientRead, serverRead, toServer, toClient>>

Init ==
    /\ phase = "open"
    /\ peer = {}
    /\ clientRead = 0
    /\ serverRead = 0
    /\ toServer = <<>>
    /\ toClient = <<>>

\* The next message of the client is taken; at most one is held.
TakeFromClient ==
    /\ phase # "over"
    /\ clientRead = Len(toServer)
    /\ clientRead' = clientRead + 1
    /\ UNCHANGED <<phase, peer, serverRead, toServer, toClient>>

Attach ==
    /\ phase = "open"
    /\ phase' = "relaying"
    /\ \E p \in Peers : peer' = {p}
    /\ UNCHANGED <<clientRead, serverRead, toServer, toClient>>

PassToServer ==
    /\ phase = "relaying"
    /\ clientRead = Len(toServer) + 1
    /\ toServer' = Append(toServer, clientRead)
    /\ UNCHANGED <<phase, peer, clientRead, serverRead, toClient>>

\* Messages of the peer are not held while the handler does something else.
PassToClient ==
    /\ phase = "relaying"
    /\ clientRead = Len(toServer)
    /\ serverRead' = serverRead + 1
    /\ toClient' = Append(toClient, serverRead')
    /\ UNCHANGED <<phase, peer, clientRead, toServer>>

\* The session may end at any time; a message held or just taken is lost.
End ==
    /\ phase # "over"
    /\ phase' = "over"
    /\ serverRead' \in {serverRead, serverRead + 1}
    /\ UNCHANGED <<peer, clientRead, toServer, toClient>>

Next == TakeFromClient \/ Attach \/ PassToServer \/ PassToClient \/ End

SafetySpec == Init /\ [][Next]_vars

\* A message that was taken is passed on, or the session ends.
Spec == SafetySpec /\ WF_vars(clientRead > Len(toServer) /\ (Attach \/ PassToServer \/ End))
=============================================================================
