--------------------------- MODULE TcpHandlerProofs ---------------------------
(***************************************************************************)
(* Proofs about TcpHandler for all sets of payloads and ports and any      *)
(* number of messages.                                                     *)
(***************************************************************************)
EXTENDS TcpHandler, TLAPS

-----------------------------------------------------------------------------
\* The inductive invariant

\* The message held, by where the handler is
Holding ==
    /\ at = "select" => held = 0 /\ clientRead = Len(toServer)
    /\ at \in {"intercept", "connect", "fallback", "forward"} =>
          held = clientRead /\ clientRead = Len(toServer) + 1
    /\ at = "unknown" =>
          \/ held = 0 /\ clientRead = Len(toServer)
          \/ held = clientRead /\ clientRead = Len(toServer) + 1

\* The socket towards the service
Attached ==
    /\ peer = {} <=> sock = "closed"
    /\ peer # {} => connectedToFinal /\ \E p \in Addresses : peer = {p}
    /\ sock = "closed" => serverSent = 0
    /\ at \in {"unknown", "connect", "fallback"} => ~connectedToFinal

\* The protocol is known wherever the connection is made for its sake.
Identified ==
    /\ at \in {"intercept", "connect", "fallback"} => app # "UNKNOWN"
    /\ at = "intercept" => app = "SSL_Proto" /\ setup.sslMitmActive
                           /\ setup.mode # "full_emulation"

\* Before the first select() comes back nothing was chosen or tried; later on
\* a message of the client is only read while a service is connected.
Fresh ==
    first => /\ at \in {"select", "done", "killed"}
             /\ app = "UNKNOWN" /\ ~connectedToFinal

\* What a proxy mode knows about its target
Proxy ==
    setup.mode # "full_emulation" =>
      /\ target # "garbage" /\ dest \notin {"unset", "garbage"}
      /\ first => dest = "orig" /\ ~destOffline
      /\ at \in {"unknown", "connect", "fallback"} => target = dest
      /\ connectedToFinal => peer # {}
      /\ (connectedToFinal \/ at = "unknown") /\ (app = "UNKNOWN" \/ at = "intercept") =>
            ~(setup.nepenthesActive /\ setup.dport \in NepenthesPorts)
      /\ app = "UNKNOWN" \/ at = "intercept" =>
            \/ dest = "orig"
            \/ dest = "nepenthes" /\ setup.nepenthesActive /\ setup.dport \in NepenthesPorts

\* In the proxy modes the local service, destOffline and an unreachable
\* original go together.
Redirected ==
    setup.mode # "full_emulation" =>
      /\ "local" \in {target, dest} \cup peer =>
            destOffline /\ setup.mode = "half_proxy" /\ "orig" \in failed
      /\ destOffline => at = "fallback" \/ connectedToFinal \/ Over
      /\ destOffline /\ at = "fallback" /\ app \in Emulated => target = "local"
      /\ at = "connect" /\ app \in Emulated => target = "orig"
      /\ at \in {"connect", "fallback"} /\ app # "SSL_Proto" => target # "sslproxy"
      /\ connectedToFinal /\ app = "UNKNOWN" => ~destOffline
      /\ connectedToFinal /\ app \in Emulated /\ destOffline => peer = {"local"}

\* Only a connection made for an intercepted TLS session goes to the
\* interceptor.
Interceptor ==
    at \in {"unknown", "connect", "fallback"} =>
      (target = "sslproxy" <=> app = "SSL_Proto" /\ setup.sslMitmActive
                                /\ setup.mode # "full_emulation")

\* What full emulation connects for the sake of a protocol
Emulation ==
    setup.mode = "full_emulation" =>
      /\ target \in {"garbage", "local", "nepenthes"}
      /\ at \in {"unknown", "connect"} /\ app \in Emulated => target = "local"
      /\ at # "fallback"

IInv ==
    /\ TypeOK /\ Holding /\ Attached /\ Identified /\ Fresh
    /\ Proxy /\ Redirected /\ Interceptor /\ Emulation
    /\ LoggedPeer
-----------------------------------------------------------------------------
\* Lemmas

\* Whatever bypayload makes of a payload is a protocol.
LEMMA IdentifiedType == identified \subseteq Protocols
  BY PayloadsAssumption DEF identified, bypayload, Protocols

\* The handler crashes on an unconnected or reset socket.
LEMMA ReadTargetErrorIInv == IInv /\ ReadTargetError => IInv'
  <1> SUFFICES ASSUME IInv, ReadTargetError PROVE IInv'
    OBVIOUS
  <1>1. TypeOK'
    <2>1. FlagsOK'
      BY Zenon DEF IInv, TypeOK, FlagsOK, ReadTargetError, TargetReadable,
         routing, sockets, ends, streams
    <2>2. RoutingOK'
      BY SMT DEF IInv, TypeOK, RoutingOK, Protocols, Addresses,
         ReadTargetError, TargetReadable, routing, sockets, ends, streams
    <2>3. SocketsOK'
      BY SMT DEF IInv, TypeOK, SocketsOK, RoutingOK, ReadTargetError,
         TargetReadable, routing, sockets, ends, streams
    <2>4. StreamsOK'
      BY SMT DEF IInv, TypeOK, StreamsOK, ReadTargetError, TargetReadable,
         routing, sockets, ends, streams
    <2> QED
      BY <2>1, <2>2, <2>3, <2>4 DEF IInv, TypeOK, ReadTargetError,
         TargetReadable, routing, sockets, ends, streams
  <1>2. Holding'
    BY SMT DEF IInv, Holding, TypeOK, StreamsOK, ReadTargetError,
       TargetReadable, routing, sockets, ends, streams
  <1>3. Attached'
    BY SMT DEF IInv, Attached, TypeOK, RoutingOK, Identified, ReadTargetError,
       TargetReadable, routing, sockets, ends, streams
  <1>4. Identified'
    BY SMT DEF IInv, Identified, ReadTargetError, TargetReadable, routing,
       sockets, ends, streams
  <1>5. Fresh'
    BY SMT DEF IInv, Fresh, ReadTargetError, TargetReadable, routing, sockets,
       ends, streams
  <1>6. Proxy'
    BY SMT DEF IInv, Proxy, Attached, Identified, Fresh, TypeOK, RoutingOK,
       Addresses, ReadTargetError, TargetReadable, routing, sockets, ends,
       streams
  <1>7. Redirected'
    BY SMT DEF IInv, Redirected, Proxy, Attached, Identified, Fresh, Emulated,
       Over, ReadTargetError, TargetReadable, routing, sockets, ends, streams
  <1>8. Interceptor'
    BY SMT DEF IInv, Interceptor, Identified, Redirected, Fresh, Proxy,
       Emulation, Attached, ReadTargetError, TargetReadable, routing, sockets,
       ends, streams
  <1>9. Emulation'
    BY SMT DEF IInv, Emulation, Identified, Emulated, ReadTargetError,
       TargetReadable, routing, sockets, ends, streams
  <1>10. LoggedPeer'
    BY SMT DEF IInv, LoggedPeer, Proxy, Attached, Fresh, Identified,
       ReadTargetError, TargetReadable, routing, sockets, ends, streams
  <1> QED
    BY <1>1, <1>2, <1>3, <1>4, <1>5, <1>6, <1>7, <1>8, <1>9, <1>10 DEF IInv

\* The service has closed.
LEMMA ReadTargetEndIInv == IInv /\ ReadTargetEnd => IInv'
  <1> SUFFICES ASSUME IInv, ReadTargetEnd PROVE IInv'
    OBVIOUS
  <1>1. TypeOK'
    <2>1. FlagsOK'
      BY Zenon DEF IInv, TypeOK, FlagsOK, ReadTargetEnd, TargetReadable,
         GoOut, routing, sockets, ends, streams
    <2>2. RoutingOK'
      BY SMT DEF IInv, TypeOK, RoutingOK, Protocols, Addresses, ReadTargetEnd,
         TargetReadable, GoOut, routing, sockets, ends, streams
    <2>3. SocketsOK'
      BY SMT DEF IInv, TypeOK, SocketsOK, RoutingOK, ReadTargetEnd,
         TargetReadable, GoOut, routing, sockets, ends, streams
    <2>4. StreamsOK'
      BY SMT DEF IInv, TypeOK, StreamsOK, ReadTargetEnd, TargetReadable,
         GoOut, routing, sockets, ends, streams
    <2> QED
      BY <2>1, <2>2, <2>3, <2>4 DEF IInv, TypeOK, ReadTargetEnd,
         TargetReadable, GoOut, routing, sockets, ends, streams
  <1>2. Holding'
    BY SMT DEF IInv, Holding, TypeOK, StreamsOK, ReadTargetEnd,
       TargetReadable, GoOut, routing, sockets, ends, streams
  <1>3. Attached'
    BY SMT DEF IInv, Attached, TypeOK, RoutingOK, Identified, ReadTargetEnd,
       TargetReadable, GoOut, routing, sockets, ends, streams
  <1>4. Identified'
    BY SMT DEF IInv, Identified, ReadTargetEnd, TargetReadable, GoOut,
       routing, sockets, ends, streams
  <1>5. Fresh'
    BY SMT DEF IInv, Fresh, ReadTargetEnd, TargetReadable, GoOut, routing,
       sockets, ends, streams
  <1>6. Proxy'
    BY SMT DEF IInv, Proxy, Attached, Identified, Fresh, TypeOK, RoutingOK,
       Addresses, ReadTargetEnd, TargetReadable, GoOut, routing, sockets,
       ends, streams
  <1>7. Redirected'
    BY SMT DEF IInv, Redirected, Proxy, Attached, Identified, Fresh, Emulated,
       Over, ReadTargetEnd, TargetReadable, GoOut, routing, sockets, ends,
       streams
  <1>8. Interceptor'
    BY SMT DEF IInv, Interceptor, Identified, Redirected, Fresh, Proxy,
       Emulation, Attached, ReadTargetEnd, TargetReadable, GoOut, routing,
       sockets, ends, streams
  <1>9. Emulation'
    BY SMT DEF IInv, Emulation, Identified, Emulated, ReadTargetEnd,
       TargetReadable, GoOut, routing, sockets, ends, streams
  <1>10. LoggedPeer'
    BY SMT DEF IInv, LoggedPeer, Proxy, Attached, Fresh, Identified,
       ReadTargetEnd, TargetReadable, GoOut, routing, sockets, ends, streams
  <1> QED
    BY <1>1, <1>2, <1>3, <1>4, <1>5, <1>6, <1>7, <1>8, <1>9, <1>10 DEF IInv

\* A message of the service is passed on.
LEMMA ReadTargetIInv == IInv /\ ReadTarget => IInv'
  <1> SUFFICES ASSUME IInv, ReadTarget PROVE IInv'
    OBVIOUS
  <1>1. TypeOK'
    <2>1. FlagsOK'
      BY Zenon DEF IInv, TypeOK, FlagsOK, ReadTarget, TargetReadable, GoOut,
         sockets, ends
    <2>2. RoutingOK'
      <3>1. app' \in identified \/ app' = app
        BY Zenon DEF ReadTarget
      <3>2. target' = target /\ dest' = dest
        BY Zenon DEF ReadTarget
      <3> QED
        BY <3>1, <3>2, IdentifiedType DEF IInv, TypeOK, RoutingOK
    <2>3. SocketsOK'
      BY SMT, IdentifiedType DEF IInv, TypeOK, SocketsOK, RoutingOK,
         ReadTarget, TargetReadable, GoOut, sockets, ends
    <2>4. StreamsOK'
      <3>1. toClient' = toClient \/ toClient' = Append(toClient, serverRead')
        BY Zenon DEF ReadTarget
      <3>2. /\ serverRead < serverSent /\ serverRead' = serverRead + 1
            /\ UNCHANGED <<held, clientSent, clientRead, serverSent, toServer>>
        BY Zenon DEF ReadTarget, ends
      <3>3. StreamsOK
        BY DEF IInv, TypeOK
      <3>4. serverRead' \in 0 .. serverSent /\ serverRead' \in Nat
        BY <3>2, <3>3 DEF StreamsOK
      <3>5. toClient' \in Seq(Nat)
        <4>1. Append(toClient, serverRead') \in Seq(Nat)
          BY <3>3, <3>4 DEF StreamsOK
        <4> QED BY <3>1, <3>3, <4>1, Zenon DEF StreamsOK
      <3> QED
        BY <3>2, <3>3, <3>4, <3>5 DEF StreamsOK
    <2> QED
      BY <2>1, <2>2, <2>3, <2>4 DEF IInv, TypeOK, ReadTarget, TargetReadable,
         GoOut, sockets, ends
  <1>2. Holding'
    BY SMT, IdentifiedType DEF IInv, Holding, TypeOK, StreamsOK, ReadTarget,
       TargetReadable, GoOut, sockets, ends
  <1>3. Attached'
    BY SMT, IdentifiedType DEF IInv, Attached, TypeOK, RoutingOK, Identified,
       ReadTarget, TargetReadable, GoOut, sockets, ends
  <1>4. Identified'
    BY SMT, IdentifiedType DEF IInv, Identified, ReadTarget, TargetReadable,
       GoOut, sockets, ends
  <1>5. Fresh'
    BY SMT, IdentifiedType DEF IInv, Fresh, ReadTarget, TargetReadable, GoOut,
       sockets, ends
  <1>6. Proxy'
    BY SMT, IdentifiedType DEF IInv, Proxy, Attached, Identified, Fresh,
       TypeOK, RoutingOK, Addresses, ReadTarget, TargetReadable, GoOut,
       sockets, ends
  <1>7. Redirected'
    BY SMT, IdentifiedType DEF IInv, Redirected, Proxy, Attached, Identified,
       Fresh, Emulated, Over, ReadTarget, TargetReadable, GoOut, sockets, ends
  <1>8. Interceptor'
    BY SMT, IdentifiedType DEF IInv, Interceptor, Identified, Redirected,
       Fresh, Proxy, Emulation, Attached, ReadTarget, TargetReadable, GoOut,
       sockets, ends
  <1>9. Emulation'
    BY SMT, IdentifiedType DEF IInv, Emulation, Identified, Emulated,
       ReadTarget, TargetReadable, GoOut, sockets, ends
  <1>10. LoggedPeer'
    BY SMT, IdentifiedType DEF IInv, LoggedPeer, Proxy, Attached, Fresh,
       Identified, ReadTarget, TargetReadable, GoOut, sockets, ends
  <1> QED
    BY <1>1, <1>2, <1>3, <1>4, <1>5, <1>6, <1>7, <1>8, <1>9, <1>10 DEF IInv

\* The client has closed.
LEMMA ReadClientEndIInv == IInv /\ ReadClientEnd => IInv'
  <1> SUFFICES ASSUME IInv, ReadClientEnd PROVE IInv'
    OBVIOUS
  <1>1. TypeOK'
    <2>1. FlagsOK'
      BY Zenon DEF IInv, TypeOK, FlagsOK, ReadClientEnd, TargetReadable,
         ClientReadable, GoOut, routing, sockets, ends, streams
    <2>2. RoutingOK'
      BY SMT DEF IInv, TypeOK, RoutingOK, Protocols, Addresses, ReadClientEnd,
         TargetReadable, ClientReadable, GoOut, routing, sockets, ends,
         streams
    <2>3. SocketsOK'
      BY SMT DEF IInv, TypeOK, SocketsOK, RoutingOK, ReadClientEnd,
         TargetReadable, ClientReadable, GoOut, routing, sockets, ends,
         streams
    <2>4. StreamsOK'
      BY SMT DEF IInv, TypeOK, StreamsOK, ReadClientEnd, TargetReadable,
         ClientReadable, GoOut, routing, sockets, ends, streams
    <2> QED
      BY <2>1, <2>2, <2>3, <2>4 DEF IInv, TypeOK, ReadClientEnd,
         TargetReadable, ClientReadable, GoOut, routing, sockets, ends,
         streams
  <1>2. Holding'
    BY SMT DEF IInv, Holding, TypeOK, StreamsOK, ReadClientEnd,
       TargetReadable, ClientReadable, GoOut, routing, sockets, ends, streams
  <1>3. Attached'
    BY SMT DEF IInv, Attached, TypeOK, RoutingOK, Identified, ReadClientEnd,
       TargetReadable, ClientReadable, GoOut, routing, sockets, ends, streams
  <1>4. Identified'
    BY SMT DEF IInv, Identified, ReadClientEnd, TargetReadable,
       ClientReadable, GoOut, routing, sockets, ends, streams
  <1>5. Fresh'
    BY SMT DEF IInv, Fresh, ReadClientEnd, TargetReadable, ClientReadable,
       GoOut, routing, sockets, ends, streams
  <1>6. Proxy'
    BY SMT DEF IInv, Proxy, Attached, Identified, Fresh, TypeOK, RoutingOK,
       Addresses, ReadClientEnd, TargetReadable, ClientReadable, GoOut,
       routing, sockets, ends, streams
  <1>7. Redirected'
    BY SMT DEF IInv, Redirected, Proxy, Attached, Identified, Fresh, Emulated,
       Over, ReadClientEnd, TargetReadable, ClientReadable, GoOut, routing,
       sockets, ends, streams
  <1>8. Interceptor'
    BY SMT DEF IInv, Interceptor, Identified, Redirected, Fresh, Proxy,
       Emulation, Attached, ReadClientEnd, TargetReadable, ClientReadable,
       GoOut, routing, sockets, ends, streams
  <1>9. Emulation'
    BY SMT DEF IInv, Emulation, Identified, Emulated, ReadClientEnd,
       TargetReadable, ClientReadable, GoOut, routing, sockets, ends, streams
  <1>10. LoggedPeer'
    BY SMT DEF IInv, LoggedPeer, Proxy, Attached, Fresh, Identified,
       ReadClientEnd, TargetReadable, ClientReadable, GoOut, routing, sockets,
       ends, streams
  <1> QED
    BY <1>1, <1>2, <1>3, <1>4, <1>5, <1>6, <1>7, <1>8, <1>9, <1>10 DEF IInv

\* A message of the client in an identified protocol.
LEMMA ReadClientKnownIInv == IInv /\ ReadClientKnown => IInv'
  <1> SUFFICES ASSUME IInv, ReadClientKnown PROVE IInv'
    OBVIOUS
  <1>1. TypeOK'
    <2>1. FlagsOK'
      BY Zenon DEF IInv, TypeOK, FlagsOK, ReadClientKnown, TakeFromClient,
         TargetReadable, sockets, ends, routing
    <2>2. RoutingOK'
      BY SMT DEF IInv, TypeOK, RoutingOK, Protocols, Addresses,
         ReadClientKnown, TakeFromClient, TargetReadable, sockets, ends,
         routing
    <2>3. SocketsOK'
      BY SMT DEF IInv, TypeOK, SocketsOK, RoutingOK, ReadClientKnown,
         TakeFromClient, TargetReadable, sockets, ends, routing
    <2>4. StreamsOK'
      BY SMT DEF IInv, TypeOK, StreamsOK, ReadClientKnown, TakeFromClient,
         TargetReadable, sockets, ends, routing
    <2> QED
      BY <2>1, <2>2, <2>3, <2>4 DEF IInv, TypeOK, ReadClientKnown,
         TakeFromClient, TargetReadable, sockets, ends, routing
  <1>2. Holding'
    BY SMT DEF IInv, Holding, TypeOK, StreamsOK, ReadClientKnown,
       TakeFromClient, TargetReadable, sockets, ends, routing
  <1>3. Attached'
    BY SMT DEF IInv, Attached, TypeOK, RoutingOK, Identified, ReadClientKnown,
       TakeFromClient, TargetReadable, sockets, ends, routing
  <1>4. Identified'
    BY SMT DEF IInv, Identified, ReadClientKnown, TakeFromClient,
       TargetReadable, sockets, ends, routing
  <1>5. Fresh'
    BY SMT DEF IInv, Fresh, ReadClientKnown, TakeFromClient, TargetReadable,
       sockets, ends, routing
  <1>6. Proxy'
    BY SMT DEF IInv, Proxy, Attached, Identified, Fresh, TypeOK, RoutingOK,
       Addresses, ReadClientKnown, TakeFromClient, TargetReadable, sockets,
       ends, routing
  <1>7. Redirected'
    BY SMT DEF IInv, Redirected, Proxy, Attached, Identified, Fresh, Emulated,
       Over, ReadClientKnown, TakeFromClient, TargetReadable, sockets, ends,
       routing
  <1>8. Interceptor'
    BY SMT DEF IInv, Interceptor, Identified, Redirected, Fresh, Proxy,
       Emulation, Attached, ReadClientKnown, TakeFromClient, TargetReadable,
       sockets, ends, routing
  <1>9. Emulation'
    BY SMT DEF IInv, Emulation, Identified, Emulated, ReadClientKnown,
       TakeFromClient, TargetReadable, sockets, ends, routing
  <1>10. LoggedPeer'
    BY SMT DEF IInv, LoggedPeer, Proxy, Attached, Fresh, Identified,
       ReadClientKnown, TakeFromClient, TargetReadable, sockets, ends, routing
  <1> QED
    BY <1>1, <1>2, <1>3, <1>4, <1>5, <1>6, <1>7, <1>8, <1>9, <1>10 DEF IInv

\* A message of the client that stays unidentified.
LEMMA ReadClientUnknownIInv == IInv /\ ReadClientUnknown => IInv'
  <1> SUFFICES ASSUME IInv, ReadClientUnknown PROVE IInv'
    OBVIOUS
  <1>1. TypeOK'
    <2>1. FlagsOK'
      <3>1. FlagsOK
        BY DEF IInv, TypeOK
      <3>2. first' = FALSE /\ UNCHANGED <<shut, connectedToFinal>>
        BY Zenon DEF ReadClientUnknown, TakeFromClient, sockets
      <3>3. destOffline' = destOffline \/ destOffline' = TRUE
        BY Zenon DEF ReadClientUnknown, handle_unknown, determine_target
      <3> QED
        BY <3>1, <3>2, <3>3, Zenon DEF FlagsOK
    <2>2. RoutingOK'
      <3>1. app' \in Protocols
        BY SMT DEF ReadClientUnknown, handle_unknown, byport, Protocols
      <3>2. \/ target' \in {"nepenthes", "local", target}
            \/ setup.mode # "full_emulation" /\ target' = dest
        BY SMT DEF ReadClientUnknown, handle_unknown, determine_target, OwnTarget, routing
      <3>3. dest' \in {"unset", dest, target'}
        BY Zenon DEF ReadClientUnknown, handle_unknown, determine_target, routing
      <3>4. target' \in Addresses /\ dest' \in Addresses \cup {"unset"}
        BY <3>2, <3>3, SMT DEF IInv, TypeOK, RoutingOK, Addresses, Proxy
      <3> QED
        BY <3>1, <3>4 DEF RoutingOK
    <2>3. SocketsOK'
      BY SMT DEF IInv, TypeOK, SocketsOK, RoutingOK, ReadClientUnknown,
         TakeFromClient, TargetReadable, sockets, ends, handle_unknown,
         determine_target, OwnTarget, byport
    <2>4. StreamsOK'
      BY SMT DEF IInv, TypeOK, StreamsOK, ReadClientUnknown, TakeFromClient,
         TargetReadable, sockets, ends, handle_unknown, determine_target,
         OwnTarget, byport
    <2> QED
      BY <2>1, <2>2, <2>3, <2>4 DEF IInv, TypeOK, ReadClientUnknown,
         TakeFromClient, TargetReadable, sockets, ends, handle_unknown,
         determine_target, OwnTarget, byport
  <1>2. Holding'
    BY SMT DEF IInv, Holding, TypeOK, StreamsOK, ReadClientUnknown,
       TakeFromClient, TargetReadable, sockets, ends, handle_unknown,
       determine_target, OwnTarget, byport
  <1>3. Attached'
    BY SMT DEF IInv, Attached, TypeOK, RoutingOK, Identified,
       ReadClientUnknown, TakeFromClient, TargetReadable, sockets, ends,
       handle_unknown, determine_target, OwnTarget, byport
  <1>4. Identified'
    BY SMT DEF IInv, Identified, ReadClientUnknown, TakeFromClient,
       TargetReadable, sockets, ends, handle_unknown, determine_target,
       OwnTarget, byport
  <1>5. Fresh'
    BY SMT DEF IInv, Fresh, ReadClientUnknown, TakeFromClient, TargetReadable,
       sockets, ends, handle_unknown, determine_target, OwnTarget, byport
  <1>6. Proxy'
    <2>1. UNCHANGED <<setup, connectedToFinal, peer>> /\ ~first'
      BY Zenon DEF ReadClientUnknown, TakeFromClient, sockets
    <2>2. CASE setup.nepenthesActive /\ setup.dport \in NepenthesPorts
      <3>1. target' = "nepenthes" /\ dest' = "nepenthes" /\ at' = "forward"
        BY <2>2, Zenon DEF ReadClientUnknown, handle_unknown
      <3>2. app = "UNKNOWN"
        BY Zenon DEF ReadClientUnknown
      <3> QED
        BY <2>1, <2>2, <3>1, <3>2 DEF IInv, Proxy
    <2>3. CASE ~(setup.nepenthesActive /\ setup.dport \in NepenthesPorts)
      <3>1. setup.mode # "full_emulation" => target' = dest /\ dest' = dest
        BY <2>3, Zenon DEF ReadClientUnknown, handle_unknown, determine_target
      <3>2. app = "UNKNOWN"
        BY Zenon DEF ReadClientUnknown
      <3> QED
        BY <2>1, <2>3, <3>1, <3>2 DEF IInv, Proxy, TypeOK, RoutingOK, Addresses
    <2> QED
      BY <2>2, <2>3
  <1>7. Redirected'
    BY SMT DEF IInv, Redirected, Proxy, Attached, Identified, Fresh, Emulated,
       Over, ReadClientUnknown, TakeFromClient, TargetReadable, sockets, ends,
       handle_unknown, determine_target, OwnTarget, byport
  <1>8. Interceptor'
    BY SMT DEF IInv, Interceptor, Identified, Redirected, Fresh, Proxy,
       Emulation, Attached, ReadClientUnknown, TakeFromClient, TargetReadable,
       sockets, ends, handle_unknown, determine_target, OwnTarget, byport
  <1>9. Emulation'
    BY SMT DEF IInv, Emulation, Identified, Emulated, ReadClientUnknown,
       TakeFromClient, TargetReadable, sockets, ends, handle_unknown,
       determine_target, OwnTarget, byport
  <1>10. LoggedPeer'
    BY SMT DEF IInv, LoggedPeer, Proxy, Attached, Fresh, Identified,
       ReadClientUnknown, TakeFromClient, TargetReadable, sockets, ends,
       handle_unknown, determine_target, OwnTarget, byport
  <1> QED
    BY <1>1, <1>2, <1>3, <1>4, <1>5, <1>6, <1>7, <1>8, <1>9, <1>10 DEF IInv

\* A message of the client identifies the protocol.
LEMMA ReadClientIdentifiedIInv == IInv /\ ReadClientIdentified => IInv'
  <1> SUFFICES ASSUME IInv, ReadClientIdentified PROVE IInv'
    OBVIOUS
  <1>1. TypeOK'
    <2>1. FlagsOK'
      BY Zenon DEF IInv, TypeOK, FlagsOK, ReadClientIdentified,
         TakeFromClient, TargetReadable, sockets, ends, determine_target,
         OwnTarget
    <2>2. RoutingOK'
      <3>1. app' \in Protocols
        BY Zenon, IdentifiedType DEF ReadClientIdentified
      <3>2. \/ target' \in {"local", target}
            \/ setup.mode # "full_emulation" /\ target' = dest
        BY SMT DEF ReadClientIdentified, determine_target, OwnTarget
      <3>3. dest' \in {"unset", dest, target'}
        BY Zenon DEF ReadClientIdentified, determine_target
      <3>4. target' \in Addresses /\ dest' \in Addresses \cup {"unset"}
        BY <3>2, <3>3, SMT DEF IInv, TypeOK, RoutingOK, Addresses, Proxy
      <3> QED
        BY <3>1, <3>4 DEF RoutingOK
    <2>3. SocketsOK'
      BY SMT, IdentifiedType DEF IInv, TypeOK, SocketsOK, RoutingOK,
         ReadClientIdentified, TakeFromClient, TargetReadable, sockets, ends,
         determine_target, OwnTarget
    <2>4. StreamsOK'
      BY SMT, IdentifiedType DEF IInv, TypeOK, StreamsOK,
         ReadClientIdentified, TakeFromClient, TargetReadable, sockets, ends,
         determine_target, OwnTarget
    <2> QED
      BY <2>1, <2>2, <2>3, <2>4 DEF IInv, TypeOK, ReadClientIdentified,
         TakeFromClient, TargetReadable, sockets, ends, determine_target,
         OwnTarget
  <1>2. Holding'
    BY SMT, IdentifiedType DEF IInv, Holding, TypeOK, StreamsOK,
       ReadClientIdentified, TakeFromClient, TargetReadable, sockets, ends,
       determine_target, OwnTarget
  <1>3. Attached'
    BY SMT, IdentifiedType DEF IInv, Attached, TypeOK, RoutingOK, Identified,
       ReadClientIdentified, TakeFromClient, TargetReadable, sockets, ends,
       determine_target, OwnTarget
  <1>4. Identified'
    BY SMT, IdentifiedType DEF IInv, Identified, ReadClientIdentified,
       TakeFromClient, TargetReadable, sockets, ends, determine_target,
       OwnTarget
  <1>5. Fresh'
    BY SMT, IdentifiedType DEF IInv, Fresh, ReadClientIdentified,
       TakeFromClient, TargetReadable, sockets, ends, determine_target,
       OwnTarget
  <1>6. Proxy'
    BY SMT, IdentifiedType DEF IInv, Proxy, Attached, Identified, Fresh,
       TypeOK, RoutingOK, Addresses, ReadClientIdentified, TakeFromClient,
       TargetReadable, sockets, ends, determine_target, OwnTarget
  <1>7. Redirected'
    BY SMT, IdentifiedType DEF IInv, Redirected, Proxy, Attached, Identified,
       Fresh, Emulated, Over, ReadClientIdentified, TakeFromClient,
       TargetReadable, sockets, ends, determine_target, OwnTarget
  <1>8. Interceptor'
    BY SMT, IdentifiedType DEF IInv, Interceptor, Identified, Redirected,
       Fresh, Proxy, Emulation, Attached, ReadClientIdentified,
       TakeFromClient, TargetReadable, sockets, ends, determine_target,
       OwnTarget
  <1>9. Emulation'
    BY SMT, IdentifiedType DEF IInv, Emulation, Identified, Emulated,
       ReadClientIdentified, TakeFromClient, TargetReadable, sockets, ends,
       determine_target, OwnTarget
  <1>10. LoggedPeer'
    BY SMT, IdentifiedType DEF IInv, LoggedPeer, Proxy, Attached, Fresh,
       Identified, ReadClientIdentified, TakeFromClient, TargetReadable,
       sockets, ends, determine_target, OwnTarget
  <1> QED
    BY <1>1, <1>2, <1>3, <1>4, <1>5, <1>6, <1>7, <1>8, <1>9, <1>10 DEF IInv

\* A message of the client opens a TLS session to intercept.
LEMMA ReadClientSslIInv == IInv /\ ReadClientSsl => IInv'
  <1> SUFFICES ASSUME IInv, ReadClientSsl PROVE IInv'
    OBVIOUS
  <1>1. TypeOK'
    <2>1. FlagsOK'
      BY Zenon DEF IInv, TypeOK, FlagsOK, ReadClientSsl, TakeFromClient,
         TargetReadable, sockets, ends
    <2>2. RoutingOK'
      BY SMT DEF IInv, TypeOK, RoutingOK, Protocols, Addresses, ReadClientSsl,
         TakeFromClient, TargetReadable, sockets, ends
    <2>3. SocketsOK'
      BY SMT DEF IInv, TypeOK, SocketsOK, RoutingOK, ReadClientSsl,
         TakeFromClient, TargetReadable, sockets, ends
    <2>4. StreamsOK'
      BY SMT DEF IInv, TypeOK, StreamsOK, ReadClientSsl, TakeFromClient,
         TargetReadable, sockets, ends
    <2> QED
      BY <2>1, <2>2, <2>3, <2>4 DEF IInv, TypeOK, ReadClientSsl,
         TakeFromClient, TargetReadable, sockets, ends
  <1>2. Holding'
    BY SMT DEF IInv, Holding, TypeOK, StreamsOK, ReadClientSsl,
       TakeFromClient, TargetReadable, sockets, ends
  <1>3. Attached'
    BY SMT DEF IInv, Attached, TypeOK, RoutingOK, Identified, ReadClientSsl,
       TakeFromClient, TargetReadable, sockets, ends
  <1>4. Identified'
    BY SMT DEF IInv, Identified, ReadClientSsl, TakeFromClient,
       TargetReadable, sockets, ends
  <1>5. Fresh'
    BY SMT DEF IInv, Fresh, ReadClientSsl, TakeFromClient, TargetReadable,
       sockets, ends
  <1>6. Proxy'
    BY SMT DEF IInv, Proxy, Attached, Identified, Fresh, TypeOK, RoutingOK,
       Addresses, ReadClientSsl, TakeFromClient, TargetReadable, sockets, ends
  <1>7. Redirected'
    BY SMT DEF IInv, Redirected, Proxy, Attached, Identified, Fresh, Emulated,
       Over, ReadClientSsl, TakeFromClient, TargetReadable, sockets, ends
  <1>8. Interceptor'
    BY SMT DEF IInv, Interceptor, Identified, Redirected, Fresh, Proxy,
       Emulation, Attached, ReadClientSsl, TakeFromClient, TargetReadable,
       sockets, ends
  <1>9. Emulation'
    BY SMT DEF IInv, Emulation, Identified, Emulated, ReadClientSsl,
       TakeFromClient, TargetReadable, sockets, ends
  <1>10. LoggedPeer'
    BY SMT DEF IInv, LoggedPeer, Proxy, Attached, Fresh, Identified,
       ReadClientSsl, TakeFromClient, TargetReadable, sockets, ends
  <1> QED
    BY <1>1, <1>2, <1>3, <1>4, <1>5, <1>6, <1>7, <1>8, <1>9, <1>10 DEF IInv

\* Nobody has spoken for a while.
LEMMA TimeoutIInv == IInv /\ Timeout => IInv'
  <1> SUFFICES ASSUME IInv, Timeout PROVE IInv'
    OBVIOUS
  <1>1. TypeOK'
    <2>1. FlagsOK'
      <3>1. FlagsOK
        BY DEF IInv, TypeOK
      <3>2. first' \in {first, FALSE} /\ shut' \in {shut, TRUE}
        BY Zenon DEF Timeout, GoOut
      <3>3. destOffline' = destOffline \/ destOffline' = TRUE
        BY Zenon DEF Timeout, handle_unknown, determine_target, routing
      <3>4. connectedToFinal' = connectedToFinal
        BY Zenon DEF Timeout, sockets
      <3> QED
        BY <3>1, <3>2, <3>3, <3>4, Zenon DEF FlagsOK
    <2>2. RoutingOK'
      <3>1. CASE app # "UNKNOWN"
        BY <3>1, Zenon DEF IInv, TypeOK, RoutingOK, Timeout, routing
      <3>2. CASE app = "UNKNOWN"
        <4>1. app' \in Protocols
          BY <3>2, SMT DEF Timeout, handle_unknown, byport, Protocols
        <4>2. \/ target' \in {"nepenthes", "local", target}
              \/ setup.mode # "full_emulation" /\ target' = dest
          BY <3>2, SMT DEF Timeout, handle_unknown, determine_target, OwnTarget, routing
        <4>3. dest' \in {"unset", dest, target'}
          BY <3>2, Zenon DEF Timeout, handle_unknown, determine_target, routing
        <4>4. target' \in Addresses /\ dest' \in Addresses \cup {"unset"}
          BY <4>2, <4>3, SMT DEF IInv, TypeOK, RoutingOK, Addresses, Proxy
        <4> QED
          BY <4>1, <4>4 DEF RoutingOK
      <3> QED
        BY <3>1, <3>2
    <2>3. SocketsOK'
      BY SMT DEF IInv, TypeOK, SocketsOK, RoutingOK, Timeout, TargetReadable,
         ClientReadable, GoOut, handle_unknown, determine_target, OwnTarget,
         byport, routing, sockets, ends, streams
    <2>4. StreamsOK'
      BY SMT DEF IInv, TypeOK, StreamsOK, Timeout, TargetReadable,
         ClientReadable, GoOut, handle_unknown, determine_target, OwnTarget,
         byport, routing, sockets, ends, streams
    <2> QED
      BY <2>1, <2>2, <2>3, <2>4 DEF IInv, TypeOK, Timeout, TargetReadable,
         ClientReadable, GoOut, handle_unknown, determine_target, OwnTarget,
         byport, routing, sockets, ends, streams
  <1>2. Holding'
    BY SMT DEF IInv, Holding, TypeOK, StreamsOK, Timeout, TargetReadable,
       ClientReadable, GoOut, handle_unknown, determine_target, OwnTarget,
       byport, routing, sockets, ends, streams
  <1>3. Attached'
    BY SMT DEF IInv, Attached, TypeOK, RoutingOK, Identified, Timeout,
       TargetReadable, ClientReadable, GoOut, handle_unknown,
       determine_target, OwnTarget, byport, routing, sockets, ends, streams
  <1>4. Identified'
    BY SMT DEF IInv, Identified, Timeout, TargetReadable, ClientReadable,
       GoOut, handle_unknown, determine_target, OwnTarget, byport, routing,
       sockets, ends, streams
  <1>5. Fresh'
    <2>1. CASE app # "UNKNOWN"
      BY <2>1, Zenon DEF IInv, Fresh, Timeout
    <2>2. CASE app = "UNKNOWN"
      BY <2>2, Zenon DEF Fresh, Timeout
    <2> QED
      BY <2>1, <2>2
  <1>6. Proxy'
    <2>1. UNCHANGED <<setup, connectedToFinal, peer>>
      BY Zenon DEF Timeout, sockets
    <2>2. CASE app # "UNKNOWN"
      <3>1. UNCHANGED routing /\ UNCHANGED first /\ at' = "done"
        BY <2>2, Zenon DEF Timeout, GoOut, routing
      <3> QED
        BY <2>1, <2>2, <3>1 DEF IInv, Proxy, routing
    <2>3. CASE /\ app = "UNKNOWN"
              /\ setup.nepenthesActive /\ setup.dport \in NepenthesPorts
      <3>1. target' = "nepenthes" /\ dest' = "nepenthes" /\ at' = "select" /\ ~first'
        BY <2>3, Zenon DEF Timeout, handle_unknown
      <3> QED
        BY <2>1, <2>3, <3>1 DEF IInv, Proxy
    <2>4. CASE /\ app = "UNKNOWN"
              /\ ~(setup.nepenthesActive /\ setup.dport \in NepenthesPorts)
      <3>1. /\ setup.mode # "full_emulation" => target' = dest /\ dest' = dest
             /\ ~first'
        BY <2>4, Zenon DEF Timeout, handle_unknown, determine_target
      <3> QED
        BY <2>1, <2>4, <3>1 DEF IInv, Proxy, TypeOK, RoutingOK, Addresses
    <2> QED
      BY <2>2, <2>3, <2>4
  <1>7. Redirected'
    BY SMT DEF IInv, Redirected, Proxy, Attached, Identified, Fresh, Emulated,
       Over, Timeout, TargetReadable, ClientReadable, GoOut, handle_unknown,
       determine_target, OwnTarget, byport, routing, sockets, ends, streams
  <1>8. Interceptor'
    BY SMT DEF IInv, Interceptor, Identified, Redirected, Fresh, Proxy,
       Emulation, Attached, Timeout, TargetReadable, ClientReadable, GoOut,
       handle_unknown, determine_target, OwnTarget, byport, routing, sockets,
       ends, streams
  <1>9. Emulation'
    BY SMT DEF IInv, Emulation, Identified, Emulated, Timeout, TargetReadable,
       ClientReadable, GoOut, handle_unknown, determine_target, OwnTarget,
       byport, routing, sockets, ends, streams
  <1>10. LoggedPeer'
    BY SMT DEF IInv, LoggedPeer, Proxy, Attached, Fresh, Identified, Timeout,
       TargetReadable, ClientReadable, GoOut, handle_unknown,
       determine_target, OwnTarget, byport, routing, sockets, ends, streams
  <1> QED
    BY <1>1, <1>2, <1>3, <1>4, <1>5, <1>6, <1>7, <1>8, <1>9, <1>10 DEF IInv

\* The interceptor is started.
LEMMA handle_sslIInv == IInv /\ handle_ssl => IInv'
  <1> SUFFICES ASSUME IInv, handle_ssl PROVE IInv'
    OBVIOUS
  <1>1. TypeOK'
    <2>1. FlagsOK'
      BY Zenon DEF IInv, TypeOK, FlagsOK, handle_ssl, determine_target,
         OwnTarget, sockets, ends, streams
    <2>2. RoutingOK'
      BY SMT DEF IInv, TypeOK, RoutingOK, Protocols, Addresses, handle_ssl,
         determine_target, OwnTarget, sockets, ends, streams
    <2>3. SocketsOK'
      BY SMT DEF IInv, TypeOK, SocketsOK, RoutingOK, handle_ssl,
         determine_target, OwnTarget, sockets, ends, streams
    <2>4. StreamsOK'
      BY SMT DEF IInv, TypeOK, StreamsOK, handle_ssl, determine_target,
         OwnTarget, sockets, ends, streams
    <2> QED
      BY <2>1, <2>2, <2>3, <2>4 DEF IInv, TypeOK, handle_ssl,
         determine_target, OwnTarget, sockets, ends, streams
  <1>2. Holding'
    BY SMT DEF IInv, Holding, TypeOK, StreamsOK, handle_ssl, determine_target,
       OwnTarget, sockets, ends, streams
  <1>3. Attached'
    BY SMT DEF IInv, Attached, TypeOK, RoutingOK, Identified, handle_ssl,
       determine_target, OwnTarget, sockets, ends, streams
  <1>4. Identified'
    BY SMT DEF IInv, Identified, handle_ssl, determine_target, OwnTarget,
       sockets, ends, streams
  <1>5. Fresh'
    BY SMT DEF IInv, Fresh, handle_ssl, determine_target, OwnTarget, sockets,
       ends, streams
  <1>6. Proxy'
    BY SMT DEF IInv, Proxy, Attached, Identified, Fresh, TypeOK, RoutingOK,
       Addresses, handle_ssl, determine_target, OwnTarget, sockets, ends,
       streams
  <1>7. Redirected'
    BY SMT DEF IInv, Redirected, Proxy, Attached, Identified, Fresh, Emulated,
       Over, handle_ssl, determine_target, OwnTarget, sockets, ends, streams
  <1>8. Interceptor'
    BY SMT DEF IInv, Interceptor, Identified, Redirected, Fresh, Proxy,
       Emulation, Attached, handle_ssl, determine_target, OwnTarget, sockets,
       ends, streams
  <1>9. Emulation'
    BY SMT DEF IInv, Emulation, Identified, Emulated, handle_ssl,
       determine_target, OwnTarget, sockets, ends, streams
  <1>10. LoggedPeer'
    BY SMT DEF IInv, LoggedPeer, Proxy, Attached, Fresh, Identified,
       handle_ssl, determine_target, OwnTarget, sockets, ends, streams
  <1> QED
    BY <1>1, <1>2, <1>3, <1>4, <1>5, <1>6, <1>7, <1>8, <1>9, <1>10 DEF IInv

\* The connect() of handle_unknown.
LEMMA ConnectUnknownIInv == IInv /\ ConnectUnknown => IInv'
  <1> SUFFICES ASSUME IInv, ConnectUnknown PROVE IInv'
    OBVIOUS
  <1>1. TypeOK'
    <2>1. FlagsOK'
      BY Zenon DEF IInv, TypeOK, FlagsOK, ConnectUnknown, Connected,
         ConnectFails, routing, ends, streams
    <2>2. RoutingOK'
      BY SMT DEF IInv, TypeOK, RoutingOK, Protocols, Addresses,
         ConnectUnknown, Connected, ConnectFails, routing, ends, streams
    <2>3. SocketsOK'
      BY SMT DEF IInv, TypeOK, SocketsOK, RoutingOK, ConnectUnknown,
         Connected, ConnectFails, routing, ends, streams
    <2>4. StreamsOK'
      BY SMT DEF IInv, TypeOK, StreamsOK, ConnectUnknown, Connected,
         ConnectFails, routing, ends, streams
    <2> QED
      BY <2>1, <2>2, <2>3, <2>4 DEF IInv, TypeOK, ConnectUnknown, Connected,
         ConnectFails, routing, ends, streams
  <1>2. Holding'
    BY SMT DEF IInv, Holding, TypeOK, StreamsOK, ConnectUnknown, Connected,
       ConnectFails, routing, ends, streams
  <1>3. Attached'
    BY SMT DEF IInv, Attached, TypeOK, RoutingOK, Identified, ConnectUnknown,
       Connected, ConnectFails, routing, ends, streams
  <1>4. Identified'
    BY SMT DEF IInv, Identified, ConnectUnknown, Connected, ConnectFails,
       routing, ends, streams
  <1>5. Fresh'
    BY SMT DEF IInv, Fresh, ConnectUnknown, Connected, ConnectFails, routing,
       ends, streams
  <1>6. Proxy'
    BY SMT DEF IInv, Proxy, Attached, Identified, Fresh, TypeOK, RoutingOK,
       Addresses, ConnectUnknown, Connected, ConnectFails, routing, ends,
       streams
  <1>7. Redirected'
    BY SMT DEF IInv, Redirected, Proxy, Attached, Identified, Fresh, Emulated,
       Over, ConnectUnknown, Connected, ConnectFails, routing, ends, streams
  <1>8. Interceptor'
    BY SMT DEF IInv, Interceptor, Identified, Redirected, Fresh, Proxy,
       Emulation, Attached, ConnectUnknown, Connected, ConnectFails, routing,
       ends, streams
  <1>9. Emulation'
    BY SMT DEF IInv, Emulation, Identified, Emulated, ConnectUnknown,
       Connected, ConnectFails, routing, ends, streams
  <1>10. LoggedPeer'
    BY SMT DEF IInv, LoggedPeer, Proxy, Attached, Fresh, Identified,
       ConnectUnknown, Connected, ConnectFails, routing, ends, streams
  <1> QED
    BY <1>1, <1>2, <1>3, <1>4, <1>5, <1>6, <1>7, <1>8, <1>9, <1>10 DEF IInv

\* The connect() for an identified protocol.
LEMMA ConnectIdentifiedIInv == IInv /\ ConnectIdentified => IInv'
  <1> SUFFICES ASSUME IInv, ConnectIdentified PROVE IInv'
    OBVIOUS
  <1>1. TypeOK'
    <2>1. FlagsOK'
      BY Zenon DEF IInv, TypeOK, FlagsOK, ConnectIdentified, GoOut, OwnTarget,
         Connected, ConnectFails, routing, ends, streams
    <2>2. RoutingOK'
      BY SMT DEF IInv, TypeOK, RoutingOK, Protocols, Addresses,
         ConnectIdentified, GoOut, OwnTarget, Connected, ConnectFails,
         routing, ends, streams
    <2>3. SocketsOK'
      BY SMT DEF IInv, TypeOK, SocketsOK, RoutingOK, ConnectIdentified, GoOut,
         OwnTarget, Connected, ConnectFails, routing, ends, streams
    <2>4. StreamsOK'
      BY SMT DEF IInv, TypeOK, StreamsOK, ConnectIdentified, GoOut, OwnTarget,
         Connected, ConnectFails, routing, ends, streams
    <2> QED
      BY <2>1, <2>2, <2>3, <2>4 DEF IInv, TypeOK, ConnectIdentified, GoOut,
         OwnTarget, Connected, ConnectFails, routing, ends, streams
  <1>2. Holding'
    BY SMT DEF IInv, Holding, TypeOK, StreamsOK, ConnectIdentified, GoOut,
       OwnTarget, Connected, ConnectFails, routing, ends, streams
  <1>3. Attached'
    BY SMT DEF IInv, Attached, TypeOK, RoutingOK, Identified,
       ConnectIdentified, GoOut, OwnTarget, Connected, ConnectFails, routing,
       ends, streams
  <1>4. Identified'
    BY SMT DEF IInv, Identified, ConnectIdentified, GoOut, OwnTarget,
       Connected, ConnectFails, routing, ends, streams
  <1>5. Fresh'
    BY SMT DEF IInv, Fresh, ConnectIdentified, GoOut, OwnTarget, Connected,
       ConnectFails, routing, ends, streams
  <1>6. Proxy'
    BY SMT DEF IInv, Proxy, Attached, Identified, Fresh, TypeOK, RoutingOK,
       Addresses, ConnectIdentified, GoOut, OwnTarget, Connected,
       ConnectFails, routing, ends, streams
  <1>7. Redirected'
    BY SMT DEF IInv, Redirected, Proxy, Attached, Identified, Fresh, Emulated,
       Over, ConnectIdentified, GoOut, OwnTarget, Connected, ConnectFails,
       routing, ends, streams
  <1>8. Interceptor'
    BY SMT DEF IInv, Interceptor, Identified, Redirected, Fresh, Proxy,
       Emulation, Attached, ConnectIdentified, GoOut, OwnTarget, Connected,
       ConnectFails, routing, ends, streams
  <1>9. Emulation'
    BY SMT DEF IInv, Emulation, Identified, Emulated, ConnectIdentified,
       GoOut, OwnTarget, Connected, ConnectFails, routing, ends, streams
  <1>10. LoggedPeer'
    BY SMT DEF IInv, LoggedPeer, Proxy, Attached, Fresh, Identified,
       ConnectIdentified, GoOut, OwnTarget, Connected, ConnectFails, routing,
       ends, streams
  <1> QED
    BY <1>1, <1>2, <1>3, <1>4, <1>5, <1>6, <1>7, <1>8, <1>9, <1>10 DEF IInv

\* The second connect() of half proxy.
LEMMA ConnectFallbackIInv == IInv /\ ConnectFallback => IInv'
  <1> SUFFICES ASSUME IInv, ConnectFallback PROVE IInv'
    OBVIOUS
  <1>1. TypeOK'
    <2>1. FlagsOK'
      BY Zenon DEF IInv, TypeOK, FlagsOK, ConnectFallback, GoOut, Connected,
         ConnectFails, routing, ends, streams
    <2>2. RoutingOK'
      BY SMT DEF IInv, TypeOK, RoutingOK, Protocols, Addresses,
         ConnectFallback, GoOut, Connected, ConnectFails, routing, ends,
         streams
    <2>3. SocketsOK'
      BY SMT DEF IInv, TypeOK, SocketsOK, RoutingOK, ConnectFallback, GoOut,
         Connected, ConnectFails, routing, ends, streams
    <2>4. StreamsOK'
      BY SMT DEF IInv, TypeOK, StreamsOK, ConnectFallback, GoOut, Connected,
         ConnectFails, routing, ends, streams
    <2> QED
      BY <2>1, <2>2, <2>3, <2>4 DEF IInv, TypeOK, ConnectFallback, GoOut,
         Connected, ConnectFails, routing, ends, streams
  <1>2. Holding'
    BY SMT DEF IInv, Holding, TypeOK, StreamsOK, ConnectFallback, GoOut,
       Connected, ConnectFails, routing, ends, streams
  <1>3. Attached'
    BY SMT DEF IInv, Attached, TypeOK, RoutingOK, Identified, ConnectFallback,
       GoOut, Connected, ConnectFails, routing, ends, streams
  <1>4. Identified'
    BY SMT DEF IInv, Identified, ConnectFallback, GoOut, Connected,
       ConnectFails, routing, ends, streams
  <1>5. Fresh'
    BY SMT DEF IInv, Fresh, ConnectFallback, GoOut, Connected, ConnectFails,
       routing, ends, streams
  <1>6. Proxy'
    BY SMT DEF IInv, Proxy, Attached, Identified, Fresh, TypeOK, RoutingOK,
       Addresses, ConnectFallback, GoOut, Connected, ConnectFails, routing,
       ends, streams
  <1>7. Redirected'
    BY SMT DEF IInv, Redirected, Proxy, Attached, Identified, Fresh, Emulated,
       Over, ConnectFallback, GoOut, Connected, ConnectFails, routing, ends,
       streams
  <1>8. Interceptor'
    BY SMT DEF IInv, Interceptor, Identified, Redirected, Fresh, Proxy,
       Emulation, Attached, ConnectFallback, GoOut, Connected, ConnectFails,
       routing, ends, streams
  <1>9. Emulation'
    BY SMT DEF IInv, Emulation, Identified, Emulated, ConnectFallback, GoOut,
       Connected, ConnectFails, routing, ends, streams
  <1>10. LoggedPeer'
    BY SMT DEF IInv, LoggedPeer, Proxy, Attached, Fresh, Identified,
       ConnectFallback, GoOut, Connected, ConnectFails, routing, ends, streams
  <1> QED
    BY <1>1, <1>2, <1>3, <1>4, <1>5, <1>6, <1>7, <1>8, <1>9, <1>10 DEF IInv

\* The message held is written to the service.
LEMMA ForwardIInv == IInv /\ Forward => IInv'
  <1> SUFFICES ASSUME IInv, Forward PROVE IInv'
    OBVIOUS
  <1>1. TypeOK'
    <2>1. FlagsOK'
      BY Zenon DEF IInv, TypeOK, FlagsOK, Forward, GoOut, routing, sockets,
         ends
    <2>2. RoutingOK'
      BY SMT DEF IInv, TypeOK, RoutingOK, Protocols, Addresses, Forward,
         GoOut, routing, sockets, ends
    <2>3. SocketsOK'
      BY SMT DEF IInv, TypeOK, SocketsOK, RoutingOK, Forward, GoOut, routing,
         sockets, ends
    <2>4. StreamsOK'
      <3>1. toServer' = toServer \/ toServer' = Append(toServer, held)
        BY Zenon DEF Forward
      <3>2. held' = held \/ held' = 0
        BY Zenon DEF Forward
      <3>3. UNCHANGED <<clientSent, clientRead, serverSent, serverRead, toClient>>
        BY Zenon DEF Forward, ends
      <3>4. held \in Nat /\ toServer \in Seq(Nat)
        BY DEF IInv, TypeOK, StreamsOK
      <3>5. held' \in Nat /\ toServer' \in Seq(Nat)
        <4>1. Append(toServer, held) \in Seq(Nat)
          BY <3>4
        <4>2. toServer' \in Seq(Nat)
          BY <3>1, <3>4, <4>1, Zenon
        <4>3. held' \in Nat
          BY <3>2, <3>4
        <4> QED BY <4>2, <4>3, Zenon
      <3> QED
        BY <3>3, <3>5 DEF IInv, TypeOK, StreamsOK
    <2> QED
      BY <2>1, <2>2, <2>3, <2>4 DEF IInv, TypeOK, Forward, GoOut, routing,
         sockets, ends
  <1>2. Holding'
    BY SMT DEF IInv, Holding, TypeOK, StreamsOK, Forward, GoOut, routing,
       sockets, ends
  <1>3. Attached'
    BY SMT DEF IInv, Attached, TypeOK, RoutingOK, Identified, Forward, GoOut,
       routing, sockets, ends
  <1>4. Identified'
    BY SMT DEF IInv, Identified, Forward, GoOut, routing, sockets, ends
  <1>5. Fresh'
    BY SMT DEF IInv, Fresh, Forward, GoOut, routing, sockets, ends
  <1>6. Proxy'
    BY SMT DEF IInv, Proxy, Attached, Identified, Fresh, TypeOK, RoutingOK,
       Addresses, Forward, GoOut, routing, sockets, ends
  <1>7. Redirected'
    BY SMT DEF IInv, Redirected, Proxy, Attached, Identified, Fresh, Emulated,
       Over, Forward, GoOut, routing, sockets, ends
  <1>8. Interceptor'
    BY SMT DEF IInv, Interceptor, Identified, Redirected, Fresh, Proxy,
       Emulation, Attached, Forward, GoOut, routing, sockets, ends
  <1>9. Emulation'
    BY SMT DEF IInv, Emulation, Identified, Emulated, Forward, GoOut, routing,
       sockets, ends
  <1>10. LoggedPeer'
    BY SMT DEF IInv, LoggedPeer, Proxy, Attached, Fresh, Identified, Forward,
       GoOut, routing, sockets, ends
  <1> QED
    BY <1>1, <1>2, <1>3, <1>4, <1>5, <1>6, <1>7, <1>8, <1>9, <1>10 DEF IInv

\* Steps of the client and the service change only what they sent.
LEMMA ClientSendsIInv == IInv /\ ClientSends => IInv'
  <1> SUFFICES ASSUME IInv, ClientSends PROVE IInv'
    OBVIOUS
  <1>1. TypeOK'
    <2>1. FlagsOK'
      BY Zenon DEF IInv, TypeOK, FlagsOK, ClientSends, sockets, handler,
         routing, streams, Over
    <2>2. RoutingOK'
      BY SMT DEF IInv, TypeOK, RoutingOK, Protocols, Addresses, ClientSends,
         sockets, handler, routing, streams, Over
    <2>3. SocketsOK'
      BY SMT DEF IInv, TypeOK, SocketsOK, RoutingOK, ClientSends, sockets,
         handler, routing, streams, Over
    <2>4. StreamsOK'
      BY SMT DEF IInv, TypeOK, StreamsOK, ClientSends, sockets, handler,
         routing, streams, Over
    <2> QED
      BY <2>1, <2>2, <2>3, <2>4 DEF IInv, TypeOK, ClientSends, sockets,
         handler, routing, streams, Over
  <1>2. Holding'
    BY SMT DEF IInv, Holding, TypeOK, StreamsOK, ClientSends, sockets,
       handler, routing, streams, Over
  <1>3. Attached'
    BY SMT DEF IInv, Attached, TypeOK, RoutingOK, Identified, ClientSends,
       sockets, handler, routing, streams, Over
  <1>4. Identified'
    BY SMT DEF IInv, Identified, ClientSends, sockets, handler, routing,
       streams, Over
  <1>5. Fresh'
    BY SMT DEF IInv, Fresh, ClientSends, sockets, handler, routing, streams,
       Over
  <1>6. Proxy'
    BY SMT DEF IInv, Proxy, Attached, Identified, Fresh, TypeOK, RoutingOK,
       Addresses, ClientSends, sockets, handler, routing, streams, Over
  <1>7. Redirected'
    BY SMT DEF IInv, Redirected, Proxy, Attached, Identified, Fresh, Emulated,
       Over, ClientSends, sockets, handler, routing, streams
  <1>8. Interceptor'
    BY SMT DEF IInv, Interceptor, Identified, Redirected, Fresh, Proxy,
       Emulation, Attached, ClientSends, sockets, handler, routing, streams,
       Over
  <1>9. Emulation'
    BY SMT DEF IInv, Emulation, Identified, Emulated, ClientSends, sockets,
       handler, routing, streams, Over
  <1>10. LoggedPeer'
    BY SMT DEF IInv, LoggedPeer, Proxy, Attached, Fresh, Identified,
       ClientSends, sockets, handler, routing, streams, Over
  <1> QED
    BY <1>1, <1>2, <1>3, <1>4, <1>5, <1>6, <1>7, <1>8, <1>9, <1>10 DEF IInv

\* As before, for the client that leaves.
LEMMA ClientLeavesIInv == IInv /\ ClientLeaves => IInv'
  <1> SUFFICES ASSUME IInv, ClientLeaves PROVE IInv'
    OBVIOUS
  <1>1. TypeOK'
    <2>1. FlagsOK'
      BY Zenon DEF IInv, TypeOK, FlagsOK, ClientLeaves, sockets, handler,
         routing, streams, Over
    <2>2. RoutingOK'
      BY SMT DEF IInv, TypeOK, RoutingOK, Protocols, Addresses, ClientLeaves,
         sockets, handler, routing, streams, Over
    <2>3. SocketsOK'
      BY SMT DEF IInv, TypeOK, SocketsOK, RoutingOK, ClientLeaves, sockets,
         handler, routing, streams, Over
    <2>4. StreamsOK'
      BY SMT DEF IInv, TypeOK, StreamsOK, ClientLeaves, sockets, handler,
         routing, streams, Over
    <2> QED
      BY <2>1, <2>2, <2>3, <2>4 DEF IInv, TypeOK, ClientLeaves, sockets,
         handler, routing, streams, Over
  <1>2. Holding'
    BY SMT DEF IInv, Holding, TypeOK, StreamsOK, ClientLeaves, sockets,
       handler, routing, streams, Over
  <1>3. Attached'
    BY SMT DEF IInv, Attached, TypeOK, RoutingOK, Identified, ClientLeaves,
       sockets, handler, routing, streams, Over
  <1>4. Identified'
    BY SMT DEF IInv, Identified, ClientLeaves, sockets, handler, routing,
       streams, Over
  <1>5. Fresh'
    BY SMT DEF IInv, Fresh, ClientLeaves, sockets, handler, routing, streams,
       Over
  <1>6. Proxy'
    BY SMT DEF IInv, Proxy, Attached, Identified, Fresh, TypeOK, RoutingOK,
       Addresses, ClientLeaves, sockets, handler, routing, streams, Over
  <1>7. Redirected'
    BY SMT DEF IInv, Redirected, Proxy, Attached, Identified, Fresh, Emulated,
       Over, ClientLeaves, sockets, handler, routing, streams
  <1>8. Interceptor'
    BY SMT DEF IInv, Interceptor, Identified, Redirected, Fresh, Proxy,
       Emulation, Attached, ClientLeaves, sockets, handler, routing, streams,
       Over
  <1>9. Emulation'
    BY SMT DEF IInv, Emulation, Identified, Emulated, ClientLeaves, sockets,
       handler, routing, streams, Over
  <1>10. LoggedPeer'
    BY SMT DEF IInv, LoggedPeer, Proxy, Attached, Fresh, Identified,
       ClientLeaves, sockets, handler, routing, streams, Over
  <1> QED
    BY <1>1, <1>2, <1>3, <1>4, <1>5, <1>6, <1>7, <1>8, <1>9, <1>10 DEF IInv

\* As before, for the service that sends; it is attached then.
LEMMA ServerSendsIInv == IInv /\ ServerSends => IInv'
  <1> SUFFICES ASSUME IInv, ServerSends PROVE IInv'
    OBVIOUS
  <1>1. TypeOK'
    <2>1. FlagsOK'
      BY Zenon DEF IInv, TypeOK, FlagsOK, ServerSends, sockets, handler,
         routing, streams, Over
    <2>2. RoutingOK'
      BY SMT DEF IInv, TypeOK, RoutingOK, Protocols, Addresses, ServerSends,
         sockets, handler, routing, streams, Over
    <2>3. SocketsOK'
      BY SMT DEF IInv, TypeOK, SocketsOK, RoutingOK, ServerSends, sockets,
         handler, routing, streams, Over
    <2>4. StreamsOK'
      BY SMT DEF IInv, TypeOK, StreamsOK, ServerSends, sockets, handler,
         routing, streams, Over
    <2> QED
      BY <2>1, <2>2, <2>3, <2>4 DEF IInv, TypeOK, ServerSends, sockets,
         handler, routing, streams, Over
  <1>2. Holding'
    BY SMT DEF IInv, Holding, TypeOK, StreamsOK, ServerSends, sockets,
       handler, routing, streams, Over
  <1>3. Attached'
    BY SMT DEF IInv, Attached, TypeOK, RoutingOK, Identified, ServerSends,
       sockets, handler, routing, streams, Over
  <1>4. Identified'
    BY SMT DEF IInv, Identified, ServerSends, sockets, handler, routing,
       streams, Over
  <1>5. Fresh'
    BY SMT DEF IInv, Fresh, ServerSends, sockets, handler, routing, streams,
       Over
  <1>6. Proxy'
    BY SMT DEF IInv, Proxy, Attached, Identified, Fresh, TypeOK, RoutingOK,
       Addresses, ServerSends, sockets, handler, routing, streams, Over
  <1>7. Redirected'
    BY SMT DEF IInv, Redirected, Proxy, Attached, Identified, Fresh, Emulated,
       Over, ServerSends, sockets, handler, routing, streams
  <1>8. Interceptor'
    BY SMT DEF IInv, Interceptor, Identified, Redirected, Fresh, Proxy,
       Emulation, Attached, ServerSends, sockets, handler, routing, streams,
       Over
  <1>9. Emulation'
    BY SMT DEF IInv, Emulation, Identified, Emulated, ServerSends, sockets,
       handler, routing, streams, Over
  <1>10. LoggedPeer'
    BY SMT DEF IInv, LoggedPeer, Proxy, Attached, Fresh, Identified,
       ServerSends, sockets, handler, routing, streams, Over
  <1> QED
    BY <1>1, <1>2, <1>3, <1>4, <1>5, <1>6, <1>7, <1>8, <1>9, <1>10 DEF IInv

\* As before, for the service that leaves.
LEMMA ServerLeavesIInv == IInv /\ ServerLeaves => IInv'
  <1> SUFFICES ASSUME IInv, ServerLeaves PROVE IInv'
    OBVIOUS
  <1>1. TypeOK'
    <2>1. FlagsOK'
      BY Zenon DEF IInv, TypeOK, FlagsOK, ServerLeaves, ends, handler,
         routing, streams, Over
    <2>2. RoutingOK'
      BY SMT DEF IInv, TypeOK, RoutingOK, Protocols, Addresses, ServerLeaves,
         ends, handler, routing, streams, Over
    <2>3. SocketsOK'
      BY SMT DEF IInv, TypeOK, SocketsOK, RoutingOK, ServerLeaves, ends,
         handler, routing, streams, Over
    <2>4. StreamsOK'
      BY SMT DEF IInv, TypeOK, StreamsOK, ServerLeaves, ends, handler,
         routing, streams, Over
    <2> QED
      BY <2>1, <2>2, <2>3, <2>4 DEF IInv, TypeOK, ServerLeaves, ends, handler,
         routing, streams, Over
  <1>2. Holding'
    BY SMT DEF IInv, Holding, TypeOK, StreamsOK, ServerLeaves, ends, handler,
       routing, streams, Over
  <1>3. Attached'
    BY SMT DEF IInv, Attached, TypeOK, RoutingOK, Identified, ServerLeaves,
       ends, handler, routing, streams, Over
  <1>4. Identified'
    BY SMT DEF IInv, Identified, ServerLeaves, ends, handler, routing,
       streams, Over
  <1>5. Fresh'
    BY SMT DEF IInv, Fresh, ServerLeaves, ends, handler, routing, streams,
       Over
  <1>6. Proxy'
    BY SMT DEF IInv, Proxy, Attached, Identified, Fresh, TypeOK, RoutingOK,
       Addresses, ServerLeaves, ends, handler, routing, streams, Over
  <1>7. Redirected'
    BY SMT DEF IInv, Redirected, Proxy, Attached, Identified, Fresh, Emulated,
       Over, ServerLeaves, ends, handler, routing, streams
  <1>8. Interceptor'
    BY SMT DEF IInv, Interceptor, Identified, Redirected, Fresh, Proxy,
       Emulation, Attached, ServerLeaves, ends, handler, routing, streams,
       Over
  <1>9. Emulation'
    BY SMT DEF IInv, Emulation, Identified, Emulated, ServerLeaves, ends,
       handler, routing, streams, Over
  <1>10. LoggedPeer'
    BY SMT DEF IInv, LoggedPeer, Proxy, Attached, Fresh, Identified,
       ServerLeaves, ends, handler, routing, streams, Over
  <1> QED
    BY <1>1, <1>2, <1>3, <1>4, <1>5, <1>6, <1>7, <1>8, <1>9, <1>10 DEF IInv

\* The interceptor ends, and may end the loop with it.
LEMMA TlsExitIInv == IInv /\ TlsExit => IInv'
  <1> SUFFICES ASSUME IInv, TlsExit PROVE IInv'
    OBVIOUS
  <1>1. TypeOK'
    <2>1. FlagsOK'
      BY Zenon DEF IInv, TypeOK, FlagsOK, TlsExit, GoOut, routing, sockets,
         ends, streams, Over
    <2>2. RoutingOK'
      BY SMT DEF IInv, TypeOK, RoutingOK, Protocols, Addresses, TlsExit,
         GoOut, routing, sockets, ends, streams, Over
    <2>3. SocketsOK'
      BY SMT DEF IInv, TypeOK, SocketsOK, RoutingOK, TlsExit, GoOut, routing,
         sockets, ends, streams, Over
    <2>4. StreamsOK'
      BY SMT DEF IInv, TypeOK, StreamsOK, TlsExit, GoOut, routing, sockets,
         ends, streams, Over
    <2> QED
      BY <2>1, <2>2, <2>3, <2>4 DEF IInv, TypeOK, TlsExit, GoOut, routing,
         sockets, ends, streams, Over
  <1>2. Holding'
    BY SMT DEF IInv, Holding, TypeOK, StreamsOK, TlsExit, GoOut, routing,
       sockets, ends, streams, Over
  <1>3. Attached'
    BY SMT DEF IInv, Attached, TypeOK, RoutingOK, Identified, TlsExit, GoOut,
       routing, sockets, ends, streams, Over
  <1>4. Identified'
    BY SMT DEF IInv, Identified, TlsExit, GoOut, routing, sockets, ends,
       streams, Over
  <1>5. Fresh'
    BY SMT DEF IInv, Fresh, TlsExit, GoOut, routing, sockets, ends, streams,
       Over
  <1>6. Proxy'
    BY SMT DEF IInv, Proxy, Attached, Identified, Fresh, TypeOK, RoutingOK,
       Addresses, TlsExit, GoOut, routing, sockets, ends, streams, Over
  <1>7. Redirected'
    BY SMT DEF IInv, Redirected, Proxy, Attached, Identified, Fresh, Emulated,
       Over, TlsExit, GoOut, routing, sockets, ends, streams
  <1>8. Interceptor'
    BY SMT DEF IInv, Interceptor, Identified, Redirected, Fresh, Proxy,
       Emulation, Attached, TlsExit, GoOut, routing, sockets, ends, streams,
       Over
  <1>9. Emulation'
    BY SMT DEF IInv, Emulation, Identified, Emulated, TlsExit, GoOut, routing,
       sockets, ends, streams, Over
  <1>10. LoggedPeer'
    BY SMT DEF IInv, LoggedPeer, Proxy, Attached, Fresh, Identified, TlsExit,
       GoOut, routing, sockets, ends, streams, Over
  <1> QED
    BY <1>1, <1>2, <1>3, <1>4, <1>5, <1>6, <1>7, <1>8, <1>9, <1>10 DEF IInv

\* SIGINT ends the process.
LEMMA InterruptIInv == IInv /\ Interrupt => IInv'
  <1> SUFFICES ASSUME IInv, Interrupt PROVE IInv'
    OBVIOUS
  <1>1. TypeOK'
    <2>1. FlagsOK'
      BY Zenon DEF IInv, TypeOK, FlagsOK, Interrupt, routing, sockets, ends,
         streams, Over
    <2>2. RoutingOK'
      BY SMT DEF IInv, TypeOK, RoutingOK, Protocols, Addresses, Interrupt,
         routing, sockets, ends, streams, Over
    <2>3. SocketsOK'
      BY SMT DEF IInv, TypeOK, SocketsOK, RoutingOK, Interrupt, routing,
         sockets, ends, streams, Over
    <2>4. StreamsOK'
      BY SMT DEF IInv, TypeOK, StreamsOK, Interrupt, routing, sockets, ends,
         streams, Over
    <2> QED
      BY <2>1, <2>2, <2>3, <2>4 DEF IInv, TypeOK, Interrupt, routing, sockets,
         ends, streams, Over
  <1>2. Holding'
    BY SMT DEF IInv, Holding, TypeOK, StreamsOK, Interrupt, routing, sockets,
       ends, streams, Over
  <1>3. Attached'
    BY SMT DEF IInv, Attached, TypeOK, RoutingOK, Identified, Interrupt,
       routing, sockets, ends, streams, Over
  <1>4. Identified'
    BY SMT DEF IInv, Identified, Interrupt, routing, sockets, ends, streams,
       Over
  <1>5. Fresh'
    BY SMT DEF IInv, Fresh, Interrupt, routing, sockets, ends, streams, Over
  <1>6. Proxy'
    BY SMT DEF IInv, Proxy, Attached, Identified, Fresh, TypeOK, RoutingOK,
       Addresses, Interrupt, routing, sockets, ends, streams, Over
  <1>7. Redirected'
    BY SMT DEF IInv, Redirected, Proxy, Attached, Identified, Fresh, Emulated,
       Over, Interrupt, routing, sockets, ends, streams
  <1>8. Interceptor'
    BY SMT DEF IInv, Interceptor, Identified, Redirected, Fresh, Proxy,
       Emulation, Attached, Interrupt, routing, sockets, ends, streams, Over
  <1>9. Emulation'
    BY SMT DEF IInv, Emulation, Identified, Emulated, Interrupt, routing,
       sockets, ends, streams, Over
  <1>10. LoggedPeer'
    BY SMT DEF IInv, LoggedPeer, Proxy, Attached, Fresh, Identified,
       Interrupt, routing, sockets, ends, streams, Over
  <1> QED
    BY <1>1, <1>2, <1>3, <1>4, <1>5, <1>6, <1>7, <1>8, <1>9, <1>10 DEF IInv

\* The initial states satisfy the invariant.
LEMMA InitIInv == Init => IInv
  <1> SUFFICES ASSUME Init PROVE IInv
    OBVIOUS
  <1>1. FlagsOK
    BY Zenon DEF Init, FlagsOK
  <1>2. RoutingOK /\ SocketsOK /\ StreamsOK
    BY SMT DEF Init, RoutingOK, SocketsOK, StreamsOK, Protocols, Addresses
  <1>3. TypeOK
    BY <1>1, <1>2 DEF Init, TypeOK
  <1>4. Holding /\ Attached /\ Identified /\ Fresh
    BY SMT DEF Init, Holding, Attached, Identified, Fresh
  <1>5. /\ setup.mode # "full_emulation" =>
              ~destOffline /\ target = "orig" /\ dest = "orig"
        /\ setup.mode = "full_emulation" => target = "garbage"
        /\ at = "select" /\ peer = {} /\ ~connectedToFinal
    BY Zenon DEF Init
  <1>7. Proxy /\ Redirected /\ Interceptor /\ Emulation
    BY <1>5, SMT DEF Proxy, Redirected, Interceptor, Emulation
  <1>6. LoggedPeer
    BY SMT DEF Init, LoggedPeer
  <1> QED
    BY <1>3, <1>4, <1>5, <1>6, <1>7 DEF IInv

\* A stuttering step preserves the invariant.
LEMMA StutterIInv == IInv /\ UNCHANGED vars => IInv'
  <1> SUFFICES ASSUME IInv, UNCHANGED vars PROVE IInv'
    OBVIOUS
  <1>1. UNCHANGED <<setup, at, first, held, shut, tls>> /\ UNCHANGED routing
        /\ UNCHANGED sockets /\ UNCHANGED ends /\ UNCHANGED streams
    BY Zenon DEF vars
  <1>2. FlagsOK'
    BY <1>1, Zenon DEF IInv, TypeOK, FlagsOK, routing, sockets
  <1>3. RoutingOK' /\ SocketsOK' /\ StreamsOK'
    BY <1>1 DEF IInv, TypeOK, RoutingOK, SocketsOK, StreamsOK, routing,
       sockets, ends, streams
  <1>4. TypeOK'
    BY <1>1, <1>2, <1>3 DEF IInv, TypeOK
  <1>5. Holding' /\ Attached' /\ Identified' /\ Fresh'
    BY <1>1 DEF IInv, Holding, Attached, Identified, Fresh, routing, sockets,
       ends, streams
  <1>6. Proxy' /\ Interceptor' /\ Emulation'
    BY <1>1 DEF IInv, Proxy, Interceptor, Emulation, routing, sockets
  <1>7. Redirected' /\ LoggedPeer'
    BY <1>1 DEF IInv, Redirected, LoggedPeer, Over, routing, sockets
  <1> QED
    BY <1>4, <1>5, <1>6, <1>7 DEF IInv

\* Every step of the specification preserves the invariant.
LEMMA NextIInv == IInv /\ [Next]_vars => IInv'
  BY ReadTargetErrorIInv, ReadTargetEndIInv, ReadTargetIInv, ReadClientEndIInv,
     ReadClientKnownIInv, ReadClientUnknownIInv, ReadClientIdentifiedIInv,
     ReadClientSslIInv, TimeoutIInv, handle_sslIInv, ConnectUnknownIInv,
     ConnectIdentifiedIInv, ConnectFallbackIInv, ForwardIInv, ClientSendsIInv,
     ClientLeavesIInv, ServerSendsIInv, ServerLeavesIInv, TlsExitIInv,
     InterruptIInv, StutterIInv, Zenon DEF Next, HandlerStep

-----------------------------------------------------------------------------
\* Theorems

\* The invariant holds in every reachable state.
THEOREM Invariance == Spec => []IInv
  BY InitIInv, NextIInv, PTL DEF Spec

\* Every variable of the handler stays in its type, for any number of messages
\* and any set of ports (tcp_handler.c:207-365).
THEOREM TypeCorrect == Spec => []TypeOK
  <1>1. IInv => TypeOK
    BY DEF IInv
  <1> QED
    BY Invariance, <1>1, PTL

\* Outside full emulation, what is logged as the server's address is the address
\* the client was connected to, but for a TLS session that a timeout has connected
\* to the original before it is intercepted.
THEOREM LogIsRight == Spec => []LoggedPeer
  <1>1. IInv => LoggedPeer
    BY DEF IInv
  <1> QED
    BY Invariance, <1>1, PTL

\* HTTP content is invented exactly for clients that were turned to the local
\* service.
THEOREM OfflineIsRedirected == Spec => []OfflineMeansRedirected
  <1>1. IInv => OfflineMeansRedirected
    BY SMT DEF IInv, TypeOK, Setup, Redirected, OfflineMeansRedirected, Emulated
  <1> QED
    BY Invariance, <1>1, PTL

\* Only the three connect() steps attach a service, and it is target.
LEMMA PeerLemma ==
    ASSUME IInv, [Next]_vars, NEW p \in peer' \ peer
    PROVE  /\ at \in {"unknown", "connect", "fallback"}
           /\ p = target
           /\ app' = app /\ setup' = setup
  <1>1. CASE ConnectUnknown
    BY <1>1, Zenon DEF ConnectUnknown, Connected, ConnectFails, routing
  <1>2. CASE ConnectIdentified
    <2>1. ~ConnectFails
      BY Zenon DEF ConnectFails
    <2>2. at = "connect" /\ Connected /\ UNCHANGED routing /\ setup' = setup
      BY <1>2, <2>1, Zenon DEF ConnectIdentified
    <2> QED
      BY <2>2, Zenon DEF Connected, routing
  <1>3. CASE ConnectFallback
    BY <1>3, Zenon DEF ConnectFallback, Connected, ConnectFails, routing
  <1>4. CASE UNCHANGED peer
    BY <1>4
  <1>5. \/ ConnectUnknown \/ ConnectIdentified \/ ConnectFallback
        \/ UNCHANGED peer
    BY Zenon DEF Next, HandlerStep, ReadTargetError, ReadTargetEnd, ReadTarget,
       ReadClientEnd, ReadClientKnown, ReadClientUnknown, ReadClientIdentified,
       ReadClientSsl, TakeFromClient, Timeout, handle_ssl, Forward,
       ClientSends, ClientLeaves, ServerSends, ServerLeaves, TlsExit,
       Interrupt, sockets, vars
  <1> QED
    BY <1>1, <1>2, <1>3, <1>4, <1>5

\* Every client is connected to the service the mode calls for.
THEOREM PeerIsRight == Spec => RightPeer
  <1>1. ASSUME IInv, [Next]_vars PROVE \A p \in peer' \ peer : Called(p)
    <2> SUFFICES ASSUME NEW p \in peer' \ peer PROVE Called(p)
      OBVIOUS
    <2>1. /\ at \in {"unknown", "connect", "fallback"}
          /\ p = target
          /\ app' = app /\ setup' = setup
      BY <1>1, PeerLemma
    <2>2. p = "sslproxy" <=> Intercepted
      BY <1>1, <2>1, SMT DEF IInv, Interceptor, Intercepted
    <2>3. setup.mode = "full_emulation" /\ app' \in Emulated => p = "local"
      BY <1>1, <2>1, SMT DEF IInv, Emulation
    <2>4. /\ setup.mode = "half_proxy" /\ p = "local" => "orig" \in failed
          /\ setup.mode = "full_proxy" => p # "local"
      BY <1>1, <2>1, SMT DEF IInv, Redirected
    <2>5. p = "garbage" => setup.mode = "full_emulation"
      BY <1>1, <2>1, SMT DEF IInv, Proxy
    <2> QED
      BY <2>2, <2>3, <2>4, <2>5 DEF Called
  <1>2. IInv /\ [Next]_vars => [\A p \in peer' \ peer : Called(p)]_vars
    BY <1>1
  <1> QED
    BY Invariance, <1>2, PTL DEF Spec, RightPeer

-----------------------------------------------------------------------------
\* Refinement

\* The handler ends: a step of Relay whatever else is true of it.
LEMMA EndRelays ==
    ASSUME ~Over, Over', UNCHANGED <<peer, clientRead, toServer, toClient>>,
           serverRead' \in {serverRead, serverRead + 1}
    PROVE  Session!Next
  <1>1. SessionPhase # "over" /\ SessionPhase' = "over"
    BY Zenon DEF SessionPhase
  <1> QED
    BY <1>1 DEF Session!Next, Session!End

\* Nothing that Relay talks about changes.
LEMMA SilentRelays ==
    ASSUME Over <=> Over',
           UNCHANGED <<peer, clientRead, serverRead, toServer, toClient>>
    PROVE  UNCHANGED Session!vars
  BY Zenon DEF Session!vars, SessionPhase

\* A message of the client is taken.
LEMMA TakeRelays ==
    ASSUME IInv, TakeFromClient, ~Over'
    PROVE  Session!Next
  <1>1. at = "select" /\ ~Over
    BY Zenon DEF TakeFromClient, Over
  <1>2. UNCHANGED <<peer, serverRead, toServer, toClient>>
    BY Zenon DEF TakeFromClient, sockets
  <1>3. SessionPhase' = SessionPhase /\ SessionPhase # "over"
    BY <1>1, <1>2, SMT DEF SessionPhase
  <1>4. clientRead = Len(toServer) /\ clientRead' = clientRead + 1
    BY <1>1, Zenon DEF TakeFromClient, IInv, Holding
  <1> QED
    BY <1>2, <1>3, <1>4 DEF Session!Next, Session!TakeFromClient

\* A service is connected, or connect() reports a connection that is none.
LEMMA ConnectedRelays ==
    ASSUME IInv, Connected, at \in {"unknown", "connect", "fallback"}, ~Over',
           UNCHANGED streams
    PROVE  [Session!Next]_(Session!vars)
  <1>1. ~Over /\ peer = {} /\ target \in Addresses
    BY SMT DEF IInv, TypeOK, RoutingOK, Attached, Over
  <1>2. CASE peer' = {target}
    <2>1. SessionPhase = "open" /\ SessionPhase' = "relaying"
      BY <1>1, <1>2, SMT DEF SessionPhase
    <2> QED
      BY <1>1, <1>2, <2>1, Zenon DEF Session!Next, Session!Attach, streams
  <1>3. CASE UNCHANGED peer
    BY <1>1, <1>3, SilentRelays, Zenon DEF streams
  <1> QED
    BY <1>2, <1>3, Zenon DEF Connected

\* A message of the service is passed on, or lost with the handler.
LEMMA ReadTargetRelays == IInv /\ ReadTarget => Session!Next
  <1> SUFFICES ASSUME IInv, ReadTarget PROVE Session!Next
    OBVIOUS
  <1>1. /\ at = "select" /\ serverRead < serverSent
        /\ serverRead' = serverRead + 1
        /\ UNCHANGED <<peer, clientRead, toServer>>
    BY Zenon DEF ReadTarget, sockets
  <1>2. ~Over /\ peer # {} /\ clientRead = Len(toServer)
    BY <1>1, SMT DEF Over, IInv, TypeOK, StreamsOK, Attached, Holding
  <1>3. CASE toClient' = Append(toClient, serverRead') /\ at' = at
    <2>1. SessionPhase = "relaying" /\ SessionPhase' = "relaying"
      BY <1>1, <1>2, <1>3, SMT DEF SessionPhase, Over
    <2> QED
      BY <1>1, <1>2, <1>3, <2>1 DEF Session!Next, Session!PassToClient
  <1>4. CASE UNCHANGED toClient /\ Over'
    BY <1>1, <1>2, <1>4, EndRelays
  <1> QED
    BY <1>3, <1>4, Zenon DEF ReadTarget, GoOut, Over

\* The message held is passed on, or lost with the handler.
LEMMA ForwardRelays == IInv /\ Forward => Session!Next
  <1> SUFFICES ASSUME IInv, Forward PROVE Session!Next
    OBVIOUS
  <1>1. at = "forward" /\ UNCHANGED <<peer, clientRead, serverRead, toClient>>
    BY Zenon DEF Forward, sockets
  <1>2. ~Over /\ held = clientRead /\ clientRead = Len(toServer) + 1
    BY <1>1, SMT DEF Over, IInv, Holding
  <1>3. CASE /\ sock \in {"up", "fin"} /\ at' = "select"
             /\ toServer' = Append(toServer, held)
    <2>1. peer # {} /\ ~Over'
      BY <1>3, SMT DEF IInv, Attached, Over
    <2>2. SessionPhase = "relaying" /\ SessionPhase' = "relaying"
      BY <1>1, <1>2, <2>1, SMT DEF SessionPhase
    <2> QED
      BY <1>1, <1>2, <1>3, <2>2 DEF Session!Next, Session!PassToServer
  <1>4. CASE UNCHANGED toServer /\ Over'
    BY <1>1, <1>2, <1>4, EndRelays
  <1> QED
    BY <1>3, <1>4, Zenon DEF Forward, GoOut, Over

\* The steps that end the handler, or move it on without a message
LEMMA QuietRelays ==
    ASSUME ~Over, UNCHANGED <<peer, streams>>
    PROVE  [Session!Next]_(Session!vars)
  <1>1. UNCHANGED <<clientRead, serverRead, toServer, toClient>>
    BY Zenon DEF streams
  <1>2. CASE Over'
    BY <1>1, <1>2, EndRelays
  <1>3. CASE ~Over'
    BY <1>1, <1>3, SilentRelays
  <1> QED
    BY <1>2, <1>3

\* The three connect() steps
LEMMA ConnectRelays ==
    ASSUME IInv, ConnectUnknown \/ ConnectIdentified \/ ConnectFallback
    PROVE  [Session!Next]_(Session!vars)
  <1>1. at \in {"unknown", "connect", "fallback"} /\ UNCHANGED streams
    BY Zenon DEF ConnectUnknown, ConnectIdentified, ConnectFallback
  <1>2. \/ Connected /\ at' \in {"select", "forward"}
        \/ UNCHANGED peer
    BY Zenon DEF ConnectUnknown, ConnectIdentified, ConnectFallback,
       ConnectFails
  <1>3. CASE Connected /\ at' \in {"select", "forward"}
    <2>1. ~Over'
      BY <1>3, SMT DEF Over
    <2> QED
      BY <1>1, <1>3, <2>1, ConnectedRelays
  <1>4. CASE UNCHANGED peer
    <2>1. ~Over
      BY <1>1, SMT DEF Over
    <2> QED
      BY <1>1, <1>4, <2>1, QuietRelays
  <1> QED
    BY <1>2, <1>3, <1>4

\* Every step of the handler and its surroundings is a step of Relay or none.
LEMMA NextRelays == IInv /\ [Next]_vars => [Session!Next]_(Session!vars)
  <1> SUFFICES ASSUME IInv, [Next]_vars PROVE [Session!Next]_(Session!vars)
    OBVIOUS
  <1>1. CASE ReadTarget \/ Forward
    BY <1>1, ReadTargetRelays, ForwardRelays
  <1>2. CASE \/ ReadClientKnown \/ ReadClientUnknown
             \/ ReadClientIdentified \/ ReadClientSsl
    <2>1. TakeFromClient
      BY <1>2, Zenon DEF ReadClientKnown, ReadClientUnknown,
         ReadClientIdentified, ReadClientSsl
    <2>2. at' \in {"forward", "unknown", "connect", "intercept"}
      BY <1>2, Zenon DEF ReadClientKnown, ReadClientUnknown, handle_unknown,
         ReadClientIdentified, ReadClientSsl
    <2>3. ~Over'
      BY <2>2, SMT DEF Over
    <2> QED
      BY <2>1, <2>3, TakeRelays
  <1>3. CASE ConnectUnknown \/ ConnectIdentified \/ ConnectFallback
    BY <1>3, ConnectRelays
  <1>4. CASE \/ ReadTargetError \/ ReadTargetEnd \/ ReadClientEnd \/ Timeout
             \/ handle_ssl
    <2>1. at \in {"select", "intercept"} /\ UNCHANGED <<peer, streams>>
      BY <1>4, Zenon DEF ReadTargetError, ReadTargetEnd, ReadClientEnd,
         Timeout, handle_ssl, sockets
    <2>2. ~Over
      BY <2>1, SMT DEF Over
    <2> QED
      BY <2>1, <2>2, QuietRelays
  <1>5. CASE TlsExit \/ Interrupt
    <2>1. ~Over /\ UNCHANGED <<peer, streams>>
      BY <1>5, Zenon DEF TlsExit, Interrupt, sockets
    <2> QED
      BY <2>1, QuietRelays
  <1>6. CASE ClientSends \/ ClientLeaves \/ ServerSends \/ ServerLeaves
    <2>1. ~Over /\ UNCHANGED <<peer, streams>>
      BY <1>6, Zenon DEF ClientSends, ClientLeaves, ServerSends, ServerLeaves,
         handler, sockets
    <2> QED
      BY <2>1, QuietRelays
  <1>7. CASE UNCHANGED vars
    <2>1. UNCHANGED <<at, peer, clientRead, serverRead, toServer, toClient>>
      BY <1>7, Zenon DEF vars, sockets, streams
    <2>2. Over <=> Over'
      BY <2>1, Zenon DEF Over
    <2> QED
      BY <2>1, <2>2, SilentRelays
  <1> QED
    BY <1>1, <1>2, <1>3, <1>4, <1>5, <1>6, <1>7, Zenon DEF Next, HandlerStep

\* The safety part of IsRelay: whatever the mode, the ports, the failures of
\* connect() and the order of messages, timeouts and signals, the handler is a
\* Relay (tcp_handler.c:207-365).
THEOREM HandlerIsRelay == Spec => Session!SafetySpec
  <1>1. Init => Session!Init
    <2> SUFFICES ASSUME Init PROVE Session!Init
      OBVIOUS
    <2>1. at = "select" /\ peer = {} /\ clientRead = 0 /\ serverRead = 0
          /\ toServer = <<>> /\ toClient = <<>>
      BY Zenon DEF Init
    <2>2. SessionPhase = "open"
      BY <2>1, SMT DEF SessionPhase, Over
    <2> QED
      BY <2>1, <2>2 DEF Session!Init
  <1> QED
    BY <1>1, Invariance, NextRelays, PTL DEF Spec, Session!SafetySpec

=============================================================================
