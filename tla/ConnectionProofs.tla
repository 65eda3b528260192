-------------------------- MODULE ConnectionProofs --------------------------
(***************************************************************************)
(* Connection's invariants, for any hosts, proxy settings and number of    *)
(* addresses.  They are not inductive by themselves: what a failure path   *)
(* must release, and what the handshake will vouch for, depends on how far *)
(* open_connection has come, and StageInv says so for each of its stages.  *)
(***************************************************************************)
EXTENDS Connection, TLAPS

\* In the loop of connect_tcp, with the address list in its hands.
Dialling == {"connect", "connecting"}

\* In open_connection with a socket, or after it.
Linked == {"tunnel", "context", "trust", "object", "identity", "handshake", "open"}

\* Past proxy_configuration, in open_connection or after it.
Busy == {"resolve"} \cup Dialling \cup Linked

\* Before SSL_CTX_new.
NoTls == conn.tls_context = "none" /\ conn.tls = "none" /\ conn.identity = NoHost

StageInv ==
    /\ opening.stage \in Busy =>
          /\ opening.host \in Hosts
          /\ proxy_configuration(opening.host, opening.use_tls) # "unusable"
    /\ opening.stage \notin Linked => conn.socket_fd = NoHost /\ NoTls
    /\ opening.stage \in Linked =>
          conn.socket_fd = IF ThroughProxy THEN ProxyHost ELSE opening.host
    /\ opening.stage \in Dialling => opening.addresses > 0
    /\ opening.stage \in Linked \ {"open"} => opening.use_tls = 1
    /\ opening.stage \in {"tunnel", "context"} => NoTls
    /\ opening.stage \in {"trust", "object"} =>
          conn.tls_context = "set" /\ conn.tls = "none"
    /\ opening.stage = "identity" => conn.tls = "made"
    /\ opening.stage = "handshake" =>
          conn.tls = "made" /\ conn.identity = opening.host
    /\ opening.stage = "open" =>
          IF opening.use_tls = 1
          THEN conn.tls = "up" /\ conn.identity = opening.host
          ELSE NoTls

\* What is alive is what the code still has in its hands, once: connect_tcp's
\* list and socket, and what the record points at.
HeldInv ==
    /\ held.addrinfo = IF opening.stage \in Dialling THEN 1 ELSE 0
    /\ held.sockets = IF opening.stage = "connecting" \/ conn.socket_fd # NoHost
                      THEN 1 ELSE 0
    /\ held.contexts = IF conn.tls_context = "none" THEN 0 ELSE 1
    /\ held.objects = IF conn.tls = "none" THEN 0 ELSE 1

ConnInv == ConnTypeOK /\ StageInv /\ HeldInv /\ TimeoutIsReported

Events == {"none", "done", "timeout", "failure", "storage"}

Codes == {4, 5, 7, 11, 12, 13, 14}

\* close_connection leaves nothing behind once connect_tcp has returned.
LEMMA ReleasedIsAll ==
    ASSUME ConnInv, opening.stage \notin Dialling
    PROVE  Released = Nothing
  <1>1. /\ held \in Holdings /\ opening.stage # "connecting"
        /\ conn.tls_context \in {"none", "set"}
    BY DEF ConnInv, ConnTypeOK, Connections, Dialling
  <1>2. /\ held.addrinfo = 0
        /\ held.sockets = IF conn.socket_fd # NoHost THEN 1 ELSE 0
        /\ held.contexts = IF conn.tls_context # "none" THEN 1 ELSE 0
        /\ held.objects = IF conn.tls # "none" THEN 1 ELSE 0
    BY <1>1 DEF ConnInv, HeldInv
  <1> QED
    BY <1>1, <1>2 DEF Released, Nothing

\* What is true of any exit that leaves nothing acquired and no pointer.
LEMMA EmptyInv ==
    ASSUME ConnTypeOK, NEW code \in Codes, NEW stage \in {"closed", "failed"},
           NEW n \in Nat,
           conn' = NoConnection(code), held' = Nothing,
           opening' = [opening EXCEPT !.stage = stage, !.addresses = n],
           proxy_env' = proxy_env, errno' \in Errnos, event' \in Events,
           stage = "failed" /\ event' = "timeout" => code = 11
    PROVE  ConnInv'
  <1> USE ConnectionAssumption
  <1>1. ConnTypeOK'
    BY DEF ConnTypeOK, NoConnection, Connections, Openings, Stages, Codes, Events,
           Holdings, Nothing
  <1>2. opening'.stage = stage
    BY DEF ConnTypeOK, Openings
  <1>3. StageInv'
    BY <1>2 DEF StageInv, Busy, Dialling, Linked, NoTls, NoConnection
  <1>4. HeldInv'
    BY <1>2 DEF HeldInv, Nothing, NoConnection, Dialling
  <1>5. TimeoutIsReported'
    BY <1>2 DEF TimeoutIsReported, NoConnection
  <1> QED
    BY <1>1, <1>3, <1>4, <1>5 DEF ConnInv

\* open_connection's exits that close; the code must be 11 when a wait ran out.
LEMMA OpenFailsInv ==
    ASSUME ConnInv, opening.stage \notin Dialling, NEW code \in Codes, OpenFails(code),
           proxy_env' = proxy_env, errno' \in Errnos, event' \in Events,
           event' = "timeout" => code = 11
    PROVE  ConnInv'
  <1>1. held' = Nothing
    BY ReleasedIsAll DEF OpenFails
  <1> QED
    BY <1>1, EmptyInv DEF OpenFails, ConnInv

\* connect_tcp's failures, with an errno of which the caller sees ETIMEDOUT.
\* Nothing is closed on this exit: there is nothing to close.
LEMMA ConnectFailsInv ==
    ASSUME ConnInv, opening.stage \in {"resolve"} \cup Dialling, ConnectFails,
           held' = Nothing,
           proxy_env' = proxy_env, errno' \in Errnos, event' \in Events,
           event' = "timeout" => errno' = "ETIMEDOUT"
    PROVE  ConnInv'
  <1> DEFINE code == IF errno' = "ETIMEDOUT" THEN 11 ELSE 4
  <1>1. /\ conn \in Connections
        /\ conn.socket_fd = NoHost /\ NoTls
    BY DEF ConnInv, ConnTypeOK, StageInv, Dialling, Linked
  <1>2. conn' = NoConnection(code)
    BY <1>1 DEF ConnectFails, NoConnection, Connections, NoTls
  <1>3. code \in Codes
    BY DEF Codes
  <1> QED
    BY <1>2, <1>3, EmptyInv DEF ConnectFails, ConnInv

\* open_connection begins with nothing, and has nothing before getaddrinfo.
LEMMA ResolveHoldsNothing ==
    ASSUME ConnInv, opening.stage = "resolve"
    PROVE  held = Nothing
  BY DEF ConnInv, ConnTypeOK, Holdings, StageInv, HeldInv, Dialling, Linked, NoTls,
         Nothing

\* No connection is open at the start.
LEMMA ConnInitInv == ConnInit => ConnInv
  <1> SUFFICES ASSUME ConnInit PROVE ConnInv
    OBVIOUS
  <1> USE ConnectionAssumption
  <1>1. ConnTypeOK
    BY DEF ConnInit, ConnTypeOK, NoConnection, Connections, Openings, Stages,
           Errnos, Holdings, Nothing
  <1>2. StageInv
    BY DEF ConnInit, StageInv, Busy, Dialling, Linked, NoTls, NoConnection
  <1>3. HeldInv
    BY DEF ConnInit, HeldInv, Dialling, NoConnection, Nothing
  <1>4. TimeoutIsReported
    BY DEF ConnInit, TimeoutIsReported
  <1> QED
    BY <1>1, <1>2, <1>3, <1>4 DEF ConnInv

\* open_connection is entered, and the proxy setting judged.
LEMMA StartOpenInv ==
    ASSUME ConnInv, NEW host \in Hosts, NEW port \in Int, NEW use_tls \in {0, 1},
           StartOpen(host, port, use_tls)
    PROVE  ConnInv'
  <1> USE ConnectionAssumption
  <1>1. ConnTypeOK'
    BY DEF ConnInv, ConnTypeOK, StartOpen, NoConnection, Connections, Openings,
           Stages
  <1>2. /\ conn'.socket_fd = NoHost /\ NoTls'
        /\ opening'.host = host /\ opening'.use_tls = use_tls
        /\ opening'.stage \in {"failed", "resolve"}
        /\ proxy_env' = proxy_env /\ event' = "none"
    BY DEF StartOpen, NoConnection, NoTls
  <1>3. opening'.stage = "resolve" =>
           proxy_configuration(host, use_tls) # "unusable"
    BY DEF StartOpen
  <1>4. StageInv'
    BY <1>2, <1>3 DEF StageInv, Busy, Dialling, Linked, proxy_configuration
  <1>5. TimeoutIsReported'
    BY <1>2 DEF TimeoutIsReported
  <1>6. HeldInv'
    <2>1. /\ opening.stage \in {"closed", "failed"} /\ held' = held
          /\ opening.stage \notin Linked /\ opening.stage \notin Dialling
      BY DEF StartOpen, Linked, Dialling
    <2>2. /\ held.addrinfo = 0 /\ held.sockets = 0
          /\ held.contexts = 0 /\ held.objects = 0
      BY <2>1 DEF ConnInv, StageInv, HeldInv, NoTls
    <2> QED
      BY <1>2, <2>1, <2>2 DEF HeldInv, Dialling, NoTls
  <1> QED
    BY <1>1, <1>4, <1>5, <1>6 DEF ConnInv

-----------------------------------------------------------------------------
\* The steps of open_connection, one lemma each: its failing exits by the
\* lemmas above, its succeeding exit by the facts of the stage it reaches.
LEMMA BadPortInv == ConnInv /\ BadPort => ConnInv'
  <1> SUFFICES ASSUME ConnInv, BadPort PROVE ConnInv'
    OBVIOUS
  <1>1. held' = Nothing
    BY ResolveHoldsNothing DEF BadPort
  <1> QED
    BY <1>1, ConnectFailsInv DEF ConnInv, ConnTypeOK, BadPort, Events

\* getaddrinfo fails, times out or returns addresses.
LEMMA ResolveInv == ConnInv /\ Resolve => ConnInv'
  <1> SUFFICES ASSUME ConnInv, Resolve PROVE ConnInv'
    OBVIOUS
  <1>1. /\ errno' \in Errnos /\ proxy_env' = proxy_env
        /\ opening.stage = "resolve" /\ held = Nothing
    BY ResolveHoldsNothing DEF Resolve, ConnInv, ConnTypeOK, Errnos
  <1>2. CASE ConnectFails /\ held' = held /\ event' = "failure"
    BY <1>1, <1>2, ConnectFailsInv DEF ConnInv, Events
  <1>3. CASE ConnectFails /\ held' = held /\ event' = "timeout" /\ errno' = "ETIMEDOUT"
    BY <1>1, <1>3, ConnectFailsInv DEF ConnInv, Events
  <1>4. ASSUME NEW n \in 1..MaxAddresses, event' = "done", conn' = conn,
               opening' = [opening EXCEPT !.stage = "connect", !.addresses = n],
               held' = [held EXCEPT !.addrinfo = @ + 1]
        PROVE  ConnInv'
    <2>0. n \in Nat \ {0}
      BY ConnectionAssumption
    <2>1. ConnTypeOK'
      <3>1. held' \in Holdings
        BY <1>4 DEF ConnInv, ConnTypeOK, Holdings
      <3>2. opening' \in Openings
        BY <1>4, <2>0 DEF ConnInv, ConnTypeOK, Openings, Stages
      <3> QED
        BY <1>1, <1>4, <3>1, <3>2 DEF ConnInv, ConnTypeOK
    <2>2. /\ opening'.stage = "connect" /\ opening'.host = opening.host
          /\ opening'.use_tls = opening.use_tls /\ opening'.addresses > 0
      BY <1>4, <2>0 DEF ConnInv, ConnTypeOK, Openings
    <2>3. StageInv' /\ TimeoutIsReported'
      BY <1>1, <1>4, <2>2
      DEF ConnInv, StageInv, TimeoutIsReported, Busy, Dialling, Linked, NoTls,
          proxy_configuration
    <2>4. HeldInv'
      <3>1. conn.socket_fd = NoHost /\ NoTls
        BY <1>1 DEF ConnInv, StageInv, Linked
      <3>2. held' = [addrinfo |-> 1, sockets |-> 0, contexts |-> 0, objects |-> 0]
        BY <1>1, <1>4 DEF Nothing
      <3> QED
        BY <1>4, <2>2, <3>1, <3>2 DEF HeldInv, Dialling, NoTls
    <2> QED
      BY <2>1, <2>3, <2>4 DEF ConnInv
  <1> QED
    BY <1>2, <1>3, <1>4 DEF Resolve

\* The loop over the addresses, whichever way one of them has failed: left is
\* the list and nothing else.
LEMMA NextAddressInv ==
    ASSUME ConnInv, opening.stage \in Dialling, NEW left, NextAddress(left),
           left = [addrinfo |-> 1, sockets |-> 0, contexts |-> 0, objects |-> 0],
           proxy_env' = proxy_env, errno' \in Errnos,
           event' \in {"timeout", "failure"},
           event' = "timeout" => errno' = "ETIMEDOUT"
    PROVE  ConnInv'
  <1>1. CASE ConnectFails /\ held' = [left EXCEPT !.addrinfo = @ - 1]
    <2>1. held' = Nothing
      BY <1>1 DEF Nothing
    <2> QED
      BY <1>1, <2>1, ConnectFailsInv DEF Events
  <1>2. CASE /\ opening.addresses # 1
             /\ opening' = [opening EXCEPT !.stage = "connect", !.addresses = @ - 1]
             /\ conn' = conn /\ held' = left
    <2>1. /\ opening'.stage = "connect" /\ opening'.host = opening.host
          /\ opening'.use_tls = opening.use_tls
          /\ opening.addresses - 1 \in Nat /\ opening'.addresses > 0
      BY <1>2 DEF ConnInv, ConnTypeOK, StageInv, Openings
    <2>2. StageInv' /\ TimeoutIsReported'
      BY <1>2, <2>1
      DEF ConnInv, StageInv, TimeoutIsReported, Busy, Dialling, Linked, NoTls,
          proxy_configuration
    <2>3. ConnTypeOK'
      BY <1>2, <2>1 DEF ConnInv, ConnTypeOK, Openings, Stages, Holdings
    <2>4. conn.socket_fd = NoHost /\ NoTls
      BY DEF ConnInv, StageInv, Dialling, Linked
    <2>5. HeldInv'
      BY <1>2, <2>1, <2>4 DEF HeldInv, Dialling, NoTls
    <2> QED
      BY <2>2, <2>3, <2>5 DEF ConnInv
  <1> QED
    BY <1>1, <1>2 DEF NextAddress

\* A socket for an address is made, or cannot be.
LEMMA MakeSocketInv == ConnInv /\ MakeSocket => ConnInv'
  <1> SUFFICES ASSUME ConnInv, MakeSocket PROVE ConnInv'
    OBVIOUS
  <1>1. /\ opening.stage = "connect" /\ proxy_env' = proxy_env
        /\ conn.socket_fd = NoHost /\ NoTls
    BY DEF MakeSocket, ConnInv, StageInv, Linked
  <1>2. held = [addrinfo |-> 1, sockets |-> 0, contexts |-> 0, objects |-> 0]
    BY <1>1 DEF ConnInv, ConnTypeOK, Holdings, HeldInv, Dialling, NoTls
  <1>3. CASE errno' = "other" /\ event' = "failure" /\ NextAddress(held)
    BY <1>1, <1>2, <1>3, NextAddressInv DEF Errnos, Dialling
  <1>4. CASE /\ opening' = [opening EXCEPT !.stage = "connecting"]
             /\ held' = [held EXCEPT !.sockets = @ + 1]
             /\ UNCHANGED <<errno, event, conn>>
    <2>1. held' = [addrinfo |-> 1, sockets |-> 1, contexts |-> 0, objects |-> 0]
      BY <1>2, <1>4
    <2>2. /\ opening'.stage = "connecting" /\ opening'.host = opening.host
          /\ opening'.use_tls = opening.use_tls
          /\ opening'.addresses = opening.addresses
      BY <1>4 DEF ConnInv, ConnTypeOK, Openings
    <2>3. ConnTypeOK'
      BY <1>1, <1>4, <2>1 DEF ConnInv, ConnTypeOK, Openings, Stages, Holdings
    <2>4. StageInv' /\ TimeoutIsReported'
      BY <1>1, <1>4, <2>2
      DEF ConnInv, StageInv, TimeoutIsReported, Busy, Dialling, Linked, NoTls,
          proxy_configuration
    <2>5. HeldInv'
      BY <1>1, <1>4, <2>1, <2>2 DEF HeldInv, Dialling, NoTls
    <2> QED
      BY <2>3, <2>4, <2>5 DEF ConnInv
  <1> QED
    BY <1>3, <1>4 DEF MakeSocket

\* The one socket and the list of connect_tcp, while it waits.
LEMMA ConnectingHolds ==
    ASSUME ConnInv, opening.stage = "connecting"
    PROVE  /\ held = [addrinfo |-> 1, sockets |-> 1, contexts |-> 0, objects |-> 0]
           /\ conn.socket_fd = NoHost /\ NoTls
  BY DEF ConnInv, ConnTypeOK, Holdings, StageInv, HeldInv, Dialling, Linked, NoTls

\* An address does not answer, or refuses.
LEMMA AddressFailsInv == ConnInv /\ AddressFails => ConnInv'
  <1> SUFFICES ASSUME ConnInv, AddressFails PROVE ConnInv'
    OBVIOUS
  <1> DEFINE left == [held EXCEPT !.sockets = @ - 1]
  <1>1. /\ errno' \in Errnos /\ proxy_env' = proxy_env
        /\ event' \in {"timeout", "failure"}
        /\ event' = "timeout" => errno' = "ETIMEDOUT"
        /\ opening.stage \in Dialling /\ NextAddress(left)
    BY DEF AddressFails, Errnos, Dialling
  <1>2. left = [addrinfo |-> 1, sockets |-> 0, contexts |-> 0, objects |-> 0]
    BY ConnectingHolds DEF AddressFails
  <1> HIDE DEF left
  <1> QED
    BY <1>1, <1>2, NextAddressInv

\* An address answers.
LEMMA AddressConnectsInv == ConnInv /\ AddressConnects => ConnInv'
  <1> SUFFICES ASSUME ConnInv, AddressConnects PROVE ConnInv'
    OBVIOUS
  <1>0. /\ held' = [addrinfo |-> 0, sockets |-> 1, contexts |-> 0, objects |-> 0]
        /\ NoTls
    BY ConnectingHolds DEF AddressConnects
  <1>1. ConnTypeOK'
    <2>1. held' \in Holdings
      BY <1>0 DEF Holdings
    <2>2. opening.host \in Hosts
      BY DEF AddressConnects, ConnInv, StageInv, Busy, Dialling
    <2>3. conn' \in Connections
      BY <2>2 DEF AddressConnects, ConnInv, ConnTypeOK, Connections
    <2>4. opening' \in Openings
      BY DEF AddressConnects, ConnInv, ConnTypeOK, Openings, Stages
    <2> QED
      BY <2>1, <2>3, <2>4 DEF AddressConnects, ConnInv, ConnTypeOK, Errnos
  <1>2. /\ opening'.stage = IF opening.use_tls = 0 THEN "open"
                            ELSE IF ThroughProxy THEN "tunnel" ELSE "context"
        /\ opening'.host = opening.host /\ opening'.use_tls = opening.use_tls
        /\ opening.use_tls \in {0, 1}
        /\ conn'.socket_fd = IF ThroughProxy THEN ProxyHost ELSE opening.host
        /\ conn'.tls_context = conn.tls_context /\ conn'.tls = conn.tls
        /\ conn'.identity = conn.identity
        /\ proxy_env' = proxy_env /\ opening.stage = "connecting"
    BY DEF ConnInv, ConnTypeOK, AddressConnects, Connections, Openings
  <1>3. ThroughProxy' <=> ThroughProxy
    BY <1>2 DEF ThroughProxy, proxy_configuration
  <1>4. StageInv' /\ TimeoutIsReported'
    BY <1>2, <1>3
    DEF ConnInv, StageInv, TimeoutIsReported, Busy, Dialling, Linked, NoTls,
        proxy_configuration
  <1>5. conn'.socket_fd # NoHost /\ opening'.stage \notin Dialling
    BY <1>2, ConnectionAssumption DEF ConnInv, StageInv, Busy, Dialling
  <1>6. HeldInv'
    BY <1>0, <1>2, <1>5 DEF HeldInv, NoTls
  <1> QED
    BY <1>1, <1>4, <1>6 DEF ConnInv

\* A step within open_connection that goes from one stage with a socket to
\* another, and acquires nothing or one of the TLS objects.
LEMMA SameHoldings ==
    ASSUME ConnInv, opening.stage \in Linked, opening'.stage \in Linked,
           conn'.socket_fd = conn.socket_fd,
           held' \in Holdings,
           held'.addrinfo = held.addrinfo, held'.sockets = held.sockets,
           held'.contexts = IF conn'.tls_context = "none" THEN 0 ELSE 1,
           held'.objects = IF conn'.tls = "none" THEN 0 ELSE 1
    PROVE  HeldInv'
  <1>1. /\ opening.stage \notin Dialling /\ opening'.stage \notin Dialling
        /\ opening.stage # "connecting" /\ opening'.stage # "connecting"
    BY DEF Linked, Dialling
  <1> QED
    BY <1>1 DEF ConnInv, HeldInv

\* The proxy grants, refuses or delays the tunnel.
LEMMA TunnelInv == ConnInv /\ Tunnel => ConnInv'
  <1> SUFFICES ASSUME ConnInv, Tunnel PROVE ConnInv'
    OBVIOUS
  <1>1. errno' \in Errnos /\ proxy_env' = proxy_env /\ opening.stage \notin Dialling
    BY DEF Tunnel, ConnInv, ConnTypeOK, Errnos, TimeoutErrnos, Dialling
  <1>2. CASE OpenFails(11) /\ event' = "timeout"
    BY <1>1, <1>2, OpenFailsInv DEF ConnInv, Codes, Events
  <1>3. CASE /\ OpenFails(IF TimedOut(errno') THEN 11 ELSE 14)
             /\ event' = "failure"
    BY <1>1, <1>3, OpenFailsInv DEF ConnInv, Codes, Events
  <1>4. CASE /\ opening.stage = "tunnel" /\ event' = "done"
             /\ conn' = [conn EXCEPT !.failure_code = 5]
             /\ opening' = [opening EXCEPT !.stage = "context"]
             /\ held' = held
    <2>1. ConnTypeOK'
      BY <1>1, <1>4 DEF ConnInv, ConnTypeOK, Connections, Openings, Stages
    <2>2. /\ opening'.stage = "context" /\ opening'.host = opening.host
          /\ opening'.use_tls = opening.use_tls
          /\ conn'.socket_fd = conn.socket_fd /\ conn'.tls = conn.tls
          /\ conn'.tls_context = conn.tls_context
          /\ conn'.identity = conn.identity
      BY <1>4 DEF ConnInv, ConnTypeOK, Connections, Openings
    <2>3. StageInv' /\ TimeoutIsReported'
      BY <1>1, <1>4, <2>2
      DEF ConnInv, StageInv, TimeoutIsReported, Busy, Dialling, Linked, NoTls,
          ThroughProxy, proxy_configuration
    <2>4. HeldInv'
      BY <1>4, <2>2, SameHoldings DEF Linked, ConnInv, ConnTypeOK, HeldInv
    <2> QED
      BY <2>1, <2>3, <2>4 DEF ConnInv
  <1> QED
    BY <1>2, <1>3, <1>4 DEF Tunnel

\* Any of the exits of the TLS set-up.
LEMMA TlsSetupFailsInv == ConnInv /\ TlsSetupFails => ConnInv'
  <1> SUFFICES ASSUME ConnInv, TlsSetupFails PROVE ConnInv'
    OBVIOUS
  <1>1. /\ errno' \in Errnos /\ proxy_env' = proxy_env
        /\ opening.stage \notin Dialling
    BY DEF TlsSetupFails, ConnInv, ConnTypeOK, Errnos, Dialling
  <1> QED
    BY <1>1, OpenFailsInv DEF TlsSetupFails, Codes, Events

\* A context is made.
LEMMA TlsContextInv == ConnInv /\ TlsContext => ConnInv'
  <1> SUFFICES ASSUME ConnInv, TlsContext PROVE ConnInv'
    OBVIOUS
  <1>1. /\ opening.stage = "context" /\ opening'.stage = "trust"
        /\ opening'.host = opening.host /\ opening'.use_tls = opening.use_tls
        /\ conn'.socket_fd = conn.socket_fd /\ conn'.tls = conn.tls
        /\ conn'.tls_context = "set" /\ conn'.identity = conn.identity
        /\ held'.addrinfo = held.addrinfo /\ held'.sockets = held.sockets
        /\ held'.contexts = held.contexts + 1 /\ held'.objects = held.objects
        /\ proxy_env' = proxy_env
    BY DEF TlsContext, ConnInv, ConnTypeOK, Connections, Openings, Holdings
  <1>2. ConnTypeOK'
    BY DEF TlsContext, ConnInv, ConnTypeOK, Connections, Openings, Stages, Holdings
  <1>3. NoTls
    BY <1>1 DEF ConnInv, StageInv
  <1>4. StageInv' /\ TimeoutIsReported'
    BY <1>1, <1>3
    DEF ConnInv, StageInv, TimeoutIsReported, Busy, Dialling, Linked, NoTls,
        ThroughProxy, proxy_configuration
  <1>5. held.contexts = 0 /\ held.objects = 0
    BY <1>3 DEF ConnInv, HeldInv, NoTls
  <1>6. HeldInv'
    BY <1>1, <1>2, <1>3, <1>5, SameHoldings DEF Linked, ConnTypeOK, NoTls
  <1> QED
    BY <1>2, <1>4, <1>6 DEF ConnInv

\* The context gets its trust.
LEMMA TlsTrustInv == ConnInv /\ TlsTrust => ConnInv'
  <1> SUFFICES ASSUME ConnInv, TlsTrust PROVE ConnInv'
    OBVIOUS
  <1>1. /\ opening.stage = "trust" /\ opening'.stage = "object"
        /\ opening'.host = opening.host /\ opening'.use_tls = opening.use_tls
        /\ conn' = conn /\ held' = held /\ proxy_env' = proxy_env
    BY DEF TlsTrust, ConnInv, ConnTypeOK, Openings
  <1>2. ConnTypeOK'
    BY DEF TlsTrust, ConnInv, ConnTypeOK, Openings, Stages, Errnos
  <1>3. StageInv' /\ TimeoutIsReported'
    BY <1>1
    DEF ConnInv, StageInv, TimeoutIsReported, Busy, Dialling, Linked, NoTls,
        ThroughProxy, proxy_configuration
  <1>4. HeldInv'
    BY <1>1, SameHoldings DEF Linked, ConnInv, ConnTypeOK, HeldInv
  <1> QED
    BY <1>2, <1>3, <1>4 DEF ConnInv

\* An SSL object is made.
LEMMA TlsObjectInv == ConnInv /\ TlsObject => ConnInv'
  <1> SUFFICES ASSUME ConnInv, TlsObject PROVE ConnInv'
    OBVIOUS
  <1>1. /\ opening.stage = "object" /\ opening'.stage = "identity"
        /\ opening'.host = opening.host /\ opening'.use_tls = opening.use_tls
        /\ conn'.socket_fd = conn.socket_fd /\ conn'.tls = "made"
        /\ conn'.tls_context = conn.tls_context /\ conn'.identity = conn.identity
        /\ held'.addrinfo = held.addrinfo /\ held'.sockets = held.sockets
        /\ held'.contexts = held.contexts /\ held'.objects = held.objects + 1
        /\ proxy_env' = proxy_env
    BY DEF TlsObject, ConnInv, ConnTypeOK, Connections, Openings, Holdings
  <1>2. ConnTypeOK'
    BY DEF TlsObject, ConnInv, ConnTypeOK, Connections, Openings, Stages, Holdings
  <1>3. conn.tls_context = "set" /\ conn.tls = "none"
    BY <1>1 DEF ConnInv, StageInv
  <1>4. StageInv' /\ TimeoutIsReported'
    BY <1>1, <1>3
    DEF ConnInv, StageInv, TimeoutIsReported, Busy, Dialling, Linked, NoTls,
        ThroughProxy, proxy_configuration
  <1>5. held.contexts = 1 /\ held.objects = 0
    BY <1>3 DEF ConnInv, HeldInv
  <1>6. HeldInv'
    BY <1>1, <1>2, <1>3, <1>5, SameHoldings DEF Linked, ConnTypeOK
  <1> QED
    BY <1>2, <1>4, <1>6 DEF ConnInv

\* The SSL object is told whom to verify.
LEMMA TlsIdentityInv == ConnInv /\ TlsIdentity => ConnInv'
  <1> SUFFICES ASSUME ConnInv, TlsIdentity PROVE ConnInv'
    OBVIOUS
  <1>1. /\ opening.stage = "identity" /\ opening'.stage = "handshake"
        /\ opening'.host = opening.host /\ opening'.use_tls = opening.use_tls
        /\ conn'.socket_fd = conn.socket_fd /\ conn'.tls = conn.tls
        /\ conn'.tls_context = conn.tls_context /\ conn'.identity = opening.host
        /\ held' = held /\ proxy_env' = proxy_env
    BY DEF TlsIdentity, VerifiedHost, ConnInv, ConnTypeOK, Connections, Openings
  <1>2. ConnTypeOK'
    BY DEF TlsIdentity, VerifiedHost, ConnInv, ConnTypeOK, StageInv, Busy, Linked,
           Connections, Openings, Stages
  <1>3. StageInv' /\ TimeoutIsReported'
    BY <1>1
    DEF ConnInv, StageInv, TimeoutIsReported, Busy, Dialling, Linked, NoTls,
        ThroughProxy, proxy_configuration
  <1>4. HeldInv'
    BY <1>1, SameHoldings DEF Linked, ConnInv, ConnTypeOK, HeldInv
  <1> QED
    BY <1>2, <1>3, <1>4 DEF ConnInv

\* The handshake ends.
LEMMA HandshakeInv == ConnInv /\ Handshake => ConnInv'
  <1> SUFFICES ASSUME ConnInv, Handshake PROVE ConnInv'
    OBVIOUS
  <1>1. errno' \in Errnos /\ proxy_env' = proxy_env /\ opening.stage \notin Dialling
    BY DEF Handshake, ConnInv, ConnTypeOK, Errnos, TimeoutErrnos, Dialling
  <1>2. CASE OpenFails(11) /\ event' = "timeout"
    BY <1>1, <1>2, OpenFailsInv DEF ConnInv, Codes, Events
  <1>3. CASE /\ OpenFails(IF TimedOut(errno') THEN 11 ELSE 5)
             /\ event' = "failure"
    BY <1>1, <1>3, OpenFailsInv DEF ConnInv, Codes, Events
  <1>4. CASE /\ opening.stage = "handshake" /\ event' = "done"
             /\ conn' = [conn EXCEPT !.tls = "up"]
             /\ opening' = [opening EXCEPT !.stage = "open"]
             /\ held' = held
    <2>1. ConnTypeOK'
      BY <1>1, <1>4 DEF ConnInv, ConnTypeOK, Connections, Openings, Stages
    <2>2. /\ opening'.stage = "open" /\ opening'.host = opening.host
          /\ opening'.use_tls = opening.use_tls
          /\ conn'.socket_fd = conn.socket_fd /\ conn'.tls = "up"
          /\ conn'.tls_context = conn.tls_context
          /\ conn'.identity = conn.identity
      BY <1>4 DEF ConnInv, ConnTypeOK, Connections, Openings
    <2>3. StageInv' /\ TimeoutIsReported'
      BY <1>1, <1>4, <2>2
      DEF ConnInv, StageInv, TimeoutIsReported, Busy, Dialling, Linked, ThroughProxy,
          proxy_configuration
    <2>4. conn.tls = "made"
      BY <1>4 DEF ConnInv, StageInv
    <2>5. HeldInv'
      BY <1>4, <2>2, <2>4, SameHoldings DEF Linked, ConnInv, ConnTypeOK, HeldInv
    <2> QED
      BY <2>1, <2>3, <2>5 DEF ConnInv
  <1> QED
    BY <1>2, <1>3, <1>4 DEF Handshake

\* Every step of open_connection.
LEMMA OpenStepInv == ConnInv /\ OpenStep => ConnInv'
  BY BadPortInv, ResolveInv, MakeSocketInv, AddressFailsInv, AddressConnectsInv,
     TunnelInv, TlsSetupFailsInv, TlsContextInv, TlsTrustInv, TlsObjectInv,
     TlsIdentityInv, HandshakeInv
  DEF OpenStep

\* open_connection goes on with the arguments it was called with, and what it
\* hands out was reached by a step that succeeded.
LEMMA OpenStepKeeps ==
    ASSUME ConnTypeOK, OpenStep
    PROVE  /\ opening'.host = opening.host /\ opening'.port = opening.port
           /\ opening'.use_tls = opening.use_tls
           /\ opening'.stage # "closed"
           /\ opening'.stage = "open" => event' = "done"
           /\ opening.stage \notin {"open", "failed"}
  <1> USE DEF ConnTypeOK, Openings, OpenFails, ConnectFails, NextAddress
  <1>1. CASE BadPort
    BY <1>1 DEF BadPort
  <1>2. CASE Resolve
    BY <1>2 DEF Resolve
  <1>3. CASE MakeSocket \/ AddressFails
    BY <1>3 DEF MakeSocket, AddressFails
  <1>4. CASE AddressConnects
    BY <1>4 DEF AddressConnects
  <1>5. CASE Tunnel
    BY <1>5 DEF Tunnel
  <1>6. CASE TlsContext \/ TlsTrust \/ TlsObject \/ TlsIdentity \/ TlsSetupFails
    BY <1>6 DEF TlsContext, TlsTrust, TlsObject, TlsIdentity, TlsSetupFails
  <1>7. CASE Handshake
    BY <1>7 DEF Handshake
  <1> QED
    BY <1>1, <1>2, <1>3, <1>4, <1>5, <1>6, <1>7 DEF OpenStep

-----------------------------------------------------------------------------
\* An open connection stays what it was when only its failure_code changes.
LEMMA FailureCodeInv ==
    ASSUME ConnInv, opening.stage = "open", NEW code \in Codes,
           conn' = [conn EXCEPT !.failure_code = code],
           opening' = opening, proxy_env' = proxy_env, held' = held,
           errno' \in Errnos, event' \in Events
    PROVE  ConnInv'
  <1>1. ConnTypeOK'
    BY DEF ConnInv, ConnTypeOK, Connections, Codes, Events
  <1>2. /\ conn'.socket_fd = conn.socket_fd /\ conn'.tls = conn.tls
        /\ conn'.tls_context = conn.tls_context
        /\ conn'.identity = conn.identity
    BY DEF ConnInv, ConnTypeOK, Connections
  <1>3. StageInv' /\ TimeoutIsReported'
    BY <1>2
    DEF ConnInv, StageInv, TimeoutIsReported, Busy, Dialling, Linked, NoTls,
        ThroughProxy, proxy_configuration
  <1>4. HeldInv'
    BY <1>2 DEF ConnInv, HeldInv
  <1> QED
    BY <1>1, <1>3, <1>4 DEF ConnInv

\* A failing read changes the failure code and nothing else.
LEMMA ReadFailsInv == ConnInv /\ ReadFails => ConnInv'
  <1> SUFFICES ASSUME ConnInv, ReadFails PROVE ConnInv'
    OBVIOUS
  <1>1. /\ errno' \in Errnos /\ proxy_env' = proxy_env /\ opening' = opening
        /\ held' = held /\ opening.stage = "open" /\ event' \in Events
    BY DEF ReadFails, ConnInv, ConnTypeOK, Errnos, TimeoutErrnos, Events
  <1>2. \/ conn' = [conn EXCEPT !.failure_code = 11]
        \/ conn' = [conn EXCEPT !.failure_code = 7]
    BY DEF ReadFails, ReadFailure
  <1> QED
    BY <1>1, <1>2, FailureCodeInv DEF Codes

\* close_connection releases everything connect_tcp and OpenSSL have given.
LEMMA CloseConnectionInv ==
    ASSUME ConnInv, opening.stage \notin Dialling, close_connection, event' \in Events
    PROVE  ConnInv' /\ opening'.stage = "closed"
  <1>1. /\ errno' \in Errnos /\ proxy_env' = proxy_env /\ conn.failure_code \in Codes
        /\ conn' = NoConnection(conn.failure_code)
    BY DEF ConnInv, ConnTypeOK, close_connection, Connections, Errnos, Codes
  <1>2. /\ opening' = [opening EXCEPT !.stage = "closed", !.addresses = opening.addresses]
        /\ opening'.stage = "closed" /\ opening.addresses \in Nat
    BY DEF close_connection, ConnInv, ConnTypeOK, Openings
  <1>3. held' = Nothing
    BY ReleasedIsAll DEF close_connection
  <1> QED
    BY <1>1, <1>2, <1>3, EmptyInv DEF ConnInv

-----------------------------------------------------------------------------
\* The properties the runs check are consequences of the invariant.
LEMMA ConnInvImplies ==
    ConnInv => /\ FailedHoldsNothing /\ OpenIsAuthentic /\ ProxyFailsClosed
               /\ TimeoutIsReported
  <1> SUFFICES ASSUME ConnInv
               PROVE  /\ FailedHoldsNothing /\ OpenIsAuthentic
                      /\ ProxyFailsClosed /\ TimeoutIsReported
    OBVIOUS
  <1> USE ConnectionAssumption
  <1>1. FailedHoldsNothing
    BY DEF ConnInv, ConnTypeOK, Holdings, StageInv, HeldInv, NoTls, Dialling, Linked,
           Nothing, FailedHoldsNothing
  <1>2. OpenIsAuthentic
    BY DEF ConnInv, ConnTypeOK, Openings, StageInv, NoTls, Linked, ThroughProxy,
           proxy_configuration, OpenIsAuthentic
  <1>3. ProxyFailsClosed
    BY DEF ConnInv, ConnTypeOK, Openings, Stages, StageInv, Busy, Dialling, Linked,
           ThroughProxy, proxy_configuration, ProxyFailsClosed
  <1> QED
    BY <1>1, <1>2, <1>3 DEF ConnInv

\* The invariant of a process that opens, reads from and closes connections
\* one after another, as native/transport.c does.
THEOREM ConnInvariant == ConnSpec => []ConnInv
  <1>1. ConnInv /\ [ConnNext]_connvars => ConnInv'
    <2> SUFFICES ASSUME ConnInv, [ConnNext]_connvars PROVE ConnInv'
      OBVIOUS
    <2>1. ASSUME NEW h \in Hosts, NEW p \in Ports, NEW t \in {0, 1},
                 StartOpen(h, p, t)
          PROVE  ConnInv'
      BY <2>1, StartOpenInv, ConnectionAssumption
    <2>2. CASE OpenStep
      BY <2>2, OpenStepInv
    <2>3. CASE ReadFails
      BY <2>3, ReadFailsInv
    <2>4. CASE Close
      BY <2>4, CloseConnectionInv DEF Close, ConnInv, ConnTypeOK, Events, Dialling
    <2>5. CASE UNCHANGED connvars
      BY <2>5
      DEF connvars, ConnInv, ConnTypeOK, StageInv, HeldInv, TimeoutIsReported, NoTls,
          ThroughProxy, proxy_configuration
    <2> QED
      BY <2>1, <2>2, <2>3, <2>4, <2>5 DEF ConnNext
  <1> QED
    BY ConnInitInv, <1>1, PTL DEF ConnSpec

\* The connection's variables keep their types; failure_code is always one of
\* the codes send_request knows how to report.
THEOREM ConnTypeCorrect == ConnSpec => []ConnTypeOK
  <1>1. ConnInv => ConnTypeOK
    BY DEF ConnInv
  <1> QED
    BY <1>1, ConnInvariant, PTL

\* Every path out of open_connection and close_connection releases, once, what
\* was acquired on the way to it.
THEOREM NothingLeaks == ConnSpec => []FailedHoldsNothing
  BY ConnInvariant, ConnInvImplies, PTL

\* No connection is handed out that is not what was asked for.
THEOREM Authentic == ConnSpec => []OpenIsAuthentic
  BY ConnInvariant, ConnInvImplies, PTL

\* An unusable proxy setting never becomes a direct connection, and the proxy
\* is used exactly for remote TLS destinations.
THEOREM FailsClosed == ConnSpec => []ProxyFailsClosed
  BY ConnInvariant, ConnInvImplies, PTL

\* A wait that ran out while opening is reported as a timeout.
THEOREM TimeoutsReported == ConnSpec => []TimeoutIsReported
  BY ConnInvariant, ConnInvImplies, PTL

\* Code 11 is wrong only when errno already said so before the operation that
\* failed: no path of open_connection makes a timeout of another failure by
\* itself, and what MC_ConnectionStale shows needs an errno left behind.
THEOREM FalseTimeoutsAreStale ==
    ConnSpec => [][/\ opening.stage # "failed" /\ opening'.stage = "failed"
                   /\ conn'.failure_code = 11
                   => event' = "timeout" \/ errno \in TimeoutErrnos]_connvars
  <1> DEFINE Told == /\ opening.stage # "failed" /\ opening'.stage = "failed"
                     /\ conn'.failure_code = 11
                     => event' = "timeout" \/ errno \in TimeoutErrnos
  <1>1. ConnInv /\ [ConnNext]_connvars => [Told]_connvars
    <2> SUFFICES ASSUME ConnInv, ConnNext, opening.stage # "failed",
                        opening'.stage = "failed", conn'.failure_code = 11
                 PROVE  event' = "timeout" \/ errno \in TimeoutErrnos
      OBVIOUS
    <2>0. opening \in Openings
      BY DEF ConnInv, ConnTypeOK
    <2>1. ASSUME NEW code, conn' = NoConnection(code) PROVE code = 11
      BY <2>1 DEF NoConnection
    <2>2. CASE \E h \in Hosts, p \in Ports, t \in {0, 1} : StartOpen(h, p, t)
      BY <2>1, <2>2 DEF StartOpen
    <2>3. CASE BadPort \/ Resolve \/ MakeSocket \/ AddressFails
      <3>1. ASSUME ConnectFails PROVE errno' = "ETIMEDOUT"
        BY <3>1 DEF ConnectFails, ConnInv, ConnTypeOK, Connections
      <3>2. ASSUME opening'.stage \in Dialling PROVE FALSE
        BY <3>2 DEF Dialling
      <3>3. CASE BadPort
        BY <3>1, <3>3 DEF BadPort, TimeoutErrnos
      <3>4. CASE Resolve
        BY <2>0, <3>1, <3>2, <3>4 DEF Resolve, TimeoutErrnos, Openings, Dialling
      <3>5. CASE MakeSocket
        BY <2>0, <3>1, <3>2, <3>5 DEF MakeSocket, NextAddress, Openings, Dialling
      <3>6. CASE AddressFails
        BY <2>0, <3>1, <3>2, <3>6 DEF AddressFails, NextAddress, Openings, Dialling
      <3> QED
        BY <2>3, <3>3, <3>4, <3>5, <3>6
    <2>4. CASE AddressConnects
      BY <2>0, <2>4 DEF AddressConnects, Openings
    <2>5. CASE Tunnel
      BY <2>0, <2>1, <2>5 DEF Tunnel, OpenFails, TimedOut, TimeoutErrnos, Openings
    <2>6. CASE TlsContext \/ TlsTrust \/ TlsObject \/ TlsIdentity \/ TlsSetupFails
      BY <2>0, <2>1, <2>6
      DEF TlsContext, TlsTrust, TlsObject, TlsIdentity, TlsSetupFails, OpenFails, Openings
    <2>7. CASE Handshake
      BY <2>0, <2>1, <2>7 DEF Handshake, OpenFails, TimedOut, TimeoutErrnos, Openings
    <2>8. CASE ReadFails \/ Close
      BY <2>0, <2>8 DEF ReadFails, Close, close_connection, Openings
    <2> QED
      BY <2>2, <2>3, <2>4, <2>5, <2>6, <2>7, <2>8 DEF ConnNext, OpenStep
  <1> QED
    BY <1>1, ConnInvariant, PTL DEF ConnSpec

=============================================================================
