----------------------------- MODULE Connection -----------------------------
(***************************************************************************)
(* One connection of native/transport.c: open_connection with the calls it *)
(* makes (proxy_configuration, connect_tcp, establish_proxy_tunnel, the    *)
(* OpenSSL set-up and handshake), the failing ends of write_all and        *)
(* read_some, and close_connection.                                        *)
(*                                                                         *)
(* The code classifies a failure by errno, which a call that succeeds, a   *)
(* peer that refuses in good order and most OpenSSL failures leave as they *)
(* found it: errno is a variable here and outlives the connection.  Its    *)
(* values are EAGAIN (EWOULDBLOCK too), ETIMEDOUT and "other".             *)
(*                                                                         *)
(* Two history variables that no action's guard reads: event says what the *)
(* last socket or file operation really met, held counts what the resolver, *)
(* the kernel and OpenSSL have given out and not got back.                  *)
(***************************************************************************)
EXTENDS Endpoint

CONSTANTS
    ProxyEnvs,      \* contents of HTTPS_PROXY the process may be started with
    ProxyHost,      \* the host a usable setting names
    NoHost,         \* no host
    Ports,          \* port numbers a connection is asked for
    MaxAddresses    \* addresses a name may resolve to, at most

ASSUME ConnectionAssumption ==
    /\ ProxyEnvs \subseteq {"unset", "unusable", "usable"}
    /\ ProxyHost \notin Hosts
    /\ NoHost \notin Hosts \cup {ProxyHost}
    /\ Ports \subseteq Int
    /\ MaxAddresses \in Nat \ {0}

VARIABLES
    proxy_env,  \* HTTPS_PROXY, or https_proxy when that is empty
    errno,      \* the C library's errno
    conn,       \* the connection record; a pointer is what it points at
    opening,    \* open_connection's control point and arguments
    event,      \* history: what the last operation really met
    held        \* history: what has been acquired and not released

connvars == <<proxy_env, errno, conn, opening, event, held>>

Errnos == {"EAGAIN", "ETIMEDOUT", "other"}

Connections ==
    [socket_fd    : Hosts \cup {ProxyHost, NoHost}, \* the peer, NoHost for -1
     tls_context  : {"none", "set"},
     tls          : {"none", "made", "up"},
     identity     : Hosts \cup {ProxyHost, NoHost}, \* name TLS must verify
     failure_code : {4, 5, 7, 11, 12, 13, 14}]

Stages == {"closed", "resolve", "connect", "connecting", "tunnel", "context",
           "trust", "object", "identity", "handshake", "open", "failed"}

Openings ==
    [stage : Stages, host : Hosts \cup {NoHost}, port : Int, use_tls : {0, 1},
     addresses : Nat]

\* The address list of getaddrinfo, sockets, SSL_CTX and SSL objects.
Holdings == [addrinfo : Nat, sockets : Nat, contexts : Nat, objects : Nat]

Nothing == [addrinfo |-> 0, sockets |-> 0, contexts |-> 0, objects |-> 0]

ConnTypeOK ==
    /\ proxy_env \in ProxyEnvs
    /\ errno \in Errnos
    /\ conn \in Connections
    /\ opening \in Openings
    /\ event \in {"none", "done", "timeout", "failure", "storage"}
    /\ held \in Holdings

NoConnection(code) ==
    [socket_fd |-> NoHost, tls_context |-> "none", tls |-> "none",
     identity |-> NoHost, failure_code |-> code]

ConnInit ==
    /\ proxy_env \in ProxyEnvs
    /\ errno = "other"
    /\ conn = NoConnection(4)
    /\ opening = [stage |-> "closed", host |-> NoHost, port |-> 0,
                  use_tls |-> 0, addresses |-> 0]
    /\ event = "none" /\ held = Nothing

-----------------------------------------------------------------------------
\* Mutant: a setting that cannot be used counts as none.
proxy_configuration_fallback(host, use_tls) ==
    IF use_tls = 1 /\ host \notin Loopback /\ proxy_env = "usable"
    THEN "usable" ELSE "unset"

\* "unset": go direct, "usable": through the proxy, "unusable": refuse.
proxy_configuration(host, use_tls) ==
    IF use_tls = 0 \/ host \in Loopback THEN "unset" ELSE proxy_env

ThroughProxy == proxy_configuration(opening.host, opening.use_tls) = "usable"

StartOpen(host, port, use_tls) ==
    LET refused == proxy_configuration(host, use_tls) = "unusable"
    IN  /\ opening.stage \in {"closed", "failed"}
        /\ conn' = NoConnection(IF refused THEN 14 ELSE 4)
        /\ opening' = [stage |-> IF refused THEN "failed" ELSE "resolve",
                       host |-> host, port |-> port, use_tls |-> use_tls,
                       addresses |-> 0]
        /\ event' = "none"
        /\ UNCHANGED <<proxy_env, errno, held>>

\* Every test of errno for an operation that waited too long.
TimeoutErrnos == {"EAGAIN", "ETIMEDOUT"}

TimedOut(e) == e \in TimeoutErrnos

\* Mutant: the context is freed where the SSL object is, and only there.
Released_withObject ==
    [addrinfo |-> held.addrinfo,
     sockets  |-> held.sockets - (IF conn.socket_fd # NoHost THEN 1 ELSE 0),
     contexts |-> held.contexts - (IF conn.tls # "none" THEN 1 ELSE 0),
     objects  |-> held.objects - (IF conn.tls # "none" THEN 1 ELSE 0)]

\* What is left when close_connection has freed what the record points at.
Released ==
    [addrinfo |-> held.addrinfo,
     sockets  |-> held.sockets - (IF conn.socket_fd # NoHost THEN 1 ELSE 0),
     contexts |-> held.contexts - (IF conn.tls_context # "none" THEN 1 ELSE 0),
     objects  |-> held.objects - (IF conn.tls # "none" THEN 1 ELSE 0)]

\* open_connection returns 0 after close_connection.
OpenFails(code) ==
    /\ held' = Released
    /\ conn' = NoConnection(code)
    /\ opening' = [opening EXCEPT !.stage = "failed", !.addresses = 0]

\* Mutant: the errno of the last address is not looked at.
ConnectFailsPlain ==
    /\ conn' = [conn EXCEPT !.failure_code = 4]
    /\ opening' = [opening EXCEPT !.stage = "failed", !.addresses = 0]

\* connect_tcp returned -1, and open_connection returns without closing.
ConnectFails ==
    /\ conn' = [conn EXCEPT !.failure_code = IF errno' = "ETIMEDOUT" THEN 11 ELSE 4]
    /\ opening' = [opening EXCEPT !.stage = "failed", !.addresses = 0]

\* connect_tcp refuses the port before it touches errno.  A proxy's port was
\* checked by proxy_configuration.
BadPort ==
    /\ opening.stage = "resolve"
    /\ opening.port \notin 1..MaxPort /\ ~ThroughProxy
    /\ UNCHANGED <<errno, proxy_env, held>>
    /\ event' = "failure"
    /\ ConnectFails

\* getaddrinfo reports its failures by its result, not by errno: it may leave
\* errno alone, set it on the way, or leave the resolver's own ETIMEDOUT.
Resolve ==
    /\ opening.stage = "resolve"
    /\ opening.port \in 1..MaxPort \/ ThroughProxy
    /\ UNCHANGED proxy_env
    /\ \/ /\ errno' \in {errno, "other"}
          /\ event' = "failure"
          /\ ConnectFails /\ UNCHANGED held
       \/ /\ errno' = "ETIMEDOUT"
          /\ event' = "timeout"
          /\ ConnectFails /\ UNCHANGED held
       \/ /\ errno' \in {errno, "other"}
          /\ event' = "done"
          /\ \E n \in 1..MaxAddresses :
                opening' = [opening EXCEPT !.stage = "connect",
                                           !.addresses = n]
          /\ held' = [held EXCEPT !.addrinfo = @ + 1]
          /\ UNCHANGED conn

\* Mutant: the loop stays at the same address.
NextAddress_same(left) ==
    /\ opening' = [opening EXCEPT !.stage = "connect"]
    /\ held' = left
    /\ UNCHANGED conn

\* The loop goes on, with left acquired, or ends: freeaddrinfo and -1.
NextAddress(left) ==
    IF opening.addresses = 1
    THEN /\ ConnectFails
         /\ held' = [left EXCEPT !.addrinfo = @ - 1]
    ELSE /\ opening' = [opening EXCEPT !.stage = "connect", !.addresses = @ - 1]
         /\ held' = left
         /\ UNCHANGED conn

\* socket() for the next address.
MakeSocket ==
    /\ opening.stage = "connect"
    /\ UNCHANGED proxy_env
    /\ \/ /\ opening' = [opening EXCEPT !.stage = "connecting"]
          /\ held' = [held EXCEPT !.sockets = @ + 1]
          /\ UNCHANGED <<errno, event, conn>>
       \/ /\ errno' = "other" /\ event' = "failure"
          /\ NextAddress(held)

\* An address that does not answer in 15 seconds sets errno by hand; one that
\* refuses leaves the EINPROGRESS (or the other error) of its own connect, and
\* so does a kernel that gives up sooner, since SO_ERROR never reaches errno.
\* The socket is closed either way and the next address is tried.
AddressFails ==
    /\ opening.stage = "connecting"
    /\ UNCHANGED proxy_env
    /\ \/ errno' = "ETIMEDOUT" /\ event' = "timeout"
       \/ errno' = "other" /\ event' = "failure"
    /\ NextAddress([held EXCEPT !.sockets = @ - 1])

\* A connect that succeeds at once leaves errno, one that was in progress
\* leaves EINPROGRESS in it.
AddressConnects ==
    /\ opening.stage = "connecting"
    /\ UNCHANGED proxy_env
    /\ errno' \in {errno, "other"}
    /\ event' = "done"
    /\ held' = [held EXCEPT !.addrinfo = @ - 1]
    /\ conn' = [conn EXCEPT
                  !.socket_fd = IF ThroughProxy THEN ProxyHost
                                                ELSE opening.host,
                  !.failure_code = IF opening.use_tls = 1 /\ ~ThroughProxy
                                   THEN 5 ELSE @]
    /\ opening' = [opening EXCEPT
                     !.stage = IF opening.use_tls = 0 THEN "open"
                               ELSE IF ThroughProxy THEN "tunnel" ELSE "context",
                     !.addresses = 0]

\* establish_proxy_tunnel.  A refusal, a malformed or oversized answer and an
\* end of stream leave errno alone; a recv or send that fails sets it.
Tunnel ==
    /\ opening.stage = "tunnel"
    /\ UNCHANGED proxy_env
    /\ \/ /\ errno' \in TimeoutErrnos /\ event' = "timeout"
          /\ OpenFails(11)
       \/ /\ errno' \in {errno, "other"} /\ event' = "failure"
          /\ OpenFails(IF TimedOut(errno') THEN 11 ELSE 14)
       \/ /\ event' = "done"
          /\ conn' = [conn EXCEPT !.failure_code = 5]
          /\ opening' = [opening EXCEPT !.stage = "context"]
          /\ UNCHANGED <<errno, held>>

\* Mutant: the hop is verified instead of the destination.
VerifiedHostOfHop == conn.socket_fd

\* The host the peer's certificate must be for.
VerifiedHost == opening.host

\* One of the calls before the handshake fails; each exit closes the connection
\* with what has been made so far.
TlsSetupFails ==
    /\ opening.stage \in {"context", "trust", "object", "identity"}
    /\ UNCHANGED proxy_env
    /\ errno' \in {errno, "other"} /\ event' = "failure"
    /\ OpenFails(5)

\* SSL_CTX_new.
TlsContext ==
    /\ opening.stage = "context"
    /\ conn' = [conn EXCEPT !.tls_context = "set"]
    /\ held' = [held EXCEPT !.contexts = @ + 1]
    /\ opening' = [opening EXCEPT !.stage = "trust"]
    /\ UNCHANGED <<proxy_env, errno, event>>

\* The system's trust and SSL_VERIFY_PEER.
TlsTrust ==
    /\ opening.stage = "trust"
    /\ opening' = [opening EXCEPT !.stage = "object"]
    /\ errno' \in {errno, "other"}
    /\ UNCHANGED <<proxy_env, conn, event, held>>

\* SSL_new.
TlsObject ==
    /\ opening.stage = "object"
    /\ conn' = [conn EXCEPT !.tls = "made"]
    /\ held' = [held EXCEPT !.objects = @ + 1]
    /\ opening' = [opening EXCEPT !.stage = "identity"]
    /\ UNCHANGED <<proxy_env, errno, event>>

\* The name or the address the peer's certificate must be for.
TlsIdentity ==
    /\ opening.stage = "identity"
    /\ conn' = [conn EXCEPT !.identity = VerifiedHost]
    /\ opening' = [opening EXCEPT !.stage = "handshake"]
    /\ UNCHANGED <<proxy_env, errno, event, held>>

\* SSL_connect.  A certificate that is not trusted leaves errno alone.
Handshake ==
    /\ opening.stage = "handshake"
    /\ UNCHANGED proxy_env
    /\ \/ /\ errno' \in TimeoutErrnos /\ event' = "timeout"
          /\ OpenFails(11)
       \/ /\ errno' \in {errno, "other"} /\ event' = "failure"
          /\ OpenFails(IF TimedOut(errno') THEN 11 ELSE 5)
       \/ /\ event' = "done"
          /\ conn' = [conn EXCEPT !.tls = "up"]
          /\ opening' = [opening EXCEPT !.stage = "open"]
          /\ UNCHANGED <<errno, held>>

OpenStep ==
    \/ BadPort \/ Resolve \/ MakeSocket \/ AddressFails \/ AddressConnects
    \/ Tunnel
    \/ TlsContext \/ TlsTrust \/ TlsObject \/ TlsIdentity \/ TlsSetupFails
    \/ Handshake

-----------------------------------------------------------------------------
\* Mutant: a failure that is no timeout gets the code of a success.
ReadFailureZero(e) == IF TimedOut(e) THEN 11 ELSE 0

ReadFailure(e) == IF TimedOut(e) THEN 11 ELSE 7

\* read_some returned -1.  recv sets errno; SSL_read sets it only when the
\* socket below it failed, and a protocol error is judged by the old errno.
ReadFails ==
    /\ opening.stage = "open"
    /\ UNCHANGED <<proxy_env, opening, held>>
    /\ \/ /\ errno' \in TimeoutErrnos /\ event' = "timeout"
          /\ conn' = [conn EXCEPT !.failure_code = 11]
       \/ /\ errno' \in IF conn.tls = "up" THEN {errno, "other"} ELSE {"other"}
          /\ event' = "failure"
          /\ conn' = [conn EXCEPT !.failure_code = ReadFailure(errno')]

\* Mutant: only the TLS objects are released.
close_connection_tls ==
    /\ errno' = errno
    /\ held' = [Released EXCEPT !.sockets = held.sockets]
    /\ conn' = NoConnection(conn.failure_code)
    /\ opening' = [opening EXCEPT !.stage = "closed"]
    /\ UNCHANGED proxy_env

\* close_connection.  The close alert of SSL_shutdown and the close itself may
\* fail.  What file operations before it leave in errno is among these values.
close_connection ==
    /\ errno' \in IF conn.tls = "up" THEN Errnos ELSE {errno, "other"}
    /\ held' = Released
    /\ conn' = NoConnection(conn.failure_code)
    /\ opening' = [opening EXCEPT !.stage = "closed"]
    /\ UNCHANGED proxy_env

Close ==
    /\ opening.stage = "open"
    /\ close_connection
    /\ UNCHANGED event

ConnNext ==
    \/ \E h \in Hosts, p \in Ports, t \in {0, 1} : StartOpen(h, p, t)
    \/ OpenStep
    \/ ReadFails
    \/ Close

ConnSpec == ConnInit /\ [][ConnNext]_connvars

-----------------------------------------------------------------------------
\* When open_connection has failed, on whichever of its paths, and after
\* close_connection, everything that was acquired has been released: the two
\* exits that do not close hold nothing yet, and close_connection, which looks
\* at the pointers, finds all there is, at every stage of the set-up.
FailedHoldsNothing == opening.stage \in {"closed", "failed"} => held = Nothing

\* An open connection is what was asked for: a TLS one has completed a
\* handshake verified for the destination's own name, through a proxy or not,
\* and a plain one goes straight to the destination.
OpenIsAuthentic ==
    opening.stage = "open" =>
        IF opening.use_tls = 1
        THEN conn.tls = "up" /\ conn.identity = opening.host
        ELSE conn.tls = "none" /\ conn.socket_fd = opening.host

\* A socket leads to the proxy only for a TLS destination that is not this
\* machine, and an unusable proxy setting never falls back to a direct
\* connection to such a destination.
ProxyFailsClosed ==
    conn.socket_fd # NoHost =>
        IF opening.use_tls = 1 /\ opening.host \notin Loopback
        THEN /\ proxy_env # "unusable"
             /\ conn.socket_fd = IF proxy_env = "usable" THEN ProxyHost
                                                         ELSE opening.host
        ELSE conn.socket_fd = opening.host

\* A wait that ran out is reported as a timeout: the errno the loop over the
\* addresses, the tunnel and the handshake leave behind reaches failure_code.
TimeoutIsReported ==
    opening.stage = "failed" /\ event = "timeout" => conn.failure_code = 11

\* docs/response-capture.md says failures distinguish a timeout from a failed
\* connection, TLS and proxy: code 11 would mean that a wait ran out.
TimeoutIsReal ==
    opening.stage = "failed" /\ conn.failure_code = 11 => event = "timeout"

=============================================================================
