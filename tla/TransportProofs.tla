-------------------------- MODULE TransportProofs --------------------------
(***************************************************************************)
(* Transport's invariants, for any calls, any answers and any limits.      *)
(***************************************************************************)
EXTENDS Transport, ConnectionProofs, SequenceTheorems, WellFoundedInduction

\* Only a redirect and a new call change what is asked, and of whom.
LEMMA HopKept == [Next]_vars => NextCall \/ FollowRedirect \/ UNCHANGED hopvars
  BY DEF Next, vars, hopvars, PeerStalls, BodyGoesOn, Step, Enter, OutOfMemory,
         OpenHop, Opening, OpenFailed, HopFailed, Write, WriteRetries,
         WriteFails, ReadHead, HeadTruncated, HeadReadFails, RedirectFails,
         RefuseResponse, OpenOutput, OutputFails, CopyPrefix, CopyBody,
         CopyEnds, CopyReadFails, CloseOutput, Finish

\* What a redirected request carries, from what the last one did.
LEMMA RewriteHeaders ==
    ASSUME NEW next, FollowRedirect,
           current' = next,
           request' = rewrite_get_request_with_policy(
                         request, next, same_origin(current, next), call.names)
    PROVE  request'.headers = IF Origin(next) = Origin(current)
                              THEN request.headers
                              ELSE request.headers \ Credentials
  BY DEF rewrite_get_request_with_policy, same_origin, Origin,
         sensitive_headers, Credentials

\* No step sends a credential away from its origin.
LEMMA CredentialsStep == CredentialsStayHome /\ [Next]_vars => CredentialsStayHome'
  <1> SUFFICES ASSUME CredentialsStayHome, [Next]_vars PROVE CredentialsStayHome'
    OBVIOUS
  <1>1. CASE NextCall
    BY <1>1 DEF NextCall, CredentialsStayHome, Origin, FirstHop, Credentials
  <1>2. CASE FollowRedirect
    <2>1. PICK next \in NextEndpoint :
             /\ request' = rewrite_get_request_with_policy(
                              request, next, same_origin(current, next),
                              call.names)
             /\ current' = next
      BY <1>2 DEF FollowRedirect
    <2>2. request'.headers = IF Origin(current') = Origin(current)
                             THEN request.headers
                             ELSE request.headers \ Credentials
      BY <1>2, <2>1, RewriteHeaders DEF Origin
    <2>3. call' = call
      BY <1>2 DEF FollowRedirect
    <2> QED
      BY <2>2, <2>3 DEF CredentialsStayHome, Credentials, Origin, FirstHop
  <1>3. CASE UNCHANGED hopvars
    BY <1>3 DEF hopvars, CredentialsStayHome, Origin, FirstHop, Credentials
  <1> QED
    BY <1>1, <1>2, <1>3, HopKept

\* Whatever chain of redirects the servers lead a call through, credentials
\* stay with the origin the caller asked for.
THEOREM CredentialsTheorem == Spec => []CredentialsStayHome
  <1>1. Init => CredentialsStayHome
    BY DEF Init, CredentialsStayHome, Origin, FirstHop, Credentials
  <1> QED
    BY <1>1, CredentialsStep, PTL DEF Spec

-----------------------------------------------------------------------------
\* What the redirect and header operators return.

\* The directory of a path is a path.
LEMMA DirectoryType ==
    ASSUME NEW path \in Seq(Texts) PROVE Directory(path) \in Seq(Texts)
  <1>1. CASE Len(path) = 0
    <2>1. path = << >>
      BY <1>1, EmptySeq
    <2> QED
      BY <2>1 DEF Directory
  <1>2. CASE Len(path) # 0
    <2>1. Len(path) \in Nat \ {0}
      BY <1>2, LenProperties
    <2> QED
      BY <2>1, SubSeqProperties DEF Directory
  <1> QED
    BY <1>1, <1>2

\* A relative Location gives a target.
LEMMA RelativeTargetType ==
    ASSUME NEW r \in Requests, NEW loc \in Locations
    PROVE  relative_target(r, loc) \in Targets
  <1>1. /\ r.target.path \in Seq(Texts)
        /\ loc.path \in Seq(Texts) /\ loc.query \in Texts
    BY DEF Requests, Targets, Locations
  <1>2. Directory(r.target.path) \o loc.path \in Seq(Texts)
    BY <1>1, DirectoryType, ConcatProperties
  <1> QED
    BY <1>1, <1>2 DEF relative_target, Targets

\* set_target keeps an endpoint an endpoint.
LEMMA SetTargetType ==
    ASSUME NEW e \in Endpoints, NEW t \in Targets
    PROVE  set_target(e, t) \subseteq Endpoints
  BY DEF set_target, Endpoints

\* A Location leads to an endpoint, whose port is the current one or usable.
LEMMA ResolveLocationType ==
    ASSUME NEW e \in Endpoints, NEW r \in Requests, NEW loc \in Locations
    PROVE  resolve_location(e, r, loc) \subseteq Endpoints
  <1>1. [path |-> loc.path, query |-> loc.query] \in Targets
    BY DEF Locations, Targets
  <1>2. parse_absolute_location(loc, e.use_tls) \subseteq Endpoints
    <2> DEFINE tls  == IF loc.form = "scheme_relative" THEN e.use_tls
                       ELSE IF loc.form = "https" THEN 1 ELSE 0
               port == IF loc.port = AbsentPort THEN DefaultPort(tls)
                                                ELSE loc.port
               tgt  == [path |-> loc.path, query |-> loc.query]
               new  == [use_tls |-> tls, port |-> port, host |-> loc.host,
                        target |-> tgt]
    <2>1. tls \in {0, 1}
      BY DEF Endpoints
    <2>2. port \in Int /\ loc.host \in Hosts
      BY DEF DefaultPort, Locations
    <2>3. new \in Endpoints
      BY <1>1, <2>1, <2>2 DEF Endpoints
    <2>4. set_target(new, tgt) \subseteq Endpoints
      BY <1>1, <2>3, SetTargetType
    <2>5. \/ parse_absolute_location(loc, e.use_tls) = {}
          \/ parse_absolute_location(loc, e.use_tls) = set_target(new, tgt)
      BY DEF parse_absolute_location
    <2> QED
      BY <2>4, <2>5
  <1>3. set_target(e, [path |-> loc.path, query |-> loc.query]) \subseteq Endpoints
    BY <1>1, SetTargetType
  <1>4. set_target(e, relative_target(r, loc)) \subseteq Endpoints
    BY RelativeTargetType, SetTargetType
  <1> QED
    BY <1>2, <1>3, <1>4 DEF resolve_location

\* The rewritten request is a request.
LEMMA RewriteType ==
    ASSUME NEW r \in Requests, NEW e \in Endpoints, NEW keep, NEW names
    PROVE  rewrite_get_request_with_policy(r, e, keep, names) \in Requests
  <1>1. endpoint_authority(e) \in Authorities
    BY DEF endpoint_authority, Authorities, Endpoints
  <1>2. /\ r.headers \in SUBSET STRING
        /\ r.headers \ sensitive_headers(names) \in SUBSET STRING
        /\ e.target \in Targets
    BY DEF Requests, Endpoints
  <1> DEFINE kept == IF keep THEN r.headers
                     ELSE r.headers \ sensitive_headers(names)
  <1>3. kept \in SUBSET STRING
    BY <1>2
  <1>4. rewrite_get_request_with_policy(r, e, keep, names) =
           [method |-> "GET", target |-> e.target,
            authority |-> endpoint_authority(e), headers |-> kept]
    BY DEF rewrite_get_request_with_policy
  <1> HIDE DEF kept
  <1> QED
    BY <1>1, <1>2, <1>3, <1>4 DEF Requests, Methods

\* copy_header_value returns a value of one of the lines, or none.
LEMMA CopiedValue ==
    ASSUME NEW lines \in HeaderLines, NEW name
    PROVE  copy_header_value(lines, name) \subseteq Values
  <1> DEFINE L == [name : STRING, value : Values]
  <1>1. lines \in Seq(L)
    BY DEF HeaderLines
  <1>2. DOMAIN lines = 1..Len(lines)
    BY <1>1, LenProperties
  <1>3. \A i \in DOMAIN lines : lines[i] \in L
    BY <1>1, <1>2, ElementOfSeq
  <1>4. \A i \in DOMAIN lines : lines[i].value \in Values
    BY <1>3
  <1> QED
    BY <1>4 DEF copy_header_value

\* A Location header that was found is a Location.
LEMMA LocationType ==
    ASSUME NEW lines \in HeaderLines, has_location(lines)
    PROVE  location(lines) \in Locations
  <1>1. (CHOOSE v \in copy_header_value(lines, "location") : TRUE) \in Values
    BY CopiedValue DEF has_location
  <1> QED
    BY <1>1, ResponseHeadAssumption DEF location

\* A declared length is a number or -1.
LEMMA ContentLengthType ==
    ASSUME NEW lines \in HeaderLines
    PROVE  content_length(lines) \in Nat \cup {-1}
  <1>1. CASE copy_header_value(lines, "content-length") = {}
    BY <1>1 DEF content_length
  <1>2. CASE copy_header_value(lines, "content-length") # {}
    <2>1. (CHOOSE v \in copy_header_value(lines, "content-length") : TRUE)
             \in Values
      BY <1>2, CopiedValue
    <2> QED
      BY <1>2, <2>1, ResponseHeadAssumption DEF content_length
  <1> QED
    BY <1>1, <1>2

-----------------------------------------------------------------------------
(***************************************************************************)
(* The inductive invariant.  ControlInv ties the connection to the control *)
(* point of send_request and to the hop it was opened for; BodyInv counts  *)
(* the bytes of the answer from read_response_head to the return, and says *)
(* that nothing has failed where the code goes on as if nothing had.       *)
(***************************************************************************)
InUse == {"write_body", "head", "hop_failed", "answered", "prefix", "copy",
          "close_output", "metadata"}

ControlInv ==
    /\ pc \in {"enter", "open", "returned"} => opening.stage \in {"closed", "failed"}
    /\ pc = "opening" => opening.stage # "closed"
    /\ pc \in InUse => opening.stage = "open"
    /\ pc \in InUse \cup {"opening"} =>
          /\ opening.host = current.host /\ opening.port = current.port
          /\ opening.use_tls = current.use_tls

NoBody == received = 0 /\ stored = NoFile /\ copied = 0 /\ metadata = NoMetadata

Copying == {"prefix", "copy", "close_output", "metadata"}

\* The answer and what has been made of it so far.
CountInv ==
    /\ pc \in {"enter", "open", "opening", "write_body"} => taken = 0
    /\ pc \in {"head", "answered"} \cup Copying => taken <= wire.size
    /\ pc \in {"answered"} \cup Copying => wire.head_size <= taken
    /\ pc \in {"enter", "open", "opening", "write_body", "head", "hop_failed",
               "answered"} => NoBody
    /\ pc \in Copying => stored >= 0 /\ metadata = NoMetadata
    /\ pc = "prefix" => received = 0 /\ stored = 0
    /\ pc = "copy" => received = taken - wire.head_size /\ stored = received
    /\ pc \in {"close_output", "metadata"} /\ copied = 1 =>
          received = wire.size - wire.head_size /\ stored = received /\ ~wire.endless

AcceptedInv ==
    pc \in Copying /\ call.capture = 1 =>
        /\ ~invalid_framing(wire.lines)
        /\ content_length(wire.lines) <= MAX_CAPTURE_BYTES

CleanInv ==
    /\ pc = "opening" /\ opening.stage = "open" => event = "done"
    /\ pc \in {"write_body", "head", "answered", "prefix", "copy"} =>
          event = "done"
    /\ pc \in {"close_output", "metadata"} /\ copied = 1 => event = "done"

BodyInv ==
    /\ CountInv /\ AcceptedInv /\ CleanInv
    /\ CaptureBounded /\ CapturedIsComplete /\ SuccessIsClean

HopInv == HopsBounded /\ RequestMatchesEndpoint

\* The codes a caller without a capture knows.
StdoutRange == pc = "returned" /\ call.capture = 0 => result \in {0} \cup 2..8

Core == TypeOK /\ ConnInv /\ ControlInv /\ BodyInv /\ StdoutRange

Inv == Core /\ HopInv

\* What the types say of the call and of the answer.
LEMMA CallFacts ==
    ASSUME NEW c \in Calls
    PROVE  /\ c.capture \in {0, 1} /\ c.body_length \in Int
           /\ c.request \in Requests /\ FirstHop(c) \in Endpoints
  <1>1. /\ c.capture \in {0, 1} /\ c.body_length \in Int
        /\ c.request \in Requests /\ c.host \in Hosts /\ c.port \in Int
        /\ c.use_tls \in {0, 1}
    BY TransportAssumption
  <1>2. NoTarget \in Targets
    <2>1. << >> \in Seq(Texts) /\ "" \in Texts
      BY EndpointAssumption, EmptySeq
    <2> QED
      BY <2>1 DEF NoTarget, Targets
  <1> DEFINE t == IF c.request.method = "GET" THEN c.request.target ELSE NoTarget
  <1>3. t \in Targets
    BY <1>1, <1>2 DEF Requests
  <1>4. FirstHop(c) = [use_tls |-> c.use_tls, port |-> c.port, host |-> c.host,
                       target |-> t]
    BY DEF FirstHop
  <1> HIDE DEF t
  <1> QED
    BY <1>1, <1>3, <1>4 DEF Endpoints

\* What the types say of an answer, the missing one included.
LEMMA WireFacts ==
    ASSUME NEW w \in Wires \cup {NoWire}
    PROVE  /\ w.status \in Int /\ w.lines \in HeaderLines
           /\ w.head_size \in Nat \ {0} /\ w.size \in Nat
           /\ content_length(w.lines) \in Nat \cup {-1}
  <1>1. /\ w.status \in Int /\ w.lines \in HeaderLines
        /\ w.head_size \in Nat \ {0} /\ w.size \in Nat
    <2>1. CASE w \in Wires
      BY <2>1, TransportAssumption
    <2>2. CASE w = NoWire
      BY <2>2 DEF NoWire, HeaderLines
    <2> QED
      BY <2>1, <2>2
  <1> QED
    BY <1>1, ContentLengthType

\* A step that leaves the connection alone keeps its invariant.
LEMMA ConnFrame == ConnInv /\ UNCHANGED connvars => ConnInv'
  BY DEF connvars, ConnInv, ConnTypeOK, StageInv, HeldInv, TimeoutIsReported, NoTls,
         ThroughProxy, proxy_configuration

\* An open connection has left connect_tcp.
LEMMA OpenIsPast == opening.stage = "open" => opening.stage \notin Dialling
  BY DEF Dialling

\* The codes one_request ends with, as send_request passes them on.
LEMMA HopResultCodes ==
    ASSUME TypeOK
    PROVE  /\ HopResult(conn.failure_code) \in {4, 5, 7, 11, 12, 13, 14}
           /\ call.capture = 0 => HopResult(conn.failure_code) \in {4, 5, 7}
  BY DEF TypeOK, ConnTypeOK, Connections, HopResult

\* A call that fails keeps its counts, reports no success and, without a
\* capture, none of the codes made for captures.
LEMMA FailureReturns ==
    ASSUME Inv, ConnInv', opening'.stage \in {"closed", "failed"},
           NEW code \in 2..8 \cup 11..14, Return(code),
           call.capture = 0 => code \in 2..8,
           UNCHANGED <<hopvars, wirevars, bodyvars>>
    PROVE  Core'
  <1> USE DEF hopvars, wirevars, bodyvars, Return
  <1>1. TypeOK'
    BY DEF Inv, Core, TypeOK, ConnInv, PCs
  <1>2. ControlInv'
    BY DEF ControlInv, InUse
  <1>3. CountInv' /\ AcceptedInv' /\ CleanInv'
    BY DEF CountInv, AcceptedInv, CleanInv, Copying
  <1>4. CaptureBounded' /\ CapturedIsComplete' /\ SuccessIsClean'
    BY DEF Inv, Core, BodyInv, CaptureBounded, CapturedIsComplete, Captured,
           SuccessIsClean
  <1>5. StdoutRange'
    BY DEF StdoutRange
  <1> QED
    BY <1>1, <1>2, <1>3, <1>4, <1>5 DEF Core, BodyInv

\* What a redirect leads to.
LEMMA FollowRedirectFacts ==
    ASSUME Inv, FollowRedirect
    PROVE  /\ current' \in Endpoints /\ request' \in Requests
           /\ request' = rewrite_get_request_with_policy(
                            request, current', same_origin(current, current'),
                            call.names)
           /\ request.method = "GET" /\ redirects < MAX_REDIRECTS
           /\ redirects' = redirects + 1 /\ call' = call
  <1>1. /\ current \in Endpoints /\ request \in Requests
        /\ wire \in Wires \cup {NoWire}
    BY DEF Inv, Core, TypeOK
  <1>2. wire.lines \in HeaderLines /\ has_location(wire.lines)
    BY <1>1, WireFacts DEF FollowRedirect, can_follow
  <1>3. location(wire.lines) \in Locations
    BY <1>2, LocationType
  <1>4. NextEndpoint \subseteq Endpoints
    BY <1>1, <1>3, ResolveLocationType DEF NextEndpoint
  <1>5. PICK next \in NextEndpoint :
           /\ request' = rewrite_get_request_with_policy(
                            request, next, same_origin(current, next),
                            call.names)
           /\ current' = next
    BY DEF FollowRedirect
  <1>6. request' \in Requests
    BY <1>1, <1>4, <1>5, RewriteType
  <1> QED
    BY <1>4, <1>5, <1>6 DEF FollowRedirect, can_follow, WithinLimit

\* The bound on the hops, and the request that says where it goes.
LEMMA HopStep == Inv /\ [Next]_vars => HopInv'
  <1> SUFFICES ASSUME Inv, [Next]_vars PROVE HopInv'
    OBVIOUS
  <1>0. HopsBounded /\ RequestMatchesEndpoint /\ redirects \in Nat
    BY DEF Inv, HopInv, Core, TypeOK
  <1>1. CASE NextCall
    BY <1>1, TransportAssumption
    DEF NextCall, HopInv, HopsBounded, RequestMatchesEndpoint
  <1>2. CASE FollowRedirect
    <2>1. HopsBounded'
      BY <1>0, <1>2, FollowRedirectFacts, TransportAssumption DEF HopsBounded
    <2>2. /\ request'.method = "GET" /\ request'.target = current'.target
          /\ request'.authority = endpoint_authority(current')
      BY <1>2, FollowRedirectFacts DEF rewrite_get_request_with_policy
    <2>3. RequestMatchesEndpoint'
      BY <2>2 DEF RequestMatchesEndpoint, endpoint_authority
    <2> QED
      BY <2>1, <2>3 DEF HopInv
  <1>3. CASE UNCHANGED hopvars
    BY <1>0, <1>3 DEF hopvars, HopInv, HopsBounded, RequestMatchesEndpoint
  <1> QED
    BY <1>1, <1>2, <1>3, HopKept

-----------------------------------------------------------------------------
\* One lemma for each action, or for the actions that end a call in failure.

\* A new call starts with nothing of the last one but errno.
LEMMA NextCallStep == Inv /\ NextCall => Core'
  <1> SUFFICES ASSUME Inv, NextCall PROVE Core'
    OBVIOUS
  <1>1. ConnInv' /\ opening' = opening
    <2>1. UNCHANGED <<proxy_env, errno, conn, opening, held>> /\ event' = "none"
      BY DEF NextCall
    <2> QED
      BY <2>1
      DEF Inv, Core, ConnInv, ConnTypeOK, StageInv, HeldInv, TimeoutIsReported, NoTls,
          ThroughProxy, proxy_configuration
  <1>2. TypeOK'
    <2>1. call' \in Calls /\ current' \in Endpoints /\ request' \in Requests
      BY CallFacts DEF NextCall
    <2>2. metadata' \in [status : Int, declared : Int, received : Int]
      BY DEF NextCall, NoMetadata
    <2> QED
      BY <1>1, <2>1, <2>2 DEF NextCall, TypeOK, ConnInv, PCs
  <1>3. ControlInv'
    BY <1>1 DEF Inv, Core, ControlInv, InUse, NextCall
  <1>4. CountInv' /\ AcceptedInv' /\ CleanInv'
    BY DEF NextCall, CountInv, AcceptedInv, CleanInv, Copying, NoBody
  <1>5. CaptureBounded'
    BY TransportAssumption DEF NextCall, CaptureBounded, NoFile
  <1>6. CapturedIsComplete' /\ SuccessIsClean' /\ StdoutRange'
    BY DEF NextCall, CapturedIsComplete, Captured, SuccessIsClean,
           StdoutRange
  <1> QED
    BY <1>1, <1>2, <1>3, <1>4, <1>5, <1>6 DEF Core, BodyInv

\* The actions that end the call with a code of its own.
LEMMA FailingStep ==
    ASSUME Inv,
           \/ Enter /\ pc' = "returned"
           \/ OutOfMemory \/ OpenFailed \/ HopFailed \/ WriteFails
           \/ RedirectFails \/ RefuseResponse \/ OutputFails
    PROVE  Core'
  <1> USE DEF Inv, Core
  <1>0. event \in Events /\ ConnTypeOK
    BY DEF TypeOK, ConnTypeOK, Events
  <1>1. CASE Enter /\ pc' = "returned"
    <2>1. UNCHANGED <<connvars, hopvars, wirevars, bodyvars>>
      BY <1>1 DEF Enter
    <2>2. ConnInv' /\ opening'.stage \in {"closed", "failed"}
      BY <1>1, <2>1, ConnFrame DEF ControlInv, Enter, connvars
    <2>3. Return(2) \/ Return(3)
      BY <1>1 DEF Enter
    <2> QED
      BY <2>1, <2>2, <2>3, FailureReturns
  <1>2. CASE OutOfMemory
    <2>1. ConnInv' /\ opening'.stage \in {"closed", "failed"}
      BY <1>2, ConnFrame DEF ControlInv, OutOfMemory, connvars
    <2> QED
      BY <1>2, <2>1, FailureReturns DEF OutOfMemory
  <1>3. CASE OpenFailed
    <2>1. ConnInv' /\ opening'.stage \in {"closed", "failed"}
      BY <1>3, ConnFrame DEF OpenFailed, connvars
    <2> QED
      BY <1>3, <2>1, HopResultCodes, FailureReturns DEF OpenFailed
  <1>4. CASE HopFailed
    <2>1. ConnInv' /\ opening'.stage \in {"closed", "failed"}
      BY <1>0, <1>4, CloseConnectionInv, OpenIsPast DEF HopFailed, ControlInv, InUse
    <2> QED
      BY <1>4, <2>1, HopResultCodes, FailureReturns DEF HopFailed
  <1>5. CASE WriteFails
    <2>1. /\ conn' = NoConnection(conn.failure_code)
          /\ opening' = [opening EXCEPT !.stage = "closed"]
          /\ proxy_env' = proxy_env
      BY <1>5 DEF WriteFails
    <2>2. errno' \in Errnos /\ event' \in Events
      BY <1>0, <1>5 DEF WriteFails, ConnTypeOK, Errnos, TimeoutErrnos, Events
    <2>3. opening.stage \notin Dialling
      BY <1>5 DEF WriteFails, Writing, ControlInv, InUse, Dialling
    <2>4. held' = Nothing
      BY <1>5, <2>3, ReleasedIsAll DEF WriteFails
    <2>5. /\ opening' = [opening EXCEPT !.stage = "closed", !.addresses = opening.addresses]
          /\ opening'.stage = "closed" /\ opening.addresses \in Nat
          /\ conn.failure_code \in Codes
      BY <1>0, <2>1 DEF ConnTypeOK, Openings, Connections, Codes
    <2>6. ConnInv'
      BY <1>0, <2>1, <2>2, <2>4, <2>5, EmptyInv
    <2> QED
      BY <1>5, <2>5, <2>6, FailureReturns DEF WriteFails
  <1>6. CASE RedirectFails
    <2>1. ConnInv' /\ opening'.stage \in {"closed", "failed"}
      BY <1>0, <1>6, CloseConnectionInv, OpenIsPast DEF RedirectFails, ControlInv, InUse
    <2> QED
      BY <1>6, <2>1, FailureReturns DEF RedirectFails
  <1>7. CASE RefuseResponse
    <2>1. ConnInv' /\ opening'.stage \in {"closed", "failed"}
      BY <1>0, <1>7, CloseConnectionInv, OpenIsPast DEF RefuseResponse, ControlInv, InUse
    <2>2. (Return(13) \/ Return(12)) /\ call.capture # 0
      BY <1>7 DEF RefuseResponse
    <2> QED
      BY <1>7, <2>1, <2>2, FailureReturns DEF RefuseResponse
  <1>8. CASE OutputFails
    <2>1. ConnInv' /\ opening'.stage \in {"closed", "failed"}
      BY <1>8, CloseConnectionInv, OpenIsPast
      DEF OutputFails, Events, Accepted, ControlInv, InUse
    <2> QED
      BY <1>8, <2>1, FailureReturns DEF OutputFails
  <1> QED
    BY <1>1, <1>2, <1>3, <1>4, <1>5, <1>6, <1>7, <1>8

\* While a call runs, nothing is said about what it returned.
LEMMA StillRunning ==
    ASSUME pc' # "returned", TypeOK', ConnInv', ControlInv', CountInv',
           AcceptedInv', CleanInv', CaptureBounded'
    PROVE  Core'
  BY DEF Core, BodyInv, CapturedIsComplete, Captured, SuccessIsClean,
         StdoutRange

\* The steps up to the answer leave the body alone.
LEMMA BeforeAnswer ==
    ASSUME Inv, ConnInv', ControlInv', CleanInv',
           pc \in {"enter", "open", "opening", "write_body"},
           pc' \in {"open", "opening", "write_body", "head"},
           wire' \in Wires \cup {NoWire}, peer' \in {"live", "stalled"},
           UNCHANGED <<hopvars, taken, bodyvars, result>>
    PROVE  Core'
  <1> USE DEF hopvars, bodyvars
  <1>1. TypeOK'
    BY DEF Inv, Core, TypeOK, ConnInv, PCs
  <1>2. wire'.size \in Nat /\ taken = 0
    BY WireFacts DEF Inv, Core, BodyInv, CountInv
  <1>3. CountInv' /\ AcceptedInv'
    BY <1>2 DEF Inv, Core, BodyInv, CountInv, AcceptedInv, Copying, NoBody
  <1>4. CaptureBounded'
    BY DEF Inv, Core, BodyInv, CaptureBounded
  <1> QED
    BY <1>1, <1>3, <1>4, StillRunning

\* A call whose arguments are accepted.
LEMMA EnterStep == Inv /\ Enter /\ pc' # "returned" => Core'
  <1> SUFFICES ASSUME Inv, Enter, pc' # "returned" PROVE Core'
    OBVIOUS
  <1> USE DEF Inv, Core
  <1>1. /\ pc' = "open" /\ pc = "enter"
        /\ UNCHANGED <<connvars, hopvars, wirevars, bodyvars, result>>
    BY DEF Enter, Return
  <1>2. ConnInv' /\ opening' = opening /\ event' = event
    BY <1>1, ConnFrame DEF connvars
  <1>3. ControlInv' /\ CleanInv'
    BY <1>1, <1>2 DEF ControlInv, CleanInv, InUse
  <1> QED
    BY <1>1, <1>2, <1>3, BeforeAnswer DEF TypeOK, wirevars

\* open_connection is entered for the endpoint of the hop.
LEMMA OpenHopStep == Inv /\ OpenHop => Core'
  <1> SUFFICES ASSUME Inv, OpenHop PROVE Core'
    OBVIOUS
  <1> USE DEF Inv, Core
  <1>1. /\ current.host \in Hosts /\ current.port \in Int
        /\ current.use_tls \in {0, 1}
    BY DEF TypeOK, Endpoints
  <1>2. ConnInv'
    BY <1>1, StartOpenInv DEF OpenHop
  <1>3. /\ opening'.host = current.host /\ opening'.port = current.port
        /\ opening'.use_tls = current.use_tls
        /\ opening'.stage \in {"failed", "resolve"}
    BY DEF OpenHop, StartOpen
  <1>4. ControlInv' /\ CleanInv'
    BY <1>3 DEF OpenHop, ControlInv, CleanInv, InUse, hopvars
  <1> QED
    BY <1>2, <1>4, BeforeAnswer DEF OpenHop, TypeOK, wirevars

\* The steps of open_connection.
LEMMA OpeningStep == Inv /\ Opening => Core'
  <1> SUFFICES ASSUME Inv, Opening PROVE Core'
    OBVIOUS
  <1> USE DEF Inv, Core
  <1>1. ConnInv'
    BY OpenStepInv DEF Opening
  <1>2. /\ opening'.host = opening.host /\ opening'.port = opening.port
        /\ opening'.use_tls = opening.use_tls
        /\ opening'.stage # "closed"
        /\ opening'.stage = "open" => event' = "done"
    BY OpenStepKeeps DEF Opening, TypeOK
  <1>3. ControlInv' /\ CleanInv'
    BY <1>2 DEF Opening, ControlInv, CleanInv, InUse, hopvars
  <1> QED
    BY <1>1, <1>3, BeforeAnswer DEF Opening, TypeOK, wirevars

\* A write that is retried, and a peer that stops reading.
LEMMA WriteRetriesStep == Inv /\ (WriteRetries \/ PeerStalls) => Core'
  <1> SUFFICES ASSUME Inv, WriteRetries \/ PeerStalls PROVE Core'
    OBVIOUS
  <1> USE DEF Inv, Core
  <1>1. /\ UNCHANGED <<proxy_env, conn, opening, event, held, pc, hopvars, wire,
                       taken, bodyvars, result>>
        /\ errno' \in {errno, "EAGAIN"}
        /\ peer' \in {peer, "stalled"}
        /\ pc \in {"opening", "write_body"}
    BY DEF WriteRetries, PeerStalls, connvars, wirevars, Writing
  <1>2. ConnInv'
    BY <1>1
    DEF ConnInv, ConnTypeOK, Errnos, StageInv, HeldInv, TimeoutIsReported, NoTls,
        ThroughProxy, proxy_configuration
  <1>3. ControlInv' /\ CleanInv'
    BY <1>1 DEF ControlInv, BodyInv, CleanInv, hopvars, bodyvars
  <1> QED
    BY <1>1, <1>2, <1>3, BeforeAnswer DEF TypeOK

\* write_all succeeds for the headers or the body.
LEMMA WriteStep == Inv /\ Write => Core'
  <1> SUFFICES ASSUME Inv, Write PROVE Core'
    OBVIOUS
  <1> USE DEF Inv, Core
  <1>1. /\ opening.stage = "open" /\ pc \in {"opening", "write_body"}
        /\ pc' \in {"write_body", "head"} /\ event = "done"
        /\ UNCHANGED <<proxy_env, errno, opening, event, held, hopvars, peer,
                       taken, bodyvars, result>>
    BY DEF Write, Writing, ControlInv, InUse, BodyInv, CleanInv
  <1>2. wire' \in Wires \cup {NoWire}
    BY DEF Write, TypeOK
  <1>3. ConnInv'
    <2>1. CASE conn' = conn
      BY <1>1, <2>1, ConnFrame DEF connvars
    <2>2. CASE conn' = [conn EXCEPT !.failure_code = 13]
      BY <1>1, <2>2, FailureCodeInv DEF TypeOK, ConnTypeOK, Codes, Events
    <2> QED
      BY <2>1, <2>2 DEF Write
  <1>4. ControlInv' /\ CleanInv'
    BY <1>1 DEF ControlInv, CleanInv, InUse, hopvars
  <1> QED
    BY <1>1, <1>2, <1>3, <1>4, BeforeAnswer DEF TypeOK

\* What one read returns keeps the count within what the peer sends.
LEMMA ReadsBounded ==
    ASSUME TypeOK, taken <= wire.size, NEW k \in Reads
    PROVE  k \in Nat \ {0} /\ taken + k \in Nat /\ taken + k <= wire.size
  <1>1. wire.size \in Nat /\ taken \in Nat /\ READ_BYTES \in Nat
    BY WireFacts, TransportAssumption DEF TypeOK
  <1> QED
    BY <1>1 DEF Reads

\* The steps that read the head.
LEMMA HeadStep == Inv /\ (ReadHead \/ HeadTruncated \/ HeadReadFails) => Core'
  <1> SUFFICES ASSUME Inv, ReadHead \/ HeadTruncated \/ HeadReadFails
               PROVE  Core'
    OBVIOUS
  <1> USE DEF Inv, Core
  <1>0. /\ pc = "head" /\ opening.stage = "open" /\ event = "done" /\ NoBody
        /\ taken <= wire.size
        /\ UNCHANGED <<hopvars, peer, wire, bodyvars, result>>
        /\ opening' = opening
    BY DEF ReadHead, HeadTruncated, HeadReadFails, ReadFails, wirevars,
           connvars, ControlInv, InUse, BodyInv, CountInv, CleanInv
  <1>1. ConnInv'
    <2>1. CASE HeadReadFails
      BY <2>1, ReadFailsInv DEF HeadReadFails
    <2>2. CASE ReadHead \/ HeadTruncated
      BY <2>2, ConnFrame DEF ReadHead, HeadTruncated
    <2> QED
      BY <2>1, <2>2
  <1>2. /\ pc' \in {"head", "hop_failed", "answered"}
        /\ taken' \in Nat /\ taken' <= wire.size
        /\ pc' = "answered" => taken' >= wire.head_size
        /\ pc' # "hop_failed" => event' = "done"
    <2>1. CASE ReadHead
      <3>1. PICK k \in Reads :
               /\ taken' = taken + k
               /\ \/ HeadFails
                  \/ UNCHANGED pc
                  \/ ~(taken' < wire.head_size) /\ pc' = "answered"
        BY <2>1 DEF ReadHead
      <3>2. taken' \in Nat /\ taken' <= wire.size
        BY <1>0, <3>1, ReadsBounded
      <3>3. wire.head_size \in Nat
        BY WireFacts DEF TypeOK
      <3>4. event' = "done"
        BY <1>0, <2>1 DEF ReadHead, connvars
      <3> QED
        BY <1>0, <3>1, <3>2, <3>3, <3>4 DEF HeadFails
    <2>2. CASE HeadTruncated \/ HeadReadFails
      BY <1>0, <2>2
      DEF HeadTruncated, HeadReadFails, HeadFails, wirevars, TypeOK
    <2> QED
      BY <2>1, <2>2
  <1>3. TypeOK'
    BY <1>0, <1>1, <1>2 DEF TypeOK, ConnInv, PCs, hopvars, bodyvars
  <1>4. ControlInv'
    BY <1>0, <1>2 DEF ControlInv, InUse, hopvars
  <1>5. CountInv'
    BY <1>0, <1>2 DEF CountInv, Copying, NoBody, bodyvars
  <1>6. AcceptedInv' /\ CleanInv'
    BY <1>0, <1>2 DEF AcceptedInv, CleanInv, Copying
  <1>7. CaptureBounded'
    BY <1>0 DEF BodyInv, CaptureBounded, hopvars, bodyvars
  <1> QED
    BY <1>1, <1>2, <1>3, <1>4, <1>5, <1>6, <1>7, StillRunning

\* A redirect closes the connection before the next hop.
LEMMA FollowRedirectStep == Inv /\ FollowRedirect => Core'
  <1> SUFFICES ASSUME Inv, FollowRedirect PROVE Core'
    OBVIOUS
  <1> USE DEF Inv, Core
  <1>0. /\ pc = "answered" /\ pc' = "open" /\ wire' = NoWire /\ taken' = 0
        /\ NoBody /\ event' = event
        /\ UNCHANGED <<call, peer, bodyvars, result>>
    BY DEF FollowRedirect, BodyInv, CountInv
  <1>1. ConnInv' /\ opening'.stage = "closed"
    BY <1>0, CloseConnectionInv, OpenIsPast
    DEF FollowRedirect, TypeOK, ConnTypeOK, Events, ControlInv, InUse
  <1>s. strayed' \in BOOLEAN
    BY Zenon DEF FollowRedirect
  <1>2. TypeOK'
    BY <1>0, <1>1, <1>s, FollowRedirectFacts DEF TypeOK, ConnInv, PCs, bodyvars
  <1>3. ControlInv'
    BY <1>0, <1>1 DEF ControlInv, InUse
  <1>4. CountInv' /\ AcceptedInv' /\ CleanInv'
    BY <1>0 DEF CountInv, AcceptedInv, CleanInv, Copying, NoBody, bodyvars
  <1>5. CaptureBounded'
    BY <1>0 DEF BodyInv, CaptureBounded, bodyvars
  <1> QED
    BY <1>0, <1>1, <1>2, <1>3, <1>4, <1>5, StillRunning

\* The answer is accepted and its output opened.
LEMMA OpenOutputStep == Inv /\ OpenOutput => Core'
  <1> SUFFICES ASSUME Inv, OpenOutput PROVE Core'
    OBVIOUS
  <1> USE DEF Inv, Core
  <1>0. /\ pc = "answered" /\ pc' = "prefix" /\ stored' = 0 /\ NoBody
        /\ taken <= wire.size /\ wire.head_size <= taken /\ event = "done"
        /\ UNCHANGED <<connvars, hopvars, wirevars, received, copied, metadata,
                       result>>
    BY DEF OpenOutput, Accepted, BodyInv, CountInv, CleanInv
  <1>1. ConnInv'
    BY <1>0, ConnFrame
  <1>2. TypeOK'
    BY <1>0, <1>1 DEF TypeOK, ConnInv, PCs, hopvars, wirevars
  <1>3. ControlInv'
    BY <1>0 DEF ControlInv, InUse, hopvars, connvars
  <1>4. CountInv' /\ CleanInv'
    BY <1>0 DEF CountInv, CleanInv, Copying, NoBody, wirevars, connvars
  <1>5. AcceptedInv'
    BY <1>0 DEF OpenOutput, Accepted, AcceptedInv, hopvars, wirevars
  <1>6. CaptureBounded'
    BY <1>0, TransportAssumption DEF CaptureBounded
  <1> QED
    BY <1>0, <1>1, <1>2, <1>3, <1>4, <1>5, <1>6, StillRunning

\* Both copying steps hand n bytes on, with which the count of received bytes
\* again equals the bytes read past the head.
LEMMA CopyStep == Inv /\ (CopyPrefix \/ CopyBody) => Core'
  <1> SUFFICES ASSUME Inv, CopyPrefix \/ CopyBody PROVE Core'
    OBVIOUS
  <1> USE DEF Inv, Core
  <1>0. /\ pc \in {"prefix", "copy"} /\ opening.stage = "open"
        /\ event = "done" /\ stored = received /\ received \in Nat
        /\ taken <= wire.size /\ wire.head_size <= taken /\ taken \in Nat
        /\ metadata = NoMetadata
        /\ UNCHANGED <<proxy_env, errno, opening, held, hopvars, peer, wire,
                       metadata, result>>
    BY DEF CopyPrefix, CopyBody, ControlInv, InUse, BodyInv, CountInv,
           CleanInv, Copying, TypeOK, wirevars
  <1>w. wire.head_size \in Nat /\ wire.size \in Nat
    BY WireFacts DEF TypeOK
  <1>1. PICK n \in Nat :
           /\ taken' \in Nat /\ taken' <= wire.size /\ wire.head_size <= taken'
           /\ received + n = taken' - wire.head_size
           /\ \/ Overflows(n) /\ CopyOverflows
              \/ ~Overflows(n) /\ WriteOutput(n)
    <2>1. CASE CopyPrefix
      <3>1. PrefixLength \in Nat /\ received = 0 /\ taken' = taken
        BY <1>0, <1>w, <2>1
        DEF CopyPrefix, PrefixLength, BodyInv, CountInv, wirevars
      <3> USE <3>1
      <3> WITNESS PrefixLength \in Nat
      <3> QED
        BY <1>0, <1>w, <2>1, <3>1 DEF CopyPrefix, PrefixLength
    <2>2. CASE CopyBody
      <3>1. PICK k \in Reads :
               /\ taken' = taken + k
               /\ \/ Overflows(k) /\ CopyOverflows
                  \/ ~Overflows(k) /\ WriteOutput(k)
        BY <2>2 DEF CopyBody
      <3>2. k \in Nat /\ taken' \in Nat /\ taken' <= wire.size
        BY <1>0, <3>1, ReadsBounded
      <3>3. received = taken - wire.head_size
        BY <2>2 DEF CopyBody, BodyInv, CountInv
      <3> USE <3>2
      <3> WITNESS k \in Nat
      <3> QED
        BY <1>0, <1>w, <3>1, <3>2, <3>3
    <2> QED
      BY <2>1, <2>2
  <1>a. /\ call.capture \in {0, 1} /\ MAX_CAPTURE_BYTES \in Nat
        /\ call' = call
        /\ call.capture = 1 => stored <= MAX_CAPTURE_BYTES
    BY <1>0, CallFacts, TransportAssumption
    DEF TypeOK, hopvars, BodyInv, CaptureBounded
  <1>2. CASE Overflows(n) /\ CopyOverflows
    <2>0. /\ pc' = "close_output" /\ copied' = 0
          /\ conn' = [conn EXCEPT !.failure_code = 12]
          /\ UNCHANGED <<received, stored, event>>
      BY <1>2 DEF CopyOverflows, CopyFails
    <2>1. ConnInv'
      BY <1>0, <2>0, FailureCodeInv DEF TypeOK, ConnTypeOK, Codes, Events
    <2>2. TypeOK'
      BY <1>0, <1>1, <2>0, <2>1 DEF TypeOK, ConnInv, PCs, hopvars
    <2>3. ControlInv'
      BY <1>0, <2>0 DEF ControlInv, InUse, hopvars
    <2>4. CountInv' /\ CleanInv'
      BY <1>0, <1>1, <2>0 DEF CountInv, CleanInv, Copying
    <2>5. AcceptedInv'
      BY <1>0, <1>a, <2>0 DEF BodyInv, AcceptedInv, Copying
    <2>6. CaptureBounded'
      BY <1>a, <2>0 DEF CaptureBounded
    <2> QED
      BY <2>0, <2>1, <2>2, <2>3, <2>4, <2>5, <2>6, StillRunning
  <1>3. CASE ~Overflows(n) /\ WriteOutput(n)
    <2>0. /\ pc' \in {"copy", "close_output"} /\ conn' = conn
          /\ pc' = "copy" => /\ stored' = stored + n /\ received' = received + n
                             /\ copied' = copied /\ event' = event
          /\ pc' = "close_output" => copied' = 0 /\ received' = received
          /\ pc' = "close_output" => stored' \in 0..(stored + n - 1)
          /\ event' \in {"done", "storage"}
      BY <1>0, <1>3 DEF WriteOutput, CopyFails, StorageFails
    <2>1. ConnInv'
      <3>1. /\ event' \in Events
            /\ UNCHANGED <<proxy_env, errno, conn, opening, held>>
        BY <1>0, <2>0 DEF Events
      <3> QED
        BY <1>0, <3>1
        DEF Events, ConnInv, ConnTypeOK, StageInv, HeldInv, TimeoutIsReported, NoTls,
            ThroughProxy, proxy_configuration
    <2>2. received' \in Nat /\ stored' \in Nat /\ copied' \in {0, 1}
      BY <1>0, <2>0 DEF TypeOK
    <2>3. TypeOK'
      BY <1>0, <1>1, <2>0, <2>1, <2>2 DEF TypeOK, ConnInv, PCs, hopvars
    <2>4. ControlInv'
      BY <1>0, <2>0 DEF ControlInv, InUse, hopvars
    <2>5. CountInv' /\ CleanInv'
      BY <1>0, <1>1, <2>0, <2>2 DEF CountInv, CleanInv, Copying
    <2>6. AcceptedInv'
      BY <1>0, <1>a, <2>0 DEF BodyInv, AcceptedInv, Copying
    <2>7. CaptureBounded'
      BY <1>0, <1>3, <1>a, <2>0, <2>2 DEF Overflows, CaptureBounded
    <2> QED
      BY <2>0, <2>1, <2>3, <2>4, <2>5, <2>6, <2>7, StillRunning
  <1> QED
    BY <1>1, <1>2, <1>3

\* More of a body without an end: the counters begin again together.
LEMMA BodyGoesOnStep == Inv /\ BodyGoesOn => Core'
  <1> SUFFICES ASSUME Inv, BodyGoesOn PROVE Core'
    OBVIOUS
  <1> USE DEF Inv, Core
  <1>0. /\ pc = "copy" /\ pc' = "copy" /\ call.capture = 0 /\ taken = wire.size
        /\ taken' = wire.head_size /\ received' = 0 /\ stored' = 0
        /\ UNCHANGED <<connvars, hopvars, peer, wire, copied, metadata, result>>
        /\ metadata = NoMetadata /\ wire.head_size <= taken
    BY DEF BodyGoesOn, BodyInv, CountInv, Copying
  <1>1. ConnInv'
    BY <1>0, ConnFrame
  <1>w. wire.head_size \in Nat
    BY WireFacts DEF TypeOK
  <1>2. TypeOK'
    BY <1>0, <1>1, <1>w DEF TypeOK, ConnInv, hopvars
  <1>3. ControlInv'
    BY <1>0 DEF ControlInv, InUse, hopvars, connvars
  <1>4. CountInv' /\ CleanInv'
    BY <1>0, <1>w DEF CountInv, BodyInv, CleanInv, Copying, connvars
  <1>5. AcceptedInv' /\ CaptureBounded'
    BY <1>0 DEF AcceptedInv, CaptureBounded, hopvars
  <1> QED
    BY <1>0, <1>1, <1>2, <1>3, <1>4, <1>5, StillRunning

\* The steps from the last byte read to the metadata: the counts stand, and a
\* file operation may fail.
LEMMA AfterCopy ==
    ASSUME Inv, ConnInv', opening' = opening,
           pc \in {"copy", "close_output"},
           pc' \in {"close_output", "metadata"},
           UNCHANGED <<hopvars, wirevars, received, metadata, result>>,
           stored' \in 0..stored, copied' \in {0, 1},
           copied' = 1 => /\ stored' = stored /\ event' = "done"
                          /\ received = wire.size - wire.head_size
                          /\ stored = received /\ ~wire.endless
    PROVE  Core'
  <1> USE DEF Inv, Core
  <1>0. /\ stored \in Nat /\ stored' \in Nat /\ stored' <= stored
        /\ taken <= wire.size /\ wire.head_size <= taken
        /\ metadata = NoMetadata /\ opening.stage = "open"
    BY DEF TypeOK, BodyInv, CountInv, Copying, NoFile, ControlInv, InUse
  <1>1. TypeOK'
    BY <1>0 DEF TypeOK, ConnInv, PCs, hopvars, wirevars
  <1>2. ControlInv'
    BY <1>0 DEF ControlInv, InUse, hopvars
  <1>3. CountInv' /\ CleanInv'
    BY <1>0 DEF CountInv, CleanInv, Copying, wirevars
  <1>4. AcceptedInv'
    BY DEF BodyInv, AcceptedInv, Copying, hopvars, wirevars
  <1>5. CaptureBounded'
    BY <1>0, TransportAssumption DEF BodyInv, CaptureBounded, hopvars
  <1> QED
    BY <1>1, <1>2, <1>3, <1>4, <1>5, StillRunning

\* A step that at most turns "done" into "storage" keeps the connection.
LEMMA StorageFrame ==
    ASSUME ConnInv, UNCHANGED <<proxy_env, errno, conn, opening, held>>,
           event' \in {event, "storage"}
    PROVE  ConnInv'
  BY DEF ConnInv, ConnTypeOK, StageInv, HeldInv, TimeoutIsReported, NoTls,
         ThroughProxy, proxy_configuration

\* End of stream and fflush, a failing read, and fclose.
LEMMA CopyEndsStep == Inv /\ (CopyEnds \/ CopyReadFails \/ CloseOutput) => Core'
  <1> SUFFICES ASSUME Inv, CopyEnds \/ CopyReadFails \/ CloseOutput
               PROVE  Core'
    OBVIOUS
  <1> USE DEF Inv, Core
  <1>0. pc \in Copying /\ stored \in Nat
    BY DEF CopyEnds, CopyReadFails, CloseOutput, TypeOK, BodyInv, CountInv,
           Copying, NoFile
  <1>s. stored \in 0..stored
    BY <1>0
  <1>1. CASE CopyEnds
    <2>1. /\ pc = "copy" /\ taken = wire.size /\ event = "done" /\ ~wire.endless
          /\ stored = received /\ received = taken - wire.head_size
      BY <1>1 DEF CopyEnds, EndOfStream, BodyInv, CountInv, CleanInv
    <2>2. /\ UNCHANGED <<proxy_env, errno, conn, opening, held>>
          /\ event' \in {event, "storage"}
      BY <1>1 DEF CopyEnds, StorageFails
    <2>3. ConnInv'
      BY <2>2, StorageFrame
    <2> QED
      BY <1>1, <1>s, <2>1, <2>2, <2>3, AfterCopy
      DEF CopyEnds, CopyFails, StorageFails
  <1>2. CASE CopyReadFails
    <2>1. ConnInv' /\ opening' = opening
      BY <1>2, ReadFailsInv DEF CopyReadFails, ReadFails
    <2> QED
      BY <1>2, <1>s, <2>1, AfterCopy DEF CopyReadFails, CopyFails
  <1>3. CASE CloseOutput
    <2>1. /\ UNCHANGED <<proxy_env, errno, conn, opening, held>>
          /\ event' \in {event, "storage"}
      BY <1>3 DEF CloseOutput, StorageFails
    <2>2. ConnInv'
      BY <2>1, StorageFrame
    <2>3. /\ pc = "close_output" /\ copied \in {0, 1}
          /\ copied = 1 => /\ event = "done" /\ stored = received
                           /\ received = wire.size - wire.head_size
                           /\ ~wire.endless
      BY <1>3 DEF CloseOutput, TypeOK, BodyInv, CountInv, CleanInv
    <2> QED
      BY <1>3, <1>s, <2>1, <2>2, <2>3, AfterCopy DEF CloseOutput, StorageFails
  <1> QED
    BY <1>1, <1>2, <1>3

\* What send_request's last lines return: a success only of a copy that ended
\* well, with its metadata and, captured, with the declared length.
LEMMA FinalResultFacts ==
    ASSUME TypeOK, NEW written \in BOOLEAN, NEW r, r = FinalResult(written)
    PROVE  /\ r \in 0..14
           /\ call.capture = 0 => r \in {0, 7}
           /\ r \in {0, 10} => copied = 1 /\ written
           /\ r \in {0, 10} /\ call.capture = 1 => ~WrongLength
  <1>1. conn.failure_code \in 0..14
    BY DEF TypeOK, ConnTypeOK, Connections
  <1>2. call.capture \in {0, 1} /\ copied \in {0, 1}
    BY CallFacts DEF TypeOK
  <1>3. conn.failure_code # 0 /\ conn.failure_code # 10
    BY DEF TypeOK, ConnTypeOK, Connections
  <1> QED
    BY <1>1, <1>2, <1>3 DEF FinalResult

\* The metadata and the return.
LEMMA FinishStep == Inv /\ Finish => Core'
  <1> SUFFICES ASSUME Inv, Finish PROVE Core'
    OBVIOUS
  <1> USE DEF Inv, Core
  <1>0. /\ pc = "metadata" /\ pc' = "returned" /\ close_connection
        /\ UNCHANGED <<hopvars, wirevars, received, stored, copied>>
        /\ stored \in Nat /\ taken <= wire.size /\ wire.head_size <= taken
        /\ metadata = NoMetadata
    <2>1. /\ pc = "metadata" /\ pc' = "returned" /\ close_connection
          /\ UNCHANGED <<hopvars, wirevars, received, stored, copied>>
      BY Zenon DEF Finish, Return
    <2> QED
      BY <2>1 DEF TypeOK, BodyInv, CountInv, Copying, NoFile
  <1>1. PICK written \in BOOLEAN :
           /\ result' = FinalResult(written)
           /\ metadata' = IF call.capture = 1 /\ written
                          THEN [status |-> wire.status,
                                declared |-> content_length(wire.lines),
                                received |-> received]
                          ELSE NoMetadata
           /\ written => event' = event
           /\ event' \in {event, "storage"}
    <2>1. call.capture \in {0, 1}
      BY CallFacts DEF TypeOK
    <2>2. CASE /\ metadata' = write_response_metadata
               /\ Return(FinalResult(TRUE))
               /\ UNCHANGED event
      <3> WITNESS TRUE \in BOOLEAN
      <3> QED
        BY <2>1, <2>2 DEF Return, write_response_metadata
    <2>3. CASE /\ event' = IF event = "done" THEN "storage" ELSE event
               /\ Return(FinalResult(FALSE))
               /\ UNCHANGED metadata
      <3> WITNESS FALSE \in BOOLEAN
      <3> QED
        BY <1>0, <2>1, <2>3 DEF Return
    <2> QED
      BY <2>2, <2>3, Zenon DEF Finish
  <1>2. ConnInv' /\ opening'.stage = "closed"
    <2>1. event' \in Events
      BY <1>1 DEF TypeOK, ConnTypeOK, Events
    <2> QED
      BY <1>0, <2>1, CloseConnectionInv, OpenIsPast DEF ControlInv, InUse
  <1>3. /\ result' \in 0..14
        /\ call.capture = 0 => result' \in {0, 7}
        /\ result' \in {0, 10} => copied = 1 /\ written
        /\ result' \in {0, 10} /\ call.capture = 1 => ~WrongLength
    BY <1>1, FinalResultFacts
  <1>4. /\ wire.status \in Int /\ content_length(wire.lines) \in Int
        /\ received \in Int
    BY WireFacts DEF TypeOK
  <1>5. metadata' \in [status : Int, declared : Int, received : Int]
    BY <1>1, <1>4 DEF NoMetadata
  <1>6. TypeOK'
    BY <1>0, <1>2, <1>3, <1>5 DEF TypeOK, ConnInv, PCs, hopvars, wirevars
  <1>7. ControlInv' /\ CountInv' /\ AcceptedInv' /\ CleanInv'
    BY <1>0, <1>2 DEF ControlInv, InUse, CountInv, AcceptedInv, CleanInv, Copying
  <1>8. CaptureBounded' /\ StdoutRange'
    BY <1>0, <1>3 DEF BodyInv, CaptureBounded, StdoutRange, hopvars
  <1>9. SuccessIsClean'
    BY <1>0, <1>1, <1>3 DEF BodyInv, CleanInv, SuccessIsClean
  <1>10. CapturedIsComplete'
    <2> SUFFICES ASSUME Captured' PROVE CapturedIsComplete'
      BY DEF CapturedIsComplete
    <2>1. /\ call.capture = 1 /\ result' \in {0, 10}
          /\ UNCHANGED <<call, wire, stored, received>>
      BY <1>0 DEF Captured, hopvars, wirevars
    <2>2. copied = 1 /\ written /\ ~WrongLength
      BY <1>3, <2>1
    <2>3. /\ stored = received /\ received = wire.size - wire.head_size
          /\ ~wire.endless
      BY <1>0, <2>2 DEF BodyInv, CountInv
    <2>4. stored <= MAX_CAPTURE_BYTES /\ ~invalid_framing(wire.lines)
      BY <1>0, <2>1 DEF BodyInv, CaptureBounded, AcceptedInv, Copying
    <2>5. metadata' = [status |-> wire.status, received |-> stored,
                       declared |-> content_length(wire.lines)]
      BY <1>1, <2>1, <2>2, <2>3
    <2>6. metadata'.declared \in {-1, stored}
      BY <2>2, <2>3, <2>5 DEF WrongLength
    <2> QED
      BY <2>1, <2>3, <2>4, <2>5, <2>6 DEF CapturedIsComplete
  <1> QED
    BY <1>2, <1>6, <1>7, <1>8, <1>9, <1>10 DEF BodyInv

-----------------------------------------------------------------------------
\* Every call starts in the invariant.
LEMMA InitInv == Init => Inv
  <1> SUFFICES ASSUME Init PROVE Inv
    OBVIOUS
  <1>1. ConnInv /\ opening.stage = "closed"
    BY ConnInitInv DEF Init, ConnInit
  <1>2. TypeOK
    <2>1. call \in Calls /\ current \in Endpoints /\ request \in Requests
      BY CallFacts DEF Init
    <2>2. metadata \in [status : Int, declared : Int, received : Int]
      BY DEF Init, NoMetadata
    <2> QED
      BY <1>1, <2>1, <2>2 DEF Init, TypeOK, ConnInv, PCs
  <1>3. ControlInv
    BY <1>1 DEF Init, ControlInv, InUse
  <1>4. CountInv /\ AcceptedInv /\ CleanInv
    BY DEF Init, CountInv, AcceptedInv, CleanInv, Copying, NoBody
  <1>5. CaptureBounded
    BY TransportAssumption DEF Init, CaptureBounded, NoFile
  <1>6. CapturedIsComplete /\ SuccessIsClean /\ StdoutRange
    BY DEF Init, CapturedIsComplete, Captured, SuccessIsClean, StdoutRange
  <1>7. HopInv
    BY TransportAssumption DEF Init, HopInv, HopsBounded, RequestMatchesEndpoint
  <1> QED
    BY <1>1, <1>2, <1>3, <1>4, <1>5, <1>6, <1>7 DEF Inv, Core, BodyInv

\* A step that changes nothing.
LEMMA StutterStep == Inv /\ UNCHANGED vars => Core'
  <1> SUFFICES ASSUME Inv, UNCHANGED vars PROVE Core'
    OBVIOUS
  <1> USE DEF Inv, Core, vars, hopvars, wirevars, bodyvars
  <1>1. ConnInv'
    BY ConnFrame
  <1>2. TypeOK'
    BY <1>1 DEF TypeOK, ConnInv
  <1>3. ControlInv'
    BY DEF ControlInv, connvars
  <1>4. CountInv' /\ AcceptedInv' /\ CleanInv'
    BY DEF BodyInv, CountInv, AcceptedInv, CleanInv, NoBody, connvars
  <1>5. CaptureBounded' /\ CapturedIsComplete' /\ SuccessIsClean'
    BY DEF BodyInv, CaptureBounded, CapturedIsComplete, Captured,
           SuccessIsClean, connvars
  <1>6. StdoutRange'
    BY DEF StdoutRange
  <1> QED
    BY <1>1, <1>2, <1>3, <1>4, <1>5, <1>6 DEF BodyInv

\* The invariant holds throughout every sequence of calls.
THEOREM Invariant == Spec => []Inv
  <1>1. Inv /\ [Next]_vars => Core'
    <2> SUFFICES ASSUME Inv, [Next]_vars PROVE Core'
      OBVIOUS
    <2>1. CASE NextCall
      BY <2>1, NextCallStep
    <2>2. CASE PeerStalls \/ WriteRetries
      BY <2>2, WriteRetriesStep
    <2>3. CASE Enter
      BY <2>3, EnterStep, FailingStep
    <2>4. CASE \/ OutOfMemory \/ OpenFailed \/ HopFailed \/ WriteFails
               \/ RedirectFails \/ RefuseResponse \/ OutputFails
      BY <2>4, FailingStep
    <2>5. CASE OpenHop \/ Opening \/ Write
      BY <2>5, OpenHopStep, OpeningStep, WriteStep
    <2>6. CASE ReadHead \/ HeadTruncated \/ HeadReadFails
      BY <2>6, HeadStep
    <2>7. CASE FollowRedirect \/ OpenOutput
      BY <2>7, FollowRedirectStep, OpenOutputStep
    <2>8. CASE CopyPrefix \/ CopyBody
      BY <2>8, CopyStep
    <2>9. CASE BodyGoesOn \/ CopyEnds \/ CopyReadFails \/ CloseOutput \/ Finish
      BY <2>9, BodyGoesOnStep, CopyEndsStep, FinishStep
    <2>10. CASE UNCHANGED vars
      BY <2>10, StutterStep
    <2> QED
      BY <2>1, <2>2, <2>3, <2>4, <2>5, <2>6, <2>7, <2>8, <2>9, <2>10
      DEF Next, Step
  <1>2. Inv /\ [Next]_vars => Inv'
    BY <1>1, HopStep DEF Inv
  <1> QED
    BY InitInv, <1>2, PTL DEF Spec

\* Every variable keeps its type; the result is one of the documented codes.
THEOREM TypeCorrect == Spec => []TypeOK
  <1>1. Inv => TypeOK
    BY DEF Inv, Core
  <1> QED
    BY <1>1, Invariant, PTL

\* Every hop but the first says in its request where it is sent.
THEOREM RequestsNameTheirEndpoint == Spec => []RequestMatchesEndpoint
  <1>1. Inv => RequestMatchesEndpoint
    BY DEF Inv, HopInv
  <1> QED
    BY <1>1, Invariant, PTL

\* Every hop travels on a connection opened, and under TLS verified, for just
\* the endpoint of that hop.
THEOREM RequestsGoWhereTheySay == Spec => []RequestGoesWhereItSays
  <1>1. Inv => RequestGoesWhereItSays
    <2> SUFFICES ASSUME Inv PROVE RequestGoesWhereItSays
      OBVIOUS
    <2>1. OpenIsAuthentic
      BY ConnInvImplies DEF Inv, Core
    <2> QED
      BY <2>1 DEF Inv, Core, ControlInv, InUse, RequestGoesWhereItSays,
                  Exchanging, Writing
  <1> QED
    BY <1>1, Invariant, PTL

\* However the servers answer, a call makes at most MAX_REDIRECTS more hops,
\* and none for a POST.
THEOREM HopsAreBounded == Spec => []HopsBounded
  <1>1. Inv => HopsBounded
    BY DEF Inv, HopInv
  <1> QED
    BY <1>1, Invariant, PTL

\* Between hops and after the call everything that was acquired is released.
THEOREM HopsReleaseEverything == Spec => []NothingHeldBetweenHops
  <1>1. Inv => NothingHeldBetweenHops
    <2> SUFFICES ASSUME Inv PROVE NothingHeldBetweenHops
      OBVIOUS
    <2>1. FailedHoldsNothing
      BY ConnInvImplies DEF Inv, Core
    <2>2. ASSUME opening.stage \in {"closed", "failed"}
          PROVE  conn = NoConnection(conn.failure_code)
      BY <2>2 DEF Inv, Core, ConnInv, ConnTypeOK, Connections, StageInv, Linked, NoTls,
                  NoConnection
    <2> QED
      BY <2>1, <2>2 DEF Inv, Core, ControlInv, NothingHeldBetweenHops,
                        FailedHoldsNothing
  <1> QED
    BY <1>1, Invariant, PTL

\* A response reported as captured is the whole of what the peer sent.
THEOREM CapturesAreComplete == Spec => []CapturedIsComplete
  <1>1. Inv => CapturedIsComplete
    BY DEF Inv, Core, BodyInv
  <1> QED
    BY <1>1, Invariant, PTL

\* No capture outgrows the limit on the way.
THEOREM CapturesAreBounded == Spec => []CaptureBounded
  <1>1. Inv => CaptureBounded
    BY DEF Inv, Core, BodyInv
  <1> QED
    BY <1>1, Invariant, PTL

\* A success hides no failure of the socket or of a file.
THEOREM SuccessesAreClean == Spec => []SuccessIsClean
  <1>1. Inv => SuccessIsClean
    BY DEF Inv, Core, BodyInv
  <1> QED
    BY <1>1, Invariant, PTL

\* Only a TLS connection fails with the code of TLS.
CodeInv == conn.failure_code = 5 => opening.use_tls = 1

\* A failed connection is reported by its scheme.
SchemeInv ==
    pc = "returned" /\ call.capture = 0 =>
        /\ result = 4 => current.use_tls = 0
        /\ result = 5 => current.use_tls = 1

\* open_connection sets the code of TLS only where TLS was asked for.
LEMMA OpenStepCode == ConnInv /\ CodeInv /\ OpenStep => CodeInv'
  <1> SUFFICES ASSUME ConnInv, CodeInv, OpenStep PROVE CodeInv'
    OBVIOUS
  <1>0. opening'.use_tls = opening.use_tls /\ conn \in Connections
    BY OpenStepKeeps DEF ConnInv, ConnTypeOK
  <1>1. CASE BadPort \/ Resolve \/ MakeSocket \/ AddressFails
    <2>1. conn' = conn \/ \E c \in {4, 11} : conn' = [conn EXCEPT !.failure_code = c]
      BY <1>1 DEF BadPort, Resolve, MakeSocket, AddressFails, NextAddress, ConnectFails
    <2> QED
      BY <1>0, <2>1 DEF CodeInv, Connections
  <1>2. CASE AddressConnects
    <2>1. conn'.failure_code = IF opening.use_tls = 1 /\ ~ThroughProxy
                               THEN 5 ELSE conn.failure_code
      BY <1>0, <1>2 DEF AddressConnects, Connections
    <2> QED
      BY <1>0, <2>1 DEF CodeInv
  <1>3. CASE \/ Tunnel \/ Handshake \/ TlsSetupFails
             \/ TlsContext \/ TlsTrust \/ TlsObject \/ TlsIdentity
    <2>1. opening.stage \in Linked \ {"open"}
      BY <1>3 DEF Tunnel, Handshake, TlsSetupFails, TlsContext, TlsTrust, TlsObject,
                  TlsIdentity, Linked
    <2> QED
      BY <1>0, <2>1 DEF ConnInv, StageInv, CodeInv
  <1> QED
    BY <1>1, <1>2, <1>3 DEF OpenStep

\* The code survives what send_request does with the connection.
LEMMA CodeStep == Inv /\ CodeInv /\ [Next]_vars => CodeInv'
  <1> SUFFICES ASSUME Inv, CodeInv, [Next]_vars PROVE CodeInv'
    OBVIOUS
  <1>0. conn \in Connections /\ opening \in Openings
    BY DEF Inv, Core, TypeOK, ConnTypeOK
  <1>1. CASE OpenHop
    BY <1>1 DEF OpenHop, StartOpen, NoConnection, CodeInv
  <1>2. CASE Opening
    BY <1>2, OpenStepCode DEF Opening, Inv, Core
  <1>3. CASE WriteFails \/ close_connection
    <2>1. /\ conn' = NoConnection(conn.failure_code)
          /\ opening' = [opening EXCEPT !.stage = "closed"]
      BY <1>3 DEF WriteFails, close_connection
    <2>2. conn'.failure_code = conn.failure_code /\ opening'.use_tls = opening.use_tls
      BY <1>0, <2>1 DEF NoConnection, Openings
    <2> QED
      BY <2>2 DEF CodeInv
  <1>4. CASE Write \/ CopyPrefix \/ CopyBody \/ HeadReadFails \/ CopyReadFails
    <2>1. /\ opening' = opening
          /\ \/ conn' = conn
             \/ \E c \in {7, 11, 12, 13} : conn' = [conn EXCEPT !.failure_code = c]
      <3>1. CASE Write
        BY <3>1 DEF Write
      <3>2. CASE CopyPrefix \/ CopyBody
        BY <3>2 DEF CopyPrefix, CopyBody, CopyOverflows, WriteOutput
      <3>3. CASE HeadReadFails \/ CopyReadFails
        BY <3>3 DEF HeadReadFails, CopyReadFails, ReadFails, ReadFailure
      <3> QED
        BY <1>4, <3>1, <3>2, <3>3
    <2> QED
      BY <1>0, <2>1 DEF CodeInv, Connections
  <1>5. CASE UNCHANGED <<conn, opening>>
    BY <1>5 DEF CodeInv
  <1>6. \/ OpenHop \/ Opening \/ WriteFails \/ close_connection
        \/ Write \/ CopyPrefix \/ CopyBody \/ HeadReadFails \/ CopyReadFails
        \/ UNCHANGED <<conn, opening>>
    BY DEF Next, vars, connvars, NextCall, PeerStalls, BodyGoesOn, Step, Enter,
           OutOfMemory, OpenFailed, HopFailed, WriteRetries, ReadHead, HeadTruncated,
           FollowRedirect, RedirectFails, RefuseResponse, OpenOutput, OutputFails,
           CopyEnds, CloseOutput, Finish
  <1> QED
    BY <1>1, <1>2, <1>3, <1>4, <1>5, <1>6

\* Only one_request's failures are 4 or 5, and they are folded by scheme.
LEMMA SchemeStep == Inv /\ CodeInv /\ SchemeInv /\ [Next]_vars => SchemeInv'
  <1> SUFFICES ASSUME Inv, CodeInv, SchemeInv, [Next]_vars,
                      pc' = "returned", call'.capture = 0
               PROVE  /\ result' = 4 => current'.use_tls = 0
                      /\ result' = 5 => current'.use_tls = 1
    BY DEF SchemeInv
  <1>0. current \in Endpoints /\ current.use_tls \in {0, 1} /\ TypeOK
    BY DEF Inv, Core, TypeOK, Endpoints
  <1>1. CASE OpenFailed \/ HopFailed
    <2>1. /\ result' = HopResult(conn.failure_code) /\ UNCHANGED <<call, current>>
          /\ opening.use_tls = current.use_tls
      BY <1>1 DEF OpenFailed, HopFailed, Return, hopvars, Inv, Core, ControlInv, InUse
    <2>2. conn.failure_code \in {4, 5, 7, 11, 12, 13, 14}
      BY <1>0 DEF TypeOK, ConnTypeOK, Connections
    <2> QED
      BY <1>0, <2>1, <2>2 DEF HopResult, CodeInv
  <1>2. CASE Finish
    <2>1. /\ call' = call
          /\ \E written \in BOOLEAN : result' = FinalResult(written)
      BY <1>2, Zenon DEF Finish, Return, hopvars
    <2> QED
      BY <1>0, <2>1, FinalResultFacts
  <1>3. CASE \/ Enter \/ OutOfMemory \/ WriteFails \/ RedirectFails
             \/ RefuseResponse \/ OutputFails
    BY <1>3 DEF Enter, OutOfMemory, WriteFails, RedirectFails, RefuseResponse,
                OutputFails, Return
  <1>4. CASE UNCHANGED vars
    BY <1>4 DEF vars, hopvars, SchemeInv
  <1>5. pc' # "returned" \/ UNCHANGED vars
        \/ Enter \/ OutOfMemory \/ OpenFailed \/ HopFailed \/ WriteFails
        \/ RedirectFails \/ RefuseResponse \/ OutputFails \/ Finish
    BY DEF Next, NextCall, PeerStalls, BodyGoesOn, Step, OpenHop, Opening, Write,
           WriteRetries, Writing, ReadHead, HeadTruncated, HeadReadFails, HeadFails,
           FollowRedirect, OpenOutput, CopyPrefix, CopyBody, CopyOverflows,
           WriteOutput, CopyEnds, CopyReadFails, CopyFails, CloseOutput
  <1> QED
    BY <1>1, <1>2, <1>3, <1>4, <1>5

\* A caller without a capture never sees a code made for captures, and learns of
\* a failed connection, or a proxy's, by the code of the hop's scheme.
THEOREM StdoutCallersKeepTheirCodes == Spec => []StdoutOutcomes
  <1>1. Init => CodeInv /\ SchemeInv
    BY DEF Init, ConnInit, NoConnection, CodeInv, SchemeInv
  <1>2. Inv /\ SchemeInv => StdoutOutcomes
    BY DEF Inv, Core, StdoutRange, SchemeInv, StdoutOutcomes
  <1> QED
    BY <1>1, <1>2, CodeStep, SchemeStep, Invariant, PTL DEF Spec

\* A chain that has not strayed is where it began.
StrayInv == strayed \/ Origin(current) = Origin(FirstHop(call))

\* Whatever chain of redirects a call goes through, one hop of another origin
\* takes the credentials off its requests for good, and nothing else is lost:
\* neither by that hop nor by those within the origin, in whatever spelling.
THEOREM HeadersTheorem == Spec => []HeadersFollowOrigin
  <1> DEFINE HInv == HeadersFollowOrigin /\ StrayInv
  <1>1. Init => HInv
    BY DEF Init, HeadersFollowOrigin, StrayInv, Origin, FirstHop
  <1>2. HInv /\ [Next]_vars => HInv'
    <2> SUFFICES ASSUME HInv, [Next]_vars PROVE HInv'
      OBVIOUS
    <2>1. CASE NextCall
      BY <2>1 DEF NextCall, HeadersFollowOrigin, StrayInv, Origin, FirstHop
    <2>2. CASE FollowRedirect
      <3>1. PICK next \in NextEndpoint :
               /\ request' = rewrite_get_request_with_policy(
                                request, next, same_origin(current, next),
                                call.names)
               /\ current' = next
               /\ strayed' = (strayed \/ Origin(next) # Origin(FirstHop(call)))
        BY <2>2 DEF FollowRedirect
      <3>2. request'.headers = IF Origin(next) = Origin(current)
                               THEN request.headers
                               ELSE request.headers \ Credentials
        BY <2>2, <3>1, RewriteHeaders
      <3>3. call' = call
        BY <2>2 DEF FollowRedirect
      <3>4. Credentials' = Credentials /\ Origin(FirstHop(call))' = Origin(FirstHop(call))
            /\ Origin(current)' = Origin(next)
        BY <3>1, <3>3 DEF Credentials, Origin, FirstHop
      <3>5. StrayInv'
        BY <3>1, <3>4 DEF StrayInv
      <3>6. HeadersFollowOrigin'
        <4>1. CASE strayed
          BY <3>1, <3>2, <3>3, <3>4, <4>1 DEF HeadersFollowOrigin
        <4>2. CASE ~strayed
          BY <3>1, <3>2, <3>3, <3>4, <4>2 DEF HeadersFollowOrigin, StrayInv
        <4> QED
          BY <4>1, <4>2
      <3> QED
        BY <3>5, <3>6
    <2>3. CASE UNCHANGED hopvars
      BY <2>3 DEF hopvars, HeadersFollowOrigin, StrayInv, Origin, FirstHop, Credentials
    <2> QED
      BY <2>1, <2>2, <2>3, HopKept
  <1> QED
    BY <1>1, <1>2, PTL DEF Spec

-----------------------------------------------------------------------------
\* No more is taken of an answer than the peer sends.
TakenInv == taken <= wire.size

\* No read goes beyond the answer, and each hop starts with a new one.
LEMMA TakenStep == Inv /\ TakenInv /\ [Next]_vars => TakenInv'
  <1> SUFFICES ASSUME Inv, TakenInv, [Next]_vars PROVE TakenInv'
    OBVIOUS
  <1>0. /\ TypeOK /\ wire.size \in Nat /\ taken \in Nat
        /\ \A w \in Wires : w.size \in Nat
    BY WireFacts DEF Inv, Core, TypeOK
  <1>1. CASE NextCall \/ FollowRedirect
    BY <1>1 DEF NextCall, FollowRedirect, NoWire, TakenInv
  <1>2. CASE Write
    <2>1. taken = 0 /\ taken' = taken /\ (wire' = wire \/ wire' \in Wires)
      BY <1>2 DEF Write, Writing, Inv, Core, BodyInv, CountInv
    <2> QED
      BY <1>0, <2>1 DEF TakenInv
  <1>3. CASE ReadHead \/ CopyBody
    <2>1. PICK k \in Reads : taken' = taken + k
      BY <1>3 DEF ReadHead, CopyBody
    <2>2. wire' = wire
      BY <1>3 DEF ReadHead, CopyBody
    <2> QED
      BY <1>0, <2>1, <2>2, ReadsBounded DEF TakenInv
  <1>4. CASE UNCHANGED <<wire, taken>>
    BY <1>4 DEF TakenInv
  <1>6. CASE BodyGoesOn
    BY <1>6 DEF BodyGoesOn, Inv, Core, BodyInv, CountInv, Copying, TakenInv
  <1>5. \/ NextCall \/ FollowRedirect \/ Write \/ ReadHead \/ CopyBody \/ BodyGoesOn
        \/ UNCHANGED <<wire, taken>>
    BY DEF Next, vars, wirevars, PeerStalls, Step, Enter, OutOfMemory,
           OpenHop, Opening, OpenFailed, HopFailed, WriteRetries,
           WriteFails, HeadTruncated, HeadReadFails, RedirectFails,
           RefuseResponse, OpenOutput, OutputFails, CopyPrefix,
           CopyEnds, CopyReadFails, CloseOutput, Finish
  <1> QED
    BY <1>1, <1>2, <1>3, <1>4, <1>5, <1>6

\* The ranks in numbers.
LEMMA Ranks ==
    /\ Rank["enter"] = 11 /\ Rank["open"] = 10 /\ Rank["opening"] = 9
    /\ Rank["write_body"] = 8 /\ Rank["head"] = 7 /\ Rank["answered"] = 6
    /\ Rank["prefix"] = 5 /\ Rank["copy"] = 4 /\ Rank["close_output"] = 3
    /\ Rank["metadata"] = 2 /\ Rank["hop_failed"] = 1 /\ Rank["returned"] = 0
  BY DEF Rank

\* The ranks of the stages in numbers.
LEMMA StageRanks ==
    /\ StageRank["resolve"] = 9 + 2 * MaxAddresses /\ StageRank["connect"] = 8
    /\ StageRank["connecting"] = 7 /\ StageRank["tunnel"] = 6
    /\ StageRank["context"] = 5 /\ StageRank["trust"] = 4 /\ StageRank["object"] = 3
    /\ StageRank["identity"] = 2 /\ StageRank["handshake"] = 1
    /\ StageRank["open"] = 0 /\ StageRank["failed"] = 0 /\ StageRank["closed"] = 0
  BY DEF StageRank

\* What is ahead, part by part.
Third ==
    IF pc = "opening" THEN StageRank[opening.stage] + 2 * opening.addresses
                      ELSE wire.size - taken

AheadOk == MAX_REDIRECTS - redirects \in Nat /\ Rank[pc] \in Nat /\ Third \in Nat

\* What is ahead is never less than nothing.
LEMMA AheadNatural == Inv /\ TakenInv => AheadOk
  <1> SUFFICES ASSUME Inv, TakenInv PROVE AheadOk
    OBVIOUS
  <1>1. MAX_REDIRECTS - redirects \in Nat
    BY TransportAssumption DEF Inv, Core, TypeOK, HopInv, HopsBounded
  <1>2. Rank[pc] \in Nat
    <2>1. pc \in PCs
      BY DEF Inv, Core, TypeOK
    <2> QED
      BY <2>1, Ranks DEF PCs
  <1>3. StageRank[opening.stage] + 2 * opening.addresses \in Nat
    <2>1. opening.stage \in Stages /\ opening.addresses \in Nat
      BY DEF Inv, Core, ConnInv, ConnTypeOK, Openings
    <2> QED
      BY <2>1, StageRanks, ConnectionAssumption DEF Stages
  <1>4. wire.size - taken \in Nat
    <2>1. wire.size \in Nat /\ taken \in Nat
      BY WireFacts DEF Inv, Core, TypeOK
    <2> QED
      BY <2>1 DEF TakenInv
  <1> QED
    BY <1>1, <1>2, <1>3, <1>4 DEF Third, AheadOk

\* One stage of open_connection, or one address, is done with.
LEMMA OpenStepAdvances ==
    ASSUME ConnInv, OpenStep
    PROVE  StageRank[opening'.stage] + 2 * opening'.addresses <
              StageRank[opening.stage] + 2 * opening.addresses
  <1> DEFINE Nearer == StageRank[opening'.stage] + 2 * opening'.addresses <
                          StageRank[opening.stage] + 2 * opening.addresses
  <1>0. /\ opening.addresses \in Nat /\ MaxAddresses \in Nat
        /\ opening \in Openings
        /\ opening.stage \in Dialling => opening.addresses > 0
    BY ConnectionAssumption DEF ConnInv, ConnTypeOK, Openings, StageInv
  <1> USE StageRanks
  <1>1. ASSUME opening' = [opening EXCEPT !.stage = "failed", !.addresses = 0],
               opening.stage \in Stages \ {"open", "failed", "closed"}
        PROVE  Nearer
    <2>1. opening'.stage = "failed" /\ opening'.addresses = 0
      BY <1>0, <1>1 DEF Openings
    <2> QED
      BY <1>0, <1>1, <2>1 DEF Stages
  <1>2. ASSUME NEW stage \in Stages, opening' = [opening EXCEPT !.stage = stage],
               StageRank[stage] < StageRank[opening.stage]
        PROVE  Nearer
    <2>1. opening'.stage = stage /\ opening'.addresses = opening.addresses
      BY <1>0, <1>2 DEF Openings
    <2>2. StageRank[stage] \in Nat /\ StageRank[opening.stage] \in Nat
      BY <1>0, <1>2 DEF Openings, Stages
    <2> QED
      BY <1>0, <1>2, <2>1, <2>2
  <1>3. CASE BadPort
    BY <1>1, <1>3 DEF BadPort, ConnectFails, Stages
  <1>4. CASE Resolve
    <2>1. opening.stage = "resolve"
      BY <1>4 DEF Resolve
    <2>2. CASE ConnectFails
      BY <1>1, <2>1, <2>2 DEF ConnectFails, Stages
    <2>3. CASE ~ConnectFails
      <3>1. PICK n \in 1..MaxAddresses :
               opening' = [opening EXCEPT !.stage = "connect", !.addresses = n]
        BY <1>4, <2>3 DEF Resolve
      <3>2. opening'.stage = "connect" /\ opening'.addresses = n
        BY <1>0, <3>1 DEF Openings
      <3> QED
        BY <1>0, <2>1, <3>2
    <2> QED
      BY <2>2, <2>3
  <1>5. ASSUME NEW left, NextAddress(left), opening.stage \in Dialling PROVE Nearer
    <2>1. CASE opening.addresses = 1
      BY <1>1, <1>5, <2>1 DEF NextAddress, ConnectFails, Stages, Dialling
    <2>2. CASE opening.addresses # 1
      <3>1. opening' = [opening EXCEPT !.stage = "connect", !.addresses = @ - 1]
        BY <1>5, <2>2 DEF NextAddress
      <3>2. opening'.stage = "connect" /\ opening'.addresses = opening.addresses - 1
        BY <1>0, <3>1 DEF Openings
      <3> QED
        BY <1>0, <1>5, <3>2 DEF Dialling
    <2> QED
      BY <2>1, <2>2
  <1>6. CASE MakeSocket
    <2>1. opening.stage = "connect"
      BY <1>6 DEF MakeSocket
    <2>2. CASE opening' = [opening EXCEPT !.stage = "connecting"]
      BY <1>2, <2>1, <2>2 DEF Stages
    <2> QED
      BY <1>5, <1>6, <2>1, <2>2 DEF MakeSocket, Dialling
  <1>7. CASE AddressFails
    BY <1>5, <1>7 DEF AddressFails, Dialling
  <1>8. CASE AddressConnects
    <2>1. /\ opening.stage = "connecting" /\ opening'.addresses = 0
          /\ opening'.stage \in {"open", "tunnel", "context"}
      BY <1>0, <1>8 DEF AddressConnects, Openings
    <2> QED
      BY <1>0, <2>1
  <1>9. CASE Tunnel \/ Handshake \/ TlsSetupFails
    <2>1. CASE \E code : OpenFails(code)
      BY <1>1, <1>9, <2>1 DEF Tunnel, Handshake, TlsSetupFails, OpenFails, Stages
    <2>2. CASE ~\E code : OpenFails(code)
      BY <1>2, <1>9, <2>2 DEF Tunnel, Handshake, TlsSetupFails, Stages
    <2> QED
      BY <2>1, <2>2
  <1>10. CASE TlsContext \/ TlsTrust \/ TlsObject \/ TlsIdentity
    BY <1>2, <1>10 DEF TlsContext, TlsTrust, TlsObject, TlsIdentity, Stages
  <1> QED
    BY <1>3, <1>4, <1>6, <1>7, <1>8, <1>9, <1>10 DEF OpenStep

\* Where each step leads.
LEMMA StepMoves ==
    ASSUME Inv, Step, ~FollowRedirect, ~WriteRetries
    PROVE  /\ redirects' = redirects
           /\ \/ Rank[pc'] < Rank[pc]
              \/ pc' = pc /\ pc \in {"head", "copy"} /\ wire' = wire
                 /\ \E k \in Reads : taken' = taken + k
              \/ pc' = pc /\ Opening
  <1>0. pc \in PCs
    BY DEF Inv, Core, TypeOK
  <1>1. redirects' = redirects
    BY HopKept DEF Next, NextCall, Step, hopvars, Enter, OutOfMemory, OpenHop, Opening,
       OpenFailed, HopFailed, Write, WriteFails, ReadHead, HeadTruncated,
       HeadReadFails, RedirectFails, RefuseResponse, OpenOutput, OutputFails,
       CopyPrefix, CopyBody, CopyEnds, CopyReadFails, CloseOutput, Finish
  <1>2. CASE \/ Enter \/ OutOfMemory \/ OpenHop \/ OpenFailed \/ HopFailed \/ WriteFails
             \/ RedirectFails \/ RefuseResponse \/ OpenOutput \/ OutputFails \/ Finish
    <2>1. CASE Enter \/ OpenHop \/ OpenOutput
      BY <1>1, <2>1, Ranks DEF Enter, OpenHop, OpenOutput, Accepted, Return
    <2>2. CASE \/ OutOfMemory \/ OpenFailed \/ HopFailed \/ WriteFails
               \/ RedirectFails \/ RefuseResponse \/ OutputFails \/ Finish
      <3>1. pc' = "returned"
        BY <2>2 DEF OutOfMemory, OpenFailed, HopFailed, WriteFails, RedirectFails,
                    RefuseResponse, OutputFails, Finish, Return
      <3>2. pc \in {"open", "opening", "hop_failed", "write_body", "answered", "metadata"}
        BY <2>2 DEF OutOfMemory, OpenFailed, HopFailed, WriteFails, Writing,
                    RedirectFails, RefuseResponse, OutputFails, Accepted, Finish
      <3> QED
        BY <1>1, <3>1, <3>2, Ranks
    <2> QED
      BY <1>2, <2>1, <2>2
  <1>3. CASE Opening
    BY <1>1, <1>3 DEF Opening
  <1>4. CASE Write
    BY <1>1, <1>4, Ranks DEF Write, Writing
  <1>5. CASE HeadTruncated \/ HeadReadFails \/ CopyEnds \/ CopyReadFails \/ CloseOutput
    BY <1>1, <1>5, Ranks
       DEF HeadTruncated, HeadReadFails, HeadFails, CopyEnds, CopyReadFails, CopyFails,
           CloseOutput
  <1>6. CASE ReadHead
    BY <1>1, <1>6, Ranks DEF ReadHead, HeadFails
  <1>7. CASE CopyPrefix
    BY <1>1, <1>7, Ranks DEF CopyPrefix, CopyOverflows, WriteOutput, CopyFails
  <1>8. CASE CopyBody
    BY <1>1, <1>8, Ranks DEF CopyBody, CopyOverflows, WriteOutput, CopyFails
  <1> QED
    BY <1>2, <1>3, <1>4, <1>5, <1>6, <1>7, <1>8 DEF Step

\* A step of the call brings it nearer to its return.
LEMMA StepAdvances ==
    ASSUME Inv, TakenInv, Inv', TakenInv', Step, ~WriteRetries
    PROVE  Below(Ahead', Ahead)
  <1> DEFINE a == MAX_REDIRECTS - redirects
             b == Rank[pc]
             c == Third
  <1>1. a \in Nat /\ b \in Nat /\ c \in Nat
    BY AheadNatural DEF AheadOk
  <1>2. a' \in Nat /\ b' \in Nat /\ c' \in Nat
    <2>1. (Inv /\ TakenInv => AheadOk)'
      BY AheadNatural, PTL
    <2> QED
      BY <2>1 DEF AheadOk
  <1>3. Ahead = <<a, b, c>> /\ Ahead' = <<a', b', c'>>
    BY DEF Ahead, Third
  <1>4. redirects \in Nat /\ MAX_REDIRECTS \in Nat
    BY TransportAssumption DEF Inv, Core, TypeOK
  <1>5. \/ a' < a
        \/ a' = a /\ b' < b
        \/ a' = a /\ b' = b /\ c' < c
    <2>1. CASE FollowRedirect
      BY <1>4, <2>1 DEF FollowRedirect
    <2>2. CASE ~FollowRedirect
      <3>1. /\ redirects' = redirects
            /\ \/ Rank[pc'] < Rank[pc]
               \/ pc' = pc /\ pc \in {"head", "copy"} /\ wire' = wire
                  /\ \E k \in Reads : taken' = taken + k
               \/ pc' = pc /\ Opening
        BY <2>2, StepMoves
      <3>2. a' = a
        BY <3>1
      <3>3. ASSUME pc' = pc, pc \in {"head", "copy"}, wire' = wire,
                   NEW k \in Reads, taken' = taken + k
            PROVE  b' = b /\ c' < c
        <4>1. k \in Nat \ {0}
          BY <3>3, ReadsBounded DEF Inv, Core, TakenInv
        <4>2. wire.size \in Nat /\ taken \in Nat
          BY WireFacts DEF Inv, Core, TypeOK
        <4>3. c = wire.size - taken /\ c' = wire.size - (taken + k)
          BY <3>3 DEF Third
        <4> QED
          BY <3>3, <4>1, <4>2, <4>3
      <3>4. ASSUME pc' = pc, Opening PROVE b' = b /\ c' < c
        <4>1. pc = "opening" /\ OpenStep /\ ConnInv
          BY <3>4 DEF Opening, Inv, Core
        <4>2. StageRank[opening'.stage] + 2 * opening'.addresses <
                 StageRank[opening.stage] + 2 * opening.addresses
          BY <4>1, OpenStepAdvances
        <4>3. /\ c = StageRank[opening.stage] + 2 * opening.addresses
              /\ c' = StageRank[opening'.stage] + 2 * opening'.addresses
          BY <3>4, <4>1 DEF Third
        <4> QED
          BY <3>4, <4>2, <4>3
      <3> QED
        BY <3>1, <3>2, <3>3, <3>4
    <2> QED
      BY <2>1, <2>2
  <1> HIDE DEF a, b, c
  <1> QED
    BY <1>1, <1>2, <1>3, <1>5 DEF Below

\* Whatever the servers, the resolver and the sockets do, a step of a call takes
\* it down the order of CallAdvances, but for the three steps it names.
THEOREM CallsAdvance == Spec => CallAdvances
  <1> DEFINE Both == Inv /\ TakenInv
             Advance == pc # "returned" =>
                \/ Below(Ahead', Ahead)
                \/ WriteRetries \/ PeerStalls \/ BodyGoesOn
  <1>1. Init => TakenInv
    BY DEF Init, NoWire, TakenInv
  <1>2. Spec => []Both
    BY <1>1, TakenStep, Invariant, PTL DEF Spec
  <1>3. Both /\ Both' /\ [Next]_vars => [Advance]_vars
    BY StepAdvances DEF Next, NextCall
  <1> QED
    BY <1>2, <1>3, PTL DEF Spec, CallAdvances

\* A set of natural numbers has a least one.
LEMMA LeastNumber ==
    ASSUME NEW T \in SUBSET Nat, T # {}
    PROVE  \E x \in T : \A y \in T : x <= y
  <1> DEFINE R == {ss \in Nat \X Nat : ss[1] < ss[2]}
  <1>1. IsWellFoundedOn(R, Nat)
    BY NatLessThanWellFounded, Zenon DEF OpToRel
  <1> HIDE DEF R
  <1>2. PICK x \in T : \A y \in T : ~(<<y, x>> \in R)
    BY <1>1, WFMin
  <1>3. \A y \in T : ~(y < x)
    BY <1>2 DEF R
  <1> QED
    BY <1>3

\* Below is well-founded: among any triples of natural numbers there is one that
\* none of the others is below.  CallsAdvance means something only for that.
LEMMA BelowIsWellFounded ==
    ASSUME NEW S \in SUBSET (Nat \X Nat \X Nat), S # {}
    PROVE  \E x \in S : \A y \in S : ~Below(y, x)
  <1> DEFINE A == {x[1] : x \in S}
  <1>0. \A x \in S : x[1] \in Nat /\ x[2] \in Nat /\ x[3] \in Nat
    OBVIOUS
  <1>1. PICK a \in A : \A y \in A : a <= y
    <2>1. A \in SUBSET Nat /\ A # {}
      BY <1>0
    <2> QED
      BY <2>1, LeastNumber
  <1> DEFINE U == {x \in S : x[1] = a}
             B == {x[2] : x \in U}
  <1>2. PICK b \in B : \A y \in B : b <= y
    <2>1. B \in SUBSET Nat /\ B # {}
      BY <1>0, <1>1
    <2> QED
      BY <2>1, LeastNumber
  <1> DEFINE V == {x \in U : x[2] = b}
             C == {x[3] : x \in V}
  <1>3. PICK c \in C : \A y \in C : c <= y
    <2>1. C \in SUBSET Nat /\ C # {}
      BY <1>0, <1>2
    <2> QED
      BY <2>1, LeastNumber
  <1>4. PICK x \in V : x[3] = c
    BY <1>3
  <1>5. x \in S /\ x[1] = a /\ x[2] = b
    BY <1>4
  <1>6. ASSUME NEW y \in S PROVE ~Below(y, x)
    <2>1. y[1] \in Nat /\ y[2] \in Nat /\ y[3] \in Nat
      BY <1>0
    <2>2. a \in Nat /\ b \in Nat /\ c \in Nat
      BY <1>0, <1>4, <1>5
    <2>3. a <= y[1]
      BY <1>1
    <2>4. y[1] = a => b <= y[2]
      BY <1>2
    <2>5. y[1] = a /\ y[2] = b => c <= y[3]
      BY <1>3
    <2> HIDE DEF A, B, C, U, V
    <2> QED
      BY <1>4, <1>5, <2>1, <2>2, <2>3, <2>4, <2>5 DEF Below
  <1> QED
    BY <1>5, <1>6

-----------------------------------------------------------------------------
\* An endpoint that fits the buffers of an endpoint record.
Fits(e) == e.host \notin LongHosts /\ TargetLength(e.target) < MAX_TARGET_BYTES

FitInv ==
    pc \notin {"enter", "returned"} =>
        /\ current.host \notin LongHosts
        /\ request.method = "GET" => Fits(current)

\* A target is set only if it fits.
LEMMA SetTargetFits ==
    ASSUME NEW e \in Endpoints, NEW t \in Targets, e.host \notin LongHosts,
           NEW n \in set_target(e, t)
    PROVE  Fits(n)
  <1>1. TargetLength(t) \in Int
    BY DEF TargetLength, Targets
  <1>2. ~(TargetLength(t) >= MAX_TARGET_BYTES) /\ n = [e EXCEPT !.target = t]
    BY DEF set_target
  <1>3. n.host = e.host /\ n.target = t
    BY <1>2 DEF Endpoints
  <1> QED
    BY <1>1, <1>2, <1>3, RedirectAssumption DEF Fits

\* Whatever a Location says, the endpoint it leads to fits.
LEMMA ResolvedFits ==
    ASSUME NEW e \in Endpoints, e.host \notin LongHosts, NEW r \in Requests,
           NEW l \in Locations, NEW n \in resolve_location(e, r, l)
    PROVE  Fits(n)
  <1> DEFINE t == [path |-> l.path, query |-> l.query]
  <1>1. t \in Targets
    BY DEF Locations, Targets
  <1>2. CASE l.form \in AbsoluteForms
    <2> DEFINE use_tls == IF l.form = "scheme_relative" THEN e.use_tls
                          ELSE IF l.form = "https" THEN 1 ELSE 0
               port == IF l.port = AbsentPort THEN DefaultPort(use_tls) ELSE l.port
               m == [use_tls |-> use_tls, port |-> port, host |-> l.host, target |-> t]
    <2>1. n \in parse_absolute_location(l, e.use_tls)
      BY <1>2 DEF resolve_location, AbsoluteForms
    <2>2. l.host \notin LongHosts /\ n \in set_target(m, t)
      BY <2>1 DEF parse_absolute_location
    <2>3. use_tls \in {0, 1} /\ port \in Int /\ l.host \in Hosts
      BY DEF Locations, Endpoints, DefaultPort
    <2>4. m \in Endpoints /\ m.host = l.host
      BY <1>1, <2>3 DEF Endpoints
    <2> HIDE DEF m, t
    <2> QED
      BY <1>1, <2>2, <2>4, SetTargetFits
  <1>3. CASE l.form = "root"
    <2>1. n \in set_target(e, t)
      BY <1>3 DEF resolve_location, AbsoluteForms
    <2> HIDE DEF t
    <2> QED
      BY <1>1, <2>1, SetTargetFits
  <1>4. CASE l.form \notin AbsoluteForms /\ l.form # "root"
    <2>1. n \in set_target(e, relative_target(r, l))
      BY <1>4 DEF resolve_location
    <2>2. relative_target(r, l) \in Targets
      BY RelativeTargetType
    <2> QED
      BY <2>1, <2>2, SetTargetFits
  <1> QED
    BY <1>2, <1>3, <1>4

\* A call begins with the endpoint and the request it was given.
StartInv == pc = "enter" => current = FirstHop(call) /\ request = call.request

\* Only a new call enters send_request, and only Enter leaves its beginning.
LEMMA EntersOnce ==
    ASSUME Inv, [Next]_vars
    PROVE  \/ NextCall \/ Enter \/ UNCHANGED <<pc, hopvars>>
           \/ pc \notin {"enter", "returned"} /\ pc' # "enter"
  BY DEF Next, vars, PeerStalls, BodyGoesOn, Step, OutOfMemory,
         OpenHop, Opening, OpenFailed, HopFailed, Write, WriteRetries,
         WriteFails, Writing, ReadHead, HeadTruncated, HeadReadFails, HeadFails,
         FollowRedirect, RedirectFails, RefuseResponse, OpenOutput, OutputFails,
         Accepted, CopyPrefix, CopyBody, CopyOverflows, WriteOutput, CopyFails,
         CopyEnds, CopyReadFails, CloseOutput, Finish, Return

\* Every hop's host, and the target of a GET, fit the fixed buffers of the endpoint
\* record, whatever chain of Locations led there; the length of the host is what
\* RewriteBuffer assumes of the endpoints it rewrites for.
THEOREM HopsFitTheirBuffers == Spec => []FitInv
  <1>1. Init => StartInv /\ FitInv
    BY DEF Init, StartInv, FitInv
  <1>2. Inv /\ StartInv /\ [Next]_vars => StartInv'
    <2> SUFFICES ASSUME Inv, StartInv, [Next]_vars PROVE StartInv'
      OBVIOUS
    <2>1. CASE NextCall
      BY <2>1 DEF NextCall, StartInv, FirstHop
    <2>2. CASE Enter
      BY <2>2 DEF Enter, Return, StartInv
    <2>3. CASE UNCHANGED <<pc, hopvars>>
      BY <2>3 DEF StartInv, hopvars, FirstHop
    <2> QED
      BY <2>1, <2>2, <2>3, EntersOnce DEF StartInv
  <1>3. Inv /\ StartInv /\ FitInv /\ [Next]_vars => FitInv'
    <2> SUFFICES ASSUME Inv, StartInv, FitInv, [Next]_vars PROVE FitInv'
      OBVIOUS
    <2>1. CASE NextCall
      BY <2>1 DEF NextCall, FitInv
    <2>2. CASE FollowRedirect
      <3>1. PICK next \in NextEndpoint : current' = next
        BY <2>2 DEF FollowRedirect
      <3>2. /\ current \in Endpoints /\ request \in Requests /\ wire.lines \in HeaderLines
            /\ pc = "answered" /\ has_location(wire.lines)
        BY <2>2, WireFacts DEF FollowRedirect, can_follow, Inv, Core, TypeOK
      <3>3. location(wire.lines) \in Locations
        BY <3>2, LocationType
      <3>4. current.host \notin LongHosts
        BY <3>2 DEF FitInv
      <3>5. Fits(next)
        BY <3>1, <3>2, <3>3, <3>4, ResolvedFits DEF NextEndpoint
      <3> QED
        BY <3>1, <3>5 DEF FitInv, Fits
    <2>3. CASE Enter
      <3>1. pc' # "returned" =>
               /\ call.host \notin LongHosts
               /\ call.request.method = "GET" =>
                     TargetLength(call.request.target) \in 1..(MAX_TARGET_BYTES - 1)
        BY <2>3 DEF Enter, Return
      <3>2. UNCHANGED <<call, current, request>> /\ pc = "enter"
        BY <2>3 DEF Enter, hopvars
      <3>3. current = FirstHop(call) /\ request = call.request
        BY <3>2 DEF StartInv
      <3> QED
        BY <3>1, <3>2, <3>3, RedirectAssumption DEF FitInv, Fits, FirstHop
    <2>4. CASE UNCHANGED hopvars /\ ~Enter /\ ~NextCall
      <3>1. pc' \in {"enter", "returned"} \/ pc \notin {"enter", "returned"}
        BY <2>4, EntersOnce
      <3> QED
        BY <2>4, <3>1 DEF FitInv, hopvars, Fits
    <2> QED
      BY <2>1, <2>2, <2>3, <2>4, HopKept
  <1> QED
    BY <1>1, <1>2, <1>3, Invariant, PTL DEF Spec

=============================================================================
