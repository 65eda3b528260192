----------------------------- MODULE Transport -----------------------------
(***************************************************************************)
(* send_request of native/transport.c, the function behind every exported  *)
(* icu_send_* and icu_fetch_* entry: one call of a process at a time, its  *)
(* hops (one_request), the final response (copy_remaining_body) and what   *)
(* is written of it (write_response_metadata).                             *)
(*                                                                         *)
(* A call with capture = 1 has both output paths, one with capture = 0 has *)
(* neither and writes the body to stdout.  A response on the wire is its   *)
(* status line, its header lines, the bytes its head takes and the bytes   *)
(* the peer sends before it closes: fewer than the head, or fewer or more  *)
(* than the Content-Length, are all possible.  A peer may also never stop: *)
(* an endless answer has sent its size and goes on.  Every operation on a  *)
(* socket or a file may fail whenever it is tried.                         *)
(***************************************************************************)
EXTENDS Connection, ResponseHead

CONSTANTS
    Calls,              \* what send_request may be called with
    Wires,              \* what a server may answer
    MAX_REDIRECTS,
    MAX_HEADER_BYTES,
    MAX_CAPTURE_BYTES,
    READ_BYTES          \* size of the read buffer, and of body_prefix

ASSUME TransportAssumption ==
    /\ Calls \subseteq [host : Hosts, port : Int, use_tls : {0, 1},
                        request : Requests, body_length : Int,
                        names : SUBSET STRING, capture : {0, 1}]
    /\ Wires \subseteq [status : Int, lines : HeaderLines,
                        head_size : Nat \ {0}, size : Nat, endless : BOOLEAN]
    /\ MAX_REDIRECTS \in Nat
    /\ MAX_HEADER_BYTES \in Nat \ {0}
    /\ MAX_CAPTURE_BYTES \in Nat
    /\ READ_BYTES \in Nat \ {0}
    \* What is counted of an endless answer goes beyond every limit.
    /\ \A w \in Wires : w.endless =>
          w.size > MAX_HEADER_BYTES + READ_BYTES + w.head_size + MAX_CAPTURE_BYTES

VARIABLES
    pc,         \* send_request's control point
    call,       \* its arguments
    current,    \* the endpoint of this hop
    request,    \* current_request
    redirects,
    strayed,    \* history: a hop of this call was of another origin
    peer,       \* "live", or "stalled": it has stopped reading the request
    wire,       \* the answer to this hop
    taken,      \* bytes of it that read_some has returned
    received,   \* received_length
    stored,     \* bytes of the body that are in the output, NoFile without one
    copied,
    metadata,   \* what the metadata file says
    result      \* what the call returned

hopvars == <<call, current, request, redirects, strayed>>
wirevars == <<peer, wire, taken>>
bodyvars == <<received, stored, copied, metadata>>
vars == <<connvars, pc, hopvars, wirevars, bodyvars, result>>

PCs == {"enter", "open", "opening", "write_body", "head", "hop_failed",
        "answered", "prefix", "copy", "close_output", "metadata", "returned"}

NoWire == [status |-> 0, lines |-> <<>>, head_size |-> 1, size |-> 0,
           endless |-> FALSE]
NoFile == -1
NoResult == -1
NoMetadata == [status |-> 0, declared |-> -1, received |-> -1]
NoTarget == [path |-> <<>>, query |-> ""]

TypeOK ==
    /\ ConnTypeOK
    /\ pc \in PCs
    /\ call \in Calls
    /\ current \in Endpoints
    /\ request \in Requests
    /\ redirects \in Nat
    /\ strayed \in BOOLEAN
    /\ peer \in {"live", "stalled"}
    /\ wire \in Wires \cup {NoWire}
    /\ taken \in Nat
    /\ received \in Nat
    /\ stored \in Nat \cup {NoFile}
    /\ copied \in {0, 1}
    /\ metadata \in [status : Int, declared : Int, received : Int]
    /\ result \in 0..14 \cup {NoResult}

\* request_target fails for a POST and leaves the target empty.
FirstHop(c) ==
    [use_tls |-> c.use_tls, port |-> c.port, host |-> c.host,
     target |-> IF c.request.method = "GET" THEN c.request.target ELSE NoTarget]

Init ==
    /\ ConnInit
    /\ pc = "enter" /\ call \in Calls
    /\ current = FirstHop(call) /\ request = call.request /\ redirects = 0
    /\ strayed = FALSE
    /\ peer = "live" /\ wire = NoWire /\ taken = 0
    /\ received = 0 /\ stored = NoFile /\ copied = 0 /\ metadata = NoMetadata
    /\ result = NoResult

\* The process calls again, with the errno the last call left behind.
NextCall ==
    /\ pc = "returned"
    /\ pc' = "enter" /\ call' \in Calls
    /\ current' = FirstHop(call') /\ request' = call'.request /\ redirects' = 0
    /\ strayed' = FALSE
    /\ peer' = "live" /\ wire' = NoWire /\ taken' = 0
    /\ received' = 0 /\ stored' = NoFile /\ copied' = 0
    /\ metadata' = NoMetadata
    /\ result' = NoResult
    /\ event' = "none"
    /\ UNCHANGED <<proxy_env, errno, conn, opening, held>>

Return(code) == pc' = "returned" /\ result' = code

-----------------------------------------------------------------------------
\* A body that is absent although it has a length counts as a negative one.
Enter ==
    LET r == call.request
    IN  /\ pc = "enter"
        /\ UNCHANGED <<connvars, hopvars, wirevars, bodyvars>>
        /\ IF \/ call.body_length < 0
              \/ r.method \notin {"GET", "POST"}
              \/ r.method = "GET" /\ call.body_length # 0
           THEN Return(2)
           ELSE IF \/ call.host \in LongHosts
                   \/ /\ r.method = "GET"
                      /\ TargetLength(r.target) \notin 1..(MAX_TARGET_BYTES - 1)
           THEN Return(3)
           ELSE pc' = "open" /\ UNCHANGED result

\* strdup of the request fails.
OutOfMemory ==
    /\ pc = "open" /\ redirects = 0
    /\ Return(3)
    /\ UNCHANGED <<connvars, hopvars, wirevars, bodyvars>>

\* Mutant: every hop is opened to the endpoint of the call.
OpenHopAgain ==
    /\ pc = "open"
    /\ StartOpen(call.host, call.port, call.use_tls)
    /\ pc' = "opening"
    /\ UNCHANGED <<hopvars, wirevars, bodyvars, result>>

OpenHop ==
    /\ pc = "open"
    /\ StartOpen(current.host, current.port, current.use_tls)
    /\ pc' = "opening"
    /\ UNCHANGED <<hopvars, wirevars, bodyvars, result>>

Opening ==
    /\ pc = "opening"
    /\ OpenStep
    /\ UNCHANGED <<pc, hopvars, wirevars, bodyvars, result>>

\* Mutant: the codes added for captures reach every caller.
HopResultUnfolded(code) == code

\* What send_request makes of one_request's result.  Without a capture the
\* codes of its own are folded into the ones stdout callers know.
HopResult(code) ==
    IF call.capture = 0 /\ code \in {4, 14} /\ current.use_tls = 1 THEN 5
    ELSE IF call.capture = 0 /\ code >= 11 THEN 7 ELSE code

OpenFailed ==
    /\ pc = "opening" /\ opening.stage = "failed"
    /\ Return(HopResult(conn.failure_code))
    /\ UNCHANGED <<connvars, hopvars, wirevars, bodyvars>>

\* read_response_head returned 0: close, then report.
HopFailed ==
    /\ pc = "hop_failed"
    /\ close_connection
    /\ Return(HopResult(conn.failure_code))
    /\ UNCHANGED <<event, hopvars, wirevars, bodyvars>>

-----------------------------------------------------------------------------
Writing == \/ pc = "opening" /\ opening.stage = "open"
           \/ pc = "write_body"

\* The peer stops reading and keeps the connection; the send buffer fills.
PeerStalls ==
    /\ Writing /\ peer = "live"
    /\ peer' = "stalled"
    /\ UNCHANGED <<connvars, pc, hopvars, wire, taken, bodyvars, result>>

\* write_all returned 1, for the headers and then for the body if there is
\* one.  read_response_head begins by setting failure_code to 13.
Write ==
    /\ Writing /\ peer = "live"
    /\ IF pc = "opening" /\ call.body_length # 0
       THEN /\ pc' = "write_body"
            /\ UNCHANGED <<conn, wire>>
       ELSE /\ pc' = "head"
            /\ conn' = [conn EXCEPT !.failure_code = 13]
            /\ wire' \in Wires
    /\ UNCHANGED <<proxy_env, errno, opening, event, held, hopvars, peer, taken,
                   bodyvars, result>>

\* SSL_write timed out and wants to write again: the loop tries again.
WriteRetries ==
    /\ Writing /\ conn.tls = "up"
    /\ errno' = "EAGAIN"
    /\ UNCHANGED <<proxy_env, conn, opening, event, held, pc, hopvars, wirevars,
                   bodyvars, result>>

\* Mutant: no SO_SNDTIMEO on the socket.
WriteGivesUpAtOnce == peer = "live"

\* An error ends write_all; running out of time ends only the plain loop.
WriteGivesUp == peer = "live" \/ conn.tls # "up"

\* write_all returned 0, and one_request closes the connection.
WriteFails ==
    /\ Writing /\ WriteGivesUp
    /\ event' = IF peer = "live" THEN "failure" ELSE "timeout"
    /\ errno' \in IF conn.tls = "up" THEN Errnos
                  ELSE IF peer = "live" THEN {"other"} ELSE TimeoutErrnos
    /\ held' = Released
    /\ conn' = NoConnection(conn.failure_code)
    /\ opening' = [opening EXCEPT !.stage = "closed"]
    /\ Return(6)
    /\ UNCHANGED <<proxy_env, hopvars, wirevars, bodyvars>>

-----------------------------------------------------------------------------
\* The sizes of what one read may return.
Reads == 1..(IF wire.size - taken < READ_BYTES THEN wire.size - taken
                                               ELSE READ_BYTES)

\* The peer has closed and everything it sent was read.
EndOfStream == taken = wire.size /\ ~wire.endless

\* read_response_head returns 0 with the failure_code it has.
HeadFails == pc' = "hop_failed"

\* One turn of its loop, with the end of the head found or not.
ReadHead ==
    /\ pc = "head"
    /\ \E k \in Reads :
          /\ taken' = taken + k
          /\ IF taken' > MAX_HEADER_BYTES THEN HeadFails
             ELSE IF taken' < wire.head_size
             THEN IF taken' < MAX_HEADER_BYTES THEN UNCHANGED pc ELSE HeadFails
             ELSE IF \/ wire.status \notin 100..599
                     \/ taken' - wire.head_size > READ_BYTES
             THEN HeadFails
             ELSE pc' = "answered"
    /\ UNCHANGED <<connvars, hopvars, peer, wire, bodyvars, result>>

HeadTruncated ==
    /\ pc = "head" /\ EndOfStream
    /\ HeadFails
    /\ UNCHANGED <<connvars, hopvars, wirevars, bodyvars, result>>

HeadReadFails ==
    /\ pc = "head"
    /\ ReadFails
    /\ HeadFails
    /\ UNCHANGED <<hopvars, wirevars, bodyvars, result>>

-----------------------------------------------------------------------------
can_follow ==
    /\ request.method = "GET"
    /\ redirect_status(wire.status)
    /\ has_location(wire.lines)

NextEndpoint == resolve_location(current, request, location(wire.lines))

Origin(e) == <<e.use_tls, e.port, CaseFold[e.host]>>

\* Mutant: the counter is compared one hop late.
WithinLimitOnceMore == redirects <= MAX_REDIRECTS

WithinLimit == redirects < MAX_REDIRECTS

FollowRedirect ==
    /\ pc = "answered" /\ can_follow /\ WithinLimit
    /\ \E next \in NextEndpoint :
          /\ request' = rewrite_get_request_with_policy(
                           request, next, same_origin(current, next), call.names)
          /\ current' = next
          /\ strayed' = (strayed \/ Origin(next) # Origin(FirstHop(call)))
    /\ redirects' = redirects + 1
    /\ close_connection
    /\ pc' = "open" /\ wire' = NoWire /\ taken' = 0
    /\ UNCHANGED <<event, call, peer, bodyvars, result>>

\* Too many, no usable Location, or no memory for the next request.
RedirectFails ==
    /\ pc = "answered" /\ can_follow
    /\ close_connection
    /\ Return(8)
    /\ UNCHANGED <<event, hopvars, wirevars, bodyvars>>

\* A capture refuses a framing it does not support and a declared length over
\* its limit before it creates a file.
RefuseResponse ==
    /\ pc = "answered" /\ ~can_follow /\ call.capture = 1
    /\ \/ invalid_framing(wire.lines) /\ Return(13)
       \/ /\ ~invalid_framing(wire.lines)
          /\ content_length(wire.lines) > MAX_CAPTURE_BYTES
          /\ Return(12)
    /\ close_connection
    /\ UNCHANGED <<event, hopvars, wirevars, bodyvars>>

Accepted ==
    /\ pc = "answered" /\ ~can_follow
    /\ call.capture = 1 => /\ ~invalid_framing(wire.lines)
                           /\ content_length(wire.lines) <= MAX_CAPTURE_BYTES

OpenOutput ==
    /\ Accepted
    /\ pc' = "prefix" /\ stored' = 0
    /\ UNCHANGED <<connvars, hopvars, wirevars, received, copied, metadata,
                   result>>

\* private_output: the file exists, or cannot be created.
OutputFails ==
    /\ Accepted /\ call.capture = 1
    /\ close_connection
    /\ event' = "storage"
    /\ Return(7)
    /\ UNCHANGED <<hopvars, wirevars, bodyvars>>

-----------------------------------------------------------------------------
\* What a failed write, flush or close leaves in the output, of n bytes.
StorageFails(n) ==
    /\ event' = IF event = "done" THEN "storage" ELSE event
    /\ stored' \in 0..n

\* Mutant: the failure is not returned.
CopyFailsSilently == pc' = "close_output" /\ copied' = 1

\* copy_remaining_body returns 0 with the failure_code it has.
CopyFails == pc' = "close_output" /\ copied' = 0

\* Over the limit: the bytes are not written.
CopyOverflows ==
    /\ CopyFails
    /\ conn' = [conn EXCEPT !.failure_code = 12]
    /\ UNCHANGED <<received, stored, event>>

\* Mutant: each read is compared with the limit, not their sum.
OverflowsAlone(n) == call.capture = 1 /\ n > MAX_CAPTURE_BYTES

\* n more bytes would take a capture over its limit.
Overflows(n) == call.capture = 1 /\ n > MAX_CAPTURE_BYTES - received

\* Mutant: the blank line that ends the head is counted out twice.
PrefixLengthShort == taken - wire.head_size - 4

\* What the last read of the head brought of the body.
PrefixLength == taken - wire.head_size

\* n bytes are given to write_output.
WriteOutput(n) ==
    \/ /\ pc' = "copy"
       /\ stored' = stored + n /\ received' = received + n
       /\ UNCHANGED <<conn, copied, event>>
    \/ /\ n > 0
       /\ StorageFails(stored + n - 1)
       /\ CopyFails
       /\ UNCHANGED <<conn, received>>

CopyPrefix ==
    /\ pc = "prefix"
    /\ IF Overflows(PrefixLength) THEN CopyOverflows
                                  ELSE WriteOutput(PrefixLength)
    /\ UNCHANGED <<proxy_env, errno, opening, held, hopvars, wirevars, metadata,
                   result>>

CopyBody ==
    /\ pc = "copy"
    /\ \E k \in Reads :
          /\ taken' = taken + k
          /\ IF Overflows(k) THEN CopyOverflows ELSE WriteOutput(k)
    /\ UNCHANGED <<proxy_env, errno, opening, held, hopvars, peer, wire, metadata,
                   result>>

\* End of stream, and fflush.
CopyEnds ==
    /\ pc = "copy" /\ EndOfStream
    /\ \/ copied' = 1 /\ pc' = "close_output" /\ UNCHANGED <<stored, event>>
       \/ CopyFails /\ StorageFails(stored)
    /\ UNCHANGED <<proxy_env, errno, conn, opening, held, hopvars, wirevars,
                   received, metadata, result>>

\* The peer of an endless answer sends as much of its body again.  Without a
\* capture nothing compares the counters, so they can begin again too.
BodyGoesOn ==
    /\ pc = "copy" /\ wire.endless /\ taken = wire.size /\ call.capture = 0
    /\ taken' = wire.head_size /\ received' = 0 /\ stored' = 0
    /\ UNCHANGED <<connvars, pc, hopvars, peer, wire, copied, metadata, result>>

CopyReadFails ==
    /\ pc = "copy"
    /\ ReadFails
    /\ CopyFails
    /\ UNCHANGED <<hopvars, wirevars, received, stored, metadata, result>>

\* fclose of a capture; stdout stays open.
CloseOutput ==
    /\ pc = "close_output"
    /\ pc' = "metadata"
    /\ \/ UNCHANGED <<copied, stored, event>>
       \/ call.capture = 1 /\ copied' = 0 /\ StorageFails(stored)
    /\ UNCHANGED <<proxy_env, errno, conn, opening, held, hopvars, wirevars,
                   received, metadata, result>>

\* Mutant: bytes beyond the declared length are accepted.
WrongLengthShort == content_length(wire.lines) > received

WrongLength == content_length(wire.lines) \notin {-1, received}

\* Mutant: whether the metadata was written is not asked.
FinalResultUnwritten(metadata_written) ==
    IF copied = 0
    THEN IF call.capture = 1 /\ conn.failure_code >= 11
         THEN conn.failure_code ELSE 7
    ELSE IF call.capture = 0 THEN 0
    ELSE IF WrongLength THEN 9
    ELSE IF wire.status \notin 200..299 THEN 10
    ELSE 0

\* The end of send_request: a write that failed, a length that is not the
\* declared one, a status that is not a success.
FinalResult(metadata_written) ==
    IF copied = 0 \/ ~metadata_written
    THEN IF call.capture = 1 /\ copied = 0 /\ conn.failure_code >= 11
         THEN conn.failure_code ELSE 7
    ELSE IF call.capture = 0 THEN 0
    ELSE IF WrongLength THEN 9
    ELSE IF wire.status \notin 200..299 THEN 10
    ELSE 0

\* What the metadata file of a capture says, if it can be written.
write_response_metadata ==
    IF call.capture = 0 THEN NoMetadata
    ELSE [status |-> wire.status, declared |-> content_length(wire.lines),
          received |-> received]

\* The metadata, whatever became of the body, and the return.
Finish ==
    /\ pc = "metadata"
    /\ \/ /\ metadata' = write_response_metadata
          /\ Return(FinalResult(TRUE))
          /\ UNCHANGED event
       \/ /\ call.capture = 1
          /\ event' = IF event = "done" THEN "storage" ELSE event
          /\ Return(FinalResult(FALSE))
          /\ UNCHANGED metadata
    /\ close_connection
    /\ UNCHANGED <<hopvars, wirevars, received, stored, copied>>

\* The steps of the program itself.
Step ==
    \/ Enter \/ OutOfMemory
    \/ OpenHop \/ Opening \/ OpenFailed \/ HopFailed
    \/ Write \/ WriteRetries \/ WriteFails
    \/ ReadHead \/ HeadTruncated \/ HeadReadFails
    \/ FollowRedirect \/ RedirectFails
    \/ RefuseResponse \/ OpenOutput \/ OutputFails
    \/ CopyPrefix \/ CopyBody \/ CopyEnds \/ CopyReadFails
    \/ CloseOutput \/ Finish

Next == NextCall \/ PeerStalls \/ BodyGoesOn \/ Step

\* The code runs in one thread: a call that can take a step takes one, since
\* name resolution ends and every socket operation has a time limit.  Nothing
\* makes the process call again, the peer read or the peer stop sending.
Spec == Init /\ [][Next]_vars /\ WF_vars(Step)

-----------------------------------------------------------------------------
Credentials == {"authorization", "cookie"} \cup call.names

\* Through any chain of redirects, a header the caller counts as a credential
\* is only ever in a request for the origin the caller asked for; it does not
\* come back when a chain returns there (send_request's choice between the two
\* rewrites, made hop by hop, adds up to a rule about the whole chain).
CredentialsStayHome ==
    request.headers \cap Credentials # {} =>
        Origin(current) = Origin(FirstHop(call))

\* What a request carries is decided by the whole chain behind it: every header
\* of the caller while all hops were of the caller's origin, in whatever
\* spelling, and after the first that was not, for the rest of the call, every
\* one but the credentials.
HeadersFollowOrigin ==
    request.headers = IF strayed THEN call.request.headers \ Credentials
                                 ELSE call.request.headers

\* A redirected request says where it is sent: its target is the endpoint's,
\* and its Host header, with the scheme's port where it names none, is the
\* host and the port that are connected to.
RequestMatchesEndpoint ==
    redirects > 0 =>
        /\ request.method = "GET" /\ request.target = current.target
        /\ request.authority.host = current.host
        /\ current.port \in IF request.authority.port = {}
                            THEN {DefaultPort(current.use_tls)}
                            ELSE request.authority.port

\* The connection is in use.
Exchanging ==
    \/ Writing
    \/ pc \in {"head", "answered", "prefix", "copy", "close_output", "metadata"}

\* A request travels on the connection its endpoint asks for, across redirects
\* that change the scheme, the host or the port: the connection was opened for
\* that endpoint, and is verified TLS for its host when it says so.
RequestGoesWhereItSays ==
    Exchanging =>
        /\ opening.stage = "open"
        /\ <<opening.host, opening.port, opening.use_tls>> =
              <<current.host, current.port, current.use_tls>>
        /\ OpenIsAuthentic

\* At most MAX_REDIRECTS hops follow the first, and a POST is sent once, with
\* the method and the headers of the caller.
HopsBounded ==
    /\ redirects <= MAX_REDIRECTS
    /\ call.request.method # "GET" => redirects = 0 /\ request = call.request

\* Between hops and between calls nothing is held, on whichever path the hop or
\* the call ended, and no pointer is left to be used or freed again.
NothingHeldBetweenHops ==
    pc \in {"enter", "open", "returned"} =>
        held = Nothing /\ conn = NoConnection(conn.failure_code)

Captured == pc = "returned" /\ call.capture = 1 /\ result \in {0, 10}

\* A capture that is reported as a response (0, or 10 for its status) is the
\* whole response: all the bytes the peer sent after the head before it closed,
\* as many as it declared, within the limit, under a framing that has one
\* reading, and the metadata says so.
CapturedIsComplete ==
    Captured =>
        /\ ~wire.endless
        /\ stored = wire.size - wire.head_size
        /\ stored <= MAX_CAPTURE_BYTES
        /\ ~invalid_framing(wire.lines)
        /\ metadata = [status |-> wire.status, received |-> stored,
                       declared |-> content_length(wire.lines)]
        /\ metadata.declared \in {-1, stored}

\* No capture ever holds more than the limit, however the reads fall.
CaptureBounded == call.capture = 1 => stored <= MAX_CAPTURE_BYTES

\* Nothing that failed on the way to a success was overlooked: not a read, not
\* a flush or a close of the output, not the metadata.
SuccessIsClean == pc = "returned" /\ result \in {0, 10} => event = "done"

\* docs/response-capture.md: "Stdout commands keep their existing outcomes."
\* None of the codes added for captures reaches a caller without one, and 4 is
\* still what a plain hop fails to connect with, 5 what a TLS hop does, with the
\* proxy's failures among them.
StdoutOutcomes ==
    pc = "returned" /\ call.capture = 0 =>
        /\ result \in {0} \cup 2..8
        /\ result = 4 => current.use_tls = 0
        /\ result = 5 => current.use_tls = 1

\* docs/response-capture.md tells capture I/O from malformed framing: a call
\* that only a file operation made fail would report 7, capture I/O.
StorageIsCaptureIO ==
    pc = "returned" /\ call.capture = 1 /\ event = "storage" => result = 7

\* How much of the body the peer sent is in the output.
Delivered ==
    IF stored = NoFile THEN "none"
    ELSE IF ~wire.endless /\ stored = wire.size - wire.head_size THEN "whole"
    ELSE "part"

Call == INSTANCE HttpCall WITH
    phase   <- IF pc = "returned" THEN "returned" ELSE "running",
    capture <- call.capture,
    outcome <- IF pc = "returned"
               THEN [code |-> result, body |-> Delivered,
                     status |-> metadata.status]
               ELSE [code |-> 1, body |-> "none", status |-> 0]

\* However a call ends, its code tells the caller what the output holds: a
\* response that is all there (0, 9 and 10, with the status in the metadata),
\* one that was cut off, or none.  Transport implements HttpCall.
ImplementsHttpCall == Call!Spec

\* README.md lists the Location forms that are followed; an absolute URL of
\* another scheme (ftp://h/x) is none of them.
SupportedLocations ==
    [][redirects' = redirects + 1 =>
          location(wire.lines).form # "other_scheme"]_vars

\* A body that never ends, copied to stdout, where no limit applies.
Unlimited == wire.endless /\ call.capture = 0

\* Every call returns, however many redirects, addresses and short reads it
\* takes, with two exceptions: a TLS peer that has stopped reading the request,
\* and a peer that never stops sending a body that is copied to stdout.
CallReturns ==
    (pc # "returned") ~>
        \/ pc = "returned"
        \/ peer = "stalled" /\ current.use_tls = 1
        \/ Unlimited

\* What a call has before it, in the order of send_request: hops, control points
\* of a hop, and within one of them stages and addresses, or bytes on the wire.
Rank == [enter |-> 11, open |-> 10, opening |-> 9, write_body |-> 8, head |-> 7,
         answered |-> 6, prefix |-> 5, copy |-> 4, close_output |-> 3,
         metadata |-> 2, hop_failed |-> 1, returned |-> 0]

StageRank == [resolve |-> 9 + 2 * MaxAddresses, connect |-> 8, connecting |-> 7,
              tunnel |-> 6, context |-> 5, trust |-> 4, object |-> 3,
              identity |-> 2, handshake |-> 1, open |-> 0, failed |-> 0,
              closed |-> 0]

Ahead ==
    <<MAX_REDIRECTS - redirects, Rank[pc],
      IF pc = "opening" THEN StageRank[opening.stage] + 2 * opening.addresses
                        ELSE wire.size - taken>>

\* The natural numbers of a are below those of b, the first that differ.
Below(a, b) ==
    /\ a[1] >= 0 /\ a[2] >= 0 /\ a[3] >= 0
    /\ \/ a[1] < b[1]
       \/ a[1] = b[1] /\ a[2] < b[2]
       \/ a[1] = b[1] /\ a[2] = b[2] /\ a[3] < b[3]

\* Every step of a call brings it nearer to its return, through redirects, the
\* addresses of a name and short reads, except three: a peer that stalls, the
\* SSL_write that is then tried again, and more of an endless body for stdout.
CallAdvances ==
    [][pc # "returned" =>
          Below(Ahead', Ahead) \/ WriteRetries \/ PeerStalls \/ BodyGoesOn]_vars

\* docs/response-capture.md: "Socket connection, reads and writes have
\* 15-second bounds."  Every call would then return.
WritesAreBounded == (pc # "returned") ~> (pc = "returned")

=============================================================================
