--------------------------- MODULE RewriteBuffer ---------------------------
(***************************************************************************)
(* rewrite_get_request_with_policy of native/transport.c, for what Redirect *)
(* leaves out: the buffer it writes into.  Its size is fixed before the    *)
(* headers are looked at, and each piece that is added checks the room     *)
(* that is left.  Rewriting is repeated, hop after hop, each time on the   *)
(* request the last hop wrote.                                             *)
(*                                                                         *)
(* A request is its length, the length of its first line, the number of    *)
(* its Host lines, and how its headers end: with a blank line, with the    *)
(* string, or torn in a line that has no CRLF.  Where the lines fall is    *)
(* found out as the cursor gets there.  An endpoint is the lengths of its  *)
(* host, its target and its port text with the colon (0 for none).         *)
(***************************************************************************)
EXTENDS Integers

CONSTANTS
    MAX_HOST_BYTES,
    MAX_REDIRECTS,
    SLACK,          \* 128 bytes in the code
    Requests,       \* the callers' requests
    Endpoints,      \* where redirects lead
    LineLengths     \* lengths of header lines that occur

RequestType == [length : Nat, first : Nat, hosts : Nat,
                ends : {"blank", "open", "torn"}]

EndpointType == [host : 0..(MAX_HOST_BYTES - 1), target : Nat, port : 0..12]

\* valid_wire_request saw GET and a blank, and a first line without CRLF
\* does not get this far.
ASSUME RewriteAssumption ==
    /\ MAX_HOST_BYTES \in Nat \ {0} /\ MAX_REDIRECTS \in Nat
    /\ SLACK \in Nat /\ SLACK >= 32
    /\ Requests \subseteq {r \in RequestType : r.first >= 4 /\ r.first + 2 <= r.length}
    /\ Endpoints \subseteq EndpointType
    /\ LineLengths \subseteq Nat \ {0}

VARIABLES
    hop,        \* rewrites begun
    caller,     \* history: Host lines of the caller's own request
    request,    \* current_request
    next,       \* the endpoint it is rewritten for
    cursor,     \* how far request is read
    capacity, used,
    extent,     \* bytes from the start of output that have been written to
    seen,       \* history: Host lines read
    replaced_host,
    put,        \* Host lines written
    at          \* "hop" between two rewrites, "lines", "added" or "failed"

vars == <<hop, caller, request, next, cursor, capacity, used, extent, seen,
          replaced_host, put, at>>

Init ==
    /\ hop = 0
    /\ request \in Requests /\ caller = request.hosts
    /\ next = [host |-> 0, target |-> 0, port |-> 0]
    /\ cursor = 0 /\ capacity = 0 /\ used = 0 /\ extent = 0
    /\ seen = 0 /\ replaced_host = 0 /\ put = 0
    /\ at = "hop"

Lesser(a, b) == IF a < b THEN a ELSE b

\* The text endpoint_authority formats.
AuthorityLength(e) == e.host + e.port

HostLineLength == 6 + AuthorityLength(next) + 2

\* Mutant: the host is not counted.
CapacityFor_hostless(r, e) == r.length + e.target + SLACK

CapacityFor(r, e) == r.length + e.target + e.host + SLACK

MayFollow == hop < MAX_REDIRECTS

\* rewrite_get_request_with_policy up to its loop.  "GET ", the target and
\* " HTTP/1.0" with CRLF are the first line.
Begin ==
    /\ at = "hop" /\ MayFollow
    /\ hop' = hop + 1
    /\ \E e \in Endpoints :
          /\ next' = e
          /\ capacity' = CapacityFor(request, e)
          /\ used' = e.target + 15
          /\ extent' = Lesser(e.target + 16, CapacityFor(request, e))
          /\ at' = IF /\ AuthorityLength(e) < MAX_HOST_BYTES + 16
                      /\ e.target + 15 < CapacityFor(request, e)
                   THEN "lines" ELSE "failed"
    /\ cursor' = request.first + 2
    /\ seen' = 0 /\ replaced_host' = 0 /\ put' = 0
    /\ UNCHANGED <<caller, request>>

\* A line of n bytes and its CRLF come next.
Line(n) ==
    /\ at = "lines" /\ cursor + n + 2 <= request.length
    /\ cursor' = cursor + n + 2
    /\ UNCHANGED <<hop, caller, request, next, capacity>>

\* snprintf of the new Host line.
PutHost(point) ==
    /\ extent' = used + Lesser(HostLineLength + 1, capacity - used)
    /\ IF HostLineLength >= capacity - used
       THEN at' = "failed" /\ UNCHANGED <<used, put>>
       ELSE at' = point /\ used' = used + HostLineLength /\ put' = put + 1

\* Mutant: the Host line is not noted.
NoteHost_unset == UNCHANGED replaced_host

NoteHost == replaced_host' = 1

\* "Host:" and what follows it.
ReplaceHost(n) ==
    /\ Line(n) /\ n >= 5 /\ seen < request.hosts
    /\ PutHost("lines")
    /\ NoteHost
    /\ seen' = seen + 1

\* A credential that must not go to another origin.
DropLine(n) ==
    /\ Line(n) /\ n >= 2
    /\ UNCHANGED <<used, extent, seen, replaced_host, put, at>>

\* Mutant: the room for the terminating byte is not asked for.
NoRoom_loose(n) == n > capacity - used

NoRoom(n) == n >= capacity - used

\* Any other line, with the terminating byte after it.
CopyLine(n) ==
    /\ Line(n)
    /\ IF NoRoom(n + 2)
       THEN at' = "failed" /\ UNCHANGED <<used, extent>>
       ELSE used' = used + n + 2 /\ extent' = used + n + 3 /\ at' = at
    /\ UNCHANGED <<seen, replaced_host, put>>

\* A line that has no end.
Torn ==
    /\ at = "lines" /\ request.ends = "torn" /\ cursor < request.length
    /\ at' = "failed"
    /\ UNCHANGED <<hop, caller, request, next, cursor, capacity, used, extent,
                   seen, replaced_host, put>>

\* The loop ends, with all Host lines read, and Host is added if there was
\* none.
EndOfLines ==
    /\ at = "lines" /\ seen = request.hosts
    /\ \/ request.ends = "blank" /\ cursor + 2 <= request.length
       \/ request.ends = "open" /\ cursor = request.length
    /\ IF replaced_host = 0
       THEN PutHost("added")
       ELSE at' = "added" /\ UNCHANGED <<used, extent, put>>
    /\ UNCHANGED <<hop, caller, request, next, cursor, capacity, seen,
                   replaced_host>>

\* The blank line and the terminating byte; what has been written is the
\* request of the next hop.
Finish ==
    /\ at = "added"
    /\ IF used + 2 >= capacity
       THEN at' = "failed" /\ UNCHANGED <<request, extent>>
       ELSE /\ at' = "hop"
            /\ extent' = used + 3
            /\ request' = [length |-> used + 2, first |-> next.target + 13,
                           hosts |-> put, ends |-> "blank"]
    /\ UNCHANGED <<hop, caller, next, cursor, capacity, used, seen,
                   replaced_host, put>>

Next ==
    \/ Begin \/ Torn \/ EndOfLines \/ Finish
    \/ \E n \in LineLengths : ReplaceHost(n) \/ DropLine(n) \/ CopyLine(n)

Spec == Init /\ [][Next]_vars

-----------------------------------------------------------------------------
TypeOK ==
    /\ hop \in 0..MAX_REDIRECTS /\ caller \in Nat
    /\ request \in RequestType /\ next \in EndpointType
    /\ cursor \in Nat /\ capacity \in Nat /\ used \in Nat /\ extent \in Nat
    /\ seen \in Nat /\ replaced_host \in {0, 1} /\ put \in Nat
    /\ at \in {"hop", "lines", "added", "failed"}

\* Nothing is written past the end of the buffer, whatever the lines are and
\* wherever the buffer runs full: neither by the pieces that check before
\* they write nor by those snprintf cuts short, and there is always room for
\* the terminating byte.
WithinBuffer ==
    /\ extent <= capacity
    /\ at \in {"lines", "added"} => used < capacity

\* The size of the buffer is enough: along any chain of redirects, a rewrite
\* fails only for a request the caller tore or gave two Host lines.
RewriteSucceeds ==
    at = "failed" => (hop = 1 /\ request.ends = "torn") \/ caller > 1

\* After a redirect the request has a Host line, and more than one only if
\* the caller's had: Host is neither lost nor multiplied by the hops.
HostKept ==
    at = "hop" /\ hop > 0 =>
        request.hosts = IF caller = 0 THEN 1 ELSE caller

=============================================================================
