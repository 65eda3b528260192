--------------------------- MODULE RewriteProofs ---------------------------
(***************************************************************************)
(* RewriteBuffer's invariants, for requests and lines of any length and    *)
(* any number of redirects.  The argument is a count of bytes: a line that *)
(* is copied or dropped adds no more to the output than the cursor moved,  *)
(* so only the first line and Host lines make the output grow over the     *)
(* part of the request it comes from.                                      *)
(***************************************************************************)
EXTENDS RewriteBuffer, TLAPS

\* The request at hand is one a rewrite has written.
Rewritten == hop > 1 \/ (hop = 1 /\ at = "hop")

RequestInv ==
    /\ request.first >= 4 /\ request.first + 2 <= request.length
    /\ IF Rewritten
       THEN /\ request.ends = "blank"
            /\ request.hosts = IF caller = 0 THEN 1 ELSE caller
       ELSE request.hosts = caller

\* What the output would be long if all lines so far had been copied.
Copied == next.target + 15 + (cursor - (request.first + 2))

\* While the output grows.
GrowthInv ==
    /\ at \in {"lines", "added"} =>
          /\ hop >= 1
          /\ capacity = CapacityFor(request, next)
          /\ request.first + 2 <= cursor /\ cursor <= request.length
          /\ next.target + 15 <= used /\ used < capacity
          /\ seen <= request.hosts /\ (replaced_host = 0 <=> seen = 0)
    /\ at = "lines" =>
          /\ put = seen
          /\ put = 0 => used <= Copied
          /\ put = 1 => used <= Copied + AuthorityLength(next) + 1
    /\ at = "added" =>
          /\ seen = request.hosts /\ put = IF seen = 0 THEN 1 ELSE seen
          /\ put = 1 => used <= Copied + AuthorityLength(next) + 8

Inv == TypeOK /\ RequestInv /\ GrowthInv /\ extent <= capacity /\ RewriteSucceeds

\* Before the first redirect.
LEMMA InitInv == Init => Inv
  <1> SUFFICES ASSUME Init PROVE Inv
    OBVIOUS
  <1> USE RewriteAssumption
  <1>1. request \in RequestType /\ request.first >= 4
        /\ request.first + 2 <= request.length
    BY DEF Init
  <1>2. TypeOK
    BY <1>1 DEF Init, TypeOK, RequestType, EndpointType
  <1> QED
    BY <1>1, <1>2 DEF Init, Inv, RequestInv, Rewritten, GrowthInv, RewriteSucceeds

\* A rewrite begins; neither the authority nor the first line is too long.
LEMMA BeginInv ==
    ASSUME Inv, Begin
    PROVE  Inv'
  <1> USE RewriteAssumption
  <1>1. PICK e \in Endpoints :
           /\ next' = e
           /\ capacity' = CapacityFor(request, e)
           /\ used' = e.target + 15
           /\ extent' = Lesser(e.target + 16, CapacityFor(request, e))
           /\ at' = IF /\ AuthorityLength(e) < MAX_HOST_BYTES + 16
                       /\ e.target + 15 < CapacityFor(request, e)
                    THEN "lines" ELSE "failed"
    BY DEF Begin
  <1>2. /\ e.host \in 0..(MAX_HOST_BYTES - 1) /\ e.target \in Nat
        /\ e.port \in 0..12 /\ e \in EndpointType
    BY DEF EndpointType
  <1>3. request \in RequestType /\ request.length \in Nat /\ request.first \in Nat
    BY DEF Inv, TypeOK, RequestType
  <1>4. /\ CapacityFor(request, e) = request.length + e.target + e.host + SLACK
        /\ e.target + 16 <= CapacityFor(request, e)
        /\ AuthorityLength(e) < MAX_HOST_BYTES + 16
    BY <1>2, <1>3 DEF CapacityFor, AuthorityLength, Inv, RequestInv
  <1>5. at' = "lines" /\ extent' = e.target + 16
    BY <1>1, <1>2, <1>3, <1>4 DEF Lesser
  <1>6. TypeOK'
    BY <1>1, <1>2, <1>3, <1>4, <1>5 DEF Inv, TypeOK, Begin, MayFollow
  <1>7. RequestInv'
    BY <1>5 DEF Inv, RequestInv, Rewritten, Begin, TypeOK
  <1>8. GrowthInv'
    BY <1>1, <1>2, <1>3, <1>4, <1>5
       DEF Inv, RequestInv, GrowthInv, Begin, TypeOK, CapacityFor, Copied,
           RequestType
  <1> QED
    BY <1>1, <1>4, <1>5, <1>6, <1>7, <1>8 DEF Inv, RewriteSucceeds

\* Facts about numbers that every step in the loop uses.
LEMMA Numbers ==
    ASSUME TypeOK
    PROVE  /\ request.length \in Nat /\ request.first \in Nat
           /\ request.hosts \in Nat
           /\ next.host \in Nat /\ next.target \in Nat /\ next.port \in 0..12
           /\ HostLineLength = next.host + next.port + 8
           /\ AuthorityLength(next) = next.host + next.port
           /\ CapacityFor(request, next) =
                 request.length + next.target + next.host + SLACK
  BY RewriteAssumption
     DEF TypeOK, RequestType, EndpointType, HostLineLength, AuthorityLength,
         CapacityFor

\* The Host line is replaced; there is room if it is the first.
LEMMA ReplaceHostInv ==
    ASSUME Inv, NEW n \in LineLengths, ReplaceHost(n)
    PROVE  Inv'
  <1> USE RewriteAssumption, Numbers DEF Inv
  <1>1. /\ n \in Nat /\ at = "lines" /\ n >= 5 /\ seen < request.hosts
        /\ cursor' = cursor + n + 2 /\ cursor + n + 2 <= request.length
        /\ UNCHANGED <<hop, caller, request, next, capacity>>
        /\ seen' = seen + 1 /\ replaced_host' = 1
    BY DEF ReplaceHost, Line, NoteHost
  <1>2. /\ capacity = request.length + next.target + next.host + SLACK
        /\ request.first + 2 <= cursor /\ request.first >= 4
        /\ next.target + 15 <= used /\ used < capacity
        /\ put = seen
        /\ put = 0 => used <= next.target + 15 + (cursor - (request.first + 2))
    BY <1>1 DEF GrowthInv, RequestInv, Copied
  <1>3. extent' <= capacity' /\ extent' \in Nat
    BY <1>1, <1>2 DEF ReplaceHost, PutHost, Lesser, TypeOK
  <1>4. CASE HostLineLength >= capacity - used
    <2>1. at' = "failed" /\ UNCHANGED <<used, put>>
      BY <1>4 DEF ReplaceHost, PutHost
    <2>2. put # 0
      BY <1>1, <1>2, <1>4 DEF TypeOK
    <2>3. request.hosts > 1
      BY <1>1, <1>2, <2>2 DEF TypeOK
    <2>4. caller > 1
      BY <2>3 DEF RequestInv, TypeOK
    <2>5. TypeOK' /\ RequestInv'
      BY <1>1, <1>3, <2>1 DEF TypeOK, RequestInv, Rewritten
    <2> QED
      BY <1>1, <1>3, <2>1, <2>4, <2>5 DEF GrowthInv, RewriteSucceeds
  <1>5. CASE HostLineLength < capacity - used
    <2>1. at' = "lines" /\ used' = used + HostLineLength /\ put' = put + 1
      BY <1>1, <1>2, <1>5 DEF ReplaceHost, PutHost, TypeOK
    <2>2. TypeOK' /\ RequestInv'
      BY <1>1, <1>2, <1>3, <2>1 DEF TypeOK, RequestInv, Rewritten
    <2>3. put' = 1 => used' <= Copied' + AuthorityLength(next)' + 1
      BY <1>1, <1>2, <2>1 DEF TypeOK, Copied, AuthorityLength
    <2>4. GrowthInv'
      BY <1>1, <1>2, <1>5, <2>1, <2>3
         DEF GrowthInv, TypeOK, RequestInv, CapacityFor
    <2> QED
      BY <1>3, <2>1, <2>2, <2>4 DEF RewriteSucceeds
  <1> QED
    BY <1>2, <1>4, <1>5 DEF TypeOK

\* A credential is left out.
LEMMA DropLineInv ==
    ASSUME Inv, NEW n \in LineLengths, DropLine(n)
    PROVE  Inv'
  <1> USE RewriteAssumption, Numbers DEF Inv
  <1>1. /\ n \in Nat /\ at = "lines" /\ at' = "lines"
        /\ cursor' = cursor + n + 2 /\ cursor + n + 2 <= request.length
        /\ UNCHANGED <<hop, caller, request, next, capacity, used, extent, seen,
                       replaced_host, put>>
    BY DEF DropLine, Line
  <1>2. TypeOK' /\ RequestInv'
    BY <1>1 DEF TypeOK, RequestInv, Rewritten
  <1>3. GrowthInv'
    BY <1>1 DEF GrowthInv, TypeOK, RequestInv, CapacityFor, Copied, AuthorityLength
  <1> QED
    BY <1>1, <1>2, <1>3 DEF RewriteSucceeds

\* A line is copied; there is room unless Host lines have used it up.
LEMMA CopyLineInv ==
    ASSUME Inv, NEW n \in LineLengths, CopyLine(n)
    PROVE  Inv'
  <1> USE RewriteAssumption, Numbers DEF Inv
  <1>1. /\ n \in Nat /\ at = "lines"
        /\ cursor' = cursor + n + 2 /\ cursor + n + 2 <= request.length
        /\ UNCHANGED <<hop, caller, request, next, capacity, seen, replaced_host,
                       put>>
    BY DEF CopyLine, Line
  <1>2. /\ capacity = request.length + next.target + next.host + SLACK
        /\ request.first + 2 <= cursor /\ request.first >= 4
        /\ next.target + 15 <= used /\ used < capacity
        /\ put = seen /\ seen <= request.hosts
        /\ put = 0 => used <= next.target + 15 + (cursor - (request.first + 2))
        /\ put = 1 => used <= next.target + 15 + (cursor - (request.first + 2))
                                 + next.host + next.port + 1
    BY <1>1 DEF GrowthInv, RequestInv, Copied, TypeOK
  <1>3. CASE n + 2 >= capacity - used
    <2>1. at' = "failed" /\ UNCHANGED <<used, extent>>
      BY <1>3 DEF CopyLine, NoRoom
    <2>2. put > 1
      BY <1>1, <1>2, <1>3 DEF TypeOK
    <2>3. caller > 1
      BY <1>2, <2>2 DEF RequestInv, TypeOK
    <2>4. TypeOK' /\ RequestInv'
      BY <1>1, <2>1 DEF TypeOK, RequestInv, Rewritten
    <2> QED
      BY <1>1, <2>1, <2>3, <2>4 DEF GrowthInv, RewriteSucceeds
  <1>4. CASE n + 2 < capacity - used
    <2>1. at' = "lines" /\ used' = used + n + 2 /\ extent' = used + n + 3
      BY <1>1, <1>2, <1>4 DEF CopyLine, NoRoom, TypeOK
    <2>2. TypeOK' /\ RequestInv' /\ extent' <= capacity'
      BY <1>1, <1>2, <1>4, <2>1 DEF TypeOK, RequestInv, Rewritten
    <2>3. GrowthInv'
      BY <1>1, <1>2, <1>4, <2>1
         DEF GrowthInv, TypeOK, RequestInv, CapacityFor, Copied, AuthorityLength
    <2> QED
      BY <2>1, <2>2, <2>3 DEF RewriteSucceeds
  <1> QED
    BY <1>1, <1>2, <1>3, <1>4 DEF TypeOK

\* Only a caller's request is torn.
LEMMA TornInv ==
    ASSUME Inv, Torn
    PROVE  Inv'
  <1> USE DEF Inv
  <1>1. hop = 1
    BY DEF Torn, RequestInv, GrowthInv, Rewritten, TypeOK
  <1>2. TypeOK' /\ RequestInv' /\ GrowthInv'
    BY <1>1 DEF Torn, TypeOK, RequestInv, Rewritten, GrowthInv
  <1> QED
    BY <1>1, <1>2 DEF Torn, RewriteSucceeds

\* The headers end; a Host line that is added finds room.
LEMMA EndOfLinesInv ==
    ASSUME Inv, EndOfLines
    PROVE  Inv'
  <1> USE RewriteAssumption, Numbers DEF Inv
  <1>1. /\ at = "lines" /\ seen = request.hosts
        /\ UNCHANGED <<hop, caller, request, next, cursor, capacity, seen,
                       replaced_host>>
    BY DEF EndOfLines
  <1>2. /\ capacity = request.length + next.target + next.host + SLACK
        /\ request.first + 2 <= cursor /\ request.first >= 4
        /\ cursor <= request.length
        /\ next.target + 15 <= used /\ used < capacity
        /\ put = seen /\ (replaced_host = 0 <=> seen = 0)
        /\ put = 0 => used <= next.target + 15 + (cursor - (request.first + 2))
        /\ put = 1 => used <= Copied + AuthorityLength(next) + 1
        /\ hop >= 1
    BY <1>1 DEF GrowthInv, RequestInv, Copied
  <1>3. CASE replaced_host = 0
    <2>1. HostLineLength < capacity - used
      BY <1>2, <1>3 DEF TypeOK
    <2>2. /\ at' = "added" /\ used' = used + HostLineLength /\ put' = put + 1
          /\ extent' = used + HostLineLength + 1
      BY <1>2, <1>3, <2>1 DEF EndOfLines, PutHost, Lesser, TypeOK
    <2>3. TypeOK' /\ RequestInv' /\ extent' <= capacity'
      BY <1>1, <1>2, <2>1, <2>2 DEF TypeOK, RequestInv, Rewritten
    <2>4. used' <= Copied' + AuthorityLength(next)' + 8
      BY <1>1, <1>2, <1>3, <2>2 DEF TypeOK, Copied, AuthorityLength
    <2>5. GrowthInv'
      BY <1>1, <1>2, <1>3, <2>1, <2>2, <2>4 DEF GrowthInv, TypeOK, CapacityFor
    <2> QED
      BY <2>2, <2>3, <2>5 DEF RewriteSucceeds
  <1>4. CASE replaced_host # 0
    <2>1. at' = "added" /\ UNCHANGED <<used, extent, put>>
      BY <1>4 DEF EndOfLines
    <2>2. TypeOK' /\ RequestInv' /\ extent' <= capacity'
      BY <1>1, <2>1 DEF TypeOK, RequestInv, Rewritten
    <2>3. Copied \in Int /\ AuthorityLength(next) \in Nat
      BY DEF Copied, TypeOK
    <2>4. put' = 1 => used' <= Copied' + AuthorityLength(next)' + 8
      BY <1>1, <1>2, <2>1, <2>3 DEF TypeOK, Copied, AuthorityLength
    <2>5. GrowthInv'
      BY <1>1, <1>2, <1>4, <2>1, <2>4 DEF GrowthInv, TypeOK, CapacityFor
    <2> QED
      BY <2>1, <2>2, <2>5 DEF RewriteSucceeds
  <1> QED
    BY <1>3, <1>4

\* The request is complete; there is room for its end.
LEMMA FinishInv ==
    ASSUME Inv, Finish
    PROVE  Inv'
  <1> USE RewriteAssumption, Numbers DEF Inv
  <1>1. /\ at = "added" /\ UNCHANGED <<hop, caller, next, cursor, capacity, used,
                                       seen, replaced_host, put>>
    BY DEF Finish
  <1>2. /\ capacity = request.length + next.target + next.host + SLACK
        /\ request.first + 2 <= cursor /\ request.first >= 4
        /\ cursor <= request.length
        /\ next.target + 15 <= used /\ used < capacity
        /\ seen = request.hosts /\ put = IF seen = 0 THEN 1 ELSE seen
        /\ put = 1 => used <= next.target + 15 + (cursor - (request.first + 2))
                                 + next.host + next.port + 8
        /\ hop >= 1
    BY <1>1 DEF GrowthInv, RequestInv, Copied, TypeOK
  <1>3. put = IF caller = 0 THEN 1 ELSE caller
    BY <1>2 DEF RequestInv, TypeOK
  <1>4. CASE used + 2 >= capacity
    <2>1. at' = "failed" /\ UNCHANGED <<request, extent>>
      BY <1>4 DEF Finish
    <2>2. put # 1
      BY <1>2, <1>4 DEF TypeOK
    <2>3. caller > 1
      BY <1>3, <2>2 DEF TypeOK
    <2>4. TypeOK' /\ RequestInv'
      BY <1>1, <2>1 DEF TypeOK, RequestInv, Rewritten
    <2> QED
      BY <1>1, <2>1, <2>3, <2>4 DEF GrowthInv, RewriteSucceeds
  <1>5. CASE used + 2 < capacity
    <2>1. /\ at' = "hop" /\ extent' = used + 3
          /\ request' = [length |-> used + 2, first |-> next.target + 13,
                         hosts |-> put, ends |-> "blank"]
      BY <1>2, <1>5 DEF Finish, TypeOK
    <2>2. TypeOK' /\ extent' <= capacity'
      BY <1>1, <1>2, <1>5, <2>1 DEF TypeOK, RequestType
    <2>3. RequestInv'
      BY <1>1, <1>2, <1>3, <2>1 DEF RequestInv, Rewritten, TypeOK
    <2> QED
      BY <2>1, <2>2, <2>3 DEF GrowthInv, RewriteSucceeds
  <1> QED
    BY <1>2, <1>4, <1>5 DEF TypeOK

-----------------------------------------------------------------------------
\* Inv is inductive.
LEMMA NextInv == Inv /\ [Next]_vars => Inv'
  <1> SUFFICES ASSUME Inv, [Next]_vars PROVE Inv'
    OBVIOUS
  <1>1. CASE UNCHANGED vars
    BY <1>1
       DEF vars, Inv, TypeOK, RequestInv, Rewritten, GrowthInv, RewriteSucceeds,
           CapacityFor, Copied, AuthorityLength
  <1> QED
    BY <1>1, BeginInv, ReplaceHostInv, DropLineInv, CopyLineInv, TornInv,
       EndOfLinesInv, FinishInv
       DEF Next

\* It holds throughout.
LEMMA AlwaysInv == Spec => []Inv
  BY InitInv, NextInv, PTL DEF Spec

\* The variables of a rewrite keep their types.
THEOREM RewriteTypeCorrect == Spec => []TypeOK
  <1>1. Inv => TypeOK
    BY DEF Inv
  <1> QED
    BY <1>1, AlwaysInv, PTL

\* rewrite_get_request_with_policy never writes past its buffer.
THEOREM RewriteStaysInside == Spec => []WithinBuffer
  <1>1. Inv => WithinBuffer
    BY DEF Inv, WithinBuffer, GrowthInv
  <1> QED
    BY <1>1, AlwaysInv, PTL

\* Its buffer is large enough for every request with at most one Host line,
\* on every hop; 32 bytes of slack would do.
THEOREM RewritesFit == Spec => []RewriteSucceeds
  <1>1. Inv => RewriteSucceeds
    BY DEF Inv
  <1> QED
    BY <1>1, AlwaysInv, PTL

\* The hops neither lose nor multiply the Host line.
THEOREM HostsAreKept == Spec => []HostKept
  <1>1. Inv => HostKept
    BY DEF Inv, HostKept, RequestInv, Rewritten, TypeOK
  <1> QED
    BY <1>1, AlwaysInv, PTL

=============================================================================
