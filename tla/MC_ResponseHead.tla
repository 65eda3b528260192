--------------------------- MODULE MC_ResponseHead ---------------------------
(***************************************************************************)
(* Every response head of up to MaxLines lines, one line at a time, with   *)
(* blank lines in it, values that do not fit and lengths that are none.    *)
(***************************************************************************)
EXTENDS ResponseHead

CONSTANTS Names, MaxLines

VARIABLE lines

MC_CaseFold == [h \in Hosts |-> h]

MC_LengthOf == [v \in Values |-> CASE v = "5" -> 5 [] v = "7" -> 7
                                   [] OTHER -> -1]

MC_LocationOf ==
    [v \in Values |-> [form |-> "unusable", host |-> CHOOSE h \in Hosts : TRUE,
                       port |-> AbsentPort, path |-> <<>>, query |-> ""]]

Init == lines = <<>>

Receive ==
    /\ Len(lines) < MaxLines
    /\ \E n \in Names, v \in Values :
          lines' = Append(lines, [name |-> n, value |-> v])

Spec == Init /\ [][Receive]_lines

Named(n) == {i \in DOMAIN lines : lines[i].name = n}

\* A framing the code accepts has one reading, although the value and the
\* number of Content-Length lines come from two different scans of the head:
\* no Transfer-Encoding anywhere in it, and at most one Content-Length, whose
\* number is the one taken.
FramingHasOneReading ==
    ~invalid_framing(lines) =>
        /\ Named("transfer-encoding") = {}
        /\ \/ Named("content-length") = {} /\ content_length(lines) = -1
           \/ \E i \in Named("content-length") :
                 /\ Named("content-length") = {i}
                 /\ content_length(lines) = LengthOf[lines[i].value]
                 /\ content_length(lines) >= 0

\* A body is called identity only when nothing in the head says otherwise: a
\* second, an unreadable or a hidden Content-Encoding is not overlooked.
IdentityIsMeant ==
    content_encoding(lines) = {"identity"} =>
        \A i \in Named("content-encoding") : lines[i].value = "identity"

=============================================================================
