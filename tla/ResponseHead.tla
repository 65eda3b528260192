---------------------------- MODULE ResponseHead ----------------------------
(***************************************************************************)
(* What read_response_head makes of the header lines it has received.      *)
(*                                                                         *)
(* lines is the head after its status line, up to the blank line that ends *)
(* it: each line has a name, folded to lower case, and a trimmed value.  A *)
(* line named BlankLine is empty but ended by a bare line feed, so that    *)
(* find_header_end has gone past it: copy_header_value stops there,        *)
(* header_count does not.                                                  *)
(***************************************************************************)
EXTENDS Redirect, FiniteSets

CONSTANTS
    Values,      \* values a header line may carry
    Unfit,       \* those that are empty or longer than their buffer
    LengthOf,    \* LengthOf[v]: parse_content_length(v), -1 for no number
    LocationOf   \* LocationOf[v]: v read as the value of a Location

ASSUME ResponseHeadAssumption ==
    /\ Unfit \subseteq Values
    /\ LengthOf \in [Values -> Nat \cup {-1}]
    /\ LocationOf \in [Values -> Locations]

BlankLine == ""

HeaderLines == Seq([name : STRING, value : Values])

\* The value of the first line of that name before any blank line: a set with
\* that value, or the empty set when there is none or it does not fit.
copy_header_value(lines, name) ==
    {lines[i].value : i \in
        {j \in DOMAIN lines :
            /\ lines[j].name = name
            /\ lines[j].value \notin Unfit
            /\ \A k \in 1..(j - 1) : lines[k].name \notin {name, BlankLine}}}

\* Mutant: counting stops where copying stops.
header_count_before_blank(lines, name) ==
    Cardinality({i \in DOMAIN lines :
                    /\ lines[i].name = name
                    /\ \A k \in 1..i : lines[k].name # BlankLine})

header_count(lines, name) ==
    Cardinality({i \in DOMAIN lines : lines[i].name = name})

content_length(lines) ==
    IF copy_header_value(lines, "content-length") = {} THEN -1
    ELSE LengthOf[CHOOSE v \in copy_header_value(lines, "content-length") : TRUE]

has_location(lines) == copy_header_value(lines, "location") # {}

location(lines) ==
    LocationOf[CHOOSE v \in copy_header_value(lines, "location") : TRUE]

\* A capture refuses a head of which this holds.
invalid_framing(lines) ==
    \/ header_count(lines, "content-length") > 1
    \/ header_count(lines, "content-length") = 1 /\ content_length(lines) < 0
    \/ header_count(lines, "transfer-encoding") # 0

\* Mutant: a value that cannot be copied leaves the default in place.
content_encoding_default(lines) ==
    IF header_count(lines, "content-encoding") > 1 THEN {"unsupported"}
    ELSE IF copy_header_value(lines, "content-encoding") = {} THEN {"identity"}
    ELSE copy_header_value(lines, "content-encoding")

\* The field starts as "identity"; a value that is there but cannot be copied
\* does not leave it so.
content_encoding(lines) ==
    IF \/ header_count(lines, "content-encoding") > 1
       \/ /\ header_count(lines, "content-encoding") = 1
          /\ copy_header_value(lines, "content-encoding") = {}
    THEN {"unsupported"}
    ELSE IF copy_header_value(lines, "content-encoding") = {} THEN {"identity"}
    ELSE copy_header_value(lines, "content-encoding")

=============================================================================
