------------------------ MODULE ResponseHeadProofs ------------------------
(***************************************************************************)
(* The properties of a response head, for heads of any number of lines:    *)
(* the scan that counts a header and the scan that copies its value agree  *)
(* wherever the count lets the value be used.                              *)
(***************************************************************************)
EXTENDS MC_ResponseHead, FiniteSetTheorems, TLAPS

\* The lines received so far are a sequence.
LinesAreLines == lines \in Seq([name : Names, value : Values])

\* The lines are a sequence at every moment.
LEMMA AlwaysLines == Spec => []LinesAreLines
  <1>1. Init => LinesAreLines
    BY DEF Init, LinesAreLines
  <1>2. LinesAreLines /\ [Receive]_lines => LinesAreLines'
    <2> SUFFICES ASSUME LinesAreLines, [Receive]_lines PROVE LinesAreLines'
      OBVIOUS
    <2>1. CASE Receive
      <3>1. PICK n \in Names : \E v \in Values : lines' = Append(lines, [name |-> n, value |-> v])
        BY <2>1 DEF Receive
      <3>2. PICK v \in Values : lines' = Append(lines, [name |-> n, value |-> v])
        BY <3>1
      <3>3. [name |-> n, value |-> v] \in [name : Names, value : Values]
        OBVIOUS
      <3> QED
        BY <3>2, <3>3 DEF LinesAreLines
    <2>2. CASE UNCHANGED lines
      BY <2>2 DEF LinesAreLines
    <2> QED
      BY <2>1, <2>2
  <1> QED
    BY <1>1, <1>2, PTL DEF Spec

\* header_count counts the lines of that name.
LEMMA CountsNamed ==
    ASSUME LinesAreLines, NEW name
    PROVE  /\ header_count(lines, name) \in Nat
           /\ header_count(lines, name) = 0 <=> Named(name) = {}
           /\ header_count(lines, name) = 1 <=> \E i : Named(name) = {i}
  <1>1. Named(name) \subseteq 1..Len(lines) /\ Len(lines) \in Nat
    BY DEF Named, LinesAreLines
  <1>2. IsFiniteSet(Named(name))
    <2> DEFINE n == Len(lines)
    <2>1. n \in Int /\ 1 \in Int
      BY <1>1
    <2> HIDE DEF n
    <2>2. IsFiniteSet(1..n)
      BY <2>1, FS_Interval
    <2>3. Named(name) \subseteq 1..n
      BY <1>1 DEF n
    <2> QED
      BY <2>2, <2>3, FS_Subset
  <1>3. header_count(lines, name) = Cardinality(Named(name))
    BY DEF header_count, Named
  <1>4. Cardinality(Named(name)) = 1 <=> \E i : Named(name) = {i}
    BY <1>2, FS_Singleton
  <1> QED
    BY <1>2, <1>3, <1>4, FS_CardinalityType, FS_EmptySet

\* Where a name occurs once, a copied value is that line's.
LEMMA CopiesNamed ==
    ASSUME LinesAreLines, NEW name
    PROVE  /\ Named(name) = {} => copy_header_value(lines, name) = {}
           /\ \A i : Named(name) = {i} =>
                 \/ copy_header_value(lines, name) = {}
                 \/ copy_header_value(lines, name) = {lines[i].value}
  BY DEF copy_header_value, Named

\* What content_length returns.
LEMMA LengthValue ==
    ASSUME LinesAreLines
    PROVE  /\ copy_header_value(lines, "content-length") = {} => content_length(lines) = -1
           /\ \A i \in Named("content-length") :
                 copy_header_value(lines, "content-length") = {lines[i].value} =>
                     /\ content_length(lines) = LengthOf[lines[i].value]
                     /\ content_length(lines) \in Int
  <1>1. ASSUME NEW i \in Named("content-length"),
               copy_header_value(lines, "content-length") = {lines[i].value}
        PROVE  /\ content_length(lines) = LengthOf[lines[i].value]
               /\ content_length(lines) \in Int
    <2>1. (CHOOSE v \in {lines[i].value} : TRUE) = lines[i].value
      OBVIOUS
    <2>2. content_length(lines) = LengthOf[lines[i].value]
      BY <1>1, <2>1 DEF content_length
    <2>3. lines[i].value \in Values
      <3> DEFINE Line == [name : Names, value : Values]
      <3>1. lines \in Seq(Line)
        BY DEF LinesAreLines
      <3>2. i \in 1..Len(lines)
        BY DEF Named, LinesAreLines
      <3> HIDE DEF Line
      <3>3. lines[i] \in Line
        BY <3>1, <3>2
      <3> USE DEF Line
      <3> QED
        BY <3>3
    <2>4. LengthOf[lines[i].value] \in Nat \cup {-1}
      BY <2>3, ResponseHeadAssumption
    <2> QED
      BY <2>2, <2>4
  <1> QED
    BY <1>1 DEF content_length

\* An accepted framing has one reading, in a head of any length.
THEOREM FramingsAreUnambiguous == Spec => []FramingHasOneReading
  <1>1. LinesAreLines => FramingHasOneReading
    <2>1. SUFFICES ASSUME LinesAreLines, ~invalid_framing(lines)
                   PROVE  /\ Named("transfer-encoding") = {}
                          /\ \/ Named("content-length") = {} /\ content_length(lines) = -1
                             \/ \E i \in Named("content-length") :
                                   /\ Named("content-length") = {i}
                                   /\ content_length(lines) = LengthOf[lines[i].value]
                                   /\ content_length(lines) >= 0
      BY DEF FramingHasOneReading
    <2>2. /\ header_count(lines, "transfer-encoding") = 0
          /\ ~(header_count(lines, "content-length") > 1)
          /\ header_count(lines, "content-length") = 1 => ~(content_length(lines) < 0)
      BY <2>1 DEF invalid_framing
    <2>3. Named("transfer-encoding") = {}
      BY <2>1, <2>2, CountsNamed
    <2>4. header_count(lines, "content-length") \in {0, 1}
      <3>1. header_count(lines, "content-length") \in Nat
        BY <2>1, CountsNamed
      <3> QED
        BY <2>2, <3>1
    <2>5. CASE header_count(lines, "content-length") = 0
      <3>1. Named("content-length") = {}
        BY <2>1, <2>5, CountsNamed
      <3>2. content_length(lines) = -1
        BY <2>1, <3>1, CopiesNamed, LengthValue
      <3> QED
        BY <2>3, <3>1, <3>2
    <2>6. CASE header_count(lines, "content-length") = 1
      <3>1. PICK i : Named("content-length") = {i}
        BY <2>1, <2>6, CountsNamed
      <3>2. copy_header_value(lines, "content-length") # {}
        BY <2>1, <2>2, <2>6, LengthValue
      <3>3. copy_header_value(lines, "content-length") = {lines[i].value}
        BY <2>1, <3>1, <3>2, CopiesNamed
      <3>4. /\ content_length(lines) = LengthOf[lines[i].value]
            /\ content_length(lines) \in Int /\ i \in Named("content-length")
        BY <2>1, <3>1, <3>3, LengthValue
      <3>5. content_length(lines) >= 0
        BY <2>2, <2>6, <3>4
      <3> QED
        BY <2>3, <3>1, <3>4, <3>5
    <2> QED
      BY <2>4, <2>5, <2>6
  <1> QED
    BY <1>1, AlwaysLines, PTL

\* A body is called identity only when no line says otherwise, in a head of
\* any length.
THEOREM IdentitiesAreMeant == Spec => []IdentityIsMeant
  <1>1. LinesAreLines => IdentityIsMeant
    <2> DEFINE e == "content-encoding"
    <2>1. SUFFICES ASSUME LinesAreLines, content_encoding(lines) = {"identity"},
                          NEW i \in Named(e)
                   PROVE  lines[i].value = "identity"
      BY DEF IdentityIsMeant
    <2>2. "unsupported" # "identity"
      OBVIOUS
    <2>3. ~(header_count(lines, e) > 1)
      BY <2>1, <2>2 DEF content_encoding
    <2>4. ~(header_count(lines, e) = 1 /\ copy_header_value(lines, e) = {})
      BY <2>1, <2>2 DEF content_encoding
    <2>5. header_count(lines, e) = 1
      <3>1. header_count(lines, e) \in Nat /\ header_count(lines, e) # 0
        BY <2>1, CountsNamed
      <3> QED
        BY <2>3, <3>1
    <2>6. PICK k : Named(e) = {k}
      BY <2>1, <2>5, CountsNamed
    <2>7. k = i /\ copy_header_value(lines, e) = {lines[i].value}
      BY <2>1, <2>4, <2>5, <2>6, CopiesNamed
    <2>8. content_encoding(lines) = copy_header_value(lines, e)
      BY <2>3, <2>4, <2>5 DEF content_encoding
    <2> QED
      BY <2>1, <2>7, <2>8
  <1> QED
    BY <1>1, AlwaysLines, PTL

=============================================================================
