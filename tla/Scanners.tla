------------------------------ MODULE Scanners ------------------------------
(***************************************************************************)
(* The loops that read a text from outside item by item and accept or      *)
(* refuse it: valid_utf8_bytes over the bytes of a captured body,          *)
(* jstring_to_utf8 over the UTF-16 units of a Java string, and the three   *)
(* readers of decimal numbers.  Each is one iteration an action.           *)
(*                                                                         *)
(* A byte or unit is its number; a character of a number is its digit, or  *)
(* -1 for what is none.                                                    *)
(***************************************************************************)
EXTENDS Integers, Sequences

CONSTANTS
    ByteTexts, UnitTexts, NumberTexts,   \* the texts that occur
    LLONG_MAX, INT_MAX,
    PORT_MAX     \* 65535

Numbers == {"parse_content_length", "parse_port_text", "proxy_port"}
Jobs == Numbers \cup {"valid_utf8_bytes", "jstring_to_utf8"}

Byte == 0..255
Unit == 0..65535

ASSUME ScannersAssumption ==
    /\ ByteTexts \subseteq Seq(Byte) /\ UnitTexts \subseteq Seq(Unit)
    /\ NumberTexts \subseteq Seq(-1..9)
    /\ LLONG_MAX \in Nat /\ LLONG_MAX >= 9
    /\ PORT_MAX \in Nat \ {0} /\ INT_MAX \in Nat /\ INT_MAX >= 10 * PORT_MAX + 9

Items(f) ==
    CASE f = "valid_utf8_bytes" -> Byte
      [] f = "jstring_to_utf8"  -> Unit
      [] OTHER                  -> -1..9

Inputs(f) ==
    CASE f = "valid_utf8_bytes" -> ByteTexts
      [] f = "jstring_to_utf8"  -> UnitTexts
      [] OTHER                  -> NumberTexts

VARIABLES
    job, input,
    index,       \* items consumed
    read,        \* the last item looked at
    value,       \* the number so far
    output,      \* the bytes so far
    cuts,        \* history: the pairs <<index, length of output>> so far
    verdict      \* "running", "accepted" or "refused"

vars == <<job, input, index, read, value, output, cuts, verdict>>

Init ==
    /\ job \in Jobs /\ input \in Inputs(job)
    /\ index = 0 /\ read = 0 /\ value = 0 /\ output = <<>> /\ cuts = {<<0, 0>>}
    /\ verdict = "running"

\* One more iteration of that function, or its end.
Iterating(f) == job = f /\ verdict = "running" /\ index < Len(input)
Ending(f) == job = f /\ verdict = "running" /\ index >= Len(input)

Judge(accepted) ==
    /\ verdict' = IF accepted THEN "accepted" ELSE "refused"
    /\ UNCHANGED <<job, input, index, read, value, output, cuts>>

-----------------------------------------------------------------------------
Within(x, least, most) == least <= x /\ x <= most

continuation(byte) == Within(byte, 128, 191)

\* Mutant: the sequence may end one byte after the text.
Room_loose(n) == index + n <= Len(input) + 1

\* Are all n bytes of the sequence in the text?
Room(n) == index + n <= Len(input)

\* The item at a place; what follows the text is not the function's.
ItemAt(k) == IF k <= Len(input) THEN input[k] ELSE 0

\* The length of a sequence by its first byte, 0 for none.
SequenceLength(first) ==
    IF first <= 127 THEN 1
    ELSE IF Within(first, 194, 223) THEN 2
    ELSE IF Within(first, 224, 239) THEN 3
    ELSE IF Within(first, 240, 244) THEN 4
    ELSE 0

\* Mutant: the surrogates are let through.
SecondFits_surrogates(first, second) ==
    IF first = 224 THEN Within(second, 160, 191)
    ELSE IF first = 240 THEN Within(second, 144, 191)
    ELSE IF first = 244 THEN Within(second, 128, 143)
    ELSE continuation(second)

\* The second bytes that make neither a longer form than needed, nor a
\* surrogate, nor a number beyond the last code point.
SecondFits(first, second) ==
    IF first = 224 THEN Within(second, 160, 191)
    ELSE IF first = 237 THEN Within(second, 128, 159)
    ELSE IF first = 240 THEN Within(second, 144, 191)
    ELSE IF first = 244 THEN Within(second, 128, 143)
    ELSE continuation(second)

valid_utf8_bytes ==
    /\ Iterating("valid_utf8_bytes")
    /\ LET first == input[index + 1]
           n     == SequenceLength(first)
           good  == /\ n > 0 /\ Room(n)
                    /\ n > 1 => SecondFits(first, ItemAt(index + 2))
                    /\ n > 2 => continuation(ItemAt(index + 3))
                    /\ n > 3 => continuation(ItemAt(index + 4))
       IN  /\ read' = IF n > 0 /\ Room(n) THEN index + n ELSE index + 1
           /\ index' = IF good THEN index + n ELSE index
           /\ verdict' = IF good THEN verdict ELSE "refused"
    /\ UNCHANGED <<job, input, value, output, cuts>>

valid_utf8_bytes_ends == Ending("valid_utf8_bytes") /\ Judge(TRUE)

-----------------------------------------------------------------------------
High(u) == Within(u, 55296, 56319)
Low(u) == Within(u, 56320, 57343)

Capacity == 4 * Len(input) + 1

\* The bytes append_code_point writes.
Encoding(c) ==
    IF c <= 127 THEN <<c>>
    ELSE IF c <= 2047 THEN <<192 + (c \div 64), 128 + (c % 64)>>
    ELSE IF c <= 65535
    THEN <<224 + (c \div 4096), 128 + ((c \div 64) % 64), 128 + (c % 64)>>
    ELSE <<240 + (c \div 262144), 128 + ((c \div 4096) % 64),
           128 + ((c \div 64) % 64), 128 + (c % 64)>>

\* The code point of that many units has its bytes appended, if they and a
\* NUL fit.
append_code_point(c, m) ==
    IF Len(output) + Len(Encoding(c)) >= Capacity
    THEN verdict' = "refused" /\ UNCHANGED <<index, output, cuts>>
    ELSE /\ output' = output \o Encoding(c)
         /\ index' = index + m
         /\ cuts' = cuts \cup {<<index + m, Len(output) + Len(Encoding(c))>>}
         /\ UNCHANGED verdict

\* Mutant: 2^16 is not added.
Combined_unbiased(high, low) == (high - 55296) * 1024 + (low - 56320)

Combined(high, low) == 65536 + (high - 55296) * 1024 + (low - 56320)

Paired == index + 1 < Len(input) /\ Low(input[index + 2])

jstring_to_utf8 ==
    /\ Iterating("jstring_to_utf8")
    /\ LET u == input[index + 1] IN
          /\ read' = IF High(u) /\ index + 1 < Len(input) THEN index + 2 ELSE index + 1
          /\ IF High(u) /\ Paired
             THEN append_code_point(Combined(u, input[index + 2]), 2)
             ELSE IF High(u) \/ Low(u)
             THEN verdict' = "refused" /\ UNCHANGED <<index, output, cuts>>
             ELSE append_code_point(u, 1)
    /\ UNCHANGED <<job, input, value>>

jstring_to_utf8_ends == Ending("jstring_to_utf8") /\ Judge(TRUE)

-----------------------------------------------------------------------------
\* The digit is taken unless the function refuses the character.
Take(refused) ==
    /\ read' = index + 1
    /\ IF refused
       THEN verdict' = "refused" /\ UNCHANGED <<index, value>>
       ELSE /\ value' = value * 10 + input[index + 1]
            /\ index' = index + 1
            /\ UNCHANGED verdict
    /\ UNCHANGED <<job, input, output, cuts>>

Digit == input[index + 1] >= 0

parse_content_length ==
    /\ Iterating("parse_content_length")
    /\ Take(~Digit \/ value > (LLONG_MAX - input[index + 1]) \div 10)

parse_content_length_ends ==
    Ending("parse_content_length") /\ Judge(Len(input) > 0)

parse_port_text ==
    /\ Iterating("parse_port_text")
    /\ Take(~Digit \/ value * 10 + input[index + 1] > PORT_MAX)

\* Mutant: port 0 is a port.
parse_port_text_ends_zero ==
    Ending("parse_port_text") /\ Judge(Len(input) > 0)

parse_port_text_ends ==
    Ending("parse_port_text") /\ Judge(Len(input) > 0 /\ value >= 1)

\* proxy_configuration tests the number before it multiplies.
proxy_port ==
    /\ Iterating("proxy_port")
    /\ Take(~Digit \/ value > PORT_MAX \div 10)

proxy_port_ends ==
    Ending("proxy_port") /\ Judge(Len(input) > 0 /\ value \in 1..PORT_MAX)

Next ==
    \/ valid_utf8_bytes \/ valid_utf8_bytes_ends
    \/ jstring_to_utf8 \/ jstring_to_utf8_ends
    \/ parse_content_length \/ parse_content_length_ends
    \/ parse_port_text \/ parse_port_text_ends
    \/ proxy_port \/ proxy_port_ends

Spec == Init /\ [][Next]_vars

-----------------------------------------------------------------------------
\* No number outgrows its C type, and nothing beyond the text is read.
TypeOK ==
    /\ job \in Jobs /\ input \in Seq(Items(job))
    /\ index \in 0..Len(input) /\ read \in 0..Len(input)
    /\ value \in 0..(IF job = "parse_content_length" THEN LLONG_MAX ELSE INT_MAX)
    /\ output \in Seq(Byte) /\ cuts \subseteq Nat \X Nat
    /\ verdict \in {"running", "accepted", "refused"}

\* The number that n bytes after the i-th stand for, when they are its
\* shortest form.
BytesValue(s, i, n) ==
    IF n = 1 THEN s[i + 1]
    ELSE IF n = 2 THEN (s[i + 1] - 192) * 64 + s[i + 2] - 128
    ELSE IF n = 3
    THEN (s[i + 1] - 224) * 4096 + (s[i + 2] - 128) * 64 + s[i + 3] - 128
    ELSE (s[i + 1] - 240) * 262144 + (s[i + 2] - 128) * 4096
            + (s[i + 3] - 128) * 64 + s[i + 4] - 128

Lead(n, b) ==
    IF n = 1 THEN Within(b, 0, 127)
    ELSE IF n = 2 THEN Within(b, 192, 223)
    ELSE IF n = 3 THEN Within(b, 224, 239)
    ELSE Within(b, 240, 247)

Least(n) == IF n = 1 THEN 0 ELSE IF n = 2 THEN 128 ELSE IF n = 3 THEN 2048 ELSE 65536

IsScalar(c) == Within(c, 0, 1114111) /\ ~High(c) /\ ~Low(c)

IsEncoding(s, i, n) ==
    /\ i + n <= Len(s)
    /\ Lead(n, s[i + 1])
    /\ \A k \in 2..n : continuation(s[i + k])
    /\ BytesValue(s, i, n) >= Least(n) /\ IsScalar(BytesValue(s, i, n))

\* A text is UTF-8 when it can be cut into encodings.
WellFormed(s) ==
    \E C \in SUBSET (0..Len(s)) :
       /\ 0 \in C /\ Len(s) \in C
       /\ \A i \in C \ {Len(s)} : \E n \in 1..4 : i + n \in C /\ IsEncoding(s, i, n)

\* valid_utf8_bytes, which tests ranges of single bytes, accepts exactly the
\* texts that are encodings of scalar values in their shortest form.
Utf8IsExact ==
    job = "valid_utf8_bytes" /\ verdict # "running" =>
        (verdict = "accepted" <=> WellFormed(input))

Unpaired(s, i) ==
    \/ High(s[i]) /\ ~(i < Len(s) /\ Low(s[i + 1]))
    \/ Low(s[i]) /\ ~(i > 1 /\ High(s[i - 1]))

\* A pair has the ten low bits of each unit, the upper ones 64 larger.
UnitsValue(s, i, m) ==
    IF m = 1 THEN s[i + 1] ELSE (s[i + 1] - 55296 + 64) * 1024 + s[i + 2] - 56320

\* Units i+1 to i+m of s and bytes j+1 to j+n of t are one scalar value.
SameScalar(s, i, m, t, j, n) ==
    /\ i + m <= Len(s)
    /\ IF m = 1 THEN IsScalar(s[i + 1]) ELSE High(s[i + 1]) /\ Low(s[i + 2])
    /\ IsEncoding(t, j, n)
    /\ BytesValue(t, j, n) = UnitsValue(s, i, m)

\* From each pair of C but the last a scalar value leads to another of C.
Chained(s, t, C, last) ==
    \A c \in C \ {last} :
       \E m \in 1..2, n \in 1..4 :
          <<c[1] + m, c[2] + n>> \in C /\ SameScalar(s, c[1], m, t, c[2], n)

\* jstring_to_utf8 refuses a string only for an unpaired surrogate, never for
\* want of room in its buffer; from any other it makes the UTF-8 of its scalar
\* values, one after another, with room for the NUL.
JavaTextIsExact ==
    job = "jstring_to_utf8" =>
        /\ Len(output) < Capacity
        /\ verdict # "running" =>
              (verdict = "refused" <=> \E i \in 1..Len(input) : Unpaired(input, i))
        /\ verdict = "accepted" => <<Len(input), Len(output)>> \in cuts
        /\ <<0, 0>> \in cuts
        /\ Chained(input, output, cuts, <<index, Len(output)>>)

\* The weights of the places of a numeral, the last place first, and the
\* number that its last k characters stand for.
Weights(n) ==
    LET weight[k \in 0..n] == IF k = 0 THEN 1 ELSE 10 * weight[k - 1]
    IN  weight

Sums(s) ==
    LET sum[k \in 0..Len(s)] ==
          IF k = 0 THEN 0
          ELSE sum[k - 1] + s[Len(s) + 1 - k] * Weights(Len(s))[k - 1]
    IN  sum

Decimal(s) == Sums(s)[Len(s)]

Allowed == IF job = "parse_content_length" THEN 0..LLONG_MAX ELSE 1..PORT_MAX

\* The readers of numbers accept exactly the numerals whose number is in
\* range, leading zeros or not, and take that number: whether they test it
\* before they multiply or after.
NumbersAreExact ==
    job \in Numbers /\ verdict # "running" =>
        IF Len(input) > 0 /\ (\A i \in DOMAIN input : input[i] >= 0)
           /\ Decimal(input) \in Allowed
        THEN verdict = "accepted" /\ value = Decimal(input)
        ELSE verdict = "refused"

=============================================================================
