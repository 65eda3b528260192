--------------------------- MODULE ScannersProofs ---------------------------
(***************************************************************************)
(* What the loops compute, for texts of any length, and that none of them  *)
(* reads beyond its text or outgrows a C type.                             *)
(***************************************************************************)
EXTENDS Scanners, SequenceTheorems, WellFoundedInduction, TLAPS

\* C cuts the first k bytes into encodings.
CutsInto(C, s, k) ==
    /\ 0 \in C /\ k \in C
    /\ \A i \in C \ {k} : \E n \in 1..4 : i + n \in C /\ IsEncoding(s, i, n)

\* What was consumed is cut into encodings, and every way to cut the whole
\* text has a cut where the loop stands.
ValidInv ==
    job = "valid_utf8_bytes" =>
        /\ verdict # "refused" =>
              \E C \in SUBSET (0..index) : CutsInto(C, input, index)
        /\ \A C \in SUBSET (0..Len(input)) : CutsInto(C, input, Len(input)) => index \in C
        /\ verdict = "accepted" => index = Len(input)
        /\ verdict = "refused" => ~WellFormed(input)

JavaInv ==
    job = "jstring_to_utf8" =>
        /\ Len(output) <= 4 * index
        /\ <<0, 0>> \in cuts /\ <<index, Len(output)>> \in cuts
        /\ Chained(input, output, cuts, <<index, Len(output)>>)
        /\ \A i \in 1..index : ~Unpaired(input, i)
        /\ index > 0 => ~High(input[index])
        /\ verdict = "accepted" => index = Len(input)
        /\ verdict = "refused" => \E i \in 1..Len(input) : Unpaired(input, i)

Inv == TypeOK /\ ValidInv /\ JavaInv

\* The range tests of one iteration of valid_utf8_bytes.
Good ==
    LET first == input[index + 1]
        n     == SequenceLength(first)
    IN  /\ n > 0 /\ Room(n)
        /\ n > 1 => SecondFits(first, ItemAt(index + 2))
        /\ n > 2 => continuation(ItemAt(index + 3))
        /\ n > 3 => continuation(ItemAt(index + 4))

\* The second byte by the first.
LEMMA SecondByte ==
    ASSUME NEW a \in Int, 224 <= a, a <= 244, NEW b \in Int
    PROVE  SecondFits(a, b) <=>
              /\ 128 <= b /\ b <= 191
              /\ a = 224 => b >= 160
              /\ a = 237 => b <= 159
              /\ a = 240 => b >= 144
              /\ a = 244 => b <= 143
  <1>1. CASE a = 224
    BY <1>1, SMT DEF SecondFits, Within
  <1>2. CASE a = 237
    BY <1>2, SMT DEF SecondFits, Within
  <1>3. CASE a = 240
    BY <1>3, SMT DEF SecondFits, Within
  <1>4. CASE a = 244
    BY <1>4, SMT DEF SecondFits, Within
  <1>5. CASE a \notin {224, 237, 240, 244}
    BY <1>5, SMT DEF SecondFits, continuation, Within
  <1> QED
    BY <1>1, <1>2, <1>3, <1>4, <1>5, SMT

\* The numbers of three and of four bytes.
Value3(a, b, c) == (a - 224) * 4096 + (b - 128) * 64 + c - 128

Value4(a, b, c, d) ==
    (a - 240) * 262144 + (b - 128) * 4096 + (c - 128) * 64 + d - 128

\* Three bytes.
LEMMA ThreeBytes ==
    ASSUME NEW a \in Int, 224 <= a, a <= 239, NEW b \in Int, 128 <= b, b <= 191,
           NEW c \in Int, 128 <= c, c <= 191
    PROVE  SecondFits(a, b) <=> Value3(a, b, c) >= 2048 /\ IsScalar(Value3(a, b, c))
  <1> DEFINE v == Value3(a, b, c)
  <1>1. SecondFits(a, b) <=> (a = 224 => b >= 160) /\ (a = 237 => b <= 159)
    BY SecondByte, SMT
  <1>2. v >= 2048 <=> (a = 224 => b >= 160)
    BY SMT DEF Value3
  <1>3. IsScalar(v) => (a = 237 => b <= 159)
    BY SMT DEF IsScalar, High, Low, Within, Value3
  <1>4. ASSUME a = 224 => b >= 160, a = 237 => b <= 159
        PROVE  IsScalar(v)
    BY <1>4, SMT DEF IsScalar, High, Low, Within, Value3
  <1> QED
    BY <1>1, <1>2, <1>3, <1>4, SMT

\* Four bytes.
LEMMA FourBytes ==
    ASSUME NEW a \in Int, 240 <= a, a <= 247, NEW b \in Int, 128 <= b, b <= 191,
           NEW c \in Int, 128 <= c, c <= 191, NEW d \in Int, 128 <= d, d <= 191
    PROVE  (a <= 244 /\ SecondFits(a, b))
           <=> Value4(a, b, c, d) >= 65536 /\ IsScalar(Value4(a, b, c, d))
  <1> DEFINE v == Value4(a, b, c, d)
  <1>1. ASSUME a <= 244
        PROVE  SecondFits(a, b) <=> (a = 240 => b >= 144) /\ (a = 244 => b <= 143)
    BY <1>1, SecondByte, SMT
  <1>2. v >= 65536 <=> (a = 240 => b >= 144)
    BY SMT DEF Value4
  <1>3. IsScalar(v) => a <= 244 /\ (a = 244 => b <= 143)
    BY SMT DEF IsScalar, High, Low, Within, Value4
  <1>4. ASSUME a <= 244, a = 244 => b <= 143, a = 240 => b >= 144
        PROVE  IsScalar(v)
    BY <1>4, SMT DEF IsScalar, High, Low, Within, Value4
  <1> QED
    BY <1>1, <1>2, <1>3, <1>4, SMT

\* The bounds of a byte and of a unit.
LEMMA ItemBounds ==
    /\ \A b \in Byte : b \in Int /\ 0 <= b /\ b <= 255
    /\ \A u \in Unit : u \in Int /\ 0 <= u /\ u <= 65535
  BY SMT DEF Byte, Unit

\* A byte of the text.
LEMMA ByteAt ==
    ASSUME input \in Seq(Byte), NEW k \in Nat, 1 <= k, k <= Len(input)
    PROVE  input[k] \in Int /\ 0 <= input[k] /\ input[k] <= 255
  <1>1. input[k] \in Byte
    BY SMT
  <1> QED
    BY <1>1, ItemBounds, SMT

\* What the tests accept is an encoding.
LEMMA GoodEncodes ==
    ASSUME input \in Seq(Byte), index \in Nat, index < Len(input), Good,
           NEW n, n = SequenceLength(input[index + 1])
    PROVE  n \in 1..4 /\ IsEncoding(input, index, n)
  <1>0. PICK a : a = input[index + 1]
    BY SMT
  <1>1. a \in Int /\ 0 <= a /\ a <= 255 /\ Len(input) \in Nat
    BY <1>0, ByteAt, SMT
  <1>2. n \in 1..4 /\ index + n <= Len(input)
    BY <1>0, <1>1, SMT DEF Good, Room, SequenceLength, Within
  <1>3. /\ n > 1 => SecondFits(a, input[index + 2])
        /\ n > 2 => continuation(input[index + 3])
        /\ n > 3 => continuation(input[index + 4])
    BY <1>0, <1>1, <1>2, SMT DEF Good, ItemAt
  <1>4. \A k \in 2..n : input[index + k] \in Int
    BY <1>1, <1>2, ByteAt, SMT
  <1>5. CASE n = 1
    <2>1. 0 <= a /\ a <= 127
      BY <1>0, <1>1, <1>5, SMT DEF SequenceLength, Within
    <2> QED
      BY <1>0, <1>1, <1>2, <1>5, <2>1, SMT
         DEF IsEncoding, BytesValue, Lead, Least, IsScalar, High, Low, Within
  <1>6. CASE n = 2
    <2>1. 194 <= a /\ a <= 223
      BY <1>0, <1>1, <1>6, SMT DEF SequenceLength, Within
    <2>2. PICK b : b = input[index + 2]
      BY SMT
    <2>3. b \in Int /\ 128 <= b /\ b <= 191
      BY <1>3, <1>4, <1>6, <2>1, <2>2, SMT DEF SecondFits, continuation, Within
    <2>4. \A k \in 2..n : continuation(input[index + k])
      BY <1>6, <2>2, <2>3, SMT DEF continuation, Within
    <2>5. BytesValue(input, index, n) = (a - 192) * 64 + b - 128
      BY <1>0, <1>6, <2>2, SMT DEF BytesValue
    <2>6. Lead(n, a) /\ Least(n) = 128
      BY <1>1, <1>6, <2>1, SMT DEF Lead, Least, Within
    <2>7. PICK v : v = (a - 192) * 64 + b - 128
      BY SMT
    <2>8. v >= 128 /\ IsScalar(v)
      BY <1>1, <2>1, <2>3, <2>7, SMT DEF IsScalar, High, Low, Within
    <2> QED
      BY <1>0, <1>2, <2>4, <2>5, <2>6, <2>7, <2>8, SMT DEF IsEncoding
  <1>7. CASE n = 3
    <2>1. 224 <= a /\ a <= 239
      BY <1>0, <1>1, <1>7, SMT DEF SequenceLength, Within
    <2>2. PICK b : b = input[index + 2]
      BY SMT
    <2>3. PICK c : c = input[index + 3]
      BY SMT
    <2>4. b \in Int /\ SecondFits(a, b) /\ 128 <= b /\ b <= 191
      BY <1>1, <1>3, <1>4, <1>7, <2>1, <2>2, SecondByte, SMT
    <2>5. c \in Int /\ 128 <= c /\ c <= 191
      BY <1>3, <1>4, <1>7, <2>3, SMT DEF continuation, Within
    <2>6. \A k \in 2..n : continuation(input[index + k])
      BY <1>7, <2>2, <2>3, <2>4, <2>5, SMT DEF continuation, Within
    <2>7. PICK v : v = Value3(a, b, c)
      BY SMT
    <2>8. BytesValue(input, index, n) = v
      BY <1>0, <1>7, <2>2, <2>3, <2>7, SMT DEF BytesValue, Value3
    <2>9. v >= 2048 /\ IsScalar(v)
      BY <1>1, <2>1, <2>4, <2>5, <2>7, ThreeBytes, SMT
    <2>10. Lead(n, a) /\ Least(n) = 2048
      BY <1>1, <1>7, <2>1, SMT DEF Lead, Least, Within
    <2> QED
      BY <1>0, <1>2, <2>6, <2>8, <2>9, <2>10, SMT DEF IsEncoding
  <1>8. CASE n = 4
    <2>1. 240 <= a /\ a <= 244
      BY <1>0, <1>1, <1>8, SMT DEF SequenceLength, Within
    <2>2. PICK b : b = input[index + 2]
      BY SMT
    <2>3. PICK c : c = input[index + 3]
      BY SMT
    <2>4. PICK d : d = input[index + 4]
      BY SMT
    <2>5. b \in Int /\ SecondFits(a, b) /\ 128 <= b /\ b <= 191
      BY <1>1, <1>3, <1>4, <1>8, <2>1, <2>2, SecondByte, SMT
    <2>6. c \in Int /\ 128 <= c /\ c <= 191 /\ d \in Int /\ 128 <= d /\ d <= 191
      BY <1>3, <1>4, <1>8, <2>3, <2>4, SMT DEF continuation, Within
    <2>7. \A k \in 2..n : continuation(input[index + k])
      BY <1>8, <2>2, <2>3, <2>4, <2>5, <2>6, SMT DEF continuation, Within
    <2>8. PICK v : v = Value4(a, b, c, d)
      BY SMT
    <2>9. BytesValue(input, index, n) = v
      BY <1>0, <1>8, <2>2, <2>3, <2>4, <2>8, SMT DEF BytesValue, Value4
    <2>10. v >= 65536 /\ IsScalar(v)
      BY <1>1, <2>1, <2>5, <2>6, <2>8, FourBytes, SMT
    <2>11. Lead(n, a) /\ Least(n) = 65536
      BY <1>1, <1>8, <2>1, SMT DEF Lead, Least, Within
    <2> QED
      BY <1>0, <1>2, <2>7, <2>9, <2>10, <2>11, SMT DEF IsEncoding
  <1> QED
    BY <1>2, <1>5, <1>6, <1>7, <1>8, SMT

\* An encoding passes the tests, as a sequence of its own length.
LEMMA EncodingIsGood ==
    ASSUME input \in Seq(Byte), index \in Nat, index < Len(input),
           NEW n \in 1..4, IsEncoding(input, index, n)
    PROVE  Good /\ SequenceLength(input[index + 1]) = n
  <1>0. PICK a : a = input[index + 1]
    BY SMT
  <1>1. a \in Int /\ 0 <= a /\ a <= 255 /\ Len(input) \in Nat /\ index + n <= Len(input)
    BY <1>0, ByteAt, SMT DEF IsEncoding
  <1>2. /\ Lead(n, a) /\ \A k \in 2..n : continuation(input[index + k])
        /\ BytesValue(input, index, n) >= Least(n)
        /\ IsScalar(BytesValue(input, index, n))
    BY <1>0, SMT DEF IsEncoding
  <1>4. \A k \in 2..n : input[index + k] \in Int
    BY <1>1, ByteAt, SMT
  <1>3. SequenceLength(a) = n /\ (n > 1 => SecondFits(a, input[index + 2]))
    <2>1. CASE n = 1
      BY <1>1, <1>2, <2>1, SMT DEF Lead, SequenceLength, Within
    <2>2. CASE n = 2
      <3>1. PICK b : b = input[index + 2]
        BY SMT
      <3>2. 192 <= a /\ a <= 223 /\ b \in Int /\ 128 <= b /\ b <= 191
        BY <1>1, <1>2, <1>4, <2>2, <3>1, SMT DEF Lead, continuation, Within
      <3>3. (a - 192) * 64 + b - 128 >= 128
        BY <1>0, <1>2, <2>2, <3>1, SMT DEF BytesValue, Least
      <3>4. a >= 194
        BY <1>1, <3>2, <3>3, SMT
      <3> QED
        BY <1>1, <2>2, <3>1, <3>2, <3>4, SMT DEF SequenceLength, SecondFits, continuation, Within
    <2>3. CASE n = 3
      <3>1. PICK b : b = input[index + 2]
        BY SMT
      <3>2. PICK c : c = input[index + 3]
        BY SMT
      <3>3. /\ 224 <= a /\ a <= 239 /\ b \in Int /\ 128 <= b /\ b <= 191
            /\ c \in Int /\ 128 <= c /\ c <= 191
        BY <1>1, <1>2, <1>4, <2>3, <3>1, <3>2, SMT DEF Lead, continuation, Within
      <3>4. PICK v : v = Value3(a, b, c)
        BY SMT
      <3>5. v >= 2048 /\ IsScalar(v)
        BY <1>0, <1>2, <2>3, <3>1, <3>2, <3>4, SMT DEF BytesValue, Least, Value3
      <3>6. SecondFits(a, b)
        BY <1>1, <3>3, <3>4, <3>5, ThreeBytes, SMT
      <3> QED
        BY <1>1, <2>3, <3>1, <3>3, <3>6, SMT DEF SequenceLength, Within
    <2>4. CASE n = 4
      <3>1. PICK b : b = input[index + 2]
        BY SMT
      <3>2. PICK c : c = input[index + 3]
        BY SMT
      <3>3. PICK d : d = input[index + 4]
        BY SMT
      <3>4. /\ 240 <= a /\ a <= 247 /\ b \in Int /\ 128 <= b /\ b <= 191
            /\ c \in Int /\ 128 <= c /\ c <= 191 /\ d \in Int /\ 128 <= d /\ d <= 191
        BY <1>1, <1>2, <1>4, <2>4, <3>1, <3>2, <3>3, SMT DEF Lead, continuation, Within
      <3>5. PICK v : v = Value4(a, b, c, d)
        BY SMT
      <3>6. v >= 65536 /\ IsScalar(v)
        BY <1>0, <1>2, <2>4, <3>1, <3>2, <3>3, <3>5, SMT DEF BytesValue, Least, Value4
      <3>7. a <= 244 /\ SecondFits(a, b)
        BY <1>1, <3>4, <3>5, <3>6, FourBytes, SMT
      <3> QED
        BY <1>1, <2>4, <3>1, <3>4, <3>7, SMT DEF SequenceLength, Within
    <2> QED
      BY <2>1, <2>2, <2>3, <2>4, SMT
  <1> QED
    BY <1>0, <1>1, <1>2, <1>3, SMT DEF Good, Room, ItemAt, continuation, Within

\* One iteration of valid_utf8_bytes.
LEMMA ValidStepInv ==
    ASSUME Inv, valid_utf8_bytes
    PROVE  Inv'
  <1>0. /\ job = "valid_utf8_bytes" /\ verdict = "running" /\ index < Len(input)
        /\ UNCHANGED <<job, input, value, output, cuts>>
    BY SMT DEF valid_utf8_bytes, Iterating
  <1>1. input \in Seq(Byte) /\ index \in Nat /\ Len(input) \in Nat
    BY <1>0, SMT DEF Inv, TypeOK, Items
  <1>2. PICK n : n = SequenceLength(input[index + 1])
    BY SMT
  <1>3. /\ read' = IF n > 0 /\ Room(n) THEN index + n ELSE index + 1
        /\ index' = IF Good THEN index + n ELSE index
        /\ verdict' = IF Good THEN verdict ELSE "refused"
    BY <1>2, SMT DEF valid_utf8_bytes, Good
  <1>4. n \in Int
    BY <1>2, SMT DEF SequenceLength
  <1>5. read' \in 0..Len(input)
    BY <1>1, <1>3, <1>4, <1>0, SMT DEF Room
  <1>6. JavaInv'
    BY <1>0, SMT DEF JavaInv
  <1>7. \A C \in SUBSET (0..Len(input)) : CutsInto(C, input, Len(input)) => index \in C
    BY <1>0, SMT DEF Inv, ValidInv
  <1>8. CASE Good
    <2>1. n \in 1..4 /\ IsEncoding(input, index, n)
      BY <1>0, <1>1, <1>2, <1>8, GoodEncodes, SMT
    <2>2. index' = index + n /\ index + n <= Len(input) /\ verdict' = "running"
      BY <1>0, <1>3, <1>8, <2>1, SMT DEF IsEncoding
    <2>3. TypeOK'
      <3>1. index' \in 0..Len(input)
        BY <1>1, <2>1, <2>2, SMT
      <3> QED
        BY <1>0, <1>5, <2>2, <3>1, SMT DEF Inv, TypeOK
    <2>4. \E C \in SUBSET (0..index') : CutsInto(C, input, index')
      <3>1. PICK C \in SUBSET (0..index) : CutsInto(C, input, index)
        BY <1>0, SMT DEF Inv, ValidInv
      <3> DEFINE D == C \cup {index + n}
      <3>3. D \in SUBSET (0..index')
        BY <1>1, <2>1, <2>2, <3>1, SMT
      <3>4. \A i \in D \ {index + n} : \E k \in 1..4 : i + k \in D /\ IsEncoding(input, i, k)
        BY <2>1, <3>1, SMT DEF CutsInto
      <3>5. CutsInto(D, input, index')
        BY <2>2, <3>1, <3>4, SMT DEF CutsInto
      <3> QED
        BY <3>3, <3>5, SMT
    <2>5. ASSUME NEW C \in SUBSET (0..Len(input)), CutsInto(C, input, Len(input))
          PROVE  index' \in C
      <3>1. index \in C /\ index # Len(input)
        BY <1>0, <1>1, <1>7, <2>5, SMT
      <3>2. PICK k \in 1..4 : index + k \in C /\ IsEncoding(input, index, k)
        BY <2>5, <3>1, SMT DEF CutsInto
      <3>3. k = n
        BY <1>0, <1>1, <1>2, <3>2, EncodingIsGood, SMT
      <3> QED
        BY <2>2, <3>2, <3>3, SMT
    <2>6. ValidInv'
      BY <1>0, <2>2, <2>4, <2>5, SMT DEF ValidInv
    <2> QED
      BY <1>6, <2>3, <2>6, SMT DEF Inv
  <1>9. CASE ~Good
    <2>1. index' = index /\ verdict' = "refused"
      BY <1>3, <1>9, SMT
    <2>2. TypeOK'
      BY <1>0, <1>5, <2>1, SMT DEF Inv, TypeOK
    <2>3. ~WellFormed(input)
      <3>1. SUFFICES ASSUME WellFormed(input) PROVE FALSE
        BY SMT
      <3>2. PICK C \in SUBSET (0..Len(input)) : CutsInto(C, input, Len(input))
        BY <3>1, SMT DEF WellFormed, CutsInto
      <3>3. index \in C /\ index # Len(input)
        BY <1>0, <1>1, <1>7, <3>2, SMT
      <3>4. PICK k \in 1..4 : index + k \in C /\ IsEncoding(input, index, k)
        BY <3>2, <3>3, SMT DEF CutsInto
      <3> QED
        BY <1>0, <1>1, <1>9, <3>4, EncodingIsGood, SMT
    <2>4. ValidInv'
      BY <1>0, <1>7, <2>1, <2>3, SMT DEF ValidInv
    <2> QED
      BY <1>6, <2>2, <2>4, SMT DEF Inv
  <1> QED
    BY <1>8, <1>9, SMT

\* The end of a text, whichever function reads it.
LEMMA JudgeInv ==
    ASSUME Inv, verdict = "running", index >= Len(input),
           UNCHANGED <<job, input, index, read, value, output, cuts>>,
           verdict' \in {"accepted", "refused"},
           job \notin Numbers => verdict' = "accepted"
    PROVE  Inv'
  <1>1. job \in {"valid_utf8_bytes", "jstring_to_utf8"} => verdict' = "accepted"
    BY SMT DEF Numbers
  <1>2. TypeOK'
    BY <1>1, SMT DEF Inv, TypeOK
  <1>3. index = Len(input)
    <2>1. input \in Seq(Items(job)) /\ index \in 0..Len(input)
      BY SMT DEF Inv, TypeOK
    <2> QED
      BY <1>1, <2>1, SMT
  <1>4. ValidInv'
    BY <1>1, <1>3, SMT DEF Inv, ValidInv
  <1>5. JavaInv'
    BY <1>1, <1>3, SMT DEF Inv, JavaInv
  <1> QED
    BY <1>2, <1>4, <1>5, SMT DEF Inv

\* The bytes of equal stretches mean the same.
LEMMA Stretch ==
    ASSUME NEW s, NEW t, NEW i \in Nat, NEW j \in Nat, NEW n \in 1..4,
           i + n <= Len(s), j + n <= Len(t),
           \A k \in 1..4 : k <= n => s[i + k] = t[j + k] /\ s[i + k] \in Int
    PROVE  /\ BytesValue(s, i, n) = BytesValue(t, j, n)
           /\ IsEncoding(s, i, n) => IsEncoding(t, j, n)
  <1>1. BytesValue(s, i, n) = BytesValue(t, j, n)
    <2>1. PICK a \in Int : a = s[i + 1] /\ a = t[j + 1]
      BY SMT
    <2>2. CASE n = 1
      BY <2>1, <2>2, SMT DEF BytesValue
    <2>3. CASE n > 1
      <3>1. PICK b \in Int : b = s[i + 2] /\ b = t[j + 2]
        BY <2>3, SMT
      <3>2. CASE n = 2
        BY <2>1, <3>1, <3>2, SMT DEF BytesValue
      <3>3. CASE n > 2
        <4>1. PICK c \in Int : c = s[i + 3] /\ c = t[j + 3]
          BY <3>3, SMT
        <4>2. CASE n = 3
          BY <2>1, <3>1, <4>1, <4>2, SMT DEF BytesValue
        <4>3. CASE n = 4
          <5>1. PICK d \in Int : d = s[i + 4] /\ d = t[j + 4]
            BY <4>3, SMT
          <5> QED
            BY <2>1, <3>1, <4>1, <4>3, <5>1, SMT DEF BytesValue
        <4>4. n = 3 \/ n = 4
          BY <3>3, SMT
        <4> QED
          BY <4>2, <4>3, <4>4, SMT
      <3> QED
        BY <2>3, <3>2, <3>3, SMT
    <2> QED
      BY <2>2, <2>3, SMT
  <1>2. s[i + 1] = t[j + 1]
    BY SMT
  <1>3. ASSUME NEW k \in 2..n PROVE s[i + k] = t[j + k]
    <2>1. n \in Int /\ n <= 4
      BY SMT
    <2>2. k \in Int /\ 2 <= k /\ k <= n
      BY <1>3, <2>1, SMT
    <2>3. k \in 1..4
      BY <2>1, <2>2, SMT
    <2> QED
      BY <2>2, <2>3, SMT
  <1>4. ASSUME IsEncoding(s, i, n) PROVE IsEncoding(t, j, n)
    <2>0. \A k \in 2..n : continuation(s[i + k])
      BY <1>4, Zenon DEF IsEncoding
    <2>1. ASSUME NEW k \in 2..n PROVE continuation(t[j + k])
      <3>1. continuation(s[i + k])
        BY <2>0, <2>1, Zenon
      <3> QED
        BY <1>3, <2>1, <3>1, SMT
    <2> QED
      BY <1>1, <1>2, <1>4, <2>1, SMT DEF IsEncoding
  <1> QED
    BY <1>1, <1>4, SMT

\* A code point that one unit can be.
OneUnit(c) == c <= 65535

\* append_code_point writes the encoding of its code point.
LEMMA EncodingOf ==
    ASSUME NEW c \in Int, IsScalar(c), NEW e, e = Encoding(c)
    PROVE  /\ e \in Seq(Byte) /\ Len(e) \in 1..4 /\ (OneUnit(c) => Len(e) <= 3)
           /\ IsEncoding(e, 0, Len(e)) /\ BytesValue(e, 0, Len(e)) = c
  <1>0. 0 <= c /\ c <= 1114111
    BY SMT DEF IsScalar, Within
  <1>1. PICK q \in Int : q = c \div 64
    BY SMT
  <1>2. PICK r \in Int : r = c % 64
    BY SMT
  <1>3. c = 64 * q + r /\ 0 <= r /\ r <= 63 /\ 0 <= q
    BY <1>0, <1>1, <1>2, SMT
  <1>4. PICK q2 \in Int : q2 = c \div 4096
    BY SMT
  <1>5. PICK r2 \in Int : r2 = q % 64
    BY SMT
  <1>6. q = 64 * q2 + r2 /\ 0 <= r2 /\ r2 <= 63 /\ 0 <= q2
    BY <1>0, <1>1, <1>3, <1>4, <1>5, SMT
  <1>7. PICK q3 \in Int : q3 = c \div 262144
    BY SMT
  <1>8. PICK r3 \in Int : r3 = q2 % 64
    BY SMT
  <1>9. q2 = 64 * q3 + r3 /\ 0 <= r3 /\ r3 <= 63 /\ 0 <= q3
    BY <1>0, <1>3, <1>4, <1>6, <1>7, <1>8, SMT
  <1>10. CASE c <= 127
    <2>1. e = <<c>>
      BY <1>10, SMT DEF Encoding
    <2>2. Len(e) = 1 /\ e[1] = c
      BY <2>1, SMT
    <2>3. c \in Byte
      BY <1>0, <1>10, SMT DEF Byte
    <2>4. e \in Seq(Byte)
      BY <2>1, <2>3, SMT
    <2>5. BytesValue(e, 0, 1) = c
      BY <2>2, SMT DEF BytesValue
    <2>6. Lead(1, c) /\ Least(1) = 0
      BY <1>0, <1>10, SMT DEF Lead, Least, Within
    <2>7. IsEncoding(e, 0, 1)
      BY <1>0, <2>2, <2>5, <2>6, SMT DEF IsEncoding
    <2> QED
      BY <2>2, <2>4, <2>5, <2>7, SMT
  <1>11. CASE 127 < c /\ c <= 2047
    <2>0. q <= 31 /\ q >= 2
      BY <1>3, <1>11, SMT
    <2>1. e = <<192 + q, 128 + r>>
      BY <1>1, <1>2, <1>11, SMT DEF Encoding
    <2>2. Len(e) = 2 /\ e[1] = 192 + q /\ e[2] = 128 + r
      BY <2>1, SMT
    <2>3. 192 + q \in Byte /\ 128 + r \in Byte
      BY <1>3, <2>0, SMT DEF Byte
    <2>4. e \in Seq(Byte)
      BY <2>1, <2>3, SMT
    <2>5. BytesValue(e, 0, 2) = c
      BY <1>3, <2>2, SMT DEF BytesValue
    <2>6. Lead(2, 192 + q) /\ Least(2) = 128
      BY <2>0, SMT DEF Lead, Least, Within
    <2>7. \A k \in 2..2 : continuation(e[0 + k])
      BY <1>3, <2>2, SMT DEF continuation, Within
    <2>8. IsEncoding(e, 0, 2)
      BY <1>11, <2>2, <2>5, <2>6, <2>7, SMT DEF IsEncoding
    <2> QED
      BY <2>2, <2>4, <2>5, <2>8, SMT
  <1>12. CASE 2047 < c /\ c <= 65535
    <2>0. q2 <= 15
      BY <1>3, <1>6, <1>12, SMT
    <2>1. e = <<224 + q2, 128 + r2, 128 + r>>
      BY <1>1, <1>2, <1>4, <1>5, <1>12, SMT DEF Encoding
    <2>2. Len(e) = 3 /\ e[1] = 224 + q2 /\ e[2] = 128 + r2 /\ e[3] = 128 + r
      BY <2>1, SMT
    <2>3. 224 + q2 \in Byte /\ 128 + r2 \in Byte /\ 128 + r \in Byte
      BY <1>3, <1>6, <2>0, SMT DEF Byte
    <2>4. e \in Seq(Byte)
      BY <2>1, <2>3, SMT
    <2>5. BytesValue(e, 0, 3) = c
      BY <1>3, <1>6, <2>2, SMT DEF BytesValue
    <2>6. Lead(3, 224 + q2) /\ Least(3) = 2048
      BY <1>6, <2>0, SMT DEF Lead, Least, Within
    <2>7. \A k \in 2..3 : continuation(e[0 + k])
      BY <1>3, <1>6, <2>2, SMT DEF continuation, Within
    <2>8. IsEncoding(e, 0, 3)
      BY <1>12, <2>2, <2>5, <2>6, <2>7, SMT DEF IsEncoding
    <2> QED
      BY <2>2, <2>4, <2>5, <2>8, SMT
  <1>13. CASE 65535 < c
    <2>0. q3 <= 4
      BY <1>0, <1>3, <1>6, <1>9, SMT
    <2>1. (c \div 4096) % 64 = r3
      BY <1>4, <1>8, SMT
    <2>2. e = <<240 + q3, 128 + r3, 128 + r2, 128 + r>>
      BY <1>1, <1>2, <1>5, <1>7, <1>13, <2>1, SMT DEF Encoding
    <2>3. /\ Len(e) = 4 /\ e[1] = 240 + q3 /\ e[2] = 128 + r3
          /\ e[3] = 128 + r2 /\ e[4] = 128 + r
      BY <2>2, SMT
    <2>4. /\ 240 + q3 \in Byte /\ 128 + r3 \in Byte
          /\ 128 + r2 \in Byte /\ 128 + r \in Byte
      BY <1>3, <1>6, <1>9, <2>0, SMT DEF Byte
    <2>5. e \in Seq(Byte)
      BY <2>2, <2>4, SMT
    <2>6. BytesValue(e, 0, 4) = c
      BY <1>3, <1>6, <1>9, <2>3, SMT DEF BytesValue
    <2>7. Lead(4, 240 + q3) /\ Least(4) = 65536
      BY <1>9, <2>0, SMT DEF Lead, Least, Within
    <2>8. \A k \in 2..4 : continuation(e[0 + k])
      BY <1>3, <1>6, <1>9, <2>3, SMT DEF continuation, Within
    <2>9. IsEncoding(e, 0, 4)
      BY <1>13, <2>3, <2>6, <2>7, <2>8, SMT DEF IsEncoding
    <2> QED
      BY <1>13, <2>3, <2>5, <2>6, <2>9, SMT DEF OneUnit
  <1> QED
    BY <1>10, <1>11, <1>12, <1>13, SMT DEF OneUnit

\* Bytes before what is appended.
LEMMA Before ==
    ASSUME NEW o \in Seq(Byte), NEW e \in Seq(Byte), NEW j \in Nat, NEW n \in 1..4,
           j + n <= Len(o), IsEncoding(o, j, n)
    PROVE  /\ IsEncoding(o \o e, j, n)
           /\ BytesValue(o \o e, j, n) = BytesValue(o, j, n)
  <1>1. PICK p : p = o \o e
    BY Zenon
  <1>2. /\ Len(p) = Len(o) + Len(e) /\ Len(o) \in Nat /\ Len(e) \in Nat
        /\ \A k \in 1..Len(o) : p[k] = o[k] /\ o[k] \in Byte
    BY <1>1, SMT
  <1>3. n \in Int /\ j + n <= Len(p)
    BY <1>2, SMT
  <1>4. ASSUME NEW k \in 1..4, k <= n PROVE o[j + k] = p[j + k] /\ o[j + k] \in Int
    <2>1. j + k \in 1..Len(o)
      BY <1>2, <1>3, <1>4, SMT
    <2> QED
      BY <1>2, <2>1, ItemBounds, SMT
  <1>5. /\ BytesValue(o, j, n) = BytesValue(p, j, n)
        /\ IsEncoding(o, j, n) => IsEncoding(p, j, n)
    BY <1>3, <1>4, Stretch, Zenon
  <1> QED
    BY <1>1, <1>5, Zenon

\* The appended bytes.
LEMMA After ==
    ASSUME NEW o \in Seq(Byte), NEW e \in Seq(Byte), NEW n \in 1..4, n <= Len(e),
           IsEncoding(e, 0, n)
    PROVE  /\ IsEncoding(o \o e, Len(o), n)
           /\ BytesValue(o \o e, Len(o), n) = BytesValue(e, 0, n)
  <1>1. PICK p : p = o \o e
    BY Zenon
  <1>6. PICK l \in Nat : l = Len(o)
    BY SMT
  <1>2. /\ Len(p) = Len(o) + Len(e) /\ Len(o) \in Nat /\ Len(e) \in Nat
        /\ \A k \in 1..Len(e) : p[Len(o) + k] = e[k] /\ e[k] \in Byte
    BY <1>1, SMT
  <1>0. PICK z \in Nat : z = 0
    BY SMT
  <1>3. n \in Int /\ z + n <= Len(e) /\ l + n <= Len(p)
    BY <1>0, <1>6, <1>2, SMT
  <1>4. ASSUME NEW k \in 1..4, k <= n
        PROVE  e[z + k] = p[l + k] /\ e[z + k] \in Int
    <2>1. k \in 1..Len(e) /\ z + k = k
      BY <1>0, <1>2, <1>3, <1>4, SMT
    <2> QED
      BY <1>6, <1>2, <2>1, ItemBounds, SMT
  <1>5. /\ BytesValue(e, z, n) = BytesValue(p, l, n)
        /\ IsEncoding(e, z, n) => IsEncoding(p, l, n)
    BY <1>3, <1>4, Stretch, Zenon
  <1> QED
    BY <1>0, <1>6, <1>1, <1>5, Zenon

\* One more scalar value for a chain.
LEMMA ChainMore ==
    ASSUME NEW s, NEW t, NEW u, NEW C \in SUBSET (Nat \X Nat),
           NEW i \in Nat, NEW j \in Nat, NEW m \in 1..2, NEW n \in 1..4,
           Chained(s, t, C, <<i, j>>), SameScalar(s, i, m, u, j, n),
           \A k \in Nat, b \in 1..4 : IsEncoding(t, k, b) =>
              IsEncoding(u, k, b) /\ BytesValue(u, k, b) = BytesValue(t, k, b)
    PROVE  Chained(s, u, C \cup {<<i + m, j + n>>}, <<i + m, j + n>>)
  <1> DEFINE D == C \cup {<<i + m, j + n>>}
  <1>1. ASSUME NEW x \in D, x # <<i + m, j + n>>
        PROVE  \E a \in 1..2, b \in 1..4 :
                  <<x[1] + a, x[2] + b>> \in D /\ SameScalar(s, x[1], a, u, x[2], b)
    <2>1. x \in C
      BY <1>1
    <2>2. CASE x = <<i, j>>
      <3>1. x[1] = i /\ x[2] = j
        BY <2>2
      <3>2. <<x[1] + m, x[2] + n>> \in D
        BY <3>1
      <3>3. SameScalar(s, x[1], m, u, x[2], n)
        BY <3>1
      <3> QED
        BY <3>2, <3>3
    <2>3. CASE x # <<i, j>>
      <3>1. PICK a \in 1..2 : \E b \in 1..4 :
               <<x[1] + a, x[2] + b>> \in C /\ SameScalar(s, x[1], a, t, x[2], b)
        BY <2>1, <2>3 DEF Chained
      <3>2. PICK b \in 1..4 :
               <<x[1] + a, x[2] + b>> \in C /\ SameScalar(s, x[1], a, t, x[2], b)
        BY <3>1
      <3>3. x[2] \in Nat
        BY <2>1
      <3>4. IsEncoding(t, x[2], b)
        BY <3>2 DEF SameScalar
      <3>5. IsEncoding(u, x[2], b) /\ BytesValue(u, x[2], b) = BytesValue(t, x[2], b)
        BY <3>3, <3>4
      <3>6. SameScalar(s, x[1], a, u, x[2], b)
        BY <3>2, <3>5 DEF SameScalar
      <3>7. <<x[1] + a, x[2] + b>> \in D
        BY <3>2
      <3> QED
        BY <3>6, <3>7
    <2> QED
      BY <2>2, <2>3
  <1> QED
    BY <1>1 DEF Chained

\* A code point that append_code_point is given has room, and makes one more
\* pair of the chain.
LEMMA AppendInv ==
    ASSUME TypeOK, JavaInv, job = "jstring_to_utf8", verdict = "running",
           UNCHANGED input,
           NEW c \in Int, IsScalar(c), NEW m \in 1..2, append_code_point(c, m),
           m = 1 => OneUnit(c), index + m <= Len(input),
           IF m = 1 THEN IsScalar(input[index + 1])
           ELSE High(input[index + 1]) /\ Low(input[index + 2]),
           UnitsValue(input, index, m) = c
    PROVE  /\ verdict' = "running" /\ index' = index + m
           /\ output' \in Seq(Byte) /\ Len(output') <= 4 * index'
           /\ cuts' \subseteq Nat \X Nat
           /\ <<0, 0>> \in cuts' /\ <<index', Len(output')>> \in cuts'
           /\ Chained(input', output', cuts', <<index', Len(output')>>)
  <1>0. /\ output \in Seq(Byte) /\ index \in Nat /\ Len(input) \in Nat
        /\ Len(output) <= 4 * index /\ cuts \in SUBSET (Nat \X Nat)
        /\ <<0, 0>> \in cuts /\ Chained(input, output, cuts, <<index, Len(output)>>)
    BY SMT DEF TypeOK, JavaInv
  <1>1. PICK l \in Nat : l = Len(output)
    BY <1>0, SMT
  <1>2. PICK e : e = Encoding(c)
    BY SMT
  <1>3. PICK n : n = Len(e)
    BY SMT
  <1>4. /\ e \in Seq(Byte) /\ n \in 1..4 /\ (OneUnit(c) => n <= 3)
        /\ IsEncoding(e, 0, n) /\ BytesValue(e, 0, n) = c
    BY <1>2, <1>3, EncodingOf, Zenon
  <1>5. l + n < 4 * Len(input) + 1 /\ l + n <= 4 * (index + m)
    <2>1. n \in Int /\ n <= 4 /\ (m = 1 => n <= 3)
      BY <1>4, SMT
    <2> QED
      BY <1>0, <1>1, <2>1, SMT
  <1>6. /\ output' = output \o e /\ index' = index + m
        /\ cuts' = cuts \cup {<<index + m, l + n>>} /\ verdict' = "running"
    <2>1. ~(Len(output) + Len(Encoding(c)) >= Capacity)
      BY <1>0, <1>1, <1>2, <1>3, <1>4, <1>5, SMT DEF Capacity
    <2> QED
      BY <1>1, <1>2, <1>3, <2>1, SMT DEF append_code_point
  <1>7. PICK p : p = output'
    BY SMT
  <1>8. /\ p \in Seq(Byte) /\ Len(p) = l + n
        /\ \A j \in Nat, k \in 1..4 : j + k <= l /\ IsEncoding(output, j, k) =>
              IsEncoding(p, j, k) /\ BytesValue(p, j, k) = BytesValue(output, j, k)
        /\ IsEncoding(p, l, n) /\ BytesValue(p, l, n) = c
    <2>1. p = output \o e
      BY <1>6, <1>7, Zenon
    <2>2. output \in Seq(Byte) /\ e \in Seq(Byte) /\ IsEncoding(e, 0, n)
      BY <1>0, <1>4, Zenon
    <2>3. p \in Seq(Byte) /\ Len(p) = l + n
      BY <1>1, <1>3, <2>1, <2>2, SMT
    <2>4. IsEncoding(output \o e, Len(output), n)
          /\ BytesValue(output \o e, Len(output), n) = BytesValue(e, 0, n)
      <3>1. n \in 1..4 /\ n <= Len(e)
        BY <1>3, <1>4, SMT
      <3> QED
        BY <2>2, <3>1, After, Zenon
    <2>5. IsEncoding(p, l, n) /\ BytesValue(p, l, n) = c
      BY <1>1, <1>4, <2>1, <2>4, Zenon
    <2>6. ASSUME NEW j \in Nat, NEW k \in 1..4, j + k <= l, IsEncoding(output, j, k)
          PROVE  IsEncoding(p, j, k) /\ BytesValue(p, j, k) = BytesValue(output, j, k)
      BY <1>1, <2>1, <2>2, <2>6, Before, Zenon
    <2> QED
      BY <2>3, <2>5, <2>6, Zenon
  <1>9. \A k \in Nat, b \in 1..4 : IsEncoding(output, k, b) =>
           IsEncoding(p, k, b) /\ BytesValue(p, k, b) = BytesValue(output, k, b)
    <2>1. \A k \in Nat, b \in 1..4 : IsEncoding(output, k, b) => k + b <= l
      BY <1>1, Zenon DEF IsEncoding
    <2> QED
      BY <1>8, <2>1, Zenon
  <1>10. SameScalar(input, index, m, p, l, n)
    BY <1>8, Zenon DEF SameScalar
  <1>11. Chained(input, p, cuts \cup {<<index + m, l + n>>}, <<index + m, l + n>>)
    BY <1>0, <1>1, <1>4, <1>9, <1>10, ChainMore, Zenon
  <1>12. Len(output') = l + n /\ output' \in Seq(Byte)
    BY <1>7, <1>8, Zenon
  <1>13. Chained(input', output', cuts', <<index', Len(output')>>)
    BY <1>6, <1>7, <1>11, <1>12, Zenon
  <1>14. cuts' \subseteq Nat \X Nat
    <2>1. index + m \in Nat /\ l + n \in Nat
      BY <1>0, <1>1, <1>4, SMT
    <2> QED
      BY <1>0, <1>6, <2>1, SMT
  <1> QED
    BY <1>0, <1>5, <1>6, <1>12, <1>13, <1>14, SMT

\* One iteration of jstring_to_utf8.
LEMMA JavaStepInv ==
    ASSUME Inv, jstring_to_utf8
    PROVE  Inv'
  <1>0. /\ job = "jstring_to_utf8" /\ verdict = "running" /\ index < Len(input)
        /\ UNCHANGED <<job, input, value>> /\ TypeOK /\ JavaInv
    BY SMT DEF jstring_to_utf8, Iterating, Inv
  <1>1. input \in Seq(Unit) /\ index \in Nat /\ Len(input) \in Nat
    BY <1>0, SMT DEF TypeOK, Items
  <1>2. PICK u : u = input[index + 1]
    BY SMT
  <1>3. u \in Int /\ 0 <= u /\ OneUnit(u)
    <2>1. u \in Unit
      BY <1>0, <1>1, <1>2, SMT
    <2> QED
      BY <2>1, ItemBounds, SMT DEF OneUnit
  <1>4. /\ \A i \in 1..index : ~Unpaired(input, i)
        /\ index > 0 => ~High(input[index])
    BY <1>0, SMT DEF JavaInv
  <1>5. ValidInv'
    BY <1>0, SMT DEF ValidInv
  <1>6. read' \in 0..Len(input)
    BY <1>0, <1>1, SMT DEF jstring_to_utf8
  <1>7. ~(High(u) /\ Low(u))
    BY <1>3, SMT DEF High, Low, Within
  <1>8. CASE High(u) /\ Paired
    <2>1. PICK w : w = input[index + 2]
      BY SMT
    <2>2. Low(w) /\ index + 2 <= Len(input)
      BY <1>1, <1>8, <2>1, SMT DEF Paired
    <2>3. w \in Int
      <3>1. w \in Unit
        BY <1>1, <2>1, <2>2, SMT
      <3> QED
        BY <3>1, ItemBounds, SMT
    <2>4. PICK c : c = Combined(u, w)
      BY SMT
    <2>5. c \in Int /\ IsScalar(c)
      BY <1>3, <1>8, <2>2, <2>3, <2>4, SMT DEF Combined, IsScalar, High, Low, Within
    <2>6. append_code_point(c, 2)
      BY <1>2, <1>8, <2>1, <2>4, SMT DEF jstring_to_utf8
    <2>7. UnitsValue(input, index, 2) = c
      BY <1>2, <1>3, <2>1, <2>3, <2>4, SMT DEF UnitsValue, Combined
    <2>8. High(input[index + 1]) /\ Low(input[index + 2])
      BY <1>2, <1>8, <2>1, <2>2, SMT
    <2>9. 2 \in 1..2 /\ 2 # 1
      BY SMT
    <2>10. /\ verdict' = "running" /\ index' = index + 2
           /\ output' \in Seq(Byte) /\ Len(output') <= 4 * index'
           /\ cuts' \subseteq Nat \X Nat
           /\ <<0, 0>> \in cuts' /\ <<index', Len(output')>> \in cuts'
           /\ Chained(input', output', cuts', <<index', Len(output')>>)
      BY <1>0, <2>2, <2>5, <2>6, <2>7, <2>8, <2>9, AppendInv, SMT
    <2>11. TypeOK'
      <3>1. index' \in 0..Len(input)
        BY <1>1, <2>2, <2>10, SMT
      <3> QED
        BY <1>0, <1>6, <2>10, <3>1, SMT DEF TypeOK
    <2>12. ~High(w)
      BY <2>2, <2>3, SMT DEF High, Low, Within
    <2>13. ~Unpaired(input, index + 1) /\ ~Unpaired(input, index + 2)
      <3>1. /\ (index + 1) + 1 = index + 2 /\ (index + 2) - 1 = index + 1
            /\ index + 1 < Len(input) /\ index + 2 > 1
        BY <1>1, <2>2, SMT
      <3> QED
        BY <1>2, <1>7, <1>8, <2>1, <2>2, <2>12, <3>1, SMT DEF Unpaired
    <2>14. \A i \in 1..(index + 2) : ~Unpaired(input, i)
      <3>1. \A i \in 1..(index + 2) : i \in 1..index \/ i = index + 1 \/ i = index + 2
        BY <1>1, SMT
      <3> QED
        BY <1>4, <2>13, <3>1, SMT
    <2>15. JavaInv'
      BY <1>0, <2>1, <2>10, <2>12, <2>14, SMT DEF JavaInv
    <2> QED
      BY <1>5, <2>11, <2>15, SMT DEF Inv
  <1>9. CASE ~(High(u) /\ Paired) /\ (High(u) \/ Low(u))
    <2>1. verdict' = "refused" /\ UNCHANGED <<index, output, cuts>>
      BY <1>2, <1>9, SMT DEF jstring_to_utf8
    <2>2. TypeOK'
      BY <1>0, <1>6, <2>1, SMT DEF TypeOK
    <2>3. Unpaired(input, index + 1)
      <3>1. /\ (index + 1) + 1 = index + 2 /\ (index + 1) - 1 = index
            /\ index + 1 > 1 <=> index > 0
        BY <1>1, SMT
      <3> QED
        BY <1>2, <1>4, <1>9, <3>1, SMT DEF Unpaired, Paired
    <2>4. index + 1 \in 1..Len(input)
      BY <1>0, <1>1, SMT
    <2>5. JavaInv'
      BY <1>0, <2>1, <2>3, <2>4, SMT DEF JavaInv
    <2> QED
      BY <1>5, <2>2, <2>5, SMT DEF Inv
  <1>10. CASE ~High(u) /\ ~Low(u)
    <2>1. append_code_point(u, 1)
      BY <1>2, <1>10, SMT DEF jstring_to_utf8
    <2>2. IsScalar(u)
      BY <1>3, <1>10, SMT DEF IsScalar, OneUnit, Within
    <2>3. UnitsValue(input, index, 1) = u /\ IsScalar(input[index + 1])
      BY <1>2, <2>2, SMT DEF UnitsValue
    <2>4. 1 \in 1..2 /\ index + 1 <= Len(input)
      BY <1>0, <1>1, SMT
    <2>5. /\ verdict' = "running" /\ index' = index + 1
          /\ output' \in Seq(Byte) /\ Len(output') <= 4 * index'
          /\ cuts' \subseteq Nat \X Nat
          /\ <<0, 0>> \in cuts' /\ <<index', Len(output')>> \in cuts'
          /\ Chained(input', output', cuts', <<index', Len(output')>>)
      BY <1>0, <1>3, <2>1, <2>2, <2>3, <2>4, AppendInv, SMT
    <2>6. TypeOK'
      <3>1. index' \in 0..Len(input)
        BY <1>1, <2>4, <2>5, SMT
      <3> QED
        BY <1>0, <1>6, <2>5, <3>1, SMT DEF TypeOK
    <2>7. ~Unpaired(input, index + 1)
      BY <1>2, <1>10, SMT DEF Unpaired
    <2>8. \A i \in 1..(index + 1) : ~Unpaired(input, i)
      <3>1. \A i \in 1..(index + 1) : i \in 1..index \/ i = index + 1
        BY <1>1, SMT
      <3> QED
        BY <1>4, <2>7, <3>1, SMT
    <2>9. JavaInv'
      BY <1>0, <1>2, <1>10, <2>5, <2>8, SMT DEF JavaInv
    <2> QED
      BY <1>5, <2>6, <2>9, SMT DEF Inv
  <1> QED
    BY <1>7, <1>8, <1>9, <1>10, SMT

\* A digit is taken.
LEMMA TakeInv ==
    ASSUME Inv, job \in Numbers, verdict = "running", index < Len(input),
           UNCHANGED <<job, input, output, cuts>>, read' = index + 1,
           \/ verdict' = "refused" /\ UNCHANGED <<index, value>>
           \/ /\ value' = value * 10 + input[index + 1]
              /\ index' = index + 1 /\ verdict' = verdict
              /\ input[index + 1] >= 0
              /\ value * 10 + input[index + 1] <=
                    (IF job = "parse_content_length" THEN LLONG_MAX ELSE INT_MAX)
    PROVE  Inv'
  <1>1. job # "valid_utf8_bytes" /\ job # "jstring_to_utf8" /\ Items(job) = -1..9
    BY SMT DEF Numbers, Items
  <1>2. /\ input \in Seq(-1..9) /\ index \in Nat /\ Len(input) \in Nat
        /\ value \in Nat /\ LLONG_MAX \in Int /\ INT_MAX \in Int
    BY <1>1, ScannersAssumption, SMT DEF Inv, TypeOK
  <1>3. input[index + 1] \in Int
    BY <1>2, SMT
  <1>4. read' \in 0..Len(input) /\ index' \in 0..Len(input)
    BY <1>2, SMT DEF Inv, TypeOK
  <1>5. value' \in 0..(IF job = "parse_content_length" THEN LLONG_MAX ELSE INT_MAX)
    <2>1. CASE value' = value
      BY <2>1, SMT DEF Inv, TypeOK
    <2>2. CASE value' # value
      <3>1. value' \in Nat
        BY <1>2, <1>3, <2>2, SMT
      <3> QED
        BY <1>2, <2>2, <3>1, SMT
    <2> QED
      BY <2>1, <2>2, SMT
  <1>6. TypeOK'
    BY <1>4, <1>5, SMT DEF Inv, TypeOK
  <1>7. ValidInv' /\ JavaInv'
    BY <1>1, SMT DEF ValidInv, JavaInv
  <1> QED
    BY <1>6, <1>7, SMT DEF Inv

\* The three readers test the number in time, before or after they multiply.
LEMMA NumberInv ==
    ASSUME Inv, parse_content_length \/ parse_port_text \/ proxy_port
    PROVE  Inv'
  <1> USE ScannersAssumption
  <1>1. CASE parse_content_length
    <2>1. PICK d : d = input[index + 1]
      BY SMT
    <2>2. /\ job = "parse_content_length" /\ verdict = "running" /\ index < Len(input)
          /\ Take(~Digit \/ value > (LLONG_MAX - d) \div 10)
      BY <1>1, <2>1, SMT DEF parse_content_length, Iterating
    <2>3. d \in Int /\ value \in Int /\ LLONG_MAX \in Int
      <3>1. input \in Seq(-1..9) /\ index \in Nat /\ value \in Nat
        BY <2>2, SMT DEF Inv, TypeOK, Items
      <3> QED
        BY <2>1, <2>2, <3>1, SMT
    <2>4. ~(value > (LLONG_MAX - d) \div 10) => value * 10 + d <= LLONG_MAX
      BY <2>3, SMT
    <2> QED
      BY <2>1, <2>2, <2>4, TakeInv, SMT DEF Numbers, Digit, Take
  <1>2. CASE parse_port_text
    <2>1. PICK d : d = input[index + 1]
      BY SMT
    <2>2. /\ job = "parse_port_text" /\ verdict = "running" /\ index < Len(input)
          /\ Take(~Digit \/ value * 10 + d > PORT_MAX)
      BY <1>2, <2>1, SMT DEF parse_port_text, Iterating
    <2>3. d \in Int /\ value \in Int
      <3>1. input \in Seq(-1..9) /\ index \in Nat /\ value \in Nat
        BY <2>2, SMT DEF Inv, TypeOK, Items
      <3> QED
        BY <2>1, <2>2, <3>1, SMT
    <2>4. ~(value * 10 + d > PORT_MAX) => value * 10 + d <= INT_MAX
      BY <2>3, SMT
    <2> QED
      BY <2>1, <2>2, <2>4, TakeInv, SMT DEF Numbers, Digit, Take
  <1>3. CASE proxy_port
    <2>1. PICK d : d = input[index + 1]
      BY SMT
    <2>2. /\ job = "proxy_port" /\ verdict = "running" /\ index < Len(input)
          /\ Take(~Digit \/ value > PORT_MAX \div 10)
      BY <1>3, <2>1, SMT DEF proxy_port, Iterating
    <2>3. d \in Int /\ d <= 9 /\ value \in Int
      <3>1. input \in Seq(-1..9) /\ index \in Nat /\ value \in Nat
        BY <2>2, SMT DEF Inv, TypeOK, Items
      <3>2. input[index + 1] \in -1..9
        BY <2>2, <3>1, SMT
      <3> QED
        BY <2>1, <3>1, <3>2, SMT
    <2>4. ~(value > PORT_MAX \div 10) => value * 10 + d <= INT_MAX
      BY <2>3, SMT
    <2> QED
      BY <2>1, <2>2, <2>4, TakeInv, SMT DEF Numbers, Digit, Take
  <1> QED
    BY <1>1, <1>2, <1>3, SMT

\* Before the first iteration.
LEMMA InitInv == Init => Inv
  <1> SUFFICES ASSUME Init PROVE Inv
    BY SMT
  <1> USE ScannersAssumption
  <1>1. input \in Seq(Items(job)) /\ Len(input) \in Nat
    <2>1. job \in Jobs /\ input \in Inputs(job)
      BY SMT DEF Init
    <2>2. Inputs(job) \subseteq Seq(Items(job))
      BY <2>1, SMT DEF Inputs, Items, Jobs, Numbers
    <2> QED
      BY <2>1, <2>2, SMT
  <1>2. TypeOK
    <2>1. <<0, 0>> \in Nat \X Nat /\ <<>> \in Seq(Byte)
      BY SMT
    <2> QED
      BY <1>1, <2>1, SMT DEF Init, TypeOK
  <1>3. ValidInv
    <2>1. index = 0 /\ verdict = "running"
      BY SMT DEF Init
    <2>2. CutsInto({0}, input, 0) /\ {0} \in SUBSET (0..0)
      BY SMT DEF CutsInto
    <2>3. \A C \in SUBSET (0..Len(input)) : CutsInto(C, input, Len(input)) => 0 \in C
      BY SMT DEF CutsInto
    <2> QED
      BY <2>1, <2>2, <2>3, SMT DEF ValidInv
  <1>4. JavaInv
    <2>1. /\ index = 0 /\ output = <<>> /\ cuts = {<<0, 0>>} /\ verdict = "running"
          /\ Len(output) = 0
      BY SMT DEF Init
    <2>2. Chained(input, output, cuts, <<0, 0>>)
      BY <2>1, SMT DEF Chained
    <2> QED
      BY <2>1, <2>2, SMT DEF JavaInv
  <1> QED
    BY <1>2, <1>3, <1>4, SMT DEF Inv

\* Every iteration and every end keeps the invariant.
LEMMA NextInv == Inv /\ [Next]_vars => Inv'
  <1> SUFFICES ASSUME Inv, [Next]_vars PROVE Inv'
    BY Zenon
  <1>1. CASE valid_utf8_bytes
    BY <1>1, ValidStepInv
  <1>2. CASE jstring_to_utf8
    BY <1>2, JavaStepInv
  <1>3. CASE parse_content_length \/ parse_port_text \/ proxy_port
    BY <1>3, NumberInv
  <1>4. CASE \/ valid_utf8_bytes_ends \/ jstring_to_utf8_ends
             \/ parse_content_length_ends \/ parse_port_text_ends \/ proxy_port_ends
    <2>1. /\ verdict = "running" /\ index >= Len(input)
          /\ UNCHANGED <<job, input, index, read, value, output, cuts>>
          /\ verdict' \in {"accepted", "refused"}
          /\ job \notin Numbers => verdict' = "accepted"
      BY <1>4, SMT
         DEF valid_utf8_bytes_ends, jstring_to_utf8_ends, parse_content_length_ends,
             parse_port_text_ends, proxy_port_ends, Ending, Judge, Numbers
    <2> QED
      BY <2>1, JudgeInv, SMT
  <1>5. CASE UNCHANGED vars
    <2>1. UNCHANGED <<job, input, index, read, value, output, cuts, verdict>>
      BY <1>5, SMT DEF vars
    <2>2. TypeOK'
      BY <2>1, SMT DEF Inv, TypeOK
    <2>3. ValidInv' /\ JavaInv'
      BY <2>1, SMT DEF Inv, ValidInv, JavaInv
    <2> QED
      BY <2>2, <2>3, SMT DEF Inv
  <1> QED
    BY <1>1, <1>2, <1>3, <1>4, <1>5, Zenon DEF Next

\* The invariant holds always.
LEMMA AlwaysInv == Spec => []Inv
  BY InitInv, NextInv, PTL DEF Spec

\* A set of natural numbers has a least one.
LEMMA LeastElement ==
    ASSUME NEW T \in SUBSET Nat, T # {}
    PROVE  \E x \in T : \A y \in T : x <= y
  <1> DEFINE R == {ss \in Nat \X Nat : ss[1] < ss[2]}
  <1>1. IsWellFoundedOn(R, Nat)
    BY NatLessThanWellFounded, Zenon DEF OpToRel
  <1> HIDE DEF R
  <1>2. PICK x \in T : \A y \in T : ~(<<y, x>> \in R)
    BY <1>1, WFMin
  <1>3. \A y \in T : ~(y < x)
    BY <1>2 DEF R
  <1> QED
    BY <1>3

\* f is a_0 = c, a_k = p * a_(k-1) + d_k.
IsRow(f, n, c, p, d) ==
    f = [k \in 0..n |-> IF k = 0 THEN c ELSE p * f[k - 1] + d[k]]

\* Such a row exists, and its numbers are integers.
LEMMA RowExists ==
    ASSUME NEW n \in Nat, NEW c \in Int, NEW p \in Int, NEW d \in [1..n -> Int]
    PROVE  \E f \in [0..n -> Int] : IsRow(f, n, c, p, d)
  <1> DEFINE T == {m \in Nat : m <= n /\ ~ \E f \in [0..m -> Int] : IsRow(f, m, c, p, d)}
  <1>1. SUFFICES ASSUME T # {} PROVE FALSE
    OBVIOUS
  <1>2. PICK m \in T : \A y \in T : m <= y
    BY <1>1, LeastElement
  <1>3. m # 0
    <2>1. SUFFICES ASSUME m = 0 PROVE FALSE
      OBVIOUS
    <2> DEFINE f == [k \in 0..0 |-> c]
    <2>2. f \in [0..0 -> Int] /\ IsRow(f, 0, c, p, d)
      BY DEF IsRow
    <2> QED
      BY <1>2, <2>1, <2>2
  <1>4. m - 1 \in Nat /\ m - 1 <= n /\ m - 1 \notin T
    BY <1>2, <1>3
  <1>5. PICK f \in [0..(m - 1) -> Int] : IsRow(f, m - 1, c, p, d)
    BY <1>4
  <1> DEFINE g == [k \in 0..m |-> IF k = m THEN p * f[m - 1] + d[m] ELSE f[k]]
  <1>6. g \in [0..m -> Int]
    <2>1. d[m] \in Int /\ f[m - 1] \in Int
      BY <1>2, <1>3, <1>4
    <2>2. p * f[m - 1] + d[m] \in Int
      BY <2>1
    <2> QED
      BY <2>2, <1>2, <1>4
  <1>7. ASSUME NEW k \in 0..m
        PROVE  g[k] = IF k = 0 THEN c ELSE p * g[k - 1] + d[k]
    <2>1. CASE k = m
      BY <2>1, <1>2, <1>3, <1>4
    <2>2. CASE k # m
      <3>1. k \in 0..(m - 1) /\ g[k] = f[k]
        BY <2>2, <1>2
      <3>2. f[k] = IF k = 0 THEN c ELSE p * f[k - 1] + d[k]
        BY <3>1, <1>5 DEF IsRow
      <3>3. k # 0 => g[k - 1] = f[k - 1]
        BY <3>1, <1>2
      <3> QED
        BY <3>1, <3>2, <3>3
    <2> QED
      BY <2>1, <2>2
  <1>8. IsRow(g, m, c, p, d)
    <2> HIDE DEF g
    <2>1. g = [k \in 0..m |-> g[k]]
      BY <1>6
    <2> QED
      BY <1>7, <2>1 DEF IsRow
  <1> QED
    BY <1>2, <1>6, <1>8

\* The weights are what their definition says: 1, and ten times the one before.
LEMMA WeightsAre ==
    ASSUME NEW n \in Nat
    PROVE  /\ Weights(n) \in [0..n -> Int]
           /\ Weights(n)[0] = 1
           /\ \A k \in 1..n : Weights(n)[k] = 10 * Weights(n)[k - 1]
  <1> DEFINE d == [k \in 1..n |-> 0]
             IsW(w) == w = [k \in 0..n |-> IF k = 0 THEN 1 ELSE 10 * w[k - 1]]
  <1>0. d \in [1..n -> Int] /\ 1 \in Int /\ 10 \in Int
    OBVIOUS
  <1>1. PICK f \in [0..n -> Int] : IsRow(f, n, 1, 10, d)
    <2> HIDE DEF d
    <2> QED
      BY <1>0, RowExists, Zenon
  <1>2. \A k \in 0..n : f[k] = IF k = 0 THEN 1 ELSE 10 * f[k - 1]
    BY <1>1 DEF IsRow
  <1>3. IsW(f)
    <2>1. f = [k \in 0..n |-> f[k]]
      OBVIOUS
    <2> QED
      BY <1>2, <2>1
  <1>4. Weights(n) = CHOOSE w : IsW(w)
    BY DEF Weights
  <1> DEFINE w == Weights(n)
  <1>5. IsW(w)
    BY <1>3, <1>4
  <1> HIDE DEF w
  <1>6. w[0] = 1 /\ \A k \in 1..n : w[k] = 10 * w[k - 1]
    BY <1>5
  <1>7. \A k \in 0..n : w[k] \in Int
    <2> DEFINE T == {k \in Nat : k <= n /\ w[k] \notin Int}
    <2>1. SUFFICES ASSUME T # {} PROVE FALSE
      OBVIOUS
    <2>2. PICK k \in T : \A y \in T : k <= y
      BY <2>1, LeastElement
    <2>3. k # 0
      BY <1>6, <2>2
    <2>4. k - 1 \in Nat /\ k - 1 \notin T /\ k \in 1..n
      BY <2>2, <2>3
    <2>5. w[k - 1] \in Int /\ w[k] = 10 * w[k - 1]
      BY <2>4, <1>6
    <2> QED
      BY <2>2, <2>5
  <1>8. w \in [0..n -> Int]
    BY <1>5, <1>7
  <1> QED
    BY <1>6, <1>8 DEF w

\* Each weight is at least 1.
LEMMA WeightsPositive ==
    ASSUME NEW n \in Nat
    PROVE  \A k \in 0..n : Weights(n)[k] \in Nat /\ Weights(n)[k] >= 1
  <1> DEFINE w == Weights(n)
             T == {k \in Nat : k <= n /\ ~(w[k] >= 1)}
  <1>1. w \in [0..n -> Int] /\ w[0] = 1 /\ \A k \in 1..n : w[k] = 10 * w[k - 1]
    BY WeightsAre
  <1> HIDE DEF w
  <1>2. SUFFICES ASSUME T # {} PROVE FALSE
    <2>1. ASSUME T = {} PROVE \A k \in 0..n : w[k] \in Nat /\ w[k] >= 1
      <3>1. SUFFICES ASSUME NEW k \in 0..n PROVE w[k] \in Nat /\ w[k] >= 1
        OBVIOUS
      <3>2. w[k] \in Int /\ k \in Nat /\ k <= n
        BY <1>1
      <3>3. w[k] >= 1
        BY <2>1, <3>2
      <3> QED
        BY <3>2, <3>3
    <2> QED
      BY <2>1 DEF w
  <1>3. PICK k \in T : \A y \in T : k <= y
    BY <1>2, LeastElement
  <1>4. k # 0
    BY <1>1, <1>3
  <1>5. k - 1 \in Nat /\ k - 1 \notin T /\ k \in 1..n /\ k - 1 \in 0..n
    BY <1>3, <1>4
  <1>6. w[k - 1] \in Int /\ w[k - 1] >= 1 /\ w[k] = 10 * w[k - 1]
    BY <1>5, <1>1
  <1> QED
    BY <1>3, <1>6

\* The sums are what their definition says.
LEMMA SumsAre ==
    ASSUME NEW s \in Seq(-1..9)
    PROVE  /\ Sums(s)[0] = 0
           /\ \A k \in 1..Len(s) :
                 Sums(s)[k] = Sums(s)[k - 1] + s[Len(s) + 1 - k] * Weights(Len(s))[k - 1]
           /\ \A k \in 0..Len(s) : Sums(s)[k] \in Int
  <1> DEFINE n == Len(s)
             w == Weights(n)
             d == [k \in 1..n |-> s[n + 1 - k] * w[k - 1]]
             IsS(f) == f = [k \in 0..n |-> IF k = 0 THEN 0
                                           ELSE f[k - 1] + s[n + 1 - k] * w[k - 1]]
  <1>1. n \in Nat
    OBVIOUS
  <1>2. Sums(s) = CHOOSE f : IsS(f)
    BY DEF Sums
  <1>3. \A k \in 0..n : w[k] \in Int
    BY <1>1, WeightsAre
  <1> HIDE DEF w
  <1>4. \A k \in 1..n : s[n + 1 - k] \in Int
    <2>1. SUFFICES ASSUME NEW k \in 1..n PROVE s[n + 1 - k] \in Int
      OBVIOUS
    <2>2. n + 1 - k \in 1..Len(s)
      BY <1>1
    <2>3. s[n + 1 - k] \in -1..9
      BY <2>2, ElementOfSeq
    <2> QED
      BY <2>3
  <1> HIDE DEF n
  <1>5. d \in [1..n -> Int]
    <2>1. SUFFICES ASSUME NEW k \in 1..n PROVE s[n + 1 - k] * w[k - 1] \in Int
      OBVIOUS
    <2>2. w[k - 1] \in Int
      BY <1>1, <1>3
    <2>3. s[n + 1 - k] \in Int
      BY <1>4
    <2> QED
      BY <2>2, <2>3
  <1>6. PICK f \in [0..n -> Int] : IsRow(f, n, 0, 1, d)
    <2>1. 0 \in Int /\ 1 \in Int
      OBVIOUS
    <2> HIDE DEF d
    <2> QED
      BY <1>1, <1>5, <2>1, RowExists, Zenon
  <1>7. ASSUME NEW k \in 0..n
        PROVE  f[k] = IF k = 0 THEN 0 ELSE f[k - 1] + s[n + 1 - k] * w[k - 1]
    <2>1. f[k] = IF k = 0 THEN 0 ELSE 1 * f[k - 1] + d[k]
      BY <1>6 DEF IsRow
    <2>2. k # 0 => 1 * f[k - 1] = f[k - 1] /\ d[k] = s[n + 1 - k] * w[k - 1]
      BY <1>1
    <2> QED
      BY <2>1, <2>2
  <1>8. IsS(f)
    <2>1. f = [k \in 0..n |-> f[k]]
      OBVIOUS
    <2> QED
      BY <1>7, <2>1
  <1> DEFINE g == Sums(s)
  <1>9. IsS(g)
    BY <1>8, <1>2
  <1> HIDE DEF g
  <1>10. g[0] = 0 /\ \A k \in 1..n : g[k] = g[k - 1] + s[n + 1 - k] * w[k - 1]
    BY <1>9, <1>1
  <1>11. \A k \in 0..n : g[k] \in Int
    <2> DEFINE T == {k \in Nat : k <= n /\ g[k] \notin Int}
    <2>1. SUFFICES ASSUME T # {} PROVE FALSE
      BY <1>1
    <2>2. PICK k \in T : \A y \in T : k <= y
      BY <2>1, LeastElement
    <2>3. k # 0
      BY <1>10, <2>2
    <2>4. k - 1 \in Nat /\ k - 1 \notin T /\ k \in 1..n
      BY <1>1, <2>2, <2>3
    <2>5. g[k - 1] \in Int /\ g[k] = g[k - 1] + d[k] /\ d[k] \in Int
      <3>1. g[k - 1] \in Int
        BY <1>1, <2>4
      <3>2. d[k] \in Int
        BY <2>4, <1>5
      <3>3. d[k] = s[n + 1 - k] * w[k - 1]
        BY <2>4
      <3>4. g[k] = g[k - 1] + s[n + 1 - k] * w[k - 1]
        BY <2>4, <1>10
      <3> QED
        BY <3>1, <3>2, <3>3, <3>4
    <2> QED
      BY <2>2, <2>5
  <1> QED
    BY <1>10, <1>11 DEF g, n, w

\* The sums of digits are natural numbers.
LEMMA SumsNatural ==
    ASSUME NEW s \in Seq(-1..9), \A i \in 1..Len(s) : s[i] >= 0
    PROVE  \A k \in 0..Len(s) : Sums(s)[k] >= 0
  <1> DEFINE g == Sums(s)
             n == Len(s)
             w == Weights(n)
             T == {k \in Nat : k <= n /\ ~(g[k] >= 0)}
  <1>1. n \in Nat
    OBVIOUS
  <1>2. /\ g[0] = 0 /\ \A k \in 0..n : g[k] \in Int
        /\ \A k \in 1..n : g[k] = g[k - 1] + s[n + 1 - k] * w[k - 1]
    BY SumsAre
  <1>3. \A k \in 0..n : w[k] \in Nat
    BY <1>1, WeightsPositive
  <1>4. \A i \in 1..n : s[i] \in Nat
    <2>1. SUFFICES ASSUME NEW i \in 1..n PROVE s[i] \in Nat
      OBVIOUS
    <2>2. s[i] \in -1..9
      BY ElementOfSeq
    <2> QED
      BY <2>2
  <1> SUFFICES \A k \in 0..n : g[k] >= 0
    OBVIOUS
  <1> HIDE DEF g, n, w
  <1>5. SUFFICES ASSUME T # {} PROVE FALSE
    BY <1>1
  <1>6. PICK k \in T : \A y \in T : k <= y
    BY <1>5, LeastElement
  <1>7. k # 0
    BY <1>2, <1>6
  <1>8. k - 1 \in Nat /\ k - 1 \notin T /\ k \in 1..n /\ n + 1 - k \in 1..n /\ k - 1 \in 0..n
    BY <1>1, <1>6, <1>7
  <1>9. /\ g[k - 1] \in Nat /\ g[k] = g[k - 1] + s[n + 1 - k] * w[k - 1]
        /\ s[n + 1 - k] \in Nat /\ w[k - 1] \in Nat
    BY <1>8, <1>2, <1>3, <1>4
  <1>10. s[n + 1 - k] * w[k - 1] \in Nat
    BY <1>9
  <1> QED
    BY <1>6, <1>9, <1>10

Numeral(s) == \A i \in DOMAIN s : s[i] >= 0

Limit == IF job = "parse_content_length" THEN LLONG_MAX ELSE PORT_MAX

\* The number so far with the places to come is the number of the text.
Ahead ==
    value * Weights(Len(input))[Len(input) - index] + Sums(input)[Len(input) - index]

NumbersInv ==
    job \in Numbers =>
        /\ \A i \in 1..index : input[i] >= 0
        /\ verdict = "running" => Ahead = Decimal(input)
        /\ job = "parse_port_text" => value <= PORT_MAX
        /\ NumbersAreExact

\* One digit moves from the places to come to the number so far.
LEMMA Shift ==
    ASSUME NEW v \in Int, NEW d \in Int, NEW w \in Int, NEW r \in Int
    PROVE  v * (10 * w) + (r + d * w) = (v * 10 + d) * w + r
  OBVIOUS

\* A number is no smaller than its leading part.
LEMMA NoSmaller ==
    ASSUME NEW v \in Nat, NEW w \in Nat, w >= 1, NEW r \in Int, r >= 0
    PROVE  v * w + r >= v
  <1>1. v * w >= v
    BY SMT
  <1> QED
    BY <1>1, SMT

\* What the number so far and the next digit come to.
LEMMA AheadMoves ==
    ASSUME Inv, NumbersInv, job \in Numbers, verdict = "running", index < Len(input)
    PROVE  LET k == Len(input) - index - 1
               d == input[index + 1]
           IN  /\ k \in 0..Len(input) /\ d \in -1..9 /\ value \in Nat
               /\ input \in Seq(-1..9) /\ index \in Nat /\ Len(input) \in Nat
               /\ Decimal(input) = (value * 10 + d) * Weights(Len(input))[k] + Sums(input)[k]
               /\ Numeral(input) => Decimal(input) >= value * 10 + d
  <1> DEFINE n == Len(input)
             k == n - index - 1
             d == input[index + 1]
             w == Weights(n)
             g == Sums(input)
  <1>1. Items(job) = -1..9
    BY SMT DEF Numbers, Items
  <1>2. input \in Seq(-1..9) /\ index \in Nat /\ value \in Nat
    BY <1>1, SMT DEF Inv, TypeOK
  <1>3. n \in Nat
    BY <1>2
  <1>4. d \in -1..9
    BY <1>2, <1>3, ElementOfSeq
  <1>5. w \in [0..n -> Int] /\ \A j \in 1..n : w[j] = 10 * w[j - 1]
    BY <1>3, WeightsAre
  <1>6. /\ \A j \in 1..n : g[j] = g[j - 1] + input[n + 1 - j] * w[j - 1]
        /\ \A j \in 0..n : g[j] \in Int
    BY <1>2, SumsAre
  <1>7. value * w[n - index] + g[n - index] = Decimal(input)
    BY DEF NumbersInv, Ahead
  <1>8. \A j \in 0..n : w[j] \in Nat /\ w[j] >= 1
    BY <1>3, WeightsPositive
  <1>9. Numeral(input) => \A j \in 0..n : g[j] >= 0
    <2>1. DOMAIN input = 1..Len(input)
      BY <1>2
    <2> QED
      BY <1>2, <2>1, SumsNatural DEF Numeral
  <1> HIDE DEF w, g
  <1>10. k \in 0..n /\ k + 1 \in 1..n /\ n - index = k + 1 /\ (k + 1) - 1 = k
         /\ n + 1 - (k + 1) = index + 1
    BY <1>2, <1>3
  <1> HIDE DEF n, k
  <1>11. w[k] \in Nat /\ w[k] >= 1 /\ g[k] \in Int /\ d \in Int
    BY <1>4, <1>6, <1>8, <1>10
  <1>12. w[k + 1] = 10 * w[k] /\ g[k + 1] = g[k] + d * w[k]
    BY <1>5, <1>6, <1>10
  <1>13. value * w[k + 1] + g[k + 1] = (value * 10 + d) * w[k] + g[k]
    BY <1>2, <1>11, <1>12, Shift
  <1>14. Decimal(input) = (value * 10 + d) * w[k] + g[k]
    BY <1>7, <1>10, <1>13
  <1>15. ASSUME Numeral(input) PROVE Decimal(input) >= value * 10 + d
    <2>1. d >= 0
      <3>1. index + 1 \in DOMAIN input
        BY <1>2, <1>3, <1>10 DEF n
      <3> QED
        BY <1>15, <3>1 DEF Numeral
    <2>2. value * 10 + d \in Nat
      BY <1>2, <1>11, <2>1
    <2>3. g[k] >= 0
      BY <1>9, <1>10, <1>15
    <2> HIDE DEF d
    <2> QED
      BY <2>2, <2>3, <1>11, <1>14, NoSmaller
  <1> QED
    BY <1>2, <1>3, <1>4, <1>10, <1>14, <1>15 DEF n, k, w, g

\* A digit is taken, or the text refused for it: only when it is no digit or
\* the number with it is beyond the limit.
LEMMA TakeExact ==
    ASSUME Inv, NumbersInv, job \in Numbers, verdict = "running", index < Len(input),
           UNCHANGED <<job, input>>,
           \/ /\ verdict' = "refused" /\ UNCHANGED <<index, value>>
              /\ \/ ~(input[index + 1] >= 0)
                 \/ value * 10 + input[index + 1] > Limit
           \/ /\ value' = value * 10 + input[index + 1]
              /\ index' = index + 1 /\ verdict' = verdict
              /\ input[index + 1] >= 0
              /\ job = "parse_port_text" => value * 10 + input[index + 1] <= PORT_MAX
    PROVE  NumbersInv'
  <1> DEFINE n == Len(input)
             k == n - index - 1
             d == input[index + 1]
  <1>1. /\ k \in 0..n /\ d \in -1..9 /\ value \in Nat
        /\ input \in Seq(-1..9) /\ index \in Nat /\ n \in Nat
        /\ Decimal(input) = (value * 10 + d) * Weights(n)[k] + Sums(input)[k]
        /\ Numeral(input) => Decimal(input) >= value * 10 + d
    BY AheadMoves, Zenon
  <1>2. CASE verdict' = "refused"
    <2>1. ~(d >= 0) \/ value * 10 + d > Limit
      BY <1>2
    <2>2. UNCHANGED <<job, input, index, value>>
      BY <1>2
    <2>3. ~(Numeral(input) /\ Decimal(input) \in Allowed)
      <3>1. ASSUME ~(d >= 0) PROVE ~Numeral(input)
        <4>1. index + 1 \in DOMAIN input
          BY <1>1
        <4> QED
          BY <3>1, <4>1 DEF Numeral
      <3>2. ASSUME value * 10 + d > Limit, Numeral(input) PROVE Decimal(input) \notin Allowed
        <4>1. Decimal(input) >= value * 10 + d
          BY <1>1, <3>2, Zenon
        <4>2. Limit \in Int /\ value * 10 + d \in Int
          BY <1>1, ScannersAssumption DEF Limit
        <4>3. Decimal(input) \in Int => Decimal(input) > Limit
          BY <4>1, <4>2, <3>2
        <4>4. Decimal(input) \in Allowed => Decimal(input) \in Int /\ Decimal(input) <= Limit
          BY ScannersAssumption DEF Allowed, Limit
        <4> QED
          BY <4>2, <4>3, <4>4
      <3> QED
        BY <2>1, <3>1, <3>2, Zenon
    <2>4. NumbersAreExact'
      <3>1. Allowed' = Allowed
        BY <2>2 DEF Allowed
      <3>2. input' = input
        BY <2>2
      <3> QED
        BY <1>2, <2>3, <3>1, <3>2, Zenon DEF NumbersAreExact, Numeral
    <2>5. \A i \in 1..index' : input'[i] >= 0
      BY <2>2 DEF NumbersInv
    <2> QED
      BY <1>2, <2>2, <2>4, <2>5 DEF NumbersInv
  <1>3. CASE verdict' # "refused"
    <2>1. /\ value' = value * 10 + d /\ index' = index + 1 /\ verdict' = verdict
          /\ d >= 0 /\ input' = input
          /\ job' = "parse_port_text" => value' <= PORT_MAX
      BY <1>3
    <2>2. n - (index + 1) = k
      BY <1>1
    <2>3. Ahead' = (value * 10 + d) * Weights(n)[k] + Sums(input)[k]
      BY <2>1, <2>2, Zenon DEF Ahead
    <2>4. Ahead' = Decimal(input)'
      BY <1>1, <2>1, <2>3, Zenon
    <2>5. \A i \in 1..index' : input'[i] >= 0
      <3>1. SUFFICES ASSUME NEW i \in 1..(index + 1) PROVE input[i] >= 0
        BY <2>1
      <3>2. i \in 1..index \/ i = index + 1
        BY <1>1
      <3> QED
        BY <2>1, <3>2 DEF NumbersInv
    <2>6. NumbersAreExact'
      BY <2>1 DEF NumbersAreExact
    <2> QED
      BY <2>1, <2>4, <2>5, <2>6 DEF NumbersInv
  <1> QED
    BY <1>2, <1>3

\* The end of the text: the number so far is its number.
LEMMA EndExact ==
    ASSUME Inv, NumbersInv, job \in Numbers, verdict = "running", index >= Len(input),
           UNCHANGED <<job, input, index, value>>,
           verdict' = IF Len(input) > 0 /\ value \in Allowed THEN "accepted" ELSE "refused"
    PROVE  NumbersInv'
  <1>1. Items(job) = -1..9
    BY SMT DEF Numbers, Items
  <1>2. input \in Seq(-1..9) /\ index = Len(input) /\ value \in Nat /\ Len(input) \in Nat
    BY <1>1, SMT DEF Inv, TypeOK
  <1>3. Len(input) - index = 0
    BY <1>2
  <1>4. Weights(Len(input))[0] = 1
    BY <1>2, WeightsAre
  <1>5. Sums(input)[0] = 0
    BY <1>2, SumsAre
  <1>6. Ahead = value * 1 + 0
    BY <1>3, <1>4, <1>5, Zenon DEF Ahead
  <1>7. Decimal(input) = value
    BY <1>2, <1>6 DEF NumbersInv
  <1>8. \A i \in DOMAIN input : input[i] >= 0
    BY <1>2 DEF NumbersInv
  <1>9. Allowed' = Allowed
    BY DEF Allowed
  <1>10. Decimal(input)' = value
    BY <1>7
  <1>11. NumbersAreExact'
    BY <1>7, <1>8, <1>9, <1>10 DEF NumbersAreExact
  <1> QED
    BY <1>2, <1>11 DEF NumbersInv

\* Every step keeps the number so far in step with the text.
LEMMA NextNumbers == Inv /\ NumbersInv /\ [Next]_vars => NumbersInv'
  <1> SUFFICES ASSUME Inv, NumbersInv, [Next]_vars PROVE NumbersInv'
    BY Zenon
  <1> USE ScannersAssumption
  <1>0. ASSUME job \in Numbers, index < Len(input)
        PROVE  input[index + 1] \in -1..9 /\ value \in Nat
    <2>1. Items(job) = -1..9
      BY <1>0, SMT DEF Numbers, Items
    <2>2. input \in Seq(-1..9) /\ index \in Nat /\ value \in Nat /\ Len(input) \in Nat
      BY <2>1, SMT DEF Inv, TypeOK
    <2>3. index + 1 \in 1..Len(input)
      BY <1>0, <2>2
    <2> QED
      BY <2>2, <2>3, ElementOfSeq
  <1>1. CASE parse_content_length
    <2>1. PICK d : d = input[index + 1]
      BY SMT
    <2>2. /\ job = "parse_content_length" /\ verdict = "running" /\ index < Len(input)
          /\ Take(~Digit \/ value > (LLONG_MAX - d) \div 10) /\ job \in Numbers
      BY <1>1, <2>1, SMT DEF parse_content_length, Iterating, Numbers
    <2>3. d \in -1..9 /\ value \in Nat
      BY <1>0, <2>1, <2>2, Zenon
    <2>4. value > (LLONG_MAX - d) \div 10 => value * 10 + d > Limit
      BY <2>2, <2>3, SMT DEF Limit
    <2> QED
      BY <2>1, <2>2, <2>4, TakeExact, SMT DEF Digit, Take
  <1>2. CASE parse_port_text
    <2>1. PICK d : d = input[index + 1]
      BY SMT
    <2>2. /\ job = "parse_port_text" /\ verdict = "running" /\ index < Len(input)
          /\ Take(~Digit \/ value * 10 + d > PORT_MAX) /\ job \in Numbers
      BY <1>2, <2>1, SMT DEF parse_port_text, Iterating, Numbers
    <2>3. Limit = PORT_MAX
      BY <2>2 DEF Limit
    <2>4. d \in -1..9 /\ value \in Nat
      BY <1>0, <2>1, <2>2, Zenon
    <2> QED
      BY <2>1, <2>2, <2>3, <2>4, TakeExact, SMT DEF Digit, Take
  <1>3. CASE proxy_port
    <2>1. PICK d : d = input[index + 1]
      BY SMT
    <2>2. /\ job = "proxy_port" /\ verdict = "running" /\ index < Len(input)
          /\ Take(~Digit \/ value > PORT_MAX \div 10) /\ job \in Numbers
      BY <1>3, <2>1, SMT DEF proxy_port, Iterating, Numbers
    <2>3. d \in -1..9 /\ value \in Nat
      BY <1>0, <2>1, <2>2, Zenon
    <2>4. value > PORT_MAX \div 10 /\ d >= 0 => value * 10 + d > Limit
      BY <2>2, <2>3, SMT DEF Limit
    <2> QED
      BY <2>1, <2>2, <2>4, TakeExact, SMT DEF Digit, Take
  <1>4. CASE parse_content_length_ends \/ parse_port_text_ends \/ proxy_port_ends
    <2>1. /\ job \in Numbers /\ verdict = "running" /\ index >= Len(input)
          /\ UNCHANGED <<job, input, index, value>>
      BY <1>4, SMT
         DEF parse_content_length_ends, parse_port_text_ends, proxy_port_ends, Ending,
             Judge, Numbers
    <2>2. value \in Nat
      BY SMT DEF Inv, TypeOK
    <2>3. ASSUME parse_content_length_ends
          PROVE  verdict' = IF Len(input) > 0 /\ value \in Allowed
                            THEN "accepted" ELSE "refused"
      <3>1. job = "parse_content_length" /\ value \in 0..LLONG_MAX
        BY <2>3, SMT DEF parse_content_length_ends, Ending, Inv, TypeOK
      <3> QED
        BY <2>3, <3>1, SMT DEF parse_content_length_ends, Judge, Allowed
    <2>4. ASSUME parse_port_text_ends
          PROVE  verdict' = IF Len(input) > 0 /\ value \in Allowed
                            THEN "accepted" ELSE "refused"
      <3>1. job = "parse_port_text" /\ value <= PORT_MAX
        BY <2>1, <2>4, SMT DEF parse_port_text_ends, Ending, NumbersInv
      <3> QED
        BY <2>2, <2>4, <3>1, SMT DEF parse_port_text_ends, Judge, Allowed
    <2>5. ASSUME proxy_port_ends
          PROVE  verdict' = IF Len(input) > 0 /\ value \in Allowed
                            THEN "accepted" ELSE "refused"
      BY <2>5, SMT DEF proxy_port_ends, Ending, Judge, Allowed
    <2> QED
      BY <1>4, <2>1, <2>3, <2>4, <2>5, EndExact, Zenon
  <1>5. CASE \/ valid_utf8_bytes \/ jstring_to_utf8
             \/ valid_utf8_bytes_ends \/ jstring_to_utf8_ends
    <2>1. job \notin Numbers /\ job' = job
      BY <1>5, SMT
         DEF valid_utf8_bytes, jstring_to_utf8, valid_utf8_bytes_ends,
             jstring_to_utf8_ends, Iterating, Ending, Judge, Numbers
    <2> QED
      BY <2>1, SMT DEF NumbersInv
  <1>6. CASE UNCHANGED vars
    <2>1. UNCHANGED <<job, input, index, value, verdict>>
      BY <1>6, SMT DEF vars
    <2>2. Ahead' = Ahead /\ Decimal(input)' = Decimal(input) /\ Allowed' = Allowed
      BY <2>1, Zenon DEF Ahead, Allowed
    <2>3. NumbersAreExact' <=> NumbersAreExact
      BY <2>1, <2>2, Zenon DEF NumbersAreExact
    <2> QED
      BY <2>1, <2>2, <2>3, Zenon DEF NumbersInv
  <1> QED
    BY <1>1, <1>2, <1>3, <1>4, <1>5, <1>6, Zenon DEF Next

\* No loop looks beyond its text, and no number outgrows its C type.
THEOREM ScannersTypeCorrect == Spec => []TypeOK
  <1>1. Inv => TypeOK
    BY Zenon DEF Inv
  <1> QED
    BY <1>1, AlwaysInv, PTL

\* valid_utf8_bytes decides UTF-8, for texts of any length.
THEOREM Utf8IsDecided == Spec => []Utf8IsExact
  <1>1. Inv => Utf8IsExact
    <2>1. SUFFICES ASSUME Inv, job = "valid_utf8_bytes", verdict # "running"
                   PROVE  verdict = "accepted" <=> WellFormed(input)
      BY SMT DEF Utf8IsExact
    <2>2. CASE verdict = "accepted"
      <3>1. PICK C \in SUBSET (0..Len(input)) : CutsInto(C, input, Len(input))
        BY <2>1, <2>2, SMT DEF Inv, ValidInv
      <3>2. WellFormed(input)
        BY <3>1, SMT DEF WellFormed, CutsInto
      <3> QED
        BY <2>2, <3>2, SMT
    <2>3. CASE verdict = "refused"
      BY <2>1, <2>3, SMT DEF Inv, ValidInv
    <2> QED
      BY <2>1, <2>2, <2>3, SMT DEF Inv, TypeOK
  <1> QED
    BY <1>1, AlwaysInv, PTL

\* jstring_to_utf8 makes the UTF-8 of every string that has one, whatever its
\* length, and never runs out of its buffer.
THEOREM JavaTextsAreConverted == Spec => []JavaTextIsExact
  <1>1. Inv => JavaTextIsExact
    <2>1. SUFFICES ASSUME Inv, job = "jstring_to_utf8"
                   PROVE  /\ Len(output) < Capacity
                          /\ verdict # "running" =>
                                (verdict = "refused" <=>
                                    \E i \in 1..Len(input) : Unpaired(input, i))
                          /\ verdict = "accepted" => <<Len(input), Len(output)>> \in cuts
      BY <2>1, SMT DEF JavaTextIsExact, Inv, JavaInv
    <2>2. /\ Len(output) <= 4 * index /\ <<index, Len(output)>> \in cuts
          /\ \A i \in 1..index : ~Unpaired(input, i)
          /\ verdict = "accepted" => index = Len(input)
          /\ verdict = "refused" => \E i \in 1..Len(input) : Unpaired(input, i)
          /\ verdict \in {"running", "accepted", "refused"}
      BY <2>1, SMT DEF Inv, JavaInv, TypeOK
    <2>3. Len(output) \in Nat /\ index \in Nat /\ index <= Len(input) /\ Len(input) \in Nat
      BY <2>1, SMT DEF Inv, TypeOK
    <2>4. Len(output) < Capacity
      BY <2>2, <2>3, SMT DEF Capacity
    <2> QED
      BY <2>2, <2>4, SMT
  <1> QED
    BY <1>1, AlwaysInv, PTL

\* Before the first digit all the places are to come.
LEMMA InitNumbers == Init => NumbersInv
  <1> SUFFICES ASSUME Init, job \in Numbers PROVE NumbersInv
    BY Zenon DEF NumbersInv
  <1>1. Items(job) = -1..9
    BY SMT DEF Numbers, Items
  <1>2. Inv
    BY InitInv
  <1>3. input \in Seq(-1..9)
    BY <1>1, <1>2, Zenon DEF Inv, TypeOK
  <1>4. Len(input) \in Nat /\ index = 0 /\ value = 0 /\ verdict = "running"
    BY <1>3 DEF Init
  <1>5. Weights(Len(input))[Len(input)] \in Int
    BY <1>4, WeightsAre
  <1>6. Sums(input)[Len(input)] \in Int
    BY <1>3, <1>4, SumsAre
  <1>7. Len(input) - index = Len(input)
    BY <1>4
  <1>8. Ahead = 0 * Weights(Len(input))[Len(input)] + Sums(input)[Len(input)]
    BY <1>4, <1>7, Zenon DEF Ahead
  <1>9. Ahead = Decimal(input)
    BY <1>5, <1>6, <1>8 DEF Decimal
  <1> QED
    BY <1>4, <1>9, ScannersAssumption DEF NumbersInv, NumbersAreExact

\* The readers of content lengths and ports decide their ranges, for numerals
\* of any length: by the division before the multiplication or the comparison
\* after it.
THEOREM NumbersAreDecided == Spec => []NumbersAreExact
  <1>1. NumbersInv => NumbersAreExact
    BY Zenon DEF NumbersInv, NumbersAreExact
  <1> QED
    BY <1>1, InitNumbers, NextNumbers, AlwaysInv, PTL DEF Spec

\* The pairs of C lead from the beginning of both texts to their ends.
Converts(s, t, C) ==
    /\ <<0, 0>> \in C /\ <<Len(s), Len(t)>> \in C
    /\ Chained(s, t, C, <<Len(s), Len(t)>>)

\* One pair on.
LEMMA ChainStep ==
    ASSUME NEW s, NEW t, NEW C \in SUBSET (Nat \X Nat), Converts(s, t, C),
           NEW i \in Nat, NEW j \in Nat, <<i, j>> \in C, <<i, j>> # <<Len(s), Len(t)>>
    PROVE  \E m \in 1..2 : \E n \in 1..4 :
              <<i + m, j + n>> \in C /\ SameScalar(s, i, m, t, j, n)
  <1>1. PICK c \in C : c = <<i, j>>
    BY Zenon
  <1>2. c[1] = i /\ c[2] = j
    BY <1>1
  <1>3. \E m \in 1..2, n \in 1..4 :
           <<c[1] + m, c[2] + n>> \in C /\ SameScalar(s, c[1], m, t, c[2], n)
    BY <1>1, Zenon DEF Converts, Chained
  <1> QED
    BY <1>2, <1>3, Zenon

\* The first byte tells the length of an encoding.
LEMMA OneLength ==
    ASSUME NEW t \in Seq(Byte), NEW j \in Nat, NEW n \in 1..4, NEW b \in 1..4,
           IsEncoding(t, j, n), IsEncoding(t, j, b)
    PROVE  n = b
  <1>1. Lead(n, t[j + 1]) /\ Lead(b, t[j + 1]) /\ j + n <= Len(t)
    BY Zenon DEF IsEncoding
  <1>2. Len(t) \in Nat /\ j + 1 \in 1..Len(t)
    BY <1>1, SMT
  <1>3. t[j + 1] \in Byte
    BY <1>2, ElementOfSeq
  <1>4. PICK x \in Int : x = t[j + 1]
    BY <1>3, ItemBounds
  <1>5. n \in {1, 2, 3, 4} /\ b \in {1, 2, 3, 4}
    BY SMT
  <1>6. Lead(n, x) /\ Lead(b, x)
    BY <1>1, <1>4, Zenon
  <1> QED
    BY <1>4, <1>5, <1>6, SMT DEF Lead, Within

Pair(h, l) == (h - 55296 + 64) * 1024 + l - 56320

\* A pair of surrogates stands for more than one unit can.
LEMMA PairBeyond ==
    ASSUME NEW h \in Int, NEW l \in Int, High(h), Low(l)
    PROVE  ~OneUnit(Pair(h, l))
  BY SMT DEF High, Low, Within, Pair, OneUnit

\* A pair is told by its number.
LEMMA PairIsOne ==
    ASSUME NEW h \in Int, NEW l \in Int, NEW g \in Int, NEW k \in Int,
           Low(l), Low(k), Pair(h, l) = Pair(g, k)
    PROVE  h = g /\ l = k
  BY SMT DEF Low, Within, Pair

\* Two strings have a scalar value at the same place of the same bytes.
Meet(s, r, t, i, j, m, p, n, b) ==
    /\ s \in Seq(Unit) /\ r \in Seq(Unit) /\ t \in Seq(Byte)
    /\ i \in Nat /\ j \in Nat /\ m \in 1..2 /\ p \in 1..2 /\ n \in 1..4 /\ b \in 1..4
    /\ SameScalar(s, i, m, t, j, n) /\ SameScalar(r, i, p, t, j, b)

Alike(s, r, i, m, p, n, b) ==
    m = p /\ n = b /\ \A k \in 1..m : s[i + k] = r[i + k]

\* Two strings that have the same bytes for the same scalar value have the same
\* units for it.
LEMMA SameUnits ==
    ASSUME NEW s, NEW r, NEW t, NEW i, NEW j, NEW m, NEW p, NEW n, NEW b,
           Meet(s, r, t, i, j, m, p, n, b)
    PROVE  Alike(s, r, i, m, p, n, b)
  <1> SUFFICES ASSUME s \in Seq(Unit), r \in Seq(Unit), t \in Seq(Byte),
                      i \in Nat, j \in Nat, m \in 1..2, p \in 1..2,
                      n \in 1..4, b \in 1..4,
                      SameScalar(s, i, m, t, j, n), SameScalar(r, i, p, t, j, b)
               PROVE  m = p /\ n = b /\ \A k \in 1..m : s[i + k] = r[i + k]
    BY Zenon DEF Meet, Alike
  <1>1. n = b
    BY OneLength, Zenon DEF SameScalar
  <1>2. UnitsValue(s, i, m) = UnitsValue(r, i, p)
    BY <1>1, Zenon DEF SameScalar
  <1>3. i + m <= Len(s) /\ i + p <= Len(r) /\ Len(s) \in Nat /\ Len(r) \in Nat
    BY DEF SameScalar
  <1>4. i + 1 \in 1..Len(s) /\ i + 1 \in 1..Len(r)
    BY <1>3
  <1>5. s[i + 1] \in Unit /\ r[i + 1] \in Unit
    BY <1>4, ElementOfSeq
  <1>6. PICK a \in Int : a = s[i + 1] /\ 0 <= a /\ a <= 65535
    BY <1>5, ItemBounds
  <1>7. PICK c \in Int : c = r[i + 1] /\ 0 <= c /\ c <= 65535
    BY <1>5, ItemBounds
  <1>8. m # 1 => m = 2 /\ i + 2 \in 1..Len(s)
    BY <1>3
  <1>9. p # 1 => p = 2 /\ i + 2 \in 1..Len(r)
    BY <1>3
  <1>10. ASSUME m # 1
         PROVE  s[i + 2] \in Int /\ High(a) /\ Low(s[i + 2])
    <2>1. s[i + 2] \in Unit
      BY <1>8, <1>10, ElementOfSeq
    <2>2. s[i + 2] \in Int
      BY <2>1, ItemBounds
    <2> QED
      BY <1>6, <1>10, <2>2, SMT DEF SameScalar
  <1>11. ASSUME p # 1
         PROVE  r[i + 2] \in Int /\ High(c) /\ Low(r[i + 2])
    <2>1. r[i + 2] \in Unit
      BY <1>9, <1>11, ElementOfSeq
    <2>2. r[i + 2] \in Int
      BY <2>1, ItemBounds
    <2> QED
      BY <1>7, <1>11, <2>2, SMT DEF SameScalar
  <1>12. CASE m = 1 /\ p = 1
    <2>1. a = c
      BY <1>2, <1>6, <1>7, <1>12, SMT DEF UnitsValue
    <2>2. s[i + 1] = r[i + 1]
      BY <1>6, <1>7, <2>1, SMT
    <2>3. \A k \in 1..m : k = 1
      BY <1>12, SMT
    <2> QED
      BY <1>1, <1>12, <2>2, <2>3, Zenon
  <1>13. CASE m # 1 /\ p # 1
    <2>1. PICK y \in Int : y = s[i + 2] /\ Low(y)
      BY <1>10, <1>13, Zenon
    <2>2. PICK z \in Int : z = r[i + 2] /\ Low(z)
      BY <1>11, <1>13, Zenon
    <2>3. Pair(a, y) = Pair(c, z)
      BY <1>2, <1>6, <1>7, <1>13, <2>1, <2>2, SMT DEF UnitsValue, Pair
    <2>4. a = c /\ y = z
      BY <2>1, <2>2, <2>3, PairIsOne, SMT
    <2>5. m = 2 /\ p = 2 /\ \A k \in 1..m : k = 1 \/ k = 2
      BY <1>13, SMT
    <2>6. s[i + 1] = r[i + 1] /\ s[i + 2] = r[i + 2]
      BY <1>6, <1>7, <2>1, <2>2, <2>4, SMT
    <2>7. ASSUME NEW k \in 1..m PROVE s[i + k] = r[i + k]
      <3>1. k = 1 \/ k = 2
        BY <2>5, <2>7, Zenon
      <3> QED
        BY <2>6, <3>1, Zenon
    <2> QED
      BY <1>1, <2>5, <2>7, Zenon
  <1>14. CASE m = 1 /\ p # 1
    <2>1. PICK z \in Int : z = r[i + 2] /\ Low(z)
      BY <1>11, <1>14, Zenon
    <2>2. a = Pair(c, z) /\ High(c)
      BY <1>2, <1>6, <1>7, <1>11, <1>14, <2>1, SMT DEF UnitsValue, Pair
    <2>3. ~OneUnit(Pair(c, z))
      BY <2>1, <2>2, PairBeyond, Zenon
    <2>4. OneUnit(a)
      BY <1>6, SMT DEF OneUnit
    <2> QED
      BY <2>2, <2>3, <2>4, Zenon
  <1>15. CASE m # 1 /\ p = 1
    <2>1. PICK y \in Int : y = s[i + 2] /\ Low(y)
      BY <1>10, <1>15, Zenon
    <2>2. c = Pair(a, y) /\ High(a)
      BY <1>2, <1>6, <1>7, <1>10, <1>15, <2>1, SMT DEF UnitsValue, Pair
    <2>3. ~OneUnit(Pair(a, y))
      BY <2>1, <2>2, PairBeyond, Zenon
    <2>4. OneUnit(c)
      BY <1>7, SMT DEF OneUnit
    <2> QED
      BY <2>2, <2>3, <2>4, Zenon
  <1> QED
    BY <1>12, <1>13, <1>14, <1>15, Zenon

\* A pair at the end of the bytes is the end of the string.
LEMMA EndsTogether ==
    ASSUME NEW s \in Seq(Unit), NEW t \in Seq(Byte), NEW C \in SUBSET (Nat \X Nat),
           Converts(s, t, C), NEW i \in Nat, <<i, Len(t)>> \in C
    PROVE  i = Len(s)
  <1>1. Len(t) \in Nat
    OBVIOUS
  <1>2. SUFFICES ASSUME i # Len(s) PROVE FALSE
    OBVIOUS
  <1>3. <<i, Len(t)>> # <<Len(s), Len(t)>>
    BY <1>2
  <1>4. PICK m \in 1..2 : \E n \in 1..4 : SameScalar(s, i, m, t, Len(t), n)
    BY <1>1, <1>3, ChainStep, Zenon
  <1>5. PICK n \in 1..4 : SameScalar(s, i, m, t, Len(t), n)
    BY <1>4
  <1>6. Len(t) + n <= Len(t)
    BY <1>5 DEF SameScalar, IsEncoding
  <1> QED
    BY <1>1, <1>6

\* The bytes have one string only.
LEMMA OneString ==
    ASSUME NEW s \in Seq(Unit), NEW r \in Seq(Unit), NEW t \in Seq(Byte),
           NEW C \in SUBSET (Nat \X Nat), NEW D \in SUBSET (Nat \X Nat),
           Converts(s, t, C), Converts(r, t, D)
    PROVE  s = r
  <1> DEFINE Agree(i, j) == /\ <<i, j>> \in C /\ <<i, j>> \in D
                            /\ \A k \in 1..i : s[k] = r[k]
             T == {x \in Nat : \E i \in Nat, j \in Nat : x + j = Len(t) /\ Agree(i, j)}
  <1>1. Len(t) \in Nat
    OBVIOUS
  <1>2. Len(t) \in T
    <2>1. Agree(0, 0)
      BY DEF Converts
    <2>2. 0 \in Nat /\ Len(t) + 0 = Len(t)
      BY <1>1
    <2> HIDE DEF Agree
    <2> QED
      BY <1>1, <2>1, <2>2
  <1>3. PICK x \in T : \A y \in T : x <= y
    BY <1>2, LeastElement
  <1>4. PICK i \in Nat : \E j \in Nat : x + j = Len(t) /\ Agree(i, j)
    BY <1>3
  <1>5. PICK j \in Nat : x + j = Len(t) /\ Agree(i, j)
    BY <1>4
  <1>6. x = 0
    <2>1. SUFFICES ASSUME x # 0 PROVE FALSE
      OBVIOUS
    <2>0. x \in Nat /\ x + j = Len(t)
      BY <1>3, <1>5
    <2>2. j # Len(t)
      BY <1>1, <2>0, <2>1
    <2>3. <<i, j>> # <<Len(s), Len(t)>> /\ <<i, j>> # <<Len(r), Len(t)>>
      BY <2>2
    <2>4. PICK m \in 1..2 : \E n \in 1..4 :
             <<i + m, j + n>> \in C /\ SameScalar(s, i, m, t, j, n)
      BY <1>5, <2>3, ChainStep, Zenon
    <2>5. PICK n \in 1..4 : <<i + m, j + n>> \in C /\ SameScalar(s, i, m, t, j, n)
      BY <2>4
    <2>6. PICK p \in 1..2 : \E b \in 1..4 :
             <<i + p, j + b>> \in D /\ SameScalar(r, i, p, t, j, b)
      BY <1>5, <2>3, ChainStep, Zenon
    <2>7. PICK b \in 1..4 : <<i + p, j + b>> \in D /\ SameScalar(r, i, p, t, j, b)
      BY <2>6
    <2> HIDE DEF Agree, T
    <2>8. m = p /\ n = b /\ \A k \in 1..m : s[i + k] = r[i + k]
      <3>1. SameScalar(s, i, m, t, j, n)
        BY <2>5, Zenon
      <3>2. SameScalar(r, i, p, t, j, b)
        BY <2>7, Zenon
      <3>3. Meet(s, r, t, i, j, m, p, n, b)
        BY <3>1, <3>2, Zenon DEF Meet
      <3>4. Alike(s, r, i, m, p, n, b)
        BY <3>3, SameUnits, Zenon
      <3> QED
        BY <3>4, Zenon DEF Alike
    <2>9. <<i + m, j + n>> \in C /\ <<i + m, j + n>> \in D
      BY <2>5, <2>7, <2>8, Zenon
    <2> USE DEF Agree
    <2>10. ASSUME NEW k \in 1..(i + m) PROVE s[k] = r[k]
      <3>1. CASE k \in 1..i
        BY <1>5, <3>1
      <3>2. CASE k \notin 1..i
        <4>1. k - i \in 1..m /\ i + (k - i) = k
          BY <3>2
        <4>2. s[i + (k - i)] = r[i + (k - i)]
          BY <2>8, <4>1, Zenon
        <4> QED
          BY <4>1, <4>2, Zenon
      <3> QED
        BY <3>1, <3>2
    <2>11. Agree(i + m, j + n)
      BY <2>9, <2>10, Zenon
    <2> HIDE DEF Agree
    <2>12. j + n <= Len(t)
      BY <2>5 DEF SameScalar, IsEncoding
    <2>13. x - n \in Nat /\ (x - n) + (j + n) = Len(t) /\ i + m \in Nat /\ j + n \in Nat
           /\ x - n < x
      <3>1. n \in Nat /\ n >= 1 /\ m \in Nat
        OBVIOUS
      <3>2. x >= n
        BY <1>1, <2>0, <2>12, <3>1
      <3> QED
        BY <1>1, <2>0, <3>1, <3>2
    <2>14. x - n \in T
      BY <2>11, <2>13 DEF T
    <2>15. x <= x - n
      BY <1>3, <2>14, Zenon
    <2> QED
      BY <2>0, <2>13, <2>15
  <1>7. j = Len(t)
    BY <1>1, <1>5, <1>6
  <1>8. i = Len(s)
    BY <1>5, <1>7, EndsTogether, Zenon
  <1>9. i = Len(r)
    BY <1>5, <1>7, EndsTogether, Zenon
  <1>10. \A k \in 1..Len(s) : s[k] = r[k]
    BY <1>5, <1>8
  <1> QED
    BY <1>8, <1>9, <1>10, SeqEqual

\* What jstring_to_utf8 hands to the native layer is UTF-8: what the layer's own
\* valid_utf8_bytes would accept.
THEOREM JavaTextsAreUtf8 ==
    Spec => [](job = "jstring_to_utf8" /\ verdict = "accepted" => WellFormed(output))
  <1>1. ASSUME Inv, job = "jstring_to_utf8", verdict = "accepted" PROVE WellFormed(output)
    <2> DEFINE C == {c[2] : c \in cuts}
               l == Len(output)
               last == <<Len(input), l>>
    <2>1. /\ cuts \subseteq Nat \X Nat /\ l \in Nat
          /\ <<0, 0>> \in cuts /\ last \in cuts
          /\ Chained(input, output, cuts, last)
      BY <1>1 DEF Inv, TypeOK, JavaInv
    <2>2. ASSUME NEW c \in cuts, c # last
          PROVE  \E n \in 1..4 : c[2] + n \in C /\ IsEncoding(output, c[2], n)
      <3>1. PICK m \in 1..2 : \E n \in 1..4 :
               <<c[1] + m, c[2] + n>> \in cuts /\ SameScalar(input, c[1], m, output, c[2], n)
        BY <2>1, <2>2, Zenon DEF Chained
      <3>2. PICK n \in 1..4 :
               <<c[1] + m, c[2] + n>> \in cuts /\ SameScalar(input, c[1], m, output, c[2], n)
        BY <3>1
      <3>3. <<c[1] + m, c[2] + n>>[2] = c[2] + n
        OBVIOUS
      <3>4. c[2] + n \in C
        BY <3>2, <3>3
      <3> QED
        BY <3>2, <3>4, Zenon DEF SameScalar
    <2>3. C \in SUBSET (0..l)
      <3>1. SUFFICES ASSUME NEW c \in cuts PROVE c[2] \in 0..l
        OBVIOUS
      <3>2. c[2] \in Nat
        BY <2>1
      <3>3. CASE c = last
        BY <2>1, <3>3
      <3>4. CASE c # last
        <4>1. PICK n \in 1..4 : IsEncoding(output, c[2], n)
          BY <2>2, <3>4
        <4>2. c[2] + n <= l
          BY <4>1 DEF IsEncoding
        <4> QED
          BY <2>1, <3>2, <4>2
      <3> QED
        BY <3>3, <3>4
    <2>4. 0 \in C /\ l \in C
      <3>1. <<0, 0>>[2] = 0 /\ last[2] = l
        OBVIOUS
      <3> QED
        BY <2>1, <3>1
    <2>5. ASSUME NEW i \in C \ {l}
          PROVE  \E n \in 1..4 : i + n \in C /\ IsEncoding(output, i, n)
      <3>1. PICK c \in cuts : c[2] = i
        OBVIOUS
      <3>2. c # last
        BY <3>1
      <3> HIDE DEF C, last
      <3> QED
        BY <2>2, <3>1, <3>2
    <2> HIDE DEF C
    <2> QED
      BY <2>3, <2>4, <2>5 DEF WellFormed
  <1>2. Inv => (job = "jstring_to_utf8" /\ verdict = "accepted" => WellFormed(output))
    BY <1>1, Zenon
  <1> QED
    BY <1>2, AlwaysInv, PTL

\* jstring_to_utf8 loses nothing: no other Java string has the bytes it made.
THEOREM JavaTextsStayDistinct ==
    Spec => [](job = "jstring_to_utf8" /\ verdict = "accepted" =>
                 \A s \in Seq(Unit), C \in SUBSET (Nat \X Nat) :
                    Converts(s, output, C) => s = input)
  <1>1. ASSUME Inv, job = "jstring_to_utf8", verdict = "accepted",
               NEW s \in Seq(Unit), NEW C \in SUBSET (Nat \X Nat), Converts(s, output, C)
        PROVE  s = input
    <2>1. input \in Seq(Unit) /\ output \in Seq(Byte) /\ cuts \in SUBSET (Nat \X Nat)
      BY <1>1 DEF Inv, TypeOK, Items
    <2>2. Converts(input, output, cuts)
      BY <1>1 DEF Inv, JavaInv, Converts
    <2> QED
      BY <1>1, <2>1, <2>2, OneString, Zenon
  <1>2. Inv => (job = "jstring_to_utf8" /\ verdict = "accepted" =>
                  \A s \in Seq(Unit), C \in SUBSET (Nat \X Nat) :
                     Converts(s, output, C) => s = input)
    BY <1>1, Zenon
  <1> QED
    BY <1>2, AlwaysInv, PTL

=============================================================================
