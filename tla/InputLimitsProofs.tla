-------------------------- MODULE InputLimitsProofs --------------------------
(***************************************************************************)
(* What the conversions of InputLimits compute, for every input.           *)
(***************************************************************************)
EXTENDS InputLimits, FiniteSetTheorems, TLAPS

-----------------------------------------------------------------------------
(* Audio size.                                                             *)

\* "Padding is subtracted so the result is exact for well-formed base64": the
\* estimate of what n bytes are encoded as is n.
THEOREM EstimateExact ==
  ASSUME NEW n \in Nat
  PROVE  EstimateBase64DecodedBytes(EncodedLength(n), EncodedPadding(n)) = n
<1> DEFINE q == n \div 3
           r == n % 3
<1>1. q \in Nat /\ r \in 0 .. 2 /\ n = 3 * q + r
  OBVIOUS
<1>2. (n + 2) \div 3 = IF r = 0 THEN q ELSE q + 1
  BY <1>1
<1>3. (3 - r) % 3 = IF r = 0 THEN 0 ELSE 3 - r
  BY <1>1
<1> HIDE DEF q, r
<1>4. \/ (n + 2) \div 3 = q /\ r = 0
      \/ (n + 2) \div 3 = q + 1 /\ r # 0
  BY <1>2
<1>5. EncodedPadding(n) = IF r = 0 THEN 0 ELSE 3 - r
  BY <1>3 DEF EncodedPadding, r
<1>6. EncodedLength(n) \div 4 = (n + 2) \div 3
  BY DEF EncodedLength
<1> QED
  BY <1>1, <1>4, <1>5, <1>6 DEF EstimateBase64DecodedBytes

\* Without its padding the same audio is counted too small, by at most the
\* two bytes of the last group, and never too large.
THEOREM EstimateUnpadded ==
  ASSUME NEW n \in Nat
  PROVE  EstimateBase64DecodedBytes(EncodedLength(n) - EncodedPadding(n), 0) \in n - 2 .. n
<1> DEFINE q == n \div 3
           r == n % 3
<1>1. q \in Nat /\ r \in 0 .. 2 /\ n = 3 * q + r
  OBVIOUS
<1>2. EncodedLength(n) - EncodedPadding(n) = IF r = 0 THEN 4 * q ELSE 4 * q + r + 1
  BY <1>1 DEF EncodedLength, EncodedPadding
<1>3. (EncodedLength(n) - EncodedPadding(n)) \div 4 = q
  BY <1>1, <1>2
<1> QED
  BY <1>1, <1>3 DEF EstimateBase64DecodedBytes

-----------------------------------------------------------------------------
(* Text length.                                                            *)

\* The encoding of a code point is a lead byte and continuation bytes.
LEMMA Utf8Lead ==
  ASSUME NEW c \in CodePoints
  PROVE  /\ Utf8(c) \in Seq(Bytes) /\ Len(Utf8(c)) \in 1 .. 4
         /\ ~Continuation(Utf8(c)[1])
         /\ \A j \in 2 .. Len(Utf8(c)) : Continuation(Utf8(c)[j])
<1>1. c \in Nat /\ c <= 1114111
  <2>1. LastCodePoint \in Nat
    BY DEF LastCodePoint
  <2>2. c \in Nat /\ c <= LastCodePoint
    BY <2>1 DEF CodePoints
  <2> QED
    BY SMT, <2>2 DEF LastCodePoint
<1>2. \A d \in Nat : Low6(d) \in Bytes /\ Continuation(Low6(d))
  BY DEF Low6, Bytes, Continuation
<1>3. /\ c \div 64 \in Nat /\ c \div 4096 \in Nat
      /\ c >= 65536 => 240 + (c \div 262144) \in 192 .. 244
      /\ c < 65536 /\ c >= 2048 => 224 + (c \div 4096) \in 192 .. 244
      /\ c < 2048 /\ c >= 128 => 192 + (c \div 64) \in 192 .. 244
  BY SMT, <1>1
<1>4. \A x \in 192 .. 244 : x \in Bytes /\ ~Continuation(x)
  BY DEF Bytes, Continuation
<1>5. CASE c < 128
  <2>1. Utf8(c) = <<c>>
    BY SMT, <1>1, <1>5 DEF Utf8
  <2>2. c \in Bytes /\ ~Continuation(c)
    BY SMT, <1>1, <1>5 DEF Bytes, Continuation
  <2> QED
    BY <2>1, <2>2
<1>6. CASE c >= 128 /\ c < 2048
  <2>1. Utf8(c) = <<192 + (c \div 64), Low6(c)>>
    BY SMT, <1>1, <1>6 DEF Utf8
  <2> DEFINE x == 192 + (c \div 64)
             y == Low6(c)
  <2>2. x \in Bytes /\ ~Continuation(x) /\ y \in Bytes /\ Continuation(y)
    BY <1>1, <1>2, <1>3, <1>4, <1>6
  <2> HIDE DEF x, y
  <2>3. Utf8(c) = <<x, y>>
    BY <2>1 DEF x, y
  <2> QED
    BY <2>2, <2>3
<1>7. CASE c >= 2048 /\ c < 65536
  <2>1. Utf8(c) = <<224 + (c \div 4096), Low6(c \div 64), Low6(c)>>
    BY SMT, <1>1, <1>7 DEF Utf8
  <2> DEFINE x == 224 + (c \div 4096)
             y == Low6(c \div 64)
             z == Low6(c)
  <2>2. /\ x \in Bytes /\ ~Continuation(x)
        /\ y \in Bytes /\ Continuation(y) /\ z \in Bytes /\ Continuation(z)
    BY <1>1, <1>2, <1>3, <1>4, <1>7
  <2> HIDE DEF x, y, z
  <2>3. Utf8(c) = <<x, y, z>>
    BY <2>1 DEF x, y, z
  <2> QED
    BY <2>2, <2>3
<1>8. CASE c >= 65536
  <2>1. Utf8(c) = <<240 + (c \div 262144), Low6(c \div 4096), Low6(c \div 64), Low6(c)>>
    BY SMT, <1>1, <1>8 DEF Utf8
  <2> DEFINE x == 240 + (c \div 262144)
             y == Low6(c \div 4096)
             z == Low6(c \div 64)
             w == Low6(c)
  <2>2. /\ x \in Bytes /\ ~Continuation(x) /\ y \in Bytes /\ Continuation(y)
        /\ z \in Bytes /\ Continuation(z) /\ w \in Bytes /\ Continuation(w)
    BY SMT, <1>1, <1>2, <1>3, <1>4, <1>8
  <2> HIDE DEF x, y, z, w
  <2>3. Utf8(c) = <<x, y, z, w>>
    BY <2>1 DEF x, y, z, w
  <2> QED
    BY <2>2, <2>3
<1> QED
  BY SMT, <1>1, <1>5, <1>6, <1>7, <1>8

\* "Each code point is counted once regardless of how many bytes encode it":
\* one more code point at the end of any text adds one to the count.
THEOREM EachCodePointOnce ==
  ASSUME NEW text \in Seq(Bytes), NEW c \in CodePoints
  PROVE  CountUtf8CodePoints(text \o Utf8(c)) = CountUtf8CodePoints(text) + 1
<1> DEFINE n     == Len(text)
           k     == Len(Utf8(c))
           Lead(s) == {i \in DOMAIN s : ~Continuation(s[i])}
<1>1. n \in Nat /\ k \in 1 .. 4 /\ DOMAIN text = 1 .. n
  BY Utf8Lead
<1>2. Utf8(c) \in Seq(Bytes)
  BY Utf8Lead
<1>3. DOMAIN (text \o Utf8(c)) = 1 .. n + k
  BY <1>1, <1>2
<1>4. /\ \A i \in 1 .. n : (text \o Utf8(c))[i] = text[i]
      /\ \A j \in 1 .. k : (text \o Utf8(c))[n + j] = Utf8(c)[j]
  BY <1>1, <1>2
<1>5. Lead(text \o Utf8(c)) = Lead(text) \cup {n + 1}
  <2>1. ~Continuation(Utf8(c)[1]) /\ \A j \in 2 .. k : Continuation(Utf8(c)[j])
    BY Utf8Lead
  <2>2. ASSUME NEW i \in 1 .. n + k
        PROVE  i \in Lead(text \o Utf8(c)) <=> i \in Lead(text) \/ i = n + 1
    <3>1. CASE i \in 1 .. n
      BY <1>1, <1>3, <1>4, <3>1
    <3>2. CASE i \notin 1 .. n
      <4>1. i - n \in 1 .. k /\ i = n + (i - n)
        BY <1>1, <3>2
      <4>2. (text \o Utf8(c))[i] = Utf8(c)[i - n]
        BY <1>4, <4>1
      <4>3. Continuation((text \o Utf8(c))[i]) <=> i - n # 1
        BY <2>1, <4>1, <4>2
      <4> QED
        BY <1>1, <1>3, <3>2, <4>1, <4>3
    <3> QED
      BY <3>1, <3>2
  <2>3. Lead(text \o Utf8(c)) \subseteq 1 .. n + k
    BY <1>3
  <2>4. Lead(text) \cup {n + 1} \subseteq 1 .. n + k
    <3>1. Lead(text) \subseteq 1 .. n
      BY <1>1
    <3> HIDE DEF n, k, Lead
    <3>2. n + 1 \in 1 .. n + k /\ \A i \in 1 .. n : i \in 1 .. n + k
      BY <1>1
    <3> QED
      BY <3>1, <3>2
  <2> HIDE DEF Lead
  <2> QED
    BY <2>2, <2>3, <2>4
<1>6. IsFiniteSet(Lead(text)) /\ n + 1 \notin Lead(text)
  <2>1. IsFiniteSet(1 .. n)
    BY <1>1, FS_Interval
  <2>2. Lead(text) \in SUBSET (1 .. n)
    BY <1>1
  <2>3. IsFiniteSet(Lead(text))
    BY <2>1, <2>2, FS_Subset
  <2>4. n + 1 \notin 1 .. n
    BY <1>1
  <2> QED
    BY <2>2, <2>3, <2>4
<1>7. Cardinality(Lead(text) \cup {n + 1}) = Cardinality(Lead(text)) + 1
  BY <1>6, FS_AddElement
<1> QED
  BY <1>5, <1>7 DEF CountUtf8CodePoints

-----------------------------------------------------------------------------
(* Colors.                                                                 *)

\* The constructor from a string makes the same color as the one from three
\* components, whatever the components are.
THEOREM ColorExact ==
  ASSUME NEW r \in Bytes, NEW g \in Bytes, NEW b \in Bytes
  PROVE  Color(HexString(r, g, b)) = <<r, g, b>>
<1> DEFINE s == HexString(r, g, b)
<1>1. \A v \in Bytes : /\ v \div 16 \in Hex /\ v % 16 \in Hex
                       /\ Stoi16(v \div 16, v % 16) = v
  BY DEF Bytes, Hex, Stoi16, Space, Plus, Minus
<1>2. Len(s) = 6
  BY DEF HexString
<1>3. /\ Stoi16(s[1], s[2]) = r /\ Stoi16(s[3], s[4]) = g /\ Stoi16(s[5], s[6]) = b
  BY <1>1 DEF HexString
<1> DEFINE val == [i \in 1 .. 3 |-> Stoi16(s[2 * i - 1], s[2 * i])]
<1> HIDE DEF s
<1>4. val[1] = r /\ val[2] = g /\ val[3] = b
  BY <1>3
<1>5. \A i \in 1 .. 3 : val[i] # Invalid
  <2>1. \A i \in 1 .. 3 : i = 1 \/ i = 2 \/ i = 3
    OBVIOUS
  <2> QED
    BY <1>4, <2>1 DEF Invalid, Bytes
<1>6. r % 256 = r /\ g % 256 = g /\ b % 256 = b
  BY DEF Bytes
<1>7. Color(s) = IF Len(s) # 6 THEN Black
                 ELSE IF \E i \in 1 .. 3 : val[i] = Invalid THEN Black
                 ELSE <<val[1] % 256, val[2] % 256, val[3] % 256>>
  BY DEF Color
<1> HIDE DEF val
<1>8. Color(s) = <<val[1] % 256, val[2] % 256, val[3] % 256>>
  BY <1>2, <1>5, <1>7
<1>9. <<val[1] % 256, val[2] % 256, val[3] % 256>> = <<r, g, b>>
  BY <1>4, <1>6
<1> QED
  BY <1>8, <1>9 DEF s

\* Whatever the characters are, each component is one a uint8_t holds, and a
\* text with a component that does not parse leaves all three black.
THEOREM ColorInRange ==
  ASSUME NEW s \in Seq(Characters)
  PROVE  /\ Color(s) \in Bytes \X Bytes \X Bytes
         /\ Len(s) = 6 =>
              ((\E i \in 1 .. 3 : Stoi16(s[2 * i - 1], s[2 * i]) = Invalid) => Color(s) = Black)
<1> DEFINE val == [i \in 1 .. 3 |-> Stoi16(s[2 * i - 1], s[2 * i])]
<1>1. CASE Len(s) # 6
  BY <1>1 DEF Color, Black, Bytes
<1>2. CASE Len(s) = 6
  <2>1. \A i \in 1 .. 3 : s[2 * i - 1] \in Characters /\ s[2 * i] \in Characters
    <3>1. \A i \in 1 .. 3 : 2 * i - 1 \in 1 .. Len(s) /\ 2 * i \in 1 .. Len(s)
      BY <1>2
    <3> QED
      BY <3>1
  <2>2. \A x, y \in Characters : Stoi16(x, y) \in Int
    <3> SUFFICES ASSUME NEW x \in Characters, NEW y \in Characters
                 PROVE  Stoi16(x, y) \in Int
      OBVIOUS
    <3>1. x \in Int /\ y \in Int
      BY DEF Characters
    <3>2. /\ 16 * x + y \in Int /\ -y \in Int /\ Invalid \in Int
      BY <3>1 DEF Invalid
    <3> QED
      BY <3>1, <3>2 DEF Stoi16
  <2>3. \A i \in 1 .. 3 : val[i] \in Int
    BY <2>1, <2>2
  <2>4. \A v \in Int : v % 256 \in Bytes
    BY DEF Bytes
  <2>5. Color(s) = IF \E i \in 1 .. 3 : val[i] = Invalid THEN Black
                   ELSE <<val[1] % 256, val[2] % 256, val[3] % 256>>
    BY <1>2 DEF Color
  <2>6. Black \in Bytes \X Bytes \X Bytes
    BY DEF Black, Bytes
  <2> HIDE DEF val
  <2>7. <<val[1] % 256, val[2] % 256, val[3] % 256>> \in Bytes \X Bytes \X Bytes
    BY <2>3, <2>4
  <2>8. Color(s) \in Bytes \X Bytes \X Bytes
    BY <2>5, <2>6, <2>7
  <2>9. (\E i \in 1 .. 3 : Stoi16(s[2 * i - 1], s[2 * i]) = Invalid) => Color(s) = Black
    BY <2>5 DEF val
  <2> QED
    BY <2>8, <2>9
<1> QED
  BY <1>1, <1>2
=============================================================================
