---------------------------- MODULE InputLimits -----------------------------
(***************************************************************************)
(* The inline conversions in front of a request: the two sizes the speech  *)
(* APIs limit, text in Unicode code points and audio in decoded bytes, and *)
(* the color that is read from a string.                                   *)
(***************************************************************************)
EXTENDS Integers, Sequences, FiniteSets

-----------------------------------------------------------------------------
(* CountUtf8CodePoints.  A text is its sequence of bytes.                  *)

Bytes == 0 .. 255

\* (byte & 0xC0) == 0x80
Continuation(byte) == byte \in 128 .. 191

CountUtf8CodePoints(text) ==
  Cardinality({i \in DOMAIN text : ~Continuation(text[i])})

\* UTF-8 (RFC 3629): one lead byte, then six bits in every continuation byte.
LastCodePoint == 1114111
CodePoints == 0 .. LastCodePoint
Low6(c) == 128 + (c % 64)
Utf8(c) ==
  CASE c < 128                  -> <<c>>
    [] c >= 128 /\ c < 2048     -> <<192 + (c \div 64), Low6(c)>>
    [] c >= 2048 /\ c < 65536   -> <<224 + (c \div 4096), Low6(c \div 64), Low6(c)>>
    [] c >= 65536               -> <<240 + (c \div 262144), Low6(c \div 4096),
                                     Low6(c \div 64), Low6(c)>>

-----------------------------------------------------------------------------
(* EstimateBase64DecodedBytes, of the length of the text and the number of *)
(* '=' at its end.                                                         *)

EstimateBase64DecodedBytes(length, padding) == (length \div 4) * 3 - padding

\* Base64 (RFC 4648) of n bytes: groups of three bytes become groups of four
\* characters, the last group is filled up with padding.
EncodedLength(n)  == 4 * ((n + 2) \div 3)
EncodedPadding(n) == (3 - (n % 3)) % 3

-----------------------------------------------------------------------------
(* SetLEDLightColorParameter(const std::string &color).  A hexadecimal     *)
(* digit is its value; of the other characters std::stoi tells only a      *)
(* space and the two signs apart.                                          *)

Hex == 0 .. 15
Space == 16
Plus  == 17
Minus == 18
Other == 19
Characters == 0 .. 19

\* What std::stoi(s, nullptr, 16) throws for no digit at all.
Invalid == -256

\* Two characters: it takes the digits there are and ignores the rest.
Stoi16(a, b) ==
  CASE a \in Hex /\ b \in Hex               -> 16 * a + b
    [] a \in Hex /\ b \notin Hex            -> a
    [] a \in {Space, Plus} /\ b \in Hex     -> b
    [] a = Minus /\ b \in Hex               -> -b
    [] OTHER                                -> Invalid

Black == <<0, 0, 0>>

\* A text of a '#' and the characters s, or anything else for s = <<>>.  All
\* three values are parsed before the first is assigned to its uint8_t.
Color(s) ==
  IF Len(s) # 6 THEN Black
  ELSE LET val == [i \in 1 .. 3 |-> Stoi16(s[2 * i - 1], s[2 * i])]
       IN  IF \E i \in 1 .. 3 : val[i] = Invalid THEN Black
           ELSE <<val[1] % 256, val[2] % 256, val[3] % 256>>

\* The string of a color, as "#RRGGBB".
HexString(r, g, b) == <<r \div 16, r % 16, g \div 16, g % 16, b \div 16, b % 16>>
=============================================================================
