---------------------------- MODULE MCApiClient -----------------------------
(***************************************************************************)
(* Instances of ApiClient for TLC, and the conversions of InputLimits over *)
(* bounded inputs.                                                         *)
(***************************************************************************)
EXTENDS ApiClient, InputLimits

\* The first and the last code point of each length of encoding.
Samples == {0, 127, 128, 2047, 2048, 65535, 65536, LastCodePoint}

ASSUME AudioSize ==
  \A n \in 0 .. 300 :
    /\ EstimateBase64DecodedBytes(EncodedLength(n), EncodedPadding(n)) = n
    /\ EstimateBase64DecodedBytes(EncodedLength(n) - EncodedPadding(n), 0) \in n - 2 .. n

ASSUME TextLength ==
  \A p \in UNION {[1 .. n -> Samples] : n \in 0 .. 3} :
    CountUtf8CodePoints(FlattenSeq([i \in DOMAIN p |-> Utf8(p[i])])) = Len(p)

\* With a character that is no digit in every place of the string.
ASSUME ColorOfString ==
  /\ \A v \in Bytes : Color(HexString(v, 255 - v, v)) = <<v, 255 - v, v>>
  /\ \A i \in 1 .. 6, c \in Characters \ Hex :
       LET s == [HexString(18, 52, 86) EXCEPT ![i] = c]
       IN  Color(s) = Black <=> i % 2 = 1 /\ c = Other
=============================================================================
