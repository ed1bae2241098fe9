------------------------- MODULE JsonClassesProofs --------------------------
(***************************************************************************)
(* What FromJson makes of what ToJson wrote, for classes of any number of  *)
(* fields, and which classes the requests and replies of the clients have. *)
(***************************************************************************)
EXTENDS Integers, LocoApi, ServiceApi, WellFoundedInduction, TLAPS

-----------------------------------------------------------------------------
(* Induction over the fields of a class.  The induction theorems of the    *)
(* library are about operators; this one is about sets.                    *)

\* The order of the numbers is well founded, as a relation that can be named.
LEMMA NatOrder ==
  \E R : IsWellFoundedOn(R, Nat) /\ \A x, y \in Nat : x < y => <<x, y>> \in R
<1>1. \A x, y \in Nat : x < y => <<x, y>> \in OpToRel(<, Nat)
  BY Zenon DEF OpToRel
<1> QED BY <1>1, NatLessThanWellFounded, Zenon

\* WFMin of the library, for sets of numbers.
LEMMA Minimal ==
  ASSUME NEW T, T \subseteq Nat, T # {}, NEW R, IsWellFoundedOn(R, Nat)
  PROVE  \E x \in T : \A y \in T : ~ (<<y, x>> \in R)
BY WFMin, Zenon

\* A nonempty set of numbers has a least one.
LEMMA LeastNumber ==
  ASSUME NEW T, T \subseteq Nat, T # {}
  PROVE  \E x \in T : \A y \in T : x <= y
<1>1. PICK R : IsWellFoundedOn(R, Nat) /\ \A x, y \in Nat : x < y => <<x, y>> \in R
  BY NatOrder
<1>2. PICK x \in T : \A y \in T : ~ (<<y, x>> \in R)
  BY <1>1, Minimal
<1>3. \A y \in T : ~ (y < x)
  BY <1>1, <1>2
<1> QED BY <1>3

\* What holds before the first field and is kept by every field holds after
\* all of them: S is the set of the numbers of fields it holds after.
LEMMA Induction ==
  ASSUME NEW n \in Nat, NEW S, 0 \in S, \A i \in 0 .. n - 1 : i \in S => i + 1 \in S
  PROVE  \A i \in 0 .. n : i \in S
<1> SUFFICES ASSUME (0 .. n) \ S # {} PROVE FALSE
  OBVIOUS
<1>1. PICK x \in (0 .. n) \ S : \A y \in (0 .. n) \ S : x <= y
  <2>1. (0 .. n) \ S \subseteq Nat
    OBVIOUS
  <2> QED BY <2>1, LeastNumber
<1>2. x # 0 /\ x - 1 \in 0 .. n - 1 /\ ~ (x <= x - 1)
  OBVIOUS
<1>3. x - 1 \in S
  BY <1>1, <1>2
<1>4. (x - 1) + 1 = x
  OBVIOUS
<1> QED BY <1>2, <1>3, <1>4

-----------------------------------------------------------------------------
(* FromJson as a sequence of states, one after each field.                 *)

\* FromJson reads one field.
ReadField(f, json, prev) ==
  IF ~prev.ok THEN prev
  ELSE IF Throws(f, json, prev.obj) THEN [prev EXCEPT !.ok = FALSE]
  ELSE [prev EXCEPT !.obj[f.key] = Read(f, json, prev.obj)]

\* a[i] is the flag and the object FromJson has after i fields.
States(s, json, o, n, a) ==
  /\ a = [i \in 0 .. n |-> a[i]]
  /\ a[0] = [ok |-> TRUE, obj |-> o]
  /\ \A i \in 1 .. n : a[i] = ReadField(s[i], json, a[i - 1])

\* Such states exist for any number of fields.
LEMMA StatesExist ==
  ASSUME NEW s, NEW json, NEW o, NEW n \in Nat
  PROVE  \E a : States(s, json, o, n, a)
<1> DEFINE S == {i \in Nat : \E a : States(s, json, o, i, a)}
<1>1. 0 \in S
  <2> DEFINE a == [i \in 0 .. 0 |-> [ok |-> TRUE, obj |-> o]]
  <2>1. States(s, json, o, 0, a)
    BY DEF States
  <2> QED BY <2>1
<1>2. ASSUME NEW i \in 0 .. n - 1, i \in S PROVE i + 1 \in S
  <2>1. PICK a : States(s, json, o, i, a)
    BY <1>2
  <2> DEFINE b == [j \in 0 .. i + 1 |-> IF j = i + 1 THEN ReadField(s[i + 1], json, a[i]) ELSE a[j]]
  <2>2. b = [j \in 0 .. i + 1 |-> b[j]]
    OBVIOUS
  <2>3. b[0] = a[0]
    OBVIOUS
  <2>4. ASSUME NEW j \in 1 .. i + 1 PROVE b[j] = ReadField(s[j], json, b[j - 1])
    <3>1. j - 1 \in 0 .. i + 1 /\ b[j - 1] = a[j - 1]
      OBVIOUS
    <3>2. CASE j = i + 1
      BY <3>1, <3>2
    <3>3. CASE j # i + 1
      <4>1. j \in 1 .. i /\ b[j] = a[j]
        BY <3>3
      <4> QED BY <3>1, <4>1, <2>1 DEF States
    <3> QED BY <3>2, <3>3
  <2> HIDE DEF b
  <2>5. States(s, json, o, i + 1, b)
    BY <2>1, <2>2, <2>3, <2>4 DEF States
  <2> QED BY <2>5
<1> HIDE DEF S
<1>3. n \in S
  BY <1>1, <1>2, Induction
<1> QED BY <1>3 DEF S

\* The recursive function in FromJson defines these states.
LEMMA FromJsonStates ==
  ASSUME NEW s, NEW json, NEW o, Len(s) \in Nat
  PROVE  \E a : States(s, json, o, Len(s), a) /\ FromJson(s, json, o) = a[Len(s)]
<1> DEFINE n == Len(s)
           F(a) == [i \in 0 .. n |-> IF i = 0 THEN [ok |-> TRUE, obj |-> o]
                                     ELSE ReadField(s[i], json, a[i - 1])]
           c == CHOOSE a : a = F(a)
<1>1. FromJson(s, json, o) = c[n]
  BY Zenon DEF FromJson, ReadField
<1>2. PICK a : States(s, json, o, n, a)
  BY StatesExist
<1>3. a = F(a)
  <2>1. ASSUME NEW i \in 0 .. n PROVE a[i] = F(a)[i]
    BY <1>2, <2>1 DEF States
  <2> QED BY <1>2, <2>1 DEF States
<1>4. c = F(c)
  BY <1>3, Zenon
<1> HIDE DEF c
<1>5. States(s, json, o, n, c)
  <2>1. \A i \in 0 .. n : c[i] = F(c)[i]
    BY <1>4
  <2>2. c = [i \in 0 .. n |-> c[i]]
    BY <1>4, <2>1
  <2>3. c[0] = [ok |-> TRUE, obj |-> o]
    <3>1. 0 \in 0 .. n
      OBVIOUS
    <3> QED BY <2>1, <3>1
  <2>4. \A i \in 1 .. n : c[i] = ReadField(s[i], json, c[i - 1])
    BY <2>1
  <2> QED BY <2>2, <2>3, <2>4 DEF States
<1> QED BY <1>1, <1>5

\* A state is a flag and an object with the keys of the first one.
IsState(D, p) ==
  /\ p = [ok |-> p.ok, obj |-> p.obj] /\ p.ok \in BOOLEAN
  /\ p.obj = [k \in D |-> p.obj[k]]

\* A field is read from state p to state r.
FieldRead(f, json, D, p, r) ==
  /\ r.ok <=> p.ok /\ ~Throws(f, json, p.obj)
  /\ r.ok => \A k \in D : r.obj[k] = IF k = f.key THEN Read(f, json, p.obj) ELSE p.obj[k]
  /\ ~r.ok => r.obj = p.obj

\* Reading a field gives a state again and changes only the member of that
\* field, or nothing when it throws.
LEMMA ReadFieldState ==
  ASSUME NEW f, NEW json, NEW D, NEW p, IsState(D, p)
  PROVE  /\ IsState(D, ReadField(f, json, p))
         /\ FieldRead(f, json, D, p, ReadField(f, json, p))
<1> DEFINE t == Throws(f, json, p.obj)
           v == Read(f, json, p.obj)
           r == ReadField(f, json, p)
<1>0. /\ r = IF ~p.ok THEN p ELSE IF t THEN [p EXCEPT !.ok = FALSE] ELSE [p EXCEPT !.obj[f.key] = v]
      /\ t \in BOOLEAN
  BY Zenon DEF ReadField, Throws
<1> HIDE DEF t, v, r
<1>9. /\ IsState(D, r)
      /\ r.ok <=> p.ok /\ ~t
      /\ r.ok => \A k \in D : r.obj[k] = IF k = f.key THEN v ELSE p.obj[k]
      /\ ~r.ok => r.obj = p.obj
  <2>1. CASE ~p.ok
    BY <1>0, <2>1 DEF IsState
  <2>2. CASE p.ok /\ t
    <3>1. r = [ok |-> FALSE, obj |-> p.obj]
      BY <1>0, <2>2 DEF IsState
    <3> QED BY <2>2, <3>1 DEF IsState
  <2>3. CASE p.ok /\ ~t
    <3> DEFINE e == [p.obj EXCEPT ![f.key] = v]
    <3>1. r = [ok |-> TRUE, obj |-> e]
      BY <1>0, <2>3 DEF IsState
    <3>2. e = [k \in D |-> IF k = f.key THEN v ELSE p.obj[k]]
      BY DEF IsState
    <3>3. e = [k \in D |-> e[k]] /\ \A k \in D : e[k] = IF k = f.key THEN v ELSE p.obj[k]
      BY <3>2
    <3> HIDE DEF e
    <3> QED BY <2>3, <3>1, <3>3 DEF IsState
  <2> QED BY <1>0, <2>1, <2>2, <2>3
<1> QED BY <1>9 DEF t, v, r, FieldRead

\* a[i] is what FromJson has made of an object with the keys D after i fields.
Decoding(s, json, o, D, a) ==
  /\ Len(s) \in Nat
  /\ a[0] = [ok |-> TRUE, obj |-> o]
  /\ \A i \in 0 .. Len(s) : IsState(D, a[i])
  /\ \A i \in 1 .. Len(s) : FieldRead(s[i], json, D, a[i - 1], a[i])

\* FromJson goes through such states, from the object it is given to its result.
LEMMA FromJsonDecodes ==
  ASSUME NEW s, NEW json, NEW D, NEW o, Len(s) \in Nat, o = [k \in D |-> o[k]]
  PROVE  \E a : Decoding(s, json, o, D, a) /\ FromJson(s, json, o) = a[Len(s)]
<1>1. PICK a : States(s, json, o, Len(s), a) /\ FromJson(s, json, o) = a[Len(s)]
  BY FromJsonStates
<1>2. /\ a[0] = [ok |-> TRUE, obj |-> o]
      /\ \A i \in 1 .. Len(s) : a[i] = ReadField(s[i], json, a[i - 1])
  BY <1>1 DEF States
<1> DEFINE S == {i \in Nat : IsState(D, a[i])}
<1>3. 0 \in S
  <2>1. a[0].ok = TRUE /\ a[0].obj = o /\ a[0] = [ok |-> a[0].ok, obj |-> a[0].obj]
    BY <1>2
  <2> QED BY <2>1 DEF IsState
<1>4. ASSUME NEW i \in 0 .. Len(s) - 1, i \in S PROVE i + 1 \in S
  <2>1. a[i + 1] = ReadField(s[i + 1], json, a[i])
    <3>1. i + 1 \in 1 .. Len(s) /\ (i + 1) - 1 = i
      OBVIOUS
    <3> QED BY <1>2, <3>1
  <2>2. IsState(D, a[i]) => IsState(D, a[i + 1])
    BY <2>1, ReadFieldState
  <2> QED BY <1>4, <2>2
<1>5. \A i \in 0 .. Len(s) : i \in S
  <2> HIDE DEF S
  <2> QED BY <1>3, <1>4, Induction
<1>6. \A i \in 0 .. Len(s) : IsState(D, a[i])
  BY <1>5
<1>7. ASSUME NEW i \in 1 .. Len(s) PROVE FieldRead(s[i], json, D, a[i - 1], a[i])
  <2>1. i - 1 \in 0 .. Len(s)
    OBVIOUS
  <2>2. IsState(D, a[i - 1]) /\ a[i] = ReadField(s[i], json, a[i - 1])
    BY <1>2, <1>6, <2>1
  <2> QED BY <2>2, ReadFieldState
<1> QED BY <1>1, <1>2, <1>6, <1>7, Zenon DEF Decoding

\* Once a field has thrown nothing is read.
LEMMA OkBefore ==
  ASSUME NEW s, NEW json, NEW o, NEW D, NEW a, Decoding(s, json, o, D, a), a[Len(s)].ok
  PROVE  \A i \in 0 .. Len(s) : a[i].ok
<1> DEFINE n == Len(s)
           S == {i \in Nat : a[n - i].ok}
<1>1. n \in Nat /\ \A i \in 1 .. n : a[i].ok => a[i - 1].ok
  BY DEF Decoding, FieldRead
<1> HIDE DEF n
<1>2. 0 \in S
  <2>1. n - 0 = n
    BY <1>1
  <2> QED BY <2>1 DEF n
<1>3. ASSUME NEW i \in 0 .. n - 1, i \in S PROVE i + 1 \in S
  <2>1. n - i \in 1 .. n /\ (n - i) - 1 = n - (i + 1) /\ i + 1 \in Nat
    BY <1>1
  <2> QED BY <1>1, <1>3, <2>1
<1>4. \A i \in 0 .. n : i \in S
  <2> HIDE DEF S
  <2> QED BY <1>1, <1>2, <1>3, Induction
<1>5. ASSUME NEW i \in 0 .. n PROVE a[i].ok
  <2>1. n - i \in 0 .. n /\ n - (n - i) = i
    BY <1>1
  <2> QED BY <1>4, <2>1
<1> QED BY <1>5 DEF n

\* What fails, fails at a field.
LEMMA FirstThrow ==
  ASSUME NEW s, NEW json, NEW o, NEW D, NEW a, Decoding(s, json, o, D, a), ~a[Len(s)].ok
  PROVE  \E i \in 1 .. Len(s) : a[i - 1].ok /\ Throws(s[i], json, a[i - 1].obj)
<1> SUFFICES ASSUME \A i \in 1 .. Len(s) : ~(a[i - 1].ok /\ Throws(s[i], json, a[i - 1].obj))
             PROVE  FALSE
  OBVIOUS
<1> DEFINE S == {i \in Nat : a[i].ok}
<1>1. Len(s) \in Nat /\ 0 \in S
  BY DEF Decoding
<1>2. ASSUME NEW i \in 0 .. Len(s) - 1, i \in S PROVE i + 1 \in S
  <2>1. i + 1 \in 1 .. Len(s) /\ (i + 1) - 1 = i
    BY <1>1
  <2>2. a[i + 1].ok
    BY <1>2, <2>1 DEF Decoding, FieldRead
  <2> QED BY <2>1, <2>2
<1>3. \A i \in 0 .. Len(s) : i \in S
  <2> HIDE DEF S
  <2> QED BY <1>1, <1>2, Induction
<1>4. Len(s) \in S /\ ~a[Len(s)].ok
  BY <1>1, <1>3
<1> QED BY <1>4

-----------------------------------------------------------------------------
(* Requests.                                                               *)

\* A field as requests have it.  Opt are the keys that may be missing.
SentField(f, Opt) ==
  /\ f.from = f.key
  /\ f.type \in {"scalar", "float", "signed", "array", "floats"}
  /\ f.absent \in {"throw", "default", "keep", "append", "aux"}
  /\ f.written \in {"always", "nonempty", "positive", "aux"}
  /\ f.absent = "throw" => f.written = "always" /\ f.null # "skip"
  /\ f.absent = "throw" \/ f.absent = "aux" => f.key \notin Opt
  /\ f.absent = "aux" <=> f.written = "aux"
  /\ f.absent = "aux" <=> f.key[1] = "aux_posture"
  /\ f.written = "positive" => f.key = <<"square_size_m">>

\* A class of requests: only its first field may be pushed to the vector of the
\* object, has_aux is read before the fields it decides about, and a field that
\* is skipped when null is never null.
SentClass(s, Opt) ==
  /\ Len(s) \in Nat /\ DOMAIN s = 1 .. Len(s)
  /\ \A i \in 1 .. Len(s) : SentField(s[i], Opt)
  /\ \A i \in 1 .. Len(s) : s[i].absent = "append" => i = 1
  /\ \A i \in 1 .. Len(s) : s[i].absent = "aux" =>
       \E j \in 1 .. i - 1 : s[j].key = has_aux /\ s[j].absent = "throw"
  /\ \A i \in 1 .. Len(s) : s[i].null = "skip" =>
       /\ \A j \in 1 .. Len(s) : s[j].key = s[i].key => j = i
       /\ \/ s[i].type \in {"scalar", "array"}
          \/ s[i].written = "positive" /\ s[i].type = "signed"

\* A JSON object that ToJson wrote, some keys left out.
OnWire(s, o, json) ==
  /\ DOMAIN json \subseteq DOMAIN ToJson(s, o)
  /\ \A k \in DOMAIN json : json[k] = Dump(o[k])

\* What a field should be read as.
Sent(o, json, k) == IF k \in DOMAIN json THEN o[k] ELSE <<>>

\* A field that is read without an exception gets the value that was sent, or
\* its initial one when the key is missing.
LEMMA ReadSent ==
  ASSUME NEW f, NEW json, NEW o, NEW S, NEW v \in Seq(S), f.from = f.key,
         f.absent \in {"throw", "default", "keep", "append", "aux"},
         ~Throws(f, json, o), ~Ignored(f, json, o),
         f.key \in DOMAIN json => json[f.key] = Dump(v),
         (f.key \in DOMAIN json /\ f.absent # "append") \/ o[f.key] = <<>>
  PROVE  Read(f, json, o) = IF f.key \in DOMAIN json THEN v ELSE <<>>
<1>1. CASE f.key \in DOMAIN json
  <2>1. json[f.key] # Null
    BY <1>1 DEF Throws
  <2>2. json[f.key] = v
    BY <1>1, <2>1 DEF Dump
  <2>3. <<>> \o v = v
    OBVIOUS
  <2> QED BY <1>1, <2>2, <2>3 DEF Read
<1>2. CASE f.key \notin DOMAIN json
  <2>1. f.absent \in {"default", "keep", "append"} /\ o[f.key] = <<>>
    BY <1>2 DEF Throws
  <2> QED BY <1>2, <2>1 DEF Read
<1> QED BY <1>1, <1>2

\* ToJson writes the keys of the fields whose condition holds.
LEMMA WrittenKeys ==
  ASSUME NEW s, NEW o, NEW k, DOMAIN s = 1 .. Len(s)
  PROVE  k \in DOMAIN ToJson(s, o) <=> \E i \in 1 .. Len(s) : s[i].key = k /\ Written(s[i], o)
BY DEF ToJson

\* What the first i fields of a request have become.
SentUpTo(s, o, json, i, obj) ==
  /\ \A k \in Keys(s) : obj[k] = <<>> \/ obj[k] = Sent(o, json, k)
  /\ i = 0 => \A k \in Keys(s) : obj[k] = <<>>
  /\ \A j \in 1 .. i : /\ obj[s[j].key] = Sent(o, json, s[j].key)
                       /\ s[j].absent = "throw" => s[j].key \in DOMAIN json

\* A request: the caller's object and what a peer of this or an older version
\* has put on the wire.
SentRequest(s, o, json, Opt) ==
  /\ SentClass(s, Opt) /\ OnWire(s, o, json)
  /\ \A k \in Keys(s) : \E S : o[k] \in Seq(S)
  /\ \A i \in 1 .. Len(s) : s[i].null = "skip" /\ s[i].key \in DOMAIN json => json[s[i].key] # Null

\* The posture is on the wire, or read, only when has_aux is set.
LEMMA AuxDecided ==
  ASSUME NEW s, NEW o, NEW json, NEW Opt, SentRequest(s, o, json, Opt),
         NEW i \in 1 .. Len(s), s[i].absent = "aux",
         NEW obj, SentUpTo(s, o, json, i - 1, obj)
  PROVE  /\ obj[has_aux] = o[has_aux]
         /\ s[i].key \in DOMAIN ToJson(s, o) <=> o[has_aux] # <<>>
<1>1. /\ Len(s) \in Nat /\ DOMAIN s = 1 .. Len(s) /\ \A j \in 1 .. Len(s) : SentField(s[j], Opt)
  BY DEF SentRequest, SentClass
<1>2. PICK j \in 1 .. i - 1 : s[j].key = has_aux /\ s[j].absent = "throw"
  BY DEF SentRequest, SentClass
<1>3. has_aux \in DOMAIN json /\ obj[has_aux] = o[has_aux]
  BY <1>2 DEF SentUpTo, Sent
<1>4. s[i].key \in DOMAIN ToJson(s, o) <=> o[has_aux] # <<>>
  <2>1. Written(s[i], o) <=> o[has_aux] # <<>>
    BY <1>1 DEF SentField, Written
  <2>2. ASSUME NEW l \in 1 .. Len(s), s[l].key = s[i].key PROVE s[l].written = "aux"
    <3>1. SentField(s[l], Opt) /\ SentField(s[i], Opt)
      BY <1>1
    <3> QED BY <2>2, <3>1 DEF SentField
  <2>3. ASSUME NEW l \in 1 .. Len(s), s[l].key = s[i].key, Written(s[l], o)
        PROVE  o[has_aux] # <<>>
    BY <2>2, <2>3 DEF Written
  <2> QED BY <1>1, <2>1, <2>3, WrittenKeys
<1> QED BY <1>3, <1>4

\* Reading one more field of a request keeps what has been read and adds the
\* field as it was sent.
LEMMA SentStep ==
  ASSUME NEW s, NEW o, NEW json, NEW Opt, SentRequest(s, o, json, Opt),
         NEW i \in 1 .. Len(s), NEW p, NEW r, FieldRead(s[i], json, Keys(s), p, r), r.ok,
         SentUpTo(s, o, json, i - 1, p.obj)
  PROVE  SentUpTo(s, o, json, i, r.obj)
<1> DEFINE f == s[i]
           W(k) == Sent(o, json, k)
<1>1. /\ Len(s) \in Nat /\ DOMAIN s = 1 .. Len(s) /\ SentField(f, Opt) /\ f.key \in Keys(s)
      /\ f.absent = "append" => i = 1
  BY DEF SentRequest, SentClass, Keys
<1>2. /\ ~Throws(f, json, p.obj)
      /\ \A k \in Keys(s) : r.obj[k] = IF k = f.key THEN Read(f, json, p.obj) ELSE p.obj[k]
  BY DEF FieldRead
<1>3. /\ f.key \in DOMAIN json => json[f.key] = Dump(o[f.key])
      /\ \E S : o[f.key] \in Seq(S)
      /\ p.obj[f.key] = <<>> \/ p.obj[f.key] = W(f.key)
  BY <1>1 DEF SentRequest, OnWire, SentUpTo
<1>4. Read(f, json, p.obj) = W(f.key)
  <2>1. CASE ~Ignored(f, json, p.obj)
    <3>1. (f.key \in DOMAIN json /\ f.absent # "append") \/ p.obj[f.key] = <<>>
      <4>1. CASE f.absent = "append"
        <5>1. i - 1 = 0
          BY <1>1, <4>1
        <5> QED BY <1>1, <5>1 DEF SentUpTo
      <4>2. CASE f.key \notin DOMAIN json
        BY <1>3, <4>2 DEF Sent
      <4> QED BY <4>1, <4>2
    <3>2. f.from = f.key /\ f.absent \in {"throw", "default", "keep", "append", "aux"}
      BY <1>1 DEF SentField
    <3>3. Read(f, json, p.obj) = IF f.key \in DOMAIN json THEN o[f.key] ELSE <<>>
      <4> HIDE DEF f
      <4> QED BY <1>2, <1>3, <2>1, <3>1, <3>2, ReadSent
    <3> QED BY <3>3 DEF Sent
  <2>2. CASE Ignored(f, json, p.obj)
    <3>1. f.absent = "aux" /\ p.obj[has_aux] = <<>>
      BY <1>1, <2>2 DEF Ignored, SentRequest, SentField
    <3>2. s[i].key \notin DOMAIN json
      <4>1. p.obj[has_aux] = o[has_aux] /\ (s[i].key \in DOMAIN ToJson(s, o) <=> o[has_aux] # <<>>)
        BY <3>1, AuxDecided
      <4> QED BY <3>1, <4>1 DEF SentRequest, OnWire
    <3>3. p.obj[f.key] = <<>> /\ W(f.key) = <<>>
      BY <1>3, <3>2 DEF Sent
    <3> QED BY <2>2, <3>3 DEF Read
  <2> QED BY <2>1, <2>2
<1>5. f.absent = "throw" => f.key \in DOMAIN json
  <2>1. f.absent = "throw" => ~Ignored(f, json, p.obj) /\ f.from = f.key
    BY <1>1 DEF Ignored, SentField
  <2> QED BY <1>2, <2>1 DEF Throws
<1>6. \A k \in Keys(s) : r.obj[k] = <<>> \/ r.obj[k] = W(k)
  BY <1>2, <1>4 DEF SentUpTo
<1>7. ASSUME NEW j \in 1 .. i
      PROVE  r.obj[s[j].key] = W(s[j].key) /\ (s[j].absent = "throw" => s[j].key \in DOMAIN json)
  <2>1. s[j].key \in Keys(s)
    BY <1>1 DEF Keys
  <2>2. CASE j = i
    BY <1>2, <1>4, <1>5, <2>1, <2>2
  <2>3. CASE j # i
    <3>1. j \in 1 .. i - 1
      BY <2>3
    <3> QED BY <1>2, <1>4, <2>1, <3>1 DEF SentUpTo
  <2> QED BY <2>2, <2>3
<1> QED BY <1>6, <1>7 DEF SentUpTo

\* So it is after any number of fields.
LEMMA SentFields ==
  ASSUME NEW s, NEW o, NEW json, NEW Opt, SentRequest(s, o, json, Opt),
         NEW a, Decoding(s, json, Default(s), Keys(s), a)
  PROVE  \A i \in 0 .. Len(s) : a[i].ok => SentUpTo(s, o, json, i, a[i].obj)
<1> DEFINE S == {i \in Nat : a[i].ok => SentUpTo(s, o, json, i, a[i].obj)}
<1>1. Len(s) \in Nat /\ a[0] = [ok |-> TRUE, obj |-> Default(s)]
  BY DEF Decoding
<1>2. 0 \in S
  <2>1. \A k \in Keys(s) : a[0].obj[k] = <<>>
    BY <1>1 DEF Default
  <2> QED BY <2>1 DEF SentUpTo
<1>3. ASSUME NEW i \in 0 .. Len(s) - 1, i \in S PROVE i + 1 \in S
  <2>1. i + 1 \in 1 .. Len(s) /\ (i + 1) - 1 = i /\ i + 1 \in Nat
    BY <1>1
  <2>2. FieldRead(s[i + 1], json, Keys(s), a[i], a[i + 1])
    BY <2>1 DEF Decoding
  <2>3. ASSUME a[i + 1].ok PROVE SentUpTo(s, o, json, i + 1, a[i + 1].obj)
    <3>1. a[i].ok
      BY <2>2, <2>3 DEF FieldRead
    <3>2. SentUpTo(s, o, json, (i + 1) - 1, a[i].obj)
      BY <1>3, <2>1, <3>1
    <3> QED BY <2>1, <2>2, <2>3, <3>2, SentStep
  <2> QED BY <2>1, <2>3
<1>4. \A i \in 0 .. Len(s) : i \in S
  <2> HIDE DEF S
  <2> QED BY <1>1, <1>2, <1>3, Induction
<1> QED BY <1>4

\* The service reads what the client sent, or throws.
LEMMA RequestRead ==
  ASSUME NEW s, NEW o, NEW json, NEW Opt, SentRequest(s, o, json, Opt),
         FromJson(s, json, Default(s)).ok
  PROVE  \A k \in Keys(s) : FromJson(s, json, Default(s)).obj[k] = Sent(o, json, k)
<1>1. Len(s) \in Nat /\ DOMAIN s = 1 .. Len(s)
  BY DEF SentRequest, SentClass
<1>2. Default(s) = [k \in Keys(s) |-> Default(s)[k]]
  BY DEF Default
<1>3. PICK a : /\ Decoding(s, json, Default(s), Keys(s), a)
               /\ FromJson(s, json, Default(s)) = a[Len(s)]
  BY <1>1, <1>2, FromJsonDecodes
<1>4. SentUpTo(s, o, json, Len(s), a[Len(s)].obj)
  BY <1>1, <1>3, SentFields
<1>5. ASSUME NEW k \in Keys(s) PROVE a[Len(s)].obj[k] = Sent(o, json, k)
  <2>1. PICK i \in 1 .. Len(s) : s[i].key = k
    BY <1>1 DEF Keys
  <2> QED BY <1>4, <2>1 DEF SentUpTo
<1> QED BY <1>3, <1>5

\* It throws only when a value is null or a key is missing that must not be.
LEMMA RequestAccepted ==
  ASSUME NEW s, NEW o, NEW json, NEW Opt, SentRequest(s, o, json, Opt),
         DOMAIN ToJson(s, o) \ DOMAIN json \subseteq Opt,
         \A k \in DOMAIN json : json[k] # Null
  PROVE  FromJson(s, json, Default(s)).ok
<1>1. /\ Len(s) \in Nat /\ DOMAIN s = 1 .. Len(s)
      /\ \A i \in 1 .. Len(s) : SentField(s[i], Opt)
  BY DEF SentRequest, SentClass
<1>2. Default(s) = [k \in Keys(s) |-> Default(s)[k]]
  BY DEF Default
<1>3. PICK a : /\ Decoding(s, json, Default(s), Keys(s), a)
               /\ FromJson(s, json, Default(s)) = a[Len(s)]
  BY <1>1, <1>2, FromJsonDecodes
<1> SUFFICES ASSUME ~a[Len(s)].ok PROVE FALSE
  BY <1>3
<1>4. PICK i \in 1 .. Len(s) : a[i - 1].ok /\ Throws(s[i], json, a[i - 1].obj)
  BY <1>3, FirstThrow
<1> DEFINE f == s[i]
           obj == a[i - 1].obj
<1>5. i - 1 \in 0 .. Len(s)
  BY <1>1
<1>6. SentUpTo(s, o, json, i - 1, obj)
  BY <1>3, <1>4, <1>5, SentFields
<1>7. SentField(f, Opt)
  BY <1>1
<1>8. f.key \notin DOMAIN json /\ f.absent \in {"throw", "aux"} /\ ~Ignored(f, json, obj)
  BY <1>4, <1>7 DEF Throws, SentField
<1>9. CASE f.absent = "throw"
  <2>1. Written(f, o) /\ f.key \notin Opt
    BY <1>7, <1>9 DEF SentField, Written
  <2>2. f.key \in DOMAIN ToJson(s, o)
    BY <1>1, <2>1, WrittenKeys
  <2> QED BY <1>8, <2>1, <2>2
<1>10. CASE f.absent = "aux"
  <2>1. obj[has_aux] = o[has_aux] /\ (f.key \in DOMAIN ToJson(s, o) <=> o[has_aux] # <<>>)
    BY <1>6, <1>10, AuxDecided
  <2>2. o[has_aux] # <<>>
    BY <1>8, <1>10, <2>1 DEF Ignored
  <2>3. f.key \notin Opt
    BY <1>7, <1>10 DEF SentField
  <2> QED BY <1>8, <2>1, <2>2, <2>3
<1> QED BY <1>8, <1>9, <1>10

\* What ToJson leaves out is what FromJson assumes.
LEMMA LeftOut ==
  ASSUME NEW s, NEW o, NEW Opt, SentClass(s, Opt), NEW k \in Keys(s),
         k \notin DOMAIN ToJson(s, o)
  PROVE  \/ o[k] = <<>>
         \/ k = <<"square_size_m">> /\ o[k] \in {<<NaN>>, <<Negative>>}
         \/ k[1] = "aux_posture" /\ o[has_aux] = <<>>
<1>1. PICK i \in 1 .. Len(s) : s[i].key = k
  BY DEF Keys, SentClass
<1>2. SentField(s[i], Opt) /\ ~Written(s[i], o)
  BY <1>1, WrittenKeys DEF SentClass
<1> QED BY <1>1, <1>2 DEF SentField, Written

-----------------------------------------------------------------------------
(* Replies.                                                                *)

\* A class of replies.  Opt are the keys that may be missing.
ReplyField(f, Opt) ==
  /\ f.absent \in {"throw", "default", "keep"}
  /\ f.absent = "throw" => f.from = f.key /\ f.key \notin Opt

\* A class of replies whose keys Opt may be missing.
ReplyClass(s, Opt) ==
  /\ Len(s) \in Nat /\ DOMAIN s = 1 .. Len(s)
  /\ \A i \in 1 .. Len(s) : ReplyField(s[i], Opt)

\* The field is given a value of its own, whatever the object had.
Assigns(f, json) ==
  \/ f.absent = "default"
  \/ IF f.from \in DOMAIN json THEN json[f.from] # Null ELSE f.absent # "keep"

\* FromJson accepts a reply with all keys but those that may be missing, and
\* without a null.
LEMMA ReplyAccepted ==
  ASSUME NEW s, NEW json, NEW Opt, ReplyClass(s, Opt), NEW o, o = [k \in Keys(s) |-> o[k]],
         Keys(s) \subseteq DOMAIN json \cup Opt, \A k \in DOMAIN json : json[k] # Null
  PROVE  FromJson(s, json, o).ok
<1>1. Len(s) \in Nat /\ DOMAIN s = 1 .. Len(s) /\ \A i \in 1 .. Len(s) : ReplyField(s[i], Opt)
  BY DEF ReplyClass
<1>2. PICK a : Decoding(s, json, o, Keys(s), a) /\ FromJson(s, json, o) = a[Len(s)]
  BY <1>1, FromJsonDecodes
<1> SUFFICES ASSUME ~a[Len(s)].ok PROVE FALSE
  BY <1>2
<1>3. PICK i \in 1 .. Len(s) : Throws(s[i], json, a[i - 1].obj)
  BY <1>2, FirstThrow
<1>4. s[i].key \in Keys(s) /\ ReplyField(s[i], Opt)
  BY <1>1 DEF Keys
<1> QED BY <1>3, <1>4 DEF Throws, ReplyField

\* The values of V stay in V.
LEMMA ReplyValues ==
  ASSUME NEW s, NEW json, NEW Opt, ReplyClass(s, Opt), NEW o, NEW D, Keys(s) \subseteq D,
         o = [k \in D |-> o[k]], NEW V, <<>> \in V, \A k \in D : o[k] \in V,
         \A k \in DOMAIN json : json[k] = Null \/ json[k] \in V
  PROVE  FromJson(s, json, o).obj \in [D -> V]
<1>1. Len(s) \in Nat /\ DOMAIN s = 1 .. Len(s) /\ \A i \in 1 .. Len(s) : ReplyField(s[i], Opt)
  BY DEF ReplyClass
<1>2. PICK a : Decoding(s, json, o, D, a) /\ FromJson(s, json, o) = a[Len(s)]
  BY <1>1, FromJsonDecodes
<1> DEFINE S == {i \in Nat : \A k \in D : a[i].obj[k] \in V}
<1>3. 0 \in S
  BY <1>2 DEF Decoding
<1>4. ASSUME NEW i \in 0 .. Len(s) - 1, i \in S PROVE i + 1 \in S
  <2>1. i + 1 \in 1 .. Len(s) /\ (i + 1) - 1 = i /\ i + 1 \in Nat
    BY <1>1
  <2> DEFINE f == s[i + 1]
             p == a[i]
             r == a[i + 1]
  <2>2. FieldRead(f, json, D, p, r) /\ ReplyField(f, Opt) /\ f.key \in Keys(s)
    BY <1>1, <1>2, <2>1 DEF Decoding, Keys
  <2>3. \A k \in D : p.obj[k] \in V
    BY <1>4
  <2>4. \A k \in D : r.obj[k] \in V
    <3> HIDE DEF f, p, r
    <3>1. CASE ~r.ok
      BY <2>2, <2>3, <3>1 DEF FieldRead
    <3>2. CASE r.ok
      <4>1. ~Throws(f, json, p.obj)
        BY <2>2, <3>2 DEF FieldRead
      <4>2. Read(f, json, p.obj) \in V
        <5>1. p.obj[f.key] \in V
          BY <2>2, <2>3
        <5>2. CASE Ignored(f, json, p.obj)
          BY <5>1, <5>2 DEF Read
        <5>3. CASE ~Ignored(f, json, p.obj)
          BY <2>2, <4>1, <5>1, <5>3 DEF Read, Throws, ReplyField
        <5> QED BY <5>2, <5>3
      <4> QED BY <2>2, <2>3, <3>2, <4>2 DEF FieldRead
    <3> QED BY <3>1, <3>2
  <2> QED BY <2>1, <2>4
<1>5. \A i \in 0 .. Len(s) : i \in S
  <2> HIDE DEF S
  <2> QED BY <1>1, <1>3, <1>4, Induction
<1>6. \A k \in D : a[Len(s)].obj[k] \in V
  BY <1>1, <1>5
<1>7. a[Len(s)].obj = [k \in D |-> a[Len(s)].obj[k]]
  <2>1. IsState(D, a[Len(s)])
    BY <1>1, <1>2 DEF Decoding
  <2> QED BY <2>1 DEF IsState
<1> QED BY <1>2, <1>6, <1>7

\* Two objects into which one reply is read: p and r after some of its fields.
SameReading(s, json, i, o, p, q, r) ==
  \A k \in Keys(s) :
    IF \E j \in 1 .. i : s[j].key = k /\ Assigns(s[j], json)
      THEN p[k] = r[k]
      ELSE p[k] = o[k] /\ r[k] = q[k]

\* One more field is read into both objects: neither throws if the other does
\* not, and a field that is assigned is the same in both.
LEMMA ReadingsStep ==
  ASSUME NEW s, NEW json, NEW Opt, ReplyClass(s, Opt), NEW i \in 1 .. Len(s), NEW o, NEW q,
         NEW p1, NEW r1, FieldRead(s[i], json, Keys(s), p1, r1), r1.ok,
         NEW p2, p2.ok, NEW r2, FieldRead(s[i], json, Keys(s), p2, r2),
         SameReading(s, json, i - 1, o, p1.obj, q, p2.obj)
  PROVE  r2.ok /\ SameReading(s, json, i, o, r1.obj, q, r2.obj)
<1> DEFINE f == s[i]
<1>1. /\ Len(s) \in Nat /\ DOMAIN s = 1 .. Len(s) /\ ReplyField(f, Opt) /\ f.key \in Keys(s)
  BY DEF ReplyClass, Keys
<1>2. p1.ok /\ ~Throws(f, json, p1.obj)
  BY DEF FieldRead
<1>3. r2.ok
  BY <1>1, <1>2 DEF FieldRead, Throws, Ignored, ReplyField
<1>4. IF Assigns(f, json)
        THEN Read(f, json, p1.obj) = Read(f, json, p2.obj)
        ELSE Read(f, json, p1.obj) = p1.obj[f.key] /\ Read(f, json, p2.obj) = p2.obj[f.key]
  BY <1>1, <1>2 DEF Assigns, Read, Throws, Ignored, ReplyField
<1>5. \A k \in Keys(s) : /\ r1.obj[k] = IF k = f.key THEN Read(f, json, p1.obj) ELSE p1.obj[k]
                         /\ r2.obj[k] = IF k = f.key THEN Read(f, json, p2.obj) ELSE p2.obj[k]
  BY <1>3 DEF FieldRead
<1>6. ASSUME NEW k \in Keys(s)
      PROVE  IF \E j \in 1 .. i : s[j].key = k /\ Assigns(s[j], json)
               THEN r1.obj[k] = r2.obj[k]
               ELSE r1.obj[k] = o[k] /\ r2.obj[k] = q[k]
  <2>1. (\E j \in 1 .. i : s[j].key = k /\ Assigns(s[j], json))
          <=> (\E j \in 1 .. i - 1 : s[j].key = k /\ Assigns(s[j], json))
              \/ (f.key = k /\ Assigns(f, json))
    BY <1>1
  <2>2. CASE k = f.key
    BY <1>4, <1>5, <2>1, <2>2 DEF SameReading
  <2>3. CASE k # f.key
    BY <1>5, <2>1, <2>3 DEF SameReading
  <2> QED BY <2>2, <2>3
<1> QED BY <1>3, <1>6 DEF SameReading

\* Two objects into which one reply is read end with the same values in every
\* field the reply assigns, and with their own in the others.
LEMMA ReadingsAgree ==
  ASSUME NEW s, NEW json, NEW Opt, ReplyClass(s, Opt),
         NEW o, o = [k \in Keys(s) |-> o[k]], NEW q, q = [k \in Keys(s) |-> q[k]],
         FromJson(s, json, o).ok
  PROVE  /\ FromJson(s, json, q).ok
         /\ SameReading(s, json, Len(s), o, FromJson(s, json, o).obj, q, FromJson(s, json, q).obj)
<1>1. Len(s) \in Nat
  BY DEF ReplyClass
<1>2. PICK a : Decoding(s, json, o, Keys(s), a) /\ FromJson(s, json, o) = a[Len(s)]
  BY <1>1, FromJsonDecodes
<1>3. PICK b : Decoding(s, json, q, Keys(s), b) /\ FromJson(s, json, q) = b[Len(s)]
  BY <1>1, FromJsonDecodes
<1>4. \A i \in 0 .. Len(s) : a[i].ok
  BY <1>2, OkBefore
<1> DEFINE S == {i \in Nat : b[i].ok /\ SameReading(s, json, i, o, a[i].obj, q, b[i].obj)}
<1>5. 0 \in S
  <2>1. a[0].obj = o /\ b[0].obj = q /\ b[0].ok
    BY <1>2, <1>3 DEF Decoding
  <2> QED BY <2>1 DEF SameReading
<1>6. ASSUME NEW i \in 0 .. Len(s) - 1, i \in S PROVE i + 1 \in S
  <2>1. i + 1 \in 1 .. Len(s) /\ (i + 1) - 1 = i /\ i + 1 \in Nat /\ i + 1 \in 0 .. Len(s)
    BY <1>1
  <2>2. /\ FieldRead(s[i + 1], json, Keys(s), a[i], a[i + 1]) /\ a[i + 1].ok
        /\ FieldRead(s[i + 1], json, Keys(s), b[i], b[i + 1]) /\ b[i].ok
        /\ SameReading(s, json, (i + 1) - 1, o, a[i].obj, q, b[i].obj)
    BY <1>2, <1>3, <1>4, <1>6, <2>1 DEF Decoding
  <2>3. b[i + 1].ok /\ SameReading(s, json, i + 1, o, a[i + 1].obj, q, b[i + 1].obj)
    BY <2>1, <2>2, ReadingsStep
  <2> QED BY <2>1, <2>3
<1>7. \A i \in 0 .. Len(s) : i \in S
  <2> HIDE DEF S
  <2> QED BY <1>1, <1>5, <1>6, Induction
<1>8. Len(s) \in 0 .. Len(s)
  BY <1>1
<1> QED BY <1>2, <1>3, <1>7, <1>8

-----------------------------------------------------------------------------
(* Classes made of other classes.                                          *)

\* s is a sequence.
IsSeq(s) == Len(s) \in Nat /\ s = [i \in 1 .. Len(s) |-> s[i]]

\* A sequence is one over any set of its elements.
LEMMA SeqOver ==
  ASSUME NEW s, IsSeq(s), NEW S, \A i \in 1 .. Len(s) : s[i] \in S
  PROVE  s \in Seq(S)
<1> DEFINE n == Len(s)
<1>1. n \in Nat /\ s \in [1 .. n -> S]
  BY DEF IsSeq
<1> HIDE DEF n
<1>2. s \in Seq(S)
  BY <1>1
<1> QED BY <1>2

\* A function on 1 .. n is a sequence of length n.
LEMMA SeqOfFunction ==
  ASSUME NEW n \in Nat, NEW t, t = [i \in 1 .. n |-> t[i]]
  PROVE  IsSeq(t) /\ Len(t) = n
<1> DEFINE S == {t[i] : i \in 1 .. n}
<1>1. t \in [1 .. n -> S]
  OBVIOUS
<1> HIDE DEF S
<1>2. t \in Seq(S) /\ DOMAIN t = 1 .. n
  BY <1>1
<1> QED BY <1>2 DEF IsSeq

\* The elements of s \o t, whatever they are.
LEMMA Concat ==
  ASSUME NEW s, NEW t, IsSeq(s), IsSeq(t)
  PROVE  /\ IsSeq(s \o t)
         /\ Len(s \o t) = Len(s) + Len(t)
         /\ \A i \in 1 .. Len(s \o t) :
              \/ i \in 1 .. Len(s) /\ (s \o t)[i] = s[i]
              \/ i - Len(s) \in 1 .. Len(t) /\ (s \o t)[i] = t[i - Len(s)]
<1> DEFINE S == {s[i] : i \in 1 .. Len(s)} \cup {t[i] : i \in 1 .. Len(t)}
<1>1. s \in Seq(S)
  <2>1. \A i \in 1 .. Len(s) : s[i] \in S
    OBVIOUS
  <2> HIDE DEF S
  <2> QED BY <2>1, SeqOver
<1>2. t \in Seq(S)
  <2>1. \A i \in 1 .. Len(t) : t[i] \in S
    OBVIOUS
  <2> HIDE DEF S
  <2> QED BY <2>1, SeqOver
<1> HIDE DEF S
<1>3. s \o t \in Seq(S) /\ Len(s \o t) = Len(s) + Len(t)
  BY <1>1, <1>2
<1> DEFINE u == s \o t
<1>4. ASSUME NEW i \in 1 .. Len(u)
      PROVE \/ i \in 1 .. Len(s) /\ u[i] = s[i]
            \/ i - Len(s) \in 1 .. Len(t) /\ u[i] = t[i - Len(s)]
  <2>1. CASE i <= Len(s)
    BY <1>1, <1>2, <1>3, <2>1
  <2>2. CASE i > Len(s)
    BY <1>1, <1>2, <1>3, <2>2
  <2> QED BY <1>1, <2>1, <2>2
<1>5. IsSeq(u)
  <2> HIDE DEF u
  <2>1. u \in Seq(S)
    BY <1>3 DEF u
  <2> QED BY <2>1 DEF IsSeq
<1> QED BY <1>3, <1>4, <1>5

\* A class without fields that are pushed, depend on another or are skipped.
PlainField(f, Opt) ==
  /\ "key" \in DOMAIN f /\ "from" \in DOMAIN f
  /\ SentField(f, Opt) /\ IsSeq(f.key)
  /\ f.absent \notin {"append", "aux"} /\ f.null # "skip" /\ f.written # "positive"

\* A class of plain fields.
PlainClass(s, Opt) == IsSeq(s) /\ \A i \in 1 .. Len(s) : PlainField(s[i], Opt)

\* Such a class is one of requests.
LEMMA PlainIsSent ==
  ASSUME NEW s, NEW Opt, PlainClass(s, Opt)
  PROVE  SentClass(s, Opt)
BY DEF PlainClass, PlainField, SentClass, IsSeq

\* Two plain classes in one, as a member after the nested members before it.
LEMMA ConcatPlain ==
  ASSUME NEW s, NEW t, NEW Opt, PlainClass(s, Opt), PlainClass(t, Opt)
  PROVE  PlainClass(s \o t, Opt)
<1> DEFINE u == s \o t
<1>1. IsSeq(s) /\ IsSeq(t)
  BY DEF PlainClass
<1>2. /\ IsSeq(u)
      /\ \A i \in 1 .. Len(u) : \/ i \in 1 .. Len(s) /\ u[i] = s[i]
                                \/ i - Len(s) \in 1 .. Len(t) /\ u[i] = t[i - Len(s)]
  BY <1>1, Concat
<1> HIDE DEF u
<1>3. ASSUME NEW i \in 1 .. Len(u) PROVE PlainField(u[i], Opt)
  BY <1>2 DEF PlainClass
<1>4. PlainClass(u, Opt)
  BY <1>2, <1>3 DEF PlainClass
<1> QED BY <1>4 DEF u

\* The fields of a nested object.
LEMMA NestedFields ==
  ASSUME NEW s, IsSeq(s), NEW k
  PROVE  /\ IsSeq(Nested(k, s)) /\ Len(Nested(k, s)) = Len(s)
         /\ \A i \in 1 .. Len(s) :
              Nested(k, s)[i] = [s[i] EXCEPT !.key = <<k>> \o @, !.from = <<k>> \o @]
<1> DEFINE n == Len(s)
           t == Nested(k, s)
<1>1. n \in Nat /\ DOMAIN s = 1 .. n
  BY DEF IsSeq
<1>2. t = [i \in 1 .. n |-> [s[i] EXCEPT !.key = <<k>> \o @, !.from = <<k>> \o @]]
  BY <1>1 DEF Nested
<1>3. t = [i \in 1 .. n |-> t[i]]
  <2> HIDE DEF t
  <2> QED BY <1>2
<1>4. IsSeq(t) /\ Len(t) = n
  <2> HIDE DEF t, n
  <2> QED BY <1>1, <1>3, SeqOfFunction
<1> QED BY <1>2, <1>4

\* The first element of a nested key is the key of the object.
LEMMA Prefixed ==
  ASSUME NEW k, NEW key, IsSeq(key)
  PROVE  IsSeq(<<k>> \o key) /\ (<<k>> \o key)[1] = k
<1>1. IsSeq(<<k>>) /\ Len(<<k>>) = 1 /\ <<k>>[1] = k
  BY DEF IsSeq
<1>2. IsSeq(<<k>> \o key) /\ Len(<<k>> \o key) = 1 + Len(key) /\ Len(key) \in Nat
  BY <1>1, Concat DEF IsSeq
<1>3. 1 \in 1 .. Len(<<k>> \o key) /\ 1 - 1 \notin 1 .. Len(key)
  BY <1>2
<1> QED BY <1>1, <1>2, <1>3, Concat

\* No required field of the nested object is one of Opt.
NoneOf(k, s, Opt) ==
  \A i \in 1 .. Len(s) : s[i].absent = "throw" => <<k>> \o s[i].key \notin Opt

\* The fields of a nested object of a plain class are plain.
LEMMA NestedPlain ==
  ASSUME NEW s, PlainClass(s, {}), NEW k, k # "aux_posture", NEW Opt, NoneOf(k, s, Opt)
  PROVE  PlainClass(Nested(k, s), Opt)
<1> DEFINE t == Nested(k, s)
<1>1. /\ IsSeq(s) /\ IsSeq(t) /\ Len(t) = Len(s)
      /\ \A i \in 1 .. Len(s) : t[i] = [s[i] EXCEPT !.key = <<k>> \o @, !.from = <<k>> \o @]
  BY NestedFields DEF PlainClass
<1> HIDE DEF t
<1>2. ASSUME NEW i \in 1 .. Len(t) PROVE PlainField(t[i], Opt)
  <2> DEFINE f == s[i]
             g == t[i]
  <2>1. PlainField(f, {}) /\ (f.absent = "throw" => <<k>> \o f.key \notin Opt)
    BY <1>1 DEF PlainClass, NoneOf
  <2>2. g = [f EXCEPT !.key = <<k>> \o @, !.from = <<k>> \o @]
    BY <1>1
  <2>3. PlainField(g, Opt)
    <3> HIDE DEF f, g
    <3>1. /\ "key" \in DOMAIN f /\ "from" \in DOMAIN f
          /\ IsSeq(f.key) /\ f.from = f.key
      BY <2>1 DEF PlainField, SentField
    <3>2. /\ g.key = <<k>> \o f.key /\ g.from = <<k>> \o f.from /\ g.absent = f.absent
          /\ g.null = f.null /\ g.written = f.written /\ g.type = f.type
          /\ DOMAIN g = DOMAIN f
      BY <2>2, <3>1
    <3>3. IsSeq(<<k>> \o f.key) /\ (<<k>> \o f.key)[1] = k
      BY <3>1, Prefixed
    <3> QED BY <2>1, <3>1, <3>2, <3>3 DEF PlainField, SentField
  <2> QED BY <2>3
<1>3. PlainClass(t, Opt)
  BY <1>1, <1>2 DEF PlainClass
<1> QED BY <1>3 DEF t

\* A class of one required field.
LEMMA OneRequired ==
  ASSUME NEW k, k # "aux_posture"
  PROVE  SentClass(<<Required(k)>>, {})
BY DEF SentClass, SentField, Required, Field

\* The same when no key may be missing.
LEMMA NestedAll ==
  ASSUME NEW s, PlainClass(s, {}), NEW k, k # "aux_posture"
  PROVE  PlainClass(Nested(k, s), {})
<1>1. NoneOf(k, s, {})
  BY DEF NoneOf
<1> QED BY <1>1, NestedPlain

\* The second element of a nested key is that of the member.
LEMMA Pair ==
  ASSUME NEW a, NEW b
  PROVE  (<<a>> \o <<b>>)[2] = b
<1>1. IsSeq(<<a>>) /\ IsSeq(<<b>>)
  BY DEF IsSeq
<1> QED BY <1>1, Concat

\* The classes of b1_loco_api.hpp without nested objects that need all their keys.
LEMMA LocoClasses ==
  /\ SentClass(RotateHeadParameter, {}) /\ SentClass(RotateHeadWithTimeParameter, {})
  /\ SentClass(MoveParameter, {}) /\ SentClass(RotateHeadWithDirectionParameter, {})
  /\ SentClass(WaveHandParameter, {}) /\ SentClass(GetFrameTransformParameter, {})
  /\ SentClass(VisualKickParameter, {}) /\ SentClass(ControlDexterousHandParameter, {})
  /\ SentClass(<<Number("x"), Number("y"), Number("theta")>>, {})
<1> USE DEF SentClass, SentField, Required, Number, Appended, Field
<1>1. SentClass(RotateHeadParameter, {})
  BY DEF RotateHeadParameter
<1>2. SentClass(RotateHeadWithTimeParameter, {})
  BY DEF RotateHeadWithTimeParameter
<1>3. SentClass(MoveParameter, {})
  BY DEF MoveParameter
<1>4. SentClass(RotateHeadWithDirectionParameter, {})
  BY DEF RotateHeadWithDirectionParameter
<1>5. SentClass(WaveHandParameter, {})
  BY DEF WaveHandParameter
<1>6. SentClass(GetFrameTransformParameter, {})
  BY DEF GetFrameTransformParameter
<1>7. SentClass(VisualKickParameter, {})
  BY DEF VisualKickParameter
<1>8. SentClass(ControlDexterousHandParameter, {})
  BY DEF ControlDexterousHandParameter
<1>9. SentClass(<<Number("x"), Number("y"), Number("theta")>>, {})
  OBVIOUS
<1> HIDE DEF SentClass
<1> QED BY <1>1, <1>2, <1>3, <1>4, <1>5, <1>6, <1>7, <1>8, <1>9

\* The classes of all APIs with keys that may be missing, and the other plain
\* ones of the services.
LEMMA OlderClasses ==
  /\ SentClass(GetUpParameter, {<<"version">>})
  /\ SentClass(GetUpWithModeParameter, {<<"version">>})
  /\ SentClass(RequestHeader, Keys(RequestHeader) \ {<<"api_id">>})
  /\ SentClass(LuiSynthesizeSpeechRequest, {<<"voice_type">>, <<"speed">>, <<"playback">>})
  /\ SentClass(LuiRecognizeAudioRequest, Keys(LuiRecognizeAudioRequest) \ {<<"input_type">>})
  /\ SentClass(GetDetectionObjectParameter, {<<"focus_ratio">>})
  /\ SentClass(StartVisionServiceParameter, Keys(StartVisionServiceParameter))
  /\ SentClass(SetLEDLightColorParameter, {})
  /\ SentClass(SetLEDLightColorsParameter, {})
  /\ SentClass(LuiSession, {})
<1> USE DEF SentClass, SentField, Required, Number, Defaulted, Kept, KeptNumber, NonEmpty, Field, Replaced
<1>1. SentClass(GetUpParameter, {<<"version">>})
  BY DEF GetUpParameter
<1>2. SentClass(GetUpWithModeParameter, {<<"version">>})
  BY DEF GetUpWithModeParameter
<1>3. SentClass(RequestHeader, Keys(RequestHeader) \ {<<"api_id">>})
  BY DEF RequestHeader
<1>4. SentClass(LuiSynthesizeSpeechRequest, {<<"voice_type">>, <<"speed">>, <<"playback">>})
  BY DEF LuiSynthesizeSpeechRequest
<1>5. SentClass(LuiRecognizeAudioRequest, Keys(LuiRecognizeAudioRequest) \ {<<"input_type">>})
  BY DEF LuiRecognizeAudioRequest
<1>6. SentClass(GetDetectionObjectParameter, {<<"focus_ratio">>})
  BY DEF GetDetectionObjectParameter
<1>7. SentClass(StartVisionServiceParameter, Keys(StartVisionServiceParameter))
  BY DEF StartVisionServiceParameter
<1>8. SentClass(SetLEDLightColorParameter, {})
  BY DEF SetLEDLightColorParameter
<1>9. SentClass(SetLEDLightColorsParameter, {})
  BY DEF SetLEDLightColorsParameter
<1>10. SentClass(LuiSession, {})
  BY DEF LuiSession
<1> HIDE DEF SentClass
<1> QED BY <1>1, <1>2, <1>3, <1>4, <1>5, <1>6, <1>7, <1>8, <1>9, <1>10

\* ControlGripperParameter, with its nested motion parameters.
LEMMA GripperClass == SentClass(ControlGripperParameter, {})
BY DEF SentClass, SentField, ControlGripperParameter, Nested, GripperMotionParameter, Required, Field

\* CustomTrainedTraj: of its model the params may be missing.
LEMMA TrajClass == SentClass(CustomTrainedTraj, {<<"model", "params">>})
<1> DEFINE Opt == {<<"model", "params">>}
<1>0. PlainClass(CustomModel, {})
  BY DEF PlainClass, IsSeq, PlainField, SentField, CustomModel, Required, ReplacedNumbers, Field
<1>1. NoneOf("model", CustomModel, Opt)
  <2>1. \A i \in 1 .. 3 : CustomModel[i].absent = "throw" =>
          CustomModel[i].key \in {<<"file_path">>, <<"joint_order">>}
    BY DEF CustomModel, Required, ReplacedNumbers, Field
  <2>2. \A k \in {"file_path", "joint_order"} : <<"model">> \o <<k>> # <<"model", "params">>
    <3>1. /\ (<<"model">> \o <<"file_path">>)[2] = "file_path"
          /\ (<<"model">> \o <<"joint_order">>)[2] = "joint_order"
      BY Pair
    <3>2. <<"model", "params">>[2] = "params"
      OBVIOUS
    <3> QED BY <3>1, <3>2
  <2>3. Len(CustomModel) = 3
    BY DEF CustomModel
  <2> QED BY <2>1, <2>2, <2>3 DEF NoneOf
<1>2. PlainClass(<<Required("traj_file_path")>>, Opt)
  BY DEF PlainClass, IsSeq, PlainField, SentField, Required, Field
<1>3. PlainClass(Nested("model", CustomModel), Opt)
  <2> HIDE DEF Opt
  <2> QED BY <1>0, <1>1, NestedPlain
<1> HIDE DEF Opt
<1>4. PlainClass(CustomTrainedTraj, Opt)
  BY <1>2, <1>3, ConcatPlain DEF CustomTrainedTraj
<1> QED BY <1>4, PlainIsSent DEF Opt

\* Posture and Transform, made of a position and an orientation.
LEMMA PosturePlain == PlainClass(Posture, {}) /\ PlainClass(Transform, {})
<1>1. PlainClass(Position, {}) /\ PlainClass(Orientation, {}) /\ PlainClass(Quaternion, {})
  <2> USE DEF PlainClass, IsSeq, PlainField, SentField, Number, Field
  <2>1. PlainClass(Position, {})
    BY DEF Position
  <2>2. PlainClass(Orientation, {})
    BY DEF Orientation
  <2>3. PlainClass(Quaternion, {})
    BY DEF Quaternion
  <2> QED BY <2>1, <2>2, <2>3
<1>2. PlainClass(Nested("position", Position), {}) /\ PlainClass(Nested("orientation", Orientation), {})
      /\ PlainClass(Nested("orientation", Quaternion), {})
  BY <1>1, NestedAll
<1> QED BY <1>2, ConcatPlain DEF Posture, Transform

\* A nested object none of whose keys may be missing because those that may are
\* outside of it.
LEMMA NestedElsewhere ==
  ASSUME NEW s, PlainClass(s, {}), NEW k, k # "aux_posture", NEW Opt, \A p \in Opt : p[1] # k
  PROVE  PlainClass(Nested(k, s), Opt)
<1>1. ASSUME NEW i \in 1 .. Len(s) PROVE <<k>> \o s[i].key \notin Opt
  <2>1. (<<k>> \o s[i].key)[1] = k
    BY Prefixed DEF PlainClass, PlainField
  <2> QED BY <2>1
<1>2. NoneOf(k, s, Opt)
  BY <1>1 DEF NoneOf
<1> QED BY <1>2, NestedPlain

\* StartAiChatParameter: the persona may be missing, its three configurations not.
LEMMA ChatClass == SentClass(StartAiChatParameter, {<<"persona_id">>})
<1> DEFINE Opt == {<<"persona_id">>}
           base == <<NonEmpty(Defaulted("persona_id")), Required("interrupt_mode"),
                     Required("enable_face_tracking")>>
<1>1. PlainClass(base, Opt)
  BY DEF PlainClass, IsSeq, PlainField, SentField, NonEmpty, Defaulted, Required, Field
<1>2. PlainClass(TtsConfig, {}) /\ PlainClass(LlmConfig, {}) /\ PlainClass(AsrConfig, {})
  <2> USE DEF PlainClass, IsSeq, PlainField, SentField, Required, RequiredArray, Field
  <2>1. PlainClass(TtsConfig, {})
    BY DEF TtsConfig
  <2>2. PlainClass(LlmConfig, {})
    BY DEF LlmConfig
  <2>3. PlainClass(AsrConfig, {})
    BY DEF AsrConfig
  <2> QED BY <2>1, <2>2, <2>3
<1>3. \A p \in Opt : p[1] # "tts_config" /\ p[1] # "llm_config" /\ p[1] # "asr_config"
  OBVIOUS
<1>4. StartAiChatParameter
        = ((base \o Nested("tts_config", TtsConfig)) \o Nested("llm_config", LlmConfig))
            \o Nested("asr_config", AsrConfig)
  BY DEF StartAiChatParameter
<1> HIDE DEF Opt, base
<1>5. /\ PlainClass(Nested("tts_config", TtsConfig), Opt)
      /\ PlainClass(Nested("llm_config", LlmConfig), Opt)
      /\ PlainClass(Nested("asr_config", AsrConfig), Opt)
  BY <1>2, <1>3, NestedElsewhere
<1>6. PlainClass(StartAiChatParameter, Opt)
  BY <1>1, <1>4, <1>5, ConcatPlain
<1> QED BY <1>6, PlainIsSent DEF Opt

\* MoveDualHandEndEffectorParameter, two postures and a time.
LEMMA DualHandClass == SentClass(MoveDualHandEndEffectorParameter, {})
<1>1. PlainClass(<<Required("time_millis")>>, {})
  BY DEF PlainClass, IsSeq, PlainField, SentField, Required, Field
<1>2. /\ PlainClass(Nested("left_target_posture", Posture), {})
      /\ PlainClass(Nested("right_target_posture", Posture), {})
  BY PosturePlain, NestedAll
<1>3. PlainClass(MoveDualHandEndEffectorParameter, {})
  BY <1>1, <1>2, ConcatPlain DEF MoveDualHandEndEffectorParameter
<1> QED BY <1>3, PlainIsSent

\* A field that is only read and written when has_aux is set.
AuxField(f) == SentField(f, {}) /\ f.absent = "aux" /\ f.null # "skip"

\* The fields of aux_posture, which WithAux makes depend on has_aux.
LEMMA AuxNested ==
  ASSUME NEW s, PlainClass(s, {})
  PROVE  LET t == WithAux(Nested("aux_posture", s))
         IN  IsSeq(t) /\ \A i \in 1 .. Len(t) : AuxField(t[i])
<1> DEFINE u == Nested("aux_posture", s)
           t == WithAux(u)
           n == Len(s)
<1>1. /\ IsSeq(s) /\ IsSeq(u) /\ Len(u) = n /\ n \in Nat
      /\ \A i \in 1 .. n : u[i] = [s[i] EXCEPT !.key = <<"aux_posture">> \o @,
                                               !.from = <<"aux_posture">> \o @]
  BY NestedFields DEF PlainClass, IsSeq
<1> HIDE DEF u
<1>2. t = [i \in 1 .. n |-> [u[i] EXCEPT !.absent = "aux", !.written = "aux"]]
  BY <1>1 DEF WithAux, IsSeq
<1>3. IsSeq(t) /\ Len(t) = n
  <2>1. t = [i \in 1 .. n |-> t[i]]
    <3> HIDE DEF t
    <3> QED BY <1>2
  <2> HIDE DEF t, n
  <2> QED BY <1>1, <2>1, SeqOfFunction
<1>4. ASSUME NEW i \in 1 .. n PROVE AuxField(t[i])
  <2> DEFINE f == s[i]
             g == t[i]
  <2>1. PlainField(f, {})
    BY DEF PlainClass
  <2>2. g = [[f EXCEPT !.key = <<"aux_posture">> \o @, !.from = <<"aux_posture">> \o @]
               EXCEPT !.absent = "aux", !.written = "aux"]
    BY <1>1, <1>2
  <2> HIDE DEF f, g
  <2>3. (<<"aux_posture">> \o f.key)[1] = "aux_posture"
    BY <2>1, Prefixed DEF PlainField
  <2>4. AuxField(g)
    BY <2>1, <2>2, <2>3 DEF PlainField, SentField, AuxField
  <2> QED BY <2>4 DEF g
<1> HIDE DEF t
<1>5. IsSeq(t) /\ \A i \in 1 .. Len(t) : AuxField(t[i])
  BY <1>3, <1>4
<1> QED BY <1>5 DEF t, u

\* MoveHandEndEffectorParameter: FromJson reads has_aux before the fields of
\* aux_posture that depend on it.
LEMMA HandClass == SentClass(MoveHandEndEffectorParameter, {})
<1> DEFINE u == Nested("target_posture", Posture) \o <<Required("has_aux")>>
           t == WithAux(Nested("aux_posture", Posture))
           r == <<Required("time_millis"), Required("hand_index"), Required("new_version")>>
           s == (u \o t) \o r
<1>1. /\ PlainClass(<<Required("has_aux")>>, {}) /\ PlainClass(r, {})
      /\ Required("has_aux").key = has_aux /\ Required("has_aux").absent = "throw"
  BY DEF PlainClass, IsSeq, PlainField, SentField, Required, Field, has_aux
<1>2. PlainClass(Nested("target_posture", Posture), {})
  BY PosturePlain, NestedAll
<1>3. PlainClass(u, {}) /\ \E j \in 1 .. Len(u) : u[j] = Required("has_aux")
  <2>1. PlainClass(u, {})
    BY <1>1, <1>2, ConcatPlain
  <2> DEFINE v == Nested("target_posture", Posture)
             w == <<Required("has_aux")>>
  <2>2. IsSeq(v) /\ IsSeq(w) /\ Len(w) = 1 /\ w[1] = Required("has_aux")
    BY <1>1, <1>2 DEF PlainClass
  <2> HIDE DEF v, w
  <2>3. Len(v \o w) \in 1 .. Len(v \o w) /\ (v \o w)[Len(v \o w)] = w[1]
    <3>1. Len(v \o w) = Len(v) + 1 /\ Len(v) \in Nat
      <4>1. Len(v \o w) = Len(v) + Len(w)
        BY <2>2, Concat
      <4> QED BY <2>2, <4>1 DEF IsSeq
    <3>2. Len(v \o w) \notin 1 .. Len(v) /\ Len(v \o w) - Len(v) = 1
      BY <3>1
    <3> QED BY <2>2, <3>1, <3>2, Concat
  <2> QED BY <2>1, <2>2, <2>3 DEF v, w
<1>4. IsSeq(t) /\ \A i \in 1 .. Len(t) : AuxField(t[i])
  BY PosturePlain, AuxNested
<1>5. MoveHandEndEffectorParameter = s
  BY DEF MoveHandEndEffectorParameter
<1> HIDE DEF u, t, r
<1>6. IsSeq(u) /\ IsSeq(r)
  BY <1>1, <1>3 DEF PlainClass
<1>7. /\ IsSeq(u \o t) /\ Len(u \o t) = Len(u) + Len(t)
      /\ \A i \in 1 .. Len(u \o t) : \/ i \in 1 .. Len(u) /\ (u \o t)[i] = u[i]
                                     \/ i - Len(u) \in 1 .. Len(t) /\ (u \o t)[i] = t[i - Len(u)]
  BY <1>4, <1>6, Concat
<1>8. /\ IsSeq(s)
      /\ \A i \in 1 .. Len(s) : \/ i \in 1 .. Len(u \o t) /\ s[i] = (u \o t)[i]
                                \/ i - Len(u \o t) \in 1 .. Len(r) /\ s[i] = r[i - Len(u \o t)]
      /\ Len(s) = Len(u \o t) + Len(r) /\ Len(u) \in Nat /\ Len(t) \in Nat /\ Len(r) \in Nat
  <2>1. Len(u) \in Nat /\ Len(t) \in Nat /\ Len(r) \in Nat
    BY <1>4, <1>6 DEF IsSeq
  <2> DEFINE x == u \o t
  <2>2. IsSeq(x) /\ IsSeq(r)
    BY <1>6, <1>7
  <2> HIDE DEF x
  <2>3. /\ IsSeq(x \o r) /\ Len(x \o r) = Len(x) + Len(r)
        /\ \A i \in 1 .. Len(x \o r) : \/ i \in 1 .. Len(x) /\ (x \o r)[i] = x[i]
                                       \/ i - Len(x) \in 1 .. Len(r) /\ (x \o r)[i] = r[i - Len(x)]
    BY <2>2, Concat
  <2> QED BY <2>1, <2>3 DEF x
<1>9. ASSUME NEW i \in 1 .. Len(s)
      PROVE  PlainField(s[i], {}) \/ (i > Len(u) /\ AuxField(s[i]))
  <2>1. CASE i \in 1 .. Len(u \o t) /\ s[i] = (u \o t)[i]
    <3>1. CASE i \in 1 .. Len(u) /\ (u \o t)[i] = u[i]
      BY <1>3, <2>1, <3>1 DEF PlainClass
    <3>2. CASE i - Len(u) \in 1 .. Len(t) /\ (u \o t)[i] = t[i - Len(u)]
      BY <1>4, <1>8, <2>1, <3>2
    <3> QED BY <1>7, <2>1, <3>1, <3>2
  <2>2. CASE i - Len(u \o t) \in 1 .. Len(r) /\ s[i] = r[i - Len(u \o t)]
    BY <1>1, <2>2 DEF PlainClass
  <2> QED BY <1>8, <2>1, <2>2
<1>10. PICK j \in 1 .. Len(u) : u[j] = Required("has_aux")
  BY <1>3
<1>11. s[j] = Required("has_aux")
  <2>1. j \in 1 .. Len(u \o t) /\ j - Len(u) \notin 1 .. Len(t)
    BY <1>7, <1>8
  <2>2. j \in 1 .. Len(s) /\ j - Len(u \o t) \notin 1 .. Len(r)
    BY <1>7, <1>8
  <2> QED BY <1>7, <1>8, <1>10, <2>1, <2>2
<1> HIDE DEF s
<1>12. ASSUME NEW i \in 1 .. Len(s)
       PROVE  /\ SentField(s[i], {}) /\ s[i].null # "skip" /\ s[i].absent # "append"
              /\ s[i].absent = "aux" =>
                   \E l \in 1 .. i - 1 : s[l].key = has_aux /\ s[l].absent = "throw"
  <2>1. CASE PlainField(s[i], {})
    BY <2>1 DEF PlainField
  <2>2. CASE i > Len(u) /\ AuxField(s[i])
    <3>1. j \in 1 .. i - 1
      BY <1>8, <2>2
    <3> QED BY <1>1, <1>11, <2>2, <3>1 DEF AuxField
  <2> QED BY <1>9, <2>1, <2>2
<1>13. SentClass(s, {})
  <2>1. Len(s) \in Nat /\ DOMAIN s = 1 .. Len(s)
    BY <1>8 DEF IsSeq
  <2> QED BY <1>12, <2>1 DEF SentClass
<1> QED BY <1>5, <1>13

\* StartHandEyeCalibParameter, both of whose fields may be missing or null.
LEMMA CalibrationClass ==
  SentClass(StartHandEyeCalibParameter, Keys(StartHandEyeCalibParameter))
<1> DEFINE s == StartHandEyeCalibParameter
           f == s[1]
           g == s[2]
<1>1. Len(s) = 2 /\ DOMAIN s = 1 .. 2
  BY DEF StartHandEyeCalibParameter
<1>2. /\ f.key = <<"publish_feedback">> /\ f.from = f.key /\ f.absent = "keep"
      /\ f.written = "always" /\ f.null = "skip" /\ f.type = "scalar"
  BY DEF StartHandEyeCalibParameter, NotNull, Kept, Field
<1>3. /\ g.key = <<"square_size_m">> /\ g.from = g.key /\ g.absent = "keep"
      /\ g.written = "positive" /\ g.null = "skip" /\ g.type = "signed"
  BY DEF StartHandEyeCalibParameter, NotNull, KeptNumber, Positive, Field
<1> HIDE DEF s
<1>4. \A i \in 1 .. 2 : i = 1 \/ i = 2
  OBVIOUS
<1>5. SentField(f, Keys(s)) /\ SentField(g, Keys(s))
  BY <1>2, <1>3 DEF SentField
<1>6. f.key # g.key
  BY <1>2, <1>3
<1> HIDE DEF f, g
<1>7. SentClass(s, Keys(s))
  BY <1>1, <1>2, <1>3, <1>4, <1>5, <1>6 DEF SentClass, f, g
<1> QED BY <1>7 DEF s

\* A request without a body.
LEMMA NothingSent ==
  ASSUME NEW Opt
  PROVE  SentClass(NoBody, Opt)
BY DEF SentClass, SentField, NoBody

-----------------------------------------------------------------------------
(* The classes of replies.                                                 *)

\* The types of a field's value.
ValueTypes == {"scalar", "float", "signed", "array", "floats"}

\* A class all of whose fields are set by every reply, and one all of whose
\* fields keep their value when the reply has none.
Fresh(s) ==
  /\ Len(s) \in Nat /\ DOMAIN s = 1 .. Len(s)
  /\ \A i \in 1 .. Len(s) : /\ s[i].absent \in {"throw", "default"}
                            /\ s[i].absent = "throw" => s[i].from = s[i].key /\ s[i].null # "skip"
                            /\ s[i].type \in ValueTypes \/ s = DetectionList

Polled(s) ==
  /\ IsSeq(s) /\ Len(s) > 0
  /\ \A i \in 1 .. Len(s) : s[i].absent = "keep" /\ s[i].type \in ValueTypes

\* Two such classes in one.
LEMMA ConcatPolled ==
  ASSUME NEW s, NEW t, Polled(s), Polled(t)
  PROVE  Polled(s \o t)
<1> DEFINE u == s \o t
<1>1. IsSeq(s) /\ IsSeq(t)
  BY DEF Polled
<1>2. /\ IsSeq(u) /\ Len(u) = Len(s) + Len(t)
      /\ \A i \in 1 .. Len(u) : \/ i \in 1 .. Len(s) /\ u[i] = s[i]
                                \/ i - Len(s) \in 1 .. Len(t) /\ u[i] = t[i - Len(s)]
  BY <1>1, Concat
<1> HIDE DEF u
<1>3. Polled(u)
  BY <1>2 DEF Polled, IsSeq
<1> QED BY <1>3 DEF u

\* The three classes of the calibration queries.
Calibrations == {HandEyeCalibStatus, HandEyeCalibResult, HandEyeCalibApplyResult}

\* Their objects keep the value of every key that is missing.
LEMMA CalibrationsPolled ==
  \A s \in Calibrations : Polled(s)
<1> DEFINE error_px == NotNull(KeptNumber("reprojection_error_px"))
           a == <<Kept("status"), NotNull(Kept("job_id")), NotNull(Kept("stage")),
                  NotNull(Kept("started_at")), NotNull(Kept("finished_at"))>>
           b == <<Kept("status"), NotNull(Kept("job_id")), NotNull(Kept("summary")),
                  NonEmpty(NotNull(Kept("result"))), ReadFrom(error_px, rms_px), error_px>>
           c == <<Kept("status"), NotNull(Kept("applied_path"))>>
<1> DEFINE Good(f) == f.absent = "keep" /\ f.type \in ValueTypes
<1>0. \A k : /\ Good(Kept(k)) /\ Good(NotNull(Kept(k)))
             /\ Good(NotNull(KeptNumber(k)))
             /\ Good(NonEmpty(NotNull(Kept(k))))
             /\ Good(ReadFrom(NotNull(KeptNumber(k)), rms_px))
  BY DEF Kept, KeptNumber, NotNull, NonEmpty, ReadFrom, Field, ValueTypes
<1>1. Polled(a) /\ Polled(HandEyeCalibProgress) /\ Polled(HandEyeCalibError) /\ Polled(c)
  <2>1. Polled(a)
    BY <1>0 DEF Polled, IsSeq
  <2>2. Polled(HandEyeCalibProgress)
    BY <1>0 DEF Polled, IsSeq, HandEyeCalibProgress
  <2>3. Polled(HandEyeCalibError)
    BY <1>0 DEF Polled, IsSeq, HandEyeCalibError
  <2>4. Polled(c)
    BY <1>0 DEF Polled, IsSeq
  <2> HIDE DEF a, c
  <2> QED BY <2>1, <2>2, <2>3, <2>4
<1>2. Polled(b)
  BY <1>0 DEF Polled, IsSeq
<1>3. HandEyeCalibStatus = (a \o HandEyeCalibProgress) \o HandEyeCalibError
  BY DEF HandEyeCalibStatus
<1>4. HandEyeCalibResult = (b \o HandEyeCalibProgress) \o HandEyeCalibError
  BY DEF HandEyeCalibResult
<1>5. HandEyeCalibApplyResult = c \o HandEyeCalibError
  BY DEF HandEyeCalibApplyResult
<1> HIDE DEF a, b, c
<1>6. Polled(a \o HandEyeCalibProgress) /\ Polled(b \o HandEyeCalibProgress) /\ Polled(HandEyeCalibApplyResult)
  BY <1>1, <1>2, <1>5, ConcatPolled
<1>7. Polled(HandEyeCalibStatus) /\ Polled(HandEyeCalibResult)
  BY <1>1, <1>3, <1>4, <1>6, ConcatPolled
<1> QED BY <1>6, <1>7 DEF Calibrations

\* No other class does.
LEMMA FreshNotPolled ==
  ASSUME NEW s, Fresh(s)
  PROVE  s \notin Calibrations
BY CalibrationsPolled DEF Fresh, Polled

\* A polled class accepts a reply that lacks any of its keys.
LEMMA PolledReply ==
  ASSUME NEW s, Polled(s), NEW Opt
  PROVE  ReplyClass(s, Opt)
BY DEF Polled, IsSeq, ReplyClass, ReplyField

\* The other classes accept a reply that lacks keys they do not require.
LEMMA FreshReply ==
  ASSUME NEW s, Fresh(s), NEW Opt,
         \A i \in 1 .. Len(s) : s[i].absent = "throw" => s[i].key \notin Opt
  PROVE  ReplyClass(s, Opt)
BY DEF Fresh, ReplyClass, ReplyField

\* Transform, the reply of GetFrameTransform, requires all of its keys.
LEMMA FreshTransform == Fresh(Transform)
<1> DEFINE p == Nested("position", Position)
           o == Nested("orientation", Quaternion)
<1>1. PlainClass(Transform, {})
  BY PosturePlain
<1>2. /\ IsSeq(p) /\ \A i \in 1 .. Len(p) : p[i].absent = "throw"
      /\ IsSeq(o) /\ \A i \in 1 .. Len(o) : o[i].absent = "throw"
  <2>1. \A i \in 1 .. Len(Position) : Position[i].absent = "throw" /\ "absent" \in DOMAIN Position[i]
    BY DEF Position, Number, Field
  <2>2. \A i \in 1 .. Len(Quaternion) : Quaternion[i].absent = "throw" /\ "absent" \in DOMAIN Quaternion[i]
    BY DEF Quaternion, Number, Field
  <2>8. IsSeq(Position)
    BY DEF IsSeq, Position
  <2>9. IsSeq(Quaternion)
    BY DEF IsSeq, Quaternion
  <2>3. /\ IsSeq(p) /\ Len(p) = Len(Position)
        /\ \A i \in 1 .. Len(Position) :
             p[i] = [Position[i] EXCEPT !.key = <<"position">> \o @, !.from = <<"position">> \o @]
    BY <2>8, NestedFields
  <2>4. /\ IsSeq(o) /\ Len(o) = Len(Quaternion)
        /\ \A i \in 1 .. Len(Quaternion) :
             o[i] = [Quaternion[i] EXCEPT !.key = <<"orientation">> \o @, !.from = <<"orientation">> \o @]
    BY <2>9, NestedFields
  <2> HIDE DEF p, o
  <2>5. ASSUME NEW f, NEW g, NEW a, NEW b, f.absent = "throw", "absent" \in DOMAIN f,
               g = [f EXCEPT !.key = a, !.from = b]
        PROVE  g.absent = "throw"
    BY <2>5
  <2>6. \A i \in 1 .. Len(p) : p[i].absent = "throw"
    BY <2>1, <2>3, <2>5
  <2>7. \A i \in 1 .. Len(o) : o[i].absent = "throw"
    BY <2>2, <2>4, <2>5
  <2> QED BY <2>3, <2>4, <2>6, <2>7
<1> HIDE DEF p, o
<1>3. \A i \in 1 .. Len(p \o o) : (p \o o)[i].absent = "throw"
  BY <1>2, Concat
<1>4. Transform = p \o o
  BY DEF Transform, p, o
<1> QED BY <1>1, <1>3, <1>4 DEF Fresh, PlainClass, PlainField, SentField, IsSeq, ValueTypes

\* The other classes of replies set all their fields.
LEMMA FreshReplies ==
  /\ Fresh(NoBody) /\ Fresh(<<Required("mode")>>) /\ Fresh(GetStatusResponse)
  /\ Fresh(GetRobotInfoResponse) /\ Fresh(DeviceInfo) /\ Fresh(LoadCustomTrainedTrajResponse)
  /\ Fresh(GetTrainedTrajStatusResponse) /\ Fresh(LuiSynthesizeSpeechResponse)
  /\ Fresh(LuiRecognizeAudioResponse) /\ Fresh(DetectionList) /\ Fresh(X5GetStatusResponse)
<1> USE DEF Fresh, ValueTypes, Required, Replaced, Defaulted, Field
<1>1. Fresh(NoBody) /\ Fresh(<<Required("mode")>>) /\ Fresh(GetStatusResponse)
  BY DEF NoBody, GetStatusResponse
<1>2. Fresh(GetRobotInfoResponse)
  BY DEF GetRobotInfoResponse
<1>3. Fresh(DeviceInfo) /\ Fresh(LoadCustomTrainedTrajResponse) /\ Fresh(GetTrainedTrajStatusResponse)
  BY DEF DeviceInfo, LoadCustomTrainedTrajResponse, GetTrainedTrajStatusResponse
<1>4. Fresh(LuiSynthesizeSpeechResponse) /\ Fresh(LuiRecognizeAudioResponse)
  BY DEF LuiSynthesizeSpeechResponse, LuiRecognizeAudioResponse
<1>5. Fresh(DetectionList) /\ Fresh(X5GetStatusResponse)
  BY DEF DetectionList, X5GetStatusResponse
<1> HIDE DEF Fresh
<1> QED BY <1>1, <1>2, <1>3, <1>4, <1>5
=============================================================================
