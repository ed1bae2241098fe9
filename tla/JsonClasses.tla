---------------------------- MODULE JsonClasses -----------------------------
(***************************************************************************)
(* What the ToJson and FromJson of the parameter and response classes do,  *)
(* and the shape of a client's methods.                                    *)
(*                                                                         *)
(* A class is the sequence of its fields in the order FromJson reads them; *)
(* an object maps each field to its value, and a JSON object maps the keys *)
(* that are present.  A key is a path: the fields of a nested object are   *)
(* those of its class behind the key of the object.  A value is a sequence *)
(* of marks: <<>> is the initial value of the member (zero, false, empty,  *)
(* or what the class gives it), an array has one mark per element.  The    *)
(* mark NaN is a floating-point value that JSON cannot hold and that       *)
(* dump() writes as null; Negative is a number below zero.                 *)
(***************************************************************************)
EXTENDS Sequences, SequencesExt

NaN  == "NaN"
Negative == "negative"
Null == <<"null">>

-----------------------------------------------------------------------------
(* The ways in which a field is read and written.                          *)

Field(k, absent, written, type) ==
  [key |-> <<k>>, from |-> <<k>>, absent |-> absent, null |-> "throw",
   written |-> written, type |-> type]

\* f_ = json["k"], json.at("k"): throws when the key is missing.
Required(k) == Field(k, "throw", "always", "scalar")
\* The same for a float or a double, and for an array.
Number(k) == Field(k, "throw", "always", "float")
RequiredArray(k) == Field(k, "throw", "always", "array")
\* if (json.contains("k")) ... else f_ = default;  json.value("k", default)
Defaulted(k) == Field(k, "default", "always", "scalar")
\* if (json.contains("k")) f_ = json["k"]: a missing key leaves the member.
Kept(k) == Field(k, "keep", "always", "scalar")
KeptNumber(k) == Field(k, "keep", "always", "float")
KeptArray(k) == Field(k, "keep", "always", "array")
KeptNumbers(k) == Field(k, "keep", "always", "floats")
\* An array read into a new or cleared vector; null has no elements.
Replaced(k) == [Field(k, "default", "always", "array") EXCEPT !.null = "skip"]
\* The same for elements with floating-point members.  A null stands for an
\* array with a null in it, which throws.
ReplacedNumbers(k) == Field(k, "default", "always", "floats")
\* An array pushed to the vector the object has, and written if not empty.
Appended(k) == Field(k, "append", "nonempty", "array")
\* A field that is only read and written when has_aux_ is set.
WithAux(s) == [i \in DOMAIN s |-> [s[i] EXCEPT !.absent = "aux", !.written = "aux"]]
\* ... && !json["k"].is_null(): null is as good as no key.
NotNull(f) == [f EXCEPT !.null = "skip"]
\* Only written if not empty, and if above zero.
NonEmpty(f) == [f EXCEPT !.written = "nonempty"]
Positive(f) == [f EXCEPT !.written = "positive", !.type = "signed"]
\* Another key that is read into the member of f, and never written.
ReadFrom(f, path) == [f EXCEPT !.from = path, !.written = "never"]

\* A member that is itself an object.
Nested(k, s) ==
  [i \in DOMAIN s |-> [s[i] EXCEPT !.key = <<k>> \o @, !.from = <<k>> \o @]]

has_aux == <<"has_aux">>
Keys(s) == {s[i].key : i \in DOMAIN s}

-----------------------------------------------------------------------------
(* ToJson and dump().                                                      *)

Written(f, o) ==
  \/ f.written = "always"
  \/ f.written = "nonempty" /\ o[f.key] # <<>>
  \/ f.written = "positive" /\ o[f.key] \notin {<<>>, <<NaN>>, <<Negative>>}
  \/ f.written = "aux" /\ o[has_aux] # <<>>

Dump(v) == IF NaN \in ToSet(v) THEN Null ELSE v

ToJson(s, o) ==
  [k \in {s[i].key : i \in {j \in DOMAIN s : Written(s[j], o)}} |-> Dump(o[k])]

-----------------------------------------------------------------------------
(* FromJson: the fields one after the other, until one throws.             *)

Ignored(f, json, o) ==
  \/ f.absent = "aux" /\ o[has_aux] = <<>>
  \/ f.null = "skip" /\ f.from \in DOMAIN json /\ json[f.from] = Null

Throws(f, json, o) ==
  /\ ~Ignored(f, json, o)
  /\ IF f.from \in DOMAIN json THEN json[f.from] = Null ELSE f.absent \in {"throw", "aux"}

Read(f, json, o) ==
  LET old == o[f.key]
  IN  IF Ignored(f, json, o) THEN IF f.absent = "default" THEN <<>> ELSE old
      ELSE IF f.from \in DOMAIN json
        THEN IF f.absent = "append" THEN old \o json[f.from] ELSE json[f.from]
        ELSE IF f.absent \in {"append", "keep"} THEN old ELSE <<>>

FromJson(s, json, o) ==
  LET after[i \in 0 .. Len(s)] ==
        IF i = 0 THEN [ok |-> TRUE, obj |-> o]
        ELSE LET prev == after[i - 1]
             IN  IF ~prev.ok THEN prev
                 ELSE IF Throws(s[i], json, prev.obj) THEN [prev EXCEPT !.ok = FALSE]
                 ELSE [prev EXCEPT !.obj[s[i].key] = Read(s[i], json, prev.obj)]
  IN  after[Len(s)]

Default(s) == [k \in Keys(s) |-> <<>>]

-----------------------------------------------------------------------------
(* A method of a client: the API it calls, the class it sends and the one  *)
(* it returns, whether it waits for an answer, the kind a catalog query    *)
(* gives its result, and what its constructor call sets.                   *)

NoBody == <<>>
DeviceInfo == <<Required("kind"), Required("body")>>

Request(api, req)      == [api |-> api, req |-> req, resp |-> NoBody, waits |-> TRUE,
                           kind |-> "", sets |-> <<>>]
Command(api, req)      == [Request(api, req) EXCEPT !.waits = FALSE]
Query(api, req, resp)  == [Request(api, req) EXCEPT !.resp = resp]
DeviceQuery(api, kind) == [Query(api, NoBody, DeviceInfo) EXCEPT !.kind = kind]
=============================================================================
