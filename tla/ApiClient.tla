----------------------------- MODULE ApiClient ------------------------------
(***************************************************************************)
(* What a blocking call of a client does between the caller's objects, the *)
(* JSON on the wire and the service: B1LocoClient, AiClient, LuiClient,    *)
(* VisionClient, HandEyeCalibClient, CameraClient, X5CameraClient and      *)
(* LightControlClient.                                                     *)
(*                                                                         *)
(* A behaviour is a sequence of calls of methods with one response class,  *)
(* that share the output object of the caller.  Either side may be of a    *)
(* version that leaves keys out, and the reply may be an error, late, lost *)
(* or no JSON at all.  The service decodes requests with the same classes; *)
(* it and the RPC transport are not part of the repository.                *)
(***************************************************************************)
EXTENDS Naturals, FiniteSets, LocoApi, ServiceApi

CONSTANTS
  MaxCalls,     \* bound: calls of a behaviour
  MaxMissing    \* bound: keys a peer of another version leaves out

ASSUME ApiAssumption == MaxCalls \in Nat \ {0} /\ MaxMissing \in Nat

Methods == LocoMethods \cup ServiceMethods

-----------------------------------------------------------------------------
(* The objects callers and service make up for the n-th call: every field  *)
(* has that call's mark, but for one that has any value of its type.  The   *)
(* marks of three successive calls differ.                                 *)

Mark(n) == <<"a", "b", "c">>[1 + (n % 3)]

Values(type, n) ==
  CASE type = "scalar" -> {<<>>, <<Mark(n)>>}
    [] type = "float"  -> {<<>>, <<Mark(n)>>, <<NaN>>}
    [] type = "signed" -> {<<>>, <<Mark(n)>>, <<NaN>>, <<Negative>>}
    [] type = "array"  -> {<<>>, <<Mark(n), Mark(n)>>}
    [] type = "floats" -> {<<>>, <<Mark(n), Mark(n)>>, <<Mark(n), NaN>>}

Objects(s, n) ==
  LET base == [k \in Keys(s) |-> <<Mark(n)>>]
  IN  {base} \cup UNION {{[base EXCEPT ![s[i].key] = v] : v \in Values(s[i].type, n)}
                          : i \in DOMAIN s}

\* What a method's constructor call sets, whatever the caller passes.  A
\* request meets nothing an earlier one left, so the first call of a
\* behaviour is the one that tries every argument and every older peer.
Arguments(m, n) ==
  {[k \in Keys(m.req) |-> IF k \notin DOMAIN m.sets THEN o[k]
                          ELSE IF m.sets[k] THEN <<Mark(n)>> ELSE <<>>]
     : o \in IF n = 1 THEN Objects(m.req, n) ELSE {[k \in Keys(m.req) |-> <<Mark(n)>>]}}

\* A JSON object as a peer writes it that does not know some of the keys.
Older(json) ==
  {[k \in DOMAIN json \ d |-> json[k]]
     : d \in UNION {kSubset(i, DOMAIN json) : i \in 0 .. MaxMissing}}

\* The reply with one key null that FromJson takes for missing.
WithNull(s, json) ==
  {[json EXCEPT ![f.from] = Null]
     : f \in {g \in ToSet(s) : g.null = "skip" /\ g.from \in DOMAIN json}}

\* A calibration result with a key in the "result" object that ToJson never
\* writes, and with or without the one that overrules it.
WithRms(s, json, n) ==
  IF s = HandEyeCalibResult
    THEN {[k \in DOMAIN j \cup {rms_px} |-> IF k = rms_px THEN <<"rms", Mark(n)>> ELSE j[k]]
            : j \in {k \in Older(json) : <<"result">> \in DOMAIN k}}
    ELSE {}

\* Objects with one member, and with a kind and a body.
Member(k, v) == [x \in {k} |-> v]
KindAndBody(kind, body) == [k \in Keys(DeviceInfo) |-> IF k = <<"kind">> THEN kind ELSE body]

\* A catalog: the body itself, or wrapped with a kind that need not be a
\* number.
Catalogs(m, n) ==
  LET catalog == <<m.kind, Mark(n)>>
  IN  {Member(<<"catalog">>, catalog)}
      \cup {KindAndBody(k, catalog) : k \in {<<m.kind>>, <<"kOther">>, Null}}

\* Detections: items that are complete, without a key, with a null in the
\* middle or no object at all, in a bare array, a wrapped one or no array.
Detections(n) ==
  LET base  == [k \in Keys(DetectResults) |-> <<Mark(n)>>]
      items == {base, [k \in DOMAIN base \ {<<"position">>} |-> base[k]],
                [base EXCEPT ![<<"conf">>] = Null], <<>>}
  IN  {Member(shape, s) : shape \in {<<"array">>, <<"objects">>},
                          s \in UNION {[1 .. i -> items] : i \in 0 .. 2}}
      \cup {Member(<<"message">>, <<Mark(n)>>)}

\* A body that is not JSON, as the empty one of Response::OkResponse.
Malformed == Member(<<"malformed">>, <<>>)

\* What the service answers.
Replies(m, n) ==
  CASE m.resp = NoBody        -> {Malformed}
    [] m.resp = DeviceInfo    -> {Malformed} \cup Catalogs(m, n)
    [] m.resp = DetectionList -> {Malformed} \cup Detections(n)
    [] OTHER ->
         LET base == ToJson(m.resp, [k \in Keys(m.resp) |-> <<Mark(n)>>])
         IN  {Malformed} \cup (UNION {Older(ToJson(m.resp, o)) : o \in Objects(m.resp, n)})
               \cup WithNull(m.resp, base) \cup WithRms(m.resp, base, n)

-----------------------------------------------------------------------------

VARIABLES
  resp,      \* the response class of this behaviour's methods
  m, arg,    \* the method called last, and the object it serialised
  wire,      \* its request on the wire
  got,       \* what the service made of it
  reply,     \* status and body of the service's answer
  out,       \* the output object of the caller
  before,    \* history: out when the call began
  ret,       \* what the call returned, or "throw"
  pc, calls

vars == <<resp, m, arg, wire, got, reply, out, before, ret, pc, calls>>

Success   == "kRpcStatusCodeSuccess"
NoReply   == [status |-> "none", body |-> <<>>]
NotServed == [ok |-> FALSE, obj |-> <<>>]

Init ==
  /\ \E q \in Methods : resp = q.resp /\ m = q
  /\ arg = Default(m.req) /\ wire = <<>>
  /\ got = NotServed /\ reply = NoReply
  /\ out = Default(resp) /\ before = out
  /\ ret = "none" /\ pc = "idle" /\ calls = 0

\* A method builds its parameter object and sends it; MoveCommand does not
\* wait.  Without a response body a call leaves nothing for the next one.
Call ==
  /\ pc = "idle"
  /\ calls < IF resp = NoBody THEN 1 ELSE MaxCalls
  /\ calls' = calls + 1
  /\ m' \in IF resp = NoBody THEN {m} ELSE {q \in Methods : q.resp = resp}
  /\ arg' \in Arguments(m', calls')
  /\ wire' \in IF calls = 0 THEN Older(ToJson(m'.req, arg')) ELSE {ToJson(m'.req, arg')}
  /\ got' = NotServed /\ reply' = NoReply
  /\ before' = out
  /\ ret' = IF m'.waits THEN "none" ELSE Success
  /\ pc' = "sent"
  /\ UNCHANGED <<resp, out>>

\* The service decodes the request into a new object and answers.
Serve ==
  /\ pc = "sent"
  /\ got' = FromJson(m.req, wire, Default(m.req))
  /\ \/ /\ got'.ok
        /\ \E b \in Replies(m, calls) : reply' = [status |-> Success, body |-> b]
     \/ /\ got'.ok
        /\ reply' = [status |-> "kRpcStatusCodeServerRefused", body |-> <<>>]
     \/ /\ ~got'.ok
        /\ reply' = [status |-> "kRpcStatusCodeBadRequest", body |-> <<>>]
  /\ pc' = IF m.waits THEN "replied" ELSE "idle"
  /\ UNCHANGED <<resp, m, arg, wire, out, before, ret, calls>>

\* The request or the reply is lost or late: a reply that comes after the
\* timeout finds no one waiting for its request id.
TimesOut ==
  /\ pc \in {"sent", "replied"}
  /\ ret' = "kRpcStatusCodeTimeout"
  /\ pc' = "idle"
  /\ UNCHANGED <<resp, m, arg, wire, got, reply, out, before, calls>>

\* DeviceInfo::FromJson takes a wrapped or a bare body.
DeviceInfoFromJson(json, o) ==
  IF {<<"kind">>, <<"body">>} \subseteq DOMAIN json
    THEN FromJson(DeviceInfo, json, o)
    ELSE [ok |-> TRUE, obj |-> KindAndBody(<<>>, json[<<"catalog">>])]

\* The list in a detection reply; a body without one has no detections.
ItemsOf(json) ==
  CASE <<"array">> \in DOMAIN json   -> json[<<"array">>]
    [] <<"objects">> \in DOMAIN json -> json[<<"objects">>]
    [] OTHER -> <<>>

\* The items up to the first that throws, each decoded into a new object.
DecodedItems(items) ==
  LET item(i) == FromJson(DetectResults, items[i], Default(DetectResults))
      bad     == {i \in DOMAIN items : ~item(i).ok}
      count   == IF bad = {} THEN Len(items) ELSE Min(bad) - 1
  IN  [ok |-> bad = {}, list |-> [i \in 1 .. count |-> item(i).obj]]

\* GetDetectionObject clears the list and pushes what it decodes.
DetectionsAppended(json, o) ==
  LET d == DecodedItems(ItemsOf(json))
  IN  [ok |-> d.ok, obj |-> Member(<<"objects">>, o[<<"objects">>] \o d.list)]
DetectionsFromJson(json, o) ==
  LET d == DecodedItems(ItemsOf(json))
  IN  [ok |-> d.ok, obj |-> Member(<<"objects">>, d.list)]

\* The device queries set the kind themselves.
CatalogFromJson(kind, json, o) ==
  LET d == DeviceInfoFromJson(json, o)
  IN  IF d.ok THEN [d EXCEPT !.obj[<<"kind">>] = <<kind>>] ELSE d

\* The part of a query after its response has arrived: nothing has been
\* assigned when the body does not parse.
Decoded(q, json, o) ==
  IF json = Malformed THEN [ok |-> FALSE, obj |-> o]
  ELSE CASE q.resp = DeviceInfo    -> CatalogFromJson(q.kind, json, o)
         [] q.resp = DetectionList -> DetectionsFromJson(json, o)
         [] OTHER                  -> FromJson(q.resp, json, o)

\* GetDetectionObject catches what the decoding throws and returns -1.
Outcome(q, d) ==
  IF d.ok THEN Success ELSE IF q.resp = DetectionList THEN "malformed" ELSE "throw"

\* Mutant: the output object is cleared before the status is checked.
ReturnResets ==
  /\ pc = "replied"
  /\ LET d == Decoded(m, reply.body, Default(resp))
     IN  IF m.resp = NoBody \/ reply.status # Success
           THEN ret' = reply.status /\ out' = Default(resp)
           ELSE out' = d.obj /\ ret' = Outcome(m, d)
  /\ pc' = "idle"
  /\ UNCHANGED <<resp, m, arg, wire, got, reply, before, calls>>

Return ==
  /\ pc = "replied"
  /\ IF m.resp = NoBody \/ reply.status # Success
       THEN ret' = reply.status /\ UNCHANGED out
       ELSE LET d == Decoded(m, reply.body, out)
            IN  out' = d.obj /\ ret' = Outcome(m, d)
  /\ pc' = "idle"
  /\ UNCHANGED <<resp, m, arg, wire, got, reply, before, calls>>

Next == Call \/ Serve \/ TimesOut \/ Return

Spec == Init /\ [][Next]_vars

-----------------------------------------------------------------------------
(* Properties.                                                             *)


Marks == {Mark(n) : n \in 1 .. 3} \cup {NaN, Negative, "rms"}
         \cup {"kSensors", "kHands", "kRobotModel", "kCamera"}
IsObject(s, o) ==
  /\ DOMAIN o = Keys(s)
  /\ \A k \in Keys(s) : Len(o[k]) <= 2 /\ ToSet(o[k]) \subseteq Marks
IsOutput(s, o) ==
  IF s # DetectionList THEN IsObject(s, o)
  ELSE /\ Len(o[<<"objects">>]) <= 2
       /\ \A d \in ToSet(o[<<"objects">>]) : IsObject(DetectResults, d)

Served   == reply.status # "none"
Returned == pc = "idle" /\ calls > 0 /\ m.waits

\* Type invariant.  The output object of a caller that is used for one call
\* after the other keeps the shape of one reply: FromJson does not collect
\* the array elements of several replies in it.
TypeOK ==
  /\ m \in Methods /\ resp = m.resp
  /\ IsObject(m.req, arg) /\ IsOutput(resp, out) /\ IsOutput(resp, before)
  /\ DOMAIN wire \subseteq Keys(m.req)
  /\ got.ok => IsObject(m.req, got.obj)
  /\ calls \in 0 .. MaxCalls
  /\ pc \in {"idle", "sent", "replied"}

\* The keys that the comments of the classes declare optional, or that
\* FromJson asks for before it reads them.
Optional(q) ==
  LET Only(names) == {<<k>> : k \in names}
  IN  CASE q.api \in {"kGetUp", "kGetUpWithMode"} -> Only({"version"})
        [] q.api = "kLoadCustomTrainedTraj"       -> {<<"model", "params">>}
        [] q.api = "kGetTrainedTrajStatus"        -> Only({"traj_id"})
        [] q.api = "kGetStatus"                   -> Only({"current_actions"})
        [] q.api = "RequestHeader"                -> Keys(RequestHeader) \ Only({"api_id"})
        [] q.api = "kStartAiChat"                 -> Only({"persona_id"})
        [] q.api = "kSynthesizeSpeech"            -> Only({"voice_type", "speed", "playback"})
        [] q.api \in {"kRecognizeAudioOnce", "kRecognizeAudioInSession"} ->
             Keys(LuiRecognizeAudioRequest) \ Only({"input_type"})
        [] q.api = "kGetDetectionObject"          -> Only({"focus_ratio"})
        [] q.api \in {"kStartVisionService", "kStartCalibration"} -> Keys(q.req)
        [] q.resp \in {HandEyeCalibStatus, HandEyeCalibResult, HandEyeCalibApplyResult} ->
             Keys(q.resp)
        [] OTHER                                  -> {}

\* Members ToJson leaves out on purpose although the caller set them: a
\* posture without has_aux_, and a square size that is no size.
Withheld(q) ==
  {k \in Keys(q.req) :
     \/ k[1] = "aux_posture" /\ arg[has_aux] = <<>>
     \/ k = <<"square_size_m">> /\ arg[k] \in {<<NaN>>, <<Negative>>}}

\* The service gets what the caller passed: a field that is on the wire is
\* read back with the value ToJson took it from, whatever the order in which
\* FromJson reads and the flags (has_aux) that decide what it reads, and a
\* field that is not on the wire is read as its default.  When both sides
\* are of one version this is the caller's whole object: what ToJson leaves
\* out (an empty persona_id, req_id or file_path) is what FromJson assumes.
RequestUnderstood ==
  Served /\ got.ok =>
    /\ \A k \in Keys(m.req) : got.obj[k] = IF k \in DOMAIN wire THEN arg[k] ELSE <<>>
    /\ wire = ToJson(m.req, arg) =>
         \A k \in Keys(m.req) \ Withheld(m) : got.obj[k] = arg[k]

\* A peer that leaves out only keys documented as optional ("Missing
\* `version` defaults to GetUpVersion::kV1", "missing `traj_id` becomes an
\* empty string") is understood: the request is not rejected and the reply
\* does not throw.  A value that JSON cannot hold, and a body that is no
\* JSON, are the only other reasons.
OlderPeerUnderstood ==
  /\ Served /\ DOMAIN ToJson(m.req, arg) \ DOMAIN wire \subseteq Optional(m) =>
       got.ok \/ \E k \in DOMAIN wire : wire[k] = Null
  /\ Returned /\ ret = "throw" =>
       \/ reply.body = Malformed
       \/ ~ (Keys(resp) \subseteq DOMAIN reply.body \cup Optional(m))
       \/ \E k \in DOMAIN reply.body : reply.body[k] = Null

\* A call that returns an error, a timeout included, leaves the caller's
\* output object as it was: "return ret" precedes every parse.
OutKeptOnError ==
  Returned /\ ret \notin {Success, "throw", "malformed"} => out = before

\* The calibration classes keep a member whose key is missing or null.
KeepsMissing == resp \in {HandEyeCalibStatus, HandEyeCalibResult, HandEyeCalibApplyResult}
Carried(k) ==
  \E i \in DOMAIN resp : /\ resp[i].key = k
                         /\ resp[i].from \in DOMAIN reply.body
                         /\ reply.body[resp[i].from] # Null

\* A successful query returns this reply and nothing of an earlier one that
\* was read into the same object.  A calibration object that is polled is
\* the exception: it has this reply's value of every key the reply carries,
\* and the value it had of every other.
OutIsReply ==
  Returned /\ ret = Success /\ resp \notin {NoBody, DetectionList} =>
    LET fresh == Decoded(m, reply.body, Default(resp)).obj
    IN  \A k \in Keys(resp) :
          out[k] = IF KeepsMissing /\ ~Carried(k) THEN before[k] ELSE fresh[k]

\* GetDetectionObject never mixes two frames: after 0 the list has one
\* detection per item of the reply, in its order; after -1 it is either as
\* it was (the body did not parse) or the detections before the bad item.
\* A field an item does not carry is not taken from its neighbour.
DetectionsOfReply ==
  Returned /\ resp = DetectionList /\ ret \in {Success, "malformed"} =>
    LET items == ItemsOf(reply.body)
        list  == out[<<"objects">>]
    IN  IF reply.body = Malformed THEN ret = "malformed" /\ out = before
        ELSE /\ IF ret = Success THEN Len(list) = Len(items) ELSE Len(list) < Len(items)
             /\ \A i \in DOMAIN list, k \in Keys(DetectResults) :
                  list[i][k] = IF k \in DOMAIN items[i] THEN items[i][k] ELSE <<>>
=============================================================================
