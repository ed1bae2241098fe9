-------------------------- MODULE ApiClientProofs ---------------------------
(***************************************************************************)
(* Theorems about the clients, for any number of calls and any keys a peer *)
(* of another version leaves out.                                          *)
(***************************************************************************)
EXTENDS ApiClient, JsonClassesProofs

-----------------------------------------------------------------------------
(* Errors.                                                                 *)

\* Nothing is parsed into the caller's object before the response arrived
\* with a success status.
OutKeptUntilReturn == pc # "idle" => out = before

\* What decoding a reply makes a call return.
LEMMA OutcomeKinds ==
  ASSUME NEW q, NEW d
  PROVE  Outcome(q, d) \in {Success, "throw", "malformed"}
BY DEF Outcome

\* Only a return with a decoded reply changes the object of the caller.
LEMMA OutKeptStep ==
  OutKeptUntilReturn /\ OutKeptOnError /\ [Next]_vars
    => OutKeptUntilReturn' /\ OutKeptOnError'
<1> SUFFICES ASSUME OutKeptUntilReturn, OutKeptOnError, [Next]_vars
             PROVE  OutKeptUntilReturn' /\ OutKeptOnError'
  OBVIOUS
<1> USE DEF OutKeptUntilReturn, OutKeptOnError, Returned
<1>1. CASE Call
  BY <1>1 DEF Call
<1>2. CASE Serve
  <2>1. out' = out /\ before' = before /\ pc = "sent" /\ m' = m
    BY <1>2 DEF Serve
  <2>2. pc' = IF m.waits THEN "replied" ELSE "idle"
    BY <1>2 DEF Serve
  <2> QED BY <2>1, <2>2
<1>3. CASE TimesOut
  BY <1>3 DEF TimesOut
<1>4. CASE Return
  <2>1. pc = "replied" /\ before' = before
    BY <1>4 DEF Return
  <2>2. CASE out' = out
    BY <1>4, <2>1, <2>2 DEF Return
  <2>3. ASSUME NEW d, ret' = Outcome(m, d)
        PROVE  ret' \in {Success, "throw", "malformed"}
    BY <2>3, OutcomeKinds
  <2>4. pc' = "idle" /\ (out' = out \/ \E d : ret' = Outcome(m, d))
    BY <1>4, Zenon DEF Return
  <2> QED BY <2>1, <2>2, <2>3, <2>4
<1>5. CASE UNCHANGED vars
  BY <1>5 DEF vars
<1> QED BY <1>1, <1>2, <1>3, <1>4, <1>5 DEF Next

\* For every method, reply, timeout and number of calls: a query that returns
\* an error leaves the caller's output object as it was.
THEOREM OutputsKept == Spec => []OutKeptOnError
<1>1. Init => OutKeptUntilReturn /\ OutKeptOnError
  BY DEF Init, OutKeptUntilReturn, OutKeptOnError, Returned
<1> QED BY <1>1, OutKeptStep, PTL DEF Spec

-----------------------------------------------------------------------------
(* The classes of every method.                                            *)

\* The kinds of catalogs.
Kinds == {"kSensors", "kHands", "kRobotModel", "kCamera"}

\* The classes of a method, and the keys that may be missing in them.
Sound(q) ==
  /\ SentClass(q.req, Optional(q)) /\ ReplyClass(q.resp, Optional(q))
  /\ IF q.resp \in Calibrations THEN Polled(q.resp) ELSE Fresh(q.resp)
  /\ q.resp = DeviceInfo => q.kind \in Kinds

\* The methods for which keys may be missing.
OlderApis ==
  {"kGetUp", "kGetUpWithMode", "kLoadCustomTrainedTraj", "kGetTrainedTrajStatus", "kGetStatus",
   "RequestHeader", "kStartAiChat", "kSynthesizeSpeech", "kRecognizeAudioOnce",
   "kRecognizeAudioInSession", "kGetDetectionObject", "kStartVisionService", "kStartCalibration"}

\* A method of which no key may be missing.
LEMMA NothingOptional ==
  ASSUME NEW q, q.api \notin OlderApis, Fresh(q.resp), SentClass(q.req, {}),
         q.resp = DeviceInfo => q.kind \in Kinds
  PROVE  Sound(q)
<1>1. q.resp \notin Calibrations
  BY FreshNotPolled
<1>2. Optional(q) = {}
  BY <1>1 DEF Optional, OlderApis, Calibrations
<1>3. ReplyClass(q.resp, {})
  BY FreshReply
<1> QED BY <1>1, <1>2, <1>3 DEF Sound

\* A method of which the reply needs none of the keys that may be missing.
LEMMA SomeOptional ==
  ASSUME NEW q, q.api \in OlderApis, Fresh(q.resp), SentClass(q.req, Optional(q)), q.resp # DeviceInfo,
         \A i \in 1 .. Len(q.resp) : q.resp[i].absent = "throw" => q.resp[i].key \notin Optional(q)
  PROVE  Sound(q)
<1>1. q.resp \notin Calibrations
  BY FreshNotPolled
<1>3. ReplyClass(q.resp, Optional(q))
  BY FreshReply
<1> QED BY <1>1, <1>3 DEF Sound

\* A request or command that needs all its keys.
LEMMA SoundRequest ==
  ASSUME NEW api, api \notin OlderApis, NEW req, SentClass(req, {})
  PROVE  Sound(Request(api, req)) /\ Sound(Command(api, req))
<1> DEFINE q == Request(api, req)
           c == Command(api, req)
<1>1. Fresh(NoBody) /\ NoBody # DeviceInfo
  BY FreshReplies DEF NoBody, DeviceInfo
<1>2. /\ q.api = api /\ q.resp = NoBody /\ q.req = req
      /\ c.api = api /\ c.resp = NoBody /\ c.req = req
  BY DEF Request, Command
<1> HIDE DEF q, c
<1>3. Sound(q) /\ Sound(c)
  BY <1>1, <1>2, NothingOptional
<1> QED BY <1>3 DEF q, c

\* A query that needs all its keys.
LEMMA SoundQuery ==
  ASSUME NEW api, api \notin OlderApis, NEW req, SentClass(req, {}), NEW res, Fresh(res), res # DeviceInfo
  PROVE  Sound(Query(api, req, res))
<1> DEFINE q == Query(api, req, res)
<1>2. q.api = api /\ q.resp = res /\ q.req = req
  BY DEF Query, Request
<1> HIDE DEF q
<1>3. Sound(q)
  BY <1>2, NothingOptional
<1> QED BY <1>3 DEF q

\* A query for a catalog.
LEMMA SoundDeviceQuery ==
  ASSUME NEW api, api \notin OlderApis, NEW kind \in Kinds
  PROVE  Sound(DeviceQuery(api, kind))
<1> DEFINE q == DeviceQuery(api, kind)
<1>2. q.api = api /\ q.resp = DeviceInfo /\ q.req = NoBody /\ q.kind = kind
  BY DEF DeviceQuery, Query, Request
<1> HIDE DEF q
<1>3. Sound(q)
  BY <1>2, NothingOptional, NothingSent, FreshReplies
<1> QED BY <1>3 DEF q

\* Requests that have one field, or none.
LEMMA SoundShortRequests ==
  \A q \in {ChangeMode, LieDown, Shoot, StopHandEndEffector, SwitchHandEndEffectorControlMode,
            Handshake, HandOnChestGreeting, Dance, PlaySound, StopSound, ZeroTorqueDrag,
            RecordTrajectory, ReplayTrajectory, WholeBodyDance, UpperBodyCustomControl,
            ResetOdometry, ActivateCustomTrainedTraj, UnloadCustomTrainedTraj, EnterWBCGait,
            ExitWBCGait, LionDancePrepare, LionDanceStart, LionDanceMove, SwitchGait} : Sound(q)
<1>1. /\ Sound(ChangeMode) /\ Sound(SwitchHandEndEffectorControlMode) /\ Sound(Handshake)
      /\ Sound(HandOnChestGreeting)
  BY OneRequired, SoundRequest
  DEF OlderApis, ChangeMode, ChangeModeParameter, SwitchHandEndEffectorControlMode,
      SwitchHandEndEffectorControlModeParameter, Handshake, HandshakeParameter,
      HandOnChestGreeting, HandOnChestGreetingParameter
<1>2. Sound(LieDown) /\ Sound(Shoot) /\ Sound(StopHandEndEffector) /\ Sound(StopSound)
  BY NothingSent, SoundRequest DEF OlderApis, LieDown, Shoot, StopHandEndEffector, StopSound
<1>3. Sound(ResetOdometry) /\ Sound(EnterWBCGait) /\ Sound(ExitWBCGait)
  BY NothingSent, SoundRequest DEF OlderApis, ResetOdometry, EnterWBCGait, ExitWBCGait
<1>4. Sound(Dance) /\ Sound(PlaySound) /\ Sound(ZeroTorqueDrag) /\ Sound(RecordTrajectory)
  BY OneRequired, SoundRequest
  DEF OlderApis, Dance, DanceParameter, PlaySound, PlaySoundParameter, ZeroTorqueDrag,
      ZeroTorqueDragParameter, RecordTrajectory, RecordTrajectoryParameter
<1>5. /\ Sound(ReplayTrajectory) /\ Sound(WholeBodyDance) /\ Sound(UpperBodyCustomControl)
      /\ Sound(ActivateCustomTrainedTraj) /\ Sound(UnloadCustomTrainedTraj)
  BY OneRequired, SoundRequest
  DEF OlderApis, ReplayTrajectory, ReplayTrajectoryParameter, WholeBodyDance,
      WholeBodyDanceParameter, UpperBodyCustomControl, UpperBodyCustomControlParameter,
      ActivateCustomTrainedTraj, UnloadCustomTrainedTraj, CustomTrainedTrajParameter
<1>6. /\ Sound(LionDancePrepare) /\ Sound(LionDanceStart) /\ Sound(LionDanceMove)
      /\ Sound(SwitchGait)
  BY OneRequired, SoundRequest
  DEF OlderApis, LionDancePrepare, LionDancePrepareParameter, LionDanceStart,
      LionDanceStartParameter, LionDanceMove, LionDanceMoveParameter, SwitchGait,
      SwitchGaitParameter
<1> QED BY <1>1, <1>2, <1>3, <1>4, <1>5, <1>6

\* MoveHandEndEffector in its versions, with and without aux_posture.
LEMMA SoundMoveHand ==
  ASSUME NEW aux, NEW v2
  PROVE  Sound(MoveHand(aux, v2))
<1> DEFINE q == MoveHand(aux, v2)
<1>1. /\ q.api = "kMoveHandEndEffector" /\ q.req = MoveHandEndEffectorParameter
      /\ q.resp = NoBody
  BY DEF MoveHand, Request
<1>2. Fresh(NoBody) /\ NoBody # DeviceInfo
  BY FreshReplies DEF NoBody, DeviceInfo
<1>3. "kMoveHandEndEffector" \notin OlderApis
  BY DEF OlderApis
<1> HIDE DEF q
<1>4. Sound(q)
  BY <1>1, <1>2, <1>3, NothingOptional, HandClass
<1> QED BY <1>4 DEF q

\* WaveHand, which sets the hand itself.
LEMMA SoundWaveHand == Sound(WaveHand)
<1>1. /\ WaveHand.api = "kWaveHand" /\ WaveHand.req = WaveHandParameter
      /\ WaveHand.resp = NoBody
  BY DEF WaveHand, Request
<1>2. Fresh(NoBody) /\ NoBody # DeviceInfo
  BY FreshReplies DEF NoBody, DeviceInfo
<1>3. "kWaveHand" \notin OlderApis
  BY DEF OlderApis
<1> QED BY <1>1, <1>2, <1>3, NothingOptional, LocoClasses

\* Requests of several fields.
LEMMA SoundLongRequests ==
  \A q \in {Move, MoveCommand, RotateHead, RotateHeadWithTime, WaveHand, RotateHeadWithDirection,
            MoveHandEndEffectorWithAux, MoveHandEndEffector, MoveHandEndEffectorV2,
            MoveDualHandEndEffector, ControlGripper, ControlDexterousHand, ResetOdometryTo,
            VisualKick} : Sound(q)
<1>1. Sound(Move) /\ Sound(MoveCommand) /\ Sound(RotateHead) /\ Sound(RotateHeadWithTime)
  BY LocoClasses, SoundRequest DEF OlderApis, Move, MoveCommand, RotateHead, RotateHeadWithTime
<1>2. /\ Sound(WaveHand) /\ Sound(RotateHeadWithDirection) /\ Sound(ResetOdometryTo)
      /\ Sound(VisualKick)
  BY LocoClasses, SoundRequest, SoundWaveHand
  DEF OlderApis, RotateHeadWithDirection, ResetOdometryTo, VisualKick
<1>3. /\ Sound(MoveHandEndEffectorWithAux) /\ Sound(MoveHandEndEffector)
      /\ Sound(MoveHandEndEffectorV2)
  BY SoundMoveHand DEF MoveHandEndEffectorWithAux, MoveHandEndEffector, MoveHandEndEffectorV2
<1>4. Sound(MoveDualHandEndEffector) /\ Sound(ControlGripper) /\ Sound(ControlDexterousHand)
  BY LocoClasses, DualHandClass, GripperClass, SoundRequest
  DEF OlderApis, MoveDualHandEndEffector, ControlGripper, ControlDexterousHand
<1> QED BY <1>1, <1>2, <1>3, <1>4

\* What may be missing, by the API.
LEMMA OptionalKeys ==
  ASSUME NEW q, Fresh(q.resp)
  PROVE  /\ q.api \in {"kGetUp", "kGetUpWithMode"} => Optional(q) = {<<"version">>}
         /\ q.api = "kLoadCustomTrainedTraj" => Optional(q) = {<<"model", "params">>}
         /\ q.api = "kGetTrainedTrajStatus" => Optional(q) = {<<"traj_id">>}
         /\ q.api = "kGetStatus" => Optional(q) = {<<"current_actions">>}
         /\ q.api = "RequestHeader" => Optional(q) = Keys(RequestHeader) \ {<<"api_id">>}
         /\ q.api = "kStartAiChat" => Optional(q) = {<<"persona_id">>}
         /\ q.api = "kSynthesizeSpeech" =>
              Optional(q) = {<<"voice_type">>, <<"speed">>, <<"playback">>}
         /\ q.api \in {"kRecognizeAudioOnce", "kRecognizeAudioInSession"} =>
              Optional(q) = Keys(LuiRecognizeAudioRequest) \ {<<"input_type">>}
         /\ q.api = "kGetDetectionObject" => Optional(q) = {<<"focus_ratio">>}
         /\ q.api \in {"kStartVisionService", "kStartCalibration"} => Optional(q) = Keys(q.req)
<1>1. q.resp \notin Calibrations
  BY FreshNotPolled
<1> QED BY <1>1 DEF Optional, Calibrations

\* Methods of which a peer of an older version may leave out keys.
LEMMA SoundOlderRequests ==
  \A q \in {GetUp, GetUpWithMode, OperationRequest, StartAiChat, StartVisionService,
            StartCalibration} : Sound(q)
<1>1. ASSUME NEW api \in OlderApis, NEW req, SentClass(req, Optional(Request(api, req)))
      PROVE  Sound(Request(api, req))
  <2> DEFINE q == Request(api, req)
  <2>1. q.api = api /\ q.resp = NoBody /\ q.req = req
    BY DEF Request
  <2>2. Fresh(NoBody) /\ NoBody # DeviceInfo /\ Len(NoBody) = 0
    BY FreshReplies DEF NoBody, DeviceInfo
  <2>3. SentClass(req, Optional(q))
    BY <1>1
  <2> HIDE DEF q
  <2>4. Sound(q)
    BY <2>1, <2>2, <2>3, SomeOptional
  <2> QED BY <2>4 DEF q
<1>2. Optional(GetUp) = {<<"version">>} /\ Optional(GetUpWithMode) = {<<"version">>}
  BY OptionalKeys, FreshReplies DEF GetUp, GetUpWithMode, Request
<1>3. Sound(GetUp) /\ Sound(GetUpWithMode)
  BY <1>1, <1>2, OlderClasses DEF OlderApis, GetUp, GetUpWithMode
<1>4. /\ Optional(OperationRequest) = Keys(RequestHeader) \ {<<"api_id">>}
      /\ Optional(StartAiChat) = {<<"persona_id">>}
  BY OptionalKeys, FreshReplies DEF OperationRequest, StartAiChat, Request
<1>5. Sound(OperationRequest) /\ Sound(StartAiChat)
  BY <1>1, <1>4, OlderClasses, ChatClass DEF OlderApis, OperationRequest, StartAiChat
<1>6. /\ Optional(StartVisionService) = Keys(StartVisionServiceParameter)
      /\ Optional(StartCalibration) = Keys(StartHandEyeCalibParameter)
  <2>1. /\ StartVisionService.api = "kStartVisionService" /\ StartVisionService.resp = NoBody
        /\ StartVisionService.req = StartVisionServiceParameter
        /\ StartCalibration.api = "kStartCalibration" /\ StartCalibration.resp = NoBody
        /\ StartCalibration.req = StartHandEyeCalibParameter
    BY DEF StartVisionService, StartCalibration, Request
  <2> QED BY <2>1, OptionalKeys, FreshReplies
<1>7. Sound(StartVisionService) /\ Sound(StartCalibration)
  BY <1>1, <1>6, OlderClasses, CalibrationClass
  DEF OlderApis, StartVisionService, StartCalibration
<1> QED BY <1>3, <1>5, <1>7

\* Queries of which a peer of an older version may leave out keys.
LEMMA SoundOlderQueries ==
  \A q \in {GetStatus, LoadCustomTrainedTraj, GetTrainedTrajStatus, SynthesizeSpeech,
            RecognizeAudioOnce, RecognizeAudioInSession, GetDetectionObject} : Sound(q)
<1>1. ASSUME NEW api \in OlderApis, NEW req, NEW res, SentClass(req, Optional(Query(api, req, res))),
             Fresh(res), res # DeviceInfo,
             \A i \in 1 .. Len(res) : res[i].absent = "throw" =>
               res[i].key \notin Optional(Query(api, req, res))
      PROVE  Sound(Query(api, req, res))
  <2> DEFINE q == Query(api, req, res)
  <2>1. q.api = api /\ q.resp = res /\ q.req = req
    BY DEF Query, Request
  <2>3. SentClass(req, Optional(q)) /\ \A i \in 1 .. Len(res) : res[i].absent = "throw" =>
               res[i].key \notin Optional(q)
    BY <1>1
  <2> HIDE DEF q
  <2>4. Sound(q)
    BY <1>1, <2>1, <2>3, SomeOptional
  <2> QED BY <2>4 DEF q
<1>2. Optional(GetStatus) = {<<"current_actions">>} /\ Optional(GetTrainedTrajStatus) = {<<"traj_id">>}
  BY OptionalKeys, FreshReplies DEF GetStatus, GetTrainedTrajStatus, Query, Request
<1>3. /\ GetStatusResponse # DeviceInfo
      /\ \A i \in 1 .. Len(GetStatusResponse) : GetStatusResponse[i].absent = "throw" =>
           GetStatusResponse[i].key \notin {<<"current_actions">>}
  BY DEF GetStatusResponse, DeviceInfo, Required, Replaced, Field
<1>4. Sound(GetStatus)
  BY <1>1, <1>2, <1>3, FreshReplies, NothingSent DEF OlderApis, GetStatus
<1>5. /\ GetTrainedTrajStatusResponse # DeviceInfo
      /\ \A i \in 1 .. Len(GetTrainedTrajStatusResponse) : GetTrainedTrajStatusResponse[i].absent = "throw" =>
           GetTrainedTrajStatusResponse[i].key \notin {<<"traj_id">>}
  BY DEF GetTrainedTrajStatusResponse, DeviceInfo, Required, Defaulted, Field
<1>6. Sound(GetTrainedTrajStatus)
  BY <1>1, <1>2, <1>5, FreshReplies, NothingSent DEF OlderApis, GetTrainedTrajStatus
<1>7. Optional(LoadCustomTrainedTraj) = {<<"model", "params">>}
  BY OptionalKeys, FreshReplies DEF LoadCustomTrainedTraj, Query, Request
<1>8. /\ LoadCustomTrainedTrajResponse # DeviceInfo
      /\ \A i \in 1 .. Len(LoadCustomTrainedTrajResponse) :
           LoadCustomTrainedTrajResponse[i].key \notin {<<"model", "params">>}
  BY DEF LoadCustomTrainedTrajResponse, DeviceInfo, Required, Field
<1>9. Sound(LoadCustomTrainedTraj)
  BY <1>1, <1>7, <1>8, FreshReplies, TrajClass DEF OlderApis, LoadCustomTrainedTraj
<1>10. Optional(SynthesizeSpeech) = {<<"voice_type">>, <<"speed">>, <<"playback">>}
  BY OptionalKeys, FreshReplies DEF SynthesizeSpeech, Query, Request
<1>11. /\ LuiSynthesizeSpeechResponse # DeviceInfo
       /\ \A i \in 1 .. Len(LuiSynthesizeSpeechResponse) :
            LuiSynthesizeSpeechResponse[i].key \notin {<<"voice_type">>, <<"speed">>, <<"playback">>}
  BY DEF LuiSynthesizeSpeechResponse, DeviceInfo, Required, Field
<1>12. Sound(SynthesizeSpeech)
  BY <1>1, <1>10, <1>11, FreshReplies, OlderClasses DEF OlderApis, SynthesizeSpeech
<1>13. /\ Optional(RecognizeAudioOnce) = Keys(LuiRecognizeAudioRequest) \ {<<"input_type">>}
       /\ Optional(RecognizeAudioInSession) = Keys(LuiRecognizeAudioRequest) \ {<<"input_type">>}
  BY OptionalKeys, FreshReplies DEF RecognizeAudioOnce, RecognizeAudioInSession, Query, Request
<1>14. /\ LuiRecognizeAudioResponse # DeviceInfo
       /\ \A i \in 1 .. Len(LuiRecognizeAudioResponse) :
            LuiRecognizeAudioResponse[i].key \notin Keys(LuiRecognizeAudioRequest) \ {<<"input_type">>}
  <2>1. \A i \in 1 .. Len(LuiRecognizeAudioResponse) : LuiRecognizeAudioResponse[i].key = <<"text">>
    BY DEF LuiRecognizeAudioResponse, Required, Field
  <2>2. <<"text">> \notin Keys(LuiRecognizeAudioRequest)
    BY DEF Keys, LuiRecognizeAudioRequest, Required, Kept, NonEmpty, Field
  <2>3. LuiRecognizeAudioResponse # DeviceInfo
    BY DEF LuiRecognizeAudioResponse, DeviceInfo, Required, Field
  <2> QED BY <2>1, <2>2, <2>3
<1>15. Sound(RecognizeAudioOnce) /\ Sound(RecognizeAudioInSession)
  BY <1>1, <1>13, <1>14, FreshReplies, OlderClasses
  DEF OlderApis, RecognizeAudioOnce, RecognizeAudioInSession
<1>16. Optional(GetDetectionObject) = {<<"focus_ratio">>}
  BY OptionalKeys, FreshReplies DEF GetDetectionObject, Query, Request
<1>17. /\ DetectionList # DeviceInfo
       /\ \A i \in 1 .. Len(DetectionList) : DetectionList[i].absent = "throw" =>
            DetectionList[i].key \notin {<<"focus_ratio">>}
  BY DEF DetectionList, DeviceInfo, Required, Field
<1>18. Sound(GetDetectionObject)
  BY <1>1, <1>16, <1>17, FreshReplies, OlderClasses DEF OlderApis, GetDetectionObject
<1> QED BY <1>4, <1>6, <1>9, <1>12, <1>15, <1>18

\* Queries that need all their keys.
LEMMA SoundQueries ==
  \A q \in {GetMode, GetRobotInfo, GetFrameTransform, X5GetStatus, GetSensors, GetHands,
            GetRobotModel, GetCameras} : Sound(q)
<1>1. Sound(GetMode) /\ Sound(GetRobotInfo)
  <2>1. GetModeResponse # DeviceInfo /\ GetRobotInfoResponse # DeviceInfo
    BY DEF GetModeResponse, GetRobotInfoResponse, DeviceInfo, Required, Field
  <2>2. Fresh(GetModeResponse) /\ Fresh(GetRobotInfoResponse)
    BY FreshReplies DEF GetModeResponse
  <2> QED BY <2>1, <2>2, NothingSent, SoundQuery DEF OlderApis, GetMode, GetRobotInfo
<1>2. Sound(GetFrameTransform)
  <2>1. Transform # DeviceInfo
    <3> DEFINE p == Nested("position", Position)
               o == Nested("orientation", Quaternion)
    <3>1. IsSeq(Position) /\ Len(Position) = 3
      BY DEF Position, IsSeq
    <3>2. IsSeq(Quaternion) /\ Len(Quaternion) = 4
      BY DEF Quaternion, IsSeq
    <3>3. IsSeq(p) /\ Len(p) = 3
      BY <3>1, NestedFields
    <3>4. IsSeq(o) /\ Len(o) = 4
      BY <3>2, NestedFields
    <3> HIDE DEF p, o
    <3>7. Len(p \o o) = Len(p) + Len(o)
      BY <3>3, <3>4, Concat
    <3>5. Len(p \o o) = 7
      BY <3>3, <3>4, <3>7
    <3>6. Len(DeviceInfo) = 2
      BY DEF DeviceInfo
    <3> QED BY <3>5, <3>6 DEF Transform, p, o
  <2> QED BY <2>1, FreshTransform, LocoClasses, SoundQuery DEF OlderApis, GetFrameTransform
<1>3. Sound(X5GetStatus)
  <2>1. X5GetStatusResponse # DeviceInfo
    BY DEF X5GetStatusResponse, DeviceInfo, Required, Field
  <2> QED BY <2>1, FreshReplies, NothingSent, SoundQuery DEF OlderApis, X5GetStatus
<1>4. Sound(GetSensors) /\ Sound(GetHands) /\ Sound(GetRobotModel) /\ Sound(GetCameras)
  BY SoundDeviceQuery DEF OlderApis, Kinds, GetSensors, GetHands, GetRobotModel, GetCameras
<1> QED BY <1>1, <1>2, <1>3, <1>4

\* The queries of the calibration, whose replies may leave out any key.
LEMMA SoundCalibrations ==
  \A q \in {GetCalibrationStatus, GetCalibrationResult, ApplyResult} : Sound(q)
<1>1. ASSUME NEW q, q.api \notin OlderApis, q.req = NoBody, q.resp \in Calibrations
      PROVE  Sound(q)
  <2>1. Polled(q.resp)
    BY <1>1, CalibrationsPolled
  <2>2. q.resp # DeviceInfo
    BY <1>1, FreshNotPolled, FreshReplies
  <2> QED BY <1>1, <2>1, <2>2, NothingSent, PolledReply DEF Sound
<1> QED
  BY <1>1 DEF Calibrations, OlderApis, GetCalibrationStatus, GetCalibrationResult, ApplyResult,
              Query, Request

\* Requests of the other clients that need all their keys.
LEMMA SoundServiceRequests ==
  \A q \in {StopAiChat, Speak, StartFaceTracking, StopFaceTracking, StartAsr, StopAsr, StartTts,
            StopTts, SendTtsText, StartAudioRecognizer, StopAudioRecognizer, StopVisionService, StopCalibration, X5ChangeMode,
            SetLEDLightColor, SetLEDLightColors, StopLEDLightControl} : Sound(q)
<1>1. /\ Sound(StopAiChat) /\ Sound(StartFaceTracking) /\ Sound(StopFaceTracking)
      /\ Sound(StopVisionService) /\ Sound(StopCalibration) /\ Sound(StopLEDLightControl)
      /\ Sound(StartAudioRecognizer) /\ Sound(StopAudioRecognizer)
  BY NothingSent, SoundRequest
  DEF OlderApis, StopAiChat, StartFaceTracking, StopFaceTracking, StopVisionService,
      StopCalibration, StopLEDLightControl, StartAudioRecognizer, StopAudioRecognizer
<1>2. /\ Sound(Speak) /\ Sound(StartTts) /\ Sound(SendTtsText) /\ Sound(X5ChangeMode)
  BY OneRequired, SoundRequest
  DEF OlderApis, Speak, SpeakParameter, StartTts, LuiTtsConfig, SendTtsText, LuiTtsParameter,
      X5ChangeMode, X5ChangeModeParameter
<1>3. Sound(StartAsr) /\ Sound(StopAsr) /\ Sound(StopTts)
  BY OlderClasses, SoundRequest
  DEF OlderApis, StartAsr, StopAsr, StopTts, LuiAsrStartRequest, LuiAsrStopRequest,
      LuiTtsStopRequest
<1>4. Sound(SetLEDLightColor) /\ Sound(SetLEDLightColors)
  BY OlderClasses, SoundRequest DEF OlderApis, SetLEDLightColor, SetLEDLightColors
<1> QED BY <1>1, <1>2, <1>3, <1>4

\* So the classes of every method of every client are as the lemmas on FromJson
\* need them.
LEMMA MethodsSound ==
  ASSUME NEW q \in Methods
  PROVE  Sound(q)
<1>1. CASE q \in LocoMethods
  BY <1>1, SoundShortRequests, SoundLongRequests, SoundOlderRequests, SoundOlderQueries, SoundQueries
  DEF LocoMethods
<1>2. CASE q \in ServiceMethods
  BY <1>2, SoundServiceRequests, SoundOlderRequests, SoundOlderQueries, SoundQueries, SoundCalibrations
  DEF ServiceMethods
<1> QED BY <1>1, <1>2 DEF Methods

-----------------------------------------------------------------------------
(* What callers pass and put on the wire.                                  *)

\* The marks of the calls, and the two values that are none of them.
LEMMA MarkTyped ==
  ASSUME NEW n \in Nat \ {0}
  PROVE  Mark(n) \in {"a", "b", "c"} /\ Mark(n) \in Marks /\ NaN \in Marks /\ Negative \in Marks
<1>1. Mark(n) \in {"a", "b", "c"}
  <2>1. 1 + (n % 3) \in 1 .. 3
    OBVIOUS
  <2> DEFINE t == <<"a", "b", "c">>
  <2>2. \A i \in 1 .. 3 : t[i] \in {"a", "b", "c"}
    OBVIOUS
  <2> QED BY <2>1, <2>2 DEF Mark
<1>2. \A i \in 1 .. 3 : <<"a", "b", "c">>[i] \in Marks
  <2>1. /\ 1 + (1 % 3) = 2 /\ 1 + (2 % 3) = 3 /\ 1 + (3 % 3) = 1
        /\ \A i \in 1 .. 3 : i = 1 \/ i = 2 \/ i = 3
    OBVIOUS
  <2>2. \A i \in {1, 2, 3} : Mark(i) \in Marks
    BY DEF Marks
  <2> QED BY <2>1, <2>2 DEF Mark
<1>3. Mark(n) \in Marks
  <2>1. 1 + (n % 3) \in 1 .. 3
    OBVIOUS
  <2> QED BY <1>2, <2>1 DEF Mark
<1>4. NaN \in Marks /\ Negative \in Marks
  BY DEF Marks
<1> QED BY <1>1, <1>3, <1>4

\* Values of at most two marks.
LEMMA MarkTuples ==
  ASSUME NEW S, NEW x \in S, NEW y \in S, NEW v, v \in {<<>>, <<x>>, <<y>>, <<x, y>>}
  PROVE  v \in Seq(S) /\ Len(v) \in Nat /\ Len(v) <= 2
<1>1. CASE v = <<>>
  BY <1>1
<1>2. CASE v = <<x>>
  BY <1>2
<1>3. CASE v = <<y>>
  BY <1>3
<1>4. CASE v = <<x, y>>
  BY <1>4
<1> QED BY <1>1, <1>2, <1>3, <1>4

\* A value of at most two marks.
TypedValues == {v \in Seq(Marks) : Len(v) <= 2}

\* The same values as members of TypedValues.
LEMMA SmallValues ==
  /\ <<>> \in TypedValues
  /\ \A x, y \in Marks : <<x>> \in TypedValues /\ <<x, y>> \in TypedValues
<1>1. ASSUME NEW x \in Marks, NEW y \in Marks, NEW v, v \in {<<>>, <<x>>, <<y>>, <<x, y>>}
      PROVE  v \in TypedValues
  BY <1>1, MarkTuples DEF TypedValues
<1>2. NaN \in Marks
  BY DEF Marks
<1> QED BY <1>1, <1>2

\* The values a caller passes for a field, by its type.
LEMMA ValueTyped ==
  ASSUME NEW n \in Nat \ {0}, NEW type \in ValueTypes, NEW v \in Values(type, n)
  PROVE  /\ v \in Seq(Marks) /\ Len(v) <= 2
         /\ type = "scalar" => v \in {<<>>, <<Mark(n)>>}
         /\ type = "signed" => v \in {<<>>, <<Mark(n)>>, <<NaN>>, <<Negative>>}
         /\ type = "array" => v \in {<<>>, <<Mark(n), Mark(n)>>}
<1> DEFINE a == Mark(n)
<1>1. a \in Marks /\ NaN \in Marks /\ Negative \in Marks
  BY MarkTyped
<1>2. /\ v \in {<<>>, <<a>>, <<NaN>>, <<Negative>>, <<a, a>>, <<a, NaN>>}
      /\ type = "scalar" => v \in {<<>>, <<a>>}
      /\ type = "signed" => v \in {<<>>, <<a>>, <<NaN>>, <<Negative>>}
      /\ type = "array" => v \in {<<>>, <<a, a>>}
  BY DEF Values, ValueTypes
<1> HIDE DEF a
<1>3. v \in Seq(Marks) /\ Len(v) <= 2
  BY <1>1, <1>2, MarkTuples
<1> QED BY <1>2, <1>3 DEF a

\* The objects callers and service make up.
LEMMA ObjectValues ==
  ASSUME NEW s, DOMAIN s = 1 .. Len(s), NEW n, NEW o \in Objects(s, n)
  PROVE  /\ o = [k \in Keys(s) |-> o[k]]
         /\ \A k \in Keys(s) : \/ o[k] = <<Mark(n)>>
                               \/ \E i \in 1 .. Len(s) : s[i].key = k /\ o[k] \in Values(s[i].type, n)
<1> DEFINE base == [k \in Keys(s) |-> <<Mark(n)>>]
<1>1. \/ o = base
      \/ \E i \in 1 .. Len(s) : \E v \in Values(s[i].type, n) : o = [base EXCEPT ![s[i].key] = v]
  BY DEF Objects
<1>2. CASE o = base
  BY <1>2
<1>3. ASSUME NEW i \in 1 .. Len(s), NEW v \in Values(s[i].type, n), o = [base EXCEPT ![s[i].key] = v]
      PROVE  /\ o = [k \in Keys(s) |-> o[k]]
             /\ \A k \in Keys(s) : o[k] = <<Mark(n)>> \/ (s[i].key = k /\ o[k] \in Values(s[i].type, n))
  BY <1>3
<1> QED BY <1>1, <1>2, <1>3

\* What a caller passes: one mark or none, or a value of the field's type.
Passed(s, n, o) ==
  /\ o = [k \in Keys(s) |-> o[k]]
  /\ \A k \in Keys(s) :
       \/ o[k] = <<Mark(n)>> \/ o[k] = <<>>
       \/ \E i \in 1 .. Len(s) : s[i].key = k /\ o[k] \in Values(s[i].type, n)

\* Every argument a method makes of what the caller passes is of that form.
LEMMA ArgumentsPassed ==
  ASSUME NEW q, DOMAIN q.req = 1 .. Len(q.req), NEW n, NEW a \in Arguments(q, n)
  PROVE  Passed(q.req, n, a)
<1> DEFINE s == q.req
           base == [k \in Keys(s) |-> <<Mark(n)>>]
<1>1. \E o \in (IF n = 1 THEN Objects(s, n) ELSE {base}) :
        a = [k \in Keys(s) |-> IF k \notin DOMAIN q.sets THEN o[k]
                               ELSE IF q.sets[k] THEN <<Mark(n)>> ELSE <<>>]
  BY DEF Arguments
<1>2. PICK o \in (IF n = 1 THEN Objects(s, n) ELSE {base}) :
        a = [k \in Keys(s) |-> IF k \notin DOMAIN q.sets THEN o[k]
                               ELSE IF q.sets[k] THEN <<Mark(n)>> ELSE <<>>]
  BY <1>1
<1>3. \A k \in Keys(s) : \/ o[k] = <<Mark(n)>>
                         \/ \E i \in 1 .. Len(s) : s[i].key = k /\ o[k] \in Values(s[i].type, n)
  <2>1. CASE n = 1
    BY <1>2, <2>1, ObjectValues
  <2>2. CASE n # 1
    BY <1>2, <2>2
  <2> QED BY <2>1, <2>2
<1>4. \A k \in Keys(s) : a[k] \in {o[k], <<Mark(n)>>, <<>>}
  BY <1>2
<1>5. a = [k \in Keys(s) |-> a[k]]
  BY <1>2
<1> HIDE DEF s
<1>6. Passed(s, n, a)
  BY <1>3, <1>4, <1>5 DEF Passed
<1> QED BY <1>6 DEF s

\* So all of its values are typed.
LEMMA PassedTyped ==
  ASSUME NEW s, NEW Opt, SentClass(s, Opt), NEW n \in Nat \ {0}, NEW o, Passed(s, n, o), NEW k \in Keys(s)
  PROVE  o[k] \in Seq(Marks) /\ Len(o[k]) <= 2
<1>1. Mark(n) \in Marks
  BY MarkTyped
<1>2. \A i \in 1 .. Len(s) : s[i].type \in ValueTypes
  BY DEF SentClass, SentField, ValueTypes
<1>3. CASE o[k] = <<Mark(n)>> \/ o[k] = <<>>
  BY <1>1, <1>3, MarkTuples
<1>4. ASSUME NEW i \in 1 .. Len(s), o[k] \in Values(s[i].type, n)
      PROVE  o[k] \in Seq(Marks) /\ Len(o[k]) <= 2
  BY <1>2, <1>4, ValueTyped
<1> QED BY <1>3, <1>4 DEF Passed

\* A key that would be skipped when null is not written as null: NaN is not
\* above zero, and the other such fields are no numbers.
LEMMA NotNullSent ==
  ASSUME NEW s, NEW Opt, SentClass(s, Opt), NEW n \in Nat \ {0}, NEW o, Passed(s, n, o),
         NEW i \in 1 .. Len(s), s[i].null = "skip", s[i].key \in DOMAIN ToJson(s, o)
  PROVE  Dump(o[s[i].key]) # Null
<1> DEFINE f == s[i]
           v == o[f.key]
           a == Mark(n)
<1>1. /\ DOMAIN s = 1 .. Len(s) /\ f.key \in Keys(s)
      /\ \A j \in 1 .. Len(s) : s[j].key = f.key => j = i
      /\ f.type \in {"scalar", "array"} \/ (f.written = "positive" /\ f.type = "signed")
  BY DEF SentClass, Keys
<1>2. Written(f, o)
  BY <1>1, WrittenKeys
<1>3. v \in {<<>>, <<a>>} \/ v \in Values(f.type, n)
  BY <1>1 DEF Passed
<1>4. v \in {<<>>, <<a>>, <<a, a>>}
  <2>1. CASE f.type \in {"scalar", "array"}
    BY <1>3, <2>1, ValueTyped DEF ValueTypes
  <2>2. CASE f.written = "positive" /\ f.type = "signed"
    BY <1>2, <1>3, <2>2, ValueTyped DEF ValueTypes, Written
  <2> QED BY <1>1, <2>1, <2>2
<1>5. a # NaN /\ a # "null"
  BY MarkTyped DEF NaN
<1> HIDE DEF v, a
<1>6. Dump(v) # Null
  <2>1. CASE v = <<>>
    BY <2>1 DEF Dump, Null, ToSet
  <2>2. CASE v = <<a>>
    BY <1>5, <2>2 DEF Dump, Null, ToSet
  <2>3. CASE v = <<a, a>>
    BY <1>5, <2>3 DEF Dump, Null, ToSet
  <2> QED BY <1>4, <2>1, <2>2, <2>3
<1> QED BY <1>6 DEF v

\* A peer of another version leaves keys out, and that is all.
LEMMA OlderKeys ==
  ASSUME NEW json, NEW j \in Older(json)
  PROVE  DOMAIN j \subseteq DOMAIN json /\ \A k \in DOMAIN j : j[k] = json[k]
BY DEF Older

\* What a call puts on the wire is a request as the lemmas on FromJson need it.
LEMMA CallSends ==
  ASSUME NEW q \in Methods, NEW n \in Nat \ {0}, NEW a \in Arguments(q, n),
         NEW w, w \in Older(ToJson(q.req, a)) \/ w = ToJson(q.req, a)
  PROVE  SentRequest(q.req, a, w, Optional(q)) /\ Passed(q.req, n, a)
<1> DEFINE s == q.req
           Opt == Optional(q)
<1>1. SentClass(s, Opt)
  BY MethodsSound DEF Sound
<1>2. DOMAIN s = 1 .. Len(s)
  BY <1>1 DEF SentClass
<1>3. Passed(s, n, a)
  BY <1>2, ArgumentsPassed
<1>4. DOMAIN w \subseteq DOMAIN ToJson(s, a) /\ \A k \in DOMAIN w : w[k] = ToJson(s, a)[k]
  BY OlderKeys
<1>5. \A k \in DOMAIN ToJson(s, a) : ToJson(s, a)[k] = Dump(a[k])
  BY DEF ToJson
<1>6. OnWire(s, a, w)
  BY <1>4, <1>5 DEF OnWire
<1>7. \A k \in Keys(s) : a[k] \in Seq(Marks)
  BY <1>1, <1>3, PassedTyped
<1>8. ASSUME NEW i \in 1 .. Len(s), s[i].null = "skip", s[i].key \in DOMAIN w
      PROVE  w[s[i].key] # Null
  BY <1>1, <1>3, <1>4, <1>5, <1>8, NotNullSent
<1> HIDE DEF s, Opt
<1>9. SentRequest(s, a, w, Opt)
  BY <1>1, <1>6, <1>7, <1>8 DEF SentRequest
<1> QED BY <1>3, <1>9 DEF s, Opt

-----------------------------------------------------------------------------
(* Requests.                                                               *)

\* A call is one of the methods, and its request is what the caller passed.
Calling ==
  /\ m \in Methods /\ resp = m.resp
  /\ calls \in 0 .. MaxCalls
  /\ pc \in {"idle", "sent", "replied"}
  /\ pc # "idle" => calls > 0

\* The request on the wire is the one the caller passed.
Requested == SentRequest(m.req, arg, wire, Optional(m))

\* The service has decoded the request when it has answered.
DecodedOnce ==
  /\ IF Served THEN got = FromJson(m.req, wire, Default(m.req)) ELSE got = NotServed
  /\ pc = "sent" => ~Served

\* The inductive invariant of the requests.
RequestInv == Calling /\ Requested /\ DecodedOnce

\* Before the first call nothing is on the wire.
LEMMA DefaultSent ==
  ASSUME NEW q \in Methods
  PROVE  SentRequest(q.req, Default(q.req), <<>>, Optional(q))
<1> DEFINE s == q.req
           Opt == Optional(q)
<1>1. SentClass(s, Opt)
  BY MethodsSound DEF Sound
<1>2. \A k \in Keys(s) : Default(s)[k] \in Seq(Marks)
  BY DEF Default
<1>3. DOMAIN <<>> = {}
  OBVIOUS
<1> HIDE DEF s, Opt
<1>4. SentRequest(s, Default(s), <<>>, Opt)
  BY <1>1, <1>2, <1>3 DEF SentRequest, OnWire
<1> QED BY <1>4 DEF s, Opt

\* The invariant of the requests holds before the first call.
LEMMA RequestInit == Init => RequestInv
<1> SUFFICES ASSUME Init PROVE RequestInv
  OBVIOUS
<1>1. Calling
  BY ApiAssumption DEF Init, Calling
<1>2. Requested
  BY <1>1, DefaultSent DEF Init, Calling, Requested
<1>3. DecodedOnce
  BY DEF Init, DecodedOnce, Served, NoReply
<1> QED BY <1>1, <1>2, <1>3 DEF RequestInv

\* A call establishes it for its own request.
LEMMA RequestCall == RequestInv /\ Call => RequestInv'
<1> SUFFICES ASSUME RequestInv, Call PROVE RequestInv'
  OBVIOUS
<1>1. Calling'
  BY ApiAssumption DEF RequestInv, Call, Calling
<1>2. Requested'
  <2>1. /\ m' \in Methods /\ calls' \in Nat \ {0} /\ arg' \in Arguments(m', calls')
        /\ wire' \in Older(ToJson(m'.req, arg')) \/ wire' = ToJson(m'.req, arg')
    BY <1>1, ApiAssumption DEF RequestInv, Call, Calling
  <2>2. SentRequest(m'.req, arg', wire', Optional(m'))
    BY <2>1, CallSends
  <2> QED BY <2>2 DEF Requested
<1>3. DecodedOnce'
  BY DEF Call, DecodedOnce, Served, NoReply
<1> QED BY <1>1, <1>2, <1>3 DEF RequestInv

\* Serving, timing out and returning keep it.
LEMMA RequestOther == RequestInv /\ (Serve \/ TimesOut \/ Return) => RequestInv'
<1> SUFFICES ASSUME RequestInv, Serve \/ TimesOut \/ Return PROVE RequestInv'
  OBVIOUS
<1>1. Calling'
  BY DEF RequestInv, Calling, Serve, TimesOut, Return
<1>2. m' = m /\ arg' = arg /\ wire' = wire
  BY DEF Serve, TimesOut, Return
<1>3. Requested'
  BY <1>2 DEF RequestInv, Requested, Optional
<1>4. DecodedOnce'
  <2>1. CASE Serve
    <3>1. got' = FromJson(m.req, wire, Default(m.req)) /\ reply'.status # "none" /\ pc' # "sent"
      BY <2>1 DEF Serve, Success
    <3> QED BY <1>2, <3>1 DEF DecodedOnce, Served
  <2>2. CASE TimesOut \/ Return
    <3>1. got' = got /\ reply' = reply /\ pc' = "idle"
      BY <2>2 DEF TimesOut, Return
    <3> QED BY <1>2, <3>1 DEF RequestInv, DecodedOnce, Served
  <2> QED BY <2>1, <2>2
<1> QED BY <1>1, <1>3, <1>4 DEF RequestInv

\* So every step does.
LEMMA RequestStep == RequestInv /\ [Next]_vars => RequestInv'
<1>1. CASE UNCHANGED vars
  BY <1>1 DEF vars, RequestInv, Calling, Requested, DecodedOnce, Optional, Served
<1> QED BY <1>1, RequestCall, RequestOther DEF Next

\* For every method and any number of calls, the request on the wire is what the
\* caller passed but for keys an older peer leaves out, and what the service has
\* got is that request decoded into a new object.
THEOREM RequestsKept == Spec => []RequestInv
BY RequestInit, RequestStep, PTL DEF Spec

\* By induction over the fields that FromJson reads, the invariant gives the
\* promise.
LEMMA RequestMeans == RequestInv => RequestUnderstood
<1> SUFFICES ASSUME RequestInv, Served, got.ok
    PROVE  /\ \A k \in Keys(m.req) : got.obj[k] = IF k \in DOMAIN wire THEN arg[k] ELSE <<>>
           /\ wire = ToJson(m.req, arg) =>
                \A k \in Keys(m.req) \ Withheld(m) : got.obj[k] = arg[k]
  BY DEF RequestUnderstood
<1> DEFINE s == m.req
           Opt == Optional(m)
<1>1. SentRequest(s, arg, wire, Opt) /\ got = FromJson(s, wire, Default(s))
  BY DEF RequestInv, Requested, DecodedOnce
<1>2. Withheld(m) = {k \in Keys(s) : \/ k[1] = "aux_posture" /\ arg[has_aux] = <<>>
                                     \/ k = <<"square_size_m">> /\ arg[k] \in {<<NaN>>, <<Negative>>}}
  BY DEF Withheld
<1> HIDE DEF s, Opt
<1>3. \A k \in Keys(s) : got.obj[k] = IF k \in DOMAIN wire THEN arg[k] ELSE <<>>
  BY <1>1, RequestRead DEF Sent
<1>4. ASSUME wire = ToJson(s, arg), NEW k \in Keys(s), k \notin Withheld(m)
      PROVE  got.obj[k] = arg[k]
  <2>1. SentClass(s, Opt)
    BY <1>1 DEF SentRequest
  <2>2. CASE k \in DOMAIN wire
    BY <1>3, <2>2
  <2>3. CASE k \notin DOMAIN wire
    <3>1. k \notin DOMAIN ToJson(s, arg)
      BY <1>4, <2>3
    <3>2. arg[k] = <<>>
      BY <1>2, <1>4, <2>1, <3>1, LeftOut
    <3> QED BY <1>3, <2>3, <3>2
  <2> QED BY <2>2, <2>3
<1> QED BY <1>3, <1>4 DEF s

\* For every method of every client, whatever the caller passes and whichever
\* keys an older peer leaves out: an accepted request gives the service each
\* field as it was passed or, left out, at its default; ToJson withholds only the
\* postures without has_aux and a square size that is no positive number.
THEOREM ServiceUnderstands == Spec => []RequestUnderstood
BY RequestsKept, RequestMeans, PTL

\* The service rejects only a request with a null in it or without a key it needs.
LEMMA OlderRequests ==
  ASSUME RequestInv, Served, DOMAIN ToJson(m.req, arg) \ DOMAIN wire \subseteq Optional(m)
  PROVE  got.ok \/ \E k \in DOMAIN wire : wire[k] = Null
<1> DEFINE s == m.req
           Opt == Optional(m)
<1>1. /\ SentRequest(s, arg, wire, Opt) /\ got = FromJson(s, wire, Default(s))
      /\ DOMAIN ToJson(s, arg) \ DOMAIN wire \subseteq Opt
  BY DEF RequestInv, Requested, DecodedOnce
<1> HIDE DEF s, Opt
<1> QED BY <1>1, RequestAccepted

-----------------------------------------------------------------------------
(* Decoding a reply.                                                       *)

\* An object with the keys D.
HasKeys(D, o) == o = [k \in D |-> o[k]]

\* FromJson keeps the keys of the object it is given.
LEMMA FromJsonKeys ==
  ASSUME NEW s, NEW json, NEW D, NEW o, Len(s) \in Nat, HasKeys(D, o)
  PROVE  /\ HasKeys(D, FromJson(s, json, o).obj)
         /\ FromJson(s, json, o) = [ok |-> FromJson(s, json, o).ok, obj |-> FromJson(s, json, o).obj]
<1>1. PICK a : Decoding(s, json, o, D, a) /\ FromJson(s, json, o) = a[Len(s)]
  BY FromJsonDecodes DEF HasKeys
<1>2. IsState(D, a[Len(s)])
  BY <1>1 DEF Decoding
<1> HIDE DEF FromJson
<1>3. IsState(D, FromJson(s, json, o))
  BY <1>1, <1>2
<1> QED BY <1>3 DEF IsState, HasKeys

\* So does DeviceInfo, for a wrapped catalog and a bare one.
LEMMA DeviceInfoKeys ==
  ASSUME NEW json, NEW o, HasKeys(Keys(DeviceInfo), o)
  PROVE  /\ HasKeys(Keys(DeviceInfo), DeviceInfoFromJson(json, o).obj)
         /\ DeviceInfoFromJson(json, o)
              = [ok |-> DeviceInfoFromJson(json, o).ok, obj |-> DeviceInfoFromJson(json, o).obj]
<1> DEFINE d == DeviceInfoFromJson(json, o)
<1>1. Keys(DeviceInfo) = {<<"kind">>, <<"body">>} /\ Len(DeviceInfo) \in Nat
  BY DEF Keys, DeviceInfo, Required, Field
<1>2. CASE {<<"kind">>, <<"body">>} \subseteq DOMAIN json
  BY <1>1, <1>2, FromJsonKeys DEF DeviceInfoFromJson
<1>3. CASE ~ ({<<"kind">>, <<"body">>} \subseteq DOMAIN json)
  <2> DEFINE c == KindAndBody(<<>>, json[<<"catalog">>])
  <2>1. HasKeys(Keys(DeviceInfo), c)
    BY DEF HasKeys, KindAndBody
  <2> HIDE DEF c
  <2>2. d = [ok |-> TRUE, obj |-> c]
    BY <1>3 DEF DeviceInfoFromJson, c
  <2> HIDE DEF d
  <2>3. HasKeys(Keys(DeviceInfo), d.obj) /\ d = [ok |-> d.ok, obj |-> d.obj]
    BY <2>1, <2>2
  <2> QED BY <2>3 DEF d
<1> QED BY <1>2, <1>3

\* A catalog gets its kind from the query.
LEMMA CatalogKeys ==
  ASSUME NEW kind, NEW json, NEW o, HasKeys(Keys(DeviceInfo), o)
  PROVE  /\ HasKeys(Keys(DeviceInfo), CatalogFromJson(kind, json, o).obj)
         /\ CatalogFromJson(kind, json, o).ok <=> DeviceInfoFromJson(json, o).ok
         /\ \A k \in Keys(DeviceInfo) :
              CatalogFromJson(kind, json, o).obj[k] =
                IF DeviceInfoFromJson(json, o).ok /\ k = <<"kind">> THEN <<kind>>
                ELSE DeviceInfoFromJson(json, o).obj[k]
<1> DEFINE d == DeviceInfoFromJson(json, o)
           e == [d EXCEPT !.obj[<<"kind">>] = <<kind>>]
           c == CatalogFromJson(kind, json, o)
<1>1. HasKeys(Keys(DeviceInfo), d.obj) /\ d = [ok |-> d.ok, obj |-> d.obj]
  BY DeviceInfoKeys
<1>2. c = IF d.ok THEN e ELSE d
  BY DEF CatalogFromJson, d, e
<1> HIDE DEF d, c
<1>3. e.obj = [d.obj EXCEPT ![<<"kind">>] = <<kind>>] /\ e.ok = d.ok
  BY <1>1
<1> HIDE DEF e
<1>4. /\ (c.ok <=> d.ok)
      /\ c.obj = IF d.ok THEN [d.obj EXCEPT ![<<"kind">>] = <<kind>>] ELSE d.obj
  BY <1>2, <1>3
<1>5. HasKeys(Keys(DeviceInfo), c.obj)
  BY <1>1, <1>4 DEF HasKeys
<1>6. \A k \in Keys(DeviceInfo) : c.obj[k] = IF d.ok /\ k = <<"kind">> THEN <<kind>> ELSE d.obj[k]
  BY <1>1, <1>4 DEF HasKeys
<1> QED BY <1>4, <1>5, <1>6 DEF d, c

\* The three ways of decoding.
LEMMA DecodedCases ==
  ASSUME NEW q, NEW json, NEW o
  PROVE  /\ json = Malformed => Decoded(q, json, o) = [ok |-> FALSE, obj |-> o]
         /\ json # Malformed /\ q.resp = DeviceInfo =>
              Decoded(q, json, o) = CatalogFromJson(q.kind, json, o)
         /\ json # Malformed /\ q.resp = DetectionList =>
              Decoded(q, json, o) = DetectionsFromJson(json, o)
         /\ json # Malformed /\ q.resp \notin {DeviceInfo, DetectionList} =>
              Decoded(q, json, o) = FromJson(q.resp, json, o)
<1>1. DeviceInfo # DetectionList
  <2>1. Len(DeviceInfo) = 2 /\ Len(DetectionList) = 1
    BY DEF DeviceInfo, DetectionList
  <2> QED BY <2>1
<1> QED BY <1>1 DEF Decoded

\* However a reply is decoded, the object keeps its keys.
LEMMA DecodedKeys ==
  ASSUME NEW q \in Methods, NEW json, NEW o, HasKeys(Keys(q.resp), o)
  PROVE  HasKeys(Keys(q.resp), Decoded(q, json, o).obj)
<1>1. CASE json = Malformed
  BY <1>1, DecodedCases
<1>2. CASE json # Malformed /\ q.resp = DeviceInfo
  <2>1. HasKeys(Keys(DeviceInfo), o)
    BY <1>2
  <2>2. HasKeys(Keys(DeviceInfo), CatalogFromJson(q.kind, json, o).obj)
    BY <2>1, CatalogKeys
  <2>3. Decoded(q, json, o) = CatalogFromJson(q.kind, json, o)
    BY <1>2, DecodedCases
  <2> QED BY <1>2, <2>2, <2>3
<1>3. CASE json # Malformed /\ q.resp = DetectionList
  <2>1. Keys(DetectionList) = {<<"objects">>}
    BY DEF Keys, DetectionList, Field
  <2>2. \A v : HasKeys({<<"objects">>}, Member(<<"objects">>, v))
    BY DEF HasKeys, Member
  <2>3. \E v : DetectionsFromJson(json, o).obj = Member(<<"objects">>, v)
    BY DEF DetectionsFromJson
  <2> QED BY <1>3, <2>1, <2>2, <2>3, DecodedCases
<1>4. CASE json # Malformed /\ q.resp \notin {DeviceInfo, DetectionList}
  <2>1. Len(q.resp) \in Nat
    BY MethodsSound DEF Sound, ReplyClass
  <2> QED BY <1>4, <2>1, DecodedCases, FromJsonKeys
<1> QED BY <1>1, <1>2, <1>3, <1>4

-----------------------------------------------------------------------------
(* Answers reach the call they belong to.                                  *)

\* What the service answers.
Statuses == {"none", Success, "kRpcStatusCodeServerRefused", "kRpcStatusCodeBadRequest"}

\* A successful reply is one of the service's to this call.
Answered ==
  /\ reply.status \in Statuses
  /\ reply.status = Success => reply.body \in Replies(m, calls)

\* The caller's object has the keys of its class, now and when the call began.
Shaped == HasKeys(Keys(resp), out) /\ HasKeys(Keys(resp), before)

\* What a query that got an answer has returned.
ReturnedReply ==
  Returned /\ ret \in {Success, "throw", "malformed"} =>
    \/ resp = NoBody /\ ret = Success
    \/ /\ resp # NoBody /\ reply.status = Success
       /\ out = Decoded(m, reply.body, before).obj
       /\ ret = Outcome(m, Decoded(m, reply.body, before))

\* The inductive invariant of the replies.
ReplyInv == RequestInv /\ OutKeptUntilReturn /\ Answered /\ Shaped /\ ReturnedReply

\* The invariant of the replies holds before the first call.
LEMMA ReplyInit == Init => ReplyInv
<1> SUFFICES ASSUME Init PROVE ReplyInv
  OBVIOUS
<1>1. RequestInv
  BY RequestInit
<1>2. Answered
  BY DEF Init, Answered, NoReply, Statuses, Success
<1>3. Shaped
  BY DEF Init, Shaped, HasKeys, Default
<1>4. OutKeptUntilReturn /\ ReturnedReply
  BY DEF Init, OutKeptUntilReturn, ReturnedReply, Returned
<1> QED BY <1>1, <1>2, <1>3, <1>4 DEF ReplyInv

\* A call keeps it, as it has returned nothing yet.
LEMMA ReplyCall == ReplyInv /\ Call => Answered' /\ Shaped' /\ ReturnedReply' /\ OutKeptUntilReturn'
<1> SUFFICES ASSUME ReplyInv, Call PROVE Answered' /\ Shaped' /\ ReturnedReply' /\ OutKeptUntilReturn'
  OBVIOUS
<1>1. Answered'
  BY DEF Call, Answered, NoReply, Statuses, Success
<1>2. Shaped'
  BY DEF Call, Shaped, ReplyInv
<1>3. OutKeptUntilReturn' /\ ReturnedReply'
  BY DEF Call, OutKeptUntilReturn, ReturnedReply, Returned
<1> QED BY <1>1, <1>2, <1>3

\* The answer of the service keeps it: the caller has not read any of it.
LEMMA ReplyServe == ReplyInv /\ Serve => Answered' /\ Shaped' /\ ReturnedReply' /\ OutKeptUntilReturn'
<1> SUFFICES ASSUME ReplyInv, Serve PROVE Answered' /\ Shaped' /\ ReturnedReply' /\ OutKeptUntilReturn'
  OBVIOUS
<1>1. m' = m /\ calls' = calls /\ resp' = resp /\ out' = out /\ before' = before /\ pc = "sent"
      /\ (pc' = IF m.waits THEN "replied" ELSE "idle")
  BY DEF Serve
<1>2. Answered'
  <2>1. \/ \E b \in Replies(m, calls) : reply' = [status |-> Success, body |-> b]
        \/ reply' = [status |-> "kRpcStatusCodeServerRefused", body |-> <<>>]
        \/ reply' = [status |-> "kRpcStatusCodeBadRequest", body |-> <<>>]
    BY DEF Serve
  <2>2. Replies(m, calls)' = Replies(m, calls)
    BY <1>1 DEF Replies, Catalogs
  <2> QED BY <2>1, <2>2 DEF Answered, Statuses, Success
<1>3. Shaped' /\ OutKeptUntilReturn'
  BY <1>1 DEF Shaped, OutKeptUntilReturn, ReplyInv
<1>4. ReturnedReply'
  BY <1>1 DEF ReturnedReply, Returned
<1> QED BY <1>2, <1>3, <1>4

\* A timeout keeps it, and leaves the caller's object alone.
LEMMA ReplyTimesOut == ReplyInv /\ TimesOut => Answered' /\ Shaped' /\ ReturnedReply' /\ OutKeptUntilReturn'
<1> SUFFICES ASSUME ReplyInv, TimesOut PROVE Answered' /\ Shaped' /\ ReturnedReply' /\ OutKeptUntilReturn'
  OBVIOUS
<1>1. /\ m' = m /\ calls' = calls /\ resp' = resp /\ out' = out /\ before' = before /\ reply' = reply
      /\ pc' = "idle" /\ ret' = "kRpcStatusCodeTimeout"
  BY DEF TimesOut
<1>2. Answered'
  BY <1>1 DEF Answered, ReplyInv, Replies, Catalogs
<1>3. Shaped' /\ OutKeptUntilReturn'
  BY <1>1 DEF Shaped, OutKeptUntilReturn, ReplyInv
<1>4. ReturnedReply'
  BY <1>1 DEF ReturnedReply, Returned, Success
<1> QED BY <1>2, <1>3, <1>4

\* The return keeps it: it decodes the reply into the caller's object.
LEMMA ReplyReturn == ReplyInv /\ Return => Answered' /\ Shaped' /\ ReturnedReply' /\ OutKeptUntilReturn'
<1> SUFFICES ASSUME ReplyInv, Return PROVE Answered' /\ Shaped' /\ ReturnedReply' /\ OutKeptUntilReturn'
  OBVIOUS
<1> DEFINE d == Decoded(m, reply.body, out)
<1>1. /\ m' = m /\ calls' = calls /\ resp' = resp /\ before' = before /\ reply' = reply
      /\ pc = "replied" /\ pc' = "idle"
      /\ IF m.resp = NoBody \/ reply.status # Success
           THEN ret' = reply.status /\ out' = out
           ELSE out' = d.obj /\ ret' = Outcome(m, d)
  BY DEF Return
<1>2. m \in Methods /\ resp = m.resp /\ out = before
  BY <1>1 DEF ReplyInv, RequestInv, Calling, OutKeptUntilReturn
<1>3. Answered'
  BY <1>1 DEF Answered, ReplyInv, Replies, Catalogs
<1>4. HasKeys(Keys(resp), d.obj)
  BY <1>2, DecodedKeys DEF ReplyInv, Shaped
<1> HIDE DEF d
<1>5. Shaped'
  BY <1>1, <1>2, <1>4 DEF Shaped, ReplyInv
<1>6. ReturnedReply'
  <2>1. CASE m.resp = NoBody \/ reply.status # Success
    <3>1. ret' = reply.status /\ reply.status \in Statuses
      BY <1>1, <2>1 DEF ReplyInv, Answered
    <3>2. CASE ret' = Success
      BY <1>1, <1>2, <2>1, <3>1, <3>2 DEF ReturnedReply
    <3>3. CASE ret' # Success
      <4>1. ret' \notin {Success, "throw", "malformed"}
        BY <3>1, <3>3 DEF Statuses
      <4> QED BY <4>1 DEF ReturnedReply
    <3> QED BY <3>2, <3>3
  <2>2. CASE ~ (m.resp = NoBody \/ reply.status # Success)
    <3>1. d = Decoded(m', reply'.body, before')
      BY <1>1, <1>2 DEF d
    <3> QED BY <1>1, <1>2, <2>2, <3>1 DEF ReturnedReply
  <2> QED BY <2>1, <2>2
<1>7. OutKeptUntilReturn'
  BY <1>1 DEF OutKeptUntilReturn
<1> QED BY <1>3, <1>5, <1>6, <1>7

\* So every step does.
LEMMA ReplyStep == ReplyInv /\ [Next]_vars => ReplyInv'
<1>1. ReplyInv /\ [Next]_vars => RequestInv'
  BY RequestStep DEF ReplyInv
<1>2. ReplyInv /\ UNCHANGED vars => Answered' /\ Shaped' /\ ReturnedReply' /\ OutKeptUntilReturn'
  BY DEF vars, ReplyInv, Answered, Shaped, ReturnedReply, OutKeptUntilReturn, Returned, Replies, Catalogs
<1> QED BY <1>1, <1>2, ReplyCall, ReplyServe, ReplyTimesOut, ReplyReturn DEF Next, ReplyInv

\* For every method and any number of calls, a query that returns success or
\* throws has decoded the service's answer to this very call, into the object as
\* it was when the call began.
THEOREM RepliesKept == Spec => []ReplyInv
BY ReplyInit, ReplyStep, PTL DEF Spec

\* What a method's classes are, for the calls that read a reply.
LEMMA ReplyClasses ==
  ASSUME NEW q \in Methods
  PROVE  /\ ReplyClass(q.resp, Optional(q)) /\ Len(q.resp) \in Nat
         /\ Polled(q.resp) \/ Fresh(q.resp)
         /\ q.resp \in Calibrations <=> ~Fresh(q.resp)
BY MethodsSound, FreshNotPolled DEF Sound, ReplyClass

\* A query throws only for a body that is no JSON, a null, or a missing key.
LEMMA ThrownReply ==
  ASSUME NEW q \in Methods, NEW json, json # Malformed, NEW o, HasKeys(Keys(q.resp), o),
         Outcome(q, Decoded(q, json, o)) = "throw",
         Keys(q.resp) \subseteq DOMAIN json \cup Optional(q)
  PROVE  \E k \in DOMAIN json : json[k] = Null
<1> SUFFICES ASSUME \A k \in DOMAIN json : json[k] # Null PROVE FALSE
  OBVIOUS
<1>1. ~Decoded(q, json, o).ok /\ q.resp # DetectionList
  BY DEF Outcome, Success
<1>2. FromJson(q.resp, json, o).ok
  BY ReplyClasses, ReplyAccepted DEF HasKeys
<1>3. CASE q.resp = DeviceInfo
  <2>1. DeviceInfoFromJson(json, o).ok
    BY <1>2, <1>3 DEF DeviceInfoFromJson
  <2>2. CatalogFromJson(q.kind, json, o).ok
    BY <1>3, <2>1, CatalogKeys
  <2> QED BY <1>1, <1>3, <2>2, DecodedCases
<1>4. CASE q.resp # DeviceInfo
  BY <1>1, <1>2, <1>4, DecodedCases
<1> QED BY <1>3, <1>4

\* With what is known of requests that lack keys, the promise to older peers.
LEMMA OlderMeans == ReplyInv => OlderPeerUnderstood
<1> SUFFICES ASSUME ReplyInv PROVE OlderPeerUnderstood
  OBVIOUS
<1>1. RequestInv
  BY DEF ReplyInv
<1>2. ASSUME Returned, ret = "throw"
      PROVE  \/ reply.body = Malformed
             \/ ~ (Keys(resp) \subseteq DOMAIN reply.body \cup Optional(m))
             \/ \E k \in DOMAIN reply.body : reply.body[k] = Null
  <2>1. m \in Methods /\ resp = m.resp
    BY <1>1 DEF RequestInv, Calling
  <2>2. ret = Outcome(m, Decoded(m, reply.body, before))
    BY <1>2 DEF ReplyInv, ReturnedReply, Success
  <2>3. HasKeys(Keys(m.resp), before)
    BY <2>1 DEF ReplyInv, Shaped
  <2> QED BY <1>2, <2>1, <2>2, <2>3, ThrownReply
<1>3. Served /\ DOMAIN ToJson(m.req, arg) \ DOMAIN wire \subseteq Optional(m) =>
        got.ok \/ \E k \in DOMAIN wire : wire[k] = Null
  BY <1>1, OlderRequests
<1> QED BY <1>2, <1>3 DEF OlderPeerUnderstood

\* For every method, any keys a peer leaves out of those documented as optional
\* and any object of the caller: neither side throws unless the JSON is malformed
\* or holds a null, as dump() writes a NaN.
THEOREM OlderPeersUnderstood == Spec => []OlderPeerUnderstood
BY RepliesKept, OlderMeans, PTL

-----------------------------------------------------------------------------
(* What one reply leaves in an object that may hold an earlier one.        *)

\* A reply that does not throw gives every field of such a class a value.
LEMMA FreshAssigned ==
  ASSUME NEW s, Fresh(s), NEW json, NEW o, HasKeys(Keys(s), o), FromJson(s, json, o).ok
  PROVE  \A i \in 1 .. Len(s) : Assigns(s[i], json)
<1>1. PICK a : Decoding(s, json, o, Keys(s), a) /\ FromJson(s, json, o) = a[Len(s)]
  BY FromJsonDecodes DEF HasKeys, Fresh
<1>2. \A i \in 0 .. Len(s) : a[i].ok
  BY <1>1, OkBefore
<1> TAKE i \in 1 .. Len(s)
<1>3. ~Throws(s[i], json, a[i - 1].obj)
  BY <1>1, <1>2 DEF Decoding, FieldRead
<1>4. s[i].absent \in {"throw", "default"} /\ (s[i].absent = "throw" => s[i].null # "skip")
  BY DEF Fresh
<1> QED BY <1>3, <1>4 DEF Throws, Ignored, Assigns

\* Two callers who read one reply: the fields it has are the same.
LEMMA SameFresh ==
  ASSUME NEW s, Fresh(s), ReplyClass(s, {}), NEW json, NEW o, HasKeys(Keys(s), o),
         NEW q, HasKeys(Keys(s), q), FromJson(s, json, o).ok, NEW k \in Keys(s)
  PROVE  FromJson(s, json, o).obj[k] = FromJson(s, json, q).obj[k]
<1>1. SameReading(s, json, Len(s), o, FromJson(s, json, o).obj, q, FromJson(s, json, q).obj)
  BY ReadingsAgree DEF HasKeys
<1>2. PICK i \in 1 .. Len(s) : s[i].key = k
  BY DEF Keys, Fresh
<1>3. Assigns(s[i], json)
  BY FreshAssigned
<1> QED BY <1>1, <1>2, <1>3 DEF SameReading

\* The same for a class whose fields keep their value: those the reply lacks are
\* the caller's own.
LEMMA SamePolled ==
  ASSUME NEW s, Polled(s), NEW json, NEW o, HasKeys(Keys(s), o),
         NEW q, HasKeys(Keys(s), q), FromJson(s, json, o).ok, NEW k \in Keys(s)
  PROVE  IF \E i \in 1 .. Len(s) : s[i].key = k /\ s[i].from \in DOMAIN json /\ json[s[i].from] # Null
           THEN FromJson(s, json, o).obj[k] = FromJson(s, json, q).obj[k]
           ELSE FromJson(s, json, o).obj[k] = o[k]
<1>1. SameReading(s, json, Len(s), o, FromJson(s, json, o).obj, q, FromJson(s, json, q).obj)
  BY PolledReply, ReadingsAgree DEF HasKeys
<1>2. \A i \in 1 .. Len(s) : Assigns(s[i], json) <=> s[i].from \in DOMAIN json /\ json[s[i].from] # Null
  BY DEF Assigns, Polled
<1> QED BY <1>1, <1>2 DEF SameReading

\* A class without keys that may be missing.
LEMMA FreshIsReply ==
  ASSUME NEW s, Fresh(s)
  PROVE  ReplyClass(s, {})
BY FreshReply

\* The same for a catalog, wrapped or not.
LEMMA SameCatalog ==
  ASSUME NEW kind, NEW json, NEW o, HasKeys(Keys(DeviceInfo), o), NEW q, HasKeys(Keys(DeviceInfo), q),
         CatalogFromJson(kind, json, o).ok, NEW k \in Keys(DeviceInfo)
  PROVE  CatalogFromJson(kind, json, o).obj[k] = CatalogFromJson(kind, json, q).obj[k]
<1> DEFINE s == DeviceInfo
           d == DeviceInfoFromJson(json, o)
           e == DeviceInfoFromJson(json, q)
<1>1. Fresh(s) /\ ReplyClass(s, {})
  BY FreshReplies, FreshIsReply
<1> DEFINE c == CatalogFromJson(kind, json, o)
           f == CatalogFromJson(kind, json, q)
<1>2. /\ (c.ok <=> d.ok) /\ c.obj[k] = IF d.ok /\ k = <<"kind">> THEN <<kind>> ELSE d.obj[k]
      /\ (f.ok <=> e.ok) /\ f.obj[k] = IF e.ok /\ k = <<"kind">> THEN <<kind>> ELSE e.obj[k]
  BY CatalogKeys
<1>3. d.ok
  BY <1>2
<1>4. e.ok /\ d.obj[k] = e.obj[k]
  <2>1. CASE {<<"kind">>, <<"body">>} \subseteq DOMAIN json
    <3>1. d = FromJson(s, json, o) /\ e = FromJson(s, json, q)
      BY <2>1 DEF DeviceInfoFromJson
    <3>2. /\ FromJson(s, json, o).ok /\ k \in Keys(s)
          /\ HasKeys(Keys(s), o) /\ HasKeys(Keys(s), q)
      BY <1>3, <3>1
    <3> HIDE DEF d, e, s
    <3>3. FromJson(s, json, o).obj[k] = FromJson(s, json, q).obj[k]
      BY <1>1, <3>2, SameFresh
    <3>4. FromJson(s, json, q).ok
      BY <1>1, <3>2, ReadingsAgree DEF HasKeys
    <3> QED BY <3>1, <3>3, <3>4
  <2>2. CASE ~ ({<<"kind">>, <<"body">>} \subseteq DOMAIN json)
    BY <2>2 DEF DeviceInfoFromJson
  <2> QED BY <2>1, <2>2
<1> HIDE DEF d, e
<1>5. c.obj[k] = f.obj[k]
  BY <1>2, <1>3, <1>4
<1> QED BY <1>5

\* A successful query.
LEMMA SuccessfulReply ==
  ASSUME NEW q \in Methods, NEW json, NEW o, HasKeys(Keys(q.resp), o), q.resp # DetectionList,
         Decoded(q, json, o).ok, NEW k \in Keys(q.resp)
  PROVE  Decoded(q, json, o).obj[k] =
           IF /\ q.resp \in Calibrations
              /\ ~ \E i \in 1 .. Len(q.resp) : /\ q.resp[i].key = k /\ q.resp[i].from \in DOMAIN json
                                               /\ json[q.resp[i].from] # Null
             THEN o[k]
             ELSE Decoded(q, json, Default(q.resp)).obj[k]
<1> DEFINE s == q.resp
           z == Default(s)
           carried == \E i \in 1 .. Len(s) : /\ s[i].key = k /\ s[i].from \in DOMAIN json
                                             /\ json[s[i].from] # Null
<1>1. json # Malformed
  BY DecodedCases
<1>2. HasKeys(Keys(s), z)
  BY DEF HasKeys, Default
<1>3. CASE s = DeviceInfo
  <2>1. s \notin Calibrations
    BY <1>3, FreshReplies, FreshNotPolled
  <2>2. /\ Decoded(q, json, o) = CatalogFromJson(q.kind, json, o)
        /\ Decoded(q, json, z) = CatalogFromJson(q.kind, json, z)
    BY <1>1, <1>3, DecodedCases
  <2>3. Decoded(q, json, o).obj[k] = Decoded(q, json, z).obj[k]
    BY <1>2, <1>3, <2>2, SameCatalog
  <2> QED BY <2>1, <2>3
<1>4. CASE s # DeviceInfo
  <2>1. Decoded(q, json, o) = FromJson(s, json, o) /\ Decoded(q, json, z) = FromJson(s, json, z)
    BY <1>1, <1>4, DecodedCases
  <2>2. FromJson(s, json, o).ok
    BY <2>1
  <2> HIDE DEF z
  <2>3. CASE s \in Calibrations
    <3>1. Polled(s)
      BY <2>3, CalibrationsPolled
    <3>2. IF carried THEN FromJson(s, json, o).obj[k] = FromJson(s, json, z).obj[k]
                     ELSE FromJson(s, json, o).obj[k] = o[k]
      BY <1>2, <2>2, <3>1, SamePolled
    <3> QED BY <2>1, <2>3, <3>2 DEF z
  <2>4. CASE s \notin Calibrations
    <3>1. Fresh(s) /\ ReplyClass(s, {})
      BY <2>4, ReplyClasses, FreshIsReply
    <3>2. FromJson(s, json, o).obj[k] = FromJson(s, json, z).obj[k]
      BY <1>2, <2>2, <3>1, SameFresh
    <3> QED BY <2>1, <2>4, <3>2 DEF z
  <2> QED BY <2>3, <2>4
<1> QED BY <1>3, <1>4

\* So the caller's object is what the promise says.
LEMMA ReplyMeans == ReplyInv => OutIsReply
<1> SUFFICES ASSUME ReplyInv, Returned, ret = Success, resp \notin {NoBody, DetectionList},
                    NEW k \in Keys(resp)
    PROVE  out[k] = IF KeepsMissing /\ ~Carried(k) THEN before[k]
                    ELSE Decoded(m, reply.body, Default(resp)).obj[k]
  BY DEF OutIsReply
<1> DEFINE d == Decoded(m, reply.body, before)
<1>1. m \in Methods /\ resp = m.resp /\ HasKeys(Keys(m.resp), before)
  BY DEF ReplyInv, RequestInv, Calling, Shaped
<1>2. out = d.obj /\ ret = Outcome(m, d)
  BY DEF ReplyInv, ReturnedReply
<1>3. d.ok
  BY <1>2 DEF Outcome, Success
<1>4. DOMAIN resp = 1 .. Len(resp)
  BY <1>1, ReplyClasses DEF ReplyClass
<1>5. KeepsMissing <=> m.resp \in Calibrations
  BY <1>1 DEF KeepsMissing, Calibrations
<1>6. Carried(k) <=> \E i \in 1 .. Len(m.resp) : /\ m.resp[i].key = k
                                                 /\ m.resp[i].from \in DOMAIN reply.body
                                                 /\ reply.body[m.resp[i].from] # Null
  BY <1>1, <1>4 DEF Carried
<1> HIDE DEF d
<1>7. d.obj[k] = IF KeepsMissing /\ ~Carried(k) THEN before[k]
                 ELSE Decoded(m, reply.body, Default(resp)).obj[k]
  BY <1>1, <1>3, <1>5, <1>6, SuccessfulReply DEF d
<1> QED BY <1>2, <1>7

\* For every method but the list of detections, any number of calls with one
\* output object and any reply: after success each field is what a new object
\* would hold. Only the calibration queries keep a field, and only when this
\* reply had no key for it.
THEOREM RepliesNotMixed == Spec => []OutIsReply
BY RepliesKept, ReplyMeans, PTL

-----------------------------------------------------------------------------
(* Lists of detections.                                                    *)

\* The items of a list of detections: no mark in them is one JSON cannot hold.
IsItem(it) ==
  /\ DOMAIN it \subseteq Keys(DetectResults)
  /\ \A k \in DOMAIN it : /\ (\E S : it[k] \in Seq(S)) /\ NaN \notin ToSet(it[k])
                          /\ it[k] = Null \/ it[k] \in TypedValues

\* A list of such items.
IsItems(items) ==
  /\ Len(items) \in Nat /\ DOMAIN items = 1 .. Len(items)
  /\ \A i \in 1 .. Len(items) : IsItem(items[i])

\* An item decoded into a new object.
DetectionOf(it) == FromJson(DetectResults, it, Default(DetectResults))

\* DetectResults writes all of its fields, and skips none.
LEMMA DetectClass ==
  /\ SentClass(DetectResults, {})
  /\ \A i \in 1 .. Len(DetectResults) : /\ DetectResults[i].written = "always"
                                        /\ DetectResults[i].null # "skip"
<1> DEFINE s == DetectResults
<1>1. Len(s) = 8 /\ DOMAIN s = 1 .. 8
  BY DEF DetectResults
<1>2. \A i \in 1 .. 8 : SentField(s[i], {}) /\ s[i].absent = "keep" /\ s[i].null = "throw" /\ s[i].written = "always"
  BY DEF DetectResults, SentField, Kept, KeptNumber, KeptNumbers, KeptArray, Field
<1> HIDE DEF s
<1>3. SentClass(s, {}) /\ \A i \in 1 .. Len(s) : s[i].written = "always" /\ s[i].null # "skip"
  BY <1>1, <1>2 DEF SentClass
<1> QED BY <1>3 DEF s

\* A field an item does not carry is what it is in a new object.
LEMMA ItemRead ==
  ASSUME NEW it, IsItem(it), DetectionOf(it).ok
  PROVE  \A k \in Keys(DetectResults) : DetectionOf(it).obj[k] = IF k \in DOMAIN it THEN it[k] ELSE <<>>
<1> DEFINE s == DetectResults
           o == [k \in Keys(s) |-> IF k \in DOMAIN it THEN it[k] ELSE <<>>]
<1>1. SentClass(s, {}) /\ \A i \in 1 .. Len(s) : s[i].written = "always" /\ s[i].null # "skip"
  BY DetectClass
<1>2. DOMAIN it \subseteq Keys(s) /\ \A k \in DOMAIN it : (\E S : it[k] \in Seq(S)) /\ NaN \notin ToSet(it[k])
  BY DEF IsItem
<1>3. DetectionOf(it) = FromJson(s, it, Default(s))
  BY DEF DetectionOf
<1> HIDE DEF s
<1>4. DOMAIN ToJson(s, o) = Keys(s)
  <2> HIDE DEF o
  <2>1. DOMAIN s = 1 .. Len(s)
    BY <1>1 DEF SentClass
  <2>2. \A i \in 1 .. Len(s) : Written(s[i], o)
    BY <1>1 DEF Written
  <2> QED BY <2>1, <2>2 DEF ToJson, Keys
<1>5. \A k \in DOMAIN it : it[k] = Dump(o[k])
  BY <1>2 DEF Dump
<1>6. \A k \in Keys(s) : \E S : o[k] \in Seq(S)
  <2> TAKE k \in Keys(s)
  <2>1. CASE k \in DOMAIN it
    BY <1>2, <2>1
  <2>2. CASE k \notin DOMAIN it
    <3>1. o[k] = <<>>
      BY <2>2
    <3> HIDE DEF o
    <3>2. o[k] \in Seq({})
      BY <3>1
    <3> QED BY <3>2
  <2> QED BY <2>1, <2>2
<1>7. \A k \in Keys(s) : Sent(o, it, k) = IF k \in DOMAIN it THEN it[k] ELSE <<>>
  BY DEF Sent
<1> HIDE DEF o
<1>8. SentRequest(s, o, it, {})
  BY <1>1, <1>2, <1>4, <1>5, <1>6 DEF SentRequest, OnWire
<1>9. \A k \in Keys(s) : FromJson(s, it, Default(s)).obj[k] = Sent(o, it, k)
  BY <1>3, <1>8, RequestRead
<1>10. \A k \in Keys(s) : DetectionOf(it).obj[k] = IF k \in DOMAIN it THEN it[k] ELSE <<>>
  BY <1>3, <1>7, <1>9
<1> QED BY <1>10 DEF s

\* The items up to the first that throws.
LEMMA ItemsDecoded ==
  ASSUME NEW items, Len(items) \in Nat, DOMAIN items = 1 .. Len(items)
  PROVE  \E n \in 0 .. Len(items) :
           /\ DecodedItems(items).list = [i \in 1 .. n |-> DetectionOf(items[i]).obj]
           /\ IF DecodedItems(items).ok THEN n = Len(items) ELSE n < Len(items)
           /\ \A i \in 1 .. n : DetectionOf(items[i]).ok
<1> DEFINE bad == {i \in DOMAIN items : ~DetectionOf(items[i]).ok}
           count == IF bad = {} THEN Len(items) ELSE Min(bad) - 1
<1>1. DecodedItems(items) = [ok |-> bad = {}, list |-> [i \in 1 .. count |-> DetectionOf(items[i]).obj]]
  BY DEF DecodedItems, DetectionOf
<1>2. /\ count \in 0 .. Len(items)
      /\ bad = {} => count = Len(items)
      /\ bad # {} => count < Len(items)
      /\ \A i \in 1 .. count : i \notin bad
  <2>1. CASE bad = {}
    BY <2>1
  <2>2. CASE bad # {}
    <3>1. bad \subseteq Nat /\ bad \subseteq 1 .. Len(items)
      OBVIOUS
    <3>2. \E x \in bad : \A y \in bad : x <= y
      <4> HIDE DEF bad
      <4> QED BY <2>2, <3>1, LeastNumber
    <3>3. Min(bad) \in bad /\ \A y \in bad : Min(bad) <= y
      <4> HIDE DEF bad
      <4> QED BY <3>2 DEF Min
    <3>4. count = Min(bad) - 1
      BY <2>2
    <3> HIDE DEF bad, count
    <3>5. Min(bad) \in 1 .. Len(items)
      BY <3>1, <3>3
    <3>6. \A i \in 1 .. count : i \notin bad
      BY <3>3, <3>4, <3>5
    <3> QED BY <2>2, <3>4, <3>5, <3>6
  <2> QED BY <2>1, <2>2
<1>3. \A i \in 1 .. count : DetectionOf(items[i]).ok
  BY <1>2
<1>4. /\ DecodedItems(items).list = [i \in 1 .. count |-> DetectionOf(items[i]).obj]
      /\ DecodedItems(items).ok <=> bad = {}
  <2> DEFINE b == (bad = {})
             l == [i \in 1 .. count |-> DetectionOf(items[i]).obj]
  <2>1. DecodedItems(items) = [ok |-> b, list |-> l]
    BY <1>1
  <2> HIDE DEF b, l
  <2>2. DecodedItems(items).list = l /\ (DecodedItems(items).ok <=> b)
    BY <2>1
  <2> QED BY <2>2 DEF b, l
<1> HIDE DEF count, bad
<1> QED BY <1>2, <1>3, <1>4

\* The list in a reply of the service.
LEMMA ListOfReply ==
  ASSUME NEW n \in Nat \ {0}, NEW json \in Detections(n)
  PROVE  IsItems(ItemsOf(json)) /\ Len(ItemsOf(json)) <= 2
<1> DEFINE base == [k \in Keys(DetectResults) |-> <<Mark(n)>>]
           items == {base, [k \in DOMAIN base \ {<<"position">>} |-> base[k]],
                     [base EXCEPT ![<<"conf">>] = Null], <<>>}
<1>1. \/ \E shape \in {<<"array">>, <<"objects">>} : \E i \in 0 .. 2 : \E s \in [1 .. i -> items] :
           json = Member(shape, s)
      \/ json = Member(<<"message">>, <<Mark(n)>>)
  <2> DEFINE U == UNION {[1 .. i -> items] : i \in 0 .. 2}
             X == {<<"array">>, <<"objects">>}
             W == {Member(shape, s) : shape \in X, s \in U}
             M == Member(<<"message">>, <<Mark(n)>>)
  <2>1. Detections(n) = W \cup {M}
    BY DEF Detections
  <2>2. json \in W \cup {M}
    <3> HIDE DEF W, M
    <3> QED BY <2>1
  <2> HIDE DEF U, X
  <2>4. json \in W => \E shape \in X : \E s \in U : json = Member(shape, s)
    OBVIOUS
  <2>5. json \in W \/ json = M
    <3> HIDE DEF W, M
    <3> QED BY <2>2
  <2>3. \A s \in U : \E i \in 0 .. 2 : s \in [1 .. i -> items]
    BY DEF U
  <2> HIDE DEF W, items
  <2>6. \/ \E shape \in X : \E i \in 0 .. 2 : \E s \in [1 .. i -> items] : json = Member(shape, s)
        \/ json = M
    BY <2>3, <2>4, <2>5
  <2> QED BY <2>6 DEF X
<1>2. \A it \in items : IsItem(it)
  <2>1. Mark(n) # NaN
    BY MarkTyped DEF NaN
  <2>2. NaN \notin ToSet(<<Mark(n)>>) /\ NaN \notin ToSet(Null)
    BY <2>1 DEF ToSet, Null, NaN
  <2>3. /\ \E S : <<Mark(n)>> \in Seq(S)
        /\ \E S : Null \in Seq(S)
    <3>1. <<Mark(n)>> \in Seq({Mark(n)}) /\ Null \in Seq({"null"})
      BY DEF Null
    <3> QED BY <3>1
  <2> TAKE it \in items
  <2>4. /\ DOMAIN it \subseteq Keys(DetectResults)
        /\ \A k \in DOMAIN it : it[k] = <<Mark(n)>> \/ it[k] = Null
    OBVIOUS
  <2>5. <<Mark(n)>> \in TypedValues
    BY MarkTyped, SmallValues
  <2> QED BY <2>2, <2>3, <2>4, <2>5 DEF IsItem
<1> HIDE DEF items
<1>3. ASSUME NEW shape \in {<<"array">>, <<"objects">>}, NEW i \in 0 .. 2, NEW s \in [1 .. i -> items],
             json = Member(shape, s)
      PROVE  ItemsOf(json) = s
  BY <1>3 DEF ItemsOf, Member
<1>4. ASSUME json = Member(<<"message">>, <<Mark(n)>>)
      PROVE  ItemsOf(json) = <<>>
  BY <1>4 DEF ItemsOf, Member
<1>5. ASSUME NEW i \in 0 .. 2, NEW s \in [1 .. i -> items]
      PROVE  IsItems(s) /\ Len(s) <= 2
  <2>1. Len(s) = i /\ DOMAIN s = 1 .. i
    BY SeqOfFunction
  <2> QED BY <1>2, <2>1 DEF IsItems
<1>6. IsItems(<<>>) /\ Len(<<>>) <= 2
  BY DEF IsItems
<1> QED BY <1>1, <1>3, <1>4, <1>5, <1>6

\* A JSON reply to GetDetectionObject is one of those lists.
LEMMA DetectionReply ==
  ASSUME NEW q, q.resp = DetectionList, NEW n, NEW json \in Replies(q, n), json # Malformed
  PROVE  json \in Detections(n)
<1>1. Len(DetectionList) = 1 /\ Len(NoBody) = 0 /\ Len(DeviceInfo) = 2
  BY DEF DetectionList, NoBody, DeviceInfo
<1>2. q.resp # NoBody /\ q.resp # DeviceInfo
  BY <1>1
<1>3. Replies(q, n) = {Malformed} \cup Detections(n)
  BY <1>2 DEF Replies
<1> QED BY <1>3

\* What the decoder that catches exceptions leaves in the caller's list.
LEMMA DetectionsMean == ReplyInv => DetectionsOfReply
<1> DEFINE body == reply.body
           items == ItemsOf(body)
           list == out[<<"objects">>]
           r == DecodedItems(items)
           d == Decoded(m, body, before)
<1> SUFFICES ASSUME ReplyInv, Returned, resp = DetectionList, ret \in {Success, "malformed"}
    PROVE  IF body = Malformed THEN ret = "malformed" /\ out = before
           ELSE /\ IF ret = Success THEN Len(list) = Len(items) ELSE Len(list) < Len(items)
                /\ \A i \in DOMAIN list, k \in Keys(DetectResults) :
                     list[i][k] = IF k \in DOMAIN items[i] THEN items[i][k] ELSE <<>>
  BY DEF DetectionsOfReply
<1>1. resp # NoBody
  BY FreshReplies DEF DetectionList, NoBody
<1>2. /\ m.resp = DetectionList /\ calls \in Nat \ {0}
      /\ out = d.obj /\ ret = Outcome(m, d) /\ body \in Replies(m, calls)
  BY <1>1, ApiAssumption
  DEF ReplyInv, RequestInv, Calling, ReturnedReply, Answered, Returned
<1>3. CASE body = Malformed
  <2>1. d = [ok |-> FALSE, obj |-> before]
    BY <1>3, DecodedCases
  <2> QED BY <1>2, <1>3, <2>1 DEF Outcome
<1>4. CASE body # Malformed
  <2>1. d = DetectionsFromJson(body, before)
    BY <1>2, <1>4, DecodedCases
  <2>2. IsItems(items)
    BY <1>2, <1>4, DetectionReply, ListOfReply
  <2>3. PICK n \in 0 .. Len(items) :
           /\ r.list = [i \in 1 .. n |-> DetectionOf(items[i]).obj]
           /\ IF r.ok THEN n = Len(items) ELSE n < Len(items)
           /\ \A i \in 1 .. n : DetectionOf(items[i]).ok
    BY <2>2, ItemsDecoded DEF IsItems
  <2>4. d.obj = Member(<<"objects">>, r.list) /\ (d.ok <=> r.ok)
    <3> DEFINE b == r.ok
               o == Member(<<"objects">>, r.list)
    <3>1. d = [ok |-> b, obj |-> o]
      BY <2>1 DEF DetectionsFromJson
    <3> HIDE DEF b, o, d
    <3>2. d.obj = o /\ (d.ok <=> b)
      BY <3>1
    <3> QED BY <3>2 DEF b, o
  <2>5. list = r.list
    BY <1>2, <2>4 DEF Member
  <2>6. ret = Success <=> r.ok
    BY <1>2, <2>4 DEF Outcome, Success
  <2> HIDE DEF list, items, r, d
  <2>7. Len(items) \in Nat /\ \A i \in 1 .. Len(items) : IsItem(items[i])
    BY <2>2 DEF IsItems
  <2>8. Len(list) = n /\ DOMAIN list = 1 .. n
    BY <2>3, <2>5, <2>7, SeqOfFunction
  <2>9. \A i \in 1 .. n, k \in Keys(DetectResults) :
          list[i][k] = IF k \in DOMAIN items[i] THEN items[i][k] ELSE <<>>
    <3> TAKE i \in 1 .. n, k \in Keys(DetectResults)
    <3>1. IsItem(items[i]) /\ DetectionOf(items[i]).ok /\ list[i] = DetectionOf(items[i]).obj
      BY <2>3, <2>5, <2>7
    <3> QED BY <3>1, ItemRead
  <2> QED BY <1>4, <2>3, <2>6, <2>7, <2>8, <2>9
<1> QED BY <1>3, <1>4

\* For any number of frames read into one list: success gives all items of this
\* frame, a failure only those before the first that throws, and every field is
\* of its own item, never of a neighbour or of the frame before.
THEOREM DetectionsNotMixed == Spec => []DetectionsOfReply
BY RepliesKept, DetectionsMean, PTL

-----------------------------------------------------------------------------
(* The values of an object.                                                *)

\* An object with typed values is one of its class.
LEMMA TypedObject ==
  ASSUME NEW s, NEW o, HasKeys(Keys(s), o), \A k \in Keys(s) : o[k] \in TypedValues
  PROVE  IsObject(s, o)
<1>1. DOMAIN o = Keys(s)
  BY DEF HasKeys
<1>2. ASSUME NEW v \in TypedValues PROVE Len(v) <= 2 /\ ToSet(v) \subseteq Marks
  BY DEF TypedValues, ToSet
<1> QED BY <1>1, <1>2 DEF IsObject

\* The values of the objects the service makes up.
LEMMA ReplyObjects ==
  ASSUME NEW s, DOMAIN s = 1 .. Len(s), \A i \in 1 .. Len(s) : s[i].type \in ValueTypes,
         NEW n \in Nat \ {0}, NEW o \in Objects(s, n), NEW k \in Keys(s)
  PROVE  o[k] \in TypedValues
<1>1. CASE o[k] = <<Mark(n)>>
  BY <1>1, SmallValues, MarkTyped
<1>2. CASE \E i \in 1 .. Len(s) : s[i].key = k /\ o[k] \in Values(s[i].type, n)
  BY <1>2, ValueTyped DEF TypedValues
<1> QED BY <1>1, <1>2, ObjectValues

\* What dump() writes for them.
Typed(json) == \A k \in DOMAIN json : json[k] = Null \/ json[k] \in TypedValues

\* ToJson of a typed object is typed.
LEMMA WrittenTyped ==
  ASSUME NEW s, NEW o, \A k \in Keys(s) : o[k] \in TypedValues
  PROVE  Typed(ToJson(s, o))
BY DEF Typed, ToJson, Keys, Dump

\* It stays so when keys are left out.
LEMMA OlderTyped ==
  ASSUME NEW json, Typed(json), NEW j \in Older(json)
  PROVE  Typed(j)
BY OlderKeys DEF Typed

\* So is every reply of the service to a query that is no catalog or list.
LEMMA PlainReplyTyped ==
  ASSUME NEW s, DOMAIN s = 1 .. Len(s), \A i \in 1 .. Len(s) : s[i].type \in ValueTypes,
         NEW n \in Nat \ {0}, NEW base, base = ToJson(s, [k \in Keys(s) |-> <<Mark(n)>>]),
         NEW json, \/ \E o \in Objects(s, n) : json \in Older(ToJson(s, o))
                   \/ json \in WithNull(s, base) \/ json \in WithRms(s, base, n)
  PROVE  Typed(json)
<1>1. Typed(base)
  <2> DEFINE o == [k \in Keys(s) |-> <<Mark(n)>>]
  <2>1. \A k \in Keys(s) : o[k] \in TypedValues
    BY SmallValues, MarkTyped
  <2> HIDE DEF o
  <2>2. Typed(ToJson(s, o))
    BY <2>1, WrittenTyped
  <2> QED BY <2>2 DEF o
<1>2. CASE \E o \in Objects(s, n) : json \in Older(ToJson(s, o))
  <2>1. PICK o \in Objects(s, n) : json \in Older(ToJson(s, o))
    BY <1>2
  <2>2. Typed(ToJson(s, o))
    BY ReplyObjects, WrittenTyped
  <2> QED BY <2>1, <2>2, OlderTyped
<1>3. CASE json \in WithNull(s, base)
  <2>1. \E k \in DOMAIN base : json = [base EXCEPT ![k] = Null]
    BY <1>3 DEF WithNull
  <2> QED BY <1>1, <2>1 DEF Typed
<1>4. CASE json \in WithRms(s, base, n)
  <2>1. \E j \in Older(base) :
          json = [k \in DOMAIN j \cup {rms_px} |-> IF k = rms_px THEN <<"rms", Mark(n)>> ELSE j[k]]
    BY <1>4 DEF WithRms
  <2>2. <<"rms", Mark(n)>> \in TypedValues
    <3>1. "rms" \in Marks
      BY DEF Marks
    <3> QED BY <3>1, SmallValues, MarkTyped
  <2>3. \A j \in Older(base) : Typed(j)
    BY <1>1, OlderTyped
  <2> QED BY <2>1, <2>2, <2>3 DEF Typed
<1> QED BY <1>2, <1>3, <1>4

\* An output object of one reply.
OutTyped(s, o) ==
  /\ HasKeys(Keys(s), o)
  /\ s # DetectionList => \A k \in Keys(s) : o[k] \in TypedValues
  /\ s = DetectionList =>
       /\ o[<<"objects">>] = [i \in 1 .. Len(o[<<"objects">>]) |-> o[<<"objects">>][i]]
       /\ Len(o[<<"objects">>]) \in 0 .. 2
       /\ \A i \in 1 .. Len(o[<<"objects">>]) : IsObject(DetectResults, o[<<"objects">>][i])

\* Decoding it into a typed object gives a typed one.
LEMMA PlainDecodedTyped ==
  ASSUME NEW q \in Methods, NEW n \in Nat \ {0}, NEW json \in Replies(q, n), json # Malformed,
         q.resp \notin {NoBody, DeviceInfo, DetectionList}, NEW o, OutTyped(q.resp, o)
  PROVE  OutTyped(q.resp, Decoded(q, json, o).obj)
<1> DEFINE s == q.resp
           d == Decoded(q, json, o)
           base == ToJson(s, [k \in Keys(s) |-> <<Mark(n)>>])
<1>1. /\ ReplyClass(s, Optional(q)) /\ DOMAIN s = 1 .. Len(s)
      /\ \A i \in 1 .. Len(s) : s[i].type \in ValueTypes
  BY ReplyClasses DEF Fresh, Polled, ReplyClass
<1>2. \/ \E p \in Objects(s, n) : json \in Older(ToJson(s, p))
      \/ json \in WithNull(s, base) \/ json \in WithRms(s, base, n)
  <2> DEFINE U == UNION {Older(ToJson(s, p)) : p \in Objects(s, n)}
             X == WithNull(s, base)
             Y == WithRms(s, base, n)
  <2>0. s # NoBody /\ s # DeviceInfo /\ s # DetectionList
    OBVIOUS
  <2>1. Replies(q, n) = (({Malformed} \cup U) \cup X) \cup Y
    BY <2>0, Zenon DEF Replies
  <2> HIDE DEF U, X, Y
  <2>2. json \in U \/ json \in X \/ json \in Y
    BY <2>1
  <2>3. json \in U => \E p \in Objects(s, n) : json \in Older(ToJson(s, p))
    BY DEF U
  <2> QED BY <2>2, <2>3 DEF X, Y
<1> HIDE DEF base
<1>3. Typed(json)
  BY <1>1, <1>2, PlainReplyTyped DEF base
<1>4. d = FromJson(s, json, o)
  BY DecodedCases
<1>5. HasKeys(Keys(s), o) /\ \A k \in Keys(s) : o[k] \in TypedValues
  BY DEF OutTyped
<1> HIDE DEF s, d
<1>6. FromJson(s, json, o).obj \in [Keys(s) -> TypedValues]
  BY <1>1, <1>3, <1>5, SmallValues, ReplyValues DEF HasKeys, Typed
<1>7. HasKeys(Keys(s), d.obj) /\ \A k \in Keys(s) : d.obj[k] \in TypedValues
  BY <1>4, <1>6 DEF HasKeys
<1> QED BY <1>7 DEF OutTyped, s, d

\* A catalog gives a typed object, whether it is wrapped or not.
LEMMA CatalogTyped ==
  ASSUME NEW kind \in Kinds, NEW catalog, catalog \in TypedValues, catalog # Null, NEW json,
         \/ json = Member(<<"catalog">>, catalog)
         \/ \E k : json = KindAndBody(k, catalog),
         NEW o, HasKeys(Keys(DeviceInfo), o), \A k \in Keys(DeviceInfo) : o[k] \in TypedValues,
         NEW k \in Keys(DeviceInfo)
  PROVE  CatalogFromJson(kind, json, o).obj[k] \in TypedValues
<1> DEFINE s == DeviceInfo
           d == DeviceInfoFromJson(json, o)
           D == {<<"kind">>, <<"body">>}
<1>1. /\ Keys(s) = D /\ Len(s) = 2
      /\ s[1].key = <<"kind">> /\ s[1].from = <<"kind">> /\ s[1].absent = "throw" /\ s[1].null = "throw"
      /\ s[2].key = <<"body">> /\ s[2].from = <<"body">> /\ s[2].absent = "throw" /\ s[2].null = "throw"
      /\ <<"kind">> # <<"body">>
  BY DEF Keys, DeviceInfo, Required, Field
<1>2. <<kind>> \in TypedValues
  <2>1. kind \in Marks
    BY DEF Kinds, Marks
  <2> QED BY <2>1, SmallValues
<1>3. IF d.ok THEN d.obj[<<"body">>] \in TypedValues ELSE d.obj = o
  <2>1. CASE json = Member(<<"catalog">>, catalog)
    <3>1. ~ (D \subseteq DOMAIN json) /\ json[<<"catalog">>] = catalog
      BY <2>1 DEF Member
    <3>2. d = [ok |-> TRUE, obj |-> KindAndBody(<<>>, catalog)]
      BY <3>1 DEF DeviceInfoFromJson
    <3>3. KindAndBody(<<>>, catalog)[<<"body">>] = catalog
      BY <1>1 DEF KindAndBody
    <3> HIDE DEF d
    <3> QED BY <3>2, <3>3
  <2>2. CASE \E x : json = KindAndBody(x, catalog)
    <3>1. D = DOMAIN json /\ json[<<"body">>] = catalog
      BY <1>1, <2>2 DEF KindAndBody
    <3>2. d = FromJson(s, json, o)
      BY <3>1 DEF DeviceInfoFromJson
    <3>7. Len(s) \in Nat /\ o = [x \in Keys(s) |-> o[x]]
      BY <1>1 DEF HasKeys
    <3> HIDE DEF s, d
    <3>3. PICK a : Decoding(s, json, o, Keys(s), a) /\ FromJson(s, json, o) = a[Len(s)]
      BY <3>7, FromJsonDecodes
    <3>4. /\ a[0] = [ok |-> TRUE, obj |-> o]
          /\ FieldRead(s[1], json, Keys(s), a[0], a[1])
          /\ FieldRead(s[2], json, Keys(s), a[1], a[2])
      <4>1. 1 \in 1 .. Len(s) /\ 2 \in 1 .. Len(s) /\ 1 - 1 = 0 /\ 2 - 1 = 1
        BY <1>1
      <4> QED BY <3>3, <4>1 DEF Decoding
    <3>5. CASE json[<<"kind">>] = Null
      <4>1. ~a[1].ok /\ a[1].obj = o
        BY <1>1, <3>1, <3>4, <3>5 DEF FieldRead, Throws, Ignored
      <4>2. ~a[2].ok /\ a[2].obj = o
        BY <3>4, <4>1 DEF FieldRead
      <4> QED BY <1>1, <3>2, <3>3, <4>2
    <3>6. CASE json[<<"kind">>] # Null
      <4>1. a[1].ok
        BY <1>1, <3>1, <3>4, <3>6 DEF FieldRead, Throws, Ignored
      <4>2. a[2].ok /\ a[2].obj[<<"body">>] = Read(s[2], json, a[1].obj)
        BY <1>1, <3>1, <3>4, <4>1 DEF FieldRead, Throws, Ignored
      <4>3. Read(s[2], json, a[1].obj) = catalog
        BY <1>1, <3>1 DEF Read, Ignored
      <4> QED BY <1>1, <3>2, <3>3, <4>2, <4>3
    <3> QED BY <3>5, <3>6
  <2> QED BY <2>1, <2>2
<1>4. CatalogFromJson(kind, json, o).obj[k] = IF d.ok /\ k = <<"kind">> THEN <<kind>> ELSE d.obj[k]
  BY CatalogKeys
<1>5. k \in D
  BY <1>1
<1> HIDE DEF d, s
<1> QED BY <1>2, <1>3, <1>4, <1>5

\* A new object is typed.
LEMMA DefaultTyped ==
  ASSUME NEW s
  PROVE  HasKeys(Keys(s), Default(s)) /\ \A k \in Keys(s) : Default(s)[k] \in TypedValues
BY SmallValues DEF HasKeys, Default

\* A decoded detection is typed.
LEMMA ItemTyped ==
  ASSUME NEW it, IsItem(it)
  PROVE  IsObject(DetectResults, DetectionOf(it).obj)
<1> DEFINE s == DetectResults
           o == DetectionOf(it).obj
<1>1. ReplyClass(s, {})
  <2>1. Len(s) = 8 /\ DOMAIN s = 1 .. 8 /\ \A i \in 1 .. 8 : s[i].absent = "keep"
    BY DEF DetectResults, Kept, KeptNumber, KeptNumbers, KeptArray, Field
  <2> HIDE DEF s
  <2> QED BY <2>1 DEF ReplyClass, ReplyField
<1>2. \A k \in DOMAIN it : it[k] = Null \/ it[k] \in TypedValues
  BY DEF IsItem
<1>3. o = FromJson(s, it, Default(s)).obj
  BY DEF DetectionOf
<1> HIDE DEF s, o
<1>4. FromJson(s, it, Default(s)).obj \in [Keys(s) -> TypedValues]
  BY <1>1, <1>2, DefaultTyped, SmallValues, ReplyValues DEF HasKeys
<1>5. HasKeys(Keys(s), o) /\ \A k \in Keys(s) : o[k] \in TypedValues
  BY <1>3, <1>4 DEF HasKeys
<1>6. IsObject(s, o)
  BY <1>5, TypedObject
<1> QED BY <1>6 DEF s, o

\* So is a list of them.
LEMMA ListDecodedTyped ==
  ASSUME NEW n \in Nat \ {0}, NEW json \in Detections(n), NEW o
  PROVE  OutTyped(DetectionList, DetectionsFromJson(json, o).obj)
<1> DEFINE items == ItemsOf(json)
           r == DecodedItems(items)
           list == r.list
           obj == Member(<<"objects">>, list)
<1>1. IsItems(items) /\ Len(items) <= 2
  BY ListOfReply
<1>2. DetectionsFromJson(json, o).obj = obj
  BY DEF DetectionsFromJson
<1>3. PICK c \in 0 .. Len(items) : list = [i \in 1 .. c |-> DetectionOf(items[i]).obj]
  BY <1>1, ItemsDecoded DEF IsItems
<1>4. obj[<<"objects">>] = list /\ HasKeys(Keys(DetectionList), obj)
  <2>1. Keys(DetectionList) = {<<"objects">>}
    BY DEF Keys, DetectionList, Field
  <2> HIDE DEF list
  <2> QED BY <2>1 DEF Member, HasKeys
<1> HIDE DEF items, list, obj
<1>5. \A i \in 1 .. Len(items) : IsItem(items[i])
  BY <1>1 DEF IsItems
<1>6. Len(items) \in Nat
  BY <1>1 DEF IsItems
<1>7. list = [i \in 1 .. c |-> list[i]] /\ Len(list) = c
  BY <1>3, <1>6, SeqOfFunction
<1>8. Len(list) \in 0 .. 2
  BY <1>1, <1>6, <1>7
<1>9. \A i \in 1 .. Len(list) : IsObject(DetectResults, list[i])
  <2> TAKE i \in 1 .. Len(list)
  <2>1. i \in 1 .. c /\ i \in 1 .. Len(items) /\ list[i] = DetectionOf(items[i]).obj
    BY <1>3, <1>6, <1>7
  <2> QED BY <1>5, <2>1, ItemTyped
<1> QED BY <1>2, <1>4, <1>7, <1>8, <1>9 DEF OutTyped

\* The two classes that are decoded in their own way differ.
LEMMA CatalogIsNoList == DeviceInfo # DetectionList
<1>1. Len(DeviceInfo) = 2 /\ Len(DetectionList) = 1
  BY DEF DeviceInfo, DetectionList
<1> QED BY <1>1

\* What the service answers to a catalog query.
LEMMA CatalogReplies ==
  ASSUME NEW q, q.resp = DeviceInfo, NEW n
  PROVE  Replies(q, n) = {Malformed} \cup Catalogs(q, n)
<1>1. Len(DetectionList) = 1 /\ Len(NoBody) = 0 /\ Len(DeviceInfo) = 2
  BY DEF DetectionList, NoBody, DeviceInfo
<1>2. q.resp # NoBody /\ q.resp # DetectionList
  BY <1>1
<1> QED BY <1>2 DEF Replies

\* A reply to a catalog query, decoded.
LEMMA CatalogReply ==
  ASSUME NEW q \in Methods, q.resp = DeviceInfo, NEW n \in Nat \ {0}, NEW json \in Replies(q, n),
         json # Malformed, NEW o, OutTyped(q.resp, o)
  PROVE  OutTyped(q.resp, Decoded(q, json, o).obj)
<1> DEFINE catalog == <<q.kind, Mark(n)>>
           c == CatalogFromJson(q.kind, json, o)
<1>1. Len(DetectionList) = 1 /\ Len(NoBody) = 0 /\ Len(DeviceInfo) = 2
  BY DEF DetectionList, NoBody, DeviceInfo
<1>2. Replies(q, n) = {Malformed} \cup Catalogs(q, n)
  BY CatalogReplies
<1>3. json = Member(<<"catalog">>, catalog) \/ \E k : json = KindAndBody(k, catalog)
  BY <1>2 DEF Catalogs
<1>4. q.kind \in Kinds
  BY MethodsSound DEF Sound
<1>5. catalog \in TypedValues /\ catalog # Null
  <2>1. q.kind \in Marks
    BY <1>4 DEF Kinds, Marks
  <2> QED BY <2>1, MarkTyped, SmallValues DEF Null
<1>6. HasKeys(Keys(DeviceInfo), o) /\ \A k \in Keys(DeviceInfo) : o[k] \in TypedValues
  BY <1>1 DEF OutTyped
<1> HIDE DEF catalog, c
<1>7. HasKeys(Keys(DeviceInfo), c.obj)
  BY <1>6, CatalogKeys DEF c
<1>8. \A k \in Keys(DeviceInfo) : c.obj[k] \in TypedValues
  BY <1>3, <1>4, <1>5, <1>6, CatalogTyped DEF c
<1>9. Decoded(q, json, o) = c
  BY DecodedCases DEF c
<1>10. OutTyped(DeviceInfo, c.obj)
  BY <1>7, <1>8, CatalogIsNoList DEF OutTyped
<1> QED BY <1>9, <1>10

\* However a reply is decoded, the object stays typed.
LEMMA DecodedTyped ==
  ASSUME NEW q \in Methods, q.resp # NoBody, NEW n \in Nat \ {0}, NEW json \in Replies(q, n),
         NEW o, OutTyped(q.resp, o)
  PROVE  OutTyped(q.resp, Decoded(q, json, o).obj)
<1>1. CASE json = Malformed
  BY <1>1, DecodedCases
<1>2. CASE json # Malformed /\ q.resp = DeviceInfo
  BY <1>2, CatalogReply
<1>3. CASE json # Malformed /\ q.resp = DetectionList
  BY <1>3, DecodedCases, DetectionReply, ListDecodedTyped
<1>4. CASE json # Malformed /\ q.resp \notin {DeviceInfo, DetectionList}
  BY <1>4, PlainDecodedTyped
<1> QED BY <1>1, <1>2, <1>3, <1>4

-----------------------------------------------------------------------------
(* The types.                                                              *)

\* The inductive invariant of the types.
TypeInv ==
  /\ ReplyInv
  /\ HasKeys(Keys(m.req), arg) /\ \A k \in Keys(m.req) : arg[k] \in TypedValues
  /\ OutTyped(resp, out) /\ OutTyped(resp, before)

\* The types hold before the first call.
LEMMA TypeInit == Init => TypeInv
<1> SUFFICES ASSUME Init PROVE TypeInv
  OBVIOUS
<1>1. ReplyInv
  BY ReplyInit
<1>2. HasKeys(Keys(m.req), arg) /\ \A k \in Keys(m.req) : arg[k] \in TypedValues
  BY DefaultTyped DEF Init
<1>3. OutTyped(resp, Default(resp))
  <2>1. resp = DetectionList => Default(resp)[<<"objects">>] = <<>>
    BY DEF Default, Keys, DetectionList, Field
  <2>2. Len(<<>>) = 0
    OBVIOUS
  <2> QED BY <2>1, <2>2, DefaultTyped DEF OutTyped
<1>4. out = Default(resp) /\ before = Default(resp)
  BY DEF Init
<1> QED BY <1>1, <1>2, <1>3, <1>4 DEF TypeInv

\* They are kept by every step.
LEMMA TypeStep == TypeInv /\ [Next]_vars => TypeInv'
<1> SUFFICES ASSUME TypeInv, [Next]_vars PROVE TypeInv'
  OBVIOUS
<1>1. ReplyInv'
  BY ReplyStep DEF TypeInv
<1>2. CASE Call
  <2>1. /\ m' \in Methods /\ calls' \in Nat \ {0} /\ arg' \in Arguments(m', calls')
        /\ resp' = resp /\ out' = out /\ before' = out
    BY <1>1, <1>2, ApiAssumption DEF ReplyInv, RequestInv, Call, Calling
  <2>2. Passed(m'.req, calls', arg')
    BY <2>1, CallSends
  <2>3. SentClass(m'.req, Optional(m'))
    BY <2>1, MethodsSound DEF Sound
  <2>4. \A k \in Keys(m'.req) : arg'[k] \in TypedValues
    BY <2>1, <2>2, <2>3, PassedTyped DEF TypedValues
  <2>5. HasKeys(Keys(m'.req), arg')
    BY <2>2 DEF Passed, HasKeys
  <2> QED BY <1>1, <2>1, <2>4, <2>5 DEF TypeInv
<1>3. CASE Serve \/ TimesOut \/ UNCHANGED vars
  <2>1. m' = m /\ arg' = arg /\ resp' = resp /\ out' = out /\ before' = before
    BY <1>3 DEF Serve, TimesOut, vars
  <2> QED BY <1>1, <2>1 DEF TypeInv
<1>4. CASE Return
  <2>1. /\ m' = m /\ arg' = arg /\ resp' = resp /\ before' = before /\ pc = "replied"
        /\ IF m.resp = NoBody \/ reply.status # Success
             THEN out' = out
             ELSE out' = Decoded(m, reply.body, out).obj
    BY <1>4 DEF Return
  <2>2. m \in Methods /\ resp = m.resp /\ calls \in Nat \ {0}
    BY <2>1, ApiAssumption DEF TypeInv, ReplyInv, RequestInv, Calling
  <2>3. reply.status = Success => reply.body \in Replies(m, calls)
    BY DEF TypeInv, ReplyInv, Answered
  <2>4. OutTyped(m.resp, out)
    BY <2>2 DEF TypeInv
  <2>5. OutTyped(resp, out')
    <3>1. CASE m.resp = NoBody \/ reply.status # Success
      BY <2>1, <2>2, <2>4, <3>1
    <3>2. CASE ~ (m.resp = NoBody \/ reply.status # Success)
      BY <2>1, <2>2, <2>3, <2>4, <3>2, DecodedTyped
    <3> QED BY <3>1, <3>2
  <2> QED BY <1>1, <2>1, <2>5 DEF TypeInv
<1> QED BY <1>2, <1>3, <1>4 DEF Next

\* The objects of the invariant are those TypeOK asks for.
LEMMA OutputMeans ==
  ASSUME NEW s, NEW o, OutTyped(s, o)
  PROVE  IsOutput(s, o)
<1>1. CASE s # DetectionList
  <2>1. HasKeys(Keys(s), o) /\ \A k \in Keys(s) : o[k] \in TypedValues
    BY <1>1 DEF OutTyped
  <2> QED BY <1>1, <2>1, TypedObject DEF IsOutput
<1>2. CASE s = DetectionList
  <2> DEFINE l == o[<<"objects">>]
  <2>1. l = [i \in 1 .. Len(l) |-> l[i]] /\ Len(l) \in 0 .. 2
        /\ \A i \in 1 .. Len(l) : IsObject(DetectResults, l[i])
    BY <1>2 DEF OutTyped
  <2> HIDE DEF l
  <2>2. Len(l) <= 2 /\ \A x \in ToSet(l) : IsObject(DetectResults, x)
    BY <2>1 DEF ToSet
  <2> QED BY <1>2, <2>2 DEF IsOutput, l
<1> QED BY <1>1, <1>2

\* The invariant gives the types.
LEMMA TypeMeans == TypeInv => TypeOK
<1> SUFFICES ASSUME TypeInv PROVE TypeOK
  OBVIOUS
<1> DEFINE s == m.req
<1>1. RequestInv /\ Calling
  BY DEF TypeInv, ReplyInv, RequestInv
<1>2. IsOutput(resp, out) /\ IsOutput(resp, before)
  BY OutputMeans DEF TypeInv
<1>3. HasKeys(Keys(s), arg) /\ \A k \in Keys(s) : arg[k] \in TypedValues
  BY DEF TypeInv
<1>4. SentRequest(s, arg, wire, Optional(m)) /\ Len(s) \in Nat
  BY <1>1 DEF RequestInv, Requested, SentRequest, SentClass
<1>5. DOMAIN wire \subseteq Keys(s)
  BY <1>4 DEF SentRequest, OnWire, ToJson, Keys
<1>6. got.ok => IsObject(s, got.obj)
  <2> SUFFICES ASSUME got.ok PROVE IsObject(s, got.obj)
    OBVIOUS
  <2>1. got = FromJson(s, wire, Default(s))
    BY <1>1 DEF RequestInv, DecodedOnce, NotServed
  <2> HIDE DEF s
  <2>2. HasKeys(Keys(s), got.obj)
    BY <1>4, <2>1, DefaultTyped, FromJsonKeys
  <2>3. \A k \in Keys(s) : got.obj[k] = Sent(arg, wire, k)
    BY <1>4, <2>1, RequestRead
  <2>4. \A k \in Keys(s) : got.obj[k] \in TypedValues
    BY <1>3, <2>3, SmallValues DEF Sent
  <2> QED BY <2>2, <2>4, TypedObject
<1>7. IsObject(s, arg)
  <2> HIDE DEF s
  <2> QED BY <1>3, TypedObject
<1> QED BY <1>1, <1>2, <1>5, <1>6, <1>7 DEF TypeOK, Calling

\* For every method, argument, reply and number of calls: the objects of caller
\* and service keep the keys of their class and values of at most two marks, so
\* no array grows from reply to reply however often its object is used again.
THEOREM TypesCorrect == Spec => []TypeOK
<1>1. Spec => []TypeInv
  BY TypeInit, TypeStep, PTL DEF Spec
<1> QED BY <1>1, TypeMeans, PTL
=============================================================================
