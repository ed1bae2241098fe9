----------------------------- MODULE ServiceApi -----------------------------
(***************************************************************************)
(* The classes and the methods of the other clients: AI chat, local speech *)
(* (LUI), vision, hand-eye calibration, cameras and lights.  The methods   *)
(* of LuiClient, HandEyeCalibClient and CameraClient are compiled: of them *)
(* the repository shows the class each one takes and the one it fills.     *)
(***************************************************************************)
EXTENDS JsonClasses

-----------------------------------------------------------------------------
(* rpc/request_header.hpp: the header that goes with every request.        *)

RequestHeader ==
  <<Required("api_id"), Defaulted("call_mode"), NonEmpty(Defaulted("operation_command")),
    NonEmpty(Defaulted("req_id")), NonEmpty(Defaulted("operation_id"))>>

-----------------------------------------------------------------------------
(* ai/api.hpp                                                              *)

TtsConfig == <<Required("voice_type"), RequiredArray("ignore_bracket_text")>>
LlmConfig == <<Required("system_prompt"), Required("welcome_msg"), Required("prompt_name")>>
AsrConfig == <<Required("interrupt_speech_duration"), RequiredArray("interrupt_keywords")>>
StartAiChatParameter ==
  <<NonEmpty(Defaulted("persona_id")), Required("interrupt_mode"),
    Required("enable_face_tracking")>>
  \o Nested("tts_config", TtsConfig)
  \o Nested("llm_config", LlmConfig)
  \o Nested("asr_config", AsrConfig)
SpeakParameter == <<Required("msg")>>

LuiSession == <<Required("session_id"), Required("client_id")>>
LuiAsrStartRequest == LuiSession
LuiAsrStopRequest  == LuiSession
LuiTtsStopRequest  == LuiSession
LuiTtsConfig       == <<Required("voice_type")>>
LuiTtsParameter    == <<Required("text")>>
LuiSynthesizeSpeechRequest ==
  <<Required("text"), Kept("voice_type"), KeptNumber("speed"), Kept("playback")>>
LuiSynthesizeSpeechResponse ==
  <<Required("audio_base64"), Required("sample_rate_hz"), Required("channels"),
    Required("bits_per_sample"), Required("format")>>
\* FromFile sets a path, FromPcmBase64 the data and its format.
LuiRecognizeAudioRequest ==
  <<Required("input_type"), NonEmpty(Kept("file_path")), NonEmpty(Kept("audio_base64")),
    Kept("sample_rate_hz"), Kept("channels"), Kept("bits_per_sample"), Kept("format")>>
LuiRecognizeAudioResponse == <<Required("text")>>

-----------------------------------------------------------------------------
(* vision/vision_api.hpp                                                   *)

StartVisionServiceParameter ==
  <<Kept("enable_position"), Kept("enable_color"), Kept("enable_face_detection")>>
GetDetectionObjectParameter == <<KeptNumber("focus_ratio")>>
DetectResults ==
  <<Kept("xmin"), Kept("ymin"), Kept("xmax"), Kept("ymax"), KeptNumbers("position"),
    Kept("tag"), KeptNumber("conf"), KeptArray("rgb_mean")>>
\* std::vector<DetectResults>
DetectionList == <<Field("objects", "default", "always", "list")>>

-----------------------------------------------------------------------------
(* vision/handeye_calib_api.hpp                                            *)

StartHandEyeCalibParameter ==
  <<NotNull(Kept("publish_feedback")), Positive(NotNull(KeptNumber("square_size_m")))>>
HandEyeCalibError == <<NonEmpty(NotNull(Kept("error")))>>
HandEyeCalibProgress ==
  <<NotNull(KeptNumber("progress")),
    NotNull(Kept("stage2_done")), NotNull(Kept("stage2_total")),
    NotNull(Kept("stage3_done")), NotNull(Kept("stage3_total"))>>
HandEyeCalibStatus ==
  <<Kept("status"), NotNull(Kept("job_id")), NotNull(Kept("stage")),
    NotNull(Kept("started_at")), NotNull(Kept("finished_at"))>>
  \o HandEyeCalibProgress \o HandEyeCalibError
rms_px == <<"result", "rms_px">>
HandEyeCalibResult ==
  LET error_px == NotNull(KeptNumber("reprojection_error_px"))
  IN  <<Kept("status"), NotNull(Kept("job_id")), NotNull(Kept("summary")),
        NonEmpty(NotNull(Kept("result"))), ReadFrom(error_px, rms_px), error_px>>
      \o HandEyeCalibProgress \o HandEyeCalibError
HandEyeCalibApplyResult ==
  <<Kept("status"), NotNull(Kept("applied_path"))>> \o HandEyeCalibError

-----------------------------------------------------------------------------
(* x5_camera/x5_camera_api.hpp and device/light/light_control_api.hpp      *)

X5ChangeModeParameter == <<Required("mode")>>
X5GetStatusResponse   == <<Required("status")>>
SetLEDLightColorParameter  == <<Required("r"), Required("g"), Required("b")>>
SetLEDLightColorsParameter == <<Replaced("colors")>>

-----------------------------------------------------------------------------
(* The methods.                                                            *)

OperationRequest   == Request("RequestHeader", RequestHeader)

StartAiChat        == Request("kStartAiChat", StartAiChatParameter)
StopAiChat         == Request("kStopAiChat", NoBody)
Speak              == Request("kSpeak", SpeakParameter)
StartFaceTracking  == Request("kStartFaceTracking", NoBody)
StopFaceTracking   == Request("kStopFaceTracking", NoBody)

StartAsr           == Request("kStartAsr", LuiAsrStartRequest)
StopAsr            == Request("kStopAsr", LuiAsrStopRequest)
StartTts           == Request("kStartTts", LuiTtsConfig)
StopTts            == Request("kStopTts", LuiTtsStopRequest)
SendTtsText        == Request("kSendTtsText", LuiTtsParameter)
SynthesizeSpeech   ==
  Query("kSynthesizeSpeech", LuiSynthesizeSpeechRequest, LuiSynthesizeSpeechResponse)
RecognizeAudioOnce ==
  Query("kRecognizeAudioOnce", LuiRecognizeAudioRequest, LuiRecognizeAudioResponse)
\* The header shows no class for the two that open and close the session.
StartAudioRecognizer == Request("kStartAudioRecognizer", NoBody)
StopAudioRecognizer  == Request("kStopAudioRecognizer", NoBody)
RecognizeAudioInSession ==
  Query("kRecognizeAudioInSession", LuiRecognizeAudioRequest, LuiRecognizeAudioResponse)

StartVisionService == Request("kStartVisionService", StartVisionServiceParameter)
StopVisionService  == Request("kStopVisionService", NoBody)
GetDetectionObject ==
  Query("kGetDetectionObject", GetDetectionObjectParameter, DetectionList)

StartCalibration   == Request("kStartCalibration", StartHandEyeCalibParameter)
StopCalibration    == Request("kStopCalibration", NoBody)
GetCalibrationStatus == Query("kGetStatus (calibration)", NoBody, HandEyeCalibStatus)
GetCalibrationResult == Query("kGetResult", NoBody, HandEyeCalibResult)
ApplyResult        == Query("kApplyResult", NoBody, HandEyeCalibApplyResult)

GetCameras         == DeviceQuery("kGetCameras", "kCamera")
X5ChangeMode       == Command("kChangeMode (x5)", X5ChangeModeParameter)
X5GetStatus        == Query("kGetStatus (x5)", NoBody, X5GetStatusResponse)
SetLEDLightColor   == Command("kSetLEDLightColor", SetLEDLightColorParameter)
SetLEDLightColors  == Command("kSetLEDLightColors", SetLEDLightColorsParameter)
StopLEDLightControl == Command("kStopLEDLightControl", NoBody)

ServiceMethods ==
  {OperationRequest, StartAiChat, StopAiChat, Speak, StartFaceTracking, StopFaceTracking,
   StartAsr, StopAsr, StartTts, StopTts, SendTtsText, SynthesizeSpeech, RecognizeAudioOnce,
   StartAudioRecognizer, StopAudioRecognizer, RecognizeAudioInSession,
   StartVisionService, StopVisionService, GetDetectionObject,
   StartCalibration, StopCalibration, GetCalibrationStatus, GetCalibrationResult, ApplyResult,
   GetCameras, X5ChangeMode, X5GetStatus, SetLEDLightColor, SetLEDLightColors,
   StopLEDLightControl}
=============================================================================
