------------------------------ MODULE LocoApi -------------------------------
(***************************************************************************)
(* The parameter and response classes of the B1 locomotion API, in the     *)
(* order in which FromJson reads their fields, and the methods of          *)
(* b1::B1LocoClient: the API each one calls, what it sends and returns.    *)
(***************************************************************************)
EXTENDS TLC, JsonClasses

-----------------------------------------------------------------------------
(* entities.hpp                                                            *)

Position    == <<Number("x"), Number("y"), Number("z")>>
Orientation == <<Number("roll"), Number("pitch"), Number("yaw")>>
Quaternion  == <<Number("x"), Number("y"), Number("z"), Number("w")>>
Posture     == Nested("position", Position) \o Nested("orientation", Orientation)
Transform   == Nested("position", Position) \o Nested("orientation", Quaternion)

-----------------------------------------------------------------------------
(* b1_loco_api.hpp                                                         *)

RotateHeadParameter == <<Number("pitch"), Number("yaw")>>
RotateHeadWithTimeParameter == <<Number("pitch"), Number("yaw"), Required("time_millis")>>
ChangeModeParameter == <<Required("mode")>>
SwitchGaitParameter == <<Required("gait_type")>>
GetModeResponse == <<Required("mode")>>
GetStatusResponseAppends ==
  <<Required("current_mode"), Required("current_body_control"), Appended("current_actions")>>
GetStatusResponse ==
  <<Required("current_mode"), Required("current_body_control"), Replaced("current_actions")>>
GetRobotInfoResponse ==
  <<Required("name"), Required("nickname"), Required("version"), Required("model"),
    Required("serial_number"), Required("edition"), Required("region")>>
MoveParameter == <<Number("vx"), Number("vy"), Number("vyaw")>>
RotateHeadWithDirectionParameter == <<Required("pitch_direction"), Required("yaw_direction")>>
GetUpParameterRequired == <<Required("version")>>
GetUpParameter == <<Defaulted("version")>>
GetUpWithModeParameter == <<Required("mode"), Defaulted("version")>>
WaveHandParameter == <<Required("hand_index"), Required("hand_action")>>
HandshakeParameter == <<Required("hand_action")>>
HandOnChestGreetingParameter == <<Required("up")>>
MoveHandEndEffectorParameterAuxFirst ==
  Nested("target_posture", Posture)
  \o WithAux(Nested("aux_posture", Posture))
  \o <<Required("has_aux"), Required("time_millis"), Required("hand_index"),
       Required("new_version")>>
MoveHandEndEffectorParameter ==
  Nested("target_posture", Posture)
  \o <<Required("has_aux")>>
  \o WithAux(Nested("aux_posture", Posture))
  \o <<Required("time_millis"), Required("hand_index"), Required("new_version")>>
GripperMotionParameter == <<Required("position"), Required("force"), Required("speed")>>
ControlGripperParameter ==
  Nested("motion_param", GripperMotionParameter) \o <<Required("mode"), Required("hand_index")>>
MoveDualHandEndEffectorParameter ==
  Nested("left_target_posture", Posture)
  \o Nested("right_target_posture", Posture)
  \o <<Required("time_millis")>>
GetFrameTransformParameter == <<Required("src"), Required("dst")>>
SwitchHandEndEffectorControlModeParameter == <<Required("switch_on")>>
ControlDexterousHandParameter ==
  <<Appended("finger_params"), Required("hand_index"), Required("hand_type")>>
DanceParameter == <<Required("dance_id")>>
PlaySoundParameter == <<Required("sound_file_path")>>
ReplayTrajectoryParameter == <<Required("traj_file_path")>>
ZeroTorqueDragParameter == <<Required("enable")>>
RecordTrajectoryParameter == <<Required("enable")>>
WholeBodyDanceParameter == <<Required("dance_id")>>
UpperBodyCustomControlParameter == <<Required("start")>>
CustomModel == <<Required("file_path"), ReplacedNumbers("params"), Required("joint_order")>>
CustomTrainedTraj == <<Required("traj_file_path")>> \o Nested("model", CustomModel)
LoadCustomTrainedTrajResponse == <<Required("tid")>>
CustomTrainedTrajParameter == <<Required("tid")>>
GetTrainedTrajStatusResponseKeeps ==
  <<Required("status"), Field("traj_id", "append", "always", "scalar")>>
GetTrainedTrajStatusResponse == <<Required("status"), Defaulted("traj_id")>>
VisualKickParameter == <<Required("start"), Required("version")>>
LionDancePrepareParameter == <<Required("start")>>
LionDanceMoveParameter == <<Required("start")>>
LionDanceStartParameter == <<Required("dance_idx")>>

-----------------------------------------------------------------------------
(* B1LocoClient.                                                           *)

ChangeMode         == Request("kChangeMode", ChangeModeParameter)
GetMode            == Query("kGetMode", NoBody, GetModeResponse)
GetStatus          == Query("kGetStatus", NoBody, GetStatusResponse)
GetRobotInfo       == Query("kGetRobotInfo", NoBody, GetRobotInfoResponse)
GetSensors         == DeviceQuery("kGetSensors", "kSensors")
GetHands           == DeviceQuery("kGetHands", "kHands")
GetRobotModel      == DeviceQuery("kGetRobotModel", "kRobotModel")
Move               == Request("kMove", MoveParameter)
MoveCommand        == Command("kMove", MoveParameter)
RotateHead         == Request("kRotateHead", RotateHeadParameter)
RotateHeadWithTime == Request("kRotateHeadWithTime", RotateHeadWithTimeParameter)
\* The hand is always kRightHand, which is not 0.
WaveHand           ==
  [Request("kWaveHand", WaveHandParameter) EXCEPT !.sets = <<"hand_index">> :> TRUE]
RotateHeadWithDirection == Request("kRotateHeadWithDirection", RotateHeadWithDirectionParameter)
LieDown            == Request("kLieDown", NoBody)
GetUp              == Request("kGetUp", GetUpParameter)
GetUpWithMode      == Request("kGetUpWithMode", GetUpWithModeParameter)
Shoot              == Request("kShoot", NoBody)
MoveHand(aux, v2) ==
  [Request("kMoveHandEndEffector", MoveHandEndEffectorParameter)
     EXCEPT !.sets = (has_aux :> aux) @@ (<<"new_version">> :> v2)]
MoveHandEndEffectorWithAux == MoveHand(TRUE, FALSE)
MoveHandEndEffector        == MoveHand(FALSE, FALSE)
MoveHandEndEffectorV2      == MoveHand(FALSE, TRUE)
MoveDualHandEndEffector == Request("kMoveDualHandEndEffector", MoveDualHandEndEffectorParameter)
StopHandEndEffector == Request("kStopHandEndEffector", NoBody)
ControlGripper     == Request("kControlGripper", ControlGripperParameter)
GetFrameTransform  == Query("kGetFrameTransform", GetFrameTransformParameter, Transform)
SwitchHandEndEffectorControlMode ==
  Request("kSwitchHandEndEffectorControlMode", SwitchHandEndEffectorControlModeParameter)
Handshake          == Request("kHandshake", HandshakeParameter)
HandOnChestGreeting == Request("kHandOnChestGreeting", HandOnChestGreetingParameter)
ControlDexterousHand == Request("kControlDexterousHand", ControlDexterousHandParameter)
Dance              == Request("kDance", DanceParameter)
PlaySound          == Request("kPlaySound", PlaySoundParameter)
StopSound          == Request("kStopSound", NoBody)
ZeroTorqueDrag     == Request("kZeroTorqueDrag", ZeroTorqueDragParameter)
RecordTrajectory   == Request("kRecordTrajectory", RecordTrajectoryParameter)
ReplayTrajectory   == Request("kReplayTrajectory", ReplayTrajectoryParameter)
WholeBodyDance     == Request("kWholeBodyDance", WholeBodyDanceParameter)
UpperBodyCustomControl == Request("kUpperBodyCustomControl", UpperBodyCustomControlParameter)
ResetOdometry      == Request("kResetOdometry", NoBody)
ResetOdometryTo    == Request("kResetOdometry", <<Number("x"), Number("y"), Number("theta")>>)
LoadCustomTrainedTraj ==
  Query("kLoadCustomTrainedTraj", CustomTrainedTraj, LoadCustomTrainedTrajResponse)
ActivateCustomTrainedTraj == Request("kActivateCustomTrainedTraj", CustomTrainedTrajParameter)
UnloadCustomTrainedTraj == Request("kUnloadCustomTrainedTraj", CustomTrainedTrajParameter)
GetTrainedTrajStatus == Query("kGetTrainedTrajStatus", NoBody, GetTrainedTrajStatusResponse)
EnterWBCGait       == Request("kEnterWBCGait", NoBody)
ExitWBCGait        == Request("kExitWBCGait", NoBody)
VisualKick         == Request("kVisualKick", VisualKickParameter)
LionDancePrepare   == Request("kLionDancePrepare", LionDancePrepareParameter)
LionDanceStart     == Request("kLionDanceStart", LionDanceStartParameter)
LionDanceMove      == Request("kLionDanceMove", LionDanceMoveParameter)
SwitchGait         == Request("kSwitchGait", SwitchGaitParameter)

LocoMethods ==
  {ChangeMode, GetMode, GetStatus, GetRobotInfo, GetSensors, GetHands, GetRobotModel, Move,
   MoveCommand, RotateHead, RotateHeadWithTime, WaveHand, RotateHeadWithDirection, LieDown,
   GetUp, GetUpWithMode, Shoot, MoveHandEndEffectorWithAux, MoveHandEndEffector,
   MoveHandEndEffectorV2, MoveDualHandEndEffector, StopHandEndEffector, ControlGripper,
   GetFrameTransform, SwitchHandEndEffectorControlMode, Handshake, HandOnChestGreeting,
   ControlDexterousHand, Dance, PlaySound, StopSound,
   ZeroTorqueDrag, RecordTrajectory, ReplayTrajectory, WholeBodyDance, UpperBodyCustomControl,
   ResetOdometry, ResetOdometryTo, LoadCustomTrainedTraj, ActivateCustomTrainedTraj,
   UnloadCustomTrainedTraj, GetTrainedTrajStatus, EnterWBCGait, ExitWBCGait, VisualKick,
   LionDancePrepare, LionDanceStart, LionDanceMove, SwitchGait}
=============================================================================
