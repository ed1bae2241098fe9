------------------------------ MODULE ArmMotion ------------------------------
(***************************************************************************)
(* ArmController with the position of one arm joint: where the arm is and  *)
(* what LowState last said of it, where a motion starts and ends, and what *)
(* Finish publishes for it.  The joint stands for any: the loop of Finish  *)
(* treats every arm joint alike.                                           *)
(*                                                                         *)
(* Positions are integers, an interpolated one is rounded down.  The arm   *)
(* is free: it may follow its commands, lag behind them, sag, be blocked   *)
(* or be moved by hand.                                                    *)
(***************************************************************************)
EXTENDS ArmController, Integers

CONSTANTS
  Joint,      \* the joint
  Positions,  \* where it can be
  Home,       \* where it is at first
  Targets,    \* target_rad the application passes to ControlArm
  MaxStale    \* how far the arm gets from the last LowState

ASSUME MotionAssumption ==
  /\ Joint \in ArmJoints
  /\ Positions \subseteq Int
  /\ \A p, r \in Positions : p .. r \subseteq Positions
  /\ Home \in Positions
  /\ Targets \subseteq Positions
  /\ MaxStale \in Nat

VARIABLES
  q,          \* the robot: where the joint is
  measured,   \* joint_positions_[Joint] of the tracker
  target,     \* target_rad of the pending action, if there is one
  start_q, end_q,  \* the planned task's, if there is one
  command,    \* the last motor.q(); as Finish begins, where the joint is
  blind       \* history: Finish began before any LowState had come

mvars == <<q, measured, target, start_q, end_q, command, blind>>

Distance(a, b) == IF a < b THEN b - a ELSE a - b

MotionInit ==
  /\ Init
  /\ q = Home /\ measured = 0
  /\ target = 0 /\ start_q = 0 /\ end_q = 0
  /\ command = Home
  /\ blind = FALSE

-----------------------------------------------------------------------------
(* The arm and its feedback.                                               *)

\* While the tracker listens, a newer LowState comes before the joint is
\* further than MaxStale from the last one.
ArmMoves ==
  /\ q' \in Positions
  /\ ready /\ ~is_closed => Distance(measured, q') <= MaxStale
  /\ UNCHANGED <<vars, measured, target, start_q, end_q, command, blind>>

\* LowStateTracker::HandleMessage, the first message and every other.
LowState ==
  /\ ~is_closed
  /\ ready => measured # q
  /\ measured' = q
  /\ HandleMessage \/ (ready /\ UNCHANGED vars)
  /\ UNCHANGED <<q, target, start_q, end_q, command, blind>>

-----------------------------------------------------------------------------
(* The controller.                                                         *)

\* ControlArm for this joint replaces its target, for another one it does not.
QueueTarget ==
  /\ ControlArm
  /\ \/ /\ pending_actions'[Joint] # 0
        /\ \A j \in ArmJoints \ {Joint} : pending_actions'[j] = pending_actions[j]
        /\ target' \in Targets
     \/ pending_actions'[Joint] = pending_actions[Joint] /\ UNCHANGED target
  /\ UNCHANGED <<q, measured, start_q, end_q, command, blind>>

\* The motion starts where the tracker has the joint when Finish begins.
PlanFromCommand == start_q' = command /\ end_q' = target
Plan == start_q' = measured /\ end_q' = target

BeginFinish ==
  /\ Finish
  /\ Plan
  /\ command' = q
  /\ blind' = ~ready
  /\ UNCHANGED <<q, measured, target>>

\* Where a motion from s to e is when `done` of its `duration` has passed.
Interpolated(s, e, done, duration) == s + (((e - s) * done) \div duration)

\* A joint without a task is commanded to its measured position.
JointCommandUnclamped ==
  IF tasks[Joint] = 0 THEN measured
  ELSE Interpolated(start_q, end_q, elapsed, tasks[Joint])
JointCommand ==
  IF tasks[Joint] = 0 THEN measured
  ELSE Interpolated(start_q, end_q, Minimum(elapsed, tasks[Joint]), tasks[Joint])

PublishJoint ==
  /\ Publish
  /\ command' = JointCommand
  /\ UNCHANGED <<q, measured, target, start_q, end_q, blind>>

\* The locals of Finish are gone, pending_actions_ is empty.
JointFinishReturns ==
  /\ FinishReturns
  /\ target' = 0 /\ start_q' = 0 /\ end_q' = 0
  /\ UNCHANGED <<q, measured, command, blind>>

Others ==
  /\ \/ RobotHandles \/ RequestLost
     \/ TrackerWaitEnds \/ CallReturns \/ CallTimesOut
     \/ Close
  /\ UNCHANGED mvars

MotionNext ==
  \/ ArmMoves \/ LowState
  \/ QueueTarget \/ BeginFinish \/ PublishJoint \/ JointFinishReturns
  \/ Others

MotionSpec == MotionInit /\ [][MotionNext]_<<vars, mvars>>

-----------------------------------------------------------------------------
(* Properties.                                                             *)

\* The types of ArmController, and positions of the joint: an interpolated
\* command never leaves the range of its motion's ends, if the motion was
\* planned from feedback.
MotionTypeOK ==
  /\ TypeOK
  /\ q \in Positions /\ measured \in Positions \cup {0}
  /\ target \in Targets \cup {0}
  /\ start_q \in Positions \cup {0} /\ end_q \in Targets \cup {0}
  /\ blind \in BOOLEAN
  /\ command \in Int /\ (~blind => command \in Positions)

\* How far a motion goes between two turns of the loop.
Stride == (Distance(start_q, end_q) * MaxDelay) \div tasks[Joint] + 1

\* What Finish commands never jumps, whatever the arm has done since the last
\* motion and whatever it does during this one.  On its first turn a motion
\* is a stride from where the arm was when Finish began, up to the staleness
\* of the feedback, and on every other turn a stride from the turn before; a
\* joint that has no motion is held where it is, up to that staleness.
NoJump ==
  [][pc = "run" /\ elapsed' > elapsed /\ ~blind /\ ~is_closed =>
       IF tasks[Joint] = 0 THEN Distance(command', q) <= MaxStale
       ELSE Distance(command', command) <= Stride + MaxStale]_<<vars, mvars>>
-----------------------------------------------------------------------------
(* The inductive invariant.                                                *)

\* A plan is made of positions: of the tracker's, once it has one, and of
\* what ControlArm was given.
PlannedFromFeedback ==
  /\ ready => measured \in Positions
  /\ ready /\ ~is_closed => Distance(measured, q) <= MaxStale
  /\ pending_actions[Joint] # 0 => target \in Targets
  /\ pc = "run" /\ tasks[Joint] # 0 => end_q \in Targets
  /\ pc = "run" /\ ~blind => ready /\ start_q \in Positions

\* The command, or where the arm was, is within the staleness of where the
\* motion was MaxDelay ago at most.
CommandOnWay ==
  pc = "run" /\ ~blind /\ ~is_closed /\ tasks[Joint] # 0 =>
    \E e \in 0 .. elapsed :
      /\ elapsed <= e + MaxDelay
      /\ Distance(command, Interpolated(start_q, end_q, Minimum(e, tasks[Joint]),
                                        tasks[Joint])) <= MaxStale
=============================================================================
