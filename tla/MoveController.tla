--------------------------- MODULE MoveController ---------------------------
(***************************************************************************)
(* b1::MoveController: the constructor (wait for odometry, reset it with   *)
(* retries), MoveToTarget / MoveToRelative, TurnAround, Stop and Close,    *)
(* beside the thread that handles odometry messages and the robot.         *)
(*                                                                         *)
(* The plane is a lattice in units of kDistanceTolerance (0.20 m); an      *)
(* angle is a number of ticks, 2 * kPi of them in a turn (0.2 rad is less  *)
(* than one).  A velocity, an offset, a cosine and a sine are kept as the  *)
(* signs of their components: one of eight directions, which a rotation by *)
(* eighths of a turn maps to each other.  An odometry message carries the  *)
(* position in the frame of the last reset and the yaw in one turn; the    *)
(* unwrapped yaw and the frame beside them are history the code never      *)
(* reads.  A loop's GetPose and the command computed from it are one step: *)
(* a pose that changes between the two is only read 20 ms later.           *)
(***************************************************************************)
EXTENDS Integers

CONSTANTS
  kPi,             \* ticks in half a turn
  Places,          \* the places of the lattice, as records of x and y
  Goals,           \* targets of MoveToTarget
  Offsets,         \* offsets of MoveToRelative
  Angles,          \* requests of TurnAround
  Origins,         \* where the odometry origin may be before the reset
  MaxLag,          \* how far the robot gets from a pose that is in use
  MaxYaw,          \* bound: the unwrapped yaw stays in -MaxYaw..MaxYaw
  MaxCalls,        \* bound: movement calls
  Timely,          \* whether resets the client gave up on, and the odometry
                   \* that follows a reset, arrive before the constructor
                   \* returns
  MaxLost,         \* bound: commands the network drops
  Supervised       \* whether another thread may Close during a movement

ASSUME MoveAssumption ==
  /\ kPi \in Nat \ {0}
  /\ Places \subseteq [x : Int, y : Int]
  /\ [x |-> 0, y |-> 0] \in Places
  /\ Origins \subseteq Places
  /\ Goals \subseteq [x : Int, y : Int]
  /\ Offsets \subseteq [x : Int, y : Int]
  /\ Angles \subseteq Int
  /\ MaxLag \in Nat
  /\ MaxYaw \in Nat
  /\ MaxCalls \in Nat
  /\ Timely \in BOOLEAN
  /\ MaxLost \in Nat
  /\ Supervised \in BOOLEAN

VARIABLES
  place, yaw, cmd,    \* the robot: where it is, what it executes
  origin, frame,      \* its odometry origin, and how often it was reset
  late,               \* a reset request the client gave up on is on its way
  odom,               \* the newest odometry message, not handled yet
  pose, ready,        \* PoseTracker: x_, y_ and theta_; ready_
  pc,                 \* the thread that calls the controller
  attempt,            \* RetryApiCall's counter
  target, hold,       \* MoveToTarget's x and y, and hold_theta
  accumulated, last_theta, angle,   \* TurnAround's locals; angle is 0
                      \* in a translation
  start, read,        \* history: the poses a call read first and last
  sent, lost,         \* the last command given to MoveCommand; those dropped
  result,             \* what the last movement call returned
  is_closed, calls

fvars == <<origin, frame, late>>
rvars == <<place, yaw, cmd, fvars>>
tvars == <<odom, pose, ready>>
lvars == <<target, hold, accumulated, last_theta, angle, start, read>>
cvars == <<sent, lost>>
vars  == <<rvars, tvars, pc, attempt, lvars, cvars, result, is_closed, calls>>

Nowhere == [x |-> 0, y |-> 0]
Zero  == [vx |-> 0, vy |-> 0, vyaw |-> 0]
Turns == 2 * kPi
Abs(a)  == IF a < 0 THEN -a ELSE a
Sign(a) == IF a < 0 THEN -1 ELSE IF a > 0 THEN 1 ELSE 0

\* NormalizeAngle's two loops, for the differences of two angles in a turn.
NormalizeAngleRaw(a) == a
NormalizeAngle(a) ==
  IF a > kPi THEN a - Turns ELSE IF a < -kPi THEN a + Turns ELSE a

Wrapped(a) == NormalizeAngle(a % Turns)

\* The signs of the cosine and the sine of an angle in one turn.
Cos(a) == Sign(kPi - (2 * Abs(a)))
Sin(a) == IF Abs(a) = kPi THEN 0 ELSE Sign(a)

\* The direction (x, y) turned by an angle; the opposite turn undoes it.
TurnX(x, y, a) == Sign((x * Cos(a)) - (y * Sin(a)))
TurnY(x, y, a) == Sign((x * Sin(a)) + (y * Cos(a)))

\* What the robot reports.
Odometry ==
  [x |-> place.x - origin.x, y |-> place.y - origin.y,
   theta |-> Wrapped(yaw), yaw |-> yaw, frame |-> frame]

Init ==
  /\ place = Nowhere /\ yaw = 0 /\ cmd = Zero
  /\ origin \in Origins /\ frame = 0 /\ late = FALSE
  /\ odom = Odometry
  /\ pose = [x |-> 0, y |-> 0, theta |-> 0, yaw |-> 0, frame |-> 0]
  /\ ready = FALSE
  /\ pc = "wait"
  /\ attempt = 0
  /\ target = Nowhere /\ hold = 0 /\ accumulated = 0 /\ last_theta = 0 /\ angle = 0
  /\ start = pose /\ read = pose
  /\ sent = Zero /\ lost = 0
  /\ result = "none"
  /\ is_closed = FALSE
  /\ calls = 0

-----------------------------------------------------------------------------
(* The robot and the odometry handler.                                     *)

Moving == {"rotate", "translate", "turn"}

\* The robot is within MaxLag of a pose: in each direction, if the pose is of
\* its present frame, and in yaw.
Near(p, at, angle_at) ==
  /\ Abs(angle_at - p.yaw) <= MaxLag
  /\ p.frame = frame => /\ Abs(at.x - origin.x - p.x) <= MaxLag
                        /\ Abs(at.y - origin.y - p.y) <= MaxLag

\* The robot carries out its command, one unit at a time, along its own axes;
\* it stops at the end of the lattice.  A loop that runs every 20 ms and
\* odometry that keeps coming bring a newer pose before the robot is further
\* than MaxLag from one that is on its way, tracked or used by the loop;
\* after CloseChannel there is none.
RobotMoves ==
  LET heading == Wrapped(yaw)
      next == [x |-> place.x + TurnX(cmd.vx, cmd.vy, heading),
               y |-> place.y + TurnY(cmd.vx, cmd.vy, heading)]
  IN  /\ cmd # Zero
      /\ place' = IF next \in Places THEN next ELSE place
      /\ yaw' = yaw + cmd.vyaw
      /\ Abs(yaw') <= MaxYaw
      /\ pc \in Moving /\ ~is_closed => \A p \in {read, pose, odom} : Near(p, place', yaw')
      /\ UNCHANGED <<cmd, fvars, tvars, pc, attempt, lvars, cvars, result, is_closed, calls>>

PublishOdometer ==
  /\ odom # Odometry
  /\ odom' = Odometry
  /\ UNCHANGED <<rvars, pose, ready, pc, attempt, lvars, cvars, result, is_closed, calls>>

\* PoseTracker::HandleMessage, until CloseChannel.
HandleMessage ==
  /\ ~is_closed
  /\ ~ready \/ pose # odom
  /\ pose' = odom
  /\ ready' = TRUE
  /\ UNCHANGED <<rvars, odom, pc, attempt, lvars, cvars, result, is_closed, calls>>

-----------------------------------------------------------------------------
(* The constructor.                                                        *)

\* WaitForTrackerReady returns.
TrackerReady ==
  /\ pc = "wait"
  /\ ready
  /\ pc' = "reset"
  /\ UNCHANGED <<rvars, tvars, attempt, lvars, cvars, result, is_closed, calls>>

\* It throws after five seconds: the constructor closes the channel.
TrackerTimeout ==
  /\ pc = "wait"
  /\ ~ready
  /\ pc' = "threw"
  /\ is_closed' = TRUE
  /\ UNCHANGED <<rvars, tvars, attempt, lvars, cvars, result, calls>>

kMaxRetriesTooMany == 6
kMaxRetries == 5

ResetTakesEffect ==
  /\ origin' = place
  /\ frame' = frame + 1

\* One ResetOdometry call of RetryApiCall.  A timeout is retried, whether the
\* robot has done the reset, will do it, or never got the request; any other
\* error is logged and ends the retries.
ResetOdometryForever ==
  /\ pc = "reset"
  /\ \/ ResetTakesEffect /\ pc' = "settle" /\ UNCHANGED attempt
     \/ /\ attempt' = (attempt + 1) % kMaxRetries
        /\ UNCHANGED <<origin, frame, pc>>
  /\ UNCHANGED <<place, yaw, cmd, late, tvars, lvars, cvars, result, is_closed, calls>>
ResetOdometry ==
  /\ pc = "reset"
  /\ \/ ResetTakesEffect /\ pc' = "settle" /\ UNCHANGED <<attempt, late>>
     \/ /\ \/ ResetTakesEffect /\ UNCHANGED late
           \/ late' \in {late, TRUE} /\ UNCHANGED <<origin, frame>>
        /\ attempt' = attempt + 1
        /\ pc' = IF attempt + 1 < kMaxRetries THEN "reset" ELSE "settle"
     \/ UNCHANGED <<fvars, attempt>> /\ pc' = "settle"
  /\ UNCHANGED <<place, yaw, cmd, tvars, lvars, cvars, result, is_closed, calls>>

\* The robot gets a request whose caller has timed out.
LateReset ==
  /\ late
  /\ late' = FALSE
  /\ ResetTakesEffect
  /\ UNCHANGED <<place, yaw, cmd, tvars, pc, attempt, lvars, cvars, result, is_closed, calls>>

\* The 100 ms sleep, and the end of the constructor.
Constructed ==
  /\ pc = "settle"
  /\ Timely => ~late /\ pose.frame = frame
  /\ pc' = "idle"
  /\ attempt' = 0
  /\ UNCHANGED <<rvars, tvars, lvars, cvars, result, is_closed, calls>>

-----------------------------------------------------------------------------
(* Commands.                                                               *)

\* SafeMove: MoveCommand is fire-and-forget, an error is only logged.
SafeMove(c) ==
  /\ sent' = c
  /\ \/ cmd' = c /\ UNCHANGED lost
     \/ cmd # c /\ lost < MaxLost /\ lost' = lost + 1 /\ UNCHANGED cmd

Stop == SafeMove(Zero)

ReturnWithoutStop(r) ==
  /\ UNCHANGED <<cvars, cmd>>
  /\ result' = r
  /\ pc' = "idle"
Return(r) ==
  /\ Stop
  /\ result' = r
  /\ pc' = "idle"

-----------------------------------------------------------------------------
(* MoveToTarget.                                                           *)

BeginMove(goal) ==
  /\ pc = "idle" /\ calls < MaxCalls
  /\ calls' = calls + 1
  /\ target' = goal
  /\ angle' = 0
  /\ result' = "none"
  /\ pc' = "rotate"
  /\ start' = pose /\ read' = pose
  /\ UNCHANGED <<rvars, tvars, attempt, hold, accumulated, last_theta, cvars, is_closed>>

MoveToTarget == \E goal \in Goals : BeginMove(goal)

\* The offset is added to the tracked position, in the axes of the odometry.
MoveToRelative ==
  \E d \in Offsets : BeginMove([x |-> pose.x + d.x, y |-> pose.y + d.y])

Dx == target.x - pose.x
Dy == target.y - pose.y

\* The square of the distance.
Distance2 == (Dx * Dx) + (Dy * Dy)

\* atan2 of a direction, in eighths of a turn.
Eighth(dx, dy) ==
  CASE dx > 0 -> dy
    [] dx = 0 -> 2 * dy
    [] OTHER  -> IF dy = 0 THEN 4 ELSE 3 * dy
TargetHeading == (kPi * Eighth(Sign(Dx), Sign(Dy))) \div 4
HeadingError  == NormalizeAngle(TargetHeading - pose.theta)

\* A turn of the first loop that does not leave it.
RotateTowards ==
  /\ pc = "rotate"
  /\ Distance2 >= 9 /\ HeadingError # 0
  /\ SafeMove([vx |-> 0, vy |-> 0, vyaw |-> Sign(HeadingError)])
  /\ read' = pose
  /\ UNCHANGED <<place, yaw, fvars, tvars, pc, attempt, target, hold, accumulated, last_theta,
                 angle, start, result, is_closed, calls>>

\* It is left near the target, when aligned, or after five seconds: the
\* robot is stopped and the heading to hold is read.
RotationDone ==
  /\ pc = "rotate"
  /\ SafeMove(Zero)
  /\ hold' = pose.theta
  /\ read' = pose
  /\ pc' = "translate"
  /\ UNCHANGED <<place, yaw, fvars, tvars, attempt, target, accumulated, last_theta,
                 angle, start, result, is_closed, calls>>

\* Within 0.20 m of the target.
ArrivedEarly == Distance2 < 9
Arrived == Distance2 < 1

\* The offset, turned into the axes of the robot by the yaw that was read.
TurnedWrongWay ==
  [vx |-> TurnX(Sign(Dx), Sign(Dy), pose.theta),
   vy |-> TurnY(Sign(Dx), Sign(Dy), pose.theta),
   vyaw |-> Sign(NormalizeAngle(hold - pose.theta))]
Velocity ==
  [vx |-> TurnX(Sign(Dx), Sign(Dy), -pose.theta),
   vy |-> TurnY(Sign(Dx), Sign(Dy), -pose.theta),
   vyaw |-> Sign(NormalizeAngle(hold - pose.theta))]

Translate ==
  /\ pc = "translate"
  /\ IF Arrived
       THEN Return("true")
       ELSE SafeMove(Velocity) /\ UNCHANGED <<pc, result>>
  /\ read' = pose
  /\ UNCHANGED <<place, yaw, fvars, tvars, attempt, target, hold, accumulated, last_theta,
                 angle, start, is_closed, calls>>

-----------------------------------------------------------------------------
(* TurnAround.                                                             *)

TurnAround ==
  /\ pc = "idle" /\ calls < MaxCalls
  /\ calls' = calls + 1
  /\ \E a \in Angles : angle' = a
  /\ accumulated' = 0
  /\ last_theta' = pose.theta
  /\ start' = pose /\ read' = pose
  /\ result' = "none"
  /\ pc' = "turn"
  /\ UNCHANGED <<rvars, tvars, attempt, target, hold, cvars, is_closed>>

\* One turn of the loop: a positive angle turns clockwise.
Turn ==
  LET sum == accumulated + Abs(NormalizeAngle(pose.theta - last_theta))
  IN  /\ pc = "turn"
      /\ accumulated' = sum
      /\ last_theta' = pose.theta
      /\ read' = pose
      /\ IF sum >= Abs(angle)
           THEN Return("true")
           ELSE /\ SafeMove([vx |-> 0, vy |-> 0, vyaw |-> IF angle > 0 THEN -1 ELSE 1])
                /\ UNCHANGED <<pc, result>>
      /\ UNCHANGED <<place, yaw, fvars, tvars, attempt, target, hold, angle, start,
                     is_closed, calls>>

\* catch (...) of the movement methods.
MovementThrows ==
  /\ pc \in Moving
  /\ Return("false")
  /\ UNCHANGED <<place, yaw, fvars, tvars, attempt, lvars, is_closed, calls>>

-----------------------------------------------------------------------------

\* Close, by the caller or by the destructor; a second call returns at once.
Close ==
  /\ pc = "idle" \/ (Supervised /\ pc \in Moving)
  /\ ~is_closed
  /\ Stop
  /\ is_closed' = TRUE
  /\ pc' = IF pc = "idle" THEN "closed" ELSE pc
  /\ UNCHANGED <<place, yaw, fvars, tvars, attempt, lvars, result, calls>>

Construction == TrackerReady \/ TrackerTimeout \/ ResetOdometry \/ Constructed
Control      == RotateTowards \/ RotationDone \/ Translate \/ Turn

Next ==
  \/ RobotMoves \/ LateReset \/ PublishOdometer \/ HandleMessage
  \/ Construction
  \/ MoveToTarget \/ MoveToRelative \/ TurnAround
  \/ Control \/ MovementThrows
  \/ Close

Spec == Init /\ [][Next]_vars

\* The control thread and the odometry keep running, the robot obeys, the
\* five seconds of the rotation loop pass; the network drops MaxLost commands at most.
FairSpec ==
  /\ Spec
  /\ WF_vars(Construction)
  /\ WF_vars(RotateTowards) /\ WF_vars(RotationDone)
  /\ WF_vars(Translate) /\ WF_vars(Turn)
  /\ WF_vars(RobotMoves) /\ WF_vars(LateReset)
  /\ WF_vars(PublishOdometer) /\ WF_vars(HandleMessage)

-----------------------------------------------------------------------------
(* Properties.                                                             *)

Commands == [vx : -1 .. 1, vy : -1 .. 1, vyaw : -1 .. 1]
Poses    == [x : Int, y : Int, theta : -kPi .. kPi, yaw : Int, frame : Nat]

\* Every pose the tracker holds has its yaw in one turn; commands, counters
\* and phases are what the code can produce.
TypeOK ==
  /\ place \in Places /\ yaw \in Int /\ cmd \in Commands
  /\ origin \in Places /\ frame \in Nat /\ late \in BOOLEAN
  /\ odom \in Poses /\ pose \in Poses /\ ready \in BOOLEAN
  /\ pc \in {"wait", "reset", "settle", "idle", "threw", "closed"} \cup Moving
  /\ attempt \in 0 .. 5
  /\ target \in [x : Int, y : Int] /\ hold \in -kPi .. kPi
  /\ accumulated \in Nat /\ last_theta \in -kPi .. kPi /\ angle \in Int
  /\ start \in Poses /\ read \in Poses
  /\ sent \in Commands /\ lost \in 0 .. MaxLost
  /\ result \in {"none", "true", "false"}
  /\ is_closed \in BOOLEAN
  /\ calls \in 0 .. MaxCalls

\* However a movement call ended, and after Close, the last command the
\* controller issued is the zero command.
QuietWhenIdle == pc \in {"idle", "threw", "closed"} => sent = Zero

\* MoveToTarget returns true only with the robot near the target in the
\* robot's odometry frame: it has read a pose within the tolerance and was
\* never further than MaxLag from that, unless the fire-and-forget Stop was
\* lost and the robot drives on.
ArrivesNear ==
  pc = "idle" /\ result = "true" /\ angle = 0 /\ cmd = Zero /\ ~is_closed =>
    /\ Abs(place.x - origin.x - target.x) <= MaxLag
    /\ Abs(place.y - origin.y - target.y) <= MaxLag

\* TurnAround's sum of wrapped yaw changes is the rotation from the pose the
\* call started with to the pose it read last, however many turns that is.
AccumulatedExact == pc = "turn" => accumulated = Abs(read.yaw - start.yaw)

\* TurnAround returns true only after the robot has turned by the requested
\* angle in the requested direction, as doc and name of the function say.
TurnsEnough ==
  pc = "idle" /\ result = "true" /\ angle # 0 =>
    (IF angle > 0 THEN start.yaw - yaw ELSE yaw - start.yaw) >= Abs(angle)

\* "Translation methods use the reset odometry frame": a movement never uses
\* a pose measured before a reset that the robot has carried out.
UsesResetFrame == pc \in Moving => read.frame = frame

\* Close "Stops the robot": the last command after it is the zero command.
CloseStops == is_closed => sent = Zero

\* The constructor returns or throws.
ConstructionEnds == <>(pc \notin {"wait", "reset", "settle"})

\* A movement whose robot obeys comes to its end.
MovementEnds == pc \in Moving ~> pc = "idle"
=============================================================================
