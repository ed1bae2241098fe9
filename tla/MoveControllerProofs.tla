------------------------ MODULE MoveControllerProofs ------------------------
(***************************************************************************)
(* Every way out of a movement call issues the zero command, the variables *)
(* keep their types, the first turn of a controller is exact and its first *)
(* translation ends near the target; the speeds it commands keep within    *)
(* their bounds for every pose, target and speed.                          *)
(***************************************************************************)
EXTENDS MoveController, Speeds, TLAPS

\* The zero command is the last one issued whenever no movement loop runs.
QuietUnlessMoving == pc \notin Moving => sent = Zero

\* For every lattice, turn, request, delay and loss of commands: after a movement
\* call has returned, however it ended, the last command issued is zero.
THEOREM CallsEndQuiet == Spec => []QuietWhenIdle
<1>1. Init => QuietUnlessMoving
  BY DEF Init, QuietUnlessMoving
<1>2. QuietUnlessMoving /\ [Next]_vars => QuietUnlessMoving'
  <2> SUFFICES ASSUME QuietUnlessMoving, [Next]_vars PROVE QuietUnlessMoving'
    OBVIOUS
  <2> USE DEF QuietUnlessMoving, Moving
  <2>1. CASE RobotMoves \/ LateReset \/ PublishOdometer \/ HandleMessage \/ Construction
    BY <2>1 DEF RobotMoves, LateReset, PublishOdometer, HandleMessage, Construction,
       TrackerReady, TrackerTimeout, ResetOdometry, Constructed, cvars
  <2>2. CASE MoveToTarget \/ MoveToRelative \/ TurnAround
    BY <2>2 DEF MoveToTarget, MoveToRelative, TurnAround, BeginMove
  <2>3. CASE RotateTowards \/ RotationDone
    BY <2>3 DEF RotateTowards, RotationDone
  <2>4. CASE Translate \/ Turn \/ MovementThrows
    BY <2>4 DEF Translate, Turn, MovementThrows, Return, Stop, SafeMove
  <2>5. CASE Close
    BY <2>5 DEF Close, Stop, SafeMove
  <2>6. CASE UNCHANGED vars
    BY <2>6 DEF vars, cvars
  <2> QED BY <2>1, <2>2, <2>3, <2>4, <2>5, <2>6 DEF Next, Control
<1>3. QuietUnlessMoving => QuietWhenIdle
  BY DEF QuietUnlessMoving, QuietWhenIdle, Moving
<1> QED BY <1>1, <1>2, <1>3, PTL DEF Spec

-----------------------------------------------------------------------------
(* The types, for any resolution of the yaw and any places.                *)

\* NormalizeAngle brings the yaw of a message into one turn.
LEMMA WrappedRange == \A a \in Int : Wrapped(a) \in -kPi .. kPi
<1> SUFFICES ASSUME NEW a \in Int PROVE Wrapped(a) \in -kPi .. kPi
  OBVIOUS
<1>1. Turns \in Nat /\ Turns > 0 /\ Turns = kPi + kPi /\ kPi \in Nat
  BY MoveAssumption DEF Turns
<1> HIDE DEF Turns
<1>2. (a % Turns) \in 0 .. (Turns - 1)
  BY <1>1
<1> QED BY <1>1, <1>2 DEF Wrapped, NormalizeAngle

\* The constructor stops trying before the retries are used up.
TypeInv == TypeOK /\ (pc \in {"wait", "reset"} => attempt < kMaxRetries)

LEMMA OdometryType ==
  ASSUME place \in Places, yaw \in Int, origin \in Places, frame \in Nat
  PROVE  Odometry \in Poses
<1>1. place.x - origin.x \in Int /\ place.y - origin.y \in Int
  BY MoveAssumption
<1> QED BY <1>1, WrappedRange DEF Odometry, Poses

LEMMA MoveTypeInit == Init => TypeInv
<1> SUFFICES ASSUME Init PROVE TypeInv
  OBVIOUS
<1>1. place \in Places /\ yaw \in Int /\ origin \in Places /\ frame \in Nat
  BY MoveAssumption DEF Init, Nowhere
<1>2. odom \in Poses
  BY <1>1, OdometryType DEF Init
<1>3. 0 \in -kPi .. kPi
  BY MoveAssumption
<1>4. pose \in Poses /\ start \in Poses /\ read \in Poses
  BY <1>3 DEF Init, Poses
<1>5. Zero \in Commands
  BY DEF Zero, Commands
<1>6. attempt \in 0 .. 5 /\ calls \in 0 .. MaxCalls /\ accumulated \in Nat /\ lost \in 0 .. MaxLost
  BY MoveAssumption DEF Init
<1>7. /\ pc = "wait" /\ attempt = 0 /\ result = "none"
      /\ late = FALSE /\ ready = FALSE /\ is_closed = FALSE
      /\ cmd = Zero /\ sent = Zero
      /\ target = Nowhere /\ hold = 0 /\ last_theta = 0 /\ angle = 0
  BY DEF Init
<1>8. TypeOK
  <2>1. /\ late \in BOOLEAN /\ ready \in BOOLEAN /\ is_closed \in BOOLEAN
        /\ cmd \in Commands /\ sent \in Commands
    BY <1>5, <1>7
  <2>2. /\ pc \in {"wait", "reset", "settle", "idle", "threw", "closed"} \cup Moving
        /\ result \in {"none", "true", "false"}
    BY <1>7
  <2>3. /\ target \in [x : Int, y : Int] /\ angle \in Int
        /\ hold \in -kPi .. kPi /\ last_theta \in -kPi .. kPi
    BY <1>3, <1>7 DEF Nowhere
  <2> QED BY <1>1, <1>2, <1>4, <1>6, <2>1, <2>2, <2>3, Zenon DEF TypeOK
<1> QED BY <1>7, <1>8 DEF TypeInv, kMaxRetries

LEMMA ResetTypes ==
  ASSUME TypeOK, ResetTakesEffect
  PROVE  frame' \in Nat /\ origin' \in Places
<1>1. frame \in Nat /\ place \in Places /\ frame' = frame + 1 /\ origin' = place
  BY DEF TypeOK, ResetTakesEffect
<1> QED BY <1>1

\* The robot and the odometry.
LEMMA RobotTypes ==
  ASSUME TypeInv, RobotMoves \/ LateReset \/ PublishOdometer \/ HandleMessage
  PROVE  TypeInv'
<1> USE DEF TypeInv, TypeOK, rvars, fvars, tvars, lvars, cvars, Moving
<1>1. CASE RobotMoves
  <2>1. place' \in Places
    BY <1>1 DEF RobotMoves
  <2>2. yaw' \in Int
    BY <1>1 DEF RobotMoves, Commands
  <2> QED BY <1>1, <2>1, <2>2 DEF RobotMoves
<1>2. CASE LateReset
  <2>1. frame' \in Nat /\ origin' \in Places
    BY <1>2, ResetTypes DEF LateReset
  <2> QED BY <1>2, <2>1 DEF LateReset
<1>3. CASE PublishOdometer
  <2>1. odom' \in Poses
    BY <1>3, OdometryType DEF PublishOdometer
  <2> QED BY <1>3, <2>1 DEF PublishOdometer
<1>4. CASE HandleMessage
  BY <1>4 DEF HandleMessage
<1> QED BY <1>1, <1>2, <1>3, <1>4

\* The constructor.
LEMMA ConstructionTypes ==
  ASSUME TypeInv, Construction PROVE TypeInv'
<1> USE DEF TypeInv, TypeOK, rvars, fvars, tvars, lvars, cvars, Moving
<1>1. CASE TrackerReady
  BY <1>1 DEF TrackerReady, kMaxRetries
<1>2. CASE TrackerTimeout
  BY <1>2 DEF TrackerTimeout
<1>3. CASE ResetOdometry
  <2>1. frame' \in Nat /\ origin' \in Places /\ late' \in BOOLEAN
    BY <1>3, ResetTypes DEF ResetOdometry
  <2>2. /\ attempt' \in 0 .. 5 /\ pc' \in {"reset", "settle"}
        /\ pc' = "reset" => attempt' < kMaxRetries
    <3>1. attempt \in Nat /\ attempt < 5
      BY <1>3 DEF ResetOdometry, kMaxRetries
    <3>2. CASE attempt' = attempt /\ pc' = "settle"
      BY <3>1, <3>2
    <3>3. CASE /\ attempt' = attempt + 1
               /\ pc' = IF attempt + 1 < 5 THEN "reset" ELSE "settle"
      BY <3>1, <3>3 DEF kMaxRetries
    <3> QED BY <1>3, <3>2, <3>3 DEF ResetOdometry, kMaxRetries
  <2> QED BY <1>3, <2>1, <2>2 DEF ResetOdometry
<1>4. CASE Constructed
  BY <1>4 DEF Constructed
<1> QED BY <1>1, <1>2, <1>3, <1>4 DEF Construction

\* A command is one of the robot's.
LEMMA SafeMoveTypes ==
  ASSUME TypeOK, NEW c \in Commands, SafeMove(c)
  PROVE  sent' \in Commands /\ cmd' \in Commands /\ lost' \in 0 .. MaxLost
BY MoveAssumption DEF SafeMove, TypeOK

LEMMA SignType == \A a : Sign(a) \in -1 .. 1
BY DEF Sign

\* Movement calls.
LEMMA BeginTypes ==
  ASSUME TypeInv, MoveToTarget \/ MoveToRelative \/ TurnAround PROVE TypeInv'
<1> USE MoveAssumption DEF TypeInv, TypeOK, rvars, fvars, tvars, lvars, cvars, Moving
<1>1. ASSUME NEW goal \in [x : Int, y : Int], BeginMove(goal) PROVE TypeInv'
  <2>1. calls' \in 0 .. MaxCalls
    BY <1>1 DEF BeginMove
  <2> QED BY <1>1, <2>1 DEF BeginMove
<1>2. CASE TurnAround
  <2>1. calls' \in 0 .. MaxCalls /\ angle' \in Int /\ accumulated' \in Nat
    BY <1>2 DEF TurnAround
  <2>2. last_theta' \in -kPi .. kPi
    BY <1>2 DEF TurnAround, Poses
  <2> QED BY <1>2, <2>1, <2>2 DEF TurnAround
<1>3. \A goal \in Goals : goal \in [x : Int, y : Int]
  OBVIOUS
<1>4. \A d \in Offsets : [x |-> pose.x + d.x, y |-> pose.y + d.y] \in [x : Int, y : Int]
  BY DEF Poses
<1> QED BY <1>1, <1>2, <1>3, <1>4 DEF MoveToTarget, MoveToRelative

\* Movement loops and the end of a movement.
LEMMA ControlTypes ==
  ASSUME TypeInv, Control \/ MovementThrows \/ Close PROVE TypeInv'
<1> USE DEF TypeInv, TypeOK, rvars, fvars, tvars, lvars, cvars, Moving
<1>0. Zero \in Commands /\ pose.theta \in -kPi .. kPi
  BY DEF Zero, Commands, Poses
<1>1. CASE RotateTowards
  <2>1. [vx |-> 0, vy |-> 0, vyaw |-> Sign(HeadingError)] \in Commands
    BY SignType DEF Commands
  <2>2. sent' \in Commands /\ cmd' \in Commands /\ lost' \in 0 .. MaxLost
    BY <1>1, <2>1, SafeMoveTypes DEF RotateTowards
  <2> QED BY <1>1, <2>2 DEF RotateTowards
<1>2. CASE RotationDone
  <2>1. sent' \in Commands /\ cmd' \in Commands /\ lost' \in 0 .. MaxLost
    BY <1>0, <1>2, SafeMoveTypes DEF RotationDone
  <2> QED BY <1>0, <1>2, <2>1 DEF RotationDone
<1>3. CASE Translate
  <2>1. Velocity \in Commands
    BY SignType DEF Velocity, TurnX, TurnY, Commands
  <2>2. sent' \in Commands /\ cmd' \in Commands /\ lost' \in 0 .. MaxLost
    BY <1>0, <1>3, <2>1, SafeMoveTypes DEF Translate, Return, Stop
  <2>3. pc' \in {"translate", "idle"} /\ result' \in {"none", "true", "false"}
    BY <1>3 DEF Translate, Return
  <2> QED BY <1>3, <2>2, <2>3 DEF Translate
<1>4. CASE Turn
  <2>1. [vx |-> 0, vy |-> 0, vyaw |-> IF angle > 0 THEN -1 ELSE 1] \in Commands
    BY DEF Commands
  <2>2. sent' \in Commands /\ cmd' \in Commands /\ lost' \in 0 .. MaxLost
    BY <1>0, <1>4, <2>1, SafeMoveTypes DEF Turn, Return, Stop
  <2>3. pc' \in {"turn", "idle"} /\ result' \in {"none", "true", "false"}
    BY <1>4 DEF Turn, Return
  <2>4. accumulated' \in Nat
    <3>1. \A a, b \in -kPi .. kPi : NormalizeAngle(a - b) \in Int
      BY MoveAssumption DEF NormalizeAngle, Turns
    <3>2. \A a \in Int : Abs(a) \in Nat
      BY DEF Abs
    <3>3. Abs(NormalizeAngle(pose.theta - last_theta)) \in Nat
      BY <1>0, <3>1, <3>2
    <3>4. accumulated' = accumulated + Abs(NormalizeAngle(pose.theta - last_theta))
      BY <1>4 DEF Turn
    <3> QED BY <3>3, <3>4
  <2> QED BY <1>0, <1>4, <2>2, <2>3, <2>4 DEF Turn
<1>5. CASE MovementThrows
  <2>1. sent' \in Commands /\ cmd' \in Commands /\ lost' \in 0 .. MaxLost
    BY <1>0, <1>5, SafeMoveTypes DEF MovementThrows, Return, Stop
  <2> QED BY <1>5, <2>1 DEF MovementThrows, Return
<1>6. CASE Close
  <2>1. sent' \in Commands /\ cmd' \in Commands /\ lost' \in 0 .. MaxLost
    BY <1>0, <1>6, SafeMoveTypes DEF Close, Stop
  <2> QED BY <1>6, <2>1 DEF Close
<1> QED BY <1>1, <1>2, <1>3, <1>4, <1>5, <1>6 DEF Control

LEMMA TypeInvStep == TypeInv /\ [Next]_vars => TypeInv'
<1> SUFFICES ASSUME TypeInv, [Next]_vars PROVE TypeInv'
  OBVIOUS
<1>1. CASE UNCHANGED vars
  BY <1>1 DEF TypeInv, TypeOK, vars, rvars, fvars, tvars, lvars, cvars, Moving
<1> QED BY <1>1, RobotTypes, ConstructionTypes, BeginTypes, ControlTypes DEF Next

\* Poses keep their yaw in one turn, and the constructor sends at most five
\* reset requests, whatever the messages and the network do.
THEOREM TypeCorrect == Spec => []TypeOK
<1>1. TypeInv => TypeOK
  BY DEF TypeInv
<1> QED BY <1>1, TypeInvStep, MoveTypeInit, PTL DEF Spec

-----------------------------------------------------------------------------
(* The sum of TurnAround.                                                  *)

\* The yaw of a message differs from the robot's by whole turns.
LEMMA WrappedCongruent == \A a \in Int : \E k \in Int : Wrapped(a) = a + (k * Turns)
<1> SUFFICES ASSUME NEW a \in Int PROVE \E k \in Int : Wrapped(a) = a + (k * Turns)
  OBVIOUS
<1>1. Turns \in Nat /\ Turns > 0
  BY MoveAssumption DEF Turns
<1> HIDE DEF Turns
<1> DEFINE d == a \div Turns
<1>2. d \in Int /\ a = (Turns * d) + (a % Turns) /\ (a % Turns) \in 0 .. (Turns - 1)
  BY <1>1
<1>3. (a % Turns) = a + ((-d) * Turns)
  BY <1>1, <1>2
<1>4. (a % Turns) - Turns = a + ((-d - 1) * Turns)
  BY <1>1, <1>2, <1>3
<1>5. (a % Turns) + Turns = a + ((-d + 1) * Turns)
  BY <1>1, <1>2, <1>3
<1>6. -d \in Int /\ -d - 1 \in Int /\ -d + 1 \in Int
  BY <1>2
<1>7. Wrapped(a) \in {a % Turns, (a % Turns) - Turns, (a % Turns) + Turns}
  BY DEF Wrapped, NormalizeAngle
<1> HIDE DEF d
<1> QED BY <1>3, <1>4, <1>5, <1>6, <1>7

\* Of two angles no further than half a turn apart NormalizeAngle finds the
\* size of the rotation between them, although it sees them in one turn.
LEMMA WrappedDifference ==
  ASSUME NEW a \in Int, NEW b \in Int, Abs(b - a) <= kPi
  PROVE  Abs(NormalizeAngle(Wrapped(b) - Wrapped(a))) = Abs(b - a)
<1> DEFINE n == NormalizeAngle(Wrapped(b) - Wrapped(a))
<1>1. Turns \in Nat /\ Turns > 0 /\ Turns = kPi + kPi /\ kPi \in Nat
  BY MoveAssumption DEF Turns
<1> HIDE DEF Turns
<1>2. Wrapped(a) \in -kPi .. kPi /\ Wrapped(b) \in -kPi .. kPi
  BY WrappedRange
<1>3. PICK j \in Int, k \in Int :
        Wrapped(a) = a + (j * Turns) /\ Wrapped(b) = b + (k * Turns)
  BY WrappedCongruent
<1>4. (k * Turns) - (j * Turns) = (k - j) * Turns /\ k - j \in Int
  BY <1>1, <1>3
<1>5. \E i \in Int : n = (b - a) + (i * Turns)
  <2>1. Wrapped(b) - Wrapped(a) = (b - a) + ((k - j) * Turns)
    BY <1>1, <1>3, <1>4
  <2>2. ((k - j) * Turns) - Turns = (k - j - 1) * Turns /\ k - j - 1 \in Int
    BY <1>1, <1>3
  <2>3. ((k - j) * Turns) + Turns = (k - j + 1) * Turns /\ k - j + 1 \in Int
    BY <1>1, <1>3
  <2>4. /\ ((k - j) * Turns) \in Int /\ ((k - j - 1) * Turns) \in Int
        /\ ((k - j + 1) * Turns) \in Int
    BY <1>1, <1>3
  <2> DEFINE w == Wrapped(b) - Wrapped(a)
             x == (k - j) * Turns  y == (k - j - 1) * Turns  z == (k - j + 1) * Turns
  <2>5. n \in {w, w - Turns, w + Turns}
    BY DEF NormalizeAngle
  <2>6. w = (b - a) + x /\ y = x - Turns /\ z = x + Turns /\ x \in Int
    BY <2>1, <2>2, <2>3, <2>4
  <2> HIDE DEF w, x, y, z, n
  <2>7. n = (b - a) + x \/ n = (b - a) + y \/ n = (b - a) + z
    BY <1>1, <2>5, <2>6
  <2> QED BY <1>4, <2>2, <2>3, <2>7 DEF x, y, z
<1>6. n \in -kPi .. kPi
  BY <1>1, <1>2 DEF NormalizeAngle
<1>7. PICK i \in Int : n = (b - a) + (i * Turns)
  BY <1>5
<1>8. i * Turns \in -Turns .. Turns
  <2>1. i * Turns \in Int /\ b - a \in -kPi .. kPi
    BY <1>1 DEF Abs
  <2> DEFINE x == i * Turns
  <2>2. x \in Int /\ n = (b - a) + x
    BY <1>7, <2>1
  <2> HIDE DEF x, n
  <2>3. x \in -Turns .. Turns
    BY <1>1, <1>6, <2>1, <2>2
  <2> QED BY <2>3 DEF x
<1>9. i \in -1 .. 1
  <2>1. ASSUME i >= 2 PROVE i * Turns > Turns
    BY <1>1, <2>1
  <2>2. ASSUME i <= -2 PROVE i * Turns < -Turns
    BY <1>1, <2>2
  <2> QED BY <1>1, <1>8, <2>1, <2>2
<1>10. n = b - a \/ n = (b - a) + Turns \/ n = (b - a) - Turns
  <2>1. i * Turns = 0 \/ i * Turns = Turns \/ i * Turns = -Turns
    BY <1>1, <1>9
  <2> QED BY <1>1, <1>7, <2>1
<1> HIDE DEF n
<1>11. Abs(n) = Abs(b - a)
  BY <1>1, <1>6, <1>10 DEF Abs
<1> QED BY <1>11 DEF n

\* The direction of the turn, and b no less far along it than a.
Dir         == IF angle > 0 THEN -1 ELSE 1
Along(a, b) == IF angle > 0 THEN b <= a ELSE a <= b

\* The inductive invariant of a controller's first turn: what the loop has
\* read trails the tracker, the tracker the newest message, and that message
\* the robot, which has only turned one way.
WrappedMessages == odom.theta = Wrapped(odom.yaw) /\ pose.theta = Wrapped(pose.yaw)

BeforeCall ==
  /\ pc \in {"wait", "reset", "settle"} => calls = 0
  /\ calls = 0 => /\ yaw = 0 /\ cmd = Zero /\ odom.yaw = 0 /\ pose.yaw = 0
                  /\ result = "none" /\ pc \notin Moving

Translating == pc \in {"rotate", "translate"} => angle = 0

WhileTurning ==
  pc = "turn" =>
    /\ start.yaw = 0 /\ result = "none"
    /\ last_theta = Wrapped(read.yaw) /\ accumulated = Abs(read.yaw)
    /\ cmd.vyaw \in {0, Dir}
    /\ Along(0, read.yaw) /\ Along(read.yaw, pose.yaw)
    /\ Along(pose.yaw, odom.yaw) /\ Along(odom.yaw, yaw)
    /\ Abs((IF is_closed THEN pose.yaw ELSE yaw) - read.yaw) <= MaxLag

AfterTurn ==
  pc = "idle" /\ result = "true" /\ angle # 0 =>
    /\ start.yaw = 0 /\ cmd.vyaw \in {0, Dir}
    /\ Along(0, read.yaw) /\ Along(read.yaw, yaw)
    /\ Abs(read.yaw) >= Abs(angle)

TurnInv ==
  TypeInv /\ WrappedMessages /\ BeforeCall /\ Translating /\ WhileTurning /\ AfterTurn

LEMMA YawTypes ==
  ASSUME TypeOK
  PROVE  /\ yaw \in Int /\ odom.yaw \in Int /\ pose.yaw \in Int /\ read.yaw \in Int
         /\ start.yaw \in Int /\ cmd.vyaw \in -1 .. 1 /\ angle \in Int
BY DEF TypeOK, Poses, Commands

LEMMA TurnInvInit == Init => TurnInv
<1> SUFFICES ASSUME Init PROVE TurnInv
  OBVIOUS
<1>1. TypeInv
  BY MoveTypeInit
<1>2. odom.theta = Wrapped(odom.yaw) /\ odom.yaw = 0
  BY DEF Init, Odometry
<1>3. pose.theta = 0 /\ pose.yaw = 0
  BY DEF Init
<1>4. Wrapped(0) = 0
  <2>1. Turns \in Nat /\ Turns > 0 /\ kPi \in Nat
    BY MoveAssumption DEF Turns
  <2> HIDE DEF Turns
  <2>2. 0 % Turns = 0
    BY <2>1
  <2> QED BY <2>1, <2>2 DEF Wrapped, NormalizeAngle
<1>5. WrappedMessages
  BY <1>2, <1>3, <1>4 DEF WrappedMessages
<1>6. pc = "wait" /\ result = "none" /\ calls = 0 /\ yaw = 0 /\ cmd = Zero
  BY DEF Init
<1> QED BY <1>1, <1>2, <1>3, <1>5, <1>6
        DEF TurnInv, BeforeCall, Translating, WhileTurning, AfterTurn, Moving

\* The robot and its messages.
LEMMA RobotTurnStep ==
  ASSUME TurnInv, TypeInv', RobotMoves \/ LateReset \/ PublishOdometer \/ HandleMessage
  PROVE  TurnInv'
<1> USE DEF TurnInv, TypeInv, rvars, fvars, tvars, lvars
<1>0. TypeOK /\ MaxLag \in Nat
  BY MoveAssumption
<1>1. CASE RobotMoves
  <2>1. /\ UNCHANGED <<cmd, fvars, tvars, pc, attempt, lvars, cvars, result, is_closed, calls>>
        /\ yaw' = yaw + cmd.vyaw /\ cmd # Zero
        /\ pc = "turn" /\ ~is_closed => Abs(yaw' - read.yaw) <= MaxLag
    BY <1>1 DEF RobotMoves, Moving, Near
  <2>2. WrappedMessages' /\ Translating'
    BY <2>1 DEF WrappedMessages, Translating
  <2>3. BeforeCall'
    BY <2>1 DEF BeforeCall
  <2>4. ASSUME NEW a \in Int, Along(a, yaw), cmd.vyaw \in {0, Dir} PROVE Along(a, yaw')
    <3>1. yaw \in Int /\ angle \in Int
      BY <1>0, YawTypes
    <3> QED BY <2>1, <2>4, <3>1 DEF Along, Dir
  <2>5. Dir' = Dir /\ \A a, b : Along(a, b)' = Along(a, b)
    BY <2>1 DEF Dir, Along
  <2>6. odom.yaw \in Int /\ read.yaw \in Int
    BY <1>0, YawTypes
  <2>7. WhileTurning'
    BY <2>1, <2>4, <2>5, <2>6 DEF WhileTurning, Along, Dir
  <2>8. AfterTurn'
    BY <2>1, <2>4, <2>5, <2>6 DEF AfterTurn, Along, Dir
  <2> QED BY <2>2, <2>3, <2>7, <2>8
<1>2. CASE LateReset
  <2>1. UNCHANGED <<yaw, cmd, tvars, pc, lvars, result, is_closed, calls>>
    BY <1>2 DEF LateReset
  <2> QED BY <2>1 DEF WrappedMessages, BeforeCall, Translating, WhileTurning, AfterTurn, Along, Dir
<1>3. CASE PublishOdometer
  <2>1. UNCHANGED <<yaw, cmd, pose, pc, lvars, result, is_closed, calls>>
        /\ odom'.yaw = yaw /\ odom'.theta = Wrapped(yaw)
    BY <1>3 DEF PublishOdometer, Odometry
  <2>2. Along(pose.yaw, odom.yaw) /\ Along(odom.yaw, yaw) => Along(pose.yaw, yaw) /\ Along(yaw, yaw)
    <3>1. yaw \in Int /\ odom.yaw \in Int /\ pose.yaw \in Int
      BY <1>0, YawTypes
    <3> QED BY <3>1 DEF Along
  <2>3. WrappedMessages' /\ BeforeCall' /\ Translating' /\ AfterTurn'
    BY <2>1 DEF WrappedMessages, BeforeCall, Translating, AfterTurn, Along, Dir
  <2>4. WhileTurning'
    BY <2>1, <2>2 DEF WhileTurning, Along, Dir
  <2> QED BY <2>3, <2>4
<1>4. CASE HandleMessage
  <2>1. UNCHANGED <<yaw, cmd, odom, pc, lvars, result, is_closed, calls>>
        /\ ~is_closed /\ pose' = odom
    BY <1>4 DEF HandleMessage
  <2>2. Along(read.yaw, pose.yaw) /\ Along(pose.yaw, odom.yaw)
          => Along(read.yaw, odom.yaw) /\ Along(odom.yaw, odom.yaw)
    <3>1. read.yaw \in Int /\ odom.yaw \in Int /\ pose.yaw \in Int
      BY <1>0, YawTypes
    <3> QED BY <3>1 DEF Along
  <2>3. WrappedMessages' /\ BeforeCall' /\ Translating' /\ AfterTurn'
    BY <2>1 DEF WrappedMessages, BeforeCall, Translating, AfterTurn, Along, Dir
  <2>4. WhileTurning'
    BY <2>1, <2>2 DEF WhileTurning, Along, Dir
  <2> QED BY <2>3, <2>4
<1> QED BY <1>1, <1>2, <1>3, <1>4

\* The constructor, the start of a call, the loop of a translation, Close.
LEMMA CallTurnStep ==
  ASSUME MaxCalls = 1, TurnInv, TypeInv',
         \/ Construction \/ MoveToTarget \/ MoveToRelative \/ TurnAround
         \/ RotateTowards \/ RotationDone \/ Translate \/ MovementThrows \/ Close
  PROVE  TurnInv'
<1> USE DEF TurnInv, TypeInv, rvars, fvars, tvars, lvars, Moving
<1>0. TypeOK /\ MaxLag \in Nat
  BY MoveAssumption
<1>1. CASE Construction
  <2>1. /\ UNCHANGED <<yaw, cmd, odom, pose, lvars, result, calls>>
        /\ pc \in {"wait", "reset", "settle"}
        /\ pc' \in {"reset", "settle", "idle", "threw"}
    BY <1>1 DEF Construction, TrackerReady, TrackerTimeout, ResetOdometry, Constructed
  <2>2. calls = 0 /\ result = "none"
    BY <2>1 DEF BeforeCall
  <2> QED BY <2>1, <2>2 DEF WrappedMessages, BeforeCall, Translating, WhileTurning, AfterTurn
<1>2. ASSUME NEW goal, BeginMove(goal) PROVE TurnInv'
  <2>1. /\ UNCHANGED <<odom, pose>> /\ pc' = "rotate" /\ angle' = 0 /\ result' = "none"
        /\ calls' = calls + 1 /\ calls \in Nat
    BY <1>0, <1>2 DEF BeginMove, TypeOK
  <2>2. calls' # 0
    BY <2>1
  <2> QED BY <2>1, <2>2 DEF WrappedMessages, BeforeCall, Translating, WhileTurning, AfterTurn
<1>3. CASE TurnAround
  <2>1. calls = 0
    BY <1>0, <1>3 DEF TurnAround, TypeOK
  <2>2. yaw = 0 /\ cmd = Zero /\ odom.yaw = 0 /\ pose.yaw = 0
    BY <2>1 DEF BeforeCall
  <2>3. /\ UNCHANGED <<yaw, cmd, odom, pose>> /\ pc' = "turn" /\ result' = "none"
        /\ calls' = 1 /\ accumulated' = 0 /\ start' = pose /\ read' = pose
        /\ last_theta' = Wrapped(pose.yaw)
    BY <1>3, <2>1 DEF TurnAround, WrappedMessages
  <2>4. WrappedMessages' /\ BeforeCall' /\ Translating' /\ AfterTurn'
    BY <2>3 DEF WrappedMessages, BeforeCall, Translating, AfterTurn
  <2>5. WhileTurning'
    BY <1>0, <2>2, <2>3 DEF WhileTurning, Along, Dir, Abs, Zero
  <2> QED BY <2>4, <2>5
<1>4. CASE RotateTowards \/ RotationDone \/ Translate
  <2>1. /\ UNCHANGED <<yaw, odom, pose, angle, calls>>
        /\ pc \in {"rotate", "translate"} /\ pc' \in {"rotate", "translate", "idle"}
    BY <1>4 DEF RotateTowards, RotationDone, Translate, Return
  <2>2. angle = 0 /\ calls # 0
    BY <2>1 DEF Translating, BeforeCall
  <2> QED BY <2>1, <2>2 DEF WrappedMessages, BeforeCall, Translating, WhileTurning, AfterTurn
<1>5. CASE MovementThrows
  <2>1. /\ UNCHANGED <<yaw, odom, pose, angle, calls>>
        /\ pc \in Moving /\ pc' = "idle" /\ result' = "false"
    BY <1>5 DEF MovementThrows, Return
  <2>2. calls # 0
    BY <2>1 DEF BeforeCall
  <2> QED BY <2>1, <2>2 DEF WrappedMessages, BeforeCall, Translating, WhileTurning, AfterTurn
<1>6. CASE Close
  <2>1. /\ UNCHANGED <<yaw, odom, pose, lvars, result, calls>>
        /\ cmd' = Zero \/ cmd' = cmd
        /\ pc' = IF pc = "idle" THEN "closed" ELSE pc
        /\ pc = "idle" \/ pc \in Moving
        /\ ~is_closed
    BY <1>6 DEF Close, Stop, SafeMove
  <2>2. WrappedMessages' /\ Translating' /\ AfterTurn'
    BY <2>1 DEF WrappedMessages, Translating, AfterTurn
  <2>3. BeforeCall'
    BY <2>1 DEF BeforeCall
  <2>4. WhileTurning'
    <3>1. cmd'.vyaw = 0 \/ cmd' = cmd
      BY <2>1 DEF Zero
    <3>2. WhileTurning /\ pc = "turn" => Abs(pose.yaw - read.yaw) <= MaxLag
      <4>1. /\ yaw \in Int /\ odom.yaw \in Int /\ pose.yaw \in Int /\ read.yaw \in Int
            /\ angle \in Int
        BY <1>0, YawTypes
      <4> QED BY <1>0, <2>1, <4>1 DEF WhileTurning, Along, Abs
    <3> QED BY <2>1, <3>1, <3>2 DEF WhileTurning, Along, Dir
  <2> QED BY <2>2, <2>3, <2>4
<1> QED BY <1>1, <1>2, <1>3, <1>4, <1>5, <1>6 DEF MoveToTarget, MoveToRelative

\* One turn of TurnAround's loop adds what the robot has turned since the last.
LEMMA TurnTurnStep ==
  ASSUME MaxLag <= kPi, TurnInv, TypeInv', Turn
  PROVE  TurnInv'
<1> USE DEF TurnInv, TypeInv
<1>0. TypeOK /\ MaxLag \in Nat /\ kPi \in Nat
  BY MoveAssumption
<1>1. /\ yaw \in Int /\ odom.yaw \in Int /\ pose.yaw \in Int /\ read.yaw \in Int
      /\ angle \in Int
  BY <1>0, YawTypes
<1>2. pc = "turn" /\ calls # 0
  BY DEF Turn, BeforeCall, Moving
<1>3. /\ start.yaw = 0 /\ result = "none"
      /\ last_theta = Wrapped(read.yaw) /\ accumulated = Abs(read.yaw)
      /\ cmd.vyaw \in {0, Dir}
      /\ Along(0, read.yaw) /\ Along(read.yaw, pose.yaw)
      /\ Along(pose.yaw, odom.yaw) /\ Along(odom.yaw, yaw)
      /\ Abs((IF is_closed THEN pose.yaw ELSE yaw) - read.yaw) <= MaxLag
  BY <1>2 DEF WhileTurning
<1>4. pose.theta = Wrapped(pose.yaw)
  BY DEF WrappedMessages
<1>5. /\ Abs(pose.yaw - read.yaw) <= kPi
      /\ Abs((IF is_closed THEN pose.yaw ELSE yaw) - pose.yaw) <= MaxLag
  BY <1>0, <1>1, <1>3 DEF Along, Abs
<1> DEFINE sum == accumulated + Abs(NormalizeAngle(pose.theta - last_theta))
<1>6. sum = Abs(pose.yaw)
  <2>1. sum = Abs(read.yaw) + Abs(pose.yaw - read.yaw)
    BY <1>1, <1>3, <1>4, <1>5, WrappedDifference
  <2> HIDE DEF sum
  <2> QED BY <1>1, <1>3, <2>1 DEF Along, Abs
<1>7. /\ accumulated' = Abs(pose.yaw) /\ last_theta' = pose.theta /\ read' = pose
      /\ UNCHANGED <<place, yaw, fvars, tvars, attempt, target, hold, angle, start,
                     is_closed, calls>>
  BY <1>6 DEF Turn
<1>8. \/ /\ Abs(pose.yaw) >= Abs(angle)
         /\ pc' = "idle" /\ result' = "true"
         /\ cmd' = Zero \/ cmd' = cmd
      \/ /\ cmd'.vyaw = Dir \/ cmd' = cmd
         /\ UNCHANGED <<pc, result>>
  BY <1>6 DEF Turn, Return, Stop, SafeMove, Dir
<1>9. cmd'.vyaw \in {0, Dir}
  BY <1>3, <1>8 DEF Zero
<1>10. Along(0, pose.yaw) /\ Along(pose.yaw, pose.yaw) /\ Along(pose.yaw, yaw)
  BY <1>1, <1>3 DEF Along
<1>11. WrappedMessages' /\ BeforeCall' /\ Translating'
  BY <1>2, <1>7, <1>8 DEF tvars, WrappedMessages, BeforeCall, Translating
<1>12. Dir' = Dir /\ \A a, b : Along(a, b) <=> IF angle' > 0 THEN b <= a ELSE a <= b
  BY <1>7 DEF Dir, Along
<1>13. WhileTurning'
  <2> SUFFICES ASSUME pc' = "turn" PROVE WhileTurning'
    BY DEF WhileTurning
  <2> QED BY <1>3, <1>4, <1>5, <1>7, <1>8, <1>9, <1>10 DEF WhileTurning, tvars, Along, Dir
<1>14. AfterTurn'
  <2> SUFFICES ASSUME pc' = "idle" PROVE AfterTurn'
    BY DEF AfterTurn
  <2> QED BY <1>2, <1>3, <1>7, <1>8, <1>9, <1>10 DEF AfterTurn, tvars, Along, Dir
<1> QED BY <1>11, <1>13, <1>14

\* The robot turns by half a turn at most between two poses the loop reads.
LEMMA FirstTurn ==
  ASSUME MaxCalls = 1, MaxLag <= kPi
  PROVE  Spec => []TurnInv
<1>1. TurnInv /\ [Next]_vars => TurnInv'
  <2> SUFFICES ASSUME TurnInv, [Next]_vars PROVE TurnInv'
    OBVIOUS
  <2>1. TypeInv'
    BY TypeInvStep DEF TurnInv
  <2>2. CASE UNCHANGED vars
    BY <2>1, <2>2 DEF TurnInv, WrappedMessages, BeforeCall, Translating, WhileTurning, AfterTurn,
       Along, Dir, vars, rvars, fvars, tvars, lvars
  <2> QED BY <2>1, <2>2, RobotTurnStep, CallTurnStep, TurnTurnStep DEF Next, Control
<1> QED BY <1>1, TurnInvInit, PTL DEF Spec

\* TurnAround's sum is exact in a controller's first movement call, at any
\* resolution of the yaw, through any number of whole turns, with commands
\* lost and messages late.
THEOREM SumsExact ==
  ASSUME MaxCalls = 1, MaxLag <= kPi
  PROVE  Spec => []AccumulatedExact
<1>1. TurnInv => AccumulatedExact
  <2>1. TurnInv => read.yaw \in Int
    BY YawTypes DEF TurnInv, TypeInv
  <2> QED BY <2>1 DEF TurnInv, WhileTurning, AccumulatedExact
<1> QED BY <1>1, FirstTurn, PTL

\* Under the same conditions, a TurnAround that returned true has turned the
\* robot by the requested angle, in the requested direction.
THEOREM RobotsTurnEnough ==
  ASSUME MaxCalls = 1, MaxLag <= kPi
  PROVE  Spec => []TurnsEnough
<1>1. TurnInv => TurnsEnough
  <2> SUFFICES ASSUME TurnInv PROVE TurnsEnough
    OBVIOUS
  <2>1. yaw \in Int /\ read.yaw \in Int /\ angle \in Int
    BY YawTypes DEF TurnInv, TypeInv
  <2> QED BY <2>1 DEF TurnInv, AfterTurn, TurnsEnough, Along, Abs
<1> QED BY <1>1, FirstTurn, PTL

-----------------------------------------------------------------------------
(* The end of a translation.                                               *)

\* The robot, in its odometry frame, is within MaxLag of a pose.
HereX == place.x - origin.x
HereY == place.y - origin.y
AtPose(p)     == p.x = HereX /\ p.y = HereY
WithinLag(p) == Abs(HereX - p.x) <= MaxLag /\ Abs(HereY - p.y) <= MaxLag

\* The messages in the order in which they were measured.  From the end of
\* the constructor on there is no other frame.
FramesInOrder ==
  /\ pose.frame <= odom.frame /\ odom.frame <= frame
  /\ pc \in {"reset", "settle"} => ready
  /\ pc \in Moving \cup {"idle", "closed"} => ready /\ ~late /\ pose.frame = frame

\* Before the call the robot rests.
AtRest ==
  /\ pc \in {"wait", "reset", "settle"} => calls = 0
  /\ calls = 0 => /\ cmd = Zero /\ result = "none" /\ pc \notin Moving
                  /\ odom.frame = frame => AtPose(odom)
                  /\ ready /\ pose.frame = frame => AtPose(pose)

\* While it drives, the pose that the loop has read, the tracker's and the
\* newest message are of its frame and not far from it, until a Close from
\* another thread cuts the loop off.
Approach ==
  pc \in {"rotate", "translate"} =>
    /\ angle = 0 /\ result = "none" /\ read.frame = frame
    /\ ~is_closed => WithinLag(read) /\ WithinLag(pose) /\ WithinLag(odom)

\* `angle` tells a turn from a translation.
TurnsByAngle == pc = "turn" => angle # 0

ApproachInv ==
  TypeInv /\ FramesInOrder /\ AtRest /\ TurnsByAngle /\ Approach /\ ArrivesNear

LEMMA PlaneTypes ==
  ASSUME TypeOK
  PROVE  /\ HereX \in Int /\ HereY \in Int /\ target.x \in Int /\ target.y \in Int
         /\ pose.x \in Int /\ pose.y \in Int /\ MaxLag \in Nat
         /\ odom.frame \in Nat /\ pose.frame \in Nat /\ frame \in Nat
BY MoveAssumption DEF TypeOK, Poses, HereX, HereY

\* A pose within the tolerance is the target's place.
LEMMA ArrivedAtTarget ==
  ASSUME TypeOK, Arrived
  PROVE  pose.x = target.x /\ pose.y = target.y
<1>1. Dx \in Int /\ Dy \in Int
  BY PlaneTypes DEF Dx, Dy
<1>2. (Dx * Dx) + (Dy * Dy) < 1
  BY DEF Arrived, Distance2
<1>. HIDE DEF Dx, Dy
<1>3. \A a \in Int : a * a \in Int /\ a * a >= 0 /\ (a # 0 => a * a >= 1)
  <2>. SUFFICES ASSUME NEW a \in Int
                PROVE  a * a \in Int /\ a * a >= 0 /\ (a # 0 => a * a >= 1)
    OBVIOUS
  <2>1. CASE a >= 1
    BY <2>1
  <2>2. CASE a <= -1
    BY <2>2
  <2>3. CASE a = 0
    BY <2>3
  <2>. QED
    BY <2>1, <2>2, <2>3
<1>4. Dx = 0 /\ Dy = 0
  BY <1>1, <1>2, <1>3
<1>. QED
  BY <1>4, PlaneTypes DEF Dx, Dy

LEMMA ApproachInit == Init => ApproachInv
<1>. SUFFICES ASSUME Init PROVE ApproachInv
  OBVIOUS
<1>1. /\ pc = "wait" /\ result = "none" /\ ready = FALSE /\ cmd = Zero /\ calls = 0
      /\ frame = 0 /\ pose.frame = 0 /\ odom.frame = 0
      /\ odom.x = HereX /\ odom.y = HereY
  BY DEF Init, Odometry, HereX, HereY
<1>. QED
  BY <1>1, MoveTypeInit DEF ApproachInv, FramesInOrder, AtRest, TurnsByAngle, Approach, ArrivesNear,
     Moving, AtPose

\* The robot drives on: no further than MaxLag from the poses in use.
LEMMA RobotApproaches ==
  ASSUME ApproachInv, TypeInv', RobotMoves
  PROVE  ApproachInv'
<1>. USE DEF ApproachInv, TypeInv, rvars, fvars, tvars, lvars
<1>1. /\ UNCHANGED <<cmd, fvars, tvars, pc, lvars, result, is_closed, calls>>
      /\ cmd # Zero
      /\ pc \in Moving /\ ~is_closed =>
           Near(read, place', yaw') /\ Near(pose, place', yaw') /\ Near(odom, place', yaw')
  BY DEF RobotMoves
<1>2. FramesInOrder' /\ AtRest' /\ TurnsByAngle' /\ ArrivesNear'
  BY <1>1 DEF FramesInOrder, AtRest, TurnsByAngle, ArrivesNear
<1>3. Approach'
  <2>. SUFFICES ASSUME pc \in {"rotate", "translate"} PROVE Approach'
    BY <1>1 DEF Approach
  <2>1. odom.frame = frame /\ pose.frame = frame /\ read.frame = frame
    BY PlaneTypes DEF FramesInOrder, Approach, Moving
  <2>2. HereX' = place'.x - origin.x /\ HereY' = place'.y - origin.y
    BY <1>1 DEF HereX, HereY
  <2>. QED
    BY <1>1, <2>1, <2>2 DEF Approach, WithinLag, Near, Moving
<1>. QED
  BY <1>2, <1>3

\* Its messages.
LEMMA MessagesApproach ==
  ASSUME ApproachInv, TypeInv', PublishOdometer \/ HandleMessage \/ LateReset
  PROVE  ApproachInv'
<1>. USE DEF ApproachInv, TypeInv, rvars, fvars, tvars, lvars
<1>1. /\ HereX \in Int /\ HereY \in Int /\ MaxLag \in Nat
      /\ odom.frame \in Nat /\ pose.frame \in Nat /\ frame \in Nat
  BY PlaneTypes
<1>2. CASE PublishOdometer
  <2>1. /\ UNCHANGED <<place, origin, frame, late, cmd, pose, ready, pc, lvars, result,
                       is_closed, calls>>
        /\ odom'.x = HereX /\ odom'.y = HereY /\ odom'.frame = frame
    BY <1>2 DEF PublishOdometer, Odometry, HereX, HereY
  <2>2. HereX' = HereX /\ HereY' = HereY
    BY <2>1 DEF HereX, HereY
  <2>3. FramesInOrder' /\ AtRest' /\ TurnsByAngle' /\ ArrivesNear'
    BY <1>1, <2>1, <2>2 DEF FramesInOrder, AtRest, TurnsByAngle, ArrivesNear, AtPose
  <2>4. Abs(HereX - odom'.x) <= MaxLag /\ Abs(HereY - odom'.y) <= MaxLag
    BY <1>1, <2>1 DEF Abs
  <2>. QED
    BY <2>1, <2>2, <2>3, <2>4 DEF Approach, WithinLag
<1>3. CASE HandleMessage
  <2>1. /\ UNCHANGED <<place, origin, frame, late, cmd, odom, pc, lvars, result,
                       is_closed, calls>>
        /\ ~is_closed /\ pose' = odom /\ ready'
    BY <1>3 DEF HandleMessage
  <2>2. HereX' = HereX /\ HereY' = HereY
    BY <2>1 DEF HereX, HereY
  <2>3. FramesInOrder' /\ AtRest' /\ TurnsByAngle' /\ ArrivesNear'
    BY <1>1, <2>1, <2>2 DEF FramesInOrder, AtRest, TurnsByAngle, ArrivesNear, AtPose
  <2>. QED
    BY <2>1, <2>2, <2>3 DEF Approach, WithinLag
<1>4. CASE LateReset
  <2>1. /\ UNCHANGED <<cmd, odom, pose, ready, pc, lvars, result, calls>>
        /\ late /\ frame' = frame + 1 /\ late' = FALSE
    BY <1>4 DEF LateReset, ResetTakesEffect
  <2>2. pc \notin Moving \cup {"idle", "closed"}
    BY <2>1 DEF FramesInOrder
  <2>3. odom.frame # frame' /\ pose.frame # frame' /\ odom.frame <= frame'
    BY <1>1, <2>1 DEF FramesInOrder
  <2>. QED
    BY <2>1, <2>2, <2>3 DEF FramesInOrder, AtRest, TurnsByAngle, Approach, ArrivesNear, Moving
<1>. QED
  BY <1>2, <1>3, <1>4

\* The constructor, the start of the call, TurnAround, a failure.
LEMMA CallApproaches ==
  ASSUME MaxCalls = 1, Timely, 0 \notin Angles, ApproachInv, TypeInv',
         \/ Construction \/ MoveToTarget \/ MoveToRelative \/ TurnAround
         \/ Turn \/ MovementThrows
  PROVE  ApproachInv'
<1>. USE DEF ApproachInv, TypeInv, rvars, fvars, tvars, lvars, Moving
<1>0. /\ calls \in 0 .. MaxCalls /\ odom.frame \in Nat /\ pose.frame \in Nat /\ frame \in Nat
  BY PlaneTypes DEF TypeOK
<1>1. CASE Construction
  <2>1. /\ UNCHANGED <<place, cmd, odom, pose, ready, lvars, result, calls>>
        /\ pc \in {"wait", "reset", "settle"}
        /\ pc' \in {"reset", "settle", "idle", "threw"}
        /\ pc' \in {"reset", "settle"} => ready
    BY <1>1 DEF Construction, TrackerReady, TrackerTimeout, ResetOdometry, Constructed,
                FramesInOrder
  <2>2. \/ UNCHANGED <<origin, frame>>
        \/ frame' = frame + 1 /\ pc' \in {"reset", "settle"}
    BY <1>1 DEF Construction, TrackerReady, TrackerTimeout, ResetOdometry, Constructed,
                ResetTakesEffect
  <2>3. pc' = "idle" => ready /\ ~late' /\ pose.frame = frame'
    BY <1>1 DEF Construction, TrackerReady, TrackerTimeout, ResetOdometry, Constructed,
                FramesInOrder
  <2>4. FramesInOrder'
    BY <1>0, <2>1, <2>2, <2>3 DEF FramesInOrder
  <2>5. AtRest'
    <3>1. frame' = frame + 1 => odom.frame # frame' /\ pose.frame # frame'
      BY <1>0 DEF FramesInOrder
    <3>. QED
      BY <2>1, <2>2, <3>1 DEF AtRest, AtPose, HereX, HereY
  <2>6. calls = 0 /\ result = "none"
    BY <2>1 DEF AtRest
  <2>. QED
    BY <2>1, <2>4, <2>5, <2>6 DEF TurnsByAngle, Approach, ArrivesNear
<1>2. ASSUME NEW goal, BeginMove(goal) PROVE ApproachInv'
  <2>1. /\ UNCHANGED <<rvars, tvars, is_closed>> /\ pc' = "rotate" /\ angle' = 0
        /\ result' = "none" /\ read' = pose /\ pc = "idle" /\ calls = 0 /\ calls' = 1
    BY <1>0, <1>2 DEF BeginMove
  <2>2. AtPose(odom) /\ AtPose(pose) /\ pose.frame = frame
    BY <1>0, <2>1 DEF AtRest, FramesInOrder
  <2>3. HereX' = HereX /\ HereY' = HereY
    BY <2>1 DEF HereX, HereY
  <2>4. \A p : AtPose(p) => WithinLag(p)
    <3>1. \A a \in Int : Abs(a - a) <= MaxLag
      BY MoveAssumption DEF Abs
    <3>2. HereX \in Int /\ HereY \in Int
      BY PlaneTypes
    <3>. QED
      BY <3>1, <3>2 DEF AtPose, WithinLag
  <2>5. Approach'
    BY <2>1, <2>2, <2>3, <2>4 DEF Approach, WithinLag
  <2>. QED
    BY <2>1, <2>5 DEF FramesInOrder, AtRest, TurnsByAngle, ArrivesNear
<1>3. CASE TurnAround
  <2>1. /\ UNCHANGED <<rvars, tvars, is_closed>> /\ pc' = "turn" /\ angle' # 0
        /\ result' = "none" /\ pc = "idle" /\ calls' = calls + 1
    BY <1>3 DEF TurnAround
  <2>. QED
    BY <1>0, <2>1 DEF FramesInOrder, AtRest, TurnsByAngle, Approach, ArrivesNear
<1>4. CASE Turn
  <2>1. /\ UNCHANGED <<origin, frame, late, tvars, angle, calls>>
        /\ pc = "turn" /\ pc' \in {"turn", "idle"}
    BY <1>4 DEF Turn, Return
  <2>2. angle # 0 /\ calls # 0
    BY <2>1 DEF TurnsByAngle, AtRest
  <2>. QED
    BY <2>1, <2>2 DEF FramesInOrder, AtRest, TurnsByAngle, Approach, ArrivesNear
<1>5. CASE MovementThrows
  <2>1. /\ UNCHANGED <<origin, frame, late, tvars, calls>>
        /\ pc \in Moving /\ pc' = "idle" /\ result' = "false"
    BY <1>5 DEF MovementThrows, Return
  <2>2. calls # 0
    BY <2>1 DEF AtRest
  <2>. QED
    BY <2>1, <2>2 DEF FramesInOrder, AtRest, TurnsByAngle, Approach, ArrivesNear
<1>. QED
  BY <1>1, <1>2, <1>3, <1>4, <1>5 DEF MoveToTarget, MoveToRelative

\* The loops of a translation: the pose the loop reads is the tracker's.
LEMMA LoopsApproach ==
  ASSUME ApproachInv, TypeInv', RotateTowards \/ RotationDone \/ Translate
  PROVE  ApproachInv'
<1>. USE DEF ApproachInv, TypeInv, rvars, fvars, tvars, lvars, Moving
<1>1. /\ UNCHANGED <<place, origin, frame, late, tvars, angle, target, is_closed, calls>>
      /\ pc \in {"rotate", "translate"} /\ read' = pose
      /\ \/ pc' \in {"rotate", "translate"} /\ result' = result
         \/ pc' = "idle" /\ Arrived
  BY DEF RotateTowards, RotationDone, Translate, Return
<1>2. HereX' = HereX /\ HereY' = HereY
  BY <1>1 DEF HereX, HereY
<1>3. FramesInOrder' /\ AtRest' /\ TurnsByAngle'
  BY <1>1 DEF FramesInOrder, AtRest, TurnsByAngle
<1>4. Approach'
  BY <1>1, <1>2 DEF Approach, FramesInOrder, WithinLag
<1>5. ArrivesNear'
  <2>1. CASE pc' = "idle" /\ Arrived
    <3>1. pose.x = target.x /\ pose.y = target.y
      BY <2>1, ArrivedAtTarget
    <3>2. ~is_closed => WithinLag(pose)
      BY <1>1 DEF Approach
    <3>. QED
      BY <1>1, <3>1, <3>2 DEF ArrivesNear, WithinLag, HereX, HereY
  <2>2. CASE pc' # "idle"
    BY <2>2 DEF ArrivesNear
  <2>. QED
    BY <1>1, <2>1, <2>2
<1>. QED
  BY <1>3, <1>4, <1>5

\* After a Close during a movement the loop sees the same pose for ever.
LEMMA CloseApproaches ==
  ASSUME ApproachInv, TypeInv', Close
  PROVE  ApproachInv'
<1>. USE DEF ApproachInv, TypeInv, rvars, fvars, tvars, lvars, Moving
<1>1. /\ UNCHANGED <<place, origin, frame, late, tvars, lvars, result, calls>>
      /\ is_closed' = TRUE /\ cmd' \in {Zero, cmd}
      /\ pc \in Moving \cup {"idle"}
      /\ pc' = IF pc = "idle" THEN "closed" ELSE pc
  BY DEF Close, Stop, SafeMove
<1>. QED
  BY <1>1 DEF FramesInOrder, AtRest, TurnsByAngle, Approach, ArrivesNear, AtPose, HereX, HereY

\* A controller's first movement, when no reset and no odometry of before it
\* comes late (Timely): MoveToTarget and MoveToRelative return true only with
\* the robot within MaxLag of a place of the lattice that is the target's own,
\* on any lattice, from any heading, with any losses of commands.
THEOREM RobotArrivesNear ==
  ASSUME MaxCalls = 1, Timely, 0 \notin Angles
  PROVE  Spec => []ArrivesNear
<1>1. ApproachInv /\ [Next]_vars => ApproachInv'
  <2>. SUFFICES ASSUME ApproachInv, [Next]_vars PROVE ApproachInv'
    OBVIOUS
  <2>1. TypeInv'
    BY TypeInvStep DEF ApproachInv
  <2>2. CASE UNCHANGED vars
    BY <2>1, <2>2 DEF ApproachInv, FramesInOrder, AtRest, TurnsByAngle, Approach, ArrivesNear,
       WithinLag, AtPose, HereX, HereY, vars, rvars, fvars, tvars, lvars
  <2>. QED
    BY <2>1, <2>2, RobotApproaches, MessagesApproach, CallApproaches, LoopsApproach,
       CloseApproaches DEF Next, Control
<1>2. ApproachInv => ArrivesNear
  BY DEF ApproachInv
<1>. QED
  BY <1>1, <1>2, ApproachInit, PTL DEF Spec

-----------------------------------------------------------------------------
(* The magnitudes of the speeds.                                           *)

\* The yaw speeds keep within the limits and turn the way of the error; the
\* loop that sends RotateSpeed ends at an error of 0.2 rad, so there it is
\* never zero.
THEOREM YawSpeedsBounded ==
  ASSUME NEW e \in Int
  PROVE  /\ RotateSpeed(e) \in -1000 .. 1000
         /\ HoldSpeed(e) \in -500 .. 500
         /\ e >= 200  => RotateSpeed(e) >= 240
         /\ e <= -200 => RotateSpeed(e) <= -240
<1>. DEFINE p == 6 * e
            k == p \div 5
<1>1. p \in Int /\ k \in Int /\ 5 * k <= p /\ p < 5 * k + 5
  BY SMT
<1>2. RotateSpeed(e) = Clamp(k, -1000, 1000)
  BY DEF RotateSpeed
<1>. HIDE DEF k
<1>. QED
  BY <1>1, <1>2 DEF HoldSpeed, Clamp, Larger, Smaller

\* TurnAround keeps turning until nothing remains, at no more than vel or
\* 0.4 rad/s.  The second bound is needed: over the last 0.2 rad a smaller
\* vel is exceeded, and "Yaw-speed magnitude" is what the caller asked for
\* only up to there.
THEOREM TurnSpeedBounded ==
  ASSUME NEW remaining \in Nat \ {0}, NEW vel \in Int
  PROVE  /\ TurnSpeed(remaining, vel) <= Larger(Magnitude(vel), 400)
         /\ vel # 0 => TurnSpeed(remaining, vel) > 0
         /\ remaining < 200 => TurnSpeed(remaining, vel) >= 200
         /\ vel # 0 /\ Magnitude(vel) < 200 /\ remaining < 200
              => TurnSpeed(remaining, vel) > Magnitude(vel)
BY DEF TurnSpeed, Larger, Magnitude

\* Each component of an offset is scaled to at most the limit.
LEMMA ScaledBounded ==
  ASSUME NEW v \in Int, NEW offset \in Nat, NEW limit \in Nat, Magnitude(v) <= offset
  PROVE  Scaled(v, offset, limit) <= limit
<1>1. CASE offset <= limit
  BY <1>1 DEF Scaled, Magnitude
<1>2. CASE offset > limit
  <2>. DEFINE p == Magnitude(v) * limit
              k == p \div offset
  <2>1. Magnitude(v) \in Nat /\ offset > 0
    BY <1>2 DEF Magnitude
  <2>2. p \in Nat /\ p <= offset * limit
    <3>. HIDE DEF p
    <3>1. \A m \in Nat : m <= offset => m * limit \in Nat /\ m * limit <= offset * limit
      BY SMT
    <3>. QED
      BY <2>1, <3>1 DEF p
  <2>3. k \in Int /\ offset * k <= p
    <3>. HIDE DEF p
    <3>. QED
      BY <2>1, <2>2, SMT
  <2>4. k <= limit
    <3>. SUFFICES ASSUME k >= limit + 1 PROVE FALSE
      BY <2>3
    <3>. HIDE DEF k
    <3>1. offset * k >= offset * limit + offset
      BY <2>1, <2>3, SMT
    <3>. QED
      BY <3>1, <2>1, <2>2, <2>3, SMT
  <2>. QED
    BY <1>2, <2>4 DEF Scaled
<1>. QED
  BY <1>1, <1>2

\* "Positive maximum planar speed": at every distance at which MoveToTarget's
\* loop still sends a command, no component exceeds vel, also where vel is
\* smaller than the lower limits of 0.1 and 0.05 m/s, and a robot that faces
\* its target is sent there at vel, or at the distance per second if that is
\* less: those limits never slow it down or speed it up.
THEOREM PlanarSpeedBounded ==
  ASSUME NEW offset \in Nat, offset >= kDistanceTolerance, NEW vel \in Nat,
         NEW v \in Int, Magnitude(v) <= offset
  PROVE  /\ Planar(v, offset, vel) <= vel
         /\ Planar(offset, offset, vel) = Smaller(offset, vel)
<1>1. LocalLimit(offset, vel) = vel
  BY DEF LocalLimit, kDistanceTolerance
<1>2. Planar(v, offset, vel) <= vel
  BY <1>1, ScaledBounded DEF Planar
<1>3. Planar(offset, offset, vel) = Smaller(offset, vel)
  <2>1. offset > 0 /\ Magnitude(offset) = offset
    BY DEF kDistanceTolerance, Magnitude
  <2>2. (offset * vel) \div offset = vel
    <3>. DEFINE p == offset * vel
                k == p \div offset
    <3>1. p \in Int
      BY <2>1
    <3>2. k \in Int /\ offset * k <= p /\ p < offset * k + offset
      <4>. HIDE DEF p
      <4>. QED
        BY <2>1, <3>1, SMT
    <3>. HIDE DEF k
    <3>3. ~(k >= vel + 1)
      <4>. SUFFICES ASSUME k >= vel + 1 PROVE FALSE
        OBVIOUS
      <4>1. offset * k >= (offset * vel) + offset
        BY <2>1, <3>2, SMT
      <4>. QED
        BY <2>1, <3>1, <3>2, <4>1
    <3>4. ~(k <= vel - 1)
      <4>. SUFFICES ASSUME k <= vel - 1 PROVE FALSE
        OBVIOUS
      <4>1. (offset * k) + offset <= offset * vel
        BY <2>1, <3>2, SMT
      <4>. QED
        BY <2>1, <3>1, <3>2, <4>1
    <3>5. k = vel
      BY <3>2, <3>3, <3>4
    <3>. QED
      BY <3>5 DEF k
  <2>. QED
    BY <1>1, <2>1, <2>2 DEF Planar, Scaled, Smaller
<1>. QED
  BY <1>2, <1>3
=============================================================================
