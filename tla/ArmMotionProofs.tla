--------------------------- MODULE ArmMotionProofs ---------------------------
(***************************************************************************)
(* ArmMotion only adds a joint to ArmController: whatever is proved of the *)
(* controller holds while the joint moves.  And what interpolation gives:  *)
(* the joint stays in its range, and no command jumps.                     *)
(***************************************************************************)
EXTENDS ArmMotion, ArmControllerProofs, TLAPS

\* Every behaviour with the joint is a behaviour of ArmController: the robot
\* and the plan of Finish take no step the controller does not have.
THEOREM MotionIsController == MotionSpec => Spec
<1>1. MotionInit => Init
  BY DEF MotionInit
<1>2. [MotionNext]_<<vars, mvars>> => [Next]_vars
  <2>1. ASSUME MotionNext PROVE [Next]_vars
    <3>1. CASE ArmMoves
      BY <3>1 DEF ArmMoves
    <3>2. CASE LowState
      BY <3>2 DEF LowState, Next
    <3>3. CASE QueueTarget
      BY <3>3 DEF QueueTarget, Next
    <3>4. CASE BeginFinish
      BY <3>4 DEF BeginFinish, Next
    <3>5. CASE PublishJoint
      BY <3>5 DEF PublishJoint, Next
    <3>6. CASE JointFinishReturns
      BY <3>6 DEF JointFinishReturns, Next
    <3>7. CASE Others
      BY <3>7 DEF Others, Next
    <3>. QED
      BY <2>1, <3>1, <3>2, <3>3, <3>4, <3>5, <3>6, <3>7 DEF MotionNext
  <2>2. ASSUME UNCHANGED <<vars, mvars>> PROVE [Next]_vars
    BY <2>2
  <2>. QED
    BY <2>1, <2>2
<1>. QED
  BY <1>1, <1>2, PTL DEF MotionSpec, Spec

\* With any joint on any robot, custom control ends off, failed publishes are
\* reported and short motions hold their final position.
THEOREM MotionKeepsPromises ==
  MotionSpec => /\ [](DisabledAfterClose /\ FailureReported)
                /\ MotionsForward
BY MotionIsController, CustomControlDisabled, FailuresReported, JointsMoveForward, PTL

\* The quotient of a product by one of the bounds of its other factor.
LEMMA Quotient ==
  ASSUME NEW a \in Int, NEW done \in Nat, NEW duration \in Nat \ {0}, done <= duration
  PROVE  /\ (a * done) \div duration \in Int
         /\ a >= 0 => 0 <= (a * done) \div duration /\ (a * done) \div duration <= a
         /\ a <= 0 => a <= (a * done) \div duration /\ (a * done) \div duration <= 0
<1>. DEFINE p == a * done
            k == p \div duration
<1>1. p \in Int
  OBVIOUS
<1>2. k \in Int /\ duration * k <= p /\ p < duration * k + duration
  <2>. HIDE DEF p
  <2>. QED
    BY <1>1, SMT
<1>3. CASE a >= 0
  <2>1. 0 <= p /\ p <= a * duration
    BY <1>3, SMT
  <2>2. 0 <= k
    <3>. SUFFICES ASSUME k <= -1 PROVE FALSE
      BY <1>2
    <3>1. duration * k <= -duration
      <4>. HIDE DEF k
      <4>. QED
        BY <1>2, SMT
    <3>. QED
      BY <3>1, <2>1, <1>2, <1>1
  <2>3. k <= a
    <3>. SUFFICES ASSUME k >= a + 1 PROVE FALSE
      BY <1>2
    <3>1. duration * k >= duration * a + duration
      <4>. HIDE DEF k
      <4>. QED
        BY <1>2, SMT
    <3>2. duration * a = a * duration
      BY SMT
    <3>. QED
      BY <3>1, <3>2, <2>1, <1>2, <1>1
  <2>. QED
    BY <1>2, <1>3, <2>1, <2>2, <2>3
<1>4. CASE a < 0
  <2>1. p <= 0 /\ a * duration <= p
    BY <1>4, SMT
  <2>2. k <= 0
    <3>. SUFFICES ASSUME k >= 1 PROVE FALSE
      BY <1>2
    <3>1. duration * k >= duration
      <4>. HIDE DEF k
      <4>. QED
        BY <1>2, SMT
    <3>. QED
      BY <3>1, <2>1, <1>2, <1>1
  <2>3. a <= k
    <3>. SUFFICES ASSUME k <= a - 1 PROVE FALSE
      BY <1>2
    <3>1. duration * k <= duration * a - duration
      <4>. HIDE DEF k
      <4>. QED
        BY <1>2, SMT
    <3>2. duration * a = a * duration
      BY SMT
    <3>. QED
      BY <3>1, <3>2, <2>1, <1>2, <1>1
  <2>. QED
    BY <1>2, <1>4, <2>1, <2>2, <2>3
<1>. QED
  BY <1>2, <1>3, <1>4

\* Finish never commands a joint beyond the ends of its motion, and when the
\* duration has passed, whatever the clock says, exactly to its target.
THEOREM InterpolationInRange ==
  ASSUME NEW s \in Int, NEW e \in Int,
         NEW duration \in Nat \ {0}, NEW done \in Nat, done <= duration
  PROVE  /\ Minimum(s, e) <= Interpolated(s, e, done, duration)
         /\ Interpolated(s, e, done, duration) <= Maximum(s, e)
         /\ done = duration => Interpolated(s, e, done, duration) = e
<1>. DEFINE a == e - s
            k == (a * done) \div duration
<1>1. a \in Int
  OBVIOUS
<1>2. /\ k \in Int
      /\ a >= 0 => 0 <= k /\ k <= a
      /\ a <= 0 => a <= k /\ k <= 0
  <2>. HIDE DEF a
  <2>. QED
    BY <1>1, Quotient
<1>3. Interpolated(s, e, done, duration) = s + k
  BY DEF Interpolated
<1>4. ASSUME done = duration PROVE k = a
  <2>1. k \in Int /\ duration * k <= a * done /\ a * done < duration * k + duration
    <3>. DEFINE p == a * done
    <3>1. p \in Int
      <4>. HIDE DEF a
      <4>. QED
        BY <1>1
    <3>. HIDE DEF p
    <3>2. p \div duration \in Int /\ duration * (p \div duration) <= p
          /\ p < duration * (p \div duration) + duration
      BY <3>1, SMT
    <3>. QED
      BY <3>2 DEF p
  <2>2. duration * k <= duration * a /\ duration * a < duration * (k + 1)
    <3>. HIDE DEF k
    <3>. QED
      BY <1>1, <1>4, <2>1, SMT
  <2>. HIDE DEF k, a
  <2>3. k <= a
    <3>. SUFFICES ASSUME k >= a + 1 PROVE FALSE
      BY <1>1, <2>1
    <3>1. duration * k >= duration * a + duration
      BY <1>1, <2>1, SMT
    <3>. QED
      BY <3>1, <2>2, <1>1, <2>1, SMT
  <2>4. a <= k
    <3>. SUFFICES ASSUME k <= a - 1 PROVE FALSE
      BY <1>1, <2>1
    <3>1. duration * (k + 1) <= duration * a
      BY <1>1, <2>1, SMT
    <3>. QED
      BY <3>1, <2>2, <1>1, <2>1, SMT
  <2>. QED
    BY <2>3, <2>4, <1>1, <2>1
<1>5. Minimum(s, e) <= s + k /\ s + k <= Maximum(s, e)
  <2>. HIDE DEF k
  <2>. QED
    BY <1>2 DEF Minimum, Maximum
<1>6. done = duration => s + k = e
  <2>. SUFFICES ASSUME done = duration PROVE s + k = e
    OBVIOUS
  <2>1. k = a
    BY <1>4
  <2>. HIDE DEF k
  <2>. QED
    BY <2>1
<1>. QED
  BY <1>3, <1>5, <1>6

-----------------------------------------------------------------------------
(* Where the joint is and where it is commanded.                           *)

LEMMA InterpolatedInt ==
  ASSUME NEW s \in Int, NEW e \in Int,
         NEW duration \in Nat \ {0}, NEW done \in Nat, done <= duration
  PROVE  Interpolated(s, e, done, duration) \in Int
<1>. DEFINE a == e - s
            k == (a * done) \div duration
<1>1. a \in Int
  OBVIOUS
<1>2. k \in Int
  <2>. HIDE DEF a
  <2>. QED
    BY <1>1, Quotient
<1>. HIDE DEF k
<1>3. s + k \in Int
  BY <1>2
<1>. QED
  BY <1>3 DEF k, Interpolated

\* What the joint is commanded is a number and, if it was planned from
\* feedback, lies in its range, whether it moves or is kept where it is.
LEMMA CommandInRange ==
  ASSUME TypeOK, MotionTypeOK, PlannedFromFeedback, pc = "run"
  PROVE  JointCommand \in Int /\ (~blind => JointCommand \in Positions)
<1>1. measured \in Int /\ (~blind => measured \in Positions /\ start_q \in Positions)
  BY MotionAssumption DEF MotionTypeOK, PlannedFromFeedback
<1>2. CASE tasks[Joint] = 0
  BY <1>1, <1>2 DEF JointCommand
<1>3. CASE tasks[Joint] # 0
  <2>. DEFINE T == tasks[Joint]
              x == Interpolated(start_q, end_q, Minimum(elapsed, T), T)
  <2>1. end_q \in Positions
    BY <1>3, MotionAssumption DEF PlannedFromFeedback
  <2>2. T \in Nat \ {0} /\ elapsed \in Nat
    BY <1>3, MotionAssumption DEF TypeOK, Motions
  <2>3. Minimum(elapsed, T) \in Nat /\ Minimum(elapsed, T) <= T
    BY <2>2 DEF Minimum
  <2>4. start_q \in Int /\ end_q \in Int
    BY <2>1, MotionAssumption DEF MotionTypeOK
  <2>5. Minimum(start_q, end_q) <= x /\ x <= Maximum(start_q, end_q)
    <3>. HIDE DEF T
    <3>. QED
      BY <2>2, <2>3, <2>4, InterpolationInRange
  <2>6. x \in Int
    <3>. HIDE DEF T
    <3>. QED
      BY <2>2, <2>3, <2>4, InterpolatedInt
  <2>. HIDE DEF x
  <2>7. x \in Minimum(start_q, end_q) .. Maximum(start_q, end_q)
    BY <2>4, <2>5, <2>6 DEF Minimum, Maximum
  <2>8. ~blind => /\ Minimum(start_q, end_q) \in Positions
                  /\ Maximum(start_q, end_q) \in Positions
    BY <1>1, <2>1 DEF Minimum, Maximum
  <2>. QED
    BY <1>3, <2>6, <2>7, <2>8, MotionAssumption DEF x, JointCommand
<1>. QED
  BY <1>2, <1>3

LEMMA MotionTypeInit == TypeOK /\ MotionInit => MotionTypeOK /\ PlannedFromFeedback
BY MotionAssumption DEF MotionInit, Init, NoActions, MotionTypeOK, PlannedFromFeedback

LEMMA MotionTypeStep ==
  ASSUME IInv, TypeOK, TypeOK', MotionTypeOK, PlannedFromFeedback,
         [MotionNext]_<<vars, mvars>>
  PROVE  MotionTypeOK' /\ PlannedFromFeedback'
<1>. USE MotionAssumption DEF MotionTypeOK, PlannedFromFeedback
<1>1. CASE ArmMoves
  BY <1>1 DEF ArmMoves, vars, nvars, avars, fvars
<1>2. CASE LowState
  <2>1. Distance(q, q) <= MaxStale
    BY DEF Distance
  <2>. QED
    BY <1>2, <2>1 DEF LowState, HandleMessage, vars, nvars, avars, fvars
<1>3. CASE QueueTarget
  <2>1. UNCHANGED <<pc, ready, nvars, fvars, is_closed, q, measured, start_q, end_q, command, blind>>
    BY <1>3 DEF QueueTarget, ControlArm, fvars
  <2>2. \/ target' \in Targets
        \/ pending_actions'[Joint] = pending_actions[Joint] /\ target' = target
    BY <1>3 DEF QueueTarget
  <2>. QED
    BY <2>1, <2>2 DEF fvars
<1>4. CASE BeginFinish
  <2>1. /\ UNCHANGED <<ready, pending_actions, is_closed, q, measured, target>>
        /\ tasks' = pending_actions /\ start_q' = measured /\ end_q' = target
        /\ command' = q /\ blind' = ~ready
    BY <1>4 DEF BeginFinish, Finish, Plan
  <2>. QED
    BY <2>1
<1>5. CASE PublishJoint
  <2>1. /\ pc = "run" /\ UNCHANGED <<pc, ready, pending_actions, tasks, is_closed>>
        /\ UNCHANGED <<q, measured, target, start_q, end_q, blind>>
        /\ command' = JointCommand
    BY <1>5 DEF PublishJoint, Publish
  <2>2. command' \in Int /\ (~blind => command' \in Positions)
    BY <2>1, CommandInRange
  <2>. QED
    BY <2>1, <2>2
<1>6. CASE JointFinishReturns
  <2>1. /\ pc' = "idle" /\ pending_actions' = NoActions /\ UNCHANGED <<ready, tasks, is_closed>>
        /\ target' = 0 /\ start_q' = 0 /\ end_q' = 0
        /\ UNCHANGED <<q, measured, command, blind>>
    BY <1>6 DEF JointFinishReturns, FinishReturns
  <2>. QED
    BY <2>1 DEF NoActions
<1>7. CASE Others
  <2>1. UNCHANGED mvars /\ UNCHANGED <<ready, tasks>>
    BY <1>7 DEF Others, RobotHandles, RequestLost, TrackerWaitEnds, CallReturns, CallTimesOut,
                Close, fvars
  <2>2. pc' = "run" => pc = "run"
    BY <1>7 DEF Others, RobotHandles, RequestLost, TrackerWaitEnds, CallReturns, CallTimesOut,
                Close, BeginCall, EndCall
  <2>3. pending_actions' \in {pending_actions, NoActions}
    BY <1>7 DEF Others, RobotHandles, RequestLost, TrackerWaitEnds, CallReturns, CallTimesOut,
                Close, EndCall
  <2>4. is_closed => is_closed' \/ pc = "call"
    BY <1>7 DEF Others, RobotHandles, RequestLost, TrackerWaitEnds, CallReturns, CallTimesOut,
                Close, EndCall
  <2>5. ~is_closed' => ~is_closed
    BY <2>4 DEF IInv, ClosedQuietly
  <2>. QED
    BY <2>1, <2>2, <2>3, <2>5 DEF mvars, NoActions
<1>8. CASE UNCHANGED <<vars, mvars>>
  BY <1>8 DEF vars, mvars, fvars
<1>. QED
  BY <1>1, <1>2, <1>3, <1>4, <1>5, <1>6, <1>7, <1>8 DEF MotionNext

\* The joint, its measurements, its plans and, where Finish had feedback to
\* plan from, its commands stay in its range; the feedback is never staler
\* than MaxStale.
THEOREM MotionInRange == MotionSpec => [](MotionTypeOK /\ PlannedFromFeedback)
<1>1. IInv /\ TypeOK /\ TypeOK' /\ MotionTypeOK /\ PlannedFromFeedback /\ [MotionNext]_<<vars, mvars>>
        => MotionTypeOK' /\ PlannedFromFeedback'
  BY MotionTypeStep
<1>2. MotionSpec => []IInv
  BY MotionIsController, ArmInvariant, PTL
<1>3. MotionSpec => []TypeOK
  BY MotionIsController, TypeCorrect, PTL
<1>. QED
  BY <1>1, <1>2, <1>3, MotionTypeInit, PTL DEF MotionSpec

-----------------------------------------------------------------------------
(* How far a command is from the one before.                               *)

LEMMA DistanceNat ==
  ASSUME NEW a \in Int, NEW b \in Int
  PROVE  Distance(a, b) \in Nat /\ (\A d \in Int : a - b <= d /\ b - a <= d => Distance(a, b) <= d)
BY DEF Distance

\* Between two times that are at most MaxDelay apart an interpolated position
\* changes by at most the quotient for MaxDelay, and one for the rounding.
LEMMA QuotientsNear ==
  ASSUME NEW a \in Int, NEW T \in Nat \ {0}, NEW D \in Nat,
         NEW m \in Nat, NEW n \in Nat, m <= n, n <= m + D
  PROVE  Distance((a * m) \div T, (a * n) \div T) <= (Distance(0, a) * D) \div T + 1
<1>. DEFINE pm == a * m
            pn == a * n
            b  == Distance(0, a)
            pd == b * D
            km == pm \div T
            kn == pn \div T
            kd == pd \div T
<1>1. b \in Nat /\ (a >= 0 => b = a) /\ (a < 0 => b = -a)
  BY DEF Distance
<1>2. pm \in Int /\ pn \in Int
  OBVIOUS
<1>3. pd \in Int
  <2>. HIDE DEF b
  <2>. QED
    BY <1>1
<1>4. pn - pm <= pd /\ pm - pn <= pd
  <2>1. PICK i \in Nat : n = m + i /\ i <= D
    <3>1. n - m \in Nat /\ n = m + (n - m) /\ n - m <= D
      OBVIOUS
    <3>. QED
      BY <3>1
  <2>2. pn = pm + a * i
    BY <2>1, SMT
  <2>3. a * i <= pd /\ -(a * i) <= pd
    <3>. HIDE DEF b
    <3>1. b * i <= b * D
      BY <1>1, <2>1, SMT
    <3>2. a >= 0 => a * i = b * i /\ 0 <= b * i
      BY <1>1, <2>1, SMT
    <3>3. a < 0 => a * i = -(b * i) /\ 0 <= b * i
      BY <1>1, <2>1, SMT
    <3>4. b * i \in Int
      BY <1>1
    <3>5. a * i \in Int
      OBVIOUS
    <3>. DEFINE bi == b * i
                ai == a * i
    <3>. HIDE DEF bi, ai
    <3>6. ai <= pd /\ -ai <= pd
      <4>. HIDE DEF pd
      <4>1. bi <= pd /\ bi \in Int /\ ai \in Int
        BY <3>1, <3>4, <3>5 DEF bi, ai, pd
      <4>2. (a >= 0 => ai = bi /\ 0 <= bi) /\ (a < 0 => ai = -bi /\ 0 <= bi)
        BY <3>2, <3>3 DEF bi, ai
      <4>. QED
        BY <4>1, <4>2, <1>3
    <3>. QED
      BY <3>6 DEF ai
  <2>4. a * i \in Int
    OBVIOUS
  <2>. DEFINE ai == a * i
  <2>5. pn = pm + ai /\ ai <= pd /\ -ai <= pd /\ ai \in Int
    BY <2>2, <2>3, <2>4
  <2>. HIDE DEF pm, pn, pd, ai
  <2>. QED
    BY <2>5, <1>2, <1>3
<1>. HIDE DEF pm, pn, pd
<1>5. /\ km \in Int /\ T * km <= pm /\ pm < T * km + T
      /\ kn \in Int /\ T * kn <= pn /\ pn < T * kn + T
      /\ kd \in Int /\ T * kd <= pd /\ pd < T * kd + T
  BY <1>2, <1>3, SMT
<1>. HIDE DEF km, kn, kd
<1>6. ASSUME NEW k \in Int, NEW l \in Int, T * l - T * k < T * kd + T + T
      PROVE  l - k <= kd + 1
  <2>. SUFFICES ASSUME l - k >= kd + 2 PROVE FALSE
    BY <1>5
  <2>1. T * l - T * k = T * (l - k)
    BY SMT
  <2>2. T * (l - k) >= T * (kd + 2)
    BY <1>5, SMT
  <2>3. T * (kd + 2) = T * kd + T + T
    BY <1>5, SMT
  <2>. QED
    BY <1>6, <2>1, <2>2, <2>3, <1>5, SMT
<1>7. T * kn - T * km < T * kd + T + T /\ T * km - T * kn < T * kd + T + T
  <2>. DEFINE x == T * km
              y == T * kn
              z == T * kd
  <2>1. x \in Int /\ y \in Int /\ z \in Int
    BY <1>5
  <2>2. /\ x <= pm /\ pm < x + T /\ y <= pn /\ pn < y + T /\ z <= pd /\ pd < z + T
    BY <1>5
  <2>. HIDE DEF x, y, z
  <2>3. y - x < z + T + T /\ x - y < z + T + T
    BY <1>2, <1>3, <1>4, <2>1, <2>2
  <2>. QED
    BY <2>3 DEF x, y, z
<1>8. kn - km <= kd + 1 /\ km - kn <= kd + 1
  BY <1>5, <1>6, <1>7
<1>9. Distance(km, kn) <= kd + 1
  BY <1>5, <1>8, DistanceNat
<1>. QED
  BY <1>9 DEF km, kn, kd, pm, pn, pd

LEMMA InterpolationStarts ==
  ASSUME NEW s \in Int, NEW e \in Int, NEW duration \in Nat \ {0}
  PROVE  Interpolated(s, e, 0, duration) = s
<1>1. (e - s) * 0 = 0
  OBVIOUS
<1>2. 0 \div duration = 0
  BY SMT
<1>. QED
  BY <1>1, <1>2 DEF Interpolated

\* What one turn of the loop adds to a planned joint's command.
LEMMA WithinStride ==
  ASSUME TypeOK, start_q \in Int, end_q \in Int, tasks[Joint] # 0,
         NEW e \in Nat, NEW f \in Nat, e <= f, f <= e + MaxDelay
  PROVE  LET At(n) == Interpolated(start_q, end_q, Minimum(n, tasks[Joint]), tasks[Joint])
         IN  At(e) \in Int /\ At(f) \in Int /\ Distance(At(e), At(f)) <= Stride
<1>. DEFINE T == tasks[Joint]
            At(n) == Interpolated(start_q, end_q, Minimum(n, T), T)
            a  == end_q - start_q
            m  == Minimum(e, T)
            n  == Minimum(f, T)
            km == (a * m) \div T
            kn == (a * n) \div T
            kd == (Distance(0, a) * MaxDelay) \div T
<1>1. T \in Nat \ {0} /\ MaxDelay \in Nat
  BY MotionAssumption, ArmAssumption DEF TypeOK, Motions
<1>2. /\ m \in Nat /\ n \in Nat /\ m <= T /\ n <= T
      /\ m <= n /\ n <= m + MaxDelay
  <2>. HIDE DEF T
  <2>. QED
    BY <1>1 DEF Minimum
<1>3. a \in Int
  OBVIOUS
<1>4. km \in Int /\ kn \in Int
  <2>. HIDE DEF T, a, m, n
  <2>. QED
    BY <1>1, <1>2, <1>3, Quotient
<1>5. Distance(km, kn) <= kd + 1
  <2>. HIDE DEF T, a, m, n
  <2>. QED
    BY <1>1, <1>2, <1>3, QuotientsNear
<1>6. At(e) = start_q + km /\ At(f) = start_q + kn
  BY DEF Interpolated
<1>7. Stride = kd + 1
  <2>1. Distance(0, a) = Distance(start_q, end_q)
    BY DEF Distance
  <2>. QED
    BY <2>1 DEF Stride
<1>. HIDE DEF At, km, kn, kd
<1>8. Distance(start_q + km, start_q + kn) = Distance(km, kn)
  BY <1>4 DEF Distance
<1>9. At(e) \in Int /\ At(f) \in Int
  BY <1>4, <1>6
<1>10. Distance(At(e), At(f)) <= Stride
  BY <1>5, <1>6, <1>7, <1>8
<1>. QED
  BY <1>9, <1>10 DEF At

LEMMA MotionInts ==
  ASSUME MotionTypeOK
  PROVE  /\ q \in Int /\ measured \in Int /\ start_q \in Int /\ end_q \in Int
         /\ command \in Int /\ target \in Int /\ MaxStale \in Nat
BY MotionAssumption DEF MotionTypeOK

\* What holds of the joint in every state, in one formula.
MotionInv == IInv /\ MotionTypeOK /\ PlannedFromFeedback

\* A motion begins where the tracker has the joint, not far from the arm.
LEMMA BeginOnWay ==
  ASSUME MotionInv, MotionInv', BeginFinish
  PROVE  CommandOnWay'
<1>. SUFFICES ASSUME pc' = "run", ~blind', ~is_closed', tasks'[Joint] # 0
              PROVE  CommandOnWay'
  BY DEF CommandOnWay
<1>1. /\ ready /\ ~is_closed /\ start_q' = measured /\ end_q' = target /\ command' = q
      /\ pc = "idle"
  BY DEF BeginFinish, Finish, Plan, MotionInv, MotionTypeOK, TypeOK
<1>2. elapsed' \in 0 .. MaxDelay - 1 /\ MaxDelay \in Nat
  BY <1>1, ArmAssumption DEF BeginFinish, Finish
<1>3. Distance(q, measured) <= MaxStale
  BY <1>1, MotionInts DEF MotionInv, PlannedFromFeedback, Distance
<1>4. tasks'[Joint] \in Nat \ {0}
  BY MotionAssumption DEF MotionInv, IInv, TypeOK, Motions
<1>5. start_q' \in Int /\ end_q' \in Int
  BY <1>1, MotionInts DEF MotionInv
<1>6. /\ Minimum(0, tasks'[Joint]) = 0
      /\ Interpolated(start_q', end_q', 0, tasks'[Joint]) = start_q'
  BY <1>4, <1>5, InterpolationStarts DEF Minimum
<1>7. 0 \in 0 .. elapsed' /\ elapsed' <= 0 + MaxDelay
  BY <1>2
<1>. QED
  BY <1>1, <1>3, <1>6, <1>7 DEF CommandOnWay

\* A turn of the loop: how far the new command is from the last, and that it
\* is on the way itself.
LEMMA PublishOnWay ==
  ASSUME MotionInv, CommandOnWay, PublishJoint, ~blind, ~is_closed
  PROVE  /\ CommandOnWay'
         /\ tasks[Joint] # 0 => Distance(command', command) <= Stride + MaxStale
         /\ tasks[Joint] = 0 => Distance(command', q) <= MaxStale
<1>1. /\ pc = "run" /\ command' = JointCommand
      /\ UNCHANGED <<pc, is_closed, tasks, start_q, end_q, blind>>
      /\ \E d \in 1 .. MaxDelay : elapsed' = elapsed + d
  BY DEF PublishJoint, Publish
<1>2. /\ q \in Int /\ measured \in Int /\ command \in Int /\ MaxStale \in Nat
      /\ start_q \in Int /\ end_q \in Int /\ TypeOK
  BY MotionInts DEF MotionInv, IInv
<1>3. tasks[Joint] \in Nat /\ elapsed \in Nat /\ MaxDelay \in Nat
  BY <1>2, MotionAssumption, ArmAssumption DEF TypeOK, Motions
<1>4. CASE tasks[Joint] = 0
  <2>1. ready /\ command' = measured
    BY <1>1, <1>4 DEF JointCommand, MotionInv, PlannedFromFeedback
  <2>. QED
    BY <1>1, <1>4, <2>1 DEF CommandOnWay, MotionInv, PlannedFromFeedback
<1>5. CASE tasks[Joint] # 0
  <2>. DEFINE At(n) == Interpolated(start_q, end_q, Minimum(n, tasks[Joint]), tasks[Joint])
              S == Stride
  <2>1. PICK e \in 0 .. elapsed :
          elapsed <= e + MaxDelay /\ Distance(command, At(e)) <= MaxStale
    BY <1>1, <1>5 DEF CommandOnWay
  <2>2. At(e) \in Int /\ At(elapsed) \in Int /\ Distance(At(e), At(elapsed)) <= Stride
    <3>1. e \in Nat /\ e <= elapsed
      BY <1>3
    <3>. QED
      BY <1>2, <1>3, <1>5, <2>1, <3>1, WithinStride
  <2>3. command' = At(elapsed)
    BY <1>1, <1>5 DEF JointCommand
  <2>4. S \in Int
    <3>. DEFINE b == Distance(start_q, end_q)
                p == b * MaxDelay
                k == p \div tasks[Joint]
    <3>1. b \in Nat
      BY <1>2, DistanceNat
    <3>2. p \in Int
      <4>. HIDE DEF b
      <4>. QED
        BY <1>3, <3>1
    <3>3. k \in Int
      <4>. HIDE DEF p
      <4>. QED
        BY <1>3, <1>5, <3>2, SMT
    <3>. HIDE DEF k
    <3>4. k + 1 \in Int
      BY <3>3
    <3>. QED
      BY <3>4 DEF k, Stride
  <2>5. Distance(At(e), At(elapsed)) <= S
    BY <2>2
  <2>. HIDE DEF At, S
  <2>6. Distance(At(elapsed), command) <= S + MaxStale
    BY <1>2, <2>1, <2>2, <2>4, <2>5 DEF Distance
  <2>7. Distance(At(elapsed), At(elapsed)) <= MaxStale
    BY <1>2, <2>2 DEF Distance
  <2>8. elapsed \in 0 .. elapsed' /\ elapsed' <= elapsed + MaxDelay
    BY <1>1, <1>3
  <2>9. \E n \in 0 .. elapsed' :
          elapsed' <= n + MaxDelay /\ Distance(command', At(n)) <= MaxStale
    BY <2>3, <2>7, <2>8
  <2>10. CommandOnWay'
    BY <1>1, <2>9 DEF CommandOnWay, At
  <2>. QED
    BY <1>5, <2>3, <2>6, <2>10 DEF S
<1>. QED
  BY <1>4, <1>5

\* Nothing else commands the joint.
LEMMA OnWayStep ==
  ASSUME MotionInv, MotionInv', CommandOnWay, [MotionNext]_<<vars, mvars>>
  PROVE  CommandOnWay'
<1>1. CASE ArmMoves
  BY <1>1 DEF ArmMoves, vars, fvars, CommandOnWay
<1>2. CASE LowState
  BY <1>2 DEF LowState, HandleMessage, vars, fvars, CommandOnWay
<1>3. CASE QueueTarget
  BY <1>3 DEF QueueTarget, ControlArm, fvars, CommandOnWay
<1>4. CASE BeginFinish
  BY <1>4, BeginOnWay
<1>5. CASE PublishJoint
  <2>1. blind' = blind /\ is_closed' = is_closed
    BY <1>5 DEF PublishJoint, Publish
  <2>. QED
    BY <1>5, <2>1, PublishOnWay DEF CommandOnWay
<1>6. CASE JointFinishReturns
  BY <1>6 DEF JointFinishReturns, FinishReturns, CommandOnWay
<1>7. CASE Others
  <2>1. UNCHANGED <<mvars, tasks, elapsed>>
    BY <1>7 DEF Others, RobotHandles, RequestLost, TrackerWaitEnds, CallReturns, CallTimesOut,
                Close, fvars
  <2>2. pc' = "run" => pc = "run" /\ is_closed' = is_closed
    BY <1>7 DEF Others, RobotHandles, RequestLost, TrackerWaitEnds, CallReturns, CallTimesOut,
                Close, BeginCall, EndCall
  <2>. QED
    BY <2>1, <2>2 DEF mvars, CommandOnWay
<1>8. CASE UNCHANGED <<vars, mvars>>
  BY <1>8 DEF vars, mvars, fvars, CommandOnWay
<1>. QED
  BY <1>1, <1>2, <1>3, <1>4, <1>5, <1>6, <1>7, <1>8 DEF MotionNext

LEMMA OnWayInit == MotionInit => CommandOnWay
BY DEF MotionInit, Init, CommandOnWay

\* Only a turn of the loop lets time pass in a Finish.
LEMMA OnlyTurnsTakeTime ==
  ASSUME MotionInv, MotionNext, pc = "run", elapsed' > elapsed
  PROVE  PublishJoint
<1>1. elapsed \in Nat /\ ~(elapsed > elapsed) /\ ~(0 > elapsed)
  BY DEF MotionInv, IInv, TypeOK
<1>. QED
  BY <1>1 DEF MotionNext, ArmMoves, LowState, HandleMessage, QueueTarget, ControlArm, BeginFinish,
     Finish, JointFinishReturns, FinishReturns, Others, RobotHandles, RequestLost,
     TrackerWaitEnds, CallReturns, CallTimesOut, Close, vars, fvars

\* Whatever the arm does between motions and during them - follow, lag, sag,
\* stand still or be moved by hand - a Finish that has feedback starts near
\* the arm and commands no jump: for every range of the joint, every duration,
\* delay and staleness of the feedback, and any number of motions.
THEOREM CommandsNeverJump == MotionSpec => NoJump
<1>1. MotionSpec => []IInv
  BY MotionIsController, ArmInvariant, PTL
<1>2. MotionSpec => [](MotionTypeOK /\ PlannedFromFeedback)
  BY MotionInRange
<1>3. MotionSpec => []MotionInv
  BY <1>1, <1>2, PTL DEF MotionInv
<1>4. MotionInv /\ MotionInv' /\ CommandOnWay /\ [MotionNext]_<<vars, mvars>> => CommandOnWay'
  BY OnWayStep
<1>5. MotionSpec => []CommandOnWay
  BY <1>3, <1>4, OnWayInit, PTL DEF MotionSpec
<1>6. MotionInv /\ CommandOnWay /\ [MotionNext]_<<vars, mvars>> =>
        [pc = "run" /\ elapsed' > elapsed /\ ~blind /\ ~is_closed =>
           IF tasks[Joint] = 0 THEN Distance(command', q) <= MaxStale
           ELSE Distance(command', command) <= Stride + MaxStale]_<<vars, mvars>>
  BY OnlyTurnsTakeTime, PublishOnWay
<1>. QED
  BY <1>3, <1>5, <1>6, PTL DEF MotionSpec, NoJump
=============================================================================
