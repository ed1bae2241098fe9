------------------------- MODULE ArmControllerProofs -------------------------
(***************************************************************************)
(* What Finish and Close promise, for every duration, retry count, grace   *)
(* period and delay of Finish's loop.                                      *)
(***************************************************************************)
EXTENDS ArmController, TLAPS

RequestSet == [n : Nat, kind : {"on", "off"}]

\* Elements, head, tail and append of a sequence of requests.
LEMMA RequestSeqs ==
  ASSUME NEW s \in Seq(RequestSet)
  PROVE  /\ Len(s) \in Nat
         /\ \A i \in 1 .. Len(s) : s[i] \in RequestSet
         /\ s # <<>> => /\ Len(s) > 0
                       /\ Head(s) = s[1]
                       /\ Tail(s) \in Seq(RequestSet)
                       /\ Len(Tail(s)) = Len(s) - 1
                       /\ \A i \in 1 .. Len(s) - 1 : Tail(s)[i] = s[i + 1]
         /\ \A r \in RequestSet : /\ Append(s, r) \in Seq(RequestSet)
                                  /\ Len(Append(s, r)) = Len(s) + 1
                                  /\ \A i \in 1 .. Len(s) : Append(s, r)[i] = s[i]
                                  /\ Append(s, r)[Len(s) + 1] = r
OBVIOUS

\* A request has a number and a kind.
LEMMA RequestFields ==
  ASSUME NEW r \in RequestSet
  PROVE  r.n \in Nat /\ r.kind \in {"on", "off"}
BY DEF RequestSet

\* The request and reply steps: the order of the requests and the state the
\* robot is left in.
LEMMA RobotStep ==
  ASSUME IInv, RobotHandles \/ RequestLost
  PROVE  IInv'
<1> USE DEF IInv
<1>1. requests \in Seq(RequestSet) /\ requests # <<>>
  BY DEF TypeOK, RobotHandles, RequestLost, RequestSet
<1>2. /\ \A i \in 1 .. Len(requests) : requests[i] \in RequestSet
      /\ Head(requests) = requests[1]
      /\ requests' = Tail(requests)
      /\ requests' \in Seq(RequestSet)
      /\ Len(requests) \in Nat \ {0}
      /\ Len(requests') = Len(requests) - 1
      /\ \A i \in 1 .. Len(requests') : requests'[i] = requests[i + 1]
  BY <1>1, RequestSeqs DEF RobotHandles, RequestLost
<1>3. TypeOK'
  <2>1. Head(requests).kind \in {"on", "off"}
    BY <1>2, RequestFields
  <2> QED BY <1>2, <2>1 DEF TypeOK, RobotHandles, RequestLost, avars, fvars, RequestSet
<1>4. RequestsInOrder'
  <2>1. /\ \A i \in 1 .. Len(requests') : requests'[i].n + Len(requests') = issued' + i
        /\ \A i \in 1 .. Len(requests') : i = Len(requests') => requests'[i].kind = kind'
    <3> SUFFICES ASSUME NEW i \in 1 .. Len(requests')
                 PROVE  /\ requests'[i].n + Len(requests') = issued' + i
                        /\ i = Len(requests') => requests'[i].kind = kind'
      OBVIOUS
    <3>1. /\ i + 1 \in 1 .. Len(requests)
          /\ requests'[i] = requests[i + 1]
          /\ Len(requests') = Len(requests) - 1
          /\ issued' = issued /\ kind' = kind
      BY <1>2 DEF RobotHandles, RequestLost, avars
    <3>2. requests[i + 1].n \in Nat
      BY <3>1, <1>2, RequestFields
    <3>3. /\ requests[i + 1].n + Len(requests) = issued + (i + 1)
          /\ i + 1 = Len(requests) => requests[i + 1].kind = kind
      BY <3>1 DEF RequestsInOrder
    <3>4. issued \in Nat /\ Len(requests) \in Nat
      BY <1>2 DEF TypeOK
    <3> HIDE DEF IInv
    <3> QED BY <3>1, <3>2, <3>3, <3>4
  <2>2. Head(requests).n = issued => Len(requests) = 1
    <3>0. 1 \in 1 .. Len(requests)
      BY <1>2
    <3>1. requests[1].n + Len(requests) = issued + 1
      BY <3>0 DEF RequestsInOrder
    <3>2. issued \in Nat /\ Len(requests) \in Nat
      BY <1>2 DEF TypeOK
    <3> HIDE DEF IInv
    <3>3. requests[1].n \in Nat
      BY <3>0, <1>2, RequestFields
    <3>4. Head(requests).n = requests[1].n
      BY <1>2
    <3>5. \A a, b, c \in Nat : a + b = c + 1 /\ a = c => b = 1
      OBVIOUS
    <3>6. requests[1].n = issued => Len(requests) = 1
      BY <3>1, <3>2, <3>3, <3>5, Zenon
    <3> QED BY <3>4, <3>6, Zenon
  <2>3. reply = "none"
    BY <1>1 DEF RequestsInOrder
  <2>4. reply' # "none" => requests' = <<>>
    BY <1>2, <2>2, <2>3 DEF RobotHandles, RequestLost
  <2>5. Len(requests) = 1 => Head(requests).kind = kind
    BY <1>2 DEF RequestsInOrder
  <2>6. reply' = "ok" => custom' = kind'
    BY <2>2, <2>3, <2>5 DEF RobotHandles, RequestLost, avars
  <2> QED BY <2>1, <2>4, <2>6 DEF RequestsInOrder
<1>5. ClosedQuietly' /\ DisabledAfterClose'
  BY <1>1 DEF ClosedQuietly, DisabledAfterClose, RobotHandles, RequestLost, avars
<1>6. SuccessExact' /\ FailureReported' /\ RecentlyPublished' /\ TargetsInTime'
  BY DEF SuccessExact, FailureReported, RecentlyPublished, TargetsInTime, FinalTargetPublished,
     RobotHandles, RequestLost, fvars
<1> QED BY <1>3, <1>4, <1>5, <1>6

\* Sending a request appends to the requests in order.
LEMMA RequestStep ==
  ASSUME IInv, NEW k \in {"on", "off"}, Request(k), kind' = k
  PROVE  RequestsInOrder' /\ requests' \in Seq(RequestSet)
           /\ issued' \in Nat /\ reply' = "none" /\ custom' = custom
<1>1. /\ requests \in Seq(RequestSet)
      /\ issued \in Nat /\ Len(requests) \in Nat
      /\ \A i \in 1 .. Len(requests) : requests[i] \in RequestSet
  BY RequestSeqs DEF IInv, TypeOK, RequestSet
<1>2. /\ requests' = Append(requests, [n |-> issued + 1, kind |-> k])
      /\ issued' = issued + 1 /\ reply' = "none" /\ custom' = custom
  BY DEF Request
<1>3. [n |-> issued + 1, kind |-> k] \in RequestSet
  BY <1>1 DEF RequestSet
<1>4. /\ requests' \in Seq(RequestSet)
      /\ Len(requests') = Len(requests) + 1
      /\ \A i \in 1 .. Len(requests) : requests'[i] = requests[i]
      /\ requests'[Len(requests) + 1] = [n |-> issued + 1, kind |-> k]
  BY <1>1, <1>2, <1>3, RequestSeqs
<1>5. ASSUME NEW i \in 1 .. Len(requests')
      PROVE  /\ requests'[i].n + Len(requests') = issued' + i
             /\ i = Len(requests') => requests'[i].kind = kind'
  <2>1. CASE i \in 1 .. Len(requests)
    <3>1. requests[i].n \in Nat
      BY <2>1, <1>1, RequestFields
    <3>2. requests[i].n + Len(requests) = issued + i
      BY <2>1 DEF IInv, RequestsInOrder
    <3>3. requests'[i] = requests[i] /\ i # Len(requests')
      BY <2>1, <1>1, <1>4
    <3>4. Len(requests') = Len(requests) + 1 /\ issued' = issued + 1
      BY <1>2, <1>4
    <3>5. requests[i].n + (Len(requests) + 1) = (issued + 1) + i
      BY <2>1, <3>1, <3>2, <1>1
    <3> QED BY <3>3, <3>4, <3>5
  <2>2. CASE i = Len(requests) + 1
    BY <2>2, <1>1, <1>2, <1>4
  <2> QED BY <1>1, <1>4, <2>1, <2>2
<1>6. reply' # "none" => requests' = <<>>
  BY <1>2
<1>7. reply' = "ok" => custom' = kind'
  BY <1>2
<1>8. RequestsInOrder'
  BY ONLY <1>5, <1>6, <1>7 DEF RequestsInOrder
<1>9. issued' \in Nat
  BY <1>1, <1>2
<1> QED BY ONLY <1>2, <1>4, <1>8, <1>9

\* RetryApiCall, from the constructor and from Close.
LEMMA CallStep ==
  ASSUME IInv, TrackerWaitEnds \/ Close \/ CallReturns \/ CallTimesOut
  PROVE  IInv'
<1> USE DEF IInv
<1>1. CASE TrackerWaitEnds \/ Close
  <2>1. PICK k \in {"on", "off"} : BeginCall(k)
    BY <1>1 DEF TrackerWaitEnds, Close
  <2>2. Request(k) /\ kind' = k /\ pc' = "call" /\ attempt' = 0 /\ outcome' = "none"
    BY <2>1 DEF BeginCall
  <2>3. RequestsInOrder' /\ requests' \in Seq(RequestSet)
           /\ issued' \in Nat /\ reply' = "none" /\ custom' = custom
    BY <2>2, RequestStep
  <2>4. TypeOK'
    BY <1>1, <2>2, <2>3 DEF TypeOK, TrackerWaitEnds, Close, fvars, RequestSet
  <2>5. ~is_closed /\ ~is_closed'
    BY <1>1 DEF TrackerWaitEnds, Close, ClosedQuietly
  <2> QED BY <1>1, <2>2, <2>3, <2>4, <2>5 DEF ClosedQuietly, DisabledAfterClose, SuccessExact,
       FailureReported, RecentlyPublished, TargetsInTime, FinalTargetPublished, TrackerWaitEnds, Close, fvars
<1>2. ASSUME NEW o \in {"success", "failure"}, EndCall(o), pc = "call",
             UNCHANGED <<ready, fvars, calls>>, o = "success" => reply = "ok"
      PROVE  IInv'
  <2>1. TypeOK'
    BY <1>2 DEF TypeOK, EndCall, nvars, fvars, Motions, NoActions
  <2>2. RequestsInOrder'
    BY <1>2 DEF RequestsInOrder, EndCall, nvars
  <2>3. ClosedQuietly' /\ DisabledAfterClose'
    BY <1>2 DEF ClosedQuietly, DisabledAfterClose, RequestsInOrder, EndCall, nvars, TypeOK
  <2>4. FailureReported' /\ TargetsInTime'
    BY <1>2 DEF FailureReported, TargetsInTime, FinalTargetPublished, EndCall, fvars
  <2> QED BY <1>2, <2>1, <2>2, <2>3, <2>4 DEF SuccessExact, RecentlyPublished, EndCall
<1>3. CASE CallReturns
  BY <1>2, <1>3 DEF CallReturns
<1>4. CASE CallTimesOut /\ Request(kind) /\ attempt' = attempt + 1
             /\ UNCHANGED <<pc, kind, outcome, is_closed, pending_actions>>
  <2>1. RequestsInOrder' /\ requests' \in Seq(RequestSet)
           /\ issued' \in Nat /\ reply' = "none" /\ custom' = custom
    BY <1>4, RequestStep DEF TypeOK
  <2>2. TypeOK'
    BY <1>4, <2>1 DEF TypeOK, CallTimesOut, fvars, RequestSet
  <2> QED BY <1>4, <2>1, <2>2 DEF CallTimesOut, ClosedQuietly, DisabledAfterClose,
       SuccessExact, FailureReported, RecentlyPublished, TargetsInTime, FinalTargetPublished, fvars
<1>5. CASE CallTimesOut /\ EndCall("failure")
  BY <1>2, <1>5 DEF CallTimesOut
<1> QED BY <1>1, <1>3, <1>4, <1>5 DEF CallTimesOut
\* ControlArm, and everything Finish does.
LEMMA FinishStep ==
  ASSUME IInv, ControlArm \/ Finish \/ Publish \/ FinishReturns
  PROVE  IInv'
<1> USE ArmAssumption DEF IInv
<1>1. UNCHANGED <<ready, custom, requests, issued, reply, kind, attempt, outcome, is_closed>>
  BY DEF ControlArm, Finish, Publish, FinishReturns, nvars, avars
<1>2. RequestsInOrder' /\ DisabledAfterClose'
  BY <1>1 DEF RequestsInOrder, DisabledAfterClose
<1>3. ClosedQuietly'
  BY <1>1 DEF ClosedQuietly, ControlArm, Finish, Publish, FinishReturns
<1>4. NoActions \in Motions
  BY DEF NoActions, Motions
<1>5. CASE ControlArm
  <2>1. pending_actions' \in Motions
    BY <1>5 DEF ControlArm, TypeOK, Motions, Maximum, InRange, ArmJoints
  <2>2. TypeOK'
    BY <1>1, <1>5, <2>1 DEF ControlArm, TypeOK, fvars
  <2> QED BY <1>2, <1>3, <1>5, <2>2 DEF ControlArm, SuccessExact, FailureReported,
       RecentlyPublished, TargetsInTime, FinalTargetPublished, fvars
<1>6. CASE Finish
  <2>1. elapsed' \in Nat /\ (pc' = "run" => elapsed' < MaxDelay)
    BY <1>6 DEF Finish, TypeOK
  <2>2. TypeOK'
    <3>1. published' \in [ArmJoints -> Nat]
      BY <1>6 DEF Finish, NoActions
    <3>2. pc' \in {"idle", "run"} /\ result' \in {"none", "true"}
      BY <1>6 DEF Finish
    <3>3. tasks' \in Motions /\ pending_actions' \in Motions /\ calls' \in 0 .. MaxCalls
      BY <1>6 DEF Finish, TypeOK
    <3>4. success' \in BOOLEAN /\ failures' \in BOOLEAN
      BY <1>6 DEF Finish
    <3> QED BY <1>1, <2>1, <3>1, <3>2, <3>3, <3>4 DEF TypeOK
  <2>3. TargetsInTime'
    BY <1>6 DEF Finish, TargetsInTime, FinalTargetPublished
  <2> QED BY <1>2, <1>3, <1>6, <2>1, <2>2, <2>3 DEF Finish, SuccessExact, FailureReported,
       RecentlyPublished, TypeOK
<1>7. CASE Publish
  <2>1. PICK d \in 1 .. MaxDelay : elapsed' = elapsed + d
    BY <1>7 DEF Publish
  <2>2. elapsed \in Nat /\ d \in Nat /\ d <= MaxDelay /\ elapsed' \in Nat
    BY <2>1 DEF TypeOK
  <2>3. published' \in [ArmJoints -> Nat]
    BY <1>7, <2>2 DEF Publish, TypeOK, Motions, Minimum
  <2>4. PICK ok \in BOOLEAN : success' = (ok /\ success) /\ failures' = (failures \/ ~ok)
    BY <1>7 DEF Publish, Accumulate
  <2>5. success' \in BOOLEAN /\ failures' \in BOOLEAN /\ success' = ~failures'
    BY <1>7, <2>4 DEF Publish, TypeOK, SuccessExact
  <2>6. TypeOK'
    BY <1>1, <1>7, <2>2, <2>3, <2>5 DEF Publish, TypeOK
  <2>7. RecentlyPublished'
    <3>1. /\ elapsed \in 0 .. elapsed' /\ elapsed' <= elapsed + MaxDelay
          /\ \A j \in ArmJoints : published'[j] = Minimum(elapsed, tasks'[j])
      BY <1>7, <2>1, <2>2 DEF Publish
    <3> QED BY <3>1 DEF RecentlyPublished, Minimum
  <2> QED BY <1>2, <1>3, <1>7, <2>5, <2>6, <2>7 DEF Publish, SuccessExact, FailureReported,
       TargetsInTime, FinalTargetPublished
<1>8. CASE FinishReturns
  <2>1. TypeOK'
    BY <1>1, <1>4, <1>8 DEF FinishReturns, TypeOK
  <2>2. FailureReported'
    BY <1>8 DEF FinishReturns, FailureReported, SuccessExact, TypeOK
  <2>3. \A j \in ArmJoints : elapsed > tasks[j] + kGrace /\ tasks[j] \in Nat
    BY <1>8 DEF FinishReturns, Over, TypeOK, Motions
  <2>4. ASSUME MaxDelay <= kGrace
        PROVE  \A j \in ArmJoints : published[j] = tasks[j]
    <3>1. 2 \in ArmJoints
      BY DEF ArmJoints, kArmJointStart, kArmJointEnd
    <3>2. ~(elapsed < MaxDelay)
      BY <2>3, <2>4, <3>1 DEF TypeOK
    <3>3. PICK e \in 0 .. elapsed :
            /\ elapsed <= e + MaxDelay
            /\ \A j \in ArmJoints : published[j] = Minimum(e, tasks[j])
      BY <1>8, <3>2 DEF RecentlyPublished, FinishReturns
    <3> QED BY <2>3, <2>4, <3>3 DEF Minimum, TypeOK
  <2>5. TargetsInTime'
    BY <1>8, <2>4 DEF FinishReturns, TargetsInTime, FinalTargetPublished
  <2> QED BY <1>2, <1>3, <1>8, <2>1, <2>2, <2>5 DEF FinishReturns, SuccessExact, RecentlyPublished
<1> QED BY <1>5, <1>6, <1>7, <1>8

\* The invariant, for every duration, number of retries and delay.
THEOREM ArmInvariant == Spec => []IInv
<1>1. Init => IInv
  <2> SUFFICES ASSUME Init PROVE IInv
    OBVIOUS
  <2>1. TypeOK
    <3>1. NoActions \in Motions /\ NoActions \in [ArmJoints -> Nat]
      BY DEF Motions, NoActions
    <3>2. requests \in Seq([n : Nat, kind : {"on", "off"}])
      BY DEF Init
    <3>3. calls \in 0 .. MaxCalls
      BY ArmAssumption DEF Init
    <3> QED BY <3>1, <3>2, <3>3 DEF Init, TypeOK
  <2> QED BY <2>1 DEF Init, IInv, RequestsInOrder, ClosedQuietly, DisabledAfterClose,
       SuccessExact, FailureReported, RecentlyPublished, TargetsInTime, FinalTargetPublished
<1>2. IInv /\ [Next]_vars => IInv'
  <2> SUFFICES ASSUME IInv, [Next]_vars PROVE IInv'
    OBVIOUS
  <2>1. CASE HandleMessage
    BY <2>1 DEF HandleMessage, IInv, TypeOK, RequestsInOrder, ClosedQuietly,
       DisabledAfterClose, SuccessExact, FailureReported, RecentlyPublished,
       TargetsInTime, FinalTargetPublished, nvars, avars, fvars
  <2>2. CASE UNCHANGED vars
    BY <2>2 DEF vars, IInv, TypeOK, RequestsInOrder, ClosedQuietly,
       DisabledAfterClose, SuccessExact, FailureReported, RecentlyPublished,
       TargetsInTime, FinalTargetPublished, nvars, avars, fvars
  <2> QED BY <2>1, <2>2, RobotStep, CallStep, FinishStep DEF Next
<1> QED BY <1>1, <1>2, PTL DEF Spec

\* A Close whose disabling request was answered leaves custom control off.
THEOREM CustomControlDisabled == Spec => []DisabledAfterClose
BY ArmInvariant, PTL DEF IInv

\* With a loop at most kGrace late, true from Finish means that every target
\* was published.
THEOREM TargetsPublished ==
  ASSUME MaxDelay <= kGrace
  PROVE  Spec => []FinalTargetPublished
<1>1. IInv => FinalTargetPublished
  BY DEF IInv, TargetsInTime
<1> QED BY <1>1, ArmInvariant, PTL

\* Finish reports the failure of any of its publishes.
THEOREM FailuresReported == Spec => []FailureReported
BY ArmInvariant, PTL DEF IInv

\* The variables keep their types; no queued or running motion is shorter
\* than kMinDuration, so Finish never divides by zero.
THEOREM TypeCorrect == Spec => []TypeOK
BY ArmInvariant, PTL DEF IInv

\* What a turn of the loop writes is never ahead of its clock.
LEMMA PublishedBehindStep ==
  ASSUME TypeOK, TypeOK', PublishedBehind, [Next]_vars
  PROVE  PublishedBehind'
<1>1. CASE Finish
  <2>. SUFFICES ASSUME pc' = "run", NEW j \in ArmJoints
                PROVE  published'[j] <= Minimum(elapsed', tasks'[j])
    BY DEF PublishedBehind
  <2>1. published'[j] = 0
    BY <1>1 DEF Finish, NoActions
  <2>2. elapsed' \in Nat /\ tasks'[j] \in Nat
    BY DEF TypeOK, Motions
  <2>. QED
    BY <2>1, <2>2 DEF Minimum
<1>2. CASE Publish
  <2>. SUFFICES ASSUME NEW j \in ArmJoints
                PROVE  published'[j] <= Minimum(elapsed', tasks'[j])
    BY DEF PublishedBehind
  <2>1. published'[j] = Minimum(elapsed, tasks[j]) /\ tasks' = tasks
    BY <1>2 DEF Publish
  <2>2. elapsed \in Nat /\ elapsed' \in Nat /\ tasks[j] \in Nat
    BY DEF TypeOK, Motions
  <2>3. elapsed <= elapsed'
    BY <1>2, <2>2 DEF Publish, TypeOK
  <2>. QED
    BY <2>1, <2>2, <2>3 DEF Minimum
<1>3. CASE FinishReturns
  BY <1>3 DEF FinishReturns, PublishedBehind
<1>4. CASE ControlArm
  BY <1>4 DEF ControlArm, PublishedBehind, fvars
<1>5. CASE HandleMessage \/ RobotHandles \/ RequestLost \/ UNCHANGED vars
  BY <1>5 DEF HandleMessage, RobotHandles, RequestLost, vars, PublishedBehind, fvars
<1>6. CASE TrackerWaitEnds \/ CallReturns \/ CallTimesOut \/ Close
  <2>1. pc' # "run"
    BY <1>6 DEF TrackerWaitEnds, CallReturns, CallTimesOut, Close, BeginCall, EndCall
  <2>. QED
    BY <2>1 DEF PublishedBehind
<1>. QED
  BY <1>1, <1>2, <1>3, <1>4, <1>5, <1>6 DEF Next

\* From one command of a Finish to the next no joint goes back or beyond its
\* target: a short motion holds its final position.
THEOREM JointsMoveForward == Spec => MotionsForward
<1>1. Init => PublishedBehind
  BY DEF Init, PublishedBehind
<1>2. TypeOK /\ TypeOK' /\ PublishedBehind /\ [Next]_vars => PublishedBehind'
  BY PublishedBehindStep
<1>3. TypeOK /\ PublishedBehind /\ [Next]_vars
        => [pc = "run" /\ pc' = "run" =>
              \A j \in ArmJoints : published[j] <= published'[j] /\ published'[j] <= tasks[j]]_vars
  <2>. SUFFICES ASSUME TypeOK, PublishedBehind, Next, pc = "run", pc' = "run",
                       NEW j \in ArmJoints
                PROVE  published[j] <= published'[j] /\ published'[j] <= tasks[j]
    OBVIOUS
  <2>1. elapsed \in Nat /\ tasks[j] \in Nat /\ published[j] \in Nat
    BY DEF TypeOK, Motions
  <2>2. published[j] <= Minimum(elapsed, tasks[j])
    BY DEF PublishedBehind
  <2>3. CASE Publish
    <3>1. published'[j] = Minimum(elapsed, tasks[j])
      BY <2>3 DEF Publish
    <3>. QED
      BY <2>1, <2>2, <3>1 DEF Minimum
  <2>4. CASE HandleMessage \/ RobotHandles \/ RequestLost
    <3>1. published' = published
      BY <2>4 DEF HandleMessage, RobotHandles, RequestLost, fvars
    <3>. QED
      BY <2>1, <2>2, <3>1 DEF Minimum
  <2>. QED
    BY <2>3, <2>4 DEF Next, TrackerWaitEnds, CallReturns, CallTimesOut, ControlArm, Finish,
       FinishReturns, Close
<1>. QED
  BY <1>1, <1>2, <1>3, TypeCorrect, PTL DEF Spec, MotionsForward
=============================================================================
