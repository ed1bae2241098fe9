---------------------------- MODULE ArmController ----------------------------
(***************************************************************************)
(* b1::ArmController: construction with the retried request for custom     *)
(* control, ControlArm, Finish's interpolation loop against a clock that   *)
(* the scheduler may let jump, and Close.                                  *)
(*                                                                         *)
(* Time is in ticks of 10 ms, Finish's sleep.  A joint command is kept as  *)
(* how far along its motion it is, 0 .. duration.  Requests to the robot   *)
(* travel in order (one DDS writer), may be lost, and may be carried out   *)
(* after the caller has timed out.                                         *)
(***************************************************************************)
EXTENDS Naturals, Sequences

CONSTANTS
  Requested,        \* joint indices the application passes to ControlArm
  Durations,        \* duration_ms it passes, in ticks
  kMinDuration,     \* the 50 ms below which a duration is raised
  kGrace,           \* the 20 ms Finish goes on after the longest motion
  MaxDelay,         \* the longest time between two turns of Finish's loop
  kEnableRetries, kDisableRetries,
  MaxCalls          \* bound: calls of ControlArm and Finish

ASSUME ArmAssumption ==
  /\ Requested \subseteq Nat
  /\ Durations \subseteq Nat
  /\ kMinDuration \in Nat \ {0}
  /\ kGrace \in Nat
  /\ MaxDelay \in Nat \ {0}
  /\ kEnableRetries \in Nat \ {0}
  /\ kDisableRetries \in Nat \ {0}
  /\ MaxCalls \in Nat

VARIABLES
  pc,         \* "wait", "call" (in RetryApiCall), "idle" or "run" (in Finish)
  ready,      \* LowStateTracker::ready_
  custom,     \* the robot: is upper-body custom control "on" or "off"?
  requests,   \* UpperBodyCustomControl requests the robot has not seen
  issued,     \* how many were sent
  reply,      \* the answer to the last one, once it has arrived
  kind, attempt, outcome,  \* RetryApiCall's request, counter and result
  pending_actions,  \* duration of each queued joint, 0 if none
  tasks,            \* the same for the motions Finish runs
  elapsed,
  published,  \* progress of each task in the last command written
  success, result,  \* Finish's local and what it returned
  failures,   \* history: some Write of this Finish failed
  is_closed, calls

nvars == <<custom, requests, issued, reply>>
avars == <<kind, attempt, outcome>>
fvars == <<tasks, elapsed, published, success, result, failures>>
vars  == <<pc, ready, nvars, avars, pending_actions, fvars, is_closed, calls>>

kArmJointStart == 2
kArmJointEnd   == 9
ArmJoints == kArmJointStart .. kArmJointEnd
NoActions == [j \in ArmJoints |-> 0]
Maximum(a, b) == IF a > b THEN a ELSE b
Minimum(a, b) == IF a < b THEN a ELSE b

Init ==
  /\ pc = "wait"
  /\ ready = FALSE
  /\ custom = "off" /\ requests = <<>> /\ issued = 0 /\ reply = "none"
  /\ kind = "on" /\ attempt = 0 /\ outcome = "none"
  /\ pending_actions = NoActions
  /\ tasks = NoActions /\ elapsed = 0 /\ published = NoActions
  /\ success = TRUE /\ result = "none" /\ failures = FALSE
  /\ is_closed = FALSE
  /\ calls = 0

-----------------------------------------------------------------------------
(* The robot and the network.                                              *)

\* LowStateTracker::HandleMessage.
HandleMessage ==
  /\ ~ready /\ ~is_closed
  /\ ready' = TRUE
  /\ UNCHANGED <<pc, nvars, avars, pending_actions, fvars, is_closed, calls>>

\* The robot carries out or refuses the oldest request.  A reply matters to
\* the client only if it still waits for that request.
RobotHandles ==
  /\ requests # <<>>
  /\ requests' = Tail(requests)
  /\ LET r == Head(requests)
         Answer(a) == IF r.n = issued THEN a ELSE reply
     IN  \/ custom' = r.kind /\ reply' = Answer("ok")
         \/ UNCHANGED custom /\ reply' = Answer("refused")
  /\ UNCHANGED <<pc, ready, issued, avars, pending_actions, fvars, is_closed, calls>>

RequestLost ==
  /\ requests # <<>>
  /\ requests' = Tail(requests)
  /\ UNCHANGED <<pc, ready, custom, issued, reply, avars, pending_actions, fvars, is_closed, calls>>

-----------------------------------------------------------------------------
(* RetryApiCall around UpperBodyCustomControl.                             *)

Request(k) ==
  /\ requests' = Append(requests, [n |-> issued + 1, kind |-> k])
  /\ issued' = issued + 1
  /\ reply' = "none"
  /\ UNCHANGED custom

BeginCall(k) ==
  /\ pc' = "call"
  /\ kind' = k
  /\ attempt' = 0
  /\ outcome' = "none"
  /\ Request(k)

\* Whatever the outcome, the constructor ends; Close goes on to close the
\* channels and to drop what is queued.
EndCall(o) ==
  /\ outcome' = o
  /\ pc' = "idle"
  /\ is_closed' = (kind = "off")
  /\ pending_actions' = IF kind = "off" THEN NoActions ELSE pending_actions
  /\ UNCHANGED <<nvars, kind, attempt>>

max_retries == IF kind = "on" THEN kEnableRetries ELSE kDisableRetries

CallReturns ==
  /\ pc = "call"
  /\ reply # "none"
  /\ EndCall(IF reply = "ok" THEN "success" ELSE "failure")
  /\ UNCHANGED <<ready, fvars, calls>>

CallTimesOutOnce ==
  /\ pc = "call"
  /\ EndCall("success")
  /\ UNCHANGED <<ready, fvars, calls>>
CallTimesOut ==
  /\ pc = "call"
  /\ IF attempt + 1 < max_retries
       THEN /\ Request(kind)
            /\ attempt' = attempt + 1
            /\ UNCHANGED <<pc, kind, outcome, is_closed, pending_actions>>
       ELSE EndCall("failure")
  /\ UNCHANGED <<ready, fvars, calls>>

\* The constructor: feedback, or five seconds without it, which is logged.
TrackerWaitEnds ==
  /\ pc = "wait"
  /\ BeginCall("on")
  /\ UNCHANGED <<ready, pending_actions, fvars, is_closed, calls>>

Close ==
  /\ pc = "idle" /\ ~is_closed
  /\ BeginCall("off")
  /\ UNCHANGED <<ready, pending_actions, fvars, is_closed, calls>>

-----------------------------------------------------------------------------
(* ControlArm and Finish.                                                  *)

InRange(j) == kArmJointStart <= j /\ j <= kArmJointEnd

\* A joint out of range is ignored; a second target for a joint replaces the
\* first; a short duration is raised.
ControlArmRaw ==
  /\ pc = "idle" /\ calls < MaxCalls
  /\ calls' = calls + 1
  /\ \E j \in Requested, d \in Durations :
       pending_actions' = IF InRange(j) THEN [pending_actions EXCEPT ![j] = d]
                                        ELSE pending_actions
  /\ UNCHANGED <<pc, ready, nvars, avars, fvars, is_closed>>
ControlArm ==
  /\ pc = "idle" /\ calls < MaxCalls
  /\ calls' = calls + 1
  /\ \E j \in Requested, d \in Durations :
       pending_actions' =
         IF InRange(j) THEN [pending_actions EXCEPT ![j] = Maximum(kMinDuration, d)]
                       ELSE pending_actions
  /\ UNCHANGED <<pc, ready, nvars, avars, fvars, is_closed>>

\* With nothing queued, true at once; otherwise the tasks are planned and the
\* clock starts.  The first turn of the loop may already be late.
Finish ==
  /\ pc = "idle" /\ calls < MaxCalls
  /\ calls' = calls + 1
  /\ tasks' = pending_actions
  /\ published' = NoActions
  /\ success' = TRUE
  /\ failures' = FALSE
  /\ IF pending_actions = NoActions
       THEN result' = "true" /\ elapsed' = 0 /\ UNCHANGED pc
       ELSE result' = "none" /\ pc' = "run" /\ elapsed' \in 0 .. MaxDelay - 1
  /\ UNCHANGED <<ready, nvars, avars, pending_actions, is_closed>>

\* elapsed > max_duration + 0.02: max_duration is the largest of the tasks'.
OverEarly == \A j \in ArmJoints : elapsed >= tasks[j]
Over == \A j \in ArmJoints : elapsed > tasks[j] + kGrace

\* `success` is the conjunction of every Write so far.
AccumulateLast(ok) == success' = ok
Accumulate(ok) == success' = (ok /\ success)

\* One turn of the loop: a command for every joint, and the sleep.  After
\* Close, Write has no channel and fails.
PublishStaleClock ==
  /\ pc = "run"
  /\ ~Over
  /\ published' = [j \in ArmJoints |-> Minimum(elapsed, tasks[j])]
  /\ UNCHANGED <<pc, ready, nvars, avars, pending_actions, tasks, elapsed, success, result,
                 failures, is_closed, calls>>
PublishUnclamped ==
  /\ pc = "run"
  /\ ~Over
  /\ published' = [j \in ArmJoints |-> IF tasks[j] = 0 THEN 0 ELSE elapsed]
  /\ \E d \in 1 .. MaxDelay : elapsed' = elapsed + d
  /\ UNCHANGED <<pc, ready, nvars, avars, pending_actions, tasks, success, result,
                 failures, is_closed, calls>>
Publish ==
  /\ pc = "run"
  /\ ~Over
  /\ published' = [j \in ArmJoints |-> Minimum(elapsed, tasks[j])]
  /\ \E ok \in BOOLEAN :
       /\ is_closed => ~ok
       /\ Accumulate(ok)
       /\ failures' = (failures \/ ~ok)
  /\ \E d \in 1 .. MaxDelay : elapsed' = elapsed + d
  /\ UNCHANGED <<pc, ready, nvars, avars, pending_actions, tasks, result, is_closed, calls>>

FinishReturns ==
  /\ pc = "run"
  /\ Over
  /\ pc' = "idle"
  /\ result' = IF success THEN "true" ELSE "false"
  /\ pending_actions' = NoActions
  /\ elapsed' = 0
  /\ UNCHANGED <<ready, nvars, avars, tasks, published, success, failures, is_closed, calls>>

Next ==
  \/ HandleMessage \/ RobotHandles \/ RequestLost
  \/ TrackerWaitEnds \/ CallReturns \/ CallTimesOut
  \/ ControlArm \/ Finish \/ Publish \/ FinishReturns
  \/ Close

Spec == Init /\ [][Next]_vars

\* The thread that calls the controller runs, and its timeouts pass.
FairSpec ==
  /\ Spec
  /\ WF_vars(TrackerWaitEnds)
  /\ WF_vars(CallReturns \/ CallTimesOut)
  /\ WF_vars(Publish \/ FinishReturns)
-----------------------------------------------------------------------------
(* Properties.                                                             *)

\* Queued and running motions have a duration that Finish can divide by.
Motions == [ArmJoints -> {0} \cup {d \in Nat : d >= kMinDuration}]

\* Types, and the durations Finish divides by.
TypeOK ==
  /\ pc \in {"wait", "call", "idle", "run"}
  /\ ready \in BOOLEAN
  /\ custom \in {"on", "off"}
  /\ requests \in Seq([n : Nat, kind : {"on", "off"}])
  /\ issued \in Nat
  /\ reply \in {"none", "ok", "refused"}
  /\ kind \in {"on", "off"} /\ attempt \in Nat
  /\ outcome \in {"none", "success", "failure"}
  /\ pending_actions \in Motions /\ tasks \in Motions
  /\ elapsed \in Nat
  /\ published \in [ArmJoints -> Nat]
  /\ success \in BOOLEAN /\ failures \in BOOLEAN
  /\ result \in {"none", "true", "false"}
  /\ is_closed \in BOOLEAN
  /\ calls \in 0 .. MaxCalls

\* A Close whose disabling request was answered leaves the robot out of custom
\* control for good, whatever became of the retried enabling and disabling
\* requests before it.
DisabledAfterClose == is_closed /\ outcome = "success" => custom = "off"

\* When Finish returns true, the last command it published had every queued
\* joint at its target.
FinalTargetPublished ==
  result = "true" => \A j \in ArmJoints : published[j] = tasks[j]

\* "false if any publish failed", the failed one being any of the loop's.
FailureReported == pc # "run" /\ failures => result = "false"

\* "Shorter motions hold their final position while longer motions complete":
\* from one command of a Finish to the next no joint goes back, none goes
\* beyond its target, and one that has got there stays.
MotionsForward ==
  [][pc = "run" /\ pc' = "run" =>
       \A j \in ArmJoints : published[j] <= published'[j] /\ published'[j] <= tasks[j]]_vars

\* Construction, Finish and Close return: the retries come to an end, and
\* Finish blocks for the longest duration only.
CallsReturn == pc \in {"wait", "call", "run"} ~> pc = "idle"

-----------------------------------------------------------------------------
(* The inductive invariant.                                                *)

\* The requests on their way are the last ones issued, in order; only the
\* last one's reply is kept.
RequestsInOrder ==
  /\ \A i \in 1 .. Len(requests) : requests[i].n + Len(requests) = issued + i
  /\ \A i \in 1 .. Len(requests) : i = Len(requests) => requests[i].kind = kind
  /\ reply # "none" => requests = <<>>
  /\ reply = "ok" => custom = kind

ClosedQuietly ==
  is_closed => /\ pc \in {"idle", "run"}
               /\ outcome = "success" => requests = <<>> /\ custom = "off"

\* The last command published is at most MaxDelay old.
RecentlyPublished ==
  pc = "run" =>
    \/ elapsed < MaxDelay
    \/ \E e \in 0 .. elapsed :
         /\ elapsed <= e + MaxDelay
         /\ \A j \in ArmJoints : published[j] = Minimum(e, tasks[j])

\* The final targets, if no turn of the loop is later than the grace period.
TargetsInTime == MaxDelay <= kGrace => FinalTargetPublished

SuccessExact == pc = "run" => result = "none" /\ (success = ~failures)

\* For MotionsForward: the last command published is not ahead of the clock.
PublishedBehind ==
  pc = "run" => \A j \in ArmJoints : published[j] <= Minimum(elapsed, tasks[j])

IInv ==
  /\ TypeOK
  /\ RequestsInOrder
  /\ ClosedQuietly
  /\ DisabledAfterClose
  /\ SuccessExact
  /\ FailureReported
  /\ RecentlyPublished
  /\ TargetsInTime
=============================================================================
