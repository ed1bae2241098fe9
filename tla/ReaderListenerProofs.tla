------------------------ MODULE ReaderListenerProofs ------------------------
(***************************************************************************)
(* Theorems about ReaderListener, for any number of listeners, executor    *)
(* threads and samples, and any options of each listener.                  *)
(***************************************************************************)
EXTENDS ReaderListener, SequenceTheorems, TLAPS

\* An executor thread belongs to an executor, and a listener has one.
LEMMA ExecutorTypes ==
  /\ \A l \in Listeners : ExecutorOf(l) \in Executors
  /\ \A t \in Threads : ExecutorOfThread(t) \in Executors
BY DEF ExecutorOf, ExecutorOfThread, Executors

\* Overflow handling keeps a queue a sequence, and never adds to it.
LEMMA SurvivorsType ==
  ASSUME TypeOK, NEW l \in Listeners
  PROVE  /\ Survivors(l) \in Seq(Nat)
         /\ Len(pending_messages[l]) - Len(Survivors(l)) \in Nat
<1> DEFINE q == pending_messages[l]
<1>1. q \in Seq(Nat) /\ Len(q) \in Nat
  BY DEF TypeOK
<1>2. CASE overflow_policy[l] = "kLatestOnly"
  BY <1>1, <1>2 DEF Survivors
<1>3. CASE overflow_policy[l] = "kDropOldest" /\ QueueFull(l)
  <2>1. queue_capacity[l] \in Nat /\ q # <<>>
    BY <1>1, <1>3, ConstantsAssumption DEF QueueFull
  <2>2. Survivors(l) = Tail(q)
    BY <1>3 DEF Survivors
  <2> QED
    BY <1>1, <2>1, <2>2
<1>4. CASE /\ overflow_policy[l] # "kLatestOnly"
           /\ ~(overflow_policy[l] = "kDropOldest" /\ QueueFull(l))
  BY <1>1, <1>4 DEF Survivors
<1> QED
  BY <1>2, <1>3, <1>4

\* The destructor of a listener keeps the listener's and executors' types.
LEMMA DestroyTypes ==
  ASSUME TypeOK, NEW l \in Listeners, DestroyListener(l)
  PROVE  /\ stop_requested' \in [Listeners -> BOOLEAN]
         /\ callback_scheduled' \in [Listeners -> BOOLEAN]
         /\ pending_messages' \in [Listeners -> Seq(Nat)]
         /\ exec_stop' \in [Executors -> BOOLEAN]
BY DEF DestroyListener, TypeOK

\* Every step of the receive threads, the executor threads and CloseReader
\* keeps each variable in its type.
LEMMA TypeStep == TypeOK /\ [Next]_vars => TypeOK'
<1> SUFFICES ASSUME TypeOK, [Next]_vars PROVE TypeOK'
  OBVIOUS
<1> USE ConstantsAssumption DEF ReceivePCs, ThreadPCs, Holding
<1>1. ASSUME NEW l \in Listeners, on_data_available(l) PROVE TypeOK'
  <2>1. taken' \in [Listeners -> Nat] /\ rpc' \in [Listeners -> ReceivePCs]
    BY <1>1 DEF on_data_available, TypeOK
  <2>2. UNCHANGED <<enqueued, lvars, mvars, evars, tvars, last, channel, process>>
    BY <1>1 DEF on_data_available
  <2> QED
    BY <2>1, <2>2 DEF TypeOK, lvars, mvars, evars, tvars
<1>2. ASSUME NEW l \in Listeners, LockAndCheckStop(l) PROVE TypeOK'
  BY <1>2 DEF LockAndCheckStop, TypeOK, lvars, mvars, evars, tvars
<1>3. ASSUME NEW l \in Listeners, EnqueuePendingMessageLocked(l) PROVE TypeOK'
  <2>0. UNCHANGED <<rpc, taken, callback_scheduled, stop_requested,
                    callbacks_executed, evars, tvars, last, channel, process>>
    BY <1>3 DEF EnqueuePendingMessageLocked
  <2>1. CASE Refuses(l) /\ Refuse(l)
    <3>1. /\ enqueued' \in [Listeners -> Nat]
          /\ samples_received' \in [Listeners -> Nat]
          /\ samples_dropped' \in [Listeners -> Nat]
      BY <1>3, <2>1 DEF EnqueuePendingMessageLocked, Refuse, RecordDropLocked, TypeOK
    <3>2. UNCHANGED <<pending_messages, queue_high_watermark>>
      BY <2>1 DEF Refuse
    <3> QED
      BY <2>0, <3>1, <3>2 DEF TypeOK, evars, tvars
  <2>2. CASE ~Refuses(l) /\ Push(l, enqueued[l] + 1)
    <3> DEFINE kept == Survivors(l)
    <3>1. kept \in Seq(Nat) /\ Len(pending_messages[l]) - Len(kept) \in Nat
      BY SurvivorsType
    <3>2. Append(kept, enqueued[l] + 1) \in Seq(Nat) /\ Len(kept) + 1 \in Nat
      BY <3>1 DEF TypeOK
    <3>3. /\ enqueued' \in [Listeners -> Nat]
          /\ samples_received' \in [Listeners -> Nat]
      BY <1>3 DEF EnqueuePendingMessageLocked, TypeOK
    <3>4. pending_messages' \in [Listeners -> Seq(Nat)]
      BY <2>2, <3>2 DEF Push, TypeOK
    <3>5. /\ samples_dropped' \in [Listeners -> Nat]
          /\ queue_high_watermark' \in [Listeners -> Nat]
      BY <2>2, <3>1, <3>2 DEF Push, RecordDropLocked, TypeOK
    <3> QED
      BY <2>0, <3>3, <3>4, <3>5 DEF TypeOK, evars, tvars
  <2> QED
    BY <1>3, <2>1, <2>2 DEF EnqueuePendingMessageLocked
<1>4. ASSUME NEW l \in Listeners, DecideSchedule(l) PROVE TypeOK'
  BY <1>4 DEF DecideSchedule, TypeOK, mvars, evars, tvars
<1>5. ASSUME NEW l \in Listeners, ScheduleExecution(l) PROVE TypeOK'
  <2>1. tasks' \in [Executors -> Seq(Listeners)]
    BY <1>5, ExecutorTypes DEF ScheduleExecution, TypeOK
  <2>2. rpc' \in [Listeners -> ReceivePCs]
    BY <1>5 DEF ScheduleExecution, TypeOK
  <2>3. UNCHANGED <<taken, enqueued, lvars, mvars, exec_stop, tvars, last,
                    channel, process>>
    BY <1>5 DEF ScheduleExecution
  <2> QED
    BY <2>1, <2>2, <2>3 DEF TypeOK, lvars, mvars, tvars
<1>6. ASSUME NEW t \in Threads, RunTask(t) PROVE TypeOK'
  <2> DEFINE e == ExecutorOfThread(t)
  <2>1. e \in Executors
    BY ExecutorTypes
  <2>2. tasks[e] \in Seq(Listeners) /\ tasks[e] # <<>>
    BY <1>6, <2>1 DEF RunTask, TypeOK
  <2>3. Head(tasks[e]) \in Listeners /\ Tail(tasks[e]) \in Seq(Listeners)
    BY <2>2
  <2> QED
    BY <1>6, <2>1, <2>3 DEF RunTask, TypeOK, rvars, lvars, mvars
<1>7. ASSUME NEW t \in Threads, RunExit(t) PROVE TypeOK'
  BY <1>7 DEF RunExit, TypeOK, rvars, lvars, mvars, evars
<1>8. ASSUME NEW t \in Threads, LockSelf(t) PROVE TypeOK'
  <2>1. UNCHANGED <<rvars, lvars, mvars, evars, msg, last, channel, process>>
    BY <1>8 DEF LockSelf
  <2>2. /\ tpc' \in [Threads -> ThreadPCs]
        /\ cur' \in [Threads -> Listeners \cup {None}]
    BY <1>8 DEF LockSelf, TypeOK
  <2>3. (\A u \in Threads :
           tpc[u] \in {"task"} \cup Holding => cur[u] \in Listeners)'
    <3>1. CASE cur' = [cur EXCEPT ![t] = None] /\ tpc' = [tpc EXCEPT ![t] = "run"]
      BY <3>1 DEF TypeOK
    <3>2. CASE cur' = cur /\ tpc' = [tpc EXCEPT ![t] = "drain"]
      BY <1>8, <3>2 DEF LockSelf, TypeOK
    <3> QED
      BY <1>8, <3>1, <3>2 DEF LockSelf
  <2> QED
    BY <2>1, <2>2, <2>3 DEF TypeOK, rvars, lvars, mvars, evars
<1>9. ASSUME NEW t \in Threads, PopAndCall(t) PROVE TypeOK'
  <2> DEFINE q == pending_messages[cur[t]]
  <2>1. cur[t] \in Listeners /\ q \in Seq(Nat) /\ q # <<>>
    BY <1>9 DEF PopAndCall, TypeOK
  <2>2. Head(q) \in Nat /\ Tail(q) \in Seq(Nat)
    BY <2>1
  <2> QED
    BY <1>9, <2>1, <2>2 DEF PopAndCall, TypeOK, rvars, mvars, evars
<1>10. ASSUME NEW t \in Threads, StopDraining(t) PROVE TypeOK'
  BY <1>10 DEF StopDraining, TypeOK, rvars, mvars, evars
<1>11. ASSUME NEW t \in Threads, CallbackReturns(t) PROVE TypeOK'
  BY <1>11 DEF CallbackReturns, TypeOK, rvars, lvars, mvars, evars
<1>12. ASSUME NEW t \in Threads, RecordMetrics(t) PROVE TypeOK'
  BY <1>12 DEF RecordMetrics, TypeOK, rvars, lvars, evars
<1>13. ASSUME NEW t \in Threads, ReleaseSelf(t) PROVE TypeOK'
  <2>1. /\ tpc' \in [Threads -> ThreadPCs]
        /\ cur' \in [Threads -> Listeners \cup {None}]
        /\ (\A u \in Threads :
              tpc[u] \in {"task"} \cup Holding => cur[u] \in Listeners)'
    BY <1>13 DEF ReleaseSelf, TypeOK
  <2>2. cur[t] \in Listeners
    BY <1>13 DEF ReleaseSelf, TypeOK
  <2>3. UNCHANGED <<rvars, mvars, tasks, msg, last, channel>>
    BY <1>13 DEF ReleaseSelf
  <2>4. CASE UNCHANGED <<lvars, exec_stop, process>>
    BY <2>1, <2>3, <2>4 DEF TypeOK, rvars, lvars, mvars
  <2>5. CASE DestroyListener(cur[t])
             /\ process' = IF t = cur[t] THEN "terminated" ELSE process
    <3>1. process' \in {"running", "terminated"}
      BY <2>5 DEF TypeOK
    <3> QED
      BY <2>1, <2>2, <2>3, <2>5, <3>1, DestroyTypes DEF TypeOK, rvars, mvars
  <2> QED
    BY <1>13, <2>4, <2>5 DEF ReleaseSelf
<1>14. ASSUME NEW l \in Listeners, CloseReader(l) PROVE TypeOK'
  <2>1. UNCHANGED <<rvars, mvars, tasks, tvars, last, process>>
    BY <1>14 DEF CloseReader
  <2>2. channel' \in [Listeners -> {"open", "joining", "closed"}]
    BY <1>14 DEF CloseReader, TypeOK
  <2>3. CASE DestroyListener(l)
    BY <2>1, <2>2, <2>3, DestroyTypes DEF TypeOK, rvars, mvars, tvars
  <2>4. CASE UNCHANGED <<lvars, exec_stop>>
    BY <2>1, <2>2, <2>4 DEF TypeOK, rvars, lvars, mvars, tvars
  <2> QED
    BY <1>14, <2>3, <2>4 DEF CloseReader
<1>15. ASSUME NEW l \in Listeners, JoinDedicated(l) PROVE TypeOK'
  BY <1>15 DEF JoinDedicated, TypeOK, rvars, lvars, mvars, evars, tvars
<1>16. CASE UNCHANGED vars
  BY <1>16 DEF vars, TypeOK, rvars, lvars, mvars, evars, tvars
<1> QED
  BY <1>1, <1>2, <1>3, <1>4, <1>5, <1>6, <1>7, <1>8, <1>9, <1>10, <1>11,
     <1>12, <1>13, <1>14, <1>15, <1>16 DEF Next, Receive, Work, Close

\* Type correctness of the receive path, for any listeners and threads.
THEOREM TypeCorrect == Spec => []TypeOK
<1>1. Init => TypeOK
  BY ConstantsAssumption DEF Init, TypeOK, ReceivePCs, ThreadPCs, Holding
<1> QED
  BY <1>1, TypeStep, PTL DEF Spec

-----------------------------------------------------------------------------
(* One task per listener: the argument behind the safety properties.       *)

\* Steps that move no task: the part of IInv about tasks only depends on the
\* receive thread, the queues and what the executor threads run.
LEMMA TaskFrame ==
  ASSUME UNCHANGED <<tasks, tpc, cur>>
  PROVE  /\ \A l \in Listeners : Queued(l)' = Queued(l) /\ Runners(l)' = Runners(l)
         /\ TasksPlaced => TasksPlaced'
BY DEF Queued, Runners, TasksPlaced

\* The steps of the receive thread before it submits: no task moves.
LEMMA ReceiveStep ==
  ASSUME IInv, NEW l \in Listeners,
         on_data_available(l) \/ LockAndCheckStop(l)
           \/ EnqueuePendingMessageLocked(l) \/ DecideSchedule(l)
  PROVE  /\ TasksPlaced' /\ AtMostOneTask' /\ ScheduledFlagExact'
         /\ WakeupPending' /\ LifetimeOK' /\ NoUseAfterFree'
<1> USE DEF IInv
<1>1. UNCHANGED <<tasks, tpc, cur, stop_requested, channel>>
  BY DEF on_data_available, LockAndCheckStop, EnqueuePendingMessageLocked,
         DecideSchedule, lvars, evars, tvars
<1>2. TasksPlaced' /\ \A k \in Listeners : Queued(k)' = Queued(k) /\ Runners(k)' = Runners(k)
  BY <1>1, TaskFrame
<1>3. ~stop_requested[l] /\ channel[l] = "open"
  BY DEF on_data_available, LockAndCheckStop, EnqueuePendingMessageLocked,
         DecideSchedule, LifetimeOK, NoUseAfterFree
<1>4. CASE on_data_available(l) \/ LockAndCheckStop(l)
  <2>1. UNCHANGED <<pending_messages, callback_scheduled>>
    BY <1>4 DEF on_data_available, LockAndCheckStop, lvars
  <2>2. /\ rpc \in [Listeners -> ReceivePCs]
        /\ \/ rpc[l] = "idle" /\ rpc' = [rpc EXCEPT ![l] = "taken"]
           \/ rpc[l] = "taken" /\ rpc' = [rpc EXCEPT ![l] = "enqueue"]
    BY <1>3, <1>4 DEF on_data_available, LockAndCheckStop, TypeOK
  <2>3. AtMostOneTask' /\ ScheduledFlagExact'
    BY <1>1, <1>2, <2>1, <2>2 DEF AtMostOneTask, ScheduledFlagExact
  <2>4. WakeupPending' /\ LifetimeOK' /\ NoUseAfterFree'
    BY <1>1, <1>3, <2>1, <2>2 DEF WakeupPending, MutexFree, LifetimeOK, NoUseAfterFree
  <2> QED
    BY <1>2, <2>3, <2>4
<1>5. CASE EnqueuePendingMessageLocked(l)
  <2>1. UNCHANGED <<rpc, callback_scheduled>> /\ rpc[l] = "enqueue"
    BY <1>5 DEF EnqueuePendingMessageLocked
  <2>2. pending_messages \in [Listeners -> Seq(Nat)]
        /\ \A k \in Listeners : k # l => pending_messages'[k] = pending_messages[k]
    BY <1>5 DEF EnqueuePendingMessageLocked, Refuse, Push, TypeOK
  <2>3. AtMostOneTask' /\ ScheduledFlagExact'
    BY <1>1, <1>2, <2>1 DEF AtMostOneTask, ScheduledFlagExact
  <2>4. WakeupPending' /\ LifetimeOK' /\ NoUseAfterFree'
    BY <1>1, <1>3, <2>1, <2>2 DEF WakeupPending, MutexFree, LifetimeOK, NoUseAfterFree
  <2> QED
    BY <1>2, <2>3, <2>4
<1>6. CASE DecideSchedule(l)
  <2>1. UNCHANGED pending_messages /\ rpc[l] = "enqueue"
    BY <1>6 DEF DecideSchedule
  <2>2. rpc \in [Listeners -> ReceivePCs] /\ callback_scheduled \in [Listeners -> BOOLEAN]
    BY DEF TypeOK
  <2>3. CASE /\ TaskNeeded(l)
             /\ callback_scheduled' = [callback_scheduled EXCEPT ![l] = TRUE]
             /\ rpc' = [rpc EXCEPT ![l] = "schedule"]
    <3>1. Queued(l) = {} /\ Runners(l) = {}
      BY <1>3, <2>3 DEF TaskNeeded, ScheduledFlagExact
    <3>2. AtMostOneTask' /\ ScheduledFlagExact'
      BY <1>1, <1>2, <2>2, <2>3, <3>1 DEF AtMostOneTask, ScheduledFlagExact
    <3>3. WakeupPending' /\ LifetimeOK' /\ NoUseAfterFree'
      BY <1>1, <1>3, <2>1, <2>2, <2>3 DEF WakeupPending, MutexFree, LifetimeOK,
           NoUseAfterFree
    <3> QED
      BY <1>2, <3>2, <3>3
  <2>4. CASE /\ ~TaskNeeded(l)
             /\ rpc' = [rpc EXCEPT ![l] = "idle"]
             /\ UNCHANGED callback_scheduled
    <3>1. AtMostOneTask' /\ ScheduledFlagExact'
      BY <1>1, <1>2, <2>1, <2>2, <2>4 DEF AtMostOneTask, ScheduledFlagExact
    <3>2. WakeupPending' /\ LifetimeOK' /\ NoUseAfterFree'
      BY <1>1, <1>3, <2>1, <2>2, <2>4 DEF WakeupPending, MutexFree, LifetimeOK,
           NoUseAfterFree, TaskNeeded
    <3> QED
      BY <1>2, <3>1, <3>2
  <2> QED
    BY <1>6, <2>3, <2>4 DEF DecideSchedule
<1> QED
  BY <1>4, <1>5, <1>6

\* Submit puts the listener's only task at the end of its executor's queue.
LEMMA SubmitStep ==
  ASSUME IInv, NEW l \in Listeners, ScheduleExecution(l)
  PROVE  /\ TasksPlaced' /\ AtMostOneTask' /\ ScheduledFlagExact'
         /\ WakeupPending' /\ LifetimeOK' /\ NoUseAfterFree'
<1> USE DEF IInv
<1> DEFINE e == ExecutorOf(l)
<1>1. e \in Executors /\ tasks \in [Executors -> Seq(Listeners)]
      /\ rpc \in [Listeners -> ReceivePCs]
  BY ExecutorTypes DEF TypeOK
<1>2. /\ tasks' = [tasks EXCEPT ![e] = Append(tasks[e], l)]
      /\ rpc[l] = "schedule" /\ rpc' = [rpc EXCEPT ![l] = "idle"]
      /\ UNCHANGED <<tpc, cur, stop_requested, channel, pending_messages,
                     callback_scheduled>>
  BY DEF ScheduleExecution, lvars, tvars
<1>3. \A k \in Listeners : Runners(k)' = Runners(k)
  BY <1>2 DEF Runners
<1>4. TasksPlaced'
  BY <1>1, <1>2 DEF TasksPlaced
<1>5. \A k \in Listeners : k # l => Queued(k)' = Queued(k)
  <2> SUFFICES ASSUME NEW k \in Listeners, k # l PROVE Queued(k)' = Queued(k)
    OBVIOUS
  <2>1. ExecutorOf(k) \in Executors
    BY ExecutorTypes
  <2>2. CASE ExecutorOf(k) = e
    BY <1>1, <1>2, <2>1, <2>2 DEF Queued
  <2>3. CASE ExecutorOf(k) # e
    BY <1>1, <1>2, <2>1, <2>3 DEF Queued
  <2> QED
    BY <2>2, <2>3
<1>6. Queued(l) = {} /\ Runners(l) = {} /\ Queued(l)' = {Len(tasks[e]) + 1}
  <2>1. Queued(l) = {} /\ Runners(l) = {}
    BY <1>2 DEF AtMostOneTask
  <2>2. Queued(l)' = {Len(tasks[e]) + 1}
    BY <1>1, <1>2, <2>1 DEF Queued
  <2> QED
    BY <2>1, <2>2
<1>7. AtMostOneTask'
  <2> SUFFICES ASSUME NEW k \in Listeners
               PROVE  (/\ rpc[k] = "schedule" => Queued(k) = {} /\ Runners(k) = {}
                       /\ Queued(k) # {} => Runners(k) = {}
                       /\ \A i, j \in Queued(k) : i = j
                       /\ \A t, u \in Runners(k) : t = u)'
    BY DEF AtMostOneTask
  <2>1. CASE k = l
    BY <1>1, <1>2, <1>3, <1>6, <2>1
  <2>2. CASE k # l
    BY <1>1, <1>2, <1>3, <1>5, <2>2 DEF AtMostOneTask
  <2> QED
    BY <2>1, <2>2
<1>9. ScheduledFlagExact'
  BY <1>1, <1>2, <1>3, <1>5, <1>6 DEF ScheduledFlagExact
<1>8. WakeupPending' /\ LifetimeOK' /\ NoUseAfterFree'
  BY <1>1, <1>2 DEF WakeupPending, MutexFree, LifetimeOK, NoUseAfterFree
<1> QED
  BY <1>4, <1>7, <1>8, <1>9

\* Run takes the task at the front: it leaves the queue and has a runner.
LEMMA RunTaskStep ==
  ASSUME IInv, NEW t \in Threads, RunTask(t)
  PROVE  /\ TasksPlaced' /\ AtMostOneTask' /\ ScheduledFlagExact'
         /\ WakeupPending' /\ LifetimeOK' /\ NoUseAfterFree'
<1> USE DEF IInv
<1> DEFINE e == ExecutorOfThread(t)
<1>1. e \in Executors /\ tasks[e] \in Seq(Listeners) /\ tasks[e] # <<>>
  BY ExecutorTypes DEF RunTask, TypeOK
<1>2. PICK l \in Listeners : l = Head(tasks[e]) /\ l = tasks[e][1] /\ 1 \in DOMAIN tasks[e]
  BY <1>1
<1>3. ExecutorOf(l) = e
  BY <1>1, <1>2 DEF TasksPlaced
<1>4. /\ tasks \in [Executors -> Seq(Listeners)]
      /\ tpc \in [Threads -> ThreadPCs]
      /\ cur \in [Threads -> Listeners \cup {None}]
  BY DEF TypeOK
<1>5. /\ tpc[t] = "run" /\ tpc' = [tpc EXCEPT ![t] = "task"]
      /\ cur' = [cur EXCEPT ![t] = l]
      /\ tasks' = [tasks EXCEPT ![e] = Tail(tasks[e])]
      /\ UNCHANGED <<rpc, stop_requested, channel, pending_messages,
                     callback_scheduled>>
  BY <1>2 DEF RunTask, rvars, lvars
<1>6. \A i \in DOMAIN Tail(tasks[e]) :
        i + 1 \in DOMAIN tasks[e] /\ Tail(tasks[e])[i] = tasks[e][i + 1]
  BY <1>1
<1>7. Queued(l) = {1} /\ Runners(l) = {} /\ rpc[l] # "schedule"
  <2>1. 1 \in Queued(l)
    BY <1>2, <1>3 DEF Queued
  <2> QED
    BY <1>2, <2>1 DEF AtMostOneTask
<1>8. Queued(l)' = {}
  <2> SUFFICES ASSUME NEW i \in DOMAIN Tail(tasks[e]), Tail(tasks[e])[i] = l
               PROVE  FALSE
    BY <1>1, <1>3, <1>4, <1>5 DEF Queued
  <2>1. i + 1 \in Queued(l) /\ i + 1 # 1
    BY <1>1, <1>3, <1>6 DEF Queued
  <2> QED
    BY <1>7, <2>1
<1>9. Runners(l)' = {t}
  BY <1>4, <1>5, <1>7 DEF Runners, Running
<1>10. \A k \in Listeners : k # l => Runners(k)' = Runners(k)
  BY <1>4, <1>5 DEF Runners, Running
<1>11. ASSUME NEW k \in Listeners, k # l
       PROVE  /\ Queued(k)' = {} <=> Queued(k) = {}
              /\ (\A i, j \in Queued(k) : i = j) => (\A i, j \in Queued(k)' : i = j)
  <2>1. CASE ExecutorOf(k) # e
    <3>1. Queued(k)' = Queued(k)
      BY <1>1, <1>4, <1>5, <2>1, ExecutorTypes DEF Queued
    <3> QED
      BY <3>1
  <2>2. CASE ExecutorOf(k) = e
    <3>1. tasks'[e] = Tail(tasks[e])
      BY <1>1, <1>4, <1>5
    <3>2. \A i \in Queued(k)' : i \in Nat /\ i + 1 \in Queued(k)
      BY <1>1, <1>6, <2>2, <3>1 DEF Queued
    <3>3. \A i \in Queued(k) : i # 1 /\ i - 1 \in Queued(k)'
      <4> SUFFICES ASSUME NEW i \in Queued(k) PROVE i # 1 /\ i - 1 \in Queued(k)'
        OBVIOUS
      <4>1. i \in DOMAIN tasks[e] /\ tasks[e][i] = k /\ i # 1
        BY <1>2, <1>11, <2>2 DEF Queued
      <4>2. i - 1 \in DOMAIN Tail(tasks[e]) /\ Tail(tasks[e])[i - 1] = tasks[e][i]
        BY <1>1, <4>1
      <4> QED
        BY <2>2, <3>1, <4>1, <4>2 DEF Queued
    <3>4. (\A i, j \in Queued(k) : i = j) => (\A i, j \in Queued(k)' : i = j)
      BY <3>2
    <3> QED
      BY <3>2, <3>3, <3>4
  <2> QED
    BY <2>1, <2>2
<1>12. TasksPlaced'
  BY <1>1, <1>4, <1>5, <1>6 DEF TasksPlaced
<1>13. AtMostOneTask'
  BY <1>5, <1>7, <1>8, <1>9, <1>10, <1>11 DEF AtMostOneTask
<1>14. ScheduledFlagExact'
  BY <1>2, <1>5, <1>7, <1>8, <1>9, <1>10, <1>11 DEF ScheduledFlagExact
<1>15. WakeupPending' /\ LifetimeOK' /\ NoUseAfterFree'
  BY <1>4, <1>5 DEF WakeupPending, MutexFree, LifetimeOK, NoUseAfterFree, Holding
<1> QED
  BY <1>12, <1>13, <1>14, <1>15

\* A running task stays the only one while it locks self, calls the handler
\* and counts, and callback_scheduled_ becomes false in the step that ends it.
LEMMA ExecuteStep ==
  ASSUME IInv, NEW t \in Threads,
         LockSelf(t) \/ PopAndCall(t) \/ CallbackReturns(t) \/ RecordMetrics(t)
           \/ StopDraining(t)
  PROVE  /\ TasksPlaced' /\ AtMostOneTask' /\ ScheduledFlagExact'
         /\ WakeupPending' /\ LifetimeOK' /\ NoUseAfterFree'
<1> USE DEF IInv
<1>1. UNCHANGED <<tasks, rpc, stop_requested, channel>>
  BY DEF LockSelf, PopAndCall, CallbackReturns, RecordMetrics, StopDraining,
         rvars, lvars, evars
<1>2. TasksPlaced' /\ \A k \in Listeners : Queued(k)' = Queued(k)
  BY <1>1 DEF TasksPlaced, Queued
<1>3. PICK l \in Listeners : l = cur[t]
  BY DEF TypeOK, Holding, LockSelf, PopAndCall, CallbackReturns, RecordMetrics,
         StopDraining
<1>4. /\ tpc \in [Threads -> ThreadPCs]
      /\ cur \in [Threads -> Listeners \cup {None}]
      /\ tpc[t] \in Running
      /\ \A u \in Threads \ {t} : tpc'[u] = tpc[u] /\ cur'[u] = cur[u]
  BY DEF TypeOK, Running, LockSelf, PopAndCall, CallbackReturns, RecordMetrics,
         StopDraining
<1>5. Queued(l) = {} /\ Runners(l) = {t} /\ rpc[l] # "schedule"
  BY <1>3, <1>4 DEF Runners, AtMostOneTask
<1>6. \A k \in Listeners : k # l => Runners(k)' = Runners(k)
  BY <1>3, <1>4, ConstantsAssumption DEF Runners, Running, LockSelf, PopAndCall,
     CallbackReturns, RecordMetrics, StopDraining
<1>7. CASE LockSelf(t) /\ stop_requested[l]
  <2>1. tpc'[t] = "run" /\ UNCHANGED <<pending_messages, callback_scheduled>>
    BY <1>3, <1>4, <1>7 DEF LockSelf, lvars
  <2>2. Runners(l)' = {}
    BY <1>4, <1>5, <2>1 DEF Runners, Running
  <2>3. AtMostOneTask' /\ ScheduledFlagExact'
    BY <1>1, <1>2, <1>5, <1>6, <1>7, <2>1, <2>2 DEF AtMostOneTask, ScheduledFlagExact
  <2>4. WakeupPending' /\ LifetimeOK' /\ NoUseAfterFree'
    BY <1>1, <1>4, <2>1 DEF WakeupPending, MutexFree, LifetimeOK, NoUseAfterFree, Holding
  <2> QED
    BY <1>2, <2>3, <2>4
<1>8. CASE \/ LockSelf(t) /\ ~stop_requested[l]
           \/ PopAndCall(t) \/ CallbackReturns(t) \/ RecordMetrics(t)
  <2>1. /\ tpc'[t] \in Running /\ cur' = cur
        /\ UNCHANGED callback_scheduled
        /\ ~stop_requested[l]
    BY <1>3, <1>4, <1>8 DEF LockSelf, PopAndCall, CallbackReturns, RecordMetrics,
       Running, lvars, NoUseAfterFree, Holding
  <2>2. Runners(l)' = {t}
    BY <1>3, <1>4, <1>5, <2>1 DEF Runners
  <2>3. AtMostOneTask' /\ ScheduledFlagExact'
    BY <1>1, <1>2, <1>5, <1>6, <2>1, <2>2 DEF AtMostOneTask, ScheduledFlagExact
  <2>4. NoUseAfterFree'
    BY <1>1, <1>3, <1>4, <2>1 DEF NoUseAfterFree
  <2>5. \A k \in Listeners : pending_messages'[k] # <<>> => pending_messages[k] # <<>>
    BY <1>3, <1>8 DEF LockSelf, PopAndCall, CallbackReturns, RecordMetrics, TypeOK, lvars
  <2>6. WakeupPending' /\ LifetimeOK'
    BY <1>1, <2>1, <2>5 DEF WakeupPending, MutexFree, LifetimeOK
  <2> QED
    BY <1>2, <2>3, <2>4, <2>6
<1>9. CASE StopDraining(t)
  <2>1. /\ tpc'[t] = "release" /\ cur' = cur
        /\ callback_scheduled' = [callback_scheduled EXCEPT ![l] = FALSE]
        /\ UNCHANGED pending_messages
        /\ ~stop_requested[l] /\ pending_messages[l] = <<>>
    BY <1>3, <1>4, <1>9 DEF StopDraining, NoUseAfterFree, Holding
  <2>2. Runners(l)' = {}
    BY <1>3, <1>4, <1>5, <2>1 DEF Runners, Running
  <2>3. callback_scheduled \in [Listeners -> BOOLEAN]
    BY DEF TypeOK
  <2>4. AtMostOneTask'
    BY <1>1, <1>2, <1>5, <1>6, <2>2 DEF AtMostOneTask
  <2>5. ScheduledFlagExact'
    BY <1>1, <1>2, <1>5, <1>6, <2>1, <2>2, <2>3 DEF ScheduledFlagExact
  <2>6. WakeupPending' /\ LifetimeOK' /\ NoUseAfterFree'
    BY <1>1, <1>3, <1>4, <2>1, <2>3 DEF WakeupPending, MutexFree, LifetimeOK,
       NoUseAfterFree, Holding
  <2> QED
    BY <1>2, <2>4, <2>5, <2>6
<1> QED
  BY <1>7, <1>8, <1>9

\* A thread that leaves its executor runs no task.
LEMMA RunExitStep ==
  ASSUME IInv, NEW t \in Threads, RunExit(t)
  PROVE  /\ TasksPlaced' /\ AtMostOneTask' /\ ScheduledFlagExact'
         /\ WakeupPending' /\ LifetimeOK' /\ NoUseAfterFree'
<1> USE DEF IInv
<1>1. /\ UNCHANGED <<tasks, rpc, stop_requested, channel, cur, pending_messages,
                     callback_scheduled>>
      /\ tpc \in [Threads -> ThreadPCs]
      /\ tpc[t] = "run" /\ tpc' = [tpc EXCEPT ![t] = "exited"]
  BY DEF RunExit, rvars, lvars, evars, TypeOK
<1>2. TasksPlaced' /\ \A k \in Listeners : Queued(k)' = Queued(k)
  BY <1>1 DEF TasksPlaced, Queued
<1>3. \A k \in Listeners : Runners(k)' = Runners(k)
  BY <1>1 DEF Runners, Running
<1>4. AtMostOneTask' /\ ScheduledFlagExact'
  BY <1>1, <1>2, <1>3 DEF AtMostOneTask, ScheduledFlagExact
<1>5. WakeupPending' /\ LifetimeOK' /\ NoUseAfterFree'
  BY <1>1 DEF WakeupPending, MutexFree, LifetimeOK, NoUseAfterFree, Holding
<1> QED
  BY <1>2, <1>4, <1>5

\* The destructor runs when nobody else holds the listener, on a thread of
\* the application or on the executor thread that held it last.
LEMMA DestroyStep ==
  ASSUME IInv, NEW l \in Listeners, DestroyListener(l),
         rpc[l] = "idle", channel'[l] # "open",
         \A k \in Listeners : k # l => channel'[k] = channel[k],
         UNCHANGED <<tasks, rpc>>,
         \A k \in Listeners : Runners(k)' = Runners(k),
         \A u \in Threads : tpc'[u] \in Holding =>
           tpc[u] = tpc'[u] /\ cur[u] = cur'[u] /\ cur[u] # l
  PROVE  /\ TasksPlaced' /\ AtMostOneTask' /\ ScheduledFlagExact'
         /\ WakeupPending' /\ LifetimeOK' /\ NoUseAfterFree'
<1> USE DEF IInv
<1>1. TasksPlaced' /\ \A k \in Listeners : Queued(k)' = Queued(k)
  BY DEF TasksPlaced, Queued
<1>2. /\ stop_requested' = [stop_requested EXCEPT ![l] = TRUE]
      /\ pending_messages' = [pending_messages EXCEPT ![l] = <<>>]
      /\ callback_scheduled' = [callback_scheduled EXCEPT ![l] = FALSE]
      /\ stop_requested \in [Listeners -> BOOLEAN]
      /\ callback_scheduled \in [Listeners -> BOOLEAN]
      /\ pending_messages \in [Listeners -> Seq(Nat)]
  BY DEF DestroyListener, TypeOK
<1>3. AtMostOneTask'
  BY <1>1 DEF AtMostOneTask
<1>4. ScheduledFlagExact'
  BY <1>1, <1>2 DEF ScheduledFlagExact
<1>5. WakeupPending' /\ LifetimeOK'
  BY <1>2 DEF WakeupPending, MutexFree, LifetimeOK
<1>6. NoUseAfterFree'
  BY <1>2 DEF NoUseAfterFree, TypeOK
<1> QED
  BY <1>1, <1>3, <1>4, <1>5, <1>6

\* Dropping `self` at the end of a task.
LEMMA ReleaseStep ==
  ASSUME IInv, NEW t \in Threads, ReleaseSelf(t)
  PROVE  /\ TasksPlaced' /\ AtMostOneTask' /\ ScheduledFlagExact'
         /\ WakeupPending' /\ LifetimeOK' /\ NoUseAfterFree'
<1> USE DEF IInv
<1>1. PICK l \in Listeners : l = cur[t]
  BY DEF TypeOK, Holding, ReleaseSelf
<1>2. /\ UNCHANGED <<tasks, rpc, channel>>
      /\ tpc \in [Threads -> ThreadPCs]
      /\ cur \in [Threads -> Listeners \cup {None}]
      /\ tpc[t] = "release" /\ tpc' = [tpc EXCEPT ![t] = "run"]
      /\ cur' = [cur EXCEPT ![t] = None]
  BY DEF ReleaseSelf, rvars, TypeOK
<1>3. \A k \in Listeners : Runners(k)' = Runners(k)
  BY <1>2 DEF Runners, Running
<1>4. \A u \in Threads : tpc'[u] \in Holding =>
        u # t /\ tpc[u] = tpc'[u] /\ cur[u] = cur'[u]
  BY <1>2 DEF Holding
<1>5. CASE UNCHANGED <<lvars, exec_stop, process>>
  <2>1. TasksPlaced' /\ \A k \in Listeners : Queued(k)' = Queued(k)
    BY <1>2 DEF TasksPlaced, Queued
  <2>2. AtMostOneTask' /\ ScheduledFlagExact'
    BY <1>2, <1>3, <1>5, <2>1 DEF AtMostOneTask, ScheduledFlagExact, lvars
  <2>3. WakeupPending' /\ LifetimeOK' /\ NoUseAfterFree'
    BY <1>2, <1>4, <1>5 DEF WakeupPending, MutexFree, LifetimeOK, NoUseAfterFree, lvars
  <2> QED
    BY <2>1, <2>2, <2>3
<1>6. CASE channel[l] # "open" /\ Holders(l) = {t} /\ DestroyListener(l)
  <2>1. \A u \in Threads : tpc'[u] \in Holding => cur[u] # l
    BY <1>4, <1>6 DEF Holders
  <2>2. rpc[l] = "idle"
    BY <1>6 DEF LifetimeOK
  <2> QED
    BY <1>2, <1>3, <1>4, <1>6, <2>1, <2>2, DestroyStep
<1> QED
  BY <1>1, <1>5, <1>6 DEF ReleaseSelf

\* CloseReader and the join of a dedicated executor.
LEMMA CloseStep ==
  ASSUME IInv, NEW l \in Listeners, CloseReader(l) \/ JoinDedicated(l)
  PROVE  /\ TasksPlaced' /\ AtMostOneTask' /\ ScheduledFlagExact'
         /\ WakeupPending' /\ LifetimeOK' /\ NoUseAfterFree'
<1> USE DEF IInv
<1>1. UNCHANGED <<tasks, rpc, tpc, cur>>
  BY DEF CloseReader, JoinDedicated, rvars, tvars, evars
<1>2. TasksPlaced' /\ \A k \in Listeners : Queued(k)' = Queued(k) /\ Runners(k)' = Runners(k)
  BY <1>1, TaskFrame
<1>3. /\ rpc[l] = "idle" /\ channel \in [Listeners -> {"open", "joining", "closed"}]
      /\ channel'[l] # "open"
      /\ \A k \in Listeners : k # l => channel'[k] = channel[k]
  BY DEF CloseReader, JoinDedicated, TypeOK, LifetimeOK
<1>4. CASE UNCHANGED lvars
  <2>1. AtMostOneTask' /\ ScheduledFlagExact'
    BY <1>1, <1>2, <1>4 DEF AtMostOneTask, ScheduledFlagExact, lvars
  <2>2. WakeupPending' /\ LifetimeOK' /\ NoUseAfterFree'
    BY <1>1, <1>3, <1>4 DEF WakeupPending, MutexFree, LifetimeOK, NoUseAfterFree, lvars
  <2> QED
    BY <1>2, <2>1, <2>2
<1>5. CASE Holders(l) = {} /\ DestroyListener(l)
  <2>1. \A u \in Threads : tpc[u] \in Holding => cur[u] # l
    BY <1>5 DEF Holders
  <2> QED
    BY <1>1, <1>2, <1>3, <1>5, <2>1, DestroyStep
<1> QED
  BY <1>4, <1>5 DEF CloseReader, JoinDedicated

\* Every reachable state of the receive path satisfies the inductive
\* invariant: one task per listener, recorded exactly by callback_scheduled_.
THEOREM InvariantHolds == Spec => []IInv
<1>1. Init => IInv
  <2>1. Init => TypeOK
    BY ConstantsAssumption DEF Init, TypeOK, ReceivePCs, ThreadPCs, Holding
  <2>2. Init => \A l \in Listeners : Queued(l) = {} /\ Runners(l) = {}
    <3> SUFFICES ASSUME Init, NEW l \in Listeners
                 PROVE  Queued(l) = {} /\ Runners(l) = {}
      OBVIOUS
    <3>1. tasks[ExecutorOf(l)] = <<>>
      BY ExecutorTypes DEF Init
    <3>2. Queued(l) = {}
      BY <3>1 DEF Queued
    <3>3. Runners(l) = {}
      BY DEF Init, Runners, Running
    <3> QED
      BY <3>2, <3>3
  <2>3. Init => TasksPlaced /\ AtMostOneTask /\ ScheduledFlagExact
    BY <2>2 DEF Init, TasksPlaced, AtMostOneTask, ScheduledFlagExact
  <2>4. Init => WakeupPending /\ LifetimeOK /\ NoUseAfterFree
    BY DEF Init, WakeupPending, LifetimeOK, NoUseAfterFree, Holding
  <2> QED
    BY <2>1, <2>3, <2>4 DEF IInv
<1>2. IInv /\ [Next]_vars => IInv'
  <2> SUFFICES ASSUME IInv, [Next]_vars PROVE IInv'
    OBVIOUS
  <2>1. TypeOK'
    BY TypeStep DEF IInv
  <2>2. CASE Next
    BY <2>1, <2>2, ReceiveStep, SubmitStep, RunTaskStep, ExecuteStep, RunExitStep,
       ReleaseStep, CloseStep DEF IInv, Next, Receive, Work, Close
  <2>3. CASE UNCHANGED vars
    <3>1. UNCHANGED <<tasks, tpc, cur, rpc, stop_requested, channel,
                      pending_messages, callback_scheduled>>
      BY <2>3 DEF vars, rvars, lvars, evars, tvars
    <3>2. TasksPlaced'
          /\ \A k \in Listeners : Queued(k)' = Queued(k) /\ Runners(k)' = Runners(k)
      BY <3>1, TaskFrame DEF IInv
    <3>3. AtMostOneTask' /\ ScheduledFlagExact'
      BY <3>1, <3>2 DEF IInv, AtMostOneTask, ScheduledFlagExact
    <3>4. WakeupPending' /\ LifetimeOK' /\ NoUseAfterFree'
      BY <3>1 DEF IInv, WakeupPending, MutexFree, LifetimeOK, NoUseAfterFree
    <3> QED
      BY <2>1, <3>2, <3>3, <3>4 DEF IInv
  <2> QED
    BY <2>2, <2>3
<1> QED
  BY <1>1, <1>2, PTL DEF Spec

\* ExecutePendingCallbacks is never in a listener's handler on two executor
\* threads, whatever the number of threads and of samples.
THEOREM HandlersNotReentrant == Spec => []HandlerNotReentrant
<1>1. IInv => HandlerNotReentrant
  <2> SUFFICES ASSUME IInv, NEW t \in Threads, NEW u \in Threads,
                      tpc[t] = "callback", tpc[u] = "callback", cur[t] = cur[u]
               PROVE  t = u
    BY DEF HandlerNotReentrant
  <2>1. cur[t] \in Listeners /\ t \in Runners(cur[t]) /\ u \in Runners(cur[t])
    BY DEF IInv, TypeOK, Holding, Runners, Running
  <2> QED
    BY <2>1 DEF IInv, AtMostOneTask
<1> QED
  BY <1>1, InvariantHolds, PTL

\* No wakeup is lost: queued messages of a listener always have a task.
THEOREM WakeupsNotLost == Spec => []NoLostWakeup
<1>1. IInv => NoLostWakeup
  BY DEF IInv, NoLostWakeup, WakeupPending, ScheduledFlagExact, LifetimeOK
<1> QED
  BY <1>1, InvariantHolds, PTL

\* No thread is inside a listener that has been destroyed.
THEOREM ListenersNotUsedAfterFree == Spec => []NoUseAfterFree
<1>1. IInv => NoUseAfterFree
  BY DEF IInv
<1> QED
  BY <1>1, InvariantHolds, PTL


-----------------------------------------------------------------------------
(* What happens to one queue, and what follows for its capacity, the       *)
(* newest sample and the order.                                            *)

\* A step that changes the queue of a listener is the enqueueing of a sample,
\* a pop, or the destructor.
LEMMA QueueStep ==
  ASSUME TypeOK, [Next]_vars, NEW l \in Listeners
  PROVE  \/ /\ pending_messages'[l] = pending_messages[l]
            /\ enqueued'[l] = enqueued[l]
            /\ last'[l] = last[l]
            /\ stop_requested'[l] = stop_requested[l]
         \/ EnqueuePendingMessageLocked(l)
         \/ \E t \in Threads : PopAndCall(t) /\ cur[t] = l
         \/ /\ pending_messages'[l] = <<>> /\ stop_requested'[l]
            /\ enqueued'[l] = enqueued[l] /\ last'[l] = last[l]
<1> DEFINE Same == /\ pending_messages'[l] = pending_messages[l]
                   /\ enqueued'[l] = enqueued[l]
                   /\ last'[l] = last[l]
                   /\ stop_requested'[l] = stop_requested[l]
           Destroyed == /\ pending_messages'[l] = <<>> /\ stop_requested'[l]
                        /\ enqueued'[l] = enqueued[l] /\ last'[l] = last[l]
<1>1. ASSUME UNCHANGED vars PROVE Same
  BY <1>1 DEF vars, rvars, lvars
<1>2. ASSUME NEW k \in Listeners, on_data_available(k) \/ LockAndCheckStop(k)
      PROVE  Same
  BY <1>2 DEF on_data_available, LockAndCheckStop, lvars
<1>3. ASSUME NEW k \in Listeners, EnqueuePendingMessageLocked(k)
      PROVE  Same \/ EnqueuePendingMessageLocked(l)
  <2>1. CASE k # l
    <3>1. enqueued'[l] = enqueued[l] /\ last' = last /\ stop_requested' = stop_requested
      BY <1>3, <2>1 DEF EnqueuePendingMessageLocked, TypeOK
    <3>2. pending_messages'[l] = pending_messages[l]
      BY <1>3, <2>1 DEF EnqueuePendingMessageLocked, Refuse, Push, TypeOK
    <3> QED BY <3>1, <3>2
  <2> QED BY <1>3, <2>1
<1>4. ASSUME NEW k \in Listeners, DecideSchedule(k) \/ ScheduleExecution(k) \/ JoinDedicated(k)
      PROVE  Same
  BY <1>4 DEF DecideSchedule, ScheduleExecution, JoinDedicated, rvars, lvars
<1>5. ASSUME NEW t \in Threads,
             \/ RunTask(t) \/ RunExit(t) \/ LockSelf(t) \/ StopDraining(t)
             \/ CallbackReturns(t) \/ RecordMetrics(t)
      PROVE  Same
  BY <1>5 DEF RunTask, RunExit, LockSelf, StopDraining, CallbackReturns, RecordMetrics,
     rvars, lvars
<1>6. ASSUME NEW t \in Threads, PopAndCall(t)
      PROVE  Same \/ cur[t] = l
  <2>1. CASE cur[t] # l
    <3>1. pending_messages'[l] = pending_messages[l] /\ last'[l] = last[l]
      BY <1>6, <2>1 DEF PopAndCall, TypeOK
    <3> QED BY <1>6, <3>1 DEF PopAndCall, rvars
  <2> QED BY <2>1
<1>7. ASSUME NEW k \in Listeners, DestroyListener(k), UNCHANGED <<rvars, last>>
      PROVE  Same \/ Destroyed
  BY <1>7 DEF DestroyListener, TypeOK, rvars
<1>8. ASSUME NEW t \in Threads, ReleaseSelf(t) PROVE Same \/ Destroyed
  <2>1. cur[t] \in Listeners /\ UNCHANGED <<rvars, last>>
    BY <1>8 DEF ReleaseSelf, TypeOK, Holding
  <2>2. CASE UNCHANGED lvars
    BY <2>1, <2>2 DEF rvars, lvars
  <2> QED BY <1>8, <1>7, <2>1, <2>2 DEF ReleaseSelf
<1>9. ASSUME NEW k \in Listeners, CloseReader(k) PROVE Same \/ Destroyed
  <2>1. UNCHANGED <<rvars, last>>
    BY <1>9 DEF CloseReader
  <2>2. CASE UNCHANGED lvars
    BY <2>1, <2>2 DEF rvars, lvars
  <2> QED BY <1>9, <1>7, <2>1, <2>2 DEF CloseReader
<1> HIDE DEF Same, Destroyed
<1>10. \/ Same
       \/ EnqueuePendingMessageLocked(l)
       \/ \E t \in Threads : PopAndCall(t) /\ cur[t] = l
       \/ Destroyed
  <2>1. CASE UNCHANGED vars
    BY <2>1, <1>1
  <2>2. CASE Next
    BY <2>2, <1>2, <1>3, <1>4, <1>5, <1>6, <1>8, <1>9 DEF Next, Receive, Work, Close
  <2> QED BY <2>1, <2>2
<1> QED BY <1>10 DEF Same, Destroyed

\* A refused sample changes nothing of the queue; another one is appended to
\* what the overflow policy leaves, which is all, all but the oldest, or none.
LEMMA EnqueueStep ==
  ASSUME TypeOK, NEW l \in Listeners, EnqueuePendingMessageLocked(l)
  PROVE  /\ enqueued'[l] = enqueued[l] + 1
         /\ last'[l] = last[l] /\ stop_requested'[l] = stop_requested[l]
         /\ \/ /\ overflow_policy[l] = "kDropNewest"
               /\ pending_messages'[l] = pending_messages[l]
            \/ \E kept \in {<<>>, Tail(pending_messages[l]), pending_messages[l]} :
                 /\ kept \in Seq(Nat)
                 /\ kept = Tail(pending_messages[l]) => pending_messages[l] # <<>> \/ kept = <<>>
                 /\ pending_messages'[l] = Append(kept, enqueued[l] + 1)
                 /\ overflow_policy[l] = "kLatestOnly" => kept = <<>>
                 /\ overflow_policy[l] # "kLatestOnly" /\ QueueFull(l)
                      => kept = Tail(pending_messages[l]) /\ pending_messages[l] # <<>>
<1>1. /\ enqueued'[l] = enqueued[l] + 1
      /\ last'[l] = last[l] /\ stop_requested'[l] = stop_requested[l]
  BY DEF EnqueuePendingMessageLocked, TypeOK
<1>2. CASE Refuses(l) /\ Refuse(l)
  BY <1>1, <1>2 DEF Refuses, Refuse
<1>3. CASE ~Refuses(l) /\ Push(l, enqueued[l] + 1)
  <2>1. Survivors(l) \in Seq(Nat)
    BY SurvivorsType
  <2>2. pending_messages'[l] = Append(Survivors(l), enqueued[l] + 1)
    BY <1>3 DEF Push, TypeOK
  <2>3. pending_messages[l] \in Seq(Nat) /\ (QueueFull(l) => pending_messages[l] # <<>>)
    BY ConstantsAssumption DEF QueueFull, TypeOK
  <2>4. overflow_policy[l] \in {"kDropNewest", "kDropOldest", "kLatestOnly"}
    BY ConstantsAssumption
  <2>5. /\ Survivors(l) \in {<<>>, Tail(pending_messages[l]), pending_messages[l]}
        /\ overflow_policy[l] = "kLatestOnly" => Survivors(l) = <<>>
        /\ overflow_policy[l] # "kLatestOnly" /\ QueueFull(l)
             => Survivors(l) = Tail(pending_messages[l]) /\ pending_messages[l] # <<>>
    BY <1>3, <2>3, <2>4 DEF Survivors, Refuses
  <2>6. \/ Survivors(l) = <<>>
        \/ pending_messages[l] # <<>>
    BY <2>3 DEF Survivors
  <2> HIDE DEF Survivors
  <2> QED BY <1>1, <2>1, <2>2, <2>5, <2>6
<1> QED BY <1>2, <1>3 DEF EnqueuePendingMessageLocked

\* A pop takes the first message.
LEMMA PopStep ==
  ASSUME TypeOK, NEW t \in Threads, PopAndCall(t), NEW l \in Listeners, cur[t] = l
  PROVE  /\ pending_messages[l] \in Seq(Nat) /\ pending_messages[l] # <<>>
         /\ pending_messages'[l] = Tail(pending_messages[l])
         /\ last'[l] = Head(pending_messages[l])
         /\ enqueued'[l] = enqueued[l] /\ stop_requested'[l] = stop_requested[l]
BY DEF PopAndCall, TypeOK, rvars

\* For every capacity and policy the queue keeps within its bound.
THEOREM QueuesBounded == Spec => []CapacityBound
<1>1. Init => CapacityBound
  <2> SUFFICES ASSUME Init, NEW l \in Listeners
               PROVE  /\ queue_capacity[l] > 0 => Len(pending_messages[l]) <= queue_capacity[l]
                      /\ Len(pending_messages[l]) <= 1
    BY DEF CapacityBound
  <2>1. queue_capacity[l] \in Nat
    BY ConstantsAssumption
  <2>2. pending_messages[l] = <<>>
    BY DEF Init
  <2>3. Len(pending_messages[l]) = 0
    BY <2>2
  <2> QED BY <2>1, <2>3
<1>2. TypeOK /\ CapacityBound /\ [Next]_vars => CapacityBound'
  <2> SUFFICES ASSUME TypeOK, CapacityBound, [Next]_vars, NEW l \in Listeners
               PROVE  /\ queue_capacity[l] > 0 /\ overflow_policy[l] # "kLatestOnly" =>
                           Len(pending_messages'[l]) <= queue_capacity[l]
                      /\ overflow_policy[l] = "kLatestOnly" => Len(pending_messages'[l]) <= 1
    BY DEF CapacityBound
  <2> DEFINE q == pending_messages[l]
  <2>1. q \in Seq(Nat) /\ queue_capacity[l] \in Nat
    BY ConstantsAssumption DEF TypeOK
  <2>2. /\ queue_capacity[l] > 0 /\ overflow_policy[l] # "kLatestOnly" =>
             Len(q) <= queue_capacity[l]
        /\ overflow_policy[l] = "kLatestOnly" => Len(q) <= 1
    BY DEF CapacityBound
  <2>3. CASE EnqueuePendingMessageLocked(l)
    <3>1. CASE pending_messages'[l] = q
      BY <2>2, <3>1
    <3>2. ASSUME NEW kept \in {<<>>, Tail(q), q},
                 kept \in Seq(Nat),
                 kept = Tail(q) => q # <<>> \/ kept = <<>>,
                 pending_messages'[l] = Append(kept, enqueued[l] + 1),
                 overflow_policy[l] = "kLatestOnly" => kept = <<>>,
                 overflow_policy[l] # "kLatestOnly" /\ QueueFull(l)
                   => kept = Tail(q) /\ q # <<>>
          PROVE  /\ queue_capacity[l] > 0 /\ overflow_policy[l] # "kLatestOnly" =>
                      Len(pending_messages'[l]) <= queue_capacity[l]
                 /\ overflow_policy[l] = "kLatestOnly" => Len(pending_messages'[l]) <= 1
      <4>1. Len(pending_messages'[l]) = Len(kept) + 1 /\ Len(kept) \in Nat
        BY <3>2
      <4>2. CASE overflow_policy[l] = "kLatestOnly"
        BY <3>2, <4>1, <4>2
      <4>3. CASE overflow_policy[l] # "kLatestOnly" /\ QueueFull(l)
        <5>1. Len(kept) = Len(q) - 1
          BY <2>1, <3>2, <4>3
        <5> QED BY <2>1, <2>2, <4>1, <4>3, <5>1
      <4>4. CASE overflow_policy[l] # "kLatestOnly" /\ ~QueueFull(l)
        <5>1. queue_capacity[l] > 0 => Len(q) < queue_capacity[l]
          BY <2>1, <4>4 DEF QueueFull
        <5>2. Len(kept) <= Len(q) \/ kept = <<>>
          <6>1. q # <<>> => Len(Tail(q)) = Len(q) - 1
            BY <2>1
          <6>2. CASE kept = <<>> \/ kept = q
            BY <2>1, <6>2
          <6>3. CASE kept = Tail(q) /\ q # <<>>
            BY <2>1, <6>1, <6>3
          <6> QED BY <3>2, <6>2, <6>3
        <5> QED BY <2>1, <4>1, <4>4, <5>1, <5>2
      <4> QED BY <4>2, <4>3, <4>4
    <3> HIDE DEF q
    <3> QED BY <2>3, <3>1, <3>2, EnqueueStep DEF q
  <2>4. ASSUME NEW t \in Threads, PopAndCall(t), cur[t] = l
        PROVE  Len(pending_messages'[l]) <= Len(q)
    <3>1. q # <<>> /\ pending_messages'[l] = Tail(q)
      BY <2>4, PopStep
    <3>2. Len(Tail(q)) = Len(q) - 1 /\ Len(q) \in Nat
      BY <2>1, <3>1
    <3> HIDE DEF q
    <3> QED BY <3>1, <3>2
  <2>5. CASE pending_messages'[l] = <<>>
    BY <2>1, <2>5
  <2>6. pending_messages'[l] \in Seq(Nat)
    BY TypeStep DEF TypeOK
  <2>7. CASE pending_messages'[l] = q
    BY <2>2, <2>7
  <2>8. CASE \E t \in Threads : PopAndCall(t) /\ cur[t] = l
    BY <2>1, <2>2, <2>4, <2>6, <2>8
  <2> QED BY <2>3, <2>5, <2>7, <2>8, QueueStep
<1> QED BY <1>1, <1>2, TypeCorrect, PTL DEF Spec

\* kDropOldest and kLatestOnly: for any capacity, the newest sample enqueued
\* ends the queue or was the last one handed over.
THEOREM NewestSamplesKept == Spec => []NewestKept
<1>1. Init => NewestKept
  BY DEF Init, NewestKept
<1>2. TypeOK /\ NewestKept /\ [Next]_vars => NewestKept'
  <2> SUFFICES ASSUME TypeOK, NewestKept, [Next]_vars, NEW l \in Listeners,
                      overflow_policy[l] # "kDropNewest",
                      ~stop_requested'[l], enqueued'[l] > 0
               PROVE  IF pending_messages'[l] = <<>> THEN last'[l] = enqueued'[l]
                      ELSE pending_messages'[l][Len(pending_messages'[l])] = enqueued'[l]
    BY DEF NewestKept
  <2> DEFINE q == pending_messages[l]
  <2>1. q \in Seq(Nat) /\ enqueued[l] \in Nat
    BY DEF TypeOK
  <2>2. ~stop_requested[l] /\ enqueued[l] > 0 =>
          IF q = <<>> THEN last[l] = enqueued[l] ELSE q[Len(q)] = enqueued[l]
    BY DEF NewestKept
  <2>3. CASE EnqueuePendingMessageLocked(l)
    <3>1. QueueFull(l) \in BOOLEAN /\ enqueued'[l] = enqueued[l] + 1
      BY <2>3, EnqueueStep DEF QueueFull
    <3>2. PICK kept \in Seq(Nat) : pending_messages'[l] = Append(kept, enqueued[l] + 1)
      BY <2>3, EnqueueStep
    <3> DEFINE a == Append(kept, enqueued[l] + 1)
    <3>4. enqueued[l] + 1 \in Nat
      BY <2>1
    <3>5. a # <<>> /\ Len(a) = Len(kept) + 1 /\ a[Len(kept) + 1] = enqueued[l] + 1
      BY <3>4, AppendProperties
    <3>3. a # <<>> /\ a[Len(a)] = enqueued[l] + 1
      BY <3>5
    <3> HIDE DEF a
    <3> QED BY <3>1, <3>2, <3>3 DEF a
  <2>4. CASE \E t \in Threads : PopAndCall(t) /\ cur[t] = l
    <3>1. /\ q # <<>>
          /\ pending_messages'[l] = Tail(q) /\ last'[l] = Head(q)
          /\ enqueued'[l] = enqueued[l] /\ stop_requested'[l] = stop_requested[l]
      BY <2>4, PopStep
    <3>2. q[Len(q)] = enqueued[l]
      BY <2>2, <3>1
    <3>3. CASE Len(q) = 1
      <4>1. Tail(q) \in Seq(Nat) /\ Len(Tail(q)) = 0
        BY <2>1, <3>1, <3>3, HeadTailProperties
      <4>2. Tail(q) = <<>>
        BY <4>1, EmptySeq
      <4>3. Head(q) = q[Len(q)]
        BY <3>3
      <4> QED BY <3>1, <3>2, <4>2, <4>3
    <3>4. CASE Len(q) # 1
      <4>2. Len(q) \in Nat \ {0}
        BY <2>1, <3>1, EmptySeq
      <4>3. /\ Len(Tail(q)) = Len(q) - 1
            /\ \A i \in 1..Len(Tail(q)) : Tail(q)[i] = q[i + 1]
        BY <2>1, <3>1, HeadTailProperties
      <4>4. Len(Tail(q)) \in 1..Len(Tail(q)) /\ Len(Tail(q)) + 1 = Len(q) /\ Len(Tail(q)) # 0
        <5>1. ASSUME NEW n, NEW m, n \in Nat \ {0}, n # 1, m = n - 1
              PROVE  m \in 1..m /\ m + 1 = n /\ m # 0
          BY <5>1
        <5> QED BY <3>4, <4>2, <4>3, <5>1
      <4>1. Tail(q) # <<>> /\ Tail(q)[Len(Tail(q))] = q[Len(q)]
        BY <4>3, <4>4, EmptySeq
      <4> QED BY <3>1, <3>2, <4>1
    <3> QED BY <3>3, <3>4
  <2>5. CASE /\ pending_messages'[l] = q /\ enqueued'[l] = enqueued[l]
             /\ last'[l] = last[l] /\ stop_requested'[l] = stop_requested[l]
    BY <2>2, <2>5
  <2> QED BY <2>3, <2>4, <2>5, QueueStep
<1> QED BY <1>1, <1>2, TypeCorrect, PTL DEF Spec

\* A queue holds samples in increasing order, all later than the last one
\* handed over and none later than the last one the reader gave.
QueueInOrder ==
  \A l \in Listeners :
    /\ last[l] <= enqueued[l]
    /\ \A i \in DOMAIN pending_messages[l] :
         last[l] < pending_messages[l][i] /\ pending_messages[l][i] <= enqueued[l]
    /\ \A i, j \in DOMAIN pending_messages[l] :
         i < j => pending_messages[l][i] < pending_messages[l][j]

LEMMA QueueInOrderInit == Init => QueueInOrder
<1> SUFFICES ASSUME Init, NEW l \in Listeners
             PROVE  last[l] = 0 /\ enqueued[l] = 0 /\ DOMAIN pending_messages[l] = {}
  <2>1. 0 <= 0
    OBVIOUS
  <2> QED BY <2>1, Zenon DEF QueueInOrder
<1>1. last[l] = 0 /\ enqueued[l] = 0 /\ pending_messages[l] = <<>>
  BY DEF Init
<1>2. DOMAIN <<>> = {}
  OBVIOUS
<1> QED BY <1>1, <1>2

LEMMA QueueInOrderStep ==
  ASSUME TypeOK, QueueInOrder, [Next]_vars
  PROVE  /\ QueueInOrder'
         /\ \A l \in Listeners : last'[l] # last[l] => last'[l] > last[l]
<1> SUFFICES ASSUME NEW l \in Listeners
    PROVE  /\ last'[l] <= enqueued'[l]
           /\ \A i \in DOMAIN pending_messages'[l] :
                last'[l] < pending_messages'[l][i] /\ pending_messages'[l][i] <= enqueued'[l]
           /\ \A i, j \in DOMAIN pending_messages'[l] :
                i < j => pending_messages'[l][i] < pending_messages'[l][j]
           /\ last'[l] # last[l] => last'[l] > last[l]
  BY DEF QueueInOrder
<1> DEFINE q == pending_messages[l]
           Increasing(s) == \A i, j \in DOMAIN s : i < j => s[i] < s[j]
           Between(s, a, b) == \A i \in DOMAIN s : a < s[i] /\ s[i] <= b
<1>1. q \in Seq(Nat) /\ enqueued[l] \in Nat /\ last[l] \in Nat
  BY DEF TypeOK
<1>2. last[l] <= enqueued[l] /\ Between(q, last[l], enqueued[l]) /\ Increasing(q)
  BY DEF QueueInOrder
<1>3. q # <<>> => Tail(q) \in Seq(Nat) /\ Between(Tail(q), last[l], enqueued[l]) /\ Increasing(Tail(q))
  <2> SUFFICES ASSUME q # <<>>
               PROVE  Tail(q) \in Seq(Nat) /\ Between(Tail(q), last[l], enqueued[l]) /\ Increasing(Tail(q))
    OBVIOUS
  <2>1. Tail(q) \in Seq(Nat) /\ Len(Tail(q)) = Len(q) - 1
    BY <1>1
  <2>2. \A i \in DOMAIN Tail(q) : i + 1 \in DOMAIN q /\ Tail(q)[i] = q[i + 1] /\ i \in Nat
    BY <1>1, <2>1
  <2> HIDE DEF q
  <2> QED BY <1>2, <2>1, <2>2
<1>4. CASE EnqueuePendingMessageLocked(l)
  <2>1. enqueued'[l] = enqueued[l] + 1 /\ last'[l] = last[l]
    BY <1>4, EnqueueStep
  <2>2. CASE pending_messages'[l] = q
    BY <1>1, <1>2, <2>1, <2>2
  <2>3. ASSUME NEW kept \in Seq(Nat), pending_messages'[l] = Append(kept, enqueued[l] + 1),
               Between(kept, last[l], enqueued[l]), Increasing(kept)
        PROVE  /\ Between(pending_messages'[l], last'[l], enqueued'[l])
               /\ Increasing(pending_messages'[l])
    <3>1. /\ DOMAIN pending_messages'[l] = 1..(Len(kept) + 1)
          /\ DOMAIN kept = 1..Len(kept) /\ Len(kept) \in Nat
          /\ \A i \in 1..Len(kept) : pending_messages'[l][i] = kept[i]
          /\ pending_messages'[l][Len(kept) + 1] = enqueued[l] + 1
      BY <1>1, <2>3
    <3>2. \A i \in 1..Len(kept) : kept[i] \in Nat
      OBVIOUS
    <3>3. Between(pending_messages'[l], last'[l], enqueued'[l])
      BY <1>1, <1>2, <2>1, <2>3, <3>1, <3>2
    <3>4. Increasing(pending_messages'[l])
      BY <1>1, <2>3, <3>1, <3>2
    <3> QED BY <3>3, <3>4
  <2>4. Between(<<>>, last[l], enqueued[l]) /\ Increasing(<<>>) /\ <<>> \in Seq(Nat)
    OBVIOUS
  <2>5. last'[l] <= enqueued'[l]
    BY <1>1, <1>2, <2>1
  <2>6. CASE \E kept \in {<<>>, Tail(q), q} :
               /\ kept \in Seq(Nat)
               /\ kept = Tail(q) => q # <<>> \/ kept = <<>>
               /\ pending_messages'[l] = Append(kept, enqueued[l] + 1)
    <3>1. PICK kept \in {<<>>, Tail(q), q} :
               /\ kept \in Seq(Nat)
               /\ kept = Tail(q) => q # <<>> \/ kept = <<>>
               /\ pending_messages'[l] = Append(kept, enqueued[l] + 1)
      BY <2>6
    <3> HIDE DEF q, Between, Increasing
    <3>2. Between(kept, last[l], enqueued[l]) /\ Increasing(kept)
      BY <1>2, <1>3, <2>4, <3>1
    <3> QED BY <2>1, <2>3, <2>5, <3>1, <3>2 DEF Between, Increasing
  <2> QED BY <1>4, <2>2, <2>6, EnqueueStep
<1>5. CASE \E t \in Threads : PopAndCall(t) /\ cur[t] = l
  <2>1. /\ q # <<>>
        /\ pending_messages'[l] = Tail(q) /\ last'[l] = Head(q)
        /\ enqueued'[l] = enqueued[l]
    BY <1>5, PopStep
  <2>2. Head(q) = q[1] /\ 1 \in DOMAIN q /\ Head(q) \in Nat
    BY <1>1, <2>1
  <2>3. last[l] < Head(q) /\ Head(q) <= enqueued[l]
    BY <1>2, <2>2
  <2>4. Between(Tail(q), Head(q), enqueued[l])
    <3>1. \A i \in DOMAIN Tail(q) :
            i + 1 \in DOMAIN q /\ Tail(q)[i] = q[i + 1] /\ i \in Nat /\ 1 < i + 1
      BY <1>1, <2>1
    <3> HIDE DEF q
    <3> QED BY <1>2, <2>2, <3>1
  <2> HIDE DEF q
  <2> QED BY <1>1, <1>3, <2>1, <2>2, <2>3, <2>4
<1>6. CASE pending_messages'[l] = q /\ enqueued'[l] = enqueued[l] /\ last'[l] = last[l]
  BY <1>2, <1>6
<1>7. CASE pending_messages'[l] = <<>> /\ enqueued'[l] = enqueued[l] /\ last'[l] = last[l]
  BY <1>2, <1>7
<1> QED BY <1>4, <1>5, <1>6, <1>7, QueueStep

\* The handler is entered by the critical section that pops a message and
\* nowhere else.
LEMMA HandlerEntered ==
  ASSUME TypeOK, [Next]_vars, NEW t \in Threads,
         tpc[t] # "callback", tpc'[t] = "callback"
  PROVE  PopAndCall(t)
<1>1. tpc' # tpc /\ tpc \in [Threads -> ThreadPCs]
  BY DEF TypeOK
<1>2. PICK u \in Threads : Work(u)
  BY <1>1 DEF Next, Receive, Close, on_data_available, LockAndCheckStop,
     EnqueuePendingMessageLocked, DecideSchedule, ScheduleExecution, CloseReader,
     JoinDedicated, vars, tvars
<1>3. PopAndCall(u)
  BY <1>1, <1>2 DEF Work, RunTask, RunExit, LockSelf, StopDraining, CallbackReturns,
     RecordMetrics, ReleaseSelf
<1>4. u = t
  BY <1>1, <1>3 DEF PopAndCall
<1> QED BY <1>3, <1>4

\* Whatever threads drain a listener, its handler is entered with newer and
\* newer samples, so with each at most once.
THEOREM SamplesInOrder == Spec => HandedInOrder
<1>1. Init => QueueInOrder
  BY QueueInOrderInit
<1>2. TypeOK /\ QueueInOrder /\ [Next]_vars => QueueInOrder'
  BY QueueInOrderStep
<1>3. ASSUME TypeOK, TypeOK', QueueInOrder, [Next]_vars, NEW l \in Listeners
      PROVE  last'[l] >= last[l]
  <2>1. last'[l] # last[l] => last'[l] > last[l]
    BY <1>3, QueueInOrderStep
  <2>2. last[l] \in Nat /\ last'[l] \in Nat
    BY <1>3 DEF TypeOK
  <2> QED BY <2>1, <2>2
<1>4. ASSUME TypeOK, QueueInOrder, [Next]_vars, NEW t \in Threads,
             tpc[t] # "callback", tpc'[t] = "callback"
      PROVE  msg'[t] > last[cur[t]] /\ last'[cur[t]] = msg'[t]
  <2> DEFINE q == pending_messages[cur[t]]
  <2>1. PopAndCall(t)
    BY <1>4, HandlerEntered
  <2>2. cur[t] \in Listeners /\ q \in Seq(Nat) /\ q # <<>> /\ last[cur[t]] \in Nat
    BY <1>4, <2>1 DEF PopAndCall, TypeOK, Holding
  <2>3. msg'[t] = Head(q) /\ last'[cur[t]] = Head(q)
    BY <1>4, <2>1, <2>2 DEF PopAndCall, TypeOK
  <2>4. Head(q) = q[1] /\ 1 \in DOMAIN q /\ Head(q) \in Nat
    BY <2>2
  <2>5. last[cur[t]] < q[1]
    BY <1>4, <2>2, <2>4 DEF QueueInOrder
  <2> HIDE DEF q
  <2> QED BY <2>2, <2>3, <2>4, <2>5
<1>5. TypeOK /\ TypeOK' /\ QueueInOrder /\ [Next]_vars =>
        [/\ \A t \in Threads : tpc[t] # "callback" /\ tpc'[t] = "callback" =>
              msg'[t] > last[cur[t]] /\ last'[cur[t]] = msg'[t]
         /\ \A l \in Listeners : last'[l] >= last[l]]_vars
  BY <1>3, <1>4
<1> QED BY <1>1, <1>2, <1>5, TypeCorrect, PTL DEF Spec, HandedInOrder

-----------------------------------------------------------------------------
(* The counters of the metrics.                                            *)

\* A step of an executor thread moves no other thread.
LEMMA OtherThreadsStay ==
  ASSUME TypeOK, NEW t \in Threads, Work(t), NEW u \in Threads, u # t
  PROVE  tpc'[u] = tpc[u] /\ cur'[u] = cur[u]
<1>1. CASE RunTask(t)
  BY <1>1 DEF RunTask, TypeOK
<1>2. CASE LockSelf(t)
  BY <1>2 DEF LockSelf, TypeOK
<1>3. CASE ReleaseSelf(t)
  BY <1>3 DEF ReleaseSelf, TypeOK
<1>4. CASE RunExit(t) \/ PopAndCall(t) \/ StopDraining(t) \/ CallbackReturns(t) \/ RecordMetrics(t)
  BY <1>4 DEF RunExit, PopAndCall, StopDraining, CallbackReturns, RecordMetrics, TypeOK
<1> QED BY <1>1, <1>2, <1>3, <1>4 DEF Work

\* A thread that is about to pop a message of l is the only one in l's
\* handler or on its way to the counters.
LEMMA SoleRunner ==
  ASSUME IInv, NEW l \in Listeners, NEW t \in Threads, cur[t] = l, tpc[t] \in Running,
         NEW u \in Uncounted(l)
  PROVE  u = t
<1>1. t \in Runners(l) /\ u \in Runners(l)
  BY DEF Runners, Running, Uncounted
<1> QED BY <1>1 DEF IInv, AtMostOneTask

\* Which callbacks await their count, before and after a step of a thread.
LEMMA UncountedStep ==
  ASSUME IInv, NEW t \in Threads, Work(t), NEW l \in Listeners
  PROVE  /\ PopAndCall(t) /\ cur[t] = l => Uncounted(l) = {} /\ Uncounted(l)' = {t}
         /\ RecordMetrics(t) /\ cur[t] = l => Uncounted(l) = {t} /\ Uncounted(l)' = {}
         /\ CallbackReturns(t) /\ enable_metrics[l] => Uncounted(l)' = Uncounted(l)
         /\ (PopAndCall(t) \/ RecordMetrics(t)) /\ cur[t] # l => Uncounted(l)' = Uncounted(l)
         /\ RunTask(t) \/ RunExit(t) \/ LockSelf(t) \/ StopDraining(t) \/ ReleaseSelf(t)
              => Uncounted(l)' = Uncounted(l)
<1>0. TypeOK
  BY DEF IInv
<1>1. \A u \in Threads : u # t => (u \in Uncounted(l)' <=> u \in Uncounted(l))
  BY <1>0, OtherThreadsStay DEF Uncounted
<1>2. Uncounted(l) \subseteq Threads /\ Uncounted(l)' \subseteq Threads
  BY DEF Uncounted
<1>3. ASSUME PopAndCall(t), cur[t] = l
      PROVE  Uncounted(l) = {} /\ Uncounted(l)' = {t}
  <2>1. tpc[t] = "drain" /\ cur[t] = l /\ tpc'[t] = "callback" /\ cur'[t] = l
    BY <1>0, <1>3 DEF PopAndCall, TypeOK
  <2>2. t \notin Uncounted(l) /\ t \in Uncounted(l)'
    BY <2>1 DEF Uncounted
  <2>3. \A u \in Uncounted(l) : u = t
    BY <2>1, SoleRunner DEF Running
  <2> QED BY <1>1, <1>2, <2>2, <2>3
<1>4. ASSUME RecordMetrics(t), cur[t] = l
      PROVE  Uncounted(l) = {t} /\ Uncounted(l)' = {}
  <2>1. tpc[t] = "metrics" /\ cur[t] = l /\ tpc'[t] = "drain"
    BY <1>0, <1>4 DEF RecordMetrics, TypeOK
  <2>2. t \in Uncounted(l) /\ t \notin Uncounted(l)'
    BY <2>1 DEF Uncounted
  <2>3. \A u \in Uncounted(l) : u = t
    BY <2>1, SoleRunner DEF Running
  <2> QED BY <1>1, <1>2, <2>2, <2>3
<1>5. ASSUME CallbackReturns(t), enable_metrics[l]
      PROVE  t \in Uncounted(l)' <=> t \in Uncounted(l)
  BY <1>0, <1>5 DEF CallbackReturns, Uncounted, TypeOK
<1>6. ASSUME PopAndCall(t) \/ RecordMetrics(t), cur[t] # l
      PROVE  t \in Uncounted(l)' <=> t \in Uncounted(l)
  BY <1>6 DEF PopAndCall, RecordMetrics, Uncounted
<1>7. ASSUME RunTask(t) \/ RunExit(t) \/ LockSelf(t) \/ StopDraining(t) \/ ReleaseSelf(t)
      PROVE  t \in Uncounted(l)' <=> t \in Uncounted(l)
  <2>1. /\ tpc[t] \notin {"callback", "metrics"}
        /\ tpc'[t] \notin {"callback", "metrics"}
    BY <1>0, <1>7 DEF RunTask, RunExit, LockSelf, StopDraining, ReleaseSelf, TypeOK
  <2> QED BY <2>1 DEF Uncounted
<1> QED BY <1>1, <1>2, <1>3, <1>4, <1>5, <1>6, <1>7

\* An enqueued sample is counted as received and is dropped, makes room by
\* dropping others, or adds to the queue.
LEMMA EnqueueCounts ==
  ASSUME TypeOK, NEW l \in Listeners, EnqueuePendingMessageLocked(l), enable_metrics[l]
  PROVE  /\ samples_received'[l] = samples_received[l] + 1
         /\ samples_dropped'[l] + Len(pending_messages'[l])
              = samples_dropped[l] + Len(pending_messages[l]) + 1
         /\ callbacks_executed'[l] = callbacks_executed[l]
<1> DEFINE q == pending_messages[l]
<1>1. q \in Seq(Nat) /\ Len(q) \in Nat /\ samples_dropped[l] \in Nat
  BY DEF TypeOK
<1>2. /\ samples_received'[l] = samples_received[l] + 1
      /\ callbacks_executed'[l] = callbacks_executed[l]
  BY DEF EnqueuePendingMessageLocked, TypeOK
<1>3. CASE Refuse(l)
  <2>1. samples_dropped'[l] = samples_dropped[l] + 1 /\ pending_messages'[l] = q
    BY <1>3 DEF Refuse, RecordDropLocked, TypeOK
  <2> QED BY <1>1, <1>2, <2>1
<1>4. CASE Push(l, enqueued[l] + 1)
  <2>0. Survivors(l) \in Seq(Nat) /\ enqueued[l] \in Nat
    BY SurvivorsType DEF TypeOK
  <2>1. Survivors(l) \in Seq(Nat) /\ Len(Survivors(l)) \in Nat /\ enqueued[l] + 1 \in Nat
    BY <2>0
  <2>2. /\ pending_messages'[l] = Append(Survivors(l), enqueued[l] + 1)
        /\ samples_dropped'[l] = samples_dropped[l] + (Len(q) - Len(Survivors(l)))
    BY <1>4 DEF Push, RecordDropLocked, TypeOK
  <2>3. Len(pending_messages'[l]) = Len(Survivors(l)) + 1
    BY <2>1, <2>2, AppendProperties
  <2> DEFINE a == Len(q)  b == Len(Survivors(l))  c == Len(pending_messages'[l])
  <2>4. /\ a \in Nat /\ b \in Nat /\ c = b + 1 /\ samples_dropped[l] \in Nat
        /\ samples_dropped'[l] = samples_dropped[l] + (a - b)
    BY <1>1, <2>1, <2>2, <2>3
  <2> HIDE DEF a, b, c
  <2>5. samples_dropped'[l] + c = samples_dropped[l] + a + 1
    BY <2>4
  <2> QED BY <1>2, <2>5 DEF a, c
<1> QED BY <1>3, <1>4 DEF EnqueuePendingMessageLocked

\* A step that enqueues nothing for l, counts nothing and pops nothing of it
\* keeps every term of the balance.
LEMMA MetricsFrame ==
  ASSUME IInv, [Next]_vars, NEW l \in Listeners, enable_metrics[l], ~stop_requested'[l],
         ~EnqueuePendingMessageLocked(l),
         \A t \in Threads : cur[t] = l => ~PopAndCall(t) /\ ~RecordMetrics(t)
  PROVE  /\ samples_received'[l] = samples_received[l]
         /\ samples_dropped'[l] = samples_dropped[l]
         /\ callbacks_executed'[l] = callbacks_executed[l]
         /\ pending_messages'[l] = pending_messages[l]
         /\ Uncounted(l)' = Uncounted(l)
<1> DEFINE Counters == /\ samples_received'[l] = samples_received[l]
                       /\ samples_dropped'[l] = samples_dropped[l]
                       /\ callbacks_executed'[l] = callbacks_executed[l]
<1>0. TypeOK
  BY DEF IInv
<1>1. pending_messages'[l] = pending_messages[l]
  BY <1>0, QueueStep
<1>2. ASSUME UNCHANGED <<tpc, cur>> PROVE Uncounted(l)' = Uncounted(l)
  BY <1>2 DEF Uncounted
<1>3. ASSUME UNCHANGED mvars PROVE Counters
  BY <1>3 DEF mvars
<1>4. CASE UNCHANGED vars
  BY <1>1, <1>2, <1>3, <1>4 DEF vars, tvars
<1>5. ASSUME NEW k \in Listeners,
             \/ on_data_available(k) \/ LockAndCheckStop(k) \/ DecideSchedule(k)
             \/ ScheduleExecution(k) \/ CloseReader(k) \/ JoinDedicated(k)
      PROVE  UNCHANGED <<tpc, cur>> /\ UNCHANGED mvars
  BY <1>5 DEF on_data_available, LockAndCheckStop, DecideSchedule, ScheduleExecution,
     CloseReader, JoinDedicated, tvars
<1>6. ASSUME NEW k \in Listeners, EnqueuePendingMessageLocked(k)
      PROVE  UNCHANGED <<tpc, cur>> /\ Counters
  <2>1. k # l
    BY <1>6
  <2>2. /\ UNCHANGED <<tpc, cur>> /\ samples_received'[l] = samples_received[l]
        /\ callbacks_executed' = callbacks_executed
    BY <1>0, <1>6, <2>1 DEF EnqueuePendingMessageLocked, TypeOK, tvars
  <2>3. samples_dropped'[l] = samples_dropped[l]
    BY <1>0, <1>6, <2>1 DEF EnqueuePendingMessageLocked, Refuse, Push, RecordDropLocked, TypeOK
  <2> QED BY <2>2, <2>3
<1>7. ASSUME NEW t \in Threads, Work(t)
      PROVE  Uncounted(l)' = Uncounted(l) /\ Counters
  <2>1. Uncounted(l)' = Uncounted(l)
    BY <1>7, UncountedStep DEF Work
  <2>2. ASSUME RecordMetrics(t) PROVE Counters
    <3>1. cur[t] # l
      BY <2>2
    <3> QED BY <1>0, <2>2, <3>1 DEF RecordMetrics, TypeOK
  <2>3. ASSUME \/ RunTask(t) \/ RunExit(t) \/ LockSelf(t) \/ PopAndCall(t)
               \/ StopDraining(t) \/ CallbackReturns(t) \/ ReleaseSelf(t)
        PROVE  UNCHANGED mvars
    BY <2>3 DEF RunTask, RunExit, LockSelf, PopAndCall, StopDraining, CallbackReturns, ReleaseSelf
  <2> HIDE DEF Counters
  <2> QED BY <1>3, <1>7, <2>1, <2>2, <2>3 DEF Work
<1>8. CASE Next
  <2> HIDE DEF Counters
  <2>1. Uncounted(l)' = Uncounted(l) /\ Counters
    BY <1>2, <1>3, <1>5, <1>6, <1>7, <1>8 DEF Next, Receive, Close
  <2> QED BY <1>1, <2>1 DEF Counters
<1> QED BY <1>4, <1>8

\* Whatever the order of the critical sections of the receive and the
\* executor threads, no sample is missing from the counters or counted twice.
THEOREM MetricsBalanced == Spec => []MetricsBalance
<1>1. Init => MetricsBalance
  <2> SUFFICES ASSUME Init, NEW l \in Listeners
               PROVE  /\ samples_received[l] = 0 /\ samples_dropped[l] = 0
                      /\ callbacks_executed[l] = 0 /\ Len(pending_messages[l]) = 0
                      /\ Uncounted(l) = {}
    BY DEF MetricsBalance
  <2>1. pending_messages[l] = <<>> /\ Len(<<>>) = 0
    BY DEF Init
  <2> QED BY <2>1 DEF Init, Uncounted
<1>2. IInv /\ MetricsBalance /\ [Next]_vars => MetricsBalance'
  <2> SUFFICES ASSUME IInv, MetricsBalance, [Next]_vars, NEW l \in Listeners,
                      enable_metrics[l], ~stop_requested'[l]
               PROVE  samples_received'[l] =
                        samples_dropped'[l] + callbacks_executed'[l]
                          + Len(pending_messages'[l])
                          + (IF Uncounted(l)' = {} THEN 0 ELSE 1)
    BY DEF MetricsBalance
  <2>0. TypeOK
    BY DEF IInv
  <2> DEFINE q == pending_messages[l]
  <2>1. /\ q \in Seq(Nat) /\ Len(q) \in Nat /\ samples_received[l] \in Nat
        /\ samples_dropped[l] \in Nat /\ callbacks_executed[l] \in Nat
    BY <2>0 DEF TypeOK
  <2>2. ASSUME ~stop_requested[l]
        PROVE  samples_received[l] =
                 samples_dropped[l] + callbacks_executed[l] + Len(q)
                   + (IF Uncounted(l) = {} THEN 0 ELSE 1)
    BY <2>2 DEF MetricsBalance
  <2>3. ~stop_requested[l]
    BY <2>0, QueueStep, PopStep, EnqueueStep
  <2> HIDE DEF q
  <2>4. CASE EnqueuePendingMessageLocked(l)
    <3>1. Uncounted(l)' = Uncounted(l)
      BY <2>4 DEF EnqueuePendingMessageLocked, Uncounted, tvars
    <3> DEFINE a == Len(q)  b == Len(pending_messages'[l])
               c == IF Uncounted(l) = {} THEN 0 ELSE 1
    <3>2. /\ samples_received'[l] = samples_received[l] + 1
          /\ samples_dropped'[l] + b = samples_dropped[l] + a + 1
          /\ callbacks_executed'[l] = callbacks_executed[l]
      BY <2>0, <2>4, EnqueueCounts DEF q
    <3>3. /\ samples_received[l] = samples_dropped[l] + callbacks_executed[l] + a + c
          /\ a \in Nat /\ c \in Nat
      BY <2>1, <2>2, <2>3
    <3>4. b \in Nat /\ samples_dropped'[l] \in Nat
      <4>1. TypeOK'
        BY <2>0, TypeStep
      <4>2. pending_messages'[l] \in Seq(Nat) /\ samples_dropped'[l] \in Nat
        BY <4>1 DEF TypeOK
      <4> QED BY <4>2
    <3> HIDE DEF a, b, c
    <3>5. samples_received'[l] = samples_dropped'[l] + callbacks_executed'[l] + b + c
      <4> DEFINE r == samples_received[l]  d == samples_dropped[l]
                 x == callbacks_executed[l]  d1 == samples_dropped'[l]
      <4>1. r \in Nat /\ d \in Nat /\ x \in Nat /\ d1 \in Nat
        BY <2>1, <3>4
      <4>2. r = d + x + a + c /\ d1 + b = d + a + 1
        BY <3>2, <3>3
      <4> HIDE DEF r, d, x, d1
      <4>3. r + 1 = d1 + x + b + c
        BY <3>3, <3>4, <4>1, <4>2
      <4> QED BY <3>2, <4>3 DEF r, d, x, d1
    <3> QED BY <3>1, <3>5 DEF b, c
  <2>5. ASSUME NEW t \in Threads, cur[t] = l, PopAndCall(t)
        PROVE  samples_received'[l] =
                 samples_dropped'[l] + callbacks_executed'[l] + Len(pending_messages'[l])
                   + (IF Uncounted(l)' = {} THEN 0 ELSE 1)
    <3>1. Uncounted(l) = {} /\ Uncounted(l)' # {}
      BY <2>5, UncountedStep DEF Work
    <3>2. UNCHANGED mvars /\ q # <<>> /\ pending_messages'[l] = Tail(q)
      BY <2>0, <2>5, PopStep DEF q, PopAndCall
    <3>3. Len(pending_messages'[l]) = Len(q) - 1
      BY <2>1, <3>2, HeadTailProperties
    <3> QED BY <2>1, <2>2, <2>3, <3>1, <3>2, <3>3 DEF mvars
  <2>6. ASSUME NEW t \in Threads, cur[t] = l, RecordMetrics(t)
        PROVE  samples_received'[l] =
                 samples_dropped'[l] + callbacks_executed'[l] + Len(pending_messages'[l])
                   + (IF Uncounted(l)' = {} THEN 0 ELSE 1)
    <3>1. Uncounted(l) # {} /\ Uncounted(l)' = {}
      BY <2>6, UncountedStep DEF Work
    <3>2. /\ samples_received' = samples_received /\ samples_dropped' = samples_dropped
          /\ callbacks_executed'[l] = callbacks_executed[l] + 1
          /\ pending_messages'[l] = q
      BY <2>0, <2>6 DEF q, RecordMetrics, lvars, TypeOK
    <3> QED BY <2>1, <2>2, <2>3, <3>1, <3>2
  <2>7. CASE /\ ~EnqueuePendingMessageLocked(l)
             /\ \A t \in Threads : cur[t] = l => ~PopAndCall(t) /\ ~RecordMetrics(t)
    BY <2>2, <2>3, <2>7, MetricsFrame DEF q
  <2> QED BY <2>4, <2>5, <2>6, <2>7
<1> QED BY <1>1, <1>2, InvariantHolds, PTL DEF Spec

-----------------------------------------------------------------------------
(* A listener with its executor threads implements DeliveryQueue.          *)

LEMMA SoleElement ==
  ASSUME NEW S, NEW t \in S, \A u \in S : u = t
  PROVE  (CHOOSE u \in S : TRUE) = t
OBVIOUS

\* A handler has a message: samples are numbered from 1.
HandlersHaveMessages == \A t \in Threads : tpc[t] = "callback" => msg[t] # 0

LEMMA HandlersHaveMessagesStep ==
  ASSUME TypeOK, QueueInOrder, HandlersHaveMessages, [Next]_vars
  PROVE  HandlersHaveMessages'
<1> SUFFICES ASSUME NEW t \in Threads, tpc'[t] = "callback" PROVE msg'[t] # 0
  BY DEF HandlersHaveMessages
<1>1. ASSUME UNCHANGED <<tpc, msg>> PROVE msg'[t] # 0
  BY <1>1 DEF HandlersHaveMessages
<1>2. ASSUME NEW u \in Threads, PopAndCall(u) PROVE msg'[t] # 0
  <2> DEFINE l == cur[u]
  <2>1. l \in Listeners
    BY <1>2 DEF PopAndCall, TypeOK, Holding
  <2>2. /\ pending_messages[l] \in Seq(Nat) /\ pending_messages[l] # <<>>
        /\ msg' = [msg EXCEPT ![u] = Head(pending_messages[l])]
        /\ tpc' = [tpc EXCEPT ![u] = "callback"]
    BY <1>2, <2>1, PopStep DEF PopAndCall
  <2>3. Head(pending_messages[l]) # 0
    <3>1. 1 \in DOMAIN pending_messages[l] /\ Head(pending_messages[l]) = pending_messages[l][1]
      BY <2>2
    <3>2. last[l] < pending_messages[l][1] /\ last[l] \in Nat
      BY <2>1, <3>1 DEF QueueInOrder, TypeOK
    <3> QED BY <3>1, <3>2
  <2>4. CASE t = u
    BY <2>2, <2>3, <2>4 DEF TypeOK
  <2>5. CASE t # u
    BY <2>2, <2>5 DEF TypeOK, HandlersHaveMessages
  <2> QED BY <2>4, <2>5
<1>3. ASSUME NEW u \in Threads,
             \/ RunTask(u) \/ RunExit(u) \/ LockSelf(u) \/ StopDraining(u)
             \/ RecordMetrics(u) \/ ReleaseSelf(u)
      PROVE  msg'[t] # 0
  <2>1. tpc[t] = "callback"
    BY <1>3 DEF RunTask, RunExit, LockSelf, StopDraining, RecordMetrics, ReleaseSelf, TypeOK
  <2>2. msg' = msg
    BY <1>3 DEF RunTask, RunExit, LockSelf, StopDraining, RecordMetrics, ReleaseSelf
  <2> QED BY <2>1, <2>2 DEF HandlersHaveMessages
<1>4. ASSUME NEW u \in Threads, CallbackReturns(u) PROVE msg'[t] # 0
  <2>1. t # u
    BY <1>4 DEF CallbackReturns, TypeOK
  <2> QED BY <1>4, <2>1 DEF CallbackReturns, TypeOK, HandlersHaveMessages
<1>5. ASSUME NEW k \in Listeners,
             on_data_available(k) \/ Receive(k) \/ Close(k)
      PROVE  UNCHANGED <<tpc, msg>>
  BY <1>5 DEF on_data_available, Receive, Close, LockAndCheckStop,
     EnqueuePendingMessageLocked, DecideSchedule, ScheduleExecution, CloseReader,
     JoinDedicated, tvars
<1> QED BY <1>1, <1>2, <1>3, <1>4, <1>5 DEF Next, Work, vars, tvars

\* What becomes of the sample in l's handler.
LEMMA HandlingStep ==
  ASSUME IInv, HandlersHaveMessages, [Next]_vars, NEW l \in Listeners
  PROVE  /\ EnqueuePendingMessageLocked(l) => HandledSample(l)' = HandledSample(l)
         /\ \A t \in Threads : PopAndCall(t) /\ cur[t] = l =>
              HandledSample(l) = 0 /\ HandledSample(l)' = Head(pending_messages[l])
         /\ ~(\E t \in Threads : PopAndCall(t) /\ cur[t] = l) =>
              \/ HandledSample(l)' = HandledSample(l)
              \/ HandledSample(l) # 0 /\ HandledSample(l)' = 0 /\ UNCHANGED lvars
<1>0. TypeOK
  BY DEF IInv
<1>1. \A t, u \in InHandler(l) : t = u
  <2>1. \A t \in InHandler(l) : t \in Runners(l)
    BY DEF InHandler, Runners, Running
  <2> QED BY <2>1 DEF IInv, AtMostOneTask
<1>2. \A t \in InHandler(l) : HandledSample(l) = msg[t] /\ msg[t] # 0
  <2> SUFFICES ASSUME NEW t \in InHandler(l) PROVE HandledSample(l) = msg[t] /\ msg[t] # 0
    OBVIOUS
  <2>1. (CHOOSE u \in InHandler(l) : TRUE) = t
    BY <1>1, SoleElement
  <2>2. HandledSample(l) = msg[t]
    BY <2>1 DEF HandledSample
  <2> QED BY <2>2 DEF InHandler, HandlersHaveMessages
<1>3. InHandler(l) = {} => HandledSample(l) = 0
  BY DEF HandledSample
<1>4. InHandler(l)' = {} => HandledSample(l)' = 0
  BY DEF HandledSample
<1>5. ASSUME UNCHANGED <<tpc, cur, msg>> PROVE HandledSample(l)' = HandledSample(l)
  <2>1. InHandler(l)' = InHandler(l)
    BY <1>5 DEF InHandler
  <2> QED BY <1>5, <2>1 DEF HandledSample
<1>6. ASSUME NEW t \in Threads, PopAndCall(t), cur[t] = l
      PROVE  HandledSample(l) = 0 /\ HandledSample(l)' = Head(pending_messages[l])
  <2>1. tpc[t] = "drain" /\ tpc'[t] = "callback" /\ cur'[t] = l
        /\ msg'[t] = Head(pending_messages[l])
    BY <1>0, <1>6 DEF PopAndCall, TypeOK
  <2>2. InHandler(l) = {}
    <3>1. \A u \in InHandler(l) : u \in Runners(l) /\ tpc[u] = "callback"
      BY DEF InHandler, Runners, Running
    <3>2. t \in Runners(l)
      BY <1>6, <2>1 DEF Runners, Running
    <3> QED BY <2>1, <3>1, <3>2 DEF IInv, AtMostOneTask
  <2>3. InHandler(l)' = {t}
    <3>1. \A u \in Threads : u # t => tpc'[u] = tpc[u] /\ cur'[u] = cur[u]
      BY <1>0, <1>6, OtherThreadsStay DEF Work
    <3> QED BY <2>1, <2>2, <3>1 DEF InHandler
  <2>4. (CHOOSE u \in InHandler(l)' : TRUE) = t
    BY <2>3, SoleElement
  <2> QED BY <1>3, <2>1, <2>2, <2>3, <2>4 DEF HandledSample
<1>7. ASSUME NEW t \in Threads, Work(t), cur[t] # l, ~RunTask(t)
      PROVE  HandledSample(l)' = HandledSample(l)
  <2>1. \A u \in Threads : u # t => tpc'[u] = tpc[u] /\ cur'[u] = cur[u] /\ msg'[u] = msg[u]
    <3>1. \A u \in Threads : u # t => msg'[u] = msg[u]
      BY <1>0, <1>7 DEF Work, RunTask, RunExit, LockSelf, PopAndCall, StopDraining,
         CallbackReturns, RecordMetrics, ReleaseSelf, TypeOK
    <3> QED BY <1>0, <1>7, <3>1, OtherThreadsStay
  <2>2. cur'[t] # l
    BY <1>0, <1>7, ConstantsAssumption DEF Work, RunExit, LockSelf, PopAndCall, StopDraining,
       CallbackReturns, RecordMetrics, ReleaseSelf, TypeOK
  <2>3. InHandler(l)' = InHandler(l) /\ t \notin InHandler(l)
    BY <1>7, <2>1, <2>2 DEF InHandler
  <2>4. CASE InHandler(l) = {}
    BY <1>3, <1>4, <2>3, <2>4
  <2>5. ASSUME NEW u \in InHandler(l) PROVE HandledSample(l)' = HandledSample(l)
    <3>1. (CHOOSE v \in InHandler(l)' : TRUE) = u
      BY <1>1, <2>3, SoleElement
    <3>2. HandledSample(l)' = msg'[u]
      BY <2>3, <3>1 DEF HandledSample
    <3>3. u \in Threads /\ u # t
      BY <2>3 DEF InHandler
    <3> QED BY <1>2, <2>1, <3>2, <3>3
  <2> QED BY <2>4, <2>5
<1>8. ASSUME NEW t \in Threads, Work(t), ~CallbackReturns(t), ~PopAndCall(t)
      PROVE  HandledSample(l)' = HandledSample(l)
  <2>1. msg' = msg
    BY <1>8 DEF Work, RunTask, RunExit, LockSelf, StopDraining, RecordMetrics, ReleaseSelf
  <2>2. tpc[t] # "callback" /\ tpc'[t] # "callback"
    BY <1>0, <1>8 DEF Work, RunTask, RunExit, LockSelf, StopDraining, RecordMetrics,
       ReleaseSelf, TypeOK
  <2>3. InHandler(l)' = InHandler(l)
    BY <1>0, <1>8, <2>2, OtherThreadsStay DEF InHandler
  <2> QED BY <2>1, <2>3 DEF HandledSample
<1>9. ASSUME NEW t \in Threads, CallbackReturns(t), cur[t] = l
      PROVE  HandledSample(l) # 0 /\ HandledSample(l)' = 0 /\ UNCHANGED lvars
  <2>1. t \in InHandler(l) /\ tpc'[t] # "callback" /\ UNCHANGED lvars
    BY <1>0, <1>9 DEF CallbackReturns, InHandler, TypeOK
  <2>2. InHandler(l)' = {}
    BY <1>0, <1>1, <1>9, <2>1, OtherThreadsStay DEF InHandler, Work
  <2> QED BY <1>2, <1>4, <2>1, <2>2
<1>10. ASSUME NEW k \in Listeners, on_data_available(k) \/ Receive(k) \/ Close(k)
       PROVE  UNCHANGED <<tpc, cur, msg>>
  BY <1>10 DEF on_data_available, Receive, Close, LockAndCheckStop,
     EnqueuePendingMessageLocked, DecideSchedule, ScheduleExecution, CloseReader,
     JoinDedicated, tvars
<1>11. ASSUME UNCHANGED vars PROVE UNCHANGED <<tpc, cur, msg>>
  BY <1>11 DEF vars, tvars
<1>12. EnqueuePendingMessageLocked(l) => UNCHANGED <<tpc, cur, msg>>
  BY DEF EnqueuePendingMessageLocked, tvars
<1>13. ASSUME NEW t \in Threads, Work(t), ~(PopAndCall(t) /\ cur[t] = l)
       PROVE  \/ HandledSample(l)' = HandledSample(l)
              \/ HandledSample(l) # 0 /\ HandledSample(l)' = 0 /\ UNCHANGED lvars
  <2>1. CASE cur[t] # l /\ ~RunTask(t)
    BY <1>7, <1>13, <2>1
  <2>2. CASE CallbackReturns(t) /\ cur[t] = l
    BY <1>9, <2>2
  <2>3. CASE ~CallbackReturns(t) /\ ~PopAndCall(t)
    BY <1>8, <1>13, <2>3
  <2>4. RunTask(t) => ~CallbackReturns(t) /\ ~PopAndCall(t)
    BY DEF RunTask, CallbackReturns, PopAndCall
  <2> QED BY <1>13, <2>1, <2>2, <2>3, <2>4
<1> QED BY <1>5, <1>6, <1>10, <1>11, <1>12, <1>13 DEF Next

\* Every step is, for each listener, a step of its DeliveryQueue or a stutter.
LEMMA DeliveryStep ==
  ASSUME IInv, IInv', HandlersHaveMessages, [Next]_vars, NEW l \in Listeners
  PROVE  Delivery(l)!Next \/ UNCHANGED Delivery(l)!vars
<1> DEFINE q == pending_messages[l]
<1>0. TypeOK
  BY DEF IInv
<1>1. q \in Seq(Nat) /\ Len(q) \in Nat
  BY <1>0 DEF TypeOK
<1>2. stop_requested[l] \in BOOLEAN /\ stop_requested'[l] \in BOOLEAN
  BY DEF IInv, TypeOK
<1>3. CASE EnqueuePendingMessageLocked(l)
  <2>1. ~stop_requested[l] /\ stop_requested'[l] = stop_requested[l]
        /\ enqueued'[l] = enqueued[l] + 1
    BY <1>0, <1>3, EnqueueStep DEF EnqueuePendingMessageLocked, IInv, NoUseAfterFree
  <2>2. HandledSample(l)' = HandledSample(l)
    BY <1>3, HandlingStep
  <2>3. CASE pending_messages'[l] = q
    <3>1. Delivery(l)!Refuse
      BY <2>1, <2>2, <2>3 DEF Delivery!Refuse
    <3> QED BY <3>1 DEF Delivery!Next
  <2>4. CASE \E kept \in {<<>>, Tail(q), q} :
               /\ kept = Tail(q) => q # <<>> \/ kept = <<>>
               /\ pending_messages'[l] = Append(kept, enqueued[l] + 1)
    <3>1. PICK kept \in {<<>>, Tail(q), q} :
               /\ kept = Tail(q) => q # <<>> \/ kept = <<>>
               /\ pending_messages'[l] = Append(kept, enqueued[l] + 1)
      BY <2>4
    <3>2. \E dropped \in 0..Len(q) : kept = SubSeq(q, dropped + 1, Len(q))
      <4>1. CASE kept = <<>>
        <5>1. SubSeq(q, Len(q) + 1, Len(q)) = <<>> /\ Len(q) \in 0..Len(q)
          BY <1>1
        <5> QED BY <4>1, <5>1
      <4>2. CASE kept = q
        <5>1. SubSeq(q, 0 + 1, Len(q)) = q /\ 0 \in 0..Len(q)
          BY <1>1, SubSeqFull
        <5> QED BY <4>2, <5>1
      <4>3. CASE kept = Tail(q) /\ q # <<>>
        <5>1. Tail(q) = SubSeq(q, 1 + 1, Len(q)) /\ 1 \in 0..Len(q)
          BY <1>1, <4>3, TailIsSubSeq
        <5> QED BY <4>3, <5>1
      <4> QED BY <3>1, <4>1, <4>2, <4>3
    <3>3. Delivery(l)!Accept
      BY <2>1, <2>2, <3>1, <3>2 DEF Delivery!Accept
    <3> QED BY <3>3 DEF Delivery!Next
  <2> QED BY <1>0, <1>3, <2>3, <2>4, EnqueueStep
<1>4. ASSUME NEW t \in Threads, PopAndCall(t), cur[t] = l
      PROVE  Delivery(l)!Handle
  BY <1>0, <1>4, PopStep, HandlingStep DEF Delivery!Handle
<1>5. CASE /\ ~EnqueuePendingMessageLocked(l)
           /\ ~(\E t \in Threads : PopAndCall(t) /\ cur[t] = l)
           /\ pending_messages'[l] = q /\ enqueued'[l] = enqueued[l]
           /\ stop_requested'[l] = stop_requested[l]
  <2>1. CASE HandledSample(l)' = HandledSample(l)
    BY <1>5, <2>1 DEF Delivery!vars
  <2>2. CASE HandledSample(l) # 0 /\ HandledSample(l)' = 0
    BY <1>5, <2>2 DEF Delivery!Handled, Delivery!Next
  <2> QED BY <1>5, <2>1, <2>2, HandlingStep
<1>6. CASE /\ pending_messages'[l] = <<>> /\ stop_requested'[l]
           /\ enqueued'[l] = enqueued[l] /\ ~stop_requested[l]
  <2>1. ~(\E t \in Threads : PopAndCall(t) /\ cur[t] = l) /\ ~EnqueuePendingMessageLocked(l)
    BY <1>0, <1>6, PopStep, EnqueueStep
  <2>2. ~UNCHANGED lvars
    BY <1>6 DEF lvars
  <2>3. HandledSample(l)' = HandledSample(l)
    BY <2>1, <2>2, HandlingStep
  <2>4. InHandler(l)' = {}
    BY <1>6 DEF IInv, NoUseAfterFree, InHandler, Holding
  <2>5. HandledSample(l)' = 0
    BY <2>4 DEF HandledSample
  <2>6. ~stop_requested[l] /\ stop_requested'[l] = TRUE
    BY <1>2, <1>6
  <2>7. Delivery(l)!Close
    BY <1>6, <2>3, <2>5, <2>6 DEF Delivery!Close
  <2> QED BY <2>7 DEF Delivery!Next
<1>7. CASE /\ pending_messages'[l] = <<>> /\ stop_requested'[l]
           /\ enqueued'[l] = enqueued[l] /\ stop_requested[l]
  <2>1. q = <<>> /\ stop_requested'[l] = stop_requested[l]
    BY <1>2, <1>7 DEF IInv, LifetimeOK
  <2>2. ~(\E t \in Threads : PopAndCall(t) /\ cur[t] = l) /\ ~EnqueuePendingMessageLocked(l)
    BY <1>0, <1>7, <2>1, PopStep DEF EnqueuePendingMessageLocked, IInv, NoUseAfterFree
  <2> QED BY <1>5, <1>7, <2>1, <2>2
<1>8. CASE ~EnqueuePendingMessageLocked(l) /\ ~(\E t \in Threads : PopAndCall(t) /\ cur[t] = l)
  BY <1>0, <1>5, <1>6, <1>7, <1>8, QueueStep
<1> QED BY <1>3, <1>4, <1>8 DEF Delivery!Next

\* For any number of listeners, threads and samples, each listener with its
\* executor threads is a lossy first-in first-out queue with one consumer.
THEOREM ListenersDeliver == Spec => ImplementsDelivery
<1>1. Init => QueueInOrder /\ HandlersHaveMessages
  <2>1. Init => QueueInOrder
    BY QueueInOrderInit
  <2>2. Init => HandlersHaveMessages
    BY DEF Init, HandlersHaveMessages
  <2> QED BY <2>1, <2>2
<1>2. Init => \A l \in Listeners : Delivery(l)!Init
  <2> SUFFICES ASSUME Init, NEW l \in Listeners PROVE Delivery(l)!Init
    OBVIOUS
  <2>1. InHandler(l) = {}
    BY DEF Init, InHandler
  <2> QED BY <2>1 DEF Init, HandledSample, Delivery!Init
<1>3. IInv /\ QueueInOrder /\ HandlersHaveMessages /\ [Next]_vars
        => QueueInOrder' /\ HandlersHaveMessages'
  BY QueueInOrderStep, HandlersHaveMessagesStep DEF IInv
<1>4. IInv /\ IInv' /\ HandlersHaveMessages /\ [Next]_vars
        => [\A l \in Listeners : Delivery(l)!Next \/ UNCHANGED Delivery(l)!vars]_vars
  BY DeliveryStep
<1> QED BY <1>1, <1>2, <1>3, <1>4, InvariantHolds, PTL DEF Spec, ImplementsDelivery
=============================================================================
