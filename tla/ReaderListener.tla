--------------------------- MODULE ReaderListener ---------------------------
(***************************************************************************)
(* The receive path of the SDK: DdsReaderListener, the executors that run  *)
(* its callbacks (DdsCallbackExecutor, shared by every listener, and       *)
(* DdsDedicatedCallbackExecutor, one thread of its own), and               *)
(* DdsTopicChannel::CloseReader, which drops the channel's reference to    *)
(* the listener.                                                           *)
(*                                                                         *)
(* A Fast DDS receive thread runs on_data_available, the executor threads  *)
(* run Run() and the application thread closes the reader.  A step is what *)
(* one thread does between two points where another thread can run: a      *)
(* critical section, or code that touches nothing shared.  Samples of a    *)
(* listener are numbered 1, 2, ... in the order the reader hands them out. *)
(***************************************************************************)
EXTENDS Naturals, Sequences

CONSTANTS
  Listeners,       \* DdsReaderListener objects, one per reader
  SharedThreads,   \* threads of the shared executor
  Dedicated,       \* the listeners whose dispatch_mode is kDedicated
  Shared,          \* the shared executor
  None,            \* "no listener"
  queue_capacity, overflow_policy, enable_metrics, \* options of each listener
  MaxSamples,      \* bound: samples per reader
  MaxBatch         \* bound: samples one on_data_available call takes

ASSUME ConstantsAssumption ==
  /\ Dedicated \subseteq Listeners
  /\ SharedThreads \cap Listeners = {}
  /\ Shared \notin Listeners
  /\ None \notin Listeners
  /\ queue_capacity \in [Listeners -> Nat]   \* 0 means unbounded
  /\ overflow_policy \in [Listeners -> {"kDropNewest", "kDropOldest", "kLatestOnly"}]
  /\ enable_metrics \in [Listeners -> BOOLEAN]
  /\ MaxSamples \in Nat
  /\ MaxBatch \in Nat

VARIABLES
  rpc,        \* the receive thread of each reader
  taken,      \* number of the last sample taken from the reader
  enqueued,   \* number of the last sample given to EnqueuePendingMessageLocked
  pending_messages, callback_scheduled, stop_requested,  \* DdsReaderListener
  samples_received, samples_dropped, callbacks_executed, \* its metrics_
  queue_high_watermark,
  tasks, exec_stop, \* tasks_ and stop_requested_ of each executor
  tpc,        \* each executor thread
  cur,        \* the listener of the task a thread runs
  msg,        \* the sample a thread's callback got
  last,       \* history: number of the last sample handed to the handler
  channel,    \* the channel that owns the reader and a listener reference
  process     \* "running", or "terminated" by std::terminate

rvars == <<rpc, taken, enqueued>>
lvars == <<pending_messages, callback_scheduled, stop_requested>>
mvars == <<samples_received, samples_dropped, callbacks_executed,
           queue_high_watermark>>
evars == <<tasks, exec_stop>>
tvars == <<tpc, cur, msg>>
vars  == <<rvars, lvars, mvars, evars, tvars, last, channel, process>>

\* The one thread of l's dedicated executor, and the executor, are named l.
Threads   == SharedThreads \cup Dedicated
Executors == {Shared} \cup Dedicated
ExecutorOf(l)       == IF l \in Dedicated THEN l ELSE Shared
ExecutorOfThread(t) == IF t \in Dedicated THEN t ELSE Shared

\* Threads holding `self`, the shared_ptr a running task locked.
Holding    == {"drain", "callback", "metrics", "release"}
Holders(l) == {t \in Threads : cur[t] = l /\ tpc[t] \in Holding}

\* on_data_available keeps mutex_ while it enqueues the samples it took.
MutexFree(l) == rpc[l] # "enqueue"

Init ==
  /\ rpc = [l \in Listeners |-> "idle"]
  /\ taken = [l \in Listeners |-> 0]
  /\ enqueued = [l \in Listeners |-> 0]
  /\ pending_messages = [l \in Listeners |-> <<>>]
  /\ callback_scheduled = [l \in Listeners |-> FALSE]
  /\ stop_requested = [l \in Listeners |-> FALSE]
  /\ samples_received = [l \in Listeners |-> 0]
  /\ samples_dropped = [l \in Listeners |-> 0]
  /\ callbacks_executed = [l \in Listeners |-> 0]
  /\ queue_high_watermark = [l \in Listeners |-> 0]
  /\ tasks = [e \in Executors |-> <<>>]
  /\ exec_stop = [e \in Executors |-> FALSE]
  /\ tpc = [t \in Threads |-> "run"]
  /\ cur = [t \in Threads |-> None]
  /\ msg = [t \in Threads |-> 0]
  /\ last = [l \in Listeners |-> 0]
  /\ channel = [l \in Listeners |-> "open"]
  /\ process = "running"

-----------------------------------------------------------------------------
(* The receive thread of reader l.                                         *)

\* on_data_available up to the lock: take_next_sample until the reader has
\* no more.  A call that takes no valid sample returns and changes nothing.
on_data_available(l) ==
  /\ channel[l] = "open"
  /\ rpc[l] = "idle"
  /\ \E k \in 1..MaxBatch :
       /\ taken[l] + k <= MaxSamples
       /\ taken' = [taken EXCEPT ![l] = @ + k]
  /\ rpc' = [rpc EXCEPT ![l] = "taken"]
  /\ UNCHANGED <<enqueued, lvars, mvars, evars, tvars, last, channel, process>>

\* It takes mutex_; a listener that is stopping drops the samples.
LockAndCheckStop(l) ==
  /\ rpc[l] = "taken"
  /\ rpc' = [rpc EXCEPT ![l] = IF stop_requested[l] THEN "idle" ELSE "enqueue"]
  /\ UNCHANGED <<taken, enqueued, lvars, mvars, evars, tvars, last, channel, process>>

QueueFullOffByOne(l) ==
  queue_capacity[l] > 0 /\ Len(pending_messages[l]) > queue_capacity[l]
QueueFull(l) ==
  queue_capacity[l] > 0 /\ Len(pending_messages[l]) >= queue_capacity[l]

RefusesWhateverPolicy(l) == QueueFull(l)
Refuses(l) == overflow_policy[l] = "kDropNewest" /\ QueueFull(l)

RecordDropUncounted(l, n) == UNCHANGED samples_dropped
RecordDropSubtracts(l, n) == samples_dropped' = [samples_dropped EXCEPT ![l] = @ - n]
RecordDropLocked(l, n) ==
  samples_dropped' =
    [samples_dropped EXCEPT ![l] = IF enable_metrics[l] THEN @ + n ELSE @]

\* The messages that are still queued when the next one is pushed.
Survivors(l) ==
  IF overflow_policy[l] = "kLatestOnly" THEN <<>>
  ELSE IF overflow_policy[l] = "kDropOldest" /\ QueueFull(l)
    THEN Tail(pending_messages[l])
    ELSE pending_messages[l]

\* A refused sample returns before the high watermark is looked at.
Refuse(l) ==
  /\ RecordDropLocked(l, 1)
  /\ UNCHANGED <<pending_messages, queue_high_watermark>>

PushFront(l, m) ==
  /\ pending_messages' = [pending_messages EXCEPT ![l] = <<m>> \o Survivors(l)]
  /\ RecordDropLocked(l, Len(pending_messages[l]) - Len(Survivors(l)))
  /\ UNCHANGED queue_high_watermark
Push(l, m) ==
  LET kept == Survivors(l)
  IN  /\ pending_messages' = [pending_messages EXCEPT ![l] = Append(kept, m)]
      /\ RecordDropLocked(l, Len(pending_messages[l]) - Len(kept))
      /\ queue_high_watermark' =
           [queue_high_watermark EXCEPT ![l] =
              IF enable_metrics[l] /\ @ < Len(kept) + 1 THEN Len(kept) + 1 ELSE @]

EnqueuePendingMessageLocked(l) ==
  /\ rpc[l] = "enqueue"
  /\ enqueued[l] < taken[l]
  /\ enqueued' = [enqueued EXCEPT ![l] = @ + 1]
  /\ samples_received' =
       [samples_received EXCEPT ![l] = IF enable_metrics[l] THEN @ + 1 ELSE @]
  /\ \/ Refuses(l) /\ Refuse(l)
     \/ ~Refuses(l) /\ Push(l, enqueued[l] + 1)
  /\ UNCHANGED <<rpc, taken, callback_scheduled, stop_requested,
                 callbacks_executed, evars, tvars, last, channel, process>>

TaskNeededUnchecked(l) == pending_messages[l] # <<>>
TaskNeeded(l) == ~callback_scheduled[l] /\ pending_messages[l] # <<>>

\* The end of the critical section: the first call to find messages queued
\* and no task outstanding will submit one.
DecideSchedule(l) ==
  /\ rpc[l] = "enqueue"
  /\ enqueued[l] = taken[l]
  /\ \/ /\ TaskNeeded(l)
        /\ callback_scheduled' = [callback_scheduled EXCEPT ![l] = TRUE]
        /\ rpc' = [rpc EXCEPT ![l] = "schedule"]
     \/ /\ ~TaskNeeded(l)
        /\ rpc' = [rpc EXCEPT ![l] = "idle"]
        /\ UNCHANGED callback_scheduled
  /\ UNCHANGED <<taken, enqueued, pending_messages, stop_requested, mvars,
                 evars, tvars, last, channel, process>>

\* Submit to the listener's executor.  The waiting threads' predicate is
\* re-evaluated under the executor's mutex, so notify_one needs no state.
ScheduleExecution(l) ==
  /\ rpc[l] = "schedule"
  /\ tasks' = [tasks EXCEPT ![ExecutorOf(l)] = Append(@, l)]
  /\ rpc' = [rpc EXCEPT ![l] = "idle"]
  /\ UNCHANGED <<taken, enqueued, lvars, mvars, exec_stop, tvars, last,
                 channel, process>>

-----------------------------------------------------------------------------
(* An executor thread: Run(), the task, ExecutePendingCallbacks.           *)

RunTask(t) ==
  LET e == ExecutorOfThread(t)
  IN  /\ tpc[t] = "run"
      /\ tasks[e] # <<>>
      /\ tasks' = [tasks EXCEPT ![e] = Tail(@)]
      /\ cur' = [cur EXCEPT ![t] = Head(tasks[e])]
      /\ tpc' = [tpc EXCEPT ![t] = "task"]
      /\ UNCHANGED <<rvars, lvars, mvars, exec_stop, msg, last, channel, process>>

RunExit(t) ==
  /\ tpc[t] = "run"
  /\ tasks[ExecutorOfThread(t)] = <<>>
  /\ exec_stop[ExecutorOfThread(t)]
  /\ tpc' = [tpc EXCEPT ![t] = "exited"]
  /\ UNCHANGED <<rvars, lvars, mvars, evars, cur, msg, last, channel, process>>

\* weak_self.lock(): null once the destructor has run.
LockSelfRawPointer(t) ==
  /\ tpc[t] = "task"
  /\ tpc' = [tpc EXCEPT ![t] = "drain"]
  /\ UNCHANGED <<rvars, lvars, mvars, evars, cur, msg, last, channel, process>>
LockSelf(t) ==
  /\ tpc[t] = "task"
  /\ \/ /\ stop_requested[cur[t]]
        /\ tpc' = [tpc EXCEPT ![t] = "run"]
        /\ cur' = [cur EXCEPT ![t] = None]
     \/ /\ ~stop_requested[cur[t]]
        /\ tpc' = [tpc EXCEPT ![t] = "drain"]
        /\ UNCHANGED cur
  /\ UNCHANGED <<rvars, lvars, mvars, evars, msg, last, channel, process>>

\* The critical section that pops the next message and enters the handler.
PopAndCallKeepsMessage(t) ==
  LET l == cur[t]
  IN  /\ tpc[t] = "drain" /\ MutexFree(l) /\ pending_messages[l] # <<>>
      /\ msg' = [msg EXCEPT ![t] = Head(pending_messages[l])]
      /\ last' = [last EXCEPT ![l] = Head(pending_messages[l])]
      /\ tpc' = [tpc EXCEPT ![t] = "callback"]
      /\ UNCHANGED <<rvars, lvars, mvars, evars, cur, channel, process>>
PopAndCall(t) ==
  LET l == cur[t]
  IN  /\ tpc[t] = "drain"
      /\ MutexFree(l)
      /\ ~stop_requested[l]
      /\ pending_messages[l] # <<>>
      /\ msg' = [msg EXCEPT ![t] = Head(pending_messages[l])]
      /\ last' = [last EXCEPT ![l] = Head(pending_messages[l])]
      /\ pending_messages' = [pending_messages EXCEPT ![l] = Tail(@)]
      /\ tpc' = [tpc EXCEPT ![t] = "callback"]
      /\ UNCHANGED <<rvars, callback_scheduled, stop_requested, mvars, evars,
                     cur, channel, process>>

\* The same critical section when there is nothing to do.
StopDrainingForgetsFlag(t) ==
  /\ tpc[t] = "drain"
  /\ MutexFree(cur[t])
  /\ pending_messages[cur[t]] = <<>>
  /\ tpc' = [tpc EXCEPT ![t] = "release"]
  /\ UNCHANGED <<rvars, lvars, mvars, evars, cur, msg, last, channel, process>>
StopDraining(t) ==
  LET l == cur[t]
  IN  /\ tpc[t] = "drain"
      /\ MutexFree(l)
      /\ stop_requested[l] \/ pending_messages[l] = <<>>
      /\ callback_scheduled' = [callback_scheduled EXCEPT ![l] = FALSE]
      /\ tpc' = [tpc EXCEPT ![t] = "release"]
      /\ UNCHANGED <<rvars, pending_messages, stop_requested, mvars, evars,
                     cur, msg, last, channel, process>>

CallbackReturns(t) ==
  /\ tpc[t] = "callback"
  /\ msg' = [msg EXCEPT ![t] = 0]
  /\ tpc' = [tpc EXCEPT ![t] = IF enable_metrics[cur[t]] THEN "metrics" ELSE "drain"]
  /\ UNCHANGED <<rvars, lvars, mvars, evars, cur, last, channel, process>>

RecordMetrics(t) ==
  /\ tpc[t] = "metrics"
  /\ MutexFree(cur[t])
  /\ callbacks_executed' = [callbacks_executed EXCEPT ![cur[t]] = @ + 1]
  /\ tpc' = [tpc EXCEPT ![t] = "drain"]
  /\ UNCHANGED <<rvars, lvars, samples_received, samples_dropped,
                 queue_high_watermark, evars, cur, msg, last, channel, process>>

\* ~DdsReaderListener, then ~DdsDedicatedCallbackExecutor's stop request.
DestroyListenerKeepsThread(l) ==
  /\ stop_requested' = [stop_requested EXCEPT ![l] = TRUE]
  /\ pending_messages' = [pending_messages EXCEPT ![l] = <<>>]
  /\ callback_scheduled' = [callback_scheduled EXCEPT ![l] = FALSE]
  /\ UNCHANGED exec_stop
DestroyListener(l) ==
  /\ stop_requested' = [stop_requested EXCEPT ![l] = TRUE]
  /\ pending_messages' = [pending_messages EXCEPT ![l] = <<>>]
  /\ callback_scheduled' = [callback_scheduled EXCEPT ![l] = FALSE]
  /\ exec_stop' = [e \in Executors |-> exec_stop[e] \/ e = l]

\* The task returns and `self` goes out of scope.  If it was the last
\* reference the destructor runs here, and a dedicated thread then joins
\* itself: std::thread::join throws out of a destructor.
ReleaseSelf(t) ==
  LET l == cur[t]
  IN  /\ tpc[t] = "release"
      /\ tpc' = [tpc EXCEPT ![t] = "run"]
      /\ cur' = [cur EXCEPT ![t] = None]
      /\ \/ /\ channel[l] = "open" \/ Holders(l) # {t}
            /\ UNCHANGED <<lvars, exec_stop, process>>
         \/ /\ channel[l] # "open" /\ Holders(l) = {t}
            /\ DestroyListener(l)
            /\ process' = IF t = l THEN "terminated" ELSE process
      /\ UNCHANGED <<rvars, mvars, tasks, msg, last, channel>>

-----------------------------------------------------------------------------
(* The application thread: DdsTopicChannel::CloseReader.                   *)

\* delete_datareader returns once no listener call is in progress; then the
\* channel's listener reference is dropped.  Destroying a dedicated executor
\* here waits for its thread.
CloseReader(l) ==
  /\ channel[l] = "open"
  /\ rpc[l] = "idle"
  /\ \/ /\ Holders(l) = {}
        /\ DestroyListener(l)
        /\ channel' = [channel EXCEPT ![l] = IF l \in Dedicated THEN "joining" ELSE "closed"]
     \/ /\ Holders(l) # {}
        /\ channel' = [channel EXCEPT ![l] = "closed"]
        /\ UNCHANGED <<lvars, exec_stop>>
  /\ UNCHANGED <<rvars, mvars, tasks, tvars, last, process>>

JoinDedicated(l) ==
  /\ channel[l] = "joining"
  /\ tpc[l] = "exited"
  /\ channel' = [channel EXCEPT ![l] = "closed"]
  /\ UNCHANGED <<rvars, lvars, mvars, evars, tvars, last, process>>

-----------------------------------------------------------------------------
Receive(l) == LockAndCheckStop(l) \/ EnqueuePendingMessageLocked(l)
              \/ DecideSchedule(l) \/ ScheduleExecution(l)
Work(t)    == RunTask(t) \/ RunExit(t) \/ LockSelf(t) \/ PopAndCall(t)
              \/ StopDraining(t) \/ CallbackReturns(t) \/ RecordMetrics(t)
              \/ ReleaseSelf(t)
Close(l)   == CloseReader(l) \/ JoinDedicated(l)

Next ==
  /\ process = "running"
  /\ \/ \E l \in Listeners : on_data_available(l) \/ Receive(l)
     \/ \E t \in Threads : Work(t)
     \/ \E l \in Listeners : Close(l)

Spec == Init /\ [][Next]_vars

\* Every thread that can run does: a receive call in progress, an executor
\* thread (its handlers return) and an application thread inside a close.
\* Nothing makes a sample arrive or an application close its reader.
Fairness ==
  /\ \A l \in Listeners : WF_vars(process = "running" /\ Receive(l))
  /\ \A t \in Threads : WF_vars(process = "running" /\ Work(t))
  /\ \A l \in Listeners : WF_vars(process = "running" /\ JoinDedicated(l))

FairSpec == Spec /\ Fairness

-----------------------------------------------------------------------------
(* Properties.                                                             *)

ReceivePCs == {"idle", "taken", "enqueue", "schedule"}
ThreadPCs  == {"run", "task", "exited"} \cup Holding

\* The variables of the listeners, executors and threads have their types.
TypeOK ==
  /\ rpc \in [Listeners -> ReceivePCs]
  /\ taken \in [Listeners -> Nat]
  /\ enqueued \in [Listeners -> Nat]
  /\ pending_messages \in [Listeners -> Seq(Nat)]
  /\ callback_scheduled \in [Listeners -> BOOLEAN]
  /\ stop_requested \in [Listeners -> BOOLEAN]
  /\ samples_received \in [Listeners -> Nat]
  /\ samples_dropped \in [Listeners -> Nat]
  /\ callbacks_executed \in [Listeners -> Nat]
  /\ queue_high_watermark \in [Listeners -> Nat]
  /\ tasks \in [Executors -> Seq(Listeners)]
  /\ exec_stop \in [Executors -> BOOLEAN]
  /\ tpc \in [Threads -> ThreadPCs]
  /\ cur \in [Threads -> Listeners \cup {None}]
  /\ \A t \in Threads : tpc[t] \in {"task"} \cup Holding => cur[t] \in Listeners
  /\ msg \in [Threads -> Nat]
  /\ last \in [Listeners -> Nat]
  /\ channel \in [Listeners -> {"open", "joining", "closed"}]
  /\ process \in {"running", "terminated"}

\* The places a task of l can be: about to be submitted, queued, running.
\* A thread in "release" has cleared callback_scheduled_ and left the loop.
Running    == {"task", "drain", "callback", "metrics"}
Runners(l) == {t \in Threads : cur[t] = l /\ tpc[t] \in Running}
Queued(l)  == {i \in DOMAIN tasks[ExecutorOf(l)] : tasks[ExecutorOf(l)][i] = l}

\* ExecutePendingCallbacks: whatever the number of executor threads, two of
\* them are never inside the handler of one listener at a time.
HandlerNotReentrant ==
  \A t, u \in Threads :
    tpc[t] = "callback" /\ tpc[u] = "callback" /\ cur[t] = cur[u] => t = u

\* callback_scheduled_ says whether a task is outstanding, so the receive
\* thread that skips Submit leaves its messages to somebody: a live listener
\* with queued messages has a task that is submitted, queued or running.
NoLostWakeup ==
  \A l \in Listeners :
    pending_messages[l] # <<>> /\ MutexFree(l) =>
      rpc[l] = "schedule" \/ Queued(l) # {} \/ Runners(l) # {}

\* EnqueuePendingMessageLocked keeps the queue within queue_capacity, and a
\* kLatestOnly queue at one message whatever the capacity.
CapacityBound ==
  \A l \in Listeners :
    /\ queue_capacity[l] > 0 /\ overflow_policy[l] # "kLatestOnly" =>
         Len(pending_messages[l]) <= queue_capacity[l]
    /\ overflow_policy[l] = "kLatestOnly" => Len(pending_messages[l]) <= 1

\* Callbacks popped but not yet counted in callbacks_executed.
Uncounted(l) ==
  {t \in Threads : cur[t] = l /\ tpc[t] \in {"callback", "metrics"}}

\* Every sample a live listener with metrics counted as received is dropped,
\* executed, queued or in the one callback that runs, across the separate
\* critical sections that update the counters.
MetricsBalance ==
  \A l \in Listeners :
    enable_metrics[l] /\ ~stop_requested[l] =>
      samples_received[l] =
        samples_dropped[l] + callbacks_executed[l] + Len(pending_messages[l])
          + (IF Uncounted(l) = {} THEN 0 ELSE 1)

\* Unless the policy is to refuse new samples, the newest sample enqueued is
\* the one the queue ends with or, when the queue is empty, the last one
\* handed over: overflow never leaves a subscriber with an older state.
NewestKept ==
  \A l \in Listeners :
    overflow_policy[l] # "kDropNewest" /\ ~stop_requested[l] /\ enqueued[l] > 0 =>
      IF pending_messages[l] = <<>> THEN last[l] = enqueued[l]
      ELSE pending_messages[l][Len(pending_messages[l])] = enqueued[l]

\* weak_self/self: no thread uses a listener whose destructor has run, and
\* the receive thread is not inside it either.
NoUseAfterFree ==
  /\ \A t \in Threads : tpc[t] \in Holding => ~stop_requested[cur[t]]
  /\ \A l \in Listeners : rpc[l] # "idle" => ~stop_requested[l]

\* Whichever executor thread enters the handler of a listener, it enters with
\* a sample that is newer than every one the handler got before: samples come
\* in the order the reader gave them, each at most once.
HandedInOrder ==
  [][/\ \A t \in Threads : tpc[t] # "callback" /\ tpc'[t] = "callback" =>
          msg'[t] > last[cur[t]] /\ last'[cur[t]] = msg'[t]
     /\ \A l \in Listeners : last'[l] >= last[l]]_vars

\* The sample in l's handler, if any.
InHandler(l)     == {t \in Threads : cur[t] = l /\ tpc[t] = "callback"}
HandledSample(l) == IF InHandler(l) = {} THEN 0
                    ELSE msg[CHOOSE t \in InHandler(l) : TRUE]

Delivery(l) ==
  INSTANCE DeliveryQueue WITH
    offered <- enqueued[l], queue <- pending_messages[l],
    handling <- HandledSample(l), closed <- stop_requested[l]

\* Each listener, with its executor threads, is a lossy FIFO queue with one
\* consumer: the locking of on_data_available, ExecutePendingCallbacks and
\* the destructor implements DeliveryQueue.  (\A l : Delivery(l)!Spec, with
\* the quantifier inside, the form TLC can check.)
ImplementsDelivery ==
  /\ \A l \in Listeners : Delivery(l)!Init
  /\ [][\A l \in Listeners : Delivery(l)!Next \/ UNCHANGED Delivery(l)!vars]_vars

\* A queued sample does not stay queued: when the readers' samples stop
\* coming and handlers return, it is handed over or dropped, or its listener
\* is destroyed, or the process ends.
SampleSettles ==
  \A l \in Listeners : \A n \in 1..MaxSamples :
    (\E i \in DOMAIN pending_messages[l] : pending_messages[l][i] = n) ~>
      process = "terminated" \/ \A i \in DOMAIN pending_messages[l] : pending_messages[l][i] # n

\* CloseReader returns: ~DdsDedicatedCallbackExecutor's join terminates.
CloseReturns ==
  \A l \in Listeners : channel[l] = "joining" ~> channel[l] = "closed" \/ process = "terminated"

\* "Closes the underlying reader" (ChannelSubscriber::CloseChannel): once it
\* has returned, the handler is not entered any more.
NoCallbackAfterClose ==
  [][\A t \in Threads : tpc[t] = "drain" /\ tpc'[t] = "callback" =>
       channel[cur[t]] = "open"]_vars

\* Closing a reader never makes its dedicated executor join itself, which
\* would end the process in std::terminate.
NoSelfJoin == process = "running"

-----------------------------------------------------------------------------
(* The inductive invariant behind the safety properties.                   *)

\* A task waits in the executor its listener submits to.
TasksPlaced ==
  \A e \in Executors : \A i \in DOMAIN tasks[e] : ExecutorOf(tasks[e][i]) = e

\* A listener has at most one task: to submit, queued, or running.
AtMostOneTask ==
  \A l \in Listeners :
    /\ rpc[l] = "schedule" => Queued(l) = {} /\ Runners(l) = {}
    /\ Queued(l) # {} => Runners(l) = {}
    /\ \A i, j \in Queued(l) : i = j
    /\ \A t, u \in Runners(l) : t = u

\* callback_scheduled_ of a live listener is true exactly while it has one.
ScheduledFlagExact ==
  \A l \in Listeners : ~stop_requested[l] =>
    (callback_scheduled[l] <=>
       (rpc[l] = "schedule" \/ Queued(l) # {} \/ Runners(l) # {}))

\* A receive thread that is not enqueueing leaves no message unscheduled.
WakeupPending ==
  \A l \in Listeners :
    pending_messages[l] # <<>> /\ MutexFree(l) => callback_scheduled[l]

\* What the channel and the destructor guarantee to each other.
LifetimeOK ==
  \A l \in Listeners :
    /\ channel[l] # "open" => rpc[l] = "idle"
    /\ stop_requested[l] => channel[l] # "open" /\ pending_messages[l] = <<>>

IInv ==
  /\ TypeOK
  /\ TasksPlaced
  /\ AtMostOneTask
  /\ ScheduledFlagExact
  /\ WakeupPending
  /\ LifetimeOK
  /\ NoUseAfterFree

=============================================================================
