# Booster Robotics SDK: verification of the client library

TLA+ models of the C++ client SDK (`src/include/booster`), TLC configurations
that check them on small instances, and TLAPS proofs of their main invariants.
The SDK is a header-only layer over a prebuilt library and Fast DDS; what is
modelled is the code that is in the headers.

## 1. The system

| Part | State it keeps | Operations | What is hard |
|---|---|---|---|
| Receive path (`common/dds/dds_entity.hpp`, `dds_topic_channel.hpp`) | per listener: `pending_messages_`, `callback_scheduled_`, `stop_requested_`, metrics; per executor: `tasks_`, `stop_requested_` | `on_data_available` (receive thread), `Submit`, `Run`, `ExecutePendingCallbacks` (executor threads), `CloseReader` and destructors (application, or the thread with the last reference) | three kinds of threads, two mutexes, a flag that stands for "a task exists", weak and shared references, a thread that may destroy its own executor |
| Channels (`common/dds/dds_factory_model.hpp`, `robot/channel/*`) | `topic_map_` of the process, the Fast DDS objects, per wrapper `channel_ptr_` with `writer_`/`reader_` | `InitChannel`, `CloseChannel`, `Write`, matched counts, `CloseWriter`/`CloseReader` by name, `CloseTopic` | no lock around `topic_map_`; raw pointers with empty deleters; the new endpoint exists before the old one is closed |
| `MoveController` | pose tracker, locals of the movement loops, `is_closed_` | constructor, `MoveToTarget`, `MoveToRelative`, `TurnAround`, `Stop`, `Close` | closed loops over delayed odometry and lost commands; retries of a reset that may take effect late |
| `ArmController` | `pending_actions_`, tracker, `is_closed_` | constructor, `ControlArm`, `Finish`, `Close` | retries of enabling and disabling; a loop that samples the clock; partial publish failures |
| Locomotion API (`b1_loco_client.hpp`, `b1_loco_api.hpp`, `entities.hpp`, `device_info.hpp`) | none of its own: the caller's output objects | 49 methods; `ToJson`/`FromJson` of 40 classes | peers of another version, output objects used again, exceptions half way, NaN |
| RPC (`robot/rpc`) | compiled | `SendApiRequest`, fire-and-forget, operations | timeouts against late replies (seen by the callers only) |
| AI, LUI, vision, calibration, camera, X5, light clients (`robot/ai`, `vision`, `camera`, `x5_camera`, `device/light`) | none of their own; LUI sessions are compiled | 29 methods and their classes, like those of the locomotion API; limits of text and audio sizes, a color read from a string | fields that keep old values, nulls that count as missing keys, a decoder that catches exceptions half way |
| Audio | compiled | sessions and listeners | not visible |

The parts interact as follows. A controller owns a `ChannelSubscriber` for
feedback and a client. `InitChannel` makes the factory create a topic, a reader
and a listener; Fast DDS calls the listener, which queues the sample and has an
executor thread call the controller's handler, which writes the tracked pose or
joint positions that the blocking method of the application thread polls. The
clients serialise a parameter class, send it through `RpcClient` and decode the
reply into the caller's object.

What makes each part correct, and what is hard to test about it, is the list
`hazards` of `PROJECT.json`, at the lines where it bites.

## 2. Modules

| Module | Models | State and actions |
|---|---|---|
| `ReaderListener` | receive path | `rpc`, `taken`: the receive call of each reader; `pending_messages`, `callback_scheduled`, `stop_requested` and the counters: the listener's members; `tasks`, `exec_stop`: the executors; `tpc`, `cur`, `msg`: the executor threads; `channel`: where `CloseReader` is. One action per critical section or call: `on_data_available`, `LockAndCheckStop`, `EnqueuePendingMessageLocked` (one sample), `DecideSchedule`, `ScheduleExecution`, `RunTask`, `RunExit`, `LockSelf`, `PopAndCall`, `StopDraining`, `CallbackReturns`, `RecordMetrics`, `ReleaseSelf`, `CloseReader`, `JoinDedicated` |
| `DeliveryQueue` | abstract specification of one listener: a bounded lossy FIFO with one consumer that can be closed | `ReaderListener` implements it for each listener (`ImplementsDelivery`) |
| `ChannelFactory` | channels | `topics`, `endpoints`: which Fast DDS objects exist; `topic_map`; `pc`, `new_topic`, `new_endpoint`: a thread inside `InitChannel`; `channel_ptr`, `endpoint`: the wrapper. One action per access to `topic_map_` or call into Fast DDS. `closes` counts the closes by name; `process` becomes `"undefined"` when a deleted object, or null, is used |
| `MoveController` | `MoveController`, with the robot, its odometry and the network as environment | `pose`, `ready`: `PoseTracker`; the locals of the loops; one action per turn of a loop. Places are those of a lattice of 0.20 m, a velocity is one of eight directions, turned into the axes of the robot by the yaw that was read (`Velocity`) and carried out along them by the yaw it has (`RobotMoves`) |
| `Speeds` | the magnitudes of the speeds `MoveController` commands | operators: clamps, the limit and the scaling of the planar velocity, the last part of a `TurnAround` |
| `ArmController` | `ArmController`, with the robot and the network as environment | `pending_actions`, the `RetryApiCall` counter, the loop of `Finish` with its clock in steps of 10 ms |
| `ArmMotion` | `ArmController` with the position of one joint (the loop treats all alike) | `measured`: `joint_positions_`; `target`, `start_q`, `end_q`: the pending and the planned task; `q`: the arm, which is free to move (`ArmMoves`); `command`: what was published last. Every action of `ArmController` with what it does to the joint |
| `JsonClasses` | how the parameter and response classes read and write a field | a class is the sequence of its fields as `FromJson` reads them; `ToJson` and `FromJson` interpret it; a null (an array that is null reads as empty where the code iterates over it), a missing key, NaN and a member that keeps its value are told apart |
| `LocoApi` | classes and methods of `B1LocoClient` | one definition per class and per method |
| `ServiceApi` | classes and methods of the other clients, and the RPC request header | one definition per class and per method |
| `ApiClient` | what a blocking call of any client does | actions `Call`, `Serve`, `TimesOut`, `Return`; the catalog queries and the decoder of `GetDetectionObject` |
| `InputLimits` | inline conversions: `CountUtf8CodePoints`, `EstimateBase64DecodedBytes`, the color from a string | operators, and the encodings (UTF-8, base64, hexadecimal) they are compared with |
| `MC...` | instances for TLC | |
| `...Proofs` | theorems | |

Definitions named after a definition with a suffix (`QueueFullOffByOne`,
`ReturnResets`) are faulty variants of it. No specification uses them: they
are there to show that a property notices the fault.

### What the models assume of code outside the headers

- Fast DDS calls `on_data_available` of one reader from one thread at a time,
  and `delete_datareader` returns after a call in progress has returned.
- `create_topic` returns null for a name that exists; `delete_topic` fails while
  an endpoint uses the topic; deleted addresses may be used again. A delete of
  the null that a lookup returned is refused, or undefined.
- The robot drives in the direction it was last told, along its own axes. While
  the tracker listens, a newer pose comes before the robot is further than
  `MaxLag` from one that is in use, and a newer `LowState` before an arm joint is
  further than `MaxStale` from the last one; nothing else is assumed of the arm.
- Requests of one RPC client reach the robot in the order they were sent; any
  of them may be lost, refused, or carried out after its caller timed out; a
  late reply is not taken for the reply of a later request.
- The service decodes requests with the same classes, into new objects.
- A `find` and an insertion of `topic_map_` are atomic. In C++ the overlap is
  undefined behaviour with more outcomes than these interleavings.

## 3. Runs

| Run | Shows | Bounds |
|---|---|---|
| `listener_shared` | two listeners (kDropOldest of capacity 2 with metrics, kLatestOnly) on two shared threads: one task and one handler call per listener, no lost wakeup, bounded queues, balanced counters, the newest sample survives, order, no use after free, refinement of `DeliveryQueue` | 3 samples per reader, 2 per receive call: a queue overflows, refills while a handler runs, and a task can follow another on a second thread |
| `listener_dedicated` | kDropNewest with a dedicated thread beside an unbounded queue: queued samples settle and `CloseReader` returns | 2 samples per reader |
| `listener_close` | violated: a handler is entered after `CloseReader` returned | |
| `listener_self_join` | violated: a dedicated thread joins itself | |
| `channel_ownership` | two publishers racing on one name and a subscriber on another, initialised again and closed at any time: no leak, no shared or dangling endpoint, coherent `topic_map_`; once something has been closed by name only the first of these is promised, and holds | one address more than wrappers of each kind, as the new endpoint exists beside the old; one close by name, after which the wrappers go on |
| `channel_null` | violated: "Returns null if the factory is uninitialized" | |
| `move_calls` | construction and one movement over a lossy network: `true` means arrived or turned far enough; quiet afterwards; everything ends | a turn of eight ticks, on which the rotation into the robot's axes is exact; a lattice of 6 by 3; a target 3 units behind, so that the robot turns first, possibly not to the end (the loop gives up after five seconds), and drives at whatever heading it has; an offset to the side; a turn of nine ticks; the robot at most one unit ahead of a pose; two lost commands |
| `move_stale_frame` | violated: a movement uses a pose from before the reset | |
| `move_close` | violated: `Close` does not stop a movement in progress | |
| `arm_finish` | four calls of `ControlArm`/`Finish` and `Close`, joints at both ends and outside of the range, durations below and above the minimum: custom control off after `Close`, final targets published, short motions hold, failures reported, calls end | 10 ms ticks; two attempts of each request (the theorems cover the 5 and 3 of the code); minimum 2 ticks, motions of 2 and 3, delay of at most the grace |
| `arm_motion` | the position of a joint over two calls of `Finish`, the arm anywhere between them: commands stay in range and never jump | positions 0 to 5, motions of 4 and 5 ticks, turns of at most 2, feedback old by one unit: a motion over the whole range goes at most 3 per turn and the property allows 4, so a plan that starts at the wrong end is noticed |
| `api_calls` | every method of every client (of the compiled ones the classes they send and fill), each field in turn at each of its values (default, set, NaN, negative), one key missing or null, error, malformed, late and lost replies, two calls into one object | two calls are enough for what an earlier reply leaves behind: decoding depends on nothing older than the object; the first call tries every argument, the second one object, since requests leave nothing behind; fields do not influence each other except through `has_aux` and the two keys of the reprojection error |

Deadlock is not checked: every system here stops when the calls of its
environment are used up.

The violated properties state what the documentation says; `findings` in
`PROJECT.json` quotes the lines. A few more properties hold only under an
assumption, which their run makes; TLC finds a counterexample without it.
`FinalTargetPublished` needs a `Finish` loop that is never later than the
20 ms grace (set `MaxDelay` above `kGrace`); `NoJump` and the range of commands
need a `Finish` that began with feedback (`blind`), since the code plans from 0
without; `ArrivesNear` needs resets and odometry that are not late (`Timely`),
and says nothing when the final zero command was lost; `TurnsEnough` needs a
robot whose odometry does not still report the end of a turn the other way,
since the code adds up absolute differences (`MaxCalls = 2`, both signs in
`Angles`); and `EndpointNotShared`, `MapCoherent`, `NoLostTopic`, `OnOwnTopic`
and `NoFreedUse` hold until the first close by name (`closes > 0`).

`ArrivesNear` bounds the distance by `MaxLag`, not by the tolerance of 0.20 m:
what the loop compares with the tolerance is a pose, and the robot drives on
while it is on its way and until the zero command arrives.

### Fairness

- Receive path: an executor thread, a receive call in progress and an
  application thread inside a close take their steps (`WF`): they wait for
  nothing but mutexes and handlers, and handlers are assumed to return. Nothing
  makes a sample arrive or an application close. A listener whose queue is
  refilled for ever keeps its shared thread for ever; the bound on samples
  excludes that, so `SampleSettles` says nothing about starvation between busy
  listeners.
- Channels: a thread inside `InitChannel` finishes it.
- `MoveController`: the loops, the robot and the odometry go on (`WF`). The
  network drops at most `MaxLost` commands, and the loop sends one every 20 ms;
  without that bound a movement need not end, and the code has no timeout for
  that case.
- `ArmController`: an RPC call returns or times out, and the loop runs.
  `ArmMotion` assumes no fairness.

## 4. Proofs

All theorems are for every value of the constants: any number of listeners,
threads, wrappers, names, samples and calls.

- `ReaderListenerProofs`. `HandlersNotReentrant`, `WakeupsNotLost`,
  `ListenersNotUsedAfterFree` and `TypeCorrect`. None of the three safety
  properties is inductive. `IInv` adds that a listener has at most one task,
  counted over the places a task can be (about to be submitted, queued in the
  executor of its listener, running in a thread: `AtMostOneTask`,
  `TasksPlaced`), that `callback_scheduled_` of a live listener is true exactly
  while it has one (`ScheduledFlagExact`), that a receive call outside its
  critical section leaves no message without a task (`WakeupPending`) and that a
  listener is destroyed only when neither its channel nor a thread holds it
  (`LifetimeOK`). What a step does to one queue is one lemma (`QueueStep`, with
  `EnqueueStep` and `PopStep`). From it follow `QueuesBounded`,
  `NewestSamplesKept` and, with the invariant that a queue is sorted and lies
  between the last sample handed over and the last one received
  (`QueueInOrder`), `SamplesInOrder`: every entry of a handler (`HandlerEntered`)
  is with a sample newer than all before. `MetricsBalanced` needs that the thread
  that pops is the only one whose callback is not counted. `ListenersDeliver` is
  the refinement: every step is, for each listener, a step of `DeliveryQueue` or
  a stutter; that nothing is handled when a listener is destroyed comes from
  `IInv`.
- `ChannelFactoryProofs`. `EndpointsNotLeaked`, `EndpointsNotShared`,
  `FreedObjectsNotUsed`, `TopicsNotLost`, `MapStaysCoherent` and
  `EndpointsOnOwnTopic`. `IInv` adds what a thread has in its hands at each step
  of `InitChannel` (`LocalsMatch`, `LocalTopicOwn`), that held endpoints exist
  (`HeldEndpointLive`) and that names of existing topics are unique. Its part
  `AnyCloses`, with `TypeCorrect` and `EndpointsNotLeaked`, does not depend on
  what is closed by name; the rest is about the time before the first such close.
- `MoveControllerProofs`. `CallsEndQuiet`: every way out of a call issues the
  zero command last. `TypeCorrect`, from the range of `NormalizeAngle` and the
  retries left in the constructor. `SumsExact` and `RobotsTurnEnough`, for a
  controller's first call (`MaxCalls = 1`) and a loop between two of whose poses
  the robot turns by half a turn at most (`MaxLag <= kPi`): the yaws are
  congruent to the robot's modulo a turn (`WrappedCongruent`), so the wrapped
  difference has the size of the true one (`WrappedDifference`), and what the
  loop has read, the tracker, the newest message and the robot follow each
  other in the direction of the turn (`TurnInv`). A later call may begin while
  the tracker still reports the end of a turn the other way; the code adds that
  up as well. `RobotArrivesNear`, for a first call that translates
  (`MaxCalls = 1` and `0 \notin Angles`, as an angle of zero marks a
  translation) and resets and odometry that are not late (`Timely`).
  `ApproachInv` says that every pose is measured after the reset
  (`FramesInOrder`), that the robot rests before the call (`AtRest`) and, while
  the loops run, that the robot is within `MaxLag` of the pose the loop has
  read, the tracker's and the newest message (`Approach`). A pose within the
  tolerance lies at the target's place of the lattice (`ArrivedAtTarget`), so
  the robot is within `MaxLag` of it when the loop returns. That the robot gets
  there at all, for which the rotation into its axes has to be right, is
  liveness (`MovementEnds`) and model-checked.
  The bounds of every commanded speed (`YawSpeedsBounded`, `TurnSpeedBounded`,
  `PlanarSpeedBounded`) are about the operators of `Speeds`.
  `PlanarSpeedBounded` also shows that the lower limits near the target
  (`move_controller.hpp:163-168`) are never reached, because the loop has
  returned at the same distance. `TurnSpeedBounded` shows that the last 0.2 rad
  of a `TurnAround` exceed a requested speed below 0.2 rad/s.
- `ArmControllerProofs`. `CustomControlDisabled`, `TargetsPublished` (assuming
  `MaxDelay <= kGrace`), `FailuresReported`, `TypeCorrect` and
  `JointsMoveForward`. The invariant orders the requests in flight by their
  numbers: a disable that was answered has overtaken no earlier enable. The
  action property needs `PublishedBehind`: what was written last is not ahead
  of the clock.
- `ArmMotionProofs`. `MotionIsController`: `ArmMotion` implements
  `ArmController`, so `MotionKeepsPromises` follows from the theorems above.
  `InterpolationInRange`: the command is between the ends of its motion for any
  integers, by a lemma on quotients. `MotionInRange`: with that lemma what is
  commanded stays in the range of the joint, an interval of integers, because a
  motion is planned from a position that was measured (`PlannedFromFeedback`).
  `CommandsNeverJump`: where the arm was as `Finish` began, and after that the
  command written last, is within `MaxStale` of where the motion was at most
  one turn ago (`CommandOnWay`), and two commands of one motion are at most its
  stride apart, as quotients whose dividends differ by a turn's share differ by
  at most one unit more (`QuotientsNear`). The arm itself may do anything that
  `LowState` reports in time; a `Finish` that begins before any `LowState`
  plans from 0 and is excluded (`blind`).
- `JsonClassesProofs`. What `FromJson` makes of what `ToJson` wrote, for classes
  of any number of fields. `FromJsonStates` unfolds the recursive function of
  `FromJson` into a sequence of states, one after each field; `Induction` is
  induction over them, stated about a set of numbers, since the library's
  theorems take an operator; it comes from the library's `WFMin`. For a class of
  requests (`SentClass`), `RequestRead` says that each field is read as it was
  sent or, when its key is missing, at its default, and `RequestAccepted` that
  only a null or a required key can make `FromJson` throw. What this needs of a
  class is what the code has to get right: `has_aux` is read before the fields
  it decides about, only the first field is pushed to a vector, a key that is
  skipped when null is never written as null. For a class of replies
  (`ReplyClass`), `ReadingsAgree` compares the reading of one reply into two
  objects: the fields it has come out the same, the others as they were. The
  module then shows of each class of the clients that it is of such a kind;
  nested objects are concatenations (`ConcatPlain`, `NestedPlain`).
- `ApiClientProofs`. `OutputsKept`: no method touches the caller's object before
  a response with a success status has arrived. `MethodsSound` puts together
  what is known of the classes of every method. `RequestInv` says that the
  request on the wire is one of the arguments of the call and what the service
  has got is that request decoded: `ServiceUnderstands`, and the first half of
  `OlderPeersUnderstood`. `ReplyInv` adds that a successful reply is one to this
  call and that, once it is read, the output is this reply decoded into the
  object as it was before the call: `OlderPeersUnderstood`, `RepliesNotMixed`
  and, with the place of the first item that throws (`ItemsDecoded`),
  `DetectionsNotMixed`. `TypeInv` adds that every value has at most two marks,
  which would fail if an array were appended to the one an earlier reply left:
  `TypesCorrect`. The peers are those of the model: the service answers with
  values of the types of its class, one field at a time at each of its values,
  and any number of keys (`MaxMissing`) may be missing.
- `InputLimitsProofs`. `EstimateExact`, `EstimateUnpadded`,
  `EachCodePointOnce`, `ColorExact`, `ColorInRange`: each conversion against the
  encoding it reads. The count of a whole text is the sum over its code points,
  an induction that TLC checks on short texts (`MCApiClient`).

Every invariant and action property of the passing runs is stated by a theorem.
Only model-checked are the liveness properties, which rest on fairness, and the
count of a whole text.

## 5. Not modelled

The repository's own code is about 9,300 lines of headers; the rest of
`src/include` is Fast DDS, Fast CDR, nlohmann::json, tinyxml2 and accessors
generated from IDL, which are not the SDK's logic and are modelled, where it
relies on them, as external actions. Of its own code the following is left out.

- Compiled into the prebuilt library, so that only declarations can be read:
  the bodies of `RpcClient` and `RpcServer`, the operation client and server
  with progress and cancellation, audio sessions and their listeners, the
  methods and session ids of `LuiClient`, `HandEyeCalibClient` and
  `CameraClient`, and the catalog parsers. Of these clients' methods the model
  has the classes they send and fill: `SynthesizeSpeech` and the recognitions,
  which are operations of a session, are plain queries in it, and
  `StartAudioRecognizer` and `StopAudioRecognizer`, for which the headers show
  no class, requests without a body.
- Data of the modelled parts: time stamps and latencies, thread priorities,
  QoS, message types, arm joints other than one, floats (positions in the plane
  and of joints are integers, headings eighths of a turn, and the magnitudes of
  the speeds are kept apart from their directions).
- The order in which statics are destroyed at exit.
- The examples: programs that call the clients in a straight line.

## 6. Plan

1. Done: receive path, channels, controllers, the position of an arm joint, all
   clients and their classes, the request header, the inline conversions.
2. Done: every safety property of the receive path and of the channels proved,
   the refinement of `DeliveryQueue` included.
3. Done: `ArrivesNear` for a first call, `NoJump`, and what the clients' classes
   write and read.
4. Model: a composition of `ChannelFactory` and `ReaderListener` for a
   subscriber that is initialised again while its handler runs; the tracker of a
   controller destroyed beside a running handler.
