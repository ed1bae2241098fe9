---------------------------- MODULE DeliveryQueue ----------------------------
(***************************************************************************)
(* What a subscriber is promised for one reader: a lossy first-in          *)
(* first-out queue with a single consumer.  Samples 1, 2, ... are offered  *)
(* in order; an offered sample is refused, or queued after dropping some   *)
(* of the oldest queued ones.  One sample at a time is being handled.      *)
(* Closing empties the queue, and only happens between two samples.        *)
(***************************************************************************)
EXTENDS Naturals, Sequences

VARIABLES
  offered,  \* number of the last sample offered
  queue,    \* samples waiting
  handling, \* the sample in the handler, 0 when there is none
  closed

vars == <<offered, queue, handling, closed>>

Init == offered = 0 /\ queue = <<>> /\ handling = 0 /\ closed = FALSE

Refuse ==
  /\ ~closed
  /\ offered' = offered + 1
  /\ UNCHANGED <<queue, handling, closed>>

Accept ==
  /\ ~closed
  /\ offered' = offered + 1
  /\ \E dropped \in 0..Len(queue) :
       queue' = Append(SubSeq(queue, dropped + 1, Len(queue)), offered + 1)
  /\ UNCHANGED <<handling, closed>>

Handle ==
  /\ handling = 0
  /\ queue # <<>>
  /\ handling' = Head(queue)
  /\ queue' = Tail(queue)
  /\ UNCHANGED <<offered, closed>>

Handled ==
  /\ handling # 0
  /\ handling' = 0
  /\ UNCHANGED <<offered, queue, closed>>

Close ==
  /\ ~closed
  /\ handling = 0
  /\ closed' = TRUE
  /\ queue' = <<>>
  /\ UNCHANGED <<offered, handling>>

Next == Refuse \/ Accept \/ Handle \/ Handled \/ Close

Spec == Init /\ [][Next]_vars

=============================================================================
