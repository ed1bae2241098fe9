-------------------------- MODULE MCReaderListener --------------------------
(***************************************************************************)
(* Instances of ReaderListener for TLC.                                    *)
(***************************************************************************)
EXTENDS ReaderListener, TLC

CONSTANTS l1, l2, t1, t2

\* Two listeners on the shared executor: a bounded queue that drops its
\* oldest message and counts, and one that keeps the latest message only.
SharedCapacity == (l1 :> 2) @@ (l2 :> 2)
SharedPolicy   == (l1 :> "kDropOldest") @@ (l2 :> "kLatestOnly")
SharedMetrics  == (l1 :> TRUE) @@ (l2 :> FALSE)

\* A listener with a dedicated thread that refuses new messages and counts,
\* beside one with an unbounded queue on the shared executor.
DedicatedCapacity == (l1 :> 1) @@ (l2 :> 0)
DedicatedPolicy   == (l1 :> "kDropNewest") @@ (l2 :> "kDropOldest")
DedicatedMetrics  == (l1 :> TRUE) @@ (l2 :> FALSE)


=============================================================================
