--------------------------- MODULE MCArmController ---------------------------
(***************************************************************************)
(* Instances of ArmController, with the joint of ArmMotion, for TLC.       *)
(***************************************************************************)
EXTENDS ArmMotion

\* A joint that rests at the far end of its range.
Range6 == 0 .. 5
BothEnds == {0, 5}
=============================================================================
