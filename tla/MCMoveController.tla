-------------------------- MODULE MCMoveController --------------------------
(***************************************************************************)
(* Instances of MoveController for TLC: a lattice of places 0.20 m apart,  *)
(* a turn of eight ticks, on which the rotation into the robot's axes is   *)
(* exact, and requests of more than one turn.                              *)
(***************************************************************************)
EXTENDS MoveController, Speeds

At(x, y) == [x |-> x, y |-> y]

Floor == [x : -4 .. 1, y : -1 .. 1]
Start == {At(0, 0)}
Moved == {At(0, 0), At(1, 0)}

\* A target behind, to be turned to, and an offset to the side.
Behind == {At(-3, 0)}
Beside == {At(-1, 1)}

\* Offsets of the target whose length is a whole number of mm, out of
\* the tolerance.
Triples == {<<300, 400, 500>>, <<-600, 800, 1000>>, <<-200, -210, 290>>}

\* Scaling both components alike keeps the planar velocity within vel, and
\* leaves the offset itself when that is short.
ASSUME PlanarSpeedInLimit ==
  \A t \in Triples, vel \in {20, 100, 250, 500, 2000} :
    LET vx == Planar(t[1], t[3], vel)
        vy == Planar(t[2], t[3], vel)
    IN  /\ vx * vx + vy * vy <= vel * vel
        /\ t[3] <= vel => vx = Magnitude(t[1]) /\ vy = Magnitude(t[2])

=============================================================================
