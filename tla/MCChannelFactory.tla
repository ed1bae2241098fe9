-------------------------- MODULE MCChannelFactory --------------------------
(***************************************************************************)
(* Instances of ChannelFactory for TLC: two publishers that share a topic  *)
(* name, and a subscriber of that topic or of another one.                 *)
(***************************************************************************)
EXTENDS ChannelFactory, TLC

CONSTANTS p1, p2, s1, n1, n2, w1, w2, w3, r1, r2, t1, t2

OneName  == (p1 :> n1) @@ (p2 :> n1) @@ (s1 :> n1)
TwoNames == (p1 :> n1) @@ (p2 :> n1) @@ (s1 :> n2)

=============================================================================
