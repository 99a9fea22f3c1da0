---------------------------- MODULE MCBodyCapture ----------------------------
(* Instances of BodyCapture for TLC. *)
EXTENDS BodyCapture

CONSTANT MaxBytes  \* BOUND: the longest body

\* Bodies below, at and above the limit, whole or failing at any position.
MCBodies == {b \in [mode : {"off", "passive", "buffered"}, length : 0..MaxBytes, failAt : 0..(MaxBytes + 1),
                    sticky : BOOLEAN, declared : BOOLEAN] :
                 b.failAt > b.length => b.failAt = MaxBytes + 1 /\ ~b.sticky}
=============================================================================
