----------------------------- MODULE SameAnswers -----------------------------
(***************************************************************************)
(* What a cache shared by concurrent calls promises: a call is answered    *)
(* once, with what it would have computed alone, and the answer it holds   *)
(* never changes. TypeCaches is shown to implement this module.            *)
(***************************************************************************)
CONSTANT Calls

VARIABLES alone,   \* call -> what it would answer with nobody else running
          answer   \* call -> the set of its answers so far: empty, or one

vars == <<alone, answer>>

Init == answer = [c \in Calls |-> {}]

Answer(c) == /\ answer[c] = {}
             /\ answer' = [answer EXCEPT ![c] = {alone[c]}]
             /\ UNCHANGED alone

Next == \E c \in Calls : Answer(c)

Spec == Init /\ [][Next]_vars
=============================================================================
