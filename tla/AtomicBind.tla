------------------------------ MODULE AtomicBind ------------------------------
(***************************************************************************)
(* What binding a request promises to its caller: the target changes in    *)
(* one step, and only when the request was accepted; each field then holds *)
(* a value of the place it declares, a zero value, or, when the request    *)
(* has no source for it, what the caller put there; a failure changes      *)
(* nothing. Binder is shown to implement this module.                      *)
(***************************************************************************)
VARIABLES target,   \* field -> where its value came from
          places,   \* field -> the places its value may come from
          outcome   \* "running", "ok" or "error"

vars == <<target, places, outcome>>

Init == outcome = "running" /\ \A f \in DOMAIN target : target[f] = "initial"

Succeed == /\ outcome = "running"
           /\ outcome' = "ok"
           /\ DOMAIN target' = DOMAIN target
           /\ \A f \in DOMAIN target :
                 target'[f] \in IF places[f] = {} THEN {target[f]} ELSE places[f] \cup {"zero"}
           /\ UNCHANGED places

Fail == /\ outcome = "running"
        /\ outcome' = "error"
        /\ UNCHANGED <<target, places>>

\* The same request is bound again, into the same target or a fresh one.
Again == /\ outcome \in {"ok", "error"}
         /\ outcome' = "running"
         /\ \/ UNCHANGED <<target, places>>
            \/ \A f \in DOMAIN target' : target'[f] = "initial"

Next == Succeed \/ Fail \/ Again

Spec == Init /\ [][Next]_vars
=============================================================================
