----------------------------- MODULE MCTypeCaches -----------------------------
(* Instances of TypeCaches for TLC. *)
EXTENDS TypeCaches

CONSTANTS Usable, Broken, Leaf  \* a struct, a type refused midway, a type of no visited fields

MCFailsAt == [t \in Types |-> IF t = Broken THEN 2 ELSE Stages + 2]
MCFields == [t \in Types |-> IF t = Leaf THEN 0 ELSE 2]
=============================================================================
