----------------------------- MODULE MCValidator -----------------------------
(* Instances of Validator for TLC. *)
EXTENDS Validator

Node == 1..5
Lists(nodes, most) == UNION {[1..k -> nodes] : k \in 0..most}
OneGroup(seq) == IF seq = <<>> THEN <<>> ELSE <<seq>>

\* A pointer to a struct; beside it a node of each kind, a wrapper or a plain
\* value, and a plain value. Cycles go through pointers, slices and maps.
Third == {<<"wrapper", OneGroup(s)>> : s \in Lists(Node, 1)}
         \cup {<<"list", OneGroup(s)>> : s \in Lists({2, 3, 4}, 2)}
         \cup {<<"map", <<<<4, n>>, <<m, 3>>>>>> : n, m \in {1, 4}} \cup {<<"map", <<<<4, n>>>>>> : n \in Node}
         \cup {<<"plain", <<>>>>}
Fourth == {<<"wrapper", OneGroup(s)>> : s \in Lists({1, 3, 4, 5}, 1)} \cup {<<"plain", <<>>>>}

\* No rules, or one on every object: all pass, one fails or panics, or both happen.
Rules == {[n \in Node |-> "none"]}
         \cup {[n \in Node |-> IF n = bad THEN how ELSE "pass"] : bad \in {2, 3, 4}, how \in {"pass", "fail", "panic"}}
         \cup {[n \in Node |-> CASE n = bad -> "fail" [] n = worse -> "panic" [] OTHER -> "pass"] :
                  bad \in {2, 3, 4}, worse \in {3, 4}}

Shapes == {[kind |-> <<"wrapper", "struct", third[1], fourth[1], "plain">>,
            groups |-> <<<<<<2>>>>, OneGroup(second), third[2], fourth[2], <<>>>>] :
               second \in {<<3>>, <<3, 4>>, <<4, 3>>, <<3, 3>>, <<3, 1>>}, third \in Third, fourth \in Fourth}

Valued(shape, rule, private, thrown, bound) ==
    [kind |-> shape.kind, groups |-> shape.groups, private |-> private,
     rule |-> [n \in Node |-> IF shape.kind[n] = "wrapper" THEN "none" ELSE rule[n]],
     thrown |-> thrown, bound |-> bound]

MCValues ==
    {Valued(s, r, {}, {"other"}, {}) : s \in Shapes, r \in Rules}
    \cup
    {Valued([kind |-> <<"wrapper", "struct", "list", "plain", "plain">>, groups |-> <<<<<<2>>>>, <<<<3, 4>>>>, <<<<4>>>>, <<>>, <<>>>>],
            r, p, t, b) : r \in Rules, p \in {{}, {4}}, t \in SUBSET Kinds, b \in {{}} \cup {{k} : k \in Kinds}}
=============================================================================
