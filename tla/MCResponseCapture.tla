-------------------------- MODULE MCResponseCapture --------------------------
(* Instances of ResponseCapture for TLC. *)
EXTENDS ResponseCapture

\* Every tree of four nodes, of objects and arrays with scalars as leaves.
Parents == {p \in [1..4 -> 0..3] : p[1] = 0 /\ \A n \in 2..4 : p[n] \in 1..(n - 1)}
Inner(p) == {n \in 1..4 : \E m \in 1..4 : p[m] = n}
Trees == {t \in [parent : Parents, kind : [1..4 -> {"object", "array", "scalar"}], sensitive : SUBSET (2..4)] :
              /\ \A n \in 1..4 : t.kind[n] = "scalar" <=> n \notin Inner(t.parent)
              /\ \A n \in t.sensitive : t.kind[t.parent[n]] = "object"}

Document(media, tree, length, encoded, parses) ==
    [media |-> media, length |-> length, encoded |-> encoded, parses |-> parses,
     parent |-> tree.parent, kind |-> tree.kind, sensitive |-> tree.sensitive]

\* Lengths below, at and above the limit matter for how a document is captured,
\* not for how it is redacted: the trees are taken at the smallest length.
ATree == [parent |-> <<0, 1>>, kind |-> <<"object", "scalar">>, sensitive |-> {2}]
Form(s) == [parent |-> <<0, 1, 1>>, kind |-> <<"object", "scalar", "scalar">>, sensitive |-> s]

\* JSON that is never valid, whole only, or valid without its last byte as well
\* (white space); a form that parses at any length, or not where an escape is cut.
MCDocuments ==
    {Document("json", t, 1, 1, {1}) : t \in Trees}
    \cup UNION {{Document("json", ATree, l, e, v) : v \in {{}, {l}, {l - 1, l} \cap Nat}} :
                    l \in 0..(Limit + 2), e \in {Limit, Limit + 1}}
    \cup {Document("form", Form(s), 4, e, v) : s \in SUBSET {2, 3}, e \in {Limit, Limit + 1}, v \in {1..4, {1, 2, 4}}}
=============================================================================
