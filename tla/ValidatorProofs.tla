--------------------------- MODULE ValidatorProofs ---------------------------
(***************************************************************************)
(* Proofs about Validator. The facts about chains of wrappers and about    *)
(* nesting come first; they are inductions on the number of steps, carried *)
(* out as minimal counterexamples.                                         *)
(***************************************************************************)
EXTENDS Validator, SequenceTheorems, WellFoundedInduction, TLAPS

-----------------------------------------------------------------------------
(* Natural numbers and iteration *)

\* Every nonempty set of natural numbers has a least element.
LEMMA LeastNatural ==
    ASSUME NEW T \in SUBSET Nat, T # {}
    PROVE  \E x \in T : \A y \in T : x <= y
<1> DEFINE R == {ss \in Nat \X Nat : ss[1] < ss[2]}
<1>1. IsWellFoundedOn(R, Nat) BY NatLessThanWellFounded DEF OpToRel
<1>2. PICK x \in T : \A y \in T : ~(<<y, x>> \in R)
  <2> HIDE DEF R
  <2>1. QED BY <1>1, WFMin
<1>3. ASSUME NEW y \in T PROVE x <= y
  <2>1. x \in Nat /\ y \in Nat OBVIOUS
  <2>2. ~(<<y, x>> \in R) BY <1>2
  <2>3. y < x => <<y, x>> \in R BY <2>1
  <2>4. QED BY <2>1, <2>2, <2>3
<1>4. QED BY <1>3

\* Every nonempty set of natural numbers up to N has a greatest element.
LEMMA GreatestNatural ==
    ASSUME NEW N \in Nat, NEW T \in SUBSET (0..N), T # {}
    PROVE  \E x \in T : \A y \in T : y <= x
<1> DEFINE U == {N - y : y \in T}
<1>1. U \in SUBSET Nat /\ U # {}
  <2>1. ASSUME NEW y \in T PROVE N - y \in Nat OBVIOUS
  <2>2. QED BY <2>1
<1>2. PICK u \in U : \A y \in U : u <= y BY <1>1, LeastNatural
<1>3. PICK x \in T : u = N - x BY <1>2
<1>4. \A y \in T : u <= N - y BY <1>2
<1>5. QED BY <1>3, <1>4

\* A set of numbers that holds 0 and every successor within N holds 0..N.
LEMMA UpTo ==
    ASSUME NEW N \in Nat, NEW T, 0 \in T, \A k \in 1..N : k - 1 \in T => k \in T
    PROVE  0..N \subseteq T
<1>1. SUFFICES ASSUME (0..N) \ T # {} PROVE FALSE OBVIOUS
<1> DEFINE U == (0..N) \ T
<1>a. U \in SUBSET Nat /\ U # {} BY <1>1
<1>2. PICK x \in U : \A y \in U : x <= y
  <2> HIDE DEF U
  <2>1. QED BY <1>a, LeastNatural
<1>3. x \in 1..N BY <1>2
<1>4. x - 1 \in 0..N /\ ~(x <= x - 1) BY <1>3
<1>5. x - 1 \in T BY <1>2, <1>4
<1>6. QED BY <1>2, <1>3, <1>5

\* The values of g applied again and again, from a.
Iterations(S, a, g, N) == {f \in [0..N -> S] : f[0] = a /\ \A k \in 1..N : f[k] = g[f[k - 1]]}

\* A function can be iterated any number of times from any start.
LEMMA Iterates ==
    ASSUME NEW S, NEW a \in S, NEW g \in [S -> S], NEW N \in Nat
    PROVE  Iterations(S, a, g, N) # {}
<1> DEFINE Iterable == {m \in Nat : \E f \in [0..m -> S] : f[0] = a /\ \A k \in 1..m : f[k] = g[f[k - 1]]}
<1>1. 0 \in Iterable
  <2>1. [k \in 0..0 |-> a] \in [0..0 -> S] /\ [k \in 0..0 |-> a][0] = a OBVIOUS
  <2>2. 1..0 = {} OBVIOUS
  <2>3. QED BY <2>1, <2>2
<1>2. ASSUME NEW m \in 1..N, m - 1 \in Iterable PROVE m \in Iterable
  <2>1. PICK f \in [0..m - 1 -> S] : f[0] = a /\ \A k \in 1..m - 1 : f[k] = g[f[k - 1]] BY <1>2
  <2> DEFINE h == [k \in 0..m |-> IF k = m THEN g[f[m - 1]] ELSE f[k]]
  <2>2. f[m - 1] \in S BY <2>1
  <2>3. h \in [0..m -> S]
    <3>1. ASSUME NEW k \in 0..m PROVE h[k] \in S
      BY <2>1, <2>2
    <3>2. QED BY <3>1
  <2>4. h[0] = a BY <2>1
  <2>5. ASSUME NEW k \in 1..m PROVE h[k] = g[h[k - 1]]
    <3>1. k - 1 \in 0..m /\ k - 1 # m /\ k - 1 \in 0..m - 1 OBVIOUS
    <3>2. h[k - 1] = f[k - 1] BY <3>1
    <3>3. CASE k = m BY <3>2, <3>3
    <3>4. CASE k # m
      <4>1. k \in 1..m - 1 /\ k \in 0..m BY <3>4
      <4>2. h[k] = f[k] BY <3>4, <4>1
      <4>3. QED BY <2>1, <4>1, <4>2, <3>2
    <3>5. QED BY <3>3, <3>4
  <2> HIDE DEF h
  <2>6. QED BY <2>3, <2>4, <2>5
<1>3. N \in Iterable
  <2> HIDE DEF Iterable
  <2>1. 0..N \subseteq Iterable BY <1>1, <1>2, UpTo
  <2>2. QED BY <2>1
<1>4. QED BY <1>3 DEF Iterations

-----------------------------------------------------------------------------
(* Values *)

LEMMA ElementAt ==
    ASSUME NEW S, NEW s \in Seq(S), NEW i \in DOMAIN s
    PROVE  s[i] \in S
OBVIOUS

\* What the type of a value says of its nodes and of the edges between them.
LEMMA ValueFacts ==
    ASSUME value \in ValueType
    PROVE  /\ Nodes \subseteq Nat \ {0} /\ 1 \in Nodes
           /\ value.thrown \subseteq Kinds /\ value.bound \subseteq Kinds
           /\ \A n \in Nodes :
                 /\ value.kind[n] \in {"wrapper", "struct", "list", "map", "plain"}
                 /\ value.rule[n] \in {"none", "pass", "fail", "panic"}
                 /\ value.groups[n] \in Seq(Seq(Nat))
                 /\ \A i \in DOMAIN value.groups[n] : value.groups[n][i] \in Seq(Nodes)
                 /\ Is(n, "wrapper") => value.rule[n] = "none" /\ (Nil(n) \/ \E m \in Nodes : value.groups[n] = <<<<m>>>>)
                 /\ Is(n, "plain") => Nil(n)
<1>1. value \in ValueShape /\ WellFormed(value) BY DEF ValueType
<1>2. /\ value.kind \in Seq({"wrapper", "struct", "list", "map", "plain"})
      /\ value.groups \in Seq(Seq(Seq(Nat)))
      /\ value.rule \in Seq({"none", "pass", "fail", "panic"})
      /\ value.thrown \subseteq Kinds /\ value.bound \subseteq Kinds
  BY <1>1 DEF ValueShape
<1>3. Nodes = 1..Len(value.kind) /\ Len(value.kind) \in Nat BY <1>2 DEF Nodes
<1>4. 1 \in Nodes /\ DOMAIN value.groups = Nodes /\ DOMAIN value.rule = Nodes BY <1>1 DEF WellFormed, Nodes
<1>5. ASSUME NEW n \in Nodes
      PROVE  /\ value.kind[n] \in {"wrapper", "struct", "list", "map", "plain"}
             /\ value.rule[n] \in {"none", "pass", "fail", "panic"}
             /\ value.groups[n] \in Seq(Seq(Nat))
  <2>1. n \in DOMAIN value.kind /\ n \in DOMAIN value.rule /\ n \in DOMAIN value.groups BY <1>4 DEF Nodes
  <2>2. QED BY <1>2, <2>1, ElementAt
<1>6. ASSUME NEW n \in Nodes
      PROVE  /\ \A i \in DOMAIN value.groups[n] : value.groups[n][i] \in Seq(Nodes)
             /\ Is(n, "wrapper") => value.rule[n] = "none" /\ (Nil(n) \/ \E m \in Nodes : value.groups[n] = <<<<m>>>>)
             /\ Is(n, "plain") => Nil(n)
  BY <1>1 DEF WellFormed, Nodes, Is, Nil
<1>7. Nodes \subseteq Nat \ {0} BY <1>3
<1>8. QED BY <1>2, <1>4, <1>5, <1>6, <1>7

\* Children are nodes; a wrapper leads to its target and to nothing else.
LEMMA ChildFacts ==
    ASSUME value \in ValueType, NEW n \in Nodes
    PROVE  /\ Children(n) \subseteq Nodes
           /\ Parts(n) \subseteq Children(n)
           /\ Nil(n) => Children(n) = {}
           /\ Wraps(n) => Target(n) \in Nodes /\ Children(n) = {Target(n)}
<1>1. Children(n) \subseteq Nodes
  <2>1. ASSUME NEW i \in DOMAIN value.groups[n], NEW j \in DOMAIN value.groups[n][i]
        PROVE  value.groups[n][i][j] \in Nodes
    BY ValueFacts, ElementAt
  <2>2. QED BY <2>1 DEF Children, ToSet
<1>2. Parts(n) \subseteq Children(n) BY DEF Parts
<1>3. Nil(n) => Children(n) = {}
  BY DEF Nil, Children
<1>4. ASSUME Wraps(n) PROVE Target(n) \in Nodes /\ Children(n) = {Target(n)}
  <2>1. PICK m \in Nodes : value.groups[n] = <<<<m>>>> BY <1>4, ValueFacts DEF Wraps
  <2>2. Target(n) = m BY <2>1 DEF Target
  <2>3. DOMAIN value.groups[n] = {1} /\ ToSet(value.groups[n][1]) = {m} BY <2>1 DEF ToSet
  <2>4. ~Is(n, "struct") BY <1>4 DEF Wraps, Is
  <2>5. Children(n) = {m} BY <2>3, <2>4 DEF Children
  <2>6. QED BY <2>2, <2>5
<1>5. QED BY <1>1, <1>2, <1>3, <1>4

-----------------------------------------------------------------------------
(* Wrappers *)

\* The equation of Unwrapped.
LEMMA UnwrappedDef ==
    ASSUME value \in ValueType, maxDepth \in Nat \ {0}
    PROVE  /\ Unwrapped \in [0..maxDepth -> [Nodes -> Nodes]]
           /\ \A n \in Nodes : Unwrapped[0][n] = n
           /\ \A k \in 1..maxDepth, n \in Nodes :
                 Unwrapped[k][n] = IF Wraps(Unwrapped[k - 1][n]) THEN Target(Unwrapped[k - 1][n]) ELSE Unwrapped[k - 1][n]
<1> DEFINE S == [Nodes -> Nodes]
           a == [n \in Nodes |-> n]
           Next1(h) == [n \in Nodes |-> LET m == h[n] IN IF Wraps(m) THEN Target(m) ELSE m]
           g == [h \in S |-> Next1(h)]
<1>1. a \in S OBVIOUS
<1>2. g \in [S -> S]
  <2>1. ASSUME NEW h \in S, NEW n \in Nodes
        PROVE  (IF Wraps(h[n]) THEN Target(h[n]) ELSE h[n]) \in Nodes
    <3>1. h[n] \in Nodes OBVIOUS
    <3>2. Wraps(h[n]) => Target(h[n]) \in Nodes BY <3>1, ChildFacts
    <3>3. QED BY <3>1, <3>2
  <2>2. QED BY <2>1
<1>3. PICK f \in Iterations(S, a, g, maxDepth) : TRUE
  <2> HIDE DEF S, a, g
  <2>1. maxDepth \in Nat OBVIOUS
  <2>2. QED BY <1>1, <1>2, <2>1, Iterates
<1>f. f \in [0..maxDepth -> S] /\ f[0] = a /\ \A k \in 1..maxDepth : f[k] = g[f[k - 1]]
  BY <1>3 DEF Iterations
<1>4. f = [k \in 0..maxDepth |-> IF k = 0 THEN a ELSE Next1(f[k - 1])]
  <2>1. ASSUME NEW k \in 0..maxDepth, k # 0 PROVE f[k] = Next1(f[k - 1])
    <3>1. k - 1 \in 0..maxDepth /\ k \in 1..maxDepth BY <2>1
    <3>2. f[k - 1] \in S BY <3>1, <1>f
    <3>3. g[f[k - 1]] = Next1(f[k - 1]) BY <3>2
    <3>4. QED BY <1>f, <3>1, <3>3
  <2> HIDE DEF a, g, Next1
  <2>2. ASSUME NEW k \in 0..maxDepth PROVE f[k] = IF k = 0 THEN a ELSE Next1(f[k - 1])
    BY <1>f, <2>1
  <2>3. QED BY <2>2, <1>f
<1>5. Unwrapped = [k \in 0..maxDepth |-> IF k = 0 THEN a ELSE Next1(Unwrapped[k - 1])]
  BY <1>4 DEF Unwrapped
<1>6. ASSUME NEW h, h = [k \in 0..maxDepth |-> IF k = 0 THEN a ELSE Next1(h[k - 1])]
      PROVE  h \in [0..maxDepth -> S]
  <2> DEFINE Good == {k \in 0..maxDepth : h[k] \in S}
  <2>1. 0 \in Good BY <1>6
  <2>2. ASSUME NEW k \in 1..maxDepth, k - 1 \in Good PROVE k \in Good
    <3>1. h[k] = Next1(h[k - 1])
      <4> HIDE DEF a, Next1
      <4>1. k \in 0..maxDepth /\ k # 0 OBVIOUS
      <4>2. QED BY <1>6, <4>1
    <3>2. h[k - 1] \in S BY <2>2
    <3>3. Next1(h[k - 1]) = g[h[k - 1]] BY <3>2
    <3>4. g[h[k - 1]] \in S BY <1>2, <3>2
    <3> HIDE DEF S, a, g, Next1
    <3>5. QED BY <3>1, <3>3, <3>4
  <2>3. 0..maxDepth \subseteq Good
    <3> HIDE DEF Good
    <3>1. maxDepth \in Nat OBVIOUS
    <3>2. QED BY <2>1, <2>2, <3>1, UpTo
  <2>4. DOMAIN h = 0..maxDepth BY <1>6
  <2>5. QED BY <1>6, <2>3, <2>4
<1>7. Unwrapped \in [0..maxDepth -> S]
  <2> HIDE DEF S, a, Next1
  <2>1. QED BY <1>5, <1>6
<1>8. \A n \in Nodes : Unwrapped[0][n] = n
  <2>1. Unwrapped[0] = a BY <1>5
  <2>2. QED BY <2>1
<1>9. ASSUME NEW k \in 1..maxDepth, NEW n \in Nodes
      PROVE  Unwrapped[k][n] = IF Wraps(Unwrapped[k - 1][n]) THEN Target(Unwrapped[k - 1][n]) ELSE Unwrapped[k - 1][n]
  <2>1. Unwrapped[k] = Next1(Unwrapped[k - 1])
    <3> HIDE DEF a, Next1
    <3>1. QED BY <1>5
  <2>2. QED BY <2>1
<1>10. QED BY <1>7, <1>8, <1>9

Typed == value \in ValueType /\ maxDepth \in Nat \ {0}

\* What is left when a node is no wrapper any more is left for good.
LEMMA Settled ==
    ASSUME Typed, NEW n \in Nodes, NEW k \in 0..maxDepth, ~Wraps(Unwrapped[k][n])
    PROVE  Unwrapped[maxDepth][n] = Unwrapped[k][n]
<1> DEFINE T == {i \in 0..maxDepth - k : Unwrapped[k + i][n] = Unwrapped[k][n]}
<1>0. maxDepth \in Nat /\ k \in Nat /\ k <= maxDepth /\ maxDepth - k \in Nat BY DEF Typed
<1>1. 0 \in T
  <2>1. k + 0 = k /\ 0 \in 0..maxDepth - k BY <1>0
  <2>2. QED BY <2>1
<1>2. ASSUME NEW i \in 1..maxDepth - k, i - 1 \in T PROVE i \in T
  <2>1. k + i \in 1..maxDepth /\ (k + i) - 1 = k + (i - 1) /\ i \in 0..maxDepth - k BY <1>0
  <2>2. Unwrapped[k + (i - 1)][n] = Unwrapped[k][n] BY <1>2
  <2>3. Unwrapped[k + i][n] = IF Wraps(Unwrapped[k + (i - 1)][n]) THEN Target(Unwrapped[k + (i - 1)][n]) ELSE Unwrapped[k + (i - 1)][n]
    BY <2>1, UnwrappedDef DEF Typed
  <2>4. Unwrapped[k + i][n] = Unwrapped[k][n] BY <2>2, <2>3
  <2>5. QED BY <2>1, <2>4
<1>3. 0..maxDepth - k \subseteq T
  <2> HIDE DEF T
  <2>1. QED BY <1>0, <1>1, <1>2, UpTo
<1>4. maxDepth - k \in 0..maxDepth - k /\ k + (maxDepth - k) = maxDepth BY <1>0
<1>5. maxDepth - k \in T BY <1>3, <1>4
<1>6. QED BY <1>4, <1>5

\* A wrapper is one step further from the end of its chain than its target.
LEMMA Shifted ==
    ASSUME Typed, NEW n \in Nodes, Wraps(n), NEW k \in 1..maxDepth
    PROVE  Unwrapped[k - 1][Target(n)] = Unwrapped[k][n]
<1> DEFINE T == {i \in 0..maxDepth - 1 : Unwrapped[i][Target(n)] = Unwrapped[i + 1][n]}
<1>0. maxDepth \in Nat /\ maxDepth - 1 \in Nat /\ Target(n) \in Nodes BY ChildFacts DEF Typed
<1>1. 0 \in T
  <2>1. 1 \in 1..maxDepth /\ 0 \in 0..maxDepth - 1 /\ 1 - 1 = 0 /\ 0 + 1 = 1 BY <1>0
  <2>2. Unwrapped[0][Target(n)] = Target(n) /\ Unwrapped[0][n] = n BY <1>0, UnwrappedDef DEF Typed
  <2>3. Unwrapped[1][n] = IF Wraps(Unwrapped[1 - 1][n]) THEN Target(Unwrapped[1 - 1][n]) ELSE Unwrapped[1 - 1][n]
    BY <2>1, UnwrappedDef DEF Typed
  <2>4. QED BY <2>1, <2>2, <2>3
<1>2. ASSUME NEW i \in 1..maxDepth - 1, i - 1 \in T PROVE i \in T
  <2>1. /\ i \in 1..maxDepth /\ i + 1 \in 1..maxDepth /\ i \in 0..maxDepth - 1
        /\ (i + 1) - 1 = i /\ (i - 1) + 1 = i BY <1>0
  <2>2. Unwrapped[i - 1][Target(n)] = Unwrapped[(i - 1) + 1][n] BY <1>2
  <2>3. Unwrapped[i][Target(n)] = IF Wraps(Unwrapped[i - 1][Target(n)]) THEN Target(Unwrapped[i - 1][Target(n)]) ELSE Unwrapped[i - 1][Target(n)]
    BY <1>0, <2>1, UnwrappedDef DEF Typed
  <2>4. Unwrapped[i + 1][n] = IF Wraps(Unwrapped[(i + 1) - 1][n]) THEN Target(Unwrapped[(i + 1) - 1][n]) ELSE Unwrapped[(i + 1) - 1][n]
    BY <2>1, UnwrappedDef DEF Typed
  <2>5. Unwrapped[i][Target(n)] = Unwrapped[i + 1][n] BY <2>1, <2>2, <2>3, <2>4
  <2>6. QED BY <2>1, <2>5
<1>3. 0..maxDepth - 1 \subseteq T
  <2> HIDE DEF T
  <2>1. QED BY <1>0, <1>1, <1>2, UpTo
<1>4. k - 1 \in 0..maxDepth - 1 /\ (k - 1) + 1 = k BY <1>0
<1>5. k - 1 \in T BY <1>3, <1>4
<1>6. QED BY <1>4, <1>5

\* Inside, from any point of the chain where the wrappers are gone.
LEMMA InsideSettled ==
    ASSUME Typed, NEW n \in Nodes, NEW k \in 0..maxDepth, ~Wraps(Unwrapped[k][n])
    PROVE  Inside(n) = IF Is(Unwrapped[k][n], "wrapper") THEN Nothing ELSE Unwrapped[k][n]
<1>1. Unwrapped[maxDepth][n] = Unwrapped[k][n] BY Settled
<1>2. Is(Unwrapped[k][n], "wrapper") => Nil(Unwrapped[k][n]) BY DEF Wraps
<1>3. QED BY <1>1, <1>2 DEF Inside

LEMMA InsideFacts ==
    ASSUME Typed, NEW n \in Nodes
    PROVE  /\ Wraps(Unwrapped[maxDepth][n]) <=> Inside(n) = Endless
           /\ Inside(n) \in Nodes \cup {Nothing, Endless}
           /\ Inside(n) \in Nodes => ~Is(Inside(n), "wrapper") /\ ~Wraps(Inside(n))
           /\ ~Is(n, "wrapper") => Inside(n) = n
           /\ Is(n, "wrapper") /\ Nil(n) => Inside(n) = Nothing
           /\ Wraps(n) /\ Inside(n) # Endless => Inside(Target(n)) = Inside(n)
           /\ Nothing \notin Nodes /\ Endless \notin Nodes /\ Nothing # Endless
<1> DEFINE end == Unwrapped[maxDepth][n]
<1>0. maxDepth \in Nat /\ maxDepth \in 0..maxDepth /\ 0 \in 0..maxDepth /\ maxDepth \in 1..maxDepth /\ maxDepth - 1 \in 0..maxDepth
  BY DEF Typed
<1>1. end \in Nodes BY <1>0, UnwrappedDef DEF Typed
<1>2. Nothing \notin Nodes /\ Endless \notin Nodes /\ Nothing # Endless BY ValueFacts DEF Typed, Nothing, Endless
<1>3. Wraps(end) => Inside(n) = Endless BY DEF Inside, Wraps
<1>4. ~Wraps(end) => Inside(n) = IF Is(end, "wrapper") THEN Nothing ELSE end BY <1>0, InsideSettled
<1>5. Unwrapped[0][n] = n BY UnwrappedDef DEF Typed
<1>6. ~Is(n, "wrapper") => Inside(n) = n BY <1>0, <1>5, InsideSettled DEF Wraps
<1>7. Is(n, "wrapper") /\ Nil(n) => Inside(n) = Nothing BY <1>0, <1>5, InsideSettled DEF Wraps
<1>8. ASSUME Wraps(n), Inside(n) # Endless PROVE Inside(Target(n)) = Inside(n)
  <2>1. ~Wraps(end) BY <1>3, <1>8
  <2>2. Target(n) \in Nodes BY <1>8, ChildFacts DEF Typed
  <2>3. Unwrapped[maxDepth - 1][Target(n)] = end BY <1>0, <1>8, Shifted
  <2>4. Inside(Target(n)) = IF Is(end, "wrapper") THEN Nothing ELSE end BY <1>0, <2>1, <2>2, <2>3, InsideSettled
  <2>5. QED BY <2>1, <2>4, <1>4
<1>9. Inside(n) \in Nodes \cup {Nothing, Endless} BY <1>1, <1>3, <1>4
<1>10. Inside(n) \in Nodes => ~Is(Inside(n), "wrapper") /\ ~Wraps(Inside(n)) BY <1>2, <1>3, <1>4 DEF Wraps
<1>11. Wraps(end) <=> Inside(n) = Endless BY <1>1, <1>2, <1>3, <1>4
<1>12. QED BY <1>2, <1>6, <1>7, <1>8, <1>9, <1>10, <1>11

\* The equation of Nested.
LEMMA NestedDef ==
    ASSUME Typed
    PROVE  /\ Nested[0] = {Inside(1)}
           /\ \A d \in 1..maxDepth + 1 :
                 Nested[d] = UNION {{Inside(m) : m \in Parts(n)} : n \in Nested[d - 1] \ {Nothing, Endless}}
           /\ \A d \in 0..maxDepth + 1 : Nested[d] \subseteq Nodes \cup {Nothing, Endless}
<1> DEFINE S == SUBSET (Nodes \cup {Nothing, Endless})
           a == {Inside(1)}
           Below(h) == UNION {{Inside(m) : m \in Parts(n)} : n \in h \ {Nothing, Endless}}
           g == [h \in S |-> Below(h)]
           N == maxDepth + 1
<1>0. N \in Nat BY DEF Typed
<1>1. a \in S BY InsideFacts, ValueFacts DEF Typed
<1>2. ASSUME NEW h \in S PROVE Below(h) \in S
  <2>1. ASSUME NEW n \in h \ {Nothing, Endless}, NEW m \in Parts(n) PROVE Inside(m) \in Nodes \cup {Nothing, Endless}
    <3>1. n \in Nodes OBVIOUS
    <3>2. m \in Nodes BY <3>1, ChildFacts DEF Typed
    <3>3. QED BY <3>2, InsideFacts
  <2>2. QED BY <2>1
<1>3. g \in [S -> S] /\ \A h \in S : g[h] = Below(h)
  <2> HIDE DEF S, Below
  <2>1. QED BY <1>2
<1> HIDE DEF S, a, g, Below, N
<1>4. PICK f \in Iterations(S, a, g, N) : TRUE
  BY <1>0, <1>1, <1>3, Iterates
<1>5. f \in [0..N -> S] /\ f[0] = a /\ \A k \in 1..N : f[k] = g[f[k - 1]]
  BY <1>4 DEF Iterations
<1>6. ASSUME NEW k \in 0..N PROVE f[k] = IF k = 0 THEN a ELSE Below(f[k - 1])
  <2>1. CASE k = 0 BY <2>1, <1>5
  <2>2. CASE k # 0
    <3>1. k - 1 \in 0..N /\ k \in 1..N BY <1>0, <2>2
    <3>2. f[k - 1] \in S BY <3>1, <1>5
    <3>3. g[f[k - 1]] = Below(f[k - 1]) BY <3>2, <1>3
    <3>4. QED BY <1>5, <3>1, <3>3, <2>2
  <2>3. QED BY <2>1, <2>2
<1>7. f = [k \in 0..N |-> IF k = 0 THEN a ELSE Below(f[k - 1])] BY <1>5, <1>6
<1>8. Nested = [k \in 0..N |-> IF k = 0 THEN a ELSE Below(Nested[k - 1])]
  BY <1>7 DEF Nested, N, a, Below
<1>9. Nested[0] = a /\ \A k \in 1..N : Nested[k] = Below(Nested[k - 1])
  <2>1. 0 \in 0..N BY <1>0
  <2>2. ASSUME NEW k \in 1..N PROVE Nested[k] = Below(Nested[k - 1])
    <3>1. k \in 0..N /\ k # 0 BY <1>0
    <3>2. QED BY <1>8, <3>1
  <2>3. QED BY <1>8, <2>1, <2>2
<1> DEFINE Good == {k \in 0..N : Nested[k] \in S}
<1>10. 0 \in Good BY <1>0, <1>1, <1>9
<1>11. ASSUME NEW k \in 1..N, k - 1 \in Good PROVE k \in Good
  <2>1. k \in 0..N BY <1>0
  <2>2. QED BY <1>2, <1>9, <1>11, <2>1
<1>12. 0..N \subseteq Good
  <2> HIDE DEF Good
  <2>1. QED BY <1>0, <1>10, <1>11, UpTo
<1>13. QED BY <1>9, <1>12 DEF S, a, Below, N

-----------------------------------------------------------------------------
(* What an accepting walk leaves behind *)

\* A record of the calls that returned: the objects of W[d] passed, d deep, and
\* whatever they lead to passed one deeper or is nothing.
Sound(W) ==
    /\ W \in [0..maxDepth + 1 -> SUBSET Nodes]
    /\ W[maxDepth + 1] = {}
    /\ \A d \in 0..maxDepth : \A o \in W[d] : o \in checked /\ \A c \in Parts(o) : Inside(c) \in W[d + 1] \cup {Nothing}

Passed == \A c \in checked : c \in Nodes /\ ~Is(c, "wrapper") /\ value.rule[c] \in {"none", "pass"}

\* With such a record of the root, the value is within both limits.
LEMMA RecordWithin ==
    ASSUME Typed, NEW W, Sound(W), Inside(1) \in W[0] \cup {Nothing}
    PROVE  WithinLimits
<1> DEFINE T == {d \in 0..maxDepth + 1 : Nested[d] \subseteq W[d] \cup {Nothing}}
<1>0. maxDepth + 1 \in Nat /\ maxDepth \in Nat BY DEF Typed
<1>1. 0 \in T BY <1>0, NestedDef
<1>2. ASSUME NEW d \in 1..maxDepth + 1, d - 1 \in T PROVE d \in T
  <2>1. d - 1 \in 0..maxDepth /\ (d - 1) + 1 = d /\ d \in 0..maxDepth + 1 BY <1>0
  <2>2. Nested[d - 1] \subseteq W[d - 1] \cup {Nothing} BY <1>2
  <2>3. Nested[d] = UNION {{Inside(m) : m \in Parts(n)} : n \in Nested[d - 1] \ {Nothing, Endless}} BY NestedDef
  <2>4. ASSUME NEW n \in W[d - 1], NEW m \in Parts(n) PROVE Inside(m) \in W[d] \cup {Nothing}
    BY <2>1, <2>4 DEF Sound
  <2>5. ASSUME NEW x \in Nested[d] PROVE x \in W[d] \cup {Nothing}
    <3>1. PICK n \in Nested[d - 1] \ {Nothing, Endless} : x \in {Inside(m) : m \in Parts(n)} BY <2>3
    <3>2. n \in W[d - 1] BY <2>2, <3>1
    <3>3. PICK m \in Parts(n) : x = Inside(m) BY <3>1
    <3>4. QED BY <2>4, <3>2, <3>3
  <2>6. QED BY <2>1, <2>5
<1>3. 0..maxDepth + 1 \subseteq T
  <2> HIDE DEF T
  <2>1. QED BY <1>0, <1>1, <1>2, UpTo
<1>4. \A d \in 0..maxDepth + 1 : Nested[d] \subseteq W[d] \cup {Nothing} BY <1>3
<1>5. \A d \in 0..maxDepth + 1 : W[d] \subseteq Nodes BY DEF Sound
<1>6. Endless \notin Nodes /\ Nothing # Endless BY InsideFacts, ValueFacts DEF Typed
<1>7. \A d \in 0..maxDepth + 1 : Endless \notin Nested[d] BY <1>4, <1>5, <1>6
<1>8. Nested[maxDepth + 1] \subseteq {Nothing}
  <2>1. maxDepth + 1 \in 0..maxDepth + 1 BY <1>0
  <2>2. QED BY <1>4, <2>1 DEF Sound
<1>9. QED BY <1>7, <1>8 DEF WithinLimits

\* Nodes of which nothing is left, or something recorded d deep or deeper, and
\* fields that are no objects.
From(W, d) == {m \in Nodes : \/ Inside(m) = Nothing
                             \/ \E e \in d..maxDepth : Inside(m) \in W[e]
                             \/ Is(m, "plain") /\ value.rule[m] = "none"}

LEMMA FromFacts ==
    ASSUME Typed, NEW W, Sound(W)
    PROVE  /\ \A e \in 0..maxDepth : \A o \in W[e] : Children(o) \subseteq From(W, e + 1)
           /\ \A d \in 0..maxDepth + 1 : Closed(From(W, d))
<1>0. maxDepth \in Nat BY DEF Typed
<1>1. ASSUME NEW e \in 0..maxDepth, NEW o \in W[e], NEW c \in Children(o) PROVE c \in From(W, e + 1)
  <2>1. o \in Nodes BY <1>0 DEF Sound
  <2>2. c \in Nodes BY <2>1, ChildFacts DEF Typed
  <2>3. CASE c \in Parts(o)
    <3>1. Inside(c) \in W[e + 1] \cup {Nothing} BY <2>3 DEF Sound
    <3>2. e + 1 = maxDepth + 1 \/ e + 1 \in e + 1..maxDepth BY <1>0
    <3>3. Inside(c) = Nothing \/ \E x \in e + 1..maxDepth : Inside(c) \in W[x] BY <3>1, <3>2 DEF Sound
    <3>4. QED BY <2>2, <3>3 DEF From
  <2>4. CASE c \notin Parts(o)
    <3>1. Is(c, "plain") /\ value.rule[c] = "none" BY <2>4 DEF Parts
    <3>2. QED BY <2>2, <3>1 DEF From
  <2>5. QED BY <2>3, <2>4
<1>2. ASSUME NEW d \in 0..maxDepth + 1, NEW m \in From(W, d), NEW c \in Children(m) PROVE c \in From(W, d)
  <2>1. m \in Nodes /\ (Inside(m) = Nothing \/ (\E e \in d..maxDepth : Inside(m) \in W[e]) \/ (Is(m, "plain") /\ value.rule[m] = "none"))
    BY DEF From
  <2>2. ~Nil(m) BY <2>1, ChildFacts DEF Typed
  <2>3. ~Is(m, "plain") BY <2>1, <2>2, ValueFacts DEF Typed
  <2>4. Inside(m) # Endless
    <3>1. \A e \in d..maxDepth : W[e] \subseteq Nodes BY <1>0 DEF Sound
    <3>2. QED BY <2>1, <2>3, <3>1, InsideFacts
  <2>5. CASE Is(m, "wrapper")
    <3>1. Wraps(m) BY <2>2, <2>5 DEF Wraps
    <3>2. c = Target(m) /\ c \in Nodes BY <2>1, <3>1, ChildFacts DEF Typed
    <3>3. Inside(c) = Inside(m) BY <2>1, <2>4, <3>1, <3>2, InsideFacts
    <3>4. QED BY <2>1, <2>3, <3>2, <3>3 DEF From
  <2>6. CASE ~Is(m, "wrapper")
    <3>1. Inside(m) = m /\ m # Nothing BY <2>1, <2>6, InsideFacts
    <3>2. PICK e \in d..maxDepth : m \in W[e] BY <2>1, <2>3, <3>1
    <3>3. e \in 0..maxDepth /\ e + 1..maxDepth \subseteq d..maxDepth BY <1>0
    <3>4. c \in From(W, e + 1) BY <1>1, <3>2, <3>3
    <3>5. QED BY <3>3, <3>4 DEF From
  <2>7. QED BY <2>5, <2>6
<1>3. QED BY <1>1, <1>2 DEF Closed

\* A set that holds the children of n and its own holds all n leads to.
LEMMA ReachedWithin ==
    ASSUME NEW n, NEW nodes \in SUBSET Nodes, Children(n) \subseteq nodes, Closed(nodes)
    PROVE  ReachedFrom(n) \subseteq nodes
BY DEF ReachedFrom

\* No recorded node leads back to itself.
LEMMA RecordAcyclic ==
    ASSUME Typed, NEW W, Sound(W), NEW n \in From(W, 0)
    PROVE  n \notin ReachedFrom(n)
<1>0. maxDepth \in Nat /\ n \in Nodes BY DEF Typed, From
<1>a. \A d \in 0..maxDepth + 1 : From(W, d) \in SUBSET Nodes BY DEF From
<1>1. CASE Nil(n)
  <2>1. Children(n) = {} BY <1>0, <1>1, ChildFacts DEF Typed
  <2>2. Closed({}) BY DEF Closed
  <2>3. ReachedFrom(n) \subseteq {} BY <2>1, <2>2, ReachedWithin
  <2>4. QED BY <2>3
<1>2. ASSUME ~Nil(n) PROVE n \notin ReachedFrom(n)
  <2> DEFINE o == Inside(n)
             Ends == {k \in 0..maxDepth : ~Wraps(Unwrapped[k][n])}
  <2>1. ~Is(n, "plain") BY <1>0, <1>2, ValueFacts DEF Typed
  <2>2. o = Nothing \/ \E e \in 0..maxDepth : o \in W[e] BY <2>1 DEF From
  <2>3. o # Endless
    <3>1. \A e \in 0..maxDepth : W[e] \subseteq Nodes BY <1>0 DEF Sound
    <3>2. QED BY <2>2, <3>1, <1>0, InsideFacts
  <2>4. PICK k \in Ends : \A j \in Ends : k <= j
    <3>1. maxDepth \in 0..maxDepth BY <1>0
    <3>2. maxDepth \in Ends BY <1>0, <2>3, <3>1, InsideFacts
    <3>3. Ends \in SUBSET Nat BY <1>0
    <3> HIDE DEF Ends
    <3>4. QED BY <3>2, <3>3, LeastNatural
  <2> DEFINE Chain == {m \in Nodes : Inside(m) = o /\ \E j \in 0..maxDepth : j < k /\ ~Wraps(Unwrapped[j][m])}
  <2>5. n \notin Chain
    <3>1. \A j \in 0..maxDepth : j < k => Wraps(Unwrapped[j][n]) BY <2>4
    <3>2. QED BY <3>1
  <2>6. ASSUME NEW m \in Nodes, Wraps(m), Inside(m) = o,
               NEW j \in 0..maxDepth, j <= k, ~Wraps(Unwrapped[j][m])
        PROVE  Target(m) \in Chain
    <3>1. Unwrapped[0][m] = m BY UnwrappedDef DEF Typed
    <3>2. j \in 1..maxDepth /\ j - 1 \in 0..maxDepth /\ j - 1 < k BY <1>0, <2>4, <2>6, <3>1
    <3>3. Unwrapped[j - 1][Target(m)] = Unwrapped[j][m] BY <2>6, <3>2, Shifted
    <3>4. Target(m) \in Nodes /\ Inside(Target(m)) = o BY <2>3, <2>6, ChildFacts, InsideFacts DEF Typed
    <3>5. QED BY <2>6, <3>2, <3>3, <3>4
  <2>7. Wraps(n) => Children(n) \subseteq Chain
    <3>1. k <= k BY <2>4
    <3>2. Wraps(n) => Target(n) \in Chain BY <1>0, <2>4, <2>6, <3>1
    <3>3. QED BY <1>0, <3>2, ChildFacts DEF Typed
  <2>8. ASSUME NEW m \in Chain, Wraps(m) PROVE Children(m) \subseteq Chain
    <3>1. PICK j \in 0..maxDepth : j < k /\ ~Wraps(Unwrapped[j][m]) BY <2>8
    <3>2. j <= k BY <1>0, <2>4, <3>1
    <3>3. Target(m) \in Chain BY <2>6, <2>8, <3>1, <3>2
    <3>4. QED BY <2>8, <3>3, ChildFacts DEF Typed
  <2>9. ASSUME NEW m \in Chain, ~Wraps(m) PROVE Children(m) = {} \/ (m = o /\ o # Nothing)
    <3>1. CASE Is(m, "wrapper")
      <4>1. Nil(m) BY <2>9, <3>1 DEF Wraps
      <4>2. QED BY <4>1, ChildFacts DEF Typed
    <3>2. CASE ~Is(m, "wrapper") BY <2>9, <3>2, InsideFacts
    <3>3. QED BY <3>1, <3>2
  <2>10. CASE o = Nothing
    <3>1. Wraps(n)
      <4>1. Is(n, "wrapper") BY <1>0, <2>10, InsideFacts
      <4>2. QED BY <1>2, <4>1 DEF Wraps
    <3>2. Closed(Chain)
      <4>1. ASSUME NEW m \in Chain PROVE Children(m) \subseteq Chain BY <2>8, <2>9, <2>10
      <4> HIDE DEF Chain
      <4>2. QED BY <4>1 DEF Closed
    <3>3. ReachedFrom(n) \subseteq Chain
      <4>1. Chain \in SUBSET Nodes OBVIOUS
      <4> HIDE DEF Chain
      <4>2. QED BY <2>7, <3>1, <3>2, <4>1, ReachedWithin
    <3>4. QED BY <2>5, <3>3
  <2>11. CASE o # Nothing
    <3> DEFINE Depths == {e \in 0..maxDepth : o \in W[e]}
    <3>1. PICK d \in Depths : \A e \in Depths : e <= d
      <4>1. Depths # {} /\ Depths \in SUBSET (0..maxDepth) BY <2>2, <2>11
      <4> HIDE DEF Depths
      <4>2. QED BY <1>0, <4>1, GreatestNatural
    <3>2. d \in 0..maxDepth /\ o \in W[d] /\ d + 1 \in 0..maxDepth + 1 BY <1>0, <3>1
    <3>3. Children(o) \subseteq From(W, d + 1) /\ Closed(From(W, d + 1)) BY <3>2, FromFacts
    <3>4. n \notin From(W, d + 1)
      <4>1. \A e \in d + 1..maxDepth : o \notin W[e]
        <5>1. ASSUME NEW e \in d + 1..maxDepth, o \in W[e] PROVE FALSE
          <6>1. e \in Depths BY <1>0, <3>2, <5>1
          <6>2. e <= d BY <3>1, <6>1
          <6>3. QED BY <1>0, <3>2, <6>2
        <5>2. QED BY <5>1
      <4>2. QED BY <2>1, <2>11, <4>1 DEF From
    <3> DEFINE Beyond == Chain \cup From(W, d + 1)
    <3>5. Closed(Beyond)
      <4>1. ASSUME NEW m \in Chain PROVE Children(m) \subseteq Beyond BY <2>8, <2>9, <3>3
      <4>2. ASSUME NEW m \in From(W, d + 1) PROVE Children(m) \subseteq Beyond BY <3>3 DEF Closed
      <4> HIDE DEF Chain
      <4>3. QED BY <4>1, <4>2 DEF Closed
    <3>6. Children(n) \subseteq Beyond
      <4>1. CASE Wraps(n) BY <2>7, <4>1
      <4>2. CASE ~Wraps(n)
        <5>1. ~Is(n, "wrapper") BY <1>2, <4>2 DEF Wraps
        <5>2. n = o BY <1>0, <5>1, InsideFacts
        <5>3. QED BY <3>3, <5>2
      <4>3. QED BY <4>1, <4>2
    <3>7. ReachedFrom(n) \subseteq Beyond
      <4>1. Beyond \in SUBSET Nodes BY <1>a, <3>2
      <4> HIDE DEF Beyond
      <4>2. QED BY <3>5, <3>6, <4>1, ReachedWithin
    <3>8. QED BY <2>5, <3>4, <3>7
  <2>12. QED BY <2>10, <2>11
<1>3. QED BY <1>1, <1>2

\* With a record of the root, nothing the value leads to was skipped.
LEMMA RecordComplete ==
    ASSUME Typed, Passed, NEW W, Sound(W), Inside(1) \in W[0] \cup {Nothing}
    PROVE  \A n \in {1} \cup ReachedFrom(1) :
              /\ value.rule[n] # "none" => value.rule[n] = "pass" /\ n \in checked
              /\ n \notin ReachedFrom(n)
<1>0. maxDepth \in Nat /\ 1 \in Nodes BY ValueFacts DEF Typed
<1>1. 0 \in 0..maxDepth /\ 0 \in 0..maxDepth + 1 BY <1>0
<1>2. 1 \in From(W, 0) BY <1>0, <1>1 DEF From
<1>3. Closed(From(W, 0)) BY <1>1, FromFacts
<1>4. Children(1) \subseteq From(W, 0) BY <1>2, <1>3 DEF Closed
<1>5. From(W, 0) \in SUBSET Nodes BY DEF From
<1>6. {1} \cup ReachedFrom(1) \subseteq From(W, 0) BY <1>2, <1>3, <1>4, <1>5, ReachedWithin
<1>7. ASSUME NEW n \in From(W, 0), value.rule[n] # "none" PROVE value.rule[n] = "pass" /\ n \in checked
  <2>1. n \in Nodes /\ (Inside(n) = Nothing \/ \E e \in 0..maxDepth : Inside(n) \in W[e]) BY <1>7 DEF From
  <2>2. ~Is(n, "wrapper") BY <1>7, <2>1, ValueFacts DEF Typed
  <2>3. Inside(n) = n /\ n # Nothing BY <2>1, <2>2, InsideFacts
  <2>4. n \in checked BY <2>1, <2>3 DEF Sound
  <2>5. QED BY <1>7, <2>4 DEF Passed
<1>8. QED BY <1>6, <1>7, RecordAcyclic

-----------------------------------------------------------------------------
(* The inductive invariant *)

\* The children frame i has to walk, those it has yet to begin, and the one that
\* is being walked. Frame 0 stands for Validate, whose only child is the root.
Candidates(i) == IF i = 0 THEN {1} ELSE Parts(stack[i].of)
Pending(i) == IF i = 0 THEN {}
              ELSE ToSet(stack[i].now) \cup UNION {ToSet(value.groups[stack[i].of][g]) : g \in stack[i].later}
InHand(i, c) == IF i < Len(stack) THEN Inside(c) = stack[i + 1].of
                ELSE phase \in {"bind", "walk", "validate"} /\ Unwrapped[steps][c] = at

\* A call is as deep as its frame, and what it has to walk are members of its object.
Members(n) == UNION {ToSet(value.groups[n][g]) : g \in DOMAIN value.groups[n]}
Placed ==
    \A i \in DOMAIN stack :
        /\ stack[i].of \in Nested[i - 1] \cap checked
        /\ stack[i].later \subseteq DOMAIN value.groups[stack[i].of]
        /\ ToSet(stack[i].now) \subseteq Members(stack[i].of)

\* The node being walked is what steps left of a child of the topmost frame.
Walking ==
    phase \in {"bind", "walk", "validate"} =>
        /\ \E c \in Candidates(Len(stack)) : Unwrapped[steps][c] = at
        /\ phase = "validate" => ~Is(at, "wrapper") /\ Len(stack) <= maxDepth

\* Every child of every frame is pending, passed or in hand.
Covered(W) == \A i \in 0..Len(stack) : \A c \in Candidates(i) :
                 c \in Pending(i) \/ Inside(c) \in W[i] \cup {Nothing} \/ InHand(i, c)
Recorded == failure = "none" => \E W : Sound(W) /\ Covered(W)

\* What ended the validation, what is known of it, and what was answered.
Ended ==
    /\ failure = "none" <=> phase \in {"bind", "walk", "validate", "children"} \/ status = 200
    /\ phase = "answered" => IF failure = "none" THEN status = 200 /\ stack = <<>>
                             ELSE status = RequestStatus(error) /\ (recorded <=> status >= 500)
    /\ status = 200 => phase = "answered"
    /\ failure = "depth" => error = {"max depth"} /\ ~WithinLimits
    /\ failure = "rule" => error = value.thrown
    /\ failure = "panic" => error = PanicKinds
    /\ failure \in {"rule", "panic"} =>
          /\ value.rule[at] = (IF failure = "rule" THEN "fail" ELSE "panic")
          /\ at = Inside(1) \/ \E n \in checked : \E m \in Children(n) : at = Inside(m)

ValidatorInv == TypeOK /\ Placed /\ Passed /\ Walking /\ Recorded /\ Ended

-----------------------------------------------------------------------------
(* What only the value and the limit decide *)

LEMMA Same ==
    ASSUME value' = value, maxDepth' = maxDepth
    PROVE  /\ Nodes' = Nodes
           /\ Unwrapped' = Unwrapped
           /\ Nested' = Nested
           /\ WithinLimits' = WithinLimits
           /\ \A n : Inside(n)' = Inside(n)
           /\ \A n : Children(n)' = Children(n)
           /\ \A n : Parts(n)' = Parts(n)
           /\ \A n : Members(n)' = Members(n)
<1>1. Nodes' = Nodes BY DEF Nodes
<1>2. \A n : Wraps(n)' = Wraps(n) /\ Target(n)' = Target(n) BY DEF Wraps, Target, Is, Nil
<1>3. Unwrapped' = Unwrapped BY <1>1 DEF Unwrapped, Wraps, Target, Is, Nil
<1>4. \A n : Inside(n)' = Inside(n) BY <1>3 DEF Inside, Is, Nil
<1>5. \A n : Children(n)' = Children(n) BY DEF Children, Is
<1>6. \A n : Parts(n)' = Parts(n) BY <1>5 DEF Parts, Is
<1>7. Nested' = Nested BY <1>3 DEF Nested, Inside, Parts, Children, Is, Nil, Nothing, Endless
<1>8. WithinLimits' = WithinLimits BY <1>7 DEF WithinLimits, Nothing, Endless
<1>9. \A n : Members(n)' = Members(n) BY DEF Members
<1>10. QED BY <1>1, <1>3, <1>4, <1>5, <1>6, <1>7, <1>8, <1>9

-----------------------------------------------------------------------------
(* The walk *)

LEMMA TypeFacts ==
    ASSUME TypeOK
    PROVE  /\ Typed /\ maxDepth \in Nat /\ maxDepth + 1 \in Nat
           /\ steps \in 0..maxDepth /\ at \in Nodes
           /\ stack \in Seq(FrameType) /\ Len(stack) \in Nat /\ DOMAIN stack = 1..Len(stack)
           /\ Len(stack) \in 0..maxDepth + 1
           /\ stack # <<>> => Len(stack) \in 1..Len(stack) /\ Len(stack) - 1 \in 0..maxDepth
           /\ stack = <<>> <=> Len(stack) = 0
           /\ \A i \in 1..Len(stack) : stack[i] \in FrameType /\ stack[i].of \in Nodes /\ stack[i].now \in Seq(Nodes)
<1>1. value \in ValueType /\ maxDepth \in Nat \ {0} /\ stack \in Seq(FrameType) /\ Len(stack) <= maxDepth + 1
      /\ steps \in 0..maxDepth /\ at \in Nodes BY DEF TypeOK
<1>2. Len(stack) \in Nat /\ DOMAIN stack = 1..Len(stack) /\ (stack = <<>> <=> Len(stack) = 0) BY <1>1
<1>3. \A i \in 1..Len(stack) : stack[i] \in FrameType BY <1>1, <1>2
<1>4. \A f \in FrameType : f.of \in Nodes /\ f.now \in Seq(Nodes) BY DEF FrameType
<1>5. QED BY <1>1, <1>2, <1>3, <1>4 DEF Typed

\* The children the topmost frame walks are objects at the depth of the stack.
LEMMA CandidateFacts ==
    ASSUME TypeOK, Placed, NEW c \in Candidates(Len(stack))
    PROVE  /\ c \in Nodes
           /\ Inside(c) \in Nested[Len(stack)]
           /\ c = 1 \/ \E n \in checked : c \in Children(n)
<1>1. CASE Len(stack) = 0
  <2>1. c = 1 /\ 1 \in Nodes BY <1>1, TypeFacts, ValueFacts DEF Candidates, Typed
  <2>2. QED BY <1>1, <2>1, TypeFacts, NestedDef
<1>2. CASE Len(stack) # 0
  <2> DEFINE d == Len(stack)
             n == stack[d].of
  <2>1. d \in 1..d /\ d - 1 \in 0..maxDepth /\ d \in 1..maxDepth + 1 /\ d \in DOMAIN stack BY <1>2, TypeFacts
  <2>2. n \in Nodes /\ n \in Nested[d - 1] /\ n \in checked BY <2>1, TypeFacts DEF Placed
  <2>3. c \in Parts(n) BY <1>2 DEF Candidates
  <2>4. c \in Children(n) /\ c \in Nodes BY <2>2, <2>3, TypeFacts, ChildFacts DEF Typed
  <2>5. n \in Nested[d - 1] \ {Nothing, Endless} BY <2>2, TypeFacts, InsideFacts
  <2>6. Nested[d] = UNION {{Inside(m) : m \in Parts(x)} : x \in Nested[d - 1] \ {Nothing, Endless}}
    BY <2>1, TypeFacts, NestedDef
  <2>7. Inside(c) \in Nested[d]
    <3> HIDE DEF d, n
    <3>1. QED BY <2>3, <2>5, <2>6
  <2>8. QED BY <2>2, <2>4, <2>7
<1>3. QED BY <1>1, <1>2

\* What the node being walked says of the child it is part of.
LEMMA InHandFacts ==
    ASSUME TypeOK, NEW c \in Nodes, Unwrapped[steps][c] = at
    PROVE  /\ ~Is(at, "wrapper") => Inside(c) = at
           /\ Is(at, "wrapper") /\ Nil(at) => Inside(c) = Nothing
           /\ Wraps(at) /\ steps = maxDepth => Inside(c) = Endless
           /\ Wraps(at) /\ steps # maxDepth => Unwrapped[steps + 1][c] = Target(at)
<1>1. Typed /\ steps \in 0..maxDepth /\ maxDepth \in Nat BY TypeFacts
<1>2. ~Wraps(at) => Inside(c) = IF Is(at, "wrapper") THEN Nothing ELSE at BY <1>1, InsideSettled
<1>3. ~Is(at, "wrapper") => ~Wraps(at) BY DEF Wraps
<1>4. Is(at, "wrapper") /\ Nil(at) => ~Wraps(at) BY DEF Wraps
<1>5. Wraps(at) /\ steps = maxDepth => Inside(c) = Endless BY <1>1, InsideFacts
<1>6. ASSUME Wraps(at), steps # maxDepth PROVE Unwrapped[steps + 1][c] = Target(at)
  <2>1. steps + 1 \in 1..maxDepth /\ (steps + 1) - 1 = steps BY <1>1, <1>6
  <2>2. Unwrapped[steps + 1][c] = IF Wraps(Unwrapped[(steps + 1) - 1][c]) THEN Target(Unwrapped[(steps + 1) - 1][c]) ELSE Unwrapped[(steps + 1) - 1][c]
    BY <1>1, <2>1, UnwrappedDef DEF Typed
  <2>3. QED BY <1>6, <2>1, <2>2
<1>7. QED BY <1>2, <1>3, <1>4, <1>5, <1>6

\* The stack is not touched.
LEMMA StackKept ==
    ASSUME TypeOK, Placed, Passed, value' = value, maxDepth' = maxDepth, stack' = stack, checked' = checked
    PROVE  /\ Placed' /\ Passed'
           /\ \A i : Candidates(i)' = Candidates(i)
           /\ \A i : Pending(i)' = Pending(i)
           /\ \A W : Sound(W)' <=> Sound(W)
<1>1. Placed' BY Same DEF Placed
<1>2. Passed' BY Same DEF Passed, Is
<1>3. \A i : Candidates(i)' = Candidates(i) BY Same DEF Candidates
<1>4. \A i : Pending(i)' = Pending(i) BY DEF Pending
<1>5. ASSUME NEW W PROVE Sound(W)' <=> Sound(W) BY Same DEF Sound, Nothing
<1>6. QED BY <1>1, <1>2, <1>3, <1>4, <1>5

\* The record survives a step that leaves the stack alone, if the child in hand
\* stays in hand or turns out to be nothing.
LEMMA RecordKept ==
    ASSUME TypeOK, Placed, Passed, value' = value, maxDepth' = maxDepth, stack' = stack, checked' = checked,
           failure = "none", Recorded,
           \A c \in Candidates(Len(stack)) : InHand(Len(stack), c) => InHand(Len(stack), c)' \/ Inside(c) = Nothing
    PROVE  Recorded'
<1>1. PICK W : Sound(W) /\ Covered(W) BY DEF Recorded
<1>2. Sound(W)' BY <1>1, StackKept
<1>3. ASSUME NEW i \in 0..Len(stack), NEW c \in Candidates(i)
      PROVE  c \in Pending(i)' \/ Inside(c)' \in W[i] \cup {Nothing} \/ InHand(i, c)'
  <2>1. c \in Pending(i) \/ Inside(c) \in W[i] \cup {Nothing} \/ InHand(i, c) BY <1>1 DEF Covered
  <2>2. Pending(i)' = Pending(i) /\ Inside(c)' = Inside(c) BY StackKept, Same
  <2>3. ASSUME InHand(i, c), i # Len(stack) PROVE InHand(i, c)'
    <3>0. Len(stack) \in Nat BY TypeFacts
    <3>1. i < Len(stack) BY <2>3, <3>0
    <3>2. Inside(c) = stack[i + 1].of BY <2>3, <3>1 DEF InHand
    <3>3. QED BY <3>1, <3>2, Same DEF InHand
  <2>4. InHand(i, c) /\ i = Len(stack) => InHand(i, c)' \/ Inside(c) = Nothing OBVIOUS
  <2>5. QED BY <2>1, <2>2, <2>3, <2>4
<1>4. Covered(W)'
  <2>1. Len(stack)' = Len(stack) /\ \A i : Candidates(i)' = Candidates(i) BY StackKept
  <2>2. QED BY <1>3, <2>1 DEF Covered, Nothing
<1>5. QED BY <1>2, <1>4 DEF Recorded

\* Bind hands the root to walk, or ends with the binder's error.
LEMMA BindStep == ValidatorInv /\ Bind => ValidatorInv'
<1> SUFFICES ASSUME ValidatorInv, Bind PROVE ValidatorInv' OBVIOUS
<1>0. /\ phase = "bind" /\ TypeOK /\ Placed /\ Passed /\ Walking /\ Recorded /\ Ended
      /\ value' = value /\ maxDepth' = maxDepth /\ stack' = stack /\ checked' = checked
      /\ at' = at /\ steps' = steps /\ status' = status /\ recorded' = recorded
  BY DEF Bind, ValidatorInv
<1>1. failure = "none" BY <1>0 DEF Ended
<1>2. Placed' /\ Passed' BY <1>0, StackKept
<1>3. CASE value.bound = {} /\ phase' = "walk" /\ failure' = failure /\ error' = error
  <2>1. TypeOK' BY <1>0, <1>3, Same DEF TypeOK, FrameType
  <2>2. Walking' BY <1>0, <1>3, StackKept, Same DEF Walking
  <2>3. Recorded'
    <3>1. \A c \in Candidates(Len(stack)) : InHand(Len(stack), c) => InHand(Len(stack), c)'
      BY <1>0, <1>3, Same DEF InHand
    <3>2. QED BY <1>0, <1>1, <3>1, RecordKept
  <2>4. Ended' BY <1>0, <1>1, <1>3 DEF Ended
  <2>5. QED BY <1>2, <2>1, <2>2, <2>3, <2>4 DEF ValidatorInv
<1>4. CASE phase' = "failed" /\ failure' = "bind" /\ error' = value.bound
  <2>1. value.bound \subseteq Kinds BY <1>0, TypeFacts, ValueFacts DEF Typed
  <2>2. TypeOK' BY <1>0, <1>4, <2>1, Same DEF TypeOK, FrameType
  <2>3. Walking' /\ Recorded' BY <1>4 DEF Walking, Recorded
  <2>4. Ended' BY <1>0, <1>1, <1>4 DEF Ended
  <2>5. QED BY <1>2, <2>2, <2>3, <2>4 DEF ValidatorInv
<1>5. QED BY <1>3, <1>4 DEF Bind, Fail

LEMMA TypeKept ==
    ASSUME TypeOK, value' = value, maxDepth' = maxDepth, stack' = stack, checked' = checked,
           at' \in Nodes, steps' \in 0..maxDepth,
           phase' \in {"bind", "walk", "validate", "children", "failed", "answered"},
           failure' \in {"none", "bind", "depth", "rule", "panic"}, error' \subseteq Kinds,
           status' \in {0, 200, 400, 413, 415, 500}, recorded' \in BOOLEAN
    PROVE  TypeOK'
BY Same DEF TypeOK, FrameType

\* A failure of the walk: it needs only its own reason and error to be right.
LEMMA FailStep ==
    ASSUME ValidatorInv, NEW why \in {"depth", "rule", "panic"}, NEW kinds \in SUBSET Kinds,
           phase \in {"walk", "validate"}, Fail(why, kinds),
           UNCHANGED <<value, maxDepth, at, steps, stack, checked, status, recorded>>,
           why = "depth" => kinds = {"max depth"} /\ ~WithinLimits,
           why = "rule" => kinds = value.thrown /\ value.rule[at] = "fail",
           why = "panic" => kinds = PanicKinds /\ value.rule[at] = "panic",
           why # "depth" => phase = "validate"
    PROVE  ValidatorInv'
<1>0. /\ TypeOK /\ Placed /\ Passed /\ Walking /\ Recorded /\ Ended
      /\ value' = value /\ maxDepth' = maxDepth /\ stack' = stack /\ checked' = checked
      /\ at' = at /\ steps' = steps /\ status' = status /\ recorded' = recorded
      /\ phase' = "failed" /\ failure' = why /\ error' = kinds
  BY DEF ValidatorInv, Fail
<1>1. Placed' /\ Passed' BY <1>0, StackKept
<1>2. TypeOK'
  <2>1. failure' \in {"none", "bind", "depth", "rule", "panic"} /\ error' \subseteq Kinds
        /\ phase' \in {"bind", "walk", "validate", "children", "failed", "answered"} BY <1>0
  <2>2. Nodes' = Nodes BY <1>0, Same
  <2>3. TypeOK /\ value' = value /\ maxDepth' = maxDepth /\ stack' = stack /\ checked' = checked BY <1>0, Zenon
  <2>4. /\ at' \in Nodes /\ steps' \in 0..maxDepth
        /\ status' \in {0, 200, 400, 413, 415, 500} /\ recorded' \in BOOLEAN
    BY ONLY <1>0, Zenon DEF TypeOK
  <2>5. QED BY ONLY <2>1, <2>3, <2>4, TypeKept
<1>3. Walking' /\ Recorded' BY <1>0 DEF Walking, Recorded
<1>4. why # "depth" => at = Inside(1) \/ \E n \in checked : \E m \in Children(n) : at = Inside(m)
  <2>1. SUFFICES ASSUME why # "depth" PROVE at = Inside(1) \/ \E n \in checked : \E m \in Children(n) : at = Inside(m)
    OBVIOUS
  <2>2. ~Is(at, "wrapper") /\ \E c \in Candidates(Len(stack)) : Unwrapped[steps][c] = at BY <1>0, <2>1 DEF Walking
  <2>3. PICK c \in Candidates(Len(stack)) : Unwrapped[steps][c] = at BY <2>2
  <2>4. c \in Nodes /\ (c = 1 \/ \E n \in checked : c \in Children(n)) BY <1>0, CandidateFacts
  <2>5. Inside(c) = at BY <1>0, <2>2, <2>3, <2>4, InHandFacts
  <2>6. QED BY <2>4, <2>5
<1>5. status # 200 BY <1>0 DEF Ended
<1>6. Ended'
  <2>1. \A n : Inside(n)' = Inside(n) /\ Children(n)' = Children(n) BY <1>0, Same
  <2>2. WithinLimits' = WithinLimits /\ PanicKinds' = PanicKinds BY <1>0, Same DEF PanicKinds
  <2>3. /\ (failure = "none" <=> phase \in {"bind", "walk", "validate", "children"} \/ status = 200)'
        /\ (phase = "answered" => IF failure = "none" THEN status = 200 /\ stack = <<>>
                                  ELSE status = RequestStatus(error) /\ (recorded <=> status >= 500))'
        /\ (status = 200 => phase = "answered")'
    BY <1>0, <1>5
  <2>4. /\ (failure = "depth" => error = {"max depth"} /\ ~WithinLimits)'
        /\ (failure = "rule" => error = value.thrown)'
        /\ (failure = "panic" => error = PanicKinds)'
    BY <1>0, <2>2
  <2>5. (failure \in {"rule", "panic"} =>
          /\ value.rule[at] = (IF failure = "rule" THEN "fail" ELSE "panic")
          /\ at = Inside(1) \/ \E n \in checked : \E m \in Children(n) : at = Inside(m))'
    BY <1>0, <1>4, <2>1
  <2>6. QED BY <2>3, <2>4, <2>5 DEF Ended
<1>7. QED BY <1>1, <1>2, <1>3, <1>6 DEF ValidatorInv

\* A step of the walk that ends nothing.
LEMMA EndedKept ==
    ASSUME Ended, value' = value, maxDepth' = maxDepth, failure = "none",
           UNCHANGED <<failure, error, status, recorded>>,
           phase \in {"bind", "walk", "validate", "children"}, phase' \in {"bind", "walk", "validate", "children"}
    PROVE  Ended'
BY DEF Ended

\* Unwrap removes one wrapper, or finds nothing, or one wrapper too many.
LEMMA UnwrapStep == ValidatorInv /\ Unwrap => ValidatorInv'
<1> SUFFICES ASSUME ValidatorInv, Unwrap PROVE ValidatorInv' OBVIOUS
<1>0. /\ phase = "walk" /\ TypeOK /\ Placed /\ Passed /\ Walking /\ Recorded /\ Ended
      /\ value' = value /\ maxDepth' = maxDepth /\ stack' = stack /\ checked' = checked
      /\ status' = status /\ recorded' = recorded /\ Is(at, "wrapper")
  BY DEF Unwrap, ValidatorInv
<1>1. failure = "none" BY <1>0 DEF Ended
<1>2. Placed' /\ Passed' BY <1>0, StackKept
<1>a. at \in Nodes /\ steps \in 0..maxDepth /\ maxDepth \in Nat /\ Typed BY <1>0, TypeFacts
<1>3. CASE Nil(at) /\ phase' = "children" /\ UNCHANGED <<at, steps, failure, error>>
  <2>1. TypeOK' BY <1>0, <1>3, Same DEF TypeOK, FrameType
  <2>2. Walking' BY <1>3 DEF Walking
  <2>3. Recorded'
    <3>1. ASSUME NEW c \in Candidates(Len(stack)), InHand(Len(stack), c) PROVE Inside(c) = Nothing
      <4>1. Unwrapped[steps][c] = at BY <3>1, <1>0, TypeFacts DEF InHand
      <4>2. c \in Nodes BY <1>0, CandidateFacts
      <4>3. QED BY <1>0, <1>3, <4>1, <4>2, InHandFacts
    <3>2. QED BY <1>0, <1>1, <3>1, RecordKept
  <2>4. Ended' BY <1>0, <1>1, <1>3, EndedKept
  <2>5. QED BY <1>2, <2>1, <2>2, <2>3, <2>4 DEF ValidatorInv
<1>4. CASE ~Nil(at) /\ TooManyWrappers /\ Fail("depth", {"max depth"}) /\ UNCHANGED <<at, steps>>
  <2>a. steps >= maxDepth BY <1>4 DEF TooManyWrappers
  <2>0. steps <= maxDepth /\ steps \in Nat BY <1>a
  <2>1. steps = maxDepth BY <1>a, <2>a, <2>0
  <2>2. PICK c \in Candidates(Len(stack)) : Unwrapped[steps][c] = at BY <1>0 DEF Walking
  <2>3. c \in Nodes /\ Inside(c) \in Nested[Len(stack)] BY <1>0, CandidateFacts
  <2>4. Inside(c) = Endless BY <1>0, <1>4, <2>1, <2>2, <2>3, InHandFacts DEF Wraps
  <2>5. Len(stack) \in 0..maxDepth + 1 BY <1>0, TypeFacts
  <2>6. ~WithinLimits BY <2>3, <2>4, <2>5 DEF WithinLimits
  <2>7. {"max depth"} \in SUBSET Kinds BY DEF Kinds
  <2>8. QED BY <1>0, <1>4, <2>6, <2>7, FailStep
<1>5. CASE ~Nil(at) /\ ~TooManyWrappers /\ at' = Target(at) /\ steps' = OneMore(steps) /\ UNCHANGED <<phase, failure, error>>
  <2>1. steps' = steps + 1 /\ steps # maxDepth /\ steps + 1 \in 0..maxDepth BY <1>a, <1>5 DEF TooManyWrappers, OneMore
  <2>2. Wraps(at) BY <1>0, <1>5 DEF Wraps
  <2>3. Target(at) \in Nodes BY <1>a, <2>2, ChildFacts DEF Typed
  <2>4. ASSUME NEW c \in Candidates(Len(stack)), Unwrapped[steps][c] = at PROVE Unwrapped'[steps'][c] = at'
    <3>1. c \in Nodes BY <1>0, CandidateFacts
    <3>2. Unwrapped[steps + 1][c] = Target(at) BY <1>0, <2>1, <2>2, <2>4, <3>1, InHandFacts
    <3>3. QED BY <1>0, <1>5, <2>1, <3>2, Same
  <2>5. TypeOK' BY <1>0, <1>5, <2>1, <2>3, Same DEF TypeOK, FrameType
  <2>6. Walking' BY <1>0, <1>5, <2>4, StackKept DEF Walking
  <2>7. Recorded'
    <3>1. ASSUME NEW c \in Candidates(Len(stack)), InHand(Len(stack), c) PROVE InHand(Len(stack), c)'
      <4>1. Unwrapped[steps][c] = at BY <3>1, <1>0, TypeFacts DEF InHand
      <4>2. QED BY <1>0, <1>5, <2>4, <4>1, TypeFacts DEF InHand
    <3>2. QED BY <1>0, <1>1, <3>1, RecordKept
  <2>8. Ended' BY <1>0, <1>1, <1>5, EndedKept
  <2>9. QED BY <1>2, <2>5, <2>6, <2>7, <2>8 DEF ValidatorInv
<1>6. QED BY <1>3, <1>4, <1>5 DEF Unwrap

\* CheckDepth: an object within the depth is validated.
LEMMA CheckDepthStep == ValidatorInv /\ CheckDepth => ValidatorInv'
<1> SUFFICES ASSUME ValidatorInv, CheckDepth PROVE ValidatorInv' OBVIOUS
<1>0. /\ phase = "walk" /\ TypeOK /\ Placed /\ Passed /\ Walking /\ Recorded /\ Ended
      /\ value' = value /\ maxDepth' = maxDepth /\ stack' = stack /\ checked' = checked
      /\ at' = at /\ steps' = steps /\ status' = status /\ recorded' = recorded /\ ~Is(at, "wrapper")
  BY DEF CheckDepth, ValidatorInv
<1>1. failure = "none" BY <1>0 DEF Ended
<1>2. Placed' /\ Passed' BY <1>0, StackKept
<1>3. Len(stack) \in 0..maxDepth + 1 /\ maxDepth \in Nat BY <1>0, TypeFacts
<1>4. CASE TooDeep /\ Fail("depth", {"max depth"})
  <2>1. Len(stack) > maxDepth BY <1>4 DEF TooDeep
  <2>2. Len(stack) = maxDepth + 1 BY <1>3, <2>1
  <2>3. PICK c \in Candidates(Len(stack)) : Unwrapped[steps][c] = at BY <1>0 DEF Walking
  <2>4. c \in Nodes /\ Inside(c) \in Nested[Len(stack)] BY <1>0, CandidateFacts
  <2>5. Inside(c) = at BY <1>0, <2>3, <2>4, InHandFacts
  <2>6. at # Nothing BY <1>0, <2>4, TypeFacts, InsideFacts
  <2>7. ~WithinLimits BY <2>2, <2>4, <2>5, <2>6 DEF WithinLimits
  <2>8. {"max depth"} \in SUBSET Kinds BY DEF Kinds
  <2>9. UNCHANGED <<value, maxDepth, at, steps, stack, checked, status, recorded>> BY <1>0
  <2>10. QED BY <1>0, <1>4, <2>7, <2>8, <2>9, FailStep
<1>5. CASE ~TooDeep /\ phase' = "validate" /\ UNCHANGED <<failure, error>>
  <2>1. Len(stack) <= maxDepth BY <1>3, <1>5 DEF TooDeep
  <2>2. TypeOK' BY <1>0, <1>5, Same DEF TypeOK, FrameType
  <2>3. Walking'
    <3>1. \A i : Candidates(i)' = Candidates(i) BY <1>0, StackKept
    <3>2. (~Is(at, "wrapper"))' BY <1>0 DEF Is
    <3>3. (Len(stack) <= maxDepth)' BY <1>0, <2>1
    <3>4. (\E c \in Candidates(Len(stack)) : Unwrapped[steps][c] = at)' BY <1>0, <3>1, Same DEF Walking
    <3>5. QED BY <3>2, <3>3, <3>4 DEF Walking
  <2>4. Recorded'
    <3>1. \A c \in Candidates(Len(stack)) : InHand(Len(stack), c) => InHand(Len(stack), c)'
      BY <1>0, <1>5, Same DEF InHand
    <3>2. QED BY <1>0, <1>1, <3>1, RecordKept
  <2>5. Ended' BY <1>0, <1>1, <1>5, EndedKept
  <2>6. QED BY <1>2, <2>2, <2>3, <2>4, <2>5 DEF ValidatorInv
<1>6. QED BY <1>0, <1>4, <1>5 DEF CheckDepth

\* A call begins: its object passed, and all its children are pending.
LEMMA PushStep ==
    ASSUME ValidatorInv, phase = "validate", RunRule(at) \in {"none", "pass"},
           checked' = checked \cup {at}, stack' = Append(stack, Frame(at)), phase' = "children",
           UNCHANGED <<failure, error, value, maxDepth, at, steps, status, recorded>>
    PROVE  ValidatorInv'
<1> DEFINE d == Len(stack)
<1>0. /\ TypeOK /\ Placed /\ Passed /\ Walking /\ Recorded /\ Ended
      /\ value' = value /\ maxDepth' = maxDepth /\ at' = at /\ steps' = steps
      /\ failure' = failure /\ error' = error /\ status' = status /\ recorded' = recorded
      /\ ~Is(at, "wrapper") /\ d <= maxDepth
  BY DEF ValidatorInv, Walking
<1>1. failure = "none" BY <1>0 DEF Ended
<1>2. /\ Typed /\ at \in Nodes /\ maxDepth \in Nat /\ d \in Nat /\ stack \in Seq(FrameType) /\ d \in 0..maxDepth
      /\ DOMAIN stack = 1..d
  BY <1>0, TypeFacts
<1>3. Frame(at) \in FrameType /\ Frame(at).of = at /\ Frame(at).now = <<>> /\ Frame(at).later = DOMAIN value.groups[at]
  <2>1. value.groups[at] \in Seq(Seq(Nat)) BY <1>2, ValueFacts DEF Typed
  <2>2. DOMAIN value.groups[at] \subseteq Nat BY <2>1
  <2>3. QED BY <1>2, <2>2 DEF Frame, FrameType
<1>4. /\ Len(stack') = d + 1 /\ DOMAIN stack' = 1..d + 1 /\ stack' \in Seq(FrameType)
      /\ \A i \in 1..d : stack'[i] = stack[i]
      /\ stack'[d + 1] = Frame(at)
  BY <1>2, <1>3
<1>5. PICK c0 \in Candidates(d) : Unwrapped[steps][c0] = at BY <1>0 DEF Walking
<1>6. c0 \in Nodes /\ Inside(c0) \in Nested[d] /\ Inside(c0) = at BY <1>0, <1>5, CandidateFacts, InHandFacts
<1>7. TypeOK'
  <2>1. Nodes' = Nodes BY <1>0, Same
  <2>2. FrameType' = FrameType BY <2>1 DEF FrameType
  <2>3. (stack \in Seq(FrameType))' /\ (Len(stack) <= maxDepth + 1)' BY <1>0, <1>2, <1>4, <2>2
  <2>4. checked' \subseteq Nodes' BY <1>0, <1>2, <2>1 DEF TypeOK
  <2>5. QED BY <1>0, <2>1, <2>3, <2>4 DEF TypeOK
<1>8. Placed'
  <2>1. ASSUME NEW i \in 1..d + 1
        PROVE  /\ stack'[i].of \in Nested[i - 1] \cap checked'
               /\ stack'[i].later \subseteq DOMAIN value.groups[stack'[i].of]
               /\ ToSet(stack'[i].now) \subseteq Members(stack'[i].of)
    <3>0. i \in 1..d \/ i = d + 1 BY <1>2
    <3>1. CASE i \in 1..d
      <4>1. /\ stack[i].of \in Nested[i - 1] \cap checked
            /\ stack[i].later \subseteq DOMAIN value.groups[stack[i].of]
            /\ ToSet(stack[i].now) \subseteq Members(stack[i].of)
        BY <1>0, <1>2, <3>1 DEF Placed
      <4>2. stack'[i] = stack[i] BY <1>4, <3>1
      <4>3. QED BY <4>1, <4>2
    <3>2. CASE i = d + 1
      <4>1. i - 1 = d BY <1>2, <3>2
      <4>2. ToSet(<<>>) = {} BY DEF ToSet
      <4>3. QED BY <1>3, <1>4, <1>6, <3>2, <4>1, <4>2
    <3> HIDE DEF d
    <3>3. QED BY <3>0, <3>1, <3>2
  <2>2. Nested' = Nested BY <1>0, Same
  <2>4. DOMAIN stack' = 1..d + 1 BY <1>4
  <2> HIDE DEF d
  <2>3. value' = value /\ \A n : Members(n)' = Members(n) BY <1>0, Same
  <2>5. QED BY <2>1, <2>2, <2>3, <2>4 DEF Placed
<1>9. Passed' BY <1>0, <1>2, Same DEF Passed, Is, RunRule
<1>10. Walking' BY DEF Walking
<1>11. Recorded'
  <2>1. PICK W : Sound(W) /\ Covered(W) BY <1>0, <1>1 DEF Recorded
  <2>2. Sound(W)' BY <1>0, <2>1, Same DEF Sound, Nothing
  <2>3. ASSUME NEW i \in 0..d + 1, NEW c \in Candidates(i)'
        PROVE  c \in Pending(i)' \/ Inside(c) \in W[i] \cup {Nothing} \/ InHand(i, c)'
    <3>1. CASE i \in 0..d
      <4>1. i = 0 \/ i \in 1..d BY <1>2, <3>1
      <4>2. Candidates(i)' = Candidates(i) BY <1>0, <1>4, <4>1, Same DEF Candidates
      <4>3. Pending(i)' = Pending(i) BY <1>0, <1>4, <4>1 DEF Pending
      <4>4. c \in Pending(i) \/ Inside(c) \in W[i] \cup {Nothing} \/ InHand(i, c) BY <2>1, <3>1, <4>2 DEF Covered
      <4>5. ASSUME InHand(i, c) PROVE InHand(i, c)'
        <5>1. i < Len(stack') BY <1>2, <1>4, <3>1
        <5>2. InHand(i, c)' <=> Inside(c) = stack'[i + 1].of BY <1>0, <5>1, Same DEF InHand
        <5>3. CASE i < d
          <6>1. i + 1 \in 1..d BY <1>2, <3>1, <5>3
          <6>2. Inside(c) = stack[i + 1].of BY <4>5, <5>3 DEF InHand
          <6>3. QED BY <1>4, <5>2, <6>1, <6>2
        <5>4. CASE ~(i < d)
          <6>0. d \in Nat BY <1>2
          <6>1. i = d BY <6>0, <3>1, <5>4
          <6>2. Unwrapped[steps][c] = at BY <4>5, <5>4 DEF InHand
          <6>3. c \in Nodes BY <1>0, <4>2, <6>1, CandidateFacts
          <6>4. Inside(c) = at BY <1>0, <6>2, <6>3, InHandFacts
          <6>5. QED BY <1>3, <1>4, <5>2, <6>1, <6>4
        <5>5. QED BY <5>3, <5>4
      <4>6. QED BY <4>3, <4>4, <4>5
    <3>2. CASE i = d + 1
      <4>1. i # 0 /\ stack'[i] = Frame(at) BY <1>2, <1>4, <3>2
      <4>2. c \in Parts(at) BY <1>0, <1>3, <4>1, Same DEF Candidates
      <4>3. c \in Children(at) BY <1>2, <4>2, ChildFacts DEF Typed
      <4>4. PICK g \in DOMAIN value.groups[at] : c \in ToSet(value.groups[at][g]) BY <4>3 DEF Children
      <4>5. c \in Pending(i)' BY <1>0, <1>3, <4>1, <4>4 DEF Pending
      <4>6. QED BY <4>5
    <3>3. QED BY <1>2, <3>1, <3>2
  <2>4. Covered(W)' BY <1>0, <1>4, <2>3, Same DEF Covered, Nothing
  <2>5. QED BY <2>2, <2>4 DEF Recorded
<1>12. Ended' BY <1>0, <1>1, EndedKept
<1>13. QED BY <1>7, <1>8, <1>9, <1>10, <1>11, <1>12 DEF ValidatorInv

\* Execute runs the rule of an object, which passes, fails or panics.
LEMMA ExecuteStep == ValidatorInv /\ Execute => ValidatorInv'
<1> SUFFICES ASSUME ValidatorInv, Execute PROVE ValidatorInv' OBVIOUS
<1>1. phase = "validate" /\ TypeOK BY DEF Execute, ValidatorInv
<1>2. value.thrown \in SUBSET Kinds /\ PanicKinds \in SUBSET Kinds
  BY <1>1, TypeFacts, ValueFacts DEF Typed, PanicKinds, Kinds
<1>3. UNCHANGED <<value, maxDepth, at, steps, status, recorded>> BY DEF Execute
<1>4. CASE RunRule(at) \in {"none", "pass"} /\ checked' = checked \cup {at} /\ stack' = Append(stack, Frame(at))
           /\ phase' = "children" /\ UNCHANGED <<failure, error>>
  BY <1>1, <1>3, <1>4, PushStep
<1>5. CASE RunRule(at) = "fail" /\ Fail("rule", value.thrown) /\ UNCHANGED <<checked, stack>>
  <2>1. value.rule[at] = "fail" BY <1>5 DEF RunRule
  <2>2. UNCHANGED <<value, maxDepth, at, steps, stack, checked, status, recorded>> BY <1>3, <1>5
  <2>3. QED BY <1>1, <1>2, <1>5, <2>1, <2>2, FailStep
<1>6. CASE RunRule(at) = "panic" /\ Fail("panic", PanicKinds) /\ UNCHANGED <<checked, stack>>
  <2>1. value.rule[at] = "panic" BY <1>6 DEF RunRule
  <2>2. UNCHANGED <<value, maxDepth, at, steps, stack, checked, status, recorded>> BY <1>3, <1>6
  <2>3. QED BY <1>1, <1>2, <1>6, <2>1, <2>2, FailStep
<1>7. QED BY <1>4, <1>5, <1>6 DEF Execute

\* The topmost frame changes, and still stands for the same call.
LEMMA TopFacts ==
    ASSUME TypeOK, stack # <<>>, NEW f \in FrameType, f.of = Top.of, stack' = WithTop(f)
    PROVE  /\ stack' \in Seq(FrameType) /\ Len(stack') = Len(stack) /\ DOMAIN stack' = DOMAIN stack
           /\ Len(stack) \in DOMAIN stack
           /\ \A i \in DOMAIN stack : i # Len(stack) => stack'[i] = stack[i]
           /\ \A i \in DOMAIN stack : stack'[i].of = stack[i].of
           /\ stack'[Len(stack)] = f
<1>1. stack \in Seq(FrameType) /\ Len(stack) \in 1..Len(stack) /\ DOMAIN stack = 1..Len(stack) BY TypeFacts
<1>2. stack' = [stack EXCEPT ![Len(stack)] = f] BY DEF WithTop
<1>3. stack' \in Seq(FrameType) /\ Len(stack') = Len(stack) BY <1>1, <1>2
<1>4. DOMAIN stack' = DOMAIN stack BY <1>2
<1>5. stack'[Len(stack)] = f /\ \A i \in DOMAIN stack : i # Len(stack) => stack'[i] = stack[i] BY <1>1, <1>2
<1>6. \A i \in DOMAIN stack : stack'[i].of = stack[i].of BY <1>5 DEF Top
<1>7. QED BY <1>1, <1>3, <1>4, <1>5, <1>6

LEMMA TopStep ==
    ASSUME TypeOK, Placed, Passed, Recorded, failure = "none", phase = "children",
           value' = value, maxDepth' = maxDepth, checked' = checked, failure' = failure,
           stack # <<>>, NEW f \in FrameType, f.of = Top.of, stack' = WithTop(f),
           f.later \subseteq DOMAIN value.groups[Top.of], ToSet(f.now) \subseteq Members(Top.of),
           \A c \in Parts(Top.of) : c \in Pending(Len(stack)) => c \in Pending(Len(stack))' \/ InHand(Len(stack), c)'
    PROVE  Placed' /\ Passed' /\ Recorded' /\ \A i \in 0..Len(stack) : Candidates(i)' = Candidates(i)
<1> DEFINE d == Len(stack)
<1>1. /\ stack' \in Seq(FrameType) /\ Len(stack') = d /\ DOMAIN stack' = DOMAIN stack
      /\ d \in DOMAIN stack
      /\ \A i \in DOMAIN stack : i # d => stack'[i] = stack[i]
      /\ \A i \in DOMAIN stack : stack'[i].of = stack[i].of
      /\ stack'[d] = f /\ Top = stack[d]
  BY TopFacts DEF Top
<1>2. d \in Nat /\ DOMAIN stack = 1..d BY TypeFacts
<1> HIDE DEF d
<1>3. Placed'
  <2>1. ASSUME NEW i \in DOMAIN stack
        PROVE  /\ stack'[i].of \in Nested[i - 1] \cap checked
               /\ stack'[i].later \subseteq DOMAIN value.groups[stack'[i].of]
               /\ ToSet(stack'[i].now) \subseteq Members(stack'[i].of)
    <3>1. /\ stack[i].of \in Nested[i - 1] \cap checked
          /\ stack[i].later \subseteq DOMAIN value.groups[stack[i].of]
          /\ ToSet(stack[i].now) \subseteq Members(stack[i].of)
      BY DEF Placed
    <3>2. CASE i # d BY <1>1, <3>1, <3>2
    <3>3. CASE i = d BY <1>1, <3>1, <3>3
    <3>4. QED BY <3>2, <3>3
  <2>2. Nested' = Nested /\ \A n : Members(n)' = Members(n) BY Same
  <2>3. QED BY <1>1, <2>1, <2>2 DEF Placed
<1>4. Passed' BY Same DEF Passed, Is
<1>5. ASSUME NEW i \in 0..d PROVE Candidates(i)' = Candidates(i)
  <2>1. i = 0 \/ i \in DOMAIN stack BY <1>2
  <2>2. QED BY <1>1, <2>1, Same DEF Candidates
<1>6. Recorded'
  <2>1. PICK W : Sound(W) /\ Covered(W) BY DEF Recorded
  <2>2. Sound(W)' BY <2>1, Same DEF Sound, Nothing
  <2>3. ASSUME NEW i \in 0..d, NEW c \in Candidates(i)'
        PROVE  c \in Pending(i)' \/ Inside(c) \in W[i] \cup {Nothing} \/ InHand(i, c)'
    <3>1. c \in Candidates(i) BY <1>5
    <3>2. c \in Pending(i) \/ Inside(c) \in W[i] \cup {Nothing} \/ InHand(i, c) BY <2>1, <3>1 DEF Covered, d
    <3>3. CASE i = d
      <4>1. i # 0 /\ c \in Parts(Top.of) BY <1>1, <1>2, <3>1, <3>3 DEF Candidates
      <4>2. ~InHand(i, c) BY <1>2, <3>3 DEF InHand, d
      <4>3. i = Len(stack) /\ i = Len(stack') BY <1>1, <3>3 DEF d
      <4>4. c \in Pending(i) => c \in Pending(i)' \/ InHand(i, c)' BY <4>1, <4>3
      <4>5. QED BY <3>2, <4>2, <4>4
    <3>4. CASE i # d
      <4>1. i < d /\ (i = 0 \/ i \in DOMAIN stack) /\ i + 1 \in DOMAIN stack BY <1>2, <3>4
      <4>2. Pending(i)' = Pending(i)
        <5>1. CASE i = 0 BY <5>1 DEF Pending
        <5>2. CASE i # 0
          <6>1. stack'[i] = stack[i] BY <1>1, <3>4, <4>1, <5>2
          <6>2. QED BY <5>2, <6>1 DEF Pending
        <5>3. QED BY <5>1, <5>2
      <4>3. InHand(i, c) <=> Inside(c) = stack[i + 1].of BY <4>1 DEF InHand, d
      <4>4. InHand(i, c)' <=> Inside(c) = stack'[i + 1].of BY <1>1, <4>1, Same DEF InHand
      <4>5. stack'[i + 1].of = stack[i + 1].of BY <1>1, <4>1
      <4>6. QED BY <3>2, <4>2, <4>3, <4>4, <4>5
    <3>5. QED BY <3>3, <3>4
  <2>4. Covered(W)' BY <1>1, <2>3, Same DEF Covered, Nothing
  <2>5. QED BY <2>2, <2>4 DEF Recorded
<1>7. QED BY <1>3, <1>4, <1>5, <1>6 DEF d

\* NextGroup moves a group to the children that are next.
LEMMA NextGroupStep == ValidatorInv /\ NextGroup => ValidatorInv'
<1> SUFFICES ASSUME ValidatorInv, NextGroup PROVE ValidatorInv' OBVIOUS
<1>0. /\ phase = "children" /\ TypeOK /\ Placed /\ Passed /\ Recorded /\ Ended
      /\ value' = value /\ maxDepth' = maxDepth /\ checked' = checked
      /\ phase' = phase /\ at' = at /\ steps' = steps /\ failure' = failure /\ error' = error
      /\ status' = status /\ recorded' = recorded
      /\ stack # <<>> /\ Top.now = <<>>
  BY DEF NextGroup, ValidatorInv
<1>1. failure = "none" BY <1>0 DEF Ended
<1> DEFINE n == Top.of
<1>2. PICK group \in Top.later : stack' = WithTop([Top EXCEPT !.now = value.groups[n][group], !.later = @ \ {group}])
  BY DEF NextGroup
<1> DEFINE f == [Top EXCEPT !.now = value.groups[n][group], !.later = @ \ {group}]
<1>3. /\ Len(stack) \in DOMAIN stack /\ Typed /\ Top \in FrameType /\ n \in Nodes /\ n = stack[Len(stack)].of
      /\ Top.later \subseteq DOMAIN value.groups[n] /\ group \in DOMAIN value.groups[n]
  <2>1. Len(stack) \in DOMAIN stack /\ Typed BY <1>0, TypeFacts
  <2>2. Top \in FrameType /\ n \in Nodes BY <1>0, <2>1, TypeFacts DEF Top
  <2>3. Top.later \subseteq DOMAIN value.groups[n] BY <1>0, <2>1 DEF Placed, Top
  <2>4. QED BY <2>1, <2>2, <2>3 DEF Top
<1>4. value.groups[n][group] \in Seq(Nodes) BY <1>3, ValueFacts DEF Typed
<1>5. f \in FrameType /\ f.of = n /\ f.now = value.groups[n][group] /\ f.later = Top.later \ {group}
  BY <1>3, <1>4 DEF FrameType
<1>6. f.later \subseteq DOMAIN value.groups[n] /\ ToSet(f.now) \subseteq Members(n) BY <1>3, <1>5 DEF Members
<1> HIDE DEF f
<1>7. stack' = WithTop(f) BY <1>2 DEF f
<1>8. /\ stack' \in Seq(FrameType) /\ Len(stack') = Len(stack) /\ stack'[Len(stack)] = f
  BY <1>0, <1>5, <1>7, TopFacts
<1>9. ASSUME NEW c \in Parts(n), c \in Pending(Len(stack)) PROVE c \in Pending(Len(stack))'
  <2>1. Len(stack) # 0 BY <1>3, <1>0, TypeFacts
  <2>2. Pending(Len(stack)) = ToSet(Top.now) \cup UNION {ToSet(value.groups[n][g]) : g \in Top.later}
    BY <2>1 DEF Pending, Top
  <2>3. ToSet(Top.now) = {} BY <1>0 DEF ToSet
  <2>4. PICK g \in Top.later : c \in ToSet(value.groups[n][g]) BY <1>9, <2>2, <2>3
  <2>5. Pending(Len(stack))' = ToSet(f.now) \cup UNION {ToSet(value.groups[n][h]) : h \in f.later}
    BY <1>0, <1>5, <1>8, <2>1 DEF Pending
  <2>6. CASE g = group BY <1>5, <2>4, <2>5, <2>6
  <2>7. CASE g # group
    <3>1. g \in f.later BY <1>5, <2>4, <2>7
    <3>2. QED BY <2>4, <2>5, <3>1
  <2>8. QED BY <2>6, <2>7
<1>10. Placed' /\ Passed' /\ Recorded' BY <1>0, <1>1, <1>5, <1>6, <1>7, <1>9, TopStep
<1>11. TypeOK'
  <2>1. FrameType' = FrameType /\ Nodes' = Nodes BY <1>0, Same DEF FrameType
  <2>2. QED BY <1>0, <1>8, <2>1 DEF TypeOK
<1>12. Walking' BY <1>0 DEF Walking
<1>13. Ended' BY <1>0, <1>1, EndedKept
<1>14. QED BY <1>10, <1>11, <1>12, <1>13 DEF ValidatorInv

LEMMA HeadTail ==
    ASSUME NEW S, NEW s \in Seq(S), s # <<>>
    PROVE  Head(s) \in S /\ Tail(s) \in Seq(S) /\ ToSet(s) = {Head(s)} \cup ToSet(Tail(s))
<1>1. Head(s) = s[1] /\ Head(s) \in S /\ Tail(s) \in Seq(S) /\ Len(s) \in Nat \ {0} /\ Len(Tail(s)) = Len(s) - 1
      /\ DOMAIN s = 1..Len(s) /\ DOMAIN Tail(s) = 1..Len(Tail(s))
      /\ \A i \in 1..Len(s) - 1 : Tail(s)[i] = s[i + 1]
  OBVIOUS
<1>2. ASSUME NEW i \in DOMAIN s PROVE s[i] \in {Head(s)} \cup ToSet(Tail(s))
  <2>1. CASE i = 1 BY <1>1, <2>1
  <2>2. CASE i # 1
    <3>1. i - 1 \in DOMAIN Tail(s) /\ Tail(s)[i - 1] = s[i] BY <1>1, <2>2
    <3>2. QED BY <3>1 DEF ToSet
  <2>3. QED BY <2>1, <2>2
<1>3. ASSUME NEW i \in DOMAIN Tail(s) PROVE Tail(s)[i] \in ToSet(s)
  <2>1. i + 1 \in DOMAIN s /\ Tail(s)[i] = s[i + 1] BY <1>1
  <2>2. QED BY <2>1 DEF ToSet
<1>4. Head(s) \in ToSet(s)
  <2>1. 1 \in DOMAIN s BY <1>1
  <2>2. QED BY <1>1, <2>1 DEF ToSet
<1>5. ToSet(s) \subseteq {Head(s)} \cup ToSet(Tail(s)) BY <1>2 DEF ToSet
<1>6. ToSet(Tail(s)) \subseteq ToSet(s) BY <1>3 DEF ToSet
<1>7. QED BY <1>1, <1>4, <1>5, <1>6

\* NextChild walks the next child, or passes over a field that is not listed.
LEMMA NextChildStep == ValidatorInv /\ NextChild => ValidatorInv'
<1> SUFFICES ASSUME ValidatorInv, NextChild PROVE ValidatorInv' OBVIOUS
<1> DEFINE n == Top.of
           f == [Top EXCEPT !.now = Tail(@)]
<1>0. /\ phase = "children" /\ TypeOK /\ Placed /\ Passed /\ Recorded /\ Ended
      /\ value' = value /\ maxDepth' = maxDepth /\ checked' = checked
      /\ failure' = failure /\ error' = error /\ status' = status /\ recorded' = recorded
      /\ stack # <<>> /\ Top.now # <<>> /\ stack' = WithTop(f)
  BY DEF NextChild, ValidatorInv
<1>1. failure = "none" BY <1>0 DEF Ended
<1>2. /\ Len(stack) \in DOMAIN stack /\ Typed /\ Top \in FrameType /\ n \in Nodes
      /\ Top.now \in Seq(Nodes) /\ Top.later \subseteq DOMAIN value.groups[n] /\ ToSet(Top.now) \subseteq Members(n)
      /\ Len(stack) # 0
  <2>1. Len(stack) \in DOMAIN stack /\ Typed /\ Len(stack) # 0 BY <1>0, TypeFacts
  <2>2. Top \in FrameType /\ n \in Nodes /\ Top.now \in Seq(Nodes) BY <1>0, <2>1, TypeFacts DEF Top
  <2>3. Top.later \subseteq DOMAIN value.groups[n] /\ ToSet(Top.now) \subseteq Members(n) BY <1>0, <2>1 DEF Placed, Top
  <2>4. QED BY <2>1, <2>2, <2>3
<1>h. PICK h : h = Head(Top.now) OBVIOUS
<1>3. h \in Nodes /\ Tail(Top.now) \in Seq(Nodes) /\ ToSet(Top.now) = {h} \cup ToSet(Tail(Top.now))
  BY <1>0, <1>2, <1>h, HeadTail
<1>4. f \in FrameType /\ f.of = n /\ f.now = Tail(Top.now) /\ f.later = Top.later
  BY <1>2, <1>3 DEF FrameType
<1>5. f.later \subseteq DOMAIN value.groups[n] /\ ToSet(f.now) \subseteq Members(n) BY <1>2, <1>3, <1>4
<1> HIDE DEF f
<1>6. stack' \in Seq(FrameType) /\ Len(stack') = Len(stack) /\ stack'[Len(stack)] = f
  BY <1>0, <1>2, <1>4, TopFacts
<1>7. ASSUME NEW c \in Pending(Len(stack)), c # h PROVE c \in Pending(Len(stack))'
  <2>1. Pending(Len(stack)) = ToSet(Top.now) \cup UNION {ToSet(value.groups[n][g]) : g \in Top.later}
    BY <1>2 DEF Pending, Top
  <2>2. Pending(Len(stack))' = ToSet(f.now) \cup UNION {ToSet(value.groups[n][g]) : g \in f.later}
    BY <1>0, <1>2, <1>4, <1>6 DEF Pending
  <2>3. QED BY <1>3, <1>4, <1>7, <2>1, <2>2
<1>8. (stack \in Seq(FrameType))' /\ (Len(stack) <= maxDepth + 1)' /\ Nodes' = Nodes
  <2>1. FrameType' = FrameType /\ Nodes' = Nodes BY <1>0, Same DEF FrameType
  <2>2. QED BY <1>0, <1>6, <2>1 DEF TypeOK
<1>9. CASE Is(n, "struct") /\ ~Listed(h) /\ UNCHANGED <<phase, at, steps>>
  <2>1. h \notin Parts(n)
    <3>1. CASE h \in value.private BY <1>9, <3>1 DEF Parts, Children
    <3>2. CASE h \notin value.private BY <1>9, <3>2 DEF Parts, Listed
    <3>3. QED BY <3>1, <3>2
  <2>2. Placed' /\ Passed' /\ Recorded'
    <3>1. \A c \in Parts(n) : c \in Pending(Len(stack)) => c \in Pending(Len(stack))' BY <1>7, <2>1
    <3>2. QED BY <1>0, <1>1, <1>4, <1>5, <3>1, TopStep
  <2>3. TypeOK' BY <1>0, <1>8, <1>9 DEF TypeOK
  <2>4. Walking' BY <1>0, <1>9 DEF Walking
  <2>5. Ended' BY <1>0, <1>1, <1>9, EndedKept
  <2>6. QED BY <2>2, <2>3, <2>4, <2>5 DEF ValidatorInv
<1>10. CASE (Is(n, "struct") => Listed(h)) /\ at' = h /\ steps' = 0 /\ phase' = "walk"
  <2>1. h \in Parts(n)
    <3>1. h \in Members(n) BY <1>2, <1>3
    <3>2. CASE Is(n, "struct")
      <4>1. h \notin value.private /\ (Is(h, "plain") => value.rule[h] # "none") BY <1>10, <3>2 DEF Listed
      <4>2. h \in Children(n) BY <3>1, <4>1 DEF Children, Members
      <4>3. QED BY <4>1, <4>2 DEF Parts
    <3>3. CASE ~Is(n, "struct") BY <3>1, <3>3 DEF Children, Members, Parts
    <3>4. QED BY <3>2, <3>3
  <2>2. Unwrapped'[steps'][h] = at'
    <3>1. Unwrapped[0][h] = h BY <1>2, <1>3, UnwrappedDef DEF Typed
    <3>2. QED BY <1>0, <1>10, <3>1, Same
  <2>3. InHand(Len(stack), h)' BY <1>6, <1>10, <2>2 DEF InHand
  <2>4. Placed' /\ Passed' /\ Recorded' /\ Candidates(Len(stack))' = Candidates(Len(stack))
    <3>1. \A c \in Parts(n) : c \in Pending(Len(stack)) => c \in Pending(Len(stack))' \/ InHand(Len(stack), c)'
      BY <1>7, <2>3
    <3>2. Len(stack) \in 0..Len(stack) BY <1>0, TypeFacts
    <3>3. \A i \in 0..Len(stack) : Candidates(i)' = Candidates(i)
      BY <1>0, <1>1, <1>4, <1>5, <3>1, TopStep
    <3>4. Placed' /\ Passed' /\ Recorded' BY <1>0, <1>1, <1>4, <1>5, <3>1, TopStep
    <3>5. Candidates(Len(stack))' = Candidates(Len(stack)) BY <1>6, <3>2, <3>3
    <3>6. QED BY <3>4, <3>5
  <2>5. h \in Candidates(Len(stack)) BY <1>2, <2>1 DEF Candidates, Top
  <2>6. TypeOK'
    <3>1. at' \in Nodes' /\ (steps \in 0..maxDepth)' BY <1>0, <1>2, <1>3, <1>8, <1>10 DEF Typed
    <3>2. QED BY <1>0, <1>8, <1>10, <3>1 DEF TypeOK
  <2>7. Walking' BY <1>10, <2>2, <2>4, <2>5 DEF Walking
  <2>8. Ended' BY <1>0, <1>1, <1>10, EndedKept
  <2>9. QED BY <2>4, <2>6, <2>7, <2>8 DEF ValidatorInv
<1>11. QED BY <1>9, <1>10, <1>h DEF NextChild

\* A call returns: its object joins the record.
LEMMA PopStep ==
    ASSUME ValidatorInv, phase = "children", stack # <<>>, Top.now = <<>>, Top.later = {}, stack' = Front(stack),
           UNCHANGED <<phase, status, value, maxDepth, at, steps, failure, error, checked, recorded>>
    PROVE  ValidatorInv'
<1> DEFINE d == Len(stack)
<1>0. /\ TypeOK /\ Placed /\ Passed /\ Recorded /\ Ended
      /\ value' = value /\ maxDepth' = maxDepth /\ checked' = checked /\ phase' = phase
      /\ at' = at /\ steps' = steps /\ failure' = failure /\ error' = error /\ status' = status /\ recorded' = recorded
  BY DEF ValidatorInv
<1>1. failure = "none" BY <1>0 DEF Ended
<1>2. /\ Typed /\ maxDepth \in Nat /\ d \in Nat \ {0} /\ d - 1 \in 0..maxDepth /\ stack \in Seq(FrameType) /\ DOMAIN stack = 1..d
      /\ d \in DOMAIN stack
  BY <1>0, TypeFacts
<1>3. PICK o : o = stack[d].of OBVIOUS
<1>4. o \in Nodes /\ o \in checked /\ Top = stack[d] BY <1>0, <1>2, <1>3, TypeFacts DEF Placed, Top
<1>5. stack' \in Seq(FrameType) /\ Len(stack') = d - 1 /\ DOMAIN stack' = 1..d - 1 /\ \A i \in 1..d - 1 : stack'[i] = stack[i]
  <2>1. stack' = SubSeq(stack, 1, d - 1) BY DEF Front
  <2>2. QED BY <1>2, <2>1
<1>6. TypeOK'
  <2>1. FrameType' = FrameType /\ Nodes' = Nodes BY <1>0, Same DEF FrameType
  <2>2. (stack \in Seq(FrameType))' /\ (Len(stack) <= maxDepth + 1)' BY <1>0, <1>2, <1>5, <2>1
  <2>3. QED BY <1>0, <2>1, <2>2 DEF TypeOK
<1>7. Placed'
  <2>1. ASSUME NEW i \in 1..d - 1
        PROVE  /\ stack'[i].of \in Nested[i - 1] \cap checked
               /\ stack'[i].later \subseteq DOMAIN value.groups[stack'[i].of]
               /\ ToSet(stack'[i].now) \subseteq Members(stack'[i].of)
    <3>1. i \in DOMAIN stack BY <1>2
    <3>2. /\ stack[i].of \in Nested[i - 1] \cap checked
          /\ stack[i].later \subseteq DOMAIN value.groups[stack[i].of]
          /\ ToSet(stack[i].now) \subseteq Members(stack[i].of)
      BY <1>0, <3>1 DEF Placed
    <3>3. QED BY <1>5, <3>2
  <2>2. Nested' = Nested /\ \A n : Members(n)' = Members(n) BY <1>0, Same
  <2>3. DOMAIN stack' = 1..d - 1 /\ value' = value /\ checked' = checked BY <1>0, <1>5
  <2> HIDE DEF d
  <2>4. QED BY <2>1, <2>2, <2>3 DEF Placed
<1>8. Passed' BY <1>0, Same DEF Passed, Is
<1>9. Walking' BY <1>0 DEF Walking
<1>10. Recorded'
  <2>1. PICK W : Sound(W) /\ Covered(W) BY <1>0, <1>1 DEF Recorded
  <2>2. PICK V : V = [W EXCEPT ![d - 1] = @ \cup {o}] OBVIOUS
  <2> HIDE DEF d
  <2>3. W \in [0..maxDepth + 1 -> SUBSET Nodes] /\ d - 1 \in 0..maxDepth + 1 /\ d - 1 # maxDepth + 1 BY <1>2, <2>1 DEF Sound
  <2>4. /\ V \in [0..maxDepth + 1 -> SUBSET Nodes] /\ V[d - 1] = W[d - 1] \cup {o}
        /\ \A e \in 0..maxDepth + 1 : e # d - 1 => V[e] = W[e]
        /\ \A e \in 0..maxDepth + 1 : W[e] \subseteq V[e]
    BY <1>4, <2>2, <2>3
  <2>5. ASSUME NEW c \in Parts(o) PROVE Inside(c) \in W[d] \cup {Nothing}
    <3>1. c \in Candidates(d) /\ d \in 0..d /\ d # 0 BY <1>2, <1>3 DEF Candidates
    <3>2. Pending(d) = {} BY <1>4, <3>1 DEF Pending, ToSet
    <3>3. ~InHand(d, c) BY <1>2 DEF InHand, d
    <3>4. c \in Pending(d) \/ Inside(c) \in W[d] \cup {Nothing} \/ InHand(d, c) BY <2>1, <3>1 DEF Covered, d
    <3>5. QED BY <3>2, <3>3, <3>4
  <2>6. Sound(V)
    <3>1. V[maxDepth + 1] = {}
      <4>1. maxDepth + 1 \in 0..maxDepth + 1 BY <1>2
      <4>2. QED BY <2>1, <2>3, <2>4, <4>1 DEF Sound
    <3>2. ASSUME NEW e \in 0..maxDepth, NEW x \in V[e]
          PROVE  x \in checked /\ \A c \in Parts(x) : Inside(c) \in V[e + 1] \cup {Nothing}
      <4>0. e \in 0..maxDepth + 1 /\ e + 1 \in 0..maxDepth + 1 BY <1>2
      <4>1. CASE x \in W[e] BY <2>1, <2>4, <4>0, <4>1 DEF Sound
      <4>2. CASE x \notin W[e]
        <5>1. e = d - 1 /\ x = o BY <2>4, <4>0, <4>2
        <5>2. e + 1 = d BY <1>2, <5>1
        <5>3. QED BY <1>4, <2>4, <2>5, <4>0, <5>1, <5>2
      <4>3. QED BY <4>1, <4>2
    <3>3. QED BY <2>4, <3>1, <3>2 DEF Sound
  <2>7. Sound(V)' BY <1>0, <2>6, Same DEF Sound, Nothing
  <2>8. ASSUME NEW i \in 0..d - 1, NEW c \in Candidates(i)'
        PROVE  c \in Pending(i)' \/ Inside(c) \in V[i] \cup {Nothing} \/ InHand(i, c)'
    <3>0. i \in 0..d /\ i < d /\ i \in 0..maxDepth + 1 /\ (i = 0 \/ i \in 1..d - 1) /\ i + 1 \in 1..d BY <1>2
    <3>1. Candidates(i)' = Candidates(i)
      <4>1. CASE i = 0 BY <4>1 DEF Candidates
      <4>2. CASE i # 0
        <5>1. stack'[i] = stack[i] BY <1>5, <3>0, <4>2
        <5>2. QED BY <1>0, <4>2, <5>1, Same DEF Candidates
      <4>3. QED BY <4>1, <4>2
    <3>2. Pending(i)' = Pending(i)
      <4>1. CASE i = 0 BY <4>1 DEF Pending
      <4>2. CASE i # 0
        <5>1. stack'[i] = stack[i] BY <1>5, <3>0, <4>2
        <5>2. QED BY <1>0, <4>2, <5>1 DEF Pending
      <4>3. QED BY <4>1, <4>2
    <3>3. c \in Pending(i) \/ Inside(c) \in W[i] \cup {Nothing} \/ InHand(i, c) BY <2>1, <3>0, <3>1 DEF Covered, d
    <3>4. ASSUME InHand(i, c) PROVE Inside(c) \in V[i] \/ InHand(i, c)'
      <4>1. Inside(c) = stack[i + 1].of BY <3>0, <3>4 DEF InHand, d
      <4>2. CASE i + 1 = d
        <5>1. i = d - 1 BY <1>2, <4>2
        <5>2. QED BY <1>3, <2>4, <4>1, <4>2, <5>1
      <4>3. CASE i + 1 # d
        <5>1. i + 1 \in 1..d - 1 /\ i < d - 1 BY <1>2, <3>0, <4>3
        <5>2. stack'[i + 1] = stack[i + 1] BY <1>5, <5>1
        <5>3. InHand(i, c)' <=> Inside(c) = stack'[i + 1].of BY <1>0, <1>5, <5>1, Same DEF InHand
        <5>4. QED BY <4>1, <5>2, <5>3
      <4>4. QED BY <4>2, <4>3
    <3>5. QED BY <2>4, <3>0, <3>2, <3>3, <3>4
  <2>9. Covered(V)'
    <3>1. Len(stack') = d - 1 BY <1>5
    <3>2. \A n : Inside(n)' = Inside(n) BY <1>0, Same
    <3>3. QED BY <2>8, <3>1, <3>2 DEF Covered, Nothing
  <2>10. QED BY <2>7, <2>9 DEF Recorded
<1>11. Ended' BY <1>0, <1>1, EndedKept
<1>12. QED BY <1>6, <1>7, <1>8, <1>9, <1>10, <1>11 DEF ValidatorInv

\* Return ends a call, or the walk.
LEMMA ReturnStep == ValidatorInv /\ Return => ValidatorInv'
<1> SUFFICES ASSUME ValidatorInv, Return PROVE ValidatorInv' OBVIOUS
<1>0. /\ phase = "children" /\ TypeOK /\ Placed /\ Passed /\ Recorded /\ Ended
      /\ UNCHANGED <<value, maxDepth, at, steps, failure, error, checked, recorded>>
  BY DEF Return, ValidatorInv
<1>1. failure = "none" BY <1>0 DEF Ended
<1>2. CASE stack # <<>> /\ Top.now = <<>> /\ Top.later = {} /\ stack' = Front(stack) /\ UNCHANGED <<phase, status>>
  BY <1>0, <1>2, PopStep
<1>3. CASE stack = <<>> /\ phase' = "answered" /\ status' = 200 /\ UNCHANGED stack
  <2>1. Placed' /\ Passed' BY <1>0, <1>3, StackKept
  <2>2. TypeOK' BY <1>0, <1>3, Same DEF TypeOK, FrameType
  <2>3. Walking' BY <1>3 DEF Walking
  <2>4. Recorded'
    <3>1. \A c \in Candidates(Len(stack)) : ~InHand(Len(stack), c) BY <1>0, TypeFacts DEF InHand
    <3>2. QED BY <1>0, <1>1, <1>3, <3>1, RecordKept
  <2>5. Ended' BY <1>0, <1>1, <1>3 DEF Ended
  <2>6. QED BY <2>1, <2>2, <2>3, <2>4, <2>5 DEF ValidatorInv
<1>4. QED BY <1>2, <1>3 DEF Return

\* MapRequestError answers what failed.
LEMMA MapRequestErrorStep == ValidatorInv /\ MapRequestError => ValidatorInv'
<1> SUFFICES ASSUME ValidatorInv, MapRequestError PROVE ValidatorInv' OBVIOUS
<1>0. /\ phase = "failed" /\ TypeOK /\ Placed /\ Passed /\ Ended
      /\ value' = value /\ maxDepth' = maxDepth /\ stack' = stack /\ checked' = checked
      /\ at' = at /\ steps' = steps /\ failure' = failure /\ error' = error
      /\ status' = RequestStatus(error) /\ recorded' = (status' >= 500) /\ phase' = "answered"
  BY DEF MapRequestError, ValidatorInv
<1>1. failure # "none"
  <2>1. status # 200 BY <1>0 DEF Ended
  <2>2. QED BY <1>0, <2>1 DEF Ended
<1>2. RequestStatus(error) \in {400, 413, 415, 500} BY DEF RequestStatus
<1>3. Placed' /\ Passed' BY <1>0, StackKept
<1>4. TypeOK'
  <2>1. status' \in {0, 200, 400, 413, 415, 500} /\ recorded' \in BOOLEAN BY <1>0, <1>2
  <2>2. at' \in Nodes /\ steps' \in 0..maxDepth BY <1>0 DEF TypeOK
  <2>3. failure' \in {"none", "bind", "depth", "rule", "panic"} /\ error' \subseteq Kinds BY <1>0 DEF TypeOK
  <2>4. QED BY <1>0, <2>1, <2>2, <2>3, TypeKept
<1>5. Walking' BY <1>0 DEF Walking
<1>6. Recorded' BY <1>0, <1>1 DEF Recorded
<1>7. Ended'
  <2>1. \A n : Inside(n)' = Inside(n) /\ Children(n)' = Children(n) BY <1>0, Same
  <2>2. WithinLimits' = WithinLimits /\ PanicKinds' = PanicKinds BY <1>0, Same DEF PanicKinds
  <2>3. /\ (failure = "none" <=> phase \in {"bind", "walk", "validate", "children"} \/ status = 200)'
        /\ (status = 200 => phase = "answered")'
    BY <1>0, <1>1, <1>2
  <2>4. (phase = "answered" => IF failure = "none" THEN status = 200 /\ stack = <<>>
                               ELSE status = RequestStatus(error) /\ (recorded <=> status >= 500))'
    BY <1>0, <1>1
  <2>5. /\ (failure = "depth" => error = {"max depth"} /\ ~WithinLimits)'
        /\ (failure = "rule" => error = value.thrown)'
        /\ (failure = "panic" => error = PanicKinds)'
    BY <1>0, <2>2 DEF Ended
  <2>6. (failure \in {"rule", "panic"} =>
          /\ value.rule[at] = (IF failure = "rule" THEN "fail" ELSE "panic")
          /\ at = Inside(1) \/ \E n \in checked : \E m \in Children(n) : at = Inside(m))'
    BY <1>0, <2>1 DEF Ended
  <2>7. QED BY <2>3, <2>4, <2>5, <2>6 DEF Ended
<1>8. QED BY <1>3, <1>4, <1>5, <1>6, <1>7 DEF ValidatorInv

-----------------------------------------------------------------------------
(* Theorems *)

LEMMA ValidatorInit == Init => ValidatorInv
<1> SUFFICES ASSUME Init PROVE ValidatorInv OBVIOUS
<1>1. value \in ValueType BY ValidatorAssumption DEF Init
<1>2. maxDepth \in Nat \ {0}
  <2>1. PICK limit \in Configured : maxDepth = Depth(limit) BY DEF Init
  <2>2. limit \in Int /\ DefaultDepth \in Nat \ {0} BY ValidatorAssumption
  <2>3. QED BY <2>1, <2>2 DEF Depth
<1>3. Typed /\ 1 \in Nodes BY <1>1, <1>2, ValueFacts DEF Typed
<1>4. /\ phase = "bind" /\ at = 1 /\ steps = 0 /\ stack = <<>> /\ Len(stack) = 0 /\ DOMAIN stack = {}
      /\ failure = "none" /\ error = {} /\ checked = {} /\ status = 0 /\ recorded = FALSE
  BY DEF Init
<1>5. TypeOK
  <2>1. stack \in Seq(FrameType) /\ Len(stack) <= maxDepth + 1 /\ steps \in 0..maxDepth BY <1>2, <1>4
  <2>2. QED BY <1>1, <1>2, <1>3, <1>4, <2>1 DEF TypeOK
<1>6. Placed /\ Passed BY <1>4 DEF Placed, Passed
<1>7. Unwrapped[0][1] = 1 BY <1>3, UnwrappedDef DEF Typed
<1>8. Walking BY <1>4, <1>7 DEF Walking, Candidates
<1>9. Recorded
  <2>1. PICK W : W = [d \in 0..maxDepth + 1 |-> {}] OBVIOUS
  <2>2. Sound(W)
    <3>1. maxDepth + 1 \in 0..maxDepth + 1 /\ \A d \in 0..maxDepth : d \in 0..maxDepth + 1 BY <1>2
    <3>2. \A d \in 0..maxDepth : W[d] = {} BY <2>1, <3>1
    <3>3. QED BY <2>1, <3>1, <3>2 DEF Sound
  <2>3. ASSUME NEW i \in 0..Len(stack), NEW c \in Candidates(i) PROVE InHand(i, c)
    <3>1. i = 0 /\ ~(i < Len(stack)) BY <1>4
    <3>2. c = 1 BY <3>1 DEF Candidates
    <3>3. QED BY <1>4, <1>7, <3>1, <3>2 DEF InHand
  <2>4. Covered(W) BY <2>3 DEF Covered
  <2>5. QED BY <2>2, <2>4 DEF Recorded
<1>10. Ended BY <1>4 DEF Ended
<1>11. QED BY <1>5, <1>6, <1>8, <1>9, <1>10 DEF ValidatorInv

LEMMA ValidatorStutter == ValidatorInv /\ UNCHANGED vars => ValidatorInv'
<1> SUFFICES ASSUME ValidatorInv, UNCHANGED vars PROVE ValidatorInv' OBVIOUS
<1>0. /\ TypeOK /\ Placed /\ Passed /\ Walking /\ Recorded /\ Ended
      /\ value' = value /\ maxDepth' = maxDepth /\ stack' = stack /\ checked' = checked
      /\ at' = at /\ steps' = steps /\ failure' = failure /\ error' = error
      /\ status' = status /\ recorded' = recorded /\ phase' = phase
  BY DEF vars, ValidatorInv
<1>1. Placed' /\ Passed' BY <1>0, StackKept
<1>2. TypeOK' BY <1>0, Same DEF TypeOK, FrameType
<1>3. Walking' BY <1>0, StackKept, Same DEF Walking, Is
<1>4. Recorded'
  <2>1. \A c \in Candidates(Len(stack)) : InHand(Len(stack), c) => InHand(Len(stack), c)' BY <1>0, Same DEF InHand
  <2>2. CASE failure = "none" BY <1>0, <2>1, <2>2, RecordKept
  <2>3. CASE failure # "none" BY <1>0, <2>3 DEF Recorded
  <2>4. QED BY <2>2, <2>3
<1>5. Ended'
  <2>1. \A n : Inside(n)' = Inside(n) /\ Children(n)' = Children(n) BY <1>0, Same
  <2>2. WithinLimits' = WithinLimits /\ PanicKinds' = PanicKinds BY <1>0, Same DEF PanicKinds
  <2>3. (failure \in {"rule", "panic"} =>
          /\ value.rule[at] = (IF failure = "rule" THEN "fail" ELSE "panic")
          /\ at = Inside(1) \/ \E n \in checked : \E m \in Children(n) : at = Inside(m))'
    BY <1>0, <2>1 DEF Ended
  <2>4. QED BY <1>0, <2>2, <2>3 DEF Ended
<1>6. QED BY <1>1, <1>2, <1>3, <1>4, <1>5 DEF ValidatorInv

LEMMA ValidatorStep == ValidatorInv /\ [Next]_vars => ValidatorInv'
BY BindStep, UnwrapStep, CheckDepthStep, ExecuteStep, NextGroupStep, NextChildStep, ReturnStep, MapRequestErrorStep,
   ValidatorStutter DEF Next

\* The inductive invariant holds of every value and every limit.
THEOREM ValidatorCorrect == Spec => []ValidatorInv
BY ValidatorInit, ValidatorStep, PTL DEF Spec

\* The walk is well typed; its stack never exceeds the limit by more than one frame.
THEOREM ValidatorTyped == Spec => []TypeOK
<1>1. ValidatorInv => TypeOK BY DEF ValidatorInv
<1>2. QED BY <1>1, ValidatorCorrect, PTL

LEMMA Accepted ==
    ASSUME ValidatorInv, status = 200
    PROVE  Typed /\ Passed /\ \E W : Sound(W) /\ Inside(1) \in W[0] \cup {Nothing}
<1>1. TypeOK /\ Passed /\ Recorded /\ Ended BY DEF ValidatorInv
<1>2. Typed BY <1>1, TypeFacts
<1>3. phase = "answered" /\ failure = "none" BY <1>1 DEF Ended
<1>4. Len(stack) = 0 BY <1>1, <1>3 DEF Ended
<1>5. PICK W : Sound(W) /\ Covered(W) BY <1>1, <1>3 DEF Recorded
<1>6. 0 \in 0..Len(stack) /\ 1 \in Candidates(0) /\ Pending(0) = {} /\ ~InHand(0, 1)
  BY <1>3, <1>4 DEF Candidates, Pending, InHand
<1>7. Inside(1) \in W[0] \cup {Nothing} BY <1>5, <1>6 DEF Covered
<1>8. QED BY <1>1, <1>2, <1>5, <1>7

\* Validate accepts no value with a rule it did not run, with one that did not
\* pass, or with an object that leads back to itself.
THEOREM AcceptanceComplete == Spec => []NothingSkipped
<1>1. ASSUME ValidatorInv, status = 200
      PROVE  \A n \in {1} \cup ReachedFrom(1) :
                /\ value.rule[n] # "none" => value.rule[n] = "pass" /\ n \in checked
                /\ n \notin ReachedFrom(n)
  BY <1>1, Accepted, RecordComplete
<1>2. ValidatorInv => NothingSkipped BY <1>1 DEF NothingSkipped
<1>3. QED BY <1>2, ValidatorCorrect, PTL

\* ErrMaxDepth is raised for values beyond a limit, and such a value is never accepted.
THEOREM DepthCorrect == Spec => []DepthExact
<1>1. ValidatorInv /\ status = 200 => WithinLimits BY Accepted, RecordWithin
<1>2. ValidatorInv => (failure = "depth" => ~WithinLimits) BY DEF ValidatorInv, Ended
<1>3. ValidatorInv => DepthExact BY <1>1, <1>2 DEF DepthExact
<1>4. QED BY <1>3, ValidatorCorrect, PTL

\* A failed rule, a panic and a value too deep are answered by whose fault they are.
THEOREM FaultsCorrect == Spec => []FaultAttributed
<1>1. ASSUME ValidatorInv PROVE FaultAttributed
  <2>1. Ended BY <1>1 DEF ValidatorInv
  <2>2. ASSUME phase = "answered", failure \in {"panic", "depth"} PROVE status = 500 /\ recorded
    <3>1. status = RequestStatus(error) /\ (recorded <=> status >= 500) BY <2>1, <2>2 DEF Ended
    <3>2. error = PanicKinds \/ error = {"max depth"} BY <2>1, <2>2 DEF Ended
    <3>3. error \cap {"validation panic", "bind target", "max depth"} # {} BY <3>2 DEF PanicKinds
    <3>4. status = 500
      <4>1. error \cap {"validation panic", "bind target", "max depth", "max bytes"} # {} BY <3>3
      <4>2. RequestStatus(error) = 500 BY ONLY <3>3, <4>1, Zenon DEF RequestStatus
      <4>3. QED BY <3>1, <4>2
    <3>5. QED BY <3>1, <3>4
  <2>3. ASSUME phase = "answered", failure = "rule", value.thrown \cap {"validation panic", "bind target", "max depth"} = {}
        PROVE  status \in 400..499 /\ ~recorded
    <3>1. status = RequestStatus(error) /\ (recorded <=> status >= 500) BY <2>1, <2>3 DEF Ended
    <3>2. error = value.thrown BY <2>1, <2>3 DEF Ended
    <3>3. status \in {400, 413, 415} BY <2>3, <3>1, <3>2 DEF RequestStatus
    <3>4. QED BY <3>1, <3>3
  <2>4. QED BY <2>1, <2>2, <2>3 DEF FaultAttributed, Ended
<1>2. QED BY <1>1, ValidatorCorrect, PTL
=============================================================================
