------------------------ MODULE ResponseTemplateProofs ------------------------
(***************************************************************************)
(* ResponseTemplate implements ValueResponses for any number of goroutines,*)
(* header names and steps: responses behave as values because every array  *)
(* of header values belongs to one map, and a goroutine changes only maps  *)
(* no other response refers to.                                            *)
(***************************************************************************)
EXTENDS ResponseTemplate, SequenceTheorems, TLAPS

-----------------------------------------------------------------------------
(* The inductive invariant *)

Cells == {"free", "cause", "template", "given", "sent", "set", "added", "changed"}

\* A slice is within its array.
Within(s) == /\ s \in [array : DOMAIN arrays, len : Nat]
             /\ s.len <= Len(arrays[s.array])

\* Arrays hold values and were allocated before now, the empty one has no cells.
ArraysInv ==
    /\ clock \in Nat
    /\ \A id \in DOMAIN arrays : arrays[id] \in Seq(Cells) /\ id[3] \in 0..clock
    /\ Nil.array \in DOMAIN arrays /\ arrays[Nil.array] = <<>>

\* An array of header values is used for one name, and not for errors.
MapsInv ==
    \A m \in DOMAIN maps :
        /\ m[3] \in 0..clock
        /\ maps[m] = [n \in Names |-> maps[m][n]]
        /\ \A n \in Names :
              /\ Within(maps[m][n])
              /\ maps[m][n].array[2] # "errors"
              /\ maps[m][n].array # Nil.array => maps[m][n].array[4] = n

\* No two maps share an array.
OwnedInv ==
    \A m1, m2 \in DOMAIN maps, n1, n2 \in Names :
        maps[m1][n1].array = maps[m2][n2].array /\ maps[m1][n1].array # Nil.array => m1 = m2

Proper(r) ==
    /\ r \in [data : {"old", "own"}, header : DOMAIN maps, errors : [array : DOMAIN arrays, len : Nat]]
    /\ Within(r.errors) /\ (r.errors.array = Nil.array \/ r.errors.array[2] = "errors")

\* The headers of a goroutine's response are the template's or were made for it.
Belongs(r, g) == r.header[1] = Shared \/ (r.header[1] = g /\ r.header[2] = "header")

ResponsesInv ==
    /\ Proper(template) /\ template.header[1] = Shared
    /\ response = [g \in Goroutines |-> response[g]] /\ kept = [g \in Goroutines |-> kept[g]]
    /\ given = [g \in Goroutines |-> <<g, "given", 0>>] /\ sent = [g \in Goroutines |-> <<g, "sent", 0>>]
    /\ detached \in [Goroutines -> BOOLEAN]
    /\ \A g \in Goroutines :
          /\ Proper(response[g]) /\ Belongs(response[g], g)
          /\ Proper(kept[g]) /\ Belongs(kept[g], g)
          /\ given[g] \in DOMAIN maps /\ sent[g] \in DOMAIN maps
          /\ detached[g] => response[g].header[1] = g /\ response[g].header # kept[g].header

TemplateInv == ArraysInv /\ MapsInv /\ OwnedInv /\ ResponsesInv

-----------------------------------------------------------------------------
(* Functions and slices *)

LEMMA ExtendedFacts ==
    ASSUME NEW f, NEW h
    PROVE  /\ DOMAIN Extended(f, h) = (DOMAIN f) \cup (DOMAIN h)
           /\ \A x \in DOMAIN h : Extended(f, h)[x] = h[x]
           /\ \A x \in (DOMAIN f) \ (DOMAIN h) : Extended(f, h)[x] = f[x]
BY DEF Extended

LEMMA EntryFacts ==
    ASSUME NEW x, NEW v
    PROVE  DOMAIN Entry(x, v) = {x} /\ Entry(x, v)[x] = v
BY DEF Entry

\* The first values of a sequence, read back.
LEMMA Front ==
    ASSUME NEW v \in Seq(Cells), NEW w \in Seq(Cells)
    PROVE  /\ v \o w \in Seq(Cells) /\ Len(v) <= Len(v \o w)
           /\ SubSeq(v \o w, 1, Len(v)) = v
<1>1. /\ v \o w \in Seq(Cells) /\ Len(v \o w) = Len(v) + Len(w) /\ Len(v) \in Nat /\ Len(w) \in Nat
      /\ \A i \in 1..Len(v) : (v \o w)[i] = v[i]
    BY ConcatProperties, LenProperties
<1>2. Len(v) <= Len(v \o w)
    BY <1>1
<1>3. PICK u \in Seq(Cells) : u = v \o w
    BY <1>1
<1>4. \A i \in 1..Len(v) : u[i] \in Cells
    BY <1>1, <1>2, <1>3, ElementOfSeq, LenProperties
<1>5. SubSeq(u, 1, Len(v)) \in Seq(Cells) /\ Len(SubSeq(u, 1, Len(v))) = Len(v)
      /\ \A i \in 1..Len(v) : SubSeq(u, 1, Len(v))[i] = u[i]
    BY <1>1, <1>2, <1>3, <1>4
<1>6. SubSeq(u, 1, Len(v)) = v
    BY <1>1, <1>3, <1>5, SeqEqual
<1> QED BY <1>1, <1>2, <1>3, <1>6

LEMMA Single ==
    ASSUME NEW x
    PROVE  SubSeq(<<x>>, 1, 1) = <<x>> /\ Len(<<x>>) = 1
<1>1. <<x>> \in Seq({x}) /\ Len(<<x>>) = 1
    OBVIOUS
<1>2. PICK u \in Seq({x}) : u = <<x>> /\ Len(u) = 1 /\ u[1] = x
    BY <1>1
<1>3. SubSeq(u, 1, 1) \in Seq({x}) /\ Len(SubSeq(u, 1, 1)) = 1 /\ SubSeq(u, 1, 1)[1] = u[1]
    BY <1>2
<1>4. \A i \in 1..Len(u) : u[i] = SubSeq(u, 1, 1)[i]
    BY <1>2, <1>3
<1>5. SubSeq(u, 1, 1) = u
    BY <1>2, <1>3, <1>4, SeqEqual
<1> QED BY <1>2, <1>5

\* The empty slice has no array, and no other slice is without one.
LEMMA NilFacts ==
    ASSUME ArraysInv, NEW s, Within(s)
    PROVE  /\ s.array = Nil.array => s.len = 0
           /\ Contents(s) \in Seq(Cells) /\ Len(Contents(s)) = s.len
           /\ \A i \in 1..s.len : Contents(s)[i] = arrays[s.array][i]
<1>1. s.len \in Nat /\ s.array \in DOMAIN arrays /\ arrays[s.array] \in Seq(Cells) /\ s.len <= Len(arrays[s.array])
    BY DEF Within, ArraysInv
<1>2. ASSUME s.array = Nil.array PROVE s.len = 0
    <2>1. Len(arrays[s.array]) = 0
        BY <1>2, EmptySeq DEF ArraysInv
    <2> QED BY <1>1, <2>1
<1>3. PICK a \in Seq(Cells) : a = arrays[s.array]
    BY <1>1
<1>4. PICK k \in Nat : k = s.len /\ k <= Len(a)
    BY <1>1, <1>3
<1>5. \A i \in 1..k : a[i] \in Cells
    BY <1>4, ElementOfSeq, LenProperties
<1>6. SubSeq(a, 1, k) \in Seq(Cells) /\ Len(SubSeq(a, 1, k)) = k /\ \A i \in 1..k : SubSeq(a, 1, k)[i] = a[i]
    BY <1>4, <1>5
<1> QED BY <1>2, <1>3, <1>4, <1>6 DEF Contents

\* A slice of the next state: what it shows, and that it is of an array just
\* allocated for this name, or empty.
Installed(s, n, v) ==
    /\ s \in [array : DOMAIN arrays', len : Nat]
    /\ s.len <= Len(arrays'[s.array])
    /\ SubSeq(arrays'[s.array], 1, s.len) = v
    /\ s.array # Nil.array => s.array[2] # "errors" /\ s.array[3] = clock + 1 /\ s.array[4] = n

LEMMA SliceInstalled ==
    ASSUME NEW id \in DOMAIN arrays', NEW v \in Seq(Cells), NEW w \in Seq(Cells), NEW n,
           arrays'[id] = v \o w, Nil.array \in DOMAIN arrays', arrays'[Nil.array] = <<>>,
           id[2] # "errors", id[3] = clock + 1, id[4] = n
    PROVE  Installed(Slice(id, v), n, v)
<1>1. CASE v = <<>>
    <2>1. Slice(id, v).array = Nil.array /\ Slice(id, v).len = 0 /\ Slice(id, v) \in [array : DOMAIN arrays', len : Nat]
        BY <1>1 DEF Slice, Nil
    <2>2. SubSeq(arrays'[Nil.array], 1, 0) = <<>> /\ Len(arrays'[Nil.array]) = 0
        OBVIOUS
    <2> QED BY <1>1, <2>1, <2>2 DEF Installed
<1>2. CASE v # <<>>
    <2>1. Slice(id, v) = [array |-> id, len |-> Len(v)]
        BY <1>2 DEF Slice
    <2>2. Len(v) \in Nat
        BY LenProperties
    <2> QED BY <2>1, <2>2, Front DEF Installed
<1> QED BY <1>1, <1>2

-----------------------------------------------------------------------------
(* How the memory may change *)

\* A map that exists keeps its entries, and what they show.
Untouched(m) == /\ maps'[m] = maps[m]
                /\ \A n \in Names : arrays'[maps[m][n].array] = arrays[maps[m][n].array]

\* Of the maps that exist only those of M change, and no error is overwritten.
Limited(M) ==
    /\ (ArraysInv /\ MapsInv /\ OwnedInv)'
    /\ DOMAIN maps \subseteq DOMAIN maps' /\ DOMAIN arrays \subseteq DOMAIN arrays'
    /\ \A id \in DOMAIN arrays : id = Nil.array \/ id[2] = "errors" => arrays'[id] = arrays[id]
    /\ \A id \in DOMAIN arrays : Len(arrays'[id]) = Len(arrays[id])
    /\ \A m \in (DOMAIN maps) \ M : Untouched(m)

\* Arrays are added, and at most one map is added or changed, by slices of the new arrays.
LEMMA Growth ==
    ASSUME ArraysInv, MapsInv, OwnedInv, clock' = clock + 1,
           NEW M, \A m1, m2 \in M : m1 = m2,
           \A id \in DOMAIN arrays : id \in DOMAIN arrays' /\ arrays'[id] = arrays[id],
           \A id \in (DOMAIN arrays') \ (DOMAIN arrays) : arrays'[id] \in Seq(Cells) /\ id[3] = clock + 1,
           DOMAIN maps' = (DOMAIN maps) \cup M,
           \A m \in (DOMAIN maps) \ M : maps'[m] = maps[m],
           \A m \in M : /\ m[3] \in 0..(clock + 1)
                        /\ maps'[m] = [n \in Names |-> maps'[m][n]]
                        /\ \A n \in Names : \/ \E v : Installed(maps'[m][n], n, v)
                                            \/ m \in DOMAIN maps /\ maps'[m][n] = maps[m][n]
    PROVE  Limited(M)
<1>0. clock \in Nat
    BY DEF ArraysInv
<1>1. ArraysInv'
    <2>1. ASSUME NEW id \in DOMAIN arrays' PROVE arrays'[id] \in Seq(Cells) /\ id[3] \in 0..(clock + 1)
        BY <1>0 DEF ArraysInv
    <2> QED BY <1>0, <2>1 DEF ArraysInv
\* An entry is an old one or of a new array.
<1>2. ASSUME NEW m \in DOMAIN maps', NEW n \in Names
      PROVE  \/ m \in DOMAIN maps /\ maps'[m][n] = maps[m][n]
             \/ m \in M /\ \E v : Installed(maps'[m][n], n, v)
    OBVIOUS
<1>3. MapsInv'
    <2>1. ASSUME NEW m \in DOMAIN maps' PROVE m[3] \in 0..(clock + 1) /\ maps'[m] = [n \in Names |-> maps'[m][n]]
        BY <1>0 DEF MapsInv
    <2>2. ASSUME NEW m \in DOMAIN maps', NEW n \in Names
          PROVE  /\ Within(maps[m][n])'
                 /\ maps'[m][n].array[2] # "errors"
                 /\ maps'[m][n].array # Nil.array => maps'[m][n].array[4] = n
        <3>1. CASE m \in DOMAIN maps /\ maps'[m][n] = maps[m][n]
            <4>1. /\ Within(maps[m][n]) /\ maps[m][n].array[2] # "errors"
                  /\ maps[m][n].array # Nil.array => maps[m][n].array[4] = n
                BY <3>1 DEF MapsInv
            <4>2. maps[m][n].array \in DOMAIN arrays' /\ arrays'[maps[m][n].array] = arrays[maps[m][n].array]
                BY <4>1 DEF Within
            <4> QED BY <3>1, <4>1, <4>2 DEF Within
        <3>2. CASE \E v : Installed(maps'[m][n], n, v)
            <4>1. Nil.array[2] # "errors"
                BY DEF Nil
            <4> QED BY <3>2, <4>1 DEF Installed, Within
        <3> QED BY <1>2, <3>1, <3>2
    <2> QED BY <2>1, <2>2 DEF MapsInv
<1>4. OwnedInv'
    <2> SUFFICES ASSUME NEW m1 \in DOMAIN maps', NEW m2 \in DOMAIN maps', NEW n1 \in Names, NEW n2 \in Names,
                        maps'[m1][n1].array = maps'[m2][n2].array, maps'[m1][n1].array # Nil.array
                 PROVE  m1 = m2
        BY DEF OwnedInv
    <2>1. ASSUME NEW m \in DOMAIN maps', NEW n \in Names, maps'[m][n].array # Nil.array
          PROVE  \/ m \in DOMAIN maps /\ maps'[m][n] = maps[m][n] /\ maps'[m][n].array[3] \in 0..clock
                 \/ m \in M /\ maps'[m][n].array[3] = clock + 1
        <3>1. CASE m \in DOMAIN maps /\ maps'[m][n] = maps[m][n]
            BY <3>1 DEF MapsInv, ArraysInv, Within
        <3>2. CASE m \in M /\ \E v : Installed(maps'[m][n], n, v)
            BY <2>1, <3>2 DEF Installed
        <3> QED BY <1>2, <3>1, <3>2
    <2>2. clock + 1 \notin 0..clock
        BY <1>0
    <2>3. CASE m1 \in DOMAIN maps /\ maps'[m1][n1] = maps[m1][n1] /\ m2 \in DOMAIN maps /\ maps'[m2][n2] = maps[m2][n2]
        BY <2>3 DEF OwnedInv
    <2> QED BY <2>1, <2>2, <2>3
<1>5. ASSUME NEW m \in (DOMAIN maps) \ M PROVE Untouched(m)
    <2>1. ASSUME NEW n \in Names PROVE arrays'[maps[m][n].array] = arrays[maps[m][n].array]
        BY DEF MapsInv, Within
    <2> QED BY <2>1 DEF Untouched
<1> QED BY <1>1, <1>3, <1>4, <1>5 DEF Limited

\* One entry of one map becomes s.
Replaced(m, n, s) ==
    /\ DOMAIN maps' = DOMAIN maps /\ \A k \in (DOMAIN maps) \ {m} : maps'[k] = maps[k]
    /\ maps'[m] = [k \in Names |-> maps'[m][k]]
    /\ maps'[m][n] = s /\ \A k \in Names \ {n} : maps'[m][k] = maps[m][k]

\* The array of one entry of one map has these cells, and the slice this length.
Overwritten(m, n, cells, len) ==
    /\ maps[m][n].array # Nil.array
    /\ Len(cells) = Len(arrays[maps[m][n].array]) /\ len <= Len(cells)
    /\ arrays' = [arrays EXCEPT ![maps[m][n].array] = cells]
    /\ Replaced(m, n, [array |-> maps[m][n].array, len |-> len])

OthersStay(m, n) == \A k \in Names \ {n} : maps'[m][k] = maps[m][k] /\ arrays'[maps[m][k].array] = arrays[maps[m][k].array]

\* One array of one map is overwritten, and the slice over it may be longer then.
LEMMA Overwrite ==
    ASSUME ArraysInv, MapsInv, OwnedInv, clock' = clock + 1,
           NEW m \in DOMAIN maps, NEW n \in Names, NEW cells \in Seq(Cells), NEW len \in Nat,
           Overwritten(m, n, cells, len)
    PROVE  Limited({m}) /\ OthersStay(m, n)
<1> DEFINE id == maps[m][n].array
<1> USE DEF Overwritten
<1>0. clock \in Nat /\ id \in DOMAIN arrays /\ id # Nil.array /\ id[2] # "errors" /\ id[4] = n
    BY DEF ArraysInv, MapsInv, Within
<1>1. /\ DOMAIN maps' = DOMAIN maps /\ \A k \in (DOMAIN maps) \ {m} : maps'[k] = maps[k]
      /\ DOMAIN arrays' = DOMAIN arrays /\ \A a \in (DOMAIN arrays) \ {id} : arrays'[a] = arrays[a]
      /\ arrays'[id] = cells
    BY <1>0 DEF Replaced
<1>3. /\ maps'[m] = [k \in Names |-> maps'[m][k]]
      /\ \A k \in Names \ {n} : maps'[m][k] = maps[m][k]
      /\ maps'[m][n] = [array |-> id, len |-> len]
    BY DEF Replaced
<1> HIDE DEF id
<1>4. \A k \in DOMAIN maps, i \in Names : maps'[k][i].array = maps[k][i].array
    <2> SUFFICES ASSUME NEW k \in DOMAIN maps, NEW i \in Names PROVE maps'[k][i].array = maps[k][i].array
        OBVIOUS
    <2>1. CASE k = m /\ i = n
        BY <1>3, <2>1 DEF id
    <2>2. CASE k = m /\ i # n
        BY <1>3, <2>2
    <2>3. CASE k # m
        BY <1>1, <2>3
    <2> QED BY <2>1, <2>2, <2>3
<1>5. \A a \in DOMAIN arrays : arrays'[a] \in Seq(Cells) /\ Len(arrays'[a]) = Len(arrays[a])
    BY <1>1 DEF ArraysInv, id
<1>6. ArraysInv'
    <2>1. \A a \in DOMAIN arrays : a[3] \in 0..(clock + 1)
        BY <1>0 DEF ArraysInv
    <2>2. Nil.array \in DOMAIN arrays /\ arrays'[Nil.array] = <<>>
        BY <1>0, <1>1 DEF ArraysInv
    <2> QED BY <1>0, <1>1, <1>5, <2>1, <2>2 DEF ArraysInv
<1>7. MapsInv'
    <2>1. ASSUME NEW k \in DOMAIN maps, NEW i \in Names
          PROVE  /\ Within(maps[k][i])'
                 /\ maps'[k][i].array[2] # "errors"
                 /\ maps'[k][i].array # Nil.array => maps'[k][i].array[4] = i
        <3>1. /\ Within(maps[k][i]) /\ maps[k][i].array[2] # "errors"
              /\ maps[k][i].array # Nil.array => maps[k][i].array[4] = i
            BY DEF MapsInv
        <3>2. Within(maps[k][i])'
            <4>1. CASE k = m /\ i = n
                BY <1>0, <1>1, <1>3, <4>1 DEF Within
            <4>2. CASE ~(k = m /\ i = n)
                <5>1. maps'[k][i] = maps[k][i]
                    BY <1>1, <1>3, <4>2
                <5> QED BY <1>1, <1>5, <3>1, <5>1 DEF Within
            <4> QED BY <4>1, <4>2
        <3> QED BY <1>4, <3>1, <3>2
    <2>2. ASSUME NEW k \in DOMAIN maps PROVE k[3] \in 0..(clock + 1) /\ maps'[k] = [i \in Names |-> maps'[k][i]]
        <3>1. k[3] \in 0..(clock + 1) /\ maps[k] = [i \in Names |-> maps[k][i]]
            BY <1>0 DEF MapsInv
        <3> QED BY <1>1, <1>3, <3>1
    <2> QED BY <1>1, <2>1, <2>2 DEF MapsInv
<1>8. OwnedInv'
    BY <1>1, <1>4 DEF OwnedInv
<1>9. ASSUME NEW k \in DOMAIN maps, NEW i \in Names, ~(k = m /\ i = n)
      PROVE  arrays'[maps[k][i].array] = arrays[maps[k][i].array]
    <2>1. maps[k][i].array \in DOMAIN arrays
        BY DEF MapsInv, Within
    <2>2. maps[k][i].array # id
        <3> SUFFICES ASSUME maps[k][i].array = id PROVE FALSE
            OBVIOUS
        <3>1. k = m
            BY <1>0 DEF OwnedInv, id
        <3>2. maps[k][i].array[4] = i
            BY <1>0 DEF MapsInv
        <3> QED BY <1>0, <1>9, <3>1, <3>2
    <2> QED BY <1>1, <2>1, <2>2
<1>10. ASSUME NEW k \in (DOMAIN maps) \ {m} PROVE Untouched(k)
    BY <1>1, <1>9 DEF Untouched
<1>11. \A a \in DOMAIN arrays : a = Nil.array \/ a[2] = "errors" => arrays'[a] = arrays[a]
    BY <1>0, <1>1
<1> QED BY <1>1, <1>3, <1>5, <1>6, <1>7, <1>8, <1>9, <1>10, <1>11 DEF Limited, OthersStay, id

-----------------------------------------------------------------------------
(* What responses show *)

\* HeaderValue and Value of memory m, a.
Shown(m, a, map) == [n \in Names |-> SubSeq(a[m[map][n].array], 1, m[map][n].len)]
Read(a, s) == SubSeq(a[s.array], 1, s.len)
Whole(m, a, r) == [data |-> r.data, header |-> Shown(m, a, r.header), errors |-> Read(a, r.errors)]

SetData(v, x)   == [v EXCEPT !.data = x]
SetHeader(v, x) == [v EXCEPT !.header = x]
SetErrors(v, x) == [v EXCEPT !.errors = x]

\* The value of a response, after a change of one part.
LEMMA DataChanged ==
    ASSUME NEW m1, NEW a1, NEW r1, NEW m2, NEW a2, NEW r2, NEW x,
           r2.data = x,
           Shown(m2, a2, r2.header) = Shown(m1, a1, r1.header),
           Read(a2, r2.errors) = Read(a1, r1.errors)
    PROVE  Whole(m2, a2, r2) = SetData(Whole(m1, a1, r1), x)
<1>1. PICK d1, h1, e1 : d1 = r1.data /\ h1 = Shown(m1, a1, r1.header) /\ e1 = Read(a1, r1.errors)
    OBVIOUS
<1>2. PICK v : v = [data |-> d1, header |-> h1, errors |-> e1] /\ v = Whole(m1, a1, r1)
    BY <1>1 DEF Whole, Read
<1>3. [v EXCEPT !.data = x] \in [data : {x}, header : {h1}, errors : {e1}]
    BY <1>2
<1>4. Whole(m2, a2, r2) \in [data : {x}, header : {h1}, errors : {e1}]
    BY <1>1 DEF Whole, Read
<1>5. Whole(m2, a2, r2) = [v EXCEPT !.data = x]
    BY <1>3, <1>4
<1> QED BY <1>2, <1>5 DEF SetData

LEMMA HeaderChanged ==
    ASSUME NEW m1, NEW a1, NEW r1, NEW m2, NEW a2, NEW r2, NEW x,
           r2.data = r1.data,
           Shown(m2, a2, r2.header) = x,
           Read(a2, r2.errors) = Read(a1, r1.errors)
    PROVE  Whole(m2, a2, r2) = SetHeader(Whole(m1, a1, r1), x)
<1>1. PICK d1, h1, e1 : d1 = r1.data /\ h1 = Shown(m1, a1, r1.header) /\ e1 = Read(a1, r1.errors)
    OBVIOUS
<1>2. PICK v : v = [data |-> d1, header |-> h1, errors |-> e1] /\ v = Whole(m1, a1, r1)
    BY <1>1 DEF Whole, Read
<1>3. [v EXCEPT !.header = x] \in [data : {d1}, header : {x}, errors : {e1}]
    BY <1>2
<1>4. Whole(m2, a2, r2) \in [data : {d1}, header : {x}, errors : {e1}]
    BY <1>1 DEF Whole, Read
<1>5. Whole(m2, a2, r2) = [v EXCEPT !.header = x]
    BY <1>3, <1>4
<1> QED BY <1>2, <1>5 DEF SetHeader

LEMMA ErrorsChanged ==
    ASSUME NEW m1, NEW a1, NEW r1, NEW m2, NEW a2, NEW r2, NEW x,
           r2.data = r1.data,
           Shown(m2, a2, r2.header) = Shown(m1, a1, r1.header),
           Read(a2, r2.errors) = x
    PROVE  Whole(m2, a2, r2) = SetErrors(Whole(m1, a1, r1), x)
<1>1. PICK d1, h1, e1 : d1 = r1.data /\ h1 = Shown(m1, a1, r1.header) /\ e1 = Read(a1, r1.errors)
    OBVIOUS
<1>2. PICK v : v = [data |-> d1, header |-> h1, errors |-> e1] /\ v = Whole(m1, a1, r1)
    BY <1>1 DEF Whole, Read
<1>3. [v EXCEPT !.errors = x] \in [data : {d1}, header : {h1}, errors : {x}]
    BY <1>2
<1>4. Whole(m2, a2, r2) \in [data : {d1}, header : {h1}, errors : {x}]
    BY <1>1 DEF Whole, Read
<1>5. Whole(m2, a2, r2) = [v EXCEPT !.errors = x]
    BY <1>3, <1>4
<1> QED BY <1>2, <1>5 DEF SetErrors

LEMMA WholeFacts ==
    ASSUME NEW m, NEW a, NEW r
    PROVE  /\ Whole(m, a, r).data = r.data /\ Whole(m, a, r).header = Shown(m, a, r.header)
           /\ Whole(m, a, r).errors = Read(a, r.errors)
BY DEF Whole

LEMMA ShownNow ==
    /\ \A map : HeaderValue(map) = Shown(maps, arrays, map)
    /\ \A r : Value(r) = Whole(maps, arrays, r)
BY DEF HeaderValue, Value, Contents, Shown, Whole, Read

LEMMA ShownNext ==
    /\ \A map : HeaderValue(map)' = Shown(maps', arrays', map)
    /\ \A r : Value(r)' = Whole(maps', arrays', r)
BY DEF HeaderValue, Value, Contents, Shown, Whole, Read

\* What does not refer to a changed map shows what it did.
LEMMA Same ==
    ASSUME TemplateInv, NEW M, Limited(M)
    PROVE  /\ \A m \in (DOMAIN maps) \ M : Shown(maps', arrays', m) = Shown(maps, arrays, m)
           /\ \A r : Proper(r) => Read(arrays', r.errors) = Read(arrays, r.errors)
           /\ \A r : Proper(r) /\ r.header \notin M => Whole(maps', arrays', r) = Whole(maps, arrays, r)
           /\ \A r : Proper(r) => Proper(r)'
           /\ template' = template /\ template.header \notin M => Memory' = Memory
<1>1. ASSUME NEW m \in (DOMAIN maps) \ M PROVE Shown(maps', arrays', m) = Shown(maps, arrays, m)
    <2>1. Untouched(m)
        BY DEF Limited
    <2>2. \A n \in Names : arrays'[maps'[m][n].array] = arrays[maps[m][n].array] /\ maps'[m][n].len = maps[m][n].len
        BY <2>1 DEF Untouched
    <2> QED BY <2>2 DEF Shown
<1>2. ASSUME NEW r, Proper(r) PROVE arrays'[r.errors.array] = arrays[r.errors.array]
    BY <1>2 DEF Proper, Limited, Within
<1>3. ASSUME NEW r, Proper(r), r.header \notin M PROVE Whole(maps', arrays', r) = Whole(maps, arrays, r)
    <2>1. r.header \in DOMAIN maps
        BY <1>3 DEF Proper
    <2> QED BY <1>1, <1>2, <1>3, <2>1 DEF Whole, Read
<1>4. ASSUME NEW r, Proper(r) PROVE Proper(r)'
    <2>1. DOMAIN maps \subseteq DOMAIN maps' /\ DOMAIN arrays \subseteq DOMAIN arrays'
        BY DEF Limited
    <2>2. arrays'[r.errors.array] = arrays[r.errors.array]
        BY <1>2, <1>4
    <2>3. r \in [data : {"old", "own"}, header : DOMAIN maps', errors : [array : DOMAIN arrays', len : Nat]]
        BY <1>4, <2>1 DEF Proper
    <2>4. Within(r.errors)'
        BY <1>4, <2>1, <2>2 DEF Proper, Within
    <2> QED BY <1>4, <2>3, <2>4 DEF Proper
<1>5. ASSUME template' = template, template.header \notin M PROVE Memory' = Memory
    <2>1. Proper(template)
        BY DEF TemplateInv, ResponsesInv
    <2>2. Untouched(template.header)
        BY <1>5, <2>1 DEF Limited, Proper
    <2>3. /\ maps'[template.header] = maps[template.header]
          /\ \A n \in Names : arrays'[maps'[template.header][n].array] = arrays[maps[template.header][n].array]
        BY <2>2 DEF Untouched
    <2>4. arrays'[template.errors.array] = arrays[template.errors.array]
        BY <1>2, <2>1
    <2> QED BY <1>5, <2>3, <2>4 DEF Memory
<1>6. \A r : Proper(r) => Read(arrays', r.errors) = Read(arrays, r.errors)
    BY <1>2 DEF Read
<1> QED BY <1>1, <1>3, <1>4, <1>5, <1>6

\* The header values of a map, and the slices of a map built from them.
LEMMA HeaderFacts ==
    ASSUME TemplateInv, NEW m \in DOMAIN maps
    PROVE  /\ Shown(maps, arrays, m) \in [Names -> Seq(Cells)]
           /\ [n \in Names |-> Contents(maps[m][n])] = Shown(maps, arrays, m)
           /\ \A n \in Names : Len(Shown(maps, arrays, m)[n]) = maps[m][n].len
<1>1. \A n \in Names : Contents(maps[m][n]) = Shown(maps, arrays, m)[n]
    BY DEF Contents, Shown
<1>2. ASSUME NEW n \in Names PROVE Contents(maps[m][n]) \in Seq(Cells) /\ Len(Contents(maps[m][n])) = maps[m][n].len
    BY NilFacts DEF TemplateInv, MapsInv
<1>3. [n \in Names |-> Contents(maps[m][n])] = Shown(maps, arrays, m)
    BY DEF Contents, Shown
<1> QED BY <1>1, <1>2, <1>3

\* A function of the header names.
Mapping(f) == f = [n \in Names |-> f[n]]

LEMMA BuiltFacts ==
    ASSUME NEW map, NEW values \in [Names -> Seq(Cells)], NEW spare \in Seq(Cells)
    PROVE  /\ Mapping(Built(map, values, spare).map)
           /\ \A n \in Names : /\ Built(map, values, spare).map[n] = Slice(ArrayOf(map, n), values[n])
                               /\ ArrayOf(map, n) \in DOMAIN Built(map, values, spare).arrays
                               /\ Built(map, values, spare).arrays[ArrayOf(map, n)] = values[n] \o spare
           /\ \A id \in DOMAIN Built(map, values, spare).arrays :
                 Built(map, values, spare).arrays[id] \in Seq(Cells) /\ id[1] = map[1] /\ id[2] = map[2] /\ id[3] = map[3]
<1>1. \A n \in Names : ArrayOf(map, n)[4] = n /\ ArrayOf(map, n)[3] = map[3] /\ ArrayOf(map, n)[2] = map[2] /\ ArrayOf(map, n)[1] = map[1]
    BY DEF ArrayOf
<1>2. \A n \in Names : values[n] \o spare \in Seq(Cells)
    BY ConcatProperties
<1> DEFINE B == Built(map, values, spare)
<1>3. /\ B.map = [n \in Names |-> Slice(ArrayOf(map, n), values[n])]
      /\ B.arrays = [id \in {ArrayOf(map, n) : n \in Names} |-> values[id[4]] \o spare]
    BY DEF Built
<1> HIDE DEF B
<1>4. DOMAIN B.arrays = {ArrayOf(map, n) : n \in Names}
    BY <1>3
<1>5. ASSUME NEW n \in Names PROVE B.arrays[ArrayOf(map, n)] = values[n] \o spare
    <2>1. ArrayOf(map, n) \in {ArrayOf(map, k) : k \in Names}
        OBVIOUS
    <2>2. B.arrays[ArrayOf(map, n)] = values[ArrayOf(map, n)[4]] \o spare
        BY <1>3, <2>1
    <2> QED BY <1>1, <2>2
<1>6. ASSUME NEW id \in DOMAIN B.arrays PROVE B.arrays[id] \in Seq(Cells) /\ id[1] = map[1] /\ id[2] = map[2] /\ id[3] = map[3]
    <2>1. PICK n \in Names : id = ArrayOf(map, n)
        BY <1>4
    <2>2. B.arrays[id] = values[n] \o spare
        BY <1>5, <2>1
    <2> QED BY <1>1, <1>2, <2>1, <2>2
<1>7. Mapping(B.map) /\ \A n \in Names : B.map[n] = Slice(ArrayOf(map, n), values[n]) /\ ArrayOf(map, n) \in DOMAIN B.arrays
    BY <1>3, <1>4 DEF Mapping
<1> QED BY <1>5, <1>6, <1>7 DEF B

\* Arrays with the time of this step are new.
LEMMA AllocateFacts ==
    ASSUME ArraysInv, NEW new, \A id \in DOMAIN new : new[id] \in Seq(Cells) /\ id[3] = clock + 1, Allocate(new)
    PROVE  /\ \A id \in DOMAIN arrays : id \in DOMAIN arrays' /\ arrays'[id] = arrays[id]
           /\ \A id \in (DOMAIN arrays') \ (DOMAIN arrays) : arrays'[id] \in Seq(Cells) /\ id[3] = clock + 1
           /\ \A id \in DOMAIN new : id \in DOMAIN arrays' /\ arrays'[id] = new[id]
           /\ Nil.array \in DOMAIN arrays' /\ arrays'[Nil.array] = <<>>
<1>1. /\ DOMAIN arrays' = (DOMAIN arrays) \cup (DOMAIN new)
      /\ \A id \in DOMAIN new : arrays'[id] = new[id]
      /\ \A id \in (DOMAIN arrays) \ (DOMAIN new) : arrays'[id] = arrays[id]
    <2>1. arrays' = Extended(arrays, new)
        BY DEF Allocate
    <2>2. /\ DOMAIN Extended(arrays, new) = (DOMAIN arrays) \cup (DOMAIN new)
          /\ \A id \in DOMAIN new : Extended(arrays, new)[id] = new[id]
          /\ \A id \in (DOMAIN arrays) \ (DOMAIN new) : Extended(arrays, new)[id] = arrays[id]
        BY ExtendedFacts
    <2> QED BY <2>1, <2>2
<1>2. \A id \in DOMAIN arrays : id \notin DOMAIN new
    <2>1. clock + 1 \notin 0..clock
        BY DEF ArraysInv
    <2> QED BY <2>1 DEF ArraysInv
<1> QED BY <1>1, <1>2 DEF ArraysInv

\* A map of new slices shows what they do.
LEMMA InstalledShown ==
    ASSUME NEW m, NEW v, Mapping(v), \A n \in Names : SubSeq(arrays'[maps'[m][n].array], 1, maps'[m][n].len) = v[n]
    PROVE  Shown(maps', arrays', m) = v
BY DEF Shown, Mapping

\* A map or array of this step is not one that exists.
LEMMA NewMapFacts ==
    ASSUME TemplateInv, NEW g \in Goroutines
    PROVE  /\ NewMap(g) \notin DOMAIN maps /\ NewMap(g)[1] = g /\ NewMap(g)[2] = "header" /\ NewMap(g)[3] = clock + 1
           /\ NewMap(g)[3] \in 0..(clock + 1) /\ clock \in Nat
<1>1. clock \in Nat /\ clock + 1 \notin 0..clock
    BY DEF TemplateInv, ArraysInv
<1> QED BY <1>1 DEF TemplateInv, MapsInv, NewMap

\* The maps a goroutine changes in place are referred to once.
LEMMA OwnFacts ==
    ASSUME TemplateInv, NEW g \in Goroutines, NEW m \in OwnMaps(g)
    PROVE  /\ m \in DOMAIN maps /\ template.header # m
           /\ \A h \in Goroutines : kept[h].header # m
           /\ \A h \in Goroutines \ {g} : given[h] # m /\ sent[h] # m /\ response[h].header # m
           /\ \/ given[g] = m /\ sent[g] # m /\ response[g].header # m
              \/ sent[g] = m /\ given[g] # m /\ response[g].header # m
              \/ response[g].header = m /\ sent[g] # m /\ given[g] # m /\ detached[g]
<1>1. ResponsesInv /\ Shared # g
    BY TemplateAssumption DEF TemplateInv
<1>2. \A h \in Goroutines : given[h][1] = h /\ given[h][2] = "given" /\ sent[h][1] = h /\ sent[h][2] = "sent"
    BY <1>1 DEF ResponsesInv
<1>3. \A h \in Goroutines : /\ response[h].header[1] = Shared \/ (response[h].header[1] = h /\ response[h].header[2] = "header")
                            /\ kept[h].header[1] = Shared \/ (kept[h].header[1] = h /\ kept[h].header[2] = "header")
    BY <1>1 DEF ResponsesInv, Belongs
<1>4. m = given[g] \/ m = sent[g] \/ (detached[g] /\ m = response[g].header)
    BY DEF OwnMaps
<1>5. detached[g] => response[g].header[1] = g /\ response[g].header # kept[g].header
    BY <1>1 DEF ResponsesInv
<1>6. m[1] = g /\ (m[2] \in {"given", "sent"} \/ (detached[g] /\ m = response[g].header))
    BY <1>2, <1>4, <1>5
<1>7. m \in DOMAIN maps /\ template.header # m
    BY <1>1, <1>4, <1>6 DEF ResponsesInv, Proper
<1>8. \A h \in Goroutines : kept[h].header # m
    BY <1>1, <1>3, <1>5, <1>6
<1>9. \A h \in Goroutines \ {g} : given[h] # m /\ sent[h] # m /\ response[h].header # m
    <2> SUFFICES ASSUME NEW h \in Goroutines \ {g} PROVE given[h] # m /\ sent[h] # m /\ response[h].header # m
        OBVIOUS
    <2>1. given[h][1] # g /\ sent[h][1] # g
        BY <1>2
    <2>2. response[h].header[1] # g
        BY <1>1, <1>3
    <2> QED BY <1>6, <2>1, <2>2
<1>10. given[g][2] # sent[g][2] /\ (detached[g] => response[g].header[2] = "header")
    BY <1>1, <1>2, <1>3, <1>5
<1>11. \/ given[g] = m /\ sent[g] # m /\ response[g].header # m
       \/ sent[g] = m /\ given[g] # m /\ response[g].header # m
       \/ response[g].header = m /\ sent[g] # m /\ given[g] # m /\ detached[g]
    BY <1>1, <1>2, <1>3, <1>4, <1>10
<1> QED BY <1>7, <1>8, <1>9, <1>11

-----------------------------------------------------------------------------
(* What ValueResponses sees *)

ResponseValues == [h \in Goroutines |-> Value(response[h])]
KeptValues     == [h \in Goroutines |-> Value(kept[h])]
GivenValues    == [h \in Goroutines |-> HeaderValue(given[h])]
SentValues     == [h \in Goroutines |-> HeaderValue(sent[h])]
Template       == [value |-> Value(template), memory |-> Memory]

\* The response of one goroutine becomes r, and what it kept becomes k.
LEMMA ResponsesKept ==
    ASSUME TemplateInv, NEW M, Limited(M), UNCHANGED <<template, given, sent>>,
           NEW g \in Goroutines, NEW r, NEW k, NEW d \in BOOLEAN,
           response' = [response EXCEPT ![g] = r], kept' = [kept EXCEPT ![g] = k], detached' = [detached EXCEPT ![g] = d],
           Proper(r)', Belongs(r, g), Proper(k)', Belongs(k, g), d => r.header[1] = g /\ r.header # k.header
    PROVE  TemplateInv'
<1>1. ResponsesInv /\ DOMAIN maps \subseteq DOMAIN maps'
    BY DEF TemplateInv, Limited
<1>2. Proper(template)' /\ template'.header[1] = Shared
    <2>1. Proper(template) /\ template.header[1] = Shared
        BY <1>1 DEF ResponsesInv
    <2>2. PICK t : t = template
        OBVIOUS
    <2>3. Proper(t)'
        BY <2>1, <2>2, Same
    <2> QED BY <2>1, <2>2, <2>3 DEF Proper, Within
<1>3. /\ response' = [h \in Goroutines |-> response'[h]] /\ response'[g] = r /\ \A h \in Goroutines \ {g} : response'[h] = response[h]
      /\ kept' = [h \in Goroutines |-> kept'[h]] /\ kept'[g] = k /\ \A h \in Goroutines \ {g} : kept'[h] = kept[h]
      /\ detached' \in [Goroutines -> BOOLEAN] /\ detached'[g] = d /\ \A h \in Goroutines \ {g} : detached'[h] = detached[h]
    BY <1>1 DEF ResponsesInv
<1>4. ASSUME NEW h \in Goroutines, NEW s, s \in {response'[h], kept'[h]} PROVE Proper(s)' /\ Belongs(s, h)
    <2>1. CASE h = g
        BY <1>3, <1>4, <2>1
    <2>2. CASE h # g
        <3>1. Proper(s) /\ Belongs(s, h)
            BY <1>1, <1>3, <1>4, <2>2 DEF ResponsesInv
        <3> QED BY <3>1, Same
    <2> QED BY <2>1, <2>2
<1>5. ASSUME NEW h \in Goroutines
      PROVE  /\ Proper(response[h])' /\ Belongs(response[h], h)'
             /\ Proper(kept[h])' /\ Belongs(kept[h], h)'
             /\ given'[h] \in DOMAIN maps' /\ sent'[h] \in DOMAIN maps'
             /\ detached'[h] => response'[h].header[1] = h /\ response'[h].header # kept'[h].header
    <2>1. PICK s : s = response'[h]
        OBVIOUS
    <2>2. PICK t : t = kept'[h]
        OBVIOUS
    <2>3. Proper(s)' /\ Belongs(s, h) /\ Proper(t)' /\ Belongs(t, h)
        BY <1>4, <2>1, <2>2
    <2>4. Proper(response[h])' /\ Belongs(response[h], h)'
        BY <2>1, <2>3 DEF Proper, Within, Belongs
    <2>5. Proper(kept[h])' /\ Belongs(kept[h], h)'
        BY <2>2, <2>3 DEF Proper, Within, Belongs
    <2>6. given'[h] \in DOMAIN maps' /\ sent'[h] \in DOMAIN maps'
        BY <1>1 DEF ResponsesInv
    <2>7. detached'[h] => response'[h].header[1] = h /\ response'[h].header # kept'[h].header
        BY <1>1, <1>3 DEF ResponsesInv
    <2> QED BY <2>4, <2>5, <2>6, <2>7
<1>6. ResponsesInv'
    BY <1>1, <1>2, <1>3, <1>5 DEF ResponsesInv
<1> QED BY <1>6 DEF TemplateInv, Limited

LEMMA TemplateSame ==
    ASSUME TemplateInv, NEW M, Limited(M), template' = template, template.header \notin M
    PROVE  Template' = Template
<1>1. Value(template)' = Whole(maps', arrays', template) /\ Value(template) = Whole(maps, arrays, template)
    BY DEF HeaderValue, Value, Contents, Shown, Whole, Read
<1>2. Whole(maps', arrays', template) = Whole(maps, arrays, template) /\ Memory' = Memory
    BY Same DEF TemplateInv, ResponsesInv
<1> QED BY <1>1, <1>2 DEF Template

LEMMA ResponseValuesSame ==
    ASSUME TemplateInv, NEW M, Limited(M), response' = response, \A h \in Goroutines : response[h].header \notin M
    PROVE  ResponseValues' = ResponseValues
<1>1. ResponseValues' = [h \in Goroutines |-> Whole(maps', arrays', response[h])]
    BY DEF ResponseValues, HeaderValue, Value, Contents, Shown, Whole, Read
<1>2. ResponseValues = [h \in Goroutines |-> Whole(maps, arrays, response[h])]
    BY ShownNow DEF ResponseValues
<1>3. \A h \in Goroutines : Whole(maps', arrays', response[h]) = Whole(maps, arrays, response[h])
    BY Same DEF TemplateInv, ResponsesInv
<1> QED BY <1>1, <1>2, <1>3

LEMMA KeptValuesSame ==
    ASSUME TemplateInv, NEW M, Limited(M), kept' = kept, \A h \in Goroutines : kept[h].header \notin M
    PROVE  KeptValues' = KeptValues
<1>1. KeptValues' = [h \in Goroutines |-> Whole(maps', arrays', kept[h])]
    BY DEF KeptValues, HeaderValue, Value, Contents, Shown, Whole, Read
<1>2. KeptValues = [h \in Goroutines |-> Whole(maps, arrays, kept[h])]
    BY ShownNow DEF KeptValues
<1>3. \A h \in Goroutines : Whole(maps', arrays', kept[h]) = Whole(maps, arrays, kept[h])
    BY Same DEF TemplateInv, ResponsesInv
<1> QED BY <1>1, <1>2, <1>3

\* The headers of one goroutine may be among the changed.
LEMMA HeadersChanged ==
    ASSUME TemplateInv, NEW M, Limited(M), NEW g \in Goroutines
    PROVE  /\ given' = given /\ (\A h \in Goroutines \ {g} : given[h] \notin M) =>
                  GivenValues' = [GivenValues EXCEPT ![g] = Shown(maps', arrays', given[g])]
           /\ sent' = sent /\ (\A h \in Goroutines \ {g} : sent[h] \notin M) =>
                  SentValues' = [SentValues EXCEPT ![g] = Shown(maps', arrays', sent[g])]
           /\ given[g] \notin M => Shown(maps', arrays', given[g]) = GivenValues[g]
           /\ sent[g] \notin M => Shown(maps', arrays', sent[g]) = SentValues[g]
<1>1. /\ GivenValues = [h \in Goroutines |-> Shown(maps, arrays, given[h])]
      /\ SentValues = [h \in Goroutines |-> Shown(maps, arrays, sent[h])]
    BY ShownNow DEF GivenValues, SentValues
<1>2. \A h \in Goroutines : given[h] \in DOMAIN maps /\ sent[h] \in DOMAIN maps
    BY DEF TemplateInv, ResponsesInv
<1>3. \A h \in Goroutines : /\ given[h] \notin M => Shown(maps', arrays', given[h]) = Shown(maps, arrays, given[h])
                            /\ sent[h] \notin M => Shown(maps', arrays', sent[h]) = Shown(maps, arrays, sent[h])
    BY <1>2, Same
<1>4. ASSUME given' = given, \A h \in Goroutines \ {g} : given[h] \notin M
      PROVE  GivenValues' = [GivenValues EXCEPT ![g] = Shown(maps', arrays', given[g])]
    <2>1. GivenValues' = [h \in Goroutines |-> Shown(maps', arrays', given[h])]
        BY <1>4 DEF GivenValues, HeaderValue, Contents, Shown
    <2> QED BY <1>1, <1>3, <1>4, <2>1
<1>5. ASSUME sent' = sent, \A h \in Goroutines \ {g} : sent[h] \notin M
      PROVE  SentValues' = [SentValues EXCEPT ![g] = Shown(maps', arrays', sent[g])]
    <2>1. SentValues' = [h \in Goroutines |-> Shown(maps', arrays', sent[h])]
        BY <1>5 DEF SentValues, HeaderValue, Contents, Shown
    <2> QED BY <1>1, <1>3, <1>5, <2>1
<1> QED BY <1>1, <1>3, <1>4, <1>5

LEMMA HeadersSame ==
    ASSUME TemplateInv, NEW M, Limited(M)
    PROVE  /\ given' = given /\ (\A h \in Goroutines : given[h] \notin M) => GivenValues' = GivenValues
           /\ sent' = sent /\ (\A h \in Goroutines : sent[h] \notin M) => SentValues' = SentValues
<1>1. /\ GivenValues = [h \in Goroutines |-> Shown(maps, arrays, given[h])]
      /\ SentValues = [h \in Goroutines |-> Shown(maps, arrays, sent[h])]
    BY ShownNow DEF GivenValues, SentValues
<1>2. \A h \in Goroutines : given[h] \in DOMAIN maps /\ sent[h] \in DOMAIN maps
    BY DEF TemplateInv, ResponsesInv
<1>3. \A h \in Goroutines : /\ given[h] \notin M => Shown(maps', arrays', given[h]) = Shown(maps, arrays, given[h])
                            /\ sent[h] \notin M => Shown(maps', arrays', sent[h]) = Shown(maps, arrays, sent[h])
    BY <1>2, Same
<1>4. ASSUME given' = given PROVE GivenValues' = [h \in Goroutines |-> Shown(maps', arrays', given[h])]
    BY <1>4 DEF GivenValues, HeaderValue, Contents, Shown
<1>5. ASSUME sent' = sent PROVE SentValues' = [h \in Goroutines |-> Shown(maps', arrays', sent[h])]
    BY <1>5 DEF SentValues, HeaderValue, Contents, Shown
<1> QED BY <1>1, <1>3, <1>4, <1>5

\* Only the response of one goroutine changes, as value; other maps stay.
LEMMA ResponseChanged ==
    ASSUME TemplateInv, NEW M, Limited(M), NEW g \in Goroutines, NEW r, response' = [response EXCEPT ![g] = r],
           \A h \in Goroutines \ {g} : response[h].header \notin M
    PROVE  ResponseValues' = [ResponseValues EXCEPT ![g] = Whole(maps', arrays', r)]
<1>1. ResponseValues = [h \in Goroutines |-> Whole(maps, arrays, response[h])]
    BY ShownNow DEF ResponseValues
<1>2. ResponseValues' = [h \in Goroutines |-> Whole(maps', arrays', response'[h])]
    BY DEF ResponseValues, HeaderValue, Value, Contents, Shown, Whole, Read
<1>3. ResponsesInv /\ response = [h \in Goroutines |-> response[h]]
    BY DEF TemplateInv, ResponsesInv
<1>4. response'[g] = r /\ \A h \in Goroutines \ {g} : response'[h] = response[h]
    BY <1>3
<1>5. \A h \in Goroutines \ {g} : Whole(maps', arrays', response[h]) = Whole(maps, arrays, response[h])
    BY <1>3, Same DEF ResponsesInv
<1> QED BY <1>1, <1>2, <1>4, <1>5

-----------------------------------------------------------------------------
(* Steps of ValueResponses *)

Stays == UNCHANGED <<Template, KeptValues, GivenValues, SentValues>>

\* The values a derivation may give a response of value v.
Derivations(g, v) ==
    {SetData(v, "own"), SetHeader(v, Values!Over(v.header, GivenValues[g])), SetErrors(v, Append(v.errors, "cause")),
     Template.value, KeptValues[g], v}
    \cup {SetHeader(v, [v.header EXCEPT ![n] = <<"set">>]) : n \in Names}

LEMMA Derived ==
    ASSUME NEW g \in Goroutines, Stays, NEW w \in Derivations(g, ResponseValues[g]),
           ResponseValues' = [ResponseValues EXCEPT ![g] = w]
    PROVE  [Values!Next]_(Values!vars)
<1> DEFINE v == ResponseValues[g]
<1>1. CASE w = SetData(v, "own")
    <2>1. ResponseValues' = [ResponseValues EXCEPT ![g].data = "own"]
        BY <1>1 DEF SetData
    <2>2. Values!Derive(g)
        BY <2>1 DEF Values!Derive, Stays, Template, KeptValues, GivenValues, SentValues, ResponseValues
    <2> QED BY <2>2 DEF Values!Next
<1>2. CASE \E n \in Names : w = SetHeader(v, [v.header EXCEPT ![n] = <<"set">>])
    <2>1. PICK n \in Names : w = SetHeader(v, [v.header EXCEPT ![n] = <<"set">>])
        BY <1>2
    <2>2. ResponseValues' = [ResponseValues EXCEPT ![g].header[n] = <<"set">>]
        BY <2>1 DEF SetHeader
    <2>3. Values!Derive(g)
        BY <2>2 DEF Values!Derive, Stays, Template, KeptValues, GivenValues, SentValues, ResponseValues
    <2> QED BY <2>3 DEF Values!Next
<1>3. CASE w = SetHeader(v, Values!Over(v.header, GivenValues[g]))
    <2>1. ResponseValues' = [ResponseValues EXCEPT ![g].header = Values!Over(@, GivenValues[g])]
        BY <1>3 DEF SetHeader
    <2>2. Values!Derive(g)
        BY <2>1 DEF Values!Derive, Stays, Template, KeptValues, GivenValues, SentValues, ResponseValues
    <2> QED BY <2>2 DEF Values!Next
<1>4. CASE w = SetErrors(v, Append(v.errors, "cause"))
    <2>1. ResponseValues' = [ResponseValues EXCEPT ![g].errors = Append(@, "cause")]
        BY <1>4 DEF SetErrors
    <2>2. Values!Derive(g)
        BY <2>1 DEF Values!Derive, Stays, Template, KeptValues, GivenValues, SentValues, ResponseValues
    <2> QED BY <2>2 DEF Values!Next
<1>5. CASE w \in {Template.value, KeptValues[g]}
    <2>1. Values!Derive(g)
        BY <1>5 DEF Values!Derive, Stays, Template, KeptValues, GivenValues, SentValues, ResponseValues
    <2> QED BY <2>1 DEF Values!Next
<1>6. CASE w = v
    <2>1. ResponseValues' = ResponseValues
        BY <1>6 DEF ResponseValues
    <2> QED BY <2>1 DEF Values!vars, Stays, Template, KeptValues, GivenValues, SentValues, ResponseValues
<1> QED BY <1>1, <1>2, <1>3, <1>4, <1>5, <1>6 DEF Derivations

\* A step that leaves the memory alone.
LEMMA StillMemory ==
    ASSUME TemplateInv, clock' = clock + 1, UNCHANGED <<maps, arrays>>
    PROVE  Limited({})
BY Growth DEF TemplateInv

LEMMA ValueFacts ==
    ASSUME TemplateInv, NEW g \in Goroutines
    PROVE  /\ ResponseValues[g] = Whole(maps, arrays, response[g]) /\ KeptValues[g] = Whole(maps, arrays, kept[g])
           /\ GivenValues[g] = Shown(maps, arrays, given[g]) /\ SentValues[g] = Shown(maps, arrays, sent[g])
           /\ Template.value = Whole(maps, arrays, template)
           /\ Proper(response[g]) /\ Belongs(response[g], g) /\ Proper(kept[g]) /\ Belongs(kept[g], g)
           /\ Proper(template) /\ Belongs(template, g)
           /\ response = [response EXCEPT ![g] = response[g]] /\ kept = [kept EXCEPT ![g] = kept[g]]
           /\ detached[g] \in BOOLEAN /\ detached = [detached EXCEPT ![g] = detached[g]]
           /\ detached[g] => response[g].header[1] = g /\ response[g].header # kept[g].header
<1>1. /\ ResponseValues[g] = Whole(maps, arrays, response[g]) /\ KeptValues[g] = Whole(maps, arrays, kept[g])
      /\ GivenValues[g] = Shown(maps, arrays, given[g]) /\ SentValues[g] = Shown(maps, arrays, sent[g])
      /\ Template.value = Whole(maps, arrays, template)
    BY ShownNow DEF ResponseValues, KeptValues, GivenValues, SentValues, Template
<1>2. ResponsesInv
    BY DEF TemplateInv
<1>3. response = [response EXCEPT ![g] = response[g]] /\ kept = [kept EXCEPT ![g] = kept[g]]
    BY <1>2 DEF ResponsesInv
<1>4. detached[g] \in BOOLEAN /\ detached = [detached EXCEPT ![g] = detached[g]]
    BY <1>2 DEF ResponsesInv
<1> QED BY <1>1, <1>2, <1>3, <1>4 DEF ResponsesInv, Belongs

\* A derivation of one goroutine's response.
LEMMA ResponseStep ==
    ASSUME TemplateInv, NEW g \in Goroutines, UNCHANGED <<template, kept, given, sent>>,
           NEW M, Limited(M), template.header \notin M,
           \A h \in Goroutines : kept[h].header \notin M /\ given[h] \notin M /\ sent[h] \notin M,
           \A h \in Goroutines \ {g} : response[h].header \notin M,
           NEW r, response' = [response EXCEPT ![g] = r], Proper(r)', Belongs(r, g),
           NEW d \in BOOLEAN, detached' = [detached EXCEPT ![g] = d], d => r.header[1] = g /\ r.header # kept[g].header,
           Whole(maps', arrays', r) \in Derivations(g, ResponseValues[g])
    PROVE  TemplateInv' /\ [Values!Next]_(Values!vars)
<1>1. TemplateInv'
    <2>1. PICK k : k = kept[g]
        OBVIOUS
    <2>2. Proper(k)' /\ Belongs(k, g) /\ kept' = [kept EXCEPT ![g] = k] /\ (d => r.header # k.header)
        BY <2>1, Same, ValueFacts
    <2> QED BY <2>2, ResponsesKept
<1>2. Stays
    BY TemplateSame, KeptValuesSame, HeadersSame DEF Stays
<1>3. ResponseValues' = [ResponseValues EXCEPT ![g] = Whole(maps', arrays', r)]
    BY ResponseChanged
<1>4. PICK w : w = Whole(maps', arrays', r)
    OBVIOUS
<1> QED BY <1>1, <1>2, <1>3, <1>4, Derived

LEMMA WithDataStep ==
    ASSUME TemplateInv, NEW g \in Goroutines, WithData(g)
    PROVE  TemplateInv' /\ [Values!Next]_(Values!vars)
<1>1. /\ clock' = clock + 1 /\ response' = [response EXCEPT ![g].data = "own"]
      /\ UNCHANGED <<template, kept, given, sent, detached, maps, arrays>>
    BY DEF WithData, Tick
<1>2. Limited({})
    BY <1>1, StillMemory
<1>3. PICK q : q = response[g] /\ Proper(q) /\ Belongs(q, g)
    BY ValueFacts
<1>4. PICK r : r = [q EXCEPT !.data = "own"]
    OBVIOUS
<1>5. r.header = q.header /\ r.errors = q.errors /\ r.data = "own" /\ Proper(r)
    BY <1>3, <1>4 DEF Proper
<1>6. Proper(r)' /\ Belongs(r, g)
    BY <1>2, <1>3, <1>5, Same DEF Belongs
<1>7. Whole(maps', arrays', r) = SetData(ResponseValues[g], "own")
    <2>1. ResponseValues[g] = Whole(maps, arrays, q)
        BY <1>3, ValueFacts
    <2>2. Shown(maps, arrays, r.header) = Shown(maps, arrays, q.header) /\ Read(arrays, r.errors) = Read(arrays, q.errors)
        BY <1>5
    <2>3. Whole(maps, arrays, r) = SetData(Whole(maps, arrays, q), "own")
        BY <1>5, <2>2, DataChanged
    <2> QED BY <1>1, <2>1, <2>3
<1>8. PICK d \in BOOLEAN : d = detached[g]
    BY ValueFacts
<1>9. detached' = [detached EXCEPT ![g] = d] /\ (d => r.header[1] = g /\ r.header # kept[g].header)
    BY <1>1, <1>3, <1>5, <1>8, ValueFacts
<1>10. Whole(maps', arrays', r) \in Derivations(g, ResponseValues[g])
    BY <1>7 DEF Derivations
<1>11. response' = [response EXCEPT ![g] = r]
    BY <1>1, <1>3, <1>4
<1> QED BY <1>1, <1>2, <1>6, <1>9, <1>10, <1>11, ResponseStep

LEMMA RestartStep ==
    ASSUME TemplateInv, NEW g \in Goroutines, Restart(g)
    PROVE  TemplateInv' /\ [Values!Next]_(Values!vars)
<1>1. clock' = clock + 1 /\ detached' = [detached EXCEPT ![g] = FALSE] /\ UNCHANGED <<template, kept, given, sent, maps, arrays>>
    BY DEF Restart, Tick
<1>2. PICK r \in {template, kept[g]} : response' = [response EXCEPT ![g] = r]
    BY DEF Restart
<1>3. Limited({})
    BY <1>1, StillMemory
<1>4. Proper(r)' /\ Belongs(r, g)
    BY <1>2, <1>3, Same, ValueFacts
<1>5. Whole(maps', arrays', r) \in {Template.value, KeptValues[g]}
    BY <1>1, <1>2, ValueFacts
<1>6. Whole(maps', arrays', r) \in Derivations(g, ResponseValues[g])
    BY <1>5 DEF Derivations
<1>7. FALSE \in BOOLEAN
    OBVIOUS
<1> QED BY <1>1, <1>2, <1>3, <1>4, <1>6, <1>7, ResponseStep

LEMMA KeepStep ==
    ASSUME TemplateInv, NEW g \in Goroutines, Keep(g)
    PROVE  TemplateInv' /\ [Values!Next]_(Values!vars)
<1>1. /\ clock' = clock + 1 /\ kept' = [kept EXCEPT ![g] = response[g]] /\ detached' = [detached EXCEPT ![g] = FALSE]
      /\ UNCHANGED <<template, response, given, sent, maps, arrays>>
    BY DEF Keep, Tick
<1>2. Limited({})
    BY <1>1, StillMemory
<1>3. PICK r : r = response[g]
    OBVIOUS
<1>4. Proper(r)' /\ Belongs(r, g) /\ response' = [response EXCEPT ![g] = r]
    BY <1>1, <1>2, <1>3, Same, ValueFacts
<1>5. TemplateInv'
    <2>1. FALSE \in BOOLEAN
        OBVIOUS
    <2> QED BY <1>1, <1>2, <1>3, <1>4, <2>1, ResponsesKept
<1>6. Template' = Template /\ GivenValues' = GivenValues /\ SentValues' = SentValues /\ ResponseValues' = ResponseValues
    BY <1>1, <1>2, TemplateSame, HeadersSame, ResponseValuesSame
<1>7. KeptValues' = [KeptValues EXCEPT ![g] = ResponseValues[g]]
    <2>1. KeptValues' = [h \in Goroutines |-> Whole(maps, arrays, kept'[h])]
        BY <1>1 DEF KeptValues, HeaderValue, Value, Contents, Whole, Read, Shown
    <2>2. \A h \in Goroutines \ {g} : kept'[h] = kept[h] /\ KeptValues[h] = Whole(maps, arrays, kept[h])
        BY <1>1, ValueFacts
    <2>3. kept'[g] = response[g] /\ ResponseValues[g] = Whole(maps, arrays, response[g])
        <3>1. kept = [h \in Goroutines |-> kept[h]]
            BY DEF TemplateInv, ResponsesInv
        <3> QED BY <1>1, <3>1, ValueFacts
    <2>4. KeptValues = [h \in Goroutines |-> KeptValues[h]]
        BY DEF KeptValues
    <2> QED BY <2>1, <2>2, <2>3, <2>4
<1>8. Values!Keep(g)
    BY <1>6, <1>7 DEF Values!Keep, Template, GivenValues, SentValues, ResponseValues, KeptValues
<1> QED BY <1>5, <1>8 DEF Values!Next

-----------------------------------------------------------------------------
(* Methods that make a header map *)

\* The slices of a map built in this step.
LEMMA BuiltInstalled ==
    ASSUME ArraysInv, NEW map, map[2] # "errors", map[3] = clock + 1,
           NEW values \in [Names -> Seq(Cells)], NEW spare \in Seq(Cells),
           \A id \in DOMAIN Built(map, values, spare).arrays :
               id \in DOMAIN arrays' /\ arrays'[id] = Built(map, values, spare).arrays[id],
           Nil.array \in DOMAIN arrays', arrays'[Nil.array] = <<>>
    PROVE  \A n \in Names : /\ Installed(Built(map, values, spare).map[n], n, values[n])
                            /\ Built(map, values, spare).map[n].len = 0 <=> values[n] = <<>>
<1> SUFFICES ASSUME NEW n \in Names
             PROVE  /\ Installed(Built(map, values, spare).map[n], n, values[n])
                    /\ Built(map, values, spare).map[n].len = 0 <=> values[n] = <<>>
    OBVIOUS
<1>1. PICK id : id = ArrayOf(map, n)
    OBVIOUS
<1>2. id[2] # "errors" /\ id[3] = clock + 1 /\ id[4] = n
    BY <1>1 DEF ArrayOf
<1>3. /\ Built(map, values, spare).map[n] = Slice(id, values[n])
      /\ id \in DOMAIN Built(map, values, spare).arrays
      /\ Built(map, values, spare).arrays[id] = values[n] \o spare
    BY <1>1, BuiltFacts
<1>4. id \in DOMAIN arrays' /\ arrays'[id] = values[n] \o spare
    BY <1>3
<1>5. PICK v \in Seq(Cells) : v = values[n]
    OBVIOUS
<1>6. Installed(Slice(id, v), n, v)
    BY <1>2, <1>4, <1>5, SliceInstalled
<1>7. Slice(id, v).len = 0 <=> v = <<>>
    BY <1>5, EmptySeq, LenProperties DEF Slice, Nil
<1> QED BY <1>1, <1>3, <1>5, <1>6, <1>7

\* Arrays of this step, for one purpose.
Ours(new, kind) == \A id \in DOMAIN new : new[id] \in Seq(Cells) /\ id[2] = kind /\ id[3] = clock + 1

LEMMA BuiltOurs ==
    ASSUME NEW map, NEW kind, map[2] = kind, map[3] = clock + 1,
           NEW values \in [Names -> Seq(Cells)], NEW spare \in Seq(Cells), NEW b, b = Built(map, values, spare)
    PROVE  Mapping(b.map) /\ Ours(b.arrays, kind)
<1>1. /\ Mapping(Built(map, values, spare).map)
      /\ \A id \in DOMAIN Built(map, values, spare).arrays :
            Built(map, values, spare).arrays[id] \in Seq(Cells) /\ id[1] = map[1] /\ id[2] = map[2] /\ id[3] = map[3]
    BY BuiltFacts
<1> QED BY <1>1 DEF Ours

Joined(new, a, b) ==
    /\ \A id \in DOMAIN new : new[id] \in Seq(Cells) /\ id[3] = clock + 1
    /\ \A id \in DOMAIN a : id \in DOMAIN new /\ new[id] = a[id]
    /\ \A id \in DOMAIN b : id \in DOMAIN new /\ new[id] = b[id]

LEMMA OursJoined ==
    ASSUME NEW a, NEW b, NEW k1, NEW k2, k1 # k2, Ours(a, k1), Ours(b, k2)
    PROVE  Joined(Extended(a, b), a, b)
<1>1. /\ DOMAIN Extended(a, b) = (DOMAIN a) \cup (DOMAIN b)
      /\ \A x \in DOMAIN b : Extended(a, b)[x] = b[x]
      /\ \A x \in (DOMAIN a) \ (DOMAIN b) : Extended(a, b)[x] = a[x]
    BY ExtendedFacts
<1>2. \A x \in DOMAIN a : x \notin DOMAIN b
    BY DEF Ours
<1> QED BY <1>1, <1>2 DEF Ours, Joined

\* A goroutine's response gets a map of this step.
LEMMA NewMapStep ==
    ASSUME TemplateInv, NEW g \in Goroutines, clock' = clock + 1, UNCHANGED <<template, kept, given, sent>>,
           NEW new, \A id \in DOMAIN new : new[id] \in Seq(Cells) /\ id[3] = clock + 1, Allocate(new),
           NEW entry, Mapping(entry), maps' = Extended(maps, Entry(NewMap(g), entry)),
           NEW v, Mapping(v), \A n \in Names : Installed(entry[n], n, v[n]),
           Detach(g), SetHeader(ResponseValues[g], v) \in Derivations(g, ResponseValues[g])
    PROVE  TemplateInv' /\ [Values!Next]_(Values!vars)
<1>1. /\ \A id \in DOMAIN arrays : id \in DOMAIN arrays' /\ arrays'[id] = arrays[id]
      /\ \A id \in (DOMAIN arrays') \ (DOMAIN arrays) : arrays'[id] \in Seq(Cells) /\ id[3] = clock + 1
    BY AllocateFacts DEF TemplateInv
<1>2. PICK m : m = NewMap(g)
    OBVIOUS
<1>3. m \notin DOMAIN maps /\ m[1] = g /\ m[2] = "header" /\ m[3] \in 0..(clock + 1)
    BY <1>2, NewMapFacts
<1>4. DOMAIN maps' = (DOMAIN maps) \cup {m} /\ maps'[m] = entry /\ \A k \in DOMAIN maps : maps'[k] = maps[k]
    <2>1. PICK e : e = Entry(m, entry) /\ DOMAIN e = {m} /\ e[m] = entry
        BY EntryFacts
    <2>2. maps' = Extended(maps, e)
        BY <1>2, <2>1
    <2>3. /\ DOMAIN Extended(maps, e) = (DOMAIN maps) \cup (DOMAIN e)
          /\ \A x \in DOMAIN e : Extended(maps, e)[x] = e[x]
          /\ \A x \in (DOMAIN maps) \ (DOMAIN e) : Extended(maps, e)[x] = maps[x]
        BY ExtendedFacts
    <2>4. \A k \in DOMAIN maps : maps'[k] = maps[k]
        BY <1>3, <2>1, <2>2, <2>3
    <2> QED BY <2>1, <2>2, <2>3, <2>4
<1>5. Limited({m})
    <2>1. \A n \in Names : \E w : Installed(maps'[m][n], n, w)
        BY <1>4
    <2>2. maps'[m] = [n \in Names |-> maps'[m][n]]
        BY <1>4 DEF Mapping
    <2> QED BY <1>1, <1>3, <1>4, <2>1, <2>2, Growth DEF TemplateInv
<1>6. Shown(maps', arrays', m) = v
    <2>1. \A n \in Names : SubSeq(arrays'[maps'[m][n].array], 1, maps'[m][n].len) = v[n]
        BY <1>4 DEF Installed
    <2> QED BY <2>1, InstalledShown
<1>7. PICK q : q = response[g] /\ Proper(q) /\ Belongs(q, g)
    BY ValueFacts
<1>8. PICK r : r = [q EXCEPT !.header = m]
    OBVIOUS
<1>9. r.header = m /\ r.errors = q.errors /\ r.data = q.data
    BY <1>7, <1>8 DEF Proper
<1>10. Proper(r)' /\ Belongs(r, g)
    <2>1. Proper(q)'
        BY <1>5, <1>7, Same
    <2>2. Proper(r)'
        BY <1>4, <1>8, <2>1 DEF Proper, Within
    <2> QED BY <1>3, <1>9, <2>2 DEF Belongs
<1>11. Whole(maps', arrays', r) = SetHeader(ResponseValues[g], v)
    <2>1. ResponseValues[g] = Whole(maps, arrays, q)
        BY <1>7, ValueFacts
    <2>2. Read(arrays', r.errors) = Read(arrays, q.errors)
        BY <1>5, <1>7, <1>9, Same
    <2>3. Shown(maps', arrays', r.header) = v
        BY <1>6, <1>9
    <2>4. Whole(maps', arrays', r) = SetHeader(Whole(maps, arrays, q), v)
        BY <1>9, <2>2, <2>3, HeaderChanged
    <2> QED BY <2>1, <2>4
<1>12. response' = [response EXCEPT ![g] = r] /\ detached' = [detached EXCEPT ![g] = TRUE]
    BY <1>2, <1>7, <1>8 DEF Detach
<1>13. /\ template.header # m
       /\ \A h \in Goroutines : kept[h].header # m /\ given[h] # m /\ sent[h] # m /\ response[h].header # m
    BY <1>3 DEF TemplateInv, ResponsesInv, Proper
<1>14. TRUE \in BOOLEAN /\ r.header[1] = g /\ r.header # kept[g].header
    BY <1>3, <1>9, <1>13
<1> QED BY <1>5, <1>10, <1>11, <1>12, <1>13, <1>14, ResponseStep

LEMMA WithHeaderStep ==
    ASSUME TemplateInv, NEW g \in Goroutines, NEW n \in Names, WithHeader(g, n)
    PROVE  TemplateInv' /\ [Values!Next]_(Values!vars)
<1>1. clock' = clock + 1 /\ UNCHANGED <<template, kept, given, sent>> /\ Detach(g)
    BY DEF WithHeader, Tick
<1>2. PICK map : map = NewMap(g) /\ map[2] = "header" /\ map[3] = clock + 1
    BY NewMapFacts
<1>3. PICK values : values = Shown(maps, arrays, response[g].header) /\ values \in [Names -> Seq(Cells)]
    BY ValueFacts, HeaderFacts DEF Proper
<1>4. PICK clone : clone = Built(map, values, <<>>)
    OBVIOUS
<1>5. Cloned(NewMap(g), response[g].header) = clone
    BY <1>2, <1>3, <1>4, ValueFacts, HeaderFacts DEF Proper, Cloned
<1>6. PICK value : value = <<g, "value", clock + 1, n>>
    OBVIOUS
<1>7. value[2] = "value" /\ value[3] = clock + 1 /\ value[4] = n
    BY <1>6
<1>8. PICK new : new = Extended(clone.arrays, Entry(value, <<"set">>))
    OBVIOUS
<1>9. PICK entry : entry = [clone.map EXCEPT ![n] = [array |-> value, len |-> 1]]
    OBVIOUS
<1>10. maps' = Extended(maps, Entry(NewMap(g), entry)) /\ Allocate(new)
    BY <1>5, <1>6, <1>8, <1>9 DEF WithHeader
<1>11. <<>> \in Seq(Cells) /\ <<"set">> \in Seq(Cells)
    BY DEF Cells
<1>12. Mapping(clone.map) /\ Ours(clone.arrays, "header")
    BY <1>2, <1>3, <1>4, <1>11, BuiltOurs
<1>13. /\ \A id \in DOMAIN new : new[id] \in Seq(Cells) /\ id[3] = clock + 1
       /\ value \in DOMAIN new /\ new[value] = <<"set">>
       /\ \A id \in DOMAIN clone.arrays : id \in DOMAIN new /\ new[id] = clone.arrays[id]
    <2>1. PICK e : e = Entry(value, <<"set">>) /\ DOMAIN e = {value} /\ e[value] = <<"set">>
        BY EntryFacts
    <2>2. Ours(e, "value")
        BY <1>7, <1>11, <2>1 DEF Ours
    <2>3. PICK a : a = clone.arrays /\ Ours(a, "header")
        BY <1>12
    <2>4. new = Extended(a, e)
        BY <1>8, <2>1, <2>3
    <2>5. Joined(new, a, e)
        BY <2>2, <2>3, <2>4, OursJoined
    <2> QED BY <2>1, <2>3, <2>5 DEF Joined
<1>14. /\ \A id \in DOMAIN new : id \in DOMAIN arrays' /\ arrays'[id] = new[id]
       /\ Nil.array \in DOMAIN arrays' /\ arrays'[Nil.array] = <<>>
    BY <1>10, <1>13, AllocateFacts DEF TemplateInv
<1>15. PICK v : v = [values EXCEPT ![n] = <<"set">>]
    OBVIOUS
<1>16. ASSUME NEW k \in Names PROVE Installed(entry[k], k, v[k])
    <2>1. CASE k = n
        <3>1. entry[k] = [array |-> value, len |-> 1] /\ v[k] = <<"set">>
            BY <1>3, <1>9, <1>12, <1>15, <2>1 DEF Mapping
        <3>2. value \in DOMAIN arrays' /\ arrays'[value] = <<"set">>
            BY <1>13, <1>14
        <3>3. SubSeq(<<"set">>, 1, 1) = <<"set">> /\ Len(<<"set">>) = 1
            BY <1>11, Single
        <3>4. PICK s : s = entry[k]
            OBVIOUS
        <3>5. s \in [array : DOMAIN arrays', len : Nat] /\ s.array = value /\ s.len = 1
            BY <3>1, <3>2, <3>4
        <3>6. s.len <= Len(arrays'[s.array]) /\ SubSeq(arrays'[s.array], 1, s.len) = v[k]
            BY <3>1, <3>2, <3>3, <3>5
        <3> QED BY <1>7, <2>1, <3>4, <3>5, <3>6 DEF Installed
    <2>2. CASE k # n
        <3>1. entry[k] = clone.map[k] /\ v[k] = values[k]
            BY <1>3, <1>9, <1>12, <1>15, <2>2 DEF Mapping
        <3>2. \A id \in DOMAIN clone.arrays : id \in DOMAIN arrays' /\ arrays'[id] = clone.arrays[id]
            BY <1>13, <1>14
        <3>3. Installed(clone.map[k], k, values[k])
            BY <1>2, <1>3, <1>4, <1>11, <1>14, <3>2, BuiltInstalled DEF TemplateInv
        <3> QED BY <3>1, <3>3
    <2> QED BY <2>1, <2>2
<1>17. Mapping(entry) /\ Mapping(v)
    BY <1>3, <1>9, <1>12, <1>15 DEF Mapping
<1>18. SetHeader(ResponseValues[g], v) \in Derivations(g, ResponseValues[g])
    <2>1. ResponseValues[g].header = values
        BY <1>3, ValueFacts, WholeFacts
    <2> QED BY <1>15, <2>1 DEF Derivations
<1> QED BY <1>1, <1>10, <1>13, <1>16, <1>17, <1>18, NewMapStep

LEMMA WithHeadersStep ==
    ASSUME TemplateInv, NEW g \in Goroutines, WithHeaders(g)
    PROVE  TemplateInv' /\ [Values!Next]_(Values!vars)
<1>1. clock' = clock + 1 /\ UNCHANGED <<template, kept, given, sent>> /\ Detach(g)
    BY DEF WithHeaders, Tick
<1>2. PICK map : map = NewMap(g) /\ map[2] = "header" /\ map[3] = clock + 1
    BY NewMapFacts
<1>3. PICK other : other = <<g, "copies", clock + 1>>
    OBVIOUS
<1>4. other[2] = "copies" /\ other[3] = clock + 1
    BY <1>3
<1>5. PICK values : values = Shown(maps, arrays, response[g].header) /\ values \in [Names -> Seq(Cells)]
    BY ValueFacts, HeaderFacts DEF Proper
<1>6. PICK added : added = Shown(maps, arrays, given[g]) /\ added \in [Names -> Seq(Cells)]
    BY HeaderFacts DEF TemplateInv, ResponsesInv
<1>7. PICK clone : clone = Built(map, values, <<>>)
    OBVIOUS
<1>8. PICK copies : copies = Built(other, added, OneFree)
    OBVIOUS
<1>9. Cloned(NewMap(g), response[g].header) = clone
    BY <1>2, <1>5, <1>7, ValueFacts, HeaderFacts DEF Proper, Cloned
<1>10. Copied(<<g, "copies", clock + 1>>, given[g]) = copies
    BY <1>3, <1>6, <1>8, HeaderFacts DEF TemplateInv, ResponsesInv, Copied
<1>11. PICK new : new = Extended(clone.arrays, copies.arrays)
    OBVIOUS
<1>12. PICK entry : entry = Merged(clone.map, copies.map)
    OBVIOUS
<1>13. maps' = Extended(maps, Entry(NewMap(g), entry)) /\ Allocate(new)
    BY <1>9, <1>10, <1>11, <1>12 DEF WithHeaders
<1>14. <<>> \in Seq(Cells) /\ OneFree \in Seq(Cells)
    BY DEF Cells, OneFree
<1>15. Ours(clone.arrays, "header")
    BY <1>2, <1>5, <1>7, <1>14, BuiltOurs
<1>16. Ours(copies.arrays, "copies")
    BY <1>4, <1>6, <1>8, <1>14, BuiltOurs
<1>17. /\ \A id \in DOMAIN new : new[id] \in Seq(Cells) /\ id[3] = clock + 1
       /\ \A id \in DOMAIN clone.arrays : id \in DOMAIN new /\ new[id] = clone.arrays[id]
       /\ \A id \in DOMAIN copies.arrays : id \in DOMAIN new /\ new[id] = copies.arrays[id]
    <2>1. PICK a, b : a = clone.arrays /\ b = copies.arrays
        OBVIOUS
    <2>2. Joined(new, a, b)
        BY <1>11, <1>15, <1>16, <2>1, OursJoined
    <2> QED BY <2>1, <2>2 DEF Joined
<1>18. /\ \A id \in DOMAIN new : id \in DOMAIN arrays' /\ arrays'[id] = new[id]
       /\ Nil.array \in DOMAIN arrays' /\ arrays'[Nil.array] = <<>>
    BY <1>13, <1>17, AllocateFacts DEF TemplateInv
<1>19. \A n \in Names : Installed(clone.map[n], n, values[n])
    <2>1. \A id \in DOMAIN clone.arrays : id \in DOMAIN arrays' /\ arrays'[id] = clone.arrays[id]
        BY <1>17, <1>18
    <2> QED BY <1>2, <1>5, <1>7, <1>14, <1>18, <2>1, BuiltInstalled DEF TemplateInv
<1>20. \A n \in Names : Installed(copies.map[n], n, added[n]) /\ (copies.map[n].len = 0 <=> added[n] = <<>>)
    <2>1. \A id \in DOMAIN copies.arrays : id \in DOMAIN arrays' /\ arrays'[id] = copies.arrays[id]
        BY <1>17, <1>18
    <2> QED BY <1>4, <1>6, <1>8, <1>14, <1>18, <2>1, BuiltInstalled DEF TemplateInv
<1>21. PICK v : v = Values!Over(values, added)
    OBVIOUS
<1>22. \A n \in Names : Installed(entry[n], n, v[n])
    BY <1>12, <1>19, <1>20, <1>21 DEF Merged, Values!Over
<1>23. Mapping(entry) /\ Mapping(v)
    BY <1>12, <1>21 DEF Merged, Values!Over, Mapping
<1>24. SetHeader(ResponseValues[g], v) \in Derivations(g, ResponseValues[g])
    <2>1. ResponseValues[g].header = values /\ GivenValues[g] = added
        BY <1>5, <1>6, ValueFacts, WholeFacts
    <2> QED BY <1>21, <2>1 DEF Derivations
<1> QED BY <1>1, <1>13, <1>17, <1>22, <1>23, <1>24, NewMapStep

\* A slice of the next state that shows v, of this array or empty.
Reads(s, id, v) == /\ s \in [array : DOMAIN arrays', len : Nat] /\ s.len <= Len(arrays'[s.array])
                   /\ Read(arrays', s) = v /\ (s.array = id \/ s.array = Nil.array)

LEMMA SliceRead ==
    ASSUME NEW id \in DOMAIN arrays', NEW v \in Seq(Cells), NEW w \in Seq(Cells),
           arrays'[id] = v \o w, Nil.array \in DOMAIN arrays', arrays'[Nil.array] = <<>>
    PROVE  Reads(Slice(id, v), id, v)
<1>0. PICK s : s = Slice(id, v)
    OBVIOUS
<1>1. CASE v = <<>>
    <2>1. s.array = Nil.array /\ s.len = 0 /\ s \in [array : DOMAIN arrays', len : Nat]
        BY <1>0, <1>1 DEF Slice, Nil
    <2>2. SubSeq(arrays'[Nil.array], 1, 0) = <<>> /\ Len(arrays'[Nil.array]) = 0
        OBVIOUS
    <2> QED BY <1>0, <1>1, <2>1, <2>2 DEF Read, Reads
<1>2. CASE v # <<>>
    <2>1. s = [array |-> id, len |-> Len(v)] /\ Len(v) \in Nat
        BY <1>0, <1>2, LenProperties DEF Slice
    <2> QED BY <1>0, <2>1, Front DEF Read, Reads
<1> QED BY <1>1, <1>2

LEMMA WithErrorsStep ==
    ASSUME TemplateInv, NEW g \in Goroutines, WithErrors(g)
    PROVE  TemplateInv' /\ [Values!Next]_(Values!vars)
<1>1. clock' = clock + 1 /\ UNCHANGED <<template, kept, given, sent, detached, maps>>
    BY DEF WithErrors, Tick
<1>2. PICK fresh : fresh = <<g, "errors", clock + 1, "errors">>
    OBVIOUS
<1>3. fresh[2] = "errors" /\ fresh[3] = clock + 1
    BY <1>2
<1>4. PICK q : q = response[g] /\ Proper(q) /\ Belongs(q, g)
    BY ValueFacts
<1>5. PICK copy : copy = Contents(q.errors) /\ copy \in Seq(Cells) /\ copy = Read(arrays, q.errors)
    BY <1>4, NilFacts DEF TemplateInv, Proper, Contents, Read
<1>6. PICK cause \in {<<>>, <<"cause">>} :
          /\ response' = [response EXCEPT ![g].errors = Slice(fresh, copy \o cause)]
          /\ Allocate(Entry(fresh, copy \o cause \o OneFree))
    BY <1>2, <1>4, <1>5 DEF WithErrors
<1>7. cause \in Seq(Cells) /\ OneFree \in Seq(Cells)
    <2>1. <<>> \in Seq(Cells) /\ <<"cause">> \in Seq(Cells) /\ OneFree \in Seq(Cells)
        BY DEF Cells, OneFree
    <2> QED BY <1>6, <2>1
<1>8. PICK x : x = copy \o cause /\ x \in Seq(Cells)
    BY <1>5, <1>7, ConcatProperties
<1>9. PICK cells : cells = x \o OneFree /\ cells \in Seq(Cells)
    BY <1>7, <1>8, ConcatProperties
<1>10. PICK new : new = Entry(fresh, cells) /\ DOMAIN new = {fresh} /\ new[fresh] = cells
    BY EntryFacts
<1>11. Allocate(new) /\ \A id \in DOMAIN new : new[id] \in Seq(Cells) /\ id[3] = clock + 1
    BY <1>3, <1>6, <1>8, <1>9, <1>10
<1>12. /\ \A id \in DOMAIN arrays : id \in DOMAIN arrays' /\ arrays'[id] = arrays[id]
       /\ \A id \in (DOMAIN arrays') \ (DOMAIN arrays) : arrays'[id] \in Seq(Cells) /\ id[3] = clock + 1
       /\ \A id \in DOMAIN new : id \in DOMAIN arrays' /\ arrays'[id] = new[id]
       /\ Nil.array \in DOMAIN arrays' /\ arrays'[Nil.array] = <<>>
    BY <1>11, AllocateFacts DEF TemplateInv
<1>13. Limited({})
    BY <1>1, <1>12, Growth DEF TemplateInv
<1>14. PICK s : s = Slice(fresh, x)
    OBVIOUS
<1>15. /\ s \in [array : DOMAIN arrays', len : Nat] /\ s.len <= Len(arrays'[s.array])
       /\ Read(arrays', s) = x /\ (s.array = fresh \/ s.array = Nil.array)
    <2>1. fresh \in DOMAIN arrays' /\ arrays'[fresh] = x \o OneFree
        BY <1>9, <1>10, <1>12
    <2>2. PICK w : w = OneFree /\ w \in Seq(Cells)
        BY <1>7
    <2>3. arrays'[fresh] = x \o w
        BY <2>1, <2>2
    <2>4. x \in Seq(Cells) /\ Nil.array \in DOMAIN arrays' /\ arrays'[Nil.array] = <<>>
        BY <1>8, <1>12
    <2>5. Reads(Slice(fresh, x), fresh, x)
        BY <2>1, <2>2, <2>3, <2>4, SliceRead
    <2> QED BY <1>14, <2>5 DEF Reads
<1>16. PICK r : r = [q EXCEPT !.errors = s]
    OBVIOUS
<1>17. r.header = q.header /\ r.errors = s /\ r.data = q.data
    BY <1>4, <1>16 DEF Proper
<1>18. Proper(r)' /\ Belongs(r, g)
    <2>1. Proper(q)'
        BY <1>4, <1>13, Same
    <2>2. r \in [data : {"old", "own"}, header : DOMAIN maps', errors : [array : DOMAIN arrays', len : Nat]]
        BY <1>15, <1>16, <2>1 DEF Proper
    <2>3. Within(r.errors)' /\ (r.errors.array = Nil.array \/ r.errors.array[2] = "errors")
        BY <1>3, <1>15, <1>17 DEF Within
    <2> QED BY <1>4, <1>17, <2>2, <2>3 DEF Proper, Belongs
<1>19. Shown(maps', arrays', r.header) = Shown(maps, arrays, q.header)
    BY <1>4, <1>13, <1>17, Same DEF Proper
<1>20. PICK v : v = ResponseValues[g] /\ v = Whole(maps, arrays, q) /\ v.errors = copy
    BY <1>4, <1>5, ValueFacts, WholeFacts
<1>21. Whole(maps', arrays', r) \in Derivations(g, v)
    <2>1. CASE cause = <<>>
        <3>1. x = copy
            BY <1>5, <1>8, <2>1, ConcatEmptySeq
        <3>2. Whole(maps', arrays', r) = Whole(maps, arrays, q)
            BY <1>5, <1>15, <1>17, <1>19, <3>1 DEF Whole
        <3> QED BY <1>20, <3>2 DEF Derivations
    <2>2. CASE cause = <<"cause">>
        <3>1. x = Append(copy, "cause")
            <4>1. "cause" \in Cells
                BY DEF Cells
            <4> QED BY <1>5, <1>8, <2>2, <4>1, AppendIsConcat
        <3>2. Read(arrays', r.errors) = x
            BY <1>15, <1>17
        <3>3. Whole(maps', arrays', r) = SetErrors(Whole(maps, arrays, q), x)
            BY <1>17, <1>19, <3>2, ErrorsChanged
        <3> QED BY <1>20, <3>1, <3>3 DEF Derivations
    <2> QED BY <1>6, <2>1, <2>2
<1>22. response' = [response EXCEPT ![g] = r]
    BY <1>4, <1>6, <1>8, <1>14, <1>16
<1>23. PICK d \in BOOLEAN : d = detached[g]
    BY ValueFacts
<1>24. detached' = [detached EXCEPT ![g] = d] /\ (d => r.header[1] = g /\ r.header # kept[g].header)
    BY <1>1, <1>4, <1>17, <1>23, ValueFacts
<1> QED BY <1>1, <1>13, <1>18, <1>20, <1>21, <1>22, <1>24, ResponseStep

-----------------------------------------------------------------------------
(* Header maps changed in place *)

LEMMA ResponsesStay ==
    ASSUME TemplateInv, NEW M, Limited(M), NEW g \in Goroutines,
           UNCHANGED <<template, response, kept, given, sent, detached>>
    PROVE  TemplateInv'
<1>1. PICK r, k : r = response[g] /\ k = kept[g]
    OBVIOUS
<1>2. PICK d \in BOOLEAN : d = detached[g]
    BY ValueFacts
<1>3. Proper(r)' /\ Belongs(r, g) /\ Proper(k)' /\ Belongs(k, g)
    BY <1>1, Same, ValueFacts
<1>4. /\ response' = [response EXCEPT ![g] = r] /\ kept' = [kept EXCEPT ![g] = k]
      /\ detached' = [detached EXCEPT ![g] = d] /\ (d => r.header[1] = g /\ r.header # k.header)
    BY <1>1, <1>2, ValueFacts
<1> QED BY <1>2, <1>3, <1>4, ResponsesKept

LEMMA RenderStep ==
    ASSUME TemplateInv, NEW g \in Goroutines, Render(g)
    PROVE  TemplateInv' /\ [Values!Next]_(Values!vars)
<1>1. clock' = clock + 1 /\ UNCHANGED <<template, response, kept, given, sent, detached>>
    BY DEF Render, Tick
<1>2. PICK other : other = <<g, "copies", clock + 1>>
    OBVIOUS
<1>3. other[2] = "copies" /\ other[3] = clock + 1
    BY <1>2
<1>4. PICK r \in {response[g], template} :
          /\ maps' = [maps EXCEPT ![sent[g]] = Merged(@, Copied(<<g, "copies", clock + 1>>, r.header).map)]
          /\ Allocate(Copied(<<g, "copies", clock + 1>>, r.header).arrays)
    BY DEF Render
<1>5. Proper(r) /\ r.header \in DOMAIN maps
    BY <1>4, ValueFacts DEF Proper
<1>6. PICK added : added = Shown(maps, arrays, r.header) /\ added \in [Names -> Seq(Cells)]
    BY <1>5, HeaderFacts
<1>7. PICK copies : copies = Built(other, added, OneFree)
    OBVIOUS
<1>8. Copied(<<g, "copies", clock + 1>>, r.header) = copies
    BY <1>2, <1>5, <1>6, <1>7, HeaderFacts DEF Copied
<1>9. PICK m : m = sent[g] /\ m \in OwnMaps(g) /\ m \in DOMAIN maps
    BY DEF OwnMaps, TemplateInv, ResponsesInv
<1>10. PICK old : old = maps[m] /\ Mapping(old)
    BY <1>9 DEF TemplateInv, MapsInv, Mapping
<1>11. /\ DOMAIN maps' = DOMAIN maps /\ maps'[m] = Merged(old, copies.map)
       /\ \A k \in (DOMAIN maps) \ {m} : maps'[k] = maps[k]
    BY <1>4, <1>8, <1>9, <1>10
<1>12. OneFree \in Seq(Cells)
    BY DEF Cells, OneFree
<1>13. PICK new : new = copies.arrays /\ Ours(new, "copies")
    BY <1>3, <1>6, <1>7, <1>12, BuiltOurs
<1>14. Allocate(new) /\ \A id \in DOMAIN new : new[id] \in Seq(Cells) /\ id[3] = clock + 1
    BY <1>4, <1>8, <1>13 DEF Ours
<1>15. /\ \A id \in DOMAIN arrays : id \in DOMAIN arrays' /\ arrays'[id] = arrays[id]
       /\ \A id \in (DOMAIN arrays') \ (DOMAIN arrays) : arrays'[id] \in Seq(Cells) /\ id[3] = clock + 1
       /\ \A id \in DOMAIN new : id \in DOMAIN arrays' /\ arrays'[id] = new[id]
       /\ Nil.array \in DOMAIN arrays' /\ arrays'[Nil.array] = <<>>
    BY <1>14, AllocateFacts DEF TemplateInv
<1>16. \A n \in Names : Installed(copies.map[n], n, added[n]) /\ (copies.map[n].len = 0 <=> added[n] = <<>>)
    <2>1. \A id \in DOMAIN copies.arrays : id \in DOMAIN arrays' /\ arrays'[id] = copies.arrays[id]
        BY <1>13, <1>15
    <2>2. Nil.array \in DOMAIN arrays' /\ arrays'[Nil.array] = <<>>
        BY <1>15
    <2> QED BY <1>3, <1>6, <1>7, <1>12, <2>1, <2>2, BuiltInstalled DEF TemplateInv
<1>17. \A n \in Names : maps'[m][n] = IF added[n] = <<>> THEN old[n] ELSE copies.map[n]
    BY <1>11, <1>16 DEF Merged
<1>18. Limited({m})
    <2>1. maps'[m] = [n \in Names |-> maps'[m][n]]
        BY <1>11 DEF Merged
    <2>2. \A n \in Names : \/ \E v : Installed(maps'[m][n], n, v)
                           \/ m \in DOMAIN maps /\ maps'[m][n] = maps[m][n]
        BY <1>9, <1>10, <1>16, <1>17
    <2>3. m[3] \in 0..(clock + 1) /\ DOMAIN maps' = (DOMAIN maps) \cup {m}
        <3>1. m[3] \in 0..clock /\ clock \in Nat
            BY <1>9 DEF TemplateInv, MapsInv, ArraysInv
        <3> QED BY <1>9, <1>11, <3>1
    <2> QED BY <1>1, <1>11, <1>15, <2>1, <2>2, <2>3, Growth DEF TemplateInv
<1>19. PICK values : values = Shown(maps, arrays, m) /\ values = SentValues[g]
    BY <1>9, ValueFacts
<1>20. Shown(maps', arrays', m) = Values!Over(values, added)
    <2>1. ASSUME NEW n \in Names
          PROVE  SubSeq(arrays'[maps'[m][n].array], 1, maps'[m][n].len) = IF added[n] = <<>> THEN values[n] ELSE added[n]
        <3>1. CASE added[n] = <<>>
            <4>1. maps'[m][n] = maps[m][n] /\ maps[m][n].array \in DOMAIN arrays
                BY <1>9, <1>10, <1>17, <3>1 DEF TemplateInv, MapsInv, Within
            <4>2. values[n] = SubSeq(arrays[maps[m][n].array], 1, maps[m][n].len)
                BY <1>19 DEF Shown
            <4> QED BY <1>15, <3>1, <4>1, <4>2
        <3>2. CASE added[n] # <<>>
            BY <1>16, <1>17, <3>2 DEF Installed
        <3> QED BY <3>1, <3>2
    <2> QED BY <2>1 DEF Shown, Values!Over
<1>21. SentValues' = [SentValues EXCEPT ![g] = Values!Over(values, added)]
    BY <1>1, <1>9, <1>18, <1>20, HeadersChanged, OwnFacts
<1>22. UNCHANGED <<Template, ResponseValues, KeptValues, GivenValues>>
    <2>1. /\ template.header # m
          /\ \A h \in Goroutines : kept[h].header # m /\ response[h].header # m /\ given[h] # m
        BY <1>9, OwnFacts
    <2> QED BY <1>1, <1>18, <2>1, TemplateSame, ResponseValuesSame, KeptValuesSame, HeadersSame
<1>23. PICK v \in {ResponseValues[g], Template.value} : v.header = added
    BY <1>4, <1>6, ValueFacts, WholeFacts
<1>24. Values!Render(g)
    <2>1. SentValues' = [SentValues EXCEPT ![g] = Values!Over(@, v.header)]
        BY <1>19, <1>21, <1>23
    <2> QED BY <1>22, <2>1 DEF Values!Render, Template, ResponseValues, KeptValues, GivenValues, SentValues
<1>25. TemplateInv'
    BY <1>1, <1>18, ResponsesStay
<1> QED BY <1>24, <1>25 DEF Values!Next

\* A goroutine changes one entry of a map of its own.
LEMMA ChangeStep ==
    ASSUME TemplateInv, NEW g \in Goroutines, NEW m \in OwnMaps(g), NEW n \in Names, Limited({m}),
           UNCHANGED <<template, response, kept, given, sent, detached>>,
           NEW x, x \in Values!Changed(Shown(maps, arrays, m)[n]),
           Shown(maps', arrays', m) = [Shown(maps, arrays, m) EXCEPT ![n] = x]
    PROVE  TemplateInv' /\ [Values!Next]_(Values!vars)
<1>1. TemplateInv'
    BY ResponsesStay
<1>2. UNCHANGED <<Template, KeptValues>>
    BY OwnFacts, TemplateSame, KeptValuesSame
<1>3. CASE given[g] = m /\ sent[g] # m /\ response[g].header # m
    <2>1. \A h \in Goroutines : response[h].header # m /\ sent[h] # m /\ (h # g => given[h] # m)
        BY <1>3, OwnFacts
    <2>2. GivenValues[g] = Shown(maps, arrays, m)
        BY <1>3, ValueFacts
    <2>3. GivenValues' = [GivenValues EXCEPT ![g] = Shown(maps', arrays', m)]
        BY <1>3, <2>1, HeadersChanged
    <2>4. x \in Values!Changed(GivenValues[g][n]) /\ GivenValues' = [GivenValues EXCEPT ![g][n] = x]
        BY <2>2, <2>3
    <2>5. UNCHANGED <<ResponseValues, SentValues>>
        BY <2>1, ResponseValuesSame, HeadersSame
    <2>6. Values!Change(g)
        BY <1>2, <2>4, <2>5 DEF Values!Change, Template, KeptValues, GivenValues, SentValues, ResponseValues
    <2> QED BY <1>1, <2>6 DEF Values!Next
<1>4. CASE sent[g] = m /\ given[g] # m /\ response[g].header # m
    <2>1. \A h \in Goroutines : response[h].header # m /\ given[h] # m /\ (h # g => sent[h] # m)
        BY <1>4, OwnFacts
    <2>2. SentValues[g] = Shown(maps, arrays, m)
        BY <1>4, ValueFacts
    <2>3. SentValues' = [SentValues EXCEPT ![g] = Shown(maps', arrays', m)]
        BY <1>4, <2>1, HeadersChanged
    <2>4. x \in Values!Changed(SentValues[g][n]) /\ SentValues' = [SentValues EXCEPT ![g][n] = x]
        BY <2>2, <2>3
    <2>5. UNCHANGED <<ResponseValues, GivenValues>>
        BY <2>1, ResponseValuesSame, HeadersSame
    <2>6. Values!Change(g)
        BY <1>2, <2>4, <2>5 DEF Values!Change, Template, KeptValues, GivenValues, SentValues, ResponseValues
    <2> QED BY <1>1, <2>6 DEF Values!Next
<1>5. CASE response[g].header = m /\ sent[g] # m /\ given[g] # m
    <2>1. \A h \in Goroutines : given[h] # m /\ sent[h] # m /\ (h # g => response[h].header # m)
        BY <1>5, OwnFacts
    <2>2. PICK q : q = response[g] /\ Proper(q) /\ q.header = m /\ response' = [response EXCEPT ![g] = q]
        BY <1>5, ValueFacts
    <2>3. ResponseValues[g] = Whole(maps, arrays, q) /\ ResponseValues[g].header = Shown(maps, arrays, m)
        BY <2>2, ValueFacts, WholeFacts
    <2>4. ResponseValues' = [ResponseValues EXCEPT ![g] = Whole(maps', arrays', q)]
        <3>1. PICK M : M = {m} /\ Limited(M)
            OBVIOUS
        <3>2. \A h \in Goroutines \ {g} : response[h].header \notin M
            BY <2>1, <3>1
        <3>3. response' = [response EXCEPT ![g] = q]
            BY <2>2
        <3> QED BY ONLY <3>1, <3>2, <3>3, TemplateInv, g \in Goroutines, ResponseChanged
    <2>5. PICK w : w = [Shown(maps, arrays, m) EXCEPT ![n] = x]
        OBVIOUS
    <2>6. Shown(maps', arrays', q.header) = w /\ Read(arrays', q.errors) = Read(arrays, q.errors)
        BY <2>2, <2>5, Same
    <2>7. Whole(maps', arrays', q) = SetHeader(Whole(maps, arrays, q), w)
        BY <2>6, HeaderChanged
    <2>8. ResponseValues' = [ResponseValues EXCEPT ![g].header[n] = x]
        BY <2>3, <2>4, <2>5, <2>7 DEF SetHeader
    <2>9. x \in Values!Changed(ResponseValues[g].header[n])
        BY <2>3
    <2>10. UNCHANGED <<GivenValues, SentValues>>
        BY <2>1, HeadersSame
    <2>11. Values!Change(g)
        BY <1>2, <2>8, <2>9, <2>10 DEF Values!Change, Template, KeptValues, GivenValues, SentValues, ResponseValues
    <2> QED BY <1>1, <2>11 DEF Values!Next
<1> QED BY <1>3, <1>4, <1>5, OwnFacts

\* A value written behind those a slice shows, and over its first.
LEMMA Written ==
    ASSUME NEW a \in Seq(Cells), NEW k \in Nat, k <= Len(a), NEW c \in Cells, NEW i \in 1..Len(a), NEW b, b = [a EXCEPT ![i] = c]
    PROVE  /\ b \in Seq(Cells) /\ Len(b) = Len(a)
           /\ i = k + 1 => SubSeq(b, 1, k + 1) = Append(SubSeq(a, 1, k), c)
           /\ i <= k => SubSeq(b, 1, k) = [SubSeq(a, 1, k) EXCEPT ![i] = c]
<1>1. b \in Seq(Cells) /\ Len(b) = Len(a) /\ b[i] = c /\ \A j \in 1..Len(a) : j # i => b[j] = a[j]
    BY ExceptSeq
<1>2. /\ \A j \in 1..Len(a) : a[j] \in Cells /\ b[j] \in Cells
      /\ Len(a) \in Nat
    BY <1>1, ElementOfSeq, LenProperties
<1>3. SubSeq(a, 1, k) \in Seq(Cells) /\ Len(SubSeq(a, 1, k)) = k /\ \A j \in 1..k : SubSeq(a, 1, k)[j] = a[j]
    BY <1>2
<1>4. SubSeq(b, 1, k) \in Seq(Cells) /\ Len(SubSeq(b, 1, k)) = k /\ \A j \in 1..k : SubSeq(b, 1, k)[j] = b[j]
    BY <1>1, <1>2
<1>5. PICK s \in Seq(Cells) : s = SubSeq(a, 1, k) /\ Len(s) = k /\ \A j \in 1..k : s[j] = a[j]
    BY <1>3
<1>6. ASSUME i = k + 1 PROVE SubSeq(b, 1, k + 1) = Append(s, c)
    <2>1. SubSeq(b, 1, k + 1) \in Seq(Cells) /\ Len(SubSeq(b, 1, k + 1)) = k + 1
          /\ \A j \in 1..(k + 1) : SubSeq(b, 1, k + 1)[j] = b[j]
        BY <1>1, <1>2, <1>6
    <2>2. Append(s, c) \in Seq(Cells) /\ Len(Append(s, c)) = k + 1 /\ Append(s, c)[k + 1] = c
          /\ \A j \in 1..k : Append(s, c)[j] = s[j]
        BY <1>5, AppendProperties
    <2>3. PICK u, w \in Seq(Cells) : u = SubSeq(b, 1, k + 1) /\ w = Append(s, c)
        BY <2>1, <2>2
    <2>4. \A j \in 1..Len(u) : u[j] = w[j]
        <3> SUFFICES ASSUME NEW j \in 1..(k + 1) PROVE u[j] = w[j]
            BY <2>1, <2>3
        <3>1. CASE j = k + 1
            BY <1>1, <1>6, <2>1, <2>2, <2>3, <3>1
        <3>2. CASE j # k + 1
            <4>1. j \in 1..k /\ j # i /\ j \in 1..Len(a)
                BY <1>2, <1>6, <3>2
            <4> QED BY <1>1, <1>5, <2>1, <2>2, <2>3, <4>1
        <3> QED BY <3>1, <3>2
    <2>5. u = w
        BY <2>1, <2>2, <2>3, <2>4, SeqEqual
    <2> QED BY <2>3, <2>5
<1>7. ASSUME i <= k PROVE SubSeq(b, 1, k) = [s EXCEPT ![i] = c]
    <2>1. PICK w : w = [s EXCEPT ![i] = c]
        OBVIOUS
    <2>2. w \in Seq(Cells) /\ Len(w) = k /\ w[i] = c /\ \A j \in 1..k : j # i => w[j] = s[j]
        <3>1. i \in 1..Len(s)
            BY <1>5, <1>7
        <3>2. /\ [s EXCEPT ![i] = c] \in Seq(Cells) /\ Len([s EXCEPT ![i] = c]) = Len(s)
              /\ \A j \in 1..Len(s) : [s EXCEPT ![i] = c][j] = IF j = i THEN c ELSE s[j]
            BY <3>1, ExceptSeq
        <3> QED BY <1>5, <2>1, <3>1, <3>2
    <2>3. PICK u \in Seq(Cells) : u = SubSeq(b, 1, k) /\ Len(u) = k /\ \A j \in 1..k : u[j] = b[j]
        BY <1>4
    <2>4. \A j \in 1..Len(u) : u[j] = w[j]
        BY <1>1, <1>2, <1>5, <2>2, <2>3
    <2>5. u = w
        BY <2>2, <2>3, <2>4, SeqEqual
    <2> QED BY <2>1, <2>3, <2>5
<1> QED BY <1>1, <1>5, <1>6, <1>7

\* One entry of a map shows x now, the others what they did.
LEMMA EntryShown ==
    ASSUME NEW m, NEW n \in Names, NEW x,
           SubSeq(arrays'[maps'[m][n].array], 1, maps'[m][n].len) = x,
           \A k \in Names \ {n} : maps'[m][k] = maps[m][k] /\ arrays'[maps[m][k].array] = arrays[maps[m][k].array]
    PROVE  Shown(maps', arrays', m) = [Shown(maps, arrays, m) EXCEPT ![n] = x]
<1>1. ASSUME NEW k \in Names
      PROVE  SubSeq(arrays'[maps'[m][k].array], 1, maps'[m][k].len)
                 = IF k = n THEN x ELSE SubSeq(arrays[maps[m][k].array], 1, maps[m][k].len)
    OBVIOUS
<1> QED BY <1>1 DEF Shown

\* An entry is replaced, in its array or by one of a new array.
LEMMA EntryReplaced ==
    ASSUME TemplateInv, NEW m \in DOMAIN maps, NEW n \in Names, NEW s, maps' = [maps EXCEPT ![m][n] = s]
    PROVE  Replaced(m, n, s)
<1>1. PICK old : old = maps[m] /\ old = [k \in Names |-> old[k]]
    BY DEF TemplateInv, MapsInv
<1>2. maps'[m] = [old EXCEPT ![n] = s]
    BY <1>1
<1> QED BY <1>1, <1>2 DEF Replaced

LEMMA AddValueStep ==
    ASSUME TemplateInv, NEW g \in Goroutines, AddValue(g)
    PROVE  TemplateInv' /\ [Values!Next]_(Values!vars)
<1>1. clock' = clock + 1 /\ UNCHANGED <<template, response, kept, given, sent, detached>>
    BY DEF AddValue, Tick
<1>2. PICK m \in OwnMaps(g), n \in Names :
          /\ maps' = [maps EXCEPT ![m][n] = AppendTo(maps[m][n], <<g, "added", clock + 1, n>>, "added").slice]
          /\ Allocate(AppendTo(maps[m][n], <<g, "added", clock + 1, n>>, "added").arrays)
    BY DEF AddValue
<1>3. PICK fresh : fresh = <<g, "added", clock + 1, n>>
    OBVIOUS
<1>0. fresh[2] = "added" /\ fresh[3] = clock + 1 /\ fresh[4] = n
    BY <1>3
<1>4. m \in DOMAIN maps
    BY OwnFacts
<1>5. PICK s : s = maps[m][n] /\ Within(s)
    BY <1>4 DEF TemplateInv, MapsInv
<1>6. s.len \in Nat /\ s.array \in DOMAIN arrays /\ s \in [array : {s.array}, len : Nat]
    BY <1>5 DEF Within
<1>7. PICK shown : shown = Shown(maps, arrays, m)[n]
    OBVIOUS
<1>8. shown = Contents(s) /\ shown = SubSeq(arrays[s.array], 1, s.len) /\ shown \in Seq(Cells) /\ Len(shown) = s.len
    BY <1>5, <1>7, NilFacts DEF TemplateInv, Shown, Contents
<1>9. "added" \in Cells
    BY DEF Cells
<1>10. PICK x : x = Append(shown, "added") /\ x \in Seq(Cells) /\ Len(x) = s.len + 1
    <2>1. Append(shown, "added") \in Seq(Cells) /\ Len(Append(shown, "added")) = Len(shown) + 1
        BY <1>8, <1>9, AppendProperties
    <2> QED BY <1>8, <2>1
<1>11. x \in Values!Changed(Shown(maps, arrays, m)[n])
    BY <1>7, <1>10 DEF Values!Changed
<1>12. CASE s.len < Len(arrays[s.array])
    <2>1. PICK a \in Seq(Cells) : a = arrays[s.array] /\ Len(a) \in Nat
        BY <1>6, LenProperties DEF TemplateInv, ArraysInv
    <2>2. PICK cells : cells = [a EXCEPT ![s.len + 1] = "added"]
        OBVIOUS
    <2>3. /\ maps' = [maps EXCEPT ![m][n] = [s EXCEPT !.len = s.len + 1]]
          /\ Allocate(Entry(s.array, cells))
        BY <1>2, <1>5, <1>12, <2>1, <2>2 DEF AppendTo
    <2>4. cells \in Seq(Cells) /\ Len(cells) = Len(a) /\ SubSeq(cells, 1, s.len + 1) = x
        <3>1. s.len + 1 \in 1..Len(a) /\ s.len <= Len(a)
            BY <1>6, <1>12, <2>1
        <3> QED BY <1>6, <1>8, <1>9, <1>10, <2>1, <2>2, <3>1, Written
    <2>5. [s EXCEPT !.len = s.len + 1] = [array |-> s.array, len |-> s.len + 1]
        BY <1>6
    <2>6. s.array # Nil.array
        <3> SUFFICES ASSUME s.array = Nil.array PROVE FALSE
            OBVIOUS
        <3>1. Len(arrays[s.array]) = 0
            BY EmptySeq DEF TemplateInv, ArraysInv
        <3> QED BY <1>6, <1>12, <3>1
    <2>7. arrays' = [arrays EXCEPT ![s.array] = cells]
        <3>1. PICK e : e = Entry(s.array, cells) /\ DOMAIN e = {s.array} /\ e[s.array] = cells
            BY EntryFacts
        <3>2. arrays' = [id \in (DOMAIN arrays) \cup (DOMAIN e) |-> IF id \in DOMAIN e THEN e[id] ELSE arrays[id]]
            BY <2>3, <3>1 DEF Allocate, Extended
        <3> QED BY <1>6, <3>1, <3>2
    <2>8. PICK len \in Nat : len = s.len + 1 /\ len <= Len(cells)
        BY <1>6, <1>12, <2>1, <2>4
    <2>9. /\ Limited({m})
          /\ \A k \in Names \ {n} : maps'[m][k] = maps[m][k] /\ arrays'[maps[m][k].array] = arrays[maps[m][k].array]
          /\ maps'[m][n] = [array |-> maps[m][n].array, len |-> len] /\ arrays'[maps[m][n].array] = cells
        <3>1. Replaced(m, n, [array |-> maps[m][n].array, len |-> len])
            <4>1. maps' = [maps EXCEPT ![m][n] = [array |-> maps[m][n].array, len |-> len]]
                BY <1>5, <2>3, <2>5, <2>8
            <4> QED BY <1>4, <4>1, EntryReplaced
        <3>2. /\ arrays' = [arrays EXCEPT ![maps[m][n].array] = cells] /\ maps[m][n].array # Nil.array
              /\ Len(cells) = Len(arrays[maps[m][n].array])
            BY <1>5, <2>1, <2>4, <2>6, <2>7
        <3>3. Overwritten(m, n, cells, len)
            BY <2>8, <3>1, <3>2 DEF Overwritten
        <3>4. ArraysInv /\ MapsInv /\ OwnedInv
            BY DEF TemplateInv
        <3>5. Limited({m}) /\ OthersStay(m, n)
            BY <1>1, <1>4, <2>4, <2>8, <3>3, <3>4, Overwrite
        <3> QED BY <1>4, <2>8, <3>3, <3>5 DEF OthersStay, Overwritten, Replaced, TemplateInv, MapsInv, Within
    <2>10. Shown(maps', arrays', m) = [Shown(maps, arrays, m) EXCEPT ![n] = x]
        <3>1. SubSeq(arrays'[maps'[m][n].array], 1, maps'[m][n].len) = x
            BY <2>4, <2>8, <2>9
        <3> QED BY <2>9, <3>1, EntryShown
    <2> QED BY <1>1, <1>11, <2>9, <2>10, ChangeStep
<1>13. CASE ~(s.len < Len(arrays[s.array]))
    <2>1. PICK cells : cells = x \o OneFree
        OBVIOUS
    <2>2. OneFree \in Seq(Cells)
        BY DEF OneFree, Cells
    <2>3. cells \in Seq(Cells) /\ Len(x) <= Len(cells) /\ SubSeq(cells, 1, Len(x)) = x
        BY <1>10, <2>1, <2>2, Front
    <2>4. PICK t : t = [array |-> fresh, len |-> s.len + 1]
        OBVIOUS
    <2>5. /\ maps' = [maps EXCEPT ![m][n] = t]
          /\ Allocate(Entry(fresh, cells))
        BY <1>2, <1>3, <1>5, <1>8, <1>10, <1>13, <2>1, <2>4 DEF AppendTo
    <2>6. PICK new : new = Entry(fresh, cells) /\ DOMAIN new = {fresh} /\ new[fresh] = cells
        BY EntryFacts
    <2>7. Allocate(new) /\ \A id \in DOMAIN new : new[id] \in Seq(Cells) /\ id[3] = clock + 1
        BY <1>0, <2>3, <2>5, <2>6
    <2>8. /\ \A id \in DOMAIN arrays : id \in DOMAIN arrays' /\ arrays'[id] = arrays[id]
          /\ \A id \in (DOMAIN arrays') \ (DOMAIN arrays) : arrays'[id] \in Seq(Cells) /\ id[3] = clock + 1
          /\ \A id \in DOMAIN new : id \in DOMAIN arrays' /\ arrays'[id] = new[id]
        BY <2>7, AllocateFacts DEF TemplateInv
    <2>9. fresh \in DOMAIN arrays' /\ arrays'[fresh] = cells
        BY <2>6, <2>8
    <2>10. /\ DOMAIN maps' = DOMAIN maps /\ \A k \in (DOMAIN maps) \ {m} : maps'[k] = maps[k]
           /\ maps'[m] = [k \in Names |-> maps'[m][k]]
           /\ maps'[m][n] = t /\ \A k \in Names \ {n} : maps'[m][k] = maps[m][k]
        BY <1>4, <2>5, EntryReplaced DEF Replaced
    <2>11. t \in [array : DOMAIN arrays', len : Nat] /\ t.array = fresh /\ t.len = Len(x)
        BY <1>6, <1>10, <2>4, <2>9
    <2>12. Installed(t, n, x)
        BY <1>0, <2>3, <2>9, <2>11 DEF Installed
    <2>13. Limited({m})
        <3>1. m[3] \in 0..clock /\ clock \in Nat
            BY <1>4 DEF TemplateInv, MapsInv, ArraysInv
        <3>2. m[3] \in 0..(clock + 1) /\ DOMAIN maps' = (DOMAIN maps) \cup {m}
            <4>1. m[3] \in 0..(clock + 1)
                BY <3>1
            <4> QED BY <1>4, <2>10, <4>1
        <3>3. \A k \in Names : \/ \E v : Installed(maps'[m][k], k, v)
                               \/ m \in DOMAIN maps /\ maps'[m][k] = maps[m][k]
            BY <1>4, <2>10, <2>12
        <3> QED BY <1>1, <2>8, <2>10, <3>2, <3>3, Growth DEF TemplateInv
    <2>14. Shown(maps', arrays', m) = [Shown(maps, arrays, m) EXCEPT ![n] = x]
        <3>1. SubSeq(arrays'[maps'[m][n].array], 1, maps'[m][n].len) = x
            BY <2>3, <2>9, <2>10, <2>11
        <3>2. \A k \in Names \ {n} : arrays'[maps[m][k].array] = arrays[maps[m][k].array]
            BY <1>4, <2>8 DEF TemplateInv, MapsInv, Within
        <3> QED BY <2>10, <3>1, <3>2, EntryShown
    <2> QED BY <1>1, <1>11, <2>13, <2>14, ChangeStep
<1> QED BY <1>12, <1>13

LEMMA ChangeValueStep ==
    ASSUME TemplateInv, NEW g \in Goroutines, ChangeValue(g)
    PROVE  TemplateInv' /\ [Values!Next]_(Values!vars)
<1>1. clock' = clock + 1 /\ UNCHANGED <<template, response, kept, given, sent, detached, maps>>
    BY DEF ChangeValue, Tick
<1>2. PICK m \in OwnMaps(g), n \in Names :
          maps[m][n].len > 0 /\ arrays' = [arrays EXCEPT ![maps[m][n].array][1] = "changed"]
    BY DEF ChangeValue
<1>3. m \in DOMAIN maps
    BY OwnFacts
<1>4. PICK s : s = maps[m][n] /\ Within(s)
    BY <1>3 DEF TemplateInv, MapsInv
<1>5. s.len \in Nat /\ s.len > 0 /\ s.array \in DOMAIN arrays /\ s = [array |-> s.array, len |-> s.len]
    BY <1>2, <1>4 DEF Within
<1>6. PICK a \in Seq(Cells) : a = arrays[s.array] /\ Len(a) \in Nat /\ s.len <= Len(a)
    BY <1>4, <1>5, LenProperties DEF TemplateInv, ArraysInv, Within
<1>7. PICK shown : shown = Shown(maps, arrays, m)[n]
    OBVIOUS
<1>8. shown = SubSeq(a, 1, s.len) /\ shown \in Seq(Cells) /\ Len(shown) = s.len
    <2>1. shown = Contents(s)
        BY <1>4, <1>7 DEF Shown, Contents
    <2> QED BY <1>4, <1>6, <2>1, NilFacts DEF TemplateInv, Contents
<1>9. PICK cells : cells = [a EXCEPT ![1] = "changed"]
    OBVIOUS
<1>10. PICK x : x = [shown EXCEPT ![1] = "changed"]
    OBVIOUS
<1>11. cells \in Seq(Cells) /\ Len(cells) = Len(a) /\ SubSeq(cells, 1, s.len) = x
    <2>1. 1 \in 1..Len(a) /\ 1 <= s.len /\ "changed" \in Cells
        BY <1>5, <1>6 DEF Cells
    <2>2. PICK k \in Nat : k = s.len /\ k <= Len(a) /\ 1 <= k
        BY <1>5, <1>6, <2>1
    <2>3. cells \in Seq(Cells) /\ Len(cells) = Len(a) /\ SubSeq(cells, 1, k) = [SubSeq(a, 1, k) EXCEPT ![1] = "changed"]
        BY <1>9, <2>1, <2>2, Written
    <2> QED BY <1>8, <1>10, <2>2, <2>3
<1>12. x \in Values!Changed(Shown(maps, arrays, m)[n])
    <2>1. shown # <<>>
        <3>1. Len(<<>>) = 0
            BY EmptySeq
        <3>2. Len(shown) # 0
            BY <1>5, <1>8
        <3> QED BY <3>1, <3>2
    <2> QED BY <1>7, <1>10, <2>1 DEF Values!Changed
<1>13. s.array # Nil.array
    BY <1>4, <1>5, NilFacts DEF TemplateInv
<1>14. PICK len \in Nat : len = s.len /\ len <= Len(cells)
    BY <1>5, <1>6, <1>11
<1>15. /\ Limited({m})
       /\ \A k \in Names \ {n} : maps'[m][k] = maps[m][k] /\ arrays'[maps[m][k].array] = arrays[maps[m][k].array]
       /\ maps'[m][n] = [array |-> maps[m][n].array, len |-> len] /\ arrays'[maps[m][n].array] = cells
    <2>1. Replaced(m, n, [array |-> maps[m][n].array, len |-> len])
        <3>1. maps[m] = [k \in Names |-> maps[m][k]]
            BY <1>3 DEF TemplateInv, MapsInv
        <3> QED BY <1>1, <1>4, <1>5, <1>14, <3>1 DEF Replaced
    <2>2. /\ arrays' = [arrays EXCEPT ![maps[m][n].array] = cells] /\ maps[m][n].array # Nil.array
          /\ Len(cells) = Len(arrays[maps[m][n].array])
        BY <1>2, <1>4, <1>6, <1>9, <1>11, <1>13
    <2>3. Overwritten(m, n, cells, len)
        BY <1>14, <2>1, <2>2 DEF Overwritten
    <2>4. ArraysInv /\ MapsInv /\ OwnedInv
        BY DEF TemplateInv
    <2>5. Limited({m}) /\ OthersStay(m, n)
        BY <1>1, <1>3, <1>11, <1>14, <2>3, <2>4, Overwrite
    <2> QED BY <1>3, <1>14, <2>3, <2>5 DEF OthersStay, Overwritten, Replaced, TemplateInv, MapsInv, Within
<1>16. Shown(maps', arrays', m) = [Shown(maps, arrays, m) EXCEPT ![n] = x]
    <2>1. SubSeq(arrays'[maps'[m][n].array], 1, maps'[m][n].len) = x
        BY <1>11, <1>14, <1>15
    <2> QED BY <1>15, <2>1, EntryShown
<1> QED BY <1>1, <1>12, <1>15, <1>16, ChangeStep

-----------------------------------------------------------------------------
(* The invariant, and the refinement *)

\* The arrays and the slices of a map of the first state.
LEMMA FirstFacts ==
    ASSUME NEW map \in FirstMaps, NEW n \in Names
    PROVE  /\ map = <<map[1], map[2], map[3]>> /\ map[2] \in {"template", "given", "sent"} /\ map[3] = 0
           /\ First(map).arrays[ArrayOf(map, n)] = (IF n = "A" THEN <<map[2]>> ELSE <<>>) \o OneFree
           /\ First(map).map[n] = IF n = "A" THEN [array |-> ArrayOf(map, n), len |-> 1] ELSE Nil
<1>1. map = <<map[1], map[2], map[3]>> /\ map[2] \in {"template", "given", "sent"} /\ map[3] = 0
    <2>1. CASE map = TemplateMap
        BY <2>1 DEF TemplateMap
    <2>2. CASE map # TemplateMap
        <3>1. PICK g \in Goroutines, kind \in {"given", "sent"} : map = <<g, kind, 0>>
            BY <2>2 DEF FirstMaps
        <3> QED BY <3>1
    <2> QED BY <2>1, <2>2
<1>2. PICK values : values = [k \in Names |-> IF k = "A" THEN <<map[2]>> ELSE <<>>]
    OBVIOUS
<1>3. First(map) = Built(map, values, OneFree)
    BY <1>2 DEF First
<1>4. /\ First(map).map = [k \in Names |-> Slice(ArrayOf(map, k), values[k])]
      /\ First(map).arrays = [id \in {ArrayOf(map, k) : k \in Names} |-> values[id[4]] \o OneFree]
    BY <1>3 DEF Built
<1>5. PICK id : id = ArrayOf(map, n) /\ id \in {ArrayOf(map, k) : k \in Names}
    OBVIOUS
<1>6. id[4] = n
    BY <1>5 DEF ArrayOf
<1>7. First(map).arrays[id] = values[n] \o OneFree
    BY <1>4, <1>5, <1>6
<1>8. First(map).map[n] = Slice(id, values[n])
    BY <1>4, <1>5
<1>9. CASE n = "A"
    <2>1. values[n] = <<map[2]>>
        BY <1>2, <1>9
    <2>2. Len(<<map[2]>>) = 1 /\ <<map[2]>> # <<>>
        OBVIOUS
    <2>3. Slice(id, values[n]) = [array |-> id, len |-> 1]
        BY <2>1, <2>2 DEF Slice
    <2> QED BY <1>1, <1>5, <1>7, <1>8, <1>9, <2>1, <2>3
<1>10. CASE n # "A"
    <2>1. values[n] = <<>>
        BY <1>2, <1>10
    <2>2. Slice(id, values[n]) = Nil
        BY <2>1 DEF Slice
    <2> QED BY <1>1, <1>5, <1>7, <1>8, <1>10, <2>1, <2>2
<1> QED BY <1>9, <1>10

FirstArrays == {ArrayOf(map, n) : map \in FirstMaps, n \in Names}

LEMMA FirstState ==
    ASSUME Init
    PROVE  TemplateInv
<1>0. PICK errors : errors = <<Shared, "errors", 0, "errors">>
    OBVIOUS
<1>1. /\ maps = [map \in FirstMaps \cup {NoMap} |-> IF map = NoMap THEN [n \in Names |-> Nil] ELSE First(map).map]
      /\ arrays = [id \in FirstArrays \cup {Nil.array, errors} |->
                        CASE id = Nil.array -> <<>>
                          [] id = errors -> <<"cause", "free">>
                          [] OTHER -> First(<<id[1], id[2], id[3]>>).arrays[id]]
      /\ clock = 0
    BY <1>0 DEF Init, FirstArrays
<1>2. PICK header \in {NoMap, TemplateMap} : template = [data |-> "old", header |-> header, errors |-> [array |-> errors, len |-> 1]]
    BY <1>0 DEF Init
<1>3. /\ response = [g \in Goroutines |-> template] /\ kept = [g \in Goroutines |-> template]
      /\ given = [g \in Goroutines |-> <<g, "given", 0>>] /\ sent = [g \in Goroutines |-> <<g, "sent", 0>>]
      /\ detached = [g \in Goroutines |-> FALSE]
    BY DEF Init
<1>4. errors[2] = "errors" /\ errors[3] = 0 /\ Nil.array[2] = "no array" /\ Nil.array[3] = 0 /\ errors # Nil.array
    BY <1>0 DEF Nil
<1>6. /\ DOMAIN arrays = FirstArrays \cup {Nil.array, errors}
      /\ arrays[Nil.array] = <<>> /\ arrays[errors] = <<"cause", "free">>
      /\ \A id \in FirstArrays : id # Nil.array /\ id # errors => arrays[id] = First(<<id[1], id[2], id[3]>>).arrays[id]
    <2>1. DOMAIN arrays = FirstArrays \cup {Nil.array, errors}
        BY <1>1
    <2>2. Nil.array \in FirstArrays \cup {Nil.array, errors} /\ errors \in FirstArrays \cup {Nil.array, errors}
        OBVIOUS
    <2>3. arrays[Nil.array] = <<>>
        <3>1. PICK nil : nil = Nil.array
            OBVIOUS
        <3>2. arrays[nil] = CASE nil = Nil.array -> <<>>
                              [] nil = errors -> <<"cause", "free">>
                              [] OTHER -> First(<<nil[1], nil[2], nil[3]>>).arrays[nil]
            BY <1>1, <2>2, <3>1
        <3>3. nil # errors
            BY <1>4, <3>1
        <3> QED BY <3>1, <3>2, <3>3
    <2>4. arrays[errors] = <<"cause", "free">>
        BY <1>1, <1>4, <2>2
    <2>5. ASSUME NEW id \in FirstArrays, id # Nil.array, id # errors PROVE arrays[id] = First(<<id[1], id[2], id[3]>>).arrays[id]
        BY <1>1, <2>5
    <2> QED BY <2>1, <2>3, <2>4, <2>5
<1>5. ASSUME NEW map \in FirstMaps, NEW n \in Names
      PROVE  /\ ArrayOf(map, n)[1] = map[1] /\ ArrayOf(map, n)[2] = map[2] /\ ArrayOf(map, n)[3] = map[3] /\ ArrayOf(map, n)[4] = n
             /\ ArrayOf(map, n) \in DOMAIN arrays /\ ArrayOf(map, n) # Nil.array
             /\ arrays[ArrayOf(map, n)] = (IF n = "A" THEN <<map[2]>> ELSE <<>>) \o OneFree
    <2>1. PICK id : id = ArrayOf(map, n)
        OBVIOUS
    <2>2. id[1] = map[1] /\ id[2] = map[2] /\ id[3] = map[3] /\ id[4] = n
        BY <2>1 DEF ArrayOf
    <2>3. id \in FirstArrays
        BY <2>1 DEF FirstArrays
    <2>4. map = <<id[1], id[2], id[3]>> /\ id # Nil.array /\ id # errors
        BY <1>4, <2>2, FirstFacts
    <2>5. arrays[id] = First(map).arrays[id]
        BY <1>6, <2>3, <2>4
    <2>6. First(map).arrays[id] = (IF n = "A" THEN <<map[2]>> ELSE <<>>) \o OneFree
        BY <2>1, FirstFacts
    <2> QED BY <1>6, <2>1, <2>2, <2>3, <2>4, <2>5, <2>6
<1>7. ArraysInv
    <2>1. ASSUME NEW id \in DOMAIN arrays PROVE arrays[id] \in Seq(Cells) /\ id[3] = 0
        <3>1. CASE id \in FirstArrays
            <4>1. PICK map \in FirstMaps, n \in Names : id = ArrayOf(map, n)
                BY <3>1 DEF FirstArrays
            <4>2. arrays[id] = (IF n = "A" THEN <<map[2]>> ELSE <<>>) \o OneFree /\ id[3] = 0
                <5>1. ArrayOf(map, n)[3] = map[3] /\ arrays[ArrayOf(map, n)] = (IF n = "A" THEN <<map[2]>> ELSE <<>>) \o OneFree
                    BY <1>5
                <5>2. map[3] = 0
                    BY FirstFacts
                <5> QED BY <4>1, <5>1, <5>2
            <4>3. map[2] \in Cells
                BY FirstFacts DEF Cells
            <4>4. <<map[2]>> \in Seq(Cells) /\ <<>> \in Seq(Cells) /\ OneFree \in Seq(Cells)
                BY <4>3 DEF Cells, OneFree
            <4> QED BY <4>2, <4>4, ConcatProperties
        <3>2. CASE id = Nil.array
            BY <1>4, <1>6, <3>2, EmptySeq
        <3>3. CASE id = errors
            <4>1. <<"cause", "free">> \in Seq(Cells)
                BY DEF Cells
            <4> QED BY <1>4, <1>6, <3>3, <4>1
        <3> QED BY <1>6, <3>1, <3>2, <3>3
    <2>2. clock \in Nat /\ clock = 0 /\ 0 \in 0..0
        BY <1>1
    <2> QED BY <1>6, <2>1, <2>2 DEF ArraysInv
<1>8. NoMap \notin FirstMaps /\ NoMap \in DOMAIN maps /\ NoMap[3] = 0 /\ NoMap[1] = Shared
    <2>1. NoMap[2] = "no map" /\ NoMap[3] = 0 /\ NoMap[1] = Shared
        BY DEF NoMap
    <2>2. \A map \in FirstMaps : map = TemplateMap \/ \E g \in Goroutines, kind \in {"given", "sent"} : map = <<g, kind, 0>>
        BY DEF FirstMaps
    <2>3. \A map \in FirstMaps : map[2] \in {"template", "given", "sent"}
        BY <2>2 DEF TemplateMap
    <2> QED BY <1>1, <2>1, <2>3
\* An entry is empty, or the slice of one value over the array of that map and name.
<1>9. ASSUME NEW m \in DOMAIN maps, NEW n \in Names
      PROVE  \/ maps[m][n] = Nil
             \/ m \in FirstMaps /\ n = "A" /\ maps[m][n] = [array |-> ArrayOf(m, n), len |-> 1]
    BY <1>1, <1>8, FirstFacts
<1>10. MapsInv
    <2>1. ASSUME NEW m \in DOMAIN maps PROVE m[3] \in 0..clock /\ maps[m] = [n \in Names |-> maps[m][n]]
        <3>1. CASE m = NoMap
            BY <1>1, <1>8, <3>1
        <3>2. CASE m \in FirstMaps
            <4>1. maps[m] = First(m).map
                BY <1>1, <1>8, <3>2
            <4>2. First(m).map = [n \in Names |-> Slice(ArrayOf(m, n), (IF n = "A" THEN <<m[2]>> ELSE <<>>))]
                BY DEF First, Built
            <4>3. m[3] = 0
                BY <3>2 DEF FirstMaps, TemplateMap
            <4>4. PICK f : f = maps[m] /\ f = [n \in Names |-> Slice(ArrayOf(m, n), (IF n = "A" THEN <<m[2]>> ELSE <<>>))]
                BY <4>1, <4>2
            <4>5. f = [n \in Names |-> f[n]] /\ clock = 0
                BY <1>1, <4>4
            <4> QED BY <4>3, <4>4, <4>5
        <3> QED BY <1>1, <3>1, <3>2
    <2>2. ASSUME NEW m \in DOMAIN maps, NEW n \in Names
          PROVE  /\ Within(maps[m][n])
                 /\ maps[m][n].array[2] # "errors"
                 /\ maps[m][n].array # Nil.array => maps[m][n].array[4] = n
        <3>1. CASE maps[m][n] = Nil
            <4>1. Nil = [array |-> Nil.array, len |-> 0] /\ Len(<<>>) = 0
                BY DEF Nil
            <4>2. PICK s : s = maps[m][n] /\ s = [array |-> Nil.array, len |-> 0]
                BY <3>1, <4>1
            <4>3. Within(s) /\ s.array = Nil.array
                BY <1>6, <4>1, <4>2 DEF Within
            <4> QED BY <1>4, <4>2, <4>3
        <3>2. CASE m \in FirstMaps /\ n = "A" /\ maps[m][n] = [array |-> ArrayOf(m, n), len |-> 1]
            <4>1. PICK id : id = ArrayOf(m, n) /\ id \in DOMAIN arrays /\ id[2] = m[2] /\ id[4] = n /\ arrays[id] = <<m[2]>> \o OneFree
                BY <1>5, <3>2
            <4>2. m[2] \in {"template", "given", "sent"}
                BY <3>2, FirstFacts
            <4>3. Len(<<m[2]>> \o OneFree) = 2
                BY DEF OneFree
            <4>4. PICK s : s = maps[m][n] /\ s = [array |-> id, len |-> 1]
                BY <3>2, <4>1
            <4>5. Within(s) /\ s.array = id
                BY <4>1, <4>3, <4>4 DEF Within
            <4> QED BY <4>1, <4>2, <4>4, <4>5
        <3> QED BY <1>9, <3>1, <3>2
    <2> QED BY <2>1, <2>2 DEF MapsInv
<1>11. OwnedInv
    <2> SUFFICES ASSUME NEW m1 \in DOMAIN maps, NEW m2 \in DOMAIN maps, NEW n1 \in Names, NEW n2 \in Names,
                        maps[m1][n1].array = maps[m2][n2].array, maps[m1][n1].array # Nil.array
                 PROVE  m1 = m2
        BY DEF OwnedInv
    <2>1. m1 \in FirstMaps /\ m2 \in FirstMaps /\ ArrayOf(m1, n1) = ArrayOf(m2, n2)
        <3>1. ASSUME NEW m \in DOMAIN maps, NEW n \in Names, maps[m][n].array # Nil.array
              PROVE  m \in FirstMaps /\ maps[m][n].array = ArrayOf(m, n)
            <4>1. CASE maps[m][n] = Nil
                BY <3>1, <4>1
            <4>2. CASE m \in FirstMaps /\ n = "A" /\ maps[m][n] = [array |-> ArrayOf(m, n), len |-> 1]
                <5>1. PICK s : s = maps[m][n] /\ s = [array |-> ArrayOf(m, n), len |-> 1]
                    BY <4>2
                <5>2. s.array = ArrayOf(m, n)
                    BY <5>1
                <5> QED BY <4>2, <5>1, <5>2
            <4> QED BY <1>9, <4>1, <4>2
        <3> QED BY <3>1
    <2>2. m1[1] = m2[1] /\ m1[2] = m2[2] /\ m1[3] = m2[3]
        <3>1. \A map \in FirstMaps, n \in Names : ArrayOf(map, n)[1] = map[1] /\ ArrayOf(map, n)[2] = map[2] /\ ArrayOf(map, n)[3] = map[3]
            BY <1>5
        <3> QED BY <2>1, <3>1
    <2> QED BY <2>1, <2>2, FirstFacts
<1>12. ResponsesInv
    <2>1. TemplateMap \in DOMAIN maps /\ TemplateMap[1] = Shared /\ \A g \in Goroutines : <<g, "given", 0>> \in DOMAIN maps /\ <<g, "sent", 0>> \in DOMAIN maps
        <3>1. TemplateMap \in FirstMaps /\ TemplateMap[1] = Shared
            BY DEF FirstMaps, TemplateMap
        <3>2. \A g \in Goroutines : <<g, "given", 0>> \in FirstMaps /\ <<g, "sent", 0>> \in FirstMaps
            BY DEF FirstMaps
        <3>3. DOMAIN maps = FirstMaps \cup {NoMap}
            BY <1>1
        <3> QED BY <3>1, <3>2, <3>3
    <2>2. template.header[1] = Shared /\ template.header \in DOMAIN maps
        BY <1>2, <1>8, <2>1
    <2>3. Proper(template)
        <3>1. Len(<<"cause", "free">>) = 2
            OBVIOUS
        <3>2. Within(template.errors) /\ template.errors.array[2] = "errors"
            <4>1. PICK s : s = template.errors /\ s = [array |-> errors, len |-> 1]
                BY <1>2
            <4>2. s.array = errors /\ s.len = 1 /\ s \in [array : DOMAIN arrays, len : Nat]
                BY <1>6, <4>1
            <4>3. Len(arrays[s.array]) = 2 /\ s.array[2] = "errors"
                BY <1>4, <1>6, <3>1, <4>2
            <4>4. Within(s)
                BY <4>2, <4>3 DEF Within
            <4> QED BY <4>1, <4>3, <4>4
        <3>3. template \in [data : {"old", "own"}, header : DOMAIN maps, errors : [array : DOMAIN arrays, len : Nat]]
            BY <1>2, <1>6, <1>8, <2>1
        <3> QED BY <3>2, <3>3 DEF Proper
    <2>4. detached \in [Goroutines -> BOOLEAN]
        BY <1>3
    <2>5. /\ response = [g \in Goroutines |-> response[g]] /\ kept = [g \in Goroutines |-> kept[g]]
          /\ \A g \in Goroutines : response[g] = template /\ kept[g] = template /\ ~detached[g]
          /\ \A g \in Goroutines : given[g] \in DOMAIN maps /\ sent[g] \in DOMAIN maps
        BY <1>3, <2>1
    <2> QED BY <1>3, <2>2, <2>3, <2>4, <2>5 DEF ResponsesInv, Belongs
<1> QED BY <1>7, <1>10, <1>11, <1>12 DEF TemplateInv

LEMMA Step ==
    ASSUME TemplateInv, [Next]_vars
    PROVE  TemplateInv' /\ [Values!Next]_(Values!vars)
<1>1. ASSUME NEW g \in Goroutines, WithData(g) PROVE TemplateInv' /\ [Values!Next]_(Values!vars)
    BY <1>1, WithDataStep
<1>2. ASSUME NEW g \in Goroutines, NEW n \in Names, WithHeader(g, n) PROVE TemplateInv' /\ [Values!Next]_(Values!vars)
    BY <1>2, WithHeaderStep
<1>3. ASSUME NEW g \in Goroutines, WithHeaders(g) PROVE TemplateInv' /\ [Values!Next]_(Values!vars)
    BY <1>3, WithHeadersStep
<1>4. ASSUME NEW g \in Goroutines, WithErrors(g) PROVE TemplateInv' /\ [Values!Next]_(Values!vars)
    BY <1>4, WithErrorsStep
<1>5. ASSUME NEW g \in Goroutines, Render(g) PROVE TemplateInv' /\ [Values!Next]_(Values!vars)
    BY <1>5, RenderStep
<1>6. ASSUME NEW g \in Goroutines, Keep(g) PROVE TemplateInv' /\ [Values!Next]_(Values!vars)
    BY <1>6, KeepStep
<1>7. ASSUME NEW g \in Goroutines, Restart(g) PROVE TemplateInv' /\ [Values!Next]_(Values!vars)
    BY <1>7, RestartStep
<1>8. ASSUME NEW g \in Goroutines, AddValue(g) PROVE TemplateInv' /\ [Values!Next]_(Values!vars)
    BY <1>8, AddValueStep
<1>9. ASSUME NEW g \in Goroutines, ChangeValue(g) PROVE TemplateInv' /\ [Values!Next]_(Values!vars)
    BY <1>9, ChangeValueStep
<1>10. ASSUME UNCHANGED vars PROVE TemplateInv' /\ [Values!Next]_(Values!vars)
    <2>1. TemplateInv'
        BY <1>10 DEF vars, TemplateInv, ArraysInv, MapsInv, OwnedInv, ResponsesInv, Within, Proper, Belongs
    <2>2. UNCHANGED <<Template, ResponseValues, KeptValues, GivenValues, SentValues>>
        BY <1>10 DEF vars, Template, ResponseValues, KeptValues, GivenValues, SentValues, Memory, Value, HeaderValue, Contents
    <2>3. UNCHANGED Values!vars
        BY <2>2 DEF Values!vars, Template, ResponseValues, KeptValues, GivenValues, SentValues
    <2> QED BY <2>1, <2>3
<1> QED BY <1>1, <1>2, <1>3, <1>4, <1>5, <1>6, <1>7, <1>8, <1>9, <1>10 DEF Next

\* Responses behave as values for any number of goroutines, header names and
\* steps: what a With method, a rendering or a change of one's own headers does
\* is seen in that response alone, and the template's memory stays as it was,
\* its free cells included (response.go:34-38, render.go:395).
THEOREM ValuesCorrect == Spec => ValuesKept
<1>1. Init => TemplateInv
    BY FirstState
<1>2. Init => Values!Init
    <2>1. ASSUME Init, NEW g \in Goroutines PROVE response[g] = template /\ kept[g] = template
        BY <2>1 DEF Init
    <2>2. ASSUME Init, NEW g \in Goroutines PROVE Value(response[g]) = Value(template) /\ Value(kept[g]) = Value(template)
        BY <2>1, <2>2
    <2> QED BY <2>2 DEF Values!Init
<1>3. TemplateInv /\ [Next]_vars => TemplateInv' /\ [Values!Next]_(Values!vars)
    BY Step
<1> QED BY <1>1, <1>2, <1>3, PTL DEF Spec, ValuesKept, Values!Spec
=============================================================================
