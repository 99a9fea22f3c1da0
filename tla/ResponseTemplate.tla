--------------------------- MODULE ResponseTemplate ---------------------------
(***************************************************************************)
(* Response templates in memory (response.go): goroutines that derive      *)
(* responses from one shared template, render them, and change what is     *)
(* theirs. A response is copied by value, but the header map, the slices   *)
(* of header values and the slice of errors in it are references.          *)
(*                                                                         *)
(* A map or an array is named by who allocated it, for what, and at which  *)
(* step. An array's length is its capacity; cells beyond the slices that   *)
(* use it are "free". append writes into a free cell when there is one.    *)
(* Mutant... definitions are faults the property they name detects.        *)
(***************************************************************************)
EXTENDS Naturals, Sequences

CONSTANTS Goroutines,  \* each handles a request with the shared template
          Shared,      \* the owner of the template
          Names,       \* header names
          MaxSteps     \* BOUND: steps of all goroutines together

VARIABLES template,  \* the shared Response: data, header, errors
          response,  \* goroutine -> its own
          kept,      \* goroutine -> a response it kept
          given,     \* goroutine -> the map it passes to WithHeaders
          sent,      \* goroutine -> the header map of its connection
          detached,  \* goroutine -> it alone has the map of its response
          maps,      \* map -> name -> slice
          arrays,    \* array -> cells
          clock      \* steps taken

vars == <<template, response, kept, given, sent, detached, maps, arrays, clock>>

ASSUME TemplateAssumption == Shared \notin Goroutines /\ MaxSteps \in Nat

NoMap == <<Shared, "no map", 0>>
Nil == [array |-> <<Shared, "no array", 0, "">>, len |-> 0]

Slice(id, values) == IF values = <<>> THEN Nil ELSE [array |-> id, len |-> Len(values)]
Contents(s) == SubSeq(arrays[s.array], 1, s.len)

ArrayOf(map, n) == <<map[1], map[2], map[3], n>>

\* A map with fresh arrays of these values, each with a number of free cells.
Built(map, values, spare) ==
    [ map    |-> [n \in Names |-> Slice(ArrayOf(map, n), values[n])],
      arrays |-> [id \in {ArrayOf(map, n) : n \in Names} |-> values[id[4]] \o spare] ]

OneFree == <<"free">>

\* f with the entries of g, and the function with one entry.
Extended(f, g) == [x \in DOMAIN f \cup DOMAIN g |-> IF x \in DOMAIN g THEN g[x] ELSE f[x]]
Entry(x, v) == [y \in {x} |-> v]

\* The maps of the template and of the goroutines, each with one value of its own.
TemplateMap == <<Shared, "template", 0>>
FirstMaps == {TemplateMap} \cup {<<g, kind, 0>> : g \in Goroutines, kind \in {"given", "sent"}}
First(map) == Built(map, [n \in Names |-> IF n = "A" THEN <<map[2]>> ELSE <<>>], OneFree)

\* A package-level template: with headers or without, and errors with a free cell.
Init ==
    LET errors == <<Shared, "errors", 0, "errors">>
        ids    == {ArrayOf(map, n) : map \in FirstMaps, n \in Names}
    IN  /\ \E header \in {NoMap, TemplateMap} :
              template = [data |-> "old", header |-> header, errors |-> [array |-> errors, len |-> 1]]
        /\ response = [g \in Goroutines |-> template]
        /\ kept = [g \in Goroutines |-> template]
        /\ given = [g \in Goroutines |-> <<g, "given", 0>>]
        /\ sent = [g \in Goroutines |-> <<g, "sent", 0>>]
        /\ detached = [g \in Goroutines |-> FALSE]
        /\ maps = [map \in FirstMaps \cup {NoMap} |-> IF map = NoMap THEN [n \in Names |-> Nil] ELSE First(map).map]
        /\ arrays = [id \in ids \cup {Nil.array, errors} |->
                        CASE id = Nil.array -> <<>>
                          [] id = errors -> <<"cause", "free">>
                          [] OTHER -> First(<<id[1], id[2], id[3]>>).arrays[id]]
        /\ clock = 0

-----------------------------------------------------------------------------
(* http.Header and append *)

\* http.Header.Clone: a new map, new arrays, and no capacity beyond the values.
Cloned(map, source) == Built(map, [n \in Names |-> Contents(maps[source][n])], <<>>)

\* ValuesKept: the target gets the slices of the source.
MutantCopied(map, source) == [map |-> maps[source], arrays |-> <<>>]

\* applyRenderHeaders: each value slice of the source is copied into a fresh array.
Copied(map, source) == Built(map, [n \in Names |-> Contents(maps[source][n])], OneFree)

\* The entries of b over those of a.
Merged(a, b) == [n \in Names |-> IF b[n].len = 0 THEN a[n] ELSE b[n]]

\* append of one value: in place while there is a free cell, else into a new
\* array, with one cell to spare.
AppendTo(s, fresh, v) ==
    IF s.len < Len(arrays[s.array])
    THEN [slice |-> [s EXCEPT !.len = @ + 1], arrays |-> Entry(s.array, [arrays[s.array] EXCEPT ![s.len + 1] = v])]
    ELSE [slice |-> [array |-> fresh, len |-> s.len + 1], arrays |-> Entry(fresh, Append(Contents(s), v) \o OneFree)]

Allocate(new) == arrays' = Extended(arrays, new)

Tick == clock < MaxSteps /\ clock' = clock + 1

-----------------------------------------------------------------------------
(* The With methods *)

NewMap(g) == <<g, "header", clock + 1>>

\* WithStatus, WithCode, WithMsg, WithData, WithBody, WithContentType,
\* WithCallback and WithTemplate assign to the copied struct.
WithData(g) ==
    /\ Tick
    /\ response' = [response EXCEPT ![g].data = "own"]
    /\ UNCHANGED <<template, kept, given, sent, detached, maps, arrays>>

Detach(g) == /\ response' = [response EXCEPT ![g].header = NewMap(g)]
             /\ detached' = [detached EXCEPT ![g] = TRUE]

\* Also each half of WithoutCache.
WithHeader(g, n) ==
    /\ Tick
    /\ LET clone == Cloned(NewMap(g), response[g].header)
           value == <<g, "value", clock + 1, n>>
       IN  /\ maps' = Extended(maps, Entry(NewMap(g), [clone.map EXCEPT ![n] = [array |-> value, len |-> 1]]))
           /\ Allocate(Extended(clone.arrays, Entry(value, <<"set">>)))
    /\ Detach(g)
    /\ UNCHANGED <<template, kept, given, sent>>

WithHeaders(g) ==
    /\ Tick
    /\ LET clone  == Cloned(NewMap(g), response[g].header)
           copies == Copied(<<g, "copies", clock + 1>>, given[g])
       IN  /\ maps' = Extended(maps, Entry(NewMap(g), Merged(clone.map, copies.map)))
           /\ Allocate(Extended(clone.arrays, copies.arrays))
    /\ Detach(g)
    /\ UNCHANGED <<template, kept, given, sent>>

\* A nil cause is skipped after the slice was copied.
WithErrors(g) ==
    /\ Tick
    /\ LET fresh  == <<g, "errors", clock + 1, "errors">>
           copy   == Contents(response[g].errors)
       IN  \E cause \in {<<>>, <<"cause">>} :
              /\ response' = [response EXCEPT ![g].errors = Slice(fresh, copy \o cause)]
              /\ Allocate(Entry(fresh, copy \o cause \o OneFree))
    /\ UNCHANGED <<template, kept, given, sent, detached, maps>>

-----------------------------------------------------------------------------
(* XGin.Render and the goroutines themselves *)

\* The response or the template itself, by value or by pointer, is rendered: the
\* instance transformation works on a copy, and the headers are copied into the
\* connection's map, which middleware may change afterwards.
Render(g) ==
    /\ Tick
    /\ \E r \in {response[g], template} :
          LET copies == Copied(<<g, "copies", clock + 1>>, r.header)
          IN  /\ maps' = [maps EXCEPT ![sent[g]] = Merged(@, copies.map)]
              /\ Allocate(copies.arrays)
    /\ UNCHANGED <<template, response, kept, given, sent, detached>>

\* Assignments of response values: later derivations share what they refer to.
Keep(g) ==
    /\ Tick
    /\ kept' = [kept EXCEPT ![g] = response[g]]
    /\ detached' = [detached EXCEPT ![g] = FALSE]
    /\ UNCHANGED <<template, response, given, sent, maps, arrays>>

Restart(g) ==
    /\ Tick
    /\ \E r \in {template, kept[g]} : response' = [response EXCEPT ![g] = r]
    /\ detached' = [detached EXCEPT ![g] = FALSE]
    /\ UNCHANGED <<template, kept, given, sent, maps, arrays>>

\* The maps a goroutine may change in place: those of its connection and its
\* argument, and that of a response it detached from the template.
OwnMaps(g) == {given[g], sent[g]} \cup (IF detached[g] THEN {response[g].header} ELSE {})

\* http.Header.Add
AddValue(g) ==
    /\ Tick
    /\ \E m \in OwnMaps(g), n \in Names :
          LET appended == AppendTo(maps[m][n], <<g, "added", clock + 1, n>>, "added")
          IN  /\ maps' = [maps EXCEPT ![m][n] = appended.slice]
              /\ Allocate(appended.arrays)
    /\ UNCHANGED <<template, response, kept, given, sent, detached>>

ChangeValue(g) ==
    /\ Tick
    /\ \E m \in OwnMaps(g), n \in Names :
          /\ maps[m][n].len > 0
          /\ arrays' = [arrays EXCEPT ![maps[m][n].array][1] = "changed"]
    /\ UNCHANGED <<template, response, kept, given, sent, detached, maps>>

-----------------------------------------------------------------------------
Next == \E g \in Goroutines :
           \/ WithData(g) \/ (\E n \in Names : WithHeader(g, n)) \/ WithHeaders(g) \/ WithErrors(g)
           \/ Render(g) \/ Keep(g) \/ Restart(g) \/ AddValue(g) \/ ChangeValue(g)

Spec == Init /\ [][Next]_vars

-----------------------------------------------------------------------------
(* Properties *)

HeaderValue(map) == [n \in Names |-> Contents(maps[map][n])]
Value(r) == [data |-> r.data, header |-> HeaderValue(r.header), errors |-> Contents(r.errors)]

\* The template's value with its free cells, which a careless append would fill.
Memory == <<template, maps[template.header], [n \in Names |-> arrays[maps[template.header][n].array]],
            arrays[template.errors.array]>>

\* Responses behave as values although they are made of references: a With
\* method, a rendering or a change of one's own headers is seen in that response
\* alone, and nothing writes to the template's memory, not even behind its
\* slices (response.go:34-38, render.go:395).
Values == INSTANCE ValueResponses
            WITH template <- [value |-> Value(template), memory |-> Memory],
                 response <- [g \in Goroutines |-> Value(response[g])],
                 kept     <- [g \in Goroutines |-> Value(kept[g])],
                 given    <- [g \in Goroutines |-> HeaderValue(given[g])],
                 sent     <- [g \in Goroutines |-> HeaderValue(sent[g])]
ValuesKept == Values!Spec
=============================================================================
