--------------------------- MODULE TypeCachesProofs ---------------------------
(***************************************************************************)
(* Proofs about TypeCaches for any number of concurrent requests, of types *)
(* and of stages.                                                          *)
(***************************************************************************)
EXTENDS TypeCaches, TLAPS

-----------------------------------------------------------------------------
(* The inductive invariant *)

\* A request past LoadOrStore uses the one entry of its type.
EntryInv ==
    /\ \A t \in Types : plans[t] # NoOne => asked[plans[t]] = t
    /\ \A r \in Requests : pc[r] # "bind" => entry[r] # NoOne /\ entry[r] = plans[asked[r]]

\* Whoever compiled, or is about to, found the entry new and made it running; a
\* request that returned from Do found it done.
Returning == {"read plan", "read error"} \cup Served
OnceInv ==
    /\ CompiledOnce
    /\ \A r \in Requests : Compiles(r) => pc[r] \notin {"bind", "once"} /\ once[entry[r]] # "new"
    /\ \A r \in Requests : pc[r] \in Compiling => once[entry[r]] = "running"
    /\ \A r \in Requests : pc[r] \in Returning => once[entry[r]] = "done"

\* What a compilation leaves behind, from its last stage until it is released.
Author(t, p) == IF Refused(t) THEN p = NoOne
                ELSE p \in Requests /\ built[p] = Stages /\ pc[p] \notin {"bind", "once", "compile"}
CompileInv ==
    /\ \A r \in Requests : pc[r] = "compile" => built[r] < FailsAt[asked[r]]
    /\ \A r \in Requests : pc[r] \in {"set plan", "set error", "release"} => (built[r] = Stages <=> ~Refused(asked[r]))
    /\ \A r \in Requests : pc[r] \in {"set error", "release"} => Author(asked[r], entryPlan[entry[r]])
    /\ \A r \in Requests : pc[r] = "release" => (entryErr[entry[r]] <=> Refused(asked[r]))

\* A released entry holds the outcome of its type for good.
ReleasedInv ==
    \A e \in Requests : once[e] = "done" => Author(asked[e], entryPlan[e]) /\ (entryErr[e] <=> Refused(asked[e]))

\* What planFor returns is what the entry holds.
ReadInv ==
    /\ \A r \in Requests : pc[r] \in {"read error"} \cup Served => gotPlan[r] = entryPlan[entry[r]]
    /\ \A r \in Requests : pc[r] \in Served => gotErr[r] = entryErr[entry[r]]

\* Metadata is complete before anybody else can find it.
Described(t, m) == m \in Requests /\ asked[m] = t /\ pc[m] = "walk" /\ flagged[m] /\ listed[m] = Fields[t]
MetaInv ==
    /\ \A t \in Types : cache[t] # NoOne => Described(t, cache[t])
    /\ \A r \in Requests : pc[r] = "walk" => Described(asked[r], meta[r])
    /\ \A r \in Requests : pc[r] # "walk" => meta[r] = NoOne
    /\ \A r \in Requests : pc[r] = "list" => flagged[r] /\ listed[r] <= Fields[asked[r]]
    /\ \A r \in Requests : pc[r] \notin {"list", "walk"} => listed[r] = 0

CachesInv == TypeOK /\ EntryInv /\ OnceInv /\ CompileInv /\ ReleasedInv /\ ReadInv /\ MetaInv

-----------------------------------------------------------------------------
(* Types *)

LEMMA TypeInit == Init => TypeOK
BY CachesAssumption DEF Init, TypeOK, Places

\* Every step of a request keeps the types.
LEMMA TypeStep == TypeOK /\ EntryInv /\ [Next]_vars => TypeOK'
<1> SUFFICES ASSUME TypeOK, EntryInv, [Next]_vars PROVE TypeOK'
    OBVIOUS
<1> USE CachesAssumption DEF TypeOK, Places, planVars, metaVars
<1>1. CASE UNCHANGED vars
    BY <1>1 DEF vars
<1>2. ASSUME NEW r \in Requests, PlanEntryFor(r) PROVE TypeOK'
    BY <1>2 DEF PlanEntryFor, Goto, Stored
<1>3. ASSUME NEW r \in Requests, OnceFirst(r) PROVE TypeOK'
    BY <1>3 DEF OnceFirst, Goto
<1>4. ASSUME NEW r \in Requests, OnceDone(r) PROVE TypeOK'
    BY <1>4 DEF OnceDone, Goto
<1>5. ASSUME NEW r \in Requests, CompileStage(r) PROVE TypeOK'
    <2>1. pc' \in [Requests -> Places]
        BY <1>5 DEF CompileStage
    <2>2. built' \in [Requests -> 0..Stages]
        <3>1. CASE UNCHANGED built
            BY <3>1
        <3>2. CASE built[r] # Stages /\ built' = [built EXCEPT ![r] = @ + 1]
            <4> HIDE DEF TypeOK, Places
            <4>1. built \in [Requests -> 0..Stages] /\ Stages \in Nat
                BY DEF TypeOK
            <4>2. built[r] + 1 \in 0..Stages
                BY <3>2, <4>1
            <4> QED BY <3>2, <4>1, <4>2
        <3> QED BY <1>5, <3>1, <3>2 DEF CompileStage, Compiled
    <2> QED BY <1>5, <2>1, <2>2 DEF CompileStage
<1>6. ASSUME NEW r \in Requests, SetPlan(r) PROVE TypeOK'
    BY <1>6 DEF SetPlan, Goto
<1>7. ASSUME NEW r \in Requests, SetError(r) PROVE TypeOK'
    BY <1>7 DEF SetError, Goto, Compiled
<1>8. ASSUME NEW r \in Requests, OnceReturns(r) PROVE TypeOK'
    BY <1>8 DEF OnceReturns, Goto
<1>9. ASSUME NEW r \in Requests, ReadPlan(r) PROVE TypeOK'
    BY <1>9 DEF ReadPlan, Goto, EntryInv
<1>10. ASSUME NEW r \in Requests, ReadError(r) PROVE TypeOK'
    BY <1>10 DEF ReadError, EntryInv
<1>11. ASSUME NEW r \in Requests, GetMetadata(r) PROVE TypeOK'
    <2>1. CASE LoadMetadata(r)
        BY <2>1 DEF LoadMetadata
    <2>2. CASE DecideValidator(r)
        BY <2>2 DEF DecideValidator, Goto
    <2>3. CASE ListField(r)
        <3> HIDE DEF TypeOK, Places
        <3>1. listed \in [Requests -> Nat]
            BY DEF TypeOK
        <3>2. listed[r] + 1 \in Nat
            BY <3>1
        <3> QED BY <2>3, <3>1, <3>2 DEF ListField, TypeOK
    <2>4. CASE StoreMetadata(r)
        BY <2>4 DEF StoreMetadata, Goto
    <2> QED BY <1>11, <2>1, <2>2, <2>3, <2>4 DEF GetMetadata
<1> QED BY <1>1, <1>2, <1>3, <1>4, <1>5, <1>6, <1>7, <1>8, <1>9, <1>10, <1>11 DEF Next, PlanFor

-----------------------------------------------------------------------------
(* Entries *)

\* The entry a request uses belongs to a request of the same type.
LEMMA EntryFacts ==
    ASSUME TypeOK, EntryInv, NEW r \in Requests, pc[r] # "bind"
    PROVE  entry[r] \in Requests /\ asked[entry[r]] = asked[r] /\ asked[r] \in Types
BY DEF TypeOK, EntryInv

\* Which request takes a step, and what no step changes: the type a request asks
\* for, and the place of every other request.
LEMMA OneMoves ==
    ASSUME TypeOK, [Next]_vars
    PROVE  /\ asked' = asked
           /\ \/ UNCHANGED vars
              \/ \E r \in Requests : /\ PlanFor(r) \/ GetMetadata(r)
                                     /\ \A s \in Requests : s # r => pc'[s] = pc[s]
<1> USE DEF TypeOK, planVars, metaVars
<1>1. CASE UNCHANGED vars
    BY <1>1 DEF vars
<1>2. ASSUME NEW r \in Requests, PlanFor(r) PROVE asked' = asked /\ \A s \in Requests : s # r => pc'[s] = pc[s]
    BY <1>2 DEF PlanFor, PlanEntryFor, OnceFirst, OnceDone, CompileStage, SetPlan, SetError, OnceReturns, ReadPlan,
                ReadError, Goto
<1>3. ASSUME NEW r \in Requests, GetMetadata(r) PROVE asked' = asked /\ \A s \in Requests : s # r => pc'[s] = pc[s]
    BY <1>3 DEF GetMetadata, LoadMetadata, DecideValidator, ListField, StoreMetadata, Goto
<1> QED BY <1>1, <1>2, <1>3 DEF Next

\* LoadOrStore keeps the first entry of a type, whoever asks.
LEMMA EntryStep == TypeOK /\ EntryInv /\ [Next]_vars => EntryInv'
<1> SUFFICES ASSUME TypeOK, EntryInv, [Next]_vars PROVE EntryInv'
    OBVIOUS
<1>1. CASE UNCHANGED vars
    BY <1>1 DEF vars, planVars, metaVars, EntryInv
<1>2. ASSUME NEW r \in Requests, PlanEntryFor(r) PROVE EntryInv'
    <2>1. asked' = asked /\ asked[r] \in Types /\ NoOne \notin Requests
        BY <1>2, CachesAssumption DEF PlanEntryFor, TypeOK
    <2>2. plans' = [plans EXCEPT ![asked[r]] = Stored(r)] /\ entry' = [entry EXCEPT ![r] = Stored(r)]
        BY <1>2 DEF PlanEntryFor
    <2>3. Stored(r) # NoOne /\ asked[Stored(r)] = asked[r]
        BY <2>1 DEF Stored, EntryInv
    <2>4. ASSUME NEW t \in Types, plans'[t] # NoOne PROVE asked'[plans'[t]] = t
        BY <2>1, <2>2, <2>3, <2>4 DEF EntryInv, TypeOK
    <2>5. ASSUME NEW s \in Requests, pc'[s] # "bind" PROVE entry'[s] # NoOne /\ entry'[s] = plans'[asked'[s]]
        <3>1. CASE s = r
            BY <2>1, <2>2, <2>3, <3>1 DEF TypeOK
        <3>2. CASE s # r
            <4>1. pc[s] # "bind"
                BY <1>2, <2>5, <3>2 DEF PlanEntryFor, Goto, TypeOK
            <4>2. entry'[s] = entry[s] /\ entry[s] = plans[asked[s]] /\ entry[s] # NoOne
                BY <2>2, <3>2, <4>1 DEF EntryInv, TypeOK
            <4> QED BY <2>1, <2>2, <4>2 DEF Stored, TypeOK
        <3> QED BY <3>1, <3>2
    <2> QED BY <2>4, <2>5 DEF EntryInv
<1>3. ASSUME NEW r \in Requests, PlanFor(r), ~PlanEntryFor(r) PROVE UNCHANGED <<asked, plans, entry>> /\ pc[r] # "bind"
    BY <1>3 DEF PlanFor, OnceFirst, OnceDone, CompileStage, SetPlan, SetError, OnceReturns, ReadPlan, ReadError, Goto, planVars
<1>4. ASSUME NEW r \in Requests, GetMetadata(r) PROVE UNCHANGED <<asked, plans, entry>> /\ pc[r] # "bind"
    BY <1>4 DEF GetMetadata, LoadMetadata, DecideValidator, ListField, StoreMetadata, Goto, planVars
<1>5. ASSUME NEW r \in Requests, UNCHANGED <<asked, plans, entry>>, pc[r] # "bind",
             \A s \in Requests : s # r => pc'[s] = pc[s]
      PROVE  EntryInv'
    BY <1>5 DEF EntryInv
<1> QED BY <1>1, <1>2, <1>3, <1>4, <1>5, OneMoves

-----------------------------------------------------------------------------
(* One compilation *)

\* What a step of a request does to the compilation of its entry: nothing, or
\* it starts one, or it takes one further.
LEMMA OnceStep == TypeOK /\ EntryInv /\ EntryInv' /\ OnceInv /\ [Next]_vars => OnceInv'
<1> SUFFICES ASSUME TypeOK, EntryInv, EntryInv', OnceInv, [Next]_vars PROVE OnceInv'
    OBVIOUS
<1> USE DEF Compiling, Returning, Served
<1>1. CASE UNCHANGED vars
    BY <1>1 DEF vars, planVars, metaVars, OnceInv, CompiledOnce, Compiles
<1>2. ASSUME NEW r \in Requests, PlanEntryFor(r) PROVE OnceInv'
    BY <1>2 DEF PlanEntryFor, Goto, TypeOK, OnceInv, CompiledOnce, Compiles
<1>3. ASSUME NEW r \in Requests, OnceFirst(r) PROVE OnceInv'
    <2>1. UNCHANGED <<asked, entry, built>> /\ pc[r] = "once" /\ pc' = [pc EXCEPT ![r] = "compile"]
        BY <1>3 DEF OnceFirst, Goto
    <2>2. once[entry[r]] = "new" /\ once' = [once EXCEPT ![entry[r]] = "running"] /\ entry[r] \in Requests
        BY <1>3, <2>1, EntryFacts DEF OnceFirst
    <2>3. ASSUME NEW s \in Requests, Compiles(s), asked[s] = asked[r] PROVE FALSE
        <3>1. pc[s] \notin {"bind", "once"} /\ once[entry[s]] # "new"
            BY <2>3 DEF OnceInv
        <3>2. entry[s] = plans[asked[s]] /\ entry[r] = plans[asked[r]]
            BY <2>1, <3>1 DEF EntryInv
        <3> QED BY <2>2, <2>3, <3>1, <3>2
    <2>4. \A s \in Requests : s # r => pc'[s] = pc[s] /\ (Compiles(s)' <=> Compiles(s))
        BY <2>1 DEF Compiles, TypeOK
    <2>5. CompiledOnce'
        BY <2>1, <2>3, <2>4 DEF CompiledOnce, OnceInv
    <2>6. \A s \in Requests : once'[entry[s]] = IF entry[s] = entry[r] THEN "running" ELSE once[entry[s]]
        BY <2>2 DEF TypeOK
    <2>7. pc'[r] = "compile"
        BY <2>1 DEF TypeOK
    <2>8. \A s \in Requests : Compiles(s)' => pc'[s] \notin {"bind", "once"} /\ once'[entry'[s]] # "new"
        BY <2>1, <2>4, <2>6, <2>7 DEF OnceInv
    <2>9. \A s \in Requests : pc'[s] \in Compiling => once'[entry'[s]] = "running"
        BY <2>1, <2>4, <2>6, <2>7 DEF OnceInv
    <2>10. ASSUME NEW s \in Requests, pc'[s] \in Returning PROVE once'[entry'[s]] = "done"
        <3>1. s # r /\ pc[s] \in Returning
            BY <2>4, <2>7, <2>10
        <3>2. once[entry[s]] = "done"
            BY <3>1 DEF OnceInv
        <3> QED BY <2>1, <2>2, <2>6, <3>2
    <2> QED BY <2>5, <2>8, <2>9, <2>10 DEF OnceInv
<1>4. ASSUME NEW r \in Requests, OnceDone(r) PROVE OnceInv'
    BY <1>4, EntryFacts DEF OnceDone, Released, Goto, TypeOK, OnceInv, CompiledOnce, Compiles, planVars, metaVars
<1>5. ASSUME NEW r \in Requests, CompileStage(r) PROVE OnceInv'
    <2>1. UNCHANGED <<asked, entry, once>> /\ pc[r] = "compile" /\ pc'[r] \in Compiling
        BY <1>5 DEF CompileStage, TypeOK
    <2>2. \A s \in Requests : s # r => pc'[s] = pc[s] /\ built'[s] = built[s]
        BY <1>5 DEF CompileStage, TypeOK
    <2>3. \A s \in Requests : Compiles(s)' <=> Compiles(s)
        BY <2>1, <2>2 DEF Compiles
    <2> QED BY <2>1, <2>2, <2>3 DEF OnceInv, CompiledOnce
<1>6. ASSUME NEW r \in Requests, SetPlan(r) \/ SetError(r) PROVE OnceInv'
    <2>1. UNCHANGED <<asked, entry, once, built>> /\ pc[r] \in Compiling /\ pc'[r] \in Compiling
        BY <1>6 DEF SetPlan, SetError, Goto, TypeOK
    <2>2. \A s \in Requests : s # r => pc'[s] = pc[s]
        BY <1>6 DEF SetPlan, SetError, Goto, TypeOK
    <2>3. \A s \in Requests : Compiles(s)' <=> Compiles(s)
        BY <2>1, <2>2 DEF Compiles
    <2> QED BY <2>1, <2>2, <2>3 DEF OnceInv, CompiledOnce
<1>7. ASSUME NEW r \in Requests, OnceReturns(r) PROVE OnceInv'
    <2>1. UNCHANGED <<asked, entry, built>> /\ pc[r] = "release" /\ pc' = [pc EXCEPT ![r] = "read plan"]
        BY <1>7 DEF OnceReturns, Goto
    <2>2. once' = [once EXCEPT ![entry[r]] = "done"] /\ entry[r] \in Requests
        BY <1>7, <2>1, EntryFacts DEF OnceReturns
    <2>3. \A s \in Requests : Compiles(s)' => Compiles(s)
        BY <2>1 DEF Compiles, TypeOK
    <2>4. \A s \in Requests : s # r => pc'[s] = pc[s]
        BY <2>1 DEF TypeOK
    <2>5. ASSUME NEW s \in Requests, s # r, pc[s] \in Compiling PROVE entry[s] # entry[r]
        <3>1. Compiles(s) /\ Compiles(r)
            BY <2>1, <2>5 DEF Compiles
        <3>2. asked[s] # asked[r]
            BY <2>5, <3>1 DEF OnceInv, CompiledOnce
        <3> QED BY <2>1, <2>5, <3>2, EntryFacts
    <2>6. \A s \in Requests : once'[entry[s]] = IF entry[s] = entry[r] THEN "done" ELSE once[entry[s]]
        BY <2>2 DEF TypeOK
    <2>7. pc'[r] = "read plan"
        BY <2>1 DEF TypeOK
    <2>8. CompiledOnce'
        BY <2>1, <2>3 DEF OnceInv, CompiledOnce
    <2>9. \A s \in Requests : Compiles(s)' => pc'[s] \notin {"bind", "once"} /\ once'[entry'[s]] # "new"
        BY <2>1, <2>3, <2>4, <2>6, <2>7 DEF OnceInv
    <2>10. \A s \in Requests : pc'[s] \in Compiling => once'[entry'[s]] = "running"
        BY <2>1, <2>4, <2>5, <2>6, <2>7 DEF OnceInv
    <2>11. \A s \in Requests : pc'[s] \in Returning => once'[entry'[s]] = "done"
        BY <2>1, <2>4, <2>6, <2>7 DEF OnceInv
    <2> QED BY <2>8, <2>9, <2>10, <2>11 DEF OnceInv
<1>8. ASSUME NEW r \in Requests, ReadPlan(r) \/ ReadError(r) \/ GetMetadata(r) PROVE OnceInv'
    <2>1. UNCHANGED <<asked, entry, once, built>> /\ pc[r] \in Returning /\ pc'[r] \in Returning
        BY <1>8 DEF ReadPlan, ReadError, GetMetadata, LoadMetadata, DecideValidator, ListField, StoreMetadata, Goto,
                    TypeOK, planVars
    <2>2. \A s \in Requests : s # r => pc'[s] = pc[s]
        BY <1>8 DEF ReadPlan, ReadError, GetMetadata, LoadMetadata, DecideValidator, ListField, StoreMetadata, Goto,
                    TypeOK
    <2>3. \A s \in Requests : Compiles(s)' <=> Compiles(s)
        BY <2>1, <2>2 DEF Compiles
    <2> QED BY <2>1, <2>2, <2>3 DEF OnceInv, CompiledOnce
<1> QED BY <1>1, <1>2, <1>3, <1>4, <1>5, <1>6, <1>7, <1>8 DEF Next, PlanFor

-----------------------------------------------------------------------------
(* What the compilation leaves in its entry *)

\* Two requests never compile into one entry.
LEMMA OneCompiler ==
    ASSUME TypeOK, EntryInv, OnceInv, NEW r \in Requests, NEW s \in Requests, r # s,
           pc[r] \in Compiling, pc[s] \in Compiling
    PROVE  entry[s] # entry[r]
<1>1. Compiles(s) /\ Compiles(r)
    BY DEF Compiles
<1>2. asked[s] # asked[r]
    BY <1>1 DEF OnceInv, CompiledOnce
<1> QED BY <1>2, EntryFacts DEF Compiling

\* A plan is not built further once its author left the stages behind.
LEMMA BuiltKept ==
    ASSUME TypeOK, [Next]_vars, NEW p \in Requests, pc[p] \notin {"bind", "once", "compile"}
    PROVE  pc'[p] \notin {"bind", "once", "compile"} /\ built'[p] = built[p]
<1> USE DEF TypeOK, planVars, metaVars
<1>1. CASE UNCHANGED vars
    BY <1>1 DEF vars
<1>2. ASSUME NEW r \in Requests, PlanFor(r)
      PROVE  pc'[p] \notin {"bind", "once", "compile"} /\ built'[p] = built[p]
    BY <1>2 DEF PlanFor, PlanEntryFor, OnceFirst, OnceDone, CompileStage, SetPlan, SetError, OnceReturns, ReadPlan,
                ReadError, Goto
<1>3. ASSUME NEW r \in Requests, GetMetadata(r)
      PROVE  pc'[p] \notin {"bind", "once", "compile"} /\ built'[p] = built[p]
    BY <1>3 DEF GetMetadata, LoadMetadata, DecideValidator, ListField, StoreMetadata, Goto
<1> QED BY <1>1, <1>2, <1>3 DEF Next

\* The outcome of a type keeps its author and its stages.
LEMMA AuthorKept ==
    ASSUME TypeOK, [Next]_vars
    PROVE  \A t \in Types : \A p \in Requests \cup {NoOne} :
               Author(t, p) => IF Refused(t) THEN p = NoOne
                               ELSE p \in Requests /\ built'[p] = Stages /\ pc'[p] \notin {"bind", "once", "compile"}
BY BuiltKept DEF Author

\* Whose place changes takes the step.
LEMMA Mover ==
    ASSUME TypeOK, [Next]_vars, NEW s \in Requests, pc'[s] # pc[s]
    PROVE  PlanFor(s) \/ GetMetadata(s)
BY OneMoves DEF vars

\* Only a request that stores the outcome of its compilation writes an entry.
LEMMA EntryWritten ==
    ASSUME TypeOK, [Next]_vars
    PROVE  \/ UNCHANGED <<entryPlan, entryErr>>
           \/ \E r \in Requests : SetPlan(r) \/ SetError(r)
<1>1. ASSUME NEW r \in Requests, PlanFor(r), ~SetPlan(r), ~SetError(r) PROVE UNCHANGED <<entryPlan, entryErr>>
    BY <1>1 DEF PlanFor, PlanEntryFor, OnceFirst, OnceDone, CompileStage, OnceReturns, ReadPlan, ReadError, planVars
<1>2. ASSUME NEW r \in Requests, GetMetadata(r) PROVE UNCHANGED <<entryPlan, entryErr>>
    BY <1>2 DEF GetMetadata, LoadMetadata, DecideValidator, ListField, StoreMetadata, planVars
<1> QED BY <1>1, <1>2 DEF Next, vars, planVars

\* A plan grows by the stages of its author only.
LEMMA BuiltBy ==
    ASSUME TypeOK, [Next]_vars, NEW s \in Requests
    PROVE  built'[s] = built[s] \/ CompileStage(s)
<1>1. ASSUME NEW r \in Requests, PlanFor(r), ~CompileStage(r) PROVE built' = built
    BY <1>1 DEF PlanFor, PlanEntryFor, OnceFirst, OnceDone, SetPlan, SetError, OnceReturns, ReadPlan, ReadError, planVars
<1>2. ASSUME NEW r \in Requests, GetMetadata(r) PROVE built' = built
    BY <1>2 DEF GetMetadata, LoadMetadata, DecideValidator, ListField, StoreMetadata, planVars
<1>3. ASSUME NEW r \in Requests, CompileStage(r), r # s PROVE built'[s] = built[s]
    BY <1>3 DEF CompileStage, TypeOK
<1> QED BY <1>1, <1>2, <1>3 DEF Next, vars, planVars

\* Compilation, stage by stage and store by store.
LEMMA CompileStep == TypeOK /\ EntryInv /\ EntryInv' /\ OnceInv /\ CompileInv /\ [Next]_vars => CompileInv'
<1> SUFFICES ASSUME TypeOK, EntryInv, EntryInv', OnceInv, CompileInv, [Next]_vars PROVE CompileInv'
    OBVIOUS
<1> DEFINE Storing == {"set error", "release"}
<1>a. asked' = asked /\ \A r \in Requests : asked[r] \in Types /\ built[r] \in 0..Stages /\ FailsAt[asked[r]] \in Nat \ {0}
    BY OneMoves, CachesAssumption DEF TypeOK
<1>b. ASSUME NEW s \in Requests, pc[s] \in Compiling PROVE entry'[s] = entry[s] /\ entry[s] \in Requests
    <2>1. entry[s] \in Requests
        BY <1>b, EntryFacts DEF Compiling
    <2>2. ASSUME NEW r \in Requests, PlanEntryFor(r) PROVE entry'[s] = entry[s]
        BY <1>b, <2>2 DEF PlanEntryFor, Goto, Compiling, TypeOK
    <2>3. ASSUME NEW r \in Requests, PlanFor(r), ~PlanEntryFor(r) PROVE entry' = entry
        BY <2>3 DEF PlanFor, OnceFirst, OnceDone, CompileStage, SetPlan, SetError, OnceReturns, ReadPlan, ReadError, planVars
    <2>4. ASSUME NEW r \in Requests, GetMetadata(r) PROVE entry' = entry
        BY <2>4 DEF GetMetadata, LoadMetadata, DecideValidator, ListField, StoreMetadata, planVars
    <2> QED BY <2>1, <2>2, <2>3, <2>4 DEF Next, vars, planVars
<1>1. ASSUME NEW s \in Requests, pc'[s] = "compile" PROVE built'[s] < FailsAt[asked'[s]]
    <2>1. CASE pc[s] = "compile"
        <3>1. built[s] < FailsAt[asked[s]]
            BY <2>1 DEF CompileInv
        <3>2. built'[s] = built[s] \/ (built'[s] = built[s] + 1 /\ built[s] + 1 # FailsAt[asked[s]])
            <4>1. built \in [Requests -> 0..Stages]
                BY DEF TypeOK
            <4> QED BY <4>1, BuiltBy DEF CompileStage
        <3> QED BY <1>a, <3>1, <3>2
    <2>2. CASE pc[s] # "compile"
        <3>1. PlanFor(s) \/ GetMetadata(s)
            BY <1>1, <2>2, Mover
        <3>2. OnceFirst(s)
            BY <1>1, <2>2, <3>1 DEF PlanFor, PlanEntryFor, OnceDone, CompileStage, SetPlan, SetError, OnceReturns, ReadPlan,
               ReadError, GetMetadata, LoadMetadata, DecideValidator, ListField, StoreMetadata, Goto, TypeOK
        <3>3. built'[s] = built[s] /\ pc[s] = "once"
            BY <3>2 DEF OnceFirst, Goto
        <3>4. ~(built[s] > 0)
            BY <3>3 DEF OnceInv, Compiles
        <3> QED BY <1>a, <3>3, <3>4
    <2> QED BY <2>1, <2>2
<1>2. ASSUME NEW s \in Requests, pc'[s] \in {"set plan"} \cup Storing
      PROVE  built'[s] = Stages <=> ~Refused(asked'[s])
    <2>1. CASE pc[s] \in {"set plan"} \cup Storing
        <3>1. built[s] = Stages <=> ~Refused(asked[s])
            BY <2>1 DEF CompileInv
        <3> QED BY <1>a, <2>1, <3>1, BuiltKept
    <2>2. CASE pc[s] \notin {"set plan"} \cup Storing
        <3>1. PlanFor(s) \/ GetMetadata(s)
            BY <1>2, <2>2, Mover
        <3>2. CompileStage(s)
            BY <1>2, <2>2, <3>1 DEF PlanFor, PlanEntryFor, OnceFirst, OnceDone, SetPlan, SetError, OnceReturns, ReadPlan,
               ReadError, GetMetadata, LoadMetadata, DecideValidator, ListField, StoreMetadata, Goto, TypeOK
        <3>3. built'[s] = built[s] /\ (built[s] + 1 = FailsAt[asked[s]] \/ built[s] = Stages) /\ pc[s] = "compile"
            BY <1>2, <3>2 DEF CompileStage, Compiled, TypeOK
        <3>4. built[s] < FailsAt[asked[s]]
            BY <3>3 DEF CompileInv
        <3> QED BY <1>a, <3>3, <3>4, CachesAssumption DEF Refused
    <2> QED BY <2>1, <2>2
<1>3. ASSUME NEW s \in Requests, pc'[s] \in Storing PROVE Author(asked[s], entryPlan[entry[s]])'
    <2>1. CASE pc[s] \in Storing
        <3>1. Author(asked[s], entryPlan[entry[s]]) /\ entry'[s] = entry[s] /\ entry[s] \in Requests
            BY <1>b, <2>1 DEF CompileInv, Compiling
        <3>2. ASSUME NEW r \in Requests, SetPlan(r) PROVE entryPlan'[entry[s]] = entryPlan[entry[s]]
            <4>1. r # s /\ pc[r] \in Compiling /\ pc[s] \in Compiling
                BY <2>1, <3>2 DEF SetPlan, Goto, Compiling
            <4>2. entry[s] # entry[r] /\ entry[s] \in Requests
                BY <1>b, <4>1, OneCompiler
            <4> QED BY <3>2, <4>2 DEF SetPlan, TypeOK
        <3>3. ASSUME NEW r \in Requests, SetError(r) PROVE entryPlan' = entryPlan
            BY <3>3 DEF SetError
        <3>4. entryPlan'[entry[s]] = entryPlan[entry[s]] /\ entryPlan[entry[s]] \in Requests \cup {NoOne}
            BY <3>1, <3>2, <3>3, EntryWritten DEF TypeOK
        <3> QED BY <1>a, <3>1, <3>4, AuthorKept DEF Author
    <2>2. CASE pc[s] \notin Storing
        <3>1. PlanFor(s) \/ GetMetadata(s)
            BY <1>3, <2>2, Mover
        <3>2. SetPlan(s)
            BY <1>3, <2>2, <3>1 DEF PlanFor, PlanEntryFor, OnceFirst, OnceDone, CompileStage, SetError, OnceReturns, ReadPlan,
               ReadError, GetMetadata, LoadMetadata, DecideValidator, ListField, StoreMetadata, Goto, TypeOK
        <3>3. pc[s] = "set plan" /\ pc'[s] = "set error" /\ UNCHANGED <<built, entry>>
            BY <3>2 DEF SetPlan, Goto, TypeOK
        <3>4. entryPlan'[entry[s]] = IF built[s] = Stages THEN s ELSE NoOne
            BY <1>b, <3>2, <3>3 DEF SetPlan, Compiled, Compiling, TypeOK
        <3>5. built[s] = Stages <=> ~Refused(asked[s])
            BY <3>3 DEF CompileInv
        <3> QED BY <1>a, <3>3, <3>4, <3>5 DEF Author
    <2> QED BY <2>1, <2>2
<1>4. ASSUME NEW s \in Requests, pc'[s] = "release" PROVE entryErr'[entry'[s]] <=> Refused(asked'[s])
    <2>1. CASE pc[s] = "release"
        <3>1. (entryErr[entry[s]] <=> Refused(asked[s])) /\ entry'[s] = entry[s] /\ entry[s] \in Requests
            BY <1>b, <2>1 DEF CompileInv, Compiling
        <3>2. ASSUME NEW r \in Requests, SetError(r) PROVE entryErr'[entry[s]] = entryErr[entry[s]]
            <4>1. r # s /\ pc[r] \in Compiling /\ pc[s] \in Compiling
                BY <2>1, <3>2 DEF SetError, Goto, Compiling
            <4>2. entry[s] # entry[r] /\ entry[s] \in Requests
                BY <1>b, <4>1, OneCompiler
            <4> QED BY <3>2, <4>2 DEF SetError, TypeOK
        <3>3. ASSUME NEW r \in Requests, SetPlan(r) PROVE entryErr' = entryErr
            BY <3>3 DEF SetPlan
        <3> QED BY <1>a, <3>1, <3>2, <3>3, EntryWritten
    <2>2. CASE pc[s] # "release"
        <3>1. PlanFor(s) \/ GetMetadata(s)
            BY <1>4, <2>2, Mover
        <3>2. SetError(s)
            BY <1>4, <2>2, <3>1 DEF PlanFor, PlanEntryFor, OnceFirst, OnceDone, CompileStage, SetPlan, OnceReturns, ReadPlan,
               ReadError, GetMetadata, LoadMetadata, DecideValidator, ListField, StoreMetadata, Goto, TypeOK
        <3>3. pc[s] = "set error" /\ UNCHANGED <<built, entry>>
            BY <3>2 DEF SetError, Goto
        <3>4. entryErr'[entry[s]] <=> built[s] # Stages
            BY <1>b, <3>2, <3>3 DEF SetError, Compiled, Compiling, TypeOK
        <3>5. built[s] = Stages <=> ~Refused(asked[s])
            BY <3>3 DEF CompileInv
        <3> QED BY <1>a, <3>3, <3>4, <3>5
    <2> QED BY <2>1, <2>2
<1> QED BY <1>1, <1>2, <1>3, <1>4 DEF CompileInv

-----------------------------------------------------------------------------
(* What is read of an entry *)

\* Once.Do is done with an entry when its compiler returns.
LEMMA OnceReleased ==
    ASSUME TypeOK, [Next]_vars, NEW e \in Requests, once'[e] = "done", once[e] # "done"
    PROVE  \E r \in Requests : OnceReturns(r) /\ entry[r] = e
<1>1. ASSUME NEW r \in Requests, PlanFor(r), ~OnceFirst(r), ~OnceReturns(r) PROVE once' = once
    BY <1>1 DEF PlanFor, PlanEntryFor, OnceDone, CompileStage, SetPlan, SetError, ReadPlan, ReadError, planVars
<1>2. ASSUME NEW r \in Requests, GetMetadata(r) PROVE once' = once
    BY <1>2 DEF GetMetadata, LoadMetadata, DecideValidator, ListField, StoreMetadata, planVars
<1>3. ASSUME NEW r \in Requests, OnceFirst(r) PROVE FALSE
    BY <1>3 DEF OnceFirst, TypeOK
<1>4. ASSUME NEW r \in Requests, OnceReturns(r) PROVE entry[r] = e
    BY <1>4 DEF OnceReturns, TypeOK
<1> QED BY <1>1, <1>2, <1>3, <1>4 DEF Next, vars, planVars

\* Nobody writes an entry that is released.
LEMMA ReleasedKept ==
    ASSUME TypeOK, OnceInv, [Next]_vars, NEW e \in Requests, once[e] = "done"
    PROVE  entryPlan'[e] = entryPlan[e] /\ entryErr'[e] = entryErr[e]
<1>1. ASSUME NEW r \in Requests, SetPlan(r) \/ SetError(r) PROVE entry[r] # e
    BY <1>1 DEF SetPlan, SetError, Goto, OnceInv, Compiling
<1>2. ASSUME NEW r \in Requests, SetPlan(r) \/ SetError(r) PROVE entryPlan'[e] = entryPlan[e] /\ entryErr'[e] = entryErr[e]
    BY <1>1, <1>2 DEF SetPlan, SetError, TypeOK
<1> QED BY <1>2, EntryWritten

\* An entry is released with the outcome of its type, and keeps it.
LEMMA ReleasedStep == TypeOK /\ EntryInv /\ OnceInv /\ CompileInv /\ ReleasedInv /\ [Next]_vars => ReleasedInv'
<1> SUFFICES ASSUME TypeOK, EntryInv, OnceInv, CompileInv, ReleasedInv, [Next]_vars,
                    NEW e \in Requests, once'[e] = "done"
             PROVE  Author(asked[e], entryPlan[e])' /\ (entryErr'[e] <=> Refused(asked'[e]))
    BY DEF ReleasedInv
<1>1. asked' = asked /\ asked[e] \in Types /\ entryPlan[e] \in Requests \cup {NoOne}
    BY OneMoves DEF TypeOK
<1>2. Author(asked[e], entryPlan[e]) => Author(asked[e], entryPlan[e]) /\
                                        (entryPlan'[e] = entryPlan[e] => Author(asked[e], entryPlan[e])')
    BY <1>1, AuthorKept DEF Author
<1>3. CASE once[e] = "done"
    <2>1. Author(asked[e], entryPlan[e]) /\ (entryErr[e] <=> Refused(asked[e]))
        BY <1>3 DEF ReleasedInv
    <2> QED BY <1>1, <1>2, <1>3, <2>1, ReleasedKept
<1>4. CASE once[e] # "done"
    <2>1. PICK r \in Requests : OnceReturns(r) /\ entry[r] = e
        BY <1>4, OnceReleased
    <2>2. pc[r] = "release" /\ UNCHANGED <<entryPlan, entryErr>>
        BY <2>1 DEF OnceReturns, Goto
    <2>3. asked[e] = asked[r]
        BY <2>1, <2>2, EntryFacts
    <2>4. Author(asked[e], entryPlan[e]) /\ (entryErr[e] <=> Refused(asked[e]))
        BY <2>1, <2>2, <2>3 DEF CompileInv
    <2> QED BY <1>1, <1>2, <2>2, <2>4
<1> QED BY <1>3, <1>4

\* planFor answers with what the released entry holds.
LEMMA ReadStep == TypeOK /\ EntryInv /\ OnceInv /\ ReadInv /\ [Next]_vars => ReadInv'
<1> SUFFICES ASSUME TypeOK, EntryInv, OnceInv, ReadInv, [Next]_vars,
                    NEW s \in Requests, pc'[s] \in {"read error"} \cup Served
             PROVE  gotPlan'[s] = entryPlan'[entry'[s]] /\ (pc'[s] \in Served => gotErr'[s] = entryErr'[entry'[s]])
    BY DEF ReadInv
<1>1. pc[s] \in Returning
    <2>1. CASE pc'[s] = pc[s]
        BY <2>1 DEF Returning
    <2>2. CASE PlanFor(s) \/ GetMetadata(s)
        BY <2>2 DEF PlanFor, PlanEntryFor, OnceFirst, OnceDone, CompileStage, SetPlan, SetError, OnceReturns, ReadPlan,
           ReadError, GetMetadata, LoadMetadata, DecideValidator, ListField, StoreMetadata, Goto, TypeOK, Returning, Served
    <2> QED BY <2>1, <2>2, Mover
<1>2. entry[s] \in Requests /\ once[entry[s]] = "done"
    BY <1>1, EntryFacts DEF OnceInv, Returning, Served
<1>3. entryPlan'[entry[s]] = entryPlan[entry[s]] /\ entryErr'[entry[s]] = entryErr[entry[s]]
    BY <1>2, ReleasedKept
<1>4. ASSUME NEW r \in Requests, r # s, PlanFor(r) \/ GetMetadata(r)
      PROVE  entry'[s] = entry[s] /\ gotPlan'[s] = gotPlan[s] /\ gotErr'[s] = gotErr[s] /\ pc'[s] = pc[s]
    BY <1>4 DEF PlanFor, PlanEntryFor, OnceFirst, OnceDone, CompileStage, SetPlan, SetError, OnceReturns, ReadPlan,
       ReadError, GetMetadata, LoadMetadata, DecideValidator, ListField, StoreMetadata, Goto, TypeOK, planVars
<1>5. CASE ReadPlan(s)
    BY <1>3, <1>5 DEF ReadPlan, Goto, TypeOK, Served
<1>6. CASE ReadError(s)
    BY <1>3, <1>6 DEF ReadError, TypeOK, ReadInv
<1>7. CASE GetMetadata(s)
    BY <1>3, <1>7 DEF GetMetadata, LoadMetadata, DecideValidator, ListField, StoreMetadata, Goto, TypeOK, planVars, ReadInv,
       Served
<1>8. CASE /\ entry'[s] = entry[s] /\ gotPlan'[s] = gotPlan[s]
           /\ gotErr'[s] = gotErr[s] /\ pc'[s] = pc[s]
    BY <1>3, <1>8 DEF ReadInv
<1>9. ASSUME PlanFor(s), ~ReadPlan(s), ~ReadError(s) PROVE FALSE
    BY <1>1, <1>9 DEF PlanFor, PlanEntryFor, OnceFirst, OnceDone, CompileStage, SetPlan, SetError, OnceReturns, Goto, TypeOK,
       Returning, Served
<1>10. CASE UNCHANGED vars
    BY <1>8, <1>10 DEF vars, planVars
<1> QED BY <1>4, <1>5, <1>6, <1>7, <1>8, <1>9, <1>10 DEF Next

-----------------------------------------------------------------------------
(* Metadata *)

\* Nobody writes the metadata of a request that walks with it.
LEMMA WalkKept ==
    ASSUME TypeOK, [Next]_vars, NEW m \in Requests, pc[m] = "walk"
    PROVE  pc'[m] = "walk" /\ flagged'[m] = flagged[m] /\ listed'[m] = listed[m]
<1> USE DEF TypeOK, planVars, metaVars
<1>1. CASE UNCHANGED vars
    BY <1>1 DEF vars
<1>2. ASSUME NEW r \in Requests, PlanFor(r) PROVE pc'[m] = "walk" /\ flagged'[m] = flagged[m] /\ listed'[m] = listed[m]
    BY <1>2 DEF PlanFor, PlanEntryFor, OnceFirst, OnceDone, CompileStage, SetPlan, SetError, OnceReturns, ReadPlan,
                ReadError, Goto
<1>3. ASSUME NEW r \in Requests, GetMetadata(r) PROVE pc'[m] = "walk" /\ flagged'[m] = flagged[m] /\ listed'[m] = listed[m]
    BY <1>3 DEF GetMetadata, LoadMetadata, DecideValidator, ListField, StoreMetadata, Goto
<1> QED BY <1>1, <1>2, <1>3 DEF Next

\* Metadata is found by others only when it is complete.
LEMMA MetaStep == TypeOK /\ MetaInv /\ [Next]_vars => MetaInv'
<1> SUFFICES ASSUME TypeOK, MetaInv, [Next]_vars PROVE MetaInv'
    OBVIOUS
<1>a. asked' = asked /\ NoOne \notin Requests /\ \A r \in Requests : asked[r] \in Types /\ Fields[asked[r]] \in Nat
    BY OneMoves, CachesAssumption DEF TypeOK
<1>b. \A t \in Types, m \in Requests : Described(t, m) => asked'[m] = t /\ pc'[m] = "walk" /\ flagged'[m] /\
                                                          listed'[m] = Fields[t]
    BY <1>a, WalkKept DEF Described
<1>1. CASE UNCHANGED vars
    BY <1>1 DEF vars, planVars, metaVars, MetaInv, Described
<1>2. ASSUME NEW r \in Requests, PlanFor(r) PROVE MetaInv'
    <2>1. UNCHANGED metaVars /\ pc[r] \notin {"list", "walk"} /\ pc'[r] \notin {"list", "walk"}
        BY <1>2 DEF PlanFor, PlanEntryFor, OnceFirst, OnceDone, CompileStage, SetPlan, SetError, OnceReturns, ReadPlan,
                    ReadError, Goto, TypeOK
    <2>2. \A s \in Requests : s # r => pc'[s] = pc[s]
        BY <1>2 DEF PlanFor, PlanEntryFor, OnceFirst, OnceDone, CompileStage, SetPlan, SetError, OnceReturns, ReadPlan,
                    ReadError, Goto, TypeOK
    <2> QED BY <1>a, <2>1, <2>2 DEF MetaInv, Described, metaVars
<1>3. ASSUME NEW r \in Requests, LoadMetadata(r) PROVE MetaInv'
    <2>1. UNCHANGED <<cache, flagged, listed>> /\ pc[r] = "validate" /\ meta[r] = NoOne
        BY <1>3 DEF LoadMetadata, MetaInv
    <2>2. \A s \in Requests : s # r => pc'[s] = pc[s] /\ meta'[s] = meta[s]
        BY <1>3 DEF LoadMetadata, TypeOK
    <2>3. \/ cache[asked[r]] # NoOne /\ meta'[r] = cache[asked[r]] /\ pc'[r] = "walk"
          \/ meta'[r] = NoOne /\ pc'[r] = "flag"
        BY <1>3, <2>1 DEF LoadMetadata, TypeOK
    <2> QED BY <1>a, <2>1, <2>2, <2>3 DEF MetaInv, Described
<1>4. ASSUME NEW r \in Requests, DecideValidator(r) PROVE MetaInv'
    <2>1. UNCHANGED <<cache, listed, meta>> /\ pc[r] = "flag" /\ pc'[r] = "list" /\ flagged'[r]
        BY <1>4 DEF DecideValidator, Goto, TypeOK
    <2>2. \A s \in Requests : s # r => pc'[s] = pc[s] /\ flagged'[s] = flagged[s]
        BY <1>4 DEF DecideValidator, Goto, TypeOK
    <2>3. listed[r] <= Fields[asked[r]]
        BY <1>a, <2>1 DEF MetaInv
    <2> QED BY <1>a, <2>1, <2>2, <2>3 DEF MetaInv, Described
<1>5. ASSUME NEW r \in Requests, ListField(r) PROVE MetaInv'
    <2>1. UNCHANGED <<cache, pc, flagged, meta>> /\ pc[r] = "list" /\ listed[r] < Fields[asked[r]]
        BY <1>5 DEF ListField
    <2>2. listed \in [Requests -> Nat] /\ listed' = [listed EXCEPT ![r] = @ + 1]
        BY <1>5 DEF ListField, TypeOK
    <2>3. listed'[r] <= Fields[asked[r]] /\ \A s \in Requests : s # r => listed'[s] = listed[s]
        BY <1>a, <2>1, <2>2
    <2> QED BY <1>a, <2>1, <2>3 DEF MetaInv, Described
<1>6. ASSUME NEW r \in Requests, StoreMetadata(r) PROVE MetaInv'
    <2>1. UNCHANGED <<flagged, listed>> /\ pc[r] = "list" /\ pc'[r] = "walk" /\ meta'[r] = r
        BY <1>6 DEF StoreMetadata, Goto, TypeOK
    <2>2. \A s \in Requests : s # r => pc'[s] = pc[s] /\ meta'[s] = meta[s]
        BY <1>6 DEF StoreMetadata, Goto, TypeOK
    <2>3. Described(asked[r], r)'
        BY <1>6, <1>a, <2>1 DEF StoreMetadata, MetaInv, Described
    <2>4. \A t \in Types : cache'[t] = IF t = asked[r] THEN r ELSE cache[t]
        BY <1>6 DEF StoreMetadata, TypeOK
    <2>5. \A t \in Types : cache'[t] # NoOne => Described(t, cache[t])' \/ t = asked[r]
        BY <1>a, <2>1, <2>2, <2>4 DEF MetaInv, Described
    <2> QED BY <1>a, <2>1, <2>2, <2>3, <2>4, <2>5 DEF MetaInv, Described
<1> QED BY <1>1, <1>2, <1>3, <1>4, <1>5, <1>6 DEF Next, GetMetadata

-----------------------------------------------------------------------------
(* Theorems *)

LEMMA CachesInit == Init => CachesInv
<1> SUFFICES ASSUME Init PROVE CachesInv
    OBVIOUS
<1>1. TypeOK
    BY TypeInit
<1>2. EntryInv /\ CompileInv /\ ReleasedInv /\ ReadInv
    BY DEF Init, EntryInv, CompileInv, ReleasedInv, ReadInv, Served
<1>3. ASSUME NEW r \in Requests PROVE ~Compiles(r)
    <2>1. built[r] = 0 /\ pc[r] = "bind"
        BY DEF Init
    <2> QED BY <2>1 DEF Compiles, Compiling
<1>4. OnceInv
    BY <1>3 DEF Init, OnceInv, CompiledOnce, Compiling, Returning, Served
<1>5. MetaInv
    BY DEF Init, MetaInv
<1> QED BY <1>1, <1>2, <1>4, <1>5 DEF CachesInv

LEMMA CachesStep == CachesInv /\ [Next]_vars => CachesInv'
BY TypeStep, EntryStep, OnceStep, CompileStep, ReleasedStep, ReadStep, MetaStep DEF CachesInv

\* Every variable keeps its type (binder.go:217-240, validator.go:182-220).
THEOREM TypeCorrect == Spec => []TypeOK
<1>1. CachesInv => TypeOK
    BY DEF CachesInv
<1> QED BY CachesInit, CachesStep, <1>1, PTL DEF Spec

\* However many requests race for a type, one of them compiles it
\* (binder.go:217-240).
THEOREM CompiledOnceCorrect == Spec => []CompiledOnce
<1>1. CachesInv => CompiledOnce
    BY DEF CachesInv, OnceInv
<1> QED BY CachesInit, CachesStep, <1>1, PTL DEF Spec

\* What the requests have been given, in a state of the invariant: what each
\* would have computed alone, from when it has its answer.
LEMMA PlanAnswered ==
    ASSUME CachesInv, NEW r \in Requests
    PROVE  PlanAnswer(r) = IF pc[r] \in Served THEN {Alone(<<r, "plan">>)} ELSE {}
<1>1. CASE pc[r] \in Served
    <2>1. entry[r] \in Requests /\ asked[entry[r]] = asked[r] /\ once[entry[r]] = "done"
        BY <1>1, EntryFacts DEF CachesInv, Served, OnceInv, Returning
    <2>2. gotPlan[r] = entryPlan[entry[r]] /\ gotErr[r] = entryErr[entry[r]]
        BY <1>1 DEF CachesInv, ReadInv
    <2>3. Author(asked[r], gotPlan[r]) /\ (gotErr[r] <=> Refused(asked[r]))
        BY <2>1, <2>2 DEF CachesInv, ReleasedInv
    <2>4. gotErr[r] = Refused(asked[r])
        BY <2>3 DEF CachesInv, TypeOK, Refused
    <2>5. (IF gotPlan[r] = NoOne THEN 0 ELSE built[gotPlan[r]]) = IF Refused(asked[r]) THEN 0 ELSE Stages
        BY <2>3, CachesAssumption DEF Author
    <2>6. Alone(<<r, "plan">>) = [refused |-> Refused(asked[r]), stages |-> IF Refused(asked[r]) THEN 0 ELSE Stages]
        BY DEF Alone
    <2> QED BY <1>1, <2>4, <2>5, <2>6 DEF PlanAnswer
<1>2. CASE pc[r] \notin Served
    BY <1>2 DEF PlanAnswer
<1> QED BY <1>1, <1>2

LEMMA MetadataAnswered ==
    ASSUME CachesInv, NEW r \in Requests
    PROVE  MetadataAnswer(r) = IF pc[r] = "walk" THEN {Alone(<<r, "metadata">>)} ELSE {}
<1>1. CASE pc[r] = "walk"
    <2>1. meta[r] # NoOne /\ flagged[meta[r]] = TRUE /\ listed[meta[r]] = Fields[asked[r]]
        BY <1>1, CachesAssumption DEF CachesInv, MetaInv, Described, TypeOK
    <2>2. Alone(<<r, "metadata">>) = [flagged |-> TRUE, fields |-> Fields[asked[r]]]
        BY DEF Alone
    <2> QED BY <1>1, <2>1, <2>2 DEF MetadataAnswer
<1>2. CASE pc[r] # "walk"
    BY <1>2 DEF CachesInv, MetaInv, MetadataAnswer
<1> QED BY <1>1, <1>2

\* A call, and the answer it holds: its own answer, or none yet.
AnswerOf(c) == IF c[2] = "plan" THEN PlanAnswer(c[1]) ELSE MetadataAnswer(c[1])
Answered(c) == IF c[2] = "plan" THEN pc[c[1]] \in Served ELSE pc[c[1]] = "walk"
AnswersInv == \A c \in Calls : AnswerOf(c) = IF Answered(c) THEN {Alone(c)} ELSE {}

LEMMA AnswersHold == CachesInv => AnswersInv
<1> SUFFICES ASSUME CachesInv, NEW c \in Calls PROVE AnswerOf(c) = IF Answered(c) THEN {Alone(c)} ELSE {}
    BY DEF AnswersInv
<1>1. c[1] \in Requests /\ (c = <<c[1], "plan">> \/ c = <<c[1], "metadata">>)
    BY DEF Calls
<1> QED BY <1>1, PlanAnswered, MetadataAnswered DEF AnswerOf, Answered

\* A step leaves what a call answers alone, and keeps what is answered.
LEMMA AnswerKept ==
    ASSUME CachesInv, [Next]_vars, NEW c \in Calls
    PROVE  Alone(c)' = Alone(c) /\ (Answered(c) => Answered(c)')
<1>1. asked' = asked /\ c[1] \in Requests /\ TypeOK
    BY OneMoves DEF Calls, CachesInv
<1>2. Alone(c)' = Alone(c)
    BY <1>1 DEF Alone, Refused
<1>3. pc[c[1]] \in Served => pc'[c[1]] \in Served
    <2>1. CASE pc'[c[1]] = pc[c[1]]
        BY <2>1
    <2>2. CASE PlanFor(c[1]) \/ GetMetadata(c[1])
        BY <1>1, <2>2 DEF TypeOK, PlanFor, PlanEntryFor, OnceFirst, OnceDone, CompileStage, SetPlan, SetError,
           OnceReturns, ReadPlan, ReadError, GetMetadata, LoadMetadata, DecideValidator, ListField, StoreMetadata, Goto,
           Served
    <2> QED BY <1>1, <2>1, <2>2, Mover
<1>4. pc[c[1]] = "walk" => pc'[c[1]] = "walk"
    BY <1>1, WalkKept
<1> QED BY <1>2, <1>3, <1>4 DEF Answered

\* A step answers at most the call of the request that takes it: a plan and its
\* metadata are answered by different steps.
LEMMA AnswerOne ==
    ASSUME CachesInv, [Next]_vars, NEW c \in Calls, NEW d \in Calls,
           Answered(c)', ~Answered(c), Answered(d)', ~Answered(d)
    PROVE  c = d
<1>1. TypeOK /\ c[1] \in Requests /\ d[1] \in Requests
    BY DEF Calls, CachesInv
<1>2. (c = <<c[1], "plan">> \/ c = <<c[1], "metadata">>) /\ (d = <<d[1], "plan">> \/ d = <<d[1], "metadata">>)
    BY DEF Calls
<1>3. pc'[c[1]] # pc[c[1]] /\ pc'[d[1]] # pc[d[1]]
    BY DEF Answered
<1>4. c[1] = d[1]
    BY <1>1, <1>3, OneMoves DEF vars
<1>5. PlanFor(c[1]) \/ GetMetadata(c[1])
    BY <1>1, <1>3, Mover
<1>6. pc'[c[1]] = "walk" => pc[c[1]] \in Served
    BY <1>1, <1>3, <1>5 DEF TypeOK, PlanFor, PlanEntryFor, OnceFirst, OnceDone, CompileStage, SetPlan, SetError,
       OnceReturns, ReadPlan, ReadError, GetMetadata, LoadMetadata, DecideValidator, ListField, StoreMetadata, Goto, Served
<1>7. c[2] = d[2]
    BY <1>2, <1>4, <1>6 DEF Answered, Served
<1> QED BY <1>2, <1>4, <1>7

\* Every step answers one call with what it would have computed alone, or is
\* invisible to the callers.
LEMMA AnswerStep == CachesInv /\ AnswersInv /\ AnswersInv' /\ [Next]_vars => [Same!Next]_(Same!vars)
<1> SUFFICES ASSUME CachesInv, AnswersInv, AnswersInv', [Next]_vars PROVE [Same!Next]_(Same!vars)
    OBVIOUS
<1> DEFINE alone  == [c \in Calls |-> Alone(c)]
           answer == [c \in Calls |-> AnswerOf(c)]
<1>1. alone' = alone
    BY AnswerKept
<1>2. CASE \A c \in Calls : Answered(c)' => Answered(c)
    <2>1. \A c \in Calls : AnswerOf(c)' = AnswerOf(c)
        BY <1>2, AnswerKept DEF AnswersInv
    <2>2. answer' = answer
        BY <2>1
    <2> QED BY <1>1, <2>2 DEF Same!vars, AnswerOf
<1>3. ASSUME NEW c \in Calls, Answered(c)', ~Answered(c) PROVE Same!Answer(c)
    <2>1. AnswerOf(c) = {} /\ AnswerOf(c)' = {Alone(c)}
        BY <1>3, AnswerKept DEF AnswersInv
    <2>2. ASSUME NEW d \in Calls, d # c PROVE AnswerOf(d)' = AnswerOf(d)
        BY <1>3, <2>2, AnswerKept, AnswerOne DEF AnswersInv
    <2>3. answer' = [answer EXCEPT ![c] = {alone[c]}]
        BY <2>1, <2>2
    <2>4. answer[c] = {}
        BY <2>1
    <2> QED BY <1>1, <2>3, <2>4 DEF Same!Answer, AnswerOf
<1> QED BY <1>2, <1>3 DEF Same!Next

\* What a request is given of the two caches is what it would have computed
\* alone (binder.go:217-240, validator.go:182-220).
THEOREM AnsweredCorrect == Spec => AnsweredAsAlone
<1>1. Init => Same!Init
    BY DEF Init, Same!Init, Calls, PlanAnswer, MetadataAnswer, Served
<1> QED BY <1>1, CachesInit, CachesStep, AnswersHold, AnswerStep, PTL DEF Spec, AnsweredAsAlone, Same!Spec
=============================================================================
