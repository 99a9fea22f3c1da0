------------------------------ MODULE TypeCaches ------------------------------
(***************************************************************************)
(* The two caches that concurrent requests share: the binder's plans, one  *)
(* per request type, compiled under a sync.Once found by LoadOrStore       *)
(* (binder.go), and the validator's type metadata, loaded, computed and    *)
(* stored with no lock at all (validator.go).                              *)
(*                                                                         *)
(* A request binds its type and, when the plan is usable, validates it. A  *)
(* plan entry, a plan and a metadata object are named by the request that  *)
(* allocates them, whoever uses them later; of a plan only the number of   *)
(* stages compiled into it is kept, of metadata the fields listed in it.   *)
(* Mutant... definitions are faults the property they name detects.        *)
(***************************************************************************)
EXTENDS Naturals

CONSTANTS Requests,  \* goroutines handling a request each
          Types,     \* request types
          Stages,    \* compilePlan: six shadows, then the common body formats
          FailsAt,   \* type -> the stage that refuses it, beyond Stages for none
          Fields,    \* type -> fields the validator visits
          NoOne      \* no request

VARIABLES asked,      \* request -> the type it binds
          pc,         \* request -> where it is
          plans,      \* Binder.plans: type -> the author of its entry
          entry,      \* request -> the author of the entry it uses
          once,       \* entry.once: "new", "running" or "done"
          entryPlan,  \* entry.plan: the author of the plan, or NoOne
          entryErr,   \* entry.err is set
          built,      \* plan -> stages compiled into it
          gotPlan,    \* what planFor returns to the request
          gotErr,
          cache,      \* Validator.cache: type -> the author of its metadata
          flagged,    \* metadata -> isValidator was decided
          listed,     \* metadata -> fields listed
          meta        \* the metadata the request walks with

planVars == <<plans, entry, once, entryPlan, entryErr, built, gotPlan, gotErr>>
metaVars == <<cache, flagged, listed, meta>>
vars == <<asked, pc, planVars, metaVars>>

ASSUME CachesAssumption ==
    /\ NoOne \notin Requests
    /\ Stages \in Nat
    /\ FailsAt \in [Types -> Nat \ {0}]
    /\ Fields \in [Types -> Nat]

Places == {"bind", "once", "compile", "set plan", "set error", "release", "read plan", "read error",
           "validate", "flag", "list", "walk", "refused"}

Init == /\ asked \in [Requests -> Types]
        /\ pc = [r \in Requests |-> "bind"]
        /\ plans = [t \in Types |-> NoOne]
        /\ entry = [r \in Requests |-> NoOne]
        /\ once = [r \in Requests |-> "new"]
        /\ entryPlan = [r \in Requests |-> NoOne]
        /\ entryErr = [r \in Requests |-> FALSE]
        /\ built = [r \in Requests |-> 0]
        /\ gotPlan = [r \in Requests |-> NoOne]
        /\ gotErr = [r \in Requests |-> FALSE]
        /\ cache = [t \in Types |-> NoOne]
        /\ flagged = [r \in Requests |-> FALSE]
        /\ listed = [r \in Requests |-> 0]
        /\ meta = [r \in Requests |-> NoOne]

Goto(r, from, to) == pc[r] = from /\ pc' = [pc EXCEPT ![r] = to]

-----------------------------------------------------------------------------
(* planFor *)

\* CompiledOnce: the new entry is stored whether or not there is one.
MutantStore(r) == r

\* sync.Map.LoadOrStore of a new entry: the entry found, or the new one.
Stored(r) == IF plans[asked[r]] = NoOne THEN r ELSE plans[asked[r]]

PlanEntryFor(r) ==
    /\ Goto(r, "bind", "once")
    /\ plans' = [plans EXCEPT ![asked[r]] = Stored(r)]
    /\ entry' = [entry EXCEPT ![r] = Stored(r)]
    /\ UNCHANGED <<asked, once, entryPlan, entryErr, built, gotPlan, gotErr, metaVars>>

\* sync.Once.Do: the first caller runs the compilation.
OnceFirst(r) ==
    /\ Goto(r, "once", "compile")
    /\ once[entry[r]] = "new"
    /\ once' = [once EXCEPT ![entry[r]] = "running"]
    /\ UNCHANGED <<asked, plans, entry, entryPlan, entryErr, built, gotPlan, gotErr, metaVars>>

\* AnsweredAsAlone: callers that find the compilation running do not wait.
MutantNoWait(e) == once[e] # "new"

\* Returned: waits for a plan, which a refused type never gets.
MutantWaitForPlan(e) == once[e] = "done" /\ entryPlan[e] # NoOne

Released(e) == once[e] = "done"

\* sync.Once.Do: the others wait until the compilation returned.
OnceDone(r) ==
    /\ Goto(r, "once", "read plan")
    /\ Released(entry[r])
    /\ UNCHANGED <<asked, planVars, metaVars>>

\* TypeOK: one stage too many.
MutantPast(n) == n > Stages

Compiled(n) == n = Stages

\* compilePlan: one more stage into the local plan, until one fails.
CompileStage(r) ==
    /\ pc[r] = "compile"
    /\ \/ /\ built[r] + 1 = FailsAt[asked[r]] \/ Compiled(built[r])
          /\ pc' = [pc EXCEPT ![r] = "set plan"]
          /\ UNCHANGED built
       \/ /\ built[r] + 1 # FailsAt[asked[r]] /\ ~Compiled(built[r])
          /\ built' = [built EXCEPT ![r] = @ + 1]
          /\ UNCHANGED pc
    /\ UNCHANGED <<asked, plans, entry, once, entryPlan, entryErr, gotPlan, gotErr, metaVars>>

\* entry.plan, entry.err = compilePlan: two stores.
SetPlan(r) ==
    /\ Goto(r, "set plan", "set error")
    /\ entryPlan' = [entryPlan EXCEPT ![entry[r]] = IF Compiled(built[r]) THEN r ELSE NoOne]
    /\ UNCHANGED <<asked, plans, entry, once, entryErr, built, gotPlan, gotErr, metaVars>>

SetError(r) ==
    /\ Goto(r, "set error", "release")
    /\ entryErr' = [entryErr EXCEPT ![entry[r]] = ~Compiled(built[r])]
    /\ UNCHANGED <<asked, plans, entry, once, entryPlan, built, gotPlan, gotErr, metaVars>>

\* sync.Once.Do returns to its first caller, and lets the others pass.
OnceReturns(r) ==
    /\ Goto(r, "release", "read plan")
    /\ once' = [once EXCEPT ![entry[r]] = "done"]
    /\ UNCHANGED <<asked, plans, entry, entryPlan, entryErr, built, gotPlan, gotErr, metaVars>>

\* return entry.plan, entry.err: two loads, by every caller.
ReadPlan(r) ==
    /\ Goto(r, "read plan", "read error")
    /\ gotPlan' = [gotPlan EXCEPT ![r] = entryPlan[entry[r]]]
    /\ UNCHANGED <<asked, plans, entry, once, entryPlan, entryErr, built, gotErr, metaVars>>

ReadError(r) ==
    /\ pc[r] = "read error"
    /\ gotErr' = [gotErr EXCEPT ![r] = entryErr[entry[r]]]
    /\ pc' = [pc EXCEPT ![r] = IF gotErr'[r] THEN "refused" ELSE "validate"]
    /\ UNCHANGED <<asked, plans, entry, once, entryPlan, entryErr, built, gotPlan, metaVars>>

-----------------------------------------------------------------------------
(* getMetadata *)

\* Metadata found in the cache is used as it is.
LoadMetadata(r) ==
    /\ pc[r] = "validate"
    /\ \/ /\ cache[asked[r]] # NoOne
          /\ meta' = [meta EXCEPT ![r] = cache[asked[r]]]
          /\ pc' = [pc EXCEPT ![r] = "walk"]
       \/ /\ cache[asked[r]] = NoOne
          /\ pc' = [pc EXCEPT ![r] = "flag"]
          /\ UNCHANGED meta
    /\ UNCHANGED <<asked, planVars, cache, flagged, listed>>

DecideValidator(r) ==
    /\ Goto(r, "flag", "list")
    /\ flagged' = [flagged EXCEPT ![r] = TRUE]
    /\ UNCHANGED <<asked, planVars, cache, listed, meta>>

ListField(r) ==
    /\ pc[r] = "list"
    /\ listed[r] < Fields[asked[r]]
    /\ listed' = [listed EXCEPT ![r] = @ + 1]
    /\ UNCHANGED <<asked, pc, planVars, cache, flagged, meta>>

\* The last store wins: metadata of concurrent callers replaces each other.
StoreMetadata(r) ==
    /\ Goto(r, "list", "walk")
    /\ listed[r] = Fields[asked[r]]
    /\ cache' = [cache EXCEPT ![asked[r]] = r]
    /\ meta' = [meta EXCEPT ![r] = r]
    /\ UNCHANGED <<asked, planVars, flagged, listed>>

-----------------------------------------------------------------------------
PlanFor(r) == \/ PlanEntryFor(r) \/ OnceFirst(r) \/ OnceDone(r) \/ CompileStage(r) \/ SetPlan(r)
              \/ SetError(r) \/ OnceReturns(r) \/ ReadPlan(r) \/ ReadError(r)

GetMetadata(r) == LoadMetadata(r) \/ DecideValidator(r) \/ ListField(r) \/ StoreMetadata(r)

Next == \E r \in Requests : PlanFor(r) \/ GetMetadata(r)

\* The Go scheduler runs every goroutine that can take a step.
Fairness == \A r \in Requests : WF_vars(PlanFor(r) \/ GetMetadata(r))

Spec == Init /\ [][Next]_vars
FairSpec == Spec /\ Fairness

-----------------------------------------------------------------------------
(* Properties *)

TypeOK ==
    /\ asked \in [Requests -> Types]
    /\ pc \in [Requests -> Places]
    /\ plans \in [Types -> Requests \cup {NoOne}]
    /\ entry \in [Requests -> Requests \cup {NoOne}]
    /\ once \in [Requests -> {"new", "running", "done"}]
    /\ entryPlan \in [Requests -> Requests \cup {NoOne}]
    /\ entryErr \in [Requests -> BOOLEAN]
    /\ built \in [Requests -> 0..Stages]
    /\ gotPlan \in [Requests -> Requests \cup {NoOne}]
    /\ gotErr \in [Requests -> BOOLEAN]
    /\ cache \in [Types -> Requests \cup {NoOne}]
    /\ flagged \in [Requests -> BOOLEAN]
    /\ listed \in [Requests -> Nat]
    /\ meta \in [Requests -> Requests \cup {NoOne}]

\* However many requests of a type arrive together, one of them compiles it,
\* so that its dynamic types are created once (binder.go:217 and 319).
Compiling == {"compile", "set plan", "set error", "release"}
Compiles(r) == pc[r] \in Compiling \/ built[r] > 0
CompiledOnce == \A r, s \in Requests : Compiles(r) /\ Compiles(s) /\ asked[r] = asked[s] => r = s

\* What a request gets of the plan cache and of the metadata cache is what it
\* would have computed alone: never a plan that is still being compiled, a nil
\* plan without its error, or metadata that somebody is still listing.
Calls == Requests \X {"plan", "metadata"}

Refused(t) == FailsAt[t] <= Stages

Alone(c) == IF c[2] = "plan"
            THEN [refused |-> Refused(asked[c[1]]), stages |-> IF Refused(asked[c[1]]) THEN 0 ELSE Stages]
            ELSE [flagged |-> TRUE, fields |-> Fields[asked[c[1]]]]

Served == {"validate", "flag", "list", "walk", "refused"}

PlanAnswer(r) ==
    IF pc[r] \in Served
    THEN {[refused |-> gotErr[r], stages |-> IF gotPlan[r] = NoOne THEN 0 ELSE built[gotPlan[r]]]}
    ELSE {}

MetadataAnswer(r) ==
    IF meta[r] # NoOne THEN {[flagged |-> flagged[meta[r]], fields |-> listed[meta[r]]]} ELSE {}

Same == INSTANCE SameAnswers
          WITH alone  <- [c \in Calls |-> Alone(c)],
               answer <- [c \in Calls |-> IF c[2] = "plan" THEN PlanAnswer(c[1]) ELSE MetadataAnswer(c[1])]
AnsweredAsAlone == Same!Spec

\* Every request gets its plan and its metadata, or is refused: no caller is
\* left waiting on a compilation, of a refused type either.
Returned == \A r \in Requests : <>(pc[r] \in {"walk", "refused"})
=============================================================================
