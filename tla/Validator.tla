------------------------------ MODULE Validator ------------------------------
(***************************************************************************)
(* AutoBind's second half and what becomes of its error: the validator's   *)
(* bounded walk over a bound value (validator.go), and the default status  *)
(* of a failed request (error.go).                                         *)
(*                                                                         *)
(* The value is a graph of nodes, since pointers, interfaces, slices and   *)
(* maps can lead back to a value that contains them. The recursion of walk *)
(* is an explicit stack: a frame is a call that visits the children of its *)
(* object. An error is the set of kinds errors.Is and errors.As find in it.*)
(* Mutant... definitions are faults the property they name detects.        *)
(***************************************************************************)
EXTENDS Integers, Sequences, SequencesExt

CONSTANTS Values,       \* the values validated: see ValueType
          Configured,   \* limits given to NewValidator
          DefaultDepth  \* DefaultValidatorMaxDepth

VARIABLES value,     \* the value, and how binding it went
          maxDepth,  \* Validator.maxDepth
          phase,     \* "bind", "walk", "validate", "children", "failed" or "answered"
          at,        \* the node being walked
          steps,     \* wrappers removed from it so far
          stack,     \* the calls of walk that wait for a child
          failure,   \* what ended the validation
          error,     \* the kinds of its error
          checked,   \* objects whose rule, if any, passed (history)
          status,    \* the status of the default answer, 0 before there is one
          recorded   \* the mapper attached the error to its answer

vars == <<value, maxDepth, phase, at, steps, stack, failure, error, checked, status, recorded>>

Kinds == {"validation panic", "bind target", "max depth", "max bytes", "content type", "other"}

\* Children are grouped: the elements of a slice and the fields of a struct are
\* one group, visited in order; an entry of a map is a group of key and value.
\* A wrapper, a pointer or an interface, has one child, or none when nil.
ValueShape == [ kind    : Seq({"wrapper", "struct", "list", "map", "plain"}),
                groups  : Seq(Seq(Seq(Nat))),
                private : SUBSET Nat,  \* nodes in unexported fields
                rule    : Seq({"none", "pass", "fail", "panic"}),
                thrown  : SUBSET Kinds,  \* what a rule fails with, or panics with
                bound   : SUBSET Kinds ] \* the binder's error, {} when it succeeds

\* Node 1 is the bound value. A pointer has no rule of its own: the rule in its
\* method set is run on its target.
WellFormed(v) ==
    LET nodes == DOMAIN v.kind IN
    /\ 1 \in nodes /\ DOMAIN v.groups = nodes /\ DOMAIN v.rule = nodes
    /\ \A n \in nodes :
          /\ \A i \in DOMAIN v.groups[n] : v.groups[n][i] \in Seq(nodes)
          /\ v.kind[n] = "wrapper" =>
                v.rule[n] = "none" /\ (v.groups[n] = <<>> \/ \E m \in nodes : v.groups[n] = <<<<m>>>>)
          /\ v.kind[n] \in {"struct", "list"} => Len(v.groups[n]) <= 1
          /\ v.kind[n] = "plain" => v.groups[n] = <<>>

ValueType == {v \in ValueShape : WellFormed(v)}

ASSUME ValidatorAssumption ==
    /\ Values \subseteq ValueType
    /\ Configured \subseteq Int
    /\ DefaultDepth \in Nat \ {0}

\* NewValidator
Depth(limit) == IF limit <= 0 THEN DefaultDepth ELSE limit

Init == /\ value \in Values
        /\ maxDepth \in {Depth(limit) : limit \in Configured}
        /\ phase = "bind"
        /\ at = 1
        /\ steps = 0
        /\ stack = <<>>
        /\ failure = "none"
        /\ error = {}
        /\ checked = {}
        /\ status = 0
        /\ recorded = FALSE

Is(n, kind) == value.kind[n] = kind
Nil(n) == value.groups[n] = <<>>
Target(n) == value.groups[n][1][1]

Fail(why, kinds) ==
    /\ failure' = why
    /\ error' = kinds
    /\ phase' = "failed"

\* AutoBind returns the binder's error without validating.
Bind ==
    /\ phase = "bind"
    /\ \/ /\ value.bound = {}
          /\ phase' = "walk"
          /\ UNCHANGED <<failure, error>>
       \/ /\ value.bound # {}
          /\ Fail("bind", value.bound)
    /\ UNCHANGED <<value, maxDepth, at, steps, stack, checked, status, recorded>>

-----------------------------------------------------------------------------
(* walk *)

\* Terminates: the number of removed wrappers is not counted.
MutantUncounted(n) == n

OneMore(n) == n + 1

\* DepthExact: one wrapper more than the limit.
MutantWrappers == steps > maxDepth

TooManyWrappers == steps >= maxDepth

\* A pointer or interface: nil ends the call, else its target is next.
Unwrap ==
    /\ phase = "walk"
    /\ Is(at, "wrapper")
    /\ \/ /\ Nil(at)
          /\ phase' = "children"
          /\ UNCHANGED <<at, steps, failure, error>>
       \/ /\ ~Nil(at) /\ TooManyWrappers
          /\ Fail("depth", {"max depth"})
          /\ UNCHANGED <<at, steps>>
       \/ /\ ~Nil(at) /\ ~TooManyWrappers
          /\ at' = Target(at)
          /\ steps' = OneMore(steps)
          /\ UNCHANGED <<phase, failure, error>>
    /\ UNCHANGED <<value, maxDepth, stack, checked, status, recorded>>

\* TypeOK: the depth is checked after the object was entered.
MutantLateCheck == Len(stack) > maxDepth + 1

TooDeep == Len(stack) > maxDepth

CheckDepth ==
    /\ phase = "walk"
    /\ ~Is(at, "wrapper")
    /\ \/ /\ TooDeep
          /\ Fail("depth", {"max depth"})
       \/ /\ ~TooDeep
          /\ phase' = "validate"
          /\ UNCHANGED <<failure, error>>
    /\ UNCHANGED <<value, maxDepth, at, steps, stack, checked, status, recorded>>

\* NothingSkipped: only composite fields are listed.
MutantComposite(n) == n \notin value.private /\ ~Is(n, "plain")

\* getMetadata lists exported fields that are composite or have a rule.
Listed(n) == n \notin value.private /\ (~Is(n, "plain") \/ value.rule[n] # "none")

\* A call that is about to visit the children of n, group by group.
Frame(n) == [of |-> n, now |-> <<>>, later |-> DOMAIN value.groups[n]]

\* FaultAttributed: the panic's own error hides that a rule panicked.
MutantPayload == value.thrown

\* PanicError.Unwrap joins the category and an error that was the payload.
PanicKinds == {"validation panic"} \cup value.thrown

\* execute: what the rule of an object does, found in either method set and run
\* on the object itself or, when it is not addressable, on a copy.
RunRule(n) == value.rule[n]

\* The rule of an object comes before its children. Its panic is recovered by
\* Validate, which abandons the walk.
Execute ==
    /\ phase = "validate"
    /\ \/ /\ RunRule(at) \in {"none", "pass"}
          /\ checked' = checked \cup {at}
          /\ stack' = Append(stack, Frame(at))
          /\ phase' = "children"
          /\ UNCHANGED <<failure, error>>
       \/ /\ RunRule(at) = "fail"
          /\ Fail("rule", value.thrown)
          /\ UNCHANGED <<checked, stack>>
       \/ /\ RunRule(at) = "panic"
          /\ Fail("panic", PanicKinds)
          /\ UNCHANGED <<checked, stack>>
    /\ UNCHANGED <<value, maxDepth, at, steps, status, recorded>>

Top == stack[Len(stack)]
WithTop(frame) == [stack EXCEPT ![Len(stack)] = frame]

\* The next group: the fields, the elements, or an entry of a map in the order
\* its iterator happens to take.
NextGroup ==
    /\ phase = "children"
    /\ stack # <<>> /\ Top.now = <<>>
    /\ \E group \in Top.later :
          stack' = WithTop([Top EXCEPT !.now = value.groups[Top.of][group], !.later = @ \ {group}])
    /\ UNCHANGED <<value, maxDepth, phase, at, steps, failure, error, checked, status, recorded>>

\* The next child of the group; a field that is not listed is passed over.
NextChild ==
    /\ phase = "children"
    /\ stack # <<>> /\ Top.now # <<>>
    /\ stack' = WithTop([Top EXCEPT !.now = Tail(@)])
    /\ \/ /\ Is(Top.of, "struct") /\ ~Listed(Head(Top.now))
          /\ UNCHANGED <<phase, at, steps>>
       \/ /\ Is(Top.of, "struct") => Listed(Head(Top.now))
          /\ at' = Head(Top.now)
          /\ steps' = 0
          /\ phase' = "walk"
    /\ UNCHANGED <<value, maxDepth, failure, error, checked, status, recorded>>

Return ==
    /\ phase = "children"
    /\ \/ /\ stack # <<>> /\ Top.now = <<>> /\ Top.later = {}
          /\ stack' = Front(stack)
          /\ UNCHANGED <<phase, status>>
       \/ /\ stack = <<>>
          /\ phase' = "answered"
          /\ status' = 200
          /\ UNCHANGED stack
    /\ UNCHANGED <<value, maxDepth, at, steps, failure, error, checked, recorded>>

-----------------------------------------------------------------------------
(* DefaultRequestErrorMapper *)

RequestStatus(kinds) ==
    CASE kinds \cap {"validation panic", "bind target", "max depth"} # {} -> 500
      [] kinds \cap {"validation panic", "bind target", "max depth"} = {} /\ "max bytes" \in kinds -> 413
      [] kinds \cap {"validation panic", "bind target", "max depth", "max bytes"} = {} /\ "content type" \in kinds -> 415
      [] OTHER -> 400

MapRequestError ==
    /\ phase = "failed"
    /\ status' = RequestStatus(error)
    /\ recorded' = (status' >= 500)
    /\ phase' = "answered"
    /\ UNCHANGED <<value, maxDepth, at, steps, stack, failure, error, checked>>

-----------------------------------------------------------------------------
Next == \/ Bind \/ Unwrap \/ CheckDepth \/ Execute \/ NextGroup \/ NextChild \/ Return
        \/ MapRequestError

Spec == Init /\ [][Next]_vars

\* One goroutine validates without blocking; a rule that never returns hangs its
\* request in the program as well.
FairSpec == Spec /\ WF_vars(Next)

-----------------------------------------------------------------------------
(* Properties *)

Nodes == DOMAIN value.kind

FrameType == [of : Nodes, now : Seq(Nodes), later : SUBSET Nat]

TypeOK ==
    /\ value \in ValueType
    /\ maxDepth \in Nat \ {0}
    /\ phase \in {"bind", "walk", "validate", "children", "failed", "answered"}
    /\ at \in Nodes
    /\ steps \in 0..maxDepth
    /\ stack \in Seq(FrameType)
    /\ Len(stack) <= maxDepth + 1
    /\ failure \in {"none", "bind", "depth", "rule", "panic"}
    /\ error \subseteq Kinds
    /\ checked \subseteq Nodes
    /\ status \in {0, 200, 400, 413, 415, 500}
    /\ recorded \in BOOLEAN

Children(n) == (UNION {ToSet(value.groups[n][i]) : i \in DOMAIN value.groups[n]})
               \ (IF Is(n, "struct") THEN value.private ELSE {})

Closed(nodes) == \A m \in nodes : Children(m) \subseteq nodes

\* All nodes a node leads to over exported fields.
ReachedFrom(n) ==
    {m \in Nodes : \A nodes \in SUBSET Nodes : Children(n) \subseteq nodes /\ Closed(nodes) => m \in nodes}

\* A value is accepted only when the rule of every object it leads to was run
\* and passed, and none of them leads back to itself.
NothingSkipped ==
    status = 200 =>
        \A n \in {1} \cup ReachedFrom(1) :
            /\ value.rule[n] # "none" => value.rule[n] = "pass" /\ n \in checked
            /\ n \notin ReachedFrom(n)

\* What is left of every node when up to k wrappers are removed from it.
Wraps(n) == Is(n, "wrapper") /\ ~Nil(n)
Unwrapped[k \in 0..maxDepth] ==
    IF k = 0 THEN [n \in Nodes |-> n]
    ELSE [n \in Nodes |-> LET m == Unwrapped[k - 1][n] IN IF Wraps(m) THEN Target(m) ELSE m]

\* What is left of a node without its wrappers: an object, nothing, or more
\* wrappers than the limit.
Nothing == 0
Endless == -1
Inside(n) ==
    LET end == Unwrapped[maxDepth][n]
    IN  CASE ~Is(end, "wrapper") -> end
          [] Is(end, "wrapper") /\ Nil(end) -> Nothing
          [] OTHER -> Endless

\* A field that is plain and without a rule is part of its struct, not an object
\* of its own.
Parts(n) == {m \in Children(n) : Is(n, "struct") /\ Is(m, "plain") => value.rule[m] # "none"}

\* What is nested d objects deep.
Nested[d \in 0..maxDepth + 1] ==
    IF d = 0 THEN {Inside(1)}
    ELSE UNION {{Inside(m) : m \in Parts(n)} : n \in Nested[d - 1] \ {Nothing, Endless}}

WithinLimits == /\ \A d \in 0..maxDepth + 1 : Endless \notin Nested[d]
                /\ Nested[maxDepth + 1] \subseteq {Nothing}

\* ErrMaxDepth is about depth and nothing else: a value within both limits never
\* fails with it, however its nodes are shared, and one beyond a limit is never
\* accepted.
DepthExact == /\ failure = "depth" => ~WithinLimits
              /\ status = 200 => WithinLimits

\* A failure says what happened, after every object above it passed, and whose
\* fault it is: a panic of a rule and a value too deep are the server's, even
\* when the panic carries an error that would be the client's; a rule's own
\* error is the client's unless it wraps one of the server's.
FaultAttributed ==
    /\ failure \in {"rule", "panic"} =>
          /\ value.rule[at] = (IF failure = "rule" THEN "fail" ELSE "panic")
          /\ at = Inside(1) \/ \E n \in checked : \E m \in Children(n) : at = Inside(m)
    /\ phase = "answered" /\ failure \in {"panic", "depth"} => status = 500 /\ recorded
    /\ phase = "answered" /\ failure = "rule" /\ value.thrown \cap {"validation panic", "bind target", "max depth"} = {} =>
          status \in 400..499 /\ ~recorded

\* Cyclic values too: every validation ends in acceptance or an answer.
Terminates == <>(phase = "answered")
=============================================================================
