----------------------------- MODULE BinderProofs -----------------------------
(***************************************************************************)
(* Proofs about Binder for every set of request types, every request and   *)
(* any number of calls: binding is all or nothing, and no field takes a    *)
(* value from a place, a format or a body it should not.                   *)
(***************************************************************************)
EXTENDS Binder, TLAPS

-----------------------------------------------------------------------------
(* The inductive invariant *)

Late == Sources \cup {"commit"}
Typed == Late \cup {"buffer", "query syntax"}

\* What the steps before the shadows established.
PlanInv ==
    /\ pc \notin {"plan", "error"} => ~CompileFails(dto)
    /\ pc \in Typed => contentType = Normalized /\ ~UnusableType
    /\ pc \in Late => ~UsesQuery \/ request.syntax
    /\ pc = "query" => request.readOnly
    /\ pc \in {"form", "body"} => ~request.readOnly
    /\ pc = "query syntax" => candidate = target

\* What is left of the body: nothing is parsed from one that is over the limit,
\* broken, or not JSON when it should be.
StreamInv ==
    /\ stream \in {"buffered", "drained"} => request.content \notin {"none", "over", "broken"}
    /\ pc \in Late \cup {"query syntax"} /\ NeedsBuffer =>
          stream \in {"buffered", "drained"} /\ (contentType = "json" => request.content = "one")
    /\ BodyLeftAlone

\* A form that did not parse is cached only for calls after the one it failed,
\* and a multipart message only whole.
FormInv ==
    /\ parsed # "no" /\ (request.content = "malformed" \/ ~request.syntax) => binds > 1 \/ pc = "error"
    /\ request.type = "multipart" /\ parsed # "no" => request.content \notin {"none", "over", "broken", "malformed"}

\* What may have put v into field f.
Allowed(f, v) ==
    /\ v \in DeclaredPlaces(f) \cup {"zero", "initial"}
    /\ v = "query" /\ ~request.syntax => binds > 1 /\ ~UsesQuery
    /\ v \in {"document", "posted", "file"} =>
          /\ request.content \notin {"none", "over", "broken"}
          /\ request.content = "malformed" => v = "posted" /\ binds > 1
          /\ v = "document" /\ request.type = "json" => request.content = "one"
    /\ v = "document" /\ f.tags \cap BodyTags # {} => request.type \in f.tags

AllowedInv == \A f \in dto : Allowed(f, target[f]) /\ Allowed(f, candidate[f])

\* The shadows that were bound before this one, and all that bind this request.
Active == {"uri", "header", "file"} \cup (IF request.readOnly THEN {"query"} ELSE {"form", "body"})
Past == IF pc = "uri" THEN {}
        ELSE IF pc = "header" THEN {"uri"}
        ELSE IF pc = "file" THEN {"uri", "header"}
        ELSE IF pc \in {"query", "form"} THEN {"uri", "header", "file"}
        ELSE IF pc = "body" THEN {"uri", "header", "file", "form"}
        ELSE Active

\* A field keeps its old value until the shadow it is in is bound.
CandidateInv ==
    pc \in Late => \A f \in dto :
        /\ (\E s \in Past : f \in Shadow(dto, s)) => candidate[f] \in DeclaredPlaces(f) \cup {"zero"}
        /\ (\A s \in Past : f \notin Shadow(dto, s)) => candidate[f] = target[f]

BinderInv == TypeOK /\ PlanInv /\ StreamInv /\ FormInv /\ AllowedInv /\ CandidateInv

-----------------------------------------------------------------------------
(* Shadows and declared places *)

Shown(f, t) == \A i \in DOMAIN f.path : t \notin f.path[i].ignored
FormPlaces == IF request.readOnly THEN {"query"}
              ELSE IF request.type = "urlencoded" THEN {"posted", "query"}
              ELSE IF request.type = "multipart" THEN {"posted"} ELSE {"query"}
PlaceOf(f, t) == IF t = "uri" THEN {"path"}
                 ELSE IF t = "header" THEN {"headers"}
                 ELSE IF f.type = "file" THEN {"file"} ELSE FormPlaces
InBody(f) == f.tags \cap BodyTags # {}

\* DeclaredPlaces, one case at a time.
LEMMA DeclaredFacts ==
    ASSUME NEW f
    PROVE  /\ InBody(f) /\ ~request.readOnly =>
                 DeclaredPlaces(f) = IF \E t \in BodyTags : ~Shown(f, t) THEN {}
                                     ELSE IF request.type \in FormTypes THEN FormPlaces ELSE {"document"}
           /\ ~(InBody(f) /\ ~request.readOnly) =>
                 DeclaredPlaces(f) = UNION {PlaceOf(f, t) : t \in {u \in f.tags \cap StringTags : Shown(f, u)}}
    BY DEF DeclaredPlaces, Shown, FormPlaces, PlaceOf, InBody

\* The collection for a source enters the structs that show the tags it reads.
LEMMA EntersFacts ==
    ASSUME NEW f \in FieldType
    PROVE  /\ Enters(f, Len(f.path), "body") <=> \A t \in BodyTags : Shown(f, t)
           /\ \A s \in {"uri", "header"} : Enters(f, Len(f.path), s) <=> Shown(f, s)
           /\ \A s \in {"query", "form", "file"} : Enters(f, Len(f.path), s) <=> Shown(f, "form")
<1>1. DOMAIN f.path = 1..Len(f.path)
    <2>1. f.path \in Seq(EmbeddingType)
        BY DEF FieldType
    <2> HIDE DEF EmbeddingType
    <2> QED BY <2>1
<1>2. Enters(f, Len(f.path), "body") <=> \A i \in DOMAIN f.path : f.path[i].ignored \cap BodyTags = {}
    BY <1>1 DEF Enters, Ignores
<1>3. \A s \in {"uri", "header"} : Enters(f, Len(f.path), s) <=> \A i \in DOMAIN f.path : s \notin f.path[i].ignored
    BY <1>1 DEF Enters, Ignores
<1>4. \A s \in {"query", "form", "file"} :
          Enters(f, Len(f.path), s) <=> \A i \in DOMAIN f.path : "form" \notin f.path[i].ignored
    BY <1>1 DEF Enters, Ignores
<1> QED BY <1>2, <1>3, <1>4 DEF Shown

\* What a plan that compiled says of a field some source reaches.
LEMMA CompiledFacts ==
    ASSUME ~CompileFails(dto), NEW f \in dto, NEW s \in Sources, Enters(f, Len(f.path), s)
    PROVE  /\ \A c, d \in Claims(f) : c = d
           /\ Claims(f) # {} /\ f.type = "file" => Claims(f) = {"form"}
<1>1. ~NoSource(f)
    BY DEF CompileFails
<1> QED BY <1>1 DEF NoSource

LEMMA ClaimsFacts ==
    ASSUME NEW f
    PROVE  /\ "uri" \in Claims(f) <=> "uri" \in f.tags
           /\ "header" \in Claims(f) <=> "header" \in f.tags
           /\ "body" \in Claims(f) <=> InBody(f)
           /\ "form" \in Claims(f) <=> "form" \in f.tags /\ ~InBody(f)
           /\ Claims(f) \subseteq {"uri", "header", "body", "form"}
    BY DEF Claims, InBody

\* A field is read from places its tags declare.
LEMMA ShadowPlaces ==
    ASSUME ~CompileFails(dto), NEW f \in FieldType, f \in dto
    PROVE  /\ f \in Shadow(dto, "uri") => "path" \in DeclaredPlaces(f)
           /\ f \in Shadow(dto, "header") => "headers" \in DeclaredPlaces(f)
           /\ f \in Shadow(dto, "file") => "file" \in DeclaredPlaces(f)
           /\ f \in Shadow(dto, "query") /\ request.readOnly => "query" \in DeclaredPlaces(f)
           /\ f \in Shadow(dto, "form") /\ ~request.readOnly => FormPlaces \subseteq DeclaredPlaces(f)
           /\ f \in Shadow(dto, "body") /\ ~request.readOnly =>
                 DeclaredPlaces(f) = (IF request.type \in FormTypes THEN FormPlaces ELSE {"document"})
<1> USE EntersFacts, CompiledFacts, ClaimsFacts, DeclaredFacts
<1>1. f \in Shadow(dto, "uri") => "path" \in DeclaredPlaces(f)
    <2> SUFFICES ASSUME f \in Shadow(dto, "uri") PROVE "path" \in DeclaredPlaces(f)
        OBVIOUS
    <2>1. "uri" \in f.tags /\ Shown(f, "uri") /\ ~InBody(f)
        BY DEF Shadow, BoundFrom, Sources
    <2> QED BY <2>1 DEF PlaceOf, StringTags
<1>2. f \in Shadow(dto, "header") => "headers" \in DeclaredPlaces(f)
    <2> SUFFICES ASSUME f \in Shadow(dto, "header") PROVE "headers" \in DeclaredPlaces(f)
        OBVIOUS
    <2>1. "header" \in f.tags /\ Shown(f, "header") /\ ~InBody(f)
        BY DEF Shadow, BoundFrom, Sources
    <2> QED BY <2>1 DEF PlaceOf, StringTags
<1>3. f \in Shadow(dto, "file") => "file" \in DeclaredPlaces(f)
    <2> SUFFICES ASSUME f \in Shadow(dto, "file") PROVE "file" \in DeclaredPlaces(f)
        OBVIOUS
    <2>1. "form" \in f.tags /\ Shown(f, "form") /\ ~InBody(f) /\ f.type = "file"
        BY DEF Shadow, BoundFrom, Sources
    <2> QED BY <2>1 DEF PlaceOf, StringTags
<1>4. f \in Shadow(dto, "query") /\ request.readOnly => "query" \in DeclaredPlaces(f)
    <2> SUFFICES ASSUME f \in Shadow(dto, "query"), request.readOnly PROVE "query" \in DeclaredPlaces(f)
        OBVIOUS
    <2>1. "form" \in f.tags /\ Shown(f, "form") /\ f.type # "file"
        BY DEF Shadow, BoundFrom, Sources, IsQueryField
    <2> QED BY <2>1 DEF PlaceOf, StringTags, FormPlaces
<1>5. f \in Shadow(dto, "form") /\ ~request.readOnly => FormPlaces \subseteq DeclaredPlaces(f)
    <2> SUFFICES ASSUME f \in Shadow(dto, "form"), ~request.readOnly PROVE FormPlaces \subseteq DeclaredPlaces(f)
        OBVIOUS
    <2>1. "form" \in f.tags /\ Shown(f, "form") /\ f.type # "file" /\ ~InBody(f)
        BY DEF Shadow, BoundFrom, Sources
    <2> QED BY <2>1 DEF PlaceOf, StringTags
<1>6. f \in Shadow(dto, "body") /\ ~request.readOnly =>
          DeclaredPlaces(f) = (IF request.type \in FormTypes THEN FormPlaces ELSE {"document"})
    <2> SUFFICES ASSUME f \in Shadow(dto, "body"), ~request.readOnly
                 PROVE  DeclaredPlaces(f) = (IF request.type \in FormTypes THEN FormPlaces ELSE {"document"})
        OBVIOUS
    <2>1. InBody(f) /\ \A t \in BodyTags : Shown(f, t)
        BY DEF Shadow, BoundFrom, Sources
    <2> QED BY <2>1
<1> QED BY <1>1, <1>2, <1>3, <1>4, <1>5, <1>6

\* A field with a declared place is in a shadow that binds the request, and no
\* other field is.
LEMMA PlacesShadow ==
    ASSUME ~CompileFails(dto), NEW f \in FieldType, f \in dto
    PROVE  DeclaredPlaces(f) # {} <=> \E s \in Active : f \in Shadow(dto, s)
<1>1. ASSUME NEW s \in Active, f \in Shadow(dto, s) PROVE DeclaredPlaces(f) # {}
    <2>1. FormPlaces # {}
        BY DEF FormPlaces
    <2> QED BY <1>1, <2>1, ShadowPlaces DEF Active
<1>2. ASSUME DeclaredPlaces(f) # {} PROVE \E s \in Active : f \in Shadow(dto, s)
    <2>1. CASE InBody(f) /\ ~request.readOnly
        <3>1. \A t \in BodyTags : Shown(f, t)
            BY <1>2, <2>1, DeclaredFacts
        <3>2. Enters(f, Len(f.path), "body")
            BY <3>1, EntersFacts
        <3>3. "body" \in Claims(f) /\ f.type # "file"
            BY <2>1, <3>2, CompiledFacts, ClaimsFacts DEF Sources
        <3> QED BY <2>1, <3>2, <3>3 DEF Active, Shadow, BoundFrom
    <2>2. CASE ~(InBody(f) /\ ~request.readOnly)
        <3>1. PICK t \in f.tags \cap StringTags : Shown(f, t)
            BY <1>2, <2>2, DeclaredFacts
        <3>2. CASE t \in {"uri", "header"}
            <4>1. Enters(f, Len(f.path), t) /\ t \in Sources /\ t \in Claims(f)
                BY <3>1, <3>2, EntersFacts, ClaimsFacts DEF Sources
            <4>2. f.type # "file"
                BY <3>2, <4>1, CompiledFacts
            <4> QED BY <3>2, <4>1, <4>2 DEF Active, Shadow, BoundFrom
        <3>3. CASE t = "form"
            <4>1. \A s \in {"query", "form", "file"} : Enters(f, Len(f.path), s)
                BY <3>1, <3>3, EntersFacts
            <4>2. CASE f.type = "file"
                <5>1. Claims(f) # {}
                    BY <3>1, <3>3, ClaimsFacts
                <5>2. Claims(f) = {"form"}
                    BY <4>1, <4>2, <5>1, CompiledFacts DEF Sources
                <5> QED BY <4>1, <4>2, <5>2 DEF Active, Shadow, BoundFrom
            <4>3. CASE f.type # "file" /\ request.readOnly
                BY <3>1, <3>3, <4>1, <4>3 DEF Active, Shadow, BoundFrom, IsQueryField
            <4>4. CASE f.type # "file" /\ ~request.readOnly
                <5>1. "form" \in Claims(f)
                    BY <2>2, <3>1, <3>3, <4>4, ClaimsFacts
                <5> QED BY <4>1, <4>4, <5>1 DEF Active, Shadow, BoundFrom
            <4> QED BY <4>2, <4>3, <4>4
        <3> QED BY <3>1, <3>2, <3>3 DEF StringTags
    <2> QED BY <2>1, <2>2
<1> QED BY <1>1, <1>2

-----------------------------------------------------------------------------
(* What every step uses *)

LEMMA TypeFacts ==
    ASSUME TypeOK
    PROVE  /\ dto \subseteq FieldType
           /\ request.readOnly \in BOOLEAN /\ request.syntax \in BOOLEAN
           /\ request.type \in MediaTypes \cup {"none", "many", "invalid"}
           /\ request.content \in {"none", "one", "many", "malformed", "over", "broken"}
           /\ \A p \in Places : request.input[p] \in {"absent", "good", "bad"}
<1>1. dto \subseteq FieldType
    BY PlanAssumption DEF TypeOK
<1>2. request \in RequestType
    BY BinderAssumption DEF TypeOK
<1> QED BY <1>1, <1>2 DEF RequestType

\* The shadow after s, and what was bound when it begins.
LEMMA FollowingFacts ==
    ASSUME PlanInv, pc \in Sources, pc' = Following(pc), UNCHANGED <<dto, request>>
    PROVE  /\ pc' \in Late
           /\ pc' = "query" => request.readOnly
           /\ pc' \in {"form", "body"} => ~request.readOnly
           /\ Past' = Past \cup {pc}
<1>1. pc \in {"uri", "header", "file", "query", "form", "body"}
    BY DEF Sources
<1> QED BY <1>1 DEF Following, PlanInv, Late, Sources, Past, Active

\* Fields with the zero value, or the value they had, are in order.
LEMMA AllowedZero == \A f : Allowed(f, "zero") /\ Allowed(f, "initial")
    BY DEF Allowed

\* A later call allows what an earlier one did.
LEMMA AllowedStable ==
    ASSUME UNCHANGED <<dto, request>>, binds' = binds \/ (binds \in Nat /\ binds' = binds + 1),
           NEW f, NEW v, Allowed(f, v), binds \in Nat
    PROVE  Allowed(f, v)'
<1>1. binds > 1 => binds' > 1
    OBVIOUS
<1>2. DeclaredPlaces(f)' = DeclaredPlaces(f)
    BY DEF DeclaredPlaces
<1>3. UsesQuery' <=> UsesQuery
    BY DEF UsesQuery, Enabled
<1> QED BY <1>1, <1>2, <1>3 DEF Allowed

\* A shadow was bound with a value its fields may have, or the call is refused.
LEMMA TakeFacts ==
    ASSUME BinderInv, pc \in Sources, UNCHANGED <<dto, request, contentType, binds>>,
           NEW place \in Places, NEW quality \in {"absent", "good", "bad"},
           Take(pc, place, quality),
           quality = "good" => \A f \in Shadow(dto, pc) : Allowed(f, place),
           pc \in Active
    PROVE  /\ target' \in [dto -> Values] /\ candidate' \in [dto -> Values]
           /\ AllowedInv' /\ CandidateInv'
           /\ target' = target
           /\ pc' = Following(pc) \/ pc' = "error"
<1>1. target \in [dto -> Values] /\ candidate \in [dto -> Values] /\ binds \in Nat /\ dto \subseteq FieldType
    <2>1. target \in [dto -> Values] /\ candidate \in [dto -> Values] /\ binds \in 1..MaxBinds
        BY DEF BinderInv, TypeOK
    <2>2. MaxBinds \in Nat
        BY BinderAssumption
    <2> QED BY <2>1, <2>2, TypeFacts DEF BinderInv
<1>2. \A f, v : Allowed(f, v) => Allowed(f, v)'
    BY <1>1, AllowedStable
<1>3. CASE pc' = "error" /\ target' = target /\ candidate' = candidate
    <2>1. AllowedInv'
        BY <1>2, <1>3 DEF BinderInv, AllowedInv
    <2>2. CandidateInv'
        BY <1>3 DEF CandidateInv, Late, Sources
    <2> QED BY <1>1, <1>3, <2>1, <2>2
<1>4. ASSUME NEW v \in {place, "zero"}, Copy(pc, v), \A f \in Shadow(dto, pc) : Allowed(f, v), v # "initial"
      PROVE  /\ target' \in [dto -> Values] /\ candidate' \in [dto -> Values]
             /\ AllowedInv' /\ CandidateInv'
             /\ target' = target /\ pc' = Following(pc)
    <2>1. /\ pc' = Following(pc) /\ target' = target
          /\ candidate' = [f \in dto |-> IF f \in Shadow(dto, pc) THEN v ELSE candidate[f]]
        BY <1>4 DEF Copy
    <2>2. v \in Values
        BY DEF Values
    <2>3. candidate' \in [dto -> Values]
        BY <1>1, <2>1, <2>2
    <2>4. AllowedInv'
        <3> SUFFICES ASSUME NEW f \in dto PROVE Allowed(f, target[f])' /\ Allowed(f, candidate[f])'
            BY DEF AllowedInv
        <3>1. Allowed(f, target[f]) /\ Allowed(f, candidate[f])
            BY DEF BinderInv, AllowedInv
        <3>2. Allowed(f, target[f])'
            BY <1>2, <2>1, <3>1
        <3>3. candidate'[f] = v \/ candidate'[f] = candidate[f]
            BY <2>1
        <3>4. candidate'[f] = v => f \in Shadow(dto, pc) \/ candidate'[f] = candidate[f]
            BY <2>1
        <3>5. Allowed(f, candidate'[f])
            BY <1>4, <3>1, <3>3, <3>4
        <3>6. Allowed(f, candidate[f])'
            <4>1. PICK w : w = candidate'[f]
                OBVIOUS
            <4>2. Allowed(f, w)
                BY <3>5, <4>1
            <4>3. Allowed(f, w)'
                BY <1>2, <4>2
            <4> QED BY <4>1, <4>3 DEF Allowed, DeclaredPlaces
        <3> QED BY <3>2, <3>6
    <2>5. CandidateInv'
        <3> SUFFICES ASSUME NEW f \in dto
                     PROVE  /\ (\E s \in Past' : f \in Shadow(dto, s)) => candidate'[f] \in DeclaredPlaces(f) \cup {"zero"}
                            /\ (\A s \in Past' : f \notin Shadow(dto, s)) => candidate'[f] = target'[f]
            BY DEF CandidateInv, DeclaredPlaces, Shadow
        <3>1. Past' = Past \cup {pc} /\ pc \in Late
            BY <2>1, FollowingFacts DEF BinderInv, Late
        <3>2. /\ (\E s \in Past : f \in Shadow(dto, s)) => candidate[f] \in DeclaredPlaces(f) \cup {"zero"}
              /\ (\A s \in Past : f \notin Shadow(dto, s)) => candidate[f] = target[f]
            BY <3>1 DEF BinderInv, CandidateInv
        <3>3. f \in Shadow(dto, pc) => v \in DeclaredPlaces(f) \cup {"zero"}
            BY <1>4 DEF Allowed
        <3>4. candidate'[f] = (IF f \in Shadow(dto, pc) THEN v ELSE candidate[f])
            BY <2>1
        <3> QED BY <2>1, <3>1, <3>2, <3>3, <3>4
    <2> QED BY <1>1, <2>1, <2>3, <2>4, <2>5
<1>5. place # "initial"
    BY DEF Places
<1> QED BY <1>3, <1>4, <1>5, AllowedZero DEF Take, Reject, TargetOnFailure

\* A shadow without fields changes nothing.
LEMMA SkipFacts ==
    ASSUME BinderInv, pc \in Sources, UNCHANGED <<dto, request, contentType, binds>>, Skip(pc)
    PROVE  AllowedInv' /\ CandidateInv'
<1>1. binds \in Nat
    <2>1. binds \in 1..MaxBinds /\ MaxBinds \in Nat
        BY BinderAssumption DEF BinderInv, TypeOK
    <2> QED BY <2>1
<1>2. \A f, v : Allowed(f, v) => Allowed(f, v)'
    BY <1>1, AllowedStable
<1>3. target' = target /\ candidate' = candidate /\ pc' = Following(pc) /\ Shadow(dto, pc) = {}
    BY DEF Skip, Enabled
<1>4. AllowedInv'
    BY <1>2, <1>3 DEF BinderInv, AllowedInv
<1>5. CandidateInv'
    <2> SUFFICES ASSUME NEW f \in dto
                 PROVE  /\ (\E s \in Past' : f \in Shadow(dto, s)) => candidate[f] \in DeclaredPlaces(f) \cup {"zero"}
                        /\ (\A s \in Past' : f \notin Shadow(dto, s)) => candidate[f] = target[f]
        BY <1>3 DEF CandidateInv, DeclaredPlaces, Shadow
    <2>1. Past' = Past \cup {pc} /\ pc \in Late
        BY <1>3, FollowingFacts DEF BinderInv, Late
    <2>2. /\ (\E s \in Past : f \in Shadow(dto, s)) => candidate[f] \in DeclaredPlaces(f) \cup {"zero"}
          /\ (\A s \in Past : f \notin Shadow(dto, s)) => candidate[f] = target[f]
        BY <2>1 DEF BinderInv, CandidateInv
    <2> QED BY <1>3, <2>1, <2>2
<1> QED BY <1>4, <1>5

\* The media type Bind settled on is that of the request, or of no interest.
LEMMA ContentTypeFacts ==
    ASSUME PlanInv, pc \in Typed
    PROVE  /\ contentType # "none" => contentType = request.type
           /\ ReadsBody /\ ~IsForm => request.type \notin FormTypes
           /\ ReadsBody /\ Enabled("body") => FormatOf(request.type) \in Formats(dto) /\ contentType = request.type
<1>1. contentType = Normalized /\ ~UnusableType
    BY DEF PlanInv
<1>2. FormatOf(request.type) \in Formats(dto) => request.type \notin {"none", "invalid"}
    BY DEF Formats, AllFormats, FormatOf, FormTypes, BodyTags
<1> QED BY <1>1, <1>2 DEF Normalized, UnusableType, IsForm, FormTypes

\* The rest of the invariant, when a shadow was bound or the call refused.
LEMMA ShadowStep ==
    ASSUME BinderInv, pc \in Sources, UNCHANGED <<dto, request, contentType, binds>>,
           target' \in [dto -> Values], candidate' \in [dto -> Values],
           pc' = Following(pc) \/ pc' = "error",
           stream' = stream \/ (stream = "buffered" /\ stream' = "drained"),
           parsed' \in {"no", "partial", "whole"},
           FormInv', AllowedInv', CandidateInv'
    PROVE  BinderInv'
<1>1. pc' \in Late \cup {"error"}
    BY FollowingFacts DEF BinderInv
<1>2. TypeOK'
    <2>1. pc' \in {"plan", "content type", "buffer", "query syntax", "commit", "ok", "error"} \cup Sources
        BY <1>1 DEF Late
    <2>2. stream' \in Streams
        BY DEF BinderInv, TypeOK, Streams
    <2> QED BY <2>1, <2>2 DEF BinderInv, TypeOK
<1>3. PlanInv'
    <2>1. pc \notin {"plan", "error"} /\ pc \in Late /\ pc \in Typed
        BY DEF Sources, Late, Typed
    <2>2. CompileFails(dto)' <=> CompileFails(dto)
        BY DEF CompileFails
    <2>3. ~CompileFails(dto)' /\ (~UsesQuery \/ request.syntax)' /\ contentType' = Normalized' /\ ~UnusableType'
        BY <2>1, <2>2 DEF BinderInv, PlanInv, UsesQuery, Enabled, Normalized, UnusableType, ReadsBody
    <2>4. pc' = "query" => request.readOnly
        BY FollowingFacts DEF BinderInv
    <2>5. pc' \in {"form", "body"} => ~request.readOnly
        BY FollowingFacts DEF BinderInv
    <2>6. pc' # "query syntax"
        BY <1>1 DEF Late, Sources
    <2> QED BY <2>3, <2>4, <2>5, <2>6 DEF PlanInv
<1>4. StreamInv'
    <2>1. NeedsBuffer' <=> NeedsBuffer
        BY DEF NeedsBuffer, Enabled, IsForm
    <2>2. pc \in Late
        BY DEF Late
    <2>3. BodyLeftAlone'
        BY DEF BinderInv, StreamInv, BodyLeftAlone
    <2> QED BY <2>1, <2>2, <2>3 DEF BinderInv, StreamInv
<1> QED BY <1>2, <1>3, <1>4 DEF BinderInv

\* Parsing a form.
LEMMA ParseFacts ==
    ASSUME BinderInv, pc \in Sources, UNCHANGED <<dto, request, contentType, binds>>,
           Parse, IsForm, ParseFails => pc' = "error"
    PROVE  /\ FormInv' /\ parsed' \in {"no", "partial", "whole"}
           /\ stream' = stream \/ (stream = "buffered" /\ stream' = "drained")
           /\ ~ParseFails /\ (request.content = "malformed" \/ ~request.syntax) => binds > 1
           /\ ~ParseFails /\ contentType = "multipart" =>
                 request.content \notin {"none", "over", "broken", "malformed"}
<1>1. pc \in Typed /\ pc # "error"
    BY DEF Typed, Late, Sources
<1>2. contentType = request.type
    BY <1>1, ContentTypeFacts DEF BinderInv, IsForm, FormTypes
<1>3. /\ stream' = IF Unparsed /\ stream = "buffered" THEN "drained" ELSE stream
      /\ parsed' = IF ~Unparsed \/ NoMessage THEN parsed
                   ELSE IF ParseFails THEN "partial" ELSE "whole"
    BY DEF Parse
<1>4. parsed \in {"no", "partial", "whole"}
    BY DEF BinderInv, TypeOK
<1>5. /\ parsed # "no" /\ (request.content = "malformed" \/ ~request.syntax) => binds > 1
      /\ request.type = "multipart" /\ parsed # "no" =>
            request.content \notin {"none", "over", "broken", "malformed"}
    BY <1>1 DEF BinderInv, FormInv
<1>6. stream = "buffered" => request.content \notin {"none", "over", "broken"}
    BY DEF BinderInv, StreamInv
<1>7. FormInv'
    <2>1. parsed' # "no" /\ (request.content = "malformed" \/ ~request.syntax) => binds > 1 \/ pc' = "error"
        BY <1>3, <1>5 DEF Unparsed, ParseFails
    <2>2. request.type = "multipart" /\ parsed' # "no" =>
              request.content \notin {"none", "over", "broken", "malformed"}
        BY <1>2, <1>3, <1>5, <1>6 DEF Unparsed, ParseFails, NoMessage
    <2> QED BY <2>1, <2>2 DEF FormInv
<1>8. ~ParseFails /\ (request.content = "malformed" \/ ~request.syntax) => binds > 1
    BY <1>5 DEF Unparsed, ParseFails
<1>9. ~ParseFails /\ contentType = "multipart" => request.content \notin {"none", "over", "broken", "malformed"}
    BY <1>2, <1>5, <1>6 DEF Unparsed, ParseFails, NoMessage
<1> QED BY <1>3, <1>4, <1>7, <1>8, <1>9

\* A shadow that does not touch the body.
LEMMA QuietStep ==
    ASSUME BinderInv, pc \in Sources, UNCHANGED <<dto, request, contentType, binds, stream, parsed>>,
           target' \in [dto -> Values], candidate' \in [dto -> Values],
           pc' = Following(pc) \/ pc' = "error", AllowedInv', CandidateInv'
    PROVE  BinderInv'
<1>1. pc # "error"
    BY DEF Sources
<1>2. FormInv'
    BY <1>1 DEF BinderInv, FormInv
<1>3. parsed' \in {"no", "partial", "whole"}
    BY DEF BinderInv, TypeOK
<1> QED BY <1>2, <1>3, ShadowStep

LEMMA SkipStep ==
    ASSUME BinderInv, pc \in Sources, UNCHANGED <<dto, request, contentType, binds>>, Skip(pc)
    PROVE  BinderInv' /\ target' = target
<1>1. UNCHANGED <<target, candidate, stream, parsed>> /\ pc' = Following(pc)
    BY DEF Skip
<1>2. AllowedInv' /\ CandidateInv'
    BY SkipFacts
<1>3. target' \in [dto -> Values] /\ candidate' \in [dto -> Values]
    BY <1>1 DEF BinderInv, TypeOK
<1> QED BY <1>1, <1>2, <1>3, QuietStep

\* A field of a shadow has what the plan found out about it.
LEMMA FieldFacts ==
    ASSUME BinderInv, pc \in Late, NEW s, NEW f \in Shadow(dto, s)
    PROVE  f \in dto /\ f \in FieldType /\ ~CompileFails(dto) /\ Enabled(s)
<1>1. f \in dto
    BY DEF Shadow
<1>2. f \in FieldType
    BY <1>1, TypeFacts DEF BinderInv
<1>3. ~CompileFails(dto)
    BY DEF BinderInv, PlanInv, Late, Sources
<1> QED BY <1>1, <1>2, <1>3 DEF Enabled

-----------------------------------------------------------------------------
(* Steps *)

\* What BindURI, BindHeader and BindQuery have in common.
LEMMA StringsStep ==
    ASSUME BinderInv, NEW place \in Places, NEW s \in Sources, BindStrings(s, place), s \in Active,
           \A f \in Shadow(dto, s) : Allowed(f, place)
    PROVE  BinderInv' /\ target' = target
<1>1. pc = s /\ UNCHANGED <<dto, request, contentType, binds>>
    BY DEF BindStrings, shadowed
<1>2. CASE Skip(s)
    BY <1>1, <1>2, SkipStep
<1>3. CASE Enabled(s) /\ Take(s, place, request.input[place]) /\ UNCHANGED <<stream, parsed>>
    <2>1. request.input[place] \in {"absent", "good", "bad"}
        BY TypeFacts DEF BinderInv
    <2>2. /\ target' \in [dto -> Values] /\ candidate' \in [dto -> Values]
          /\ AllowedInv' /\ CandidateInv' /\ target' = target
          /\ pc' = Following(pc) \/ pc' = "error"
        BY <1>1, <1>3, <2>1, TakeFacts
    <2> QED BY <1>1, <1>3, <2>2, QuietStep
<1> QED BY <1>2, <1>3 DEF BindStrings

LEMMA URIStep ==
    ASSUME BinderInv, BindURI
    PROVE  BinderInv' /\ target' = target
<1>1. pc = "uri" /\ BindStrings("uri", "path")
    BY DEF BindURI, BindStrings
<1>2. ASSUME NEW f \in Shadow(dto, "uri") PROVE Allowed(f, "path")
    <2>1. "path" \in DeclaredPlaces(f)
        BY <1>1, FieldFacts, ShadowPlaces DEF Late, Sources
    <2> QED BY <2>1 DEF Allowed
<1> QED BY <1>1, <1>2, StringsStep DEF Places, Sources, Active

LEMMA HeaderStep ==
    ASSUME BinderInv, BindHeader
    PROVE  BinderInv' /\ target' = target
<1>1. pc = "header" /\ BindStrings("header", "headers")
    BY DEF BindHeader, BindStrings
<1>2. ASSUME NEW f \in Shadow(dto, "header") PROVE Allowed(f, "headers")
    <2>1. "headers" \in DeclaredPlaces(f)
        BY <1>1, FieldFacts, ShadowPlaces DEF Late, Sources
    <2> QED BY <2>1 DEF Allowed
<1> QED BY <1>1, <1>2, StringsStep DEF Places, Sources, Active

LEMMA QueryStep ==
    ASSUME BinderInv, BindQuery
    PROVE  BinderInv' /\ target' = target
<1>1. pc = "query" /\ BindStrings("query", "query") /\ pc \in Late
    BY DEF BindQuery, BindStrings, Late, Sources
<1>2. request.readOnly
    BY <1>1 DEF BinderInv, PlanInv
<1>3. ASSUME NEW f \in Shadow(dto, "query") PROVE Allowed(f, "query")
    <2>1. "query" \in DeclaredPlaces(f) /\ Enabled("query")
        BY <1>1, <1>2, FieldFacts, ShadowPlaces
    <2>2. request.syntax
        BY <1>1, <2>1 DEF BinderInv, PlanInv, UsesQuery
    <2> QED BY <2>1, <2>2 DEF Allowed
<1> QED BY <1>1, <1>2, <1>3, StringsStep DEF Places, Sources, Active

LEMMA FilesStep ==
    ASSUME BinderInv, BindFiles
    PROVE  BinderInv' /\ target' = target
<1>1. pc = "file" /\ pc \in Sources /\ pc \in Late /\ pc \in Active /\ UNCHANGED <<dto, request, contentType, binds>>
    BY DEF BindFiles, shadowed, Sources, Late, Active
<1>2. CASE Skip("file")
    BY <1>1, <1>2, SkipStep
<1>3. CASE Take("file", "file", "absent") /\ UNCHANGED <<stream, parsed>>
    <2>1. /\ target' \in [dto -> Values] /\ candidate' \in [dto -> Values]
          /\ AllowedInv' /\ CandidateInv' /\ target' = target
          /\ pc' = Following(pc) \/ pc' = "error"
        BY <1>1, <1>3, TakeFacts DEF Places
    <2> QED BY <1>1, <1>3, <2>1, QuietStep
<1>4. CASE /\ Enabled("file") /\ ~request.readOnly /\ contentType = "multipart" /\ Parse
           /\ IF ParseFails THEN Reject /\ UNCHANGED candidate
                            ELSE Take("file", "file", request.input["file"])
    <2>1. ParseFails => pc' = "error"
        BY <1>4 DEF Reject
    <2>2. /\ FormInv' /\ parsed' \in {"no", "partial", "whole"}
          /\ stream' = stream \/ (stream = "buffered" /\ stream' = "drained")
          /\ ~ParseFails => request.content \notin {"none", "over", "broken", "malformed"}
        BY <1>1, <1>4, <2>1, ParseFacts DEF IsForm, FormTypes
    <2>3. /\ target' \in [dto -> Values] /\ candidate' \in [dto -> Values]
          /\ AllowedInv' /\ CandidateInv' /\ target' = target
          /\ pc' = Following(pc) \/ pc' = "error"
        <3>1. CASE ParseFails
            <4>1. Take(pc, "file", "bad")
                BY <1>4, <3>1 DEF Take
            <4> QED BY <1>1, <4>1, TakeFacts DEF Places
        <3>2. CASE ~ParseFails
            <4>1. \A f \in Shadow(dto, "file") : Allowed(f, "file")
                <5> SUFFICES ASSUME NEW f \in Shadow(dto, "file") PROVE Allowed(f, "file")
                    OBVIOUS
                <5>1. "file" \in DeclaredPlaces(f)
                    BY <1>1, FieldFacts, ShadowPlaces
                <5> QED BY <2>2, <3>2, <5>1 DEF Allowed
            <4>2. request.input["file"] \in {"absent", "good", "bad"}
                BY TypeFacts DEF BinderInv, Places
            <4> QED BY <1>1, <1>4, <3>2, <4>1, <4>2, TakeFacts DEF Places
        <3> QED BY <3>1, <3>2
    <2> QED BY <1>1, <2>2, <2>3, ShadowStep
<1> QED BY <1>2, <1>3, <1>4 DEF BindFiles

\* What BindForm and BindBody have in common.
LEMMA FormDataStep ==
    ASSUME BinderInv, NEW s \in {"form", "body"}, pc = s, Enabled(s), IsForm,
           BindFormData(s), UNCHANGED <<dto, request, contentType, binds>>
    PROVE  BinderInv' /\ target' = target
<1>1. pc \in Sources /\ pc \in Late /\ pc \in Typed /\ ~request.readOnly /\ pc \in Active
    BY DEF Sources, Late, Typed, Active, BinderInv, PlanInv
<1>2. contentType = request.type /\ request.type \in FormTypes
    BY <1>1, ContentTypeFacts DEF BinderInv, IsForm, FormTypes
<1>3. request.content # "none" => request.content \notin {"none", "over", "broken"}
    <2>1. request.content # "none" => NeedsBuffer
        BY <1>1 DEF NeedsBuffer
    <2> QED BY <1>1, <2>1 DEF BinderInv, StreamInv
<1>4. ParseFails => pc' = "error"
    BY DEF BindFormData, Reject
<1>5. /\ FormInv' /\ parsed' \in {"no", "partial", "whole"}
      /\ stream' = stream \/ (stream = "buffered" /\ stream' = "drained")
      /\ ~ParseFails /\ (request.content = "malformed" \/ ~request.syntax) => binds > 1
    <2>1. Parse
        BY DEF BindFormData
    <2> QED BY <1>1, <1>4, <2>1, ParseFacts
<1>6. ASSUME NEW f \in Shadow(dto, s) PROVE FormPlaces \subseteq DeclaredPlaces(f)
    BY <1>1, <1>2, FieldFacts, ShadowPlaces
<1>7. /\ target' \in [dto -> Values] /\ candidate' \in [dto -> Values]
      /\ AllowedInv' /\ CandidateInv' /\ target' = target
      /\ pc' = Following(pc) \/ pc' = "error"
    <2>1. CASE ParseFails
        <3>1. Take(pc, "posted", "bad")
            BY <2>1 DEF Take, BindFormData
        <3> QED BY <1>1, <3>1, TakeFacts DEF Places
    <2>2. CASE ~ParseFails /\ contentType = "urlencoded" /\ Posted = "absent"
        <3>1. Take(pc, "query", request.input["query"])
            BY <2>2 DEF BindFormData
        <3>2. request.input["query"] \in {"absent", "good", "bad"}
            BY TypeFacts DEF BinderInv, Places
        <3>3. ASSUME NEW f \in Shadow(dto, pc) PROVE Allowed(f, "query")
            <4>1. "query" \in DeclaredPlaces(f)
                BY <1>1, <1>2, <1>6, <2>2 DEF FormPlaces
            <4>2. ~request.syntax => binds > 1 /\ ~UsesQuery
                BY <1>1, <1>5, <2>2 DEF BinderInv, PlanInv
            <4> QED BY <4>1, <4>2 DEF Allowed
        <3> QED BY <1>1, <3>1, <3>2, <3>3, TakeFacts DEF Places
    <2>3. CASE ~ParseFails /\ ~(contentType = "urlencoded" /\ Posted = "absent")
        <3>1. Take(pc, "posted", Posted)
            BY <2>3 DEF BindFormData
        <3>2. Posted \in {"absent", "good", "bad"}
            BY TypeFacts DEF BinderInv, Places, Posted
        <3>3. ASSUME Posted = "good", NEW f \in Shadow(dto, pc) PROVE Allowed(f, "posted")
            <4>1. "posted" \in DeclaredPlaces(f)
                BY <1>1, <1>2, <1>6 DEF FormPlaces, FormTypes
            <4>2. request.content \notin {"none", "over", "broken"}
                BY <1>3, <3>3 DEF Posted
            <4>3. request.content = "malformed" => binds > 1
                BY <1>5, <2>3
            <4> QED BY <4>1, <4>2, <4>3 DEF Allowed
        <3> QED BY <1>1, <3>1, <3>2, <3>3, TakeFacts DEF Places
    <2> QED BY <2>1, <2>2, <2>3
<1> QED BY <1>1, <1>5, <1>7, ShadowStep

LEMMA FormStep ==
    ASSUME BinderInv, BindForm
    PROVE  BinderInv' /\ target' = target
<1>1. pc = "form" /\ pc \in Sources /\ pc \in Late /\ pc \in Typed /\ UNCHANGED <<dto, request, contentType, binds>>
    BY DEF BindForm, shadowed, Sources, Late, Typed
<1>2. ~request.readOnly /\ pc \in Active
    BY <1>1 DEF BinderInv, PlanInv, Active
<1>3. CASE Skip("form")
    BY <1>1, <1>3, SkipStep
<1>4. CASE Enabled("form") /\ IsForm /\ BindFormData("form")
    BY <1>1, <1>4, FormDataStep
<1>5. CASE /\ Enabled("form") /\ ~IsForm
           /\ Take("form", "query", request.input["query"]) /\ UNCHANGED <<stream, parsed>>
    <2>1. request.type \notin FormTypes
        BY <1>1, <1>2, <1>5, ContentTypeFacts DEF BinderInv, ReadsBody
    <2>2. ASSUME NEW f \in Shadow(dto, "form") PROVE Allowed(f, "query")
        <3>1. "query" \in DeclaredPlaces(f)
            BY <1>1, <1>2, <2>1, FieldFacts, ShadowPlaces DEF FormPlaces, FormTypes
        <3>2. request.syntax
            BY <1>1, <1>5 DEF BinderInv, PlanInv, UsesQuery
        <3> QED BY <3>1, <3>2 DEF Allowed
    <2>3. request.input["query"] \in {"absent", "good", "bad"}
        BY TypeFacts DEF BinderInv, Places
    <2>4. /\ target' \in [dto -> Values] /\ candidate' \in [dto -> Values]
          /\ AllowedInv' /\ CandidateInv' /\ target' = target
          /\ pc' = Following(pc) \/ pc' = "error"
        BY <1>1, <1>2, <1>5, <2>2, <2>3, TakeFacts DEF Places
    <2> QED BY <1>1, <1>5, <2>4, QuietStep
<1> QED BY <1>3, <1>4, <1>5 DEF BindForm

\* A document is decoded in a format every field of the body declares.
LEMMA FormatFacts ==
    ASSUME NEW f \in Shadow(dto, "body"), InBody(f), FormatOf(request.type) \in Formats(dto),
           request.type \notin FormTypes
    PROVE  request.type \in f.tags
    BY DEF FormatOf, Formats, InBody, Shadow

LEMMA BodyStep ==
    ASSUME BinderInv, BindBody
    PROVE  BinderInv' /\ target' = target
<1>1. pc = "body" /\ pc \in Sources /\ pc \in Late /\ pc \in Typed /\ UNCHANGED <<dto, request, contentType, binds>>
    BY DEF BindBody, shadowed, Sources, Late, Typed
<1>2. ~request.readOnly /\ pc \in Active
    BY <1>1 DEF BinderInv, PlanInv, Active
<1>3. CASE Skip("body")
    BY <1>1, <1>3, SkipStep
<1>4. CASE Enabled("body") /\ IsForm /\ BindFormData("body")
    BY <1>1, <1>4, FormDataStep
<1>5. CASE Enabled("body") /\ ~IsForm /\ DecodeDocument
    <2>1. request.type \notin FormTypes /\ contentType = request.type /\ FormatOf(request.type) \in Formats(dto)
        BY <1>1, <1>2, <1>5, ContentTypeFacts DEF BinderInv, ReadsBody
    <2>2. stream' = stream \/ (stream = "buffered" /\ stream' = "drained")
        BY <1>5 DEF DecodeDocument
    <2>3. parsed' = parsed
        BY <1>5 DEF DecodeDocument
    <2>4. FormInv'
        <3>1. pc # "error"
            BY <1>1
        <3> QED BY <1>1, <2>3, <3>1 DEF BinderInv, FormInv
    <2>5. PICK quality \in {"absent", "good", "bad"} :
              /\ Take(pc, "document", quality)
              /\ quality = "good" => stream = "buffered" /\ request.content # "malformed"
        <3>1. request.input["document"] \in {"absent", "good", "bad"}
            BY TypeFacts DEF BinderInv, Places
        <3>2. Reject /\ UNCHANGED candidate => Take(pc, "document", "bad")
            BY DEF Take
        <3>3. CASE Take("body", "document", "absent")
            BY <1>1, <3>3
        <3>4. CASE Reject /\ UNCHANGED candidate
            BY <3>2, <3>4
        <3>5. CASE stream = "buffered" /\ request.content # "malformed"
                   /\ Take("body", "document", request.input["document"])
            BY <1>1, <3>1, <3>5
        <3> QED BY <1>5, <3>3, <3>4, <3>5 DEF DecodeDocument
    <2>6. ASSUME quality = "good", NEW f \in Shadow(dto, pc) PROVE Allowed(f, "document")
        <3>1. "document" \in DeclaredPlaces(f)
            BY <1>1, <1>2, <2>1, FieldFacts, ShadowPlaces
        <3>2. request.content \notin {"none", "over", "broken"} /\ request.content # "malformed"
            BY <2>5, <2>6 DEF BinderInv, StreamInv
        <3>3. request.type = "json" => request.content = "one"
            <4>1. NeedsBuffer
                BY <1>2, <1>5, <3>2 DEF NeedsBuffer
            <4> QED BY <1>1, <2>1, <4>1 DEF BinderInv, StreamInv
        <3>4. f.tags \cap BodyTags # {} => request.type \in f.tags
            BY <1>1, <2>1, <2>6, FormatFacts DEF InBody
        <3> QED BY <3>1, <3>2, <3>3, <3>4 DEF Allowed
    <2>7. /\ target' \in [dto -> Values] /\ candidate' \in [dto -> Values]
          /\ AllowedInv' /\ CandidateInv' /\ target' = target
          /\ pc' = Following(pc) \/ pc' = "error"
        BY <1>1, <1>2, <2>5, <2>6, TakeFacts DEF Places
    <2>8. parsed' \in {"no", "partial", "whole"}
        BY <2>3 DEF BinderInv, TypeOK
    <2> QED BY <1>1, <2>2, <2>4, <2>7, <2>8, ShadowStep
<1> QED BY <1>3, <1>4, <1>5 DEF BindBody

-----------------------------------------------------------------------------
(* The steps around the shadows *)

\* A step that leaves the fields of the target as they are.
LEMMA BeforeStep ==
    ASSUME BinderInv, UNCHANGED <<dto, request, target, parsed, binds>>,
           candidate' \in {candidate, target}, pc \notin Late \cup {"error"}
    PROVE  /\ target' \in [dto -> Values] /\ candidate' \in [dto -> Values]
           /\ FormInv' /\ AllowedInv'
<1>1. binds \in Nat
    <2>1. binds \in 1..MaxBinds /\ MaxBinds \in Nat
        BY BinderAssumption DEF BinderInv, TypeOK
    <2> QED BY <2>1
<1>2. \A f, v : Allowed(f, v) => Allowed(f, v)'
    BY <1>1, AllowedStable
<1>3. AllowedInv'
    <2> SUFFICES ASSUME NEW f \in dto PROVE Allowed(f, target[f])' /\ Allowed(f, candidate[f])'
        BY DEF AllowedInv
    <2>1. Allowed(f, target[f]) /\ Allowed(f, candidate[f])
        BY DEF BinderInv, AllowedInv
    <2>2. Allowed(f, target[f])'
        BY <1>2, <2>1
    <2>3. CASE candidate' = candidate
        <3>1. Allowed(f, candidate[f])'
            BY <1>2, <2>1, <2>3
        <3> QED BY <2>2, <3>1
    <2>4. CASE candidate' = target
        <3>1. candidate' = target'
            BY <2>4
        <3>2. Allowed(f, candidate[f])'
            BY <2>2, <3>1 DEF Allowed
        <3> QED BY <2>2, <3>2
    <2> QED BY <2>3, <2>4
<1>4. target' \in [dto -> Values] /\ candidate' \in [dto -> Values]
    BY DEF BinderInv, TypeOK
<1>5. FormInv'
    BY DEF BinderInv, FormInv
<1> QED BY <1>3, <1>4, <1>5

\* The plan of the request type is of no call in particular.
LEMMA PlanStable ==
    ASSUME UNCHANGED <<dto, request>>
    PROVE  /\ CompileFails(dto)' <=> CompileFails(dto)
           /\ UsesQuery' <=> UsesQuery
           /\ UnusableType' <=> UnusableType
           /\ Normalized' = Normalized
           /\ contentType' = contentType => (NeedsBuffer' <=> NeedsBuffer)
    BY DEF CompileFails, UsesQuery, UnusableType, Normalized, NeedsBuffer, ReadsBody, Enabled, IsForm

LEMMA PrepareStep ==
    ASSUME BinderInv, Prepare
    PROVE  BinderInv' /\ target' = target
<1>1. /\ pc = "plan" /\ pc' = IF CompileFails(dto) THEN "error" ELSE "content type"
      /\ UNCHANGED <<dto, request, target, candidate, binds, contentType, stream, parsed>>
    BY DEF Prepare, before
<1>2. FormInv' /\ AllowedInv' /\ target' \in [dto -> Values] /\ candidate' \in [dto -> Values]
    BY <1>1, BeforeStep DEF Late, Sources
<1>3. TypeOK'
    BY <1>1, <1>2 DEF BinderInv, TypeOK
<1>4. PlanInv'
    BY <1>1, PlanStable DEF PlanInv, Typed, Late, Sources
<1>5. StreamInv'
    <2>1. BodyLeftAlone'
        BY <1>1 DEF BinderInv, StreamInv, BodyLeftAlone
    <2> QED BY <1>1, <2>1 DEF BinderInv, StreamInv, Late, Sources
<1>6. CandidateInv'
    BY <1>1 DEF CandidateInv, Late, Sources
<1> QED BY <1>1, <1>2, <1>3, <1>4, <1>5, <1>6 DEF BinderInv

LEMMA SettleStep ==
    ASSUME BinderInv, SettleContentType
    PROVE  BinderInv' /\ target' = target
<1>1. /\ pc = "content type" /\ pc' \in {"error", "buffer"}
      /\ pc' = "error" => contentType' = contentType
      /\ pc' = "buffer" => contentType' = Normalized /\ ~UnusableType
      /\ UNCHANGED <<dto, request, target, candidate, binds, stream, parsed>>
    BY DEF SettleContentType, before
<1>2. FormInv' /\ AllowedInv' /\ target' \in [dto -> Values] /\ candidate' \in [dto -> Values]
    BY <1>1, BeforeStep DEF Late, Sources
<1>3. TypeOK'
    <2>1. ~UnusableType => Normalized \in MediaTypes \cup {"none"}
        <3>1. request.type \in MediaTypes \cup {"none", "many", "invalid"}
            BY TypeFacts DEF BinderInv
        <3> QED BY <3>1 DEF UnusableType, Normalized
    <2>2. contentType' \in MediaTypes \cup {"none"}
        BY <1>1, <2>1 DEF BinderInv, TypeOK
    <2> QED BY <1>1, <1>2, <2>2 DEF BinderInv, TypeOK
<1>4. PlanInv'
    <2>1. ~CompileFails(dto)
        BY <1>1 DEF BinderInv, PlanInv
    <2> QED BY <1>1, <2>1, PlanStable DEF PlanInv, Typed, Late, Sources
<1>5. StreamInv'
    <2>1. BodyLeftAlone'
        BY <1>1 DEF BinderInv, StreamInv, BodyLeftAlone
    <2> QED BY <1>1, <2>1 DEF BinderInv, StreamInv, Late, Sources
<1>6. CandidateInv'
    BY <1>1 DEF CandidateInv, Late, Sources
<1> QED BY <1>1, <1>2, <1>3, <1>4, <1>5, <1>6 DEF BinderInv

\* Some field of the request type reads the body that is buffered.
LEMMA ReaderFacts ==
    ASSUME BinderInv, pc = "buffer", NeedsBuffer
    PROVE  /\ ~request.readOnly
           /\ \E f \in dto : f.tags \cap BodyTags # {} \/ ("form" \in f.tags /\ request.type \in FormTypes)
<1>1. ~request.readOnly
    BY DEF NeedsBuffer
<1>2. PlanInv /\ ~CompileFails(dto) /\ pc \in Typed
    BY DEF BinderInv, PlanInv, Typed
<1>3. ASSUME NEW s \in Sources, NEW f \in Shadow(dto, s)
      PROVE  f \in dto /\ Enters(f, Len(f.path), s) /\ BoundFrom(f, s)
    BY DEF Shadow
<1>4. CASE Enabled("body")
    <2>1. PICK f \in Shadow(dto, "body") : TRUE
        BY <1>4 DEF Enabled
    <2>2. f \in dto /\ InBody(f)
        BY <2>1, ClaimsFacts DEF Shadow, BoundFrom
    <2> QED BY <1>1, <2>2 DEF InBody
<1>5. CASE Enabled("form") /\ IsForm
    <2>1. PICK f \in Shadow(dto, "form") : TRUE
        BY <1>5 DEF Enabled
    <2>2. f \in dto /\ "form" \in f.tags
        BY <2>1, ClaimsFacts DEF Shadow, BoundFrom
    <2>3. request.type \in FormTypes
        BY <1>2, <1>5, ContentTypeFacts DEF IsForm, FormTypes
    <2> QED BY <1>1, <2>2, <2>3
<1>6. CASE Enabled("file") /\ contentType = "multipart"
    <2>1. PICK f \in Shadow(dto, "file") : TRUE
        BY <1>6 DEF Enabled
    <2>2. BoundFrom(f, "file") /\ f \in dto
        BY <2>1 DEF Shadow
    <2>3. "form" \in f.tags
        BY <2>2, ClaimsFacts DEF BoundFrom
    <2>4. request.type \in FormTypes
        BY <1>2, <1>6, ContentTypeFacts DEF FormTypes
    <2> QED BY <1>1, <2>2, <2>3, <2>4
<1> QED BY <1>4, <1>5, <1>6 DEF NeedsBuffer

LEMMA BufferStep ==
    ASSUME BinderInv, BufferBody
    PROVE  BinderInv' /\ target' = target
<1>1. /\ pc = "buffer" /\ pc' \in {"error", "query syntax"}
      /\ candidate' = IF pc' = "error" THEN candidate ELSE target
      /\ UNCHANGED <<dto, request, contentType, target, parsed, binds>>
    BY DEF BufferBody
<1>2. FormInv' /\ AllowedInv' /\ target' \in [dto -> Values] /\ candidate' \in [dto -> Values]
    BY <1>1, BeforeStep DEF Late, Sources
<1>3. /\ stream' \in Streams
      /\ stream' # stream => NeedsBuffer
      /\ stream' \in {"buffered", "drained"} =>
            stream \in {"buffered", "drained"} \/ ~(request.content \in {"over", "broken", "none"})
      /\ pc' = "query syntax" /\ NeedsBuffer =>
            stream' \in {"buffered", "drained"} /\ (contentType = "json" => request.content = "one")
    <2>1. stream \in Streams
        BY DEF BinderInv, TypeOK
    <2>2. stream = "original" /\ ~Unreadable => request.content \notin {"over", "broken"}
        BY DEF Unreadable
    <2>3. stream # "spent" => stream \in {"original", "buffered", "drained"}
        BY <2>1 DEF Streams
    <2>4. CASE ~NeedsBuffer /\ pc' = "query syntax" /\ UNCHANGED stream
        BY <2>1, <2>4
    <2>5. CASE NeedsBuffer /\ pc' = "error" /\ stream' = "spent"
        BY <2>5 DEF Streams
    <2>6. CASE NeedsBuffer /\ pc' = "error" /\ ~Unreadable /\ stream' = IF stream = "original" THEN "spent" ELSE "drained"
        BY <2>3, <2>6 DEF Streams, Unreadable
    <2>7. CASE /\ NeedsBuffer /\ ~Unreadable /\ pc' = "query syntax"
               /\ contentType = "json" => Buffered /\ ValidJSON(request.content)
               /\ stream' = IF Buffered THEN "buffered" ELSE stream
        <3>1. request.content # "none"
            BY <2>7 DEF NeedsBuffer
        <3>2. contentType = "json" => request.content = "one"
            BY <2>7 DEF ValidJSON
        <3>3. stream' \in {"buffered", "drained"} /\ stream' \in Streams
            BY <2>3, <2>7 DEF Unreadable, Buffered, Streams
        <3> QED BY <2>2, <2>3, <2>7, <3>1, <3>2, <3>3 DEF Unreadable
    <2> QED BY <2>4, <2>5, <2>6, <2>7 DEF BufferBody
<1>4. TypeOK'
    BY <1>1, <1>2, <1>3 DEF BinderInv, TypeOK
<1>5. PlanInv'
    <2>1. ~CompileFails(dto) /\ contentType = Normalized /\ ~UnusableType
        BY <1>1 DEF BinderInv, PlanInv, Typed
    <2>2. ~CompileFails(dto)' /\ contentType' = Normalized' /\ ~UnusableType'
        BY <1>1, <2>1, PlanStable
    <2>3. pc' = "query syntax" => candidate' = target'
        BY <1>1
    <2> QED BY <1>1, <2>2, <2>3 DEF PlanInv, Late, Sources
<1>6. StreamInv'
    <2>1. stream' \in {"buffered", "drained"} => request.content \notin {"none", "over", "broken"}
        BY <1>3 DEF BinderInv, StreamInv
    <2>2. BodyLeftAlone'
        <3>1. stream' # "original" =>
                 /\ ~request.readOnly
                 /\ binds = 1 => \E f \in dto :
                       f.tags \cap BodyTags # {} \/ ("form" \in f.tags /\ request.type \in FormTypes)
            BY <1>1, <1>3, ReaderFacts DEF BinderInv, StreamInv, BodyLeftAlone
        <3> QED BY <1>1, <3>1 DEF BodyLeftAlone
    <2>3. NeedsBuffer' <=> NeedsBuffer
        BY <1>1, PlanStable
    <2> QED BY <1>1, <1>3, <2>1, <2>2, <2>3 DEF StreamInv, Late, Sources
<1>7. CandidateInv'
    BY <1>1 DEF CandidateInv, Late, Sources
<1> QED BY <1>1, <1>2, <1>4, <1>5, <1>6, <1>7 DEF BinderInv

LEMMA CheckStep ==
    ASSUME BinderInv, CheckQuery
    PROVE  BinderInv' /\ target' = target
<1>1. /\ pc = "query syntax"
      /\ pc' = IF UsesQuery /\ ~request.syntax THEN "error" ELSE "uri"
      /\ UNCHANGED <<dto, request, target, candidate, binds, contentType, stream, parsed>>
    BY DEF CheckQuery, before
<1>2. FormInv' /\ AllowedInv' /\ target' \in [dto -> Values] /\ candidate' \in [dto -> Values]
    BY <1>1, BeforeStep DEF Late, Sources
<1>3. TypeOK'
    BY <1>1, <1>2 DEF BinderInv, TypeOK, Sources
<1>4. PlanInv'
    <2>1. ~CompileFails(dto) /\ contentType = Normalized /\ ~UnusableType
        BY <1>1 DEF BinderInv, PlanInv, Typed
    <2>2. ~CompileFails(dto)' /\ contentType' = Normalized' /\ ~UnusableType'
        BY <1>1, <2>1, PlanStable
    <2>3. pc' = "uri" => (~UsesQuery \/ request.syntax)'
        BY <1>1, PlanStable
    <2> QED BY <1>1, <2>2, <2>3 DEF PlanInv, Late, Sources
<1>5. StreamInv'
    <2>1. BodyLeftAlone'
        BY <1>1 DEF BinderInv, StreamInv, BodyLeftAlone
    <2>2. NeedsBuffer' <=> NeedsBuffer
        BY <1>1, PlanStable
    <2> QED BY <1>1, <2>1, <2>2 DEF BinderInv, StreamInv, Late, Sources
<1>6. CandidateInv'
    <2>1. candidate = target
        BY <1>1 DEF BinderInv, PlanInv
    <2>2. pc' = "uri" => Past' = {}
        BY DEF Past
    <2> QED BY <1>1, <2>1, <2>2 DEF CandidateInv, Late, Sources
<1> QED BY <1>1, <1>2, <1>3, <1>4, <1>5, <1>6 DEF BinderInv

LEMMA CommitStep ==
    ASSUME BinderInv, Commit
    PROVE  BinderInv'
<1>1. /\ pc = "commit" /\ pc' = "ok" /\ target' = candidate /\ candidate' = candidate
      /\ UNCHANGED <<dto, request, contentType, stream, parsed, binds>>
    BY DEF Commit
<1>2. binds \in Nat
    <2>1. binds \in 1..MaxBinds /\ MaxBinds \in Nat
        BY BinderAssumption DEF BinderInv, TypeOK
    <2> QED BY <2>1
<1>3. AllowedInv'
    <2> SUFFICES ASSUME NEW f \in dto PROVE Allowed(f, target[f])' /\ Allowed(f, candidate[f])'
        BY <1>1 DEF AllowedInv
    <2>1. Allowed(f, candidate[f])
        BY DEF BinderInv, AllowedInv
    <2>2. Allowed(f, candidate[f])'
        BY <1>1, <1>2, <2>1, AllowedStable
    <2>3. target' = candidate'
        BY <1>1
    <2>4. Allowed(f, target[f])'
        BY <2>2, <2>3 DEF Allowed
    <2> QED BY <2>2, <2>4
<1>4. TypeOK'
    BY <1>1 DEF BinderInv, TypeOK
<1>5. PlanInv'
    <2>1. ~CompileFails(dto)
        BY <1>1 DEF BinderInv, PlanInv
    <2>2. ~CompileFails(dto)'
        BY <1>1, <2>1, PlanStable
    <2> QED BY <1>1, <2>2 DEF PlanInv, Typed, Late, Sources
<1>6. StreamInv'
    <2>1. BodyLeftAlone'
        BY <1>1 DEF BinderInv, StreamInv, BodyLeftAlone
    <2> QED BY <1>1, <2>1 DEF BinderInv, StreamInv, Late, Sources
<1>7. FormInv'
    BY <1>1 DEF BinderInv, FormInv
<1>8. CandidateInv'
    BY <1>1 DEF CandidateInv, Late, Sources
<1> QED BY <1>3, <1>4, <1>5, <1>6, <1>7, <1>8 DEF BinderInv

LEMMA AgainStep ==
    ASSUME BinderInv, BindAgain
    PROVE  BinderInv'
<1>1. /\ pc \in {"ok", "error"} /\ pc' = "plan" /\ contentType' = "none"
      /\ binds < MaxBinds /\ binds' = binds + 1
      /\ UNCHANGED <<request, stream, parsed>>
    BY DEF BindAgain
<1>2. binds \in 1..MaxBinds /\ MaxBinds \in Nat /\ binds \in Nat
    <2>1. binds \in 1..MaxBinds /\ MaxBinds \in Nat
        BY BinderAssumption DEF BinderInv, TypeOK
    <2> QED BY <2>1
<1>3. binds' \in 1..MaxBinds /\ binds' > 1 /\ binds' # 1
    BY <1>1, <1>2
<1>4. /\ dto' \in Dtos /\ target' \in [dto' -> Values] /\ candidate' \in [dto' -> Values]
      /\ AllowedInv'
    <2>1. CASE UNCHANGED <<dto, target, candidate>>
        <3>1. \A f, v : Allowed(f, v) => Allowed(f, v)'
            BY <1>1, <1>2, <2>1, AllowedStable
        <3>2. AllowedInv'
            BY <2>1, <3>1 DEF BinderInv, AllowedInv
        <3> QED BY <2>1, <3>2 DEF BinderInv, TypeOK
    <2>2. CASE dto' \in Dtos /\ target' = [f \in dto' |-> "initial"] /\ candidate' = target'
        <3>1. "initial" \in Values
            BY DEF Values
        <3>2. target' \in [dto' -> Values] /\ candidate' \in [dto' -> Values]
            BY <2>2, <3>1
        <3>3. ASSUME NEW f \in dto' PROVE Allowed(f, target[f])' /\ Allowed(f, candidate[f])'
            <4>1. target'[f] = "initial" /\ candidate'[f] = "initial"
                BY <2>2
            <4> QED BY <4>1 DEF Allowed
        <3>4. AllowedInv'
            BY <3>3 DEF AllowedInv
        <3> QED BY <2>2, <3>2, <3>4
    <2> QED BY <2>1, <2>2 DEF BindAgain
<1>5. TypeOK'
    <2>1. contentType' \in MediaTypes \cup {"none"}
        BY <1>1
    <2> QED BY <1>1, <1>3, <1>4, <2>1 DEF BinderInv, TypeOK
<1>6. PlanInv'
    BY <1>1 DEF PlanInv, Typed, Late, Sources
<1>7. StreamInv'
    <2>1. BodyLeftAlone'
        BY <1>1, <1>3 DEF BinderInv, StreamInv, BodyLeftAlone
    <2> QED BY <1>1, <2>1 DEF BinderInv, StreamInv, Late, Sources
<1>8. FormInv'
    BY <1>1, <1>3 DEF BinderInv, FormInv
<1>9. CandidateInv'
    BY <1>1 DEF CandidateInv, Late, Sources
<1> QED BY <1>4, <1>5, <1>6, <1>7, <1>8, <1>9 DEF BinderInv

LEMMA StutterStep ==
    ASSUME BinderInv, UNCHANGED vars
    PROVE  BinderInv'
<1>1. UNCHANGED <<dto, request, pc, contentType, target, candidate, stream, parsed, binds>>
    BY DEF vars
<1>2. TypeOK'
    BY <1>1 DEF BinderInv, TypeOK
<1>3. PlanInv'
    BY <1>1, PlanStable DEF BinderInv, PlanInv
<1>4. StreamInv'
    <2>1. NeedsBuffer' <=> NeedsBuffer
        BY <1>1, PlanStable
    <2>2. BodyLeftAlone'
        BY <1>1 DEF BinderInv, StreamInv, BodyLeftAlone
    <2> QED BY <1>1, <2>1, <2>2 DEF BinderInv, StreamInv
<1>5. FormInv'
    BY <1>1 DEF BinderInv, FormInv
<1>6. AllowedInv'
    <2>1. binds \in Nat
        <3>1. binds \in 1..MaxBinds /\ MaxBinds \in Nat
            BY BinderAssumption DEF BinderInv, TypeOK
        <3> QED BY <3>1
    <2>2. \A f, v : Allowed(f, v) => Allowed(f, v)'
        BY <1>1, <2>1, AllowedStable
    <2> QED BY <1>1, <2>2 DEF BinderInv, AllowedInv
<1>7. CandidateInv'
    <2>1. Past' = Past
        BY <1>1 DEF Past, Active
    <2> QED BY <1>1, <2>1 DEF BinderInv, CandidateInv, DeclaredPlaces, Shadow
<1> QED BY <1>2, <1>3, <1>4, <1>5, <1>6, <1>7 DEF BinderInv

-----------------------------------------------------------------------------
(* The theorems *)

LEMMA BinderInit == Init => BinderInv
<1> SUFFICES ASSUME Init PROVE BinderInv
    OBVIOUS
<1>1. /\ dto \in Dtos /\ request \in Requests /\ pc = "plan" /\ contentType = "none"
      /\ target = [f \in dto |-> "initial"] /\ candidate = target
      /\ stream = "original" /\ parsed = "no" /\ binds = 1
    BY DEF Init
<1>2. TypeOK
    <2>1. "initial" \in Values
        BY DEF Values
    <2>2. target \in [dto -> Values] /\ candidate \in [dto -> Values]
        BY <1>1, <2>1
    <2>3. binds \in 1..MaxBinds
        BY <1>1, BinderAssumption
    <2> QED BY <1>1, <2>2, <2>3 DEF TypeOK, Streams
<1>3. PlanInv
    BY <1>1 DEF PlanInv, Typed, Late, Sources
<1>4. StreamInv
    BY <1>1 DEF StreamInv, BodyLeftAlone, Late, Sources
<1>5. FormInv
    BY <1>1 DEF FormInv
<1>6. AllowedInv
    BY <1>1, AllowedZero DEF AllowedInv
<1>7. CandidateInv
    BY <1>1 DEF CandidateInv, Late, Sources
<1> QED BY <1>2, <1>3, <1>4, <1>5, <1>6, <1>7 DEF BinderInv

LEMMA BinderStep == BinderInv /\ [Next]_vars => BinderInv'
<1> SUFFICES ASSUME BinderInv, [Next]_vars PROVE BinderInv'
    OBVIOUS
<1>1. CASE Prepare
    BY <1>1, PrepareStep
<1>2. CASE SettleContentType
    BY <1>2, SettleStep
<1>3. CASE BufferBody
    BY <1>3, BufferStep
<1>4. CASE CheckQuery
    BY <1>4, CheckStep
<1>5. CASE BindURI
    BY <1>5, URIStep
<1>6. CASE BindHeader
    BY <1>6, HeaderStep
<1>7. CASE BindFiles
    BY <1>7, FilesStep
<1>8. CASE BindQuery
    BY <1>8, QueryStep
<1>9. CASE BindForm
    BY <1>9, FormStep
<1>10. CASE BindBody
    BY <1>10, BodyStep
<1>11. CASE Commit
    BY <1>11, CommitStep
<1>12. CASE BindAgain
    BY <1>12, AgainStep
<1>13. CASE UNCHANGED vars
    BY <1>13, StutterStep
<1> QED BY <1>1, <1>2, <1>3, <1>4, <1>5, <1>6, <1>7, <1>8, <1>9, <1>10, <1>11, <1>12, <1>13 DEF Next

LEMMA BinderCorrect == Spec => []BinderInv
    BY BinderInit, BinderStep, PTL DEF Spec

\* Every variable of the binder keeps its type.
THEOREM TypeCorrect == Spec => []TypeOK
<1>1. BinderInv => TypeOK
    BY DEF BinderInv
<1> QED BY <1>1, BinderCorrect, PTL

\* Whatever calls came before for the same request, no field holds a value from
\* a place its tags do not name, nor from a raw query with a syntax error
\* (compilePlan and query.check, binder.go:680-685).
THEOREM IsolatedCorrect == Spec => []IsolatedSources
<1>1. BinderInv => IsolatedSources
    BY DEF BinderInv, AllowedInv, Allowed, IsolatedSources
<1> QED BY <1>1, BinderCorrect, PTL

\* A body is decoded only in an encoding that every field filled from it
\* declares (bodyFormatsOf and matchContentType, binder.go:632-633).
THEOREM FormatCorrect == Spec => []DeclaredFormatOnly
<1>1. BinderInv => DeclaredFormatOnly
    BY DEF BinderInv, AllowedInv, Allowed, DeclaredFormatOnly
<1> QED BY <1>1, BinderCorrect, PTL

\* What is bound from a body was read whole, within the limit, and is one
\* document if it is JSON (bufferBody).
THEOREM WholeCorrect == Spec => []OneWholeDocument
<1>1. BinderInv => OneWholeDocument
    BY DEF BinderInv, AllowedInv, Allowed, OneWholeDocument
<1> QED BY <1>1, BinderCorrect, PTL

\* A body no field of the request type reads is left to the handler
\* (binder.go:173-182).
THEOREM LeftAloneCorrect == Spec => []BodyLeftAlone
<1>1. BinderInv => BodyLeftAlone
    BY DEF BinderInv, StreamInv
<1> QED BY <1>1, BinderCorrect, PTL

LEMMA AtomicStep ==
    ASSUME BinderInv, [Next]_vars
    PROVE  [Promise!Next]_(Promise!vars)
<1> DEFINE DeclaredOf == [f \in dto |-> DeclaredPlaces(f)]
           Outcome == IF pc \in {"ok", "error"} THEN pc ELSE "running"
<1>1. UNCHANGED <<dto, request>> => DeclaredOf' = DeclaredOf
    BY DEF DeclaredPlaces
<1>2. ASSUME target' = target, UNCHANGED <<dto, request>>, pc \notin {"ok", "error"}, pc' # "ok"
      PROVE  [Promise!Next]_(Promise!vars)
    <2>1. Outcome = "running" /\ Outcome' \in {"running", "error"}
        BY <1>2
    <2>2. CASE Outcome' = "running"
        BY <1>1, <1>2, <2>1, <2>2 DEF Promise!vars
    <2>3. CASE Outcome' = "error"
        BY <1>1, <1>2, <2>1, <2>3 DEF Promise!Next, Promise!Fail
    <2> QED BY <2>1, <2>2, <2>3
<1>3. CASE Prepare
    <2>1. pc = "plan" /\ UNCHANGED <<dto, request>> /\ pc' \in {"error", "content type"}
        BY <1>3 DEF Prepare, before
    <2> QED BY <1>2, <1>3, <2>1, PrepareStep
<1>4. CASE SettleContentType
    <2>1. pc = "content type" /\ UNCHANGED <<dto, request>> /\ pc' \in {"error", "buffer"}
        BY <1>4 DEF SettleContentType, before
    <2> QED BY <1>2, <1>4, <2>1, SettleStep
<1>5. CASE BufferBody
    <2>1. pc = "buffer" /\ UNCHANGED <<dto, request>> /\ pc' \in {"error", "query syntax"}
        BY <1>5 DEF BufferBody
    <2> QED BY <1>2, <1>5, <2>1, BufferStep
<1>6. CASE CheckQuery
    <2>1. pc = "query syntax" /\ UNCHANGED <<dto, request>> /\ pc' \in {"error", "uri"}
        BY <1>6 DEF CheckQuery, before
    <2> QED BY <1>2, <1>6, <2>1, CheckStep
<1>7. CASE BindURI \/ BindHeader \/ BindFiles \/ BindQuery \/ BindForm \/ BindBody
    <2>1. pc \in Sources /\ UNCHANGED <<dto, request>>
        BY <1>7 DEF BindURI, BindHeader, BindFiles, BindQuery, BindForm, BindBody, BindStrings, shadowed, Sources
    <2>2. pc' = "error" \/ pc' = Following(pc)
        BY <1>7 DEF BindURI, BindHeader, BindFiles, BindQuery, BindForm, BindBody, BindStrings, Skip,
                    Take, Copy, Reject, BindFormData, DecodeDocument
    <2>3. pc \notin {"ok", "error"} /\ pc' # "ok"
        BY <2>1, <2>2 DEF Following, Sources
    <2>4. target' = target
        BY <1>7, URIStep, HeaderStep, FilesStep, QueryStep, FormStep, BodyStep
    <2> QED BY <1>2, <2>1, <2>3, <2>4
<1>8. CASE Commit
    <2>1. pc = "commit" /\ pc' = "ok" /\ target' = candidate /\ UNCHANGED <<dto, request>>
        BY <1>8 DEF Commit
    <2>2. target \in [dto -> Values] /\ candidate \in [dto -> Values] /\ ~CompileFails(dto)
        BY <2>1 DEF BinderInv, TypeOK, PlanInv
    <2>3. Past = Active /\ pc \in Late
        BY <2>1 DEF Past, Late
    <2>4. ASSUME NEW f \in dto
          PROVE  target'[f] \in IF DeclaredOf[f] = {} THEN {target[f]} ELSE DeclaredOf[f] \cup {"zero"}
        <3>1. f \in FieldType
            BY TypeFacts DEF BinderInv
        <3>2. DeclaredPlaces(f) # {} <=> \E s \in Active : f \in Shadow(dto, s)
            BY <2>2, <3>1, PlacesShadow
        <3>3. /\ (\E s \in Active : f \in Shadow(dto, s)) => candidate[f] \in DeclaredPlaces(f) \cup {"zero"}
              /\ (\A s \in Active : f \notin Shadow(dto, s)) => candidate[f] = target[f]
            BY <2>3 DEF BinderInv, CandidateInv
        <3>4. target'[f] \in IF DeclaredPlaces(f) = {} THEN {target[f]} ELSE DeclaredPlaces(f) \cup {"zero"}
            BY <2>1, <3>2, <3>3
        <3>5. DeclaredOf[f] = DeclaredPlaces(f)
            OBVIOUS
        <3> QED BY <3>4, <3>5
    <2>5. DOMAIN target = dto /\ DOMAIN target' = dto
        BY <2>1, <2>2
    <2>6. Outcome = "running" /\ Outcome' = "ok"
        BY <2>1
    <2>7. Promise!Succeed
        BY <1>1, <2>1, <2>4, <2>5, <2>6 DEF Promise!Succeed
    <2> QED BY <2>7 DEF Promise!Next
<1>9. CASE BindAgain
    <2>1. pc \in {"ok", "error"} /\ pc' = "plan" /\ request' = request
        BY <1>9 DEF BindAgain
    <2>2. Outcome \in {"ok", "error"} /\ Outcome' = "running"
        BY <2>1
    <2>3. CASE UNCHANGED <<dto, target, candidate>>
        BY <1>1, <2>1, <2>2, <2>3 DEF Promise!Next, Promise!Again
    <2>4. CASE target' = [f \in dto' |-> "initial"]
        <3>1. \A f \in DOMAIN target' : target'[f] = "initial"
            BY <2>4
        <3> QED BY <2>2, <3>1 DEF Promise!Next, Promise!Again
    <2> QED BY <1>9, <2>3, <2>4 DEF BindAgain
<1>10. CASE UNCHANGED vars
    <2>1. UNCHANGED <<dto, request, pc, target>>
        BY <1>10 DEF vars
    <2> QED BY <1>1, <2>1 DEF Promise!vars
<1> QED BY <1>3, <1>4, <1>5, <1>6, <1>7, <1>8, <1>9, <1>10 DEF Next

\* A refused call leaves the caller's struct as it was, a successful one changes
\* every field that has a source in this request, all at once (Bind,
\* binder.go:156-229).
THEOREM AtomicCorrect == Spec => AtomicBindKept
<1>1. Init => Promise!Init
    BY DEF Init, Promise!Init
<1>2. BinderInv /\ [Next]_vars => [Promise!Next]_(Promise!vars)
    BY AtomicStep
<1> QED BY <1>1, <1>2, BinderCorrect, PTL DEF Spec, AtomicBindKept, Promise!Spec
=============================================================================
