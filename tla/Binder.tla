-------------------------------- MODULE Binder --------------------------------
(***************************************************************************)
(* Binder.Bind (binder.go): one request is bound into a DTO, source by     *)
(* source, through the shadows of its plan, into a candidate that replaces *)
(* the target at the end. The request is bound again when a handler calls  *)
(* AutoBind itself, and finds the body as the earlier call left it.        *)
(*                                                                         *)
(* A value is the place of the request it was read from; gin's decoders    *)
(* are reduced to accepting, rejecting or missing what a place holds. The  *)
(* body is net/http's: a read after Close fails. That does not hold of the *)
(* body a buffering access log puts in its place, of which a later call    *)
(* could still read a part (CloseBehaviorKept in BodyCapture): the two     *)
(* together are outside this model.                                        *)
(* Mutant... definitions are faults the property they name detects.        *)
(***************************************************************************)
EXTENDS BindingPlan

CONSTANTS Requests,  \* the requests to bind: see RequestType
          MaxBinds   \* BOUND: calls of Bind for one request

VARIABLES dto,         \* the request type of this call
          request,     \* the request
          pc,          \* where Bind stands
          contentType, \* the media type Bind settled on
          target,      \* the caller's struct: field -> place of its value
          candidate,   \* Bind's copy of it
          stream,      \* c.Request.Body
          parsed,      \* the form net/http caches: "no", "partial" or "whole"
          binds        \* number of the call

vars == <<dto, request, pc, contentType, target, candidate, stream, parsed, binds>>

Places == {"path", "headers", "query", "file", "posted", "document"}
Values == Places \cup {"zero", "initial"}

DocumentTypes == BodyTags
FormTypes == {"urlencoded", "multipart"}
MediaTypes == DocumentTypes \cup FormTypes \cup {"other"}

RequestType ==
    [ readOnly : BOOLEAN,                                   \* GET or HEAD, otherwise POST
      type     : MediaTypes \cup {"none", "many", "invalid"}, \* the Content-Type header
      content  : {"none", "one", "many", "malformed", "over", "broken"}, \* the body
      syntax   : BOOLEAN,                                   \* the raw query is well-formed
      input    : [Places -> {"absent", "good", "bad"}] ]

ASSUME BinderAssumption ==
    /\ Requests \subseteq RequestType
    /\ MaxBinds \in Nat \ {0}

\* "spent" was read and closed by a failed bufferBody, "buffered" replaced by
\* the whole body in memory, "drained" the same after a decoder read it.
Streams == {"original", "spent", "buffered", "drained"}

Init == /\ dto \in Dtos
        /\ request \in Requests
        /\ pc = "plan"
        /\ contentType = "none"
        /\ target = [f \in dto |-> "initial"]
        /\ candidate = target
        /\ stream = "original"
        /\ parsed = "no"
        /\ binds = 1

shadowed == <<dto, request, contentType, binds>>  \* left alone by the shadows
before == <<dto, request, target, candidate, binds>>      \* left alone before them

\* AtomicBindKept: the candidate is the target itself.
MutantTarget == candidate

\* What the caller's struct holds when Bind returns an error.
TargetOnFailure == target

Reject == pc' = "error" /\ target' = TargetOnFailure

-----------------------------------------------------------------------------
(* The plan, the media type and the body *)

Enabled(s) == Shadow(dto, s) # {}

Prepare ==
    /\ pc = "plan"
    /\ pc' = IF CompileFails(dto) THEN "error" ELSE "content type"
    /\ UNCHANGED <<before, contentType, stream, parsed>>

ReadsBody == ~request.readOnly /\ (Enabled("body") \/ Enabled("form") \/ Enabled("file"))
FormatOf(type) == IF type \in FormTypes THEN "form" ELSE type

\* TypeOK: the header's value is used as it is.
MutantRawType == request.type

\* The media type of the request. Without body fields one is not required.
Normalized == IF ~ReadsBody \/ request.type \in {"none", "invalid"} THEN "none" ELSE request.type

UnusableType == /\ ReadsBody
                /\ \/ request.type = "many"
                   \/ Enabled("body") /\ FormatOf(request.type) \notin Formats(dto)

SettleContentType ==
    /\ pc = "content type"
    /\ \/ UnusableType /\ pc' = "error" /\ UNCHANGED contentType
       \/ ~UnusableType /\ pc' = "buffer" /\ contentType' = Normalized
    /\ UNCHANGED <<before, stream, parsed>>

IsForm == contentType \in FormTypes

\* BodyLeftAlone: every write request is buffered.
MutantBufferAll == ~request.readOnly /\ request.content # "none"

NeedsBuffer == /\ ~request.readOnly
               /\ request.content # "none"
               /\ Enabled("body") \/ (Enabled("form") /\ IsForm)
                  \/ (Enabled("file") /\ contentType = "multipart")

\* OneWholeDocument: only the start of the body is looked at.
MutantPrefix(content) == content \in {"one", "many", "over"}

\* json.Valid on the whole body.
ValidJSON(content) == content = "one"

\* The body cannot be read in full within the limit, or was closed after that.
Unreadable == stream = "spent" \/ (stream = "original" /\ request.content \in {"over", "broken"})
Buffered == stream \in {"original", "buffered"}

BufferBody ==
    /\ pc = "buffer"
    /\ \/ ~NeedsBuffer /\ pc' = "query syntax" /\ UNCHANGED stream
       \/ NeedsBuffer /\ Unreadable /\ pc' = "error" /\ stream' = "spent"
       \/ /\ NeedsBuffer /\ ~Unreadable
          /\ contentType = "json" /\ ~(Buffered /\ ValidJSON(request.content))
          /\ pc' = "error"
          /\ stream' = IF stream = "original" THEN "spent" ELSE "drained"
       \/ /\ NeedsBuffer /\ ~Unreadable
          /\ contentType = "json" => Buffered /\ ValidJSON(request.content)
          /\ pc' = "query syntax"
          /\ stream' = IF Buffered THEN "buffered" ELSE stream
    /\ candidate' = IF pc' = "error" THEN candidate ELSE target
    /\ UNCHANGED <<dto, request, contentType, target, parsed, binds>>

UsesQuery == Enabled("query") \/ Enabled("form")

CheckQuery ==
    /\ pc = "query syntax"
    /\ pc' = IF UsesQuery /\ ~request.syntax THEN "error" ELSE "uri"
    /\ UNCHANGED <<before, contentType, stream, parsed>>

-----------------------------------------------------------------------------
(* The shadows *)

Following(s) == IF s = "uri" THEN "header"
                ELSE IF s = "header" THEN "file"
                ELSE IF s = "file" /\ request.readOnly THEN "query"
                ELSE IF s = "file" THEN "form"
                ELSE IF s = "form" THEN "body" ELSE "commit"

Skip(s) == /\ ~Enabled(s)
           /\ pc' = Following(s)
           /\ UNCHANGED <<target, candidate, stream, parsed>>

\* A fresh shadow was filled and validated; its fields are copied.
Copy(s, value) ==
    /\ pc' = Following(s)
    /\ candidate' = [f \in dto |-> IF f \in Shadow(dto, s) THEN value ELSE candidate[f]]
    /\ UNCHANGED target

\* The shadow is filled from a place; a required value may be missing.
Take(s, place, quality) ==
    \/ quality = "good" /\ Copy(s, place)
    \/ quality = "absent" /\ Copy(s, "zero")
    \/ quality # "good" /\ Reject /\ UNCHANGED candidate

BindStrings(s, place) ==
    /\ pc = s
    /\ \/ Skip(s)
       \/ Enabled(s) /\ Take(s, place, request.input[place]) /\ UNCHANGED <<stream, parsed>>
    /\ UNCHANGED shadowed

BindURI == BindStrings("uri", "path")
BindHeader == BindStrings("header", "headers")
BindQuery == BindStrings("query", "query")

\* net/http reads the body of a form once, parses it and the raw query, and
\* caches what it could parse. An empty body is an empty form, but no multipart
\* message, of which a part is no use.
Unparsed == parsed = "no"
NoMessage == contentType = "multipart" /\ (request.content = "malformed" \/ stream # "buffered")
ParseFails == Unparsed /\ (request.content = "malformed" \/ ~request.syntax \/ NoMessage)
Parse == /\ stream' = IF Unparsed /\ stream = "buffered" THEN "drained" ELSE stream
         /\ parsed' = IF ~Unparsed \/ NoMessage THEN parsed
                      ELSE IF ParseFails THEN "partial" ELSE "whole"

BindFiles ==
    /\ pc = "file"
    /\ \/ Skip("file")
       \/ /\ Enabled("file")
          /\ request.readOnly \/ contentType # "multipart"
          /\ Take("file", "file", "absent")
          /\ UNCHANGED <<stream, parsed>>
       \/ /\ Enabled("file")
          /\ ~request.readOnly /\ contentType = "multipart"
          /\ Parse
          /\ IF ParseFails THEN Reject /\ UNCHANGED candidate
                           ELSE Take("file", "file", request.input["file"])
    /\ UNCHANGED shadowed

Posted == IF request.content = "none" THEN "absent" ELSE request.input["posted"]

\* gin merges the query into a URL-encoded form, not into a multipart one.
BindFormData(s) ==
    /\ Parse
    /\ IF ParseFails THEN Reject /\ UNCHANGED candidate
       ELSE IF contentType = "urlencoded" /\ Posted = "absent"
            THEN Take(s, "query", request.input["query"])
            ELSE Take(s, "posted", Posted)

BindForm ==
    /\ pc = "form"
    /\ \/ Skip("form")
       \/ Enabled("form") /\ IsForm /\ BindFormData("form")
       \/ /\ Enabled("form") /\ ~IsForm
          /\ Take("form", "query", request.input["query"])
          /\ UNCHANGED <<stream, parsed>>
    /\ UNCHANGED shadowed

\* Decoders stop after the first document. An empty body is an error to all of
\* them but TOML's.
DecodeDocument ==
    /\ stream' = IF stream = "buffered" THEN "drained" ELSE stream
    /\ UNCHANGED parsed
    /\ IF stream # "buffered"
       THEN \/ contentType = "toml" /\ Take("body", "document", "absent")
            \/ contentType # "toml" /\ Reject /\ UNCHANGED candidate
       ELSE \/ request.content # "malformed" /\ Take("body", "document", request.input["document"])
            \/ request.content # "one" /\ Reject /\ UNCHANGED candidate

BindBody ==
    /\ pc = "body"
    /\ \/ Skip("body")
       \/ Enabled("body") /\ IsForm /\ BindFormData("body")
       \/ Enabled("body") /\ ~IsForm /\ DecodeDocument
    /\ UNCHANGED shadowed

Commit ==
    /\ pc = "commit"
    /\ pc' = "ok"
    /\ target' = candidate
    /\ UNCHANGED <<dto, request, contentType, candidate, stream, parsed, binds>>

\* The handler binds the request again, into the same DTO or another one.
BindAgain ==
    /\ pc \in {"ok", "error"}
    /\ binds < MaxBinds
    /\ binds' = binds + 1
    /\ pc' = "plan"
    /\ \/ UNCHANGED <<dto, target, candidate>>
       \/ /\ dto' \in Dtos
          /\ target' = [f \in dto' |-> "initial"]
          /\ candidate' = target'
    /\ contentType' = "none"
    /\ UNCHANGED <<request, stream, parsed>>

-----------------------------------------------------------------------------
Next == \/ Prepare \/ SettleContentType \/ BufferBody \/ CheckQuery
        \/ BindURI \/ BindHeader \/ BindFiles \/ BindQuery \/ BindForm \/ BindBody
        \/ Commit \/ BindAgain

Spec == Init /\ [][Next]_vars

-----------------------------------------------------------------------------
(* Properties *)

TypeOK ==
    /\ dto \in Dtos
    /\ request \in Requests
    /\ pc \in {"plan", "content type", "buffer", "query syntax", "commit", "ok", "error"} \cup Sources
    /\ contentType \in MediaTypes \cup {"none"}
    /\ target \in [dto -> Values]
    /\ candidate \in [dto -> Values]
    /\ stream \in Streams
    /\ parsed \in {"no", "partial", "whole"}
    /\ binds \in 1..MaxBinds

\* The places a field's tags name on this request (README, "Binding and
\* validation"), unless a struct around it ignores them.
DeclaredPlaces(f) ==
    LET shown(t) == \A i \in DOMAIN f.path : t \notin f.path[i].ignored
        body == f.tags \cap BodyTags # {}
        form == IF request.readOnly THEN {"query"}
                ELSE IF request.type = "urlencoded" THEN {"posted", "query"}
                ELSE IF request.type = "multipart" THEN {"posted"} ELSE {"query"}
    IN  IF body /\ ~request.readOnly
        THEN (IF \E t \in BodyTags : ~shown(t) THEN {}
              ELSE IF request.type \in FormTypes THEN form ELSE {"document"})
        ELSE UNION {IF t = "uri" THEN {"path"}
                    ELSE IF t = "header" THEN {"headers"}
                    ELSE IF f.type = "file" THEN {"file"} ELSE form : t \in {u \in f.tags \cap StringTags : shown(u)}}

\* No field takes a value from a place its tags do not name (binder.go:331-391),
\* in no call for the same request; and none takes one from a raw query with a
\* syntax error, whose broken pairs net/http drops without a word, by whatever
\* way query values reach it (binder.go:680-685). Only where the form merges the
\* query into a DTO that has no use for it otherwise, the cache of an earlier
\* call that was refused for the error can hold its other pairs.
IsolatedSources ==
    /\ \A f \in dto : target[f] \in DeclaredPlaces(f) \cup {"zero", "initial"}
    /\ ~request.syntax => \A f \in dto : target[f] = "query" => binds > 1 /\ ~UsesQuery

\* A body is decoded only in an encoding every field filled from it declares, so
\* that no decoder falls back to Go field names (binder.go:632-633).
DeclaredFormatOnly ==
    pc = "ok" => \A f \in dto :
        target[f] = "document" /\ f.tags \cap BodyTags # {} => request.type \in f.tags

\* What is bound from a body was read whole, within the limit, and is one
\* document if it is JSON. A URL-encoded body that failed to parse stays in
\* net/http's cache in part, so only the first call can promise to refuse it.
OneWholeDocument ==
    \A f \in dto : target[f] \in {"document", "posted", "file"} =>
        /\ request.content \notin {"none", "over", "broken"}
        /\ request.content = "malformed" => target[f] = "posted" /\ binds > 1
        /\ target[f] = "document" /\ request.type = "json" => request.content = "one"

\* A body that no field of the DTO reads is left to the handler, unread; on GET
\* and HEAD always (binder.go:173-182).
BodyLeftAlone ==
    stream # "original" =>
        /\ ~request.readOnly
        /\ binds = 1 => \E f \in dto :
              f.tags \cap BodyTags # {} \/ ("form" \in f.tags /\ request.type \in FormTypes)

\* A failed call changes nothing, a successful one everything at once, and
\* every field whose source was consulted loses its old value: see AtomicBind.
Promise == INSTANCE AtomicBind
               WITH places <- [f \in dto |-> DeclaredPlaces(f)],
                    outcome <- IF pc \in {"ok", "error"} THEN pc ELSE "running"
AtomicBindKept == Promise!Spec
=============================================================================
