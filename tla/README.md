# A formal model of xgin

xgin adapts [Gin](https://github.com/gin-gonic/gin) to typed handlers: it binds a request into a DTO source by source,
validates it, and renders one complete response, below middleware for request IDs, access logs, errors and panics. This
directory holds TLA+ models of that program, the TLC configurations that check them on small instances, and theorems
about them that TLAPS checks for every value of the constants. The models are translated from the Go source; gin,
`net/http`, and the application's own code are modelled from how the source uses them and are marked external in
`PROJECT.json`, which also maps every definition to the lines it stands for.

## The system

| Component | State | Operations | Talks to |
| --- | --- | --- | --- |
| Finite rendering (`render.go`, `html.go`) | a private buffer: headers, status, bytes | `Render.Render`, the buffer's `Header`, `WriteHeader`, `Write`, `WriteHeaderNow` | renderer code, the connection's headers and body |
| Response (`response.go`) | a value, derived by copying | `With...`, `Render` (record errors, select a renderer) | `Render`, `c.Errors` |
| File responses (`render.go`) | none | `FileResponse.Render` | `http.ServeContent`, the connection |
| Request pipeline (`xgin.go`) | the request's gin context | `Handler`, `Wrap`, `AutoBind`, `Render`, `cleanupUploads` | binder, validator, mapper, handlers, outputs |
| Binder (`binder.go`) | the request body, a candidate DTO | `Prepare`, `Bind` | plan cache, gin's decoders and validator |
| Binding plans (`binder.go`) | a cache of compiled plans | `planFor`, `compilePlan` | `sync.Map`, `sync.Once` |
| Validator (`validator.go`) | a cache of type metadata | `Validate` | custom rules |
| RequestID, AccessLog, ErrorHandler, Recovery (`middleware/`) | the context; captured bodies | one handler each | the chain below them, loggers, the responder |
| Request body capture (`middleware/access_log.go`) | a bounded copy of a body | read-ahead, replay, observation, marker | the handler that reads the body |
| Response body capture (`middleware/access_log.go`) | a bounded copy of what was sent | `Write`, `WriteString`, `ReadFrom`, `Hijack`, redaction, marker | the handler that writes, the connection |
| Error mapper, token extractor, `Context`, configuration | none, or fixed at start | pure functions, forwarding | the pipeline |

A request runs in one goroutine; what is shared between requests is the plan cache, the metadata cache and the
response templates; `TypeCaches` and `ResponseTemplate` are about these. The hard part of the rest is not parallelism
but **interleaving with code xgin does not control**: renderers, handlers, outputs, mappers, responders and loggers
run between any two steps of the framework, touch the same response, and can return, fail or panic after any of their
own steps. Every model therefore lets that code take its steps one at a time, in any order, with its failure after any
of them.

What makes each part correct:

* **Rendering**: nothing reaches the connection before everything was encoded and checked; then exactly one commit, whose
  declared length is the length sent.
* **Pipeline**: one response from one writer; a failure leaves no header behind and ends in an error response, not in an
  empty 200; the request ID is on every response; uploads live as long as handler and output and no longer; the log says
  what was sent.
* **Request body capture**: the handler reads the stream it would have read without the log; the log shows a whole body
  or the true reason it does not; read-ahead is bounded.
* **Response body capture**: what the log shows is what the connection accepted, whatever was written how, and never the
  value of a sensitive key.
* **Binder**: all or nothing; each field only from the places its tags name; a body only whole, within the limit and in
  an encoding every field declares; a body nobody needs is left alone.
* **Plan and metadata caches**: one result per type, never seen half built.
* **Validator**: terminates on cyclic values; no reachable rule is skipped below the depth bound, which is exact; a fault
  of the server is not answered as one of the client.
* **Response templates**: a derived response never writes through to its template.

## The modules

| Module | Models | Shown to implement |
| --- | --- | --- |
| `CommitOnce` | the promise of a finite response | |
| `FiniteRender` | `Render.Render`, `Response.Render`, `htmlRenderer`, the redirect branch | `CommitOnce` |
| `FiniteRenderProofs` | theorems about it | |
| `OneResponse` | the promise of a request to its client | |
| `RequestPipeline` | the chain RequestID, AccessLog, ErrorHandler, Recovery, route handlers | `OneResponse` |
| `RequestPipelineProofs` | theorems about it | |
| `ByteStream` | the promise of a request body to its reader | |
| `BodyCapture` | passive and buffered capture of request bodies | `ByteStream` |
| `BodyCaptureProofs` | theorems about it | |
| `ResponseCapture` | capture and redaction of response bodies | |
| `ResponseCaptureProofs` | theorems about it | |
| `AtomicBind` | the promise of `Bind` to its caller | |
| `BindingPlan` | compilation of a DTO into shadows | |
| `Binder` | `Binder.Bind`, once or repeatedly | `AtomicBind` |
| `BinderProofs` | theorems about it | |
| `Validator` | `AutoBind`'s validation and the default status of its errors | |
| `ValidatorProofs` | theorems about it | |
| `SameAnswers` | the promise of a cache shared by concurrent calls | |
| `TypeCaches` | the plan cache and the metadata cache under concurrent requests | `SameAnswers` |
| `TypeCachesProofs` | theorems about it | |
| `ValueResponses` | the promise of a response template | |
| `ResponseTemplate` | maps, arrays and slices behind `With...` and `Render` | `ValueResponses` |
| `ResponseTemplateProofs` | the refinement, for any number of goroutines | |
| `MC...` | finite instances for TLC | |

`FiniteRender` and `RequestPipeline` compose through the contract: in the pipeline, `RenderFinite` is one step that does
what `CommitOnce` allows (a complete commit, a failure without a trace, or a failure of the connection after the commit),
and `FiniteRender` is proved to do nothing else. `OpenFile` and `StreamFile` keep the steps of a file response apart,
because its headers reach the connection before it is sent.

### FiniteRender

One rendering. `buf` is `renderBuffer`; `live` is the connection's header map; `out` is what the client was sent; `phase`
is the position in `Render.Render`. Header maps keep the spelling of their keys, because renderer code writes to the map
directly while `http.Header.Set` and `Del` only see canonical keys: a private `content-length` survives both and must be
caught by the syntax check. Values are reduced to *chosen by the application*, *invalid*, and *the length n*. The body is
a number of units. `RendererWrite` has a branch that does not mark the buffer as committed: `io.Copy` reaches the
`ReadFrom` promoted from the embedded `bytes.Buffer`, not `renderBuffer.Write`.

### RequestPipeline

`pc` is the code that runs next; `resume` is where `XGin.Render` returns to, since it is called from handlers, from the
mapper's branch and from the middle of a handler (`Context.Response`). The mapper of a rejected request is given the
whole gin context and may do to it what a handler may, short of `Context.Response`, before it returns an output or panics. Every header and body part
carries the writer it comes from, so that a leaked header or a second response is visible. `Bind` stands for binder and
validator together: `Binder` and `Validator` model them in detail. A panic is *normal* or *broken* (a broken connection
or `http.ErrAbortHandler`), as gin's recovery tells them apart. `unanswered` is a history variable: a failure happened
and no application code took over since. Application middleware between Recovery and the route handlers is the handler
kind `plain`.

Not in the model: a handler that calls `c.Next` itself, a hijacked connection, a handler that retains the context after
its return (the documentation forbids it), and middleware in another order than the README prescribes.

### BodyCapture

A byte is its position in the payload, so that a lost, repeated or reordered byte is a different sequence. The original
body may return fewer bytes than asked for, an error together with bytes, and an error that is repeated or not. `capture`
is `bodyCapture`; `prefix` and `pending` are the state of `replayReadCloser`. `erred`, `last`, `seen` and `late` record
what the handler observed.

### BindingPlan and Binder

A DTO is the set of its exported named fields with their tags; the embedded structs around a field are its path. Types are
reduced to what `fileType`, `checkNestedFiles` and `checkMappingType` decide about them. A bound value is the place of the
request it was read from (path, headers, query, posted form, file part, document), which is what isolation is about. The
request fixes, per place, whether its values are good, absent or bad; an absent value may be accepted or rejected, as the
field's own `required` decides. Methods are GET/HEAD and POST: for other write methods `net/http` parses no form body.
`stream` and `parsed` are the request's state between two calls of `Bind`: the body as `bufferBody` or a decoder left it
and the form `net/http` caches. `net/http` parses the raw query together with a form, fails if either is malformed, and
caches what it could parse of both; `Parse` models that, because a DTO whose only form use is a file, or a body field
inside a struct that ignores `form`, reaches it without xgin's own check of the query.

The body is `net/http`'s own, of which nothing can be read after `Close`: a body refused for its size stays refused
(`Unreadable`). A body that a buffering access log has read ahead does not keep that (divergence 3 below): a second
`Bind` of such a request could read what is left of the prefix. `Binder` and `BodyCapture` are not composed, and
`OneWholeDocument` claims nothing for that combination.

### Validator

The value is a graph of pointers, structs, slices, maps and plain values that may lead back to each other. The recursion
of `walk` is an explicit stack, so that a visit, a rule and a return are steps of their own; the entries of a map are
visited in any order. Binding comes first and its error ends the request; a rule passes, fails or panics, with an error of
any of the kinds `errors.Is` and `errors.As` tell apart. `MapRequestError` gives that error the status of the
table in `error.go`, and decides whether it is recorded.

What the walk is compared with is defined without it: `ReachedFrom` is the least set of nodes that contains the children
of a node and is closed under children; `Unwrapped` removes wrappers one by one, up to the limit; `Nested` lists what is
nested one, two, ... objects deep. A visit of the shared parts of a value is repeated in the program and in the model,
while these definitions only know nodes.

### TypeCaches

A request is a goroutine that binds one type and validates it. Entries, plans and metadata objects are named after the
request that allocated them, so that a second object for one type is visible; a plan is the number of stages compiled into
it and metadata the number of fields listed, so that one used half built is. `LoadOrStore`, `Load`, `Store` and the lock of
the `Once` are atomic; everything between is a step of its own.

### ResponseCapture

A document is a tree of objects, arrays and scalars, or a form, and a byte is its position in it. The handler hands it over
in pieces and in any of the three ways, the connection accepts all, some or none of a piece, and the handler may skip what
was refused, take the connection over, or change the content headers between two writes. At the end the record shows the
document, redacted, or a marker. The headers either describe the document or are *unsafe*: compressed, an attachment, or of
a type that is not logged; a handler that declares a wrong type for what it sends is outside the model. A response that
stops early can leave a prefix in the log: `parses` lists the lengths at which it is a JSON document or a form, and at any
other the record says *invalid json* or *invalid form* (a form is cut inside an escape). `Flush` only
forwards and has no action; a handler that writes to the writer `Unwrap` returns passes capture by, and is not modelled.
`Visible` recurs over the document as `redactJSON` does. `Secrets`, which it is compared with, is a least set: the nodes
with a redaction key, and all that is in them.

### ResponseTemplate

Memory is explicit: maps from names to slices, arrays of cells, and an owner for each. Goroutines derive from one shared
template or from what they derived, render, and change in place the maps that are theirs alone: the one they passed to
`WithHeaders`, that of their connection, and that of a response after its headers were cloned for it. Every slice the
application builds has one free cell, the worst case for `append`; what `http.Header.Clone` builds has none, because it
limits the capacity of every slice. `ValueResponses` counts the free cells of the template as part of it: a write there
would be a data race between two requests even where no one reads the cell.

## The runs

| Run | Checks | Bounds, and why they are enough |
| --- | --- | --- |
| `finite_render` | types, framing, header validity, status agreement, recorded causes, HEAD redirects, `CommitOnce` | four header keys (one of them in two spellings), bodies of up to two units (empty, and a body whose write can stop in the middle), a valid, a bodyless and an invalid status, every kind of response |
| `finite_render_framing` | finds `FramingManaged` violated | as above |
| `request_pipeline` | types, answered failures, surviving request ID, no leaked or stale headers, truthful log, upload lifetime, `OneResponse` | the chains typed, plain-wrap and empty; two outputs per request, so that one can fail or be sent before the other; headers by purpose: request ID, content, other |
| `request_pipeline_live` | every request ends | a typed handler behind application middleware, one output |
| `request_pipeline_broken` | finds `BrokenConnectionLeftAlone` violated | as above |
| `body_capture` | types, whole bodies in the log, bounded read-ahead, true markers, `ByteStream` | limit 2, bodies of 0 to 5 bytes (below, at, one above, and further above the limit), failures at every position, reads of up to 3 bytes |
| `body_capture_close` | finds `CloseBehaviorKept` violated | as above |
| `binder` | types, isolation, declared formats, whole documents, bodies left alone, `AtomicBind` | twelve DTOs (each kind of field, embedded and ignored ones, six refused layouts), every method, media type and body, well-formed and malformed queries, one place absent or bad at a time, two calls per request |
| `response_capture` | types, logged as sent, no secret logged | limit 4, pieces of up to 3 bytes (two of them pass the limit), documents of 0 to 6 bytes, every tree of four nodes with every set of sensitive keys, forms of two values; JSON never valid, valid whole, or one byte earlier; forms that do not parse when cut in an escape |
| `type_caches` | types, one compilation, everyone returns, `SameAnswers` | three requests (one that compiles, one that waits, one that comes later) and three types: usable, refused in its second stage, and without fields; three stages, two fields |
| `validator` | types, nothing skipped, exact depth, faults attributed, termination | graphs of five nodes in which pointers, slices, maps and structs lead anywhere, limits 1 and the default, here 2 (reached by `NewValidator(0)`), every placement of a failing and a panicking rule |
| `response_template` | `ValueResponses` | two goroutines, two header names (one set in the template, one not), four steps: a derivation, a change and a render by one goroutine around a step of the other |

Deadlock checking is off in all of them: a rendering, a request, a validation and a log record end, and `response_template`
stops at its bound. `request_pipeline_live`, `type_caches`, `validator` and the refinements say how they may end.

**Fairness.** `request_pipeline_live` and `request_pipeline_broken` assume weak fairness of the framework's own
steps, which one goroutine runs without blocking, and of the end of application code, which xgin calls synchronously. A
handler that never returns hangs its request in Go, too; nothing is claimed for it. A handler may take any finite number of
steps before it ends. `type_caches` assumes weak fairness of every request: the Go scheduler runs each runnable goroutine,
and a goroutine that waits for a `sync.Once` is runnable as soon as it is done. `validator` assumes weak fairness of its one
goroutine, and that rules return or panic. The other runs assume none.

**Mutants.** Definitions named `Mutant...` are faults a change could introduce (a dropped check, a missing reset, an early
record). Nothing uses them; for each property `PROJECT.json` names the definition to replace by one of them so that TLC
finds the property violated.

## Where documentation and code differ

1. `render.go:32` says that framing is managed by the implementation. `Transfer-Encoding` and, for a bodyless status,
   `Content-Length` are deleted from the private buffer only; one that an earlier handler left in the connection's headers
   is committed with the response (`FramingManaged`).
2. `error_handler.go:24` says broken connections are left alone. The content headers are cleared before the errors are
   looked at (`BrokenConnectionLeftAlone`). Nothing is sent because of it.
3. `access_log.go:257` says capture does not change Close behavior. The read-ahead prefix can still be read after `Close`
   (`CloseBehaviorKept`).

Modelling also showed a behaviour no documentation speaks about: when a malformed URL-encoded body was rejected, a second
`AutoBind` of the same request succeeds with the pairs `net/http` cached before the error. `OneWholeDocument` states the
promise for the first call. The same cache lets a second `AutoBind` take well-formed pairs of a malformed query, if the
DTO has no use for the query but the merge of `net/http`; `IsolatedSources` names that exception, and no other is reachable.
The theorems about both properties carry the same exceptions.

## What is proved

All theorems are about the specifications as they stand, for every value of their constants that satisfies the named
assumptions.

* `FiniteRenderProofs` proves `TypeCorrect`, `FramingCorrect`, `HeadersCorrect`, `StatusCorrect`, `CausesCorrect`,
  `HeadCorrect` and `PromiseCorrect` from `KeysAssumption` and `InputAssumption`. The inductive invariant is
  `RenderInv`: what was committed stays tied to the buffer it came from (`CommitInv`), because the properties compare
  `out` with a buffer that later steps must not touch; and the connection's headers are clean, because the committed
  map contains them. The refinement maps every step to a step of `CommitOnce` or a stutter; header preparation is a
  stutter exactly because `Fail` leaves `live` alone. `SelectedInv` adds that errors are recorded before anything
  else, and that only a redirect's own step produces its body.
* `RequestPipelineProofs` proves `TypeCorrect`, `NoLeakedHeadersCorrect`, `RequestIDCorrect` and `OneResponseCorrect` from
  `PipelineAssumption`, for every chain of handlers and every number of outputs. None of these is inductive as it stands.
  `PipelineInv` adds: where `XGin.Render` is entered from and returns to (`RendersInv`; every output aborts the request, so
  no route handler is entered after one); that a response sent while an output or the responder runs is its own
  (`SenderInv`); and that, as long as nothing was sent, an output's headers are in the connection's map only while that
  output is rendered, and never in the clone that is restored (`HeadersInv`). The refinement of `OneResponse` needs
  `SenderInv`: a body part added to a sent response comes from its own sender or from a handler writing for itself.
* The same module builds on that invariant and proves `FailureAnsweredCorrect`, `LogCorrect`, `UploadCorrect` and
  `RepresentationCorrect`. `OutcomeInv` adds, for every position in the chain: whether a failure is still unanswered, and
  that status, errors and abort then lead `ErrorHandler` to the responder (`FailInv`); what the log will find to report
  (`LogInv`); whether the deferred cleanup of this handler is still ahead (`UploadInv`); and whose content headers may be
  in the map (`ContentInv`).
* `BodyCaptureProofs` proves `TypeCorrect`, `LoggedWholeCorrect`, `MarkersCorrect`, `ReadAheadCorrect` and `StreamCorrect`
  from `CaptureAssumption`: for bodies of any length, any limit and reads of any size. `ReadingInv` accounts for every
  byte: what the source gave out is what the handler saw followed by the unread prefix, and the copy is a prefix
  of what the source gave out, whole unless it is marked.
* `ResponseCaptureProofs` proves `LoggedCorrect`, `SecretsHidden` and `CaptureTyped` from `ResponseAssumption`. `CaptureInv`
  says that, until capture is given up, the copy is what the connection accepted, or is cut at the limit and says so, and
  that it is marked as failed exactly when the connection refused a byte. `ResponseInv` adds that every byte is one of the
  document, and what the record shows. For the latter the recursion of `redactJSON` has to be understood for documents of
  every depth: `VisibleDef` shows that its equation has a solution, the scalars among the nodes visited from a node on
  (`Visited`, a least set again), `VisibleFacts` that it has no other, and `VisitedRoot` that from the root exactly the
  nodes outside `Secrets` are visited.
* `ValidatorProofs` proves `ValidatorTyped`, `AcceptanceComplete`, `DepthCorrect` and `FaultsCorrect` from
  `ValidatorAssumption`, for values of any shape and size, cyclic ones included, and every limit. None but the types is
  inductive: while the walk is under way, what it has seen is spread over the stack. `ValidatorInv` says that what was
  checked passed its rule (`Passed`); that an object on the stack was checked and is nested as deep as its place there says
  (`Placed`); that the node in hand is as many wrappers away from such a child as were counted (`Walking`); and that
  there is a record of the walk so far (`Recorded`): sets W[0], W[1], ... of objects, by depth, that passed their rules,
  in which every child of a recorded object is nil, recorded one level deeper, or still ahead of a call on the stack. When
  the stack is empty, nothing is ahead, and the record shows that every reachable object was checked
  (`RecordComplete`), that nothing is nested too deep (`RecordWithin`), and that no object leads back to itself, since it
  would be recorded at ever greater depths (`RecordAcyclic`). For the depth error, `Placed` gives a chain of nesting from
  the root to the node in hand.
* `BinderProofs` proves `TypeCorrect`, `IsolatedCorrect`, `FormatCorrect`, `WholeCorrect`, `LeftAloneCorrect` and
  `AtomicCorrect` from `PlanAssumption` and `BinderAssumption`: for every set of DTOs and requests and any number of
  calls. Except for types none is inductive, since the target changes only at the end. `BinderInv` therefore says the
  same of the candidate (`AllowedInv`), and adds what the earlier steps of the call settled (`PlanInv`), what is left
  of the body (`StreamInv`), what the form cache can hold for later calls (`FormInv`), and which fields of the
  candidate are still those of the target (`CandidateInv`). The refinement needs `PlacesShadow`, a lemma about
  compilation: a field declares a place for this request exactly when one of the shadows that bind it contains the
  field.
* `TypeCachesProofs` proves `TypeCorrect`, `CompiledOnceCorrect` and `AnsweredCorrect` from `CachesAssumption`, for any number of
  requests and types. `CachesInv` says who is between the steps of a compilation (`OnceInv`, `CompileInv`), that a released
  entry holds the outcome of its type for good (`ReleasedInv`), and that metadata is complete before another request can
  find it (`MetaInv`); the refinement needs all of it, because an answer is what a request read, not what it computed.

* `ResponseTemplateProofs` proves `ValuesCorrect` from `TemplateAssumption`: `ResponseTemplate` implements `ValueResponses`
  for any number of goroutines, header names and steps, where a run reaches four steps of two goroutines. What a step of
  one goroutine leaves alone is the whole difficulty, since every step writes to maps and arrays all goroutines share.
  `TemplateInv` therefore says who owns what: every slice is within its array (`ArraysInv`, `MapsInv`); an array of header
  values belongs to one map and one name in it, and never holds errors (`OwnedInv`); a response refers to the template's
  map or to one made for its goroutine, and a map that may be changed in place is referred to once (`ResponsesInv`). From
  it, `Growth` and `Overwrite` show that a step changes at most one map that existed, and no array of errors (`Limited`),
  `Same` that all that does not refer to that map shows what it did, and `OwnFacts` that this is everything but the one
  response or header map the abstract step changes.

Induction is carried out by hand in `ResponseCaptureProofs` and `ValidatorProofs`: a set of numbers has a least and a greatest element
(`LeastNatural`, `GreatestNatural`, from the library's `NatLessThanWellFounded`), so a claim about all numbers or nodes
fails at a first or a last one, if anywhere. The equations of `Unwrapped`, `Nested` and `Visible` are proved in the same
way before anything is said of their values, because a recursive function is, to the prover, whatever satisfies its
equation if anything does.

Only model-checked: liveness (`Answered`, `Returned`, `Terminates`), since TLAPS does not reason about `ENABLED`, on which
fairness rests.

## Not modelled, and the plan

Not modelled, because nothing in them depends on an order of steps or on state: the token extractor, the grammars of JSONP
callbacks and of accepted request IDs (pure scans of one string), the slog adapter and the layout of log records
(formatting), the redaction of logged headers (a copy), configuration checks at start (straight line code before any
request), the MessagePack build variants, and `http.ServeContent`'s ranges, which are the standard library's. In
`BindingPlan`, nested types are reduced to what `checkMappingType` decides about them.

Next: the grammars and the redaction of headers, as operators against reference definitions.
