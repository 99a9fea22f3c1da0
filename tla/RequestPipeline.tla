--------------------------- MODULE RequestPipeline ---------------------------
(***************************************************************************)
(* One request through the chain the README prescribes:                    *)
(*     RequestID -> AccessLog -> ErrorHandler -> Recovery -> routes        *)
(* (xgin.go, middleware/*.go). One goroutine runs it; what makes it hard   *)
(* is that application code - handlers, mappers, outputs, error responders,*)
(* loggers - runs at many points of it, can touch the response anywhere,   *)
(* and can return, fail or panic after any of its steps.                   *)
(*                                                                         *)
(* gin is modelled from its use: Next walks the handlers until one aborts, *)
(* WriteHeader selects a status and has no effect once the response is     *)
(* written, the first Write or WriteHeaderNow sends status and headers, and*)
(* the engine does so itself at the end of a request nobody answered.      *)
(*                                                                         *)
(* Every header and every part of the body carries the writer it comes     *)
(* from: Raw for application code writing on its own, 1, 2, ... for the    *)
(* outputs given to XGin.Render, then the writers of errors and the engine.*)
(* Mutant... definitions are faults the property they name detects.        *)
(***************************************************************************)
EXTENDS Naturals, Sequences

CONSTANTS Chains,       \* the route handlers of a request, in order
          MaxRenders    \* BOUND: outputs given to XGin.Render in a request

ASSUME PipelineAssumption ==
    /\ Chains \subseteq Seq({"typed", "wrap", "plain"})
    /\ MaxRenders \in Nat \ {0}

VARIABLES pc,        \* the code that runs next
          resume,    \* where XGin.Render returns to
          chain,     \* the route handlers
          route,     \* index of the route handler entered last
          aborted,   \* c.IsAborted()
          status,    \* c.Writer.Status()
          header,    \* c.Writer.Header(): name -> writer of its value
          saved,     \* XGin.Render's clone of the headers
          renders,   \* calls of XGin.Render that reached an output
          wire,      \* what the client was sent
          errs,      \* kinds of errors in c.Errors
          panic,     \* the panic unwinding the stack, if any
          uploads,   \* multipart temporary files of the request
          config,    \* AccessLog emits completions; ErrorHandler has a Respond
          log,       \* AccessLog's completion record
          unanswered \* a failure was left to the error middleware

vars == <<pc, resume, chain, route, aborted, status, header, saved, renders, wire, errs, panic,
          uploads, config, log, unanswered>>

-----------------------------------------------------------------------------
(* Data *)

Raw == 0
Attempts == 1..MaxRenders
Responder == MaxRenders + 1   \* the response chosen by ErrorHandlerConfig.Respond
Fallback == MaxRenders + 2    \* ErrorHandler's own empty 500
Engine == MaxRenders + 3      \* gin, for a request nobody answered
Nobody == MaxRenders + 4
Writers == 0..(MaxRenders + 3)

\* "rid" is the request ID; "content" stands for the headers that describe a
\* representation (clearContentHeaders), "other" for any other header.
Names == {"rid", "content", "other"}
Statuses == {200, 400, 500}
ErrorKinds == {"failure", "broken", "cleanup"}

HeaderMaps == UNION {[S -> Writers] : S \in SUBSET Names}
NoHeader == [n \in {} |-> Raw]
SetHeader(h, n, w) == [x \in DOMAIN h \cup {n} |-> IF x = n THEN w ELSE h[x]]

\* NoStaleRepresentation: the headers of the failed representation are kept.
MutantKeepContent(h) == h

ClearContentHeaders(h) == [x \in DOMAIN h \ {"content"} |-> h[x]]
Added(h, names, w) == [x \in DOMAIN h \cup names |-> IF x \in names THEN w ELSE h[x]]

NoResponse == [by |-> Nobody, status |-> 0, header |-> NoHeader, parts |-> {}]
NoRecord == [status |-> 0, errs |-> {}]
Configs == [finish : BOOLEAN, respond : BOOLEAN]

Written == wire.by # Nobody

\* Send the status and headers, with or without a body part of the same writer.
Sent(w, s, h, parts) == [by |-> w, status |-> s, header |-> h, parts |-> parts]

Init == /\ pc = "request id"
        /\ resume = "none"
        /\ chain \in Chains
        /\ route = 0
        /\ aborted = FALSE
        /\ status = 200
        /\ header = NoHeader
        /\ saved = NoHeader
        /\ renders = 0
        /\ wire = NoResponse
        /\ errs = {}
        /\ panic = "none"
        /\ uploads = "none"
        /\ config \in Configs
        /\ log = NoRecord
        /\ unanswered = FALSE

\* The state in the groups that steps leave alone together.
static == <<chain, config>>
control == <<resume, route, aborted>>
response == <<status, header, wire>>
rendering == <<saved, renders>>
outcome == <<errs, unanswered>>
others == <<panic, uploads, log>>

-----------------------------------------------------------------------------
(* RequestID and the start of AccessLog *)

\* The identifier is stored before anything else runs. The generator is
\* application code outside Recovery: its panic tears the connection down.
AssignRequestID ==
    /\ pc = "request id"
    /\ \/ pc' = "log start" /\ header' = SetHeader(header, "rid", Raw)
       \/ pc' = "torn down" /\ UNCHANGED header
    /\ UNCHANGED <<static, control, status, wire, rendering, outcome, others>>

\* Resolve, ShouldLog and Logger.Log are application code outside Recovery.
LogStart ==
    /\ pc = "log start"
    /\ pc' \in {"dispatch", "torn down"}
    /\ UNCHANGED <<static, control, response, rendering, outcome, others>>

-----------------------------------------------------------------------------
(* gin's Next, entering the route handlers *)

MoreHandlers == ~aborted /\ route < Len(chain)

\* Answered: the handler index is not advanced.
MutantSameHandler(r) == IF r = 0 THEN 1 ELSE r

Advance(r) == r + 1

Dispatch ==
    /\ pc = "dispatch"
    /\ \/ /\ MoreHandlers
          /\ route' = Advance(route)
          /\ pc' = IF chain[route'] = "typed" THEN "bind" ELSE "handler"
       \/ ~MoreHandlers /\ pc' = "errors" /\ UNCHANGED route
    /\ UNCHANGED <<static, resume, aborted, response, rendering, outcome, others>>

-----------------------------------------------------------------------------
(* Handler and Wrap *)

Adapted == chain[route] \in {"typed", "wrap"}

\* AutoBind: the binder may spill uploads to temporary files before it or the
\* validator accepts or rejects the request; both may be application code.
Bind ==
    /\ pc = "bind"
    /\ uploads' \in {uploads, "held"}
    /\ \/ pc' \in {"handler", "map error"} /\ UNCHANGED panic
       \/ pc' = "cleanup" /\ panic' \in {"normal", "broken"}
    /\ UNCHANGED <<static, control, response, rendering, outcome, log>>

\* The mapper, application code that is given the request's context, chooses
\* the output for a rejected request, or panics.
MapRequestError ==
    /\ pc = "map error"
    /\ \/ pc' = "render" /\ resume' = "cleanup" /\ UNCHANGED panic
       \/ pc' = "cleanup" /\ panic' \in {"normal", "broken"} /\ UNCHANGED resume
    /\ UNCHANGED <<static, route, aborted, response, rendering, outcome, uploads, log>>

\* UploadLifetime: temporary files are released only by a normal return.
MutantCleanupOnReturn == uploads = "held" /\ panic = "none"

HasUploads == uploads = "held"

\* The deferred cleanup, run however the handler ends.
CleanupUploads ==
    /\ pc = "cleanup"
    /\ \/ HasUploads /\ uploads' = "removed" /\ UNCHANGED errs
       \/ HasUploads /\ errs' = errs \cup {"cleanup"} /\ UNCHANGED uploads
       \/ ~HasUploads /\ UNCHANGED <<uploads, errs>>
    /\ pc' = IF panic = "none" THEN "dispatch" ELSE "recover"
    /\ UNCHANGED <<static, control, response, rendering, unanswered, panic, log>>

-----------------------------------------------------------------------------
(* Application code: in a handler or the mapper of a rejected request, in a*)
(* custom output, and in the error responder with its output. Any sequence *)
(* of these steps, then its end.                                           *)

InHandler == pc \in {"handler", "map error"}
InApplication == InHandler \/ pc \in {"output", "responder"}
Author == IF pc = "output" THEN renders ELSE IF pc = "responder" THEN Responder ELSE Raw

AppSetHeader ==
    /\ InApplication
    /\ \E n \in {"content", "other"} : header' = SetHeader(header, n, Author)
    /\ UNCHANGED <<pc, static, control, status, wire, rendering, outcome, others>>

\* c.Status. A handler or mapper that selects a status takes over from a failure.
AppSetStatus ==
    /\ InApplication
    /\ ~Written
    /\ status' \in Statuses
    /\ unanswered' = (unanswered /\ ~InHandler)
    /\ UNCHANGED <<pc, static, control, header, wire, rendering, errs, others>>

\* c.Writer.Write, or WriteHeaderNow when no part is written.
AppWrite ==
    /\ InApplication
    /\ \E parts \in SUBSET {Author} :
          wire' = IF Written THEN [wire EXCEPT !.parts = @ \cup parts]
                             ELSE Sent(Author, status, header, parts)
    /\ unanswered' = FALSE
    /\ UNCHANGED <<pc, static, control, status, header, rendering, errs, others>>

AppRecordError ==
    /\ InApplication
    /\ \E e \in {"failure", "broken"} : errs' = errs \cup {e}
    /\ UNCHANGED <<pc, static, control, response, rendering, unanswered, others>>

AppAbort ==
    /\ InApplication
    /\ aborted' = TRUE
    /\ UNCHANGED <<pc, static, resume, route, response, rendering, outcome, others>>

\* A handler or mapper that parses a multipart form itself.
AppParseForm ==
    /\ InHandler
    /\ uploads = "none"
    /\ uploads' = "held"
    /\ UNCHANGED <<pc, static, control, response, rendering, outcome, panic, log>>

\* Context.Response, from the middle of a handler.
AppRespond ==
    /\ pc = "handler"
    /\ renders < MaxRenders - 1
    /\ pc' = "render"
    /\ resume' = "handler"
    /\ UNCHANGED <<static, route, aborted, response, rendering, outcome, others>>

\* The output a typed or wrapped handler returns goes to XGin.Render, too.
HandlerReturns ==
    /\ pc = "handler"
    /\ \/ Adapted /\ pc' = "render" /\ resume' = "cleanup"
       \/ ~Adapted /\ pc' = "dispatch" /\ UNCHANGED resume
    /\ UNCHANGED <<static, route, aborted, response, rendering, outcome, others>>

HandlerPanics ==
    /\ pc = "handler"
    /\ panic' \in {"normal", "broken"}
    /\ pc' = IF Adapted THEN "cleanup" ELSE "recover"
    /\ UNCHANGED <<static, control, response, rendering, outcome, uploads, log>>

\* A custom output returns nil, returns an error, or panics; nil without a
\* committed response is a failure, too.
OutputEnds ==
    /\ pc = "output"
    /\ \/ Written /\ pc' = resume
       \/ pc' = "failed"
    /\ UNCHANGED <<static, control, response, rendering, outcome, others>>

-----------------------------------------------------------------------------
(* XGin.Render *)

RejectSecondOutput ==
    /\ pc = "render"
    /\ Written
    /\ aborted' = TRUE
    /\ errs' = errs \cup {"failure"}
    /\ pc' = resume
    /\ UNCHANGED <<static, resume, route, response, rendering, unanswered, others>>

\* The output is a finite response, a file, custom code, or unusable: nil, or
\* its transformation panics.
BeginOutput ==
    /\ pc = "render"
    /\ ~Written
    /\ aborted' = TRUE
    /\ saved' = header
    /\ renders' = renders + 1
    /\ pc' \in {"finite", "file", "output", "failed"}
    /\ UNCHANGED <<static, resume, route, response, outcome, others>>

\* Send the output of the current attempt.
Commit(s, names, parts) ==
    /\ status' = s
    /\ header' = Added(header, names, renders)
    /\ wire' = Sent(renders, s, header', parts)
    /\ unanswered' = FALSE

\* A finite response keeps CommitOnce's promise: it is sent complete, fails
\* with nothing changed, or fails on the connection while its body is sent.
\* Its internal errors are recorded before it is encoded.
RenderFinite ==
    /\ pc = "finite"
    /\ \E causes \in SUBSET {"failure"} : errs' = errs \cup causes
    /\ \/ /\ \E s \in Statuses, names \in SUBSET {"content", "other"}, parts \in SUBSET {renders} :
                Commit(s, names, parts)
          /\ pc' \in {resume, "failed"}
       \/ pc' = "failed" /\ UNCHANGED <<response, unanswered>>
    /\ UNCHANGED <<static, control, rendering, others>>

\* FileResponse.Render applies its headers to the connection once the file is
\* open; http.ServeContent then always sends a response.
OpenFile ==
    /\ pc = "file"
    /\ \/ pc' = "stream" /\ header' = Added(header, {"content", "other"}, renders)
       \/ pc' = "failed" /\ UNCHANGED header
    /\ UNCHANGED <<static, control, status, wire, rendering, outcome, others>>

StreamFile ==
    /\ pc = "stream"
    /\ \E s \in Statuses, parts \in SUBSET {renders} : Commit(s, {"content"}, parts)
    /\ pc' \in {resume, "failed"}
    /\ UNCHANGED <<static, control, rendering, errs, others>>

\* NoLeakedHeaders: the headers of a failed output are left in place.
MutantUnrestored == header

\* RequestIDSurvives: the headers are cleared, but not restored.
MutantCleared == NoHeader

Restored == saved

\* FailureAnswered: a failure keeps the status that was selected before.
MutantKeptStatus == status

\* TypeOK: the status is reset instead of being selected.
MutantNoStatus == 0

FailedStatus == 500

\* An output failed or panicked: restore what it changed unless it was sent.
FailOutput ==
    /\ pc = "failed"
    /\ \/ /\ ~Written
          /\ header' = Restored
          /\ status' = FailedStatus
          /\ unanswered' = TRUE
       \/ Written /\ UNCHANGED <<header, status, unanswered>>
    /\ \E e \in {"failure", "broken"} : errs' = errs \cup {e}
    /\ pc' = resume
    /\ UNCHANGED <<static, control, wire, rendering, others>>

-----------------------------------------------------------------------------
(* Recovery *)

\* gin leaves the status alone for a broken connection or an abort.
Recover ==
    /\ pc = "recover"
    /\ aborted' = TRUE
    /\ \/ /\ panic = "broken"
          /\ errs' = errs \cup {"broken"}
          /\ UNCHANGED <<status, unanswered>>
       \/ /\ panic = "normal"
          /\ errs' = errs \cup {"failure"}
          /\ status' = IF Written THEN status ELSE 500
          /\ unanswered' = (unanswered \/ ~Written)
    /\ panic' = "none"
    /\ pc' = "errors"
    /\ UNCHANGED <<static, resume, route, header, wire, rendering, uploads, log>>

-----------------------------------------------------------------------------
(* ErrorHandler *)

\* OneResponse: a response already sent is not noticed.
MutantEvenWritten == status >= 500 /\ errs # {}

NeedsResponse == ~Written /\ status >= 500 /\ errs # {}

LeaveAlone ==
    /\ pc = "errors"
    /\ ~NeedsResponse
    /\ pc' = "log"
    /\ UNCHANGED <<static, control, response, rendering, outcome, others>>

\* The content headers are cleared before the errors are looked at.
LeaveBrokenConnection ==
    /\ pc = "errors"
    /\ NeedsResponse
    /\ "broken" \in errs
    /\ aborted' = TRUE
    /\ header' = ClearContentHeaders(header)
    /\ pc' = "log"
    /\ UNCHANGED <<static, resume, route, status, wire, rendering, outcome, others>>

SendFallback(h) ==
    /\ header' = h
    /\ status' = 500
    /\ wire' = Sent(Fallback, 500, h, {})
    /\ unanswered' = FALSE

BeginErrorResponse ==
    /\ pc = "errors"
    /\ NeedsResponse
    /\ "broken" \notin errs
    /\ aborted' = TRUE
    /\ \/ /\ config.respond
          /\ pc' = "responder"
          /\ header' = ClearContentHeaders(header)
          /\ UNCHANGED <<status, wire, unanswered>>
       \/ /\ ~config.respond
          /\ pc' = "log"
          /\ SendFallback(ClearContentHeaders(header))
    /\ UNCHANGED <<static, resume, route, rendering, errs, others>>

\* The responder's output was sent; or the responder returned nil, or one of
\* them failed or panicked, or nothing was sent.
ErrorResponseEnds ==
    /\ pc = "responder"
    /\ \/ /\ Written
          /\ pc' = "log"
          /\ UNCHANGED <<response, outcome>>
       \/ /\ errs' = errs \cup {"failure"}
          /\ pc' = "log"
          /\ \/ Written /\ UNCHANGED <<response, unanswered>>
             \/ ~Written /\ SendFallback(ClearContentHeaders(header))
    /\ UNCHANGED <<static, control, rendering, others>>

-----------------------------------------------------------------------------
(* The end of AccessLog, and gin's engine *)

\* LogMatchesWire: only a status that was already sent is reported.
MutantSentStatus == wire.status

LoggedStatus == status

LogFinish ==
    /\ pc = "log"
    /\ log' = IF config.finish THEN [status |-> LoggedStatus, errs |-> errs] ELSE log
    /\ pc' \in {"engine"} \cup (IF config.finish THEN {"torn down"} ELSE {})
    /\ UNCHANGED <<static, control, response, rendering, outcome, panic, uploads>>

EngineWritesHeader ==
    /\ pc = "engine"
    /\ ~Written
    /\ wire' = Sent(Engine, status, header, {})
    /\ UNCHANGED <<pc, static, control, status, header, rendering, outcome, others>>

EngineEnds ==
    /\ pc = "engine"
    /\ Written
    /\ pc' = "done"
    /\ UNCHANGED <<static, control, response, rendering, outcome, others>>

-----------------------------------------------------------------------------
Application == \/ AppSetHeader \/ AppSetStatus \/ AppWrite \/ AppRecordError
               \/ AppAbort \/ AppParseForm \/ AppRespond

ApplicationEnds == \/ HandlerReturns \/ HandlerPanics \/ MapRequestError
                   \/ OutputEnds \/ ErrorResponseEnds

Framework == \/ AssignRequestID \/ LogStart \/ Dispatch
             \/ Bind \/ CleanupUploads
             \/ RejectSecondOutput \/ BeginOutput \/ RenderFinite \/ OpenFile \/ StreamFile \/ FailOutput
             \/ Recover
             \/ LeaveAlone \/ LeaveBrokenConnection \/ BeginErrorResponse
             \/ LogFinish \/ EngineWritesHeader \/ EngineEnds

Next == Application \/ ApplicationEnds \/ Framework

Spec == Init /\ [][Next]_vars

\* The framework's code runs to its next call; application code, being
\* synchronous, is assumed to end whatever it did before.
FairSpec == Spec /\ WF_vars(Framework) /\ WF_vars(ApplicationEnds)

-----------------------------------------------------------------------------
(* Properties *)

Ended == {"done", "torn down"}
WireType == [by : Writers \cup {Nobody}, status : Statuses \cup {0}, header : HeaderMaps, parts : SUBSET Writers]
RecordType == [status : Statuses \cup {0}, errs : SUBSET ErrorKinds]

TypeOK ==
    /\ pc \in {"request id", "log start", "dispatch", "bind", "handler", "map error", "cleanup", "render",
               "finite", "file", "stream", "output", "failed", "recover", "errors", "responder", "log",
               "engine"} \cup Ended
    /\ resume \in {"none", "handler", "cleanup"}
    /\ chain \in Chains
    /\ route \in 0..Len(chain)
    /\ aborted \in BOOLEAN
    /\ status \in Statuses
    /\ header \in HeaderMaps
    /\ saved \in HeaderMaps
    /\ renders \in 0..MaxRenders
    /\ wire \in WireType
    /\ errs \in SUBSET ErrorKinds
    /\ panic \in {"none", "normal", "broken"}
    /\ uploads \in {"none", "held", "removed"}
    /\ config \in Configs
    /\ log \in RecordType
    /\ unanswered \in BOOLEAN

\* A failed output, or a panic, never ends as a success nobody chose: unless
\* application code took over, or the connection is broken, the client gets a
\* response of ErrorHandler (xgin.go:145-147, recovery.go:34-35).
FailureAnswered ==
    unanswered => /\ pc \in {"errors", "log", "engine", "done"} => status = 500 /\ errs # {}
                  /\ pc \in {"log", "engine", "done"} => "broken" \in errs

\* The identifier set by RequestID reaches the client with every response,
\* after any number of failed outputs and cleared headers.
RequestIDSurvives == wire.by # Nobody => "rid" \in DOMAIN wire.header

\* Headers of an output that failed before it was sent never reach the client
\* with somebody else's response (xgin.go:157-163).
NoLeakedHeaders ==
    \A n \in DOMAIN wire.header : wire.header[n] \in Attempts => wire.by = wire.header[n]

\* An error response never describes the representation that failed: content
\* headers of a handler, an output or a failed responder are gone from it.
NoStaleRepresentation ==
    "content" \in DOMAIN wire.header =>
        /\ wire.by = Responder => wire.header["content"] = Responder
        /\ wire.by # Fallback

\* The completion record says what the client gets, the engine's implicit
\* response included, and holds every error of the request.
LogMatchesWire ==
    pc = "done" /\ config.finish => log = [status |-> wire.status, errs |-> errs]

\* Uploaded files stay usable while handler and output run, and none is left
\* once a typed or wrapped handler is over, unless their removal failed.
UploadLifetime ==
    /\ pc \in {"handler", "map error", "render", "finite", "file", "stream", "output"} => uploads # "removed"
    /\ pc \in {"recover", "errors", "responder", "log", "engine", "done"} /\ route > 0 /\ Adapted =>
          uploads # "held" \/ "cleanup" \in errs

\* The inductive invariant behind the theorems. How often, and from where,
\* XGin.Render is entered:
Rendering == {"finite", "file", "stream", "output", "failed"}
RendersInv ==
    /\ renders > 0 => aborted
    /\ pc \in {"bind", "handler", "map error"} => renders < MaxRenders
    /\ pc = "render" => renders < (IF resume = "handler" THEN MaxRenders - 1 ELSE MaxRenders)
    /\ pc \in Rendering => renders > 0 /\ (resume = "handler" => renders < MaxRenders)
    /\ pc \in Rendering \cup {"render"} => resume # "none"

\* Who can have sent the response while a piece of code runs:
SenderInv ==
    /\ pc \in {"request id", "log start", "finite", "file", "stream"} => ~Written
    /\ pc = "output" /\ Written => wire.by = renders
    /\ pc = "responder" /\ Written => wire.by = Responder

\* Where the headers of an output, and the request ID, can be:
HeadersInv ==
    /\ ~Written => \A n \in DOMAIN header :
          header[n] \in Attempts => pc \in Rendering /\ header[n] = renders
    /\ pc \in Rendering /\ ~Written => \A n \in DOMAIN saved : saved[n] \notin Attempts
    /\ pc \notin {"request id", "torn down"} => "rid" \in DOMAIN header
    /\ pc \in Rendering => "rid" \in DOMAIN saved

PipelineInv == TypeOK /\ RendersInv /\ SenderInv /\ HeadersInv /\ NoLeakedHeaders /\ RequestIDSurvives

\* One response, whole, from one writer: see OneResponse.
Promise == INSTANCE OneResponse
    WITH by <- wire.by,
         head <- <<wire.status, wire.header>>,
         NoHead <- <<0, NoHeader>>,
         parts <- wire.parts,
         ended <- IF pc = "done" THEN "answered" ELSE IF pc = "torn down" THEN pc ELSE "no"
OneResponseKept == Promise!Spec

\* Every request is answered or torn down, whatever application code does.
Answered == <>(pc \in Ended)

\* error_handler.go:24, "Responses already sent and broken connections are
\* left alone": ErrorHandler does not touch the headers of either.
BrokenConnectionLeftAlone ==
    [][pc = "errors" /\ (Written \/ "broken" \in errs) => UNCHANGED <<header, status, wire>>]_vars
=============================================================================
