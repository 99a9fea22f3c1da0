---------------------------- MODULE FiniteRender ----------------------------
(***************************************************************************)
(* Render.Render and Response.Render (render.go, response.go, html.go):    *)
(* one finite response is encoded into a private buffer by renderer code   *)
(* the application supplies, then its status, body and headers are         *)
(* checked, and only then is it committed to the connection.               *)
(*                                                                         *)
(* A header map is a function from header keys to values; a key keeps the  *)
(* spelling it was stored under, because renderer code may write to the    *)
(* map directly and http.Header.Set and Del only see canonical keys.       *)
(*                                                                         *)
(* Definitions named Mutant... are faults a change could introduce; nothing*)
(* uses them, and each is there to be detected by the property it names.   *)
(***************************************************************************)
EXTENDS Naturals

CONSTANTS Keys,          \* header keys, in the spellings that occur
          LiveMaps,      \* header maps earlier handlers can have left behind
          Requests,      \* the responses to render: see RequestType
          Statuses,      \* statuses renderer code asks for
          MaxLen         \* BOUND: units of body a renderer produces

VARIABLES req,     \* the response being rendered and the request it answers
          phase,   \* where Render.Render stands
          live,    \* c.Writer.Header()
          buf,     \* renderBuffer: header, status, committed, length
          out,     \* what the client was sent: [by, status, header, sent]
          recorded \* the response's internal errors are in c.Errors

vars == <<req, phase, live, buf, out, recorded>>

-----------------------------------------------------------------------------
(* Headers *)

App == <<"app", 0>>          \* a value chosen by the application
Bad == <<"bad", 0>>          \* a value (or name) with invalid bytes
Length(n) == <<"length", n>> \* strconv.Itoa of a body length
Values == {App, Bad} \cup {Length(n) : n \in 0..MaxLen}

\* http.CanonicalHeaderKey on the spellings that occur.
Canonical(k) == IF k = "content-length" THEN "Content-Length"
                ELSE IF k = "transfer-encoding" THEN "Transfer-Encoding" ELSE k

ASSUME KeysAssumption ==
    /\ \A k \in Keys : Canonical(k) \in Keys
    /\ {"Content-Type", "Content-Length", "Transfer-Encoding"} \subseteq Keys

HeaderMaps == UNION {[S -> Values] : S \in SUBSET Keys}
NoHeader == [k \in {} |-> {}]

SetHeader(h, k, v) == [x \in DOMAIN h \cup {k} |-> IF x = k THEN v ELSE h[x]]
DelHeader(h, k) == [x \in DOMAIN h \ {k} |-> h[x]]

\* applyRenderHeaders: every source header lands under its canonical key. Both
\* callers validate the source first, so no two keys share a canonical name.
ApplyHeaders(target, source) ==
    LET named(x) == {k \in DOMAIN source : Canonical(k) = x}
    IN  [x \in DOMAIN target \cup {Canonical(k) : k \in DOMAIN source} |->
            IF named(x) # {} THEN source[CHOOSE k \in named(x) : TRUE] ELSE target[x]]

\* OnlyValidHeadersCommitted: the duplicate check is lost.
MutantValuesOnly(h) == \A k \in DOMAIN h : h[k] # Bad

ValidSyntax(h) == /\ \A j, k \in DOMAIN h : Canonical(j) = Canonical(k) => j = k
                  /\ \A k \in DOMAIN h : h[k] # Bad

ValidRenderHeaders(h) ==
    /\ ValidSyntax(h)
    /\ \A k \in DOMAIN h : Canonical(k) \notin {"Content-Length", "Transfer-Encoding"}

-----------------------------------------------------------------------------
(* Statuses *)

BodyAllowed(s) == s \notin {204, 205, 304}
GinBodyAllowed(s) == s \notin (100..199) \cup {204, 304}

\* StatusAgrees: two selected statuses are no longer compared.
MutantNoConflict(explicit, rendered) == FALSE

Conflict(explicit, rendered) == explicit # 0 /\ rendered # 0 /\ explicit # rendered
Resolved(explicit, rendered) == IF explicit # 0 THEN explicit
                                ELSE IF rendered # 0 THEN rendered ELSE 200
FinalStatuses == 200..599
RedirectStatuses == {300, 301, 302, 303, 305, 307, 308}

-----------------------------------------------------------------------------
(* The response and the state of its rendering *)

RequestType ==
    [ via      : {"Render", "Response"},
      kind     : {"none", "typed nil", "invalid", "finite", "redirect", "html"},
      status   : Nat,                              \* HTTPStatus, zero when unset
      code     : Nat,                              \* ginrender.Redirect.Code
      header   : HeaderMaps,
      causes   : BOOLEAN,                          \* Response.Errors is not empty
      method   : {"GET", "HEAD", "POST"},          \* c.Request.Method
      selected : {"nil", "GET", "HEAD", "POST"} ]  \* ginrender.Redirect.Request

ASSUME InputAssumption ==
    /\ Requests \subseteq RequestType
    /\ \A r \in Requests : r.via = "Render" => r.kind \notin {"invalid", "html"}
    /\ \A r \in Requests : r.via = "Response" => r.kind # "typed nil"
    /\ LiveMaps \subseteq {h \in HeaderMaps :
          /\ \A k \in DOMAIN h : Canonical(k) = k /\ h[k] # Bad}
    /\ Statuses \subseteq Nat
    /\ MaxLen \in Nat \ {0}

BufferType == [header : HeaderMaps, status : Nat, committed : BOOLEAN, length : 0..MaxLen]
OutType == [by : {"none", "earlier", "render"}, status : Nat, header : HeaderMaps, sent : 0..MaxLen]

Uncommitted == [by |-> "none", status |-> 0, header |-> NoHeader, sent |-> 0]
Earlier == [by |-> "earlier", status |-> 0, header |-> NoHeader, sent |-> 0]
EmptyBuffer == [header |-> NoHeader, status |-> 0, committed |-> FALSE, length |-> 0]

Terminal == {"ok", "error", "panic"}

Init == /\ req \in Requests
        /\ phase = IF req.via = "Response" THEN "response" ELSE "start"
        /\ live \in LiveMaps
        /\ buf = EmptyBuffer
        /\ out \in {Uncommitted, Earlier}
        /\ recorded = FALSE

\* PromiseKept: the response's headers are applied before it is accepted.
MutantAppliedFail == /\ phase' = "error"
                     /\ live' = ApplyHeaders(live, req.header)
                     /\ UNCHANGED out

Fail == /\ phase' = "error"
        /\ UNCHANGED <<live, out>>

-----------------------------------------------------------------------------
(* Response.Render: record the internal errors, then select a renderer *)

ResponseStatus == IF req.status = 0 /\ req.kind = "redirect" THEN 302 ELSE req.status

\* Response.renderer: template, callback, data and redirect status are usable.
Selectable == /\ req.kind # "invalid"
              /\ req.kind = "redirect" => ResponseStatus \in RedirectStatuses

\* CausesKept: the errors are recorded only once a renderer was selected.
MutantLateCauses == req.causes /\ Selectable

CausesAttached == req.causes

SelectRenderer ==
    /\ phase = "response"
    /\ recorded' = CausesAttached
    /\ UNCHANGED <<live, buf, out>>
    /\ \/ /\ ~Selectable
          /\ phase' = "error"
          /\ UNCHANGED req
       \/ /\ Selectable
          /\ phase' = "start"
          /\ req' = [req EXCEPT !.status = ResponseStatus,
                                !.code = IF req.kind = "redirect" THEN ResponseStatus ELSE @,
                                !.selected = req.method]

-----------------------------------------------------------------------------
(* Render.Render, up to the call into the renderer *)

Acceptable == out.by = "none" /\ ValidRenderHeaders(req.header) /\ req.kind # "typed nil"

RejectRender ==
    /\ phase = "start"
    /\ ~Acceptable
    /\ Fail
    /\ UNCHANGED <<req, buf, recorded>>

StartRender ==
    /\ phase = "start"
    /\ Acceptable
    /\ buf' = [EmptyBuffer EXCEPT !.header = ApplyHeaders(NoHeader, req.header)]
    /\ phase' = CASE req.kind = "none"     -> "rendered"
                  [] req.kind = "html"     -> "html"
                  [] req.kind = "redirect" -> "redirect"
                  [] OTHER                 -> "encode"
    /\ UNCHANGED <<req, live, out, recorded>>

-----------------------------------------------------------------------------
(* Renderer code, writing into the private buffer *)

\* A WriteContentType chooses a type unless there is one.
TypedBy(h) == IF "Content-Type" \in DOMAIN h THEN h ELSE SetHeader(h, "Content-Type", App)

\* htmlRenderer: gin's HTML helper first obtains the renderer, which panics
\* without templates, and records the status; for a status it considers
\* bodyless it sends the content type and executes no template.
BeginHTML ==
    LET status == IF req.status = 0 THEN 200 ELSE req.status
    IN  /\ phase = "html"
        /\ \/ /\ phase' = "panic"
              /\ UNCHANGED buf
           \/ /\ GinBodyAllowed(status)
              /\ phase' = "encode"
              /\ buf' = [buf EXCEPT !.status = status]
           \/ /\ ~GinBodyAllowed(status)
              /\ phase' = "rendered"
              /\ buf' = [buf EXCEPT !.header = TypedBy(@), !.status = status, !.committed = TRUE]
        /\ UNCHANGED <<req, live, out, recorded>>

\* HeadDeclaresGetLength: HEAD is passed on to http.Redirect.
MutantHeadMethod == IF req.selected = "nil" THEN req.method ELSE req.selected

\* The method http.Redirect sees: a HEAD representation is computed as GET.
RedirectMethod ==
    LET selected == IF req.selected = "nil" THEN req.method ELSE req.selected
    IN  IF req.method = "HEAD" /\ selected = "HEAD" THEN "GET" ELSE selected

\* http.Redirect writes a body only for GET, and none beside a chosen type.
RedirectBody(method, header) ==
    IF method = "GET" /\ "Content-Type" \notin DOMAIN header THEN 1 ELSE 0

RenderRedirect ==
    /\ phase = "redirect"
    /\ \/ /\ req.code \notin {201} \cup 300..308
          /\ phase' = "panic"
          /\ UNCHANGED buf
       \/ /\ req.code \in {201} \cup 300..308
          /\ phase' = "rendered"
          /\ buf' = [ header    |-> IF RedirectMethod \in {"GET", "HEAD"} /\ "Content-Type" \notin DOMAIN buf.header
                                    THEN SetHeader(buf.header, "Content-Type", App)
                                    ELSE buf.header,
                      status    |-> req.code,
                      committed |-> RedirectBody(RedirectMethod, buf.header) > 0,
                      length    |-> RedirectBody(RedirectMethod, buf.header) ]
    /\ UNCHANGED <<req, live, out, recorded>>

RendererSetHeader ==
    /\ phase = "encode"
    /\ \E k \in Keys, v \in {App, Bad} :
          /\ req.kind = "html" => k = "Content-Type" /\ k \notin DOMAIN buf.header /\ v = App
          /\ buf' = [buf EXCEPT !.header = SetHeader(@, k, v)]
    /\ UNCHANGED <<req, phase, live, out, recorded>>

RendererWriteHeader ==
    /\ phase = "encode"
    /\ req.kind = "finite"
    /\ \E s \in Statuses :
          buf' = IF ~buf.committed /\ buf.status = 0 THEN [buf EXCEPT !.status = s] ELSE buf
    /\ UNCHANGED <<req, phase, live, out, recorded>>

\* Write and WriteString commit the private response; an io.Copy reaches the
\* ReadFrom promoted from the embedded bytes.Buffer, which does not.
RendererWrite ==
    /\ phase = "encode"
    /\ buf.length < MaxLen
    /\ \E direct \in BOOLEAN :
          /\ req.kind = "html" => direct
          /\ buf' = [buf EXCEPT !.length = @ + 1, !.committed = @ \/ direct]
    /\ UNCHANGED <<req, phase, live, out, recorded>>

RendererFlush ==
    /\ phase = "encode"
    /\ req.kind = "finite"
    /\ buf' = [buf EXCEPT !.committed = TRUE]
    /\ UNCHANGED <<req, phase, live, out, recorded>>

\* The renderer returns nil, returns an error, or panics.
RendererEnds ==
    /\ phase = "encode"
    /\ phase' \in {"rendered", "error", "panic"}
    /\ UNCHANGED <<req, live, buf, out, recorded>>

-----------------------------------------------------------------------------
(* Render.Render, after the renderer returned nil *)

FinalStatus == Resolved(req.status, buf.status)

StatusAccepted == /\ ~Conflict(req.status, buf.status)
                  /\ FinalStatus \in FinalStatuses
                  /\ BodyAllowed(FinalStatus) \/ buf.length = 0

\* FramingMatchesBody: a length the renderer wrote is kept.
MutantKeptLength(header, status, length) ==
    IF BodyAllowed(status) /\ "Content-Length" \notin DOMAIN header
       THEN SetHeader(header, "Content-Length", Length(length)) ELSE header

\* TypeOK: one unit too many is declared.
MutantLongLength(header, status, length) ==
    SetHeader(header, "Content-Length", Length(length + 1))

\* The produced headers with their framing replaced by the implementation's.
Framed(header, status, length) ==
    LET plain == DelHeader(header, "Transfer-Encoding")
    IN  IF BodyAllowed(status) THEN SetHeader(plain, "Content-Length", Length(length))
                               ELSE DelHeader(plain, "Content-Length")

Produced == Framed(buf.header, FinalStatus, buf.length)

RejectProduced ==
    /\ phase = "rendered"
    /\ ~StatusAccepted \/ ~ValidSyntax(Produced)
    /\ Fail
    /\ UNCHANGED <<req, buf, recorded>>

CommitResponse ==
    /\ phase = "rendered"
    /\ StatusAccepted
    /\ ValidSyntax(Produced)
    /\ live' = ApplyHeaders(live, Produced)
    /\ out' = [by |-> "render", status |-> FinalStatus, header |-> live', sent |-> 0]
    /\ buf' = [buf EXCEPT !.header = Produced]
    /\ phase' = "committed"
    /\ UNCHANGED <<req, recorded>>

NoBody == req.method = "HEAD" \/ ~BodyAllowed(FinalStatus) \/ buf.length = 0

\* The body write can fail on the connection after any part of it.
SendBody ==
    /\ phase = "committed"
    /\ \/ /\ NoBody
          /\ phase' = "ok"
          /\ UNCHANGED out
       \/ /\ ~NoBody
          /\ phase' = "ok"
          /\ out' = [out EXCEPT !.sent = buf.length]
       \/ /\ ~NoBody
          /\ phase' = "error"
          /\ \E n \in 0..(MaxLen - 1) : n < buf.length /\ out' = [out EXCEPT !.sent = n]
    /\ UNCHANGED <<req, live, buf, recorded>>

-----------------------------------------------------------------------------
Renderer == \/ BeginHTML \/ RenderRedirect
            \/ RendererSetHeader \/ RendererWriteHeader \/ RendererWrite
            \/ RendererFlush \/ RendererEnds

Next == \/ SelectRenderer \/ RejectRender \/ StartRender
        \/ Renderer
        \/ RejectProduced \/ CommitResponse \/ SendBody

Spec == Init /\ [][Next]_vars

-----------------------------------------------------------------------------
(* Properties *)

TypeOK ==
    /\ req \in RequestType
    /\ phase \in {"response", "start", "html", "redirect", "encode", "rendered", "committed"} \cup Terminal
    /\ live \in HeaderMaps
    /\ buf \in BufferType
    /\ out \in OutType
    /\ recorded \in BOOLEAN

\* The length a client is told (render.go:84-88) is the length of the encoded
\* body whatever the renderer did to the private headers, and a complete
\* response delivers exactly that many bytes unless the request was a HEAD.
FramingMatchesBody ==
    out.by = "render" =>
        /\ BodyAllowed(out.status) => out.header["Content-Length"] = Length(buf.length)
        /\ ~BodyAllowed(out.status) => buf.length = 0
        /\ phase = "ok" => out.sent = IF req.method = "HEAD" THEN 0 ELSE buf.length

\* No header with invalid bytes, and no header that is ambiguous because two
\* spellings of it were produced, is ever committed (render.go:90, 366-393).
OnlyValidHeadersCommitted ==
    out.by = "render" =>
        /\ \A k \in DOMAIN out.header : Canonical(k) = k /\ out.header[k] # Bad
        /\ \A j, k \in DOMAIN buf.header : Canonical(j) = Canonical(k) => j = k

\* The committed status is final, and it contradicts neither the status the
\* response selected nor the one its renderer selected (render.go:137-161).
StatusAgrees ==
    out.by = "render" =>
        /\ out.status \in FinalStatuses
        /\ req.status \in {0, out.status}
        /\ buf.status \in {0, out.status}

\* The internal errors of a response reach c.Errors however its rendering ends,
\* so the diagnostics survive a failed render (response.go:163-171).
CausesKept == phase \in Terminal /\ req.via = "Response" /\ req.causes => recorded

\* A redirect answering HEAD declares the length its GET answer would declare
\* (render.go:122-123), although http.Redirect writes no body for HEAD; without
\* one only when its status allows none.
HeadRedirect == req.kind = "redirect" /\ req.method = "HEAD" /\ req.selected \in {"nil", "HEAD"}
HeadDeclaresGetLength ==
    out.by = "render" /\ HeadRedirect /\ BodyAllowed(out.status) =>
        out.header["Content-Length"] = Length(RedirectBody("GET", req.header))

\* render.go:32, "framing is managed by this implementation": a committed
\* response never carries framing headers that somebody else chose.
FramingManaged ==
    out.by = "render" =>
        /\ "Transfer-Encoding" \notin DOMAIN out.header
        /\ ~BodyAllowed(out.status) => "Content-Length" \notin DOMAIN out.header

\* The inductive invariant behind the properties above: which phases have
\* committed, and what a commitment fixes about the buffer it came from.
CommitInv ==
    /\ phase \in {"html", "redirect", "encode", "rendered"} => out.by = "none"
    /\ phase \in {"committed", "ok"} => out.by = "render"
    /\ phase = "committed" => out.sent = 0
    /\ out.by = "render" => /\ phase \in {"committed", "ok", "error"}
                            /\ StatusAccepted
                            /\ out.status = FinalStatus
                            /\ ValidSyntax(buf.header)

CleanHeaders(h) == \A k \in DOMAIN h : Canonical(k) = k /\ h[k] # Bad

RenderInv == /\ TypeOK
             /\ CommitInv
             /\ CleanHeaders(live)
             /\ FramingMatchesBody
             /\ OnlyValidHeadersCommitted
             /\ StatusAgrees

\* What the two properties about single responses rest on: errors are recorded
\* first, and only a redirect's own step produces its body.
SelectedInv ==
    /\ phase # "response" /\ req.via = "Response" /\ req.causes => recorded
    /\ phase = "redirect" => buf.header = ApplyHeaders(NoHeader, req.header)
    /\ phase \in {"html", "encode"} => req.kind # "redirect"
    /\ (phase = "rendered" \/ out.by = "render") /\ HeadRedirect =>
          buf.length = RedirectBody("GET", req.header)

\* Rendering as the rest of the request sees it.
Promise == INSTANCE CommitOnce
               WITH result <- IF phase \in Terminal THEN phase ELSE "pending"
PromiseKept == Promise!Spec
=============================================================================
