------------------------- MODULE FiniteRenderProofs -------------------------
(***************************************************************************)
(* Proofs about FiniteRender for every set of header keys, responses and   *)
(* statuses and every body length.                                         *)
(***************************************************************************)
EXTENDS FiniteRender, TLAPS

-----------------------------------------------------------------------------
(* What the header operators return *)

\* A function from some of the keys to values is a header map.
LEMMA HeaderMapIntro ==
    ASSUME NEW S \in SUBSET Keys, NEW h \in [S -> Values]
    PROVE  h \in HeaderMaps
BY DEF HeaderMaps

\* A header map is a function from some of the keys to values.
LEMMA HeaderMapElim ==
    ASSUME NEW h \in HeaderMaps
    PROVE  DOMAIN h \in SUBSET Keys /\ h \in [DOMAIN h -> Values]
BY DEF HeaderMaps

\* http.Header.Set keeps a header map one.
LEMMA SetHeaderType ==
    ASSUME NEW h \in HeaderMaps, NEW k \in Keys, NEW v \in Values
    PROVE  SetHeader(h, k, v) \in HeaderMaps
<1>1. DOMAIN h \cup {k} \in SUBSET Keys
    BY HeaderMapElim
<1>2. SetHeader(h, k, v) \in [DOMAIN h \cup {k} -> Values]
    BY HeaderMapElim DEF SetHeader
<1> QED BY <1>1, <1>2, HeaderMapIntro

\* http.Header.Del keeps a header map one.
LEMMA DelHeaderType ==
    ASSUME NEW h \in HeaderMaps, NEW k
    PROVE  DelHeader(h, k) \in HeaderMaps
<1>1. DOMAIN h \ {k} \in SUBSET Keys
    BY HeaderMapElim
<1>2. DelHeader(h, k) \in [DOMAIN h \ {k} -> Values]
    BY HeaderMapElim DEF DelHeader
<1> QED BY <1>1, <1>2, HeaderMapIntro

\* applyRenderHeaders, key by key: a source header wins, the rest stays.
LEMMA ApplyHeadersAt ==
    ASSUME NEW target, NEW source, NEW x \in DOMAIN ApplyHeaders(target, source)
    PROVE  \/ \E k \in DOMAIN source : Canonical(k) = x /\ ApplyHeaders(target, source)[x] = source[k]
           \/ /\ x \in DOMAIN target
              /\ \A k \in DOMAIN source : Canonical(k) # x
              /\ ApplyHeaders(target, source)[x] = target[x]
BY DEF ApplyHeaders

\* applyRenderHeaders keeps a header map one.
LEMMA ApplyHeadersType ==
    ASSUME NEW target \in HeaderMaps, NEW source \in HeaderMaps
    PROVE  ApplyHeaders(target, source) \in HeaderMaps
<1> DEFINE D == DOMAIN target \cup {Canonical(k) : k \in DOMAIN source}
<1>1. D \in SUBSET Keys
    BY HeaderMapElim, KeysAssumption
<1>2. ApplyHeaders(target, source) = [x \in D |-> ApplyHeaders(target, source)[x]]
    BY DEF ApplyHeaders
<1>3. ASSUME NEW x \in D PROVE ApplyHeaders(target, source)[x] \in Values
    <2>1. x \in DOMAIN ApplyHeaders(target, source)
        BY <1>2
    <2> QED BY <2>1, ApplyHeadersAt, HeaderMapElim
<1>4. ApplyHeaders(target, source) \in [D -> Values]
    BY <1>2, <1>3
<1> QED BY <1>1, <1>4, HeaderMapIntro

\* The values the code writes are values of the model.
LEMMA ValueFacts ==
    /\ App \in Values /\ Bad \in Values /\ App # Bad
    /\ \A n \in 0..MaxLen : Length(n) \in Values /\ Length(n) # Bad
BY DEF App, Bad, Values, Length

\* The keys the code writes are keys of the model, in canonical spelling.
LEMMA KeyFacts ==
    /\ {"Content-Type", "Content-Length", "Transfer-Encoding"} \subseteq Keys
    /\ Canonical("Content-Length") = "Content-Length"
    /\ \A k \in Keys : Canonical(k) \in Keys /\ Canonical(Canonical(k)) = Canonical(k)
BY KeysAssumption DEF Canonical

\* The empty map is a header map.
LEMMA NoHeaderType == NoHeader \in HeaderMaps
<1>1. NoHeader \in [{} -> Values]
    BY DEF NoHeader
<1> QED BY <1>1, HeaderMapIntro

-----------------------------------------------------------------------------
(* Type correctness *)

\* The produced headers are a header map again.
LEMMA ProducedType ==
    ASSUME TypeOK
    PROVE  Produced \in HeaderMaps
<1>1. buf.header \in HeaderMaps /\ buf.length \in 0..MaxLen
    BY DEF TypeOK, BufferType
<1>2. DelHeader(buf.header, "Transfer-Encoding") \in HeaderMaps
    BY <1>1, DelHeaderType
<1> QED BY <1>1, <1>2, DelHeaderType, SetHeaderType, ValueFacts, KeyFacts DEF Produced, Framed

\* A resolved status is a number.
LEMMA FinalStatusType == ASSUME TypeOK PROVE FinalStatus \in Nat
BY DEF TypeOK, BufferType, FinalStatus, Resolved, RequestType

\* The assumptions on the inputs, one by one.
LEMMA InputFacts ==
    /\ Requests \subseteq RequestType
    /\ LiveMaps \subseteq HeaderMaps
    /\ \A h \in LiveMaps : \A k \in DOMAIN h : Canonical(k) = k /\ h[k] # Bad
    /\ Statuses \subseteq Nat
    /\ MaxLen \in Nat \ {0}
BY InputAssumption, Zenon

LEMMA TypeInit == Init => TypeOK
<1> SUFFICES ASSUME Init PROVE TypeOK
    OBVIOUS
<1>1. req \in RequestType /\ live \in HeaderMaps
    BY InputFacts DEF Init
<1>2. buf \in BufferType
    BY InputFacts, NoHeaderType DEF Init, EmptyBuffer, BufferType
<1>3. out \in OutType
    BY InputFacts, NoHeaderType DEF Init, Uncommitted, Earlier, OutType
<1> QED BY <1>1, <1>2, <1>3 DEF Init, TypeOK, Terminal

LEMMA TypeStep == TypeOK /\ [Next]_vars => TypeOK'
<1> SUFFICES ASSUME TypeOK, [Next]_vars PROVE TypeOK'
    OBVIOUS
<1> USE DEF TypeOK, Terminal
<1>1. CASE SelectRenderer
    <2>1. CASE UNCHANGED req
        BY <1>1, <2>1 DEF SelectRenderer, RequestType, CausesAttached
    <2>2. CASE ~UNCHANGED req
        <3>1. ResponseStatus \in Nat
            BY DEF ResponseStatus, RequestType
        <3>2. PICK code \in Nat : req' = [req EXCEPT !.status = ResponseStatus, !.code = code, !.selected = req.method]
            BY <1>1, <2>2, <3>1 DEF SelectRenderer, RequestType
        <3>3. req' \in RequestType
            BY <3>1, <3>2 DEF RequestType
        <3> QED BY <1>1, <3>3 DEF SelectRenderer, RequestType, CausesAttached
    <2> QED BY <2>1, <2>2
<1>2. CASE RejectRender
    BY <1>2 DEF RejectRender, Fail
<1>3. CASE StartRender
    <2>1. ApplyHeaders(NoHeader, req.header) \in HeaderMaps
        BY NoHeaderType, ApplyHeadersType DEF RequestType
    <2>2. buf' \in BufferType
        <3>1. buf' = [EmptyBuffer EXCEPT !.header = ApplyHeaders(NoHeader, req.header)]
            BY <1>3 DEF StartRender
        <3>2. EmptyBuffer \in BufferType
            BY NoHeaderType, InputFacts DEF EmptyBuffer, BufferType
        <3> QED BY <2>1, <3>1, <3>2 DEF BufferType
    <2> QED BY <1>3, <2>2 DEF StartRender
<1>4. CASE BeginHTML
    <2>1. buf' \in BufferType
        <3> DEFINE status == IF req.status = 0 THEN 200 ELSE req.status
        <3>1. status \in Nat
            BY DEF RequestType
        <3>2. \/ buf' = buf
              \/ buf' = [buf EXCEPT !.status = status]
              \/ buf' = [buf EXCEPT !.header = TypedBy(@), !.status = status, !.committed = TRUE]
            BY <1>4 DEF BeginHTML
        <3>3. TypedBy(buf.header) \in HeaderMaps
            BY SetHeaderType, ValueFacts, KeyFacts DEF TypedBy, BufferType
        <3> HIDE DEF status
        <3> QED BY <3>1, <3>2, <3>3 DEF BufferType
    <2> QED BY <1>4, <2>1 DEF BeginHTML
<1>5. CASE RenderRedirect
    <2>1. RedirectBody(RedirectMethod, buf.header) \in 0..MaxLen
        BY InputFacts DEF RedirectBody
    <2>2. SetHeader(buf.header, "Content-Type", App) \in HeaderMaps
        BY SetHeaderType, ValueFacts, KeyFacts DEF BufferType
    <2>3. buf' \in BufferType
        <3> DEFINE header == IF RedirectMethod \in {"GET", "HEAD"} /\ "Content-Type" \notin DOMAIN buf.header
                             THEN SetHeader(buf.header, "Content-Type", App)
                             ELSE buf.header
                   length == RedirectBody(RedirectMethod, buf.header)
        <3>1. header \in HeaderMaps
            BY <2>2 DEF BufferType
        <3>2. (length > 0) \in BOOLEAN
            OBVIOUS
        <3>3. req.code \in Nat
            BY DEF RequestType
        <3>4. \/ UNCHANGED buf
              \/ buf' = [header |-> header, status |-> req.code, committed |-> length > 0, length |-> length]
            BY <1>5, Zenon DEF RenderRedirect
        <3> HIDE DEF header, length
        <3>5. [header |-> header, status |-> req.code, committed |-> length > 0, length |-> length] \in BufferType
            BY <2>1, <3>1, <3>2, <3>3, Zenon DEF BufferType, length
        <3> QED BY <3>4, <3>5, Zenon
    <2> QED BY <1>5, <2>3 DEF RenderRedirect
<1>6. CASE RendererSetHeader
    <2>1. \A k \in Keys, v \in {App, Bad} : SetHeader(buf.header, k, v) \in HeaderMaps
        BY SetHeaderType, ValueFacts DEF BufferType
    <2>2. buf' \in BufferType
        BY <1>6, <2>1 DEF RendererSetHeader, BufferType
    <2> QED BY <1>6, <2>2 DEF RendererSetHeader
<1>7. CASE RendererWriteHeader
    <2>1. buf' \in BufferType
        BY <1>7, InputFacts DEF RendererWriteHeader, BufferType
    <2> QED BY <1>7, <2>1 DEF RendererWriteHeader
<1>8. CASE RendererWrite
    <2>1. PICK direct \in BOOLEAN :
              buf' = [buf EXCEPT !.length = @ + 1, !.committed = @ \/ direct]
        BY <1>8 DEF RendererWrite
    <2>2. (buf.committed \/ direct) \in BOOLEAN
        BY DEF BufferType
    <2>3. buf.length + 1 \in 0..MaxLen
        BY <1>8, InputFacts DEF RendererWrite, BufferType
    <2>4. buf' \in BufferType
        BY <2>1, <2>2, <2>3 DEF BufferType
    <2> QED BY <1>8, <2>4 DEF RendererWrite
<1>9. CASE RendererFlush
    BY <1>9 DEF RendererFlush, BufferType
<1>10. CASE RendererEnds
    BY <1>10 DEF RendererEnds
<1>11. CASE RejectProduced
    BY <1>11 DEF RejectProduced, Fail
<1>12. CASE CommitResponse
    <2>1. Produced \in HeaderMaps /\ ApplyHeaders(live, Produced) \in HeaderMaps
        BY ProducedType, ApplyHeadersType
    <2>2. buf' \in BufferType
        BY <1>12, <2>1 DEF CommitResponse, BufferType
    <2>3. out' \in OutType
        BY <1>12, <2>1, FinalStatusType, InputFacts DEF CommitResponse, OutType
    <2> QED BY <1>12, <2>1, <2>2, <2>3 DEF CommitResponse
<1>13. CASE SendBody
    <2>1. out' \in OutType
        BY <1>13, InputFacts DEF SendBody, OutType, BufferType
    <2> QED BY <1>13, <2>1 DEF SendBody
<1>14. CASE UNCHANGED vars
    BY <1>14 DEF vars
<1> QED BY <1>1, <1>2, <1>3, <1>4, <1>5, <1>6, <1>7, <1>8, <1>9, <1>10, <1>11, <1>12, <1>13, <1>14
        DEF Next, Renderer

\* Every variable keeps its type.
THEOREM TypeCorrect == Spec => []TypeOK
BY TypeInit, TypeStep, PTL DEF Spec

-----------------------------------------------------------------------------
(* What is committed *)

\* Applying valid produced headers to clean ones leaves clean headers, and the
\* framing the implementation chose is what ends up on the connection.
LEMMA CommittedHeaders ==
    ASSUME TypeOK, CleanHeaders(live), ValidSyntax(Produced)
    PROVE  /\ CleanHeaders(ApplyHeaders(live, Produced))
           /\ BodyAllowed(FinalStatus) =>
                  ApplyHeaders(live, Produced)["Content-Length"] = Length(buf.length)
<1> DEFINE applied == ApplyHeaders(live, Produced)
<1>1. Produced \in HeaderMaps
    BY ProducedType
<1>2. \A k \in DOMAIN Produced : k \in Keys /\ Produced[k] # Bad
    BY <1>1, HeaderMapElim DEF ValidSyntax
<1>3. ASSUME NEW x \in DOMAIN applied PROVE Canonical(x) = x /\ applied[x] # Bad
    <2>1. CASE \E k \in DOMAIN Produced : Canonical(k) = x /\ applied[x] = Produced[k]
        BY <2>1, <1>2, KeyFacts
    <2>2. CASE x \in DOMAIN live /\ applied[x] = live[x]
        BY <2>2 DEF CleanHeaders
    <2> QED BY <2>1, <2>2, ApplyHeadersAt
<1>4. ASSUME BodyAllowed(FinalStatus) PROVE applied["Content-Length"] = Length(buf.length)
    <2>1. /\ "Content-Length" \in DOMAIN Produced
          /\ Produced["Content-Length"] = Length(buf.length)
        BY <1>4 DEF Produced, Framed, SetHeader
    <2>2. "Content-Length" \in DOMAIN applied
        BY <2>1, KeyFacts DEF ApplyHeaders
    <2>3. \A k \in DOMAIN Produced : Canonical(k) = "Content-Length" => k = "Content-Length"
        BY <2>1, KeyFacts DEF ValidSyntax
    <2> QED BY <2>1, <2>2, <2>3, KeyFacts, ApplyHeadersAt
<1> HIDE DEF applied
<1>5. CleanHeaders(applied)
    BY <1>3 DEF CleanHeaders
<1> QED BY <1>4, <1>5 DEF applied

LEMMA RenderInvInit == Init => RenderInv
<1> SUFFICES ASSUME Init PROVE RenderInv
    OBVIOUS
<1>1. TypeOK
    BY TypeInit
<1>2. out.by \in {"none", "earlier"} /\ phase \in {"response", "start"}
    BY DEF Init, Uncommitted, Earlier
<1>3. CleanHeaders(live)
    BY InputFacts DEF Init, CleanHeaders
<1> QED BY <1>1, <1>2, <1>3
        DEF RenderInv, CommitInv, FramingMatchesBody, OnlyValidHeadersCommitted, StatusAgrees

\* Before the commitment nothing the invariant says of a commitment applies.
LEMMA StillUncommitted ==
    ASSUME RenderInv, TypeOK', UNCHANGED <<live, out>>, out.by # "render",
           phase' \in {"start", "html", "redirect", "encode", "rendered", "error", "panic"},
           phase' \in {"html", "redirect", "encode", "rendered"} => out.by = "none"
    PROVE  RenderInv'
BY DEF RenderInv, CommitInv, CleanHeaders, FramingMatchesBody, OnlyValidHeadersCommitted, StatusAgrees

LEMMA RenderInvStep == RenderInv /\ [Next]_vars => RenderInv'
<1> SUFFICES ASSUME RenderInv, [Next]_vars PROVE RenderInv'
    OBVIOUS
<1>1. TypeOK /\ TypeOK'
    BY TypeStep DEF RenderInv
<1>2. CASE SelectRenderer \/ RejectRender \/ StartRender \/ Renderer \/ RejectProduced
    <2>1. phase \in {"response", "start", "html", "redirect", "encode", "rendered"}
        BY <1>2 DEF SelectRenderer, RejectRender, StartRender, Renderer, RejectProduced, BeginHTML, RenderRedirect,
                    RendererSetHeader, RendererWriteHeader, RendererWrite, RendererFlush, RendererEnds
    <2>2. UNCHANGED <<live, out>>
        BY <1>2 DEF SelectRenderer, RejectRender, StartRender, Renderer, RejectProduced, BeginHTML, RenderRedirect,
                    RendererSetHeader, RendererWriteHeader, RendererWrite, RendererFlush, RendererEnds, Fail
    <2>3. phase' \in {"start", "html", "redirect", "encode", "rendered", "error", "panic"}
        BY <1>2 DEF SelectRenderer, RejectRender, StartRender, Renderer, RejectProduced, BeginHTML, RenderRedirect,
                    RendererSetHeader, RendererWriteHeader, RendererWrite, RendererFlush, RendererEnds, Fail
    <2>4. out.by # "render"
        BY <2>1 DEF RenderInv, CommitInv
    <2>5. phase' \in {"html", "redirect", "encode", "rendered"} => out.by = "none"
        <3>1. CASE StartRender
            BY <3>1 DEF StartRender, Acceptable
        <3>2. CASE phase \in {"html", "redirect", "encode", "rendered"}
            BY <3>2 DEF RenderInv, CommitInv
        <3>3. CASE SelectRenderer \/ RejectRender
            BY <3>3 DEF SelectRenderer, RejectRender, Fail
        <3> QED BY <1>2, <3>1, <3>2, <3>3
                DEF Renderer, RejectProduced, BeginHTML, RenderRedirect, RendererSetHeader,
                    RendererWriteHeader, RendererWrite, RendererFlush, RendererEnds
    <2> QED BY <1>1, <2>2, <2>3, <2>4, <2>5, StillUncommitted
<1>3. CASE CommitResponse
    <2> USE <1>3
    <2>1. /\ out' = [by |-> "render", status |-> FinalStatus, header |-> ApplyHeaders(live, Produced), sent |-> 0]
          /\ live' = ApplyHeaders(live, Produced)
          /\ buf' = [buf EXCEPT !.header = Produced]
          /\ phase' = "committed"
          /\ req' = req
          /\ StatusAccepted /\ ValidSyntax(Produced)
        BY DEF CommitResponse
    <2>2. /\ CleanHeaders(live')
          /\ BodyAllowed(FinalStatus) => out'.header["Content-Length"] = Length(buf.length)
        BY <1>1, <2>1, CommittedHeaders DEF RenderInv
    <2>3. buf'.status = buf.status /\ buf'.length = buf.length /\ buf'.header = Produced
        BY <1>1, <2>1 DEF TypeOK, BufferType
    <2>4. FinalStatus' = FinalStatus /\ StatusAccepted'
        BY <2>1, <2>3 DEF FinalStatus, StatusAccepted
    <2>5. CommitInv'
        BY <2>1, <2>3, <2>4 DEF CommitInv
    <2>6. FramingMatchesBody'
        BY <2>1, <2>2, <2>3 DEF FramingMatchesBody, StatusAccepted
    <2>7. OnlyValidHeadersCommitted'
        BY <2>1, <2>2, <2>3 DEF OnlyValidHeadersCommitted, CleanHeaders, ValidSyntax
    <2>8. StatusAgrees'
        <3>1. FinalStatus \in FinalStatuses /\ req.status \in {0, FinalStatus} /\ buf.status \in {0, FinalStatus}
            BY <2>1 DEF StatusAccepted, Conflict, FinalStatus, Resolved
        <3> QED BY <2>1, <2>3, <3>1 DEF StatusAgrees
    <2> QED BY <1>1, <2>2, <2>5, <2>6, <2>7, <2>8 DEF RenderInv
<1>4. CASE SendBody
    <2> USE <1>4
    <2>1. /\ UNCHANGED <<req, live, buf>>
          /\ phase = "committed" /\ out.by = "render" /\ out.sent = 0
          /\ phase' \in {"ok", "error"}
          /\ out'.by = out.by /\ out'.status = out.status /\ out'.header = out.header
        BY <1>1 DEF SendBody, RenderInv, CommitInv, TypeOK, OutType
    <2>2. FinalStatus' = FinalStatus /\ StatusAccepted' = StatusAccepted
        BY <2>1 DEF FinalStatus, StatusAccepted
    <2>3. CommitInv'
        BY <2>1, <2>2 DEF RenderInv, CommitInv
    <2>4. phase' = "ok" => out'.sent = IF req.method = "HEAD" THEN 0 ELSE buf.length
        BY <1>1, <2>1 DEF SendBody, NoBody, RenderInv, CommitInv, StatusAccepted, TypeOK, OutType
    <2>5. FramingMatchesBody'
        BY <2>1, <2>4 DEF RenderInv, FramingMatchesBody
    <2>6. OnlyValidHeadersCommitted' /\ StatusAgrees' /\ CleanHeaders(live')
        BY <2>1 DEF RenderInv, OnlyValidHeadersCommitted, StatusAgrees, CleanHeaders
    <2> QED BY <1>1, <2>3, <2>5, <2>6 DEF RenderInv
<1>5. CASE UNCHANGED vars
    BY <1>5 DEF vars, RenderInv, TypeOK, CommitInv, CleanHeaders, FramingMatchesBody, OnlyValidHeadersCommitted,
                StatusAgrees, StatusAccepted, FinalStatus
<1> QED BY <1>2, <1>3, <1>4, <1>5 DEF Next

\* The length on the wire is the length of the encoded body (render.go:84-105).
THEOREM FramingCorrect == Spec => []FramingMatchesBody
<1>1. RenderInv => FramingMatchesBody
    BY DEF RenderInv
<1> QED BY RenderInvInit, RenderInvStep, <1>1, PTL DEF Spec

\* Only validated, unambiguous headers are committed (render.go:90, 366-393).
THEOREM HeadersCorrect == Spec => []OnlyValidHeadersCommitted
<1>1. RenderInv => OnlyValidHeadersCommitted
    BY DEF RenderInv
<1> QED BY RenderInvInit, RenderInvStep, <1>1, PTL DEF Spec

\* The committed status is final and nobody's choice is overridden.
THEOREM StatusCorrect == Spec => []StatusAgrees
<1>1. RenderInv => StatusAgrees
    BY DEF RenderInv
<1> QED BY RenderInvInit, RenderInvStep, <1>1, PTL DEF Spec

-----------------------------------------------------------------------------
(* Rendering implements CommitOnce *)

\* Every step is a step of the abstract specification or invisible to it.
LEMMA PromiseStep == RenderInv /\ RenderInv' /\ [Next]_vars => [Promise!Next]_(Promise!vars)
<1> SUFFICES ASSUME RenderInv, RenderInv', [Next]_vars PROVE [Promise!Next]_(Promise!vars)
    OBVIOUS
<1>1. TypeOK /\ TypeOK'
    BY DEF RenderInv
<1>2. CASE CommitResponse
    <2>1. phase \notin Terminal /\ phase' \notin Terminal /\ out.by = "none"
        BY <1>2 DEF CommitResponse, Terminal, RenderInv, CommitInv
    <2>2. out' = [by |-> "render", status |-> out'.status, header |-> live', sent |-> 0]
        BY <1>2 DEF CommitResponse
    <2>3. live' \in HeaderMaps
        BY <1>1 DEF TypeOK
    <2>4. out'.status \in FinalStatuses
        BY <1>2 DEF CommitResponse, StatusAccepted
    <2>5. Promise!Commit
        BY <2>1, <2>2, <2>3, <2>4 DEF Promise!Commit
    <2> QED BY <2>5 DEF Promise!Next
<1>3. CASE SendBody
    <2>1. phase = "committed" /\ phase' \in {"ok", "error"} /\ out.by = "render" /\ live' = live
        BY <1>3 DEF SendBody, RenderInv, CommitInv
    <2>2. out'.sent \in Nat /\ out' = [out EXCEPT !.sent = out'.sent]
        BY <1>1, <1>3, InputFacts DEF SendBody, TypeOK, OutType, BufferType
    <2>3. Promise!Finish
        BY <2>1, <2>2 DEF Promise!Finish, Terminal
    <2> QED BY <2>3 DEF Promise!Next
<1>4. CASE SelectRenderer \/ RejectRender \/ StartRender \/ Renderer \/ RejectProduced
    <2>1. phase \notin Terminal /\ out.by # "render" /\ UNCHANGED <<live, out>>
        BY <1>4 DEF SelectRenderer, RejectRender, StartRender, Renderer, RejectProduced, BeginHTML, RenderRedirect,
                    RendererSetHeader, RendererWriteHeader, RendererWrite, RendererFlush, RendererEnds, Fail,
                    Terminal, RenderInv, CommitInv
    <2>2. phase' # "ok"
        BY <1>4 DEF SelectRenderer, RejectRender, StartRender, Renderer, RejectProduced, BeginHTML, RenderRedirect,
                    RendererSetHeader, RendererWriteHeader, RendererWrite, RendererFlush, RendererEnds, Fail
    <2>3. CASE phase' \in Terminal
        <3>1. Promise!Fail
            BY <2>1, <2>2, <2>3 DEF Promise!Fail, Terminal
        <3> QED BY <3>1 DEF Promise!Next
    <2>4. CASE phase' \notin Terminal
        BY <2>1, <2>4 DEF Promise!vars
    <2> QED BY <2>3, <2>4
<1>5. CASE UNCHANGED vars
    BY <1>5 DEF vars, Promise!vars
<1> QED BY <1>2, <1>3, <1>4, <1>5 DEF Next

\* The connection's headers change only with the one commitment, a response
\* already sent is never replaced, a failure before the commitment is invisible.
THEOREM PromiseCorrect == Spec => PromiseKept
<1>1. Init => Promise!Init
    BY InputFacts DEF Init, Promise!Init, Terminal, Uncommitted, Earlier, NoHeader,
                      Promise!Uncommitted, Promise!Earlier, Promise!NoHeader
<1> QED BY <1>1, RenderInvInit, RenderInvStep, PromiseStep, PTL DEF Spec, PromiseKept, Promise!Spec

-----------------------------------------------------------------------------
(* Recorded errors and redirects *)

\* Applied to an empty map, headers are there under their canonical key: the
\* media type is there exactly when the response has one.
LEMMA RedirectBodyFacts ==
    RedirectBody("GET", ApplyHeaders(NoHeader, req.header)) = RedirectBody("GET", req.header)
<1>1. DOMAIN ApplyHeaders(NoHeader, req.header) = {Canonical(k) : k \in DOMAIN req.header}
    BY DEF ApplyHeaders, NoHeader
<1>2. \A k : Canonical(k) = "Content-Type" <=> k = "Content-Type"
    BY DEF Canonical
<1>3. "Content-Type" \in DOMAIN ApplyHeaders(NoHeader, req.header) <=> "Content-Type" \in DOMAIN req.header
    BY <1>1, <1>2
<1> QED BY <1>3 DEF RedirectBody

LEMMA SelectedInit == Init => SelectedInv
    BY DEF Init, SelectedInv, Uncommitted, Earlier

LEMMA SelectedStep == RenderInv /\ SelectedInv /\ [Next]_vars => SelectedInv'
<1> SUFFICES ASSUME RenderInv, SelectedInv, [Next]_vars PROVE SelectedInv'
    OBVIOUS
<1>1. out.by = "render" => phase \in {"committed", "ok", "error"}
    BY DEF RenderInv, CommitInv
<1>2. CASE SelectRenderer
    <2>1. req' = req \/ (req'.via = req.via /\ req'.causes = req.causes)
        BY <1>2 DEF SelectRenderer, RenderInv, TypeOK, RequestType
    <2>2. phase = "response" /\ phase' \in {"error", "start"} /\ out' = out /\ recorded' = req.causes
        BY <1>2 DEF SelectRenderer, CausesAttached
    <2> QED BY <1>1, <2>1, <2>2 DEF SelectedInv
<1>3. CASE RejectRender
    BY <1>1, <1>3 DEF RejectRender, Fail, SelectedInv, HeadRedirect
<1>4. CASE StartRender
    <2>1. /\ phase = "start" /\ UNCHANGED <<req, out, recorded>>
          /\ phase' = CASE req.kind = "none" -> "rendered" [] req.kind = "html" -> "html"
                        [] req.kind = "redirect" -> "redirect" [] OTHER -> "encode"
          /\ buf'.header = ApplyHeaders(NoHeader, req.header)
        BY <1>4 DEF StartRender, EmptyBuffer
    <2>2. /\ phase' = "redirect" => req.kind = "redirect"
          /\ phase' \in {"html", "encode", "rendered"} => req.kind # "redirect"
          /\ phase' # "response"
        BY <2>1
    <2> QED BY <1>1, <2>1, <2>2 DEF SelectedInv, HeadRedirect
<1>5. CASE RenderRedirect
    <2>1. phase = "redirect" /\ phase' \in {"panic", "rendered"} /\ UNCHANGED <<req, out, recorded>>
        BY <1>5 DEF RenderRedirect
    <2>2. ASSUME phase' = "rendered", HeadRedirect PROVE buf'.length = RedirectBody("GET", req.header)
        <3>1. RedirectMethod = "GET"
            BY <2>2 DEF HeadRedirect, RedirectMethod
        <3>2. buf'.length = RedirectBody(RedirectMethod, buf.header)
            BY <1>5, <2>2 DEF RenderRedirect
        <3> QED BY <2>1, <3>1, <3>2, RedirectBodyFacts DEF SelectedInv
    <2> QED BY <1>1, <2>1, <2>2 DEF SelectedInv, HeadRedirect
<1>6. CASE BeginHTML \/ RendererSetHeader \/ RendererWriteHeader \/ RendererWrite \/ RendererFlush \/ RendererEnds
    <2>1. /\ phase \in {"html", "encode"} /\ UNCHANGED <<req, out, recorded>>
          /\ phase' \in {"encode", "rendered", "error", "panic"}
        BY <1>6 DEF BeginHTML, RendererSetHeader, RendererWriteHeader, RendererWrite, RendererFlush, RendererEnds
    <2> QED BY <1>1, <2>1 DEF SelectedInv, HeadRedirect
<1>7. CASE RejectProduced
    BY <1>1, <1>7 DEF RejectProduced, Fail, SelectedInv, HeadRedirect
<1>8. CASE CommitResponse
    <2>1. /\ phase = "rendered" /\ phase' = "committed" /\ UNCHANGED <<req, recorded>>
          /\ buf'.length = buf.length
        BY <1>8 DEF CommitResponse, RenderInv, TypeOK, BufferType
    <2> QED BY <2>1 DEF SelectedInv, HeadRedirect
<1>9. CASE SendBody
    <2>1. /\ phase = "committed" /\ phase' \in {"ok", "error"} /\ UNCHANGED <<req, buf, recorded>>
          /\ out.by = "render"
        BY <1>9 DEF SendBody, RenderInv, CommitInv
    <2> QED BY <2>1 DEF SelectedInv, HeadRedirect
<1>10. CASE UNCHANGED vars
    BY <1>10 DEF vars, SelectedInv, HeadRedirect
<1> QED BY <1>2, <1>3, <1>4, <1>5, <1>6, <1>7, <1>8, <1>9, <1>10 DEF Next, Renderer

LEMMA SelectedCorrect == Spec => [](RenderInv /\ SelectedInv)
    BY RenderInvInit, RenderInvStep, SelectedInit, SelectedStep, PTL DEF Spec

\* However rendering ends, a response's internal errors were recorded
\* (response.go:163-171).
THEOREM CausesCorrect == Spec => []CausesKept
<1>1. SelectedInv => CausesKept
    BY DEF SelectedInv, CausesKept, Terminal
<1> QED BY <1>1, SelectedCorrect, PTL

\* A redirect answers HEAD with the length of its GET answer (render.go:122-123).
THEOREM HeadCorrect == Spec => []HeadDeclaresGetLength
<1>1. RenderInv /\ SelectedInv => HeadDeclaresGetLength
    BY DEF RenderInv, FramingMatchesBody, SelectedInv, HeadDeclaresGetLength
<1> QED BY <1>1, SelectedCorrect, PTL
=============================================================================
