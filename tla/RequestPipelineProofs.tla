------------------------ MODULE RequestPipelineProofs ------------------------
(***************************************************************************)
(* Proofs about RequestPipeline for every chain of route handlers and every*)
(* number of outputs: at most one response, how a failure ends, what the   *)
(* log says, how long uploads live and what an error response describes.   *)
(***************************************************************************)
EXTENDS RequestPipeline, TLAPS

-----------------------------------------------------------------------------
(* Writers and headers *)

\* The writers of a response are told apart.
LEMMA WriterFacts ==
    /\ MaxRenders \in Nat \ {0}
    /\ Attempts \subseteq Writers
    /\ Attempts = 1..MaxRenders
    /\ \A w \in {Raw, Responder, Fallback, Engine} : w \in Writers /\ w \notin Attempts
    /\ Nobody \notin Writers
BY PipelineAssumption DEF Attempts, Writers, Raw, Responder, Fallback, Engine, Nobody

\* A function from some of the names to writers is a header map.
LEMMA HeaderMapIntro ==
    ASSUME NEW S \in SUBSET Names, NEW h \in [S -> Writers]
    PROVE  h \in HeaderMaps
BY DEF HeaderMaps

\* A header map is a function from some of the names to writers.
LEMMA HeaderMapElim ==
    ASSUME NEW h \in HeaderMaps
    PROVE  DOMAIN h \in SUBSET Names /\ h \in [DOMAIN h -> Writers]
BY DEF HeaderMaps

\* The empty map is a header map.
LEMMA NoHeaderType == NoHeader \in HeaderMaps /\ DOMAIN NoHeader = {}
<1>1. NoHeader \in [{} -> Writers] /\ DOMAIN NoHeader = {}
    BY DEF NoHeader
<1> QED BY <1>1, HeaderMapIntro

\* Adding headers: every added name has the new writer, the others stay.
LEMMA AddedFacts ==
    ASSUME NEW h \in HeaderMaps, NEW names \in SUBSET Names, NEW w \in Writers
    PROVE  /\ Added(h, names, w) \in HeaderMaps
           /\ DOMAIN Added(h, names, w) = DOMAIN h \cup names
           /\ \A x \in DOMAIN h \cup names :
                 Added(h, names, w)[x] = IF x \in names THEN w ELSE h[x]
<1>1. DOMAIN h \cup names \in SUBSET Names
    BY HeaderMapElim
<1>2. Added(h, names, w) \in [DOMAIN h \cup names -> Writers]
    BY HeaderMapElim DEF Added
<1> QED BY <1>1, <1>2, HeaderMapIntro DEF Added

\* http.Header.Set adds one header.
LEMMA SetHeaderFacts ==
    ASSUME NEW h \in HeaderMaps, NEW n \in Names, NEW w \in Writers
    PROVE  /\ SetHeader(h, n, w) \in HeaderMaps
           /\ DOMAIN SetHeader(h, n, w) = DOMAIN h \cup {n}
           /\ \A x \in DOMAIN h \cup {n} :
                 SetHeader(h, n, w)[x] = IF x = n THEN w ELSE h[x]
<1>1. DOMAIN h \cup {n} \in SUBSET Names
    BY HeaderMapElim
<1>2. SetHeader(h, n, w) \in [DOMAIN h \cup {n} -> Writers]
    BY HeaderMapElim DEF SetHeader
<1> QED BY <1>1, <1>2, HeaderMapIntro DEF SetHeader

\* clearContentHeaders keeps every other header, the request ID among them.
LEMMA ClearFacts ==
    ASSUME NEW h \in HeaderMaps
    PROVE  /\ ClearContentHeaders(h) \in HeaderMaps
           /\ DOMAIN ClearContentHeaders(h) = DOMAIN h \ {"content"}
           /\ \A x \in DOMAIN h \ {"content"} : ClearContentHeaders(h)[x] = h[x]
<1>1. DOMAIN h \ {"content"} \in SUBSET Names
    BY HeaderMapElim
<1>2. ClearContentHeaders(h) \in [DOMAIN h \ {"content"} -> Writers]
    BY HeaderMapElim DEF ClearContentHeaders
<1> QED BY <1>1, <1>2, HeaderMapIntro DEF ClearContentHeaders

\* What a writer sends is a response.
LEMMA SentFacts ==
    ASSUME NEW w \in Writers, NEW s \in Statuses, NEW h \in HeaderMaps, NEW parts \in SUBSET Writers
    PROVE  /\ Sent(w, s, h, parts) \in WireType
           /\ Sent(w, s, h, parts).by = w
           /\ Sent(w, s, h, parts).status = s
           /\ Sent(w, s, h, parts).header = h
           /\ Sent(w, s, h, parts).parts = parts
           /\ Sent(w, s, h, parts).by # Nobody
BY WriterFacts DEF Sent, WireType

\* More body parts change nothing else of a response.
LEMMA MoreFacts ==
    ASSUME NEW w \in WireType, NEW parts \in SUBSET Writers
    PROVE  /\ [w EXCEPT !.parts = @ \cup parts] \in WireType
           /\ [w EXCEPT !.parts = @ \cup parts].by = w.by
           /\ [w EXCEPT !.parts = @ \cup parts].status = w.status
           /\ [w EXCEPT !.parts = @ \cup parts].header = w.header
           /\ [w EXCEPT !.parts = @ \cup parts].parts = w.parts \cup parts
BY DEF WireType

\* Application code writes as itself: as its output, as the responder, or raw.
LEMMA AuthorFacts ==
    ASSUME TypeOK, RendersInv, InApplication
    PROVE  /\ Author \in Writers
           /\ Author \in Attempts => pc = "output" /\ Author = renders
           /\ pc = "output" => Author = renders
           /\ pc = "responder" => Author = Responder
           /\ InHandler => Author = Raw
<1>1. CASE pc = "output"
    <2>1. renders \in Attempts
        BY <1>1, WriterFacts DEF TypeOK, RendersInv, Rendering
    <2> QED BY <1>1, <2>1, WriterFacts DEF Author, InHandler
<1>2. CASE pc = "responder"
    BY <1>2, WriterFacts DEF Author, InHandler
<1>3. CASE InHandler
    BY <1>3, WriterFacts DEF Author, InHandler
<1> QED BY <1>1, <1>2, <1>3 DEF InApplication, InHandler

\* The route handlers are a sequence.
LEMMA ChainFacts == ASSUME NEW c \in Chains PROVE Len(c) \in Nat
<1>1. c \in Seq({"typed", "wrap", "plain"})
    BY PipelineAssumption
<1> QED BY <1>1

\* What steps do to the headers leaves a header map.
LEMMA HeaderSteps ==
    ASSUME NEW h \in HeaderMaps, NEW w \in Writers
    PROVE  /\ \A n \in {"rid", "content", "other"} : SetHeader(h, n, w) \in HeaderMaps
           /\ \A names \in SUBSET {"content", "other"} : Added(h, names, w) \in HeaderMaps
           /\ Added(h, {"content"}, w) \in HeaderMaps
           /\ Added(h, {"content", "other"}, w) \in HeaderMaps
           /\ ClearContentHeaders(h) \in HeaderMaps
<1>1. \A names \in SUBSET {"content", "other"} : Added(h, names, w) \in HeaderMaps
    BY AddedFacts DEF Names
<1>2. \A n \in {"rid", "content", "other"} : SetHeader(h, n, w) \in HeaderMaps
    BY SetHeaderFacts DEF Names
<1> QED BY <1>1, <1>2, ClearFacts

\* Whoever sends a response, it is one.
LEMMA SentSteps ==
    \A w \in Writers, s \in Statuses, h \in HeaderMaps : \A parts \in SUBSET {w} : Sent(w, s, h, parts) \in WireType
BY SentFacts

\* An attempt to render is a writer, and has a place to return to.
LEMMA AttemptFacts ==
    ASSUME TypeOK, RendersInv
    PROVE  /\ pc \in Rendering => renders \in Attempts /\ renders \in Writers
           /\ pc \in Rendering \cup {"render"} => resume \in {"handler", "cleanup"}
<1>1. renders \in 0..MaxRenders /\ resume \in {"none", "handler", "cleanup"}
    BY DEF TypeOK
<1>2. pc \in Rendering => renders > 0
    BY DEF RendersInv
<1>3. pc \in Rendering \cup {"render"} => resume # "none"
    BY DEF RendersInv
<1> QED BY <1>1, <1>2, <1>3, WriterFacts

\* Sending an output is type correct, as is sending the fallback.
LEMMA CommitType ==
    ASSUME TypeOK, renders \in Writers
    PROVE  /\ \A s \in Statuses, names \in SUBSET {"content", "other"}, parts \in SUBSET {renders} :
                 Commit(s, names, parts) =>
                    header' \in HeaderMaps /\ status' \in Statuses /\ wire' \in WireType /\ unanswered' \in BOOLEAN
<1> SUFFICES ASSUME NEW s \in Statuses, NEW names \in SUBSET {"content", "other"}, NEW parts \in SUBSET {renders},
                    Commit(s, names, parts)
             PROVE  header' \in HeaderMaps /\ status' \in Statuses /\ wire' \in WireType /\ unanswered' \in BOOLEAN
    OBVIOUS
<1>1. header' \in HeaderMaps
    BY HeaderSteps DEF Commit, TypeOK
<1>2. wire' \in WireType
    BY <1>1, SentSteps DEF Commit
<1> QED BY <1>1, <1>2 DEF Commit

\* ErrorHandler's own response is a response.
LEMMA FallbackType ==
    ASSUME TypeOK, SendFallback(ClearContentHeaders(header))
    PROVE  header' \in HeaderMaps /\ status' \in Statuses /\ wire' \in WireType /\ unanswered' \in BOOLEAN
<1>1. header' \in HeaderMaps
    BY ClearFacts DEF SendFallback, TypeOK
<1>2. 500 \in Statuses
    BY DEF Statuses
<1>3. wire' \in WireType
    BY <1>1, <1>2, SentSteps, WriterFacts DEF SendFallback
<1> QED BY <1>1, <1>2, <1>3 DEF SendFallback

\* Every error that is recorded has a kind.
LEMMA ErrorSteps ==
    ASSUME NEW E \in SUBSET ErrorKinds
    PROVE  /\ \A e \in {"failure", "broken", "cleanup"} : E \cup {e} \in SUBSET ErrorKinds
           /\ \A causes \in SUBSET {"failure"} : E \cup causes \in SUBSET ErrorKinds
BY DEF ErrorKinds

-----------------------------------------------------------------------------
(* Type correctness *)

\* A new request has the types.
LEMMA TypeInit == Init => TypeOK
<1>1. NoResponse \in WireType
    BY NoHeaderType DEF NoResponse, WireType
<1>2. NoRecord \in RecordType
    BY DEF NoRecord, RecordType
<1>3. Init => 0 \in 0..Len(chain) /\ 0 \in 0..MaxRenders
    <2>1. ASSUME Init PROVE chain \in Seq({"typed", "wrap", "plain"}) /\ MaxRenders \in Nat
        BY <2>1, PipelineAssumption DEF Init
    <2> QED BY <2>1
<1> QED BY <1>1, <1>2, <1>3, NoHeaderType DEF Init, TypeOK, Statuses

\* No step leaves them; XGin.Render needs to know where it returns to.
LEMMA TypeStep == TypeOK /\ RendersInv /\ [Next]_vars => TypeOK'
<1> SUFFICES ASSUME TypeOK, RendersInv, [Next]_vars PROVE TypeOK'
    OBVIOUS
<1>a. /\ pc \in Rendering => renders \in Writers
      /\ pc \in Rendering \cup {"render"} => resume \in {"handler", "cleanup"}
    BY AttemptFacts
<1>b. InApplication => Author \in Writers
    BY AuthorFacts
<1> USE DEF TypeOK, Ended, static, control, response, rendering, outcome, others
<1>1. CASE AssignRequestID
    BY <1>1, HeaderSteps, WriterFacts DEF AssignRequestID
<1>2. CASE LogStart
    BY <1>2 DEF LogStart
<1>3. CASE Dispatch
    <2>1. Len(chain) \in Nat /\ chain' = chain
        BY <1>3, ChainFacts DEF Dispatch
    <2>2. route' \in 0..Len(chain) /\ pc' \in {"bind", "handler", "errors"}
        BY <1>3, <2>1 DEF Dispatch, MoreHandlers, Advance
    <2> QED BY <1>3, <2>1, <2>2 DEF Dispatch
<1>4. CASE Bind
    BY <1>4 DEF Bind
<1>5. CASE MapRequestError
    BY <1>5 DEF MapRequestError
<1>6. CASE CleanupUploads
    BY <1>6, ErrorSteps DEF CleanupUploads
<1>7. CASE AppSetHeader
    BY <1>7, <1>b, HeaderSteps DEF AppSetHeader
<1>8. CASE AppSetStatus
    BY <1>8 DEF AppSetStatus
<1>9. CASE AppWrite
    <2>1. PICK parts \in SUBSET {Author} :
              wire' = IF Written THEN [wire EXCEPT !.parts = @ \cup parts]
                                 ELSE Sent(Author, status, header, parts)
        BY <1>9 DEF AppWrite
    <2>2. Author \in Writers
        BY <1>9, <1>b DEF AppWrite
    <2>3. wire' \in WireType
        BY <2>1, <2>2, SentSteps, MoreFacts
    <2> QED BY <1>9, <2>3 DEF AppWrite
<1>10. CASE AppRecordError
    BY <1>10, ErrorSteps DEF AppRecordError
<1>11. CASE AppAbort
    BY <1>11 DEF AppAbort
<1>12. CASE AppParseForm
    BY <1>12 DEF AppParseForm, InHandler
<1>13. CASE AppRespond
    BY <1>13 DEF AppRespond
<1>14. CASE HandlerReturns
    BY <1>14 DEF HandlerReturns
<1>15. CASE HandlerPanics
    BY <1>15 DEF HandlerPanics
<1>16. CASE OutputEnds
    BY <1>16, <1>a DEF OutputEnds, Rendering
<1>17. CASE RejectSecondOutput
    BY <1>17, <1>a, ErrorSteps DEF RejectSecondOutput
<1>18. CASE BeginOutput
    <2>1. renders' \in 0..MaxRenders
        <3>1. renders < MaxRenders
            BY <1>18, WriterFacts DEF BeginOutput, RendersInv
        <3> QED BY <1>18, <3>1, WriterFacts DEF BeginOutput
    <2> QED BY <1>18, <2>1 DEF BeginOutput
<1>19. CASE RenderFinite
    <2>1. errs' \in SUBSET ErrorKinds
        BY <1>19, ErrorSteps DEF RenderFinite
    <2>2. header' \in HeaderMaps /\ status' \in Statuses /\ wire' \in WireType /\ unanswered' \in BOOLEAN
        BY <1>19, <1>a, CommitType DEF RenderFinite, Rendering
    <2> QED BY <1>19, <1>a, <2>1, <2>2 DEF RenderFinite, Rendering
<1>20. CASE OpenFile
    BY <1>20, <1>a, HeaderSteps DEF OpenFile, Rendering
<1>21. CASE StreamFile
    <2>1. header' \in HeaderMaps /\ status' \in Statuses /\ wire' \in WireType /\ unanswered' \in BOOLEAN
        BY <1>21, <1>a, CommitType DEF StreamFile, Rendering
    <2> QED BY <1>21, <1>a, <2>1 DEF StreamFile, Rendering
<1>22. CASE FailOutput
    <2>1. header' \in HeaderMaps /\ status' \in Statuses /\ unanswered' \in BOOLEAN
        <3>1. CASE ~Written
            BY <1>22, <3>1 DEF FailOutput, Restored, FailedStatus, Statuses
        <3>2. CASE Written
            BY <1>22, <3>2 DEF FailOutput
        <3> QED BY <3>1, <3>2
    <2>2. errs' \in SUBSET ErrorKinds
        BY <1>22, ErrorSteps DEF FailOutput
    <2> QED BY <1>22, <1>a, <2>1, <2>2 DEF FailOutput, Rendering
<1>23. CASE Recover
    <2>1. status' \in Statuses
        BY <1>23 DEF Recover, Statuses
    <2>2. unanswered' \in BOOLEAN
        BY <1>23, Zenon DEF Recover
    <2>3. errs' \in SUBSET ErrorKinds
        BY <1>23, ErrorSteps DEF Recover
    <2> QED BY <1>23, <2>1, <2>2, <2>3 DEF Recover
<1>24. CASE LeaveAlone
    BY <1>24 DEF LeaveAlone
<1>25. CASE LeaveBrokenConnection
    BY <1>25, ClearFacts DEF LeaveBrokenConnection
<1>26. CASE BeginErrorResponse
    <2>1. header' \in HeaderMaps /\ status' \in Statuses /\ wire' \in WireType /\ unanswered' \in BOOLEAN
        BY <1>26, ClearFacts, FallbackType DEF BeginErrorResponse
    <2> QED BY <1>26, <2>1 DEF BeginErrorResponse
<1>27. CASE ErrorResponseEnds
    <2>1. header' \in HeaderMaps /\ status' \in Statuses /\ wire' \in WireType /\ unanswered' \in BOOLEAN
        BY <1>27, FallbackType DEF ErrorResponseEnds
    <2>2. errs' \in SUBSET ErrorKinds
        BY <1>27, ErrorSteps DEF ErrorResponseEnds
    <2> QED BY <1>27, <2>1, <2>2 DEF ErrorResponseEnds
<1>28. CASE LogFinish
    <2>1. [status |-> status, errs |-> errs] \in RecordType
        BY DEF RecordType
    <2> QED BY <1>28, <2>1 DEF LogFinish, LoggedStatus
<1>29. CASE EngineWritesHeader
    BY <1>29, SentSteps, WriterFacts DEF EngineWritesHeader
<1>30. CASE EngineEnds
    BY <1>30 DEF EngineEnds
<1>31. CASE UNCHANGED vars
    BY <1>31 DEF vars
<1> QED
    BY <1>1, <1>2, <1>3, <1>4, <1>5, <1>6, <1>7, <1>8, <1>9, <1>10, <1>11, <1>12, <1>13, <1>14, <1>15, <1>16,
       <1>17, <1>18, <1>19, <1>20, <1>21, <1>22, <1>23, <1>24, <1>25, <1>26, <1>27, <1>28, <1>29, <1>30, <1>31
    DEF Next, Application, ApplicationEnds, Framework

-----------------------------------------------------------------------------
(* The inductive invariant *)

\* XGin.Render marks the request aborted, so no route handler is entered after
\* it, and outputs nest only by Context.Response.
LEMMA RendersStep == TypeOK /\ RendersInv /\ [Next]_vars => RendersInv'
<1> SUFFICES ASSUME TypeOK, RendersInv, [Next]_vars PROVE RendersInv'
    OBVIOUS
<1>a. renders \in Nat /\ renders + 1 > 0 /\ 0 < MaxRenders
    <2>1. renders \in 0..MaxRenders
        BY DEF TypeOK
    <2> QED BY <2>1, WriterFacts
<1>b. ~aborted => renders = 0
    <2>1. renders > 0 => aborted
        BY DEF RendersInv
    <2> QED BY <1>a, <2>1
<1> USE WriterFacts DEF TypeOK, RendersInv, Rendering, static, control, rendering
<1>1. CASE AssignRequestID
    BY <1>1 DEF AssignRequestID
<1>2. CASE LogStart
    BY <1>2 DEF LogStart
<1>3. CASE Dispatch
    <2>1. pc' \in {"bind", "handler"} => ~aborted
        BY <1>3 DEF Dispatch, MoreHandlers
    <2>2. renders' = renders /\ aborted' = aborted /\ pc' \in {"bind", "handler", "errors"}
        BY <1>3 DEF Dispatch
    <2> HIDE DEF TypeOK
    <2> QED BY <1>a, <1>b, <2>1, <2>2
<1>4. CASE Bind
    BY <1>4 DEF Bind
<1>5. CASE MapRequestError
    BY <1>5 DEF MapRequestError
<1>6. CASE CleanupUploads
    BY <1>6 DEF CleanupUploads
<1>7. CASE AppSetHeader
    BY <1>7 DEF AppSetHeader
<1>8. CASE AppSetStatus
    BY <1>8 DEF AppSetStatus
<1>9. CASE AppWrite
    BY <1>9 DEF AppWrite
<1>10. CASE AppRecordError
    BY <1>10 DEF AppRecordError
<1>11. CASE AppAbort
    BY <1>11 DEF AppAbort
<1>12. CASE AppParseForm
    BY <1>12 DEF AppParseForm, InHandler
<1>13. CASE AppRespond
    BY <1>13 DEF AppRespond
<1>14. CASE HandlerReturns
    BY <1>14 DEF HandlerReturns
<1>15. CASE HandlerPanics
    BY <1>15 DEF HandlerPanics
<1>16. CASE OutputEnds
    BY <1>16 DEF OutputEnds
<1>17. CASE RejectSecondOutput
    <2>1. aborted' /\ renders' = renders /\ resume' = resume /\ pc' = resume
        BY <1>17 DEF RejectSecondOutput
    <2>2. resume = "handler" \/ resume = "cleanup"
        BY <1>17 DEF RejectSecondOutput
    <2>3. resume = "handler" => renders < MaxRenders
        BY <1>17 DEF RejectSecondOutput
    <2> QED BY <2>1, <2>2, <2>3
<1>18. CASE BeginOutput
    <2>1. aborted' /\ renders' = renders + 1 /\ resume' = resume /\ pc' \in Rendering
        BY <1>18 DEF BeginOutput
    <2>2. resume # "none" /\ (resume = "handler" => renders + 1 < MaxRenders)
        BY <1>18 DEF BeginOutput
    <2> HIDE DEF TypeOK
    <2> QED BY <1>a, <2>1, <2>2
<1>19. CASE RenderFinite
    BY <1>19 DEF RenderFinite
<1>20. CASE OpenFile
    BY <1>20 DEF OpenFile
<1>21. CASE StreamFile
    BY <1>21 DEF StreamFile
<1>22. CASE FailOutput
    BY <1>22 DEF FailOutput
<1>23. CASE Recover
    BY <1>23 DEF Recover
<1>24. CASE LeaveAlone
    BY <1>24 DEF LeaveAlone
<1>25. CASE LeaveBrokenConnection
    BY <1>25 DEF LeaveBrokenConnection
<1>26. CASE BeginErrorResponse
    BY <1>26 DEF BeginErrorResponse
<1>27. CASE ErrorResponseEnds
    BY <1>27 DEF ErrorResponseEnds
<1>28. CASE LogFinish
    BY <1>28 DEF LogFinish
<1>29. CASE EngineWritesHeader
    BY <1>29 DEF EngineWritesHeader
<1>30. CASE EngineEnds
    BY <1>30 DEF EngineEnds
<1>31. CASE UNCHANGED vars
    BY <1>31 DEF vars
<1> QED
    BY <1>1, <1>2, <1>3, <1>4, <1>5, <1>6, <1>7, <1>8, <1>9, <1>10, <1>11, <1>12, <1>13, <1>14, <1>15, <1>16,
       <1>17, <1>18, <1>19, <1>20, <1>21, <1>22, <1>23, <1>24, <1>25, <1>26, <1>27, <1>28, <1>29, <1>30, <1>31
    DEF Next, Application, ApplicationEnds, Framework

\* A response sent while an output or the responder runs is its own.
LEMMA SenderStep == TypeOK /\ RendersInv /\ SenderInv /\ [Next]_vars => SenderInv'
<1> SUFFICES ASSUME TypeOK, RendersInv, SenderInv, [Next]_vars PROVE SenderInv'
    OBVIOUS
<1> USE DEF TypeOK, SenderInv, Written, Rendering, static, control, response, rendering
<1>1. CASE AssignRequestID
    BY <1>1 DEF AssignRequestID
<1>2. CASE LogStart
    BY <1>2 DEF LogStart
<1>3. CASE Dispatch
    BY <1>3 DEF Dispatch
<1>4. CASE Bind
    BY <1>4 DEF Bind
<1>5. CASE MapRequestError
    BY <1>5 DEF MapRequestError
<1>6. CASE CleanupUploads
    BY <1>6 DEF CleanupUploads
<1>7. CASE AppSetHeader
    BY <1>7 DEF AppSetHeader
<1>8. CASE AppSetStatus
    BY <1>8 DEF AppSetStatus
<1>9. CASE AppWrite
    <2>1. PICK parts \in SUBSET {Author} :
              wire' = IF Written THEN [wire EXCEPT !.parts = @ \cup parts]
                                 ELSE Sent(Author, status, header, parts)
        BY <1>9 DEF AppWrite
    <2>2. Author \in Writers /\ (pc = "output" => Author = renders) /\ (pc = "responder" => Author = Responder)
        BY <1>9, AuthorFacts DEF AppWrite
    <2>3. wire'.by = IF Written THEN wire.by ELSE Author
        <3>1. CASE Written
            BY <2>1, <3>1, <2>2, MoreFacts
        <3>2. CASE ~Written
            <4>1. wire' = Sent(Author, status, header, parts)
                BY <2>1, <3>2
            <4> QED BY <4>1, <3>2 DEF Sent
        <3> QED BY <3>1, <3>2
    <2> QED BY <1>9, <2>2, <2>3 DEF AppWrite, InApplication, InHandler
<1>10. CASE AppRecordError
    BY <1>10 DEF AppRecordError
<1>11. CASE AppAbort
    BY <1>11 DEF AppAbort
<1>12. CASE AppParseForm
    BY <1>12 DEF AppParseForm, InHandler
<1>13. CASE AppRespond
    BY <1>13 DEF AppRespond
<1>14. CASE HandlerReturns
    BY <1>14 DEF HandlerReturns
<1>15. CASE HandlerPanics
    BY <1>15 DEF HandlerPanics
<1>16. CASE OutputEnds
    BY <1>16 DEF OutputEnds
<1>17. CASE RejectSecondOutput
    BY <1>17 DEF RejectSecondOutput
<1>18. CASE BeginOutput
    BY <1>18 DEF BeginOutput
<1>19. CASE RenderFinite
    BY <1>19 DEF RenderFinite
<1>20. CASE OpenFile
    BY <1>20 DEF OpenFile
<1>21. CASE StreamFile
    BY <1>21 DEF StreamFile
<1>22. CASE FailOutput
    BY <1>22 DEF FailOutput
<1>23. CASE Recover
    BY <1>23 DEF Recover
<1>24. CASE LeaveAlone
    BY <1>24 DEF LeaveAlone
<1>25. CASE LeaveBrokenConnection
    BY <1>25 DEF LeaveBrokenConnection
<1>26. CASE BeginErrorResponse
    BY <1>26 DEF BeginErrorResponse, NeedsResponse
<1>27. CASE ErrorResponseEnds
    BY <1>27 DEF ErrorResponseEnds
<1>28. CASE LogFinish
    BY <1>28 DEF LogFinish
<1>29. CASE EngineWritesHeader
    BY <1>29 DEF EngineWritesHeader
<1>30. CASE EngineEnds
    BY <1>30 DEF EngineEnds
<1>31. CASE UNCHANGED vars
    BY <1>31 DEF vars
<1> QED
    BY <1>1, <1>2, <1>3, <1>4, <1>5, <1>6, <1>7, <1>8, <1>9, <1>10, <1>11, <1>12, <1>13, <1>14, <1>15, <1>16,
       <1>17, <1>18, <1>19, <1>20, <1>21, <1>22, <1>23, <1>24, <1>25, <1>26, <1>27, <1>28, <1>29, <1>30, <1>31
    DEF Next, Application, ApplicationEnds, Framework

\* Steps that leave headers and response alone keep what is known of them, if
\* XGin.Render is left only once the response was sent.
LEMMA QuietHeaders ==
    ASSUME HeadersInv, NoLeakedHeaders, RequestIDSurvives,
           UNCHANGED <<header, saved, renders, wire>>,
           pc' \in Rendering => pc \in Rendering,
           pc \in Rendering => pc' \in Rendering \/ Written,
           pc \in {"request id", "torn down"} => pc' \in {"request id", "torn down"}
    PROVE  HeadersInv' /\ NoLeakedHeaders' /\ RequestIDSurvives'
<1>1. NoLeakedHeaders' /\ RequestIDSurvives'
    BY DEF NoLeakedHeaders, RequestIDSurvives
<1>2. HeadersInv'
    BY DEF HeadersInv, Written
<1> QED BY <1>1, <1>2

\* A response with the request ID, and with its own output's headers only, is
\* one the client may get.
LEMMA SentHeaders ==
    ASSUME NEW w \in Writers, NEW s, NEW h, NEW parts,
           wire' = Sent(w, s, h, parts),
           "rid" \in DOMAIN h,
           \A n \in DOMAIN h : h[n] \in Attempts => h[n] = w
    PROVE  NoLeakedHeaders' /\ RequestIDSurvives' /\ Written'
<1>1. wire'.by = w /\ wire'.header = h
    BY DEF Sent
<1> QED BY <1>1, WriterFacts DEF NoLeakedHeaders, RequestIDSurvives, Written

\* Outside XGin.Render, once a response was sent, all that counts is the ID.
LEMMA WrittenHeaders ==
    ASSUME Written', "rid" \in DOMAIN header', pc' \in Rendering => "rid" \in DOMAIN saved'
    PROVE  HeadersInv'
BY DEF HeadersInv, Written

\* XGin.Render sends the headers it found and those of its output.
LEMMA CommitHeaders ==
    ASSUME TypeOK, HeadersInv, ~Written, pc \in Rendering, renders \in Writers,
           NEW s, NEW names \in SUBSET {"content", "other"}, NEW parts,
           Commit(s, names, parts)
    PROVE  /\ NoLeakedHeaders' /\ RequestIDSurvives' /\ Written'
           /\ "rid" \in DOMAIN header'
<1>1. header \in HeaderMaps /\ names \in SUBSET Names
    BY DEF TypeOK, Names
<1>2. "rid" \in DOMAIN header /\ \A n \in DOMAIN header : header[n] \in Attempts => header[n] = renders
    BY DEF HeadersInv, Rendering
<1>3. header' = Added(header, names, renders) /\ wire' = Sent(renders, s, header', parts)
    BY DEF Commit
<1>4. "rid" \in DOMAIN header' /\ \A n \in DOMAIN header' : header'[n] \in Attempts => header'[n] = renders
    <2>1. /\ DOMAIN header' = DOMAIN header \cup names
          /\ \A x \in DOMAIN header \cup names : header'[x] = IF x \in names THEN renders ELSE header[x]
        BY <1>1, <1>3, AddedFacts
    <2> QED BY <1>2, <2>1
<1> QED BY <1>3, <1>4, SentHeaders

\* ErrorHandler's own response carries no header of a failed output.
LEMMA FallbackHeaders ==
    ASSUME TypeOK, HeadersInv, ~Written, pc \notin Rendering \cup {"request id", "torn down"},
           SendFallback(ClearContentHeaders(header))
    PROVE  /\ NoLeakedHeaders' /\ RequestIDSurvives' /\ Written'
           /\ "rid" \in DOMAIN header'
<1>1. header \in HeaderMaps
    BY DEF TypeOK
<1>2. "rid" \in DOMAIN header /\ \A n \in DOMAIN header : header[n] \notin Attempts
    BY DEF HeadersInv
<1>3. header' = ClearContentHeaders(header) /\ wire' = Sent(Fallback, 500, header', {})
    BY DEF SendFallback
<1>4. "rid" \in DOMAIN header' /\ \A n \in DOMAIN header' : header'[n] \notin Attempts
    BY <1>1, <1>2, <1>3, ClearFacts
<1> QED BY <1>3, <1>4, SentHeaders, WriterFacts

\* An output's headers are in the connection's map only while it is rendered.
LEMMA HeadersStep ==
    ASSUME TypeOK, RendersInv, SenderInv, HeadersInv, NoLeakedHeaders, RequestIDSurvives, [Next]_vars
    PROVE  HeadersInv' /\ NoLeakedHeaders' /\ RequestIDSurvives'
<1>a. header \in HeaderMaps /\ saved \in HeaderMaps
    BY DEF TypeOK
<1>b. pc \in Rendering => renders \in Attempts /\ renders \in Writers
    BY AttemptFacts
<1>c. pc \in Rendering \cup {"render"} => resume \in {"handler", "cleanup"}
    BY AttemptFacts
<1>d. wire' = wire => NoLeakedHeaders' /\ RequestIDSurvives' /\ (Written' <=> Written)
    BY DEF NoLeakedHeaders, RequestIDSurvives, Written
<1>1. CASE AssignRequestID
    <2>1. CASE pc' = "torn down"
        BY <1>1, <2>1, <1>d, QuietHeaders DEF AssignRequestID, Rendering, rendering, response
    <2>2. CASE pc' = "log start"
        <3>1. header' = SetHeader(header, "rid", Raw) /\ UNCHANGED <<saved, renders, wire>>
            BY <1>1, <2>2 DEF AssignRequestID, rendering
        <3>2. /\ DOMAIN header' = DOMAIN header \cup {"rid"}
              /\ \A x \in DOMAIN header \cup {"rid"} : header'[x] = IF x = "rid" THEN Raw ELSE header[x]
            <4>1. "rid" \in Names /\ Raw \in Writers
                BY WriterFacts DEF Names
            <4>2. /\ DOMAIN SetHeader(header, "rid", Raw) = DOMAIN header \cup {"rid"}
                  /\ \A x \in DOMAIN header \cup {"rid"} :
                        SetHeader(header, "rid", Raw)[x] = IF x = "rid" THEN Raw ELSE header[x]
                BY <1>a, <4>1, SetHeaderFacts, Zenon
            <4> QED BY <3>1, <4>2
        <3>3. ~Written => \A n \in DOMAIN header' : header'[n] \notin Attempts
            BY <1>1, <3>2, WriterFacts DEF AssignRequestID, HeadersInv, Rendering
        <3>4. HeadersInv'
            BY <2>2, <3>2, <3>3, <1>d, <3>1 DEF HeadersInv, Rendering
        <3> QED BY <3>1, <3>4, <1>d
    <2> QED BY <1>1, <2>1, <2>2 DEF AssignRequestID
<1>2. CASE LogStart
    BY <1>2, <1>c, QuietHeaders DEF LogStart, Rendering, response, rendering
<1>3. CASE Dispatch
    BY <1>3, <1>c, QuietHeaders DEF Dispatch, Rendering, response, rendering
<1>4. CASE Bind
    BY <1>4, <1>c, QuietHeaders DEF Bind, Rendering, response, rendering
<1>5. CASE MapRequestError
    BY <1>5, <1>c, QuietHeaders DEF MapRequestError, Rendering, response, rendering
<1>6. CASE CleanupUploads
    BY <1>6, <1>c, QuietHeaders DEF CleanupUploads, Rendering, response, rendering
<1>7. CASE AppSetHeader
    <2>1. PICK n \in {"content", "other"} : header' = SetHeader(header, n, Author)
        BY <1>7 DEF AppSetHeader
    <2>2. UNCHANGED <<pc, saved, renders, wire>>
        BY <1>7 DEF AppSetHeader, rendering
    <2>3. Author \in Writers /\ (Author \in Attempts => pc \in Rendering /\ Author = renders)
        BY <1>7, AuthorFacts DEF AppSetHeader, Rendering
    <2>4. /\ DOMAIN header' = DOMAIN header \cup {n}
          /\ \A x \in DOMAIN header \cup {n} : header'[x] = IF x = n THEN Author ELSE header[x]
        <3>1. n \in Names
            BY DEF Names
        <3> QED BY <1>a, <2>1, <2>3, <3>1, SetHeaderFacts
    <2>5. HeadersInv'
        BY <2>2, <2>3, <2>4, <1>d DEF HeadersInv
    <2> QED BY <2>2, <2>5, <1>d
<1>8. CASE AppSetStatus
    BY <1>8, <1>c, QuietHeaders DEF AppSetStatus, Rendering, response, rendering
<1>9. CASE AppWrite
    <2>1. PICK parts \in SUBSET {Author} :
              wire' = IF Written THEN [wire EXCEPT !.parts = @ \cup parts]
                                 ELSE Sent(Author, status, header, parts)
        BY <1>9 DEF AppWrite
    <2>2. UNCHANGED <<pc, header, saved, renders>> /\ pc \notin {"request id", "torn down"}
        BY <1>9 DEF AppWrite, rendering, InApplication, InHandler
    <2>3. Author \in Writers /\ (pc \in Rendering => Author = renders)
        BY <1>9, AuthorFacts DEF AppWrite, Rendering, InApplication, InHandler
    <2>4. "rid" \in DOMAIN header /\ (pc \in Rendering => "rid" \in DOMAIN saved)
        BY <2>2 DEF HeadersInv
    <2>5. CASE Written
        <3>1. wire \in WireType /\ parts \in SUBSET Writers
            BY <2>3 DEF TypeOK
        <3>2. wire'.by = wire.by /\ wire'.header = wire.header
            BY <2>1, <2>5, <3>1, MoreFacts
        <3>3. Written' /\ NoLeakedHeaders' /\ RequestIDSurvives'
            BY <2>5, <3>2 DEF Written, NoLeakedHeaders, RequestIDSurvives
        <3> QED BY <2>2, <2>4, <3>3, WrittenHeaders
    <2>6. CASE ~Written
        <3>1. wire' = Sent(Author, status, header, parts)
            BY <2>1, <2>6
        <3>2. \A n \in DOMAIN header : header[n] \in Attempts => header[n] = Author
            BY <2>3, <2>6 DEF HeadersInv
        <3>3. Written' /\ NoLeakedHeaders' /\ RequestIDSurvives'
            BY <2>3, <2>4, <3>1, <3>2, SentHeaders
        <3> QED BY <2>2, <2>4, <3>3, WrittenHeaders
    <2> QED BY <2>5, <2>6
<1>10. CASE AppRecordError
    BY <1>10, <1>c, QuietHeaders DEF AppRecordError, Rendering, response, rendering
<1>11. CASE AppAbort
    BY <1>11, <1>c, QuietHeaders DEF AppAbort, Rendering, response, rendering
<1>12. CASE AppParseForm
    BY <1>12, <1>c, QuietHeaders DEF AppParseForm, InHandler, Rendering, response, rendering
<1>13. CASE AppRespond
    BY <1>13, <1>c, QuietHeaders DEF AppRespond, Rendering, response, rendering
<1>14. CASE HandlerReturns
    BY <1>14, <1>c, QuietHeaders DEF HandlerReturns, Rendering, response, rendering
<1>15. CASE HandlerPanics
    BY <1>15, <1>c, QuietHeaders DEF HandlerPanics, Rendering, response, rendering
<1>16. CASE OutputEnds
    BY <1>16, <1>c, QuietHeaders DEF OutputEnds, Rendering, response, rendering
<1>17. CASE RejectSecondOutput
    BY <1>17, <1>c, QuietHeaders DEF RejectSecondOutput, Rendering, response, rendering
<1>18. CASE BeginOutput
    <2>1. UNCHANGED <<header, wire>> /\ saved' = header /\ renders' = renders + 1
        BY <1>18 DEF BeginOutput, response
    <2>2. pc = "render" /\ pc' \in Rendering /\ ~Written
        BY <1>18 DEF BeginOutput, Rendering
    <2>3. "rid" \in DOMAIN header /\ \A n \in DOMAIN header : header[n] \notin Attempts
        BY <2>2 DEF HeadersInv, Rendering
    <2>4. HeadersInv'
        BY <2>1, <2>2, <2>3 DEF HeadersInv
    <2> QED BY <2>1, <2>4, <1>d
<1>19. CASE RenderFinite
    <2>1. pc = "finite" /\ pc \in Rendering /\ UNCHANGED <<saved, renders>>
        BY <1>19 DEF RenderFinite, Rendering, rendering
    <2>2. ~Written /\ "rid" \in DOMAIN saved
        BY <2>1 DEF SenderInv, HeadersInv
    <2>3. CASE pc' = "failed" /\ UNCHANGED <<header, wire>>
        BY <2>1, <2>3, QuietHeaders DEF Rendering
    <2>4. CASE \E s \in Statuses, names \in SUBSET {"content", "other"}, parts \in SUBSET {renders} :
                 Commit(s, names, parts)
        BY <1>b, <2>1, <2>2, <2>4, CommitHeaders, WrittenHeaders
    <2> QED BY <1>19, <2>3, <2>4 DEF RenderFinite, response
<1>20. CASE OpenFile
    <2>1. pc = "file" /\ pc \in Rendering /\ pc' \in Rendering /\ UNCHANGED <<saved, renders, wire>>
        BY <1>20 DEF OpenFile, Rendering, rendering
    <2>2. CASE UNCHANGED header
        BY <2>1, <2>2, QuietHeaders DEF Rendering
    <2>3. CASE header' = Added(header, {"content", "other"}, renders)
        <3>1. /\ DOMAIN header' = DOMAIN header \cup {"content", "other"}
              /\ \A x \in DOMAIN header \cup {"content", "other"} :
                    header'[x] = IF x \in {"content", "other"} THEN renders ELSE header[x]
            <4>1. PICK added \in SUBSET Names : added = {"content", "other"}
                BY DEF Names
            <4>2. header \in HeaderMaps /\ renders \in Writers
                BY <1>a, <1>b, <2>1
            <4>3. /\ DOMAIN Added(header, added, renders) = DOMAIN header \cup added
                  /\ \A x \in DOMAIN header \cup added :
                        Added(header, added, renders)[x] = IF x \in added THEN renders ELSE header[x]
                BY <4>2, AddedFacts
            <4> QED BY <2>3, <4>1, <4>3
        <3>2. HeadersInv'
            BY <2>1, <3>1, <1>d DEF HeadersInv
        <3> QED BY <2>1, <3>2, <1>d
    <2> QED BY <1>20, <2>2, <2>3 DEF OpenFile
<1>21. CASE StreamFile
    <2>1. pc = "stream" /\ pc \in Rendering /\ UNCHANGED <<saved, renders>>
        BY <1>21 DEF StreamFile, Rendering, rendering
    <2>2. ~Written /\ "rid" \in DOMAIN saved
        BY <2>1 DEF SenderInv, HeadersInv
    <2>3. PICK s \in Statuses, parts \in SUBSET {renders} : Commit(s, {"content"}, parts)
        BY <1>21 DEF StreamFile
    <2> QED BY <1>b, <2>1, <2>2, <2>3, CommitHeaders, WrittenHeaders
<1>22. CASE FailOutput
    <2>1. pc \in Rendering /\ UNCHANGED <<saved, renders, wire>> /\ pc' \in {"handler", "cleanup"}
        BY <1>22, <1>c DEF FailOutput, Rendering, rendering
    <2>2. CASE Written /\ UNCHANGED header
        BY <2>1, <2>2, QuietHeaders DEF Rendering
    <2>3. CASE ~Written /\ header' = saved
        <3>1. "rid" \in DOMAIN header' /\ \A n \in DOMAIN header' : header'[n] \notin Attempts
            BY <2>1, <2>3 DEF HeadersInv
        <3>2. HeadersInv'
            BY <2>1, <3>1 DEF HeadersInv, Rendering
        <3> QED BY <2>1, <3>2, <1>d
    <2> QED BY <1>22, <2>2, <2>3 DEF FailOutput, Restored
<1>23. CASE Recover
    BY <1>23, <1>c, QuietHeaders DEF Recover, Rendering, response, rendering
<1>24. CASE LeaveAlone
    BY <1>24, <1>c, QuietHeaders DEF LeaveAlone, Rendering, response, rendering
<1>25. CASE LeaveBrokenConnection
    <2>1. UNCHANGED <<saved, renders, wire>> /\ header' = ClearContentHeaders(header)
        BY <1>25 DEF LeaveBrokenConnection, rendering
    <2>2. pc = "errors" /\ pc' = "log"
        BY <1>25 DEF LeaveBrokenConnection
    <2>3. HeadersInv'
        BY <1>a, <1>d, <2>1, <2>2, ClearFacts DEF HeadersInv, Rendering
    <2> QED BY <2>1, <2>3, <1>d
<1>26. CASE BeginErrorResponse
    <2>1. pc = "errors" /\ ~Written /\ UNCHANGED <<saved, renders>> /\ pc' \in {"responder", "log"}
        BY <1>26 DEF BeginErrorResponse, NeedsResponse, rendering
    <2>2. CASE UNCHANGED wire /\ header' = ClearContentHeaders(header)
        <3>1. HeadersInv'
            BY <1>a, <1>d, <2>1, <2>2, ClearFacts DEF HeadersInv, Rendering
        <3> QED BY <2>2, <3>1, <1>d
    <2>3. CASE SendFallback(ClearContentHeaders(header))
        BY <2>1, <2>3, FallbackHeaders, WrittenHeaders DEF Rendering
    <2> QED BY <1>26, <2>2, <2>3 DEF BeginErrorResponse
<1>27. CASE ErrorResponseEnds
    <2>1. pc = "responder" /\ pc' = "log" /\ UNCHANGED <<saved, renders>>
        BY <1>27 DEF ErrorResponseEnds, rendering
    <2>2. CASE UNCHANGED <<header, wire>>
        BY <2>1, <2>2, QuietHeaders DEF Rendering
    <2>3. CASE ~Written /\ SendFallback(ClearContentHeaders(header))
        BY <2>1, <2>3, FallbackHeaders, WrittenHeaders DEF Rendering
    <2> QED BY <1>27, <2>2, <2>3 DEF ErrorResponseEnds, response
<1>28. CASE LogFinish
    BY <1>28, <1>c, QuietHeaders DEF LogFinish, Rendering, response, rendering
<1>29. CASE EngineWritesHeader
    <2>1. wire' = Sent(Engine, status, header, {}) /\ UNCHANGED <<pc, header, saved, renders>>
        BY <1>29 DEF EngineWritesHeader, rendering
    <2>2. pc = "engine" /\ ~Written
        BY <1>29 DEF EngineWritesHeader
    <2>3. "rid" \in DOMAIN header /\ \A n \in DOMAIN header : header[n] \notin Attempts
        BY <2>2 DEF HeadersInv, Rendering
    <2>4. NoLeakedHeaders' /\ RequestIDSurvives' /\ Written'
        BY <2>1, <2>3, SentHeaders, WriterFacts
    <2> QED BY <2>1, <2>2, <2>3, <2>4, WrittenHeaders DEF Rendering
<1>30. CASE EngineEnds
    BY <1>30, <1>c, QuietHeaders DEF EngineEnds, Rendering, response, rendering
<1>31. CASE UNCHANGED vars
    BY <1>31, QuietHeaders DEF vars
<1> QED
    BY <1>1, <1>2, <1>3, <1>4, <1>5, <1>6, <1>7, <1>8, <1>9, <1>10, <1>11, <1>12, <1>13, <1>14, <1>15, <1>16,
       <1>17, <1>18, <1>19, <1>20, <1>21, <1>22, <1>23, <1>24, <1>25, <1>26, <1>27, <1>28, <1>29, <1>30, <1>31
    DEF Next, Application, ApplicationEnds, Framework

-----------------------------------------------------------------------------
(* Theorems *)

\* A new request satisfies the invariant.
LEMMA InvInit == Init => PipelineInv
<1> SUFFICES ASSUME Init PROVE PipelineInv
    OBVIOUS
<1>1. TypeOK
    BY TypeInit
<1>2. wire.by = Nobody /\ DOMAIN wire.header = {} /\ DOMAIN header = {}
    BY NoHeaderType DEF Init, NoResponse
<1>3. RendersInv /\ SenderInv /\ HeadersInv
    <2>1. pc = "request id" /\ renders = 0
        BY DEF Init
    <2>2. RendersInv
        <3>1. ~(renders > 0)
            <4>1. \A n \in Nat : n = 0 => ~(n > 0)
                OBVIOUS
            <4> QED BY <2>1, <4>1
        <3>2. pc \notin Rendering /\ pc \notin Rendering \cup {"render"} /\ pc \notin {"bind", "handler", "map error"}
            BY <2>1 DEF Rendering
        <3> QED BY <2>1, <3>1, <3>2, Zenon DEF RendersInv
    <2> QED BY <1>2, <2>1, <2>2 DEF SenderInv, HeadersInv, Rendering, Written
<1>4. NoLeakedHeaders /\ RequestIDSurvives
    BY <1>2 DEF NoLeakedHeaders, RequestIDSurvives
<1> QED BY <1>1, <1>3, <1>4 DEF PipelineInv

\* The invariant of a request: types, the places XGin.Render is entered from,
\* who sent the response, and where each header came from.
THEOREM PipelineInvariant == Spec => []PipelineInv
<1>1. PipelineInv /\ [Next]_vars => PipelineInv'
    BY TypeStep, RendersStep, SenderStep, HeadersStep DEF PipelineInv
<1> QED BY <1>1, InvInit, PTL DEF Spec

\* Every variable keeps its type for every chain of handlers.
THEOREM TypeCorrect == Spec => []TypeOK
BY PipelineInvariant, PTL DEF PipelineInv

\* The headers of an output that XGin.Render failed to send reach the client
\* with nobody else's response, however many outputs are tried.
THEOREM NoLeakedHeadersCorrect == Spec => []NoLeakedHeaders
BY PipelineInvariant, PTL DEF PipelineInv

\* Every response that is sent carries the identifier RequestID set.
THEOREM RequestIDCorrect == Spec => []RequestIDSurvives
BY PipelineInvariant, PTL DEF PipelineInv

-----------------------------------------------------------------------------
(* One response per request *)

\* A step that leaves the wire alone and does not end the request.
LEMMA QuietStep ==
    ASSUME UNCHANGED wire, pc \notin Ended, pc' \notin Ended
    PROVE  UNCHANGED Promise!vars
BY DEF Promise!vars, Ended

\* A step that ends the request leaves the wire alone.
LEMMA EndStep ==
    ASSUME UNCHANGED wire, pc \notin Ended, pc' = "torn down" \/ (pc' = "done" /\ Written)
    PROVE  Promise!Next
<1>1. Promise!End
    BY DEF Promise!End, Ended, Written
<1> QED BY <1>1 DEF Promise!Next

\* The response is sent by one writer, to a client that was sent nothing.
LEMMA RespondStep ==
    ASSUME ~Written, pc \notin Ended, pc' \notin Ended,
           NEW w \in Writers, NEW s, NEW h, NEW ps \in SUBSET {w}, wire' = Sent(w, s, h, ps)
    PROVE  Promise!Next
<1>1. wire'.by = w /\ wire'.parts = ps
    BY DEF Sent
<1>2. Promise!Respond
    BY <1>1 DEF Promise!Respond, Written, Ended
<1> QED BY <1>2 DEF Promise!Next

\* Every step sends, sends more, ends, or is invisible to the client.
LEMMA PromiseStep ==
    ASSUME TypeOK, RendersInv, SenderInv, [Next]_vars
    PROVE  [Promise!Next]_Promise!vars
<1>b. pc \in Rendering => renders \in Writers
    BY AttemptFacts
<1>c. pc \in Rendering \cup {"render"} => resume \in {"handler", "cleanup"}
    BY AttemptFacts
<1>1. CASE AssignRequestID
    BY <1>1, QuietStep, EndStep DEF AssignRequestID, Ended
<1>2. CASE LogStart
    BY <1>2, QuietStep, EndStep DEF LogStart, response, Ended
<1>3. CASE Dispatch
    BY <1>3, <1>c, QuietStep DEF Dispatch, Rendering, response, Ended
<1>4. CASE Bind
    BY <1>4, <1>c, QuietStep DEF Bind, Rendering, response, Ended
<1>5. CASE MapRequestError
    BY <1>5, <1>c, QuietStep DEF MapRequestError, Rendering, response, Ended
<1>6. CASE CleanupUploads
    BY <1>6, <1>c, QuietStep DEF CleanupUploads, Rendering, response, Ended
<1>7. CASE AppSetHeader
    BY <1>7, <1>c, QuietStep DEF AppSetHeader, InApplication, InHandler, Rendering, response, Ended
<1>8. CASE AppSetStatus
    BY <1>8, <1>c, QuietStep DEF AppSetStatus, InApplication, InHandler, Rendering, response, Ended
<1>9. CASE AppWrite
    <2>1. PICK ps \in SUBSET {Author} :
              wire' = IF Written THEN [wire EXCEPT !.parts = @ \cup ps]
                                 ELSE Sent(Author, status, header, ps)
        BY <1>9 DEF AppWrite
    <2>2. pc' = pc /\ pc \notin Ended
        BY <1>9 DEF AppWrite, InApplication, InHandler, Ended
    <2>3. Author \in Writers
        BY <1>9, AuthorFacts DEF AppWrite
    <2>4. CASE ~Written
        <3>1. wire' = Sent(Author, status, header, ps)
            BY <2>1, <2>4
        <3> QED BY <2>2, <2>3, <2>4, <3>1, RespondStep
    <2>5. CASE Written
        <3>1. wire \in WireType /\ ps \in SUBSET Writers
            BY <2>3 DEF TypeOK
        <3>2. UNCHANGED <<wire.by, wire.status, wire.header>> /\ wire'.parts = wire.parts \cup ps
            BY <2>1, <2>5, <3>1, MoreFacts
        <3>3. Author = Raw \/ Author = wire.by
            BY <1>9, <2>5, AuthorFacts DEF AppWrite, InApplication, InHandler, SenderInv
        <3>4. CASE ps = {}
            BY <2>2, <3>2, <3>4 DEF Promise!vars
        <3>5. CASE ps = {Author}
            <4>1. Promise!SendMore
                BY <2>2, <2>5, <3>2, <3>3, <3>5 DEF Promise!SendMore, Written, Ended
            <4> QED BY <4>1 DEF Promise!Next
        <3> QED BY <3>4, <3>5
    <2> QED BY <2>4, <2>5
<1>10. CASE AppRecordError
    BY <1>10, <1>c, QuietStep DEF AppRecordError, InApplication, InHandler, Rendering, response, Ended
<1>11. CASE AppAbort
    BY <1>11, <1>c, QuietStep DEF AppAbort, InApplication, InHandler, Rendering, response, Ended
<1>12. CASE AppParseForm
    BY <1>12, <1>c, QuietStep DEF AppParseForm, InHandler, Rendering, response, Ended
<1>13. CASE AppRespond
    BY <1>13, <1>c, QuietStep DEF AppRespond, Rendering, response, Ended
<1>14. CASE HandlerReturns
    BY <1>14, <1>c, QuietStep DEF HandlerReturns, Rendering, response, Ended
<1>15. CASE HandlerPanics
    BY <1>15, <1>c, QuietStep DEF HandlerPanics, Rendering, response, Ended
<1>16. CASE OutputEnds
    BY <1>16, <1>c, QuietStep DEF OutputEnds, Rendering, response, Ended
<1>17. CASE RejectSecondOutput
    BY <1>17, <1>c, QuietStep DEF RejectSecondOutput, Rendering, response, Ended
<1>18. CASE BeginOutput
    BY <1>18, <1>c, QuietStep DEF BeginOutput, Rendering, response, Ended
<1>19. CASE RenderFinite
    <2>1. pc \in Rendering /\ ~Written /\ pc \notin Ended /\ pc' \notin Ended
        BY <1>19, <1>c DEF RenderFinite, Rendering, SenderInv, Ended
    <2>2. CASE UNCHANGED wire
        BY <2>1, <2>2, QuietStep
    <2>3. CASE \E s \in Statuses, names \in SUBSET {"content", "other"}, ps \in SUBSET {renders} :
                 Commit(s, names, ps)
        BY <1>b, <2>1, <2>3, RespondStep DEF Commit
    <2> QED BY <1>19, <2>2, <2>3 DEF RenderFinite, response
<1>20. CASE OpenFile
    BY <1>20, <1>c, QuietStep DEF OpenFile, Rendering, response, Ended
<1>21. CASE StreamFile
    <2>1. pc \in Rendering /\ ~Written /\ pc \notin Ended /\ pc' \notin Ended
        BY <1>21, <1>c DEF StreamFile, Rendering, SenderInv, Ended
    <2>2. PICK s \in Statuses, ps \in SUBSET {renders} : Commit(s, {"content"}, ps)
        BY <1>21 DEF StreamFile
    <2> QED BY <1>b, <2>1, <2>2, RespondStep DEF Commit
<1>22. CASE FailOutput
    BY <1>22, <1>c, QuietStep DEF FailOutput, Rendering, response, Ended
<1>23. CASE Recover
    BY <1>23, <1>c, QuietStep DEF Recover, Rendering, response, Ended
<1>24. CASE LeaveAlone
    BY <1>24, <1>c, QuietStep DEF LeaveAlone, Rendering, response, Ended
<1>25. CASE LeaveBrokenConnection
    BY <1>25, <1>c, QuietStep DEF LeaveBrokenConnection, Rendering, response, Ended
<1>26. CASE BeginErrorResponse
    <2>1. ~Written /\ pc \notin Ended /\ pc' \notin Ended
        BY <1>26 DEF BeginErrorResponse, NeedsResponse, Ended
    <2>2. CASE UNCHANGED wire
        BY <2>1, <2>2, QuietStep
    <2>3. CASE SendFallback(ClearContentHeaders(header))
        <3>1. wire' = Sent(Fallback, 500, ClearContentHeaders(header), {})
            BY <2>3 DEF SendFallback
        <3>2. Fallback \in Writers /\ {} \in SUBSET {Fallback}
            BY WriterFacts
        <3> QED BY <2>1, <2>3, <3>1, <3>2, RespondStep
    <2> QED BY <1>26, <2>2, <2>3 DEF BeginErrorResponse
<1>27. CASE ErrorResponseEnds
    <2>1. pc \notin Ended /\ pc' \notin Ended
        BY <1>27 DEF ErrorResponseEnds, Ended
    <2>2. CASE UNCHANGED wire
        BY <2>1, <2>2, QuietStep
    <2>3. CASE ~Written /\ SendFallback(ClearContentHeaders(header))
        <3>1. wire' = Sent(Fallback, 500, ClearContentHeaders(header), {})
            BY <2>3 DEF SendFallback
        <3>2. Fallback \in Writers /\ {} \in SUBSET {Fallback}
            BY WriterFacts
        <3> QED BY <2>1, <2>3, <3>1, <3>2, RespondStep
    <2> QED BY <1>27, <2>2, <2>3 DEF ErrorResponseEnds, response
<1>28. CASE LogFinish
    BY <1>28, QuietStep, EndStep DEF LogFinish, response, Ended
<1>29. CASE EngineWritesHeader
    <2>1. ~Written /\ pc \notin Ended /\ pc' \notin Ended /\ wire' = Sent(Engine, status, header, {})
        BY <1>29 DEF EngineWritesHeader, Ended
    <2>2. Engine \in Writers /\ {} \in SUBSET {Engine}
        BY WriterFacts
    <2> QED BY <2>1, <2>2, RespondStep
<1>30. CASE EngineEnds
    BY <1>30, EndStep DEF EngineEnds, response, Ended
<1>31. CASE UNCHANGED vars
    BY <1>31 DEF vars, Promise!vars
<1> QED
    BY <1>1, <1>2, <1>3, <1>4, <1>5, <1>6, <1>7, <1>8, <1>9, <1>10, <1>11, <1>12, <1>13, <1>14, <1>15, <1>16,
       <1>17, <1>18, <1>19, <1>20, <1>21, <1>22, <1>23, <1>24, <1>25, <1>26, <1>27, <1>28, <1>29, <1>30, <1>31
    DEF Next, Application, ApplicationEnds, Framework

\* A request implements OneResponse: one status and header block, sent once by
\* one writer, body bytes only of that writer or of application code writing to
\* the connection itself, and no end before a response or a torn connection.
THEOREM OneResponseCorrect == Spec => OneResponseKept
<1>1. Init => Promise!Init
    <2> SUFFICES ASSUME Init PROVE Promise!Init
        OBVIOUS
    <2>1. wire = NoResponse /\ pc = "request id"
        BY DEF Init
    <2>2. /\ wire.by = Nobody /\ wire.parts = {}
          /\ wire.status = 0 /\ wire.header = NoHeader
        BY <2>1 DEF NoResponse
    <2> QED BY <2>1, <2>2 DEF Promise!Init
<1>2. PipelineInv /\ [Next]_vars => [Promise!Next]_Promise!vars
    BY PromiseStep DEF PipelineInv
<1> QED BY <1>1, <1>2, PipelineInvariant, PTL DEF Spec, OneResponseKept, Promise!Spec

-----------------------------------------------------------------------------
(* The inductive invariant, beyond PipelineInv *)

\* A failure nobody answered yet: it was recorded, its status is selected unless
\* an output or the responder is about to be overruled, and nothing was sent
\* before gin's engine does.
Overruled == {"output", "failed", "responder"}
FailInv ==
    unanswered => /\ errs # {} /\ pc \notin {"request id", "log start"}
                  /\ pc \notin Overruled => status = 500
                  /\ pc \notin {"engine", "done"} => ~Written
                  /\ pc \in {"log", "engine", "done", "torn down"} => "broken" \in errs

\* The selected status is the one that was sent, and the one that is logged.
LogInv ==
    /\ Written => wire.status = status
    /\ pc \in {"engine", "done"} /\ config.finish => log = [status |-> status, errs |-> errs]
    /\ pc = "done" => Written

\* A handler's uploads are removed only when no handler can follow it.
Over == {"dispatch", "recover", "errors", "responder", "log", "engine", "done"}
UploadInv ==
    /\ uploads = "removed" => pc \in Over \cup {"torn down"} /\ (pc = "dispatch" => aborted)
    /\ pc = "cleanup" => aborted \/ panic # "none"
    /\ pc \in {"request id", "log start"} => route = 0
    /\ pc \in Over /\ route > 0 /\ Adapted => uploads # "held" \/ "cleanup" \in errs

\* The responder starts without content headers; what was sent keeps its own.
ContentInv ==
    /\ pc = "responder" /\ ~Written /\ "content" \in DOMAIN header => header["content"] = Responder
    /\ NoStaleRepresentation

OutcomeInv == PipelineInv /\ FailInv /\ LogInv /\ UploadInv /\ ContentInv

-----------------------------------------------------------------------------
(* Failures *)

\* A failure stays unanswered until somebody sends a response, or takes over.
LEMMA FailStep == TypeOK /\ RendersInv /\ SenderInv /\ FailInv /\ [Next]_vars => FailInv'
<1> SUFFICES ASSUME TypeOK, RendersInv, SenderInv, FailInv, [Next]_vars PROVE FailInv'
    OBVIOUS
<1>a. pc \in Rendering \cup {"render"} => resume \in {"handler", "cleanup"}
    BY AttemptFacts
<1> USE DEF TypeOK, FailInv, SenderInv, Overruled, Written, Rendering,
            static, control, response, rendering, outcome, others
<1>1. CASE AssignRequestID
    BY <1>1, <1>a DEF AssignRequestID
<1>2. CASE LogStart
    BY <1>2, <1>a DEF LogStart
<1>3. CASE Dispatch
    BY <1>3, <1>a DEF Dispatch
<1>4. CASE Bind
    BY <1>4, <1>a DEF Bind
<1>5. CASE MapRequestError
    BY <1>5, <1>a DEF MapRequestError
<1>6. CASE CleanupUploads
    BY <1>6, <1>a DEF CleanupUploads
<1>7. CASE AppSetHeader
    BY <1>7, <1>a DEF AppSetHeader
<1>8. CASE AppSetStatus
    <2>1. CASE InHandler
        BY <1>8, <2>1 DEF AppSetStatus, InApplication, InHandler
    <2>2. CASE ~InHandler
        <3>1. pc \in Overruled /\ ~Written /\ UNCHANGED <<pc, wire, errs>> /\ unanswered' = unanswered
            BY <1>8, <2>2 DEF AppSetStatus, InApplication, InHandler
        <3> QED BY <3>1
    <2> QED BY <2>1, <2>2
<1>9. CASE AppWrite
    BY <1>9, <1>a DEF AppWrite
<1>10. CASE AppRecordError
    BY <1>10, <1>a DEF AppRecordError
<1>11. CASE AppAbort
    BY <1>11, <1>a DEF AppAbort
<1>12. CASE AppParseForm
    BY <1>12, <1>a DEF AppParseForm, InHandler
<1>13. CASE AppRespond
    BY <1>13, <1>a DEF AppRespond
<1>14. CASE HandlerReturns
    BY <1>14, <1>a DEF HandlerReturns
<1>15. CASE HandlerPanics
    BY <1>15, <1>a DEF HandlerPanics
<1>16. CASE OutputEnds
    <2>1. CASE Written
        <3>1. pc = "output" /\ ~unanswered /\ unanswered' = unanswered
            BY <1>16, <2>1 DEF OutputEnds
        <3> QED BY <3>1
    <2>2. CASE ~Written
        BY <1>16, <2>2 DEF OutputEnds
    <2> QED BY <2>1, <2>2
<1>17. CASE RejectSecondOutput
    BY <1>17, <1>a DEF RejectSecondOutput
<1>18. CASE BeginOutput
    BY <1>18, <1>a DEF BeginOutput
<1>19. CASE RenderFinite
    BY <1>19, <1>a DEF RenderFinite, Commit
<1>20. CASE OpenFile
    BY <1>20, <1>a DEF OpenFile
<1>21. CASE StreamFile
    BY <1>21, <1>a DEF StreamFile, Commit
<1>22. CASE FailOutput
    BY <1>22, <1>a DEF FailOutput, FailedStatus
<1>23. CASE Recover
    BY <1>23, <1>a DEF Recover
<1>24. CASE LeaveAlone
    BY <1>24, <1>a DEF LeaveAlone, NeedsResponse
<1>25. CASE LeaveBrokenConnection
    BY <1>25, <1>a DEF LeaveBrokenConnection
<1>26. CASE BeginErrorResponse
    BY <1>26 DEF BeginErrorResponse, SendFallback
<1>27. CASE ErrorResponseEnds
    BY <1>27 DEF ErrorResponseEnds, SendFallback
<1>28. CASE LogFinish
    BY <1>28, <1>a DEF LogFinish
<1>29. CASE EngineWritesHeader
    BY <1>29, <1>a DEF EngineWritesHeader
<1>30. CASE EngineEnds
    BY <1>30, <1>a DEF EngineEnds
<1>31. CASE UNCHANGED vars
    BY <1>31 DEF vars
<1> QED
    BY <1>1, <1>2, <1>3, <1>4, <1>5, <1>6, <1>7, <1>8, <1>9, <1>10, <1>11, <1>12, <1>13, <1>14, <1>15, <1>16,
       <1>17, <1>18, <1>19, <1>20, <1>21, <1>22, <1>23, <1>24, <1>25, <1>26, <1>27, <1>28, <1>29, <1>30, <1>31
    DEF Next, Application, ApplicationEnds, Framework

-----------------------------------------------------------------------------
(* The log *)

\* The status is settled when the response is sent.
LEMMA LogStep == TypeOK /\ RendersInv /\ SenderInv /\ LogInv /\ [Next]_vars => LogInv'
<1> SUFFICES ASSUME TypeOK, RendersInv, SenderInv, LogInv, [Next]_vars PROVE LogInv'
    OBVIOUS
<1>a. pc \in Rendering \cup {"render"} => resume \in {"handler", "cleanup"}
    BY AttemptFacts
<1> USE DEF TypeOK, LogInv, SenderInv, Written, Rendering, static, control, response, rendering, outcome, others
<1>1. CASE AssignRequestID
    BY <1>1, <1>a DEF AssignRequestID
<1>2. CASE LogStart
    BY <1>2, <1>a DEF LogStart
<1>3. CASE Dispatch
    BY <1>3, <1>a DEF Dispatch
<1>4. CASE Bind
    BY <1>4, <1>a DEF Bind
<1>5. CASE MapRequestError
    BY <1>5, <1>a DEF MapRequestError
<1>6. CASE CleanupUploads
    BY <1>6, <1>a DEF CleanupUploads
<1>7. CASE AppSetHeader
    BY <1>7, <1>a DEF AppSetHeader
<1>8. CASE AppSetStatus
    BY <1>8 DEF AppSetStatus, InApplication, InHandler
<1>9. CASE AppWrite
    <2>1. PICK parts \in SUBSET {Author} :
              wire' = IF Written THEN [wire EXCEPT !.parts = @ \cup parts]
                                 ELSE Sent(Author, status, header, parts)
        BY <1>9 DEF AppWrite
    <2>2. Author \in Writers /\ wire \in WireType
        BY <1>9, AuthorFacts DEF AppWrite
    <2>3. wire'.status = status
        BY <2>1, <2>2, MoreFacts DEF Sent
    <2> QED BY <1>9, <2>3 DEF AppWrite, InApplication, InHandler
<1>10. CASE AppRecordError
    BY <1>10 DEF AppRecordError, InApplication, InHandler
<1>11. CASE AppAbort
    BY <1>11, <1>a DEF AppAbort
<1>12. CASE AppParseForm
    BY <1>12, <1>a DEF AppParseForm, InHandler
<1>13. CASE AppRespond
    BY <1>13, <1>a DEF AppRespond
<1>14. CASE HandlerReturns
    BY <1>14, <1>a DEF HandlerReturns
<1>15. CASE HandlerPanics
    BY <1>15, <1>a DEF HandlerPanics
<1>16. CASE OutputEnds
    BY <1>16, <1>a DEF OutputEnds
<1>17. CASE RejectSecondOutput
    BY <1>17, <1>a DEF RejectSecondOutput
<1>18. CASE BeginOutput
    BY <1>18, <1>a DEF BeginOutput
<1>19. CASE RenderFinite
    BY <1>19, <1>a DEF RenderFinite, Commit, Sent
<1>20. CASE OpenFile
    BY <1>20, <1>a DEF OpenFile
<1>21. CASE StreamFile
    BY <1>21, <1>a DEF StreamFile, Commit, Sent
<1>22. CASE FailOutput
    BY <1>22, <1>a DEF FailOutput
<1>23. CASE Recover
    BY <1>23, <1>a DEF Recover
<1>24. CASE LeaveAlone
    BY <1>24, <1>a DEF LeaveAlone
<1>25. CASE LeaveBrokenConnection
    BY <1>25, <1>a DEF LeaveBrokenConnection
<1>26. CASE BeginErrorResponse
    BY <1>26 DEF BeginErrorResponse, SendFallback, Sent
<1>27. CASE ErrorResponseEnds
    BY <1>27 DEF ErrorResponseEnds, SendFallback, Sent
<1>28. CASE LogFinish
    BY <1>28 DEF LogFinish, LoggedStatus
<1>29. CASE EngineWritesHeader
    BY <1>29 DEF EngineWritesHeader, Sent
<1>30. CASE EngineEnds
    BY <1>30, <1>a DEF EngineEnds
<1>31. CASE UNCHANGED vars
    BY <1>31 DEF vars
<1> QED
    BY <1>1, <1>2, <1>3, <1>4, <1>5, <1>6, <1>7, <1>8, <1>9, <1>10, <1>11, <1>12, <1>13, <1>14, <1>15, <1>16,
       <1>17, <1>18, <1>19, <1>20, <1>21, <1>22, <1>23, <1>24, <1>25, <1>26, <1>27, <1>28, <1>29, <1>30, <1>31
    DEF Next, Application, ApplicationEnds, Framework

-----------------------------------------------------------------------------
(* Uploads *)

\* Cleanup comes after the handler, and nothing of the route after it.
LEMMA UploadStep == TypeOK /\ RendersInv /\ UploadInv /\ [Next]_vars => UploadInv'
<1> SUFFICES ASSUME TypeOK, RendersInv, UploadInv, [Next]_vars PROVE UploadInv'
    OBVIOUS
<1>a. pc \in Rendering \cup {"render"} => resume \in {"handler", "cleanup"}
    BY AttemptFacts
<1>b. route = 0 => ~(route > 0)
    OBVIOUS
<1>c. pc \in Rendering => aborted
    BY DEF RendersInv
<1> USE DEF TypeOK, UploadInv, Over, Adapted, Rendering, static, control, response, rendering, outcome, others
<1>1. CASE AssignRequestID
    BY <1>1, <1>a DEF AssignRequestID
<1>2. CASE LogStart
    BY <1>2, <1>b DEF LogStart
<1>3. CASE Dispatch
    BY <1>3, <1>b DEF Dispatch, MoreHandlers
<1>4. CASE Bind
    BY <1>4, <1>a DEF Bind
<1>5. CASE MapRequestError
    BY <1>5, <1>a DEF MapRequestError
<1>6. CASE CleanupUploads
    BY <1>6 DEF CleanupUploads, HasUploads
<1>7. CASE AppSetHeader
    BY <1>7, <1>a DEF AppSetHeader
<1>8. CASE AppSetStatus
    BY <1>8, <1>a DEF AppSetStatus
<1>9. CASE AppWrite
    BY <1>9, <1>a DEF AppWrite
<1>10. CASE AppRecordError
    BY <1>10, <1>a DEF AppRecordError
<1>11. CASE AppAbort
    BY <1>11, <1>a DEF AppAbort
<1>12. CASE AppParseForm
    BY <1>12, <1>a DEF AppParseForm, InHandler
<1>13. CASE AppRespond
    BY <1>13, <1>a DEF AppRespond
<1>14. CASE HandlerReturns
    BY <1>14, <1>a DEF HandlerReturns
<1>15. CASE HandlerPanics
    BY <1>15, <1>a DEF HandlerPanics
<1>16. CASE OutputEnds
    BY <1>16, <1>a, <1>c DEF OutputEnds
<1>17. CASE RejectSecondOutput
    BY <1>17, <1>a DEF RejectSecondOutput
<1>18. CASE BeginOutput
    BY <1>18, <1>a DEF BeginOutput
<1>19. CASE RenderFinite
    BY <1>19, <1>a, <1>c DEF RenderFinite
<1>20. CASE OpenFile
    BY <1>20, <1>a DEF OpenFile
<1>21. CASE StreamFile
    BY <1>21, <1>a, <1>c DEF StreamFile
<1>22. CASE FailOutput
    BY <1>22, <1>a, <1>c DEF FailOutput
<1>23. CASE Recover
    BY <1>23, <1>a DEF Recover
<1>24. CASE LeaveAlone
    BY <1>24, <1>a DEF LeaveAlone
<1>25. CASE LeaveBrokenConnection
    BY <1>25, <1>a DEF LeaveBrokenConnection
<1>26. CASE BeginErrorResponse
    BY <1>26, <1>a DEF BeginErrorResponse
<1>27. CASE ErrorResponseEnds
    BY <1>27, <1>a DEF ErrorResponseEnds
<1>28. CASE LogFinish
    BY <1>28, <1>a DEF LogFinish
<1>29. CASE EngineWritesHeader
    BY <1>29, <1>a DEF EngineWritesHeader
<1>30. CASE EngineEnds
    BY <1>30, <1>a DEF EngineEnds
<1>31. CASE UNCHANGED vars
    BY <1>31 DEF vars
<1> QED
    BY <1>1, <1>2, <1>3, <1>4, <1>5, <1>6, <1>7, <1>8, <1>9, <1>10, <1>11, <1>12, <1>13, <1>14, <1>15, <1>16,
       <1>17, <1>18, <1>19, <1>20, <1>21, <1>22, <1>23, <1>24, <1>25, <1>26, <1>27, <1>28, <1>29, <1>30, <1>31
    DEF Next, Application, ApplicationEnds, Framework

-----------------------------------------------------------------------------
(* Content headers *)

\* The writers of an error response are told apart from all others.
LEMMA OthersApart ==
    /\ Responder # Raw /\ Fallback # Raw /\ Responder # Fallback
    /\ Engine # Responder /\ Engine # Fallback
BY PipelineAssumption DEF Responder, Fallback, Engine, Raw

\* Content headers are cleared before anybody else describes a representation.
LEMMA ContentStep == TypeOK /\ RendersInv /\ SenderInv /\ ContentInv /\ [Next]_vars => ContentInv'
<1> SUFFICES ASSUME TypeOK, RendersInv, SenderInv, ContentInv, [Next]_vars PROVE ContentInv'
    OBVIOUS
<1>a. pc \in Rendering \cup {"render"} => resume \in {"handler", "cleanup"}
    BY AttemptFacts
<1>b. "content" \notin DOMAIN ClearContentHeaders(header)
    BY ClearFacts DEF TypeOK
<1> USE DEF TypeOK, ContentInv, NoStaleRepresentation, SenderInv, Written, Rendering,
            static, control, response, rendering, outcome, others
<1>1. CASE AssignRequestID
    BY <1>1, <1>a DEF AssignRequestID
<1>2. CASE LogStart
    BY <1>2, <1>a DEF LogStart
<1>3. CASE Dispatch
    BY <1>3, <1>a DEF Dispatch
<1>4. CASE Bind
    BY <1>4, <1>a DEF Bind
<1>5. CASE MapRequestError
    BY <1>5, <1>a DEF MapRequestError
<1>6. CASE CleanupUploads
    BY <1>6, <1>a DEF CleanupUploads
<1>7. CASE AppSetHeader
    <2>1. PICK n \in {"content", "other"} : header' = SetHeader(header, n, Author)
        BY <1>7 DEF AppSetHeader
    <2>2. UNCHANGED <<pc, wire>> /\ Author \in Writers /\ (pc = "responder" => Author = Responder)
        BY <1>7, AuthorFacts DEF AppSetHeader
    <2>3. "content" \in DOMAIN header' =>
              header'["content"] = Author \/ ("content" \in DOMAIN header /\ header'["content"] = header["content"])
        <3> HIDE DEF TypeOK, ContentInv
        <3>1. header \in HeaderMaps /\ n \in Names
            BY DEF TypeOK, Names
        <3>2. /\ DOMAIN SetHeader(header, n, Author) = DOMAIN header \cup {n}
              /\ \A x \in DOMAIN header \cup {n} :
                    SetHeader(header, n, Author)[x] = IF x = n THEN Author ELSE header[x]
            BY <2>2, <3>1, SetHeaderFacts, Zenon
        <3> QED BY <2>1, <3>2
    <2> QED BY <2>2, <2>3
<1>8. CASE AppSetStatus
    BY <1>8, <1>a DEF AppSetStatus
<1>9. CASE AppWrite
    <2>1. PICK parts \in SUBSET {Author} :
              wire' = IF Written THEN [wire EXCEPT !.parts = @ \cup parts]
                                 ELSE Sent(Author, status, header, parts)
        BY <1>9 DEF AppWrite
    <2>2. Author \in Writers /\ wire \in WireType
        BY <1>9, AuthorFacts DEF AppWrite
    <2>3. UNCHANGED <<pc, header>> /\ Written'
        BY <1>9, <2>1, <2>2, MoreFacts, WriterFacts DEF AppWrite, Sent
    <2>4. CASE Written
        <3>1. parts \in SUBSET Writers
            BY <2>2
        <3>2. wire'.by = wire.by /\ wire'.header = wire.header
            BY <2>1, <2>2, <2>4, <3>1, MoreFacts
        <3> QED BY <2>3, <2>4, <3>2
    <2>5. CASE ~Written
        <3>1. wire' = Sent(Author, status, header, parts)
            BY <2>1, <2>5
        <3>2. wire'.by = Author /\ wire'.header = header
            BY <3>1 DEF Sent
        <3>3. Author # Fallback /\ (Author = Responder => pc = "responder")
            BY <1>9, AuthorFacts, AttemptFacts, OthersApart, WriterFacts DEF AppWrite, InApplication, InHandler
        <3> QED BY <2>3, <2>5, <3>2, <3>3
    <2> QED BY <2>4, <2>5
<1>10. CASE AppRecordError
    BY <1>10, <1>a DEF AppRecordError
<1>11. CASE AppAbort
    BY <1>11, <1>a DEF AppAbort
<1>12. CASE AppParseForm
    BY <1>12, <1>a DEF AppParseForm, InHandler
<1>13. CASE AppRespond
    BY <1>13, <1>a DEF AppRespond
<1>14. CASE HandlerReturns
    BY <1>14, <1>a DEF HandlerReturns
<1>15. CASE HandlerPanics
    BY <1>15, <1>a DEF HandlerPanics
<1>16. CASE OutputEnds
    BY <1>16, <1>a DEF OutputEnds
<1>17. CASE RejectSecondOutput
    BY <1>17, <1>a DEF RejectSecondOutput
<1>18. CASE BeginOutput
    BY <1>18, <1>a DEF BeginOutput
<1>19. CASE RenderFinite
    <2>1. pc \in Rendering /\ pc' # "responder" /\ renders \in Attempts
        BY <1>19, <1>a, AttemptFacts DEF RenderFinite
    <2>2. UNCHANGED wire \/ wire'.by = renders
        BY <1>19 DEF RenderFinite, Commit, Sent
    <2> QED BY <2>1, <2>2, WriterFacts
<1>20. CASE OpenFile
    BY <1>20, <1>a DEF OpenFile
<1>21. CASE StreamFile
    <2>1. pc \in Rendering /\ pc' # "responder" /\ renders \in Attempts
        BY <1>21, <1>a, AttemptFacts DEF StreamFile
    <2>2. wire'.by = renders
        BY <1>21 DEF StreamFile, Commit, Sent
    <2> QED BY <2>1, <2>2, WriterFacts
<1>22. CASE FailOutput
    BY <1>22, <1>a DEF FailOutput
<1>23. CASE Recover
    BY <1>23, <1>a DEF Recover
<1>24. CASE LeaveAlone
    BY <1>24, <1>a DEF LeaveAlone
<1>25. CASE LeaveBrokenConnection
    BY <1>25, <1>a DEF LeaveBrokenConnection
<1>26. CASE BeginErrorResponse
    <2>1. "content" \notin DOMAIN header' /\ (UNCHANGED wire \/ wire'.header = header')
        BY <1>26, <1>b DEF BeginErrorResponse, SendFallback, Sent
    <2> QED BY <2>1
<1>27. CASE ErrorResponseEnds
    <2>1. pc' = "log"
        BY <1>27 DEF ErrorResponseEnds
    <2>2. UNCHANGED wire \/ "content" \notin DOMAIN wire'.header
        BY <1>27, <1>b DEF ErrorResponseEnds, SendFallback, Sent
    <2> QED BY <2>1, <2>2
<1>28. CASE LogFinish
    BY <1>28, <1>a DEF LogFinish
<1>29. CASE EngineWritesHeader
    <2>1. wire'.by = Engine /\ pc' = "engine"
        BY <1>29 DEF EngineWritesHeader, Sent
    <2> QED BY <2>1, OthersApart
<1>30. CASE EngineEnds
    BY <1>30, <1>a DEF EngineEnds
<1>31. CASE UNCHANGED vars
    BY <1>31 DEF vars
<1> QED
    BY <1>1, <1>2, <1>3, <1>4, <1>5, <1>6, <1>7, <1>8, <1>9, <1>10, <1>11, <1>12, <1>13, <1>14, <1>15, <1>16,
       <1>17, <1>18, <1>19, <1>20, <1>21, <1>22, <1>23, <1>24, <1>25, <1>26, <1>27, <1>28, <1>29, <1>30, <1>31
    DEF Next, Application, ApplicationEnds, Framework
-----------------------------------------------------------------------------
(* Theorems *)

\* A new request satisfies the invariant.
LEMMA OutcomeInit == Init => OutcomeInv
<1> SUFFICES ASSUME Init PROVE OutcomeInv
    OBVIOUS
<1>1. ~Written /\ DOMAIN wire.header = {} /\ pc = "request id" /\ ~unanswered /\ uploads = "none" /\ route = 0
    BY NoHeaderType DEF Init, NoResponse, Written
<1>2. FailInv /\ LogInv /\ UploadInv
    BY <1>1 DEF FailInv, LogInv, UploadInv, Over
<1>3. ContentInv
    BY <1>1 DEF ContentInv, NoStaleRepresentation
<1> QED BY <1>2, <1>3, InvInit DEF OutcomeInv

\* Every request keeps the invariant.
LEMMA OutcomeInvariant == Spec => []OutcomeInv
<1>1. OutcomeInv /\ [Next]_vars => OutcomeInv'
    BY TypeStep, RendersStep, SenderStep, HeadersStep, FailStep, LogStep, UploadStep, ContentStep
       DEF OutcomeInv, PipelineInv
<1> QED BY <1>1, OutcomeInit, PTL DEF Spec

\* A failure nobody took over ends as an error response, or on a broken
\* connection (xgin.go:145-147, recovery.go:34-35).
THEOREM FailureAnsweredCorrect == Spec => []FailureAnswered
<1>1. OutcomeInv => FailureAnswered
    BY DEF OutcomeInv, FailInv, FailureAnswered, Overruled
<1> QED BY <1>1, OutcomeInvariant, PTL

\* The completion record says what the client got (access_log.go:207-246).
THEOREM LogCorrect == Spec => []LogMatchesWire
<1>1. OutcomeInv => LogMatchesWire
    BY DEF OutcomeInv, LogInv, LogMatchesWire
<1> QED BY <1>1, OutcomeInvariant, PTL

\* Uploads live while handler and output run, and no longer (cleanupUploads, xgin.go:124-133).
THEOREM UploadCorrect == Spec => []UploadLifetime
<1>1. OutcomeInv => UploadLifetime
    BY DEF OutcomeInv, UploadInv, UploadLifetime, Over
<1> QED BY <1>1, OutcomeInvariant, PTL

\* An error response never describes the representation that failed
\* (clearContentHeaders, error_handler.go:93-100).
THEOREM RepresentationCorrect == Spec => []NoStaleRepresentation
<1>1. OutcomeInv => NoStaleRepresentation
    BY DEF OutcomeInv, ContentInv
<1> QED BY <1>1, OutcomeInvariant, PTL
=============================================================================
