----------------------------- MODULE BodyCapture -----------------------------
(***************************************************************************)
(* Request body capture of the access log (middleware/access_log.go):      *)
(* passive observation of what the handler reads, or a bounded read-ahead  *)
(* that is replayed to the handler, and the marker or body that ends up in *)
(* the completion record.                                                  *)
(*                                                                         *)
(* A byte is its position in the payload. The original body is net/http's: *)
(* a read returns some bytes, an error, or both; an error after failAt     *)
(* bytes is returned once or, when sticky, by every later read as well.    *)
(* Mutant... definitions are faults the property they name detects.        *)
(***************************************************************************)
EXTENDS Naturals, Sequences

CONSTANTS Bodies,   \* request bodies: see BodyType
          Limit,    \* MaxBodyBytes of the policy
          MaxRead   \* BOUND: the largest buffer a handler reads into

VARIABLES body,     \* the request body, and how it is captured
          phase,    \* "install", "read ahead", "serve" or "logged"
          source,   \* the original body: [pos, failed, closed]
          prefix,   \* read-ahead bytes not yet replayed
          pending,  \* the error the read-ahead consumed
          capture,  \* bodyCapture: data, total, truncated, eof, failed
          seen,     \* the bytes the handler has read
          erred,    \* the handler was told of the failure
          last,     \* the error of the handler's last read
          late,     \* the handler read bytes after it closed the body
          log       \* what the completion record says of the body

vars == <<body, phase, source, prefix, pending, capture, seen, erred, last, late, log>>

BodyType == [ mode     : {"off", "passive", "buffered"},
              length   : Nat,
              failAt   : Nat,       \* beyond the length when no read fails
              sticky   : BOOLEAN,
              declared : BOOLEAN ]  \* ContentLength is the length, or unknown

ASSUME CaptureAssumption ==
    /\ Bodies \subseteq BodyType
    /\ Limit \in Nat \ {0}
    /\ MaxRead \in Nat \ {0}

Errors == {"none", "error", "eof", "closed"}
Empty == [data |-> <<>>, total |-> 0, truncated |-> FALSE, eof |-> FALSE, failed |-> FALSE]

Init == /\ body \in Bodies
        /\ phase = "install"
        /\ source = [pos |-> 0, failed |-> FALSE, closed |-> FALSE]
        /\ prefix = <<>>
        /\ pending = "none"
        /\ capture = Empty
        /\ seen = <<>>
        /\ erred = FALSE
        /\ last = "none"
        /\ late = FALSE
        /\ log = "none"

-----------------------------------------------------------------------------
(* The original body *)

Smaller(a, b) == IF a < b THEN a ELSE b
Bytes(from, n) == [i \in 1..n |-> from + i]

WillFail == body.failAt <= body.length /\ ~source.failed
Stop == IF WillFail THEN body.failAt ELSE body.length

\* What Read may return for a buffer of size k.
Results(k) ==
    CASE source.closed -> {[n |-> 0, err |-> "closed"]}
      [] ~source.closed /\ source.failed /\ body.sticky -> {[n |-> 0, err |-> "error"]}
      [] OTHER ->
            LET most == Smaller(k, Stop - source.pos)
            IN  {[n |-> n, err |-> "none"] : n \in 1..most}
                \cup {[n |-> n, err |-> IF WillFail THEN "error" ELSE "eof"] :
                         n \in {m \in 0..most : source.pos + m = Stop}}

AfterRead(r) == [source EXCEPT !.pos = @ + r.n, !.failed = @ \/ r.err = "error"]

-----------------------------------------------------------------------------
(* captureRequest *)

Direct == body.mode = "off" \/ (body.mode = "buffered" /\ body.declared /\ body.length > Limit)

\* No capture, passive observation, or a declared length over the limit: the
\* body is left to the handler without reading ahead.
InstallWithoutReading ==
    /\ phase = "install"
    /\ Direct \/ body.mode = "passive"
    /\ capture' = [capture EXCEPT !.truncated = (body.mode = "buffered")]
    /\ phase' = "serve"
    /\ UNCHANGED <<body, source, prefix, pending, seen, erred, last, late, log>>

BeginReadAhead ==
    /\ phase = "install"
    /\ ~Direct
    /\ body.mode = "buffered"
    /\ phase' = "read ahead"
    /\ UNCHANGED <<body, source, prefix, pending, capture, seen, erred, last, late, log>>

\* BoundedReadAhead: the read-ahead is not limited.
MutantReadAll == body.length + Limit + 1

\* One byte more than the limit tells a body at the limit from a longer one.
ReadAheadLimit == Limit + 1

\* ByteStreamKept: the consumed error is not replayed.
MutantDropError(err, eof) == IF eof THEN "eof" ELSE "none"

Pending(err, eof) == IF err = "error" THEN "error" ELSE IF eof THEN "eof" ELSE "none"

\* MarkersTruthful: a body at the limit counts as longer.
MutantAtLimit(data) == Len(data) >= Limit

TooLong(data) == Len(data) > Limit

\* One iteration of io.ReadAll over the limited original.
ReadAhead ==
    /\ phase = "read ahead"
    /\ \E r \in Results(ReadAheadLimit - Len(prefix)) :
          LET data == prefix \o Bytes(source.pos, r.n)
              over == TooLong(data)
              eof  == r.err # "error" /\ ~over
          IN  /\ source' = AfterRead(r)
              /\ prefix' = data
              /\ \/ /\ r.err = "none" /\ Len(data) < ReadAheadLimit
                    /\ UNCHANGED <<phase, capture, pending>>
                 \/ /\ r.err # "none" \/ Len(data) = ReadAheadLimit
                    /\ capture' = [ data |-> IF over THEN <<>> ELSE data, total |-> Len(data), truncated |-> over,
                                    eof |-> eof, failed |-> r.err = "error" ]
                    /\ pending' = Pending(r.err, eof)
                    /\ phase' = "serve"
    /\ UNCHANGED <<body, seen, erred, last, late, log>>

-----------------------------------------------------------------------------
(* The handler reads, and closes, the body *)

\* The handler's read returned these bytes and this error.
Deliver(bytes, err) ==
    /\ seen' = seen \o bytes
    /\ last' = err
    /\ erred' = (erred \/ err = "error")
    /\ late' = (late \/ (source.closed /\ bytes # <<>>))

\* TypeOK: the observed bytes are stored before they are cut to the limit.
MutantUnbounded(data, bytes) == data \o bytes

Retained(data, bytes) == SubSeq(data \o bytes, 1, Smaller(Len(data) + Len(bytes), Limit))

\* bodyCapture.append, and the errors captureReadCloser.Read notes.
Observed(bytes, err) ==
    [ data      |-> Retained(capture.data, bytes),
      total     |-> capture.total + Len(bytes),
      truncated |-> capture.truncated \/ Len(bytes) > Limit - Len(capture.data),
      eof       |-> capture.eof \/ err = "eof",
      failed    |-> capture.failed \/ err \in {"error", "closed"} ]

\* A read of the original, observed in passive mode.
ReadOriginal ==
    /\ phase = "serve"
    /\ prefix = <<>> /\ pending = "none"
    /\ \E k \in 1..MaxRead : \E r \in Results(k) :
          LET bytes == Bytes(source.pos, r.n)
          IN  /\ source' = AfterRead(r)
              /\ Deliver(bytes, r.err)
              /\ capture' = IF body.mode = "passive" THEN Observed(bytes, r.err) ELSE capture
    /\ UNCHANGED <<body, phase, prefix, pending, log>>

\* replayReadCloser serves the read-ahead bytes, then the consumed error.
ReadPrefix ==
    /\ phase = "serve"
    /\ prefix # <<>>
    /\ \E k \in 1..MaxRead :
          LET n == Smaller(k, Len(prefix))
          IN  /\ Deliver(SubSeq(prefix, 1, n), "none")
              /\ prefix' = SubSeq(prefix, n + 1, Len(prefix))
    /\ UNCHANGED <<body, phase, source, pending, capture, log>>

ReadPending ==
    /\ phase = "serve"
    /\ prefix = <<>> /\ pending # "none"
    /\ Deliver(<<>>, pending)
    /\ pending' = "none"
    /\ UNCHANGED <<body, phase, source, prefix, capture, log>>

\* Close goes to the original body in every mode.
Close ==
    /\ phase = "serve"
    /\ source' = [source EXCEPT !.closed = TRUE]
    /\ UNCHANGED <<body, phase, prefix, pending, capture, seen, erred, last, late, log>>

-----------------------------------------------------------------------------
(* The completion record *)

\* LoggedWhole: a body that was read at all counts as complete.
MutantAnyRead == capture.total > 0

Complete == capture.eof \/ (body.declared /\ capture.total = body.length)

\* bodyForLog: the first reason to omit the body, or the body.
Marker ==
    CASE body.mode = "off" -> "unsupported"
      [] body.mode # "off" /\ capture.truncated -> "exceeds limit"
      [] body.mode # "off" /\ ~capture.truncated /\ capture.failed -> "failed"
      [] OTHER -> IF Complete THEN "body" ELSE IF capture.total = 0 THEN "not read" ELSE "incomplete"

Log ==
    /\ phase = "serve"
    /\ log' = Marker
    /\ phase' = "logged"
    /\ UNCHANGED <<body, source, prefix, pending, capture, seen, erred, last, late>>

-----------------------------------------------------------------------------
Next == \/ InstallWithoutReading \/ BeginReadAhead \/ ReadAhead
        \/ ReadOriginal \/ ReadPrefix \/ ReadPending \/ Close
        \/ Log

Spec == Init /\ [][Next]_vars

-----------------------------------------------------------------------------
(* Properties *)

Payload == [i \in 1..body.length |-> i]

TypeOK ==
    /\ body \in Bodies
    /\ phase \in {"install", "read ahead", "serve", "logged"}
    /\ source \in [pos : 0..body.length, failed : BOOLEAN, closed : BOOLEAN]
    /\ prefix \in Seq(Nat)
    /\ pending \in {"none", "error", "eof"}
    /\ capture.data \in Seq(Nat) /\ Len(capture.data) <= Limit
    /\ capture.total \in 0..body.length
    /\ {capture.truncated, capture.eof, capture.failed} \subseteq BOOLEAN
    /\ seen \in Seq(Nat)
    /\ erred \in BOOLEAN
    /\ last \in Errors
    /\ late \in BOOLEAN
    /\ log \in {"none", "unsupported", "exceeds limit", "failed", "body", "not read", "incomplete"}

\* A body in the log is the whole payload, never a part of it presented as all
\* of it, whatever the handler read and closed (access_log.go:336-358).
LoggedWhole == log = "body" => capture.data = Payload

\* The read-ahead takes at most one byte over the limit from the connection,
\* and nothing of a body declared to be longer (access_log.go:273-280).
BoundedReadAhead ==
    seen = <<>> => source.pos <= (IF Direct \/ body.mode = "passive" THEN 0 ELSE Limit + 1)

\* An omission gives its true reason, and buffered capture has no other reason
\* to omit a body than its length or a failed read.
MarkersTruthful ==
    /\ log = "exceeds limit" => body.length > Limit
    /\ log = "failed" => source.failed \/ (last = "closed" \/ source.closed)
    /\ log = "not read" => seen = <<>>
    /\ log = "incomplete" => seen # <<>> /\ body.mode = "passive"
    /\ log # "none" /\ body.mode = "buffered" /\ body.length <= Limit /\ ~source.failed => log = "body"

\* The handler reads what it would have read without the access log.
Stream == INSTANCE ByteStream
ByteStreamKept == Stream!Spec

\* access_log.go:257-258, capture is installed "without changing ContentLength,
\* GetBody, Close behavior, or the remaining payload": as with the original
\* body, no bytes are read once the body was closed.
CloseBehaviorKept == ~late
=============================================================================
