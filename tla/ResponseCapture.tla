--------------------------- MODULE ResponseCapture ---------------------------
(***************************************************************************)
(* Response body capture of the access log (middleware/access_log.go): the *)
(* writer that copies what the connection accepted, and what the           *)
(* completion record shows of it after redaction.                          *)
(*                                                                         *)
(* A handler answers with one document, JSON or a form. A byte is its      *)
(* position in the document. A document is a tree of nodes, every parent   *)
(* before its children and 1 the root; a form is a tree of one level, whose*)
(* node n has its key at byte 2n-3 and its value at byte 2n-2.             *)
(* Mutant... definitions are faults the property they name detects.        *)
(***************************************************************************)
EXTENDS Naturals, Sequences, SequencesExt

CONSTANTS Documents,  \* see DocumentType
          Limit,      \* MaxBodyBytes of the policy
          MaxWrite    \* BOUND: the largest piece a handler writes at once

VARIABLES doc,      \* what the handler answers with
          phase,    \* "serve", "copy" or "logged"
          headers,  \* the live headers describe "the document" or something "unsafe"
          cursor,   \* bytes the handler has handed over
          wire,     \* the bytes the connection accepted
          broken,   \* the connection refused a byte
          unsafe,   \* bytes were sent under unsafe headers
          hijacked, \* the connection belongs to the handler
          capture,  \* bodyCapture: data, truncated, failed, disabled
          log,      \* what the record says of the body
          shown     \* the nodes whose values the record shows

vars == <<doc, phase, headers, cursor, wire, broken, unsafe, hijacked, capture, log, shown>>

DocumentShape == [ media     : {"json", "form"},
                   length    : Nat,
                   encoded   : Nat,       \* its length once redacted and encoded again
                   parses    : SUBSET Nat, \* the lengths at which what was sent is one whole
                                           \* JSON document, or a form url.ParseQuery accepts
                   parent    : Seq(Nat),  \* node -> the node that contains it, 0 for the root
                   kind      : Seq({"object", "array", "scalar"}),
                   sensitive : SUBSET Nat ] \* nodes whose key is a redaction key

\* Only what is in an object has a key, and nothing is in a scalar.
WellFormed(d) ==
    LET nodes == DOMAIN d.parent IN
    /\ 1 \in nodes /\ d.parent[1] = 0 /\ DOMAIN d.kind = nodes
    /\ \A n \in nodes \ {1} : d.parent[n] \in 1..(n - 1) /\ d.kind[d.parent[n]] # "scalar"
    /\ \A n \in d.sensitive : n \in nodes \ {1} /\ d.kind[d.parent[n]] = "object"
    /\ d.media = "form" => \A n \in nodes \ {1} : d.parent[n] = 1

DocumentType == {d \in DocumentShape : WellFormed(d)}

ASSUME ResponseAssumption ==
    /\ Documents \subseteq DocumentType
    /\ {Limit, MaxWrite} \subseteq Nat \ {0}

Nodes == DOMAIN doc.parent

Init == /\ doc \in Documents
        /\ phase = "serve"
        /\ headers \in {"document", "unsafe"}
        /\ cursor = 0
        /\ wire = <<>>
        /\ broken = FALSE
        /\ unsafe = FALSE
        /\ hijacked = FALSE
        /\ capture = [data |-> <<>>, truncated |-> FALSE, failed |-> FALSE, disabled |-> FALSE]
        /\ log = "none"
        /\ shown = {}

-----------------------------------------------------------------------------
(* captureWriter *)

Smaller(a, b) == IF a < b THEN a ELSE b

Disabled == [capture EXCEPT !.disabled = TRUE, !.data = <<>>]

\* capturableBody of the live headers, asked at every write and for the record.
Capturable == headers = "document"

\* TypeOK: the piece that passes the limit is kept whole.
MutantUncut(piece) == piece

\* bodyCapture.append keeps no more than fits.
Retained(piece) == SubSeq(piece, 1, Smaller(Len(piece), Limit - Len(capture.data)))

Observed(piece) ==
    IF capture.disabled THEN capture
    ELSE [capture EXCEPT !.truncated = @ \/ Len(piece) > Limit - Len(capture.data),
                         !.data = @ \o Retained(piece)]

\* LoggedAsSent: the headers are looked at only when the record is built.
MutantRecord(piece) == Observed(piece)

Record(piece) == IF ~Capturable THEN Disabled ELSE Observed(piece)

\* Write and WriteString: the connection accepts all k bytes, or fewer of them
\* with an error; the accepted ones are recorded and an error is noted.
Deliver(k, ok) ==
    \E n \in IF hijacked THEN {0} ELSE 0..k :
       LET piece == [i \in 1..n |-> cursor + i]
           seen  == IF n > 0 THEN Record(piece) ELSE capture
       IN  /\ ok <=> n = k
           /\ wire' = wire \o piece
           /\ broken' = (broken \/ ~ok)
           /\ unsafe' = (unsafe \/ (n > 0 /\ headers = "unsafe"))
           /\ capture' = [seen EXCEPT !.failed = @ \/ ~ok]
           \* After an error the handler goes on behind what was accepted, or behind its piece.
           /\ cursor' \in {cursor + n, cursor + k}
    /\ UNCHANGED <<doc, headers, hijacked, log, shown>>

Write ==
    /\ phase = "serve"
    /\ \E k \in 1..Smaller(MaxWrite, doc.length - cursor), ok \in BOOLEAN : Deliver(k, ok)
    /\ UNCHANGED phase

BeginReadFrom ==
    /\ phase = "serve"
    /\ phase' = "copy"
    /\ UNCHANGED <<doc, headers, cursor, wire, broken, unsafe, hijacked, capture, log, shown>>

\* io.Copy writes what it reads through Write, until a write fails.
CopyChunk ==
    /\ phase = "copy"
    /\ \E k \in 1..Smaller(MaxWrite, doc.length - cursor), ok \in BOOLEAN :
          /\ Deliver(k, ok)
          /\ phase' = IF ok THEN "copy" ELSE "serve"

\* The reader ends, or fails.
CopyEnds ==
    /\ phase = "copy"
    /\ phase' = "serve"
    /\ UNCHANGED <<doc, headers, cursor, wire, broken, unsafe, hijacked, capture, log, shown>>

\* Hijack gives up capture before it knows whether the connection can be taken over.
Hijack ==
    /\ phase = "serve"
    /\ ~hijacked
    /\ hijacked' \in BOOLEAN
    /\ capture' = Disabled
    /\ UNCHANGED <<doc, phase, headers, cursor, wire, broken, unsafe, log, shown>>

\* The handler, or the reader it copies from, describes the document, or calls it
\* an attachment, compressed or of a type that is not captured.
SetHeaders ==
    /\ phase \in {"serve", "copy"}
    /\ headers' \in {"document", "unsafe"} \ {headers}
    /\ UNCHANGED <<doc, phase, cursor, wire, broken, unsafe, hijacked, capture, log, shown>>

-----------------------------------------------------------------------------
(* bodyForLog *)

Parts(n) == {m \in Nodes : doc.parent[m] = n}

\* NoSecretLogged: only the outermost object is masked.
MutantTopLevel(n) == IF n = 1 THEN Parts(n) \ doc.sensitive ELSE Parts(n)

\* A sensitive key masks its value, whatever it is; only objects have keys.
Traversed(n) == IF doc.kind[n] = "object" THEN Parts(n) \ doc.sensitive ELSE Parts(n)

\* redactJSON: the scalars that are left to see.
Visible[n \in Nodes] ==
    IF doc.kind[n] = "scalar" THEN {n} ELSE UNION {Visible[m] : m \in Traversed(n)}

Redacted == Visible[1]

\* The keys of a form: a pair without its value byte has an empty value.
RedactedForm == {n \in Nodes \ doc.sensitive : n > 1 /\ 2 * n - 2 \in ToSet(capture.data)}

\* What was captured, a prefix of the document, is one itself.
Parsed == Len(capture.data) \in doc.parses

\* The first reason to omit the body, or the body. A response is always complete.
Marker ==
    CASE capture.disabled \/ ~Capturable -> "unsupported"
      [] ~(capture.disabled \/ ~Capturable) /\ capture.truncated -> "exceeds limit"
      [] ~(capture.disabled \/ ~Capturable) /\ ~capture.truncated /\ capture.failed -> "failed"
      [] OTHER ->
            IF capture.data = <<>> THEN "empty"
            ELSE IF ~Parsed THEN IF doc.media = "json" THEN "invalid json" ELSE "invalid form"
            ELSE IF doc.encoded > Limit THEN "redacted exceeds limit"
            ELSE "body"

Log ==
    /\ phase = "serve"
    /\ log' = Marker
    /\ shown' = IF log' # "body" THEN {} ELSE IF doc.media = "json" THEN Redacted ELSE RedactedForm
    /\ phase' = "logged"
    /\ UNCHANGED <<doc, headers, cursor, wire, broken, unsafe, hijacked, capture>>

-----------------------------------------------------------------------------
Next == \/ Write \/ BeginReadFrom \/ CopyChunk \/ CopyEnds \/ Hijack \/ SetHeaders
        \/ Log

Spec == Init /\ [][Next]_vars

-----------------------------------------------------------------------------
(* Properties *)

TypeOK ==
    /\ doc \in DocumentType
    /\ phase \in {"serve", "copy", "logged"}
    /\ headers \in {"document", "unsafe"}
    /\ cursor \in 0..doc.length
    /\ wire \in Seq(1..doc.length)
    /\ {broken, unsafe, hijacked} \subseteq BOOLEAN
    /\ capture.data \in Seq(1..doc.length) /\ Len(capture.data) <= Limit
    /\ {capture.truncated, capture.failed, capture.disabled} \subseteq BOOLEAN
    /\ log \in {"none", "unsupported", "exceeds limit", "failed", "empty", "invalid json", "invalid form",
                "redacted exceeds limit", "body"}
    /\ shown \subseteq Nodes

\* A body in the log is what the connection accepted, all of it and nothing else,
\* by whatever methods it was written, and was never sent as an attachment,
\* compressed or over a connection the handler took; an omission for size or
\* failure happened (access_log.go:506-564).
LoggedAsSent ==
    /\ log \in {"body", "empty", "invalid json", "invalid form", "redacted exceeds limit"} =>
          capture.data = wire /\ ~broken /\ ~unsafe /\ ~hijacked
    /\ log = "exceeds limit" => Len(wire) > Limit
    /\ log = "failed" => broken

\* The nodes with a redaction key, and all that is in them.
Secrets == {n \in Nodes : \A nodes \in SUBSET Nodes :
                              doc.sensitive \subseteq nodes /\ (\A m \in nodes : Parts(m) \subseteq nodes) => n \in nodes}

\* The record never shows a value under a redaction key, at any depth of objects
\* and arrays, and of JSON it shows every other value (access_log.go:409-425).
NoSecretLogged ==
    /\ shown \cap Secrets = {}
    /\ log = "body" /\ doc.media = "json" => shown = {n \in Nodes \ Secrets : doc.kind[n] = "scalar"}
=============================================================================
