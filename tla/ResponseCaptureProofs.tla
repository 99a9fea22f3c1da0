-------------------------- MODULE ResponseCaptureProofs --------------------------
(***************************************************************************)
(* Proofs about ResponseCapture for documents of any length and every      *)
(* limit: what is logged is what was sent, and no more is kept than fits.  *)
(***************************************************************************)
EXTENDS ResponseCapture, SequenceTheorems, WellFoundedInduction, TLAPS

-----------------------------------------------------------------------------
(* The inductive invariant *)

\* The part of TypeOK it rests on.
CopyType ==
    /\ wire \in Seq(Nat)
    /\ cursor \in Nat
    /\ capture \in [data : Seq(Nat), truncated : BOOLEAN, failed : BOOLEAN, disabled : BOOLEAN]
    /\ Len(capture.data) <= Limit
    /\ {broken, unsafe, hijacked} \subseteq BOOLEAN

\* Until capture is given up, the copy is what was sent, or is cut and says so.
CopyInv ==
    ~capture.disabled =>
        /\ ~unsafe /\ ~hijacked
        /\ capture.failed <=> broken
        /\ ~capture.truncated => capture.data = wire
        /\ capture.truncated => Len(wire) > Limit

\* The record is made last.
RecordInv == phase # "logged" => log = "none"

CaptureInv == CopyType /\ CopyInv /\ RecordInv /\ LoggedAsSent

-----------------------------------------------------------------------------
(* Pieces *)

\* Of a piece, its first bytes are kept: all of it when it fits.
LEMMA RetainedFacts ==
    ASSUME NEW piece \in Seq(Nat), CopyType
    PROVE  /\ Retained(piece) \in Seq(Nat)
           /\ Len(capture.data \o Retained(piece)) <= Limit
           /\ ~(Len(piece) > Limit - Len(capture.data)) => Retained(piece) = piece
<1>1. Len(piece) \in Nat /\ Len(capture.data) \in Nat /\ Limit \in Nat /\ Len(capture.data) <= Limit
    BY ResponseAssumption DEF CopyType
<1> DEFINE n == Smaller(Len(piece), Limit - Len(capture.data))
<1>2. n \in Nat /\ n <= Len(piece) /\ n <= Limit - Len(capture.data)
    <2> DEFINE a == Len(piece)
               b == Limit - Len(capture.data)
    <2>1. a \in Nat /\ b \in Nat
        BY <1>1
    <2> HIDE DEF a, b
    <2>2. Smaller(a, b) \in Nat /\ Smaller(a, b) <= a /\ Smaller(a, b) <= b
        BY <2>1 DEF Smaller
    <2> QED BY <2>2 DEF a, b
<1>3. SubSeq(piece, 1, n) \in Seq(Nat) /\ Len(SubSeq(piece, 1, n)) = n
    BY <1>1, <1>2
<1>4. Len(capture.data \o SubSeq(piece, 1, n)) = Len(capture.data) + n
    BY <1>1, <1>3 DEF CopyType
<1>5. ASSUME ~(Len(piece) > Limit - Len(capture.data)) PROVE SubSeq(piece, 1, n) = piece
    <2>1. n = Len(piece)
        BY <1>1, <1>5 DEF Smaller
    <2> HIDE DEF n
    <2> QED BY <2>1, SubSeqFull
<1> QED BY <1>1, <1>2, <1>3, <1>4, <1>5 DEF Retained

\* A piece is recorded whole, or cut, or not at all.
LEMMA RecordFacts ==
    ASSUME CopyType, NEW piece \in Seq(Nat)
    PROVE  /\ Record(piece) \in [data : Seq(Nat), truncated : BOOLEAN, failed : BOOLEAN, disabled : BOOLEAN]
           /\ Len(Record(piece).data) <= Limit
           /\ Record(piece).failed = capture.failed
           /\ ~Record(piece).disabled =>
                 /\ Capturable /\ ~capture.disabled
                 /\ ~Record(piece).truncated =>
                       ~capture.truncated /\ Record(piece).data = capture.data \o piece
                 /\ Record(piece).truncated /\ ~capture.truncated => Len(capture.data) + Len(piece) > Limit
<1>1. Len(piece) \in Nat /\ Len(capture.data) \in Nat /\ Limit \in Nat \ {0}
    BY ResponseAssumption DEF CopyType
<1>2. CASE ~Capturable
    <2>1. Record(piece) = [capture EXCEPT !.disabled = TRUE, !.data = <<>>]
        BY <1>2 DEF Record, Disabled
    <2>2. Record(piece).data = <<>> /\ Record(piece).failed = capture.failed /\ Record(piece).disabled
        BY <2>1 DEF CopyType
    <2>3. Record(piece) \in [data : Seq(Nat), truncated : BOOLEAN, failed : BOOLEAN, disabled : BOOLEAN]
        BY <2>1, EmptySeq DEF CopyType
    <2>4. Len(Record(piece).data) = 0
        BY <2>2, EmptySeq
    <2> QED BY <1>1, <2>2, <2>3, <2>4
<1>3. CASE Capturable /\ capture.disabled
    BY <1>1, <1>3 DEF Record, Observed, CopyType
<1>4. CASE Capturable /\ ~capture.disabled
    <2>1. Record(piece) = [capture EXCEPT !.truncated = @ \/ Len(piece) > Limit - Len(capture.data),
                                          !.data = @ \o Retained(piece)]
        BY <1>4 DEF Record, Observed
    <2>2. Record(piece).data = capture.data \o Retained(piece)
        BY <2>1 DEF CopyType
    <2>3. Record(piece).truncated <=> capture.truncated \/ Len(piece) > Limit - Len(capture.data)
        BY <2>1 DEF CopyType
    <2>4. Record(piece).failed = capture.failed /\ Record(piece).disabled = capture.disabled
        BY <2>1 DEF CopyType
    <2>5. Record(piece) \in [data : Seq(Nat), truncated : BOOLEAN, failed : BOOLEAN, disabled : BOOLEAN]
        <3>1. capture.data \o Retained(piece) \in Seq(Nat)
            BY RetainedFacts DEF CopyType
        <3>2. (capture.truncated \/ Len(piece) > Limit - Len(capture.data)) \in BOOLEAN
            OBVIOUS
        <3> QED BY <2>1, <3>1, <3>2 DEF CopyType
    <2>6. Len(Record(piece).data) <= Limit
        BY <2>2, RetainedFacts
    <2>7. ~Record(piece).truncated => ~capture.truncated /\ Record(piece).data = capture.data \o piece
        BY <2>2, <2>3, RetainedFacts
    <2>8. Record(piece).truncated /\ ~capture.truncated => Len(capture.data) + Len(piece) > Limit
        BY <1>1, <2>3
    <2> QED BY <1>4, <2>4, <2>5, <2>6, <2>7, <2>8
<1> QED BY <1>2, <1>3, <1>4

-----------------------------------------------------------------------------
(* Steps *)

\* A piece handed to the connection: what was accepted is sent and recorded, and
\* a refusal is noted.
LEMMA DeliverFacts ==
    ASSUME CopyType, NEW k \in Nat, NEW ok \in BOOLEAN, Deliver(k, ok)
    PROVE  \E n \in 0..k, piece \in Seq(Nat) :
              /\ Len(piece) = n
              /\ n > 0 => ~hijacked
              /\ wire' = wire \o piece
              /\ cursor' \in {cursor + n, cursor + k}
              /\ broken' = (broken \/ ~ok)
              /\ unsafe' = (unsafe \/ (n > 0 /\ headers = "unsafe"))
              /\ capture' = [(IF n > 0 THEN Record(piece) ELSE capture) EXCEPT !.failed = @ \/ ~ok]
              /\ UNCHANGED <<doc, headers, hijacked, log, shown>>
<1>1. PICK n \in (IF hijacked THEN {0} ELSE 0..k) :
          /\ wire' = wire \o [i \in 1..n |-> cursor + i]
          /\ cursor' \in {cursor + n, cursor + k}
          /\ broken' = (broken \/ ~ok)
          /\ unsafe' = (unsafe \/ (n > 0 /\ headers = "unsafe"))
          /\ capture' = [(IF n > 0 THEN Record([i \in 1..n |-> cursor + i]) ELSE capture) EXCEPT !.failed = @ \/ ~ok]
          /\ UNCHANGED <<doc, headers, hijacked, log, shown>>
    BY DEF Deliver
<1>2. n \in 0..k /\ (n > 0 => ~hijacked)
    OBVIOUS
<1> DEFINE piece == [i \in 1..n |-> cursor + i]
<1>3. piece \in Seq(Nat) /\ Len(piece) = n
    BY <1>2 DEF CopyType
<1>4. /\ wire' = wire \o piece
      /\ capture' = [(IF n > 0 THEN Record(piece) ELSE capture) EXCEPT !.failed = @ \/ ~ok]
    BY <1>1
<1> HIDE DEF piece
<1> QED BY <1>1, <1>2, <1>3, <1>4

\* However a piece is delivered, the copy stays what was sent.
LEMMA DeliverStep ==
    ASSUME CopyType, CopyInv, NEW k \in Nat, NEW ok \in BOOLEAN, Deliver(k, ok)
    PROVE  CopyType' /\ CopyInv'
<1>1. PICK n \in 0..k, piece \in Seq(Nat) :
          /\ Len(piece) = n
          /\ n > 0 => ~hijacked
          /\ wire' = wire \o piece
          /\ cursor' \in {cursor + n, cursor + k}
          /\ broken' = (broken \/ ~ok)
          /\ unsafe' = (unsafe \/ (n > 0 /\ headers = "unsafe"))
          /\ capture' = [(IF n > 0 THEN Record(piece) ELSE capture) EXCEPT !.failed = @ \/ ~ok]
          /\ UNCHANGED <<doc, headers, hijacked, log, shown>>
    BY DeliverFacts
<1> DEFINE copy == IF n > 0 THEN Record(piece) ELSE capture
<1>2. /\ copy \in [data : Seq(Nat), truncated : BOOLEAN, failed : BOOLEAN, disabled : BOOLEAN]
      /\ Len(copy.data) <= Limit
      /\ copy.failed = capture.failed
    BY RecordFacts DEF CopyType
<1>3. ~copy.disabled =>
          /\ ~capture.disabled
          /\ n > 0 => headers # "unsafe"
          /\ ~copy.truncated => ~capture.truncated /\ (copy.data = capture.data \o piece)
          /\ copy.truncated /\ ~capture.truncated => Len(capture.data) + Len(piece) > Limit
    <2>1. CASE n > 0
        BY <2>1, RecordFacts DEF Capturable
    <2>2. CASE ~(n > 0)
        <3>1. piece = <<>>
            BY <1>1, <2>2, EmptySeq
        <3>2. capture.data \o piece = capture.data
            BY <3>1, ConcatEmptySeq DEF CopyType
        <3> QED BY <2>2, <3>2
    <2> QED BY <2>1, <2>2
<1> HIDE DEF copy
<1>4. capture' = [copy EXCEPT !.failed = @ \/ ~ok]
    BY <1>1 DEF copy
<1>5. /\ capture' \in [data : Seq(Nat), truncated : BOOLEAN, failed : BOOLEAN, disabled : BOOLEAN]
      /\ capture'.data = copy.data /\ capture'.truncated = copy.truncated /\ capture'.disabled = copy.disabled
      /\ capture'.failed <=> capture.failed \/ ~ok
    BY <1>2, <1>4
<1>6. wire' \in Seq(Nat) /\ Len(wire') = Len(wire) + Len(piece) /\ Len(wire) \in Nat /\ Len(piece) \in Nat
    BY <1>1, ConcatProperties, LenProperties DEF CopyType
<1>7. CopyType'
    <2>1. cursor' \in Nat
        BY <1>1 DEF CopyType
    <2> QED BY <1>1, <1>2, <1>5, <1>6, <2>1 DEF CopyType
<1>8. CopyInv'
    <2> SUFFICES ASSUME ~copy.disabled
                 PROVE  /\ ~unsafe' /\ ~hijacked'
                        /\ capture'.failed <=> broken'
                        /\ ~copy.truncated => copy.data = wire'
                        /\ copy.truncated => Len(wire') > Limit
        BY <1>5 DEF CopyInv
    <2>1. ~unsafe /\ ~hijacked /\ (capture.failed <=> broken)
        BY <1>3 DEF CopyInv
    <2>2. ~capture.truncated => capture.data = wire
        BY <1>3 DEF CopyInv
    <2>3. capture.truncated => Len(wire) > Limit
        BY <1>3 DEF CopyInv
    <2>4. ~unsafe' /\ ~hijacked' /\ (capture'.failed <=> broken')
        BY <1>1, <1>3, <1>5, <2>1
    <2>5. ~copy.truncated => copy.data = wire'
        BY <1>1, <1>3, <2>2
    <2>6. copy.truncated => Len(wire') > Limit
        <3>1. Limit \in Nat
            BY ResponseAssumption
        <3>2. CASE capture.truncated
            BY <1>6, <2>3, <3>1, <3>2
        <3>3. CASE ~capture.truncated
            BY <1>3, <1>6, <2>2, <3>1, <3>3
        <3> QED BY <3>2, <3>3
    <2> QED BY <2>4, <2>5, <2>6
<1> QED BY <1>7, <1>8

\* The record is made of a copy that is what was sent.
LEMMA LogStep ==
    ASSUME CopyType, CopyInv, Log
    PROVE  LoggedAsSent'
<1>1. log' = Marker /\ UNCHANGED <<wire, broken, unsafe, hijacked, capture>>
    BY DEF Log
<1>2. ASSUME log' \in {"body", "empty", "invalid json", "invalid form", "redacted exceeds limit"}
      PROVE  ~capture.disabled /\ ~capture.truncated /\ ~capture.failed
    BY <1>1, <1>2 DEF Marker
<1>3. log' = "exceeds limit" => ~capture.disabled /\ capture.truncated
    BY <1>1 DEF Marker
<1>4. log' = "failed" => ~capture.disabled /\ capture.failed
    BY <1>1 DEF Marker
<1> QED BY <1>1, <1>2, <1>3, <1>4 DEF LoggedAsSent, CopyInv

\* Every step keeps the invariant.
LEMMA CaptureStep == CaptureInv /\ [Next]_vars => CaptureInv'
<1> SUFFICES ASSUME CaptureInv, [Next]_vars PROVE CaptureInv'
    OBVIOUS
<1>1. CopyType /\ CopyInv /\ RecordInv /\ LoggedAsSent
    BY DEF CaptureInv
<1>2. ASSUME NEW k, NEW ok \in BOOLEAN, k \in Nat, Deliver(k, ok), phase \in {"serve", "copy"} PROVE CaptureInv'
    <2>1. log = "none" /\ log' = log
        BY <1>1, <1>2 DEF RecordInv, Deliver
    <2>2. RecordInv' /\ LoggedAsSent'
        BY <2>1 DEF RecordInv, LoggedAsSent
    <2> QED BY <1>1, <1>2, <2>2, DeliverStep DEF CaptureInv
<1>3. CASE Write
    <2>1. PICK k \in 1..Smaller(MaxWrite, doc.length - cursor), ok \in BOOLEAN : Deliver(k, ok)
        BY <1>3 DEF Write
    <2>2. k \in Nat /\ phase = "serve"
        BY <1>3 DEF Write
    <2> QED BY <1>2, <2>1, <2>2
<1>4. CASE CopyChunk
    <2>1. PICK k \in 1..Smaller(MaxWrite, doc.length - cursor), ok \in BOOLEAN : Deliver(k, ok)
        BY <1>4 DEF CopyChunk
    <2>2. k \in Nat /\ phase = "copy"
        BY <1>4 DEF CopyChunk
    <2> QED BY <1>2, <2>1, <2>2
<1>5. ASSUME UNCHANGED <<cursor, wire, broken, unsafe, hijacked, capture, log>>, phase # "logged" \/ phase' = "logged"
      PROVE  CaptureInv'
    BY <1>1, <1>5 DEF CaptureInv, CopyType, CopyInv, RecordInv, LoggedAsSent
<1>6. CASE BeginReadFrom \/ CopyEnds \/ SetHeaders \/ UNCHANGED vars
    BY <1>5, <1>6 DEF BeginReadFrom, CopyEnds, SetHeaders, vars
<1>7. CASE Hijack
    <2>1. capture' = [capture EXCEPT !.disabled = TRUE, !.data = <<>>] /\ hijacked' \in BOOLEAN
        BY <1>7 DEF Hijack, Disabled
    <2>2. UNCHANGED <<cursor, wire, broken, unsafe, log, phase>> /\ phase = "serve"
        BY <1>7 DEF Hijack
    <2>3. capture' \in [data : Seq(Nat), truncated : BOOLEAN, failed : BOOLEAN, disabled : BOOLEAN]
        BY <1>1, <2>1, EmptySeq DEF CopyType
    <2>4. capture'.disabled /\ Len(capture'.data) = 0
        BY <1>1, <2>1, EmptySeq DEF CopyType
    <2>5. 0 <= Limit
        BY ResponseAssumption
    <2>6. CopyType' /\ CopyInv'
        BY <1>1, <2>1, <2>2, <2>3, <2>4, <2>5 DEF CopyType, CopyInv
    <2>7. RecordInv' /\ LoggedAsSent'
        BY <1>1, <2>2 DEF RecordInv, LoggedAsSent
    <2> QED BY <2>6, <2>7 DEF CaptureInv
<1>8. CASE Log
    <2>1. UNCHANGED <<cursor, wire, broken, unsafe, hijacked, capture>> /\ phase' = "logged"
        BY <1>8 DEF Log
    <2>2. CopyType' /\ CopyInv' /\ RecordInv'
        BY <1>1, <2>1 DEF CopyType, CopyInv, RecordInv
    <2> QED BY <1>1, <1>8, <2>2, LogStep DEF CaptureInv
<1> QED BY <1>3, <1>4, <1>6, <1>7, <1>8 DEF Next

LEMMA CaptureInit == Init => CaptureInv
<1> SUFFICES ASSUME Init PROVE CaptureInv
    OBVIOUS
<1>1. Limit \in Nat /\ 0 <= Limit
    BY ResponseAssumption
<1>2. CopyType
    BY <1>1, EmptySeq DEF Init, CopyType
<1>3. CopyInv /\ RecordInv /\ LoggedAsSent
    BY DEF Init, CopyInv, RecordInv, LoggedAsSent
<1> QED BY <1>2, <1>3 DEF CaptureInv

\* The log shows of a response what the connection accepted, all of it and
\* nothing else, or the true reason it does not (access_log.go:506-564).
THEOREM LoggedCorrect == Spec => []LoggedAsSent
<1>1. CaptureInv => LoggedAsSent
    BY DEF CaptureInv
<1> QED BY CaptureInit, CaptureStep, <1>1, PTL DEF Spec

-----------------------------------------------------------------------------
(* Documents *)

\* Every nonempty set of natural numbers has a least element.
LEMMA LeastNatural ==
    ASSUME NEW T \in SUBSET Nat, T # {}
    PROVE  \E x \in T : \A y \in T : x <= y
<1> DEFINE R == {ss \in Nat \X Nat : ss[1] < ss[2]}
<1>1. IsWellFoundedOn(R, Nat)
    BY NatLessThanWellFounded DEF OpToRel
<1>2. PICK x \in T : \A y \in T : ~(<<y, x>> \in R)
    <2> HIDE DEF R
    <2> QED BY <1>1, WFMin
<1>3. ASSUME NEW y \in T PROVE x <= y
    <2>1. x \in Nat /\ y \in Nat
        OBVIOUS
    <2>2. y < x => <<y, x>> \in R
        BY <2>1
    <2> QED BY <1>2, <2>1, <2>2
<1> QED BY <1>3

\* Every nonempty set of natural numbers up to N has a greatest element.
LEMMA GreatestNatural ==
    ASSUME NEW N \in Nat, NEW T \in SUBSET (0..N), T # {}
    PROVE  \E x \in T : \A y \in T : y <= x
<1> DEFINE U == {N - y : y \in T}
<1>1. U \in SUBSET Nat /\ U # {}
    <2>1. ASSUME NEW y \in T PROVE N - y \in Nat
        OBVIOUS
    <2> QED BY <2>1
<1>2. PICK u \in U : \A y \in U : u <= y
    BY <1>1, LeastNatural
<1>3. PICK x \in T : u = N - x
    BY <1>2
<1>4. \A y \in T : u <= N - y
    BY <1>2
<1> QED BY <1>3, <1>4

Typed == doc \in DocumentType

\* What the type of a document says of its nodes.
LEMMA DocumentFacts ==
    ASSUME Typed
    PROVE  /\ doc.length \in Nat
           /\ Len(doc.parent) \in Nat /\ Nodes = 1..Len(doc.parent) /\ 1 \in Nodes
           /\ \A n \in Nodes \ {1} : /\ doc.parent[n] \in Nodes /\ doc.parent[n] < n
                                     /\ doc.kind[doc.parent[n]] # "scalar"
           /\ doc.sensitive \subseteq Nodes \ {1}
           /\ \A n \in doc.sensitive : doc.kind[doc.parent[n]] = "object"
           /\ doc.media = "form" => \A n \in Nodes \ {1} : doc.parent[n] = 1
           /\ doc.media \in {"json", "form"}
<1>1. doc \in DocumentShape /\ WellFormed(doc)
    BY DEF Typed, DocumentType
<1>2. doc.length \in Nat /\ doc.parent \in Seq(Nat) /\ doc.media \in {"json", "form"}
    BY <1>1 DEF DocumentShape
<1>3. Len(doc.parent) \in Nat /\ Nodes = 1..Len(doc.parent)
    BY <1>2 DEF Nodes
<1>4. /\ 1 \in Nodes
      /\ \A n \in Nodes \ {1} : doc.parent[n] \in 1..(n - 1) /\ doc.kind[doc.parent[n]] # "scalar"
      /\ \A n \in doc.sensitive : n \in Nodes \ {1} /\ doc.kind[doc.parent[n]] = "object"
      /\ doc.media = "form" => \A n \in Nodes \ {1} : doc.parent[n] = 1
    BY <1>1 DEF WellFormed, Nodes
<1>5. ASSUME NEW n \in Nodes \ {1} PROVE doc.parent[n] \in Nodes /\ doc.parent[n] < n
    <2>1. doc.parent[n] \in 1..(n - 1) /\ n \in 1..Len(doc.parent)
        BY <1>3, <1>4
    <2> QED BY <1>3, <2>1
<1> QED BY <1>2, <1>3, <1>4, <1>5

\* Parts come after what contains them, and a scalar has none.
LEMMA PartFacts ==
    ASSUME Typed, NEW n \in Nodes
    PROVE  /\ \A m \in Parts(n) : m \in Nodes \ {1} /\ doc.parent[m] = n /\ n < m
           /\ Traversed(n) \subseteq Parts(n)
           /\ doc.kind[n] = "scalar" => Traversed(n) = {}
           /\ \A m \in Parts(n) : m \in Traversed(n) <=> m \notin doc.sensitive
<1>1. ASSUME NEW m \in Parts(n) PROVE m \in Nodes \ {1} /\ doc.parent[m] = n /\ n < m
    <2>1. m \in Nodes /\ doc.parent[m] = n
        BY DEF Parts
    <2>2. m # 1
        <3>1. doc.parent[1] = 0
            BY DEF Typed, DocumentType, WellFormed
        <3>2. n # 0
            BY DocumentFacts
        <3> QED BY <2>1, <3>1, <3>2
    <2> QED BY <2>1, <2>2, DocumentFacts
<1>2. Traversed(n) \subseteq Parts(n)
    BY DEF Traversed
<1>3. doc.kind[n] = "scalar" => Traversed(n) = {}
    BY <1>1, <1>2, DocumentFacts
<1>4. ASSUME NEW m \in Parts(n) PROVE m \in Traversed(n) <=> m \notin doc.sensitive
    BY <1>1, DocumentFacts DEF Traversed
<1> QED BY <1>1, <1>2, <1>3, <1>4

-----------------------------------------------------------------------------
(* What is secret *)

\* All that is in a secret is secret, and a secret has a redaction key or is in one.
LEMMA SecretFacts ==
    ASSUME Typed
    PROVE  /\ Secrets \subseteq Nodes \ {1} /\ doc.sensitive \subseteq Secrets
           /\ \A n \in Secrets : Parts(n) \subseteq Secrets
           /\ \A n \in Secrets : n \in doc.sensitive \/ doc.parent[n] \in Secrets
<1>1. doc.sensitive \subseteq Secrets
    BY DocumentFacts DEF Secrets
<1>2. ASSUME NEW n \in Secrets, NEW m \in Parts(n) PROVE m \in Secrets
    <2>1. n \in Nodes /\ m \in Nodes
        BY DEF Secrets, Parts
    <2>2. ASSUME NEW S \in SUBSET Nodes, doc.sensitive \subseteq S, \A k \in S : Parts(k) \subseteq S PROVE m \in S
        <3>1. n \in S
            BY <2>2 DEF Secrets
        <3> QED BY <2>2, <3>1
    <2> QED BY <2>1, <2>2 DEF Secrets
<1> DEFINE T == {n \in Secrets : n \in doc.sensitive \/ (n # 1 /\ doc.parent[n] \in Secrets)}
<1>3. T \in SUBSET Nodes /\ doc.sensitive \subseteq T
    BY <1>1 DEF Secrets
<1>4. ASSUME NEW n \in T, NEW m \in Parts(n) PROVE m \in T
    <2>1. n \in Nodes /\ n \in Secrets
        BY DEF Secrets
    <2> QED BY <1>2, <2>1, PartFacts
<1>5. Secrets \subseteq T
    <2> HIDE DEF T
    <2> QED BY <1>3, <1>4 DEF Secrets
<1>6. Secrets \subseteq Nodes \ {1}
    BY <1>5, DocumentFacts DEF Secrets
<1> QED BY <1>1, <1>2, <1>5, <1>6

\* In a form only the pairs with a redaction key are secret.
LEMMA FormSecrets ==
    ASSUME Typed, doc.media = "form"
    PROVE  Secrets = doc.sensitive
BY SecretFacts, DocumentFacts

-----------------------------------------------------------------------------
(* What redaction leaves to see *)

\* The nodes redactJSON visits from n on.
Visited(n) == {m \in Nodes : \A S \in SUBSET Nodes : n \in S /\ (\A k \in S : Traversed(k) \subseteq S) => m \in S}

LEMMA VisitedFacts ==
    ASSUME Typed, NEW n \in Nodes
    PROVE  /\ n \in Visited(n) /\ Visited(n) \in SUBSET Nodes
           /\ \A k \in Visited(n) : Traversed(k) \subseteq Visited(n)
           /\ \A S \in SUBSET Nodes : n \in S /\ (\A k \in S : Traversed(k) \subseteq S) => Visited(n) \subseteq S
<1>1. n \in Visited(n) /\ Visited(n) \in SUBSET Nodes
    BY DEF Visited
<1>2. ASSUME NEW S \in SUBSET Nodes, n \in S, \A k \in S : Traversed(k) \subseteq S PROVE Visited(n) \subseteq S
    BY <1>2 DEF Visited
<1>3. ASSUME NEW k \in Visited(n), NEW m \in Traversed(k) PROVE m \in Visited(n)
    <2>1. k \in Nodes
        BY <1>1
    <2>2. m \in Nodes
        BY <2>1, PartFacts
    <2>3. ASSUME NEW S \in SUBSET Nodes, n \in S, \A i \in S : Traversed(i) \subseteq S PROVE m \in S
        <3>1. k \in S
            BY <1>2, <2>3
        <3> QED BY <2>3, <3>1
    <2> QED BY <2>2, <2>3 DEF Visited
<1> QED BY <1>1, <1>2, <1>3

\* A visit is to the node, then to what it traverses.
LEMMA VisitedStep ==
    ASSUME Typed, NEW n \in Nodes
    PROVE  /\ Traversed(n) \subseteq Nodes
           /\ Visited(n) = {n} \cup (UNION {Visited(m) : m \in Traversed(n)})
<1> DEFINE S == {n} \cup (UNION {Visited(m) : m \in Traversed(n)})
<1>1. Traversed(n) \subseteq Nodes
    BY PartFacts
<1>2. ASSUME NEW m \in Traversed(n) PROVE Visited(m) \subseteq Visited(n)
    <2>1. m \in Nodes /\ m \in Visited(n)
        BY <1>1, VisitedFacts
    <2>2. Visited(n) \in SUBSET Nodes /\ \A k \in Visited(n) : Traversed(k) \subseteq Visited(n)
        BY VisitedFacts
    <2> QED BY <2>1, <2>2, VisitedFacts
<1>3. S \subseteq Visited(n)
    BY <1>2, VisitedFacts
<1>4. S \in SUBSET Nodes
    BY <1>3, VisitedFacts
<1>5. ASSUME NEW k \in S, NEW i \in Traversed(k) PROVE i \in S
    <2>1. CASE k = n
        <3>1. i \in Traversed(n) /\ i \in Nodes
            BY <1>1, <1>5, <2>1
        <3>2. i \in Visited(i)
            BY <3>1, VisitedFacts
        <3> QED BY <3>1, <3>2
    <2>2. CASE k # n
        <3>1. PICK m \in Traversed(n) : k \in Visited(m)
            BY <2>2
        <3>2. i \in Visited(m)
            BY <1>1, <1>5, <3>1, VisitedFacts
        <3> QED BY <3>2
    <2> QED BY <2>1, <2>2
<1>6. Visited(n) \subseteq S
    <2>1. n \in S
        OBVIOUS
    <2> HIDE DEF S
    <2> QED BY <1>4, <1>5, <2>1, VisitedFacts
<1> QED BY <1>1, <1>3, <1>6

Scalars(nodes) == {m \in nodes : doc.kind[m] = "scalar"}

\* The scalars visited solve the equation of Visible,
LEMMA ScalarStep ==
    ASSUME Typed, NEW n \in Nodes
    PROVE  Scalars(Visited(n)) = IF doc.kind[n] = "scalar" THEN {n} ELSE UNION {Scalars(Visited(m)) : m \in Traversed(n)}
<1>1. Visited(n) = {n} \cup (UNION {Visited(m) : m \in Traversed(n)})
    BY VisitedStep
<1>2. CASE doc.kind[n] = "scalar"
    <2>1. Traversed(n) = {}
        BY <1>2, PartFacts
    <2>2. Visited(n) = {n}
        BY <1>1, <2>1
    <2> QED BY <1>2, <2>2 DEF Scalars
<1>3. CASE doc.kind[n] # "scalar"
    <2>1. ASSUME NEW s PROVE s \in Scalars(Visited(n)) <=> \E m \in Traversed(n) : s \in Scalars(Visited(m))
        BY <1>1, <1>3 DEF Scalars
    <2> QED BY <1>3, <2>1
<1> QED BY <1>2, <1>3

\* so the equation holds of Visible,
LEMMA VisibleDef ==
    ASSUME Typed
    PROVE  \A n \in Nodes : Visible[n] = IF doc.kind[n] = "scalar" THEN {n} ELSE UNION {Visible[m] : m \in Traversed(n)}
<1>1. PICK f : f = [n \in Nodes |-> Scalars(Visited(n))]
    OBVIOUS
<1>2. ASSUME NEW n \in Nodes
      PROVE  f[n] = IF doc.kind[n] = "scalar" THEN {n} ELSE UNION {f[m] : m \in Traversed(n)}
    <2>1. f[n] = Scalars(Visited(n))
        BY <1>1
    <2>2. \A m \in Traversed(n) : f[m] = Scalars(Visited(m))
        BY <1>1, VisitedStep
    <2>3. {f[m] : m \in Traversed(n)} = {Scalars(Visited(m)) : m \in Traversed(n)}
        BY <2>2
    <2> QED BY <2>1, <2>3, ScalarStep
<1>3. f = [n \in Nodes |-> IF doc.kind[n] = "scalar" THEN {n} ELSE UNION {f[m] : m \in Traversed(n)}]
    BY <1>1, <1>2
<1>4. Visible = [n \in Nodes |-> IF doc.kind[n] = "scalar" THEN {n} ELSE UNION {Visible[m] : m \in Traversed(n)}]
    BY <1>3 DEF Visible
<1> QED BY <1>4

\* and has no other solution: they would differ at a last node.
LEMMA VisibleFacts ==
    ASSUME Typed, NEW n \in Nodes
    PROVE  Visible[n] = Scalars(Visited(n))
<1> DEFINE D == {k \in Nodes : Visible[k] # Scalars(Visited(k))}
<1> SUFFICES ASSUME D # {} PROVE FALSE
    OBVIOUS
<1>1. D \in SUBSET (0..Len(doc.parent)) /\ Len(doc.parent) \in Nat
    BY DocumentFacts
<1>2. PICK k \in D : \A y \in D : y <= k
    <2> HIDE DEF D
    <2> QED BY <1>1, GreatestNatural
<1>3. k \in Nodes /\ Visible[k] # Scalars(Visited(k))
    OBVIOUS
<1>4. ASSUME NEW m \in Traversed(k) PROVE Visible[m] = Scalars(Visited(m))
    <2>1. m \in Nodes /\ k < m
        BY <1>3, PartFacts
    <2>2. k \in Nat /\ m \in Nat
        BY <1>3, <2>1, DocumentFacts
    <2> QED BY <1>2, <2>1, <2>2
<1>5. {Visible[m] : m \in Traversed(k)} = {Scalars(Visited(m)) : m \in Traversed(k)}
    BY <1>4
<1>6. Visible[k] = Scalars(Visited(k))
    BY <1>3, <1>5, VisibleDef, ScalarStep
<1> QED BY <1>3, <1>6

\* From the root everything but the secrets is visited.
LEMMA VisitedRoot ==
    ASSUME Typed
    PROVE  Visited(1) = Nodes \ Secrets
<1>1. 1 \in Nodes
    BY DocumentFacts
<1>2. Visited(1) \subseteq Nodes \ Secrets
    <2>1. 1 \in Nodes \ Secrets
        BY <1>1, SecretFacts
    <2>2. ASSUME NEW k \in Nodes \ Secrets, NEW m \in Traversed(k) PROVE m \in Nodes \ Secrets
        <3>1. m \in Parts(k) /\ m \in Nodes /\ doc.parent[m] = k /\ m \notin doc.sensitive
            BY PartFacts
        <3> QED BY <3>1, SecretFacts
    <2> QED BY <1>1, <2>1, <2>2, VisitedFacts
<1> DEFINE D == (Nodes \ Secrets) \ Visited(1)
<1>3. ASSUME D # {} PROVE FALSE
    <2>1. D \in SUBSET Nat
        BY DocumentFacts
    <2>2. PICK n \in D : \A y \in D : n <= y
        <3> HIDE DEF D
        <3> QED BY <1>3, <2>1, LeastNatural
    <2>3. n \in Nodes \ {1} /\ n \notin Secrets
        BY <1>1, VisitedFacts
    <2> DEFINE p == doc.parent[n]
    <2>4. p \in Nodes /\ p < n /\ n \in Parts(p)
        BY <2>3, DocumentFacts DEF Parts
    <2>5. p \notin Secrets
        BY <2>3, <2>4, SecretFacts
    <2>6. p \in Visited(1)
        <3>1. p \in Nat /\ n \in Nat
            BY <2>3, <2>4, DocumentFacts
        <3> HIDE DEF p
        <3> QED BY <2>2, <2>4, <2>5, <3>1
    <2>7. n \in Traversed(p)
        <3>1. n \notin doc.sensitive
            BY <2>3, SecretFacts
        <3> HIDE DEF p
        <3> QED BY <2>4, <3>1, PartFacts
    <2>8. n \in Visited(1)
        <3> HIDE DEF p
        <3> QED BY <1>1, <2>6, <2>7, VisitedFacts
    <2> QED BY <2>8
<1> QED BY <1>2, <1>3

\* Redaction shows the scalars that are not secret, all of them.
LEMMA RedactedFacts ==
    ASSUME Typed
    PROVE  Redacted = Scalars(Nodes \ Secrets)
BY VisibleFacts, VisitedRoot, DocumentFacts DEF Redacted

LEMMA RedactedFormFacts ==
    ASSUME Typed, doc.media = "form"
    PROVE  RedactedForm \subseteq Nodes \ Secrets
BY FormSecrets DEF RedactedForm

-----------------------------------------------------------------------------
(* The whole invariant *)

\* The bytes are bytes of the document.
Copied ==
    /\ cursor \in 0..doc.length
    /\ wire \in Seq(1..doc.length)
    /\ capture.data \in Seq(1..doc.length)

Phases ==
    /\ phase \in {"serve", "copy", "logged"}
    /\ headers \in {"document", "unsafe"}
    /\ log \in {"none", "unsupported", "exceeds limit", "failed", "empty", "invalid json", "invalid form", "redacted exceeds limit", "body"}

ShownInv == shown \subseteq Nodes /\ NoSecretLogged

ResponseInv == CaptureInv /\ Typed /\ Copied /\ Phases /\ ShownInv

\* While the document stays what it is and nothing is logged, what is shown stays right.
LEMMA ShownKept ==
    ASSUME ShownInv, UNCHANGED <<doc, log, shown>>
    PROVE  ShownInv'
BY DEF ShownInv, NoSecretLogged, Secrets, Parts, Nodes

\* The first elements of a sequence are elements of it.
LEMMA PrefixType ==
    ASSUME NEW S, NEW s \in Seq(S), NEW x \in 0..Len(s)
    PROVE  SubSeq(s, 1, x) \in Seq(S)
<1>1. Len(s) \in Nat /\ x \in Nat /\ x <= Len(s)
    BY LenProperties
<1>2. ASSUME NEW i \in 1..x PROVE s[i] \in S
    BY <1>1, LenProperties, ElementOfSeq
<1>3. SubSeq(s, 1, x) = [i \in 1..x |-> s[i]]
    BY <1>1
<1> QED BY <1>1, <1>2, <1>3

\* A piece is behind the cursor and within the document.
LEMMA DeliverCopied ==
    ASSUME CopyType, Typed, Copied, NEW k \in 1..Smaller(MaxWrite, doc.length - cursor), NEW ok \in BOOLEAN, Deliver(k, ok)
    PROVE  Copied'
<1>1. doc.length \in Nat /\ cursor \in 0..doc.length /\ MaxWrite \in Nat
    BY DocumentFacts, ResponseAssumption DEF Copied
<1>2. k \in Nat /\ cursor + k <= doc.length
    <2> DEFINE b == doc.length - cursor
    <2>1. b \in Nat
        BY <1>1
    <2>2. k \in Nat /\ k <= b
        <3> HIDE DEF b
        <3>1. k \in 1..Smaller(MaxWrite, b)
            BY DEF b
        <3> QED BY <1>1, <2>1, <3>1 DEF Smaller
    <2> QED BY <1>1, <2>2
<1>3. PICK n \in (IF hijacked THEN {0} ELSE 0..k) :
          /\ wire' = wire \o [i \in 1..n |-> cursor + i]
          /\ cursor' \in {cursor + n, cursor + k}
          /\ capture' = [(IF n > 0 THEN Record([i \in 1..n |-> cursor + i]) ELSE capture) EXCEPT !.failed = @ \/ ~ok]
          /\ doc' = doc
    BY DEF Deliver
<1>4. PICK piece : piece = [i \in 1..n |-> cursor + i]
    OBVIOUS
<1>5. n \in 0..k
    BY <1>3
<1>6. piece \in Seq(1..doc.length) /\ piece \in Seq(Nat)
    <2>1. ASSUME NEW i \in 1..n PROVE cursor + i \in 1..doc.length
        BY <1>1, <1>2, <1>5
    <2>2. n \in Nat
        BY <1>2, <1>5
    <2> QED BY <1>4, <2>1, <2>2
<1>7. cursor' \in 0..doc.length
    BY <1>1, <1>2, <1>3, <1>5
<1>8. wire' \in Seq(1..doc.length)
    <2>1. wire' = wire \o piece
        BY <1>3, <1>4
    <2> QED BY <1>6, <2>1, ConcatProperties DEF Copied
<1>9. Retained(piece) \in Seq(1..doc.length)
    <2> DEFINE b == Limit - Len(capture.data)
    <2>1. b \in Nat /\ Len(piece) \in Nat
        BY <1>6, ResponseAssumption DEF CopyType
    <2>2. Smaller(Len(piece), b) \in Nat /\ Smaller(Len(piece), b) <= Len(piece)
        <3> HIDE DEF b
        <3> QED BY <2>1 DEF Smaller
    <2>3. SubSeq(piece, 1, Smaller(Len(piece), b)) \in Seq(1..doc.length)
        <3>1. PICK x \in Nat : x = Smaller(Len(piece), b) /\ x <= Len(piece)
            BY <2>2
        <3>2. x \in 0..Len(piece)
            BY <2>1, <3>1
        <3>3. SubSeq(piece, 1, x) \in Seq(1..doc.length)
            BY ONLY <1>6, <3>2, PrefixType
        <3> QED BY <3>1, <3>3
    <2> QED BY <2>3 DEF Retained
<1>10. Record(piece).data \in Seq(1..doc.length)
    <2>1. CASE ~Capturable
        BY <2>1, EmptySeq DEF Record, Disabled, CopyType
    <2>2. CASE Capturable /\ capture.disabled
        BY <2>2 DEF Record, Observed, Copied
    <2>3. CASE Capturable /\ ~capture.disabled
        <3>1. Record(piece).data = capture.data \o Retained(piece)
            BY <2>3 DEF Record, Observed, CopyType
        <3> QED BY <1>9, <3>1, ConcatProperties DEF Copied
    <2> QED BY <2>1, <2>2, <2>3
<1>11. capture'.data \in Seq(1..doc.length)
    <2>1. capture' = [(IF n > 0 THEN Record(piece) ELSE capture) EXCEPT !.failed = @ \/ ~ok]
        BY <1>3, <1>4
    <2>2. CASE n > 0
        <3>1. Record(piece) \in [data : Seq(Nat), truncated : BOOLEAN, failed : BOOLEAN, disabled : BOOLEAN]
            BY <1>6, RecordFacts
        <3> QED BY <1>10, <2>1, <2>2, <3>1
    <2>3. CASE ~(n > 0)
        BY <2>1, <2>3 DEF Copied, CopyType
    <2> QED BY <2>2, <2>3
<1> QED BY <1>3, <1>7, <1>8, <1>11 DEF Copied

\* Every step keeps what is beyond CaptureInv.
LEMMA ResponseStep == ResponseInv /\ [Next]_vars => ResponseInv'
<1> SUFFICES ASSUME ResponseInv, [Next]_vars PROVE ResponseInv'
    OBVIOUS
<1>1. CaptureInv /\ CopyType /\ Typed /\ Copied /\ Phases /\ ShownInv
    BY DEF ResponseInv, CaptureInv
<1>2. CaptureInv'
    BY <1>1, CaptureStep
<1>3. doc' = doc
    BY DEF Next, vars, Write, BeginReadFrom, CopyChunk, CopyEnds, Hijack, SetHeaders, Log, Deliver
<1>4. Typed'
    BY <1>1, <1>3 DEF Typed
<1>5. Copied' /\ Phases' /\ ShownInv'
    <2>1. CASE Write
        <3>1. PICK k \in 1..Smaller(MaxWrite, doc.length - cursor), ok \in BOOLEAN : Deliver(k, ok)
            BY <2>1 DEF Write
        <3>2. UNCHANGED <<doc, headers, log, shown, phase>>
            BY <2>1, <3>1 DEF Write, Deliver
        <3> QED BY <1>1, <3>1, <3>2, DeliverCopied, ShownKept DEF Phases
    <2>2. CASE CopyChunk
        <3>1. PICK k \in 1..Smaller(MaxWrite, doc.length - cursor), ok \in BOOLEAN :
                  Deliver(k, ok) /\ phase' = IF ok THEN "copy" ELSE "serve"
            BY <2>2 DEF CopyChunk
        <3>2. UNCHANGED <<doc, headers, log, shown>> /\ phase' \in {"copy", "serve"}
            BY <3>1 DEF Deliver
        <3> QED BY <1>1, <3>1, <3>2, DeliverCopied, ShownKept DEF Phases
    <2>3. CASE BeginReadFrom \/ CopyEnds \/ SetHeaders \/ UNCHANGED vars
        <3>1. UNCHANGED <<doc, cursor, wire, capture, log, shown>>
            BY <2>3 DEF BeginReadFrom, CopyEnds, SetHeaders, vars
        <3>2. Phases'
            BY <1>1, <2>3 DEF BeginReadFrom, CopyEnds, SetHeaders, vars, Phases
        <3> QED BY <1>1, <3>1, <3>2, ShownKept DEF Copied
    <2>4. CASE Hijack
        <3>1. UNCHANGED <<doc, phase, headers, cursor, wire, log, shown>> /\ capture' = Disabled
            BY <2>4 DEF Hijack
        <3>2. capture'.data = <<>>
            BY <1>1, <3>1 DEF Disabled, CopyType
        <3>3. Copied'
            BY <1>1, <3>1, <3>2, EmptySeq DEF Copied
        <3> QED BY <1>1, <3>1, <3>3, ShownKept DEF Phases
    <2>5. CASE Log
        <3>1. /\ UNCHANGED <<doc, headers, cursor, wire, capture>> /\ phase' = "logged" /\ log' = Marker
              /\ shown' = IF log' # "body" THEN {} ELSE IF doc.media = "json" THEN Redacted ELSE RedactedForm
            BY <2>5 DEF Log
        <3>2. Copied'
            BY <1>1, <3>1 DEF Copied
        <3>3. Marker \in {"unsupported", "exceeds limit", "failed", "empty", "invalid json", "invalid form", "redacted exceeds limit", "body"}
            BY DEF Marker
        <3>4. Phases'
            BY <1>1, <3>1, <3>3 DEF Phases
        <3>5. shown' \subseteq Nodes \ Secrets
            <4>1. doc.media \in {"json", "form"}
                BY <1>1, DocumentFacts
            <4>2. CASE log' # "body"
                BY <3>1, <4>2
            <4>3. CASE log' = "body" /\ doc.media = "json"
                BY <1>1, <3>1, <4>3, RedactedFacts DEF Scalars
            <4>4. CASE log' = "body" /\ doc.media = "form"
                BY <1>1, <3>1, <4>4, RedactedFormFacts
            <4> QED BY <4>1, <4>2, <4>3, <4>4
        <3>6. log' = "body" /\ doc.media = "json" => shown' = {n \in Nodes \ Secrets : doc.kind[n] = "scalar"}
            BY <1>1, <3>1, RedactedFacts DEF Scalars
        <3>7. Nodes' = Nodes /\ Secrets' = Secrets
            BY <3>1 DEF Nodes, Secrets, Parts
        <3>8. ShownInv'
            BY <3>1, <3>5, <3>6, <3>7 DEF ShownInv, NoSecretLogged
        <3> QED BY <3>2, <3>4, <3>8
    <2> QED BY <2>1, <2>2, <2>3, <2>4, <2>5 DEF Next
<1> QED BY <1>2, <1>4, <1>5 DEF ResponseInv

LEMMA ResponseInit == Init => ResponseInv
<1> SUFFICES ASSUME Init PROVE ResponseInv
    OBVIOUS
<1>1. CaptureInv /\ Typed
    BY CaptureInit, ResponseAssumption DEF Init, Typed
<1>2. doc.length \in Nat
    BY <1>1, DocumentFacts
<1>3. Copied
    BY <1>2, EmptySeq DEF Init, Copied
<1>4. Phases /\ ShownInv
    BY DEF Init, Phases, ShownInv, NoSecretLogged
<1> QED BY <1>1, <1>3, <1>4 DEF ResponseInv

\* No value under a redaction key reaches the log, however the keys, objects and
\* arrays of the document are nested, and of JSON every other value does
\* (access_log.go:409-425).
THEOREM SecretsHidden == Spec => []NoSecretLogged
<1>1. ResponseInv => NoSecretLogged
    BY DEF ResponseInv, ShownInv
<1> QED BY ResponseInit, ResponseStep, <1>1, PTL DEF Spec

\* Every byte sent or kept is a byte of the document, and no more than the limit
\* is ever kept (access_log.go:506-564).
THEOREM CaptureTyped == Spec => []TypeOK
<1>1. ResponseInv => TypeOK
    BY DEF ResponseInv, CaptureInv, CopyType, Typed, Copied, Phases, ShownInv, TypeOK
<1> QED BY ResponseInit, ResponseStep, <1>1, PTL DEF Spec
=============================================================================
