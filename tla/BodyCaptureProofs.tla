--------------------------- MODULE BodyCaptureProofs ---------------------------
(***************************************************************************)
(* Proofs about BodyCapture for request bodies of any length, failing      *)
(* anywhere, and for every limit: the handler reads the stream it would    *)
(* have read without the log, and what the log says of it is true.         *)
(***************************************************************************)
EXTENDS BodyCapture, SequenceTheorems, TLAPS

-----------------------------------------------------------------------------
(* The inductive invariant *)

CaptureType == [data : Seq(Nat), total : Nat, truncated : BOOLEAN, eof : BOOLEAN, failed : BOOLEAN]

\* What was taken from the original is what the handler has read, followed by
\* what is still to be replayed.
PositionInv ==
    /\ source.pos <= body.length
    /\ Len(seen) <= source.pos
    /\ seen = Bytes(0, Len(seen))
    /\ prefix = Bytes(Len(seen), source.pos - Len(seen))
    /\ Len(prefix) <= Limit + 1

\* The failure of the original is met at its place, and told or about to be.
FailureInv ==
    /\ WillFail => source.pos <= body.failAt
    /\ source.failed => body.failAt <= source.pos
    /\ source.failed <=> erred \/ pending = "error"
    /\ pending = "error" => source.pos = body.failAt
    /\ pending = "eof" => source.pos = body.length /\ body.length < body.failAt

\* What the phases start with, and what each mode leaves alone.
PhaseInv ==
    /\ phase \in {"install", "read ahead"} =>
          seen = <<>> /\ ~source.failed /\ ~source.closed /\ pending = "none" /\ capture = Empty
    /\ phase = "install" => source.pos = 0
    /\ phase = "read ahead" => ~Direct /\ body.mode = "buffered" /\ Len(prefix) < Limit + 1
    /\ Direct \/ body.mode = "passive" => prefix = <<>> /\ pending = "none"
    /\ phase # "logged" => log = "none"

\* The copy is a whole beginning of the payload, or is cut and says so.
CopyInv ==
    /\ Len(capture.data) <= Limit
    /\ capture.total <= source.pos
    /\ ~capture.truncated => capture.data = Bytes(0, capture.total)
    /\ capture.truncated => body.length > Limit
    /\ capture.eof => capture.total = body.length
    /\ capture.failed => source.failed \/ (body.mode = "passive" /\ source.closed)
    /\ body.mode = "passive" => capture.total = source.pos
    /\ body.mode = "buffered" /\ phase \in {"serve", "logged"} => capture.truncated \/ capture.failed \/ capture.eof

\* What holds while the body is read, and what the log says of it.
ReadingInv == TypeOK /\ capture \in CaptureType /\ PositionInv /\ FailureInv /\ PhaseInv /\ CopyInv

CaptureInv == ReadingInv /\ LoggedWhole /\ MarkersTruthful

-----------------------------------------------------------------------------
(* Runs of bytes *)

\* A run of bytes has its length and its positions.
LEMMA BytesFacts ==
    ASSUME NEW a \in Nat, NEW n \in Nat
    PROVE  /\ Bytes(a, n) \in Seq(Nat)
           /\ Len(Bytes(a, n)) = n
           /\ \A i \in 1..n : Bytes(a, n)[i] = a + i
    BY DEF Bytes

\* Runs that follow each other are one.
LEMMA BytesConcat ==
    ASSUME NEW a \in Nat, NEW m \in Nat, NEW n \in Nat
    PROVE  Bytes(a, m) \o Bytes(a + m, n) = Bytes(a, m + n)
<1>0. a + m \in Nat /\ m + n \in Nat
    OBVIOUS
<1>1. Bytes(a, m) \in Seq(Nat) /\ Bytes(a + m, n) \in Seq(Nat) /\ Bytes(a, m + n) \in Seq(Nat)
    BY <1>0, BytesFacts, Zenon
<1>2. Len(Bytes(a, m)) = m /\ Len(Bytes(a + m, n)) = n /\ Len(Bytes(a, m + n)) = m + n
    BY <1>0, BytesFacts, Zenon
<1> DEFINE s == Bytes(a, m) \o Bytes(a + m, n)
<1>3. s \in Seq(Nat) /\ Len(s) = m + n
    BY <1>1, <1>2, ConcatProperties
<1>4. \A i \in 1..(m + n) : s[i] = a + i
    <2>1. \A i \in 1..m : Bytes(a, m)[i] = a + i
        BY BytesFacts, Zenon
    <2>2. \A i \in 1..n : Bytes(a + m, n)[i] = a + m + i
        BY <1>0, BytesFacts, Zenon
    <2>3. \A i \in 1..(m + n) : s[i] = IF i <= m THEN Bytes(a, m)[i] ELSE Bytes(a + m, n)[i - m]
        BY <1>1, <1>2, ConcatProperties
    <2> HIDE DEF s
    <2>4. ASSUME NEW i \in 1..(m + n) PROVE s[i] = a + i
        <3>1. CASE i <= m
            BY <2>1, <2>3, <3>1
        <3>2. CASE ~(i <= m)
            <4>1. i - m \in 1..n
                BY <3>2
            <4> QED BY <2>2, <2>3, <3>2, <4>1
        <3> QED BY <3>1, <3>2
    <2> QED BY <2>4
<1>5. \A i \in 1..(m + n) : Bytes(a, m + n)[i] = a + i
    BY <1>0, BytesFacts, Zenon
<1> HIDE DEF s
<1>6. s = Bytes(a, m + n)
    BY <1>1, <1>2, <1>3, <1>4, <1>5, SeqEqual
<1> QED BY <1>6 DEF s

\* The beginning of a run, and what follows it.
LEMMA BytesParts ==
    ASSUME NEW a \in Nat, NEW m \in Nat, NEW n \in 0..m
    PROVE  /\ SubSeq(Bytes(a, m), 1, n) = Bytes(a, n)
           /\ SubSeq(Bytes(a, m), n + 1, m) = Bytes(a + n, m - n)
<1>0. n \in Nat /\ n <= m /\ a + n \in Nat /\ m - n \in Nat
    OBVIOUS
<1>1. Bytes(a, m) \in Seq(Nat) /\ Bytes(a, n) \in Seq(Nat) /\ Bytes(a + n, m - n) \in Seq(Nat)
    BY <1>0, BytesFacts, Zenon
<1>2. Len(Bytes(a, m)) = m /\ Len(Bytes(a, n)) = n /\ Len(Bytes(a + n, m - n)) = m - n
    BY <1>0, BytesFacts, Zenon
<1>3. \A i \in 1..m : Bytes(a, m)[i] = a + i
    BY BytesFacts, Zenon
<1>4. \A i \in 1..n : Bytes(a, n)[i] = a + i
    BY <1>0, BytesFacts, Zenon
<1>5. \A i \in 1..(m - n) : Bytes(a + n, m - n)[i] = a + n + i
    BY <1>0, BytesFacts, Zenon
<1>6. SubSeq(Bytes(a, m), 1, n) = Bytes(a, n)
    <2> DEFINE s == Bytes(a, m)
    <2>a. s \in Seq(Nat) /\ Len(s) = m
        BY <1>1, <1>2
    <2> HIDE DEF s
    <2>b. /\ SubSeq(s, 1, n) \in Seq(Nat)
          /\ Len(SubSeq(s, 1, n)) = n
          /\ \A i \in 1..n : SubSeq(s, 1, n)[i] = s[i]
        BY <1>0, <2>a
    <2>1. /\ SubSeq(Bytes(a, m), 1, n) \in Seq(Nat)
          /\ Len(SubSeq(Bytes(a, m), 1, n)) = n
          /\ \A i \in 1..n : SubSeq(Bytes(a, m), 1, n)[i] = Bytes(a, m)[i]
        BY <2>b, Zenon DEF s
    <2>2. \A i \in 1..n : SubSeq(Bytes(a, m), 1, n)[i] = Bytes(a, n)[i]
        BY <1>3, <1>4, <2>1
    <2> QED BY <1>1, <1>2, <2>1, <2>2, SeqEqual
<1>7. SubSeq(Bytes(a, m), n + 1, m) = Bytes(a + n, m - n)
    <2> DEFINE s == Bytes(a, m)
    <2>a. s \in Seq(Nat) /\ Len(s) = m
        BY <1>1, <1>2
    <2> HIDE DEF s
    <2>b. /\ SubSeq(s, n + 1, m) \in Seq(Nat)
          /\ Len(SubSeq(s, n + 1, m)) = m - n
          /\ \A i \in 1..(m - n) : SubSeq(s, n + 1, m)[i] = s[n + i]
        <3>1. SubSeq(s, n + 1, m) \in Seq(Nat)
            BY <1>0, <2>a
        <3>2. Len(SubSeq(s, n + 1, m)) = m - n
            BY <1>0, <2>a
        <3>3. ASSUME NEW i \in 1..(m - n) PROVE SubSeq(s, n + 1, m)[i] = s[n + i]
            <4>1. i \in 1..(m - (n + 1) + 1) /\ n + 1 + i - 1 = n + i
                BY <1>0
            <4>2. SubSeq(s, n + 1, m)[i] = s[n + 1 + i - 1]
                BY <1>0, <2>a, <4>1
            <4> QED BY <4>1, <4>2
        <3> QED BY <3>1, <3>2, <3>3
    <2>1. /\ SubSeq(Bytes(a, m), n + 1, m) \in Seq(Nat)
          /\ Len(SubSeq(Bytes(a, m), n + 1, m)) = m - n
          /\ \A i \in 1..(m - n) : SubSeq(Bytes(a, m), n + 1, m)[i] = Bytes(a, m)[n + i]
        BY <2>b, Zenon DEF s
    <2>2. \A i \in 1..(m - n) : SubSeq(Bytes(a, m), n + 1, m)[i] = Bytes(a + n, m - n)[i]
        BY <1>3, <1>5, <2>1
    <2> QED BY <1>1, <1>2, <2>1, <2>2, SeqEqual
<1> QED BY <1>6, <1>7

\* Only the run without bytes is empty.
LEMMA BytesEmpty ==
    ASSUME NEW a \in Nat, NEW n \in Nat
    PROVE  Bytes(a, n) = <<>> <=> n = 0
<1>1. Bytes(a, n) \in Seq(Nat) /\ Len(Bytes(a, n)) = n
    BY BytesFacts, Zenon
<1>2. Bytes(a, n) = <<>> <=> Len(Bytes(a, n)) = 0
    BY <1>1, EmptySeq
<1> QED BY <1>1, <1>2

\* The payload is a run.
LEMMA PayloadIsBytes ==
    ASSUME body.length \in Nat
    PROVE  Payload = Bytes(0, body.length)
    BY DEF Payload, Bytes

\* What the capture keeps of some bytes: as many as the limit leaves room for.
LEMMA RetainedFacts ==
    ASSUME NEW data \in Seq(Nat), NEW bytes \in Seq(Nat), Len(data) <= Limit
    PROVE  /\ Retained(data, bytes) \in Seq(Nat)
           /\ Len(Retained(data, bytes)) <= Limit
           /\ ~(Len(bytes) > Limit - Len(data)) => Retained(data, bytes) = data \o bytes
<1>1. Len(data) \in Nat /\ Len(bytes) \in Nat /\ Limit \in Nat
    BY CaptureAssumption
<1> DEFINE s == data \o bytes
           n == Smaller(Len(data) + Len(bytes), Limit)
<1>2. s \in Seq(Nat) /\ Len(s) = Len(data) + Len(bytes)
    BY ConcatProperties
<1>3. n \in Nat /\ n <= Limit /\ n <= Len(data) + Len(bytes)
    BY <1>1 DEF Smaller
<1>4. ~(Len(bytes) > Limit - Len(data)) => n = Len(data) + Len(bytes)
    BY <1>1 DEF Smaller
<1> HIDE DEF s, n
<1>5. SubSeq(s, 1, n) \in Seq(Nat) /\ Len(SubSeq(s, 1, n)) = n
    BY <1>1, <1>2, <1>3, SubSeqProperties
<1>6. ~(Len(bytes) > Limit - Len(data)) => SubSeq(s, 1, n) = s
    BY <1>2, <1>4, SubSeqFull
<1>7. Retained(data, bytes) = SubSeq(s, 1, n)
    BY DEF Retained, s, n
<1> QED BY <1>3, <1>5, <1>6, <1>7 DEF s

-----------------------------------------------------------------------------
(* Reads of the original *)

\* The parts of the state are what they should be.
LEMMA StateFacts ==
    ASSUME TypeOK
    PROVE  /\ body.length \in Nat /\ body.failAt \in Nat /\ body.mode \in {"off", "passive", "buffered"}
           /\ {body.sticky, body.declared} \subseteq BOOLEAN
           /\ source.pos \in Nat /\ {source.failed, source.closed} \subseteq BOOLEAN
           /\ Limit \in Nat \ {0} /\ MaxRead \in Nat \ {0}
<1>1. body \in BodyType
    BY CaptureAssumption DEF TypeOK
<1>2. /\ body.length \in Nat /\ body.failAt \in Nat /\ body.mode \in {"off", "passive", "buffered"}
      /\ body.sticky \in BOOLEAN /\ body.declared \in BOOLEAN
    BY <1>1 DEF BodyType
<1>3. source.pos \in 0..body.length /\ source.failed \in BOOLEAN /\ source.closed \in BOOLEAN
    BY DEF TypeOK
<1>4. Limit \in Nat \ {0} /\ MaxRead \in Nat \ {0}
    BY CaptureAssumption
<1> QED BY <1>2, <1>3, <1>4

\* A read returns no more than was asked for and there is, stops where the
\* body fails or ends, and returns nothing from a closed body.
LEMMA ResultsFacts ==
    ASSUME TypeOK, PositionInv, FailureInv, NEW k \in Nat, NEW r \in Results(k)
    PROVE  /\ r.n \in Nat /\ r.err \in Errors
           /\ r.n <= k /\ source.pos + r.n <= body.length
           /\ source.closed => r.n = 0
           /\ r.err = "closed" => source.closed
           /\ r.err = "error" => (r.n = 0 /\ source.failed) \/ (WillFail /\ source.pos + r.n = body.failAt)
           /\ r.err = "eof" => ~WillFail /\ source.pos + r.n = body.length
           /\ WillFail => source.pos + r.n <= body.failAt
           /\ r.err = "none" => r.n > 0
<1>1. /\ body.length \in Nat /\ body.failAt \in Nat /\ source.pos \in Nat
      /\ {source.failed, source.closed} \subseteq BOOLEAN /\ body.sticky \in BOOLEAN
      /\ source.pos <= body.length /\ (WillFail => source.pos <= body.failAt)
    BY StateFacts DEF PositionInv, FailureInv
<1> HIDE DEF TypeOK
<1>2. CASE source.closed
    <2>1. r = [n |-> 0, err |-> "closed"]
        BY <1>2 DEF Results
    <2> QED BY <1>1, <1>2, <2>1 DEF Errors
<1>3. CASE ~source.closed /\ source.failed /\ body.sticky
    <2>1. r = [n |-> 0, err |-> "error"]
        BY <1>3 DEF Results
    <2> QED BY <1>1, <1>3, <2>1 DEF Errors, WillFail
<1>4. CASE ~source.closed /\ ~(source.failed /\ body.sticky)
    <2> DEFINE most == Smaller(k, Stop - source.pos)
    <2>1. r \in {[n |-> n, err |-> "none"] : n \in 1..most}
                \cup {[n |-> n, err |-> IF WillFail THEN "error" ELSE "eof"] :
                         n \in {m \in 0..most : source.pos + m = Stop}}
        BY <1>4 DEF Results
    <2>2. Stop \in Nat /\ source.pos <= Stop /\ Stop <= body.length
          /\ (WillFail => Stop = body.failAt) /\ (~WillFail => Stop = body.length)
        BY <1>1 DEF Stop, WillFail
    <2>3. most \in Nat /\ most <= k /\ source.pos + most <= Stop
        BY <1>1, <2>2 DEF Smaller
    <2> HIDE DEF most
    <2>4. CASE r \in {[n |-> n, err |-> "none"] : n \in 1..most}
        <3>1. PICK n \in 1..most : r = [n |-> n, err |-> "none"]
            BY <2>4
        <3>2. r.n = n /\ r.err = "none"
            BY <3>1
        <3> QED BY <1>1, <1>4, <2>2, <2>3, <3>2 DEF Errors
    <2>5. CASE r \in {[n |-> n, err |-> IF WillFail THEN "error" ELSE "eof"] :
                         n \in {m \in 0..most : source.pos + m = Stop}}
        <3>1. PICK n \in 0..most : /\ source.pos + n = Stop
                                   /\ r = [n |-> n, err |-> IF WillFail THEN "error" ELSE "eof"]
            BY <2>5
        <3>2. r.n = n /\ r.err = (IF WillFail THEN "error" ELSE "eof")
            BY <3>1
        <3> QED BY <1>1, <1>4, <2>2, <2>3, <3>1, <3>2 DEF Errors
    <2> QED BY <2>1, <2>4, <2>5
<1> QED BY <1>1, <1>2, <1>3, <1>4

\* What a read does to the original.
LEMMA AfterReadFacts ==
    ASSUME ReadingInv, NEW k \in Nat, NEW r \in Results(k), source' = AfterRead(r), body' = body
    PROVE  /\ source' \in [pos : 0..body.length, failed : BOOLEAN, closed : BOOLEAN]
           /\ source'.pos = source.pos + r.n /\ source'.closed = source.closed
           /\ source'.failed <=> source.failed \/ r.err = "error"
           /\ WillFail' => WillFail /\ r.err # "error" /\ source'.pos <= body.failAt
           /\ source'.failed => body.failAt <= source'.pos
<1>1. source \in [pos : 0..body.length, failed : BOOLEAN, closed : BOOLEAN] /\ body.length \in Nat
    BY StateFacts DEF ReadingInv, TypeOK
<1>2. /\ r.n \in Nat /\ source.pos + r.n <= body.length
      /\ r.err = "error" => (r.n = 0 /\ source.failed) \/ (WillFail /\ source.pos + r.n = body.failAt)
      /\ WillFail => source.pos + r.n <= body.failAt
    BY ResultsFacts DEF ReadingInv
<1>3. source.pos + r.n \in 0..body.length
    BY <1>1, <1>2
<1>4. source' = [source EXCEPT !.pos = source.pos + r.n, !.failed = source.failed \/ r.err = "error"]
    BY DEF AfterRead
<1>5. source'.pos = source.pos + r.n /\ source'.closed = source.closed
    BY <1>1, <1>4
<1>6. source'.failed <=> source.failed \/ r.err = "error"
    BY <1>1, <1>4
<1>7. source' \in [pos : 0..body.length, failed : BOOLEAN, closed : BOOLEAN]
    <2>1. (source.failed \/ r.err = "error") \in BOOLEAN
        OBVIOUS
    <2> QED BY <1>1, <1>3, <1>4, <2>1
<1>8. WillFail' => WillFail /\ r.err # "error"
    BY <1>6 DEF WillFail
<1>9. source'.failed => body.failAt <= source'.pos
    <2>1. body.failAt \in Nat /\ source.pos \in Nat
        BY StateFacts DEF ReadingInv
    <2>2. source.failed => body.failAt <= source.pos
        BY DEF ReadingInv, FailureInv
    <2> QED BY <1>2, <1>5, <1>6, <2>1, <2>2
<1> QED BY <1>2, <1>5, <1>6, <1>7, <1>8, <1>9

-----------------------------------------------------------------------------
(* Steps *)

\* Before the body is installed nothing of it was taken.
LEMMA InstallFacts ==
    ASSUME ReadingInv, phase = "install"
    PROVE  /\ source.pos = 0 /\ prefix = <<>> /\ Len(prefix) < Limit + 1
           /\ pending = "none" /\ capture = Empty
<1>1. source.pos = 0 /\ pending = "none" /\ capture = Empty
    BY DEF ReadingInv, PhaseInv
<1>2. Len(seen) \in Nat
    <2>1. seen \in Seq(Nat)
        BY DEF ReadingInv, TypeOK
    <2> QED BY <2>1, LenProperties
<1>3. Len(seen) <= source.pos /\ prefix = Bytes(Len(seen), source.pos - Len(seen))
    BY DEF ReadingInv, PositionInv
<1>4. Len(seen) = 0 /\ source.pos - Len(seen) = 0
    BY <1>1, <1>2, <1>3
<1>5. prefix = Bytes(0, 0)
    BY <1>3, <1>4, Zenon
<1>6. prefix = <<>>
    BY <1>5, BytesEmpty
<1>7. Len(prefix) = 0 /\ Limit \in Nat
    BY <1>6, EmptySeq, CaptureAssumption
<1>8. Len(prefix) < Limit + 1
    BY <1>7
<1> QED BY <1>1, <1>6, <1>8

LEMMA InstallPreserves ==
    ASSUME ReadingInv, InstallWithoutReading
    PROVE  ReadingInv'
<1> USE DEF ReadingInv, InstallWithoutReading
<1>1. TypeOK' /\ (capture \in CaptureType)'
    BY DEF TypeOK, CaptureType
<1>2. PositionInv'
    BY DEF PositionInv
<1>3. FailureInv'
    BY DEF FailureInv, WillFail
<1>4. source.pos = 0 /\ prefix = <<>> /\ pending = "none" /\ capture = Empty
    BY InstallFacts
<1>5. PhaseInv'
    BY <1>4 DEF PhaseInv, Direct
<1>6. CopyInv'
    <2>1. /\ capture'.data = <<>> /\ capture'.total = 0
          /\ ~capture'.eof /\ ~capture'.failed
          /\ capture'.truncated <=> body.mode = "buffered"
        BY <1>4 DEF Empty
    <2>2. body.mode = "buffered" => body.length > Limit
        BY DEF Direct
    <2>3. Bytes(0, 0) = <<>> /\ Len(<<>>) = 0
        BY BytesEmpty, EmptySeq
    <2>4. Limit \in Nat
        BY StateFacts
    <2> QED BY <1>4, <2>1, <2>2, <2>3, <2>4 DEF CopyInv
<1> QED BY <1>1, <1>2, <1>3, <1>5, <1>6

LEMMA BeginPreserves ==
    ASSUME ReadingInv, BeginReadAhead
    PROVE  ReadingInv'
<1> USE DEF ReadingInv, BeginReadAhead
<1>1. TypeOK' /\ (capture \in CaptureType)'
    BY DEF TypeOK
<1>2. PositionInv'
    BY DEF PositionInv
<1>3. FailureInv'
    BY DEF FailureInv, WillFail
<1>4. Len(prefix) < Limit + 1
    BY InstallFacts
<1>5. PhaseInv'
    BY <1>4 DEF PhaseInv, Direct
<1>6. CopyInv'
    BY DEF CopyInv
<1> QED BY <1>1, <1>2, <1>3, <1>5, <1>6

LEMMA ClosePreserves ==
    ASSUME ReadingInv, Close
    PROVE  ReadingInv'
<1> USE DEF ReadingInv, Close
<1>0. source \in [pos : 0..body.length, failed : BOOLEAN, closed : BOOLEAN]
    BY DEF TypeOK
<1>1. source'.pos = source.pos /\ source'.failed = source.failed /\ source'.closed
      /\ source' \in [pos : 0..body.length, failed : BOOLEAN, closed : BOOLEAN]
    BY <1>0
<1>2. TypeOK' /\ (capture \in CaptureType)'
    BY <1>1 DEF TypeOK
<1>3. PositionInv'
    BY <1>1 DEF PositionInv
<1>4. FailureInv'
    BY <1>1 DEF FailureInv, WillFail
<1>5. PhaseInv'
    BY DEF PhaseInv, Direct
<1>6. CopyInv'
    BY <1>1 DEF CopyInv
<1> QED BY <1>2, <1>3, <1>4, <1>5, <1>6

LEMMA LogPreserves ==
    ASSUME ReadingInv, Log
    PROVE  ReadingInv'
<1> USE DEF ReadingInv, Log
<1>1. TypeOK' /\ (capture \in CaptureType)'
    <2>1. Marker \in {"unsupported", "exceeds limit", "failed", "body", "not read", "incomplete"}
        BY DEF Marker
    <2> QED BY <2>1 DEF TypeOK
<1>2. PositionInv'
    BY DEF PositionInv
<1>3. FailureInv'
    BY DEF FailureInv, WillFail
<1>4. PhaseInv'
    BY DEF PhaseInv, Direct
<1>5. CopyInv'
    BY DEF CopyInv
<1> QED BY <1>1, <1>2, <1>3, <1>4, <1>5

LEMMA ReadAheadPreserves ==
    ASSUME ReadingInv, ReadAhead
    PROVE  ReadingInv'
<1> DEFINE data(r) == prefix \o Bytes(source.pos, r.n)
           over(r) == TooLong(data(r))
           eof(r)  == r.err # "error" /\ ~over(r)
           done(r) == r.err # "none" \/ Len(data(r)) = ReadAheadLimit
<1>1. PICK r \in Results(ReadAheadLimit - Len(prefix)) :
          /\ source' = AfterRead(r)
          /\ prefix' = data(r)
          /\ \/ /\ r.err = "none" /\ Len(data(r)) < ReadAheadLimit
                /\ UNCHANGED <<phase, capture, pending>>
             \/ /\ done(r)
                /\ capture' = [ data |-> IF over(r) THEN <<>> ELSE data(r), total |-> Len(data(r)),
                                truncated |-> over(r), eof |-> eof(r), failed |-> r.err = "error" ]
                /\ pending' = Pending(r.err, eof(r))
                /\ phase' = "serve"
    BY DEF ReadAhead
<1>2. phase = "read ahead" /\ UNCHANGED <<body, seen, erred, last, late, log>>
    BY DEF ReadAhead
<1>3. /\ seen = <<>> /\ ~source.failed /\ ~source.closed /\ pending = "none" /\ capture = Empty
      /\ ~Direct /\ body.mode = "buffered" /\ Len(prefix) < Limit + 1 /\ log = "none"
    BY <1>2 DEF ReadingInv, PhaseInv
<1>4. /\ body.length \in Nat /\ body.failAt \in Nat /\ source.pos \in Nat /\ Limit \in Nat \ {0}
      /\ source.failed \in BOOLEAN
    BY StateFacts DEF ReadingInv
<1>5. prefix = Bytes(0, source.pos) /\ Len(prefix) = source.pos
    <2>1. Len(seen) = 0 /\ source.pos - Len(seen) = source.pos
        BY <1>3, <1>4, EmptySeq
    <2>2. prefix = Bytes(0, source.pos)
        <3>1. prefix = Bytes(Len(seen), source.pos - Len(seen))
            BY DEF ReadingInv, PositionInv
        <3> QED BY <2>1, <3>1, Zenon
    <2> QED BY <1>4, <2>2, BytesFacts
<1>6. ReadAheadLimit - Len(prefix) \in Nat /\ ReadAheadLimit = Limit + 1
    BY <1>3, <1>4, <1>5 DEF ReadAheadLimit
<1>7. /\ r.n \in Nat /\ r.n <= ReadAheadLimit - Len(prefix) /\ source.pos + r.n <= body.length
      /\ r.err \in Errors /\ r.err # "closed"
      /\ r.err = "error" => WillFail /\ source.pos + r.n = body.failAt
      /\ r.err = "eof" => ~WillFail /\ source.pos + r.n = body.length
    BY <1>3, <1>6, ResultsFacts DEF ReadingInv
<1>8. /\ source' \in [pos : 0..body.length, failed : BOOLEAN, closed : BOOLEAN]
      /\ source'.pos = source.pos + r.n /\ source'.closed = source.closed
      /\ source'.failed <=> r.err = "error"
      /\ WillFail' => source'.pos <= body.failAt
      /\ source'.failed => body.failAt <= source'.pos
    BY <1>1, <1>2, <1>3, <1>6, AfterReadFacts
<1>9. /\ data(r) = Bytes(0, source'.pos) /\ data(r) \in Seq(Nat) /\ Len(data(r)) = source'.pos
      /\ source'.pos \in Nat /\ source'.pos <= body.length /\ source'.pos <= Limit + 1
    <2>1. source'.pos \in Nat /\ source'.pos <= body.length /\ source'.pos <= Limit + 1
        BY <1>4, <1>5, <1>6, <1>7, <1>8
    <2>2. Bytes(0, source.pos) \o Bytes(0 + source.pos, r.n) = Bytes(0, source.pos + r.n)
        BY <1>4, <1>7, BytesConcat
    <2>3. 0 + source.pos = source.pos
        BY <1>4
    <2>4. data(r) = Bytes(0, source'.pos)
        BY <1>5, <1>8, <2>2, <2>3, Zenon
    <2>5. Bytes(0, source'.pos) \in Seq(Nat) /\ Len(Bytes(0, source'.pos)) = source'.pos
        BY <2>1, BytesFacts
    <2> QED BY <2>1, <2>4, <2>5, Zenon
<1>10. over(r) <=> source'.pos > Limit
    BY <1>9, Zenon DEF TooLong
<1> DEFINE d == data(r)
           o == over(r)
           e == eof(r)
<1>11. /\ d = Bytes(0, source'.pos) /\ d \in Seq(Nat) /\ Len(d) = source'.pos
       /\ o <=> source'.pos > Limit
       /\ e <=> r.err # "error" /\ ~o
       /\ prefix' = d
       /\ o \in BOOLEAN /\ e \in BOOLEAN
    <2>1. o \in BOOLEAN /\ e \in BOOLEAN
        BY DEF TooLong
    <2> QED BY <1>1, <1>9, <1>10, <2>1
<1>12. \/ /\ r.err = "none" /\ Len(d) < ReadAheadLimit
          /\ UNCHANGED <<phase, capture, pending>>
       \/ /\ r.err # "none" \/ Len(d) = ReadAheadLimit
          /\ capture' = [ data |-> IF o THEN <<>> ELSE d, total |-> Len(d),
                          truncated |-> o, eof |-> e, failed |-> r.err = "error" ]
          /\ pending' = Pending(r.err, e)
          /\ phase' = "serve"
    BY <1>1
<1> HIDE DEF d, o, e, data, over, eof, done
<1>13. PositionInv'
    <2>1. seen' = <<>> /\ Len(seen') = 0 /\ seen' = Bytes(0, Len(seen'))
        BY <1>2, <1>3, EmptySeq, BytesEmpty
    <2>2. source'.pos - Len(seen') = source'.pos
        BY <1>9, <2>1
    <2>3. prefix' = Bytes(Len(seen'), source'.pos - Len(seen'))
        BY <1>11, <2>1, <2>2, Zenon
    <2>4. Len(seen') <= source'.pos /\ Len(prefix') <= Limit + 1 /\ source'.pos <= body'.length
        <3>1. Len(seen') <= source'.pos
            BY <1>9, <2>1
        <3>2. Len(prefix') <= Limit + 1
            <4>1. Len(prefix') = source'.pos
                BY <1>11, Zenon
            <4> QED BY <1>9, <4>1
        <3>3. source'.pos <= body'.length
            <4>1. body' = body
                BY <1>2
            <4> QED BY <1>9, <4>1
        <3> QED BY <3>1, <3>2, <3>3
    <2> QED BY <2>1, <2>3, <2>4 DEF PositionInv
<1>14. CASE r.err = "none" /\ Len(d) < ReadAheadLimit /\ UNCHANGED <<phase, capture, pending>>
    <2>1. TypeOK' /\ (capture \in CaptureType)'
        BY <1>2, <1>8, <1>11, <1>14 DEF ReadingInv, TypeOK
    <2>2. FailureInv'
        <3>1. ~source'.failed /\ pending' = "none"
            BY <1>3, <1>8, <1>14
        <3>2. ~erred'
            BY <1>2, <1>3, <1>14 DEF ReadingInv, FailureInv
        <3> QED BY <1>2, <1>8, <3>1, <3>2 DEF FailureInv
    <2>3. PhaseInv'
        <3>1. Len(prefix') < Limit + 1
            BY <1>6, <1>11, <1>14
        <3>2. ~source'.failed /\ ~source'.closed
            BY <1>3, <1>8, <1>14
        <3>3. ~Direct' /\ body'.mode = "buffered"
            BY <1>2, <1>3 DEF Direct
        <3> QED BY <1>2, <1>3, <1>14, <3>1, <3>2, <3>3 DEF PhaseInv
    <2>4. CopyInv'
        <3>1. capture'.total <= source'.pos
            BY <1>3, <1>9, <1>14 DEF Empty
        <3> QED BY <1>2, <1>3, <1>14, <3>1 DEF ReadingInv, CopyInv, Empty
    <2> QED BY <1>13, <2>1, <2>2, <2>3, <2>4 DEF ReadingInv
<1>15. CASE /\ r.err # "none" \/ Len(d) = ReadAheadLimit
            /\ capture' = [ data |-> IF o THEN <<>> ELSE d, total |-> Len(d),
                            truncated |-> o, eof |-> e, failed |-> r.err = "error" ]
            /\ pending' = Pending(r.err, e)
            /\ phase' = "serve"
    <2>1. /\ capture'.data = (IF o THEN <<>> ELSE d) /\ capture'.total = source'.pos
          /\ capture'.truncated = o /\ capture'.eof = e /\ capture'.failed = (r.err = "error")
          /\ capture' \in CaptureType /\ Len(capture'.data) <= Limit
        <3>1. Len(<<>>) = 0 /\ <<>> \in Seq(Nat) /\ (r.err = "error") \in BOOLEAN
            BY EmptySeq
        <3>2. (IF o THEN <<>> ELSE d) \in Seq(Nat)
            BY <1>11, <3>1
        <3>3. Len(IF o THEN <<>> ELSE d) <= Limit
            BY <1>4, <1>9, <1>11, <3>1
        <3>4. Len(d) \in Nat /\ Len(d) = source'.pos
            BY <1>9, <1>11
        <3>5. capture' \in CaptureType
            BY <1>11, <1>15, <3>1, <3>2, <3>4 DEF CaptureType
        <3> QED BY <1>15, <3>3, <3>4, <3>5
    <2>2. e => r.err = "eof"
        <3>1. r.err = "none" => o
            BY <1>4, <1>6, <1>11, <1>15
        <3> QED BY <1>7, <1>11, <3>1 DEF Errors
    <2>3. pending' = (IF r.err = "error" THEN "error" ELSE IF e THEN "eof" ELSE "none")
        BY <1>15 DEF Pending
    <2>4. TypeOK'
        <3>1. pending' \in {"none", "error", "eof"}
            BY <2>3
        <3>2. source' \in [pos : 0..body'.length, failed : BOOLEAN, closed : BOOLEAN]
            BY <1>2, <1>8
        <3>3. prefix' \in Seq(Nat)
            BY <1>11
        <3>4. /\ capture'.data \in Seq(Nat) /\ Len(capture'.data) <= Limit
              /\ capture'.total \in 0..body'.length
              /\ {capture'.truncated, capture'.eof, capture'.failed} \subseteq BOOLEAN
            <4>1. /\ capture'.data \in Seq(Nat) /\ capture'.truncated \in BOOLEAN
                  /\ capture'.eof \in BOOLEAN /\ capture'.failed \in BOOLEAN
                BY <2>1 DEF CaptureType
            <4>2. capture'.total \in 0..body'.length
                <5>1. body' = body
                    BY <1>2
                <5>2. capture'.total = source'.pos
                    BY <2>1
                <5> QED BY <1>4, <1>9, <5>1, <5>2
            <4> QED BY <2>1, <4>1, <4>2
        <3> QED BY <1>2, <1>15, <3>1, <3>2, <3>3, <3>4 DEF ReadingInv, TypeOK
    <2>5. FailureInv'
        <3>1. ~erred
            BY <1>3 DEF ReadingInv, FailureInv
        <3>2. source'.failed <=> pending' = "error"
            BY <1>8, <2>3
        <3>3. pending' = "error" => source'.pos = body.failAt
            BY <1>7, <1>8, <2>3
        <3>4. pending' = "eof" => source'.pos = body.length /\ body.length < body.failAt
            <4>1. pending' = "eof" => r.err = "eof"
                BY <2>2, <2>3
            <4>2. ~WillFail => body.length < body.failAt
                BY <1>3, <1>4 DEF WillFail
            <4> QED BY <1>7, <1>8, <4>1, <4>2
        <3> QED BY <1>2, <1>8, <3>1, <3>2, <3>3, <3>4 DEF FailureInv
    <2>6. PhaseInv'
        <3>1. ~Direct' /\ body'.mode = "buffered"
            BY <1>2, <1>3 DEF Direct
        <3> QED BY <1>2, <1>3, <1>15, <3>1 DEF PhaseInv
    <2>7. CopyInv'
        <3>1. ~o => capture'.data = Bytes(0, capture'.total)
            BY <1>11, <2>1
        <3>2. o => body.length > Limit
            BY <1>4, <1>9, <1>11
        <3>3. e => capture'.total = body.length
            BY <1>7, <1>8, <2>1, <2>2
        <3>4. r.err = "error" => source'.failed
            BY <1>8
        <3>5. o \/ r.err = "error" \/ e
            BY <1>11
        <3>6. capture'.total <= source'.pos
            BY <1>9, <2>1
        <3> QED BY <1>2, <1>3, <2>1, <3>1, <3>2, <3>3, <3>4, <3>5, <3>6 DEF CopyInv
    <2> QED BY <1>13, <2>1, <2>4, <2>5, <2>6, <2>7 DEF ReadingInv
<1> QED BY <1>12, <1>14, <1>15

\* A read that is observed keeps a copy that is whole, or cut and says so.
LEMMA ObservedFacts ==
    ASSUME ReadingInv, body.mode = "passive", NEW n \in Nat, NEW err \in Errors,
           source.pos + n <= body.length
    PROVE  LET c == Observed(Bytes(source.pos, n), err)
           IN  /\ c \in CaptureType /\ Len(c.data) <= Limit
               /\ c.total = source.pos + n
               /\ c.truncated \/ c.data = Bytes(0, c.total)
               /\ c.truncated => body.length > Limit
               /\ c.eof => capture.eof \/ err = "eof"
               /\ c.failed => capture.failed \/ err \in {"error", "closed"}
<1> DEFINE b == Bytes(source.pos, n)
           kept == Retained(capture.data, b)
           cut == capture.truncated \/ Len(b) > Limit - Len(capture.data)
           ended == capture.eof \/ err = "eof"
           failed == capture.failed \/ err \in {"error", "closed"}
<1>1. body.length \in Nat /\ source.pos \in Nat /\ Limit \in Nat \ {0}
    BY StateFacts DEF ReadingInv
<1>2. /\ capture.data \in Seq(Nat) /\ Len(capture.data) <= Limit
      /\ capture.total = source.pos /\ (capture.truncated => body.length > Limit)
      /\ ~capture.truncated => capture.data = Bytes(0, source.pos)
    BY DEF ReadingInv, CopyInv, CaptureType
<1>3. b \in Seq(Nat) /\ Len(b) = n
    BY <1>1, BytesFacts
<1>4. Observed(b, err) = [data |-> kept, total |-> capture.total + Len(b), truncated |-> cut,
                          eof |-> ended, failed |-> failed]
    BY DEF Observed
<1>5. /\ kept \in Seq(Nat) /\ Len(kept) <= Limit
      /\ ~(Len(b) > Limit - Len(capture.data)) => kept = capture.data \o b
    BY <1>2, <1>3, RetainedFacts
<1>6. ~cut => kept = Bytes(0, source.pos + n)
    <2> SUFFICES ASSUME ~cut PROVE kept = Bytes(0, source.pos + n)
        OBVIOUS
    <2>1. kept = Bytes(0, source.pos) \o b
        BY <1>2, <1>5
    <2>2. Bytes(0, source.pos) \o Bytes(0 + source.pos, n) = Bytes(0, source.pos + n)
        BY <1>1, BytesConcat
    <2>3. 0 + source.pos = source.pos
        BY <1>1
    <2> HIDE DEF kept
    <2> QED BY <2>1, <2>2, <2>3, Zenon
<1>7. cut => body.length > Limit
    <2>1. CASE capture.truncated
        BY <1>2, <2>1
    <2>2. CASE ~capture.truncated /\ Len(b) > Limit - Len(capture.data)
        <3>1. Len(capture.data) = source.pos
            <4>1. capture.data = Bytes(0, source.pos)
                BY <1>2, <2>2
            <4>2. Len(Bytes(0, source.pos)) = source.pos
                BY <1>1, BytesFacts
            <4> QED BY <4>1, <4>2, Zenon
        <3> HIDE DEF b
        <3> QED BY <1>1, <1>3, <2>2, <3>1
    <2> QED BY <2>1, <2>2
<1>8. cut \in BOOLEAN /\ ended \in BOOLEAN /\ failed \in BOOLEAN
    <2>1. capture.truncated \in BOOLEAN /\ capture.eof \in BOOLEAN /\ capture.failed \in BOOLEAN
        BY DEF ReadingInv, CaptureType
    <2> QED BY <2>1
<1>9. capture.total + Len(b) = source.pos + n /\ source.pos + n \in Nat
    BY <1>1, <1>2, <1>3
<1> HIDE DEF kept, cut, ended, failed
<1>10. Observed(b, err) = [data |-> kept, total |-> source.pos + n, truncated |-> cut,
                           eof |-> ended, failed |-> failed]
    BY <1>4, <1>9, Zenon
<1> HIDE DEF b
<1> DEFINE c == Observed(b, err)
<1>11. c \in CaptureType
    BY <1>5, <1>8, <1>9, <1>10 DEF CaptureType
<1>12. /\ c.data = kept /\ c.total = source.pos + n
       /\ c.truncated = cut /\ c.eof = ended /\ c.failed = failed
    BY <1>10
<1>13. c.truncated \/ c.data = Bytes(0, c.total)
    BY <1>6, <1>12
<1> HIDE DEF c
<1> QED BY <1>5, <1>7, <1>11, <1>12, <1>13 DEF b, c, ended, failed

\* The facts a step that hands bytes to the handler starts from.
LEMMA ServeFacts ==
    ASSUME ReadingInv, phase = "serve"
    PROVE  /\ Len(seen) \in Nat /\ Len(seen) <= source.pos /\ seen = Bytes(0, Len(seen))
           /\ prefix = Bytes(Len(seen), source.pos - Len(seen)) /\ Len(prefix) = source.pos - Len(seen)
           /\ prefix \in Seq(Nat)
           /\ log = "none"
<1>1. Len(seen) \in Nat
    <2>1. seen \in Seq(Nat)
        BY DEF ReadingInv, TypeOK
    <2> QED BY <2>1, LenProperties
<1>2. source.pos \in Nat
    BY StateFacts DEF ReadingInv
<1>3. Len(seen) <= source.pos /\ seen = Bytes(0, Len(seen))
      /\ prefix = Bytes(Len(seen), source.pos - Len(seen))
    BY DEF ReadingInv, PositionInv
<1>4. source.pos - Len(seen) \in Nat
    BY <1>1, <1>2, <1>3
<1>5. Len(prefix) = source.pos - Len(seen)
    <2>1. Len(Bytes(Len(seen), source.pos - Len(seen))) = source.pos - Len(seen)
        BY <1>1, <1>4, BytesFacts, Zenon
    <2> QED BY <1>3, <2>1, Zenon
<1>6. prefix \in Seq(Nat) /\ log = "none"
    BY DEF ReadingInv, TypeOK, PhaseInv
<1> QED BY <1>1, <1>3, <1>5, <1>6

\* Bytes that follow what the handler has read.
LEMMA SeenGrows ==
    ASSUME ReadingInv, phase = "serve", NEW n \in Nat, seen' = seen \o Bytes(Len(seen), n)
    PROVE  seen' \in Seq(Nat) /\ Len(seen') = Len(seen) + n /\ seen' = Bytes(0, Len(seen) + n)
<1>1. Len(seen) \in Nat /\ seen = Bytes(0, Len(seen))
    BY ServeFacts
<1>2. Bytes(0, Len(seen)) \o Bytes(0 + Len(seen), n) = Bytes(0, Len(seen) + n)
    BY <1>1, BytesConcat
<1>3. 0 + Len(seen) = Len(seen) /\ Len(seen) + n \in Nat
    BY <1>1
<1>4. seen' = Bytes(0, Len(seen) + n)
    BY <1>1, <1>2, <1>3, Zenon
<1>5. Bytes(0, Len(seen) + n) \in Seq(Nat) /\ Len(Bytes(0, Len(seen) + n)) = Len(seen) + n
    BY <1>3, BytesFacts
<1> QED BY <1>4, <1>5, Zenon

LEMMA ReadPrefixFacts ==
    ASSUME ReadingInv, ReadPrefix
    PROVE  \E n \in Nat :
              /\ n > 0 /\ n <= source.pos - Len(seen)
              /\ seen' = seen \o Bytes(Len(seen), n)
              /\ prefix' = Bytes(Len(seen) + n, source.pos - Len(seen) - n)
              /\ last' = "none" /\ erred' = erred
<1> DEFINE m == source.pos - Len(seen)
<1>1. phase = "serve" /\ prefix # <<>>
    BY DEF ReadPrefix
<1>2. /\ Len(seen) \in Nat /\ m \in Nat /\ prefix = Bytes(Len(seen), m) /\ Len(prefix) = m
    <2>1. Len(seen) \in Nat /\ Len(seen) <= source.pos /\ source.pos \in Nat
        BY <1>1, ServeFacts, StateFacts DEF ReadingInv
    <2> QED BY <1>1, <2>1, ServeFacts
<1>3. PICK k \in 1..MaxRead :
          LET n == Smaller(k, Len(prefix))
          IN  /\ Deliver(SubSeq(prefix, 1, n), "none")
              /\ prefix' = SubSeq(prefix, n + 1, Len(prefix))
    BY DEF ReadPrefix
<1> HIDE DEF m
<1> DEFINE n == Smaller(k, m)
<1>4. n \in 0..m /\ n \in Nat /\ n > 0
    <2>1. m # 0
        BY <1>1, <1>2, BytesEmpty
    <2>2. k \in Nat /\ k > 0
        BY CaptureAssumption
    <2> QED BY <1>2, <2>1, <2>2 DEF Smaller
<1>5. Deliver(SubSeq(prefix, 1, n), "none") /\ prefix' = SubSeq(prefix, n + 1, m)
    BY <1>2, <1>3
<1> HIDE DEF n
<1>6. SubSeq(prefix, 1, n) = Bytes(Len(seen), n) /\ SubSeq(prefix, n + 1, m) = Bytes(Len(seen) + n, m - n)
    <2>1. /\ SubSeq(Bytes(Len(seen), m), 1, n) = Bytes(Len(seen), n)
          /\ SubSeq(Bytes(Len(seen), m), n + 1, m) = Bytes(Len(seen) + n, m - n)
        BY <1>2, <1>4, BytesParts
    <2> QED BY <1>2, <2>1, Zenon
<1>7. last' = "none" /\ seen' = seen \o Bytes(Len(seen), n)
    BY <1>5, <1>6 DEF Deliver
<1>8. erred' = erred
    <2>1. erred \in BOOLEAN /\ erred' = (erred \/ "none" = "error")
        BY <1>5 DEF Deliver, ReadingInv, TypeOK
    <2> QED BY <2>1
<1>9. prefix' = Bytes(Len(seen) + n, source.pos - Len(seen) - n)
    BY <1>5, <1>6 DEF m
<1>10. n <= source.pos - Len(seen)
    BY <1>2, <1>4 DEF m
<1> QED BY <1>4, <1>7, <1>8, <1>9, <1>10

LEMMA ReadPrefixPreserves ==
    ASSUME ReadingInv, ReadPrefix
    PROVE  ReadingInv'
<1>1. phase = "serve" /\ prefix # <<>> /\ UNCHANGED <<body, phase, source, pending, capture, log>>
    BY DEF ReadPrefix
<1>2. PICK n \in Nat :
          /\ n > 0 /\ n <= source.pos - Len(seen)
          /\ seen' = seen \o Bytes(Len(seen), n)
          /\ prefix' = Bytes(Len(seen) + n, source.pos - Len(seen) - n)
          /\ last' = "none" /\ erred' = erred
    BY ReadPrefixFacts
<1>3. Len(seen) \in Nat /\ source.pos \in Nat /\ Len(prefix) = source.pos - Len(seen) /\ Len(seen) <= source.pos
    BY <1>1, ServeFacts, StateFacts DEF ReadingInv
<1>4. seen' \in Seq(Nat) /\ Len(seen') = Len(seen) + n /\ seen' = Bytes(0, Len(seen) + n)
    BY <1>1, <1>2, SeenGrows
<1>5. prefix' \in Seq(Nat) /\ Len(prefix') = source.pos - Len(seen) - n
    <2>1. Len(seen) + n \in Nat /\ source.pos - Len(seen) - n \in Nat
        BY <1>2, <1>3
    <2>2. /\ Bytes(Len(seen) + n, source.pos - Len(seen) - n) \in Seq(Nat)
          /\ Len(Bytes(Len(seen) + n, source.pos - Len(seen) - n)) = source.pos - Len(seen) - n
        BY <2>1, BytesFacts, Zenon
    <2> QED BY <1>2, <2>2, Zenon
<1>6. TypeOK' /\ (capture \in CaptureType)'
    <2>1. late' \in BOOLEAN
        BY DEF ReadPrefix, Deliver
    <2>2. last' \in Errors
        BY <1>2 DEF Errors
    <2> QED BY <1>1, <1>2, <1>4, <1>5, <2>1, <2>2 DEF ReadingInv, TypeOK
<1>7. PositionInv'
    <2>1. source.pos - Len(seen) - n = source'.pos - Len(seen')
        BY <1>1, <1>2, <1>3, <1>4
    <2>2. prefix' = Bytes(Len(seen'), source'.pos - Len(seen'))
        BY <1>2, <1>4, <2>1
    <2>3. seen' = Bytes(0, Len(seen'))
        BY <1>4
    <2>4. Len(seen') <= source'.pos
        BY <1>1, <1>2, <1>3, <1>4
    <2>5. Len(prefix') <= Limit + 1
        <3>1. Len(prefix) <= Limit + 1 /\ Limit \in Nat
            BY CaptureAssumption DEF ReadingInv, PositionInv
        <3> QED BY <1>2, <1>3, <1>5, <3>1
    <2>6. source'.pos <= body'.length
        BY <1>1 DEF ReadingInv, PositionInv
    <2> QED BY <2>2, <2>3, <2>4, <2>5, <2>6 DEF PositionInv
<1>8. FailureInv'
    BY <1>1, <1>2 DEF ReadingInv, FailureInv, WillFail
<1>9. PhaseInv'
    BY <1>1 DEF ReadingInv, PhaseInv, Direct
<1>10. CopyInv'
    BY <1>1 DEF ReadingInv, CopyInv
<1> QED BY <1>6, <1>7, <1>8, <1>9, <1>10 DEF ReadingInv

LEMMA ReadPendingPreserves ==
    ASSUME ReadingInv, ReadPending
    PROVE  ReadingInv'
<1>1. /\ phase = "serve" /\ prefix = <<>> /\ pending # "none" /\ pending' = "none"
      /\ UNCHANGED <<body, phase, source, prefix, capture, log>>
    BY DEF ReadPending
<1>2. /\ seen' = seen \o <<>> /\ last' = pending
      /\ erred' <=> erred \/ pending = "error"
      /\ erred' \in BOOLEAN /\ late' \in BOOLEAN
    BY DEF ReadPending, Deliver, ReadingInv, TypeOK
<1>3. seen' = seen
    <2>1. seen \in Seq(Nat)
        BY DEF ReadingInv, TypeOK
    <2> QED BY <1>2, <2>1, ConcatEmptySeq
<1>4. TypeOK' /\ (capture \in CaptureType)'
    <2>1. last' \in Errors
        BY <1>2 DEF ReadingInv, TypeOK, Errors
    <2> QED BY <1>1, <1>2, <1>3, <2>1 DEF ReadingInv, TypeOK
<1>5. PositionInv'
    BY <1>1, <1>3 DEF ReadingInv, PositionInv
<1>6. FailureInv'
    BY <1>1, <1>2 DEF ReadingInv, FailureInv, WillFail
<1>7. PhaseInv'
    BY <1>1 DEF ReadingInv, PhaseInv, Direct
<1>8. CopyInv'
    BY <1>1 DEF ReadingInv, CopyInv
<1> QED BY <1>4, <1>5, <1>6, <1>7, <1>8 DEF ReadingInv

\* What a read of the original does, with nothing left to replay.
LEMMA ReadOriginalFacts ==
    ASSUME ReadingInv, ReadOriginal
    PROVE  \E k \in Nat : \E r \in Results(k) :
              /\ source' = AfterRead(r)
              /\ Len(seen) = source.pos
              /\ seen' = seen \o Bytes(Len(seen), r.n)
              /\ last' = r.err
              /\ erred' <=> erred \/ r.err = "error"
              /\ erred' \in BOOLEAN /\ late' \in BOOLEAN
              /\ capture' = IF body.mode = "passive" THEN Observed(Bytes(source.pos, r.n), r.err) ELSE capture
<1>1. PICK k \in 1..MaxRead : \E r \in Results(k) :
          /\ source' = AfterRead(r)
          /\ Deliver(Bytes(source.pos, r.n), r.err)
          /\ capture' = IF body.mode = "passive" THEN Observed(Bytes(source.pos, r.n), r.err) ELSE capture
    BY DEF ReadOriginal
<1>2. PICK r \in Results(k) :
          /\ source' = AfterRead(r)
          /\ Deliver(Bytes(source.pos, r.n), r.err)
          /\ capture' = IF body.mode = "passive" THEN Observed(Bytes(source.pos, r.n), r.err) ELSE capture
    BY <1>1
<1>3. k \in Nat
    BY CaptureAssumption
<1>4. Len(seen) = source.pos
    <2>1. phase = "serve" /\ prefix = <<>>
        BY DEF ReadOriginal
    <2>2. source.pos \in Nat
        BY StateFacts DEF ReadingInv
    <2>3. Len(seen) \in Nat /\ Len(prefix) = source.pos - Len(seen)
        BY <2>1, ServeFacts
    <2>4. Len(prefix) = 0
        BY <2>1, EmptySeq
    <2> QED BY <2>2, <2>3, <2>4
<1>5. /\ seen' = seen \o Bytes(Len(seen), r.n) /\ last' = r.err
      /\ erred' <=> erred \/ r.err = "error"
      /\ erred' \in BOOLEAN /\ late' \in BOOLEAN
    BY <1>2, <1>4 DEF Deliver
<1> QED BY <1>2, <1>3, <1>4, <1>5

LEMMA ReadOriginalPreserves ==
    ASSUME ReadingInv, ReadOriginal
    PROVE  ReadingInv'
<1>1. /\ phase = "serve" /\ prefix = <<>> /\ pending = "none"
      /\ UNCHANGED <<body, phase, prefix, pending, log>>
    BY DEF ReadOriginal
<1>2. PICK k \in Nat : \E r \in Results(k) :
          /\ source' = AfterRead(r)
          /\ Len(seen) = source.pos
          /\ seen' = seen \o Bytes(Len(seen), r.n)
          /\ last' = r.err
          /\ erred' <=> erred \/ r.err = "error"
          /\ erred' \in BOOLEAN /\ late' \in BOOLEAN
          /\ capture' = IF body.mode = "passive" THEN Observed(Bytes(source.pos, r.n), r.err) ELSE capture
    BY ReadOriginalFacts
<1>3. PICK r \in Results(k) :
          /\ source' = AfterRead(r)
          /\ Len(seen) = source.pos
          /\ seen' = seen \o Bytes(Len(seen), r.n)
          /\ last' = r.err
          /\ erred' <=> erred \/ r.err = "error"
          /\ erred' \in BOOLEAN /\ late' \in BOOLEAN
          /\ capture' = IF body.mode = "passive" THEN Observed(Bytes(source.pos, r.n), r.err) ELSE capture
    BY <1>2
<1>4. /\ body.length \in Nat /\ body.failAt \in Nat /\ source.pos \in Nat /\ Limit \in Nat \ {0}
    BY StateFacts DEF ReadingInv
<1>5. /\ r.n \in Nat /\ r.err \in Errors /\ source.pos + r.n <= body.length
      /\ r.err = "closed" => source.closed
      /\ r.err = "error" => (r.n = 0 /\ source.failed) \/ (WillFail /\ source.pos + r.n = body.failAt)
      /\ r.err = "eof" => ~WillFail /\ source.pos + r.n = body.length
    BY ResultsFacts DEF ReadingInv
<1>6. /\ source' \in [pos : 0..body.length, failed : BOOLEAN, closed : BOOLEAN]
      /\ source'.pos = source.pos + r.n /\ source'.closed = source.closed
      /\ source'.failed <=> source.failed \/ r.err = "error"
      /\ WillFail' => source'.pos <= body.failAt
      /\ source'.failed => body.failAt <= source'.pos
    BY <1>1, <1>3, AfterReadFacts
<1>7. seen' \in Seq(Nat) /\ Len(seen') = source'.pos /\ seen' = Bytes(0, source'.pos)
    <2>1. seen' \in Seq(Nat) /\ Len(seen') = Len(seen) + r.n /\ seen' = Bytes(0, Len(seen) + r.n)
        BY <1>1, <1>3, <1>5, SeenGrows
    <2>2. Len(seen) + r.n = source'.pos
        BY <1>3, <1>6
    <2> QED BY <2>1, <2>2, Zenon
<1>8. source'.pos \in Nat /\ source'.pos <= body.length
    BY <1>4, <1>5, <1>6
<1>9. PositionInv'
    <2>1. source'.pos - Len(seen') = 0
        BY <1>7, <1>8
    <2>2. Bytes(Len(seen'), 0) = <<>>
        BY <1>7, <1>8, BytesEmpty
    <2>3. prefix' = Bytes(Len(seen'), source'.pos - Len(seen'))
        BY <1>1, <2>1, <2>2, Zenon
    <2>4. Len(prefix') <= Limit + 1
        BY <1>1, <1>4, EmptySeq
    <2>5. Len(seen') <= source'.pos /\ source'.pos <= body'.length
        BY <1>1, <1>7, <1>8
    <2>6. seen' = Bytes(0, Len(seen'))
        BY <1>7, Zenon
    <2> QED BY <2>3, <2>4, <2>5, <2>6 DEF PositionInv
<1>10. FailureInv'
    BY <1>1, <1>3, <1>6 DEF ReadingInv, FailureInv
<1>11. PhaseInv'
    BY <1>1 DEF ReadingInv, PhaseInv, Direct
<1>12. CASE body.mode = "passive"
    <2> DEFINE c == Observed(Bytes(source.pos, r.n), r.err)
    <2>1. capture' = c
        BY <1>3, <1>12
    <2>2. /\ c \in CaptureType /\ Len(c.data) <= Limit
          /\ c.total = source.pos + r.n
          /\ c.truncated \/ c.data = Bytes(0, c.total)
          /\ c.truncated => body.length > Limit
          /\ c.eof => capture.eof \/ r.err = "eof"
          /\ c.failed => capture.failed \/ r.err \in {"error", "closed"}
        BY <1>5, <1>12, ObservedFacts
    <2> HIDE DEF c
    <2>3. capture.total = source.pos /\ (capture.eof => capture.total = body.length)
          /\ (capture.failed => source.failed \/ (body.mode = "passive" /\ source.closed))
        BY <1>12 DEF ReadingInv, CopyInv
    <2>4. c.total = source'.pos
        BY <1>6, <2>2
    <2>5. c.eof => c.total = body.length
        BY <1>4, <1>5, <2>2, <2>3
    <2>6. c.failed => source'.failed \/ source'.closed
        BY <1>5, <1>6, <2>2, <2>3
    <2>7. CopyInv'
        <3>1. source'.pos <= source'.pos
            BY <1>8
        <3> QED BY <1>1, <1>12, <2>1, <2>2, <2>4, <2>5, <2>6, <3>1 DEF CopyInv
    <2>8. TypeOK'
        <3>1. c.total \in 0..body.length
            BY <1>8, <2>4
        <3>2. c.data \in Seq(Nat) /\ {c.truncated, c.eof, c.failed} \subseteq BOOLEAN
            BY <2>2 DEF CaptureType
        <3> QED BY <1>1, <1>3, <1>5, <1>6, <1>7, <2>1, <2>2, <3>1, <3>2 DEF ReadingInv, TypeOK
    <2> QED BY <1>9, <1>10, <1>11, <2>1, <2>2, <2>7, <2>8 DEF ReadingInv
<1>13. CASE body.mode # "passive"
    <2>1. capture' = capture
        BY <1>3, <1>13
    <2>2. TypeOK'
        BY <1>1, <1>3, <1>5, <1>6, <1>7, <2>1 DEF ReadingInv, TypeOK
    <2>3. CopyInv'
        <3>1. capture.total <= source'.pos
            <4>1. capture.total \in Nat /\ capture.total <= source.pos
                BY <1>4 DEF ReadingInv, CopyInv, CaptureType
            <4> QED BY <1>4, <1>5, <1>6, <4>1
        <3> QED BY <1>1, <1>6, <1>13, <2>1, <3>1 DEF ReadingInv, CopyInv
    <2> QED BY <1>9, <1>10, <1>11, <2>1, <2>2, <2>3 DEF ReadingInv
<1> QED BY <1>12, <1>13

LEMMA ReadingInit == Init => ReadingInv
<1> SUFFICES ASSUME Init PROVE ReadingInv
    OBVIOUS
<1> USE DEF Init
<1>1. body \in BodyType
    BY CaptureAssumption
<1>2. body.length \in Nat /\ body.failAt \in Nat /\ Limit \in Nat \ {0}
    BY <1>1, CaptureAssumption DEF BodyType
<1>3. <<>> \in Seq(Nat) /\ Len(<<>>) = 0
    BY EmptySeq
<1>4. Bytes(0, 0) = <<>>
    BY BytesEmpty
<1>5. /\ source.pos = 0 /\ ~source.failed /\ ~source.closed
      /\ source \in [pos : 0..body.length, failed : BOOLEAN, closed : BOOLEAN]
    BY <1>2
<1>6. /\ capture.data = <<>> /\ capture.total = 0
      /\ ~capture.truncated /\ ~capture.eof /\ ~capture.failed /\ capture \in CaptureType
    BY <1>3 DEF Empty, CaptureType
<1>7. TypeOK
    <2>1. capture.data \in Seq(Nat) /\ Len(capture.data) <= Limit
        BY <1>2, <1>3, <1>6
    <2>2. capture.total \in 0..body.length /\ {capture.truncated, capture.eof, capture.failed} \subseteq BOOLEAN
        BY <1>2, <1>6 DEF CaptureType
    <2> QED BY <1>3, <1>5, <2>1, <2>2 DEF TypeOK, Errors
<1>8. PositionInv
    <2>1. source.pos - Len(seen) = 0 /\ Len(seen) = 0
        BY <1>3, <1>5
    <2>2. prefix = Bytes(Len(seen), source.pos - Len(seen)) /\ seen = Bytes(0, Len(seen))
        BY <1>4, <2>1
    <2>3. source.pos <= body.length /\ Len(seen) <= source.pos /\ Len(prefix) <= Limit + 1
        BY <1>2, <1>3, <1>5
    <2> QED BY <2>2, <2>3 DEF PositionInv
<1>9. FailureInv
    BY <1>2, <1>5 DEF FailureInv
<1>10. PhaseInv
    BY <1>5 DEF PhaseInv
<1>11. CopyInv
    <2>1. Len(capture.data) <= Limit /\ capture.total <= source.pos
        BY <1>2, <1>3, <1>5, <1>6
    <2>2. capture.data = Bytes(0, capture.total)
        BY <1>4, <1>6
    <2> QED BY <1>5, <1>6, <2>1, <2>2 DEF CopyInv
<1> QED BY <1>6, <1>7, <1>8, <1>9, <1>10, <1>11 DEF ReadingInv

LEMMA ReadingStep == ReadingInv /\ [Next]_vars => ReadingInv'
<1> SUFFICES ASSUME ReadingInv, [Next]_vars PROVE ReadingInv'
    OBVIOUS
<1>1. CASE InstallWithoutReading
    BY <1>1, InstallPreserves
<1>2. CASE BeginReadAhead
    BY <1>2, BeginPreserves
<1>3. CASE ReadAhead
    BY <1>3, ReadAheadPreserves
<1>4. CASE ReadOriginal
    BY <1>4, ReadOriginalPreserves
<1>5. CASE ReadPrefix
    BY <1>5, ReadPrefixPreserves
<1>6. CASE ReadPending
    BY <1>6, ReadPendingPreserves
<1>7. CASE Close
    BY <1>7, ClosePreserves
<1>8. CASE Log
    BY <1>8, LogPreserves
<1>9. CASE UNCHANGED vars
    <2>1. UNCHANGED <<body, phase, source, prefix, pending, capture, seen, erred, last, late, log>>
        BY <1>9 DEF vars
    <2>2. TypeOK' /\ (capture \in CaptureType)'
        BY <2>1 DEF ReadingInv, TypeOK
    <2>3. PositionInv'
        BY <2>1 DEF ReadingInv, PositionInv
    <2>4. FailureInv'
        BY <2>1 DEF ReadingInv, FailureInv, WillFail
    <2>5. PhaseInv'
        BY <2>1 DEF ReadingInv, PhaseInv, Direct
    <2>6. CopyInv'
        BY <2>1 DEF ReadingInv, CopyInv
    <2> QED BY <2>2, <2>3, <2>4, <2>5, <2>6 DEF ReadingInv
<1> QED BY <1>1, <1>2, <1>3, <1>4, <1>5, <1>6, <1>7, <1>8, <1>9 DEF Next

-----------------------------------------------------------------------------
(* What the log says *)

\* The reason the completion record gives, in the state it is made in.
LEMMA MarkerFacts ==
    ASSUME ReadingInv, phase = "serve"
    PROVE  /\ Marker = "body" => capture.data = Payload
           /\ Marker = "exceeds limit" => body.length > Limit
           /\ Marker = "failed" => source.failed \/ source.closed
           /\ Marker = "not read" => seen = <<>>
           /\ Marker = "incomplete" => seen # <<>> /\ body.mode = "passive"
           /\ body.mode = "buffered" /\ body.length <= Limit /\ ~source.failed => Marker = "body"
<1>1. /\ body.length \in Nat /\ body.mode \in {"off", "passive", "buffered"} /\ Limit \in Nat
      /\ source.pos \in Nat
    BY StateFacts DEF ReadingInv
<1>2. /\ ~capture.truncated => capture.data = Bytes(0, capture.total)
      /\ capture.truncated => body.length > Limit
      /\ capture.eof => capture.total = body.length
      /\ capture.failed => source.failed \/ (body.mode = "passive" /\ source.closed)
      /\ body.mode = "passive" => capture.total = source.pos
      /\ body.mode = "buffered" => capture.truncated \/ capture.failed \/ capture.eof
    BY DEF ReadingInv, CopyInv
<1>3. Complete => capture.total = body.length
    BY <1>2 DEF Complete
<1>4. capture.eof => Complete
    BY DEF Complete
<1>5. body.mode = "passive" => (seen = <<>> <=> capture.total = 0)
    <2> SUFFICES ASSUME body.mode = "passive" PROVE seen = <<>> <=> capture.total = 0
        OBVIOUS
    <2>1. prefix = <<>>
        BY DEF ReadingInv, PhaseInv
    <2>2. Len(prefix) = 0
        BY <2>1, EmptySeq
    <2>3. Len(seen) \in Nat /\ Len(prefix) = source.pos - Len(seen) /\ seen = Bytes(0, Len(seen))
        BY ServeFacts
    <2>4. Len(seen) = source.pos
        BY <1>1, <2>2, <2>3
    <2>5. Bytes(0, source.pos) = <<>> <=> source.pos = 0
        BY <1>1, BytesEmpty
    <2>6. seen = Bytes(0, source.pos)
        BY <2>3, <2>4, Zenon
    <2> QED BY <1>2, <2>5, <2>6, Zenon
<1>6. Marker = "body" => capture.data = Payload
    <2>1. Marker = "body" => ~capture.truncated /\ Complete
        BY DEF Marker
    <2>2. Payload = Bytes(0, body.length)
        BY <1>1, PayloadIsBytes
    <2> QED BY <1>2, <1>3, <2>1, <2>2
<1>7. Marker = "exceeds limit" => capture.truncated
    BY DEF Marker
<1>8. Marker = "failed" => capture.failed
    BY DEF Marker
<1>9. Marker = "not read" =>
          body.mode # "off" /\ ~capture.truncated /\ ~capture.failed /\ ~Complete /\ capture.total = 0
    BY DEF Marker
<1>10. Marker = "incomplete" =>
          body.mode # "off" /\ ~capture.truncated /\ ~capture.failed /\ ~Complete /\ capture.total # 0
    BY DEF Marker
<1>11. body.mode # "off" /\ ~capture.truncated /\ ~capture.failed /\ Complete => Marker = "body"
    BY DEF Marker
<1>12. body.mode = "buffered" /\ body.length <= Limit => ~capture.truncated
    BY <1>1, <1>2
<1>13. body.mode = "buffered" /\ body.length <= Limit /\ ~source.failed => Marker = "body"
    BY <1>2, <1>4, <1>11, <1>12
<1>14. Marker = "not read" => seen = <<>>
    BY <1>1, <1>2, <1>4, <1>5, <1>9
<1>15. Marker = "incomplete" => seen # <<>> /\ body.mode = "passive"
    BY <1>1, <1>2, <1>4, <1>5, <1>10
<1> QED BY <1>2, <1>6, <1>7, <1>8, <1>13, <1>14, <1>15

LEMMA CaptureInit == Init => CaptureInv
<1>1. Init => LoggedWhole /\ MarkersTruthful
    BY DEF Init, LoggedWhole, MarkersTruthful
<1> QED BY <1>1, ReadingInit DEF CaptureInv

LEMMA CaptureStep == CaptureInv /\ [Next]_vars => CaptureInv'
<1> SUFFICES ASSUME CaptureInv, [Next]_vars PROVE CaptureInv'
    OBVIOUS
<1>1. ReadingInv /\ ReadingInv'
    BY ReadingStep DEF CaptureInv
<1>2. CASE Log
    <2>1. phase = "serve" /\ log' = Marker /\ UNCHANGED <<body, source, capture, seen>>
        BY <1>2 DEF Log
    <2>2. LoggedWhole'
        BY <1>1, <2>1, MarkerFacts DEF LoggedWhole, Payload
    <2>3. MarkersTruthful'
        BY <1>1, <2>1, MarkerFacts DEF MarkersTruthful
    <2> QED BY <1>1, <2>2, <2>3 DEF CaptureInv
<1>3. CASE ~Log /\ Next
    <2>1. log = "none"
        BY <1>1, <1>3 DEF ReadingInv, PhaseInv, Next, InstallWithoutReading, BeginReadAhead, ReadAhead,
              ReadOriginal, ReadPrefix, ReadPending, Close
    <2>2. log' = log
        BY <1>3 DEF Next, InstallWithoutReading, BeginReadAhead, ReadAhead,
              ReadOriginal, ReadPrefix, ReadPending, Close
    <2> QED BY <1>1, <2>1, <2>2 DEF CaptureInv, LoggedWhole, MarkersTruthful
<1>4. CASE UNCHANGED vars
    BY <1>1, <1>4 DEF vars, CaptureInv, LoggedWhole, MarkersTruthful, Payload
<1> QED BY <1>2, <1>3, <1>4

-----------------------------------------------------------------------------
(* Theorems *)

\* The invariant of request body capture holds of every behaviour.
THEOREM CaptureCorrect == Spec => []CaptureInv
    BY CaptureInit, CaptureStep, PTL DEF Spec

\* The copy stays within the limit and the read-ahead within the body
\* (bodyCapture.append, access_log.go:296-315).
THEOREM TypeCorrect == Spec => []TypeOK
<1>1. CaptureInv => TypeOK
    BY DEF CaptureInv, ReadingInv
<1> QED BY <1>1, CaptureCorrect, PTL

\* A body in the log is the whole payload, whatever its length, wherever its
\* transport fails and however the handler reads it (access_log.go:336-358).
THEOREM LoggedWholeCorrect == Spec => []LoggedWhole
<1>1. CaptureInv => LoggedWhole
    BY DEF CaptureInv
<1> QED BY <1>1, CaptureCorrect, PTL

\* The marker that stands for an omitted body is true (bodyForLog,
\* access_log.go:336-358).
THEOREM MarkersCorrect == Spec => []MarkersTruthful
<1>1. CaptureInv => MarkersTruthful
    BY DEF CaptureInv
<1> QED BY <1>1, CaptureCorrect, PTL

\* Until the handler reads, at most one byte over the limit was taken from the
\* connection (captureRequest, access_log.go:273-280).
THEOREM ReadAheadCorrect == Spec => []BoundedReadAhead
<1>1. CaptureInv => BoundedReadAhead
    <2> SUFFICES ASSUME CaptureInv, seen = <<>>
                 PROVE  source.pos <= (IF Direct \/ body.mode = "passive" THEN 0 ELSE Limit + 1)
        BY DEF BoundedReadAhead
    <2>1. source.pos \in Nat /\ Limit \in Nat
        BY StateFacts DEF CaptureInv, ReadingInv
    <2>2. Len(seen) = 0 /\ source.pos - Len(seen) = source.pos
        BY <2>1, EmptySeq
    <2>3. prefix = Bytes(0, source.pos)
        <3>1. prefix = Bytes(Len(seen), source.pos - Len(seen))
            BY DEF CaptureInv, ReadingInv, PositionInv
        <3> QED BY <2>2, <3>1, Zenon
    <2>4. Len(prefix) = source.pos
        <3>1. Len(Bytes(0, source.pos)) = source.pos
            BY <2>1, BytesFacts
        <3> QED BY <2>3, <3>1, Zenon
    <2>5. Len(prefix) <= Limit + 1
        BY DEF CaptureInv, ReadingInv, PositionInv
    <2>6. CASE Direct \/ body.mode = "passive"
        <3>1. prefix = <<>>
            BY <2>6 DEF CaptureInv, ReadingInv, PhaseInv
        <3>2. Len(prefix) = 0
            BY <3>1, EmptySeq
        <3> QED BY <2>1, <2>4, <2>6, <3>2
    <2>7. CASE ~(Direct \/ body.mode = "passive")
        BY <2>4, <2>5, <2>7
    <2> QED BY <2>6, <2>7
<1> QED BY <1>1, CaptureCorrect, PTL

-----------------------------------------------------------------------------
(* The stream the handler reads *)

\* Bytes that begin the payload are a read of the stream.
LEMMA StreamPrefix ==
    ASSUME body.length \in Nat, NEW n \in 0..body.length
    PROVE  Bytes(0, n) = SubSeq(Stream!Payload, 1, n)
<1>1. Stream!Payload = Bytes(0, body.length)
    BY DEF Stream!Payload, Bytes
<1>2. SubSeq(Bytes(0, body.length), 1, n) = Bytes(0, n)
    BY BytesParts
<1> QED BY <1>1, <1>2

\* Every read of the handler is a read of the stream, every other step stutters.
LEMMA StreamStep ==
    ASSUME ReadingInv, ReadingInv', [Next]_vars
    PROVE  [Stream!Next]_Stream!vars
<1>1. /\ body.length \in Nat /\ body.failAt \in Nat /\ source.pos \in Nat
      /\ {source.failed, source.closed} \subseteq BOOLEAN /\ erred \in BOOLEAN
    BY StateFacts DEF ReadingInv, TypeOK
<1>2. /\ source.pos <= body.length
      /\ WillFail => source.pos <= body.failAt
      /\ source.failed => body.failAt <= source.pos
      /\ source.failed <=> erred \/ pending = "error"
      /\ pending = "error" => source.pos = body.failAt
      /\ pending = "eof" => source.pos = body.length /\ body.length < body.failAt
    BY DEF ReadingInv, PositionInv, FailureInv
<1>3. \A n \in Nat : n > body.failAt /\ n <= source.pos => erred
    <2> SUFFICES ASSUME NEW n \in Nat, n > body.failAt, n <= source.pos PROVE erred
        OBVIOUS
    <2>1. body.failAt < source.pos /\ body.failAt <= body.length
        BY <1>1, <1>2
    <2>2. ~WillFail
        BY <1>1, <1>2, <2>1
    <2>3. source.failed
        BY <2>1, <2>2 DEF WillFail
    <2>4. pending # "error"
        BY <1>1, <1>2, <2>1
    <2> QED BY <1>2, <2>3, <2>4
<1>4. CASE ReadOriginal
    <2>1. phase = "serve" /\ pending = "none" /\ body' = body
        BY <1>4 DEF ReadOriginal
    <2>2. PICK k \in Nat : \E r \in Results(k) :
              /\ Len(seen) = source.pos
              /\ seen' = seen \o Bytes(Len(seen), r.n)
              /\ last' = r.err
              /\ erred' <=> erred \/ r.err = "error"
              /\ erred' \in BOOLEAN
        BY <1>4, ReadOriginalFacts
    <2>3. PICK r \in Results(k) :
              /\ Len(seen) = source.pos
              /\ seen' = seen \o Bytes(Len(seen), r.n)
              /\ last' = r.err
              /\ erred' <=> erred \/ r.err = "error"
              /\ erred' \in BOOLEAN
        BY <2>2
    <2>4. /\ r.n \in Nat /\ r.err \in Errors /\ source.pos + r.n <= body.length
          /\ r.err = "error" => (r.n = 0 /\ source.failed) \/ (WillFail /\ source.pos + r.n = body.failAt)
          /\ r.err = "eof" => ~WillFail /\ source.pos + r.n = body.length
          /\ WillFail => source.pos + r.n <= body.failAt
        BY ResultsFacts DEF ReadingInv
    <2>5. Len(seen') = Len(seen) + r.n /\ seen' = Bytes(0, Len(seen) + r.n)
        BY <2>1, <2>3, <2>4, SeenGrows
    <2>6. Len(seen') = source.pos + r.n /\ seen' = Bytes(0, Len(seen'))
        BY <2>3, <2>5
    <2>7. Len(seen') \in Len(seen)..body.length /\ Len(seen') \in 0..body.length
        BY <1>1, <2>3, <2>4, <2>6
    <2>8. seen' = SubSeq(Stream!Payload, 1, Len(seen'))
        BY <1>1, <2>6, <2>7, StreamPrefix
    <2>9. last' = "error" => Len(seen') >= body.failAt
        BY <1>1, <1>2, <2>3, <2>4, <2>6
    <2>10. Len(seen') > body.failAt => erred
        <3> SUFFICES ASSUME Len(seen') > body.failAt PROVE erred
            OBVIOUS
        <3>1. ~WillFail
            BY <1>1, <2>4, <2>6
        <3>2. body.failAt <= body.length
            BY <1>1, <2>4, <2>6
        <3>3. source.failed
            BY <3>1, <3>2 DEF WillFail
        <3> QED BY <1>2, <2>1, <3>3
    <2>11. last' = "eof" => Len(seen') = body.length /\ (body.failAt <= body.length => erred')
        <3> SUFFICES ASSUME last' = "eof"
                     PROVE  Len(seen') = body.length /\ (body.failAt <= body.length => erred')
            OBVIOUS
        <3>1. ~WillFail /\ Len(seen') = body.length
            BY <2>3, <2>4, <2>6
        <3>2. body.failAt <= body.length => source.failed
            BY <3>1 DEF WillFail
        <3> QED BY <1>2, <2>1, <2>3, <3>1, <3>2
    <2>12. erred' = (erred \/ last' = "error")
        BY <1>1, <2>3
    <2>13. last' \in {"none", "error", "eof", "closed"}
        BY <2>3, <2>4 DEF Errors
    <2> QED BY <2>1, <2>7, <2>8, <2>9, <2>10, <2>11, <2>12, <2>13 DEF Stream!Next, Stream!Read
<1>5. CASE ReadPrefix
    <2>1. phase = "serve" /\ body' = body
        BY <1>5 DEF ReadPrefix
    <2>2. PICK n \in Nat :
              /\ n <= source.pos - Len(seen)
              /\ seen' = seen \o Bytes(Len(seen), n)
              /\ last' = "none" /\ erred' = erred
        BY <1>5, ReadPrefixFacts
    <2>3. Len(seen') = Len(seen) + n /\ seen' = Bytes(0, Len(seen'))
        BY <2>1, <2>2, SeenGrows
    <2>4. Len(seen) \in Nat /\ Len(seen') \in Nat /\ Len(seen') <= source.pos /\ Len(seen) <= Len(seen')
        <3>1. Len(seen) \in Nat
            BY <2>1, ServeFacts
        <3> QED BY <1>1, <2>2, <2>3, <3>1
    <2>5. Len(seen') \in Len(seen)..body.length /\ Len(seen') \in 0..body.length
        BY <1>1, <1>2, <2>4
    <2>6. seen' = SubSeq(Stream!Payload, 1, Len(seen'))
        BY <1>1, <2>3, <2>5, StreamPrefix
    <2>7. Len(seen') > body.failAt => erred
        BY <1>3, <2>4
    <2>8. erred' = (erred \/ last' = "error")
        BY <1>1, <2>2
    <2> QED BY <2>1, <2>2, <2>5, <2>6, <2>7, <2>8 DEF Stream!Next, Stream!Read
<1>6. CASE ReadPending
    <2>1. /\ phase = "serve" /\ prefix = <<>> /\ pending \in {"error", "eof"} /\ body' = body
          /\ last' = pending /\ erred' = (erred \/ pending = "error")
        BY <1>6 DEF ReadPending, Deliver, ReadingInv, TypeOK
    <2>2. seen' = seen
        <3>1. seen' = seen \o <<>> /\ seen \in Seq(Nat)
            BY <1>6 DEF ReadPending, Deliver, ReadingInv, TypeOK
        <3> QED BY <3>1, ConcatEmptySeq
    <2>3. Len(seen) \in Nat /\ Len(prefix) = source.pos - Len(seen) /\ seen = Bytes(0, Len(seen))
        BY <2>1, ServeFacts
    <2>4. Len(prefix) = 0
        BY <2>1, EmptySeq
    <2>5. Len(seen) = source.pos
        BY <1>1, <2>3, <2>4
    <2>6. Len(seen) \in Len(seen)..body.length /\ Len(seen) \in 0..body.length
        BY <1>1, <1>2, <2>3, <2>5
    <2>7. seen = SubSeq(Stream!Payload, 1, Len(seen))
        BY <1>1, <2>3, <2>6, StreamPrefix
    <2>8. Len(seen) > body.failAt => erred
        BY <1>1, <1>3, <2>5
    <2>9. last' = "error" => Len(seen) >= body.failAt
        BY <1>1, <1>2, <2>1, <2>5
    <2>10. last' = "eof" => Len(seen) = body.length /\ (body.failAt <= body.length => erred')
        BY <1>1, <1>2, <2>1, <2>5
    <2>11. last' \in {"none", "error", "eof", "closed"} /\ erred' = (erred \/ last' = "error")
        BY <2>1
    <2> QED BY <2>1, <2>2, <2>6, <2>7, <2>8, <2>9, <2>10, <2>11 DEF Stream!Next, Stream!Read
<1>7. CASE InstallWithoutReading \/ BeginReadAhead \/ ReadAhead \/ Close \/ Log \/ UNCHANGED vars
    BY <1>7 DEF InstallWithoutReading, BeginReadAhead, ReadAhead, Close, Log, vars, Stream!vars
<1> QED BY <1>4, <1>5, <1>6, <1>7 DEF Next

\* The handler reads the stream it would have read without the access log
\* (captureReadCloser and replayReadCloser, access_log.go:256-294).
THEOREM StreamCorrect == Spec => ByteStreamKept
<1>1. Init => Stream!Init
    BY DEF Init, Stream!Init
<1>2. CaptureInv /\ CaptureInv' /\ [Next]_vars => [Stream!Next]_Stream!vars
    BY StreamStep DEF CaptureInv
<1> QED BY <1>1, <1>2, CaptureCorrect, PTL DEF Spec, ByteStreamKept, Stream!Spec
=============================================================================
