------------------------------ MODULE ByteStream ------------------------------
(***************************************************************************)
(* What a request body shows to the handler that reads it: its bytes in    *)
(* order, none lost, repeated or invented; a transport failure exactly     *)
(* where it happened and never skipped; end of file only after the last    *)
(* byte. BodyCapture is shown to implement this module, whatever the access*)
(* log does with the body behind the handler's back.                       *)
(***************************************************************************)
EXTENDS Naturals, Sequences

VARIABLES body,   \* the stream: its length, and where a read fails, if it does
          seen,   \* the bytes the handler has read, by position
          erred,  \* the handler was told of the failure
          last    \* the error of the handler's last read

vars == <<body, seen, erred, last>>

Payload == [i \in 1..body.length |-> i]

Init == seen = <<>> /\ erred = FALSE /\ last = "none"

Read == /\ UNCHANGED body
        /\ last' \in {"none", "error", "eof", "closed"}
        /\ Len(seen') \in Len(seen)..body.length
        /\ seen' = SubSeq(Payload, 1, Len(seen'))
        /\ erred' = (erred \/ last' = "error")
        /\ last' = "error" => Len(seen') >= body.failAt
        /\ Len(seen') > body.failAt => erred
        /\ last' = "eof" => Len(seen') = body.length /\ (body.failAt <= body.length => erred')

Next == Read

Spec == Init /\ [][Next]_vars
=============================================================================
