----------------------------- MODULE OneResponse -----------------------------
(***************************************************************************)
(* What a request promises to its client, whatever middleware, handlers    *)
(* and fallbacks took part: one status and one header block, sent once;    *)
(* body bytes only from the writer that sent them or from a handler that   *)
(* writes to the connection itself; and an end only after a response was   *)
(* sent or the connection was torn down.                                   *)
(* RequestPipeline is shown to implement this module.                      *)
(***************************************************************************)
CONSTANTS Writers,  \* whoever can send a response
          Raw,      \* the handler that writes to the connection itself
          Nobody,   \* no response was sent yet
          NoHead    \* the status and headers of no response

VARIABLES by,     \* the writer of the response
          head,   \* the status and headers that were sent
          parts,  \* the writers of the body bytes sent so far
          ended   \* "no", "answered" or "torn down"

vars == <<by, head, parts, ended>>

Init == by = Nobody /\ head = NoHead /\ parts = {} /\ ended = "no"

\* The status and headers go out together, as the writer chose them.
Respond == /\ ended = "no"
           /\ by = Nobody
           /\ by' \in Writers
           /\ parts' \subseteq {by'}
           /\ UNCHANGED ended

SendMore == /\ ended = "no"
            /\ by # Nobody
            /\ parts' = parts \cup {Raw} \/ parts' = parts \cup {by}
            /\ UNCHANGED <<by, head, ended>>

End == /\ ended = "no"
       /\ \/ by # Nobody /\ ended' = "answered"
          \/ ended' = "torn down"
       /\ UNCHANGED <<by, head, parts>>

Next == Respond \/ SendMore \/ End

Spec == Init /\ [][Next]_vars
=============================================================================
