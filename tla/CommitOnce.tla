----------------------------- MODULE CommitOnce -----------------------------
(***************************************************************************)
(* What rendering one finite response promises to the rest of the request: *)
(* the connection's header map is left alone until the moment a complete   *)
(* response is committed, a response that is already out is never replaced,*)
(* and a failure before the commitment leaves no trace.                    *)
(* FiniteRender is shown to implement this module.                         *)
(***************************************************************************)
EXTENDS Naturals

CONSTANTS HeaderMaps,     \* the header maps a connection can hold
          FinalStatuses   \* the statuses a response may be committed with

VARIABLES live,    \* the connection's header map
          out,     \* what the client was sent: [by, status, header, sent]
          result   \* "pending", "ok", "error" or "panic"

vars == <<live, out, result>>

NoHeader == [k \in {} |-> {}]
Uncommitted == [by |-> "none", status |-> 0, header |-> NoHeader, sent |-> 0]
Earlier == [by |-> "earlier", status |-> 0, header |-> NoHeader, sent |-> 0]

Init == /\ live \in HeaderMaps
        /\ out \in {Uncommitted, Earlier}
        /\ result = "pending"

\* The only step that touches the connection's headers, and it happens once.
Commit == /\ result = "pending"
          /\ out.by = "none"
          /\ live' \in HeaderMaps
          /\ out'.status \in FinalStatuses
          /\ out' = [by |-> "render", status |-> out'.status, header |-> live', sent |-> 0]
          /\ UNCHANGED result

\* After the commitment only the body remains, and it is sent in one attempt.
Finish == /\ result = "pending"
          /\ out.by = "render"
          /\ result' \in {"ok", "error"}
          /\ out'.sent \in Nat
          /\ out' = [out EXCEPT !.sent = out'.sent]
          /\ UNCHANGED live

\* A failure before the commitment: nothing was sent, no header was changed.
Fail == /\ result = "pending"
        /\ out.by # "render"
        /\ result' \in {"error", "panic"}
        /\ UNCHANGED <<live, out>>

Next == Commit \/ Finish \/ Fail

Spec == Init /\ [][Next]_vars
=============================================================================
