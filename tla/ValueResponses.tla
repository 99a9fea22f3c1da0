---------------------------- MODULE ValueResponses ----------------------------
(***************************************************************************)
(* What response templates promise: a response is a value. Whatever is     *)
(* derived from it, rendered, or changed in a derived copy, by any number  *)
(* of goroutines, the template stays as it was down to the memory behind   *)
(* it, and nobody sees another's changes. ResponseTemplate is shown to     *)
(* implement this module.                                                  *)
(***************************************************************************)
EXTENDS Sequences

CONSTANTS Goroutines, Names

VARIABLES template,  \* the shared response: its value, and all memory it leads to
          response,  \* goroutine -> its response: data, header, errors
          kept,      \* goroutine -> an earlier response it kept
          given,     \* goroutine -> headers it passes to WithHeaders
          sent       \* goroutine -> the headers of its connection

vars == <<template, response, kept, given, sent>>

Init == \A g \in Goroutines : response[g] = template.value /\ kept[g] = template.value

Over(target, source) == [n \in Names |-> IF source[n] = <<>> THEN target[n] ELSE source[n]]

Derive(g) ==
    /\ \/ response' = [response EXCEPT ![g].data = "own"]
       \/ \E n \in Names : response' = [response EXCEPT ![g].header[n] = <<"set">>]
       \/ response' = [response EXCEPT ![g].header = Over(@, given[g])]
       \/ response' = [response EXCEPT ![g].errors = Append(@, "cause")]
       \/ \E r \in {template.value, kept[g]} : response' = [response EXCEPT ![g] = r]
    /\ UNCHANGED <<template, kept, given, sent>>

Keep(g) == /\ kept' = [kept EXCEPT ![g] = response[g]]
           /\ UNCHANGED <<template, response, given, sent>>

Render(g) ==
    /\ \E r \in {response[g], template.value} : sent' = [sent EXCEPT ![g] = Over(@, r.header)]
    /\ UNCHANGED <<template, response, kept, given>>

\* Header.Add, or an assignment to an element.
Changed(values) == {Append(values, "added")} \cup
                   (IF values = <<>> THEN {} ELSE {[values EXCEPT ![1] = "changed"]})

\* The goroutine changes a header map of its own in place.
Change(g) ==
    /\ \E n \in Names :
          \/ /\ \E v \in Changed(response[g].header[n]) : response' = [response EXCEPT ![g].header[n] = v]
             /\ UNCHANGED <<given, sent>>
          \/ /\ \E v \in Changed(given[g][n]) : given' = [given EXCEPT ![g][n] = v]
             /\ UNCHANGED <<response, sent>>
          \/ /\ \E v \in Changed(sent[g][n]) : sent' = [sent EXCEPT ![g][n] = v]
             /\ UNCHANGED <<response, given>>
    /\ UNCHANGED <<template, kept>>

Next == \E g \in Goroutines : Derive(g) \/ Keep(g) \/ Render(g) \/ Change(g)

Spec == Init /\ [][Next]_vars
=============================================================================
