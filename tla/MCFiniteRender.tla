--------------------------- MODULE MCFiniteRender ---------------------------
(* Instances of FiniteRender for TLC, and the mutants its runs must refute. *)
EXTENDS FiniteRender

TypeOnly == [k \in {"Content-Type"} |-> App]
TypeBad == [k \in {"Content-Type"} |-> Bad]
LengthOnly == [k \in {"content-length"} |-> App]

Response(via, kinds, statuses, codes, headers, methods, selections) ==
    [via : {via}, kind : kinds, status : statuses, code : codes, header : headers,
     causes : {via = "Response"}, method : methods, selected : selections]

\* Every kind of response, valid and invalid statuses and headers.
MCRequests ==
    UNION { Response("Render", {"finite"}, {0, 204, 600}, {0}, {NoHeader, TypeOnly},
                     {"GET", "HEAD"}, {"nil"}),
            Response("Render", {"none", "typed nil"}, {0, 205, 600}, {0},
                     {NoHeader, TypeOnly, TypeBad, LengthOnly}, {"GET"}, {"nil"}),
            Response("Render", {"redirect"}, {0, 302}, {201, 302, 304, 404}, {NoHeader, TypeOnly},
                     {"GET", "HEAD", "POST"}, {"nil", "GET", "HEAD", "POST"}),
            Response("Response", {"none", "invalid", "html", "redirect"}, {0, 199, 204, 205, 308}, {0},
                     {NoHeader, TypeOnly}, {"GET", "HEAD"}, {"nil"}) }

\* Headers left behind by earlier handlers, stale framing among them.
MCLiveMaps == {NoHeader, TypeOnly, [k \in {"Content-Length", "Transfer-Encoding"} |-> App]}
=============================================================================
