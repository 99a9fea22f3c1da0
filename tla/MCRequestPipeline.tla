-------------------------- MODULE MCRequestPipeline --------------------------
(* Instances of RequestPipeline for TLC. *)
EXTENDS RequestPipeline

\* Every kind of route handler, alone and behind application middleware.
AllChains == {<<"typed">>, <<"plain", "wrap">>, <<>>}

\* Application middleware in front of a typed handler.
MiddlewareChain == {<<"plain", "typed">>}
=============================================================================
