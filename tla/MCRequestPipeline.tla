-------------------------- MODULE MCRequestPipeline --------------------------
(* Instances of RequestPipeline for TLC. *)
EXTENDS RequestPipeline

CONSTANTS k1, k2, r1

\* The general limit is reached after two requests, the others after one.
Limits == [api |-> 2, login |-> 1, register |-> 1]

\* Client k1 calls what the special limiters count, k2 everything else.
Special == {"login", "refresh", "register"}
ByClient == [k \in Clients |-> IF k = k1 THEN Special ELSE Route \ Special]

\* One client calls what Passport answers.
Authenticated == [k \in Clients |-> {"login", "profile"}]

=============================================================================
