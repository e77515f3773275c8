---------------------------- MODULE MCNetService ----------------------------
(* The service with callers that ask for anything at any time.             *)
EXTENDS NetService

CONSTANTS r, yes, here, there

MCRequests == {r}
MCAnswers == {yes}
MCSettings == {here, there}

=============================================================================
