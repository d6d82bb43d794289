--------------------------- MODULE MCSessionCodec ---------------------------
(* Two concurrent client requests: the least that lets an answer be         *)
(* re-addressed from one request's socket to another's.                     *)
EXTENDS SessionCodec

CONSTANTS r1, r2

MCRequests == {r1, r2}

=============================================================================
