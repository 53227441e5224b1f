---------------------------- MODULE MCTokenCache ----------------------------
EXTENDS TokenCache

CONSTANTS t1, t2

(* Tokens for a and b, JWTs for c.                                         *)
TwoVersions == [b \in Accounts |-> IF b = "c" THEN "V2" ELSE "V1"]
=============================================================================
