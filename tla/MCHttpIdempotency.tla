------------------------- MODULE MCHttpIdempotency -------------------------
(* Four requests that present one key: three sends of one request and one   *)
(* different request that reuses its key.                                   *)
EXTENDS HttpIdempotency, TLC

CONSTANTS x1, x2, x3, x4, k1, p1, p2

OneKey == [x \in Requests |-> k1]
OneOdd == [x \in Requests |-> IF x = x4 THEN p2 ELSE p1]
SlowRequests == {{"slow"}}
SameRequests == Permutations({x1, x2, x3})
=============================================================================
