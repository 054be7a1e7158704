---------------------------- MODULE MCTokenBucket ----------------------------
(* A token is 6 units, so a "minute" lasts 6 ms; limits are 1 to 4 a minute. *)
EXTENDS TokenBucket

Limits == {[capacity |-> limit, refillRate |-> limit] : limit \in {1, 2, 4}}
=============================================================================
