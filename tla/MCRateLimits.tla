---------------------------- MODULE MCRateLimits ----------------------------
(* Small instances of RateLimits for TLC *)
EXTENDS RateLimits
CONSTANTS r1, r2, shared, b1, b2

Share == [t \in Routes |-> shared]
\* Both routes have the parameters of both buckets, but r2 lacks one of b2's
SameKey == [hr \in Headers \X Routes |-> hr[1]]
LacksOne == {<<b2, r2>>}
=============================================================================
