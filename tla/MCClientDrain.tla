---------------------------- MODULE MCClientDrain ----------------------------
(* Small instance of ClientDrain for TLC *)
EXTENDS ClientDrain
CONSTANTS k1, k2, poll, r1

\* A subscription of each kind: ordered by key with a partitionReady hook, or one queue with each
\* overflow policy
ByKey == [partitioned |-> TRUE, hooked |-> TRUE, overflow |-> "dropOldest"]
Whole(policy) == [partitioned |-> FALSE, hooked |-> FALSE, overflow |-> policy]
Subscriptions == {ByKey, Whole("stop"), Whole("dropOldest"), Whole("dropNewest")}
=============================================================================
