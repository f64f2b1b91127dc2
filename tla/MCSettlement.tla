----------------------------- MODULE MCSettlement -----------------------------
(* Instances of SettlementEngine for TLC. *)
EXTENDS SettlementRefinement, SettlementInvariants, TLC

OneKey == [r \in Requests |-> "k1"]
OnePrint == [r \in Requests |-> "f1"]
OneReplica == [r \in Requests |-> "p1"]

\* Every request settles a payment of its own.
OwnKey == [r \in Requests |-> r]

\* The requests settled off-chain repeat the key with other terms.
OtherTerms == [r \in Requests |-> IF r \in OffChain THEN "f2" ELSE "f1"]

\* Requests of one kind on one replica, all for one payment or each for one of
\* its own, differ in nothing but their names.
AlikeRequests == Permutations(Requests \ OffChain)

\* A state constraint: the next request starts once the one before it, and its
\* submission, ended.
Busy(r) == run[r].pc \notin {"start", "done", "dead"} \/ Submitting(r)
OneAtATime == \A r, q \in Requests : Busy(r) /\ Busy(q) => r = q

\* A state constraint: the second use of the key only while requests take turns.
TakesTurns == faults.foreign < 2 \/ OneAtATime
=============================================================================
