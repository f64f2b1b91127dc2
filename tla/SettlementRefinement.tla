------------------------- MODULE SettlementRefinement -------------------------
(* The engine settles payments: what its ledger, its recorded transactions  *)
(* and its answers say of a key is a behaviour of Payment.                  *)
EXTENDS SettlementEngine

PhaseOf(k) ==
  LET found == Find(k)
      state == rows[CHOOSE id \in found : TRUE].state IN
  IF found = {} THEN "open"
  ELSE IF state = "submitted" THEN "signed" ELSE state

Recordings(k) == {id \in Requests : KeyOf[id] = k /\ tx[id] # "none"}

MoneyOf(k) ==
  LET recorded == Recordings(k) IN
  IF recorded = {} THEN "none"
  ELSE IF \E id \in recorded : tx[id] = "ok" THEN "moved"
  ELSE IF \E id \in recorded : Live(id) THEN "pending"
  ELSE "kept"

ToldOf(k) == {run[r].answer : r \in {q \in Requests : KeyOf[q] = k}} \cap FinalStates

Abstract == INSTANCE Payment WITH
              Payments <- Keys,
              phase <- [k \in Keys |-> PhaseOf(k)],
              money <- [k \in Keys |-> MoneyOf(k)],
              told <- [k \in Keys |-> ToldOf(k)]

\* The engine implements Payment.
SettlesPayments == Abstract!Spec
=============================================================================
