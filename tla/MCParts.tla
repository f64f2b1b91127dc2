-------------------------------- MODULE MCParts --------------------------------
(* The parts that share no state with each other, one instance of each: a      *)
(* behaviour is about one of them, and the others are off.                     *)
EXTENDS FeeBudget, MemoryPool, RestoreHold, BuyerBudget, SellerDedupe

VARIABLE subject

partsVars == <<budgetVars, poolVars, holdVars, buyerVars, dedupeVars, subject>>

Off == "off"

BudgetOff ==
  /\ clock = Off /\ holder = Off /\ asks = Off /\ claims = Off /\ spends = Off
  /\ bumps = Off /\ round = Off /\ owned = Off

HoldOff ==
  /\ tick = Off /\ ledgers = Off /\ rewind = Off /\ lost = Off /\ node = Off
  /\ polling = Off /\ flight = Off /\ lies = Off /\ resets = Off

BuyerOff ==
  /\ newest = Off /\ terms = Off /\ session = Off /\ rows = Off /\ calls = Off
  /\ used = Off /\ runs = Off

DedupeOff ==
  /\ marks = Off /\ record = Off /\ job = Off /\ call = Off /\ tracked = Off
  /\ memory = Off /\ served = Off /\ forgot = Off

\* The channel pool is small: it stays at its start instead.
PartsInit ==
  /\ PoolInit
  /\ \/ subject = "budget" /\ BudgetInit /\ HoldOff /\ BuyerOff /\ DedupeOff
     \/ subject = "pool" /\ BudgetOff /\ HoldOff /\ BuyerOff /\ DedupeOff
     \/ subject = "hold" /\ BudgetOff /\ HoldInit /\ BuyerOff /\ DedupeOff
     \/ subject = "buyer" /\ BudgetOff /\ HoldOff /\ BuyerInit /\ DedupeOff
     \/ subject = "dedupe" /\ BudgetOff /\ HoldOff /\ BuyerOff /\ DedupeInit

PartsNext ==
  /\ UNCHANGED subject
  /\ \/ /\ subject = "budget" /\ BudgetNext
        /\ UNCHANGED <<poolVars, holdVars, buyerVars, dedupeVars>>
     \/ /\ subject = "pool" /\ PoolNext
        /\ UNCHANGED <<budgetVars, holdVars, buyerVars, dedupeVars>>
     \/ /\ subject = "hold" /\ HoldNext
        /\ UNCHANGED <<budgetVars, poolVars, buyerVars, dedupeVars>>
     \/ /\ subject = "buyer" /\ BuyerNext
        /\ UNCHANGED <<budgetVars, poolVars, holdVars, dedupeVars>>
     \/ /\ subject = "dedupe" /\ DedupeNext
        /\ UNCHANGED <<budgetVars, poolVars, holdVars, buyerVars>>

PartsSpec == PartsInit /\ [][PartsNext]_partsVars

-----------------------------------------------------------------------------
\* The type invariants of the parts.  The buyer's says that no row counts more
\* as settled than was reserved (policy/ledger.ts).
PartsTypeOK ==
  /\ subject = "pool" => PoolTypeOK
  /\ subject = "budget" => BudgetTypeOK
  /\ subject = "hold" => HoldTypeOK
  /\ subject = "buyer" => BuyerTypeOK
  /\ subject = "dedupe" => DedupeTypeOK

\* CountsExposure, of settlement-ledger.ts and upto-keeper.ts.
ExposureCounted == subject = "budget" => CountsExposure

\* SpendWithinBudget, of settlement-ledger.ts and upto-keeper.ts.
SpendCapped == subject = "budget" => SpendWithinBudget

\* HoldCoversTheLost, of restore-hold.ts and upto-scheme.ts.
LostIsHeld == subject = "hold" => HoldCoversTheLost

\* BudgetHoldsWhatMoves, of reconcile.ts and the buyer's ledger.
BudgetKept == subject = "buyer" => BudgetHoldsWhatMoves

\* SessionWithinCap, of the buyer's ledger.
CapKept == subject = "buyer" => SessionWithinCap

\* KeyPaysOnce, of the buyer's ledger.
KeyKept == subject = "buyer" => KeyPaysOnce

\* ServedOnce, of dedupe.ts.
OncePerPayment == subject = "dedupe" => ServedOnce

\* LostIsServable, of dedupe.ts.
LostIsServed == subject = "dedupe" => LostIsServable

\* What makes them so.  No row is less than its transaction's fee and what is
\* counted is within the limits, no right to be served is lost or used twice, no
\* budget is given back for an authorization that can still move money and what
\* can move in a window fits its cap, and readings of the chain are as far apart
\* as it closes.
PartsSound ==
  /\ subject = "budget" => BudgetSound /\ AdmittedWithin
  /\ subject = "dedupe" => DedupeSound
  /\ subject = "buyer" => BuyerSound /\ WindowsWithinCap
  /\ subject = "hold" => ReadingsPaced

-----------------------------------------------------------------------------
TwoAddresses == <<"a", "b">>

SameCaller == [p \in Payments |-> "c1"]

KeyedOrUpto ==
  {[scheme |-> "exact", oneKey |-> TRUE], [scheme |-> "upto", oneKey |-> FALSE]}

\* The first replica's clock is right, any other is behind by the slack.
OthersBehind == [r \in HoldReplicas |-> IF r = 1 THEN 0 ELSE Slack]

\* A state constraint: runs race while readings are honest and the chain is the
\* first one, of two replicas, or early on two of the first replica, one having
\* overrun; after that the first replica is polled alone, in time.
HonestRace ==
  subject = "hold" =>
    LET busy == {p \in Polls : polling[p].at # "none"}
        first == {1} \X PollRuns
    IN  /\ resets + lies > 0 => busy \subseteq first
        /\ \/ \A p \in busy : flight[p[1]] = p[2]
           \/ resets + lies = 0 /\ tick <= 1 /\ busy \subseteq first

\* Wrappers, calls and runs of a poll, differ in nothing but their names.
AlikeClients ==
  Permutations(Wrappers) \cup Permutations(BuyerCalls) \cup Permutations(PollRuns)
================================================================================
