------------------------------- MODULE FeeBudget -------------------------------
(***************************************************************************)
(* What the sponsor may spend: settlement claims and the upto keeper's     *)
(* transactions are admitted against hourly and daily limits under one     *)
(* advisory lock per network (claim and reserveSponsorSpend of             *)
(* settlement-ledger.ts, SponsorBudget of guard.ts, act of upto-keeper.ts  *)
(* over run of contract-ttl.ts), and what each holds is corrected later.   *)
(***************************************************************************)
EXTENDS Integers, FiniteSetsExt

CONSTANTS
  Payments,       \* one settlement each, numbered after the rounds
  Callers, CallerOf,
  Rounds,         \* the keeper's rounds, 1..n
  NetworkCap,     \* maxSpendPerHourStroops
  CallerCap,      \* each caller's hourly budget
  DailyCap,       \* the keeper's
  Reserve,        \* what a settlement reserves
  Ceiling,        \* what the keeper reserves
  Hour, Day,      \* the windows, in ticks
  LastTick        \* bound on the clock

ASSUME BudgetAssumption ==
  /\ CallerOf \in [Payments -> Callers]
  /\ Payments \cup Rounds \subseteq Nat \ {0} /\ Payments \cap Rounds = {}
  /\ IsFiniteSet(Payments \cup Rounds)
  /\ {NetworkCap, CallerCap, DailyCap, Reserve, Ceiling, Hour, Day, LastTick}
       \subseteq Nat

VARIABLES
  clock,
  holder,   \* who holds the advisory lock, None when free
  asks,     \* the admission of a payment or of the keeper: where it is
  claims,   \* the settlements table
  spends,   \* the sponsor_spend table
  bumps,    \* what may become of each signed transaction, and what became
  round,    \* the keeper's round and its step
  owned     \* the claims whose owner is alive

budgetVars == <<clock, holder, asks, claims, spends, bumps, round, owned>>

None == -1
Keeper == 0
Unknown == -1

Fee == 0..(Reserve + Ceiling)

NoClaim == [state |-> "none", created |-> 0, max |-> 0, charged |-> Unknown]
NoSpend == [booked |-> FALSE, created |-> 0, fee |-> 0]
Unsigned == [fate |-> "unsigned", max |-> 0, fee |-> 0]
Idle == [at |-> "idle", started |-> 0]

BudgetTypeOK ==
  /\ clock \in 0..LastTick
  /\ holder \in Payments \cup {Keeper, None}
  /\ asks \in [Payments \cup {Keeper} ->
       [at : {"idle", "begun", "locked", "checked"}, started : 0..LastTick]]
  /\ claims \in [Payments ->
       [state : {"none", "claimed", "submitted", "succeeded", "failed", "expired"},
        created : 0..LastTick, max : Fee, charged : Fee \cup {Unknown}]]
  /\ spends \in [Rounds -> [booked : BOOLEAN, created : 0..LastTick, fee : Fee]]
  /\ bumps \in [Payments \cup Rounds ->
       [fate : {"unsigned", "may", "charged", "dead"}, max : Fee, fee : Fee]]
  /\ round.no \in Rounds \cup {0}
  /\ round.at \in {"idle", "run", "sent", "correct"}
  /\ owned \subseteq Payments

BudgetInit ==
  /\ clock = 0
  /\ holder = None
  /\ asks = [a \in Payments \cup {Keeper} |-> Idle]
  /\ claims = [p \in Payments |-> NoClaim]
  /\ spends = [r \in Rounds |-> NoSpend]
  /\ bumps = [x \in Payments \cup Rounds |-> Unsigned]
  /\ round = [no |-> 0, at |-> "idle", fee |-> Unknown]
  /\ owned = {}

-----------------------------------------------------------------------------
(* What counts as committed.                                                 *)

\* committedIn, one row: a claim its reservation, an envelope its maximum, a
\* finished settlement its charge, nothing when it expired, else its maximum.
Counted(p) ==
  LET c == claims[p]
      most == IF c.max # 0 THEN c.max ELSE Reserve
  IN  CASE c.state = "none" -> 0
        [] c.state \in {"claimed", "submitted"} -> most
        [] OTHER -> IF c.charged # Unknown THEN c.charged
                    ELSE IF c.state = "expired" THEN 0 ELSE most

CommittedIn(payments, since) ==
  MapThenSumSet(Counted, {p \in payments : claims[p].created >= since})
SpendIn(since) ==
  MapThenSumSet(LAMBDA r : spends[r].fee, {r \in Rounds : spends[r].created >= since})

OfCaller(c) == {p \in Payments : CallerOf[p] = c}
NetworkCommitted(since) == CommittedIn(Payments, since) + SpendIn(since)

Fits(p, since) ==
  /\ NetworkCommitted(since) + Reserve <= NetworkCap
  /\ CommittedIn(OfCaller(CallerOf[p]), since) + Reserve <= CallerCap

KeeperFits(since) ==
  /\ SpendIn(since + Hour - Day) + Ceiling <= DailyCap
  /\ NetworkCommitted(since) + Ceiling <= NetworkCap

-----------------------------------------------------------------------------
(* An admission: limits, the transaction, its lock, the check and the insert.*)

Moves(a, at) == asks' = [asks EXCEPT ![a].at = at]

\* admit looks at the budget without the lock; limits sets where the window
\* starts; now() is the start of the transaction.  A window set before that
\* start would only be wider.
AsksForClaim(p) ==
  /\ asks[p].at = "idle"
  /\ claims[p].state = "none" \/ (claims[p].state = "claimed" /\ p \notin owned)
  /\ NetworkCommitted(clock - Hour) < NetworkCap
  /\ asks' = [asks EXCEPT ![p] = [at |-> "begun", started |-> clock]]
  /\ UNCHANGED <<clock, holder, claims, spends, bumps, round, owned>>

\* Mutant: the lock is not waited for.
Overtakes(a) ==
  /\ asks[a].at = "begun"
  /\ holder' = a
  /\ Moves(a, "locked")
  /\ UNCHANGED <<clock, claims, spends, bumps, round, owned>>

Locks(a) ==
  /\ asks[a].at = "begun" /\ holder = None
  /\ holder' = a
  /\ Moves(a, "locked")
  /\ UNCHANGED <<clock, claims, spends, bumps, round, owned>>

\* The limits are checked on the rows committed so far.
Checks(a) ==
  /\ asks[a].at = "locked"
  /\ IF a = Keeper THEN KeeperFits(asks[a].started - Hour)
     ELSE claims[a].state = "none" /\ Fits(a, asks[a].started - Hour)
  /\ Moves(a, "checked")
  /\ UNCHANGED <<clock, holder, claims, spends, bumps, round, owned>>

\* Others see the row, and get the lock, once the transaction commits.
Commits(a) ==
  /\ asks' = [asks EXCEPT ![a] = Idle]
  /\ holder' = None

Inserts(p) ==
  /\ asks[p].at = "checked"
  /\ claims' = [claims EXCEPT ![p] =
       [NoClaim EXCEPT !.state = "claimed", !.created = asks[p].started]]
  /\ owned' = owned \cup {p}
  /\ Commits(p)
  /\ UNCHANGED <<clock, spends, bumps, round>>

\* A repeat takes a stale claim over; the row keeps its time and reservation.
TakesOver(p) ==
  /\ asks[p].at = "locked" /\ claims[p].state = "claimed"
  /\ owned' = owned \cup {p}
  /\ Commits(p)
  /\ UNCHANGED <<clock, claims, spends, bumps, round>>

\* ClaimRefusedError, SpendRefusedError, or the connection is lost: the
\* transaction rolls back.
RollsBack(a) ==
  /\ asks[a].at # "idle"
  /\ asks' = [asks EXCEPT ![a] = Idle]
  /\ holder' = IF holder = a THEN None ELSE holder
  /\ UNCHANGED <<clock, claims, spends, bumps, round, owned>>

-----------------------------------------------------------------------------
(* A settlement's fee bump and its end.                                      *)

Live(p) == claims[p].state = "claimed" /\ p \in owned

\* A fee bump above the reservation is not signed; a signed one is recorded.
Signs(p) ==
  /\ Live(p)
  /\ \E max \in 1..Reserve :
       /\ claims' = [claims EXCEPT ![p].state = "submitted", ![p].max = max]
       /\ bumps' = [bumps EXCEPT ![p] = [fate |-> "may", max |-> max, fee |-> 0]]
  /\ owned' = owned \ {p}
  /\ UNCHANGED <<clock, holder, asks, spends, round>>

Abandons(p) ==
  /\ Live(p)
  /\ claims' = [claims EXCEPT ![p] = NoClaim]
  /\ owned' = owned \ {p}
  /\ UNCHANGED <<clock, holder, asks, spends, bumps, round>>

OwnerDies(p) ==
  /\ Live(p)
  /\ owned' = owned \ {p}
  /\ UNCHANGED <<clock, holder, asks, claims, spends, bumps, round>>

\* The network includes a transaction and charges for it.
Lands(x) ==
  /\ bumps[x].fate = "may"
  /\ \E fee \in 1..bumps[x].max :
       bumps' = [bumps EXCEPT ![x].fate = "charged", ![x].fee = fee]
  /\ UNCHANGED <<clock, holder, asks, claims, spends, round, owned>>

\* finish: the charge is known or not; expired and refused settlements are
\* known never to have been included (Confirmation); another party's
\* transaction may have settled the payment.
Finishes(p) ==
  /\ claims[p].state = "submitted"
  /\ \/ /\ bumps[p].fate = "charged"
        /\ \E state \in {"succeeded", "failed"}, known \in BOOLEAN :
             claims' = [claims EXCEPT ![p].state = state,
               ![p].charged = IF known THEN bumps[p].fee ELSE Unknown]
        /\ UNCHANGED bumps
     \/ /\ bumps[p].fate = "may"
        /\ \E end \in {<<"expired", Unknown>>, <<"failed", 0>>, <<"succeeded", Unknown>>} :
             claims' = [claims EXCEPT ![p].state = end[1], ![p].charged = end[2]]
        /\ bumps' = [bumps EXCEPT ![p].fate = "dead"]
  /\ UNCHANGED <<clock, holder, asks, spends, round, owned>>

-----------------------------------------------------------------------------
(* The keeper: reserve, run, correct.                                        *)

KeeperAsks ==
  /\ round.at = "idle" /\ asks[Keeper].at = "idle" /\ round.no + 1 \in Rounds
  /\ asks' = [asks EXCEPT ![Keeper] =
       [at |-> "begun", started |-> clock]]
  /\ UNCHANGED <<clock, holder, claims, spends, bumps, round, owned>>

KeeperReserves ==
  /\ asks[Keeper].at = "checked"
  /\ round' = [no |-> round.no + 1, at |-> "run", fee |-> Unknown]
  /\ spends' = [spends EXCEPT ![round.no + 1] =
       [booked |-> TRUE, created |-> asks[Keeper].started, fee |-> Ceiling]]
  /\ Commits(Keeper)
  /\ UNCHANGED <<clock, claims, bumps, owned>>

\* run: it does not simulate, or would cost too much, or the network does not
\* take it: nothing was submitted.
NotSubmitted ==
  /\ round.at = "run"
  /\ round' = [round EXCEPT !.at = "correct", !.fee = 0]
  /\ UNCHANGED <<clock, holder, asks, claims, spends, bumps, owned>>

Submits ==
  /\ round.at = "run"
  /\ bumps' = [bumps EXCEPT ![round.no] = [fate |-> "may", max |-> Ceiling, fee |-> 0]]
  /\ round' = [round EXCEPT !.at = "sent"]
  /\ UNCHANGED <<clock, holder, asks, claims, spends, owned>>

\* Mutant: an outcome that is not known counts as never submitted.
TakesUnknownForNone ==
  /\ round.at = "sent"
  /\ round' = [round EXCEPT !.at = "correct",
       !.fee = IF bumps[round.no].fate = "charged" THEN bumps[round.no].fee ELSE 0]
  /\ UNCHANGED <<clock, holder, asks, claims, spends, bumps, owned>>

\* The poll, or settleFailed's lookup, tells what was charged; otherwise the
\* ceiling stays counted.
LearnsCharge ==
  /\ round.at = "sent"
  /\ \/ /\ bumps[round.no].fate = "charged"
        /\ round' = [round EXCEPT !.at = "correct", !.fee = bumps[round.no].fee]
     \/ round' = [round EXCEPT !.at = "idle", !.fee = Unknown]
  /\ UNCHANGED <<clock, holder, asks, claims, spends, bumps, owned>>

\* settleSponsorSpend, which may fail.
Corrects ==
  /\ round.at = "correct"
  /\ round' = [round EXCEPT !.at = "idle", !.fee = Unknown]
  /\ \/ spends' = [spends EXCEPT ![round.no].fee = round.fee]
     \/ UNCHANGED spends
  /\ UNCHANGED <<clock, holder, asks, claims, bumps, owned>>

KeeperDies ==
  /\ round.at # "idle"
  /\ round' = [round EXCEPT !.at = "idle", !.fee = Unknown]
  /\ UNCHANGED <<clock, holder, asks, claims, spends, bumps, owned>>

Ticks ==
  /\ clock < LastTick
  /\ clock' = clock + 1
  /\ UNCHANGED <<holder, asks, claims, spends, bumps, round, owned>>

BudgetNext ==
  \/ \E a \in Payments \cup {Keeper} : Locks(a) \/ Checks(a) \/ RollsBack(a)
  \/ \E p \in Payments :
       \/ AsksForClaim(p) \/ Inserts(p) \/ TakesOver(p)
       \/ Signs(p) \/ Abandons(p) \/ OwnerDies(p) \/ Finishes(p)
  \/ \E x \in Payments \cup Rounds : Lands(x)
  \/ KeeperAsks \/ KeeperReserves \/ NotSubmitted \/ Submits
  \/ LearnsCharge \/ Corrects \/ KeeperDies
  \/ Ticks

BudgetSpec == BudgetInit /\ [][BudgetNext]_budgetVars

-----------------------------------------------------------------------------
(* Properties.                                                               *)

\* The most the sponsor paid or may still pay for a settlement or a round.
Exposure(x) ==
  IF x \in Payments /\ claims[x].state = "claimed" THEN Reserve
  ELSE CASE bumps[x].fate = "may" -> bumps[x].max
         [] bumps[x].fate = "charged" -> bumps[x].fee
         [] OTHER -> 0

\* What the ledger counts is never less than what the sponsor paid or may still
\* pay, whatever answer was lost (committedIn, settleFailed, correct).
CountsExposure ==
  /\ \A p \in Payments : Exposure(p) <= Counted(p)
  /\ \A r \in Rounds : Exposure(r) <= spends[r].fee

\* What was begun within any hour never costs more than the network's budget,
\* nor a caller's settlements more than the caller's, nor the keeper's rounds
\* of a day more than theirs, whoever is admitted at once (claim,
\* reserveSponsorSpend).
SpendWithinBudget ==
  LET recent(S, since) == {p \in S : claims[p].created >= since}
      rounds(since) == {r \in Rounds : spends[r].created >= since}
  IN  /\ MapThenSumSet(Exposure, recent(Payments, clock - Hour)
                                 \cup rounds(clock - Hour)) <= NetworkCap
      /\ \A c \in Callers :
           MapThenSumSet(Exposure, recent(OfCaller(c), clock - Hour)) <= CallerCap
      /\ MapThenSumSet(Exposure, rounds(clock - Day)) <= DailyCap
-----------------------------------------------------------------------------
(* Why CountsExposure holds.                                                 *)

\* A settlement's row and its fee bump go together: nothing is signed before
\* the envelope, which sets the row's maximum, and a finished settlement can
\* cost no more than it did.  A claim that was checked is still to be made.
ClaimFits(p) ==
  LET c == claims[p]
      b == bumps[p]
  IN  /\ asks[p].at = "checked" => c.state = "none"
      /\ c.state \in {"none", "claimed"} => b.fate = "unsigned" /\ c.max = 0
      /\ c.state \in {"none", "claimed", "submitted"} => c.charged = Unknown
      /\ c.state = "submitted" => b.fate \in {"may", "charged"}
      /\ c.state \in {"succeeded", "failed", "expired"} => b.fate \in {"charged", "dead"}
      /\ b.fate \in {"may", "charged"} => c.max = b.max /\ b.max \in 1..Reserve
      /\ b.fate = "charged" =>
           b.fee <= b.max /\ c.state # "expired" /\ c.charged \in {b.fee, Unknown}

\* A round's reservation holds until it is known what was charged.
RoundFits(r) ==
  LET b == bumps[r]
      mine == round.no = r
  IN  /\ b.fate # "dead" /\ (b.fate = "may" => b.max = Ceiling)
      /\ b.fate = "charged" => b.fee <= Ceiling
      /\ b.fate = "may" \/ (mine /\ round.at # "idle") => spends[r].fee = Ceiling
      /\ b.fate = "charged" => b.fee <= spends[r].fee
      /\ r > round.no \/ (mine /\ round.at = "run") => b.fate = "unsigned"
      /\ mine /\ round.at = "sent" => b.fate \in {"may", "charged"}
      /\ mine /\ round.at = "correct" =>
           \/ b.fate = "unsigned" /\ round.fee = 0
           \/ b.fate = "charged" /\ round.fee = b.fee

BudgetSound ==
  /\ BudgetTypeOK
  /\ round \in [no : Rounds \cup {0}, at : {"idle", "run", "sent", "correct"},
                fee : Fee \cup {Unknown}]
  /\ round.at # "idle" => round.no \in Rounds
  /\ asks[Keeper].at # "idle" => round.at = "idle" /\ round.no + 1 \in Rounds
  /\ \A p \in Payments : ClaimFits(p)
  /\ \A r \in Rounds : RoundFits(r)
-----------------------------------------------------------------------------
(* Why SpendWithinBudget holds.                                              *)

\* One admission at a time is checked on the rows, and what it was checked on
\* still fits: until it ends no other adds to the counts.
AdmittedAlone ==
  \A a \in Payments \cup {Keeper} :
    /\ asks[a].started <= clock
    /\ asks[a].at \in {"locked", "checked"} => holder = a
    /\ asks[a].at = "checked" =>
         IF a = Keeper THEN KeeperFits(asks[a].started - Hour)
         ELSE Fits(a, asks[a].started - Hour)

\* What is counted of what was begun in the last hour, or day, is within the
\* limits.
CountsWithinBudget ==
  /\ NetworkCommitted(clock - Hour) <= NetworkCap
  /\ \A c \in Callers : CommittedIn(OfCaller(c), clock - Hour) <= CallerCap
  /\ SpendIn(clock - Day) <= DailyCap

AdmittedWithin == AdmittedAlone /\ CountsWithinBudget
=============================================================================
