------------------------------ MODULE BuyerBudget ------------------------------
(***************************************************************************)
(* The buyer's spend policy (packages/sdk): every payment reserves budget  *)
(* before it is signed (policy/guard.ts, policy/memory-ledger.ts and       *)
(* policy/ledger.ts), and reservations are settled or released from the    *)
(* chain by reconcile (policy/reconcile.ts), which runs beside the calls   *)
(* (flow/common.ts, flow/http.ts) and beside other runs of itself.  The    *)
(* seller decides whether, when and for how much an authorization is used, *)
(* and what it reports.                                                    *)
(***************************************************************************)
EXTENDS Integers, FiniteSetsExt, Functions

CONSTANTS
  BuyerCalls,   \* the calls that pay
  Terms,        \* schemes to pay under, with one idempotency key or none
  Price,        \* the amount every call reserves
  UptoAmounts,  \* the amounts an upto settlement may move
  SessionCap,   \* the session's total cap
  ValidFor,     \* ledgers an authorization is valid from the reading on
  BuyerEnd,     \* bound on the ledgers
  Retention,    \* how many ledgers an RPC may keep
  Runs,         \* runs of reconcile under way at once
  Lag,          \* how many ledgers a reading may be behind
  EventsLag     \* ledgers that who answers getEvents may be behind who answered
                \* the getHealth before it; none, if one RPC answers both

ASSUME BuyerAssumption ==
  /\ {Price, SessionCap, ValidFor, BuyerEnd, Lag, EventsLag} \subseteq Nat
  /\ Terms \subseteq [scheme : {"exact", "upto"}, oneKey : BOOLEAN]
  /\ Retention \subseteq Nat /\ UptoAmounts \subseteq 0..Price
  /\ IsFiniteSet(BuyerCalls)

VARIABLES
  newest,   \* the newest ledger of the chain
  terms,    \* the scheme the calls pay under, and whether they carry one key
  session,  \* the budget window that is open
  rows,     \* the reservation of each call
  calls,    \* how far each call is, and the ledger it read before signing
  used,     \* where each authorization was used: the ledger and the amount
  runs      \* the runs of reconcile, each at one row

buyerVars == <<newest, terms, session, rows, calls, used, runs>>

Pending == {"reserved", "signed", "transmitted", "unresolved"}
Never == -1

Ledgers == 0..BuyerEnd

NoRow == [state |-> "none", window |-> 0, created |-> 0, settled |-> 0, verified |-> FALSE,
          unprovable |-> FALSE, signedAt |-> 0, hash |-> "none"]

\* hash is the transaction a settlement names: none, the one that used this
\* authorization, or another.
RowType ==
  [state : Pending \cup {"none", "settled", "released"}, window : 0..2, created : Ledgers,
   settled : 0..Price, verified : BOOLEAN, unprovable : BOOLEAN,
   signedAt : Ledgers, hash : {"none", "own", "other"}]

\* checked is the newest ledger of the RPC that answered getHealth, and found
\* whether a transfer of this authorization was among the events.
NoRun == [at |-> "idle", call |-> 0, row |-> NoRow, latest |-> 0, checked |-> 0, found |-> FALSE]

BuyerInit ==
  /\ newest = 0
  /\ terms \in Terms
  /\ session = 1
  /\ rows = [c \in BuyerCalls |-> NoRow]
  /\ calls = [c \in BuyerCalls |-> [at |-> "start", read |-> 0]]
  /\ used = [c \in BuyerCalls |-> [ledger |-> Never, amount |-> 0]]
  /\ runs = [n \in Runs |-> NoRun]

\* What an RPC may answer as the latest ledger.
Readings == {l \in Ledgers : l <= newest /\ l + Lag >= newest}

\* What an RPC holds that answers: every read may be answered by another one.
Rpcs == {[oldest |-> top - keep, newest |-> top] : top \in Readings, keep \in Retention}

Expiration(row) == row.signedAt + ValidFor

\* What a settlement of an authorization may move.
Amounts == IF terms.scheme = "exact" THEN {Price} ELSE UptoAmounts

-----------------------------------------------------------------------------
(* The chain. *)

\* An authorization can be used once it was signed, by whoever has seen it,
\* while it is valid.
Usable(c) ==
  /\ calls[c].at \in {"signed", "sent", "claimed", "over"}
  /\ used[c].ledger = Never /\ newest < Expiration(rows[c])

ClosesEmpty ==
  /\ newest < BuyerEnd
  /\ newest' = newest + 1
  /\ UNCHANGED <<terms, session, rows, calls, used, runs>>

ClosesWith(c, amount) ==
  /\ newest < BuyerEnd /\ Usable(c)
  /\ amount \in Amounts
  /\ newest' = newest + 1
  /\ used' = [used EXCEPT ![c] = [ledger |-> newest + 1, amount |-> amount]]
  /\ UNCHANGED <<terms, session, rows, calls, runs>>

-----------------------------------------------------------------------------
(* The ledger's transitions, on the row of call c. *)

TransitionsTo(c, from, changes) ==
  rows' = IF rows[c].state \in from THEN [rows EXCEPT ![c] = changes] ELSE rows

Signed == {"signed", "transmitted", "unresolved", "settled"}

AddsToRow(c, hash, amount, verified) ==
  TransitionsTo(c, Signed, [rows[c] EXCEPT !.state = "settled", !.settled = @ + amount,
                       !.verified = verified \/ @, !.hash = IF hash = "none" THEN @ ELSE hash])

\* settle: a claim never replaces a settlement the chain confirmed.
SettlesRow(c, hash, amount, verified) ==
  IF rows[c].unprovable \/ (rows[c].verified /\ ~verified)
  THEN UNCHANGED rows
  ELSE TransitionsTo(c, Signed, [rows[c] EXCEPT !.state = "settled", !.settled = amount,
                       !.verified = verified \/ @, !.hash = IF hash = "none" THEN @ ELSE hash])

MarksUnprovable(c) ==
  IF rows[c].verified THEN UNCHANGED rows
  ELSE TransitionsTo(c, Signed, [rows[c] EXCEPT !.state = "settled", !.settled = Price,
                                                !.unprovable = TRUE])

\* release: RELEASE_FROM of the reason.
ReleasesRow(c, from) == TransitionsTo(c, from, [rows[c] EXCEPT !.state = "released"])

\* usage of the open window: what its rows count, and what is not resolved of
\* the rows of earlier windows.
CarriedPending(row) ==
  CASE row.state \in Pending -> Price
    [] row.state = "settled" /\ ~row.verified -> Price - row.settled
    [] OTHER -> 0

UsageOf(row) ==
  CASE row.state \in Pending -> Price
    [] row.state = "settled" -> row.settled + CarriedPending(row)
    [] OTHER -> 0

CountsOpenWindow(c) == rows[c].window = session

\* The rows that count in the open window: its own, and the earlier ones'.
Counts(c) == rows[c].state # "none"

Usage ==
  MapThenSumSet(LAMBDA c : IF rows[c].window = session THEN UsageOf(rows[c])
                           ELSE CarriedPending(rows[c]), {c \in BuyerCalls : Counts(c)})

-----------------------------------------------------------------------------
(* A call. *)

Goes(c, at) == calls' = [calls EXCEPT ![c].at = at]

\* The window's time is over and it renews.
RenewsWindow ==
  /\ session = 1 /\ session' = 2
  /\ UNCHANGED <<newest, terms, rows, calls, used, runs>>

KeyIsFreeInWindow(c) ==
  terms.oneKey =>
    \A o \in BuyerCalls \ {c} :
      rows[o].window = session => rows[o].state \in {"none", "released"}

\* keyReusable of the key's holders in any window, takeKey.
KeyIsFree(c) ==
  terms.oneKey => \A o \in BuyerCalls \ {c} : rows[o].state \in {"none", "released"}

\* The guard has read the ledger, and then decides and reserves in one
\* synchronous step.  A refused call may be tried again.
ReservesBudget(c) ==
  /\ calls[c].at = "start"
  /\ KeyIsFree(c) /\ Usage + Price <= SessionCap
  /\ rows' = [rows EXCEPT ![c] = [NoRow EXCEPT !.state = "reserved", !.window = session,
                                              !.created = newest]]
  /\ \E l \in Readings : calls' = [calls EXCEPT ![c] = [at |-> "signing", read |-> l]]
  /\ UNCHANGED <<newest, terms, session, used, runs>>

\* The wallet signed: markSigned, and only then is the signature handed back.
SignsPayment(c) ==
  /\ calls[c].at = "signing" /\ rows[c].state = "reserved"
  /\ rows' = [rows EXCEPT ![c].state = "signed", ![c].signedAt = calls[c].read,
                          ![c].created = 0]
  /\ calls' = [calls EXCEPT ![c] = [at |-> "signed", read |-> 0]]
  /\ UNCHANGED <<newest, terms, session, used, runs>>

\* The wallet failed, or the reservation was released meanwhile.
FailsSigning(c) ==
  /\ calls[c].at = "signing"
  /\ ReleasesRow(c, {"reserved"})
  /\ Goes(c, "refused")
  /\ UNCHANGED <<newest, terms, session, used, runs>>

\* markSent before the request leaves.
SendsPayment(c) ==
  /\ calls[c].at = "signed"
  /\ TransitionsTo(c, {"signed"}, [rows[c] EXCEPT !.state = "transmitted"])
  /\ Goes(c, "sent")
  /\ UNCHANGED <<newest, terms, session, used, runs>>

\* markUnresolved: the payload could not be built, or the seller rejects the
\* payment, answers something else, or does not answer.
LeavesPending(c) ==
  /\ calls[c].at \in {"signed", "sent"}
  /\ TransitionsTo(c, {"signed", "transmitted"}, [rows[c] EXCEPT !.state = "unresolved"])
  /\ Goes(c, "over")
  /\ UNCHANGED <<newest, terms, session, used, runs>>

\* The seller reports a settlement by some transaction, for some amount.
\* Looking up a transaction that did not use this authorization proves nothing.
ClaimsSettled(c, hash, amount) ==
  /\ calls[c].at = "sent"
  /\ amount \in Amounts
  /\ SettlesRow(c, hash, amount, FALSE)
  /\ Goes(c, IF hash = "own" THEN "claimed" ELSE "over")
  /\ UNCHANGED <<newest, terms, session, used, runs>>

\* An upto payment settled at zero off-chain names no transaction.
ClaimsZero(c) ==
  /\ calls[c].at = "sent" /\ terms.scheme = "upto"
  /\ SettlesRow(c, "none", 0, FALSE)
  /\ Goes(c, "over")
  /\ UNCHANGED <<newest, terms, session, used, runs>>

\* verifyOnChain of the reported transaction, which its attempts may not find.
VerifiesClaim(c) ==
  /\ calls[c].at = "claimed"
  /\ \/ used[c].ledger # Never /\ SettlesRow(c, "own", used[c].amount, TRUE)
     \/ UNCHANGED rows
  /\ Goes(c, "over")
  /\ UNCHANGED <<newest, terms, session, used, runs>>

\* The buyer's process dies; the ledger and what was handed out remain.
BuyerDies(c) ==
  /\ calls[c].at \in {"signing", "signed", "sent", "claimed"}
  /\ Goes(c, IF calls[c].at = "signing" THEN "refused" ELSE "over")
  /\ UNCHANGED <<newest, terms, session, rows, used, runs>>

-----------------------------------------------------------------------------
(* reconcile, one row of a run at a time. *)

Unfinished(row) ==
  \/ row.state \in Pending
  \/ row.state = "settled" /\ ~row.verified /\ ~row.unprovable

\* Older than the longest authorization window.
Abandoned(row) == newest > row.created + ValidFor

ReleasesAbandoned(c) ==
  /\ rows[c].state = "reserved" /\ Abandoned(rows[c])
  /\ ReleasesRow(c, {"reserved"})
  /\ UNCHANGED <<newest, terms, session, calls, used, runs>>

\* The run's snapshot of a row, from before it awaits anything.
TakesRow(n, c) ==
  /\ runs[n].at = "idle"
  /\ Unfinished(rows[c]) /\ rows[c].state # "reserved"
  /\ runs' = [runs EXCEPT ![n] = [NoRun EXCEPT !.at = "latest", !.call = c, !.row = rows[c]]]
  /\ UNCHANGED <<newest, terms, session, rows, calls, used>>

Reconciles == UNCHANGED <<newest, terms, session, calls, used>>

Expired(row, latest) == latest > Expiration(row)

\* latestLedger, and what needs no proof: the row waits, or its authorization
\* was signed in a ledger that this RPC does not have.
ReadsLatest(n) ==
  /\ runs[n].at = "latest" /\ Reconciles
  /\ \E l \in Readings :
       LET c == runs[n].call
           row == runs[n].row
           waits == ~Expired(row, l) /\ (row.state # "unresolved" \/ l < row.signedAt)
       IN IF waits
          THEN runs' = [runs EXCEPT ![n] = NoRun] /\ UNCHANGED rows
          ELSE /\ IF Expired(row, l) /\ row.state \in {"signed", "transmitted"}
                  THEN TransitionsTo(c, {"signed", "transmitted"},
                                     [rows[c] EXCEPT !.state = "unresolved"])
                  ELSE UNCHANGED rows
               /\ runs' = [runs EXCEPT ![n].at = "range", ![n].latest = l]

Least(a, b) == IF a < b THEN a ELSE b

\* The ledgers that the proof is about: from the one the authorization was signed
\* at to its expiration, as far as the run has read.
EndOf(n) == Least(Expiration(runs[n].row), runs[n].latest)

NeverBehind(n, rpc) == FALSE

OutOfRange(n, rpc) == runs[n].row.signedAt < rpc.oldest
NotIngested(n, rpc) == EndOf(n) > rpc.newest

\* getHealth: whether an RPC holds these ledgers, and no longer or not yet.
ChecksRange(n) ==
  /\ runs[n].at = "range" /\ Reconciles
  /\ \E rpc \in Rpcs :
       \/ /\ OutOfRange(n, rpc)
          /\ IF Expired(runs[n].row, runs[n].latest) THEN MarksUnprovable(runs[n].call)
             ELSE UNCHANGED rows
          /\ runs' = [runs EXCEPT ![n] = NoRun]
       \/ /\ ~OutOfRange(n, rpc) /\ NotIngested(n, rpc)
          /\ UNCHANGED rows /\ runs' = [runs EXCEPT ![n] = NoRun]
       \/ /\ ~OutOfRange(n, rpc) /\ ~NotIngested(n, rpc)
          /\ UNCHANGED rows
          /\ runs' = [runs EXCEPT ![n].at = "events", ![n].checked = rpc.newest]

\* The transfers that an RPC has indexed hold this authorization's.
Indexed(n, rpc) ==
  LET use == used[runs[n].call]
  IN use.amount > 0 /\ use.ledger \in runs[n].row.signedAt..EndOf(n) /\ use.ledger <= rpc.newest

\* getEvents, of the whole range: the RPC that answers holds the start of it, and
\* returns what it has, however far it is.
ReadsEvents(n) ==
  /\ runs[n].at = "events" /\ Reconciles /\ UNCHANGED rows
  /\ \E rpc \in Rpcs :
       /\ runs[n].row.signedAt \in rpc.oldest..rpc.newest
       /\ rpc.newest + EventsLag >= runs[n].checked
       /\ runs' = [runs EXCEPT ![n].at = "lookup", ![n].checked = 0, ![n].found = Indexed(n, rpc)]

\* What the switch of reconcile does with the proof that nothing used it.
Absent(c, row, expired) ==
  CASE ~expired -> UNCHANGED rows
    [] expired /\ row.state = "settled" /\ terms.scheme = "upto" /\ row.settled = 0 ->
         SettlesRow(c, "none", 0, TRUE)
    [] OTHER -> ReleasesRow(c, IF row.state = "settled" THEN {"settled"}
                               ELSE {"signed", "transmitted", "unresolved"})

\* getTransaction of the reported and the found hashes: the one that used this
\* authorization is returned, or no other did and it was not found, so that a
\* lookup may miss it.
LooksUp(n) ==
  /\ runs[n].at = "lookup" /\ Reconciles
  /\ runs' = [runs EXCEPT ![n] = NoRun]
  /\ LET c == runs[n].call
         row == runs[n].row
     IN \/ /\ runs[n].found \/ row.hash = "own"
           /\ used[c].ledger # Never /\ SettlesRow(c, "own", used[c].amount, TRUE)
        \/ ~runs[n].found /\ Absent(c, row, Expired(row, runs[n].latest))

\* A read fails, a found transaction is missing or cannot be read, or the process
\* dies: the row is left for a later run.
GivesUp(n) ==
  /\ runs[n].at # "idle" /\ Reconciles /\ UNCHANGED rows
  /\ runs' = [runs EXCEPT ![n] = NoRun]

-----------------------------------------------------------------------------
CallSteps(c) ==
  \/ ReservesBudget(c) \/ SignsPayment(c) \/ FailsSigning(c)
  \/ SendsPayment(c) \/ LeavesPending(c) \/ ClaimsZero(c) \/ VerifiesClaim(c) \/ BuyerDies(c)
  \/ \E hash \in {"own", "other"}, amount \in 0..Price : ClaimsSettled(c, hash, amount)

BuyerNext ==
  \/ ClosesEmpty
  \/ RenewsWindow
  \/ \E c \in BuyerCalls :
       \/ CallSteps(c)
       \/ ReleasesAbandoned(c)
       \/ \E amount \in 0..Price : ClosesWith(c, amount)
       \/ \E n \in Runs : TakesRow(n, c)
  \/ \E n \in Runs :
       ReadsLatest(n) \/ ChecksRange(n) \/ ReadsEvents(n) \/ LooksUp(n) \/ GivesUp(n)

BuyerSpec == BuyerInit /\ [][BuyerNext]_buyerVars

-----------------------------------------------------------------------------
BuyerTypeOK ==
  /\ newest \in Ledgers /\ session \in 1..2
  /\ rows \in [BuyerCalls -> RowType]
  /\ used \in [BuyerCalls -> [ledger : Ledgers \cup {Never}, amount : 0..Price]]

\* What an authorization moved, or still can.
MayMove(c) == IF Usable(c) THEN Price ELSE used[c].amount

\* The budget of an authorization that moved money, or still can, never
\* returns, and no report and no stale row of a run lowers it below what the
\* chain moved: reconcile beside the call, other runs and a lying seller.
BudgetHoldsWhatMoves == \A c \in BuyerCalls : UsageOf(rows[c]) >= MayMove(c)

\* What the authorizations of a window move never exceeds the session's cap,
\* together with what earlier windows' authorizations can still move and no
\* report counted as spent there.
SessionWithinCap ==
  \A w \in 1..session :
    MapThenSumSet(LAMBDA c : IF rows[c].window = w THEN MayMove(c)
                             ELSE IF Usable(c) /\ rows[c].window < w
                                  THEN Price - rows[c].settled ELSE 0, BuyerCalls) <= SessionCap

\* A released row's authorization moved nothing (reconcile.ts says that budget is
\* released only when no signature exists or the chain shows that an expired
\* authorization was never used).
ReleasedMovedNothing == \A c \in BuyerCalls : rows[c].state = "released" => used[c].amount = 0

\* The calls that carry one idempotency key move money at most once.
KeyPaysOnce ==
  terms.oneKey => \A c, o \in BuyerCalls : used[c].amount > 0 /\ MayMove(o) > 0 => c = o
-----------------------------------------------------------------------------
(* Why BudgetHoldsWhatMoves and KeyPaysOnce hold.                            *)

HandedOut == {"signed", "sent", "claimed", "over"}

\* A call, its row and its authorization: money moves only once the signature
\* was handed out, within its validity, and a row is given back, or counts less
\* than the price for good, only once its authorization can no longer be used
\* and, if the events are not read behind the check of their range, moved no
\* more than that.
CallFits(c) ==
  LET row == rows[c]
  IN  /\ calls[c].read <= newest /\ row.signedAt <= newest
      /\ row.state = "none" <=> calls[c].at = "start"
      /\ calls[c].at \in {"signing", "refused"} => row.state \in {"reserved", "released"}
      /\ row.state = "reserved" => calls[c].at \in {"signing", "refused"}
      /\ used[c].ledger = Never => used[c].amount = 0
      /\ used[c].ledger # Never =>
           /\ calls[c].at \in HandedOut
           /\ used[c].ledger \in row.signedAt..newest /\ used[c].ledger <= Expiration(row)
      /\ row.state = "released" => ~Usable(c) /\ (EventsLag = 0 => used[c].amount = 0)
      /\ row.state = "settled" /\ row.verified =>
           ~Usable(c) /\ (EventsLag = 0 => used[c].amount <= row.settled)

\* A run's snapshot may be old, but not in what was signed; it looks up nothing
\* of an expired authorization only if that moved nothing.
RunFits(n) ==
  runs[n].at # "idle" =>
    /\ runs[n].call \in BuyerCalls /\ calls[runs[n].call].at \in HandedOut
    /\ runs[n].row.signedAt = rows[runs[n].call].signedAt
    /\ runs[n].latest <= newest
    /\ runs[n].at = "events" => EndOf(n) <= runs[n].checked
    /\ runs[n].at = "lookup" /\ ~runs[n].found /\ Expired(runs[n].row, runs[n].latest)
       /\ EventsLag = 0 => used[runs[n].call].amount = 0

\* One key is taken by one call, in whatever window.
KeyAlone ==
  terms.oneKey =>
    \A c, o \in BuyerCalls :
      rows[c].state \in {"none", "released"} \/ rows[o].state \in {"none", "released"} \/ c = o

BuyerSound ==
  /\ BuyerTypeOK
  /\ terms \in Terms
  /\ calls \in [BuyerCalls -> [at : HandedOut \cup {"start", "signing", "refused"}, read : Ledgers]]
  /\ runs \in [Runs -> [at : {"idle", "latest", "range", "events", "lookup"},
                        call : BuyerCalls \cup {0}, row : RowType, latest : Ledgers,
                        checked : Ledgers, found : BOOLEAN]]
  /\ \A c \in BuyerCalls : CallFits(c)
  /\ \A n \in Runs : RunFits(n)
  /\ KeyAlone
-----------------------------------------------------------------------------
(* Why SessionWithinCap holds.                                               *)

\* What a call's authorization moved, or can once it is signed.
CouldMove(c) == Usable(c) \/ rows[c].state = "reserved"

\* What the row of c takes of the cap of window w.
Takes(c, w) ==
  IF rows[c].window = w THEN IF CouldMove(c) THEN Price ELSE used[c].amount
  ELSE IF CouldMove(c) /\ rows[c].window < w THEN Price - rows[c].settled ELSE 0

\* What may move in a window, or be signed yet, stays within the cap, and no
\* report lowers what a row of an earlier window counted as settled while its
\* authorization can be used.
WindowsWithinCap ==
  /\ \A w \in 1..session : MapThenSumSet(LAMBDA c : Takes(c, w), BuyerCalls) <= SessionCap
  /\ \A c \in BuyerCalls :
       /\ rows[c].window <= session
       /\ CouldMove(c) /\ calls[c].at \notin {"claimed", "over"} => rows[c].settled = 0
================================================================================
