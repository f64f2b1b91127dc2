# Rail402 in TLA+

Rail402 is an x402 facilitator for Stellar: sellers ask it to settle signed payments, and it pays the
network fees, submits the transactions and answers for their outcome. This directory holds TLA+ modules
of its settlement core and of the parts around it that keep money safe, TLC configurations that check them
on small instances and TLAPS proofs about them for every instance.

## The system

| Part | State | Operations | Talks to |
|---|---|---|---|
| Settlement engine (`packages/facilitator/src/engine.ts`) | per request: owner token, leased channel, signing window; per process: `driving`, `undecidedSince` | `execute`, `runClaimed`, `runOffchain`, `drive`, `reconcile`, `complete`, `giveBackChannel` | ledger, channel pool, Stellar RPC, the schemes |
| Settlement ledger (`packages/store-postgres/src/settlement-ledger.ts`, in memory: `facilitator/src/memory-ledger.ts`) | one row per (network, payer, nonce): state, owner, envelope, sends, `channel_released`, fees | `claim`, `recordEnvelope`, `beginSend`, `endSend`, `releaseChannel`, `finish`, `abandon`, `unfinished` | Postgres, shared by every replica |
| Channel pool (`store-postgres/src/channel-pool.ts`, in memory: `facilitator/src/channels.ts`) | per channel account: lease, lease expiry, quarantine, `quarantine_sequence` | `acquire`, `release`, `quarantine`, `takeQuarantineSequence` | Postgres; reads the ledger's open settlements |
| Confirmation proofs (`engine.ts` `landing`, `finishFailed`, `sequenceTaken`; `third-party.ts`) | none: decided from reads | own hash, inner hash, nonce, channel account, third-party search | several RPCs at different ledgers |
| Fee budget (`guard.ts`, `claim`'s limits, `reserveSponsorSpend`, `upto-keeper.ts`) | committed fees in a sliding hour, the keeper's in a day | admit, reserve, correct | ledger, under one advisory lock per network |
| RPC pool (`rpc-pool.ts`) | active provider, good and bad readings in a row | `pin`, `observe` | health polls |
| Restore hold (`restore-hold.ts`) | anchor ledger, the last low reading | `recordRestoreHold` | ledger, one provider |
| Schemes and verification (`scheme.ts`, `upto-scheme.ts`, `packages/upto`) | none | verify, settle | engine, upstream mechanism |
| upto contract (`contracts/stellar/upto`) | none of its own; the host's nonces, the token's allowances | `settle` | token contract |
| Service (`apps/rail402`) | timers, single flight, rate limits, upto keeper | HTTP routes, periodic tasks, shutdown | everything above |
| Buyer SDK (`packages/sdk/src/policy`) | reservations and their states | `reserve`, `markSigned`, `settle`, `release`, `reconcile` | facilitator, chain |
| Seller SDK (`packages/sdk/src/seller`) | unfinished attempts, remembered hashes | `withSettleDedupe` | facilitator |
| Bazaar catalog, search, index, ledger source, safe fetch | catalog rows, probes | catalog and search API | Postgres, the web |
| Explorer, playground, MCP server, CLI, demo seller | ingester checkpoints; relay slots and byte budgets | presentation and front ends | the APIs above |

How a settlement runs: `execute` claims the row of the payment's key (a repeat of the same request waits
for it, another request for the same key is refused), `runClaimed` leases a channel account and lets the
scheme build a transaction with the channel's next sequence number. The scheme asks the recording sponsor
signer for the fee bump; the signer writes the signed envelope into the row before it returns it, and
only then can it be sent. From then on the row is what counts: the request drives it for a while and
answers `settlement_pending` if it takes longer, and the reconciler of any replica drives it after that.
The driver that finishes the row, or the one that marks that its bytes can never apply, gives the
channel back.

What is hard about it: requests, repeats, upstream submissions that outlive their request and reconcilers
of several replicas interleave at every `await`; claims and leases expire while their holder is still at
work; answers of sends and writes get lost; processes die anywhere; channel accounts may be used by
someone else; and a wrong conclusion either pays twice, tells a client a lie or breaks another payment's
sequence number.

What makes each part correct:

- engine, ledger and pool: one recorded transaction per payment; a verdict is the network's; no channel
  serves two settlements whose bytes may apply; everything is decided in the end and every channel comes
  back.
- confirmation proofs: a payment answered failed or expired never moves, one answered settled did, and
  every settlement is decided, from whatever ledgers the reads come.
- fee budget: what may be charged is always counted, and never exceeds a cap, whoever is admitted at once.
- in-process pool: no channel is lost or handed to two callers, and nobody waits beside a free one.
- RPC pool: no switch away without cause; it ends at a provider that works, the first one if that does.
- restore hold: an authorization accepted before a restore is never settled on chain again after it.
- buyer's ledger: budget is free only when the authorization that held it can no longer be used.
- seller's dedupe: a payment is served once, and a pending one can still be served.
- upto contract: at most `max_amount` moves, once, inside the validity window (not modelled).

## Modules

| Module | Models |
|---|---|
| `SettlementLedger` | a row and every statement on it; one operator per SQL statement |
| `ChannelPool` | the channels table, `EXTENDS SettlementLedger` because `tryAcquire` reads open settlements |
| `SettlementEngine` | requests, submissions, drivers, network, clocks and crashes, over the two; the properties and the inductive invariant |
| `Payment` | the abstract specification: what a facilitator promises about a payment |
| `SettlementRefinement` | the mapping under which the engine implements `Payment` |
| `MCSettlement` | constants for TLC |
| `SettlementInvariants` | the further inductive invariants of the engine: ownership, fate, sends, channels |
| `SettlementEngineProofs` | proofs: types, `IndInv`, one transaction per key |
| `SettlementSteps` | proofs: what each action and each statement changes, for the two modules below |
| `SettlementSafetyProofs` | proofs: ownership and answers, verdicts, given-back channels, sends |
| `SettlementChannelProofs` | proofs: channels and sequence numbers, the refinement of `Payment` |
| `Confirmation` | one recorded settlement and its driver, read by read: what `SettlementEngine` takes for granted |
| `RpcPool` | which of a network's RPC providers is active |
| `ChainReadsProofs` | proofs about `Confirmation` and `RpcPool` |
| `FeeBudget` | claims and the keeper's rounds against the sponsor's caps |
| `MemoryPool` | the in-process channel pool |
| `RestoreHold`, `RestoreHoldProofs` | the hold on `upto` settlements after a restore, and the poll that starts it; its proof |
| `BuyerBudget` | the buyer's reservations, calls and reconciler |
| `SellerDedupe` | the seller's settle wrapper against the facilitator's repeats |
| `BudgetProofs` | proofs about the two budgets, and what they need to know of sums |
| `PartsProofs` | proofs about the other parts that `MCParts` composes, and about all of them |
| `MCConfirmation`, `MCChainReads`, `MCRestoreHold`, `MCBuyerBudget`, `MCParts` | constants and compositions for TLC |

`Confirmation` and the engine share the row but are kept apart: the engine's module lets a driver conclude
what is true or wait, and `Confirmation` shows that what the code concludes from its reads is true.
The parts from `RpcPool` down talk to the settlement core through one value each (a provider, an admission,
a channel, a hold, an answer) and share no state with each other. `MCChainReads` and `MCParts` put several of
them in one run: the variable `subject` says which one a behaviour is about, and the others stay off. It is
a plain union of their behaviours.

State and code of the settlement core:

- `rows` is the settlements table. A row is named by the request that inserted it; `owner` is the request
  that claimed it last. `stale` is `claim_expires_at <= now()`, `sends` is `sends_in_flight`, `accepted` is
  `broadcast_accepted`, `released` is `channel_released`. A send id is fresh per send in the code and a
  driver sends one at a time, so the driver's name stands for it; when its answer is lost the id stays in
  the row for good and is renamed `LostSend`.
- `pool` is the channels table.
- `run[r]` is a settle request: `pc` is where its own thread waits, `signer` where the scheme's submission
  is, which goes on after the request stopped waiting. An action is the code between two awaits on shared
  state. `closed` is `signingClosed`; `Noted` is `recordedAt !== undefined`.
- `job[d]` is `drive` on a row, run by a request or by a replica's reconciler, with what that look started
  from (`tracked`, `back`) and what it concluded.
- `driving` is the set of the same name, per process.
- `tx` and `accountSeq` stand for the network: whether a send of the recorded bytes was accepted, refused
  for good or neither, whether they were included, and each channel account's sequence number.

A request's whole handler is followed, early returns and `finally` included: `CallThrows` is a database
call without a catch that throws, `RecordsEnvelope`, `MarksSend`, `RecordsAnswer`, `MarksReleased`,
`HandsBack`, `CompletesRow` and `FreesChannel` each have the outcome the code gives a failing call. A call that works and
loses its answer is the call followed by the failure of the next one, except for `recordEnvelope` and for
sends, where the two differ and both are modelled.

The other modules:

- `Confirmation`. `chain` is what the ledgers hold about the payment: where the recorded bytes landed and in
  which fee bump (`form` `own`, or `inner` in somebody else's), with which result, where and by what the payer's nonce was
  used (`copy` by a third party, `burn` by something else), and who took the channel's sequence number. `look` is one
  pass of `drive` with the reads it made so far, an action per read: own hash, inner hash, nonce, channel
  account, sends, the third-party search and its scan. An RPC is a record of the ledger it is at and of how many it keeps;
  every read picks one afresh, because a balancer or a fail-over may. `height` grows between any two reads.
- `RpcPool`. `observe`, with `unhealthy` and `healthy` as in the code; `recent` is history for the properties.
- `FeeBudget`. `claims` and `spends` are the settlements and the sponsor_spend tables, as far as
  `committedIn` sums them. `holder` is the advisory lock. An admission is begun (its window is fixed then, by the
  replica's clock), locked, checked and committed in steps of their own. `bumps` is what may still be charged for each signed transaction.
- `MemoryPool`. `free`, `leased`, `waiters`, `streaks` as in the class; `cooling` are its quarantine timers;
  `caller` is what the settlements that use the pool hold. An action is a method call or a timer: each is one turn.
- `RestoreHold`. Time is counted in the shortest ledger time. `rewind` is the newest row of settlement_rewinds and
  its ledger of the network; `node[r]` is a replica's `NetworkState`, which all runs of its poll
  share; `polling` are those runs and `flight` is what `singleFlight` remembers. `lost` is the last ledger of
  an authorization whose record the restore discarded.
- `BuyerBudget`. `rows` are the reservations, `session` the budget window, `calls` the payments under way,
  `runs` the runs of `reconcile`, each with the snapshot of the row and what it read so far. Its reads are
  an action each, in the code's order: `ReadsLatest` (latestLedger), `ChecksRange` (getHealth), `ReadsEvents`
  (getEvents) and `LooksUp` (getTransaction), and each is answered by an RPC of its own (`Rpcs`); `GivesUp` is
  any of them failing. `used` is the seller's choice of when, and for how much, an authorization is used.
- `SellerDedupe`. `call[a]` is a `settle` of a wrapper, `job[a]` the facilitator's request for it,
  `record` the facilitator's row with the attempt that holds its claim, `tracked` the wrapper's
  `UnfinishedAttempts`, `memory` the hashes it remembers; `marks` tells a facilitator that marks repeats from
  one that does not.

## What the model assumes and leaves out

- In `SettlementEngine` the RPC's answers are current: a driver concludes what is so or waits. What it
  concludes from reads at different ledgers is `Confirmation`'s subject. A settlement that the code leaves
  `submitted` for an operator is outside `SettlementDecided`.
- `leaseTtlMs` (120 s in the service) exceeds `claimTtlMs` (30 s, where signing stops) by far: a request
  that recorded nothing is done with its channel before its lease expires (`LeaseLapses`). A recorded
  settlement may outlive its lease; whether it may do so until after it is final is the constant
  `OutlivesLease`. With `OutlivesLease = FALSE` the pool's properties hold; `release_race` shows what
  happens with `TRUE`.
- A replica runs one reconcile round at a time (`apps/rail402/src/runtime.ts:859-883` keeps one per
  network), so a reconciler has one job. `reconcileIdleMs` is dropped: the reconciler may drive a row at
  any time after it is recorded, which allows more than the code.
- Refusals before the claim (`guard.admit`) and by fee limits change nothing a property here sees; a
  refusal at signing time is `RefusesToSign`. Which free channel is handed out, how long a quarantine
  lasts and how often a poll repeats are left open.
- A claim is only marked stale when a repeat of the same request is still to come (`Repeated`): nothing
  else reads it, so this removes states and no behaviour.
- A request that ended keeps nothing but its answer, since nothing reads the rest.

`Confirmation`: `reconcileThirdParty` is on (its default). Time bounds are ledger bounds; both are read
from closed ledgers. Nobody but Rail402 carries an `upto` payment in a transaction of another shape
(`othersCanCarry`), though anyone may wrap the recorded inner transaction or burn a nonce. Other replicas
stay away from a row during its first resend: `reconcileIdleMs` keeps their reconcilers from rows that
young, and `firstSubmissionRefused` relies on it. `Lifetime` is the minimum life of a nonce's entry:
in `confirm` that of an `exact` payment outlasts the run (17,280 ledgers against the few of a pass), that of an
`upto` payment ends with the authorization, which its properties survive; `lapsed_nonce` has it short for both.
A settlement whose nonce was used by something else, or before its claim, is left to an operator
(`Unresolvable`), as the code does.

`RestoreHold`: replicas are stopped while a dump is restored (`docs/runbook.mdx:1040`), so no poll spans
it, and polls before it matter only through what they left in memory, which a start empties. That a provider
that lies with a fresh-looking ledger may set the *first* ledger too low is documented (`docs/operations.md:916-918`):
the made-up readings here are those of a reset. Readings of other networks, which the passphrase check
refuses, are left out.

`BuyerBudget`: amounts are those of one asset; per-payment caps and `decideSpend`'s checks of an entry are
left out. What a report claimed as spent in an earlier window, and the chain has not verified, is not carried
into the next one (`ledger.ts:298`): `SessionWithinCap` counts such an authorization there for what no report claimed.
Nothing compares the ledger of the node that answers getEvents with the one that getHealth showed (`transfers.ts:114-160`).
The constant `EventsLag` is how far it may be behind: 0 where one node answers both, or no balancer is in between.
With 0 the buyer's properties hold, however far the other reads are apart; `events_behind` shows what happens with 1.
A node that answers getEvents holds the start of the range and returns what it has of it (an RPC refuses a start
it does not hold and cuts the end). The pages of one answer are one read, and so are the lookups of one proof, any of
which may miss.

`SellerDedupe`: attempt ids are on; `WAIT_MS` does not pass; the hash memory evicts nothing; a zero `upto`
settlement, which has no hash and is answered before any check, is left out. `MayThrow` lets the engine's `settle`
throw once the envelope is recorded, which the scheme catches and answers with a failure of its own: with `FALSE` the
properties hold; `refused_answer` has it.

`FeeBudget`: what a settlement may be charged is at most what it reserved (the signer refuses a higher fee),
and a finish that charges nothing is never wrong about it, which is `Confirmation`'s `FreeIsFree`.

## Runs

Deadlock is not checked: the system stops when every request is done and nothing is open.

| Run | Instance | Shows |
|---|---|---|
| `settle_repeats` | 2 alike `upto` requests for one key, 1 replica, 2 failures | types and `OwnInv`; the engine implements `Payment` through takeovers, late signatures, failures and crashes; one transaction per payment; `unsigned` is never told about a payment that was signed; repeats are answered alike |
| `settle_drivers` | 1 `upto` request, 2 replicas, 2 failures, 1 foreign transaction | `FateInv` and `SendInv`; with up to three drivers on a row, no accepted send is forgotten, verdicts are the network's, a channel is given back only when the bytes are dead |
| `settle_channel` | 2 payments, 1 channel, 2 foreign transactions | `ChannelInv`; the channel is promised to one settlement, sequence numbers never clash, through two quarantines |
| `settle_decides` | 1 `exact` request and 1 off-chain one for its key with other terms, 2 failures or crashes, 1 foreign transaction, fairness | the inductive invariant; refinement of `Payment` through crashes, conflicts and off-chain settlements; every recorded settlement is decided, every channel can be leased again and again |
| `release_race` | 3 payments, 1 channel, `OutlivesLease` | violated: finding 1 |
| `driving_mark` | 2 alike requests, 1 replica | violated: finding 2 |
| `confirm` | 1 `exact` or `upto` settlement, 4 ledgers; 3 providers | `LooksAreSound`, `RpcSound`; verdicts are true and stay true, a settlement finished as free was not charged, a channel is given back when its bytes are dead, everything is decided; fail-over and fail-back |
| `lapsed_nonce` | 1 settlement whose nonce's entry lapses at once | violated: finding 3 |
| `hold_overlap` | 1 replica, 2 runs of its poll, 1 lie, 1 reset | violated: finding 4 |
| `refused_answer` | 3 attempts, 2 wrappers, a `settle` that fails after recording | violated: finding 5 |
| `events_behind` | 1 `exact` payment, 1 run of `reconcile`, `EventsLag` 1 | violated: finding 6 |
| `parts` | see below | `PartsSound`; the budget, the in-process pool, the hold, the buyer's ledger and the seller's dedupe |

Bounds of the `settle_*` runs. `Requests` bounds the settle requests: two for one key are enough for a takeover, a conflict of
owners and a repeat that waits, and two keys for two holders of a channel; three are used where a third
party to the race matters. `Channels` is one, so that every
settlement competes for it, except in `driving_mark`, where the two requests hold one each.
`OffChain` are the requests that settle without a transaction. `Exact` are those of scheme `exact`: after a
failure on the network they may give their channel back and wait for the authorization to expire, and a
refused rebroadcast may finish them, while an `upto` settlement is then kept open as long as an earlier send
may be public. `MaxFaults` bounds crashes and failing calls together: two let a lost send be followed by
another failure or a crash in recovery. `MaxForeign` bounds other transactions of a channel account: one
makes a sequence conflict, two make a second quarantine. Sequence numbers are bounded by the included and
foreign transactions. `settle_channel`, `release_race` and `settle_repeats` use symmetry in requests: they
run on one replica with one fingerprint and one scheme, each for a key of its own or all for the same; no
property names one, and none is a liveness property. `settle_channel` adds the constraint `TakesTurns`: the account's key is used a second time only while one request follows the other.
With one foreign transaction the two requests run at once; with two the second quarantine is reached, one
after the other. It cuts behaviours and is used for invariants only.

Bounds of `confirm`. The settlement is claimed at ledger 1, its bytes may be included until ledger 3
(`LastLedger`), the authorization ends at ledger 2 (`Expiration`), and ledgers close up to 4 (`Horizon`): there
is a ledger for each order of the two bounds and one past both. `Keeps` lets an RPC keep two ledgers or all,
so that history may or may not reach the claim. The pool has 3 providers, leaves one after 2 bad readings
(`FailAfter`) and returns after 3 good ones (`RecoverAfter`; 5 by default, which only takes longer): two
alternatives to choose between, and a fail-back that skips one.

Bounds of `parts`:

- Budget: 2 settlements of one caller and 2 keeper rounds, caps with room for one of either and a rest
  (`NetworkCap` 3 against 2 each), so any two admissions compete (the caller's cap is the same, so it never binds
  alone here; `WithinBudgetForGood` proves it for any); an hour of 0 ticks and a day of 1 make a window
  pass and another not.
- Pool: 2 channels, 3 callers, so one always may wait; streaks up to 2, the first that doubles a quarantine.
- Hold: 2 replicas, one of them slow by the tolerated skew, 2 runs of a poll each; window, slack and freshness of
  one ledger each, since only their sums matter, 3 ticks in all; one lie or one reset. The
  constraint `HonestRace` lets runs of several polls race while readings are honest and the chain is the
  first one, and has one replica's polls in time after a lie or a reset. What it cuts is two runs of one
  replica that overlap after a lie, where the property fails: `hold_overlap` has them.
- Buyer: 2 calls that reserve 2 each of a session of 3, so that the second waits for the budget of the first; a
  single `exact` key or `upto` without; authorizations valid for 1 ledger of 3, RPCs up to 2 ledgers behind with
  1 ledger of history, picked for each read but with `EventsLag` 0; 1 run of `reconcile` beside the calls.
- Dedupe: 3 attempts of one payment at 2 wrappers that keep one attempt each: a takeover, a repeat after it and
  an eviction.

`AlikeClients` is symmetry in wrappers, calls and runs of a poll, which nothing tells apart.

Fairness (`FairSpec`). Every live request, submission and driver goes on, since each `await` in the code
ends by an answer, a timeout or a failure. The reconciler's timer starts it again and again. Claims,
leases, cooldowns and transaction bounds lapse with time. A driver that looks at a decided row again and
again finishes it (strong fairness on the look that finishes): what makes it wait is an authorization
that expires or a read that fails, and neither lasts. No fairness is assumed of the network's inclusion,
of foreign transactions, of failures or of the code's free choices.

`confirm` assumes that ledgers close, that the driver's next step is taken (the reconciler's timer and the
end of every `await`), that from some time on RPCs are current and reads work (`CalmsDown`: no lag and no
outage lasts; the code promises nothing while they do), and that the network poll goes on
(`PollsProviders`, a timer). Inclusion, third parties and a provider that works again are not assumed.

## Findings

1. `release_race` (`NoSequenceClash`). A channel is promised to one settlement at a time
   (`channels.ts:2`). `complete` (`engine.ts:1787-1801`) finishes the row and then releases the channel,
   in two calls, and `release` matches any lease of the channel (`channel-pool.ts:75`). If the settlement
   outlived `leaseTtlMs`, its lease is expired; what kept the channel out of the pool was the open row. Once
   the row is final, another request may lease the channel before the release, which then frees that
   request's lease, and a third request leases the channel too: both build on one sequence number. A
   release that names the lease it gives back would close it.
2. `driving_mark` (`DrivenIsMarked`). `driving` is said to hold the "Settlements a request in this process
   is driving right now" (`engine.ts:265`). The row keeps its id when its claim is taken over, so when the
   request that lost it ends, its `finally` deletes the id that the new owner still drives. The run shows the lost
   mark. With the default timing something else keeps the reconciler off: it asks only for settlements recorded
   `reconcileIdleMs` ago (`engine.ts:1617`), 5 s more than the 25 s a request confirms. Set below that, the
   reconciler drives the settlement beside its request; `settle_drivers` shows that nothing worse comes of two
   drivers than a needless rebroadcast.
3. `lapsed_nonce` (`ExpiredIsUnpaid`). A settlement past its bounds is to be declared expired only when
   nothing carried the authorization (`docs/verification-rules.md:274`, `docs/operations.md:940`). The last
   piece of that proof is the payer's nonce, read as unused at or past the ledger of the other reads (`engine.ts:1405-1444`). A nonce's
   entry lapses, at the earliest when the authorization expired; from then on the reading says nothing, and the
   retained history was asked for Rail402's own two hashes, not for a copy under another one. A driver
   that comes back after the lapse (an outage of that length, or a settlement left alone for so long) finishes
   a payment as expired that a third party's copy settled. The documents speak of lapsed entries for failed
   transactions only (`docs/verification-rules.md:337-343`). Searching the retained history once the
   lifetime passed would close it.
4. `hold_overlap` (`HoldCoversTheLost`). A reset is believed once "a later passing poll" sees the new chain
   again (`docs/operations.md:914-915`). `pollOnce` observes `state.latestLedger`, which every run of the replica's
   poll writes, and a run that outlasts `POLL_DEADLINE_MS` goes on beside the next. Two of them can
   observe one made-up reading; the second takes it for the later one, and the hold counts from a ledger no
   chain has. With polls that end in time one lie is harmless (`parts`). Observing the ledger the run itself read would close it.
5. `refused_answer` (`RefusedSettlesNothing`). The wrapper keeps the attempts which may have started a settlement:
   those answered `settlement_pending`, or not at all (`dedupe.ts:79-80`); "An attempt the facilitator refused
   outright settled nothing" (`seller.test.ts:935`). The read of the row after the submission (`engine.ts:666`) is not caught in
   the engine: when it throws, the envelope is recorded and perhaps sent. The scheme catches it and returns
   `unexpected_settle_error` (`scheme.ts:157-161`, `upto-scheme.ts:297-300`), answered as any failed settle
   (`app.ts:884`), and the wrapper drops the attempt (`dedupe.ts:162-165`). The settlement succeeds, and the buyer's
   repeat is refused as one that was served. Answering `settlement_pending` when that read fails would close it.
6. `events_behind` (`ReleasedMovedNothing`). Budget is to be released only when the chain shows that an expired
   authorization was never used (`reconcile.ts:78-79`). `findTransfers` checks with getHealth that the node has
   ingested the range, and takes the events of the next call (`transfers.ts:114-160`) without looking at the ledger
   they are from. Behind one endpoint there may be "several nodes a ledger or two apart"
   (`packages/testkit/src/network.ts:39-40`): one that has not ingested the ledger of the use answers without it, and the
   reservation of a payment that moved money is released, with its budget and its key. Comparing the latest ledger
   that getEvents itself returns with the end of the range would close it.

## Proofs

Every theorem holds for all values of the constants that satisfy the named assumptions of their modules
(types, and that names of different kinds are apart; the numbers of requests, replicas, channels, calls, attempts,
providers, failures and ledgers are free). The payments, rounds and calls whose amounts are summed are finite sets. Some theorems need more, stated as a hypothesis:

- `~OutlivesLease`, of the channel theorems and the refinement: a settlement is final before its lease ends. Without it they are false:
  `release_race`.
- `NonceOutlastsLooks`, of `UnpaidForGood`: the entry of an `exact` payment's used nonce outlives the horizon. It does on the
  network for any pass that is not a day late; `lapsed_nonce` shows the rest. `UptoUnpaidForGood` needs none.
- `~MayThrow`, of `LostIsServedForGood`: `settle` does not fail once the envelope is recorded; `refused_answer` otherwise.
- `EventsLag = 0`, of `KeptForGood`, `KeyOnceForGood`, `CapForGood` and `PartsStaySound`: the events of a proof come from a
  node that is not behind the one whose getHealth was checked. Without it they are false: `events_behind`.
- `ResetIsCorroborated`, of `HeldForGood` and `CoveredForGood`: either the network never starts over, as pubnet, which
  `restartDecision` takes no reading for, or polls end in time (`hold_overlap` otherwise), one made-up reading is to be
  survived (two that agree are believed), and a reading counts as fresh for no longer than the hold's window (60 s,
  `RESET_FRESH_MS`, against the longest authorization, 300 s by default).

The settlement core (`Spec`):

| Theorem | States | Rests on |
|---|---|---|
| `Inductive`, `TypeCorrect` | `IndInv`, `TypeOK` | itself |
| `PaidOnce` | `OneTransactionPerKey` | `IndInv` |
| `OwnersKnown`, `UnsignedForGood`, `AnsweredAlike` | `OwnInv`, `UnsignedIsTrue`, `AnswersAgree` | `OwnInv` |
| `FatesKnown`, `VerdictForGood`, `HandedBackForGood` | `FateInv`, `VerdictIsTrue`, `HandedBackIsDead` | `OwnInv`, `FateInv` |
| `SendsKnown`, `AcceptedForGood` | `SendInv`, `AcceptedIsPublic` | `OwnInv`, `SendInv` |
| `ChannelsKnown`, `ExclusiveForGood`, `SourcesForGood` | `ChannelInv`, `ChannelExclusive`, `NoSequenceClash` | `OwnInv`, `FateInv`, `ChannelInv` |
| `PaymentsSettled` | `Spec => SettlesPayments` | all of them |

None of these properties is inductive. `IndInv` is the shape the handlers rely on: `RunShape` (who is on
its way to sign has a row and a channel, and off-chain requests never get there), `RowShape` (a row past
`claimed` has its transaction or was settled off-chain; a recorded transaction has its row and its channel), `JobShape` (a job
is about a recorded settlement, and one that frees a channel about a final one) and `OneRowPerKey` (the
unique index). A step that records an envelope is harmless for `PaidOnce` only because the request that records owns the
claim, its key has no other row, and no row with a transaction goes back to `claimed`. To it the others add:

- `OwnInv`: what a row's owner may still be doing, by the row's state. A claim can be taken over only before an
  envelope is recorded, so the owner of a recorded row is fixed; an owner that answered `unsigned` cannot exist,
  because the abandon that let it answer so removed its row, and its late signature finds no claim of its own.
- `FateInv`: a verdict on its way through a driver (`finish`, `giveBack`, `hand`) is already true of the network, and
  what the network did with the bytes is final; the row says no more than some driver's verdict did.
- `SendInv`: a token argument. A send is accepted only while its id is in the row's `sends`; the id leaves the row only
  with an answer, and an answer that may be an acceptance is held by a driver or the request until it is in the row,
  or, lost, becomes `LostSend`, which never leaves.
- `ChannelInv`: a channel has at most one occupant, who leased it, writes an envelope with it, has an open
  settlement on it or is handing it back, and the occupant's lease stands. Only the lease of a free channel adds one.

`SettlementSteps` says once what each action leaves alone (a row, a run, a job), so that the proofs of the four
invariants only meet the actions that touch them. For the refinement each step is a `Payment` step of one
key or a stutter of all: a step that finishes a row is `Decide` of its key because `FateInv` has the verdict, one that
answers is `Tell` because the row is final, and inclusion moves one payment only because no two recorded
transactions share a sequence number (`NoSequenceClash`), which is why it needs `~OutlivesLease`.

What is read of the chain:

- `LooksSound`: `LooksAreSound` holds of `Confirmation`. It is the types, that what ledgers hold fits together
  (`ChainFits`), that what a look keeps from its reads is true up to the ledger those reads reach (`LookFits`), and
  what the answers given say (`AnswerFits`). Its point is that reads come from different ledgers: a `NOT_FOUND` proves
  something only between the oldest ledger an RPC keeps and the one it is at, and a look goes on only where the
  intervals join. `LooksTypeCorrect`, `UnpaidForGood`, `UptoUnpaidForGood`, `PaidForGood`, `GivenBackForGood` and
  `FreeForGood` follow.
- `RpcStaysSound`, `ActiveForGood`: `RpcSound` with `CountsFit` (the counters are never behind the remembered readings, although a switch
  resets one of them) is inductive, and gives `ActiveIsJustified`.

The parts (`PartsSpec`, whose behaviours are those of each part):

- `CountedForGood` (`ExposureCounted`): in `BudgetSound` every claim and keeper's round fits what may have
  become of its transaction: a row is corrected below what was reserved only once the charge is known.
- `WithinBudgetForGood` (`SpendCapped`): `AdmittedWithin` says that what is counted fits the limits, and that the admission
  that was checked, of which there is one while the lock is held, still fits with the window it was checked with. The
  window of an admission starts before it has the lock, so it is never narrower than the present one; a later one only counts less.
  What may be paid is at most what is counted (`CountedForGood`), row by row and so in sum.
- `OnceForGood`, `LostIsServedForGood` (`OncePerPayment`, `LostIsServed`): in `DedupeSound` the attempt that holds the facilitator's claim and
  the attempts wrappers keep determine who may serve: `JobsFit` (one attempt holds the claim and every answer names it), `ServingFits`
  (a settled payment has one right to be served, used up by the call that goes on to serve) and `NothingLost`.
- `KeptForGood`, `KeyOnceForGood` (`BudgetKept`, `KeyKept`): in `BuyerSound` a row, a call and a run of `reconcile` fit what may
  have become of the authorization. A run acts on an old row and on reads from different ledgers, and is harmless
  because expiry and use are final: past the expiration it read, the authorization cannot be used any more; the range it
  asks for ends no later than the node it checked (`RunFits`), so a node that is not behind that one has the use among its events,
  and an expired authorization that is looked up without any has moved nothing.
- `CapForGood` (`CapKept`): `WindowsWithinCap` bounds for each window what its rows take of its cap (`Takes`): all that
  an authorization moved or could move once it is signed, and for a row of an earlier window what no report counted there. The
  guard's `usage` counts at least that of the open window, so a reservation that it admits fits; a renewal carries over no more than
  the old window took; every other step of the chain, the call or a run takes no more than before. A report may lower what
  a row takes of a later window only once, since a row that is still to be reported has nothing settled.
- `HeldForGood` (`LostIsHeld`; `CoveredForGood` of the hold alone): `HoldSound` says that there is a set of true
  readings, of one chain, among those that replicas and runs hold, that every anchor recorded or about to be is no
  lower than the lost authorizations less window and slack, and that a reading outside that set will find nothing that was seen before to
  confirm it. Arithmetic about two readings of one chain does the rest: the newer closed at least a tick later per ledger.
- `PartsKeepPoolWhole`, `PoolStaysWhole` (`PoolIsWhole`): with the types inductive as it stands: every channel is in one of the free list,
  the cooling ones and the callers' hands, a channel is held by one caller, the queue has the waiting callers
  once each, and nobody waits while a channel is free. `TailDrops`, `AppendAdds` and `RemoveDrops` say what `shift`,
  `push` and `splice` do to a list without repetitions; `HandedOver` is the argument about `handOver`.
- `PartsTypeCorrect` and `PartsStaySound`: the types, and `PartsSound`, the conjunction of the above as `parts` checks it.

Those two compare sums with a limit. The model takes sums by a fold over a set, a recursive function whose
properties for every set would be proved by induction, and the library's induction theorems take an operator, which the provers
cannot instantiate. The lemmas of `BudgetProofs` argue by a smallest counterexample instead: among the subsets of a finite set that a
claim fails for there is one that contains no other (`SmallestSet`, from `WFMin`, which takes a set).
`SumExists` gives the function the fold chooses, `SumUnique` that it has one value, `FunctionTotals` that any element may go
first; `TotalAtMost`, `TotalOneMore`, `TotalOfBoth` and `TotalOfNone` are what the steps need of sums.

TLC checks the inductive invariants too: `IndInv`, `OwnInv`, `FateInv`, `SendInv`, `ChannelInv`, `LooksAreSound`, `RpcSound`,
`PartsSound`. `HoldSound` is no part of `PartsSound`: `parts` lets polls overrun, where `ResetIsCorroborated` is
false and only `ReadingsPaced` is claimed.

Only model-checked:

- Liveness: `SettlementDecided`, `ChannelsComeBack`, `DecidedEventually`, `EndsUpWell`. The provers do not handle `ENABLED`.
- The properties of the runs that end in a violation.

## Not modelled

- Schemes and verification: checks of one request against a payload, a simulation and the ledger. They are
  sequential and over data that no property here tells apart; what they may answer is a free choice of the engine's model.
- The upto contract: one atomic function over the host's nonce and the token's allowance. A model of it would restate its guards.
- Provisioning and retiring channel accounts: an operator's commands, to be run with the service stopped.
- The rest of the service: routes, configuration, metering, exports, rate limits, shutdown.
- Bazaar catalog, search, index, ledger source, safe fetch, explorer, playground, MCP server, CLI, demo
  seller: catalogs, pure functions, presentation and front ends that no settlement depends on.
- The Postgres statements' failures half-way: each is one transaction, so it happened or did not.

## Plan

Done: the settlement core, `Confirmation`, `RpcPool`, `FeeBudget`, `MemoryPool`, `RestoreHold`, `BuyerBudget`,
`SellerDedupe`; proofs of every safety property that passing runs check, and of the step refinement.

Candidates for modules: the catalog's probes, the playground's relay, the explorer's ingester, and
`RestoreHold` over `MCSettlement` (a restore that discards rows of settlements under way).
