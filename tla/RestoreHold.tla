------------------------------ MODULE RestoreHold ------------------------------
(***************************************************************************)
(* The hold on upto settlements after the settlement ledger was restored   *)
(* to an earlier state: recordRestoreHold (restore-hold.ts), rewindAnchor  *)
(* and rewindLedger of the Postgres ledger, restoreHold of the upto        *)
(* scheme, and the network poll of the service (runtime.ts) that feeds     *)
(* them through singleFlight.                                              *)
(*                                                                         *)
(* Time is counted in the shortest ledger time; a ledger closes at most    *)
(* once per tick.  A restore may discard the only record of an             *)
(* authorization settled at zero off-chain.                                *)
(***************************************************************************)
EXTENDS Integers

CONSTANTS
  HoldReplicas,  \* the replicas of the service
  PollRuns,      \* runs of one replica's poll that may exist at once
  MayOverrun,    \* whether a run may outlast its deadline
  Behind,        \* how far each replica's clock is behind
  Window,        \* the longest window rule 7 accepts, in ledgers
  Slack,         \* STALE_READING_LEDGERS, also CLOCK_SKEW_MS in ticks
  FreshFor,      \* RESET_FRESH_MS in ticks
  FirstTip,      \* the chain's newest ledger at the start
  HoldEnd,       \* bound on the time
  MaxLies,       \* bound on readings that are made up
  MayReset       \* a test network, whose ledgers may start over

ASSUME RestoreHoldAssumption ==
  /\ {Window, Slack, FreshFor, FirstTip, HoldEnd, MaxLies} \subseteq Nat
  /\ Behind \in [HoldReplicas -> 0..Slack]
  /\ {MayOverrun, MayReset} \subseteq BOOLEAN
  /\ -1 \notin PollRuns  \* Undefined

VARIABLES
  tick,     \* the time
  ledgers,  \* the network's chain: its newest ledger, and when that one and
            \* those before it closed
  rewind,   \* settlement_rewinds and settlement_rewind_ledgers
  lost,     \* the last ledger at which a lost authorization is valid
  node,     \* each replica's NetworkState
  polling,  \* the runs of each replica's poll
  flight,   \* per replica, the run singleFlight waits for
  lies,     \* made-up readings so far
  resets    \* resets of the network so far

holdVars == <<tick, ledgers, rewind, lost, node, polling, flight, lies, resets>>

Undefined == -1

Tips == 0..FirstTip + HoldEnd

\* How many ledgers a provider may lag; one that lags more is not fresh.
Lags == 0..FreshFor + 1

\* restoreHoldLedgers.
HoldLedgers == Window + Slack

Polls == HoldReplicas \X PollRuns

\* restored counts the rows of settlement_rewinds, ledger is the one recorded
\* for the newest of them.
Rewind == [restored : 0..1, ledger : Tips \cup {Undefined}]

Node == [rpcHealthy : BOOLEAN, latest : Tips \cup {Undefined}, closedAt : -FreshFor - 1..HoldEnd,
         seen : Tips \cup {Undefined}]

Stopped == [at |-> "none", latest |-> Undefined, closedAt |-> 0, seen |-> Undefined,
            ledger |-> Undefined]

FirstNode == [rpcHealthy |-> FALSE, latest |-> Undefined, closedAt |-> 0, seen |-> Undefined]

HoldInit ==
  /\ tick = 0
  /\ ledgers = [tip |-> FirstTip, closed |-> [lag \in Lags |-> -lag]]
  /\ rewind = [restored |-> 0, ledger |-> Undefined]
  /\ lost = Undefined
  /\ node = [r \in HoldReplicas |-> FirstNode]
  /\ polling = [p \in Polls |-> Stopped]
  /\ flight = [r \in HoldReplicas |-> Undefined]
  /\ lies = 0 /\ resets = 0

-----------------------------------------------------------------------------
(* The network and the operator. *)

PassesTime(closes) ==
  /\ tick < HoldEnd
  /\ tick' = tick + 1
  /\ ledgers' = IF closes
                THEN [tip |-> ledgers.tip + 1,
                      closed |-> [lag \in Lags |-> IF lag = 0 THEN tick + 1
                                                   ELSE ledgers.closed[lag - 1]]]
                ELSE ledgers
  /\ UNCHANGED <<rewind, lost, node, polling, flight, lies, resets>>

\* A test network starts over: none of its former accounts exists.
StartsOver ==
  /\ MayReset /\ resets = 0
  /\ resets' = 1
  /\ ledgers' = [tip |-> 0, closed |-> [lag \in Lags |-> tick]]
  /\ lost' = Undefined
  /\ UNCHANGED <<tick, rewind, node, polling, flight, lies>>

\* The replicas are stopped, the database is restored and the restore
\* recorded; authorizations accepted until now may be lost with their rows.
Restores ==
  /\ rewind.restored = 0
  /\ rewind' = [restored |-> 1, ledger |-> Undefined]
  /\ lost' = ledgers.tip + Window
  /\ node' = [r \in HoldReplicas |-> FirstNode]
  /\ polling' = [p \in Polls |-> Stopped]
  /\ flight' = [r \in HoldReplicas |-> Undefined]
  /\ UNCHANGED <<tick, ledgers, lies, resets>>

-----------------------------------------------------------------------------
(* The poll.  p = <<replica, run>>. *)

Clock(r) == tick - Behind[r]

\* closedAt and now of the same reading; a provider that lags reports an
\* older newest ledger.
Fresh(closedAt, now) == now - closedAt \in -Slack..FreshFor

TrustsReading(latest, closedAt, now) == latest

\* The highest ledger the chain can have reached by now.
ReachableLedger(latest, closedAt, now) ==
  latest + (IF now > closedAt THEN now - closedAt ELSE 0)

\* A poll before the restore records nothing and is left out.
StartsPoll(p) ==
  /\ rewind.restored = 1
  /\ flight[p[1]] = Undefined
  /\ polling[p].at = "none"
  /\ flight' = [flight EXCEPT ![p[1]] = p[2]]
  /\ polling' = [polling EXCEPT ![p].at = "probe"]
  /\ UNCHANGED <<tick, ledgers, rewind, lost, node, lies, resets>>

\* The deadline passes first: the run goes on, another may start.
Overruns(r) ==
  /\ MayOverrun
  /\ flight[r] # Undefined
  /\ flight' = [flight EXCEPT ![r] = Undefined]
  /\ UNCHANGED <<tick, ledgers, rewind, lost, node, polling, lies, resets>>

\* The finally block: only the run that still blocks the poll unblocks it.
Unblocks(p) ==
  flight' = IF flight[p[1]] = p[2] THEN [flight EXCEPT ![p[1]] = Undefined] ELSE flight

Ends(p) == polling' = [polling EXCEPT ![p] = Stopped] /\ Unblocks(p)

\* The probe, by a provider that may lag.
ReadsLedger(p) ==
  /\ polling[p].at = "probe"
  /\ \E lag \in Lags :
       /\ lag <= ledgers.tip
       /\ node' = [node EXCEPT ![p[1]].rpcHealthy = TRUE,
                               ![p[1]].latest = ledgers.tip - lag,
                               ![p[1]].closedAt = ledgers.closed[lag]]
  /\ polling' = [polling EXCEPT ![p].at = "observe"]
  /\ UNCHANGED <<tick, ledgers, rewind, lost, flight, lies, resets>>

\* A provider makes up a low ledger that just closed, once something is
\* recorded (it is known that it can set the first ledger too low).
ReadsLie(p) ==
  /\ polling[p].at = "probe"
  /\ rewind.ledger # Undefined /\ lies < MaxLies
  /\ lies' = lies + 1
  /\ node' = [node EXCEPT ![p[1]].rpcHealthy = TRUE, ![p[1]].latest = 0,
                          ![p[1]].closedAt = tick]
  /\ polling' = [polling EXCEPT ![p].at = "observe"]
  /\ UNCHANGED <<tick, ledgers, rewind, lost, flight, resets>>

\* A read of the poll fails: the probe, or one of those after it (balance,
\* accounts, authority), awaited for as long as they take.
FailsPoll(p) ==
  /\ polling[p].at \in {"probe", "observe"}
  /\ node' = [node EXCEPT ![p[1]].rpcHealthy = FALSE]
  /\ polling' = [polling EXCEPT ![p].at = "observe"]
  /\ UNCHANGED <<tick, ledgers, rewind, lost, flight, lies, resets>>

\* recordRestoreHold is called with what the state holds by then.
Observes(p) ==
  /\ polling[p].at = "observe"
  /\ node[p[1]].rpcHealthy /\ node[p[1]].latest # Undefined
  /\ polling' = [polling EXCEPT ![p] =
       [@ EXCEPT !.at = "anchor", !.latest = node[p[1]].latest,
                 !.closedAt = node[p[1]].closedAt, !.seen = node[p[1]].seen]]
  /\ UNCHANGED <<tick, ledgers, rewind, lost, node, flight, lies, resets>>

SkipsObserving(p) ==
  /\ polling[p].at = "observe"
  /\ ~(node[p[1]].rpcHealthy /\ node[p[1]].latest # Undefined)
  /\ Ends(p)
  /\ UNCHANGED <<tick, ledgers, rewind, lost, node, lies, resets>>

\* state.restartSeen, set from the result.
Remembers(p, seen) == node' = [node EXCEPT ![p[1]].seen = seen]

\* More than a hold below the recorded ledger, which an honest reading of the
\* same chain never is.
Low(p) == polling[p].latest + HoldLedgers < rewind.ledger

Passes(p) == Fresh(polling[p].closedAt, Clock(p[1]))

SeesItOnce(p) == TRUE

\* restartDecision's sighting of an earlier reading.
SawItBefore(p) == polling[p].seen # Undefined /\ polling[p].latest >= polling[p].seen

Aims(p, at) ==
  polling' = [polling EXCEPT ![p].at = at,
    ![p].ledger = ReachableLedger(polling[p].latest, polling[p].closedAt, Clock(p[1]))]

\* rewindAnchor answered; the checks of recordRestoreHold.
LearnsAnchor(p) ==
  /\ polling[p].at = "anchor"
  /\ UNCHANGED <<tick, ledgers, rewind, lost, lies, resets>>
  /\ \/ \* Nothing to record, or the reading does not pass.
        /\ \/ ~Passes(p)
           \/ rewind.ledger # Undefined /\ (Low(p) => ~MayReset)
        /\ Remembers(p, Undefined) /\ Ends(p)
     \/ /\ rewind.ledger = Undefined /\ Passes(p)
        /\ Aims(p, "record") /\ UNCHANGED <<node, flight>>
     \/ /\ rewind.ledger # Undefined /\ Low(p) /\ Passes(p) /\ SawItBefore(p) /\ MayReset
        /\ Aims(p, "restart") /\ UNCHANGED <<node, flight>>
     \/ /\ rewind.ledger # Undefined /\ Low(p) /\ Passes(p) /\ ~SawItBefore(p) /\ MayReset
        /\ Remembers(p, polling[p].latest) /\ Ends(p)

\* rewindLedger: every write admits only the row it read, and is tried again.
RewindsTo(p) ==
  \/ rewind.ledger = Undefined
  \/ polling[p].at = "restart" /\ rewind.ledger > polling[p].ledger + HoldLedgers

RecordsLedger(p) ==
  /\ polling[p].at \in {"record", "restart"}
  /\ rewind' = IF RewindsTo(p) THEN [rewind EXCEPT !.ledger = polling[p].ledger] ELSE rewind
  /\ Remembers(p, Undefined) /\ Ends(p)
  /\ UNCHANGED <<tick, ledgers, lost, lies, resets>>

-----------------------------------------------------------------------------
HoldNext ==
  \/ \E closes \in BOOLEAN : PassesTime(closes)
  \/ StartsOver
  \/ Restores
  \/ \E r \in HoldReplicas : Overruns(r)
  \/ \E p \in Polls :
       \/ StartsPoll(p) \/ ReadsLedger(p) \/ ReadsLie(p) \/ FailsPoll(p)
       \/ Observes(p) \/ SkipsObserving(p) \/ LearnsAnchor(p) \/ RecordsLedger(p)

HoldSpec == HoldInit /\ [][HoldNext]_holdVars

-----------------------------------------------------------------------------
\* restoreHold of a request that reads the chain at ledger l.
SettlesUpto(l) ==
  \/ rewind.restored = 0
  \/ rewind.ledger # Undefined /\ l > rewind.ledger + HoldLedgers

HoldTypeOK ==
  /\ tick \in 0..HoldEnd /\ ledgers.tip \in Tips /\ rewind \in Rewind
  /\ lost \in Tips \cup {Undefined} \cup 0..FirstTip + HoldEnd + Window
  /\ node \in [HoldReplicas -> Node] /\ flight \in [HoldReplicas -> PollRuns \cup {Undefined}]
  /\ lies \in 0..MaxLies /\ resets \in 0..1

\* No upto payment settles on chain after a restore before every authorization
\* accepted before it expired, whichever replica recorded the ledger the hold
\* counts from, from readings as old and clocks as slow as it admits, and
\* whatever one made-up reading says: StellarUptoScheme.restoreHold with
\* recordRestoreHold.
HoldCoversTheLost == SettlesUpto(ledgers.tip) => ledgers.tip > lost
-----------------------------------------------------------------------------
(* Why HoldCoversTheLost holds.                                              *)

\* What makes a reset that is believed a true one: never on pubnet; elsewhere a
\* replica's polls end in time (hold_overlap shows what else happens), at most one
\* reading is made up, and a reading too old to pass is older than the window is long.
ResetIsCorroborated == MayReset => ~MayOverrun /\ MaxLies <= 1 /\ FreshFor <= Window

\* Times of closing, the oldest of which a lagging provider still reports.
CloseTimes == -FreshFor - 1..HoldEnd

HoldTips == Tips \cup {Undefined}

\* A chain has no more ledgers than the time since its start lets close, and the
\* same goes for what was read of it.
HoldTypeFits ==
  /\ HoldTypeOK
  /\ ledgers \in [tip : Tips, closed : [Lags -> CloseTimes]]
  /\ ledgers.tip <= FirstTip + tick
  /\ \A lag \in Lags : ledgers.tip - lag - ledgers.closed[lag] <= FirstTip
  /\ \A r \in HoldReplicas : node[r].latest - node[r].closedAt <= FirstTip
  /\ polling \in [Polls -> [at : {"none", "probe", "observe", "anchor", "record", "restart"},
                          latest : HoldTips, closedAt : CloseTimes, seen : HoldTips, ledger : HoldTips]]
  /\ \A p \in Polls :
       /\ polling[p].latest - polling[p].closedAt <= FirstTip
       /\ polling[p].at = "anchor" => polling[p].latest # Undefined
       /\ polling[p].at \in {"record", "restart"} => polling[p].ledger # Undefined

\* Two readings of one chain: the newer ledger closed at least a tick after the
\* other for each ledger between them.
Precedes(x, y) == x.ledger <= y.ledger /\ y.ledger - x.ledger <= y.closed - x.closed

NewestReading == [ledger |-> ledgers.tip, closed |-> ledgers.closed[0]]

\* What a provider that does not lie can report.
Reportable ==
  {[ledger |-> ledgers.tip - lag, closed |-> ledgers.closed[lag]] :
     lag \in {l \in Lags : l <= ledgers.tip}}

OfOneChain(R) ==
  /\ \A x \in R : Precedes(x, NewestReading)
  /\ \A x, y \in R : Precedes(x, y) \/ Precedes(y, x)

NodeReading(r) == [ledger |-> node[r].latest, closed |-> node[r].closedAt]
RunReading(p) == [ledger |-> polling[p].latest, closed |-> polling[p].closedAt]

HeldReadings ==
  {NodeReading(r) : r \in {q \in HoldReplicas : node[q].latest # Undefined}}
    \cup {RunReading(p) : p \in {q \in Polls : polling[q].at = "anchor"}}

\* The ledgers the hold counts from, or will once they are recorded.
Anchors ==
  ({rewind.ledger} \cup {polling[p].ledger : p \in {q \in Polls : polling[q].at = "record"}})
    \ {Undefined}

\* None is further below the lost authorizations than the hold is long, and no
\* reading of the chain is more than a hold below it unless it is too old.
AnchorsFit(R) ==
  \A a \in Anchors :
    /\ lost - Window - Slack <= a /\ a <= ledgers.tip + FreshFor
    /\ \A x \in R : a <= x.ledger + FreshFor \/ a <= x.ledger + tick - x.closed

\* R are the readings that are true.  Before something is recorded all are; on a
\* network that may start over a reading that is not finds nothing seen before.
ReadingsFit(R) ==
  /\ \A r \in HoldReplicas :
       node[r].latest # Undefined /\ rewind.ledger = Undefined => NodeReading(r) \in R
  /\ \A p \in Polls :
       polling[p].at = "anchor" /\ rewind.ledger = Undefined => RunReading(p) \in R
  /\ MayReset =>
       \A p \in Polls :
         LET n == node[p[1]]
         IN  /\ polling[p].at = "observe" /\ n.rpcHealthy /\ n.latest # Undefined =>
                  NodeReading(p[1]) \in R \/ (lies > 0 /\ n.seen = Undefined)
             /\ polling[p].at = "anchor" =>
                  RunReading(p) \in R \/ (lies > 0 /\ polling[p].seen = Undefined)

\* A replica polls once at a time where that matters, and nothing is believed to
\* have started over.
PollsFit ==
  /\ \A p \in Polls : polling[p].at # "restart"
  /\ MayReset =>
       /\ \A p \in Polls : polling[p].at # "none" => flight[p[1]] = p[2]
       /\ \A r \in HoldReplicas : node[r].seen # Undefined => lies > 0

ReadingsPaced == ledgers.closed[0] <= tick /\ OfOneChain(Reportable)

HoldSound ==
  /\ HoldTypeFits /\ ReadingsPaced
  /\ lost # Undefined =>
       /\ rewind.restored = 1 /\ lost - Window <= ledgers.tip /\ PollsFit
       /\ \E S \in SUBSET HeldReadings :
            LET R == Reportable \cup S IN OfOneChain(R) /\ AnchorsFit(R) /\ ReadingsFit(R)
================================================================================
