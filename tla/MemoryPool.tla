------------------------------- MODULE MemoryPool -------------------------------
(***************************************************************************)
(* The in-process channel pool, MemoryChannelPool of channels.ts: leases,  *)
(* the queue of callers that wait for one, their timeouts, and channels    *)
(* cooling down in quarantine.  Every method runs in one turn of the event *)
(* loop, so an action is a method call or a timer that fires; a caller     *)
(* learns what it was granted in a later turn.                             *)
(***************************************************************************)
EXTENDS Naturals, Sequences, SequencesExt

CONSTANTS
  Addresses,    \* the channels of the pool, in the order they are configured
  PoolCallers,  \* concurrent settlements
  MaxStreak     \* bound on the quarantines of a channel in a row

PoolChannels == ToSet(Addresses)

\* The constructor refuses an empty list and an address that is there twice.
ASSUME PoolAssumption ==
  /\ Addresses \in Seq(PoolChannels) /\ Addresses # <<>> /\ IsInjective(Addresses)
  /\ MaxStreak \in Nat

VARIABLES
  free,     \* the channels to lease next, in order
  leased,   \* the channels not free and not cooling
  waiters,  \* the callers in the queue
  cooling,  \* the channels whose quarantine timer runs
  streaks,  \* quarantines in a row, per channel
  noted,    \* the channels with a sequence number kept from their quarantine
  caller    \* what each caller has or does

poolVars == <<free, leased, waiters, cooling, streaks, noted, caller>>

\* A caller asks (idle), waits in the queue or holds a channel; checked tells
\* whether it took the channel's noted sequence number.
Holding(ch, checked) == [at |-> "holding", channel |-> ch, checked |-> checked]
Away == [at |-> "away"]
Queued == [at |-> "waiting"]

PoolInit ==
  /\ free = Addresses
  /\ leased = {} /\ waiters = <<>> /\ cooling = {} /\ noted = {}
  /\ streaks = [ch \in PoolChannels |-> 0]
  /\ caller = [c \in PoolCallers |-> Away]

-----------------------------------------------------------------------------
\* acquire finds a free channel.
Acquires(c) ==
  /\ caller[c] = Away /\ free # <<>>
  /\ free' = Tail(free)
  /\ leased' = leased \cup {Head(free)}
  /\ caller' = [caller EXCEPT ![c] = Holding(Head(free), FALSE)]
  /\ UNCHANGED <<waiters, cooling, streaks, noted>>

\* acquire with waitMs > 0 finds none.  (With waitMs = 0 it answers undefined
\* and changes nothing.)
Waits(c) ==
  /\ caller[c] = Away /\ free = <<>>
  /\ waiters' = Append(waiters, c)
  /\ caller' = [caller EXCEPT ![c] = Queued]
  /\ UNCHANGED <<free, leased, cooling, streaks, noted>>

LeavesEntry(c) == waiters

\* What splicing the caller's waiter out of the queue leaves.
WithoutWaiter(c) ==
  IF \E i \in DOMAIN waiters : waiters[i] = c
  THEN RemoveAt(waiters, CHOOSE i \in DOMAIN waiters : waiters[i] = c)
  ELSE waiters

\* The timer of a waiting caller fires: it is answered undefined.
TimesOut(c) ==
  /\ caller[c] = Queued
  /\ waiters' = WithoutWaiter(c)
  /\ caller' = [caller EXCEPT ![c] = Away]
  /\ UNCHANGED <<free, leased, cooling, streaks, noted>>

\* handOver, of a channel that is leased in the set l, with the callers as f
\* says: to the first waiter, or back to the free list.
HandsOver(ch, l, f) ==
  IF waiters # <<>>
  THEN /\ waiters' = Tail(waiters)
       /\ leased' = l
       /\ caller' = [f EXCEPT ![Head(waiters)] = Holding(ch, FALSE)]
       /\ UNCHANGED free
  ELSE /\ leased' = l \ {ch}
       /\ free' = Append(free, ch)
       /\ caller' = f
       /\ UNCHANGED waiters

\* takeQuarantineSequence: the holder takes the number it compares with the
\* account's, before it uses the channel.
TakesSequence(c) ==
  /\ caller[c].at = "holding" /\ ~caller[c].checked
  /\ noted' = noted \ {caller[c].channel}
  /\ caller' = [caller EXCEPT ![c] = Holding(caller[c].channel, TRUE)]
  /\ UNCHANGED <<free, leased, waiters, cooling, streaks>>

Releases(c) ==
  /\ caller[c].at = "holding" /\ caller[c].channel \in leased
  /\ LET ch == caller[c].channel IN
       /\ streaks' = [streaks EXCEPT ![ch] = 0]
       /\ noted' = noted \ {ch}
       /\ HandsOver(ch, leased, [caller EXCEPT ![c] = Away])
  /\ UNCHANGED cooling

Quarantines(c) ==
  /\ caller[c].at = "holding" /\ caller[c].channel \in leased
  /\ LET ch == caller[c].channel IN
       /\ streaks[ch] < MaxStreak
       /\ streaks' = [streaks EXCEPT ![ch] = @ + 1]
       /\ \E known \in BOOLEAN : noted' = IF known THEN noted \cup {ch} ELSE noted \ {ch}
       /\ leased' = leased \ {ch}
       /\ cooling' = cooling \cup {ch}
  /\ caller' = [caller EXCEPT ![c] = Away]
  /\ UNCHANGED <<free, waiters>>

\* The quarantine timer, quarantineMs after it started.
EndsQuarantine(ch) ==
  /\ ch \in cooling
  /\ cooling' = cooling \ {ch}
  /\ HandsOver(ch, leased \cup {ch}, caller)
  /\ UNCHANGED <<streaks, noted>>

PoolNext ==
  \/ \E c \in PoolCallers :
       Acquires(c) \/ Waits(c) \/ TimesOut(c) \/ TakesSequence(c) \/ Releases(c) \/ Quarantines(c)
  \/ \E ch \in PoolChannels : EndsQuarantine(ch)

PoolSpec == PoolInit /\ [][PoolNext]_poolVars

-----------------------------------------------------------------------------
PoolTypeOK ==
  /\ free \in Seq(PoolChannels) /\ waiters \in Seq(PoolCallers)
  /\ {leased, cooling, noted} \subseteq SUBSET PoolChannels
  /\ streaks \in [PoolChannels -> 0..MaxStreak]
  /\ caller \in [PoolCallers -> {Away, Queued} \cup
                   {Holding(ch, b) : ch \in PoolChannels, b \in BOOLEAN}]

HoldersOf(ch) == {c \in PoolCallers : caller[c].at = "holding" /\ caller[c].channel = ch}

\* A leased channel has one holder, which is alive to give it back; any other
\* channel is cooling or free, once; a waiter in the queue is a caller that
\* still waits: a timeout, a release and the end of a quarantine in any order
\* neither leak a channel nor grant it twice.
EveryChannelIsSomewhere ==
  /\ \A ch \in PoolChannels :
       \/ /\ ch \in leased /\ ch \notin cooling \cup ToSet(free)
          /\ \E c \in PoolCallers : HoldersOf(ch) = {c}
       \/ ch \in cooling /\ ch \notin leased \cup ToSet(free) /\ HoldersOf(ch) = {}
       \/ ch \in ToSet(free) /\ ch \notin leased \cup cooling /\ HoldersOf(ch) = {}
  /\ IsInjective(free) /\ IsInjective(waiters)
  /\ ToSet(waiters) = {c \in PoolCallers : caller[c] = Queued}

\* Nobody waits in the queue while a channel is free.
NobodyWaitsInVain == waiters = <<>> \/ free = <<>>

PoolIsWhole == EveryChannelIsSomewhere /\ NobodyWaitsInVain
================================================================================
