----------------------------- MODULE ChannelPool -----------------------------
(***************************************************************************)
(* Channel leases in Postgres, shared by every replica.  A lease carries   *)
(* no token: release and quarantine match any lease of the channel.        *)
(*                                                                         *)
(* Abstracted: the order in which free channels are handed out, and the    *)
(* length of a cooldown (it doubles per quarantine in a row).              *)
(***************************************************************************)
EXTENDS SettlementLedger

VARIABLE pool

\* Fields: leased is leased_at IS NOT NULL, expired is lease_expires_at in
\* the past, cooling is quarantined_until in the future, mark is
\* quarantine_sequence.
Slot == [leased : BOOLEAN, expired : BOOLEAN, cooling : BOOLEAN,
         mark : Nat \cup {None}]

FreeSlot == [leased |-> FALSE, expired |-> FALSE, cooling |-> FALSE,
             mark |-> None]

PoolInit == pool = [c \in Channels |-> FreeSlot]

\* Mutant of Leasable: an expired lease is not taken over.
LeasableWhenReturned(c) ==
  /\ ~pool[c].leased
  /\ ~pool[c].cooling
  /\ OpenOn(c) = {}

\* The WHERE clause of tryAcquire.
Leasable(c) ==
  /\ ~pool[c].leased \/ pool[c].expired
  /\ ~pool[c].cooling
  /\ OpenOn(c) = {}

Acquire(c) ==
  /\ Leasable(c)
  /\ pool' = [pool EXCEPT ![c].leased = TRUE, ![c].expired = FALSE]

Release(c) ==
  pool' = IF pool[c].leased THEN [pool EXCEPT ![c] = FreeSlot] ELSE pool

Quarantine(c, sequence) ==
  pool' = IF pool[c].leased
            THEN [pool EXCEPT ![c] = [FreeSlot EXCEPT !.cooling = TRUE,
                                                      !.mark = sequence]]
            ELSE pool

TakeQuarantineSequence(c) == pool' = [pool EXCEPT ![c].mark = None]

CooldownEnds(c) ==
  /\ pool[c].cooling
  /\ pool' = [pool EXCEPT ![c].cooling = FALSE]

LeaseExpires(c) ==
  /\ pool[c].leased /\ ~pool[c].expired
  /\ pool' = [pool EXCEPT ![c].expired = TRUE]
=============================================================================
