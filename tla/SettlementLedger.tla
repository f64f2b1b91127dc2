-------------------------- MODULE SettlementLedger --------------------------
(***************************************************************************)
(* The settlement ledger: one row per (network, payer, nonce), kept in     *)
(* Postgres and shared by every replica.  An operator of this module is    *)
(* one statement of the ledger, which the database runs atomically; the    *)
(* engine's actions call them.                                             *)
(*                                                                         *)
(* A row is identified by the settle request that inserted it (the code    *)
(* draws a fresh id and a fresh owner per request), so the key and the     *)
(* fingerprint of a row are those of that request.                         *)
(***************************************************************************)
EXTENDS Naturals

CONSTANTS
  Requests,   \* settle requests; each is also the owner token it claims with
  Replicas,   \* facilitator processes; each runs one reconciler
  Channels,   \* channel accounts
  Keys,       \* settlement keys (network, payer, nonce)
  Prints,     \* request fingerprints
  KeyOf,      \* the key a request settles
  PrintOf,    \* the fingerprint of a request
  None

\* Whoever drives a recorded settlement: its request, or a reconciler.
Drivers == Requests \cup Replicas

FirstSend == "first"
\* Stands for every send whose answer nobody will record any more.
LostSend == "lost"

ASSUME LedgerAssumption ==
  /\ Requests \cap Replicas = {}
  /\ None \notin Requests /\ None \notin Channels /\ None \notin Nat
  /\ FirstSend \notin Drivers /\ LostSend \notin Drivers
  /\ KeyOf \in [Requests -> Keys]
  /\ PrintOf \in [Requests -> Prints]

VARIABLE rows

FinalStates == {"succeeded", "failed", "expired"}
States == {"absent", "claimed", "submitted"} \cup FinalStates

\* Fields: seq is the channel sequence number the recorded envelope carries,
\* accepted is broadcast_accepted, sends is sends_in_flight, released is
\* channel_released.  stale tells that claim_expires_at passed; only an
\* unrecorded claim is ever asked for it.
Row == [state    : States,
        owner    : Requests \cup {None},
        stale    : BOOLEAN,
        channel  : Channels \cup {None},
        seq      : Nat,
        accepted : BOOLEAN,
        sends    : SUBSET (Drivers \cup {FirstSend, LostSend}),
        released : BOOLEAN]

NoRow == [state |-> "absent", owner |-> None, stale |-> FALSE,
          channel |-> None, seq |-> 0, accepted |-> FALSE, sends |-> {},
          released |-> FALSE]

LedgerInit == rows = [id \in Requests |-> NoRow]

Exists(id) == rows[id].state # "absent"
IsFinal(id) == rows[id].state \in FinalStates

\* The row that holds a key: the unique index admits at most one.
Find(key) == {id \in Requests : KeyOf[id] = key /\ Exists(id)}

SameRequest(id, r) == PrintOf[id] = PrintOf[r]

-----------------------------------------------------------------------------
(* claim                                                                    *)

\* Mutant of ClaimInserts: a failed settlement may be claimed again.
ClaimInsertsAgain(r) ==
  /\ \A id \in Find(KeyOf[r]) : rows[id].state = "failed"
  /\ rows' = [rows EXCEPT ![r] = [NoRow EXCEPT !.state = "claimed", !.owner = r]]

ClaimInserts(r) ==
  /\ Find(KeyOf[r]) = {}
  /\ rows' = [rows EXCEPT ![r] = [NoRow EXCEPT !.state = "claimed", !.owner = r]]

\* A stale claim goes to a repeat of the same request; the row keeps its id.
ClaimTakesOver(r, id) ==
  /\ id \in Find(KeyOf[r])
  /\ SameRequest(id, r)
  /\ rows[id].state = "claimed" /\ rows[id].stale
  /\ rows' = [rows EXCEPT ![id].owner = r, ![id].stale = FALSE]

ClaimIsExisting(r, id) ==
  /\ id \in Find(KeyOf[r])
  /\ SameRequest(id, r)
  /\ ~(rows[id].state = "claimed" /\ rows[id].stale)

ClaimIsConflict(r, id) ==
  /\ id \in Find(KeyOf[r])
  /\ ~SameRequest(id, r)

-----------------------------------------------------------------------------
(* Statements on a held row                                                 *)

OwnsClaim(id, owner) == rows[id].state = "claimed" /\ rows[id].owner = owner

\* The update of recordEnvelope; it matches no row (ClaimLostError) unless
\* OwnsClaim holds.
RecordEnvelope(id, channel, seq) ==
  rows' = [rows EXCEPT ![id].state = "submitted",
                       ![id].stale = FALSE,
                       ![id].channel = channel,
                       ![id].seq = seq,
                       ![id].accepted = FALSE,
                       ![id].sends = {FirstSend}]

\* A send is marked before it is made.  A driver has one send at a time, and
\* its token stands for the fresh send id.
BeginSend(id, send) == rows' = [rows EXCEPT ![id].sends = @ \cup {send}]

\* Mutant of EndSend: one flag instead of a count, cleared by any answer.
EndSendClearsAll(id, send, accepted) ==
  rows' = [rows EXCEPT ![id].sends = {},
                       ![id].accepted = @ \/ accepted]

EndSend(id, send, accepted) ==
  rows' = [rows EXCEPT ![id].sends = @ \ {send},
                       ![id].accepted = @ \/ accepted]

\* Not a statement of the ledger: the driver forgets the id of a send whose
\* answer was lost, so nobody removes it from the row any more.
ForgetSend(id, send) ==
  rows' = [rows EXCEPT ![id].sends =
             IF send \in @ THEN (@ \ {send}) \cup {LostSend} ELSE @]

\* Whether a send of the recorded bytes may have been accepted.
BroadcastMayBePublic(id) == rows[id].accepted \/ rows[id].sends # {}

CanReleaseChannel(id) == rows[id].state = "submitted" /\ ~rows[id].released

ReleaseChannel(id) == rows' = [rows EXCEPT ![id].released = TRUE]

CanFinish(id) == rows[id].state \in {"claimed", "submitted"}

Finish(id, final) ==
  rows' = [rows EXCEPT ![id].state = final, ![id].stale = FALSE]

\* Mutant of Abandon: the owner deletes its row, recorded or not.
AbandonRecorded(id, owner) ==
  rows' = IF rows[id].owner = owner THEN [rows EXCEPT ![id] = NoRow] ELSE rows

\* abandon deletes only an unrecorded claim of its own.
Abandon(id, owner) ==
  rows' = IF OwnsClaim(id, owner) THEN [rows EXCEPT ![id] = NoRow] ELSE rows

\* The claim's lifetime passes on the database clock.
ClaimExpires(id) ==
  /\ rows[id].state = "claimed" /\ ~rows[id].stale
  /\ rows' = [rows EXCEPT ![id].stale = TRUE]

\* Recorded settlements that hold their channel.
OpenOn(c) == {id \in Requests : /\ rows[id].state = "submitted"
                                /\ rows[id].channel = c
                                /\ ~rows[id].released}
=============================================================================
