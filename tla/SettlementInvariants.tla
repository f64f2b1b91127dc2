------------------------- MODULE SettlementInvariants -------------------------
(***************************************************************************)
(* The inductive invariants behind the safety properties of                *)
(* SettlementEngine.  Each adds to IndInv what the handlers of engine.ts   *)
(* rely on without checking it; the modules of proofs show that they are   *)
(* inductive, TLC that they hold on the instances of the runs.             *)
(***************************************************************************)
EXTENDS SettlementEngine

-----------------------------------------------------------------------------
(* Ownership: who owns a row, and what the owner still holds of it.         *)

\* Before its submission starts a request has recorded nothing.
Unsubmitted == {"lease", "check", "requarantine", "unleased"} \cup OffChainPcs

\* row is the row that request id inserted, v its owner's thread.
OwnerFits(id, row, v) ==
  /\ row.owner \in Requests /\ KeyOf[row.owner] = KeyOf[id]
  /\ v.pc \notin {"start", "repeat", "lost", "unsigned"}
  /\ v.pc \notin {"done", "dead"} \/ v.signer \in SubmittingSteps => v.rec = id
  /\ v.pc \in Unsubmitted => row.state = "claimed"
  /\ v.pc = "recheck" => row.state # "claimed"
  /\ v.answer \notin {"unsigned", "unavailable"}

OwnerShape == \A id \in Requests :
                Exists(id) => OwnerFits(id, rows[id], run[rows[id].owner])

\* What a request claimed or answers from is about its own key, and it is
\* answered once, when it is done.
ThreadFits(r, v) ==
  /\ v.pc = "start" => v.rec = None /\ v.raced = "none"
  /\ v.rec \in Requests => KeyOf[v.rec] = KeyOf[r]
  /\ v.pc # "done" => v.answer = "none"

\* A request drives the row it recorded.
DriveFits(r) ==
  /\ run[r].pc \in {"answer", "drive"} =>
       rows[run[r].rec].owner = r /\ tx[run[r].rec] # "none"
  /\ job[r].at # "idle" =>
       run[r].pc \in {"answer", "drive"} /\ job[r].on = run[r].rec

\* A final answer is the final state of the key's row.
AnswerFits(r) ==
  run[r].answer \in FinalStates =>
    \E id \in Requests : KeyOf[id] = KeyOf[r] /\ rows[id].state = run[r].answer

OwnFits(r) == ThreadFits(r, run[r]) /\ DriveFits(r) /\ AnswerFits(r)

OwnInv == OwnerShape /\ \A r \in Requests : OwnFits(r)

-----------------------------------------------------------------------------
(* Fate: what a driver concluded about a recorded transaction stays true.   *)

\* The recorded bytes will never succeed on chain.
Gone(id) == tx[id] # "ok" /\ ~Live(id)

JobFate(j) ==
  /\ j.at = "finish" => IF j.verdict = "succeeded" THEN tx[j.on] = "ok" ELSE Gone(j.on)
  /\ j.at \in {"giveBack", "hand"} => ~Live(j.on)
  /\ j.at = "weigh" \/ (j.at = "reply" /\ j.reply = "rejected") =>
       tx[j.on] \in {"doomed", "dead"}

RowFate(id) ==
  IF tx[id] = "none"
    THEN ~rows[id].released /\ rows[id].state \notin {"failed", "expired"}
    ELSE /\ rows[id].state = "succeeded" => tx[id] = "ok"
         /\ rows[id].state \in {"failed", "expired"} => Gone(id)
         /\ rows[id].released => ~Live(id)

\* A request whose submission saw success has a transaction that succeeded.
RaceFate(r) ==
  run[r].raced = "settled" => run[r].rec \in Requests /\ tx[run[r].rec] = "ok"

FateInv ==
  /\ \A d \in Drivers : JobFate(job[d])
  /\ \A id \in Requests : RowFate(id)
  /\ \A r \in Requests : RaceFate(r)

-----------------------------------------------------------------------------
(* Sends: what the row keeps of the sends that may have been accepted.      *)

\* The races whose answer is written to the row.
Answered == {"settled", "accepted", "refused"}

\* The first send is marked from its recording until its answer is written,
\* and only the request that recorded the envelope writes it.
FirstFits(r) ==
  /\ Noted(r) \/ (run[r].raced \in Answered /\ run[r].pc \in {"fetch", "answer"}) =>
       LET id == run[r].rec IN
         /\ id \in Requests
         /\ rows[id].owner = r /\ tx[id] # "none" /\ FirstSend \in rows[id].sends
  /\ run[r].raced \in Answered =>
       ~Submitting(r) /\ run[r].pc \in {"fetch", "answer", "drive", "done"}
  /\ run[r].signer \in {"accepted", "refused", "unheard"} => run[r].pc = "race"

\* A tracked send is marked while it is made; an untracked one is of bytes
\* the network accepted before.
SendFits(d) ==
  LET j == job[d] IN
    /\ j.at # "idle" /\ ~j.tracked => rows[j.on].accepted
    /\ j.at \in {"send", "reply"} /\ j.tracked => d \in rows[j.on].sends

\* A thread v that did not learn that the first send of row id was refused.
Unrefused(id, v) ==
  v.rec = id => /\ v.signer \notin {"sending", "refused"}
                /\ ~(v.raced = "refused" /\ v.pc \in {"fetch", "answer"})

\* The first send may have been accepted.
FirstMayBe(id) == FirstSend \in rows[id].sends /\ Unrefused(id, run[rows[id].owner])

\* The driver was told, or could not hear, that its send was accepted.
HeardOf(id) == {d \in Drivers : /\ job[d].at = "reply" /\ job[d].on = id
                                /\ job[d].reply \in {"accepted", "lost"}}

\* Why the row still says that an accepted send may have been accepted.
Evidence(id) ==
  \/ rows[id].accepted \/ LostSend \in rows[id].sends
  \/ FirstMayBe(id)
  \/ HeardOf(id) # {}

\* The network accepted a send of the recorded bytes.
Sent(id) == tx[id] \in {"queued", "ok", "bad"}

SendInv ==
  /\ \A r \in Requests : FirstFits(r)
  /\ \A d \in Drivers : SendFits(d)
  /\ \A id \in Requests : Sent(id) => Evidence(id)

-----------------------------------------------------------------------------
(* Channels: who a channel is promised to, and that the pool knows.         *)

\* A row's channel was promised to its owner.
Leases(c, r) == /\ run[r].chan = c /\ run[r].pc \in LeasePcs
                /\ ~Recorded(run[r].rec, r)
Writes(c, r) == /\ run[r].chan = c /\ run[r].signer = "writing"
                /\ OwnsClaim(run[r].rec, r)
Settles(c, r) == \E id \in OpenOn(c) : rows[id].owner = r
Returns(c, r) == \E d \in HandingBack(c) : rows[job[d].on].owner = r

Occupies(c, r) == Leases(c, r) \/ Writes(c, r) \/ Settles(c, r) \/ Returns(c, r)

\* A channel has one occupant, and while it has one its lease stands.
OccupiedShape ==
  \A c \in Channels :
    /\ \A a, b \in Requests : Occupies(c, a) /\ Occupies(c, b) => a = b
    /\ \A a \in Requests : Occupies(c, a) => pool[c].leased /\ ~pool[c].expired

\* A signature that may still record its envelope belongs to a request that
\* holds its lease, or lost its claim, or was closed in time.
SigningSteps == {"read", "built", "writing"}

SigningFits(r) ==
  /\ run[r].pc \in LeasePcs => run[r].chan \in Channels
  /\ run[r].signer \in SigningSteps =>
       /\ ~Recorded(run[r].rec, r)
       /\ run[r].pc = "race" \/ run[r].closed

\* One driver hands a settlement's channel back, the one that marked it.
ReturnFits(d) ==
  /\ job[d].at = "hand" => rows[job[d].on].released
  /\ job[d].at = "free" => ~rows[job[d].on].released

Returning(d) == job[d].at \in {"hand", "free"}

ReturnShape ==
  /\ \A d \in Drivers : ReturnFits(d)
  /\ \A d, e \in Drivers :
       Returning(d) /\ Returning(e) /\ job[d].on = job[e].on => d = e

ChannelInv ==
  OccupiedShape /\ (\A r \in Requests : SigningFits(r)) /\ ReturnShape
=============================================================================
