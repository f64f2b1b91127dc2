-------------------------- MODULE SettlementEngine --------------------------
(***************************************************************************)
(* Settlement requests and reconcilers over the shared ledger and channel  *)
(* pool.  An action is the code between two awaits that read or write      *)
(* shared state: requests on the same or on different replicas,            *)
(* reconcilers, the network, clocks and crashes interleave at those        *)
(* points.                                                                 *)
(*                                                                         *)
(* A request has two threads: its own (pc) and the scheme's submission,    *)
(* which calls back into the recording sponsor signer (signer) and goes on *)
(* after the request stopped waiting for it.  Once the envelope is         *)
(* recorded, a driver (the request or a reconciler) runs a job on the row. *)
(*                                                                         *)
(* The network is reduced to what decides a recorded transaction: whether  *)
(* a send of it was accepted, its channel's sequence number, its bounds    *)
(* and its result.  An RPC answer is current: stale reads, third parties   *)
(* that carry an exact payment and the proofs of absence are not modelled  *)
(* here; where such a proof decides whether a settlement may finish now,   *)
(* the model finishes it or waits.                                         *)
(***************************************************************************)
EXTENDS ChannelPool

CONSTANTS
  ReplicaOf,      \* the replica a request runs on
  OffChain,       \* the requests that settle without a transaction
  Exact,          \* the requests of scheme exact; the others are upto
  OutlivesLease,  \* whether a settlement may take longer than leaseTtlMs
  MaxFaults,      \* bound on crashes and on calls, to the database or the
                  \* network, that fail or whose answer is lost
  MaxForeign      \* bound on other transactions of a channel account

ASSUME EngineAssumption ==
  /\ ReplicaOf \in [Requests -> Replicas]
  /\ OffChain \subseteq Requests /\ Exact \subseteq Requests
  /\ OutlivesLease \in BOOLEAN
  /\ MaxFaults \in Nat /\ MaxForeign \in Nat

VARIABLES
  run,        \* per request: its threads
  job,        \* per driver: the recorded settlement it drives, and where
  driving,    \* per replica: rows its requests are driving
  tx,         \* per row: what became of its recorded transaction
  accountSeq, \* per channel account: its sequence number
  faults      \* failures and foreign transactions so far

vars == <<rows, pool, run, job, driving, tx, accountSeq, faults>>
network == <<tx, accountSeq, faults>>
chain == <<tx, accountSeq>>

-----------------------------------------------------------------------------
(* State                                                                    *)

RunPcs == {"start", "repeat", "lease", "check", "requarantine", "unleased",
           "race", "fetch", "lost", "abandon", "recheck", "unsigned",
           "answer", "drive", "offchain", "offFinish", "offAbandon", "taken",
           "done", "dead"}
SignerSteps == {"off", "read", "built", "writing", "sending", "accepted",
                "refused", "unheard", "stopped"}
RaceResults == {"none", "settled", "accepted", "refused", "error"}
Answers == FinalStates \cup {"none", "conflict", "unavailable", "unsigned",
                             "pending", "error"}

\* rec is the row claimed or answered from, chan the leased channel, closed
\* is signingClosed, seq the sequence number read or built on.
Run == [pc : RunPcs, rec : Requests \cup {None}, chan : Channels \cup {None},
        closed : BOOLEAN, signer : SignerSteps, seq : Nat,
        raced : RaceResults, answer : Answers]

JobSteps == {"idle", "look", "send", "reply", "weigh", "giveBack", "hand",
             "finish", "free", "reload"}
Replies == {"none", "accepted", "badSeq", "refused", "rejected", "lost"}

\* tracked and back are read from the row the look started from
\* (broadcastAccepted = false, channelReleased), mark is the quarantine
\* sequence to hand the channel back with, None for a plain release.
Job == [at : JobSteps, on : Requests \cup {None}, tracked : BOOLEAN,
        back : BOOLEAN, reply : Replies, verdict : FinalStates \cup {"none"},
        mark : Nat \cup {None}]

\* signed: recorded, no send accepted.  doomed: never accepted, and refused
\* for good.  queued: a send was accepted.  ok, bad: included.  dead: past
\* its bounds, never included.
TxStates == {"none", "signed", "doomed", "queued", "ok", "bad", "dead"}

NoRun == [pc |-> "start", rec |-> None, chan |-> None, closed |-> FALSE,
          signer |-> "off", seq |-> 0, raced |-> "none", answer |-> "none"]
NoJob == [at |-> "idle", on |-> None, tracked |-> FALSE, back |-> FALSE,
          reply |-> "none", verdict |-> "none", mark |-> None]

Init ==
  /\ LedgerInit
  /\ PoolInit
  /\ run = [r \in Requests |-> NoRun]
  /\ job = [d \in Drivers |-> NoJob]
  /\ driving = [p \in Replicas |-> {}]
  /\ tx = [id \in Requests |-> "none"]
  /\ accountSeq = [c \in Channels |-> 0]
  /\ faults = [failures |-> 0, foreign |-> 0]

\* recordedAt is set: the request learned that its envelope is recorded.
Noted(r) == run[r].signer \in {"sending", "accepted", "refused", "unheard"}

Sequence(id) == rows[id].seq
Channel(id) == rows[id].channel

\* The channel's sequence number passed the recorded transaction's.
SequenceUsed(id) == accountSeq[Channel(id)] >= Sequence(id)

Included(id) == tx[id] \in {"ok", "bad"}

\* The submission thread may go on after its request ended.
SubmittingSteps == {"read", "built", "writing", "sending"}
Submitting(r) == run[r].signer \in SubmittingSteps

\* Nothing but its answer is left of a request that ended.
Ended(a) == [NoRun EXCEPT !.pc = "done", !.answer = a]

\* The request ends with answer a (the finally of execute); its submission
\* may still be under way.
Ends(r, a) ==
  /\ run' = [run EXCEPT ![r] = IF Submitting(r)
                                 THEN [@ EXCEPT !.pc = "done", !.answer = a]
                                 ELSE Ended(a)]
  /\ driving' = [driving EXCEPT ![ReplicaOf[r]] = @ \ {run[r].rec}]

\* A crash, or a call that fails or works and loses its answer.
Failure ==
  /\ faults.failures < MaxFaults
  /\ faults' = [faults EXCEPT !.failures = @ + 1]

Goes(r, pc) == run' = [run EXCEPT ![r].pc = pc]

\* A call that the request does not guard throws: execute's caller is answered
\* an error, and what the request held stays as it is.
Unguarded == {"start", "repeat", "taken", "offFinish", "offAbandon", "lease",
              "requarantine", "unleased", "fetch", "lost", "abandon", "recheck",
              "unsigned"}

CallThrows(r) ==
  /\ run[r].pc \in Unguarded
  /\ Failure
  /\ Ends(r, "error")
  /\ UNCHANGED <<rows, pool, job, chain>>

-----------------------------------------------------------------------------
(* execute: claim                                                           *)

FirstStep(r) == IF r \in OffChain THEN "offchain" ELSE "lease"

Claimed(r, id) ==
  /\ run' = [run EXCEPT ![r].pc = FirstStep(r), ![r].rec = id]
  /\ driving' = [driving EXCEPT ![ReplicaOf[r]] = @ \cup {id}]

Claims(r) ==
  /\ run[r].pc = "start"
  /\ \/ ClaimInserts(r) /\ Claimed(r, r)
     \/ \E id \in Requests : ClaimTakesOver(r, id) /\ Claimed(r, id)
  /\ UNCHANGED <<pool, job, network>>

AnswersRepeat(r) ==
  /\ run[r].pc = "start"
  /\ \E id \in Requests :
       \/ /\ ClaimIsConflict(r, id)
          /\ run' = [run EXCEPT ![r] = Ended("conflict")]
       \/ /\ ClaimIsExisting(r, id)
          /\ run' = [run EXCEPT ![r].pc = "repeat", ![r].rec = id]
  /\ UNCHANGED <<rows, pool, job, driving, network>>

\* awaitExisting: the row's response, or pending once the wait is over or
\* the row is gone.  "taken" is a request whose own claim was taken over.
\* Mutant of AnswerOf: whatever state the row is in.
AnswerOfAnyState(id) == rows[id].state

AnswerOf(id) == IF IsFinal(id) THEN rows[id].state ELSE "pending"

AwaitsExisting(r) ==
  /\ \/ /\ run[r].pc = "repeat"
        /\ run' = [run EXCEPT ![r] = Ended(AnswerOf(run[r].rec))]
        /\ UNCHANGED driving
     \/ run[r].pc = "taken" /\ Ends(r, AnswerOf(run[r].rec))
  /\ UNCHANGED <<rows, pool, job, network>>

-----------------------------------------------------------------------------
(* runOffchain                                                              *)

SettlesOffChain(r) ==
  /\ run[r].pc = "offchain"
  /\ Goes(r, "offFinish") \/ Goes(r, "offAbandon")
  /\ UNCHANGED <<rows, pool, job, driving, network>>

\* finish with claimedBy: only a claim the request still owns.
FinishesOffChain(r) ==
  LET id == run[r].rec IN
  /\ run[r].pc = "offFinish"
  /\ IF OwnsClaim(id, r)
       THEN Finish(id, "succeeded") /\ Ends(r, "succeeded")
       ELSE /\ IF Exists(id) THEN Goes(r, "taken") /\ UNCHANGED driving
                             ELSE Ends(r, "error")
            /\ UNCHANGED rows
  /\ UNCHANGED <<pool, job, network>>

AbandonsOffChain(r) ==
  /\ run[r].pc = "offAbandon"
  /\ Abandon(run[r].rec, r)
  /\ Ends(r, "unsigned")
  /\ UNCHANGED <<pool, job, network>>

-----------------------------------------------------------------------------
(* runClaimed: the channel lease                                            *)

LeasesChannel(r) ==
  /\ run[r].pc = "lease"
  /\ \E c \in Channels :
       /\ Acquire(c)
       /\ run' = [run EXCEPT ![r].pc = "check", ![r].chan = c]
  /\ UNCHANGED <<rows, job, driving, network>>

GetsNoChannel(r) ==
  /\ run[r].pc = "lease"
  /\ \A c \in Channels : ~Leasable(c)
  /\ Goes(r, "unleased")
  /\ UNCHANGED <<rows, pool, job, driving, network>>

\* movedSinceQuarantine; a failed read of the mark or of the account leases
\* the channel anyway.
ChecksChannel(r) ==
  LET c == run[r].chan
      mark == pool[c].mark
      Submits == run' = [run EXCEPT ![r].pc = "race", ![r].signer = "read"] IN
  /\ run[r].pc = "check"
  /\ \/ TakeQuarantineSequence(c) /\ Submits /\ UNCHANGED faults
     \/ Failure /\ Submits /\ UNCHANGED pool
     \/ /\ mark # None /\ accountSeq[c] > mark
        /\ TakeQuarantineSequence(c)
        /\ run' = [run EXCEPT ![r].pc = "requarantine", ![r].seq = accountSeq[c]]
        /\ UNCHANGED faults
  /\ UNCHANGED <<rows, job, driving, chain>>

\* Quarantined again; the request tries another channel while time is left.
QuarantinesAgain(r) ==
  /\ run[r].pc = "requarantine"
  /\ Quarantine(run[r].chan, run[r].seq)
  /\ \E pc \in {"lease", "unleased"} :
       run' = [run EXCEPT ![r].pc = pc, ![r].chan = None, ![r].seq = 0]
  /\ UNCHANGED <<rows, job, driving, network>>

AbandonsUnleased(r) ==
  /\ run[r].pc = "unleased"
  /\ Abandon(run[r].rec, r)
  /\ Ends(r, "unavailable")
  /\ UNCHANGED <<pool, job, network>>

-----------------------------------------------------------------------------
(* The submission thread: upstream builds the transaction on the leased     *)
(* channel and asks recordingSponsor to sign its fee bump.                  *)

Signs(r, step) ==
  run' = [run EXCEPT ![r] = IF step = "stopped" /\ @.pc = "done"
                              THEN Ended(@.answer)
                              ELSE [@ EXCEPT !.signer = step]]

BuildsTransaction(r) ==
  /\ run[r].signer = "read"
  /\ run' = [run EXCEPT ![r].signer = "built",
                        ![r].seq = accountSeq[run[r].chan] + 1]
  /\ UNCHANGED <<rows, pool, job, driving, network>>

\* A check, a simulation, a fee bound or the guard refuses it.
RefusesToSign(r) ==
  /\ run[r].signer \in {"read", "built"}
  /\ Signs(r, "stopped")
  /\ UNCHANGED <<rows, pool, job, driving, network>>

SignsFeeBump(r) ==
  /\ run[r].signer = "built"
  /\ Signs(r, IF run[r].closed THEN "stopped" ELSE "writing")
  /\ UNCHANGED <<rows, pool, job, driving, network>>

\* The envelope is written before upstream can send it (onRecorded follows
\* at once).  The write may commit and its answer be lost: then the signer
\* reports a failure.
RecordsEnvelope(r) ==
  LET id == run[r].rec IN
  /\ run[r].signer = "writing"
  /\ IF OwnsClaim(id, r)
       THEN /\ RecordEnvelope(id, run[r].chan, run[r].seq)
            /\ tx' = [tx EXCEPT ![id] = "signed"]
            /\ \/ Signs(r, "sending") /\ UNCHANGED faults
               \/ Signs(r, "stopped") /\ Failure
       ELSE Signs(r, "stopped") /\ UNCHANGED <<rows, tx, faults>>
  /\ UNCHANGED <<pool, job, driving, accountSeq>>

\* The network's answer to a send of the recorded bytes, and what the send
\* did.  A lost answer may hide an accepted send.
CanAccept(id) == tx[id] \in {"signed", "queued"} /\ ~SequenceUsed(id)
CanReject(id) == tx[id] \in {"signed", "doomed"} /\ ~SequenceUsed(id)

NetworkAnswers(id, reply) ==
  /\ \/ reply \in {"accepted", "lost"} /\ CanAccept(id)
          /\ tx' = [tx EXCEPT ![id] = "queued"]
     \/ reply = "rejected" /\ CanReject(id) /\ tx' = [tx EXCEPT ![id] = "doomed"]
     \/ reply = "badSeq" /\ SequenceUsed(id) /\ tx' = tx
     \/ reply \in {"refused", "lost"} /\ tx' = tx
  /\ IF reply = "lost" THEN Failure ELSE UNCHANGED faults

SendsFirst(r) ==
  /\ run[r].signer = "sending"
  /\ \E reply \in Replies :
       /\ NetworkAnswers(run[r].rec, reply)
       /\ Signs(r, IF run[r].pc # "race" THEN "stopped"
                   ELSE CASE reply = "accepted" -> "accepted"
                          [] reply = "lost" -> "unheard"
                          [] OTHER -> "refused")
  /\ UNCHANGED <<rows, pool, job, driving, accountSeq>>

-----------------------------------------------------------------------------
(* runClaimed: the race between the submission and its windows              *)

RaceEnds(r, result) ==
  /\ run' = [run EXCEPT ![r].pc = "fetch", ![r].raced = result,
                        ![r].closed = ~Noted(r),
                        ![r].signer = IF Submitting(r) THEN @ ELSE "stopped"]
  /\ UNCHANGED <<rows, pool, job, driving, network>>

SubmissionReturns(r) ==
  /\ run[r].pc = "race"
  /\ \/ run[r].signer = "accepted" /\ RaceEnds(r, "accepted")
     \/ run[r].signer = "accepted" /\ tx[run[r].rec] = "ok" /\ RaceEnds(r, "settled")
     \/ run[r].signer = "refused" /\ RaceEnds(r, "refused")
     \/ run[r].signer \in {"unheard", "stopped"} /\ RaceEnds(r, "error")

SignWindowElapses(r) ==
  /\ run[r].pc = "race" /\ ~Noted(r)
  /\ RaceEnds(r, "error")

ConfirmWindowElapses(r) ==
  /\ run[r].pc = "race" /\ Noted(r)
  /\ RaceEnds(r, "none")

\* A job started from the row as it reads now.
LooksFrom(id) ==
  [at |-> "look", on |-> id, tracked |-> ~rows[id].accepted,
   back |-> rows[id].released, reply |-> "none", verdict |-> "none",
   mark |-> None]

Recorded(id, r) == /\ rows[id].state \notin {"absent", "claimed"}
                   /\ rows[id].owner = r

FetchesRow(r) ==
  LET id == run[r].rec IN
  /\ run[r].pc = "fetch"
  /\ IF Recorded(id, r)
       THEN /\ Goes(r, "answer")
            /\ job' = [job EXCEPT ![r] = LooksFrom(id)]
       ELSE /\ Goes(r, IF OwnsClaim(id, r) THEN "abandon" ELSE "lost")
            /\ UNCHANGED job
  /\ UNCHANGED <<rows, pool, driving, network>>

\* The claim was taken over: only the channel is given back.
ReleasesLost(r) ==
  /\ run[r].pc = "lost"
  /\ Release(run[r].chan)
  /\ Goes(r, "taken")
  /\ UNCHANGED <<rows, job, driving, network>>

\* Mutant of AbandonsClaim: the channel goes with the claim, before the row is
\* read again.
AbandonsClaimAndChannel(r) ==
  /\ run[r].pc = "abandon"
  /\ Abandon(run[r].rec, r)
  /\ Release(run[r].chan)
  /\ Goes(r, "recheck")
  /\ UNCHANGED <<job, driving, network>>

AbandonsClaim(r) ==
  /\ run[r].pc = "abandon"
  /\ Abandon(run[r].rec, r)
  /\ Goes(r, "recheck")
  /\ UNCHANGED <<pool, job, driving, network>>

\* Mutant of RechecksRow: the row is not read again after the abandon.
TrustsAbandon(r) ==
  /\ run[r].pc = "recheck"
  /\ Goes(r, "unsigned")
  /\ UNCHANGED <<rows, pool, job, driving, network>>

\* A signature under way may have recorded its envelope before the abandon.
RechecksRow(r) ==
  LET id == run[r].rec IN
  /\ run[r].pc = "recheck"
  /\ IF Recorded(id, r)
       THEN /\ Goes(r, "answer")
            /\ job' = [job EXCEPT ![r] = LooksFrom(id)]
       ELSE Goes(r, "unsigned") /\ UNCHANGED job
  /\ UNCHANGED <<rows, pool, driving, network>>

AnswersUnsigned(r) ==
  /\ run[r].pc = "unsigned"
  /\ Release(run[r].chan)
  /\ Ends(r, "unsigned")
  /\ UNCHANGED <<rows, job, network>>

\* The answer of the scheme's own send; a failed write leaves it in flight.
RecordsFirstAnswer(r) ==
  LET id == run[r].rec
      success == run[r].raced = "settled" IN
  /\ run[r].pc = "answer"
  /\ IF run[r].raced \in {"settled", "accepted", "refused"}
       THEN \/ EndSend(id, FirstSend, run[r].raced # "refused") /\ UNCHANGED faults
            \/ Failure /\ UNCHANGED rows
       ELSE UNCHANGED <<rows, faults>>
  /\ run' = [run EXCEPT ![r].pc = "drive",
                        ![r].raced = IF @ = "refused" THEN @ ELSE "none"]
  /\ job' = IF success THEN [job EXCEPT ![r].at = "finish", ![r].verdict = "succeeded"]
                       ELSE job
  /\ UNCHANGED <<pool, driving, chain>>

-----------------------------------------------------------------------------
(* drive, on a request or a reconciler                                      *)

\* A request waits at "answer" before its job runs.
Drives(d, at) ==
  /\ job[d].at = at
  /\ d \in Requests => run[d].pc = "drive"

\* The request is still in firstSubmissionRefused.
FirstRefused(d) == d \in Requests /\ run[d].raced = "refused"

JobGoes(d, at) ==
  /\ job' = [job EXCEPT ![d].at = at, ![d].reply = "none"]
  /\ UNCHANGED <<run, driving>>

Finishes(d, verdict, mark) ==
  /\ job' = [job EXCEPT ![d].at = "finish", ![d].reply = "none",
                        ![d].verdict = verdict, ![d].mark = mark]
  /\ UNCHANGED <<run, driving>>

GivesBack(d, mark) ==
  /\ job' = [job EXCEPT ![d].at = "giveBack", ![d].reply = "none",
                        ![d].mark = mark]
  /\ UNCHANGED <<run, driving>>

JobEnds(d, a) ==
  /\ job' = [job EXCEPT ![d] = NoJob]
  /\ IF d \in Requests THEN Ends(d, a) ELSE UNCHANGED <<run, driving>>

\* After a look that decided nothing: look again, or answer pending once the
\* deadline passed (a reconciler's passes at once).  A request leaves
\* firstSubmissionRefused by reading its row again.
GoesOn(d, back) ==
  IF FirstRefused(d)
    THEN JobGoes(d, "reload")
    ELSE \/ d \in Requests
              /\ job' = [job EXCEPT ![d].at = "look", ![d].reply = "none",
                                    ![d].back = back]
              /\ UNCHANGED <<run, driving>>
         \/ JobEnds(d, "pending")

Waits(d) == GoesOn(d, job[d].back)

\* Mutant of StartsReconcile: rows with a send in flight are left alone.
StartsReconcileOnQuietRows(p) ==
  /\ job[p].at = "idle"
  /\ \E id \in Requests :
       /\ rows[id].state = "submitted" /\ rows[id].sends = {}
       /\ id \notin driving[p]
       /\ job' = [job EXCEPT ![p] = LooksFrom(id)]
  /\ UNCHANGED <<rows, pool, run, driving, network>>

\* reconcile: a recorded row idle for long enough that no request of this
\* process drives.
StartsReconcile(p) ==
  /\ job[p].at = "idle"
  /\ \E id \in Requests :
       /\ rows[id].state = "submitted"
       /\ id \notin driving[p]
       /\ job' = [job EXCEPT ![p] = LooksFrom(id)]
  /\ UNCHANGED <<rows, pool, run, driving, network>>

\* What the recorded transaction's own hash and bounds decide.  A failure or
\* an expiry may have to wait for a read, or for the payer's authorization to
\* expire; a failure that waits for the latter gives the channel back.
Decides(d, id) ==
  \/ tx[id] = "ok" /\ Finishes(d, "succeeded", None)
  \/ tx[id] = "bad" /\ \/ Finishes(d, "failed", None)
                       \/ id \in Exact /\ GivesBack(d, None)
                       \/ Waits(d)
  \/ tx[id] = "dead" /\ (Finishes(d, "expired", None) \/ Waits(d))

\* Mutant of DecidesConflict: a used sequence number is proof enough, whoever
\* used it.
DecidesConflictBlindly(d, id) ==
  \/ /\ SequenceUsed(id)
     /\ LET seen == accountSeq[Channel(id)] IN
          Finishes(d, "failed", seen) \/ GivesBack(d, seen)
  \/ Waits(d)

\* finishSequenceTaken: once sequenceTaken proves that the bytes can never
\* apply, the settlement finishes or gives its channel back and waits.
DecidesConflict(d, id) ==
  \/ /\ SequenceUsed(id) /\ ~Included(id)
     /\ LET seen == accountSeq[Channel(id)] IN
          Finishes(d, "failed", seen) \/ GivesBack(d, seen)
  \/ Waits(d)

\* broadcast, up to the send: a send of a tracked settlement is marked
\* first, and one that cannot be marked is not made.
MarksSend(d, id) ==
  \/ job[d].tracked /\ BeginSend(id, d) /\ JobGoes(d, "send") /\ UNCHANGED faults
  \/ job[d].tracked /\ Failure /\ Waits(d) /\ UNCHANGED rows
  \/ ~job[d].tracked /\ JobGoes(d, "send") /\ UNCHANGED <<rows, faults>>

Undecided(id) == tx[id] \in {"signed", "doomed", "queued"}

\* One look; one that cannot read the transaction waits.  firstSubmissionRefused sends whatever its hash does not show
\* as included; drive sends only bytes within their bounds that did not give
\* their channel back.
Looks(d) ==
  LET id == job[d].on IN
  /\ Drives(d, "look")
  /\ \/ /\ FirstRefused(d) /\ Included(id) /\ JobGoes(d, "reload")
        /\ UNCHANGED <<rows, faults>>
     \/ /\ ~FirstRefused(d) /\ Decides(d, id)
        /\ UNCHANGED <<rows, faults>>
     \/ /\ Undecided(id) \/ (FirstRefused(d) /\ tx[id] = "dead")
        /\ ~job[d].back \/ FirstRefused(d)
        /\ MarksSend(d, id)
     \/ /\ Undecided(id) /\ job[d].back /\ ~FirstRefused(d)
        /\ DecidesConflict(d, id)
        /\ UNCHANGED <<rows, faults>>
     \/ Failure /\ Waits(d) /\ UNCHANGED rows
  /\ UNCHANGED <<pool, chain>>

Sends(d) ==
  /\ Drives(d, "send")
  /\ \E reply \in Replies :
       /\ NetworkAnswers(job[d].on, reply)
       /\ job' = [job EXCEPT ![d].at = "reply", ![d].reply = reply]
  /\ UNCHANGED <<rows, pool, run, driving, accountSeq>>

\* Mutant of RecordsAnswer: a passing refusal counts as one for good.
RecordsAnswerHarshly(d) ==
  LET id == job[d].on
      reply == job[d].reply IN
  /\ Drives(d, "reply")
  /\ IF ~job[d].tracked \/ reply = "lost"
       THEN UNCHANGED rows
       ELSE EndSend(id, d, reply = "accepted")
  /\ CASE reply = "badSeq" -> DecidesConflict(d, id)
       [] reply \in {"rejected", "refused"} -> JobGoes(d, "weigh")
       [] OTHER -> Waits(d)
  /\ UNCHANGED <<pool, network>>

\* A lost answer, or one that could not be written, leaves the send in flight.
RecordsAnswer(d) ==
  LET id == job[d].on
      reply == job[d].reply IN
  /\ Drives(d, "reply")
  /\ IF ~job[d].tracked
       THEN UNCHANGED <<rows, faults>>
       ELSE \/ reply # "lost" /\ EndSend(id, d, reply = "accepted") /\ UNCHANGED faults
            \/ reply = "lost" /\ ForgetSend(id, d) /\ UNCHANGED faults
            \/ reply # "lost" /\ Failure /\ ForgetSend(id, d)
  /\ CASE reply = "badSeq" -> DecidesConflict(d, id)
       [] reply = "rejected" -> JobGoes(d, "weigh")
       [] OTHER -> Waits(d)
  /\ UNCHANGED <<pool, chain>>

\* The network refused the bytes for good: firstSubmissionRefused finishes,
\* drive an upto settlement only when no recorded send may have been accepted;
\* both wait while another party can still carry an exact authorization.
WeighsRejection(d) ==
  LET id == job[d].on IN
  /\ Drives(d, "weigh")
  /\ \/ /\ FirstRefused(d) \/ id \in Exact \/ ~BroadcastMayBePublic(id)
        /\ Finishes(d, "failed", None)
     \/ Waits(d)
  /\ UNCHANGED <<rows, pool, network>>

\* After firstSubmissionRefused decided nothing: confirm, from a fresh read.
Reloads(d) ==
  /\ Drives(d, "reload")
  /\ job' = [job EXCEPT ![d] = LooksFrom(job[d].on)]
  /\ run' = [run EXCEPT ![d].raced = "none"]
  /\ UNCHANGED <<rows, pool, driving, network>>

\* giveBackChannel: only the caller that marked it hands the channel back.
MarksReleased(d) ==
  LET id == job[d].on IN
  /\ Drives(d, "giveBack")
  /\ \/ /\ CanReleaseChannel(id)
        /\ ReleaseChannel(id)
        /\ JobGoes(d, "hand")
        /\ UNCHANGED faults
     \/ ~CanReleaseChannel(id) /\ GoesOn(d, rows[id].released) /\ UNCHANGED <<rows, faults>>
     \/ Failure /\ Waits(d) /\ UNCHANGED rows
  /\ UNCHANGED <<pool, chain>>

ReturnsChannel(c, mark) == IF mark = None THEN Release(c) ELSE Quarantine(c, mark)

\* The pool's call, and the look's own read of the mark (gaveChannelBack): if
\* that fails, the look goes on with what it knew.
HandsBack(d) ==
  /\ Drives(d, "hand")
  /\ \/ ReturnsChannel(Channel(job[d].on), job[d].mark) /\ GoesOn(d, TRUE) /\ UNCHANGED faults
     \/ Failure /\ UNCHANGED pool /\ GoesOn(d, TRUE)
     \/ Failure /\ ReturnsChannel(Channel(job[d].on), job[d].mark) /\ Waits(d)
  /\ UNCHANGED <<rows, chain>>

\* complete: the terminal transition; the driver that made it releases the
\* channel unless the settlement gave it back before.
CompletesRow(d) ==
  LET id == job[d].on IN
  /\ Drives(d, "finish")
  /\ \/ /\ CanFinish(id)
        /\ Finish(id, job[d].verdict)
        /\ IF rows[id].released THEN JobEnds(d, job[d].verdict)
                                ELSE JobGoes(d, "free")
        /\ UNCHANGED faults
     \/ ~CanFinish(id) /\ JobEnds(d, rows[id].state) /\ UNCHANGED <<rows, faults>>
     \/ Failure /\ JobEnds(d, "error") /\ UNCHANGED rows
  /\ UNCHANGED <<pool, chain>>

\* A failed write throws: the request answers an error, and the lease stays
\* until it expires.
FreesChannel(d) ==
  LET id == job[d].on IN
  /\ Drives(d, "free")
  /\ \/ /\ ReturnsChannel(Channel(id), job[d].mark)
        /\ JobEnds(d, rows[id].state)
        /\ UNCHANGED faults
     \/ Failure /\ JobEnds(d, "error") /\ UNCHANGED pool
  /\ UNCHANGED <<rows, chain>>

-----------------------------------------------------------------------------
(* The network, clocks and crashes                                          *)

IncludesTransaction(id) ==
  LET c == Channel(id) IN
  /\ tx[id] = "queued"
  /\ accountSeq[c] + 1 = Sequence(id)
  /\ \E result \in {"ok", "bad"} : tx' = [tx EXCEPT ![id] = result]
  /\ accountSeq' = [accountSeq EXCEPT ![c] = Sequence(id)]
  /\ UNCHANGED <<rows, pool, run, job, driving, faults>>

\* Nobody asks once the row is final.
PassesBounds(id) ==
  /\ tx[id] \in {"signed", "doomed", "queued"}
  /\ ~IsFinal(id)
  /\ tx' = [tx EXCEPT ![id] = "dead"]
  /\ UNCHANGED <<rows, pool, run, job, driving, accountSeq, faults>>

\* Someone else uses the channel account.
UsesChannelAccount(c) ==
  /\ faults.foreign < MaxForeign
  /\ accountSeq' = [accountSeq EXCEPT ![c] = @ + 1]
  /\ faults' = [faults EXCEPT !.foreign = @ + 1]
  /\ UNCHANGED <<rows, pool, run, job, driving, tx>>

\* Only a repeat of the same request asks whether a claim is stale.
Repeated(id) == \E r \in Requests \ {rows[id].owner} :
                  run[r].pc = "start" /\ KeyOf[r] = KeyOf[id] /\ SameRequest(id, r)

ClaimLapses(id) ==
  /\ Repeated(id)
  /\ ClaimExpires(id)
  /\ UNCHANGED <<pool, run, job, driving, network>>

CooldownPasses(c) ==
  /\ CooldownEnds(c)
  /\ UNCHANGED <<rows, run, job, driving, network>>

\* Requests that hold a lease of c, until their envelope is recorded and the
\* row holds the channel for them.
LeasePcs == {"check", "requarantine", "race", "fetch", "lost", "abandon",
             "recheck", "unsigned"}
Leaseholders(c) == {r \in Requests : /\ run[r].chan = c
                                     /\ run[r].pc \in LeasePcs
                                     /\ ~Recorded(run[r].rec, r)}

\* Drivers about to hand c back.
HandingBack(c) == {d \in Drivers : /\ job[d].at \in {"free", "hand"}
                                   /\ Channel(job[d].on) = c}

\* leaseTtlMs exceeds claimTtlMs, where signing stops, by far: a request that
\* recorded nothing is done with its channel, and with writing an envelope,
\* before its lease expires.  A recorded settlement may stay open longer.
LeaseLapses(c) ==
  /\ LeaseExpires(c)
  /\ Leaseholders(c) = {}
  /\ \A r \in Requests : ~(run[r].chan = c /\ run[r].signer = "writing")
  /\ OutlivesLease \/ (OpenOn(c) \cup HandingBack(c) = {})
  /\ UNCHANGED <<rows, run, job, driving, network>>

\* A replica dies with its requests and its reconciler, and restarts: what
\* it was sending stays marked in the ledger for good.
Crashes(p) ==
  LET dies == {r \in Requests : ReplicaOf[r] = p /\ run[r].pc \notin {"start", "done"}}
      sending == {d \in dies \cup {p} : job[d].at \in {"send", "reply"}} IN
  /\ Failure
  /\ run' = [r \in Requests |->
               IF r \in dies THEN [NoRun EXCEPT !.pc = "dead"]
               ELSE IF ReplicaOf[r] = p /\ Submitting(r) THEN Ended(run[r].answer)
               ELSE run[r]]
  /\ job' = [d \in Drivers |-> IF d \in dies \cup {p} THEN NoJob ELSE job[d]]
  /\ driving' = [driving EXCEPT ![p] = {}]
  /\ rows' = [id \in Requests |->
                [rows[id] EXCEPT !.sends =
                   IF @ \cap sending = {} THEN @ ELSE (@ \ sending) \cup {LostSend}]]
  /\ UNCHANGED <<pool, tx, accountSeq>>

-----------------------------------------------------------------------------
RequestStep(r) ==
  \/ Claims(r) \/ AnswersRepeat(r) \/ AwaitsExisting(r) \/ CallThrows(r)
  \/ SettlesOffChain(r) \/ FinishesOffChain(r) \/ AbandonsOffChain(r)
  \/ LeasesChannel(r) \/ GetsNoChannel(r) \/ ChecksChannel(r)
  \/ QuarantinesAgain(r) \/ AbandonsUnleased(r)
  \/ SubmissionReturns(r) \/ SignWindowElapses(r) \/ ConfirmWindowElapses(r)
  \/ FetchesRow(r) \/ ReleasesLost(r) \/ AbandonsClaim(r) \/ RechecksRow(r)
  \/ AnswersUnsigned(r) \/ RecordsFirstAnswer(r)

SignerStep(r) ==
  \/ BuildsTransaction(r) \/ RefusesToSign(r) \/ SignsFeeBump(r)
  \/ RecordsEnvelope(r) \/ SendsFirst(r)

JobStep(d) ==
  \/ Looks(d) \/ Sends(d) \/ RecordsAnswer(d) \/ WeighsRejection(d)
  \/ Reloads(d) \/ MarksReleased(d) \/ HandsBack(d) \/ CompletesRow(d)
  \/ FreesChannel(d)

NetworkStep ==
  \/ \E id \in Requests : IncludesTransaction(id) \/ PassesBounds(id)
  \/ \E c \in Channels : UsesChannelAccount(c)

ClockStep ==
  \/ \E id \in Requests : ClaimLapses(id)
  \/ \E c \in Channels : CooldownPasses(c) \/ LeaseLapses(c)

Next ==
  \/ \E r \in Requests : RequestStep(r) \/ SignerStep(r)
  \/ \E p \in Replicas : StartsReconcile(p) \/ Crashes(p)
  \/ \E d \in Drivers : JobStep(d)
  \/ NetworkStep
  \/ ClockStep

Spec == Init /\ [][Next]_vars

\* A process that lives runs on (its timers and RPC timeouts end every wait),
\* the reconciler's timer starts it again and again, and time passes: leases
\* and cooldowns lapse, transactions reach their bounds.  The payer's
\* authorization expires too, so a driver that looks at one decided row over
\* and over does not put off finishing it for ever.
Fairness ==
  /\ \A r \in Requests : WF_vars(RequestStep(r)) /\ WF_vars(SignerStep(r))
  /\ \A p \in Replicas : WF_vars(StartsReconcile(p))
  /\ \A d \in Drivers :
       /\ WF_vars(JobStep(d))
       /\ SF_vars(Looks(d) /\ job'[d].at = "finish")
  /\ \A id \in Requests : WF_vars(PassesBounds(id)) /\ WF_vars(ClaimLapses(id))
  /\ \A c \in Channels : WF_vars(CooldownPasses(c)) /\ WF_vars(LeaseLapses(c))

FairSpec == Spec /\ Fairness

-----------------------------------------------------------------------------
(* Properties                                                               *)

TypeOK ==
  /\ rows \in [Requests -> Row]
  /\ pool \in [Channels -> Slot]
  /\ run \in [Requests -> Run]
  /\ job \in [Drivers -> Job]
  /\ driving \in [Replicas -> SUBSET Requests]
  /\ tx \in [Requests -> TxStates]
  /\ accountSeq \in [Channels -> Nat]
  /\ faults \in [failures : Nat, foreign : Nat]

\* Everyone a channel is promised to: requests that lease it and owners of
\* recorded settlements that did not give it back.
Holders(c) == Leaseholders(c) \cup {rows[id].owner : id \in OpenOn(c)}

\* "A channel is leased exclusively from the moment a settlement starts
\* until its transaction is final" (channels.ts): no channel is promised to
\* two settlements.
ChannelExclusive ==
  \A c \in Channels : \A a, b \in Holders(c) : a = b

\* Recorded bytes the network may still apply.
Live(id) ==
  /\ tx[id] \in {"signed", "queued"}
  /\ ~SequenceUsed(id)

\* Every in-flight settlement has its own transaction source: two recorded
\* transactions that may both still apply never carry one sequence number of
\* one channel.
NoSequenceClash ==
  \A i, j \in Requests :
    /\ Live(i) /\ Live(j)
    /\ Channel(i) = Channel(j) /\ Sequence(i) = Sequence(j)
    => i = j

\* A settlement gives its channel back, by finishing or before, only when its
\* bytes can never apply from now on.
HandedBackIsDead ==
  \A id \in Requests :
    tx[id] # "none" /\ (IsFinal(id) \/ rows[id].released) => ~Live(id)

\* The envelope is written before it is sent and its row outlives every
\* crash, abandon and takeover: a payment has at most one recorded
\* transaction, ever, and its row never goes back.
OneTransactionPerKey ==
  /\ \A i, j \in Requests :
       tx[i] # "none" /\ tx[j] # "none" /\ KeyOf[i] = KeyOf[j] => i = j
  /\ \A id \in Requests :
       tx[id] # "none" => rows[id].state \in {"submitted"} \cup FinalStates

\* No row calls bytes unsent that the network accepted: whatever answers were
\* lost and whichever drivers sent at once, an accepted send is recorded as
\* accepted or still counts as in flight.
AcceptedIsPublic ==
  \A id \in Requests :
    tx[id] \in {"queued", "ok", "bad"} => BroadcastMayBePublic(id)

\* A settlement succeeds only if its transaction did (or it needs none), and
\* one that failed or expired never succeeds on chain afterwards.
VerdictIsTrue ==
  \A id \in Requests :
    /\ rows[id].state = "succeeded" => tx[id] = "ok" \/ rows[id].owner \in OffChain
    /\ rows[id].state \in {"failed", "expired"} => tx[id] # "ok"

\* A request told that nothing was signed (so the payment may be settled
\* again as it is) never has a transaction recorded under its claim, however
\* late its signature comes.
UnsignedIsTrue ==
  \A r \in Requests :
    run[r].answer \in {"unsigned", "unavailable"} =>
      \A id \in Requests : tx[id] # "none" => rows[id].owner # r

\* Repeats of one request are answered alike: two final answers to the same
\* key and fingerprint never differ.
AnswersAgree ==
  \A r, q \in Requests :
    /\ KeyOf[r] = KeyOf[q]
    /\ run[r].answer \in FinalStates /\ run[q].answer \in FinalStates
    => run[r].answer = run[q].answer

\* "Settlements a request in this process is driving right now" (engine.ts):
\* every settlement a live request drives is in its replica's set.
DrivenIsMarked ==
  \A r \in Requests :
    run[r].pc = "drive" => run[r].rec \in driving[ReplicaOf[r]]

\* A recorded settlement is decided in the end, whatever crashed, whoever
\* answered pending and whichever writes failed: some driver comes back to it.
SettlementDecided ==
  \A id \in Requests : rows[id].state = "submitted" ~> IsFinal(id)

\* No channel is lost for good: whatever held it, a request can lease it again
\* and again.
ChannelsComeBack == \A c \in Channels : []<>Leasable(c)

-----------------------------------------------------------------------------
(* The inductive invariant: what makes TypeOK and OneTransactionPerKey hold  *)
(* through every step.                                                       *)

\* Who is on the way to sign has a claim, a channel and an open submission.
OnChainPcs == {"lease", "check", "requarantine", "unleased", "race", "fetch",
               "lost", "abandon", "recheck", "unsigned", "answer", "drive"}
OffChainPcs == {"offchain", "offFinish", "offAbandon"}

RunFits(r, v) ==
  /\ v.pc \notin {"start", "done", "dead"} => v.rec \in Requests
  /\ v.pc \in {"check", "requarantine"} => v.chan \in Channels
  /\ v.signer # "off" =>
       v.pc \notin {"start", "repeat", "lease", "check", "requarantine",
                   "unleased"} \cup OffChainPcs
  /\ v.signer \in SubmittingSteps => v.rec \in Requests /\ v.chan \in Channels
  /\ v.pc \in OnChainPcs => r \notin OffChain
  /\ v.pc \in OffChainPcs => r \in OffChain

RunShape == \A r \in Requests : RunFits(r, run[r])

\* A row that left "claimed" has its transaction, or was settled off-chain;
\* a recorded transaction has its row.
RowFits(row, t) ==
  /\ row.state = "submitted" => t # "none"
  /\ row.state \in FinalStates /\ row.owner \notin OffChain => t # "none"
  /\ t # "none" =>
       /\ row.state \in {"submitted"} \cup FinalStates
       /\ row.channel \in Channels

RowShape == \A id \in Requests : RowFits(rows[id], tx[id])

\* A job is about a recorded settlement.
JobFits(j) ==
  /\ j.at # "idle" => j.on \in Requests /\ tx[j.on] # "none"
  /\ j.at = "finish" => j.verdict \in FinalStates
  /\ j.at = "free" => IsFinal(j.on)

JobShape ==
  /\ \A d \in Drivers : JobFits(job[d])
  /\ \A r \in Requests : run[r].pc = "answer" => job[r].at = "look"

\* The unique index: one row per key.
OneRowPerKey ==
  \A i, j \in Requests :
    Exists(i) /\ Exists(j) /\ KeyOf[i] = KeyOf[j] => i = j

IndInv == TypeOK /\ RunShape /\ RowShape /\ JobShape /\ OneRowPerKey
=============================================================================
