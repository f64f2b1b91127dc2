----------------------------- MODULE SellerDedupe -----------------------------
(***************************************************************************)
(* The seller's settle wrapper (packages/sdk/src/seller/dedupe.ts): a      *)
(* payment that is sent to /settle again and again is served once, and a   *)
(* buyer whose first answer was lost is still served.  Every wrapper tags  *)
(* its settle attempts; Rail402 records the attempt that holds the         *)
(* settlement's claim and echoes it in the marker of every repeat          *)
(* (engine.ts answerExisting, memory-ledger.ts claim, responses.ts         *)
(* markRepeat).  One payment, with every answer that may be lost and every *)
(* wrapper that may restart.                                               *)
(***************************************************************************)
EXTENDS Integers, FiniteSets

CONSTANTS
  Attempts,        \* the settle attempts that carry the payment
  Wrappers,        \* the wrappers that accept it, each in a process of its own
  TrackedCapacity, \* unfinished attempts a wrapper keeps (TRACKED_CAPACITY)
  MayThrow         \* whether settle may throw once the envelope is recorded

ASSUME DedupeAssumption ==
  Attempts \subseteq Nat \ {0} /\ TrackedCapacity \in Nat /\ MayThrow \in BOOLEAN

VARIABLES
  marks,    \* the facilitator marks repeats; if not, the wrappers share a memory
  record,   \* the facilitator's record of the payment, and the attempt it keeps
  job,      \* how far the facilitator is with each attempt, and its answer
  call,     \* how far the wrapper is with each attempt, and which wrapper
  tracked,  \* the unfinished attempts of each wrapper
  memory,   \* the wrappers whose memory holds the transaction
  served,   \* how often the resource was served for the payment
  forgot    \* a wrapper restarted, or dropped an attempt

dedupeVars == <<marks, record, job, call, tracked, memory, served, forgot>>

NoAttempt == 0  \* also: no wrapper

Outcomes == {"success", "marked", "pending", "refused"}

DedupeInit ==
  /\ marks \in BOOLEAN
  /\ record = [state |-> "none", attempt |-> NoAttempt]
  /\ job = [a \in Attempts |-> [at |-> "idle", echo |-> NoAttempt]]
  /\ call = [a \in Attempts |-> [at |-> "idle", by |-> NoAttempt]]
  /\ tracked = [w \in Wrappers |-> {}]
  /\ memory = {} /\ served = 0 /\ forgot = FALSE

-----------------------------------------------------------------------------
(* The facilitator. *)

Facilitates == UNCHANGED <<marks, call, tracked, memory, served, forgot>>

Serves(a, at, echo) == job' = [job EXCEPT ![a] = [at |-> at, echo |-> echo]]

\* A new claim.
ClaimsPayment(a) ==
  /\ job[a].at = "sent" /\ record.state = "none"
  /\ record' = [state |-> "claimed", attempt |-> a]
  /\ Serves(a, "holds", NoAttempt) /\ Facilitates

KeepsAttempt(a) == record

TakenOverBy(a) == [state |-> "claimed", attempt |-> a]

\* The same for a claim that went stale: the attempt is the new holder's.
TakesStaleClaim(a) ==
  /\ job[a].at = "sent" /\ record.state = "claimed"
  /\ record' = TakenOverBy(a)
  /\ job' = [b \in Attempts |->
               IF b = a THEN [job[a] EXCEPT !.at = "holds"]
               ELSE IF job[b].at = "holds" THEN [job[b] EXCEPT !.at = "waits"] ELSE job[b]]
  /\ Facilitates

\* The request is answered from the record; so is one that lost its claim.
FindsExisting(a) ==
  /\ job[a].at = "sent" /\ record.state # "none"
  /\ Serves(a, "waits", NoAttempt) /\ UNCHANGED record /\ Facilitates

\* The holder's envelope is recorded.
RecordsEnvelope(a) ==
  /\ job[a].at = "holds" /\ record.state = "claimed"
  /\ record' = [record EXCEPT !.state = "submitted"]
  /\ UNCHANGED job /\ Facilitates

\* Nothing was signed: abandon, and any error.
AbandonsClaim(a) ==
  /\ job[a].at = "holds" /\ record.state = "claimed"
  /\ record' = [state |-> "none", attempt |-> NoAttempt]
  /\ Serves(a, "refused", NoAttempt) /\ Facilitates

\* The holder, or a reconciler, decides the settlement.
DecidesPayment ==
  /\ record.state = "submitted"
  /\ \E s \in {"settled", "failed"} : record' = [record EXCEPT !.state = s]
  /\ UNCHANGED job /\ Facilitates

\* What the holder answers: the outcome, or at its deadline settlement_pending.
AnswersHolder(a) ==
  /\ job[a].at = "holds"
  /\ \/ record.state = "settled" /\ Serves(a, "success", NoAttempt)
     \/ record.state = "failed" /\ Serves(a, "refused", NoAttempt)
     \/ record.state = "submitted" /\ Serves(a, "pending", NoAttempt)
  /\ UNCHANGED record /\ Facilitates

\* awaitExisting: the outcome with the marker, or at the deadline pending, or
\* in progress while there is no transaction.
AnswersExisting(a) ==
  /\ job[a].at = "waits"
  /\ \/ record.state = "settled" /\ marks /\ Serves(a, "marked", record.attempt)
     \/ record.state = "settled" /\ ~marks /\ Serves(a, "success", NoAttempt)
     \/ record.state = "submitted" /\ Serves(a, "pending", NoAttempt)
     \/ record.state \in {"none", "claimed", "failed"} /\ Serves(a, "refused", NoAttempt)
  /\ UNCHANGED record /\ Facilitates

\* The ledger fails: settle throws, and the scheme catches it and answers
\* unexpected_settle_error, which the route returns as any other answer.
SettleThrows(a) ==
  /\ job[a].at \in {"holds", "waits"}
  /\ job[a].at = "holds" /\ record.state # "claimed" => MayThrow
  /\ Serves(a, "refused", NoAttempt)
  /\ UNCHANGED record /\ Facilitates

-----------------------------------------------------------------------------
(* A wrapper. *)

SendsSettle(a, w) ==
  /\ call[a].at = "idle" /\ \A b \in Attempts : b < a => call[b].at # "idle"
  /\ call' = [call EXCEPT ![a] = [at |-> "open", by |-> w]]
  /\ Serves(a, "sent", NoAttempt)
  /\ UNCHANGED <<marks, record, tracked, memory, served, forgot>>

Closes(a, at) == call' = [call EXCEPT ![a].at = at]

\* UnfinishedAttempts.add: a new one is dropped when the set is full.
AddsUnfinished(a) ==
  LET w == call[a].by IN
  IF Cardinality(tracked[w]) < TrackedCapacity
  THEN tracked' = [tracked EXCEPT ![w] = @ \cup {a}] /\ UNCHANGED forgot
  ELSE forgot' = TRUE /\ UNCHANGED tracked

ForgetsUnanswered(a) ==
  /\ call[a].at = "open" /\ Closes(a, "unanswered")
  /\ UNCHANGED <<marks, record, job, tracked, memory, served, forgot>>

\* No answer of the facilitator's own; its work on the attempt goes on, or the
\* request never reached it.
HearsNothing(a) ==
  /\ call[a].at = "open"
  /\ AddsUnfinished(a) /\ Closes(a, "unanswered")
  /\ UNCHANGED <<marks, record, memory, served>>
  /\ \/ UNCHANGED job
     \/ job[a].at = "sent" /\ Serves(a, "unreached", NoAttempt)

HearsPending(a) ==
  /\ call[a].at = "open" /\ job[a].at = "pending"
  /\ AddsUnfinished(a) /\ Closes(a, "unanswered")
  /\ UNCHANGED <<marks, record, job, memory, served>>

\* Any other failure: returned, as every outcome of settle is, or raised, as the
\* refusals before it are.
HearsRefusal(a) ==
  /\ call[a].at = "open" /\ job[a].at = "refused"
  /\ Closes(a, "refused")
  /\ UNCHANGED <<marks, record, job, tracked, memory, served, forgot>>

\* A success: a marked one is set aside unless take finds its attempt, which
\* forgets it; then the memory is asked.
HearsSuccess(a) ==
  LET w == call[a].by
      echo == job[a].echo
      resumed == echo \in tracked[w]
  IN /\ call[a].at = "open" /\ job[a].at \in {"success", "marked"}
     /\ IF job[a].at = "marked"
        THEN /\ tracked' = [tracked EXCEPT ![w] = @ \ {echo}]
             /\ Closes(a, IF resumed THEN "asks" ELSE "repeat")
        ELSE Closes(a, "asks") /\ UNCHANGED tracked
     /\ UNCHANGED <<marks, record, job, memory, served, forgot>>

\* The memory that the wrapper asks: its own, or the shared one.
HasSeen(w) == IF marks THEN w \in memory ELSE memory # {}

\* memory.claim answers, and the first success is served.
AsksMemory(a) ==
  LET w == call[a].by
  IN /\ call[a].at = "asks"
     /\ memory' = memory \cup {w}
     /\ IF HasSeen(w) THEN Closes(a, "repeat") /\ UNCHANGED served
        ELSE Closes(a, "served") /\ served' = served + 1
     /\ UNCHANGED <<marks, record, job, tracked, forgot>>

\* The wrapper's process restarts: its attempts, its own memory and the calls
\* under way are gone.
RestartsWrapper(w) ==
  /\ \E a \in Attempts : call[a].by = w /\ call[a].at # "idle"
  /\ tracked' = [tracked EXCEPT ![w] = {}]
  /\ memory' = IF marks THEN memory \ {w} ELSE memory
  /\ call' = [a \in Attempts |->
                IF call[a].by = w /\ call[a].at \in {"open", "asks"}
                THEN [call[a] EXCEPT !.at = "unanswered"] ELSE call[a]]
  /\ forgot' = TRUE
  /\ UNCHANGED <<marks, record, job, served>>

-----------------------------------------------------------------------------
DedupeNext ==
  \/ DecidesPayment
  \/ \E a \in Attempts :
       \/ ClaimsPayment(a) \/ TakesStaleClaim(a) \/ FindsExisting(a) \/ RecordsEnvelope(a)
       \/ AbandonsClaim(a) \/ AnswersHolder(a) \/ AnswersExisting(a) \/ SettleThrows(a)
       \/ HearsNothing(a) \/ HearsPending(a) \/ HearsRefusal(a) \/ HearsSuccess(a)
       \/ AsksMemory(a)
       \/ \E w \in Wrappers : SendsSettle(a, w)
  \/ \E w \in Wrappers : RestartsWrapper(w)

DedupeSpec == DedupeInit /\ [][DedupeNext]_dedupeVars

-----------------------------------------------------------------------------
DedupeTypeOK ==
  /\ record \in [state : {"none", "claimed", "submitted", "settled", "failed"},
                 attempt : Attempts \cup {NoAttempt}]
  /\ job \in [Attempts -> [at : Outcomes \cup {"idle", "sent", "unreached", "holds", "waits"},
                           echo : Attempts \cup {NoAttempt}]]
  /\ call \in [Attempts -> [at : {"idle", "open", "asks", "unanswered", "refused", "repeat", "served"},
                            by : Wrappers \cup {NoAttempt}]]
  /\ tracked \in [Wrappers -> SUBSET Attempts] /\ memory \subseteq Wrappers
  /\ \A w \in Wrappers : Cardinality(tracked[w]) <= TrackedCapacity

\* One payment is served once, whichever wrappers, restarts, lost answers and
\* takeovers of its claim it meets (withSettleDedupe).
ServedOnce == served <= 1

Closed(a) == call[a].at \notin {"open", "asks"}

\* A settled payment that was not served is not refused for good: the wrapper
\* whose attempt holds the claim sets the next marker aside.
LostIsServable ==
  (marks /\ ~forgot /\ record.state = "settled" /\ served = 0 /\ \A a \in Attempts : Closed(a))
    => record.attempt \in tracked[call[record.attempt].by]

\* dedupe.ts:79-80 says that the attempts which may have started a settlement got
\* a pending answer or none: one that was refused settled nothing.
RefusedSettlesNothing ==
  \A a \in Attempts :
    call[a].at = "refused" => ~(record.state = "settled" /\ record.attempt = a)

-----------------------------------------------------------------------------
(* Why ServedOnce and LostIsServable hold.                                   *)

\* The facilitator: one attempt holds the claim, and every answer names the
\* settlement's one attempt.
JobsFit ==
  /\ record.state # "none" <=> record.attempt # NoAttempt
  /\ \A a \in Attempts :
       /\ call[a].at = "idle" => job[a].at = "idle"
       /\ call[a].at # "idle" => call[a].by \in Wrappers
       /\ job[a].at = "idle" => record.attempt # a
       /\ job[a].at = "holds" => record.attempt = a
       /\ job[a].at = "marked" => record.state = "settled" /\ job[a].echo = record.attempt
       /\ marks /\ job[a].at = "success" => record.state = "settled" /\ record.attempt = a

\* The right to be served for a settled payment: the attempt it was settled by
\* has not been answered, or waits, unanswered, to be echoed.
Redeemable ==
  \/ call[record.attempt].at = "open"
  \/ \E w \in Wrappers : record.attempt \in tracked[w]

\* With marks that right is used up by the one call that goes on to be served;
\* without them the shared memory sees to it.
ServingFits ==
  /\ \A w \in Wrappers : IsFiniteSet(tracked[w])
  /\ \A w \in Wrappers : \A a \in tracked[w] : call[a].at = "unanswered" /\ call[a].by = w
  /\ served \in {0, 1}
  /\ ~marks /\ served = 1 => memory # {}
  /\ marks =>
       /\ \A a, b \in Attempts : call[a].at = "asks" /\ call[b].at = "asks" => a = b
       /\ \A a \in Attempts : call[a].at = "asks" => record.state = "settled" /\ served = 0
       /\ served = 1 => record.state = "settled"
       /\ record.state = "settled" /\ Redeemable =>
            served = 0 /\ \A a \in Attempts : call[a].at # "asks"

\* Nobody who did not restart loses that right unserved.
NothingLost ==
  marks /\ ~forgot =>
    /\ memory # {} => served = 1
    /\ \A a \in Attempts :
         /\ call[a].at = "refused" => job[a].at = "refused"
         /\ call[a].at = "served" => served = 1
         /\ call[a].at = "repeat" => record.state = "settled"
         /\ record.attempt = a /\ record.state \in {"submitted", "settled"} =>
              job[a].at \in {"holds", "pending", "success"}
         /\ record.attempt = a /\ record.state = "settled" =>
              \/ call[a].at \in {"open", "asks"} \/ a \in tracked[call[a].by]
              \/ served = 1 \/ \E b \in Attempts : call[b].at = "asks"
         /\ call[a].at = "unanswered" /\ record.state # "settled" => a \in tracked[call[a].by]

DedupeSafe == DedupeTypeOK /\ JobsFit /\ ServingFits
DedupeSound == DedupeSafe /\ (~MayThrow => NothingLost)
================================================================================
