------------------------ MODULE SettlementSafetyProofs ------------------------
(***************************************************************************)
(* The safety properties of SettlementEngine that say what a settlement's  *)
(* answers, verdicts and marks mean.  Three invariants of                  *)
(* SettlementInvariants are inductive with IndInv: OwnInv, FateInv and     *)
(* SendInv; every lemma is about one action, from its view in              *)
(* SettlementSteps.                                                        *)
(***************************************************************************)
EXTENDS SettlementSteps

-----------------------------------------------------------------------------
(* Ownership                                                                *)

\* A step that leaves every row with its owner, and its state too unless it
\* finishes a recorded settlement.
RowsStay ==
  \A id \in Requests :
    /\ rows'[id].owner = rows[id].owner
    /\ \/ rows'[id].state = rows[id].state
       \/ rows[id].state = "submitted" /\ rows'[id].state \in FinalStates

\* What r's thread became still fits the rows it owns.
StillOwns(r) ==
  \A id \in Requests :
    Exists(id) /\ rows[id].owner = r => OwnerFits(id, rows[id], run'[r])

LEMMA OwnHere ==
  ASSUME IndInv, OwnInv, NEW r \in Requests
  PROVE  /\ RunFits(r, run[r]) /\ ThreadFits(r, run[r]) /\ DriveFits(r) /\ AnswerFits(r)
         /\ \A id \in Requests :
              Exists(id) /\ rows[id].owner = r => OwnerFits(id, rows[id], run[r])
BY Here DEF OwnInv, OwnFits, OwnerShape

\* No recorded settlement changes its owner, no final one its state.
Settled ==
  \A id \in Requests :
    /\ tx[id] # "none" => rows'[id].owner = rows[id].owner /\ tx'[id] # "none"
    /\ IsFinal(id) => rows'[id].state = rows[id].state

LEMMA OwnKeeps ==
  ASSUME IndInv, OwnInv, Settled, OwnerShape',
         \A q \in Requests : (run'[q] = run[q] /\ job'[q] = job[q]) \/ OwnFits(q)'
  PROVE  OwnInv'
<1> SUFFICES ASSUME NEW q \in Requests, run'[q] = run[q], job'[q] = job[q]
             PROVE  OwnFits(q)'
  BY DEF OwnInv
<1>1. OwnFits(q) /\ RunFits(q, run[q])
  BY Here DEF OwnInv
<1>2. ThreadFits(q, run'[q])
  BY <1>1 DEF OwnFits
<1>3. DriveFits(q)'
  BY <1>1 DEF OwnFits, DriveFits, RunFits, Settled
<1>4. AnswerFits(q)'
  BY <1>1 DEF OwnFits, AnswerFits, Settled, IsFinal
<1> QED BY <1>2, <1>3, <1>4 DEF OwnFits, ThreadFits

LEMMA OwnersKeep ==
  ASSUME IndInv, OwnInv, RowsStay,
         \A q \in Requests : run'[q] = run[q] \/ StillOwns(q)
  PROVE  OwnerShape'
<1> SUFFICES ASSUME NEW id \in Requests, Exists(id)'
             PROVE  OwnerFits(id, rows'[id], run'[rows'[id].owner])
  BY DEF OwnerShape
<1> DEFINE q == rows[id].owner
<1>1. Exists(id) /\ rows'[id].owner = q
  BY DEF Exists, RowsStay, FinalStates
<1>2. OwnerFits(id, rows[id], run[q])
  BY <1>1 DEF OwnInv, OwnerShape
<1>3. q \in Requests
  BY <1>2 DEF OwnerFits
<1>4. OwnerFits(id, rows[id], run'[q])
  BY <1>1, <1>2, <1>3 DEF StillOwns
<1>5. \/ rows'[id].state = rows[id].state
      \/ rows[id].state = "submitted" /\ rows'[id].state \in FinalStates
  BY DEF RowsStay
<1> QED BY <1>1, <1>4, <1>5 DEF OwnerFits, FinalStates

\* A step of one request that leaves the rows as they are, but for what
\* OwnInv does not speak of.
LEMMA OwnThread ==
  ASSUME IndInv, OwnInv, NEW r \in Requests, RowsStay, Settled,
         \A q \in Requests : q # r => run'[q] = run[q] /\ job'[q] = job[q],
         StillOwns(r), OwnFits(r)'
  PROVE  OwnInv'
<1>1. OwnerShape'
  BY OwnersKeep
<1> QED BY <1>1, OwnKeeps

LEMMA SameRows ==
  ASSUME rows' = rows, \A id \in Requests : tx[id] # "none" => tx'[id] # "none"
  PROVE  RowsStay /\ Settled
BY DEF RowsStay, Settled

\* Nobody else moves.
Alone(r) == \A q \in Requests : q # r => run'[q] = run[q] /\ job'[q] = job[q]

\* A request under way goes on.
LEMMA OwnGoes ==
  ASSUME IndInv, OwnInv, NEW r \in Requests, NEW pc, NEW chan, NEW closed, NEW signer,
         NEW raced, ThreadTo(r, pc, run[r].rec, chan, closed, signer, raced, run[r].answer),
         RowsStay, Settled, Alone(r), DriveFits(r)',
         run[r].pc \notin {"start", "done", "dead"}, pc \notin {"start", "done", "dead"},
         \A id \in Requests : Exists(id) /\ rows[id].owner = r =>
           /\ pc \notin {"repeat", "lost", "unsigned"}
           /\ pc \in Unsubmitted => rows[id].state = "claimed"
           /\ pc = "recheck" => rows[id].state # "claimed"
  PROVE  OwnInv'
<1>1. /\ run'[r].pc = pc /\ run'[r].rec = run[r].rec /\ run'[r].answer = run[r].answer
      /\ run'[r].raced = raced /\ run'[r].signer = signer
  BY DEF ThreadTo
<1>2. ThreadFits(r, run[r]) /\ AnswerFits(r)
  BY OwnHere
<1>3. StillOwns(r)
  <2> SUFFICES ASSUME NEW id \in Requests, Exists(id), rows[id].owner = r
               PROVE  OwnerFits(id, rows[id], run'[r])
    BY DEF StillOwns
  <2>1. OwnerFits(id, rows[id], run[r])
    BY OwnHere
  <2> QED BY <1>1, <2>1 DEF OwnerFits
<1>4. ThreadFits(r, run'[r])
  BY <1>1, <1>2 DEF ThreadFits
<1>5. AnswerFits(r)'
  BY <1>1, <1>2 DEF AnswerFits, ThreadFits, FinalStates
<1>6. OwnFits(r)'
  BY <1>4, <1>5 DEF OwnFits, ThreadFits
<1> QED BY <1>3, <1>6, OwnThread DEF Alone

\* A submission goes on, or stops and leaves its ended request nothing.
LEMMA OwnSigns ==
  ASSUME IndInv, OwnInv, NEW r \in Requests, NEW step, UNCHANGED <<rows, job>>, Settled,
         \/ SignerTo(r, step)
         \/ StopsTo(r),
         run[r].signer \in SubmittingSteps
  PROVE  OwnInv'
<1>1. /\ run'[r].pc = run[r].pc /\ run'[r].answer = run[r].answer
      /\ \A q \in Requests : q # r => run'[q] = run[q]
      /\ \/ run'[r].rec = run[r].rec /\ run'[r].raced = run[r].raced
         \/ /\ run'[r].rec = None /\ run'[r].pc = "done"
            /\ run'[r].signer \notin SubmittingSteps
  BY DEF SignerTo, StopsTo, OverTo, ThreadTo, SubmittingSteps
<1>2. /\ ThreadFits(r, run[r]) /\ DriveFits(r) /\ AnswerFits(r)
      /\ None \notin Requests
  BY OwnHere, LedgerAssumption
<1>3. StillOwns(r)
  <2> SUFFICES ASSUME NEW id \in Requests, Exists(id), rows[id].owner = r
               PROVE  OwnerFits(id, rows[id], run'[r])
    BY DEF StillOwns
  <2>1. OwnerFits(id, rows[id], run[r])
    BY OwnHere
  <2> QED BY <1>1, <2>1 DEF OwnerFits
<1>4. ThreadFits(r, run'[r])
  BY <1>1, <1>2 DEF ThreadFits
<1>5. DriveFits(r)'
  BY <1>1, <1>2, Here DEF DriveFits, Settled, RunFits
<1>6. AnswerFits(r)'
  BY <1>1, <1>2 DEF AnswerFits
<1>7. OwnFits(r)'
  BY <1>4, <1>5, <1>6 DEF OwnFits, ThreadFits
<1>8. RowsStay
  BY DEF RowsStay
<1> QED BY <1>1, <1>3, <1>7, <1>8, OwnThread

\* A request ends with an answer, and with its job.
LEMMA OwnEnds ==
  ASSUME IndInv, OwnInv, NEW r \in Requests, NEW a, EndsTo(r, a), RowsStay, Settled,
         Alone(r), job'[r].at = "idle",
         run[r].pc \notin {"done", "dead"},
         a \in {"unsigned", "unavailable"} =>
           \A id \in Requests : ~(Exists(id) /\ rows[id].owner = r),
         a \in FinalStates =>
           \E id \in Requests : KeyOf[id] = KeyOf[r] /\ rows'[id].state = a
  PROVE  OwnInv'
<1>1. /\ run'[r].pc = "done" /\ run'[r].answer = a
      /\ \/ run'[r].rec = run[r].rec
         \/ run'[r].rec = None /\ run'[r].signer \notin SubmittingSteps
  BY DEF EndsTo, OverTo, ThreadTo, SubmittingSteps
<1>2. ThreadFits(r, run[r]) /\ None \notin Requests
  BY OwnHere, LedgerAssumption
<1>3. StillOwns(r)
  <2> SUFFICES ASSUME NEW id \in Requests, Exists(id), rows[id].owner = r
               PROVE  OwnerFits(id, rows[id], run'[r])
    BY DEF StillOwns
  <2>1. OwnerFits(id, rows[id], run[r])
    BY OwnHere
  <2> QED BY <1>1, <2>1 DEF OwnerFits, Unsubmitted, OffChainPcs
<1>4. ThreadFits(r, run'[r])
  BY <1>1, <1>2 DEF ThreadFits
<1>5. DriveFits(r)' /\ AnswerFits(r)'
  BY <1>1 DEF DriveFits, AnswerFits
<1>6. OwnFits(r)'
  BY <1>4, <1>5 DEF OwnFits, ThreadFits
<1> QED BY <1>3, <1>6, OwnThread DEF Alone

\* A request that drives nothing has no job.
LEMMA Jobless ==
  ASSUME IndInv, OwnInv, NEW r \in Requests, run[r].pc \notin {"answer", "drive"}
  PROVE  /\ job[r].at = "idle"
         /\ job'[r] = job[r] /\ run'[r].pc \notin {"answer", "drive"} => DriveFits(r)'
BY OwnHere DEF DriveFits

LEMMA CallThrowsOwns ==
  ASSUME IndInv, OwnInv, NEW r \in Requests, CallThrows(r)
  PROVE  OwnInv'
<1>1. /\ run[r].pc \in Unguarded /\ EndsTo(r, "error")
      /\ UNCHANGED <<rows, pool, job, tx, accountSeq>>
  BY ThreadSteps
<1>2. \A q \in Requests : q # r => run'[q] = run[q]
  BY <1>1 DEF EndsTo, OverTo, ThreadTo
<1>3. job'[r].at = "idle"
  BY <1>1, Jobless DEF Unguarded
<1> QED BY <1>1, <1>2, <1>3, OwnEnds, SameRows DEF Alone, Unguarded, FinalStates

\* Steps that move a request on before it has recorded anything.
LEMMA ThreadsOwn ==
  ASSUME IndInv, OwnInv, NEW r \in Requests,
         \/ SettlesOffChain(r) \/ GetsNoChannel(r) \/ LeasesChannel(r)
         \/ ChecksChannel(r) \/ QuarantinesAgain(r) \/ ReleasesLost(r)
  PROVE  OwnInv'
<1>1. PICK pc, chan, signer :
        /\ pc \in RunPcs
        /\ ThreadTo(r, pc, run[r].rec, chan, run[r].closed, signer, run[r].raced,
                    run[r].answer)
        /\ UNCHANGED <<rows, job, tx>>
        /\ \/ run[r].pc \in Unsubmitted /\ pc \in Unsubmitted \cup {"race"}
           \/ run[r].pc = "lost" /\ pc = "taken"
        /\ pc \notin {"start", "repeat", "recheck", "lost", "unsigned", "answer",
                     "drive", "done", "dead"}
  <2>1. CASE SettlesOffChain(r)
    BY <2>1, ThreadSteps DEF PcTo, Unsubmitted, OffChainPcs, RunPcs
  <2>2. CASE GetsNoChannel(r)
    BY <2>2, ThreadSteps DEF PcTo, Unsubmitted, OffChainPcs, RunPcs
  <2>3. CASE ReleasesLost(r)
    BY <2>3, ThreadSteps DEF PcTo, Unsubmitted, OffChainPcs, RunPcs
  <2>4. CASE LeasesChannel(r)
    <3>1. PICK c \in Channels :
           /\ run[r].pc = "lease"
           /\ UNCHANGED <<rows, job, tx, accountSeq>>
           /\ ThreadTo(r, "check", run[r].rec, c, run[r].closed,
                       run[r].signer, run[r].raced, run[r].answer)
      BY <2>4, LeasesChannelStep
    <3> QED BY <3>1 DEF Unsubmitted, OffChainPcs, RunPcs
  <2>5. CASE ChecksChannel(r)
    <3>1. /\ run[r].pc = "check"
          /\ UNCHANGED <<rows, job, tx, accountSeq>>
          /\ \/ ThreadTo(r, "race", run[r].rec, run[r].chan, run[r].closed,
                        "read", run[r].raced, run[r].answer)
             \/ PcTo(r, "requarantine")
      BY <2>5, ChecksChannelStep
    <3> QED BY <3>1 DEF PcTo, Unsubmitted, OffChainPcs, RunPcs
  <2>6. CASE QuarantinesAgain(r)
    <3>1. /\ run[r].pc = "requarantine" /\ UNCHANGED <<rows, job, tx, accountSeq>>
          /\ \E pc \in {"lease", "unleased"} :
              ThreadTo(r, pc, run[r].rec, None, run[r].closed, run[r].signer,
                       run[r].raced, run[r].answer)
      BY <2>6, QuarantinesAgainStep
    <3> QED BY <3>1 DEF Unsubmitted, OffChainPcs, RunPcs
  <2> QED BY <2>1, <2>2, <2>3, <2>4, <2>5, <2>6
<1>2. \A id \in Requests : Exists(id) /\ rows[id].owner = r =>
           OwnerFits(id, rows[id], run[r])
  BY OwnHere
<1>3. /\ run'[r].pc = pc /\ Alone(r) /\ job'[r] = job[r]
  BY <1>1 DEF ThreadTo, Alone
<1>4. DriveFits(r)'
  BY <1>1, <1>3, Jobless DEF Unsubmitted, OffChainPcs
<1>5. \A id \in Requests : Exists(id) /\ rows[id].owner = r =>
           /\ pc \notin {"repeat", "lost", "unsigned"}
           /\ pc \in Unsubmitted => rows[id].state = "claimed"
           /\ pc = "recheck" => rows[id].state # "claimed"
  BY <1>1, <1>2 DEF OwnerFits
<1>6. run[r].pc \notin {"start", "done", "dead"}
  BY <1>1 DEF Unsubmitted, OffChainPcs
<1> QED BY <1>1, <1>3, <1>4, <1>5, <1>6, OwnGoes, SameRows

LEMMA AnswersRepeatOwns ==
  ASSUME IndInv, OwnInv, NEW r \in Requests, AnswersRepeat(r)
  PROVE  OwnInv'
<1>1. /\ run[r].pc = "start" /\ UNCHANGED <<rows, pool, job, tx, accountSeq>>
      /\ \/ OverTo(r, "conflict")
         \/ \E id \in Requests :
              /\ KeyOf[id] = KeyOf[r]
              /\ ThreadTo(r, "repeat", id, run[r].chan, run[r].closed,
                          run[r].signer, run[r].raced, run[r].answer)
  BY AnswersRepeatStep
<1>2. /\ run'[r].pc = "done" \/ (run'[r].pc = "repeat" /\ run'[r].answer = run[r].answer)
      /\ run'[r].answer \in {run[r].answer, "conflict"}
      /\ run'[r].rec = None \/ (run'[r].rec \in Requests /\ KeyOf[run'[r].rec] = KeyOf[r])
      /\ Alone(r) /\ job'[r] = job[r]
  BY <1>1 DEF OverTo, ThreadTo, Alone
<1>3. /\ ThreadFits(r, run[r]) /\ AnswerFits(r)
      /\ \A id \in Requests : ~(Exists(id) /\ rows[id].owner = r)
      /\ None \notin Requests
  BY <1>1, OwnHere, LedgerAssumption DEF OwnerFits
<1>4. StillOwns(r)
  BY <1>3 DEF StillOwns
<1>5. ThreadFits(r, run'[r])
  BY <1>1, <1>2, <1>3 DEF ThreadFits
<1>6. DriveFits(r)'
  BY <1>1, <1>2, Jobless
<1>7. AnswerFits(r)'
  BY <1>1, <1>2, <1>3 DEF AnswerFits, FinalStates
<1>8. OwnFits(r)'
  BY <1>5, <1>6, <1>7 DEF OwnFits, ThreadFits
<1> QED BY <1>1, <1>2, <1>4, <1>8, OwnThread, SameRows DEF Alone

LEMMA AwaitsExistingOwns ==
  ASSUME IndInv, OwnInv, NEW r \in Requests, AwaitsExisting(r)
  PROVE  OwnInv'
<1>1. /\ run[r].pc \in {"repeat", "taken"} /\ run[r].rec \in Requests
      /\ UNCHANGED <<rows, pool, job, tx, accountSeq>>
      /\ EndsTo(r, AnswerOf(run[r].rec))
  BY AwaitsExistingStep
<1>2. Alone(r) /\ job'[r].at = "idle"
  BY <1>1, Jobless DEF EndsTo, OverTo, ThreadTo, Alone
<1>3. KeyOf[run[r].rec] = KeyOf[r]
  BY <1>1, OwnHere DEF ThreadFits
<1>4. AnswerOf(run[r].rec) = "pending" \/ AnswerOf(run[r].rec) = rows'[run[r].rec].state
  BY <1>1 DEF AnswerOf
<1>5. AnswerOf(run[r].rec) \in FinalStates \cup {"pending"}
  BY DEF AnswerOf, IsFinal
<1>6. AnswerOf(run[r].rec) \notin {"unsigned", "unavailable"}
  BY <1>5 DEF FinalStates
<1>7. AnswerOf(run[r].rec) \in FinalStates => \E id \in Requests :
         KeyOf[id] = KeyOf[r] /\ rows'[id].state = AnswerOf(run[r].rec)
  BY <1>1, <1>3, <1>4 DEF FinalStates
<1> HIDE DEF AnswerOf
<1> QED BY <1>1, <1>2, <1>6, <1>7, OwnEnds, SameRows

LEMMA RaceOwns ==
  ASSUME IndInv, OwnInv, NEW r \in Requests,
         SubmissionReturns(r) \/ SignWindowElapses(r) \/ ConfirmWindowElapses(r)
  PROVE  OwnInv'
<1>1. PICK result, step :
        /\ run[r].pc = "race" /\ UNCHANGED <<rows, pool, job, tx, accountSeq>>
        /\ ThreadTo(r, "fetch", run[r].rec, run[r].chan, ~Noted(r), step,
                    result, run[r].answer)
  BY RaceStep
<1>2. Alone(r) /\ job'[r] = job[r] /\ run'[r].pc = "fetch"
  BY <1>1 DEF ThreadTo, Alone
<1>3. DriveFits(r)'
  BY <1>1, <1>2, Jobless
<1> QED BY <1>1, <1>2, <1>3, OwnGoes, SameRows DEF Unsubmitted, OffChainPcs

\* A request that finds its envelope recorded drives it; one that owns nothing
\* recorded owns nothing, once its claim is gone.
LEMMA FindsRowOwns ==
  ASSUME IndInv, OwnInv, NEW r \in Requests, FetchesRow(r) \/ RechecksRow(r)
  PROVE  OwnInv'
<1> DEFINE id == run[r].rec
<1>1. PICK pc :
        /\ id \in Requests /\ PcTo(r, pc)
        /\ UNCHANGED <<rows, pool, tx, accountSeq>>
        /\ \/ pc = "answer" /\ Recorded(id, r) /\ LooksTo(r, id)
           \/ pc \in {"abandon", "lost", "unsigned"} /\ ~Recorded(id, r) /\ job' = job
        /\ pc = "lost" => ~OwnsClaim(id, r)
        /\ pc = "unsigned" => run[r].pc = "recheck"
        /\ run[r].pc \in {"fetch", "recheck"}
  BY FetchesRowStep, RechecksRowStep, Zenon
<1>2. Alone(r) /\ run'[r].pc = pc /\ run'[r].rec = id /\ r \in Drivers
  BY <1>1 DEF PcTo, ThreadTo, LooksTo, DriverTo, Alone, Drivers
<1>3. ASSUME NEW i \in Requests, Exists(i), rows[i].owner = r
      PROVE  i = id /\ pc \notin {"lost", "unsigned"}
  <2>1. OwnerFits(i, rows[i], run[r])
    BY <1>3, OwnHere
  <2>2. i = id
    BY <1>1, <2>1 DEF OwnerFits
  <2>3. pc = "lost" => FALSE
    BY <1>1, <1>3, <2>2 DEF Recorded, OwnsClaim, Exists
  <2>4. pc = "unsigned" => FALSE
    BY <1>1, <1>3, <2>1, <2>2 DEF Recorded, OwnerFits, Exists
  <2> QED BY <2>2, <2>3, <2>4
<1>4. CASE pc = "answer"
  <2>1. job'[r].at = "look" /\ job'[r].on = id /\ rows[id].owner = r
    BY <1>1, <1>4 DEF LooksTo, DriverTo, Recorded
  <2>2. rows[id].state \in {"submitted"} \cup FinalStates
    BY <1>1, <1>4 DEF Recorded, IndInv, TypeOK, Row, States
  <2>3. r \notin OffChain
    BY <1>1, Here DEF RunFits, OnChainPcs
  <2>4. tx[id] # "none"
    BY <1>1, <2>1, <2>2, <2>3 DEF IndInv, RowShape, RowFits
  <2>5. DriveFits(r)'
    BY <1>1, <1>2, <1>4, <2>1, <2>4 DEF DriveFits
  <2> QED BY <1>1, <1>2, <1>3, <1>4, <2>5, OwnGoes, SameRows
          DEF PcTo, Unsubmitted, OffChainPcs
<1>5. CASE pc # "answer"
  <2>1. DriveFits(r)'
    BY <1>1, <1>2, <1>5, Jobless
  <2> QED BY <1>1, <1>2, <1>3, <1>5, <2>1, OwnGoes, SameRows
          DEF PcTo, Unsubmitted, OffChainPcs
<1> QED BY <1>4, <1>5

LEMMA AnswersUnsignedOwns ==
  ASSUME IndInv, OwnInv, NEW r \in Requests, AnswersUnsigned(r)
  PROVE  OwnInv'
<1>1. /\ run[r].pc = "unsigned" /\ EndsTo(r, "unsigned")
      /\ UNCHANGED <<rows, job, tx, accountSeq>>
  BY ThreadSteps
<1>2. Alone(r) /\ job'[r].at = "idle"
  BY <1>1, Jobless DEF EndsTo, OverTo, ThreadTo, Alone
<1>3. \A id \in Requests : ~(Exists(id) /\ rows[id].owner = r)
  BY <1>1, OwnHere DEF OwnerFits
<1> QED BY <1>1, <1>2, <1>3, OwnEnds, SameRows DEF FinalStates

LEMMA SubmitsOwns ==
  ASSUME IndInv, OwnInv, NEW r \in Requests,
         BuildsTransaction(r) \/ RefusesToSign(r) \/ SignsFeeBump(r)
  PROVE  OwnInv'
<1>1. PICK step : /\ SignerTo(r, step) \/ StopsTo(r)
                  /\ UNCHANGED <<rows, pool, job, tx, accountSeq>>
                  /\ run[r].signer \in {"read", "built"}
  BY BuildsTransactionStep, RefusesToSignStep, SignsFeeBumpStep
<1> QED BY <1>1, OwnSigns, SameRows DEF SubmittingSteps

LEMMA NetworkAnswersSettled ==
  ASSUME IndInv, NEW id \in Requests, NEW reply, NetworkAnswers(id, reply), rows' = rows
  PROVE  Settled
BY NetworkAnswersStep DEF Settled, TxTo

LEMMA SendsFirstOwns ==
  ASSUME IndInv, OwnInv, NEW r \in Requests, SendsFirst(r)
  PROVE  OwnInv'
<1>1. /\ run[r].signer = "sending" /\ run[r].rec \in Requests
      /\ UNCHANGED <<rows, pool, job, accountSeq>>
  BY SendsFirstStep
<1>2. PICK reply, step : NetworkAnswers(run[r].rec, reply) /\ (SignerTo(r, step) \/ StopsTo(r))
  BY SendsFirstStep
<1> QED BY <1>1, <1>2, NetworkAnswersSettled, OwnSigns DEF SubmittingSteps

\* Rows of other requests stay; those of r are looked at one by one.
LEMMA OwnersMove ==
  ASSUME IndInv, OwnInv, NEW r \in Requests, \A q \in Requests : q # r => run'[q] = run[q],
         \A i \in Requests : Exists(i)' =>
           \/ rows'[i] = rows[i] /\ rows[i].owner # r
           \/ OwnerFits(i, rows'[i], run'[rows'[i].owner])
  PROVE  OwnerShape'
<1> SUFFICES ASSUME NEW i \in Requests, Exists(i)', rows'[i] = rows[i], rows[i].owner # r
             PROVE  OwnerFits(i, rows'[i], run'[rows'[i].owner])
  BY DEF OwnerShape
<1>1. OwnerFits(i, rows[i], run[rows[i].owner])
  BY DEF Exists, OwnInv, OwnerShape
<1>2. rows[i].owner \in Requests
  BY <1>1 DEF OwnerFits
<1> QED BY <1>1, <1>2

LEMMA Unrecorded ==
  ASSUME IndInv, NEW id \in Requests, rows[id].state \in {"absent", "claimed"}
  PROVE  tx[id] = "none" /\ ~IsFinal(id)
BY DEF IndInv, RowShape, RowFits, FinalStates, IsFinal

LEMMA ClaimsOwns ==
  ASSUME IndInv, OwnInv, NEW r \in Requests, Claims(r)
  PROVE  OwnInv'
<1>1. PICK id, channel, seq, accepted, sends, released :
        /\ id \in Requests
        /\ UNCHANGED <<pool, job, tx, accountSeq>>
        /\ run[r].pc = "start" /\ KeyOf[id] = KeyOf[r]
        /\ ThreadTo(r, FirstStep(r), id, run[r].chan, run[r].closed,
                    run[r].signer, run[r].raced, run[r].answer)
        /\ (id = r /\ Find(KeyOf[r]) = {}) \/ rows[id].state = "claimed"
        /\ RowTo(id, "claimed", r, channel, seq, accepted, sends, released)
  BY ClaimsStep, Zenon
<1>2. /\ \A i \in Requests : i # id => rows'[i] = rows[i]
      /\ rows'[id].state = "claimed" /\ rows'[id].owner = r
      /\ \A q \in Requests : q # r => run'[q] = run[q]
      /\ run'[r].pc \in {"offchain", "lease"} /\ run'[r].rec = id
      /\ run'[r].signer = run[r].signer /\ run'[r].answer = run[r].answer
  BY <1>1 DEF RowTo, ThreadTo, FirstStep
<1>3. rows[id].state \in {"absent", "claimed"}
  BY <1>1 DEF Find, Exists
<1>4. Settled
  BY <1>1, <1>2, <1>3, Unrecorded DEF Settled
<1>5. /\ ThreadFits(r, run[r]) /\ AnswerFits(r)
      /\ \A i \in Requests : ~(Exists(i) /\ rows[i].owner = r)
  BY <1>1, OwnHere DEF OwnerFits
<1>6. run[r].answer = "none"
  BY <1>1, <1>5 DEF ThreadFits
<1>7. OwnerShape'
  <2>1. OwnerFits(id, rows'[id], run'[rows'[id].owner])
    BY <1>1, <1>2, <1>6 DEF OwnerFits
  <2>2. ASSUME NEW i \in Requests, Exists(i)', i # id
        PROVE  rows'[i] = rows[i] /\ rows[i].owner # r
    BY <1>2, <1>5, <2>2 DEF Exists
  <2> QED BY <1>2, <2>1, <2>2, OwnersMove
<1>8. ThreadFits(r, run'[r])
  BY <1>1, <1>2, <1>5, <1>6 DEF ThreadFits
<1>9. DriveFits(r)'
  BY <1>1, <1>2, Jobless
<1>10. AnswerFits(r)'
  BY <1>2, <1>6 DEF AnswerFits, FinalStates
<1>11. OwnFits(r)'
  BY <1>8, <1>9, <1>10 DEF OwnFits, ThreadFits
<1> QED BY <1>1, <1>2, <1>4, <1>7, <1>11, OwnKeeps

LEMMA RecordsEnvelopeOwns ==
  ASSUME IndInv, OwnInv, NEW r \in Requests, RecordsEnvelope(r)
  PROVE  OwnInv'
<1> DEFINE id == run[r].rec
<1>1. /\ run[r].signer = "writing" /\ id \in Requests
      /\ UNCHANGED <<pool, job, accountSeq>>
  BY RecordsEnvelopeStep
<1>2. CASE ~OwnsClaim(id, r)
  <2>1. StopsTo(r) /\ rows' = rows /\ tx' = tx
    BY <1>2, RecordsEnvelopeStep
  <2> QED BY <1>1, <2>1, OwnSigns, SameRows DEF SubmittingSteps
<1>3. CASE OwnsClaim(id, r)
  <2>1. PICK n, step :
          /\ n \in Nat
          /\ RowTo(id, "submitted", r, run[r].chan, n, FALSE, {FirstSend}, rows[id].released)
          /\ TxTo(id, "signed") /\ (SignerTo(r, step) \/ StopsTo(r))
    BY <1>3, RecordsEnvelopeStep
  <2>2. /\ \A i \in Requests : i # id => rows'[i] = rows[i] /\ tx'[i] = tx[i]
        /\ rows'[id].state = "submitted" /\ rows'[id].owner = r
    BY <2>1 DEF RowTo, TxTo
  <2>3. rows[id].state = "claimed" /\ rows[id].owner = r /\ Exists(id)
    BY <1>3 DEF OwnsClaim, Exists
  <2>4. Settled
    BY <1>1, <2>2, <2>3, Unrecorded DEF Settled
  <2>5. /\ run'[r].pc = run[r].pc /\ run'[r].answer = run[r].answer
        /\ \A q \in Requests : q # r => run'[q] = run[q]
        /\ \/ run'[r].rec = id /\ run'[r].raced = run[r].raced
           \/ /\ run'[r].rec = None /\ run'[r].pc = "done"
              /\ run'[r].signer \notin SubmittingSteps
    BY <2>1 DEF SignerTo, StopsTo, OverTo, ThreadTo, SubmittingSteps
  <2>6. /\ ThreadFits(r, run[r]) /\ DriveFits(r) /\ AnswerFits(r)
        /\ \A i \in Requests : Exists(i) /\ rows[i].owner = r => OwnerFits(i, rows[i], run[r])
    BY OwnHere
  <2>7. OwnerShape'
    <3>1. /\ run[r].pc \notin Unsubmitted /\ OwnerFits(id, rows[id], run[r])
      BY <1>1, <2>3, <2>6, Here DEF RunFits, Unsubmitted
    <3>2. OwnerFits(id, rows'[id], run'[rows'[id].owner])
      BY <2>2, <2>3, <2>5, <3>1 DEF OwnerFits
    <3>3. ASSUME NEW i \in Requests, Exists(i)', i # id
          PROVE  rows'[i] = rows[i] /\ rows[i].owner # r
      <4>1. rows'[i] = rows[i] /\ Exists(i)
        BY <2>2, <3>3 DEF Exists
      <4>2. rows[i].owner = r => run[r].rec = i
        BY <1>1, <2>6, <4>1 DEF OwnerFits, SubmittingSteps
      <4> QED BY <3>3, <4>1, <4>2
    <3> QED BY <2>5, <3>2, <3>3, OwnersMove
  <2>8. ThreadFits(r, run'[r])
    BY <2>5, <2>6, LedgerAssumption DEF ThreadFits
  <2>9. run[r].pc \notin {"answer", "drive"}
    BY <1>1, <2>3, <2>6, Unrecorded DEF DriveFits
  <2>10. DriveFits(r)'
    BY <1>1, <2>5, <2>9, Jobless
  <2>11. AnswerFits(r)'
    BY <2>4, <2>5, <2>6 DEF AnswerFits, Settled, IsFinal
  <2>12. OwnFits(r)'
    BY <2>8, <2>10, <2>11 DEF OwnFits, ThreadFits
  <2> QED BY <1>1, <2>4, <2>5, <2>7, <2>12, OwnKeeps
<1> QED BY <1>2, <1>3

LEMMA AbandonsOwn ==
  ASSUME IndInv, OwnInv, NEW r \in Requests,
         AbandonsClaim(r) \/ AbandonsUnleased(r) \/ AbandonsOffChain(r)
  PROVE  OwnInv'
<1> DEFINE id == run[r].rec
<1>1. /\ id \in Requests /\ AbandonsTo(r) /\ UNCHANGED <<pool, job, tx, accountSeq>>
      /\ \/ run[r].pc = "abandon" /\ PcTo(r, "recheck")
         \/ run[r].pc = "unleased" /\ EndsTo(r, "unavailable")
         \/ run[r].pc = "offAbandon" /\ EndsTo(r, "unsigned")
  BY AbandonSteps
<1>2. \A q \in Requests : q # r => run'[q] = run[q]
  BY <1>1 DEF PcTo, EndsTo, OverTo, ThreadTo
<1>3. job'[r] = job[r] /\ job'[r].at = "idle" /\ Alone(r)
  BY <1>1, <1>2, Jobless DEF Alone
<1>4. \A i \in Requests : Exists(i) /\ rows[i].owner = r =>
         /\ i = id /\ OwnerFits(i, rows[i], run[r])
         /\ run[r].pc # "abandon" => rows[i].state = "claimed"
  BY <1>1, OwnHere DEF OwnerFits, Unsubmitted, OffChainPcs
<1>5. CASE OwnsClaim(id, r)
  <2>1. RowTo(id, "absent", None, None, 0, FALSE, {}, FALSE)
    BY <1>5, <1>1 DEF AbandonsTo
  <2>2. /\ \A i \in Requests : i # id => rows'[i] = rows[i]
        /\ rows'[id].state = "absent"
    BY <2>1 DEF RowTo
  <2>3. Settled
    BY <1>1, <1>5, <2>2, Unrecorded DEF Settled, OwnsClaim
  <2>4. OwnerShape'
    <3>1. ASSUME NEW i \in Requests, Exists(i)'
          PROVE  rows'[i] = rows[i] /\ rows[i].owner # r
      BY <1>4, <2>2, <3>1 DEF Exists
    <3> QED BY <1>2, <3>1, OwnersMove
  <2>5. /\ run'[r].pc \in {"recheck", "done"}
        /\ run'[r].answer \in {run[r].answer, "unavailable", "unsigned"}
        /\ run'[r].pc = "recheck" => run'[r].answer = run[r].answer
        /\ run'[r].rec \in {run[r].rec, None}
    BY <1>1 DEF PcTo, EndsTo, OverTo, ThreadTo
  <2>6. ThreadFits(r, run[r]) /\ run[r].answer = "none"
    BY <1>1, OwnHere DEF ThreadFits
  <2>7. ThreadFits(r, run'[r])
    BY <2>5, <2>6, LedgerAssumption DEF ThreadFits
  <2>8. DriveFits(r)'
    BY <1>3, <2>5 DEF DriveFits
  <2>9. AnswerFits(r)'
    BY <2>5, <2>6 DEF AnswerFits, FinalStates
  <2>10. OwnFits(r)'
    BY <2>7, <2>8, <2>9 DEF OwnFits, ThreadFits
  <2> QED BY <1>3, <2>3, <2>4, <2>10, OwnKeeps DEF Alone
<1>6. CASE ~OwnsClaim(id, r)
  <2>1. rows' = rows /\ RowsStay /\ Settled
    BY <1>1, <1>6, SameRows DEF AbandonsTo
  <2>2. \A i \in Requests : Exists(i) /\ rows[i].owner = r => rows[i].state # "claimed"
    BY <1>4, <1>6 DEF OwnsClaim
  <2>3. CASE run[r].pc = "abandon" /\ PcTo(r, "recheck")
    <3>1. DriveFits(r)'
      BY <1>3, <2>3 DEF PcTo, ThreadTo, DriveFits
    <3>2. /\ "recheck" \notin Unsubmitted \cup {"start", "repeat", "lost", "unsigned"}
          /\ "recheck" \notin {"start", "done", "dead"}
          /\ run[r].pc \notin {"start", "done", "dead"}
      BY <2>3 DEF Unsubmitted, OffChainPcs
    <3>3. ThreadTo(r, "recheck", run[r].rec, run[r].chan, run[r].closed,
                   run[r].signer, run[r].raced, run[r].answer)
      BY <2>3 DEF PcTo
    <3> QED BY <1>3, <2>1, <2>2, <3>1, <3>2, <3>3, OwnGoes
  <2>4. CASE run[r].pc # "abandon"
    <3>1. \A i \in Requests : ~(Exists(i) /\ rows[i].owner = r)
      BY <1>4, <2>2, <2>4
    <3> QED BY <1>1, <1>3, <2>1, <2>4, <3>1, OwnEnds DEF FinalStates
  <2> QED BY <1>1, <2>3, <2>4
<1> QED BY <1>5, <1>6

LEMMA FinishesOffChainOwns ==
  ASSUME IndInv, OwnInv, NEW r \in Requests, FinishesOffChain(r)
  PROVE  OwnInv'
<1> DEFINE id == run[r].rec
<1>1. /\ run[r].pc = "offFinish" /\ id \in Requests
      /\ UNCHANGED <<pool, job, tx, accountSeq>>
  BY FinishesOffChainStep
<1>2. job'[r] = job[r] /\ job'[r].at = "idle"
  BY <1>1, Jobless
<1>3. CASE OwnsClaim(id, r)
  <2>1. FinalTo(id, "succeeded") /\ EndsTo(r, "succeeded")
    BY <1>3, FinishesOffChainStep
  <2>2. /\ \A i \in Requests : i # id => rows'[i] = rows[i]
        /\ rows'[id].state = "succeeded" /\ rows'[id].owner = r /\ rows[id].owner = r
        /\ Exists(id)
    BY <1>3, <2>1 DEF FinalTo, RowTo, OwnsClaim, Exists
  <2>3. /\ run'[r].pc = "done" /\ run'[r].answer = "succeeded"
        /\ run'[r].rec = id \/ (run'[r].rec = None /\ run'[r].signer \notin SubmittingSteps)
        /\ Alone(r)
    BY <1>1, <2>1 DEF EndsTo, OverTo, ThreadTo, SubmittingSteps, Alone
  <2>4. Settled
    BY <1>1, <1>3, <2>2, Unrecorded DEF Settled, OwnsClaim
  <2>5. /\ ThreadFits(r, run[r])
        /\ \A i \in Requests : Exists(i) /\ rows[i].owner = r => OwnerFits(i, rows[i], run[r])
    BY OwnHere
  <2>6. OwnerShape'
    <3>1. OwnerFits(id, rows'[id], run'[rows'[id].owner])
      BY <1>1, <2>2, <2>3, <2>5 DEF OwnerFits, Unsubmitted, OffChainPcs
    <3>2. ASSUME NEW i \in Requests, Exists(i)', i # id
          PROVE  rows'[i] = rows[i] /\ rows[i].owner # r
      <4>1. rows'[i] = rows[i] /\ Exists(i)
        BY <2>2, <3>2 DEF Exists
      <4>2. rows[i].owner = r => run[r].rec = i
        BY <1>1, <2>5, <4>1 DEF OwnerFits
      <4> QED BY <3>2, <4>1, <4>2
    <3> QED BY <2>3, <3>1, <3>2, OwnersMove DEF Alone
  <2>7. ThreadFits(r, run'[r])
    BY <2>3, <2>5, LedgerAssumption DEF ThreadFits
  <2>8. DriveFits(r)' /\ AnswerFits(r)'
    BY <1>1, <1>2, <2>2, <2>3, <2>5 DEF DriveFits, AnswerFits, ThreadFits
  <2>9. OwnFits(r)'
    BY <2>7, <2>8 DEF OwnFits, ThreadFits
  <2> QED BY <2>3, <2>4, <2>6, <2>9, OwnKeeps DEF Alone
<1>4. CASE ~OwnsClaim(id, r)
  <2>1. rows' = rows /\ (PcTo(r, "taken") \/ EndsTo(r, "error"))
    BY <1>4, FinishesOffChainStep
  <2>2. Alone(r) /\ RowsStay /\ Settled
    BY <1>1, <2>1, SameRows DEF PcTo, EndsTo, OverTo, ThreadTo, Alone
  <2>3. CASE PcTo(r, "taken")
    <3>1. DriveFits(r)'
      BY <1>2, <2>3 DEF PcTo, ThreadTo, DriveFits
    <3>2. /\ "taken" \notin Unsubmitted \cup {"start", "repeat", "lost", "unsigned"}
          /\ "taken" \notin {"start", "done", "dead"} /\ "taken" # "recheck"
          /\ run[r].pc \notin {"start", "done", "dead"}
      BY <1>1 DEF Unsubmitted, OffChainPcs
    <3>3. ThreadTo(r, "taken", run[r].rec, run[r].chan, run[r].closed,
                   run[r].signer, run[r].raced, run[r].answer)
      BY <2>3 DEF PcTo
    <3> QED BY <2>2, <3>1, <3>2, <3>3, OwnGoes
  <2>4. CASE EndsTo(r, "error")
    BY <1>1, <1>2, <2>2, <2>4, OwnEnds DEF FinalStates
  <2> QED BY <2>1, <2>3, <2>4
<1> QED BY <1>3, <1>4

\* A write of sends, or of the release, is nothing to the owner.
LEMMA RowKept ==
  ASSUME NEW id \in Requests, NEW channel, NEW seq, NEW accepted, NEW sends, NEW released,
         \/ RowTo(id, rows[id].state, rows[id].owner, channel, seq, accepted, sends, released)
         \/ SendsTo(id, accepted, sends)
  PROVE  /\ \A i \in Requests : rows'[i].state = rows[i].state /\ rows'[i].owner = rows[i].owner
         /\ RowsStay /\ (tx' = tx => Settled)
<1>1. \A i \in Requests : rows'[i].state = rows[i].state /\ rows'[i].owner = rows[i].owner
  BY DEF RowTo, SendsTo
<1> QED BY <1>1 DEF RowsStay, Settled

LEMMA RecordsFirstAnswerOwns ==
  ASSUME IndInv, OwnInv, NEW r \in Requests, RecordsFirstAnswer(r)
  PROVE  OwnInv'
<1>1. PICK raced, accepted, sends :
        /\ run[r].pc = "answer" /\ run[r].rec \in Requests /\ job[r].at = "look"
        /\ UNCHANGED <<pool, tx, accountSeq>>
        /\ SendsTo(run[r].rec, accepted, sends) \/ rows' = rows
        /\ ThreadTo(r, "drive", run[r].rec, run[r].chan, run[r].closed, run[r].signer,
                    raced, run[r].answer)
        /\ \/ DriverTo(r, "finish", job[r].on, job[r].tracked, job[r].reply, "succeeded")
           \/ job' = job
  BY RecordsFirstAnswerStep, Zenon
<1>2. RowsStay /\ Settled
  BY <1>1, RowKept, SameRows
<1>3. Alone(r) /\ job'[r].on = job[r].on /\ run'[r].pc = "drive" /\ run'[r].rec = run[r].rec
  BY <1>1 DEF DriverTo, ThreadTo, Alone, Drivers
<1>4. DriveFits(r)'
  BY <1>1, <1>2, <1>3, OwnHere DEF DriveFits, Settled
<1>5. /\ "drive" \notin Unsubmitted \cup {"start", "repeat", "lost", "unsigned"}
      /\ "drive" \notin {"start", "done", "dead"}
      /\ run[r].pc \notin {"start", "done", "dead"}
  BY <1>1 DEF Unsubmitted, OffChainPcs
<1> QED BY <1>1, <1>2, <1>3, <1>4, <1>5, OwnGoes

\* A job goes on with its settlement.
LEMMA OwnDrives ==
  ASSUME IndInv, OwnInv, NEW d \in Drivers, RowsStay, Settled,
         \A e \in Drivers : e # d => job'[e] = job[e],
         job[d].at # "idle", job'[d].on = job[d].on,
         \A q \in Requests :
           \/ run'[q] = run[q]
           \/ /\ q = d /\ run'[q].pc = run[q].pc /\ run'[q].rec = run[q].rec
              /\ run'[q].answer = run[q].answer /\ run'[q].signer = run[q].signer
  PROVE  OwnInv'
<1>1. ASSUME NEW q \in Requests
      PROVE  StillOwns(q)
  BY <1>1, OwnHere DEF StillOwns, OwnerFits
<1>2. OwnerShape'
  BY <1>1, OwnersKeep
<1>3. ASSUME NEW q \in Requests, q = d
      PROVE  OwnFits(q)'
  <2>1. /\ ThreadFits(q, run[q]) /\ DriveFits(q) /\ AnswerFits(q)
        /\ run[q].pc \in {"answer", "drive"} /\ run[q].rec \in Requests
    BY <1>3, OwnHere DEF DriveFits, RunFits
  <2>2. run'[q].pc = run[q].pc /\ run'[q].rec = run[q].rec /\ run'[q].answer = run[q].answer
    BY <1>3
  <2>3. ThreadFits(q, run'[q])
    BY <2>1, <2>2 DEF ThreadFits
  <2>4. DriveFits(q)'
    BY <1>3, <2>1, <2>2 DEF DriveFits, Settled
  <2>5. AnswerFits(q)'
    BY <2>1, <2>2 DEF AnswerFits, ThreadFits, FinalStates
  <2> QED BY <2>3, <2>4, <2>5 DEF OwnFits, ThreadFits
<1>4. ASSUME NEW q \in Requests, q # d
      PROVE  run'[q] = run[q] /\ job'[q] = job[q]
  BY <1>4 DEF Drivers
<1> QED BY <1>2, <1>3, <1>4, OwnKeeps

\* A job ends, and its request with an answer that the row bears out.
LEMMA OwnJobOver ==
  ASSUME IndInv, OwnInv, NEW d \in Drivers, RowsStay, Settled, NEW a, JobOver(d, a),
         job[d].at # "idle", a \notin {"unsigned", "unavailable"},
         a \in FinalStates => rows'[job[d].on].state = a
  PROVE  OwnInv'
<1>1. \A e \in Drivers : e # d => job'[e] = job[e]
  BY DEF JobOver, DriverTo
<1>2. CASE d \in Requests
  <2>1. EndsTo(d, a) /\ job'[d].at = "idle"
    BY <1>2 DEF JobOver, DriverTo
  <2>2. Alone(d)
    BY <1>1, <2>1 DEF EndsTo, OverTo, ThreadTo, Alone, Drivers
  <2>3. /\ job[d].on = run[d].rec /\ run[d].pc \in {"answer", "drive"}
        /\ ThreadFits(d, run[d]) /\ run[d].rec \in Requests
    BY <1>2, OwnHere DEF DriveFits, RunFits
  <2>4. KeyOf[job[d].on] = KeyOf[d]
    BY <2>3 DEF ThreadFits
  <2> QED BY <1>2, <2>1, <2>2, <2>3, <2>4, OwnEnds
<1>3. CASE d \notin Requests
  <2>1. run' = run
    BY <1>3 DEF JobOver
  <2>2. OwnerShape'
    BY <2>1, OwnersKeep
  <2>3. \A q \in Requests : run'[q] = run[q] /\ job'[q] = job[q]
    BY <1>1, <1>3, <2>1 DEF Drivers
  <2> QED BY <2>2, <2>3, OwnKeeps
<1> QED BY <1>2, <1>3

LEMMA OwnGoesOn ==
  ASSUME IndInv, OwnInv, NEW d \in Drivers, RowsStay, Settled, job[d].at # "idle",
         \/ Onward(d) \/ Concluded(d, job[d].on)
         \/ \E at : JobAt(d, at)
         \/ \E verdict : FinishTo(d, verdict)
  PROVE  OwnInv'
<1>1. CASE (\E at : JobAt(d, at)) \/ (\E verdict : FinishTo(d, verdict))
  <2>1. /\ run' = run /\ job'[d].on = job[d].on
        /\ \A e \in Drivers : e # d => job'[e] = job[e]
    BY <1>1 DEF JobAt, FinishTo, DriverTo
  <2> QED BY <2>1, OwnDrives
<1>2. CASE JobOver(d, "pending")
  BY <1>2, OwnJobOver DEF FinalStates
<1> QED BY <1>1, <1>2 DEF Onward, Concluded

LEMMA JobsOwn ==
  ASSUME IndInv, OwnInv, NEW d \in Drivers, JobStep(d)
  PROVE  OwnInv'
<1> DEFINE id == job[d].on
<1>1. CASE Looks(d)
  <2>1. PICK accepted, sends :
          /\ DrivesAt(d, "look") /\ UNCHANGED <<pool, tx, accountSeq>>
          /\ rows' = rows \/ SendsTo(id, accepted, sends)
          /\ Concluded(d, id) \/ Onward(d) \/ \E at : JobAt(d, at)
    BY <1>1, LooksStep, Zenon
  <2> QED BY <2>1, RowKept, SameRows, OwnGoesOn DEF DrivesAt
<1>2. CASE Sends(d)
  <2>1. PICK reply \in Replies :
          /\ DrivesAt(d, "send") /\ rows' = rows /\ run' = run
          /\ NetworkAnswers(id, reply)
          /\ DriverTo(d, "reply", job[d].on, job[d].tracked, reply, job[d].verdict)
    BY <1>2, SendsStep
  <2>2. Settled /\ RowsStay
    BY <2>1, NetworkAnswersSettled DEF DrivesAt, RowsStay
  <2>3. job'[d].on = job[d].on /\ \A e \in Drivers : e # d => job'[e] = job[e]
    BY <2>1 DEF DriverTo
  <2> QED BY <2>1, <2>2, <2>3, OwnDrives DEF DrivesAt
<1>3. CASE RecordsAnswer(d)
  <2>1. PICK accepted, sends :
          /\ DrivesAt(d, "reply") /\ UNCHANGED <<pool, tx, accountSeq>>
          /\ rows' = rows \/ SendsTo(id, accepted, sends)
          /\ Concluded(d, id) \/ Onward(d) \/ \E at : JobAt(d, at)
    <3>1. /\ DrivesAt(d, "reply") /\ UNCHANGED <<pool, tx, accountSeq>>
          /\ rows' = rows \/ \E accepted, sends : SendsTo(id, accepted, sends)
      BY <1>3, RecordsAnswerStep
    <3>2. Concluded(d, id) \/ Onward(d) \/ \E at : JobAt(d, at)
      BY <1>3, RecordsAnswerStep
    <3> QED BY <3>1, <3>2, Zenon
  <2> QED BY <2>1, RowKept, SameRows, OwnGoesOn DEF DrivesAt
<1>4. CASE WeighsRejection(d)
  <2>1. /\ DrivesAt(d, "weigh") /\ UNCHANGED <<rows, pool, tx, accountSeq>>
        /\ FinishTo(d, "failed") \/ Onward(d)
    BY <1>4, WeighsRejectionStep
  <2> QED BY <2>1, SameRows, OwnGoesOn DEF DrivesAt
<1>5. CASE Reloads(d)
  <2>1. /\ DrivesAt(d, "reload") /\ UNCHANGED <<rows, pool, tx, accountSeq>>
        /\ LooksTo(d, job[d].on)
        /\ IF d \in Requests
              THEN ThreadTo(d, run[d].pc, run[d].rec, run[d].chan, run[d].closed,
                            run[d].signer, "none", run[d].answer)
              ELSE run' = run
    BY <1>5, ReloadsStep
  <2>2. /\ job'[d].on = job[d].on /\ \A e \in Drivers : e # d => job'[e] = job[e]
        /\ \A q \in Requests :
             \/ run'[q] = run[q]
             \/ /\ q = d /\ run'[q].pc = run[q].pc /\ run'[q].rec = run[q].rec
                /\ run'[q].answer = run[q].answer /\ run'[q].signer = run[q].signer
    BY <2>1 DEF LooksTo, DriverTo, ThreadTo
  <2> QED BY <2>1, <2>2, SameRows, OwnDrives DEF DrivesAt
<1>6. CASE MarksReleased(d)
  <2>1. PICK accepted, sends, channel, seq, released :
          /\ DrivesAt(d, "giveBack") /\ UNCHANGED <<pool, tx, accountSeq>>
          /\ \/ rows' = rows
             \/ RowTo(id, rows[id].state, rows[id].owner, channel, seq,
                      accepted, sends, released)
          /\ Onward(d) \/ \E at : JobAt(d, at)
    BY <1>6, MarksReleasedStep, Zenon
  <2> QED BY <2>1, RowKept, SameRows, OwnGoesOn DEF DrivesAt
<1>7. CASE HandsBack(d)
  <2>1. DrivesAt(d, "hand") /\ UNCHANGED <<rows, tx>> /\ Onward(d)
    BY <1>7, HandsBackStep
  <2> QED BY <2>1, SameRows, OwnGoesOn DEF DrivesAt
<1>8. CASE CompletesRow(d)
  <2>1. /\ DrivesAt(d, "finish") /\ UNCHANGED <<pool, tx, accountSeq>>
        /\ job[d].verdict \in FinalStates /\ id \in Requests
    BY <1>8, CompletesRowStep DEF DrivesAt
  <2>2. CASE /\ rows[id].state = "submitted" /\ FinalTo(id, job[d].verdict)
             /\ IF rows[id].released THEN JobOver(d, job[d].verdict)
                                     ELSE JobAt(d, "free")
    <3>1. /\ rows'[id].state = job[d].verdict /\ rows'[id].owner = rows[id].owner
          /\ \A i \in Requests : i # id => rows'[i] = rows[i]
      BY <2>2 DEF FinalTo, RowTo
    <3>2. RowsStay /\ Settled
      BY <2>1, <2>2, <3>1 DEF RowsStay, Settled, IsFinal, FinalStates
    <3>3. job[d].at # "idle" /\ job[d].verdict \notin {"unsigned", "unavailable"}
      BY <2>1 DEF DrivesAt, FinalStates
    <3> QED BY <2>2, <3>1, <3>2, <3>3, OwnGoesOn, OwnJobOver
  <2>3. CASE rows' = rows /\ IsFinal(id) /\ JobOver(d, rows[id].state)
    BY <2>1, <2>3, SameRows, OwnJobOver DEF DrivesAt, IsFinal, FinalStates
  <2>4. CASE rows' = rows /\ JobOver(d, "error")
    BY <2>1, <2>4, SameRows, OwnJobOver DEF DrivesAt, FinalStates
  <2> QED BY <1>8, <2>2, <2>3, <2>4, CompletesRowStep
<1>9. CASE FreesChannel(d)
  <2>1. /\ DrivesAt(d, "free") /\ UNCHANGED <<rows, tx, accountSeq>> /\ IsFinal(id)
        /\ JobOver(d, rows[id].state) \/ JobOver(d, "error")
    BY <1>9, FreesChannelStep
  <2> QED BY <2>1, SameRows, OwnJobOver DEF DrivesAt, IsFinal, FinalStates
<1> QED BY <1>1, <1>2, <1>3, <1>4, <1>5, <1>6, <1>7, <1>8, <1>9 DEF JobStep

\* Reconcilers start, the network and clocks run: no request is disturbed.
LEMMA WorldOwns ==
  ASSUME IndInv, OwnInv,
         \/ \E p \in Replicas : StartsReconcile(p)
         \/ NetworkStep \/ ClockStep
  PROVE  OwnInv'
<1>1. CASE \E p \in Replicas : StartsReconcile(p)
  <2>1. PICK p \in Replicas : StartsReconcile(p)
    BY <1>1
  <2>2. PICK id : LooksTo(p, id)
    BY <2>1, StartsReconcileStep
  <2>3. UNCHANGED <<rows, run, tx>> /\ p \notin Requests
    BY <2>1, StartsReconcileStep
  <2>4. \A q \in Requests : run'[q] = run[q] /\ job'[q] = job[q]
    BY <2>2, <2>3 DEF LooksTo, DriverTo, Drivers
  <2> QED BY <2>3, <2>4, SameRows, OwnersKeep, OwnKeeps
<1>2. CASE NetworkStep
  <2>1. UNCHANGED <<rows, pool, run, job>>
    BY <1>2, NetworkStepTo
  <2>2. \A id \in Requests : tx[id] # "none" => tx'[id] # "none"
    BY <1>2, NetworkStepTo DEF TxTo
  <2> QED BY <2>1, <2>2, SameRows, OwnersKeep, OwnKeeps
<1>3. CASE ClockStep
  <2>1. /\ UNCHANGED <<run, job, tx>>
        /\ rows' = rows \/ \E id \in Requests : \E accepted, sends : SendsTo(id, accepted, sends)
    BY <1>3, ClockStepTo
  <2>2. RowsStay /\ Settled
    BY <2>1, RowKept, SameRows
  <2> QED BY <2>1, <2>2, OwnersKeep, OwnKeeps
<1> QED BY <1>1, <1>2, <1>3

LEMMA CrashesOwns ==
  ASSUME IndInv, OwnInv, NEW p \in Replicas, Crashes(p)
  PROVE  OwnInv'
<1>1. RowsStay /\ Settled
  BY CrashesStep DEF RowsStay, Settled
<1>2. ASSUME NEW r \in Requests
      PROVE  StillOwns(r) /\ OwnFits(r)'
  <2>1. /\ ThreadFits(r, run[r]) /\ DriveFits(r) /\ AnswerFits(r) /\ RunFits(r, run[r])
        /\ \A id \in Requests : Exists(id) /\ rows[id].owner = r => OwnerFits(id, rows[id], run[r])
    BY OwnHere
  <2>2. CrashedRun(p, r)
    BY CrashesStep
  <2>3. \/ run'[r] = run[r]
        \/ /\ run'[r].pc \in {"dead", "done"} /\ run'[r].signer = "off"
           /\ run'[r].rec = None
           /\ run'[r].answer \in {"none", run[r].answer}
           /\ run'[r].pc = "dead" => run'[r].answer = "none"
           /\ run'[r].pc = "done" => run[r].pc = "done"
    BY <2>1, <2>2 DEF CrashedRun, RunFits, Submitting, SubmittingSteps
  <2>4. StillOwns(r)
    <3> SUFFICES ASSUME NEW id \in Requests, Exists(id), rows[id].owner = r
                 PROVE  OwnerFits(id, rows[id], run'[r])
      BY DEF StillOwns
    <3>1. OwnerFits(id, rows[id], run[r])
      BY <2>1
    <3> QED BY <2>3, <3>1 DEF OwnerFits, SubmittingSteps, Unsubmitted, OffChainPcs
  <2>5. ThreadFits(r, run'[r])
    BY <2>1, <2>3, LedgerAssumption DEF ThreadFits
  <2>6. r \in Drivers /\ (job'[r] = job[r] \/ (job'[r] = NoJob /\ run'[r].pc = "dead")
                          \/ (job'[r] = NoJob /\ run'[r] = run[r]))
    BY CrashesStep DEF Drivers, CrashedJob
  <2>7. DriveFits(r)'
    <3>1. NoJob.at = "idle"
      BY DEF NoJob
    <3>2. run[r].pc \in {"answer", "drive"} => run[r].rec \in Requests
      BY <2>1 DEF RunFits
    <3>3. \A id \in Requests : rows'[id].owner = rows[id].owner /\ tx'[id] = tx[id]
      BY CrashesStep
    <3>4. run'[r] = run[r] \/ run'[r].pc \in {"dead", "done"}
      BY <2>3
    <3>5. CASE run'[r] = run[r]
      BY <2>1, <2>6, <3>1, <3>2, <3>3, <3>5 DEF DriveFits
    <3>6. CASE run'[r] # run[r]
      <4>1. run'[r].pc = "dead" => job'[r] = NoJob
        BY <3>6, CrashesStep
      <4> QED BY <2>1, <2>3, <2>6, <3>1, <3>4, <3>6, <4>1 DEF DriveFits
    <3> QED BY <3>5, <3>6
  <2>8. AnswerFits(r)'
    <3>1. \A id \in Requests : rows'[id].state = rows[id].state
      BY CrashesStep
    <3> QED BY <2>1, <2>3, <3>1 DEF AnswerFits, FinalStates
  <2>9. OwnFits(r)'
    BY <2>5, <2>7, <2>8 DEF OwnFits, ThreadFits
  <2> QED BY <2>4, <2>9
<1>3. OwnerShape'
  BY <1>1, <1>2, OwnersKeep
<1> QED BY <1>1, <1>2, <1>3, OwnKeeps

LEMMA RequestsOwn ==
  ASSUME IndInv, OwnInv, NEW r \in Requests, RequestStep(r) \/ SignerStep(r)
  PROVE  OwnInv'
BY ClaimsOwns, AnswersRepeatOwns, AwaitsExistingOwns, CallThrowsOwns, ThreadsOwn,
   FinishesOffChainOwns, AbandonsOwn, RaceOwns, FindsRowOwns, AnswersUnsignedOwns,
   RecordsFirstAnswerOwns, SubmitsOwns, RecordsEnvelopeOwns, SendsFirstOwns
   DEF RequestStep, SignerStep

LEMMA OwnNext ==
  ASSUME IndInv, OwnInv, [Next]_vars
  PROVE  OwnInv'
<1>1. CASE UNCHANGED vars
  <2>1. UNCHANGED <<rows, run, job, tx>>
    BY <1>1 DEF vars
  <2> QED BY <2>1, SameRows, OwnersKeep, OwnKeeps
<1>2. CASE Next
  BY <1>2, RequestsOwn, JobsOwn, WorldOwns, CrashesOwns DEF Next
<1> QED BY <1>1, <1>2

LEMMA OwnInit == Init => OwnInv
<1> SUFFICES ASSUME Init PROVE OwnInv
  OBVIOUS
<1>1. \A id \in Requests : ~Exists(id)
  BY DEF Init, LedgerInit, Exists, NoRow
<1>2. ASSUME NEW r \in Requests PROVE OwnFits(r)
  <2>1. r \in Drivers
    BY DEF Drivers
  <2>2. /\ run[r].pc = "start" /\ run[r].rec = None /\ run[r].raced = "none"
        /\ run[r].answer = "none" /\ job[r].at = "idle"
    BY <2>1 DEF Init, NoRun, NoJob
  <2> QED BY <2>2, LedgerAssumption
          DEF OwnFits, ThreadFits, DriveFits, AnswerFits, FinalStates
<1> QED BY <1>1, <1>2 DEF OwnInv, OwnerShape

\* Who owns a row owns it for good once it is recorded: OwnInv holds in every
\* reachable state.
THEOREM OwnersKnown == Spec => [](IndInv /\ OwnInv)
<1>1. Init => IndInv /\ OwnInv
  BY InitOK, OwnInit
<1>2. IndInv /\ OwnInv /\ [Next]_vars => IndInv' /\ OwnInv'
  BY NextKeeps, OwnNext
<1> QED BY <1>1, <1>2, PTL DEF Spec

\* A request that answered that nothing was signed never has a transaction
\* recorded under its claim, however late its signature comes.
THEOREM UnsignedForGood == Spec => []UnsignedIsTrue
<1>1. ASSUME IndInv, OwnInv PROVE UnsignedIsTrue
  <2> SUFFICES ASSUME NEW r \in Requests, run[r].answer \in {"unsigned", "unavailable"},
                      NEW id \in Requests, tx[id] # "none", rows[id].owner = r
               PROVE  FALSE
    BY DEF UnsignedIsTrue
  <2>1. Exists(id)
    BY <1>1 DEF IndInv, RowShape, RowFits, Exists, FinalStates
  <2> QED BY <1>1, <2>1 DEF OwnInv, OwnerShape, OwnerFits
<1> QED BY <1>1, OwnersKnown, PTL

\* Two final answers to one key never differ.
THEOREM AnsweredAlike == Spec => []AnswersAgree
<1>1. ASSUME IndInv, OwnInv PROVE AnswersAgree
  <2> SUFFICES ASSUME NEW r \in Requests, NEW q \in Requests, KeyOf[r] = KeyOf[q],
                      run[r].answer \in FinalStates, run[q].answer \in FinalStates
               PROVE  run[r].answer = run[q].answer
    BY DEF AnswersAgree
  <2>1. PICK i \in Requests : KeyOf[i] = KeyOf[r] /\ rows[i].state = run[r].answer
    BY <1>1 DEF OwnInv, OwnFits, AnswerFits
  <2>2. PICK j \in Requests : KeyOf[j] = KeyOf[q] /\ rows[j].state = run[q].answer
    BY <1>1 DEF OwnInv, OwnFits, AnswerFits
  <2>3. Exists(i) /\ Exists(j)
    BY <2>1, <2>2 DEF Exists, FinalStates
  <2> QED BY <1>1, <2>1, <2>2, <2>3 DEF IndInv, OneRowPerKey
<1> QED BY <1>1, OwnersKnown, PTL

-----------------------------------------------------------------------------
(* Fate                                                                     *)

\* A recorded transaction keeps its source, and its row its owner.
SourcesStay ==
  \A id \in Requests : tx[id] # "none" =>
    /\ rows'[id].channel = rows[id].channel /\ rows'[id].seq = rows[id].seq
    /\ rows'[id].owner = rows[id].owner

\* What is decided about a recorded transaction stays decided.
FatesStay ==
  \A id \in Requests : tx[id] # "none" =>
    /\ tx'[id] # "none"
    /\ tx[id] = "ok" => tx'[id] = "ok"
    /\ Gone(id) => Gone(id)'
    /\ ~Live(id) => ~Live(id)'
    /\ tx[id] \in {"doomed", "dead"} => tx'[id] \in {"doomed", "dead"}

LEMMA SameFates ==
  ASSUME SourcesStay, UNCHANGED <<tx, accountSeq>>
  PROVE  FatesStay
BY DEF SourcesStay, FatesStay, Gone, Live, SequenceUsed, Sequence, Channel

LEMMA AnswersFates ==
  ASSUME IndInv, NEW id \in Requests, NEW reply, NetworkAnswers(id, reply),
         UNCHANGED <<rows, accountSeq>>
  PROVE  FatesStay /\ \A i \in Requests : tx[i] = "none" => tx'[i] = "none"
<1>1. /\ \A i \in Requests : i # id => tx'[i] = tx[i]
      /\ \/ tx'[id] = tx[id]
         \/ tx[id] \in {"signed", "queued"} /\ ~SequenceUsed(id) /\ tx'[id] = "queued"
         \/ /\ tx[id] \in {"signed", "doomed"} /\ ~SequenceUsed(id)
            /\ tx'[id] = "doomed"
  BY NetworkAnswersStep DEF TxTo
<1>2. \A i \in Requests : SequenceUsed(i)' = SequenceUsed(i)
  BY DEF SequenceUsed, Sequence, Channel
<1> QED BY <1>1, <1>2 DEF FatesStay, Gone, Live

LEMMA NetworkFates ==
  ASSUME IndInv, NetworkStep
  PROVE  /\ FatesStay /\ UNCHANGED <<rows, run, job>>
         /\ \A i \in Requests : tx[i] = "none" => tx'[i] = "none"
<1>1. UNCHANGED <<rows, pool, run, job>>
  BY NetworkStepTo
<1>2. /\ accountSeq \in [Channels -> Nat]
      /\ \A id \in Requests : /\ tx[id] # "none" => Channel(id) \in Channels
                              /\ Sequence(id) \in Nat
  BY DEF IndInv, TypeOK, RowShape, RowFits, Channel, Sequence, Row
<1>3. \A id \in Requests : Channel(id)' = Channel(id) /\ Sequence(id)' = Sequence(id)
  BY <1>1 DEF Channel, Sequence
<1>4. ASSUME NEW id \in Requests, tx[id] = "queued",
             accountSeq[Channel(id)] + 1 = Sequence(id), TxTo(id, "ok") \/ TxTo(id, "bad"),
             accountSeq' = [accountSeq EXCEPT ![Channel(id)] = Sequence(id)]
      PROVE  FatesStay /\ \A i \in Requests : tx[i] = "none" => tx'[i] = "none"
  <2>1. \A c \in Channels : accountSeq'[c] >= accountSeq[c]
    BY <1>2, <1>4
  <2>2. \A i \in Requests : tx[i] # "none" /\ SequenceUsed(i) => SequenceUsed(i)'
    <3> SUFFICES ASSUME NEW i \in Requests, tx[i] # "none", SequenceUsed(i)
                 PROVE  SequenceUsed(i)'
      OBVIOUS
    <3>1. accountSeq[Channel(i)] >= Sequence(i) /\ Channel(i) \in Channels
      BY <1>2 DEF SequenceUsed
    <3>2. accountSeq'[Channel(i)] >= Sequence(i)
      <4>1. /\ accountSeq'[Channel(i)] \in Nat /\ accountSeq[Channel(i)] \in Nat
            /\ Sequence(i) \in Nat /\ Sequence(id) \in Nat
        BY <1>2, <1>4, <3>1
      <4> QED BY <2>1, <3>1, <4>1
    <3> QED BY <1>3, <3>2 DEF SequenceUsed
  <2>3. ~SequenceUsed(id)
    BY <1>2, <1>4 DEF SequenceUsed
  <2>4. /\ \A i \in Requests : i # id => tx'[i] = tx[i]
        /\ tx'[id] \in {"ok", "bad"}
    BY <1>4 DEF TxTo
  <2>5. ~Gone(id) /\ Live(id)
    BY <1>4, <2>3 DEF Gone, Live
  <2> QED BY <1>4, <2>2, <2>4, <2>5 DEF FatesStay, Gone, Live
<1>5. ASSUME NEW id \in Requests, tx[id] \in {"signed", "doomed", "queued"},
             TxTo(id, "dead"), UNCHANGED accountSeq
      PROVE  FatesStay /\ \A i \in Requests : tx[i] = "none" => tx'[i] = "none"
  <2>1. /\ \A i \in Requests : i # id => tx'[i] = tx[i]
        /\ tx'[id] = "dead"
    BY <1>5 DEF TxTo
  <2>2. \A i \in Requests : SequenceUsed(i)' = SequenceUsed(i)
    BY <1>1, <1>5 DEF SequenceUsed, Sequence, Channel
  <2> QED BY <1>5, <2>1, <2>2 DEF FatesStay, Gone, Live
<1>6. ASSUME NEW c \in Channels, tx' = tx, accountSeq' = [accountSeq EXCEPT ![c] = @ + 1]
      PROVE  FatesStay /\ \A i \in Requests : tx[i] = "none" => tx'[i] = "none"
  <2>1. \A i \in Requests : tx[i] # "none" /\ SequenceUsed(i) => SequenceUsed(i)'
    <3> SUFFICES ASSUME NEW i \in Requests, tx[i] # "none", SequenceUsed(i)
                 PROVE  SequenceUsed(i)'
      OBVIOUS
    <3>1. accountSeq[Channel(i)] >= Sequence(i) /\ Channel(i) \in Channels
      BY <1>2 DEF SequenceUsed
    <3>2. accountSeq'[Channel(i)] >= Sequence(i)
      BY <1>2, <1>6, <3>1
    <3> QED BY <1>3, <3>2 DEF SequenceUsed
  <2> QED BY <1>6, <2>1 DEF FatesStay, Gone, Live
<1> QED BY <1>1, <1>4, <1>5, <1>6, NetworkStepTo

\* A step that keeps the fates, and concludes nothing wrong, keeps FateInv.
LEMMA FateKeeps ==
  ASSUME IndInv, FateInv, FatesStay,
         \A d \in Drivers : job'[d] = job[d] \/ JobFate(job[d])',
         \A id \in Requests :
           \/ /\ rows'[id].state = rows[id].state /\ rows'[id].released = rows[id].released
              /\ tx[id] = "none" => tx'[id] = "none"
           \/ RowFate(id)',
         \A r \in Requests : run'[r] = run[r] \/ RaceFate(r)'
  PROVE  FateInv'
<1>1. ASSUME NEW d \in Drivers, job'[d] = job[d]
      PROVE  JobFate(job[d])'
  <2>1. JobFate(job[d]) /\ (job[d].at # "idle" => job[d].on \in Requests /\ tx[job[d].on] # "none")
    BY DEF FateInv, IndInv, JobShape, JobFits
  <2> QED BY <1>1, <2>1 DEF JobFate, FatesStay
<1>2. ASSUME NEW id \in Requests, rows'[id].state = rows[id].state,
             rows'[id].released = rows[id].released, tx[id] = "none" => tx'[id] = "none"
      PROVE  RowFate(id)'
  <2>1. RowFate(id)
    BY DEF FateInv
  <2> QED BY <1>2, <2>1 DEF RowFate, FatesStay
<1>3. ASSUME NEW r \in Requests, run'[r] = run[r]
      PROVE  RaceFate(r)'
  BY <1>3 DEF FateInv, RaceFate, FatesStay
<1> QED BY <1>1, <1>2, <1>3 DEF FateInv

\* Steps of one request that write nothing, and learn nothing of its send.
NotedSteps == {"sending", "accepted", "refused", "unheard"}

Quietly(r) ==
  /\ UNCHANGED <<rows, job, tx, accountSeq>> /\ Alone(r)
  /\ \/ run'[r].raced = "none"
     \/ /\ run'[r].raced = run[r].raced /\ run'[r].rec = run[r].rec
        /\ Submitting(r) \/ run[r].pc # "fetch"
  /\ \/ run'[r].signer \notin NotedSteps
     \/ run'[r].signer = run[r].signer /\ run'[r].rec = run[r].rec
  /\ \/ run'[r].pc = run[r].pc /\ run[r].signer \in {"read", "built"}
     \/ /\ run'[r].pc \notin {"fetch", "answer", "drive", "start"}
        /\ run[r].pc \notin {"race", "answer", "drive", "done"}

LEMMA QuietSteps ==
  ASSUME IndInv, OwnInv, NEW r \in Requests,
         \/ CallThrows(r) \/ SettlesOffChain(r) \/ GetsNoChannel(r) \/ ReleasesLost(r)
         \/ AnswersUnsigned(r) \/ AnswersRepeat(r) \/ AwaitsExisting(r)
         \/ LeasesChannel(r) \/ ChecksChannel(r) \/ QuarantinesAgain(r)
         \/ BuildsTransaction(r) \/ RefusesToSign(r) \/ SignsFeeBump(r)
  PROVE  Quietly(r)
<1>1. ASSUME NEW a, EndsTo(r, a), UNCHANGED <<rows, job, tx, accountSeq>>,
             run[r].pc \notin {"race", "answer", "drive", "done"}
      PROVE  Quietly(r)
  BY <1>1 DEF EndsTo, OverTo, ThreadTo, Quietly, Alone, Submitting, SubmittingSteps, NotedSteps
<1>2. ASSUME NEW pc, NEW chan, NEW signer, UNCHANGED <<rows, job, tx, accountSeq>>,
             ThreadTo(r, pc, run[r].rec, chan, run[r].closed, signer, run[r].raced, run[r].answer),
             signer = run[r].signer \/ (run[r].pc = "check" /\ signer = "read"),
             pc \notin {"fetch", "answer", "drive", "start"},
             run[r].pc \notin {"race", "fetch", "answer", "drive", "done"}
      PROVE  Quietly(r)
  <2>1. RunFits(r, run[r])
    BY Here
  <2> QED BY <1>2, <2>1 DEF ThreadTo, Quietly, Alone, RunFits, SubmittingSteps, NotedSteps
<1>3. ASSUME NEW step \in {"built", "writing"}, SignerTo(r, step) \/ StopsTo(r),
             UNCHANGED <<rows, job, tx, accountSeq>>, run[r].signer \in {"read", "built"}
      PROVE  Quietly(r)
  BY <1>3 DEF SignerTo, StopsTo, OverTo, ThreadTo, Quietly, Alone, Submitting,
              SubmittingSteps, NotedSteps
<1>4. CASE CallThrows(r) \/ AnswersUnsigned(r) \/ AwaitsExisting(r)
  BY <1>1, <1>4, ThreadSteps, AwaitsExistingStep DEF Unguarded
<1>5. CASE SettlesOffChain(r) \/ GetsNoChannel(r) \/ ReleasesLost(r)
  BY <1>2, <1>5, ThreadSteps DEF PcTo
<1>6. CASE LeasesChannel(r) \/ QuarantinesAgain(r)
  BY <1>2, <1>6, LeasesChannelStep, QuarantinesAgainStep
<1>7. CASE ChecksChannel(r)
  BY <1>2, <1>7, ChecksChannelStep DEF PcTo
<1>8. CASE BuildsTransaction(r) \/ RefusesToSign(r) \/ SignsFeeBump(r)
  BY <1>3, <1>8, BuildsTransactionStep, RefusesToSignStep, SignsFeeBumpStep
<1>9. CASE AnswersRepeat(r)
  <2>1. ThreadFits(r, run[r]) /\ RunFits(r, run[r])
    BY OwnHere
  <2>2. run[r].pc = "start" /\ UNCHANGED <<rows, job, tx, accountSeq>>
    BY <1>9, AnswersRepeatStep
  <2>3. /\ run'[r].pc \in {"done", "repeat"} /\ Alone(r)
        /\ run'[r].signer \in {"off", run[r].signer} /\ run'[r].raced \in {"none", run[r].raced}
    BY <1>9, <2>2, AnswersRepeatStep DEF OverTo, ThreadTo, Alone
  <2> QED BY <2>1, <2>2, <2>3
          DEF Quietly, ThreadFits, RunFits, SubmittingSteps, NotedSteps
<1> QED BY <1>4, <1>5, <1>6, <1>7, <1>8, <1>9

LEMMA QuietFates ==
  ASSUME IndInv, FateInv, NEW r \in Requests, Quietly(r)
  PROVE  FateInv'
<1>1. FatesStay
  BY SameFates DEF Quietly, SourcesStay
<1>2. RaceFate(r)'
  BY DEF Quietly, FateInv, RaceFate
<1> QED BY <1>1, <1>2, FateKeeps DEF Quietly, Alone

\* Steps of one request that write the ledger: only a claim, or a settlement
\* without a transaction.
Claimingly(r) ==
  /\ UNCHANGED <<job, tx, accountSeq>> /\ Alone(r)
  /\ \/ rows' = rows
     \/ \E id \in Requests :
          /\ tx[id] = "none"
          /\ \A i \in Requests : i # id => rows'[i] = rows[i]
          /\ rows'[id].state \in {"absent", "claimed", "succeeded"}
          /\ rows'[id].released \in {FALSE, rows[id].released}
  /\ \/ run'[r].raced = "none"
     \/ run'[r].raced = run[r].raced /\ run'[r].rec = run[r].rec
  /\ \/ run'[r].signer \notin NotedSteps
     \/ run'[r].signer = run[r].signer /\ run'[r].rec = run[r].rec
  /\ run'[r].pc \notin {"fetch", "answer", "drive", "start"}
  /\ run[r].pc \notin {"race", "fetch", "answer", "drive", "done"}

LEMMA ClaimSteps ==
  ASSUME IndInv, OwnInv, NEW r \in Requests,
         \/ Claims(r) \/ AbandonsClaim(r) \/ AbandonsUnleased(r) \/ AbandonsOffChain(r)
         \/ FinishesOffChain(r)
  PROVE  Claimingly(r)
<1>1. CASE Claims(r)
  <2>1. PICK id, channel, seq, accepted, sends, released :
          /\ id \in Requests
          /\ UNCHANGED <<job, tx, accountSeq>> /\ run[r].pc = "start"
          /\ ThreadTo(r, FirstStep(r), id, run[r].chan, run[r].closed,
                      run[r].signer, run[r].raced, run[r].answer)
          /\ (id = r /\ Find(KeyOf[r]) = {}) \/ rows[id].state = "claimed"
          /\ RowTo(id, "claimed", r, channel, seq, accepted, sends, released)
          /\ released \in {FALSE, rows[id].released}
    BY <1>1, ClaimsStep, Zenon
  <2>2. tx[id] = "none"
    BY <2>1, Unrecorded DEF Find, Exists
  <2>3. /\ \A i \in Requests : i # id => rows'[i] = rows[i]
        /\ rows'[id].state = "claimed" /\ rows'[id].released \in {FALSE, rows[id].released}
    BY <2>1 DEF RowTo
  <2>4. /\ run'[r].pc \in {"offchain", "lease"} /\ run'[r].raced = run[r].raced
        /\ run'[r].signer = run[r].signer /\ Alone(r)
    BY <2>1 DEF ThreadTo, FirstStep, Alone
  <2>5. run[r].raced = "none" /\ run[r].signer = "off"
    BY <2>1, OwnHere DEF RunFits, ThreadFits
  <2> QED BY <2>1, <2>2, <2>3, <2>4, <2>5 DEF NotedSteps, Claimingly
<1>2. ASSUME NEW id \in Requests,
             \/ rows' = rows
             \/ /\ OwnsClaim(id, r)
                /\ \/ RowTo(id, "absent", None, None, 0, FALSE, {}, FALSE)
                   \/ FinalTo(id, "succeeded"),
             UNCHANGED <<job, tx, accountSeq>>,
             NEW a, PcTo(r, "recheck") \/ PcTo(r, "taken") \/ EndsTo(r, a),
             run[r].pc \in {"abandon", "unleased", "offAbandon", "offFinish"}
      PROVE  Claimingly(r)
  <2>1. \/ rows' = rows
        \/ /\ tx[id] = "none"
           /\ \A i \in Requests : i # id => rows'[i] = rows[i]
           /\ rows'[id].state \in {"absent", "claimed", "succeeded"}
           /\ rows'[id].released \in {FALSE, rows[id].released}
    <3>1. OwnsClaim(id, r) => tx[id] = "none"
      BY Unrecorded DEF OwnsClaim
    <3>2. RowTo(id, "absent", None, None, 0, FALSE, {}, FALSE) =>
            /\ \A i \in Requests : i # id => rows'[i] = rows[i]
            /\ rows'[id].state = "absent" /\ rows'[id].released = FALSE
      BY DEF RowTo
    <3>3. FinalTo(id, "succeeded") =>
            /\ \A i \in Requests : i # id => rows'[i] = rows[i]
            /\ rows'[id].state = "succeeded" /\ rows'[id].released = rows[id].released
      BY DEF RowTo, FinalTo
    <3> QED BY <1>2, <3>1, <3>2, <3>3
  <2>2. /\ Alone(r) /\ run'[r].pc \in {"recheck", "taken", "done"}
        /\ \/ run'[r].raced = "none"
           \/ run'[r].raced = run[r].raced /\ run'[r].rec = run[r].rec
        /\ \/ run'[r].signer \notin NotedSteps
           \/ run'[r].signer = run[r].signer /\ run'[r].rec = run[r].rec
    BY <1>2 DEF PcTo, EndsTo, OverTo, ThreadTo, Alone, NotedSteps
  <2> QED BY <1>2, <2>1, <2>2 DEF Claimingly
<1>3. CASE AbandonsClaim(r) \/ AbandonsUnleased(r) \/ AbandonsOffChain(r)
  <2>1. /\ run[r].rec \in Requests /\ UNCHANGED <<job, tx, accountSeq>>
        /\ run[r].pc \in {"abandon", "unleased", "offAbandon", "offFinish"}
    BY <1>3, AbandonSteps
  <2>2. PcTo(r, "recheck") \/ EndsTo(r, "unavailable") \/ EndsTo(r, "unsigned")
    BY <1>3, AbandonSteps
  <2>3. \/ rows' = rows
        \/ /\ OwnsClaim(run[r].rec, r)
           /\ RowTo(run[r].rec, "absent", None, None, 0, FALSE, {}, FALSE)
    BY <1>3, AbandonSteps DEF AbandonsTo
  <2> QED BY <1>2, <2>1, <2>2, <2>3
<1>4. CASE FinishesOffChain(r)
  <2>1. /\ run[r].rec \in Requests /\ UNCHANGED <<job, tx, accountSeq>>
        /\ run[r].pc = "offFinish"
    BY <1>4, FinishesOffChainStep
  <2>2. \/ OwnsClaim(run[r].rec, r) /\ FinalTo(run[r].rec, "succeeded") /\ EndsTo(r, "succeeded")
        \/ rows' = rows /\ (PcTo(r, "taken") \/ EndsTo(r, "error"))
    BY <1>4, FinishesOffChainStep
  <2> QED BY <1>2, <2>1, <2>2
<1> QED BY <1>1, <1>3, <1>4

LEMMA ClaimFates ==
  ASSUME IndInv, FateInv, NEW r \in Requests, Claimingly(r)
  PROVE  FateInv'
<1>1. \A i \in Requests : tx[i] # "none" => rows'[i] = rows[i]
  BY DEF Claimingly
<1>2. FatesStay
  BY <1>1, SameFates DEF Claimingly, SourcesStay
<1>3. ASSUME NEW id \in Requests
      PROVE  \/ /\ rows'[id].state = rows[id].state /\ rows'[id].released = rows[id].released
                /\ tx[id] = "none" => tx'[id] = "none"
             \/ RowFate(id)'
  <2>1. tx' = tx /\ RowFate(id)
    BY DEF Claimingly, FateInv
  <2>2. CASE rows'[id] = rows[id]
    BY <2>1, <2>2
  <2>3. CASE rows'[id] # rows[id]
    <3>1. /\ tx[id] = "none" /\ rows'[id].state \in {"absent", "claimed", "succeeded"}
          /\ rows'[id].released \in {FALSE, rows[id].released}
      BY <2>3 DEF Claimingly
    <3> QED BY <2>1, <3>1 DEF RowFate
  <2> QED BY <2>2, <2>3
<1>4. RaceFate(r)'
  BY DEF Claimingly, FateInv, RaceFate
<1> QED BY <1>2, <1>3, <1>4, FateKeeps DEF Claimingly, Alone

LEMMA RecordsEnvelopeFates ==
  ASSUME IndInv, OwnInv, FateInv, NEW r \in Requests, RecordsEnvelope(r)
  PROVE  FateInv'
<1>1. PICK id \in Requests : /\ id = run[r].rec
                            /\ UNCHANGED <<pool, job, accountSeq>>
  BY RecordsEnvelopeStep
<1>2. PICK step : SignerTo(r, step) \/ StopsTo(r)
  BY RecordsEnvelopeStep
<1>3. /\ \A q \in Requests : q # r => run'[q] = run[q]
      /\ \/ run'[r].raced = "none"
         \/ run'[r].raced = run[r].raced /\ run'[r].rec = run[r].rec
  BY <1>2 DEF SignerTo, StopsTo, OverTo, ThreadTo
<1>4. CASE ~OwnsClaim(id, r)
  <2>1. rows' = rows /\ tx' = tx
    BY <1>1, <1>4, RecordsEnvelopeStep
  <2>2. FatesStay
    BY <1>1, <2>1, SameFates DEF SourcesStay
  <2>3. RaceFate(r)'
    BY <1>1, <1>3, <2>1 DEF FateInv, RaceFate
  <2> QED BY <1>1, <1>3, <2>1, <2>2, <2>3, FateKeeps
<1>5. CASE OwnsClaim(id, r)
  <2>1. PICK n \in Nat :
          /\ RowTo(id, "submitted", r, run[r].chan, n, FALSE, {FirstSend}, rows[id].released)
          /\ TxTo(id, "signed")
    BY <1>1, <1>5, RecordsEnvelopeStep
  <2>2. /\ \A i \in Requests : i # id => rows'[i] = rows[i] /\ tx'[i] = tx[i]
        /\ rows'[id].state = "submitted" /\ rows'[id].released = rows[id].released
        /\ tx'[id] = "signed"
    BY <2>1 DEF RowTo, TxTo
  <2>3. tx[id] = "none"
    BY <1>1, <1>5, Unrecorded DEF OwnsClaim
  <2>4. FatesStay
    BY <1>1, <2>2, <2>3 DEF FatesStay, Gone, Live, SequenceUsed, Sequence, Channel
  <2>5. RowFate(id)'
    <3>1. ~rows[id].released
      BY <1>1, <2>3 DEF FateInv, RowFate
    <3>2. ~rows'[id].released /\ tx'[id] # "none" /\ rows'[id].state = "submitted"
      BY <2>2, <3>1
    <3> QED BY <3>2 DEF RowFate
  <2>6. RaceFate(r)'
    BY <1>1, <1>3, <2>2, <2>3 DEF FateInv, RaceFate
  <2>7. ASSUME NEW i \in Requests
        PROVE  \/ /\ rows'[i].state = rows[i].state /\ rows'[i].released = rows[i].released
                  /\ tx[i] = "none" => tx'[i] = "none"
               \/ RowFate(i)'
    BY <2>2, <2>5
  <2>8. \A q \in Requests : run'[q] = run[q] \/ RaceFate(q)'
    BY <1>3, <2>6
  <2> QED BY <1>1, <2>4, <2>7, <2>8, FateKeeps
<1> QED BY <1>4, <1>5

LEMMA RaceFates ==
  ASSUME IndInv, FateInv, NEW r \in Requests,
         SubmissionReturns(r) \/ SignWindowElapses(r) \/ ConfirmWindowElapses(r)
  PROVE  FateInv'
<1>1. PICK result, step :
        /\ run[r].rec \in Requests /\ UNCHANGED <<rows, pool, job, tx, accountSeq>>
        /\ result = "settled" => tx[run[r].rec] = "ok"
        /\ ThreadTo(r, "fetch", run[r].rec, run[r].chan, ~Noted(r), step,
                    result, run[r].answer)
  BY RaceStep
<1>2. RaceFate(r)' /\ Alone(r)
  BY <1>1 DEF ThreadTo, RaceFate, Alone
<1>3. FatesStay
  BY <1>1, SameFates DEF SourcesStay
<1> QED BY <1>1, <1>2, <1>3, FateKeeps DEF Alone

LEMMA FindsRowFates ==
  ASSUME IndInv, FateInv, NEW r \in Requests, FetchesRow(r) \/ RechecksRow(r)
  PROVE  FateInv'
<1>1. PICK pc :
        /\ PcTo(r, pc) /\ UNCHANGED <<rows, pool, tx, accountSeq>>
        /\ LooksTo(r, run[r].rec) \/ job' = job
  BY FetchesRowStep, RechecksRowStep, Zenon
<1>2. /\ \A q \in Requests : q # r => run'[q] = run[q]
      /\ run'[r].raced = run[r].raced /\ run'[r].rec = run[r].rec
      /\ \A d \in Drivers : job'[d] = job[d] \/ job'[d].at = "look"
  BY <1>1 DEF PcTo, ThreadTo, LooksTo, DriverTo
<1>3. RaceFate(r)' /\ FatesStay
  BY <1>1, <1>2, SameFates DEF FateInv, RaceFate, SourcesStay
<1>4. \A d \in Drivers : job'[d] = job[d] \/ JobFate(job[d])'
  BY <1>2 DEF JobFate
<1> QED BY <1>1, <1>2, <1>3, <1>4, FateKeeps

LEMMA SendsFirstFates ==
  ASSUME IndInv, OwnInv, FateInv, NEW r \in Requests, SendsFirst(r)
  PROVE  FateInv'
<1>1. /\ run[r].signer = "sending" /\ run[r].rec \in Requests
      /\ UNCHANGED <<rows, pool, job, accountSeq>>
  BY SendsFirstStep
<1>2. PICK reply, step : NetworkAnswers(run[r].rec, reply) /\ (SignerTo(r, step) \/ StopsTo(r))
  BY SendsFirstStep
<1>4. FatesStay /\ \A i \in Requests : tx[i] = "none" => tx'[i] = "none"
  BY <1>1, <1>2, AnswersFates
<1>5. /\ \A q \in Requests : q # r => run'[q] = run[q]
      /\ \/ run'[r].raced = "none"
         \/ run'[r].raced = run[r].raced /\ run'[r].rec = run[r].rec
  BY <1>2 DEF SignerTo, StopsTo, OverTo, ThreadTo
<1>6. RaceFate(r)'
  BY <1>1, <1>4, <1>5 DEF FateInv, RaceFate, FatesStay
<1> QED BY <1>1, <1>4, <1>5, <1>6, FateKeeps

LEMMA RecordsFirstAnswerFates ==
  ASSUME IndInv, OwnInv, FateInv, NEW r \in Requests, RecordsFirstAnswer(r)
  PROVE  FateInv'
<1>1. PICK raced, accepted, sends :
        /\ run[r].pc = "answer" /\ run[r].rec \in Requests /\ job[r].at = "look"
        /\ UNCHANGED <<pool, tx, accountSeq>>
        /\ SendsTo(run[r].rec, accepted, sends) \/ rows' = rows
        /\ ThreadTo(r, "drive", run[r].rec, run[r].chan, run[r].closed, run[r].signer,
                    raced, run[r].answer)
        /\ raced \in {"refused", "none"}
        /\ \/ /\ run[r].raced = "settled"
              /\ DriverTo(r, "finish", job[r].on, job[r].tracked, job[r].reply, "succeeded")
           \/ job' = job
  BY RecordsFirstAnswerStep, Zenon
<1>2. /\ RaceFate(r)'
      /\ \A q \in Requests : q # r => run'[q] = run[q]
  BY <1>1 DEF RaceFate, ThreadTo
<1>3. /\ \A i \in Requests : /\ rows'[i].state = rows[i].state
                             /\ rows'[i].released = rows[i].released
      /\ FatesStay
  BY <1>1, SameFates DEF SendsTo, RowTo, SourcesStay
<1>4. run[r].raced = "settled" => tx[job[r].on] = "ok"
  BY <1>1, OwnHere DEF FateInv, RaceFate, DriveFits
<1>5. ASSUME NEW d \in Drivers
      PROVE  job'[d] = job[d] \/ JobFate(job[d])'
  BY <1>1, <1>4, <1>5 DEF DriverTo, JobFate
<1> QED BY <1>1, <1>2, <1>3, <1>5, FateKeeps

\* The requests after a step of driver d's job: only d's own may have moved,
\* and its race is over or as it was.
RacesStay ==
  \A q \in Requests :
    \/ run'[q].raced = "none"
    \/ run'[q].raced = run[q].raced /\ run'[q].rec = run[q].rec

LEMMA JobRaces ==
  ASSUME IndInv, NEW d \in Drivers,
         \/ Onward(d) \/ Concluded(d, job[d].on)
         \/ \E at : JobAt(d, at)
         \/ \E verdict : FinishTo(d, verdict)
         \/ \E a : JobOver(d, a)
  PROVE  RacesStay /\ \A e \in Drivers : e # d => job'[e] = job[e]
<1>1. CASE (\E at : JobAt(d, at)) \/ (\E verdict : FinishTo(d, verdict))
  BY <1>1 DEF JobAt, FinishTo, DriverTo, RacesStay
<1>2. ASSUME NEW a, JobOver(d, a)
      PROVE  RacesStay /\ \A e \in Drivers : e # d => job'[e] = job[e]
  <2>1. \A e \in Drivers : e # d => job'[e] = job[e]
    BY <1>2 DEF JobOver, DriverTo
  <2>2. CASE d \in Requests
    BY <1>2, <2>1, <2>2 DEF JobOver, EndsTo, OverTo, ThreadTo, RacesStay
  <2>3. CASE d \notin Requests
    BY <1>2, <2>1, <2>3 DEF JobOver, RacesStay
  <2> QED BY <2>1, <2>2, <2>3
<1> QED BY <1>1, <1>2 DEF Onward, Concluded

LEMMA JobFates ==
  ASSUME IndInv, FateInv, NEW d \in Drivers, UNCHANGED <<tx, accountSeq>>, SourcesStay,
         \A id \in Requests :
           \/ /\ rows'[id].state = rows[id].state /\ rows'[id].released = rows[id].released
           \/ RowFate(id)',
         RacesStay, \A e \in Drivers : e # d => job'[e] = job[e], JobFate(job[d])'
  PROVE  FateInv'
<1>1. \A q \in Requests : RaceFate(q)'
  BY DEF RacesStay, FateInv, RaceFate
<1>2. FatesStay
  BY SameFates
<1> QED BY <1>1, <1>2, FateKeeps

\* A driver that goes on, or concludes something, concludes what is so.
LEMMA Concludes ==
  ASSUME IndInv, NEW d \in Drivers, NEW id \in Requests, id = job[d].on,
         UNCHANGED <<tx, accountSeq>>, SourcesStay, tx[id] # "none",
         \/ Onward(d) \/ Concluded(d, id)
         \/ \E at \in {"look", "send", "reload", "free", "idle"} : JobAt(d, at)
         \/ \E a : JobOver(d, a)
  PROVE  JobFate(job[d])'
<1>1. ASSUME job'[d].at \in {"look", "send", "reload", "free", "idle"}
      PROVE  JobFate(job[d])'
  BY <1>1 DEF JobFate
<1>2. (Gone(id) => Gone(id)') /\ (~Live(id) => ~Live(id)') /\ tx'[id] = tx[id]
  BY SameFates DEF FatesStay
<1>3. CASE Concluded(d, id)
  <2>1. job'[d].on = id
    BY <1>3 DEF Concluded, FinishTo, JobAt, DriverTo
  <2>2. CASE JobAt(d, "giveBack") /\ ~Live(id)
    <3>1. job'[d].at = "giveBack"
      BY <2>2 DEF JobAt, DriverTo
    <3> QED BY <1>2, <2>1, <2>2, <3>1 DEF JobFate
  <2>3. ASSUME NEW verdict \in FinalStates, FinishTo(d, verdict),
               IF verdict = "succeeded" THEN tx[id] = "ok" ELSE Gone(id)
        PROVE  JobFate(job[d])'
    <3>1. job'[d].at = "finish" /\ job'[d].verdict = verdict
      BY <2>3 DEF FinishTo, DriverTo
    <3> QED BY <1>2, <2>1, <2>3, <3>1 DEF JobFate
  <2> QED BY <1>3, <2>2, <2>3 DEF Concluded
<1>4. CASE \/ Onward(d)
           \/ \E at \in {"look", "send", "reload", "free", "idle"} : JobAt(d, at)
           \/ \E a : JobOver(d, a)
  BY <1>1, <1>4 DEF Onward, JobAt, JobOver, DriverTo
<1> QED BY <1>3, <1>4

LEMMA SendsKept ==
  ASSUME NEW id \in Requests, NEW accepted, NEW sends, SendsTo(id, accepted, sends) \/ rows' = rows
  PROVE  /\ SourcesStay
         /\ \A i \in Requests : /\ rows'[i].state = rows[i].state
                                /\ rows'[i].released = rows[i].released
                                /\ rows'[i].owner = rows[i].owner
BY DEF SendsTo, RowTo, SourcesStay

LEMMA JobsFate ==
  ASSUME IndInv, OwnInv, FateInv, NEW d \in Drivers, JobStep(d)
  PROVE  FateInv'
<1>0. JobFate(job[d])
  BY DEF FateInv
<1>1. CASE Looks(d)
  <2>1. PICK id, accepted, sends :
          /\ id \in Requests
          /\ id = job[d].on /\ tx[id] # "none" /\ UNCHANGED <<pool, tx, accountSeq>>
          /\ SendsTo(id, accepted, sends) \/ rows' = rows
          /\ Concluded(d, id) \/ Onward(d) \/ JobAt(d, "send")
    BY <1>1, LooksStep, Zenon DEF DrivesAt
  <2>2. SourcesStay /\ \A i \in Requests : /\ rows'[i].state = rows[i].state
                                           /\ rows'[i].released = rows[i].released
    BY <2>1, SendsKept
  <2>3. JobFate(job[d])'
    BY <2>1, <2>2, Concludes
  <2>4. RacesStay /\ \A e \in Drivers : e # d => job'[e] = job[e]
    BY <2>1, JobRaces
  <2> QED BY <2>1, <2>2, <2>3, <2>4, JobFates
<1>2. CASE Sends(d)
  <2>1. PICK id \in Requests, reply \in Replies :
          /\ id = job[d].on /\ tx[id] # "none"
          /\ UNCHANGED <<rows, pool, run, accountSeq>> /\ NetworkAnswers(id, reply)
          /\ DriverTo(d, "reply", id, job[d].tracked, reply, job[d].verdict)
    BY <1>2, SendsStep DEF DrivesAt
  <2>2. FatesStay /\ \A i \in Requests : tx[i] = "none" => tx'[i] = "none"
    BY <2>1, AnswersFates
  <2>3. /\ job'[d].at = "reply" /\ job'[d].reply = reply /\ job'[d].on = id
        /\ \A e \in Drivers : e # d => job'[e] = job[e]
    BY <2>1 DEF DriverTo
  <2>4. reply = "rejected" => tx'[id] = "doomed"
    BY <2>1, NetworkAnswersStep DEF TxTo
  <2>5. JobFate(job[d])'
    BY <2>3, <2>4 DEF JobFate
  <2> QED BY <2>1, <2>2, <2>3, <2>5, FateKeeps
<1>3. CASE RecordsAnswer(d)
  <2>1. PICK id, accepted, sends :
          /\ id \in Requests
          /\ id = job[d].on /\ tx[id] # "none" /\ UNCHANGED <<pool, tx, accountSeq>>
          /\ SendsTo(id, accepted, sends) \/ rows' = rows
          /\ job[d].at = "reply"
    BY <1>3, RecordsAnswerStep, Zenon DEF DrivesAt
  <2>2. \/ Concluded(d, id) \/ Onward(d)
        \/ job[d].reply = "rejected" /\ JobAt(d, "weigh")
    BY <1>3, <2>1, RecordsAnswerStep
  <2>3. SourcesStay /\ \A i \in Requests : /\ rows'[i].state = rows[i].state
                                           /\ rows'[i].released = rows[i].released
    BY <2>1, SendsKept
  <2>4. JobFate(job[d])'
    <3>1. CASE job[d].reply = "rejected" /\ JobAt(d, "weigh")
      <4>1. tx[id] \in {"doomed", "dead"}
        BY <1>0, <2>1, <3>1 DEF JobFate
      <4>2. job'[d].at = "weigh" /\ job'[d].on = id
        BY <2>1, <3>1 DEF JobAt, DriverTo
      <4> QED BY <2>1, <4>1, <4>2 DEF JobFate
    <3>2. CASE Concluded(d, id) \/ Onward(d)
      BY <2>1, <2>3, <3>2, Concludes
    <3> QED BY <2>2, <3>1, <3>2
  <2>5. RacesStay /\ \A e \in Drivers : e # d => job'[e] = job[e]
    BY <2>1, <2>2, JobRaces
  <2> QED BY <2>1, <2>3, <2>4, <2>5, JobFates
<1>4. CASE WeighsRejection(d)
  <2>1. PICK id \in Requests :
          /\ id = job[d].on /\ tx[id] # "none" /\ job[d].at = "weigh"
          /\ UNCHANGED <<rows, pool, tx, accountSeq>>
          /\ FinishTo(d, "failed") \/ Onward(d)
    BY <1>4, WeighsRejectionStep DEF DrivesAt
  <2>2. tx[id] \in {"doomed", "dead"}
    BY <1>0, <2>1 DEF JobFate
  <2>3. FinishTo(d, "failed") => Concluded(d, id)
    BY <2>1, <2>2 DEF Concluded, FinalStates, Gone, Live
  <2>4. SourcesStay
    BY <2>1 DEF SourcesStay
  <2>5. JobFate(job[d])'
    BY <2>1, <2>3, <2>4, Concludes
  <2>6. RacesStay /\ \A e \in Drivers : e # d => job'[e] = job[e]
    BY <2>1, JobRaces
  <2> QED BY <2>1, <2>4, <2>5, <2>6, JobFates
<1>5. CASE Reloads(d)
  <2>1. /\ UNCHANGED <<rows, pool, tx, accountSeq>> /\ LooksTo(d, job[d].on)
        /\ IF d \in Requests
              THEN ThreadTo(d, run[d].pc, run[d].rec, run[d].chan, run[d].closed,
                            run[d].signer, "none", run[d].answer)
              ELSE run' = run
    BY <1>5, ReloadsStep
  <2>2. RacesStay
    BY <2>1 DEF ThreadTo, RacesStay
  <2>3. JobFate(job[d])' /\ \A e \in Drivers : e # d => job'[e] = job[e]
    BY <2>1 DEF LooksTo, DriverTo, JobFate
  <2>4. SourcesStay
    BY <2>1 DEF SourcesStay
  <2> QED BY <2>1, <2>2, <2>3, <2>4, JobFates
<1>6. CASE MarksReleased(d)
  <2>1. PICK id \in Requests :
          /\ id = job[d].on /\ tx[id] # "none" /\ job[d].at = "giveBack"
          /\ UNCHANGED <<pool, tx, accountSeq>>
    BY <1>6, MarksReleasedStep DEF DrivesAt
  <2>2. ~Live(id)
    BY <1>0, <2>1 DEF JobFate
  <2>3. CASE /\ RowTo(id, rows[id].state, rows[id].owner, rows[id].channel,
                      rows[id].seq, rows[id].accepted, rows[id].sends, TRUE)
             /\ JobAt(d, "hand")
    <3>1. /\ \A i \in Requests : i # id => rows'[i] = rows[i]
          /\ rows'[id].state = rows[id].state /\ SourcesStay
      BY <2>3 DEF RowTo, SourcesStay
    <3>2. ~Live(id)' /\ (Gone(id) => Gone(id)') /\ tx'[id] = tx[id]
      BY <2>1, <2>2, <3>1, SameFates DEF FatesStay
    <3>3. RowFate(id)'
      BY <2>1, <3>1, <3>2 DEF RowFate, FateInv
    <3>4. job'[d].at = "hand" /\ job'[d].on = id
      BY <2>1, <2>3 DEF JobAt, DriverTo
    <3>5. JobFate(job[d])'
      BY <3>2, <3>4 DEF JobFate
    <3>6. RacesStay /\ \A e \in Drivers : e # d => job'[e] = job[e]
      BY <2>3, JobRaces
    <3> QED BY <2>1, <3>1, <3>3, <3>5, <3>6, JobFates
  <2>4. CASE rows' = rows /\ Onward(d)
    <3>1. SourcesStay
      BY <2>4 DEF SourcesStay
    <3>2. JobFate(job[d])'
      BY <2>1, <2>4, <3>1, Concludes
    <3>3. RacesStay /\ \A e \in Drivers : e # d => job'[e] = job[e]
      BY <2>4, JobRaces
    <3> QED BY <2>1, <2>4, <3>1, <3>2, <3>3, JobFates
  <2> QED BY <1>6, <2>1, <2>3, <2>4, MarksReleasedStep
<1>7. CASE HandsBack(d) \/ FreesChannel(d)
  <2>1. PICK id \in Requests :
          /\ id = job[d].on /\ tx[id] # "none" /\ UNCHANGED <<rows, tx, accountSeq>>
          /\ Onward(d) \/ \E a : JobOver(d, a)
    BY <1>7, HandsBackStep, FreesChannelStep DEF DrivesAt
  <2>2. SourcesStay
    BY <2>1 DEF SourcesStay
  <2>3. JobFate(job[d])'
    BY <2>1, <2>2, Concludes
  <2>4. RacesStay /\ \A e \in Drivers : e # d => job'[e] = job[e]
    BY <2>1, JobRaces
  <2> QED BY <2>1, <2>2, <2>3, <2>4, JobFates
<1>8. CASE CompletesRow(d)
  <2>1. PICK id \in Requests :
          /\ id = job[d].on /\ tx[id] # "none" /\ job[d].at = "finish"
          /\ UNCHANGED <<pool, tx, accountSeq>> /\ job[d].verdict \in FinalStates
          /\ JobAt(d, "free") \/ \E a : JobOver(d, a)
          /\ rows' = rows \/ FinalTo(id, job[d].verdict)
    BY <1>8, CompletesRowStep, Zenon DEF DrivesAt
  <2>2. SourcesStay
    BY <2>1 DEF SourcesStay, FinalTo, RowTo
  <2>3. JobFate(job[d])'
    BY <2>1, <2>2, Concludes
  <2>4. RacesStay /\ \A e \in Drivers : e # d => job'[e] = job[e]
    BY <2>1, JobRaces
  <2>5. IF job[d].verdict = "succeeded" THEN tx[id] = "ok" ELSE Gone(id)
    BY <1>0, <2>1 DEF JobFate
  <2>6. FinalTo(id, job[d].verdict) => RowFate(id)'
    <3> SUFFICES ASSUME FinalTo(id, job[d].verdict) PROVE RowFate(id)'
      OBVIOUS
    <3>1. /\ rows'[id].state = job[d].verdict /\ rows'[id].released = rows[id].released
      BY DEF FinalTo, RowTo
    <3>2. (~Live(id) => ~Live(id)') /\ (Gone(id) => Gone(id)') /\ tx'[id] = tx[id]
      BY <2>1, <2>2, SameFates DEF FatesStay
    <3> QED BY <2>1, <2>5, <3>1, <3>2 DEF RowFate, FateInv, FinalStates
  <2>7. \A i \in Requests :
          \/ /\ rows'[i].state = rows[i].state /\ rows'[i].released = rows[i].released
          \/ RowFate(i)'
    BY <2>1, <2>6 DEF FinalTo, RowTo
  <2> QED BY <2>1, <2>2, <2>3, <2>4, <2>7, JobFates
<1> QED BY <1>1, <1>2, <1>3, <1>4, <1>5, <1>6, <1>7, <1>8 DEF JobStep

LEMMA WorldFates ==
  ASSUME IndInv, FateInv,
         \/ \E p \in Replicas : StartsReconcile(p)
         \/ NetworkStep \/ ClockStep
  PROVE  FateInv'
<1>1. CASE \E p \in Replicas : StartsReconcile(p)
  <2>1. PICK p \in Replicas : StartsReconcile(p)
    BY <1>1
  <2>2. PICK id : LooksTo(p, id)
    BY <2>1, StartsReconcileStep
  <2>3. UNCHANGED <<rows, run, tx, accountSeq>>
    BY <2>1, StartsReconcileStep
  <2>4. \A d \in Drivers : job'[d] = job[d] \/ job'[d].at = "look"
    BY <2>2 DEF LooksTo, DriverTo
  <2>5. \A d \in Drivers : job'[d] = job[d] \/ JobFate(job[d])'
    BY <2>4 DEF JobFate
  <2>6. FatesStay
    BY <2>3, SameFates DEF SourcesStay
  <2> QED BY <2>3, <2>5, <2>6, FateKeeps
<1>2. CASE NetworkStep
  BY <1>2, NetworkFates, FateKeeps
<1>3. CASE ClockStep
  <2>1. UNCHANGED <<run, job, tx, accountSeq>>
    BY <1>3, ClockStepTo
  <2>2. rows' = rows \/ \E id \in Requests : \E accepted, sends : SendsTo(id, accepted, sends)
    BY <1>3, ClockStepTo
  <2>3. SourcesStay /\ \A i \in Requests : /\ rows'[i].state = rows[i].state
                                           /\ rows'[i].released = rows[i].released
    BY <2>2, SendsKept DEF SourcesStay
  <2> QED BY <2>1, <2>3, SameFates, FateKeeps
<1> QED BY <1>1, <1>2, <1>3

LEMMA CrashesFates ==
  ASSUME IndInv, FateInv, NEW p \in Replicas, Crashes(p)
  PROVE  FateInv'
<1>1. UNCHANGED <<tx, accountSeq>> /\ SourcesStay
  BY CrashesStep DEF SourcesStay
<1>2. \A d \in Drivers : job'[d] = job[d] \/ JobFate(job[d])'
  BY CrashesStep DEF CrashedJob, JobFate, NoJob
<1>3. \A r \in Requests : run'[r] = run[r] \/ RaceFate(r)'
  BY CrashesStep DEF CrashedRun, RaceFate
<1>4. \A i \in Requests : /\ rows'[i].state = rows[i].state
                          /\ rows'[i].released = rows[i].released
  BY CrashesStep
<1> QED BY <1>1, <1>2, <1>3, <1>4, SameFates, FateKeeps

LEMMA RequestsFate ==
  ASSUME IndInv, OwnInv, FateInv, NEW r \in Requests, RequestStep(r) \/ SignerStep(r)
  PROVE  FateInv'
BY QuietSteps, QuietFates, ClaimSteps, ClaimFates, RaceFates, FindsRowFates,
   RecordsFirstAnswerFates, RecordsEnvelopeFates, SendsFirstFates
   DEF RequestStep, SignerStep

LEMMA FateNext ==
  ASSUME IndInv, OwnInv, FateInv, [Next]_vars
  PROVE  FateInv'
<1>1. CASE UNCHANGED vars
  <2>1. UNCHANGED <<rows, run, job, tx, accountSeq>>
    BY <1>1 DEF vars
  <2> QED BY <2>1, SameFates, FateKeeps DEF SourcesStay
<1>2. CASE Next
  BY <1>2, RequestsFate, JobsFate, WorldFates, CrashesFates DEF Next
<1> QED BY <1>1, <1>2

LEMMA FateInit == Init => FateInv
<1> SUFFICES ASSUME Init PROVE FateInv
  OBVIOUS
<1>1. \A id \in Requests : rows[id] = NoRow /\ tx[id] = "none" /\ run[id] = NoRun
  BY DEF Init, LedgerInit
<1>2. \A d \in Drivers : job[d] = NoJob
  BY DEF Init
<1> QED BY <1>1, <1>2 DEF FateInv, JobFate, RowFate, RaceFate, NoRow, NoRun, NoJob

\* What a driver concluded of a recorded transaction stays true: FateInv holds
\* in every reachable state.
THEOREM FatesKnown == Spec => [](IndInv /\ OwnInv /\ FateInv)
<1>1. Init => IndInv /\ OwnInv /\ FateInv
  BY InitOK, OwnInit, FateInit
<1>2. IndInv /\ OwnInv /\ FateInv /\ [Next]_vars => IndInv' /\ OwnInv' /\ FateInv'
  BY NextKeeps, OwnNext, FateNext
<1> QED BY <1>1, <1>2, PTL DEF Spec

\* A settlement succeeds only if its transaction did, and one that failed or
\* expired never succeeds on chain afterwards.
THEOREM VerdictForGood == Spec => []VerdictIsTrue
<1>1. ASSUME IndInv, FateInv PROVE VerdictIsTrue
  <2> SUFFICES ASSUME NEW id \in Requests
               PROVE  /\ rows[id].state = "succeeded" =>
                           tx[id] = "ok" \/ rows[id].owner \in OffChain
                      /\ rows[id].state \in {"failed", "expired"} => tx[id] # "ok"
    BY DEF VerdictIsTrue
  <2>1. RowFate(id) /\ RowFits(rows[id], tx[id])
    BY <1>1 DEF FateInv, IndInv, RowShape
  <2> QED BY <2>1 DEF RowFate, RowFits, FinalStates, Gone
<1> QED BY <1>1, FatesKnown, PTL

\* A settlement gives its channel back, by finishing or before, only when its
\* bytes can never apply from then on.
THEOREM HandedBackForGood == Spec => []HandedBackIsDead
<1>1. ASSUME IndInv, FateInv PROVE HandedBackIsDead
  <2> SUFFICES ASSUME NEW id \in Requests, tx[id] # "none",
                      IsFinal(id) \/ rows[id].released
               PROVE  ~Live(id)
    BY DEF HandedBackIsDead
  <2>1. RowFate(id)
    BY <1>1 DEF FateInv
  <2>2. tx[id] = "ok" => ~Live(id)
    BY DEF Live
  <2> QED BY <2>1, <2>2 DEF RowFate, IsFinal, FinalStates, Gone
<1> QED BY <1>1, FatesKnown, PTL


-----------------------------------------------------------------------------
(* Sends                                                                    *)

\* What the row says of the sends of recorded bytes, but for the mark of the
\* first and of those under way, is there for good.
MarksStay ==
  \A id \in Requests : tx[id] # "none" =>
    /\ rows'[id].owner = rows[id].owner /\ tx'[id] # "none"
    /\ rows[id].accepted => rows'[id].accepted
    /\ LostSend \in rows[id].sends => LostSend \in rows'[id].sends

FirstsStay ==
  \A id \in Requests :
    tx[id] # "none" /\ FirstSend \in rows[id].sends => FirstSend \in rows'[id].sends

\* The sends of a driver whose job stays keep their marks.
SendsStay ==
  \A d \in Drivers, id \in Requests :
    tx[id] # "none" /\ d \in rows[id].sends /\ job'[d] = job[d] => d \in rows'[id].sends

LEMMA MarkedRows ==
  ASSUME \A id \in Requests : tx[id] # "none" => rows'[id] = rows[id] /\ tx'[id] # "none"
  PROVE  MarksStay /\ FirstsStay /\ SendsStay
BY DEF MarksStay, FirstsStay, SendsStay

\* Every reason to say that the bytes may be public is kept or replaced.
LEMMA SendKeeps ==
  ASSUME SendInv, MarksStay,
         \A r \in Requests : FirstFits(r)', \A d \in Drivers : SendFits(d)',
         \A id \in Requests : tx[id] # "none" /\ FirstMayBe(id) => Evidence(id)',
         \A id \in Requests : tx[id] # "none" /\ HeardOf(id) # {} => Evidence(id)',
         \A id \in Requests : Sent(id)' => Sent(id) \/ Evidence(id)'
  PROVE  SendInv'
<1> SUFFICES ASSUME NEW id \in Requests, Sent(id) PROVE Evidence(id)'
  BY DEF SendInv
<1>1. Evidence(id) /\ tx[id] # "none"
  BY DEF SendInv, Sent
<1> QED BY <1>1 DEF Evidence, MarksStay

\* A thread that stays where it is.
LEMMA FirstStays ==
  ASSUME NEW r \in Requests, FirstFits(r), MarksStay, FirstsStay, run'[r] = run[r]
  PROVE  FirstFits(r)'
BY DEF FirstFits, MarksStay, FirstsStay, Noted, Submitting

\* A recorded settlement is somebody's.
LEMMA RecordedOwner ==
  ASSUME IndInv, OwnInv, NEW id \in Requests, tx[id] # "none"
  PROVE  Exists(id) /\ rows[id].owner \in Requests
<1>1. Exists(id)
  BY DEF IndInv, RowShape, RowFits, Exists, FinalStates
<1> QED BY <1>1 DEF OwnInv, OwnerShape, OwnerFits

LEMMA FirstsMayBe ==
  ASSUME IndInv, OwnInv, MarksStay, FirstsStay,
         \A r \in Requests : \/ run'[r] = run[r]
                             \/ \A id \in Requests : Unrefused(id, run[r]) => Unrefused(id, run'[r])
  PROVE  \A id \in Requests : tx[id] # "none" /\ FirstMayBe(id) => Evidence(id)'
<1> SUFFICES ASSUME NEW id \in Requests, tx[id] # "none", FirstMayBe(id)
             PROVE  FirstMayBe(id)'
  BY DEF Evidence
<1>1. rows[id].owner \in Requests
  BY RecordedOwner
<1>2. FirstSend \in rows'[id].sends /\ rows'[id].owner = rows[id].owner
  BY DEF FirstMayBe, MarksStay, FirstsStay
<1>3. Unrefused(id, run'[rows[id].owner])
  BY <1>1 DEF FirstMayBe
<1> QED BY <1>2, <1>3 DEF FirstMayBe, Unrefused

\* A job that stays where it is.
LEMMA SendStays ==
  ASSUME IndInv, NEW d \in Drivers, SendFits(d), MarksStay, SendsStay, job'[d] = job[d]
  PROVE  SendFits(d)'
<1>1. job[d].at # "idle" => job[d].on \in Requests /\ tx[job[d].on] # "none"
  BY DEF IndInv, JobShape, JobFits
<1> QED BY <1>1 DEF SendFits, MarksStay, SendsStay

\* Nobody forgets what it heard.
LEMMA HeardStays ==
  ASSUME \A d \in Drivers : job'[d] = job[d] \/ job[d].at # "reply"
  PROVE  \A id \in Requests : tx[id] # "none" /\ HeardOf(id) # {} => Evidence(id)'
BY DEF HeardOf, Evidence

\* A step of one request that does not send.
LEMMA RequestSends ==
  ASSUME IndInv, OwnInv, SendInv, NEW r \in Requests, MarksStay, FirstsStay, SendsStay,
         \A q \in Requests : q # r => run'[q] = run[q],
         FirstFits(r)', \A id \in Requests : Unrefused(id, run[r]) => Unrefused(id, run'[r]),
         \A d \in Drivers : job'[d] = job[d] \/ (job[d].at # "reply" /\ SendFits(d)'),
         \A id \in Requests : Sent(id)' => Sent(id)
  PROVE  SendInv'
<1>1. \A q \in Requests : FirstFits(q)'
  BY FirstStays DEF SendInv
<1>2. \A d \in Drivers : SendFits(d)'
  BY SendStays DEF SendInv
<1>3. \A id \in Requests : tx[id] # "none" /\ FirstMayBe(id) => Evidence(id)'
  BY FirstsMayBe
<1>4. \A id \in Requests : tx[id] # "none" /\ HeardOf(id) # {} => Evidence(id)'
  BY HeardStays
<1> QED BY <1>1, <1>2, <1>3, <1>4, SendKeeps

LEMMA QuietSends ==
  ASSUME IndInv, OwnInv, SendInv, NEW r \in Requests, Quietly(r)
  PROVE  SendInv'
<1>1. FirstFits(r) /\ UNCHANGED <<rows, job, tx>>
  BY DEF SendInv, Quietly
<1>2. run'[r].raced \notin Answered \/ (run'[r].raced = run[r].raced /\ run[r].pc \notin {"fetch", "answer"})
  <2>1. run[r].raced \in Answered => ~Submitting(r)
    BY <1>1 DEF FirstFits
  <2>2. run'[r].raced \in Answered => run'[r].raced = run[r].raced /\ run[r].pc # "fetch"
    BY <2>1 DEF Quietly, Answered
  <2>3. run[r].raced \in Answered => run[r].pc # "answer"
    BY <2>1 DEF Quietly, Submitting, SubmittingSteps
  <2> QED BY <2>2, <2>3
<1>3. run'[r].raced \notin Answered
  BY <1>1, <1>2 DEF FirstFits, Quietly, Submitting, SubmittingSteps
<1>4. Noted(r)' => Noted(r) /\ run'[r].signer = run[r].signer /\ run'[r].rec = run[r].rec
  BY DEF Quietly, Noted, NotedSteps
<1>5. run'[r].signer \in {"accepted", "refused", "unheard"} => FALSE
  <2>1. run'[r].signer \in {"accepted", "refused", "unheard"} =>
          run[r].pc = "race" /\ run[r].signer \notin {"read", "built"}
    BY <1>1 DEF Quietly, NotedSteps, FirstFits
  <2> QED BY <2>1 DEF Quietly
<1>6. FirstFits(r)'
  BY <1>1, <1>3, <1>4, <1>5 DEF FirstFits, Noted
<1>7. \A id \in Requests : Unrefused(id, run[r]) => Unrefused(id, run'[r])
  <2>1. run'[r].raced # "refused"
    BY <1>3 DEF Answered
  <2>2. run'[r].signer = "sending" => run'[r].signer = run[r].signer /\ run'[r].rec = run[r].rec
    BY <1>4 DEF Noted
  <2> QED BY <1>5, <2>1, <2>2 DEF Unrefused
<1>8. MarksStay /\ FirstsStay /\ SendsStay
  BY <1>1, MarkedRows
<1> QED BY <1>1, <1>6, <1>7, <1>8, RequestSends DEF Quietly, Alone, Sent

LEMMA ClaimSends ==
  ASSUME IndInv, OwnInv, SendInv, NEW r \in Requests, Claimingly(r)
  PROVE  SendInv'
<1>1. /\ FirstFits(r) /\ UNCHANGED <<job, tx>>
      /\ \A id \in Requests : tx[id] # "none" => rows'[id] = rows[id]
  BY DEF SendInv, Claimingly
<1>2. run'[r].raced \notin Answered
  BY <1>1 DEF FirstFits, Claimingly, Answered
<1>3. Noted(r)' => Noted(r) /\ run'[r].signer = run[r].signer /\ run'[r].rec = run[r].rec
  BY DEF Claimingly, Noted, NotedSteps
<1>4. run'[r].signer \notin {"accepted", "refused", "unheard"}
  BY <1>1 DEF Claimingly, NotedSteps, FirstFits
<1>5. FirstFits(r)'
  BY <1>1, <1>2, <1>3, <1>4 DEF FirstFits, Noted
<1>6. \A id \in Requests : Unrefused(id, run[r]) => Unrefused(id, run'[r])
  <2>1. run'[r].raced # "refused" /\ run'[r].signer # "refused"
    BY <1>2, <1>4 DEF Answered
  <2>2. run'[r].signer = "sending" => run'[r].signer = run[r].signer /\ run'[r].rec = run[r].rec
    BY <1>3 DEF Noted
  <2> QED BY <2>1, <2>2 DEF Unrefused
<1>7. MarksStay /\ FirstsStay /\ SendsStay
  BY <1>1, MarkedRows
<1> QED BY <1>1, <1>5, <1>6, <1>7, RequestSends DEF Claimingly, Alone, Sent

LEMMA RaceSends ==
  ASSUME IndInv, OwnInv, SendInv, NEW r \in Requests,
         SubmissionReturns(r) \/ SignWindowElapses(r) \/ ConfirmWindowElapses(r)
  PROVE  SendInv'
<1>1. PICK result \in RaceResults :
        /\ run[r].pc = "race" /\ UNCHANGED <<rows, pool, job, tx, accountSeq>>
        /\ result = "refused" => run[r].signer = "refused"
        /\ result \in {"accepted", "settled"} => run[r].signer = "accepted"
        /\ ThreadTo(r, "fetch", run[r].rec, run[r].chan, ~Noted(r),
                    IF Submitting(r) THEN run[r].signer ELSE "stopped",
                    result, run[r].answer)
  BY RaceStep
<1>2. /\ \A q \in Requests : q # r => run'[q] = run[q]
      /\ run'[r].pc = "fetch" /\ run'[r].rec = run[r].rec /\ run'[r].raced = result
      /\ run'[r].signer = IF Submitting(r) THEN run[r].signer ELSE "stopped"
  BY <1>1 DEF ThreadTo
<1>3. FirstFits(r)
  BY DEF SendInv
<1>4. result \in Answered => Noted(r) /\ run'[r].signer = "stopped"
  BY <1>1, <1>2 DEF Answered, Noted, Submitting, SubmittingSteps
<1>5. run'[r].signer \in {"read", "built", "writing", "sending", "stopped"}
  BY <1>2 DEF Submitting, SubmittingSteps
<1>6. Noted(r)' => Noted(r)
  BY <1>2, <1>5 DEF Noted
<1>7. FirstFits(r)'
  BY <1>1, <1>2, <1>3, <1>4, <1>5, <1>6 DEF FirstFits, Submitting, SubmittingSteps
<1>8. ASSUME NEW id \in Requests, Unrefused(id, run[r])
      PROVE  Unrefused(id, run'[r])
  <2>1. CASE run[r].rec # id
    BY <1>2, <2>1 DEF Unrefused
  <2>2. CASE run[r].rec = id
    <3>1. run[r].signer \notin {"sending", "refused"}
      BY <1>8, <2>2 DEF Unrefused
    <3>2. result # "refused"
      BY <1>1, <3>1
    <3>3. run'[r].signer # "sending" /\ run'[r].signer # "refused"
      BY <1>2, <1>5, <3>1
    <3> QED BY <1>2, <3>2, <3>3 DEF Unrefused
  <2> QED BY <2>1, <2>2
<1>9. MarksStay /\ FirstsStay /\ SendsStay
  BY <1>1, MarkedRows
<1> QED BY <1>1, <1>2, <1>7, <1>8, <1>9, RequestSends DEF Sent

\* A job that starts is about to look.
LEMMA LooksSend ==
  ASSUME IndInv, NEW d \in Drivers, NEW id, UNCHANGED rows, LooksTo(d, id)
  PROVE  /\ SendFits(d)' /\ \A e \in Drivers : e # d => job'[e] = job[e]
BY DEF LooksTo, DriverTo, SendFits

LEMMA FindsRowSends ==
  ASSUME IndInv, OwnInv, SendInv, NEW r \in Requests, FetchesRow(r) \/ RechecksRow(r)
  PROVE  SendInv'
<1>1. /\ run[r].pc \in {"fetch", "recheck"} /\ run[r].rec \in Requests
      /\ UNCHANGED <<rows, pool, tx, accountSeq>>
  BY FetchesRowStep, RechecksRowStep
<1>2. PICK pc : /\ PcTo(r, pc) /\ (Recorded(run[r].rec, r) => pc = "answer")
                /\ LooksTo(r, run[r].rec) \/ job' = job
  BY FetchesRowStep, RechecksRowStep, Zenon
<1>3. /\ \A q \in Requests : q # r => run'[q] = run[q]
      /\ run'[r].pc = pc /\ run'[r].rec = run[r].rec /\ run'[r].raced = run[r].raced
      /\ run'[r].signer = run[r].signer
  BY <1>2 DEF PcTo, ThreadTo
<1>4. FirstFits(r)
  BY DEF SendInv
<1>5. run[r].raced \in Answered => run[r].pc = "fetch" /\ ~Submitting(r)
  BY <1>1, <1>4 DEF FirstFits
<1>6. run[r].raced \in Answered =>
        /\ rows[run[r].rec].owner = r /\ tx[run[r].rec] # "none"
        /\ FirstSend \in rows[run[r].rec].sends
  BY <1>1, <1>4, <1>5 DEF FirstFits
<1>7. run[r].raced \in Answered => pc = "answer"
  <2>1. RowFits(rows[run[r].rec], tx[run[r].rec])
    BY <1>1 DEF IndInv, RowShape
  <2> QED BY <1>2, <1>6, <2>1 DEF RowFits, Recorded, FinalStates
<1>8. run[r].signer \notin {"accepted", "refused", "unheard"}
  BY <1>1, <1>4 DEF FirstFits
<1>9. FirstFits(r)'
  <2>1. (Noted(r)' => Noted(r)) /\ (Submitting(r)' => Submitting(r))
    BY <1>3 DEF Noted, Submitting
  <2> QED BY <1>1, <1>3, <1>4, <1>5, <1>6, <1>7, <1>8, <2>1 DEF FirstFits
<1>10. \A id \in Requests : Unrefused(id, run[r]) => Unrefused(id, run'[r])
  <2>1. run[r].raced = "refused" => run[r].pc = "fetch"
    BY <1>5 DEF Answered
  <2> QED BY <1>3, <2>1 DEF Unrefused
<1>11. job[r].at # "reply"
  BY <1>1, OwnHere DEF DriveFits
<1>12. \A d \in Drivers : job'[d] = job[d] \/ (job[d].at # "reply" /\ SendFits(d)')
  <2>1. r \in Drivers
    BY DEF Drivers
  <2> QED BY <1>1, <1>2, <1>11, <2>1, LooksSend
<1>13. MarksStay /\ FirstsStay /\ SendsStay
  BY <1>1, MarkedRows
<1> QED BY <1>1, <1>3, <1>9, <1>10, <1>12, <1>13, RequestSends DEF Sent

\* The submission stops: nothing it knew is forgotten.
LEMMA StopSends ==
  ASSUME IndInv, SendInv, NEW r \in Requests, Submitting(r), StopsTo(r)
  PROVE  /\ \A q \in Requests : q # r => run'[q] = run[q]
         /\ FirstFits(r)' /\ \A id \in Requests : Unrefused(id, run'[r])
<1>1. FirstFits(r) /\ run[r].raced \notin Answered
  BY DEF SendInv, FirstFits
<1>2. /\ \A q \in Requests : q # r => run'[q] = run[q]
      /\ run'[r].signer \in {"stopped", "off"} /\ run'[r].raced \in {"none", run[r].raced}
  BY DEF StopsTo, SignerTo, OverTo, ThreadTo
<1>3. run'[r].raced \notin Answered
  BY <1>1, <1>2 DEF Answered
<1>4. FirstFits(r)'
  BY <1>2, <1>3 DEF FirstFits, Noted
<1>5. \A id \in Requests : Unrefused(id, run'[r])
  BY <1>2, <1>3 DEF Unrefused, Answered
<1> QED BY <1>2, <1>4, <1>5

LEMMA SendsFirstSends ==
  ASSUME IndInv, OwnInv, SendInv, NEW r \in Requests, SendsFirst(r)
  PROVE  SendInv'
<1>1. /\ run[r].signer = "sending" /\ run[r].rec \in Requests
      /\ UNCHANGED <<rows, pool, job, accountSeq>> /\ Submitting(r)
  BY SendsFirstStep DEF Submitting, SubmittingSteps
<1>2. PICK reply \in Replies :
        /\ NetworkAnswers(run[r].rec, reply)
        /\ IF run[r].pc = "race"
             THEN SignerTo(r, CASE reply = "accepted" -> "accepted"
                                [] reply = "lost" -> "unheard"
                                [] OTHER -> "refused")
             ELSE StopsTo(r)
  BY SendsFirstStep
<1>3. PICK id \in Requests : id = run[r].rec
  BY <1>1
<1>4. /\ FirstFits(r) /\ run[r].raced \notin Answered
      /\ rows[id].owner = r /\ tx[id] # "none" /\ FirstSend \in rows[id].sends
  BY <1>1, <1>3 DEF SendInv, FirstFits, Noted
<1>5. /\ \A i \in Requests : i # id => tx'[i] = tx[i]
      /\ tx'[id] = tx[id] \/ (tx'[id] = "queued" /\ reply \in {"accepted", "lost"})
         \/ tx'[id] = "doomed"
  <2>1. NetworkAnswers(id, reply)
    BY <1>2, <1>3
  <2> QED BY <2>1, NetworkAnswersStep DEF TxTo
<1>6. /\ \A q \in Requests : q # r => run'[q] = run[q]
      /\ FirstFits(r)' /\ \A i \in Requests : i # id => Unrefused(i, run'[r])
      /\ reply \in {"accepted", "lost"} => Unrefused(id, run'[r])
  <2>1. CASE run[r].pc # "race"
    BY <1>1, <1>2, <2>1, StopSends
  <2>2. CASE run[r].pc = "race"
    <3>1. PICK step \in {"accepted", "unheard", "refused"} :
            /\ SignerTo(r, step)
            /\ reply \in {"accepted", "lost"} => step \in {"accepted", "unheard"}
      BY <1>2, <2>2
    <3>2. /\ \A q \in Requests : q # r => run'[q] = run[q]
          /\ run'[r].pc = "race" /\ run'[r].rec = id /\ run'[r].raced = run[r].raced
          /\ run'[r].signer = step
      BY <1>3, <2>2, <3>1 DEF SignerTo, ThreadTo
    <3>3. FirstFits(r)'
      BY <1>1, <1>4, <1>5, <3>2 DEF FirstFits, Noted, Answered
    <3>4. \A i \in Requests : i # id => Unrefused(i, run'[r])
      BY <3>2 DEF Unrefused
    <3>5. reply \in {"accepted", "lost"} => Unrefused(id, run'[r])
      <4>1. run'[r].raced # "refused"
        BY <1>4, <3>2 DEF Answered
      <4> QED BY <3>1, <3>2, <4>1 DEF Unrefused
    <3> QED BY <3>2, <3>3, <3>4, <3>5
  <2> QED BY <2>1, <2>2
<1>7. MarksStay /\ FirstsStay /\ SendsStay
  BY <1>1, <1>4, <1>5 DEF MarksStay, FirstsStay, SendsStay
<1>8. \A q \in Requests : FirstFits(q)'
  BY <1>6, <1>7, FirstStays DEF SendInv
<1>9. \A d \in Drivers : SendFits(d)'
  BY <1>1, <1>7, SendStays DEF SendInv
<1>10. \A i \in Requests : Unrefused(i, run[r]) => Unrefused(i, run'[r])
  BY <1>1, <1>3, <1>6 DEF Unrefused
<1>11. \A i \in Requests : tx[i] # "none" /\ FirstMayBe(i) => Evidence(i)'
  BY <1>6, <1>7, <1>10, FirstsMayBe
<1>12. \A i \in Requests : tx[i] # "none" /\ HeardOf(i) # {} => Evidence(i)'
  BY <1>1, HeardStays
<1>13. ASSUME NEW i \in Requests, Sent(i)', ~Sent(i)
       PROVE  Evidence(i)'
  <2>1. i = id /\ reply \in {"accepted", "lost"}
    BY <1>5, <1>13 DEF Sent
  <2>2. Unrefused(id, run'[r])
    BY <1>6, <2>1
  <2>3. FirstSend \in rows'[id].sends /\ rows'[id].owner = r
    BY <1>1, <1>4
  <2>4. FirstMayBe(id)'
    BY <2>2, <2>3 DEF FirstMayBe, Unrefused
  <2> QED BY <2>1, <2>4 DEF Evidence
<1> QED BY <1>7, <1>8, <1>9, <1>11, <1>12, <1>13, SendKeeps

LEMMA RecordsEnvelopeSends ==
  ASSUME IndInv, OwnInv, SendInv, NEW r \in Requests, RecordsEnvelope(r)
  PROVE  SendInv'
<1>1. /\ run[r].signer = "writing" /\ run[r].rec \in Requests
      /\ UNCHANGED <<pool, job, accountSeq>> /\ Submitting(r)
  BY RecordsEnvelopeStep DEF Submitting, SubmittingSteps
<1>2. PICK id \in Requests : id = run[r].rec
  BY <1>1
<1>3. CASE ~OwnsClaim(id, r)
  <2>1. StopsTo(r) /\ rows' = rows /\ tx' = tx
    BY <1>2, <1>3, RecordsEnvelopeStep
  <2>2. MarksStay /\ FirstsStay /\ SendsStay
    BY <2>1, MarkedRows
  <2> QED BY <1>1, <2>1, <2>2, StopSends, RequestSends DEF Sent
<1>4. CASE OwnsClaim(id, r)
  <2>1. PICK n \in Nat :
          /\ RowTo(id, "submitted", r, run[r].chan, n, FALSE, {FirstSend}, rows[id].released)
          /\ TxTo(id, "signed")
    BY <1>2, <1>4, RecordsEnvelopeStep
  <2>2. /\ \A i \in Requests : i # id => rows'[i] = rows[i] /\ tx'[i] = tx[i]
        /\ rows'[id].owner = r /\ rows'[id].sends = {FirstSend} /\ tx'[id] = "signed"
    BY <2>1 DEF RowTo, TxTo
  <2>3. tx[id] = "none"
    BY <1>4, Unrecorded DEF OwnsClaim
  <2>4. MarksStay /\ FirstsStay /\ SendsStay
    BY <2>2, <2>3, MarkedRows
  <2>5. SignerTo(r, "sending") \/ StopsTo(r)
    BY <1>2, <1>4, RecordsEnvelopeStep
  <2>6. FirstFits(r) /\ run[r].raced \notin Answered
    BY <1>1 DEF SendInv, FirstFits
  <2>7. /\ \A q \in Requests : q # r => run'[q] = run[q]
        /\ FirstFits(r)' /\ \A i \in Requests : i # id => Unrefused(i, run'[r])
    <3>1. CASE StopsTo(r)
      BY <1>1, <3>1, StopSends
    <3>2. CASE SignerTo(r, "sending")
      <4>1. /\ \A q \in Requests : q # r => run'[q] = run[q]
            /\ run'[r].pc = run[r].pc /\ run'[r].rec = id /\ run'[r].raced = run[r].raced
            /\ run'[r].signer = "sending"
        BY <1>2, <3>2 DEF SignerTo, ThreadTo
      <4>2. FirstFits(r)'
        BY <2>2, <2>6, <4>1 DEF FirstFits
      <4> QED BY <4>1, <4>2 DEF Unrefused
    <3> QED BY <2>5, <3>1, <3>2
  <2>8. \A q \in Requests : FirstFits(q)'
    BY <2>4, <2>7, FirstStays DEF SendInv
  <2>9. \A d \in Drivers : SendFits(d)'
    BY <1>1, <2>4, SendStays DEF SendInv
  <2>10. ASSUME NEW i \in Requests, tx[i] # "none", FirstMayBe(i)
         PROVE  Evidence(i)'
    <3>1. i # id /\ rows'[i] = rows[i]
      BY <2>2, <2>3, <2>10
    <3>2. Unrefused(i, run'[rows[i].owner])
      <4>1. CASE rows[i].owner = r
        BY <2>7, <3>1, <4>1
      <4>2. CASE rows[i].owner # r
        <5>1. rows[i].owner \in Requests
          BY <2>10, RecordedOwner
        <5>2. run'[rows[i].owner] = run[rows[i].owner]
          BY <2>7, <4>2, <5>1
        <5> QED BY <2>10, <5>2 DEF FirstMayBe
      <4> QED BY <4>1, <4>2
    <3>3. FirstSend \in rows'[i].sends /\ Unrefused(i, run'[rows'[i].owner])
      BY <2>10, <3>1, <3>2 DEF FirstMayBe
    <3> QED BY <3>3 DEF Evidence, FirstMayBe, Unrefused
  <2>11. \A i \in Requests : tx[i] # "none" /\ HeardOf(i) # {} => Evidence(i)'
    BY <1>1, HeardStays
  <2>12. \A i \in Requests : Sent(i)' => Sent(i)
    BY <2>2 DEF Sent
  <2> QED BY <2>4, <2>8, <2>9, <2>10, <2>11, <2>12, SendKeeps
<1> QED BY <1>3, <1>4

LEMMA RecordsFirstAnswerSends ==
  ASSUME IndInv, OwnInv, SendInv, NEW r \in Requests, RecordsFirstAnswer(r)
  PROVE  SendInv'
<1>1. /\ run[r].pc = "answer" /\ run[r].rec \in Requests /\ job[r].at = "look"
      /\ UNCHANGED <<pool, tx, accountSeq>>
  BY RecordsFirstAnswerStep
<1>2. PICK id \in Requests : id = run[r].rec
  BY <1>1
<1>3. /\ rows[id].owner = r /\ tx[id] # "none" /\ FirstFits(r) /\ r \in Drivers
  BY <1>1, <1>2, OwnHere DEF DriveFits, SendInv, Drivers
<1>4. \/ /\ run[r].raced \in Answered
         /\ SendsTo(id, rows[id].accepted \/ run[r].raced # "refused",
                    rows[id].sends \ {FirstSend})
      \/ rows' = rows
  BY <1>2, RecordsFirstAnswerStep
<1>5. /\ \A q \in Requests : q # r => run'[q] = run[q]
      /\ run'[r].pc = "drive" /\ run'[r].rec = id /\ run'[r].signer = run[r].signer
      /\ run'[r].raced = IF run[r].raced = "refused" THEN "refused" ELSE "none"
  BY <1>2, RecordsFirstAnswerStep DEF ThreadTo
<1>6. /\ \A d \in Drivers : d # r => job'[d] = job[d]
      /\ job'[r] = job[r] \/ (/\ job'[r].at = "finish" /\ job'[r].on = job[r].on
                              /\ job'[r].tracked = job[r].tracked)
  BY <1>3, RecordsFirstAnswerStep DEF DriverTo
<1>7. /\ \A i \in Requests : i # id => rows'[i] = rows[i]
      /\ rows'[id].owner = r
      /\ rows[id].accepted => rows'[id].accepted
      /\ rows'[id].sends = rows[id].sends \/ rows'[id].sends = rows[id].sends \ {FirstSend}
      /\ \/ rows'[id] = rows[id]
         \/ /\ run[r].raced \in Answered
            /\ run[r].raced # "refused" => rows'[id].accepted
  BY <1>3, <1>4 DEF SendsTo, RowTo
<1>8. MarksStay /\ SendsStay
  <2>1. FirstSend # LostSend /\ \A d \in Drivers : d # FirstSend
    BY LedgerAssumption DEF FirstSend, LostSend
  <2> QED BY <1>1, <1>3, <1>7, <2>1 DEF MarksStay, SendsStay
<1>9. FirstFits(r)'
  <2>1. run[r].raced \in Answered => ~Noted(r) /\ ~Submitting(r)
    BY <1>1, <1>3 DEF FirstFits, Noted, Submitting, SubmittingSteps
  <2>2. (Noted(r)' => Noted(r)) /\ (Submitting(r)' => Submitting(r))
    BY <1>5 DEF Noted, Submitting
  <2>3. run'[r].signer \notin {"accepted", "refused", "unheard"}
    BY <1>1, <1>3, <1>5 DEF FirstFits
  <2>4. run'[r].raced \in Answered => run[r].raced \in Answered
    BY <1>5 DEF Answered
  <2>5. Noted(r)' => rows'[id] = rows[id]
    BY <1>7, <2>1, <2>2
  <2>6. Noted(r)' => /\ rows'[id].owner = r /\ tx'[id] # "none"
                     /\ FirstSend \in rows'[id].sends
    BY <1>1, <1>2, <1>3, <2>2, <2>5 DEF FirstFits
  <2> QED BY <1>5, <2>1, <2>2, <2>3, <2>4, <2>6 DEF FirstFits
<1>10. ASSUME NEW q \in Requests, q # r PROVE FirstFits(q)'
  <2>1. run'[q] = run[q] /\ FirstFits(q)
    BY <1>5, <1>10 DEF SendInv
  <2>2. rows[run[q].rec].owner = q /\ run[q].rec \in Requests => rows'[run[q].rec] = rows[run[q].rec]
    BY <1>3, <1>7, <1>10
  <2> QED BY <1>1, <2>1, <2>2 DEF FirstFits, Noted, Submitting
<1>11. \A d \in Drivers : SendFits(d)'
  <2>1. SendFits(r)'
    <3>1. CASE job'[r] = job[r]
      BY <1>3, <1>8, <3>1, SendStays DEF SendInv
    <3>2. CASE /\ job'[r].at = "finish" /\ job'[r].on = job[r].on
               /\ job'[r].tracked = job[r].tracked
      <4>1. job[r].on \in Requests /\ tx[job[r].on] # "none" /\ SendFits(r)
        BY <1>1, <1>3 DEF IndInv, JobShape, JobFits, SendInv
      <4> QED BY <1>1, <1>8, <3>2, <4>1 DEF SendFits, MarksStay
    <3> QED BY <1>6, <3>1, <3>2
  <2> QED BY <1>6, <1>8, <2>1, SendStays DEF SendInv
<1>12. ASSUME NEW i \in Requests, tx[i] # "none", FirstMayBe(i)
       PROVE  Evidence(i)'
  <2>1. CASE i = id
    <3>1. run[r].raced # "refused"
      BY <1>1, <1>2, <1>3, <1>12, <2>1 DEF FirstMayBe, Unrefused
    <3>2. CASE rows'[id] = rows[id]
      <4>1. FirstSend \in rows'[id].sends /\ rows'[id].owner = r
        BY <1>3, <1>12, <2>1, <3>2 DEF FirstMayBe
      <4>2. Unrefused(id, run'[r])
        BY <1>2, <1>3, <1>5, <1>12, <2>1 DEF FirstMayBe, Unrefused
      <4> QED BY <2>1, <4>1, <4>2 DEF Evidence, FirstMayBe, Unrefused
    <3>3. CASE rows'[id].accepted
      BY <2>1, <3>3 DEF Evidence
    <3> QED BY <1>7, <3>1, <3>2, <3>3
  <2>2. CASE i # id
    <3>1. rows'[i] = rows[i]
      BY <1>7, <2>2
    <3>2. Unrefused(i, run'[rows[i].owner])
      <4>1. CASE rows[i].owner = r
        BY <1>5, <2>2, <4>1 DEF Unrefused
      <4>2. CASE rows[i].owner # r
        <5>1. rows[i].owner \in Requests
          BY <1>12, RecordedOwner
        <5>2. run'[rows[i].owner] = run[rows[i].owner]
          BY <1>5, <4>2, <5>1
        <5> QED BY <1>12, <5>2 DEF FirstMayBe
      <4> QED BY <4>1, <4>2
    <3>3. FirstSend \in rows'[i].sends /\ Unrefused(i, run'[rows'[i].owner])
      BY <1>12, <3>1, <3>2 DEF FirstMayBe
    <3> QED BY <3>3 DEF Evidence, FirstMayBe, Unrefused
  <2> QED BY <2>1, <2>2
<1>13. \A i \in Requests : tx[i] # "none" /\ HeardOf(i) # {} => Evidence(i)'
  <2>1. \A d \in Drivers : job'[d] = job[d] \/ job[d].at # "reply"
    BY <1>1, <1>6
  <2> QED BY <2>1, HeardStays
<1>14. \A q \in Requests : FirstFits(q)'
  BY <1>9, <1>10
<1>15. \A i \in Requests : Sent(i)' => Sent(i)
  BY <1>1 DEF Sent
<1> QED BY <1>8, <1>11, <1>12, <1>13, <1>14, <1>15, SendKeeps

-----------------------------------------------------------------------------
(* The sends of drivers                                                     *)

\* What a job's step leaves of the requests' threads: the driver's own ends,
\* or forgets its race.
ThreadsCalm ==
  \A q \in Requests :
    \/ run'[q] = run[q]
    \/ /\ run'[q].pc = "done" /\ run'[q].rec = run[q].rec /\ Submitting(q)
       /\ run'[q].signer = run[q].signer /\ run'[q].raced = run[q].raced
    \/ run'[q].rec = None /\ run'[q].signer = "off" /\ run'[q].raced = "none"
    \/ /\ run'[q].rec = run[q].rec /\ run'[q].signer = run[q].signer
       /\ run'[q].pc = run[q].pc /\ run'[q].raced = "none"

LEMMA CalmFirsts ==
  ASSUME IndInv, SendInv, MarksStay, FirstsStay, ThreadsCalm
  PROVE  /\ \A q \in Requests : FirstFits(q)'
         /\ \A q \in Requests :
              \/ run'[q] = run[q]
              \/ \A id \in Requests : Unrefused(id, run[q]) => Unrefused(id, run'[q])
<1> SUFFICES ASSUME NEW q \in Requests
             PROVE  /\ FirstFits(q)'
                    /\ \/ run'[q] = run[q]
                       \/ \A id \in Requests : Unrefused(id, run[q]) => Unrefused(id, run'[q])
  OBVIOUS
<1>1. FirstFits(q)
  BY DEF SendInv
<1>2. CASE run'[q] = run[q]
  BY <1>1, <1>2, FirstStays
<1>3. CASE /\ run'[q].pc = "done" /\ run'[q].rec = run[q].rec /\ Submitting(q)
           /\ run'[q].signer = run[q].signer /\ run'[q].raced = run[q].raced
  <2>1. run[q].raced \notin Answered /\ run[q].signer \notin {"accepted", "refused", "unheard"}
    BY <1>1, <1>3 DEF FirstFits, Submitting, SubmittingSteps
  <2>2. FirstFits(q)'
    BY <1>1, <1>3, <2>1 DEF FirstFits, Noted, MarksStay, FirstsStay
  <2> QED BY <1>3, <2>1, <2>2 DEF Unrefused
<1>4. CASE run'[q].rec = None /\ run'[q].signer = "off" /\ run'[q].raced = "none"
  <2>1. FirstFits(q)'
    BY <1>4 DEF FirstFits, Noted, Answered
  <2> QED BY <1>4, <2>1 DEF Unrefused
<1>5. CASE /\ run'[q].rec = run[q].rec /\ run'[q].signer = run[q].signer
           /\ run'[q].pc = run[q].pc /\ run'[q].raced = "none"
  <2>1. FirstFits(q)'
    BY <1>1, <1>5 DEF FirstFits, Noted, Answered, MarksStay, FirstsStay
  <2> QED BY <1>5, <2>1 DEF Unrefused
<1> QED BY <1>2, <1>3, <1>4, <1>5 DEF ThreadsCalm

LEMMA JobSends ==
  ASSUME IndInv, OwnInv, SendInv, NEW d \in Drivers, MarksStay, FirstsStay, SendsStay,
         ThreadsCalm, \A e \in Drivers : e # d => job'[e] = job[e], SendFits(d)',
         \/ job[d].at # "reply"
         \/ \A id \in Requests : d \in HeardOf(id) => Evidence(id)',
         \A id \in Requests : Sent(id)' => Sent(id) \/ Evidence(id)'
  PROVE  SendInv'
<1>1. \A q \in Requests : FirstFits(q)'
  BY CalmFirsts
<1>2. \A e \in Drivers : SendFits(e)'
  BY SendStays DEF SendInv
<1>3. \A id \in Requests : tx[id] # "none" /\ FirstMayBe(id) => Evidence(id)'
  BY CalmFirsts, FirstsMayBe
<1>4. ASSUME NEW id \in Requests, tx[id] # "none", HeardOf(id) # {}
      PROVE  Evidence(id)'
  <2>1. PICK e \in Drivers : e \in HeardOf(id)
    BY <1>4 DEF HeardOf
  <2>2. CASE e = d
    BY <2>1, <2>2 DEF HeardOf
  <2>3. CASE e # d
    BY <2>1, <2>3 DEF HeardOf, Evidence
  <2> QED BY <2>2, <2>3
<1> QED BY <1>1, <1>2, <1>3, <1>4, SendKeeps

\* A job that goes on, or ends, sends nothing unless it goes to send.
LEMMA JobCalms ==
  ASSUME IndInv, SendInv, NEW d \in Drivers, MarksStay,
         \/ Onward(d) \/ Concluded(d, job[d].on)
         \/ \E verdict : FinishTo(d, verdict)
         \/ \E at : JobAt(d, at) /\ (at = "send" /\ job[d].tracked => d \in rows'[job[d].on].sends)
                                 /\ at # "reply"
         \/ \E a : JobOver(d, a),
         job[d].at # "idle"
  PROVE  ThreadsCalm /\ SendFits(d)' /\ \A e \in Drivers : e # d => job'[e] = job[e]
<1>1. /\ job[d].on \in Requests /\ tx[job[d].on] # "none"
      /\ ~job[d].tracked => rows[job[d].on].accepted
  BY DEF IndInv, JobShape, JobFits, SendInv, SendFits
<1>2. ~job[d].tracked => rows'[job[d].on].accepted
  BY <1>1 DEF MarksStay
<1>3. ASSUME NEW at, JobAt(d, at) \/ \E verdict : at = "finish" /\ FinishTo(d, verdict),
             at = "send" /\ job[d].tracked => d \in rows'[job[d].on].sends, at # "reply"
      PROVE  ThreadsCalm /\ SendFits(d)' /\ \A e \in Drivers : e # d => job'[e] = job[e]
  <2>1. /\ \A e \in Drivers : e # d => job'[e] = job[e]
        /\ run' = run /\ job'[d].at = at /\ job'[d].on = job[d].on
        /\ job'[d].tracked = job[d].tracked
    BY <1>3 DEF JobAt, FinishTo, DriverTo
  <2>2. SendFits(d)'
    BY <1>2, <1>3, <2>1 DEF SendFits
  <2> QED BY <2>1, <2>2 DEF ThreadsCalm
<1>4. ASSUME NEW a, JobOver(d, a)
      PROVE  ThreadsCalm /\ SendFits(d)' /\ \A e \in Drivers : e # d => job'[e] = job[e]
  <2>1. /\ \A e \in Drivers : e # d => job'[e] = job[e]
        /\ job'[d].at = "idle"
    BY <1>4 DEF JobOver, DriverTo
  <2>2. SendFits(d)'
    BY <2>1 DEF SendFits
  <2>3. CASE d \notin Requests
    BY <1>4, <2>1, <2>2, <2>3 DEF JobOver, ThreadsCalm
  <2>4. CASE d \in Requests
    <3>1. EndsTo(d, a)
      BY <1>4, <2>4 DEF JobOver
    <3>2. ThreadsCalm
      BY <2>4, <3>1 DEF EndsTo, OverTo, ThreadTo, ThreadsCalm
    <3> QED BY <2>1, <2>2, <3>2
  <2> QED BY <2>3, <2>4
<1> QED BY <1>3, <1>4 DEF Onward, Concluded

\* A driver whose row changed only in the marks of its own send.
LEMMA OwnMarks ==
  ASSUME NEW d \in Drivers, NEW id \in Requests, NEW accepted, NEW sends,
         SendsTo(id, accepted, sends) \/ rows' = rows, UNCHANGED tx,
         rows[id].accepted => accepted,
         \A x : x \in rows[id].sends /\ x # d => x \in sends,
         job'[d] # job[d] \/ (d \in rows[id].sends => d \in sends) \/ rows' = rows
  PROVE  MarksStay /\ FirstsStay /\ SendsStay
<1>1. FirstSend # d /\ LostSend # d
  BY LedgerAssumption
<1>2. CASE rows' = rows
  BY <1>2, MarkedRows
<1>3. CASE SendsTo(id, accepted, sends)
  <2>1. /\ \A i \in Requests : i # id => rows'[i] = rows[i]
        /\ rows'[id].owner = rows[id].owner /\ rows'[id].accepted = accepted
        /\ rows'[id].sends = sends
    BY <1>3 DEF SendsTo, RowTo
  <2>2. MarksStay /\ FirstsStay
    BY <1>1, <2>1 DEF MarksStay, FirstsStay
  <2>3. SendsStay
    <3> SUFFICES ASSUME NEW e \in Drivers, NEW i \in Requests, e \in rows[i].sends,
                        job'[e] = job[e]
                 PROVE  e \in rows'[i].sends
      BY DEF SendsStay
    <3>1. CASE i # id \/ e # d
      BY <2>1, <3>1
    <3>2. CASE i = id /\ e = d
      <4>1. rows' = rows \/ d \in sends
        BY <3>2
      <4> QED BY <2>1, <3>2, <4>1
    <3> QED BY <3>1, <3>2
  <2> QED BY <2>2, <2>3
<1> QED BY <1>2, <1>3

LEMMA LooksSends ==
  ASSUME IndInv, OwnInv, SendInv, NEW d \in Drivers, Looks(d)
  PROVE  SendInv'
<1>1. PICK id \in Requests :
        /\ id = job[d].on /\ job[d].at = "look" /\ UNCHANGED <<pool, tx, accountSeq>>
  BY LooksStep DEF DrivesAt
<1>2. \/ rows' = rows /\ (Concluded(d, id) \/ Onward(d))
      \/ /\ JobAt(d, "send")
         /\ IF job[d].tracked THEN SendsTo(id, rows[id].accepted, rows[id].sends \cup {d})
                              ELSE rows' = rows
  BY <1>1, LooksStep
<1>3. CASE rows' = rows /\ (Concluded(d, id) \/ Onward(d))
  <2>1. MarksStay /\ FirstsStay /\ SendsStay
    BY <1>1, <1>3, MarkedRows
  <2>2. ThreadsCalm /\ SendFits(d)' /\ \A e \in Drivers : e # d => job'[e] = job[e]
    BY <1>1, <1>3, <2>1, JobCalms
  <2> QED BY <1>1, <2>1, <2>2, JobSends DEF Sent
<1>4. CASE /\ JobAt(d, "send")
           /\ IF job[d].tracked THEN SendsTo(id, rows[id].accepted, rows[id].sends \cup {d})
                                ELSE rows' = rows
  <2>1. MarksStay /\ FirstsStay /\ SendsStay
    BY <1>1, <1>4, OwnMarks
  <2>2. job[d].tracked => d \in rows'[id].sends
    BY <1>4 DEF SendsTo, RowTo
  <2>3. ThreadsCalm /\ SendFits(d)' /\ \A e \in Drivers : e # d => job'[e] = job[e]
    BY <1>1, <1>4, <2>1, <2>2, JobCalms
  <2> QED BY <1>1, <2>1, <2>3, JobSends DEF Sent
<1> QED BY <1>2, <1>3, <1>4

LEMMA SendsSends ==
  ASSUME IndInv, OwnInv, SendInv, NEW d \in Drivers, Sends(d)
  PROVE  SendInv'
<1>1. PICK id \in Requests, reply \in Replies :
        /\ id = job[d].on /\ job[d].at = "send" /\ tx[id] # "none"
        /\ UNCHANGED <<rows, pool, run, accountSeq>> /\ NetworkAnswers(id, reply)
        /\ DriverTo(d, "reply", id, job[d].tracked, reply, job[d].verdict)
  BY SendsStep DEF DrivesAt
<1>2. /\ \A i \in Requests : i # id => tx'[i] = tx[i]
      /\ tx'[id] \in {tx[id], "doomed"} \/ (tx'[id] = "queued" /\ reply \in {"accepted", "lost"})
  BY <1>1, NetworkAnswersStep DEF TxTo
<1>3. MarksStay /\ FirstsStay /\ SendsStay
  BY <1>1, <1>2 DEF MarksStay, FirstsStay, SendsStay
<1>4. /\ \A e \in Drivers : e # d => job'[e] = job[e]
      /\ job'[d].at = "reply" /\ job'[d].on = id /\ job'[d].reply = reply
      /\ job'[d].tracked = job[d].tracked
  BY <1>1 DEF DriverTo
<1>5. SendFits(d)'
  <2>1. SendFits(d)
    BY DEF SendInv
  <2> QED BY <1>1, <1>4, <2>1 DEF SendFits
<1>6. ASSUME NEW i \in Requests, Sent(i)', ~Sent(i)
      PROVE  Evidence(i)'
  <2>1. i = id /\ reply \in {"accepted", "lost"}
    BY <1>2, <1>6 DEF Sent
  <2>2. d \in HeardOf(i)'
    BY <1>4, <2>1 DEF HeardOf
  <2> QED BY <2>2 DEF Evidence
<1>7. ThreadsCalm
  BY <1>1 DEF ThreadsCalm
<1> QED BY <1>1, <1>3, <1>4, <1>5, <1>6, <1>7, JobSends

LEMMA RecordsAnswerSends ==
  ASSUME IndInv, OwnInv, SendInv, NEW d \in Drivers, RecordsAnswer(d)
  PROVE  SendInv'
<1> DEFINE reply == job[d].reply
<1>1. PICK id \in Requests :
        /\ id = job[d].on /\ job[d].at = "reply" /\ UNCHANGED <<pool, tx, accountSeq>>
  BY RecordsAnswerStep DEF DrivesAt
<1>2. IF job[d].tracked
        THEN \/ /\ reply # "lost"
                /\ SendsTo(id, rows[id].accepted \/ reply = "accepted", rows[id].sends \ {d})
             \/ SendsTo(id, rows[id].accepted,
                        IF d \in rows[id].sends THEN (rows[id].sends \ {d}) \cup {LostSend}
                                                ELSE rows[id].sends)
        ELSE rows' = rows
  BY <1>1, RecordsAnswerStep
<1>3. \/ Concluded(d, id) \/ Onward(d)
      \/ JobAt(d, "weigh")
  BY <1>1, RecordsAnswerStep
<1>4. job'[d].at \in {"finish", "giveBack", "reload", "look", "idle", "weigh"}
  BY <1>3 DEF Concluded, Onward, FinishTo, JobAt, JobOver, DriverTo
<1>5. job'[d] # job[d]
  BY <1>1, <1>4
<1>6. SendFits(d)
  BY DEF SendInv
<1>7. /\ MarksStay /\ FirstsStay /\ SendsStay
      /\ reply \in {"accepted", "lost"} =>
           rows'[id].accepted \/ LostSend \in rows'[id].sends
  <2>1. CASE ~job[d].tracked
    BY <1>1, <1>2, <1>6, <2>1, MarkedRows, OwnMarks DEF SendFits
  <2>2. CASE /\ reply # "lost"
             /\ SendsTo(id, rows[id].accepted \/ reply = "accepted", rows[id].sends \ {d})
    <3>1. MarksStay /\ FirstsStay /\ SendsStay
      BY <1>1, <1>5, <2>2, OwnMarks
    <3> QED BY <2>2, <3>1 DEF SendsTo, RowTo
  <2>3. CASE /\ job[d].tracked
             /\ SendsTo(id, rows[id].accepted,
                        IF d \in rows[id].sends THEN (rows[id].sends \ {d}) \cup {LostSend}
                                                ELSE rows[id].sends)
    <3>1. d \in rows[id].sends
      BY <1>1, <1>6, <2>3 DEF SendFits
    <3>2. SendsTo(id, rows[id].accepted, (rows[id].sends \ {d}) \cup {LostSend})
      BY <2>3, <3>1
    <3>3. MarksStay /\ FirstsStay /\ SendsStay
      BY <1>1, <1>5, <3>2, OwnMarks
    <3> QED BY <3>2, <3>3 DEF SendsTo, RowTo
  <2> QED BY <1>2, <2>1, <2>2, <2>3
<1>8. ThreadsCalm /\ SendFits(d)' /\ \A e \in Drivers : e # d => job'[e] = job[e]
  BY <1>1, <1>3, <1>7, JobCalms
<1>9. \A i \in Requests : d \in HeardOf(i) => Evidence(i)'
  BY <1>1, <1>7 DEF HeardOf, Evidence
<1> QED BY <1>1, <1>7, <1>8, <1>9, JobSends DEF Sent

\* The other steps of a job write no mark, or only the row's fate.
LEMMA MarksSpared ==
  ASSUME NEW id \in Requests, NEW state, NEW channel, NEW seq, NEW released, UNCHANGED tx,
         \/ rows' = rows
         \/ RowTo(id, state, rows[id].owner, channel, seq, rows[id].accepted,
                  rows[id].sends, released)
  PROVE  MarksStay /\ FirstsStay /\ SendsStay
BY DEF RowTo, MarksStay, FirstsStay, SendsStay

LEMMA JobsSend ==
  ASSUME IndInv, OwnInv, SendInv, NEW d \in Drivers, JobStep(d)
  PROVE  SendInv'
<1>1. ASSUME NEW id \in Requests, id = job[d].on, job[d].at \notin {"idle", "reply"},
             UNCHANGED <<tx, accountSeq>>,
             MarksStay, FirstsStay, SendsStay,
             \/ Onward(d) \/ \E at \in {"hand", "free"} : JobAt(d, at)
             \/ \E verdict : FinishTo(d, verdict)
             \/ \E a : JobOver(d, a)
      PROVE  SendInv'
  <2>1. ThreadsCalm /\ SendFits(d)' /\ \A e \in Drivers : e # d => job'[e] = job[e]
    BY <1>1, JobCalms
  <2> QED BY <1>1, <2>1, JobSends DEF Sent
<1>2. CASE WeighsRejection(d)
  <2>1. PICK id \in Requests :
          /\ id = job[d].on /\ job[d].at = "weigh"
          /\ UNCHANGED <<rows, pool, tx, accountSeq>>
          /\ FinishTo(d, "failed") \/ Onward(d)
    BY <1>2, WeighsRejectionStep DEF DrivesAt
  <2>2. MarksStay /\ FirstsStay /\ SendsStay
    BY <2>1, MarkedRows
  <2> QED BY <1>1, <2>1, <2>2
<1>3. CASE Reloads(d)
  <2>1. /\ job[d].at = "reload" /\ UNCHANGED <<rows, pool, tx, accountSeq>>
        /\ LooksTo(d, job[d].on)
        /\ IF d \in Requests
              THEN ThreadTo(d, run[d].pc, run[d].rec, run[d].chan, run[d].closed,
                            run[d].signer, "none", run[d].answer)
              ELSE run' = run
    BY <1>3, ReloadsStep DEF DrivesAt
  <2>2. ThreadsCalm
    BY <2>1 DEF ThreadTo, ThreadsCalm
  <2>3. MarksStay /\ FirstsStay /\ SendsStay
    BY <2>1, MarkedRows
  <2>4. SendFits(d)' /\ \A e \in Drivers : e # d => job'[e] = job[e]
    BY <2>1, LooksSend
  <2> QED BY <2>1, <2>2, <2>3, <2>4, JobSends DEF Sent
<1>4. CASE MarksReleased(d)
  <2>1. PICK id \in Requests :
          /\ id = job[d].on /\ job[d].at = "giveBack"
          /\ UNCHANGED <<pool, tx, accountSeq>>
    BY <1>4, MarksReleasedStep DEF DrivesAt
  <2>2. \/ /\ RowTo(id, rows[id].state, rows[id].owner, rows[id].channel,
                    rows[id].seq, rows[id].accepted, rows[id].sends, TRUE)
           /\ JobAt(d, "hand")
        \/ rows' = rows /\ Onward(d)
    BY <1>4, <2>1, MarksReleasedStep
  <2>3. MarksStay /\ FirstsStay /\ SendsStay
    BY <2>1, <2>2, MarksSpared
  <2> QED BY <1>1, <2>1, <2>2, <2>3
<1>5. CASE HandsBack(d) \/ FreesChannel(d)
  <2>1. PICK id \in Requests :
          /\ id = job[d].on /\ job[d].at \in {"hand", "free"}
          /\ UNCHANGED <<rows, tx, accountSeq>>
          /\ Onward(d) \/ \E a : JobOver(d, a)
    BY <1>5, HandsBackStep, FreesChannelStep DEF DrivesAt
  <2>2. MarksStay /\ FirstsStay /\ SendsStay
    BY <2>1, MarkedRows
  <2> QED BY <1>1, <2>1, <2>2
<1>6. CASE CompletesRow(d)
  <2>1. PICK id \in Requests :
          /\ id = job[d].on /\ job[d].at = "finish"
          /\ UNCHANGED <<pool, tx, accountSeq>>
          /\ JobAt(d, "free") \/ \E a : JobOver(d, a)
          /\ rows' = rows \/ FinalTo(id, job[d].verdict)
    BY <1>6, CompletesRowStep, Zenon DEF DrivesAt
  <2>2. MarksStay /\ FirstsStay /\ SendsStay
    BY <2>1, MarksSpared DEF FinalTo
  <2> QED BY <1>1, <2>1, <2>2
<1> QED BY <1>2, <1>3, <1>4, <1>5, <1>6, LooksSends, SendsSends, RecordsAnswerSends
        DEF JobStep

LEMMA WorldSends ==
  ASSUME IndInv, OwnInv, SendInv,
         \/ \E p \in Replicas : StartsReconcile(p)
         \/ NetworkStep \/ ClockStep
  PROVE  SendInv'
<1>1. ASSUME run' = run, MarksStay, FirstsStay, SendsStay,
             \A d \in Drivers : job'[d] = job[d] \/ (job[d].at # "reply" /\ SendFits(d)'),
             \A id \in Requests : Sent(id)' => Sent(id)
      PROVE  SendInv'
  <2>1. \A q \in Requests : FirstFits(q)'
    BY <1>1, FirstStays DEF SendInv
  <2>2. \A d \in Drivers : SendFits(d)'
    BY <1>1, SendStays DEF SendInv
  <2>3. \A id \in Requests : tx[id] # "none" /\ FirstMayBe(id) => Evidence(id)'
    BY <1>1, FirstsMayBe
  <2>4. \A id \in Requests : tx[id] # "none" /\ HeardOf(id) # {} => Evidence(id)'
    BY <1>1, HeardStays
  <2> QED BY <1>1, <2>1, <2>2, <2>3, <2>4, SendKeeps
<1>2. CASE \E p \in Replicas : StartsReconcile(p)
  <2>1. PICK p \in Replicas : StartsReconcile(p)
    BY <1>2
  <2>2. PICK id : LooksTo(p, id)
    BY <2>1, StartsReconcileStep
  <2>3. UNCHANGED <<rows, pool, run, tx, accountSeq>> /\ job[p].at = "idle" /\ p \in Drivers
    BY <2>1, StartsReconcileStep
  <2>4. SendFits(p)' /\ \A e \in Drivers : e # p => job'[e] = job[e]
    BY <2>2, <2>3, LooksSend
  <2>5. MarksStay /\ FirstsStay /\ SendsStay
    BY <2>3, MarkedRows
  <2> QED BY <1>1, <2>3, <2>4, <2>5 DEF Sent
<1>3. CASE NetworkStep
  <2>1. UNCHANGED <<rows, pool, run, job>>
    BY <1>3, NetworkStepTo
  <2>2. \A id \in Requests :
          /\ tx[id] # "none" => tx'[id] # "none"
          /\ Sent(id)' => Sent(id)
    BY <1>3, NetworkStepTo DEF TxTo, Sent
  <2>3. MarksStay /\ FirstsStay /\ SendsStay
    BY <2>1, <2>2, MarkedRows
  <2> QED BY <1>1, <2>1, <2>2, <2>3
<1>4. CASE ClockStep
  <2>1. UNCHANGED <<run, job, tx, accountSeq>>
    BY <1>4, ClockStepTo
  <2>2. \/ rows' = rows
        \/ \E id \in Requests : SendsTo(id, rows[id].accepted, rows[id].sends)
    BY <1>4, ClockStepTo
  <2>3. MarksStay /\ FirstsStay /\ SendsStay
    BY <2>1, <2>2 DEF SendsTo, RowTo, MarksStay, FirstsStay, SendsStay
  <2> QED BY <1>1, <2>1, <2>3 DEF Sent
<1> QED BY <1>2, <1>3, <1>4

LEMMA CrashesSends ==
  ASSUME IndInv, OwnInv, SendInv, NEW p \in Replicas, Crashes(p)
  PROVE  SendInv'
<1>1. UNCHANGED <<pool, tx, accountSeq>>
  BY CrashesStep
<1>2. MarksStay /\ FirstsStay
  BY CrashesStep DEF MarksStay, FirstsStay
<1>3. ThreadsCalm
  BY CrashesStep DEF CrashedRun, ThreadsCalm
<1>4. \A q \in Requests : FirstFits(q)'
  BY <1>2, <1>3, CalmFirsts
<1>5. \A id \in Requests : tx[id] # "none" /\ FirstMayBe(id) => Evidence(id)'
  BY <1>2, <1>3, CalmFirsts, FirstsMayBe
<1>6. NoJob.at = "idle"
  BY DEF NoJob
<1>7. \A d \in Drivers : job'[d] = job[d] \/ job'[d] = NoJob
  BY CrashesStep DEF CrashedJob
<1>8. ASSUME NEW d \in Drivers, NEW id \in Requests, d \in rows[id].sends
      PROVE  \/ d \in rows'[id].sends /\ (job[d].at \in {"send", "reply"} => job'[d] = job[d])
             \/ LostSend \in rows'[id].sends /\ job'[d] = NoJob
  BY <1>8, CrashesStep
<1>9. ASSUME NEW d \in Drivers
      PROVE  SendFits(d)'
  <2>1. SendFits(d)
    BY DEF SendInv
  <2>2. CASE job'[d] = NoJob
    BY <1>6, <2>2 DEF SendFits
  <2>3. CASE job'[d] = job[d] /\ job'[d] # NoJob
    <3>1. job[d].at # "idle" => job[d].on \in Requests /\ tx[job[d].on] # "none"
      BY DEF IndInv, JobShape, JobFits
    <3>2. \A id \in Requests : d \in rows[id].sends => d \in rows'[id].sends
      BY <1>8, <2>3
    <3> QED BY <1>2, <2>1, <2>3, <3>1, <3>2 DEF SendFits, MarksStay
  <2> QED BY <1>7, <2>2, <2>3
<1>10. ASSUME NEW id \in Requests, tx[id] # "none", HeardOf(id) # {}
       PROVE  Evidence(id)'
  <2>1. PICK d \in Drivers : /\ job[d].at = "reply" /\ job[d].on = id
                             /\ job[d].reply \in {"accepted", "lost"}
    BY <1>10 DEF HeardOf
  <2>2. CASE job'[d] = job[d]
    BY <2>1, <2>2 DEF HeardOf, Evidence
  <2>3. CASE job'[d] # job[d]
    <3>1. SendFits(d)
      BY DEF SendInv
    <3>2. CASE ~job[d].tracked
      BY <1>2, <1>10, <2>1, <3>1, <3>2 DEF SendFits, MarksStay, Evidence
    <3>3. CASE job[d].tracked
      <4>1. d \in rows[id].sends
        BY <2>1, <3>1, <3>3 DEF SendFits
      <4>2. LostSend \in rows'[id].sends
        BY <1>8, <2>1, <2>3, <4>1
      <4> QED BY <4>2 DEF Evidence
    <3> QED BY <3>2, <3>3
  <2> QED BY <2>2, <2>3
<1>11. \A id \in Requests : Sent(id)' => Sent(id)
  BY <1>1 DEF Sent
<1> QED BY <1>2, <1>4, <1>5, <1>9, <1>10, <1>11, SendKeeps

LEMMA RequestsSend ==
  ASSUME IndInv, OwnInv, SendInv, NEW r \in Requests, RequestStep(r) \/ SignerStep(r)
  PROVE  SendInv'
BY QuietSteps, QuietSends, ClaimSteps, ClaimSends, RaceSends, FindsRowSends,
   RecordsFirstAnswerSends, RecordsEnvelopeSends, SendsFirstSends
   DEF RequestStep, SignerStep

LEMMA SendNext ==
  ASSUME IndInv, OwnInv, SendInv, [Next]_vars
  PROVE  SendInv'
<1>1. CASE UNCHANGED vars
  <2>1. UNCHANGED <<rows, run, job, tx>>
    BY <1>1 DEF vars
  <2> QED BY <2>1 DEF SendInv, FirstFits, SendFits, Evidence, FirstMayBe, Unrefused, HeardOf,
                      Sent, Noted, Submitting
<1>2. CASE Next
  BY <1>2, RequestsSend, JobsSend, WorldSends, CrashesSends DEF Next
<1> QED BY <1>1, <1>2

LEMMA SendInit == Init => SendInv
<1> SUFFICES ASSUME Init PROVE SendInv
  OBVIOUS
<1>1. \A id \in Requests : tx[id] = "none" /\ run[id] = NoRun
  BY DEF Init
<1>2. \A d \in Drivers : job[d] = NoJob
  BY DEF Init
<1> QED BY <1>1, <1>2 DEF SendInv, FirstFits, SendFits, Sent, Noted, Answered, NoRun, NoJob

\* What a row keeps of the sends of its bytes is enough: SendInv holds in every
\* reachable state.
THEOREM SendsKnown == Spec => [](IndInv /\ OwnInv /\ SendInv)
<1>1. Init => IndInv /\ OwnInv /\ SendInv
  BY InitOK, OwnInit, SendInit
<1>2. IndInv /\ OwnInv /\ SendInv /\ [Next]_vars => IndInv' /\ OwnInv' /\ SendInv'
  BY NextKeeps, OwnNext, SendNext
<1> QED BY <1>1, <1>2, PTL DEF Spec

\* No row calls bytes unsent that the network accepted, whatever answers were
\* lost, whichever drivers sent at once and whoever crashed meanwhile.
THEOREM AcceptedForGood == Spec => []AcceptedIsPublic
<1>1. ASSUME IndInv, SendInv PROVE AcceptedIsPublic
  <2> SUFFICES ASSUME NEW id \in Requests, Sent(id)
               PROVE  BroadcastMayBePublic(id)
    BY DEF AcceptedIsPublic, Sent
  <2>1. Evidence(id)
    BY <1>1 DEF SendInv
  <2>2. CASE HeardOf(id) # {}
    <3>1. PICK d \in Drivers : job[d].at = "reply" /\ job[d].on = id
      BY <2>2 DEF HeardOf
    <3>2. SendFits(d)
      BY <1>1 DEF SendInv
    <3> QED BY <3>1, <3>2 DEF SendFits, BroadcastMayBePublic
  <2>3. CASE ~(HeardOf(id) # {})
    BY <2>1, <2>3 DEF Evidence, FirstMayBe, BroadcastMayBePublic
  <2> QED BY <2>2, <2>3
<1> QED BY <1>1, SendsKnown, PTL
=============================================================================
