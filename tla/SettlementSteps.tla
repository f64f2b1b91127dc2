--------------------------- MODULE SettlementSteps ---------------------------
(***************************************************************************)
(* What a step of SettlementEngine does to the fields of the one request,  *)
(* row and driver it is about, for states of IndInv.  The proofs of the    *)
(* safety properties start from these lemmas, one per action, and never    *)
(* from the action's own text.                                             *)
(***************************************************************************)
EXTENDS SettlementEngineProofs, SettlementInvariants

\* One thread moves.
ThreadTo(r, pc, rec, chan, closed, signer, raced, answer) ==
  /\ \A q \in Requests : q # r => run'[q] = run[q]
  /\ run'[r].pc = pc /\ run'[r].rec = rec /\ run'[r].chan = chan
  /\ run'[r].closed = closed /\ run'[r].signer = signer
  /\ run'[r].raced = raced /\ run'[r].answer = answer

\* Its own thread goes on, its submission goes on, or the request ends.
PcTo(r, pc) ==
  ThreadTo(r, pc, run[r].rec, run[r].chan, run[r].closed, run[r].signer,
           run[r].raced, run[r].answer)
SignerTo(r, step) ==
  ThreadTo(r, run[r].pc, run[r].rec, run[r].chan, run[r].closed, step,
           run[r].raced, run[r].answer)
OverTo(r, a) == ThreadTo(r, "done", None, None, FALSE, "off", "none", a)
EndsTo(r, a) ==
  IF Submitting(r)
    THEN ThreadTo(r, "done", run[r].rec, run[r].chan, run[r].closed,
                  run[r].signer, run[r].raced, a)
    ELSE OverTo(r, a)

\* One row moves.
RowTo(id, state, owner, channel, seq, accepted, sends, released) ==
  /\ \A i \in Requests : i # id => rows'[i] = rows[i]
  /\ rows'[id].state = state /\ rows'[id].owner = owner
  /\ rows'[id].channel = channel /\ rows'[id].seq = seq
  /\ rows'[id].accepted = accepted /\ rows'[id].sends = sends
  /\ rows'[id].released = released

SendsTo(id, accepted, sends) ==
  RowTo(id, rows[id].state, rows[id].owner, rows[id].channel, rows[id].seq,
        accepted, sends, rows[id].released)

\* One transaction moves.
TxTo(id, t) == tx'[id] = t /\ \A i \in Requests : i # id => tx'[i] = tx[i]

\* One job moves.
DriverTo(d, at, on, tracked, reply, verdict) ==
  /\ \A e \in Drivers : e # d => job'[e] = job[e]
  /\ job'[d].at = at /\ job'[d].on = on /\ job'[d].tracked = tracked
  /\ job'[d].reply = reply /\ job'[d].verdict = verdict

\* It goes on with its settlement, or ends and its request with it.
JobAt(d, at) ==
  /\ DriverTo(d, at, job[d].on, job[d].tracked, "none", job[d].verdict)
  /\ run' = run
FinishTo(d, verdict) ==
  DriverTo(d, "finish", job[d].on, job[d].tracked, "none", verdict) /\ run' = run
JobOver(d, a) ==
  /\ DriverTo(d, "idle", None, FALSE, "none", "none")
  /\ IF d \in Requests THEN EndsTo(d, a) ELSE run' = run
Onward(d) == JobAt(d, "reload") \/ JobAt(d, "look") \/ JobOver(d, "pending")

\* The thread of a request, before the step.
LEMMA RunHere ==
  ASSUME IndInv, NEW r \in Requests
  PROVE  /\ run[r] \in Run
         /\ run = [q \in Requests |-> run[q]]
BY DEF IndInv, TypeOK

-----------------------------------------------------------------------------
(* The operators of the engine                                              *)

LEMMA GoesTo ==
  ASSUME IndInv, NEW r \in Requests, NEW pc, Goes(r, pc)
  PROVE  PcTo(r, pc)
<1> DEFINE v == [run[r] EXCEPT !.pc = pc]
<1>1. run[r] \in Run /\ run \in [Requests -> Run]
  BY DEF IndInv, TypeOK
<1>2. /\ v.pc = pc /\ v.rec = run[r].rec /\ v.chan = run[r].chan
      /\ v.closed = run[r].closed /\ v.signer = run[r].signer
      /\ v.raced = run[r].raced /\ v.answer = run[r].answer
  BY <1>1 DEF Run
<1>3. run' = [run EXCEPT ![r] = v]
  BY DEF Goes
<1> HIDE DEF v
<1> QED BY <1>1, <1>2, <1>3 DEF PcTo, ThreadTo

LEMMA EndedFields ==
  ASSUME NEW a
  PROVE  /\ Ended(a).pc = "done" /\ Ended(a).rec = None /\ Ended(a).chan = None
         /\ Ended(a).closed = FALSE /\ Ended(a).signer = "off"
         /\ Ended(a).raced = "none" /\ Ended(a).answer = a
BY DEF Ended, NoRun

LEMMA EndsWith ==
  ASSUME IndInv, NEW r \in Requests, NEW a, Ends(r, a)
  PROVE  EndsTo(r, a)
<1> DEFINE v == [run[r] EXCEPT !.pc = "done", !.answer = a]
<1>1. run[r] \in Run /\ run \in [Requests -> Run]
  BY DEF IndInv, TypeOK
<1>2. CASE Submitting(r)
  <2>1. /\ v.pc = "done" /\ v.rec = run[r].rec /\ v.chan = run[r].chan
        /\ v.closed = run[r].closed /\ v.signer = run[r].signer
        /\ v.raced = run[r].raced /\ v.answer = a
    BY <1>1 DEF Run
  <2>2. run' = [run EXCEPT ![r] = v]
    BY <1>2 DEF Ends
  <2> HIDE DEF v
  <2> QED BY <1>1, <1>2, <2>1, <2>2 DEF EndsTo, ThreadTo
<1>3. CASE ~Submitting(r)
  <2>1. run' = [run EXCEPT ![r] = Ended(a)]
    BY <1>3 DEF Ends
  <2> QED BY <1>1, <1>3, <2>1, EndedFields DEF EndsTo, OverTo, ThreadTo
<1> QED BY <1>2, <1>3

LEMMA SignsTo ==
  ASSUME IndInv, NEW r \in Requests, NEW step, Signs(r, step)
  PROVE  IF step = "stopped" /\ run[r].pc = "done" THEN OverTo(r, run[r].answer)
                                                   ELSE SignerTo(r, step)
<1> DEFINE v == [run[r] EXCEPT !.signer = step]
<1>1. run[r] \in Run /\ run \in [Requests -> Run]
  BY DEF IndInv, TypeOK
<1>2. CASE step = "stopped" /\ run[r].pc = "done"
  <2>1. run' = [run EXCEPT ![r] = Ended(run[r].answer)]
    BY <1>2 DEF Signs
  <2> QED BY <1>1, <1>2, <2>1, EndedFields DEF OverTo, ThreadTo
<1>3. CASE ~(step = "stopped" /\ run[r].pc = "done")
  <2>1. /\ v.pc = run[r].pc /\ v.rec = run[r].rec /\ v.chan = run[r].chan
        /\ v.closed = run[r].closed /\ v.signer = step
        /\ v.raced = run[r].raced /\ v.answer = run[r].answer
    BY <1>1 DEF Run
  <2>2. run' = [run EXCEPT ![r] = v]
    BY <1>3 DEF Signs
  <2> HIDE DEF v
  <2> QED BY <1>1, <1>3, <2>1, <2>2 DEF SignerTo, ThreadTo
<1> QED BY <1>2, <1>3

LEMMA AbandonTo ==
  ASSUME IndInv, NEW id \in Requests, NEW r, Abandon(id, r)
  PROVE  IF OwnsClaim(id, r) THEN RowTo(id, "absent", None, None, 0, FALSE, {}, FALSE)
                             ELSE rows' = rows
BY DEF IndInv, TypeOK, Abandon, RowTo, NoRow

LEMMA FinishRow ==
  ASSUME IndInv, NEW id \in Requests, NEW final, Finish(id, final)
  PROVE  RowTo(id, final, rows[id].owner, rows[id].channel, rows[id].seq,
               rows[id].accepted, rows[id].sends, rows[id].released)
<1> DEFINE x == [rows[id] EXCEPT !.state = final, !.stale = FALSE]
<1>1. rows[id] \in Row /\ rows \in [Requests -> Row]
  BY DEF IndInv, TypeOK
<1>2. /\ x.state = final /\ x.owner = rows[id].owner /\ x.channel = rows[id].channel
      /\ x.seq = rows[id].seq /\ x.accepted = rows[id].accepted
      /\ x.sends = rows[id].sends /\ x.released = rows[id].released
  BY <1>1 DEF Row
<1>3. rows' = [rows EXCEPT ![id] = x]
  BY DEF Finish
<1> HIDE DEF x
<1> QED BY <1>1, <1>2, <1>3 DEF RowTo

LEMMA SendStatements ==
  ASSUME IndInv, NEW id \in Requests, NEW d
  PROVE  /\ BeginSend(id, d) => SendsTo(id, rows[id].accepted, rows[id].sends \cup {d})
         /\ ForgetSend(id, d) =>
              SendsTo(id, rows[id].accepted,
                      IF d \in rows[id].sends THEN (rows[id].sends \ {d}) \cup {LostSend}
                                              ELSE rows[id].sends)
         /\ \A a : EndSend(id, d, a) =>
              SendsTo(id, rows[id].accepted \/ a, rows[id].sends \ {d})
<1>1. rows[id] \in Row /\ rows \in [Requests -> Row]
  BY DEF IndInv, TypeOK
<1>2. ASSUME NEW S, rows' = [rows EXCEPT ![id].sends = S]
      PROVE  SendsTo(id, rows[id].accepted, S)
  <2> DEFINE x == [rows[id] EXCEPT !.sends = S]
  <2>1. /\ x.state = rows[id].state /\ x.owner = rows[id].owner
        /\ x.channel = rows[id].channel /\ x.seq = rows[id].seq
        /\ x.accepted = rows[id].accepted /\ x.sends = S
        /\ x.released = rows[id].released
    BY <1>1 DEF Row
  <2>2. rows' = [rows EXCEPT ![id] = x]
    BY <1>2
  <2> HIDE DEF x
  <2> QED BY <1>1, <2>1, <2>2 DEF SendsTo, RowTo
<1>3. ASSUME NEW S, NEW b, rows' = [rows EXCEPT ![id].sends = S, ![id].accepted = b]
      PROVE  SendsTo(id, b, S)
  <2> DEFINE x == [rows[id] EXCEPT !.sends = S, !.accepted = b]
  <2>1. /\ x.state = rows[id].state /\ x.owner = rows[id].owner
        /\ x.channel = rows[id].channel /\ x.seq = rows[id].seq
        /\ x.accepted = b /\ x.sends = S
        /\ x.released = rows[id].released
    BY <1>1 DEF Row
  <2>2. rows' = [rows EXCEPT ![id] = x]
    BY <1>3
  <2> HIDE DEF x
  <2> QED BY <1>1, <2>1, <2>2 DEF SendsTo, RowTo
<1>4. ASSUME BeginSend(id, d)
      PROVE  SendsTo(id, rows[id].accepted, rows[id].sends \cup {d})
  BY <1>2, <1>4 DEF BeginSend
<1>5. ASSUME ForgetSend(id, d)
      PROVE  SendsTo(id, rows[id].accepted,
                     IF d \in rows[id].sends THEN (rows[id].sends \ {d}) \cup {LostSend}
                                             ELSE rows[id].sends)
  BY <1>2, <1>5 DEF ForgetSend
<1>6. ASSUME NEW a, EndSend(id, d, a)
      PROVE  SendsTo(id, rows[id].accepted \/ a, rows[id].sends \ {d})
  BY <1>3, <1>6 DEF EndSend
<1> QED BY <1>4, <1>5, <1>6

-----------------------------------------------------------------------------
(* Requests                                                                 *)

LEMMA ClaimsStep ==
  ASSUME IndInv, NEW r \in Requests, Claims(r)
  PROVE  \E id \in Requests :
           /\ UNCHANGED <<pool, job, tx, accountSeq>>
           /\ run[r].pc = "start" /\ KeyOf[id] = KeyOf[r]
           /\ ThreadTo(r, FirstStep(r), id, run[r].chan, run[r].closed,
                       run[r].signer, run[r].raced, run[r].answer)
           /\ \/ /\ id = r /\ Find(KeyOf[r]) = {}
                 /\ RowTo(id, "claimed", r, None, 0, FALSE, {}, FALSE)
              \/ /\ rows[id].state = "claimed"
                 /\ RowTo(id, "claimed", r, rows[id].channel, rows[id].seq,
                          rows[id].accepted, rows[id].sends, rows[id].released)
<1>1. PICK id \in Requests :
        /\ \/ ClaimInserts(r) /\ id = r
           \/ ClaimTakesOver(r, id)
        /\ Claimed(r, id)
  BY DEF Claims
<1>2. run[r] \in Run /\ run \in [Requests -> Run] /\ rows \in [Requests -> Row]
  BY DEF IndInv, TypeOK
<1>3. KeyOf[id] = KeyOf[r] /\ UNCHANGED <<pool, job, tx, accountSeq>>
  BY <1>1 DEF ClaimTakesOver, Find, Claims, network
<1>4. ThreadTo(r, FirstStep(r), id, run[r].chan, run[r].closed,
               run[r].signer, run[r].raced, run[r].answer)
  <2> DEFINE v == [run[r] EXCEPT !.pc = FirstStep(r), !.rec = id]
  <2>1. /\ v.pc = FirstStep(r) /\ v.rec = id /\ v.chan = run[r].chan
        /\ v.closed = run[r].closed /\ v.signer = run[r].signer
        /\ v.raced = run[r].raced /\ v.answer = run[r].answer
    BY <1>2 DEF Run
  <2>2. run' = [run EXCEPT ![r] = v]
    BY <1>1 DEF Claimed
  <2> HIDE DEF v
  <2> QED BY <1>2, <2>1, <2>2 DEF ThreadTo
<1>5. CASE ClaimInserts(r) /\ id = r
  <2>1. RowTo(id, "claimed", r, None, 0, FALSE, {}, FALSE)
    BY <1>2, <1>5 DEF ClaimInserts, RowTo, NoRow
  <2> QED BY <1>3, <1>4, <1>5, <2>1 DEF Claims, ClaimInserts
<1>6. CASE ClaimTakesOver(r, id)
  <2> DEFINE x == [rows[id] EXCEPT !.owner = r, !.stale = FALSE]
  <2>1. rows[id] \in Row /\ rows[id].state = "claimed"
    BY <1>2, <1>6 DEF ClaimTakesOver
  <2>2. /\ x.state = "claimed" /\ x.owner = r /\ x.channel = rows[id].channel
        /\ x.seq = rows[id].seq /\ x.accepted = rows[id].accepted
        /\ x.sends = rows[id].sends /\ x.released = rows[id].released
    BY <2>1 DEF Row
  <2>3. rows' = [rows EXCEPT ![id] = x]
    BY <1>6 DEF ClaimTakesOver
  <2> HIDE DEF x
  <2>4. RowTo(id, "claimed", r, rows[id].channel, rows[id].seq,
              rows[id].accepted, rows[id].sends, rows[id].released)
    BY <1>2, <2>2, <2>3 DEF RowTo
  <2> QED BY <1>3, <1>4, <2>1, <2>4 DEF Claims
<1> QED BY <1>1, <1>5, <1>6

LEMMA AnswersRepeatStep ==
  ASSUME IndInv, NEW r \in Requests, AnswersRepeat(r)
  PROVE  /\ run[r].pc = "start" /\ UNCHANGED <<rows, pool, job, tx, accountSeq>>
         /\ \/ OverTo(r, "conflict")
            \/ \E id \in Requests :
                 /\ KeyOf[id] = KeyOf[r]
                 /\ ThreadTo(r, "repeat", id, run[r].chan, run[r].closed,
                             run[r].signer, run[r].raced, run[r].answer)
<1>1. run[r] \in Run /\ run \in [Requests -> Run]
  BY DEF IndInv, TypeOK
<1>2. ASSUME run' = [run EXCEPT ![r] = Ended("conflict")]
      PROVE  OverTo(r, "conflict")
  BY <1>1, <1>2, EndedFields DEF OverTo, ThreadTo
<1>3. ASSUME NEW id \in Requests, KeyOf[id] = KeyOf[r],
             run' = [run EXCEPT ![r].pc = "repeat", ![r].rec = id]
      PROVE  ThreadTo(r, "repeat", id, run[r].chan, run[r].closed,
                      run[r].signer, run[r].raced, run[r].answer)
  <2> DEFINE v == [run[r] EXCEPT !.pc = "repeat", !.rec = id]
  <2>1. /\ v.pc = "repeat" /\ v.rec = id /\ v.chan = run[r].chan
        /\ v.closed = run[r].closed /\ v.signer = run[r].signer
        /\ v.raced = run[r].raced /\ v.answer = run[r].answer
    BY <1>1 DEF Run
  <2>2. run' = [run EXCEPT ![r] = v]
    BY <1>3
  <2> HIDE DEF v
  <2> QED BY <1>1, <2>1, <2>2 DEF ThreadTo
<1>4. run[r].pc = "start" /\ UNCHANGED <<rows, pool, job, tx, accountSeq>>
  BY DEF AnswersRepeat, network
<1> QED BY <1>2, <1>3, <1>4 DEF AnswersRepeat, ClaimIsExisting, Find

LEMMA AwaitsExistingStep ==
  ASSUME IndInv, NEW r \in Requests, AwaitsExisting(r)
  PROVE  /\ run[r].pc \in {"repeat", "taken"} /\ run[r].rec \in Requests
         /\ UNCHANGED <<rows, pool, job, tx, accountSeq>>
         /\ EndsTo(r, AnswerOf(run[r].rec))
<1>1. /\ run[r] \in Run /\ run \in [Requests -> Run] /\ run[r].rec \in Requests
      /\ run[r].pc \in {"repeat", "taken"}
  BY Here DEF IndInv, TypeOK, AwaitsExisting, RunFits
<1>2. ASSUME run[r].pc = "repeat", run' = [run EXCEPT ![r] = Ended(AnswerOf(run[r].rec))]
      PROVE  EndsTo(r, AnswerOf(run[r].rec))
  <2>1. ~Submitting(r)
    BY <1>2, Here DEF RunFits, Submitting, SubmittingSteps
  <2> QED BY <1>1, <1>2, <2>1, EndedFields DEF EndsTo, OverTo, ThreadTo
<1>3. UNCHANGED <<rows, pool, job, tx, accountSeq>>
  BY DEF AwaitsExisting, network
<1> QED BY <1>1, <1>2, <1>3, EndsWith DEF AwaitsExisting

LEMMA LeasesChannelStep ==
  ASSUME IndInv, NEW r \in Requests, LeasesChannel(r)
  PROVE  \E c \in Channels :
           /\ run[r].pc = "lease" /\ Acquire(c)
           /\ UNCHANGED <<rows, job, tx, accountSeq>>
           /\ ThreadTo(r, "check", run[r].rec, c, run[r].closed,
                       run[r].signer, run[r].raced, run[r].answer)
<1>1. PICK c \in Channels : /\ Acquire(c)
                            /\ run' = [run EXCEPT ![r].pc = "check", ![r].chan = c]
  BY DEF LeasesChannel
<1>2. run[r] \in Run /\ run \in [Requests -> Run]
  BY DEF IndInv, TypeOK
<1> DEFINE v == [run[r] EXCEPT !.pc = "check", !.chan = c]
<1>3. /\ v.pc = "check" /\ v.rec = run[r].rec /\ v.chan = c
      /\ v.closed = run[r].closed /\ v.signer = run[r].signer
      /\ v.raced = run[r].raced /\ v.answer = run[r].answer
  BY <1>2 DEF Run
<1>4. run' = [run EXCEPT ![r] = v]
  BY <1>1
<1> HIDE DEF v
<1> QED BY <1>1, <1>2, <1>3, <1>4 DEF ThreadTo, LeasesChannel, network

LEMMA ChecksChannelStep ==
  ASSUME IndInv, NEW r \in Requests, ChecksChannel(r)
  PROVE  /\ run[r].pc = "check" /\ run[r].chan \in Channels
         /\ TakeQuarantineSequence(run[r].chan) \/ UNCHANGED pool
         /\ UNCHANGED <<rows, job, tx, accountSeq>>
         /\ \/ ThreadTo(r, "race", run[r].rec, run[r].chan, run[r].closed,
                        "read", run[r].raced, run[r].answer)
            \/ PcTo(r, "requarantine")
<1>1. /\ run[r] \in Run /\ run \in [Requests -> Run]
      /\ run[r].pc = "check" /\ run[r].chan \in Channels
  BY Here DEF IndInv, TypeOK, ChecksChannel, RunFits
<1>2. ASSUME run' = [run EXCEPT ![r].pc = "race", ![r].signer = "read"]
      PROVE  ThreadTo(r, "race", run[r].rec, run[r].chan, run[r].closed,
                      "read", run[r].raced, run[r].answer)
  <2> DEFINE v == [run[r] EXCEPT !.pc = "race", !.signer = "read"]
  <2>1. /\ v.pc = "race" /\ v.rec = run[r].rec /\ v.chan = run[r].chan
        /\ v.closed = run[r].closed /\ v.signer = "read"
        /\ v.raced = run[r].raced /\ v.answer = run[r].answer
    BY <1>1 DEF Run
  <2>2. run' = [run EXCEPT ![r] = v]
    BY <1>2
  <2> HIDE DEF v
  <2> QED BY <1>1, <2>1, <2>2 DEF ThreadTo
<1>3. ASSUME NEW n, run' = [run EXCEPT ![r].pc = "requarantine", ![r].seq = n]
      PROVE  PcTo(r, "requarantine")
  <2> DEFINE v == [run[r] EXCEPT !.pc = "requarantine", !.seq = n]
  <2>1. /\ v.pc = "requarantine" /\ v.rec = run[r].rec /\ v.chan = run[r].chan
        /\ v.closed = run[r].closed /\ v.signer = run[r].signer
        /\ v.raced = run[r].raced /\ v.answer = run[r].answer
    BY <1>1 DEF Run
  <2>2. run' = [run EXCEPT ![r] = v]
    BY <1>3
  <2> HIDE DEF v
  <2> QED BY <1>1, <2>1, <2>2 DEF PcTo, ThreadTo
<1>4. UNCHANGED <<rows, job, tx, accountSeq>>
  BY DEF ChecksChannel, chain
<1> QED BY <1>1, <1>2, <1>3, <1>4, Zenon DEF ChecksChannel

LEMMA QuarantinesAgainStep ==
  ASSUME IndInv, NEW r \in Requests, QuarantinesAgain(r)
  PROVE  /\ run[r].pc = "requarantine" /\ run[r].chan \in Channels
         /\ Quarantine(run[r].chan, run[r].seq) /\ UNCHANGED <<rows, job, tx, accountSeq>>
         /\ \E pc \in {"lease", "unleased"} :
              ThreadTo(r, pc, run[r].rec, None, run[r].closed, run[r].signer,
                       run[r].raced, run[r].answer)
<1>1. /\ run[r] \in Run /\ run \in [Requests -> Run]
      /\ run[r].pc = "requarantine" /\ run[r].chan \in Channels
  BY Here DEF IndInv, TypeOK, QuarantinesAgain, RunFits
<1>2. PICK pc \in {"lease", "unleased"} :
        run' = [run EXCEPT ![r].pc = pc, ![r].chan = None, ![r].seq = 0]
  BY DEF QuarantinesAgain
<1> DEFINE v == [run[r] EXCEPT !.pc = pc, !.chan = None, !.seq = 0]
<1>3. /\ v.pc = pc /\ v.rec = run[r].rec /\ v.chan = None
      /\ v.closed = run[r].closed /\ v.signer = run[r].signer
      /\ v.raced = run[r].raced /\ v.answer = run[r].answer
  BY <1>1 DEF Run
<1>4. run' = [run EXCEPT ![r] = v]
  BY <1>2
<1> HIDE DEF v
<1> QED BY <1>1, <1>2, <1>3, <1>4 DEF ThreadTo, QuarantinesAgain, network

-----------------------------------------------------------------------------
(* The submission and its race                                              *)

LEMMA BuildsTransactionStep ==
  ASSUME IndInv, NEW r \in Requests, BuildsTransaction(r)
  PROVE  /\ run[r].signer = "read" /\ SignerTo(r, "built")
         /\ UNCHANGED <<rows, pool, job, tx, accountSeq>>
<1>1. run[r] \in Run /\ run \in [Requests -> Run]
  BY DEF IndInv, TypeOK
<1> DEFINE v == [run[r] EXCEPT !.signer = "built",
                               !.seq = accountSeq[run[r].chan] + 1]
<1>2. /\ v.pc = run[r].pc /\ v.rec = run[r].rec /\ v.chan = run[r].chan
      /\ v.closed = run[r].closed /\ v.signer = "built"
      /\ v.raced = run[r].raced /\ v.answer = run[r].answer
  BY <1>1 DEF Run
<1>3. run' = [run EXCEPT ![r] = v]
  BY DEF BuildsTransaction
<1> HIDE DEF v
<1> QED BY <1>1, <1>2, <1>3 DEF SignerTo, ThreadTo, BuildsTransaction, network

\* A submission that stops leaves its request as it is, or nothing of it.
StopsTo(r) == SignerTo(r, "stopped") \/ (run[r].pc = "done" /\ OverTo(r, run[r].answer))

LEMMA RecordsEnvelopeStep ==
  ASSUME IndInv, NEW r \in Requests, RecordsEnvelope(r)
  PROVE  LET id == run[r].rec IN
         /\ run[r].signer = "writing" /\ id \in Requests /\ run[r].chan \in Channels
         /\ UNCHANGED <<pool, job, accountSeq>>
         /\ IF OwnsClaim(id, r)
              THEN /\ \E n \in Nat : RowTo(id, "submitted", r, run[r].chan, n, FALSE,
                                           {FirstSend}, rows[id].released)
                   /\ TxTo(id, "signed")
                   /\ SignerTo(r, "sending") \/ StopsTo(r)
              ELSE StopsTo(r) /\ rows' = rows /\ tx' = tx
<1> DEFINE id == run[r].rec
           x == [rows[id] EXCEPT !.state = "submitted", !.stale = FALSE,
                                 !.channel = run[r].chan, !.seq = run[r].seq,
                                 !.accepted = FALSE, !.sends = {FirstSend}]
<1>1. /\ run[r].signer = "writing" /\ id \in Requests /\ run[r].chan \in Channels
      /\ UNCHANGED <<pool, job, accountSeq>>
      /\ rows \in [Requests -> Row] /\ tx \in [Requests -> TxStates]
      /\ run[r].seq \in Nat
  BY Here DEF IndInv, TypeOK, RecordsEnvelope, RunFits, SubmittingSteps, Run
<1>2. \A step \in {"sending", "stopped"} : Signs(r, step) =>
        IF step = "sending" THEN SignerTo(r, step) ELSE StopsTo(r)
  BY SignsTo DEF StopsTo
<1>3. CASE OwnsClaim(id, r)
  <2>1. rows[id] \in Row /\ rows[id].owner = r
    BY <1>1, <1>3 DEF OwnsClaim
  <2>2. /\ x.state = "submitted" /\ x.owner = r /\ x.channel = run[r].chan
        /\ x.seq = run[r].seq /\ x.accepted = FALSE /\ x.sends = {FirstSend}
        /\ x.released = rows[id].released
    BY <2>1 DEF Row
  <2>3. rows' = [rows EXCEPT ![id] = x] /\ tx' = [tx EXCEPT ![id] = "signed"]
    BY <1>3 DEF RecordsEnvelope, RecordEnvelope
  <2> HIDE DEF x
  <2>4. RowTo(id, "submitted", r, run[r].chan, run[r].seq, FALSE, {FirstSend},
              rows[id].released)
    BY <1>1, <2>2, <2>3 DEF RowTo
  <2>5. TxTo(id, "signed")
    BY <1>1, <2>3 DEF TxTo
  <2>6. SignerTo(r, "sending") \/ StopsTo(r)
    BY <1>2, <1>3 DEF RecordsEnvelope
  <2> QED BY <1>1, <1>3, <2>4, <2>5, <2>6
<1>4. CASE ~OwnsClaim(id, r)
  BY <1>1, <1>2, <1>4 DEF RecordsEnvelope
<1> QED BY <1>3, <1>4

LEMMA NetworkAnswersStep ==
  ASSUME IndInv, NEW id \in Requests, NEW reply, NetworkAnswers(id, reply)
  PROVE  \/ /\ reply \in {"accepted", "lost"} /\ tx[id] \in {"signed", "queued"}
            /\ ~SequenceUsed(id) /\ TxTo(id, "queued")
         \/ /\ reply = "rejected" /\ tx[id] \in {"signed", "doomed"}
            /\ ~SequenceUsed(id) /\ TxTo(id, "doomed")
         \/ reply \in {"badSeq", "refused", "lost"} /\ tx' = tx
BY DEF IndInv, TypeOK, NetworkAnswers, CanAccept, CanReject, TxTo

LEMMA SendsFirstStep ==
  ASSUME IndInv, NEW r \in Requests, SendsFirst(r)
  PROVE  /\ run[r].signer = "sending" /\ run[r].rec \in Requests
         /\ UNCHANGED <<rows, pool, job, accountSeq>>
         /\ \E reply \in Replies :
              /\ NetworkAnswers(run[r].rec, reply)
              /\ IF run[r].pc = "race"
                   THEN SignerTo(r, CASE reply = "accepted" -> "accepted"
                                      [] reply = "lost" -> "unheard"
                                      [] OTHER -> "refused")
                   ELSE StopsTo(r)
<1>1. /\ run[r].signer = "sending" /\ run[r].rec \in Requests
      /\ UNCHANGED <<rows, pool, job, accountSeq>>
  BY Here DEF SendsFirst, RunFits, SubmittingSteps
<1>2. PICK reply \in Replies :
        /\ NetworkAnswers(run[r].rec, reply)
        /\ Signs(r, IF run[r].pc # "race" THEN "stopped"
                    ELSE CASE reply = "accepted" -> "accepted"
                           [] reply = "lost" -> "unheard"
                           [] OTHER -> "refused")
  BY DEF SendsFirst
<1>3. CASE run[r].pc = "race"
  <2> DEFINE step == CASE reply = "accepted" -> "accepted"
                       [] reply = "lost" -> "unheard"
                       [] OTHER -> "refused"
  <2>1. Signs(r, step) /\ step # "stopped"
    BY <1>2, <1>3
  <2>2. SignerTo(r, step)
    BY <2>1, SignsTo
  <2> QED BY <1>1, <1>2, <1>3, <2>2
<1>4. CASE run[r].pc # "race"
  <2>1. Signs(r, "stopped")
    BY <1>2, <1>4
  <2>2. StopsTo(r)
    BY <2>1, SignsTo DEF StopsTo
  <2> QED BY <1>1, <1>2, <1>4, <2>2
<1> QED BY <1>3, <1>4

LEMMA SignsFeeBumpStep ==
  ASSUME IndInv, NEW r \in Requests, SignsFeeBump(r)
  PROVE  /\ run[r].signer = "built" /\ UNCHANGED <<rows, pool, job, tx, accountSeq>>
         /\ StopsTo(r) \/ (~run[r].closed /\ SignerTo(r, "writing"))
BY SignsTo DEF SignsFeeBump, StopsTo, network

LEMMA RefusesToSignStep ==
  ASSUME IndInv, NEW r \in Requests, RefusesToSign(r)
  PROVE  /\ run[r].signer \in {"read", "built"} /\ StopsTo(r)
         /\ UNCHANGED <<rows, pool, job, tx, accountSeq>>
BY SignsTo DEF RefusesToSign, StopsTo, network

\* The race ends with a result that fits what the submission came to.
LEMMA RaceStep ==
  ASSUME IndInv, NEW r \in Requests,
         SubmissionReturns(r) \/ SignWindowElapses(r) \/ ConfirmWindowElapses(r)
  PROVE  \E result \in RaceResults :
           /\ run[r].pc = "race" /\ run[r].rec \in Requests
           /\ UNCHANGED <<rows, pool, job, tx, accountSeq>>
           /\ result = "refused" => run[r].signer = "refused"
           /\ result = "accepted" => run[r].signer = "accepted"
           /\ result = "settled" => run[r].signer = "accepted" /\ tx[run[r].rec] = "ok"
           /\ ThreadTo(r, "fetch", run[r].rec, run[r].chan, ~Noted(r),
                       IF Submitting(r) THEN run[r].signer ELSE "stopped",
                       result, run[r].answer)
<1>1. run[r] \in Run /\ run \in [Requests -> Run] /\ run[r].rec \in Requests /\ run[r].pc = "race"
  BY Here DEF IndInv, TypeOK, RunFits, SubmissionReturns, SignWindowElapses,
              ConfirmWindowElapses
<1>2. PICK result \in RaceResults :
        /\ result = "refused" => run[r].signer = "refused"
        /\ result = "accepted" => run[r].signer = "accepted"
        /\ result = "settled" => run[r].signer = "accepted" /\ tx[run[r].rec] = "ok"
        /\ RaceEnds(r, result)
  BY DEF SubmissionReturns, SignWindowElapses, ConfirmWindowElapses, RaceResults
<1> DEFINE step == IF Submitting(r) THEN run[r].signer ELSE "stopped"
           v == [run[r] EXCEPT !.pc = "fetch", !.raced = result,
                               !.closed = ~Noted(r), !.signer = step]
<1>3. run' = [run EXCEPT ![r] = v]
  BY <1>2 DEF RaceEnds
<1> HIDE DEF step
<1>4. /\ v.pc = "fetch" /\ v.rec = run[r].rec /\ v.chan = run[r].chan
      /\ v.closed = ~Noted(r) /\ v.signer = step
      /\ v.raced = result /\ v.answer = run[r].answer
  BY <1>1 DEF Run
<1> HIDE DEF v
<1>5. ThreadTo(r, "fetch", run[r].rec, run[r].chan, ~Noted(r), step, result, run[r].answer)
  BY <1>1, <1>3, <1>4 DEF ThreadTo
<1>6. UNCHANGED <<rows, pool, job, tx, accountSeq>>
  BY <1>2 DEF RaceEnds, network
<1> QED BY <1>1, <1>2, <1>5, <1>6 DEF step

-----------------------------------------------------------------------------
(* After the race                                                           *)

\* The job of a request that found its envelope recorded.
LooksTo(d, id) ==
  DriverTo(d, "look", id, ~rows[id].accepted, "none", "none")

LEMMA LooksFromTo ==
  ASSUME IndInv, NEW d \in Drivers, NEW id, job' = [job EXCEPT ![d] = LooksFrom(id)]
  PROVE  LooksTo(d, id)
<1>1. job \in [Drivers -> Job]
  BY DEF IndInv, TypeOK
<1> QED BY <1>1 DEF LooksTo, DriverTo, LooksFrom

LEMMA FetchesRowStep ==
  ASSUME IndInv, NEW r \in Requests, FetchesRow(r)
  PROVE  LET id == run[r].rec IN
         /\ run[r].pc = "fetch" /\ id \in Requests
         /\ UNCHANGED <<rows, pool, tx, accountSeq>>
         /\ IF Recorded(id, r) THEN PcTo(r, "answer") /\ LooksTo(r, id)
            ELSE /\ IF OwnsClaim(id, r) THEN PcTo(r, "abandon") ELSE PcTo(r, "lost")
                 /\ job' = job
<1>1. run[r].pc = "fetch" /\ run[r].rec \in Requests /\ r \in Drivers
  BY Here DEF FetchesRow, RunFits, Drivers
<1> QED BY <1>1, GoesTo, LooksFromTo DEF FetchesRow, network

LEMMA RechecksRowStep ==
  ASSUME IndInv, NEW r \in Requests, RechecksRow(r)
  PROVE  LET id == run[r].rec IN
         /\ run[r].pc = "recheck" /\ id \in Requests
         /\ UNCHANGED <<rows, pool, tx, accountSeq>>
         /\ IF Recorded(id, r) THEN PcTo(r, "answer") /\ LooksTo(r, id)
            ELSE PcTo(r, "unsigned") /\ job' = job
<1>1. run[r].pc = "recheck" /\ run[r].rec \in Requests /\ r \in Drivers
  BY Here DEF RechecksRow, RunFits, Drivers
<1> QED BY <1>1, GoesTo, LooksFromTo DEF RechecksRow, network

\* Steps of a request's own thread that touch no job.
LEMMA ThreadSteps ==
  ASSUME IndInv, NEW r \in Requests
  PROVE  /\ CallThrows(r) => /\ run[r].pc \in Unguarded /\ EndsTo(r, "error")
                             /\ UNCHANGED <<rows, pool, job, tx, accountSeq>>
         /\ SettlesOffChain(r) => /\ run[r].pc = "offchain"
                                  /\ PcTo(r, "offFinish") \/ PcTo(r, "offAbandon")
                                  /\ UNCHANGED <<rows, pool, job, tx, accountSeq>>
         /\ GetsNoChannel(r) => /\ run[r].pc = "lease" /\ PcTo(r, "unleased")
                                /\ UNCHANGED <<rows, pool, job, tx, accountSeq>>
         /\ ReleasesLost(r) => /\ run[r].pc = "lost" /\ PcTo(r, "taken")
                               /\ Release(run[r].chan)
                               /\ UNCHANGED <<rows, job, tx, accountSeq>>
         /\ AnswersUnsigned(r) => /\ run[r].pc = "unsigned" /\ EndsTo(r, "unsigned")
                                  /\ Release(run[r].chan)
                                  /\ UNCHANGED <<rows, job, tx, accountSeq>>
<1>1. CallThrows(r) => /\ run[r].pc \in Unguarded /\ EndsTo(r, "error")
                       /\ UNCHANGED <<rows, pool, job, tx, accountSeq>>
  BY EndsWith DEF CallThrows, chain
<1>2. SettlesOffChain(r) => /\ run[r].pc = "offchain"
                            /\ PcTo(r, "offFinish") \/ PcTo(r, "offAbandon")
                            /\ UNCHANGED <<rows, pool, job, tx, accountSeq>>
  BY GoesTo DEF SettlesOffChain, network
<1>3. GetsNoChannel(r) => /\ run[r].pc = "lease" /\ PcTo(r, "unleased")
                          /\ UNCHANGED <<rows, pool, job, tx, accountSeq>>
  BY GoesTo DEF GetsNoChannel, network
<1>4. ReleasesLost(r) => /\ run[r].pc = "lost" /\ PcTo(r, "taken")
                         /\ Release(run[r].chan)
                         /\ UNCHANGED <<rows, job, tx, accountSeq>>
  BY GoesTo DEF ReleasesLost, network
<1>5. AnswersUnsigned(r) => /\ run[r].pc = "unsigned" /\ EndsTo(r, "unsigned")
                            /\ Release(run[r].chan)
                            /\ UNCHANGED <<rows, job, tx, accountSeq>>
  BY EndsWith DEF AnswersUnsigned, network
<1> QED BY <1>1, <1>2, <1>3, <1>4, <1>5

\* The claim goes, if it is still the request's.
AbandonsTo(r) ==
  IF OwnsClaim(run[r].rec, r)
    THEN RowTo(run[r].rec, "absent", None, None, 0, FALSE, {}, FALSE)
    ELSE rows' = rows

LEMMA AbandonSteps ==
  ASSUME IndInv, NEW r \in Requests,
         AbandonsClaim(r) \/ AbandonsUnleased(r) \/ AbandonsOffChain(r)
  PROVE  /\ run[r].rec \in Requests /\ AbandonsTo(r)
         /\ UNCHANGED <<pool, job, tx, accountSeq>>
         /\ \/ run[r].pc = "abandon" /\ PcTo(r, "recheck")
            \/ run[r].pc = "unleased" /\ EndsTo(r, "unavailable")
            \/ run[r].pc = "offAbandon" /\ EndsTo(r, "unsigned")
<1>1. run[r].rec \in Requests
  BY Here DEF AbandonsClaim, AbandonsUnleased, AbandonsOffChain, RunFits
<1>2. AbandonsTo(r)
  BY <1>1, AbandonTo DEF AbandonsTo, AbandonsClaim, AbandonsUnleased, AbandonsOffChain
<1>3. /\ UNCHANGED <<pool, job, tx, accountSeq>>
      /\ \/ run[r].pc = "abandon" /\ PcTo(r, "recheck")
         \/ run[r].pc = "unleased" /\ EndsTo(r, "unavailable")
         \/ run[r].pc = "offAbandon" /\ EndsTo(r, "unsigned")
  BY GoesTo, EndsWith DEF AbandonsClaim, AbandonsUnleased, AbandonsOffChain, network
<1> QED BY <1>1, <1>2, <1>3

\* A row reaches a final state.
FinalTo(id, final) ==
  RowTo(id, final, rows[id].owner, rows[id].channel, rows[id].seq,
        rows[id].accepted, rows[id].sends, rows[id].released)

LEMMA FinishesOffChainStep ==
  ASSUME IndInv, NEW r \in Requests, FinishesOffChain(r)
  PROVE  LET id == run[r].rec IN
         /\ run[r].pc = "offFinish" /\ id \in Requests
         /\ UNCHANGED <<pool, job, tx, accountSeq>>
         /\ IF OwnsClaim(id, r)
              THEN FinalTo(id, "succeeded") /\ EndsTo(r, "succeeded")
              ELSE rows' = rows /\ (PcTo(r, "taken") \/ EndsTo(r, "error"))
<1>1. run[r].pc = "offFinish" /\ run[r].rec \in Requests
  BY Here DEF FinishesOffChain, RunFits
<1> QED BY <1>1, FinishRow, EndsWith, GoesTo DEF FinishesOffChain, FinalTo, network

LEMMA RecordsFirstAnswerStep ==
  ASSUME IndInv, NEW r \in Requests, RecordsFirstAnswer(r)
  PROVE  LET id == run[r].rec
             raced == run[r].raced IN
         /\ run[r].pc = "answer" /\ id \in Requests /\ job[r].at = "look"
         /\ UNCHANGED <<pool, tx, accountSeq>>
         /\ \/ /\ raced \in Answered
               /\ SendsTo(id, rows[id].accepted \/ raced # "refused",
                          rows[id].sends \ {FirstSend})
            \/ rows' = rows
         /\ ThreadTo(r, "drive", id, run[r].chan, run[r].closed, run[r].signer,
                     IF raced = "refused" THEN "refused" ELSE "none", run[r].answer)
         /\ IF raced = "settled"
              THEN DriverTo(r, "finish", job[r].on, job[r].tracked, job[r].reply, "succeeded")
              ELSE job' = job
<1> DEFINE next == IF run[r].raced = "refused" THEN "refused" ELSE "none"
           v == [run[r] EXCEPT !.pc = "drive", !.raced = next]
           w == [job[r] EXCEPT !.at = "finish", !.verdict = "succeeded"]
<1>1. /\ run[r] \in Run /\ run \in [Requests -> Run] /\ job \in [Drivers -> Job]
      /\ run[r].pc = "answer" /\ run[r].rec \in Requests /\ r \in Drivers
      /\ job[r].at = "look"
  BY Here DEF IndInv, TypeOK, JobShape, RecordsFirstAnswer, RunFits, Drivers
<1>2. UNCHANGED <<pool, tx, accountSeq>>
  BY DEF RecordsFirstAnswer, chain
<1>3. \/ /\ run[r].raced \in Answered
         /\ EndSend(run[r].rec, FirstSend, run[r].raced # "refused")
      \/ rows' = rows
  BY DEF RecordsFirstAnswer, Answered
<1>4. ThreadTo(r, "drive", run[r].rec, run[r].chan, run[r].closed, run[r].signer,
               next, run[r].answer)
  <2>1. run' = [run EXCEPT ![r] = v]
    BY DEF RecordsFirstAnswer
  <2> HIDE DEF next
  <2>2. /\ v.pc = "drive" /\ v.rec = run[r].rec /\ v.chan = run[r].chan
        /\ v.closed = run[r].closed /\ v.signer = run[r].signer
        /\ v.raced = next /\ v.answer = run[r].answer
    BY <1>1 DEF Run
  <2> HIDE DEF v
  <2> QED BY <1>1, <2>1, <2>2 DEF ThreadTo
<1>5. CASE run[r].raced = "settled"
  <2>1. /\ w.at = "finish" /\ w.on = job[r].on /\ w.tracked = job[r].tracked
        /\ w.reply = job[r].reply /\ w.verdict = "succeeded"
    BY <1>1 DEF Job
  <2>2. job' = [job EXCEPT ![r] = w]
    BY <1>5 DEF RecordsFirstAnswer
  <2> HIDE DEF w
  <2>3. DriverTo(r, "finish", job[r].on, job[r].tracked, job[r].reply, "succeeded")
    BY <1>1, <2>1, <2>2 DEF DriverTo
  <2> QED BY <1>1, <1>2, <1>3, <1>4, <1>5, <2>3, SendStatements
<1>6. CASE run[r].raced # "settled"
  <2>1. job' = job
    BY <1>6 DEF RecordsFirstAnswer
  <2> QED BY <1>1, <1>2, <1>3, <1>4, <1>6, <2>1, SendStatements
<1> QED BY <1>5, <1>6

-----------------------------------------------------------------------------
(* Jobs                                                                     *)

\* A job that takes a step, before it.
DrivesAt(d, at) ==
  /\ job[d].at = at /\ job[d].on \in Requests /\ tx[job[d].on] # "none"
  /\ d \in Requests => run[d].pc = "drive"

LEMMA DrivesNow ==
  ASSUME IndInv, NEW d \in Drivers, NEW at \in JobSteps \ {"idle"}, Drives(d, at)
  PROVE  DrivesAt(d, at)
BY DrivesHere DEF DrivesAt

LEMMA JobGoesTo ==
  ASSUME IndInv, NEW d \in Drivers, NEW at, JobGoes(d, at)
  PROVE  JobAt(d, at)
<1> DEFINE w == [job[d] EXCEPT !.at = at, !.reply = "none"]
<1>1. job[d] \in Job /\ job \in [Drivers -> Job]
  BY DEF IndInv, TypeOK
<1>2. /\ w.at = at /\ w.on = job[d].on /\ w.tracked = job[d].tracked
      /\ w.reply = "none" /\ w.verdict = job[d].verdict
  BY <1>1 DEF Job
<1>3. job' = [job EXCEPT ![d] = w] /\ run' = run
  BY DEF JobGoes
<1> HIDE DEF w
<1> QED BY <1>1, <1>2, <1>3 DEF JobAt, DriverTo

LEMMA FinishesWith ==
  ASSUME IndInv, NEW d \in Drivers, NEW verdict, NEW mark, Finishes(d, verdict, mark)
  PROVE  FinishTo(d, verdict)
<1> DEFINE w == [job[d] EXCEPT !.at = "finish", !.reply = "none",
                               !.verdict = verdict, !.mark = mark]
<1>1. job[d] \in Job /\ job \in [Drivers -> Job]
  BY DEF IndInv, TypeOK
<1>2. /\ w.at = "finish" /\ w.on = job[d].on /\ w.tracked = job[d].tracked
      /\ w.reply = "none" /\ w.verdict = verdict
  BY <1>1 DEF Job
<1>3. job' = [job EXCEPT ![d] = w] /\ run' = run
  BY DEF Finishes
<1> HIDE DEF w
<1> QED BY <1>1, <1>2, <1>3 DEF FinishTo, DriverTo

LEMMA GivesBackTo ==
  ASSUME IndInv, NEW d \in Drivers, NEW mark, GivesBack(d, mark)
  PROVE  JobAt(d, "giveBack")
<1> DEFINE w == [job[d] EXCEPT !.at = "giveBack", !.reply = "none", !.mark = mark]
<1>1. job[d] \in Job /\ job \in [Drivers -> Job]
  BY DEF IndInv, TypeOK
<1>2. /\ w.at = "giveBack" /\ w.on = job[d].on /\ w.tracked = job[d].tracked
      /\ w.reply = "none" /\ w.verdict = job[d].verdict
  BY <1>1 DEF Job
<1>3. job' = [job EXCEPT ![d] = w] /\ run' = run
  BY DEF GivesBack
<1> HIDE DEF w
<1> QED BY <1>1, <1>2, <1>3 DEF JobAt, DriverTo

LEMMA JobEndsWith ==
  ASSUME IndInv, NEW d \in Drivers, NEW a, JobEnds(d, a)
  PROVE  JobOver(d, a)
<1>1. DriverTo(d, "idle", None, FALSE, "none", "none")
  BY DEF IndInv, TypeOK, JobEnds, DriverTo, NoJob
<1>2. IF d \in Requests THEN EndsTo(d, a) ELSE run' = run
  BY EndsWith DEF JobEnds
<1> QED BY <1>1, <1>2 DEF JobOver

LEMMA GoesOnTo ==
  ASSUME IndInv, NEW d \in Drivers, NEW back, GoesOn(d, back)
  PROVE  Onward(d)
<1>1. CASE JobGoes(d, "reload")
  BY <1>1, JobGoesTo DEF Onward
<1>2. CASE /\ job' = [job EXCEPT ![d].at = "look", ![d].reply = "none",
                                 ![d].back = back]
           /\ run' = run
  <2> DEFINE w == [job[d] EXCEPT !.at = "look", !.reply = "none", !.back = back]
  <2>1. job[d] \in Job /\ job \in [Drivers -> Job]
    BY DEF IndInv, TypeOK
  <2>2. /\ w.at = "look" /\ w.on = job[d].on /\ w.tracked = job[d].tracked
        /\ w.reply = "none" /\ w.verdict = job[d].verdict
    BY <2>1 DEF Job
  <2>3. job' = [job EXCEPT ![d] = w]
    BY <1>2
  <2> HIDE DEF w
  <2> QED BY <1>2, <2>1, <2>2, <2>3 DEF Onward, JobAt, DriverTo
<1>3. CASE JobEnds(d, "pending")
  BY <1>3, JobEndsWith DEF Onward
<1> QED BY <1>1, <1>2, <1>3 DEF GoesOn

\* What a driver concludes is so.
Concluded(d, id) ==
  \/ \E verdict \in FinalStates :
       /\ FinishTo(d, verdict)
       /\ IF verdict = "succeeded" THEN tx[id] = "ok" ELSE Gone(id)
  \/ JobAt(d, "giveBack") /\ ~Live(id)

LEMMA DecidesTo ==
  ASSUME IndInv, NEW d \in Drivers, Decides(d, job[d].on)
  PROVE  Concluded(d, job[d].on) \/ Onward(d)
<1> DEFINE id == job[d].on
<1>1. CASE tx[id] = "ok" /\ Finishes(d, "succeeded", None)
  BY <1>1, FinishesWith DEF Concluded, FinalStates
<1>2. CASE tx[id] = "bad" /\ \/ Finishes(d, "failed", None)
                             \/ GivesBack(d, None)
  BY <1>2, FinishesWith, GivesBackTo DEF Concluded, FinalStates, Gone, Live
<1>3. CASE tx[id] = "dead" /\ Finishes(d, "expired", None)
  BY <1>3, FinishesWith DEF Concluded, FinalStates, Gone, Live
<1>4. CASE Waits(d)
  BY <1>4, GoesOnTo DEF Waits
<1> QED BY <1>1, <1>2, <1>3, <1>4 DEF Decides

LEMMA DecidesConflictTo ==
  ASSUME IndInv, NEW d \in Drivers, DecidesConflict(d, job[d].on)
  PROVE  Concluded(d, job[d].on) \/ Onward(d)
<1> DEFINE id == job[d].on
           seen == accountSeq[Channel(id)]
<1>1. CASE /\ SequenceUsed(id) /\ ~Included(id)
           /\ Finishes(d, "failed", seen) \/ GivesBack(d, seen)
  <2>1. Gone(id) /\ ~Live(id)
    BY <1>1 DEF Gone, Live, Included
  <2> QED BY <1>1, <2>1, FinishesWith, GivesBackTo DEF Concluded, FinalStates
<1>2. CASE Waits(d)
  BY <1>2, GoesOnTo DEF Waits
<1> QED BY <1>1, <1>2 DEF DecidesConflict

LEMMA LooksStep ==
  ASSUME IndInv, NEW d \in Drivers, Looks(d)
  PROVE  LET id == job[d].on IN
         /\ DrivesAt(d, "look") /\ UNCHANGED <<pool, tx, accountSeq>>
         /\ \/ rows' = rows /\ (Concluded(d, id) \/ Onward(d))
            \/ /\ JobAt(d, "send")
               /\ IF job[d].tracked
                    THEN SendsTo(id, rows[id].accepted, rows[id].sends \cup {d})
                    ELSE rows' = rows
<1> DEFINE id == job[d].on
<1>1. DrivesAt(d, "look") /\ id \in Requests
  BY DrivesNow DEF Looks, JobSteps, DrivesAt
<1>2. UNCHANGED <<pool, tx, accountSeq>>
  BY DEF Looks, chain
<1>3. CASE JobGoes(d, "reload") /\ rows' = rows
  BY <1>1, <1>2, <1>3, JobGoesTo DEF Onward
<1>4. CASE Decides(d, id) /\ rows' = rows
  BY <1>1, <1>2, <1>4, DecidesTo
<1>5. CASE DecidesConflict(d, id) /\ rows' = rows
  BY <1>1, <1>2, <1>5, DecidesConflictTo
<1>6. CASE Waits(d) /\ rows' = rows
  BY <1>1, <1>2, <1>6, GoesOnTo DEF Waits
<1>7. CASE job[d].tracked /\ BeginSend(id, d) /\ JobGoes(d, "send")
  BY <1>1, <1>2, <1>7, SendStatements, JobGoesTo
<1>8. CASE ~job[d].tracked /\ JobGoes(d, "send") /\ rows' = rows
  BY <1>1, <1>2, <1>8, JobGoesTo
<1> QED BY <1>3, <1>4, <1>5, <1>6, <1>7, <1>8 DEF Looks, MarksSend

LEMMA SendsStep ==
  ASSUME IndInv, NEW d \in Drivers, Sends(d)
  PROVE  /\ DrivesAt(d, "send") /\ UNCHANGED <<rows, pool, run, accountSeq>>
         /\ \E reply \in Replies :
              /\ NetworkAnswers(job[d].on, reply)
              /\ DriverTo(d, "reply", job[d].on, job[d].tracked, reply, job[d].verdict)
<1>1. DrivesAt(d, "send") /\ UNCHANGED <<rows, pool, run, accountSeq>>
  BY DrivesNow DEF Sends, JobSteps
<1>2. PICK reply \in Replies :
        /\ NetworkAnswers(job[d].on, reply)
        /\ job' = [job EXCEPT ![d].at = "reply", ![d].reply = reply]
  BY DEF Sends
<1> DEFINE w == [job[d] EXCEPT !.at = "reply", !.reply = reply]
<1>3. job[d] \in Job /\ job \in [Drivers -> Job]
  BY DEF IndInv, TypeOK
<1>4. /\ w.at = "reply" /\ w.on = job[d].on /\ w.tracked = job[d].tracked
      /\ w.reply = reply /\ w.verdict = job[d].verdict
  BY <1>3 DEF Job
<1>5. job' = [job EXCEPT ![d] = w]
  BY <1>2
<1> HIDE DEF w
<1>6. DriverTo(d, "reply", job[d].on, job[d].tracked, reply, job[d].verdict)
  BY <1>3, <1>4, <1>5 DEF DriverTo
<1> QED BY <1>1, <1>2, <1>6

LEMMA RecordsAnswerStep ==
  ASSUME IndInv, NEW d \in Drivers, RecordsAnswer(d)
  PROVE  LET id == job[d].on
             reply == job[d].reply
             S == rows[id].sends IN
         /\ DrivesAt(d, "reply") /\ UNCHANGED <<pool, tx, accountSeq>>
         /\ IF job[d].tracked
              THEN \/ /\ reply # "lost"
                      /\ SendsTo(id, rows[id].accepted \/ reply = "accepted", S \ {d})
                   \/ SendsTo(id, rows[id].accepted,
                              IF d \in S THEN (S \ {d}) \cup {LostSend} ELSE S)
              ELSE rows' = rows
         /\ \/ Concluded(d, id) \/ Onward(d)
            \/ reply = "rejected" /\ JobAt(d, "weigh")
<1> DEFINE id == job[d].on
<1>1. DrivesAt(d, "reply") /\ id \in Requests
  BY DrivesNow DEF RecordsAnswer, JobSteps, DrivesAt
<1>2. UNCHANGED <<pool, tx, accountSeq>>
  BY DEF RecordsAnswer, chain
<1>3. IF job[d].tracked
        THEN \/ job[d].reply # "lost" /\ EndSend(id, d, job[d].reply = "accepted")
             \/ ForgetSend(id, d)
        ELSE rows' = rows
  BY DEF RecordsAnswer
<1>4. \/ DecidesConflict(d, id) \/ Waits(d)
      \/ job[d].reply = "rejected" /\ JobGoes(d, "weigh")
  BY DEF RecordsAnswer
<1>5. \/ Concluded(d, id) \/ Onward(d)
      \/ job[d].reply = "rejected" /\ JobAt(d, "weigh")
  BY <1>4, DecidesConflictTo, GoesOnTo, JobGoesTo DEF Waits
<1> QED BY <1>1, <1>2, <1>3, <1>5, SendStatements

LEMMA WeighsRejectionStep ==
  ASSUME IndInv, NEW d \in Drivers, WeighsRejection(d)
  PROVE  /\ DrivesAt(d, "weigh") /\ UNCHANGED <<rows, pool, tx, accountSeq>>
         /\ FinishTo(d, "failed") \/ Onward(d)
<1>1. DrivesAt(d, "weigh") /\ UNCHANGED <<rows, pool, tx, accountSeq>>
  BY DrivesNow DEF WeighsRejection, JobSteps, network
<1> QED BY <1>1, FinishesWith, GoesOnTo DEF WeighsRejection, Waits

LEMMA ReloadsStep ==
  ASSUME IndInv, NEW d \in Drivers, Reloads(d)
  PROVE  /\ DrivesAt(d, "reload") /\ UNCHANGED <<rows, pool, tx, accountSeq>>
         /\ LooksTo(d, job[d].on)
         /\ IF d \in Requests
              THEN ThreadTo(d, run[d].pc, run[d].rec, run[d].chan, run[d].closed,
                            run[d].signer, "none", run[d].answer)
              ELSE run' = run
<1>1. DrivesAt(d, "reload") /\ UNCHANGED <<rows, pool, tx, accountSeq>>
  BY DrivesNow DEF Reloads, JobSteps, network
<1>2. LooksTo(d, job[d].on)
  BY LooksFromTo DEF Reloads
<1>3. CASE d \in Requests
  <2> DEFINE v == [run[d] EXCEPT !.raced = "none"]
  <2>1. run[d] \in Run /\ run \in [Requests -> Run]
    BY <1>3 DEF IndInv, TypeOK
  <2>2. /\ v.pc = run[d].pc /\ v.rec = run[d].rec /\ v.chan = run[d].chan
        /\ v.closed = run[d].closed /\ v.signer = run[d].signer
        /\ v.raced = "none" /\ v.answer = run[d].answer
    BY <2>1 DEF Run
  <2>3. run' = [run EXCEPT ![d] = v]
    BY DEF Reloads
  <2> HIDE DEF v
  <2> QED BY <1>1, <1>2, <1>3, <2>1, <2>2, <2>3 DEF ThreadTo
<1>4. CASE d \notin Requests
  <2>1. run' = run
    BY <1>4 DEF Reloads, IndInv, TypeOK
  <2> QED BY <1>1, <1>2, <1>4, <2>1
<1> QED BY <1>3, <1>4

LEMMA MarksReleasedStep ==
  ASSUME IndInv, NEW d \in Drivers, MarksReleased(d)
  PROVE  LET id == job[d].on IN
         /\ DrivesAt(d, "giveBack") /\ UNCHANGED <<pool, tx, accountSeq>>
         /\ \/ /\ rows[id].state = "submitted" /\ ~rows[id].released
               /\ RowTo(id, rows[id].state, rows[id].owner, rows[id].channel,
                        rows[id].seq, rows[id].accepted, rows[id].sends, TRUE)
               /\ JobAt(d, "hand")
            \/ rows' = rows /\ Onward(d)
<1> DEFINE id == job[d].on
           x == [rows[id] EXCEPT !.released = TRUE]
<1>1. DrivesAt(d, "giveBack") /\ id \in Requests
  BY DrivesNow DEF MarksReleased, JobSteps, DrivesAt
<1>2. UNCHANGED <<pool, tx, accountSeq>>
  BY DEF MarksReleased, chain
<1>3. CASE CanReleaseChannel(id) /\ ReleaseChannel(id) /\ JobGoes(d, "hand")
  <2>1. rows[id] \in Row /\ rows \in [Requests -> Row]
    BY <1>1 DEF IndInv, TypeOK
  <2>2. /\ x.state = rows[id].state /\ x.owner = rows[id].owner
        /\ x.channel = rows[id].channel /\ x.seq = rows[id].seq
        /\ x.accepted = rows[id].accepted /\ x.sends = rows[id].sends
        /\ x.released = TRUE
    BY <2>1 DEF Row
  <2>3. rows' = [rows EXCEPT ![id] = x]
    BY <1>3 DEF ReleaseChannel
  <2> HIDE DEF x
  <2>4. RowTo(id, rows[id].state, rows[id].owner, rows[id].channel,
              rows[id].seq, rows[id].accepted, rows[id].sends, TRUE)
    BY <1>1, <2>1, <2>2, <2>3 DEF RowTo
  <2> QED BY <1>1, <1>2, <1>3, <2>4, JobGoesTo DEF CanReleaseChannel
<1>4. CASE rows' = rows /\ (GoesOn(d, rows[id].released) \/ Waits(d))
  BY <1>1, <1>2, <1>4, GoesOnTo DEF Waits
<1> QED BY <1>3, <1>4 DEF MarksReleased

LEMMA HandsBackStep ==
  ASSUME IndInv, NEW d \in Drivers, HandsBack(d)
  PROVE  /\ DrivesAt(d, "hand") /\ UNCHANGED <<rows, tx, accountSeq>> /\ Onward(d)
         /\ ReturnsChannel(Channel(job[d].on), job[d].mark) \/ UNCHANGED pool
<1>1. DrivesAt(d, "hand") /\ UNCHANGED <<rows, tx, accountSeq>>
  BY DrivesNow DEF HandsBack, JobSteps, chain
<1> QED BY <1>1, GoesOnTo DEF HandsBack, Waits

LEMMA CompletesRowStep ==
  ASSUME IndInv, NEW d \in Drivers, CompletesRow(d)
  PROVE  LET id == job[d].on IN
         /\ DrivesAt(d, "finish") /\ UNCHANGED <<pool, tx, accountSeq>>
         /\ job[d].verdict \in FinalStates
         /\ \/ /\ rows[id].state = "submitted" /\ FinalTo(id, job[d].verdict)
               /\ IF rows[id].released THEN JobOver(d, job[d].verdict)
                                       ELSE JobAt(d, "free")
            \/ rows' = rows /\ IsFinal(id) /\ JobOver(d, rows[id].state)
            \/ rows' = rows /\ JobOver(d, "error")
<1> DEFINE id == job[d].on
<1>1. DrivesAt(d, "finish") /\ id \in Requests /\ job[d].verdict \in FinalStates
  BY DrivesNow DEF CompletesRow, JobSteps, DrivesAt, IndInv, JobShape, JobFits
<1>2. UNCHANGED <<pool, tx, accountSeq>>
  BY DEF CompletesRow, chain
<1>3. rows[id].state \in {"submitted"} \cup FinalStates
  BY <1>1 DEF DrivesAt, IndInv, RowShape, RowFits
<1>4. CASE /\ CanFinish(id) /\ Finish(id, job[d].verdict)
           /\ IF rows[id].released THEN JobEnds(d, job[d].verdict)
                                   ELSE JobGoes(d, "free")
  <2>1. rows[id].state = "submitted"
    BY <1>3, <1>4 DEF CanFinish, FinalStates
  <2> QED BY <1>1, <1>2, <1>4, <2>1, FinishRow, JobEndsWith, JobGoesTo DEF FinalTo
<1>5. CASE ~CanFinish(id) /\ JobEnds(d, rows[id].state) /\ rows' = rows
  <2>1. IsFinal(id)
    BY <1>3, <1>5 DEF CanFinish, IsFinal
  <2> QED BY <1>1, <1>2, <1>5, <2>1, JobEndsWith
<1>6. CASE JobEnds(d, "error") /\ rows' = rows
  BY <1>1, <1>2, <1>6, JobEndsWith
<1> QED BY <1>4, <1>5, <1>6 DEF CompletesRow

LEMMA FreesChannelStep ==
  ASSUME IndInv, NEW d \in Drivers, FreesChannel(d)
  PROVE  LET id == job[d].on IN
         /\ DrivesAt(d, "free") /\ UNCHANGED <<rows, tx, accountSeq>> /\ IsFinal(id)
         /\ \/ ReturnsChannel(Channel(id), job[d].mark) /\ JobOver(d, rows[id].state)
            \/ pool' = pool /\ JobOver(d, "error")
<1>1. /\ DrivesAt(d, "free") /\ UNCHANGED <<rows, tx, accountSeq>>
      /\ IsFinal(job[d].on)
  BY DrivesNow DEF FreesChannel, JobSteps, chain, DrivesAt, IndInv, JobShape, JobFits
<1> QED BY <1>1, JobEndsWith DEF FreesChannel

LEMMA StartsReconcileStep ==
  ASSUME IndInv, NEW p \in Replicas, StartsReconcile(p)
  PROVE  /\ UNCHANGED <<rows, pool, run, tx, accountSeq>>
         /\ p \in Drivers /\ p \notin Requests /\ job[p].at = "idle"
         /\ \E id \in Requests : /\ rows[id].state = "submitted" /\ tx[id] # "none"
                                 /\ LooksTo(p, id)
<1>1. UNCHANGED <<rows, pool, run, tx, accountSeq>> /\ job[p].at = "idle"
  BY DEF StartsReconcile, network
<1>2. p \in Drivers /\ p \notin Requests
  BY LedgerAssumption DEF Drivers
<1>3. PICK id \in Requests : /\ rows[id].state = "submitted"
                             /\ job' = [job EXCEPT ![p] = LooksFrom(id)]
  BY DEF StartsReconcile
<1>4. tx[id] # "none"
  BY <1>3 DEF IndInv, RowShape, RowFits
<1>5. LooksTo(p, id)
  BY <1>2, <1>3, LooksFromTo
<1> QED BY <1>1, <1>2, <1>3, <1>4, <1>5

-----------------------------------------------------------------------------
(* The network, clocks and crashes                                          *)

LEMMA NetworkStepTo ==
  ASSUME IndInv, NetworkStep
  PROVE  /\ UNCHANGED <<rows, pool, run, job>>
         /\ \/ \E id \in Requests :
                 /\ tx[id] = "queued" /\ accountSeq[Channel(id)] + 1 = Sequence(id)
                 /\ TxTo(id, "ok") \/ TxTo(id, "bad")
                 /\ accountSeq' = [accountSeq EXCEPT ![Channel(id)] = Sequence(id)]
            \/ \E id \in Requests :
                 /\ tx[id] \in {"signed", "doomed", "queued"} /\ ~IsFinal(id)
                 /\ TxTo(id, "dead") /\ UNCHANGED accountSeq
            \/ \E c \in Channels :
                 /\ tx' = tx /\ accountSeq' = [accountSeq EXCEPT ![c] = @ + 1]
<1>1. UNCHANGED <<rows, pool, run, job>>
  BY DEF NetworkStep, IncludesTransaction, PassesBounds, UsesChannelAccount
<1>2. tx \in [Requests -> TxStates]
  BY DEF IndInv, TypeOK
<1>3. ASSUME NEW id \in Requests, IncludesTransaction(id)
      PROVE  /\ tx[id] = "queued" /\ accountSeq[Channel(id)] + 1 = Sequence(id)
             /\ TxTo(id, "ok") \/ TxTo(id, "bad")
             /\ accountSeq' = [accountSeq EXCEPT ![Channel(id)] = Sequence(id)]
  BY <1>2, <1>3 DEF IncludesTransaction, TxTo
<1>4. ASSUME NEW id \in Requests, PassesBounds(id)
      PROVE  /\ tx[id] \in {"signed", "doomed", "queued"} /\ ~IsFinal(id)
             /\ TxTo(id, "dead") /\ UNCHANGED accountSeq
  BY <1>2, <1>4 DEF PassesBounds, TxTo
<1> QED BY <1>1, <1>3, <1>4 DEF NetworkStep, UsesChannelAccount

\* A claim becomes stale, or the pool's clock runs.
LEMMA ClockStepTo ==
  ASSUME IndInv, ClockStep
  PROVE  /\ UNCHANGED <<run, job, tx, accountSeq>>
         /\ \/ /\ pool' = pool
               /\ \E id \in Requests :
                    SendsTo(id, rows[id].accepted, rows[id].sends)
            \/ rows' = rows /\ \E c \in Channels : CooldownEnds(c) \/ LeaseLapses(c)
<1>1. ASSUME NEW id \in Requests, ClaimLapses(id)
      PROVE  /\ UNCHANGED <<run, job, tx, accountSeq>> /\ pool' = pool
             /\ SendsTo(id, rows[id].accepted, rows[id].sends)
  <2> DEFINE x == [rows[id] EXCEPT !.stale = TRUE]
  <2>1. rows[id] \in Row /\ rows \in [Requests -> Row]
    BY DEF IndInv, TypeOK
  <2>2. /\ x.state = rows[id].state /\ x.owner = rows[id].owner
        /\ x.channel = rows[id].channel /\ x.seq = rows[id].seq
        /\ x.accepted = rows[id].accepted /\ x.sends = rows[id].sends
        /\ x.released = rows[id].released
    BY <2>1 DEF Row
  <2>3. rows' = [rows EXCEPT ![id] = x]
    BY <1>1 DEF ClaimLapses, ClaimExpires
  <2> HIDE DEF x
  <2>4. UNCHANGED <<run, job, tx, accountSeq>> /\ pool' = pool
    BY <1>1 DEF ClaimLapses, network
  <2>5. SendsTo(id, rows[id].accepted, rows[id].sends)
    BY <2>1, <2>2, <2>3 DEF SendsTo, RowTo
  <2> QED BY <2>4, <2>5
<1>2. ASSUME NEW c \in Channels, CooldownPasses(c) \/ LeaseLapses(c)
      PROVE  /\ UNCHANGED <<run, job, tx, accountSeq>> /\ rows' = rows
             /\ CooldownEnds(c) \/ LeaseLapses(c)
  BY <1>2 DEF CooldownPasses, LeaseLapses, network
<1> QED BY <1>1, <1>2 DEF ClockStep

\* The threads and jobs of one replica, as a crash leaves them.
CrashedRun(p, r) ==
  \/ run'[r] = run[r]
  \/ /\ run'[r].pc = "dead" /\ run'[r].rec = None /\ run'[r].chan = None
     /\ run'[r].closed = FALSE /\ run'[r].signer = "off" /\ run'[r].raced = "none"
     /\ run'[r].answer = "none" /\ run[r].pc \notin {"start", "done"}
  \/ /\ run'[r].pc = "done" /\ run'[r].rec = None /\ run'[r].chan = None
     /\ run'[r].closed = FALSE /\ run'[r].signer = "off" /\ run'[r].raced = "none"
     /\ run'[r].answer = run[r].answer /\ run[r].pc \in {"start", "done"}
     /\ Submitting(r)

CrashedJob(d) == job'[d] = job[d] \/ job'[d] = NoJob

LEMMA CrashesStep ==
  ASSUME IndInv, NEW p \in Replicas, Crashes(p)
  PROVE  /\ UNCHANGED <<pool, tx, accountSeq>>
         /\ \A r \in Requests : CrashedRun(p, r)
         /\ \A d \in Drivers : CrashedJob(d)
         /\ \A r \in Requests :
              job'[r] = job[r] \/ run'[r].pc = "dead"
         /\ \A r \in Requests : run'[r].pc = "dead" => run'[r] = run[r] \/ job'[r] = NoJob
         /\ \A id \in Requests :
              /\ rows'[id].state = rows[id].state /\ rows'[id].owner = rows[id].owner
              /\ rows'[id].channel = rows[id].channel /\ rows'[id].seq = rows[id].seq
              /\ rows'[id].accepted = rows[id].accepted
              /\ rows'[id].released = rows[id].released
              /\ LostSend \in rows[id].sends => LostSend \in rows'[id].sends
              /\ FirstSend \in rows[id].sends => FirstSend \in rows'[id].sends
              /\ \A d \in Drivers :
                   d \in rows[id].sends =>
                     \/ d \in rows'[id].sends /\ (job[d].at \in {"send", "reply"} => job'[d] = job[d])
                     \/ LostSend \in rows'[id].sends /\ job'[d] = NoJob
<1> DEFINE dies == {r \in Requests : ReplicaOf[r] = p /\ run[r].pc \notin {"start", "done"}}
           sending == {d \in dies \cup {p} : job[d].at \in {"send", "reply"}}
<1>1. UNCHANGED <<pool, tx, accountSeq>>
  BY DEF Crashes
<1>2. /\ run' = [r \in Requests |->
                   IF r \in dies THEN [NoRun EXCEPT !.pc = "dead"]
                   ELSE IF ReplicaOf[r] = p /\ Submitting(r) THEN Ended(run[r].answer)
                   ELSE run[r]]
      /\ job' = [d \in Drivers |-> IF d \in dies \cup {p} THEN NoJob ELSE job[d]]
      /\ rows' = [id \in Requests |->
                    [rows[id] EXCEPT !.sends =
                       IF @ \cap sending = {} THEN @ ELSE (@ \ sending) \cup {LostSend}]]
  BY DEF Crashes
<1>3. ASSUME NEW r \in Requests
      PROVE  /\ CrashedRun(p, r)
             /\ r \in dies => run'[r].pc = "dead"
             /\ r \notin dies => run'[r] = run[r] \/ run'[r].pc = "done"
  <2>1. CASE r \in dies
    <3>1. run'[r] = [NoRun EXCEPT !.pc = "dead"]
      BY <1>2, <2>1
    <3>2. /\ run'[r].pc = "dead" /\ run'[r].rec = None /\ run'[r].chan = None
          /\ run'[r].closed = FALSE /\ run'[r].signer = "off" /\ run'[r].raced = "none"
          /\ run'[r].answer = "none"
      BY <3>1 DEF NoRun
    <3> QED BY <2>1, <3>2 DEF CrashedRun
  <2>2. CASE r \notin dies /\ ReplicaOf[r] = p /\ Submitting(r)
    <3>1. run'[r] = Ended(run[r].answer)
      BY <1>2, <2>2
    <3>2. run[r].pc \in {"start", "done"}
      BY <2>2
    <3>3. /\ run'[r].pc = "done" /\ run'[r].rec = None /\ run'[r].chan = None
          /\ run'[r].closed = FALSE /\ run'[r].signer = "off" /\ run'[r].raced = "none"
          /\ run'[r].answer = run[r].answer
      BY <3>1 DEF Ended, NoRun
    <3>4. CrashedRun(p, r)
      BY <2>2, <3>2, <3>3, Zenon DEF CrashedRun
    <3> QED BY <2>2, <3>3, <3>4
  <2>3. CASE r \notin dies /\ ~(ReplicaOf[r] = p /\ Submitting(r))
    <3>1. run'[r] = run[r]
      BY <1>2, <2>3
    <3> QED BY <2>3, <3>1 DEF CrashedRun
  <2> QED BY <2>1, <2>2, <2>3
<1>4. \A d \in Drivers : IF d \in dies \cup {p} THEN job'[d] = NoJob ELSE job'[d] = job[d]
  BY <1>2
<1>6. ASSUME NEW id \in Requests
      PROVE  /\ rows'[id].state = rows[id].state /\ rows'[id].owner = rows[id].owner
             /\ rows'[id].channel = rows[id].channel /\ rows'[id].seq = rows[id].seq
             /\ rows'[id].accepted = rows[id].accepted
             /\ rows'[id].released = rows[id].released
             /\ rows'[id].sends = IF rows[id].sends \cap sending = {} THEN rows[id].sends
                                  ELSE (rows[id].sends \ sending) \cup {LostSend}
  <2> DEFINE T == IF rows[id].sends \cap sending = {} THEN rows[id].sends
                  ELSE (rows[id].sends \ sending) \cup {LostSend}
             x == [rows[id] EXCEPT !.sends = T]
  <2>1. rows[id] \in Row
    BY DEF IndInv, TypeOK
  <2>2. rows'[id] = x
    BY <1>2
  <2> HIDE DEF T, sending, dies
  <2>3. /\ x.state = rows[id].state /\ x.owner = rows[id].owner
        /\ x.channel = rows[id].channel /\ x.seq = rows[id].seq
        /\ x.accepted = rows[id].accepted /\ x.sends = T
        /\ x.released = rows[id].released
    BY <2>1 DEF Row
  <2> HIDE DEF x
  <2>4. T = IF rows[id].sends \cap sending = {} THEN rows[id].sends
            ELSE (rows[id].sends \ sending) \cup {LostSend}
    BY DEF T
  <2> QED BY <2>2, <2>3, <2>4
<1>7. sending \subseteq Drivers /\ FirstSend \notin sending /\ LostSend \notin sending
  BY LedgerAssumption DEF Drivers
<1>8. ASSUME NEW id \in Requests
      PROVE  /\ LostSend \in rows[id].sends => LostSend \in rows'[id].sends
             /\ FirstSend \in rows[id].sends => FirstSend \in rows'[id].sends
             /\ \A d \in Drivers :
                   d \in rows[id].sends =>
                     \/ d \in rows'[id].sends /\ (job[d].at \in {"send", "reply"} => job'[d] = job[d])
                     \/ LostSend \in rows'[id].sends /\ job'[d] = NoJob
  BY <1>4, <1>6, <1>7
<1>9. ASSUME NEW r \in Requests
      PROVE  /\ job'[r] = job[r] \/ run'[r].pc = "dead"
             /\ run'[r].pc = "dead" => run'[r] = run[r] \/ job'[r] = NoJob
  <2>1. r \in Drivers /\ r # p
    BY LedgerAssumption DEF Drivers
  <2>2. CASE r \in dies
    <3>1. job'[r] = NoJob
      BY <1>4, <2>1, <2>2
    <3> QED BY <1>3, <2>2, <3>1
  <2>3. CASE r \notin dies
    <3>1. job'[r] = job[r]
      BY <1>4, <2>1, <2>3
    <3>2. run'[r] = run[r] \/ run'[r].pc = "done"
      BY <1>3, <2>3
    <3> QED BY <3>1, <3>2
  <2> QED BY <2>2, <2>3
<1>10. \A d \in Drivers : CrashedJob(d)
  BY <1>4 DEF CrashedJob
<1>11. \A r \in Requests : CrashedRun(p, r)
  BY <1>3
<1> HIDE DEF dies, sending
<1> QED BY <1>1, <1>6, <1>8, <1>9, <1>10, <1>11
=============================================================================
