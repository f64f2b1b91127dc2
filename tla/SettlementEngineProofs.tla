------------------------ MODULE SettlementEngineProofs ------------------------
(***************************************************************************)
(* Proofs about SettlementEngine, for every number of requests, replicas,   *)
(* channels, faults and foreign transactions.  IndInv is inductive; TypeOK  *)
(* and OneTransactionPerKey follow from it.                                 *)
(*                                                                         *)
(* IndInv falls into the part about the threads (run, job, driving), the    *)
(* part about the ledger (rows, tx) and the types of the rest.  What an     *)
(* action does to each part is proved by the lemmas on the operators it is  *)
(* built from, and put together in one lemma per action.                    *)
(***************************************************************************)
EXTENDS SettlementEngine, TLAPS

RunOK == run \in [Requests -> Run] /\ RunShape
JobOK == job \in [Drivers -> Job] /\ JobShape
DrivingOK == driving \in [Replicas -> SUBSET Requests]
ThreadsOK == RunOK /\ JobOK /\ DrivingOK

LedgerOK == /\ rows \in [Requests -> Row]
            /\ tx \in [Requests -> TxStates]
            /\ RowShape
            /\ OneRowPerKey

PoolOK == pool \in [Channels -> Slot]
NetworkOK == /\ accountSeq \in [Channels -> Nat]
             /\ faults \in [failures : Nat, foreign : Nat]

\* IndInv, part by part.
LEMMA Parts == IndInv <=> ThreadsOK /\ LedgerOK /\ PoolOK /\ NetworkOK
BY DEF IndInv, TypeOK, ThreadsOK, RunOK, JobOK, DrivingOK, LedgerOK, PoolOK, NetworkOK

LEMMA Assembled ==
  ASSUME RunOK', JobOK', DrivingOK', LedgerOK', PoolOK', NetworkOK'
  PROVE  IndInv'
BY DEF IndInv, TypeOK, RunOK, JobOK, DrivingOK, LedgerOK, PoolOK, NetworkOK

\* What a step never takes back: a recorded transaction and a final state.
Kept == \A id \in Requests :
          /\ tx[id] # "none" => tx'[id] # "none"
          /\ IsFinal(id) => IsFinal(id)'

LEMMA Blank ==
  /\ NoRow \in Row /\ NoRow.state = "absent" /\ NoRow.channel = None
  /\ NoRun \in Run /\ NoRun.pc = "start" /\ NoRun.signer = "off"
  /\ NoJob \in Job /\ NoJob.at = "idle" /\ NoJob.verdict = "none"
BY DEF NoRow, Row, States, NoRun, Run, RunPcs, SignerSteps, RaceResults, Answers,
       NoJob, Job, JobSteps, Replies

-----------------------------------------------------------------------------
(* Threads                                                                  *)

LEMMA EndedFits ==
  ASSUME NEW r \in Requests, NEW a \in Answers
  PROVE  /\ Ended(a) \in Run /\ RunFits(r, Ended(a))
         /\ Ended(a).pc = "done" /\ Ended(a).signer = "off"
<1>1. Ended(a) \in Run /\ Ended(a).pc = "done" /\ Ended(a).signer = "off"
  BY Blank DEF Ended, Run, RunPcs
<1> QED BY <1>1 DEF RunFits, OnChainPcs, OffChainPcs, SubmittingSteps

\* One request moves to a record that fits.
LEMMA RunMoves ==
  ASSUME RunOK, NEW r \in Requests, NEW v \in Run, RunFits(r, v),
         run' = [run EXCEPT ![r] = v]
  PROVE  /\ RunOK'
         /\ run'[r] = v
         /\ \A q \in Requests : q # r => run'[q] = run[q]
<1>1. /\ run' \in [Requests -> Run]
      /\ run'[r] = v
      /\ \A q \in Requests : q # r => run'[q] = run[q]
  BY DEF RunOK
<1>2. \A q \in Requests : RunFits(q, v)' <=> RunFits(q, v)
  BY DEF RunFits
<1>3. \A q \in Requests : RunFits(q, run'[q])
  BY <1>1 DEF RunOK, RunShape
<1>4. RunShape'
  BY <1>3 DEF RunShape, RunFits
<1> QED BY <1>1, <1>4 DEF RunOK

LEMMA JobMoves ==
  ASSUME JobOK, Kept, NEW d \in Drivers, NEW w \in Job, JobFits(w)',
         job' = [job EXCEPT ![d] = w],
         \A r \in Requests :
           run'[r].pc = "answer" => IF r = d THEN w.at = "look"
                                             ELSE run[r].pc = "answer"
  PROVE  JobOK'
<1>1. /\ job' \in [Drivers -> Job]
      /\ job'[d] = w
      /\ \A q \in Drivers : q # d => job'[q] = job[q]
  BY DEF JobOK
<1>2. ASSUME NEW q \in Drivers, q # d
      PROVE  JobFits(job[q])'
  BY <1>1, <1>2 DEF JobOK, JobShape, JobFits, Kept
<1>3. \A q \in Drivers : JobFits(job[q])'
  BY <1>1, <1>2 DEF JobFits
<1>4. JobShape'
  BY <1>1, <1>3 DEF JobOK, JobShape, Drivers
<1> QED BY <1>1, <1>4 DEF JobOK

\* Jobs stay as they are while requests and the ledger move.
LEMMA JobsStay ==
  ASSUME JobOK, Kept, job' = job,
         \A r \in Requests : run'[r].pc = "answer" => run[r].pc = "answer"
  PROVE  JobOK'
BY DEF JobOK, JobShape, JobFits, Kept

\* The request ends, with its submission still under way or not.
LEMMA EndsMoves ==
  ASSUME RunOK, DrivingOK, NEW r \in Requests, NEW a \in Answers, Ends(r, a)
  PROVE  /\ RunOK' /\ DrivingOK'
         /\ run'[r].pc = "done"
         /\ \A q \in Requests : q # r => run'[q] = run[q]
<1> DEFINE kept == [run[r] EXCEPT !.pc = "done", !.answer = a]
           v == IF Submitting(r) THEN kept ELSE Ended(a)
<1>1. run[r] \in Run /\ RunFits(r, run[r])
  BY DEF RunOK, RunShape
<1>2. /\ kept \in Run /\ kept.pc = "done"
      /\ kept.signer = run[r].signer /\ kept.rec = run[r].rec /\ kept.chan = run[r].chan
  BY <1>1 DEF Run, RunPcs
<1>3. RunFits(r, kept)
  BY <1>1, <1>2 DEF RunFits, OnChainPcs, OffChainPcs
<1>4. v \in Run /\ RunFits(r, v) /\ v.pc = "done"
  BY <1>2, <1>3, EndedFits
<1>5. run' = [run EXCEPT ![r] = v]
  BY DEF Ends
<1> HIDE DEF v
<1>6. DrivingOK'
  BY DEF Ends, DrivingOK
<1> QED BY <1>4, <1>5, <1>6, RunMoves

-----------------------------------------------------------------------------
(* The ledger                                                               *)

LEMMA LedgerStays ==
  ASSUME LedgerOK, rows' = rows, tx' = tx
  PROVE  LedgerOK' /\ Kept
BY DEF LedgerOK, Kept, RowShape, RowFits, OneRowPerKey, Exists, IsFinal

\* One row, and its transaction with it, moves to a row that fits.
LEMMA RowMoves ==
  ASSUME LedgerOK, NEW id \in Requests, NEW x \in Row, NEW t \in TxStates,
         rows' = [rows EXCEPT ![id] = x], tx' = [tx EXCEPT ![id] = t],
         RowFits(x, t),
         tx[id] # "none" => t # "none",
         IsFinal(id) => x.state \in FinalStates,
         x.state # "absent" =>
           \A i \in Requests : Exists(i) /\ KeyOf[i] = KeyOf[id] => i = id
  PROVE  LedgerOK' /\ Kept
<1>1. /\ rows' \in [Requests -> Row] /\ rows'[id] = x
      /\ \A i \in Requests : i # id => rows'[i] = rows[i]
  BY DEF LedgerOK
<1>2. /\ tx' \in [Requests -> TxStates] /\ tx'[id] = t
      /\ \A i \in Requests : i # id => tx'[i] = tx[i]
  BY DEF LedgerOK
<1>3. \A i \in Requests : RowFits(rows'[i], tx'[i])
  BY <1>1, <1>2 DEF LedgerOK, RowShape
<1>4. RowShape'
  BY <1>3 DEF RowShape, RowFits
<1>5. OneRowPerKey'
  BY <1>1 DEF LedgerOK, OneRowPerKey, Exists
<1>6. Kept
  BY <1>1, <1>2 DEF Kept, IsFinal
<1> QED BY <1>1, <1>2, <1>4, <1>5, <1>6 DEF LedgerOK

\* The usual case: the row stays in its state, with its owner and channel.
LEMMA RowStays ==
  ASSUME LedgerOK, NEW id \in Requests, NEW x \in Row,
         rows' = [rows EXCEPT ![id] = x], tx' = tx,
         x.state = rows[id].state, x.owner = rows[id].owner,
         x.channel = rows[id].channel
  PROVE  LedgerOK' /\ Kept
<1>1. tx[id] \in TxStates /\ tx' = [tx EXCEPT ![id] = tx[id]]
  BY DEF LedgerOK
<1>2. RowFits(x, tx[id])
  BY DEF LedgerOK, RowShape, RowFits, IsFinal
<1>3. x.state # "absent" =>
        \A i \in Requests : Exists(i) /\ KeyOf[i] = KeyOf[id] => i = id
  BY DEF LedgerOK, OneRowPerKey, Exists
<1> QED BY <1>1, <1>2, <1>3, RowMoves DEF IsFinal

\* The network decides about recorded transactions only.
LEMMA TxMoves ==
  ASSUME LedgerOK, NEW id \in Requests, NEW t \in TxStates \ {"none"},
         rows' = rows, tx' = [tx EXCEPT ![id] = t], tx[id] # "none"
  PROVE  LedgerOK' /\ Kept
<1>1. rows[id] \in Row /\ rows' = [rows EXCEPT ![id] = rows[id]]
  BY DEF LedgerOK
<1>2. RowFits(rows[id], t)
  BY DEF LedgerOK, RowShape, RowFits
<1>3. \A i \in Requests : Exists(id) /\ Exists(i) /\ KeyOf[i] = KeyOf[id] => i = id
  BY DEF LedgerOK, OneRowPerKey
<1> QED BY <1>1, <1>2, <1>3, RowMoves DEF Exists, IsFinal

LEMMA AbandonKeeps ==
  ASSUME LedgerOK, NEW id \in Requests, NEW owner, Abandon(id, owner), tx' = tx
  PROVE  LedgerOK' /\ Kept
<1>1. CASE OwnsClaim(id, owner)
  <2>1. rows' = [rows EXCEPT ![id] = NoRow] /\ tx' = [tx EXCEPT ![id] = tx[id]]
    BY <1>1 DEF Abandon, LedgerOK
  <2>2. tx[id] = "none" /\ ~IsFinal(id)
    BY <1>1 DEF LedgerOK, RowShape, RowFits, OwnsClaim, IsFinal, FinalStates
  <2>3. RowFits(NoRow, tx[id])
    BY <2>2, Blank DEF RowFits, FinalStates
  <2> QED BY <2>1, <2>2, <2>3, Blank, RowMoves DEF TxStates
<1>2. CASE ~OwnsClaim(id, owner)
  BY <1>2, LedgerStays DEF Abandon
<1> QED BY <1>1, <1>2

\* Statements about sends and the channel leave the rest of the row alone.
LEMMA StatementsKeep ==
  ASSUME LedgerOK, NEW id \in Requests, tx' = tx,
         \/ ReleaseChannel(id)
         \/ \E d \in Drivers \cup {FirstSend} :
              BeginSend(id, d) \/ ForgetSend(id, d) \/ \E a \in BOOLEAN : EndSend(id, d, a)
  PROVE  LedgerOK' /\ Kept
<1>1. rows[id] \in Row
  BY DEF LedgerOK
<1>2. ASSUME NEW sends \in SUBSET (Drivers \cup {FirstSend, LostSend}),
             NEW a \in BOOLEAN,
             rows' = [rows EXCEPT ![id].sends = sends, ![id].accepted = a]
      PROVE  LedgerOK' /\ Kept
  <2> DEFINE x == [rows[id] EXCEPT !.sends = sends, !.accepted = a]
  <2>1. /\ x \in Row /\ x.state = rows[id].state /\ x.owner = rows[id].owner
        /\ x.channel = rows[id].channel
    BY <1>1 DEF Row
  <2>2. rows' = [rows EXCEPT ![id] = x]
    BY <1>2
  <2> HIDE DEF x
  <2> QED BY <2>1, <2>2, RowStays
<1>3. ASSUME NEW sends \in SUBSET (Drivers \cup {FirstSend, LostSend}),
             rows' = [rows EXCEPT ![id].sends = sends]
      PROVE  LedgerOK' /\ Kept
  <2> DEFINE x == [rows[id] EXCEPT !.sends = sends]
  <2>1. /\ x \in Row /\ x.state = rows[id].state /\ x.owner = rows[id].owner
        /\ x.channel = rows[id].channel
    BY <1>1 DEF Row
  <2>2. rows' = [rows EXCEPT ![id] = x]
    BY <1>3
  <2> HIDE DEF x
  <2> QED BY <2>1, <2>2, RowStays
<1>4. CASE ReleaseChannel(id)
  <2> DEFINE x == [rows[id] EXCEPT !.released = TRUE]
  <2>1. /\ x \in Row /\ x.state = rows[id].state /\ x.owner = rows[id].owner
        /\ x.channel = rows[id].channel
    BY <1>1 DEF Row
  <2>2. rows' = [rows EXCEPT ![id] = x]
    BY <1>4 DEF ReleaseChannel
  <2> HIDE DEF x
  <2> QED BY <2>1, <2>2, RowStays
<1>5. ASSUME NEW d \in Drivers \cup {FirstSend},
             BeginSend(id, d) \/ ForgetSend(id, d) \/ \E a \in BOOLEAN : EndSend(id, d, a)
      PROVE  LedgerOK' /\ Kept
  <2>1. /\ rows[id].sends \subseteq Drivers \cup {FirstSend, LostSend}
        /\ rows[id].accepted \in BOOLEAN
    BY <1>1 DEF Row
  <2>2. CASE BeginSend(id, d)
    <3> DEFINE T == rows[id].sends \cup {d}
    <3>1. T \in SUBSET (Drivers \cup {FirstSend, LostSend})
      BY <2>1
    <3>2. rows' = [rows EXCEPT ![id].sends = T]
      BY <2>2 DEF BeginSend
    <3> HIDE DEF T
    <3> QED BY <1>3, <3>1, <3>2
  <2>3. CASE ForgetSend(id, d)
    <3> DEFINE S == rows[id].sends
               T == IF d \in S THEN (S \ {d}) \cup {LostSend} ELSE S
    <3>1. T \in SUBSET (Drivers \cup {FirstSend, LostSend})
      BY <2>1
    <3>2. rows' = [rows EXCEPT ![id].sends = T]
      BY <2>3 DEF ForgetSend
    <3> HIDE DEF T
    <3> QED BY <1>3, <3>1, <3>2
  <2>4. ASSUME NEW a \in BOOLEAN, EndSend(id, d, a)
        PROVE  LedgerOK' /\ Kept
    BY <1>2, <2>1, <2>4 DEF EndSend
  <2> QED BY <1>5, <2>2, <2>3, <2>4
<1> QED BY <1>4, <1>5

-----------------------------------------------------------------------------
(* The pool                                                                 *)

LEMMA PoolMoves ==
  ASSUME PoolOK, NEW c,
         \/ Acquire(c) \/ Release(c) \/ TakeQuarantineSequence(c)
         \/ CooldownEnds(c) \/ LeaseExpires(c)
         \/ \E n \in Nat : Quarantine(c, n)
  PROVE  PoolOK'
<1>1. CASE Acquire(c)
  BY <1>1 DEF PoolOK, Acquire, Slot
<1>2. CASE Release(c)
  <2>1. FreeSlot \in Slot
    BY DEF FreeSlot, Slot
  <2> QED BY <1>2, <2>1 DEF PoolOK, Release
<1>3. CASE TakeQuarantineSequence(c)
  BY <1>3 DEF PoolOK, TakeQuarantineSequence, Slot
<1>4. CASE CooldownEnds(c)
  BY <1>4 DEF PoolOK, CooldownEnds, Slot
<1>5. CASE LeaseExpires(c)
  BY <1>5 DEF PoolOK, LeaseExpires, Slot
<1>6. CASE \E n \in Nat : Quarantine(c, n)
  <2>1. PICK n \in Nat : Quarantine(c, n)
    BY <1>6
  <2>2. [FreeSlot EXCEPT !.cooling = TRUE, !.mark = n] \in Slot
    BY DEF FreeSlot, Slot
  <2> QED BY <2>1, <2>2 DEF PoolOK, Quarantine
<1> QED BY <1>1, <1>2, <1>3, <1>4, <1>5, <1>6

-----------------------------------------------------------------------------
(* Requests                                                                 *)

\* A request moves to a record that fits, and its job does not follow.
Steps(r) ==
  \E v \in Run : /\ RunFits(r, v)
                 /\ v.pc = "answer" => run[r].pc = "answer"
                 /\ run' = [run EXCEPT ![r] = v]

LEMMA RequestMoves ==
  ASSUME IndInv, LedgerOK', Kept, PoolOK', NetworkOK', DrivingOK', job' = job,
         NEW r \in Requests, Steps(r)
  PROVE  IndInv'
<1>1. PICK v \in Run : /\ RunFits(r, v)
                       /\ v.pc = "answer" => run[r].pc = "answer"
                       /\ run' = [run EXCEPT ![r] = v]
  BY DEF Steps
<1>2. /\ RunOK'
      /\ \A q \in Requests : run'[q].pc = "answer" => run[q].pc = "answer"
  BY <1>1, RunMoves, Parts DEF ThreadsOK
<1>3. JobOK'
  BY <1>2, JobsStay, Parts DEF ThreadsOK
<1> QED BY <1>2, <1>3, Assembled

LEMMA RequestEnds ==
  ASSUME IndInv, LedgerOK', Kept, PoolOK', NetworkOK', job' = job,
         NEW r \in Requests, NEW a \in Answers, Ends(r, a)
  PROVE  IndInv'
<1>1. /\ RunOK' /\ DrivingOK'
      /\ \A q \in Requests : run'[q].pc = "answer" => run[q].pc = "answer"
  BY EndsMoves, Parts DEF ThreadsOK
<1>2. JobOK'
  BY <1>1, JobsStay, Parts DEF ThreadsOK
<1> QED BY <1>1, <1>2, Assembled

\* What an action leaves alone stays as it should be.
LEMMA RestStays ==
  ASSUME IndInv
  PROVE  /\ UNCHANGED <<rows, tx>> => LedgerOK' /\ Kept
         /\ UNCHANGED pool => PoolOK'
         /\ UNCHANGED driving => DrivingOK'
         /\ UNCHANGED accountSeq /\ (Failure \/ UNCHANGED faults) => NetworkOK'
<1>1. IndInv => LedgerOK /\ PoolOK /\ DrivingOK /\ NetworkOK
  BY Parts DEF ThreadsOK
<1>2. UNCHANGED <<rows, tx>> => LedgerOK' /\ Kept
  BY <1>1, LedgerStays
<1>3. UNCHANGED pool => PoolOK'
  BY <1>1 DEF PoolOK
<1>4. UNCHANGED driving => DrivingOK'
  BY <1>1 DEF DrivingOK
<1>5. UNCHANGED accountSeq /\ (Failure \/ UNCHANGED faults) => NetworkOK'
  BY <1>1 DEF NetworkOK, Failure
<1> QED BY <1>2, <1>3, <1>4, <1>5

\* A request that goes on keeps its row, its channel and its submission.
LEMMA GoesSteps ==
  ASSUME IndInv, NEW r \in Requests, NEW pc \in RunPcs, Goes(r, pc),
         pc \notin {"answer", "check", "requarantine"},
         pc \notin {"start", "done", "dead"} => run[r].rec \in Requests,
         pc \in {"start", "repeat", "lease", "unleased"} \cup OffChainPcs =>
           run[r].signer = "off",
         pc \in OnChainPcs => r \notin OffChain,
         pc \in OffChainPcs => r \in OffChain
  PROVE  Steps(r)
<1> DEFINE v == [run[r] EXCEPT !.pc = pc]
<1>1. run[r] \in Run /\ RunFits(r, run[r])
  BY DEF IndInv, TypeOK, RunShape
<1>2. /\ v \in Run /\ v.pc = pc /\ v.signer = run[r].signer
      /\ v.rec = run[r].rec /\ v.chan = run[r].chan
  BY <1>1 DEF Run
<1>3. RunFits(r, v)
  BY <1>1, <1>2 DEF RunFits
<1>4. run' = [run EXCEPT ![r] = v]
  BY DEF Goes
<1> HIDE DEF v
<1> QED BY <1>2, <1>3, <1>4 DEF Steps

\* What RunShape says of a request, where it is now.
LEMMA Here ==
  ASSUME IndInv, NEW r \in Requests
  PROVE  run[r] \in Run /\ RunFits(r, run[r])
BY DEF IndInv, TypeOK, RunShape

LEMMA ClaimsKeeps ==
  ASSUME IndInv, NEW r \in Requests, Claims(r)
  PROVE  IndInv'
<1> USE LedgerAssumption
<1>1. PICK id \in Requests :
        /\ \/ ClaimInserts(r) /\ id = r
           \/ ClaimTakesOver(r, id)
        /\ Claimed(r, id)
  BY DEF Claims
<1>2. LedgerOK' /\ Kept
  <2>1. tx' = [tx EXCEPT ![id] = tx[id]] /\ tx[id] \in TxStates /\ LedgerOK /\ rows[id] \in Row
    BY Parts DEF LedgerOK, Claims, network
  <2>2. CASE ClaimInserts(r) /\ id = r
    <3> DEFINE x == [NoRow EXCEPT !.state = "claimed", !.owner = r]
    <3>1. x \in Row /\ x.state = "claimed"
      BY Blank DEF Row, States
    <3>2. tx[r] = "none" /\ ~IsFinal(r)
      BY <2>2 DEF IndInv, RowShape, RowFits, ClaimInserts, Find, Exists, IsFinal, FinalStates
    <3>3. \A i \in Requests : Exists(i) /\ KeyOf[i] = KeyOf[r] => i = r
      BY <2>2 DEF ClaimInserts, Find
    <3>4. RowFits(x, tx[r])
      BY <3>1, <3>2 DEF RowFits, FinalStates
    <3>5. rows' = [rows EXCEPT ![r] = x]
      BY <2>2 DEF ClaimInserts
    <3> HIDE DEF x
    <3> QED BY <2>1, <2>2, <3>1, <3>2, <3>3, <3>4, <3>5, RowMoves
  <2>3. CASE ClaimTakesOver(r, id)
    <3> DEFINE x == [rows[id] EXCEPT !.owner = r, !.stale = FALSE]
    <3>1. x \in Row /\ x.state = "claimed" /\ rows[id].state = "claimed"
      BY <2>1, <2>3 DEF Row, ClaimTakesOver
    <3>2. tx[id] = "none" /\ ~IsFinal(id)
      BY <3>1 DEF IndInv, RowShape, RowFits, IsFinal, FinalStates
    <3>3. \A i \in Requests : Exists(i) /\ KeyOf[i] = KeyOf[id] => i = id
      BY <3>1 DEF IndInv, OneRowPerKey, Exists
    <3>4. RowFits(x, tx[id])
      BY <3>1, <3>2 DEF RowFits, FinalStates
    <3>5. rows' = [rows EXCEPT ![id] = x]
      BY <2>3 DEF ClaimTakesOver
    <3> HIDE DEF x
    <3> QED BY <2>1, <3>1, <3>2, <3>3, <3>4, <3>5, RowMoves
  <2> QED BY <1>1, <2>2, <2>3
<1>3. Steps(r)
  <2> DEFINE v == [run[r] EXCEPT !.pc = FirstStep(r), !.rec = id]
  <2>1. run[r] \in Run /\ run[r].pc = "start" /\ run[r].signer = "off"
    BY DEF IndInv, TypeOK, RunShape, RunFits, Claims
  <2>2. /\ v \in Run /\ v.pc = FirstStep(r) /\ v.rec = id /\ v.signer = "off"
    BY <2>1 DEF Run, RunPcs, FirstStep
  <2>3. RunFits(r, v)
    BY <2>2 DEF RunFits, FirstStep, OnChainPcs, OffChainPcs, SubmittingSteps
  <2>4. run' = [run EXCEPT ![r] = v]
    BY <1>1 DEF Claimed
  <2> HIDE DEF v
  <2> QED BY <2>2, <2>3, <2>4 DEF Steps, FirstStep
<1>4. DrivingOK'
  BY <1>1 DEF Claimed, DrivingOK, IndInv, TypeOK
<1> QED BY <1>2, <1>3, <1>4, RestStays, RequestMoves DEF Claims, network

LEMMA AnswersRepeatKeeps ==
  ASSUME IndInv, NEW r \in Requests, AnswersRepeat(r)
  PROVE  IndInv'
<1>1. run[r] \in Run /\ run[r].pc = "start" /\ run[r].signer = "off"
  BY DEF IndInv, TypeOK, RunShape, RunFits, AnswersRepeat
<1>2. CASE run' = [run EXCEPT ![r] = Ended("conflict")]
  <2>1. Steps(r)
    BY <1>2, EndedFits DEF Steps, Answers
  <2> QED BY <2>1, RestStays, RequestMoves DEF AnswersRepeat, network
<1>3. ASSUME NEW id \in Requests, run' = [run EXCEPT ![r].pc = "repeat", ![r].rec = id]
      PROVE  IndInv'
  <2> DEFINE v == [run[r] EXCEPT !.pc = "repeat", !.rec = id]
  <2>1. v \in Run /\ v.pc = "repeat" /\ v.rec = id /\ v.signer = "off"
    BY <1>1 DEF Run, RunPcs
  <2>2. RunFits(r, v)
    BY <2>1 DEF RunFits, OnChainPcs, OffChainPcs, SubmittingSteps
  <2>3. Steps(r)
    BY <1>3, <2>1, <2>2 DEF Steps
  <2> QED BY <2>3, RestStays, RequestMoves DEF AnswersRepeat, network
<1> QED BY <1>2, <1>3 DEF AnswersRepeat

LEMMA AwaitsExistingKeeps ==
  ASSUME IndInv, NEW r \in Requests, AwaitsExisting(r)
  PROVE  IndInv'
<1> DEFINE a == AnswerOf(run[r].rec)
<1>1. a \in Answers
  BY DEF AnswerOf, Answers, IsFinal
<1>2. LedgerOK' /\ Kept /\ PoolOK' /\ NetworkOK' /\ job' = job
  BY RestStays DEF AwaitsExisting, network
<1>3. CASE run' = [run EXCEPT ![r] = Ended(a)] /\ UNCHANGED driving
  <2>1. Steps(r)
    BY <1>1, <1>3, EndedFits DEF Steps
  <2> QED BY <1>2, <1>3, <2>1, RestStays, RequestMoves
<1>4. CASE Ends(r, a)
  BY <1>1, <1>2, <1>4, RequestEnds
<1> QED BY <1>3, <1>4 DEF AwaitsExisting

LEMMA CallThrowsKeeps ==
  ASSUME IndInv, NEW r \in Requests, CallThrows(r)
  PROVE  IndInv'
BY RestStays, RequestEnds DEF CallThrows, chain, Answers

LEMMA SettlesOffChainKeeps ==
  ASSUME IndInv, NEW r \in Requests, SettlesOffChain(r)
  PROVE  IndInv'
<1>1. run[r].pc = "offchain" /\ run[r].rec \in Requests /\ run[r].signer = "off" /\ r \in OffChain
  BY Here DEF SettlesOffChain, RunFits, OffChainPcs
<1>2. Steps(r)
  BY <1>1, GoesSteps DEF SettlesOffChain, RunPcs, OnChainPcs
<1> QED BY <1>2, RestStays, RequestMoves DEF SettlesOffChain, network

LEMMA FinishesOffChainKeeps ==
  ASSUME IndInv, NEW r \in Requests, FinishesOffChain(r)
  PROVE  IndInv'
<1> DEFINE id == run[r].rec
<1>1. id \in Requests /\ r \in OffChain
  BY Here DEF FinishesOffChain, RunFits, OffChainPcs
<1>2. PoolOK' /\ NetworkOK' /\ job' = job /\ tx' = tx
  BY RestStays DEF FinishesOffChain, network
<1>3. CASE OwnsClaim(id, r)
  <2> DEFINE x == [rows[id] EXCEPT !.state = "succeeded", !.stale = FALSE]
  <2>1. rows[id] \in Row /\ rows[id].owner = r /\ rows[id].state = "claimed"
    BY <1>1, <1>3 DEF IndInv, TypeOK, OwnsClaim
  <2>2. x \in Row /\ x.state = "succeeded" /\ x.owner = r
    BY <2>1 DEF Row, States, FinalStates
  <2>3. tx[id] = "none" /\ tx[id] \in TxStates /\ tx' = [tx EXCEPT ![id] = tx[id]]
    BY <1>1, <1>2, <2>1 DEF IndInv, TypeOK, RowShape, RowFits, FinalStates
  <2>4. RowFits(x, tx[id])
    BY <1>1, <2>2, <2>3 DEF RowFits, FinalStates
  <2>5. \A i \in Requests : Exists(i) /\ KeyOf[i] = KeyOf[id] => i = id
    BY <1>1, <2>1 DEF IndInv, OneRowPerKey, Exists
  <2>6. rows' = [rows EXCEPT ![id] = x] /\ Ends(r, "succeeded")
    BY <1>3 DEF FinishesOffChain, Finish
  <2>7. LedgerOK
    BY Parts
  <2> HIDE DEF x, id
  <2>8. LedgerOK' /\ Kept
    BY <1>1, <2>1, <2>2, <2>3, <2>4, <2>5, <2>6, <2>7, RowMoves DEF FinalStates
  <2> QED BY <1>2, <2>6, <2>8, RequestEnds DEF Answers, FinalStates
<1>4. CASE ~OwnsClaim(id, r)
  <2>1. LedgerOK' /\ Kept
    BY <1>2, <1>4, RestStays DEF FinishesOffChain
  <2>2. CASE Goes(r, "taken") /\ UNCHANGED driving
    <3>1. Steps(r)
      BY <1>1, <2>2, GoesSteps DEF RunPcs, OnChainPcs, OffChainPcs
    <3> QED BY <1>2, <2>1, <2>2, <3>1, RestStays, RequestMoves
  <2>3. CASE Ends(r, "error")
    BY <1>2, <2>1, <2>3, RequestEnds DEF Answers
  <2> QED BY <1>4, <2>2, <2>3 DEF FinishesOffChain
<1> QED BY <1>3, <1>4

LEMMA AbandonsOffChainKeeps ==
  ASSUME IndInv, NEW r \in Requests, AbandonsOffChain(r)
  PROVE  IndInv'
<1>1. run[r].rec \in Requests
  BY Here DEF AbandonsOffChain, RunFits
<1>2. LedgerOK' /\ Kept
  BY <1>1, Parts, AbandonKeeps DEF AbandonsOffChain, network
<1> QED BY <1>2, RestStays, RequestEnds DEF AbandonsOffChain, network, Answers

LEMMA AbandonsUnleasedKeeps ==
  ASSUME IndInv, NEW r \in Requests, AbandonsUnleased(r)
  PROVE  IndInv'
<1>1. run[r].rec \in Requests
  BY Here DEF AbandonsUnleased, RunFits
<1>2. LedgerOK' /\ Kept
  BY <1>1, Parts, AbandonKeeps DEF AbandonsUnleased, network
<1> QED BY <1>2, RestStays, RequestEnds DEF AbandonsUnleased, network, Answers

LEMMA LeasesChannelKeeps ==
  ASSUME IndInv, NEW r \in Requests, LeasesChannel(r)
  PROVE  IndInv'
<1>1. PICK c \in Channels :
        /\ Acquire(c)
        /\ run' = [run EXCEPT ![r].pc = "check", ![r].chan = c]
  BY DEF LeasesChannel
<1>2. Steps(r)
  <2> DEFINE v == [run[r] EXCEPT !.pc = "check", !.chan = c]
  <2>1. /\ run[r] \in Run /\ run[r].rec \in Requests
        /\ run[r].signer = "off" /\ r \notin OffChain
    BY Here DEF LeasesChannel, RunFits, OnChainPcs
  <2>2. /\ v \in Run /\ v.pc = "check" /\ v.chan = c
        /\ v.rec \in Requests /\ v.signer = "off"
    BY <2>1 DEF Run, RunPcs
  <2>3. RunFits(r, v)
    BY <2>1, <2>2 DEF RunFits, OffChainPcs, SubmittingSteps
  <2> QED BY <1>1, <2>2, <2>3 DEF Steps
<1>3. PoolOK'
  BY <1>1, Parts, PoolMoves
<1> QED BY <1>2, <1>3, RestStays, RequestMoves DEF LeasesChannel, network

LEMMA GetsNoChannelKeeps ==
  ASSUME IndInv, NEW r \in Requests, GetsNoChannel(r)
  PROVE  IndInv'
<1>1. run[r].rec \in Requests /\ run[r].signer = "off" /\ r \notin OffChain
  BY Here DEF GetsNoChannel, RunFits, OnChainPcs
<1>2. Steps(r)
  BY <1>1, GoesSteps DEF GetsNoChannel, RunPcs, OffChainPcs
<1> QED BY <1>2, RestStays, RequestMoves DEF GetsNoChannel, network

LEMMA ChecksChannelKeeps ==
  ASSUME IndInv, NEW r \in Requests, ChecksChannel(r)
  PROVE  IndInv'
<1>1. /\ run[r] \in Run /\ run[r].rec \in Requests /\ run[r].chan \in Channels
      /\ run[r].signer = "off" /\ r \notin OffChain
  BY Here DEF ChecksChannel, RunFits, OnChainPcs
<1>2. ASSUME run' = [run EXCEPT ![r].pc = "race", ![r].signer = "read"]
      PROVE  Steps(r)
  <2> DEFINE v == [run[r] EXCEPT !.pc = "race", !.signer = "read"]
  <2>1. /\ v \in Run /\ v.pc = "race" /\ v.signer = "read"
        /\ v.rec \in Requests /\ v.chan \in Channels
    BY <1>1 DEF Run, RunPcs, SignerSteps
  <2>2. RunFits(r, v)
    BY <1>1, <2>1 DEF RunFits, OffChainPcs
  <2>3. run' = [run EXCEPT ![r] = v]
    BY <1>2
  <2> HIDE DEF v
  <2> QED BY <2>1, <2>2, <2>3 DEF Steps
<1>3. ASSUME run' = [run EXCEPT ![r].pc = "requarantine",
                                ![r].seq = accountSeq[run[r].chan]]
      PROVE  Steps(r)
  <2> DEFINE v == [run[r] EXCEPT !.pc = "requarantine",
                                 !.seq = accountSeq[run[r].chan]]
  <2>1. accountSeq[run[r].chan] \in Nat
    BY <1>1 DEF IndInv, TypeOK
  <2>2. /\ v \in Run /\ v.pc = "requarantine" /\ v.signer = "off"
        /\ v.rec \in Requests /\ v.chan \in Channels
    BY <1>1, <2>1 DEF Run, RunPcs
  <2>3. RunFits(r, v)
    BY <1>1, <2>2 DEF RunFits, OffChainPcs, SubmittingSteps
  <2>4. run' = [run EXCEPT ![r] = v]
    BY <1>3
  <2> HIDE DEF v
  <2> QED BY <2>2, <2>3, <2>4 DEF Steps
<1>4. Steps(r)
  BY <1>2, <1>3, Zenon DEF ChecksChannel
<1>5. PoolOK'
  BY Parts, PoolMoves, RestStays DEF ChecksChannel
<1>6. NetworkOK'
  BY RestStays DEF ChecksChannel, chain
<1> QED BY <1>4, <1>5, <1>6, RestStays, RequestMoves DEF ChecksChannel, chain

LEMMA QuarantinesAgainKeeps ==
  ASSUME IndInv, NEW r \in Requests, QuarantinesAgain(r)
  PROVE  IndInv'
<1>1. /\ run[r] \in Run /\ run[r].rec \in Requests
      /\ run[r].signer = "off" /\ r \notin OffChain
  BY Here DEF QuarantinesAgain, RunFits, OnChainPcs
<1>2. PICK pc \in {"lease", "unleased"} :
        run' = [run EXCEPT ![r].pc = pc, ![r].chan = None, ![r].seq = 0]
  BY DEF QuarantinesAgain
<1>3. Steps(r)
  <2> DEFINE v == [run[r] EXCEPT !.pc = pc, !.chan = None, !.seq = 0]
  <2>1. /\ v \in Run /\ v.pc = pc /\ v.signer = "off" /\ v.rec \in Requests
    BY <1>1 DEF Run, RunPcs
  <2>2. RunFits(r, v)
    BY <1>1, <2>1 DEF RunFits, OffChainPcs, SubmittingSteps
  <2> QED BY <1>2, <2>1, <2>2 DEF Steps
<1>4. PoolOK'
  BY <1>1, Parts, PoolMoves DEF QuarantinesAgain, Run
<1> QED BY <1>3, <1>4, RestStays, RequestMoves DEF QuarantinesAgain, network

-----------------------------------------------------------------------------
(* The submission thread                                                    *)

\* A submission that moves on, from under way to any step.
LEMMA SignsSteps ==
  ASSUME IndInv, NEW r \in Requests, Submitting(r), NEW step \in SignerSteps,
         Signs(r, step)
  PROVE  Steps(r)
<1> DEFINE on == [run[r] EXCEPT !.signer = step]
           v == IF step = "stopped" /\ run[r].pc = "done" THEN Ended(run[r].answer) ELSE on
<1>1. /\ run[r] \in Run /\ RunFits(r, run[r]) /\ run[r].signer # "off"
      /\ run[r].answer \in Answers
  BY Here DEF Submitting, SubmittingSteps, Run
<1>2. /\ on \in Run /\ on.pc = run[r].pc /\ on.signer = step
      /\ on.rec = run[r].rec /\ on.chan = run[r].chan
  BY <1>1 DEF Run
<1>3. RunFits(r, on)
  BY <1>1, <1>2 DEF RunFits, Submitting
<1>4. v \in Run /\ RunFits(r, v) /\ v.pc = run[r].pc
  BY <1>1, <1>2, <1>3, EndedFits
<1>5. run' = [run EXCEPT ![r] = v]
  BY DEF Signs
<1> HIDE DEF v
<1> QED BY <1>4, <1>5 DEF Steps

LEMMA BuildsTransactionKeeps ==
  ASSUME IndInv, NEW r \in Requests, BuildsTransaction(r)
  PROVE  IndInv'
<1> DEFINE v == [run[r] EXCEPT !.signer = "built",
                               !.seq = accountSeq[run[r].chan] + 1]
<1>1. /\ run[r] \in Run /\ RunFits(r, run[r]) /\ run[r].signer = "read"
      /\ run[r].chan \in Channels
  BY Here DEF BuildsTransaction, RunFits, SubmittingSteps
<1>2. accountSeq[run[r].chan] + 1 \in Nat
  BY <1>1 DEF IndInv, TypeOK
<1>3. /\ v \in Run /\ v.pc = run[r].pc /\ v.signer = "built"
      /\ v.rec = run[r].rec /\ v.chan = run[r].chan
  BY <1>1, <1>2 DEF Run, SignerSteps
<1>4. RunFits(r, v)
  BY <1>1, <1>3 DEF RunFits, SubmittingSteps
<1>5. run' = [run EXCEPT ![r] = v]
  BY DEF BuildsTransaction
<1> HIDE DEF v
<1>6. Steps(r)
  BY <1>3, <1>4, <1>5 DEF Steps
<1> QED BY <1>6, RestStays, RequestMoves DEF BuildsTransaction, network

LEMMA RefusesToSignKeeps ==
  ASSUME IndInv, NEW r \in Requests, RefusesToSign(r)
  PROVE  IndInv'
<1>1. Steps(r)
  BY SignsSteps DEF RefusesToSign, Submitting, SubmittingSteps, SignerSteps
<1> QED BY <1>1, RestStays, RequestMoves DEF RefusesToSign, network

LEMMA SignsFeeBumpKeeps ==
  ASSUME IndInv, NEW r \in Requests, SignsFeeBump(r)
  PROVE  IndInv'
<1>1. Steps(r)
  BY SignsSteps DEF SignsFeeBump, Submitting, SubmittingSteps, SignerSteps
<1> QED BY <1>1, RestStays, RequestMoves DEF SignsFeeBump, network

LEMMA RecordsEnvelopeKeeps ==
  ASSUME IndInv, NEW r \in Requests, RecordsEnvelope(r)
  PROVE  IndInv'
<1> DEFINE id == run[r].rec
           c == run[r].chan
<1>1. /\ run[r] \in Run /\ id \in Requests /\ c \in Channels /\ Submitting(r)
  BY Here DEF RecordsEnvelope, RunFits, Submitting, SubmittingSteps
<1>2. Steps(r)
  BY <1>1, SignsSteps DEF RecordsEnvelope, SignerSteps
<1>3. CASE OwnsClaim(id, r)
  <2> DEFINE x == [rows[id] EXCEPT !.state = "submitted", !.stale = FALSE,
                                   !.channel = c, !.seq = run[r].seq,
                                   !.accepted = FALSE, !.sends = {FirstSend}]
  <2>1. rows[id] \in Row /\ rows[id].state = "claimed" /\ run[r].seq \in Nat
    BY <1>1, <1>3 DEF IndInv, TypeOK, OwnsClaim, Run
  <2>2. x \in Row
    BY <1>1, <2>1 DEF Row, States
  <2>3. x.state = "submitted" /\ x.channel = c
    BY <2>1 DEF Row
  <2>4. tx[id] = "none" /\ ~IsFinal(id)
    BY <1>1, <2>1 DEF IndInv, RowShape, RowFits, IsFinal, FinalStates
  <2>5. RowFits(x, "signed")
    BY <1>1, <2>3 DEF RowFits, FinalStates
  <2>6. \A i \in Requests : Exists(i) /\ KeyOf[i] = KeyOf[id] => i = id
    BY <1>1, <2>1 DEF IndInv, OneRowPerKey, Exists
  <2>7. rows' = [rows EXCEPT ![id] = x] /\ tx' = [tx EXCEPT ![id] = "signed"]
    BY <1>3 DEF RecordsEnvelope, RecordEnvelope
  <2>8. LedgerOK
    BY Parts
  <2> HIDE DEF x, id, c
  <2> QED BY <1>1, <1>2, <1>3, <2>2, <2>4, <2>5, <2>6, <2>7, <2>8, RowMoves,
             RestStays, RequestMoves DEF TxStates, RecordsEnvelope
<1>4. CASE ~OwnsClaim(id, r)
  BY <1>2, <1>4, RestStays, RequestMoves DEF RecordsEnvelope
<1> QED BY <1>3, <1>4

\* A send changes what became of a recorded transaction, nothing else.
LEMMA NetworkAnswersKeeps ==
  ASSUME IndInv, NEW id \in Requests, NEW reply, NetworkAnswers(id, reply),
         rows' = rows, accountSeq' = accountSeq
  PROVE  LedgerOK' /\ Kept /\ NetworkOK'
<1>1. \/ tx' = tx
      \/ /\ tx[id] # "none"
         /\ \E t \in TxStates \ {"none"} : tx' = [tx EXCEPT ![id] = t]
  BY DEF NetworkAnswers, CanAccept, CanReject, TxStates
<1>2. LedgerOK' /\ Kept
  BY <1>1, Parts, TxMoves, LedgerStays
<1>3. Failure \/ UNCHANGED faults
  BY DEF NetworkAnswers
<1> QED BY <1>2, <1>3, RestStays

LEMMA SendsFirstKeeps ==
  ASSUME IndInv, NEW r \in Requests, SendsFirst(r)
  PROVE  IndInv'
<1>1. run[r].rec \in Requests /\ Submitting(r)
  BY Here DEF SendsFirst, RunFits, Submitting, SubmittingSteps
<1>2. PICK reply \in Replies :
        /\ NetworkAnswers(run[r].rec, reply)
        /\ Signs(r, IF run[r].pc # "race" THEN "stopped"
                    ELSE CASE reply = "accepted" -> "accepted"
                           [] reply = "lost" -> "unheard"
                           [] OTHER -> "refused")
  BY DEF SendsFirst
<1>3. \E step \in SignerSteps : Signs(r, step)
  BY <1>2 DEF SignerSteps
<1>4. Steps(r)
  BY <1>1, <1>3, SignsSteps
<1>5. LedgerOK' /\ Kept /\ NetworkOK'
  BY <1>1, <1>2, NetworkAnswersKeeps DEF SendsFirst
<1> QED BY <1>4, <1>5, RestStays, RequestMoves DEF SendsFirst

-----------------------------------------------------------------------------
(* The race and what follows it                                             *)

LEMMA RaceEndsKeeps ==
  ASSUME IndInv, NEW r \in Requests, NEW result \in RaceResults,
         run[r].pc = "race", RaceEnds(r, result)
  PROVE  IndInv'
<1> DEFINE next == IF Submitting(r) THEN run[r].signer ELSE "stopped"
           v == [run[r] EXCEPT !.pc = "fetch", !.raced = result,
                               !.closed = ~Noted(r), !.signer = next]
<1>1. run[r] \in Run /\ RunFits(r, run[r])
  BY Here
<1>2. next \in SignerSteps /\ (next \in SubmittingSteps => Submitting(r))
  BY <1>1 DEF Run, SignerSteps, SubmittingSteps
<1>3. (~Noted(r)) \in BOOLEAN
  BY DEF Noted
<1> HIDE DEF next
<1>4. /\ v \in Run /\ v.pc = "fetch" /\ v.signer = next
      /\ v.rec = run[r].rec /\ v.chan = run[r].chan
  BY <1>1, <1>2, <1>3 DEF Run, RunPcs
<1>5. run' = [run EXCEPT ![r] = v]
  BY DEF RaceEnds, next
<1> HIDE DEF v
<1>6. RunFits(r, v)
  BY <1>1, <1>2, <1>4 DEF RunFits, Submitting, OnChainPcs, OffChainPcs
<1>7. Steps(r)
  BY <1>4, <1>5, <1>6 DEF Steps
<1> QED BY <1>7, RestStays, RequestMoves DEF RaceEnds, network

LEMMA RaceKeeps ==
  ASSUME IndInv, NEW r \in Requests,
         SubmissionReturns(r) \/ SignWindowElapses(r) \/ ConfirmWindowElapses(r)
  PROVE  IndInv'
<1>1. run[r].pc = "race"
  BY DEF SubmissionReturns, SignWindowElapses, ConfirmWindowElapses
<1>2. \E result \in RaceResults : RaceEnds(r, result)
  BY DEF SubmissionReturns, SignWindowElapses, ConfirmWindowElapses, RaceResults
<1> QED BY <1>1, <1>2, RaceEndsKeeps

LEMMA LooksFromFits ==
  ASSUME IndInv, NEW id \in Requests
  PROVE  /\ LooksFrom(id) \in Job /\ LooksFrom(id).at = "look"
         /\ LooksFrom(id).on = id
<1>1. rows[id] \in Row
  BY DEF IndInv, TypeOK
<1>2. (~rows[id].accepted) \in BOOLEAN /\ rows[id].released \in BOOLEAN
  BY <1>1 DEF Row
<1> QED BY <1>2 DEF LooksFrom, Job, JobSteps, Replies

\* A request that finds its envelope recorded starts to drive it.
LEMMA StartsDriving ==
  ASSUME IndInv, NEW r \in Requests, run[r].rec \in Requests, r \notin OffChain,
         Recorded(run[r].rec, r), Goes(r, "answer"),
         job' = [job EXCEPT ![r] = LooksFrom(run[r].rec)],
         UNCHANGED <<rows, pool, driving, network>>
  PROVE  IndInv'
<1> DEFINE id == run[r].rec
           v == [run[r] EXCEPT !.pc = "answer"]
<1>1. tx[id] # "none"
  <2>1. rows[id] \in Row /\ RowFits(rows[id], tx[id])
    BY DEF IndInv, TypeOK, RowShape
  <2> QED BY <2>1 DEF RowFits, Recorded, Row, States
<1>2. run[r] \in Run /\ RunFits(r, run[r])
  BY Here
<1>3. /\ v \in Run /\ v.pc = "answer" /\ v.signer = run[r].signer
      /\ v.rec = run[r].rec /\ v.chan = run[r].chan
  BY <1>2 DEF Run, RunPcs
<1>4. RunFits(r, v)
  BY <1>2, <1>3 DEF RunFits, OffChainPcs
<1>5. run' = [run EXCEPT ![r] = v]
  BY DEF Goes
<1> HIDE DEF v
<1>6. RunOK' /\ \A q \in Requests : q # r => run'[q] = run[q]
  BY <1>3, <1>4, <1>5, RunMoves, Parts DEF ThreadsOK
<1>7. LedgerOK' /\ Kept /\ PoolOK' /\ NetworkOK' /\ DrivingOK'
  BY RestStays DEF network
<1>8. PICK w \in Job : w = LooksFrom(id) /\ w.at = "look" /\ w.on = id
  BY LooksFromFits
<1>9. JobFits(w)'
  BY <1>1, <1>7, <1>8 DEF JobFits, Kept
<1>10. r \in Drivers /\ job' = [job EXCEPT ![r] = w]
  BY <1>8 DEF Drivers
<1>11. JobOK'
  BY <1>6, <1>7, <1>8, <1>9, <1>10, JobMoves, Parts DEF ThreadsOK
<1> QED BY <1>6, <1>7, <1>11, Assembled

LEMMA FetchesRowKeeps ==
  ASSUME IndInv, NEW r \in Requests, FetchesRow(r) \/ RechecksRow(r)
  PROVE  IndInv'
<1>1. run[r].rec \in Requests /\ r \notin OffChain /\ run[r].pc \in {"fetch", "recheck"}
  BY Here DEF FetchesRow, RechecksRow, RunFits, OnChainPcs
<1>2. CASE Recorded(run[r].rec, r)
  BY <1>1, <1>2, StartsDriving DEF FetchesRow, RechecksRow, network
<1>3. CASE ~Recorded(run[r].rec, r)
  <2>1. \E pc \in {"abandon", "lost", "unsigned"} : Goes(r, pc)
    BY <1>3 DEF FetchesRow, RechecksRow
  <2>2. Steps(r)
    BY <1>1, <2>1, GoesSteps DEF RunPcs, OffChainPcs
  <2> QED BY <1>3, <2>2, RestStays, RequestMoves DEF FetchesRow, RechecksRow, network
<1> QED BY <1>2, <1>3

LEMMA ReleasesLostKeeps ==
  ASSUME IndInv, NEW r \in Requests, ReleasesLost(r)
  PROVE  IndInv'
<1>1. run[r].rec \in Requests
  BY Here DEF ReleasesLost, RunFits
<1>2. Steps(r)
  BY <1>1, GoesSteps DEF ReleasesLost, RunPcs, OnChainPcs, OffChainPcs
<1>3. PoolOK'
  BY Parts, PoolMoves DEF ReleasesLost
<1> QED BY <1>2, <1>3, RestStays, RequestMoves DEF ReleasesLost, network

LEMMA AbandonsClaimKeeps ==
  ASSUME IndInv, NEW r \in Requests, AbandonsClaim(r)
  PROVE  IndInv'
<1>1. run[r].rec \in Requests /\ r \notin OffChain
  BY Here DEF AbandonsClaim, RunFits, OnChainPcs
<1>2. Steps(r)
  BY <1>1, GoesSteps DEF AbandonsClaim, RunPcs, OffChainPcs
<1>3. LedgerOK' /\ Kept
  BY <1>1, Parts, AbandonKeeps DEF AbandonsClaim, network
<1> QED BY <1>2, <1>3, RestStays, RequestMoves DEF AbandonsClaim, network

LEMMA AnswersUnsignedKeeps ==
  ASSUME IndInv, NEW r \in Requests, AnswersUnsigned(r)
  PROVE  IndInv'
<1>1. PoolOK'
  BY Parts, PoolMoves DEF AnswersUnsigned
<1> QED BY <1>1, RestStays, RequestEnds DEF AnswersUnsigned, network, Answers

LEMMA RecordsFirstAnswerKeeps ==
  ASSUME IndInv, NEW r \in Requests, RecordsFirstAnswer(r)
  PROVE  IndInv'
<1> DEFINE id == run[r].rec
           v == [run[r] EXCEPT !.pc = "drive",
                               !.raced = IF @ = "refused" THEN @ ELSE "none"]
<1>1. /\ run[r] \in Run /\ RunFits(r, run[r]) /\ run[r].pc = "answer"
      /\ id \in Requests /\ r \notin OffChain /\ r \in Drivers
  BY Here DEF RecordsFirstAnswer, RunFits, OnChainPcs, Drivers
<1>2. LedgerOK' /\ Kept
  <2>1. \/ rows' = rows
        \/ EndSend(id, FirstSend, run[r].raced # "refused")
    BY DEF RecordsFirstAnswer
  <2>2. (run[r].raced # "refused") \in BOOLEAN
    OBVIOUS
  <2>3. tx' = tx
    BY DEF RecordsFirstAnswer, chain
  <2> QED BY <1>1, <2>1, <2>2, <2>3, Parts, StatementsKeep, LedgerStays
<1>3. /\ v \in Run /\ v.pc = "drive" /\ v.signer = run[r].signer
      /\ v.rec = id /\ v.chan = run[r].chan
  BY <1>1 DEF Run, RunPcs, RaceResults
<1>4. run' = [run EXCEPT ![r] = v]
  BY DEF RecordsFirstAnswer
<1> HIDE DEF v
<1>5. RunFits(r, v)
  BY <1>1, <1>3 DEF RunFits, OffChainPcs
<1>6. RunOK' /\ run'[r] = v /\ \A q \in Requests : q # r => run'[q] = run[q]
  BY <1>3, <1>4, <1>5, RunMoves, Parts DEF ThreadsOK
<1>7. JobOK'
  <2>1. CASE run[r].raced = "settled"
    <3>1. job[r] \in Job /\ JobFits(job[r]) /\ job[r].at = "look"
      BY <1>1 DEF IndInv, TypeOK, JobShape
    <3>2. PICK w \in Job : /\ w.at = "finish" /\ w.verdict = "succeeded"
                           /\ w.on = job[r].on
                           /\ job' = [job EXCEPT ![r] = w]
      <4> DEFINE w == [job[r] EXCEPT !.at = "finish", !.verdict = "succeeded"]
      <4>1. w \in Job /\ w.at = "finish" /\ w.verdict = "succeeded" /\ w.on = job[r].on
        BY <3>1 DEF Job, JobSteps, FinalStates
      <4>2. job' = [job EXCEPT ![r] = w]
        BY <2>1 DEF RecordsFirstAnswer
      <4> QED BY <4>1, <4>2
    <3>3. JobFits(w)'
      BY <1>2, <3>1, <3>2 DEF JobFits, Kept, FinalStates
    <3> QED BY <1>1, <1>2, <1>3, <1>6, <3>2, <3>3, JobMoves, Parts DEF ThreadsOK
  <2>2. CASE run[r].raced # "settled"
    BY <1>2, <1>3, <1>6, <2>2, JobsStay, Parts DEF ThreadsOK, RecordsFirstAnswer
  <2> QED BY <2>1, <2>2
<1> QED BY <1>2, <1>6, <1>7, RestStays, Assembled DEF RecordsFirstAnswer, chain

-----------------------------------------------------------------------------
(* Jobs                                                                     *)

\* Where a step of d's job leads: to a job that fits, or the job ends and,
\* with it, the request.
Drove(d) ==
  \/ /\ \E w \in Job : /\ JobFits(w)' /\ w.at # "idle"
                       /\ job' = [job EXCEPT ![d] = w]
     /\ \/ UNCHANGED <<run, driving>>
        \/ d \in Requests /\ run' = [run EXCEPT ![d].raced = "none"] /\ UNCHANGED driving
  \/ \E a \in Answers : JobEnds(d, a)

LEMMA JobKeeps ==
  ASSUME IndInv, NEW d \in Drivers, Drove(d),
         d \in Requests => run[d].pc = "drive",
         LedgerOK', Kept, PoolOK', NetworkOK'
  PROVE  IndInv'
<1>1. ThreadsOK
  BY Parts
<1>2. CASE UNCHANGED <<run, driving>> /\ \E w \in Job : /\ JobFits(w)' /\ w.at # "idle"
                                                        /\ job' = [job EXCEPT ![d] = w]
  <2>1. PICK w \in Job : JobFits(w)' /\ job' = [job EXCEPT ![d] = w]
    BY <1>2
  <2>2. \A r \in Requests : run'[r].pc = "answer" => IF r = d THEN w.at = "look"
                                                             ELSE run[r].pc = "answer"
    BY <1>2
  <2>3. JobOK'
    BY <1>1, <2>1, <2>2, JobMoves DEF ThreadsOK
  <2>4. RunOK' /\ DrivingOK'
    BY <1>1, <1>2 DEF ThreadsOK, RunOK, DrivingOK, RunShape, RunFits
  <2> QED BY <2>3, <2>4, Assembled
<1>3. CASE /\ d \in Requests /\ run' = [run EXCEPT ![d].raced = "none"]
           /\ UNCHANGED driving
           /\ \E w \in Job : /\ JobFits(w)' /\ w.at # "idle"
                             /\ job' = [job EXCEPT ![d] = w]
  <2> DEFINE v == [run[d] EXCEPT !.raced = "none"]
  <2>1. run[d] \in Run /\ RunFits(d, run[d]) /\ run[d].pc = "drive"
    BY <1>3, Here
  <2>2. /\ v \in Run /\ v.pc = "drive" /\ v.signer = run[d].signer
        /\ v.rec = run[d].rec /\ v.chan = run[d].chan
    BY <2>1 DEF Run, RaceResults
  <2>3. run' = [run EXCEPT ![d] = v]
    BY <1>3
  <2> HIDE DEF v
  <2>4. RunFits(d, v)
    BY <2>1, <2>2 DEF RunFits
  <2>5. RunOK' /\ run'[d] = v /\ \A q \in Requests : q # d => run'[q] = run[q]
    BY <1>1, <1>3, <2>2, <2>3, <2>4, RunMoves DEF ThreadsOK
  <2>6. PICK w \in Job : JobFits(w)' /\ job' = [job EXCEPT ![d] = w]
    BY <1>3
  <2>7. JobOK'
    BY <1>1, <2>2, <2>5, <2>6, JobMoves DEF ThreadsOK
  <2> QED BY <1>3, <2>5, <2>7, RestStays, Assembled
<1>4. ASSUME NEW a \in Answers, JobEnds(d, a)
      PROVE  IndInv'
  <2>1. /\ RunOK' /\ DrivingOK'
        /\ \A q \in Requests : run'[q].pc = "answer" => q # d /\ run[q].pc = "answer"
    <3>1. CASE d \in Requests
      BY <1>1, <1>4, <3>1, EndsMoves DEF ThreadsOK, JobEnds
    <3>2. CASE d \notin Requests
      BY <1>1, <1>4, <3>2 DEF ThreadsOK, JobEnds, RunOK, DrivingOK, RunShape, RunFits
    <3> QED BY <3>1, <3>2
  <2>2. JobFits(NoJob)'
    BY Blank DEF JobFits
  <2>3. job' = [job EXCEPT ![d] = NoJob]
    BY <1>4 DEF JobEnds
  <2>4. PICK w \in Job : w = NoJob
    BY Blank
  <2>5. JobOK'
    BY <1>1, <2>1, <2>2, <2>3, <2>4, JobMoves DEF ThreadsOK
  <2> QED BY <2>1, <2>5, Assembled
<1> QED BY <1>2, <1>3, <1>4 DEF Drove

\* The job goes on about the same settlement.
LEMMA JobTo ==
  ASSUME IndInv, Kept, NEW d \in Drivers, job[d].at # "idle",
         NEW w \in Job, w.on = job[d].on, w.at # "idle",
         w.at = "finish" => w.verdict \in FinalStates,
         w.at = "free" => IsFinal(w.on)',
         job' = [job EXCEPT ![d] = w], UNCHANGED <<run, driving>>
  PROVE  Drove(d)
<1>1. w.on \in Requests /\ tx[w.on] # "none"
  BY DEF IndInv, JobShape, JobFits
<1>2. JobFits(w)'
  BY <1>1 DEF JobFits, Kept
<1> QED BY <1>2 DEF Drove

LEMMA JobGoesDrove ==
  ASSUME IndInv, Kept, NEW d \in Drivers, job[d].at # "idle",
         NEW at \in JobSteps \ {"idle", "finish", "free"}, JobGoes(d, at)
  PROVE  Drove(d)
<1> DEFINE v == [job[d] EXCEPT !.at = at, !.reply = "none"]
<1>1. job[d] \in Job
  BY DEF IndInv, TypeOK
<1>2. v \in Job /\ v.at = at /\ v.on = job[d].on
  BY <1>1 DEF Job, Replies
<1>3. job' = [job EXCEPT ![d] = v]
  BY DEF JobGoes
<1>4. PICK w \in Job : w = v
  BY <1>2
<1> HIDE DEF v
<1> QED BY <1>2, <1>3, <1>4, JobTo DEF JobGoes

LEMMA FinishesDrove ==
  ASSUME IndInv, Kept, NEW d \in Drivers, job[d].at # "idle",
         NEW verdict \in FinalStates, NEW mark \in Nat \cup {None},
         Finishes(d, verdict, mark)
  PROVE  Drove(d)
<1> DEFINE v == [job[d] EXCEPT !.at = "finish", !.reply = "none",
                               !.verdict = verdict, !.mark = mark]
<1>1. job[d] \in Job
  BY DEF IndInv, TypeOK
<1>2. v \in Job /\ v.at = "finish" /\ v.on = job[d].on /\ v.verdict = verdict
  BY <1>1 DEF Job, JobSteps, Replies
<1>3. job' = [job EXCEPT ![d] = v]
  BY DEF Finishes
<1>4. PICK w \in Job : w = v
  BY <1>2
<1> HIDE DEF v
<1> QED BY <1>2, <1>3, <1>4, JobTo DEF Finishes

LEMMA GivesBackDrove ==
  ASSUME IndInv, Kept, NEW d \in Drivers, job[d].at # "idle",
         NEW mark \in Nat \cup {None}, GivesBack(d, mark)
  PROVE  Drove(d)
<1> DEFINE v == [job[d] EXCEPT !.at = "giveBack", !.reply = "none", !.mark = mark]
<1>1. job[d] \in Job
  BY DEF IndInv, TypeOK
<1>2. v \in Job /\ v.at = "giveBack" /\ v.on = job[d].on
  BY <1>1 DEF Job, JobSteps, Replies
<1>3. job' = [job EXCEPT ![d] = v]
  BY DEF GivesBack
<1>4. PICK w \in Job : w = v
  BY <1>2
<1> HIDE DEF v
<1> QED BY <1>2, <1>3, <1>4, JobTo DEF GivesBack

LEMMA GoesOnDrove ==
  ASSUME IndInv, Kept, NEW d \in Drivers, job[d].at # "idle",
         NEW back \in BOOLEAN, GoesOn(d, back)
  PROVE  Drove(d)
<1>1. CASE JobGoes(d, "reload")
  BY <1>1, JobGoesDrove DEF JobSteps
<1>2. CASE /\ job' = [job EXCEPT ![d].at = "look", ![d].reply = "none",
                                 ![d].back = back]
           /\ UNCHANGED <<run, driving>>
  <2> DEFINE v == [job[d] EXCEPT !.at = "look", !.reply = "none", !.back = back]
  <2>1. job[d] \in Job
    BY DEF IndInv, TypeOK
  <2>2. v \in Job /\ v.at = "look" /\ v.on = job[d].on
    BY <2>1 DEF Job, JobSteps, Replies
  <2>3. job' = [job EXCEPT ![d] = v]
    BY <1>2
  <2>4. PICK w \in Job : w = v
    BY <2>2
  <2> HIDE DEF v
  <2> QED BY <1>2, <2>2, <2>3, <2>4, JobTo
<1>3. CASE JobEnds(d, "pending")
  BY <1>3 DEF Drove, Answers
<1> QED BY <1>1, <1>2, <1>3 DEF GoesOn

LEMMA WaitsDrove ==
  ASSUME IndInv, Kept, NEW d \in Drivers, job[d].at # "idle", Waits(d)
  PROVE  Drove(d)
<1>1. job[d].back \in BOOLEAN
  BY DEF IndInv, TypeOK, Job
<1> QED BY <1>1, GoesOnDrove DEF Waits

\* What JobShape says of a job that takes a step.
LEMMA DrivesHere ==
  ASSUME IndInv, NEW d \in Drivers, NEW at \in JobSteps \ {"idle"}, Drives(d, at)
  PROVE  /\ job[d] \in Job /\ job[d].at = at
         /\ job[d].on \in Requests /\ tx[job[d].on] # "none"
         /\ Channel(job[d].on) \in Channels
         /\ d \in Requests => run[d].pc = "drive"
BY DEF IndInv, TypeOK, JobShape, JobFits, RowShape, RowFits, Drives, Channel

LEMMA DecidesConflictDrove ==
  ASSUME IndInv, Kept, NEW d \in Drivers, job[d].at # "idle",
         Channel(job[d].on) \in Channels, DecidesConflict(d, job[d].on)
  PROVE  Drove(d)
<1>1. accountSeq[Channel(job[d].on)] \in Nat
  BY DEF IndInv, TypeOK
<1>2. CASE \/ Finishes(d, "failed", accountSeq[Channel(job[d].on)])
           \/ GivesBack(d, accountSeq[Channel(job[d].on)])
  BY <1>1, <1>2, FinishesDrove, GivesBackDrove DEF FinalStates
<1>3. CASE Waits(d)
  BY <1>3, WaitsDrove
<1> QED BY <1>2, <1>3 DEF DecidesConflict

LEMMA LooksKeeps ==
  ASSUME IndInv, NEW d \in Drivers, Looks(d)
  PROVE  IndInv'
<1> DEFINE id == job[d].on
<1>1. /\ id \in Requests /\ job[d].at # "idle" /\ Channel(id) \in Channels
      /\ d \in Requests => run[d].pc = "drive"
  BY DrivesHere DEF Looks, JobSteps
<1>2. PoolOK' /\ tx' = tx /\ accountSeq' = accountSeq /\ LedgerOK
  BY RestStays, Parts DEF Looks, chain
<1>3. ASSUME UNCHANGED <<rows, faults>>, Kept => Drove(d)
      PROVE  IndInv'
  BY <1>1, <1>2, <1>3, RestStays, JobKeeps
<1>4. CASE JobGoes(d, "reload") /\ UNCHANGED <<rows, faults>>
  BY <1>1, <1>3, <1>4, JobGoesDrove DEF JobSteps
<1>5. CASE Decides(d, id) /\ UNCHANGED <<rows, faults>>
  <2>1. ASSUME Kept PROVE Drove(d)
    BY <1>1, <1>5, <2>1, FinishesDrove, GivesBackDrove, WaitsDrove DEF Decides, FinalStates
  <2> QED BY <1>3, <1>5, <2>1
<1>6. CASE DecidesConflict(d, id) /\ UNCHANGED <<rows, faults>>
  BY <1>1, <1>3, <1>6, DecidesConflictDrove
<1>7. CASE MarksSend(d, id)
  <2>1. LedgerOK' /\ Kept
    BY <1>1, <1>2, <1>7, RestStays, StatementsKeep DEF MarksSend
  <2>2. JobGoes(d, "send") \/ Waits(d)
    BY <1>7 DEF MarksSend
  <2>3. Drove(d)
    BY <1>1, <2>1, <2>2, JobGoesDrove, WaitsDrove DEF JobSteps
  <2>4. NetworkOK'
    BY <1>2, <1>7, RestStays DEF MarksSend
  <2> QED BY <1>1, <1>2, <2>1, <2>3, <2>4, JobKeeps
<1>8. CASE Failure /\ Waits(d) /\ UNCHANGED rows
  <2>1. LedgerOK' /\ Kept /\ NetworkOK'
    BY <1>2, <1>8, RestStays
  <2> QED BY <1>1, <1>2, <1>8, <2>1, WaitsDrove, JobKeeps
<1> QED BY <1>4, <1>5, <1>6, <1>7, <1>8 DEF Looks

LEMMA SendsKeeps ==
  ASSUME IndInv, NEW d \in Drivers, Sends(d)
  PROVE  IndInv'
<1>1. /\ job[d] \in Job /\ job[d].on \in Requests /\ job[d].at # "idle"
      /\ d \in Requests => run[d].pc = "drive"
  BY DrivesHere DEF Sends, JobSteps
<1>2. PICK reply \in Replies :
        /\ NetworkAnswers(job[d].on, reply)
        /\ job' = [job EXCEPT ![d].at = "reply", ![d].reply = reply]
  BY DEF Sends
<1>3. LedgerOK' /\ Kept /\ NetworkOK' /\ PoolOK'
  BY <1>1, <1>2, NetworkAnswersKeeps, RestStays DEF Sends
<1>4. Drove(d)
  <2> DEFINE v == [job[d] EXCEPT !.at = "reply", !.reply = reply]
  <2>1. v \in Job /\ v.at = "reply" /\ v.on = job[d].on
    BY <1>1 DEF Job, JobSteps
  <2>2. job' = [job EXCEPT ![d] = v]
    BY <1>2
  <2>3. PICK w \in Job : w = v
    BY <2>1
  <2> HIDE DEF v
  <2> QED BY <1>1, <1>3, <2>1, <2>2, <2>3, JobTo DEF Sends
<1> QED BY <1>1, <1>3, <1>4, JobKeeps

LEMMA RecordsAnswerKeeps ==
  ASSUME IndInv, NEW d \in Drivers, RecordsAnswer(d)
  PROVE  IndInv'
<1> DEFINE id == job[d].on
<1>1. /\ id \in Requests /\ job[d].at # "idle" /\ Channel(id) \in Channels
      /\ d \in Requests => run[d].pc = "drive"
  BY DrivesHere DEF RecordsAnswer, JobSteps
<1>2. tx' = tx /\ accountSeq' = accountSeq /\ PoolOK' /\ NetworkOK' /\ LedgerOK
  BY RestStays, Parts DEF RecordsAnswer, chain
<1>3. LedgerOK' /\ Kept
  <2>1. (job[d].reply = "accepted") \in BOOLEAN
    OBVIOUS
  <2>2. \/ rows' = rows
        \/ EndSend(id, d, job[d].reply = "accepted")
        \/ ForgetSend(id, d)
    BY DEF RecordsAnswer
  <2> QED BY <1>1, <1>2, <2>1, <2>2, StatementsKeep, LedgerStays
<1>4. DecidesConflict(d, id) \/ JobGoes(d, "weigh") \/ Waits(d)
  BY DEF RecordsAnswer
<1>5. Drove(d)
  BY <1>1, <1>3, <1>4, DecidesConflictDrove, JobGoesDrove, WaitsDrove DEF JobSteps
<1> QED BY <1>1, <1>2, <1>3, <1>5, JobKeeps

LEMMA WeighsRejectionKeeps ==
  ASSUME IndInv, NEW d \in Drivers, WeighsRejection(d)
  PROVE  IndInv'
<1>1. job[d].at # "idle" /\ (d \in Requests => run[d].pc = "drive")
  BY DrivesHere DEF WeighsRejection, JobSteps
<1>2. LedgerOK' /\ Kept /\ PoolOK' /\ NetworkOK'
  BY RestStays DEF WeighsRejection, network
<1>3. Drove(d)
  BY <1>1, <1>2, FinishesDrove, WaitsDrove DEF WeighsRejection, FinalStates
<1> QED BY <1>1, <1>2, <1>3, JobKeeps

LEMMA ReloadsKeeps ==
  ASSUME IndInv, NEW d \in Drivers, Reloads(d)
  PROVE  IndInv'
<1>1. /\ job[d].on \in Requests /\ tx[job[d].on] # "none" /\ job[d].at = "reload"
      /\ d \in Requests => run[d].pc = "drive"
  BY DrivesHere DEF Reloads, JobSteps
<1>2. LedgerOK' /\ Kept /\ PoolOK' /\ NetworkOK'
  BY RestStays DEF Reloads, network
<1>3. PICK w \in Job : w = LooksFrom(job[d].on) /\ w.at = "look" /\ w.on = job[d].on
  BY <1>1, LooksFromFits
<1>4. JobFits(w)'
  BY <1>1, <1>2, <1>3 DEF JobFits, Kept
<1>5. job' = [job EXCEPT ![d] = w]
  BY <1>3 DEF Reloads
<1>6. d \in Requests \/ UNCHANGED <<run, driving>>
  <2>1. CASE d \notin Requests
    BY <2>1 DEF Reloads, IndInv, TypeOK
  <2> QED BY <2>1
<1>7. Drove(d)
  BY <1>3, <1>4, <1>5, <1>6 DEF Drove, Reloads
<1> QED BY <1>1, <1>2, <1>7, JobKeeps

LEMMA MarksReleasedKeeps ==
  ASSUME IndInv, NEW d \in Drivers, MarksReleased(d)
  PROVE  IndInv'
<1> DEFINE id == job[d].on
<1>1. /\ id \in Requests /\ job[d].at # "idle"
      /\ d \in Requests => run[d].pc = "drive"
  BY DrivesHere DEF MarksReleased, JobSteps
<1>2. tx' = tx /\ accountSeq' = accountSeq /\ PoolOK' /\ NetworkOK' /\ LedgerOK
  BY RestStays, Parts DEF MarksReleased, chain
<1>3. LedgerOK' /\ Kept
  BY <1>1, <1>2, StatementsKeep, LedgerStays DEF MarksReleased
<1>4. rows[id].released \in BOOLEAN
  BY <1>1 DEF IndInv, TypeOK, Row
<1>5. JobGoes(d, "hand") \/ GoesOn(d, rows[id].released) \/ Waits(d)
  BY DEF MarksReleased
<1>6. Drove(d)
  BY <1>1, <1>3, <1>4, <1>5, JobGoesDrove, GoesOnDrove, WaitsDrove DEF JobSteps
<1> QED BY <1>1, <1>2, <1>3, <1>6, JobKeeps

LEMMA ReturnsChannelKeeps ==
  ASSUME PoolOK, NEW c, NEW mark \in Nat \cup {None}, ReturnsChannel(c, mark)
  PROVE  PoolOK'
BY PoolMoves DEF ReturnsChannel

LEMMA HandsBackKeeps ==
  ASSUME IndInv, NEW d \in Drivers, HandsBack(d)
  PROVE  IndInv'
<1>1. /\ job[d] \in Job /\ job[d].at # "idle"
      /\ d \in Requests => run[d].pc = "drive"
  BY DrivesHere DEF HandsBack, JobSteps
<1>2. LedgerOK' /\ Kept /\ NetworkOK'
  BY RestStays DEF HandsBack, chain
<1>3. PoolOK'
  BY <1>1, Parts, RestStays, ReturnsChannelKeeps DEF HandsBack, Job
<1>4. Drove(d)
  BY <1>1, <1>2, GoesOnDrove DEF HandsBack, Waits, Job
<1> QED BY <1>1, <1>2, <1>3, <1>4, JobKeeps

LEMMA CompletesRowKeeps ==
  ASSUME IndInv, NEW d \in Drivers, CompletesRow(d)
  PROVE  IndInv'
<1> DEFINE id == job[d].on
<1>1. /\ job[d] \in Job /\ id \in Requests /\ tx[id] # "none"
      /\ job[d].at = "finish" /\ job[d].verdict \in FinalStates
      /\ d \in Requests => run[d].pc = "drive"
  BY DrivesHere DEF CompletesRow, JobSteps, IndInv, JobShape, JobFits
<1>2. PoolOK' /\ NetworkOK' /\ tx' = tx /\ LedgerOK
  BY RestStays, Parts DEF CompletesRow, chain
<1>3. rows[id] \in Row /\ rows[id].state \in {"submitted"} \cup FinalStates
  BY <1>1 DEF IndInv, TypeOK, RowShape, RowFits
<1>4. CASE /\ CanFinish(id)
           /\ Finish(id, job[d].verdict)
           /\ JobEnds(d, job[d].verdict) \/ JobGoes(d, "free")
  <2> DEFINE x == [rows[id] EXCEPT !.state = job[d].verdict, !.stale = FALSE]
  <2>1. /\ x \in Row /\ x.state = job[d].verdict /\ x.channel = rows[id].channel
    BY <1>1, <1>3 DEF Row, States
  <2>2. tx[id] \in TxStates /\ tx' = [tx EXCEPT ![id] = tx[id]] /\ RowFits(rows[id], tx[id])
    BY <1>1, <1>2 DEF LedgerOK, RowShape
  <2>3. rows' = [rows EXCEPT ![id] = x]
    BY <1>4 DEF Finish
  <2> HIDE DEF x
  <2>4. RowFits(x, tx[id])
    BY <1>1, <2>1, <2>2 DEF RowFits, FinalStates
  <2>5. \A i \in Requests : Exists(i) /\ KeyOf[i] = KeyOf[id] => i = id
    BY <1>1, <1>3 DEF IndInv, OneRowPerKey, Exists, FinalStates
  <2>6. LedgerOK' /\ Kept
    BY <1>1, <1>2, <2>1, <2>2, <2>3, <2>4, <2>5, RowMoves
  <2>7. CASE JobEnds(d, job[d].verdict)
    <3>1. Drove(d)
      BY <1>1, <2>7 DEF Drove, Answers
    <3> QED BY <1>1, <1>2, <2>6, <3>1, JobKeeps
  <2>8. CASE JobGoes(d, "free")
    <3> DEFINE v == [job[d] EXCEPT !.at = "free", !.reply = "none"]
    <3>1. v \in Job /\ v.at = "free" /\ v.on = id
      BY <1>1 DEF Job, JobSteps, Replies
    <3>2. job' = [job EXCEPT ![d] = v]
      BY <2>8 DEF JobGoes
    <3>3. PICK w \in Job : w = v
      BY <3>1
    <3> HIDE DEF v
    <3>4. IsFinal(w.on)'
      BY <1>1, <1>3, <2>1, <2>3, <3>1, <3>3 DEF IsFinal, IndInv, TypeOK
    <3>5. Drove(d)
      BY <1>1, <2>6, <2>8, <3>1, <3>2, <3>3, <3>4, JobTo DEF JobGoes
    <3> QED BY <1>1, <1>2, <2>6, <3>5, JobKeeps
  <2> QED BY <1>4, <2>7, <2>8
<1>5. CASE ~CanFinish(id) /\ JobEnds(d, rows[id].state) /\ UNCHANGED rows
  <2>1. rows[id].state \in FinalStates /\ JobEnds(d, rows[id].state) /\ rows' = rows
    BY <1>3, <1>5 DEF CanFinish
  <2>2. Drove(d)
    BY <2>1 DEF Drove, Answers
  <2>3. LedgerOK' /\ Kept
    BY <1>2, <2>1, LedgerStays
  <2> QED BY <1>1, <1>2, <2>2, <2>3, JobKeeps
<1>6. CASE JobEnds(d, "error") /\ UNCHANGED rows
  <2>1. Drove(d)
    BY <1>1, <1>6 DEF Drove, Answers
  <2>2. LedgerOK' /\ Kept
    BY <1>2, <1>6, LedgerStays
  <2> QED BY <1>1, <1>2, <2>1, <2>2, JobKeeps
<1> QED BY <1>4, <1>5, <1>6 DEF CompletesRow

LEMMA FreesChannelKeeps ==
  ASSUME IndInv, NEW d \in Drivers, FreesChannel(d)
  PROVE  IndInv'
<1> DEFINE id == job[d].on
<1>1. /\ job[d] \in Job /\ id \in Requests /\ job[d].at = "free" /\ IsFinal(id)
      /\ d \in Requests => run[d].pc = "drive"
  BY DrivesHere DEF FreesChannel, JobSteps, IndInv, JobShape, JobFits
<1>2. LedgerOK' /\ Kept /\ NetworkOK'
  BY RestStays DEF FreesChannel, chain
<1>3. PoolOK'
  BY <1>1, Parts, RestStays, ReturnsChannelKeeps DEF FreesChannel, Job
<1>4. Drove(d)
  BY <1>1 DEF FreesChannel, Drove, Answers, IsFinal
<1> QED BY <1>1, <1>2, <1>3, <1>4, JobKeeps

LEMMA StartsReconcileKeeps ==
  ASSUME IndInv, NEW p \in Replicas, StartsReconcile(p)
  PROVE  IndInv'
<1>1. PICK id \in Requests : /\ rows[id].state = "submitted"
                             /\ job' = [job EXCEPT ![p] = LooksFrom(id)]
  BY DEF StartsReconcile
<1>2. tx[id] # "none"
  BY <1>1 DEF IndInv, RowShape, RowFits
<1>3. /\ LedgerOK' /\ Kept /\ PoolOK' /\ NetworkOK' /\ DrivingOK'
      /\ run' = run
  BY RestStays DEF StartsReconcile, network
<1>4. PICK w \in Job : w = LooksFrom(id) /\ w.at = "look" /\ w.on = id
  BY LooksFromFits
<1>5. JobFits(w)'
  BY <1>2, <1>3, <1>4 DEF JobFits, Kept
<1>6. p \in Drivers /\ p \notin Requests /\ job' = [job EXCEPT ![p] = w]
  BY <1>1, <1>4, LedgerAssumption DEF Drivers
<1>7. JobOK'
  BY <1>3, <1>4, <1>5, <1>6, JobMoves, Parts DEF ThreadsOK
<1>8. RunOK'
  BY <1>3, Parts DEF ThreadsOK, RunOK, RunShape, RunFits
<1> QED BY <1>3, <1>7, <1>8, Assembled

-----------------------------------------------------------------------------
(* The network, clocks and crashes                                          *)

\* Steps that leave every thread where it is.
LEMMA ThreadsStay ==
  ASSUME IndInv, UNCHANGED <<run, job, driving>>, LedgerOK', Kept, PoolOK', NetworkOK'
  PROVE  IndInv'
<1>1. RunOK' /\ DrivingOK'
  BY Parts DEF ThreadsOK, RunOK, DrivingOK, RunShape, RunFits
<1>2. JobOK'
  BY JobsStay, Parts DEF ThreadsOK
<1> QED BY <1>1, <1>2, Assembled

LEMMA NetworkStepKeeps ==
  ASSUME IndInv, NetworkStep
  PROVE  IndInv'
<1>1. ASSUME NEW id \in Requests, IncludesTransaction(id)
      PROVE  IndInv'
  <2>1. PICK result \in {"ok", "bad"} : tx' = [tx EXCEPT ![id] = result]
    BY <1>1 DEF IncludesTransaction
  <2>2. LedgerOK' /\ Kept
    BY <1>1, <2>1, Parts, TxMoves DEF IncludesTransaction, TxStates
  <2>3. Sequence(id) \in Nat
    BY DEF IndInv, TypeOK, Row, Sequence
  <2>4. NetworkOK'
    BY <1>1, <2>3, Parts DEF IncludesTransaction, NetworkOK
  <2> QED BY <1>1, <2>2, <2>4, RestStays, ThreadsStay DEF IncludesTransaction
<1>2. ASSUME NEW id \in Requests, PassesBounds(id)
      PROVE  IndInv'
  <2>1. LedgerOK' /\ Kept
    BY <1>2, Parts, TxMoves DEF PassesBounds, TxStates
  <2> QED BY <1>2, <2>1, RestStays, ThreadsStay DEF PassesBounds
<1>3. ASSUME NEW c \in Channels, UsesChannelAccount(c)
      PROVE  IndInv'
  <2>1. NetworkOK'
    BY <1>3, Parts DEF UsesChannelAccount, NetworkOK
  <2> QED BY <1>3, <2>1, RestStays, ThreadsStay DEF UsesChannelAccount
<1> QED BY <1>1, <1>2, <1>3 DEF NetworkStep

LEMMA ClockStepKeeps ==
  ASSUME IndInv, ClockStep
  PROVE  IndInv'
<1>1. ASSUME NEW id \in Requests, ClaimLapses(id)
      PROVE  IndInv'
  <2> DEFINE x == [rows[id] EXCEPT !.stale = TRUE]
  <2>1. rows[id] \in Row
    BY DEF IndInv, TypeOK
  <2>2. /\ x \in Row /\ x.state = rows[id].state /\ x.owner = rows[id].owner
        /\ x.channel = rows[id].channel
    BY <2>1 DEF Row
  <2>3. rows' = [rows EXCEPT ![id] = x] /\ tx' = tx
    BY <1>1 DEF ClaimLapses, ClaimExpires, network
  <2> HIDE DEF x
  <2>4. LedgerOK' /\ Kept
    BY <2>2, <2>3, RowStays, Parts
  <2> QED BY <1>1, <2>4, RestStays, ThreadsStay DEF ClaimLapses, network
<1>2. ASSUME NEW c \in Channels, CooldownPasses(c) \/ LeaseLapses(c)
      PROVE  IndInv'
  <2>1. PoolOK'
    BY <1>2, Parts, PoolMoves DEF CooldownPasses, LeaseLapses
  <2> QED BY <1>2, <2>1, RestStays, ThreadsStay DEF CooldownPasses, LeaseLapses, network
<1> QED BY <1>1, <1>2 DEF ClockStep

LEMMA CrashesKeeps ==
  ASSUME IndInv, NEW p \in Replicas, Crashes(p)
  PROVE  IndInv'
<1> DEFINE dies == {r \in Requests : ReplicaOf[r] = p /\ run[r].pc \notin {"start", "done"}}
           sending == {d \in dies \cup {p} : job[d].at \in {"send", "reply"}}
<1>1. PoolOK' /\ NetworkOK' /\ tx' = tx
  BY RestStays DEF Crashes
<1>2. DrivingOK'
  BY Parts DEF Crashes, ThreadsOK, DrivingOK
<1>3. ASSUME NEW r \in Requests
      PROVE  /\ run'[r] \in Run /\ RunFits(r, run'[r])
             /\ run'[r].pc = "answer" => run[r].pc = "answer" /\ r \notin dies
  <2>1. run[r] \in Run /\ RunFits(r, run[r])
    BY Here
  <2>2. CASE r \in dies
    <3> DEFINE v == [NoRun EXCEPT !.pc = "dead"]
    <3>1. v \in Run /\ v.pc = "dead" /\ v.signer = "off"
      BY Blank DEF Run, RunPcs
    <3>2. RunFits(r, v)
      BY <3>1 DEF RunFits, OnChainPcs, OffChainPcs, SubmittingSteps
    <3>3. run'[r] = v
      BY <2>2 DEF Crashes
    <3> QED BY <3>1, <3>2, <3>3
  <2>3. CASE r \notin dies /\ ReplicaOf[r] = p /\ Submitting(r)
    <3>1. run'[r] = Ended(run[r].answer)
      BY <2>3 DEF Crashes
    <3> QED BY <2>1, <3>1, EndedFits DEF Run
  <2>4. CASE r \notin dies /\ ~(ReplicaOf[r] = p /\ Submitting(r))
    <3>1. run'[r] = run[r]
      BY <2>4 DEF Crashes
    <3> QED BY <2>1, <2>4, <3>1
  <2> QED BY <2>2, <2>3, <2>4
<1>4. RunOK'
  <2>1. run' = [r \in Requests |-> run'[r]]
    BY DEF Crashes
  <2> QED BY <1>3, <2>1 DEF RunOK, RunShape, RunFits
<1>5. LedgerOK' /\ Kept
  <2>1. ASSUME NEW id \in Requests
        PROVE  /\ rows'[id] \in Row /\ rows'[id].state = rows[id].state
               /\ rows'[id].owner = rows[id].owner /\ rows'[id].channel = rows[id].channel
    <3> DEFINE S == rows[id].sends
               T == IF S \cap sending = {} THEN S ELSE (S \ sending) \cup {LostSend}
               x == [rows[id] EXCEPT !.sends = T]
    <3>1. rows[id] \in Row
      BY DEF IndInv, TypeOK
    <3>2. T \in SUBSET (Drivers \cup {FirstSend, LostSend})
      BY <3>1 DEF Row
    <3>3. rows'[id] = x
      BY DEF Crashes
    <3> HIDE DEF T
    <3> QED BY <3>1, <3>2, <3>3 DEF Row
  <2>2. rows' = [id \in Requests |-> rows'[id]]
    BY DEF Crashes
  <2>3. rows' \in [Requests -> Row]
    BY <2>1, <2>2
  <2>4. RowShape'
    BY <1>1, <2>1 DEF IndInv, RowShape, RowFits, IsFinal
  <2>5. OneRowPerKey'
    BY <2>1 DEF IndInv, OneRowPerKey, Exists
  <2>6. tx' \in [Requests -> TxStates]
    BY <1>1 DEF IndInv, TypeOK
  <2>7. Kept
    BY <1>1, <2>1 DEF Kept, IsFinal
  <2> QED BY <2>3, <2>4, <2>5, <2>6, <2>7 DEF LedgerOK
<1>6. JobOK'
  <2>1. job' = [d \in Drivers |-> IF d \in dies \cup {p} THEN NoJob ELSE job[d]]
    BY DEF Crashes
  <2>2. job' \in [Drivers -> Job]
    BY <2>1, Blank DEF IndInv, TypeOK
  <2>3. \A d \in Drivers : JobFits(job[d])'
    BY <1>5, <2>1, Blank DEF IndInv, JobShape, JobFits, Kept
  <2>4. \A r \in Requests : run'[r].pc = "answer" => job'[r].at = "look"
    BY <1>3, <2>1, LedgerAssumption DEF IndInv, JobShape, Drivers
  <2> QED BY <2>2, <2>3, <2>4 DEF JobOK, JobShape
<1> QED BY <1>1, <1>2, <1>4, <1>5, <1>6, Assembled

-----------------------------------------------------------------------------
(* The specification                                                        *)

LEMMA InitOK == Init => IndInv
<1> SUFFICES ASSUME Init PROVE IndInv
  OBVIOUS
<1>1. \A r \in Requests : run[r] = NoRun /\ rows[r] = NoRow /\ tx[r] = "none"
  BY DEF Init, LedgerInit
<1>2. \A d \in Drivers : job[d] = NoJob
  BY DEF Init
<1>3. TypeOK
  <2>1. rows \in [Requests -> Row] /\ run \in [Requests -> Run] /\ job \in [Drivers -> Job]
    BY Blank DEF Init, LedgerInit
  <2>2. pool \in [Channels -> Slot]
    BY DEF Init, PoolInit, FreeSlot, Slot
  <2>3. /\ driving \in [Replicas -> SUBSET Requests]
        /\ tx \in [Requests -> TxStates]
        /\ accountSeq \in [Channels -> Nat]
        /\ faults \in [failures : Nat, foreign : Nat]
    BY DEF Init, TxStates
  <2> QED BY <2>1, <2>2, <2>3 DEF TypeOK
<1>4. RunShape
  BY <1>1, Blank DEF RunShape, RunFits, OnChainPcs, OffChainPcs, SubmittingSteps
<1>5. RowShape
  BY <1>1, Blank DEF RowShape, RowFits, FinalStates
<1>6. JobShape
  BY <1>1, <1>2, Blank DEF JobShape, JobFits
<1>7. OneRowPerKey
  BY <1>1, Blank DEF OneRowPerKey, Exists
<1> QED BY <1>3, <1>4, <1>5, <1>6, <1>7 DEF IndInv

LEMMA NextKeeps == IndInv /\ [Next]_vars => IndInv'
<1> SUFFICES ASSUME IndInv, [Next]_vars PROVE IndInv'
  OBVIOUS
<1>1. ASSUME NEW r \in Requests, RequestStep(r)
      PROVE  IndInv'
  BY <1>1, ClaimsKeeps, AnswersRepeatKeeps, AwaitsExistingKeeps, CallThrowsKeeps,
     SettlesOffChainKeeps, FinishesOffChainKeeps, AbandonsOffChainKeeps,
     LeasesChannelKeeps, GetsNoChannelKeeps, ChecksChannelKeeps,
     QuarantinesAgainKeeps, AbandonsUnleasedKeeps, RaceKeeps, FetchesRowKeeps,
     ReleasesLostKeeps, AbandonsClaimKeeps, AnswersUnsignedKeeps,
     RecordsFirstAnswerKeeps DEF RequestStep
<1>2. ASSUME NEW r \in Requests, SignerStep(r)
      PROVE  IndInv'
  BY <1>2, BuildsTransactionKeeps, RefusesToSignKeeps, SignsFeeBumpKeeps,
     RecordsEnvelopeKeeps, SendsFirstKeeps DEF SignerStep
<1>3. ASSUME NEW d \in Drivers, JobStep(d)
      PROVE  IndInv'
  BY <1>3, LooksKeeps, SendsKeeps, RecordsAnswerKeeps, WeighsRejectionKeeps,
     ReloadsKeeps, MarksReleasedKeeps, HandsBackKeeps, CompletesRowKeeps,
     FreesChannelKeeps DEF JobStep
<1>4. ASSUME NEW p \in Replicas, StartsReconcile(p) \/ Crashes(p)
      PROVE  IndInv'
  BY <1>4, StartsReconcileKeeps, CrashesKeeps
<1>5. ASSUME NetworkStep \/ ClockStep
      PROVE  IndInv'
  BY <1>5, NetworkStepKeeps, ClockStepKeeps
<1>6. ASSUME UNCHANGED vars
      PROVE  IndInv'
  <2>1. /\ rows' = rows /\ pool' = pool /\ run' = run /\ job' = job /\ driving' = driving
        /\ tx' = tx /\ accountSeq' = accountSeq /\ faults' = faults
    BY <1>6 DEF vars
  <2>2. LedgerOK' /\ Kept
    BY <2>1, LedgerStays, Parts
  <2> QED BY <2>1, <2>2, RestStays, ThreadsStay
<1> QED BY <1>1, <1>2, <1>3, <1>4, <1>5, <1>6 DEF Next

\* The shape of threads, jobs and rows that the handlers of engine.ts rely on
\* without checking it: who drives a row drives a recorded one, a final row has
\* its transaction, and a key has one row.
THEOREM Inductive == Spec => []IndInv
BY InitOK, NextKeeps, PTL DEF Spec

\* Every variable keeps its type: no handler reads a field another left unset.
THEOREM TypeCorrect == Spec => []TypeOK
<1>1. IndInv => TypeOK
  BY DEF IndInv
<1> QED BY <1>1, Inductive, PTL

\* A payment has one recorded transaction at most, and its row stays: whatever
\* interleaving of replicas, repeats, takeovers, late signatures, lost answers
\* and crashes (recordEnvelope, abandon and claim of settlement-ledger.ts).
THEOREM PaidOnce == Spec => []OneTransactionPerKey
<1>1. IndInv => OneTransactionPerKey
  <2> SUFFICES ASSUME IndInv PROVE OneTransactionPerKey
    OBVIOUS
  <2>1. \A id \in Requests :
          tx[id] # "none" => rows[id].state \in {"submitted"} \cup FinalStates
    BY DEF IndInv, RowShape, RowFits
  <2>2. \A id \in Requests : tx[id] # "none" => Exists(id)
    BY <2>1 DEF Exists, FinalStates
  <2> QED BY <2>1, <2>2 DEF IndInv, OneRowPerKey, OneTransactionPerKey
<1> QED BY <1>1, Inductive, PTL
=============================================================================
