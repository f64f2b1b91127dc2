------------------------ MODULE SettlementChannelProofs ------------------------
(***************************************************************************)
(* What needs settlements that end within their lease (~OutlivesLease).    *)
(* Channels are leased exclusively: ChannelInv of SettlementInvariants is  *)
(* inductive with the invariants of SettlementSafetyProofs.  No step adds  *)
(* an occupant to a channel but the lease of a free one, and a channel is  *)
(* given back by its occupant, who holds nothing of it afterwards.         *)
(* And the engine implements Payment: every step of it is a step of one    *)
(* payment, or leaves every payment as it is.                              *)
(***************************************************************************)
EXTENDS SettlementRefinement, SettlementSafetyProofs

-----------------------------------------------------------------------------
(* Occupants                                                                *)

Unwritten == {"absent", "claimed"}

\* The rows give request a nothing new.
RowsHold(a) ==
  \A id \in Requests :
    /\ Recorded(id, a) => rows'[id].state \notin Unwritten /\ rows'[id].owner = a
    /\ rows'[id].owner = a /\ rows'[id].state \notin Unwritten => Recorded(id, a)
    /\ rows'[id].owner = a /\ rows'[id].state = "claimed" => OwnsClaim(id, a)
    /\ /\ rows'[id].owner = a /\ rows'[id].state = "submitted" /\ ~rows'[id].released
       => /\ rows[id].owner = a /\ rows[id].state = "submitted" /\ ~rows[id].released
          /\ rows'[id].channel = rows[id].channel

\* A thread that leases nothing new, and signs on as it may.
ThreadHolds(r) ==
  /\ run'[r].pc \in LeasePcs =>
       /\ run[r].pc \in LeasePcs
       /\ run'[r].chan = run[r].chan /\ run'[r].rec = run[r].rec
  /\ run'[r].signer = "writing" =>
       /\ run[r].signer = "writing" \/ run[r].pc \in LeasePcs
       /\ run'[r].chan = run[r].chan
  /\ run'[r].signer \in SigningSteps =>
       /\ run'[r].rec = run[r].rec
       /\ run[r].signer \in SigningSteps \/ run[r].pc = "check"
       /\ run'[r].pc = "race" \/ run'[r].closed

\* A driver that hands back what it handed back before, or what its
\* settlement still held.
JobHolds(d) ==
  Returning(d)' =>
    \/ job'[d].at = job[d].at /\ job'[d].on = job[d].on
    \/ LET id == job'[d].on IN
         /\ id \in Requests /\ tx[id] # "none"
         /\ rows[id].state = "submitted" /\ ~rows[id].released

\* A request recorded nothing while it checks its channel.
LEMMA SigningUnrecorded ==
  ASSUME IndInv, OwnInv, ChannelInv, NEW r \in Requests,
         run[r].signer \in SigningSteps \/ run[r].pc = "check"
  PROVE  run[r].rec \in Requests /\ ~Recorded(run[r].rec, r)
<1>1. CASE run[r].signer \in SigningSteps
  BY <1>1, Here DEF ChannelInv, SigningFits, RunFits, SigningSteps, SubmittingSteps
<1>2. CASE run[r].pc = "check"
  <2>1. run[r].rec \in Requests
    BY <1>2, Here DEF RunFits
  <2>2. Recorded(run[r].rec, r) => FALSE
    BY <1>2, <2>1, OwnHere DEF Recorded, Exists, OwnerFits, Unsubmitted
  <2> QED BY <2>1, <2>2
<1> QED BY <1>1, <1>2

LEMMA ThreadStays ==
  ASSUME ChannelInv, NEW r \in Requests, run'[r] = run[r]
  PROVE  ThreadHolds(r)
BY DEF ChannelInv, SigningFits, ThreadHolds

LEMMA SigningKeeps ==
  ASSUME IndInv, OwnInv, ChannelInv, NEW r \in Requests, RowsHold(r), ThreadHolds(r)
  PROVE  SigningFits(r)'
<1>1. run'[r].pc \in LeasePcs => run'[r].chan \in Channels
  BY DEF ThreadHolds, ChannelInv, SigningFits
<1>2. ASSUME run'[r].signer \in SigningSteps
      PROVE  /\ rows'[run'[r].rec].state \in Unwritten \/ rows'[run'[r].rec].owner # r
             /\ run'[r].pc = "race" \/ run'[r].closed
  <2>1. /\ run'[r].rec = run[r].rec
        /\ run[r].signer \in SigningSteps \/ run[r].pc = "check"
        /\ run'[r].pc = "race" \/ run'[r].closed
    BY <1>2 DEF ThreadHolds
  <2>2. PICK id \in Requests : id = run[r].rec /\ ~Recorded(id, r)
    BY <2>1, SigningUnrecorded
  <2>3. rows'[id].state \in Unwritten \/ rows'[id].owner # r
    BY <2>2 DEF RowsHold
  <2> QED BY <2>1, <2>2, <2>3
<1> QED BY <1>1, <1>2 DEF SigningFits, Recorded, Unwritten

\* What is leased or written was leased or written before.
LEMMA HoldsLease ==
  ASSUME IndInv, OwnInv, ChannelInv, NEW r \in Requests, RowsHold(r), ThreadHolds(r),
         NEW c \in Channels, Leases(c, r)' \/ Writes(c, r)'
  PROVE  Occupies(c, r)
<1>1. CASE Leases(c, r)'
  <2>1. /\ run'[r].pc \in LeasePcs /\ run'[r].chan = c
        /\ rows'[run'[r].rec].state \in Unwritten \/ rows'[run'[r].rec].owner # r
    BY <1>1 DEF Leases, Recorded, Unwritten
  <2>2. /\ run[r].pc \in LeasePcs /\ run[r].chan = c /\ run'[r].rec = run[r].rec
    BY <2>1 DEF ThreadHolds
  <2>3. run[r].rec \in Requests
    BY <2>2, Here DEF RunFits, LeasePcs
  <2>4. ~Recorded(run[r].rec, r)
    BY <2>1, <2>2, <2>3 DEF RowsHold
  <2> QED BY <2>2, <2>4 DEF Leases, Occupies
<1>2. CASE Writes(c, r)'
  <2>1. /\ run'[r].signer = "writing" /\ run'[r].chan = c
        /\ rows'[run'[r].rec].state = "claimed" /\ rows'[run'[r].rec].owner = r
    BY <1>2 DEF Writes, OwnsClaim
  <2>2. /\ run[r].signer = "writing" \/ run[r].pc \in LeasePcs
        /\ run[r].chan = c /\ run'[r].rec = run[r].rec
        /\ run[r].signer \in SigningSteps \/ run[r].pc = "check"
    BY <2>1 DEF ThreadHolds, SigningSteps
  <2>3. run[r].rec \in Requests /\ ~Recorded(run[r].rec, r)
    BY <2>2, SigningUnrecorded
  <2>4. OwnsClaim(run[r].rec, r)
    BY <2>1, <2>2, <2>3 DEF RowsHold
  <2> QED BY <2>2, <2>3, <2>4 DEF Writes, Leases, Occupies
<1> QED BY <1>1, <1>2

\* What is settled was settled before, what is handed back was held before.
LEMMA HoldsSettling ==
  ASSUME NEW r \in Requests, RowsHold(r), NEW c \in Channels, Settles(c, r)'
  PROVE  Settles(c, r)
BY DEF Settles, OpenOn, RowsHold

LEMMA HoldsReturn ==
  ASSUME IndInv, SourcesStay, \A d \in Drivers : JobHolds(d),
         NEW r \in Requests, NEW c \in Channels, Returns(c, r)'
  PROVE  Settles(c, r) \/ Returns(c, r)
<1>1. PICK d \in Drivers : /\ job'[d].at \in {"free", "hand"}
                           /\ rows'[job'[d].on].channel = c
                           /\ rows'[job'[d].on].owner = r
  BY DEF Returns, HandingBack, Channel
<1>2. CASE job'[d].at = job[d].at /\ job'[d].on = job[d].on
  <2>1. job[d].on \in Requests /\ tx[job[d].on] # "none"
    BY <1>1, <1>2 DEF IndInv, JobShape, JobFits
  <2>2. rows[job[d].on].channel = c /\ rows[job[d].on].owner = r
    BY <1>1, <1>2, <2>1 DEF SourcesStay
  <2> QED BY <1>1, <1>2, <2>2 DEF Returns, HandingBack, Channel
<1>3. ASSUME NEW id \in Requests, id = job'[d].on, tx[id] # "none",
             rows[id].state = "submitted", ~rows[id].released
      PROVE  Settles(c, r)
  <2>1. rows[id].channel = c /\ rows[id].owner = r
    BY <1>1, <1>3 DEF SourcesStay
  <2> QED BY <1>3, <2>1 DEF Settles, OpenOn
<1> QED BY <1>1, <1>2, <1>3 DEF JobHolds, Returning


LEMMA HoldsKeeps ==
  ASSUME IndInv, OwnInv, ChannelInv, SourcesStay, ReturnShape',
         \A d \in Drivers : JobHolds(d),
         \A a \in Requests :
           \/ RowsHold(a) /\ ThreadHolds(a)
           \/ /\ SigningFits(a)'
              /\ \A c \in Channels : Leases(c, a)' \/ Writes(c, a)' \/ Settles(c, a)' => Occupies(c, a),
         \A c \in Channels :
           \/ pool'[c].leased = pool[c].leased /\ pool'[c].expired = pool[c].expired
           \/ \A a \in Requests : Occupies(c, a) => ~Occupies(c, a)'
  PROVE  ChannelInv'
<1>1. \A c \in Channels, a \in Requests : Occupies(c, a)' => Occupies(c, a)
  <2> SUFFICES ASSUME NEW c \in Channels, NEW a \in Requests, Occupies(c, a)'
               PROVE  Occupies(c, a)
    OBVIOUS
  <2>1. CASE Returns(c, a)'
    BY <2>1, HoldsReturn DEF Occupies
  <2>2. CASE RowsHold(a) /\ ThreadHolds(a) /\ (Leases(c, a)' \/ Writes(c, a)' \/ Settles(c, a)')
    BY <2>2, HoldsLease, HoldsSettling DEF Occupies
  <2>3. CASE Leases(c, a)' \/ Writes(c, a)' \/ Settles(c, a)' => Occupies(c, a)
    BY <2>1, <2>3 DEF Occupies
  <2> QED BY <2>1, <2>2, <2>3 DEF Occupies
<1>2. OccupiedShape'
  BY <1>1 DEF ChannelInv, OccupiedShape
<1>3. \A a \in Requests : SigningFits(a)'
  BY SigningKeeps
<1> QED BY <1>2, <1>3 DEF ChannelInv

\* Nobody returns more than before.
LEMMA ReturnsKeep ==
  ASSUME IndInv, ChannelInv,
         \A d \in Drivers : Returning(d)' => job'[d].at = job[d].at /\ job'[d].on = job[d].on,
         \A id \in Requests : tx[id] # "none" =>
           \/ rows'[id].released = rows[id].released
           \/ rows[id].state = "submitted" /\ ~rows[id].released /\ rows'[id].released
  PROVE  ReturnShape' /\ \A d \in Drivers : JobHolds(d)
<1>1. ASSUME NEW d \in Drivers PROVE ReturnFits(d)'
  <2> SUFFICES ASSUME Returning(d)' PROVE ReturnFits(d)'
    BY DEF ReturnFits, Returning
  <2>1. job'[d].at = job[d].at /\ job'[d].on = job[d].on /\ Returning(d)
    BY DEF Returning
  <2>2. /\ job[d].on \in Requests /\ tx[job[d].on] # "none" /\ ReturnFits(d)
        /\ job[d].at = "free" => IsFinal(job[d].on)
    BY <2>1 DEF Returning, IndInv, JobShape, JobFits, ChannelInv, ReturnShape
  <2>3. job[d].at = "free" => rows[job[d].on].state # "submitted"
    BY <2>2 DEF IsFinal, FinalStates
  <2> QED BY <2>1, <2>2, <2>3 DEF ReturnFits, Returning
<1>2. ASSUME NEW d \in Drivers, NEW e \in Drivers, Returning(d)', Returning(e)',
             job'[d].on = job'[e].on
      PROVE  d = e
  <2>1. /\ job'[d].at = job[d].at /\ job'[d].on = job[d].on
        /\ job'[e].at = job[e].at /\ job'[e].on = job[e].on
    BY <1>2
  <2>2. Returning(d) /\ Returning(e) /\ job[d].on = job[e].on
    BY <1>2, <2>1 DEF Returning
  <2> QED BY <2>2 DEF ChannelInv, ReturnShape
<1>3. \A d \in Drivers : JobHolds(d)
  BY DEF JobHolds
<1> QED BY <1>1, <1>2, <1>3 DEF ReturnShape

LEMMA SameRowsHold ==
  ASSUME UNCHANGED rows
  PROVE  SourcesStay /\ \A a \in Requests : RowsHold(a)
BY DEF SourcesStay, RowsHold, Recorded, OwnsClaim, Unwritten

-----------------------------------------------------------------------------
(* Threads                                                                  *)

LEMMA EndsHolds ==
  ASSUME IndInv, ChannelInv, NEW r \in Requests, NEW a, EndsTo(r, a), run[r].pc # "race"
  PROVE  \A q \in Requests : ThreadHolds(q)
<1>1. \A q \in Requests : q # r => run'[q] = run[q]
  BY DEF EndsTo, OverTo, ThreadTo
<1>2. ThreadHolds(r)
  <2>1. run'[r].pc = "done"
    BY DEF EndsTo, OverTo, ThreadTo
  <2>2. \/ /\ run'[r].rec = run[r].rec /\ run'[r].chan = run[r].chan
           /\ run'[r].signer = run[r].signer /\ run'[r].closed = run[r].closed
        \/ run'[r].signer = "off"
    BY DEF EndsTo, OverTo, ThreadTo
  <2>3. run[r].signer \in SigningSteps => run[r].closed
    BY DEF ChannelInv, SigningFits
  <2> QED BY <2>1, <2>2, <2>3 DEF ThreadHolds, LeasePcs, SigningSteps
<1> QED BY <1>1, <1>2, ThreadStays

LEMMA GoesHolds ==
  ASSUME IndInv, ChannelInv, NEW r \in Requests, NEW pc, PcTo(r, pc), run[r].pc # "race",
         pc \in LeasePcs => run[r].pc \in LeasePcs
  PROVE  \A q \in Requests : ThreadHolds(q)
<1>1. /\ \A q \in Requests : q # r => run'[q] = run[q]
      /\ run'[r].pc = pc /\ run'[r].rec = run[r].rec /\ run'[r].chan = run[r].chan
      /\ run'[r].signer = run[r].signer /\ run'[r].closed = run[r].closed
  BY DEF PcTo, ThreadTo
<1>2. run[r].signer \in SigningSteps => run[r].closed
  BY DEF ChannelInv, SigningFits
<1>3. ThreadHolds(r)
  BY <1>1, <1>2 DEF ThreadHolds
<1> QED BY <1>1, <1>3, ThreadStays

LEMMA StopsHolds ==
  ASSUME IndInv, ChannelInv, NEW r \in Requests, NEW step,
         StopsTo(r) \/ (SignerTo(r, step) /\ step \notin SigningSteps)
  PROVE  \A q \in Requests : ThreadHolds(q)
<1>1. /\ \A q \in Requests : q # r => run'[q] = run[q]
      /\ run'[r].pc = run[r].pc /\ run'[r].signer \notin SigningSteps
      /\ run'[r].pc # "done" => run'[r].rec = run[r].rec /\ run'[r].chan = run[r].chan
  BY DEF StopsTo, SignerTo, OverTo, ThreadTo, SigningSteps
<1>2. ThreadHolds(r)
  BY <1>1 DEF ThreadHolds, LeasePcs, SigningSteps
<1> QED BY <1>1, <1>2, ThreadStays

LEMMA SignsHolds ==
  ASSUME IndInv, ChannelInv, NEW r \in Requests, run[r].signer \in SigningSteps,
         NEW step \in SigningSteps, SignerTo(r, step),
         step = "writing" => ~run[r].closed
  PROVE  \A q \in Requests : ThreadHolds(q)
<1>1. /\ \A q \in Requests : q # r => run'[q] = run[q]
      /\ run'[r].pc = run[r].pc /\ run'[r].rec = run[r].rec /\ run'[r].chan = run[r].chan
      /\ run'[r].signer = step /\ run'[r].closed = run[r].closed
  BY DEF SignerTo, ThreadTo
<1>2. run[r].pc = "race" \/ run[r].closed
  BY DEF ChannelInv, SigningFits
<1>3. ThreadHolds(r)
  BY <1>1, <1>2 DEF ThreadHolds, LeasePcs
<1> QED BY <1>1, <1>3, ThreadStays

\* A step that writes no row, and hands nothing more back.
LEMMA QuietChannels ==
  ASSUME IndInv, OwnInv, ChannelInv, UNCHANGED rows,
         \A d \in Drivers : Returning(d)' => job'[d].at = job[d].at /\ job'[d].on = job[d].on,
         \A q \in Requests : ThreadHolds(q),
         \A c \in Channels :
           \/ pool'[c].leased = pool[c].leased /\ pool'[c].expired = pool[c].expired
           \/ \A a \in Requests : Occupies(c, a) => ~Occupies(c, a)'
  PROVE  ChannelInv'
<1>1. ReturnShape' /\ \A d \in Drivers : JobHolds(d)
  BY ReturnsKeep
<1>2. SourcesStay /\ \A a \in Requests : RowsHold(a)
  BY SameRowsHold
<1> QED BY <1>1, <1>2, HoldsKeeps

\* A step of threads alone.
LEMMA CalmChannels ==
  ASSUME IndInv, OwnInv, ChannelInv, UNCHANGED <<rows, job>>,
         \A q \in Requests : ThreadHolds(q),
         \A c \in Channels :
           \/ pool'[c].leased = pool[c].leased /\ pool'[c].expired = pool[c].expired
           \/ \A a \in Requests : Occupies(c, a) => ~Occupies(c, a)'
  PROVE  ChannelInv'
BY QuietChannels DEF Returning

LEMMA ThreadChannels ==
  ASSUME IndInv, OwnInv, ChannelInv, NEW r \in Requests,
         \/ CallThrows(r) \/ SettlesOffChain(r) \/ GetsNoChannel(r)
         \/ AnswersRepeat(r) \/ AwaitsExisting(r)
         \/ BuildsTransaction(r) \/ RefusesToSign(r) \/ SignsFeeBump(r) \/ SendsFirst(r)
         \/ SubmissionReturns(r) \/ SignWindowElapses(r) \/ ConfirmWindowElapses(r)
  PROVE  ChannelInv'
<1>1. ASSUME UNCHANGED <<rows, pool, job>>, \A q \in Requests : ThreadHolds(q)
      PROVE  ChannelInv'
  BY <1>1, CalmChannels
<1>2. CASE CallThrows(r)
  <2>1. /\ run[r].pc # "race" /\ EndsTo(r, "error") /\ UNCHANGED <<rows, pool, job>>
    BY <1>2, ThreadSteps DEF Unguarded
  <2> QED BY <1>1, <2>1, EndsHolds
<1>3. CASE SettlesOffChain(r) \/ GetsNoChannel(r)
  <2>1. PICK pc \in {"offFinish", "offAbandon", "unleased"} :
          PcTo(r, pc) /\ UNCHANGED <<rows, pool, job>> /\ run[r].pc # "race"
    BY <1>3, ThreadSteps
  <2>2. pc \notin LeasePcs
    BY DEF LeasePcs
  <2> QED BY <1>1, <2>1, <2>2, GoesHolds
<1>4. CASE AwaitsExisting(r)
  <2>1. PICK a : EndsTo(r, a) /\ UNCHANGED <<rows, pool, job>> /\ run[r].pc # "race"
    BY <1>4, AwaitsExistingStep
  <2> QED BY <1>1, <2>1, EndsHolds
<1>5. CASE AnswersRepeat(r)
  <2>1. run[r].pc = "start" /\ UNCHANGED <<rows, pool, job>>
    BY <1>5, AnswersRepeatStep
  <2>2. run[r].signer = "off"
    BY <2>1, Here DEF RunFits
  <2>3. /\ \A q \in Requests : q # r => run'[q] = run[q]
        /\ run'[r].pc \in {"done", "repeat"} /\ run'[r].signer = "off"
    BY <1>5, <2>2, AnswersRepeatStep DEF OverTo, ThreadTo
  <2>4. ThreadHolds(r)
    BY <2>3 DEF ThreadHolds, LeasePcs, SigningSteps
  <2> QED BY <1>1, <2>1, <2>3, <2>4, ThreadStays
<1>6. CASE BuildsTransaction(r)
  <2>1. run[r].signer = "read" /\ SignerTo(r, "built") /\ UNCHANGED <<rows, pool, job>>
    BY <1>6, BuildsTransactionStep
  <2> QED BY <1>1, <2>1, SignsHolds DEF SigningSteps
<1>7. CASE SignsFeeBump(r)
  <2>1. /\ run[r].signer = "built" /\ UNCHANGED <<rows, pool, job>>
        /\ StopsTo(r) \/ (~run[r].closed /\ SignerTo(r, "writing"))
    BY <1>7, SignsFeeBumpStep
  <2> QED BY <1>1, <2>1, SignsHolds, StopsHolds DEF SigningSteps
<1>8. CASE RefusesToSign(r)
  <2>1. StopsTo(r) /\ UNCHANGED <<rows, pool, job>>
    BY <1>8, RefusesToSignStep
  <2> QED BY <1>1, <2>1, StopsHolds
<1>9. CASE SendsFirst(r)
  <2>1. UNCHANGED <<rows, pool, job>>
    BY <1>9, SendsFirstStep
  <2>2. PICK step \in {"accepted", "unheard", "refused"} : SignerTo(r, step) \/ StopsTo(r)
    BY <1>9, SendsFirstStep
  <2> QED BY <1>1, <2>1, <2>2, StopsHolds DEF SigningSteps
<1>10. CASE SubmissionReturns(r) \/ SignWindowElapses(r) \/ ConfirmWindowElapses(r)
  <2>1. PICK result \in RaceResults :
          /\ run[r].pc = "race" /\ UNCHANGED <<rows, pool, job>>
          /\ ThreadTo(r, "fetch", run[r].rec, run[r].chan, ~Noted(r),
                      IF Submitting(r) THEN run[r].signer ELSE "stopped",
                      result, run[r].answer)
    BY <1>10, RaceStep
  <2>2. /\ \A q \in Requests : q # r => run'[q] = run[q]
        /\ run'[r].pc = "fetch" /\ run'[r].rec = run[r].rec /\ run'[r].chan = run[r].chan
        /\ run'[r].closed = ~Noted(r)
        /\ run'[r].signer \in {run[r].signer, "stopped"}
    BY <2>1 DEF ThreadTo
  <2>3. run[r].signer \in SigningSteps => ~Noted(r)
    BY DEF SigningSteps, Noted
  <2>4. ThreadHolds(r)
    BY <2>1, <2>2, <2>3 DEF ThreadHolds, LeasePcs, SigningSteps
  <2> QED BY <1>1, <2>1, <2>2, <2>4, ThreadStays
<1> QED BY <1>2, <1>3, <1>4, <1>5, <1>6, <1>7, <1>8, <1>9, <1>10

LEMMA FindsRowChannels ==
  ASSUME IndInv, OwnInv, ChannelInv, NEW r \in Requests, FetchesRow(r) \/ RechecksRow(r)
  PROVE  ChannelInv'
<1>1. PICK pc \in {"answer", "abandon", "lost", "unsigned"} :
        /\ PcTo(r, pc) /\ UNCHANGED <<rows, pool>>
        /\ run[r].pc \in {"fetch", "recheck"}
        /\ job' = job \/ LooksTo(r, run[r].rec)
  BY FetchesRowStep, RechecksRowStep
<1>2. \A q \in Requests : ThreadHolds(q)
  BY <1>1, GoesHolds DEF LeasePcs
<1>3. \A d \in Drivers : Returning(d)' => job'[d].at = job[d].at /\ job'[d].on = job[d].on
  BY <1>1 DEF LooksTo, DriverTo, Returning
<1> QED BY <1>1, <1>2, <1>3, QuietChannels

LEMMA ChecksChannelChannels ==
  ASSUME IndInv, OwnInv, ChannelInv, NEW r \in Requests, ChecksChannel(r)
  PROVE  ChannelInv'
<1>1. /\ run[r].pc = "check" /\ UNCHANGED <<rows, job>> /\ run[r].chan \in Channels
      /\ TakeQuarantineSequence(run[r].chan) \/ UNCHANGED pool
  BY ChecksChannelStep
<1>2. \A c \in Channels :
        pool'[c].leased = pool[c].leased /\ pool'[c].expired = pool[c].expired
  <2>1. pool \in [Channels -> Slot]
    BY DEF IndInv, TypeOK
  <2> QED BY <1>1, <2>1 DEF TakeQuarantineSequence, Slot
<1>3. \A q \in Requests : ThreadHolds(q)
  <2>1. CASE PcTo(r, "requarantine")
    BY <1>1, <2>1, GoesHolds DEF LeasePcs
  <2>2. CASE ThreadTo(r, "race", run[r].rec, run[r].chan, run[r].closed,
                      "read", run[r].raced, run[r].answer)
    <3>1. /\ \A q \in Requests : q # r => run'[q] = run[q]
          /\ run'[r].pc = "race" /\ run'[r].rec = run[r].rec /\ run'[r].chan = run[r].chan
          /\ run'[r].signer = "read"
      BY <2>2 DEF ThreadTo
    <3>2. ThreadHolds(r)
      BY <1>1, <3>1 DEF ThreadHolds, LeasePcs
    <3> QED BY <3>1, <3>2, ThreadStays
  <2> QED BY <2>1, <2>2, ChecksChannelStep
<1> QED BY <1>1, <1>2, <1>3, CalmChannels

-----------------------------------------------------------------------------
(* Rows                                                                     *)

\* What occupants hold of a row is not written.
LEMMA FieldsHold ==
  ASSUME \A id \in Requests :
           /\ rows'[id].state = rows[id].state /\ rows'[id].owner = rows[id].owner
           /\ rows'[id].channel = rows[id].channel /\ rows'[id].seq = rows[id].seq
           /\ rows'[id].released = rows[id].released
  PROVE  SourcesStay /\ \A a \in Requests : RowsHold(a)
BY DEF SourcesStay, RowsHold, Recorded, OwnsClaim, Unwritten

LEMMA SendsHold ==
  ASSUME NEW id \in Requests, NEW accepted, NEW sends, SendsTo(id, accepted, sends)
  PROVE  /\ SourcesStay /\ \A a \in Requests : RowsHold(a)
         /\ \A i \in Requests : rows'[i].released = rows[i].released
<1>1. \A i \in Requests :
        /\ rows'[i].state = rows[i].state /\ rows'[i].owner = rows[i].owner
        /\ rows'[i].channel = rows[i].channel /\ rows'[i].seq = rows[i].seq
        /\ rows'[i].released = rows[i].released
  BY DEF SendsTo, RowTo
<1> QED BY <1>1, FieldsHold

\* A claim of r's own is written, and its owner stays the only one concerned.
LEMMA ClaimsHold ==
  ASSUME IndInv, NEW r \in Requests, NEW id \in Requests,
         \A i \in Requests : i # id => rows'[i] = rows[i],
         rows[id].state \in Unwritten,
         rows'[id].owner = r \/ rows'[id].state = "absent"
  PROVE  /\ SourcesStay
         /\ \A a \in Requests : a # r => RowsHold(a)
         /\ rows'[id].state = "absent" => RowsHold(r)
         /\ \A i \in Requests : tx[i] # "none" => rows'[i] = rows[i]
<1>1. tx[id] = "none"
  BY Unrecorded DEF Unwritten
<1> QED BY <1>1 DEF SourcesStay, RowsHold, Recorded, OwnsClaim, Unwritten

LEMMA ClaimsChannels ==
  ASSUME IndInv, OwnInv, ChannelInv, NEW r \in Requests, Claims(r)
  PROVE  ChannelInv'
<1>1. PICK id, channel, seq, accepted, sends, released :
        /\ id \in Requests
        /\ UNCHANGED <<pool, job>> /\ run[r].pc = "start"
        /\ ThreadTo(r, FirstStep(r), id, run[r].chan, run[r].closed,
                    run[r].signer, run[r].raced, run[r].answer)
        /\ (Find(KeyOf[id]) = {}) \/ rows[id].state = "claimed"
        /\ RowTo(id, "claimed", r, channel, seq, accepted, sends, released)
  BY ClaimsStep, Zenon
<1>2. /\ \A i \in Requests : i # id => rows'[i] = rows[i]
      /\ rows'[id].state = "claimed" /\ rows'[id].owner = r
  BY <1>1 DEF RowTo
<1>3. rows[id].state \in Unwritten
  BY <1>1 DEF Find, Exists, Unwritten
<1>4. /\ SourcesStay /\ \A a \in Requests : a # r => RowsHold(a)
      /\ \A i \in Requests : tx[i] # "none" => rows'[i] = rows[i]
  BY <1>1, <1>2, <1>3, ClaimsHold
<1>5. /\ \A q \in Requests : q # r => run'[q] = run[q]
      /\ run'[r].pc \in {"offchain", "lease"} /\ run'[r].signer = "off"
  BY <1>1, Here DEF RunFits, ThreadTo, FirstStep
<1>6. SigningFits(r)'
  BY <1>5 DEF SigningFits, SigningSteps, LeasePcs
<1>7. \A c \in Channels : Leases(c, r)' \/ Writes(c, r)' \/ Settles(c, r)' => Occupies(c, r)
  <2> SUFFICES ASSUME NEW c \in Channels, Leases(c, r)' \/ Writes(c, r)' \/ Settles(c, r)'
               PROVE  Settles(c, r)
    BY DEF Occupies
  <2>1. Settles(c, r)'
    BY <1>5 DEF Leases, Writes, LeasePcs
  <2> QED BY <1>2, <2>1 DEF Settles, OpenOn
<1>8. ReturnShape' /\ \A d \in Drivers : JobHolds(d)
  BY <1>1, <1>4, ReturnsKeep DEF Returning
<1>9. \A a \in Requests : a # r => ThreadHolds(a)
  BY <1>5, ThreadStays
<1> QED BY <1>1, <1>4, <1>6, <1>7, <1>8, <1>9, HoldsKeeps

LEMMA AbandonsChannels ==
  ASSUME IndInv, OwnInv, ChannelInv, NEW r \in Requests,
         AbandonsClaim(r) \/ AbandonsUnleased(r) \/ AbandonsOffChain(r)
  PROVE  ChannelInv'
<1>1. PICK id \in Requests :
        /\ UNCHANGED <<pool, job>>
        /\ \/ OwnsClaim(id, r) /\ RowTo(id, "absent", None, None, 0, FALSE, {}, FALSE)
           \/ rows' = rows
  BY AbandonSteps DEF AbandonsTo
<1>2. /\ SourcesStay /\ \A a \in Requests : RowsHold(a)
      /\ \A i \in Requests : tx[i] # "none" => rows'[i] = rows[i]
  <2>1. CASE OwnsClaim(id, r) /\ RowTo(id, "absent", None, None, 0, FALSE, {}, FALSE)
    <3>1. /\ \A i \in Requests : i # id => rows'[i] = rows[i]
          /\ rows'[id].state = "absent" /\ rows[id].state \in Unwritten
      BY <2>1 DEF RowTo, OwnsClaim, Unwritten
    <3> QED BY <3>1, ClaimsHold
  <2> QED BY <1>1, <2>1, SameRowsHold
<1>3. \A q \in Requests : ThreadHolds(q)
  <2>1. CASE run[r].pc = "abandon" /\ PcTo(r, "recheck")
    BY <2>1, GoesHolds DEF LeasePcs
  <2>2. ASSUME NEW a, run[r].pc \in {"unleased", "offAbandon"}, EndsTo(r, a)
        PROVE  \A q \in Requests : ThreadHolds(q)
    BY <2>2, EndsHolds
  <2> QED BY <2>1, <2>2, AbandonSteps
<1>4. ReturnShape' /\ \A d \in Drivers : JobHolds(d)
  BY <1>1, <1>2, ReturnsKeep DEF Returning
<1> QED BY <1>1, <1>2, <1>3, <1>4, HoldsKeeps

LEMMA FinishesOffChainChannels ==
  ASSUME IndInv, OwnInv, ChannelInv, NEW r \in Requests, FinishesOffChain(r)
  PROVE  ChannelInv'
<1>1. PICK id \in Requests : id = run[r].rec
  BY FinishesOffChainStep
<1>2. run[r].pc = "offFinish" /\ UNCHANGED <<pool, job>>
  BY FinishesOffChainStep
<1>3. run[r].signer = "off"
  BY <1>2, Here DEF RunFits, OffChainPcs
<1>4. CASE ~OwnsClaim(id, r)
  <2>1. rows' = rows /\ (PcTo(r, "taken") \/ EndsTo(r, "error"))
    BY <1>1, <1>4, FinishesOffChainStep
  <2>2. \A q \in Requests : ThreadHolds(q)
    BY <1>2, <2>1, EndsHolds, GoesHolds DEF LeasePcs
  <2> QED BY <1>2, <2>1, <2>2, CalmChannels
<1>5. CASE OwnsClaim(id, r)
  <2>1. FinalTo(id, "succeeded") /\ EndsTo(r, "succeeded")
    BY <1>1, <1>5, FinishesOffChainStep
  <2>2. /\ \A i \in Requests : i # id => rows'[i] = rows[i]
        /\ rows'[id].state = "succeeded" /\ rows'[id].owner = r
        /\ rows[id].state \in Unwritten
    BY <1>5, <2>1 DEF FinalTo, RowTo, OwnsClaim, Unwritten
  <2>3. /\ SourcesStay /\ \A a \in Requests : a # r => RowsHold(a)
        /\ \A i \in Requests : tx[i] # "none" => rows'[i] = rows[i]
    BY <2>2, ClaimsHold
  <2>4. /\ \A q \in Requests : q # r => run'[q] = run[q]
        /\ run'[r].pc = "done" /\ run'[r].signer = "off"
    BY <1>3, <2>1 DEF EndsTo, OverTo, ThreadTo
  <2>5. SigningFits(r)'
    BY <2>4 DEF SigningFits, SigningSteps, LeasePcs
  <2>6. \A c \in Channels : Leases(c, r)' \/ Writes(c, r)' \/ Settles(c, r)' => Occupies(c, r)
    <3> SUFFICES ASSUME NEW c \in Channels, Leases(c, r)' \/ Writes(c, r)' \/ Settles(c, r)'
                 PROVE  Settles(c, r)
      BY DEF Occupies
    <3>1. Settles(c, r)'
      BY <2>4 DEF Leases, Writes, LeasePcs
    <3> QED BY <2>2, <3>1 DEF Settles, OpenOn
  <2>7. ReturnShape' /\ \A d \in Drivers : JobHolds(d)
    BY <1>2, <2>3, ReturnsKeep DEF Returning
  <2>8. \A a \in Requests : a # r => ThreadHolds(a)
    BY <2>4, ThreadStays
  <2> QED BY <1>2, <2>3, <2>5, <2>6, <2>7, <2>8, HoldsKeeps
<1> QED BY <1>4, <1>5

\* From here on the row, and no longer the signature, holds the channel.
LEMMA RecordsEnvelopeChannels ==
  ASSUME IndInv, OwnInv, ChannelInv, NEW r \in Requests, RecordsEnvelope(r)
  PROVE  ChannelInv'
<1>1. PICK id \in Requests : id = run[r].rec
  BY RecordsEnvelopeStep
<1>2. /\ run[r].signer = "writing" /\ run[r].chan \in Channels
      /\ UNCHANGED <<pool, job>>
  BY RecordsEnvelopeStep
<1>3. CASE ~OwnsClaim(id, r)
  <2>1. rows' = rows /\ StopsTo(r)
    BY <1>1, <1>3, RecordsEnvelopeStep
  <2>2. \A q \in Requests : ThreadHolds(q)
    BY <2>1, StopsHolds
  <2> QED BY <1>2, <2>1, <2>2, CalmChannels
<1>4. CASE OwnsClaim(id, r)
  <2>1. SignerTo(r, "sending") \/ StopsTo(r)
    BY <1>1, <1>4, RecordsEnvelopeStep
  <2>2. PICK n \in Nat :
          RowTo(id, "submitted", r, run[r].chan, n, FALSE, {FirstSend}, rows[id].released)
    BY <1>1, <1>4, RecordsEnvelopeStep
  <2>3. /\ \A i \in Requests : i # id => rows'[i] = rows[i]
        /\ rows'[id].state = "submitted" /\ rows'[id].owner = r
        /\ rows'[id].channel = run[r].chan
        /\ rows[id].state \in Unwritten
    BY <1>4, <2>2 DEF RowTo, OwnsClaim, Unwritten
  <2>4. /\ SourcesStay /\ \A a \in Requests : a # r => RowsHold(a)
        /\ \A i \in Requests : tx[i] # "none" => rows'[i] = rows[i]
    BY <2>3, ClaimsHold
  <2>5. \A q \in Requests : ThreadHolds(q)
    BY <2>1, StopsHolds DEF SigningSteps
  <2>6. /\ run'[r].signer \notin SigningSteps
        /\ run'[r].pc \in LeasePcs => run'[r].rec = id
    BY <1>1, <2>1 DEF SignerTo, StopsTo, OverTo, ThreadTo, SigningSteps, LeasePcs
  <2>7. SigningFits(r)'
    <3>1. run'[r].pc \in LeasePcs => run'[r].chan \in Channels
      BY <2>5 DEF ThreadHolds, ChannelInv, SigningFits
    <3> QED BY <2>6, <3>1 DEF SigningFits
  <2>8. \A c \in Channels : Leases(c, r)' \/ Writes(c, r)' \/ Settles(c, r)' => Occupies(c, r)
    <3> SUFFICES ASSUME NEW c \in Channels, Leases(c, r)' \/ Writes(c, r)' \/ Settles(c, r)'
                 PROVE  Settles(c, r) \/ Writes(c, r)
      BY DEF Occupies
    <3>1. ~Writes(c, r)'
      BY <2>6 DEF Writes, SigningSteps
    <3>2. ~Leases(c, r)'
      BY <2>3, <2>6 DEF Leases, Recorded
    <3>3. PICK i \in Requests : /\ rows'[i].state = "submitted" /\ rows'[i].channel = c
                                /\ ~rows'[i].released /\ rows'[i].owner = r
      BY <3>1, <3>2 DEF Settles, OpenOn
    <3>4. CASE i = id
      BY <1>1, <1>2, <1>4, <2>3, <3>3, <3>4 DEF Writes
    <3>5. CASE i # id
      BY <2>3, <3>3, <3>5 DEF Settles, OpenOn
    <3> QED BY <3>4, <3>5
  <2>9. ReturnShape' /\ \A d \in Drivers : JobHolds(d)
    BY <1>2, <2>4, ReturnsKeep DEF Returning
  <2> QED BY <1>2, <2>4, <2>5, <2>7, <2>8, <2>9, HoldsKeeps
<1> QED BY <1>3, <1>4

LEMMA RecordsFirstAnswerChannels ==
  ASSUME IndInv, OwnInv, ChannelInv, NEW r \in Requests, RecordsFirstAnswer(r)
  PROVE  ChannelInv'
<1>1. PICK id \in Requests : id = run[r].rec
  BY RecordsFirstAnswerStep
<1>2. /\ run[r].pc = "answer" /\ job[r].at = "look" /\ pool' = pool
      /\ \/ \E accepted, sends : SendsTo(id, accepted, sends)
         \/ rows' = rows
      /\ \E raced : ThreadTo(r, "drive", id, run[r].chan, run[r].closed, run[r].signer,
                             raced, run[r].answer)
      /\ \/ job' = job
         \/ DriverTo(r, "finish", job[r].on, job[r].tracked, job[r].reply, "succeeded")
  BY <1>1, RecordsFirstAnswerStep
<1>3. /\ SourcesStay /\ \A a \in Requests : RowsHold(a)
      /\ \A i \in Requests : rows'[i].released = rows[i].released
  BY <1>2, SendsHold, SameRowsHold
<1>4. \A q \in Requests : ThreadHolds(q)
  <2>1. /\ \A q \in Requests : q # r => run'[q] = run[q]
        /\ run'[r].pc = "drive" /\ run'[r].rec = run[r].rec /\ run'[r].chan = run[r].chan
        /\ run'[r].signer = run[r].signer /\ run'[r].closed = run[r].closed
    BY <1>1, <1>2 DEF ThreadTo
  <2>2. run[r].signer \in SigningSteps => run[r].closed
    BY <1>2 DEF ChannelInv, SigningFits
  <2>3. ThreadHolds(r)
    BY <2>1, <2>2 DEF ThreadHolds, LeasePcs
  <2> QED BY <2>1, <2>3, ThreadStays
<1>5. \A d \in Drivers : Returning(d)' => job'[d].at = job[d].at /\ job'[d].on = job[d].on
  BY <1>2 DEF DriverTo, Returning
<1>6. ReturnShape' /\ \A d \in Drivers : JobHolds(d)
  BY <1>3, <1>5, ReturnsKeep
<1> QED BY <1>2, <1>3, <1>4, <1>6, HoldsKeeps

-----------------------------------------------------------------------------
(* Drivers                                                                  *)

LEMMA JobThreads ==
  ASSUME IndInv, ChannelInv, NEW d \in Drivers, NEW at, DrivesAt(d, at), NEW a,
         run' = run \/ JobOver(d, a)
  PROVE  \A q \in Requests : ThreadHolds(q)
<1>1. CASE run' = run
  BY <1>1, ThreadStays
<1>2. CASE d \in Requests /\ EndsTo(d, a)
  BY <1>2, EndsHolds DEF DrivesAt
<1> QED BY <1>1, <1>2 DEF JobOver

LEMMA OnwardJobs ==
  ASSUME NEW d \in Drivers, NEW id, Concluded(d, id) \/ Onward(d) \/ JobAt(d, "send")
                                    \/ JobAt(d, "weigh") \/ FinishTo(d, "failed")
  PROVE  /\ \A e \in Drivers : e # d => job'[e] = job[e]
         /\ ~Returning(d)'
         /\ run' = run \/ JobOver(d, "pending")
BY DEF Concluded, Onward, JobAt, JobOver, FinishTo, DriverTo, Returning

\* Steps of a driver that keep its settlement's channel.
LEMMA JobsChannels ==
  ASSUME IndInv, OwnInv, ChannelInv, NEW d \in Drivers,
         Looks(d) \/ Sends(d) \/ RecordsAnswer(d) \/ WeighsRejection(d) \/ Reloads(d)
  PROVE  ChannelInv'
<1>1. ASSUME NEW id \in Requests, pool' = pool,
             rows' = rows \/ \E accepted, sends : SendsTo(id, accepted, sends),
             \A e \in Drivers : e # d => job'[e] = job[e],
             ~Returning(d)',
             \A q \in Requests : ThreadHolds(q)
      PROVE  ChannelInv'
  <2>1. /\ SourcesStay /\ \A a \in Requests : RowsHold(a)
        /\ \A i \in Requests : rows'[i].released = rows[i].released
    BY <1>1, SendsHold, SameRowsHold
  <2>2. \A e \in Drivers : Returning(e)' => job'[e].at = job[e].at /\ job'[e].on = job[e].on
    BY <1>1
  <2>3. ReturnShape' /\ \A e \in Drivers : JobHolds(e)
    BY <2>1, <2>2, ReturnsKeep
  <2> QED BY <1>1, <2>1, <2>3, HoldsKeeps
<1>2. CASE Looks(d)
  <2>1. PICK id \in Requests : id = job[d].on
    BY <1>2, LooksStep DEF DrivesAt
  <2>2. /\ DrivesAt(d, "look") /\ pool' = pool
        /\ rows' = rows \/ SendsTo(id, rows[id].accepted, rows[id].sends \cup {d})
        /\ Concluded(d, id) \/ Onward(d) \/ JobAt(d, "send")
    BY <1>2, <2>1, LooksStep
  <2>3. /\ \A e \in Drivers : e # d => job'[e] = job[e]
        /\ ~Returning(d)' /\ (run' = run \/ JobOver(d, "pending"))
    BY <2>2, OnwardJobs
  <2>4. \A q \in Requests : ThreadHolds(q)
    BY <2>2, <2>3, JobThreads
  <2> QED BY <1>1, <2>2, <2>3, <2>4
<1>3. CASE Sends(d)
  <2>1. PICK id \in Requests : id = job[d].on
    BY <1>3, SendsStep DEF DrivesAt
  <2>2. UNCHANGED <<rows, pool, run>>
    BY <1>3, SendsStep
  <2>3. PICK reply : DriverTo(d, "reply", job[d].on, job[d].tracked, reply, job[d].verdict)
    BY <1>3, SendsStep
  <2>4. (\A e \in Drivers : e # d => job'[e] = job[e]) /\ ~Returning(d)'
    BY <2>3 DEF DriverTo, Returning
  <2>5. \A q \in Requests : ThreadHolds(q)
    BY <2>2, ThreadStays
  <2> QED BY <1>1, <2>2, <2>4, <2>5
<1>4. CASE RecordsAnswer(d)
  <2>1. PICK id \in Requests : id = job[d].on
    BY <1>4, RecordsAnswerStep DEF DrivesAt
  <2>2. /\ DrivesAt(d, "reply") /\ pool' = pool
        /\ Concluded(d, id) \/ Onward(d) \/ JobAt(d, "weigh")
    BY <1>4, <2>1, RecordsAnswerStep
  <2>3. rows' = rows \/ \E accepted, sends : SendsTo(id, accepted, sends)
    BY <1>4, <2>1, RecordsAnswerStep
  <2>4. /\ \A e \in Drivers : e # d => job'[e] = job[e]
        /\ ~Returning(d)' /\ (run' = run \/ JobOver(d, "pending"))
    BY <2>2, OnwardJobs
  <2>5. \A q \in Requests : ThreadHolds(q)
    BY <2>2, <2>4, JobThreads
  <2> QED BY <1>1, <2>2, <2>3, <2>4, <2>5
<1>5. CASE WeighsRejection(d)
  <2>1. PICK id \in Requests : id = job[d].on
    BY <1>5, WeighsRejectionStep DEF DrivesAt
  <2>2. /\ DrivesAt(d, "weigh") /\ UNCHANGED <<rows, pool>>
        /\ FinishTo(d, "failed") \/ Onward(d)
    BY <1>5, <2>1, WeighsRejectionStep
  <2>3. /\ \A e \in Drivers : e # d => job'[e] = job[e]
        /\ ~Returning(d)' /\ (run' = run \/ JobOver(d, "pending"))
    BY <2>2, OnwardJobs
  <2>4. \A q \in Requests : ThreadHolds(q)
    BY <2>2, <2>3, JobThreads
  <2> QED BY <1>1, <2>2, <2>3, <2>4
<1>6. CASE Reloads(d)
  <2>1. PICK id \in Requests : id = job[d].on
    BY <1>6, ReloadsStep DEF DrivesAt
  <2>2. /\ DrivesAt(d, "reload") /\ UNCHANGED <<rows, pool>> /\ LooksTo(d, id)
    BY <1>6, <2>1, ReloadsStep
  <2>3. (\A e \in Drivers : e # d => job'[e] = job[e]) /\ ~Returning(d)'
    BY <2>2 DEF LooksTo, DriverTo, Returning
  <2>4. \A q \in Requests : ThreadHolds(q)
    <3>1. CASE run' = run
      BY <3>1, ThreadStays
    <3>2. CASE d \in Requests /\ run' # run
      <4>1. /\ \A q \in Requests : q # d => run'[q] = run[q]
            /\ run'[d].pc = run[d].pc /\ run'[d].rec = run[d].rec
            /\ run'[d].chan = run[d].chan
            /\ run'[d].signer = run[d].signer /\ run'[d].closed = run[d].closed
        BY <1>6, <3>2, ReloadsStep DEF ThreadTo
      <4>2. ThreadHolds(d)
        BY <3>2, <4>1 DEF ThreadHolds, ChannelInv, SigningFits
      <4> QED BY <4>1, <4>2, ThreadStays
    <3> QED BY <1>6, <3>1, <3>2, ReloadsStep
  <2> QED BY <1>1, <2>2, <2>3, <2>4
<1> QED BY <1>2, <1>3, <1>4, <1>5, <1>6

\* A driver marks the open row it hands back, or finishes it; nobody else
\* hands it back then.
LEMMA TakesBack ==
  ASSUME IndInv, ChannelInv, NEW d \in Drivers, NEW id \in Requests,
         tx[id] # "none", rows[id].state = "submitted", ~rows[id].released,
         \A i \in Requests : i # id => rows'[i] = rows[i],
         \A e \in Drivers : e # d => job'[e] = job[e],
         Returning(d)', job'[d].on = id, ReturnFits(d)'
  PROVE  ReturnShape' /\ \A e \in Drivers : JobHolds(e)
<1>1. ASSUME NEW e \in Drivers, e # d, Returning(e)'
      PROVE  Returning(e) /\ job'[e] = job[e] /\ job[e].on \in Requests \ {id} /\ ReturnFits(e)
  <2>1. Returning(e) /\ job'[e] = job[e]
    BY <1>1 DEF Returning
  <2>2. /\ job[e].on \in Requests /\ ReturnFits(e)
        /\ job[e].at = "free" => IsFinal(job[e].on)
    BY <2>1 DEF Returning, IndInv, JobShape, JobFits, ChannelInv, ReturnShape
  <2>3. job[e].on # id
    BY <2>1, <2>2 DEF Returning, ReturnFits, IsFinal, FinalStates
  <2> QED BY <2>1, <2>2, <2>3
<1>2. \A e \in Drivers : ReturnFits(e)'
  <2> SUFFICES ASSUME NEW e \in Drivers, e # d, Returning(e)' PROVE ReturnFits(e)'
    BY DEF ReturnFits, Returning
  <2> QED BY <1>1 DEF ReturnFits
<1>3. \A e, f \in Drivers :
        Returning(e)' /\ Returning(f)' /\ job'[e].on = job'[f].on => e = f
  BY <1>1 DEF ChannelInv, ReturnShape
<1>4. \A e \in Drivers : JobHolds(e)
  BY <1>1 DEF JobHolds
<1> QED BY <1>2, <1>3, <1>4 DEF ReturnShape

LEMMA MarksReleasedChannels ==
  ASSUME IndInv, OwnInv, ChannelInv, NEW d \in Drivers, MarksReleased(d)
  PROVE  ChannelInv'
<1>1. PICK id \in Requests : id = job[d].on /\ tx[id] # "none"
  BY MarksReleasedStep DEF DrivesAt
<1>2. DrivesAt(d, "giveBack") /\ pool' = pool
  BY MarksReleasedStep
<1>3. CASE rows' = rows /\ Onward(d)
  <2>1. /\ \A e \in Drivers : e # d => job'[e] = job[e]
        /\ ~Returning(d)' /\ (run' = run \/ JobOver(d, "pending"))
    BY <1>3, OnwardJobs
  <2>2. \A q \in Requests : ThreadHolds(q)
    BY <1>2, <2>1, JobThreads
  <2> QED BY <1>2, <1>3, <2>1, <2>2, QuietChannels
<1>4. ASSUME rows[id].state = "submitted", ~rows[id].released,
             RowTo(id, rows[id].state, rows[id].owner, rows[id].channel,
                   rows[id].seq, rows[id].accepted, rows[id].sends, TRUE),
             JobAt(d, "hand")
      PROVE  ChannelInv'
  <2>1. /\ \A i \in Requests : i # id => rows'[i] = rows[i]
        /\ rows'[id].state = rows[id].state /\ rows'[id].owner = rows[id].owner
        /\ rows'[id].channel = rows[id].channel /\ rows'[id].seq = rows[id].seq
        /\ rows'[id].released = TRUE
    BY <1>4 DEF RowTo
  <2>2. SourcesStay /\ \A a \in Requests : RowsHold(a)
    BY <2>1 DEF SourcesStay, RowsHold, Recorded, OwnsClaim, Unwritten
  <2>3. /\ \A e \in Drivers : e # d => job'[e] = job[e]
        /\ Returning(d)' /\ job'[d].on = id /\ job'[d].at = "hand" /\ run' = run
    BY <1>1, <1>4 DEF JobAt, DriverTo, Returning
  <2>4. ReturnFits(d)'
    BY <2>1, <2>3 DEF ReturnFits
  <2>5. ReturnShape' /\ \A e \in Drivers : JobHolds(e)
    BY <1>1, <1>4, <2>1, <2>3, <2>4, TakesBack
  <2>6. \A q \in Requests : ThreadHolds(q)
    BY <2>3, ThreadStays
  <2> QED BY <1>2, <2>2, <2>5, <2>6, HoldsKeeps
<1> QED BY <1>1, <1>3, <1>4, MarksReleasedStep

LEMMA CompletesRowChannels ==
  ASSUME IndInv, OwnInv, ChannelInv, NEW d \in Drivers, CompletesRow(d)
  PROVE  ChannelInv'
<1>1. PICK id \in Requests : id = job[d].on /\ tx[id] # "none"
  BY CompletesRowStep DEF DrivesAt
<1>2. DrivesAt(d, "finish") /\ pool' = pool /\ job[d].verdict \in FinalStates
  BY CompletesRowStep
<1>3. ASSUME NEW a, JobOver(d, a)
      PROVE  /\ \A e \in Drivers : Returning(e)' => job'[e].at = job[e].at /\ job'[e].on = job[e].on
             /\ \A q \in Requests : ThreadHolds(q)
  <2>1. (\A e \in Drivers : e # d => job'[e] = job[e]) /\ ~Returning(d)'
    BY <1>3 DEF JobOver, DriverTo, Returning
  <2> QED BY <1>2, <1>3, <2>1, JobThreads
<1>4. ASSUME NEW a, rows' = rows, JobOver(d, a)
      PROVE  ChannelInv'
  BY <1>2, <1>3, <1>4, QuietChannels
<1>5. ASSUME rows[id].state = "submitted", FinalTo(id, job[d].verdict),
             IF rows[id].released THEN JobOver(d, job[d].verdict) ELSE JobAt(d, "free")
      PROVE  ChannelInv'
  <2>1. /\ \A i \in Requests : i # id => rows'[i] = rows[i]
        /\ rows'[id].state \in FinalStates /\ rows'[id].owner = rows[id].owner
        /\ rows'[id].channel = rows[id].channel /\ rows'[id].seq = rows[id].seq
        /\ rows'[id].released = rows[id].released
    BY <1>2, <1>5 DEF FinalTo, RowTo
  <2>2. SourcesStay /\ \A a \in Requests : RowsHold(a)
    BY <1>5, <2>1 DEF SourcesStay, RowsHold, Recorded, OwnsClaim, Unwritten, FinalStates
  <2>3. /\ ReturnShape' /\ \A e \in Drivers : JobHolds(e)
        /\ \A q \in Requests : ThreadHolds(q)
    <3>1. CASE rows[id].released
      <4>1. \A i \in Requests : rows'[i].released = rows[i].released
        BY <2>1
      <4> QED BY <1>3, <1>5, <3>1, <4>1, ReturnsKeep
    <3>2. CASE ~rows[id].released
      <4>1. /\ \A e \in Drivers : e # d => job'[e] = job[e]
            /\ Returning(d)' /\ job'[d].on = id /\ job'[d].at = "free" /\ run' = run
        BY <1>1, <1>5, <3>2 DEF JobAt, DriverTo, Returning
      <4>2. ReturnFits(d)'
        BY <2>1, <3>2, <4>1 DEF ReturnFits
      <4> QED BY <1>1, <1>5, <2>1, <3>2, <4>1, <4>2, TakesBack, ThreadStays
    <3> QED BY <3>1, <3>2
  <2> QED BY <1>2, <2>2, <2>3, HoldsKeeps
<1> QED BY <1>1, <1>4, <1>5, CompletesRowStep

-----------------------------------------------------------------------------
(* The reconciler's start, the network, clocks and crashes                  *)

LEMMA WorldChannels ==
  ASSUME IndInv, OwnInv, ChannelInv,
         NetworkStep \/ \E p \in Replicas : StartsReconcile(p)
  PROVE  ChannelInv'
<1>1. CASE NetworkStep
  <2>1. UNCHANGED <<rows, pool, run, job>>
    BY <1>1, NetworkStepTo
  <2> QED BY <2>1, ThreadStays, CalmChannels
<1>2. ASSUME NEW p \in Replicas, StartsReconcile(p)
      PROVE  ChannelInv'
  <2>1. UNCHANGED <<rows, pool, run>> /\ p \in Drivers
    BY <1>2, StartsReconcileStep
  <2>2. PICK id \in Requests : LooksTo(p, id)
    BY <1>2, StartsReconcileStep
  <2>3. \A d \in Drivers : Returning(d)' => job'[d].at = job[d].at /\ job'[d].on = job[d].on
    BY <2>2 DEF LooksTo, DriverTo, Returning
  <2> QED BY <2>1, <2>3, ThreadStays, QuietChannels
<1> QED BY <1>1, <1>2

LEMMA CrashesChannels ==
  ASSUME IndInv, OwnInv, ChannelInv, NEW p \in Replicas, Crashes(p)
  PROVE  ChannelInv'
<1>1. /\ pool' = pool
      /\ \A r \in Requests : CrashedRun(p, r)
      /\ \A d \in Drivers : CrashedJob(d)
      /\ \A id \in Requests :
           /\ rows'[id].state = rows[id].state /\ rows'[id].owner = rows[id].owner
           /\ rows'[id].channel = rows[id].channel /\ rows'[id].seq = rows[id].seq
           /\ rows'[id].released = rows[id].released
  BY CrashesStep
<1>2. SourcesStay /\ \A a \in Requests : RowsHold(a)
  BY <1>1, FieldsHold
<1>3. ASSUME NEW q \in Requests PROVE ThreadHolds(q)
  <2>1. CASE run'[q] = run[q]
    BY <2>1, ThreadStays
  <2>2. CASE run'[q] # run[q]
    <3>1. run'[q].pc \in {"dead", "done"} /\ run'[q].signer = "off"
      BY <1>1, <2>2 DEF CrashedRun
    <3> QED BY <3>1 DEF ThreadHolds, LeasePcs, SigningSteps
  <2> QED BY <2>1, <2>2
<1>4. \A d \in Drivers : Returning(d)' => job'[d].at = job[d].at /\ job'[d].on = job[d].on
  BY <1>1 DEF CrashedJob, NoJob, Returning
<1>5. ReturnShape' /\ \A d \in Drivers : JobHolds(d)
  BY <1>1, <1>4, ReturnsKeep
<1> QED BY <1>1, <1>2, <1>3, <1>5, HoldsKeeps

\* An expired lease has no occupant: this is where a settlement must not
\* outlive its lease.
LEMMA ClocksChannels ==
  ASSUME IndInv, OwnInv, ChannelInv, ~OutlivesLease, ClockStep
  PROVE  ChannelInv'
<1>1. UNCHANGED <<run, job>>
  BY ClockStepTo
<1>2. \A q \in Requests : ThreadHolds(q)
  BY <1>1, ThreadStays
<1>3. ASSUME NEW id \in Requests, pool' = pool,
             SendsTo(id, rows[id].accepted, rows[id].sends)
      PROVE  ChannelInv'
  <2>1. /\ SourcesStay /\ \A a \in Requests : RowsHold(a)
        /\ \A i \in Requests : rows'[i].released = rows[i].released
    BY <1>3, SendsHold
  <2>2. ReturnShape' /\ \A d \in Drivers : JobHolds(d)
    BY <1>1, <2>1, ReturnsKeep DEF Returning
  <2> QED BY <1>2, <1>3, <2>1, <2>2, HoldsKeeps
<1>4. pool \in [Channels -> Slot]
  BY DEF IndInv, TypeOK
<1>5. ASSUME NEW c \in Channels, CooldownEnds(c), rows' = rows
      PROVE  ChannelInv'
  <2>1. \A e \in Channels :
          pool'[e].leased = pool[e].leased /\ pool'[e].expired = pool[e].expired
    BY <1>4, <1>5 DEF CooldownEnds, Slot
  <2> QED BY <1>1, <1>2, <1>5, <2>1, CalmChannels
<1>6. ASSUME NEW c \in Channels, LeaseLapses(c), rows' = rows
      PROVE  ChannelInv'
  <2>1. \A e \in Channels : e # c => pool'[e] = pool[e]
    BY <1>4, <1>6 DEF LeaseLapses, LeaseExpires
  <2>2. ASSUME NEW a \in Requests, Occupies(c, a) PROVE FALSE
    <3>1. ~Leases(c, a)
      BY <1>6 DEF LeaseLapses, Leaseholders, Leases
    <3>2. ~Writes(c, a)
      BY <1>6 DEF LeaseLapses, Writes
    <3>3. OpenOn(c) = {} /\ HandingBack(c) = {}
      BY <1>6 DEF LeaseLapses
    <3> QED BY <2>2, <3>1, <3>2, <3>3 DEF Occupies, Settles, Returns
  <2> QED BY <1>1, <1>2, <1>6, <2>1, <2>2, CalmChannels
<1> QED BY <1>3, <1>5, <1>6, ClockStepTo

-----------------------------------------------------------------------------
(* Leasing a channel, and giving it back                                    *)

\* A leasable channel has no occupant.
LEMMA LeasesChannelChannels ==
  ASSUME IndInv, OwnInv, ChannelInv, NEW r \in Requests, LeasesChannel(r)
  PROVE  ChannelInv'
<1>1. PICK c \in Channels :
        /\ run[r].pc = "lease" /\ Acquire(c) /\ UNCHANGED <<rows, job>>
        /\ ThreadTo(r, "check", run[r].rec, c, run[r].closed,
                    run[r].signer, run[r].raced, run[r].answer)
  BY LeasesChannelStep
<1>2. /\ \A e \in Channels : e # c => pool'[e] = pool[e]
      /\ pool'[c].leased /\ ~pool'[c].expired
      /\ ~pool[c].leased \/ pool[c].expired
  <2>1. pool \in [Channels -> Slot]
    BY DEF IndInv, TypeOK
  <2> QED BY <1>1, <2>1 DEF Acquire, Leasable, Slot
<1>3. /\ \A q \in Requests : q # r => run'[q] = run[q]
      /\ run'[r].pc = "check" /\ run'[r].chan = c
      /\ run'[r].signer = run[r].signer /\ run[r].signer = "off"
  BY <1>1, Here DEF RunFits, ThreadTo
<1>4. \A a \in Requests : ~Occupies(c, a)
  BY <1>2 DEF ChannelInv, OccupiedShape
<1>5. SourcesStay /\ \A a \in Requests : RowsHold(a)
  BY <1>1, SameRowsHold
<1>6. ReturnShape' /\ \A d \in Drivers : JobHolds(d)
  BY <1>1, ReturnsKeep DEF Returning
<1>7. ASSUME NEW e \in Channels, NEW a \in Requests, Occupies(e, a)'
      PROVE  Occupies(e, a) \/ (e = c /\ a = r)
  <2>1. CASE Settles(e, a)' \/ Returns(e, a)'
    BY <1>5, <1>6, <2>1, HoldsSettling, HoldsReturn DEF Occupies
  <2>2. CASE a # r /\ (Leases(e, a)' \/ Writes(e, a)')
    BY <1>3, <1>5, <2>2, ThreadStays, HoldsLease
  <2>3. CASE a = r /\ (Leases(e, a)' \/ Writes(e, a)')
    BY <1>3, <2>3 DEF Leases, Writes
  <2> QED BY <1>7, <2>1, <2>2, <2>3 DEF Occupies
<1>8. OccupiedShape'
  <2>1. ASSUME NEW e \in Channels, NEW a \in Requests, Occupies(e, a)'
        PROVE  pool'[e].leased /\ ~pool'[e].expired
    BY <1>2, <1>7, <2>1 DEF ChannelInv, OccupiedShape
  <2>2. ASSUME NEW e \in Channels, NEW a \in Requests, NEW b \in Requests,
               Occupies(e, a)', Occupies(e, b)'
        PROVE  a = b
    BY <1>4, <1>7, <2>2 DEF ChannelInv, OccupiedShape
  <2> QED BY <2>1, <2>2 DEF OccupiedShape
<1>9. \A q \in Requests : SigningFits(q)'
  <2>1. SigningFits(r)'
    BY <1>3 DEF SigningFits, SigningSteps
  <2>2. \A q \in Requests : q # r => SigningFits(q)'
    BY <1>3, <1>5, ThreadStays, SigningKeeps
  <2> QED BY <2>1, <2>2
<1> QED BY <1>6, <1>8, <1>9 DEF ChannelInv

\* What a release or a quarantine of c changes.
LEMMA PoolGives ==
  ASSUME IndInv, NEW c \in Channels, NEW mark,
         Release(c) \/ Quarantine(c, mark) \/ UNCHANGED pool
  PROVE  \A e \in Channels : e # c => pool'[e] = pool[e]
BY DEF IndInv, TypeOK, Release, Quarantine

\* A request that recorded nothing gives its leased channel back.
LEMMA GivesUp ==
  ASSUME IndInv, OwnInv, ChannelInv, NEW r \in Requests, UNCHANGED <<rows, job>>,
         run[r].pc \in LeasePcs,
         \A id \in Requests : rows[id].owner = r => rows[id].state \in Unwritten,
         NEW c \in Channels, c = run[r].chan,
         \A e \in Channels : e # c => pool'[e] = pool[e],
         \A q \in Requests : ThreadHolds(q),
         run'[r].pc \notin LeasePcs,
         run'[r].signer = "writing" => \A id \in Requests : ~OwnsClaim(id, r)
  PROVE  ChannelInv'
<1>1. run[r].rec \in Requests
  BY Here DEF RunFits, LeasePcs
<1>2. Occupies(c, r)
  BY <1>1 DEF Occupies, Leases, Recorded, Unwritten
<1>3. ~Occupies(c, r)'
  <2>1. ~Leases(c, r)'
    BY DEF Leases
  <2>2. Writes(c, r)' => FALSE
    <3>1. run'[r].signer = "writing" => run'[r].rec \in Requests
      BY <1>1 DEF ThreadHolds, SigningSteps
    <3>2. Writes(c, r)' => /\ run'[r].signer = "writing"
                           /\ rows[run'[r].rec].state = "claimed"
                           /\ rows[run'[r].rec].owner = r
      BY DEF Writes, OwnsClaim
    <3> QED BY <1>1, <3>1, <3>2 DEF OwnsClaim, ThreadHolds, SigningSteps
  <2>3. Settles(c, r)' => FALSE
    BY DEF Settles, OpenOn, Unwritten
  <2>4. Returns(c, r)' => FALSE
    <3> SUFFICES ASSUME NEW d \in Drivers, job[d].at \in {"free", "hand"},
                        rows[job[d].on].owner = r
                 PROVE  FALSE
      BY DEF Returns, HandingBack
    <3>1. job[d].on \in Requests /\ tx[job[d].on] # "none"
      BY DEF IndInv, JobShape, JobFits
    <3>2. rows[job[d].on].state \notin Unwritten
      BY <3>1, Unrecorded DEF Unwritten
    <3> QED BY <3>1, <3>2
  <2> QED BY <2>1, <2>2, <2>3, <2>4 DEF Occupies
<1>4. \A a \in Requests : Occupies(c, a) => ~Occupies(c, a)'
  BY <1>2, <1>3 DEF ChannelInv, OccupiedShape
<1> QED BY <1>4, CalmChannels

LEMMA LeasesBackChannels ==
  ASSUME IndInv, OwnInv, ChannelInv, NEW r \in Requests,
         QuarantinesAgain(r) \/ ReleasesLost(r) \/ AnswersUnsigned(r)
  PROVE  ChannelInv'
<1>1. CASE QuarantinesAgain(r)
  <2>1. /\ run[r].pc = "requarantine" /\ run[r].chan \in Channels
        /\ Quarantine(run[r].chan, run[r].seq) /\ UNCHANGED <<rows, job>>
    BY <1>1, QuarantinesAgainStep
  <2>2. PICK pc \in {"lease", "unleased"} :
          ThreadTo(r, pc, run[r].rec, None, run[r].closed, run[r].signer,
                   run[r].raced, run[r].answer)
    BY <1>1, QuarantinesAgainStep
  <2>3. run[r].signer = "off"
    BY <2>1, Here DEF RunFits
  <2>4. /\ \A q \in Requests : q # r => run'[q] = run[q]
        /\ run'[r].pc \notin LeasePcs /\ run'[r].signer = "off"
    BY <2>2, <2>3 DEF ThreadTo, LeasePcs
  <2>5. ThreadHolds(r)
    BY <2>4 DEF ThreadHolds, SigningSteps
  <2>6. \A id \in Requests : rows[id].owner = r => rows[id].state \in Unwritten
    BY <2>1, OwnHere DEF OwnerFits, Unsubmitted, Unwritten, Exists
  <2>7. \A e \in Channels : e # run[r].chan => pool'[e] = pool[e]
    BY <2>1, PoolGives
  <2>8. run[r].pc \in LeasePcs
    BY <2>1 DEF LeasePcs
  <2> QED BY <2>1, <2>4, <2>5, <2>6, <2>7, <2>8, ThreadStays, GivesUp
<1>2. CASE ReleasesLost(r) \/ AnswersUnsigned(r)
  <2>1. /\ run[r].pc \in {"lost", "unsigned"}
        /\ Release(run[r].chan) /\ UNCHANGED <<rows, job>>
        /\ PcTo(r, "taken") \/ EndsTo(r, "unsigned")
    BY <1>2, ThreadSteps
  <2>2. run[r].pc \in LeasePcs /\ run[r].chan \in Channels
    BY <2>1 DEF LeasePcs, ChannelInv, SigningFits
  <2>3. \A q \in Requests : ThreadHolds(q)
    BY <2>1, GoesHolds, EndsHolds DEF LeasePcs
  <2>4. run'[r].pc \notin LeasePcs
    BY <2>1 DEF PcTo, EndsTo, OverTo, ThreadTo, LeasePcs
  <2>5. \A id \in Requests : Exists(id) => rows[id].owner # r
    BY <2>1, OwnHere DEF OwnerFits
  <2>6. /\ \A id \in Requests : rows[id].owner = r => rows[id].state \in Unwritten
        /\ \A id \in Requests : ~OwnsClaim(id, r)
    BY <2>5 DEF Exists, OwnsClaim, Unwritten
  <2>7. \A e \in Channels : e # run[r].chan => pool'[e] = pool[e]
    BY <2>1, <2>2, PoolGives
  <2> QED BY <2>1, <2>2, <2>3, <2>4, <2>6, <2>7, GivesUp
<1> QED BY <1>1, <1>2

\* One request owns one row.
LEMMA OneOwned ==
  ASSUME IndInv, OwnInv, NEW i \in Requests, NEW j \in Requests,
         Exists(i), Exists(j), rows[i].owner = rows[j].owner
  PROVE  i = j
<1>1. KeyOf[i] = KeyOf[j]
  BY DEF OwnInv, OwnerShape, OwnerFits
<1> QED BY <1>1 DEF IndInv, OneRowPerKey

\* A driver gives the channel of the settlement it handles back; the row's
\* owner was its only occupant.
LEMMA GivesAway ==
  ASSUME IndInv, OwnInv, ChannelInv, NEW d \in Drivers, Returning(d), ~Returning(d)',
         UNCHANGED rows, \A e \in Drivers : e # d => job'[e] = job[e],
         \A q \in Requests : ThreadHolds(q),
         \A e \in Channels : e # Channel(job[d].on) => pool'[e] = pool[e]
  PROVE  ChannelInv'
<1>1. PICK id \in Requests :
        /\ id = job[d].on /\ tx[id] # "none"
        /\ job[d].at = "free" => IsFinal(id)
  BY DEF Returning, IndInv, JobShape, JobFits
<1>2. PICK a \in Requests : a = rows[id].owner
  BY <1>1, RecordedOwner
<1>3. PICK c \in Channels : c = rows[id].channel
  BY <1>1 DEF IndInv, RowShape, RowFits
<1>4. Exists(id) /\ rows[id].state \notin Unwritten
  BY <1>1, Unrecorded DEF Unwritten, Exists
<1>5. rows[id].state # "submitted" \/ rows[id].released
  BY <1>1 DEF ChannelInv, ReturnShape, ReturnFits, Returning, IsFinal, FinalStates
<1>6. OwnerFits(id, rows[id], run[a])
  BY <1>2, <1>4 DEF OwnInv, OwnerShape
<1>7. Occupies(c, a)
  BY <1>1, <1>2, <1>3 DEF Occupies, Returns, HandingBack, Returning, Channel
<1>8. ~Occupies(c, a)'
  <2>1. Leases(c, a)' => FALSE
    <3> SUFFICES ASSUME Leases(c, a)' PROVE FALSE
      OBVIOUS
    <3>1. run'[a].pc \in LeasePcs /\ ~(/\ rows[run'[a].rec].state \notin {"absent", "claimed"}
                                       /\ rows[run'[a].rec].owner = a)
      BY DEF Leases, Recorded
    <3>2. run[a].pc \in LeasePcs /\ run'[a].rec = run[a].rec
      BY <3>1 DEF ThreadHolds
    <3>3. run[a].rec = id
      BY <1>6, <3>2 DEF OwnerFits, LeasePcs
    <3> QED BY <1>2, <1>4, <3>1, <3>2, <3>3 DEF Unwritten
  <2>2. Writes(c, a)' => FALSE
    <3> SUFFICES ASSUME Writes(c, a)' PROVE FALSE
      OBVIOUS
    <3>1. /\ run'[a].signer = "writing" /\ rows[run'[a].rec].state = "claimed"
          /\ rows[run'[a].rec].owner = a
      BY DEF Writes, OwnsClaim
    <3>2. PICK i \in Requests : i = run[a].rec /\ i = run'[a].rec
      BY <3>1, SigningUnrecorded DEF ThreadHolds, SigningSteps
    <3>3. i = id
      BY <1>2, <1>4, <3>1, <3>2, OneOwned DEF Exists
    <3> QED BY <1>4, <3>1, <3>2, <3>3 DEF Unwritten
  <2>3. Settles(c, a)' => FALSE
    <3> SUFFICES ASSUME NEW i \in Requests, rows[i].state = "submitted", ~rows[i].released,
                        rows[i].owner = a
                 PROVE  FALSE
      BY DEF Settles, OpenOn
    <3>1. i = id
      BY <1>2, <1>4, OneOwned DEF Exists
    <3> QED BY <1>5, <3>1
  <2>4. Returns(c, a)' => FALSE
    <3> SUFFICES ASSUME NEW e \in Drivers, job'[e].at \in {"free", "hand"},
                        rows[job'[e].on].owner = a
                 PROVE  FALSE
      BY DEF Returns, HandingBack
    <3>1. e # d /\ job'[e] = job[e] /\ Returning(e)
      BY DEF Returning
    <3>2. job[e].on \in Requests /\ tx[job[e].on] # "none"
      BY <3>1 DEF Returning, IndInv, JobShape, JobFits
    <3>3. Exists(job[e].on)
      BY <3>2, Unrecorded DEF Exists
    <3>4. job[e].on = id
      BY <1>2, <1>4, <3>1, <3>2, <3>3, OneOwned
    <3> QED BY <1>1, <3>1, <3>4 DEF ChannelInv, ReturnShape
  <2> QED BY <2>1, <2>2, <2>3, <2>4 DEF Occupies
<1>9. \A b \in Requests : Occupies(c, b) => ~Occupies(c, b)'
  BY <1>7, <1>8 DEF ChannelInv, OccupiedShape
<1>10. \A e \in Channels : e # c => pool'[e] = pool[e]
  BY <1>1, <1>3 DEF Channel
<1>11. \A e \in Drivers : Returning(e)' => job'[e].at = job[e].at /\ job'[e].on = job[e].on
  OBVIOUS
<1> QED BY <1>9, <1>10, <1>11, QuietChannels

LEMMA ReturnsChannels ==
  ASSUME IndInv, OwnInv, ChannelInv, NEW d \in Drivers, HandsBack(d) \/ FreesChannel(d)
  PROVE  ChannelInv'
<1>1. PICK id \in Requests : id = job[d].on /\ tx[id] # "none"
  BY HandsBackStep, FreesChannelStep DEF DrivesAt
<1>2. /\ DrivesAt(d, "hand") \/ DrivesAt(d, "free")
      /\ UNCHANGED rows
      /\ ReturnsChannel(Channel(id), job[d].mark) \/ UNCHANGED pool
  BY <1>1, HandsBackStep, FreesChannelStep
<1>3. PICK a : Onward(d) \/ JobOver(d, a)
  BY HandsBackStep, FreesChannelStep
<1>4. /\ \A e \in Drivers : e # d => job'[e] = job[e]
      /\ ~Returning(d)'
      /\ run' = run \/ JobOver(d, a) \/ JobOver(d, "pending")
  BY <1>3 DEF Onward, JobAt, JobOver, DriverTo, Returning
<1>5. \A q \in Requests : ThreadHolds(q)
  BY <1>2, <1>4, JobThreads
<1>6. Channel(id) \in Channels
  BY <1>1 DEF IndInv, RowShape, RowFits, Channel
<1>7. \A e \in Channels : e # Channel(id) => pool'[e] = pool[e]
  BY <1>2, <1>6, PoolGives DEF ReturnsChannel
<1>8. Returning(d)
  BY <1>2 DEF Returning, DrivesAt
<1> QED BY <1>1, <1>2, <1>4, <1>5, <1>7, <1>8, GivesAway

-----------------------------------------------------------------------------
(* The theorems                                                             *)

LEMMA RequestsChannels ==
  ASSUME IndInv, OwnInv, ChannelInv, NEW r \in Requests, RequestStep(r) \/ SignerStep(r)
  PROVE  ChannelInv'
BY ThreadChannels, ClaimsChannels, AbandonsChannels, FinishesOffChainChannels,
   LeasesChannelChannels, ChecksChannelChannels, LeasesBackChannels, FindsRowChannels,
   RecordsFirstAnswerChannels, RecordsEnvelopeChannels DEF RequestStep, SignerStep

LEMMA ChannelNext ==
  ASSUME IndInv, OwnInv, ChannelInv, ~OutlivesLease, [Next]_vars
  PROVE  ChannelInv'
<1>1. CASE UNCHANGED vars
  BY <1>1, ThreadStays, CalmChannels DEF vars
<1>2. ASSUME NEW d \in Drivers, JobStep(d)
      PROVE  ChannelInv'
  BY <1>2, JobsChannels, MarksReleasedChannels, CompletesRowChannels, ReturnsChannels
     DEF JobStep
<1> QED BY <1>1, <1>2, RequestsChannels, WorldChannels, CrashesChannels, ClocksChannels
        DEF Next

LEMMA ChannelInit == Init => ChannelInv
<1> SUFFICES ASSUME Init PROVE ChannelInv
  OBVIOUS
<1>1. /\ \A r \in Requests : run[r].pc = "start" /\ run[r].signer = "off"
      /\ \A id \in Requests : rows[id].state = "absent"
      /\ \A d \in Drivers : job[d].at = "idle"
  BY DEF Init, LedgerInit, NoRow, NoRun, NoJob
<1>2. \A c \in Channels, a \in Requests : ~Occupies(c, a)
  BY <1>1 DEF Occupies, Leases, Writes, Settles, Returns, LeasePcs, OpenOn, HandingBack
<1>3. \A r \in Requests : SigningFits(r)
  BY <1>1 DEF SigningFits, LeasePcs, SigningSteps
<1>4. ReturnShape
  BY <1>1 DEF ReturnShape, ReturnFits, Returning
<1> QED BY <1>2, <1>3, <1>4 DEF ChannelInv, OccupiedShape

\* While settlements end within their lease, a channel has one occupant and
\* its lease stands.
THEOREM ChannelsKnown ==
  ASSUME ~OutlivesLease
  PROVE  Spec => [](IndInv /\ OwnInv /\ FateInv /\ ChannelInv)
<1>1. Init => ChannelInv
  BY ChannelInit
<1>2. (IndInv /\ OwnInv) /\ ChannelInv /\ [Next]_vars => ChannelInv'
  BY ChannelNext
<1> QED BY <1>1, <1>2, FatesKnown, PTL DEF Spec

\* While settlements end within their lease, no channel is promised to two of
\* them, from the lease until the transaction is final (channels.ts).
THEOREM ExclusiveForGood ==
  ASSUME ~OutlivesLease
  PROVE  Spec => []ChannelExclusive
<1>1. OwnInv /\ ChannelInv => ChannelExclusive
  <2> SUFFICES ASSUME OwnInv, ChannelInv, NEW c \in Channels, NEW a \in Holders(c),
                      NEW b \in Holders(c)
               PROVE  a = b
    BY DEF ChannelExclusive
  <2>1. \A h \in Holders(c) : h \in Requests /\ Occupies(c, h)
    BY DEF Holders, Leaseholders, OpenOn, Occupies, Leases, Settles, OwnInv, OwnerShape,
           OwnerFits, Exists
  <2> QED BY <2>1 DEF ChannelInv, OccupiedShape
<1> QED BY <1>1, ChannelsKnown, PTL

\* While settlements end within their lease, two recorded transactions that
\* may both still apply never share a source account's sequence number.
THEOREM SourcesForGood ==
  ASSUME ~OutlivesLease
  PROVE  Spec => []NoSequenceClash
<1>1. IndInv /\ OwnInv /\ FateInv /\ ChannelInv => NoSequenceClash
  <2> SUFFICES ASSUME IndInv, OwnInv, FateInv, ChannelInv,
                      NEW i \in Requests, NEW j \in Requests, Live(i), Live(j),
                      Channel(i) = Channel(j)
               PROVE  i = j
    BY DEF NoSequenceClash
  <2>1. ASSUME NEW id \in Requests, Live(id)
        PROVE  /\ Exists(id) /\ Channel(id) \in Channels
               /\ rows[id].owner \in Requests /\ Occupies(Channel(id), rows[id].owner)
    <3>2. tx[id] # "none" /\ tx[id] # "ok"
      BY <2>1 DEF Live
    <3>3. /\ Exists(id) /\ rows[id].owner \in Requests
          /\ Channel(id) \in Channels
          /\ rows[id].state \in {"submitted"} \cup FinalStates
      BY <3>2, RecordedOwner DEF IndInv, RowShape, RowFits, Channel
    <3>4. rows[id].state = "submitted" /\ ~rows[id].released
      BY <2>1, <3>2, <3>3 DEF FateInv, RowFate, Gone, FinalStates
    <3> QED BY <3>3, <3>4 DEF Occupies, Settles, OpenOn, Channel
  <2>2. rows[i].owner = rows[j].owner
    BY <2>1 DEF ChannelInv, OccupiedShape
  <2> QED BY <2>1, <2>2, OneOwned
<1> QED BY <1>1, ChannelsKnown, PTL

-----------------------------------------------------------------------------
(* The refinement.  A channel's sequence number that passes at once two      *)
(* recorded transactions would decide two payments in one step; that it      *)
(* never does is ChannelInv (NoSequenceClash).                               *)

-----------------------------------------------------------------------------
(* What a step leaves as it is                                              *)

PhaseStays(k) == PhaseOf(k)' = PhaseOf(k)
MoneyStays(k) == MoneyOf(k)' = MoneyOf(k)
ToldStays(k) == ToldOf(k)' = ToldOf(k)
Stays(k) == PhaseStays(k) /\ MoneyStays(k) /\ ToldStays(k)

LEMMA SameStates ==
  ASSUME NEW k, \A id \in Requests : KeyOf[id] = k => rows'[id].state = rows[id].state
  PROVE  PhaseStays(k)
<1>1. Find(k)' = Find(k)
  BY DEF Find, Exists
<1>2. CASE Find(k) = {}
  BY <1>1, <1>2 DEF PhaseStays, PhaseOf
<1>3. CASE Find(k) # {}
  <2>1. PICK id \in Find(k) : id = CHOOSE i \in Find(k) : TRUE
    BY <1>3
  <2>2. rows'[id].state = rows[id].state
    BY <2>1 DEF Find
  <2>3. PhaseOf(k) = IF rows[id].state = "submitted" THEN "signed" ELSE rows[id].state
    BY <1>3, <2>1 DEF PhaseOf
  <2>4. PhaseOf(k)' = IF rows'[id].state = "submitted" THEN "signed" ELSE rows'[id].state
    BY <1>1, <1>3, <2>1 DEF PhaseOf
  <2> QED BY <2>2, <2>3, <2>4 DEF PhaseStays
<1> QED BY <1>2, <1>3

LEMMA SameMoney ==
  ASSUME NEW k,
         \A id \in Requests : KeyOf[id] = k =>
           /\ tx'[id] = "none" <=> tx[id] = "none"
           /\ tx'[id] = "ok" <=> tx[id] = "ok"
           /\ tx[id] # "none" => (Live(id)' <=> Live(id))
  PROVE  MoneyStays(k)
<1>1. Recordings(k)' = Recordings(k)
  BY DEF Recordings
<1>2. (\E id \in Recordings(k) : tx'[id] = "ok") <=> (\E id \in Recordings(k) : tx[id] = "ok")
  BY DEF Recordings
<1>3. (\E id \in Recordings(k) : Live(id)') <=> (\E id \in Recordings(k) : Live(id))
  BY DEF Recordings
<1> QED BY <1>1, <1>2, <1>3 DEF MoneyStays, MoneyOf

LEMMA SameChain ==
  ASSUME SourcesStay, UNCHANGED <<tx, accountSeq>>, NEW k
  PROVE  MoneyStays(k)
<1>1. \A id \in Requests : tx[id] # "none" => (Live(id)' <=> Live(id))
  BY DEF SourcesStay, Live, SequenceUsed, Sequence, Channel
<1> QED BY <1>1, SameMoney

\* Nobody is told a verdict.
NothingTold ==
  \A r \in Requests :
    \/ run'[r].answer = run[r].answer
    \/ run'[r].answer \notin FinalStates /\ run[r].answer \notin FinalStates

LEMMA SameTold ==
  ASSUME NothingTold, NEW k
  PROVE  ToldStays(k)
BY DEF NothingTold, ToldStays, ToldOf

\* A step of Payment, or none.
PaymentStep ==
  [Abstract!Next]_<<[k \in Keys |-> PhaseOf(k)], [k \in Keys |-> MoneyOf(k)],
                    [k \in Keys |-> ToldOf(k)]>>

LEMMA Stutters ==
  ASSUME \A k \in Keys : Stays(k)
  PROVE  PaymentStep
<1>1. /\ [k \in Keys |-> PhaseOf(k)]' = [k \in Keys |-> PhaseOf(k)]
      /\ [k \in Keys |-> MoneyOf(k)]' = [k \in Keys |-> MoneyOf(k)]
      /\ [k \in Keys |-> ToldOf(k)]' = [k \in Keys |-> ToldOf(k)]
  BY DEF Stays, PhaseStays, MoneyStays, ToldStays
<1> QED BY <1>1 DEF PaymentStep

\* One payment moves: what the abstract variables become.
LEMMA Moves ==
  ASSUME NEW k \in Keys, \A j \in Keys : j # k => Stays(j)
  PROVE  /\ [j \in Keys |-> PhaseOf(j)]' = [[j \in Keys |-> PhaseOf(j)] EXCEPT ![k] = PhaseOf(k)']
         /\ [j \in Keys |-> MoneyOf(j)]' = [[j \in Keys |-> MoneyOf(j)] EXCEPT ![k] = MoneyOf(k)']
         /\ [j \in Keys |-> ToldOf(j)]' = [[j \in Keys |-> ToldOf(j)] EXCEPT ![k] = ToldOf(k)']
         /\ PhaseStays(k) => [j \in Keys |-> PhaseOf(j)]' = [j \in Keys |-> PhaseOf(j)]
         /\ MoneyStays(k) => [j \in Keys |-> MoneyOf(j)]' = [j \in Keys |-> MoneyOf(j)]
         /\ ToldStays(k) => [j \in Keys |-> ToldOf(j)]' = [j \in Keys |-> ToldOf(j)]
<1>1. \A j \in Keys : j # k => /\ PhaseOf(j)' = PhaseOf(j) /\ MoneyOf(j)' = MoneyOf(j)
                              /\ ToldOf(j)' = ToldOf(j)
  BY DEF Stays, PhaseStays, MoneyStays, ToldStays
<1> QED BY <1>1 DEF PhaseStays, MoneyStays, ToldStays

\* The steps of Payment, as steps of one key.
LEMMA ClaimsPayment ==
  ASSUME NEW k \in Keys, \A j \in Keys : j # k => Stays(j), MoneyStays(k), ToldStays(k),
         \/ PhaseOf(k) = "open" /\ PhaseOf(k)' = "claimed"
         \/ PhaseOf(k) = "claimed" /\ PhaseOf(k)' = "open"
  PROVE  PaymentStep
<1>1. Abstract!Claim(k) \/ Abstract!Drop(k)
  BY Moves DEF Abstract!Claim, Abstract!Drop
<1> QED BY <1>1 DEF PaymentStep, Abstract!Next

LEMMA SignsPayment ==
  ASSUME NEW k \in Keys, \A j \in Keys : j # k => Stays(j), ToldStays(k),
         PhaseOf(k) = "claimed", PhaseOf(k)' = "signed",
         MoneyOf(k) = "none", MoneyOf(k)' \in {"pending", "kept"}
  PROVE  PaymentStep
<1>1. Abstract!Sign(k)
  BY Moves DEF Abstract!Sign
<1> QED BY <1>1 DEF PaymentStep, Abstract!Next

LEMMA LandsPayment ==
  ASSUME NEW k \in Keys, \A j \in Keys : j # k => Stays(j), PhaseStays(k), ToldStays(k),
         MoneyOf(k) = "pending", MoneyOf(k)' \in {"moved", "kept"}
  PROVE  PaymentStep
<1>1. Abstract!Land(k)
  BY Moves DEF Abstract!Land
<1> QED BY <1>1 DEF PaymentStep, Abstract!Next

LEMMA DecidesPayment ==
  ASSUME NEW k \in Keys, \A j \in Keys : j # k => Stays(j), MoneyStays(k),
         NEW verdict \in FinalStates, PhaseOf(k)' = verdict,
         \/ PhaseOf(k) = "claimed" /\ verdict = "succeeded" /\ MoneyOf(k) = "none"
         \/ /\ PhaseOf(k) = "signed"
            /\ MoneyOf(k) = IF verdict = "succeeded" THEN "moved" ELSE "kept",
         ToldStays(k) \/ ToldOf(k)' = {verdict}
  PROVE  PaymentStep
<1>1. Abstract!Decide(k, verdict)
  BY Moves DEF Abstract!Decide, Abstract!Fits
<1>2. verdict \in Abstract!Verdicts
  BY DEF Abstract!Verdicts, FinalStates
<1> QED BY <1>1, <1>2 DEF PaymentStep, Abstract!Next

LEMMA TellsPayment ==
  ASSUME NEW k \in Keys, \A j \in Keys : j # k => Stays(j), PhaseStays(k), MoneyStays(k),
         PhaseOf(k) \in FinalStates, ToldOf(k)' = {PhaseOf(k)}
  PROVE  PaymentStep
<1>1. Abstract!Tell(k)
  BY Moves DEF Abstract!Tell, Abstract!Verdicts, FinalStates
<1> QED BY <1>1 DEF PaymentStep, Abstract!Next

-----------------------------------------------------------------------------
(* What a row and its transaction say of their payment                      *)

LEMMA RowPhase ==
  ASSUME OneRowPerKey, NEW id \in Requests, Exists(id)
  PROVE  PhaseOf(KeyOf[id]) = IF rows[id].state = "submitted" THEN "signed" ELSE rows[id].state
<1>1. Find(KeyOf[id]) = {id}
  BY DEF OneRowPerKey, Find
<1> QED BY <1>1 DEF PhaseOf

LEMMA RecordedMoney ==
  ASSUME OneTransactionPerKey, NEW id \in Requests, tx[id] # "none"
  PROVE  MoneyOf(KeyOf[id]) = IF tx[id] = "ok" THEN "moved"
                              ELSE IF Live(id) THEN "pending" ELSE "kept"
<1>1. Recordings(KeyOf[id]) = {id}
  BY DEF OneTransactionPerKey, Recordings
<1> QED BY <1>1 DEF MoneyOf

LEMMA OneTransaction ==
  ASSUME IndInv
  PROVE  OneTransactionPerKey
BY DEF IndInv, RowShape, RowFits, OneRowPerKey, OneTransactionPerKey, Exists, FinalStates

\* The key of an unrecorded row has no transaction.
LEMMA ClaimedMoney ==
  ASSUME IndInv, NEW id \in Requests, Exists(id), tx[id] = "none"
  PROVE  MoneyOf(KeyOf[id]) = "none"
<1>1. \A i \in Requests : tx[i] # "none" => Exists(i)
  BY DEF IndInv, RowShape, RowFits, Exists, FinalStates
<1>2. Recordings(KeyOf[id]) = {}
  BY <1>1 DEF IndInv, OneRowPerKey, Recordings
<1> QED BY <1>2 DEF MoneyOf

\* Whoever was told a verdict was told the state of the key's row.
LEMMA ToldFits ==
  ASSUME IndInv, OwnInv, NEW id \in Requests, Exists(id)
  PROVE  ToldOf(KeyOf[id]) \subseteq {rows[id].state} \cap FinalStates
<1> SUFFICES ASSUME NEW r \in Requests, KeyOf[r] = KeyOf[id], run[r].answer \in FinalStates
             PROVE  run[r].answer = rows[id].state
  BY DEF ToldOf
<1>1. PICK i \in Requests : KeyOf[i] = KeyOf[r] /\ rows[i].state = run[r].answer
  BY OwnHere DEF AnswerFits
<1>2. Exists(i)
  BY <1>1 DEF Exists, FinalStates
<1> QED BY <1>1, <1>2 DEF IndInv, OneRowPerKey

-----------------------------------------------------------------------------
(* Steps that leave every payment as it is                                  *)

SameRowStates == \A id \in Requests : rows'[id].state = rows[id].state

LEMMA CalmStutters ==
  ASSUME SameRowStates, SourcesStay, UNCHANGED <<tx, accountSeq>>, NothingTold
  PROVE  PaymentStep
BY SameStates, SameChain, SameTold, Stutters DEF SameRowStates, Stays

LEMMA SilentThread ==
  ASSUME IndInv, OwnInv, NEW r \in Requests, \A q \in Requests : q # r => run'[q] = run[q],
         \/ run'[r].answer = run[r].answer
         \/ run[r].pc # "done" /\ run'[r].answer \notin FinalStates
  PROVE  NothingTold
<1>1. run[r].pc # "done" => run[r].answer = "none"
  BY OwnHere DEF ThreadFits
<1> QED BY <1>1 DEF NothingTold, FinalStates

LEMMA SilentEnd ==
  ASSUME IndInv, OwnInv, NEW r \in Requests, run[r].pc # "done", NEW a, a \notin FinalStates,
         EndsTo(r, a)
  PROVE  NothingTold
<1>1. (\A q \in Requests : q # r => run'[q] = run[q]) /\ run'[r].answer = a
  BY DEF EndsTo, OverTo, ThreadTo
<1> QED BY <1>1, SilentThread

LEMMA SilentMove ==
  ASSUME IndInv, OwnInv, NEW r \in Requests,
         \/ StopsTo(r)
         \/ \E pc, rec, chan, closed, signer, raced :
              ThreadTo(r, pc, rec, chan, closed, signer, raced, run[r].answer)
  PROVE  NothingTold
<1>1. (\A q \in Requests : q # r => run'[q] = run[q]) /\ run'[r].answer = run[r].answer
  BY DEF StopsTo, SignerTo, OverTo, ThreadTo
<1> QED BY <1>1, SilentThread

LEMMA RowlessCalm ==
  ASSUME NothingTold, UNCHANGED <<rows, tx, accountSeq>>
  PROVE  PaymentStep
BY CalmStutters, SameRowsHold DEF SameRowStates

LEMMA ThreadPayments ==
  ASSUME IndInv, OwnInv, NEW r \in Requests,
         \/ CallThrows(r) \/ SettlesOffChain(r) \/ GetsNoChannel(r) \/ AnswersRepeat(r)
         \/ ReleasesLost(r) \/ AnswersUnsigned(r)
         \/ LeasesChannel(r) \/ ChecksChannel(r) \/ QuarantinesAgain(r)
         \/ BuildsTransaction(r) \/ RefusesToSign(r) \/ SignsFeeBump(r)
         \/ SubmissionReturns(r) \/ SignWindowElapses(r) \/ ConfirmWindowElapses(r)
         \/ FetchesRow(r) \/ RechecksRow(r)
  PROVE  PaymentStep
<1>1. CASE CallThrows(r) \/ AnswersUnsigned(r)
  <2>1. /\ run[r].pc # "done" /\ UNCHANGED <<rows, tx, accountSeq>>
        /\ EndsTo(r, "error") \/ EndsTo(r, "unsigned")
    BY <1>1, ThreadSteps DEF Unguarded
  <2> QED BY <2>1, SilentEnd, RowlessCalm DEF FinalStates
<1>2. CASE SettlesOffChain(r) \/ GetsNoChannel(r) \/ ReleasesLost(r)
  <2>1. /\ UNCHANGED <<rows, tx, accountSeq>>
        /\ \E pc : PcTo(r, pc)
    BY <1>2, ThreadSteps
  <2> QED BY <2>1, SilentMove, RowlessCalm DEF PcTo
<1>3. CASE AnswersRepeat(r)
  <2>1. /\ UNCHANGED <<rows, tx, accountSeq>> /\ run[r].pc = "start"
    BY <1>3, AnswersRepeatStep
  <2>2. CASE OverTo(r, "conflict")
    <3>1. (\A q \in Requests : q # r => run'[q] = run[q]) /\ run'[r].answer = "conflict"
      BY <2>2 DEF OverTo, ThreadTo
    <3>2. NothingTold
      BY <2>1, <3>1, SilentThread DEF FinalStates
    <3> QED BY <2>1, <3>2, RowlessCalm
  <2>3. ASSUME NEW id \in Requests,
               ThreadTo(r, "repeat", id, run[r].chan, run[r].closed,
                        run[r].signer, run[r].raced, run[r].answer)
        PROVE  PaymentStep
    BY <2>1, <2>3, SilentMove, RowlessCalm
  <2> QED BY <1>3, <2>2, <2>3, AnswersRepeatStep
<1>4. CASE LeasesChannel(r)
  <2>1. PICK c \in Channels :
          /\ UNCHANGED <<rows, tx, accountSeq>>
          /\ ThreadTo(r, "check", run[r].rec, c, run[r].closed,
                      run[r].signer, run[r].raced, run[r].answer)
    BY <1>4, LeasesChannelStep
  <2> QED BY <2>1, SilentMove, RowlessCalm
<1>5. CASE ChecksChannel(r)
  <2>1. /\ UNCHANGED <<rows, tx, accountSeq>>
        /\ \/ ThreadTo(r, "race", run[r].rec, run[r].chan, run[r].closed,
                       "read", run[r].raced, run[r].answer)
           \/ PcTo(r, "requarantine")
    BY <1>5, ChecksChannelStep
  <2> QED BY <2>1, SilentMove, RowlessCalm DEF PcTo
<1>6. CASE QuarantinesAgain(r)
  <2>1. UNCHANGED <<rows, tx, accountSeq>>
    BY <1>6, QuarantinesAgainStep
  <2>2. PICK pc \in {"lease", "unleased"} :
          ThreadTo(r, pc, run[r].rec, None, run[r].closed, run[r].signer,
                   run[r].raced, run[r].answer)
    BY <1>6, QuarantinesAgainStep
  <2> QED BY <2>1, <2>2, SilentMove, RowlessCalm
<1>7. CASE BuildsTransaction(r) \/ RefusesToSign(r) \/ SignsFeeBump(r)
  <2>1. /\ UNCHANGED <<rows, tx, accountSeq>>
        /\ SignerTo(r, "built") \/ StopsTo(r) \/ SignerTo(r, "writing")
    BY <1>7, BuildsTransactionStep, RefusesToSignStep, SignsFeeBumpStep
  <2> QED BY <2>1, SilentMove, RowlessCalm DEF SignerTo
<1>8. CASE SubmissionReturns(r) \/ SignWindowElapses(r) \/ ConfirmWindowElapses(r)
  <2>1. PICK result \in RaceResults :
          /\ UNCHANGED <<rows, tx, accountSeq>>
          /\ ThreadTo(r, "fetch", run[r].rec, run[r].chan, ~Noted(r),
                      IF Submitting(r) THEN run[r].signer ELSE "stopped",
                      result, run[r].answer)
    BY <1>8, RaceStep
  <2> QED BY <2>1, SilentMove, RowlessCalm
<1>9. CASE FetchesRow(r) \/ RechecksRow(r)
  <2>1. /\ UNCHANGED <<rows, tx, accountSeq>>
        /\ \E pc : PcTo(r, pc)
    BY <1>9, FetchesRowStep, RechecksRowStep
  <2> QED BY <2>1, SilentMove, RowlessCalm DEF PcTo
<1> QED BY <1>1, <1>2, <1>3, <1>4, <1>5, <1>6, <1>7, <1>8, <1>9

LEMMA SendsCalm ==
  ASSUME NEW id \in Requests, NEW accepted, NEW sends, SendsTo(id, accepted, sends)
  PROVE  SameRowStates /\ SourcesStay
<1>1. SameRowStates
  BY DEF SendsTo, RowTo, SameRowStates
<1> QED BY <1>1, SendsHold

LEMMA RecordsFirstAnswerPayments ==
  ASSUME IndInv, OwnInv, NEW r \in Requests, RecordsFirstAnswer(r)
  PROVE  PaymentStep
<1>1. PICK id \in Requests : id = run[r].rec
  BY RecordsFirstAnswerStep
<1>2. /\ UNCHANGED <<tx, accountSeq>>
      /\ rows' = rows \/ \E accepted, sends : SendsTo(id, accepted, sends)
      /\ \E raced : ThreadTo(r, "drive", id, run[r].chan, run[r].closed, run[r].signer,
                             raced, run[r].answer)
  BY <1>1, RecordsFirstAnswerStep
<1>3. NothingTold
  BY <1>2, SilentMove
<1>4. SameRowStates /\ SourcesStay
  BY <1>2, SendsCalm, SameRowsHold DEF SameRowStates
<1> QED BY <1>2, <1>3, <1>4, CalmStutters

LEMMA SilentJob ==
  ASSUME IndInv, OwnInv, NEW d \in Drivers, NEW at, DrivesAt(d, at), NEW a, a \notin FinalStates,
         run' = run \/ JobOver(d, a)
  PROVE  NothingTold
<1>1. CASE run' = run
  BY <1>1 DEF NothingTold
<1>2. CASE d \in Requests /\ EndsTo(d, a)
  BY <1>2, SilentEnd DEF DrivesAt
<1> QED BY <1>1, <1>2 DEF JobOver

LEMMA JobsPayments ==
  ASSUME IndInv, OwnInv, NEW d \in Drivers,
         \/ Looks(d) \/ RecordsAnswer(d) \/ WeighsRejection(d) \/ Reloads(d)
         \/ MarksReleased(d) \/ HandsBack(d)
  PROVE  PaymentStep
<1>1. ASSUME NEW id \in Requests, NEW at, DrivesAt(d, at), UNCHANGED <<tx, accountSeq>>,
             rows' = rows \/ \E accepted, sends : SendsTo(id, accepted, sends),
             \/ Concluded(d, id) \/ Onward(d) \/ JobAt(d, "send")
             \/ JobAt(d, "weigh") \/ FinishTo(d, "failed")
      PROVE  PaymentStep
  <2>1. run' = run \/ JobOver(d, "pending")
    BY <1>1, OnwardJobs
  <2>2. NothingTold
    BY <1>1, <2>1, SilentJob DEF FinalStates
  <2>3. SameRowStates /\ SourcesStay
    BY <1>1, SendsCalm, SameRowsHold DEF SameRowStates
  <2> QED BY <1>1, <2>2, <2>3, CalmStutters
<1>2. CASE Looks(d)
  <2>1. PICK id \in Requests : id = job[d].on
    BY <1>2, LooksStep DEF DrivesAt
  <2>2. /\ DrivesAt(d, "look") /\ UNCHANGED <<tx, accountSeq>>
        /\ rows' = rows \/ SendsTo(id, rows[id].accepted, rows[id].sends \cup {d})
        /\ Concluded(d, id) \/ Onward(d) \/ JobAt(d, "send")
    BY <1>2, <2>1, LooksStep
  <2> QED BY <1>1, <2>2
<1>3. CASE RecordsAnswer(d)
  <2>1. PICK id \in Requests : id = job[d].on
    BY <1>3, RecordsAnswerStep DEF DrivesAt
  <2>2. /\ DrivesAt(d, "reply") /\ UNCHANGED <<tx, accountSeq>>
        /\ Concluded(d, id) \/ Onward(d) \/ JobAt(d, "weigh")
    BY <1>3, <2>1, RecordsAnswerStep
  <2>3. rows' = rows \/ \E accepted, sends : SendsTo(id, accepted, sends)
    BY <1>3, <2>1, RecordsAnswerStep
  <2> QED BY <1>1, <2>2, <2>3
<1>4. CASE WeighsRejection(d)
  <2>1. PICK id \in Requests : id = job[d].on
    BY <1>4, WeighsRejectionStep DEF DrivesAt
  <2>2. /\ DrivesAt(d, "weigh") /\ UNCHANGED <<rows, tx, accountSeq>>
        /\ FinishTo(d, "failed") \/ Onward(d)
    BY <1>4, WeighsRejectionStep
  <2> QED BY <1>1, <2>1, <2>2
<1>5. CASE HandsBack(d)
  <2>1. PICK id \in Requests : id = job[d].on
    BY <1>5, HandsBackStep DEF DrivesAt
  <2>2. DrivesAt(d, "hand") /\ UNCHANGED <<rows, tx, accountSeq>> /\ Onward(d)
    BY <1>5, HandsBackStep
  <2> QED BY <1>1, <2>1, <2>2
<1>6. CASE Reloads(d)
  <2>1. UNCHANGED <<rows, tx, accountSeq>>
    BY <1>6, ReloadsStep
  <2>2. \/ run' = run
        \/ /\ d \in Requests
           /\ ThreadTo(d, run[d].pc, run[d].rec, run[d].chan, run[d].closed,
                       run[d].signer, "none", run[d].answer)
    BY <1>6, ReloadsStep
  <2>3. NothingTold
    BY <2>2, SilentMove DEF NothingTold
  <2> QED BY <2>1, <2>3, RowlessCalm
<1>7. CASE MarksReleased(d)
  <2>1. PICK id \in Requests : id = job[d].on
    BY <1>7, MarksReleasedStep DEF DrivesAt
  <2>2. DrivesAt(d, "giveBack") /\ UNCHANGED <<tx, accountSeq>>
    BY <1>7, MarksReleasedStep
  <2>3. CASE rows' = rows /\ Onward(d)
    BY <1>1, <2>1, <2>2, <2>3
  <2>4. ASSUME RowTo(id, rows[id].state, rows[id].owner, rows[id].channel,
                     rows[id].seq, rows[id].accepted, rows[id].sends, TRUE),
               JobAt(d, "hand")
        PROVE  PaymentStep
    <3>1. SameRowStates /\ SourcesStay
      BY <2>4 DEF RowTo, SameRowStates, SourcesStay
    <3>2. NothingTold
      BY <2>4 DEF JobAt, NothingTold
    <3> QED BY <2>2, <3>1, <3>2, CalmStutters
  <2> QED BY <1>7, <2>1, <2>3, <2>4, MarksReleasedStep
<1> QED BY <1>2, <1>3, <1>4, <1>5, <1>6, <1>7

LEMMA WorldPayments ==
  ASSUME IndInv, OwnInv,
         \/ ClockStep
         \/ \E p \in Replicas : StartsReconcile(p) \/ Crashes(p)
  PROVE  PaymentStep
<1>1. CASE ClockStep
  <2>1. /\ UNCHANGED <<run, tx, accountSeq>>
        /\ \/ rows' = rows
           \/ \E id \in Requests : SendsTo(id, rows[id].accepted, rows[id].sends)
    BY <1>1, ClockStepTo
  <2>2. SameRowStates /\ SourcesStay
    BY <2>1, SendsCalm, SameRowsHold DEF SameRowStates
  <2> QED BY <2>1, <2>2, CalmStutters DEF NothingTold
<1>2. ASSUME NEW p \in Replicas, StartsReconcile(p)
      PROVE  PaymentStep
  <2>1. UNCHANGED <<rows, run, tx, accountSeq>>
    BY <1>2, StartsReconcileStep
  <2> QED BY <2>1, RowlessCalm DEF NothingTold
<1>3. ASSUME NEW p \in Replicas, Crashes(p)
      PROVE  PaymentStep
  <2>1. /\ UNCHANGED <<tx, accountSeq>>
        /\ \A r \in Requests : CrashedRun(p, r)
        /\ \A id \in Requests :
             /\ rows'[id].state = rows[id].state /\ rows'[id].owner = rows[id].owner
             /\ rows'[id].channel = rows[id].channel /\ rows'[id].seq = rows[id].seq
             /\ rows'[id].released = rows[id].released
    BY <1>3, CrashesStep
  <2>2. SameRowStates /\ SourcesStay
    BY <2>1, FieldsHold DEF SameRowStates
  <2>3. NothingTold
    <3>1. \A r \in Requests : run[r].pc # "done" => run[r].answer = "none"
      BY OwnHere DEF ThreadFits
    <3> QED BY <2>1, <3>1 DEF CrashedRun, NothingTold, FinalStates
  <2> QED BY <2>1, <2>2, <2>3, CalmStutters
<1> QED BY <1>1, <1>2, <1>3

-----------------------------------------------------------------------------
(* Steps of one payment                                                     *)

\* The same of the next state.
LEMMA RowPhases ==
  OneRowPerKey =>
    \A id \in Requests :
      Exists(id) => PhaseOf(KeyOf[id]) = IF rows[id].state = "submitted" THEN "signed"
                                                                         ELSE rows[id].state
BY RowPhase

LEMMA RowPhasesNext ==
  (OneRowPerKey =>
    \A id \in Requests :
      Exists(id) => PhaseOf(KeyOf[id]) = IF rows[id].state = "submitted" THEN "signed"
                                                                         ELSE rows[id].state)'
BY RowPhases, PTL

LEMMA RecordedMoneys ==
  OneTransactionPerKey =>
    \A id \in Requests :
      tx[id] # "none" => MoneyOf(KeyOf[id]) = IF tx[id] = "ok" THEN "moved"
                                              ELSE IF Live(id) THEN "pending" ELSE "kept"
BY RecordedMoney

LEMMA RecordedMoneysNext ==
  (OneTransactionPerKey =>
    \A id \in Requests :
      tx[id] # "none" => MoneyOf(KeyOf[id]) = IF tx[id] = "ok" THEN "moved"
                                              ELSE IF Live(id) THEN "pending" ELSE "kept")'
BY RecordedMoneys, PTL

LEMMA OneTransactions == IndInv => OneTransactionPerKey
BY OneTransaction

LEMMA OneTransactionsNext == IndInv' => OneTransactionPerKey'
BY OneTransactions, PTL

\* What the step made of a row's payment.
LEMMA NextPhase ==
  ASSUME IndInv', NEW id \in Requests, rows'[id].state # "absent"
  PROVE  PhaseOf(KeyOf[id])' = IF rows'[id].state = "submitted" THEN "signed"
                                                                ELSE rows'[id].state
BY RowPhasesNext DEF IndInv, Exists

LEMMA NextMoney ==
  ASSUME IndInv', NEW id \in Requests, tx'[id] # "none"
  PROVE  MoneyOf(KeyOf[id])' = IF tx'[id] = "ok" THEN "moved"
                               ELSE IF Live(id)' THEN "pending" ELSE "kept"
BY OneTransactionsNext, RecordedMoneysNext

\* Payments of other keys stay.
LEMMA Elsewhere ==
  ASSUME NEW k, UNCHANGED accountSeq,
         \A i \in Requests : KeyOf[i] # k =>
           rows'[i] = rows[i] /\ tx'[i] = tx[i] /\ run'[i].answer = run[i].answer
  PROVE  \A j \in Keys : j # k => Stays(j)
<1> SUFFICES ASSUME NEW j \in Keys, j # k PROVE Stays(j)
  OBVIOUS
<1>1. PhaseStays(j)
  BY SameStates
<1>2. MoneyStays(j)
  <2>1. \A id \in Requests : KeyOf[id] = j => (Live(id)' <=> Live(id))
    BY DEF Live, SequenceUsed, Sequence, Channel
  <2> QED BY <2>1, SameMoney
<1>3. ToldStays(j)
  BY DEF ToldStays, ToldOf
<1> QED BY <1>1, <1>2, <1>3 DEF Stays

LEMMA ToldNext ==
  ASSUME NEW r \in Requests, \A q \in Requests : q # r => run'[q] = run[q],
         NEW a \in FinalStates, run'[r].answer = a,
         ToldOf(KeyOf[r]) \subseteq {a}
  PROVE  ToldOf(KeyOf[r])' = {a}
<1>1. a \in ToldOf(KeyOf[r])'
  BY DEF ToldOf
<1>2. \A q \in Requests : KeyOf[q] = KeyOf[r] /\ run'[q].answer \in FinalStates =>
                            run'[q].answer = a
  BY DEF ToldOf
<1>3. ToldOf(KeyOf[r])' \subseteq {a}
  BY <1>2 DEF ToldOf
<1> QED BY <1>1, <1>3

\* A verdict is told again.
LEMMA TellsAgain ==
  ASSUME IndInv, OwnInv, NEW r \in Requests, NEW id \in Requests, KeyOf[id] = KeyOf[r],
         IsFinal(id), run[r].pc # "done", EndsTo(r, rows[id].state),
         UNCHANGED <<rows, tx, accountSeq>>
  PROVE  PaymentStep
<1> DEFINE k == KeyOf[r]
<1>1. Exists(id) /\ rows[id].state # "submitted" /\ rows[id].state \in FinalStates
  BY DEF IsFinal, Exists, FinalStates
<1>2. k \in Keys /\ PhaseOf(k) = rows[id].state
  BY <1>1, RowPhase, LedgerAssumption DEF IndInv
<1>3. /\ \A q \in Requests : q # r => run'[q] = run[q]
      /\ run'[r].answer = rows[id].state
  BY DEF EndsTo, OverTo, ThreadTo
<1>4. ToldOf(k)' = {PhaseOf(k)}
  BY <1>1, <1>2, <1>3, ToldFits, ToldNext
<1>5. PhaseStays(k) /\ MoneyStays(k)
  BY SameStates, SameChain, SameRowsHold
<1>6. \A j \in Keys : j # k => Stays(j)
  BY <1>3, Elsewhere
<1> QED BY <1>1, <1>2, <1>4, <1>5, <1>6, TellsPayment

LEMMA AwaitsExistingPayments ==
  ASSUME IndInv, OwnInv, NEW r \in Requests, AwaitsExisting(r)
  PROVE  PaymentStep
<1>1. PICK id \in Requests : id = run[r].rec
  BY AwaitsExistingStep
<1>2. /\ run[r].pc # "done" /\ UNCHANGED <<rows, tx, accountSeq>>
      /\ EndsTo(r, AnswerOf(id))
  BY <1>1, AwaitsExistingStep
<1>3. KeyOf[id] = KeyOf[r]
  BY <1>1, OwnHere DEF ThreadFits
<1>4. CASE IsFinal(id)
  BY <1>2, <1>3, <1>4, TellsAgain DEF AnswerOf
<1>5. CASE ~IsFinal(id)
  <2>1. EndsTo(r, "pending")
    BY <1>2, <1>5 DEF AnswerOf
  <2> QED BY <1>2, <2>1, SilentEnd, RowlessCalm DEF FinalStates
<1> QED BY <1>4, <1>5

LEMMA DriversKey ==
  ASSUME IndInv, OwnInv, NEW d \in Requests, NEW at, at # "idle", DrivesAt(d, at)
  PROVE  KeyOf[job[d].on] = KeyOf[d]
BY OwnHere DEF DrivesAt, DriveFits, ThreadFits

LEMMA FreesChannelPayments ==
  ASSUME IndInv, OwnInv, NEW d \in Drivers, FreesChannel(d)
  PROVE  PaymentStep
<1>1. PICK id \in Requests : id = job[d].on
  BY FreesChannelStep DEF DrivesAt
<1>2. /\ DrivesAt(d, "free") /\ UNCHANGED <<rows, tx, accountSeq>> /\ IsFinal(id)
      /\ JobOver(d, rows[id].state) \/ JobOver(d, "error")
  BY <1>1, FreesChannelStep
<1>3. CASE JobOver(d, "error")
  <2>1. NothingTold
    BY <1>2, <1>3, SilentJob DEF FinalStates
  <2> QED BY <1>2, <2>1, RowlessCalm
<1>4. CASE JobOver(d, rows[id].state) /\ d \notin Requests
  <2>1. NothingTold
    BY <1>4 DEF JobOver, NothingTold
  <2> QED BY <1>2, <2>1, RowlessCalm
<1>5. CASE JobOver(d, rows[id].state) /\ d \in Requests
  <2>1. EndsTo(d, rows[id].state) /\ run[d].pc # "done"
    BY <1>2, <1>5 DEF JobOver, DrivesAt
  <2> QED BY <1>1, <1>2, <1>5, <2>1, DriversKey, TellsAgain
<1> QED BY <1>2, <1>3, <1>4, <1>5

LEMMA ClaimsPayments ==
  ASSUME IndInv, IndInv', OwnInv, NEW r \in Requests, Claims(r)
  PROVE  PaymentStep
<1>1. PICK id, channel, seq, accepted, sends, released :
        /\ id \in Requests
        /\ UNCHANGED <<tx, accountSeq>> /\ KeyOf[id] = KeyOf[r]
        /\ ThreadTo(r, FirstStep(r), id, run[r].chan, run[r].closed,
                    run[r].signer, run[r].raced, run[r].answer)
        /\ \/ Find(KeyOf[r]) = {}
           \/ rows[id].state = "claimed"
        /\ RowTo(id, "claimed", r, channel, seq, accepted, sends, released)
  BY ClaimsStep, Zenon
<1>2. /\ \A i \in Requests : i # id => rows'[i] = rows[i]
      /\ rows'[id].state = "claimed" /\ rows'[id].owner = r
  BY <1>1 DEF RowTo
<1>3. NothingTold
  BY <1>1, SilentMove
<1>4. rows[id].state \in Unwritten
  BY <1>1 DEF Find, Exists, Unwritten
<1>5. SourcesStay
  BY <1>1, <1>2, <1>4, ClaimsHold
<1>6. CASE rows[id].state = "claimed"
  BY <1>1, <1>2, <1>3, <1>5, <1>6, CalmStutters DEF SameRowStates
<1>7. CASE Find(KeyOf[r]) = {}
  <2> DEFINE k == KeyOf[id]
  <2>1. k \in Keys /\ PhaseOf(k) = "open"
    BY <1>1, <1>7, LedgerAssumption DEF PhaseOf
  <2>2. PhaseOf(k)' = "claimed"
    BY <1>1, <1>2, NextPhase
  <2>3. MoneyStays(k) /\ ToldStays(k)
    BY <1>1, <1>3, <1>5, SameChain, SameTold
  <2>4. \A j \in Keys : j # k => Stays(j)
    <3>1. \A i \in Requests : run'[i].answer = run[i].answer
      BY <1>1 DEF ThreadTo
    <3> QED BY <1>1, <1>2, <3>1, Elsewhere
  <2> QED BY <2>1, <2>2, <2>3, <2>4, ClaimsPayment
<1> QED BY <1>1, <1>6, <1>7

LEMMA AbandonsPayments ==
  ASSUME IndInv, OwnInv, NEW r \in Requests,
         AbandonsClaim(r) \/ AbandonsUnleased(r) \/ AbandonsOffChain(r)
  PROVE  PaymentStep
<1>1. PICK id \in Requests : id = run[r].rec
  BY AbandonSteps
<1>2. /\ UNCHANGED <<tx, accountSeq>>
      /\ \/ OwnsClaim(id, r) /\ RowTo(id, "absent", None, None, 0, FALSE, {}, FALSE)
         \/ rows' = rows
  BY <1>1, AbandonSteps DEF AbandonsTo
<1>3. /\ run[r].pc # "done"
      /\ PcTo(r, "recheck") \/ EndsTo(r, "unavailable") \/ EndsTo(r, "unsigned")
  BY AbandonSteps
<1>4. NothingTold
  BY <1>3, SilentMove, SilentEnd DEF PcTo, FinalStates
<1>5. CASE rows' = rows
  BY <1>2, <1>4, <1>5, RowlessCalm
<1>6. CASE OwnsClaim(id, r) /\ RowTo(id, "absent", None, None, 0, FALSE, {}, FALSE)
  <2> DEFINE k == KeyOf[id]
  <2>1. /\ \A i \in Requests : i # id => rows'[i] = rows[i]
        /\ rows'[id].state = "absent" /\ rows[id].state = "claimed"
    BY <1>6 DEF RowTo, OwnsClaim
  <2>2. k \in Keys /\ PhaseOf(k) = "claimed"
    BY <2>1, RowPhase, LedgerAssumption DEF IndInv, Exists
  <2>3. PhaseOf(k)' = "open"
    <3>1. Find(k)' = {}
      BY <2>1 DEF IndInv, OneRowPerKey, Find, Exists
    <3> QED BY <3>1 DEF PhaseOf
  <2>4. SourcesStay
    BY <2>1, ClaimsHold DEF Unwritten
  <2>5. MoneyStays(k) /\ ToldStays(k)
    BY <1>2, <1>4, <2>4, SameChain, SameTold
  <2>6. \A j \in Keys : j # k => Stays(j)
    <3>1. \A q \in Requests : q # r => run'[q] = run[q]
      BY <1>3 DEF PcTo, EndsTo, OverTo, ThreadTo
    <3>2. KeyOf[r] = k
      BY <1>1, OwnHere DEF ThreadFits
    <3> QED BY <1>2, <2>1, <3>1, <3>2, Elsewhere
  <2> QED BY <2>2, <2>3, <2>5, <2>6, ClaimsPayment
<1> QED BY <1>2, <1>5, <1>6

LEMMA FinishesOffChainPayments ==
  ASSUME IndInv, IndInv', OwnInv, NEW r \in Requests, FinishesOffChain(r)
  PROVE  PaymentStep
<1>1. PICK id \in Requests : id = run[r].rec
  BY FinishesOffChainStep
<1>2. run[r].pc = "offFinish" /\ UNCHANGED <<tx, accountSeq>>
  BY FinishesOffChainStep
<1>3. CASE ~OwnsClaim(id, r)
  <2>1. rows' = rows /\ (PcTo(r, "taken") \/ EndsTo(r, "error"))
    BY <1>1, <1>3, FinishesOffChainStep
  <2>2. NothingTold
    BY <1>2, <2>1, SilentMove, SilentEnd DEF PcTo, FinalStates
  <2> QED BY <1>2, <2>1, <2>2, RowlessCalm
<1>4. CASE OwnsClaim(id, r)
  <2> DEFINE k == KeyOf[id]
  <2>1. FinalTo(id, "succeeded") /\ EndsTo(r, "succeeded")
    BY <1>1, <1>4, FinishesOffChainStep
  <2>2. /\ \A i \in Requests : i # id => rows'[i] = rows[i]
        /\ rows'[id].state = "succeeded" /\ rows'[id].owner = r
        /\ rows[id].state = "claimed" /\ Exists(id)
    BY <1>4, <2>1 DEF FinalTo, RowTo, OwnsClaim, Exists
  <2>3. k \in Keys /\ PhaseOf(k) = "claimed" /\ PhaseOf(k)' = "succeeded"
    BY <2>2, RowPhase, NextPhase, LedgerAssumption DEF IndInv
  <2>4. SourcesStay /\ tx[id] = "none"
    BY <2>2, ClaimsHold, Unrecorded DEF Unwritten
  <2>5. MoneyStays(k) /\ MoneyOf(k) = "none"
    BY <1>2, <2>2, <2>4, SameChain, ClaimedMoney
  <2>6. /\ \A q \in Requests : q # r => run'[q] = run[q]
        /\ run'[r].answer = "succeeded" /\ KeyOf[r] = k
    BY <1>1, <2>1, OwnHere DEF EndsTo, OverTo, ThreadTo, ThreadFits
  <2>7. "succeeded" \in FinalStates
    BY DEF FinalStates
  <2>8. ToldOf(k)' = {"succeeded"}
    BY <2>2, <2>6, <2>7, ToldFits, ToldNext DEF FinalStates
  <2>9. \A j \in Keys : j # k => Stays(j)
    BY <1>2, <2>2, <2>6, Elsewhere
  <2> QED BY <2>3, <2>5, <2>7, <2>8, <2>9, DecidesPayment
<1> QED BY <1>3, <1>4

LEMMA RecordsEnvelopePayments ==
  ASSUME IndInv, IndInv', OwnInv, NEW r \in Requests, RecordsEnvelope(r)
  PROVE  PaymentStep
<1>1. PICK id \in Requests : id = run[r].rec
  BY RecordsEnvelopeStep
<1>2. UNCHANGED accountSeq
  BY RecordsEnvelopeStep
<1>3. SignerTo(r, "sending") \/ StopsTo(r)
  BY RecordsEnvelopeStep
<1>4. NothingTold
  BY <1>3, SilentMove DEF SignerTo
<1>5. CASE ~OwnsClaim(id, r)
  <2>1. rows' = rows /\ tx' = tx
    BY <1>1, <1>5, RecordsEnvelopeStep
  <2> QED BY <1>2, <1>4, <2>1, RowlessCalm
<1>6. CASE OwnsClaim(id, r)
  <2> DEFINE k == KeyOf[id]
  <2>1. PICK n \in Nat :
          /\ RowTo(id, "submitted", r, run[r].chan, n, FALSE, {FirstSend}, rows[id].released)
          /\ TxTo(id, "signed")
    BY <1>1, <1>6, RecordsEnvelopeStep
  <2>2. /\ \A i \in Requests : i # id => rows'[i] = rows[i] /\ tx'[i] = tx[i]
        /\ rows'[id].state = "submitted" /\ tx'[id] = "signed"
        /\ rows[id].state = "claimed" /\ Exists(id)
    BY <1>6, <2>1 DEF RowTo, TxTo, OwnsClaim, Exists
  <2>3. k \in Keys /\ PhaseOf(k) = "claimed" /\ PhaseOf(k)' = "signed"
    BY <2>2, RowPhase, NextPhase, LedgerAssumption DEF IndInv
  <2>4. MoneyOf(k) = "none"
    BY <2>2, Unrecorded, ClaimedMoney
  <2>5. MoneyOf(k)' \in {"pending", "kept"}
    BY <2>2, NextMoney
  <2>6. \A j \in Keys : j # k => Stays(j)
    <3>1. \A q \in Requests : run'[q].answer = run[q].answer
      BY <1>3 DEF SignerTo, StopsTo, OverTo, ThreadTo
    <3> QED BY <1>2, <2>2, <3>1, Elsewhere
  <2> QED BY <1>4, <2>3, <2>4, <2>5, <2>6, SameTold, SignsPayment
<1> QED BY <1>5, <1>6

LEMMA CompletesRowPayments ==
  ASSUME IndInv, IndInv', OwnInv, FateInv, NEW d \in Drivers, CompletesRow(d)
  PROVE  PaymentStep
<1>1. PICK id \in Requests : id = job[d].on /\ tx[id] # "none"
  BY CompletesRowStep DEF DrivesAt
<1>2. /\ DrivesAt(d, "finish") /\ UNCHANGED <<tx, accountSeq>>
      /\ job[d].verdict \in FinalStates
  BY CompletesRowStep
<1>3. CASE rows' = rows /\ JobOver(d, "error")
  <2>1. NothingTold
    BY <1>2, <1>3, SilentJob DEF FinalStates
  <2> QED BY <1>2, <1>3, <2>1, RowlessCalm
<1>4. CASE rows' = rows /\ IsFinal(id) /\ JobOver(d, rows[id].state)
  <2>1. CASE d \notin Requests
    <3>1. NothingTold
      BY <1>4, <2>1 DEF JobOver, NothingTold
    <3> QED BY <1>2, <1>4, <3>1, RowlessCalm
  <2>2. CASE d \in Requests
    <3>1. EndsTo(d, rows[id].state) /\ run[d].pc # "done"
      BY <1>2, <1>4, <2>2 DEF JobOver, DrivesAt
    <3>2. KeyOf[id] = KeyOf[d]
      BY <1>1, <1>2, <2>2, DriversKey
    <3> QED BY <1>2, <1>4, <2>2, <3>1, <3>2, TellsAgain
  <2> QED BY <2>1, <2>2
<1>5. ASSUME rows[id].state = "submitted", FinalTo(id, job[d].verdict),
             IF rows[id].released THEN JobOver(d, job[d].verdict) ELSE JobAt(d, "free")
      PROVE  PaymentStep
  <2> DEFINE k == KeyOf[id]
             verdict == job[d].verdict
  <2>1. /\ \A i \in Requests : i # id => rows'[i] = rows[i]
        /\ rows'[id].state = verdict /\ verdict # "submitted" /\ verdict # "absent"
        /\ rows'[id].channel = rows[id].channel /\ rows'[id].seq = rows[id].seq
        /\ rows'[id].owner = rows[id].owner /\ Exists(id)
    BY <1>2, <1>5 DEF FinalTo, RowTo, FinalStates, Exists
  <2>2. k \in Keys /\ PhaseOf(k) = "signed" /\ PhaseOf(k)' = verdict
    BY <1>5, <2>1, RowPhase, NextPhase, LedgerAssumption DEF IndInv
  <2>3. MoneyOf(k) = IF verdict = "succeeded" THEN "moved" ELSE "kept"
    <3>1. IF verdict = "succeeded" THEN tx[id] = "ok" ELSE Gone(id)
      BY <1>1, <1>2 DEF DrivesAt, FateInv, JobFate
    <3> QED BY <1>1, <3>1, RecordedMoney, OneTransaction DEF Gone
  <2>4. MoneyStays(k)
    BY <1>2, <2>1, SameChain DEF SourcesStay
  <2>5. CASE run' = run
    <3>1. ToldStays(k)
      BY <2>5, SameTold DEF NothingTold
    <3>2. \A j \in Keys : j # k => Stays(j)
      BY <1>2, <2>1, <2>5, Elsewhere
    <3> QED BY <1>2, <2>2, <2>3, <2>4, <3>1, <3>2, DecidesPayment
  <2>6. CASE d \in Requests /\ EndsTo(d, verdict)
    <3>1. KeyOf[d] = k
      BY <1>1, <1>2, <2>6, DriversKey
    <3>2. (\A q \in Requests : q # d => run'[q] = run[q]) /\ run'[d].answer = verdict
      BY <2>6 DEF EndsTo, OverTo, ThreadTo
    <3>3. ToldOf(k) \subseteq {verdict}
      BY <1>5, <2>1, ToldFits DEF FinalStates
    <3>4. ToldOf(k)' = {verdict}
      BY <1>2, <2>6, <3>1, <3>2, <3>3, ToldNext
    <3>5. \A j \in Keys : j # k => Stays(j)
      BY <1>2, <2>1, <3>1, <3>2, Elsewhere
    <3> QED BY <1>2, <2>2, <2>3, <2>4, <3>4, <3>5, DecidesPayment
  <2> QED BY <1>5, <2>5, <2>6 DEF JobOver, JobAt
<1> QED BY <1>1, <1>3, <1>4, <1>5, CompletesRowStep

-----------------------------------------------------------------------------
(* The network                                                              *)

\* At most one transaction stops being live, and the network decides no
\* other.
LEMMA Lands ==
  ASSUME IndInv, IndInv', UNCHANGED <<rows, run>>,
         NEW id \in Requests, tx[id] # "none", tx[id] # "ok", Live(id),
         tx'[id] # "none", tx'[id] = "ok" \/ ~Live(id)',
         \A i \in Requests : i # id => tx'[i] = tx[i] /\ (tx[i] # "none" => (Live(i)' <=> Live(i)))
  PROVE  PaymentStep
<1> DEFINE k == KeyOf[id]
<1>1. k \in Keys /\ MoneyOf(k) = "pending"
  BY RecordedMoney, OneTransaction, LedgerAssumption
<1>2. MoneyOf(k)' \in {"moved", "kept"}
  BY NextMoney
<1>3. PhaseStays(k) /\ ToldStays(k)
  BY SameStates, SameTold DEF NothingTold
<1>4. ASSUME NEW j \in Keys, j # k
      PROVE  Stays(j)
  <2>1. MoneyStays(j)
    BY <1>4, SameMoney
  <2>2. PhaseStays(j) /\ ToldStays(j)
    BY SameStates, SameTold DEF NothingTold
  <2> QED BY <2>1, <2>2 DEF Stays
<1> QED BY <1>1, <1>2, <1>3, <1>4, LandsPayment

LEMMA NothingLands ==
  ASSUME SameRowStates, NothingTold,
         \A i \in Requests :
           /\ tx'[i] = "none" <=> tx[i] = "none"
           /\ tx'[i] = "ok" <=> tx[i] = "ok"
           /\ tx[i] # "none" => (Live(i)' <=> Live(i))
  PROVE  PaymentStep
BY SameStates, SameMoney, SameTold, Stutters DEF SameRowStates, Stays

\* The answer to a send: only a refusal for good decides.
LEMMA AnswersPayments ==
  ASSUME IndInv, IndInv', NothingTold, UNCHANGED <<rows, accountSeq>>,
         NEW id \in Requests, NEW reply, NetworkAnswers(id, reply)
  PROVE  PaymentStep
<1>1. \A i \in Requests : SequenceUsed(i)' = SequenceUsed(i)
  BY DEF SequenceUsed, Sequence, Channel
<1>2. \/ tx' = tx
      \/ tx[id] \in {"signed", "queued"} /\ ~SequenceUsed(id) /\ TxTo(id, "queued")
      \/ tx[id] \in {"signed", "doomed"} /\ ~SequenceUsed(id) /\ TxTo(id, "doomed")
  BY NetworkAnswersStep
<1>3. CASE tx' = tx
  BY <1>1, <1>3, NothingLands DEF SameRowStates, Live
<1>4. CASE tx[id] \in {"signed", "queued"} /\ ~SequenceUsed(id) /\ TxTo(id, "queued")
  BY <1>1, <1>4, NothingLands DEF SameRowStates, Live, TxTo
<1>5. CASE tx[id] = "doomed" /\ TxTo(id, "doomed")
  BY <1>1, <1>5, NothingLands DEF SameRowStates, Live, TxTo
<1>6. CASE tx[id] = "signed" /\ ~SequenceUsed(id) /\ TxTo(id, "doomed")
  <2> DEFINE k == KeyOf[id]
  <2>1. /\ tx'[id] = "doomed" /\ \A i \in Requests : i # id => tx'[i] = tx[i]
        /\ Live(id) /\ ~Live(id)'
        /\ \A i \in Requests : i # id => (Live(i)' <=> Live(i))
    BY <1>1, <1>6 DEF TxTo, Live
  <2>2. k \in Keys /\ MoneyOf(k) = "pending" /\ MoneyOf(k)' = "kept"
    BY <1>6, <2>1, RecordedMoney, OneTransaction, NextMoney, LedgerAssumption
  <2>3. \A j \in Keys : PhaseStays(j) /\ ToldStays(j)
    BY SameStates, SameTold
  <2>4. \A j \in Keys : j # k => MoneyStays(j)
    BY <2>1, SameMoney
  <2> QED BY <2>2, <2>3, <2>4, LandsPayment DEF Stays
<1> QED BY <1>2, <1>3, <1>4, <1>5, <1>6

LEMMA SendingPayments ==
  ASSUME IndInv, IndInv', OwnInv,
         (\E r \in Requests : SendsFirst(r)) \/ (\E d \in Drivers : Sends(d))
  PROVE  PaymentStep
<1>1. ASSUME NEW r \in Requests, SendsFirst(r)
      PROVE  PaymentStep
  <2>1. PICK id \in Requests : id = run[r].rec
    BY <1>1, SendsFirstStep
  <2>2. UNCHANGED <<rows, accountSeq>>
    BY <1>1, SendsFirstStep
  <2>3. PICK reply \in Replies :
          /\ NetworkAnswers(id, reply)
          /\ StopsTo(r) \/ \E step : SignerTo(r, step)
    BY <1>1, <2>1, SendsFirstStep
  <2>4. NothingTold
    BY <2>3, SilentMove DEF SignerTo
  <2> QED BY <2>2, <2>3, <2>4, AnswersPayments
<1>2. ASSUME NEW d \in Drivers, Sends(d)
      PROVE  PaymentStep
  <2>1. PICK id \in Requests : id = job[d].on
    BY <1>2, SendsStep DEF DrivesAt
  <2>2. UNCHANGED <<rows, run, accountSeq>>
    BY <1>2, SendsStep
  <2>3. PICK reply \in Replies : NetworkAnswers(id, reply)
    BY <1>2, <2>1, SendsStep
  <2> QED BY <2>2, <2>3, AnswersPayments DEF NothingTold
<1> QED BY <1>1, <1>2

LEMMA SeqStaysUsed ==
  ASSUME UNCHANGED rows, accountSeq \in [Channels -> Nat],
         NEW c \in Channels, NEW n \in Nat, n >= accountSeq[c],
         accountSeq' = [accountSeq EXCEPT ![c] = n],
         NEW i \in Requests, Channel(i) \in Channels, Sequence(i) \in Nat, SequenceUsed(i)
  PROVE  SequenceUsed(i)'
<1>1. Channel(i)' = Channel(i) /\ Sequence(i)' = Sequence(i)
  BY DEF Channel, Sequence
<1>2. accountSeq[Channel(i)] >= Sequence(i) /\ accountSeq[Channel(i)] \in Nat
  BY DEF SequenceUsed
<1>3. accountSeq'[Channel(i)] >= Sequence(i)
  <2>1. CASE Channel(i) = c
    <3>1. accountSeq'[Channel(i)] = n /\ accountSeq[c] >= Sequence(i) /\ accountSeq[c] \in Nat
      BY <1>2, <2>1
    <3> QED BY <3>1
  <2>2. CASE Channel(i) # c
    BY <1>2, <2>2
  <2> QED BY <2>1, <2>2
<1> QED BY <1>1, <1>3 DEF SequenceUsed

\* A sequence number passes one live transaction at most: this is where two
\* of them must never share one.
LEMMA NetworkPayments ==
  ASSUME IndInv, IndInv', NoSequenceClash, NetworkStep
  PROVE  PaymentStep
<1>1. UNCHANGED <<rows, run>>
  BY NetworkStepTo
<1>2. NothingTold /\ SameRowStates
  BY <1>1 DEF NothingTold, SameRowStates
<1>3. /\ accountSeq \in [Channels -> Nat]
      /\ \A i \in Requests : /\ tx[i] # "none" => Channel(i) \in Channels
                             /\ Sequence(i) \in Nat
                             /\ Channel(i)' = Channel(i) /\ Sequence(i)' = Sequence(i)
  BY <1>1 DEF IndInv, TypeOK, RowShape, RowFits, Channel, Sequence, Row
<1>4. ASSUME NEW c \in Channels, NEW n \in Nat, n = accountSeq[c] + 1,
             accountSeq' = [accountSeq EXCEPT ![c] = n],
             NEW i \in Requests, tx[i] \in {"signed", "queued"}
      PROVE  Live(i) => SequenceUsed(i)' <=> Channel(i) = c /\ Sequence(i) = n
  <2> SUFFICES ASSUME Live(i)
               PROVE  accountSeq'[Channel(i)] >= Sequence(i) <=> Channel(i) = c /\ Sequence(i) = n
    BY <1>3 DEF SequenceUsed
  <2>1. /\ accountSeq[Channel(i)] \in Nat /\ Sequence(i) \in Nat
        /\ Channel(i) \in Channels /\ ~(accountSeq[Channel(i)] >= Sequence(i))
    BY <1>3, <1>4 DEF Live, SequenceUsed
  <2>2. CASE Channel(i) = c
    BY <1>3, <1>4, <2>1, <2>2
  <2>3. CASE Channel(i) # c
    BY <1>3, <1>4, <2>1, <2>3
  <2> QED BY <2>2, <2>3
<1>5. ASSUME NEW id \in Requests, tx[id] = "queued",
             accountSeq[Channel(id)] + 1 = Sequence(id), TxTo(id, "ok") \/ TxTo(id, "bad"),
             accountSeq' = [accountSeq EXCEPT ![Channel(id)] = Sequence(id)]
      PROVE  PaymentStep
  <2>1. /\ \A i \in Requests : i # id => tx'[i] = tx[i]
        /\ tx'[id] \in {"ok", "bad"}
    BY <1>5 DEF TxTo
  <2>2. Live(id) /\ ~Live(id)'
    BY <1>3, <1>5, <2>1 DEF Live, SequenceUsed
  <2>3. ASSUME NEW i \in Requests, i # id, tx[i] # "none"
        PROVE  Live(i)' <=> Live(i)
    <3>1. Live(i) => Live(i)'
      BY <1>3, <1>4, <1>5, <2>1, <2>2, <2>3 DEF NoSequenceClash, Live
    <3>2. SequenceUsed(i) => SequenceUsed(i)'
      <4>1. Channel(id) \in Channels /\ Sequence(id) >= accountSeq[Channel(id)]
        BY <1>3, <1>5
      <4> QED BY <1>1, <1>3, <1>5, <2>3, <4>1, SeqStaysUsed
    <3> QED BY <2>1, <2>3, <3>1, <3>2 DEF Live
  <2> QED BY <1>1, <1>5, <2>1, <2>2, <2>3, Lands
<1>6. ASSUME NEW id \in Requests, tx[id] \in {"signed", "doomed", "queued"},
             TxTo(id, "dead"), UNCHANGED accountSeq
      PROVE  PaymentStep
  <2>1. /\ \A i \in Requests : i # id => tx'[i] = tx[i]
        /\ tx'[id] = "dead"
    BY <1>6 DEF TxTo
  <2>2. \A i \in Requests : SequenceUsed(i)' = SequenceUsed(i)
    BY <1>1, <1>6 DEF SequenceUsed, Sequence, Channel
  <2>3. CASE Live(id)
    BY <1>1, <1>6, <2>1, <2>2, <2>3, Lands DEF Live
  <2>4. CASE ~Live(id)
    BY <1>2, <1>6, <2>1, <2>2, <2>4, NothingLands DEF Live
  <2> QED BY <2>3, <2>4
<1>7. ASSUME NEW c \in Channels, tx' = tx, accountSeq' = [accountSeq EXCEPT ![c] = @ + 1]
      PROVE  PaymentStep
  <2>1. PICK n \in Nat : n = accountSeq[c] + 1
    BY <1>3
  <2>2. accountSeq' = [accountSeq EXCEPT ![c] = n]
    BY <1>3, <1>7, <2>1
  <2>3. \A i \in Requests : tx[i] # "none" /\ SequenceUsed(i) => SequenceUsed(i)'
    <3>1. n >= accountSeq[c]
      BY <1>3, <2>1
    <3> QED BY <1>1, <1>3, <2>1, <2>2, <3>1, SeqStaysUsed
  <2>4. \A i \in Requests : tx[i] # "none" /\ Live(i)' => Live(i)
    BY <1>7, <2>3 DEF Live
  <2>5. CASE \E i \in Requests : Live(i) /\ Channel(i) = c /\ Sequence(i) = n
    <3>1. PICK id \in Requests : Live(id) /\ Channel(id) = c /\ Sequence(id) = n
      BY <2>5
    <3>2. tx[id] \in {"signed", "queued"}
      BY <3>1 DEF Live
    <3>3. ~Live(id)'
      BY <1>4, <2>1, <2>2, <3>1, <3>2 DEF Live
    <3>4. ASSUME NEW i \in Requests, i # id, Live(i)
          PROVE  Live(i)'
      <4>1. ~(Channel(i) = c /\ Sequence(i) = n) /\ tx[i] \in {"signed", "queued"}
        BY <3>1, <3>4 DEF NoSequenceClash, Live
      <4>2. ~SequenceUsed(i)'
        BY <1>4, <2>1, <2>2, <3>4, <4>1
      <4> QED BY <1>7, <4>1, <4>2 DEF Live
    <3> QED BY <1>1, <1>7, <2>4, <3>1, <3>2, <3>3, <3>4, Lands
  <2>6. CASE ~\E i \in Requests : Live(i) /\ Channel(i) = c /\ Sequence(i) = n
    <3>1. ASSUME NEW i \in Requests, Live(i)
          PROVE  Live(i)'
      <4>1. tx[i] \in {"signed", "queued"}
        BY <3>1 DEF Live
      <4>2. ~SequenceUsed(i)'
        BY <1>4, <2>1, <2>2, <2>6, <3>1, <4>1
      <4> QED BY <1>7, <4>1, <4>2 DEF Live
    <3> QED BY <1>2, <1>7, <2>4, <3>1, NothingLands
  <2> QED BY <2>5, <2>6
<1> QED BY <1>5, <1>6, <1>7, NetworkStepTo

-----------------------------------------------------------------------------
(* The theorem                                                              *)

LEMMA PaymentNext ==
  ASSUME IndInv, IndInv', OwnInv, FateInv, NoSequenceClash, [Next]_vars
  PROVE  PaymentStep
<1>1. CASE UNCHANGED vars
  BY <1>1, RowlessCalm DEF vars, NothingTold
<1>2. ASSUME NEW r \in Requests, RequestStep(r) \/ SignerStep(r)
      PROVE  PaymentStep
  BY <1>2, ThreadPayments, ClaimsPayments, AwaitsExistingPayments, AbandonsPayments,
     FinishesOffChainPayments, RecordsFirstAnswerPayments, RecordsEnvelopePayments,
     SendingPayments DEF RequestStep, SignerStep
<1>3. ASSUME NEW d \in Drivers, JobStep(d)
      PROVE  PaymentStep
  BY <1>3, JobsPayments, SendingPayments, CompletesRowPayments, FreesChannelPayments
     DEF JobStep
<1> QED BY <1>1, <1>2, <1>3, WorldPayments, NetworkPayments DEF Next

LEMMA PaymentInit == Init => Abstract!Init
<1> SUFFICES ASSUME Init PROVE Abstract!Init
  OBVIOUS
<1>1. /\ \A id \in Requests : rows[id].state = "absent" /\ tx[id] = "none"
      /\ \A r \in Requests : run[r].answer = "none"
  BY DEF Init, LedgerInit, NoRow, NoRun
<1>2. ASSUME NEW k \in Keys
      PROVE  PhaseOf(k) = "open" /\ MoneyOf(k) = "none" /\ ToldOf(k) = {}
  <2>1. Find(k) = {} /\ Recordings(k) = {}
    BY <1>1 DEF Find, Exists, Recordings
  <2>2. ToldOf(k) = {}
    BY <1>1 DEF ToldOf, FinalStates
  <2> QED BY <2>1, <2>2 DEF PhaseOf, MoneyOf
<1> QED BY <1>2 DEF Abstract!Init

\* While settlements end within their lease, the engine implements Payment:
\* whatever replicas, drivers, lost answers and crashes are behind it, a
\* payment has one transaction at most, its verdict is the network's, and
\* everyone who is told a verdict is told that one.
THEOREM PaymentsSettled ==
  ASSUME ~OutlivesLease
  PROVE  Spec => SettlesPayments
<1>1. Spec => []NoSequenceClash
  BY SourcesForGood
<1>2. (IndInv /\ OwnInv /\ FateInv) /\ IndInv' /\ NoSequenceClash /\ [Next]_vars => PaymentStep
  BY PaymentNext
<1>3. Spec => [](IndInv /\ OwnInv /\ FateInv)
  BY FatesKnown
<1>4. Spec => [][Abstract!Next]_<<[k \in Keys |-> PhaseOf(k)], [k \in Keys |-> MoneyOf(k)],
                                  [k \in Keys |-> ToldOf(k)]>>
  BY <1>1, <1>2, <1>3, PTL DEF Spec, PaymentStep
<1> QED BY <1>4, PaymentInit, PTL DEF Spec, SettlesPayments, Abstract!Spec, Abstract!vars
================================================================================
