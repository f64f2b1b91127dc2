----------------------------- MODULE Confirmation -----------------------------
(***************************************************************************)
(* How a driver of a recorded settlement concludes what became of the      *)
(* payment, from reads of RPCs that are at different ledgers and keep      *)
(* different histories: drive, landing, finishFailed, finishSequenceTaken, *)
(* sequenceTaken and firstSubmissionRefused of engine.ts and the search of *)
(* third-party.ts.  Every read is a step of its own; ledgers close, other  *)
(* parties act and other replicas send between any two of them.            *)
(*                                                                         *)
(* SettlementEngine takes the verdict of a driver to be the network's;     *)
(* this module is about that assumption.                                   *)
(***************************************************************************)
EXTENDS Integers

CONSTANTS
  Horizon,     \* bound on the ledgers that close
  LastLedger,  \* the last ledger whose bounds admit the recorded transaction
  Expiration,  \* the last ledger in which the payer's authorization is valid
  Lifetime,    \* ledgers a used nonce's entry lives at least, in the instance
               \* of each scheme
  Keeps,       \* how many ledgers of history an RPC may keep
  Schemes      \* the schemes to consider: exact, upto

ASSUME ConfirmationAssumption ==
  /\ Horizon \in Nat \ {0} /\ LastLedger \in Nat /\ Expiration \in Nat
  /\ Lifetime \in [{"exact", "upto"} -> Nat] /\ Keeps \subseteq Nat \ {0}
  /\ Schemes \subseteq {"exact", "upto"}

VARIABLES
  height,  \* the last closed ledger
  chain,   \* what the ledgers hold about the payment
  net,     \* what became of the sends of the recorded bytes
  row,     \* the settlement's row
  look,    \* the driver's look at it
  calm     \* from now on RPCs are current and nothing fails

vars == <<height, chain, net, row, look, calm>>

\* The ledger of the settlement's claim.
Claimed == 1

Ledger == 0..Horizon + 1

\* landed: the ledger of the recorded inner transaction, in Rail402's own fee
\* bump or wrapped in another party's; rival: the ledger in which another
\* transaction took its sequence number; used: the ledger of the payer's
\* nonce, used by the inner transaction, by a copy of the authorization or by
\* something else the payer signed with it.  0 is never.
Chain == [landed : Ledger, form : {"own", "wrapped"}, ok : BOOLEAN,
          cause : {"none", "nonceUsed", "expired", "other"},
          rival : Ledger, used : Ledger,
          by : {"none", "inner", "copy", "burn"}]

\* public is broadcastMayBePublic, free whether it finished as never charged.
Row == [scheme : {"exact", "upto"},
        state : {"open", "succeeded", "failed", "expired"},
        public : BOOLEAN, released : BOOLEAN, free : BOOLEAN]

Steps == {"look", "send", "inner", "nonce", "search", "scan", "weigh",
          "account", "ownAgain", "innerAgain", "sends", "unseen", "done"}

\* why: what the look wants of landing.  asks: what the search is for.  seen:
\* the ledger the own hash read NOT_FOUND at, with history if covered.  floor,
\* from: the ledgers that landing and the search must be read at.  kept:
\* every RPC so far kept the history.  took: the ledger of the sequence
\* number.  back: channelGivenBack.
Look == [at : Steps,
         why : {"none", "expired", "released", "rejected", "first",
                "conflict", "failure"},
         asks : {"none", "landing", "failure", "unseen"},
         cause : {"none", "nonceUsed", "expired", "other", "unnamed"},
         seen : Ledger, floor : Ledger, from : Ledger, took : Ledger,
         covered : BOOLEAN, kept : BOOLEAN,
         back : BOOLEAN, first : BOOLEAN]

TypeOK ==
  /\ height \in 1..Horizon
  /\ chain \in Chain
  /\ net \in [exposed : BOOLEAN, refused : BOOLEAN]
  /\ row \in Row
  /\ look \in Look
  /\ calm \in BOOLEAN

NewLook(back) ==
  [at |-> "look", why |-> "none", asks |-> "none", cause |-> "none",
   seen |-> 0, floor |-> 0, from |-> 0, took |-> 0,
   covered |-> FALSE, kept |-> FALSE, back |-> back, first |-> FALSE]

\* A settlement whose envelope was recorded and sent once by the scheme.  The
\* send was accepted, lost (either way it may be public), or refused, and
\* then the request sends the bytes again itself; the note of the refusal may
\* have failed.  The nonce may have been used before the claim.
Init ==
  /\ height = Claimed
  /\ \E s \in Schemes, sent \in {"accepted", "lost", "refused"},
        noted \in BOOLEAN, spent \in {"none", "copy", "burn"} :
       /\ spent = "copy" => s = "exact"
       /\ chain = [landed |-> 0, form |-> "own", ok |-> FALSE,
                   cause |-> "none", rival |-> 0,
                   used |-> IF spent = "none" THEN 0 ELSE Claimed,
                   by |-> spent]
       /\ net = [exposed |-> sent = "accepted", refused |-> FALSE]
       /\ row = [scheme |-> s, state |-> "open",
                 public |-> sent # "refused" \/ ~noted,
                 released |-> FALSE, free |-> FALSE]
       /\ look = [NewLook(FALSE) EXCEPT !.first = (sent = "refused")]
  /\ calm = FALSE

OthersCanCarry == row.scheme = "exact"
Includable == height + 1 <= LastLedger

-----------------------------------------------------------------------------
(* The network.  What happens now is in ledger height + 1.                   *)

SequenceFree == chain.landed = 0 /\ chain.rival = 0

CanAccept == ~net.refused /\ SequenceFree

\* Why the inner transaction would fail now: the host checks the expiration
\* before the nonce; anything else may fail too, or an entry of another
\* signer may have expired.
FailureCauses ==
  IF height + 1 > Expiration THEN {"expired"}
  ELSE IF chain.used # 0 THEN {"nonceUsed"}
  ELSE {"expired", "other"}

CanSucceed == height + 1 <= Expiration /\ chain.used = 0

\* The transaction is included, in Rail402's fee bump or in one of another
\* party's.
IncludesInner(form) ==
  /\ height < Horizon /\ Includable /\ net.exposed /\ SequenceFree
  /\ \/ /\ CanSucceed
        /\ chain' = [chain EXCEPT !.landed = height + 1, !.form = form,
                                  !.ok = TRUE, !.used = height + 1,
                                  !.by = "inner"]
     \/ \E cause \in FailureCauses :
          chain' = [chain EXCEPT !.landed = height + 1, !.form = form,
                                 !.cause = cause]
  /\ UNCHANGED <<height, net, row, look, calm>>

TakesSequence ==
  /\ height < Horizon /\ SequenceFree
  /\ chain' = [chain EXCEPT !.rival = height + 1]
  /\ UNCHANGED <<height, net, row, look, calm>>

\* Anyone who holds an exact payment carries its authorization; the payer uses
\* the nonce for something else.
UsesNonce(by) ==
  /\ height < Horizon /\ chain.used = 0
  /\ by = "copy" => OthersCanCarry /\ height + 1 <= Expiration
  /\ chain' = [chain EXCEPT !.used = height + 1, !.by = by]
  /\ UNCHANGED <<height, net, row, look, calm>>

ClosesLedger ==
  /\ height < Horizon
  /\ height' = height + 1
  /\ UNCHANGED <<chain, net, row, look, calm>>

\* Once no more ledgers close, RPCs catch up and failures end.
CalmsDown ==
  /\ height = Horizon /\ ~calm
  /\ calm' = TRUE
  /\ UNCHANGED <<height, chain, net, row, look>>

-----------------------------------------------------------------------------
(* RPC reads: of an RPC that is at some ledger and keeps some history.       *)

Rpcs == IF calm THEN [at : {height}, keep : {Horizon}]
                ELSE [at : 1..height, keep : Keeps]

Oldest(s) == IF s.at > s.keep THEN s.at - s.keep + 1 ELSE 1

\* historyCovers: the history starts before the claim.
Covers(s) == Oldest(s) <= Claimed

\* Ledger entries are read as of the RPC's ledger, transactions from its
\* history.
Reached(s, ledger) == ledger # 0 /\ ledger <= s.at
Finds(s, ledger) == Reached(s, ledger) /\ ledger >= Oldest(s)

FindsInner(s) == Finds(s, chain.landed)
FindsOwn(s) == chain.form = "own" /\ FindsInner(s)

\* A used nonce's entry lives until the authorization expires or Lifetime
\* passes, whichever is later.
Lapsed(ledger) ==
  ledger > Expiration /\ ledger > chain.used + Lifetime[row.scheme]

ReadsNonceUsed(s) == Reached(s, chain.used) /\ ~Lapsed(s.at)

ReadsSequenceTaken(s) == Reached(s, chain.landed) \/ Reached(s, chain.rival)

-----------------------------------------------------------------------------
(* What a look comes to.                                                     *)

GoesTo(step) == look' = [look EXCEPT !.at = step] /\ UNCHANGED row

\* complete; free is feeChargedStroops: 0n.
Completes(verdict, free) ==
  /\ row' = [row EXCEPT !.state = verdict, !.free = free]
  /\ look' = [NewLook(FALSE) EXCEPT !.at = "done"]

\* The next look.  Within a pass, whether the row says it gave its channel back
\* is read again after some looks only, and the read may fail; a pass ends at
\* its deadline, and the next one starts from the row.
LooksAgain ==
  /\ look' = NewLook(look.back \/ (calm /\ row.released))
  /\ UNCHANGED row

\* giveBackChannel, and the next look.
GivesBackAndLooks ==
  \E given \in IF calm THEN {TRUE} ELSE {TRUE, row.released} :
    \E back \in IF calm THEN {TRUE} ELSE {look.back, given} :
      /\ row' = [row EXCEPT !.released = given]
      /\ look' = NewLook(back)

\* landing or a search concluded nothing yet.  Past the proof of a sequence
\* conflict the channel is given back.
DecidesLater ==
  IF look.why = "conflict" THEN GivesBackAndLooks ELSE LooksAgain

\* landing proved that nothing carried the authorization and nothing can,
\* except, for upto, the recorded transaction.
FindsAbsent ==
  \/ look.why = "expired" /\ Completes("expired", FALSE)
  \/ look.why = "released" /\ GoesTo("account")
  \/ look.why = "rejected" /\ GoesTo("weigh")
  \/ look.why \in {"first", "conflict"} /\ Completes("failed", TRUE)

\* thirdPartyCauses, and the complement of endsAuthorization for a payment
\* that others can carry.
MayHideCopy(cause) ==
  \/ cause \in {"nonceUsed", "unnamed"}
  \/ cause = "expired" /\ row.scheme = "exact"
Lives(cause) ==
  /\ OthersCanCarry /\ cause # "nonceUsed"
  /\ cause = "expired" => chain.landed <= Expiration

\* Mutant: the reason for the look is noted as the cause of the failure.
LearnsWhy(why) ==
  /\ look' = [look EXCEPT !.at = "search", !.asks = "failure",
                          !.cause = why, !.from = chain.landed]
  /\ UNCHANGED row

\* finishFailed up to its search.  The result may lack the events that name
\* the cause.
LearnsFailure(why) ==
  \E cause \in {chain.cause, "unnamed"} :
    IF MayHideCopy(cause) \/ Lives(cause)
    THEN /\ look' = [look EXCEPT !.at = "search", !.asks = "failure",
                                 !.why = why, !.cause = cause,
                                 !.from = chain.landed]
         /\ UNCHANGED row
    ELSE Completes("failed", FALSE)

-----------------------------------------------------------------------------
(* The driver's steps: one read or one send each.                            *)

Quiet == UNCHANGED <<height, chain, net, calm>>

\* The own hash.  A look that is the request's first resend only sends on
\* NOT_FOUND.  A settlement that gave its channel back sends nothing.
OwnHash(s) ==
  \/ FindsOwn(s) /\ look.first /\ LooksAgain
  \/ FindsOwn(s) /\ ~look.first /\ chain.ok /\ Completes("succeeded", FALSE)
  \/ FindsOwn(s) /\ ~look.first /\ ~chain.ok /\ LearnsFailure("failure")
  \/ /\ ~FindsOwn(s)
     /\ LET noted == [look EXCEPT !.seen = s.at, !.floor = s.at,
                                  !.covered = Covers(s), !.kept = Covers(s)]
        IN  look' =
              IF ~look.first /\ s.at > LastLedger
              THEN [noted EXCEPT !.at = "inner", !.why = "expired"]
              ELSE IF look.back
              THEN [noted EXCEPT !.at = "inner", !.why = "released"]
              ELSE [noted EXCEPT !.at = "send"]
     /\ UNCHANGED row

LooksUp ==
  /\ look.at = "look"
  /\ \E s \in Rpcs : OwnHash(s)
  /\ Quiet

\* broadcast: accepted; its answer lost; not taken for now; a sequence number
\* that is used, or that a node behind has not reached; refused for good.
SendAccepted ==
  /\ look.at = "send" /\ CanAccept
  /\ net' = [net EXCEPT !.exposed = TRUE]
  /\ row' = [row EXCEPT !.public = TRUE]
  /\ look' = NewLook(look.back)
  /\ UNCHANGED <<height, chain, calm>>

SendLost ==
  /\ look.at = "send" /\ ~calm
  /\ row' = [row EXCEPT !.public = TRUE]
  /\ look' = NewLook(look.back)
  /\ UNCHANGED <<height, chain, net, calm>>

SendBusy ==
  /\ look.at = "send" /\ ~calm
  /\ LooksAgain
  /\ Quiet

SendBadSequence ==
  /\ look.at = "send"
  /\ calm => ~SequenceFree
  /\ look' = [look EXCEPT !.at = "account", !.why = "conflict"]
  /\ UNCHANGED row
  /\ Quiet

\* firstSubmissionRefused finishes an upto settlement at once.
SendRefused ==
  /\ look.at = "send" /\ SequenceFree
  /\ net' = [net EXCEPT !.refused = TRUE]
  /\ IF look.first /\ ~OthersCanCarry THEN Completes("failed", TRUE)
     ELSE /\ look' = [look EXCEPT !.at = "inner",
                        !.why = IF look.first THEN "first" ELSE "rejected"]
          /\ UNCHANGED row
  /\ UNCHANGED <<height, chain, calm>>

\* landing: the inner hash, then the nonce.
InnerHash(s) ==
  \/ FindsInner(s) /\ chain.ok /\ Completes("succeeded", FALSE)
  \/ FindsInner(s) /\ ~chain.ok /\ LearnsFailure(look.why)
  \/ ~FindsInner(s) /\ s.at < look.floor /\ DecidesLater
  \/ /\ ~FindsInner(s) /\ s.at >= look.floor
     /\ look' = [look EXCEPT !.at = "nonce", !.kept = @ /\ Covers(s)]
     /\ UNCHANGED row

LooksUpInner ==
  /\ look.at = "inner"
  /\ \E s \in Rpcs : InnerHash(s)
  /\ Quiet

SearchesFor(asks, s) ==
  /\ look' = [look EXCEPT !.at = "search", !.asks = asks, !.from = s.at]
  /\ UNCHANGED row

\* Mutant: the read of the nonce need not reach the ledger of the proof.
NonceAnywhere(s) ==
  \/ ReadsNonceUsed(s) /\ SearchesFor("landing", s)
  \/ /\ ~ReadsNonceUsed(s)
     /\ IF \/ s.at <= Expiration /\ OthersCanCarry
           \/ s.at > Expiration /\ ~look.kept
        THEN DecidesLater
        ELSE FindsAbsent

Nonce(s) ==
  \/ ReadsNonceUsed(s) /\ SearchesFor("landing", s)
  \/ ~ReadsNonceUsed(s) /\ s.at < look.floor /\ DecidesLater
  \/ /\ ~ReadsNonceUsed(s) /\ s.at >= look.floor
     /\ IF \/ s.at <= Expiration /\ OthersCanCarry
           \/ s.at > Expiration /\ ~look.kept
        THEN DecidesLater
        ELSE FindsAbsent

ReadsNonce ==
  /\ look.at = "nonce"
  /\ \E s \in Rpcs : Nonce(s)
  /\ Quiet

\* Mutant: a failure an authorization outlives is never kept.
NeverKept(at) ==
  IF look.asks # "failure" \/ (look.cause = "nonceUsed" /\ at # 0) THEN DecidesLater
  ELSE IF Lives(look.cause) /\ at # 0 THEN GivesBackAndLooks
  ELSE Completes("failed", FALSE)

\* findThirdPartySettlement decided that there is no such transaction: the
\* nonce reads unused at ledger at, or (at = 0) was used by something else.
FindsNoCopy(at) ==
  IF \/ look.asks # "failure"
     \/ look.cause = "nonceUsed" /\ at # 0
  THEN DecidesLater
  ELSE IF Lives(look.cause) /\ at # 0 /\ at <= Expiration
  THEN GivesBackAndLooks
  ELSE Completes("failed", FALSE)

\* findThirdPartySettlement: the nonce, then the ledger that used it.
NonceForSearch(s) ==
  \/ ReadsNonceUsed(s) /\ GoesTo("scan")
  \/ ~ReadsNonceUsed(s) /\ s.at < look.from /\ DecidesLater
  \/ ~ReadsNonceUsed(s) /\ s.at >= look.from /\ FindsNoCopy(s.at)

Searches ==
  /\ look.at = "search"
  /\ \E s \in Rpcs : NonceForSearch(s)
  /\ Quiet

\* Mutant: an authorization used before the request counts as its settlement.
ScanOfAnyAge(s) ==
  IF ~Finds(s, chain.used) THEN DecidesLater
  ELSE IF chain.by = "burn" THEN FindsNoCopy(0)
  ELSE Completes("succeeded", FALSE)

ScanOf(s) ==
  IF ~Finds(s, chain.used) THEN DecidesLater
  ELSE IF chain.used <= Claimed \/ chain.by = "burn" THEN FindsNoCopy(0)
  ELSE Completes("succeeded", FALSE)

Scans ==
  /\ look.at = "scan"
  /\ \E s \in Rpcs : ScanOf(s)
  /\ Quiet

\* Mutant: bytes that may be public are finished as never charged, too.
WeighsAsFree ==
  /\ look.at = "weigh"
  /\ \E public \in IF calm THEN {row.public} ELSE {row.public, TRUE} :
       IF public /\ ~OthersCanCarry /\ look.seen < LastLedger THEN LooksAgain
       ELSE Completes("failed", TRUE)
  /\ Quiet

\* A refused settlement that nothing carried: an upto one whose bytes may be
\* public waits while a later ledger can include them.
Weighs ==
  /\ look.at = "weigh"
  /\ \E public \in IF calm THEN {row.public} ELSE {row.public, TRUE} :
       IF public /\ ~OthersCanCarry /\ look.seen < LastLedger THEN LooksAgain
       ELSE Completes("failed", ~public)
  /\ Quiet

-----------------------------------------------------------------------------
(* finishSequenceTaken: the channel account, both hashes again, the row.     *)

\* Mutant: a refused sequence number is taken for a used one.
ReadsNoAccount ==
  /\ look.at = "account"
  /\ \E s \in Rpcs :
       look' = [look EXCEPT !.at = "ownAgain", !.why = "conflict", !.took = s.at]
  /\ UNCHANGED row
  /\ Quiet

ReadsAccount ==
  /\ look.at = "account"
  /\ \E s \in Rpcs :
       IF ReadsSequenceTaken(s)
       THEN /\ look' = [look EXCEPT !.at = "ownAgain", !.why = "conflict",
                                    !.took = s.at]
            /\ UNCHANGED row
       ELSE LooksAgain
  /\ Quiet

\* A NOT_FOUND that says something about every ledger up to the conflict.
Excludes(s) == s.at >= look.took /\ Covers(s)

LooksUpAgain ==
  /\ look.at \in {"ownAgain", "innerAgain"}
  /\ \E s \in Rpcs :
       LET found == IF look.at = "ownAgain" THEN FindsOwn(s) ELSE FindsInner(s)
       IN  IF found \/ ~Excludes(s) THEN LooksAgain
           ELSE GoesTo(IF look.at = "ownAgain" THEN "innerAgain" ELSE "sends")
  /\ Quiet

ReadsSends ==
  /\ look.at = "sends"
  /\ look' = IF row.public \/ OthersCanCarry
             THEN [look EXCEPT !.at = "inner", !.kept = look.covered,
                     !.floor = IF look.seen > look.took THEN look.seen
                               ELSE look.took]
             ELSE [look EXCEPT !.at = "unseen"]
  /\ UNCHANGED row
  /\ Quiet

NonceUnseen(s) ==
  \/ s.at < look.took /\ DecidesLater
  \/ s.at >= look.took /\ ReadsNonceUsed(s) /\ SearchesFor("unseen", s)
  \/ s.at >= look.took /\ ~ReadsNonceUsed(s) /\ Completes("failed", TRUE)

ReadsNonceUnseen ==
  /\ look.at = "unseen"
  /\ \E s \in Rpcs : NonceUnseen(s)
  /\ Quiet

-----------------------------------------------------------------------------
(* What interrupts a look, and who else sends.                               *)

\* A read of an RPC or of the row fails.
ReadFails ==
  /\ ~calm
  /\ look.at \in {"inner", "nonce", "search", "scan", "sends", "unseen"}
  /\ DecidesLater
  /\ Quiet

\* The look's deadline passes or its process dies: a later pass, of any
\* replica, starts from the row.
StartsOver ==
  /\ ~calm /\ row.state = "open"
  /\ look' = NewLook(row.released)
  /\ UNCHANGED row
  /\ Quiet

\* Another replica's pass sends the recorded bytes.  reconcileIdleMs keeps
\* them from the row while its request sends for the first time.
OthersSend ==
  /\ ~calm /\ row.state = "open" /\ ~look.first
  /\ row' = [row EXCEPT !.public = TRUE]
  /\ net' = [net EXCEPT !.exposed = @ \/ CanAccept]
  /\ UNCHANGED <<height, chain, look, calm>>

-----------------------------------------------------------------------------
Network ==
  \/ IncludesInner("own") \/ IncludesInner("wrapped")
  \/ TakesSequence
  \/ UsesNonce("copy") \/ UsesNonce("burn")
  \/ ClosesLedger
  \/ CalmsDown

Driver ==
  \/ LooksUp
  \/ SendAccepted \/ SendLost \/ SendBusy \/ SendBadSequence \/ SendRefused
  \/ LooksUpInner \/ ReadsNonce \/ Searches \/ Scans \/ Weighs
  \/ ReadsAccount \/ LooksUpAgain \/ ReadsSends \/ ReadsNonceUnseen

Next == Network \/ Driver \/ ReadFails \/ StartsOver \/ OthersSend

Spec == Init /\ [][Next]_vars

\* Ledgers close; every unfinished row is looked at again until it is decided.
FairSpec ==
  /\ Spec
  /\ WF_vars(ClosesLedger) /\ WF_vars(CalmsDown) /\ WF_vars(Driver)

-----------------------------------------------------------------------------
(* Properties.                                                               *)

\* The payment moved for this request.
Moved == chain.by \in {"inner", "copy"} /\ chain.used > Claimed

\* A payment answered failed or expired never moves, not even later, in
\* anybody's transaction (landing, finishFailed, finishSequenceTaken).
UnpaidIsUnpaid == row.state \in {"failed", "expired"} => ~Moved

\* A payment answered as settled did move, in a closed ledger, after the claim
\* (findThirdPartySettlement, drive).
PaidIsPaid == row.state = "succeeded" => Moved /\ chain.used <= height

\* The part of it that docs/verification-rules.md promises of expired.
ExpiredIsUnpaid == row.state = "expired" => ~Moved

\* A channel is given back while the payment's outcome waits only once the
\* recorded bytes can never apply (giveBackChannel).
GivenBackIsDead == row.released => ~SequenceFree

\* A settlement finished as never charged never lands in Rail402's own fee bump
\* (feeChargedStroops: 0n).
FreeIsFree == row.free => ~(chain.landed # 0 /\ chain.form = "own")

\* What only an operator can resolve: the nonce was used by something else, or
\* its entry lapsed before what used it was searched for.
Unresolvable ==
  /\ chain.used # 0
  /\ \/ chain.landed = 0 /\ (chain.by = "burn" \/ chain.used <= Claimed)
     \/ chain.cause = "nonceUsed" /\ Lapsed(height)

\* Every settlement is decided, unless an operator has to (drive, reconcile).
EventuallyDecided == <>[](row.state # "open" \/ Unresolvable)

-----------------------------------------------------------------------------
(* Why the properties hold: what a driver relies on between two reads.       *)

\* The recorded transaction cannot be included any more, whoever sends it:
\* its sequence number is taken, its bounds have passed, or every node refused
\* it for good before anyone got hold of it.
NeverLands ==
  \/ ~SequenceFree
  \/ height >= LastLedger
  \/ net.refused /\ ~net.exposed

\* The payment has not moved and nothing can move it.
Unpayable ==
  /\ ~Moved
  /\ \/ chain.used # 0
     \/ height >= Expiration
     \/ NeverLands /\ ~OthersCanCarry

\* The entry of an exact payment's used nonce is still there when the last
\* look reads it.  Without it a driver can be wrong: see ExpiredIsUnpaid.
NonceOutlastsLooks == Lifetime["exact"] >= Horizon
Legible == OthersCanCarry => NonceOutlastsLooks

\* What ledgers hold fits together.
ChainFits ==
  /\ {chain.landed, chain.rival, chain.used} \subseteq 0..height + 1
  /\ chain.landed = 0 \/ chain.rival = 0
  /\ chain.landed # 0 => chain.landed \in Claimed + 1..LastLedger /\ net.exposed
  /\ chain.used = 0 <=> chain.by = "none"
  /\ chain.ok <=> chain.by = "inner"
  /\ chain.ok => /\ chain.landed = chain.used /\ chain.used # 0
                 /\ chain.used <= Expiration
  /\ chain.by = "copy" => /\ OthersCanCarry
                          /\ chain.used <= Claimed \/ chain.used <= Expiration
  /\ net.exposed => row.public

\* Each step of a look has what the reads before it proved.
LookFits ==
  /\ row.state = "open" <=> look.at # "done"
  /\ {look.seen, look.floor, look.from, look.took} \subseteq 0..height
  /\ look.first => ~net.exposed
  /\ look.why \in {"rejected", "first"} => net.refused
  /\ look.why = "first" => look.first
  /\ look.at \in {"send", "inner", "nonce"} => look.seen <= look.floor
  /\ look.at \in {"inner", "nonce"} => look.why \notin {"none", "failure"}
  /\ look.at \in {"inner", "nonce"} /\ look.why = "expired" => look.floor > LastLedger
  /\ look.at = "nonce" /\ look.kept => chain.landed = 0 \/ chain.landed > look.floor
  /\ look.asks = "failure" =>
       chain.landed # 0 /\ ~chain.ok /\ look.from = chain.landed
  /\ look.at = "weigh" =>
       /\ look.why = "rejected"
       /\ Legible /\ (OthersCanCarry \/ look.seen >= LastLedger) => Unpayable
  /\ look.at \in {"ownAgain", "innerAgain"} =>
       \/ chain.landed # 0 /\ chain.landed <= look.took
       \/ chain.rival # 0 /\ chain.rival <= look.took
  /\ look.at \in {"ownAgain", "innerAgain", "sends", "unseen"} => look.why = "conflict"
  /\ look.why = "conflict" /\ look.at \notin {"account", "ownAgain", "innerAgain"} =>
       chain.rival # 0
  /\ look.at = "unseen" => ~OthersCanCarry

\* What an answer rests on.
AnswerFits ==
  /\ Legible /\ row.state \in {"failed", "expired"} => Unpayable
  /\ row.state = "succeeded" => Moved /\ chain.used <= height
  /\ row.released => ~SequenceFree
  /\ row.free => /\ ~(chain.landed # 0 /\ chain.form = "own")
                 /\ ~SequenceFree \/ (net.refused /\ ~net.exposed)

LooksAreSound == TypeOK /\ ChainFits /\ LookFits /\ AnswerFits
=============================================================================
