--------------------------- MODULE ChainReadsProofs ---------------------------
(***************************************************************************)
(* Proofs about what is read of the chain.  Confirmation: whatever the     *)
(* RPCs are at and keep, whoever else sends, and whatever is read between  *)
(* two ledgers, an answer that a driver gives about a payment stays true.  *)
(* RpcPool: the provider that is read from is the one that the readings    *)
(* justify.                                                                *)
(***************************************************************************)
EXTENDS Confirmation, RpcPool, SequenceTheorems, WellFoundedInduction, TLAPS

USE DEF Claimed

-----------------------------------------------------------------------------
(* Reading records.                                                          *)

\* What the types say of the numbers that steps compare.
LEMMA Numbers ==
  ASSUME TypeOK
  PROVE  /\ Horizon \in Nat \ {0} /\ LastLedger \in Nat /\ Expiration \in Nat
         /\ height \in 1..Horizon /\ row.scheme \in {"exact", "upto"}
         /\ Lifetime[row.scheme] \in Nat
         /\ {chain.landed, chain.rival, chain.used} \subseteq Nat
         /\ {look.seen, look.floor, look.from, look.took} \subseteq Nat
  <1>1. {chain.landed, chain.rival, chain.used} \subseteq Nat
    BY ConfirmationAssumption DEF TypeOK, Chain, Ledger
  <1>2. {look.seen, look.floor, look.from, look.took} \subseteq Nat
    BY ConfirmationAssumption DEF TypeOK, Look, Ledger
  <1>3. row.scheme \in {"exact", "upto"}
    BY DEF TypeOK, Row
  <1> QED
    BY <1>1, <1>2, <1>3, ConfirmationAssumption DEF TypeOK

\* An RPC is at a closed ledger and keeps at least that one.
LEMMA RpcRange ==
  ASSUME TypeOK, NEW s \in Rpcs
  PROVE  s.at \in 1..height /\ s.keep \in Nat \ {0}
  <1>1. CASE calm
    BY <1>1, ConfirmationAssumption DEF Rpcs, TypeOK
  <1>2. CASE ~calm
    <2>1. s \in [at : 1..height, keep : Keeps]
      BY <1>2 DEF Rpcs
    <2> QED
      BY <2>1, ConfirmationAssumption DEF TypeOK
  <1> QED
    BY <1>1, <1>2

\* Another step of a look.
LEMMA NextStep ==
  ASSUME NEW l \in Look, NEW step \in Steps
  PROVE  LET m == [l EXCEPT !.at = step]
         IN  /\ m \in Look /\ m.at = step /\ m.why = l.why
             /\ m.asks = l.asks /\ m.cause = l.cause /\ m.seen = l.seen
             /\ m.floor = l.floor /\ m.from = l.from /\ m.took = l.took
             /\ m.kept = l.kept /\ m.first = l.first
  BY DEF Look

\* A new look carries nothing over.
LEMMA FreshLook ==
  ASSUME NEW back \in BOOLEAN, Horizon \in Nat
  PROVE  /\ NewLook(back) \in Look
         /\ [NewLook(back) EXCEPT !.at = "done"] \in Look
         /\ NewLook(back).at = "look" /\ NewLook(back).why = "none"
         /\ NewLook(back).asks = "none" /\ NewLook(back).seen = 0
         /\ NewLook(back).floor = 0 /\ NewLook(back).from = 0
         /\ NewLook(back).took = 0 /\ NewLook(back).first = FALSE
  <1>1. /\ NewLook(back) \in Look
        /\ NewLook(back).at = "look" /\ NewLook(back).why = "none"
        /\ NewLook(back).asks = "none" /\ NewLook(back).seen = 0
        /\ NewLook(back).floor = 0 /\ NewLook(back).from = 0
        /\ NewLook(back).took = 0 /\ NewLook(back).first = FALSE
    BY DEF NewLook, Look, Steps, Ledger
  <1>2. "done" \in Steps
    BY DEF Steps
  <1> QED
    BY <1>1, <1>2, NextStep

-----------------------------------------------------------------------------
(* The start.                                                                *)

LEMMA StartSound == Init => LooksAreSound
  <1> SUFFICES ASSUME Init PROVE LooksAreSound
    OBVIOUS
  <1>1. PICK s \in Schemes, sent \in {"accepted", "lost", "refused"},
             noted \in BOOLEAN, spent \in {"none", "copy", "burn"} :
          /\ spent = "copy" => s = "exact"
          /\ chain = [landed |-> 0, form |-> "own", ok |-> FALSE,
                      cause |-> "none", rival |-> 0,
                      used |-> IF spent = "none" THEN 0 ELSE Claimed,
                      by |-> spent]
          /\ net = [exposed |-> sent = "accepted", refused |-> FALSE]
          /\ row = [scheme |-> s, state |-> "open",
                    public |-> sent # "refused" \/ ~noted,
                    released |-> FALSE, free |-> FALSE]
          /\ look = [NewLook(FALSE) EXCEPT !.first = (sent = "refused")]
    BY Zenon DEF Init
  <1>2. height = 1 /\ calm = FALSE
    BY DEF Init
  <1>3. /\ look \in Look /\ look.at = "look" /\ look.why = "none"
        /\ look.asks = "none" /\ look.first = (sent = "refused")
        /\ look.seen = 0 /\ look.floor = 0 /\ look.from = 0 /\ look.took = 0
    <2>1. NewLook(FALSE) \in Look
      BY FreshLook, ConfirmationAssumption
    <2>2. look \in Look /\ look.first = (sent = "refused")
      BY <1>1, <2>1 DEF Look
    <2>3. /\ look.at = NewLook(FALSE).at /\ look.why = NewLook(FALSE).why
          /\ look.asks = NewLook(FALSE).asks /\ look.seen = NewLook(FALSE).seen
          /\ look.floor = NewLook(FALSE).floor /\ look.from = NewLook(FALSE).from
          /\ look.took = NewLook(FALSE).took
      BY <1>1, <2>1 DEF Look
    <2> QED
      BY <2>2, <2>3, FreshLook, ConfirmationAssumption
  <1>4. s \in {"exact", "upto"}
    BY ConfirmationAssumption
  <1>5. row \in Row /\ row.state = "open" /\ ~row.released /\ ~row.free
    BY <1>1, <1>4 DEF Row
  <1>6. /\ chain \in Chain /\ chain.landed = 0 /\ chain.rival = 0 /\ ~chain.ok
        /\ chain.by = spent /\ chain.used = IF spent = "none" THEN 0 ELSE 1
    BY <1>1, ConfirmationAssumption DEF Chain, Ledger
  <1>7. net \in [exposed : BOOLEAN, refused : BOOLEAN]
    BY <1>1
  <1>8. TypeOK
    <2>1. height \in 1..Horizon
      BY <1>2, ConfirmationAssumption
    <2> QED
      BY <2>1, <1>2, <1>3, <1>5, <1>6, <1>7, Zenon DEF TypeOK
  <1>9. ChainFits
    <2>1. net.exposed => row.public
      BY <1>1
    <2>2. spent = "copy" => row.scheme = "exact"
      BY <1>1
    <2> QED
      BY <1>2, <1>6, <2>1, <2>2 DEF ChainFits, OthersCanCarry
  <1>10. LookFits
    <2>1. look.first => ~net.exposed
      BY <1>1, <1>3
    <2> QED
      BY <1>2, <1>3, <1>5, <2>1 DEF LookFits
  <1>11. AnswerFits
    BY <1>5 DEF AnswerFits
  <1> QED
    BY <1>8, <1>9, <1>10, <1>11 DEF LooksAreSound

-----------------------------------------------------------------------------
(* The network's steps.                                                      *)

\* What is certain about the payment stays certain.
LEMMA UnpayableStays ==
  ASSUME LooksAreSound, UNCHANGED row, UNCHANGED net, height' \in {height, height + 1},
         \/ UNCHANGED chain
         \/ IncludesInner("own") \/ IncludesInner("wrapped") \/ TakesSequence
         \/ UsesNonce("copy") \/ UsesNonce("burn")
  PROVE  Unpayable => Unpayable'
  <1> SUFFICES ASSUME Unpayable PROVE Unpayable'
    OBVIOUS
  <1> USE DEF LooksAreSound, Unpayable, NeverLands, SequenceFree, OthersCanCarry, Moved
  <1>0. TypeOK /\ ChainFits
    OBVIOUS
  <1>n. /\ LastLedger \in Nat /\ Expiration \in Nat /\ height \in Nat
        /\ chain.landed \in Nat /\ chain.rival \in Nat /\ chain.used \in Nat
        /\ chain \in Chain
    BY <1>0, Numbers DEF TypeOK
  <1>1. CASE UNCHANGED chain
    BY <1>1, <1>n
  <1>2. ASSUME NEW form \in {"own", "wrapped"}, IncludesInner(form) PROVE Unpayable'
    <2>0. Includable /\ net.exposed /\ SequenceFree
      <3> HIDE DEF SequenceFree
      <3> QED
        BY <1>2, Zenon DEF IncludesInner
    <2>1. ~CanSucceed
      BY <2>0, <1>n DEF CanSucceed, Includable
    <2>2. \E cause \in FailureCauses :
            chain' = [chain EXCEPT !.landed = height + 1, !.form = form,
                                   !.cause = cause]
      <3> HIDE DEF Unpayable, NeverLands, LooksAreSound, SequenceFree, OthersCanCarry, Moved
      <3> QED
        BY <1>2, <2>1, Zenon DEF IncludesInner
    <2>3. /\ chain'.used = chain.used /\ chain'.by = chain.by
          /\ chain'.landed = height + 1
      BY <2>2, <1>n DEF Chain, FailureCauses
    <2> QED
      BY <2>3, <1>n
  <1>3. CASE TakesSequence
    <2>1. /\ chain'.used = chain.used /\ chain'.by = chain.by
          /\ chain'.landed = chain.landed /\ chain'.rival = height + 1
      BY <1>3, <1>n DEF TakesSequence, Chain
    <2> QED
      BY <2>1, <1>n
  <1>4. ASSUME NEW by \in {"copy", "burn"}, UsesNonce(by) PROVE Unpayable'
    <2>1. /\ chain.used = 0 /\ chain'.used = height + 1 /\ chain'.by = by
          /\ by = "copy" => OthersCanCarry /\ height + 1 <= Expiration
      BY <1>4, <1>n DEF UsesNonce, Chain
    <2> QED
      BY <2>1, <1>n
  <1> QED
    BY <1>1, <1>2, <1>3, <1>4

\* What an inclusion does to the chain.
LEMMA InclusionEffect ==
  ASSUME TypeOK, NEW form \in {"own", "wrapped"}, IncludesInner(form)
  PROVE  /\ Includable /\ net.exposed /\ SequenceFree /\ height < Horizon
         /\ UNCHANGED <<height, net, row, look, calm>>
         /\ chain' \in Chain /\ chain'.landed = height + 1
         /\ chain'.rival = chain.rival /\ chain'.form = form
         /\ \/ /\ CanSucceed /\ chain'.ok
               /\ chain'.used = height + 1 /\ chain'.by = "inner"
            \/ /\ chain'.ok = chain.ok
               /\ chain'.used = chain.used /\ chain'.by = chain.by
  <1>1. /\ Includable /\ net.exposed /\ SequenceFree /\ height < Horizon
        /\ UNCHANGED <<height, net, row, look, calm>>
        /\ \/ /\ CanSucceed
              /\ chain' = [chain EXCEPT !.landed = height + 1, !.form = form,
                                        !.ok = TRUE, !.used = height + 1,
                                        !.by = "inner"]
           \/ \E cause \in FailureCauses :
                chain' = [chain EXCEPT !.landed = height + 1, !.form = form,
                                       !.cause = cause]
    BY Zenon DEF IncludesInner
  <1>2. chain \in Chain /\ height + 1 \in Ledger
    <2>1. chain \in Chain
      BY DEF TypeOK
    <2>2. height \in Nat /\ Horizon \in Nat
      BY Numbers
    <2>3. height < Horizon
      BY <1>1
    <2> QED
      BY <2>1, <2>2, <2>3 DEF Ledger
  <1>3. CASE /\ CanSucceed
             /\ chain' = [chain EXCEPT !.landed = height + 1, !.form = form,
                                       !.ok = TRUE, !.used = height + 1,
                                       !.by = "inner"]
    <2>1. /\ chain' \in Chain /\ chain'.landed = height + 1
          /\ chain'.rival = chain.rival /\ chain'.form = form
          /\ chain'.ok /\ chain'.used = height + 1 /\ chain'.by = "inner"
      BY <1>2, <1>3 DEF Chain
    <2> QED
      BY <1>1, <1>3, <2>1
  <1>4. ASSUME NEW cause \in FailureCauses,
               chain' = [chain EXCEPT !.landed = height + 1, !.form = form,
                                      !.cause = cause]
        PROVE  /\ chain' \in Chain /\ chain'.landed = height + 1
               /\ chain'.rival = chain.rival /\ chain'.form = form
               /\ chain'.ok = chain.ok
               /\ chain'.used = chain.used /\ chain'.by = chain.by
    <2>1. cause \in {"none", "nonceUsed", "expired", "other"}
      BY DEF FailureCauses
    <2> QED
      BY <1>2, <1>4, <2>1 DEF Chain
  <1> QED
    BY <1>1, <1>3, <1>4

\* The sound answers of a row that nobody changes stay sound while the chain
\* only grows.
LEMMA GrowthSound ==
  ASSUME LooksAreSound, UNCHANGED <<row, net, look>>, TypeOK', ChainFits',
         height' \in {height, height + 1},
         Unpayable => Unpayable',
         SequenceFree' => SequenceFree,
         chain.used # 0 => chain'.used = chain.used /\ chain'.by = chain.by,
         chain.landed = 0 => chain'.landed = 0
                             \/ (chain'.landed = height + 1 /\ net.exposed /\ SequenceFree),
         chain.landed # 0 => /\ chain'.landed = chain.landed
                             /\ chain'.form = chain.form /\ chain'.ok = chain.ok,
         chain.rival # 0 => chain'.rival = chain.rival
  PROVE  LooksAreSound'
  <1>1. /\ TypeOK /\ ChainFits /\ LookFits /\ AnswerFits
    BY DEF LooksAreSound
  <1>n. /\ height \in Nat /\ look.floor \in Nat /\ chain.landed \in Nat
        /\ chain.rival \in Nat /\ chain.used \in Nat /\ look.took \in Nat
        /\ look.seen \in Nat /\ look.from \in Nat
    BY <1>1, Numbers
  <1>2. LookFits'
    <2>1. (OthersCanCarry' <=> OthersCanCarry) /\ (Legible' <=> Legible)
      BY DEF OthersCanCarry, Legible
    <2>2. look.at = "nonce" /\ look.kept => chain'.landed = 0 \/ chain'.landed > look.floor
      BY <1>1, <1>n DEF LookFits
    <2>3. look.at \in {"ownAgain", "innerAgain"} =>
            \/ chain'.landed # 0 /\ chain'.landed <= look.took
            \/ chain'.rival # 0 /\ chain'.rival <= look.took
      BY <1>1, <1>n DEF LookFits
    <2>4. look.asks = "failure" =>
            chain'.landed # 0 /\ ~chain'.ok /\ look.from = chain'.landed
      BY <1>1, <1>n DEF LookFits
    <2>5. {look.seen, look.floor, look.from, look.took} \subseteq 0..height'
      BY <1>1, <1>n DEF LookFits
    <2> QED
      BY <1>1, <1>n, <2>1, <2>2, <2>3, <2>4, <2>5 DEF LookFits
  <1>3. AnswerFits'
    <2>1. row.state = "succeeded" => Moved' /\ chain'.used <= height'
      BY <1>1, <1>n DEF AnswerFits, Moved
    <2>4. Legible' <=> Legible
      BY DEF OthersCanCarry, Legible
    <2>2. row.released => ~SequenceFree'
      BY <1>1 DEF AnswerFits
    <2>3. row.free => /\ ~(chain'.landed # 0 /\ chain'.form = "own")
                      /\ ~SequenceFree' \/ (net.refused /\ ~net.exposed)
      BY <1>1 DEF AnswerFits
    <2> QED
      BY <1>1, <2>1, <2>2, <2>3, <2>4 DEF AnswerFits
  <1> QED
    BY <1>2, <1>3 DEF LooksAreSound

LEMMA NetworkSound == LooksAreSound /\ Network => LooksAreSound'
  <1> SUFFICES ASSUME LooksAreSound, Network PROVE LooksAreSound'
    OBVIOUS
  <1>1. TypeOK /\ ChainFits
    BY DEF LooksAreSound
  <1>n. /\ LastLedger \in Nat /\ Expiration \in Nat /\ height \in 1..Horizon /\ Horizon \in Nat
        /\ chain.landed \in Nat /\ chain.rival \in Nat /\ chain.used \in Nat
        /\ chain \in Chain
    BY <1>1, Numbers DEF TypeOK
  <1>2. ASSUME NEW form \in {"own", "wrapped"}, IncludesInner(form) PROVE LooksAreSound'
    <2>1. Unpayable => Unpayable'
      BY <1>2, UnpayableStays DEF IncludesInner
    <2>2. /\ Includable /\ net.exposed /\ SequenceFree
          /\ UNCHANGED <<height, net, row, look, calm>>
          /\ chain' \in Chain /\ chain'.landed = height + 1
          /\ chain'.rival = chain.rival /\ chain'.form = form
          /\ \/ /\ CanSucceed /\ chain'.ok
                /\ chain'.used = height + 1 /\ chain'.by = "inner"
             \/ /\ chain'.ok = chain.ok
                /\ chain'.used = chain.used /\ chain'.by = chain.by
      BY <1>1, <1>2, InclusionEffect
    <2>3. TypeOK'
      BY <1>1, <2>2 DEF TypeOK
    <2>4. ChainFits'
      BY <1>1, <1>n, <2>2 DEF ChainFits, SequenceFree, CanSucceed, Includable, OthersCanCarry
    <2> QED
      BY <1>n, <2>1, <2>2, <2>3, <2>4, GrowthSound DEF SequenceFree, CanSucceed
  <1>3. CASE TakesSequence
    <2>1. Unpayable => Unpayable'
      BY <1>3, UnpayableStays DEF TakesSequence
    <2>2. /\ height < Horizon /\ SequenceFree
          /\ UNCHANGED <<height, net, row, look, calm>>
          /\ chain' = [chain EXCEPT !.rival = height + 1]
      BY <1>3, Zenon DEF TakesSequence
    <2>3. /\ chain' \in Chain /\ chain'.rival = height + 1
          /\ chain'.landed = chain.landed /\ chain'.form = chain.form
          /\ chain'.ok = chain.ok /\ chain'.used = chain.used /\ chain'.by = chain.by
      BY <1>n, <2>2 DEF Chain, Ledger
    <2>4. TypeOK'
      BY <1>1, <2>2, <2>3 DEF TypeOK
    <2>5. ChainFits'
      BY <1>1, <1>n, <2>2, <2>3 DEF ChainFits, SequenceFree, OthersCanCarry
    <2> QED
      BY <1>n, <2>1, <2>2, <2>3, <2>4, <2>5, GrowthSound DEF SequenceFree
  <1>4. ASSUME NEW by \in {"copy", "burn"}, UsesNonce(by) PROVE LooksAreSound'
    <2>1. Unpayable => Unpayable'
      BY <1>4, UnpayableStays DEF UsesNonce
    <2>2. /\ height < Horizon /\ chain.used = 0
          /\ by = "copy" => OthersCanCarry /\ height + 1 <= Expiration
          /\ UNCHANGED <<height, net, row, look, calm>>
          /\ chain' = [chain EXCEPT !.used = height + 1, !.by = by]
      BY <1>4, Zenon DEF UsesNonce
    <2>3. /\ chain' \in Chain /\ chain'.used = height + 1 /\ chain'.by = by
          /\ chain'.landed = chain.landed /\ chain'.form = chain.form
          /\ chain'.ok = chain.ok /\ chain'.rival = chain.rival
      <3>1. height + 1 \in Ledger
        BY <1>n, <2>2 DEF Ledger
      <3> QED
        BY <1>n, <2>2, <3>1 DEF Chain
    <2>4. TypeOK'
      BY <1>1, <2>2, <2>3 DEF TypeOK
    <2>5. ChainFits'
      BY <1>1, <1>n, <2>2, <2>3 DEF ChainFits, OthersCanCarry
    <2> QED
      BY <1>n, <2>1, <2>2, <2>3, <2>4, <2>5, GrowthSound DEF SequenceFree
  <1>5. CASE ClosesLedger \/ CalmsDown
    <2>1. /\ UNCHANGED <<chain, net, row, look>>
          /\ height' \in {height, height + 1} /\ height' \in 1..Horizon
          /\ calm' \in BOOLEAN
      <3>1. CASE ClosesLedger
        <4>1. UNCHANGED <<chain, net, row, look, calm>> /\ height' = height + 1
          BY <3>1 DEF ClosesLedger
        <4>2. height < Horizon
          BY <3>1 DEF ClosesLedger
        <4>3. calm' \in BOOLEAN
          BY <1>1, <4>1 DEF TypeOK
        <4> QED
          BY <1>n, <4>1, <4>2, <4>3
      <3>2. CASE CalmsDown
        <4>1. UNCHANGED <<height, chain, net, row, look>> /\ calm' = TRUE
          BY <3>2 DEF CalmsDown
        <4> QED
          BY <1>n, <4>1
      <3> QED
        BY <1>5, <3>1, <3>2
    <2>2. Unpayable => Unpayable'
      BY <2>1, UnpayableStays
    <2>3. TypeOK'
      BY <1>1, <2>1 DEF TypeOK
    <2>4. ChainFits'
      BY <1>1, <1>n, <2>1 DEF ChainFits, OthersCanCarry
    <2> QED
      BY <1>n, <2>1, <2>2, <2>3, <2>4, GrowthSound DEF SequenceFree
  <1> QED
    BY <1>2, <1>3, <1>4, <1>5 DEF Network

-----------------------------------------------------------------------------
(* What the reads of one RPC prove.                                          *)

\* A transaction that is found is in a closed ledger.
LEMMA FoundIsClosed ==
  ASSUME TypeOK, NEW s \in Rpcs, NEW ledger \in Nat, Finds(s, ledger)
  PROVE  ledger # 0 /\ ledger \in 1..height
  BY RpcRange, Numbers DEF Finds, Reached

\* History from before the claim on leaves out no transaction of the payment.
LEMMA CoveredIsComplete ==
  ASSUME TypeOK, NEW s \in Rpcs, ~FindsInner(s), Covers(s)
  PROVE  chain.landed = 0 \/ chain.landed > s.at
  BY RpcRange, Numbers DEF FindsInner, Finds, Reached, Covers, Oldest

\* A nonce that reads unused was not used up to that ledger, unless its entry
\* lapsed, which takes the authorization's expiration.
LEMMA UnreadIsUnused ==
  ASSUME TypeOK, NEW s \in Rpcs, ~ReadsNonceUsed(s),
         \/ s.at <= Expiration
         \/ NonceOutlastsLooks /\ OthersCanCarry
  PROVE  chain.used = 0 \/ chain.used > s.at
  <1>1. s.at \in 1..height /\ height \in 1..Horizon /\ Horizon \in Nat
    BY RpcRange, Numbers
  <1>2. chain.used \in Nat /\ Expiration \in Nat /\ Lifetime[row.scheme] \in Nat
    BY Numbers
  <1>3. ~Lapsed(s.at) \/ chain.used = 0
    <2>1. CASE s.at <= Expiration
      BY <1>1, <1>2, <2>1 DEF Lapsed
    <2>2. CASE NonceOutlastsLooks /\ OthersCanCarry
      <3>1. Lifetime[row.scheme] >= Horizon
        BY <2>2 DEF NonceOutlastsLooks, OthersCanCarry
      <3> QED
        BY <1>1, <1>2, <3>1 DEF Lapsed
    <2> QED
      BY <2>1, <2>2
  <1> QED
    BY <1>1, <1>2, <1>3 DEF ReadsNonceUsed, Reached

\* An exact payment whose nonce is unused past the expiration never moves.
LEMMA UnusedIsUnpayable ==
  ASSUME LooksAreSound, NonceOutlastsLooks, NEW s \in Rpcs, ~ReadsNonceUsed(s),
         OthersCanCarry, s.at > Expiration
  PROVE  Unpayable
  <1>1. TypeOK /\ ChainFits
    BY DEF LooksAreSound
  <1>2. s.at \in 1..height
    BY <1>1, RpcRange
  <1>3. chain.used = 0 \/ chain.used > s.at
    BY <1>1, UnreadIsUnused
  <1>4. chain.used \in Nat /\ Expiration \in Nat /\ height \in Nat
    BY <1>1, Numbers
  <1>5. ~Moved
    BY <1>1, <1>2, <1>3, <1>4 DEF ChainFits, Moved
  <1> QED
    BY <1>2, <1>4, <1>5 DEF Unpayable

\* A recorded transaction that cannot land, and did not, moves nothing that
\* only it can move.
LEMMA NoLandingIsUnpayable ==
  ASSUME LooksAreSound, chain.landed = 0 \/ ~chain.ok, NeverLands, ~OthersCanCarry
  PROVE  Unpayable
  <1>1. chain.by \notin {"inner", "copy"}
    BY DEF LooksAreSound, ChainFits
  <1> QED
    BY <1>1 DEF Unpayable, Moved

\* landing at its end: the inner hash was not found, the nonce reads unused at
\* or past the floor, and neither read leaves room for doubt.
LEMMA AbsentIsUnpayable ==
  ASSUME LooksAreSound, Legible, NEW s \in Rpcs, look.at = "nonce",
         ~ReadsNonceUsed(s), s.at >= look.floor,
         ~(s.at <= Expiration /\ OthersCanCarry),
         ~(s.at > Expiration /\ ~look.kept),
         \/ OthersCanCarry
         \/ look.floor >= LastLedger
         \/ chain.rival # 0
         \/ net.refused /\ ~net.exposed
  PROVE  Unpayable
  <1>1. TypeOK /\ ChainFits /\ LookFits
    BY DEF LooksAreSound
  <1>2. s.at \in 1..height
    BY <1>1, RpcRange
  <1>3. /\ chain.used \in Nat /\ Expiration \in Nat /\ height \in Nat /\ LastLedger \in Nat
        /\ look.floor \in Nat /\ chain.landed \in Nat /\ chain.rival \in Nat
    BY <1>1, Numbers
  <1>4. CASE OthersCanCarry
    BY <1>2, <1>3, <1>4, UnusedIsUnpayable DEF Legible
  <1>5. CASE ~OthersCanCarry /\ (chain.rival # 0 \/ (net.refused /\ ~net.exposed))
    <2>1. chain.landed = 0 /\ NeverLands
      BY <1>1, <1>5 DEF ChainFits, NeverLands, SequenceFree
    <2> QED
      BY <1>5, <2>1, NoLandingIsUnpayable
  <1>6. CASE ~OthersCanCarry /\ look.floor >= LastLedger
    <2>1. height >= LastLedger
      BY <1>2, <1>3, <1>6
    <2>2. NeverLands
      BY <2>1 DEF NeverLands
    <2>3. CASE s.at > Expiration
      <3>1. chain.landed = 0 \/ chain.landed > look.floor
        BY <1>1, <1>3, <2>3 DEF LookFits
      <3>2. chain.landed = 0
        BY <1>1, <1>3, <1>6, <3>1 DEF ChainFits
      <3> QED
        BY <1>6, <2>2, <3>2, NoLandingIsUnpayable
    <2>4. CASE s.at <= Expiration
      <3>1. chain.used = 0 \/ chain.used > s.at
        BY <1>1, <2>4, UnreadIsUnused
      <3>2. ~chain.ok
        BY <1>1, <1>2, <1>3, <1>6, <3>1 DEF ChainFits
      <3> QED
        BY <1>6, <2>2, <3>2, NoLandingIsUnpayable
    <2> QED
      BY <1>2, <1>3, <2>3, <2>4
  <1> QED
    BY <1>4, <1>5, <1>6

-----------------------------------------------------------------------------
(* What a look comes to.                                                     *)

\* What a driver's step leaves alone: it closes no ledger; a send exposes bytes
\* only while the network still accepts them.
DriverFrame ==
  /\ UNCHANGED <<height, chain, calm>>
  /\ net' \in [exposed : BOOLEAN, refused : BOOLEAN]
  /\ net.refused => net'.refused
  /\ net.exposed => net'.exposed
  /\ net'.exposed => net.exposed \/ CanAccept

\* What it may do to the row: it notes that bytes may be public.
RowFrame ==
  /\ row' \in Row
  /\ row'.scheme = row.scheme
  /\ net'.exposed => row'.public

\* A settlement finished as never charged.
NeverCharged ==
  /\ ~(chain.landed # 0 /\ chain.form = "own")
  /\ ~SequenceFree \/ (net.refused /\ ~net.exposed)

LEMMA FrameFits ==
  ASSUME LooksAreSound, DriverFrame, RowFrame, look' \in Look
  PROVE  /\ TypeOK' /\ ChainFits'
         /\ SequenceFree' <=> SequenceFree
         /\ OthersCanCarry' <=> OthersCanCarry
         /\ Legible' <=> Legible
         /\ Moved' <=> Moved
         /\ Unpayable => Unpayable'
         /\ NeverCharged => NeverCharged'
  <1>1. TypeOK /\ ChainFits
    BY DEF LooksAreSound
  <1>2. UNCHANGED <<height, chain, calm>>
    BY DEF DriverFrame
  <1>3. TypeOK'
    BY <1>1, <1>2 DEF TypeOK, DriverFrame, RowFrame
  <1>4. (OthersCanCarry' <=> OthersCanCarry) /\ (Legible' <=> Legible)
    BY DEF OthersCanCarry, Legible, RowFrame
  <1>5. (SequenceFree' <=> SequenceFree) /\ (Moved' <=> Moved)
    BY <1>2 DEF SequenceFree, Moved
  <1>6. ChainFits'
    <2>1. /\ chain.landed # 0 => net'.exposed
          /\ net'.exposed => row'.public
      BY <1>1 DEF ChainFits, DriverFrame, RowFrame
    <2> QED
      BY <1>1, <1>2, <1>4, <2>1 DEF ChainFits
  <1>7. net.refused /\ ~net.exposed => net'.refused /\ ~net'.exposed
    BY DEF DriverFrame, CanAccept
  <1>8. NeverCharged => NeverCharged'
    BY <1>2, <1>5, <1>7 DEF NeverCharged
  <1>9. Unpayable => Unpayable'
    BY <1>2, <1>4, <1>5, <1>7 DEF Unpayable, NeverLands
  <1> QED
    BY <1>3, <1>4, <1>5, <1>6, <1>8, <1>9

\* The row's answer stays; a channel may be given back.
LEMMA AnswerKept ==
  ASSUME LooksAreSound, DriverFrame, RowFrame, look' \in Look,
         row'.state = row.state, row'.free = row.free,
         row'.released => row.released \/ ~SequenceFree
  PROVE  AnswerFits'
  <1>1. AnswerFits
    BY DEF LooksAreSound
  <1>2. /\ SequenceFree' <=> SequenceFree
        /\ Moved' <=> Moved
        /\ Legible' <=> Legible
        /\ Unpayable => Unpayable'
        /\ NeverCharged => NeverCharged'
    BY FrameFits
  <1>3. UNCHANGED <<height, chain>>
    BY DEF DriverFrame
  <1>4. row'.free => NeverCharged'
    BY <1>1, <1>2 DEF AnswerFits, NeverCharged
  <1> QED
    BY <1>1, <1>2, <1>3, <1>4 DEF AnswerFits, NeverCharged

\* The next look.
LEMMA RestartSound ==
  ASSUME LooksAreSound, DriverFrame, RowFrame,
         NEW back \in BOOLEAN, look' = NewLook(back),
         row.state = "open", row'.state = "open", row'.free = row.free,
         row'.released => row.released \/ ~SequenceFree
  PROVE  LooksAreSound'
  <1>1. /\ look' \in Look /\ look'.at = "look" /\ look'.why = "none"
        /\ look'.asks = "none" /\ look'.seen = 0 /\ look'.floor = 0
        /\ look'.from = 0 /\ look'.took = 0 /\ look'.first = FALSE
    BY FreshLook, ConfirmationAssumption
  <1>2. /\ TypeOK' /\ ChainFits'
    BY <1>1, FrameFits
  <1>3. AnswerFits'
    BY <1>1, AnswerKept
  <1>4. height' \in Nat
    BY <1>2, ConfirmationAssumption DEF TypeOK
  <1>5. LookFits'
    BY <1>1, <1>4 DEF LookFits
  <1> QED
    BY <1>2, <1>3, <1>5 DEF LooksAreSound

\* complete.
LEMMA ConcludeSound ==
  ASSUME LooksAreSound, DriverFrame,
         NEW verdict \in {"succeeded", "failed", "expired"}, NEW free \in BOOLEAN,
         Completes(verdict, free), net'.exposed => row.public,
         verdict # "succeeded" /\ Legible => Unpayable \/ Unpayable',
         verdict = "succeeded" => Moved /\ chain.used <= height,
         free => NeverCharged'
  PROVE  LooksAreSound'
  <1>1. /\ look' = [NewLook(FALSE) EXCEPT !.at = "done"]
        /\ row' = [row EXCEPT !.state = verdict, !.free = free]
    BY DEF Completes
  <1>2. /\ look' \in Look /\ look'.at = "done" /\ look'.why = "none"
        /\ look'.asks = "none" /\ look'.seen = 0 /\ look'.floor = 0
        /\ look'.from = 0 /\ look'.took = 0 /\ look'.first = FALSE
    <2>1. "done" \in Steps /\ NewLook(FALSE) \in Look
      BY FreshLook, ConfirmationAssumption DEF Steps
    <2> QED
      <3>1. /\ look' \in Look /\ look'.at = "done"
            /\ look'.why = NewLook(FALSE).why /\ look'.asks = NewLook(FALSE).asks
            /\ look'.seen = NewLook(FALSE).seen /\ look'.floor = NewLook(FALSE).floor
            /\ look'.from = NewLook(FALSE).from /\ look'.took = NewLook(FALSE).took
            /\ look'.first = NewLook(FALSE).first
        BY <1>1, <2>1, NextStep
      <3> QED
        BY <3>1, FreshLook, ConfirmationAssumption
  <1>3. row \in Row
    BY DEF LooksAreSound, TypeOK
  <1>4. /\ row' \in Row /\ row'.scheme = row.scheme /\ row'.public = row.public
        /\ row'.released = row.released /\ row'.state = verdict /\ row'.free = free
    BY <1>1, <1>3 DEF Row
  <1>5. RowFrame
    BY <1>4 DEF RowFrame
  <1>6. /\ TypeOK' /\ ChainFits'
        /\ SequenceFree' <=> SequenceFree
        /\ Moved' <=> Moved
        /\ Legible' <=> Legible
        /\ Unpayable => Unpayable'
    BY <1>2, <1>5, FrameFits
  <1>7. UNCHANGED <<height, chain>>
    BY DEF DriverFrame
  <1>8. AnswerFits'
    <2>1. Legible' /\ row'.state \in {"failed", "expired"} => Unpayable'
      BY <1>4, <1>6
    <2>2. row'.state = "succeeded" => Moved' /\ chain'.used <= height'
      BY <1>4, <1>6, <1>7
    <2>3. row'.released => ~SequenceFree'
      BY <1>4, <1>6 DEF LooksAreSound, AnswerFits
    <2>4. row'.free => NeverCharged'
      BY <1>4
    <2> QED
      BY <2>1, <2>2, <2>3, <2>4 DEF AnswerFits, NeverCharged
  <1>9. height' \in Nat
    BY <1>6, ConfirmationAssumption DEF TypeOK
  <1>10. LookFits'
    BY <1>2, <1>4, <1>9 DEF LookFits
  <1> QED
    BY <1>6, <1>8, <1>10 DEF LooksAreSound

\* A further step of the same look.
LEMMA StepSound ==
  ASSUME LooksAreSound, DriverFrame, UNCHANGED row, net'.exposed => row.public,
         look' \in Look, LookFits'
  PROVE  LooksAreSound'
  <1>1. RowFrame
    BY DEF RowFrame, LooksAreSound, TypeOK
  <1>2. TypeOK' /\ ChainFits' /\ AnswerFits'
    BY <1>1, FrameFits, AnswerKept
  <1> QED
    BY <1>2 DEF LooksAreSound

\* Reads change nothing but the look and the row.
LEMMA QuietFrame ==
  ASSUME LooksAreSound, Quiet
  PROVE  DriverFrame /\ (net'.exposed => row.public)
  BY DEF LooksAreSound, TypeOK, ChainFits, Quiet, DriverFrame

LEMMA LooksAgainSound ==
  ASSUME LooksAreSound, Quiet, look.at # "done", LooksAgain
  PROVE  LooksAreSound'
  <1>1. DriverFrame /\ (net'.exposed => row.public)
    BY QuietFrame
  <1>2. /\ row.state = "open" /\ row \in Row
        /\ look.back \in BOOLEAN /\ row.released \in BOOLEAN /\ calm \in BOOLEAN
    BY DEF LooksAreSound, LookFits, TypeOK, Look, Row
  <1>3. /\ look' = NewLook(look.back \/ (calm /\ row.released)) /\ UNCHANGED row
    BY DEF LooksAgain
  <1>4. RowFrame
    BY <1>1, <1>2, <1>3 DEF RowFrame
  <1>5. (look.back \/ (calm /\ row.released)) \in BOOLEAN
    BY <1>2
  <1> QED
    BY <1>1, <1>2, <1>3, <1>4, <1>5, RestartSound

\* A channel is given back only when its sequence number is known to be taken.
LEMMA GivesBackSound ==
  ASSUME LooksAreSound, Quiet, look.at # "done", ~SequenceFree, GivesBackAndLooks
  PROVE  LooksAreSound'
  <1>1. DriverFrame /\ (net'.exposed => row.public)
    BY QuietFrame
  <1>2. /\ row.state = "open" /\ row \in Row
        /\ look.back \in BOOLEAN /\ row.released \in BOOLEAN
    BY DEF LooksAreSound, LookFits, TypeOK, Look, Row
  <1>g. PICK given \in IF calm THEN {TRUE} ELSE {TRUE, row.released} :
          \E back \in IF calm THEN {TRUE} ELSE {look.back, given} :
            /\ row' = [row EXCEPT !.released = given]
            /\ look' = NewLook(back)
    BY Zenon DEF GivesBackAndLooks
  <1>3. PICK back \in IF calm THEN {TRUE} ELSE {look.back, given} :
          /\ row' = [row EXCEPT !.released = given]
          /\ look' = NewLook(back)
    BY <1>g, Zenon
  <1>4. given \in BOOLEAN /\ back \in BOOLEAN
    <2>1. given \in BOOLEAN
      BY <1>2
    <2> QED
      BY <1>2, <2>1
  <1>5. /\ row' \in Row /\ row'.scheme = row.scheme /\ row'.public = row.public
        /\ row'.state = row.state /\ row'.free = row.free
    BY <1>2, <1>3, <1>4 DEF Row
  <1>6. RowFrame
    BY <1>1, <1>5 DEF RowFrame
  <1> QED
    BY <1>1, <1>2, <1>3, <1>4, <1>5, <1>6, RestartSound

\* The steps at which the reason for the look, if it is a sequence conflict,
\* has been proved.
Proved == Steps \ {"account", "ownAgain", "innerAgain", "done"}

LEMMA DecidesLaterSound ==
  ASSUME LooksAreSound, Quiet, look.at \in Proved, DecidesLater
  PROVE  LooksAreSound'
  <1>1. CASE look.why = "conflict"
    <2>1. ~SequenceFree
      BY <1>1 DEF LooksAreSound, LookFits, SequenceFree, Proved
    <2> QED
      BY <1>1, <2>1, GivesBackSound DEF DecidesLater, Proved
  <1>2. CASE look.why # "conflict"
    BY <1>2, LooksAgainSound DEF DecidesLater, Proved
  <1> QED
    BY <1>1, <1>2

\* A search for what may have moved the payment.
LEMMA SearchSound ==
  ASSUME LooksAreSound, Quiet, look.at \in {"nonce", "unseen"}, NEW s \in Rpcs,
         NEW asks \in {"landing", "unseen"}, SearchesFor(asks, s)
  PROVE  LooksAreSound'
  <1>1. /\ look \in Look /\ LookFits /\ TypeOK
        /\ DriverFrame /\ (net'.exposed => row.public)
    BY QuietFrame DEF LooksAreSound, TypeOK
  <1>2. s.at \in 1..height /\ height \in 1..Horizon /\ Horizon \in Nat
    BY <1>1, RpcRange, Numbers
  <1>3. /\ look' = [look EXCEPT !.at = "search", !.asks = asks, !.from = s.at]
        /\ UNCHANGED row
    BY DEF SearchesFor
  <1>4. s.at \in Ledger
    BY <1>2 DEF Ledger
  <1>5. /\ look' \in Look /\ look'.at = "search" /\ look'.asks = asks
        /\ look'.from = s.at /\ look'.why = look.why /\ look'.seen = look.seen
        /\ look'.floor = look.floor /\ look'.took = look.took
        /\ look'.first = look.first
    BY <1>1, <1>3, <1>4 DEF Look, Steps
  <1>6. /\ UNCHANGED <<height, chain, net>>
    BY DEF Quiet
  <1>7. LookFits'
    BY <1>1, <1>2, <1>3, <1>5, <1>6 DEF LookFits
  <1> QED
    BY <1>1, <1>3, <1>5, <1>7, StepSound

\* finishFailed: the recorded transaction was found failed.
LEMMA FailureSound ==
  ASSUME LooksAreSound, Quiet, look.at # "done",
         chain.landed # 0, chain.landed <= height, ~chain.ok,
         NEW why \in {"expired", "released", "rejected", "first", "conflict", "failure"},
         why \in {"rejected", "first"} => net.refused,
         why = "first" => look.first,
         why = "conflict" => chain.rival # 0,
         LearnsFailure(why)
  PROVE  LooksAreSound'
  <1>1. /\ look \in Look /\ LookFits /\ TypeOK /\ chain \in Chain
        /\ DriverFrame /\ (net'.exposed => row.public)
    BY QuietFrame DEF LooksAreSound, TypeOK
  <1>2. /\ chain.landed \in Nat /\ height \in 1..Horizon /\ Horizon \in Nat
    BY <1>1, Numbers
  <1>3. PICK cause \in {chain.cause, "unnamed"} :
          IF MayHideCopy(cause) \/ Lives(cause)
          THEN /\ look' = [look EXCEPT !.at = "search", !.asks = "failure",
                                       !.why = why, !.cause = cause,
                                       !.from = chain.landed]
               /\ UNCHANGED row
          ELSE Completes("failed", FALSE)
    BY DEF LearnsFailure
  <1>4. CASE MayHideCopy(cause) \/ Lives(cause)
    <2>1. /\ look' = [look EXCEPT !.at = "search", !.asks = "failure",
                                  !.why = why, !.cause = cause,
                                  !.from = chain.landed]
          /\ UNCHANGED row
      BY <1>3, <1>4
    <2>2. cause \in {"none", "nonceUsed", "expired", "other", "unnamed"}
      BY <1>1 DEF Chain
    <2>3. chain.landed \in Ledger
      BY <1>2 DEF Ledger
    <2>4. /\ look' \in Look /\ look'.at = "search" /\ look'.asks = "failure"
          /\ look'.from = chain.landed /\ look'.why = why /\ look'.seen = look.seen
          /\ look'.floor = look.floor /\ look'.took = look.took
          /\ look'.first = look.first
      BY <1>1, <2>1, <2>2, <2>3 DEF Look, Steps
    <2>5. UNCHANGED <<height, chain, net>>
      BY DEF Quiet
    <2>6. LookFits'
      BY <1>1, <1>2, <2>1, <2>4, <2>5 DEF LookFits
    <2> QED
      BY <1>1, <2>1, <2>4, <2>6, StepSound
  <1>5. CASE ~(MayHideCopy(cause) \/ Lives(cause))
    <2>1. Completes("failed", FALSE)
      BY <1>3, <1>5
    <2>2. ~OthersCanCarry
      BY <1>5 DEF MayHideCopy, Lives, OthersCanCarry
    <2>3. NeverLands
      BY DEF NeverLands, SequenceFree
    <2>4. Unpayable
      BY <2>2, <2>3, NoLandingIsUnpayable
    <2> QED
      BY <1>1, <2>1, <2>4, ConcludeSound
  <1> QED
    BY <1>4, <1>5

-----------------------------------------------------------------------------
(* The driver's steps.                                                       *)

\* A payment whose recorded transaction was found to have succeeded moved.
LEMMA SuccessMoved ==
  ASSUME LooksAreSound, NEW s \in Rpcs, FindsInner(s), chain.ok
  PROVE  Moved /\ chain.used <= height
  <1>1. TypeOK /\ ChainFits
    BY DEF LooksAreSound
  <1>2. chain.landed \in 1..height
    BY <1>1, Numbers, FoundIsClosed DEF FindsInner
  <1>3. chain.landed \in Nat /\ LastLedger \in Nat
    BY <1>1, Numbers
  <1> QED
    BY <1>1, <1>2, <1>3 DEF ChainFits, Moved

LEMMA LooksUpSound == LooksAreSound /\ LooksUp => LooksAreSound'
  <1> SUFFICES ASSUME LooksAreSound, LooksUp PROVE LooksAreSound'
    OBVIOUS
  <1>1. PICK s \in Rpcs : OwnHash(s)
    BY DEF LooksUp
  <1>2. look.at = "look" /\ Quiet
    BY DEF LooksUp
  <1>3. /\ look \in Look /\ LookFits /\ TypeOK /\ row.state = "open"
        /\ DriverFrame /\ (net'.exposed => row.public)
    BY <1>2, QuietFrame DEF LooksAreSound, TypeOK, LookFits
  <1>4. CASE FindsOwn(s) /\ look.first /\ LooksAgain
    BY <1>2, <1>4, LooksAgainSound
  <1>5. CASE FindsOwn(s) /\ ~look.first /\ chain.ok /\ Completes("succeeded", FALSE)
    <2>1. Moved /\ chain.used <= height
      BY <1>5, SuccessMoved DEF FindsOwn
    <2> QED
      BY <1>3, <1>5, <2>1, ConcludeSound
  <1>6. CASE FindsOwn(s) /\ ~look.first /\ ~chain.ok /\ LearnsFailure("failure")
    <2>1. chain.landed # 0 /\ chain.landed <= height
      BY <1>3, <1>6, Numbers, FoundIsClosed DEF FindsOwn, FindsInner
    <2> QED
      BY <1>2, <1>6, <2>1, FailureSound
  <1>7. CASE /\ ~FindsOwn(s)
             /\ LET noted == [look EXCEPT !.seen = s.at, !.floor = s.at,
                                          !.covered = Covers(s), !.kept = Covers(s)]
                IN  look' =
                      IF ~look.first /\ s.at > LastLedger
                      THEN [noted EXCEPT !.at = "inner", !.why = "expired"]
                      ELSE IF look.back
                      THEN [noted EXCEPT !.at = "inner", !.why = "released"]
                      ELSE [noted EXCEPT !.at = "send"]
             /\ UNCHANGED row
    <2> DEFINE noted == [look EXCEPT !.seen = s.at, !.floor = s.at,
                                     !.covered = Covers(s), !.kept = Covers(s)]
    <2>1. s.at \in 1..height /\ height \in 1..Horizon /\ Horizon \in Nat
      BY <1>3, RpcRange, Numbers
    <2>2. s.at \in Ledger /\ Covers(s) \in BOOLEAN
      BY <2>1 DEF Ledger, Covers
    <2>3. /\ noted \in Look /\ noted.seen = s.at /\ noted.floor = s.at
          /\ noted.from = look.from /\ noted.took = look.took
          /\ noted.first = look.first /\ noted.asks = look.asks
          /\ noted.why = look.why
      BY <1>3, <2>2 DEF Look
    <2>4. \/ look' = [noted EXCEPT !.at = "inner", !.why = "expired"] /\ s.at > LastLedger
          \/ look' = [noted EXCEPT !.at = "inner", !.why = "released"]
          \/ look' = [noted EXCEPT !.at = "send"]
      BY <1>7
    <2> HIDE DEF noted
    <2>5. /\ look' \in Look /\ look'.seen = s.at /\ look'.floor = s.at
          /\ look'.from = look.from /\ look'.took = look.took
          /\ look'.first = look.first /\ look'.asks = look.asks
          /\ \/ look'.at = "inner" /\ look'.why = "expired" /\ s.at > LastLedger
             \/ look'.at = "inner" /\ look'.why = "released"
             \/ look'.at = "send" /\ look'.why = look.why
      <3>1. CASE look' = [noted EXCEPT !.at = "inner", !.why = "expired"] /\ s.at > LastLedger
        BY <2>3, <3>1 DEF Look, Steps
      <3>2. CASE look' = [noted EXCEPT !.at = "inner", !.why = "released"]
        BY <2>3, <3>2 DEF Look, Steps
      <3>3. CASE look' = [noted EXCEPT !.at = "send"]
        BY <2>3, <3>3 DEF Look, Steps
      <3> QED
        BY <2>4, <3>1, <3>2, <3>3
    <2>6. UNCHANGED <<height, chain, net, row>>
      BY <1>2, <1>7 DEF Quiet
    <2>7. LookFits'
      BY <1>2, <1>3, <2>1, <2>5, <2>6 DEF LookFits
    <2> QED
      BY <1>3, <2>5, <2>6, <2>7, StepSound
  <1> QED
    BY <1>1, <1>4, <1>5, <1>6, <1>7 DEF OwnHash

\* The sends after which the next look starts afresh.
LEMMA SendsSound ==
  LooksAreSound /\ (SendAccepted \/ SendLost \/ SendBusy) => LooksAreSound'
  <1> SUFFICES ASSUME LooksAreSound, SendAccepted \/ SendLost \/ SendBusy
               PROVE  LooksAreSound'
    OBVIOUS
  <1>1. TypeOK /\ LookFits /\ ChainFits
    BY DEF LooksAreSound
  <1>2. /\ row \in Row /\ look.back \in BOOLEAN
        /\ net \in [exposed : BOOLEAN, refused : BOOLEAN]
    BY <1>1 DEF TypeOK, Look
  <1>3. CASE SendAccepted
    <2>1. /\ look.at = "send" /\ CanAccept
          /\ net' = [net EXCEPT !.exposed = TRUE]
          /\ row' = [row EXCEPT !.public = TRUE]
          /\ look' = NewLook(look.back)
          /\ UNCHANGED <<height, chain, calm>>
      BY <1>3, Zenon DEF SendAccepted
    <2>2. /\ net' \in [exposed : BOOLEAN, refused : BOOLEAN]
          /\ net'.exposed /\ net'.refused = net.refused
      BY <1>2, <2>1
    <2>3. /\ row' \in Row /\ row'.scheme = row.scheme /\ row'.public
          /\ row'.released = row.released /\ row'.state = row.state
          /\ row'.free = row.free
      BY <1>2, <2>1 DEF Row
    <2>4. DriverFrame /\ RowFrame
      BY <2>1, <2>2, <2>3 DEF DriverFrame, RowFrame
    <2>5. row.state = "open"
      BY <1>1, <2>1 DEF LookFits
    <2> QED
      BY <1>2, <2>1, <2>3, <2>4, <2>5, RestartSound
  <1>4. CASE SendLost
    <2>1. /\ look.at = "send"
          /\ row' = [row EXCEPT !.public = TRUE]
          /\ look' = NewLook(look.back)
          /\ UNCHANGED <<height, chain, net, calm>>
      BY <1>4, Zenon DEF SendLost
    <2>2. /\ row' \in Row /\ row'.scheme = row.scheme /\ row'.public
          /\ row'.released = row.released /\ row'.state = row.state
          /\ row'.free = row.free
      BY <1>2, <2>1 DEF Row
    <2>3. DriverFrame /\ RowFrame
      BY <1>2, <2>1, <2>2 DEF DriverFrame, RowFrame
    <2>4. row.state = "open"
      BY <1>1, <2>1 DEF LookFits
    <2> QED
      BY <1>2, <2>1, <2>2, <2>3, <2>4, RestartSound
  <1>5. CASE SendBusy
    BY <1>5, LooksAgainSound DEF SendBusy
  <1> QED
    BY <1>3, <1>4, <1>5

LEMMA SendBadSequenceSound == LooksAreSound /\ SendBadSequence => LooksAreSound'
  <1> SUFFICES ASSUME LooksAreSound, SendBadSequence PROVE LooksAreSound'
    OBVIOUS
  <1>1. /\ look.at = "send" /\ Quiet /\ UNCHANGED row
        /\ look' = [look EXCEPT !.at = "account", !.why = "conflict"]
    BY DEF SendBadSequence
  <1>2. /\ look \in Look /\ LookFits /\ TypeOK
        /\ DriverFrame /\ (net'.exposed => row.public)
    BY <1>1, QuietFrame DEF LooksAreSound, TypeOK
  <1>3. /\ look' \in Look /\ look'.at = "account" /\ look'.why = "conflict"
        /\ look'.asks = look.asks /\ look'.seen = look.seen
        /\ look'.floor = look.floor /\ look'.from = look.from
        /\ look'.took = look.took /\ look'.first = look.first
    BY <1>1, <1>2 DEF Look, Steps
  <1>4. UNCHANGED <<height, chain, net>>
    BY <1>1 DEF Quiet
  <1>5. LookFits'
    BY <1>1, <1>2, <1>3, <1>4 DEF LookFits
  <1> QED
    BY <1>1, <1>2, <1>3, <1>5, StepSound

LEMMA SendRefusedSound == LooksAreSound /\ SendRefused => LooksAreSound'
  <1> SUFFICES ASSUME LooksAreSound, SendRefused PROVE LooksAreSound'
    OBVIOUS
  <1>1. /\ look.at = "send" /\ SequenceFree
        /\ net' = [net EXCEPT !.refused = TRUE]
        /\ UNCHANGED <<height, chain, calm>>
    BY Zenon DEF SendRefused
  <1>2. TypeOK /\ LookFits /\ ChainFits
    BY DEF LooksAreSound
  <1>3. /\ look \in Look /\ net \in [exposed : BOOLEAN, refused : BOOLEAN]
    BY <1>2 DEF TypeOK
  <1>4. /\ net' \in [exposed : BOOLEAN, refused : BOOLEAN]
        /\ net'.exposed = net.exposed /\ net'.refused
    BY <1>1, <1>3
  <1>5. DriverFrame /\ (net'.exposed => row.public)
    BY <1>1, <1>2, <1>4 DEF DriverFrame, ChainFits
  <1>6. CASE look.first /\ ~OthersCanCarry
    <2>1. Completes("failed", TRUE)
      BY <1>6, Zenon DEF SendRefused
    <2>2. ~net'.exposed
      BY <1>2, <1>4, <1>6 DEF LookFits
    <2>3. chain.landed = 0 /\ chain'.landed = 0
      BY <1>1 DEF SequenceFree
    <2>4. NeverCharged'
      BY <1>4, <2>2, <2>3 DEF NeverCharged
    <2>5. Unpayable'
      <3>1. chain.by \notin {"inner", "copy"}
        BY <1>2, <1>6, <2>3 DEF ChainFits
      <3>2. row'.scheme = row.scheme
        BY <1>2, <2>1 DEF Completes, TypeOK, Row
      <3>3. ~OthersCanCarry'
        BY <1>6, <3>2 DEF OthersCanCarry
      <3>4. ~Moved'
        BY <1>1, <3>1 DEF Moved
      <3> QED
        BY <1>4, <2>2, <3>3, <3>4 DEF Unpayable, NeverLands
    <2> QED
      BY <1>5, <2>1, <2>4, <2>5, ConcludeSound
  <1>7. CASE ~(look.first /\ ~OthersCanCarry)
    <2>1. /\ look' = [look EXCEPT !.at = "inner",
                        !.why = IF look.first THEN "first" ELSE "rejected"]
          /\ UNCHANGED row
      BY <1>7, Zenon DEF SendRefused
    <2>2. /\ look' \in Look /\ look'.at = "inner"
          /\ look'.why = (IF look.first THEN "first" ELSE "rejected")
          /\ look'.asks = look.asks /\ look'.seen = look.seen
          /\ look'.floor = look.floor /\ look'.from = look.from
          /\ look'.took = look.took /\ look'.first = look.first
      BY <1>3, <2>1 DEF Look, Steps
    <2>3. LookFits'
      BY <1>1, <1>2, <1>4, <2>1, <2>2 DEF LookFits
    <2> QED
      BY <1>5, <2>1, <2>2, <2>3, StepSound
  <1> QED
    BY <1>6, <1>7

\* A look that goes on as it is.
LEMMA GoesToFacts ==
  ASSUME LooksAreSound, Quiet, NEW step \in Steps, GoesTo(step)
  PROVE  /\ look' \in Look /\ look'.at = step /\ look'.why = look.why
         /\ look'.asks = look.asks /\ look'.seen = look.seen
         /\ look'.floor = look.floor /\ look'.from = look.from
         /\ look'.took = look.took /\ look'.kept = look.kept
         /\ look'.first = look.first
         /\ UNCHANGED <<height, chain, net, row>>
  <1>1. look \in Look
    BY DEF LooksAreSound, TypeOK
  <1>2. look' = [look EXCEPT !.at = step] /\ UNCHANGED row
    BY DEF GoesTo
  <1>3. UNCHANGED <<height, chain, net>>
    BY DEF Quiet
  <1> QED
    BY <1>1, <1>2, <1>3, NextStep

LEMMA LooksUpInnerSound == LooksAreSound /\ LooksUpInner => LooksAreSound'
  <1> SUFFICES ASSUME LooksAreSound, LooksUpInner PROVE LooksAreSound'
    OBVIOUS
  <1>1. PICK s \in Rpcs : InnerHash(s)
    BY DEF LooksUpInner
  <1>2. look.at = "inner" /\ Quiet
    BY DEF LooksUpInner
  <1>3. /\ look \in Look /\ LookFits /\ TypeOK /\ row.state = "open"
        /\ DriverFrame /\ (net'.exposed => row.public)
    BY <1>2, QuietFrame DEF LooksAreSound, TypeOK, LookFits
  <1>4. CASE FindsInner(s) /\ chain.ok /\ Completes("succeeded", FALSE)
    <2>1. Moved /\ chain.used <= height
      BY <1>4, SuccessMoved
    <2> QED
      BY <1>3, <1>4, <2>1, ConcludeSound
  <1>5. CASE FindsInner(s) /\ ~chain.ok /\ LearnsFailure(look.why)
    <2>1. chain.landed # 0 /\ chain.landed <= height
      BY <1>3, <1>5, Numbers, FoundIsClosed DEF FindsInner
    <2>2. CASE look.why # "none"
      <3>1. look.why \in {"expired", "released", "rejected", "first", "conflict", "failure"}
        BY <1>3, <2>2 DEF Look
      <3>2. /\ look.why \in {"rejected", "first"} => net.refused
            /\ look.why = "first" => look.first
            /\ look.why = "conflict" => chain.rival # 0
        BY <1>2, <1>3 DEF LookFits
      <3> QED
        BY <1>2, <1>5, <2>1, <3>1, <3>2, FailureSound
    <2>3. CASE look.why = "none"
      BY <1>2, <1>3, <2>3 DEF LookFits
    <2> QED
      BY <2>2, <2>3
  <1>6. CASE ~FindsInner(s) /\ s.at < look.floor /\ DecidesLater
    BY <1>2, <1>6, DecidesLaterSound DEF Proved, Steps
  <1>7. CASE /\ ~FindsInner(s) /\ s.at >= look.floor
             /\ look' = [look EXCEPT !.at = "nonce", !.kept = @ /\ Covers(s)]
             /\ UNCHANGED row
    <2>1. Covers(s) \in BOOLEAN /\ look.kept \in BOOLEAN
      BY <1>3 DEF Covers, Look
    <2>2. /\ look' \in Look /\ look'.at = "nonce" /\ look'.why = look.why
          /\ look'.asks = look.asks /\ look'.seen = look.seen
          /\ look'.floor = look.floor /\ look'.from = look.from
          /\ look'.took = look.took /\ look'.first = look.first
          /\ look'.kept = (look.kept /\ Covers(s))
      BY <1>3, <1>7, <2>1 DEF Look, Steps
    <2>3. UNCHANGED <<height, chain, net, row>>
      BY <1>2, <1>7 DEF Quiet
    <2>4. look'.kept => chain.landed = 0 \/ chain.landed > look.floor
      <3>1. Covers(s) => chain.landed = 0 \/ chain.landed > s.at
        BY <1>3, <1>7, CoveredIsComplete
      <3>2. chain.landed \in Nat /\ look.floor \in Nat /\ s.at \in Nat
        <4>1. s.at \in 1..height /\ height \in Nat
          BY <1>3, Numbers, RpcRange
        <4> QED
          BY <1>3, <4>1, Numbers
      <3>3. look'.kept => Covers(s)
        BY <2>2, Zenon
      <3>4. s.at >= look.floor
        BY <1>7
      <3> QED
        BY <3>1, <3>2, <3>3, <3>4
    <2>5. LookFits'
      BY <1>2, <1>3, <2>2, <2>3, <2>4 DEF LookFits
    <2> QED
      BY <1>3, <2>2, <2>3, <2>5, StepSound
  <1> QED
    BY <1>1, <1>4, <1>5, <1>6, <1>7 DEF InnerHash

LEMMA ReadsNonceSound == LooksAreSound /\ ReadsNonce => LooksAreSound'
  <1> SUFFICES ASSUME LooksAreSound, ReadsNonce PROVE LooksAreSound'
    OBVIOUS
  <1>1. PICK s \in Rpcs : Nonce(s)
    BY DEF ReadsNonce
  <1>2. look.at = "nonce" /\ Quiet
    BY DEF ReadsNonce
  <1>3. /\ look \in Look /\ LookFits /\ TypeOK /\ ChainFits /\ row.state = "open"
        /\ DriverFrame /\ (net'.exposed => row.public)
    BY <1>2, QuietFrame DEF LooksAreSound, TypeOK, LookFits
  <1>4. CASE ReadsNonceUsed(s) /\ SearchesFor("landing", s)
    BY <1>2, <1>4, SearchSound
  <1>5. CASE DecidesLater
    BY <1>2, <1>5, DecidesLaterSound DEF Proved, Steps
  <1>6. CASE /\ ~ReadsNonceUsed(s) /\ s.at >= look.floor
             /\ ~(s.at <= Expiration /\ OthersCanCarry)
             /\ ~(s.at > Expiration /\ ~look.kept)
             /\ FindsAbsent
    <2>1. ASSUME Legible,
                 \/ OthersCanCarry
                 \/ look.floor >= LastLedger
                 \/ chain.rival # 0
                 \/ net.refused /\ ~net.exposed
          PROVE  Unpayable
      BY <1>2, <1>6, <2>1, AbsentIsUnpayable
    <2>2. /\ look.floor \in Nat /\ look.seen \in Nat /\ LastLedger \in Nat
      BY <1>3, Numbers
    <2>3. CASE look.why = "expired" /\ Completes("expired", FALSE)
      <3>1. look.floor >= LastLedger
        BY <1>2, <1>3, <2>2, <2>3 DEF LookFits
      <3> QED
        BY <1>3, <2>1, <2>3, <3>1, ConcludeSound
    <2>4. CASE look.why = "released" /\ GoesTo("account")
      <3>1. "account" \in Steps
        BY DEF Steps
      <3>2. /\ look' \in Look /\ look'.at = "account" /\ look'.why = look.why
            /\ look'.asks = look.asks /\ look'.seen = look.seen
            /\ look'.floor = look.floor /\ look'.from = look.from
            /\ look'.took = look.took /\ look'.first = look.first
            /\ UNCHANGED <<height, chain, net, row>>
        BY <1>2, <2>4, <3>1, GoesToFacts
      <3>3. LookFits'
        BY <1>2, <1>3, <3>2 DEF LookFits
      <3> QED
        BY <1>3, <3>2, <3>3, StepSound
    <2>5. CASE look.why = "rejected" /\ GoesTo("weigh")
      <3>1. "weigh" \in Steps
        BY DEF Steps
      <3>2. /\ look' \in Look /\ look'.at = "weigh" /\ look'.why = look.why
            /\ look'.asks = look.asks /\ look'.seen = look.seen
            /\ look'.floor = look.floor /\ look'.from = look.from
            /\ look'.took = look.took /\ look'.first = look.first
            /\ UNCHANGED <<height, chain, net, row>>
        BY <1>2, <2>5, <3>1, GoesToFacts
      <3>3. Legible /\ (OthersCanCarry \/ look.seen >= LastLedger) => Unpayable
        <4>1. look.seen <= look.floor
          BY <1>2, <1>3 DEF LookFits
        <4> QED
          BY <2>1, <2>2, <4>1
      <3>4. (Legible /\ (OthersCanCarry \/ look.seen >= LastLedger) => Unpayable)'
        BY <3>2, <3>3 DEF Legible, OthersCanCarry, Unpayable, Moved, NeverLands, SequenceFree
      <3>5. LookFits'
        BY <1>2, <1>3, <2>5, <3>2, <3>4 DEF LookFits
      <3> QED
        BY <1>3, <3>2, <3>5, StepSound
    <2>6. CASE look.why \in {"first", "conflict"} /\ Completes("failed", TRUE)
      <3>1. /\ chain.rival # 0 \/ (net.refused /\ ~net.exposed)
            /\ chain.landed = 0
        BY <1>2, <1>3, <2>6 DEF LookFits, ChainFits
      <3>2. NeverCharged
        BY <3>1 DEF NeverCharged, SequenceFree
      <3>3. NeverCharged'
        BY <1>2, <3>2 DEF NeverCharged, SequenceFree, Quiet
      <3> QED
        BY <1>3, <2>1, <2>6, <3>1, <3>3, ConcludeSound
    <2> QED
      BY <1>6, <2>3, <2>4, <2>5, <2>6 DEF FindsAbsent
  <1> QED
    BY <1>1, <1>4, <1>5, <1>6 DEF Nonce

\* findThirdPartySettlement found no transaction that moved the payment.
LEMMA FindsNoCopySound ==
  ASSUME LooksAreSound, Quiet, look.at \in {"search", "scan"},
         NEW s \in Rpcs, NEW at \in Nat, FindsNoCopy(at),
         \/ /\ at = 0 /\ chain.used # 0
            /\ chain.used <= Claimed \/ chain.by = "burn"
         \/ at = s.at /\ ~ReadsNonceUsed(s) /\ at >= look.from
  PROVE  LooksAreSound'
  <1>1. /\ LookFits /\ TypeOK /\ ChainFits
        /\ DriverFrame /\ (net'.exposed => row.public)
    BY QuietFrame DEF LooksAreSound
  <1>2. CASE DecidesLater
    BY <1>2, DecidesLaterSound DEF Proved, Steps
  <1>3. CASE look.asks = "failure" /\ GivesBackAndLooks
    <2>1. ~SequenceFree
      BY <1>1, <1>3 DEF LookFits, SequenceFree
    <2> QED
      BY <1>3, <2>1, GivesBackSound
  <1>4. CASE /\ look.asks = "failure" /\ ~(look.cause = "nonceUsed" /\ at # 0)
             /\ ~(Lives(look.cause) /\ at # 0 /\ at <= Expiration)
             /\ Completes("failed", FALSE)
    <2>1. chain.landed # 0 /\ ~chain.ok /\ look.from = chain.landed
      BY <1>1, <1>4 DEF LookFits
    <2>2. /\ Expiration \in Nat /\ chain.landed \in Nat /\ chain.used \in Nat
          /\ s.at \in 1..height
      BY <1>1, Numbers, RpcRange
    <2>3. CASE ~OthersCanCarry
      <3>1. NeverLands
        BY <2>1 DEF NeverLands, SequenceFree
      <3> QED
        BY <1>1, <1>4, <2>1, <2>3, <3>1, NoLandingIsUnpayable, ConcludeSound
    <2>4. CASE OthersCanCarry /\ at = s.at /\ ~ReadsNonceUsed(s) /\ at >= look.from
      <3>1. at > Expiration
        <4>1. at # 0
          BY <2>2, <2>4
        <4> QED
          BY <1>4, <2>1, <2>2, <2>4, <4>1 DEF Lives
      <3>2. Legible => Unpayable
        BY <2>4, <3>1, UnusedIsUnpayable DEF Legible
      <3> QED
        BY <1>1, <1>4, <3>2, ConcludeSound
    <2>5. CASE chain.used # 0 /\ (chain.used <= Claimed \/ chain.by = "burn")
      <3>1. Unpayable
        BY <2>2, <2>5 DEF Unpayable, Moved
      <3> QED
        BY <1>1, <1>4, <3>1, ConcludeSound
    <2> QED
      BY <2>3, <2>4, <2>5
  <1> QED
    BY <1>2, <1>3, <1>4, Zenon DEF FindsNoCopy

LEMMA SearchesSound == LooksAreSound /\ Searches => LooksAreSound'
  <1> SUFFICES ASSUME LooksAreSound, Searches PROVE LooksAreSound'
    OBVIOUS
  <1>1. PICK s \in Rpcs : NonceForSearch(s)
    BY DEF Searches
  <1>2. look.at = "search" /\ Quiet
    BY DEF Searches
  <1>3. /\ LookFits /\ TypeOK
        /\ DriverFrame /\ (net'.exposed => row.public)
    BY <1>2, QuietFrame DEF LooksAreSound
  <1>4. CASE ReadsNonceUsed(s) /\ GoesTo("scan")
    <2>1. "scan" \in Steps
      BY DEF Steps
    <2>2. /\ look' \in Look /\ look'.at = "scan" /\ look'.why = look.why
          /\ look'.asks = look.asks /\ look'.seen = look.seen
          /\ look'.floor = look.floor /\ look'.from = look.from
          /\ look'.took = look.took /\ look'.first = look.first
          /\ UNCHANGED <<height, chain, net, row>>
      BY <1>2, <1>4, <2>1, GoesToFacts
    <2>3. LookFits'
      BY <1>2, <1>3, <2>2 DEF LookFits
    <2> QED
      BY <1>3, <2>2, <2>3, StepSound
  <1>5. CASE DecidesLater
    BY <1>2, <1>5, DecidesLaterSound DEF Proved, Steps
  <1>6. CASE ~ReadsNonceUsed(s) /\ s.at >= look.from /\ FindsNoCopy(s.at)
    <2>1. s.at \in Nat
      BY <1>3, RpcRange, Numbers
    <2> QED
      BY <1>2, <1>6, <2>1, FindsNoCopySound
  <1> QED
    BY <1>1, <1>4, <1>5, <1>6 DEF NonceForSearch

LEMMA ScansSound == LooksAreSound /\ Scans => LooksAreSound'
  <1> SUFFICES ASSUME LooksAreSound, Scans PROVE LooksAreSound'
    OBVIOUS
  <1>1. PICK s \in Rpcs : ScanOf(s)
    BY DEF Scans
  <1>2. look.at = "scan" /\ Quiet
    BY DEF Scans
  <1>3. /\ LookFits /\ TypeOK /\ ChainFits /\ chain \in Chain
        /\ DriverFrame /\ (net'.exposed => row.public)
    BY <1>2, QuietFrame DEF LooksAreSound, TypeOK
  <1>4. CASE ~Finds(s, chain.used) /\ DecidesLater
    BY <1>2, <1>4, DecidesLaterSound DEF Proved, Steps
  <1>5. CASE Finds(s, chain.used)
    <2>1. chain.used \in Nat /\ chain.used # 0 /\ chain.used \in 1..height
      BY <1>3, <1>5, FoundIsClosed, Numbers
    <2>2. CASE (chain.used <= Claimed \/ chain.by = "burn") /\ FindsNoCopy(0)
      BY <1>2, <2>1, <2>2, FindsNoCopySound
    <2>3. CASE ~(chain.used <= Claimed \/ chain.by = "burn") /\ Completes("succeeded", FALSE)
      <3>1. chain.by \in {"inner", "copy"}
        BY <1>3, <2>1, <2>3 DEF ChainFits, Chain
      <3>2. Moved /\ chain.used <= height
        BY <2>1, <2>3, <3>1 DEF Moved
      <3> QED
        BY <1>3, <2>3, <3>2, ConcludeSound
    <2> QED
      BY <1>1, <1>5, <2>2, <2>3 DEF ScanOf
  <1> QED
    BY <1>1, <1>4, <1>5 DEF ScanOf

LEMMA WeighsSound == LooksAreSound /\ Weighs => LooksAreSound'
  <1> SUFFICES ASSUME LooksAreSound, Weighs PROVE LooksAreSound'
    OBVIOUS
  <1>1. /\ look.at = "weigh" /\ Quiet
        /\ \E public \in IF calm THEN {row.public} ELSE {row.public, TRUE} :
             IF public /\ ~OthersCanCarry /\ look.seen < LastLedger THEN LooksAgain
             ELSE Completes("failed", ~public)
    BY Zenon DEF Weighs
  <1>2. PICK public \in IF calm THEN {row.public} ELSE {row.public, TRUE} :
          IF public /\ ~OthersCanCarry /\ look.seen < LastLedger THEN LooksAgain
          ELSE Completes("failed", ~public)
    BY <1>1, Zenon
  <1>3. /\ LookFits /\ TypeOK /\ ChainFits /\ row \in Row
        /\ DriverFrame /\ (net'.exposed => row.public)
    BY <1>1, QuietFrame DEF LooksAreSound, TypeOK
  <1>4. public \in BOOLEAN /\ (~public => ~row.public)
    BY <1>3 DEF Row
  <1>5. CASE LooksAgain
    BY <1>1, <1>5, LooksAgainSound
  <1>6. CASE /\ ~(public /\ ~OthersCanCarry /\ look.seen < LastLedger)
             /\ Completes("failed", ~public)
    <2>1. net.refused
      BY <1>1, <1>3 DEF LookFits
    <2>2. ~public => ~net.exposed /\ chain.landed = 0
      BY <1>3, <1>4 DEF ChainFits
    <2>3. ~public => NeverCharged'
      BY <1>1, <2>1, <2>2 DEF NeverCharged, SequenceFree, Quiet
    <2>4. look.seen \in Nat /\ LastLedger \in Nat
      BY <1>3, Numbers
    <2>5. Legible => Unpayable
      <3>1. CASE OthersCanCarry \/ look.seen >= LastLedger
        BY <1>1, <1>3, <3>1 DEF LookFits
      <3>2. CASE ~public /\ ~OthersCanCarry
        <4>1. NeverLands
          BY <2>1, <2>2, <3>2 DEF NeverLands
        <4> QED
          BY <2>2, <3>2, <4>1, NoLandingIsUnpayable
      <3> QED
        BY <1>6, <2>4, <3>1, <3>2
    <2>6. (~public) \in BOOLEAN
      BY <1>4
    <2> QED
      BY <1>3, <1>6, <2>3, <2>5, <2>6, ConcludeSound
  <1> QED
    BY <1>2, <1>5, <1>6, Zenon

LEMMA ReadsAccountSound == LooksAreSound /\ ReadsAccount => LooksAreSound'
  <1> SUFFICES ASSUME LooksAreSound, ReadsAccount PROVE LooksAreSound'
    OBVIOUS
  <1>1. PICK s \in Rpcs :
          IF ReadsSequenceTaken(s)
          THEN /\ look' = [look EXCEPT !.at = "ownAgain", !.why = "conflict",
                                       !.took = s.at]
               /\ UNCHANGED row
          ELSE LooksAgain
    BY DEF ReadsAccount
  <1>2. look.at = "account" /\ Quiet
    BY DEF ReadsAccount
  <1>3. /\ LookFits /\ TypeOK /\ look \in Look
        /\ DriverFrame /\ (net'.exposed => row.public)
    BY <1>2, QuietFrame DEF LooksAreSound, TypeOK
  <1>4. CASE ~ReadsSequenceTaken(s)
    BY <1>1, <1>2, <1>4, LooksAgainSound
  <1>5. CASE ReadsSequenceTaken(s)
    <2>1. /\ look' = [look EXCEPT !.at = "ownAgain", !.why = "conflict", !.took = s.at]
          /\ UNCHANGED row
      BY <1>1, <1>5
    <2>2. s.at \in 1..height /\ height \in 1..Horizon /\ Horizon \in Nat
      BY <1>3, RpcRange, Numbers
    <2>3. s.at \in Ledger
      BY <2>2 DEF Ledger
    <2>4. /\ look' \in Look /\ look'.at = "ownAgain" /\ look'.why = "conflict"
          /\ look'.asks = look.asks /\ look'.seen = look.seen
          /\ look'.floor = look.floor /\ look'.from = look.from
          /\ look'.took = s.at /\ look'.first = look.first
      BY <1>3, <2>1, <2>3 DEF Look, Steps
    <2>5. UNCHANGED <<height, chain, net>>
      BY <1>2 DEF Quiet
    <2>6. \/ chain.landed # 0 /\ chain.landed <= s.at
          \/ chain.rival # 0 /\ chain.rival <= s.at
      BY <1>5 DEF ReadsSequenceTaken, Reached
    <2>7. LookFits'
      BY <1>2, <1>3, <2>1, <2>2, <2>4, <2>5, <2>6 DEF LookFits
    <2> QED
      BY <1>3, <2>1, <2>4, <2>7, StepSound
  <1> QED
    BY <1>4, <1>5

LEMMA LooksUpAgainSound == LooksAreSound /\ LooksUpAgain => LooksAreSound'
  <1> SUFFICES ASSUME LooksAreSound, LooksUpAgain PROVE LooksAreSound'
    OBVIOUS
  <1>1. look.at \in {"ownAgain", "innerAgain"} /\ Quiet
    BY DEF LooksUpAgain
  <1>2. PICK s \in Rpcs :
          LET found == IF look.at = "ownAgain" THEN FindsOwn(s) ELSE FindsInner(s)
          IN  IF found \/ ~Excludes(s) THEN LooksAgain
              ELSE GoesTo(IF look.at = "ownAgain" THEN "innerAgain" ELSE "sends")
    BY DEF LooksUpAgain
  <1>3. /\ LookFits /\ TypeOK /\ ChainFits
        /\ DriverFrame /\ (net'.exposed => row.public)
    BY <1>1, QuietFrame DEF LooksAreSound
  <1>4. CASE LooksAgain
    BY <1>1, <1>4, LooksAgainSound
  <1>5. CASE look.at = "ownAgain" /\ GoesTo("innerAgain")
    <2>1. "innerAgain" \in Steps
      BY DEF Steps
    <2>2. /\ look' \in Look /\ look'.at = "innerAgain" /\ look'.why = look.why
          /\ look'.asks = look.asks /\ look'.seen = look.seen
          /\ look'.floor = look.floor /\ look'.from = look.from
          /\ look'.took = look.took /\ look'.first = look.first
          /\ UNCHANGED <<height, chain, net, row>>
      BY <1>1, <1>5, <2>1, GoesToFacts
    <2>3. LookFits'
      BY <1>3, <1>5, <2>2 DEF LookFits
    <2> QED
      BY <1>3, <2>2, <2>3, StepSound
  <1>6. CASE look.at = "innerAgain" /\ ~FindsInner(s) /\ Excludes(s) /\ GoesTo("sends")
    <2>1. "sends" \in Steps
      BY DEF Steps
    <2>2. /\ look' \in Look /\ look'.at = "sends" /\ look'.why = look.why
          /\ look'.asks = look.asks /\ look'.seen = look.seen
          /\ look'.floor = look.floor /\ look'.from = look.from
          /\ look'.took = look.took /\ look'.first = look.first
          /\ UNCHANGED <<height, chain, net, row>>
      BY <1>1, <1>6, <2>1, GoesToFacts
    <2>3. chain.rival # 0
      <3>1. s.at >= look.took /\ (chain.landed = 0 \/ chain.landed > s.at)
        BY <1>3, <1>6, CoveredIsComplete DEF Excludes
      <3>2. /\ s.at \in Nat /\ look.took \in Nat /\ chain.landed \in Nat
        <4>1. s.at \in 1..height /\ height \in Nat
          BY <1>3, RpcRange, Numbers
        <4> QED
          BY <1>3, <4>1, Numbers
      <3> QED
        BY <1>3, <1>6, <3>1, <3>2 DEF LookFits
    <2>4. LookFits'
      BY <1>3, <1>6, <2>2, <2>3 DEF LookFits
    <2> QED
      BY <1>3, <2>2, <2>4, StepSound
  <1> QED
    BY <1>1, <1>2, <1>4, <1>5, <1>6

LEMMA ReadsSendsSound == LooksAreSound /\ ReadsSends => LooksAreSound'
  <1> SUFFICES ASSUME LooksAreSound, ReadsSends PROVE LooksAreSound'
    OBVIOUS
  <1>1. /\ look.at = "sends" /\ Quiet /\ UNCHANGED row
        /\ look' = IF row.public \/ OthersCanCarry
                   THEN [look EXCEPT !.at = "inner", !.kept = look.covered,
                           !.floor = IF look.seen > look.took THEN look.seen
                                     ELSE look.took]
                   ELSE [look EXCEPT !.at = "unseen"]
    BY Zenon DEF ReadsSends
  <1>2. /\ LookFits /\ TypeOK /\ look \in Look
        /\ DriverFrame /\ (net'.exposed => row.public)
    BY <1>1, QuietFrame DEF LooksAreSound, TypeOK
  <1>3. UNCHANGED <<height, chain, net>>
    BY <1>1 DEF Quiet
  <1>4. look.seen \in Nat /\ look.took \in Nat /\ height \in Nat
    BY <1>2, Numbers
  <1>5. CASE row.public \/ OthersCanCarry
    <2> DEFINE floor == IF look.seen > look.took THEN look.seen ELSE look.took
    <2>1. look' = [look EXCEPT !.at = "inner", !.kept = look.covered, !.floor = floor]
      BY <1>1, <1>5, Zenon
    <2>2. floor \in Ledger /\ look.seen <= floor /\ floor \in 0..height
      <3>1. look.seen \in Ledger /\ look.took \in Ledger
        BY <1>2 DEF Look
      <3>2. {look.seen, look.took} \subseteq 0..height
        BY <1>2 DEF LookFits
      <3> QED
        BY <1>4, <3>1, <3>2
    <2> HIDE DEF floor
    <2>3. /\ look' \in Look /\ look'.at = "inner" /\ look'.why = look.why
          /\ look'.asks = look.asks /\ look'.seen = look.seen
          /\ look'.floor = floor /\ look'.from = look.from
          /\ look'.took = look.took /\ look'.first = look.first
      BY <1>2, <2>1, <2>2 DEF Look, Steps
    <2>4. LookFits'
      BY <1>1, <1>2, <1>3, <2>2, <2>3 DEF LookFits
    <2> QED
      BY <1>1, <1>2, <2>3, <2>4, StepSound
  <1>6. CASE ~(row.public \/ OthersCanCarry)
    <2>1. look' = [look EXCEPT !.at = "unseen"]
      BY <1>1, <1>6, Zenon
    <2>2. /\ look' \in Look /\ look'.at = "unseen" /\ look'.why = look.why
          /\ look'.asks = look.asks /\ look'.seen = look.seen
          /\ look'.floor = look.floor /\ look'.from = look.from
          /\ look'.took = look.took /\ look'.first = look.first
      BY <1>2, <2>1 DEF Look, Steps
    <2>3. ~OthersCanCarry'
      BY <1>1, <1>6 DEF OthersCanCarry
    <2>4. LookFits'
      BY <1>1, <1>2, <1>3, <2>2, <2>3 DEF LookFits
    <2> QED
      BY <1>1, <1>2, <2>2, <2>4, StepSound
  <1> QED
    BY <1>5, <1>6

LEMMA ReadsNonceUnseenSound == LooksAreSound /\ ReadsNonceUnseen => LooksAreSound'
  <1> SUFFICES ASSUME LooksAreSound, ReadsNonceUnseen PROVE LooksAreSound'
    OBVIOUS
  <1>1. PICK s \in Rpcs : NonceUnseen(s)
    BY DEF ReadsNonceUnseen
  <1>2. look.at = "unseen" /\ Quiet
    BY DEF ReadsNonceUnseen
  <1>3. /\ LookFits /\ ChainFits
        /\ DriverFrame /\ (net'.exposed => row.public)
    BY <1>2, QuietFrame DEF LooksAreSound
  <1>4. CASE DecidesLater
    BY <1>2, <1>4, DecidesLaterSound DEF Proved, Steps
  <1>5. CASE SearchesFor("unseen", s)
    BY <1>2, <1>5, SearchSound
  <1>6. CASE Completes("failed", TRUE)
    <2>1. chain.rival # 0 /\ chain.landed = 0 /\ ~OthersCanCarry
      BY <1>2, <1>3 DEF LookFits, ChainFits
    <2>2. NeverLands
      BY <2>1 DEF NeverLands, SequenceFree
    <2>3. Unpayable
      BY <2>1, <2>2, NoLandingIsUnpayable
    <2>4. NeverCharged'
      BY <1>2, <2>1 DEF NeverCharged, SequenceFree, Quiet
    <2> QED
      BY <1>3, <1>6, <2>3, <2>4, ConcludeSound
  <1> QED
    BY <1>1, <1>4, <1>5, <1>6 DEF NonceUnseen

\* What interrupts a look, and who else sends.
LEMMA InterruptsSound ==
  LooksAreSound /\ (ReadFails \/ StartsOver \/ OthersSend) => LooksAreSound'
  <1> SUFFICES ASSUME LooksAreSound, ReadFails \/ StartsOver \/ OthersSend
               PROVE  LooksAreSound'
    OBVIOUS
  <1>1. /\ TypeOK /\ LookFits /\ ChainFits /\ row \in Row /\ look \in Look
        /\ net \in [exposed : BOOLEAN, refused : BOOLEAN]
    BY DEF LooksAreSound, TypeOK
  <1>2. CASE ReadFails
    <2>1. look.at \in Proved
      BY <1>2 DEF ReadFails, Proved, Steps
    <2> QED
      BY <1>2, <2>1, DecidesLaterSound DEF ReadFails
  <1>3. CASE StartsOver
    <2>1. /\ row.state = "open" /\ look' = NewLook(row.released)
          /\ UNCHANGED row /\ Quiet
      BY <1>3 DEF StartsOver
    <2>2. DriverFrame /\ (net'.exposed => row.public)
      BY <2>1, QuietFrame
    <2>3. RowFrame /\ row.released \in BOOLEAN
      BY <1>1, <2>1, <2>2 DEF RowFrame, Row
    <2> QED
      BY <2>1, <2>2, <2>3, RestartSound
  <1>4. CASE OthersSend
    <2>1. /\ row.state = "open" /\ ~look.first
          /\ row' = [row EXCEPT !.public = TRUE]
          /\ net' = [net EXCEPT !.exposed = @ \/ CanAccept]
          /\ UNCHANGED <<height, chain, look, calm>>
      BY <1>4, Zenon DEF OthersSend
    <2>2. (net.exposed \/ CanAccept) \in BOOLEAN
      BY <1>1 DEF CanAccept
    <2>3. /\ net' \in [exposed : BOOLEAN, refused : BOOLEAN]
          /\ net'.exposed = (net.exposed \/ CanAccept)
          /\ net'.refused = net.refused
      BY <1>1, <2>1, <2>2
    <2>4. /\ row' \in Row /\ row'.scheme = row.scheme /\ row'.public
          /\ row'.released = row.released /\ row'.state = row.state
          /\ row'.free = row.free
      BY <1>1, <2>1 DEF Row
    <2>5. DriverFrame /\ RowFrame
      BY <2>1, <2>3, <2>4, Zenon DEF DriverFrame, RowFrame
    <2>6. /\ TypeOK' /\ ChainFits' /\ (Unpayable => Unpayable')
          /\ (OthersCanCarry' <=> OthersCanCarry) /\ (Legible' <=> Legible)
      BY <1>1, <2>1, <2>5, FrameFits
    <2>7. AnswerFits'
      BY <1>1, <2>1, <2>4, <2>5, AnswerKept
    <2>8. LookFits'
      BY <1>1, <2>1, <2>3, <2>4, <2>6 DEF LookFits
    <2> QED
      BY <2>6, <2>7, <2>8 DEF LooksAreSound
  <1> QED
    BY <1>2, <1>3, <1>4

-----------------------------------------------------------------------------
(* The theorems.                                                             *)

LEMMA StepsSound == LooksAreSound /\ [Next]_vars => LooksAreSound'
  <1> SUFFICES ASSUME LooksAreSound, [Next]_vars PROVE LooksAreSound'
    OBVIOUS
  <1>1. CASE UNCHANGED vars
    BY <1>1 DEF vars, LooksAreSound, TypeOK, ChainFits, LookFits, AnswerFits,
      Unpayable, NeverLands, Moved, SequenceFree, OthersCanCarry, Legible
  <1>2. CASE Network
    BY <1>2, NetworkSound
  <1>3. CASE Driver
    BY <1>3, LooksUpSound, SendsSound, SendBadSequenceSound, SendRefusedSound,
      LooksUpInnerSound, ReadsNonceSound, SearchesSound, ScansSound, WeighsSound,
      ReadsAccountSound, LooksUpAgainSound, ReadsSendsSound, ReadsNonceUnseenSound
      DEF Driver
  <1>4. CASE ReadFails \/ StartsOver \/ OthersSend
    BY <1>4, InterruptsSound
  <1> QED
    BY <1>1, <1>2, <1>3, <1>4 DEF Next

\* Every step of every look rests on what the reads before it proved, however
\* old and short-sighted the RPCs are and whatever happens between two reads.
THEOREM LooksSound == Spec => []LooksAreSound
  <1>1. Init => LooksAreSound
    BY StartSound
  <1>2. LooksAreSound /\ [Next]_vars => LooksAreSound'
    BY StepsSound
  <1> QED
    BY <1>1, <1>2, PTL DEF Spec

\* The variables keep to their types (the parts of a row and of a look that
\* engine.ts passes on).
THEOREM LooksTypeCorrect == Spec => []TypeOK
  <1>1. LooksAreSound => TypeOK
    BY DEF LooksAreSound
  <1> QED
    BY <1>1, LooksSound, PTL

\* A payment answered failed or expired never moves, not even later, in
\* anybody's transaction (landing, finishFailed, finishSequenceTaken).
THEOREM UnpaidForGood ==
  ASSUME NonceOutlastsLooks
  PROVE  Spec => []UnpaidIsUnpaid
  <1>1. LooksAreSound => UnpaidIsUnpaid
    BY DEF LooksAreSound, AnswerFits, UnpaidIsUnpaid, Unpayable, Legible
  <1> QED
    BY <1>1, LooksSound, PTL

\* A payment answered as settled did move, in a closed ledger, after the claim
\* (findThirdPartySettlement, drive).
THEOREM PaidForGood == Spec => []PaidIsPaid
  <1>1. LooksAreSound => PaidIsPaid
    BY DEF LooksAreSound, AnswerFits, PaidIsPaid
  <1> QED
    BY <1>1, LooksSound, PTL

\* A channel is given back while the payment's outcome waits only once the
\* recorded bytes can never apply (giveBackChannel).
THEOREM GivenBackForGood == Spec => []GivenBackIsDead
  <1>1. LooksAreSound => GivenBackIsDead
    BY DEF LooksAreSound, AnswerFits, GivenBackIsDead
  <1> QED
    BY <1>1, LooksSound, PTL

\* A settlement finished as never charged never lands in Rail402's own fee bump
\* (feeChargedStroops: 0n).
THEOREM FreeForGood == Spec => []FreeIsFree
  <1>1. LooksAreSound => FreeIsFree
    BY DEF LooksAreSound, AnswerFits, FreeIsFree
  <1> QED
    BY <1>1, LooksSound, PTL

\* For an upto payment, which only the recorded transaction can carry, that
\* needs no assumption about how long a used nonce's entry lives: the history
\* that both NOT_FOUNDs cover proves as much.
THEOREM UptoUnpaidForGood == Spec => [](row.scheme = "upto" => UnpaidIsUnpaid)
  <1>1. LooksAreSound => (row.scheme = "upto" => UnpaidIsUnpaid)
    BY DEF LooksAreSound, AnswerFits, UnpaidIsUnpaid, Unpayable, Legible, OthersCanCarry
  <1> QED
    BY <1>1, LooksSound, PTL

-----------------------------------------------------------------------------
(* The provider pool.                                                        *)

\* A set of providers has a first one.
LEMMA FirstExists ==
  ASSUME NEW S \in SUBSET Index, S # {}
  PROVE  FirstOf(S) \in S /\ \A j \in S : FirstOf(S) <= j
  <1>1. PICK R : R = OpToRel(<, Nat)
    OBVIOUS
  <1>2. IsWellFoundedOn(R, Nat)
    BY <1>1, NatLessThanWellFounded
  <1>3. S \subseteq Nat
    BY ProvidersAssumption DEF Index
  <1>4. PICK x \in S : \A y \in S : <<y, x>> \notin R
    BY <1>2, <1>3, WFMin
  <1>5. \A y \in S : ~(y < x)
    BY <1>1, <1>3, <1>4 DEF OpToRel
  <1>6. \A y \in S : x <= y
    BY <1>3, <1>5
  <1> QED
    BY <1>6 DEF FirstOf

LEMMA RpcNumbers ==
  /\ Providers \in Nat \ {0} /\ FailAfter \in Nat \ {0} /\ RecoverAfter \in Nat \ {0}
  /\ Most \in Nat \ {0} /\ FailAfter <= Most /\ RecoverAfter <= Most
  /\ Index = 1..Providers /\ 1 \in Index /\ \A i \in Index : i \in Nat /\ 1 <= i
  BY ProvidersAssumption DEF Most, Index

LEMMA CountsUp ==
  ASSUME NEW n \in 0..Most
  PROVE  /\ Plus(n) \in 0..Most /\ 0 \in 0..Most
         /\ \A m \in Nat : m <= Most /\ m - 1 <= n => m <= Plus(n)
  BY RpcNumbers DEF Plus

LEMMA RpcStarts == RpcInit => RpcSound
  <1> SUFFICES ASSUME RpcInit PROVE RpcSound
    OBVIOUS
  <1>1. /\ active = 1 /\ unhealthy = [i \in Index |-> 0] /\ healthy = [i \in Index |-> 0]
        /\ up = [i \in Index |-> TRUE] /\ recent = <<>>
    BY DEF RpcInit
  <1>2. RpcTypeOK /\ up \in [Index -> BOOLEAN]
    BY <1>1, RpcNumbers DEF RpcTypeOK
  <1>3. recent \in Seq(Reading) /\ Len(recent) = 0
    BY <1>1, EmptySeq
  <1>4. CountsFit
    BY <1>3 DEF CountsFit
  <1>5. ActiveIsJustified
    BY <1>3, RpcNumbers DEF ActiveIsJustified, LastReadings
  <1> QED
    BY <1>2, <1>3, <1>4, <1>5, RpcNumbers DEF RpcSound

\* The readings after one more, of which the oldest may go.
LEMMA Remembered ==
  ASSUME recent \in Seq(Reading), Len(recent) <= Most, NEW e \in Reading,
         recent' = SubSeq(<<e>> \o recent, 1,
                          IF Len(recent) < Most THEN Len(recent) + 1 ELSE Most)
  PROVE  /\ recent' \in Seq(Reading) /\ Len(recent') <= Most /\ Len(recent') \in Nat \ {0}
         /\ Len(recent') <= Len(recent) + 1
         /\ recent'[1] = e /\ \A k \in 2..Len(recent') : recent'[k] = recent[k - 1]
  <1> DEFINE s == <<e>> \o recent
             n == IF Len(recent) < Most THEN Len(recent) + 1 ELSE Most
  <1>1. Len(recent) \in Nat /\ n \in Nat \ {0} /\ n <= Most /\ n <= Len(recent) + 1
    BY RpcNumbers
  <1>2. <<e>> \in Seq(Reading) /\ Len(<<e>>) = 1 /\ <<e>>[1] = e
    OBVIOUS
  <1>3. /\ s \in Seq(Reading) /\ Len(s) = Len(recent) + 1
        /\ \A k \in 1..Len(recent) + 1 : s[k] = IF k = 1 THEN e ELSE recent[k - 1]
    BY <1>1, <1>2, ConcatProperties
  <1> HIDE DEF s, n
  <1>4. /\ SubSeq(s, 1, n) \in Seq(Reading) /\ Len(SubSeq(s, 1, n)) = n
        /\ \A k \in 1..n : SubSeq(s, 1, n)[k] = s[k]
    BY <1>1, <1>3
  <1>5. recent' = SubSeq(s, 1, n)
    BY DEF s, n
  <1>6. recent' \in Seq(Reading) /\ Len(recent') = n /\ \A k \in 1..n : recent'[k] = s[k]
    BY <1>4, <1>5
  <1>7. recent'[1] = e
    <2>1. 1 \in 1..n /\ 1 \in 1..Len(recent) + 1
      BY <1>1
    <2> QED
      BY <1>3, <1>6, <2>1
  <1>8. ASSUME NEW k \in 2..n PROVE recent'[k] = recent[k - 1]
    <2>1. k \in 1..n /\ k \in 1..Len(recent) + 1 /\ k # 1
      BY <1>1, <1>8
    <2> QED
      BY <1>3, <1>6, <2>1
  <1> QED
    BY <1>1, <1>6, <1>7, <1>8

LEMMA PollKeeps == ASSUME RpcSound, PollsProviders PROVE RpcSound'
  <1> DEFINE good == HealthyAfter(up)
             bad == UnhealthyAfter(up)
             e == [reading |-> up, active |-> active]
  <1>1. /\ active \in Index /\ unhealthy \in [Index -> 0..Most] /\ healthy \in [Index -> 0..Most]
        /\ up \in [Index -> BOOLEAN] /\ recent \in Seq(Reading) /\ Len(recent) <= Most
        /\ CountsFit /\ ActiveIsJustified
    BY DEF RpcSound, RpcTypeOK
  <1>2. /\ healthy' = good /\ UNCHANGED up
        /\ recent' = SubSeq(<<e>> \o recent, 1,
                            IF Len(recent) < Most THEN Len(recent) + 1 ELSE Most)
        /\ \/ /\ Recovered(good) # {}
              /\ SwitchTo(FirstOf(Recovered(good)), bad)
           \/ /\ Recovered(good) = {} /\ bad[active] >= FailAfter /\ Alternatives(good) # {}
              /\ SwitchTo(FirstOf(Alternatives(good)), bad)
           \/ /\ Recovered(good) = {} /\ (bad[active] < FailAfter \/ Alternatives(good) = {})
              /\ unhealthy' = bad /\ UNCHANGED active
    BY DEF PollsProviders, Observes
  <1>3. /\ good \in [Index -> 0..Most] /\ bad \in [Index -> 0..Most]
        /\ \A i \in Index : /\ good[i] = IF up[i] THEN Plus(healthy[i]) ELSE 0
                            /\ bad[i] = IF up[i] THEN 0 ELSE Plus(unhealthy[i])
    BY <1>1, CountsUp DEF HealthyAfter, UnhealthyAfter
  <1> HIDE DEF good, bad
  <1>4. e \in Reading /\ e.reading = up /\ e.active = active
    BY <1>1 DEF Reading
  <1> HIDE DEF e
  <1>5. /\ recent' \in Seq(Reading) /\ Len(recent') <= Most /\ Len(recent') \in Nat \ {0}
        /\ Len(recent') <= Len(recent) + 1 /\ Len(recent) \in Nat
        /\ recent'[1] = e /\ \A k \in 2..Len(recent') : recent'[k] = recent[k - 1]
    <2>1. Len(recent) \in Nat
      BY <1>1, LenProperties
    <2> QED
      BY <1>1, <1>2, <1>4, <2>1, Remembered
  <1>6. ASSUME NEW i \in Index, NEW m \in 1..Len(recent'),
               \A k \in 1..m : recent'[k].reading[i]
        PROVE  m <= good[i]
    <2>1. up[i]
      BY <1>4, <1>5, <1>6
    <2>2. m - 1 <= healthy[i]
      <3>1. CASE m = 1
        BY <1>1, <3>1, RpcNumbers
      <3>2. CASE m # 1
        <4>1. m - 1 \in 1..Len(recent)
          BY <1>5, <3>2
        <4>2. ASSUME NEW k \in 1..m - 1 PROVE recent[k].reading[i]
          <5>1. k + 1 \in 2..Len(recent') /\ k + 1 \in 1..m /\ k + 1 - 1 = k
            BY <1>5
          <5> QED
            BY <1>5, <1>6, <5>1
        <4> QED
          BY <1>1, <4>1, <4>2 DEF CountsFit
      <3> QED
        BY <3>1, <3>2
    <2>3. m \in Nat /\ m <= Most
      BY <1>5, RpcNumbers
    <2> QED
      BY <1>1, <1>3, <2>1, <2>2, <2>3, CountsUp
  <1>7. ASSUME active' = active, NEW m \in 1..Len(recent'),
               \A k \in 1..m : recent'[k].active = active /\ ~recent'[k].reading[active]
        PROVE  m <= bad[active] /\ ~up[active]
    <2>1. ~up[active]
      BY <1>4, <1>5, <1>7
    <2>2. m - 1 <= unhealthy[active]
      <3>1. CASE m = 1
        BY <1>1, <3>1, RpcNumbers
      <3>2. CASE m # 1
        <4>1. m - 1 \in 1..Len(recent)
          BY <1>5, <3>2
        <4>2. ASSUME NEW k \in 1..m - 1
              PROVE  recent[k].active = active /\ ~recent[k].reading[active]
          <5>1. k + 1 \in 2..Len(recent') /\ k + 1 \in 1..m /\ k + 1 - 1 = k
            BY <1>5
          <5> QED
            BY <1>5, <1>7, <5>1
        <4> QED
          BY <1>1, <4>1, <4>2 DEF CountsFit
      <3> QED
        BY <3>1, <3>2
    <2>3. m \in Nat /\ m <= Most
      BY <1>5, RpcNumbers
    <2> QED
      BY <1>1, <1>3, <2>1, <2>2, <2>3, CountsUp
  <1>8. ASSUME NEW S \in SUBSET (Index \ {active}), S # {}, SwitchTo(FirstOf(S), bad)
        PROVE  /\ active' \in Index /\ active' # active /\ unhealthy' \in [Index -> 0..Most]
               /\ active' \in S /\ \A j \in S : active' <= j
    <2>1. FirstOf(S) \in S /\ \A j \in S : FirstOf(S) <= j
      BY <1>8, FirstExists
    <2>2. active' = FirstOf(S) /\ unhealthy' = [bad EXCEPT ![FirstOf(S)] = 0]
      BY <1>8 DEF SwitchTo
    <2> QED
      BY <1>3, <2>1, <2>2, RpcNumbers
  <1>9. \/ /\ Recovered(good) # {} /\ active' \in Index /\ active' # active
           /\ unhealthy' \in [Index -> 0..Most]
           /\ active' \in Recovered(good) /\ \A j \in Recovered(good) : active' <= j
        \/ /\ Recovered(good) = {} /\ bad[active] >= FailAfter /\ Alternatives(good) # {}
           /\ active' \in Index /\ active' # active /\ unhealthy' \in [Index -> 0..Most]
        \/ /\ Recovered(good) = {} /\ (bad[active] < FailAfter \/ Alternatives(good) = {})
           /\ unhealthy' = bad /\ active' = active
    <2>1. Recovered(good) \in SUBSET (Index \ {active})
      BY <1>1, RpcNumbers DEF Recovered
    <2>2. Alternatives(good) \in SUBSET (Index \ {active})
      BY DEF Alternatives
    <2> QED
      BY <1>2, <1>8, <2>1, <2>2
  <1>10. RpcTypeOK'
    BY <1>1, <1>2, <1>3, <1>9 DEF RpcTypeOK
  <1>11. CountsFit'
    <2>1. ASSUME NEW m \in 1..Len(recent'),
                 \A k \in 1..m : recent'[k].active = active' /\ ~recent'[k].reading[active']
          PROVE  m <= unhealthy'[active']
      <3>1. active' = active
        BY <1>4, <1>5, <2>1
      <3> QED
        BY <1>7, <1>9, <2>1, <3>1
    <2> QED
      BY <1>2, <1>6, <2>1 DEF CountsFit
  <1>12. ActiveIsJustified'
    <2>1. ASSUME Len(recent') >= FailAfter,
                 \A k \in 1..FailAfter : recent'[k].active = active' /\ ~recent'[k].reading[active'],
                 NEW i \in Index
          PROVE  ~recent'[1].reading[i]
      <3>1. 1 \in 1..FailAfter /\ FailAfter \in 1..Len(recent')
        BY <1>5, <2>1, RpcNumbers
      <3>2. active' = active
        BY <1>4, <1>5, <2>1, <3>1
      <3>3. FailAfter <= bad[active] /\ ~up[active]
        BY <1>7, <2>1, <3>1, <3>2
      <3>4. Alternatives(good) = {}
        BY <1>1, <1>3, <1>9, <3>2, <3>3, RpcNumbers
      <3>5. CASE i = active
        BY <1>4, <1>5, <3>3, <3>5
      <3>6. CASE i # active
        <4>1. ~(good[i] > 0)
          BY <3>4, <3>6 DEF Alternatives
        <4>2. ~up[i]
          <5>1. healthy[i] \in Nat
            BY <1>1
          <5>2. Plus(healthy[i]) \in Nat \ {0}
            BY <5>1, RpcNumbers DEF Plus
          <5>3. good[i] = IF up[i] THEN Plus(healthy[i]) ELSE 0
            BY <1>3
          <5> QED
            BY <4>1, <5>2, <5>3
        <4> QED
          BY <1>4, <1>5, <4>2
      <3> QED
        BY <3>5, <3>6
    <2>2. ASSUME Len(recent') >= RecoverAfter, \A k \in 1..RecoverAfter : recent'[k].reading[1]
          PROVE  active' = 1
      <3>1. 1 \in 1..RecoverAfter /\ RecoverAfter \in 1..Len(recent')
        BY <1>5, <2>2, RpcNumbers
      <3>2. RecoverAfter <= good[1]
        BY <1>6, <2>2, <3>1, RpcNumbers
      <3>3. up[1]
        BY <1>4, <1>5, <2>2, <3>1
      <3>4. CASE active = 1
        <4>1. Recovered(good) = {}
          BY <3>4, RpcNumbers DEF Recovered
        <4>2. bad[active] = 0
          BY <1>3, <3>3, <3>4, RpcNumbers
        <4>3. ~(bad[active] >= FailAfter)
          BY <4>2, RpcNumbers
        <4> QED
          BY <1>9, <3>4, <4>1, <4>3
      <3>5. CASE active # 1
        <4>1. 1 \in Recovered(good)
          BY <1>1, <1>3, <3>2, <3>5, RpcNumbers DEF Recovered
        <4> QED
          BY <1>9, <4>1, RpcNumbers
      <3> QED
        BY <3>4, <3>5
    <2> QED
      BY <2>1, <2>2 DEF ActiveIsJustified, LastReadings
  <1> QED
    BY <1>1, <1>2, <1>5, <1>10, <1>11, <1>12 DEF RpcSound

LEMMA RpcStep == RpcSound /\ [RpcNext]_rpcVars => RpcSound'
  <1> SUFFICES ASSUME RpcSound, [RpcNext]_rpcVars PROVE RpcSound'
    OBVIOUS
  <1>1. CASE PollsProviders
    BY <1>1, PollKeeps
  <1>2. ASSUME UNCHANGED <<active, unhealthy, healthy, recent>>, up' \in [Index -> BOOLEAN]
        PROVE  RpcSound'
    BY <1>2 DEF RpcSound, RpcTypeOK, CountsFit, ActiveIsJustified, LastReadings
  <1>3. up \in [Index -> BOOLEAN]
    BY DEF RpcSound
  <1>4. CASE (\E i \in Index : Breaks(i)) \/ SettlesDown \/ UNCHANGED rpcVars
    BY <1>2, <1>3, <1>4 DEF Breaks, SettlesDown, rpcVars
  <1> QED
    BY <1>1, <1>4 DEF RpcNext

\* The counters are never behind the remembered readings and the active provider
\* is justified by them, for any number of providers and any thresholds (RpcSound:
\* rpc-pool.ts, observe).
THEOREM RpcStaysSound == RpcSpec => []RpcSound
  BY RpcStarts, RpcStep, PTL DEF RpcSpec

\* The pool does not stay with a provider that it read as broken FailAfter times
\* in a row while another one answered, and is back at the first one once that
\* answered RecoverAfter times in a row, for any number of providers and any
\* thresholds (ActiveIsJustified: rpc-pool.ts, observe).
THEOREM ActiveForGood == RpcSpec => []ActiveIsJustified
  <1>1. RpcSound => ActiveIsJustified
    BY DEF RpcSound
  <1> QED
    BY <1>1, RpcStaysSound, PTL

================================================================================
