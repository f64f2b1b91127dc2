------------------------------- MODULE Payment -------------------------------
(***************************************************************************)
(* What a facilitator promises about every payment (network, payer,        *)
(* nonce), whatever replicas, drivers, lost answers and crashes are behind *)
(* it: it is settled by one transaction at most, its verdict is the one    *)
(* the network gave, no verdict is given while the network may still       *)
(* change its mind, and everyone who is told a verdict is told that one.   *)
(***************************************************************************)
CONSTANT Payments

VARIABLES
  phase,  \* what the facilitator made of a payment
  money,  \* what became of its signed transaction
  told    \* the verdicts clients were given

Verdicts == {"succeeded", "failed", "expired"}
Phases == {"open", "claimed", "signed"} \cup Verdicts

Init ==
  /\ phase = [k \in Payments |-> "open"]
  /\ money = [k \in Payments |-> "none"]
  /\ told = [k \in Payments |-> {}]

Claim(k) ==
  /\ phase[k] = "open"
  /\ phase' = [phase EXCEPT ![k] = "claimed"]
  /\ UNCHANGED <<money, told>>

\* Nothing was signed: the payment may be settled again as it is.
Drop(k) ==
  /\ phase[k] = "claimed"
  /\ phase' = [phase EXCEPT ![k] = "open"]
  /\ UNCHANGED <<money, told>>

\* A transaction may be signed that can never apply (its sequence number is
\* used up by then).
Sign(k) ==
  /\ phase[k] = "claimed" /\ money[k] = "none"
  /\ phase' = [phase EXCEPT ![k] = "signed"]
  /\ \E fate \in {"pending", "kept"} : money' = [money EXCEPT ![k] = fate]
  /\ UNCHANGED told

\* The network applies the transaction, or can never apply it any more.
Land(k) ==
  /\ money[k] = "pending"
  /\ \E fate \in {"moved", "kept"} : money' = [money EXCEPT ![k] = fate]
  /\ UNCHANGED <<phase, told>>

\* A verdict needs the network's, unless the payment needs no transaction.
Fits(k, verdict) ==
  IF phase[k] = "claimed" THEN verdict = "succeeded" /\ money[k] = "none"
                          ELSE /\ phase[k] = "signed"
                               /\ money[k] = IF verdict = "succeeded" THEN "moved"
                                                                      ELSE "kept"

Decide(k, verdict) ==
  /\ Fits(k, verdict)
  /\ phase' = [phase EXCEPT ![k] = verdict]
  /\ \/ UNCHANGED told
     \/ told' = [told EXCEPT ![k] = {verdict}]
  /\ UNCHANGED money

Tell(k) ==
  /\ phase[k] \in Verdicts
  /\ told' = [told EXCEPT ![k] = {phase[k]}]
  /\ UNCHANGED <<phase, money>>

vars == <<phase, money, told>>

\* Most steps of a facilitator change nothing here.
Idle == UNCHANGED vars

Next ==
  \/ Idle
  \/ \E k \in Payments :
       \/ Claim(k) \/ Drop(k) \/ Sign(k) \/ Land(k) \/ Tell(k)
       \/ \E verdict \in Verdicts : Decide(k, verdict)

Spec == Init /\ [][Next]_vars
=============================================================================
