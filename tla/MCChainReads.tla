----------------------------- MODULE MCChainReads -----------------------------
(* Confirmation and RpcPool, which share no state: a behaviour is about one of *)
(* them, and the other stays at a start of its own.                            *)
EXTENDS MCConfirmation, RpcPool

VARIABLE subject

chainVars == <<vars, rpcVars, subject>>

Parked == Init /\ row.scheme = "exact" /\ net.exposed /\ chain.used = 0

ChainInit ==
  /\ RpcInit
  /\ \/ subject = "confirm" /\ Init
     \/ subject = "rpc" /\ Parked

OfConfirm(A) == subject = "confirm" /\ A /\ UNCHANGED <<rpcVars, subject>>
OfRpc(A) == subject = "rpc" /\ A /\ UNCHANGED <<vars, subject>>

ChainNext == OfConfirm(Next) \/ OfRpc(RpcNext)

\* The fairness of FairSpec and of RpcSpec.
ChainSpec ==
  /\ ChainInit /\ [][ChainNext]_chainVars
  /\ WF_chainVars(OfConfirm(ClosesLedger))
  /\ WF_chainVars(OfConfirm(CalmsDown))
  /\ WF_chainVars(OfConfirm(Driver))
  /\ WF_chainVars(OfRpc(PollsProviders))

\* EventuallyDecided, of drive and reconcile.
DecidedEventually == subject = "confirm" => EventuallyDecided
===============================================================================
