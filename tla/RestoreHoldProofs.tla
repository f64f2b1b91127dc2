-------------------------- MODULE RestoreHoldProofs --------------------------
(***************************************************************************)
(* Proofs about RestoreHold: the hold counts from a ledger no lower than   *)
(* the chain was at when the settlement ledger was restored, but for the   *)
(* slack, whichever run of whichever replica's poll recorded it.           *)
(***************************************************************************)
EXTENDS RestoreHold, TLAPS

LEMMA HoldNumbers ==
  /\ Window \in Nat /\ Slack \in Nat /\ FreshFor \in Nat /\ FirstTip \in Nat
  /\ HoldEnd \in Nat /\ MaxLies \in Nat
  /\ \A r \in HoldReplicas : Behind[r] \in 0..Slack
  /\ Undefined \notin Nat /\ Undefined \notin Tips
  /\ Tips \subseteq Nat /\ HoldTips \subseteq Int /\ CloseTimes \subseteq Int
  /\ Lags \subseteq Nat /\ 0 \in Lags /\ HoldTips \ {Undefined} = Tips
  /\ \A lag \in Lags : lag = 0 \/ lag - 1 \in Lags
  /\ \A p \in Polls : p[1] \in HoldReplicas /\ p[2] \in PollRuns
  <1>1. /\ Window \in Nat /\ Slack \in Nat /\ FreshFor \in Nat /\ FirstTip \in Nat
        /\ HoldEnd \in Nat /\ MaxLies \in Nat
    BY RestoreHoldAssumption
  <1>2. \A r \in HoldReplicas : Behind[r] \in 0..Slack
    BY RestoreHoldAssumption
  <1>3. \A p \in Polls : p[1] \in HoldReplicas /\ p[2] \in PollRuns
    BY DEF Polls
  <1>4. /\ Undefined \notin Nat /\ Undefined \notin Tips
        /\ Tips \subseteq Nat /\ HoldTips \subseteq Int /\ CloseTimes \subseteq Int
        /\ HoldTips \ {Undefined} = Tips
    BY <1>1 DEF Undefined, Tips, HoldTips, CloseTimes
  <1>5. /\ Lags \subseteq Nat /\ 0 \in Lags /\ \A lag \in Lags : lag = 0 \/ lag - 1 \in Lags
    BY <1>1 DEF Lags
  <1> QED
    BY <1>1, <1>2, <1>3, <1>4, <1>5

\* The types, one run and one node at a time.
PollFits(x) ==
  /\ x \in [at : {"none", "probe", "observe", "anchor", "record", "restart"},
            latest : HoldTips, closedAt : CloseTimes, seen : HoldTips, ledger : HoldTips]
  /\ x.latest - x.closedAt <= FirstTip
  /\ x.at = "anchor" => x.latest # Undefined
  /\ x.at \in {"record", "restart"} => x.ledger # Undefined

NodeFits(x) == x \in Node /\ x.latest - x.closedAt <= FirstTip

ClockFits ==
  /\ tick \in 0..HoldEnd /\ rewind \in Rewind
  /\ lost \in Tips \cup {Undefined} \cup 0..FirstTip + HoldEnd + Window
  /\ flight \in [HoldReplicas -> PollRuns \cup {Undefined}]
  /\ lies \in 0..MaxLies /\ resets \in 0..1

LedgersFit ==
  /\ ledgers \in [tip : Tips, closed : [Lags -> CloseTimes]]
  /\ ledgers.tip <= FirstTip + tick
  /\ \A lag \in Lags : ledgers.tip - lag - ledgers.closed[lag] <= FirstTip

IsTable(f, S) == f = [x \in S |-> f[x]]

LEMMA TypeParts ==
  HoldTypeFits <=>
    /\ ClockFits /\ LedgersFit
    /\ IsTable(node, HoldReplicas) /\ \A r \in HoldReplicas : NodeFits(node[r])
    /\ IsTable(polling, Polls) /\ \A p \in Polls : PollFits(polling[p])
  <1> DEFINE T == [at : {"none", "probe", "observe", "anchor", "record", "restart"},
                  latest : HoldTips, closedAt : CloseTimes, seen : HoldTips, ledger : HoldTips]
  <1>1. node \in [HoldReplicas -> Node] <=>
          IsTable(node, HoldReplicas) /\ \A r \in HoldReplicas : node[r] \in Node
    BY DEF IsTable
  <1>2. polling \in [Polls -> T] <=>
          IsTable(polling, Polls) /\ \A p \in Polls : polling[p] \in T
    BY DEF IsTable
  <1>3. ledgers \in [tip : Tips, closed : [Lags -> CloseTimes]] => ledgers.tip \in Tips
    OBVIOUS
  <1> HIDE DEF T
  <1>4. ASSUME HoldTypeFits
        PROVE  /\ ClockFits /\ LedgersFit
               /\ IsTable(node, HoldReplicas) /\ \A r \in HoldReplicas : NodeFits(node[r])
    BY <1>4, <1>1, Zenon DEF HoldTypeFits, HoldTypeOK, ClockFits, LedgersFit, NodeFits
  <1>5. ASSUME HoldTypeFits
        PROVE  IsTable(polling, Polls) /\ \A p \in Polls : PollFits(polling[p])
    BY <1>5, <1>2, Zenon DEF HoldTypeFits, PollFits, T
  <1>6. ASSUME ClockFits, LedgersFit,
               IsTable(node, HoldReplicas), \A r \in HoldReplicas : NodeFits(node[r]),
               IsTable(polling, Polls), \A p \in Polls : PollFits(polling[p])
        PROVE  HoldTypeFits
    <2>1. HoldTypeOK
      BY <1>6, <1>1, <1>3, Zenon DEF HoldTypeOK, ClockFits, LedgersFit, NodeFits
    <2>2. polling \in [Polls -> T]
      BY <1>6, <1>2, Zenon DEF PollFits, T
    <2> QED
      BY <2>1, <2>2, <1>6, Zenon DEF HoldTypeFits, LedgersFit, NodeFits, PollFits, T
  <1> QED
    BY <1>4, <1>5, <1>6

LEMMA FirstFits == PollFits(Stopped) /\ NodeFits(FirstNode)
  <1>1. 0 \in CloseTimes /\ Undefined \in HoldTips
    BY HoldNumbers DEF CloseTimes, HoldTips
  <1>2. Undefined - 0 <= FirstTip
    BY HoldNumbers DEF Undefined
  <1>3. Stopped.latest = Undefined /\ Stopped.closedAt = 0 /\ Stopped.at = "none"
    BY DEF Stopped
  <1>4. PollFits(Stopped)
    BY <1>1, <1>2, <1>3 DEF PollFits, Stopped
  <1>5. FirstNode \in Node
    BY <1>1 DEF FirstNode, Node, HoldTips, CloseTimes
  <1>6. FirstNode.latest = Undefined /\ FirstNode.closedAt = 0
    BY DEF FirstNode
  <1> QED
    BY <1>2, <1>4, <1>5, <1>6 DEF NodeFits

\* A step moves one node, or one run, and leaves the others.
LEMMA NodeMoves ==
  ASSUME HoldTypeFits, NEW r \in HoldReplicas, NEW x, NodeFits(x), node' = [node EXCEPT ![r] = x]
  PROVE  /\ IsTable(node, HoldReplicas)' /\ (\A q \in HoldReplicas : NodeFits(node[q]))'
         /\ node'[r] = x /\ \A q \in HoldReplicas \ {r} : node'[q] = node[q]
  <1>1. IsTable(node, HoldReplicas) /\ \A q \in HoldReplicas : NodeFits(node[q])
    BY TypeParts
  <1>2. IsTable(node', HoldReplicas)
    BY <1>1 DEF IsTable
  <1>3. node'[r] = x /\ \A q \in HoldReplicas \ {r} : node'[q] = node[q]
    BY <1>1 DEF IsTable
  <1>4. \A q \in HoldReplicas : NodeFits(node'[q])
    BY <1>1, <1>3, Zenon
  <1> QED
    BY <1>2, <1>3, <1>4 DEF IsTable, NodeFits

LEMMA RunMoves ==
  ASSUME HoldTypeFits, NEW p \in Polls, NEW x, PollFits(x), polling' = [polling EXCEPT ![p] = x]
  PROVE  /\ IsTable(polling, Polls)' /\ (\A q \in Polls : PollFits(polling[q]))'
         /\ polling'[p] = x /\ \A q \in Polls \ {p} : polling'[q] = polling[q]
  <1>1. IsTable(polling, Polls) /\ \A q \in Polls : PollFits(polling[q])
    BY TypeParts
  <1>2. IsTable(polling', Polls)
    BY <1>1 DEF IsTable
  <1>3. polling'[p] = x /\ \A q \in Polls \ {p} : polling'[q] = polling[q]
    BY <1>1 DEF IsTable
  <1>4. \A q \in Polls : PollFits(polling'[q])
    BY <1>1, <1>3, Zenon
  <1> QED
    BY <1>2, <1>3, <1>4 DEF IsTable, PollFits

LEMMA OneNodeFits ==
  ASSUME HoldTypeFits, NEW r \in HoldReplicas
  PROVE  /\ NodeFits(node[r]) /\ node[r] \in Node
         /\ [node[r] EXCEPT !.rpcHealthy = FALSE] \in Node
         /\ \A b \in BOOLEAN, l \in HoldTips, c \in CloseTimes :
              l - c <= FirstTip =>
                NodeFits([node[r] EXCEPT !.rpcHealthy = b, !.latest = l, !.closedAt = c])
         /\ \A s \in HoldTips : NodeFits([node[r] EXCEPT !.seen = s])
         /\ NodeFits([node[r] EXCEPT !.rpcHealthy = FALSE])
  <1>1. NodeFits(node[r])
    BY TypeParts
  <1>2. node[r] \in [rpcHealthy : BOOLEAN, latest : HoldTips, closedAt : CloseTimes, seen : HoldTips]
    BY <1>1 DEF NodeFits, Node, HoldTips, CloseTimes
  <1>3. Node = [rpcHealthy : BOOLEAN, latest : HoldTips, closedAt : CloseTimes, seen : HoldTips]
    BY DEF Node, HoldTips, CloseTimes
  <1>4. ASSUME NEW b \in BOOLEAN, NEW l \in HoldTips, NEW c \in CloseTimes, l - c <= FirstTip
        PROVE  NodeFits([node[r] EXCEPT !.rpcHealthy = b, !.latest = l, !.closedAt = c])
    BY <1>2, <1>3, <1>4 DEF NodeFits
  <1>5. ASSUME NEW s \in HoldTips PROVE NodeFits([node[r] EXCEPT !.seen = s])
    BY <1>1, <1>2, <1>3 DEF NodeFits
  <1>6. NodeFits([node[r] EXCEPT !.rpcHealthy = FALSE])
    BY <1>1, <1>2, <1>3 DEF NodeFits
  <1> QED
    BY <1>1, <1>4, <1>5, <1>6 DEF NodeFits

\* Remembers, and a run that ends.
LEMMA RemembersFits ==
  ASSUME HoldTypeFits, NEW p \in Polls, NEW s \in HoldTips, Remembers(p, s)
  PROVE  /\ IsTable(node, HoldReplicas)' /\ (\A q \in HoldReplicas : NodeFits(node[q]))'
         /\ node'[p[1]] = [node[p[1]] EXCEPT !.seen = s]
         /\ \A q \in HoldReplicas \ {p[1]} : node'[q] = node[q]
  <1>1. p[1] \in HoldReplicas
    BY HoldNumbers
  <1> DEFINE x == [node[p[1]] EXCEPT !.seen = s]
  <1>2. NodeFits(x)
    BY <1>1, OneNodeFits
  <1>3. node' = [node EXCEPT ![p[1]] = x]
    BY DEF Remembers
  <1> HIDE DEF x
  <1>4. /\ IsTable(node, HoldReplicas)' /\ (\A q \in HoldReplicas : NodeFits(node[q]))'
        /\ node'[p[1]] = x /\ \A q \in HoldReplicas \ {p[1]} : node'[q] = node[q]
    BY <1>1, <1>2, <1>3, NodeMoves
  <1> QED
    BY <1>4 DEF x

LEMMA EndsFits ==
  ASSUME HoldTypeFits, NEW p \in Polls, Ends(p)
  PROVE  /\ IsTable(polling, Polls)' /\ (\A q \in Polls : PollFits(polling[q]))'
         /\ polling'[p] = Stopped /\ (\A q \in Polls \ {p} : polling'[q] = polling[q])
         /\ flight' \in [HoldReplicas -> PollRuns \cup {Undefined}]
         /\ \A r \in HoldReplicas :
              flight'[r] = flight[r] \/ (r = p[1] /\ flight[r] = p[2])
  <1>1. polling' = [polling EXCEPT ![p] = Stopped]
    BY DEF Ends
  <1>2. /\ IsTable(polling, Polls)' /\ (\A q \in Polls : PollFits(polling[q]))'
        /\ polling'[p] = Stopped /\ (\A q \in Polls \ {p} : polling'[q] = polling[q])
    BY <1>1, FirstFits, RunMoves
  <1>3. flight \in [HoldReplicas -> PollRuns \cup {Undefined}]
    BY TypeParts DEF ClockFits
  <1>4. flight' = IF flight[p[1]] = p[2] THEN [flight EXCEPT ![p[1]] = Undefined] ELSE flight
    BY DEF Ends, Unblocks
  <1>5. p[1] \in HoldReplicas
    BY HoldNumbers
  <1>6. flight' \in [HoldReplicas -> PollRuns \cup {Undefined}]
    BY <1>3, <1>4, Zenon
  <1>7. ASSUME NEW r \in HoldReplicas
        PROVE  flight'[r] = flight[r] \/ (r = p[1] /\ flight[r] = p[2])
    BY <1>3, <1>4, <1>5
  <1> QED
    BY <1>2, <1>6, <1>7, Zenon

\* Aims fits: no chain has more ledgers than its time lets close.
LEMMA AimsFits ==
  ASSUME HoldTypeFits, NEW p \in Polls, NEW at \in {"record", "restart"}, Aims(p, at),
         polling[p].at = "anchor"
  PROVE  /\ IsTable(polling, Polls)' /\ (\A q \in Polls : PollFits(polling[q]))'
         /\ polling'[p].at = at
         /\ polling'[p].ledger = ReachableLedger(polling[p].latest, polling[p].closedAt, Clock(p[1]))
         /\ polling'[p].ledger \in Tips
         /\ \A q \in Polls \ {p} : polling'[q] = polling[q]
  <1> DEFINE l == ReachableLedger(polling[p].latest, polling[p].closedAt, Clock(p[1]))
             x == [polling[p] EXCEPT !.at = at, !.ledger = l]
  <1>1. PollFits(polling[p]) /\ ClockFits
    BY TypeParts
  <1>2. /\ polling[p].latest \in Tips /\ polling[p].closedAt \in CloseTimes
        /\ polling[p].latest - polling[p].closedAt <= FirstTip
    BY <1>1, HoldNumbers DEF PollFits
  <1>3. Clock(p[1]) \in Int /\ Clock(p[1]) <= HoldEnd
    BY <1>1, HoldNumbers DEF Clock, ClockFits
  <1>4. l \in Tips
    <2>1. ASSUME NEW t \in Nat, NEW c \in Int, NEW n \in Int, t <= FirstTip + HoldEnd,
                 n <= HoldEnd, t - c <= FirstTip
          PROVE  t + (IF n > c THEN n - c ELSE 0) \in 0..FirstTip + HoldEnd
      BY <2>1, HoldNumbers
    <2>2. polling[p].latest \in Nat /\ polling[p].latest <= FirstTip + HoldEnd
      BY <1>2, HoldNumbers DEF Tips
    <2>3. polling[p].closedAt \in Int
      BY <1>2, HoldNumbers
    <2> QED
      BY <2>1, <2>2, <2>3, <1>2, <1>3 DEF ReachableLedger, Tips
  <1>5. polling' = [polling EXCEPT ![p] = x]
    BY DEF Aims
  <1> HIDE DEF l
  <1>6. l \in HoldTips /\ l # Undefined
    BY <1>4, HoldNumbers
  <1>7. PollFits(x) /\ x.at = at /\ x.ledger = l
    BY <1>1, <1>6 DEF PollFits
  <1> HIDE DEF x
  <1>8. /\ IsTable(polling, Polls)' /\ (\A q \in Polls : PollFits(polling[q]))'
        /\ polling'[p] = x /\ \A q \in Polls \ {p} : polling'[q] = polling[q]
    BY <1>5, <1>7, RunMoves
  <1> QED
    BY <1>4, <1>7, <1>8 DEF l

-----------------------------------------------------------------------------
(* Each action keeps the types; what it does to the run and the node.        *)

LEMMA KeepsTypes ==
  ASSUME HoldTypeFits, UNCHANGED <<tick, ledgers, lost, resets>>,
         rewind' \in Rewind, lies' \in 0..MaxLies,
         flight' \in [HoldReplicas -> PollRuns \cup {Undefined}],
         IsTable(node, HoldReplicas)', (\A r \in HoldReplicas : NodeFits(node[r]))',
         IsTable(polling, Polls)', (\A p \in Polls : PollFits(polling[p]))'
  PROVE  HoldTypeFits'
  <1>1. ClockFits /\ LedgersFit
    BY TypeParts
  <1>2. ClockFits' /\ LedgersFit'
    BY <1>1 DEF ClockFits, LedgersFit
  <1>3. TypeParts'
    BY TypeParts, PTL
  <1> QED
    BY <1>2, <1>3

LEMMA SameNodes ==
  ASSUME HoldTypeFits, UNCHANGED node
  PROVE  IsTable(node, HoldReplicas)' /\ (\A r \in HoldReplicas : NodeFits(node[r]))'
  <1>1. IsTable(node, HoldReplicas) /\ \A r \in HoldReplicas : NodeFits(node[r])
    BY TypeParts
  <1> QED
    BY <1>1 DEF IsTable, NodeFits

LEMMA SameRuns ==
  ASSUME HoldTypeFits, UNCHANGED polling
  PROVE  IsTable(polling, Polls)' /\ (\A p \in Polls : PollFits(polling[p]))'
  <1>1. IsTable(polling, Polls) /\ \A p \in Polls : PollFits(polling[p])
    BY TypeParts
  <1> QED
    BY <1>1 DEF IsTable, PollFits

\* A run goes on to the probe or to what follows it.
LEMMA GoesOn ==
  ASSUME HoldTypeFits, NEW p \in Polls, NEW at \in {"probe", "observe"},
         polling' = [polling EXCEPT ![p].at = at]
  PROVE  /\ IsTable(polling, Polls)' /\ (\A q \in Polls : PollFits(polling[q]))'
         /\ polling'[p].at = at /\ \A q \in Polls \ {p} : polling'[q] = polling[q]
  <1> DEFINE x == [polling[p] EXCEPT !.at = at]
  <1>1. PollFits(polling[p])
    BY TypeParts
  <1>2. PollFits(x) /\ x.at = at
    BY <1>1 DEF PollFits
  <1>3. polling' = [polling EXCEPT ![p] = x]
    OBVIOUS
  <1> HIDE DEF x
  <1>4. /\ IsTable(polling, Polls)' /\ (\A q \in Polls : PollFits(polling[q]))'
        /\ polling'[p] = x /\ \A q \in Polls \ {p} : polling'[q] = polling[q]
    BY <1>2, <1>3, RunMoves
  <1> QED
    BY <1>2, <1>4

LEMMA StartsPollDoes ==
  ASSUME HoldTypeFits, NEW p \in Polls, StartsPoll(p)
  PROVE  /\ HoldTypeFits' /\ UNCHANGED <<tick, ledgers, rewind, lost, node, lies>>
         /\ polling'[p].at = "probe" /\ (\A q \in Polls \ {p} : polling'[q] = polling[q])
         /\ flight[p[1]] = Undefined /\ flight'[p[1]] = p[2]
         /\ \A r \in HoldReplicas \ {p[1]} : flight'[r] = flight[r]
  <1>1. /\ flight[p[1]] = Undefined /\ flight' = [flight EXCEPT ![p[1]] = p[2]]
        /\ polling' = [polling EXCEPT ![p].at = "probe"]
        /\ UNCHANGED <<tick, ledgers, rewind, lost, node, lies, resets>>
    BY DEF StartsPoll
  <1>2. /\ IsTable(polling, Polls)' /\ (\A q \in Polls : PollFits(polling[q]))'
        /\ polling'[p].at = "probe" /\ \A q \in Polls \ {p} : polling'[q] = polling[q]
    BY <1>1, GoesOn
  <1>3. ClockFits
    BY TypeParts
  <1>4. /\ flight' \in [HoldReplicas -> PollRuns \cup {Undefined}]
        /\ flight'[p[1]] = p[2] /\ \A r \in HoldReplicas \ {p[1]} : flight'[r] = flight[r]
    BY <1>1, <1>3, HoldNumbers DEF ClockFits
  <1>5. rewind' \in Rewind /\ lies' \in 0..MaxLies
    BY <1>1, <1>3 DEF ClockFits
  <1>6. HoldTypeFits'
    BY <1>1, <1>2, <1>4, <1>5, SameNodes, KeepsTypes
  <1> QED
    BY <1>1, <1>2, <1>4, <1>6

LEMMA OverrunsDoes ==
  ASSUME HoldTypeFits, NEW r \in HoldReplicas, Overruns(r)
  PROVE  HoldTypeFits' /\ MayOverrun /\ UNCHANGED <<tick, ledgers, rewind, lost, node, polling, lies>>
  <1>1. /\ flight' = [flight EXCEPT ![r] = Undefined] /\ MayOverrun
        /\ UNCHANGED <<tick, ledgers, rewind, lost, node, polling, lies, resets>>
    BY DEF Overruns
  <1>2. ClockFits
    BY TypeParts
  <1>3. /\ flight' \in [HoldReplicas -> PollRuns \cup {Undefined}]
        /\ rewind' \in Rewind /\ lies' \in 0..MaxLies
    BY <1>1, <1>2 DEF ClockFits
  <1>4. HoldTypeFits'
    BY <1>1, <1>3, SameNodes, SameRuns, KeepsTypes
  <1> QED
    BY <1>1, <1>4

\* What a provider answers reaches the node, and the run goes on.
LEMMA ReadsDoes ==
  ASSUME HoldTypeFits, NEW p \in Polls, NEW l \in HoldTips, NEW c \in CloseTimes,
         l - c <= FirstTip,
         node' = [node EXCEPT ![p[1]].rpcHealthy = TRUE, ![p[1]].latest = l, ![p[1]].closedAt = c],
         polling' = [polling EXCEPT ![p].at = "observe"],
         UNCHANGED <<tick, ledgers, rewind, lost, flight, resets>>, lies' \in 0..MaxLies
  PROVE  /\ HoldTypeFits'
         /\ polling'[p].at = "observe" /\ (\A q \in Polls \ {p} : polling'[q] = polling[q])
         /\ node'[p[1]].latest = l /\ node'[p[1]].closedAt = c
         /\ node'[p[1]].seen = node[p[1]].seen
         /\ \A r \in HoldReplicas \ {p[1]} : node'[r] = node[r]
  <1>1. p[1] \in HoldReplicas
    BY HoldNumbers
  <1> DEFINE x == [node[p[1]] EXCEPT !.rpcHealthy = TRUE, !.latest = l, !.closedAt = c]
  <1>2. NodeFits(x)
    BY <1>1, OneNodeFits
  <1>3. x.latest = l /\ x.closedAt = c /\ x.seen = node[p[1]].seen
    <2>1. node[p[1]] \in Node
      BY <1>1, OneNodeFits
    <2> QED
      BY <2>1 DEF Node
  <1>4. node' = [node EXCEPT ![p[1]] = x]
    OBVIOUS
  <1> HIDE DEF x
  <1>5. /\ IsTable(node, HoldReplicas)' /\ (\A q \in HoldReplicas : NodeFits(node[q]))'
        /\ node'[p[1]] = x /\ \A q \in HoldReplicas \ {p[1]} : node'[q] = node[q]
    BY <1>1, <1>2, <1>4, NodeMoves
  <1>6. /\ IsTable(polling, Polls)' /\ (\A q \in Polls : PollFits(polling[q]))'
        /\ polling'[p].at = "observe" /\ \A q \in Polls \ {p} : polling'[q] = polling[q]
    BY GoesOn
  <1>7. rewind' \in Rewind /\ flight' \in [HoldReplicas -> PollRuns \cup {Undefined}]
    BY TypeParts DEF ClockFits
  <1>8. HoldTypeFits'
    BY <1>5, <1>6, <1>7, KeepsTypes
  <1> QED
    BY <1>3, <1>5, <1>6, <1>8

LEMMA ReadsLedgerDoes ==
  ASSUME HoldTypeFits, NEW p \in Polls, ReadsLedger(p)
  PROVE  /\ HoldTypeFits' /\ UNCHANGED <<tick, ledgers, rewind, lost, flight, lies>>
         /\ polling[p].at = "probe" /\ polling'[p].at = "observe"
         /\ \A q \in Polls \ {p} : polling'[q] = polling[q]
         /\ NodeReading(p[1])' \in Reportable
         /\ node'[p[1]].seen = node[p[1]].seen
         /\ \A r \in HoldReplicas \ {p[1]} : node'[r] = node[r]
  <1>1. PICK lag \in Lags :
          /\ lag <= ledgers.tip
          /\ node' = [node EXCEPT ![p[1]].rpcHealthy = TRUE, ![p[1]].latest = ledgers.tip - lag,
                                  ![p[1]].closedAt = ledgers.closed[lag]]
    BY DEF ReadsLedger
  <1>2. /\ polling' = [polling EXCEPT ![p].at = "observe"] /\ polling[p].at = "probe"
        /\ UNCHANGED <<tick, ledgers, rewind, lost, flight, lies, resets>>
    BY DEF ReadsLedger
  <1>3. ClockFits /\ LedgersFit
    BY TypeParts
  <1>4. /\ ledgers.tip - lag \in Tips /\ ledgers.closed[lag] \in CloseTimes
        /\ ledgers.tip - lag - ledgers.closed[lag] <= FirstTip
    BY <1>1, <1>3, HoldNumbers DEF LedgersFit, Tips
  <1>5. lies' \in 0..MaxLies /\ ledgers.tip - lag \in HoldTips
    BY <1>2, <1>3, <1>4, HoldNumbers DEF ClockFits
  <1>6. /\ HoldTypeFits'
        /\ polling'[p].at = "observe" /\ (\A q \in Polls \ {p} : polling'[q] = polling[q])
        /\ node'[p[1]].latest = ledgers.tip - lag /\ node'[p[1]].closedAt = ledgers.closed[lag]
        /\ node'[p[1]].seen = node[p[1]].seen
        /\ \A r \in HoldReplicas \ {p[1]} : node'[r] = node[r]
    BY <1>1, <1>2, <1>4, <1>5, ReadsDoes
  <1>7. NodeReading(p[1])' \in Reportable
    BY <1>1, <1>6 DEF NodeReading, Reportable
  <1> QED
    BY <1>2, <1>6, <1>7

LEMMA ReadsLieDoes ==
  ASSUME HoldTypeFits, NEW p \in Polls, ReadsLie(p)
  PROVE  /\ HoldTypeFits' /\ UNCHANGED <<tick, ledgers, rewind, lost, flight>>
         /\ rewind.ledger # Undefined /\ lies < MaxLies /\ lies' = lies + 1
         /\ polling[p].at = "probe" /\ polling'[p].at = "observe"
         /\ \A q \in Polls \ {p} : polling'[q] = polling[q]
         /\ node'[p[1]].seen = node[p[1]].seen
         /\ \A r \in HoldReplicas \ {p[1]} : node'[r] = node[r]
  <1>1. /\ polling' = [polling EXCEPT ![p].at = "observe"] /\ polling[p].at = "probe"
        /\ rewind.ledger # Undefined /\ lies < MaxLies /\ lies' = lies + 1
        /\ node' = [node EXCEPT ![p[1]].rpcHealthy = TRUE, ![p[1]].latest = 0,
                                ![p[1]].closedAt = tick]
        /\ UNCHANGED <<tick, ledgers, rewind, lost, flight, resets>>
    BY DEF ReadsLie
  <1>2. ClockFits
    BY TypeParts
  <1>3. tick \in CloseTimes /\ 0 \in HoldTips /\ 0 - tick <= FirstTip /\ lies' \in 0..MaxLies
    BY <1>1, <1>2, HoldNumbers DEF ClockFits, CloseTimes, HoldTips, Tips
  <1>4. /\ HoldTypeFits'
        /\ polling'[p].at = "observe" /\ (\A q \in Polls \ {p} : polling'[q] = polling[q])
        /\ node'[p[1]].seen = node[p[1]].seen
        /\ \A r \in HoldReplicas \ {p[1]} : node'[r] = node[r]
    BY <1>1, <1>3, ReadsDoes
  <1> QED
    BY <1>1, <1>4

LEMMA FailsPollDoes ==
  ASSUME HoldTypeFits, NEW p \in Polls, FailsPoll(p)
  PROVE  /\ HoldTypeFits' /\ UNCHANGED <<tick, ledgers, rewind, lost, flight, lies>>
         /\ polling[p].at # "none" /\ polling'[p].at = "observe"
         /\ \A q \in Polls \ {p} : polling'[q] = polling[q]
         /\ ~node'[p[1]].rpcHealthy /\ NodeReading(p[1])' = NodeReading(p[1])
         /\ node'[p[1]].latest = node[p[1]].latest /\ node'[p[1]].seen = node[p[1]].seen
         /\ \A r \in HoldReplicas \ {p[1]} : node'[r] = node[r]
  <1>1. /\ polling' = [polling EXCEPT ![p].at = "observe"] /\ polling[p].at # "none"
        /\ node' = [node EXCEPT ![p[1]].rpcHealthy = FALSE]
        /\ UNCHANGED <<tick, ledgers, rewind, lost, flight, lies, resets>>
    BY DEF FailsPoll
  <1>2. p[1] \in HoldReplicas
    BY HoldNumbers
  <1> DEFINE x == [node[p[1]] EXCEPT !.rpcHealthy = FALSE]
  <1>3. NodeFits(x) /\ node[p[1]] \in Node
    BY <1>2, OneNodeFits
  <1>4. /\ x.latest = node[p[1]].latest /\ x.closedAt = node[p[1]].closedAt
        /\ x.seen = node[p[1]].seen /\ ~x.rpcHealthy
    BY <1>3 DEF Node
  <1>5. node' = [node EXCEPT ![p[1]] = x]
    BY <1>1
  <1> HIDE DEF x
  <1>6. /\ IsTable(node, HoldReplicas)' /\ (\A q \in HoldReplicas : NodeFits(node[q]))'
        /\ node'[p[1]] = x /\ \A q \in HoldReplicas \ {p[1]} : node'[q] = node[q]
    BY <1>2, <1>3, <1>5, NodeMoves
  <1>7. /\ IsTable(polling, Polls)' /\ (\A q \in Polls : PollFits(polling[q]))'
        /\ polling'[p].at = "observe" /\ \A q \in Polls \ {p} : polling'[q] = polling[q]
    BY <1>1, GoesOn
  <1>8. /\ rewind' \in Rewind /\ flight' \in [HoldReplicas -> PollRuns \cup {Undefined}]
        /\ lies' \in 0..MaxLies
    BY <1>1, TypeParts DEF ClockFits
  <1>9. HoldTypeFits'
    BY <1>1, <1>6, <1>7, <1>8, KeepsTypes
  <1> QED
    BY <1>1, <1>4, <1>6, <1>7, <1>9 DEF NodeReading

LEMMA ObservesDoes ==
  ASSUME HoldTypeFits, NEW p \in Polls, Observes(p)
  PROVE  /\ HoldTypeFits' /\ UNCHANGED <<tick, ledgers, rewind, lost, node, flight, lies>>
         /\ polling[p].at = "observe" /\ node[p[1]].rpcHealthy /\ node[p[1]].latest # Undefined
         /\ polling'[p].at = "anchor" /\ RunReading(p)' = NodeReading(p[1])
         /\ polling'[p].seen = node[p[1]].seen
         /\ \A q \in Polls \ {p} : polling'[q] = polling[q]
  <1> DEFINE n == node[p[1]]
             x == [polling[p] EXCEPT !.at = "anchor", !.latest = n.latest,
                                     !.closedAt = n.closedAt, !.seen = n.seen]
  <1>1. /\ polling[p].at = "observe" /\ n.rpcHealthy /\ n.latest # Undefined
        /\ polling' = [polling EXCEPT ![p] = x]
        /\ UNCHANGED <<tick, ledgers, rewind, lost, node, flight, lies, resets>>
    BY DEF Observes
  <1>2. NodeFits(n) /\ n \in Node
    BY HoldNumbers, OneNodeFits
  <1>3. PollFits(polling[p])
    BY TypeParts
  <1>4. /\ n.latest \in HoldTips /\ n.closedAt \in CloseTimes /\ n.seen \in HoldTips
        /\ n.latest - n.closedAt <= FirstTip
    BY <1>2 DEF NodeFits, Node, HoldTips, CloseTimes
  <1> HIDE DEF n
  <1>5. /\ PollFits(x) /\ x.at = "anchor" /\ x.latest = n.latest
        /\ x.closedAt = n.closedAt /\ x.seen = n.seen
    BY <1>1, <1>3, <1>4 DEF PollFits
  <1> HIDE DEF x
  <1>6. /\ IsTable(polling, Polls)' /\ (\A q \in Polls : PollFits(polling[q]))'
        /\ polling'[p] = x /\ \A q \in Polls \ {p} : polling'[q] = polling[q]
    BY <1>1, <1>5, RunMoves
  <1>7. /\ rewind' \in Rewind /\ flight' \in [HoldReplicas -> PollRuns \cup {Undefined}]
        /\ lies' \in 0..MaxLies
    BY <1>1, TypeParts DEF ClockFits
  <1>8. HoldTypeFits'
    BY <1>1, <1>6, <1>7, SameNodes, KeepsTypes
  <1>9. RunReading(p)' = NodeReading(p[1])
    BY <1>5, <1>6 DEF RunReading, NodeReading, n
  <1> QED
    BY <1>1, <1>5, <1>6, <1>8, <1>9 DEF n

LEMMA SkipsDoes ==
  ASSUME HoldTypeFits, NEW p \in Polls, SkipsObserving(p)
  PROVE  /\ HoldTypeFits' /\ UNCHANGED <<tick, ledgers, rewind, lost, node, lies>> /\ Ends(p)
  <1>1. Ends(p) /\ UNCHANGED <<tick, ledgers, rewind, lost, node, lies, resets>>
    BY DEF SkipsObserving
  <1>2. rewind' \in Rewind /\ lies' \in 0..MaxLies
    BY <1>1, TypeParts DEF ClockFits
  <1>3. HoldTypeFits'
    BY <1>1, <1>2, EndsFits, SameNodes, KeepsTypes
  <1> QED
    BY <1>1, <1>3

\* The three ways on from what is recorded.
LearnsNothing(p, s) ==
  /\ s = Undefined \/ (Low(p) /\ Passes(p) /\ ~SawItBefore(p) /\ rewind.ledger # Undefined
                       /\ MayReset /\ s = polling[p].latest)
  /\ Remembers(p, s) /\ Ends(p)

LEMMA LearnsDoes ==
  ASSUME HoldTypeFits, NEW p \in Polls, LearnsAnchor(p)
  PROVE  /\ HoldTypeFits' /\ UNCHANGED <<tick, ledgers, rewind, lost, lies>>
         /\ polling[p].at = "anchor"
         /\ \/ \E s \in HoldTips : LearnsNothing(p, s)
            \/ /\ rewind.ledger = Undefined /\ Passes(p)
               /\ Aims(p, "record") /\ UNCHANGED <<node, flight>>
            \/ /\ rewind.ledger # Undefined /\ Low(p) /\ Passes(p) /\ SawItBefore(p) /\ MayReset
               /\ Aims(p, "restart") /\ UNCHANGED <<node, flight>>
  <1>1. polling[p].at = "anchor" /\ UNCHANGED <<tick, ledgers, rewind, lost, lies, resets>>
    BY DEF LearnsAnchor
  <1>2. PollFits(polling[p])
    BY TypeParts
  <1>3. polling[p].latest \in HoldTips /\ Undefined \in HoldTips
    BY <1>2 DEF PollFits, HoldTips
  <1>4. \/ \E s \in HoldTips : LearnsNothing(p, s)
        \/ /\ rewind.ledger = Undefined /\ Passes(p)
           /\ Aims(p, "record") /\ UNCHANGED <<node, flight>>
        \/ /\ rewind.ledger # Undefined /\ Low(p) /\ Passes(p) /\ SawItBefore(p) /\ MayReset
           /\ Aims(p, "restart") /\ UNCHANGED <<node, flight>>
    BY <1>3, Zenon DEF LearnsAnchor, LearnsNothing
  <1>5. rewind' \in Rewind /\ lies' \in 0..MaxLies
    BY <1>1, TypeParts DEF ClockFits
  <1>6. CASE \E s \in HoldTips : LearnsNothing(p, s)
    <2>1. PICK s \in HoldTips : LearnsNothing(p, s)
      BY <1>6
    <2>2. HoldTypeFits'
      BY <2>1, <1>1, <1>5, RemembersFits, EndsFits, KeepsTypes DEF LearnsNothing
    <2> QED
      BY <1>1, <1>4, <2>2
  <1>7. ASSUME NEW at \in {"record", "restart"}, Aims(p, at), UNCHANGED <<node, flight>>
        PROVE  HoldTypeFits'
    <2>1. flight' \in [HoldReplicas -> PollRuns \cup {Undefined}]
      BY <1>7, TypeParts DEF ClockFits
    <2> QED
      BY <1>1, <1>5, <1>7, <2>1, AimsFits, SameNodes, KeepsTypes
  <1> QED
    BY <1>1, <1>4, <1>6, <1>7, Zenon

LEMMA RecordsDoes ==
  ASSUME HoldTypeFits, NEW p \in Polls, RecordsLedger(p)
  PROVE  /\ HoldTypeFits' /\ UNCHANGED <<tick, ledgers, lost, lies>>
         /\ polling[p].at \in {"record", "restart"} /\ Remembers(p, Undefined) /\ Ends(p)
         /\ Undefined \in HoldTips /\ polling[p].ledger \in Tips
         /\ rewind'.restored = rewind.restored
         /\ \/ rewind'.ledger = rewind.ledger /\ rewind.ledger # Undefined
            \/ rewind'.ledger = polling[p].ledger
  <1>1. /\ polling[p].at \in {"record", "restart"} /\ Remembers(p, Undefined) /\ Ends(p)
        /\ rewind' = IF RewindsTo(p) THEN [rewind EXCEPT !.ledger = polling[p].ledger] ELSE rewind
        /\ UNCHANGED <<tick, ledgers, lost, lies, resets>>
    BY DEF RecordsLedger
  <1>2. ClockFits /\ PollFits(polling[p])
    BY TypeParts
  <1>3. polling[p].ledger \in Tips /\ Undefined \in HoldTips
    BY <1>1, <1>2, HoldNumbers DEF PollFits, HoldTips
  <1>4. /\ rewind' \in Rewind /\ rewind'.restored = rewind.restored
        /\ \/ rewind' = rewind /\ rewind.ledger # Undefined
           \/ rewind'.ledger = polling[p].ledger
    <2>1. rewind \in Rewind
      BY <1>2 DEF ClockFits
    <2>2. CASE RewindsTo(p)
      <3>1. rewind' = [rewind EXCEPT !.ledger = polling[p].ledger]
        BY <1>1, <2>2
      <3> QED
        BY <1>3, <2>1, <3>1 DEF Rewind
    <2>3. CASE ~RewindsTo(p)
      BY <1>1, <2>1, <2>3 DEF RewindsTo
    <2> QED
      BY <2>2, <2>3
  <1>5. lies' \in 0..MaxLies
    BY <1>1, <1>2 DEF ClockFits
  <1>6. HoldTypeFits'
    BY <1>1, <1>3, <1>4, <1>5, RemembersFits, EndsFits, KeepsTypes
  <1> QED
    BY <1>1, <1>3, <1>4, <1>6

-----------------------------------------------------------------------------
(* Time passes, the network starts over, the ledger is restored.             *)

LEMMA ClosesDoes ==
  ASSUME HoldTypeFits, ReadingsPaced, NEW closes \in BOOLEAN, PassesTime(closes)
  PROVE  /\ HoldTypeFits' /\ UNCHANGED <<rewind, lost, node, polling, flight, lies>>
         /\ tick \in Nat /\ tick' = tick + 1 /\ ledgers'.closed[0] <= tick'
         /\ \/ UNCHANGED ledgers
            \/ /\ ledgers'.tip = ledgers.tip + 1 /\ ledgers'.closed[0] = tick + 1
               /\ \A lag \in Lags \ {0} : ledgers'.closed[lag] = ledgers.closed[lag - 1]
  <1>1. /\ tick < HoldEnd /\ tick' = tick + 1
        /\ UNCHANGED <<rewind, lost, node, polling, flight, lies, resets>>
    BY DEF PassesTime
  <1>2. ClockFits /\ LedgersFit /\ ledgers.closed[0] <= tick
    BY TypeParts DEF ReadingsPaced
  <1>3. /\ tick \in Nat /\ tick' \in 0..HoldEnd /\ tick' \in CloseTimes
        /\ ledgers.closed \in [Lags -> CloseTimes] /\ ledgers.tip \in Nat
        /\ ledgers.tip <= FirstTip + tick
    <2>1. tick \in Nat /\ tick' \in 0..HoldEnd /\ ledgers.tip <= FirstTip + tick
      BY <1>1, <1>2, HoldNumbers DEF ClockFits, LedgersFit
    <2>2. tick' \in CloseTimes
      BY <2>1, HoldNumbers DEF CloseTimes
    <2>3. ledgers.closed \in [Lags -> CloseTimes] /\ ledgers.tip \in Tips
      BY <1>2 DEF LedgersFit
    <2> QED
      BY <2>1, <2>2, <2>3, HoldNumbers
  <1>4. ClockFits'
    BY <1>1, <1>2, <1>3 DEF ClockFits
  <1>5. CASE closes
    <2> DEFINE f == [lag \in Lags |-> IF lag = 0 THEN tick + 1 ELSE ledgers.closed[lag - 1]]
    <2>1. ledgers' = [tip |-> ledgers.tip + 1, closed |-> f]
      BY <1>5 DEF PassesTime
    <2>2. f \in [Lags -> CloseTimes]
      <3>1. tick + 1 \in CloseTimes
        BY <1>1, <1>3
      <3>2. \A lag \in Lags : lag # 0 => ledgers.closed[lag - 1] \in CloseTimes
        BY <1>3, HoldNumbers
      <3> QED
        BY <3>1, <3>2
    <2>3. f[0] = tick + 1 /\ \A lag \in Lags \ {0} : f[lag] = ledgers.closed[lag - 1]
      BY HoldNumbers
    <2> HIDE DEF f
    <2>4. ledgers'.tip = ledgers.tip + 1 /\ ledgers'.closed = f
      BY <2>1
    <2>5. ledgers.tip + 1 \in Tips /\ ledgers.tip + 1 <= FirstTip + tick'
      BY <1>1, <1>3, HoldNumbers DEF Tips
    <2>6. ASSUME NEW lag \in Lags PROVE (ledgers.tip + 1) - lag - f[lag] <= FirstTip
      <3>1. CASE lag = 0
        BY <1>3, <2>3, <3>1, HoldNumbers
      <3>2. CASE lag # 0
        <4>1. lag - 1 \in Lags /\ lag \in Nat
          BY <3>2, HoldNumbers
        <4>2. /\ ledgers.tip - (lag - 1) - ledgers.closed[lag - 1] <= FirstTip
              /\ ledgers.closed[lag - 1] \in Int
          BY <1>2, <1>3, <4>1, HoldNumbers DEF LedgersFit
        <4>3. f[lag] = ledgers.closed[lag - 1]
          BY <2>3, <3>2
        <4> QED
          BY <1>3, <4>1, <4>2, <4>3, HoldNumbers
      <3> QED
        BY <3>1, <3>2
    <2>7. LedgersFit'
      <3>1. ledgers' \in [tip : Tips, closed : [Lags -> CloseTimes]]
        BY <2>1, <2>2, <2>5
      <3>2. \A lag \in Lags : ledgers'.tip - lag - ledgers'.closed[lag] <= FirstTip
        <4> SUFFICES ASSUME NEW lag \in Lags
                     PROVE  ledgers'.tip - lag - ledgers'.closed[lag] <= FirstTip
          OBVIOUS
        <4>1. ledgers'.tip - lag - f[lag] <= FirstTip
          BY <2>4, <2>6, Zenon
        <4>2. ledgers'.closed[lag] = f[lag]
          BY <2>4
        <4> QED
          BY <4>1, <4>2, Zenon
      <3>3. ledgers'.tip <= FirstTip + tick'
        BY <2>4, <2>5
      <3> QED
        BY <3>1, <3>2, <3>3 DEF LedgersFit
    <2>8. HoldTypeFits'
      <3>1. TypeParts'
        BY TypeParts, PTL
      <3> QED
        BY <1>1, <1>4, <2>7, <3>1, SameNodes, SameRuns
    <2> QED
      BY <1>1, <1>3, <2>3, <2>4, <2>8, HoldNumbers
  <1>6. CASE ~closes
    <2>1. ledgers' = ledgers
      BY <1>6 DEF PassesTime
    <2>2. LedgersFit'
      BY <1>1, <1>2, <1>3, <2>1, HoldNumbers DEF LedgersFit
    <2>3. HoldTypeFits'
      <3>1. TypeParts'
        BY TypeParts, PTL
      <3> QED
        BY <1>1, <1>4, <2>2, <3>1, SameNodes, SameRuns
    <2>4. ledgers.closed[0] \in Int
      BY <1>3, HoldNumbers
    <2> QED
      BY <1>1, <1>2, <1>3, <2>1, <2>3, <2>4
  <1> QED
    BY <1>5, <1>6

LEMMA StartsOverDoes ==
  ASSUME HoldTypeFits, StartsOver
  PROVE  HoldTypeFits' /\ ReadingsPaced' /\ lost' = Undefined
  <1>1. /\ lost' = Undefined /\ resets' = 1
        /\ ledgers' = [tip |-> 0, closed |-> [lag \in Lags |-> tick]]
        /\ UNCHANGED <<tick, rewind, node, polling, flight, lies>>
    BY DEF StartsOver
  <1>2. ClockFits
    BY TypeParts
  <1>3. tick \in Nat /\ tick \in CloseTimes /\ 0 \in Tips
    BY <1>2, HoldNumbers DEF ClockFits, CloseTimes, Tips
  <1>4. ledgers'.tip = 0 /\ \A lag \in Lags : ledgers'.closed[lag] = tick
    BY <1>1
  <1>5. LedgersFit'
    <2>1. ledgers' \in [tip : Tips, closed : [Lags -> CloseTimes]]
      BY <1>1, <1>3
    <2>2. \A lag \in Lags : ledgers'.tip - lag - ledgers'.closed[lag] <= FirstTip
      <3>1. \A lag \in Lags : 0 - lag - tick <= FirstTip
        BY <1>3, HoldNumbers
      <3> QED
        BY <1>4, <3>1
    <2>3. ledgers'.tip <= FirstTip + tick'
      BY <1>1, <1>3, <1>4, HoldNumbers
    <2> QED
      BY <2>1, <2>2, <2>3 DEF LedgersFit
  <1>6. ClockFits'
    BY <1>1, <1>2 DEF ClockFits
  <1>7. HoldTypeFits'
    <2>1. TypeParts'
      BY TypeParts, PTL
    <2> QED
      BY <1>1, <1>5, <1>6, <2>1, SameNodes, SameRuns
  <1>8. \A x \in Reportable' : x.ledger = 0 /\ x.closed = tick
    BY <1>4, HoldNumbers DEF Reportable
  <1>9. NewestReading'.ledger = 0 /\ NewestReading'.closed = tick
    BY <1>4, HoldNumbers DEF NewestReading
  <1>10. OfOneChain(Reportable)'
    BY <1>3, <1>8, <1>9 DEF OfOneChain, Precedes
  <1>11. ledgers'.closed[0] <= tick'
    BY <1>1, <1>3, <1>4, HoldNumbers
  <1> QED
    BY <1>1, <1>7, <1>10, <1>11 DEF ReadingsPaced

LEMMA RestoresDoes ==
  ASSUME HoldTypeFits, Restores
  PROVE  /\ HoldTypeFits' /\ UNCHANGED <<tick, ledgers, lies>>
         /\ rewind'.restored = 1 /\ rewind'.ledger = Undefined /\ lost' = ledgers.tip + Window
         /\ \A r \in HoldReplicas : node'[r] = FirstNode
         /\ \A p \in Polls : polling'[p] = Stopped
  <1>1. /\ rewind' = [restored |-> 1, ledger |-> Undefined]
        /\ lost' = ledgers.tip + Window
        /\ node' = [r \in HoldReplicas |-> FirstNode]
        /\ polling' = [p \in Polls |-> Stopped]
        /\ flight' = [r \in HoldReplicas |-> Undefined]
        /\ UNCHANGED <<tick, ledgers, lies, resets>>
    BY DEF Restores
  <1>2. ClockFits /\ LedgersFit
    BY TypeParts
  <1>3. lost' \in 0..FirstTip + HoldEnd + Window
    BY <1>1, <1>2, HoldNumbers DEF LedgersFit, Tips
  <1>4. /\ rewind' \in Rewind /\ rewind'.restored = 1 /\ rewind'.ledger = Undefined
    BY <1>1 DEF Rewind
  <1>5. ClockFits'
    BY <1>1, <1>2, <1>3, <1>4 DEF ClockFits
  <1>6. LedgersFit'
    BY <1>1, <1>2 DEF LedgersFit
  <1>7. /\ \A r \in HoldReplicas : node'[r] = FirstNode
        /\ \A p \in Polls : polling'[p] = Stopped
        /\ IsTable(node', HoldReplicas) /\ IsTable(polling', Polls)
    BY <1>1 DEF IsTable
  <1>8. HoldTypeFits'
    <2>1. TypeParts'
      BY TypeParts, PTL
    <2>2. (\A r \in HoldReplicas : NodeFits(node[r]))' /\ (\A p \in Polls : PollFits(polling[p]))'
      BY <1>7, FirstFits DEF NodeFits, PollFits
    <2> QED
      BY <1>5, <1>6, <1>7, <2>1, <2>2 DEF IsTable
  <1> QED
    BY <1>1, <1>4, <1>7, <1>8

LEMMA HoldStarts == HoldInit => HoldTypeFits /\ ReadingsPaced /\ lost = Undefined
  <1> SUFFICES ASSUME HoldInit PROVE HoldTypeFits /\ ReadingsPaced /\ lost = Undefined
    OBVIOUS
  <1>1. /\ tick = 0 /\ ledgers = [tip |-> FirstTip, closed |-> [lag \in Lags |-> -lag]]
        /\ rewind = [restored |-> 0, ledger |-> Undefined] /\ lost = Undefined
        /\ node = [r \in HoldReplicas |-> FirstNode] /\ polling = [p \in Polls |-> Stopped]
        /\ flight = [r \in HoldReplicas |-> Undefined] /\ lies = 0 /\ resets = 0
    BY DEF HoldInit
  <1>2. ledgers.tip = FirstTip /\ \A lag \in Lags : ledgers.closed[lag] = -lag
    BY <1>1
  <1>3. ClockFits
    BY <1>1, HoldNumbers DEF ClockFits, Rewind
  <1>4. LedgersFit
    <2>1. [lag \in Lags |-> -lag] \in [Lags -> CloseTimes] /\ FirstTip \in Tips
      BY HoldNumbers DEF Lags, CloseTimes, Tips
    <2>2. ledgers \in [tip : Tips, closed : [Lags -> CloseTimes]]
      BY <1>1, <2>1
    <2>3. \A lag \in Lags : ledgers.tip - lag - ledgers.closed[lag] <= FirstTip
      <3>1. \A lag \in Lags : FirstTip - lag - (-lag) <= FirstTip
        BY HoldNumbers
      <3> QED
        BY <1>2, <3>1
    <2> QED
      BY <1>1, <1>2, <2>2, <2>3, HoldNumbers DEF LedgersFit
  <1>5. HoldTypeFits
    BY <1>1, <1>3, <1>4, FirstFits, TypeParts DEF IsTable
  <1>6. \A x \in Reportable : \E lag \in Lags : x.ledger = FirstTip - lag /\ x.closed = -lag
    BY <1>2 DEF Reportable
  <1>7. NewestReading.ledger = FirstTip /\ NewestReading.closed = 0
    BY <1>2, HoldNumbers DEF NewestReading
  <1>8. OfOneChain(Reportable)
    BY <1>6, <1>7, HoldNumbers DEF OfOneChain, Precedes
  <1> QED
    BY <1>1, <1>2, <1>5, <1>8, HoldNumbers DEF ReadingsPaced

-----------------------------------------------------------------------------
(* After the restore: R are the true readings, of which some are still held. *)

NodeTrue(R, r) == node[r].latest # Undefined /\ rewind.ledger = Undefined => NodeReading(r) \in R

RunTrue(R, p) ==
  polling[p].at = "anchor" /\ rewind.ledger = Undefined => RunReading(p) \in R

NotTrustedTwice(R, p) ==
  /\ polling[p].at = "observe" /\ node[p[1]].rpcHealthy /\ node[p[1]].latest # Undefined =>
       NodeReading(p[1]) \in R \/ (lies > 0 /\ node[p[1]].seen = Undefined)
  /\ polling[p].at = "anchor" =>
       RunReading(p) \in R \/ (lies > 0 /\ polling[p].seen = Undefined)

LEMMA ReadingParts ==
  ASSUME NEW R
  PROVE  ReadingsFit(R) <=>
           /\ \A r \in HoldReplicas : NodeTrue(R, r)
           /\ \A p \in Polls : RunTrue(R, p)
           /\ MayReset => \A p \in Polls : NotTrustedTwice(R, p)
  BY DEF ReadingsFit, NodeTrue, RunTrue, NotTrustedTwice

AnchorFits(R, a) ==
  /\ lost - Window - Slack <= a /\ a <= ledgers.tip + FreshFor
  /\ \A x \in R : a <= x.ledger + FreshFor \/ a <= x.ledger + tick - x.closed

ChainHas(R) ==
  Reportable \subseteq R /\ R \subseteq [ledger : Nat, closed : Int] /\ OfOneChain(R)

Known(R) == ChainHas(R) /\ AnchorsFit(R) /\ ReadingsFit(R)

Watched == rewind.restored = 1 /\ lost - Window <= ledgers.tip /\ PollsFit

\* No other run of the replica goes on.
Alone(p) == MayReset => \A q \in Polls \ {p} : q[1] = p[1] => polling[q].at = "none"

LEMMA RunsAlone ==
  ASSUME PollsFit, NEW p \in Polls, polling[p].at # "none" \/ flight[p[1]] = Undefined
  PROVE  Alone(p)
  <1> SUFFICES ASSUME MayReset, NEW q \in Polls, q # p, q[1] = p[1], polling[q].at # "none"
               PROVE  FALSE
    BY DEF Alone
  <1>1. flight[p[1]] = q[2]
    BY DEF PollsFit
  <1>2. q[2] \in PollRuns /\ q[2] # Undefined
    BY RestoreHoldAssumption DEF Polls, Undefined
  <1>3. flight[p[1]] = p[2]
    BY <1>1, <1>2 DEF PollsFit
  <1>4. p = q
    <2>1. p = <<p[1], p[2]>> /\ q = <<q[1], q[2]>>
      BY DEF Polls
    <2> QED
      BY <1>1, <1>3, <2>1
  <1> QED
    BY <1>4

LEMMA PollsKeepFit ==
  ASSUME PollsFit, NEW p \in Polls, Alone(p),
         \A q \in Polls \ {p} : polling'[q] = polling[q],
         polling'[p].at # "restart",
         MayReset => polling'[p].at = "none" \/ flight'[p[1]] = p[2],
         \A r \in HoldReplicas \ {p[1]} : flight'[r] = flight[r] /\ node'[r] = node[r],
         lies > 0 => lies' > 0,
         MayReset /\ node'[p[1]].seen # Undefined => lies' > 0
  PROVE  PollsFit'
  <1>1. \A q \in Polls : polling'[q].at # "restart"
    BY DEF PollsFit
  <1>2. ASSUME MayReset, NEW q \in Polls, polling'[q].at # "none"
        PROVE  flight'[q[1]] = q[2]
    <2>1. CASE q = p
      BY <1>2, <2>1
    <2>2. CASE q # p
      <3>1. polling[q].at # "none" /\ flight[q[1]] = q[2]
        BY <1>2, <2>2 DEF PollsFit
      <3>2. q[1] # p[1]
        BY <1>2, <2>2, <3>1 DEF Alone
      <3> QED
        BY <3>1, <3>2, HoldNumbers
    <2> QED
      BY <2>1, <2>2
  <1>3. ASSUME MayReset, NEW r \in HoldReplicas, node'[r].seen # Undefined
        PROVE  lies' > 0
    BY <1>3 DEF PollsFit
  <1> QED
    BY <1>1, <1>2, <1>3 DEF PollsFit

\* A run moves on while the chain stays.
LEMMA RunKeepsKnown ==
  ASSUME PollsFit, NEW R, Known(R), NEW p \in Polls, Alone(p),
         UNCHANGED <<tick, ledgers, lost>>,
         \A q \in Polls \ {p} : polling'[q] = polling[q],
         \A r \in HoldReplicas \ {p[1]} : node'[r] = node[r],
         rewind'.ledger = Undefined => rewind.ledger = Undefined,
         rewind'.ledger \in {Undefined, rewind.ledger} \/ AnchorFits(R, rewind'.ledger),
         lies > 0 => lies' > 0,
         polling'[p].at = "record" => AnchorFits(R, polling'[p].ledger),
         NodeTrue(R, p[1])', RunTrue(R, p)', MayReset => NotTrustedTwice(R, p)'
  PROVE  Known(R)'
  <1>1. ChainHas(R)'
    BY DEF Known, ChainHas, OfOneChain, Precedes, NewestReading, Reportable
  <1>2. ASSUME NEW a \in Anchors' PROVE AnchorFits(R, a)
    <2>1. \A b \in Anchors : AnchorFits(R, b)
      BY DEF Known, AnchorsFit, AnchorFits
    <2>2. /\ a # Undefined
          /\ a = rewind'.ledger \/ \E q \in Polls : polling'[q].at = "record" /\ a = polling'[q].ledger
      BY <1>2 DEF Anchors
    <2>3. CASE a = rewind'.ledger
      BY <2>1, <2>2, <2>3 DEF Anchors
    <2>4. CASE \E q \in Polls : polling'[q].at = "record" /\ a = polling'[q].ledger
      <3>1. PICK q \in Polls : polling'[q].at = "record" /\ a = polling'[q].ledger
        BY <2>4
      <3>2. CASE q = p
        BY <3>1, <3>2
      <3>3. CASE q # p
        <4>1. a \in Anchors
          BY <2>2, <3>1, <3>3 DEF Anchors
        <4> QED
          BY <2>1, <4>1
      <3> QED
        BY <3>2, <3>3
    <2> QED
      BY <2>2, <2>3, <2>4
  <1>3. AnchorsFit(R)'
    BY <1>2 DEF AnchorsFit, AnchorFits
  <1>4. ReadingsFit(R)
    BY DEF Known
  <1>5. \A r \in HoldReplicas : NodeTrue(R, r)'
    <2> SUFFICES ASSUME NEW r \in HoldReplicas PROVE NodeTrue(R, r)'
      OBVIOUS
    <2>1. CASE r = p[1]
      BY <2>1 DEF NodeTrue, NodeReading
    <2>2. CASE r # p[1]
      <3>1. NodeTrue(R, r)
        BY <1>4, ReadingParts
      <3> QED
        BY <2>2, <3>1 DEF NodeTrue, NodeReading
    <2> QED
      BY <2>1, <2>2
  <1>6. \A q \in Polls : RunTrue(R, q)'
    <2> SUFFICES ASSUME NEW q \in Polls PROVE RunTrue(R, q)'
      OBVIOUS
    <2>1. CASE q = p
      BY <2>1 DEF RunTrue, RunReading
    <2>2. CASE q # p
      <3>1. RunTrue(R, q)
        BY <1>4, ReadingParts
      <3> QED
        BY <2>2, <3>1 DEF RunTrue, RunReading
    <2> QED
      BY <2>1, <2>2
  <1>7. ASSUME MayReset, NEW q \in Polls PROVE NotTrustedTwice(R, q)'
    <2>1. CASE q = p
      BY <1>7, <2>1 DEF NotTrustedTwice, RunReading, NodeReading
    <2>2. CASE q # p /\ q[1] = p[1]
      <3>1. polling'[q].at = "none"
        BY <1>7, <2>2 DEF Alone
      <3> QED
        BY <3>1 DEF NotTrustedTwice
    <2>3. CASE q # p /\ q[1] # p[1]
      <3>1. NotTrustedTwice(R, q)
        BY <1>4, <1>7, ReadingParts
      <3>2. q[1] \in HoldReplicas
        BY HoldNumbers
      <3>3. polling'[q] = polling[q] /\ node'[q[1]] = node[q[1]]
        BY <2>3, <3>2
      <3> QED
        BY <3>1, <3>3 DEF NotTrustedTwice, RunReading, NodeReading
    <2> QED
      BY <2>1, <2>2, <2>3
  <1>8. ReadingsFit(R)'
    BY <1>5, <1>6, <1>7 DEF ReadingsFit, NodeTrue, RunTrue, NotTrustedTwice
  <1> QED
    BY <1>1, <1>3, <1>8 DEF Known

\* What is read of the chain later is of the same chain.
LEMMA ChainGrows ==
  ASSUME HoldTypeFits, ReadingsPaced, NEW R, ChainHas(R), tick \in Nat, tick' = tick + 1,
         \/ UNCHANGED ledgers
         \/ /\ ledgers'.tip = ledgers.tip + 1 /\ ledgers'.closed[0] = tick + 1
            /\ \A lag \in Lags \ {0} : ledgers'.closed[lag] = ledgers.closed[lag - 1]
  PROVE  /\ ledgers'.tip \in {ledgers.tip, ledgers.tip + 1} /\ ledgers.tip \in Nat
         /\ \E Q : /\ R \subseteq Q /\ ChainHas(Q)'
                   /\ \A x \in Q \ R : x.ledger = ledgers.tip + 1
  <1>1. /\ ledgers.tip \in Nat /\ ledgers.closed \in [Lags -> CloseTimes]
        /\ ledgers.closed[0] <= tick
    BY TypeParts, HoldNumbers DEF LedgersFit, ReadingsPaced
  <1>2. ledgers.closed[0] \in Int
    BY <1>1, HoldNumbers
  <1>3. CASE UNCHANGED ledgers
    <2>1. ChainHas(R)'
      BY <1>3 DEF ChainHas, OfOneChain, Precedes, NewestReading, Reportable
    <2> QED
      BY <1>1, <1>3, <2>1
  <1>4. CASE /\ ledgers'.tip = ledgers.tip + 1 /\ ledgers'.closed[0] = tick + 1
             /\ \A lag \in Lags \ {0} : ledgers'.closed[lag] = ledgers.closed[lag - 1]
    <2>1. PICK n : n = [ledger |-> ledgers.tip + 1, closed |-> tick + 1]
      OBVIOUS
    <2>2. NewestReading' = n
      BY <1>4, <2>1 DEF NewestReading
    <2>3. n \in [ledger : Nat, closed : Int] /\ n.ledger = ledgers.tip + 1 /\ n.closed = tick + 1
      BY <1>1, <2>1
    <2>4. PICK Q : Q = R \cup {n}
      OBVIOUS
    <2>5. ASSUME NEW x \in R PROVE Precedes(x, n)
      <3>1. Precedes(x, NewestReading) /\ x \in [ledger : Nat, closed : Int]
        BY DEF ChainHas, OfOneChain
      <3>2. x.ledger <= ledgers.tip /\ ledgers.tip - x.ledger <= ledgers.closed[0] - x.closed
        BY <3>1 DEF Precedes, NewestReading
      <3>3. x.ledger \in Nat /\ x.closed \in Int
        BY <3>1
      <3>4. ASSUME NEW l \in Nat, NEW c \in Int, NEW h \in Nat, NEW t \in Int,
                   l <= h, h - l <= t - c, t <= tick
            PROVE  l <= h + 1 /\ (h + 1) - l <= (tick + 1) - c
        BY <3>4
      <3>5. x.ledger <= ledgers.tip + 1 /\ (ledgers.tip + 1) - x.ledger <= (tick + 1) - x.closed
        BY <1>1, <1>2, <3>2, <3>3, <3>4
      <3> QED
        BY <2>3, <3>5 DEF Precedes
    <2>6. Precedes(n, n)
      BY <2>3 DEF Precedes
    <2>7. \A x, y \in R : Precedes(x, y) \/ Precedes(y, x)
      BY DEF ChainHas, OfOneChain
    <2>8. \A x \in Q : Precedes(x, n)
      BY <2>4, <2>5, <2>6
    <2>9. \A x, y \in Q : Precedes(x, y) \/ Precedes(y, x)
      BY <2>4, <2>7, <2>8
    <2>10. ASSUME NEW x \in Reportable' PROVE x \in Q
      <3>1. PICK lag \in Lags : /\ lag <= ledgers'.tip
                                /\ x = [ledger |-> ledgers'.tip - lag, closed |-> ledgers'.closed[lag]]
        BY DEF Reportable
      <3>2. CASE lag = 0
        <4>1. ledgers'.tip - lag = ledgers.tip + 1 /\ ledgers'.closed[lag] = tick + 1
          BY <1>1, <1>4, <3>2
        <4>2. x = n
          BY <2>1, <3>1, <4>1
        <4> QED
          BY <2>4, <4>2
      <3>3. CASE lag # 0
        <4>1. lag - 1 \in Lags /\ lag \in Nat
          BY <3>3, HoldNumbers
        <4>2. /\ ledgers'.tip - lag = ledgers.tip - (lag - 1) /\ lag - 1 <= ledgers.tip
              /\ ledgers'.closed[lag] = ledgers.closed[lag - 1]
          BY <1>1, <1>4, <3>1, <3>3, <4>1
        <4>3. x \in Reportable
          BY <3>1, <4>1, <4>2 DEF Reportable
        <4> QED
          BY <2>4, <4>3 DEF ChainHas
      <3> QED
        BY <3>2, <3>3
    <2>11. Q \subseteq [ledger : Nat, closed : Int]
      BY <2>3, <2>4 DEF ChainHas
    <2>12. ChainHas(Q)'
      BY <2>2, <2>8, <2>9, <2>10, <2>11 DEF ChainHas, OfOneChain, Precedes
    <2> QED
      BY <1>1, <1>4, <2>3, <2>4, <2>12
  <1> QED
    BY <1>3, <1>4

LEMMA ReportableTyped == HoldTypeFits => Reportable \subseteq [ledger : Nat, closed : Int]
  <1> SUFFICES ASSUME HoldTypeFits, NEW x \in Reportable PROVE x \in [ledger : Nat, closed : Int]
    OBVIOUS
  <1>1. PICK lag \in Lags : /\ lag <= ledgers.tip
                            /\ x = [ledger |-> ledgers.tip - lag, closed |-> ledgers.closed[lag]]
    BY DEF Reportable
  <1>2. ledgers.tip \in Nat /\ ledgers.closed[lag] \in CloseTimes /\ lag \in Nat
    BY TypeParts, HoldNumbers DEF LedgersFit
  <1>3. ledgers.closed[lag] \in Int
    BY <1>2, HoldNumbers
  <1>4. lag <= ledgers.tip
    BY <1>1
  <1>5. ledgers.tip - lag \in Nat
    BY <1>2, <1>4
  <1> QED
    BY <1>1, <1>3, <1>5

LEMMA TimeKeepsPaced ==
  ASSUME HoldTypeFits, ReadingsPaced, NEW closes \in BOOLEAN, PassesTime(closes)
  PROVE  ReadingsPaced'
  <1>1. /\ tick \in Nat /\ tick' = tick + 1 /\ ledgers'.closed[0] <= tick'
        /\ \/ UNCHANGED ledgers
           \/ /\ ledgers'.tip = ledgers.tip + 1 /\ ledgers'.closed[0] = tick + 1
              /\ \A lag \in Lags \ {0} : ledgers'.closed[lag] = ledgers.closed[lag - 1]
    BY ClosesDoes
  <1>2. PICK R : R = Reportable
    OBVIOUS
  <1>3. ChainHas(R)
    BY <1>2, ReportableTyped DEF ChainHas, ReadingsPaced
  <1>4. PICK Q : ChainHas(Q)'
    BY <1>1, <1>3, ChainGrows
  <1>5. OfOneChain(Reportable)'
    BY <1>4 DEF ChainHas, OfOneChain
  <1> QED
    BY <1>1, <1>5 DEF ReadingsPaced

LEMMA TimeKeepsKnown ==
  ASSUME HoldTypeFits, ReadingsPaced, NEW closes \in BOOLEAN, PassesTime(closes),
         Watched, NEW R, Known(R), lost \in Int
  PROVE  Watched' /\ \E Q : Known(Q)'
  <1>1. /\ UNCHANGED <<rewind, lost, node, polling, flight, lies>>
        /\ tick \in Nat /\ tick' = tick + 1
        /\ \/ UNCHANGED ledgers
           \/ /\ ledgers'.tip = ledgers.tip + 1 /\ ledgers'.closed[0] = tick + 1
              /\ \A lag \in Lags \ {0} : ledgers'.closed[lag] = ledgers.closed[lag - 1]
    BY ClosesDoes
  <1>2. ChainHas(R)
    BY DEF Known
  <1>3. ledgers'.tip \in {ledgers.tip, ledgers.tip + 1} /\ ledgers.tip \in Nat
    BY <1>1, TypeParts, HoldNumbers DEF LedgersFit
  <1>4. PICK Q : /\ R \subseteq Q /\ ChainHas(Q)'
                 /\ \A x \in Q \ R : x.ledger = ledgers.tip + 1
    BY <1>1, <1>2, ChainGrows
  <1>5. Watched'
    <2>1. lost - Window <= ledgers'.tip
      BY <1>3, HoldNumbers DEF Watched
    <2> QED
      BY <1>1, <2>1 DEF Watched, PollsFit
  <1>6. AnchorsFit(Q)'
    <2> SUFFICES ASSUME NEW a \in Anchors PROVE AnchorFits(Q, a)'
      BY <1>1 DEF AnchorsFit, AnchorFits, Anchors
    <2>1. AnchorFits(R, a)
      BY DEF Known, AnchorsFit, AnchorFits
    <2>2. a \in Tips
      <3>1. ClockFits /\ \A p \in Polls : PollFits(polling[p])
        BY TypeParts
      <3>2. rewind.ledger \in HoldTips /\ \A p \in Polls : polling[p].ledger \in HoldTips
        BY <3>1 DEF ClockFits, Rewind, PollFits, HoldTips
      <3> QED
        BY <3>2, HoldNumbers DEF Anchors
    <2>3. lost' - Window - Slack <= a /\ a <= ledgers'.tip + FreshFor
      BY <1>1, <1>3, <2>1, <2>2, HoldNumbers DEF AnchorFits
    <2>4. ASSUME NEW x \in Q
          PROVE  a <= x.ledger + FreshFor \/ a <= x.ledger + tick' - x.closed
      <3>1. CASE x \in R
        <4>1. x \in [ledger : Nat, closed : Int]
          BY <1>2, <3>1 DEF ChainHas
        <4>2. a <= x.ledger + FreshFor \/ a <= x.ledger + tick - x.closed
          BY <2>1, <3>1 DEF AnchorFits
        <4>3. a <= x.ledger + FreshFor \/ a <= x.ledger + (tick + 1) - x.closed
          BY <1>1, <2>2, <4>1, <4>2, HoldNumbers
        <4> QED
          BY <1>1, <4>3
      <3>2. CASE x \notin R
        <4>1. x.ledger = ledgers.tip + 1
          BY <1>4, <3>2
        <4> QED
          BY <1>3, <2>1, <2>2, <4>1, HoldNumbers DEF AnchorFits
      <3> QED
        BY <3>1, <3>2
    <2> QED
      BY <2>3, <2>4 DEF AnchorFits
  <1>7. ReadingsFit(Q)'
    <2>1. ReadingsFit(R)
      BY DEF Known
    <2> QED
      BY <1>1, <1>4, <2>1 DEF ReadingsFit, NodeReading, RunReading
  <1> QED
    BY <1>4, <1>5, <1>6, <1>7 DEF Known

-----------------------------------------------------------------------------
(* A run of the poll, after the restore.                                     *)

\* What is recorded from a true reading: the chain cannot be further by now, and
\* it was there, but for the clock's slack, when the ledger was restored.
LEMMA AimFits ==
  ASSUME HoldTypeFits, ReadingsPaced, Watched, lost \in Int, NEW R, Known(R), NEW p \in Polls,
         polling[p].at = "anchor", RunReading(p) \in R, Passes(p)
  PROVE  AnchorFits(R, ReachableLedger(polling[p].latest, polling[p].closedAt, Clock(p[1])))
  <1> DEFINE x == RunReading(p)
             l == polling[p].latest
             c == polling[p].closedAt
             b == Behind[p[1]]
             a == ReachableLedger(l, c, Clock(p[1]))
             h == ledgers.closed[0]
  <1>1. /\ tick \in Nat /\ ledgers.tip \in Nat /\ h \in Int /\ h <= tick
        /\ b \in Nat /\ b <= Slack
    <2>1. ClockFits /\ LedgersFit
      BY TypeParts
    <2>2. tick \in Nat /\ ledgers.tip \in Nat
      <3>1. tick \in 0..HoldEnd
        BY <2>1 DEF ClockFits
      <3>2. ledgers.tip \in Tips
        BY <2>1 DEF LedgersFit
      <3>3. tick \in Nat
        BY <3>1, RestoreHoldAssumption
      <3>4. ledgers.tip \in Nat
        BY <3>2, HoldNumbers
      <3> QED
        BY <3>3, <3>4
    <2>3. h \in CloseTimes /\ h <= tick
      BY <2>1, HoldNumbers DEF LedgersFit, ReadingsPaced
    <2>4. b \in 0..Slack
      BY HoldNumbers
    <2> HIDE DEF b, h
    <2> QED
      BY <2>2, <2>3, <2>4, HoldNumbers
  <1>2. OfOneChain(R) /\ R \subseteq [ledger : Nat, closed : Int]
    BY DEF Known, ChainHas
  <1>3. x.ledger = l /\ x.closed = c
    BY DEF RunReading
  <1>4. l \in Nat /\ c \in Int
    BY <1>2, <1>3
  <1>5. l <= ledgers.tip /\ ledgers.tip - l <= h - c
    BY <1>2, <1>3 DEF OfOneChain, Precedes, NewestReading
  <1>6. tick - b - c <= FreshFor
    <2>1. (tick - b) - c \in -Slack..FreshFor
      BY DEF Passes, Fresh, Clock
    <2> QED
      BY <2>1, <1>1, <1>4, HoldNumbers
  <1>7. a = l + (IF tick - b > c THEN tick - b - c ELSE 0)
    BY DEF ReachableLedger, Clock
  <1>8. lost - Window <= ledgers.tip
    BY DEF Watched
  <1> HIDE DEF l, c, b, h
  <1>9. a \in Int /\ ledgers.tip - Slack <= a /\ a <= ledgers.tip + FreshFor
    <2> HIDE DEF a
    <2>1. CASE tick - b > c
      <3>1. a = l + ((tick - b) - c)
        BY <2>1, <1>7
      <3>2. ledgers.tip - l <= tick - c /\ (tick - b) - c <= FreshFor
        BY <1>1, <1>4, <1>5, <1>6
      <3> QED
        BY <3>1, <3>2, <1>1, <1>4, <1>5, HoldNumbers
    <2>2. CASE ~(tick - b > c)
      <3>1. a = l
        BY <2>2, <1>1, <1>4, <1>7
      <3>2. ledgers.tip - l <= b
        BY <2>2, <1>1, <1>4, <1>5
      <3> QED
        BY <3>1, <3>2, <1>1, <1>4, <1>5, HoldNumbers
    <2> QED
      BY <2>1, <2>2
  <1>10. lost - Window - Slack <= a
    <2> HIDE DEF a
    <2> QED
      BY <1>1, <1>8, <1>9, HoldNumbers
  <1>11. ASSUME NEW y \in R
         PROVE  a <= y.ledger + FreshFor \/ a <= y.ledger + tick - y.closed
    <2>1. y.ledger \in Nat /\ y.closed \in Int
      BY <1>2
    <2>2. \/ l <= y.ledger
          \/ y.ledger <= l /\ l - y.ledger <= c - y.closed
      BY <1>2, <1>3 DEF OfOneChain, Precedes
    <2> HIDE DEF a, x
    <2>3. a <= l + FreshFor
      <3>1. CASE tick - b > c
        BY <3>1, <1>1, <1>4, <1>6, <1>7, HoldNumbers
      <3>2. CASE ~(tick - b > c)
        BY <3>2, <1>1, <1>4, <1>7, HoldNumbers
      <3> QED
        BY <3>1, <3>2
    <2>4. c <= tick
      BY <1>1, <1>4, <1>5
    <2>5. a <= l + (tick - c)
      <3>1. CASE tick - b > c
        BY <3>1, <1>1, <1>4, <1>7
      <3>2. CASE ~(tick - b > c)
        BY <3>2, <1>1, <1>4, <1>7, <2>4
      <3> QED
        BY <3>1, <3>2
    <2>6. CASE l <= y.ledger
      BY <1>4, <1>9, <2>1, <2>3, <2>6, HoldNumbers
    <2>7. CASE y.ledger <= l /\ l - y.ledger <= c - y.closed
      <3>1. a <= y.ledger + (tick - y.closed)
        BY <1>1, <1>4, <1>9, <2>1, <2>5, <2>7
      <3> QED
        BY <1>1, <2>1, <3>1
    <2> QED
      BY <2>2, <2>6, <2>7
  <1>12. AnchorFits(R, a)
    BY <1>9, <1>10, <1>11 DEF AnchorFits
  <1> QED
    BY <1>12 DEF l, c

\* No true reading that passes looks like a chain that started over.
LEMMA TrueIsNotLow ==
  ASSUME HoldTypeFits, NEW R, Known(R), NEW p \in Polls, FreshFor <= Window,
         polling[p].at = "anchor", RunReading(p) \in R, rewind.ledger # Undefined, Passes(p)
  PROVE  ~Low(p)
  <1> DEFINE l == polling[p].latest
             c == polling[p].closedAt
             b == Behind[p[1]]
             a == rewind.ledger
  <1>1. RunReading(p).ledger = l /\ RunReading(p).closed = c
    BY DEF RunReading
  <1>2. l \in Nat /\ c \in Int
    BY <1>1 DEF Known, ChainHas
  <1>3. a \in Nat /\ tick \in Nat /\ b \in Nat /\ b <= Slack
    <2>1. ClockFits
      BY TypeParts
    <2>2. a \in Nat
      BY <2>1, HoldNumbers DEF ClockFits, Rewind
    <2>3. b \in 0..Slack
      BY HoldNumbers
    <2> QED
      BY <2>1, <2>2, <2>3, HoldNumbers DEF ClockFits
  <1>4. a <= l + FreshFor \/ a <= l + tick - c
    <2>1. a \in Anchors
      BY DEF Anchors
    <2> QED
      BY <1>1, <2>1 DEF Known, AnchorsFit
  <1>5. (tick - b) - c \in -Slack..FreshFor
    BY DEF Passes, Fresh, Clock
  <1> HIDE DEF l, c, b, a
  <1>6. (tick - b) - c <= FreshFor
    BY <1>2, <1>3, <1>5, HoldNumbers
  <1>7. a <= l + (Window + Slack)
    BY <1>2, <1>3, <1>4, <1>6, HoldNumbers
  <1>8. ~(l + (Window + Slack) < a)
    BY <1>2, <1>3, <1>7, HoldNumbers
  <1> QED
    BY <1>8 DEF Low, HoldLedgers, l, a

\* The chain stays, and what is true of it.
LEMMA SameChain ==
  ASSUME ReadingsPaced, UNCHANGED <<tick, ledgers>>
  PROVE  ReadingsPaced'
  BY DEF ReadingsPaced, OfOneChain, Precedes, NewestReading, Reportable

LEMMA ProbeSteps ==
  ASSUME HoldTypeFits, ResetIsCorroborated, Watched, NEW R, Known(R), NEW p \in Polls,
         StartsPoll(p) \/ ReadsLedger(p) \/ ReadsLie(p) \/ FailsPoll(p)
  PROVE  HoldTypeFits' /\ UNCHANGED <<tick, ledgers, lost>> /\ Watched' /\ Known(R)'
  <1>1. PollsFit /\ ReadingsFit(R) /\ lies \in Nat
    BY TypeParts, HoldNumbers DEF Watched, Known, ClockFits
  <1>2. p[1] \in HoldReplicas
    BY HoldNumbers
  <1>3. NodeTrue(R, p[1]) /\ RunTrue(R, p) /\ (MayReset => NotTrustedTwice(R, p))
    BY <1>1, <1>2, ReadingParts
  <1>4. CASE StartsPoll(p)
    <2>1. /\ HoldTypeFits' /\ UNCHANGED <<tick, ledgers, rewind, lost, node, lies>>
          /\ polling'[p].at = "probe" /\ (\A q \in Polls \ {p} : polling'[q] = polling[q])
          /\ flight[p[1]] = Undefined /\ flight'[p[1]] = p[2]
          /\ \A r \in HoldReplicas \ {p[1]} : flight'[r] = flight[r]
      BY <1>4, StartsPollDoes
    <2>2. Alone(p)
      BY <1>1, <2>1, RunsAlone
    <2>3. MayReset /\ node'[p[1]].seen # Undefined => lies' > 0
      BY <1>1, <1>2, <2>1 DEF PollsFit
    <2>4. PollsFit'
      BY <1>1, <2>1, <2>2, <2>3, PollsKeepFit
    <2>5. NodeTrue(R, p[1])' /\ RunTrue(R, p)' /\ NotTrustedTwice(R, p)'
      BY <1>3, <2>1 DEF NodeTrue, NodeReading, RunTrue, NotTrustedTwice
    <2>6. Known(R)'
      BY <1>1, <2>1, <2>2, <2>5, RunKeepsKnown
    <2> QED
      BY <2>1, <2>4, <2>6 DEF Watched
  <1>5. CASE ReadsLedger(p)
    <2>1. /\ HoldTypeFits' /\ UNCHANGED <<tick, ledgers, rewind, lost, flight, lies>>
          /\ polling[p].at = "probe" /\ polling'[p].at = "observe"
          /\ \A q \in Polls \ {p} : polling'[q] = polling[q]
          /\ NodeReading(p[1])' \in Reportable
          /\ node'[p[1]].seen = node[p[1]].seen
          /\ \A r \in HoldReplicas \ {p[1]} : node'[r] = node[r]
      BY <1>5, ReadsLedgerDoes
    <2>2. Alone(p)
      BY <1>1, <2>1, RunsAlone
    <2>3. MayReset => flight'[p[1]] = p[2] /\ (node'[p[1]].seen # Undefined => lies' > 0)
      BY <1>1, <1>2, <2>1 DEF PollsFit
    <2>4. PollsFit'
      BY <1>1, <2>1, <2>2, <2>3, PollsKeepFit
    <2>5. NodeReading(p[1])' \in R
      BY <2>1 DEF Known, ChainHas
    <2>6. NodeTrue(R, p[1])' /\ RunTrue(R, p)' /\ NotTrustedTwice(R, p)'
      BY <2>1, <2>5 DEF NodeTrue, RunTrue, NotTrustedTwice
    <2>7. Known(R)'
      BY <1>1, <2>1, <2>2, <2>6, RunKeepsKnown
    <2> QED
      BY <2>1, <2>4, <2>7 DEF Watched
  <1>6. CASE ReadsLie(p)
    <2>1. /\ HoldTypeFits' /\ UNCHANGED <<tick, ledgers, rewind, lost, flight>>
          /\ rewind.ledger # Undefined /\ lies < MaxLies /\ lies' = lies + 1
          /\ polling[p].at = "probe" /\ polling'[p].at = "observe"
          /\ \A q \in Polls \ {p} : polling'[q] = polling[q]
          /\ node'[p[1]].seen = node[p[1]].seen
          /\ \A r \in HoldReplicas \ {p[1]} : node'[r] = node[r]
      BY <1>6, ReadsLieDoes
    <2>2. Alone(p)
      BY <1>1, <2>1, RunsAlone
    <2>3. lies' > 0 /\ (MayReset => flight'[p[1]] = p[2])
      BY <1>1, <2>1 DEF PollsFit
    <2>4. PollsFit'
      BY <1>1, <2>1, <2>2, <2>3, PollsKeepFit
    <2>5. MayReset => node'[p[1]].seen = Undefined
      <3>1. MayReset => lies = 0
        BY <1>1, <2>1, HoldNumbers DEF ResetIsCorroborated
      <3> QED
        BY <1>2, <2>1, <3>1 DEF Watched, PollsFit
    <2>6. NodeTrue(R, p[1])' /\ RunTrue(R, p)' /\ (MayReset => NotTrustedTwice(R, p)')
      BY <2>1, <2>3, <2>5 DEF NodeTrue, RunTrue, NotTrustedTwice
    <2>7. Known(R)'
      BY <1>1, <2>1, <2>2, <2>3, <2>6, RunKeepsKnown
    <2> QED
      BY <2>1, <2>4, <2>7 DEF Watched
  <1>7. CASE FailsPoll(p)
    <2>1. /\ HoldTypeFits' /\ UNCHANGED <<tick, ledgers, rewind, lost, flight, lies>>
          /\ polling[p].at # "none" /\ polling'[p].at = "observe"
          /\ \A q \in Polls \ {p} : polling'[q] = polling[q]
          /\ ~node'[p[1]].rpcHealthy /\ NodeReading(p[1])' = NodeReading(p[1])
          /\ node'[p[1]].latest = node[p[1]].latest /\ node'[p[1]].seen = node[p[1]].seen
          /\ \A r \in HoldReplicas \ {p[1]} : node'[r] = node[r]
      BY <1>7, FailsPollDoes
    <2>2. Alone(p)
      BY <1>1, <2>1, RunsAlone
    <2>3. MayReset => flight'[p[1]] = p[2] /\ (node'[p[1]].seen # Undefined => lies' > 0)
      BY <1>1, <1>2, <2>1 DEF PollsFit
    <2>4. PollsFit'
      BY <1>1, <2>1, <2>2, <2>3, PollsKeepFit
    <2>5. NodeTrue(R, p[1])' /\ RunTrue(R, p)' /\ NotTrustedTwice(R, p)'
      BY <1>3, <2>1 DEF NodeTrue, RunTrue, NotTrustedTwice
    <2>6. Known(R)'
      BY <1>1, <2>1, <2>2, <2>5, RunKeepsKnown
    <2> QED
      BY <2>1, <2>4, <2>6 DEF Watched
  <1> QED
    BY <1>4, <1>5, <1>6, <1>7

\* A run that ends, having remembered a reading or nothing.
LEMMA EndingKeeps ==
  ASSUME HoldTypeFits, Watched, NEW R, Known(R), NEW p \in Polls, polling[p].at # "none", Ends(p),
         UNCHANGED <<tick, ledgers, lost, lies>>, rewind'.restored = rewind.restored,
         rewind'.ledger = rewind.ledger
           \/ (rewind'.ledger # Undefined /\ AnchorFits(R, rewind'.ledger)),
         \A r \in HoldReplicas \ {p[1]} : node'[r] = node[r],
         node'[p[1]].latest = node[p[1]].latest, node'[p[1]].closedAt = node[p[1]].closedAt,
         MayReset => node'[p[1]].seen = Undefined \/ lies > 0
  PROVE  Watched' /\ Known(R)'
  <1>1. PollsFit /\ ReadingsFit(R)
    BY DEF Watched, Known
  <1>2. p[1] \in HoldReplicas
    BY HoldNumbers
  <1>3. /\ polling'[p] = Stopped /\ (\A q \in Polls \ {p} : polling'[q] = polling[q])
        /\ \A r \in HoldReplicas \ {p[1]} : flight'[r] = flight[r]
    BY EndsFits
  <1>4. polling'[p].at = "none"
    BY <1>3 DEF Stopped
  <1>5. Alone(p)
    BY <1>1, RunsAlone
  <1>6. PollsFit'
    BY <1>1, <1>3, <1>4, <1>5, PollsKeepFit
  <1>7. NodeTrue(R, p[1])
    BY <1>1, <1>2, ReadingParts
  <1>8. NodeTrue(R, p[1])' /\ RunTrue(R, p)' /\ NotTrustedTwice(R, p)'
    BY <1>4, <1>7 DEF NodeTrue, NodeReading, RunTrue, NotTrustedTwice
  <1>9. Known(R)'
    BY <1>1, <1>3, <1>4, <1>5, <1>8, RunKeepsKnown
  <1> QED
    BY <1>6, <1>9 DEF Watched

LEMMA RemembersOnly ==
  ASSUME HoldTypeFits, NEW p \in Polls, NEW s \in HoldTips, Remembers(p, s)
  PROVE  /\ \A r \in HoldReplicas \ {p[1]} : node'[r] = node[r]
         /\ node'[p[1]].latest = node[p[1]].latest /\ node'[p[1]].closedAt = node[p[1]].closedAt
         /\ node'[p[1]].seen = s
  <1>1. node[p[1]] \in Node
    BY HoldNumbers, OneNodeFits
  <1>2. /\ node'[p[1]] = [node[p[1]] EXCEPT !.seen = s]
        /\ \A r \in HoldReplicas \ {p[1]} : node'[r] = node[r]
    BY RemembersFits
  <1> QED
    BY <1>1, <1>2 DEF Node

LEMMA ObserveSteps ==
  ASSUME HoldTypeFits, Watched, NEW R, Known(R), NEW p \in Polls,
         Observes(p) \/ SkipsObserving(p)
  PROVE  HoldTypeFits' /\ UNCHANGED <<tick, ledgers, lost>> /\ Watched' /\ Known(R)'
  <1>1. PollsFit /\ ReadingsFit(R)
    BY DEF Watched, Known
  <1>2. p[1] \in HoldReplicas
    BY HoldNumbers
  <1>3. NodeTrue(R, p[1]) /\ RunTrue(R, p) /\ (MayReset => NotTrustedTwice(R, p))
    BY <1>1, <1>2, ReadingParts
  <1>4. CASE Observes(p)
    <2>1. /\ HoldTypeFits' /\ UNCHANGED <<tick, ledgers, rewind, lost, node, flight, lies>>
          /\ polling[p].at = "observe" /\ node[p[1]].rpcHealthy /\ node[p[1]].latest # Undefined
          /\ polling'[p].at = "anchor" /\ RunReading(p)' = NodeReading(p[1])
          /\ polling'[p].seen = node[p[1]].seen
          /\ \A q \in Polls \ {p} : polling'[q] = polling[q]
      BY <1>4, ObservesDoes
    <2>2. Alone(p)
      BY <1>1, <2>1, RunsAlone
    <2>3. MayReset => flight'[p[1]] = p[2] /\ (node'[p[1]].seen # Undefined => lies' > 0)
      BY <1>1, <1>2, <2>1 DEF PollsFit
    <2>4. PollsFit'
      BY <1>1, <2>1, <2>2, <2>3, PollsKeepFit
    <2>5. NodeTrue(R, p[1])' /\ RunTrue(R, p)' /\ (MayReset => NotTrustedTwice(R, p)')
      BY <1>3, <2>1 DEF NodeTrue, NodeReading, RunTrue, NotTrustedTwice
    <2>6. Known(R)'
      BY <1>1, <2>1, <2>2, <2>5, RunKeepsKnown
    <2> QED
      BY <2>1, <2>4, <2>6 DEF Watched
  <1>5. CASE SkipsObserving(p)
    <2>1. HoldTypeFits' /\ UNCHANGED <<tick, ledgers, rewind, lost, node, lies>> /\ Ends(p)
      BY <1>5, SkipsDoes
    <2>2. polling[p].at # "none"
      BY <1>5 DEF SkipsObserving
    <2>3. MayReset => node'[p[1]].seen = Undefined \/ lies > 0
      BY <1>1, <1>2, <2>1 DEF PollsFit
    <2>4. Watched' /\ Known(R)'
      BY <2>1, <2>2, <2>3, EndingKeeps
    <2> QED
      BY <2>1, <2>4
  <1> QED
    BY <1>4, <1>5

LEMMA RecordSteps ==
  ASSUME HoldTypeFits, ReadingsPaced, ResetIsCorroborated, Watched, lost \in Int,
         NEW R, Known(R), NEW p \in Polls,
         LearnsAnchor(p) \/ RecordsLedger(p)
  PROVE  HoldTypeFits' /\ UNCHANGED <<tick, ledgers, lost>> /\ Watched' /\ Known(R)'
  <1>1. PollsFit /\ ReadingsFit(R)
    BY DEF Watched, Known
  <1>2. p[1] \in HoldReplicas
    BY HoldNumbers
  <1>3. NodeTrue(R, p[1]) /\ RunTrue(R, p) /\ (MayReset => NotTrustedTwice(R, p))
    BY <1>1, <1>2, ReadingParts
  <1>4. CASE LearnsAnchor(p)
    <2>1. /\ HoldTypeFits' /\ UNCHANGED <<tick, ledgers, rewind, lost, lies>>
          /\ polling[p].at = "anchor"
          /\ \/ \E s \in HoldTips : LearnsNothing(p, s)
             \/ /\ rewind.ledger = Undefined /\ Passes(p)
                /\ Aims(p, "record") /\ UNCHANGED <<node, flight>>
             \/ /\ rewind.ledger # Undefined /\ Low(p) /\ Passes(p) /\ SawItBefore(p) /\ MayReset
                /\ Aims(p, "restart") /\ UNCHANGED <<node, flight>>
      BY <1>4, LearnsDoes
    <2>2. ASSUME MayReset, rewind.ledger # Undefined, Low(p), Passes(p)
          PROVE  lies > 0 /\ polling[p].seen = Undefined
      <3>1. RunReading(p) \notin R
        BY <2>1, <2>2, TrueIsNotLow DEF ResetIsCorroborated
      <3> QED
        BY <1>3, <2>1, <2>2, <3>1 DEF NotTrustedTwice
    <2>3. CASE \E s \in HoldTips : LearnsNothing(p, s)
      <3>1. PICK s \in HoldTips : LearnsNothing(p, s)
        BY <2>3
      <3>2. Remembers(p, s) /\ Ends(p)
        BY <3>1 DEF LearnsNothing
      <3>3. s = Undefined \/ (MayReset /\ rewind.ledger # Undefined /\ Low(p) /\ Passes(p))
        BY <3>1 DEF LearnsNothing
      <3>4. s = Undefined \/ lies > 0
        BY <2>2, <3>3
      <3>5. /\ \A r \in HoldReplicas \ {p[1]} : node'[r] = node[r]
            /\ node'[p[1]].latest = node[p[1]].latest /\ node'[p[1]].closedAt = node[p[1]].closedAt
            /\ node'[p[1]].seen = s
        BY <3>2, RemembersOnly
      <3>6. Watched' /\ Known(R)'
        BY <2>1, <3>2, <3>4, <3>5, EndingKeeps
      <3> QED
        BY <2>1, <3>6
    <2>4. CASE /\ rewind.ledger = Undefined /\ Passes(p)
               /\ Aims(p, "record") /\ UNCHANGED <<node, flight>>
      <3>1. /\ polling'[p].at = "record" /\ (\A q \in Polls \ {p} : polling'[q] = polling[q])
            /\ polling'[p].ledger = ReachableLedger(polling[p].latest, polling[p].closedAt, Clock(p[1]))
        BY <2>1, <2>4, AimsFits
      <3>2. RunReading(p) \in R
        BY <1>3, <2>1, <2>4 DEF RunTrue
      <3>3. AnchorFits(R, polling'[p].ledger)
        BY <2>1, <2>4, <3>1, <3>2, AimFits
      <3>4. Alone(p)
        BY <1>1, <2>1, RunsAlone
      <3>5. MayReset => flight'[p[1]] = p[2] /\ (node'[p[1]].seen # Undefined => lies' > 0)
        BY <1>1, <1>2, <2>1, <2>4 DEF PollsFit
      <3>6. PollsFit'
        BY <1>1, <2>1, <2>4, <3>1, <3>4, <3>5, PollsKeepFit
      <3>7. NodeTrue(R, p[1])' /\ RunTrue(R, p)' /\ NotTrustedTwice(R, p)'
        BY <1>3, <2>1, <2>4, <3>1 DEF NodeTrue, NodeReading, RunTrue, NotTrustedTwice
      <3>8. Known(R)'
        BY <1>1, <2>1, <2>4, <3>1, <3>3, <3>4, <3>7, RunKeepsKnown
      <3> QED
        BY <2>1, <3>6, <3>8 DEF Watched
    <2>5. CASE rewind.ledger # Undefined /\ Low(p) /\ Passes(p) /\ SawItBefore(p) /\ MayReset
      BY <2>2, <2>5 DEF SawItBefore
    <2> QED
      BY <2>1, <2>3, <2>4, <2>5
  <1>5. CASE RecordsLedger(p)
    <2>1. /\ HoldTypeFits' /\ UNCHANGED <<tick, ledgers, lost, lies>>
          /\ polling[p].at \in {"record", "restart"} /\ Remembers(p, Undefined) /\ Ends(p)
          /\ Undefined \in HoldTips /\ polling[p].ledger \in Tips
          /\ rewind'.restored = rewind.restored
          /\ \/ rewind'.ledger = rewind.ledger /\ rewind.ledger # Undefined
             \/ rewind'.ledger = polling[p].ledger
      BY <1>5, RecordsDoes
    <2>2. polling[p].at = "record"
      BY <1>1, <2>1 DEF PollsFit
    <2>3. polling[p].ledger # Undefined
      BY <2>1, HoldNumbers
    <2>4. AnchorFits(R, polling[p].ledger)
      <3>1. polling[p].ledger \in Anchors
        BY <2>2, <2>3 DEF Anchors
      <3> QED
        BY <3>1 DEF Known, AnchorsFit, AnchorFits
    <2>5. /\ \A r \in HoldReplicas \ {p[1]} : node'[r] = node[r]
          /\ node'[p[1]].latest = node[p[1]].latest /\ node'[p[1]].closedAt = node[p[1]].closedAt
          /\ node'[p[1]].seen = Undefined
      BY <2>1, RemembersOnly
    <2>6. /\ polling[p].at # "none"
          /\ rewind'.ledger = rewind.ledger
               \/ (rewind'.ledger # Undefined /\ AnchorFits(R, rewind'.ledger))
      BY <2>1, <2>2, <2>3, <2>4
    <2>7. Watched' /\ Known(R)'
      BY <2>1, <2>5, <2>6, EndingKeeps
    <2> QED
      BY <2>1, <2>7
  <1> QED
    BY <1>4, <1>5

-----------------------------------------------------------------------------
(* Together.                                                                 *)

\* The true readings that are still held, or can still be reported, are enough.
LEMMA HoldSoundParts ==
  HoldSound <=> /\ HoldTypeFits /\ ReadingsPaced
                /\ lost # Undefined => Watched /\ \E R : Known(R)
  <1>1. ASSUME HoldSound, lost # Undefined PROVE \E R : Known(R)
    <2>1. PICK S \in SUBSET HeldReadings :
            LET R == Reportable \cup S IN OfOneChain(R) /\ AnchorsFit(R) /\ ReadingsFit(R)
      BY <1>1 DEF HoldSound
    <2>2. HoldTypeFits
      BY <1>1 DEF HoldSound
    <2>3. PICK R : R = Reportable \cup S
      OBVIOUS
    <2>4. OfOneChain(R) /\ AnchorsFit(R) /\ ReadingsFit(R)
      BY <2>1, <2>3
    <2>5. ASSUME NEW x \in HeldReadings PROVE x \in [ledger : Nat, closed : Int]
      <3>1. CASE \E r \in HoldReplicas : node[r].latest # Undefined /\ x = NodeReading(r)
        <4>1. PICK r \in HoldReplicas : node[r].latest # Undefined /\ x = NodeReading(r)
          BY <3>1
        <4>2. node[r] \in Node
          BY <2>2, OneNodeFits
        <4>3. node[r].latest \in Tips /\ node[r].closedAt \in CloseTimes
          BY <4>1, <4>2 DEF Node, CloseTimes
        <4> QED
          BY <4>1, <4>3, HoldNumbers DEF NodeReading
      <3>2. CASE \E p \in Polls : polling[p].at = "anchor" /\ x = RunReading(p)
        <4>1. PICK p \in Polls : polling[p].at = "anchor" /\ x = RunReading(p)
          BY <3>2
        <4>2. PollFits(polling[p])
          BY <2>2, TypeParts
        <4>3. polling[p].latest \in Tips /\ polling[p].closedAt \in CloseTimes
          BY <4>1, <4>2, HoldNumbers DEF PollFits
        <4> QED
          BY <4>1, <4>3, HoldNumbers DEF RunReading
      <3> QED
        BY <2>5, <3>1, <3>2 DEF HeldReadings
    <2>6. R \subseteq [ledger : Nat, closed : Int] /\ Reportable \subseteq R
      BY <2>2, <2>3, <2>5, ReportableTyped
    <2> QED
      BY <2>4, <2>6 DEF Known, ChainHas
  <1>2. ASSUME lost # Undefined, HoldTypeFits, ReadingsPaced, Watched, NEW R, Known(R)
        PROVE  HoldSound
    <2>1. PICK S : S = R \cap HeldReadings
      OBVIOUS
    <2>2. PICK Q : Q = Reportable \cup S
      OBVIOUS
    <2>3. Q \subseteq R /\ S \in SUBSET HeldReadings
      BY <1>2, <2>1, <2>2 DEF Known, ChainHas
    <2>4. OfOneChain(Q) /\ AnchorsFit(Q)
      BY <1>2, <2>3 DEF Known, ChainHas, OfOneChain, AnchorsFit
    <2>5. ReadingsFit(R)
      BY <1>2 DEF Known
    <2>6. ASSUME NEW r \in HoldReplicas, node[r].latest # Undefined, NodeReading(r) \in R
          PROVE  NodeReading(r) \in Q
      BY <2>1, <2>2, <2>6 DEF HeldReadings
    <2>7. ASSUME NEW p \in Polls, polling[p].at = "anchor", RunReading(p) \in R
          PROVE  RunReading(p) \in Q
      BY <2>1, <2>2, <2>7 DEF HeldReadings
    <2>8. ReadingsFit(Q)
      <3>1. \A r \in HoldReplicas : NodeTrue(Q, r)
        BY <2>5, <2>6, ReadingParts DEF NodeTrue
      <3>2. \A p \in Polls : RunTrue(Q, p)
        BY <2>5, <2>7, ReadingParts DEF RunTrue
      <3>3. MayReset => \A p \in Polls : NotTrustedTwice(Q, p)
        BY <2>5, <2>6, <2>7, ReadingParts, HoldNumbers DEF NotTrustedTwice
      <3> QED
        BY <3>1, <3>2, <3>3, ReadingParts
    <2>9. \E T \in SUBSET HeldReadings :
            OfOneChain(Reportable \cup T) /\ AnchorsFit(Reportable \cup T)
              /\ ReadingsFit(Reportable \cup T)
      BY <2>2, <2>3, <2>4, <2>8
    <2> QED
      BY <1>2, <2>9 DEF HoldSound, Watched
  <1> QED
    BY <1>1, <1>2, Zenon DEF HoldSound, Watched

LEMMA HoldTypeStep ==
  HoldTypeFits /\ ReadingsPaced /\ [HoldNext]_holdVars => HoldTypeFits' /\ ReadingsPaced'
  <1> SUFFICES ASSUME HoldTypeFits, ReadingsPaced, [HoldNext]_holdVars
               PROVE  HoldTypeFits' /\ ReadingsPaced'
    OBVIOUS
  <1>1. ASSUME NEW closes \in BOOLEAN, PassesTime(closes)
        PROVE  HoldTypeFits' /\ ReadingsPaced'
    BY <1>1, ClosesDoes, TimeKeepsPaced
  <1>2. CASE StartsOver
    BY <1>2, StartsOverDoes
  <1>3. CASE Restores
    BY <1>3, RestoresDoes, SameChain
  <1>4. ASSUME NEW r \in HoldReplicas, Overruns(r) PROVE HoldTypeFits' /\ ReadingsPaced'
    BY <1>4, OverrunsDoes, SameChain
  <1>5. ASSUME NEW p \in Polls,
               \/ StartsPoll(p) \/ ReadsLedger(p) \/ ReadsLie(p) \/ FailsPoll(p)
               \/ Observes(p) \/ SkipsObserving(p) \/ LearnsAnchor(p) \/ RecordsLedger(p)
        PROVE  HoldTypeFits' /\ ReadingsPaced'
    <2>1. HoldTypeFits' /\ UNCHANGED <<tick, ledgers>>
      BY <1>5, StartsPollDoes, ReadsLedgerDoes, ReadsLieDoes, FailsPollDoes, ObservesDoes,
         SkipsDoes, LearnsDoes, RecordsDoes
    <2> QED
      BY <2>1, SameChain
  <1>6. CASE UNCHANGED holdVars
    <2>1. UNCHANGED <<tick, ledgers, rewind, lost, node, polling, flight, lies, resets>>
      BY <1>6 DEF holdVars
    <2>2. ClockFits /\ LedgersFit
      BY TypeParts
    <2>3. rewind' \in Rewind /\ lies' \in 0..MaxLies
          /\ flight' \in [HoldReplicas -> PollRuns \cup {Undefined}]
      BY <2>1, <2>2 DEF ClockFits
    <2> QED
      BY <2>1, <2>3, KeepsTypes, SameNodes, SameRuns, SameChain
  <1> QED
    BY <1>1, <1>2, <1>3, <1>4, <1>5, <1>6 DEF HoldNext

LEMMA HoldStep ==
  ASSUME ResetIsCorroborated
  PROVE  HoldSound /\ [HoldNext]_holdVars => HoldSound'
  <1> SUFFICES ASSUME HoldSound, [HoldNext]_holdVars PROVE HoldSound'
    OBVIOUS
  <1>0. HoldTypeFits /\ ReadingsPaced /\ (lost # Undefined => Watched /\ \E R : Known(R))
    BY HoldSoundParts
  <1>1. HoldTypeFits' /\ ReadingsPaced'
    BY <1>0, HoldTypeStep
  <1>2. HoldSoundParts'
    BY HoldSoundParts, PTL
  <1>3. lost \in Int
    <2>1. ClockFits
      BY <1>0, TypeParts
    <2>2. lost \in HoldTips \/ lost \in 0..FirstTip + HoldEnd + Window
      BY <2>1 DEF ClockFits, HoldTips
    <2>3. CASE lost \in HoldTips
      BY <2>3, HoldNumbers
    <2>4. CASE lost \in 0..FirstTip + HoldEnd + Window
      BY <2>4, RestoreHoldAssumption
    <2> QED
      BY <2>2, <2>3, <2>4
  <1>4. ASSUME lost' # Undefined PROVE (Watched /\ \E R : Known(R))'
    <2>1. CASE StartsOver
      BY <1>0, <1>4, <2>1, StartsOverDoes
    <2>2. CASE Restores
      <3>1. /\ UNCHANGED <<tick, ledgers, lies>>
            /\ rewind'.restored = 1 /\ rewind'.ledger = Undefined /\ lost' = ledgers.tip + Window
            /\ \A r \in HoldReplicas : node'[r] = FirstNode
            /\ \A p \in Polls : polling'[p] = Stopped
        BY <1>0, <2>2, RestoresDoes
      <3>2. ledgers.tip \in Nat
        BY <1>0, TypeParts, HoldNumbers DEF LedgersFit
      <3>3. lost' - Window <= ledgers'.tip
        BY <3>1, <3>2, HoldNumbers
      <3>4. /\ \A r \in HoldReplicas : node'[r].latest = Undefined /\ node'[r].seen = Undefined
            /\ \A p \in Polls : polling'[p].at = "none"
        BY <3>1 DEF FirstNode, Stopped
      <3>5. Watched'
        BY <3>1, <3>3, <3>4 DEF Watched, PollsFit
      <3>6. PICK R : R = Reportable'
        OBVIOUS
      <3>7. ChainHas(R)'
        <4>1. ReportableTyped'
          BY ReportableTyped, PTL
        <4> QED
          BY <1>1, <3>6, <4>1 DEF ChainHas, ReadingsPaced
      <3>8. AnchorsFit(R)'
        BY <3>1, <3>4 DEF AnchorsFit, Anchors
      <3>9. ReadingsFit(R)'
        BY <3>4, HoldNumbers DEF ReadingsFit
      <3> QED
        BY <3>5, <3>7, <3>8, <3>9 DEF Known
    <2>3. ASSUME lost = lost' PROVE lost # Undefined
      BY <1>4, <2>3
    <2>4. ASSUME NEW closes \in BOOLEAN, PassesTime(closes) PROVE (Watched /\ \E R : Known(R))'
      <3>1. lost' = lost
        BY <2>4 DEF PassesTime
      <3> QED
        BY <1>0, <1>3, <2>3, <2>4, <3>1, TimeKeepsKnown
    <2>5. ASSUME NEW r \in HoldReplicas, Overruns(r) PROVE (Watched /\ \E R : Known(R))'
      <3>1. MayOverrun /\ UNCHANGED <<tick, ledgers, rewind, lost, node, polling, lies>>
        BY <1>0, <2>5, OverrunsDoes
      <3>2. Watched /\ ~MayReset
        BY <1>0, <2>3, <3>1 DEF ResetIsCorroborated
      <3>3. PICK R : Known(R)
        BY <1>0, <2>3, <3>1
      <3>4. Known(R)'
        BY <3>1, <3>3 DEF Known, ChainHas, OfOneChain, Precedes, NewestReading, Reportable,
           AnchorsFit, Anchors, ReadingsFit, NodeReading, RunReading
      <3> QED
        BY <3>1, <3>2, <3>4 DEF Watched, PollsFit
    <2>6. ASSUME NEW p \in Polls,
                 \/ StartsPoll(p) \/ ReadsLedger(p) \/ ReadsLie(p) \/ FailsPoll(p)
                 \/ Observes(p) \/ SkipsObserving(p) \/ LearnsAnchor(p) \/ RecordsLedger(p)
          PROVE  (Watched /\ \E R : Known(R))'
      <3>1. lost' = lost
        BY <2>6 DEF StartsPoll, ReadsLedger, ReadsLie, FailsPoll, Observes, SkipsObserving,
                    LearnsAnchor, RecordsLedger
      <3>2. Watched
        BY <1>0, <2>3, <3>1
      <3>3. PICK R : Known(R)
        BY <1>0, <2>3, <3>1
      <3> QED
        BY <1>0, <1>3, <2>6, <3>2, <3>3, ProbeSteps, ObserveSteps, RecordSteps
    <2>7. CASE UNCHANGED holdVars
      <3>1. UNCHANGED <<tick, ledgers, rewind, lost, node, polling, flight, lies, resets>>
        BY <2>7 DEF holdVars
      <3>2. Watched
        BY <1>0, <2>3, <3>1
      <3>3. PICK R : Known(R)
        BY <1>0, <2>3, <3>1
      <3>4. Known(R)'
        BY <3>1, <3>3 DEF Known, ChainHas, OfOneChain, Precedes, NewestReading, Reportable,
           AnchorsFit, Anchors, ReadingsFit, NodeReading, RunReading
      <3> QED
        BY <3>1, <3>2, <3>4 DEF Watched, PollsFit
    <2> QED
      BY <2>1, <2>2, <2>4, <2>5, <2>6, <2>7 DEF HoldNext
  <1> QED
    BY <1>1, <1>2, <1>4

\* Whoever may settle reads the chain past the recorded ledger by the whole hold.
LEMMA SoundCovers == HoldSound => HoldCoversTheLost
  <1> SUFFICES ASSUME HoldSound, SettlesUpto(ledgers.tip) PROVE ledgers.tip > lost
    BY DEF HoldCoversTheLost
  <1>1. HoldTypeFits /\ (lost # Undefined => Watched /\ \E R : Known(R))
    BY HoldSoundParts
  <1>2. ledgers.tip \in Nat
    BY <1>1, TypeParts, HoldNumbers DEF LedgersFit
  <1>3. CASE lost = Undefined
    BY <1>2, <1>3 DEF Undefined
  <1>4. CASE lost # Undefined
    <2>1. ClockFits
      BY <1>1, TypeParts
    <2>2. rewind.restored = 1 /\ rewind.ledger # Undefined
          /\ ledgers.tip > rewind.ledger + HoldLedgers
      BY <1>1, <1>4 DEF Watched, SettlesUpto
    <2>3. rewind.ledger \in Nat
      BY <2>1, <2>2, HoldNumbers DEF ClockFits, Rewind
    <2>4. PICK R : Known(R)
      BY <1>1, <1>4
    <2>5. rewind.ledger \in Anchors
      BY <2>2 DEF Anchors
    <2>6. lost - Window - Slack <= rewind.ledger
      BY <2>4, <2>5 DEF Known, AnchorsFit
    <2>7. lost \in Nat
      BY <1>4, <2>1, HoldNumbers DEF ClockFits
    <2> QED
      BY <1>2, <2>2, <2>3, <2>6, <2>7, HoldNumbers DEF HoldLedgers
  <1> QED
    BY <1>3, <1>4

\* The bounds on what a poll reads and records hold whatever is read, made up or
\* recorded, and readings of one chain stay as far apart as it closes
\* (HoldTypeOK: restore-hold.ts, rewindLedger).
THEOREM HoldTypesKept == HoldSpec => [](HoldTypeOK /\ ReadingsPaced)
  <1>1. HoldInit => HoldTypeFits /\ ReadingsPaced
    BY HoldStarts
  <1>2. HoldTypeFits => HoldTypeOK
    BY DEF HoldTypeFits
  <1> QED
    BY <1>1, <1>2, HoldTypeStep, PTL DEF HoldSpec

\* No upto payment settles on chain after a restore before every authorization
\* accepted before it expired, for any replicas, clocks and readings: on pubnet
\* with any runs and lies, elsewhere with polls that end in time and one lie
\* (HoldCoversTheLost: restoreHold with recordRestoreHold).
THEOREM CoveredForGood ==
  ASSUME ResetIsCorroborated
  PROVE  HoldSpec => []HoldCoversTheLost
  <1>1. HoldInit => HoldSound
    BY HoldStarts, HoldSoundParts
  <1>2. HoldSound /\ [HoldNext]_holdVars => HoldSound'
    BY HoldStep
  <1> QED
    BY <1>1, <1>2, SoundCovers, PTL DEF HoldSpec

=============================================================================
