-------------------------------- MODULE RpcPool --------------------------------
(***************************************************************************)
(* The ordered RPC providers of one network (rpc-pool.ts): which one is    *)
(* active, from the health readings that the network poll makes of every   *)
(* provider.                                                               *)
(***************************************************************************)
EXTENDS Naturals, Sequences, SequencesExt, FiniteSetsExt

CONSTANTS
  Providers,     \* how many providers there are
  FailAfter,     \* unhealthy readings in a row before the active one is left
  RecoverAfter   \* healthy readings in a row before a preferred one is taken back

ASSUME ProvidersAssumption ==
  /\ Providers \in Nat \ {0} /\ FailAfter \in Nat \ {0} /\ RecoverAfter \in Nat \ {0}

VARIABLES
  active,     \* the index of the active provider
  unhealthy,  \* bad readings in a row, since the provider was switched to
  healthy,    \* good readings in a row
  up,         \* which providers work
  settled,    \* from now on no provider breaks or recovers
  recent      \* the last readings, newest first, each with the provider active then

rpcVars == <<active, unhealthy, healthy, up, settled, recent>>

\* Providers are tried in the order of their numbers.
Index == 1..Providers

\* Counting further tells nothing apart.
Most == IF FailAfter > RecoverAfter THEN FailAfter ELSE RecoverAfter
Plus(n) == IF n < Most THEN n + 1 ELSE n

RpcInit ==
  /\ active = 1
  /\ unhealthy = [i \in Index |-> 0] /\ healthy = [i \in Index |-> 0]
  /\ up = [i \in Index |-> TRUE]
  /\ settled = FALSE
  /\ recent = <<>>

-----------------------------------------------------------------------------
Breaks(i) ==
  /\ ~settled /\ up' = [up EXCEPT ![i] = ~@]
  /\ UNCHANGED <<active, unhealthy, healthy, settled, recent>>

SettlesDown ==
  /\ ~settled /\ settled' = TRUE
  /\ UNCHANGED <<active, unhealthy, healthy, up, recent>>

HealthyIfPreferred(readings) ==
  [i \in Index |-> IF readings[i] /\ i <= active THEN Plus(healthy[i]) ELSE 0]

\* The counts after a reading of every provider.
HealthyAfter(readings) == [i \in Index |-> IF readings[i] THEN Plus(healthy[i]) ELSE 0]
UnhealthyAfter(readings) == [i \in Index |-> IF readings[i] THEN 0 ELSE Plus(unhealthy[i])]

FirstOf(S) == CHOOSE i \in S : \A j \in S : i <= j

RecoveredLate(good) == {i \in Index : i < active /\ good[i] > RecoverAfter}

\* The preferred providers that stayed healthy long enough.
Recovered(good) == {i \in Index : i < active /\ good[i] >= RecoverAfter}

TakesAnyOther(good) == Index \ {active}

\* The others that answered just now.
Alternatives(good) == {i \in Index \ {active} : good[i] > 0}

SwitchTo(i, bad) == active' = i /\ unhealthy' = [bad EXCEPT ![i] = 0]

\* observe.
Observes(readings) ==
  LET good == HealthyAfter(readings)
      bad == UnhealthyAfter(readings)
  IN /\ healthy' = good
     /\ recent' = SubSeq(<<[reading |-> readings, active |-> active]>> \o recent, 1,
                         IF Len(recent) < Most THEN Len(recent) + 1 ELSE Most)
     /\ \/ /\ Recovered(good) # {}
           /\ SwitchTo(FirstOf(Recovered(good)), bad)
        \/ /\ Recovered(good) = {} /\ bad[active] >= FailAfter /\ Alternatives(good) # {}
           /\ SwitchTo(FirstOf(Alternatives(good)), bad)
        \/ /\ Recovered(good) = {} /\ (bad[active] < FailAfter \/ Alternatives(good) = {})
           /\ unhealthy' = bad /\ UNCHANGED active

\* The poll reads every provider's health; a reading is right about it.
PollsProviders ==
  /\ Observes(up)
  /\ UNCHANGED <<up, settled>>

RpcNext ==
  \/ \E i \in Index : Breaks(i)
  \/ SettlesDown
  \/ PollsProviders

RpcSpec == RpcInit /\ [][RpcNext]_rpcVars /\ WF_rpcVars(PollsProviders)

-----------------------------------------------------------------------------
RpcTypeOK ==
  /\ active \in Index
  /\ unhealthy \in [Index -> 0..Most] /\ healthy \in [Index -> 0..Most]

\* In each of the last n readings, p holds.
LastReadings(n, p(_)) == Len(recent) >= n /\ \A k \in 1..n : p(recent[k])

\* Judged by the readings alone, whatever the counters say after switches in
\* any order: the pool does not stay with a provider that it read as broken,
\* as the active one, FailAfter times in a row while another one answered the
\* last time; and it is back at the first provider once that one answered
\* RecoverAfter times in a row.
ActiveIsJustified ==
  /\ LastReadings(FailAfter, LAMBDA r : r.active = active /\ ~r.reading[active])
       => \A i \in Index : ~recent[1].reading[i]
  /\ LastReadings(RecoverAfter, LAMBDA r : r.reading[1]) => active = 1

\* Once providers stop changing, if one works the pool ends up at one that
\* works, and at the first one if that one does, and stays.
EndsUpWell ==
  settled ~> [](\/ \A i \in Index : ~up[i]
                \/ up[1] /\ active = 1
                \/ ~up[1] /\ up[active])

-----------------------------------------------------------------------------
(* Why ActiveIsJustified holds.                                              *)

Reading == [reading : [Index -> BOOLEAN], active : Index]

\* The counters are never behind the readings: a provider's good ones, and the
\* active one's bad ones while it was active.
CountsFit ==
  /\ \A i \in Index, m \in 1..Len(recent) :
       (\A k \in 1..m : recent[k].reading[i]) => m <= healthy[i]
  /\ \A m \in 1..Len(recent) :
       (\A k \in 1..m : recent[k].active = active /\ ~recent[k].reading[active])
         => m <= unhealthy[active]

RpcSound ==
  /\ RpcTypeOK /\ up \in [Index -> BOOLEAN]
  /\ recent \in Seq(Reading) /\ Len(recent) <= Most
  /\ CountsFit /\ ActiveIsJustified
================================================================================
