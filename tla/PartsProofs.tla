----------------------------- MODULE PartsProofs -----------------------------
(***************************************************************************)
(* Proofs about the parts that share no state with each other (MCParts):   *)
(* first each part for itself, then the behaviours of the run.  The two    *)
(* budgets and the hold are modules of their own.                          *)
(***************************************************************************)
EXTENDS MCParts, BudgetProofs, RestoreHoldProofs, SequenceTheorems

-----------------------------------------------------------------------------
(* MemoryPool: PoolIsWhole, for every list of addresses, number of callers   *)
(* and bound on the streaks.  PoolIsWhole with the types is inductive; the    *)
(* lemmas on sequences say what shift, push and splice do to a list without   *)
(* repetitions.                                                              *)

LEMMA TailDrops ==
  ASSUME NEW S, NEW s \in Seq(S), s # <<>>, IsInjective(s)
  PROVE  /\ Tail(s) \in Seq(S) /\ IsInjective(Tail(s))
         /\ Head(s) \in S /\ Head(s) \in ToSet(s)
         /\ ToSet(Tail(s)) = ToSet(s) \ {Head(s)}
<1>1. /\ Head(s) = s[1] /\ Len(s) \in Nat \ {0} /\ DOMAIN s = 1..Len(s)
      /\ Tail(s) \in Seq(S) /\ Len(Tail(s)) = Len(s) - 1
      /\ DOMAIN Tail(s) = 1..(Len(s) - 1)
  OBVIOUS
<1>2. \A i \in 1..(Len(s) - 1) : Tail(s)[i] = s[i + 1]
  BY <1>1
<1>3. IsInjective(Tail(s))
  BY <1>1, <1>2 DEF IsInjective
<1>4. ASSUME NEW e PROVE e \in ToSet(Tail(s)) <=> e \in ToSet(s) /\ e # s[1]
  <2>1. ASSUME e \in ToSet(Tail(s)) PROVE e \in ToSet(s) /\ e # s[1]
    <3>1. PICK i \in 1..(Len(s) - 1) : e = Tail(s)[i]
      BY <2>1, <1>1 DEF ToSet
    <3>2. e = s[i + 1] /\ i + 1 \in 1..Len(s) /\ 1 \in 1..Len(s) /\ i + 1 # 1
      BY <3>1, <1>1, <1>2
    <3> QED BY <3>2, <1>1 DEF ToSet, IsInjective
  <2>2. ASSUME e \in ToSet(s), e # s[1] PROVE e \in ToSet(Tail(s))
    <3>1. PICK i \in 1..Len(s) : e = s[i]
      BY <2>2, <1>1 DEF ToSet
    <3>2. i - 1 \in 1..(Len(s) - 1) /\ (i - 1) + 1 = i
      BY <3>1, <2>2, <1>1
    <3>3. e = Tail(s)[i - 1]
      BY <3>1, <3>2, <1>2
    <3> QED BY <3>2, <3>3, <1>1 DEF ToSet
  <2> QED BY <2>1, <2>2
<1>5. s[1] \in S /\ s[1] \in ToSet(s)
  BY <1>1 DEF ToSet
<1> QED BY <1>1, <1>3, <1>4, <1>5

LEMMA AppendAdds ==
  ASSUME NEW S, NEW s \in Seq(S), NEW e \in S, IsInjective(s), e \notin ToSet(s)
  PROVE  /\ Append(s, e) \in Seq(S) /\ IsInjective(Append(s, e))
         /\ Append(s, e) # <<>>
         /\ ToSet(Append(s, e)) = ToSet(s) \cup {e}
<1> DEFINE t == Append(s, e)
<1>1. /\ t \in Seq(S) /\ Len(s) \in Nat /\ DOMAIN s = 1..Len(s)
      /\ DOMAIN t = 1..(Len(s) + 1) /\ t[Len(s) + 1] = e /\ t # <<>>
      /\ \A i \in 1..Len(s) : t[i] = s[i]
  OBVIOUS
<1>2. \A i \in 1..(Len(s) + 1) : i \in 1..Len(s) \/ i = Len(s) + 1
  BY <1>1
<1>3. \A i \in 1..Len(s) : s[i] # e /\ i \in 1..(Len(s) + 1)
  BY <1>1 DEF ToSet
<1> HIDE DEF t
<1>4. IsInjective(t)
  BY <1>1, <1>2, <1>3 DEF IsInjective
<1>5. ToSet(t) = ToSet(s) \cup {e}
  BY <1>1, <1>2, <1>3 DEF ToSet
<1> QED BY <1>1, <1>4, <1>5 DEF t

LEMMA RemoveDrops ==
  ASSUME NEW S, NEW s \in Seq(S), NEW i \in DOMAIN s, IsInjective(s)
  PROVE  /\ RemoveAt(s, i) \in Seq(S) /\ IsInjective(RemoveAt(s, i))
         /\ ToSet(RemoveAt(s, i)) = ToSet(s) \ {s[i]}
<1> DEFINE n == Len(s)
           a == SubSeq(s, 1, i - 1)
           b == SubSeq(s, i + 1, n)
           t == a \o b
<1>1. n \in Nat /\ DOMAIN s = 1..n /\ i \in 1..n /\ RemoveAt(s, i) = t
  BY DEF RemoveAt
<1>2. /\ a \in Seq(S) /\ Len(a) = i - 1
      /\ \A k \in 1..(i - 1) : a[k] = s[k]
  BY <1>1
<1>3. /\ b \in Seq(S) /\ Len(b) = n - i
      /\ \A k \in 1..(n - i) : b[k] = s[i + k]
  BY <1>1
<1> HIDE DEF a, b, n
<1>4. /\ t \in Seq(S) /\ Len(t) = n - 1 /\ DOMAIN t = 1..(n - 1)
      /\ \A k \in 1..(n - 1) : t[k] = IF k <= i - 1 THEN a[k] ELSE b[k - (i - 1)]
  <2>1. /\ a \o b \in Seq(S) /\ Len(a \o b) = Len(a) + Len(b)
        /\ \A k \in 1..Len(a) + Len(b) :
             (a \o b)[k] = IF k <= Len(a) THEN a[k] ELSE b[k - Len(a)]
    BY <1>2, <1>3, ConcatProperties, Zenon
  <2>2. Len(a) + Len(b) = n - 1
    BY <1>1, <1>2, <1>3
  <2> HIDE DEF t
  <2> QED BY <2>1, <2>2, <1>2 DEF t
<1> HIDE DEF t
<1>5. \A k \in 1..(n - 1) : t[k] = IF k < i THEN s[k] ELSE s[k + 1]
  <2> SUFFICES ASSUME NEW k \in 1..(n - 1)
               PROVE  t[k] = IF k < i THEN s[k] ELSE s[k + 1]
    OBVIOUS
  <2>1. CASE k < i
    <3>1. k \in 1..(i - 1)
      BY <2>1, <1>1
    <3> QED BY <3>1, <2>1, <1>1, <1>2, <1>4
  <2>2. CASE ~(k < i)
    <3>1. k - (i - 1) \in 1..(n - i) /\ i + (k - (i - 1)) = k + 1
      BY <2>2, <1>1
    <3>2. t[k] = b[k - (i - 1)]
      BY <2>2, <1>1, <1>4
    <3> QED BY <3>1, <3>2, <2>2, <1>3
  <2> QED BY <2>1, <2>2
<1>6. IsInjective(t)
  <2> SUFFICES ASSUME NEW k \in 1..(n - 1), NEW m \in 1..(n - 1), t[k] = t[m]
               PROVE  k = m
    BY <1>4 DEF IsInjective
  <2> DEFINE At(x) == IF x < i THEN x ELSE x + 1
  <2>1. /\ At(k) \in 1..n /\ At(m) \in 1..n
        /\ t[k] = s[At(k)] /\ t[m] = s[At(m)]
    BY <1>1, <1>5
  <2>2. At(k) = At(m)
    BY <2>1, <1>1 DEF IsInjective
  <2> QED BY <2>2, <1>1
<1>7. ASSUME NEW e PROVE e \in ToSet(t) <=> e \in ToSet(s) /\ e # s[i]
  <2>1. ASSUME e \in ToSet(t) PROVE e \in ToSet(s) /\ e # s[i]
    <3>1. PICK k \in 1..(n - 1) : e = t[k]
      BY <2>1, <1>4 DEF ToSet
    <3>2. PICK m \in 1..n : e = s[m] /\ m # i
      BY <3>1, <1>1, <1>5
    <3> QED BY <3>2, <1>1 DEF ToSet, IsInjective
  <2>2. ASSUME e \in ToSet(s), e # s[i] PROVE e \in ToSet(t)
    <3>1. PICK m \in 1..n : e = s[m] /\ m # i
      BY <2>2, <1>1 DEF ToSet
    <3>2. CASE m < i
      <4>1. m \in 1..(n - 1)
        BY <3>1, <3>2, <1>1
      <4>2. t[m] = e
        BY <4>1, <3>1, <3>2, <1>5
      <4> QED BY <4>1, <4>2, <1>4 DEF ToSet
    <3>3. CASE m > i
      <4>1. m - 1 \in 1..(n - 1) /\ ~(m - 1 < i) /\ (m - 1) + 1 = m
        BY <3>1, <3>3, <1>1
      <4>2. t[m - 1] = e
        BY <4>1, <3>1, <1>5
      <4> QED BY <4>1, <4>2, <1>4 DEF ToSet
    <3> QED BY <3>1, <3>2, <3>3, <1>1
  <2> QED BY <2>1, <2>2
<1> QED BY <1>1, <1>4, <1>6, <1>7

-----------------------------------------------------------------------------
(* The invariant, on the parts of a state.                                  *)

CallerType == {Away, Queued} \cup {Holding(ch, b) : ch \in PoolChannels, b \in BOOLEAN}

Held(f, ch) == {c \in PoolCallers : f[c].at = "holding" /\ f[c].channel = ch}

\* Channel ch is in one place: leased (l), cooling (q) or in the free list (s).
Placed(ch, l, q, s, f) ==
  \/ /\ ch \in l /\ ch \notin q /\ ch \notin ToSet(s)
     /\ \E c \in PoolCallers : Held(f, ch) = {c}
  \/ ch \in q /\ ch \notin l /\ ch \notin ToSet(s) /\ Held(f, ch) = {}
  \/ ch \in ToSet(s) /\ ch \notin l /\ ch \notin q /\ Held(f, ch) = {}

QueueOK(w, f) ==
  w \in Seq(PoolCallers) /\ IsInjective(w) /\ ToSet(w) = {c \in PoolCallers : f[c] = Queued}

ListOK(s) == s \in Seq(PoolChannels) /\ IsInjective(s)

RestOK == /\ {leased, cooling, noted} \subseteq SUBSET PoolChannels
          /\ streaks \in [PoolChannels -> 0..MaxStreak]

Whole == /\ ListOK(free) /\ QueueOK(waiters, caller) /\ caller \in [PoolCallers -> CallerType]
         /\ RestOK
         /\ \A ch \in PoolChannels : Placed(ch, leased, cooling, free, caller)
         /\ NobodyWaitsInVain

LEMMA WholeParts == Whole <=> PoolTypeOK /\ PoolIsWhole
BY DEF Whole, PoolTypeOK, PoolIsWhole, EveryChannelIsSomewhere, ListOK, QueueOK, RestOK,
       CallerType, Placed, HoldersOf, Held

LEMMA Kinds ==
  /\ Away \in CallerType /\ Away.at # "holding" /\ Away # Queued
  /\ Queued \in CallerType /\ Queued.at # "holding"
  /\ \A ch \in PoolChannels, b \in BOOLEAN :
       /\ Holding(ch, b) \in CallerType /\ Holding(ch, b).at = "holding"
       /\ Holding(ch, b).channel = ch /\ Holding(ch, b) # Queued
  /\ \A x \in CallerType : x.at = "holding" =>
       x.channel \in PoolChannels /\ x # Queued
<1>1. /\ Away \in CallerType /\ Away.at # "holding" /\ Away # Queued
      /\ Queued \in CallerType /\ Queued.at # "holding"
  <2>1. Away.at = "away" /\ Queued.at = "waiting"
    BY DEF Away, Queued
  <2> QED BY <2>1 DEF CallerType
<1>2. \A ch \in PoolChannels, b \in BOOLEAN :
        /\ Holding(ch, b) \in CallerType /\ Holding(ch, b).at = "holding"
        /\ Holding(ch, b).channel = ch /\ Holding(ch, b) # Queued
  <2> TAKE ch \in PoolChannels, b \in BOOLEAN
  <2>1. Holding(ch, b).at = "holding" /\ Holding(ch, b).channel = ch
    BY DEF Holding
  <2>2. Holding(ch, b) \in CallerType
    BY DEF CallerType
  <2>4. Queued.at = "waiting"
    BY DEF Queued
  <2> QED BY <2>1, <2>2, <2>4
<1>3. ASSUME NEW x \in CallerType, x.at = "holding"
      PROVE  x.channel \in PoolChannels /\ x # Queued
  <2>1. PICK ch \in PoolChannels, b \in BOOLEAN : x = Holding(ch, b)
    BY <1>1, <1>3 DEF CallerType
  <2> QED BY <2>1, <1>2
<1> QED BY <1>1, <1>2, <1>3

\* What changes when one caller does.
OneChanges(f, g, c) ==
  /\ f \in [PoolCallers -> CallerType] /\ g \in [PoolCallers -> CallerType]
  /\ \A o \in PoolCallers \ {c} : g[o] = f[o]

\* A caller that neither held a channel nor does afterwards changes no holders.
LEMMA HeldByOthers ==
  ASSUME NEW f, NEW g, NEW c \in PoolCallers, OneChanges(f, g, c),
         f[c].at # "holding", g[c].at # "holding"
  PROVE  \A ch : Held(g, ch) = Held(f, ch)
BY DEF Held, OneChanges

\* A caller gives its channel back.
LEMMA HeldAfterReturn ==
  ASSUME NEW f, NEW g, NEW c \in PoolCallers, OneChanges(f, g, c),
         f[c].at = "holding", g[c].at # "holding"
  PROVE  /\ Held(g, f[c].channel) = Held(f, f[c].channel) \ {c}
         /\ \A d : d # f[c].channel => Held(g, d) = Held(f, d)
BY DEF Held, OneChanges

-----------------------------------------------------------------------------
(* handOver.                                                                *)

\* A leased channel that nobody holds is handed over: with l leased and the
\* callers as f says, everything is in its place again.
LEMMA HandedOver ==
  ASSUME Whole, NEW ch \in PoolChannels, NEW l \in SUBSET PoolChannels,
         NEW f \in [PoolCallers -> CallerType], NEW q \in SUBSET PoolChannels,
         QueueOK(waiters, f),
         ch \in l, ch \notin q, ch \notin ToSet(free), Held(f, ch) = {},
         \A d \in PoolChannels \ {ch} : Placed(d, l, q, free, f),
         HandsOver(ch, l, f)
  PROVE  /\ ListOK(free') /\ QueueOK(waiters', caller')
         /\ caller' \in [PoolCallers -> CallerType]
         /\ leased' \in SUBSET PoolChannels
         /\ \A d \in PoolChannels : Placed(d, leased', q, free', caller')
         /\ NobodyWaitsInVain'
<1> ListOK(free) /\ NobodyWaitsInVain
  BY DEF Whole
<1>1. CASE waiters # <<>>
  <2> DEFINE c == Head(waiters)
  <2>1. /\ waiters' = Tail(waiters) /\ leased' = l /\ free' = free
        /\ caller' = [f EXCEPT ![c] = Holding(ch, FALSE)]
    BY <1>1 DEF HandsOver
  <2>2. /\ c \in PoolCallers /\ c \in ToSet(waiters)
        /\ Tail(waiters) \in Seq(PoolCallers) /\ IsInjective(Tail(waiters))
        /\ ToSet(Tail(waiters)) = ToSet(waiters) \ {c}
    BY <1>1, TailDrops DEF QueueOK
  <2> HIDE DEF c
  <2>3. f[c] = Queued
    BY <2>2 DEF QueueOK
  <2>4. caller' \in [PoolCallers -> CallerType]
    BY <2>1, <2>2, Kinds
  <2>5. QueueOK(waiters', caller')
    BY <2>1, <2>2, Kinds DEF QueueOK
  <2>6. Held(caller', ch) = {c} /\ \A d : d # ch => Held(caller', d) = Held(f, d)
    <3>1. /\ f[c].at # "holding" /\ caller'[c] = Holding(ch, FALSE)
          /\ caller'[c].at = "holding" /\ caller'[c].channel = ch
      BY <2>1, <2>2, <2>3, Kinds
    <3>2. OneChanges(f, caller', c)
      BY <2>1, <2>4 DEF OneChanges
    <3>3. Held(caller', ch) = Held(f, ch) \cup {c} /\ \A d : d # ch => Held(caller', d) = Held(f, d)
      BY <2>2, <3>1, <3>2 DEF Held, OneChanges
    <3> QED BY <3>3
  <2>7. Placed(ch, leased', q, free', caller')
    BY <2>1, <2>2, <2>6 DEF Placed
  <2>8. \A d \in PoolChannels \ {ch} : Placed(d, leased', q, free', caller')
    BY <2>1, <2>6 DEF Placed
  <2>9. NobodyWaitsInVain'
    BY <1>1, <2>1 DEF NobodyWaitsInVain
  <2> QED BY <2>1, <2>4, <2>5, <2>7, <2>8, <2>9
<1>2. CASE waiters = <<>>
  <2>1. /\ leased' = l \ {ch} /\ free' = Append(free, ch)
        /\ caller' = f /\ waiters' = waiters
    BY <1>2 DEF HandsOver
  <2>2. /\ Append(free, ch) \in Seq(PoolChannels) /\ IsInjective(Append(free, ch))
        /\ ToSet(Append(free, ch)) = ToSet(free) \cup {ch}
    BY AppendAdds DEF ListOK
  <2>3. \A d \in PoolChannels : Placed(d, leased', q, free', caller')
    BY <2>1, <2>2 DEF Placed
  <2> QED BY <1>2, <2>1, <2>2, <2>3 DEF ListOK, NobodyWaitsInVain
<1> QED BY <1>1, <1>2

-----------------------------------------------------------------------------
(* One lemma per action.                                                    *)

LEMMA AcquiresKeeps == ASSUME Whole, NEW c \in PoolCallers, Acquires(c) PROVE Whole'
<1> DEFINE ch == Head(free)
<1>1. /\ caller[c] = Away /\ free # <<>> /\ free' = Tail(free)
      /\ leased' = leased \cup {ch}
      /\ caller' = [caller EXCEPT ![c] = Holding(ch, FALSE)]
      /\ UNCHANGED <<waiters, cooling, streaks, noted>>
  BY DEF Acquires
<1>2. /\ ch \in PoolChannels /\ ch \in ToSet(free)
      /\ Tail(free) \in Seq(PoolChannels) /\ IsInjective(Tail(free))
      /\ ToSet(Tail(free)) = ToSet(free) \ {ch}
  BY <1>1, TailDrops DEF Whole, ListOK
<1> HIDE DEF ch
<1>3. /\ Held(caller', ch) = Held(caller, ch) \cup {c}
      /\ \A d : d # ch => Held(caller', d) = Held(caller, d)
  <2>1. /\ caller[c].at # "holding" /\ caller'[c] = Holding(ch, FALSE)
        /\ caller'[c].at = "holding" /\ caller'[c].channel = ch
    BY <1>1, <1>2, Kinds DEF Whole
  <2>2. OneChanges(caller, caller', c)
    BY <1>1, <1>2, Kinds DEF OneChanges, Whole
  <2> QED BY <2>1, <2>2 DEF Held, OneChanges
<1>4. ListOK(free') /\ RestOK'
  BY <1>1, <1>2 DEF Whole, ListOK, RestOK
<1>5. caller' \in [PoolCallers -> CallerType] /\ QueueOK(waiters', caller')
  BY <1>1, <1>2, Kinds DEF Whole, QueueOK
<1>6. Placed(ch, leased', cooling', free', caller')
  BY <1>1, <1>2, <1>3 DEF Whole, Placed
<1>7. \A d \in PoolChannels \ {ch} : Placed(d, leased', cooling', free', caller')
  BY <1>1, <1>2, <1>3 DEF Whole, Placed
<1>8. NobodyWaitsInVain'
  BY <1>1 DEF Whole, NobodyWaitsInVain
<1> QED BY <1>4, <1>5, <1>6, <1>7, <1>8 DEF Whole

LEMMA WaitsKeeps == ASSUME Whole, NEW c \in PoolCallers, Waits(c) PROVE Whole'
<1>1. /\ caller[c] = Away /\ free = <<>> /\ waiters' = Append(waiters, c)
      /\ caller' = [caller EXCEPT ![c] = Queued]
      /\ UNCHANGED <<free, leased, cooling, streaks, noted>>
  BY DEF Waits
<1>2. c \notin ToSet(waiters)
  BY <1>1, Kinds DEF Whole, QueueOK
<1>3. /\ waiters' \in Seq(PoolCallers) /\ IsInjective(waiters')
      /\ ToSet(waiters') = ToSet(waiters) \cup {c}
  BY <1>1, <1>2, AppendAdds DEF Whole, QueueOK
<1>4. \A d : Held(caller', d) = Held(caller, d)
  <2>1. caller[c].at # "holding" /\ caller'[c].at # "holding"
    BY <1>1, Kinds DEF Whole
  <2>2. OneChanges(caller, caller', c)
    BY <1>1, Kinds DEF Whole, OneChanges
  <2> QED BY <2>1, <2>2, HeldByOthers
<1>5. caller' \in [PoolCallers -> CallerType] /\ QueueOK(waiters', caller')
  BY <1>1, <1>3, Kinds DEF Whole, QueueOK
<1> QED BY <1>1, <1>4, <1>5 DEF Whole, ListOK, RestOK, Placed, NobodyWaitsInVain

LEMMA TimesOutKeeps == ASSUME Whole, NEW c \in PoolCallers, TimesOut(c) PROVE Whole'
<1> DEFINE i == CHOOSE i \in DOMAIN waiters : waiters[i] = c
<1>1. /\ caller[c] = Queued /\ waiters' = WithoutWaiter(c)
      /\ caller' = [caller EXCEPT ![c] = Away]
      /\ UNCHANGED <<free, leased, cooling, streaks, noted>>
  BY DEF TimesOut
<1>2. \E k \in DOMAIN waiters : waiters[k] = c
  BY <1>1 DEF Whole, QueueOK, ToSet
<1>3. i \in DOMAIN waiters /\ waiters[i] = c /\ waiters' = RemoveAt(waiters, i)
  BY <1>1, <1>2 DEF WithoutWaiter
<1> HIDE DEF i
<1>4. /\ waiters' \in Seq(PoolCallers) /\ IsInjective(waiters')
      /\ ToSet(waiters') = ToSet(waiters) \ {c}
  BY <1>3, RemoveDrops DEF Whole, QueueOK
<1>5. \A d : Held(caller', d) = Held(caller, d)
  <2>1. caller[c].at # "holding" /\ caller'[c].at # "holding"
    BY <1>1, Kinds DEF Whole
  <2>2. OneChanges(caller, caller', c)
    BY <1>1, Kinds DEF Whole, OneChanges
  <2> QED BY <2>1, <2>2, HeldByOthers
<1>6. caller' \in [PoolCallers -> CallerType] /\ QueueOK(waiters', caller')
  BY <1>1, <1>4, Kinds DEF Whole, QueueOK
<1>7. free = <<>>
  BY <1>2 DEF Whole, NobodyWaitsInVain
<1> QED BY <1>1, <1>5, <1>6, <1>7 DEF Whole, ListOK, RestOK, Placed, NobodyWaitsInVain

LEMMA TakesSequenceKeeps == ASSUME Whole, NEW c \in PoolCallers, TakesSequence(c) PROVE Whole'
<1> DEFINE ch == caller[c].channel
<1>1. /\ caller[c].at = "holding" /\ noted' = noted \ {ch}
      /\ caller' = [caller EXCEPT ![c] = Holding(ch, TRUE)]
      /\ UNCHANGED <<free, leased, waiters, cooling, streaks>>
  BY DEF TakesSequence
<1>2. ch \in PoolChannels /\ caller[c] # Queued
  BY <1>1, Kinds DEF Whole
<1> HIDE DEF ch
<1>3. TRUE \in BOOLEAN /\ caller' \in [PoolCallers -> CallerType]
  BY <1>1, <1>2, Kinds DEF Whole
<1>4. ASSUME NEW d PROVE Held(caller', d) = Held(caller, d)
  <2>1. caller'[c].at = "holding" /\ caller'[c].channel = caller[c].channel
    BY <1>1, <1>2, <1>3, Kinds DEF Whole, ch
  <2>2. \A o \in PoolCallers \ {c} : caller'[o] = caller[o]
    BY <1>1 DEF Whole
  <2> QED BY <1>1, <2>1, <2>2 DEF Held
<1>5. QueueOK(waiters', caller')
  BY <1>1, <1>2, <1>3, Kinds DEF Whole, QueueOK
<1> QED BY <1>1, <1>3, <1>4, <1>5 DEF Whole, ListOK, RestOK, Placed, NobodyWaitsInVain

\* What releasing and quarantining have in common.
LEMMA GivesBack ==
  ASSUME Whole, NEW c \in PoolCallers,
         caller[c].at = "holding", caller[c].channel \in leased
  PROVE  LET ch == caller[c].channel
             f == [caller EXCEPT ![c] = Away]
         IN  /\ ch \in PoolChannels /\ ch \notin cooling /\ ch \notin ToSet(free)
             /\ f \in [PoolCallers -> CallerType] /\ QueueOK(waiters, f)
             /\ Held(f, ch) = {}
             /\ \A d \in PoolChannels \ {ch} : Held(f, d) = Held(caller, d)
<1> DEFINE ch == caller[c].channel
           f == [caller EXCEPT ![c] = Away]
<1>1. ch \in PoolChannels /\ caller[c] # Queued
  BY Kinds DEF Whole
<1>2. /\ ch \notin cooling /\ ch \notin ToSet(free)
      /\ \E o \in PoolCallers : Held(caller, ch) = {o}
  BY <1>1 DEF Whole, Placed
<1>3. c \in Held(caller, ch)
  BY DEF Held
<1>4. /\ Held(f, ch) = Held(caller, ch) \ {c}
      /\ \A d : d # ch => Held(f, d) = Held(caller, d)
  <2>1. f[c].at # "holding"
    BY Kinds DEF Whole
  <2>2. OneChanges(caller, f, c)
    BY Kinds DEF Whole, OneChanges
  <2> HIDE DEF f
  <2> QED BY <1>1, <2>1, <2>2, HeldAfterReturn
<1>5. Held(f, ch) = {}
  BY <1>2, <1>3, <1>4
<1>6. f \in [PoolCallers -> CallerType] /\ QueueOK(waiters, f)
  BY <1>1, Kinds DEF Whole, QueueOK
<1> QED BY <1>1, <1>2, <1>4, <1>5, <1>6

LEMMA ReleasesKeeps == ASSUME Whole, NEW c \in PoolCallers, Releases(c) PROVE Whole'
<1> DEFINE ch == caller[c].channel
           f == [caller EXCEPT ![c] = Away]
<1>1. /\ caller[c].at = "holding" /\ ch \in leased
      /\ streaks' = [streaks EXCEPT ![ch] = 0] /\ noted' = noted \ {ch}
      /\ HandsOver(ch, leased, f) /\ cooling' = cooling
  BY DEF Releases
<1>2. /\ ch \in PoolChannels /\ ch \notin cooling /\ ch \notin ToSet(free)
      /\ f \in [PoolCallers -> CallerType] /\ QueueOK(waiters, f)
      /\ Held(f, ch) = {}
      /\ \A d \in PoolChannels \ {ch} : Held(f, d) = Held(caller, d)
  BY <1>1, GivesBack
<1> HIDE DEF ch, f
<1>3. \A d \in PoolChannels \ {ch} : Placed(d, leased, cooling, free, f)
  BY <1>2 DEF Whole, Placed
<1>4. leased \in SUBSET PoolChannels /\ cooling \in SUBSET PoolChannels
  BY DEF Whole, RestOK
<1>5. /\ ListOK(free') /\ QueueOK(waiters', caller')
      /\ caller' \in [PoolCallers -> CallerType]
      /\ leased' \in SUBSET PoolChannels
      /\ \A d \in PoolChannels : Placed(d, leased', cooling, free', caller')
      /\ NobodyWaitsInVain'
  BY <1>1, <1>2, <1>3, <1>4, HandedOver
<1>6. RestOK'
  BY <1>1, <1>2, <1>5, PoolAssumption DEF Whole, RestOK
<1> QED BY <1>1, <1>5, <1>6 DEF Whole

LEMMA QuarantinesKeeps == ASSUME Whole, NEW c \in PoolCallers, Quarantines(c) PROVE Whole'
<1> DEFINE ch == caller[c].channel
           f == [caller EXCEPT ![c] = Away]
<1>1. /\ caller[c].at = "holding" /\ ch \in leased /\ streaks[ch] < MaxStreak
      /\ streaks' = [streaks EXCEPT ![ch] = @ + 1]
      /\ noted' = noted \cup {ch} \/ noted' = noted \ {ch}
      /\ leased' = leased \ {ch} /\ cooling' = cooling \cup {ch}
      /\ caller' = f /\ free' = free /\ waiters' = waiters
  BY DEF Quarantines
<1>2. /\ ch \in PoolChannels /\ ch \notin cooling /\ ch \notin ToSet(free)
      /\ f \in [PoolCallers -> CallerType] /\ QueueOK(waiters, f)
      /\ Held(f, ch) = {}
      /\ \A d \in PoolChannels \ {ch} : Held(f, d) = Held(caller, d)
  BY <1>1, GivesBack
<1> HIDE DEF ch, f
<1>3. \A d \in PoolChannels : Placed(d, leased', cooling', free', caller')
  BY <1>1, <1>2 DEF Whole, Placed
<1>4. RestOK'
  BY <1>1, <1>2, PoolAssumption DEF Whole, RestOK
<1> QED BY <1>1, <1>2, <1>3, <1>4 DEF Whole, ListOK, NobodyWaitsInVain

LEMMA EndsQuarantineKeeps ==
  ASSUME Whole, NEW ch \in PoolChannels, EndsQuarantine(ch) PROVE Whole'
<1> DEFINE l == leased \cup {ch}
           q == cooling \ {ch}
<1>1. /\ ch \in cooling /\ cooling' = q /\ HandsOver(ch, l, caller)
      /\ UNCHANGED <<streaks, noted>>
  BY DEF EndsQuarantine
<1>2. ch \in l /\ ch \notin q /\ ch \notin ToSet(free) /\ Held(caller, ch) = {}
  BY <1>1 DEF Whole, Placed
<1>3. \A d \in PoolChannels \ {ch} : Placed(d, l, q, free, caller)
  BY DEF Whole, Placed
<1>4. /\ l \in SUBSET PoolChannels /\ q \in SUBSET PoolChannels
      /\ caller \in [PoolCallers -> CallerType] /\ QueueOK(waiters, caller)
  BY DEF Whole, RestOK
<1> HIDE DEF l, q
<1>5. /\ ListOK(free') /\ QueueOK(waiters', caller')
      /\ caller' \in [PoolCallers -> CallerType]
      /\ leased' \in SUBSET PoolChannels
      /\ \A d \in PoolChannels : Placed(d, leased', q, free', caller')
      /\ NobodyWaitsInVain'
  BY <1>1, <1>2, <1>3, <1>4, HandedOver
<1>6. RestOK'
  BY <1>1, <1>4, <1>5 DEF Whole, RestOK
<1> QED BY <1>1, <1>5, <1>6 DEF Whole

-----------------------------------------------------------------------------
LEMMA StartsWhole == ASSUME PoolInit PROVE Whole
<1>1. /\ free = Addresses /\ leased = {} /\ waiters = <<>> /\ cooling = {} /\ noted = {}
      /\ streaks = [ch \in PoolChannels |-> 0]
      /\ caller = [c \in PoolCallers |-> Away]
  BY DEF PoolInit
<1>2. ListOK(free) /\ ToSet(free) = PoolChannels
  BY <1>1, PoolAssumption DEF ListOK, PoolChannels
<1>3. caller \in [PoolCallers -> CallerType] /\ \A d : Held(caller, d) = {}
  BY <1>1, Kinds DEF Held
<1>4. QueueOK(waiters, caller)
  BY <1>1, Kinds DEF QueueOK, IsInjective, ToSet
<1>5. RestOK
  BY <1>1, PoolAssumption DEF RestOK
<1>6. \A d \in PoolChannels : Placed(d, leased, cooling, free, caller)
  BY <1>1, <1>2, <1>3 DEF Placed
<1>7. NobodyWaitsInVain
  BY <1>1 DEF NobodyWaitsInVain
<1> QED BY <1>2, <1>3, <1>4, <1>5, <1>6, <1>7 DEF Whole

LEMMA StepsKeepWhole == Whole /\ [PoolNext]_poolVars => Whole'
<1> SUFFICES ASSUME Whole, [PoolNext]_poolVars PROVE Whole'
  OBVIOUS
<1>1. ASSUME NEW c \in PoolCallers,
             \/ Acquires(c) \/ Waits(c) \/ TimesOut(c)
             \/ TakesSequence(c) \/ Releases(c) \/ Quarantines(c)
      PROVE  Whole'
  BY <1>1, AcquiresKeeps, WaitsKeeps, TimesOutKeeps, TakesSequenceKeeps, ReleasesKeeps,
     QuarantinesKeeps
<1>2. ASSUME NEW ch \in PoolChannels, EndsQuarantine(ch) PROVE Whole'
  BY <1>2, EndsQuarantineKeeps
<1>3. CASE UNCHANGED poolVars
  BY <1>3 DEF poolVars, Whole, ListOK, QueueOK, RestOK, Placed, Held, NobodyWaitsInVain
<1> QED BY <1>1, <1>2, <1>3 DEF PoolNext

\* MemoryChannelPool, whatever its callers do and whenever timers fire, has every
\* channel in one place and one holder for a leased one, and lets nobody wait in
\* the queue while a channel is free.
THEOREM PoolStaysWhole == PoolSpec => [](PoolTypeOK /\ PoolIsWhole)
<1>1. PoolSpec => []Whole
  BY StartsWhole, StepsKeepWhole, PTL DEF PoolSpec
<1> QED BY <1>1, WholeParts, PTL

-----------------------------------------------------------------------------
(* SellerDedupe: a payment is served once, and a lost answer is still served. *)

RecordType == [state : {"none", "claimed", "submitted", "settled", "failed"},
               attempt : Attempts \cup {NoAttempt}]
JobType == [at : Outcomes \cup {"idle", "sent", "unreached", "holds", "waits"},
            echo : Attempts \cup {NoAttempt}]
CallType == [at : {"idle", "open", "asks", "unanswered", "refused", "repeat", "served"},
             by : Wrappers \cup {NoAttempt}]

\* The type invariant without the bound on what a wrapper tracks.
LEMMA DedupeFacts ==
  ASSUME DedupeSafe
  PROVE  /\ NoAttempt \notin Attempts
         /\ record \in RecordType /\ job \in [Attempts -> JobType]
         /\ call \in [Attempts -> CallType]
         /\ tracked \in [Wrappers -> SUBSET Attempts] /\ memory \subseteq Wrappers
         /\ TrackedCapacity \in Nat
         /\ \A w \in Wrappers : IsFiniteSet(tracked[w]) /\ Cardinality(tracked[w]) <= TrackedCapacity
  BY DedupeAssumption
     DEF DedupeSafe, DedupeTypeOK, ServingFits, NoAttempt, RecordType, JobType, CallType

\* What the facilitator's and the wrappers' steps do to one entry of a table.
LEMMA Serving ==
  ASSUME DedupeSafe, NEW a \in Attempts, NEW at, NEW echo, Serves(a, at, echo),
         [at |-> at, echo |-> echo] \in JobType
  PROVE  /\ job' \in [Attempts -> JobType] /\ job'[a].at = at /\ job'[a].echo = echo
         /\ \A b \in Attempts : b # a => job'[b] = job[b]
  BY DedupeFacts DEF Serves

LEMMA Closing ==
  ASSUME DedupeSafe, NEW a \in Attempts, NEW at \in {"asks", "unanswered", "refused", "repeat", "served"},
         Closes(a, at)
  PROVE  /\ call' \in [Attempts -> CallType] /\ call'[a].at = at /\ call'[a].by = call[a].by
         /\ \A b \in Attempts : b # a => call'[b] = call[b]
  <1> DEFINE c == [call[a] EXCEPT !.at = at]
  <1>1. call[a] \in CallType
    BY DedupeFacts
  <1>2. c \in CallType /\ c.at = at /\ c.by = call[a].by
    BY <1>1 DEF CallType
  <1>3. call' = [call EXCEPT ![a] = c]
    BY DEF Closes
  <1> HIDE DEF c
  <1> QED
    BY <1>2, <1>3, DedupeFacts

LEMMA SettledHasAttempt == DedupeSafe /\ record.state # "none" => record.attempt \in Attempts
  BY DedupeFacts DEF DedupeSafe, JobsFit, RecordType

LEMMA DedupeStart == DedupeInit => DedupeSound
  <1> SUFFICES ASSUME DedupeInit PROVE DedupeSound
    OBVIOUS
  <1> USE DedupeAssumption DEF DedupeInit, NoAttempt
  <1>1. DedupeTypeOK
    BY FS_EmptySet DEF DedupeTypeOK, Outcomes
  <1>2. JobsFit
    BY DEF JobsFit
  <1>3. ServingFits
    BY FS_EmptySet DEF ServingFits
  <1>4. NothingLost
    BY DEF NothingLost
  <1> QED
    BY <1>1, <1>2, <1>3, <1>4 DEF DedupeSound, DedupeSafe

\* A step of the facilitator's: nobody is served before the payment is settled.
LEMMA FacilitatorSafe ==
  ASSUME DedupeSafe, Facilitates, record' \in RecordType, job' \in [Attempts -> JobType],
         record' = record \/ (record.state # "settled" /\ (record'.state = "settled" => record'.attempt = record.attempt)),
         JobsFit'
  PROVE  DedupeSafe'
  <1>1. DedupeTypeOK'
    BY DEF DedupeSafe, DedupeTypeOK, Facilitates, RecordType, JobType
  <1>2. ServingFits'
    <2>1. UNCHANGED <<marks, call, tracked, memory, served>>
      BY DEF Facilitates
    <2>2. CASE record' = record
      BY <2>1, <2>2 DEF DedupeSafe, ServingFits, Redeemable
    <2>3. CASE record.state # "settled"
      <3>1. marks => served = 0 /\ \A a \in Attempts : call[a].at # "asks"
        BY <2>3 DEF DedupeSafe, ServingFits
      <3> QED
        BY <2>1, <3>1 DEF DedupeSafe, ServingFits
    <2> QED
      BY <2>2, <2>3
  <1> QED
    BY <1>1, <1>2 DEF DedupeSafe

LEMMA FacilitatorSteps ==
  ASSUME DedupeSafe,
         \/ DecidesPayment
         \/ \E a \in Attempts :
              \/ ClaimsPayment(a) \/ TakesStaleClaim(a) \/ FindsExisting(a) \/ RecordsEnvelope(a)
              \/ AbandonsClaim(a) \/ AnswersHolder(a) \/ AnswersExisting(a) \/ SettleThrows(a)
  PROVE  DedupeSafe'
  <1> USE DedupeFacts
  <1>0. JobsFit
    BY DEF DedupeSafe
  <1>1. CASE DecidesPayment
    <2>1. PICK s \in {"settled", "failed"} : record' = [record EXCEPT !.state = s]
      BY <1>1 DEF DecidesPayment
    <2>2. record.state = "submitted" /\ job' = job /\ Facilitates
      BY <1>1 DEF DecidesPayment
    <2>3. record' \in RecordType /\ record'.state = s /\ record'.attempt = record.attempt
      BY <2>1 DEF RecordType
    <2>4. JobsFit'
      BY <1>0, <2>2, <2>3 DEF JobsFit, Facilitates
    <2> QED
      BY <2>2, <2>3, <2>4, FacilitatorSafe
  <1>2. ASSUME NEW a \in Attempts, ClaimsPayment(a) PROVE DedupeSafe'
    <2>1. /\ job[a].at = "sent" /\ record.state = "none"
          /\ record' = [state |-> "claimed", attempt |-> a]
          /\ Serves(a, "holds", NoAttempt) /\ Facilitates
      BY <1>2 DEF ClaimsPayment
    <2>2. [at |-> "holds", echo |-> NoAttempt] \in JobType
      BY DEF JobType
    <2>3. /\ job' \in [Attempts -> JobType] /\ job'[a].at = "holds"
          /\ \A b \in Attempts : b # a => job'[b] = job[b]
      BY <2>1, <2>2, Serving
    <2>4. record' \in RecordType /\ record'.state = "claimed" /\ record'.attempt = a
      BY <2>1 DEF RecordType
    <2>5. JobsFit'
      BY <1>0, <2>1, <2>3, <2>4 DEF JobsFit, Facilitates
    <2> QED
      BY <2>1, <2>3, <2>4, <2>5, FacilitatorSafe
  <1>3. ASSUME NEW a \in Attempts, TakesStaleClaim(a) PROVE DedupeSafe'
    <2>1. /\ job[a].at = "sent" /\ record.state = "claimed"
          /\ record' = [state |-> "claimed", attempt |-> a] /\ Facilitates
          /\ job' = [b \in Attempts |->
               IF b = a THEN [job[a] EXCEPT !.at = "holds"]
               ELSE IF job[b].at = "holds" THEN [job[b] EXCEPT !.at = "waits"] ELSE job[b]]
      BY <1>3 DEF TakesStaleClaim, TakenOverBy
    <2>2. /\ job' \in [Attempts -> JobType] /\ job'[a].at = "holds"
          /\ \A b \in Attempts : b # a =>
               \/ job'[b] = job[b] /\ job[b].at # "holds"
               \/ job'[b].at = "waits" /\ job[b].at = "holds"
      <3>1. \A b \in Attempts : job[b] \in JobType
        OBVIOUS
      <3>2. \A b \in Attempts : job'[b] \in JobType
        BY <2>1, <3>1 DEF JobType, Outcomes
      <3>3. job'[a].at = "holds"
        BY <2>1, <3>1 DEF JobType
      <3>4. \A b \in Attempts : b # a =>
               \/ job'[b] = job[b] /\ job[b].at # "holds"
               \/ job'[b].at = "waits" /\ job[b].at = "holds"
        BY <2>1, <3>1 DEF JobType
      <3>5. job' \in [Attempts -> JobType]
        BY <2>1, <3>2
      <3> QED
        BY <3>3, <3>4, <3>5
    <2>4. record' \in RecordType /\ record'.state = "claimed" /\ record'.attempt = a
      BY <2>1 DEF RecordType
    <2>5. JobsFit'
      BY <1>0, <2>1, <2>2, <2>4 DEF JobsFit, Facilitates
    <2> QED
      BY <2>1, <2>2, <2>4, <2>5, FacilitatorSafe
  <1>4. ASSUME NEW a \in Attempts, FindsExisting(a) PROVE DedupeSafe'
    <2>1. /\ job[a].at = "sent" /\ record' = record
          /\ Serves(a, "waits", NoAttempt) /\ Facilitates
      BY <1>4 DEF FindsExisting
    <2>2. [at |-> "waits", echo |-> NoAttempt] \in JobType
      BY DEF JobType
    <2>3. /\ job' \in [Attempts -> JobType] /\ job'[a].at = "waits"
          /\ \A b \in Attempts : b # a => job'[b] = job[b]
      BY <2>1, <2>2, Serving
    <2>5. JobsFit'
      BY <1>0, <2>1, <2>3 DEF JobsFit, Facilitates
    <2> QED
      BY <2>1, <2>3, <2>5, FacilitatorSafe
  <1>5. ASSUME NEW a \in Attempts, RecordsEnvelope(a) PROVE DedupeSafe'
    <2>1. /\ record.state = "claimed" /\ record' = [record EXCEPT !.state = "submitted"]
          /\ job' = job /\ Facilitates
      BY <1>5 DEF RecordsEnvelope
    <2>2. /\ record' \in RecordType /\ record'.state = "submitted"
          /\ record'.attempt = record.attempt
      BY <2>1 DEF RecordType
    <2>3. JobsFit'
      BY <1>0, <2>1, <2>2 DEF JobsFit, Facilitates
    <2> QED
      BY <2>1, <2>2, <2>3, FacilitatorSafe
  <1>6. ASSUME NEW a \in Attempts, AbandonsClaim(a) PROVE DedupeSafe'
    <2>1. /\ job[a].at = "holds" /\ record.state = "claimed"
          /\ record' = [state |-> "none", attempt |-> NoAttempt]
          /\ Serves(a, "refused", NoAttempt) /\ Facilitates
      BY <1>6 DEF AbandonsClaim
    <2>2. [at |-> "refused", echo |-> NoAttempt] \in JobType
      BY DEF JobType, Outcomes
    <2>3. /\ job' \in [Attempts -> JobType] /\ job'[a].at = "refused"
          /\ \A b \in Attempts : b # a => job'[b] = job[b]
      BY <2>1, <2>2, Serving
    <2>4. record' \in RecordType /\ record'.state = "none" /\ record'.attempt = NoAttempt
      BY <2>1 DEF RecordType
    <2>5. JobsFit'
      BY <1>0, <2>1, <2>3, <2>4 DEF JobsFit, Facilitates
    <2> QED
      BY <2>1, <2>3, <2>4, <2>5, FacilitatorSafe
  \* The answers: the record stays.
  <1>7. ASSUME NEW a \in Attempts, NEW at \in Outcomes, NEW echo \in Attempts \cup {NoAttempt},
               job[a].at # "idle", Serves(a, at, echo), record' = record, Facilitates,
               at = "marked" => record.state = "settled" /\ echo = record.attempt,
               marks /\ at = "success" => record.state = "settled" /\ record.attempt = a
        PROVE  DedupeSafe'
    <2>1. [at |-> at, echo |-> echo] \in JobType
      BY <1>7 DEF JobType
    <2>2. /\ job' \in [Attempts -> JobType] /\ job'[a].at = at /\ job'[a].echo = echo
          /\ \A b \in Attempts : b # a => job'[b] = job[b]
      BY <1>7, <2>1, Serving
    <2>3. at \notin {"idle", "holds"}
      BY <1>7 DEF Outcomes
    <2>4. JobsFit'
      BY <1>0, <1>7, <2>2, <2>3 DEF JobsFit, Facilitates
    <2> QED
      BY <1>7, <2>2, <2>4, FacilitatorSafe
  <1>o. /\ "success" \in Outcomes /\ "refused" \in Outcomes /\ "pending" \in Outcomes
        /\ "marked" \in Outcomes /\ NoAttempt \in Attempts \cup {NoAttempt}
        /\ record.attempt \in Attempts \cup {NoAttempt}
    BY DEF Outcomes, RecordType
  <1>8. ASSUME NEW a \in Attempts, AnswersHolder(a) PROVE DedupeSafe'
    <2>1. /\ job[a].at = "holds" /\ record' = record /\ Facilitates
          /\ \/ record.state = "settled" /\ Serves(a, "success", NoAttempt)
             \/ Serves(a, "refused", NoAttempt) \/ Serves(a, "pending", NoAttempt)
      BY <1>8 DEF AnswersHolder
    <2>2. record.attempt = a
      BY <1>0, <2>1 DEF JobsFit
    <2> QED
      BY <1>7, <1>o, <2>1, <2>2
  <1>9. ASSUME NEW a \in Attempts, AnswersExisting(a) PROVE DedupeSafe'
    <2>1. /\ job[a].at = "waits" /\ record' = record /\ Facilitates
          /\ \/ record.state = "settled" /\ Serves(a, "marked", record.attempt)
             \/ ~marks /\ Serves(a, "success", NoAttempt)
             \/ Serves(a, "refused", NoAttempt) \/ Serves(a, "pending", NoAttempt)
      BY <1>9 DEF AnswersExisting
    <2> QED
      BY <1>7, <1>o, <2>1
  <1>10. ASSUME NEW a \in Attempts, SettleThrows(a) PROVE DedupeSafe'
    <2>1. /\ job[a].at # "idle" /\ record' = record /\ Facilitates
          /\ Serves(a, "refused", NoAttempt)
      BY <1>10 DEF SettleThrows
    <2> QED
      BY <1>7, <1>o, <2>1
  <1> QED
    BY <1>1, <1>2, <1>3, <1>4, <1>5, <1>6, <1>8, <1>9, <1>10

\* A wrapper's step on one attempt under way, the facilitator's part of it
\* aside: what is tracked stays within the capacity, and nobody gains the right
\* to be served.
LEMMA WrapperTypes ==
  ASSUME DedupeSafe, record' = record, job' \in [Attempts -> JobType],
         call' \in [Attempts -> CallType], memory' \subseteq Wrappers,
         tracked' \in [Wrappers -> SUBSET Attempts],
         \A w \in Wrappers : Cardinality(tracked'[w]) <= TrackedCapacity
  PROVE  DedupeTypeOK'
  BY DEF DedupeSafe, DedupeTypeOK, RecordType, JobType, CallType

LEMMA WrapperJobs ==
  ASSUME DedupeSafe, UNCHANGED <<marks, record>>, NEW a \in Attempts, call[a].at # "idle",
         job' = job \/ (job[a].at = "sent" /\ job'[a].at = "unreached"
                         /\ \A b \in Attempts : b # a => job'[b] = job[b]),
         call'[a].at # "idle", call'[a].by = call[a].by,
         \A b \in Attempts : b # a => call'[b] = call[b]
  PROVE  JobsFit'
  <1>1. JobsFit
    BY DEF DedupeSafe
  <1>2. CASE job' = job
    BY <1>1, <1>2 DEF JobsFit
  <1>3. CASE /\ job[a].at = "sent" /\ job'[a].at = "unreached"
             /\ \A b \in Attempts : b # a => job'[b] = job[b]
    BY <1>1, <1>3 DEF JobsFit
  <1> QED
    BY <1>2, <1>3

\* The answer that never came, or came as pending: the attempt waits to be
\* echoed, unless the wrapper keeps too many.
LEMMA Unanswered ==
  ASSUME DedupeSafe, NEW a \in Attempts, call[a].at = "open", AddsUnfinished(a),
         Closes(a, "unanswered"), UNCHANGED <<marks, record, memory, served>>,
         job' \in [Attempts -> JobType],
         job' = job \/ (job[a].at = "sent" /\ job'[a].at = "unreached"
                         /\ \A b \in Attempts : b # a => job'[b] = job[b])
  PROVE  /\ DedupeSafe'
         /\ forgot' = forgot => a \in tracked'[call'[a].by] \/ forgot
         /\ \A b \in Attempts : \A w \in Wrappers : b \in tracked[w] => b \in tracked'[w]
  <1> USE DedupeFacts
  <1> DEFINE w == call[a].by
  <1>1. /\ call' \in [Attempts -> CallType] /\ call'[a].at = "unanswered" /\ call'[a].by = w
        /\ \A b \in Attempts : b # a => call'[b] = call[b]
    BY Closing
  <1>2. JobsFit' /\ w \in Wrappers
    BY <1>1, WrapperJobs DEF DedupeSafe, JobsFit
  <1>3. \/ /\ Cardinality(tracked[w]) < TrackedCapacity
           /\ tracked' = [tracked EXCEPT ![w] = @ \cup {a}] /\ forgot' = forgot
        \/ tracked' = tracked /\ forgot' = TRUE
    BY DEF AddsUnfinished
  <1> HIDE DEF w
  <1>4. IsFiniteSet(tracked[w]) /\ Cardinality(tracked[w]) <= TrackedCapacity
    BY <1>2
  <1>5. \A v \in Wrappers :
          /\ IsFiniteSet(tracked'[v]) /\ Cardinality(tracked'[v]) <= TrackedCapacity
          /\ tracked'[v] \in SUBSET Attempts
          /\ tracked'[v] = tracked[v] \/ (v = w /\ tracked'[v] = tracked[v] \cup {a})
    <2>1. CASE tracked' = tracked
      BY <2>1
    <2>2. CASE /\ Cardinality(tracked[w]) < TrackedCapacity
               /\ tracked' = [tracked EXCEPT ![w] = @ \cup {a}]
      <3>1. /\ IsFiniteSet(tracked[w] \cup {a})
            /\ Cardinality(tracked[w] \cup {a}) =
                 IF a \in tracked[w] THEN Cardinality(tracked[w]) ELSE Cardinality(tracked[w]) + 1
        BY <1>4, FS_AddElement
      <3>2. Cardinality(tracked[w]) \in Nat
        BY <1>4, FS_CardinalityType
      <3>3. Cardinality(tracked[w] \cup {a}) <= TrackedCapacity
        BY <2>2, <3>1, <3>2
      <3>4. tracked'[w] = tracked[w] \cup {a} /\ \A v \in Wrappers : v # w => tracked'[v] = tracked[v]
        BY <1>2, <2>2
      <3>5. a \in Attempts /\ tracked[w] \in SUBSET Attempts
        BY <1>2
      <3> QED
        <4> TAKE v \in Wrappers
        <4>1. CASE v = w
          BY <3>1, <3>3, <3>4, <3>5, <4>1
        <4>2. CASE v # w
          BY <3>4, <4>2
        <4> QED
          BY <4>1, <4>2
    <2> QED
      BY <1>3, <2>1, <2>2
  <1>6. tracked' \in [Wrappers -> SUBSET Attempts]
    BY <1>3, <1>5
  <1>7. DedupeTypeOK'
    BY <1>1, <1>5, <1>6, WrapperTypes
  <1>8. ServingFits'
    <2>0. ServingFits
      BY DEF DedupeSafe
    <2>1. record.state = "settled" /\ Redeemable' => Redeemable
      <3> SUFFICES ASSUME record.state = "settled", Redeemable' PROVE Redeemable
        OBVIOUS
      <3>1. record.attempt \in Attempts
        BY SettledHasAttempt
      <3>2. CASE call'[record'.attempt].at = "open"
        BY <1>1, <3>1, <3>2 DEF Redeemable
      <3>3. ASSUME NEW v \in Wrappers, record'.attempt \in tracked'[v] PROVE Redeemable
        BY <1>1, <1>5, <3>1, <3>3 DEF Redeemable
      <3> QED
        BY <3>2, <3>3 DEF Redeemable
    <2>2. \A v \in Wrappers : \A b \in tracked'[v] : call'[b].at = "unanswered" /\ call'[b].by = v
      BY <1>1, <1>5, <2>0 DEF ServingFits
    <2>3. \A b \in Attempts : call'[b].at = "asks" => call[b].at = "asks"
      BY <1>1
    <2>4. \A v \in Wrappers : IsFiniteSet(tracked'[v])
      BY <1>5
    <2> QED
      BY <2>0, <2>1, <2>2, <2>3, <2>4 DEF ServingFits
  <1>9. forgot' = forgot => a \in tracked'[call'[a].by] \/ forgot
    BY <1>1, <1>2, <1>3
  <1>10. \A b \in Attempts : \A v \in Wrappers : b \in tracked[v] => b \in tracked'[v]
    BY <1>5
  <1> QED
    BY <1>2, <1>7, <1>8, <1>9, <1>10 DEF DedupeSafe

LEMMA WrapperSteps ==
  ASSUME DedupeSafe, NEW a \in Attempts,
         \/ HearsNothing(a) \/ HearsPending(a) \/ HearsRefusal(a) \/ HearsSuccess(a)
         \/ AsksMemory(a) \/ \E w \in Wrappers : SendsSettle(a, w)
  PROVE  DedupeSafe'
  <1> USE DedupeFacts
  <1>0. JobsFit /\ ServingFits
    BY DEF DedupeSafe
  <1>1. CASE HearsNothing(a)
    <2>1. /\ call[a].at = "open" /\ AddsUnfinished(a) /\ Closes(a, "unanswered")
          /\ UNCHANGED <<marks, record, memory, served>>
          /\ job' = job \/ (job[a].at = "sent" /\ Serves(a, "unreached", NoAttempt))
      BY <1>1 DEF HearsNothing
    <2>2. [at |-> "unreached", echo |-> NoAttempt] \in JobType
      BY DEF JobType
    <2>3. /\ job' \in [Attempts -> JobType]
          /\ job' = job \/ (job[a].at = "sent" /\ job'[a].at = "unreached"
                             /\ \A b \in Attempts : b # a => job'[b] = job[b])
      BY <2>1, <2>2, Serving
    <2> QED
      BY <2>1, <2>3, Unanswered
  <1>2. CASE HearsPending(a)
    BY <1>2, Unanswered DEF HearsPending
  <1>3. CASE HearsRefusal(a)
    <2>1. /\ call[a].at = "open" /\ Closes(a, "refused")
          /\ UNCHANGED <<marks, record, job, tracked, memory, served, forgot>>
      BY <1>3 DEF HearsRefusal
    <2>2. /\ call' \in [Attempts -> CallType] /\ call'[a].at = "refused" /\ call'[a].by = call[a].by
          /\ \A b \in Attempts : b # a => call'[b] = call[b]
      BY <2>1, Closing
    <2>3. DedupeTypeOK' /\ JobsFit'
      BY <2>1, <2>2, WrapperTypes, WrapperJobs
    <2>4. ServingFits'
      <3>1. record.state = "settled" /\ Redeemable' => Redeemable
        BY <2>1, <2>2, SettledHasAttempt DEF Redeemable
      <3>2. \A b \in Attempts : call'[b].at = "asks" => call[b].at = "asks"
        BY <2>2
      <3>3. \A v \in Wrappers : \A b \in tracked'[v] : call'[b].at = "unanswered" /\ call'[b].by = v
        BY <1>0, <2>1, <2>2 DEF ServingFits
      <3> QED
        BY <1>0, <2>1, <3>1, <3>2, <3>3 DEF ServingFits
    <2> QED
      BY <2>3, <2>4 DEF DedupeSafe
  <1>4. CASE HearsSuccess(a)
    <2> DEFINE w == call[a].by
               echo == job[a].echo
    <2>1. /\ call[a].at = "open" /\ job[a].at \in {"success", "marked"}
          /\ UNCHANGED <<marks, record, job, memory, served, forgot>>
          /\ \/ /\ job[a].at = "marked" /\ tracked' = [tracked EXCEPT ![w] = @ \ {echo}]
                /\ \/ echo \in tracked[w] /\ Closes(a, "asks")
                   \/ echo \notin tracked[w] /\ Closes(a, "repeat")
             \/ job[a].at = "success" /\ Closes(a, "asks") /\ tracked' = tracked
      BY <1>4 DEF HearsSuccess
    <2>2. w \in Wrappers
      BY <1>0, <2>1 DEF JobsFit
    <2> HIDE DEF w, echo
    <2>3. PICK at \in {"asks", "repeat"} : Closes(a, at)
      BY <2>1
    <2>4. /\ call' \in [Attempts -> CallType] /\ call'[a].at \in {"asks", "repeat"}
          /\ call'[a].by = call[a].by
          /\ \A b \in Attempts : b # a => call'[b] = call[b]
      BY <2>3, Closing
    <2>5. \A v \in Wrappers :
            /\ tracked'[v] = tracked[v] \/ (v = w /\ tracked'[v] = tracked[v] \ {echo})
            /\ tracked'[v] \subseteq tracked[v]
            /\ IsFiniteSet(tracked'[v]) /\ Cardinality(tracked'[v]) <= TrackedCapacity
      <3>1. IsFiniteSet(tracked[w]) /\ Cardinality(tracked[w]) <= TrackedCapacity
        BY <2>2
      <3>2. Cardinality(tracked[w]) \in Nat
        BY <3>1, FS_CardinalityType
      <3>3. /\ IsFiniteSet(tracked[w] \ {echo})
            /\ Cardinality(tracked[w] \ {echo}) =
                 IF echo \in tracked[w] THEN Cardinality(tracked[w]) - 1 ELSE Cardinality(tracked[w])
        BY <3>1, FS_RemoveElement
      <3>4. Cardinality(tracked[w] \ {echo}) <= TrackedCapacity
        BY <3>1, <3>2, <3>3
      <3>5. CASE tracked' = tracked
        BY <3>5
      <3>6. CASE tracked' = [tracked EXCEPT ![w] = @ \ {echo}]
        <4>1. /\ tracked'[w] = tracked[w] \ {echo}
              /\ \A v \in Wrappers : v # w => tracked'[v] = tracked[v]
          BY <2>2, <3>6
        <4> QED
          BY <3>3, <3>4, <4>1
      <3> QED
        BY <2>1, <3>5, <3>6
    <2>6. tracked' \in [Wrappers -> SUBSET Attempts]
      BY <2>1, <2>5
    <2>7. DedupeTypeOK' /\ JobsFit'
      BY <2>1, <2>4, <2>5, <2>6, WrapperTypes, WrapperJobs
    <2>8. \A v \in Wrappers : /\ IsFiniteSet(tracked'[v])
            /\ \A b \in tracked'[v] : call'[b].at = "unanswered" /\ call'[b].by = v
      BY <1>0, <2>1, <2>4, <2>5 DEF ServingFits
    <2>9. record.state = "settled" /\ Redeemable' => Redeemable
      <3> SUFFICES ASSUME record.state = "settled", Redeemable' PROVE Redeemable
        OBVIOUS
      <3>1. record.attempt \in Attempts
        BY SettledHasAttempt
      <3>2. CASE call'[record'.attempt].at = "open"
        BY <2>1, <2>4, <3>1, <3>2 DEF Redeemable
      <3>3. ASSUME NEW v \in Wrappers, record'.attempt \in tracked'[v] PROVE Redeemable
        BY <2>1, <2>5, <3>3 DEF Redeemable
      <3> QED
        BY <3>2, <3>3 DEF Redeemable
    <2>u. UNCHANGED <<marks, record, memory, served>>
      BY <2>1
    <2>10. CASE ~marks
      BY <1>0, <2>7, <2>u, <2>8, <2>10 DEF ServingFits, DedupeSafe
    <2>11. CASE marks /\ call'[a].at # "asks"
      <3>1. \A b \in Attempts : call'[b].at = "asks" => call[b].at = "asks"
        BY <2>4, <2>11
      <3> QED
        BY <1>0, <2>u, <2>8, <2>9, <2>11, <2>7, <3>1 DEF ServingFits, DedupeSafe
    <2>12. CASE marks /\ call'[a].at = "asks"
      <3>1. \/ job[a].at = "marked" /\ echo \in tracked[w] /\ tracked' = [tracked EXCEPT ![w] = @ \ {echo}]
            \/ job[a].at = "success" /\ tracked' = tracked
        <4>1. ~Closes(a, "repeat")
          BY <2>12, Closing
        <4> QED
          BY <2>1, <4>1
      <3>2. record.state = "settled" /\ Redeemable
        <4>1. CASE job[a].at = "marked" /\ echo \in tracked[w]
          BY <1>0, <2>2, <4>1 DEF JobsFit, Redeemable, echo
        <4>2. CASE job[a].at = "success"
          BY <1>0, <2>1, <2>12, <4>2 DEF JobsFit, Redeemable
        <4> QED
          BY <3>1, <4>1, <4>2
      <3>3. served = 0 /\ \A b \in Attempts : call[b].at # "asks"
        BY <1>0, <2>12, <3>2 DEF ServingFits
      <3>4. ~Redeemable'
        <4>1. CASE job[a].at = "marked" /\ echo \in tracked[w] /\ tracked' = [tracked EXCEPT ![w] = @ \ {echo}]
          <5>1. record.attempt = echo /\ echo \in Attempts
            BY <1>0, <2>2, <4>1 DEF JobsFit, echo
          <5>2. call[echo].at = "unanswered" /\ call[echo].by = w
            BY <1>0, <2>2, <4>1 DEF ServingFits
          <5>3. call'[echo].at # "open"
            BY <2>1, <2>4, <5>1, <5>2
          <5>4. echo \notin tracked'[w]
            BY <2>2, <4>1
          <5>5. \A v \in Wrappers : echo \notin tracked'[v]
            BY <1>0, <2>5, <5>2, <5>4 DEF ServingFits
          <5> QED
            BY <2>1, <5>1, <5>3, <5>5 DEF Redeemable
        <4>2. CASE job[a].at = "success" /\ tracked' = tracked
          <5>1. record.attempt = a
            BY <1>0, <2>12, <4>2 DEF JobsFit
          <5>2. \A v \in Wrappers : a \notin tracked[v]
            BY <1>0, <2>1 DEF ServingFits
          <5> QED
            BY <2>1, <2>12, <4>2, <5>1, <5>2 DEF Redeemable
        <4> QED
          BY <3>1, <4>1, <4>2
      <3>5. \A b \in Attempts : call'[b].at = "asks" => b = a
        BY <2>4, <3>3
      <3> QED
        BY <1>0, <2>u, <2>8, <2>12, <3>2, <3>3, <3>4, <3>5, <2>7 DEF ServingFits, DedupeSafe
    <2> QED
      BY <2>7, <2>10, <2>11, <2>12 DEF DedupeSafe
  <1>5. CASE AsksMemory(a)
    <2> DEFINE w == call[a].by
    <2>1. /\ call[a].at = "asks" /\ memory' = memory \cup {w}
          /\ UNCHANGED <<marks, record, job, tracked, forgot>>
          /\ \/ HasSeen(w) /\ Closes(a, "repeat") /\ served' = served
             \/ ~HasSeen(w) /\ Closes(a, "served") /\ served' = served + 1
      BY <1>5 DEF AsksMemory
    <2>2. w \in Wrappers
      BY <1>0, <2>1 DEF JobsFit
    <2> HIDE DEF w
    <2>3. PICK at \in {"served", "repeat"} : Closes(a, at)
      BY <2>1
    <2>4. /\ call' \in [Attempts -> CallType] /\ call'[a].at \in {"served", "repeat"}
          /\ call'[a].by = call[a].by
          /\ \A b \in Attempts : b # a => call'[b] = call[b]
      BY <2>3, Closing
    <2>5. DedupeTypeOK' /\ JobsFit'
      BY <2>1, <2>2, <2>4, WrapperTypes, WrapperJobs
    <2>6. \A v \in Wrappers : /\ IsFiniteSet(tracked'[v])
            /\ \A b \in tracked'[v] : call'[b].at = "unanswered" /\ call'[b].by = v
      BY <1>0, <2>1, <2>4 DEF ServingFits
    <2>7. CASE marks
      <3>1. /\ record.state = "settled" /\ served = 0 /\ ~Redeemable
            /\ \A b \in Attempts : call[b].at = "asks" => b = a
        BY <1>0, <2>1, <2>7 DEF ServingFits
      <3>2. served' \in {0, 1}
        BY <2>1, <3>1
      <3>3. ~Redeemable'
        BY <2>1, <2>4, <3>1, SettledHasAttempt DEF Redeemable
      <3>4. \A b \in Attempts : call'[b].at # "asks"
        BY <2>4, <3>1
      <3> QED
        BY <2>1, <2>6, <2>7, <3>1, <3>2, <3>3, <3>4, <2>5 DEF ServingFits, DedupeSafe
    <2>8. CASE ~marks
      <3>1. memory' # {}
        BY <2>1
      <3>2. served' \in {0, 1}
        BY <1>0, <2>1, <2>8 DEF ServingFits, HasSeen
      <3> QED
        BY <2>1, <2>5, <2>6, <2>8, <3>1, <3>2 DEF ServingFits, DedupeSafe
    <2> QED
      BY <2>7, <2>8
  <1>6. ASSUME NEW w \in Wrappers, SendsSettle(a, w) PROVE DedupeSafe'
    <2> DEFINE c == [at |-> "open", by |-> w]
    <2>1. /\ call[a].at = "idle" /\ call' = [call EXCEPT ![a] = c]
          /\ Serves(a, "sent", NoAttempt)
          /\ UNCHANGED <<marks, record, tracked, memory, served, forgot>>
      BY <1>6 DEF SendsSettle
    <2>2. c \in CallType /\ c.at = "open" /\ c.by = w
      BY DEF CallType
    <2> HIDE DEF c
    <2>3. /\ call' \in [Attempts -> CallType] /\ call'[a].at = "open" /\ call'[a].by = w
          /\ \A b \in Attempts : b # a => call'[b] = call[b]
      BY <2>1, <2>2
    <2>4. [at |-> "sent", echo |-> NoAttempt] \in JobType
      BY DEF JobType
    <2>5. /\ job' \in [Attempts -> JobType] /\ job'[a].at = "sent"
          /\ \A b \in Attempts : b # a => job'[b] = job[b]
      BY <2>1, <2>4, Serving
    <2>6. record.attempt # a
      BY <1>0, <2>1 DEF JobsFit
    <2>7. DedupeTypeOK'
      BY <2>1, <2>3, <2>5, WrapperTypes
    <2>8. JobsFit'
      BY <1>0, <2>1, <2>3, <2>5, <2>6 DEF JobsFit
    <2>9. ServingFits'
      <3>1. \A v \in Wrappers : a \notin tracked[v]
        BY <1>0, <2>1 DEF ServingFits
      <3>2. record.state = "settled" /\ Redeemable' => Redeemable
        <4>1. record.state = "settled" => record.attempt \in Attempts
          BY <1>0 DEF JobsFit, RecordType
        <4> QED
          BY <2>1, <2>3, <2>6, <4>1 DEF Redeemable
      <3>3. \A b \in Attempts : call'[b].at = "asks" => call[b].at = "asks"
        BY <2>3
      <3>4. \A v \in Wrappers : \A b \in tracked'[v] : call'[b].at = "unanswered" /\ call'[b].by = v
        BY <1>0, <2>1, <2>3, <3>1 DEF ServingFits
      <3> QED
        BY <1>0, <2>1, <3>2, <3>3, <3>4 DEF ServingFits
    <2> QED
      BY <2>7, <2>8, <2>9 DEF DedupeSafe
  <1> QED
    BY <1>1, <1>2, <1>3, <1>4, <1>5, <1>6

LEMMA RestartSafe ==
  ASSUME DedupeSafe, NEW w \in Wrappers, RestartsWrapper(w)
  PROVE  DedupeSafe'
  <1> USE DedupeFacts
  <1>0. JobsFit /\ ServingFits
    BY DEF DedupeSafe
  <1>1. /\ tracked' = [tracked EXCEPT ![w] = {}]
        /\ memory' = IF marks THEN memory \ {w} ELSE memory
        /\ UNCHANGED <<marks, record, job, served>>
    BY DEF RestartsWrapper
  <1>2. /\ call' \in [Attempts -> CallType]
        /\ \A a \in Attempts :
             /\ call'[a].by = call[a].by
             /\ call'[a].at = call[a].at
                \/ (call[a].at \in {"open", "asks"} /\ call'[a].at = "unanswered")
    <2>1. call' = [a \in Attempts |->
                IF call[a].by = w /\ call[a].at \in {"open", "asks"}
                THEN [call[a] EXCEPT !.at = "unanswered"] ELSE call[a]]
      BY DEF RestartsWrapper
    <2>2. \A a \in Attempts : call[a] \in CallType
      OBVIOUS
    <2>3. \A a \in Attempts : call'[a] \in CallType
      BY <2>1, <2>2 DEF CallType
    <2> QED
      BY <2>1, <2>2, <2>3 DEF CallType
  <1>3. \A v \in Wrappers :
          /\ tracked'[v] \subseteq tracked[v]
          /\ IsFiniteSet(tracked'[v]) /\ Cardinality(tracked'[v]) <= TrackedCapacity
    <2>1. tracked'[w] = {} /\ \A v \in Wrappers : v # w => tracked'[v] = tracked[v]
      BY <1>1
    <2>2. IsFiniteSet({}) /\ Cardinality({}) <= TrackedCapacity
      BY FS_EmptySet
    <2> TAKE v \in Wrappers
    <2>3. CASE v = w
      BY <2>1, <2>2, <2>3
    <2>4. CASE v # w
      BY <2>1, <2>4
    <2> QED
      BY <2>3, <2>4
  <1>4. DedupeTypeOK'
    <2>1. tracked' \in [Wrappers -> SUBSET Attempts]
      BY <1>1, <1>3
    <2>2. memory' \subseteq Wrappers
      BY <1>1
    <2> QED
      BY <1>1, <1>2, <1>3, <2>1, <2>2, WrapperTypes
  <1>5. JobsFit'
    BY <1>0, <1>1, <1>2 DEF JobsFit
  <1>6. ServingFits'
    <2>1. record.state = "settled" /\ Redeemable' => Redeemable
      <3> SUFFICES ASSUME record.state = "settled", Redeemable' PROVE Redeemable
        OBVIOUS
      <3>1. record.attempt \in Attempts
        BY SettledHasAttempt
      <3>2. CASE call'[record'.attempt].at = "open"
        BY <1>1, <1>2, <3>1, <3>2 DEF Redeemable
      <3>3. ASSUME NEW v \in Wrappers, record'.attempt \in tracked'[v] PROVE Redeemable
        BY <1>1, <1>3, <3>3 DEF Redeemable
      <3> QED
        BY <3>2, <3>3 DEF Redeemable
    <2>2. \A v \in Wrappers : \A b \in tracked'[v] : call'[b].at = "unanswered" /\ call'[b].by = v
      BY <1>0, <1>2, <1>3 DEF ServingFits
    <2>3. \A b \in Attempts : call'[b].at = "asks" => call[b].at = "asks"
      BY <1>2
    <2>4. \A v \in Wrappers : IsFiniteSet(tracked'[v])
      BY <1>3
    <2>5. ~marks => memory' = memory
      BY <1>1
    <2>6. UNCHANGED <<marks, record, served>>
      BY <1>1
    <2> QED
      BY <1>0, <2>1, <2>2, <2>3, <2>4, <2>5, <2>6 DEF ServingFits
  <1> QED
    BY <1>4, <1>5, <1>6 DEF DedupeSafe

LEMMA SafeStep == DedupeSafe /\ [DedupeNext]_dedupeVars => DedupeSafe'
  <1> SUFFICES ASSUME DedupeSafe, [DedupeNext]_dedupeVars PROVE DedupeSafe'
    OBVIOUS
  <1>1. CASE UNCHANGED dedupeVars
    BY <1>1 DEF DedupeSafe, DedupeTypeOK, JobsFit, ServingFits, Redeemable, dedupeVars
  <1>2. CASE \/ DecidesPayment
             \/ \E a \in Attempts :
                  \/ ClaimsPayment(a) \/ TakesStaleClaim(a) \/ FindsExisting(a) \/ RecordsEnvelope(a)
                  \/ AbandonsClaim(a) \/ AnswersHolder(a) \/ AnswersExisting(a) \/ SettleThrows(a)
    BY <1>2, FacilitatorSteps
  <1>3. ASSUME NEW a \in Attempts,
               \/ HearsNothing(a) \/ HearsPending(a) \/ HearsRefusal(a) \/ HearsSuccess(a)
               \/ AsksMemory(a) \/ \E w \in Wrappers : SendsSettle(a, w)
        PROVE  DedupeSafe'
    BY <1>3, WrapperSteps
  <1>4. ASSUME NEW w \in Wrappers, RestartsWrapper(w) PROVE DedupeSafe'
    BY <1>4, RestartSafe
  <1> QED
    BY <1>1, <1>2, <1>3, <1>4 DEF DedupeNext

\* Nothing is lost, step by step; settle does not throw once the envelope is
\* recorded.
LEMMA FacilitatorLosesNothing ==
  ASSUME ~MayThrow, DedupeSafe, NothingLost,
         \/ DecidesPayment
         \/ \E a \in Attempts :
              \/ ClaimsPayment(a) \/ TakesStaleClaim(a) \/ FindsExisting(a) \/ RecordsEnvelope(a)
              \/ AbandonsClaim(a) \/ AnswersHolder(a) \/ AnswersExisting(a) \/ SettleThrows(a)
  PROVE  NothingLost'
  <1> USE DedupeFacts
  <1>0. JobsFit /\ ServingFits /\ Facilitates
    BY DEF DedupeSafe, DecidesPayment, ClaimsPayment, TakesStaleClaim, FindsExisting,
           RecordsEnvelope, AbandonsClaim, AnswersHolder, AnswersExisting, SettleThrows
  <1> SUFFICES ASSUME marks, ~forgot PROVE NothingLost'
    BY <1>0 DEF Facilitates, NothingLost
  <1>n. /\ memory # {} => served = 1
        /\ \A a \in Attempts :
             /\ call[a].at = "refused" => job[a].at = "refused"
             /\ call[a].at = "served" => served = 1
             /\ call[a].at = "repeat" => record.state = "settled"
             /\ record.attempt = a /\ record.state \in {"submitted", "settled"} =>
                  job[a].at \in {"holds", "pending", "success"}
             /\ record.attempt = a /\ record.state = "settled" =>
                  \/ call[a].at \in {"open", "asks"} \/ a \in tracked[call[a].by]
                  \/ served = 1 \/ \E b \in Attempts : call[b].at = "asks"
             /\ call[a].at = "unanswered" /\ record.state # "settled" => a \in tracked[call[a].by]
    BY DEF NothingLost
  <1>u. UNCHANGED <<marks, call, tracked, memory, served, forgot>>
    BY <1>0 DEF Facilitates
  \* What a facilitator's step has to see to.
  <1>f. ASSUME \A a \in Attempts : job[a].at = "refused" => job'[a].at = "refused",
               record.state = "settled" => record' = record,
               \A a \in Attempts : record'.attempt = a /\ record'.state \in {"submitted", "settled"} =>
                 job'[a].at \in {"holds", "pending", "success"},
               \A a \in Attempts : record'.attempt = a /\ record'.state = "settled" =>
                 \/ call[a].at \in {"open", "asks"} \/ a \in tracked[call[a].by]
                 \/ served = 1 \/ \E b \in Attempts : call[b].at = "asks"
        PROVE  NothingLost'
    BY <1>f, <1>n, <1>u DEF NothingLost
  \* A step of one attempt's that leaves the record, which is not this one's
  \* once submitted.
  <1>a. ASSUME NEW a \in Attempts, NEW at, NEW echo, [at |-> at, echo |-> echo] \in JobType,
               Serves(a, at, echo), record' = record, job[a].at # "refused",
               record.attempt = a /\ record.state \in {"submitted", "settled"} =>
                 at \in {"holds", "pending", "success"}
        PROVE  NothingLost'
    <2>1. job'[a].at = at /\ \A b \in Attempts : b # a => job'[b] = job[b]
      BY <1>a, Serving
    <2> QED
      BY <1>a, <1>f, <1>n, <2>1
  <1>o. \A at \in Outcomes \cup {"waits"} : \A echo \in Attempts \cup {NoAttempt} :
          [at |-> at, echo |-> echo] \in JobType
    BY DEF JobType
  <1>1. CASE DecidesPayment
    <2>1. PICK s \in {"settled", "failed"} : record' = [record EXCEPT !.state = s]
      BY <1>1 DEF DecidesPayment
    <2>2. record.state = "submitted" /\ job' = job
      BY <1>1 DEF DecidesPayment
    <2>3. record'.state = s /\ record'.attempt = record.attempt
      BY <2>1 DEF RecordType
    <2>4. ASSUME NEW a \in Attempts, record'.attempt = a
          PROVE  \/ call[a].at \in {"open", "asks"} \/ a \in tracked[call[a].by]
                 \/ served = 1 \/ \E b \in Attempts : call[b].at = "asks"
      <3>1. job[a].at \in {"holds", "pending", "success"}
        BY <1>n, <2>2, <2>3, <2>4
      <3>2. call[a].at \notin {"idle", "refused", "repeat"}
        BY <1>0, <1>n, <2>2, <3>1 DEF JobsFit
      <3>3. call[a] \in CallType
        OBVIOUS
      <3>4. call[a].at \in {"open", "asks", "unanswered", "served"}
        BY <3>2, <3>3 DEF CallType
      <3> QED
        BY <1>n, <2>2, <3>4
    <2>5. \A a \in Attempts : record'.attempt = a /\ record'.state \in {"submitted", "settled"} =>
             job'[a].at \in {"holds", "pending", "success"}
      BY <1>n, <2>2, <2>3
    <2> QED
      BY <1>f, <2>2, <2>4, <2>5
  <1>2. ASSUME NEW a \in Attempts, ClaimsPayment(a) PROVE NothingLost'
    <2>1. /\ job[a].at = "sent" /\ record.state = "none" /\ Serves(a, "holds", NoAttempt)
          /\ record' = [state |-> "claimed", attempt |-> a]
      BY <1>2 DEF ClaimsPayment
    <2>2. [at |-> "holds", echo |-> NoAttempt] \in JobType
      BY DEF JobType
    <2>3. \A b \in Attempts : b # a => job'[b] = job[b]
      BY <2>1, <2>2, Serving
    <2> QED
      BY <1>f, <2>1, <2>3
  <1>3. ASSUME NEW a \in Attempts, TakesStaleClaim(a) PROVE NothingLost'
    <2>1. /\ job[a].at = "sent" /\ record.state = "claimed"
          /\ record' = [state |-> "claimed", attempt |-> a]
          /\ job' = [b \in Attempts |->
               IF b = a THEN [job[a] EXCEPT !.at = "holds"]
               ELSE IF job[b].at = "holds" THEN [job[b] EXCEPT !.at = "waits"] ELSE job[b]]
      BY <1>3 DEF TakesStaleClaim, TakenOverBy
    <2>2. \A b \in Attempts : job[b].at = "refused" => job'[b].at = "refused"
      BY <2>1
    <2> QED
      BY <1>f, <2>1, <2>2
  <1>4. ASSUME NEW a \in Attempts, FindsExisting(a) PROVE NothingLost'
    <2>1. job[a].at = "sent" /\ record' = record /\ Serves(a, "waits", NoAttempt)
      BY <1>4 DEF FindsExisting
    <2>2. ~(record.attempt = a /\ record.state \in {"submitted", "settled"})
      BY <1>n, <2>1
    <2> QED
      BY <1>a, <1>o, <2>1, <2>2
  <1>5. ASSUME NEW a \in Attempts, RecordsEnvelope(a) PROVE NothingLost'
    <2>1. /\ job[a].at = "holds" /\ record.state = "claimed" /\ job' = job
          /\ record' = [record EXCEPT !.state = "submitted"]
      BY <1>5 DEF RecordsEnvelope
    <2>2. record'.state = "submitted" /\ record'.attempt = record.attempt
      BY <2>1 DEF RecordType
    <2>3. record.attempt = a
      BY <1>0, <2>1 DEF JobsFit
    <2> QED
      BY <1>f, <2>1, <2>2, <2>3
  <1>6. ASSUME NEW a \in Attempts, AbandonsClaim(a) PROVE NothingLost'
    <2>1. /\ job[a].at = "holds" /\ record.state = "claimed" /\ Serves(a, "refused", NoAttempt)
          /\ record' = [state |-> "none", attempt |-> NoAttempt]
      BY <1>6 DEF AbandonsClaim
    <2>2. [at |-> "refused", echo |-> NoAttempt] \in JobType
      BY DEF JobType, Outcomes
    <2>3. job'[a].at = "refused" /\ \A b \in Attempts : b # a => job'[b] = job[b]
      BY <2>1, <2>2, Serving
    <2> QED
      BY <1>f, <2>1, <2>3
  <1>8. ASSUME NEW a \in Attempts, AnswersHolder(a) PROVE NothingLost'
    <2>1. /\ job[a].at = "holds" /\ record' = record
          /\ \/ Serves(a, "success", NoAttempt) \/ Serves(a, "pending", NoAttempt)
             \/ record.state = "failed" /\ Serves(a, "refused", NoAttempt)
      BY <1>8 DEF AnswersHolder
    <2> QED
      BY <1>a, <1>o, <2>1 DEF Outcomes
  <1>9. ASSUME NEW a \in Attempts, AnswersExisting(a) PROVE NothingLost'
    <2>1. /\ job[a].at = "waits" /\ record' = record
          /\ \E at \in Outcomes, echo \in Attempts \cup {NoAttempt} : Serves(a, at, echo)
      BY <1>9 DEF AnswersExisting, Outcomes, RecordType
    <2>2. ~(record.attempt = a /\ record.state \in {"submitted", "settled"})
      BY <1>n, <2>1
    <2> QED
      BY <1>a, <1>o, <2>1, <2>2
  <1>10. ASSUME NEW a \in Attempts, SettleThrows(a) PROVE NothingLost'
    <2>1. /\ (job[a].at = "holds" /\ record.state = "claimed") \/ job[a].at = "waits"
          /\ record' = record /\ Serves(a, "refused", NoAttempt)
      BY <1>10 DEF SettleThrows
    <2>2. ~(record.attempt = a /\ record.state \in {"submitted", "settled"})
      BY <1>n, <2>1
    <2>3. [at |-> "refused", echo |-> NoAttempt] \in JobType
      BY DEF JobType, Outcomes
    <2> QED
      BY <1>a, <2>1, <2>2, <2>3
  <1> QED
    BY <1>1, <1>2, <1>3, <1>4, <1>5, <1>6, <1>8, <1>9, <1>10

LEMMA WrapperLosesNothing ==
  ASSUME DedupeSafe, NothingLost, NEW a \in Attempts,
         \/ HearsNothing(a) \/ HearsPending(a) \/ HearsRefusal(a) \/ HearsSuccess(a)
         \/ AsksMemory(a) \/ \E w \in Wrappers : SendsSettle(a, w)
  PROVE  NothingLost'
  <1> USE DedupeFacts
  <1>0. JobsFit /\ ServingFits
    BY DEF DedupeSafe
  <1>1. marks' = marks /\ record' = record /\ (~forgot' => forgot' = forgot)
    BY DEF HearsNothing, HearsPending, HearsRefusal, HearsSuccess, AsksMemory, SendsSettle,
           AddsUnfinished
  <1> SUFFICES ASSUME marks, ~forgot, ~forgot' PROVE NothingLost'
    BY <1>1 DEF NothingLost
  <1>n. /\ memory # {} => served = 1
        /\ \A b \in Attempts :
             /\ call[b].at = "refused" => job[b].at = "refused"
             /\ call[b].at = "served" => served = 1
             /\ call[b].at = "repeat" => record.state = "settled"
             /\ record.attempt = b /\ record.state \in {"submitted", "settled"} =>
                  job[b].at \in {"holds", "pending", "success"}
             /\ record.attempt = b /\ record.state = "settled" =>
                  \/ call[b].at \in {"open", "asks"} \/ b \in tracked[call[b].by]
                  \/ served = 1 \/ \E c \in Attempts : call[c].at = "asks"
             /\ call[b].at = "unanswered" /\ record.state # "settled" => b \in tracked[call[b].by]
    BY DEF NothingLost
  <1>2. CASE HearsNothing(a) \/ HearsPending(a)
    <2>1. /\ call[a].at = "open" /\ AddsUnfinished(a) /\ Closes(a, "unanswered")
          /\ UNCHANGED <<marks, record, memory, served>>
          /\ job' = job \/ (job[a].at = "sent" /\ Serves(a, "unreached", NoAttempt))
      BY <1>2 DEF HearsNothing, HearsPending
    <2>2. [at |-> "unreached", echo |-> NoAttempt] \in JobType
      BY DEF JobType
    <2>3. /\ job' \in [Attempts -> JobType]
          /\ job' = job \/ (job[a].at = "sent" /\ job'[a].at = "unreached"
                             /\ \A b \in Attempts : b # a => job'[b] = job[b])
      BY <2>1, <2>2, Serving
    <2>4. /\ a \in tracked'[call'[a].by]
          /\ \A b \in Attempts : \A w \in Wrappers : b \in tracked[w] => b \in tracked'[w]
      BY <1>1, <2>1, <2>3, Unanswered
    <2>5. /\ call'[a].at = "unanswered" /\ call'[a].by = call[a].by
          /\ \A b \in Attempts : b # a => call'[b] = call[b]
      BY <2>1, Closing
    <2>6. \A b \in Attempts : call[b].at # "idle" => call[b].by \in Wrappers
      BY <1>0 DEF JobsFit
    <2>7. \A b \in Attempts : record.attempt = b /\ record.state \in {"submitted", "settled"} =>
            job'[b].at \in {"holds", "pending", "success"}
      BY <1>n, <2>3
    <2>8. \A b \in Attempts : call'[b].at = "refused" => job'[b].at = "refused"
      BY <1>n, <2>3, <2>5
    <2>9. \A b \in Attempts : call'[b].at = "unanswered" /\ record.state # "settled"
             => b \in tracked'[call'[b].by]
      BY <1>n, <2>4, <2>5, <2>6
    <2>10. ASSUME NEW b \in Attempts, record.attempt = b, record.state = "settled"
           PROVE  \/ call'[b].at \in {"open", "asks"} \/ b \in tracked'[call'[b].by]
                  \/ served = 1 \/ \E c \in Attempts : call'[c].at = "asks"
      <3>1. CASE b = a
        BY <2>4, <3>1
      <3>2. CASE b # a
        <4>1. job[b].at # "idle"
          BY <1>n, <2>10
        <4>2. call[b].by \in Wrappers /\ call'[b] = call[b]
          BY <1>0, <2>5, <2>6, <3>2, <4>1 DEF JobsFit
        <4>3. \/ call[b].at \in {"open", "asks"} \/ b \in tracked[call[b].by]
              \/ served = 1 \/ \E c \in Attempts : call[c].at = "asks"
          BY <1>n, <2>10
        <4>4. (\E c \in Attempts : call[c].at = "asks") => \E c \in Attempts : call'[c].at = "asks"
          BY <2>1, <2>5
        <4> QED
          BY <2>4, <4>2, <4>3, <4>4
      <3> QED
        BY <3>1, <3>2
    <2>11. \A b \in Attempts : /\ call'[b].at = "served" => served = 1
                               /\ call'[b].at = "repeat" => record.state = "settled"
      BY <1>n, <2>5
    <2> QED
      BY <1>n, <2>1, <2>7, <2>8, <2>9, <2>10, <2>11 DEF NothingLost
  <1>3. CASE HearsRefusal(a)
    <2>1. /\ call[a].at = "open" /\ job[a].at = "refused" /\ Closes(a, "refused")
          /\ UNCHANGED <<record, job, tracked, memory, served>>
      BY <1>3 DEF HearsRefusal
    <2>2. /\ call'[a].at = "refused" /\ \A b \in Attempts : b # a => call'[b] = call[b]
      BY <2>1, Closing
    <2>3. ~(record.attempt = a /\ record.state = "settled")
      BY <1>n, <2>1
    <2>4. (\E c \in Attempts : call[c].at = "asks") => \E c \in Attempts : call'[c].at = "asks"
      BY <2>1, <2>2
    <2>5. \A b \in Attempts : record.attempt = b /\ record.state = "settled" =>
            \/ call'[b].at \in {"open", "asks"} \/ b \in tracked[call'[b].by]
            \/ served = 1 \/ \E c \in Attempts : call'[c].at = "asks"
      BY <1>n, <2>2, <2>3, <2>4
    <2> QED
      BY <1>n, <2>1, <2>2, <2>5 DEF NothingLost
  <1>4. CASE HearsSuccess(a)
    <2> DEFINE w == call[a].by
               echo == job[a].echo
    <2>1. /\ call[a].at = "open" /\ UNCHANGED <<record, job, memory, served>>
          /\ \/ /\ job[a].at = "marked" /\ echo \in tracked[w] /\ Closes(a, "asks")
             \/ /\ job[a].at = "marked" /\ tracked' = [tracked EXCEPT ![w] = @ \ {echo}]
                /\ echo \notin tracked[w] /\ Closes(a, "repeat")
             \/ job[a].at = "success" /\ Closes(a, "asks")
      BY <1>4 DEF HearsSuccess
    <2>2. record.state = "settled"
      BY <1>0, <2>1 DEF JobsFit
    <2>3. CASE Closes(a, "asks")
      <3>1. call'[a].at = "asks" /\ \A b \in Attempts : b # a => call'[b] = call[b]
        BY <2>3, Closing
      <3> QED
        BY <1>n, <2>1, <2>2, <3>1 DEF NothingLost
    <2>4. CASE /\ job[a].at = "marked" /\ tracked' = [tracked EXCEPT ![w] = @ \ {echo}]
               /\ echo \notin tracked[w] /\ Closes(a, "repeat")
      <3>1. call'[a].at = "repeat" /\ \A b \in Attempts : b # a => call'[b] = call[b]
        BY <2>4, Closing
      <3>2. record.attempt # a
        BY <1>n, <2>2, <2>4
      <3>3. tracked' = tracked
        <4>1. \A v \in Wrappers : tracked'[v] = tracked[v]
          BY <2>4
        <4> QED
          BY <2>4, <4>1
      <3>4. (\E c \in Attempts : call[c].at = "asks") => \E c \in Attempts : call'[c].at = "asks"
        BY <2>1, <3>1
      <3>5. \A b \in Attempts : record.attempt = b /\ record.state = "settled" =>
              \/ call'[b].at \in {"open", "asks"} \/ b \in tracked'[call'[b].by]
              \/ served = 1 \/ \E c \in Attempts : call'[c].at = "asks"
        BY <1>n, <3>1, <3>2, <3>3, <3>4
      <3> HIDE DEF w, echo
      <3>6. UNCHANGED <<record, job, memory, served>>
        BY <2>1
      <3> QED
        BY <1>n, <2>2, <3>1, <3>5, <3>6 DEF NothingLost
    <2> QED
      BY <2>1, <2>3, <2>4
  <1>5. CASE AsksMemory(a)
    <2>1. /\ call[a].at = "asks" /\ memory' = memory \cup {call[a].by}
          /\ UNCHANGED <<record, job, tracked>>
          /\ \/ HasSeen(call[a].by)
             \/ Closes(a, "served") /\ served' = served + 1
      BY <1>5 DEF AsksMemory
    <2>2. served = 0 /\ record.state = "settled"
      BY <1>0, <2>1 DEF ServingFits
    <2>3. ~HasSeen(call[a].by)
      BY <1>n, <2>2 DEF HasSeen
    <2>4. call'[a].at = "served" /\ served' = 1
      BY <2>1, <2>2, <2>3, Closing
    <2>5. \A b \in Attempts : b # a => call'[b] = call[b]
      BY <2>1, <2>3, Closing
    <2> QED
      BY <1>n, <2>1, <2>2, <2>4, <2>5 DEF NothingLost
  <1>6. ASSUME NEW w \in Wrappers, SendsSettle(a, w) PROVE NothingLost'
    <2> DEFINE c == [at |-> "open", by |-> w]
    <2>1. /\ call[a].at = "idle" /\ call' = [call EXCEPT ![a] = c]
          /\ Serves(a, "sent", NoAttempt)
          /\ UNCHANGED <<marks, record, tracked, memory, served, forgot>>
      BY <1>6 DEF SendsSettle
    <2>2. call'[a] = c /\ c.at = "open" /\ \A b \in Attempts : b # a => call'[b] = call[b]
      BY <2>1
    <2> HIDE DEF c
    <2>3. [at |-> "sent", echo |-> NoAttempt] \in JobType
      BY DEF JobType
    <2>4. job'[a].at = "sent" /\ \A b \in Attempts : b # a => job'[b] = job[b]
      BY <2>1, <2>3, Serving
    <2>5. record.attempt # a
      BY <1>0, <2>1 DEF JobsFit
    <2>6. (\E b \in Attempts : call[b].at = "asks") => \E b \in Attempts : call'[b].at = "asks"
      BY <2>1, <2>2
    <2>7. \A b \in Attempts : record.attempt = b /\ record.state = "settled" =>
            \/ call'[b].at \in {"open", "asks"} \/ b \in tracked[call'[b].by]
            \/ served = 1 \/ \E d \in Attempts : call'[d].at = "asks"
      BY <1>n, <2>2, <2>5, <2>6
    <2> QED
      BY <1>n, <2>1, <2>2, <2>4, <2>5, <2>7 DEF NothingLost
  <1> QED
    BY <1>2, <1>3, <1>4, <1>5, <1>6

LEMMA DedupeStep == DedupeSound /\ [DedupeNext]_dedupeVars => DedupeSound'
  <1> SUFFICES ASSUME DedupeSound, [DedupeNext]_dedupeVars PROVE DedupeSound'
    OBVIOUS
  <1>1. DedupeSafe /\ DedupeSafe'
    BY SafeStep DEF DedupeSound
  <1>2. ASSUME ~MayThrow PROVE NothingLost'
    <2>0. NothingLost
      BY <1>2 DEF DedupeSound
    <2>1. CASE UNCHANGED dedupeVars
      BY <2>0, <2>1 DEF NothingLost, dedupeVars
    <2>2. CASE \/ DecidesPayment
               \/ \E a \in Attempts :
                    \/ ClaimsPayment(a) \/ TakesStaleClaim(a) \/ FindsExisting(a) \/ RecordsEnvelope(a)
                    \/ AbandonsClaim(a) \/ AnswersHolder(a) \/ AnswersExisting(a) \/ SettleThrows(a)
      BY <1>1, <1>2, <2>0, <2>2, FacilitatorLosesNothing
    <2>3. ASSUME NEW a \in Attempts,
                 \/ HearsNothing(a) \/ HearsPending(a) \/ HearsRefusal(a) \/ HearsSuccess(a)
                 \/ AsksMemory(a) \/ \E w \in Wrappers : SendsSettle(a, w)
          PROVE  NothingLost'
      BY <1>1, <2>0, <2>3, WrapperLosesNothing
    <2>4. ASSUME NEW w \in Wrappers, RestartsWrapper(w) PROVE NothingLost'
      BY <2>4 DEF RestartsWrapper, NothingLost
    <2> QED
      BY <2>1, <2>2, <2>3, <2>4 DEF DedupeNext
  <1> QED
    BY <1>1, <1>2 DEF DedupeSound

\* The dedupe's part of every behaviour: the right to be served that a settled
\* attempt earned stays with one wrapper until it is used, once (DedupeSound).
THEOREM DedupeIsSound == PartsSpec => [](subject = "dedupe" => DedupeSound)
  <1>1. PartsInit => (subject = "dedupe" => DedupeSound)
    BY DedupeStart DEF PartsInit
  <1>2. ASSUME subject = "dedupe" => DedupeSound, [PartsNext]_partsVars
        PROVE  (subject = "dedupe" => DedupeSound)'
    <2> SUFFICES ASSUME subject' = "dedupe" PROVE DedupeSound'
      OBVIOUS
    <2>1. subject = "dedupe" /\ [DedupeNext]_dedupeVars
      BY <1>2 DEF PartsNext, partsVars
    <2> QED
      BY <1>2, <2>1, DedupeStep
  <1> QED
    BY <1>1, <1>2, PTL DEF PartsSpec

\* One payment is served once, for any number of attempts and wrappers, with or
\* without marks from the facilitator (ServedOnce: withSettleDedupe of
\* dedupe.ts).
THEOREM OnceForGood == PartsSpec => []OncePerPayment
  <1>1. (subject = "dedupe" => DedupeSound) => OncePerPayment
    BY DEF DedupeSound, DedupeSafe, ServingFits, ServedOnce, OncePerPayment
  <1> QED
    BY <1>1, DedupeIsSound, PTL

\* A settled payment that was not served can still be, by the wrapper whose
\* attempt settled it, if settle answers no other error once the envelope is recorded
\* and no wrapper restarted or dropped an attempt (LostIsServable: dedupe.ts).
THEOREM LostIsServedForGood ==
  ASSUME ~MayThrow
  PROVE  PartsSpec => []LostIsServed
  <1>1. (subject = "dedupe" => DedupeSound) => LostIsServed
    <2> SUFFICES ASSUME DedupeSound, marks, ~forgot, record.state = "settled", served = 0,
                        \A a \in Attempts : Closed(a)
                 PROVE  record.attempt \in tracked[call[record.attempt].by]
      BY DEF LostIsServed, LostIsServable
    <2>1. DedupeSafe /\ NothingLost
      BY DEF DedupeSound
    <2>2. record.attempt \in Attempts
      BY <2>1, SettledHasAttempt
    <2>3. \A a \in Attempts : call[a].at \notin {"open", "asks"}
      BY DEF Closed
    <2> QED
      BY <2>1, <2>2, <2>3 DEF NothingLost
  <1> QED
    BY <1>1, DedupeIsSound, PTL

-----------------------------------------------------------------------------
(* The pool and the hold in the behaviours of the run, and all parts.        *)

\* Every channel of the in-process pool stays in exactly one place and nobody
\* waits beside a free one, whichever part a behaviour is about (PoolIsWhole:
\* MemoryChannelPool).
THEOREM PartsKeepPoolWhole == PartsSpec => [](PoolTypeOK /\ PoolIsWhole)
  <1>1. PartsInit => Whole
    BY StartsWhole DEF PartsInit
  <1>2. ASSUME Whole, [PartsNext]_partsVars PROVE Whole'
    <2>1. [PoolNext]_poolVars
      BY <1>2 DEF PartsNext, partsVars
    <2> QED
      BY <1>2, <2>1, StepsKeepWhole
  <1> QED
    BY <1>1, <1>2, WholeParts, PTL DEF PartsSpec

LEMMA HoldPartStep ==
  [PartsNext]_partsVars /\ subject' = "hold" => subject = "hold" /\ [HoldNext]_holdVars
  BY DEF PartsNext, partsVars

LEMMA HoldPartTypes == PartsSpec => [](subject = "hold" => HoldTypeFits /\ ReadingsPaced)
  <1>1. PartsInit => (subject = "hold" => HoldTypeFits /\ ReadingsPaced)
    BY HoldStarts DEF PartsInit
  <1>2. ASSUME subject = "hold" => HoldTypeFits /\ ReadingsPaced, [PartsNext]_partsVars
        PROVE  (subject = "hold" => HoldTypeFits /\ ReadingsPaced)'
    BY <1>2, HoldPartStep, HoldTypeStep
  <1> QED
    BY <1>1, <1>2, PTL DEF PartsSpec

\* The types of every part hold whatever its actors do: the network's and the
\* callers' spends, the pool's lists, the recorded ledgers, the buyer's rows, none
\* of which counts more as settled than was reserved, and the claims on a payment
\* (PartsTypeOK).
THEOREM PartsTypeCorrect == PartsSpec => []PartsTypeOK
  <1>1. ASSUME subject = "hold" => HoldTypeFits /\ ReadingsPaced,
               subject = "budget" => BudgetSound,
               subject = "dedupe" => DedupeSound,
               subject = "buyer" => BuyerSound,
               PoolTypeOK
        PROVE  PartsTypeOK
    BY <1>1 DEF PartsTypeOK, HoldTypeFits, BudgetSound, DedupeSound, DedupeSafe, BuyerSound
  <1> QED
    BY <1>1, HoldPartTypes, BudgetIsSound, DedupeIsSound, BuyerIsSound, PartsKeepPoolWhole, PTL

\* No upto payment settles on chain after a restore before every authorization
\* accepted before it expired, for any number of replicas and runs: on pubnet
\* with any overruns and lies, elsewhere with polls that end in time and one lie
\* (HoldCoversTheLost: restoreHold with recordRestoreHold).
THEOREM HeldForGood ==
  ASSUME ResetIsCorroborated
  PROVE  PartsSpec => []LostIsHeld
  <1>1. PartsInit => (subject = "hold" => HoldSound)
    BY HoldStarts, HoldSoundParts DEF PartsInit
  <1>2. ASSUME subject = "hold" => HoldSound, [PartsNext]_partsVars
        PROVE  (subject = "hold" => HoldSound)'
    BY <1>2, HoldPartStep, HoldStep
  <1>3. (subject = "hold" => HoldSound) => LostIsHeld
    BY SoundCovers DEF LostIsHeld
  <1> QED
    BY <1>1, <1>2, <1>3, PTL DEF PartsSpec

\* The parts stay sound as the run checks them, if the events of a proof are not
\* read behind the check of their range (PartsSound).
THEOREM PartsStaySound ==
  ASSUME EventsLag = 0
  PROVE  PartsSpec => []PartsSound
  <1>1. ASSUME subject = "hold" => HoldTypeFits /\ ReadingsPaced,
               subject = "budget" => BudgetSound /\ AdmittedWithin,
               subject = "dedupe" => DedupeSound,
               subject = "buyer" => BuyerSound /\ WindowsWithinCap
        PROVE  PartsSound
    BY <1>1 DEF PartsSound
  <1> QED
    BY <1>1, HoldPartTypes, PartStaysWithin, DedupeIsSound, PartStaysCapped, PTL

==============================================================================
