----------------------- MODULE MonitorSessions_proofs -----------------------
(***************************************************************************)
(* Theorems about the live-sale monitor and its sink, for any sales, rows, *)
(* events and limits: the pages it watches and the window of keys that it  *)
(* does not post again.                                                    *)
(***************************************************************************)
EXTENDS MonitorSessions, FiniteSetTheorems, SequenceTheorems, WellFoundedInduction, TLAPS

\* The monitor by itself, from any calendar: in AuctionDay the deal of the agents
\* leaves all of this unchanged.
MonitorNext ==
    \/ MonitorStep /\ UNCHANGED clockVars
    \/ \E s \in Sale : TimePasses(s) /\ UNCHANGED MonitorVars

MonitorSpec == /\ MonitorInit /\ SinkInit
               /\ [][MonitorNext]_<<clockVars, MonitorVars>>

-----------------------------------------------------------------------------
(* Induction over the naturals, and what filter returns                     *)

\* Induction: a set of naturals without a least element is empty.
LEMMA NoLeast ==
    ASSUME NEW B \in SUBSET Nat, \A m \in B : \E k \in B : ~(m <= k)
    PROVE  B = {}
  <1> DEFINE Downs == {0..m : m \in B}
  <1> SUFFICES ASSUME B # {} PROVE FALSE
    OBVIOUS
  <1>1. IsWellFoundedOn(StrictSubsetOrdering(Nat), FiniteSubsetsOf(Nat))
    BY FS_StrictSubsetOrderingWellFounded
  <1>2. Downs \subseteq FiniteSubsetsOf(Nat) /\ Downs # {}
    <2>1. \A m \in B : IsFiniteSet(0..m)
      BY FS_Interval
    <2>2. \A m \in B : 0..m \in SUBSET Nat
      OBVIOUS
    <2>3. \A T \in Downs : T \in SUBSET Nat /\ IsFiniteSet(T)
      BY <2>1, <2>2
    <2> HIDE DEF Downs
    <2>4. Downs \subseteq FiniteSubsetsOf(Nat)
      BY <2>3 DEF FiniteSubsetsOf
    <2> QED BY <2>4 DEF Downs
  <1>3. PICK x \in Downs : \A y \in Downs : ~(<<y, x>> \in StrictSubsetOrdering(Nat))
    <2> HIDE DEF Downs
    <2> QED BY <1>1, <1>2, WFMin
  <1>4. PICK m \in B : x = 0..m
    OBVIOUS
  <1>5. PICK k \in B : ~(m <= k)
    OBVIOUS
  <1>6. /\ 0..k \in SUBSET Nat /\ 0..m \in SUBSET Nat
        /\ 0..k \subseteq 0..m /\ m \in 0..m /\ m \notin 0..k
    BY <1>5
  <1>7. <<0..k, 0..m>> \in StrictSubsetOrdering(Nat)
    <2>1. 0..k # 0..m
      BY <1>6
    <2> QED BY <1>6, <2>1 DEF StrictSubsetOrdering
  <1> QED BY <1>3, <1>4, <1>7

\* filter, step by step: f[i] is what is kept of the first i elements.
Filtering(s, S, n, f) ==
    f = [i \in 0..n |-> IF i = 0 THEN << >>
                        ELSE IF s[i] \in S THEN Append(f[i - 1], s[i])
                        ELSE f[i - 1]]

LEMMA FilteringExists ==
    ASSUME NEW s, NEW S, NEW n \in Nat
    PROVE  \E f : Filtering(s, S, n, f)
  <1> DEFINE Bad == {m \in Nat : ~\E f : Filtering(s, S, m, f)}
  <1>1. SUFFICES Bad = {}
    OBVIOUS
  <1>2. SUFFICES ASSUME NEW m \in Bad, \A k \in Bad : m <= k PROVE FALSE
    <2>1. Bad \in SUBSET Nat /\ \A m \in Bad : \E k \in Bad : ~(m <= k)
      OBVIOUS
    <2> HIDE DEF Bad
    <2> QED BY <2>1, NoLeast
  <1>3. m \in Nat /\ ~\E f : Filtering(s, S, m, f)
    OBVIOUS
  <1>4. CASE m = 0
    <2> DEFINE g == [i \in 0..0 |-> << >>]
    <2>1. g = [i \in 0..0 |-> IF i = 0 THEN << >>
                        ELSE IF s[i] \in S THEN Append(g[i - 1], s[i])
                        ELSE g[i - 1]]
      <3>1. \A i \in 0..0 : i = 0
        OBVIOUS
      <3> QED BY <3>1
    <2> QED BY <1>3, <1>4, <2>1 DEF Filtering
  <1>5. CASE m # 0
    <2>1. m - 1 \in Nat /\ m - 1 \notin Bad
      BY <1>2, <1>3, <1>5
    <2>2. PICK g : Filtering(s, S, m - 1, g)
      BY <2>1
    <2> DEFINE last == IF s[m] \in S THEN Append(g[m - 1], s[m]) ELSE g[m - 1]
               h == [i \in 0..m |-> IF i = m THEN last ELSE g[i]]
    <2>3. DOMAIN h = 0..m /\ h[m] = last /\ \A i \in 0..(m - 1) : h[i] = g[i]
      BY <1>3
    <2> HIDE DEF h
    <2>4. \A i \in 0..(m - 1) : g[i] = IF i = 0 THEN << >>
                                  ELSE IF s[i] \in S THEN Append(g[i - 1], s[i])
                                  ELSE g[i - 1]
      BY <2>2 DEF Filtering
    <2>5. \A i \in 0..m : h[i] = IF i = 0 THEN << >>
                                  ELSE IF s[i] \in S THEN Append(h[i - 1], s[i])
                                  ELSE h[i - 1]
      <3> SUFFICES ASSUME NEW i \in 0..m
                   PROVE  h[i] = IF i = 0 THEN << >>
                                  ELSE IF s[i] \in S THEN Append(h[i - 1], s[i])
                                  ELSE h[i - 1]
        OBVIOUS
      <3>1. CASE i = m
        <4>1. m - 1 \in 0..(m - 1) /\ h[m - 1] = g[m - 1]
          BY <1>3, <1>5, <2>3
        <4> QED BY <1>5, <2>3, <3>1, <4>1
      <3>2. CASE i # m
        <4>1. i \in 0..(m - 1) /\ (i # 0 => i - 1 \in 0..(m - 1))
          BY <1>3, <3>2
        <4> QED BY <2>3, <2>4, <4>1
      <3> QED BY <3>1, <3>2
    <2>6. h = [i \in 0..m |-> h[i]]
      BY DEF h
    <2>7. Filtering(s, S, m, h)
      BY <2>5, <2>6 DEF Filtering
    <2> QED BY <1>3, <2>7
  <1> QED BY <1>4, <1>5

LEMMA KeptIs ==
    ASSUME NEW D, NEW s \in Seq(D), NEW S
    PROVE  \E f : Filtering(s, S, Len(s), f) /\ Kept(s, S) = f[Len(s)]
  <1> DEFINE f == CHOOSE g : Filtering(s, S, Len(s), g)
  <1>1. Filtering(s, S, Len(s), f)
    BY FilteringExists
  <1>2. Kept(s, S) = f[Len(s)]
    BY DEF Kept, Filtering
  <1> QED BY <1>1, <1>2

\* kept are the elements of S among the first m of s, in their order: the i-th comes
\* from place at[i], and none is missing.
Picked(s, S, m, kept, at) ==
    /\ at \in [1..Len(kept) -> 1..m]
    /\ \A i \in 1..Len(kept) : kept[i] = s[at[i]] /\ kept[i] \in S
    /\ \A i, j \in 1..Len(kept) : i < j => at[i] < at[j]
    /\ \A k \in 1..m : s[k] \in S => \E i \in 1..Len(kept) : at[i] = k

LEMMA OnePassed ==
    ASSUME NEW D, NEW s \in Seq(D), NEW S, NEW m \in 1..Len(s), NEW kept \in Seq(D),
           NEW at, Picked(s, S, m - 1, kept, at), s[m] \notin S
    PROVE  Picked(s, S, m, kept, at)
  <1>1. m \in Nat /\ 1..(m - 1) \subseteq 1..m
    OBVIOUS
  <1>2. at \in [1..Len(kept) -> 1..m]
    BY <1>1 DEF Picked
  <1>3. \A k \in 1..m : s[k] \in S => k \in 1..(m - 1)
    BY <1>1
  <1> QED BY <1>2, <1>3 DEF Picked

LEMMA OneKept ==
    ASSUME NEW D, NEW s \in Seq(D), NEW S, NEW m \in 1..Len(s), NEW kept \in Seq(D),
           NEW at, Picked(s, S, m - 1, kept, at), s[m] \in S
    PROVE  \E to : Picked(s, S, m, Append(kept, s[m]), to)
  <1>1. PICK r \in Nat : r = Len(kept)
    OBVIOUS
  <1>2. PICK more : more = Append(kept, s[m])
    OBVIOUS
  <1>3. /\ Len(more) = r + 1 /\ more[r + 1] = s[m]
        /\ \A i \in 1..r : more[i] = kept[i]
    BY <1>1, <1>2
  <1>4. /\ at \in [1..r -> 1..(m - 1)] /\ m \in Nat /\ m \in 1..m
        /\ \A i \in 1..r : kept[i] = s[at[i]] /\ kept[i] \in S
        /\ \A i, j \in 1..r : i < j => at[i] < at[j]
        /\ \A k \in 1..(m - 1) : s[k] \in S => \E i \in 1..r : at[i] = k
    BY <1>1 DEF Picked
  <1> DEFINE to == [i \in 1..(r + 1) |-> IF i = r + 1 THEN m ELSE at[i]]
  <1>5. to[r + 1] = m /\ \A i \in 1..r : to[i] = at[i] /\ to[i] \in 1..(m - 1)
    BY <1>4
  <1>6. to \in [1..(r + 1) -> 1..m]
    BY <1>4
  <1> HIDE DEF to
  <1>7. ASSUME NEW i \in 1..(r + 1) PROVE more[i] = s[to[i]] /\ more[i] \in S
    <2>1. CASE i = r + 1
      BY <1>3, <1>5, <2>1
    <2>2. CASE i # r + 1
      <3>1. i \in 1..r
        BY <2>2
      <3> QED BY <1>3, <1>4, <1>5, <3>1
    <2> QED BY <2>1, <2>2
  <1>8. ASSUME NEW i \in 1..(r + 1), NEW j \in 1..(r + 1), i < j PROVE to[i] < to[j]
    <2>1. i \in 1..r
      BY <1>8
    <2>2. CASE j = r + 1
      BY <1>4, <1>5, <2>1, <2>2
    <2>3. CASE j # r + 1
      <3>1. j \in 1..r
        BY <2>3
      <3> QED BY <1>4, <1>5, <1>8, <2>1, <3>1
    <2> QED BY <2>2, <2>3
  <1>9. ASSUME NEW k \in 1..m, s[k] \in S PROVE \E i \in 1..(r + 1) : to[i] = k
    <2>1. CASE k = m
      BY <1>5, <2>1
    <2>2. CASE k # m
      <3>1. k \in 1..(m - 1)
        BY <1>4, <2>2
      <3>2. PICK i \in 1..r : at[i] = k
        BY <1>4, <1>9, <3>1
      <3> QED BY <1>5, <3>2
    <2> QED BY <2>1, <2>2
  <1>10. Picked(s, S, m, more, to)
    BY <1>3, <1>6, <1>7, <1>8, <1>9 DEF Picked
  <1> QED BY <1>2, <1>10

\* What filter returns: the elements of S, in their order, and all of them.
LEMMA KeptInOrder ==
    ASSUME NEW D, NEW s \in Seq(D), NEW S
    PROVE  Kept(s, S) \in Seq(D) /\ \E at : Picked(s, S, Len(s), Kept(s, S), at)
  <1>0. PICK n \in Nat : n = Len(s) /\ \A i \in 1..n : s[i] \in D
    OBVIOUS
  <1>1. PICK f : Filtering(s, S, n, f) /\ Kept(s, S) = f[n]
    BY <1>0, KeptIs
  <1>2. f[0] = << >> /\ \A i \in 1..n : f[i] = IF s[i] \in S THEN Append(f[i - 1], s[i])
                                               ELSE f[i - 1]
    <2>1. \A i \in 0..n : f[i] = IF i = 0 THEN << >>
                        ELSE IF s[i] \in S THEN Append(f[i - 1], s[i])
                        ELSE f[i - 1]
      BY <1>1 DEF Filtering
    <2>2. \A i \in 1..n : i # 0 /\ i \in 0..n
      OBVIOUS
    <2>3. 0 \in 0..n
      OBVIOUS
    <2> QED BY <2>1, <2>2, <2>3
  <1> DEFINE Good(m) == f[m] \in Seq(D) /\ \E at : Picked(s, S, m, f[m], at)
             Bad == {m \in 0..n : ~Good(m)}
  <1>3. Good(0)
    <2>1. f[0] \in Seq(D) /\ Len(f[0]) = 0
      BY <1>2
    <2>2. [i \in 1..0 |-> 0] \in [1..0 -> 1..0]
      OBVIOUS
    <2> QED BY <2>1, <2>2 DEF Picked
  <1>4. ASSUME NEW m \in 1..n, Good(m - 1) PROVE Good(m)
    <2>1. PICK old, at : old \in Seq(D) /\ old = f[m - 1] /\ Picked(s, S, m - 1, old, at)
      BY <1>4
    <2>2. m \in 1..Len(s) /\ s[m] \in D
      BY <1>0
    <2>3. CASE s[m] \notin S
      <3>1. f[m] = old
        BY <1>2, <2>1, <2>3
      <3> QED BY <2>1, <2>2, <2>3, <3>1, OnePassed
    <2>4. CASE s[m] \in S
      <3>1. f[m] = Append(old, s[m])
        BY <1>2, <2>1, <2>4
      <3>2. f[m] \in Seq(D)
        BY <2>1, <2>2, <3>1
      <3> QED BY <2>1, <2>2, <2>4, <3>1, <3>2, OneKept
    <2> QED BY <2>3, <2>4
  <1> HIDE DEF Good
  <1>5. Bad = {}
    <2> SUFFICES ASSUME NEW m \in Bad, \A k \in Bad : m <= k PROVE FALSE
      <3>1. Bad \in SUBSET Nat /\ \A m \in Bad : \E k \in Bad : ~(m <= k)
        OBVIOUS
      <3> HIDE DEF Bad
      <3> QED BY <3>1, NoLeast
    <2>1. m # 0 /\ m \in 1..n
      BY <1>3
    <2>2. m - 1 \in 0..n /\ m - 1 \notin Bad
      BY <2>1
    <2> QED BY <1>4, <2>1, <2>2
  <1>6. Good(n)
    BY <1>5
  <1> QED BY <1>0, <1>1, <1>6 DEF Good

-----------------------------------------------------------------------------
(* The window of keys                                                       *)

\* A key stands twice in the order only if it was given up in between.
RepeatsGivenUp ==
    \A i, j \in DOMAIN keyOrder :
        i # j /\ keyOrder[i] = keyOrder[j] => keyOrder[i] \in gaveUp

WindowInv ==
    /\ keyOrder \in Seq(Key)
    /\ WindowRemembers
    /\ RepeatsGivenUp

windowVars == <<sentKeys, keyOrder, gaveUp>>

LEMMA RememberKeepsWindow ==
    ASSUME WindowInv, NEW k \in Key, k \notin sentKeys, Remember(k), UNCHANGED gaveUp
    PROVE  WindowInv'
  <1> DEFINE order == Append(keyOrder, k)
             n     == Len(keyOrder)
  <1>1. /\ n \in Nat /\ n <= MaxKeys /\ MaxKeys \in Nat \ {0}
        /\ keyOrder \in Seq(Key) /\ DOMAIN keyOrder = 1..n
        /\ \A i \in 1..n : keyOrder[i] \in Key
    BY SinkAssumption DEF WindowInv, WindowRemembers
  <1>2. /\ order \in Seq(Key) /\ Len(order) = n + 1 /\ DOMAIN order = 1..(n + 1)
        /\ \A i \in 1..n : order[i] = keyOrder[i]
        /\ order[n + 1] = k
    BY <1>1
  <1>3. \A i, j \in 1..(n + 1) : i # j /\ order[i] = order[j] => order[i] \in gaveUp
    <2> SUFFICES ASSUME NEW i \in 1..(n + 1), NEW j \in 1..(n + 1), i < j,
                        order[i] = order[j]
                 PROVE  order[i] \in gaveUp
      BY <1>1
    <2>1. CASE j = n + 1
      <3>1. i \in 1..n /\ keyOrder[i] = k
        BY <1>1, <1>2, <2>1
      <3>2. k \in ToSet(keyOrder) \ sentKeys
        BY <1>1, <3>1 DEF ToSet
      <3> QED BY <1>2, <2>1, <3>2 DEF WindowInv, WindowRemembers
    <2>2. CASE j # n + 1
      <3>1. i \in 1..n /\ j \in 1..n
        BY <1>1, <2>2
      <3> QED BY <1>1, <1>2, <3>1 DEF WindowInv, RepeatsGivenUp
    <2> QED BY <2>1, <2>2
  <1>4. ToSet(order) = ToSet(keyOrder) \cup {k}
    <2>1. ToSet(order) = {order[i] : i \in 1..(n + 1)}
      BY <1>2 DEF ToSet
    <2>2. ToSet(keyOrder) = {keyOrder[i] : i \in 1..n}
      BY <1>1 DEF ToSet
    <2> HIDE DEF order
    <2> QED BY <1>1, <1>2, <2>1, <2>2
  <1>5. CASE Len(order) > MaxKeys
    <2>1. /\ keyOrder' = Tail(order)
          /\ sentKeys' = (sentKeys \cup {k}) \ {order[1]}
      BY <1>2, <1>5 DEF Remember, Forgotten
    <2> HIDE DEF order
    <2>2. Len(order) = n + 1 /\ n = MaxKeys
      <3>1. n \in Nat /\ MaxKeys \in Nat /\ n <= MaxKeys
        BY <1>1
      <3>2. Len(order) = n + 1 /\ Len(order) > MaxKeys
        BY <1>2, <1>5
      <3> HIDE DEF n
      <3> QED BY <3>1, <3>2
    <2>3. /\ keyOrder' \in Seq(Key) /\ Len(keyOrder') = n /\ DOMAIN keyOrder' = 1..n
          /\ \A i \in 1..n : keyOrder'[i] = order[i + 1]
      BY <1>1, <1>2, <2>1
    <2>4. ToSet(keyOrder') = {order[i + 1] : i \in 1..n}
      BY <2>3 DEF ToSet
    <2>5. ToSet(order) = {order[i] : i \in 1..(n + 1)}
      BY <1>2 DEF ToSet
    <2>6. ToSet(order) \ {order[1]} \subseteq ToSet(keyOrder')
      <3> SUFFICES ASSUME NEW i \in 1..(n + 1), order[i] # order[1]
                   PROVE  order[i] \in ToSet(keyOrder')
        BY <2>5
      <3>1. i - 1 \in 1..n /\ order[i] = order[(i - 1) + 1]
        BY <1>1
      <3> QED BY <2>4, <3>1
    <2>7. ToSet(keyOrder') \subseteq ToSet(order)
      BY <1>1, <2>4, <2>5
    <2>8. order[1] \in ToSet(keyOrder') => order[1] \in gaveUp
      BY <1>1, <1>3, <2>4
    <2>9. WindowRemembers'
      BY <1>1, <1>4, <2>1, <2>2, <2>3, <2>6, <2>7, <2>8 DEF WindowInv, WindowRemembers
    <2>10. RepeatsGivenUp'
      BY <1>1, <1>3, <2>3 DEF RepeatsGivenUp
    <2> QED BY <2>3, <2>9, <2>10 DEF WindowInv
  <1>6. CASE ~(Len(order) > MaxKeys)
    <2>1. keyOrder' = order /\ sentKeys' = sentKeys \cup {k}
      BY <1>6 DEF Remember, Forgotten
    <2> HIDE DEF order
    <2>2. WindowRemembers'
      BY <1>1, <1>2, <1>4, <1>6, <2>1 DEF WindowInv, WindowRemembers
    <2>3. RepeatsGivenUp'
      BY <1>2, <1>3, <2>1 DEF RepeatsGivenUp
    <2> QED BY <1>2, <2>1, <2>2, <2>3 DEF WindowInv
  <1> QED BY <1>5, <1>6

\* Only three steps touch the window.
LEMMA WindowSteps ==
    ASSUME MonitorNext
    PROVE  \/ UNCHANGED windowVars
           \/ \E p \in Page, e \in Event : Enqueue(p, e)
           \/ Fails
           \/ SinkDies
  <1> USE DEF windowVars, sinkVars
  <1>1. ASSUME NEW s \in Sale, TimePasses(s), UNCHANGED MonitorVars
        PROVE  UNCHANGED windowVars
    BY <1>1 DEF MonitorVars
  <1>2. ASSUME Scheduler PROVE UNCHANGED windowVars
    BY <1>2 DEF Scheduler, TickBegins, TickStep, Reconcile, ReadRows, StopTurn, StopEnds,
                ReadDue, CreateDue, TakePending, Login, StartSession, OpenEnds, MonitorBoots
  <1>3. ASSUME Requests \/ TickThrows \/ Toggle PROVE UNCHANGED windowVars
    BY <1>3 DEF Requests, WriteStop, WriteStart, TickThrows, Toggle
  <1>4. ASSUME SinkStep PROVE UNCHANGED windowVars \/ Fails
    BY <1>4 DEF SinkStep, ApiStores, ApiStoresLate, Posted, Retry
  <1>5. ASSUME NEW p \in Page, Frame(p)
        PROVE  UNCHANGED windowVars \/ \E e \in Event : Enqueue(p, e)
    BY <1>5 DEF Frame
  <1>6. ASSUME NEW p \in Page, PageDies(p) \/ AskStop(p) PROVE UNCHANGED windowVars
    BY <1>6 DEF PageDies, AskStop
  <1>7. ASSUME NEW s \in Sale, AskStart(s) PROVE UNCHANGED windowVars
    BY <1>7 DEF AskStart
  <1>8. ASSUME MonitorDies PROVE SinkDies
    BY <1>8 DEF MonitorDies
  <1> QED
    BY <1>1, <1>2, <1>3, <1>4, <1>5, <1>6, <1>7, <1>8 DEF MonitorNext, MonitorStep

LEMMA WindowKept ==
    ASSUME WindowInv, [MonitorNext]_<<clockVars, MonitorVars>>
    PROVE  WindowInv'
  <1>1. CASE UNCHANGED windowVars
    BY <1>1 DEF windowVars, WindowInv, WindowRemembers, RepeatsGivenUp
  <1>2. ASSUME NEW p \in Page, NEW e \in Event, Enqueue(p, e)
        PROVE  WindowInv'
    <2>1. /\ KeyOf(e) \in Key /\ KeyOf(e) \notin sentKeys
          /\ Remember(KeyOf(e)) /\ UNCHANGED gaveUp
      BY <1>2 DEF Enqueue, Duplicate, Key
    <2> QED BY <2>1, RememberKeepsWindow
  <1>3. CASE Fails
    <2>1. PICK keys : /\ sentKeys' = sentKeys \ keys
                      /\ gaveUp' = gaveUp \cup keys
                      /\ UNCHANGED keyOrder
      BY <1>3 DEF Fails
    <2> QED BY <2>1 DEF WindowInv, WindowRemembers, RepeatsGivenUp
  <1>4. CASE SinkDies
    <2>1. keyOrder' = << >> /\ sentKeys' = {}
      BY <1>4 DEF SinkDies
    <2> QED BY <2>1, SinkAssumption DEF WindowInv, WindowRemembers, RepeatsGivenUp, ToSet
  <1>5. CASE UNCHANGED <<clockVars, MonitorVars>>
    BY <1>1, <1>5 DEF MonitorVars, sinkVars, windowVars
  <1> QED
    BY <1>1, <1>2, <1>3, <1>4, <1>5, WindowSteps

\* Every key of the last MAX_KEYS is refused, unless it was given up since the worker
\* started, and no other key is (SaleEventSinkService.remember): for any number of keys,
\* any batches and any failures.
THEOREM WindowHolds == MonitorSpec => []WindowRemembers
  <1>1. SinkInit => WindowInv
    BY SinkAssumption DEF SinkInit, WindowInv, WindowRemembers, RepeatsGivenUp, ToSet
  <1>2. WindowInv => WindowRemembers
    BY DEF WindowInv
  <1> QED
    BY <1>1, <1>2, WindowKept, PTL DEF MonitorSpec

-----------------------------------------------------------------------------
(* Rows, runners and pages                                                  *)

\* The rows somebody has something to do with exist.
Booked == \A p \in runners \cup work.off \cup work.todo \cup asked : row[p].status # "none"

\* A tick in flight is one of the living worker, and closes or opens one page.
TickSane ==
    /\ work.pc # "idle" => up
    /\ work.pc \notin {"stop", "open"} => work.off = {}
    /\ work.pc \in {"pause", "conditions", "stop"} => work.off \cup work.todo \subseteq runners
    /\ work.pc = "stop" => work.off \cap work.todo = {}
    /\ work.pc = "open" => \E p \in Page : work.off = {p}

\* An open page is held, or is the one the tick is opening.
PagesHeld ==
    \A p \in Page : page[p] = "open" =>
        /\ up /\ p \in runners \cup work.off
        /\ work.pc # "open" => p \in runners
        /\ row[p].status \in {"starting", "running", "stopping"}

\* What the tick is about to open is not open, and what it is closing is closed.
TakenClosed ==
    /\ work.pc \in {"login", "start", "open"} => \A p \in work.todo : page[p] # "open"
    /\ work.pc = "stop" => \A p \in work.off : page[p] = "none"

\* What the tick has taken fits with what is already held.
RoomKept ==
    /\ Cardinality(runners) <= MaxConcurrent
    /\ work.pc \in {"login", "start", "open"} =>
          Cardinality(runners) + Cardinality(work.off) + Cardinality(work.todo) <= MaxConcurrent

PageInv == MonitorTypeOK /\ Booked /\ TickSane /\ PagesHeld /\ TakenClosed /\ RoomKept

LEMMA Records ==
    /\ NoWork \in Work /\ [NoWork EXCEPT !.pc = "reconcile"] \in Work
    /\ NoWork.todo = {} /\ NoWork.off = {} /\ NoWork.pc = "idle"
    /\ NoRow \in Row /\ NoRow.status = "none" /\ NoRow.sale = NoSale
  BY DEF NoWork, Work, NoRow, Row, Live, Terminal

LEMMA FinitePages == \A S \in SUBSET Page : IsFiniteSet(S) /\ Cardinality(S) \in Nat
  BY MonitorAssumption, FS_Subset, FS_CardinalityType

\* What the rows may become under a page that stays as it is.
RowsKept ==
    /\ row' \in [Page -> Row]
    /\ \A p \in Page : /\ row'[p].status = "none" <=> row'[p].sale = NoSale
                       /\ row[p].status # "none" => row'[p].status # "none"
                       /\ page[p] = "open" =>
                             row'[p].status \in {"starting", "running", "stopping"}

LEMMA SameRows == ASSUME PageInv, UNCHANGED row PROVE RowsKept
  BY DEF PageInv, MonitorTypeOK, PagesHeld, RowsKept

\* Rows that are closed keep their sale, and none is the row of an open page.
LEMMA CloseKeeps ==
    ASSUME PageInv, NEW S \in SUBSET Page,
           \A p \in S : row[p].status # "none" /\ page[p] # "open",
           NEW status \in {"stopped", "failed"},
           NEW why \in Terminal \cup {"", "lost", "paused", "shutdown"},
           row' = Close(S, status, why)
    PROVE  RowsKept
  <1>1. /\ row' \in [Page -> Row]
        /\ \A p \in Page : /\ row'[p].sale = row[p].sale
                           /\ row'[p].status = IF p \in S THEN status ELSE row[p].status
    <2>1. \A p \in Page : row[p] \in Row
      BY DEF PageInv, MonitorTypeOK
    <2>2. ASSUME NEW p \in Page
          PROVE  row'[p] = IF p \in S THEN [row[p] EXCEPT !.status = status, !.why = why]
                             ELSE row[p]
      BY DEF Close
    <2>3. ASSUME NEW r \in Row
          PROVE  /\ [r EXCEPT !.status = status, !.why = why] \in Row
                 /\ [r EXCEPT !.status = status, !.why = why].sale = r.sale
                 /\ [r EXCEPT !.status = status, !.why = why].status = status
      BY DEF Row
    <2>4. ASSUME NEW p \in Page
          PROVE  /\ row'[p] \in Row
                 /\ row'[p].sale = row[p].sale
                 /\ row'[p].status = IF p \in S THEN status ELSE row[p].status
      BY <2>1, <2>2, <2>3
    <2> QED BY <2>4 DEF Close
  <1> QED BY <1>1 DEF PageInv, MonitorTypeOK, PagesHeld, RowsKept

\* Fresh is a row nobody has anything to do with yet.
LEMMA CreatedKeeps ==
    ASSUME PageInv, NEW s \in Sale, Created(s)
    PROVE  RowsKept
  <1>2. Fresh \in Page /\ row[Fresh].status = "none"
    BY DEF Created, Fresh, Is
  <1>3. page[Fresh] # "open"
    BY <1>2 DEF PageInv, PagesHeld
  <1> DEFINE new == [NoRow EXCEPT !.status = "pending", !.sale = s]
  <1>4. row' = [row EXCEPT ![Fresh] = new] /\ new \in Row
        /\ new.status = "pending" /\ new.sale = s
    BY DEF Created, NoRow, Row, Live
  <1>5. s # NoSale
    BY MonitorAssumption
  <1> HIDE DEF new
  <1> QED
    BY <1>2, <1>3, <1>4, <1>5 DEF RowsKept, PageInv, MonitorTypeOK, PagesHeld

\* Steps of the tick that neither open nor close a page.
LEMMA PlainStep ==
    ASSUME PageInv, RowsKept, up, work.off = {}, UNCHANGED <<page, runners, asked, up>>,
           monitored' \in SUBSET Sale, halted' \in BOOLEAN, wanted' \in SUBSET Sale,
           watchLeft' \in [staff : Nat, fault : Nat],
           work' \in Work, work'.off = {}, work'.pc \notin {"stop", "open"},
           \A p \in work'.todo : row'[p].status # "none",
           work'.pc \in {"pause", "conditions"} => work'.todo \subseteq runners,
           work'.pc \in {"login", "start"} =>
              /\ Cardinality(runners) + Cardinality(work'.todo) <= MaxConcurrent
              /\ \A p \in work'.todo : page[p] # "open"
    PROVE  PageInv'
  <1>1. work.pc # "open"
    BY DEF PageInv, TickSane
  <1>2. MonitorTypeOK'
    BY DEF PageInv, MonitorTypeOK, RowsKept
  <1>3. Booked'
    BY DEF PageInv, MonitorTypeOK, Booked, RowsKept
  <1>4. TickSane'
    BY DEF PageInv, TickSane
  <1>5. PagesHeld'
    BY <1>1 DEF PageInv, PagesHeld, RowsKept
  <1>6. RoomKept'
    BY FS_EmptySet, FinitePages DEF PageInv, MonitorTypeOK, RoomKept
  <1>7. TakenClosed'
    BY DEF TakenClosed
  <1> QED BY <1>2, <1>3, <1>4, <1>5, <1>6, <1>7 DEF PageInv

\* reconcile, applyStopConditions, enqueueDueEntries and startDue up to its login.
LEMMA TickReads ==
    ASSUME PageInv, TickBegins \/ ReadRows \/ ReadDue \/ CreateDue \/ TakePending \/ Login
    PROVE  PageInv'
  <1> USE Records
  <1>0. /\ up /\ work.off = {} /\ work \in Work
        /\ monitored \in SUBSET Sale /\ halted \in BOOLEAN /\ wanted \in SUBSET Sale
        /\ watchLeft \in [staff : Nat, fault : Nat]
        /\ runners \in SUBSET Page
    BY DEF PageInv, MonitorTypeOK, TickSane, TickBegins, ReadRows, ReadDue, CreateDue,
           TakePending, Login
  <1>1. CASE TickBegins
    <2>1. /\ work' \in Work /\ work'.off = {} /\ work'.todo \subseteq runners
          /\ work'.pc \in {"idle", "pause", "reconcile"}
      BY <1>0, <1>1 DEF TickBegins, StopLoop, NoWork, Work
    <2>2. RowsKept
      BY <1>1, SameRows DEF TickBegins
    <2>3. \A p \in work'.todo : row'[p].status # "none"
      BY <1>1, <2>1 DEF TickBegins, PageInv, Booked
    <2> QED BY <1>0, <1>1, <2>1, <2>2, <2>3, PlainStep DEF TickBegins
  <1>2. CASE ReadRows
    <2>1. /\ work' \in Work /\ work'.off = {} /\ work'.todo \subseteq runners
          /\ work'.pc \in {"idle", "due", "conditions"}
      BY <1>0, <1>2 DEF ReadRows, StopLoop, NoWork, Work, SeenStopping, AskedToStop
    <2>2. RowsKept
      <3>1. \A p \in Lost : p \in Page /\ row[p].status # "none" /\ page[p] # "open"
        BY <1>0 DEF Lost, Is, PageInv, PagesHeld
      <3> QED BY <1>2, <3>1, CloseKeeps DEF ReadRows
    <2>3. \A p \in work'.todo : row'[p].status # "none"
      BY <1>0, <2>1, <2>2 DEF PageInv, Booked, RowsKept
    <2> QED BY <1>0, <1>2, <2>1, <2>2, <2>3, PlainStep DEF ReadRows
  <1>3. CASE ReadDue
    <2>1. /\ work' \in Work /\ work'.off = {} /\ work'.todo = work.todo
          /\ work'.pc \in {"take", "create"}
      BY <1>0, <1>3, ZenonT(60) DEF ReadDue, Work, Uncovered, Due
    <2>2. RowsKept
      BY <1>3, SameRows DEF ReadDue
    <2>3. \A p \in work'.todo : row'[p].status # "none"
      BY <1>3, <2>1 DEF ReadDue, PageInv, Booked
    <2> QED BY <1>0, <1>3, <2>1, <2>2, <2>3, PlainStep DEF ReadDue
  <1>4. CASE CreateDue
    <2>1. PICK s \in work.sales :
             /\ Created(s)
             /\ work' = [work EXCEPT !.pc = IF work.sales = {s} THEN "take" ELSE "create",
                                     !.sales = @ \ {s}]
      BY <1>4 DEF CreateDue
    <2>2. s \in Sale
      BY <1>0 DEF Work
    <2>3. /\ work' \in Work /\ work'.off = {} /\ work'.todo = work.todo
          /\ work'.pc \in {"take", "create"}
      BY <1>0, <2>1 DEF Work
    <2>4. RowsKept
      BY <2>1, <2>2, CreatedKeeps
    <2>5. \A p \in work'.todo : row'[p].status # "none"
      BY <1>0, <2>3, <2>4 DEF PageInv, Booked, RowsKept, Work
    <2> QED BY <1>0, <1>4, <2>3, <2>4, <2>5, PlainStep DEF CreateDue
  <1>5. CASE TakePending
    <2> DEFINE pending == {p \in Page : Is(p, {"pending"})}
               room    == MaxConcurrent - Cardinality(runners)
    <2>1. RowsKept
      BY <1>5, SameRows DEF TakePending
    <2>2. CASE work' = NoWork
      BY <1>0, <1>5, <2>1, <2>2, PlainStep DEF TakePending
    <2>3. CASE work' # NoWork
      <3>1. PICK C \in Some(pending, room) :
               work' = [work EXCEPT !.pc = "login", !.todo = C]
        BY <1>5, <2>3 DEF TakePending
      <3>2. C \subseteq pending /\ Cardinality(C) = Least(Cardinality(pending), room)
        BY <3>1 DEF Some
      <3>3. /\ Cardinality(pending) \in Nat /\ Cardinality(runners) \in Nat
            /\ MaxConcurrent \in Nat
        BY <1>0, FinitePages, MonitorAssumption
      <3>4. Cardinality(C) <= MaxConcurrent - Cardinality(runners)
        BY <3>2, <3>3 DEF Least
      <3>5. Cardinality(C) \in Nat
        BY <3>2, FinitePages
      <3>6. Cardinality(runners) + Cardinality(C) <= MaxConcurrent
        BY <3>3, <3>4, <3>5
      <3>7. /\ work' \in Work /\ work'.off = {} /\ work'.todo = C /\ work'.pc = "login"
        BY <1>0, <3>1, <3>2 DEF Work
      <3>8. \A p \in work'.todo : row'[p].status # "none"
        BY <1>5, <3>2, <3>7 DEF TakePending, Is
      <3>9. \A p \in work'.todo : page[p] # "open"
        BY <3>2, <3>7 DEF Is, PageInv, PagesHeld
      <3> QED BY <1>0, <1>5, <2>1, <3>6, <3>7, <3>8, <3>9, PlainStep DEF TakePending
    <2> QED BY <2>2, <2>3
  <1>6. CASE Login
    <2>1. CASE work' = [work EXCEPT !.pc = "start"] /\ UNCHANGED row
      <3>1. /\ work' \in Work /\ work'.off = {} /\ work'.todo = work.todo
            /\ work'.pc = "start"
        BY <1>0, <2>1 DEF Work
      <3>2. \A p \in work'.todo : row'[p].status # "none"
        BY <2>1, <3>1 DEF PageInv, Booked
      <3>3. Cardinality(runners) + Cardinality(work.todo) <= MaxConcurrent
        <4>1. /\ Cardinality(runners) \in Nat /\ Cardinality(work.todo) \in Nat
              /\ Cardinality(work.off) = 0 /\ MaxConcurrent \in Nat
          BY <1>0, FS_EmptySet, FinitePages, MonitorAssumption DEF Work
        <4>2. Cardinality(runners) + Cardinality(work.off) + Cardinality(work.todo)
                 <= MaxConcurrent
          BY <1>6 DEF Login, PageInv, RoomKept
        <4> QED BY <4>1, <4>2
      <3>4. \A p \in work'.todo : page[p] # "open"
        BY <1>6, <3>1 DEF Login, PageInv, TakenClosed
      <3>5. RowsKept
        BY <2>1, SameRows
      <3> QED BY <1>0, <1>6, <3>1, <3>2, <3>3, <3>4, <3>5, PlainStep DEF Login
    <2>2. CASE work' = NoWork /\ row' = Close(work.todo, "failed", "")
      <3>1. \A p \in work.todo : p \in Page /\ row[p].status # "none" /\ page[p] # "open"
        BY <1>0, <1>6 DEF Login, PageInv, Booked, TakenClosed, Work
      <3>2. RowsKept
        BY <2>2, <3>1, CloseKeeps
      <3> QED BY <1>0, <1>6, <2>2, <3>2, PlainStep DEF Login
    <2> QED BY <1>6, <2>1, <2>2 DEF Login
  <1> QED
    BY <1>1, <1>2, <1>3, <1>4, <1>5, <1>6

\* Typed fields, for the steps that open and close pages.
LEMMA Typed ==
    ASSUME PageInv
    PROVE  /\ runners \in SUBSET Page /\ asked \in SUBSET Page
           /\ work \in Work /\ work.off \in SUBSET Page /\ work.todo \in SUBSET Page
           /\ row \in [Page -> Row] /\ page \in [Page -> {"none", "open", "dead"}]
           /\ Cardinality(runners) \in Nat /\ Cardinality(work.off) \in Nat
           /\ Cardinality(work.todo) \in Nat /\ MaxConcurrent \in Nat
  <1>1. /\ runners \in SUBSET Page /\ asked \in SUBSET Page
        /\ work \in Work /\ work.off \in SUBSET Page /\ work.todo \in SUBSET Page
        /\ row \in [Page -> Row] /\ page \in [Page -> {"none", "open", "dead"}]
    BY DEF PageInv, MonitorTypeOK, Work
  <1> QED BY <1>1, FinitePages, MonitorAssumption

LEMMA SpendTyped ==
    ASSUME PageInv, NEW kind \in {"staff", "fault"}, SpendWatch(kind)
    PROVE  watchLeft' \in [staff : Nat, fault : Nat]
  <1>1. watchLeft \in [staff : Nat, fault : Nat]
    BY DEF PageInv, MonitorTypeOK
  <1> QED BY <1>1 DEF SpendWatch

LEMMA TriesTyped ==
    ASSUME PageInv, NEW rows, Tries(rows)
    PROVE  (row' = rows \/ row' = row) /\ watchLeft' \in [staff : Nat, fault : Nat]
  BY SpendTyped DEF Tries, PageInv, MonitorTypeOK

LEMMA OneMore ==
    ASSUME NEW S \in SUBSET Page, NEW p \in Page
    PROVE  /\ Cardinality(S \cup {p}) \in Nat /\ Cardinality(S) \in Nat
           /\ Cardinality(S \cup {p}) <= Cardinality(S) + 1
  <1>1. IsFiniteSet(S) /\ Cardinality(S) \in Nat
    BY FinitePages
  <1>2. Cardinality(S \cup {p}) = IF p \in S THEN Cardinality(S) ELSE Cardinality(S) + 1
    BY <1>1, FS_AddElement
  <1> QED BY <1>1, <1>2

\* A page less is watched by no fewer.
LEMMA SmallerSet ==
    ASSUME NEW S \in SUBSET Page, NEW T \in SUBSET S
    PROVE  Cardinality(T) <= Cardinality(S)
  BY FinitePages, FS_Subset

\* reconcile drops the runners without a page, and stopSession the one it has closed.
LEMMA RunnersDropped ==
    ASSUME PageInv, Reconcile \/ StopEnds
    PROVE  PageInv'
  <1> USE Records, Typed
  <1>1. CASE Reconcile
    <2> DEFINE dead == {p \in runners : page[p] # "open"}
    <2>1. /\ work.pc = "reconcile" /\ up /\ work.off = {}
          /\ runners' = runners \ dead
          /\ page' = [p \in Page |-> IF p \in dead THEN "none" ELSE page[p]]
          /\ work' = [work EXCEPT !.pc = "rows"]
          /\ UNCHANGED <<monitored, halted, asked, wanted, up>>
      BY <1>1 DEF Reconcile, PageInv, TickSane
    <2>2. RowsKept /\ watchLeft' \in [staff : Nat, fault : Nat]
      <3>1. \A p \in dead : p \in Page /\ row[p].status # "none" /\ page[p] # "open"
        BY DEF PageInv, Booked
      <3>2. row' = Close(dead, "failed", "") => RowsKept
        BY <3>1, CloseKeeps
      <3>3. row' = row => RowsKept
        BY SameRows
      <3>4. Tries(Close(dead, "failed", ""))
        BY <1>1 DEF Reconcile
      <3> QED BY <3>2, <3>3, <3>4, TriesTyped
    <2>3. /\ work' \in Work /\ work'.off = {} /\ work'.todo = work.todo
          /\ work'.pc = "rows"
      BY <2>1 DEF Work
    <2>4. page' \in [Page -> {"none", "open", "dead"}]
          /\ \A p \in Page : page'[p] = "open" => page[p] = "open" /\ p \notin dead
      BY <2>1
    <2>5. Cardinality(runners') <= Cardinality(runners) /\ Cardinality(runners') \in Nat
      BY <2>1, SmallerSet, FinitePages
    <2> HIDE DEF dead
    <2>6. MonitorTypeOK'
      BY <2>1, <2>2, <2>3, <2>4 DEF PageInv, MonitorTypeOK, RowsKept
    <2>7. Booked' /\ TickSane'
      BY <2>1, <2>2, <2>3 DEF PageInv, Booked, TickSane, RowsKept
    <2>8. PagesHeld' /\ TakenClosed'
      BY <2>1, <2>2, <2>3, <2>4 DEF PageInv, PagesHeld, TakenClosed, RowsKept
    <2>9. RoomKept'
      <3>1. Cardinality(runners) <= MaxConcurrent
        BY DEF PageInv, RoomKept
      <3>2. Cardinality(runners') <= MaxConcurrent
        BY <2>5, <3>1
      <3> QED BY <2>3, <3>2 DEF RoomKept
    <2> QED BY <2>6, <2>7, <2>8, <2>9 DEF PageInv
  <1>2. CASE StopEnds
    <2>1. /\ work.pc = "stop" /\ up /\ work.off \subseteq runners
          /\ runners' = runners \ work.off
          /\ UNCHANGED <<page, monitored, halted, asked, wanted, up>>
      BY <1>2 DEF StopEnds, PageInv, TickSane
    <2>2. /\ work' \in Work /\ work'.off = {} /\ work'.todo \subseteq work.todo
          /\ work'.pc \in {"idle", "due", "pause", "conditions"}
      BY <1>2, ZenonT(60) DEF StopEnds, StopLoop, NoWork, Work
    <2>3. RowsKept /\ watchLeft' \in [staff : Nat, fault : Nat]
      <3>1. \A p \in work.off : p \in Page /\ row[p].status # "none" /\ page[p] # "open"
        BY <2>1 DEF PageInv, Booked, TakenClosed
      <3>2. row' = Close(work.off, "stopped", work.why) => RowsKept
        <4>1. work.why \in Terminal \cup {"", "lost", "paused", "shutdown"}
          BY DEF Work
        <4> QED BY <3>1, <4>1, CloseKeeps
      <3>3. row' = row => RowsKept
        BY SameRows
      <3>4. Tries(Close(work.off, "stopped", work.why))
        BY <1>2 DEF StopEnds
      <3> QED BY <3>2, <3>3, <3>4, TriesTyped
    <2>4. Cardinality(runners') <= Cardinality(runners) /\ Cardinality(runners') \in Nat
      BY <2>1, SmallerSet, FinitePages
    <2>5. MonitorTypeOK'
      BY <2>1, <2>2, <2>3 DEF PageInv, MonitorTypeOK, RowsKept
    <2>6. Booked' /\ TickSane'
      BY <2>1, <2>2, <2>3 DEF PageInv, Booked, TickSane, RowsKept
    <2>7. PagesHeld' /\ TakenClosed'
      BY <2>1, <2>2, <2>3 DEF PageInv, PagesHeld, TakenClosed, RowsKept
    <2>8. RoomKept'
      <3>1. Cardinality(runners) <= MaxConcurrent
        BY DEF PageInv, RoomKept
      <3>2. Cardinality(runners') <= MaxConcurrent
        BY <2>4, <3>1
      <3> QED BY <2>2, <3>2 DEF RoomKept
    <2> QED BY <2>5, <2>6, <2>7, <2>8 DEF PageInv
  <1> QED BY <1>1, <1>2

\* applyStopConditions and stopAll close a page, startSession opens one.
LEMMA PagesTurned ==
    ASSUME PageInv, StopTurn \/ StartSession
    PROVE  PageInv'
  <1> USE Records, Typed
  <1>1. CASE StopTurn
    <2>1. /\ work.pc \in {"pause", "conditions"} /\ up /\ work.off = {}
          /\ UNCHANGED <<row, runners, monitored, halted, asked, wanted, up, watchLeft>>
      BY <1>1 DEF StopTurn, PageInv, TickSane
    <2>2. RowsKept
      BY <2>1, SameRows
    <2>3. ASSUME NEW p \in work.todo, NEW why \in Terminal \cup {"paused"}, StopPage(p, why)
          PROVE  PageInv'
      <3>1. /\ p \in Page /\ page' = [page EXCEPT ![p] = "none"]
            /\ work' \in Work /\ work'.off = {p} /\ work'.todo \subseteq work.todo
            /\ work'.pc = "stop" /\ p \notin work'.todo
        <4>1. /\ p \in Page /\ why \in Terminal \cup {"", "paused"} /\ work \in Work
              /\ page' = [page EXCEPT ![p] = "none"]
              /\ work' = [work EXCEPT !.pc = "stop", !.off = {p}, !.why = why, !.todo = @ \ {p}]
          BY <2>3 DEF StopPage
        <4> QED BY <4>1 DEF Work
      <3>2. MonitorTypeOK'
        BY <2>1, <3>1 DEF PageInv, MonitorTypeOK
      <3>3. Booked'
        BY <2>1, <3>1 DEF PageInv, Booked
      <3>4. PagesHeld' /\ TakenClosed'
        BY <2>1, <3>1 DEF PageInv, PagesHeld, TakenClosed, TickSane
      <3>5. TickSane'
        BY <2>1, <2>3, <3>1 DEF PageInv, TickSane
      <3>6. RoomKept'
        BY <2>1, <3>1 DEF PageInv, RoomKept
      <3> QED BY <3>2, <3>3, <3>4, <3>5, <3>6 DEF PageInv
    <2>4. ASSUME NEW p \in work.todo, work' = StopLoop([work EXCEPT !.todo = @ \ {p}]),
                 UNCHANGED page
          PROVE  PageInv'
      <3>1. /\ work' \in Work /\ work'.off = {} /\ work'.todo \subseteq work.todo
            /\ work'.pc \in {"idle", "due", "pause", "conditions"}
        BY <2>1, <2>4, ZenonT(60) DEF StopLoop, NoWork, Work
      <3>2. \A q \in work'.todo : row'[q].status # "none"
        BY <2>1, <3>1 DEF PageInv, Booked
      <3>3. /\ monitored' \in SUBSET Sale /\ halted' \in BOOLEAN /\ wanted' \in SUBSET Sale
            /\ watchLeft' \in [staff : Nat, fault : Nat]
        BY <2>1 DEF PageInv, MonitorTypeOK
      <3>4. work'.pc \in {"pause", "conditions"} => work'.todo \subseteq runners
        BY <2>1, <3>1 DEF PageInv, TickSane
      <3> QED BY <2>1, <2>2, <2>4, <3>1, <3>2, <3>3, <3>4, PlainStep
    <2>5. PICK p \in work.todo :
             \/ StopPage(p, "paused")
             \/ \E why \in Reasons(p) :
                   IF why # "" THEN StopPage(p, why)
                   ELSE /\ work' = StopLoop([work EXCEPT !.todo = @ \ {p}])
                        /\ UNCHANGED page
      BY <1>1 DEF StopTurn
    <2>6. Reasons(p) \subseteq Terminal \cup {""}
      BY DEF Reasons, Terminal
    <2> QED BY <2>3, <2>4, <2>5, <2>6
  <1>2. CASE StartSession
    <2>1. PICK p \in work.todo :
             /\ row' = [row EXCEPT ![p].status = "starting"]
             /\ page' = [page EXCEPT ![p] = "open"]
             /\ work' = [work EXCEPT !.pc = "open", !.off = {p}, !.todo = @ \ {p}]
      BY <1>2 DEF StartSession
    <2>2. /\ work.pc = "start" /\ up /\ work.off = {} /\ p \in Page
          /\ UNCHANGED <<runners, monitored, halted, asked, wanted, up, watchLeft>>
      BY <1>2 DEF StartSession, PageInv, TickSane
    <2>3. /\ work' \in Work /\ work'.off = {p} /\ work'.todo = work.todo \ {p}
          /\ work'.pc = "open"
      BY <2>1, <2>2 DEF Work
    <2>4. /\ row' \in [Page -> Row] /\ row'[p].status = "starting"
          /\ row'[p].sale = row[p].sale /\ \A q \in Page : q # p => row'[q] = row[q]
      BY <2>1, <2>2 DEF Row, Live
    <2>5. row[p].status # "none"
      BY <2>1 DEF PageInv, Booked
    <2>6. MonitorTypeOK'
      BY <2>1, <2>2, <2>3, <2>4, <2>5 DEF PageInv, MonitorTypeOK
    <2>7. Booked' /\ TickSane'
      BY <2>2, <2>3, <2>4 DEF PageInv, Booked, TickSane
    <2>8. PagesHeld' /\ TakenClosed'
      BY <2>1, <2>2, <2>3, <2>4 DEF PageInv, PagesHeld, TakenClosed
    <2>9. RoomKept'
      <3>1. Cardinality(work'.todo) = Cardinality(work.todo) - 1
        BY <2>1, <2>3, FinitePages, FS_RemoveElement
      <3>2. Cardinality({p}) = 1 /\ Cardinality(work.off) = 0
        BY <2>2, FS_Singleton, FS_EmptySet
      <3>3. Cardinality(runners) + Cardinality(work.off) + Cardinality(work.todo)
               <= MaxConcurrent
        BY <2>2 DEF PageInv, RoomKept
      <3>4. Cardinality(runners) <= MaxConcurrent
        BY DEF PageInv, RoomKept
      <3> QED BY <2>2, <2>3, <3>1, <3>2, <3>3, <3>4 DEF RoomKept
    <2> QED BY <2>6, <2>7, <2>8, <2>9 DEF PageInv
  <1> QED BY <1>1, <1>2

\* runner.start() returns or throws, or the tick does.
LEMMA PageSettled ==
    ASSUME PageInv, OpenEnds \/ TickThrows
    PROVE  PageInv'
  <1> USE Records, Typed
  <1>1. CASE OpenEnds
    <2>1. work.pc = "open" /\ up /\ UNCHANGED <<monitored, halted, asked, wanted, up>>
      BY <1>1 DEF OpenEnds, PageInv, TickSane
    <2>2. PICK p \in Page : work.off = {p}
      BY <2>1 DEF PageInv, TickSane
    <2>3. \/ /\ runners' = runners \cup {p}
             /\ row' = [row EXCEPT ![p].status = "running"]
             /\ UNCHANGED <<page, watchLeft>>
          \/ /\ row' = [row EXCEPT ![p].status = "failed"]
             /\ page' = [page EXCEPT ![p] = "none"]
             /\ runners' \in {runners, runners \cup {p}}
             /\ UNCHANGED watchLeft \/ SpendWatch("fault")
      BY <1>1, <2>2 DEF OpenEnds
    <2>4. /\ work' \in Work /\ work'.off = {} /\ work'.todo = work.todo
          /\ work'.pc \in {"idle", "start"}
      BY <1>1 DEF OpenEnds, NoWork, Work
    <2>5. row[p].status # "none"
      BY <2>2 DEF PageInv, Booked
    <2>6. /\ row' \in [Page -> Row] /\ row'[p].status \in {"running", "failed"}
          /\ row'[p].sale = row[p].sale /\ \A q \in Page : q # p => row'[q] = row[q]
      <3>1. PICK st \in {"running", "failed"} : row' = [row EXCEPT ![p].status = st]
        BY <2>3
      <3>2. row[p] \in Row
        OBVIOUS
      <3>3. [row[p] EXCEPT !.status = st] \in Row
        BY <3>2 DEF Row, Live
      <3> QED BY <3>1, <3>2, <3>3 DEF Row
    <2>7. watchLeft' \in [staff : Nat, fault : Nat]
      BY <2>3, SpendTyped DEF PageInv, MonitorTypeOK
    <2>8. MonitorTypeOK'
      BY <2>1, <2>3, <2>4, <2>5, <2>6, <2>7 DEF PageInv, MonitorTypeOK
    <2>9. Booked' /\ TickSane'
      BY <2>1, <2>3, <2>4, <2>5, <2>6 DEF PageInv, Booked, TickSane
    <2>10. PagesHeld' /\ TakenClosed'
      <3>1. page' \in [Page -> {"none", "open", "dead"}]
            /\ \A q \in Page : page'[q] = "open" => page[q] = "open" /\ q \in runners'
                                                   /\ row'[q].status # "failed"
        <4>1. \A q \in Page : page[q] = "open" => q \in runners \cup {p}
          BY <2>2 DEF PageInv, PagesHeld
        <4>2. \A q \in Page : q # p /\ page[q] = "open" => row'[q].status # "failed"
          BY <2>6 DEF PageInv, PagesHeld
        <4>3. CASE runners' = runners \cup {p} /\ UNCHANGED page
                   /\ row' = [row EXCEPT ![p].status = "running"]
          BY <4>1, <4>2, <4>3 DEF Row
        <4>4. CASE page' = [page EXCEPT ![p] = "none"]
                   /\ runners' \in {runners, runners \cup {p}}
          BY <4>1, <4>2, <4>4
        <4> QED BY <2>3, <4>3, <4>4
      <3>2. PagesHeld'
        BY <2>1, <2>4, <2>6, <3>1 DEF PageInv, PagesHeld
      <3>3. TakenClosed'
        BY <2>1, <2>4, <3>1 DEF PageInv, TakenClosed
      <3> QED BY <3>2, <3>3
    <2>11. RoomKept'
      <3>1. Cardinality(runners') <= Cardinality(runners) + 1 /\ Cardinality(runners') \in Nat
        BY <2>3, OneMore
      <3>2. Cardinality(work.off) = 1 /\ Cardinality({}) = 0
        BY <2>2, FS_Singleton, FS_EmptySet
      <3>3. Cardinality(runners) + Cardinality(work.off) + Cardinality(work.todo)
               <= MaxConcurrent
        BY <2>1 DEF PageInv, RoomKept
      <3>4. Cardinality(runners') + Cardinality(work'.off) + Cardinality(work'.todo)
               <= MaxConcurrent
        BY <2>4, <3>1, <3>2, <3>3
      <3>5. Cardinality(runners') <= MaxConcurrent
        BY <3>1, <3>2, <3>3
      <3> QED BY <3>4, <3>5 DEF RoomKept
    <2> QED BY <2>8, <2>9, <2>10, <2>11 DEF PageInv
  <1>2. CASE TickThrows
    <2>1. /\ work.pc # "stop" /\ work' = NoWork /\ up
          /\ page' = [p \in Page |-> IF p \in work.off THEN "none" ELSE page[p]]
          /\ UNCHANGED <<row, monitored, halted, asked, wanted, up>>
          /\ SpendWatch("fault")
      BY <1>2 DEF TickThrows, PageInv, TickSane
    <2>2. PICK S \in SUBSET work.off : runners' = runners \cup S
      BY <1>2 DEF TickThrows
    <2>3. watchLeft' \in [staff : Nat, fault : Nat]
      BY <2>1, SpendTyped
    <2>4. MonitorTypeOK'
      BY <2>1, <2>2, <2>3 DEF PageInv, MonitorTypeOK
    <2>5. Booked' /\ TickSane'
      BY <2>1, <2>2 DEF PageInv, Booked, TickSane
    <2>6. PagesHeld' /\ TakenClosed'
      BY <2>1, <2>2 DEF PageInv, PagesHeld, TakenClosed
    <2>7. RoomKept'
      <3>1. CASE work.off = {}
        BY <2>1, <2>2, <3>1 DEF PageInv, RoomKept
      <3>2. CASE work.off # {}
        <4>1. work.pc = "open" /\ \E p \in Page : work.off = {p}
          BY <2>1, <3>2 DEF PageInv, TickSane
        <4>2. PICK p \in Page : work.off = {p}
          BY <4>1
        <4>3. Cardinality(work.off) = 1
          BY <4>2, FS_Singleton
        <4>4. Cardinality(runners') <= Cardinality(runners) + 1
          <5>1. runners' = runners \/ runners' = runners \cup {p}
            BY <2>2, <4>2
          <5> QED BY <5>1, OneMore
        <4>5. Cardinality(runners) + Cardinality(work.off) + Cardinality(work.todo)
                 <= MaxConcurrent
          BY <4>1 DEF PageInv, RoomKept
        <4>6. runners' \in SUBSET Page /\ Cardinality(runners') \in Nat
          BY <2>2, FinitePages
        <4>7. Cardinality(runners') <= MaxConcurrent
          BY <4>3, <4>4, <4>5, <4>6
        <4> QED BY <2>1, <4>7 DEF RoomKept
      <3> QED BY <3>1, <3>2
    <2> QED BY <2>4, <2>5, <2>6, <2>7 DEF PageInv
  <1> QED BY <1>1, <1>2

\* Steps that leave the worker's memory and its pages alone.
LEMMA OutsideStep ==
    ASSUME PageInv, RowsKept, UNCHANGED <<page, runners, work, up>>,
           monitored' \in SUBSET Sale, halted' \in BOOLEAN, wanted' \in SUBSET Sale,
           watchLeft' \in [staff : Nat, fault : Nat],
           asked' \in SUBSET Page, \A p \in asked' : row'[p].status # "none"
    PROVE  PageInv'
  <1>1. MonitorTypeOK' /\ Booked'
    BY Typed DEF PageInv, MonitorTypeOK, Booked, RowsKept
  <1>2. TickSane' /\ PagesHeld' /\ TakenClosed' /\ RoomKept'
    BY DEF PageInv, TickSane, PagesHeld, TakenClosed, RoomKept, RowsKept
  <1> QED BY <1>1, <1>2 DEF PageInv

LEMMA StaffSteps ==
    ASSUME PageInv,
           \/ Toggle
           \/ \E p \in Page : AskStop(p) \/ WriteStop(p)
           \/ \E s \in Sale : AskStart(s) \/ WriteStart(s)
    PROVE  PageInv'
  <1> USE Typed
  <1>0. /\ monitored \in SUBSET Sale /\ halted \in BOOLEAN /\ wanted \in SUBSET Sale
        /\ watchLeft \in [staff : Nat, fault : Nat]
        /\ \A p \in asked : row[p].status # "none"
    BY DEF PageInv, MonitorTypeOK, Booked
  <1>1. CASE Toggle
    <2>1. RowsKept
      BY <1>1, SameRows DEF Toggle
    <2> QED BY <1>0, <1>1, <2>1, OutsideStep, SpendTyped DEF Toggle
  <1>2. ASSUME NEW p \in Page, AskStop(p) PROVE PageInv'
    <2>1. RowsKept
      BY <1>2, SameRows DEF AskStop
    <2>2. row[p].status # "none"
      BY <1>2 DEF AskStop, Is, Live
    <2> QED BY <1>0, <1>2, <2>1, <2>2, OutsideStep, SpendTyped DEF AskStop
  <1>3. ASSUME NEW p \in Page, WriteStop(p) PROVE PageInv'
    <2>1. /\ p \in asked /\ asked' = asked \ {p}
          /\ row' = [row EXCEPT ![p].status = "stopping"]
      BY <1>3 DEF WriteStop
    <2>2. /\ row' \in [Page -> Row] /\ row'[p].status = "stopping"
          /\ row'[p].sale = row[p].sale /\ \A q \in Page : q # p => row'[q] = row[q]
      BY <2>1 DEF Row, Live
    <2>3. row[p].status # "none"
      BY <1>0, <2>1
    <2>4. RowsKept
      BY <2>2, <2>3 DEF RowsKept, PageInv, MonitorTypeOK, PagesHeld
    <2>5. \A q \in asked' : row'[q].status # "none"
      BY <1>0, <2>1, <2>2
    <2> QED BY <1>0, <1>3, <2>1, <2>4, <2>5, OutsideStep DEF WriteStop
  <1>4. ASSUME NEW s \in Sale, AskStart(s) PROVE PageInv'
    <2>1. RowsKept
      BY <1>4, SameRows DEF AskStart
    <2> QED BY <1>0, <1>4, <2>1, OutsideStep, SpendTyped DEF AskStart
  <1>5. ASSUME NEW s \in Sale, WriteStart(s) PROVE PageInv'
    <2>1. RowsKept
      BY <1>5, CreatedKeeps DEF WriteStart
    <2>2. \A q \in asked : row'[q].status # "none"
      BY <1>0, <2>1 DEF RowsKept
    <2> QED BY <1>0, <1>5, <2>1, <2>2, OutsideStep DEF WriteStart
  <1> QED BY <1>1, <1>2, <1>3, <1>4, <1>5

\* The worker dies and starts again, and Chromium drops pages.
LEMMA LifeSteps ==
    ASSUME PageInv, MonitorDies \/ MonitorBoots \/ \E p \in Page : PageDies(p)
    PROVE  PageInv'
  <1> USE Records, Typed
  <1>1. CASE MonitorDies
    <2>1. /\ up' = FALSE /\ page' = [p \in Page |-> "none"] /\ runners' = {}
          /\ work' = NoWork /\ UNCHANGED <<row, monitored, halted, asked, wanted>>
          /\ watchLeft' \in [staff : Nat, fault : Nat]
      BY <1>1, SpendTyped DEF MonitorDies
    <2>2. MonitorTypeOK' /\ Booked' /\ TickSane'
      BY <2>1 DEF PageInv, MonitorTypeOK, Booked, TickSane
    <2>3. PagesHeld' /\ TakenClosed'
      BY <2>1 DEF PagesHeld, TakenClosed
    <2>4. RoomKept'
      BY <2>1, FS_EmptySet, MonitorAssumption DEF RoomKept
    <2> QED BY <2>2, <2>3, <2>4 DEF PageInv
  <1>2. CASE MonitorBoots
    <2>1. /\ ~up /\ up' = TRUE
          /\ UNCHANGED <<page, runners, monitored, halted, work, asked, wanted>>
          /\ Tries(Close(Interrupted, "stopped", "shutdown"))
      BY <1>2 DEF MonitorBoots
    <2>2. \A p \in Interrupted : p \in Page /\ row[p].status # "none" /\ page[p] # "open"
      BY <2>1 DEF Interrupted, Is, Live, PageInv, PagesHeld
    <2>3. row' = Close(Interrupted, "stopped", "shutdown") => RowsKept
      BY <2>2, CloseKeeps
    <2>4. RowsKept /\ watchLeft' \in [staff : Nat, fault : Nat]
      BY <2>1, <2>3, SameRows, TriesTyped
    <2>5. MonitorTypeOK' /\ Booked'
      BY <2>1, <2>4 DEF PageInv, MonitorTypeOK, Booked, RowsKept
    <2>6. TickSane' /\ PagesHeld' /\ TakenClosed' /\ RoomKept'
      BY <2>1, <2>4 DEF PageInv, TickSane, PagesHeld, TakenClosed, RoomKept, RowsKept
    <2> QED BY <2>5, <2>6 DEF PageInv
  <1>3. ASSUME NEW p \in Page, PageDies(p) PROVE PageInv'
    <2>1. /\ page' = [page EXCEPT ![p] = "dead"] /\ page[p] = "open"
          /\ UNCHANGED <<row, runners, monitored, halted, work, asked, wanted, up>>
          /\ watchLeft' \in [staff : Nat, fault : Nat]
      BY <1>3, SpendTyped DEF PageDies
    <2>2. MonitorTypeOK' /\ Booked' /\ TickSane' /\ RoomKept'
      BY <2>1 DEF PageInv, MonitorTypeOK, Booked, TickSane, RoomKept
    <2>3. PagesHeld' /\ TakenClosed'
      BY <2>1 DEF PageInv, PagesHeld, TakenClosed
    <2> QED BY <2>2, <2>3 DEF PageInv
  <1> QED BY <1>1, <1>2, <1>3

pageVars == <<row, page, runners, monitored, halted, work, asked, wanted, up, watchLeft>>

LEMMA PageKept ==
    ASSUME PageInv, [MonitorNext]_<<clockVars, MonitorVars>>
    PROVE  PageInv'
  <1>1. CASE UNCHANGED pageVars
    BY <1>1 DEF pageVars, PageInv, MonitorTypeOK, Booked, TickSane, PagesHeld, TakenClosed,
                RoomKept
  <1>2. ASSUME Scheduler PROVE PageInv'
    BY <1>2, TickReads, RunnersDropped, PagesTurned, PageSettled, LifeSteps
    DEF Scheduler, TickStep
  <1>3. ASSUME Requests \/ Toggle \/ TickThrows \/ MonitorDies PROVE PageInv'
    BY <1>3, StaffSteps, PageSettled, LifeSteps DEF Requests
  <1>4. ASSUME SinkStep /\ UNCHANGED watchVars PROVE UNCHANGED pageVars
    BY <1>4 DEF watchVars, pageVars
  <1>5. ASSUME NEW p \in Page, Frame(p) PROVE UNCHANGED pageVars
    BY <1>5 DEF Frame, pageVars
  <1>6. ASSUME NEW p \in Page, PageDies(p) \/ AskStop(p) PROVE PageInv'
    BY <1>6, StaffSteps, LifeSteps
  <1>7. ASSUME NEW s \in Sale, AskStart(s) PROVE PageInv'
    BY <1>7, StaffSteps
  <1>8. ASSUME NEW s \in Sale, TimePasses(s), UNCHANGED MonitorVars
        PROVE  UNCHANGED pageVars
    BY <1>8 DEF MonitorVars, watchVars, pageVars
  <1>9. ASSUME UNCHANGED <<clockVars, MonitorVars>> PROVE UNCHANGED pageVars
    BY <1>9 DEF MonitorVars, watchVars, pageVars
  <1> QED
    BY <1>1, <1>2, <1>3, <1>4, <1>5, <1>6, <1>7, <1>8, <1>9 DEF MonitorNext, MonitorStep

LEMMA PagesWatched == PageInv => OpenPageIsWatched
  <1> SUFFICES ASSUME PageInv PROVE OpenPageIsWatched
    OBVIOUS
  <1> DEFINE open == {p \in Page : page[p] = "open"}
  <1>1. \A p \in open : /\ up /\ p \in runners \cup work.off
                        /\ Is(p, {"starting", "running", "stopping"})
    BY DEF PageInv, PagesHeld, Is
  <1>2. Cardinality(open) <= MaxConcurrent
    <2>1. /\ Cardinality(runners) <= MaxConcurrent
          /\ Cardinality(runners) \in Nat /\ Cardinality(open) \in Nat /\ MaxConcurrent \in Nat
      BY Typed, FinitePages DEF PageInv, RoomKept
    <2>2. CASE work.pc # "open"
      <3>1. open \in SUBSET runners
        BY <2>2 DEF PageInv, PagesHeld
      <3>2. Cardinality(open) <= Cardinality(runners)
        BY <3>1, Typed, SmallerSet
      <3> HIDE DEF open
      <3> QED BY <2>1, <3>2
    <2>3. CASE work.pc = "open"
      <3>1. PICK p \in Page : work.off = {p}
        BY <2>3 DEF PageInv, TickSane
      <3>2. open \in SUBSET (runners \cup {p})
        BY <3>1 DEF PageInv, PagesHeld
      <3>3. Cardinality(open) <= Cardinality(runners \cup {p})
        <4>1. runners \cup {p} \in SUBSET Page
          BY Typed
        <4> HIDE DEF open
        <4> QED BY <3>2, <4>1, SmallerSet
      <3>4. /\ Cardinality(runners \cup {p}) <= Cardinality(runners) + 1
            /\ Cardinality(runners \cup {p}) \in Nat
        BY Typed, OneMore
      <3>5. Cardinality(work.off) = 1 /\ Cardinality(work.todo) \in Nat
        BY <3>1, FS_Singleton, Typed
      <3>6. Cardinality(runners) + Cardinality(work.off) + Cardinality(work.todo)
               <= MaxConcurrent
        BY <2>3 DEF PageInv, RoomKept
      <3> HIDE DEF open
      <3> QED BY <2>1, <3>3, <3>4, <3>5, <3>6
    <2> QED BY <2>2, <2>3
  <1> QED BY <1>1, <1>2 DEF OpenPageIsWatched

LEMMA PageInit == MonitorInit => PageInv
  <1> SUFFICES ASSUME MonitorInit PROVE PageInv
    OBVIOUS
  <1> USE Records DEF MonitorInit
  <1>1. MonitorTypeOK
    BY DEF MonitorTypeOK
  <1>2. Booked /\ TickSane /\ PagesHeld /\ TakenClosed
    BY DEF Booked, TickSane, PagesHeld, TakenClosed
  <1>3. RoomKept
    BY FS_EmptySet, MonitorAssumption DEF RoomKept
  <1> QED BY <1>1, <1>2, <1>3 DEF PageInv

\* The sessions, runners, pages and the tick in flight are well typed, and a row is always
\* one of a sale, for any number of sales and rows.
THEOREM MonitorTyped == MonitorSpec => []MonitorTypeOK
  <1>1. PageInv => MonitorTypeOK
    BY DEF PageInv
  <1> QED BY <1>1, PageInit, PageKept, PTL DEF MonitorSpec

\* No page is open that the worker does not hold or is not opening, none whose row says
\* otherwise, and never more than maxConcurrentSessions: under crashes, failed ticks and
\* stops of staff (MonitorSchedulerService.tick).
THEOREM PagesStayWatched == MonitorSpec => []OpenPageIsWatched
  BY PageInit, PageKept, PagesWatched, PTL DEF MonitorSpec
-----------------------------------------------------------------------------
(* What the sink has still to post                                          *)

\* An item of lot l after the k-th.
HasAfter(items, l, k) == \E i \in DOMAIN items : i > k /\ items[i].event.lot = l

\* The last item of lot l, if there is any, carries the event e.
EndsWith(items, l, e) ==
    \A i \in DOMAIN items :
        items[i].event.lot = l => HasAfter(items, l, i) \/ items[i].event = e

\* The batch in flight or to be retried, and what comes after it.
Backlog == post.batch \o queue

\* How many items of the batch in flight the API has dealt with.
Stored == IF post.pc = "post" THEN Len(post.batch) - Len(request) ELSE 0

\* What the API has still to store is the rest of the batch in flight.
RequestIsRest ==
    IF post.pc = "post"
    THEN /\ Len(request) <= Len(post.batch)
         /\ \A i \in DOMAIN request : request[i] = post.batch[Stored + i].event
    ELSE request = << >>

\* Of an unspoiled lot the last event taken is the last of the backlog, and the row of
\* the lot has it unless it is still to be stored.
LotsInOrder ==
    \A l \in Lot \ spoiled :
        /\ EndsWith(Backlog, l, latest[l])
        /\ HasAfter(Backlog, l, Stored) \/ result[l] = latest[l]

SinkInv ==
    /\ SinkTypeOK
    /\ post.pc = "idle" => post.batch = << >>
    /\ RequestIsRest
    /\ Lots(overdue) \subseteq spoiled
    /\ LotsInOrder

LEMMA AtIndex ==
    ASSUME NEW D, NEW s \in Seq(D), NEW t \in Seq(D)
    PROVE  /\ s \o t \in Seq(D) /\ Len(s \o t) = Len(s) + Len(t)
           /\ DOMAIN (s \o t) = 1..(Len(s) + Len(t))
           /\ \A i \in 1..Len(s) : (s \o t)[i] = s[i]
           /\ \A i \in 1..Len(t) : (s \o t)[Len(s) + i] = t[i]
           /\ \A k \in 1..(Len(s) + Len(t)) :
                 k \in 1..Len(s) \/ \E i \in 1..Len(t) : k = Len(s) + i
  <1>1. \A k \in 1..(Len(s) + Len(t)) : k > Len(s) => k - Len(s) \in 1..Len(t)
    OBVIOUS
  <1>2. \A k \in 1..(Len(s) + Len(t)) : k = Len(s) + (k - Len(s))
    OBVIOUS
  <1> QED BY <1>1, <1>2, ConcatProperties

\* Without the batch.
LEMMA EndsWithRest ==
    ASSUME NEW s \in Seq(Item), NEW t \in Seq(Item), NEW l, NEW e,
           EndsWith(s \o t, l, e)
    PROVE  /\ EndsWith(t, l, e)
           /\ HasAfter(s \o t, l, Len(s)) => HasAfter(t, l, 0)
  <1>1. Len(s) \in Nat /\ Len(t) \in Nat /\ DOMAIN t = 1..Len(t)
    OBVIOUS
  <1>2. ASSUME NEW i \in 0..Len(t), HasAfter(s \o t, l, Len(s) + i)
        PROVE  HasAfter(t, l, i)
    <2>1. PICK k \in 1..(Len(s) + Len(t)) : k > Len(s) + i /\ (s \o t)[k].event.lot = l
      <3>1. DOMAIN (s \o t) = 1..(Len(s) + Len(t))
        BY AtIndex
      <3> QED BY <1>2, <3>1 DEF HasAfter
    <2>2. PICK j \in 1..Len(t) : k = Len(s) + j
      BY <1>1, <2>1, AtIndex
    <2>3. j > i /\ t[j].event.lot = l
      BY <1>1, <2>1, <2>2, AtIndex
    <2> QED BY <1>1, <2>3 DEF HasAfter
  <1>3. ASSUME NEW i \in 1..Len(t), t[i].event.lot = l
        PROVE  HasAfter(t, l, i) \/ t[i].event = e
    <2>1. (s \o t)[Len(s) + i] = t[i] /\ Len(s) + i \in DOMAIN (s \o t)
      BY <1>1, AtIndex
    <2> QED BY <1>2, <1>3, <2>1 DEF EndsWith
  <1>4. HasAfter(s \o t, l, Len(s)) => HasAfter(t, l, 0)
    BY <1>1, <1>2
  <1> QED BY <1>1, <1>3, <1>4 DEF EndsWith

\* One more event.
LEMMA EndsWithNew ==
    ASSUME NEW s \in Seq(Item), NEW x \in Item, NEW l, NEW k \in 0..Len(s)
    PROVE  /\ x.event.lot = l => /\ EndsWith(Append(s, x), l, x.event)
                                 /\ HasAfter(Append(s, x), l, k)
           /\ x.event.lot # l =>
                 /\ \A e : EndsWith(s, l, e) => EndsWith(Append(s, x), l, e)
                 /\ HasAfter(s, l, k) => HasAfter(Append(s, x), l, k)
  <1>1. PICK n \in Nat : n = Len(s)
    OBVIOUS
  <1>2. PICK a : a = Append(s, x)
    OBVIOUS
  <1>3. /\ DOMAIN s = 1..n /\ DOMAIN a = 1..(n + 1) /\ a[n + 1] = x
        /\ \A i \in 1..n : a[i] = s[i]
    BY <1>1, <1>2
  <1>4. ASSUME x.event.lot = l PROVE EndsWith(a, l, x.event) /\ HasAfter(a, l, k)
    <2>1. \A i \in 1..n : HasAfter(a, l, i)
      BY <1>3, <1>4 DEF HasAfter
    <2>2. HasAfter(a, l, k)
      BY <1>1, <1>3, <1>4 DEF HasAfter
    <2>3. \A i \in 1..(n + 1) : i \in 1..n \/ i = n + 1
      OBVIOUS
    <2> QED BY <1>3, <2>1, <2>2, <2>3 DEF EndsWith
  <1>5. ASSUME x.event.lot # l, NEW e, EndsWith(s, l, e) PROVE EndsWith(a, l, e)
    <2> SUFFICES ASSUME NEW i \in 1..(n + 1), a[i].event.lot = l
                 PROVE  HasAfter(a, l, i) \/ a[i].event = e
      BY <1>3 DEF EndsWith
    <2>1. i \in 1..n
      BY <1>3, <1>5
    <2>2. HasAfter(s, l, i) => HasAfter(a, l, i)
      BY <1>3, <2>1 DEF HasAfter
    <2> QED BY <1>3, <1>5, <2>1, <2>2 DEF EndsWith
  <1>6. ASSUME HasAfter(s, l, k) PROVE HasAfter(a, l, k)
    BY <1>3, <1>6 DEF HasAfter
  <1> QED BY <1>2, <1>4, <1>5, <1>6

\* What failed is kept but for what is given up: kept comes from b as at says, with the
\* same events, and nothing of lot l is missing.
LEMMA EndsWithKept ==
    ASSUME NEW b \in Seq(Item), NEW t \in Seq(Item), NEW kept \in Seq(Item), NEW at,
           NEW l, NEW e,
           at \in [1..Len(kept) -> 1..Len(b)],
           \A i \in 1..Len(kept) : kept[i].event = b[at[i]].event,
           \A i, j \in 1..Len(kept) : i < j => at[i] < at[j],
           \A k \in 1..Len(b) : b[k].event.lot = l => \E i \in 1..Len(kept) : at[i] = k,
           EndsWith(b \o t, l, e)
    PROVE  /\ EndsWith(kept \o t, l, e)
           /\ HasAfter(b \o t, l, 0) => HasAfter(kept \o t, l, 0)
  <1>1. PICK n \in Nat, m \in Nat, r \in Nat : n = Len(b) /\ m = Len(kept) /\ r = Len(t)
    OBVIOUS
  <1>2. PICK B : B = b \o t
    OBVIOUS
  <1>3. PICK K : K = kept \o t
    OBVIOUS
  <1>4. /\ DOMAIN B = 1..(n + r) /\ \A i \in 1..n : B[i] = b[i]
        /\ \A i \in 1..r : B[n + i] = t[i]
        /\ \A k \in 1..(n + r) : k \in 1..n \/ \E i \in 1..r : k = n + i
    BY <1>1, <1>2, AtIndex
  <1>5. /\ DOMAIN K = 1..(m + r) /\ \A i \in 1..m : K[i] = kept[i]
        /\ \A i \in 1..r : K[m + i] = t[i]
        /\ \A k \in 1..(m + r) : k \in 1..m \/ \E i \in 1..r : k = m + i
    BY <1>1, <1>3, AtIndex
  \* a later item of the backlog is still there, and still later
  <1>6. ASSUME NEW i \in 1..m, HasAfter(B, l, at[i]) PROVE HasAfter(K, l, i)
    <2>1. PICK k \in 1..(n + r) : k > at[i] /\ B[k].event.lot = l
      BY <1>4, <1>6 DEF HasAfter
    <2>2. CASE k \in 1..n
      <3>1. PICK j \in 1..m : at[j] = k
        BY <1>1, <1>4, <2>1, <2>2
      <3>2. at[i] \in Nat /\ at[j] \in Nat /\ at[i] < at[j] /\ at[j] \in 1..n
        BY <1>1, <2>1, <3>1
      <3>3. j > i
        BY <1>1, <3>2
      <3>4. K[j].event.lot = l
        BY <1>1, <1>4, <1>5, <2>1, <3>1, <3>2
      <3> QED BY <1>5, <3>3, <3>4 DEF HasAfter
    <2>3. ASSUME NEW j \in 1..r, k = n + j PROVE HasAfter(K, l, i)
      <3>1. K[m + j].event.lot = l /\ m + j > i /\ m + j \in 1..(m + r)
        BY <1>4, <1>5, <2>1, <2>3
      <3> QED BY <1>5, <3>1 DEF HasAfter
    <2> QED BY <1>4, <2>2, <2>3
  <1>7. ASSUME NEW i \in 1..r, HasAfter(B, l, n + i) PROVE HasAfter(K, l, m + i)
    <2>1. PICK k \in 1..(n + r) : k > n + i /\ B[k].event.lot = l
      BY <1>4, <1>7 DEF HasAfter
    <2>2. PICK j \in 1..r : k = n + j
      BY <1>4, <2>1
    <2>3. B[n + j] = t[j] /\ K[m + j] = t[j]
      BY <1>4, <1>5
    <2>4. K[m + j].event.lot = l /\ m + j > m + i /\ m + j \in 1..(m + r)
      BY <2>1, <2>2, <2>3, SMTT(30)
    <2> QED BY <1>5, <2>4 DEF HasAfter
  <1>8. ASSUME HasAfter(B, l, 0) PROVE HasAfter(K, l, 0)
    <2>1. PICK k \in 1..(n + r) : B[k].event.lot = l
      BY <1>4, <1>8 DEF HasAfter
    <2>2. CASE k \in 1..n
      <3>1. PICK j \in 1..m : at[j] = k
        BY <1>1, <1>4, <2>1, <2>2
      <3>2. B[k] = b[k] /\ kept[j].event = b[k].event
        BY <1>1, <1>4, <2>2, <3>1
      <3>3. K[j] = kept[j] /\ j > 0 /\ j \in 1..(m + r)
        BY <1>5
      <3> QED BY <1>5, <2>1, <3>2, <3>3 DEF HasAfter
    <2>3. ASSUME NEW j \in 1..r, k = n + j PROVE HasAfter(K, l, 0)
      <3>0. B[n + j] = t[j] /\ K[m + j] = t[j]
        BY <1>4, <1>5
      <3>1. K[m + j].event.lot = l /\ m + j > 0 /\ m + j \in 1..(m + r)
        BY <2>1, <2>3, <3>0
      <3> QED BY <1>5, <3>1 DEF HasAfter
    <2> QED BY <1>4, <2>1, <2>2, <2>3
  <1>9. EndsWith(K, l, e)
    <2> SUFFICES ASSUME NEW i \in 1..(m + r), K[i].event.lot = l
                 PROVE  HasAfter(K, l, i) \/ K[i].event = e
      BY <1>5 DEF EndsWith
    <2>1. CASE i \in 1..m
      <3>1. at[i] \in 1..n /\ at[i] \in 1..(n + r)
        BY <1>1, <2>1, SMTT(30)
      <3>2. B[at[i]].event = K[i].event
        BY <1>1, <1>4, <1>5, <2>1, <3>1
      <3>3. HasAfter(B, l, at[i]) \/ B[at[i]].event = e
        BY <1>2, <1>4, <3>1, <3>2 DEF EndsWith
      <3> QED BY <1>6, <2>1, <3>2, <3>3
    <2>2. ASSUME NEW j \in 1..r, i = m + j PROVE HasAfter(K, l, i) \/ K[i].event = e
      <3>0. B[n + j] = t[j] /\ K[m + j] = t[j]
        BY <1>4, <1>5
      <3>1. B[n + j] = K[i] /\ n + j \in 1..(n + r)
        BY <2>2, <3>0
      <3>2. HasAfter(B, l, n + j) \/ B[n + j].event = e
        BY <1>2, <1>4, <3>1 DEF EndsWith
      <3> QED BY <1>7, <2>2, <3>1, <3>2
    <2> QED BY <1>5, <2>1, <2>2
  <1> QED BY <1>2, <1>3, <1>8, <1>9

LEMMA EventsTyped ==
    ASSUME NEW items \in Seq(Item)
    PROVE  /\ Events(items) \in Seq(Event) /\ Len(Events(items)) = Len(items)
           /\ \A i \in 1..Len(items) : Events(items)[i] = items[i].event
           /\ Lots(Events(items)) \subseteq Lot
           /\ \A i \in 1..Len(items) : items[i].event.lot \in Lots(Events(items))
  <1>1. Len(items) \in Nat /\ DOMAIN items = 1..Len(items)
        /\ \A i \in 1..Len(items) : items[i] \in Item /\ items[i].event \in Event
    <2>1. \A x \in Item : x.event \in Event
      BY DEF Item
    <2> QED BY <2>1
  <1>2. DOMAIN Events(items) = 1..Len(items)
        /\ \A i \in 1..Len(items) : Events(items)[i] = items[i].event
    BY <1>1 DEF Events
  <1>3. Events(items) \in Seq(Event) /\ Len(Events(items)) = Len(items)
    BY <1>1 DEF Events
  <1> QED BY <1>1, <1>2, <1>3 DEF Lots, Lot

LEMMA DrainsBacklog ==
    ASSUME NEW q \in Seq(Item), Drain(q)
    PROVE  /\ post' \in [pc : {"idle", "post", "wait"}, batch : Seq(Item)]
           /\ queue' \in Seq(Item) /\ request' = Events(post'.batch)
           /\ Backlog' = q /\ post'.pc # "wait"
           /\ post'.pc = "idle" => /\ queue' = << >> /\ post'.batch = << >>
                                   /\ request' = << >>
  <1>1. PICK n \in 0..Len(q) : n = BatchSize(q) /\ (n = 0 => q = << >>)
    BY SinkAssumption DEF BatchSize, Least
  <1>2. PICK b \in Seq(Item), c \in Seq(Item) : b = SubSeq(q, 1, n) /\ c = SubSeq(q, n + 1, Len(q))
    <2>1. n \in Nat /\ Len(q) \in Nat /\ \A i \in 1..Len(q) : q[i] \in Item
      OBVIOUS
    <2>2. SubSeq(q, 1, n) \in Seq(Item)
      BY <2>1, SubSeqProperties
    <2>3. SubSeq(q, n + 1, Len(q)) \in Seq(Item)
      BY <2>1, SubSeqProperties
    <2> QED BY <2>2, <2>3
  <1>3. b \o c = q
    <2>1. PICK m, e : m = 1 /\ e = Len(q)
      OBVIOUS
    <2>2. m \in 1..(Len(q) + 1) /\ n \in (m - 1)..Len(q) /\ e \in n..Len(q)
      BY <2>1
    <2>3. SubSeq(q, m, n) \o SubSeq(q, n + 1, e) = SubSeq(q, m, e)
      BY <2>2, ConcatAdjacentSubSeq
    <2>4. SubSeq(q, 1, n) \o SubSeq(q, n + 1, Len(q)) = SubSeq(q, 1, Len(q))
      BY <2>1, <2>3
    <2> QED BY <1>2, <2>4, SubSeqFull
  <1>4. queue' = c /\ request' = Events(b)
    BY <1>1, <1>2 DEF Drain
  <1>5. CASE n = 0
    <2>1. post' = NoPost /\ b = << >> /\ c = << >>
      BY <1>1, <1>2, <1>5 DEF Drain
    <2>2. post'.pc = "idle" /\ post'.batch = << >>
      BY <2>1 DEF NoPost
    <2>3. Events(<< >>) = << >>
      BY DEF Events
    <2>4. Backlog' = b \o c
      BY <1>4, <2>1, <2>2 DEF Backlog
    <2> QED BY <1>3, <1>4, <2>1, <2>2, <2>3, <2>4 DEF NoPost
  <1>6. CASE n # 0
    <2>1. post' = [pc |-> "post", batch |-> b]
      BY <1>1, <1>2, <1>6 DEF Drain
    <2>2. post'.pc = "post" /\ post'.batch = b
      BY <2>1
    <2>3. Backlog' = b \o c
      BY <1>4, <2>2 DEF Backlog
    <2> QED BY <1>3, <1>4, <2>1, <2>2, <2>3
  <1> QED BY <1>5, <1>6

\* When the loop goes on with q, nothing of q is stored yet.
LEMMA DrainKeepsOrder ==
    ASSUME NEW q \in Seq(Item), Drain(q),
           \A l \in Lot \ spoiled' : /\ EndsWith(q, l, latest'[l])
                                     /\ HasAfter(q, l, 0) \/ result'[l] = latest'[l]
    PROVE  RequestIsRest' /\ LotsInOrder'
  <1>1. /\ post' \in [pc : {"idle", "post", "wait"}, batch : Seq(Item)]
        /\ request' = Events(post'.batch) /\ post'.pc # "wait" /\ Backlog' = q
        /\ post'.pc = "idle" => request' = << >>
    BY DrainsBacklog
  <1>2. Len(request') = Len(post'.batch) /\ DOMAIN request' = 1..Len(post'.batch)
        /\ Len(post'.batch) \in Nat
        /\ \A i \in 1..Len(post'.batch) : request'[i] = post'.batch[i].event
    <2>1. PICK b \in Seq(Item) : b = post'.batch
      BY <1>1
    <2>2. Events(b) \in Seq(Event) /\ Len(Events(b)) = Len(b)
          /\ \A i \in 1..Len(b) : Events(b)[i] = b[i].event
      BY EventsTyped
    <2> QED BY <1>1, <2>1, <2>2
  <1>3. Stored' = 0
    BY <1>1, <1>2 DEF Stored
  <1>4. RequestIsRest'
    BY <1>1, <1>2, <1>3 DEF RequestIsRest
  <1> QED BY <1>1, <1>3, <1>4 DEF LotsInOrder

LEMMA SinkTyped ==
    ASSUME SinkInv
    PROVE  /\ queue \in Seq(Item) /\ post.batch \in Seq(Item)
           /\ post.pc \in {"idle", "post", "wait"}
           /\ request \in Seq(Event) /\ overdue \in Seq(Event)
           /\ Backlog \in Seq(Item)
           /\ result \in [Lot -> Event \cup {NoEvent}]
           /\ latest \in [Lot -> Event \cup {NoEvent}]
           /\ spoiled \in SUBSET Lot
           /\ Len(post.batch) \in Nat /\ Len(request) \in Nat /\ Stored \in 0..Len(post.batch)
           /\ tally \in [Page -> [ingested : Nat, errors : Nat]]
           /\ sinkLeft \in [frame : Nat, fault : Nat]
  <1>1. queue \in Seq(Item) /\ post.batch \in Seq(Item) /\ request \in Seq(Event)
    BY DEF SinkInv, SinkTypeOK
  <1>2. Stored \in 0..Len(post.batch)
    BY <1>1 DEF SinkInv, RequestIsRest, Stored
  <1> QED BY <1>1, <1>2, AtIndex DEF SinkInv, SinkTypeOK, Backlog

LEMMA SpendSinkTyped ==
    ASSUME SinkInv, NEW kind \in {"frame", "fault"}, SpendSink(kind)
    PROVE  sinkLeft' \in [frame : Nat, fault : Nat]
  <1>1. sinkLeft \in [frame : Nat, fault : Nat]
    BY DEF SinkInv, SinkTypeOK
  <1> QED BY <1>1 DEF SpendSink

LEMMA KeysTyped == \A e \in Event : KeyOf(e) \in Key /\ e.lot \in Lot
  BY DEF Key, Lot

\* An event is queued.
LEMMA EnqueueKeeps ==
    ASSUME SinkInv, NEW p \in Page, NEW e \in Event, Enqueue(p, e), SpendSink("frame")
    PROVE  SinkInv'
  <1>1. PICK x \in Item : x = [event |-> e, page |-> p, attempts |-> 0]
    BY DEF Item
  <1>2. x.event = e /\ e.lot \in Lot /\ KeyOf(e) \in Key
    BY <1>1, KeysTyped
  <1>3. latest' = [latest EXCEPT ![e.lot] = e]
        /\ UNCHANGED <<overdue, tally, result, gaveUp, spoiled>>
    BY DEF Enqueue
  <1>4. /\ latest' \in [Lot -> Event \cup {NoEvent}]
        /\ \A l \in Lot : latest'[l] = IF l = e.lot THEN e ELSE latest[l]
    BY <1>2, <1>3, SinkTyped
  <1>5. keyOrder' \in Seq(Key) /\ sentKeys' \in SUBSET Key
    <2>1. keyOrder \in Seq(Key) /\ sentKeys \in SUBSET Key
      BY DEF SinkInv, SinkTypeOK
    <2>2. Append(keyOrder, KeyOf(e)) \in Seq(Key) /\ Append(keyOrder, KeyOf(e)) # << >>
      BY <1>2, <2>1
    <2>3. Remember(KeyOf(e))
      BY DEF Enqueue
    <2> QED BY <1>2, <2>1, <2>2, <2>3 DEF Remember
  <1>6. sinkLeft' \in [frame : Nat, fault : Nat]
    BY SpendSinkTyped
  \* a longer backlog
  <1>7. ASSUME NEW l \in Lot \ spoiled, NEW k \in 0..Len(Backlog),
               HasAfter(Backlog, l, k) \/ result[l] = latest[l]
        PROVE  /\ EndsWith(Append(Backlog, x), l, latest'[l])
               /\ HasAfter(Append(Backlog, x), l, k) \/ result'[l] = latest'[l]
    <2>1. EndsWith(Backlog, l, latest[l])
      BY DEF SinkInv, LotsInOrder
    <2>2. CASE l = e.lot
      BY <1>2, <1>4, <2>2, SinkTyped, EndsWithNew
    <2>3. CASE l # e.lot
      BY <1>2, <1>3, <1>4, <1>7, <2>1, <2>3, SinkTyped, EndsWithNew
    <2> QED BY <2>2, <2>3
  <1>8. CASE post.pc = "idle"
    <2>1. queue = << >> /\ post.batch = << >> /\ Backlog = << >> /\ Stored = 0
      BY <1>8 DEF SinkInv, SinkTypeOK, Backlog, Stored
    <2>2. Drain(Append(Backlog, x)) /\ Append(Backlog, x) \in Seq(Item)
      BY <1>1, <1>8, <2>1, SinkTyped DEF Enqueue
    <2>3. \A l \in Lot \ spoiled' :
             /\ EndsWith(Append(Backlog, x), l, latest'[l])
             /\ HasAfter(Append(Backlog, x), l, 0) \/ result'[l] = latest'[l]
      BY <1>3, <1>7, <2>1, SinkTyped DEF SinkInv, LotsInOrder
    <2>4. RequestIsRest' /\ LotsInOrder'
      BY <2>2, <2>3, DrainKeepsOrder
    <2>5. /\ queue' \in Seq(Item) /\ post' \in [pc : {"idle", "post", "wait"}, batch : Seq(Item)]
          /\ request' \in Seq(Event)
          /\ post'.pc = "idle" => queue' = << >> /\ post'.batch = << >>
      BY <2>2, DrainsBacklog, EventsTyped
    <2> QED BY <1>3, <1>4, <1>5, <1>6, <2>4, <2>5 DEF SinkInv, SinkTypeOK
  <1>9. CASE post.pc # "idle"
    <2>1. queue' = Append(queue, x) /\ UNCHANGED <<post, request>>
      BY <1>1, <1>9 DEF Enqueue
    <2>2. queue' \in Seq(Item) /\ Backlog' = Append(Backlog, x) /\ Stored' = Stored
      <3>1. post.batch \o Append(queue, x) = Append(post.batch \o queue, x)
        <4>1. PICK b \in Seq(Item), q \in Seq(Item) : b = post.batch /\ q = queue
          BY SinkTyped
        <4>2. <<x>> \in Seq(Item) /\ Append(q, x) = q \o <<x>>
          BY AppendIsConcat
        <4>3. b \o q \in Seq(Item) /\ Append(b \o q, x) = (b \o q) \o <<x>>
          BY AppendIsConcat, ConcatProperties
        <4>4. (b \o q) \o <<x>> = b \o (q \o <<x>>)
          BY <4>2, ConcatAssociative
        <4> QED BY <4>1, <4>2, <4>3, <4>4
      <3> QED BY <2>1, <3>1, SinkTyped DEF Backlog, Stored
    <2>3. Stored \in 0..Len(Backlog)
      BY SinkTyped, AtIndex DEF Backlog
    <2>4. LotsInOrder'
      BY <1>3, <1>7, <2>2, <2>3 DEF SinkInv, LotsInOrder
    <2>5. RequestIsRest'
      BY <2>1, <2>2 DEF SinkInv, RequestIsRest
    <2> QED BY <1>3, <1>4, <1>5, <1>6, <1>9, <2>1, <2>2, <2>4, <2>5 DEF SinkInv, SinkTypeOK
  <1> QED BY <1>8, <1>9

LEMMA TakeFirst ==
    ASSUME NEW s \in Seq(Event), s # << >>
    PROVE  /\ Head(s) \in Event /\ Head(s) = s[1] /\ Tail(s) \in Seq(Event)
           /\ Len(s) \in Nat \ {0} /\ Len(Tail(s)) = Len(s) - 1
           /\ \A i \in 1..Len(Tail(s)) : Tail(s)[i] = s[i + 1]
  BY HeadTailProperties, EmptySeq

\* The API stores one item, in time or too late.
LEMMA StoresKeeps ==
    ASSUME SinkInv, ApiStores \/ ApiStoresLate
    PROVE  SinkInv'
  <1>1. ASSUME NEW e \in Event, Stores(e)
        PROVE  /\ result' \in [Lot -> Event \cup {NoEvent}] /\ spoiled' \in SUBSET Lot
               /\ sinkLeft' \in [frame : Nat, fault : Nat]
               /\ spoiled \subseteq spoiled'
               /\ \A l \in Lot \ spoiled' : result'[l] = IF l = e.lot THEN e ELSE result[l]
    <2>1. e.lot \in Lot
      BY KeysTyped
    <2>2. CASE SpendSink("fault") /\ spoiled' = spoiled \cup {e.lot} /\ UNCHANGED result
      BY <2>1, <2>2, SinkTyped, SpendSinkTyped
    <2>3. CASE result' = [result EXCEPT ![e.lot] = e] /\ UNCHANGED <<spoiled, sinkLeft>>
      BY <2>1, <2>3, SinkTyped
    <2> QED BY <1>1, <2>2, <2>3 DEF Stores
  <1>2. CASE ApiStores
    <2>1. PICK e \in Event, r \in Seq(Event) : /\ e = request[1] /\ r = Tail(request)
             /\ Stores(e) /\ request' = r /\ Len(request) # 0
             /\ Len(r) = Len(request) - 1 /\ \A i \in 1..Len(r) : r[i] = request[i + 1]
      <3>1. request # << >> /\ request' = Tail(request) /\ Stores(Head(request))
        BY <1>2 DEF ApiStores
      <3>2. request \in Seq(Event)
        BY SinkTyped
      <3>3. /\ Head(request) \in Event /\ Head(request) = request[1] /\ Tail(request) \in Seq(Event)
            /\ Len(request) \in Nat \ {0} /\ Len(Tail(request)) = Len(request) - 1
            /\ \A i \in 1..Len(Tail(request)) : Tail(request)[i] = request[i + 1]
        BY <3>1, <3>2, TakeFirst
      <3>4. Len(request) # 0
        BY <3>3
      <3> QED BY <3>1, <3>3, <3>4, Zenon
    <2>2. UNCHANGED <<queue, post, overdue, sentKeys, keyOrder, tally, latest, gaveUp>>
          /\ Backlog' = Backlog
      BY <1>2 DEF ApiStores, Backlog
    <2>3. post.pc = "post"
      BY <2>1, SinkTyped DEF SinkInv, RequestIsRest
    <2>4. /\ Stored' = Stored + 1 /\ Stored + 1 \in 1..Len(post.batch)
          /\ e = post.batch[Stored + 1].event
      <3>1. /\ Stored = Len(post.batch) - Len(request) /\ Len(request) <= Len(post.batch)
            /\ \A i \in DOMAIN request : request[i] = post.batch[Stored + i].event
        BY <2>3 DEF Stored, SinkInv, RequestIsRest
      <3>2. 1 \in DOMAIN request /\ Len(request) \in Nat /\ Len(post.batch) \in Nat
        BY <2>1, SinkTyped
      <3>3. Stored' = Len(post.batch) - (Len(request) - 1)
        BY <2>1, <2>2, <2>3 DEF Stored
      <3>4. e = post.batch[Stored + 1].event
        BY <2>1, <3>1, <3>2
      <3>5. Len(request) >= 1
        BY <2>1, <3>2
      <3>6. Stored' = Stored + 1 /\ Stored + 1 \in 1..Len(post.batch)
        BY <3>1, <3>2, <3>3, <3>5
      <3> QED BY <3>4, <3>6
    <2>5. RequestIsRest'
      <3>1. /\ Len(request) <= Len(post.batch) /\ Len(request) \in Nat
            /\ \A i \in DOMAIN request : request[i] = post.batch[Stored + i].event
        BY <2>3, SinkTyped DEF SinkInv, RequestIsRest
      <3>2. ASSUME NEW i \in DOMAIN r PROVE r[i] = post.batch[(Stored + 1) + i].event
        <4>1. i + 1 \in DOMAIN request /\ r[i] = request[i + 1] /\ i \in Nat
          BY <2>1, <3>1, SinkTyped
        <4>2. Stored + (i + 1) = (Stored + 1) + i
          BY <4>1, SinkTyped
        <4> QED BY <3>1, <4>1, <4>2
      <3>3. Len(r) <= Len(post.batch)
        BY <2>1, <3>1, SinkTyped
      <3> QED BY <2>1, <2>2, <2>3, <2>4, <3>2, <3>3 DEF RequestIsRest
    <2>6. /\ Stored + 1 \in DOMAIN Backlog /\ Backlog[Stored + 1].event = e
          /\ DOMAIN Backlog = 1..(Len(post.batch) + Len(queue)) /\ Len(queue) \in Nat
      <3>1. Len(queue) \in Nat /\ DOMAIN Backlog = 1..(Len(post.batch) + Len(queue))
            /\ \A i \in 1..Len(post.batch) : Backlog[i] = post.batch[i]
        BY SinkTyped, AtIndex DEF Backlog
      <3> QED BY <2>4, <3>1
    <2>7. LotsInOrder'
      <3> SUFFICES ASSUME NEW l \in Lot \ spoiled'
                   PROVE  /\ EndsWith(Backlog, l, latest[l])
                          /\ HasAfter(Backlog, l, Stored + 1) \/ result'[l] = latest[l]
        BY <2>2, <2>4 DEF LotsInOrder
      <3>1. /\ l \in Lot \ spoiled /\ EndsWith(Backlog, l, latest[l])
            /\ HasAfter(Backlog, l, Stored) \/ result[l] = latest[l]
        BY <1>1, <2>1 DEF SinkInv, LotsInOrder
      <3>2. CASE l = e.lot
        BY <1>1, <2>1, <2>6, <3>1, <3>2 DEF EndsWith
      <3>3. CASE l # e.lot
        <4>1. HasAfter(Backlog, l, Stored) => HasAfter(Backlog, l, Stored + 1)
          <5>1. \A i \in DOMAIN Backlog : /\ i > Stored => i = Stored + 1 \/ i > Stored + 1
            BY <2>4, <2>6, SinkTyped
          <5> QED BY <2>6, <3>3, <5>1 DEF HasAfter
        <4> QED BY <1>1, <2>1, <3>1, <3>3, <4>1
      <3> QED BY <3>1, <3>2, <3>3
    <2> QED BY <1>1, <2>1, <2>2, <2>5, <2>7, SinkTyped DEF SinkInv, SinkTypeOK
  <1>3. CASE ApiStoresLate
    <2>1. PICK e \in Event, r \in Seq(Event) : /\ e = overdue[1] /\ r = Tail(overdue)
             /\ Stores(e) /\ overdue' = r /\ Len(overdue) # 0
             /\ Len(r) = Len(overdue) - 1 /\ \A i \in 1..Len(r) : r[i] = overdue[i + 1]
      <3>1. overdue # << >> /\ overdue' = Tail(overdue) /\ Stores(Head(overdue))
        BY <1>3 DEF ApiStoresLate
      <3>2. overdue \in Seq(Event)
        BY SinkTyped
      <3>3. /\ Head(overdue) \in Event /\ Head(overdue) = overdue[1] /\ Tail(overdue) \in Seq(Event)
            /\ Len(overdue) \in Nat \ {0} /\ Len(Tail(overdue)) = Len(overdue) - 1
            /\ \A i \in 1..Len(Tail(overdue)) : Tail(overdue)[i] = overdue[i + 1]
        BY <3>1, <3>2, TakeFirst
      <3>4. Len(overdue) # 0
        BY <3>3
      <3> QED BY <3>1, <3>3, <3>4, Zenon
    <2>2. UNCHANGED <<queue, post, request, sentKeys, keyOrder, tally, latest, gaveUp>>
          /\ Backlog' = Backlog /\ Stored' = Stored
      BY <1>3 DEF ApiStoresLate, Backlog, Stored
    <2>3. e.lot \in spoiled
      <3>1. 1 \in DOMAIN overdue
        BY <2>1, SinkTyped
      <3> QED BY <2>1, <3>1 DEF SinkInv, Lots
    <2>4. Lots(r) \subseteq Lots(overdue)
      <3>1. \A i \in DOMAIN r : i + 1 \in DOMAIN overdue /\ r[i] = overdue[i + 1]
        BY <2>1, SinkTyped
      <3> QED BY <3>1 DEF Lots
    <2>5. RequestIsRest'
      BY <2>2 DEF SinkInv, RequestIsRest
    <2>6. LotsInOrder'
      BY <1>1, <2>1, <2>2, <2>3 DEF SinkInv, LotsInOrder
    <2> QED BY <1>1, <2>1, <2>2, <2>4, <2>5, <2>6, SinkTyped DEF SinkInv, SinkTypeOK
  <1> QED BY <1>2, <1>3

LEMMA CountTyped == \A items, p : items \in Seq(Item) => Of(items, p) \in Nat
  <1> SUFFICES ASSUME NEW items \in Seq(Item), NEW p PROVE Of(items, p) \in Nat
    OBVIOUS
  <1>1. IsFiniteSet(1..Len(items)) /\ DOMAIN items = 1..Len(items)
    BY FS_Interval
  <1>2. IsFiniteSet({i \in DOMAIN items : items[i].page = p})
    BY <1>1, FS_Subset
  <1> QED BY <1>2, FS_CardinalityType DEF Of

LEMMA TallyGrows ==
    ASSUME SinkInv, NEW items \in Seq(Item),
           \/ tally' = [p \in Page |-> [tally[p] EXCEPT !.ingested = @ + Of(items, p)]]
           \/ tally' = [p \in Page |-> [tally[p] EXCEPT !.errors = @ + Of(items, p)]]
    PROVE  tally' \in [Page -> [ingested : Nat, errors : Nat]]
  <1>1. \A p \in Page : tally[p] \in [ingested : Nat, errors : Nat] /\ Of(items, p) \in Nat
    BY SinkTyped, CountTyped
  <1>2. \A p \in Page : /\ [tally[p] EXCEPT !.ingested = @ + Of(items, p)] \in [ingested : Nat, errors : Nat]
                        /\ [tally[p] EXCEPT !.errors = @ + Of(items, p)] \in [ingested : Nat, errors : Nat]
    BY <1>1
  <1>3. CASE tally' = [p \in Page |-> [tally[p] EXCEPT !.ingested = @ + Of(items, p)]]
    <2>1. \A p \in Page : [tally[p] EXCEPT !.ingested = @ + Of(items, p)] \in [ingested : Nat, errors : Nat]
      BY <1>2
    <2> QED BY <1>3, <2>1, Zenon
  <1>4. CASE tally' = [p \in Page |-> [tally[p] EXCEPT !.errors = @ + Of(items, p)]]
    <2>1. \A p \in Page : [tally[p] EXCEPT !.errors = @ + Of(items, p)] \in [ingested : Nat, errors : Nat]
      BY <1>2
    <2> QED BY <1>4, <2>1, Zenon
  <1> QED BY <1>3, <1>4

\* The post returns, or the two seconds are over: the loop goes on.
LEMMA GoesOnKeeps ==
    ASSUME SinkInv, Posted \/ Retry
    PROVE  SinkInv'
  <1>1. CASE Posted
    <2>1. /\ post.pc = "post" /\ request = << >> /\ Drain(queue)
          /\ UNCHANGED <<overdue, sentKeys, keyOrder, result, latest, gaveUp, spoiled, sinkLeft>>
          /\ tally' = [p \in Page |-> [tally[p] EXCEPT !.ingested = @ + Of(post.batch, p)]]
      BY <1>1 DEF Posted
    <2>2. Stored = Len(post.batch)
      BY <2>1, SinkTyped DEF Stored
    <2>3. ASSUME NEW l \in Lot \ spoiled'
          PROVE  /\ EndsWith(queue, l, latest'[l])
                 /\ HasAfter(queue, l, 0) \/ result'[l] = latest'[l]
      <3>1. /\ EndsWith(post.batch \o queue, l, latest[l])
            /\ HasAfter(post.batch \o queue, l, Len(post.batch)) \/ result[l] = latest[l]
        BY <2>1, <2>2 DEF SinkInv, LotsInOrder, Backlog
      <3>2. queue \in Seq(Item) /\ post.batch \in Seq(Item)
        BY SinkTyped
      <3> QED BY <2>1, <3>1, <3>2, EndsWithRest
    <2>4. RequestIsRest' /\ LotsInOrder'
      BY <2>1, <2>3, SinkTyped, DrainKeepsOrder
    <2>5. /\ queue' \in Seq(Item) /\ post' \in [pc : {"idle", "post", "wait"}, batch : Seq(Item)]
          /\ request' \in Seq(Event)
          /\ post'.pc = "idle" => queue' = << >> /\ post'.batch = << >>
      BY <2>1, SinkTyped, DrainsBacklog, EventsTyped
    <2>6. tally' \in [Page -> [ingested : Nat, errors : Nat]]
      <3>1. post.batch \in Seq(Item)
        BY SinkTyped
      <3>2. tally' = [p \in Page |-> [tally[p] EXCEPT !.ingested = @ + Of(post.batch, p)]]
        BY <2>1
      <3> QED BY <3>1, <3>2, TallyGrows
    <2> QED BY <2>1, <2>4, <2>5, <2>6 DEF SinkInv, SinkTypeOK
  <1>2. CASE Retry
    <2>1. /\ post.pc = "wait" /\ Drain(Backlog)
          /\ UNCHANGED <<overdue, sentKeys, keyOrder, tally, result, latest, gaveUp, spoiled,
                         sinkLeft>>
      BY <1>2 DEF Retry, Requeued, Backlog
    <2>2. Stored = 0
      BY <2>1 DEF Stored
    <2>3. ASSUME NEW l \in Lot \ spoiled'
          PROVE  /\ EndsWith(Backlog, l, latest'[l])
                 /\ HasAfter(Backlog, l, 0) \/ result'[l] = latest'[l]
      BY <2>1, <2>2 DEF SinkInv, LotsInOrder
    <2>4. RequestIsRest' /\ LotsInOrder'
      BY <2>1, <2>3, SinkTyped, DrainKeepsOrder
    <2>5. /\ queue' \in Seq(Item) /\ post' \in [pc : {"idle", "post", "wait"}, batch : Seq(Item)]
          /\ request' \in Seq(Event)
          /\ post'.pc = "idle" => queue' = << >> /\ post'.batch = << >>
      BY <2>1, SinkTyped, DrainsBacklog, EventsTyped
    <2> QED BY <2>1, <2>4, <2>5 DEF SinkInv, SinkTypeOK
  <1> QED BY <1>1, <1>2

\* A failure: what is given up spoils its lot, the rest keeps its order.
LEMMA FailsKeeps ==
    ASSUME SinkInv, Fails
    PROVE  SinkInv'
  <1> USE SinkTyped
  <1> DEFINE tried == [i \in DOMAIN post.batch |-> Tried(post.batch[i])]
             alive == {item \in ToSet(tried) : item.attempts < MaxAttempts}
             retry == Kept(tried, alive)
             dead  == Kept(tried, ToSet(tried) \ alive)
  <1>1. PICK b \in Seq(Item), n \in Nat : b = post.batch /\ n = Len(b) /\ DOMAIN b = 1..n
    OBVIOUS
  <1>2. tried = [i \in DOMAIN b |-> Tried(b[i])]
    BY <1>1
  <1>3. /\ tried \in Seq(Item) /\ Len(tried) = n /\ DOMAIN tried = 1..n
        /\ \A i \in 1..n : tried[i].event = b[i].event
    <2>1. ASSUME NEW x \in Item PROVE Tried(x) \in Item /\ Tried(x).event = x.event
      <3>1. x \in [event : Event, page : Page, attempts : Nat] /\ x.attempts + 1 \in Nat
        BY DEF Item
      <3> QED BY <3>1 DEF Tried, Item
    <2>2. \A i \in 1..n : b[i] \in Item
      BY <1>1
    <2>3. tried \in [1..n -> Item]
      BY <1>1, <1>2, <2>1, <2>2
    <2> QED BY <1>1, <1>2, <2>1, <2>2, <2>3
  <1>6. /\ post.pc = "post"
        /\ \/ UNCHANGED <<overdue, sinkLeft>> /\ spoiled' = spoiled \cup Lots(Events(dead))
           \/ /\ SpendSink("fault") /\ overdue = << >> /\ overdue' = request
              /\ spoiled' = spoiled \cup Lots(request) \cup Lots(Events(dead))
        /\ tally' = [p \in Page |-> [tally[p] EXCEPT !.errors = @ + Of(dead, p)]]
        /\ sentKeys' = sentKeys \ {KeyOf(dead[i].event) : i \in DOMAIN dead}
        /\ gaveUp' = gaveUp \cup {KeyOf(dead[i].event) : i \in DOMAIN dead}
        /\ IF retry = << >> THEN Drain(queue)
           ELSE /\ post' = [pc |-> "wait", batch |-> retry]
                /\ request' = << >> /\ UNCHANGED queue
        /\ UNCHANGED <<keyOrder, result, latest>>
    BY Zenon DEF Fails
  <1>7. PICK at : retry \in Seq(Item) /\ Picked(tried, alive, n, retry, at)
    BY <1>3, KeptInOrder
  <1>8. PICK gone : dead \in Seq(Item) /\ Picked(tried, ToSet(tried) \ alive, n, dead, gone)
    BY <1>3, KeptInOrder
  <1> HIDE DEF tried, alive, retry, dead
  \* whatever is not tried again has spoiled its lot
  <1>9. ASSUME NEW l \in Lot \ spoiled', NEW k \in 1..n, b[k].event.lot = l
        PROVE  \E i \in 1..Len(retry) : at[i] = k
    <2>1. tried[k] \in ToSet(tried)
      BY <1>3 DEF ToSet
    <2>2. CASE tried[k] \in alive
      BY <1>7, <2>2 DEF Picked
    <2>3. CASE tried[k] \notin alive
      <3>1. PICK i \in 1..Len(dead) : gone[i] = k /\ dead[i] = tried[k]
        BY <1>8, <2>1, <2>3 DEF Picked
      <3>2. dead[i].event.lot = l
        BY <1>3, <1>9, <3>1
      <3>3. l \in spoiled'
        BY <1>6, <1>8, <3>2, EventsTyped
      <3> QED BY <3>3
    <2> QED BY <2>2, <2>3
  <1>10. ASSUME NEW l \in Lot \ spoiled'
         PROVE  /\ EndsWith(retry \o queue, l, latest[l])
                /\ HasAfter(retry \o queue, l, 0) \/ result[l] = latest[l]
    <2>1. /\ EndsWith(b \o queue, l, latest[l])
          /\ HasAfter(b \o queue, l, Stored) \/ result[l] = latest[l]
      <3>1. l \in Lot \ spoiled
        BY <1>6
      <3> QED BY <1>1, <3>1 DEF SinkInv, LotsInOrder, Backlog
    <2>2. HasAfter(b \o queue, l, Stored) => HasAfter(b \o queue, l, 0)
      <3>1. DOMAIN (b \o queue) = 1..(n + Len(queue))
        BY <1>1, AtIndex
      <3> QED BY <3>1 DEF HasAfter
    <2>3. /\ at \in [1..Len(retry) -> 1..Len(b)]
          /\ \A i \in 1..Len(retry) : retry[i].event = b[at[i]].event
          /\ \A i, j \in 1..Len(retry) : i < j => at[i] < at[j]
      BY <1>1, <1>3, <1>7 DEF Picked
    <2>4. \A k \in 1..Len(b) : b[k].event.lot = l => \E i \in 1..Len(retry) : at[i] = k
      BY <1>1, <1>9
    <2>5. EndsWith(retry \o queue, l, latest[l])
          /\ (HasAfter(b \o queue, l, 0) => HasAfter(retry \o queue, l, 0))
      BY <1>7, <2>1, <2>3, <2>4, EndsWithKept
    <2> QED BY <2>1, <2>2, <2>5
  <1>11. /\ RequestIsRest' /\ LotsInOrder' /\ queue' \in Seq(Item)
         /\ post' \in [pc : {"idle", "post", "wait"}, batch : Seq(Item)]
         /\ request' \in Seq(Event)
         /\ post'.pc = "idle" => queue' = << >> /\ post'.batch = << >>
    <2>1. CASE retry = << >>
      <3>1. Drain(queue) /\ retry \o queue = queue
        BY <1>6, <2>1, ConcatEmptySeq
      <3>2. RequestIsRest' /\ LotsInOrder'
        BY <1>6, <1>10, <3>1, DrainKeepsOrder
      <3> QED BY <3>1, <3>2, DrainsBacklog, EventsTyped
    <2>2. CASE retry # << >>
      <3>1. post' = [pc |-> "wait", batch |-> retry] /\ request' = << >> /\ queue' = queue
        BY <1>6, <2>2
      <3>2. post'.pc = "wait" /\ post'.batch = retry
        BY <3>1
      <3>3. Backlog' = retry \o queue /\ Stored' = 0
        BY <3>1, <3>2 DEF Backlog, Stored
      <3>4. RequestIsRest' /\ LotsInOrder'
        BY <1>6, <1>10, <3>1, <3>2, <3>3 DEF RequestIsRest, LotsInOrder
      <3> QED BY <1>7, <3>1, <3>2, <3>4
    <2> QED BY <2>1, <2>2
  <1>12. /\ spoiled' \in SUBSET Lot /\ overdue' \in Seq(Event)
         /\ Lots(overdue') \subseteq spoiled' /\ sinkLeft' \in [frame : Nat, fault : Nat]
    <2>1. Lots(Events(dead)) \subseteq Lot
      BY <1>8, EventsTyped
    <2>2. Lots(request) \subseteq Lot
      <3>1. \A i \in DOMAIN request : request[i] \in Event
        OBVIOUS
      <3> QED BY <3>1, KeysTyped DEF Lots
    <2>3. Lots(overdue) \subseteq spoiled
      BY DEF SinkInv
    <2>4. CASE UNCHANGED <<overdue, sinkLeft>> /\ spoiled' = spoiled \cup Lots(Events(dead))
      BY <2>1, <2>3, <2>4
    <2>5. CASE /\ SpendSink("fault") /\ overdue' = request
               /\ spoiled' = spoiled \cup Lots(request) \cup Lots(Events(dead))
      BY <2>1, <2>2, <2>5, SpendSinkTyped
    <2> QED BY <1>6, <2>4, <2>5
  <1>13. sentKeys' \in SUBSET Key /\ gaveUp' \in SUBSET Key
    <2>1. \A i \in DOMAIN dead : dead[i].event \in Event
      <3>1. \A i \in DOMAIN dead : dead[i] \in Item
        BY <1>8
      <3> QED BY <3>1 DEF Item
    <2>2. {KeyOf(dead[i].event) : i \in DOMAIN dead} \subseteq Key
      BY <2>1, KeysTyped
    <2>3. sentKeys \in SUBSET Key /\ gaveUp \in SUBSET Key
      BY DEF SinkInv, SinkTypeOK
    <2> QED BY <1>6, <2>2, <2>3
  <1>14. tally' \in [Page -> [ingested : Nat, errors : Nat]]
    <2>1. dead \in Seq(Item)
      BY <1>8
    <2>2. tally' = [p \in Page |-> [tally[p] EXCEPT !.errors = @ + Of(dead, p)]]
      BY <1>6
    <2> QED BY <2>1, <2>2, TallyGrows
  <1>15. UNCHANGED <<keyOrder, result, latest>>
    BY <1>6
  <1> QED BY <1>11, <1>12, <1>13, <1>14, <1>15 DEF SinkInv, SinkTypeOK

LEMMA LotsOfBoth ==
    ASSUME NEW s \in Seq(Event), NEW t \in Seq(Event)
    PROVE  Lots(s \o t) \subseteq Lots(s) \cup Lots(t)
  <1>1. PICK b : b = s \o t
    OBVIOUS
  <1>2. /\ DOMAIN s = 1..Len(s) /\ DOMAIN t = 1..Len(t) /\ DOMAIN b = 1..(Len(s) + Len(t))
        /\ \A i \in 1..Len(s) : b[i] = s[i]
        /\ \A i \in 1..Len(t) : b[Len(s) + i] = t[i]
        /\ \A k \in 1..(Len(s) + Len(t)) :
              k \in 1..Len(s) \/ \E i \in 1..Len(t) : k = Len(s) + i
    BY <1>1, AtIndex
  <1>3. ASSUME NEW k \in DOMAIN b PROVE b[k].lot \in Lots(s) \cup Lots(t)
    <2>1. CASE k \in 1..Len(s)
      BY <1>2, <2>1 DEF Lots
    <2>2. ASSUME NEW i \in 1..Len(t), k = Len(s) + i PROVE b[k].lot \in Lots(t)
      BY <1>2, <2>2 DEF Lots
    <2> QED BY <1>2, <2>1, <2>2
  <1> QED BY <1>1, <1>3 DEF Lots

\* The worker dies: every lot it had something to post of is spoiled.
LEMMA DeathKeeps ==
    ASSUME SinkInv, SinkDies, UNCHANGED sinkLeft
    PROVE  SinkInv'
  <1> USE SinkTyped
  <1>1. /\ spoiled' = spoiled \cup Lots(Events(queue)) \cup Lots(Events(post.batch))
        /\ overdue' = overdue \o request
        /\ queue' = << >> /\ post' = NoPost /\ request' = << >>
        /\ sentKeys' = {} /\ keyOrder' = << >> /\ gaveUp' = {}
        /\ tally' = [p \in Page |-> [ingested |-> 0, errors |-> 0]]
        /\ UNCHANGED <<result, latest>>
    BY DEF SinkDies
  <1>2. post'.pc = "idle" /\ post'.batch = << >> /\ Backlog' = << >>
    BY <1>1 DEF NoPost, Backlog
  <1>3. Lots(request) \subseteq Lots(Events(post.batch))
    <2> SUFFICES ASSUME NEW i \in DOMAIN request
                 PROVE  request[i].lot \in Lots(Events(post.batch))
      BY DEF Lots
    <2>1. /\ Stored + i \in 1..Len(post.batch) /\ request[i] = post.batch[Stored + i].event
      BY DEF SinkInv, RequestIsRest, Stored
    <2> QED BY <2>1, EventsTyped
  <1>4. overdue' \in Seq(Event) /\ Lots(overdue') \subseteq Lots(overdue) \cup Lots(request)
    <2>1. overdue \in Seq(Event) /\ request \in Seq(Event)
      OBVIOUS
    <2> QED BY <1>1, <2>1, LotsOfBoth, ConcatProperties
  <1>5. spoiled' \in SUBSET Lot /\ Lots(overdue') \subseteq spoiled'
    BY <1>1, <1>3, <1>4, EventsTyped DEF SinkInv
  <1>6. ASSUME NEW l \in Lot \ spoiled' PROVE result[l] = latest[l]
    <2>1. /\ DOMAIN Backlog = 1..(Len(post.batch) + Len(queue))
          /\ \A i \in 1..Len(post.batch) : Backlog[i] = post.batch[i]
          /\ \A i \in 1..Len(queue) : Backlog[Len(post.batch) + i] = queue[i]
          /\ \A k \in 1..(Len(post.batch) + Len(queue)) :
                 k \in 1..Len(post.batch) \/ \E i \in 1..Len(queue) : k = Len(post.batch) + i
      BY AtIndex DEF Backlog
    <2>2. ASSUME NEW k \in DOMAIN Backlog PROVE Backlog[k].event.lot \in spoiled'
      <3>1. CASE k \in 1..Len(post.batch)
        BY <1>1, <2>1, <3>1, EventsTyped
      <3>2. ASSUME NEW i \in 1..Len(queue), k = Len(post.batch) + i
            PROVE  Backlog[k].event.lot \in spoiled'
        BY <1>1, <2>1, <3>2, EventsTyped
      <3> QED BY <2>1, <3>1, <3>2
    <2>3. l \in Lot \ spoiled /\ ~HasAfter(Backlog, l, Stored)
      BY <1>1, <2>2 DEF HasAfter
    <2> QED BY <2>3 DEF SinkInv, LotsInOrder
  <1>7. RequestIsRest' /\ LotsInOrder'
    <2>1. \A l, e : EndsWith(<< >>, l, e)
      BY DEF EndsWith
    <2> QED BY <1>1, <1>2, <1>6, <2>1 DEF RequestIsRest, LotsInOrder
  <1>8. /\ tally' \in [Page -> [ingested : Nat, errors : Nat]]
        /\ post' \in [pc : {"idle", "post", "wait"}, batch : Seq(Item)]
    BY <1>1 DEF NoPost
  <1> QED BY <1>1, <1>2, <1>4, <1>5, <1>7, <1>8 DEF SinkInv, SinkTypeOK

\* What a step does to the sink.
SinkUntouched == UNCHANGED <<queue, post, request, overdue, sentKeys, keyOrder, result,
                             latest, gaveUp, spoiled>>

LEMMA SinkSteps ==
    ASSUME MonitorNext
    PROVE  \/ UNCHANGED sinkVars
           \/ SinkUntouched /\ UNCHANGED sinkLeft /\ \E pages : TakeCounters(pages)
           \/ SinkUntouched /\ UNCHANGED tally /\ SpendSink("frame")
           \/ \E p \in Page, e \in Event : Enqueue(p, e) /\ SpendSink("frame")
           \/ SinkStep
           \/ SinkDies /\ UNCHANGED sinkLeft
  <1> USE DEF sinkVars, SinkUntouched
  <1>1. ASSUME NEW s \in Sale, TimePasses(s), UNCHANGED MonitorVars
        PROVE  UNCHANGED sinkVars
    BY <1>1 DEF MonitorVars
  <1>2. ASSUME TickStep \/ MonitorBoots, ~StopEnds PROVE UNCHANGED sinkVars
    BY <1>2 DEF TickStep, Reconcile, ReadRows, StopTurn,
                ReadDue, CreateDue, TakePending, Login, StartSession, OpenEnds, MonitorBoots
  <1>3. ASSUME TickBegins \/ StopEnds
        PROVE  SinkUntouched /\ UNCHANGED sinkLeft /\ \E pages : TakeCounters(pages)
    BY <1>3 DEF TickBegins, StopEnds
  <1>4. ASSUME Requests \/ TickThrows \/ Toggle PROVE UNCHANGED sinkVars
    BY <1>4 DEF Requests, WriteStop, WriteStart, TickThrows, Toggle
  <1>5. ASSUME NEW p \in Page, Frame(p)
        PROVE  \/ SinkUntouched /\ UNCHANGED tally /\ SpendSink("frame")
               \/ \E e \in Event : Enqueue(p, e) /\ SpendSink("frame")
    BY <1>5 DEF Frame
  <1>6. ASSUME NEW p \in Page, PageDies(p) \/ AskStop(p) PROVE UNCHANGED sinkVars
    BY <1>6 DEF PageDies, AskStop
  <1>7. ASSUME NEW s \in Sale, AskStart(s) PROVE UNCHANGED sinkVars
    BY <1>7 DEF AskStart
  <1>8. ASSUME MonitorDies PROVE SinkDies /\ UNCHANGED sinkLeft
    BY <1>8 DEF MonitorDies
  <1> HIDE DEF sinkVars, SinkUntouched
  <1> QED
    BY <1>1, <1>2, <1>3, <1>4, <1>5, <1>6, <1>7, <1>8 DEF MonitorNext, MonitorStep, Scheduler

LEMMA SinkKept ==
    ASSUME SinkInv, [MonitorNext]_<<clockVars, MonitorVars>>
    PROVE  SinkInv'
  <1> USE DEF SinkInv, SinkTypeOK, RequestIsRest, LotsInOrder, Backlog, Stored
  <1>1. CASE UNCHANGED sinkVars
    BY <1>1 DEF sinkVars
  <1>2. ASSUME NEW pages, SinkUntouched, UNCHANGED sinkLeft, TakeCounters(pages)
        PROVE  SinkInv'
    <2>1. tally' \in [Page -> [ingested : Nat, errors : Nat]]
      BY <1>2, SinkTyped DEF TakeCounters
    <2> QED BY <1>2, <2>1 DEF SinkUntouched
  <1>3. CASE SinkUntouched /\ UNCHANGED tally /\ SpendSink("frame")
    <2>1. sinkLeft' \in [frame : Nat, fault : Nat]
      BY <1>3, SpendSinkTyped
    <2> QED BY <1>3, <2>1 DEF SinkUntouched
  <1> USE DEF MonitorVars
  <1>4. CASE UNCHANGED <<clockVars, MonitorVars>>
    BY <1>1, <1>4
  <1>5. CASE SinkStep
    BY <1>5, StoresKeeps, GoesOnKeeps, FailsKeeps DEF SinkStep
  <1> QED BY <1>1, <1>2, <1>3, <1>4, <1>5, SinkSteps, EnqueueKeeps, DeathKeeps

LEMMA SinkBegins == SinkInit => SinkInv
  <1> SUFFICES ASSUME SinkInit PROVE SinkInv
    OBVIOUS
  <1>1. /\ queue = << >> /\ post.pc = "idle" /\ post.batch = << >> /\ request = << >>
        /\ overdue = << >> /\ Backlog = << >>
    BY DEF SinkInit, NoPost, Backlog
  <1>2. SinkTypeOK
    BY <1>1, SinkAssumption DEF SinkInit, SinkTypeOK, NoPost
  <1>3. LotsInOrder /\ Lots(overdue) = {}
    BY <1>1 DEF SinkInit, LotsInOrder, EndsWith, Lots
  <1> QED BY <1>1, <1>2, <1>3 DEF SinkInv, RequestIsRest

\* The queue, the post and the requests of the sink, its window and the rows it writes
\* are well typed, and its loop is idle only with nothing left to post (drain).
THEOREM SinkIsTyped == MonitorSpec => []SinkTypeOK
  <1>1. SinkInv => SinkTypeOK
    BY DEF SinkInv
  <1> QED BY <1>1, SinkBegins, SinkKept, PTL DEF MonitorSpec

\* With nothing under way the row of a lot is the last event the sink took of it,
\* whatever failed and was posted again, unless an event of the lot was given up, refused
\* or outlived the sink's patience (post, drain, ingest): for any events, batches and
\* attempts, over any number of failures and restarts.
THEOREM RowsAreLatest == MonitorSpec => []LatestWins
  <1>1. SinkInv => LatestWins
    <2> SUFFICES ASSUME SinkInv, queue = << >>, post.pc = "idle", NEW l \in Lot \ spoiled
                 PROVE  result[l] = latest[l]
      BY DEF LatestWins
    <2>1. Backlog = << >>
      BY DEF SinkInv, Backlog
    <2>2. ~HasAfter(Backlog, l, Stored)
      BY <2>1 DEF HasAfter
    <2> QED BY <2>2 DEF SinkInv, LotsInOrder
  <1> QED BY <1>1, SinkBegins, SinkKept, PTL DEF MonitorSpec
=============================================================================
