--------------------------- MODULE SaleDeal_proofs ---------------------------
(***************************************************************************)
(* What every implementation of the deal inherits from it.                 *)
(***************************************************************************)
EXTENDS SaleDeal, TLAPS

DealType ==
    /\ holder \in [Sale -> VM \cup {Nobody}]
    /\ open \in [VM -> SUBSET Sale]
    /\ lifted \in SUBSET Sale
    /\ calendar \in Nat

\* A sale that never changed hands is held by the machine that has it open.
OpenIsHeld ==
    \A w \in VM : \A s \in open[w] \ lifted : holder[s] = w

\* Two machines have the same sale open only if it changed hands in between.
Exclusive ==
    \A v, w \in VM : v # w => open[v] \cap open[w] \subseteq lifted

LEMMA DealTypeStep == DealType /\ [DealNext]_dealVars => DealType'
  <1> SUFFICES ASSUME DealType, [DealNext]_dealVars PROVE DealType'
    OBVIOUS
  <1>1. ASSUME NEW w \in VM, Give(w) PROVE DealType'
    BY <1>1 DEF Give, DealType
  <1>2. ASSUME NEW w \in VM, Answer(w) PROVE DealType'
    BY <1>2 DEF Answer, DealType
  <1>3. CASE TakeBack
    BY <1>3 DEF TakeBack, DealType
  <1>4. CASE Replace
    BY <1>4 DEF Replace, DealType
  <1>5. CASE UNCHANGED dealVars
    BY <1>5 DEF dealVars, DealType
  <1> QED
    BY <1>1, <1>2, <1>3, <1>4, <1>5 DEF DealNext

LEMMA OpenIsHeldStep ==
    /\ Nobody \notin VM /\ DealType /\ OpenIsHeld /\ [DealNext]_dealVars
    => OpenIsHeld'
  <1> SUFFICES ASSUME Nobody \notin VM, DealType, OpenIsHeld, [DealNext]_dealVars,
                      NEW w \in VM, NEW s \in open'[w], s \notin lifted'
               PROVE  holder'[s] = w
    BY DEF OpenIsHeld
  <1>1. ASSUME NEW v \in VM, Give(v) PROVE holder'[s] = w
    BY <1>1 DEF Give, DealType, OpenIsHeld
  <1>2. ASSUME NEW v \in VM, Answer(v) PROVE holder'[s] = w
    <2>1. CASE v = w
      BY <1>2, <2>1 DEF Answer, DealType
    <2>2. CASE v # w
      BY <1>2, <2>2 DEF Answer, DealType, OpenIsHeld
    <2> QED BY <2>1, <2>2
  <1>3. CASE TakeBack
    BY <1>3 DEF TakeBack, DealType, OpenIsHeld
  <1>4. CASE Replace
    BY <1>4 DEF Replace, DealType, OpenIsHeld
  <1>5. CASE UNCHANGED dealVars
    BY <1>5 DEF dealVars, OpenIsHeld
  <1> QED
    BY <1>1, <1>2, <1>3, <1>4, <1>5 DEF DealNext

\* The abstract deal alone keeps two machines from opening one sale: with the
\* refinement, exclusivity does not depend on how the queries of a claim interleave.
THEOREM DealIsExclusive ==
    ASSUME Nobody \notin VM
    PROVE  DealSpec => []Exclusive
  <1>1. DealInit => DealType /\ OpenIsHeld
    BY DEF DealInit, DealType, OpenIsHeld
  <1>2. DealType /\ OpenIsHeld => Exclusive
    BY DEF DealType, OpenIsHeld, Exclusive
  <1>3. DealType /\ OpenIsHeld /\ [DealNext]_dealVars => DealType' /\ OpenIsHeld'
    BY DealTypeStep, OpenIsHeldStep
  <1> QED
    BY <1>1, <1>2, <1>3, PTL DEF DealSpec
=============================================================================
