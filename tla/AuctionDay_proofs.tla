-------------------------- MODULE AuctionDay_proofs --------------------------
(***************************************************************************)
(* Theorems about a whole auction day, for any agents, sales, instances of *)
(* the deal and removals in flight: the types of its three services, what  *)
(* a deal gives to whom, and what a deletion leaves behind.                *)
(***************************************************************************)
EXTENDS AuctionDay, MonitorSessions_proofs

DayInit ==
    /\ DealInit /\ MonitorInit /\ SinkInit
    /\ phase \in [Sale -> Phases] /\ daysLeft \in Nat

DaySpec == DayInit /\ [][DayStep]_<<clockVars, dealVars, MonitorVars>>

-----------------------------------------------------------------------------
(* What a deal gives                                                        *)

\* Every element of a finite set stands somewhere in each of its orders.
LEMMA OrderHasAll ==
    ASSUME NEW S, IsFiniteSet(S), NEW q \in SetToSeqs(S)
    PROVE  /\ Cardinality(S) \in Nat /\ q \in [1..Cardinality(S) -> S]
           /\ \A x \in S : \E i \in 1..Cardinality(S) : q[i] = x
  <1>1. PICK n \in Nat : n = Cardinality(S)
    BY FS_CardinalityType
  <1>2. q \in [1..n -> S] /\ \A i, j \in 1..n : i # j => q[i] # q[j]
    BY <1>1 DEF SetToSeqs
  <1>3. IsFiniteSet(1..n) /\ Cardinality(1..n) = n
    BY FS_Interval
  <1>4. q \in Injection(1..n, S)
    BY <1>2 DEF Injection, IsInjective
  <1>5. q \in Surjection(1..n, S)
    BY <1>1, <1>3, <1>4, FS_Injection
  <1> QED BY <1>1, <1>2, <1>5 DEF Surjection

\* A deal of sales to agents, as sequences.
Dealt(sales, agents, plan) ==
    /\ plan \in Seq([sale : sales, to : agents])
    /\ Len(plan) = Cardinality(sales)
    /\ {g.sale : g \in ToSet(plan)} = sales

LEMMA DealGivesAll ==
    ASSUME DealAssumption, NEW sales \in SUBSET Sale, NEW agents \in SUBSET Agent,
           NEW plan \in Deals(sales, agents)
    PROVE  Dealt(sales, agents, plan)
  <1>1. IsFiniteSet(sales)
    BY FS_Subset DEF DealAssumption
  <1>2. PICK n \in Nat : n = Cardinality(sales)
    BY <1>1, FS_CardinalityType
  <1>3. PICK q \in SetToSeqs(sales), to \in [1..n -> agents] :
             plan = [i \in 1..n |-> [sale |-> q[i], to |-> to[i]]]
    <2>1. plan \in {[i \in 1..Cardinality(sales) |-> [sale |-> q[i], to |-> to[i]]] :
                      q \in SetToSeqs(sales), to \in [1..Cardinality(sales) -> agents]}
      BY DEF Deals
    <2>2. plan \in {[i \in 1..n |-> [sale |-> q[i], to |-> to[i]]] :
                      q \in SetToSeqs(sales), to \in [1..n -> agents]}
      BY <1>2, <2>1
    <2> DEFINE P(q, to) == [i \in 1..n |-> [sale |-> q[i], to |-> to[i]]]
    <2>3. plan \in {P(q, to) : q \in SetToSeqs(sales), to \in [1..n -> agents]}
      BY <2>2
    <2>4. \E q \in SetToSeqs(sales), to \in [1..n -> agents] : plan = P(q, to)
      <3> HIDE DEF P
      <3> QED BY <2>3
    <2> QED BY <2>4
  <1>4. q \in [1..n -> sales] /\ \A s \in sales : \E i \in 1..n : q[i] = s
    BY <1>1, <1>2, OrderHasAll
  <1>5. plan \in Seq([sale : sales, to : agents]) /\ Len(plan) = n /\ DOMAIN plan = 1..n
    BY <1>3, <1>4
  <1>6. ToSet(plan) = {[sale |-> q[i], to |-> to[i]] : i \in 1..n}
    BY <1>3 DEF ToSet
  <1>7. {g.sale : g \in ToSet(plan)} = {q[i] : i \in 1..n}
    <2>1. \A g : g \in ToSet(plan) <=> \E i \in 1..n : g = [sale |-> q[i], to |-> to[i]]
      BY <1>6
    <2>2. \A i \in 1..n : [sale |-> q[i], to |-> to[i]].sale = q[i]
      OBVIOUS
    <2>3. ASSUME NEW g \in ToSet(plan) PROVE g.sale \in {q[i] : i \in 1..n}
      BY <2>1, <2>2
    <2>4. ASSUME NEW i \in 1..n PROVE q[i] \in {g.sale : g \in ToSet(plan)}
      <3>1. [sale |-> q[i], to |-> to[i]] \in ToSet(plan)
        BY <2>1
      <3> QED BY <2>2, <3>1
    <2> QED BY <2>3, <2>4
  <1>8. {q[i] : i \in 1..n} = sales
    BY <1>4
  <1> QED BY <1>2, <1>5, <1>7, <1>8 DEF Dealt

\* A finite set of places that is not empty has a last one.
LEMMA LastPlace ==
    ASSUME NEW n \in Nat, NEW I \in SUBSET (1..n), I # {}
    PROVE  \E i \in I : \A j \in I : j <= i
  <1> SUFFICES ASSUME \A i \in I : \E j \in I : ~(j <= i) PROVE FALSE
    OBVIOUS
  <1> DEFINE B == {n - i : i \in I}
  <1>1. B \in SUBSET Nat /\ B # {}
    <2>1. \A i \in I : n - i \in Nat
      OBVIOUS
    <2> QED BY <2>1
  <1>2. \A m \in B : \E k \in B : ~(m <= k)
    <2> SUFFICES ASSUME NEW i \in I PROVE \E k \in B : ~(n - i <= k)
      OBVIOUS
    <2>1. PICK j \in I : ~(j <= i)
      OBVIOUS
    <2>2. n - j \in B /\ i \in 1..n /\ j \in 1..n
      OBVIOUS
    <2>3. ~(n - i <= n - j)
      BY <2>1, <2>2
    <2> QED BY <2>2, <2>3
  <1> HIDE DEF B
  <1> QED BY <1>1, <1>2, NoLeast

\* What agent a has of the plan, and of the plan before its i-th sale.
Got(plan, a) == Cardinality({j \in DOMAIN plan : plan[j].to = a})

LEMMA GotSoFar ==
    ASSUME NEW n \in Nat, NEW plan, DOMAIN plan = 1..n, NEW i \in 1..n, NEW a
    PROVE  /\ Counted(plan, i, a) \in Nat /\ Got(plan, a) \in Nat
           /\ Counted(plan, i, a) <= Got(plan, a)
           /\ (plan[i].to = a /\ \A j \in 1..n : plan[j].to = a => j <= i)
                  => Counted(plan, i, a) = Got(plan, a) - 1
  <1> DEFINE All == {j \in DOMAIN plan : plan[j].to = a}
             Before == {j \in DOMAIN plan : j < i /\ plan[j].to = a}
  <1>1. IsFiniteSet(All)
    <2>1. All \in SUBSET (1..n)
      OBVIOUS
    <2>2. IsFiniteSet(1..n)
      BY FS_Interval
    <2> HIDE DEF All
    <2> QED BY <2>1, <2>2, FS_Subset
  <1>2. Before \in SUBSET All
    OBVIOUS
  <1>3. (plan[i].to = a /\ \A j \in 1..n : plan[j].to = a => j <= i)
            => i \in All /\ Before = All \ {i}
    OBVIOUS
  <1>4. Counted(plan, i, a) = Cardinality(Before) /\ Got(plan, a) = Cardinality(All)
    BY DEF Counted, Got
  <1> HIDE DEF All, Before
  <1>5. IsFiniteSet(Before) /\ Cardinality(Before) <= Cardinality(All)
    BY <1>1, <1>2, FS_Subset
  <1>6. Cardinality(Before) \in Nat /\ Cardinality(All) \in Nat
    BY <1>1, <1>5, FS_CardinalityType
  <1>7. i \in All /\ Before = All \ {i} => Cardinality(Before) = Cardinality(All) - 1
    BY <1>1, FS_RemoveElement
  <1> QED BY <1>3, <1>4, <1>5, <1>6, <1>7

\* Whoever got a sale was the one with least, and has one more for it.
LEMMA DealsAreLevel ==
    ASSUME DealAssumption, NEW sales \in SUBSET Sale, NEW agents \in SUBSET Agent,
           NEW plan \in Deals(sales, agents)
    PROVE  Level(sales, agents, plan)
  <1>1. Dealt(sales, agents, plan)
    BY DealGivesAll
  <1>2. PICK n \in Nat : n = Len(plan) /\ DOMAIN plan = 1..n
    BY <1>1 DEF Dealt
  <1>3. PICK order \in SetToSeqs(agents) :
             \A i \in DOMAIN plan :
                IsBest(order, [a \in agents |-> Load(a) + Counted(plan, i, a)], plan[i].to)
    <2> DEFINE Greedy(p, order) ==
            \A i \in DOMAIN p :
                IsBest(order, [a \in agents |-> Load(a) + Counted(p, i, a)], p[i].to)
    <2>1. \E order \in SetToSeqs(agents) : Greedy(plan, order)
      BY DEF Deals
    <2> QED BY <2>1
  <1>4. \A b \in agents : \E j \in DOMAIN order : order[j] = b
    <2>1. IsFiniteSet(agents)
      BY FS_Subset DEF DealAssumption
    <2> QED BY <2>1, OrderHasAll
  <1>5. \A a : Load(a) \in Nat
    <2> TAKE a
    <2>1. {s \in Future : holder[s] = a} \in SUBSET Sale
      BY DEF Future
    <2>2. IsFiniteSet({s \in Future : holder[s] = a})
      BY <2>1, FS_Subset DEF DealAssumption
    <2> QED BY <2>2, FS_CardinalityType DEF Load
  <1>6. ASSUME NEW a \in agents, NEW b \in agents, Got(plan, a) > 0
        PROVE  Load(a) + Got(plan, a) <= Load(b) + Got(plan, b) + 1
    <2> DEFINE I == {j \in 1..n : plan[j].to = a}
    <2>1. I # {}
      <3> SUFFICES ASSUME I = {} PROVE FALSE
        OBVIOUS
      <3>1. Got(plan, a) = Cardinality({})
        BY <1>2 DEF Got
      <3> QED BY <1>6, <3>1, FS_EmptySet
    <2>2. PICK i \in I : \A j \in I : j <= i
      <3>1. I \in SUBSET (1..n)
        OBVIOUS
      <3> HIDE DEF I
      <3> QED BY <2>1, <3>1, LastPlace
    <2>3. i \in 1..n /\ plan[i].to = a /\ \A j \in 1..n : plan[j].to = a => j <= i
      BY <2>2
    <2>4. Counted(plan, i, a) = Got(plan, a) - 1 /\ Got(plan, a) \in Nat
      BY <1>2, <2>3, GotSoFar
    <2>5. Counted(plan, i, b) <= Got(plan, b) /\ Counted(plan, i, b) \in Nat /\ Got(plan, b) \in Nat
      BY <1>2, <2>3, GotSoFar
    <2> DEFINE count == [c \in agents |-> Load(c) + Counted(plan, i, c)]
    <2>6. IsBest(order, count, a)
      BY <1>2, <1>3, <2>3
    <2>7. PICK j \in DOMAIN order : order[j] = b
      BY <1>4
    <2>8. count[a] = Load(a) + Counted(plan, i, a) /\ count[b] = Load(b) + Counted(plan, i, b)
      OBVIOUS
    <2>9. count[a] < count[b] \/ count[a] = count[b]
      <3> HIDE DEF count
      <3> QED BY <2>6, <2>7 DEF IsBest
    <2> HIDE DEF count
    <2> QED BY <1>5, <2>4, <2>5, <2>8, <2>9
  <1> QED BY <1>1, <1>6 DEF Level, Dealt, Got

-----------------------------------------------------------------------------
(* Types of the deal                                                        *)

LEMMA NothingInFlight == NoPass \in Pass /\ NoRemoval \in Removal
  BY DEF Pass, NoPass, Removal, NoRemoval

LEMMA DealTypes ==
    ASSUME DealTypeOK
    PROVE  /\ agent \in [Agent -> {"none", "active", "inactive", "gone"}]
           /\ holder \in [Sale -> Agent \cup {Nobody}]
           /\ pass \in [Desk -> Pass] /\ call \in [Call -> Removal]
           /\ dealLeft \in [remove : Nat, staff : Nat, fault : Nat]
           /\ \A s \in Sale : holder[s] # Nobody => holder[s] \in Existing
           /\ Future \subseteq Sale /\ Stale \subseteq Sale /\ Pending \subseteq Sale
           /\ Active \subseteq Existing /\ Existing \subseteq Agent
  BY DEF DealTypeOK, Future, Stale, Pending, Active, Existing

LEMMA SpendTypes ==
    ASSUME DealTypeOK, NEW kind \in {"remove", "staff", "fault"}, Spend(kind)
    PROVE  dealLeft' \in [remove : Nat, staff : Nat, fault : Nat]
  <1>1. dealLeft \in [remove : Nat, staff : Nat, fault : Nat]
    BY DealTypes
  <1>2. /\ dealLeft.remove \in Nat /\ dealLeft.staff \in Nat /\ dealLeft.fault \in Nat
        /\ dealLeft[kind] \in Nat /\ dealLeft[kind] - 1 \in Nat
    BY <1>1 DEF Spend
  <1> QED BY <1>1, <1>2 DEF Spend

\* The fields of a removal.
LEMMA RemovalFields ==
    ASSUME NEW r \in Removal
    PROVE  /\ r.pc \in {"idle", "off", "read", "transfer", "others", "deal", "give", "delete"}
           /\ r.bulk \in BOOLEAN /\ r.how \in {"transfer", "random", "release"}
           /\ r.to \in Agent \cup {Nobody}
           /\ r.all \in SUBSET Agent /\ r.rest \in SUBSET Agent /\ r.now \in SUBSET Agent
           /\ r.among \in SUBSET Agent /\ r.todo \in SUBSET Sale /\ r.plan \in Seq(Given)
           /\ r.watch \in SUBSET Agent /\ r.back \in SUBSET Agent /\ r.given \in SUBSET Sale
  BY DEF Removal

\* The removal with nothing at hand, and the one after that.
Done(r) == [r EXCEPT !.now = {}, !.among = {}, !.todo = {}, !.plan = << >>]

LEMMA DoneFields ==
    ASSUME NEW r \in Removal
    PROVE  /\ Done(r) \in Removal /\ Done(r).rest = r.rest /\ Done(r).bulk = r.bulk
           /\ Done(r).how = r.how /\ Done(r).to = r.to /\ Done(r).all = r.all
           /\ Done(r).watch = r.watch /\ Done(r).back = r.back /\ Done(r).given = r.given
           /\ Done(r).todo = {} /\ Done(r).among = {} /\ Done(r).plan = << >> /\ Done(r).now = {}
  <1>1. << >> \in Seq(Given)
    OBVIOUS
  <1>2. {} \in SUBSET Agent /\ {} \in SUBSET Sale
    OBVIOUS
  <1>3. Done(r) \in Removal
    BY <1>1, <1>2 DEF Removal, Done
  <1> QED BY <1>3 DEF Removal, Done

LEMMA TurnIs ==
    ASSUME NEW r \in Removal, NEW next \in Turn(r)
    PROVE  \/ (r.how = "release" \/ r.rest = {}) /\ next = [Done(r) EXCEPT !.pc = "delete"]
           \/ /\ r.how # "release"
              /\ \E a \in r.rest :
                    next = [Done(r) EXCEPT !.pc = First(r), !.now = {a}, !.rest = r.rest \ {a}]
  <1>1. Done(r) \in Removal /\ Done(r).rest = r.rest
    BY DoneFields
  <1>2. CASE r.how = "release" \/ r.rest = {}
    <2>1. Turn(r) = {[Done(r) EXCEPT !.pc = "delete"]}
      BY <1>2, Zenon DEF Turn, Done
    <2> QED BY <1>2, <2>1
  <1>3. CASE ~(r.how = "release" \/ r.rest = {})
    <2>1. Turn(r) = {[Done(r) EXCEPT !.pc = First(r), !.now = {a}, !.rest = @ \ {a}] : a \in r.rest}
      BY <1>3, Zenon DEF Turn, Done
    <2>2. PICK a \in r.rest : next = [Done(r) EXCEPT !.pc = First(r), !.now = {a}, !.rest = @ \ {a}]
      BY <2>1
    <2>3. next = [Done(r) EXCEPT !.pc = First(r), !.now = {a}, !.rest = r.rest \ {a}]
      BY <1>1, <2>2 DEF Removal
    <2> QED BY <1>3, <2>3
  <1> QED BY <1>2, <1>3

LEMMA TurnFields ==
    ASSUME NEW r \in Removal, NEW next \in Turn(r)
    PROVE  /\ next \in Removal
           /\ next.bulk = r.bulk /\ next.how = r.how /\ next.to = r.to /\ next.all = r.all
           /\ next.watch = r.watch /\ next.back = r.back /\ next.given = r.given
           /\ next.todo = {} /\ next.among = {} /\ next.plan = << >>
           /\ \/ next.pc = "delete" /\ next.now = {} /\ next.rest = r.rest
                 /\ (r.how = "release" \/ r.rest = {})
              \/ /\ next.pc = First(r) /\ r.how # "release"
                 /\ \E a \in r.rest : next.now = {a} /\ next.rest = r.rest \ {a}
  <1>1. /\ Done(r) \in Removal /\ Done(r).rest = r.rest /\ Done(r).bulk = r.bulk
        /\ Done(r).how = r.how /\ Done(r).to = r.to /\ Done(r).all = r.all
        /\ Done(r).watch = r.watch /\ Done(r).back = r.back /\ Done(r).given = r.given
        /\ Done(r).todo = {} /\ Done(r).among = {} /\ Done(r).plan = << >> /\ Done(r).now = {}
    BY DoneFields
  <1>2. PICK d \in Removal : d = Done(r)
    BY <1>1
  <1>3. CASE (r.how = "release" \/ r.rest = {}) /\ next = [d EXCEPT !.pc = "delete"]
    <2>1. /\ next \in Removal /\ next.pc = "delete" /\ next.now = d.now /\ next.rest = d.rest
          /\ next.bulk = d.bulk /\ next.how = d.how /\ next.to = d.to /\ next.all = d.all
          /\ next.watch = d.watch /\ next.back = d.back /\ next.given = d.given
          /\ next.todo = d.todo /\ next.among = d.among /\ next.plan = d.plan
      BY <1>2, <1>3 DEF Removal
    <2> QED BY <1>1, <1>2, <1>3, <2>1
  <1>4. CASE /\ r.how # "release"
             /\ \E a \in r.rest :
                   next = [d EXCEPT !.pc = First(r), !.now = {a}, !.rest = r.rest \ {a}]
    <2>1. PICK a \in r.rest : next = [d EXCEPT !.pc = First(r), !.now = {a}, !.rest = r.rest \ {a}]
      BY <1>4
    <2>2. First(r) \in {"off", "read"} /\ r.rest \in SUBSET Agent
      BY RemovalFields DEF First
    <2>3. {a} \in SUBSET Agent /\ r.rest \ {a} \in SUBSET Agent
      BY <2>2
    <2>4. /\ next \in Removal /\ next.pc = First(r) /\ next.now = {a} /\ next.rest = r.rest \ {a}
          /\ next.bulk = d.bulk /\ next.how = d.how /\ next.to = d.to /\ next.all = d.all
          /\ next.watch = d.watch /\ next.back = d.back /\ next.given = d.given
          /\ next.todo = d.todo /\ next.among = d.among /\ next.plan = d.plan
      BY <1>2, <2>1, <2>2, <2>3 DEF Removal
    <2> QED BY <1>1, <1>2, <1>4, <2>4
  <1>5. \/ (r.how = "release" \/ r.rest = {}) /\ next = [d EXCEPT !.pc = "delete"]
        \/ /\ r.how # "release"
           /\ \E a \in r.rest :
                 next = [d EXCEPT !.pc = First(r), !.now = {a}, !.rest = r.rest \ {a}]
    <2>1. \/ (r.how = "release" \/ r.rest = {}) /\ next = [Done(r) EXCEPT !.pc = "delete"]
          \/ /\ r.how # "release"
             /\ \E a \in r.rest :
                   next = [Done(r) EXCEPT !.pc = First(r), !.now = {a}, !.rest = r.rest \ {a}]
      BY TurnIs, Zenon
    <2> QED BY <1>2, <2>1, Zenon
  <1> QED BY <1>3, <1>4, <1>5

\* The sales of a plan.
SalesOf(plan) == {g.sale : g \in ToSet(plan)}

LEMMA PlanTypes ==
    ASSUME DealAssumption, NEW sales \in SUBSET Sale, NEW agents \in SUBSET Agent,
           NEW plan \in Deals(sales, agents)
    PROVE  /\ plan \in Seq(Given) /\ SalesOf(plan) = sales
           /\ \A g \in ToSet(plan) : g.to \in agents
  <1>1. plan \in Seq([sale : sales, to : agents]) /\ SalesOf(plan) = sales
    BY DealGivesAll DEF Dealt, SalesOf
  <1>2. [sale : sales, to : agents] \subseteq Given
    BY DEF Given
  <1>3. \A i \in 1..Len(plan) : plan[i] \in [sale : sales, to : agents]
    <2>1. PICK T : T = [sale : sales, to : agents]
      OBVIOUS
    <2>2. plan \in Seq(T)
      BY <1>1, <2>1
    <2>3. \A i \in 1..Len(plan) : plan[i] \in T
      BY <2>2
    <2> QED BY <2>1, <2>3
  <1>4. plan \in Seq(Given)
    <2>1. PICK T : T = [sale : sales, to : agents]
      OBVIOUS
    <2>2. plan \in Seq(T) /\ T \subseteq Given
      BY <1>1, <1>2, <2>1
    <2> QED BY <2>2
  <1>5. \A g \in ToSet(plan) : g \in [sale : sales, to : agents]
    BY <1>1, <1>3 DEF ToSet
  <1> QED BY <1>1, <1>4, <1>5

\* The first batch and the rest of a plan are all of it.
LEMMA BatchAndRest ==
    ASSUME NEW plan \in Seq(Given)
    PROVE  /\ BatchOf(plan) \subseteq Sale /\ SalesOf(plan) \subseteq Sale
           /\ AfterBatch(plan) \in Seq(Given)
           /\ ToSet(AfterBatch(plan)) \subseteq ToSet(plan)
           /\ SalesOf(plan) \subseteq BatchOf(plan) \cup SalesOf(AfterBatch(plan))
           /\ AfterBatch(plan) = << >> => SalesOf(AfterBatch(plan)) = {}
  <1> DEFINE S == {g \in ToSet(plan) : g.to # Head(plan).to}
  <1>1. \A g \in ToSet(plan) : g \in Given
    BY DEF ToSet
  <1>2. PICK rest, at : rest = AfterBatch(plan) /\ rest \in Seq(Given)
                        /\ Picked(plan, S, Len(plan), rest, at)
    BY KeptInOrder DEF AfterBatch
  <1>3. ASSUME NEW g \in ToSet(rest) PROVE g \in ToSet(plan)
    <2>1. PICK i \in 1..Len(rest) : g = rest[i]
      BY <1>2 DEF ToSet
    <2>2. g \in S
      BY <1>2, <2>1 DEF Picked
    <2> QED BY <2>2
  <1>4. ASSUME NEW g \in S PROVE g \in ToSet(rest)
    <2>1. PICK k \in 1..Len(plan) : g = plan[k]
      BY DEF ToSet
    <2>2. PICK i \in 1..Len(rest) : at[i] = k
      BY <1>2, <2>1 DEF Picked
    <2>3. rest[i] = g
      BY <1>2, <2>1, <2>2 DEF Picked
    <2> QED BY <1>2, <2>3 DEF ToSet
  <1>5. ASSUME NEW s \in SalesOf(plan) PROVE s \in BatchOf(plan) \cup SalesOf(rest)
    <2>1. PICK g \in ToSet(plan) : s = g.sale
      BY DEF SalesOf
    <2> QED BY <1>4, <2>1 DEF SalesOf, BatchOf
  <1>6. \A s \in BatchOf(plan) \cup SalesOf(plan) : s \in Sale
    BY <1>1 DEF BatchOf, SalesOf, Given
  <1>7. rest = << >> => SalesOf(rest) = {}
    BY DEF SalesOf, ToSet
  <1> QED BY <1>2, <1>3, <1>5, <1>6, <1>7

LEMMA HandTypes ==
    ASSUME DealTypeOK, NEW S \in SUBSET Sale, NEW a, Hand(S, a),
           S = {} \/ a \in Existing \cup {Nobody}, UNCHANGED agent
    PROVE  /\ holder' \in [Sale -> Agent \cup {Nobody}]
           /\ \A s \in Sale : holder'[s] # Nobody => holder'[s] \in Existing'
  <1>1. Existing' = Existing
    BY DEF Existing
  <1>2. \A s \in Sale : holder'[s] = IF s \in S THEN a ELSE holder[s]
    BY DEF Hand
  <1>3. S # {} => a \in Agent \cup {Nobody}
    BY DealTypes
  <1>4. \A s \in Sale : (IF s \in S THEN a ELSE holder[s]) \in Agent \cup {Nobody}
    BY <1>3, DealTypes
  <1>5. holder' \in [Sale -> Agent \cup {Nobody}]
    BY <1>4 DEF Hand
  <1> QED BY <1>1, <1>2, <1>5, DealTypes

LEMMA ToldTypes ==
    ASSUME DealTypeOK, NEW c \in Call, NEW S \in SUBSET Sale, NEW a
    PROVE  Told(c, S, a) \in Removal
  <1>1. PICK r \in Removal : r = call[c]
    BY DealTypes
  <1>2. r.given \cup S \in SUBSET Sale
    BY RemovalFields
  <1>3. [r EXCEPT !.given = @ \cup S] \in Removal
    BY <1>2 DEF Removal
  <1> QED BY <1>1, <1>3 DEF Told

LEMMA WriteTypes ==
    ASSUME DealTypeOK, NEW S \in SUBSET Sale, NEW a, Write(S, a),
           S = {} \/ a \in Existing \cup {Nobody}, UNCHANGED agent
    PROVE  /\ holder' \in [Sale -> Agent \cup {Nobody}]
           /\ \A s \in Sale : holder'[s] # Nobody => holder'[s] \in Existing'
           /\ call' \in [Call -> Removal]
  BY HandTypes, ToldTypes DEF Write

LEMMA WriteAndTypes ==
    ASSUME DealTypeOK, NEW S \in SUBSET Sale, NEW a, NEW c \in Call, NEW next \in Removal,
           WriteAnd(c, S, a, next), S = {} \/ a \in Existing \cup {Nobody}, UNCHANGED agent
    PROVE  /\ holder' \in [Sale -> Agent \cup {Nobody}]
           /\ \A s \in Sale : holder'[s] # Nobody => holder'[s] \in Existing'
           /\ call' \in [Call -> Removal]
  <1>1. \A e \in Call : (IF e = c THEN next ELSE Told(e, S, a)) \in Removal
    BY ToldTypes
  <1> QED BY <1>1, HandTypes DEF WriteAnd

LEMMA PassFields ==
    ASSUME NEW p \in Pass
    PROVE  /\ p.pc \in {"off", "idle", "pending", "deal", "give"} /\ p.among \in SUBSET Agent
           /\ p.todo \in SUBSET Sale /\ p.plan \in Seq(Given)
  BY DEF Pass

\* The parts of DealTypeOK, after a step.
LEMMA DealTyped ==
    ASSUME agent' \in [Agent -> {"none", "active", "inactive", "gone"}],
           holder' \in [Sale -> Agent \cup {Nobody}], locked' \in BOOLEAN,
           pass' \in [Desk -> Pass], call' \in [Call -> Removal],
           dealLeft' \in [remove : Nat, staff : Nat, fault : Nat],
           \A s \in Sale : holder'[s] # Nobody => holder'[s] \in Existing'
    PROVE  DealTypeOK'
  BY DEF DealTypeOK

LEMMA SameHolders ==
    ASSUME DealTypeOK, UNCHANGED <<agent, holder>>
    PROVE  \A s \in Sale : holder'[s] # Nobody => holder'[s] \in Existing'
  BY DEF DealTypeOK, Existing

\* One pass of an instance is replaced by another.
LEMMA PassSet ==
    ASSUME DealTypeOK, NEW d \in Desk, NEW p \in Pass, pass' = [pass EXCEPT ![d] = p]
    PROVE  pass' \in [Desk -> Pass]
  BY DealTypes

LEMMA EndedTypes ==
    ASSUME DealTypeOK, NEW d \in Desk, EndedEarly(d)
    PROVE  pass' \in [Desk -> Pass]
  BY NothingInFlight, PassSet DEF EndedEarly

LEMMA AssignTypes ==
    ASSUME DealTypeOK, NEW d \in Desk, Assign(d)
    PROVE  DealTypeOK'
  <1>1. /\ holder' \in [Sale -> Agent \cup {Nobody}] /\ call' \in [Call -> Removal]
        /\ \A s \in Sale : holder'[s] # Nobody => holder'[s] \in Existing'
    BY WriteTypes, DealTypes DEF Assign
  <1>2. pass' \in [Desk -> Pass]
    <2>1. CASE UNCHANGED pass
      BY <2>1, DealTypes
    <2>2. CASE EndedEarly(d)
      BY <2>2, EndedTypes
    <2>3. CASE pass' = [pass EXCEPT ![d].pc = "pending", ![d].among = Active]
      <3>1. PICK p \in Pass : p = pass[d]
        BY DealTypes
      <3>2. [p EXCEPT !.pc = "pending", !.among = Active] \in Pass
        BY DealTypes DEF Pass
      <3>3. pass' = [pass EXCEPT ![d] = [p EXCEPT !.pc = "pending", !.among = Active]]
        BY <2>3, <3>1, DealTypes
      <3> QED BY <3>2, <3>3, PassSet
    <2> QED BY <2>1, <2>2, <2>3 DEF Assign
  <1> QED BY <1>1, <1>2, DealTyped DEF Assign, DealTypeOK

LEMMA PassTypes ==
    ASSUME DealAssumption, DealTypeOK, NEW d \in Desk, PassStep(d)
    PROVE  DealTypeOK'
  <1>1. PICK p \in Pass : p = pass[d]
    BY DealTypes
  <1>2. CASE ReadPending(d)
    <2>1. pass' \in [Desk -> Pass]
      <3>1. CASE EndedEarly(d)
        BY <3>1, EndedTypes
      <3>2. CASE pass' = [pass EXCEPT ![d].pc = "deal", ![d].todo = Pending]
        <4>1. [p EXCEPT !.pc = "deal", !.todo = Pending] \in Pass
          BY DealTypes DEF Pass
        <4>2. pass' = [pass EXCEPT ![d] = [p EXCEPT !.pc = "deal", !.todo = Pending]]
          BY <3>2, <1>1, DealTypes
        <4> QED BY <4>1, <4>2, PassSet
      <3> QED BY <1>2, <3>1, <3>2 DEF ReadPending
    <2> QED BY <1>2, <2>1, SameHolders, DealTyped DEF ReadPending, DealTypeOK
  <1>3. CASE PassDeals(d)
    <2>1. PICK plan \in Deals(p.todo, p.among) :
               pass' = [pass EXCEPT ![d] = [NoPass EXCEPT !.pc = "give", !.plan = plan]]
      BY <1>1, <1>3 DEF PassDeals
    <2>2. plan \in Seq(Given)
      <3>1. p.todo \in SUBSET Sale /\ p.among \in SUBSET Agent
        BY PassFields
      <3> QED BY <2>1, <3>1, PlanTypes
    <2>3. [NoPass EXCEPT !.pc = "give", !.plan = plan] \in Pass
      BY <2>2, NothingInFlight DEF Pass
    <2>4. pass' \in [Desk -> Pass]
      BY <2>1, <2>3, PassSet
    <2> QED BY <1>3, <2>4, SameHolders, DealTyped DEF PassDeals, DealTypeOK
  <1>4. CASE PassGives(d)
    <2> DEFINE plan == p.plan
               to == Head(plan).to
               free == {s \in BatchOf(plan) : holder[s] = Nobody}
               rest == AfterBatch(plan)
    <2>1. plan \in Seq(Given) /\ rest \in Seq(Given) /\ free \in SUBSET Sale
      BY PassFields, BatchAndRest
    <2>2. /\ IF free # {} /\ to \notin Existing
             THEN EndedEarly(d) /\ UNCHANGED <<holder, call>>
             ELSE /\ Write(free, to)
                  /\ pass' = [pass EXCEPT ![d] = IF rest = << >> THEN NoPass
                                                 ELSE [@ EXCEPT !.plan = rest]]
          /\ UNCHANGED <<agent, locked, dealLeft>>
      BY <1>1, <1>4 DEF PassGives
    <2> HIDE DEF plan, to, free, rest
    <2>3. CASE free # {} /\ to \notin Existing
      <3>1. EndedEarly(d) /\ UNCHANGED <<agent, holder, call, locked, dealLeft>>
        BY <2>2, <2>3
      <3> QED BY <3>1, EndedTypes, SameHolders, DealTyped DEF DealTypeOK
    <2>4. CASE ~(free # {} /\ to \notin Existing)
      <3>1. /\ Write(free, to) /\ UNCHANGED <<agent, locked, dealLeft>>
            /\ pass' = [pass EXCEPT ![d] = IF rest = << >> THEN NoPass
                                           ELSE [@ EXCEPT !.plan = rest]]
        BY <2>2, <2>4
      <3>2. [p EXCEPT !.plan = rest] \in Pass
        BY <2>1 DEF Pass
      <3>3. PICK q \in Pass : q = IF rest = << >> THEN NoPass ELSE [p EXCEPT !.plan = rest]
        BY <3>2, NothingInFlight
      <3>4. pass' = [pass EXCEPT ![d] = q]
        BY <1>1, <3>1, <3>3, DealTypes
      <3>5. pass' \in [Desk -> Pass]
        BY <3>4, PassSet
      <3>6. /\ holder' \in [Sale -> Agent \cup {Nobody}] /\ call' \in [Call -> Removal]
            /\ \A s \in Sale : holder'[s] # Nobody => holder'[s] \in Existing'
        BY <2>1, <2>4, <3>1, WriteTypes
      <3> QED BY <3>1, <3>5, <3>6, DealTyped DEF DealTypeOK
    <2> QED BY <2>3, <2>4
  <1> QED BY <1>2, <1>3, <1>4 DEF PassStep

\* A removal goes on, and nothing else happens.
LEMMA SetTypes ==
    ASSUME DealTypeOK, NEW c \in Call, NEW r \in Removal, Set(c, r)
    PROVE  call' \in [Call -> Removal]
  BY DealTypes DEF Set

\* StartRemoval, as the removal that takes its first turn.
LEMMA StartIs ==
    ASSUME DealTypeOK, NEW c \in Call, StartRemoval(c)
    PROVE  \E r \in Removal :
              /\ r.all = r.rest /\ r.watch = {} /\ r.now = {}
              /\ \A a \in r.rest : agent[a] # "none"
              /\ ~r.bulk => \E a : r.rest = {a}
              /\ \E next \in Turn(r) : Set(c, next)
  <1> DEFINE Begun(bulk, how, ids, to) ==
          [NoRemoval EXCEPT !.bulk = bulk, !.how = how, !.to = to, !.all = ids, !.rest = ids]
  <1>1. PICK bulk \in BOOLEAN, how \in {"transfer", "random", "release"},
             ids \in (SUBSET {a \in Agent : agent[a] # "none"}) \ {{}}, to \in Agent \cup {Nobody} :
             /\ how = "transfer" <=> to # Nobody
             /\ to \in Existing \cup {Nobody}
             /\ IF bulk THEN to \notin ids ELSE \E a \in Existing : ids = {a}
             /\ \E r \in Turn(Begun(bulk, how, ids, to)) : Set(c, r)
    BY Zenon DEF StartRemoval
  <1>2. PICK r : r = Begun(bulk, how, ids, to)
    OBVIOUS
  <1>3. ids \in SUBSET Agent /\ \A a \in ids : agent[a] # "none"
    OBVIOUS
  <1>4. /\ r \in Removal /\ r.bulk = bulk /\ r.all = ids /\ r.rest = ids
        /\ r.watch = {} /\ r.now = {}
    BY <1>2, <1>3, NothingInFlight DEF Removal, NoRemoval
  <1> HIDE DEF Begun
  <1>5. \E next \in Turn(r) : Set(c, next)
    BY <1>1, <1>2
  <1> QED BY <1>1, <1>3, <1>4, <1>5

LEMMA StartTypes ==
    ASSUME DealTypeOK, NEW c \in Call, StartRemoval(c)
    PROVE  DealTypeOK'
  <1>1. call' \in [Call -> Removal]
    <2>1. PICK r \in Removal : \E next \in Turn(r) : Set(c, next)
      BY StartIs
    <2> QED BY <2>1, TurnFields, SetTypes
  <1>2. dealLeft' \in [remove : Nat, staff : Nat, fault : Nat]
    BY SpendTypes DEF StartRemoval
  <1> QED BY <1>1, <1>2, SameHolders, DealTyped DEF StartRemoval, DealTypeOK

\* The removal once it has read the sales of the agent at hand.
Seen(r, mine) ==
    [r EXCEPT !.watch = @ \cup (r.now \ (r.back \cup {r.to})),
              !.todo = mine,
              !.pc = IF r.how = "transfer" THEN "transfer" ELSE "others"]

LEMMA SeenFields ==
    ASSUME NEW r \in Removal, NEW mine \in SUBSET Sale
    PROVE  /\ Seen(r, mine) \in Removal
           /\ Seen(r, mine).watch = r.watch \cup (r.now \ (r.back \cup {r.to}))
           /\ Seen(r, mine).todo = mine
           /\ Seen(r, mine).pc = (IF r.how = "transfer" THEN "transfer" ELSE "others")
           /\ Seen(r, mine).bulk = r.bulk /\ Seen(r, mine).how = r.how /\ Seen(r, mine).to = r.to
           /\ Seen(r, mine).all = r.all /\ Seen(r, mine).rest = r.rest /\ Seen(r, mine).now = r.now
           /\ Seen(r, mine).back = r.back /\ Seen(r, mine).given = r.given
  <1>1. r.watch \cup (r.now \ (r.back \cup {r.to})) \in SUBSET Agent
    BY RemovalFields
  <1>2. Seen(r, mine) \in Removal
    BY <1>1 DEF Removal, Seen
  <1> QED BY <1>2 DEF Removal, Seen

\* ReadSales, as the successor of a removal.
LEMMA ReadSalesIs ==
    ASSUME DealTypeOK, NEW c \in Call, NEW r \in Removal, r = call[c], ReadSales(c)
    PROVE  LET mine == {s \in Future : holder[s] \in r.now}
           IN  /\ r.pc = "read" /\ mine \in SUBSET Sale
               /\ \E next \in Removal :
                     /\ Set(c, next)
                     /\ IF mine = {} THEN next \in Turn(Seen(r, mine)) ELSE next = Seen(r, mine)
  <1> DEFINE mine == {s \in Future : holder[s] \in r.now}
             seen == Seen(r, mine)
  <1>1. mine \in SUBSET Sale
    BY DealTypes
  <1>2. /\ r.pc = "read"
        /\ \E next \in IF mine = {} THEN Turn(seen) ELSE {seen} : Set(c, next)
    BY Zenon DEF ReadSales, Seen
  <1>3. seen \in Removal
    BY <1>1, SeenFields
  <1> HIDE DEF mine, seen
  <1>4. PICK next \in IF mine = {} THEN Turn(seen) ELSE {seen} : Set(c, next)
    BY <1>2
  <1>5. next \in Removal
    BY <1>3, <1>4, TurnFields
  <1>6. \E n \in Removal : Set(c, n) /\ IF mine = {} THEN n \in Turn(seen) ELSE n = seen
    BY <1>4, <1>5
  <1> QED BY <1>1, <1>2, <1>6 DEF mine, seen

\* The steps of a removal, as its successor: next is what becomes of r.
LEMMA OthersIs ==
    ASSUME DealTypeOK, NEW c \in Call, NEW r \in Removal, r = call[c], ReadOthers(c)
    PROVE  /\ r.pc = "others"
           /\ \E next \in Removal :
                 /\ Set(c, next)
                 /\ next.pc = (IF Active \ r.now = {} THEN "transfer" ELSE "deal")
                 /\ next.among = Active \ r.now
                 /\ next.bulk = r.bulk /\ next.how = r.how /\ next.to = r.to /\ next.all = r.all
                 /\ next.rest = r.rest /\ next.now = r.now /\ next.todo = r.todo
                 /\ next.watch = r.watch /\ next.back = r.back /\ next.given = r.given
  <1>1. PICK others \in SUBSET Agent : others = Active \ r.now
    BY DealTypes
  <1>0. PICK pc \in {"transfer", "deal"} : pc = IF others = {} THEN "transfer" ELSE "deal"
    OBVIOUS
  <1>2. PICK next : next = [r EXCEPT !.pc = pc, !.among = others]
    OBVIOUS
  <1>3. r.pc = "others" /\ Set(c, next)
    BY <1>0, <1>1, <1>2 DEF ReadOthers
  <1>4. /\ next \in Removal /\ next.pc = pc /\ next.among = others
        /\ next.bulk = r.bulk /\ next.how = r.how /\ next.to = r.to /\ next.all = r.all
        /\ next.rest = r.rest /\ next.now = r.now /\ next.todo = r.todo
        /\ next.watch = r.watch /\ next.back = r.back /\ next.given = r.given
    BY <1>2 DEF Removal
  <1> QED BY <1>0, <1>1, <1>3, <1>4

LEMMA RemovalDealsIs ==
    ASSUME DealAssumption, DealTypeOK, NEW c \in Call, NEW r \in Removal, r = call[c],
           RemovalDeals(c)
    PROVE  /\ r.pc = "deal"
           /\ \E next \in Removal :
                 /\ Set(c, next) /\ next.pc = "give"
                 /\ SalesOf(next.plan) = r.todo
                 /\ \A g \in ToSet(next.plan) : g.to \in r.among
                 /\ next.bulk = r.bulk /\ next.how = r.how /\ next.to = r.to /\ next.all = r.all
                 /\ next.rest = r.rest /\ next.now = r.now
                 /\ next.watch = r.watch /\ next.back = r.back /\ next.given = r.given
  <1>1. PICK plan \in Deals(r.todo, r.among) :
             Set(c, [r EXCEPT !.pc = "give", !.plan = plan, !.todo = {}, !.among = {}])
    BY DEF RemovalDeals
  <1>2. /\ plan \in Seq(Given) /\ SalesOf(plan) = r.todo
        /\ \A g \in ToSet(plan) : g.to \in r.among
    BY RemovalFields, PlanTypes
  <1>3. PICK next : next = [r EXCEPT !.pc = "give", !.plan = plan, !.todo = {}, !.among = {}]
    OBVIOUS
  <1>4. {} \in SUBSET Sale /\ {} \in SUBSET Agent
    OBVIOUS
  <1>5. /\ next \in Removal /\ next.pc = "give" /\ next.plan = plan
        /\ next.bulk = r.bulk /\ next.how = r.how /\ next.to = r.to /\ next.all = r.all
        /\ next.rest = r.rest /\ next.now = r.now
        /\ next.watch = r.watch /\ next.back = r.back /\ next.given = r.given
    BY <1>2, <1>3, <1>4 DEF Removal
  <1>6. r.pc = "deal"
    BY DEF RemovalDeals
  <1> QED BY <1>1, <1>2, <1>3, <1>5, <1>6

LEMMA TransferIs ==
    ASSUME DealTypeOK, NEW c \in Call, NEW r \in Removal, r = call[c], Transfer(c)
    PROVE  /\ r.pc = "transfer"
           /\ \/ Throws(c)
              \/ /\ r.to \in Existing \cup {Nobody}
                 /\ \E next \in Turn(r) : next \in Removal /\ WriteAnd(c, r.todo, r.to, next)
  <1>1. /\ r.pc = "transfer"
        /\ IF r.to \notin Existing \cup {Nobody} THEN Throws(c)
           ELSE \E next \in Turn(r) : WriteAnd(c, r.todo, r.to, next)
    BY DEF Transfer
  <1>2. \A next \in Turn(r) : next \in Removal
    BY TurnFields
  <1> QED BY <1>1, <1>2

LEMMA RemovalGivesIs ==
    ASSUME DealTypeOK, NEW c \in Call, NEW r \in Removal, r = call[c], RemovalGives(c)
    PROVE  LET to   == Head(r.plan).to
               rest == AfterBatch(r.plan)
           IN  /\ r.pc = "give" /\ rest \in Seq(Given)
               /\ \/ Throws(c)
                  \/ /\ to \in Existing
                     /\ \E next \in Removal :
                           /\ WriteAnd(c, BatchOf(r.plan), to, next)
                           /\ IF rest = << >> THEN next \in Turn(r) ELSE next = [r EXCEPT !.plan = rest]
  <1> DEFINE to   == Head(r.plan).to
             rest == AfterBatch(r.plan)
             batch == BatchOf(r.plan)
  <1>1. /\ r.pc = "give"
        /\ IF to \notin Existing THEN Throws(c)
           ELSE \E next \in IF rest = << >> THEN Turn(r) ELSE {[r EXCEPT !.plan = rest]} :
                   WriteAnd(c, batch, to, next)
    BY DEF RemovalGives
  <1>2. rest \in Seq(Given)
    BY RemovalFields, BatchAndRest
  <1> HIDE DEF to, rest, batch
  <1>3. [r EXCEPT !.plan = rest] \in Removal
    BY <1>2 DEF Removal
  <1>4. ASSUME NEW next \in IF rest = << >> THEN Turn(r) ELSE {[r EXCEPT !.plan = rest]},
               WriteAnd(c, batch, to, next)
        PROVE  /\ next \in Removal
               /\ IF rest = << >> THEN next \in Turn(r) ELSE next = [r EXCEPT !.plan = rest]
    BY <1>3, TurnFields
  <1>5. \/ Throws(c)
        \/ /\ to \in Existing
           /\ \E next \in Removal :
                 /\ WriteAnd(c, batch, to, next)
                 /\ IF rest = << >> THEN next \in Turn(r) ELSE next = [r EXCEPT !.plan = rest]
    BY <1>1, <1>4
  <1> QED BY <1>1, <1>2, <1>5 DEF to, rest, batch

LEMMA ThrowTypes ==
    ASSUME DealTypeOK, NEW c \in Call, Throws(c), UNCHANGED <<agent, locked, pass, dealLeft>>
    PROVE  DealTypeOK'
  <1>1. call' \in [Call -> Removal]
    BY NothingInFlight, SetTypes DEF Throws
  <1>2. UNCHANGED holder
    BY DEF Throws
  <1> QED BY <1>1, <1>2, SameHolders, DealTyped DEF DealTypeOK

LEMMA RemovalTypes ==
    ASSUME DealAssumption, DealTypeOK, NEW c \in Call, RemovalStep(c)
    PROVE  DealTypeOK'
  <1>1. PICK r \in Removal : r = call[c]
    BY DealTypes
  <1> DEFINE Goes == /\ \E next \in Removal : Set(c, next)
                     /\ UNCHANGED <<agent, holder, locked, pass, dealLeft>>
  <1>2. ASSUME Goes PROVE DealTypeOK'
    BY <1>2, SetTypes, SameHolders, DealTyped DEF DealTypeOK
  <1>3. CASE SetInactive(c)
    <2>1. [r EXCEPT !.pc = "read"] \in Removal
      BY DEF Removal
    <2>2. call' \in [Call -> Removal]
      BY <1>1, <1>3, <2>1, SetTypes DEF SetInactive
    <2>3. \A a \in Agent : agent'[a] = IF a \in r.now /\ agent[a] = "active"
                                       THEN "inactive" ELSE agent[a]
      BY <1>1, <1>3 DEF SetInactive
    <2>4. agent' \in [Agent -> {"none", "active", "inactive", "gone"}] /\ Existing' = Existing
      <3>1. agent' \in [Agent -> {"none", "active", "inactive", "gone"}]
        BY <1>3, DealTypes DEF SetInactive
      <3> QED BY <2>3, <3>1 DEF Existing
    <2>5. UNCHANGED <<holder, locked, pass, dealLeft>>
      BY <1>3 DEF SetInactive
    <2> QED BY <2>2, <2>4, <2>5, DealTyped DEF DealTypeOK
  <1>4. CASE ReadSales(c)
    <2>1. Goes
      BY <1>1, <1>4, ReadSalesIs DEF ReadSales
    <2> QED BY <1>2, <2>1
  <1>5. CASE Transfer(c)
    <2>1. UNCHANGED <<agent, locked, pass, dealLeft>>
      BY <1>5 DEF Transfer
    <2>2. CASE Throws(c)
      BY <2>1, <2>2, ThrowTypes
    <2>3. CASE /\ r.to \in Existing \cup {Nobody}
               /\ \E next \in Turn(r) : next \in Removal /\ WriteAnd(c, r.todo, r.to, next)
      <3>1. r.todo \in SUBSET Sale
        BY RemovalFields
      <3> QED BY <2>1, <2>3, <3>1, WriteAndTypes, DealTyped DEF DealTypeOK
    <2> QED BY <1>1, <1>5, <2>2, <2>3, TransferIs
  <1>6. CASE ReadOthers(c)
    <2>1. Goes
      BY <1>1, <1>6, OthersIs DEF ReadOthers
    <2> QED BY <1>2, <2>1
  <1>7. CASE RemovalDeals(c)
    <2>1. Goes
      BY <1>1, <1>7, RemovalDealsIs DEF RemovalDeals
    <2> QED BY <1>2, <2>1
  <1>8. CASE RemovalGives(c)
    <2>1. UNCHANGED <<agent, locked, pass, dealLeft>>
      BY <1>8 DEF RemovalGives
    <2>2. CASE Throws(c)
      BY <2>1, <2>2, ThrowTypes
    <2>3. CASE /\ Head(r.plan).to \in Existing
               /\ \E next \in Removal : WriteAnd(c, BatchOf(r.plan), Head(r.plan).to, next)
      <3>1. BatchOf(r.plan) \in SUBSET Sale
        BY RemovalFields, BatchAndRest
      <3> QED BY <2>1, <2>3, <3>1, WriteAndTypes, DealTyped DEF DealTypeOK
    <2> QED BY <1>1, <1>8, <2>2, <2>3, RemovalGivesIs
  <1>9. CASE DeleteAgents(c)
    <2>1. call' \in [Call -> Removal]
      BY <1>9, NothingInFlight, SetTypes DEF DeleteAgents
    <2>2. /\ agent' = [a \in Agent |-> IF a \in r.all THEN "gone" ELSE agent[a]]
          /\ holder' = [s \in Sale |-> IF holder[s] \in r.all THEN Nobody ELSE holder[s]]
          /\ UNCHANGED <<locked, pass, dealLeft>>
      BY <1>1, <1>9 DEF DeleteAgents, Freed
    <2>3. agent' \in [Agent -> {"none", "active", "inactive", "gone"}]
      BY <2>2, DealTypes
    <2>4. holder' \in [Sale -> Agent \cup {Nobody}]
      BY <2>2, DealTypes
    <2>5. ASSUME NEW s \in Sale, holder'[s] # Nobody PROVE holder'[s] \in Existing'
      <3>1. holder'[s] = holder[s] /\ holder[s] \notin r.all /\ holder[s] \in Existing
        BY <2>2, <2>5, DealTypes
      <3>2. holder[s] \in Agent /\ agent'[holder[s]] = agent[holder[s]]
        BY <2>2, <3>1, DealTypes
      <3> QED BY <3>1, <3>2 DEF Existing
    <2> QED BY <2>1, <2>2, <2>3, <2>4, <2>5, DealTyped DEF DealTypeOK
  <1> QED BY <1>3, <1>4, <1>5, <1>6, <1>7, <1>8, <1>9 DEF RemovalStep

\* What the other operations of staff and the environment leave of a removal.
LEMMA SwitchedCalls ==
    ASSUME DealTypeOK, NEW a \in Agent,
           call' = [c \in Call |-> [call[c] EXCEPT
                       !.watch = @ \ {a}, !.back = IF call[c].pc = "idle" THEN @ ELSE @ \cup {a}]]
    PROVE  /\ call' \in [Call -> Removal]
           /\ \A c \in Call : \A r \in Removal : r = call[c] =>
                 call'[c] = [r EXCEPT !.watch = r.watch \ {a},
                                      !.back = IF r.pc = "idle" THEN r.back ELSE r.back \cup {a}]
  <1>1. ASSUME NEW c \in Call, NEW r \in Removal, r = call[c]
        PROVE  /\ call'[c] = [r EXCEPT !.watch = r.watch \ {a},
                                       !.back = IF r.pc = "idle" THEN r.back ELSE r.back \cup {a}]
               /\ call'[c] \in Removal
    <2>1. call'[c] = [r EXCEPT !.watch = @ \ {a}, !.back = IF r.pc = "idle" THEN @ ELSE @ \cup {a}]
      BY <1>1
    <2>2. call'[c] = [r EXCEPT !.watch = r.watch \ {a},
                               !.back = IF r.pc = "idle" THEN r.back ELSE r.back \cup {a}]
      BY <2>1 DEF Removal
    <2>3. /\ r.watch \ {a} \in SUBSET Agent
          /\ (IF r.pc = "idle" THEN r.back ELSE r.back \cup {a}) \in SUBSET Agent
      BY RemovalFields
    <2>4. call'[c] \in Removal
      <3>1. PICK w \in SUBSET Agent, b \in SUBSET Agent :
                 w = r.watch \ {a} /\ b = IF r.pc = "idle" THEN r.back ELSE r.back \cup {a}
        BY <2>3
      <3>2. call'[c] = [r EXCEPT !.watch = w, !.back = b]
        BY <2>2, <3>1
      <3>3. [r EXCEPT !.watch = w, !.back = b] \in Removal
        BY DEF Removal
      <3> QED BY <3>2, <3>3
    <2> QED BY <2>2, <2>4
  <1>2. \A c \in Call : call[c] \in Removal
    BY DealTypes
  <1>3. ASSUME NEW c \in Call PROVE call'[c] \in Removal
    BY <1>1, <1>2
  <1>4. DOMAIN call' = Call /\ call' = [c \in Call |-> call'[c]]
    OBVIOUS
  <1> QED BY <1>1, <1>3, <1>4

LEMMA OtherTypes ==
    ASSUME DealTypeOK, Create \/ Switch \/ Reassign \/ HourStrikes \/ Restart
    PROVE  DealTypeOK'
  <1>1. dealLeft' \in [remove : Nat, staff : Nat, fault : Nat]
    BY SpendTypes DEF Create, Switch, Reassign, HourStrikes, Restart
  <1>2. CASE Create
    <2>1. PICK a \in Agent : agent[a] = "none" /\ agent' = [agent EXCEPT ![a] = "active"]
      BY <1>2 DEF Create
    <2>2. agent' \in [Agent -> {"none", "active", "inactive", "gone"}]
      BY <2>1, DealTypes
    <2>3. \A b \in Existing : b \in Existing'
      BY <2>1, DealTypes DEF Existing
    <2>4. UNCHANGED <<holder, locked, pass, call>>
      BY <1>2 DEF Create
    <2> QED BY <1>1, <2>2, <2>3, <2>4, DealTyped DEF DealTypeOK
  <1>3. CASE Switch
    <2>1. PICK a \in Agent :
             \/ /\ agent[a] = "active"
                /\ agent' = [agent EXCEPT ![a] = "inactive"] /\ UNCHANGED call
             \/ /\ agent[a] = "inactive"
                /\ agent' = [agent EXCEPT ![a] = "active"]
                /\ call' = [c \in Call |-> [call[c] EXCEPT
                               !.watch = @ \ {a},
                               !.back = IF call[c].pc = "idle" THEN @ ELSE @ \cup {a}]]
      BY <1>3 DEF Switch
    <2>2. agent' \in [Agent -> {"none", "active", "inactive", "gone"}] /\ Existing' = Existing
      <3>1. /\ agent[a] \in {"active", "inactive"}
            /\ \/ agent' = [agent EXCEPT ![a] = "inactive"]
               \/ agent' = [agent EXCEPT ![a] = "active"]
        BY <2>1
      <3>2. agent' \in [Agent -> {"none", "active", "inactive", "gone"}]
        BY <3>1, DealTypes
      <3>3. \A b \in Agent : agent'[b] \in {"active", "inactive"} <=> agent[b] \in {"active", "inactive"}
        BY <3>1, DealTypes
      <3> QED BY <3>2, <3>3 DEF Existing
    <2>3. call' \in [Call -> Removal]
      BY <2>1, SwitchedCalls, DealTypes
    <2>4. UNCHANGED <<holder, locked, pass>>
      BY <1>3 DEF Switch
    <2> QED BY <1>1, <2>2, <2>3, <2>4, DealTyped DEF DealTypeOK
  <1>4. CASE Reassign
    <2>1. PICK s \in Sale, a \in Existing : Write({s}, a)
      BY <1>4 DEF Reassign
    <2>2. {s} \in SUBSET Sale /\ UNCHANGED <<agent, locked, pass>>
      BY <1>4 DEF Reassign
    <2> QED BY <1>1, <2>1, <2>2, WriteTypes, DealTyped DEF DealTypeOK
  <1>5. CASE HourStrikes
    BY <1>1, <1>5, SameHolders, DealTyped DEF HourStrikes, DealTypeOK
  <1>6. CASE Restart
    <2>1. pass' \in [Desk -> Pass] /\ call' \in [Call -> Removal]
      BY <1>6, NothingInFlight, DealTypes DEF Restart
    <2> QED BY <1>1, <1>6, <2>1, SameHolders, DealTyped DEF Restart, DealTypeOK
  <1> QED BY <1>2, <1>3, <1>4, <1>5, <1>6

LEMMA DealStepTypes ==
    ASSUME DealAssumption, DealTypeOK, [DealStep]_dealVars
    PROVE  DealTypeOK'
  <1>1. CASE DealStep
    BY <1>1, AssignTypes, PassTypes, StartTypes, RemovalTypes, OtherTypes DEF DealStep
  <1>2. CASE UNCHANGED dealVars
    BY <1>2 DEF dealVars, DealTypeOK, Existing
  <1> QED BY <1>1, <1>2

-----------------------------------------------------------------------------
(* What removals must not leave behind                                      *)

\* The coming sales of each agent.
Owned == [a \in Agent |-> {s \in Future : holder[s] = a}]

\* What a removal has read, or dealt, and not yet written.
InFlight(r) == IF r.pc \in {"transfer", "others", "deal"} THEN r.todo
               ELSE IF r.pc = "give" THEN SalesOf(r.plan)
               ELSE {}

\* The coming sales of an agent whose list was read are in flight, or somebody else
\* has given them since.
NoneLeft(r, own) ==
    \A a \in r.watch :
        own[a] \subseteq r.given \cup (IF a \in r.now THEN InFlight(r) ELSE {})

\* Nothing is dealt to an agent whose list was read.
Targets(r) ==
    /\ r.pc = "deal" => r.among \cap r.watch = {}
    /\ r.pc = "give" => \A g \in ToSet(r.plan) : g.to \notin r.watch

Touched(r) == r.all \cup r.rest \cup r.now \cup r.watch

Shape(r, state) ==
    /\ r.pc = "idle" => r = NoRemoval
    /\ r.pc \notin {"idle", "delete"} => r.how # "release"
    /\ r.pc \in {"off", "others", "deal", "give"} => r.how = "random"
    /\ r.to \notin r.watch
    /\ \A a \in Touched(r) : state[a] # "none"

\* An agent whose list was read is not among those dealt to: bulkRemove has set it
\* inactive, remove leaves out the only one it has.
Resting(r, state) ==
    r.how = "random" /\ r.pc # "delete" =>
       IF r.bulk THEN /\ \A a \in r.watch : state[a] # "active"
                      /\ r.pc = "read" => \A a \in r.now \ r.back : state[a] # "active"
       ELSE r.rest = {} /\ r.watch \subseteq r.now

Safe(r, own, state) ==
    NoneLeft(r, own) /\ Targets(r) /\ Shape(r, state) /\ Resting(r, state)

RemovalsSafe == \A c \in Call : Safe(call[c], Owned, agent)

ClockOK == phase \in [Sale -> Phases] /\ daysLeft \in Nat

DealInv == ClockOK /\ DealTypeOK /\ RemovalsSafe

LEMMA NoRemovalSafe ==
    \A own, state : Safe(NoRemoval, own, state)
  BY DEF Safe, NoRemoval, NoneLeft, Targets, Shape, Resting, Touched

\* Told of sales, or with fewer of them to lose, a removal stays safe.
LEMMA SafeStays ==
    ASSUME NEW r \in Removal, NEW next \in Removal, NEW S,
           next = r \/ (next = [r EXCEPT !.given = r.given \cup S] /\ r.watch # {}),
           NEW own, NEW state, Safe(r, own, state), NEW own2, NEW state2,
           \A a \in r.watch : own2[a] \subseteq own[a] \cup next.given,
           \A a \in Touched(r) : state2[a] # "none" /\ (state2[a] = "active" => state[a] = "active")
    PROVE  Safe(next, own2, state2)
  <1>1. /\ next.pc = r.pc /\ next.bulk = r.bulk /\ next.how = r.how /\ next.to = r.to
        /\ next.all = r.all /\ next.rest = r.rest /\ next.now = r.now
        /\ next.among = r.among /\ next.todo = r.todo /\ next.plan = r.plan
        /\ next.watch = r.watch /\ next.back = r.back /\ r.given \subseteq next.given
    BY DEF Removal
  <1>2. NoneLeft(next, own2)
    <2>1. InFlight(next) = InFlight(r)
      BY <1>1 DEF InFlight
    <2> SUFFICES ASSUME NEW a \in r.watch
                 PROVE  own2[a] \subseteq next.given \cup (IF a \in r.now THEN InFlight(r) ELSE {})
      BY <1>1, <2>1 DEF NoneLeft
    <2>2. own[a] \subseteq r.given \cup (IF a \in r.now THEN InFlight(r) ELSE {})
      BY DEF Safe, NoneLeft
    <2> QED BY <1>1, <2>2
  <1>3. Targets(next)
    BY <1>1 DEF Safe, Targets
  <1>4. Touched(next) = Touched(r)
    BY <1>1 DEF Touched
  <1>5. Shape(next, state2)
    <2>1. next.pc = "idle" => next = NoRemoval
      <3>1. r.pc = "idle" => r = NoRemoval /\ r.watch = {}
        BY DEF Safe, Shape, NoRemoval
      <3> QED BY <1>1, <3>1
    <2> QED BY <1>1, <1>4, <2>1 DEF Safe, Shape
  <1>6. Resting(next, state2)
    <2>1. r.watch \subseteq Touched(r) /\ r.now \subseteq Touched(r)
      BY DEF Touched
    <2> QED BY <1>1, <2>1 DEF Safe, Resting
  <1> QED BY <1>2, <1>3, <1>5, <1>6 DEF Safe

\* With nothing left of the agent at hand, a removal is safe on its next turn.
LEMMA TurnSafe ==
    ASSUME NEW r \in Removal, NEW next \in Turn(r), NEW own, NEW state,
           \A a \in r.watch : own[a] \subseteq r.given,
           r.to \notin r.watch, \A a \in Touched(r) : state[a] # "none",
           r.how = "random" =>
              IF r.bulk THEN \A a \in r.watch : state[a] # "active"
              ELSE r.rest = {} \/ (r.watch = {} /\ \E a : r.rest = {a})
    PROVE  Safe(next, own, state)
  <1>1. /\ next.bulk = r.bulk /\ next.how = r.how /\ next.to = r.to /\ next.all = r.all
        /\ next.watch = r.watch /\ next.back = r.back /\ next.given = r.given
        /\ next.todo = {} /\ next.among = {} /\ next.plan = << >>
        /\ \/ next.pc = "delete" /\ next.now = {} /\ next.rest = r.rest
              /\ (r.how = "release" \/ r.rest = {})
           \/ /\ next.pc = First(r) /\ r.how # "release"
              /\ \E a \in r.rest : next.now = {a} /\ next.rest = r.rest \ {a}
    BY TurnFields
  <1>2. First(r) = (IF r.bulk /\ r.how = "random" THEN "off" ELSE "read")
    BY DEF First
  <1>3. next.pc \in {"delete", "off", "read"}
    BY <1>1, <1>2
  <1>4. InFlight(next) = {}
    BY <1>3 DEF InFlight
  <1>5. NoneLeft(next, own)
    BY <1>1, <1>4 DEF NoneLeft
  <1>6. Targets(next)
    BY <1>3 DEF Targets
  <1>7. Touched(next) \subseteq Touched(r)
    BY <1>1 DEF Touched
  <1>8. Shape(next, state)
    BY <1>1, <1>2, <1>3, <1>7 DEF Shape
  <1>9. Resting(next, state)
    BY <1>1, <1>2 DEF Resting
  <1> QED BY <1>5, <1>6, <1>8, <1>9 DEF Safe

\* The parts of DealInv that a step of the deal needs.
LEMMA SafeCalls ==
    ASSUME DealInv
    PROVE  /\ DealTypeOK /\ phase \in [Sale -> Phases] /\ daysLeft \in Nat
           /\ \A c \in Call : call[c] \in Removal /\ Safe(call[c], Owned, agent)
  BY DealTypes DEF DealInv, ClockOK, RemovalsSafe

\* A write of sales S to a: what anybody has afterwards.
LEMMA OwnedAfter ==
    ASSUME NEW S, NEW a, Hand(S, a), UNCHANGED phase, NEW b \in Agent
    PROVE  /\ b # a => Owned'[b] = Owned[b] \ S
           /\ Owned'[b] \subseteq Owned[b] \cup S
  <1>1. Future' = Future /\ \A s \in Future : s \in Sale
    BY DEF Future
  <1>2. \A s \in Future : holder'[s] = IF s \in S THEN a ELSE holder[s]
    BY <1>1 DEF Hand
  <1>3. /\ Owned[b] = {s \in Future : holder[s] = b}
        /\ Owned'[b] = {s \in Future : holder'[s] = b}
    BY <1>1 DEF Owned
  <1> QED BY <1>2, <1>3

\* Nothing of an agent's sales is changed.
LEMMA SameOwned ==
    ASSUME UNCHANGED <<phase, holder>>
    PROVE  Owned' = Owned
  BY DEF Owned, Future

\* A call that others write under stays safe: it is told.
LEMMA ToldSafe ==
    ASSUME DealInv, UNCHANGED phase, NEW S, NEW a, Hand(S, a), NEW e \in Call,
           call'[e] = Told(e, S, a), DealTypeOK',
           \A b \in Touched(call[e]) :
              agent'[b] # "none" /\ (agent'[b] = "active" => agent[b] = "active")
    PROVE  Safe(call'[e], Owned', agent')
  <1>1. PICK r \in Removal : r = call[e] /\ Safe(r, Owned, agent)
    BY SafeCalls
  <1>2. PICK next \in Removal : next = call'[e]
    <2>1. call' \in [Call -> Removal]
      BY DEF DealTypeOK
    <2> QED BY <2>1
  <1>3. IF a \in r.watch THEN next = [r EXCEPT !.given = r.given \cup S] ELSE next = r
    <2>1. next = IF a \in r.watch THEN [r EXCEPT !.given = @ \cup S] ELSE r
      BY <1>1, <1>2 DEF Told
    <2> QED BY <2>1 DEF Removal
  <1>4. ASSUME NEW b \in r.watch PROVE Owned'[b] \subseteq Owned[b] \cup next.given
    <2>1. b \in Agent
      BY RemovalFields
    <2>2. CASE b # a
      BY <2>1, <2>2, OwnedAfter
    <2>3. CASE b = a
      <3>1. next.given = r.given \cup S
        BY <1>3, <2>3 DEF Removal
      <3> QED BY <2>1, <3>1, OwnedAfter
    <2> QED BY <2>2, <2>3
  <1>5. next = r \/ (next = [r EXCEPT !.given = r.given \cup S] /\ r.watch # {})
    BY <1>3
  <1>6. \A b \in Touched(r) :
              agent'[b] # "none" /\ (agent'[b] = "active" => agent[b] = "active")
    BY <1>1
  <1> HIDE <1>3
  <1>7. PICK w, v, x, y : w = Owned /\ v = Owned' /\ x = agent /\ y = agent'
    OBVIOUS
  <1>8. /\ Safe(r, w, x) /\ \A b \in r.watch : v[b] \subseteq w[b] \cup next.given
        /\ \A b \in Touched(r) : y[b] # "none" /\ (y[b] = "active" => x[b] = "active")
    BY <1>1, <1>4, <1>6, <1>7
  <1>9. Safe(next, v, y)
    BY <1>5, <1>8, SafeStays
  <1> QED BY <1>2, <1>7, <1>9

\* A call that a step does not concern stays safe.
LEMMA KeptSafe ==
    ASSUME DealInv, NEW e \in Call, call'[e] = call[e],
           \A a \in Agent : Owned'[a] \subseteq Owned[a],
           \A b \in Touched(call[e]) :
              agent'[b] # "none" /\ (agent'[b] = "active" => agent[b] = "active")
    PROVE  Safe(call'[e], Owned', agent')
  <1>1. PICK r \in Removal : r = call[e] /\ r = call'[e] /\ Safe(r, Owned, agent)
    BY SafeCalls
  <1>2. PICK w, v, x, y : w = Owned /\ v = Owned' /\ x = agent /\ y = agent'
    OBVIOUS
  <1>3. /\ Safe(r, w, x) /\ \A b \in r.watch : v[b] \subseteq w[b] \cup r.given
        /\ \A b \in Touched(r) : y[b] # "none" /\ (y[b] = "active" => x[b] = "active")
    BY <1>1, <1>2, RemovalFields
  <1>4. Safe(r, v, y)
    BY <1>3, SafeStays
  <1> QED BY <1>1, <1>2, <1>4

\* The accounts of a removal exist or are gone.
LEMMA StillThere ==
    ASSUME DealInv, NEW e \in Call, NEW b \in Touched(call[e])
    PROVE  b \in Agent /\ agent[b] # "none"
  <1>1. PICK r \in Removal : r = call[e] /\ Safe(r, Owned, agent)
    BY SafeCalls
  <1>2. b \in Agent
    BY <1>1, RemovalFields DEF Touched
  <1> QED BY <1>1, <1>2 DEF Safe, Shape

LEMMA WriteSafe ==
    ASSUME DealInv, DealTypeOK', NEW S, NEW a, Write(S, a), UNCHANGED <<phase, agent>>
    PROVE  RemovalsSafe'
  <1> SUFFICES ASSUME NEW e \in Call PROVE Safe(call'[e], Owned', agent')
    BY DEF RemovalsSafe
  <1>1. Hand(S, a) /\ call'[e] = Told(e, S, a)
    BY DEF Write
  <1>2. \A b \in Touched(call[e]) :
              agent'[b] # "none" /\ (agent'[b] = "active" => agent[b] = "active")
    BY StillThere
  <1> QED BY <1>1, <1>2, ToldSafe

LEMMA SetSafe ==
    ASSUME DealInv, NEW c \in Call, NEW next, Set(c, next),
           UNCHANGED <<phase, holder, agent>>, Safe(next, Owned, agent)
    PROVE  RemovalsSafe'
  <1>1. Owned' = Owned
    BY SameOwned
  <1> SUFFICES ASSUME NEW e \in Call PROVE Safe(call'[e], Owned', agent')
    BY DEF RemovalsSafe
  <1>2. call'[e] = IF e = c THEN next ELSE call[e]
    BY SafeCalls, DealTypes DEF Set
  <1> QED BY <1>1, <1>2, SafeCalls

LEMMA WriteAndSafe ==
    ASSUME DealInv, DealTypeOK', NEW c \in Call, NEW S, NEW a, NEW next, WriteAnd(c, S, a, next),
           UNCHANGED <<phase, agent>>, Safe(next, Owned', agent)
    PROVE  RemovalsSafe'
  <1> SUFFICES ASSUME NEW e \in Call PROVE Safe(call'[e], Owned', agent')
    BY DEF RemovalsSafe
  <1>1. Hand(S, a) /\ call'[e] = IF e = c THEN next ELSE Told(e, S, a)
    BY DEF WriteAnd
  <1>2. CASE e = c
    BY <1>1, <1>2
  <1>3. CASE e # c
    <2>1. \A b \in Touched(call[e]) :
              agent'[b] # "none" /\ (agent'[b] = "active" => agent[b] = "active")
      BY StillThere
    <2> QED BY <1>1, <1>3, <2>1, ToldSafe
  <1> QED BY <1>2, <1>3

\* Written to somebody else, the sales in flight are no longer an agent's to lose.
LEMMA WrittenAway ==
    ASSUME NEW r \in Removal, Safe(r, Owned, agent), NEW S, NEW a, Hand(S, a), a \notin r.watch,
           UNCHANGED phase, NEW left, InFlight(r) \subseteq S \cup left
    PROVE  \A b \in r.watch : Owned'[b] \subseteq r.given \cup (IF b \in r.now THEN left ELSE {})
  <1> SUFFICES ASSUME NEW b \in r.watch
               PROVE  Owned'[b] \subseteq r.given \cup (IF b \in r.now THEN left ELSE {})
    OBVIOUS
  <1>1. b \in Agent /\ b # a
    BY RemovalFields
  <1>2. Owned'[b] = Owned[b] \ S
    BY <1>1, OwnedAfter
  <1>3. Owned[b] \subseteq r.given \cup (IF b \in r.now THEN InFlight(r) ELSE {})
    BY DEF Safe, NoneLeft
  <1> QED BY <1>2, <1>3

LEMMA StartSafe ==
    ASSUME DealInv, NEW c \in Call, StartRemoval(c), UNCHANGED phase
    PROVE  RemovalsSafe'
  <1>1. PICK r \in Removal :
             /\ r.all = r.rest /\ r.watch = {} /\ r.now = {}
             /\ \A a \in r.rest : agent[a] # "none"
             /\ ~r.bulk => \E a : r.rest = {a}
             /\ \E next \in Turn(r) : Set(c, next)
    BY StartIs, SafeCalls
  <1>2. PICK next \in Turn(r) : Set(c, next)
    BY <1>1
  <1>3. PICK w, x : w = Owned /\ x = agent
    OBVIOUS
  <1>4. \A a \in Touched(r) : x[a] # "none"
    BY <1>1, <1>3 DEF Touched
  <1>5. Safe(next, w, x)
    BY <1>1, <1>2, <1>4, TurnSafe
  <1>6. UNCHANGED <<holder, agent>>
    BY DEF StartRemoval
  <1> QED BY <1>2, <1>3, <1>5, <1>6, SetSafe

LEMMA ReadSalesSafe ==
    ASSUME DealInv, NEW c \in Call, ReadSales(c), UNCHANGED phase
    PROVE  RemovalsSafe'
  <1>1. PICK r \in Removal : r = call[c] /\ Safe(r, Owned, agent)
    BY SafeCalls
  <1>2. PICK mine : mine = {s \in Future : holder[s] \in r.now}
    OBVIOUS
  <1>3. PICK next \in Removal :
             /\ Set(c, next) /\ r.pc = "read" /\ mine \in SUBSET Sale
             /\ IF mine = {} THEN next \in Turn(Seen(r, mine)) ELSE next = Seen(r, mine)
    BY <1>1, <1>2, ReadSalesIs, SafeCalls
  <1>4. PICK seen \in Removal : seen = Seen(r, mine)
    BY <1>3, SeenFields
  <1>5. /\ seen.watch = r.watch \cup (r.now \ (r.back \cup {r.to})) /\ seen.todo = mine
        /\ seen.pc = (IF r.how = "transfer" THEN "transfer" ELSE "others")
        /\ seen.bulk = r.bulk /\ seen.how = r.how /\ seen.to = r.to
        /\ seen.all = r.all /\ seen.rest = r.rest /\ seen.now = r.now
        /\ seen.back = r.back /\ seen.given = r.given
    BY <1>3, <1>4, SeenFields
  <1>6. ASSUME NEW a \in seen.watch
        PROVE  Owned[a] \subseteq seen.given \cup (IF a \in seen.now THEN mine ELSE {})
    <2>1. CASE a \in r.watch
      <3>1. InFlight(r) = {}
        BY <1>3 DEF InFlight
      <3>2. Owned[a] \subseteq r.given
        BY <1>1, <2>1, <3>1 DEF Safe, NoneLeft
      <3> QED BY <1>5, <3>2
    <2>2. CASE a \in r.now
      <3>1. a \in Agent
        BY <2>2, RemovalFields
      <3>2. Owned[a] \subseteq mine
        BY <1>2, <2>2, <3>1 DEF Owned
      <3> QED BY <1>5, <2>2, <3>2
    <2> QED BY <1>5, <2>1, <2>2
  <1>7. Touched(seen) \subseteq Touched(r) /\ \A a \in Touched(seen) : agent[a] # "none"
    <2>1. Touched(seen) \subseteq Touched(r)
      BY <1>5 DEF Touched
    <2> QED BY <1>1, <2>1 DEF Safe, Shape
  <1>8. seen.to \notin seen.watch /\ seen.how # "release"
    BY <1>1, <1>3, <1>5 DEF Safe, Shape
  <1>9. seen.how = "random" =>
           IF seen.bulk THEN \A a \in seen.watch : agent[a] # "active"
           ELSE seen.rest = {} /\ seen.watch \subseteq seen.now
    BY <1>1, <1>3, <1>5 DEF Safe, Resting
  <1>10. Safe(next, Owned, agent)
    <2>1. PICK w, x : w = Owned /\ x = agent
      OBVIOUS
    <2>2. CASE mine = {}
      <3>1. /\ \A a \in seen.watch : w[a] \subseteq seen.given
            /\ \A a \in Touched(seen) : x[a] # "none"
            /\ seen.how = "random" => IF seen.bulk THEN \A a \in seen.watch : x[a] # "active"
                                      ELSE seen.rest = {}
        BY <1>6, <1>7, <1>9, <2>1, <2>2
      <3>2. next \in Turn(seen)
        BY <1>3, <1>4, <2>2
      <3>3. Safe(next, w, x)
        BY <1>8, <3>1, <3>2, TurnSafe
      <3> QED BY <2>1, <3>3
    <2>3. CASE mine # {}
      <3>1. next = seen
        BY <1>3, <1>4, <2>3
      <3>2. InFlight(seen) = mine
        BY <1>5 DEF InFlight
      <3>3. NoneLeft(seen, Owned)
        BY <1>6, <3>2 DEF NoneLeft
      <3>4. Targets(seen)
        BY <1>5 DEF Targets
      <3>5. Shape(seen, agent)
        <4>1. seen.how \in {"transfer", "random", "release"}
          BY RemovalFields
        <4> QED BY <1>5, <1>7, <1>8, <4>1 DEF Shape
      <3>6. Resting(seen, agent)
        BY <1>5, <1>9 DEF Resting
      <3> QED BY <3>1, <3>3, <3>4, <3>5, <3>6 DEF Safe
    <2> QED BY <2>2, <2>3
  <1>11. UNCHANGED <<holder, agent>>
    BY DEF ReadSales
  <1> QED BY <1>3, <1>10, <1>11, SetSafe

LEMMA OthersSafe ==
    ASSUME DealInv, NEW c \in Call, ReadOthers(c), UNCHANGED phase
    PROVE  RemovalsSafe'
  <1>1. PICK r \in Removal : r = call[c] /\ Safe(r, Owned, agent)
    BY SafeCalls
  <1>2. PICK next \in Removal :
             /\ r.pc = "others" /\ Set(c, next)
             /\ next.pc = (IF Active \ r.now = {} THEN "transfer" ELSE "deal")
             /\ next.among = Active \ r.now
             /\ next.bulk = r.bulk /\ next.how = r.how /\ next.to = r.to /\ next.all = r.all
             /\ next.rest = r.rest /\ next.now = r.now /\ next.todo = r.todo
             /\ next.watch = r.watch /\ next.back = r.back /\ next.given = r.given
    BY <1>1, OthersIs, SafeCalls
  <1>3. r.how = "random"
    BY <1>1, <1>2 DEF Safe, Shape
  <1>4. NoneLeft(next, Owned)
    <2>1. InFlight(next) = InFlight(r)
      BY <1>2 DEF InFlight
    <2> QED BY <1>1, <1>2, <2>1 DEF Safe, NoneLeft
  <1>5. Targets(next)
    <2>1. \A a \in Active \ r.now : a \notin r.watch
      BY <1>1, <1>2, <1>3 DEF Safe, Resting, Active
    <2> QED BY <1>2, <2>1 DEF Targets
  <1>6. Shape(next, agent)
    <2>1. Touched(next) = Touched(r)
      BY <1>2 DEF Touched
    <2> QED BY <1>1, <1>2, <1>3, <2>1 DEF Safe, Shape
  <1>7. Resting(next, agent)
    BY <1>1, <1>2 DEF Safe, Resting
  <1>8. Safe(next, Owned, agent) /\ UNCHANGED <<holder, agent>>
    BY <1>4, <1>5, <1>6, <1>7 DEF Safe, ReadOthers
  <1> QED BY <1>2, <1>8, SetSafe

LEMMA RemovalDealsSafe ==
    ASSUME DealAssumption, DealInv, NEW c \in Call, RemovalDeals(c), UNCHANGED phase
    PROVE  RemovalsSafe'
  <1>1. PICK r \in Removal : r = call[c] /\ Safe(r, Owned, agent)
    BY SafeCalls
  <1>2. PICK next \in Removal :
             /\ r.pc = "deal" /\ Set(c, next) /\ next.pc = "give"
             /\ SalesOf(next.plan) = r.todo
             /\ \A g \in ToSet(next.plan) : g.to \in r.among
             /\ next.bulk = r.bulk /\ next.how = r.how /\ next.to = r.to /\ next.all = r.all
             /\ next.rest = r.rest /\ next.now = r.now
             /\ next.watch = r.watch /\ next.back = r.back /\ next.given = r.given
    BY <1>1, RemovalDealsIs, SafeCalls
  <1>3. r.how = "random"
    BY <1>1, <1>2 DEF Safe, Shape
  <1>4. NoneLeft(next, Owned)
    <2>1. InFlight(next) = InFlight(r)
      BY <1>2 DEF InFlight
    <2> QED BY <1>1, <1>2, <2>1 DEF Safe, NoneLeft
  <1>5. Targets(next)
    BY <1>1, <1>2 DEF Safe, Targets
  <1>6. Shape(next, agent)
    <2>1. Touched(next) = Touched(r)
      BY <1>2 DEF Touched
    <2> QED BY <1>1, <1>2, <1>3, <2>1 DEF Safe, Shape
  <1>7. Resting(next, agent)
    BY <1>1, <1>2 DEF Safe, Resting
  <1>8. Safe(next, Owned, agent) /\ UNCHANGED <<holder, agent>>
    BY <1>4, <1>5, <1>6, <1>7 DEF Safe, RemovalDeals
  <1> QED BY <1>2, <1>8, SetSafe

LEMMA ThrowSafe ==
    ASSUME DealInv, NEW c \in Call, Throws(c), UNCHANGED <<phase, agent>>
    PROVE  RemovalsSafe'
  <1>1. Set(c, NoRemoval) /\ UNCHANGED holder
    BY DEF Throws
  <1>2. PICK w, x : w = Owned /\ x = agent
    OBVIOUS
  <1>3. Safe(NoRemoval, w, x)
    BY NoRemovalSafe
  <1> QED BY <1>1, <1>2, <1>3, SetSafe

LEMMA TransferSafe ==
    ASSUME DealInv, DealTypeOK', NEW c \in Call, Transfer(c), UNCHANGED phase
    PROVE  RemovalsSafe'
  <1>1. PICK r \in Removal : r = call[c] /\ Safe(r, Owned, agent)
    BY SafeCalls
  <1>2. UNCHANGED agent
    BY DEF Transfer
  <1>3. CASE Throws(c)
    BY <1>2, <1>3, ThrowSafe
  <1>4. CASE \E next \in Turn(r) : WriteAnd(c, r.todo, r.to, next)
    <2>1. PICK next \in Turn(r) : WriteAnd(c, r.todo, r.to, next)
      BY <1>4
    <2>2. r.pc = "transfer"
      BY <1>1 DEF Transfer
    <2>3. InFlight(r) \subseteq r.todo \cup {} /\ r.to \notin r.watch /\ Hand(r.todo, r.to)
      BY <1>1, <2>1, <2>2 DEF InFlight, Safe, Shape, WriteAnd
    <2>4. PICK none : none = {}
      OBVIOUS
    <2>5. \A b \in r.watch : Owned'[b] \subseteq r.given \cup (IF b \in r.now THEN none ELSE {})
      BY <1>1, <2>3, <2>4, WrittenAway
    <2>6. \A b \in r.watch : Owned'[b] \subseteq r.given
      BY <2>4, <2>5
    <2>7. /\ \A a \in Touched(r) : agent[a] # "none"
          /\ r.how = "random" => IF r.bulk THEN \A a \in r.watch : agent[a] # "active"
                                 ELSE r.rest = {}
      BY <1>1, <2>2 DEF Safe, Shape, Resting
    <2>8. PICK v, x : v = Owned' /\ x = agent
      OBVIOUS
    <2>9. /\ \A b \in r.watch : v[b] \subseteq r.given
          /\ \A a \in Touched(r) : x[a] # "none"
          /\ r.how = "random" => IF r.bulk THEN \A a \in r.watch : x[a] # "active" ELSE r.rest = {}
      BY <2>6, <2>7, <2>8
    <2>10. Safe(next, v, x)
      BY <2>1, <2>3, <2>9, TurnSafe
    <2> QED BY <1>2, <2>1, <2>8, <2>10, WriteAndSafe
  <1> QED BY <1>1, <1>3, <1>4, TransferIs, SafeCalls

LEMMA RemovalGivesSafe ==
    ASSUME DealInv, DealTypeOK', NEW c \in Call, RemovalGives(c), UNCHANGED phase
    PROVE  RemovalsSafe'
  <1>1. PICK r \in Removal : r = call[c] /\ Safe(r, Owned, agent)
    BY SafeCalls
  <1>2. UNCHANGED agent /\ r.pc = "give"
    BY <1>1 DEF RemovalGives
  <1>3. CASE Throws(c)
    BY <1>2, <1>3, ThrowSafe
  <1>4. CASE \E next \in Removal :
                /\ WriteAnd(c, BatchOf(r.plan), Head(r.plan).to, next)
                /\ IF AfterBatch(r.plan) = << >> THEN next \in Turn(r)
                   ELSE next = [r EXCEPT !.plan = AfterBatch(r.plan)]
    <2>1. PICK rest, batch, to :
               rest = AfterBatch(r.plan) /\ batch = BatchOf(r.plan) /\ to = Head(r.plan).to
      OBVIOUS
    <2>2. PICK next \in Removal :
               /\ WriteAnd(c, batch, to, next)
               /\ IF rest = << >> THEN next \in Turn(r) ELSE next = [r EXCEPT !.plan = rest]
      BY <1>4, <2>1
    <2>3. /\ r.plan \in Seq(Given) /\ rest \in Seq(Given) /\ ToSet(rest) \subseteq ToSet(r.plan)
          /\ SalesOf(r.plan) \subseteq batch \cup SalesOf(rest)
          /\ rest = << >> => SalesOf(rest) = {}
      BY <2>1, RemovalFields, BatchAndRest
    <2>4. InFlight(r) = SalesOf(r.plan)
      BY <1>2 DEF InFlight
    <2>5. Hand(batch, to)
      BY <2>2 DEF WriteAnd
    <2>6. ASSUME NEW b \in r.watch
          PROVE  Owned'[b] \subseteq r.given \cup (IF b \in r.now THEN SalesOf(rest) ELSE {})
      <3>1. CASE r.plan = << >>
        <4>1. ToSet(r.plan) = {}
          BY <3>1 DEF ToSet
        <4>2. batch = {} /\ SalesOf(r.plan) = {}
          BY <2>1, <4>1 DEF BatchOf, SalesOf
        <4>3. b \in Agent
          BY RemovalFields
        <4>4. Owned'[b] \subseteq Owned[b]
          BY <2>5, <4>2, <4>3, OwnedAfter
        <4>5. Owned[b] \subseteq r.given
          BY <1>1, <2>4, <4>2 DEF Safe, NoneLeft
        <4> QED BY <4>4, <4>5
      <3>2. CASE r.plan # << >>
        <4>1. PICK first : first = Head(r.plan) /\ first \in ToSet(r.plan)
          BY <2>3, <3>2 DEF ToSet
        <4>2. to \notin r.watch
          BY <1>1, <1>2, <2>1, <4>1 DEF Safe, Targets
        <4>3. PICK left : left = SalesOf(rest)
          OBVIOUS
        <4>4. InFlight(r) \subseteq batch \cup left
          BY <2>3, <2>4, <4>3
        <4>5. \A q \in r.watch : Owned'[q] \subseteq r.given \cup (IF q \in r.now THEN left ELSE {})
          BY <1>1, <2>5, <4>2, <4>4, WrittenAway
        <4> QED BY <2>6, <4>3, <4>5
      <3> QED BY <3>1, <3>2
    <2>7. r.how = "random" /\ \A a \in Touched(r) : agent[a] # "none"
      BY <1>1, <1>2 DEF Safe, Shape
    <2>8. r.to \notin r.watch /\ IF r.bulk THEN \A a \in r.watch : agent[a] # "active"
                                 ELSE r.rest = {} /\ r.watch \subseteq r.now
      BY <1>1, <1>2, <2>7 DEF Safe, Shape, Resting
    <2>9. Safe(next, Owned', agent)
      <3>1. CASE rest = << >>
        <4>1. PICK v, x : v = Owned' /\ x = agent
          OBVIOUS
        <4>2. /\ \A b \in r.watch : v[b] \subseteq r.given
              /\ \A a \in Touched(r) : x[a] # "none"
              /\ r.how = "random" => IF r.bulk THEN \A a \in r.watch : x[a] # "active" ELSE r.rest = {}
          BY <2>3, <2>6, <2>7, <2>8, <3>1, <4>1
        <4>3. Safe(next, v, x)
          BY <2>2, <2>8, <3>1, <4>2, TurnSafe
        <4> QED BY <4>1, <4>3
      <3>2. CASE rest # << >>
        <4>1. next = [r EXCEPT !.plan = rest]
          BY <2>2, <3>2
        <4>2. /\ next.pc = r.pc /\ next.bulk = r.bulk /\ next.how = r.how /\ next.to = r.to
              /\ next.all = r.all /\ next.rest = r.rest /\ next.now = r.now /\ next.plan = rest
              /\ next.watch = r.watch /\ next.back = r.back /\ next.given = r.given
          BY <4>1 DEF Removal
        <4>3. InFlight(next) = SalesOf(rest)
          BY <1>2, <4>2 DEF InFlight
        <4>4. NoneLeft(next, Owned')
          BY <2>6, <4>2, <4>3 DEF NoneLeft
        <4>5. Targets(next)
          BY <1>1, <1>2, <2>3, <4>2 DEF Safe, Targets
        <4>6. Shape(next, agent)
          <5>1. Touched(next) = Touched(r)
            BY <4>2 DEF Touched
          <5> QED BY <1>2, <2>7, <2>8, <4>2, <5>1 DEF Shape
        <4>7. Resting(next, agent)
          BY <1>2, <2>8, <4>2 DEF Resting
        <4> QED BY <4>4, <4>5, <4>6, <4>7 DEF Safe
      <3> QED BY <3>1, <3>2
    <2> QED BY <1>2, <2>2, <2>9, WriteAndSafe
  <1> QED BY <1>1, <1>3, <1>4, RemovalGivesIs, SafeCalls

LEMMA InactiveSafe ==
    ASSUME DealInv, NEW c \in Call, SetInactive(c), UNCHANGED phase
    PROVE  RemovalsSafe'
  <1>1. PICK r \in Removal : r = call[c] /\ Safe(r, Owned, agent)
    BY SafeCalls
  <1>2. Owned' = Owned
    BY SameOwned DEF SetInactive
  <1>3. /\ r.pc = "off" /\ Set(c, [r EXCEPT !.pc = "read"])
        /\ \A a \in Agent : agent'[a] = IF a \in r.now /\ agent[a] = "active"
                                        THEN "inactive" ELSE agent[a]
    BY <1>1 DEF SetInactive
  <1>4. \A a \in Agent : agent[a] # "none" =>
            agent'[a] # "none" /\ (agent'[a] = "active" => agent[a] = "active" /\ a \notin r.now)
    BY <1>3
  <1> SUFFICES ASSUME NEW e \in Call PROVE Safe(call'[e], Owned', agent')
    BY DEF RemovalsSafe
  <1>5. CASE e # c
    <2>1. call'[e] = call[e]
      BY <1>3, <1>5, DealTypes, SafeCalls DEF Set
    <2> QED BY <1>2, <1>4, <2>1, KeptSafe, StillThere
  <1>6. CASE e = c
    <2>1. PICK next : next = [r EXCEPT !.pc = "read"]
      OBVIOUS
    <2>2. call'[e] = next
      BY <1>3, <1>6, <2>1, DealTypes, SafeCalls DEF Set
    <2>3. /\ next.pc = "read" /\ next.bulk = r.bulk /\ next.how = r.how /\ next.to = r.to
          /\ next.all = r.all /\ next.rest = r.rest /\ next.now = r.now
          /\ next.watch = r.watch /\ next.back = r.back /\ next.given = r.given
      BY <2>1 DEF Removal
    <2>4. r.how = "random" /\ r.to \notin r.watch /\ \A a \in Touched(r) : agent[a] # "none"
      BY <1>1, <1>3 DEF Safe, Shape
    <2>5. Touched(next) = Touched(r) /\ r.watch \subseteq Agent /\ r.now \subseteq Agent
          /\ Touched(r) \subseteq Agent
      BY <2>3, RemovalFields DEF Touched
    <2>6. NoneLeft(next, Owned)
      <3>1. InFlight(next) = InFlight(r)
        BY <1>3, <2>3 DEF InFlight
      <3> QED BY <1>1, <2>3, <3>1 DEF Safe, NoneLeft
    <2>7. Targets(next)
      BY <2>3 DEF Targets
    <2>8. Shape(next, agent')
      BY <1>4, <2>3, <2>4, <2>5 DEF Shape
    <2>9. Resting(next, agent')
      <3>1. IF r.bulk THEN \A a \in r.watch : agent[a] # "active"
            ELSE r.rest = {} /\ r.watch \subseteq r.now
        BY <1>1, <1>3, <2>4 DEF Safe, Resting
      <3>2. \A a \in r.watch : agent[a] # "active" => agent'[a] # "active"
        BY <1>4, <2>4, <2>5 DEF Touched
      <3>3. \A a \in r.now : agent'[a] # "active"
        BY <1>4, <2>4, <2>5 DEF Touched
      <3> QED BY <2>3, <3>1, <3>2, <3>3 DEF Resting
    <2> QED BY <1>2, <2>2, <2>6, <2>7, <2>8, <2>9 DEF Safe
  <1> QED BY <1>5, <1>6

LEMMA DeleteSafe ==
    ASSUME DealInv, DealAssumption, NEW c \in Call, DeleteAgents(c), UNCHANGED phase
    PROVE  RemovalsSafe'
  <1>1. PICK gone \in SUBSET Agent : gone = call[c].all
    BY SafeCalls, RemovalFields
  <1>2. /\ agent' = [a \in Agent |-> IF a \in gone THEN "gone" ELSE agent[a]]
        /\ holder' = [s \in Sale |-> IF holder[s] \in gone THEN Nobody ELSE holder[s]]
        /\ Set(c, NoRemoval)
    BY <1>1 DEF DeleteAgents, Freed
  <1>3. ASSUME NEW a \in Agent PROVE Owned'[a] \subseteq Owned[a]
    <2>1. Future' = Future /\ Future \subseteq Sale
      BY DEF Future
    <2>2. Nobody # a
      BY DEF DealAssumption
    <2>3. \A s \in Future : holder'[s] = a => holder[s] = a
      BY <1>2, <2>1, <2>2
    <2> QED BY <2>1, <2>3 DEF Owned
  <1> SUFFICES ASSUME NEW e \in Call PROVE Safe(call'[e], Owned', agent')
    BY DEF RemovalsSafe
  <1>4. CASE e # c
    <2>1. call'[e] = call[e]
      BY <1>2, <1>4, DealTypes, SafeCalls DEF Set
    <2>2. \A b \in Touched(call[e]) :
              agent'[b] # "none" /\ (agent'[b] = "active" => agent[b] = "active")
      BY <1>2, StillThere
    <2> QED BY <1>3, <2>1, <2>2, KeptSafe
  <1>5. CASE e = c
    <2>1. call'[e] = NoRemoval
      BY <1>2, <1>5, DealTypes, SafeCalls DEF Set
    <2>2. PICK v, y : v = Owned' /\ y = agent'
      OBVIOUS
    <2>3. Safe(NoRemoval, v, y)
      BY NoRemovalSafe
    <2> QED BY <2>1, <2>2, <2>3
  <1> QED BY <1>4, <1>5

LEMMA RemovalSafe ==
    ASSUME DealAssumption, DealInv, DealTypeOK', NEW c \in Call,
           StartRemoval(c) \/ RemovalStep(c), UNCHANGED phase
    PROVE  RemovalsSafe'
  BY StartSafe, InactiveSafe, ReadSalesSafe, TransferSafe, OthersSafe, RemovalDealsSafe,
     RemovalGivesSafe, DeleteSafe DEF RemovalStep

\* The calls are as they were, the agents' sales at most what they were.
LEMMA NothingSafe ==
    ASSUME DealInv, UNCHANGED <<call, agent>>, \A a \in Agent : Owned'[a] \subseteq Owned[a]
    PROVE  RemovalsSafe'
  <1> SUFFICES ASSUME NEW e \in Call PROVE Safe(call'[e], Owned', agent')
    BY DEF RemovalsSafe
  <1>1. call'[e] = call[e] /\ \A b \in Touched(call[e]) :
              agent'[b] # "none" /\ (agent'[b] = "active" => agent[b] = "active")
    BY StillThere
  <1> QED BY <1>1, KeptSafe

LEMMA PassSafe ==
    ASSUME DealInv, DealTypeOK', NEW d \in Desk, Assign(d) \/ PassStep(d), UNCHANGED phase
    PROVE  RemovalsSafe'
  <1>1. UNCHANGED agent
    BY DEF Assign, PassStep, ReadPending, PassDeals, PassGives
  <1>2. CASE UNCHANGED <<holder, call>>
    <2>1. Owned' = Owned
      BY <1>2, SameOwned
    <2> QED BY <1>1, <1>2, <2>1, NothingSafe
  <1>3. CASE Assign(d)
    BY <1>1, <1>3, WriteSafe DEF Assign
  <1>4. CASE PassGives(d)
    <2>1. UNCHANGED <<holder, call>> \/ \E S, a : Write(S, a)
      BY <1>4 DEF PassGives
    <2> QED BY <1>1, <1>2, <2>1, WriteSafe
  <1> QED BY <1>2, <1>3, <1>4 DEF PassStep, ReadPending, PassDeals

LEMMA SwitchSafe ==
    ASSUME DealInv, Switch, UNCHANGED phase
    PROVE  RemovalsSafe'
  <1>1. Owned' = Owned
    BY SameOwned DEF Switch
  <1>2. PICK a \in Agent :
           \/ /\ agent[a] = "active"
              /\ agent' = [agent EXCEPT ![a] = "inactive"] /\ UNCHANGED call
           \/ /\ agent[a] = "inactive"
              /\ agent' = [agent EXCEPT ![a] = "active"]
              /\ call' = [c \in Call |-> [call[c] EXCEPT
                             !.watch = @ \ {a},
                             !.back = IF call[c].pc = "idle" THEN @ ELSE @ \cup {a}]]
    BY DEF Switch
  <1> SUFFICES ASSUME NEW e \in Call PROVE Safe(call'[e], Owned', agent')
    BY DEF RemovalsSafe
  <1>3. CASE agent' = [agent EXCEPT ![a] = "inactive"] /\ UNCHANGED call
    <2>1. \A b \in Touched(call[e]) :
              agent'[b] # "none" /\ (agent'[b] = "active" => agent[b] = "active")
      <3> SUFFICES ASSUME NEW b \in Touched(call[e])
                   PROVE  agent'[b] # "none" /\ (agent'[b] = "active" => agent[b] = "active")
        OBVIOUS
      <3>1. b \in Agent /\ agent[b] # "none"
        BY StillThere
      <3>2. agent'[b] = IF b = a THEN "inactive" ELSE agent[b]
        BY <1>3, <3>1, SafeCalls, DealTypes
      <3> QED BY <3>1, <3>2
    <2> QED BY <1>1, <1>3, <2>1, KeptSafe
  <1>4. CASE /\ agent' = [agent EXCEPT ![a] = "active"]
             /\ call' = [c \in Call |-> [call[c] EXCEPT
                            !.watch = @ \ {a},
                            !.back = IF call[c].pc = "idle" THEN @ ELSE @ \cup {a}]]
    <2>1. PICK r \in Removal : r = call[e] /\ Safe(r, Owned, agent)
      BY SafeCalls
    <2>2. PICK next : next = [r EXCEPT !.watch = r.watch \ {a},
                                       !.back = IF r.pc = "idle" THEN r.back ELSE r.back \cup {a}]
      OBVIOUS
    <2>3. call'[e] = next
      BY <1>4, <2>1, <2>2, SafeCalls, SwitchedCalls
    <2>4. /\ next.pc = r.pc /\ next.bulk = r.bulk /\ next.how = r.how /\ next.to = r.to
          /\ next.all = r.all /\ next.rest = r.rest /\ next.now = r.now
          /\ next.among = r.among /\ next.todo = r.todo /\ next.plan = r.plan
          /\ next.watch = r.watch \ {a} /\ next.given = r.given
          /\ next.back = IF r.pc = "idle" THEN r.back ELSE r.back \cup {a}
      BY <2>2 DEF Removal
    <2>5. \A b \in Agent : agent'[b] = IF b = a THEN "active" ELSE agent[b]
      BY <1>4, SafeCalls, DealTypes
    <2>6. Touched(next) \subseteq Touched(r) /\ Touched(r) \subseteq Agent
          /\ r.watch \subseteq Touched(r) /\ r.now \subseteq Touched(r)
      BY <2>4, RemovalFields DEF Touched
    <2>7. NoneLeft(next, Owned)
      <3>1. InFlight(next) = InFlight(r)
        BY <2>4 DEF InFlight
      <3> QED BY <2>1, <2>4, <3>1 DEF Safe, NoneLeft
    <2>8. Targets(next)
      BY <2>1, <2>4 DEF Safe, Targets
    <2>9. Shape(next, agent')
      <3>1. r.pc = "idle" => next = r
        <4>1. r.pc = "idle" => r = NoRemoval /\ r.watch = {}
          BY <2>1 DEF Safe, Shape, NoRemoval
        <4>2. r.pc = "idle" => next = [r EXCEPT !.watch = r.watch, !.back = r.back]
          BY <2>2, <4>1
        <4>3. [r EXCEPT !.watch = r.watch, !.back = r.back] = r
          BY DEF Removal
        <4> QED BY <4>2, <4>3
      <3>2. \A b \in Touched(r) : agent[b] # "none"
        BY <2>1 DEF Safe, Shape
      <3>3. \A b \in Touched(next) : agent'[b] # "none"
        BY <2>5, <2>6, <3>2
      <3> QED BY <2>1, <2>4, <3>1, <3>3 DEF Safe, Shape
    <2>10. Resting(next, agent')
      <3>1. \A b \in r.watch \ {a} : agent[b] # "active" => agent'[b] # "active"
        BY <2>5, <2>6
      <3>2. r.pc = "read" => \A b \in r.now \ next.back : agent[b] # "active" => agent'[b] # "active"
        BY <2>4, <2>5, <2>6
      <3>3. r.pc = "read" => r.now \ next.back \subseteq r.now \ r.back
        BY <2>4
      <3> QED BY <2>1, <2>4, <3>1, <3>2, <3>3 DEF Safe, Resting
    <2> QED BY <1>1, <2>3, <2>7, <2>8, <2>9, <2>10 DEF Safe
  <1> QED BY <1>2, <1>3, <1>4

LEMMA CreateSafe ==
    ASSUME DealInv, Create, UNCHANGED phase
    PROVE  RemovalsSafe'
  <1>1. PICK a \in Agent : agent[a] = "none" /\ agent' = [agent EXCEPT ![a] = "active"]
    BY DEF Create
  <1>2. Owned' = Owned /\ UNCHANGED call
    BY SameOwned DEF Create
  <1> SUFFICES ASSUME NEW e \in Call PROVE Safe(call'[e], Owned', agent')
    BY DEF RemovalsSafe
  <1>3. ASSUME NEW b \in Touched(call[e])
        PROVE  agent'[b] # "none" /\ (agent'[b] = "active" => agent[b] = "active")
    <2>1. b \in Agent /\ agent[b] # "none"
      BY StillThere
    <2>2. b # a /\ agent'[b] = agent[b]
      BY <1>1, <2>1, SafeCalls, DealTypes
    <2> QED BY <2>1, <2>2
  <1> QED BY <1>2, <1>3, KeptSafe

LEMMA RestartSafe ==
    ASSUME DealInv, Restart, UNCHANGED phase
    PROVE  RemovalsSafe'
  <1> SUFFICES ASSUME NEW e \in Call PROVE Safe(call'[e], Owned', agent')
    BY DEF RemovalsSafe
  <1>1. call'[e] = NoRemoval
    BY DEF Restart
  <1>2. PICK v, y : v = Owned' /\ y = agent'
    OBVIOUS
  <1>3. Safe(NoRemoval, v, y)
    BY NoRemovalSafe
  <1> QED BY <1>1, <1>2, <1>3

LEMMA DealStepSafe ==
    ASSUME DealAssumption, DealInv, DealTypeOK', DealStep, UNCHANGED phase
    PROVE  RemovalsSafe'
  <1>1. CASE Reassign
    BY <1>1, WriteSafe DEF Reassign
  <1>2. CASE HourStrikes
    <2>1. UNCHANGED <<agent, holder, call>>
      BY <1>2 DEF HourStrikes
    <2>2. Owned' = Owned
      BY <2>1, SameOwned
    <2> QED BY <2>1, <2>2, NothingSafe
  <1> QED
    BY <1>1, <1>2, PassSafe, RemovalSafe, CreateSafe, SwitchSafe, RestartSafe DEF DealStep

\* A sale that comes nearer is no longer to come, or still is.
LEMMA TimeSafe ==
    ASSUME DealInv, NEW s \in Sale, TimePasses(s), UNCHANGED dealVars
    PROVE  ClockOK' /\ RemovalsSafe'
  <1>1. PICK next \in {<<"ahead", "soon">>, <<"soon", "on">>, <<"on", "past">>} :
             phase[s] = next[1] /\ phase' = [phase EXCEPT ![s] = next[2]]
    BY DEF TimePasses
  <1>2. next[1] \in Phases /\ next[2] \in Phases /\ next[2] # "ahead"
        /\ (next[2] = "soon" => next[1] = "ahead")
    BY DEF Phases
  <1>3. phase \in [Sale -> Phases] /\ daysLeft \in Nat
    BY SafeCalls
  <1>4. ClockOK'
    BY <1>1, <1>2, <1>3 DEF ClockOK, TimePasses
  <1>5. ASSUME NEW t \in Sale, phase'[t] \in {"ahead", "soon"} PROVE phase[t] \in {"ahead", "soon"}
    BY <1>1, <1>2, <1>3, <1>5
  <1>6. Future' \subseteq Future
    BY <1>5 DEF Future
  <1>7. UNCHANGED <<agent, holder, call>>
    BY DEF dealVars
  <1>8. \A a \in Agent : Owned'[a] \subseteq Owned[a]
    BY <1>6, <1>7 DEF Owned
  <1> QED BY <1>4, <1>7, <1>8, NothingSafe

DayVars == <<clockVars, dealVars, MonitorVars>>

LEMMA DealKept ==
    ASSUME DealAssumption, DealInv, [DayStep]_DayVars
    PROVE  DealInv'
  <1>1. DealTypeOK
    BY SafeCalls
  <1>2. CASE DealStep /\ UNCHANGED <<clockVars, MonitorVars>>
    <2>1. UNCHANGED phase /\ ClockOK'
      BY <1>2 DEF clockVars, DealInv, ClockOK
    <2>2. DealTypeOK'
      BY <1>1, <1>2, DealStepTypes
    <2> QED BY <1>2, <2>1, <2>2, DealStepSafe DEF DealInv
  <1>3. CASE UNCHANGED <<clockVars, dealVars>>
    <2>1. UNCHANGED <<phase, agent, holder, call>> /\ ClockOK'
      BY <1>3 DEF clockVars, dealVars, DealInv, ClockOK
    <2>2. Owned' = Owned
      BY <2>1, SameOwned
    <2>3. DealTypeOK'
      BY <1>1, <1>3, DealStepTypes
    <2> QED BY <2>1, <2>2, <2>3, NothingSafe DEF DealInv
  <1>4. CASE \E s \in Sale : TimePasses(s) /\ UNCHANGED <<dealVars, MonitorVars>>
    <2>1. UNCHANGED dealVars
      BY <1>4
    <2>2. DealTypeOK'
      BY <1>1, <2>1, DealStepTypes
    <2> QED BY <1>4, <2>1, <2>2, TimeSafe DEF DealInv
  <1> QED BY <1>2, <1>3, <1>4 DEF DayStep, DayVars

LEMMA DealBegins == DayInit => DealInv
  <1> SUFFICES ASSUME DayInit PROVE DealInv
    OBVIOUS
  <1>1. ClockOK /\ DealInit
    BY DEF DayInit, ClockOK
  <1>2. DealTypeOK
    <2>1. [NoPass EXCEPT !.pc = "off"] \in Pass /\ NoPass \in Pass
      BY NothingInFlight DEF Pass
    <2>2. pass \in [Desk -> Pass]
      BY <1>1, <2>1 DEF DealInit
    <2>3. call \in [Call -> Removal]
      BY <1>1, NothingInFlight DEF DealInit
    <2>4. holder \in [Sale -> Agent \cup {Nobody}] /\ \A s \in Sale : holder[s] = Nobody
      BY <1>1 DEF DealInit
    <2>5. /\ agent \in [Agent -> {"none", "active", "inactive", "gone"}] /\ locked \in BOOLEAN
          /\ dealLeft \in [remove : Nat, staff : Nat, fault : Nat]
      BY <1>1 DEF DealInit
    <2> QED BY <2>2, <2>3, <2>4, <2>5 DEF DealTypeOK
  <1>3. RemovalsSafe
    <2>1. PICK w, x : w = Owned /\ x = agent
      OBVIOUS
    <2>2. Safe(NoRemoval, w, x)
      BY NoRemovalSafe
    <2> QED BY <1>1, <2>1, <2>2 DEF DealInit, RemovalsSafe
  <1> QED BY <1>1, <1>2, <1>3 DEF DealInv

-----------------------------------------------------------------------------
(* What the day promises                                                    *)

\* The day of the monitor is a run of the monitor by itself: its theorems hold here too.
LEMMA DayIsMonitored == DaySpec => MonitorSpec
  <1>1. DayInit => MonitorInit /\ SinkInit
    BY DEF DayInit
  <1>2. [DayStep]_DayVars => [MonitorNext]_<<clockVars, MonitorVars>>
    BY DEF DayStep, DayVars, MonitorNext
  <1> QED BY <1>1, <1>2, PTL DEF DaySpec, MonitorSpec, DayVars

\* The agents' deal, the sink and the monitor's sessions are well typed all day, and no
\* sale is left with an account that no longer exists.
THEOREM DayTyped == DaySpec => []DayTypeOK
  <1>1. DealInv => DealTypeOK
    BY DEF DealInv
  <1>2. DaySpec => []DealInv
    BY DealAssumption, DealBegins, DealKept, PTL DEF DaySpec, DayVars
  <1>3. DaySpec => []DealTypeOK
    BY <1>1, <1>2, PTL
  <1> QED BY <1>3, DayIsMonitored, MonitorTyped, SinkIsTyped, PTL DEF DayTypeOK

LEMMA DayIsDealt == DaySpec => []DealInv
  BY DealAssumption, DealBegins, DealKept, PTL DEF DaySpec, DayVars

\* Only the deletion of a removal makes an account gone.
LEMMA GoneByDeletion ==
    ASSUME DealInv, DealStep, NEW a \in Existing, agent'[a] = "gone"
    PROVE  \E c \in Call : DeleteAgents(c) /\ a \in call[c].all
  <1>1. a \in Agent /\ agent[a] \in {"active", "inactive"}
    BY DEF Existing
  <1>2. agent'[a] # agent[a]
    BY <1>1
  <1>3. ASSUME NEW c \in Call, DeleteAgents(c) PROVE a \in call[c].all
    BY <1>1, <1>2, <1>3 DEF DeleteAgents
  <1>4. ASSUME NEW c \in Call, SetInactive(c) PROVE FALSE
    BY <1>1, <1>4 DEF SetInactive
  <1>5. ASSUME Create \/ Switch PROVE FALSE
    <2>1. PICK b \in Agent, x \in {"active", "inactive"} : agent' = [agent EXCEPT ![b] = x]
      BY <1>5 DEF Create, Switch
    <2>2. agent'[a] \in {agent[a], x}
      BY <1>1, <2>1, SafeCalls, DealTypes
    <2> QED BY <1>1, <2>2
  <1>6. ASSUME NEW c \in Call, StartRemoval(c) \/ ReadSales(c) \/ Transfer(c) \/ ReadOthers(c)
                               \/ RemovalDeals(c) \/ RemovalGives(c)
        PROVE  UNCHANGED agent
    BY <1>6 DEF StartRemoval, ReadSales, Transfer, ReadOthers, RemovalDeals, RemovalGives
  <1>7. ASSUME NEW d \in Desk, Assign(d) \/ PassStep(d) PROVE UNCHANGED agent
    BY <1>7 DEF Assign, PassStep, ReadPending, PassDeals, PassGives
  <1>8. ASSUME Reassign \/ HourStrikes \/ Restart PROVE UNCHANGED agent
    BY <1>8 DEF Reassign, HourStrikes, Restart
  <1>9. \/ \E d \in Desk : Assign(d) \/ PassStep(d)
        \/ \E c \in Call : \/ StartRemoval(c) \/ ReadSales(c) \/ Transfer(c) \/ ReadOthers(c)
                           \/ RemovalDeals(c) \/ RemovalGives(c)
        \/ \E c \in Call : SetInactive(c) \/ DeleteAgents(c)
        \/ Create \/ Switch \/ Reassign \/ HourStrikes \/ Restart
    BY DEF DealStep, RemovalStep
  <1> QED BY <1>2, <1>3, <1>4, <1>5, <1>6, <1>7, <1>8, <1>9

\* A deletion leaves none of the sales behind that its agents had when it read them: for
\* any number of agents, sales and removals at once, and whoever writes sales meanwhile
\* (reassignFrom, remove, bulkRemove).
THEOREM WorkIsKept == DaySpec => AgentsWorkIsKept
  <1> DEFINE Left(a) == \E c \in Call :
                           /\ call[c].pc = "delete" /\ a \in call[c].all
                           /\ a \in call[c].watch =>
                                {s \in Future : holder[s] = a} \subseteq call[c].given
             Moves == \A a \in Existing : agent'[a] = "gone" => Left(a)
  <1>1. DealInv /\ [DayStep]_DayVars => [Moves]_<<clockVars, dealVars>>
    <2> SUFFICES ASSUME DealInv, DealStep, NEW a \in Existing, agent'[a] = "gone"
                 PROVE  Left(a)
      <3> HIDE DEF Left
      <3>1. ASSUME UNCHANGED agent PROVE Moves
        BY <3>1 DEF Existing
      <3>2. ASSUME NEW s \in Sale, UNCHANGED dealVars PROVE UNCHANGED agent
        BY <3>2 DEF dealVars
      <3> QED BY <3>1, <3>2 DEF DayStep, DayVars
    <2>1. PICK c \in Call : DeleteAgents(c) /\ a \in call[c].all
      BY GoneByDeletion
    <2>2. PICK r \in Removal : r = call[c] /\ Safe(r, Owned, agent) /\ r.pc = "delete"
      BY <2>1, SafeCalls DEF DeleteAgents
    <2>3. ASSUME a \in r.watch PROVE {s \in Future : holder[s] = a} \subseteq r.given
      <3>1. a \in Agent /\ InFlight(r) = {}
        BY <2>2 DEF Existing, InFlight
      <3>2. Owned[a] \subseteq r.given
        BY <2>2, <2>3, <3>1 DEF Safe, NoneLeft
      <3> QED BY <3>1, <3>2 DEF Owned
    <2> QED BY <2>1, <2>2, <2>3
  <1>2. DaySpec => [][DayStep]_DayVars
    BY PTL DEF DaySpec, DayVars
  <1>3. AgentsWorkIsKept <=> [][Moves]_<<clockVars, dealVars>>
    BY PTL DEF AgentsWorkIsKept
  <1> HIDE DEF Moves
  <1> QED BY <1>1, <1>2, <1>3, DayIsDealt, PTL

\* Somebody who deals does it by a step of its own.
LEMMA DealsByPass ==
    ASSUME DealInv, DealStep, NEW d \in Desk, pass[d].pc = "deal", pass'[d].pc = "give"
    PROVE  pass'[d].plan \in Deals(pass[d].todo, pass[d].among)
  <1>1. PICK p \in Pass : p = pass[d] /\ p.pc = "deal"
    BY SafeCalls, DealTypes
  <1>2. pass \in [Desk -> Pass]
    BY SafeCalls, DealTypes
  <1>3. pass'[d] # pass[d] /\ pass'[d] # NoPass
    BY DEF NoPass
  <1>4. ASSUME NEW e \in Desk, EndedEarly(e) PROVE FALSE
    BY <1>2, <1>3, <1>4 DEF EndedEarly
  <1>5. ASSUME NEW e \in Desk, Assign(e) PROVE FALSE
    <2>1. pass'[d].pc \in {pass[d].pc, "pending"} \/ pass'[d] = pass[d]
      BY <1>1, <1>2, <1>4, <1>5 DEF Assign, Pass
    <2> QED BY <1>1, <1>3, <2>1
  <1>6. ASSUME NEW e \in Desk, ReadPending(e) PROVE FALSE
    <2>1. pass[e].pc = "pending" /\ pass' = [pass EXCEPT ![e].pc = "deal", ![e].todo = Pending]
      BY <1>4, <1>6 DEF ReadPending
    <2>2. e # d
      BY <1>1, <2>1
    <2> QED BY <1>2, <1>3, <2>1, <2>2
  <1>7. ASSUME NEW e \in Desk, PassGives(e) PROVE FALSE
    <2>1. pass[e].pc = "give" /\ \E q : pass' = [pass EXCEPT ![e] = q]
      BY <1>4, <1>7 DEF PassGives
    <2>2. e # d
      BY <1>1, <2>1
    <2> QED BY <1>2, <1>3, <2>1, <2>2
  <1>8. ASSUME NEW e \in Desk, PassDeals(e)
        PROVE  pass'[d].plan \in Deals(pass[d].todo, pass[d].among)
    <2>1. PICK plan \in Deals(pass[e].todo, pass[e].among) :
               pass' = [pass EXCEPT ![e] = [NoPass EXCEPT !.pc = "give", !.plan = plan]]
      BY <1>8 DEF PassDeals
    <2>2. e = d
      BY <1>2, <1>3, <2>1
    <2>3. pass'[d].plan = plan
      BY <1>2, <2>1, <2>2 DEF NoPass
    <2> QED BY <2>1, <2>2, <2>3
  <1>9. ASSUME \E c \in Call : StartRemoval(c) \/ RemovalStep(c) PROVE FALSE
    BY <1>3, <1>9 DEF StartRemoval, RemovalStep, SetInactive, ReadSales, Transfer, ReadOthers,
                      RemovalDeals, RemovalGives, DeleteAgents
  <1>10. ASSUME Create \/ Switch \/ Reassign \/ HourStrikes \/ Restart PROVE FALSE
    BY <1>3, <1>10 DEF Create, Switch, Reassign, HourStrikes, Restart
  <1> QED BY <1>5, <1>6, <1>7, <1>8, <1>9, <1>10 DEF DealStep, PassStep

LEMMA DealsByRemoval ==
    ASSUME DealAssumption, DealInv, DealStep, NEW c \in Call,
           call[c].pc = "deal", call'[c].pc = "give"
    PROVE  call'[c].plan \in Deals(call[c].todo, call[c].among)
  <1>1. PICK r \in Removal : r = call[c] /\ r.pc = "deal"
    BY SafeCalls
  <1>2. call \in [Call -> Removal]
    BY SafeCalls, DealTypes
  <1>3. ASSUME NEW e, NEW next, Set(e, next), e # c PROVE FALSE
    BY <1>1, <1>2, <1>3 DEF Set
  <1>4. ASSUME NEW S, NEW a, call'[c] = Told(c, S, a) PROVE FALSE
    <2>1. Told(c, S, a).pc = r.pc
      BY <1>1 DEF Told, Removal
    <2> QED BY <1>1, <1>4, <2>1
  <1>5. ASSUME NEW S, NEW a, Write(S, a) PROVE FALSE
    BY <1>4, <1>5 DEF Write
  <1>6. ASSUME NEW e, NEW S, NEW a, NEW next, WriteAnd(e, S, a, next), e # c PROVE FALSE
    BY <1>4, <1>6 DEF WriteAnd
  <1>7. ASSUME UNCHANGED call PROVE FALSE
    BY <1>1, <1>7
  <1>8. ASSUME NEW d \in Desk, Assign(d) \/ PassStep(d) PROVE FALSE
    BY <1>5, <1>7, <1>8 DEF Assign, PassStep, ReadPending, PassDeals, PassGives
  <1>9. ASSUME NEW e \in Call, e # c, StartRemoval(e) \/ RemovalStep(e) PROVE FALSE
    <2>1. CASE \E next : Set(e, next)
      BY <1>3, <1>9, <2>1
    <2>2. CASE \E S, a, next : WriteAnd(e, S, a, next)
      BY <1>6, <1>9, <2>2
    <2>3. ASSUME Transfer(e) PROVE (\E next : Set(e, next)) \/ \E S, a, next : WriteAnd(e, S, a, next)
      BY <2>3 DEF Transfer, Throws
    <2>4. ASSUME RemovalGives(e) PROVE (\E next : Set(e, next)) \/ \E S, a, next : WriteAnd(e, S, a, next)
      BY <2>4 DEF RemovalGives, Throws
    <2>5. ASSUME StartRemoval(e) \/ SetInactive(e) \/ ReadSales(e) \/ ReadOthers(e)
                 \/ RemovalDeals(e) \/ DeleteAgents(e)
          PROVE  \E next : Set(e, next)
      BY <2>5 DEF StartRemoval, SetInactive, ReadSales, ReadOthers, RemovalDeals, DeleteAgents
    <2> QED BY <1>9, <2>1, <2>2, <2>3, <2>4, <2>5 DEF RemovalStep
  <1>10. ASSUME StartRemoval(c) \/ RemovalStep(c), ~RemovalDeals(c) PROVE FALSE
    BY <1>1, <1>10 DEF StartRemoval, RemovalStep, SetInactive, ReadSales, Transfer, ReadOthers,
                       RemovalGives, DeleteAgents
  <1>11. ASSUME RemovalDeals(c) PROVE call'[c].plan \in Deals(call[c].todo, call[c].among)
    <2>1. PICK plan \in Deals(r.todo, r.among) :
               Set(c, [r EXCEPT !.pc = "give", !.plan = plan, !.todo = {}, !.among = {}])
      BY <1>1, <1>11 DEF RemovalDeals
    <2>2. call'[c].plan = plan
      BY <1>2, <2>1 DEF Set, Removal
    <2> QED BY <1>1, <2>1, <2>2
  <1>12. ASSUME Create \/ Reassign \/ HourStrikes \/ Restart PROVE FALSE
    <2>1. CASE Restart
      BY <2>1 DEF Restart, NoRemoval
    <2>2. CASE Reassign
      BY <1>5, <2>2 DEF Reassign
    <2>3. CASE Create \/ HourStrikes
      BY <1>7, <2>3 DEF Create, HourStrikes
    <2> QED BY <1>12, <2>1, <2>2, <2>3
  <1>13. ASSUME Switch PROVE FALSE
    <2>1. PICK a \in Agent :
             \/ UNCHANGED call
             \/ call' = [e \in Call |-> [call[e] EXCEPT
                            !.watch = @ \ {a},
                            !.back = IF call[e].pc = "idle" THEN @ ELSE @ \cup {a}]]
      BY <1>13 DEF Switch
    <2>2. call'[c] = [r EXCEPT !.watch = r.watch \ {a},
                               !.back = IF r.pc = "idle" THEN r.back ELSE r.back \cup {a}]
      BY <1>1, <1>7, <2>1, SwitchedCalls, SafeCalls
    <2>3. call'[c].pc = r.pc
      BY <2>2 DEF Removal
    <2> QED BY <1>1, <2>3
  <1> QED BY <1>8, <1>9, <1>10, <1>11, <1>12, <1>13 DEF DealStep

\* A deal, of a pass or of a removal, gives every sale to somebody and leaves nobody who
\* got one more than one above anybody else: for any number of sales and agents, and
\* whatever they already have (deal).
THEOREM DealEndsLevel == DaySpec => DealIsLevel
  <1> DEFINE Levels ==
          /\ \A d \in Desk : pass[d].pc = "deal" /\ pass'[d].pc = "give" =>
                Level(pass[d].todo, pass[d].among, pass'[d].plan)
          /\ \A c \in Call : call[c].pc = "deal" /\ call'[c].pc = "give" =>
                Level(call[c].todo, call[c].among, call'[c].plan)
  <1>1. DealInv /\ [DayStep]_DayVars => [Levels]_<<clockVars, dealVars>>
    <2> SUFFICES ASSUME DealInv, DealStep PROVE Levels
      <3>1. ASSUME UNCHANGED dealVars PROVE Levels
        <4>1. UNCHANGED <<pass, call>>
          BY <3>1 DEF dealVars
        <4> QED BY <4>1
      <3> HIDE DEF Levels
      <3> QED BY <3>1 DEF DayStep, DayVars
    <2>1. ASSUME NEW d \in Desk, pass[d].pc = "deal", pass'[d].pc = "give"
          PROVE  Level(pass[d].todo, pass[d].among, pass'[d].plan)
      <3>1. pass[d].todo \in SUBSET Sale /\ pass[d].among \in SUBSET Agent
        BY SafeCalls, DealTypes, PassFields
      <3> QED BY <2>1, <3>1, DealAssumption, DealsByPass, DealsAreLevel
    <2>2. ASSUME NEW c \in Call, call[c].pc = "deal", call'[c].pc = "give"
          PROVE  Level(call[c].todo, call[c].among, call'[c].plan)
      <3>1. call[c].todo \in SUBSET Sale /\ call[c].among \in SUBSET Agent
        BY SafeCalls, RemovalFields
      <3> QED BY <2>2, <3>1, DealAssumption, DealsByRemoval, DealsAreLevel
    <2> QED BY <2>1, <2>2
  <1>2. DaySpec => [][DayStep]_DayVars
    BY PTL DEF DaySpec, DayVars
  <1>3. DealIsLevel <=> [][Levels]_<<clockVars, dealVars>>
    BY PTL DEF DealIsLevel
  <1> HIDE DEF Levels
  <1> QED BY <1>1, <1>2, <1>3, DayIsDealt, PTL

\* All day, whatever the deal of the agents does: pages are watched, the window of keys
\* holds, and the rows are the latest events.
THEOREM DayIsWatched ==
    DaySpec => []OpenPageIsWatched /\ []WindowRemembers /\ []LatestWins
  BY DayIsMonitored, PagesStayWatched, WindowHolds, RowsAreLatest, PTL
=============================================================================
