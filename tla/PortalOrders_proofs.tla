------------------------ MODULE PortalOrders_proofs ------------------------
(***************************************************************************)
(* Theorems about PortalOrders, for any orders and any number of calls     *)
(* being served at once.                                                   *)
(***************************************************************************)
EXTENDS PortalOrders, FiniteSetTheorems, TLAPS

-----------------------------------------------------------------------------
(* Type correctness                                                         *)

\* A call being served knows its order.
CallsKnown == \A h \in Handler : run[h].pc # "idle" => run[h].o \in Order

TypeInv == TypeOK /\ CallsKnown

\* The empty records are records.
LEMMA EmptyRecords == NotCreated \in PortalOrder /\ NoCall \in Call
  BY DEF NotCreated, PortalOrder, NoCall, Call

\* Counting the orders gives a number.
LEMMA ExistingNat == Cardinality(Existing) \in Nat
  BY PortalAssumption, FS_Subset, FS_CardinalityType DEF Existing

\* Answering keeps the calls well formed.
LEMMA AnswerType ==
    ASSUME TypeInv, NEW h \in Handler, Answer(h)
    PROVE  /\ run' \in [Handler -> Call] /\ due' \in SUBSET Order
           /\ CallsKnown'
  BY EmptyRecords DEF Answer, TypeInv, TypeOK, CallsKnown, NoCall

LEMMA CheckoutType ==
    ASSUME TypeInv, NEW o \in Order,
           CheckoutCreate(o) \/ CheckoutSession(o) \/ CheckoutLink(o) \/ Pay(o)
    PROVE  TypeInv'
  <1>1. CASE CheckoutCreate(o)
    <2> DEFINE n == Cardinality(Existing)
    <2>1. n \in Nat
      BY ExistingNat
    <2>2. [NotCreated EXCEPT !.status = "PENDING", !.createdAt = n] \in PortalOrder
      <3> HIDE DEF n
      <3> QED BY <2>1, EmptyRecords DEF PortalOrder
    <2> QED BY <1>1, <2>2 DEF CheckoutCreate, TypeInv, TypeOK, CallsKnown
  <1>2. CASE CheckoutSession(o)
    BY <1>2 DEF CheckoutSession, TypeInv, TypeOK, CallsKnown
  <1>3. CASE CheckoutLink(o)
    <2>1. [order[o] EXCEPT !.linked = TRUE] \in PortalOrder
      BY DEF TypeInv, TypeOK, PortalOrder
    <2> QED BY <1>3, <2>1 DEF CheckoutLink, TypeInv, TypeOK, CallsKnown
  <1>4. CASE Pay(o)
    BY <1>4 DEF Pay, TypeInv, TypeOK, CallsKnown
  <1> QED
    BY <1>1, <1>2, <1>3, <1>4

LEMMA CallerType ==
    ASSUME TypeInv, NEW h \in Handler, NEW o \in Order, Deliver(h, o) \/ ConfirmRead(h, o)
    PROVE  TypeInv'
  <1>1. /\ [NoCall EXCEPT !.pc = "read", !.o = o, !.via = "webhook"] \in Call
        /\ [NoCall EXCEPT !.pc = "retrieve", !.o = o] \in Call
    BY EmptyRecords DEF Call
  <1>2. CASE Deliver(h, o)
    BY <1>1, <1>2 DEF Deliver, TypeInv, TypeOK, CallsKnown, NoCall
  <1>3. CASE ConfirmRead(h, o)
    BY <1>1, <1>3 DEF ConfirmRead, TypeInv, TypeOK, CallsKnown, NoCall
  <1> QED
    BY <1>2, <1>3

LEMMA FulfillType ==
    ASSUME TypeInv, NEW h \in Handler, FulfillStep(h)
    PROVE  TypeInv'
  <1>1. run[h] \in Call
    BY DEF TypeInv, TypeOK
  <1>2. CASE ConfirmRetrieve(h)
    <2>1. [run[h] EXCEPT !.pc = "read"] \in Call
      BY <1>1 DEF Call
    <2>2. CASE Answer(h)
      <3>1. run' \in [Handler -> Call] /\ due' \in SUBSET Order /\ CallsKnown'
        BY <2>2, AnswerType
      <3> QED BY <1>2, <3>1 DEF ConfirmRetrieve, TypeInv, TypeOK
    <2>3. CASE run' = [run EXCEPT ![h].pc = "read"] /\ UNCHANGED due
      BY <1>2, <2>1, <2>3 DEF ConfirmRetrieve, TypeInv, TypeOK, CallsKnown
    <2> QED BY <1>2, <2>2, <2>3 DEF ConfirmRetrieve
  <1>3. CASE FulfillRead(h)
    <2>1. [run[h] EXCEPT !.pc = "mark"] \in Call
      BY <1>1 DEF Call
    <2>2. CASE Answer(h)
      <3>1. run' \in [Handler -> Call] /\ due' \in SUBSET Order /\ CallsKnown'
        BY <2>2, AnswerType
      <3> QED BY <1>3, <3>1 DEF FulfillRead, TypeInv, TypeOK
    <2>3. CASE run' = [run EXCEPT ![h].pc = "mark"] /\ UNCHANGED due
      BY <1>3, <2>1, <2>3 DEF FulfillRead, TypeInv, TypeOK, CallsKnown
    <2> QED BY <1>3, <2>2, <2>3 DEF FulfillRead
  <1>4. CASE MarkPaid(h)
    <2>1. run[h].o \in Order /\ Work(run[h].o) \in SUBSET Thing
      BY <1>4, PortalAssumption DEF MarkPaid, TypeInv, CallsKnown, Work
    <2>2. [run[h] EXCEPT !.pc = "make", !.todo = Work(run[h].o)] \in Call
      BY <1>1, <2>1 DEF Call
    <2>3. ASSUME NEW p \in PortalOrder
          PROVE  [p EXCEPT !.status = "PAID", !.pi = TRUE] \in PortalOrder
      BY DEF PortalOrder
    <2>4. order' \in [Order -> PortalOrder]
      <3>1. order' = [order EXCEPT ![run[h].o] =
                        [order[run[h].o] EXCEPT !.status = "PAID", !.pi = TRUE]]
        BY <1>4, <2>1 DEF MarkPaid, TypeInv, TypeOK
      <3> QED BY <2>1, <2>3, <3>1 DEF TypeInv, TypeOK
    <2>5. run' \in [Handler -> Call] /\ CallsKnown'
      BY <1>4, <2>1, <2>2 DEF MarkPaid, TypeInv, TypeOK, CallsKnown, Call
    <2> QED BY <1>4, <2>4, <2>5 DEF MarkPaid, TypeInv, TypeOK
  <1>5. CASE MakeThing(h)
    <2>1. PICK t \in run[h].todo :
            /\ created' = [created EXCEPT ![run[h].o][h][t] = @ + 1]
            /\ run' = [run EXCEPT ![h].todo = @ \ {t}]
      BY <1>5 DEF MakeThing
    <2>2. run[h].o \in Order /\ t \in Thing
      BY <1>1, <1>5 DEF MakeThing, TypeInv, CallsKnown, Call
    <2>3. [run[h] EXCEPT !.todo = @ \ {t}] \in Call
      BY <1>1 DEF Call
    <2>4. created' \in [Order -> [Handler -> [Thing -> Nat]]]
      BY <2>1, <2>2 DEF TypeInv, TypeOK
    <2>5. run' \in [Handler -> Call] /\ CallsKnown'
      BY <2>1, <2>3 DEF TypeInv, TypeOK, CallsKnown, Call
    <2> QED BY <1>5, <2>4, <2>5 DEF MakeThing, TypeInv, TypeOK
  <1>6. CASE SkipThing(h)
    <2>1. PICK t \in run[h].todo : run' = [run EXCEPT ![h].todo = @ \ {t}]
      BY <1>6 DEF SkipThing
    <2>2. [run[h] EXCEPT !.todo = @ \ {t}] \in Call
      BY <1>1 DEF Call
    <2> QED BY <1>6, <2>1, <2>2 DEF SkipThing, TypeInv, TypeOK, CallsKnown, Call
  <1>7. CASE MarkFulfilled(h)
    <2>1. [order[run[h].o] EXCEPT !.status = "FULFILLED"] \in PortalOrder
      BY <1>7 DEF MarkFulfilled, TypeInv, TypeOK, CallsKnown, PortalOrder
    <2> QED BY <1>7, <2>1, AnswerType DEF MarkFulfilled, Done, TypeInv, TypeOK
  <1> QED
    BY <1>2, <1>3, <1>4, <1>5, <1>6, <1>7 DEF FulfillStep

LEMMA FailureType ==
    ASSUME TypeInv,
           \/ \E h \in Handler : Fail(h)
           \/ \E o \in Order : CheckoutFail(o)
           \/ Restart
    PROVE  TypeInv'
  <1>1. MayFail => failures' \in Nat
    BY DEF MayFail, TypeInv, TypeOK
  <1>2. ASSUME NEW h \in Handler, Fail(h)
        PROVE  TypeInv'
    <2>1. died' \in SUBSET Order
      BY <1>2 DEF Fail, TypeInv, TypeOK, CallsKnown
    <2> QED BY <1>1, <1>2, <2>1, EmptyRecords DEF Fail, TypeInv, TypeOK, CallsKnown, NoCall
  <1>3. ASSUME NEW o \in Order, CheckoutFail(o)
        PROVE  TypeInv'
    BY <1>1, <1>3 DEF CheckoutFail, TypeInv, TypeOK, CallsKnown
  <1>4. CASE Restart
    BY <1>1, <1>4, EmptyRecords DEF Restart, TypeInv, TypeOK, CallsKnown, NoCall
  <1> QED
    BY <1>2, <1>3, <1>4

LEMMA InitType == Init => TypeInv
  BY EmptyRecords, PortalAssumption DEF Init, TypeInv, TypeOK, CallsKnown, NoCall

LEMMA NextType == TypeInv /\ [Next]_orderVars => TypeInv'
  <1>1. ASSUME TypeInv, UNCHANGED orderVars
        PROVE  TypeInv'
    BY <1>1 DEF orderVars, TypeInv, TypeOK, CallsKnown
  <1> QED
    BY <1>1, CheckoutType, CallerType, FulfillType, FailureType DEF Next, OrderNext

\* Every reachable state is well typed.
THEOREM TypeCorrect == Spec => []TypeOK
  <1>1. TypeInv => TypeOK
    BY DEF TypeInv
  <1> QED
    BY <1>1, InitType, NextType, PTL DEF Spec

-----------------------------------------------------------------------------
(* Nothing before the money                                                 *)

\* A call past the check of its session works on a paid one.
CallsPaid ==
    \A h \in Handler :
        run[h].pc \in {"read", "mark", "make"} => stripe[run[h].o] = "paid"

\* A checkout or a payment touches no call and no row, and only raises the status
\* from none to PENDING and a session towards paid.
LEMMA CheckoutFrame ==
    ASSUME TypeInv, NEW o \in Order, NEW p \in Order,
           \/ CheckoutCreate(o) \/ CheckoutSession(o) \/ CheckoutLink(o) \/ Pay(o)
           \/ CheckoutFail(o)
    PROVE  /\ UNCHANGED <<run, created>>
           /\ \/ order'[p].status = order[p].status
              \/ order[p].status = "none" /\ order'[p].status = "PENDING"
           /\ stripe[p] = "paid" => stripe'[p] = "paid"
  <1>1. CASE CheckoutCreate(o)
    BY <1>1 DEF CheckoutCreate, TypeInv, TypeOK, NotCreated
  <1>2. CASE CheckoutSession(o)
    BY <1>2 DEF CheckoutSession, TypeInv, TypeOK
  <1>3. CASE CheckoutLink(o)
    BY <1>3 DEF CheckoutLink, TypeInv, TypeOK, PortalOrder
  <1>4. CASE Pay(o)
    BY <1>4 DEF Pay, TypeInv, TypeOK
  <1>5. CASE CheckoutFail(o)
    BY <1>5 DEF CheckoutFail
  <1> QED
    BY <1>1, <1>2, <1>3, <1>4, <1>5

\* A call starts at its first step, on a paid session if a delivery started it.
LEMMA CallerFrame ==
    ASSUME TypeInv, NEW h \in Handler, NEW o \in Order, Deliver(h, o) \/ ConfirmRead(h, o)
    PROVE  /\ UNCHANGED <<order, stripe, created>>
           /\ \A g \in Handler : g # h => run'[g] = run[g]
           /\ \/ run'[h].pc = "read" /\ run'[h].o = o /\ stripe[o] = "paid"
              \/ run'[h].pc = "retrieve" /\ run'[h].o = o
  BY DEF Deliver, ConfirmRead, TypeInv, TypeOK, NoCall

\* A failure or a restart ends calls and touches nothing a call has written.
LEMMA FailureFrame ==
    ASSUME TypeInv, NEW g \in Handler, (\E h \in Handler : Fail(h)) \/ Restart
    PROVE  /\ UNCHANGED <<order, stripe, created>>
           /\ run'[g] = run[g] \/ run'[g] = NoCall
  BY DEF Fail, Restart, TypeInv, TypeOK

\* A step of a call leaves the others alone and never touches Stripe's session.
LEMMA FulfillFrame ==
    ASSUME TypeInv, NEW h \in Handler, FulfillStep(h)
    PROVE  /\ stripe' = stripe
           /\ \A g \in Handler : g # h => run'[g] = run[g]
           /\ run'[h] = NoCall \/ run'[h].o = run[h].o
  <1>1. CASE Answer(h)
    BY <1>1 DEF FulfillStep, ConfirmRetrieve, FulfillRead, MarkPaid, MakeThing, SkipThing,
                MarkFulfilled, Answer, TypeInv, TypeOK
  <1>2. CASE ~Answer(h)
    <2>1. CASE ConfirmRetrieve(h)
      BY <1>2, <2>1 DEF ConfirmRetrieve, TypeInv, TypeOK, Call
    <2>2. CASE FulfillRead(h)
      BY <1>2, <2>2 DEF FulfillRead, TypeInv, TypeOK, Call
    <2>3. CASE MarkPaid(h)
      BY <2>3 DEF MarkPaid, TypeInv, TypeOK, Call
    <2>4. CASE MakeThing(h)
      BY <2>4 DEF MakeThing, TypeInv, TypeOK, Call
    <2>5. CASE SkipThing(h)
      BY <2>5 DEF SkipThing, TypeInv, TypeOK, Call
    <2>6. CASE MarkFulfilled(h)
      BY <1>2, <2>6 DEF MarkFulfilled
    <2> QED BY <2>1, <2>2, <2>3, <2>4, <2>5, <2>6 DEF FulfillStep
  <1> QED
    BY <1>1, <1>2

\* Where a call goes, and what it found to go there.
LEMMA FulfillPc ==
    ASSUME TypeInv, NEW h \in Handler, FulfillStep(h)
    PROVE  \/ run'[h] = NoCall
           \/ /\ run[h].pc = "retrieve" /\ run'[h].pc = "read"
              /\ SessionPaid(run[h].o) /\ UNCHANGED <<order, created>>
           \/ /\ run[h].pc = "read" /\ run'[h].pc = "mark"
              /\ ~Settled(run[h].o) /\ UNCHANGED <<order, created>>
           \/ /\ run[h].pc = "mark" /\ run'[h].pc = "make"
              /\ run'[h].todo = ThingsOf[run[h].o] /\ UNCHANGED created
           \/ run[h].pc = "make" /\ run'[h].pc = "make"
  <1>1. CASE ConfirmRetrieve(h)
    BY <1>1 DEF ConfirmRetrieve, Answer, TypeInv, TypeOK, Call
  <1>2. CASE FulfillRead(h)
    BY <1>2 DEF FulfillRead, Answer, TypeInv, TypeOK, Call
  <1>3. CASE MarkPaid(h)
    BY <1>3 DEF MarkPaid, Work, TypeInv, TypeOK, Call
  <1>4. CASE MakeThing(h)
    BY <1>4 DEF MakeThing, TypeInv, TypeOK, Call
  <1>5. CASE SkipThing(h)
    BY <1>5 DEF SkipThing, TypeInv, TypeOK, Call
  <1>6. CASE MarkFulfilled(h)
    BY <1>6 DEF MarkFulfilled, Answer, TypeInv, TypeOK
  <1> QED
    BY <1>1, <1>2, <1>3, <1>4, <1>5, <1>6 DEF FulfillStep

\* Only a call at the mark or past it writes its order's status or creates rows,
\* and only its own.
LEMMA FulfillWrites ==
    ASSUME TypeInv, NEW h \in Handler, FulfillStep(h), NEW o \in Order
    PROVE  /\ \/ order'[o].status = order[o].status
              \/ /\ o = run[h].o /\ run[h].pc = "mark" /\ order'[o].status = "PAID"
              \/ /\ o = run[h].o /\ run[h].pc = "make" /\ order'[o].status = "FULFILLED"
                 /\ run[h].todo = {} /\ UNCHANGED created
           /\ \A g \in Handler, t \in Thing :
                 \/ created'[o][g][t] = created[o][g][t]
                 \/ /\ o = run[h].o /\ g = h /\ run[h].pc = "make" /\ t \in run[h].todo
                    /\ created'[o][g][t] = created[o][g][t] + 1
                    /\ t \notin run'[h].todo
  <1>1. CASE ConfirmRetrieve(h) \/ FulfillRead(h) \/ SkipThing(h)
    BY <1>1 DEF ConfirmRetrieve, FulfillRead, SkipThing
  <1>2. CASE MarkPaid(h)
    BY <1>2 DEF MarkPaid, TypeInv, TypeOK, PortalOrder
  <1>3. CASE MarkFulfilled(h)
    BY <1>3 DEF MarkFulfilled, Done, TypeInv, TypeOK, PortalOrder
  <1>4. CASE MakeThing(h)
    <2>1. PICK t \in run[h].todo :
            /\ created' = [created EXCEPT ![run[h].o][h][t] = @ + 1]
            /\ run' = [run EXCEPT ![h].todo = @ \ {t}]
      BY <1>4 DEF MakeThing
    <2>2. run[h].o \in Order /\ t \in Thing /\ run[h] \in Call
      BY <1>4 DEF MakeThing, TypeInv, TypeOK, CallsKnown, Call
    <2>3. t \notin run'[h].todo
      BY <2>1, <2>2 DEF TypeInv, TypeOK, Call
    <2>4. \A g \in Handler, u \in Thing :
             created'[o][g][u] = IF o = run[h].o /\ g = h /\ u = t
                                 THEN created[o][g][u] + 1 ELSE created[o][g][u]
      BY <2>1, <2>2 DEF TypeInv, TypeOK
    <2> QED BY <1>4, <2>3, <2>4 DEF MakeThing
  <1> QED
    BY <1>1, <1>2, <1>3, <1>4 DEF FulfillStep

LEMMA PaidStep ==
    TypeInv /\ CallsPaid /\ NothingUnpaid /\ [Next]_orderVars => CallsPaid' /\ NothingUnpaid'
  <1> SUFFICES ASSUME TypeInv, CallsPaid, NothingUnpaid, [Next]_orderVars
               PROVE  CallsPaid' /\ NothingUnpaid'
    OBVIOUS
  <1>1. ASSUME NEW o \in Order,
               \/ CheckoutCreate(o) \/ CheckoutSession(o) \/ CheckoutLink(o) \/ Pay(o)
               \/ CheckoutFail(o)
        PROVE  CallsPaid' /\ NothingUnpaid'
    <2>1. CallsPaid'
      BY <1>1, CheckoutFrame DEF CallsPaid, TypeInv, CallsKnown
    <2>2. NothingUnpaid'
      BY <1>1, CheckoutFrame DEF NothingUnpaid, Settled
    <2> QED BY <2>1, <2>2
  <1>2. ASSUME NEW h \in Handler, NEW o \in Order, Deliver(h, o) \/ ConfirmRead(h, o)
        PROVE  CallsPaid' /\ NothingUnpaid'
    <2>1. CallsPaid'
      BY <1>2, CallerFrame DEF CallsPaid
    <2>2. NothingUnpaid'
      BY <1>2, CallerFrame DEF NothingUnpaid, Settled
    <2> QED BY <2>1, <2>2
  <1>3. ASSUME NEW h \in Handler, FulfillStep(h)
        PROVE  CallsPaid' /\ NothingUnpaid'
    <2>1. stripe' = stripe
      BY <1>3, FulfillFrame
    <2>2. ASSUME NEW g \in Handler, run'[g].pc \in {"read", "mark", "make"}
          PROVE  stripe'[run'[g].o] = "paid"
      <3>1. CASE g # h
        BY <1>3, <2>1, <2>2, <3>1, FulfillFrame DEF CallsPaid
      <3>2. CASE g = h
        <4>1. run'[h] # NoCall
          BY <2>2, <3>2 DEF NoCall
        <4>2. run'[h].o = run[h].o
          BY <1>3, <4>1, FulfillFrame
        <4>3. stripe[run[h].o] = "paid"
          BY <1>3, <4>1, FulfillPc DEF CallsPaid, SessionPaid
        <4> QED BY <2>1, <3>2, <4>2, <4>3
      <3> QED BY <3>1, <3>2
    <2>3. ASSUME NEW o \in Order, stripe[o] # "paid"
          PROVE  ~Settled(o)' /\ \A g \in Handler, t \in Thing : created'[o][g][t] = 0
      <3>1. ~Settled(o) /\ \A g \in Handler, t \in Thing : created[o][g][t] = 0
        BY <2>3 DEF NothingUnpaid, TypeInv, TypeOK
      <3>2. ~(o = run[h].o /\ run[h].pc \in {"mark", "make"})
        BY <2>3 DEF CallsPaid
      <3> QED BY <1>3, <3>1, <3>2, FulfillWrites DEF Settled
    <2> QED BY <2>1, <2>2, <2>3 DEF CallsPaid, NothingUnpaid
  <1>4. CASE (\E h \in Handler : Fail(h)) \/ Restart
    <2>1. CallsPaid'
      BY <1>4, FailureFrame DEF CallsPaid, NoCall
    <2>2. NothingUnpaid'
      BY <1>4 DEF Fail, Restart, NothingUnpaid, Settled
    <2> QED BY <2>1, <2>2
  <1>5. CASE UNCHANGED orderVars
    BY <1>5 DEF orderVars, CallsPaid, NothingUnpaid, Settled
  <1> QED
    BY <1>1, <1>2, <1>3, <1>4, <1>5 DEF Next, OrderNext

\* No call, on either path and in any interleaving, settles an order or creates one
\* of its rows before Stripe has the money.
THEOREM NothingBeforePayment == Spec => []NothingUnpaid
  <1>1. Init => CallsPaid /\ NothingUnpaid
    BY DEF Init, CallsPaid, NothingUnpaid, Settled, NotCreated, NoCall
  <1> QED
    BY <1>1, InitType, NextType, PaidStep, PTL DEF Spec

-----------------------------------------------------------------------------
(* Once per call                                                            *)

\* An order that is not settled has no rows yet.
UnsettledFresh ==
    \A o \in Order : ~Settled(o) => \A h \in Handler, t \in Thing : created[o][h][t] = 0

\* A call about to mark its order has created none of its rows.
MarkFresh ==
    \A h \in Handler : run[h].pc = "mark" => \A t \in Thing : created[run[h].o][h][t] = 0

\* A call creating rows has settled its order and not yet created what is left.
TodoFresh ==
    \A h \in Handler : run[h].pc = "make" =>
        Settled(run[h].o) /\ \A t \in run[h].todo : created[run[h].o][h][t] = 0

\* The order is settled after the step.
SettledNext(o) == order'[o].status \in {"PAID", "FULFILLED"}

OnceInv == UnsettledFresh /\ MarkFresh /\ TodoFresh /\ EachCallOnce

\* OnceInv speaks of the calls, of who is settled and of the rows.
LEMMA OnceFrame ==
    ASSUME TypeInv, OnceInv, UNCHANGED created,
           \A o \in Order : Settled(o)' = Settled(o),
           \A h \in Handler : \/ run'[h] = run[h]
                              \/ run'[h].pc \in {"idle", "retrieve", "read"}
    PROVE  OnceInv'
  <1>1. UnsettledFresh' /\ EachCallOnce'
    BY DEF OnceInv, UnsettledFresh, EachCallOnce
  <1>2. MarkFresh'
    BY DEF OnceInv, MarkFresh
  <1>3. TodoFresh'
    BY DEF OnceInv, TodoFresh, TypeInv, CallsKnown
  <1> QED
    BY <1>1, <1>2, <1>3 DEF OnceInv

\* A call creating rows works its list down.
LEMMA TodoShrinks ==
    ASSUME TypeInv, NEW h \in Handler, FulfillStep(h), run[h].pc = "make", run'[h] # NoCall
    PROVE  run'[h].todo \subseteq run[h].todo
  <1>1. run[h] \in Call
    BY DEF TypeInv, TypeOK
  <1>2. CASE MakeThing(h) \/ SkipThing(h)
    BY <1>1, <1>2 DEF MakeThing, SkipThing, TypeInv, TypeOK, Call
  <1>3. CASE MarkFulfilled(h)
    BY <1>3 DEF MarkFulfilled, Answer, TypeInv, TypeOK
  <1> QED
    BY <1>2, <1>3 DEF FulfillStep, ConfirmRetrieve, FulfillRead, MarkPaid

\* A call that creates rows after a step did before it, or has just marked its order.
LEMMA MarksFirst ==
    ASSUME TypeInv, NEW h \in Handler, FulfillStep(h), run'[h].pc = "make", run'[h] # NoCall
    PROVE  MarkPaid(h) \/ run[h].pc = "make"
  <1>1. CASE ConfirmRetrieve(h) \/ FulfillRead(h)
    BY <1>1 DEF ConfirmRetrieve, FulfillRead, Answer, TypeInv, TypeOK, Call
  <1> QED
    BY <1>1 DEF FulfillStep, MakeThing, SkipThing, MarkFulfilled

LEMMA OnceStep ==
    TypeInv /\ OnceInv /\ [Next]_orderVars => OnceInv'
  <1> SUFFICES ASSUME TypeInv, OnceInv, [Next]_orderVars PROVE OnceInv'
    OBVIOUS
  <1>1. ASSUME NEW o \in Order,
               \/ CheckoutCreate(o) \/ CheckoutSession(o) \/ CheckoutLink(o) \/ Pay(o)
               \/ CheckoutFail(o)
        PROVE  OnceInv'
    <2>1. \A p \in Order : Settled(p)' = Settled(p)
      BY <1>1, CheckoutFrame DEF Settled
    <2> QED BY <1>1, <2>1, CheckoutFrame, OnceFrame
  <1>2. ASSUME NEW h \in Handler, NEW o \in Order, Deliver(h, o) \/ ConfirmRead(h, o)
        PROVE  OnceInv'
    <2>1. \A p \in Order : Settled(p)' = Settled(p)
      BY <1>2, CallerFrame DEF Settled
    <2> QED BY <1>2, <2>1, CallerFrame, OnceFrame
  <1>3. ASSUME NEW h \in Handler, FulfillStep(h)
        PROVE  OnceInv'
    <2>1. \A o \in Order : Settled(o) => Settled(o)'
      BY <1>3, FulfillWrites DEF Settled
    <2>2. UnsettledFresh'
      <3>1. ASSUME NEW o \in Order, ~Settled(o)', NEW g \in Handler, NEW t \in Thing
            PROVE  created'[o][g][t] = 0
        <4>1. ~Settled(o) /\ created[o][g][t] = 0
          BY <2>1, <3>1 DEF OnceInv, UnsettledFresh
        <4>2. ~(o = run[h].o /\ run[h].pc = "make")
          BY <4>1 DEF OnceInv, TodoFresh
        <4> QED BY <1>3, <4>1, <4>2, FulfillWrites
      <3> QED BY <3>1 DEF UnsettledFresh
    <2>3. MarkFresh'
      <3>1. ASSUME NEW g \in Handler, run'[g].pc = "mark", NEW t \in Thing
            PROVE  created'[run'[g].o][g][t] = 0
        <4>1. CASE g # h
          <5>1. run'[g] = run[g] /\ run[g].o \in Order
            BY <1>3, <3>1, <4>1, FulfillFrame DEF TypeInv, CallsKnown
          <5>2. created[run[g].o][g][t] = 0
            BY <3>1, <5>1 DEF OnceInv, MarkFresh
          <5> QED BY <1>3, <4>1, <5>1, <5>2, FulfillWrites
        <4>2. CASE g = h
          <5>1. run'[h] # NoCall
            BY <3>1, <4>2 DEF NoCall
          <5>2. run[h].pc = "read" /\ ~Settled(run[h].o) /\ UNCHANGED created
            BY <1>3, <3>1, <4>2, <5>1, FulfillPc
          <5>3. run'[h].o = run[h].o /\ run[h].o \in Order
            BY <1>3, <5>1, <5>2, FulfillFrame DEF TypeInv, CallsKnown
          <5> QED BY <4>2, <5>2, <5>3 DEF OnceInv, UnsettledFresh
        <4> QED BY <4>1, <4>2
      <3> QED BY <3>1 DEF MarkFresh
    <2>4. TodoFresh'
      <3>1. ASSUME NEW g \in Handler, run'[g].pc = "make"
            PROVE  /\ SettledNext(run'[g].o)
                   /\ \A t \in run'[g].todo : created'[run'[g].o][g][t] = 0
        <4>1. CASE g # h
          <5>1. run'[g] = run[g] /\ run[g].o \in Order /\ run[g].todo \in SUBSET Thing
            BY <1>3, <3>1, <4>1, FulfillFrame DEF TypeInv, TypeOK, CallsKnown, Call
          <5>2. Settled(run[g].o) /\ \A t \in run[g].todo : created[run[g].o][g][t] = 0
            BY <3>1, <5>1 DEF OnceInv, TodoFresh
          <5>3. SettledNext(run[g].o)
            BY <2>1, <5>1, <5>2 DEF Settled, SettledNext
          <5>4. \A t \in run[g].todo : created'[run[g].o][g][t] = 0
            BY <1>3, <4>1, <5>1, <5>2, FulfillWrites
          <5>5. SettledNext(run'[g].o)
            BY <5>1, <5>3
          <5> QED BY <5>1, <5>4, <5>5
        <4>2. CASE g = h
          <5>1. run'[h] # NoCall
            BY <3>1, <4>2 DEF NoCall
          <5>2. run'[h].o = run[h].o
            BY <1>3, <5>1, FulfillFrame
          <5>3. CASE MarkPaid(h)
            <6>1. run[h].o \in Order
              BY <5>3 DEF MarkPaid, TypeInv, CallsKnown
            <6>2. order'[run[h].o].status = "PAID" /\ UNCHANGED created
              BY <5>3, <6>1 DEF MarkPaid, TypeInv, TypeOK, PortalOrder
            <6>3. run'[h].todo \in SUBSET Thing
              BY <1>3, NextType DEF Next, OrderNext, TypeInv, TypeOK, Call
            <6>4. \A t \in Thing : created[run[h].o][h][t] = 0
              BY <5>3 DEF MarkPaid, OnceInv, MarkFresh
            <6> QED BY <4>2, <5>2, <6>2, <6>3, <6>4 DEF SettledNext
          <5>4. CASE run[h].pc = "make"
            <6>1. run[h].o \in Order /\ run[h].todo \in SUBSET Thing
              BY <5>4 DEF TypeInv, TypeOK, CallsKnown, Call
            <6>2. run'[h].todo \subseteq run[h].todo
              BY <1>3, <5>1, <5>4, TodoShrinks
            <6>3. Settled(run[h].o) /\ \A t \in run[h].todo : created[run[h].o][h][t] = 0
              BY <5>4 DEF OnceInv, TodoFresh
            <6>4. SettledNext(run[h].o)
              BY <2>1, <6>1, <6>3 DEF Settled, SettledNext
            <6>5. \A t \in run'[h].todo : created'[run[h].o][h][t] = 0
              BY <1>3, <6>1, <6>2, <6>3, FulfillWrites
            <6>6. SettledNext(run'[h].o)
              BY <5>2, <6>4
            <6> QED BY <4>2, <5>2, <6>5, <6>6
          <5> QED
            BY <1>3, <3>1, <4>2, <5>1, <5>3, <5>4, MarksFirst
        <4> QED BY <4>1, <4>2
      <3> QED BY <3>1 DEF TodoFresh, Settled, SettledNext
    <2>5. EachCallOnce'
      <3>1. ASSUME NEW o \in Order, NEW g \in Handler, NEW t \in Thing
            PROVE  created'[o][g][t] <= 1
        <4>1. created[o][g][t] \in Nat /\ created[o][g][t] <= 1
          BY DEF OnceInv, EachCallOnce, TypeInv, TypeOK
        <4>2. CASE created'[o][g][t] = created[o][g][t]
          BY <4>1, <4>2
        <4>3. CASE created'[o][g][t] # created[o][g][t]
          <5>1. /\ o = run[h].o /\ g = h /\ run[h].pc = "make" /\ t \in run[h].todo
                /\ created'[o][g][t] = created[o][g][t] + 1
            BY <1>3, <4>3, FulfillWrites
          <5>2. created[o][g][t] = 0
            BY <5>1 DEF OnceInv, TodoFresh
          <5> QED BY <5>1, <5>2
        <4> QED BY <4>2, <4>3
      <3> QED BY <3>1 DEF EachCallOnce
    <2> QED BY <2>2, <2>3, <2>4, <2>5 DEF OnceInv
  <1>4. CASE (\E h \in Handler : Fail(h)) \/ Restart
    <2>1. UNCHANGED <<order, created>>
      BY <1>4 DEF Fail, Restart
    <2>2. \A g \in Handler : run'[g] = run[g] \/ run'[g].pc = "idle"
      BY <1>4, FailureFrame DEF NoCall
    <2> QED BY <2>1, <2>2, OnceFrame DEF Settled
  <1>5. CASE UNCHANGED orderVars
    BY <1>5, OnceFrame DEF orderVars, Settled
  <1> QED
    BY <1>1, <1>2, <1>3, <1>4, <1>5 DEF Next, OrderNext

\* Whatever is delivered twice, retried or restarted, a call slot creates each row
\* of an order at most once: with one call at a time an order is credited once.
THEOREM CallsCreateOnce == Spec => []EachCallOnce
  <1>1. Init => OnceInv
    BY DEF Init, OnceInv, UnsettledFresh, MarkFresh, TodoFresh, EachCallOnce, NoCall
  <1>2. OnceInv => EachCallOnce
    BY DEF OnceInv
  <1> QED
    BY <1>1, <1>2, InitType, NextType, OnceStep, PTL DEF Spec

-----------------------------------------------------------------------------
(* Credited before fulfilled                                                *)

\* A call on a deposit has created what is no longer on its list.
DepositMade ==
    \A h \in Handler :
        (run[h].pc = "make" /\ TypeOf[run[h].o] = "DEPOSIT")
            => \A t \in ThingsOf[run[h].o] :
                  t \in run[h].todo \/ created[run[h].o][h][t] > 0

\* Rows are never taken back.
LEMMA RowsStay ==
    ASSUME TypeInv, [Next]_orderVars, NEW o \in Order, NEW h \in Handler, NEW t \in Thing,
           created[o][h][t] > 0
    PROVE  created'[o][h][t] > 0
  <1>1. created[o][h][t] \in Nat
    BY DEF TypeInv, TypeOK
  <1>2. ASSUME NEW g \in Handler, FulfillStep(g)
        PROVE  created'[o][h][t] > 0
    BY <1>1, <1>2, FulfillWrites
  <1>3. CASE UNCHANGED created
    BY <1>3
  <1> QED
    BY <1>2, <1>3, CheckoutFrame, CallerFrame, FailureFrame DEF Next, OrderNext, orderVars

\* What leaves the list of a deposit has become a row.
LEMMA DepositMakes ==
    ASSUME TypeInv, NEW h \in Handler, FulfillStep(h), run[h].pc = "make",
           run'[h] # NoCall, TypeOf[run[h].o] = "DEPOSIT",
           NEW t \in run[h].todo, t \notin run'[h].todo
    PROVE  created'[run[h].o][h][t] > 0
  <1>1. run[h] \in Call /\ run[h].o \in Order /\ t \in Thing
    BY DEF TypeInv, TypeOK, CallsKnown, Call
  <1>2. CASE MakeThing(h)
    <2>1. PICK u \in run[h].todo :
            /\ created' = [created EXCEPT ![run[h].o][h][u] = @ + 1]
            /\ run' = [run EXCEPT ![h].todo = @ \ {u}]
      BY <1>2 DEF MakeThing
    <2>2. run'[h].todo = run[h].todo \ {u}
      BY <1>1, <2>1 DEF TypeInv, TypeOK, Call
    <2>3. u = t
      BY <2>2
    <2>4. created[run[h].o][h][t] \in Nat
      BY <1>1 DEF TypeInv, TypeOK
    <2>5. created'[run[h].o][h][t] = created[run[h].o][h][t] + 1
      BY <1>1, <2>1, <2>3 DEF TypeInv, TypeOK
    <2> QED BY <2>4, <2>5
  <1>3. CASE MarkFulfilled(h)
    BY <1>3 DEF MarkFulfilled, Answer, TypeInv, TypeOK
  <1> QED
    BY <1>2, <1>3 DEF FulfillStep, ConfirmRetrieve, FulfillRead, MarkPaid, SkipThing

LEMMA DepositStep ==
    TypeInv /\ DepositMade /\ [Next]_orderVars => DepositMade'
  <1> SUFFICES ASSUME TypeInv, DepositMade, [Next]_orderVars, NEW h \in Handler,
                      run'[h].pc = "make", TypeOf[run'[h].o] = "DEPOSIT",
                      NEW t \in ThingsOf[run'[h].o], t \notin run'[h].todo
               PROVE  created'[run'[h].o][h][t] > 0
    BY DEF DepositMade
  <1>1. run'[h] # NoCall
    BY DEF NoCall
  <1>2. CASE run'[h] = run[h]
    <2>1. run[h].o \in Order /\ t \in Thing
      BY <1>2, PortalAssumption DEF TypeInv, CallsKnown
    <2>2. created[run[h].o][h][t] > 0
      BY <1>2 DEF DepositMade
    <2> QED BY <1>2, <2>1, <2>2, RowsStay
  <1>3. CASE FulfillStep(h)
    <2>1. run'[h].o = run[h].o
      BY <1>1, <1>3, FulfillFrame
    <2>2. run[h].pc = "make"
      <3>1. CASE run[h].pc = "mark"
        BY <1>1, <1>3, <2>1, <3>1, FulfillPc
      <3> QED BY <1>1, <1>3, <3>1, FulfillPc
    <2>3. run[h].o \in Order /\ t \in Thing
      BY <2>1, <2>2, PortalAssumption DEF TypeInv, CallsKnown
    <2>4. CASE t \in run[h].todo
      BY <1>1, <1>3, <2>1, <2>2, <2>4, DepositMakes
    <2>5. CASE t \notin run[h].todo
      <3>1. created[run[h].o][h][t] > 0
        BY <2>1, <2>2, <2>5 DEF DepositMade
      <3> QED BY <2>1, <2>3, <3>1, RowsStay
    <2> QED BY <2>4, <2>5
  <1>4. ASSUME NEW g \in Handler, NEW o \in Order, Deliver(g, o) \/ ConfirmRead(g, o)
        PROVE  run'[h] = run[h]
    BY <1>4, CallerFrame
  <1>5. ASSUME NEW g \in Handler, FulfillStep(g), g # h
        PROVE  run'[h] = run[h]
    BY <1>5, FulfillFrame
  <1>6. CASE (\E g \in Handler : Fail(g)) \/ Restart
    BY <1>1, <1>2, <1>6, FailureFrame
  <1> QED
    BY <1>2, <1>3, <1>4, <1>5, <1>6, CheckoutFrame DEF Next, OrderNext, orderVars

LEMMA CreditStep ==
    TypeInv /\ DepositMade /\ FulfilledIsCredited /\ [Next]_orderVars => FulfilledIsCredited'
  <1> SUFFICES ASSUME TypeInv, DepositMade, FulfilledIsCredited, [Next]_orderVars,
                      NEW o \in Order, TypeOf[o] = "DEPOSIT",
                      order'[o].status = "FULFILLED", NEW t \in ThingsOf[o]
               PROVE  \E h \in Handler : created'[o][h][t] > 0
    BY DEF FulfilledIsCredited
  <1>1. t \in Thing
    BY PortalAssumption
  <1>2. CASE order[o].status = "FULFILLED"
    <2>1. PICK h \in Handler : created[o][h][t] > 0
      BY <1>2 DEF FulfilledIsCredited
    <2> QED BY <1>1, <2>1, RowsStay
  <1>3. ASSUME NEW h \in Handler, FulfillStep(h), order[o].status # "FULFILLED"
        PROVE  created'[o][h][t] > 0
    <2>1. o = run[h].o /\ run[h].pc = "make" /\ run[h].todo = {} /\ UNCHANGED created
      BY <1>3, FulfillWrites
    <2> QED BY <2>1 DEF DepositMade
  <1>4. CASE ~\E h \in Handler : FulfillStep(h)
    <2>1. order'[o].status = order[o].status \/ order'[o].status = "PENDING"
      BY <1>4, CheckoutFrame, CallerFrame, FailureFrame
         DEF Next, OrderNext, orderVars, Fail, Restart
    <2> QED BY <1>2, <2>1
  <1> QED
    BY <1>2, <1>3, <1>4

\* A deposit shown as FULFILLED is in the ledger, in every interleaving of the
\* webhook, the success page, failures and restarts.
THEOREM DepositsAreCredited == Spec => []FulfilledIsCredited
  <1>1. Init => DepositMade /\ FulfilledIsCredited
    BY DEF Init, DepositMade, FulfilledIsCredited, NoCall, NotCreated
  <1> QED
    BY <1>1, InitType, NextType, DepositStep, CreditStep, PTL DEF Spec
=============================================================================
