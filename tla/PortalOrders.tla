---------------------------- MODULE PortalOrders ----------------------------
(***************************************************************************)
(* Orders a buyer pays from the customer portal, from the checkout to what *)
(* the payment buys: the ledger entry of a deposit, the inspections of a   *)
(* cart, the wanted vehicles of a search. Two paths fulfil an order, the   *)
(* Stripe webhook and the success page that confirms the session, both     *)
(* through fulfillPortalOrder (apps/api/src/portal/portal.service.ts).     *)
(*                                                                         *)
(* Stripe is external: a session is open, then paid; it delivers the event *)
(* of a paid session until one delivery answers 200, and may deliver it    *)
(* more than once. Every await of the code is a step.                      *)
(***************************************************************************)
EXTENDS Naturals, FiniteSets

CONSTANTS
    Order,       \* orders of one buyer
    Handler,     \* calls of fulfillPortalOrder the API can be serving at once
    Thing,       \* rows a paid order has to create
    NoOrder,
    TypeOf,      \* PortalOrder.type
    ThingsOf,    \* the ledger entry, the lots of the cart, the preferences
    MaxFailures  \* bound on failed calls and restarts

ASSUME PortalAssumption ==
    /\ NoOrder \notin Order
    /\ IsFiniteSet(Order)
    /\ TypeOf \in [Order -> {"INSPECTION", "DEPOSIT", "SERVICE"}]
    /\ ThingsOf \in [Order -> SUBSET Thing]
    /\ MaxFailures \in Nat

VARIABLES
    order,     \* portal_orders
    checkout,  \* orders whose checkout request is being served
    stripe,    \* the Stripe session of each order
    due,       \* paid sessions whose event no delivery has acknowledged
    run,       \* calls being served
    created,   \* rows created for an order, by the call that created them
    died,      \* orders a call left between PAID and FULFILLED
    failures   \* failures left

orderVars == <<order, checkout, stripe, due, run, created, died, failures>>

-----------------------------------------------------------------------------
(* Records                                                                  *)

PortalOrder == [status    : {"none", "PENDING", "PAID", "FULFILLED"},
                linked    : BOOLEAN,   \* has its stripeCheckoutSessionId
                pi        : BOOLEAN,   \* has its stripePaymentIntentId
                createdAt : Nat]

NotCreated == [status |-> "none", linked |-> FALSE, pi |-> FALSE, createdAt |-> 0]

Call == [pc   : {"idle", "retrieve", "read", "mark", "make"},
         o    : Order \cup {NoOrder},
         via  : {"webhook", "confirm"},
         todo : SUBSET Thing]

NoCall == [pc |-> "idle", o |-> NoOrder, via |-> "confirm", todo |-> {}]

TypeOK ==
    /\ order \in [Order -> PortalOrder]
    /\ checkout \in SUBSET Order
    /\ stripe \in [Order -> {"none", "open", "paid"}]
    /\ due \in SUBSET Order
    /\ run \in [Handler -> Call]
    /\ created \in [Order -> [Handler -> [Thing -> Nat]]]
    /\ died \in SUBSET Order
    /\ failures \in Nat

Init ==
    /\ order = [o \in Order |-> NotCreated]
    /\ checkout = {} /\ due = {} /\ died = {}
    /\ stripe = [o \in Order |-> "none"]
    /\ run = [h \in Handler |-> NoCall]
    /\ created = [o \in Order |-> [h \in Handler |-> [t \in Thing |-> 0]]]
    /\ failures = MaxFailures

-----------------------------------------------------------------------------
(* createDeposit, checkoutInspections, checkoutFindACar                     *)

Existing == {o \in Order : order[o].status # "none"}

\* The order first, so that the session can carry its id.
CheckoutCreate(o) ==
    /\ order[o].status = "none"
    /\ order' = [order EXCEPT ![o] = [NotCreated EXCEPT
                    !.status = "PENDING", !.createdAt = Cardinality(Existing)]]
    /\ checkout' = checkout \cup {o}
    /\ UNCHANGED <<stripe, due, run, created, died, failures>>

CheckoutSession(o) ==
    /\ o \in checkout /\ stripe[o] = "none"
    /\ stripe' = [stripe EXCEPT ![o] = "open"]
    /\ UNCHANGED <<order, checkout, due, run, created, died, failures>>

\* The session id on the order; only then does the buyer get the URL.
CheckoutLink(o) ==
    /\ o \in checkout /\ stripe[o] = "open"
    /\ order' = [order EXCEPT ![o].linked = TRUE]
    /\ checkout' = checkout \ {o}
    /\ UNCHANGED <<stripe, due, run, created, died, failures>>

\* The buyer pays; Stripe has an event to deliver.
Pay(o) ==
    /\ stripe[o] = "open" /\ order[o].linked
    /\ stripe' = [stripe EXCEPT ![o] = "paid"]
    /\ due' = due \cup {o}
    /\ UNCHANGED <<order, checkout, run, created, died, failures>>

-----------------------------------------------------------------------------
(* fulfillPortalOrder and its two callers                                   *)

\* The call answers; a delivery is acknowledged by its answer.
Answer(h) ==
    /\ run' = [run EXCEPT ![h] = NoCall]
    /\ due' = IF run[h].via = "webhook" THEN due \ {run[h].o} ELSE due

\* POST /stripe/webhooks, checkout.session.completed: the first delivery, a
\* retry, or a duplicate.
Deliver(h, o) ==
    /\ run[h].pc = "idle" /\ stripe[o] = "paid"
    /\ run' = [run EXCEPT ![h] = [NoCall EXCEPT
                  !.pc = "read", !.o = o, !.via = "webhook"]]
    /\ UNCHANGED <<order, checkout, stripe, due, created, died, failures>>

\* GET /portal/orders/by-session: a pending order asks Stripe.
ConfirmRead(h, o) ==
    /\ run[h].pc = "idle"
    /\ order[o].linked /\ order[o].status = "PENDING"
    /\ run' = [run EXCEPT ![h] = [NoCall EXCEPT !.pc = "retrieve", !.o = o]]
    /\ UNCHANGED <<order, checkout, stripe, due, created, died, failures>>

\* Mutant: any session will do.
SessionPaidAlways(o) == stripe[o] # "none"

SessionPaid(o) == stripe[o] = "paid"

\* The session is paid and the call goes on; or it is not, or Stripe failed.
ConfirmRetrieve(h) ==
    /\ run[h].pc = "retrieve"
    /\ \/ /\ SessionPaid(run[h].o)
          /\ run' = [run EXCEPT ![h].pc = "read"]
          /\ UNCHANGED due
       \/ Answer(h)
    /\ UNCHANGED <<order, checkout, stripe, created, died, failures>>

\* Mutant: an order already PAID is fulfilled again.
SettledFulfilled(o) == order[o].status = "FULFILLED"

\* The idempotency guard.
Settled(o) == order[o].status \in {"PAID", "FULFILLED"}

FulfillRead(h) ==
    /\ run[h].pc = "read"
    /\ IF Settled(run[h].o)
       THEN Answer(h)
       ELSE run' = [run EXCEPT ![h].pc = "mark"] /\ UNCHANGED due
    /\ UNCHANGED <<order, checkout, stripe, created, died, failures>>

\* Mutant: the dispatch forgets DEPOSIT.
WorkNoDeposit(o) == IF TypeOf[o] = "DEPOSIT" THEN {} ELSE ThingsOf[o]

\* fulfillInspectionOrder, fulfillDepositOrder, fulfillFindACarOrder
Work(o) == ThingsOf[o]

\* Mark PAID first, whatever the status is by now.
MarkPaid(h) ==
    /\ run[h].pc = "mark"
    /\ order' = [order EXCEPT ![run[h].o].status = "PAID", ![run[h].o].pi = TRUE]
    /\ run' = [run EXCEPT ![h].pc = "make", ![h].todo = Work(run[h].o)]
    /\ UNCHANGED <<checkout, stripe, due, created, died, failures>>

\* One row: the ledger entry, an inspection or a preference.
MakeThing(h) ==
    \E t \in run[h].todo :
        /\ run[h].pc = "make"
        /\ created' = [created EXCEPT ![run[h].o][h][t] = @ + 1]
        /\ run' = [run EXCEPT ![h].todo = @ \ {t}]
        /\ UNCHANGED <<order, checkout, stripe, due, died, failures>>

\* An inspection or a preference that cannot be created is logged and left out.
SkipThing(h) ==
    \E t \in run[h].todo :
        /\ run[h].pc = "make" /\ TypeOf[run[h].o] # "DEPOSIT"
        /\ run' = [run EXCEPT ![h].todo = @ \ {t}]
        /\ UNCHANGED <<order, checkout, stripe, due, created, died, failures>>

\* Mutant: a deposit is credited and never marked.
DoneUnlessDeposit(o) == IF TypeOf[o] = "DEPOSIT" THEN "PAID" ELSE "FULFILLED"

\* The status every fulfilment ends with.
Done(o) == "FULFILLED"

MarkFulfilled(h) ==
    /\ run[h].pc = "make" /\ run[h].todo = {}
    /\ order' = [order EXCEPT ![run[h].o].status = Done(run[h].o)]
    /\ Answer(h)
    /\ UNCHANGED <<checkout, stripe, created, died, failures>>

FulfillStep(h) ==
    \/ ConfirmRetrieve(h) \/ FulfillRead(h) \/ MarkPaid(h)
    \/ MakeThing(h) \/ SkipThing(h) \/ MarkFulfilled(h)

-----------------------------------------------------------------------------
(* Failures                                                                 *)

MayFail == failures > 0 /\ failures' = failures - 1

\* An await of the call throws: the webhook answers 500 and Stripe will deliver
\* again; the success page swallows the error.
Fail(h) ==
    /\ MayFail
    /\ run[h].pc # "idle"
    /\ run' = [run EXCEPT ![h] = NoCall]
    /\ died' = IF run[h].pc = "make" THEN died \cup {run[h].o} ELSE died
    /\ UNCHANGED <<order, checkout, stripe, due, created>>

CheckoutFail(o) ==
    /\ MayFail
    /\ o \in checkout
    /\ checkout' = checkout \ {o}
    /\ UNCHANGED <<order, stripe, due, run, created, died>>

\* The API restarts: every request in flight is lost.
Restart ==
    /\ MayFail
    /\ run' = [h \in Handler |-> NoCall]
    /\ checkout' = {}
    /\ died' = died \cup {o \in Order : \E h \in Handler : run[h].pc = "make" /\ run[h].o = o}
    /\ UNCHANGED <<order, stripe, due, created>>

-----------------------------------------------------------------------------
OrderNext ==
    \/ \E o \in Order : \/ CheckoutCreate(o) \/ CheckoutSession(o) \/ CheckoutLink(o)
                        \/ Pay(o) \/ CheckoutFail(o)
    \/ \E h \in Handler, o \in Order : Deliver(h, o) \/ ConfirmRead(h, o)
    \/ \E h \in Handler : FulfillStep(h) \/ Fail(h)

Next == OrderNext \/ Restart

Spec == Init /\ [][Next]_orderVars

\* A call runs to its end unless it fails, and Stripe goes on delivering an event
\* that was not acknowledged: strongly, because the API accepts any number of
\* calls and only this model has a last free Handler. Nobody has to pay.
FairSpec ==
    /\ Spec
    /\ \A h \in Handler : WF_orderVars(FulfillStep(h))
    /\ \A o \in Order :
          SF_orderVars(o \in due /\ \E h \in Handler : Deliver(h, o))

-----------------------------------------------------------------------------
(* What a payment promises                                                  *)

\* Nothing is delivered, and no order is PAID, before Stripe has the money: also
\* when the success page is opened with a session that is still open.
NothingUnpaid ==
    \A o \in Order :
        (\/ Settled(o)
         \/ \E h \in Handler, t \in Thing : created[o][h][t] > 0)
            => stripe[o] = "paid"

\* However many deliveries, confirmations, failures and restarts an order sees, a
\* call slot creates each of its rows at most once: the PAID mark stops every call
\* that reads after it, so duplicates need calls that overlap the first one.
EachCallOnce ==
    \A o \in Order, h \in Handler, t \in Thing : created[o][h][t] <= 1

\* A deposit is FULFILLED only once its amount is in the ledger, also when a slow
\* call puts the order back to PAID.
FulfilledIsCredited ==
    \A o \in Order :
        (TypeOf[o] = "DEPOSIT" /\ order[o].status = "FULFILLED")
            => \A t \in ThingsOf[o] : \E h \in Handler : created[o][h][t] > 0

\* A paid order ends FULFILLED, whichever path gets there first, unless a call
\* died after marking it PAID.
PaidIsFulfilled ==
    \A o \in Order :
        (stripe[o] = "paid") ~> (order[o].status = "FULFILLED" \/ o \in died)

\* fulfillPortalOrder is idempotent: no row is created twice for one order.
CreatedOnce ==
    \A o \in Order, t \in Thing :
        Cardinality({h \in Handler : created[o][h][t] > 0}) <= 1
=============================================================================
