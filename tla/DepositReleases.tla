-------------------------- MODULE DepositReleases --------------------------
(***************************************************************************)
(* Getting a deposit back: the buyer asks for the balance of the ledger    *)
(* (createDepositReleaseRequest, apps/api/src/portal/portal.service.ts),   *)
(* staff approve or reject (approveDepositRelease, rejectDepositRelease,   *)
(* apps/api/src/stripe/stripe.service.ts), and an approval debits the      *)
(* ledger and refunds the most recent deposit. Composed with PortalOrders, *)
(* whose orders feed the ledger and carry the payments to refund.          *)
(***************************************************************************)
EXTENDS PortalOrders, Integers, FiniteSetsExt

CONSTANTS
    Release,   \* deposit release requests
    Asker,     \* requests for a release the API can be serving at once
    Clerk,     \* decisions the API can be serving at once
    NoRelease,
    Amount     \* amount of each order

ASSUME ReleaseAssumption ==
    /\ NoRelease \notin Release
    /\ IsFiniteSet(Release) /\ IsFiniteSet(Clerk)
    /\ IsFiniteSet(Handler) /\ IsFiniteSet(Thing)
    /\ Amount \in [Order -> Nat \ {0}]

VARIABLES
    release,   \* deposit_release_requests
    asker,     \* createDepositReleaseRequest calls being served
    clerk,     \* approve and reject calls being served
    debits,    \* ledger debits made for each request
    paidOut,   \* what Stripe refunded for each request
    refunded   \* what Stripe has refunded of each order's payment

releaseVars == <<release, asker, clerk, debits, paidOut, refunded>>
vars == <<orderVars, releaseVars>>

-----------------------------------------------------------------------------
(* Records                                                                  *)

ReleaseRequest == [status : {"none", "PENDING", "APPROVED", "REJECTED"}, amount : Nat]

Asking == [pc : {"idle", "lookup", "create"}, balance : Nat]
NotAsking == [pc |-> "idle", balance |-> 0]

Decision == [pc : {"idle", "debit", "refund", "approve", "reject"},
             x  : Release \cup {NoRelease}]
NoDecision == [pc |-> "idle", x |-> NoRelease]

ReleaseTypeOK ==
    /\ TypeOK
    /\ release \in [Release -> ReleaseRequest]
    /\ \A x \in Release : release[x].status # "none" => release[x].amount > 0
    /\ asker \in [Asker -> Asking]
    /\ clerk \in [Clerk -> Decision]
    /\ debits \in [Release -> Nat]
    /\ paidOut \in [Release -> Nat]
    /\ refunded \in [Order -> Nat]

ReleaseInit ==
    /\ Init
    /\ release = [x \in Release |-> [status |-> "none", amount |-> 0]]
    /\ asker = [k \in Asker |-> NotAsking]
    /\ clerk = [c \in Clerk |-> NoDecision]
    /\ debits = [x \in Release |-> 0]
    /\ paidOut = [x \in Release |-> 0]
    /\ refunded = [o \in Order |-> 0]

-----------------------------------------------------------------------------
(* The ledger                                                               *)

Deposits == {o \in Order : TypeOf[o] = "DEPOSIT"}

\* DEPOSIT entries of an order.
Entries(o) ==
    MapThenSumSet(LAMBDA h : MapThenSumSet(LAMBDA t : created[o][h][t], Thing), Handler)

\* getLedger: the deposits less the ADJUSTMENTs of approved releases; no code
\* writes an entry of another type.
Balance ==
    MapThenSumSet(LAMBDA o : Entries(o) * Amount[o], Deposits)
      - MapThenSumSet(LAMBDA x : debits[x] * release[x].amount, Release)

-----------------------------------------------------------------------------
(* createDepositReleaseRequest                                              *)

\* Mutant: an empty balance can be released too.
AnyBalance == Balance \in Nat

HasBalance == Balance \in Nat \ {0}

AskRead(k) ==
    /\ asker[k].pc = "idle"
    /\ HasBalance
    /\ asker' = [asker EXCEPT ![k] = [pc |-> "lookup", balance |-> Balance]]
    /\ UNCHANGED <<orderVars, release, clerk, debits, paidOut, refunded>>

SomePending == \E x \in Release : release[x].status = "PENDING"

\* A PENDING request is returned as it is.
AskLookup(k) ==
    /\ asker[k].pc = "lookup"
    /\ asker' = [asker EXCEPT ![k] = IF SomePending THEN NotAsking
                                     ELSE [@ EXCEPT !.pc = "create"]]
    /\ UNCHANGED <<orderVars, release, clerk, debits, paidOut, refunded>>

\* The new request is for the balance read before the lookup.
AskCreate(k) ==
    \E x \in Release :
        /\ asker[k].pc = "create"
        /\ release[x].status = "none"
        /\ release' = [release EXCEPT ![x] = [status |-> "PENDING",
                                              amount |-> asker[k].balance]]
        /\ asker' = [asker EXCEPT ![k] = NotAsking]
        /\ UNCHANGED <<orderVars, clerk, debits, paidOut, refunded>>

-----------------------------------------------------------------------------
(* approveDepositRelease and rejectDepositRelease                           *)

To(c, pc) == clerk' = [clerk EXCEPT ![c].pc = pc]

DecideRead(c, x, pc) ==
    /\ clerk[c].pc = "idle"
    /\ release[x].status = "PENDING"
    /\ clerk' = [clerk EXCEPT ![c] = [pc |-> pc, x |-> x]]
    /\ UNCHANGED <<orderVars, release, asker, debits, paidOut, refunded>>

\* Mutant: the approval refunds without debiting the ledger first.
FirstIsRefund == "refund"

\* What an approval does first.
First == "debit"

Approve(c, x) == DecideRead(c, x, First)
Reject(c, x) == DecideRead(c, x, "reject")

\* 1) Ledger debit.
Debit(c) ==
    /\ clerk[c].pc = "debit"
    /\ debits' = [debits EXCEPT ![clerk[c].x] = @ + 1]
    /\ To(c, "refund")
    /\ UNCHANGED <<orderVars, release, asker, paidOut, refunded>>

\* The deposits with a payment intent, and the last of them created.
Refundable == {o \in Deposits : order[o].pi}
LastDeposit ==
    {o \in Refundable : \A p \in Refundable : order[p].createdAt <= order[o].createdAt}

\* Mutant: the whole payment goes back.
RefundWhole(x, o) == Amount[o]

\* Never more than the request, nor than that one payment.
RefundAmount(x, o) ==
    IF release[x].amount < Amount[o] THEN release[x].amount ELSE Amount[o]

\* 2) Best-effort refund against the most recent deposit: Stripe refuses more than
\* is left of that payment, or fails, and the approval goes on.
Refund(c) ==
    /\ clerk[c].pc = "refund"
    /\ \/ \E o \in LastDeposit :
             LET x == clerk[c].x
                 n == RefundAmount(x, o)
             IN  /\ refunded[o] + n <= Amount[o]
                 /\ refunded' = [refunded EXCEPT ![o] = @ + n]
                 /\ paidOut' = [paidOut EXCEPT ![x] = @ + n]
       \/ UNCHANGED <<refunded, paidOut>>
    /\ To(c, "approve")
    /\ UNCHANGED <<orderVars, release, asker, debits>>

\* The decision is written over whatever the request is by now.
Decide(c, status) ==
    /\ release' = [release EXCEPT ![clerk[c].x].status = status]
    /\ clerk' = [clerk EXCEPT ![c] = NoDecision]
    /\ UNCHANGED <<orderVars, asker, debits, paidOut, refunded>>

\* 3) Mark APPROVED.
MarkApproved(c) == clerk[c].pc = "approve" /\ Decide(c, "APPROVED")

MarkRejected(c) == clerk[c].pc = "reject" /\ Decide(c, "REJECTED")

\* refundPayment: staff refund what is left of a payment; the ledger is not told.
RefundPayment(o) ==
    /\ stripe[o] = "paid" /\ refunded[o] < Amount[o]
    /\ refunded' = [refunded EXCEPT ![o] = Amount[o]]
    /\ UNCHANGED <<orderVars, release, asker, clerk, debits, paidOut>>

-----------------------------------------------------------------------------
(* Failures                                                                 *)

\* A decision, or a request for a release, dies between two awaits.
DecisionFail(c) ==
    /\ MayFail
    /\ clerk[c].pc # "idle"
    /\ clerk' = [clerk EXCEPT ![c] = NoDecision]
    /\ UNCHANGED <<order, checkout, stripe, due, run, created, died,
                   release, asker, debits, paidOut, refunded>>

AskFail(k) ==
    /\ MayFail
    /\ asker[k].pc # "idle"
    /\ asker' = [asker EXCEPT ![k] = NotAsking]
    /\ UNCHANGED <<order, checkout, stripe, due, run, created, died,
                   release, clerk, debits, paidOut, refunded>>

RestartAll ==
    /\ Restart
    /\ asker' = [k \in Asker |-> NotAsking]
    /\ clerk' = [c \in Clerk |-> NoDecision]
    /\ UNCHANGED <<release, debits, paidOut, refunded>>

-----------------------------------------------------------------------------
ReleaseNext ==
    \/ OrderNext /\ UNCHANGED releaseVars
    \/ \E k \in Asker : AskRead(k) \/ AskLookup(k) \/ AskCreate(k) \/ AskFail(k)
    \/ \E c \in Clerk, x \in Release : Approve(c, x) \/ Reject(c, x)
    \/ \E c \in Clerk : \/ Debit(c) \/ Refund(c) \/ MarkApproved(c)
                        \/ MarkRejected(c) \/ DecisionFail(c)
    \/ \E o \in Order : RefundPayment(o)
    \/ RestartAll

ReleaseSpec == ReleaseInit /\ [][ReleaseNext]_vars

-----------------------------------------------------------------------------
(* What a release promises                                                  *)

\* A request is APPROVED only once the ledger has paid for it, also when it was
\* rejected meanwhile or another approval died half way.
ApprovedIsDebited ==
    \A x \in Release : release[x].status = "APPROVED" => debits[x] > 0

\* Stripe gives back for a request no more than the ledger was debited for it,
\* however many approvals ran or died.
RefundsAreDebited ==
    \A x \in Release : paidOut[x] <= debits[x] * release[x].amount

\* Rejecting changes no ledger and refunds nothing.
RejectedUntouched ==
    \A x \in Release :
        release[x].status = "REJECTED" => debits[x] = 0 /\ paidOut[x] = 0
=============================================================================
