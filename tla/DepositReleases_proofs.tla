----------------------- MODULE DepositReleases_proofs -----------------------
(***************************************************************************)
(* Theorems about DepositReleases, for any requests and any number of      *)
(* clerks and buyers being served at once.                                 *)
(***************************************************************************)
EXTENDS DepositReleases, PortalOrders_proofs

-----------------------------------------------------------------------------
(* Type correctness                                                         *)

\* A decision in flight is about a request that has been made.
DecisionsKnown ==
    \A c \in Clerk : clerk[c].pc # "idle" =>
        clerk[c].x \in Release /\ release[clerk[c].x].status # "none"

\* A buyer's call in flight has seen money in the ledger.
AskersFunded == \A k \in Asker : asker[k].pc # "idle" => asker[k].balance > 0

ReleaseInv == ReleaseTypeOK /\ CallsKnown /\ DecisionsKnown /\ AskersFunded

LEMMA EmptyCalls == NotAsking \in Asking /\ NoDecision \in Decision
  BY DEF NotAsking, Asking, NoDecision, Decision

\* The steps of the orders touch nothing of a release.
LEMMA OrdersKeepReleases ==
    ASSUME ReleaseInv, OrderNext, UNCHANGED releaseVars
    PROVE  ReleaseInv'
  <1>1. TypeOK' /\ CallsKnown'
    BY NextType DEF ReleaseInv, ReleaseTypeOK, TypeInv, Next
  <1> QED
    BY <1>1 DEF ReleaseInv, ReleaseTypeOK, DecisionsKnown, AskersFunded, releaseVars

LEMMA AskType ==
    ASSUME ReleaseInv, NEW k \in Asker, AskRead(k) \/ AskLookup(k) \/ AskCreate(k)
    PROVE  ReleaseInv'
  <1>1. TypeOK' /\ CallsKnown'
    BY DEF AskRead, AskLookup, AskCreate, ReleaseInv, ReleaseTypeOK, TypeOK, CallsKnown,
           orderVars
  <1>2. CASE AskRead(k)
    <2> DEFINE b == Balance
    <2>1. b \in Nat \ {0} /\ asker' = [asker EXCEPT ![k] = [pc |-> "lookup", balance |-> b]]
      BY <1>2 DEF AskRead, HasBalance
    <2>2. UNCHANGED <<release, clerk, debits, paidOut, refunded>>
      BY <1>2 DEF AskRead
    <2> HIDE DEF b
    <2>3. asker' \in [Asker -> Asking] /\ AskersFunded'
      BY <2>1 DEF ReleaseInv, ReleaseTypeOK, Asking, AskersFunded
    <2> QED BY <1>1, <2>2, <2>3 DEF ReleaseInv, ReleaseTypeOK, DecisionsKnown
  <1>3. CASE AskLookup(k)
    <2>1. asker[k] \in Asking /\ asker[k].balance > 0
      BY <1>3 DEF AskLookup, ReleaseInv, ReleaseTypeOK, AskersFunded
    <2>2. \/ asker' = [asker EXCEPT ![k] = NotAsking]
          \/ asker' = [asker EXCEPT ![k] = [asker[k] EXCEPT !.pc = "create"]]
      BY <1>3 DEF AskLookup
    <2>3. asker' \in [Asker -> Asking] /\ AskersFunded'
      BY <2>1, <2>2, EmptyCalls
      DEF ReleaseInv, ReleaseTypeOK, Asking, AskersFunded, NotAsking
    <2> QED BY <1>1, <1>3, <2>3 DEF AskLookup, ReleaseInv, ReleaseTypeOK, DecisionsKnown
  <1>4. CASE AskCreate(k)
    <2>1. PICK x \in Release :
            release' = [release EXCEPT ![x] = [status |-> "PENDING",
                                               amount |-> asker[k].balance]]
      BY <1>4 DEF AskCreate
    <2>2. asker[k].balance \in Nat /\ asker[k].balance > 0
      BY <1>4 DEF AskCreate, ReleaseInv, ReleaseTypeOK, AskersFunded, Asking
    <2>3. /\ release' \in [Release -> ReleaseRequest]
          /\ \A y \in Release : release'[y].status # "none" => release'[y].amount > 0
      BY <2>1, <2>2 DEF ReleaseInv, ReleaseTypeOK, ReleaseRequest
    <2>4. asker' \in [Asker -> Asking] /\ AskersFunded'
      BY <1>4, EmptyCalls
      DEF AskCreate, ReleaseInv, ReleaseTypeOK, AskersFunded, NotAsking
    <2>5. DecisionsKnown'
      BY <1>4, <2>1 DEF AskCreate, ReleaseInv, ReleaseTypeOK, DecisionsKnown
    <2> QED BY <1>1, <1>4, <2>3, <2>4, <2>5 DEF AskCreate, ReleaseInv, ReleaseTypeOK
  <1> QED
    BY <1>2, <1>3, <1>4

LEMMA DecideType ==
    ASSUME ReleaseInv, NEW c \in Clerk,
           \/ \E x \in Release : Approve(c, x) \/ Reject(c, x)
           \/ Debit(c) \/ Refund(c) \/ MarkApproved(c) \/ MarkRejected(c)
    PROVE  ReleaseInv'
  <1>1. UNCHANGED <<orderVars, asker>>
    BY DEF Approve, Reject, DecideRead, Debit, Refund, MarkApproved, MarkRejected, Decide
  <1>2. TypeOK' /\ CallsKnown' /\ AskersFunded' /\ asker' \in [Asker -> Asking]
    BY <1>1 DEF ReleaseInv, ReleaseTypeOK, TypeOK, CallsKnown, AskersFunded, orderVars
  <1>3. ASSUME NEW x \in Release, Approve(c, x) \/ Reject(c, x)
        PROVE  ReleaseInv'
    <2>1. PICK pc \in {"debit", "reject"} :
            clerk' = [clerk EXCEPT ![c] = [pc |-> pc, x |-> x]]
      BY <1>3 DEF Approve, Reject, DecideRead, First
    <2>2. UNCHANGED <<release, debits, paidOut, refunded>> /\ release[x].status # "none"
      BY <1>3 DEF Approve, Reject, DecideRead
    <2>3. clerk' \in [Clerk -> Decision] /\ DecisionsKnown'
      BY <2>1, <2>2 DEF ReleaseInv, ReleaseTypeOK, Decision, DecisionsKnown
    <2> QED BY <1>2, <2>2, <2>3 DEF ReleaseInv, ReleaseTypeOK
  <1>4. ASSUME NEW pc \in {"refund", "approve"}, To(c, pc), UNCHANGED release,
               clerk[c].pc # "idle"
        PROVE  clerk' \in [Clerk -> Decision] /\ DecisionsKnown'
    BY <1>4 DEF To, ReleaseInv, ReleaseTypeOK, Decision, DecisionsKnown
  <1>5. CASE Debit(c)
    <2>1. clerk[c].x \in Release
      BY <1>5 DEF Debit, ReleaseInv, DecisionsKnown
    <2>2. debits' \in [Release -> Nat]
      BY <1>5, <2>1 DEF Debit, ReleaseInv, ReleaseTypeOK
    <2> QED BY <1>2, <1>4, <1>5, <2>2 DEF Debit, ReleaseInv, ReleaseTypeOK
  <1>6. CASE Refund(c)
    <2>1. clerk[c].x \in Release
      BY <1>6 DEF Refund, ReleaseInv, DecisionsKnown
    <2>2. ASSUME NEW o \in Order PROVE RefundAmount(clerk[c].x, o) \in Nat
      BY <2>1, ReleaseAssumption DEF RefundAmount, ReleaseInv, ReleaseTypeOK, ReleaseRequest
    <2>3. refunded' \in [Order -> Nat] /\ paidOut' \in [Release -> Nat]
      <3>1. CASE UNCHANGED <<refunded, paidOut>>
        BY <3>1 DEF ReleaseInv, ReleaseTypeOK
      <3>2. ASSUME NEW o \in LastDeposit, NEW n \in Nat,
                   refunded' = [refunded EXCEPT ![o] = @ + n],
                   paidOut' = [paidOut EXCEPT ![clerk[c].x] = @ + n]
            PROVE  refunded' \in [Order -> Nat] /\ paidOut' \in [Release -> Nat]
        BY <2>1, <3>2 DEF LastDeposit, Refundable, Deposits, ReleaseInv, ReleaseTypeOK
      <3>3. LastDeposit \subseteq Order
        BY DEF LastDeposit, Refundable, Deposits
      <3>4. \/ UNCHANGED <<refunded, paidOut>>
            \/ \E o \in LastDeposit :
                  /\ refunded' = [refunded EXCEPT ![o] = @ + RefundAmount(clerk[c].x, o)]
                  /\ paidOut' = [paidOut EXCEPT ![clerk[c].x] = @ + RefundAmount(clerk[c].x, o)]
        BY <1>6 DEF Refund
      <3>5. CASE ~UNCHANGED <<refunded, paidOut>>
        <4>1. PICK o \in LastDeposit :
                /\ refunded' = [refunded EXCEPT ![o] = @ + RefundAmount(clerk[c].x, o)]
                /\ paidOut' = [paidOut EXCEPT ![clerk[c].x] = @ + RefundAmount(clerk[c].x, o)]
          BY <3>4, <3>5
        <4> DEFINE n == RefundAmount(clerk[c].x, o)
        <4>2. n \in Nat
          BY <2>2, <3>3
        <4>3. /\ refunded' = [refunded EXCEPT ![o] = @ + n]
              /\ paidOut' = [paidOut EXCEPT ![clerk[c].x] = @ + n]
          BY <4>1
        <4> HIDE DEF n
        <4> QED BY <3>2, <4>2, <4>3
      <3> QED BY <3>1, <3>5
    <2> QED BY <1>2, <1>4, <1>6, <2>3 DEF Refund, ReleaseInv, ReleaseTypeOK
  <1>7. CASE MarkApproved(c) \/ MarkRejected(c)
    <2>1. PICK status \in {"APPROVED", "REJECTED"} : Decide(c, status)
      BY <1>7 DEF MarkApproved, MarkRejected
    <2>2. clerk[c].x \in Release /\ release[clerk[c].x].status # "none"
      BY <1>7 DEF MarkApproved, MarkRejected, ReleaseInv, DecisionsKnown
    <2>3. /\ release' \in [Release -> ReleaseRequest]
          /\ \A y \in Release : release'[y].status # "none" => release'[y].amount > 0
          /\ \A y \in Release : release[y].status # "none" => release'[y].status # "none"
      BY <2>1, <2>2 DEF Decide, ReleaseInv, ReleaseTypeOK, ReleaseRequest
    <2>4. clerk' \in [Clerk -> Decision] /\ DecisionsKnown'
      BY <2>1, <2>3, EmptyCalls
      DEF Decide, NoDecision, ReleaseInv, ReleaseTypeOK, DecisionsKnown
    <2>5. UNCHANGED <<debits, paidOut, refunded>>
      BY <2>1 DEF Decide
    <2> QED BY <1>2, <2>3, <2>4, <2>5 DEF ReleaseInv, ReleaseTypeOK
  <1> QED
    BY <1>3, <1>5, <1>6, <1>7

LEMMA StaffRefundType ==
    ASSUME ReleaseInv, NEW o \in Order, RefundPayment(o)
    PROVE  ReleaseInv'
  BY ReleaseAssumption
  DEF RefundPayment, ReleaseInv, ReleaseTypeOK, DecisionsKnown, AskersFunded,
      TypeOK, CallsKnown, orderVars

LEMMA ReleaseFailureType ==
    ASSUME ReleaseInv,
           \/ \E c \in Clerk : DecisionFail(c)
           \/ \E k \in Asker : AskFail(k)
           \/ RestartAll
    PROVE  ReleaseInv'
  <1>1. MayFail => failures' \in Nat
    BY DEF MayFail, ReleaseInv, ReleaseTypeOK, TypeOK
  <1>2. ASSUME NEW c \in Clerk, DecisionFail(c)
        PROVE  ReleaseInv'
    <2>1. TypeOK' /\ CallsKnown'
      BY <1>1, <1>2 DEF DecisionFail, ReleaseInv, ReleaseTypeOK, TypeOK, CallsKnown
    <2> QED
      BY <1>2, <2>1, EmptyCalls
      DEF DecisionFail, NoDecision, ReleaseInv, ReleaseTypeOK, DecisionsKnown, AskersFunded
  <1>3. ASSUME NEW k \in Asker, AskFail(k)
        PROVE  ReleaseInv'
    <2>1. TypeOK' /\ CallsKnown'
      BY <1>1, <1>3 DEF AskFail, ReleaseInv, ReleaseTypeOK, TypeOK, CallsKnown
    <2> QED
      BY <1>3, <2>1, EmptyCalls
      DEF AskFail, NotAsking, ReleaseInv, ReleaseTypeOK, DecisionsKnown, AskersFunded
  <1>4. CASE RestartAll
    <2>1. TypeOK' /\ CallsKnown'
      BY <1>4, NextType DEF RestartAll, ReleaseInv, ReleaseTypeOK, TypeInv, Next
    <2> QED
      BY <1>4, <2>1, EmptyCalls
      DEF RestartAll, NotAsking, NoDecision, ReleaseInv, ReleaseTypeOK, DecisionsKnown,
          AskersFunded
  <1> QED
    BY <1>2, <1>3, <1>4

LEMMA ReleaseInitType == ReleaseInit => ReleaseInv
  BY InitType, EmptyCalls
  DEF ReleaseInit, ReleaseInv, ReleaseTypeOK, TypeInv, ReleaseRequest, NoDecision, NotAsking,
      DecisionsKnown, AskersFunded

LEMMA ReleaseNextType == ReleaseInv /\ [ReleaseNext]_vars => ReleaseInv'
  <1> SUFFICES ASSUME ReleaseInv, [ReleaseNext]_vars PROVE ReleaseInv'
    OBVIOUS
  <1>1. CASE UNCHANGED vars
    BY <1>1 DEF vars, releaseVars, orderVars, ReleaseInv, ReleaseTypeOK, TypeOK, CallsKnown,
                DecisionsKnown, AskersFunded
  <1> QED
    BY <1>1, OrdersKeepReleases, AskType, DecideType, StaffRefundType, ReleaseFailureType
    DEF ReleaseNext

\* ReleaseTypeOK for any numbers of requests and calls: no request is made for
\* nothing, whatever balance the call that makes it has read.
THEOREM ReleasesAreTyped == ReleaseSpec => []ReleaseTypeOK
  <1>1. ReleaseInv => ReleaseTypeOK
    BY DEF ReleaseInv
  <1> QED
    BY <1>1, ReleaseInitType, ReleaseNextType, PTL DEF ReleaseSpec

-----------------------------------------------------------------------------
(* Approvals and the ledger                                                 *)

\* An approval past its debit finds the debit in the ledger.
PastDebit ==
    \A c \in Clerk : clerk[c].pc \in {"refund", "approve"} => debits[clerk[c].x] > 0

DebitInv == PastDebit /\ ApprovedIsDebited

\* Nothing ever takes a debit out of the ledger.
LEMMA DebitsStay ==
    ASSUME ReleaseInv, [ReleaseNext]_vars, NEW x \in Release
    PROVE  debits'[x] >= debits[x]
  <1>1. debits[x] \in Nat
    BY DEF ReleaseInv, ReleaseTypeOK
  <1>2. ASSUME NEW c \in Clerk, Debit(c)
        PROVE  debits'[x] >= debits[x]
    <2> DEFINE n == debits[clerk[c].x] + 1
    <2>1. clerk[c].x \in Release /\ n > debits[clerk[c].x]
      BY <1>2 DEF Debit, ReleaseInv, ReleaseTypeOK, DecisionsKnown
    <2>2. debits' = [debits EXCEPT ![clerk[c].x] = n]
      BY <1>2 DEF Debit
    <2>3. n \in Nat
      BY <2>1 DEF ReleaseInv, ReleaseTypeOK
    <2> HIDE DEF n
    <2> QED BY <1>1, <2>1, <2>2, <2>3 DEF ReleaseInv, ReleaseTypeOK
  <1>3. CASE \E c \in Clerk : Debit(c)
    BY <1>2, <1>3
  <1>4. CASE ~\E c \in Clerk : Debit(c)
    <2>1. UNCHANGED debits
      BY <1>4
      DEF ReleaseNext, AskRead, AskLookup, AskCreate, AskFail, Approve, Reject, DecideRead,
          Refund, MarkApproved, MarkRejected, Decide, DecisionFail, RefundPayment, RestartAll,
          releaseVars, vars
    <2> QED BY <1>1, <2>1
  <1> QED
    BY <1>3, <1>4

\* What a step does to a decision: nothing, ends it, starts it, or one of its steps.
Starts(c) ==
    /\ clerk[c].pc = "idle" /\ clerk'[c].pc \in {"debit", "reject"}
    /\ UNCHANGED <<release, debits, paidOut>>

DecisionMoves(c) ==
    \/ clerk'[c] = clerk[c]
    \/ clerk'[c].pc = "idle"
    \/ Starts(c)
    \/ Debit(c) \/ Refund(c)

LEMMA DecisionStep ==
    ASSUME ReleaseInv, [ReleaseNext]_vars, NEW c \in Clerk
    PROVE  DecisionMoves(c)
  <1>1. ASSUME NEW d \in Clerk, NEW x \in Release, Approve(d, x) \/ Reject(d, x)
        PROVE  clerk'[c] = clerk[c] \/ Starts(c)
    BY <1>1 DEF Approve, Reject, DecideRead, First, Starts, ReleaseInv, ReleaseTypeOK
  <1>2. ASSUME NEW d \in Clerk, Debit(d) \/ Refund(d), d # c
        PROVE  clerk'[c] = clerk[c]
    BY <1>2 DEF Debit, Refund, To, ReleaseInv, ReleaseTypeOK
  <1>3. ASSUME NEW d \in Clerk, MarkApproved(d) \/ MarkRejected(d) \/ DecisionFail(d)
        PROVE  clerk'[c] = clerk[c] \/ clerk'[c].pc = "idle"
    BY <1>3 DEF MarkApproved, MarkRejected, Decide, DecisionFail, NoDecision,
                ReleaseInv, ReleaseTypeOK
  <1>4. CASE RestartAll
    BY <1>4 DEF RestartAll, NoDecision, DecisionMoves
  <1>5. CASE UNCHANGED clerk
    BY <1>5 DEF DecisionMoves
  <1>6. ASSUME NEW d \in Clerk, Debit(d) \/ Refund(d)
        PROVE  DecisionMoves(c)
    BY <1>2, <1>6 DEF DecisionMoves
  <1>7. ASSUME NEW d \in Clerk, MarkApproved(d) \/ MarkRejected(d) \/ DecisionFail(d)
        PROVE  DecisionMoves(c)
    BY <1>3, <1>7 DEF DecisionMoves
  <1>8. ASSUME NEW d \in Clerk, NEW x \in Release, Approve(d, x) \/ Reject(d, x)
        PROVE  DecisionMoves(c)
    BY <1>1, <1>8 DEF DecisionMoves
  <1>9. ASSUME NEW k \in Asker, AskRead(k) \/ AskLookup(k) \/ AskCreate(k) \/ AskFail(k)
        PROVE  UNCHANGED clerk
    BY <1>9 DEF AskRead, AskLookup, AskCreate, AskFail
  <1>10. ASSUME NEW o \in Order, RefundPayment(o)
         PROVE  UNCHANGED clerk
    BY <1>10 DEF RefundPayment
  <1>11. CASE UNCHANGED releaseVars \/ UNCHANGED vars
    BY <1>5, <1>11 DEF vars, releaseVars
  <1> QED
    BY <1>4, <1>5, <1>6, <1>7, <1>8, <1>9, <1>10, <1>11 DEF ReleaseNext

\* Only MarkApproved approves.
LEMMA ApprovalStep ==
    ASSUME ReleaseInv, [ReleaseNext]_vars, NEW x \in Release, release'[x].status = "APPROVED"
    PROVE  \/ release[x].status = "APPROVED"
           \/ \E c \in Clerk : clerk[c].pc = "approve" /\ clerk[c].x = x
  <1>1. ASSUME NEW c \in Clerk, MarkApproved(c) \/ MarkRejected(c)
        PROVE  release[x].status = "APPROVED" \/ (clerk[c].pc = "approve" /\ clerk[c].x = x)
    BY <1>1 DEF MarkApproved, MarkRejected, Decide, ReleaseInv, ReleaseTypeOK, ReleaseRequest
  <1>2. ASSUME NEW k \in Asker, AskCreate(k)
        PROVE  release[x].status = "APPROVED"
    BY <1>2 DEF AskCreate, ReleaseInv, ReleaseTypeOK
  <1>3. CASE /\ ~\E c \in Clerk : MarkApproved(c) \/ MarkRejected(c)
             /\ ~\E k \in Asker : AskCreate(k)
    <2>1. UNCHANGED release
      BY <1>3
      DEF ReleaseNext, AskRead, AskLookup, AskFail, Approve, Reject, DecideRead, Debit,
          Refund, DecisionFail, RefundPayment, RestartAll, releaseVars, vars
    <2> QED BY <2>1
  <1> QED
    BY <1>1, <1>2, <1>3

LEMMA DebitStep == ReleaseInv /\ DebitInv /\ [ReleaseNext]_vars => DebitInv'
  <1> SUFFICES ASSUME ReleaseInv, DebitInv, [ReleaseNext]_vars PROVE DebitInv'
    OBVIOUS
  <1>1. ASSUME NEW x \in Release, debits[x] > 0
        PROVE  debits'[x] > 0
    <2>1. debits[x] \in Nat /\ debits'[x] \in Nat
      BY ReleaseNextType DEF ReleaseInv, ReleaseTypeOK
    <2> QED BY <1>1, <2>1, DebitsStay
  <1>2. ASSUME NEW c \in Clerk, clerk'[c].pc \in {"refund", "approve"}
        PROVE  debits'[clerk'[c].x] > 0
    <2>1. CASE clerk'[c] = clerk[c]
      BY <1>1, <1>2, <2>1 DEF DebitInv, PastDebit, ReleaseInv, DecisionsKnown
    <2>2. CASE Debit(c)
      <3>1. clerk[c].x \in Release /\ clerk'[c].x = clerk[c].x
        BY <2>2 DEF Debit, To, ReleaseInv, ReleaseTypeOK, DecisionsKnown, Decision
      <3> QED BY <2>2, <3>1 DEF Debit, ReleaseInv, ReleaseTypeOK
    <2>3. CASE Refund(c)
      <3>1. clerk[c].x \in Release /\ clerk'[c].x = clerk[c].x
        BY <2>3 DEF Refund, To, ReleaseInv, ReleaseTypeOK, DecisionsKnown, Decision
      <3> QED BY <1>1, <2>3, <3>1 DEF Refund, DebitInv, PastDebit
    <2> QED BY <1>2, <2>1, <2>2, <2>3, DecisionStep DEF DecisionMoves, Starts
  <1>3. ASSUME NEW x \in Release, release'[x].status = "APPROVED"
        PROVE  debits'[x] > 0
    BY <1>1, <1>3, ApprovalStep DEF DebitInv, PastDebit, ApprovedIsDebited
  <1> QED
    BY <1>2, <1>3 DEF DebitInv, PastDebit, ApprovedIsDebited

\* ApprovedIsDebited for any numbers of clerks: whatever decisions overlap or die, a
\* request marked APPROVED has been paid for in the ledger.
THEOREM ApprovalsAreDebited == ReleaseSpec => []ApprovedIsDebited
  <1>1. ReleaseInit => DebitInv
    BY DEF ReleaseInit, DebitInv, PastDebit, ApprovedIsDebited, NoDecision
  <1>2. DebitInv => ApprovedIsDebited
    BY DEF DebitInv
  <1> QED
    BY <1>1, <1>2, ReleaseInitType, ReleaseNextType, DebitStep, PTL DEF ReleaseSpec

-----------------------------------------------------------------------------
(* Refunds and the ledger                                                   *)

\* The approvals of a request that have debited the ledger and not yet refunded.
Refunding(x) == {c \in Clerk : clerk[c].pc = "refund" /\ clerk[c].x = x}

\* A request not yet made has moved no money.
NothingYet ==
    \A x \in Release : release[x].status = "none" => debits[x] = 0 /\ paidOut[x] = 0

\* What was refunded, and what the approvals past their debit may still refund, is
\* in the ledger: every approval refunds at most what it debited itself.
Covered(x) ==
    paidOut[x] + Cardinality(Refunding(x)) * release[x].amount
        <= debits[x] * release[x].amount

CoverInv == NothingYet /\ \A x \in Release : Covered(x)

LEMMA Times ==
    ASSUME NEW i \in Nat, NEW j \in Nat, NEW n \in Nat
    PROVE  /\ i * n \in Nat
           /\ (i + 1) * n = i * n + n
           /\ i <= j => i * n <= j * n
  <1>1. i * n \in Nat /\ (i + 1) * n = i * n + n
    OBVIOUS
  <1>2. ASSUME i <= j
        PROVE  i * n <= j * n
    <2>1. j - i \in Nat /\ j = i + (j - i)
      BY <1>2
    <2>2. (j - i) * n \in Nat
      BY <2>1
    <2>3. j * n = i * n + (j - i) * n
      BY <2>1
    <2> QED BY <1>1, <2>2, <2>3
  <1> QED
    BY <1>1, <1>2

LEMMA RefundingFinite ==
    ASSUME NEW x
    PROVE  /\ IsFiniteSet(Refunding(x)) /\ Cardinality(Refunding(x)) \in Nat
           /\ IsFiniteSet(Refunding(x)') /\ Cardinality(Refunding(x)') \in Nat
  <1>1. Refunding(x) \in SUBSET Clerk /\ Refunding(x)' \in SUBSET Clerk
    BY DEF Refunding
  <1> QED
    BY <1>1, ReleaseAssumption, FS_Subset, FS_CardinalityType

\* The money of a request in numbers.
LEMMA MoneyNat ==
    ASSUME ReleaseInv, NEW x \in Release
    PROVE  release[x].amount \in Nat /\ debits[x] \in Nat /\ paidOut[x] \in Nat
  BY DEF ReleaseInv, ReleaseTypeOK, ReleaseRequest

\* Ending or starting decisions leaves a request covered.
LEMMA FewerRefunding ==
    ASSUME ReleaseInv, NEW x \in Release, Covered(x),
           Refunding(x)' \subseteq Refunding(x),
           release'[x].amount = release[x].amount, debits'[x] = debits[x],
           paidOut'[x] = paidOut[x]
    PROVE  Covered(x)'
  <1> DEFINE k == Cardinality(Refunding(x))
             l == Cardinality(Refunding(x)')
             n == release[x].amount
  <1>1. k \in Nat /\ l \in Nat /\ n \in Nat /\ debits[x] \in Nat /\ paidOut[x] \in Nat
    BY RefundingFinite, MoneyNat
  <1>2. l <= k
    BY RefundingFinite, FS_Subset
  <1>3. paidOut[x] + k * n <= debits[x] * n
    BY DEF Covered
  <1>4. paidOut[x] + l * n <= debits[x] * n
    <2> HIDE DEF k, l, n
    <2>1. l * n \in Nat /\ k * n \in Nat /\ debits[x] * n \in Nat /\ l * n <= k * n
      BY <1>1, <1>2, Times
    <2> QED BY <1>1, <1>3, <2>1
  <1> QED
    BY <1>4 DEF Covered

\* A step that is no debit, refund, decision or new request leaves the money alone and
\* no further approval before its refund.
LEMMA MoneyFrame ==
    ASSUME ReleaseInv, [ReleaseNext]_vars,
           ~\E c \in Clerk : Debit(c) \/ Refund(c) \/ MarkApproved(c) \/ MarkRejected(c),
           ~\E k \in Asker : AskCreate(k)
    PROVE  /\ UNCHANGED <<release, debits, paidOut>>
           /\ \A x \in Release : Refunding(x)' \subseteq Refunding(x)
  <1>1. UNCHANGED <<release, debits, paidOut>>
    BY DEF ReleaseNext, AskRead, AskLookup, AskFail, Approve, Reject, DecideRead,
           DecisionFail, RefundPayment, RestartAll, releaseVars, vars
  <1>2. ASSUME NEW x \in Release, NEW c \in Refunding(x)'
        PROVE  c \in Refunding(x)
    <2>1. c \in Clerk /\ clerk'[c].pc = "refund"
      BY <1>2 DEF Refunding
    <2>2. clerk'[c] = clerk[c]
      BY <2>1, DecisionStep DEF DecisionMoves, Starts
    <2> QED BY <1>2, <2>1, <2>2 DEF Refunding
  <1> QED
    BY <1>1, <1>2

LEMMA DebitCovers ==
    ASSUME ReleaseInv, CoverInv, NEW c \in Clerk, Debit(c), NEW x \in Release
    PROVE  Covered(x)'
  <1>1. clerk[c].pc = "debit" /\ clerk[c].x \in Release
    BY DEF Debit, ReleaseInv, DecisionsKnown
  <1>2. UNCHANGED <<release, paidOut>>
    BY DEF Debit
  <1>3. clerk' = [clerk EXCEPT ![c].pc = "refund"]
    BY DEF Debit, To
  <1>4. debits' = [debits EXCEPT ![clerk[c].x] = debits[clerk[c].x] + 1]
    BY DEF Debit
  <1>5. CASE x # clerk[c].x
    <2>1. Refunding(x)' \subseteq Refunding(x)
      BY <1>3, <1>5 DEF Refunding, ReleaseInv, ReleaseTypeOK, Decision
    <2>2. debits'[x] = debits[x]
      BY <1>4, <1>5 DEF ReleaseInv, ReleaseTypeOK
    <2> QED BY <1>2, <2>1, <2>2, FewerRefunding DEF CoverInv
  <1>6. CASE x = clerk[c].x
    <2> DEFINE k == Cardinality(Refunding(x))
               n == release[x].amount
               d == debits[x]
    <2>1. Refunding(x)' = Refunding(x) \cup {c} /\ c \notin Refunding(x)
      BY <1>1, <1>3, <1>6 DEF Refunding, ReleaseInv, ReleaseTypeOK, Decision
    <2>2. Cardinality(Refunding(x)') = k + 1
      BY <2>1, RefundingFinite, FS_AddElement
    <2>3. debits'[x] = d + 1
      BY <1>1, <1>4, <1>6 DEF ReleaseInv, ReleaseTypeOK
    <2>4. k \in Nat /\ n \in Nat /\ d \in Nat /\ paidOut[x] \in Nat
      BY RefundingFinite, MoneyNat
    <2>5. paidOut[x] + k * n <= d * n
      BY DEF CoverInv, Covered
    <2>6. paidOut[x] + (k + 1) * n <= (d + 1) * n
      <3> HIDE DEF k, n, d
      <3>1. /\ k * n \in Nat /\ d * n \in Nat
            /\ (k + 1) * n = k * n + n /\ (d + 1) * n = d * n + n
        BY <2>4, Times
      <3> QED BY <2>4, <2>5, <3>1
    <2> QED BY <1>2, <2>2, <2>3, <2>6 DEF Covered
  <1> QED
    BY <1>5, <1>6

LEMMA RefundCovers ==
    ASSUME ReleaseInv, CoverInv, NEW c \in Clerk, Refund(c), NEW x \in Release
    PROVE  Covered(x)'
  <1>1. clerk[c].pc = "refund" /\ clerk[c].x \in Release
    BY DEF Refund, ReleaseInv, DecisionsKnown
  <1>2. UNCHANGED <<release, debits>>
    BY DEF Refund
  <1>3. clerk' = [clerk EXCEPT ![c].pc = "approve"]
    BY DEF Refund, To
  <1>4. PICK m \in Nat : /\ m <= release[clerk[c].x].amount
                        /\ paidOut' = [paidOut EXCEPT ![clerk[c].x] = paidOut[clerk[c].x] + m]
    <2>1. CASE UNCHANGED paidOut
      <3>1. paidOut' = [paidOut EXCEPT ![clerk[c].x] = paidOut[clerk[c].x] + 0]
        BY <1>1, <2>1 DEF ReleaseInv, ReleaseTypeOK
      <3>2. 0 <= release[clerk[c].x].amount
        BY <1>1, MoneyNat
      <3> QED BY <3>1, <3>2
    <2>2. CASE ~UNCHANGED paidOut
      <3>1. PICK o \in LastDeposit :
              paidOut' = [paidOut EXCEPT ![clerk[c].x] =
                             paidOut[clerk[c].x] + RefundAmount(clerk[c].x, o)]
        BY <2>2 DEF Refund
      <3>2. Amount[o] \in Nat
        BY ReleaseAssumption DEF LastDeposit, Refundable, Deposits
      <3>3. RefundAmount(clerk[c].x, o) \in Nat
            /\ RefundAmount(clerk[c].x, o) <= release[clerk[c].x].amount
        BY <1>1, <3>2, MoneyNat DEF RefundAmount
      <3> QED BY <3>1, <3>3
    <2> QED BY <2>1, <2>2
  <1>5. CASE x # clerk[c].x
    <2>1. Refunding(x)' \subseteq Refunding(x)
      BY <1>3, <1>5 DEF Refunding, ReleaseInv, ReleaseTypeOK, Decision
    <2>2. paidOut'[x] = paidOut[x]
      BY <1>4, <1>5 DEF ReleaseInv, ReleaseTypeOK
    <2> QED BY <1>2, <2>1, <2>2, FewerRefunding DEF CoverInv
  <1>6. CASE x = clerk[c].x
    <2> DEFINE k == Cardinality(Refunding(x)')
               n == release[x].amount
               p == paidOut[x]
    <2>1. Refunding(x)' = Refunding(x) \ {c} /\ c \in Refunding(x)
      BY <1>1, <1>3, <1>6 DEF Refunding, ReleaseInv, ReleaseTypeOK, Decision
    <2>2. Cardinality(Refunding(x)) = k + 1
      <3>1. Cardinality(Refunding(x) \ {c}) = Cardinality(Refunding(x)) - 1
        BY <2>1, RefundingFinite, FS_RemoveElement
      <3>2. k = Cardinality(Refunding(x)) - 1
        BY <2>1, <3>1
      <3> HIDE DEF k
      <3> QED BY <3>2, RefundingFinite
    <2>3. paidOut'[x] = p + m
      BY <1>1, <1>4, <1>6 DEF ReleaseInv, ReleaseTypeOK
    <2>4. k \in Nat /\ n \in Nat /\ debits[x] \in Nat /\ p \in Nat /\ m <= n
      BY <1>4, <1>6, RefundingFinite, MoneyNat
    <2>5. p + (k + 1) * n <= debits[x] * n
      BY <2>2 DEF CoverInv, Covered
    <2>6. (p + m) + k * n <= debits[x] * n
      <3> HIDE DEF k, n, p
      <3>1. k * n \in Nat /\ debits[x] * n \in Nat /\ (k + 1) * n = k * n + n
        BY <2>4, Times
      <3> QED BY <2>4, <2>5, <3>1
    <2> QED BY <1>2, <2>3, <2>6 DEF Covered
  <1> QED
    BY <1>5, <1>6

\* A decision changes a status and no amount.
LEMMA DecideCovers ==
    ASSUME ReleaseInv, CoverInv, NEW c \in Clerk, MarkApproved(c) \/ MarkRejected(c),
           NEW x \in Release
    PROVE  Covered(x)'
  <1>1. PICK status \in {"APPROVED", "REJECTED"} : Decide(c, status)
    BY DEF MarkApproved, MarkRejected
  <1>2. Refunding(x)' \subseteq Refunding(x)
    BY <1>1 DEF Decide, NoDecision, Refunding, ReleaseInv, ReleaseTypeOK
  <1>3. release'[x].amount = release[x].amount
    BY <1>1 DEF Decide, ReleaseInv, ReleaseTypeOK, ReleaseRequest
  <1>4. UNCHANGED <<debits, paidOut>>
    BY <1>1 DEF Decide
  <1> QED
    BY <1>2, <1>3, <1>4, FewerRefunding DEF CoverInv

\* A new request starts with nothing debited, nothing refunded and no decision.
LEMMA CreateCovers ==
    ASSUME ReleaseInv, CoverInv, NEW k \in Asker, AskCreate(k), NEW x \in Release
    PROVE  Covered(x)'
  <1>1. PICK y \in Release :
          /\ release[y].status = "none"
          /\ release' = [release EXCEPT ![y] = [status |-> "PENDING",
                                                amount |-> asker[k].balance]]
    BY DEF AskCreate
  <1>2. UNCHANGED <<clerk, debits, paidOut>>
    BY DEF AskCreate
  <1>3. CASE x # y
    <2>1. release'[x].amount = release[x].amount
      BY <1>1, <1>3 DEF ReleaseInv, ReleaseTypeOK
    <2>2. Refunding(x)' = Refunding(x)
      BY <1>2 DEF Refunding
    <2> QED BY <1>2, <2>1, <2>2, FewerRefunding DEF CoverInv
  <1>4. CASE x = y
    <2>1. Refunding(x)' = {}
      BY <1>1, <1>2, <1>4 DEF Refunding, ReleaseInv, DecisionsKnown
    <2>2. Cardinality(Refunding(x)') = 0
      BY <2>1, FS_EmptySet
    <2>3. debits'[x] = 0 /\ paidOut'[x] = 0
      BY <1>1, <1>2, <1>4 DEF CoverInv, NothingYet
    <2> DEFINE n == release'[x].amount
    <2>4. n \in Nat
      BY MoneyNat, AskType DEF ReleaseInv, ReleaseTypeOK, ReleaseRequest
    <2>5. 0 + 0 * n <= 0 * n
      <3> HIDE DEF n
      <3> QED BY <2>4
    <2> QED BY <2>2, <2>3, <2>5 DEF Covered
  <1> QED
    BY <1>3, <1>4

\* A request that has not been made stays without money.
LEMMA NothingYetStep ==
    ASSUME ReleaseInv, NothingYet, [ReleaseNext]_vars
    PROVE  NothingYet'
  <1>1. ASSUME NEW c \in Clerk, Debit(c) \/ Refund(c)
        PROVE  NothingYet'
    <2>1. release[clerk[c].x].status # "none" /\ UNCHANGED release
      BY <1>1 DEF Debit, Refund, ReleaseInv, DecisionsKnown
    <2>2. \A x \in Release : x # clerk[c].x => debits'[x] = debits[x] /\ paidOut'[x] = paidOut[x]
      BY <1>1 DEF Debit, Refund, ReleaseInv, ReleaseTypeOK
    <2> QED BY <2>1, <2>2 DEF NothingYet
  <1>2. ASSUME NEW c \in Clerk, MarkApproved(c) \/ MarkRejected(c)
        PROVE  NothingYet'
    <2>1. PICK status \in {"APPROVED", "REJECTED"} : Decide(c, status)
      BY <1>2 DEF MarkApproved, MarkRejected
    <2>2. \A x \in Release : release'[x].status = "none" => release[x].status = "none"
      BY <2>1 DEF Decide, ReleaseInv, ReleaseTypeOK, ReleaseRequest
    <2> QED BY <2>1, <2>2 DEF Decide, NothingYet
  <1>3. ASSUME NEW k \in Asker, AskCreate(k)
        PROVE  NothingYet'
    <2>1. \A x \in Release : release'[x].status = "none" => release[x].status = "none"
      BY <1>3 DEF AskCreate, ReleaseInv, ReleaseTypeOK
    <2> QED BY <1>3, <2>1 DEF AskCreate, NothingYet
  <1> QED
    BY <1>1, <1>2, <1>3, MoneyFrame DEF NothingYet

LEMMA CoverStep == ReleaseInv /\ CoverInv /\ [ReleaseNext]_vars => CoverInv'
  <1> SUFFICES ASSUME ReleaseInv, CoverInv, [ReleaseNext]_vars PROVE CoverInv'
    OBVIOUS
  <1>1. NothingYet'
    BY NothingYetStep DEF CoverInv
  <1>2. ASSUME NEW x \in Release
        PROVE  Covered(x)'
    <2>1. CASE \E c \in Clerk : Debit(c) \/ Refund(c) \/ MarkApproved(c) \/ MarkRejected(c)
      BY <2>1, DebitCovers, RefundCovers, DecideCovers
    <2>2. CASE \E k \in Asker : AskCreate(k)
      BY <2>2, CreateCovers
    <2>3. CASE /\ UNCHANGED <<release, debits, paidOut>>
               /\ Refunding(x)' \subseteq Refunding(x)
      BY <2>3, FewerRefunding DEF CoverInv
    <2> QED BY <2>1, <2>2, <2>3, MoneyFrame
  <1> QED
    BY <1>1, <1>2 DEF CoverInv

\* RefundsAreDebited for any numbers of requests and clerks: refunds never outgrow the
\* debits, because every approval debits before it refunds and refunds once.
THEOREM RefundsStayDebited == ReleaseSpec => []RefundsAreDebited
  <1>1. ReleaseInit => CoverInv
    <2> SUFFICES ASSUME ReleaseInit PROVE CoverInv
      OBVIOUS
    <2>1. ASSUME NEW x \in Release PROVE Covered(x)
      <3>1. Refunding(x) = {}
        BY DEF ReleaseInit, Refunding, NoDecision
      <3> QED BY <2>1, <3>1, FS_EmptySet DEF ReleaseInit, Covered
    <2> QED BY <2>1 DEF ReleaseInit, CoverInv, NothingYet
  <1>2. ReleaseInv /\ CoverInv => RefundsAreDebited
    <2> SUFFICES ASSUME ReleaseInv, CoverInv, NEW x \in Release
                 PROVE  paidOut[x] <= debits[x] * release[x].amount
      BY DEF RefundsAreDebited
    <2> DEFINE k == Cardinality(Refunding(x))
               n == release[x].amount
    <2>1. k \in Nat /\ n \in Nat /\ debits[x] \in Nat /\ paidOut[x] \in Nat
      BY RefundingFinite, MoneyNat
    <2>2. paidOut[x] + k * n <= debits[x] * n
      BY DEF CoverInv, Covered
    <2>3. paidOut[x] <= debits[x] * n
      <3> HIDE DEF k, n
      <3>1. k * n \in Nat /\ debits[x] * n \in Nat
        BY <2>1, Times
      <3> QED BY <2>1, <2>2, <3>1
    <2> QED BY <2>3
  <1> QED
    BY <1>1, <1>2, ReleaseInitType, ReleaseNextType, CoverStep, PTL DEF ReleaseSpec
=============================================================================
