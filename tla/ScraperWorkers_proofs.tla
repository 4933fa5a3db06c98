------------------------ MODULE ScraperWorkers_proofs ------------------------
(***************************************************************************)
(* Theorems about ScraperWorkers, for every set of virtual machines, sales *)
(* and requests in flight.                                                 *)
(***************************************************************************)
EXTENDS ScraperWorkers, FiniteSetTheorems, TLAPS

-----------------------------------------------------------------------------
(* Helpers                                                                  *)

\* What orderBy/take returns is part of what it was asked to choose from.
LEMMA EarliestSubset ==
    ASSUME NEW S, NEW n, NEW C \in Earliest(S, n)
    PROVE  C \subseteq S
  BY DEF Earliest

\* The Houston day of an instant is a number.
LEMMA DayNat ==
    ASSUME NEW t \in Nat
    PROVE  Day(t) \in Nat
  BY ScraperAssumption DEF Day

\* The empty records are records.
LEMMA EmptyRecords ==
    /\ Unlisted \in Entry /\ NoRow \in Row /\ NoPoll \in Poll
    /\ NoRefresh \in Refresh /\ NoStaff \in Staff
  BY DEF Unlisted, Entry, NoRow, Row, NoPoll, Poll, NoRefresh, Refresh, NoStaff, Staff

\* Ids of sales in the current calendar are ids.
LEMMA IdsAreIds ==
    ASSUME TypeOK, NEW S \in SUBSET Sale
    PROVE  IdsOf(S) \in SUBSET Id
  BY DEF IdsOf, Id, TypeOK

\* An email resolves to a worker.
LEMMA ResolveWorker ==
    ASSUME NEW w \in Worker, NEW a \in Agent \cup {NoOne}
    PROVE  Resolve(w, a) \subseteq Worker
  BY ScraperAssumption DEF Resolve

\* Freeing rows keeps the table well formed.
LEMMA LiftType ==
    ASSUME TypeOK, NEW S \in SUBSET Sale, Lift(S)
    PROVE  entry' \in [Sale -> Entry] /\ reopened' \in SUBSET Sale
  BY DEF Lift, TypeOK, Entry

\* Ending or repeating a claim keeps requests and answers well formed.
LEMMA FinishType ==
    ASSUME TypeOK, NEW r \in Request, req[r].w \in Worker,
           NEW mine \in SUBSET Sale, Finish(r, mine)
    PROVE  told' \in [Worker -> SUBSET Sale] /\ req' \in [Request -> Poll]
  <1>1. req[r] \in Poll
    BY DEF TypeOK
  <1>2. [req[r] EXCEPT !.pc = "read", !.round = @ + 1, !.live = {}, !.cand = {}] \in Poll
    <2> DEFINE next == req[r].round + 1
    <2>1. next \in Nat
      BY <1>1 DEF Poll
    <2>2. [req[r] EXCEPT !.pc = "read", !.round = next, !.live = {}, !.cand = {}] \in Poll
      <3> HIDE DEF next
      <3> QED BY <1>1, <2>1 DEF Poll
    <2> QED BY <2>2
  <1>3. CASE req' = [req EXCEPT ![r].pc = "read", ![r].round = @ + 1,
                                ![r].live = {}, ![r].cand = {}] /\ UNCHANGED told
    BY <1>2, <1>3 DEF TypeOK
  <1>4. CASE Reply(r, mine)
    BY <1>4, EmptyRecords DEF Reply, Drop, TypeOK
  <1> QED
    BY <1>3, <1>4 DEF Finish

\* ... and touches no other request; its own keeps its worker or is over.
LEMMA FinishFrame ==
    ASSUME TypeOK, NEW r \in Request, NEW mine, Finish(r, mine), NEW q \in Request
    PROVE  /\ q # r => req'[q] = req[q]
           /\ q = r => /\ req'[q].live = {}
                       /\ req'[q].pc = "idle" \/ req'[q].w = req[q].w
  <1>1. CASE req' = [req EXCEPT ![r].pc = "read", ![r].round = @ + 1,
                                ![r].live = {}, ![r].cand = {}]
    <2> DEFINE next == req[r].round + 1
    <2>1. req' = [req EXCEPT ![r].pc = "read", ![r].round = next,
                             ![r].live = {}, ![r].cand = {}]
      BY <1>1
    <2> HIDE DEF next
    <2> QED BY <2>1 DEF TypeOK, Poll
  <1>2. CASE Reply(r, mine)
    BY <1>2 DEF Reply, Drop, NoPoll, TypeOK
  <1> QED
    BY <1>1, <1>2 DEF Finish

-----------------------------------------------------------------------------
(* Type correctness                                                         *)

\* A request that is being served knows its worker.
Served == \A r \in Request : req[r].pc # "idle" => req[r].w \in Worker

\* A staff operation in flight knows its worker.
Operated == staff.pc # "idle" => staff.w \in Worker

TypeInv == TypeOK /\ Served /\ Operated

LEMMA PollArriveType ==
    ASSUME TypeInv, NEW r \in Request, NEW w \in Worker, NEW a \in Agent \cup {NoOne},
           PollArrive(r, w, a)
    PROVE  TypeInv'
  <1>1. PICK v \in Resolve(w, a), wait \in Waits :
          req' = [req EXCEPT ![r] = [NoPoll EXCEPT
                    !.pc = "register", !.w = v, !.agent = a, !.day = Today, !.wait = wait]]
    BY DEF PollArrive
  <1>2. v \in Worker /\ wait \in BOOLEAN /\ Today \in Nat
    BY ResolveWorker, DayNat, ScraperAssumption DEF Today, TypeInv, TypeOK
  <1>3. [NoPoll EXCEPT !.pc = "register", !.w = v, !.agent = a, !.day = Today,
                       !.wait = wait] \in Poll
    BY <1>2, EmptyRecords DEF Poll
  <1>4. TypeOK'
    BY <1>1, <1>3 DEF PollArrive, TypeInv, TypeOK
  <1>5. Served' /\ Operated'
    BY <1>1, <1>2 DEF PollArrive, TypeInv, TypeOK, Served, Operated, NoPoll
  <1> QED
    BY <1>4, <1>5 DEF TypeInv

LEMMA PollRegisterType ==
    ASSUME TypeInv, NEW r \in Request, PollRegister(r)
    PROVE  TypeInv'
  <1> DEFINE w == req[r].w
             a == req[r].agent
             born == [exists |-> TRUE, enabled |-> TRUE, quota |-> DefaultQuota,
                      agent |-> a, seen |-> now]
             kept == [row[w] EXCEPT !.seen = now, !.agent = IF a = NoOne THEN @ ELSE a]
             new == IF row[w].exists THEN kept ELSE born
  <1>1. w \in Worker /\ req[r] \in Poll /\ row[w] \in Row
    BY DEF PollRegister, TypeInv, TypeOK, Served
  <1>2. new \in Row
    BY <1>1, ScraperAssumption DEF Row, Poll, TypeInv, TypeOK
  <1>3. [req[r] EXCEPT !.pc = "read", !.agent = NoOne, !.quota = new.quota] \in Poll
    <2> HIDE DEF new
    <2> QED BY <1>1, <1>2 DEF Poll, Row
  <1>4. CASE Drop(r) /\ UNCHANGED <<row, told>>
    BY <1>4, EmptyRecords DEF PollRegister, Drop, TypeInv, TypeOK, Served, Operated, NoPoll
  <1>5. CASE /\ row' = [row EXCEPT ![w] = new]
             /\ req' = [req EXCEPT ![r].pc = "read", ![r].agent = NoOne,
                                   ![r].quota = new.quota]
             /\ UNCHANGED told
    <2> HIDE DEF new
    <2>1. TypeOK'
      BY <1>1, <1>2, <1>3, <1>5 DEF PollRegister, TypeInv, TypeOK
    <2>2. Served' /\ Operated'
      BY <1>1, <1>5 DEF PollRegister, TypeInv, TypeOK, Served, Operated, Poll
    <2> QED BY <2>1, <2>2 DEF TypeInv
  <1>6. CASE row' = [row EXCEPT ![w] = new] /\ Reply(r, {})
    <2> HIDE DEF new
    <2>1. TypeOK'
      BY <1>1, <1>2, <1>6, EmptyRecords DEF PollRegister, Reply, Drop, TypeInv, TypeOK
    <2>2. Served' /\ Operated'
      BY <1>1, <1>6 DEF PollRegister, Reply, Drop, TypeInv, TypeOK, Served, Operated, NoPoll
    <2> QED BY <2>1, <2>2 DEF TypeInv
  <1> QED
    BY <1>4, <1>5, <1>6 DEF PollRegister

LEMMA ClaimReadType ==
    ASSUME TypeInv, NEW r \in Request, ClaimRead(r)
    PROVE  TypeInv'
  <1> DEFINE live == Live(req[r].w, req[r].day)
  <1>1. req[r].w \in Worker /\ req[r] \in Poll /\ live \in SUBSET Sale
    BY DEF ClaimRead, TypeInv, TypeOK, Served, Live, Mine
  <1>2. ASSUME NEW mine \in Earliest(live, req[r].quota), Finish(r, mine)
        PROVE  TypeInv'
    <2>1. mine \in SUBSET Sale
      BY <1>1, EarliestSubset
    <2>2. told' \in [Worker -> SUBSET Sale] /\ req' \in [Request -> Poll]
      BY <1>1, <1>2, <2>1, FinishType DEF TypeInv
    <2>3. TypeOK' /\ Operated'
      BY <2>2 DEF ClaimRead, TypeInv, TypeOK, Operated
    <2>4. Served'
      BY <1>1, <1>2, FinishFrame DEF TypeInv, Served
    <2> QED BY <2>3, <2>4 DEF TypeInv
  <1>3. CASE req' = [req EXCEPT ![r].pc = "own", ![r].live = live] /\ UNCHANGED told
    <2>1. [req[r] EXCEPT !.pc = "own", !.live = live] \in Poll
      <3> HIDE DEF live
      <3> QED BY <1>1 DEF Poll
    <2>2. TypeOK' /\ Operated'
      BY <1>3, <2>1 DEF ClaimRead, TypeInv, TypeOK, Operated
    <2>3. Served'
      BY <1>1, <1>3 DEF TypeInv, TypeOK, Served
    <2> QED BY <2>2, <2>3 DEF TypeInv
  <1> QED
    BY <1>2, <1>3 DEF ClaimRead

LEMMA ClaimOwnType ==
    ASSUME TypeInv, NEW r \in Request, ClaimOwn(r)
    PROVE  TypeInv'
  <1>1. PICK C \in SUBSET Sale :
          req' = [req EXCEPT ![r].pc = "rest", ![r].cand = IdsOf(C)]
    BY EarliestSubset DEF ClaimOwn, Free
  <1>2. req[r].w \in Worker /\ req[r] \in Poll /\ IdsOf(C) \in SUBSET Id
    BY IdsAreIds DEF ClaimOwn, TypeInv, TypeOK, Served
  <1>3. [req[r] EXCEPT !.pc = "rest", !.cand = IdsOf(C)] \in Poll
    BY <1>2 DEF Poll
  <1>4. TypeOK' /\ Operated'
    BY <1>1, <1>3 DEF ClaimOwn, TypeInv, TypeOK, Operated
  <1>5. Served'
    BY <1>1, <1>2 DEF TypeInv, TypeOK, Served
  <1> QED
    BY <1>4, <1>5 DEF TypeInv

LEMMA ClaimRestType ==
    ASSUME TypeInv, NEW r \in Request, ClaimRest(r)
    PROVE  TypeInv'
  <1> DEFINE cand(C) == req[r].cand \cup IdsOf(C)
  <1>1. PICK C \in SUBSET Sale :
          \/ Finish(r, req[r].live)
          \/ /\ req' = [req EXCEPT ![r].pc = "stamp", ![r].cand = cand(C), ![r].live = {}]
             /\ UNCHANGED told
    BY EarliestSubset DEF ClaimRest, Free
  <1>2. /\ req[r].w \in Worker /\ req[r] \in Poll
        /\ req[r].live \in SUBSET Sale /\ cand(C) \in SUBSET Id
    BY IdsAreIds DEF ClaimRest, TypeInv, TypeOK, Served, Poll
  <1>3. CASE Finish(r, req[r].live)
    <2>1. told' \in [Worker -> SUBSET Sale] /\ req' \in [Request -> Poll]
      BY <1>2, <1>3, FinishType DEF TypeInv
    <2>2. TypeOK' /\ Operated'
      BY <2>1 DEF ClaimRest, TypeInv, TypeOK, Operated
    <2>3. Served'
      BY <1>2, <1>3, FinishFrame DEF TypeInv, Served
    <2> QED BY <2>2, <2>3 DEF TypeInv
  <1>4. CASE /\ req' = [req EXCEPT ![r].pc = "stamp", ![r].cand = cand(C), ![r].live = {}]
             /\ UNCHANGED told
    <2>1. [req[r] EXCEPT !.pc = "stamp", !.cand = cand(C), !.live = {}] \in Poll
      <3> HIDE DEF cand
      <3> QED BY <1>2 DEF Poll
    <2>2. TypeOK' /\ Operated'
      BY <1>4, <2>1 DEF ClaimRest, TypeInv, TypeOK, Operated
    <2>3. Served'
      BY <1>2, <1>4 DEF TypeInv, TypeOK, Served
    <2> QED BY <2>2, <2>3 DEF TypeInv
  <1> QED
    BY <1>1, <1>3, <1>4

LEMMA ClaimStampType ==
    ASSUME TypeInv, NEW r \in Request, ClaimStamp(r)
    PROVE  TypeInv'
  <1>1. req[r].w \in Worker /\ req[r] \in Poll
    BY DEF ClaimStamp, TypeInv, TypeOK, Served
  <1>2. [req[r] EXCEPT !.pc = "reread", !.cand = {}] \in Poll
    BY <1>1 DEF Poll
  <1>3. ASSUME NEW s \in Sale
        PROVE  [entry[s] EXCEPT !.by = req[r].w] \in Entry
    BY <1>1 DEF TypeInv, TypeOK, Entry
  <1>4. CASE Known(req[r].w)
    <2>1. /\ entry' = [s \in Sale |-> IF s \in Won(r)
                         THEN [entry[s] EXCEPT !.by = req[r].w] ELSE entry[s]]
          /\ req' = [req EXCEPT ![r].pc = "reread", ![r].cand = {}]
      BY <1>4 DEF ClaimStamp
    <2>2. entry' \in [Sale -> Entry]
      BY <1>3, <2>1 DEF TypeInv, TypeOK
    <2>3. req' \in [Request -> Poll]
      BY <1>2, <2>1 DEF TypeInv, TypeOK
    <2>4. TypeOK' /\ Operated'
      BY <2>2, <2>3 DEF ClaimStamp, TypeInv, TypeOK, Operated
    <2>5. Served'
      BY <1>1, <2>1 DEF TypeInv, TypeOK, Served
    <2> QED BY <2>4, <2>5 DEF TypeInv
  <1>5. CASE ~Known(req[r].w)
    <2>1. req' = [req EXCEPT ![r] = NoPoll] /\ UNCHANGED entry
      BY <1>5 DEF ClaimStamp, Drop
    <2>2. TypeOK' /\ Operated'
      BY <2>1, EmptyRecords DEF ClaimStamp, TypeInv, TypeOK, Operated
    <2>3. Served'
      BY <2>1 DEF NoPoll, TypeInv, TypeOK, Served
    <2> QED BY <2>2, <2>3 DEF TypeInv
  <1> QED
    BY <1>4, <1>5

LEMMA ClaimRereadType ==
    ASSUME TypeInv, NEW r \in Request, ClaimReread(r)
    PROVE  TypeInv'
  <1> DEFINE after == Live(req[r].w, req[r].day)
  <1>1. req[r].w \in Worker /\ after \in SUBSET Sale
    BY DEF ClaimReread, TypeInv, TypeOK, Served, Live, Mine
  <1>2. ASSUME NEW mine \in Earliest(after, req[r].quota), Finish(r, mine)
        PROVE  TypeInv'
    <2>1. mine \in SUBSET Sale
      BY <1>1, EarliestSubset
    <2>2. told' \in [Worker -> SUBSET Sale] /\ req' \in [Request -> Poll]
      BY <1>1, <1>2, <2>1, FinishType DEF TypeInv
    <2>3. TypeOK' /\ Operated'
      BY <2>2 DEF ClaimReread, TypeInv, TypeOK, Operated
    <2>4. Served'
      BY <1>1, <1>2, FinishFrame DEF TypeInv, Served
    <2> QED BY <2>3, <2>4 DEF TypeInv
  <1>3. CASE Drop(r) /\ UNCHANGED told
    BY <1>3, EmptyRecords
       DEF ClaimReread, Drop, NoPoll, TypeInv, TypeOK, Served, Operated
  <1> QED
    BY <1>2, <1>3 DEF ClaimReread

LEMMA PollStepType ==
    ASSUME TypeInv, NEW r \in Request, PollStep(r)
    PROVE  TypeInv'
  BY PollRegisterType, ClaimReadType, ClaimOwnType, ClaimRestType, ClaimStampType,
     ClaimRereadType DEF PollStep

LEMMA CronType ==
    ASSUME TypeInv,
           \/ ReleaseFinished \/ SweepFind \/ SweepRelease \/ ReleaseStale
           \/ \E s \in Sale, a \in Agent : AssignAgent(s, a)
    PROVE  TypeInv'
  <1>1. CASE ReleaseFinished
    BY <1>1, LiftType DEF ReleaseFinished, Finished, TypeInv, TypeOK, Served, Operated
  <1>2. CASE SweepFind
    BY <1>2 DEF SweepFind, TypeInv, TypeOK, Served, Operated
  <1>3. CASE SweepRelease
    BY <1>3, LiftType DEF SweepRelease, Swept, TypeInv, TypeOK, Served, Operated
  <1>4. CASE ReleaseStale
    <2>1. ASSUME NEW s \in Sale
          PROVE  [entry[s] EXCEPT !.by = NoOne, !.agent = NoOne] \in Entry
      BY ZenonT(60) DEF TypeInv, TypeOK, Entry
    <2> QED BY <1>4, <2>1 DEF ReleaseStale, Stale, TypeInv, TypeOK, Served, Operated
  <1>5. ASSUME NEW s \in Sale, NEW a \in Agent, AssignAgent(s, a)
        PROVE  TypeInv'
    <2>1. [entry[s] EXCEPT !.agent = a] \in Entry
      BY DEF TypeInv, TypeOK, Entry
    <2> QED BY <1>5, <2>1 DEF AssignAgent, TypeInv, TypeOK, Served, Operated
  <1> QED
    BY <1>1, <1>2, <1>3, <1>4, <1>5

LEMMA RefreshType ==
    ASSUME TypeInv, RefreshRead \/ RefreshReplace \/ RefreshFail
    PROVE  TypeInv'
  <1>1. CASE RefreshRead
    <2>1. refresh' \in Refresh
      BY <1>1 DEF RefreshRead, Refresh, TypeInv, TypeOK, Entry
    <2> QED BY <1>1, <2>1 DEF RefreshRead, TypeInv, TypeOK, Served, Operated
  <1>2. CASE RefreshReplace
    <2>1. PICK listed \in SUBSET Sale, work \in SUBSET Sale :
            entry' = Rebuilt(listed, work)
      BY <1>2 DEF RefreshReplace
    <2>2. ASSUME NEW s \in Sale
          PROVE  [listed |-> TRUE, work |-> s \in work,
                  by |-> refresh.by[s], agent |-> refresh.agent[s]] \in Entry
      <3>1. refresh.by[s] \in Worker \cup {NoOne} /\ refresh.agent[s] \in Agent \cup {NoOne}
        BY DEF TypeInv, TypeOK, Refresh
      <3>2. (s \in work) \in BOOLEAN
        OBVIOUS
      <3> QED BY <3>1, <3>2 DEF Entry
    <2>3. entry' \in [Sale -> Entry]
      BY <2>1, <2>2, EmptyRecords DEF Rebuilt
    <2> QED
      BY <1>2, <2>3, EmptyRecords DEF RefreshReplace, TypeInv, TypeOK, Served, Operated
  <1>3. CASE RefreshFail
    BY <1>3, EmptyRecords DEF RefreshFail, TypeInv, TypeOK, Served, Operated
  <1> QED
    BY <1>1, <1>2, <1>3

LEMMA ContinueType ==
    ASSUME TypeInv, staff.w \in Worker, NEW next \in {"idle", "release", "delete"},
           Continue(next)
    PROVE  staff' \in Staff /\ Operated'
  <1>1. [NoStaff EXCEPT !.pc = next, !.w = staff.w] \in Staff
    BY EmptyRecords DEF Staff
  <1> QED
    BY <1>1, EmptyRecords DEF Continue, Operated, NoStaff

LEMMA StaffStepType ==
    ASSUME TypeInv, StaffStep
    PROVE  TypeInv'
  <1>1. staff.w \in Worker /\ staff.next \in {"idle", "release", "delete"}
    BY DEF StaffStep, TrimRead, TrimWrite, StaffRelease, DeleteRow, TypeInv, TypeOK,
           Operated, Staff
  <1>2. CASE TrimRead
    <2>1. PICK S \in SUBSET Sale :
            Continue(staff.next) \/ staff' = [staff EXCEPT !.pc = "trimWrite", !.ids = IdsOf(S)]
      <3>1. PICK keep \in Earliest(Mine(staff.w, Today), staff.quota) :
              \/ Continue(staff.next)
              \/ staff' = [staff EXCEPT !.pc = "trimWrite",
                                       !.ids = IdsOf(Mine(staff.w, Today) \ keep)]
        BY <1>2 DEF TrimRead
      <3> QED BY <3>1 DEF Mine
    <2>2. IdsOf(S) \in SUBSET Id
      BY IdsAreIds DEF TypeInv
    <2>3. staff' \in Staff /\ Operated'
      <3>1. CASE Continue(staff.next)
        BY <1>1, <3>1, ContinueType
      <3>2. CASE staff' = [staff EXCEPT !.pc = "trimWrite", !.ids = IdsOf(S)]
        BY <1>1, <2>2, <3>2 DEF TypeInv, TypeOK, Staff, Operated
      <3> QED BY <2>1, <3>1, <3>2
    <2> QED BY <1>2, <2>3 DEF TrimRead, TypeInv, TypeOK, Served
  <1>3. CASE TrimWrite
    <2>1. staff' \in Staff /\ Operated'
      BY <1>1, <1>3, ContinueType DEF TrimWrite
    <2> QED BY <1>3, <2>1, LiftType DEF TrimWrite, TypeInv, TypeOK, Served
  <1>4. CASE StaffRelease
    <2>1. staff' \in Staff /\ Operated'
      BY <1>1, <1>4, ContinueType DEF StaffRelease
    <2> QED BY <1>4, <2>1, LiftType DEF StaffRelease, Mine, TypeInv, TypeOK, Served
  <1>5. CASE DeleteRow
    <2>1. entry' \in [Sale -> Entry] /\ reopened' \in SUBSET Sale
      BY <1>5, LiftType DEF DeleteRow, TypeInv
    <2>2. TypeOK'
      BY <1>5, <2>1, EmptyRecords DEF DeleteRow, TypeInv, TypeOK
    <2> QED BY <1>5, <2>2 DEF DeleteRow, TypeInv, Served, Operated, NoStaff
  <1> QED
    BY <1>2, <1>3, <1>4, <1>5 DEF StaffStep

LEMMA StaffOpType ==
    ASSUME TypeInv, NEW w \in Worker, NEW given \in SUBSET Fields,
           ReleaseWorker(w) \/ RemoveWorker(w) \/ UpdateWorker(w, given)
    PROVE  TypeInv'
  <1>1. StaffMay(w) => left' \in [staff : Nat, restart : Nat]
    <2>1. left.staff > 0 => left.staff - 1 \in Nat
      BY DEF TypeInv, TypeOK
    <2> DEFINE rest == left.staff - 1
    <2>2. left.staff > 0 => [left EXCEPT !.staff = rest] \in [staff : Nat, restart : Nat]
      <3> SUFFICES ASSUME left.staff > 0
                   PROVE  [left EXCEPT !.staff = rest] \in [staff : Nat, restart : Nat]
        OBVIOUS
      <3>1. rest \in Nat
        BY <2>1
      <3> HIDE DEF rest
      <3> QED BY <3>1 DEF TypeInv, TypeOK
    <2> QED BY <2>2 DEF StaffMay
  <1>2. CASE ReleaseWorker(w)
    <2>1. entry' \in [Sale -> Entry] /\ reopened' \in SUBSET Sale
      BY <1>2, LiftType DEF ReleaseWorker, Mine, TypeInv
    <2>2. left' \in [staff : Nat, restart : Nat]
      BY <1>1, <1>2 DEF ReleaseWorker
    <2> QED BY <1>2, <2>1, <2>2 DEF ReleaseWorker, TypeInv, TypeOK, Served, Operated
  <1>3. CASE RemoveWorker(w)
    <2>1. [NoStaff EXCEPT !.pc = "release", !.w = w, !.next = "delete"] \in Staff
      BY EmptyRecords DEF Staff
    <2>2. left' \in [staff : Nat, restart : Nat]
      BY <1>1, <1>3 DEF RemoveWorker
    <2>3. TypeOK'
      BY <1>3, <2>1, <2>2 DEF RemoveWorker, TypeInv, TypeOK
    <2>4. Served' /\ Operated'
      BY <1>3 DEF RemoveWorker, TypeInv, Served, Operated, NoStaff
    <2> QED BY <2>3, <2>4 DEF TypeInv
  <1>4. CASE UpdateWorker(w, given)
    <2>1. PICK quota \in Quotas, on \in BOOLEAN, a \in Agent \cup {NoOne},
               next \in {"idle", "release"} :
            /\ row' = [row EXCEPT ![w] = [row[w] EXCEPT
                         !.quota   = IF "maxAuctions" \in given THEN quota ELSE @,
                         !.enabled = IF "enabled" \in given THEN on ELSE @,
                         !.agent   = IF "scraperAgentId" \in given THEN a ELSE @]]
            /\ \/ staff' = [NoStaff EXCEPT !.pc = "trimRead", !.w = w,
                                           !.quota = quota, !.next = next]
               \/ staff' = [NoStaff EXCEPT !.pc = "release", !.w = w]
               \/ staff' = NoStaff
      BY <1>4, ZenonT(60) DEF UpdateWorker
    <2>2. quota \in Nat
      BY ScraperAssumption
    <2>3. row[w] \in Row
      BY DEF TypeInv, TypeOK
    <2>4. row' \in [Worker -> Row]
      <3> DEFINE q == IF "maxAuctions" \in given THEN quota ELSE row[w].quota
                 e == IF "enabled" \in given THEN on ELSE row[w].enabled
                 g == IF "scraperAgentId" \in given THEN a ELSE row[w].agent
      <3>1. q \in Nat /\ e \in BOOLEAN /\ g \in Agent \cup {NoOne}
        BY <2>2, <2>3 DEF Row
      <3>2. row' = [row EXCEPT ![w] = [row[w] EXCEPT !.quota = q, !.enabled = e, !.agent = g]]
        BY <2>1
      <3> HIDE DEF q, e, g
      <3>3. [row[w] EXCEPT !.quota = q, !.enabled = e, !.agent = g] \in Row
        BY <2>3, <3>1 DEF Row
      <3> QED BY <3>2, <3>3 DEF TypeInv, TypeOK
    <2>5. /\ [NoStaff EXCEPT !.pc = "trimRead", !.w = w, !.quota = quota, !.next = next] \in Staff
          /\ [NoStaff EXCEPT !.pc = "release", !.w = w] \in Staff
      BY <2>2, EmptyRecords DEF Staff
    <2>6. staff' \in Staff /\ Operated'
      <3>1. CASE staff' = [NoStaff EXCEPT !.pc = "trimRead", !.w = w,
                                          !.quota = quota, !.next = next]
        BY <2>5, <3>1 DEF Operated, NoStaff
      <3>2. CASE staff' = [NoStaff EXCEPT !.pc = "release", !.w = w]
        BY <2>5, <3>2 DEF Operated, NoStaff
      <3>3. CASE staff' = NoStaff
        BY <3>3, EmptyRecords DEF Operated, NoStaff
      <3> QED BY <2>1, <3>1, <3>2, <3>3
    <2>7. left' \in [staff : Nat, restart : Nat]
      BY <1>1, <1>4 DEF UpdateWorker
    <2>8. TypeOK' /\ Served'
      BY <1>4, <2>4, <2>6, <2>7 DEF UpdateWorker, TypeInv, TypeOK, Served
    <2> QED BY <2>6, <2>8 DEF TypeInv
  <1> QED
    BY <1>2, <1>3, <1>4

LEMMA EnvironmentType ==
    ASSUME TypeInv, Tick \/ Restart
    PROVE  TypeInv'
  <1>1. CASE Tick
    BY <1>1 DEF Tick, TypeInv, TypeOK, Served, Operated
  <1>2. CASE Restart
    <2>1. left.restart > 0 => left.restart - 1 \in Nat
      BY DEF TypeInv, TypeOK
    <2> DEFINE rest == left.restart - 1
    <2>2. rest \in Nat /\ left' = [left EXCEPT !.restart = rest]
      BY <1>2, <2>1 DEF Restart
    <2>3. left' \in [staff : Nat, restart : Nat]
      <3> HIDE DEF rest
      <3> QED BY <2>2 DEF TypeInv, TypeOK
    <2>4. TypeOK'
      BY <1>2, <2>3, EmptyRecords DEF Restart, TypeInv, TypeOK
    <2>5. Served' /\ Operated'
      BY <1>2 DEF Restart, Served, Operated, NoPoll, NoStaff
    <2> QED BY <2>4, <2>5 DEF TypeInv
  <1> QED
    BY <1>1, <1>2

LEMMA InitType == Init => TypeInv
  <1> SUFFICES ASSUME Init PROVE TypeInv
    OBVIOUS
  <1>1. entry \in [Sale -> Entry]
    BY EmptyRecords, ZenonT(60) DEF Init, Unlisted, Entry
  <1>2. TypeOK
    BY <1>1, EmptyRecords, ScraperAssumption DEF Init, TypeOK
  <1>3. Served /\ Operated
    BY DEF Init, Served, Operated, NoPoll, NoStaff
  <1> QED
    BY <1>2, <1>3 DEF TypeInv

LEMMA NextType == TypeInv /\ [Next]_vars => TypeInv'
  <1> SUFFICES ASSUME TypeInv, [Next]_vars PROVE TypeInv'
    OBVIOUS
  <1>1. CASE Next
    <2>1. ASSUME NEW r \in Request, NEW w \in Worker, NEW a \in Agent \cup {NoOne},
                 PollArrive(r, w, a)
          PROVE  TypeInv'
      BY <2>1, PollArriveType
    <2>2. ASSUME NEW r \in Request, PollStep(r)
          PROVE  TypeInv'
      BY <2>2, PollStepType
    <2>3. ASSUME NEW w \in Worker, ReleaseWorker(w) \/ RemoveWorker(w)
          PROVE  TypeInv'
      BY <2>3, StaffOpType
    <2>4. ASSUME NEW w \in Worker, NEW given \in SUBSET Fields, UpdateWorker(w, given)
          PROVE  TypeInv'
      BY <2>4, StaffOpType
    <2> QED
      BY <1>1, <2>1, <2>2, <2>3, <2>4, CronType, RefreshType, StaffStepType,
         EnvironmentType DEF Next
  <1>2. CASE UNCHANGED vars
    BY <1>2 DEF vars, TypeInv, TypeOK, Served, Operated
  <1> QED
    BY <1>1, <1>2

\* Every reachable state is well typed, and requests and staff operations in
\* flight name a worker.
THEOREM TypeCorrect == Spec => [](TypeOK /\ Served /\ Operated)
  <1>1. TypeInv => TypeOK /\ Served /\ Operated
    BY DEF TypeInv
  <1> QED
    BY <1>1, InitType, NextType, PTL DEF Spec

-----------------------------------------------------------------------------
(* Who has a sale                                                           *)

\* What a step other than a poll, a refresh or DeleteRow does to a claim: nothing,
\* or it lifts it and says so.
LiftedOnly(s) ==
    \/ entry'[s].by = entry[s].by /\ (s \in reopened => s \in reopened')
    \/ entry'[s].by = NoOne /\ (entry[s].by # NoOne => s \in reopened')
       /\ (s \in reopened => s \in reopened')

LEMMA LiftLifts ==
    ASSUME TypeOK, NEW S \in SUBSET Sale, Lift(S), NEW s \in Sale
    PROVE  LiftedOnly(s)
  BY DEF Lift, LiftedOnly, TypeOK, Entry

LEMMA CronLifts ==
    ASSUME TypeInv, NEW s \in Sale,
           \/ ReleaseFinished \/ SweepFind \/ SweepRelease \/ ReleaseStale
           \/ \E x \in Sale, a \in Agent : AssignAgent(x, a)
    PROVE  LiftedOnly(s)
  <1>1. CASE ReleaseFinished
    BY <1>1, LiftLifts DEF ReleaseFinished, Finished, TypeInv
  <1>2. CASE SweepFind
    BY <1>2 DEF SweepFind, LiftedOnly
  <1>3. CASE SweepRelease
    BY <1>3, LiftLifts DEF SweepRelease, Swept, TypeInv
  <1>4. CASE ReleaseStale
    BY <1>4 DEF ReleaseStale, LiftedOnly, TypeInv, TypeOK, Entry
  <1>5. ASSUME NEW x \in Sale, NEW a \in Agent, AssignAgent(x, a)
        PROVE  LiftedOnly(s)
    BY <1>5 DEF AssignAgent, LiftedOnly, TypeInv, TypeOK, Entry
  <1> QED
    BY <1>1, <1>2, <1>3, <1>4, <1>5

LEMMA StaffLifts ==
    ASSUME TypeInv, NEW s \in Sale,
           \/ StaffStep
           \/ \E w \in Worker : ReleaseWorker(w) \/ RemoveWorker(w)
           \/ \E w \in Worker, given \in SUBSET Fields : UpdateWorker(w, given)
    PROVE  LiftedOnly(s)
  <1>1. CASE TrimRead
    BY <1>1 DEF TrimRead, LiftedOnly
  <1>2. CASE TrimWrite
    BY <1>2, LiftLifts DEF TrimWrite, TypeInv
  <1>3. CASE StaffRelease
    BY <1>3, LiftLifts DEF StaffRelease, Mine, TypeInv
  <1>4. CASE DeleteRow
    BY <1>4, LiftLifts DEF DeleteRow, TypeInv
  <1>5. ASSUME NEW w \in Worker, ReleaseWorker(w)
        PROVE  LiftedOnly(s)
    BY <1>5, LiftLifts DEF ReleaseWorker, Mine, TypeInv
  <1>6. ASSUME NEW w \in Worker, RemoveWorker(w)
        PROVE  LiftedOnly(s)
    BY <1>6 DEF RemoveWorker, LiftedOnly
  <1>7. ASSUME NEW w \in Worker, NEW given \in SUBSET Fields, UpdateWorker(w, given)
        PROVE  LiftedOnly(s)
    BY <1>7 DEF UpdateWorker, LiftedOnly
  <1> QED
    BY <1>1, <1>2, <1>3, <1>4, <1>5, <1>6, <1>7 DEF StaffStep

\* The stamp is the only step of a poll that writes a claim, on a free row, for a
\* worker that is registered.
LEMMA PollStamps ==
    ASSUME TypeInv, NEW r \in Request, PollStep(r), NEW s \in Sale
    PROVE  /\ reopened' = reopened
           /\ \/ entry' = entry
              \/ /\ entry[s].by = NoOne /\ entry'[s].by = req[r].w
                 /\ row[req[r].w].exists /\ row' = row
              \/ entry'[s] = entry[s] /\ row' = row
  <1>1. CASE ClaimStamp(r)
    <2>1. CASE Known(req[r].w)
      <3>1. req[r].w \in Worker
        BY <1>1 DEF ClaimStamp, TypeInv, Served
      <3>2. CASE s \in Won(r)
        BY <1>1, <2>1, <3>1, <3>2 DEF ClaimStamp, Won, Known, TypeInv, TypeOK, Entry
      <3>3. CASE s \notin Won(r)
        BY <1>1, <2>1, <3>3 DEF ClaimStamp, TypeInv, TypeOK
      <3> QED BY <3>2, <3>3
    <2>2. CASE ~Known(req[r].w)
      BY <1>1, <2>2 DEF ClaimStamp
    <2> QED BY <2>1, <2>2
  <1>2. CASE ~ClaimStamp(r)
    BY <1>2 DEF PollStep, PollRegister, ClaimRead, ClaimOwn, ClaimRest, ClaimReread
  <1> QED
    BY <1>1, <1>2

\* A replacement writes back the claims of registered workers and records every
\* claim it changes.
LEMMA RefreshWrites ==
    ASSUME TypeInv, RefreshReplace, NEW s \in Sale
    PROVE  /\ gen' # gen /\ row' = row
           /\ s \in reopened => s \in reopened'
           /\ (entry[s].by # NoOne /\ entry'[s].by # entry[s].by) => s \in reopened'
           /\ entry'[s].by # NoOne => row[entry'[s].by].exists
  <1>1. PICK listed \in SUBSET Sale, work \in SUBSET Sale :
          /\ entry' = Rebuilt(listed, work)
          /\ \A x \in listed : refresh.by[x] # NoOne => row[refresh.by[x]].exists
    BY DEF RefreshReplace, Known
  <1>2. entry'[s].by # NoOne => row[entry'[s].by].exists
    BY <1>1 DEF Rebuilt, Unlisted
  <1> QED
    BY <1>2 DEF RefreshReplace, TypeInv, TypeOK

\* What any step does to the claim on a sale.
LEMMA HolderStep ==
    ASSUME TypeInv, [Next]_vars, NEW s \in Sale
    PROVE  /\ s \in reopened => s \in reopened'
           /\ (entry[s].by # NoOne /\ entry'[s].by # entry[s].by) => s \in reopened'
           /\ (entry[s].by # NoOne /\ entry'[s].by # NoOne)
                 => entry'[s].by = entry[s].by \/ gen' # gen
  <1>1. CASE LiftedOnly(s)
    BY <1>1 DEF LiftedOnly
  <1>2. CASE \E r \in Request : PollStep(r)
    BY <1>2, PollStamps
  <1>3. CASE RefreshReplace
    BY <1>3, RefreshWrites
  <1>4. CASE \/ RefreshRead \/ RefreshFail \/ Tick \/ Restart \/ UNCHANGED vars
            \/ \E r \in Request, w \in Worker, a \in Agent \cup {NoOne} : PollArrive(r, w, a)
    BY <1>4 DEF RefreshRead, RefreshFail, Tick, Restart, PollArrive, vars
  <1> QED
    BY <1>1, <1>2, <1>3, <1>4, CronLifts, StaffLifts DEF Next

\* ClaimNeverSteals holds of the code for any number of machines, requests and
\* staff operations in flight: the stamp's WHERE is what makes it true.
THEOREM ClaimsAreNotStolen == Spec => ClaimNeverSteals
  <1> DEFINE Passes == \A s \in Sale : (entry[s].by # NoOne /\ entry'[s].by # NoOne)
                                     => entry'[s].by = entry[s].by \/ gen' # gen
  <1>1. TypeInv /\ [Next]_vars => [Passes]_vars
    BY HolderStep
  <1>2. Spec => []TypeInv
    BY InitType, NextType, PTL DEF Spec
  <1> QED
    BY <1>1, <1>2, PTL DEF Spec, ClaimNeverSteals

-----------------------------------------------------------------------------
(* Claims belong to registered workers                                      *)

\* A worker row disappears in DeleteRow only.
LEMMA RowsStay ==
    ASSUME TypeInv, [Next]_vars, NEW w \in Worker, row[w].exists
    PROVE  row'[w].exists \/ (DeleteRow /\ staff.w = w)
  <1>1. CASE row' = row
    BY <1>1
  <1>2. ASSUME NEW r \in Request, PollRegister(r)
        PROVE  row'[w].exists
    <2>1. \/ row' = row
          \/ \E new : row' = [row EXCEPT ![req[r].w] = new] /\ new.exists
      <3> DEFINE a == req[r].agent
                 born == [exists |-> TRUE, enabled |-> TRUE, quota |-> DefaultQuota,
                          agent |-> a, seen |-> now]
                 kept == [row[req[r].w] EXCEPT !.seen = now,
                                               !.agent = IF a = NoOne THEN @ ELSE a]
                 new  == IF row[req[r].w].exists THEN kept ELSE born
      <3>1. row[req[r].w] \in Row
        BY <1>2 DEF PollRegister, TypeInv, TypeOK, Served
      <3>2. new.exists
        BY <3>1 DEF Row
      <3>3. row' = row \/ row' = [row EXCEPT ![req[r].w] = new]
        BY <1>2 DEF PollRegister
      <3> HIDE DEF new
      <3> QED BY <3>2, <3>3
    <2> QED BY <2>1 DEF TypeInv, TypeOK
  <1>3. ASSUME NEW v \in Worker, NEW given \in SUBSET Fields, UpdateWorker(v, given)
        PROVE  row'[w].exists
    BY <1>3 DEF UpdateWorker, TypeInv, TypeOK, Row
  <1>4. CASE DeleteRow
    BY <1>4 DEF DeleteRow, TypeInv, TypeOK
  <1>5. ASSUME NEW r \in Request, PollStep(r), ~PollRegister(r)
        PROVE  row' = row
    BY <1>5 DEF PollStep, ClaimRead, ClaimOwn, ClaimRest, ClaimStamp, ClaimReread
  <1>6. CASE \/ \E r \in Request, v \in Worker, a \in Agent \cup {NoOne} : PollArrive(r, v, a)
             \/ ReleaseFinished \/ SweepFind \/ SweepRelease \/ ReleaseStale
             \/ \E s \in Sale, a \in Agent : AssignAgent(s, a)
             \/ RefreshRead \/ RefreshReplace \/ RefreshFail
             \/ \E v \in Worker : ReleaseWorker(v) \/ RemoveWorker(v)
             \/ TrimRead \/ TrimWrite \/ StaffRelease
             \/ Tick \/ Restart \/ UNCHANGED vars
    BY <1>1, <1>6
       DEF PollArrive, ReleaseFinished, SweepFind, SweepRelease, ReleaseStale,
           AssignAgent, RefreshRead, RefreshReplace, RefreshFail, ReleaseWorker,
           RemoveWorker, TrimRead, TrimWrite, StaffRelease, Tick, Restart, vars
  <1> QED
    BY <1>1, <1>2, <1>3, <1>4, <1>5, <1>6 DEF Next, StaffStep

LEMMA RegisteredStep ==
    TypeInv /\ HoldersRegistered /\ [Next]_vars => HoldersRegistered'
  <1> SUFFICES ASSUME TypeInv, HoldersRegistered, [Next]_vars,
                      NEW s \in Sale, entry'[s].by # NoOne
               PROVE  row'[entry'[s].by].exists
    BY DEF HoldersRegistered
  <1>1. entry[s].by # NoOne => entry[s].by \in Worker /\ row[entry[s].by].exists
    BY DEF HoldersRegistered, TypeInv, TypeOK, Entry
  <1>2. CASE DeleteRow
    <2>1. entry'[s].by = entry[s].by /\ entry[s].by # staff.w
      BY <1>2 DEF DeleteRow, Lift, TypeInv, TypeOK, Entry
    <2> QED BY <1>1, <1>2, <2>1 DEF DeleteRow, TypeInv, TypeOK
  <1>3. CASE ~DeleteRow /\ entry'[s].by = entry[s].by
    BY <1>1, <1>3, RowsStay
  <1>4. ASSUME NEW r \in Request, PollStep(r), entry'[s].by # entry[s].by
        PROVE  row'[entry'[s].by].exists
    BY <1>4, PollStamps
  <1>5. CASE RefreshReplace
    BY <1>5, RefreshWrites
  <1>6. CASE \/ RefreshRead \/ RefreshFail \/ Tick \/ Restart \/ UNCHANGED vars
             \/ \E r \in Request, w \in Worker, a \in Agent \cup {NoOne} : PollArrive(r, w, a)
    <2>1. entry' = entry
      BY <1>6 DEF RefreshRead, RefreshFail, Tick, Restart, PollArrive, vars
    <2> QED BY <1>2, <1>3, <2>1
  <1>7. CASE LiftedOnly(s)
    BY <1>2, <1>3, <1>7 DEF LiftedOnly
  <1> QED
    BY <1>2, <1>3, <1>4, <1>5, <1>6, <1>7, CronLifts, StaffLifts DEF Next

\* HoldersRegistered for every instance: also a refresh that writes back claims
\* read before their worker was removed leaves no claim without a worker.
THEOREM ClaimsHaveWorkers == Spec => []HoldersRegistered
  <1>1. Init => HoldersRegistered
    BY DEF Init, HoldersRegistered, Unlisted
  <1> QED
    BY <1>1, InitType, NextType, RegisteredStep, PTL DEF Spec

-----------------------------------------------------------------------------
(* Exclusive answers                                                        *)

\* A sale a VM was told, and that was never reopened, is still its own.
AnswersHeld ==
    \A w \in Worker, s \in Sale : s \in told[w] \ reopened => entry[s].by = w

\* A request about to answer from its first read may rely on it as well.
ReadsHeld ==
    \A r \in Request, s \in Sale :
        s \in req[r].live \ reopened => entry[s].by = req[r].w /\ req[r].w # NoOne

\* Ending or repeating a claim gives its own VM the answer and no other.
LEMMA FinishTold ==
    ASSUME TypeOK, NEW r \in Request, NEW mine, Finish(r, mine), NEW w \in Worker
    PROVE  told'[w] = told[w] \/ (w = req[r].w /\ told'[w] = mine)
  BY DEF Finish, Reply, TypeOK

\* No step but those of a poll and a restart touches a request or an answer.
LEMMA PollsOnly ==
    ASSUME [Next]_vars,
           ~\E r \in Request : PollStep(r),
           ~\E r \in Request, w \in Worker, a \in Agent \cup {NoOne} : PollArrive(r, w, a)
    PROVE  UNCHANGED told /\ (Restart \/ UNCHANGED req)
  <1>1. CASE ReleaseFinished \/ SweepFind \/ SweepRelease \/ ReleaseStale
    BY <1>1 DEF ReleaseFinished, SweepFind, SweepRelease, ReleaseStale
  <1>2. ASSUME NEW s \in Sale, NEW a \in Agent, AssignAgent(s, a)
        PROVE  UNCHANGED <<told, req>>
    BY <1>2 DEF AssignAgent
  <1>3. CASE RefreshRead \/ RefreshReplace \/ RefreshFail
    BY <1>3 DEF RefreshRead, RefreshReplace, RefreshFail
  <1>4. ASSUME NEW w \in Worker, ReleaseWorker(w) \/ RemoveWorker(w)
        PROVE  UNCHANGED <<told, req>>
    BY <1>4 DEF ReleaseWorker, RemoveWorker
  <1>5. ASSUME NEW w \in Worker, NEW given, UpdateWorker(w, given)
        PROVE  UNCHANGED <<told, req>>
    BY <1>5 DEF UpdateWorker
  <1>6. CASE StaffStep
    BY <1>6 DEF StaffStep, TrimRead, TrimWrite, StaffRelease, DeleteRow
  <1>7. CASE Tick \/ Restart \/ UNCHANGED vars
    BY <1>7 DEF Tick, Restart, vars
  <1> QED
    BY <1>1, <1>2, <1>3, <1>4, <1>5, <1>6, <1>7 DEF Next

\* A new answer holds claims of the VM it goes to; nothing else moves meanwhile.
LEMMA AnswerStep ==
    ASSUME TypeInv, ReadsHeld, [Next]_vars, NEW w \in Worker
    PROVE  \/ told'[w] = told[w]
           \/ /\ UNCHANGED <<entry, reopened>>
              /\ \A s \in told'[w] \ reopened : entry[s].by = w
  <1>1. CASE UNCHANGED told
    BY <1>1
  <1>2. ASSUME NEW r \in Request, PollRegister(r), told' # told
        PROVE  told'[w] \in {told[w], {}} /\ UNCHANGED <<entry, reopened>>
    <2>1. Reply(r, {})
      BY <1>2 DEF PollRegister
    <2> QED BY <1>2, <2>1 DEF PollRegister, Reply, TypeInv, TypeOK
  <1>3. ASSUME NEW r \in Request, ClaimRead(r) \/ ClaimReread(r), told' # told
        PROVE  \/ told'[w] = told[w]
               \/ w = req[r].w /\ told'[w] \subseteq Live(w, req[r].day)
    <2>1. PICK mine \in SUBSET Live(req[r].w, req[r].day) : Finish(r, mine)
      BY <1>3, EarliestSubset DEF ClaimRead, ClaimReread
    <2> QED BY <2>1, FinishTold DEF TypeInv
  <1>4. ASSUME NEW r \in Request, ClaimRead(r) \/ ClaimReread(r)
        PROVE  UNCHANGED <<entry, reopened>>
    BY <1>4 DEF ClaimRead, ClaimReread
  <1>5. ASSUME NEW r \in Request, ClaimRest(r), told' # told
        PROVE  \/ told'[w] = told[w]
               \/ w = req[r].w /\ told'[w] = req[r].live
    <2>1. Finish(r, req[r].live)
      BY <1>5 DEF ClaimRest
    <2> QED BY <2>1, FinishTold DEF TypeInv
  <1>6. ASSUME NEW r \in Request, ClaimRest(r)
        PROVE  UNCHANGED <<entry, reopened>> /\ req[r].live \in SUBSET Sale
    BY <1>6 DEF ClaimRest, TypeInv, TypeOK, Poll
  <1>7. ASSUME NEW r \in Request, ClaimOwn(r) \/ ClaimStamp(r)
        PROVE  UNCHANGED told
    BY <1>7 DEF ClaimOwn, ClaimStamp
  <1>8. ASSUME NEW r \in Request, PollStep(r), told' # told, told'[w] # told[w]
        PROVE  UNCHANGED <<entry, reopened>> /\ \A s \in told'[w] \ reopened : entry[s].by = w
    <2>1. CASE PollRegister(r)
      BY <1>2, <1>8, <2>1
    <2>2. CASE ClaimRead(r) \/ ClaimReread(r)
      BY <1>3, <1>4, <1>8, <2>2 DEF Live, Mine
    <2>3. CASE ClaimRest(r)
      BY <1>5, <1>6, <1>8, <2>3 DEF ReadsHeld
    <2> QED BY <1>7, <1>8, <2>1, <2>2, <2>3 DEF PollStep
  <1>9. CASE ~\E r \in Request : PollStep(r)
    <2>1. CASE \E r \in Request, v \in Worker, a \in Agent \cup {NoOne} : PollArrive(r, v, a)
      BY <2>1 DEF PollArrive
    <2> QED BY <1>9, <2>1, PollsOnly
  <1> QED
    BY <1>1, <1>8, <1>9

\* What a request carries from its first read is dropped, kept, or read just now.
LEMMA ReadStep ==
    ASSUME TypeInv, [Next]_vars, NEW r \in Request
    PROVE  \/ req'[r].live = {}
           \/ req'[r].live = req[r].live /\ req'[r].w = req[r].w
           \/ /\ UNCHANGED <<entry, reopened>> /\ req[r].w \in Worker
              /\ req'[r].w = req[r].w /\ req'[r].live = Live(req[r].w, req[r].day)
  <1>1. CASE req'[r] = req[r]
    BY <1>1
  <1>2. ASSUME NEW q \in Request, NEW w \in Worker, NEW a \in Agent \cup {NoOne},
               PollArrive(q, w, a)
        PROVE  req'[r] = req[r] \/ req'[r].live = {}
    BY <1>2 DEF PollArrive, NoPoll, TypeInv, TypeOK
  <1>3. ASSUME NEW q \in Request, NEW mine, Finish(q, mine)
        PROVE  req'[r] = req[r] \/ req'[r].live = {}
    BY <1>3, FinishFrame DEF TypeInv
  <1>4. ASSUME NEW q \in Request, Drop(q)
        PROVE  req'[r] = req[r] \/ req'[r].live = {}
    BY <1>4 DEF Drop, NoPoll, TypeInv, TypeOK
  <1>5. ASSUME NEW q \in Request, PollRegister(q)
        PROVE  \/ Drop(q)
               \/ req'[r].live = req[r].live /\ req'[r].w = req[r].w
    <2>1. \/ Drop(q)
          \/ \E n : req' = [req EXCEPT ![q].pc = "read", ![q].agent = NoOne, ![q].quota = n]
      BY <1>5 DEF PollRegister, Reply
    <2> QED BY <2>1 DEF TypeInv, TypeOK, Poll
  <1>6. ASSUME NEW q \in Request, ClaimRead(q)
        PROVE  \/ \E mine : Finish(q, mine)
               \/ req'[r] = req[r]
               \/ /\ UNCHANGED <<entry, reopened>> /\ req[r].w \in Worker
                  /\ req'[r].w = req[r].w /\ req'[r].live = Live(req[r].w, req[r].day)
    <2>1. \/ \E mine : Finish(q, mine)
          \/ req' = [req EXCEPT ![q].pc = "own", ![q].live = Live(req[q].w, req[q].day)]
      BY <1>6 DEF ClaimRead
    <2>2. UNCHANGED <<entry, reopened>> /\ req[q].w \in Worker
      BY <1>6 DEF ClaimRead, TypeInv, Served
    <2> QED BY <2>1, <2>2 DEF TypeInv, TypeOK, Poll
  <1>7. ASSUME NEW q \in Request, ClaimOwn(q)
        PROVE  req'[r].live = req[r].live /\ req'[r].w = req[r].w
    BY <1>7 DEF ClaimOwn, TypeInv, TypeOK, Poll
  <1>8. ASSUME NEW q \in Request, ClaimRest(q)
        PROVE  req'[r] = req[r] \/ req'[r].live = {}
    <2>1. \/ Finish(q, req[q].live)
          \/ \E C : req' = [req EXCEPT ![q].pc = "stamp", ![q].cand = C, ![q].live = {}]
      BY <1>8 DEF ClaimRest
    <2> QED BY <1>3, <2>1, ZenonT(60) DEF TypeInv, TypeOK, Poll
  <1>9. ASSUME NEW q \in Request, ClaimStamp(q)
        PROVE  \/ Drop(q)
               \/ req'[r].live = req[r].live /\ req'[r].w = req[r].w
    BY <1>9 DEF ClaimStamp, TypeInv, TypeOK, Poll
  <1>10. ASSUME NEW q \in Request, ClaimReread(q)
         PROVE  Drop(q) \/ \E mine : Finish(q, mine)
    BY <1>10 DEF ClaimReread
  <1>11. ASSUME NEW q \in Request, PollStep(q)
         PROVE  \/ req'[r].live = {}
                \/ req'[r].live = req[r].live /\ req'[r].w = req[r].w
                \/ /\ UNCHANGED <<entry, reopened>> /\ req[r].w \in Worker
                   /\ req'[r].w = req[r].w /\ req'[r].live = Live(req[r].w, req[r].day)
    BY <1>3, <1>4, <1>5, <1>6, <1>7, <1>8, <1>9, <1>10, <1>11 DEF PollStep
  <1>12. CASE Restart
    BY <1>12 DEF Restart, NoPoll
  <1>13. CASE UNCHANGED req
    BY <1>13
  <1> QED
    BY <1>1, <1>2, <1>11, <1>12, <1>13, PollsOnly

LEMMA HeldStep ==
    TypeInv /\ AnswersHeld /\ ReadsHeld /\ [Next]_vars => AnswersHeld' /\ ReadsHeld'
  <1> SUFFICES ASSUME TypeInv, AnswersHeld, ReadsHeld, [Next]_vars
               PROVE  AnswersHeld' /\ ReadsHeld'
    OBVIOUS
  <1>1. ASSUME NEW w \in Worker, NEW s \in Sale, s \in told'[w], s \notin reopened'
        PROVE  entry'[s].by = w
    <2>1. CASE told'[w] = told[w]
      <3>1. s \notin reopened
        BY <1>1, HolderStep
      <3>2. entry[s].by = w /\ w # NoOne
        BY <1>1, <2>1, <3>1, ScraperAssumption DEF AnswersHeld
      <3> QED BY <1>1, <3>2, HolderStep
    <2>2. CASE told'[w] # told[w]
      BY <1>1, <2>2, AnswerStep
    <2> QED BY <2>1, <2>2
  <1>2. ASSUME NEW r \in Request, NEW s \in Sale, s \in req'[r].live, s \notin reopened'
        PROVE  entry'[s].by = req'[r].w /\ req'[r].w # NoOne
    <2>1. CASE req'[r].live = req[r].live /\ req'[r].w = req[r].w
      <3>1. s \notin reopened
        BY <1>2, HolderStep
      <3>2. entry[s].by = req[r].w /\ req[r].w # NoOne
        BY <1>2, <2>1, <3>1 DEF ReadsHeld
      <3> QED BY <1>2, <2>1, <3>2, HolderStep
    <2>2. CASE /\ UNCHANGED <<entry, reopened>> /\ req[r].w \in Worker
               /\ req'[r].w = req[r].w /\ req'[r].live = Live(req[r].w, req[r].day)
      BY <1>2, <2>2, ScraperAssumption DEF Live, Mine
    <2> QED BY <1>2, <2>1, <2>2, ReadStep
  <1> QED
    BY <1>1, <1>2 DEF AnswersHeld, ReadsHeld

\* ExclusiveAnswers for any number of VMs and of requests racing for the same
\* sales: two open tabs on one sale mean that its claim was lifted in between.
THEOREM AnswersAreExclusive == Spec => []ExclusiveAnswers
  <1>1. Init => AnswersHeld /\ ReadsHeld
    BY DEF Init, AnswersHeld, ReadsHeld, NoPoll
  <1>2. TypeInv /\ AnswersHeld => ExclusiveAnswers
    BY DEF AnswersHeld, ExclusiveAnswers, TypeInv, TypeOK
  <1> QED
    BY <1>1, <1>2, InitType, NextType, HeldStep, PTL DEF Spec

-----------------------------------------------------------------------------
(* The abstract deal                                                        *)

\* The claims a refresh is about to write back are still in force, or the sale has
\* changed hands since.
RefreshHeld ==
    refresh.busy => \A s \in Sale :
        refresh.by[s] \in {NoOne, entry[s].by} \/ s \in reopened

\* Only the refresh itself writes what it has read.
LEMMA RefreshFrame ==
    ASSUME TypeInv, [Next]_vars
    PROVE  \/ refresh' = refresh
           \/ refresh' = NoRefresh
           \/ /\ RefreshRead /\ refresh'.by = [s \in Sale |-> entry[s].by]
              /\ UNCHANGED <<entry, reopened>>
  <1>1. CASE ReleaseFinished \/ SweepFind \/ SweepRelease \/ ReleaseStale
    BY <1>1 DEF ReleaseFinished, SweepFind, SweepRelease, ReleaseStale
  <1>2. ASSUME NEW s \in Sale, NEW a \in Agent, AssignAgent(s, a)
        PROVE  UNCHANGED refresh
    BY <1>2 DEF AssignAgent
  <1>3. CASE RefreshRead
    BY <1>3 DEF RefreshRead
  <1>4. CASE RefreshReplace \/ RefreshFail
    BY <1>4 DEF RefreshReplace, RefreshFail
  <1>5. ASSUME NEW w \in Worker, ReleaseWorker(w) \/ RemoveWorker(w)
        PROVE  UNCHANGED refresh
    BY <1>5 DEF ReleaseWorker, RemoveWorker
  <1>6. ASSUME NEW w \in Worker, NEW given, UpdateWorker(w, given)
        PROVE  UNCHANGED refresh
    BY <1>6 DEF UpdateWorker
  <1>7. CASE StaffStep
    BY <1>7 DEF StaffStep, TrimRead, TrimWrite, StaffRelease, DeleteRow
  <1>8. CASE Tick \/ Restart \/ UNCHANGED vars
    BY <1>8 DEF Tick, Restart, vars
  <1>9. ASSUME NEW r \in Request, PollStep(r)
        PROVE  UNCHANGED refresh
    BY <1>9 DEF PollStep, PollRegister, ClaimRead, ClaimOwn, ClaimRest, ClaimStamp,
                ClaimReread
  <1>10. ASSUME NEW r \in Request, NEW w, NEW a, PollArrive(r, w, a)
         PROVE  UNCHANGED refresh
    BY <1>10 DEF PollArrive
  <1> QED
    BY <1>1, <1>2, <1>3, <1>4, <1>5, <1>6, <1>7, <1>8, <1>9, <1>10 DEF Next

LEMMA RefreshHeldStep == TypeInv /\ RefreshHeld /\ [Next]_vars => RefreshHeld'
  <1> SUFFICES ASSUME TypeInv, RefreshHeld, [Next]_vars, refresh'.busy, NEW s \in Sale
               PROVE  refresh'.by[s] \in {NoOne, entry'[s].by} \/ s \in reopened'
    BY DEF RefreshHeld
  <1>1. CASE refresh' = refresh
    <2>1. refresh.by[s] \in {NoOne, entry[s].by} \/ s \in reopened
      BY <1>1 DEF RefreshHeld
    <2> QED BY <1>1, <2>1, HolderStep
  <1>2. CASE refresh' = NoRefresh
    BY <1>2 DEF NoRefresh
  <1>3. CASE refresh'.by = [x \in Sale |-> entry[x].by] /\ UNCHANGED <<entry, reopened>>
    BY <1>3
  <1> QED
    BY <1>1, <1>2, <1>3, RefreshFrame

\* Freeing rows is taking sales back.
LEMMA LiftTakesBack ==
    ASSUME TypeInv, NEW S \in SUBSET Sale, Lift(S), UNCHANGED <<told, gen>>
    PROVE  Deal!TakeBack
  <1>1. [s \in Sale |-> entry'[s].by] =
           [s \in Sale |-> IF s \in S THEN NoOne ELSE [x \in Sale |-> entry[x].by][s]]
    BY DEF Lift, TypeInv, TypeOK, Entry
  <1>2. reopened' = reopened \cup {s \in S : [x \in Sale |-> entry[x].by][s] # NoOne}
    BY DEF Lift
  <1> QED
    BY <1>1, <1>2 DEF Deal!TakeBack

\* What leaves claims, answers and calendar alone is a stutter of the deal.
LEMMA QuietStutters ==
    ASSUME UNCHANGED <<told, reopened, gen>>, \A s \in Sale : entry'[s].by = entry[s].by
    PROVE  UNCHANGED Deal!dealVars
  BY DEF Deal!dealVars

LEMMA CronDeals ==
    ASSUME TypeInv,
           \/ ReleaseFinished \/ SweepFind \/ SweepRelease \/ ReleaseStale
           \/ \E s \in Sale, a \in Agent : AssignAgent(s, a)
    PROVE  [Deal!DealNext]_Deal!dealVars
  <1>1. CASE ReleaseFinished
    BY <1>1, LiftTakesBack DEF ReleaseFinished, Finished, Deal!DealNext
  <1>2. CASE SweepFind
    BY <1>2, QuietStutters DEF SweepFind
  <1>3. CASE SweepRelease
    BY <1>3, LiftTakesBack DEF SweepRelease, Swept, Deal!DealNext
  <1>4. CASE ReleaseStale
    <2>1. [s \in Sale |-> entry'[s].by] =
             [s \in Sale |-> IF s \in Stale THEN NoOne ELSE [x \in Sale |-> entry[x].by][s]]
      BY <1>4 DEF ReleaseStale, TypeInv, TypeOK, Entry
    <2>2. reopened' = reopened \cup {s \in Stale : [x \in Sale |-> entry[x].by][s] # NoOne}
      BY <1>4 DEF ReleaseStale, Stale
    <2>3. Stale \in SUBSET Sale /\ UNCHANGED <<told, gen>>
      BY <1>4 DEF ReleaseStale, Stale
    <2> QED BY <2>1, <2>2, <2>3 DEF Deal!TakeBack, Deal!DealNext
  <1>5. ASSUME NEW x \in Sale, NEW a \in Agent, AssignAgent(x, a)
        PROVE  UNCHANGED Deal!dealVars
    <2>1. \A s \in Sale : entry'[s].by = entry[s].by
      BY <1>5 DEF AssignAgent, TypeInv, TypeOK, Entry
    <2> QED BY <1>5, <2>1, QuietStutters DEF AssignAgent
  <1> QED
    BY <1>1, <1>2, <1>3, <1>4, <1>5

LEMMA StaffDeals ==
    ASSUME TypeInv,
           \/ StaffStep
           \/ \E w \in Worker : ReleaseWorker(w) \/ RemoveWorker(w)
           \/ \E w \in Worker, given \in SUBSET Fields : UpdateWorker(w, given)
    PROVE  [Deal!DealNext]_Deal!dealVars
  <1>1. CASE TrimRead
    BY <1>1, QuietStutters DEF TrimRead
  <1>2. CASE TrimWrite
    BY <1>2, LiftTakesBack DEF TrimWrite, Deal!DealNext
  <1>3. CASE StaffRelease
    BY <1>3, LiftTakesBack DEF StaffRelease, Mine, Deal!DealNext
  <1>4. CASE DeleteRow
    BY <1>4, LiftTakesBack DEF DeleteRow, Deal!DealNext
  <1>5. ASSUME NEW w \in Worker, ReleaseWorker(w)
        PROVE  Deal!TakeBack
    BY <1>5, LiftTakesBack DEF ReleaseWorker, Mine
  <1>6. ASSUME NEW w \in Worker, RemoveWorker(w)
        PROVE  UNCHANGED Deal!dealVars
    BY <1>6, QuietStutters DEF RemoveWorker
  <1>7. ASSUME NEW w \in Worker, NEW given \in SUBSET Fields, UpdateWorker(w, given)
        PROVE  UNCHANGED Deal!dealVars
    BY <1>7, QuietStutters DEF UpdateWorker
  <1> QED
    BY <1>1, <1>2, <1>3, <1>4, <1>5, <1>6, <1>7 DEF StaffStep, Deal!DealNext

\* A stamp gives free sales to one VM.
LEMMA StampGives ==
    ASSUME TypeInv, NEW r \in Request, ClaimStamp(r)
    PROVE  [Deal!DealNext]_Deal!dealVars
  <1>1. CASE ~Known(req[r].w)
    BY <1>1, QuietStutters DEF ClaimStamp
  <1>2. CASE Known(req[r].w)
    <2> DEFINE holder == [s \in Sale |-> entry[s].by]
    <2>1. req[r].w \in Worker
      BY DEF ClaimStamp, TypeInv, Served
    <2>2. [s \in Sale |-> entry'[s].by] =
             [s \in Sale |-> IF s \in Won(r) THEN req[r].w ELSE holder[s]]
      BY <1>2 DEF ClaimStamp, Won, TypeInv, TypeOK, Entry
    <2>3. Won(r) \in SUBSET {s \in Sale : holder[s] = NoOne}
      BY DEF Won
    <2>4. UNCHANGED <<told, reopened, gen>>
      BY DEF ClaimStamp
    <2> QED BY <2>1, <2>2, <2>3, <2>4 DEF Deal!Give, Deal!DealNext
  <1> QED
    BY <1>1, <1>2

\* The other steps of a poll change at most the answer of their own VM.
LEMMA PollAnswers ==
    ASSUME TypeInv, NEW r \in Request, PollStep(r), ~ClaimStamp(r)
    PROVE  /\ UNCHANGED <<entry, reopened, gen>> /\ req[r].w \in Worker
           /\ told' = told \/ \E S \in SUBSET Sale : told' = [told EXCEPT ![req[r].w] = S]
  <1>1. req[r].w \in Worker
    BY DEF PollStep, PollRegister, ClaimRead, ClaimOwn, ClaimRest, ClaimReread,
           TypeInv, Served
  <1>2. ASSUME NEW mine \in SUBSET Sale, Finish(r, mine)
        PROVE  told' = told \/ \E S \in SUBSET Sale : told' = [told EXCEPT ![req[r].w] = S]
    BY <1>2 DEF Finish, Reply
  <1>3. CASE PollRegister(r)
    <2>1. told' = told \/ Reply(r, {})
      BY <1>3 DEF PollRegister
    <2> QED BY <1>1, <1>3, <2>1 DEF PollRegister, Reply
  <1>4. CASE ClaimRead(r) \/ ClaimReread(r)
    <2>1. told' = told \/ \E mine \in SUBSET Sale : Finish(r, mine)
      BY <1>4, EarliestSubset DEF ClaimRead, ClaimReread, Live, Mine
    <2> QED BY <1>1, <1>2, <1>4, <2>1 DEF ClaimRead, ClaimReread
  <1>5. CASE ClaimOwn(r)
    BY <1>1, <1>5 DEF ClaimOwn
  <1>6. CASE ClaimRest(r)
    <2>1. req[r].live \in SUBSET Sale
      BY DEF TypeInv, TypeOK, Poll
    <2>2. told' = told \/ Finish(r, req[r].live)
      BY <1>6 DEF ClaimRest
    <2> QED BY <1>1, <1>2, <1>6, <2>1, <2>2 DEF ClaimRest
  <1> QED
    BY <1>3, <1>4, <1>5, <1>6 DEF PollStep

LEMMA PollDeals ==
    ASSUME TypeInv, ReadsHeld, NEW r \in Request, PollStep(r), [Next]_vars
    PROVE  [Deal!DealNext]_Deal!dealVars
  <1>1. CASE ClaimStamp(r)
    BY <1>1, StampGives
  <1>2. CASE ~ClaimStamp(r)
    <2>1. /\ UNCHANGED <<entry, reopened, gen>> /\ req[r].w \in Worker
          /\ told' = told \/ \E S \in SUBSET Sale : told' = [told EXCEPT ![req[r].w] = S]
      BY <1>2, PollAnswers
    <2>2. CASE told' = told
      BY <2>1, <2>2, QuietStutters
    <2>3. CASE told' # told
      <3>1. PICK S \in SUBSET Sale : told' = [told EXCEPT ![req[r].w] = S]
        BY <2>1, <2>3
      <3>2. told'[req[r].w] = S /\ told'[req[r].w] # told[req[r].w]
        BY <2>1, <2>3, <3>1 DEF TypeInv, TypeOK
      <3>3. \A s \in S \ reopened : entry[s].by = req[r].w
        BY <2>1, <3>2, AnswerStep
      <3> QED BY <2>1, <3>1, <3>3 DEF Deal!Answer, Deal!DealNext
    <2> QED BY <2>2, <2>3
  <1> QED
    BY <1>1, <1>2

\* A calendar replacement writes back claims that are still in force, or that have
\* moved since they were read.
LEMMA RefreshDeals ==
    ASSUME TypeInv, RefreshHeld, RefreshReplace
    PROVE  Deal!Replace
  <1> DEFINE holder == [s \in Sale |-> entry[s].by]
             next == [s \in Sale |-> entry'[s].by]
  <1>1. PICK listed \in SUBSET Sale, work \in SUBSET Sale :
          entry' = Rebuilt(listed, work)
    BY DEF RefreshReplace
  <1>2. ASSUME NEW s \in Sale
        PROVE  next[s] \in {NoOne, refresh.by[s]}
    BY <1>1 DEF Rebuilt, Unlisted
  <1>3. \A s \in Sale : next[s] \in {holder[s], NoOne} \/ s \in reopened
    BY <1>2 DEF RefreshHeld, RefreshReplace
  <1>4. next \in [Sale -> Worker \cup {NoOne}]
    BY <1>2 DEF TypeInv, TypeOK, Refresh
  <1>5. reopened' = reopened \cup {s \in Sale : holder[s] # NoOne /\ next[s] # holder[s]}
    BY DEF RefreshReplace
  <1>6. gen' = gen + 1 /\ UNCHANGED told
    BY DEF RefreshReplace
  <1> QED
    BY <1>3, <1>4, <1>5, <1>6 DEF Deal!Replace

LEMMA StepDeals ==
    TypeInv /\ ReadsHeld /\ RefreshHeld /\ [Next]_vars => [Deal!DealNext]_Deal!dealVars
  <1> SUFFICES ASSUME TypeInv, ReadsHeld, RefreshHeld, [Next]_vars
               PROVE  [Deal!DealNext]_Deal!dealVars
    OBVIOUS
  <1>1. CASE \E r \in Request : PollStep(r)
    BY <1>1, PollDeals
  <1>2. CASE RefreshReplace
    BY <1>2, RefreshDeals DEF Deal!DealNext
  <1>3. CASE \/ RefreshRead \/ RefreshFail \/ Tick \/ Restart \/ UNCHANGED vars
            \/ \E r \in Request, w \in Worker, a \in Agent \cup {NoOne} : PollArrive(r, w, a)
    <2>1. UNCHANGED <<entry, told, reopened, gen>>
      BY <1>3 DEF RefreshRead, RefreshFail, Tick, Restart, PollArrive, vars
    <2> QED BY <2>1, QuietStutters
  <1> QED
    BY <1>1, <1>2, <1>3, CronDeals, StaffDeals DEF Next

LEMMA InitDeals == Init => Deal!DealInit
  BY DEF Init, Unlisted, Deal!DealInit

\* The polls, crons, staff operations and refreshes, query by query, implement the
\* abstract deal (ImplementsDeal) for any number of VMs, sales and requests.
THEOREM WorkersImplementDeal == Spec => ImplementsDeal
  <1>1. Init => ReadsHeld /\ AnswersHeld /\ RefreshHeld
    BY DEF Init, ReadsHeld, AnswersHeld, RefreshHeld, NoPoll, NoRefresh
  <1>2. Spec => [](TypeInv /\ ReadsHeld /\ RefreshHeld)
    BY <1>1, InitType, NextType, HeldStep, RefreshHeldStep, PTL DEF Spec
  <1> QED
    BY <1>2, InitDeals, StepDeals, PTL DEF Spec, ImplementsDeal, Deal!DealSpec

-----------------------------------------------------------------------------
(* Sales under way                                                          *)

\* A step of a staff operation never leaves the operation where it was.
LEMMA ContinueMoves ==
    ASSUME staff.pc # "idle", Continue(staff.next)
    PROVE  staff' # staff
  <1>1. CASE staff.next = "idle"
    BY <1>1 DEF Continue, NoStaff
  <1>2. CASE staff.next # "idle"
    <2> DEFINE next == staff.next
               who == staff.w
    <2>1. staff' = [NoStaff EXCEPT !.pc = next, !.w = who] /\ next # "idle"
      BY <1>2 DEF Continue
    <2>2. staff'.next = "idle"
      <3> HIDE DEF next, who
      <3> QED BY <2>1 DEF NoStaff
    <2> QED
      BY <2>1, <2>2
  <1> QED
    BY <1>1, <1>2

\* Staff operations that free rows show it: they move on or use up a move.
LEMMA StaffShows ==
    ASSUME TypeInv, NEW w \in Worker,
           TrimWrite \/ StaffRelease \/ DeleteRow \/ ReleaseWorker(w)
    PROVE  staff' # staff \/ left' # left
  <1>1. staff \in Staff /\ left \in [staff : Nat, restart : Nat]
    BY DEF TypeInv, TypeOK
  <1>2. CASE TrimWrite
    BY <1>2, ContinueMoves DEF TrimWrite
  <1>3. CASE StaffRelease
    BY <1>3, ContinueMoves DEF StaffRelease
  <1>4. CASE DeleteRow
    BY <1>4 DEF DeleteRow, NoStaff
  <1>5. CASE ReleaseWorker(w)
    <2> DEFINE rest == left.staff - 1
    <2>1. left' = [left EXCEPT !.staff = rest] /\ left.staff \in Nat
      BY <1>1, <1>5 DEF ReleaseWorker, StaffMay
    <2>2. left'.staff = rest
      <3> HIDE DEF rest
      <3> QED BY <1>1, <2>1
    <2>3. rest # left.staff
      BY <2>1
    <2> QED
      <3> HIDE DEF rest
      <3> QED BY <2>2, <2>3
  <1> QED
    BY <1>2, <1>3, <1>4, <1>5

LEMMA UnderWayStep ==
    ASSUME TypeInv, [Next]_vars, NEW s \in Sale, entry[s].by # NoOne, Started(s), ~Ended(s),
           entry'[s].by # entry[s].by
    PROVE  gen' # gen \/ staff' # staff \/ left' # left \/ ReleaseStale
  <1>1. CASE ReleaseFinished
    BY <1>1 DEF ReleaseFinished, Lift, Finished, TypeInv, TypeOK
  <1>2. CASE SweepRelease
    BY <1>2 DEF SweepRelease, Lift, Swept, TypeInv, TypeOK
  <1>3. ASSUME NEW x \in Sale, NEW a \in Agent, AssignAgent(x, a)
        PROVE  FALSE
    BY <1>3 DEF AssignAgent, TypeInv, TypeOK, Entry
  <1>4. CASE \E r \in Request : PollStep(r)
    BY <1>4, PollStamps
  <1>5. CASE RefreshReplace
    BY <1>5, RefreshWrites
  <1>6. CASE \/ SweepFind \/ RefreshRead \/ RefreshFail \/ Tick \/ Restart \/ UNCHANGED vars
            \/ TrimRead
    BY <1>6 DEF SweepFind, RefreshRead, RefreshFail, Tick, Restart, TrimRead, vars
  <1>7. ASSUME NEW r \in Request, NEW w, NEW a, PollArrive(r, w, a)
        PROVE  FALSE
    BY <1>7 DEF PollArrive
  <1>8. ASSUME NEW w \in Worker, RemoveWorker(w) \/ \E given : UpdateWorker(w, given)
        PROVE  FALSE
    BY <1>8, ZenonT(60) DEF RemoveWorker, UpdateWorker
  <1>9. ASSUME NEW w \in Worker, ReleaseWorker(w)
        PROVE  staff' # staff \/ left' # left
    BY <1>9, StaffShows
  <1>10. CASE TrimWrite \/ StaffRelease \/ DeleteRow
    <2>1. staff.w \in Worker
      BY <1>10 DEF TrimWrite, StaffRelease, DeleteRow, TypeInv, Operated
    <2> QED BY <1>10, <2>1, StaffShows
  <1> QED
    BY <1>1, <1>2, <1>3, <1>4, <1>5, <1>6, <1>7, <1>8, <1>9, <1>10 DEF Next, StaffStep

\* InProgressKept for any number of VMs: no poll and no cron of the service takes a
\* sale that is under way from the VM that has it open.
THEOREM SalesUnderWayStay == Spec => InProgressKept
  <1> DEFINE Kept == \A s \in Sale :
        (/\ entry[s].by # NoOne /\ Started(s) /\ ~Ended(s)
         /\ entry'[s].by # entry[s].by)
            => \/ gen' # gen \/ staff' # staff \/ left' # left
               \/ ReleaseStale
  <1>1. TypeInv /\ [Next]_vars => [Kept]_vars
    BY UnderWayStep
  <1>2. Spec => []TypeInv
    BY InitType, NextType, PTL DEF Spec
  <1> QED
    BY <1>1, <1>2, PTL DEF Spec, InProgressKept

-----------------------------------------------------------------------------
(* Quotas                                                                   *)

\* What the quota rests on: a VM polls one request at a time, the calendar is not
\* replaced under its claims, and staff give no other quota than the default.
Undisturbed ==
    /\ ~OverlappingPolls
    /\ MaxRefresh = 0
    /\ MaxStaff = 0 \/ Quotas \subseteq {DefaultQuota}

Answering == {"read", "own", "rest", "stamp", "reread"}

\* The sales of a set of ids.
SalesOf(ids) == {id[1] : id \in ids}

\* Nothing but polls, crons and staff within their limits is at work.
NoneElse ==
    /\ ~refresh.busy
    /\ MaxStaff = 0 => left.staff = 0 /\ staff.pc = "idle"

\* A VM has at most one request being served.
Alone ==
    \A r, q \in Request :
        (req[r].pc # "idle" /\ req[q].pc # "idle" /\ req[r].w = req[q].w) => r = q

\* Every quota, on record or read by a request, is the default one.
OneQuota ==
    /\ \A w \in Worker : row[w].exists => row[w].quota = DefaultQuota
    /\ \A r \in Request : req[r].pc \in Answering => req[r].quota = DefaultQuota

\* The candidates of a request are of its day, and fit with what its VM holds.
Fits(r) ==
    LET mine == Live(req[r].w, req[r].day)
    IN  /\ IsFiniteSet(req[r].cand)
        /\ \A id \in req[r].cand : SaleDay(id[1]) = req[r].day
        /\ req[r].pc \in {"own", "rest"} => mine \subseteq req[r].live
        /\ req[r].pc = "rest"
              => Cardinality(req[r].live) + Cardinality(req[r].cand) <= DefaultQuota
        /\ req[r].pc = "stamp"
              => Cardinality(mine \cup SalesOf(req[r].cand)) <= DefaultQuota

\* On any day, no VM holds more open sales than the quota.
HoldsNoMore ==
    \A w \in Worker, d \in Nat : Cardinality(Live(w, d)) <= DefaultQuota

QuotaInv ==
    NoneElse /\ Alone /\ OneQuota /\ (\A r \in Request : Fits(r)) /\ HoldsNoMore

\* Sets of sales are finite, and a part is not more than the whole.
LEMMA SalesCount ==
    ASSUME NEW S \in SUBSET Sale
    PROVE  /\ IsFiniteSet(S) /\ Cardinality(S) \in Nat
           /\ \A T \in SUBSET S : Cardinality(T) <= Cardinality(S)
  BY ScraperAssumption, FS_Subset, FS_CardinalityType

\* Two sets of sales hold no more than both together.
LEMMA UnionCount ==
    ASSUME NEW S \in SUBSET Sale, NEW T \in SUBSET Sale
    PROVE  Cardinality(S \cup T) <= Cardinality(S) + Cardinality(T)
  <1>1. /\ IsFiniteSet(S) /\ IsFiniteSet(T)
        /\ Cardinality(S) \in Nat /\ Cardinality(T) \in Nat /\ Cardinality(S \cap T) \in Nat
    <2>1. S \cap T \in SUBSET Sale
      OBVIOUS
    <2> QED BY <2>1, SalesCount
  <1>2. Cardinality(S \cup T) = Cardinality(S) + Cardinality(T) - Cardinality(S \cap T)
    BY <1>1, FS_Union
  <1> QED
    BY <1>1, <1>2

\* A set of ids names no more sales than it has ids.
LEMMA SalesOfCount ==
    ASSUME NEW ids \in SUBSET Id, IsFiniteSet(ids)
    PROVE  /\ SalesOf(ids) \in SUBSET Sale
           /\ Cardinality(SalesOf(ids)) <= Cardinality(ids)
  <1> DEFINE f == [id \in ids |-> id[1]]
  <1>1. SalesOf(ids) \in SUBSET Sale
    BY DEF SalesOf, Id
  <1>2. f \in Surjection(ids, SalesOf(ids))
    BY DEF Surjection, SalesOf
  <1>3. Cardinality(SalesOf(ids)) <= Cardinality(ids)
    <2> HIDE DEF f
    <2> QED BY <1>2, FS_Surjection
  <1> QED
    BY <1>1, <1>3

\* The ids of a set of sales are finitely many, not more than the sales, and name
\* these sales.
LEMMA IdsCount ==
    ASSUME TypeOK, NEW S \in SUBSET Sale
    PROVE  /\ IdsOf(S) \in SUBSET Id /\ IsFiniteSet(IdsOf(S))
           /\ Cardinality(IdsOf(S)) <= Cardinality(S)
           /\ SalesOf(IdsOf(S)) = S
           /\ \A id \in IdsOf(S) : id[1] \in S
  <1> DEFINE f == [s \in S |-> <<s, gen>>]
  <1>1. f \in Surjection(S, IdsOf(S))
    BY DEF Surjection, IdsOf
  <1>2. IsFiniteSet(IdsOf(S)) /\ Cardinality(IdsOf(S)) <= Cardinality(S)
    <2> HIDE DEF f
    <2> QED BY <1>1, SalesCount, FS_Surjection
  <1>3. SalesOf(IdsOf(S)) = S
    <2>1. ASSUME NEW s \in S
          PROVE  s \in SalesOf(IdsOf(S))
      <3>1. <<s, gen>> \in IdsOf(S) /\ <<s, gen>>[1] = s
        BY DEF IdsOf
      <3> QED BY <3>1 DEF SalesOf
    <2>2. ASSUME NEW s \in SalesOf(IdsOf(S))
          PROVE  s \in S
      BY DEF SalesOf, IdsOf
    <2> QED BY <2>1, <2>2
  <1>4. \A id \in IdsOf(S) : id[1] \in S
    BY DEF IdsOf
  <1> QED
    BY <1>2, <1>3, <1>4, IdsAreIds

\* orderBy/take returns at most what it is asked for.
LEMMA EarliestCount ==
    ASSUME NEW S \in SUBSET Sale, NEW n \in Int, NEW C \in Earliest(S, n)
    PROVE  C \in SUBSET S /\ Cardinality(C) \in Nat /\ Cardinality(C) <= n
  <1>1. C \in SUBSET S /\ C \in SUBSET Sale
    BY DEF Earliest
  <1>2. Cardinality(C) \in Nat /\ Cardinality(S) \in Nat
    BY <1>1, SalesCount
  <1>3. Cardinality(C) = IF Cardinality(S) < n THEN Cardinality(S) ELSE n
    BY DEF Earliest
  <1> QED
    BY <1>1, <1>2, <1>3

\* Time does not go back.
LEMMA NowGrows ==
    ASSUME TypeInv, [Next]_vars
    PROVE  now \in Nat /\ now' \in Nat /\ now <= now'
  <1>1. now \in Nat
    BY DEF TypeInv, TypeOK
  <1>2. CASE Tick
    BY <1>1, <1>2 DEF Tick
  <1>3. CASE now' = now
    BY <1>1, <1>3
  <1>4. CASE ReleaseFinished \/ SweepFind \/ SweepRelease \/ ReleaseStale
    BY <1>3, <1>4 DEF ReleaseFinished, SweepFind, SweepRelease, ReleaseStale
  <1>5. CASE RefreshRead \/ RefreshReplace \/ RefreshFail \/ Restart \/ UNCHANGED vars
    BY <1>3, <1>5 DEF RefreshRead, RefreshReplace, RefreshFail, Restart, vars
  <1>6. CASE StaffStep \/ \E w \in Worker : ReleaseWorker(w) \/ RemoveWorker(w)
    BY <1>3, <1>6 DEF StaffStep, TrimRead, TrimWrite, StaffRelease, DeleteRow,
       ReleaseWorker, RemoveWorker
  <1>7. CASE \/ \E w \in Worker, given \in (SUBSET Fields) \ {{}} : UpdateWorker(w, given)
             \/ \E s \in Sale, a \in Agent : AssignAgent(s, a)
    <2>1. ASSUME NEW w \in Worker, NEW given, UpdateWorker(w, given)
          PROVE  now' = now
      BY <2>1 DEF UpdateWorker
    <2>2. ASSUME NEW s \in Sale, NEW a \in Agent, AssignAgent(s, a)
          PROVE  now' = now
      BY <2>2 DEF AssignAgent
    <2> QED BY <1>3, <1>7, <2>1, <2>2
  <1>8. CASE \/ \E r \in Request : PollStep(r)
             \/ \E r \in Request, w \in Worker, a \in Agent \cup {NoOne} : PollArrive(r, w, a)
    BY <1>3, <1>8 DEF PollStep, PollRegister, ClaimRead, ClaimOwn, ClaimRest, ClaimStamp,
       ClaimReread, PollArrive
  <1> QED
    BY <1>2, <1>4, <1>5, <1>6, <1>7, <1>8 DEF Next

\* Without a replacement, a claim comes from a stamp of its worker.
LEMMA ClaimsComeFrom ==
    ASSUME TypeInv, [Next]_vars, ~refresh.busy, NEW s \in Sale, NEW w \in Worker,
           entry'[s].by = w, entry[s].by # w
    PROVE  \E r \in Request : /\ ClaimStamp(r) /\ req[r].w = w
                              /\ <<s, gen>> \in req[r].cand
  <1>0. w # NoOne
    BY ScraperAssumption
  <1>1. ~LiftedOnly(s)
    BY <1>0 DEF LiftedOnly
  <1>2. ~(\/ ReleaseFinished \/ SweepFind \/ SweepRelease \/ ReleaseStale
          \/ \E x \in Sale, a \in Agent : AssignAgent(x, a))
    BY <1>1, CronLifts
  <1>3. ~(\/ StaffStep
          \/ \E x \in Worker : ReleaseWorker(x) \/ RemoveWorker(x)
          \/ \E x \in Worker, given \in SUBSET Fields : UpdateWorker(x, given))
    BY <1>1, StaffLifts
  <1>4. ~(RefreshRead \/ RefreshReplace \/ RefreshFail \/ Tick \/ Restart \/ UNCHANGED vars)
    BY DEF RefreshRead, RefreshReplace, RefreshFail, Tick, Restart, vars
  <1>5. ~\E r \in Request, x \in Worker, a \in Agent \cup {NoOne} : PollArrive(r, x, a)
    BY DEF PollArrive
  <1>6. PICK r \in Request : PollStep(r)
    BY <1>2, <1>3, <1>4, <1>5 DEF Next
  <1>7. ClaimStamp(r) /\ Known(req[r].w)
    BY <1>6 DEF PollStep, PollRegister, ClaimRead, ClaimOwn, ClaimRest, ClaimReread,
       ClaimStamp
  <1>8. s \in Won(r)
    BY <1>7 DEF ClaimStamp, TypeInv, TypeOK
  <1>9. entry'[s].by = req[r].w
    BY <1>7, <1>8 DEF ClaimStamp, TypeInv, TypeOK, Entry
  <1> QED
    BY <1>7, <1>8, <1>9 DEF Won

\* What a VM holds of a day only shrinks, but for the stamp of its own request, and
\* that adds no more than its candidates.
LEMMA LiveMoves ==
    ASSUME TypeInv, [Next]_vars, NoneElse, \A r \in Request : Fits(r),
           NEW w \in Worker, NEW d \in Nat
    PROVE  \/ Live(w, d)' \subseteq Live(w, d)
           \/ \E r \in Request : /\ ClaimStamp(r) /\ req[r].w = w /\ req[r].day = d
                                 /\ Live(w, d)' \subseteq Live(w, d) \cup SalesOf(req[r].cand)
  <1> SUFFICES ASSUME ~(Live(w, d)' \subseteq Live(w, d))
               PROVE  \E r \in Request : /\ ClaimStamp(r) /\ req[r].w = w /\ req[r].day = d
                                 /\ Live(w, d)' \subseteq Live(w, d) \cup SalesOf(req[r].cand)
    OBVIOUS
  <1>1. ASSUME NEW s \in Live(w, d)'
        PROVE  /\ s \in Sale /\ SaleDay(s) = d /\ entry'[s].by = w /\ ~Ended(s)
    <2>1. s \in Sale /\ SaleDay(s) = d /\ entry'[s].by = w /\ ~(StartOf[s] + Duration < now')
      BY DEF Live, Mine, Ended, SaleDay
    <2>2. StartOf[s] \in Nat /\ Duration \in Nat
      BY <2>1, ScraperAssumption
    <2> QED BY <2>1, <2>2, NowGrows DEF Ended
  <1>2. PICK s \in Live(w, d)' : s \notin Live(w, d)
    OBVIOUS
  <1>3. s \in Sale /\ SaleDay(s) = d /\ entry'[s].by = w /\ entry[s].by # w
    BY <1>1, <1>2 DEF Live, Mine
  <1>4. PICK r \in Request : /\ ClaimStamp(r) /\ req[r].w = w /\ <<s, gen>> \in req[r].cand
    BY <1>3, ClaimsComeFrom DEF NoneElse
  <1>5. req[r].day = d
    BY <1>3, <1>4 DEF Fits
  <1>6. ASSUME NEW x \in Live(w, d)', x \notin Live(w, d)
        PROVE  x \in SalesOf(req[r].cand)
    <2>1. x \in Sale /\ entry'[x].by = w /\ entry[x].by # w
      BY <1>1, <1>6 DEF Live, Mine
    <2>2. Known(req[r].w)
      BY <1>4, <2>1 DEF ClaimStamp
    <2>3. x \in Won(r)
      BY <1>4, <2>1, <2>2 DEF ClaimStamp, TypeInv, TypeOK
    <2> QED BY <2>3 DEF Won, SalesOf
  <1> QED
    BY <1>4, <1>5, <1>6

\* What a step of a poll does to its own request.
LEMMA OwnMoves ==
    ASSUME TypeInv, NEW r \in Request, PollStep(r)
    PROVE  /\ req[r].pc # "idle"
           /\ \A q \in Request \ {r} : req'[q] = req[q]
           /\ \/ req'[r] = NoPoll
              \/ /\ req'[r].w = req[r].w /\ req'[r].day = req[r].day
                 /\ \/ /\ PollRegister(r) /\ req'[r].pc = "read"
                       /\ req'[r].cand = req[r].cand /\ req'[r].quota = row'[req[r].w].quota
                       /\ row'[req[r].w].exists
                    \/ /\ req[r].pc \in Answering /\ req'[r].quota = req[r].quota
                       /\ \/ req'[r].pc \in {"read", "reread"} /\ req'[r].cand = {}
                          \/ ClaimRead(r) /\ req'[r].pc = "own" /\ req'[r].cand = req[r].cand
                             /\ req'[r].live = Live(req[r].w, req[r].day)
                          \/ ClaimOwn(r) /\ req'[r].pc = "rest"
                             /\ req'[r].live = req[r].live
                             /\ \E C \in Earliest({s \in Free(req[r].day) :
                                         /\ row[req[r].w].agent # NoOne
                                         /\ entry[s].agent = row[req[r].w].agent}, Missing(r)) :
                                   req'[r].cand = IdsOf(C)
                          \/ ClaimRest(r) /\ req'[r].pc = "stamp"
                             /\ \E C \in Earliest({s \in Free(req[r].day) :
                                         <<s, gen>> \notin req[r].cand}, RestRoom(r)) :
                                   req'[r].cand = req[r].cand \cup IdsOf(C)
  <1>1. req[r] \in Poll /\ req \in [Request -> Poll]
    BY DEF TypeInv, TypeOK
  <1>2. ASSUME NEW mine, Finish(r, mine)
        PROVE  /\ \A q \in Request \ {r} : req'[q] = req[q]
               /\ \/ req'[r] = NoPoll
                  \/ /\ req'[r].w = req[r].w /\ req'[r].day = req[r].day
                     /\ req'[r].quota = req[r].quota /\ req'[r].pc = "read"
                     /\ req'[r].cand = {}
    <2>1. CASE req' = [req EXCEPT ![r].pc = "read", ![r].round = @ + 1,
                                  ![r].live = {}, ![r].cand = {}]
      <3> DEFINE next == req[r].round + 1
      <3>1. req' = [req EXCEPT ![r].pc = "read", ![r].round = next,
                               ![r].live = {}, ![r].cand = {}]
        BY <2>1
      <3> HIDE DEF next
      <3> QED BY <1>1, <3>1 DEF Poll
    <2>2. CASE Reply(r, mine)
      BY <1>1, <2>2 DEF Reply, Drop
    <2> QED BY <1>2, <2>1, <2>2 DEF Finish
  <1>3. CASE PollRegister(r)
    <2> DEFINE w == req[r].w
               a == req[r].agent
               born == [exists |-> TRUE, enabled |-> TRUE, quota |-> DefaultQuota,
                        agent |-> a, seen |-> now]
               kept == [row[w] EXCEPT !.seen = now, !.agent = IF a = NoOne THEN @ ELSE a]
               new == IF row[w].exists THEN kept ELSE born
    <2>1. w \in Worker /\ row[w] \in Row
      BY <1>3 DEF PollRegister, TypeInv, TypeOK, Served
    <2>2. new.exists
      BY <2>1 DEF Row
    <2>3. \/ Drop(r)
          \/ /\ row' = [row EXCEPT ![w] = new]
             /\ req' = [req EXCEPT ![r].pc = "read", ![r].agent = NoOne, ![r].quota = new.quota]
      BY <1>3 DEF PollRegister, Reply
    <2>4. CASE Drop(r)
      BY <1>1, <1>3, <2>4 DEF Drop, PollRegister
    <2>5. CASE /\ row' = [row EXCEPT ![w] = new]
               /\ req' = [req EXCEPT ![r].pc = "read", ![r].agent = NoOne,
                                     ![r].quota = new.quota]
      <3>1. row'[w] = new
        BY <2>1, <2>5 DEF TypeInv, TypeOK
      <3> HIDE DEF new
      <3>2. req'[r] = [req[r] EXCEPT !.pc = "read", !.agent = NoOne, !.quota = new.quota]
        BY <1>1, <2>5
      <3>3. /\ req'[r].pc = "read" /\ req'[r].cand = req[r].cand
            /\ req'[r].w = req[r].w /\ req'[r].day = req[r].day
            /\ req'[r].quota = new.quota
        BY <1>1, <3>2 DEF Poll
      <3>4. \A q \in Request \ {r} : req'[q] = req[q]
        BY <1>1, <2>5
      <3> QED BY <1>3, <2>2, <3>1, <3>3, <3>4 DEF PollRegister
    <2> QED BY <2>3, <2>4, <2>5
  <1>4. CASE ClaimRead(r)
    <2>1. CASE \E mine : Finish(r, mine)
      BY <1>2, <1>4, <2>1 DEF ClaimRead, Answering
    <2>2. CASE req' = [req EXCEPT ![r].pc = "own", ![r].live = Live(req[r].w, req[r].day)]
      <3>1. req'[r] = [req[r] EXCEPT !.pc = "own", !.live = Live(req[r].w, req[r].day)]
        BY <1>1, <2>2
      <3>2. /\ req'[r].pc = "own" /\ req'[r].cand = req[r].cand
            /\ req'[r].w = req[r].w /\ req'[r].day = req[r].day
            /\ req'[r].quota = req[r].quota /\ req'[r].live = Live(req[r].w, req[r].day)
        BY <1>1, <3>1 DEF Poll
      <3> QED BY <1>1, <1>4, <2>2, <3>2 DEF ClaimRead, Answering
    <2> QED BY <1>4, <2>1, <2>2 DEF ClaimRead
  <1>5. CASE ClaimOwn(r)
    <2>1. PICK C \in Earliest({s \in Free(req[r].day) :
                                 /\ row[req[r].w].agent # NoOne
                                 /\ entry[s].agent = row[req[r].w].agent}, Missing(r)) :
            req' = [req EXCEPT ![r].pc = "rest", ![r].cand = IdsOf(C)]
      BY <1>5 DEF ClaimOwn
    <2>2. /\ req'[r].pc = "rest" /\ req'[r].cand = IdsOf(C)
          /\ req'[r].w = req[r].w /\ req'[r].day = req[r].day
          /\ req'[r].quota = req[r].quota /\ req'[r].live = req[r].live
          /\ \A q \in Request \ {r} : req'[q] = req[q]
      BY <1>1, <2>1 DEF Poll
    <2> QED BY <1>5, <2>2 DEF ClaimOwn, Answering
  <1>6. CASE ClaimRest(r)
    <2>1. PICK C \in Earliest({s \in Free(req[r].day) : <<s, gen>> \notin req[r].cand},
                              RestRoom(r)) :
            \/ Finish(r, req[r].live)
            \/ req' = [req EXCEPT ![r].pc = "stamp", ![r].cand = req[r].cand \cup IdsOf(C),
                                  ![r].live = {}]
      BY <1>6 DEF ClaimRest
    <2>2. CASE Finish(r, req[r].live)
      BY <1>2, <1>6, <2>2 DEF ClaimRest, Answering
    <2>3. CASE req' = [req EXCEPT ![r].pc = "stamp", ![r].cand = req[r].cand \cup IdsOf(C),
                                  ![r].live = {}]
      <3>1. /\ req'[r].pc = "stamp" /\ req'[r].cand = req[r].cand \cup IdsOf(C)
            /\ req'[r].w = req[r].w /\ req'[r].day = req[r].day
            /\ req'[r].quota = req[r].quota
            /\ \A q \in Request \ {r} : req'[q] = req[q]
        BY <1>1, <2>3 DEF Poll
      <3> QED BY <1>6, <3>1 DEF ClaimRest, Answering
    <2> QED BY <2>1, <2>2, <2>3
  <1>7. CASE ClaimStamp(r)
    <2>1. CASE Drop(r)
      BY <1>1, <1>7, <2>1 DEF Drop, ClaimStamp
    <2>2. CASE req' = [req EXCEPT ![r].pc = "reread", ![r].cand = {}]
      BY <1>1, <1>7, <2>2 DEF Poll, ClaimStamp, Answering
    <2> QED BY <1>7, <2>1, <2>2 DEF ClaimStamp
  <1>8. CASE ClaimReread(r)
    <2>1. CASE Drop(r)
      BY <1>1, <1>8, <2>1 DEF Drop, ClaimReread
    <2>2. CASE \E mine : Finish(r, mine)
      BY <1>2, <1>8, <2>2 DEF ClaimReread, Answering
    <2> QED BY <1>8, <2>1, <2>2 DEF ClaimReread
  <1> QED
    BY <1>3, <1>4, <1>5, <1>6, <1>7, <1>8 DEF PollStep
\* What any step does to a request: nothing, forget it, a step of its own poll, or
\* its arrival, for a VM that has no other.
LEMMA RequestMoves ==
    ASSUME TypeInv, ~OverlappingPolls, [Next]_vars, NEW q \in Request
    PROVE  \/ req'[q] = req[q]
           \/ req'[q] = NoPoll
           \/ PollStep(q)
           \/ /\ req[q].pc = "idle" /\ req'[q].pc = "register"
              /\ req'[q].cand = {} /\ req'[q].day = Today
              /\ ~Serving(req'[q].w)
              /\ \A r \in Request \ {q} : req'[r] = req[r]
              /\ UNCHANGED <<now, entry, told>>
  <1>1. ASSUME NEW r \in Request, PollStep(r)
        PROVE  req'[q] = req[q] \/ PollStep(q)
    <2>1. CASE r = q
      BY <1>1, <2>1
    <2>2. CASE r # q
      BY <1>1, <2>2, OwnMoves
    <2> QED BY <2>1, <2>2
  <1>2. ASSUME NEW r \in Request, NEW w \in Worker, NEW a \in Agent \cup {NoOne},
               PollArrive(r, w, a)
        PROVE  \/ req'[q] = req[q]
               \/ /\ req[q].pc = "idle" /\ req'[q].pc = "register"
                  /\ req'[q].cand = {} /\ req'[q].day = Today
                  /\ ~Serving(req'[q].w)
                  /\ \A x \in Request \ {q} : req'[x] = req[x]
                  /\ UNCHANGED <<now, entry, told>>
    <2>1. PICK v \in Resolve(w, a), wait \in Waits :
            /\ ~Serving(v)
            /\ req' = [req EXCEPT ![r] = [NoPoll EXCEPT
                         !.pc = "register", !.w = v, !.agent = a, !.day = Today, !.wait = wait]]
      BY <1>2 DEF PollArrive
    <2>2. \A x \in Request \ {r} : req'[x] = req[x]
      BY <2>1 DEF TypeInv, TypeOK
    <2>3. /\ req'[r].pc = "register" /\ req'[r].cand = {} /\ req'[r].day = Today
          /\ req'[r].w = v
      BY <2>1 DEF TypeInv, TypeOK, NoPoll
    <2>4. req[r].pc = "idle" /\ UNCHANGED <<now, entry, told>>
      BY <1>2 DEF PollArrive
    <2>5. CASE r = q
      BY <2>1, <2>2, <2>3, <2>4, <2>5
    <2>6. CASE r # q
      BY <2>2, <2>6
    <2> QED BY <2>5, <2>6
  <1>3. CASE Restart
    BY <1>3 DEF Restart
  <1>4. CASE UNCHANGED req
    BY <1>4
  <1> QED
    BY <1>1, <1>2, <1>3, <1>4, PollsOnly

\* One request at a time stays one at a time.
LEMMA AloneStep ==
    ASSUME TypeInv, ~OverlappingPolls, Alone, [Next]_vars
    PROVE  Alone'
  <1> SUFFICES ASSUME NEW r \in Request, NEW q \in Request, r # q,
                      req'[r].pc # "idle", req'[q].pc # "idle", req'[r].w = req'[q].w
               PROVE  FALSE
    BY DEF Alone
  <1> DEFINE Goes(x) == req[x].pc # "idle" /\ req'[x].w = req[x].w
             Comes(x) == /\ ~Serving(req'[x].w)
                         /\ \A y \in Request \ {x} : req'[y] = req[y]
  <1>1. ASSUME NEW x \in Request, req'[x].pc # "idle"
        PROVE  Goes(x) \/ Comes(x)
    BY <1>1, RequestMoves, OwnMoves DEF NoPoll
  <1>2. CASE Goes(r) /\ Goes(q)
    BY <1>2 DEF Alone
  <1>3. ASSUME NEW x \in Request, NEW y \in Request, x # y, Comes(x),
               req'[x].pc # "idle", req'[y].pc # "idle", req'[x].w = req'[y].w
        PROVE  FALSE
    <2>1. req'[y] = req[y]
      BY <1>3
    <2> QED BY <1>3, <2>1 DEF Serving
  <1> QED
    BY <1>1, <1>2, <1>3

\* Fits, for a request whose worker and day are w and d after the step.
LEMMA FitsAfter ==
    ASSUME NEW q \in Request, NEW w, NEW d, req'[q].w = w, req'[q].day = d,
           IsFiniteSet(req'[q].cand),
           \A id \in req'[q].cand : SaleDay(id[1]) = d,
           req'[q].pc \in {"own", "rest"} => Live(w, d)' \subseteq req'[q].live,
           req'[q].pc = "rest"
              => Cardinality(req'[q].live) + Cardinality(req'[q].cand) <= DefaultQuota,
           req'[q].pc = "stamp"
              => Cardinality(Live(w, d)' \cup SalesOf(req'[q].cand)) <= DefaultQuota
    PROVE  Fits(q)'
  <1>1. Live(req[q].w, req[q].day)' = Live(w, d)'
    BY DEF Live, Mine, Ended, SaleDay
  <1> QED
    BY <1>1 DEF Fits, SalesOf, SaleDay

\* A request no step of its own moves still fits: its VM holds no more than before.
LEMMA FitsStays ==
    ASSUME TypeInv, QuotaInv, [Next]_vars, NEW q \in Request, req'[q] = req[q]
    PROVE  Fits(q)'
  <1>1. PICK w, d : w = req[q].w /\ d = req[q].day
    OBVIOUS
  <1>2. req[q] \in Poll /\ d \in Nat
    BY <1>1 DEF TypeInv, TypeOK, Poll
  <1>3. /\ IsFiniteSet(req[q].cand) /\ \A id \in req[q].cand : SaleDay(id[1]) = d
        /\ req[q].pc \in {"own", "rest"} => Live(w, d) \subseteq req[q].live
        /\ req[q].pc = "rest"
              => Cardinality(req[q].live) + Cardinality(req[q].cand) <= DefaultQuota
        /\ req[q].pc = "stamp"
              => Cardinality(Live(w, d) \cup SalesOf(req[q].cand)) <= DefaultQuota
    BY <1>1 DEF QuotaInv, Fits
  <1>4. req[q].pc # "idle" => Live(w, d)' \subseteq Live(w, d)
    <2> SUFFICES ASSUME req[q].pc # "idle"
                 PROVE  Live(w, d)' \subseteq Live(w, d)
      OBVIOUS
    <2>1. w \in Worker
      BY <1>1 DEF TypeInv, Served
    <2>2. ASSUME NEW r \in Request, ClaimStamp(r), req[r].w = w
          PROVE  FALSE
      <3>1. r = q
        BY <1>1, <2>2 DEF QuotaInv, Alone, ClaimStamp
      <3>2. req[q].pc = "stamp" /\ req'[q].pc # "stamp"
        BY <2>2, <3>1 DEF ClaimStamp, Drop, NoPoll, TypeInv, TypeOK, Poll
      <3> QED BY <3>2
    <2> QED BY <1>2, <2>1, <2>2, LiveMoves DEF QuotaInv
  <1>5. req[q].pc = "stamp"
           => Cardinality(Live(w, d)' \cup SalesOf(req[q].cand)) <= DefaultQuota
    <2> SUFFICES ASSUME req[q].pc = "stamp"
                 PROVE  Cardinality(Live(w, d)' \cup SalesOf(req[q].cand)) <= DefaultQuota
      OBVIOUS
    <2>1. PICK L, M, C : L = Live(w, d) /\ M = Live(w, d)' /\ C = SalesOf(req[q].cand)
      OBVIOUS
    <2>2. L \in SUBSET Sale /\ M \subseteq L
      BY <1>4, <2>1 DEF Live, Mine
    <2>3. C \in SUBSET Sale
      BY <1>2, <2>1 DEF SalesOf, Poll, Id
    <2>4. L \cup C \in SUBSET Sale /\ M \cup C \in SUBSET (L \cup C)
      BY <2>2, <2>3
    <2>5. /\ Cardinality(M \cup C) <= Cardinality(L \cup C)
          /\ Cardinality(M \cup C) \in Nat /\ Cardinality(L \cup C) \in Nat
      BY <2>2, <2>3, <2>4, SalesCount
    <2>6. Cardinality(L \cup C) <= DefaultQuota
      BY <1>3, <2>1
    <2>7. Cardinality(M \cup C) <= DefaultQuota
      BY <2>5, <2>6, ScraperAssumption
    <2> QED BY <2>1, <2>7
  <1>6. /\ req'[q].w = w /\ req'[q].day = d
        /\ req'[q].pc \in {"own", "rest"} => Live(w, d)' \subseteq req'[q].live
    BY <1>1, <1>3, <1>4
  <1> QED
    BY <1>3, <1>5, <1>6, FitsAfter

\* ... and one that its own poll moves fits as well: this is the arithmetic of a
\* claim, first the plan of its account, then the rest, within the quota.
LEMMA FitsOwnStep ==
    ASSUME TypeInv, QuotaInv, [Next]_vars, NEW q \in Request, PollStep(q)
    PROVE  Fits(q)'
  <1>0. PICK w, d, L : w = req[q].w /\ d = req[q].day /\ L = Live(w, d)
    OBVIOUS
  <1>1. /\ w \in Worker /\ d \in Nat /\ req[q] \in Poll /\ L \in SUBSET Sale
        /\ DefaultQuota \in Nat
    BY <1>0, OwnMoves, ScraperAssumption DEF TypeInv, TypeOK, Served, Poll, Live, Mine
  <1>2. CASE req'[q] = NoPoll
    BY <1>2, FS_EmptySet DEF NoPoll, Fits
  <1> SUFFICES ASSUME req'[q].w = w, req'[q].day = d, req'[q] # NoPoll
               PROVE  Fits(q)'
    BY <1>0, <1>2, OwnMoves
  <1>3. CASE /\ req'[q].pc \in {"read", "reread"}
             /\ req'[q].cand = req[q].cand \/ req'[q].cand = {}
    <2>1. IsFiniteSet(req'[q].cand) /\ \A id \in req'[q].cand : SaleDay(id[1]) = d
      BY <1>0, <1>3, FS_EmptySet DEF QuotaInv, Fits
    <2> QED BY <1>3, <2>1, FitsAfter
  <1>4. ASSUME ClaimRead(q) \/ ClaimOwn(q) \/ ClaimRest(q)
        PROVE  Live(w, d)' = L
    <2>1. now' = now /\ entry' = entry
      BY <1>4 DEF ClaimRead, ClaimOwn, ClaimRest
    <2> QED BY <1>0, <2>1 DEF Live, Mine, Ended
  <1>5. /\ IsFiniteSet(req[q].cand) /\ \A id \in req[q].cand : SaleDay(id[1]) = d
        /\ req[q].pc \in {"own", "rest"} => L \subseteq req[q].live
        /\ req[q].pc = "rest"
              => Cardinality(req[q].live) + Cardinality(req[q].cand) <= DefaultQuota
    BY <1>0 DEF QuotaInv, Fits
  <1>6. CASE ClaimRead(q) /\ req'[q].pc = "own" /\ req'[q].cand = req[q].cand
             /\ req'[q].live = Live(req[q].w, req[q].day)
    <2>1. Live(w, d)' \subseteq req'[q].live
      BY <1>0, <1>4, <1>6
    <2>2. /\ IsFiniteSet(req'[q].cand) /\ \A id \in req'[q].cand : SaleDay(id[1]) = d
          /\ req'[q].pc = "own"
      BY <1>5, <1>6
    <2> QED BY <2>1, <2>2, FitsAfter
  <1>7. req[q].live \in SUBSET Sale /\ req[q].cand \in SUBSET Id
    BY <1>1 DEF Poll
  <1>8. /\ Cardinality(req[q].live) \in Nat
        /\ Cardinality(req[q].cand) \in Nat
    BY <1>5, <1>7, SalesCount, FS_CardinalityType
  <1>9. CASE ClaimOwn(q) /\ req'[q].pc = "rest" /\ req'[q].live = req[q].live
             /\ \E C \in Earliest({s \in Free(req[q].day) :
                              /\ row[req[q].w].agent # NoOne
                              /\ entry[s].agent = row[req[q].w].agent}, Missing(q)) :
                   req'[q].cand = IdsOf(C)
    <2>0. PICK S \in SUBSET Sale :
            /\ \A s \in S : SaleDay(s) = d
            /\ \E C \in Earliest(S, Missing(q)) : req'[q].cand = IdsOf(C)
      <3> DEFINE S == {s \in Free(req[q].day) :
                         /\ row[req[q].w].agent # NoOne
                         /\ entry[s].agent = row[req[q].w].agent}
      <3>1. S \in SUBSET Sale /\ \A s \in S : SaleDay(s) = d
        BY <1>0 DEF Free
      <3> HIDE DEF S
      <3> QED BY <1>9, <3>1 DEF S
    <2>1. PICK C \in Earliest(S, Missing(q)) : req'[q].cand = IdsOf(C)
      BY <2>0
    <2>2. req[q].quota = DefaultQuota
      BY <1>9 DEF ClaimOwn, QuotaInv, OneQuota, Answering
    <2>3. Missing(q) \in Int /\ Missing(q) = DefaultQuota - Cardinality(req[q].live)
      BY <1>1, <1>8, <2>2 DEF Missing
    <2>4. C \in SUBSET S /\ Cardinality(C) \in Nat /\ Cardinality(C) <= Missing(q)
      BY <2>3, EarliestCount
    <2>5. /\ IsFiniteSet(IdsOf(C)) /\ Cardinality(IdsOf(C)) <= Cardinality(C)
          /\ \A id \in IdsOf(C) : SaleDay(id[1]) = d
      BY <2>0, <2>4, IdsCount DEF TypeInv
    <2>6. Cardinality(IdsOf(C)) \in Nat
      BY <2>5, FS_CardinalityType
    <2>7. Cardinality(req'[q].live) + Cardinality(req'[q].cand) <= DefaultQuota
      BY <1>1, <1>8, <1>9, <2>1, <2>3, <2>4, <2>5, <2>6
    <2>8. Live(w, d)' \subseteq req'[q].live
      BY <1>4, <1>5, <1>9 DEF ClaimOwn
    <2> QED BY <1>9, <2>1, <2>5, <2>7, <2>8, FitsAfter
  <1>10. CASE ClaimRest(q) /\ req'[q].pc = "stamp"
              /\ \E C \in Earliest({s \in Free(req[q].day) : <<s, gen>> \notin req[q].cand},
                                   RestRoom(q)) :
                    req'[q].cand = req[q].cand \cup IdsOf(C)
    <2>0. PICK S \in SUBSET Sale :
            /\ \A s \in S : SaleDay(s) = d
            /\ \E C \in Earliest(S, RestRoom(q)) : req'[q].cand = req[q].cand \cup IdsOf(C)
      <3> DEFINE S == {s \in Free(req[q].day) : <<s, gen>> \notin req[q].cand}
      <3>1. S \in SUBSET Sale /\ \A s \in S : SaleDay(s) = d
        BY <1>0 DEF Free
      <3> HIDE DEF S
      <3> QED BY <1>10, <3>1 DEF S
    <2>1. PICK C \in Earliest(S, RestRoom(q)) : req'[q].cand = req[q].cand \cup IdsOf(C)
      BY <2>0
    <2>2. req[q].quota = DefaultQuota /\ req[q].pc = "rest"
      BY <1>10 DEF ClaimRest, QuotaInv, OneQuota, Answering
    <2>3. /\ RestRoom(q) \in Int
          /\ RestRoom(q) = DefaultQuota - Cardinality(req[q].live) - Cardinality(req[q].cand)
      BY <1>1, <1>8, <2>2 DEF Missing, RestRoom
    <2>4. C \in SUBSET S /\ Cardinality(C) \in Nat /\ Cardinality(C) <= RestRoom(q)
      BY <2>3, EarliestCount
    <2>5. /\ IsFiniteSet(IdsOf(C)) /\ SalesOf(IdsOf(C)) = C
          /\ \A id \in IdsOf(C) : SaleDay(id[1]) = d
      BY <2>0, <2>4, IdsCount DEF TypeInv
    <2>6. PICK P : P = SalesOf(req[q].cand)
      OBVIOUS
    <2>7. SalesOf(req'[q].cand) = P \cup C
      BY <2>1, <2>5, <2>6 DEF SalesOf
    <2>8. P \in SUBSET Sale /\ Cardinality(P) <= Cardinality(req[q].cand)
      BY <1>5, <1>7, <2>6, SalesOfCount
    <2>9. /\ Cardinality(L \cup (P \cup C)) <= Cardinality(L) + Cardinality(P \cup C)
          /\ Cardinality(P \cup C) <= Cardinality(P) + Cardinality(C)
      BY <1>1, <2>4, <2>8, UnionCount
    <2>10. /\ Cardinality(L) \in Nat /\ Cardinality(P) \in Nat
           /\ Cardinality(P \cup C) \in Nat /\ Cardinality(L \cup (P \cup C)) \in Nat
      <3>1. P \cup C \in SUBSET Sale /\ L \cup (P \cup C) \in SUBSET Sale
        BY <1>1, <2>4, <2>8
      <3> QED BY <1>1, <2>8, <3>1, SalesCount
    <2>11. Cardinality(L) <= Cardinality(req[q].live)
      BY <1>5, <1>7, <2>2, SalesCount
    <2>12. Cardinality(L \cup (P \cup C)) <= DefaultQuota
      BY <1>1, <1>8, <2>3, <2>4, <2>8, <2>9, <2>10, <2>11
    <2>13. Cardinality(Live(w, d)' \cup SalesOf(req'[q].cand)) <= DefaultQuota
      BY <1>4, <1>10, <2>7, <2>12
    <2>14. /\ IsFiniteSet(req'[q].cand)
           /\ \A id \in req'[q].cand : SaleDay(id[1]) = d
      BY <1>5, <2>1, <2>5, FS_Union
    <2> QED BY <1>10, <2>13, <2>14, FitsAfter
  <1> QED
    BY <1>3, <1>6, <1>9, <1>10, OwnMoves

LEMMA FitsStep ==
    ASSUME TypeInv, ~OverlappingPolls, QuotaInv, [Next]_vars, NEW q \in Request
    PROVE  Fits(q)'
  <1>1. CASE req'[q] = req[q]
    BY <1>1, FitsStays
  <1>2. CASE PollStep(q)
    BY <1>2, FitsOwnStep
  <1>3. CASE req'[q].pc \in {"idle", "register"} /\ req'[q].cand = {}
    BY <1>3, FS_EmptySet DEF Fits
  <1> QED
    BY <1>1, <1>2, <1>3, RequestMoves DEF NoPoll

\* A stamp fills the quota, and never goes beyond.
LEMMA HoldsStep ==
    ASSUME TypeInv, QuotaInv, [Next]_vars
    PROVE  HoldsNoMore'
  <1> SUFFICES ASSUME NEW w \in Worker, NEW d \in Nat
               PROVE  Cardinality(Live(w, d)') <= DefaultQuota
    BY DEF HoldsNoMore, Live, Mine, Ended, SaleDay
  <1>1. PICK L, M : L = Live(w, d) /\ M = Live(w, d)'
    OBVIOUS
  <1>2. L \in SUBSET Sale /\ M \in SUBSET Sale
    BY <1>1 DEF Live, Mine
  <1>3. DefaultQuota \in Nat /\ Cardinality(M) \in Nat /\ Cardinality(L) \in Nat
    BY <1>2, SalesCount, ScraperAssumption
  <1>4. CASE M \subseteq L
    <2>1. Cardinality(M) <= Cardinality(L)
      BY <1>2, <1>4, SalesCount
    <2>2. Cardinality(L) <= DefaultQuota
      BY <1>1 DEF QuotaInv, HoldsNoMore
    <2> QED BY <1>1, <1>3, <2>1, <2>2
  <1>5. ASSUME NEW r \in Request, ClaimStamp(r), req[r].w = w, req[r].day = d,
               M \subseteq L \cup SalesOf(req[r].cand)
        PROVE  Cardinality(M) <= DefaultQuota
    <2>1. PICK U : U = L \cup SalesOf(req[r].cand)
      OBVIOUS
    <2>2. U \in SUBSET Sale
      BY <1>2, <2>1 DEF SalesOf, TypeInv, TypeOK, Poll, Id
    <2>3. Cardinality(U) <= DefaultQuota
      BY <1>1, <1>5, <2>1 DEF ClaimStamp, QuotaInv, Fits
    <2>4. Cardinality(M) <= Cardinality(U) /\ Cardinality(U) \in Nat
      BY <1>5, <2>1, <2>2, SalesCount
    <2> QED BY <1>3, <2>3, <2>4
  <1> QED
    BY <1>1, <1>4, <1>5, LiveMoves DEF QuotaInv

\* Quotas do not change.
LEMMA OneQuotaStep ==
    ASSUME TypeInv, Undisturbed, NoneElse, OneQuota, [Next]_vars
    PROVE  OneQuota'
  <1>1. ASSUME NEW r \in Request, PollRegister(r), NEW w \in Worker, row'[w].exists
        PROVE  row'[w].quota = DefaultQuota
    <2> DEFINE a == req[r].agent
               born == [exists |-> TRUE, enabled |-> TRUE, quota |-> DefaultQuota,
                        agent |-> a, seen |-> now]
               kept == [row[req[r].w] EXCEPT !.seen = now,
                                             !.agent = IF a = NoOne THEN @ ELSE a]
               new == IF row[req[r].w].exists THEN kept ELSE born
    <2>1. req[r].w \in Worker /\ row[req[r].w] \in Row
      BY <1>1 DEF PollRegister, TypeInv, TypeOK, Served
    <2>2. new.quota = DefaultQuota
      BY <2>1 DEF Row, OneQuota
    <2>3. row' = row \/ row' = [row EXCEPT ![req[r].w] = new]
      BY <1>1 DEF PollRegister
    <2> HIDE DEF new
    <2> QED BY <1>1, <2>2, <2>3 DEF TypeInv, TypeOK, OneQuota
  <1>2. ASSUME NEW v \in Worker, NEW given \in SUBSET Fields, UpdateWorker(v, given),
               NEW w \in Worker, row'[w].exists
        PROVE  row'[w].quota = DefaultQuota
    <2>1. StaffMay(v) /\ row[v].exists /\ left.staff > 0
      <3>1. StaffMay(v)
        BY <1>2 DEF UpdateWorker
      <3> QED BY <3>1 DEF StaffMay
    <2>2. PICK quota \in Quotas, on \in BOOLEAN, a \in Agent \cup {NoOne} :
            row' = [row EXCEPT ![v] = [row[v] EXCEPT
                      !.quota   = IF "maxAuctions" \in given THEN quota ELSE @,
                      !.enabled = IF "enabled" \in given THEN on ELSE @,
                      !.agent   = IF "scraperAgentId" \in given THEN a ELSE @]]
      BY <1>2 DEF UpdateWorker
    <2>3. Quotas \subseteq {DefaultQuota}
      BY <2>1 DEF Undisturbed, NoneElse
    <2>4. PICK e, g :
            row' = [row EXCEPT ![v] = [row[v] EXCEPT
                      !.quota = IF "maxAuctions" \in given THEN DefaultQuota ELSE @,
                      !.enabled = e, !.agent = g]]
      <3>1. quota = DefaultQuota
        BY <2>3
      <3> QED BY <2>2, <3>1
    <2>5. row[v] \in Row /\ row \in [Worker -> Row]
      BY DEF TypeInv, TypeOK
    <2>6. row'[v].quota = DefaultQuota
      BY <2>1, <2>4, <2>5 DEF Row, OneQuota
    <2>7. w # v => row'[w] = row[w]
      BY <2>4, <2>5
    <2> QED BY <1>2, <2>6, <2>7 DEF OneQuota
  <1>3. ASSUME DeleteRow, NEW w \in Worker, row'[w].exists
        PROVE  row'[w].quota = DefaultQuota
    BY <1>3 DEF DeleteRow, NoRow, TypeInv, TypeOK, OneQuota
  <1>4. ASSUME NEW r \in Request, PollStep(r), ~PollRegister(r)
        PROVE  row' = row
    BY <1>4 DEF PollStep, ClaimRead, ClaimOwn, ClaimRest, ClaimStamp, ClaimReread
  <1>5. \A w \in Worker : row'[w].exists => row'[w].quota = DefaultQuota
    <2> SUFFICES ASSUME NEW w \in Worker, row'[w].exists
                 PROVE  row'[w].quota = DefaultQuota
      OBVIOUS
    <2>1. CASE row' = row
      BY <2>1 DEF OneQuota
    <2>2. CASE row' # row
      <3>1. \/ \E r \in Request : PollRegister(r)
            \/ \E v \in Worker, given \in SUBSET Fields : UpdateWorker(v, given)
            \/ DeleteRow
        <4>1. ~(\/ \E r \in Request, v \in Worker, a \in Agent \cup {NoOne} : PollArrive(r, v, a)
                \/ ReleaseFinished \/ SweepFind \/ SweepRelease \/ ReleaseStale
                \/ \E s \in Sale, a \in Agent : AssignAgent(s, a)
                \/ RefreshRead \/ RefreshReplace \/ RefreshFail
                \/ \E v \in Worker : ReleaseWorker(v) \/ RemoveWorker(v)
                \/ TrimRead \/ TrimWrite \/ StaffRelease
                \/ Tick \/ Restart \/ UNCHANGED vars)
          BY <2>2
             DEF PollArrive, ReleaseFinished, SweepFind, SweepRelease, ReleaseStale,
                 AssignAgent, RefreshRead, RefreshReplace, RefreshFail, ReleaseWorker,
                 RemoveWorker, TrimRead, TrimWrite, StaffRelease, Tick, Restart, vars
        <4> QED BY <1>4, <2>2, <4>1 DEF Next, StaffStep
      <3>2. CASE DeleteRow
        BY <1>3, <3>2
      <3> QED BY <1>1, <1>2, <3>1, <3>2
    <2> QED BY <2>1, <2>2
  <1>6. ASSUME NEW q \in Request, req'[q].pc \in Answering
        PROVE  req'[q].quota = DefaultQuota
    <2>1. CASE req'[q] = req[q]
      BY <1>6, <2>1 DEF OneQuota
    <2>2. CASE PollStep(q) /\ req'[q] # NoPoll
      <3>1. req[q].w \in Worker
        BY <2>2, OwnMoves DEF TypeInv, Served
      <3> QED BY <1>5, <2>2, <3>1, OwnMoves DEF OneQuota
    <2> QED BY <1>6, <2>1, <2>2, RequestMoves DEF NoPoll, Answering, Undisturbed
  <1> QED
    BY <1>5, <1>6 DEF OneQuota

\* No refresh begins, and without staff none of their operations does.
LEMMA NoneElseStep ==
    ASSUME TypeInv, Undisturbed, NoneElse, [Next]_vars
    PROVE  NoneElse'
  <1>1. ~RefreshRead
    BY DEF RefreshRead, Undisturbed, TypeInv, TypeOK
  <1>2. ~refresh'.busy
    <2>1. refresh' = refresh \/ refresh' = NoRefresh
      BY <1>1, RefreshFrame
    <2> QED BY <2>1 DEF NoneElse, NoRefresh
  <1>3. ASSUME MaxStaff = 0
        PROVE  left'.staff = 0 /\ staff'.pc = "idle"
    <2>1. left.staff = 0 /\ staff.pc = "idle"
      BY <1>3 DEF NoneElse
    <2>2. \A w \in Worker : ~StaffMay(w)
      BY <2>1 DEF StaffMay
    <2>3. ~StaffStep
      BY <2>1 DEF StaffStep, TrimRead, TrimWrite, StaffRelease, DeleteRow
    <2>4. CASE Restart
      BY <2>1, <2>4 DEF Restart, NoStaff, TypeInv, TypeOK
    <2>5. ASSUME ~Restart
          PROVE  UNCHANGED <<left, staff>>
      <3>1. ASSUME NEW w \in Worker
            PROVE  ~ReleaseWorker(w) /\ ~RemoveWorker(w)
        BY <2>2 DEF ReleaseWorker, RemoveWorker
      <3>2. ASSUME NEW w \in Worker, NEW given
            PROVE  ~UpdateWorker(w, given)
        BY <2>2 DEF UpdateWorker
      <3>3. ASSUME NEW r \in Request, PollStep(r)
            PROVE  UNCHANGED <<left, staff>>
        BY <3>3 DEF PollStep, PollRegister, ClaimRead, ClaimOwn, ClaimRest, ClaimStamp,
           ClaimReread
      <3>4. ASSUME NEW r \in Request, NEW w \in Worker, NEW a, PollArrive(r, w, a)
            PROVE  UNCHANGED <<left, staff>>
        BY <3>4 DEF PollArrive
      <3>5. ASSUME NEW s \in Sale, NEW a \in Agent, AssignAgent(s, a)
            PROVE  UNCHANGED <<left, staff>>
        BY <3>5 DEF AssignAgent
      <3>6. CASE \/ ReleaseFinished \/ SweepFind \/ SweepRelease \/ ReleaseStale
                 \/ RefreshRead \/ RefreshReplace \/ RefreshFail \/ Tick \/ UNCHANGED vars
        BY <3>6 DEF ReleaseFinished, SweepFind, SweepRelease, ReleaseStale, RefreshRead,
           RefreshReplace, RefreshFail, Tick, vars
      <3> QED BY <2>3, <2>5, <3>1, <3>2, <3>3, <3>4, <3>5, <3>6 DEF Next
    <2> QED BY <2>1, <2>4, <2>5
  <1> QED
    BY <1>2, <1>3 DEF NoneElse

LEMMA QuotaNext ==
    Undisturbed /\ TypeInv /\ QuotaInv /\ [Next]_vars => TypeInv' /\ QuotaInv'
  <1> SUFFICES ASSUME Undisturbed, TypeInv, QuotaInv, [Next]_vars
               PROVE  TypeInv' /\ QuotaInv'
    OBVIOUS
  <1>1. ~OverlappingPolls /\ NoneElse /\ Alone /\ OneQuota
    BY DEF Undisturbed, QuotaInv
  <1>2. NoneElse' /\ Alone' /\ OneQuota'
    BY <1>1, NoneElseStep, AloneStep, OneQuotaStep
  <1>3. (\A r \in Request : Fits(r))'
    BY <1>1, FitsStep
  <1>4. HoldsNoMore'
    BY HoldsStep
  <1> QED
    BY <1>2, <1>3, <1>4, NextType DEF QuotaInv

LEMMA QuotaInit == Init => QuotaInv
  <1> SUFFICES ASSUME Init PROVE QuotaInv
    OBVIOUS
  <1>1. \A r \in Request : req[r] = NoPoll
    BY DEF Init
  <1>2. NoneElse /\ Alone /\ OneQuota
    BY <1>1 DEF Init, NoneElse, Alone, OneQuota, NoPoll, NoRow, NoRefresh, NoStaff, Answering
  <1>3. \A r \in Request : Fits(r)
    BY <1>1, FS_EmptySet DEF Fits, NoPoll
  <1>4. ASSUME NEW w \in Worker, NEW d \in Nat
        PROVE  Cardinality(Live(w, d)) <= DefaultQuota
    <2>1. \A s \in Sale : entry[s].by # w
      BY ScraperAssumption DEF Init, Unlisted
    <2>2. Live(w, d) = {}
      BY <2>1 DEF Live, Mine
    <2> QED BY <2>2, FS_EmptySet, ScraperAssumption
  <1> QED
    BY <1>2, <1>3, <1>4 DEF QuotaInv, HoldsNoMore

\* With one poll of a VM at a time, no refresh and quotas left alone, a VM never
\* holds more open sales than it has tabs, on any day, whatever requests, crons,
\* restarts and other staff operations are interleaved (claim, releaseFinished,
\* sweepDeadWorkers, release, remove).
THEOREM QuotaHolds == Undisturbed /\ Spec => []QuotaRespected
  <1>1. Undisturbed /\ TypeInv /\ QuotaInv => QuotaRespected
    <2> SUFFICES ASSUME TypeInv, QuotaInv, NEW w \in Worker, row[w].exists
                 PROVE  Cardinality(Live(w, Today)) <= row[w].quota
      BY DEF QuotaRespected
    <2>1. Today \in Nat
      BY DayNat DEF Today, TypeInv, TypeOK
    <2> QED BY <2>1 DEF QuotaInv, OneQuota, HoldsNoMore
  <1>2. Undisturbed => Undisturbed'
    BY DEF Undisturbed
  <1> QED
    BY <1>1, <1>2, InitType, QuotaInit, QuotaNext, PTL DEF Spec

-----------------------------------------------------------------------------
(* The poll is idempotent                                                   *)

\* Nobody switches a VM off.
AllOn == \A w \in Worker : row[w].exists => row[w].enabled

\* Claims and requests are of today or of a day gone by, and no VM has a sale of a
\* later day than the request it has in flight.
DaysPass ==
    /\ \A r \in Request : req[r].pc # "idle" => req[r].day <= Today
    /\ \A s \in Sale : entry[s].by # NoOne => SaleDay(s) <= Today
    /\ \A r \in Request, s \in Sale :
          (req[r].pc # "idle" /\ entry[s].by = req[r].w) => SaleDay(s) <= req[r].day

RepeatInv == QuotaInv /\ AllOn /\ DaysPass

\* orderBy/take returns all there is when it is asked for as much.
LEMMA EarliestAll ==
    ASSUME NEW S \in SUBSET Sale, NEW n \in Nat, Cardinality(S) <= n, NEW C \in Earliest(S, n)
    PROVE  C = S
  <1>1. C \in SUBSET S /\ C \in SUBSET Sale
    BY DEF Earliest
  <1>2. Cardinality(S) \in Nat /\ IsFiniteSet(S)
    BY SalesCount
  <1>3. Cardinality(C) = IF Cardinality(S) < n THEN Cardinality(S) ELSE n
    BY DEF Earliest
  <1>4. Cardinality(C) = Cardinality(S)
    BY <1>2, <1>3
  <1> QED
    BY <1>1, <1>2, <1>4, FS_Subset

\* Days follow one another.
LEMMA DaysFollow ==
    ASSUME NEW t \in Nat, NEW u \in Nat, t <= u
    PROVE  Day(t) <= Day(u)
  <1> DEFINE p == t \div DayLength
             q == u \div DayLength
  <1>1. DayLength \in Nat /\ DayLength > 0
    BY ScraperAssumption
  <1>2. /\ p \in Nat /\ q \in Nat
        /\ DayLength * p <= t /\ t < DayLength * (p + 1)
        /\ DayLength * q <= u /\ u < DayLength * (q + 1)
    BY <1>1
  <1>3. CASE q < p
    <2> HIDE DEF p, q
    <2>1. PICK k \in Nat : p = q + 1 + k
      <3>1. p - (q + 1) \in Nat /\ p = q + 1 + (p - (q + 1))
        BY <1>2, <1>3
      <3> QED BY <3>1
    <2>2. DayLength * p = DayLength * (q + 1) + DayLength * k
      BY <1>1, <1>2, <2>1
    <2>3. DayLength * k \in Nat /\ DayLength * (q + 1) \in Nat /\ DayLength * p \in Nat
      BY <1>1, <1>2, <2>1
    <2>4. u < DayLength * p
      BY <1>2, <2>2, <2>3
    <2> QED BY <1>2, <2>3, <2>4
  <1>4. CASE ~(q < p)
    <2>1. p <= q
      BY <1>2, <1>4
    <2> QED BY <2>1 DEF Day
  <1> QED
    BY <1>3, <1>4

LEMMA DaysPassStep ==
    ASSUME TypeInv, ~OverlappingPolls, QuotaInv, DaysPass, [Next]_vars
    PROVE  DaysPass'
  <1>1. /\ Today \in Nat /\ Today' \in Nat /\ Today <= Today'
        /\ \A s \in Sale : SaleDay(s) \in Nat
    <2>1. now \in Nat /\ now' \in Nat /\ now <= now'
      BY NowGrows
    <2>2. Day(now) <= Day(now') /\ Day(now) \in Nat /\ Day(now') \in Nat
      BY <2>1, DaysFollow, DayNat
    <2>3. \A s \in Sale : SaleDay(s) \in Nat
      BY DayNat, ScraperAssumption DEF SaleDay
    <2> QED BY <2>2, <2>3 DEF Today, Day
  <1>2. ASSUME NEW r \in Request, req'[r].pc # "idle"
        PROVE  \/ req[r].pc # "idle" /\ req'[r].w = req[r].w /\ req'[r].day = req[r].day
               \/ req'[r].day = Today /\ UNCHANGED <<now, entry>>
    BY <1>2, RequestMoves, OwnMoves DEF NoPoll
  <1>3. \A r \in Request : req[r].day \in Nat
    BY DEF TypeInv, TypeOK, Poll
  <1>4. ASSUME NEW s \in Sale, entry'[s].by # NoOne
        PROVE  \/ entry[s].by = entry'[s].by
               \/ \E r \in Request : /\ req[r].pc # "idle" /\ req[r].w = entry'[s].by
                                     /\ SaleDay(s) = req[r].day
    <2>1. PICK w : w = entry'[s].by
      OBVIOUS
    <2>2. w \in Worker
      BY <1>4, <2>1, NextType DEF TypeInv, TypeOK, Entry
    <2>3. CASE entry[s].by # w
      <3>1. PICK r \in Request : /\ ClaimStamp(r) /\ req[r].w = w
                                 /\ <<s, gen>> \in req[r].cand
        BY <2>1, <2>2, <2>3, ClaimsComeFrom DEF QuotaInv, NoneElse
      <3>2. SaleDay(s) = req[r].day
        BY <3>1 DEF QuotaInv, Fits
      <3> QED BY <2>1, <3>1, <3>2 DEF ClaimStamp
    <2> QED BY <2>1, <2>3
  <1>5. ASSUME NEW r \in Request, req'[r].pc # "idle"
        PROVE  req'[r].day <= Today'
    BY <1>1, <1>2, <1>3, <1>5 DEF DaysPass
  <1>6. ASSUME NEW s \in Sale, entry'[s].by # NoOne
        PROVE  SaleDay(s) <= Today'
    BY <1>1, <1>3, <1>4, <1>6 DEF DaysPass
  <1>7. ASSUME NEW r \in Request, NEW s \in Sale, req'[r].pc # "idle",
               entry'[s].by = req'[r].w
        PROVE  SaleDay(s) <= req'[r].day
    <2>1. entry'[s].by # NoOne
      BY <1>7, NextType, ScraperAssumption DEF TypeInv, Served
    <2>2. CASE req'[r].day = Today /\ UNCHANGED <<now, entry>>
      BY <1>1, <2>1, <2>2 DEF DaysPass
    <2>3. CASE req[r].pc # "idle" /\ req'[r].w = req[r].w /\ req'[r].day = req[r].day
      <3>1. CASE entry[s].by = entry'[s].by
        BY <1>7, <2>3, <3>1 DEF DaysPass
      <3>2. ASSUME NEW q \in Request, req[q].pc # "idle", req[q].w = entry'[s].by,
                   SaleDay(s) = req[q].day
            PROVE  SaleDay(s) <= req'[r].day
        <4>1. q = r
          BY <1>7, <2>3, <3>2 DEF QuotaInv, Alone
        <4> QED BY <1>1, <2>3, <3>2, <4>1
      <3> QED BY <1>4, <2>1, <3>1, <3>2
    <2> QED BY <1>2, <1>7, <2>2, <2>3
  <1>8. \A s \in Sale : SaleDay(s)' = SaleDay(s)
    BY DEF SaleDay, Day
  <1> QED
    BY <1>5, <1>6, <1>7, <1>8 DEF DaysPass

\* A poll registers a VM switched on; only staff could switch it off.
LEMMA AllOnStep ==
    ASSUME TypeInv, MaxStaff = 0, NoneElse, AllOn, [Next]_vars
    PROVE  AllOn'
  <1>1. left.staff = 0 /\ staff.pc = "idle"
    BY DEF NoneElse
  <1>2. ASSUME NEW r \in Request, PollRegister(r)
        PROVE  AllOn'
    <2> DEFINE a == req[r].agent
               born == [exists |-> TRUE, enabled |-> TRUE, quota |-> DefaultQuota,
                        agent |-> a, seen |-> now]
               kept == [row[req[r].w] EXCEPT !.seen = now,
                                             !.agent = IF a = NoOne THEN @ ELSE a]
               new == IF row[req[r].w].exists THEN kept ELSE born
    <2>1. req[r].w \in Worker /\ row[req[r].w] \in Row
      BY <1>2 DEF PollRegister, TypeInv, TypeOK, Served
    <2>2. new.enabled
      BY <2>1, ZenonT(60) DEF Row, AllOn
    <2>3. row' = row \/ row' = [row EXCEPT ![req[r].w] = new]
      BY <1>2 DEF PollRegister
    <2> HIDE DEF new
    <2> QED BY <1>2, <2>2, <2>3 DEF TypeInv, TypeOK, AllOn
  <1>3. ASSUME ~\E r \in Request : PollRegister(r)
        PROVE  row' = row
    <2>1. \A w \in Worker : ~StaffMay(w)
      BY <1>1 DEF StaffMay
    <2>2. ~StaffStep
      BY <1>1 DEF StaffStep, TrimRead, TrimWrite, StaffRelease, DeleteRow
    <2>3. ASSUME NEW w \in Worker
          PROVE  ~ReleaseWorker(w) /\ ~RemoveWorker(w)
      BY <2>1 DEF ReleaseWorker, RemoveWorker
    <2>4. ASSUME NEW w \in Worker, NEW given
          PROVE  ~UpdateWorker(w, given)
      BY <2>1 DEF UpdateWorker
    <2>5. ASSUME NEW r \in Request, PollStep(r)
          PROVE  row' = row
      BY <1>3, <2>5 DEF PollStep, ClaimRead, ClaimOwn, ClaimRest, ClaimStamp, ClaimReread
    <2>6. ASSUME NEW r \in Request, NEW w \in Worker, NEW a, PollArrive(r, w, a)
          PROVE  row' = row
      BY <2>6 DEF PollArrive
    <2>7. ASSUME NEW s \in Sale, NEW a \in Agent, AssignAgent(s, a)
          PROVE  row' = row
      BY <2>7 DEF AssignAgent
    <2>8. CASE \/ ReleaseFinished \/ SweepFind \/ SweepRelease \/ ReleaseStale
               \/ RefreshRead \/ RefreshReplace \/ RefreshFail \/ Tick \/ Restart
               \/ UNCHANGED vars
      BY <2>8 DEF ReleaseFinished, SweepFind, SweepRelease, ReleaseStale, RefreshRead,
         RefreshReplace, RefreshFail, Tick, Restart, vars
    <2> QED BY <2>2, <2>3, <2>4, <2>5, <2>6, <2>7, <2>8 DEF Next
  <1> QED
    BY <1>2, <1>3 DEF AllOn

\* What a VM was told and still has comes back in a new answer.
LEMMA AnswerRepeats ==
    ASSUME TypeInv, RepeatInv, [Next]_vars, NEW w \in Worker, NEW s \in Sale,
           s \in told[w], entry[s].by = w, SaleDay(s) = Today, ~Ended(s)
    PROVE  s \in told'[w]
  <1>1. ASSUME NEW r \in Request, PollStep(r), req[r].w = w
        PROVE  s \in Live(w, req[r].day) /\ req[r].day \in Nat
    <2>1. req[r].pc # "idle"
      BY <1>1, OwnMoves
    <2>2. req[r].day <= Today /\ SaleDay(s) <= req[r].day
      BY <1>1, <2>1 DEF RepeatInv, DaysPass
    <2>3. req[r].day \in Nat /\ Today \in Nat
      BY DayNat DEF TypeInv, TypeOK, Poll, Today
    <2>4. SaleDay(s) = req[r].day
      BY <2>2, <2>3
    <2> QED BY <1>1, <2>3, <2>4 DEF Live, Mine
  <1>2. ASSUME NEW r \in Request, ClaimRead(r) \/ ClaimReread(r)
        PROVE  s \in told'[w]
    <2>1. CASE told' = told
      BY <2>1
    <2>2. ASSUME NEW mine \in Earliest(Live(req[r].w, req[r].day), req[r].quota),
                 Finish(r, mine), req[r].w = w
          PROVE  s \in mine
      <3>1. PICK L, d : L = Live(w, d) /\ d = req[r].day
        OBVIOUS
      <3>2. s \in L /\ d \in Nat
        BY <1>1, <1>2, <2>2, <3>1 DEF PollStep
      <3>3. req[r].quota = DefaultQuota /\ DefaultQuota \in Nat
        BY <1>2, ScraperAssumption
           DEF ClaimRead, ClaimReread, RepeatInv, QuotaInv, OneQuota, Answering
      <3>4. Cardinality(L) <= DefaultQuota /\ L \in SUBSET Sale
        BY <3>1, <3>2 DEF RepeatInv, QuotaInv, HoldsNoMore, Live, Mine
      <3>5. mine \in Earliest(L, DefaultQuota)
        BY <2>2, <3>1, <3>3
      <3>6. mine = L
        BY <3>3, <3>4, <3>5, EarliestAll
      <3> QED BY <3>2, <3>6
    <2>3. \/ told' = told
          \/ \E mine \in Earliest(Live(req[r].w, req[r].day), req[r].quota) : Finish(r, mine)
      BY <1>2 DEF ClaimRead, ClaimReread
    <2> QED BY <2>1, <2>2, <2>3, FinishTold DEF TypeInv
  <1>3. ASSUME NEW r \in Request, ClaimRest(r)
        PROVE  s \in told'[w]
    <2>1. told' = told \/ Finish(r, req[r].live)
      BY <1>3 DEF ClaimRest
    <2>2. ASSUME req[r].w = w
          PROVE  s \in req[r].live
      <3>1. s \in Live(w, req[r].day)
        BY <1>1, <1>3, <2>2 DEF PollStep
      <3>2. Live(w, req[r].day) \subseteq req[r].live
        BY <1>3, <2>2 DEF RepeatInv, QuotaInv, Fits, ClaimRest
      <3> QED BY <3>1, <3>2
    <2> QED BY <2>1, <2>2, FinishTold DEF TypeInv
  <1>4. ASSUME NEW r \in Request, PollRegister(r)
        PROVE  told' = told
    <2> DEFINE a == req[r].agent
               born == [exists |-> TRUE, enabled |-> TRUE, quota |-> DefaultQuota,
                        agent |-> a, seen |-> now]
               kept == [row[req[r].w] EXCEPT !.seen = now,
                                             !.agent = IF a = NoOne THEN @ ELSE a]
               new == IF row[req[r].w].exists THEN kept ELSE born
    <2>1. req[r].w \in Worker /\ row[req[r].w] \in Row
      BY <1>4 DEF PollRegister, TypeInv, TypeOK, Served
    <2>2. new.enabled
      BY <2>1, ZenonT(60) DEF Row, RepeatInv, AllOn
    <2>3. UNCHANGED told \/ ~new.enabled
      BY <1>4 DEF PollRegister
    <2> QED BY <2>2, <2>3
  <1>5. ASSUME NEW r \in Request, ClaimOwn(r) \/ ClaimStamp(r)
        PROVE  told' = told
    BY <1>5 DEF ClaimOwn, ClaimStamp
  <1>6. ASSUME NEW r \in Request, NEW v \in Worker, NEW a \in Agent \cup {NoOne},
               PollArrive(r, v, a)
        PROVE  told' = told
    BY <1>6 DEF PollArrive
  <1>7. ASSUME NEW r \in Request, PollStep(r)
        PROVE  s \in told'[w]
    BY <1>2, <1>3, <1>4, <1>5, <1>7 DEF PollStep
  <1> QED
    BY <1>6, <1>7, PollsOnly

LEMMA RepeatNext ==
    /\ Undisturbed /\ MaxStaff = 0 /\ TypeInv /\ RepeatInv /\ [Next]_vars
    => TypeInv' /\ RepeatInv'
  BY QuotaNext, DaysPassStep, AllOnStep DEF RepeatInv, Undisturbed, QuotaInv

LEMMA RepeatInit == Init => RepeatInv
  <1> SUFFICES ASSUME Init PROVE RepeatInv
    OBVIOUS
  <1>1. AllOn /\ DaysPass
    <2>1. \A s \in Sale : entry[s].by = NoOne
      BY DEF Init, Unlisted
    <2>2. \A r \in Request : req[r].pc = "idle"
      BY DEF Init, NoPoll
    <2>3. \A w \in Worker : ~row[w].exists
      BY DEF Init, NoRow
    <2> QED BY <2>1, <2>2, <2>3 DEF AllOn, DaysPass
  <1> QED
    BY <1>1, QuotaInit DEF RepeatInv

\* With one poll of a VM at a time, no refresh and no staff at work, every answer
\* repeats what the VM was told of the day and still has, whatever polls of other
\* VMs, crons, midnights and restarts come in between (poll, claim).
THEOREM PollsRepeat == Undisturbed /\ MaxStaff = 0 /\ Spec => PollIsIdempotent
  <1> DEFINE Repeats == \A w \in Worker, s \in Sale :
                           (/\ s \in told[w] /\ entry[s].by = w
                            /\ SaleDay(s) = Today /\ ~Ended(s))
                               => s \in told'[w]
             Alike == Undisturbed /\ MaxStaff = 0
  <1>1. Alike /\ TypeInv /\ RepeatInv /\ [Next]_vars => [Repeats]_vars
    BY AnswerRepeats
  <1>2. Alike => Alike'
    BY DEF Undisturbed
  <1>3. Alike /\ TypeInv /\ RepeatInv /\ [Next]_vars => TypeInv' /\ RepeatInv'
    BY RepeatNext
  <1>4. Init => TypeInv /\ RepeatInv
    BY InitType, RepeatInit
  <1> HIDE DEF Alike
  <1>5. Alike /\ Spec => [][Repeats]_vars
    BY <1>1, <1>2, <1>3, <1>4, PTL DEF Spec
  <1> QED
    BY <1>5 DEF Alike, PollIsIdempotent
=============================================================================
