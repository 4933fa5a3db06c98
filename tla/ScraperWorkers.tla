--------------------------- MODULE ScraperWorkers ---------------------------
(***************************************************************************)
(* How the day's auctions are dealt out to the virtual machines that run   *)
(* Chrome and Automa: the long poll of apps/api/src/scraper-workers, its   *)
(* cron jobs and staff operations, the calendar refresh of                 *)
(* apps/api/src/auction-calendar that replaces every row underneath them,  *)
(* and the morning release of libs/common/src/auction.                     *)
(*                                                                         *)
(* Every await of the code is a step: a request keeps the worker row, the  *)
(* quota and the candidate ids it has read, and others run in between.     *)
(* A single SQL statement is one step.                                     *)
(***************************************************************************)
EXTENDS Naturals, FiniteSets

CONSTANTS
    Worker,           \* ids a virtual machine may poll with
    Agent,            \* portal accounts
    Sale,             \* sales, named by (locationSourceId, startedAt)
    Request,          \* poll requests the API can be serving at once
    NoOne,            \* the SQL NULL of scraperWorkerId and scraperAgentId
    StartOf,          \* startedAt of each sale
    MailBox,          \* worker id that an account's email would create
    Duration,         \* saleDurationHours
    DeadAfter,        \* deadWorkerMinutes
    DayLength,        \* length of a Houston day
    DefaultQuota,     \* defaultMaxAuctions
    Quotas,           \* values staff may give maxAuctions
    Waits,            \* values of the request's wait flag
    PollRounds,       \* LONG_POLL_MS / LONG_POLL_STEP_MS
    Reliable,         \* the VMs that never stop polling
    OverlappingPolls, \* may a VM poll again while its last poll is held
    MaxTime,          \* bound on the clock
    MaxRefresh,       \* bound on calendar refreshes
    MaxStaff,         \* bound on staff operations
    MaxRestarts       \* bound on restarts of the API

ASSUME ScraperAssumption ==
    /\ NoOne \notin Worker /\ NoOne \notin Agent
    /\ IsFiniteSet(Sale)
    /\ StartOf \in [Sale -> Nat]
    /\ MailBox \in [Agent -> Worker]
    /\ Duration \in Nat /\ DeadAfter \in Nat
    /\ DayLength \in Nat \ {0}
    /\ DefaultQuota \in Nat /\ Quotas \subseteq Nat
    /\ Waits \subseteq BOOLEAN /\ PollRounds \in Nat
    /\ Reliable \subseteq Worker
    /\ OverlappingPolls \in BOOLEAN
    /\ MaxTime \in Nat /\ MaxRefresh \in Nat
    /\ MaxStaff \in Nat /\ MaxRestarts \in Nat

VARIABLES
    now,      \* the clock
    gen,      \* how often the calendar has been replaced: ids do not survive it
    entry,    \* auction_calendar_entries, by sale
    row,      \* scraper_workers
    req,      \* poll requests being served
    refresh,  \* fetchAndStore in flight: the claims it read before replacing
    sweep,    \* sweepDeadWorkers in flight: the workers it found dead
    staff,    \* the staff operation in flight
    told,     \* the sales in the last answer each VM got: its open tabs
    reopened, \* sales whose claim has been lifted at least once
    left      \* environment moves not yet used up

vars == <<now, gen, entry, row, req, refresh, sweep, staff, told, reopened, left>>

-----------------------------------------------------------------------------
(* Records                                                                  *)

Id == Sale \X Nat   \* an entry id: the row of a sale in one calendar

Entry == [listed : BOOLEAN,               \* the row exists
          work   : BOOLEAN,               \* has items and status is not ended
          by     : Worker \cup {NoOne},   \* scraperWorkerId
          agent  : Agent \cup {NoOne}]    \* scraperAgentId

Unlisted == [listed |-> FALSE, work |-> FALSE, by |-> NoOne, agent |-> NoOne]

Row == [exists : BOOLEAN, enabled : BOOLEAN, quota : Nat,
        agent : Agent \cup {NoOne}, seen : Nat]

NoRow == [exists |-> FALSE, enabled |-> FALSE, quota |-> 0,
          agent |-> NoOne, seen |-> 0]

Poll == [pc : {"idle", "register", "read", "own", "rest", "stamp", "reread"},
         w : Worker \cup {NoOne}, agent : Agent \cup {NoOne}, day : Nat,
         quota : Nat, wait : BOOLEAN, round : Nat,
         live : SUBSET Sale, cand : SUBSET Id]

NoPoll == [pc |-> "idle", w |-> NoOne, agent |-> NoOne, day |-> 0, quota |-> 0,
           wait |-> FALSE, round |-> 0, live |-> {}, cand |-> {}]

Refresh == [busy : BOOLEAN, by : [Sale -> Worker \cup {NoOne}],
            agent : [Sale -> Agent \cup {NoOne}]]

NoRefresh == [busy |-> FALSE, by |-> [s \in Sale |-> NoOne],
              agent |-> [s \in Sale |-> NoOne]]

Staff == [pc : {"idle", "trimRead", "trimWrite", "release", "delete"},
          w : Worker \cup {NoOne}, quota : Nat, next : {"idle", "release", "delete"},
          ids : SUBSET Id]

NoStaff == [pc |-> "idle", w |-> NoOne, quota |-> 0, next |-> "idle", ids |-> {}]

TypeOK ==
    /\ now \in Nat /\ gen \in Nat
    /\ entry \in [Sale -> Entry]
    /\ row \in [Worker -> Row]
    /\ req \in [Request -> Poll]
    /\ refresh \in Refresh
    /\ sweep \in SUBSET Worker
    /\ staff \in Staff
    /\ told \in [Worker -> SUBSET Sale]
    /\ reopened \in SUBSET Sale
    /\ left \in [staff : Nat, restart : Nat]

-----------------------------------------------------------------------------
(* Queries                                                                  *)

Day(t) == t \div DayLength
Today == Day(now)
SaleDay(s) == Day(StartOf[s])

\* hasEnded: the sale closed Duration after its start.
Ended(s) == StartOf[s] + Duration < now

Started(s) == StartOf[s] <= now

\* Mutants: the query loses its worker, or asks for what is still to start.
MineOfAnyone(w, day) == {s \in Sale : entry[s].by # NoOne /\ SaleDay(s) = day}
MineToCome(w, day) == {s \in Sale : /\ entry[s].by = w /\ SaleDay(s) = day
                                    /\ StartOf[s] > now}

\* mineToday
Mine(w, day) == {s \in Sale : entry[s].by = w /\ SaleDay(s) = day}

Live(w, day) == {s \in Mine(w, day) : ~Ended(s)}

\* The filter every candidate of a claim has to pass.
Free(day) == {s \in Sale : /\ entry[s].listed /\ entry[s].work
                           /\ entry[s].by = NoOne
                           /\ SaleDay(s) = day
                           /\ StartOf[s] + Duration > now}

\* orderBy startedAt asc, take n: ties come out in any order.
Earliest(S, n) ==
    {C \in SUBSET S :
        /\ Cardinality(C) = IF Cardinality(S) < n THEN Cardinality(S) ELSE n
        /\ \A x \in C, y \in S \ C : StartOf[x] <= StartOf[y]}

IdsOf(S) == S \X {gen}

Missing(r) == req[r].quota - Cardinality(req[r].live)

\* Mutants: the rest ignores what the plan gave, or is never asked for.
RestRoomAll(r) == Missing(r)
RestRoomNone(r) == 0

\* What is left of the quota once the VM's own plan has been taken.
RestRoom(r) == Missing(r) - Cardinality(req[r].cand)

\* Mutant: no foreign key.
KnownAlways(w) == TRUE

\* The foreign key of scraperWorkerId holds.
Known(w) == row[w].exists

Dead(w) == row[w].exists /\ row[w].seen + DeadAfter < now

Serving(w) == \E r \in Request : req[r].pc # "idle" /\ req[r].w = w

\* Mutant: the email itself is taken for the worker id.
ResolveRaw(w, a) == IF a = NoOne THEN {w} ELSE {a}

\* resolveWorker: a slug is the worker id; an email is the worker linked to
\* that account, or a worker named by the email.
Resolve(w, a) ==
    LET linked == {x \in Worker : row[x].exists /\ row[x].agent = a}
    IN  IF a = NoOne THEN {w}
        ELSE IF linked = {} THEN {MailBox[a]} ELSE linked

-----------------------------------------------------------------------------
Init ==
    /\ now = 0 /\ gen = 0
    /\ \E listed \in {{}, Sale} :   \* before or after the first fetch
          entry = [s \in Sale |-> IF s \in listed
                                 THEN [Unlisted EXCEPT !.listed = TRUE, !.work = TRUE]
                                 ELSE Unlisted]
    /\ row = [w \in Worker |-> NoRow]
    /\ req = [r \in Request |-> NoPoll]
    /\ refresh = NoRefresh
    /\ sweep = {}
    /\ staff = NoStaff
    /\ told = [w \in Worker |-> {}]
    /\ reopened = {}
    /\ left = [staff |-> MaxStaff, restart |-> MaxRestarts]

\* scraperWorkerId := NULL on the rows of S.
Lift(S) ==
    /\ entry' = [s \in Sale |->
                    IF s \in S THEN [entry[s] EXCEPT !.by = NoOne] ELSE entry[s]]
    /\ reopened' = reopened \cup {s \in S : entry[s].by # NoOne}

-----------------------------------------------------------------------------
(* POST /scraper/poll                                                       *)

Drop(r) == req' = [req EXCEPT ![r] = NoPoll]

\* The answer the VM receives replaces the one it had.
Reply(r, answer) ==
    /\ told' = [told EXCEPT ![req[r].w] = answer]
    /\ Drop(r)

\* claim() returned mine: answer it, or, with nothing to give and a VM that
\* waits, sleep and claim again with the quota read at the start.
Finish(r, mine) ==
    \/ /\ mine = {} /\ req[r].wait /\ req[r].round < PollRounds
       /\ req' = [req EXCEPT ![r].pc = "read", ![r].round = @ + 1,
                             ![r].live = {}, ![r].cand = {}]
       /\ UNCHANGED told
    \/ /\ mine # {} \/ ~req[r].wait \/ req[r].round > 0
       /\ Reply(r, mine)

\* A VM identifies itself by slug or by the email of its account.
PollArrive(r, slug, email) ==
    /\ req[r].pc = "idle"
    /\ \E w \in Resolve(slug, email), wait \in Waits :
          /\ OverlappingPolls \/ ~Serving(w)
          /\ req' = [req EXCEPT ![r] = [NoPoll EXCEPT
                        !.pc = "register", !.w = w, !.agent = email,
                        !.day = Today, !.wait = wait]]
    /\ UNCHANGED <<now, gen, entry, row, refresh, sweep, staff, told, reopened, left>>

\* Upsert of the worker row: the heartbeat, and the birth of an unknown VM.
\* The unique index on scraperAgentId makes the request fail.
PollRegister(r) ==
    LET w    == req[r].w
        a    == req[r].agent
        born == [exists |-> TRUE, enabled |-> TRUE, quota |-> DefaultQuota,
                 agent |-> a, seen |-> now]
        kept == [row[w] EXCEPT !.seen = now, !.agent = IF a = NoOne THEN @ ELSE a]
        new  == IF row[w].exists THEN kept ELSE born
    IN  /\ req[r].pc = "register"
        /\ IF a # NoOne /\ \E x \in Worker \ {w} : row[x].agent = a
           THEN Drop(r) /\ UNCHANGED <<row, told>>
           ELSE /\ row' = [row EXCEPT ![w] = new]
                /\ IF new.enabled
                   THEN /\ req' = [req EXCEPT ![r].pc = "read", ![r].agent = NoOne,
                                             ![r].quota = new.quota]
                        /\ UNCHANGED told
                   ELSE Reply(r, {})
        /\ UNCHANGED <<now, gen, entry, refresh, sweep, staff, reopened, left>>

\* claim(), first query: what the VM already has that is still selling.
ClaimRead(r) ==
    LET live == Live(req[r].w, req[r].day)
    IN  /\ req[r].pc = "read"
        /\ IF Cardinality(live) >= req[r].quota
           THEN \E mine \in Earliest(live, req[r].quota) : Finish(r, mine)
           ELSE /\ req' = [req EXCEPT ![r].pc = "own", ![r].live = live]
                /\ UNCHANGED told
        /\ UNCHANGED <<now, gen, entry, row, refresh, sweep, staff, reopened, left>>

\* The free sales the morning's plan gave to the VM's own account come first.
ClaimOwn(r) ==
    LET a   == row[req[r].w].agent
        own == {s \in Free(req[r].day) : a # NoOne /\ entry[s].agent = a}
    IN  /\ req[r].pc = "own"
        /\ \E C \in Earliest(own, Missing(r)) :
              req' = [req EXCEPT ![r].pc = "rest", ![r].cand = IdsOf(C)]
        /\ UNCHANGED <<now, gen, entry, row, refresh, sweep, staff, told, reopened, left>>

\* The quota is completed with whatever else is free.
ClaimRest(r) ==
    LET others == {s \in Free(req[r].day) : <<s, gen>> \notin req[r].cand}
    IN  /\ req[r].pc = "rest"
        /\ \E C \in Earliest(others, RestRoom(r)) :
              LET cand == req[r].cand \cup IdsOf(C)
              IN  IF cand = {}
                  THEN Finish(r, req[r].live)
                  ELSE /\ req' = [req EXCEPT ![r].pc = "stamp", ![r].cand = cand,
                                             ![r].live = {}]
                       /\ UNCHANGED told
        /\ UNCHANGED <<now, gen, entry, row, refresh, sweep, staff, reopened, left>>

\* Mutant: the stamp forgets scraperWorkerId: null.
WonUnguarded(r) == {s \in Sale : <<s, gen>> \in req[r].cand /\ entry[s].listed}

\* The sales a stamp wins: rows that still have a candidate id and no worker.
Won(r) == {s \in Sale : /\ <<s, gen>> \in req[r].cand
                        /\ entry[s].listed /\ entry[s].by = NoOne}

\* updateMany ... scraperWorkerId: null. Once the worker row is gone the request
\* fails, on the foreign key or on the lastClaimAt update after it.
ClaimStamp(r) ==
    /\ req[r].pc = "stamp"
    /\ IF Known(req[r].w)
       THEN /\ entry' = [s \in Sale |-> IF s \in Won(r)
                            THEN [entry[s] EXCEPT !.by = req[r].w] ELSE entry[s]]
            /\ req' = [req EXCEPT ![r].pc = "reread", ![r].cand = {}]
       ELSE Drop(r) /\ UNCHANGED entry
    /\ UNCHANGED <<now, gen, row, refresh, sweep, staff, told, reopened, left>>

\* lastClaimAt, then the second read: what the request really won.
ClaimReread(r) ==
    LET after == Live(req[r].w, req[r].day)
    IN  /\ req[r].pc = "reread"
        /\ IF Known(req[r].w)
           THEN \E mine \in Earliest(after, req[r].quota) : Finish(r, mine)
           ELSE Drop(r) /\ UNCHANGED told
        /\ UNCHANGED <<now, gen, entry, row, refresh, sweep, staff, reopened, left>>

PollStep(r) ==
    \/ PollRegister(r) \/ ClaimRead(r) \/ ClaimOwn(r)
    \/ ClaimRest(r) \/ ClaimStamp(r) \/ ClaimReread(r)

-----------------------------------------------------------------------------
(* Cron jobs                                                                *)

\* releaseFinished, every ten minutes: today's closed sales.
Finished == {s \in Sale : entry[s].by # NoOne /\ SaleDay(s) = Today /\ Ended(s)}

ReleaseFinished ==
    /\ Finished # {}
    /\ Lift(Finished)
    /\ UNCHANGED <<now, gen, row, req, refresh, sweep, staff, told, left>>

\* sweepDeadWorkers, every five minutes: two queries.
SweepFind ==
    /\ sweep = {}
    /\ {w \in Worker : Dead(w)} # {}
    /\ sweep' = {w \in Worker : Dead(w)}
    /\ UNCHANGED <<now, gen, entry, row, req, refresh, staff, told, reopened, left>>

\* Mutants: sales under way are swept too, or instead.
SweptAll == {s \in Sale : entry[s].by \in sweep /\ SaleDay(s) = Today}
SweptStarted == {s \in Sale : entry[s].by \in sweep /\ SaleDay(s) = Today /\ Started(s)}

\* Today's sales of the dead that have not begun.
Swept == {s \in Sale : entry[s].by \in sweep /\ SaleDay(s) = Today /\ ~Started(s)}

SweepRelease ==
    /\ sweep # {}
    /\ Lift(Swept)
    /\ sweep' = {}
    /\ UNCHANGED <<now, gen, row, req, refresh, staff, told, left>>

\* Mutant: only rows with an agent count as held.
StaleByAgent == {s \in Sale : /\ entry[s].listed /\ entry[s].agent # NoOne
                              /\ StartOf[s] < now \/ ~entry[s].work}

\* releaseStale: at 6:00 and whenever staff press the button, both the agent and
\* the VM of every sale that has started or has nothing to sell.
Stale == {s \in Sale : /\ entry[s].listed
                       /\ StartOf[s] < now \/ ~entry[s].work
                       /\ entry[s].agent # NoOne \/ entry[s].by # NoOne}

ReleaseStale ==
    /\ Stale # {}
    /\ entry' = [s \in Sale |-> IF s \in Stale
                    THEN [entry[s] EXCEPT !.by = NoOne, !.agent = NoOne] ELSE entry[s]]
    /\ reopened' = reopened \cup {s \in Stale : entry[s].by # NoOne}
    /\ UNCHANGED <<now, gen, row, req, refresh, sweep, staff, told, left>>

\* One row of an updateMany of assignPending, the plan of the day: its read and
\* its guarded write of the row are one step.
AssignAgent(s, a) ==
    /\ entry[s].listed /\ entry[s].work /\ entry[s].agent = NoOne
    /\ StartOf[s] >= now
    /\ entry' = [entry EXCEPT ![s].agent = a]
    /\ UNCHANGED <<now, gen, row, req, refresh, sweep, staff, told, reopened, left>>

-----------------------------------------------------------------------------
(* Calendar refresh                                                         *)

\* fetchAndStore, first half: claims and agents to carry over.
RefreshRead ==
    /\ ~refresh.busy /\ gen < MaxRefresh
    /\ refresh' = [busy |-> TRUE, by |-> [s \in Sale |-> entry[s].by],
                   agent |-> [s \in Sale |-> entry[s].agent]]
    /\ UNCHANGED <<now, gen, entry, row, req, sweep, staff, told, reopened, left>>

\* The rows built from the feed: listed sales, those with work, old claims.
Rebuilt(listed, work) ==
    [s \in Sale |-> IF s \in listed
        THEN [listed |-> TRUE, work |-> s \in work,
              by |-> refresh.by[s], agent |-> refresh.agent[s]]
        ELSE Unlisted]

\* deleteMany and createMany in one transaction; every row gets a new id. A claim
\* of a worker deleted meanwhile breaks the foreign key and rolls it back.
RefreshReplace ==
    \E listed \in SUBSET Sale : \E work \in SUBSET listed :
        /\ refresh.busy
        /\ \A s \in listed : refresh.by[s] # NoOne => Known(refresh.by[s])
        /\ entry' = Rebuilt(listed, work)
        /\ reopened' = reopened \cup
              {s \in Sale : entry[s].by # NoOne /\ entry'[s].by # entry[s].by}
        /\ gen' = gen + 1
        /\ refresh' = NoRefresh
        /\ UNCHANGED <<now, row, req, sweep, staff, told, left>>

\* The feed, the proxy or the transaction failed: nothing is stored.
RefreshFail ==
    /\ refresh.busy
    /\ refresh' = NoRefresh
    /\ UNCHANGED <<now, gen, entry, row, req, sweep, staff, told, reopened, left>>

-----------------------------------------------------------------------------
(* Auction Data -> Scraper Workers: what staff do                           *)

StaffMay(w) ==
    /\ staff.pc = "idle" /\ left.staff > 0
    /\ row[w].exists
    /\ left' = [left EXCEPT !.staff = @ - 1]

\* PATCH: the row first; the trim and the release it asks for come after it.
\* given are the fields present in the request.
UpdateWorker(w, given) ==
    \E quota \in Quotas, on \in BOOLEAN, a \in Agent \cup {NoOne} :
        LET off == "enabled" \in given /\ ~on
            new == [row[w] EXCEPT
                      !.quota   = IF "maxAuctions" \in given THEN quota ELSE @,
                      !.enabled = IF "enabled" \in given THEN on ELSE @,
                      !.agent   = IF "scraperAgentId" \in given THEN a ELSE @]
            next == IF off THEN "release" ELSE "idle"
        IN  /\ StaffMay(w)
            /\ ~\E x \in Worker \ {w} : new.agent # NoOne /\ row[x].agent = new.agent
            /\ row' = [row EXCEPT ![w] = new]
            /\ staff' = IF "maxAuctions" \in given
                        THEN [NoStaff EXCEPT !.pc = "trimRead", !.w = w,
                                             !.quota = quota, !.next = next]
                        ELSE IF off THEN [NoStaff EXCEPT !.pc = "release", !.w = w]
                                    ELSE NoStaff
            /\ UNCHANGED <<now, gen, entry, req, refresh, sweep, told, reopened>>

\* The continuation after a step of an update or a removal.
Continue(next) ==
    staff' = IF next = "idle" THEN NoStaff
             ELSE [NoStaff EXCEPT !.pc = next, !.w = staff.w]

\* trimToQuota: the surplus is what starts last, closed sales counted too.
TrimRead ==
    LET mine == Mine(staff.w, Today)
    IN  /\ staff.pc = "trimRead"
        /\ \E keep \in Earliest(mine, staff.quota) :
              IF mine \ keep = {} THEN Continue(staff.next)
              ELSE staff' = [staff EXCEPT !.pc = "trimWrite", !.ids = IdsOf(mine \ keep)]
        /\ UNCHANGED <<now, gen, entry, row, req, refresh, sweep, told, reopened, left>>

\* ... and it is freed by id, whoever has it by now.
TrimWrite ==
    /\ staff.pc = "trimWrite"
    /\ Lift({s \in Sale : <<s, gen>> \in staff.ids})
    /\ Continue(staff.next)
    /\ UNCHANGED <<now, gen, row, req, refresh, sweep, told, left>>

\* release(id), within an update or a removal.
StaffRelease ==
    /\ staff.pc = "release"
    /\ Lift(Mine(staff.w, Today))
    /\ Continue(staff.next)
    /\ UNCHANGED <<now, gen, row, req, refresh, sweep, told, left>>

\* POST :id/release
ReleaseWorker(w) ==
    /\ StaffMay(w)
    /\ Lift(Mine(w, Today))
    /\ UNCHANGED <<now, gen, row, req, refresh, sweep, staff, told>>

\* DELETE: release, then the row; the foreign key frees what is left.
RemoveWorker(w) ==
    /\ StaffMay(w)
    /\ staff' = [NoStaff EXCEPT !.pc = "release", !.w = w, !.next = "delete"]
    /\ UNCHANGED <<now, gen, entry, row, req, refresh, sweep, told, reopened>>

DeleteRow ==
    /\ staff.pc = "delete"
    /\ row' = [row EXCEPT ![staff.w] = NoRow]
    /\ Lift({s \in Sale : entry[s].by = staff.w})
    /\ staff' = NoStaff
    /\ UNCHANGED <<now, gen, req, refresh, sweep, told, left>>

StaffStep == TrimRead \/ TrimWrite \/ StaffRelease \/ DeleteRow

-----------------------------------------------------------------------------
(* Environment                                                              *)

Tick ==
    /\ now < MaxTime
    /\ now' = now + 1
    /\ UNCHANGED <<gen, entry, row, req, refresh, sweep, staff, told, reopened, left>>

\* The API process restarts: everything in flight is forgotten.
Restart ==
    /\ left.restart > 0
    /\ left' = [left EXCEPT !.restart = @ - 1]
    /\ req' = [r \in Request |-> NoPoll]
    /\ refresh' = NoRefresh
    /\ sweep' = {}
    /\ staff' = NoStaff
    /\ UNCHANGED <<now, gen, entry, row, told, reopened>>

Fields == {"maxAuctions", "enabled", "scraperAgentId"}

Next ==
    \/ \E r \in Request, w \in Worker, a \in Agent \cup {NoOne} : PollArrive(r, w, a)
    \/ \E r \in Request : PollStep(r)
    \/ ReleaseFinished \/ SweepFind \/ SweepRelease \/ ReleaseStale
    \/ \E s \in Sale, a \in Agent : AssignAgent(s, a)
    \/ RefreshRead \/ RefreshReplace \/ RefreshFail
    \/ \E w \in Worker : ReleaseWorker(w) \/ RemoveWorker(w)
    \/ \E w \in Worker, given \in (SUBSET Fields) \ {{}} : UpdateWorker(w, given)
    \/ StaffStep
    \/ Tick \/ Restart

Spec == Init /\ [][Next]_vars

\* Requests and staff operations run to their end, the crons keep firing, and the
\* reliable VMs keep polling by their slug (Automa's interval trigger). Nothing is
\* assumed of the other VMs, the clock, the calendar feed or staff.
Fairness ==
    /\ \A r \in Request : WF_vars(PollStep(r))
    /\ \A w \in Reliable : WF_vars(\E r \in Request : PollArrive(r, w, NoOne))
    /\ WF_vars(StaffStep)
    /\ WF_vars(ReleaseFinished)
    /\ WF_vars(SweepFind) /\ WF_vars(SweepRelease)
    /\ WF_vars(ReleaseStale)

FairSpec == Spec /\ Fairness

-----------------------------------------------------------------------------
(* What the distribution promises                                           *)

\* Two VMs are told to open the same sale only if its claim was lifted in
\* between, whatever requests race for it: the exclusivity of the stamp and of
\* the re-read after it (claim()).
ExclusiveAnswers ==
    \A v, w \in Worker : v # w => told[v] \cap told[w] \subseteq reopened

\* A claim passes from one VM to another only through NULL; the one exception is
\* the calendar replacement, which writes back the claims it read earlier.
ClaimNeverSteals ==
    [][\A s \in Sale : (entry[s].by # NoOne /\ entry'[s].by # NoOne)
                           => entry'[s].by = entry[s].by \/ gen' # gen]_vars

\* A sale under way stays with its VM, alive or dead: only staff, a calendar
\* refresh or releaseStale can take it, never a cron of this service or a poll.
InProgressKept ==
    [][\A s \in Sale :
        (/\ entry[s].by # NoOne /\ Started(s) /\ ~Ended(s)
         /\ entry'[s].by # entry[s].by)
            => \/ gen' # gen \/ staff' # staff \/ left' # left
               \/ ReleaseStale]_vars

\* Every claim belongs to a registered worker, also when a refresh writes back
\* claims read before that worker was removed.
HoldersRegistered ==
    \A s \in Sale : entry[s].by # NoOne => row[entry[s].by].exists

\* A VM holds no more open sales than it has tabs.
QuotaRespected ==
    \A w \in Worker : row[w].exists => Cardinality(Live(w, Today)) <= row[w].quota

\* The poll is idempotent within the day: what a VM was told and still has comes
\* back in its next answer, across relaunches of Automa and restarts of the API.
PollIsIdempotent ==
    [][\A w \in Worker, s \in Sale :
        (/\ s \in told[w] /\ entry[s].by = w
         /\ SaleDay(s) = Today /\ ~Ended(s))
            => s \in told'[w]]_vars

\* What a silent VM has of the day ahead goes back to the pot (sweepDeadWorkers).
SilentVmFreed ==
    \A w \in Worker, s \in Sale :
        (Dead(w) /\ entry[s].by = w /\ SaleDay(s) = Today /\ ~Started(s))
            ~> (~Dead(w) \/ entry[s].by # w \/ Started(s))

\* A closed sale gives its tab back, also one that closes after midnight.
ClosedSaleFreed ==
    \A s \in Sale : (entry[s].by # NoOne /\ Ended(s)) ~> (entry[s].by = NoOne)

\* A sale that can be worked stays unclaimed only while every VM that keeps polling
\* is disabled or has its tabs full.
FreeSaleClaimed ==
    \A s \in Sale, w \in Reliable :
        (s \in Free(Today))
            ~> \/ s \notin Free(Today)
               \/ row[w].exists /\ ~row[w].enabled
               \/ row[w].exists /\ Cardinality(Live(w, Today)) >= row[w].quota

\* A refresh keeps the VM of every claimed sale that it lists again.
RefreshKeepsClaims ==
    [][\A s \in Sale :
        (gen' # gen /\ entry[s].by # NoOne /\ entry'[s].listed)
            => entry'[s].by = entry[s].by]_vars

\* Once the update has run and no request is being served, a disabled VM holds
\* nothing of the day.
DisabledHoldsNothing ==
    \A w \in Worker :
        (row[w].exists /\ ~row[w].enabled /\ ~Serving(w) /\ staff.pc = "idle")
            => Mine(w, Today) = {}

-----------------------------------------------------------------------------
(* The abstract deal this implements                                        *)

Deal == INSTANCE SaleDeal WITH
            VM <- Worker, Nobody <- NoOne,
            holder <- [s \in Sale |-> entry[s].by],
            open <- told, lifted <- reopened, calendar <- gen

\* With every query and every write of the code a step of its own, what a VM is
\* given and told is still one deal: claims of free sales, traced releases and
\* answers that name what the VM holds (poll, claim, the crons, the refresh).
ImplementsDeal == Deal!DealSpec
=============================================================================
