--------------------------- MODULE MonitorSessions ---------------------------
(***************************************************************************)
(* The live-sale monitor: MonitorSchedulerService of apps/auction-monitor, *)
(* whose tick makes the browser's pages follow the calendar, and the staff *)
(* operations of apps/api that steer it through auction_monitor_sessions.  *)
(*                                                                         *)
(* Every await is a step where somebody else's write in between can tell.  *)
(* Logs, screenshots and the frame filters are left out.                   *)
(***************************************************************************)
EXTENDS SaleClock, SaleSink

CONSTANTS
    MaxConcurrent,  \* maxConcurrentSessions
    MaxFailures,    \* failed sessions after which a sale is left alone
    NoSale

ASSUME MonitorAssumption ==
    /\ MaxConcurrent \in Nat \ {0} /\ MaxFailures \in Nat \ {0}
    /\ IsFiniteSet(Page)
    /\ NoSale \notin Sale

VARIABLES
    row,        \* auction_monitor_sessions
    page,       \* the browser's page of each runner
    runners,    \* the map of the scheduler
    monitored,  \* auction_calendar_entries.monitor
    halted,     \* auction_monitor_config.paused
    work,       \* the tick in flight
    asked,      \* stops of staff between their read and their write
    wanted,     \* starts of staff between their read and their write
    up,         \* the worker runs
    watchLeft   \* moves of staff and of the environment not yet used up

watchVars == <<row, page, runners, monitored, halted, work, asked, wanted, up,
               watchLeft>>

-----------------------------------------------------------------------------
(* Records                                                                  *)

Live == {"pending", "starting", "running", "stopping"}

\* Reasons that end the coverage of a sale.
Terminal == {"idle", "duration", "manual", "unmonitored"}

Row == [status : Live \cup {"none", "stopped", "failed"},
        why : Terminal \cup {"", "lost", "paused", "shutdown"},
        sale : Sale \cup {NoSale}]

NoRow == [status |-> "none", why |-> "", sale |-> NoSale]

\* off: the page of this session is being closed, for the reason why.
Work == [pc : {"idle", "pause", "reconcile", "rows", "conditions", "stop", "due",
               "create", "take", "login", "start", "open"},
         paused : BOOLEAN, todo : SUBSET Page, stopping : SUBSET Page,
         off : SUBSET Page, why : Terminal \cup {"", "paused"}, sales : SUBSET Sale]

NoWork == [pc |-> "idle", paused |-> FALSE, todo |-> {}, stopping |-> {}, off |-> {},
           why |-> "", sales |-> {}]

MonitorTypeOK ==
    /\ row \in [Page -> Row]
    /\ page \in [Page -> {"none", "open", "dead"}]
    /\ runners \in SUBSET Page
    /\ monitored \in SUBSET Sale
    /\ halted \in BOOLEAN
    /\ work \in Work
    /\ asked \in SUBSET Page /\ wanted \in SUBSET Sale
    /\ up \in BOOLEAN
    /\ watchLeft \in [staff : Nat, fault : Nat]
    \* a row is one of a sale
    /\ \A p \in Page : row[p].status = "none" <=> row[p].sale = NoSale

-----------------------------------------------------------------------------
(* Queries                                                                  *)

Is(p, statuses) == row[p].status \in statuses

\* Sales between leadMinutes before their start and maxDurationMinutes after it.
Due == {s \in monitored : phase[s] \in {"soon", "on"}}

Sessions(s) == {p \in Page : row[p].sale = s}

Failures(s) == Cardinality({p \in Sessions(s) : Is(p, {"failed"})})

\* Mutant: one session is enough.
HandledOnce(s) == Sessions(s) # {}

\* A live session, or one that ended for good.
Handled(s) == \E p \in Sessions(s) :
                 Is(p, Live) \/ (Is(p, {"stopped"}) /\ row[p].why \in Terminal)

\* enqueueDueEntries: what gets a new session.
Uncovered == {s \in Due : ~Handled(s) /\ Failures(s) < MaxFailures}

\* The next row: which one makes no difference.
Fresh == CHOOSE p \in Page : Is(p, {"none"})

\* A new row for s; Page bounds how many there can be.
Created(s) ==
    /\ \E p \in Page : Is(p, {"none"})
    /\ row' = [row EXCEPT ![Fresh] = [NoRow EXCEPT !.status = "pending", !.sale = s]]

SpendWatch(kind) == watchLeft[kind] > 0 /\ watchLeft' = [watchLeft EXCEPT ![kind] = @ - 1]

Some(S, n) == {C \in SUBSET S : Cardinality(C) = Least(Cardinality(S), n)}

\* The rows of S get a status, or the update fails and nobody hears of it.
Close(S, status, why) ==
    [p \in Page |-> IF p \in S THEN [row[p] EXCEPT !.status = status, !.why = why]
                    ELSE row[p]]

Tries(rows) == \/ row' = rows /\ UNCHANGED watchLeft
               \/ UNCHANGED row /\ SpendWatch("fault")

-----------------------------------------------------------------------------
(* The tick                                                                 *)

\* Loops over nothing are left out: where the tick goes on with todo.
StopLoop(w) ==
    IF w.todo # {} THEN w
    ELSE IF w.paused THEN NoWork ELSE [NoWork EXCEPT !.pc = "due"]

\* tick: never two at once; the configuration is read first, and syncCounters takes
\* the counters of every open session. stopAll, if paused.
TickBegins ==
    /\ up /\ work.pc = "idle"
    /\ work' = IF halted
               THEN StopLoop([NoWork EXCEPT !.pc = "pause", !.paused = TRUE, !.todo = runners])
               ELSE [NoWork EXCEPT !.pc = "reconcile"]
    /\ TakeCounters(runners)
    /\ UNCHANGED <<row, page, runners, monitored, halted, asked, wanted, up, watchLeft,
                   queue, post, request, overdue, sentKeys, keyOrder, result, latest, gaveUp,
                   spoiled, sinkLeft>>

\* reconcile: runners without a living page; one by one in the code, and nobody else
\* writes these rows but a stop of staff, which is lost in either order.
Reconcile ==
    LET dead == {p \in runners : page[p] # "open"}
    IN  /\ work.pc = "reconcile"
        /\ runners' = runners \ dead
        /\ page' = [p \in Page |-> IF p \in dead THEN "none" ELSE page[p]]
        /\ Tries(Close(dead, "failed", ""))
        /\ work' = [work EXCEPT !.pc = "rows"]
        /\ UNCHANGED <<monitored, halted, asked, wanted, up, sinkVars>>

\* Mutant: rows with a runner are closed as well.
LostAll == {p \in Page : Is(p, {"starting", "running", "stopping"})}

\* Rows in flight without a runner.
Lost == {p \in Page \ runners : Is(p, {"starting", "running", "stopping"})}

\* The pages staff wants closed.
AskedToStop == {p \in runners : Is(p, {"stopping"})}

\* Mutant: staff's stop is not looked at.
SeenStoppingNot == {}

SeenStopping == AskedToStop

\* The end of reconcile, and applyStopConditions up to its only read of the rows.
ReadRows ==
    /\ work.pc = "rows"
    /\ row' = Close(Lost, "stopped", "lost")
    /\ work' = StopLoop([work EXCEPT !.pc = "conditions", !.todo = runners,
                                     !.stopping = SeenStopping])
    /\ UNCHANGED <<page, runners, monitored, halted, asked, wanted, up, watchLeft, sinkVars>>

\* What may close the page of p: staff, the hard stop, silence once the sale has
\* started, the toggle of the calendar; "" is nothing. How long a page has been silent
\* is left open: one opened in the middle of a sale counts from the sale's start.
Reasons(p) ==
    LET at     == phase[row[p].sale]
        toggle == IF row[p].sale \in monitored THEN "" ELSE "unmonitored"
    IN  IF p \in work.stopping THEN {"manual"}
        ELSE IF at = "past" THEN {"duration"}
        ELSE IF at = "on" THEN {"idle", toggle}
        ELSE {toggle}

\* stopSession of p, up to runner.stop(): frames are ignored from here on.
StopPage(p, why) ==
    /\ page' = [page EXCEPT ![p] = "none"]
    /\ work' = [work EXCEPT !.pc = "stop", !.off = {p}, !.why = why, !.todo = @ \ {p}]

\* One turn of the loop of stopAll or of applyStopConditions.
StopTurn ==
    /\ \E p \in work.todo :
          \/ work.pc = "pause" /\ StopPage(p, "paused")
          \/ /\ work.pc = "conditions"
             /\ \E why \in Reasons(p) :
                   IF why # "" THEN StopPage(p, why)
                   ELSE /\ work' = StopLoop([work EXCEPT !.todo = @ \ {p}])
                        /\ UNCHANGED page
    /\ UNCHANGED <<row, runners, monitored, halted, asked, wanted, up, watchLeft, sinkVars>>

\* The end of stopSession: the row is closed, whatever it says by now, and the runner
\* leaves the map.
StopEnds ==
    /\ work.pc = "stop"
    /\ TakeCounters(work.off)
    /\ Tries(Close(work.off, "stopped", work.why))
    /\ runners' = runners \ work.off
    /\ work' = StopLoop([work EXCEPT !.pc = IF work.paused THEN "pause" ELSE "conditions",
                                     !.off = {}, !.why = ""])
    /\ UNCHANGED <<page, monitored, halted, asked, wanted, up, queue, post, request,
                   overdue, sentKeys, keyOrder, result, latest, gaveUp, spoiled, sinkLeft>>

\* enqueueDueEntries: the entries and their sessions are read ...
ReadDue ==
    /\ work.pc = "due"
    /\ work' = [work EXCEPT !.pc = IF Uncovered = {} THEN "take" ELSE "create",
                            !.sales = Uncovered]
    /\ UNCHANGED <<row, page, runners, monitored, halted, asked, wanted, up, watchLeft,
                   sinkVars>>

\* ... and the missing ones created, whoever has created one meanwhile.
CreateDue ==
    /\ work.pc = "create"
    /\ \E s \in work.sales :
          /\ Created(s)
          /\ work' = [work EXCEPT !.pc = IF work.sales = {s} THEN "take" ELSE "create",
                                  !.sales = @ \ {s}]
    /\ UNCHANGED <<page, runners, monitored, halted, asked, wanted, up, watchLeft, sinkVars>>

\* startDue: as many pending rows as there is room for.
TakePending ==
    LET pending == {p \in Page : Is(p, {"pending"})}
        room    == MaxConcurrent - Cardinality(runners)
    IN  /\ work.pc = "take"
        /\ IF room <= 0 \/ pending = {} THEN work' = NoWork
           ELSE \E C \in Some(pending, room) :
                   work' = [work EXCEPT !.pc = "login", !.todo = C]
        /\ UNCHANGED <<row, page, runners, monitored, halted, asked, wanted, up, watchLeft,
                       sinkVars>>

\* ensureLoggedIn; without a login the whole batch has failed.
Login ==
    /\ work.pc = "login"
    /\ \/ work' = [work EXCEPT !.pc = "start"] /\ UNCHANGED row
       \/ work' = NoWork /\ row' = Close(work.todo, "failed", "")
    /\ UNCHANGED <<page, runners, monitored, halted, asked, wanted, up, watchLeft, sinkVars>>

\* startSession: starting, whatever the row says by now, and the page.
StartSession ==
    /\ work.pc = "start"
    /\ \E p \in work.todo :
          /\ row' = [row EXCEPT ![p].status = "starting"]
          /\ page' = [page EXCEPT ![p] = "open"]
          /\ work' = [work EXCEPT !.pc = "open", !.off = {p}, !.todo = @ \ {p}]
    /\ UNCHANGED <<runners, monitored, halted, asked, wanted, up, watchLeft, sinkVars>>

\* runner.start() returns: the map, then running over whatever staff wrote; or it
\* throws, or the update does once the runner is in the map.
OpenEnds ==
    /\ work.pc = "open"
    /\ \E p \in work.off :
          \/ /\ runners' = runners \cup {p}
             /\ row' = [row EXCEPT ![p].status = "running"]
             /\ UNCHANGED <<page, watchLeft>>
          \/ /\ row' = [row EXCEPT ![p].status = "failed"]
             /\ page' = [page EXCEPT ![p] = "none"]
             /\ \/ UNCHANGED <<runners, watchLeft>>
                \/ SpendWatch("fault") /\ runners' = runners \cup {p}
    /\ work' = IF work.todo = {} THEN NoWork ELSE [work EXCEPT !.pc = "start", !.off = {}]
    /\ UNCHANGED <<monitored, halted, asked, wanted, up, sinkVars>>

TickStep ==
    \/ Reconcile \/ ReadRows \/ StopTurn \/ StopEnds \/ ReadDue \/ CreateDue
    \/ TakePending \/ Login \/ StartSession \/ OpenEnds

\* A query fails, also the one that records that a page did not open: the rest of the
\* tick is left out.
TickThrows ==
    /\ work.pc \in {"rows", "conditions", "due", "create", "take", "login", "start", "open"}
    /\ SpendWatch("fault")
    /\ page' = [p \in Page |-> IF p \in work.off THEN "none" ELSE page[p]]
    /\ \E S \in {{}, work.off} : runners' = runners \cup S
    /\ work' = NoWork
    /\ UNCHANGED <<row, monitored, halted, asked, wanted, up, sinkVars>>

-----------------------------------------------------------------------------
(* Pages, frames and the worker's life                                      *)

\* onFrame: an event not seen before is queued; any frame keeps the page from idling.
Frame(p) ==
    /\ page[p] = "open" /\ phase[row[p].sale] = "on"
    /\ SpendSink("frame")
    /\ \E e \in Event : \/ Enqueue(p, e)
                        \/ Duplicate(e) /\ UNCHANGED <<queue, post, request, overdue, sentKeys,
                              keyOrder, tally, result, latest, gaveUp, spoiled>>
    /\ UNCHANGED <<row, page, runners, monitored, halted, work, asked, wanted, up, watchLeft>>

\* Chromium drops a page.
PageDies(p) ==
    /\ page[p] = "open" /\ SpendWatch("fault")
    /\ page' = [page EXCEPT ![p] = "dead"]
    /\ UNCHANGED <<row, runners, monitored, halted, work, asked, wanted, up, sinkVars>>

MonitorDies ==
    /\ up /\ SpendWatch("fault")
    /\ up' = FALSE
    /\ page' = [p \in Page |-> "none"] /\ runners' = {} /\ work' = NoWork
    /\ SinkDies
    /\ UNCHANGED <<row, monitored, halted, asked, wanted, sinkLeft>>

\* Rows of the container that died.
Interrupted == {p \in Page : Is(p, Live)}

\* onModuleInit: nothing is running now; an update that fails is not retried.
MonitorBoots ==
    /\ ~up /\ up' = TRUE
    /\ Tries(Close(Interrupted, "stopped", "shutdown"))
    /\ UNCHANGED <<page, runners, monitored, halted, work, asked, wanted, sinkVars>>

-----------------------------------------------------------------------------
(* Staff, through the API                                                   *)

\* stopSession reads the row ...
AskStop(p) ==
    /\ Is(p, Live) /\ p \notin asked /\ SpendWatch("staff")
    /\ asked' = asked \cup {p}
    /\ UNCHANGED <<row, page, runners, monitored, halted, work, wanted, up, sinkVars>>

\* ... and writes stopping by id.
WriteStop(p) ==
    /\ p \in asked /\ asked' = asked \ {p}
    /\ row' = [row EXCEPT ![p].status = "stopping"]
    /\ UNCHANGED <<page, runners, monitored, halted, work, wanted, up, watchLeft,
                   sinkVars>>

\* startEntry finds no live session of the entry ...
AskStart(s) ==
    /\ s \notin wanted /\ ~\E p \in Sessions(s) : Is(p, Live)
    /\ SpendWatch("staff")
    /\ wanted' = wanted \cup {s}
    /\ UNCHANGED <<row, page, runners, monitored, halted, work, asked, up, sinkVars>>

\* ... and creates one.
WriteStart(s) ==
    /\ s \in wanted /\ wanted' = wanted \ {s}
    /\ Created(s)
    /\ UNCHANGED <<page, runners, monitored, halted, work, asked, up, watchLeft,
                   sinkVars>>

\* setMonitor, and paused of updateConfig.
Toggle ==
    /\ SpendWatch("staff")
    /\ \/ /\ \E s \in Sale : monitored' = (monitored \ {s}) \cup ({s} \ monitored)
          /\ UNCHANGED halted
       \/ halted' = ~halted /\ UNCHANGED monitored
    /\ UNCHANGED <<row, page, runners, work, asked, wanted, up, sinkVars>>

-----------------------------------------------------------------------------
MonitorInit ==
    /\ row = [p \in Page |-> NoRow] /\ page = [p \in Page |-> "none"]
    /\ runners = {}
    /\ monitored \in SUBSET Sale /\ halted \in BOOLEAN
    /\ work = NoWork /\ asked = {} /\ wanted = {} /\ up = TRUE
    /\ watchLeft \in [staff : Nat, fault : Nat]

MonitorVars == <<watchVars, sinkVars>>

\* What the scheduler, the sink and requests in flight do by themselves.
Scheduler == TickBegins \/ TickStep \/ MonitorBoots

Requests == \/ \E p \in Page : WriteStop(p)
            \/ \E s \in Sale : WriteStart(s)

MonitorStep ==
    \/ Scheduler \/ Requests \/ TickThrows
    \/ SinkStep /\ UNCHANGED watchVars
    \/ \E p \in Page : Frame(p) \/ PageDies(p) \/ AskStop(p)
    \/ \E s \in Sale : AskStart(s)
    \/ MonitorDies \/ Toggle

\* The cron fires every 30 seconds and every await of a tick ends: pages and logins
\* have timeouts. A worker that died is started again by its container.
MonitorFairness ==
    /\ WF_watchVars(UNCHANGED phase /\ Scheduler)
    /\ WF_watchVars(UNCHANGED phase /\ Requests)
    /\ WF_sinkVars(UNCHANGED watchVars /\ SinkStep)

-----------------------------------------------------------------------------
(* Properties                                                               *)

\* No page is open that the worker does not hold or is not opening right now, none
\* whose row says otherwise, and no more than maxConcurrentSessions.
OpenPageIsWatched ==
    LET open == {p \in Page : page[p] = "open"}
    IN  /\ \A p \in open :
              /\ up /\ p \in runners \cup work.off
              /\ Is(p, {"starting", "running", "stopping"})
        /\ Cardinality(open) <= MaxConcurrent

\* Stops written on the rows of pages the worker holds do not stay there, however the
\* ticks fail meanwhile: the pages are closed. On any other row the stop may be
\* written over (startSession).
StopIsHonoured == AskedToStop # {} ~> AskedToStop = {}

\* Due sales that should have a page: the monitor is neither paused nor full, no session
\* of the sale ended for good, and not too many have failed.
Missing ==
    {s \in Due : /\ ~halted /\ Cardinality(runners) < MaxConcurrent
                 /\ Failures(s) < MaxFailures
                 /\ \A p \in Sessions(s) : /\ page[p] # "open"
                                            /\ Is(p, {"stopped"}) => row[p].why \notin Terminal}

\* Due sales get their pages back, after lost pages, failed ticks, restarts and stops
\* that reached no page (enqueueDueEntries, reconcile).
CoverageResumes == Missing # {} ~> Missing = {}
=============================================================================
