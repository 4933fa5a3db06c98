----------------------------- MODULE CopartSync -----------------------------
(***************************************************************************)
(* The Copart import of apps/data-sync (download, staging, upsert, stale   *)
(* marking, indexing) under its advisory lock, the triggers that the API   *)
(* publishes to the same process, the OpenSearch index that both write,    *)
(* and the watchdog of the API; composed with the image pipeline, which    *)
(* lives in the same process and takes its lots from the import.           *)
(*                                                                         *)
(* Steps of the import that are caught and change none of this state       *)
(* (progress, notifications, derived and canonical columns) are left out.  *)
(***************************************************************************)
EXTENDS ImageCacheJobs

CONSTANTS
    Cron,      \* overlapping calls of the half-hourly cron
    Consumer,  \* handlers of the trigger queue
    Feeds      \* the lots that a download may list

Runner == Cron \cup Consumer

ASSUME SyncAssumption ==
    /\ Cron \cap Consumer = {} /\ IsFiniteSet(Consumer)
    /\ Feeds \subseteq SUBSET Lot

VARIABLES
    run,      \* the runSync or trigger handler in flight, by runner
    lock,     \* who holds the advisory lock copart_sync
    running,  \* runners whose SyncRun row says running
    staging,  \* copart_staging
    unseen,   \* lots whose lastSeenAt is past the staleness threshold
    index,    \* the auction_listings index of OpenSearch
    triggers, \* the trigger queue, by kind
    recent,   \* a run succeeded within STALE_THRESHOLD_HOURS
    alerted,  \* staff was alerted within DEDUPE_WINDOW_HOURS
    night,    \* the hours in which the cron does not fire
    lost,     \* a run has lost the session that held its lock
    syncLeft  \* environment moves not yet used up

syncVars == <<run, lock, running, staging, unseen, index, triggers, recent, alerted, night, lost,
              syncLeft>>

Kind == {"import", "import-recreate", "reindex", "recreate"}

\* rest: lots still to stage, new lots to enqueue, or lots still to index;
\* mine: the message is still this handler's to acknowledge.
Run == [pc : {"idle", "lock", "download", "empty", "stage", "map", "ask", "enqueue", "sweep",
              "wipe", "index", "finish", "fail", "unlock", "drop", "create", "settle"},
        kind : Kind, feed : SUBSET Lot, rest : SUBSET Lot, mine : BOOLEAN]

NoRun == [pc |-> "idle", kind |-> "import", feed |-> {}, rest |-> {}, mine |-> TRUE]

\* typed: created with the mapping of createIndex, not by a bulk write.
Index == [exists : BOOLEAN, typed : BOOLEAN, docs : SUBSET Lot]

NoIndex == [exists |-> FALSE, typed |-> FALSE, docs |-> {}]

SyncTypeOK ==
    /\ run \in [Runner -> Run]
    /\ lock \in SUBSET Runner
    /\ running \in SUBSET Runner
    /\ staging \in SUBSET Lot
    /\ unseen \in SUBSET Lot
    /\ index \in Index /\ (~index.exists => index = NoIndex)
    /\ triggers \in [Kind -> Nat]
    /\ {recent, alerted, night, lost} \subseteq BOOLEAN
    /\ syncLeft \in [fault : Nat, people : Nat, age : Nat]

\* The two halves of data-sync, the import with its index and the images of its lots,
\* have their types at every moment.
PipelineTypeOK == JobsTypeOK /\ SyncTypeOK

Listed == {l \in Lot : lot[l].known}

SyncInit ==
    /\ run = [r \in Runner |-> NoRun]
    /\ lock = {}
    /\ running = {}
    /\ staging = {}
    /\ unseen = {}
    /\ index = [exists |-> TRUE, typed |-> TRUE, docs |-> Listed]
    /\ triggers \in [Kind -> Nat]
    /\ recent = FALSE
    /\ alerted = FALSE
    /\ night \in BOOLEAN
    /\ lost = FALSE
    /\ syncLeft \in [fault : Nat, people : Nat, age : Nat]

SpendSync(kind) == syncLeft[kind] > 0 /\ syncLeft' = [syncLeft EXCEPT ![kind] = @ - 1]

At(r, pc) == run[r].pc = pc

Goto(r, pc) == run' = [run EXCEPT ![r].pc = pc]

-----------------------------------------------------------------------------
(* The lock and the row of a run                                            *)

\* handleCopartSyncCron: whatever is going on.
CronFires(r) ==
    /\ r \in Cron /\ At(r, "idle") /\ ~night /\ "data-sync" \notin down
    /\ Goto(r, "lock")
    /\ UNCHANGED <<jobsVars, lock, running, staging, unseen, index, triggers, recent, alerted,
                   night, lost, syncLeft>>

\* pg_try_advisory_lock: the lock and the running row, or a skipped row.
TryLock(r) ==
    /\ At(r, "lock")
    /\ IF lock = {}
       THEN /\ lock' = lock \cup {r} /\ running' = running \cup {r}
            /\ Goto(r, "download")
       ELSE Goto(r, "settle") /\ UNCHANGED <<lock, running>>
    /\ UNCHANGED <<jobsVars, staging, unseen, index, triggers, recent, alerted, night, lost, syncLeft>>

Finish(r) ==
    /\ At(r, "finish")
    /\ running' = running \ {r} /\ recent' = TRUE
    /\ Goto(r, "unlock")
    /\ UNCHANGED <<jobsVars, lock, staging, unseen, index, triggers, alerted, night, lost, syncLeft>>

\* The row says failed, unless that update fails too.
Fail(r) ==
    /\ At(r, "fail")
    /\ \/ running' = running \ {r} /\ UNCHANGED syncLeft
       \/ SpendSync("fault") /\ UNCHANGED running
    /\ Goto(r, "unlock")
    /\ UNCHANGED <<jobsVars, lock, staging, unseen, index, triggers, recent, alerted, night, lost>>

\* Mutant: the lock of a run whose row still says running is kept.
ReleasedIfClosed(r) == {r} \ running

\* What the finally block releases.
Released(r) == {r}

Unlock(r) ==
    /\ At(r, "unlock")
    /\ lock' = lock \ Released(r)
    /\ Goto(r, "settle")
    /\ UNCHANGED <<jobsVars, running, staging, unseen, index, triggers, recent, alerted, night, lost,
                   syncLeft>>

-----------------------------------------------------------------------------
(* The import                                                               *)

Download(r) ==
    /\ At(r, "download")
    /\ \E feed \in Feeds :
          run' = [run EXCEPT ![r].pc = "empty", ![r].feed = feed, ![r].rest = feed]
    /\ UNCHANGED <<jobsVars, lock, running, staging, unseen, index, triggers, recent, alerted,
                   night, lost, syncLeft>>

\* Mutant: what an earlier run left is staged with the feed.
EmptiedNot == staging

\* TRUNCATE copart_staging
Emptied == {}

Empty(r) ==
    /\ At(r, "empty")
    /\ staging' = Emptied
    /\ Goto(r, IF run[r].feed = {} THEN "map" ELSE "stage")
    /\ UNCHANGED <<jobsVars, lock, running, unseen, index, triggers, recent, alerted, night, lost,
                   syncLeft>>

\* insertIntoStaging, a batch.
Stage(r) ==
    /\ At(r, "stage")
    /\ \E l \in run[r].rest :
          /\ staging' = staging \cup {l}
          /\ run' = [run EXCEPT ![r].pc = IF run[r].rest = {l} THEN "map" ELSE "stage",
                                ![r].rest = @ \ {l}]
    /\ UNCHANGED <<jobsVars, lock, running, unseen, index, triggers, recent, alerted, night, lost,
                   syncLeft>>

\* mapStagingToAuctionListings: one upsert; xmax tells the new lots.
Map(r) ==
    LET fresh == staging \ Listed
    IN  /\ At(r, "map")
        /\ lot' = [l \in Lot |-> IF l \in staging
                                 THEN [lot[l] EXCEPT !.known = TRUE, !.stale = FALSE]
                                 ELSE lot[l]]
        /\ unseen' = unseen \ staging
        /\ run' = [run EXCEPT ![r].pc = IF fresh = {} THEN "sweep" ELSE "ask",
                              ![r].feed = {}, ![r].rest = fresh]
        /\ UNCHANGED <<job, late, ready, hand, tick, purge, paused, down, extra, purged, jobsLeft,
                       lock, running, staging, index, triggers, recent, alerted, night, lost, syncLeft>>

\* enqueueNewLots, the read: new lots without a gallery. Its errors are caught.
Ask(r) ==
    /\ At(r, "ask")
    /\ \/ /\ run' = [run EXCEPT ![r].pc = "enqueue", ![r].rest = {l \in @ : ~Cached(l)}]
          /\ UNCHANGED syncLeft
       \/ /\ run' = [run EXCEPT ![r].pc = "sweep", ![r].rest = {}]
          /\ SpendSync("fault")
    /\ UNCHANGED <<jobsVars, lock, running, staging, unseen, index, triggers, recent, alerted,
                   night, lost>>

\* ... and createMany with skipDuplicates. A lot that was cached and dropped by
\* retention in between gets another job, whatever of its first is still waiting.
Enqueue(r) ==
    LET new == {l \in run[r].rest : job[l] = "none"}
    IN  /\ At(r, "enqueue")
        /\ \/ SetJobs(new, "pending") /\ Excuse(new \cap purged) /\ UNCHANGED syncLeft
           \/ SpendSync("fault") /\ UNCHANGED <<job, late, extra>>
        /\ run' = [run EXCEPT ![r].pc = "sweep", ![r].rest = {}]
        /\ UNCHANGED <<lot, ready, hand, tick, purge, paused, down, purged, jobsLeft, lock,
                       running, staging, unseen, index, triggers, recent, alerted, night, lost>>

\* What markStaleListings marks.
Gone == Listed \cap unseen

Sweep(r) ==
    /\ At(r, "sweep")
    /\ lot' = [l \in Lot |-> IF l \in Gone THEN [lot[l] EXCEPT !.stale = TRUE] ELSE lot[l]]
    /\ Goto(r, "wipe")
    /\ UNCHANGED <<job, late, ready, hand, tick, purge, paused, down, extra, purged, jobsLeft,
                   lock, running, staging, unseen, index, triggers, recent, alerted, night, lost,
                   syncLeft>>

Wipe(r) ==
    /\ At(r, "wipe")
    /\ staging' = {}
    /\ run' = [run EXCEPT ![r].pc = "index", ![r].rest = Lot]
    /\ UNCHANGED <<jobsVars, lock, running, unseen, index, triggers, recent, alerted, night, lost,
                   syncLeft>>

\* Mutant: lots that came stale are not written.
ToIndexFresh(r) == {l \in run[r].rest \cap Listed : ~lot[l].stale}

\* syncAllCopart pages through the table, whatever became of it.
ToIndex(r) == run[r].rest \cap Listed

\* A bulk write: errors are counted, not thrown, and a write to a missing index creates
\* it with the mapping OpenSearch guesses.
IndexPage(r) ==
    /\ At(r, "index")
    /\ \E l \in ToIndex(r) :
          /\ run' = [run EXCEPT ![r].rest = @ \ {l}]
          /\ \/ /\ index' = [exists |-> TRUE, typed |-> index.typed,
                             docs |-> index.docs \cup {l}]
                /\ UNCHANGED syncLeft
             \/ SpendSync("fault") /\ UNCHANGED index
    /\ UNCHANGED <<jobsVars, lock, running, staging, unseen, triggers, recent, alerted, night, lost>>

IndexDone(r) ==
    /\ At(r, "index") /\ ToIndex(r) = {}
    /\ run' = [run EXCEPT ![r].pc = IF run[r].kind = "reindex" THEN "settle" ELSE "finish",
                          ![r].rest = {}]
    /\ UNCHANGED <<jobsVars, lock, running, staging, unseen, index, triggers, recent, alerted,
                   night, lost, syncLeft>>

\* A statement or the download fails, or the feed looks wrong.
Throws(r) ==
    /\ run[r].pc \in {"download", "empty", "stage", "map", "sweep", "wipe", "index", "finish"}
    /\ SpendSync("fault")
    /\ run' = [run EXCEPT ![r].pc = IF run[r].kind = "reindex" THEN "settle" ELSE "fail",
                          ![r].feed = {}, ![r].rest = {}]
    /\ UNCHANGED <<jobsVars, lock, running, staging, unseen, index, triggers, recent, alerted,
                   night, lost>>

-----------------------------------------------------------------------------
(* Triggers                                                                 *)

\* The API's endpoints.
Publishes(k) ==
    /\ SpendSync("people")
    /\ triggers' = [triggers EXCEPT ![k] = @ + 1]
    /\ UNCHANGED <<jobsVars, run, lock, running, staging, unseen, index, recent, alerted, night, lost>>

\* handle
FirstStep(k) ==
    CASE k = "import" -> "lock"
      [] k = "reindex" -> "index"
      [] k \in {"recreate", "import-recreate"} -> "drop"

Receive(r, k) ==
    /\ r \in Consumer /\ At(r, "idle") /\ triggers[k] > 0 /\ "data-sync" \notin down
    /\ triggers' = [triggers EXCEPT ![k] = @ - 1]
    /\ run' = [run EXCEPT ![r] = [NoRun EXCEPT !.pc = FirstStep(k), !.kind = k,
                                  !.rest = IF k = "reindex" THEN Lot ELSE {}]]
    /\ UNCHANGED <<jobsVars, lock, running, staging, unseen, index, recent, alerted, night, lost,
                   syncLeft>>

\* What deleteIndex leaves.
Dropped == NoIndex

\* recreateIndex: the index is deleted ...
DropIndex(r) ==
    /\ At(r, "drop")
    /\ \/ index' = Dropped /\ UNCHANGED syncLeft
       \/ SpendSync("fault") /\ UNCHANGED index
    /\ Goto(r, "create")
    /\ UNCHANGED <<jobsVars, lock, running, staging, unseen, triggers, recent, alerted, night, lost>>

\* ... and created, unless somebody's bulk write has created one meanwhile.
Ensured == IF index.exists THEN index ELSE [exists |-> TRUE, typed |-> TRUE, docs |-> {}]

CreateIndex(r) ==
    /\ At(r, "create")
    /\ \/ index' = Ensured /\ UNCHANGED syncLeft
       \/ SpendSync("fault") /\ UNCHANGED index
    /\ Goto(r, IF run[r].kind = "import-recreate" THEN "lock" ELSE "settle")
    /\ UNCHANGED <<jobsVars, lock, running, staging, unseen, triggers, recent, alerted, night, lost>>

-----------------------------------------------------------------------------
(* The process                                                              *)

\* data-sync dies: its sessions release the lock, its rows still say running, and the
\* broker requeues the message of a handler.
SyncDies ==
    LET held(k) == Cardinality({r \in Consumer : ~At(r, "idle") /\ run[r].mine
                                                 /\ run[r].kind = k})
    IN  /\ CrawlerDies
        /\ run' = [r \in Runner |-> NoRun]
        /\ lock' = {}
        /\ triggers' = [k \in Kind |-> triggers[k] + held(k)]
        /\ UNCHANGED <<running, staging, unseen, index, recent, alerted, night, lost>>

\* The end of a call; with a message that is no longer its own, ack and nack throw and
\* nobody handles the rejection.
Settle(r) ==
    /\ At(r, "settle")
    /\ UNCHANGED <<jobsLeft, syncLeft>>
    /\ IF run[r].mine
       THEN /\ run' = [run EXCEPT ![r] = NoRun]
            /\ UNCHANGED <<lot, job, late, ready, hand, tick, purge, paused, down, extra, purged,
                           lock, running, staging, unseen, index, triggers, recent, alerted, night, lost>>
       ELSE SyncDies

SyncCrash ==
    /\ "data-sync" \notin down /\ SpendSync("fault")
    /\ SyncDies /\ UNCHANGED jobsLeft

\* The container starts again: data-sync fails the rows still running, if it can, and
\* makes sure that there is an index.
SyncBoots ==
    /\ ContainerRestarts
    /\ run' = [r \in Runner |-> NoRun]
    /\ lock' = {}
    /\ triggers' = [k \in Kind |->
          triggers[k] + Cardinality({r \in Consumer : ~At(r, "idle") /\ run[r].mine
                                                      /\ run[r].kind = k})]
    /\ \/ running' = {} /\ index' = Ensured /\ UNCHANGED syncLeft
       \/ SpendSync("fault") /\ UNCHANGED <<running, index>>
    /\ UNCHANGED <<staging, unseen, recent, alerted, night, lost>>

\* The broker's connection drops under a handler, which goes on.
TriggerRequeued(r) ==
    /\ r \in Consumer /\ ~At(r, "idle") /\ run[r].mine
    /\ SpendSync("fault")
    /\ triggers' = [triggers EXCEPT ![run[r].kind] = @ + 1]
    /\ run' = [run EXCEPT ![r].mine = FALSE]
    /\ UNCHANGED <<jobsVars, lock, running, staging, unseen, index, recent, alerted, night, lost>>

\* Postgres ends the idle session that holds the lock, and the run does not notice.
LockLost(r) ==
    /\ r \in lock /\ SpendSync("fault")
    /\ lock' = lock \ {r} /\ lost' = TRUE
    /\ UNCHANGED <<jobsVars, run, running, staging, unseen, index, triggers, recent, alerted,
                   night>>

\* Six hours go by, none of them between an upsert and its stale marking.
HoursPass ==
    /\ \A r \in Runner : run[r].pc \notin {"ask", "enqueue", "sweep"}
    /\ SpendSync("age")
    /\ unseen' = Listed /\ recent' = FALSE /\ alerted' = FALSE
    /\ UNCHANGED <<jobsVars, run, lock, running, staging, index, triggers, night, lost>>

\* The cron fires from 5 to 22 o'clock.
DayAndNight ==
    /\ SpendSync("age")
    /\ night' = ~night
    /\ UNCHANGED <<jobsVars, run, lock, running, staging, unseen, index, triggers, recent, alerted,
                   lost>>

\* Mutant: a run under way is taken for a good sign.
MustAlertIdle == ~recent /\ ~alerted /\ running = {}

\* checkCopartSyncStaleness: whatever the rows of the runs say.
MustAlert == ~recent /\ ~alerted

Watchdog ==
    /\ MustAlert
    /\ alerted' = TRUE
    /\ UNCHANGED <<jobsVars, run, lock, running, staging, unseen, index, triggers, recent, night, lost,
                   syncLeft>>

RunStep(r) ==
    \/ TryLock(r) \/ Download(r) \/ Empty(r) \/ Stage(r) \/ Map(r) \/ Ask(r) \/ Enqueue(r)
    \/ Sweep(r) \/ Wipe(r) \/ IndexPage(r) \/ IndexDone(r) \/ Finish(r) \/ Fail(r)
    \/ Unlock(r) \/ DropIndex(r) \/ CreateIndex(r) \/ Settle(r)

SyncNext ==
    \/ JobsStep /\ UNCHANGED syncVars
    \/ \E r \in Runner : CronFires(r) \/ RunStep(r) \/ Throws(r) \/ TriggerRequeued(r)
                         \/ LockLost(r)
    \/ \E r \in Consumer, k \in Kind : Receive(r, k)
    \/ \E k \in Kind : Publishes(k)
    \/ SyncCrash \/ SyncBoots \/ HoursPass \/ DayAndNight \/ Watchdog

\* The crons fire, calls run to their end, the queue is consumed and the watchdog, in
\* another process, wakes up. Nothing starts a dead service again.
SyncFairness ==
    /\ JobsFairness
    /\ \A r \in Cron : WF_syncVars(CronFires(r))
    /\ \A r \in Runner : WF_syncVars(RunStep(r))
    /\ \A r \in Consumer : WF_syncVars(\E k \in Kind : Receive(r, k))
    /\ WF_syncVars(Watchdog)

-----------------------------------------------------------------------------
(* What the import promises                                                 *)

\* What a run upserts is the feed it downloaded, all of it and nothing left over by a
\* crashed, failed or concurrent run: as long as no run has lost its lock.
MapsOwnFeed == \A r \in Runner : At(r, "map") => staging = run[r].feed \/ lost

\* However a run ends, the lock comes back and later runs are not skipped for ever.
LockReturns == lock # {} ~> lock = {}

\* Search finds every lot again after the index was recreated under a run, a bulk
\* write failed or a run died half way.
IndexRefilled ==
    \A l \in Lot : (lot[l].known /\ l \notin index.docs) ~>
                      (l \in index.docs \/ night \/ down # {})

\* Staff hears of a sync that stopped, be it dead, failing or stuck as running.
StaleAlerted == ~recent ~> (recent \/ alerted)
=============================================================================
