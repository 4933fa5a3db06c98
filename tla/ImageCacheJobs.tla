--------------------------- MODULE ImageCacheJobs ---------------------------
(***************************************************************************)
(* The image cache pipeline: the crawler of apps/data-sync, which turns    *)
(* rows of image_cache_jobs into messages of the gallery.cache queue under *)
(* flow control; the consumer of apps/image-service, which uploads and     *)
(* finalizes; the retention job that drops old galleries; and what staff   *)
(* and readers of a listing do from apps/api. RabbitMQ keeps the messages. *)
(*                                                                         *)
(* Every await is a step. The priority of the jobs and the images are not  *)
(* modelled: a batch is any set of the right size.                         *)
(***************************************************************************)
EXTENDS Integers, FiniteSets, Functions

CONSTANTS
    Lot,           \* lot numbers
    Slot,          \* messages the consumer handles at once (concurrentLots)
    LotsPerTick,   \* lots dispatched per minute
    QueueMinutes,  \* MAX_QUEUE_MINUTES
    SeedLowWater,  \* pending jobs below which the backlog is seeded
    SeedBatch      \* lots seeded at once

ASSUME JobsAssumption ==
    /\ IsFiniteSet(Lot) /\ IsFiniteSet(Slot)
    /\ LotsPerTick \in Nat \ {0} /\ QueueMinutes \in Nat
    /\ SeedLowWater \in Nat \ {0} /\ SeedBatch \in Nat \ {0}

VARIABLES
    lot,      \* auction_listings, as the pipeline sees them
    job,      \* image_cache_jobs.status, by lot
    late,     \* the processing jobs whose lastAttemptAt is before the cutoff
    ready,    \* messages waiting in gallery.cache, by lot
    hand,     \* deliveries the consumer is working on: not in the queue's depth
    tick,     \* the crawler's tick in flight
    purge,    \* the retention run in flight
    paused,   \* image_scrape_config.paused
    down,     \* services that died: start-prod.sh does not start them again
    extra,    \* messages and retries that no crawler tick of its own decided
    purged,   \* lots whose gallery retention has dropped
    jobsLeft  \* environment moves not yet used up

jobsVars == <<lot, job, late, ready, hand, tick, purge, paused, down, extra, purged,
              jobsLeft>>

-----------------------------------------------------------------------------
(* Records                                                                  *)

\* age: arrived in the last 48 hours, kept, or past the retention cutoff.
Listing == [known : BOOLEAN, stale : BOOLEAN, cached : BOOLEAN, wanted : BOOLEAN,
            age : {"new", "kept", "old"}]

Unseen == [known |-> FALSE, stale |-> FALSE, cached |-> FALSE, wanted |-> FALSE,
           age |-> "new"]

Service == {"data-sync", "image-service"}

Status == {"none", "pending", "processing", "done", "failed", "skipped"}

\* mine: the delivery is still this consumer's to acknowledge.
Delivery == [pc : {"idle", "check", "upload", "finalize", "ack"}, on : SUBSET Lot,
             as : {"done", "failed"}, mine : BOOLEAN]

NoDelivery == [pc |-> "idle", on |-> {}, as |-> "done", mine |-> FALSE]

\* reap: the depth did not forbid the orphan pass; blind: it was not known.
Tick == [pc : {"idle", "reap", "count", "seed", "pick", "take", "look", "fetch", "mark"},
         slots : Nat, reap : BOOLEAN, blind : BOOLEAN,
         batch : SUBSET Lot, on : SUBSET Lot, as : Status]

NoTick == [pc |-> "idle", slots |-> 0, reap |-> FALSE, blind |-> FALSE,
           batch |-> {}, on |-> {}, as |-> "none"]

\* before: the lots somebody cared about when the run began.
Purge == [pc : {"idle", "protect", "pointer", "row"}, lots : SUBSET Lot, on : SUBSET Lot,
          before : SUBSET Lot]

NoPurge == [pc |-> "idle", lots |-> {}, on |-> {}, before |-> {}]

JobsTypeOK ==
    /\ lot \in [Lot -> Listing]
    /\ job \in [Lot -> Status]
    /\ late \subseteq {l \in Lot : job[l] = "processing"}
    /\ ready \in [Lot -> Nat]
    /\ hand \in [Slot -> Delivery]
    /\ tick \in Tick
    /\ purge \in Purge
    /\ paused \in BOOLEAN
    /\ down \in SUBSET Service
    /\ extra \in [Lot -> Nat]
    /\ purged \in SUBSET Lot
    /\ jobsLeft \in [fault : Nat, people : Nat, age : Nat]

-----------------------------------------------------------------------------
(* Queries                                                                  *)

With(status) == {l \in Lot : job[l] = status}

Cached(l) == lot[l].cached

\* assertQueue(...).messageCount: what is ready, not what a consumer holds.
Depth == FoldFunction(+, 0, ready)

Least(a, b) == IF a < b THEN a ELSE b

\* MAX_QUEUE_MINUTES of work.
Cap == IF QueueMinutes = 0 THEN LotsPerTick ELSE LotsPerTick * QueueMinutes

\* dispatchBudget: how much room the broker has.
Slots(depth) == IF depth < Cap THEN Least(LotsPerTick, Cap - depth) ELSE 0

\* Mutants: orphans are requeued whatever is waiting, or never.
ReapAlways(depth) == TRUE
ReapNever(depth) == FALSE

\* requeueOrphans goes on only with nothing waiting.
MayReap(depth) == depth = 0

\* n of the elements of S, or all of them.
Some(S, n) == {C \in SUBSET S : Cardinality(C) = Least(Cardinality(S), n)}

\* The lots topUpQueue looks for: recent, without gallery, without a job row.
Backlog == {l \in Lot : /\ lot[l].known /\ ~Cached(l)
                        /\ lot[l].age = "new" /\ ~lot[l].stale
                        /\ job[l] = "none"}

\* eligibleWhere
Eligible == {l \in Lot : lot[l].known /\ Cached(l) /\ lot[l].age = "old"}

\* Mutant: nobody's interest counts.
ProtectedNone == {}

\* protectedLots: favourites, bids, groups, reviews and analyses.
Protected == {l \in Lot : lot[l].wanted}

-----------------------------------------------------------------------------
\* Before the pipeline's first tick: the lots imported so far have no job.
JobsInit ==
    /\ \E S \in SUBSET Lot : lot = [l \in Lot |-> [Unseen EXCEPT !.known = l \in S]]
    /\ job = [l \in Lot |-> "none"]
    /\ late = {}
    /\ ready = [l \in Lot |-> 0]
    /\ hand = [s \in Slot |-> NoDelivery]
    /\ tick = NoTick
    /\ purge = NoPurge
    /\ paused \in BOOLEAN
    /\ down = {}
    /\ extra = [l \in Lot |-> 0]
    /\ purged = {}
    /\ jobsLeft \in [fault : Nat, people : Nat, age : Nat]

\* Mutant: an attempt does not move lastAttemptAt.
SetJobsLate(S, status) ==
    /\ job' = [l \in Lot |-> IF l \in S THEN status ELSE job[l]]
    /\ UNCHANGED late

\* The jobs of S get a status; a job that is not processing is nobody's orphan.
SetJobs(S, status) ==
    /\ job' = [l \in Lot |-> IF l \in S THEN status ELSE job[l]]
    /\ late' = late \ S

Publish(l) == ready' = [ready EXCEPT ![l] = @ + 1]

\* A reason for a second message of each lot of S.
Excuse(S) == extra' = [l \in Lot |-> IF l \in S THEN extra[l] + 1 ELSE extra[l]]

Spend(kind) == jobsLeft[kind] > 0 /\ jobsLeft' = [jobsLeft EXCEPT ![kind] = @ - 1]

-----------------------------------------------------------------------------
(* The crawler                                                              *)

\* tick: never two at once, nothing while paused; the budget comes first. A broker
\* that does not answer leaves the depth unknown (-1): the configured rate, and the
\* orphan pass is not skipped.
TickStart ==
    /\ tick.pc = "idle" /\ ~paused /\ "data-sync" \notin down
    /\ \/ /\ tick' = [NoTick EXCEPT !.pc = "reap", !.slots = Slots(Depth),
                                    !.reap = MayReap(Depth)]
          /\ UNCHANGED jobsLeft
       \/ /\ Spend("fault")
          /\ tick' = [NoTick EXCEPT !.pc = "reap", !.slots = LotsPerTick,
                                    !.reap = TRUE, !.blind = TRUE]
    /\ UNCHANGED <<lot, job, late, ready, hand, purge, paused, down, extra, purged>>

\* requeueOrphans: one UPDATE.
Reap ==
    LET orphans == IF tick.reap THEN {l \in late : job[l] = "processing"} ELSE {}
    IN  /\ tick.pc = "reap"
        /\ SetJobs(orphans, "pending")
        /\ IF tick.blind THEN Excuse(orphans) ELSE UNCHANGED extra
        /\ tick' = [tick EXCEPT !.pc = "count", !.reap = FALSE]
        /\ UNCHANGED <<lot, ready, hand, purge, paused, down, purged, jobsLeft>>

\* topUpQueue: the count of pending jobs ...
CountPending ==
    /\ tick.pc = "count"
    /\ tick' = [tick EXCEPT !.pc = IF Cardinality(With("pending")) < SeedLowWater
                                   THEN "seed" ELSE "pick"]
    /\ UNCHANGED <<lot, job, late, ready, hand, purge, paused, down, extra, purged, jobsLeft>>

\* ... and one INSERT ... SELECT ... ON CONFLICT DO NOTHING.
Seed ==
    /\ tick.pc = "seed"
    /\ \E C \in Some(Backlog, SeedBatch) : SetJobs(C, "pending")
    /\ tick' = [tick EXCEPT !.pc = "pick"]
    /\ UNCHANGED <<lot, ready, hand, purge, paused, down, extra, purged, jobsLeft>>

\* The tick after a lot of its batch is settled.
Onward(batch) ==
    tick' = IF batch = {} THEN NoTick
            ELSE [NoTick EXCEPT !.pc = "take", !.batch = batch, !.blind = tick.blind]

\* dispatch: the pending jobs of this tick, read once.
Pick ==
    /\ tick.pc = "pick"
    /\ \E C \in Some(With("pending"), tick.slots) : Onward(C)
    /\ UNCHANGED <<lot, job, late, ready, hand, purge, paused, down, extra, purged, jobsLeft>>

\* Processing, attempts and lastAttemptAt, whatever the job has become since it was
\* read; a job retention has deleted ends the tick.
Take ==
    /\ tick.pc = "take"
    /\ \E l \in tick.batch :
          IF job[l] = "none"
          THEN tick' = NoTick /\ UNCHANGED <<job, late>>
          ELSE /\ SetJobs({l}, "processing")
               /\ tick' = [tick EXCEPT !.pc = "look", !.on = {l}, !.batch = @ \ {l}]
    /\ UNCHANGED <<lot, ready, hand, purge, paused, down, extra, purged, jobsLeft>>

\* A gallery cached on demand meanwhile closes the job.
Look ==
    /\ tick.pc = "look"
    /\ \E l \in tick.on :
          tick' = IF Cached(l) THEN [tick EXCEPT !.pc = "mark", !.as = "done"]
                               ELSE [tick EXCEPT !.pc = "fetch"]
    /\ UNCHANGED <<lot, job, late, ready, hand, purge, paused, down, extra, purged, jobsLeft>>

\* The list of images through the proxy, then the message: sent as far as this
\* process can tell, refused by the broker, or never built. A sent job is left
\* processing: the consumer finalizes it.
Fetch ==
    /\ tick.pc = "fetch"
    /\ \E l \in tick.on :
          \/ /\ Publish(l) /\ Onward(tick.batch)
             /\ IF tick.blind THEN Excuse({l}) ELSE UNCHANGED extra
             /\ UNCHANGED jobsLeft
          \/ /\ \E as \in {"failed", "skipped"} :
                    tick' = [tick EXCEPT !.pc = "mark", !.as = as]
             /\ UNCHANGED <<ready, extra, jobsLeft>>
          \/ /\ Spend("fault")
             /\ tick' = [tick EXCEPT !.pc = "mark", !.as = "pending"]
             /\ UNCHANGED <<ready, extra>>
    /\ UNCHANGED <<lot, job, late, hand, purge, paused, down, purged>>

\* markDone, markSkipped, markFailed, and pending after a refusal: by lot number,
\* whatever the consumer has written since; again a deleted job ends the tick.
Mark ==
    /\ tick.pc = "mark"
    /\ \E l \in tick.on :
          IF job[l] = "none"
          THEN tick' = NoTick /\ UNCHANGED <<job, late>>
          ELSE SetJobs({l}, tick.as) /\ Onward(tick.batch)
    /\ UNCHANGED <<lot, ready, hand, purge, paused, down, extra, purged, jobsLeft>>

TickStep == \/ Reap \/ CountPending \/ Seed \/ Pick \/ Take \/ Look \/ Fetch \/ Mark

-----------------------------------------------------------------------------
(* The consumer                                                             *)

\* The broker requeues what a consumer held and had not acknowledged.
Requeue ==
    LET held(l) == Cardinality({s \in Slot : hand[s].on = {l} /\ hand[s].mine})
    IN  /\ ready' = [l \in Lot |-> ready[l] + held(l)]
        /\ extra' = [l \in Lot |-> extra[l] + held(l)]

\* image-service dies.
ConsumerDies ==
    /\ down' = down \cup {"image-service"}
    /\ hand' = [s \in Slot |-> NoDelivery]
    /\ Requeue

Deliver(s, l) ==
    /\ hand[s].pc = "idle" /\ ready[l] > 0 /\ "image-service" \notin down
    /\ hand' = [hand EXCEPT ![s] = [NoDelivery EXCEPT !.pc = "check", !.on = {l},
                                                      !.mine = TRUE]]
    /\ ready' = [ready EXCEPT ![l] = @ - 1]
    /\ UNCHANGED <<lot, job, late, tick, purge, paused, down, extra, purged, jobsLeft>>

\* Mutant: a handler that uploaded nothing closes its job as done.
UploadedNothingDone == "done"

\* What finalizeJob writes when every image was blocked.
UploadedNothing == "failed"

\* handleMessage: the idempotency guard. The branch of a message without images is
\* left out: neither publisher sends one.
CheckCached(s) ==
    /\ hand[s].pc = "check"
    /\ \E l \in hand[s].on :
          hand' = [hand EXCEPT ![s].pc = IF Cached(l) THEN "finalize" ELSE "upload"]
    /\ UNCHANGED <<lot, job, late, ready, tick, purge, paused, down, extra, purged, jobsLeft>>

\* Uploads, then the gallery of the listing if anything was uploaded.
Upload(s) ==
    /\ hand[s].pc = "upload"
    /\ \E l \in hand[s].on :
          \/ /\ lot' = [lot EXCEPT ![l].cached = TRUE]
             /\ hand' = [hand EXCEPT ![s].pc = "finalize"]
          \/ /\ hand' = [hand EXCEPT ![s].pc = "finalize", ![s].as = UploadedNothing]
             /\ UNCHANGED lot
    /\ UNCHANGED <<job, late, ready, tick, purge, paused, down, extra, purged, jobsLeft>>

\* finalizeJob: an updateMany by lot, no row no write; its errors are swallowed.
Finalize(s) ==
    /\ hand[s].pc = "finalize"
    /\ \/ /\ SetJobs({l \in hand[s].on : job[l] # "none"}, hand[s].as)
          /\ UNCHANGED jobsLeft
       \/ Spend("fault") /\ UNCHANGED <<job, late>>
    /\ hand' = [hand EXCEPT ![s].pc = "ack"]
    /\ UNCHANGED <<lot, ready, tick, purge, paused, down, extra, purged>>

\* ... and with a delivery of a connection that is gone, ack and then nack throw out
\* of the callback: nobody handles the rejection and the process dies.
Ack(s) ==
    /\ hand[s].pc = "ack"
    /\ IF hand[s].mine
       THEN /\ hand' = [hand EXCEPT ![s] = NoDelivery]
            /\ UNCHANGED <<ready, extra, down>>
       ELSE ConsumerDies
    /\ UNCHANGED <<lot, job, late, tick, purge, paused, purged, jobsLeft>>

HandStep(s) == CheckCached(s) \/ Upload(s) \/ Finalize(s) \/ Ack(s)

\* An error of the handler: nack without requeue, the message is gone.
HandlerError(s) ==
    /\ hand[s].pc \in {"check", "upload"} /\ hand[s].mine /\ Spend("fault")
    /\ hand' = [hand EXCEPT ![s] = NoDelivery]
    /\ UNCHANGED <<lot, job, late, ready, tick, purge, paused, down, extra, purged>>

-----------------------------------------------------------------------------
(* Retention                                                                *)

\* eligibleLots: the candidates ...
PurgeRead ==
    /\ purge.pc = "idle" /\ Eligible # {} /\ "data-sync" \notin down
    /\ purge' = [NoPurge EXCEPT !.pc = "protect", !.lots = Eligible,
                                   !.before = {l \in Lot : lot[l].wanted}]
    /\ UNCHANGED <<lot, job, late, ready, hand, tick, paused, down, extra, purged, jobsLeft>>

PurgeOn(lots) ==
    purge' = IF lots = {} THEN NoPurge
             ELSE [purge EXCEPT !.pc = "pointer", !.lots = lots, !.on = {}]

\* ... less the lots somebody cared about, all six tables read at once.
PurgeProtect ==
    /\ purge.pc = "protect"
    /\ PurgeOn(purge.lots \ Protected)
    /\ UNCHANGED <<lot, job, late, ready, hand, tick, paused, down, extra, purged, jobsLeft>>

\* The objects in S3, then galleryCache := NULL. A lot that fails is skipped.
PurgePointer ==
    /\ purge.pc = "pointer"
    /\ \E l \in purge.lots :
          \/ /\ lot' = [lot EXCEPT ![l].cached = FALSE]
             /\ purged' = purged \cup {l}
             /\ purge' = [purge EXCEPT !.pc = "row", !.on = {l}, !.lots = @ \ {l}]
             /\ UNCHANGED jobsLeft
          \/ /\ Spend("fault")
             /\ PurgeOn(purge.lots \ {l})
             /\ UNCHANGED <<lot, purged>>
    /\ UNCHANGED <<job, late, ready, hand, tick, paused, down, extra>>

\* The job row, errors ignored.
PurgeRow ==
    /\ purge.pc = "row"
    /\ \/ SetJobs(purge.on, "none") /\ UNCHANGED jobsLeft
       \/ Spend("fault") /\ UNCHANGED <<job, late>>
    /\ PurgeOn(purge.lots)
    /\ UNCHANGED <<lot, ready, hand, tick, paused, down, extra, purged>>

PurgeStep == PurgeProtect \/ PurgePointer \/ PurgeRow

-----------------------------------------------------------------------------
(* Staff and readers                                                        *)

\* POST retry of one lot, whatever its status.
RetryJob(l) ==
    /\ job[l] # "none" /\ Spend("people")
    /\ SetJobs({l}, "pending")
    /\ Excuse({l})
    /\ UNCHANGED <<lot, ready, hand, tick, purge, paused, down, purged>>

\* retryFailed of the chosen lots, or of all.
RetryFailed ==
    /\ With("failed") # {} /\ Spend("people")
    /\ \E S \in SUBSET With("failed") \ {{}} : SetJobs(S, "pending") /\ Excuse(S)
    /\ UNCHANGED <<lot, ready, hand, tick, purge, paused, down, purged>>

TogglePause ==
    /\ Spend("people")
    /\ paused' = ~paused
    /\ UNCHANGED <<lot, job, late, ready, hand, tick, purge, down, extra, purged>>

\* getCopartGallery, a cache miss: a message without a job. The miss may be stale.
OnDemand(l) ==
    /\ lot[l].known /\ Spend("people")
    /\ Publish(l) /\ Excuse({l})
    /\ UNCHANGED <<lot, job, late, hand, tick, purge, paused, down, purged>>

\* A favourite, a bid, a group, a review or an analysis.
Want(l) ==
    /\ lot[l].known /\ ~lot[l].wanted /\ Spend("people")
    /\ lot' = [lot EXCEPT ![l].wanted = TRUE]
    /\ UNCHANGED <<job, late, ready, hand, tick, purge, paused, down, extra, purged>>

PeopleStep ==
    \/ RetryFailed \/ TogglePause
    \/ \E l \in Lot : RetryJob(l) \/ OnDemand(l) \/ Want(l)

-----------------------------------------------------------------------------
(* The passing of time, and what goes wrong                                 *)

\* Nobody is working on the job any more.
Abandoned(l) == ready[l] = 0 /\ l \notin tick.on /\ \A s \in Slot : l \notin hand[s].on

\* Fifteen minutes since the last attempt: certain for an abandoned job, a slow fetch,
\* queue or upload for another.
JobAges(l) ==
    /\ job[l] = "processing" /\ l \notin late
    /\ IF Abandoned(l) THEN UNCHANGED jobsLeft ELSE Spend("fault")
    /\ late' = late \cup {l}
    /\ UNCHANGED <<lot, job, ready, hand, tick, purge, paused, down, extra, purged>>

\* Two days since the lot arrived, or its sale past the retention cutoff.
LotAges(l) ==
    /\ lot[l].known /\ lot[l].age # "old" /\ Spend("age")
    /\ \E age \in {"kept", "old"} \ {lot[l].age} : lot' = [lot EXCEPT ![l].age = age]
    /\ UNCHANGED <<job, late, ready, hand, tick, purge, paused, down, extra, purged>>

\* data-sync dies, and with it the tick and the retention run.
CrawlerDies ==
    /\ down' = down \cup {"data-sync"}
    /\ tick' = NoTick /\ purge' = NoPurge
    /\ UNCHANGED <<lot, job, late, ready, hand, paused, extra, purged>>

CrawlerCrash == "data-sync" \notin down /\ Spend("fault") /\ CrawlerDies

ConsumerCrash ==
    /\ "image-service" \notin down /\ Spend("fault")
    /\ ConsumerDies
    /\ UNCHANGED <<lot, job, late, tick, purge, paused, purged>>

\* The API's process ends, or a deploy: the container starts all of them again.
ContainerRestarts ==
    /\ down # {}
    /\ down' = {}
    /\ tick' = NoTick /\ purge' = NoPurge
    /\ Requeue /\ hand' = [s \in Slot |-> NoDelivery]
    /\ UNCHANGED <<lot, job, late, paused, purged, jobsLeft>>

\* The broker's connection drops under the handlers, which go on: what they hold is
\* requeued, and the consumer registered again.
Disconnect ==
    /\ \E s \in Slot : hand[s].mine
    /\ Spend("fault")
    /\ Requeue
    /\ hand' = [s \in Slot |-> [hand[s] EXCEPT !.mine = FALSE]]
    /\ UNCHANGED <<lot, job, late, tick, purge, paused, down, purged>>

\* publish answers true once the message is buffered: it may still be lost.
Lose(l) ==
    /\ ready[l] > 0 /\ Spend("fault")
    /\ ready' = [ready EXCEPT ![l] = @ - 1]
    /\ UNCHANGED <<lot, job, late, hand, tick, purge, paused, down, extra, purged>>

FaultStep ==
    \/ ConsumerCrash \/ Disconnect
    \/ \E s \in Slot : HandlerError(s)
    \/ \E l \in Lot : Lose(l)

JobsStep ==
    \/ TickStart \/ TickStep
    \/ \E s \in Slot, l \in Lot : Deliver(s, l)
    \/ \E s \in Slot : HandStep(s)
    \/ PurgeRead \/ PurgeStep
    \/ PeopleStep
    \/ \E l \in Lot : JobAges(l) \/ LotAges(l)
    \/ FaultStep

JobsNext == JobsStep \/ CrawlerCrash \/ ContainerRestarts

\* The tick fires every minute and runs to its end, the consumer takes what is ready
\* and works on it, and the clock finds abandoned jobs late. Nothing is assumed of
\* staff and faults.
JobsFairness ==
    /\ WF_jobsVars(TickStart) /\ WF_jobsVars(TickStep)
    /\ \A l \in Lot : WF_jobsVars(\E s \in Slot : Deliver(s, l))
    /\ \A s \in Slot : WF_jobsVars(HandStep(s))
    /\ \A l \in Lot : WF_jobsVars(JobAges(l))

-----------------------------------------------------------------------------
(* What the pipeline promises                                               *)

\* A job is done only once its gallery is there; it stays so until retention drops
\* the gallery, whatever crawler, consumer, duplicates and staff do in between.
DoneIsCached == \A l \in Lot : job[l] = "done" => Cached(l) \/ l \in purged

\* Flow control: at most one message of a lot waits, but for those that a redelivery,
\* a retry of staff, a reader, a tick that could not see the queue or an import that
\* enqueued a lot after retention had dropped it accounts for (the storm of duplicates
\* the crawler's comments describe).
NoDuplicateStorm == \A l \in Lot : ready[l] <= 1 + extra[l]

\* A recent lot without gallery, or a job that has to be done.
Unsettled(l) == l \in Backlog \/ job[l] \in {"pending", "processing"}

\* A recent lot gets a job even if the import died before it enqueued it, and its job
\* ends done, failed or skipped, unless the crawler is paused or a service left dead:
\* messages are lost, handlers die and orphans are found again.
JobsSettle ==
    \A l \in Lot : Unsettled(l) ~> (~Unsettled(l) \/ paused \/ down # {})

\* A gallery somebody cared about before a retention run began is never dropped.
WantedIsKept ==
    [][\A l \in Lot : Cached(l) /\ ~Cached(l)' => l \notin purge.before]_jobsVars
=============================================================================
