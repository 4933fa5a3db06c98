# Verification of htownautos

TLA+ models of the parts of the repository whose correctness depends on the order in
which things happen, the TLC runs that check them, and machine-checked proofs about them.
Paths are relative to the repository; `service.ts:68` style references name its lines.

## 1. Inventory

The program is a NestJS monorepo: `apps/api` (HTTP and websocket API, cron jobs),
`apps/data-sync` (imports and crawlers), `apps/image-service` (image consumer),
`apps/auction-monitor` (headless monitor, paused), `apps/ai-services`; the libraries
`libs/{auth,common,prisma,rabbitmq,redis,opensearch,auction-matching}`. State lives in
PostgreSQL through Prisma; RabbitMQ, Redis, OpenSearch, S3, Stripe and Twilio are external.
Hardly any handler opens a transaction: a handler is a sequence of awaited statements, and
everything else the process serves runs in between. That is the main source of the
behaviours modelled here.

| Component | State | Operations | Talks to | Hard behaviour | What makes it correct | Modelled |
|---|---|---|---|---|---|---|
| Scraper workers (`apps/api/src/scraper-workers`) | `scraper_workers`; `scraperWorkerId` of calendar rows | poll (register, claim, long poll), releaseFinished, sweepDeadWorkers, update, trim, release, remove | calendar, agent assignment | claims race; the row read at the start of a poll is stale; rows replaced under held ids | one VM per sale, no more sales than tabs, idempotent poll, nothing stays with the dead | `ScraperWorkers` |
| Auction calendar (`apps/api/src/auction-calendar`) | `auction_calendar_entries`, `fetching` | fetchAndStore, button, hourly check | proxy, AutoBidMaster | read, then full replacement | monitor toggle, agent and VM survive | part of `ScraperWorkers` |
| Agent assignment (`libs/common/src/auction`) | `scraperAgentId`, one `running` flag per instance | dailyAssign, releaseStale, assignPending, deal, reassignFrom | calendar, scraper agents | several instances, each with its cron; a pass deals what it read before | level deals, only free sales, none waiting for ever | `AgentDeal` |
| Scraper agents (`apps/api/src/scraper-agents`) | `scraper_agents` | create, update, bulkSetActive, remove, bulkRemove, reassignEntry | agent assignment | sales handed over one agent after another, deleted at the end | a deletion leaves no work behind | `AgentDeal` |
| Portal orders (`apps/api/src/portal`) | `portal_orders`, ledger, inspections, preferences | three checkouts, confirmOrderBySession, fulfillPortalOrder | Stripe, inspections | webhook and success page at once; retries; crash after PAID | nothing unpaid, nothing twice, paid ends fulfilled | `PortalOrders` |
| Deposit releases (`apps/api/src/stripe`, `portal`) | `deposit_release_requests`, ledger | ask, approve, reject, staff refund | Stripe, orders | two clerks; crash between debit and mark | approved means debited, refunds within debits | `DepositReleases` |
| Stripe webhook (`stripe-webhook.controller.ts`) | none | handleWebhook | portal orders | at-least-once delivery | 200 only after the work | in `PortalOrders`, in part |
| Image cache pipeline (`apps/data-sync`, `apps/image-service`) | `image_cache_jobs`, `galleryCache`, `gallery.cache` queue | tick, requeueOrphans, topUpQueue, dispatch, handleMessage, finalizeJob, retention, retries of staff | RabbitMQ, S3 | lost and repeated messages, dead consumer, rows deleted under a tick | jobs settle, done means cached, no storm of duplicates | `ImageCacheJobs` |
| Copart import (`apps/data-sync`) | `sync_runs`, advisory lock, `copart_staging`, listings | runSync, enqueueNewLots, markStaleListings, onModuleInit | OpenSearch, image pipeline | skipped, failed and dead runs; a lost session | a run upserts its own feed, the lock comes back | `CopartSync` |
| Sync trigger listener, OpenSearch index | trigger queue, `auction_listings` index | handle, recreateIndex, bulkIndex, createIndex | RabbitMQ, import | the index dropped under a run; ack on a dead connection | search finds every lot again | `CopartSync` |
| Sync watchdog (`apps/api`) | the last alert | checkCopartSyncStaleness | import | a run that says running for ever | staff hears of it | `CopartSync` |
| Auction monitor (`apps/auction-monitor`, `apps/api/src/auction-monitor`) | `auction_monitor_sessions`, runners, pages | tick, onModuleInit, start and stop of pages, staff | sink, calendar | rows, runners and pages disagree; a tick fails half way | every page is watched, coverage comes back, stops are honoured | `MonitorSessions` |
| Sale event sink and results ingest | queue, key window; `auction_sale_results` | enqueue, drain, post, remember; ingest | monitor | retries in front of newer events, a request that outlives its timeout | the last event wins, the window remembers | `SaleSink` |
| Vehicle inspections | rows | CRUD, status | portal | read then unconditional write | cancelled stays cancelled | no |
| Telephony: the inbound ring (`apps/api/src/phone-call`, `twilio`, `call-flow`) | `phone_calls.metaValue`, `answeredAt`; calls and conference at Twilio | conference target, dialing, agent joined, caller left, agent unanswered, redirect, dial status | Twilio | webhooks in any order, several at once, over one JSON column that each reads and writes back whole | nobody waits alone, no phone rings for a caller who has gone, a ring is given up only when it is over | `CallRing` |
| SMS, presence, email, CRUD modules, AI services | rows, Redis | handlers | external services | best effort, one statement at a time | no relation between states to get wrong | no |

`PROJECT.json` lists the same components with their sources, and every hazard at its line.

## 2. Modules

| Module | What it is |
|---|---|
| `ScraperWorkers` | the deal of the day's sales: polls, crons, staff, calendar refresh |
| `MCScraperWorkers` | its TLC instances |
| `ScraperWorkers_proofs` | its theorems |
| `PortalOrders` | checkout, payment, delivery, confirmation, fulfilment |
| `MCPortalOrders`, `PortalOrders_proofs` | its instances and theorems |
| `DepositReleases` | extends `PortalOrders` with the ledger balance, release requests, decisions and refunds |
| `MCDepositReleases`, `DepositReleases_proofs` | its instances and theorems |
| `SaleDeal`, `SaleDeal_proofs` | what dealing sales to machines promises, without its awaits; `ScraperWorkers` implements it |
| `ImageCacheJobs` | crawler, `gallery.cache` queue, consumer, retention, staff and readers |
| `CopartSync` | extends `ImageCacheJobs` with the import, the triggers, the index and the watchdog |
| `MCDataSync` | instances of the two together |
| `Filters` | `filter` of arrays, as a recursive function the provers can reason about |
| `SaleClock` | the sales of a day and where each is in its day |
| `AgentDeal` | the agents, the deal of the night, removals; extends `SaleClock` |
| `SaleSink` | the sink of sale events and the ingest |
| `MonitorSessions` | the monitor's scheduler, pages and staff; extends `SaleClock` and `SaleSink` |
| `AuctionDay`, `MCAuctionDay` | `AgentDeal` and `MonitorSessions` over the same sales, and its instances |
| `MonitorSessions_proofs` | theorems about the monitor and its sink, alone (`MonitorSpec`) |
| `AuctionDay_proofs` | theorems about the agents' deal, and about the day with the monitor (`DaySpec`) |
| `CopartSync_proofs` | theorems about import and image pipeline together (`SyncSpec`) |
| `CallRing`, `MCCallRing`, `CallRing_proofs` | the webhooks of an inbound call that rings, its instances and theorems |

### ScraperWorkers

A sale is named by its key (locationSourceId, startedAt), which survives a refresh; a row's
id does not, so an id is a pair of a sale and the generation `gen` of the calendar. `entry`
holds, per sale, whether the row exists, whether it can be worked (items, not ended), its
agent and its VM; `row` is `scraper_workers`. `req`, `refresh`, `sweep` and `staff` are the
local variables of the requests in flight: between two awaits a request keeps what it has
read. `told` is the last answer each VM received (the tabs it has open) and `reopened` the
sales whose claim was lifted at least once; both exist for the properties only.

The poll is `PollArrive` (Houston day, `resolveWorker`), `PollRegister` (upsert, unique
index, disabled answer), `ClaimRead`, `ClaimOwn`, `ClaimRest`, `ClaimStamp`, `ClaimReread`;
`Finish` is the end of `claim()`, with the long poll. `updateMany` is one step, since one SQL
statement is atomic in PostgreSQL. A request fails, and disappears, where the code would
throw: unique index, foreign key, a worker row that is gone. Staff operations are one at a
time. `orderBy startedAt, take n` (`Earliest`) leaves ties open. The foreign keys of the schema
appear as `Known` (a claim of a missing worker cannot be written) and in `DeleteRow` (deleting
a worker nulls its claims).

Left out: the monitor toggle, the account handed to the VM, labels and notes, `lastIp`; the
settings row is a constant of a run; scraper accounts are neither created nor deleted, so
the foreign key on the agent never fails. `AssignAgent` reads and writes one row in a step,
where `assignPending` writes a batch it has read before; the plan only orders candidates.

### PortalOrders

One buyer. An order is created PENDING, gets a Stripe session, then the session's id
(`CheckoutCreate`, `CheckoutSession`, `CheckoutLink`, the same for deposits, carts and
find-a-car). `Pay` is Stripe's: the event is `due` until a delivery answers 200, and any paid
session may be delivered again. A call of `fulfillPortalOrder` occupies a `Handler`: read and
guard (`FulfillRead`), PAID (`MarkPaid`, by id, whatever the status is by then), the rows
one by one (`MakeThing`; a cart may skip one, `SkipThing`), FULFILLED (`MarkFulfilled`).
`created[o][h][t]` counts the rows by the call slot that made them. `Fail` and `Restart` drop
calls at any await; `died` records the orders left between PAID and FULFILLED.

Left out: amounts and pricing, notifications, the legacy order without items or VIN, and the
unpaid outcomes of Stripe other than "not paid yet". CANCELED and REFUNDED exist in the schema
and no code writes them.

### DepositReleases

EXTENDS `PortalOrders`: its ledger is fed by the deposits that `PortalOrders` creates, and
its refunds go against those payments. The balance is a sum over the entries (`Balance`), as
in `getLedger`. `AskRead`, `AskLookup`, `AskCreate` are the three awaits of
`createDepositReleaseRequest`; `Debit`, `Refund`, `MarkApproved` those of
`approveDepositRelease`. Stripe refuses to refund more than is left of a payment, and may fail;
the approval goes on in both cases. `RefundPayment` is the staff refund, which the ledger does
not see. `cancelRefund` is left out.

### SaleDeal

The abstract deal has four variables: who holds each sale (`holder`), what each machine was last
told to open (`open`), the sales that have changed hands (`lifted`) and which calendar is in force. A
step gives free sales to one machine, takes sales back, answers a machine, or replaces the calendar;
there are no requests, reads or crons. `ScraperWorkers!Deal` maps them to `entry[s].worker`, `told`,
`reopened` and `gen`, and `ImplementsDeal == Deal!DealSpec` is checked in `sw_safety` and proved. What
the refinement says of the code: between the many reads and writes of a poll nothing else happens to a
sale than a gift of a free sale, a release that leaves a trace, and answers for sales held or
released meanwhile.

### ImageCacheJobs

`job` is the status column of `image_cache_jobs` (`none`: no row), `late` the processing jobs past
the orphan cutoff, `ready` the messages of each lot in the queue, `hand` the deliveries a consumer
works on. The crawler's tick is `TickStart` (depth), `Reap`, `CountPending`, `Seed`, `Pick`, then per
lot `Take`, `Look`, `Fetch`, `Mark`; the consumer is `Deliver`, `CheckCached`, `Upload`, `Finalize`,
`Ack`; retention is `PurgeRead`, `PurgeProtect`, `PurgePointer`, `PurgeRow`. `Mark` writes by lot
number, whatever the consumer has written since, as the code does. Staff retry one job or the failed
ones and pause; a reader of a listing publishes a message without a job.

Faults: a broker that does not answer (depth unknown), a message lost after `publish` answered true,
a handler that throws (nack without requeue), a statement that fails, a dropped connection, a
crash. After a dropped connection the broker gives the message to somebody else while the handler goes on;
its `ack` then throws, so does the `nack` in the catch, nobody handles the rejection and the process ends
(`libs/rabbitmq/src/rabbitmq.service.ts:199`). `scripts/start-prod.sh:22-31` starts the services
in the background and waits for the API alone: a dead service stays dead until the
container restarts, hence `down` and the disjunct `down # {}` of the liveness properties. `extra` and
`purged` are history variables for the properties.

Left out: priorities (a batch is any set of the right size), attempts, single images, statistics.
`setPrefetch`, the batch of retention and the hours between its runs are constants.

### CopartSync

A `Runner` is a call of `runSync` or of the trigger handler, from the half-hourly cron or from the
consumer: `TryLock`, `Download`, `Empty`, `Stage` (a batch at a time), `Map`, `Ask` and `Enqueue`
(`enqueueNewLots`), `Sweep` (stale marking), `Wipe`, `IndexPage`, `Finish`, `Fail`, `Unlock`. `lock`
is a set, since a run whose session Postgres has ended goes on without it (`LockLost`) while another
takes it. Triggers (`Publishes`, `Receive`) import, reindex or recreate the index first
(`DropIndex`, `CreateIndex`); a bulk write to a missing index creates it with a guessed mapping. The
cron is `'9,39 5-22 * * *'`: at `night` nothing imports. `SyncDies` and `SyncBoots` are death and
`onModuleInit`; image pipeline and import live and die together. One container is modelled: a second
one would fail the first one's running row in its own `onModuleInit`.

The watchdog takes no account of the cron's hours, so it alerts in nights in which nothing is
wrong (`sync-watchdog.service.ts:66`); `StaleAlerted` is about the other direction.

### AgentDeal

`agent` are the accounts, `holder` the agent of each sale. A `Desk` is an instance of
`AgentAssignmentService`: every Nest module that provides it (calendar and scraper-agents in the
API, data-sync) has its own, with its own cron and its own `running` flag, and is `off` while its process is down. A pass is `Assign`
(releaseStale, flag, active agents), `ReadPending`, `PassDeals`, `PassGives` (one guarded
`updateMany` per agent). `Deals` is the deal as a relation: every outcome of dealing the shuffled sales one
by one to the first of the shuffled agents with the least. A `Call` is a removal: `SetInactive`,
`ReadSales`, `Transfer`, `ReadOthers`, `RemovalDeals`, `RemovalGives`, `DeleteAgents`. An update for
an agent deleted meanwhile fails its foreign key and ends the call. `watch`, `back` and `given` record, for
`AgentsWorkIsKept`, which sales a removal cannot have known of.

releaseStale and the read of the agents are one step (neither writes what the other reads). Idle calls
are interchangeable, so a removal takes the first. The cap of 5000 sales of one pass is left
out. Deactivation (`Switch`) keeps the agent's sales, although the comment at
`agent-assignment.service.ts:187-189` names deactivation as a use of `reassignFrom`.

### SaleSink

`Enqueue` is enqueue with `remember`, `Drain` the loop of `drain` up to its next await, `Posted`,
`Fails` and `Retry` the outcomes of `post`. `request` is what the API has still to store: items are
upserted one by one (`ApiStores`), and go on being stored after the client's timeout
(`overdue`, `ApiStoresLate`). `SinkDies` empties the memory and leaves the API at work. A lot has one sale
day, so `dedupeKey` is `KeyOf`; the mirror webhook is left out, and so is the vehicle snapshot.

### MonitorSessions

`row` is `auction_monitor_sessions`, `page` the browser's page of each row's runner, `runners` the map
of the scheduler, `work` the tick in flight: `TickBegins` (configuration, counters), `Reconcile`,
`ReadRows`, `StopTurn` and `StopEnds` per page, `ReadDue`, `CreateDue`, `TakePending`, `Login`,
`StartSession`, `OpenEnds`. `TickThrows` is the exception of any of their queries, wherever the tick is. The
reads of `reconcile` that nobody else can disturb are merged; a graceful shutdown ends in the rows that
death and `MonitorBoots` produce. The worker is assumed to be started again by its platform (nothing in
the repository says otherwise). Staff stop (`AskStop`, `WriteStop`), start (`AskStart`,
`WriteStart`), toggle and pause; a start that crosses `enqueueDueEntries` can create two
sessions of a sale, and a start of an unmonitored sale is closed at the next tick: both are in the model.
`Page` bounds the rows. How long a page has been silent is left open (`Reasons`).

### CallRing

One inbound call. `caller` is the caller's call: it asks the API for instructions (`n` counts the
requests), waits in the conference of a ring, hears the message that ends the flow, or is over. `leg` are
the calls to agents, each with the ring and the request (`n`) of the caller it was placed for, `hosted` whether the conference was opened by the caller and so reports its
events, `hooks` the webhooks Twilio has still to deliver, in any order. All of this is Twilio, modelled
from how the code uses it, with the steps `CallerHangsUp`, `AgentAnswers`, `AgentFails`, `AgentHangsUp`;
everybody joins with `endConferenceOnExit`, so one leaving ends the conference (`Emptied`, `Reports`).
A ringing call that the API completes may be reported as not answered (`over`) or not (`dropped`).

What the API knows is `meta`, the three fields of `phone_calls.metaValue` that matter (the conference
target, the calls to agents on record, the failed flag), and `answered`. A `Handler` serves a webhook;
every await is a step: `TargetRead`/`TargetWrite` (storeConferenceTarget), `DialRead`, `Dial`,
`StoreRead`/`StoreWrite` (dialAgentIntoConference and storeAgentCallSid, one agent after another),
`JoinRead` to `JoinWrite` (handleAgentJoinedConference), `PurgeRead` to `PurgeWrite`
(terminatePendingAgentCalls), `HangCaller`, `RemoveRead` to `ClearWrite` (handleAgentCallStatus:
removal, check, flag, redirect, clearing of the flag), `DialEnded` (the action of the `<Dial>`). `Writes`
writes back what was read but for one field, and marks what the other webhooks hold as `old`.

Whatever a webhook asks of Twilio or of the database may fail, and most of the code logs it and goes on as if it
had worked. Each failure is an action beside the step that succeeds:

| Action | What fails | How the code goes on | Noted in |
|---|---|---|---|
| `TargetFails` | storeConferenceTarget | the caller enters the conference; the target on record is the earlier ring's, or none | |
| `AskFails` | elsewhere in a request of the caller's call | an apology, and the call ends | |
| `DialFails` | the call to an agent | the next agent is tried | |
| `StoreFails` | storeAgentCallSid, with the call placed | the next agent is tried; the call is not on record | `loose` |
| `JoinHangFails`, `PurgeHangFails` | hangupCall of an agent's call | the next call; at the end the SIDs are struck off the record all the same | `loose` |
| `HangCallerFails` | hangupCall of the caller's call | nothing more is done | `kept` |
| `RedirectFails` | updateCallTwiml; or the call flow is gone, or its step is of another type by now | the failed flag is cleared all the same (`ClearRead`, `ClearWrite`) | `stuck`, with the request of the caller |
| `IsCut` | any other statement, or the process | the catch of the controller; Twilio does not repeat the webhook | `cut` |

A request that took effect and whose answer was lost is no case of its own: a call placed so and not known is that of
`StoreFails`, and of a hang-up or a redirection the code looks at nothing but the effect.

The code loses calls where webhooks cross or a request fails, and the properties name exactly where. Where webhooks
cross: `crossed` (a write of
`metaValue` undid another), `unread` (the flag was cleared under a webhook about to read it), `early` (a call
ended before it was on record), `stray` (an agent answered while the caller was between two conferences: the
agent opens it, so its end is reported to nobody and the SID stays on record), `late` (a call was put on record
when no conference of the caller was open), a ring whose agents are still being called, and calls the API hung
up itself, for an event of an earlier ring, that Twilio reports as completed (`dropped`). Where something fails:
`loose`, `stuck`, `kept` and `cut`. Each is exempt only where it does the harm, and not for the rest of the call where
that can be helped:

- `NobodyWaitsAlone` does not speak of a conference out of which a redirection has failed (`caller.n \in stuck`): the flag is
  cleared, so nobody will try again. It speaks of the conferences after it. It is not exempt for calls that could not be
  placed, put on record or hung up (`loose`), nor for a target that could not be stored: the caller is still
  moved on. It exempts `crossed`, `unread`, `early`, `stray`, `dropped`, `kept` and `cut`.
- `NobodyRingsForTheGone` leaves out the calls in `late` and `loose`, call by call, and exempts `crossed` and `cut`.
- `MovesOnWhenAllFailed` leaves out the calls in `loose`, and exempts `crossed` and the ring still being called;
  `cut` is no excuse.

Every one of these exemptions is needed: without it (and with all the others) TLC finds the property violated, for two
agents at once followed by another ring or for two single rings, with at most 3 calls, 3 requests of the caller and one
failure. With webhooks served one at a time (one `Handler`, two agents at once and another ring, 3 calls, 3 requests)
`NobodyWaitsAlone` needs of the exemptions about crossing webhooks only `dropped`, and `MovesOnWhenAllFailed` none,
without failures and with one.

Left out: transfers (segments above 0), nested and menu flows, outbound calls, the final status
callback, recordings and transcription, the user a call is associated with, and a call flow edited under a call other than
as in `RedirectFails`.

## 3. Runs

Every bound is a constant of the module: `MaxTime`, `MaxRefresh`, `MaxStaff`, `MaxRestarts`,
`MaxFailures`, `PollRounds`, and the sizes of the sets.

| Run | States | Shows |
|---|---|---|
| `sw_safety` | 690 k | two interchangeable VMs, a sale that is opened and closed, two requests that may be of the same VM, staff operations split at their awaits, a refresh: `ExclusiveAnswers`, `HoldersRegistered`, `InProgressKept`, and `ImplementsDeal` (the refinement of `SaleDeal`) |
| `sw_serial` | 1.1 M | one poll at a time per VM, long poll, the morning's plan, a restart: `TypeOK`, `QuotaRespected`, `PollIsIdempotent` |
| `sw_live` | 110 k | `SilentVmFreed`, `ClosedSaleFreed`, `FreeSaleClaimed` under fairness |
| `sw_refresh_race` | violation | a claim made during a refresh is lost |
| `sw_disable_race` | violation | a VM being disabled ends with a claim |
| `pp_orders` | 357 k | `NothingUnpaid`, `EachCallOnce`, `FulfilledIsCredited`, and `PaidIsFulfilled` under fairness |
| `pp_double_credit` | violation | one payment credited twice |
| `pp_releases` | 740 k | `ReleaseTypeOK`, `ApprovedIsDebited`, `RefundsAreDebited` |
| `pp_reject_race` | violation | a rejected request with its debit in the ledger |
| `data_sync` | 126 k | import, triggers, index, watchdog, crawler, consumer and retention: `PipelineTypeOK`, `DoneIsCached`, `NoDuplicateStorm`, `MapsOwnFeed`, `WantedIsKept`, and under fairness `JobsSettle`, `LockReturns`, `IndexRefilled`, `StaleAlerted` |
| `auction_day` | 120 k | agents and monitor over one day: `DayTypeOK`, `DealIsLevel`, `AgentsWorkIsKept`, `WindowRemembers`, `LatestWins`, `OpenPageIsWatched`, and under fairness `UnassignedIsDealt`, `EventsSettle`, `StopIsHonoured`, `CoverageResumes` |
| `call_ring` | 4.9 M | a caller, agents called at once or in turn, two webhooks served at a time, one failure anywhere: `CallTypeOK`, `NobodyWaitsAlone`, `NobodyRingsForTheGone`, `MovesOnWhenAllFailed` |

Why the bounds are enough. A claim conflict needs two VMs, one sale to fight for and one to
tell earliest from latest; stale ids need one refresh; every race of the code is between two
requests, so two requests (one, where staff or the refresh is the other actor) meet it. Times run
from before a sale opens (`s2`) to after one closes (`s1`); `sw_live` uses a
day of three units and `MCMidnight`: its VM can claim at 0, be dead at 1, with the sale still
to open at 2 and closed at 3, after midnight (a `Duration` of 0 keeps the state graph small). A double fulfilment needs two calls and one order;
a cart needs two lots to be half done; one failure is enough for each retry, since nothing is
remembered of the failures before. `pp_releases` has two deposits of amounts 1 and 2 so that the
last one may be the smaller or the larger.

`QuotaRespected` and `PollIsIdempotent` are checked for VMs that wait for an answer before
they poll again (`OverlappingPolls = FALSE`), as Automa's loop does, without staff: two
overlapping polls of one VM do exceed the quota, and staff take sales away on purpose
(section 5 has the theorems and what they assume).

`data_sync` and `auction_day` start from a choice of plans (`Plans` in their MC modules). A plan says how many
moves of each kind the environment may make: faults, acts of people, the passing of hours or of the day,
and where it begins (crawler paused, night, messages waiting, accounts, sales that are on). Several
small budgets side by side meet each pair of hazards that a single large budget would, at a
fraction of the states. In `data_sync` one import and one handler overlap, which is all the lock and the
shared staging table need; two lots make a feed differ from what an earlier run left; two deliveries
in hand make duplicates; one fault at every await of the pipeline, and two of the
import, so that the update that records a failure can fail as well. In `auction_day` two sales and three agents give
a deal a tie and a choice, two removals may name the same agents or each other's targets, a window of
one key forgets at the second event, batches of two have a next batch behind them, and six rows are
more than any plan can create. One
plan has two `Desk`s at work, whose passes deal the same free sales; in the others the second is off.

`call_ring` takes two call flows (two agents at once, and the same two as attempts of a round robin) and
two webhooks served at once, which is what two writes of one column need in order to cross.
`MaxLegs` 2 lets both agents of a ring be called, or one of each of two rings; `MaxAsks` 3 lets the caller be moved on, and
asked again when a conference ends. One failure of whatever kind, at whatever await (`MaxFaults` 1), is enough for each of the actions
above, since no handler remembers that something failed. Larger instances are checked by hand, not in the runs: two rings, the second an
attempt of a round robin (2 calls, 3 requests, a failure: 10.3 M states, the three properties), and a simulcall followed by another ring with 3
calls, 3 requests and a failure, with states in which an exemption of `NobodyWaitsAlone` applies or the caller has gone left
unexplored (17.1 M states). Instances with a second round of a ring showed an earlier wording of the
property to be false: it spoke of calls of the same ring, which a second
round of that ring satisfies before it has called anybody.

Deadlock is checked in the `sw_` runs (a VM can always poll). The `pp_orders` and
`pp_releases` runs do not check it: with finitely many orders the buyer has nothing left to do.
`data_sync` does not check it either: at night, with the crawler paused and nothing to import, the system
rests. Nor does `call_ring`: a call ends.
`auction_day` does.

### Fairness

`ScraperWorkers!FairSpec`: a request or a staff operation in flight takes its next step (Node
runs every continuation), the crons keep firing (`@Cron`), and the VMs in `Reliable`
keep polling by slug (the interval trigger of the workflow). Weak fairness is enough. Nothing
is assumed of the clock, of the other VMs, of the feed or of staff. `PortalOrders!FairSpec`: a
call takes its next step, and Stripe goes on delivering an event that was not acknowledged;
strongly, since the model has a last free `Handler` and the API has not. Nobody has to pay.

`JobsFairness`: the tick fires every minute and runs to its end, the consumer takes what is ready, and the
clock finds abandoned jobs late. `SyncFairness`: the cron fires by day, a run takes its next
step (every await ends: the download has a timeout), the queue is consumed, the watchdog wakes up. That a
dead data-sync or image-service comes back is not assumed. `DealFairness`: the crons run, a pass goes on;
removals are not assumed to end. `MonitorFairness`: the 30-second cron, the awaits of a tick, the second
statement of a staff request, and a worker that is started again. `SinkFairness`, which it contains: a
post is answered or times out, and the timer of a retry fires. All of it is weak fairness;
nothing is assumed of faults, staff, frames or the clock of the sales, and budgets only end the faults.

## 4. What the code does against its own words

- **A refresh loses claims** (`sw_refresh_race`). `fetchAndStore` reads the claims, builds the
  rows, and replaces the table; a poll that stamps a sale in between is overwritten.
- **Disabling a VM is not immediate** (`sw_disable_race`). A poll reads `enabled` once and may
  claim up to twenty seconds later.
- **fulfillPortalOrder is not idempotent** (`pp_double_credit`). Its guard reads, and the
  write of PAID does not compare.
- **A rejection can land on an approved request** (`pp_reject_race`).

## 5. Proofs

For every value of the constants the `...Assumption` of each module allows, and for
specifications without fairness: `Spec` of `ScraperWorkers` and `PortalOrders`, `ReleaseSpec`, `DealSpec`,
`RingSpec`; `SyncSpec` is import and image pipeline together, `MonitorSpec` the monitor and its sink
with the steps `AuctionDay` takes of them (what the others do leaves them alone or is among them), `DaySpec`
the whole day, which is shown to be a `MonitorSpec`. The assumptions say of the numbers of
consumers and of messages in hand (`Consumer`, `Slot`) that they are finite: RabbitMQ's prefetch bounds them.

| Theorem | States | By |
|---|---|---|
| `ScraperWorkers_proofs!TypeCorrect` | `TypeOK` | with `Served` and `Operated`: a request in flight and a staff operation in flight name a worker, without which `row[req[r].w]` means nothing |
| `ClaimsAreNotStolen` | no step passes a claim from one VM to another, but for the calendar's replacement | each action from the typing alone; only `ClaimStamp` writes a VM, and only where there is none |
| `ClaimsHaveWorkers` | `HoldersRegistered` | inductive with the typing: `Known` guards both writers, `DeleteRow` lifts the claims it orphans |
| `AnswersAreExclusive` | `ExclusiveAnswers` | see below |
| `WorkersImplementDeal` | `ImplementsDeal` | each action maps to a step of `SaleDeal` or a stutter, with `ReadsHeld` and `RefreshHeld` |
| `SalesUnderWayStay` | `InProgressKept` | an action property: each action that lifts a claim of a sale under way is one the property names |
| `QuotaHolds` | `QuotaRespected` | `QuotaInv`, below; for VMs `Undisturbed` |
| `PollsRepeat` | `PollIsIdempotent` | `RepeatInv`: `QuotaInv`, and no VM has a sale of a later day than the request it has in flight |
| `SaleDeal_proofs!DealIsExclusive` | in the abstract deal no two machines are told to open the same sale unless it changed hands | inductive with: what a machine has open it holds, or it changed hands |
| `PortalOrders_proofs!TypeCorrect` | `TypeOK` | itself |
| `NothingBeforePayment` | `NothingUnpaid` | with: a call past the retrieval is for a paid session |
| `CallsCreateOnce` | `EachCallOnce` | with: an order not settled has no rows; a call about to mark has made none; what a call still has to make it has not made |
| `DepositsAreCredited` | `FulfilledIsCredited` | with: a call that makes a deposit and has nothing left to do has made it |
| `ReleasesAreTyped` | `ReleaseTypeOK` | with: decisions in flight name a request, askers past their reads have a positive balance |
| `ApprovalsAreDebited` | `ApprovedIsDebited` | `PastDebit`: an approval that has debited finds its debit, which nothing removes |
| `RefundsStayDebited` | `RefundsAreDebited` | `CoverInv`: what was refunded plus what every approval between debit and refund may still refund is within the debits |
| `DoneStaysCached` | `DoneIsCached` | `PipeInv`, below |
| `CaredForStays` | `WantedIsKept` | `PipeInv` (`CaresKept`: who cares for a lot of the run's list has it struck off before the delete) |
| `EachMapsItsFeed` | `MapsOwnFeed` | `FeedInv`: as long as no session was lost, one runner holds the lock, and whoever is between download and wipe is that one and finds in the staging table what it has staged itself |
| `MonitorTyped`, `PagesStayWatched` | `MonitorTypeOK`, `OpenPageIsWatched` | `PageInv`: what a tick has taken, what it closes and what it opens fit with the rows, the runners and the pages at each of its awaits |
| `NoStorm` | `NoDuplicateStorm` | `QueueInv`, below |
| `PipelineTyped` | `PipelineTypeOK` | with `PipeInv`, `QueueInv` and `FeedInv`, which type what they speak of, and: a job is late only while it is processed, a tick's slots (a subtraction from `Depth`) are not negative, an index that does not exist is empty |
| `SinkIsTyped`, `RowsAreLatest` | `SinkTypeOK`, `LatestWins` | `SinkInv`: of a lot that is not spoiled, the last event taken is the last one in batch and queue, and the row has it unless it is still to be stored |
| `DayTyped` | `DayTypeOK` | the types of the three parts, and no sale of an account that is gone |
| `WorkIsKept` | `AgentsWorkIsKept` | `RemovalsSafe`: the coming sales of an agent whose list was read are in flight, or somebody has given them since |
| `DealEndsLevel` | `DealIsLevel` | an action property, from what the greedy choice of `Deals` keeps: the counts of those who got a sale exceed nobody's by more than one |
| `DayIsWatched` | `OpenPageIsWatched`, `WindowRemembers`, `LatestWins` over the day | every step of `DaySpec` is one of `MonitorSpec` or a stutter of it |
| `WindowHolds` | `WindowRemembers` | `WindowInv`: a key twice in `keyOrder` was given up in between |
| `RingTyped` | `CallTypeOK` | `TypeInv`, with: each part of a handler runs for the webhook it is about, and an unanswered call is over |
| `GoneIsSilent`, `MovesOn` | `NobodyRingsForTheGone`, `MovesOnWhenAllFailed` | `RingInv`, below |
| `NobodyIsLeft` | `NobodyWaitsAlone` | `WaitInv`, below |

`ExclusiveAnswers` is not inductive: it speaks of answers, and says nothing of what the
requests in flight are about to answer. The strengthening adds that a sale in a VM's last answer
is claimed by that VM or its claim has been lifted (`AnswersHeld`), and the same of the sales a
request has read as its own and may still answer with (`ReadsHeld`). A step then either keeps
the holder of a sale or lifts it, which puts the sale in `reopened`; an answer is taken from
the claims of the moment or from `live`. The refinement needs in addition that what a refresh
has read of a sale is nobody or its holder, unless the sale has changed hands since (`RefreshHeld`).

`DoneIsCached` says nothing of writers that are about to write done. `PipeInv` adds that a tick about
to close a job as done still finds its gallery kept (`MarksKept`), and so does a consumer about to finalize
(`HandsKept`), whatever retention, staff, deaths and repeated messages did since they looked.

`RingInv` is about what a webhook may conclude from `metaValue`. `SawOK`: what a webhook has read is what
there is, unless somebody wrote since, and then its own write counts as crossed. `HangOK`: the calls
a webhook is going to write off are over, `loose`, or still in its list of calls to hang up. `OnRecord`: while no
writes crossed, every call that rings or is answered, and is not `loose`, is on record, or about to be.
So an empty list means that no call of the ring is left but those (`MovesOn`). `Accounted`: a ringing call that is neither `late` nor `loose`
has a caller's conference, an undelivered webhook that reports its end, or a webhook that will hang the
call up, as long as none was cut short (`GoneIsSilent`).

`NobodyWaitsAlone` speaks of a quiet system; `WaitInv` names, for every state, who will move the caller on. As long as
none of the exemptions applies and the caller is neither gone nor about to be hung up (`Regular`): whoever talks
is in a conference of the caller (`Talking`); every SID on record is of a call that rings or talks, or whose end is still to
be removed (`Expected`); and if a call was placed for the caller's last request and no redirection of it has failed
(`Called`), then such a call
is left, or a webhook is at the check with nothing on record, sets the flag, is about to read it set, or
redirects (`Moving`). A removal that empties the list goes to the check itself; one that does not leaves an SID on
record, which `Expected` turns into a call. `Placed` says that no call was placed for a request of the
caller that has not entered a conference yet, so that a new conference starts without obligations. A failure that
is noted ends `Regular` or `Called`; one that is not (`DialFails`, `TargetFails`, a hang-up) leaves the mover where it was. In a quiet system
there is no webhook, and what is left of `Moving` is a call.

`NoDuplicateStorm` bounds what waits; the code sends from three places (tick, import, staff) long after
they looked. `QueueInv` counts with it what is about to be sent (`Due`) and what may be sent next (`Going`):
the sum stays within `1 + extra[l]`. A tick that saw the queue empty has `Room` for each lot
(`ReapsWithRoom`), and a lot without a job was never sent (`UntouchedHaveRoom`) unless
retention has dropped it. That exception is a finding about the model: an import that has listed a new lot
and stalls before `Enqueue` may find that the lot was fetched, reaped, sent again and dropped by retention
in the meantime, and gives it another job with a message of the first still waiting. `NoDuplicateStorm`
names it (`Excuse` in `Enqueue`). The proof also needs that `Depth`, a fold over the lots, is 0 only when
every summand is: by well-founded induction over finite sets, with the predicate written out.

`QuotaRespected` speaks of what a VM holds, and a claim adds to it three awaits after it has counted. `QuotaInv`
says of a request past its count that what its VM holds is still among what it counted (`Fits`), that count
and candidates stay within the quota, and at the stamp that what the VM holds and the candidates
together do. Only the VM's own request can add to what it holds, so it must have one at a time. The
theorem's hypothesis `Undisturbed` says just that, that no refresh writes back old claims, and that staff
give no other quota; without any one of the three TLC finds the quota exceeded (two overlapping polls; a claim
lifted while a refresh has it in hand; a quota lowered). Staff may still disable, release, transfer and remove under it;
`PollsRepeat` excludes them too, since they take sales away on purpose.

Every invariant and every action property of the passing runs is a theorem. Only model-checked is
all liveness (`SilentVmFreed`, `ClosedSaleFreed`, `FreeSaleClaimed`, `PaidIsFulfilled`, `JobsSettle`, `LockReturns`, `IndexRefilled`, `StaleAlerted`, `UnassignedIsDealt`, `EventsSettle`, `StopIsHonoured`, `CoverageResumes`): fairness and
ENABLED are out of the prover's reach. The library's induction theorems take an operator and cannot be
used; the few inductions the proofs need (`Kept`, `Depth`) are stated as: a set of naturals without a least element
is empty, which follows from the well-foundedness of finite subsets.

## 6. Not modelled

- **Calls**: transfers (`transferCall`, segments above 0) open a second row and a second conference
  whose webhooks are the modelled ones again; menus and nested flows, outbound calls, recordings,
  transcription, SMS, presence.
- **A second auction-monitor worker**: `apps/auction-monitor/README.md:82` calls it safe by construction. `MonitorSessions` has
  one worker, dying and booting again; a second one would close the rows of the first when it boots (`onModuleInit`).
- **Vehicle inspections**: `cancelInspection` reads the status and cancels by id, and staff update the
  same way, so an inspection finished in between ends cancelled. It is two handlers over one
  column, without anything that depends on the column.
- **Buyers**: two checkouts of a buyer without a Stripe customer create two; `mergeEmailDuplicates`
  (`customer.guard.ts:219`) moves orders and ledger entries and deletes the other buyer, also under an order being
  fulfilled. Orders of the model have one buyer.
- **Import**: the decoder of VINs, derived and canonical columns, the key of an event that has no day
  (`sio-decoder.ts:63`), the proxies, several containers.
- **The rest of `portal.service.ts`** (profile, favourites, pricing), max bid, searches, CRUD modules,
  AI and image workers: single statements, arithmetic, or calls of external services without shared state.
- Hazards of `PROJECT.json` without a property carry the reason in their note; most are behaviours the
  code does show (a partial update, two requests for one balance, two agents who pick up at once), which no
  property can forbid.

## 7. What is left

1. Transfers in `CallRing`: a segment as an index of `meta`, `leg` and the conference.
2. Two askers in `DepositReleases` against "one PENDING request"; inspections next to the orders that create them.
3. The merge of buyers against orders in flight.
