------------------------------ MODULE SaleSink ------------------------------
(***************************************************************************)
(* SaleEventSinkService of apps/auction-monitor, which posts the events of *)
(* the open sale pages to the API, and the ingest at the other end.        *)
(*                                                                         *)
(* JavaScript runs a handler up to its next await: a step is one such run, *)
(* or one item the API stores. The optional mirror webhook is left out.    *)
(***************************************************************************)
EXTENDS Filters, FiniteSets, SequencesExt

CONSTANTS
    Event,       \* what a page may show: [lot, tick, sold]; tick: order and bid
    Page,        \* sessions
    MaxKeys,     \* MAX_KEYS
    MaxAttempts, \* MAX_ATTEMPTS
    Batch,       \* BATCH
    NoEvent

ASSUME SinkAssumption ==
    /\ MaxKeys \in Nat \ {0} /\ MaxAttempts \in Nat \ {0} /\ Batch \in Nat \ {0}
    /\ \A e \in Event : e.sold \in BOOLEAN
    /\ NoEvent \notin Event

VARIABLES
    queue,     \* items still to be posted
    post,      \* drain: the batch in flight, or waiting two seconds to be retried
    request,   \* what the API has still to store of the batch in flight
    overdue,   \* ... and of a request the sink has stopped waiting for
    sentKeys,
    keyOrder,
    tally,     \* ingested and failures, by session
    result,    \* auction_sale_results, by lot
    latest,    \* the last event of each lot that the sink took
    gaveUp,    \* keys of events given up
    spoiled,   \* lots of an event that was given up, or not stored as it was sent
    sinkLeft   \* frames and faults not yet used up

sinkVars == <<queue, post, request, overdue, sentKeys, keyOrder, tally, result, latest,
              gaveUp, spoiled, sinkLeft>>

-----------------------------------------------------------------------------
Lot == {e.lot : e \in Event}

\* dedupeKey: a sold lot is emitted once ever, a live bid once per lot, order and bid.
\* A frame without lot never gets here.
KeyOf(e) == [e EXCEPT !.tick = IF e.sold THEN 0 ELSE @]

Key == {KeyOf(e) : e \in Event}

Item == [event : Event, page : Page, attempts : Nat]

NoPost == [pc |-> "idle", batch |-> << >>]

SinkTypeOK ==
    /\ queue \in Seq(Item)
    /\ post \in [pc : {"idle", "post", "wait"}, batch : Seq(Item)]
    /\ request \in Seq(Event) /\ overdue \in Seq(Event)
    /\ sentKeys \in SUBSET Key
    /\ keyOrder \in Seq(Key)
    /\ tally \in [Page -> [ingested : Nat, errors : Nat]]
    /\ result \in [Lot -> Event \cup {NoEvent}]
    /\ latest \in [Lot -> Event \cup {NoEvent}]
    /\ gaveUp \in SUBSET Key /\ spoiled \in SUBSET Lot
    /\ sinkLeft \in [frame : Nat, fault : Nat]
    \* the loop is idle only with nothing left to post
    /\ post.pc = "idle" => queue = << >>

Events(items) == [i \in DOMAIN items |-> items[i].event]

Lots(events) == {events[i].lot : i \in DOMAIN events}

SpendSink(kind) == sinkLeft[kind] > 0 /\ sinkLeft' = [sinkLeft EXCEPT ![kind] = @ - 1]

-----------------------------------------------------------------------------
(* The queue                                                                *)

Least(a, b) == IF a < b THEN a ELSE b

\* splice(0, BATCH)
BatchSize(q) == Least(Len(q), Batch)

\* The loop of drain goes on with q: the next batch is cut off and sent, at once.
Drain(q) ==
    LET n == BatchSize(q)
    IN  /\ post' = IF n = 0 THEN NoPost
                   ELSE [pc |-> "post", batch |-> SubSeq(q, 1, n)]
        /\ request' = Events(SubSeq(q, 1, n))
        /\ queue' = SubSeq(q, n + 1, Len(q))

\* Mutant: the key that leaves the order is still refused.
ForgottenNot(order) == {}

\* Beyond MAX_KEYS the oldest key is forgotten.
Forgotten(order) == IF Len(order) > MaxKeys THEN {Head(order)} ELSE {}

\* remember
Remember(k) ==
    LET order == Append(keyOrder, k)
    IN  /\ keyOrder' = IF Len(order) > MaxKeys THEN Tail(order) ELSE order
        /\ sentKeys' = (sentKeys \cup {k}) \ Forgotten(order)

Duplicate(e) == KeyOf(e) \in sentKeys

\* enqueue of an event that is no duplicate.
Enqueue(p, e) ==
    LET q == Append(queue, [event |-> e, page |-> p, attempts |-> 0])
    IN  /\ ~Duplicate(e)
        /\ Remember(KeyOf(e))
        /\ latest' = [latest EXCEPT ![e.lot] = e]
        /\ IF post.pc = "idle" THEN Drain(q)
           ELSE queue' = q /\ UNCHANGED <<post, request>>
        /\ UNCHANGED <<overdue, tally, result, gaveUp, spoiled>>

-----------------------------------------------------------------------------
(* The API                                                                  *)

\* The upsert of one item of a request; an item that fails is logged and left out.
Stores(e) ==
    \/ /\ result' = [result EXCEPT ![e.lot] = e]
       /\ UNCHANGED <<spoiled, sinkLeft>>
    \/ /\ SpendSink("fault")
       /\ spoiled' = spoiled \cup {e.lot}
       /\ UNCHANGED result

ApiStores ==
    /\ request # << >> /\ request' = Tail(request)
    /\ Stores(Head(request))
    /\ UNCHANGED <<queue, post, overdue, sentKeys, keyOrder, tally, latest, gaveUp>>

\* The API goes on with a request whose client has given up waiting.
ApiStoresLate ==
    /\ overdue # << >> /\ overdue' = Tail(overdue)
    /\ Stores(Head(overdue))
    /\ UNCHANGED <<queue, post, request, sentKeys, keyOrder, tally, latest, gaveUp>>

-----------------------------------------------------------------------------
(* post                                                                     *)

Of(items, p) == Cardinality({i \in DOMAIN items : items[i].page = p})

\* postJson returns.
Posted ==
    /\ post.pc = "post" /\ request = << >>
    /\ tally' = [p \in Page |-> [tally[p] EXCEPT !.ingested = @ + Of(post.batch, p)]]
    /\ Drain(queue)
    /\ UNCHANGED <<overdue, sentKeys, keyOrder, result, latest, gaveUp, spoiled, sinkLeft>>

\* Mutant: attempts are not counted.
TriedNot(item) == item

Tried(item) == [item EXCEPT !.attempts = @ + 1]

\* postJson throws: refused, answered with an error, or cut off before the API has
\* stored it all; or its 30 seconds are over and the API goes on.
Fails ==
    LET tried  == [i \in DOMAIN post.batch |-> Tried(post.batch[i])]
        alive  == {item \in ToSet(tried) : item.attempts < MaxAttempts}
        retry  == Kept(tried, alive)
        dead   == Kept(tried, ToSet(tried) \ alive)
        keys   == {KeyOf(dead[i].event) : i \in DOMAIN dead}
    IN  /\ post.pc = "post"
        /\ \/ UNCHANGED <<overdue, sinkLeft>> /\ spoiled' = spoiled \cup Lots(Events(dead))
           \/ /\ SpendSink("fault") /\ overdue = << >> /\ overdue' = request
              /\ spoiled' = spoiled \cup Lots(request) \cup Lots(Events(dead))
        /\ tally' = [p \in Page |-> [tally[p] EXCEPT !.errors = @ + Of(dead, p)]]
        /\ sentKeys' = sentKeys \ keys
        /\ gaveUp' = gaveUp \cup keys
        /\ IF retry = << >> THEN Drain(queue)
           ELSE /\ post' = [pc |-> "wait", batch |-> retry]
                /\ request' = << >> /\ UNCHANGED queue
        /\ UNCHANGED <<keyOrder, result, latest>>

\* Mutant: what failed goes to the end.
RequeuedLast == queue \o post.batch

\* unshift: what failed goes first.
Requeued == post.batch \o queue

\* Two seconds later.
Retry ==
    /\ post.pc = "wait"
    /\ Drain(Requeued)
    /\ UNCHANGED <<overdue, sentKeys, keyOrder, tally, result, latest, gaveUp, spoiled,
                   sinkLeft>>

-----------------------------------------------------------------------------
(* The scheduler's side                                                     *)

\* takeCounters of some sessions.
TakeCounters(pages) ==
    tally' = [p \in Page |-> IF p \in pages THEN [ingested |-> 0, errors |-> 0]
                             ELSE tally[p]]

\* The worker dies: what it had in memory is gone, what the API has goes on.
SinkDies ==
    /\ spoiled' = spoiled \cup Lots(Events(queue)) \cup Lots(Events(post.batch))
    /\ overdue' = overdue \o request
    /\ queue' = << >> /\ post' = NoPost /\ request' = << >>
    /\ sentKeys' = {} /\ keyOrder' = << >> /\ gaveUp' = {}
    /\ tally' = [p \in Page |-> [ingested |-> 0, errors |-> 0]]
    /\ UNCHANGED <<result, latest>>

SinkInit ==
    /\ queue = << >> /\ post = NoPost /\ request = << >> /\ overdue = << >>
    /\ sentKeys = {} /\ keyOrder = << >>
    /\ tally = [p \in Page |-> [ingested |-> 0, errors |-> 0]]
    /\ result = [l \in Lot |-> NoEvent] /\ latest = [l \in Lot |-> NoEvent]
    /\ gaveUp = {} /\ spoiled = {}
    /\ sinkLeft \in [frame : Nat, fault : Nat]

SinkStep == ApiStores \/ ApiStoresLate \/ Posted \/ Fails \/ Retry

\* A post is answered, or its timeout ends it; the timer of a retry fires.
SinkFairness == WF_sinkVars(SinkStep)

-----------------------------------------------------------------------------
(* Properties                                                               *)

\* sentKeys and keyOrder are one window: every key of the last MAX_KEYS is refused,
\* unless it was given up since the worker started, and no other key is.
WindowRemembers ==
    /\ Len(keyOrder) <= MaxKeys
    /\ sentKeys \subseteq ToSet(keyOrder)
    /\ ToSet(keyOrder) \ sentKeys \subseteq gaveUp

\* With nothing under way, the row of a lot is the last event the sink took of it,
\* whatever was retried, unless one of its events was given up, refused by the
\* database or outlived the sink's patience (post, drain, ingest).
LatestWins ==
    queue = << >> /\ post.pc = "idle" /\ overdue = << >>
        => \A l \in Lot \ spoiled : result[l] = latest[l]

\* Every event taken is stored or given up: the queue runs dry.
EventsSettle == post.pc # "idle" ~> post.pc = "idle"
=============================================================================
