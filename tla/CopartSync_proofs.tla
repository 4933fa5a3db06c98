-------------------------- MODULE CopartSync_proofs --------------------------
(***************************************************************************)
(* Theorems about the image pipeline and the import it shares its process  *)
(* with, for any lots, feeds, messages in hand and overlapping runs.       *)
(***************************************************************************)
EXTENDS CopartSync, FiniteSetTheorems, WellFoundedInduction, TLAPS

\* The system without assumptions of fairness, from any lots already imported.
SyncSpec == JobsInit /\ SyncInit /\ [][SyncNext]_<<jobsVars, syncVars>>

-----------------------------------------------------------------------------
(* The pipeline: done means cached, and what somebody cares about stays     *)

\* How many slots a tick has is a matter of the queue's depth and of no concern here.
Shapes ==
    /\ lot \in [Lot -> Listing]
    /\ job \in [Lot -> Status]
    /\ hand \in [Slot -> Delivery]
    /\ tick \in [pc : {"idle", "reap", "count", "seed", "pick", "take", "look", "fetch",
                       "mark"},
                 slots : {tick.slots}, reap : BOOLEAN, blind : BOOLEAN,
                 batch : SUBSET Lot, on : SUBSET Lot, as : Status]
    /\ purge \in Purge
    /\ purged \in SUBSET Lot

\* The gallery is there, or retention has dropped it.
Kept(l) == Cached(l) \/ l \in purged

\* A tick about to close a job found its gallery ...
MarksKept == tick.pc = "mark" /\ tick.as = "done" => \A l \in tick.on : Kept(l)

\* ... and so did, or made, a consumer about to. A message is of one lot.
HandKept(h) ==
    /\ \A k, l \in h.on : k = l
    /\ h.pc = "finalize" /\ h.as = "done" => \A l \in h.on : Kept(l)

HandsKept == \A s \in Slot : HandKept(hand[s])

\* What somebody cared about when a retention run began is still cared about, and the
\* run has struck it off its list by the time it deletes.
CaresKept ==
    /\ \A l \in purge.before : lot[l].wanted
    /\ purge.pc \in {"pointer", "row"} => purge.lots \cap purge.before = {}

\* The tick looks at one lot at a time.
OneAtATime == \A k, l \in tick.on : k = l

PipeInv == Shapes /\ OneAtATime /\ DoneIsCached /\ MarksKept /\ HandsKept /\ CaresKept

LEMMA Blanks ==
    /\ NoTick \in [pc : {"idle"}, slots : {0}, reap : {FALSE}, blind : {FALSE},
                   batch : {{}}, on : {{}}, as : {"none"}]
    /\ NoDelivery \in [pc : {"idle"}, on : {{}}, as : {"done"}, mine : {FALSE}]
    /\ NoPurge \in [pc : {"idle"}, lots : {{}}, on : {{}}, before : {{}}]
  BY DEF NoTick, NoDelivery, NoPurge

\* Jobs that get a status get done only with their gallery.
LEMMA JobsWritten ==
    ASSUME PipeInv, NEW S, NEW status \in Status, SetJobs(S, status),
           UNCHANGED <<lot, purged>>,
           status = "done" => \A l \in S : Kept(l)
    PROVE  job' \in [Lot -> Status] /\ DoneIsCached'
  BY DEF PipeInv, Shapes, DoneIsCached, SetJobs, Kept, Cached

\* The tick goes on to another lot, or ends.
LEMMA OnwardKeeps ==
    ASSUME PipeInv, NEW batch \in SUBSET Lot, Onward(batch)
    PROVE  /\ tick' \in [pc : {"idle", "take"}, slots : {0}, reap : {FALSE}, blind : BOOLEAN,
                         batch : SUBSET Lot, on : {{}}, as : {"none"}]
  BY DEF PipeInv, Shapes, Onward, NoTick

\* A tick that is not about to close a job as done, with the jobs as they may become.
LEMMA TickMoves ==
    ASSUME PipeInv, UNCHANGED <<lot, hand, purge, purged>>,
           job' \in [Lot -> Status], DoneIsCached',
           tick' \in [pc : {"idle", "reap", "count", "seed", "pick", "take", "look", "fetch",
                            "mark"},
                      slots : {tick'.slots}, reap : BOOLEAN, blind : BOOLEAN,
                      batch : SUBSET Lot, on : SUBSET Lot, as : Status],
           \A k, l \in tick'.on : k = l,
           tick'.pc = "mark" /\ tick'.as = "done" => \A l \in tick'.on : Kept(l)
    PROVE  PipeInv'
  BY DEF PipeInv, Shapes, OneAtATime, MarksKept, HandsKept, HandKept, CaresKept, Kept,
         Cached

LEMMA TickKeeps ==
    ASSUME PipeInv, TickStart \/ TickStep
    PROVE  PipeInv'
  <1> USE Blanks
  <1>0. job \in [Lot -> Status] /\ DoneIsCached /\ tick.batch \in SUBSET Lot
        /\ tick.on \in SUBSET Lot /\ tick.as \in Status
    BY DEF PipeInv, Shapes
  <1>a. UNCHANGED job /\ UNCHANGED <<lot, purged>> => job' \in [Lot -> Status] /\ DoneIsCached'
    BY <1>0 DEF DoneIsCached, Cached
  <1>b. {"none", "pending", "processing", "done", "failed", "skipped"} = Status
    BY DEF Status
  <1>1. CASE TickStart
    <2>2. /\ UNCHANGED <<lot, job, hand, purge, purged>>
          /\ tick'.pc = "reap"
          /\ tick' \in [pc : {"reap"}, slots : {tick'.slots}, reap : BOOLEAN, blind : BOOLEAN,
                        batch : SUBSET Lot, on : {{}}, as : Status]
      BY <1>1, <1>b, ZenonT(60) DEF TickStart, NoTick, MayReap
    <2> QED BY <1>a, <2>2, TickMoves
  <1>2. CASE Reap
    <2>1. PICK S : SetJobs(S, "pending")
      BY <1>2 DEF Reap
    <2>2. /\ UNCHANGED <<lot, hand, purge, purged>>
          /\ tick' = [tick EXCEPT !.pc = "count", !.reap = FALSE]
      BY <1>2 DEF Reap
    <2>3. job' \in [Lot -> Status] /\ DoneIsCached'
      BY <1>b, <2>1, <2>2, JobsWritten
    <2> QED BY <2>2, <2>3, TickMoves DEF PipeInv, Shapes, OneAtATime
  <1>3. CASE CountPending
    <2>1. PICK pc \in {"seed", "pick"} : tick' = [tick EXCEPT !.pc = pc]
      BY <1>3 DEF CountPending
    <2>2. UNCHANGED <<lot, job, hand, purge, purged>>
      BY <1>3 DEF CountPending
    <2> QED BY <1>a, <2>1, <2>2, TickMoves DEF PipeInv, Shapes, OneAtATime
  <1>4. CASE Seed
    <2>1. PICK C \in Some(Backlog, SeedBatch) : SetJobs(C, "pending")
      BY <1>4 DEF Seed
    <2>2. C \in SUBSET Lot
      BY <2>1 DEF Some, Backlog
    <2>3. UNCHANGED <<lot, hand, purge, purged>> /\ tick' = [tick EXCEPT !.pc = "pick"]
      BY <1>4 DEF Seed
    <2>4. job' \in [Lot -> Status] /\ DoneIsCached'
      BY <1>b, <2>1, <2>2, <2>3, JobsWritten
    <2> QED BY <2>3, <2>4, TickMoves DEF PipeInv, Shapes, OneAtATime
  <1>5. CASE Pick
    <2>1. PICK C \in Some(With("pending"), tick.slots) : Onward(C)
      BY <1>5 DEF Pick
    <2>2. C \in SUBSET Lot
      BY <2>1 DEF Some, With
    <2>3. UNCHANGED <<lot, job, hand, purge, purged>>
      BY <1>5 DEF Pick
    <2> QED BY <1>a, <1>b, <2>1, <2>2, <2>3, OnwardKeeps, TickMoves
  <1>6. CASE Take
    <2>1. UNCHANGED <<lot, hand, purge, purged>>
      BY <1>6 DEF Take
    <2>2. CASE tick' = NoTick /\ UNCHANGED job
      BY <1>a, <1>b, <2>1, <2>2, TickMoves
    <2>3. ASSUME NEW l \in tick.batch, SetJobs({l}, "processing"),
                 tick' = [tick EXCEPT !.pc = "look", !.on = {l}, !.batch = @ \ {l}]
          PROVE  PipeInv'
      <3>1. job' \in [Lot -> Status] /\ DoneIsCached'
        BY <1>0, <1>b, <2>1, <2>3, JobsWritten
      <3>2. /\ tick' \in [pc : {"look"}, slots : {tick'.slots}, reap : BOOLEAN, blind : BOOLEAN,
                          batch : SUBSET Lot, on : {{l}}, as : Status]
        BY <1>0, <2>3 DEF PipeInv, Shapes
      <3>3. {l} \in SUBSET Lot
        BY <1>0
      <3> QED BY <2>1, <3>1, <3>2, <3>3, TickMoves
    <2> QED BY <1>6, <2>2, <2>3 DEF Take
  <1>7. CASE Look
    <2>1. UNCHANGED <<lot, job, hand, purge, purged>> /\ tick.pc = "look"
      BY <1>7 DEF Look
    <2>2. PICK l \in tick.on : tick' = IF Cached(l) THEN [tick EXCEPT !.pc = "mark", !.as = "done"]
                                                   ELSE [tick EXCEPT !.pc = "fetch"]
      BY <1>7 DEF Look
    <2>3. tick.on = {l}
      BY <2>1, <2>2 DEF PipeInv, OneAtATime
    <2>4. /\ tick' \in [pc : {"mark", "fetch"},
                        slots : {tick'.slots}, reap : BOOLEAN, blind : BOOLEAN,
                        batch : SUBSET Lot, on : SUBSET Lot, as : Status]
          /\ tick'.on = tick.on /\ (tick'.pc = "mark" => Cached(l))
      BY <1>b, <2>2 DEF PipeInv, Shapes
    <2> QED BY <1>a, <2>1, <2>3, <2>4, TickMoves DEF Kept
  <1>8. CASE Fetch
    <2>1. UNCHANGED <<lot, job, hand, purge, purged>>
      BY <1>8 DEF Fetch
    <2>2. CASE Onward(tick.batch)
      BY <1>0, <1>a, <1>b, <2>1, <2>2, OnwardKeeps, TickMoves
    <2>3. ASSUME NEW as \in {"failed", "skipped", "pending"},
                 tick' = [tick EXCEPT !.pc = "mark", !.as = as]
          PROVE  PipeInv'
      <3>1. /\ tick' \in [pc : {"mark"}, slots : {tick'.slots}, reap : BOOLEAN, blind : BOOLEAN,
                          batch : SUBSET Lot, on : SUBSET Lot, as : Status]
            /\ tick'.as # "done" /\ tick'.on = tick.on
        BY <1>b, <2>3 DEF PipeInv, Shapes
      <3>2. \A k, l \in tick'.on : k = l
        BY <3>1 DEF PipeInv, OneAtATime
      <3> QED BY <3>2, <1>a, <2>1, <3>1, TickMoves
    <2> QED BY <1>8, <2>2, <2>3 DEF Fetch
  <1>9. CASE Mark
    <2>1. UNCHANGED <<lot, hand, purge, purged>> /\ tick.pc = "mark"
      BY <1>9 DEF Mark
    <2>2. CASE tick' = NoTick /\ UNCHANGED job
      BY <1>a, <1>b, <2>1, <2>2, TickMoves
    <2>3. ASSUME NEW l \in tick.on, SetJobs({l}, tick.as), Onward(tick.batch)
          PROVE  PipeInv'
      <3>1. tick.as = "done" => Kept(l)
        BY <2>1 DEF PipeInv, MarksKept
      <3>2. job' \in [Lot -> Status] /\ DoneIsCached'
        BY <1>0, <2>1, <2>3, <3>1, JobsWritten
      <3> QED BY <1>0, <1>b, <2>1, <2>3, <3>2, OnwardKeeps, TickMoves
    <2> QED BY <1>9, <2>2, <2>3 DEF Mark
  <1> QED
    BY <1>1, <1>2, <1>3, <1>4, <1>5, <1>6, <1>7, <1>8, <1>9 DEF TickStep

\* No gallery goes that was cared about when the retention run began.
Spares == \A l \in Lot : Cached(l) /\ ~Cached(l)' => l \notin purge.before

LEMMA Undisturbed ==
    ASSUME PipeInv, UNCHANGED jobsVars
    PROVE  PipeInv' /\ Spares
  BY DEF jobsVars, PipeInv, Shapes, OneAtATime, DoneIsCached, MarksKept, HandsKept, HandKept,
         CaresKept, Kept, Cached, Spares

\* A step that neither drops a gallery nor ends anybody's interest in one, and leaves
\* tick and retention run alone or ends them.
LEMMA Moves ==
    ASSUME PipeInv, lot' \in [Lot -> Listing], job' \in [Lot -> Status],
           hand' \in [Slot -> Delivery], tick' \in {tick, NoTick}, purge' \in {purge, NoPurge},
           UNCHANGED purged,
           \A l \in Lot : (lot[l].wanted => lot'[l].wanted) /\ (lot[l].cached => lot'[l].cached),
           DoneIsCached', HandsKept'
    PROVE  PipeInv' /\ Spares
  <1>1. Spares
    BY DEF Spares, Cached
  <1>2. \A l \in Lot : Kept(l) => Kept(l)'
    BY DEF Kept, Cached
  <1>3. CASE tick' = tick
    <2>1. Shapes' /\ OneAtATime' /\ MarksKept'
      <3>1. purge' \in Purge
        BY Blanks DEF PipeInv, Shapes, Purge
      <3> QED BY <1>2, <1>3, <3>1 DEF PipeInv, Shapes, OneAtATime, MarksKept
    <2>2. CaresKept'
      BY Blanks DEF PipeInv, Shapes, Purge, CaresKept
    <2> QED BY <1>1, <2>1, <2>2 DEF PipeInv
  <1>4. CASE tick' = NoTick
    <2>0. tick' \in [pc : {"idle"}, slots : {tick'.slots}, reap : BOOLEAN, blind : BOOLEAN,
                     batch : SUBSET Lot, on : {{}}, as : {"none"}]
      BY <1>4, Blanks
    <2>1. Shapes' /\ OneAtATime' /\ MarksKept'
      <3>1. purge' \in Purge
        BY Blanks DEF PipeInv, Shapes, Purge
      <3> QED BY <2>0, <3>1 DEF PipeInv, Shapes, OneAtATime, MarksKept, Status
    <2>2. CaresKept'
      BY Blanks DEF PipeInv, Shapes, Purge, CaresKept
    <2> QED BY <1>1, <2>1, <2>2 DEF PipeInv
  <1> QED BY <1>3, <1>4

\* One delivery becomes another, no gallery goes.
LEMMA HandMoves ==
    ASSUME PipeInv, NEW s \in Slot, NEW h \in Delivery, hand' = [hand EXCEPT ![s] = h],
           UNCHANGED <<tick, purge, purged>>,
           lot' \in [Lot -> Listing], job' \in [Lot -> Status],
           \A l \in Lot : (lot[l].wanted => lot'[l].wanted) /\ (lot[l].cached => lot'[l].cached),
           DoneIsCached', HandKept(h)'
    PROVE  PipeInv' /\ Spares
  <1>0. hand \in [Slot -> Delivery] /\ HandsKept
    BY DEF PipeInv, Shapes
  <1>1. hand' \in [Slot -> Delivery]
    BY <1>0
  <1>2. hand'[s] = h /\ \A q \in Slot \ {s} : hand'[q] = hand[q]
    BY <1>0
  <1>3. \A q \in Slot : hand[q].on \in SUBSET Lot
    BY <1>0 DEF Delivery
  <1>4. HandsKept'
    BY <1>0, <1>2, <1>3 DEF HandsKept, HandKept, Kept, Cached
  <1> QED BY <1>1, <1>4, Moves

\* The consumer takes a message, works on it, fails or loses it.
LEMMA HandKeeps ==
    ASSUME PipeInv, NEW s \in Slot,
           \/ \E l \in Lot : Deliver(s, l)
           \/ CheckCached(s) \/ Upload(s) \/ Finalize(s)
           \/ HandlerError(s)
           \/ Ack(s) /\ hand[s].mine
    PROVE  PipeInv' /\ Spares
  <1> USE Blanks
  <1>0. /\ lot \in [Lot -> Listing] /\ job \in [Lot -> Status] /\ hand \in [Slot -> Delivery]
        /\ hand[s] \in Delivery /\ DoneIsCached /\ HandKept(hand[s])
        /\ hand[s].on \in SUBSET Lot
    BY DEF PipeInv, Shapes, Delivery, HandsKept
  <1>1. NoDelivery \in Delivery /\ NoDelivery.pc = "idle" /\ NoDelivery.on = {}
    BY DEF Delivery
  <1>2. UNCHANGED <<lot, job, purged>> => DoneIsCached'
    BY <1>0 DEF DoneIsCached, Cached
  <1>3. ASSUME NEW l \in Lot, Deliver(s, l)
        PROVE  PipeInv' /\ Spares
    <2>h. PICK h : h = [NoDelivery EXCEPT !.pc = "check", !.on = {l}, !.mine = TRUE]
      OBVIOUS
    <2>1. UNCHANGED <<lot, job, tick, purge, purged>> /\ hand' = [hand EXCEPT ![s] = h]
      BY <1>3, <2>h DEF Deliver
    <2>2. h \in Delivery /\ h.pc = "check" /\ h.on = {l}
      BY <1>1, <2>h DEF Delivery
    <2>3. HandKept(h)'
      BY <2>2 DEF HandKept
    <2> QED BY <1>0, <1>2, <2>1, <2>2, <2>3, HandMoves
  <1>4. CASE CheckCached(s)
    <2>1. PICK l \in hand[s].on :
               hand' = [hand EXCEPT ![s].pc = IF Cached(l) THEN "finalize" ELSE "upload"]
      BY <1>4 DEF CheckCached
    <2>2. UNCHANGED <<lot, job, tick, purge, purged>>
      BY <1>4 DEF CheckCached
    <2>h. PICK h : h = [hand[s] EXCEPT !.pc = IF Cached(l) THEN "finalize" ELSE "upload"]
      OBVIOUS
    <2>3. h \in Delivery /\ h.on = hand[s].on /\ (h.pc = "finalize" => Cached(l))
      BY <2>h, <1>0 DEF Delivery
    <2>4. hand' = [hand EXCEPT ![s] = h]
      BY <2>h, <2>1
    <2>5. HandKept(h)'
      BY <1>0, <2>2, <2>3 DEF HandKept, Kept, Cached
    <2> QED BY <1>0, <1>2, <2>2, <2>3, <2>4, <2>5, HandMoves
  <1>5. CASE Upload(s)
    <2>1. PICK l \in hand[s].on :
               \/ /\ lot' = [lot EXCEPT ![l].cached = TRUE]
                  /\ hand' = [hand EXCEPT ![s].pc = "finalize"]
               \/ /\ hand' = [hand EXCEPT ![s].pc = "finalize", ![s].as = UploadedNothing]
                  /\ UNCHANGED lot
      BY <1>5 DEF Upload
    <2>2. UNCHANGED <<job, tick, purge, purged>>
      BY <1>5 DEF Upload
    <2>3. ASSUME lot' = [lot EXCEPT ![l].cached = TRUE],
                 hand' = [hand EXCEPT ![s].pc = "finalize"]
          PROVE  PipeInv' /\ Spares
      <3>h. PICK h : h = [hand[s] EXCEPT !.pc = "finalize"]
        OBVIOUS
      <3>1. h \in Delivery /\ h.on = hand[s].on
        BY <3>h, <1>0 DEF Delivery
      <3>2. hand' = [hand EXCEPT ![s] = h]
        BY <3>h, <2>3
      <3>a. lot[l] \in Listing /\ l \in Lot
        BY <1>0
      <3>b. lot' = [lot EXCEPT ![l] = [lot[l] EXCEPT !.cached = TRUE]]
        BY <2>3
      <3>c. [lot[l] EXCEPT !.cached = TRUE] \in Listing /\ [lot[l] EXCEPT !.cached = TRUE].cached
            /\ [lot[l] EXCEPT !.cached = TRUE].wanted = lot[l].wanted
        BY <3>a DEF Listing
      <3>3. /\ lot' \in [Lot -> Listing] /\ lot'[l].cached
            /\ \A k \in Lot : (lot[k].wanted => lot'[k].wanted) /\ (lot[k].cached => lot'[k].cached)
        BY <1>0, <3>a, <3>b, <3>c
      <3>4. DoneIsCached'
        BY <1>0, <2>2, <3>3 DEF DoneIsCached, Cached
      <3>5. HandKept(h)'
        BY <1>0, <3>1, <3>3 DEF HandKept, Kept, Cached
      <3> QED BY <1>0, <2>2, <3>1, <3>2, <3>3, <3>4, <3>5, HandMoves
    <2>4. ASSUME hand' = [hand EXCEPT ![s].pc = "finalize", ![s].as = UploadedNothing],
                 UNCHANGED lot
          PROVE  PipeInv' /\ Spares
      <3>h. PICK h : h = [hand[s] EXCEPT !.pc = "finalize", !.as = "failed"]
        OBVIOUS
      <3>1. h \in Delivery /\ h.on = hand[s].on /\ h.as = "failed"
        BY <3>h, <1>0 DEF Delivery
      <3>2. hand' = [hand EXCEPT ![s] = h]
        BY <3>h, <1>0, <2>4 DEF UploadedNothing
      <3>3. HandKept(h)'
        BY <1>0, <3>1 DEF HandKept
      <3> QED BY <1>0, <1>2, <2>2, <2>4, <3>1, <3>2, <3>3, HandMoves
    <2> QED BY <2>1, <2>3, <2>4
  <1>6. CASE Finalize(s)
    <2>1. /\ UNCHANGED <<lot, tick, purge, purged>>
          /\ hand' = [hand EXCEPT ![s].pc = "ack"] /\ hand[s].pc = "finalize"
      BY <1>6 DEF Finalize
    <2>2. job' \in [Lot -> Status] /\ DoneIsCached'
      <3>1. CASE UNCHANGED job
        BY <1>0, <1>2, <2>1, <3>1
      <3>2. CASE SetJobs({l \in hand[s].on : job[l] # "none"}, hand[s].as)
        <4>1. hand[s].as \in Status
          BY <1>0 DEF Delivery, Status
        <4>2. hand[s].as = "done" => \A l \in {l \in hand[s].on : job[l] # "none"} : Kept(l)
          BY <1>0, <2>1 DEF HandKept
        <4> QED BY <2>1, <3>2, <4>1, <4>2, JobsWritten
      <3> QED BY <1>6, <3>1, <3>2 DEF Finalize
    <2>h. PICK h : h = [hand[s] EXCEPT !.pc = "ack"]
      OBVIOUS
    <2>3. h \in Delivery /\ h.on = hand[s].on /\ h.pc = "ack"
      BY <2>h, <1>0 DEF Delivery
    <2>4. hand' = [hand EXCEPT ![s] = h]
      BY <2>h, <2>1
    <2>5. HandKept(h)'
      BY <1>0, <2>3 DEF HandKept
    <2> QED BY <1>0, <2>1, <2>2, <2>3, <2>4, <2>5, HandMoves
  <1>7. ASSUME hand' = [hand EXCEPT ![s] = NoDelivery],
               UNCHANGED <<lot, job, tick, purge, purged>>
        PROVE  PipeInv' /\ Spares
    <2>1. HandKept(NoDelivery)'
      BY <1>1 DEF HandKept
    <2> QED BY <1>0, <1>1, <1>2, <1>7, <2>1, HandMoves
  <1> QED BY <1>3, <1>4, <1>5, <1>6, <1>7 DEF HandlerError, Ack

\* The consumer's process dies, the broker's connection drops or a message is lost.
LEMMA FaultKeeps ==
    ASSUME PipeInv, UNCHANGED <<lot, job, purged>>,
           tick' \in {tick, NoTick}, purge' \in {purge, NoPurge},
           \/ hand' \in {hand, [s \in Slot |-> NoDelivery]}
           \/ hand' = [s \in Slot |-> [hand[s] EXCEPT !.mine = FALSE]]
    PROVE  PipeInv' /\ Spares
  <1>0. /\ lot \in [Lot -> Listing] /\ job \in [Lot -> Status] /\ hand \in [Slot -> Delivery]
        /\ DoneIsCached /\ HandsKept
    BY DEF PipeInv, Shapes
  <1>1. DoneIsCached'
    BY <1>0 DEF DoneIsCached, Cached
  <1>2. \A l \in Lot : Kept(l)' = Kept(l)
    BY DEF Kept, Cached
  <1>3. hand' \in [Slot -> Delivery] /\ HandsKept'
    <2>1. CASE hand' = hand
      BY <1>0, <1>2, <2>1 DEF HandsKept, HandKept, Delivery
    <2>2. CASE hand' = [s \in Slot |-> NoDelivery]
      BY <2>2, Blanks DEF HandsKept, HandKept, Delivery
    <2>3. CASE hand' = [s \in Slot |-> [hand[s] EXCEPT !.mine = FALSE]]
      <3>1. \A s \in Slot : /\ hand'[s] \in Delivery /\ hand[s].on \in SUBSET Lot
                            /\ hand'[s].pc = hand[s].pc /\ hand'[s].on = hand[s].on
                            /\ hand'[s].as = hand[s].as
        BY <1>0, <2>3 DEF Delivery
      <3>2. HandsKept'
        BY <1>0, <1>2, <3>1 DEF HandsKept, HandKept
      <3> QED BY <2>3, <3>1, <3>2
    <2> QED BY <2>1, <2>2, <2>3
  <1> QED BY <1>0, <1>1, <1>3, Moves

\* Listings change otherwise than by losing a gallery or somebody's interest, or jobs
\* change otherwise than by getting done.
LEMMA ListingKeeps ==
    ASSUME PipeInv, UNCHANGED <<hand, tick, purge, purged>>,
           \/ /\ lot' \in [Lot -> Listing] /\ UNCHANGED job
              /\ \A l \in Lot : (lot[l].wanted => lot'[l].wanted)
                                /\ (lot[l].cached => lot'[l].cached)
           \/ UNCHANGED lot /\ \E S : SetJobs(S, "pending")
    PROVE  PipeInv' /\ Spares
  <1>0. /\ lot \in [Lot -> Listing] /\ job \in [Lot -> Status] /\ hand \in [Slot -> Delivery]
        /\ DoneIsCached /\ HandsKept /\ "pending" \in Status /\ "pending" # "done"
    BY DEF PipeInv, Shapes, Status
  <1>1. /\ lot' \in [Lot -> Listing]
        /\ \A l \in Lot : (lot[l].wanted => lot'[l].wanted) /\ (lot[l].cached => lot'[l].cached)
    BY <1>0
  <1>2. job' \in [Lot -> Status] /\ DoneIsCached'
    BY <1>0, <1>1, JobsWritten DEF DoneIsCached, Cached
  <1>3. HandsKept'
    <2>1. \A q \in Slot : hand[q].on \in SUBSET Lot
      BY <1>0 DEF Delivery
    <2> QED BY <1>0, <1>1, <2>1 DEF HandsKept, HandKept, Kept, Cached
  <1> QED BY <1>0, <1>1, <1>2, <1>3, Moves

\* What staff, readers and the passing of time do to listings and jobs.
LEMMA PeopleKeep ==
    ASSUME PipeInv, PeopleStep \/ \E l \in Lot : JobAges(l) \/ LotAges(l)
    PROVE  PipeInv' /\ Spares
  <1>0. lot \in [Lot -> Listing]
    BY DEF PipeInv, Shapes
  <1>1. CASE PeopleStep /\ UNCHANGED <<lot, job>>
    <2>1. UNCHANGED <<hand, tick, purge, purged>>
      BY <1>1 DEF PeopleStep, RetryFailed, TogglePause, RetryJob, OnDemand, Want
    <2> QED BY <1>0, <1>1, <2>1, ListingKeeps
  <1>2. ASSUME NEW l \in Lot, RetryJob(l)
        PROVE  PipeInv' /\ Spares
    BY <1>2, ListingKeeps DEF RetryJob
  <1>3. CASE RetryFailed
    BY <1>3, ListingKeeps DEF RetryFailed
  <1>4. ASSUME NEW l \in Lot, Want(l)
        PROVE  PipeInv' /\ Spares
    <2>1. /\ lot' = [lot EXCEPT ![l] = [lot[l] EXCEPT !.wanted = TRUE]]
          /\ UNCHANGED <<job, hand, tick, purge, purged>>
      BY <1>4 DEF Want
    <2>2. [lot[l] EXCEPT !.wanted = TRUE] \in Listing /\ [lot[l] EXCEPT !.wanted = TRUE].wanted
          /\ [lot[l] EXCEPT !.wanted = TRUE].cached = lot[l].cached
      BY <1>0 DEF Listing
    <2>3. /\ lot' \in [Lot -> Listing]
          /\ \A k \in Lot : (lot[k].wanted => lot'[k].wanted) /\ (lot[k].cached => lot'[k].cached)
      BY <1>0, <2>1, <2>2
    <2> QED BY <2>1, <2>3, ListingKeeps
  <1>5. ASSUME NEW l \in Lot, JobAges(l)
        PROVE  PipeInv' /\ Spares
    BY <1>0, <1>5, ListingKeeps DEF JobAges
  <1>6. ASSUME NEW l \in Lot, LotAges(l)
        PROVE  PipeInv' /\ Spares
    <2>1. PICK age \in {"kept", "old"} : lot' = [lot EXCEPT ![l] = [lot[l] EXCEPT !.age = age]]
      BY <1>6 DEF LotAges
    <2>2. [lot[l] EXCEPT !.age = age] \in Listing
          /\ [lot[l] EXCEPT !.age = age].wanted = lot[l].wanted
          /\ [lot[l] EXCEPT !.age = age].cached = lot[l].cached
      BY <1>0 DEF Listing
    <2>3. /\ lot' \in [Lot -> Listing]
          /\ \A k \in Lot : (lot[k].wanted => lot'[k].wanted) /\ (lot[k].cached => lot'[k].cached)
      BY <1>0, <2>1, <2>2
    <2>4. UNCHANGED <<job, hand, tick, purge, purged>>
      BY <1>6 DEF LotAges
    <2> QED BY <2>3, <2>4, ListingKeeps
  <1>7. ASSUME NEW l \in Lot, TogglePause \/ OnDemand(l)
        PROVE  PipeInv' /\ Spares
    BY <1>1, <1>7 DEF TogglePause, OnDemand, PeopleStep
  <1>8. CASE TogglePause
    BY <1>1, <1>8 DEF TogglePause, PeopleStep
  <1> QED BY <1>2, <1>3, <1>4, <1>5, <1>6, <1>7, <1>8 DEF PeopleStep

\* Retention drops galleries nobody cared about when it began.
LEMMA PurgeKeeps ==
    ASSUME PipeInv, PurgeRead \/ PurgeStep
    PROVE  PipeInv' /\ Spares
  <1> USE Blanks
  <1>0. /\ lot \in [Lot -> Listing] /\ job \in [Lot -> Status] /\ hand \in [Slot -> Delivery]
        /\ purge \in Purge /\ purged \in SUBSET Lot /\ DoneIsCached /\ HandsKept /\ CaresKept
        /\ "none" \in Status /\ "none" # "done"
    BY DEF PipeInv, Shapes, Status
  <1>1. ASSUME UNCHANGED <<lot, hand, tick, purged>>, purge' \in Purge, CaresKept',
               UNCHANGED job \/ \E S : SetJobs(S, "none")
        PROVE  PipeInv' /\ Spares
    <2>1. job' \in [Lot -> Status] /\ DoneIsCached'
      BY <1>0, <1>1, JobsWritten DEF DoneIsCached, Cached
    <2>2. Shapes' /\ OneAtATime' /\ MarksKept' /\ HandsKept'
      BY <1>1, <2>1 DEF PipeInv, Shapes, OneAtATime, MarksKept, HandsKept, HandKept, Kept, Cached
    <2> QED BY <1>1, <2>1, <2>2 DEF PipeInv, Spares, Cached
  <1>2. ASSUME NEW lots \in SUBSET purge.lots, PurgeOn(lots), lots \cap purge.before = {}
        PROVE  /\ purge' \in Purge /\ purge'.before \subseteq purge.before
               /\ purge'.pc \in {"pointer", "row"} => purge'.lots \cap purge'.before = {}
    <2>1. CASE lots = {}
      BY <1>0, <1>2, <2>1 DEF PurgeOn, Purge
    <2>2. CASE lots # {}
      BY <1>0, <1>2, <2>2 DEF PurgeOn, Purge
    <2> QED BY <2>1, <2>2
  <1>3. CASE PurgeRead
    <2>1. /\ purge' \in [pc : {"protect"}, lots : {Eligible}, on : {{}},
                         before : {{l \in Lot : lot[l].wanted}}]
          /\ UNCHANGED <<lot, job, hand, tick, purged>>
      BY <1>3 DEF PurgeRead, NoPurge
    <2>2. Eligible \in SUBSET Lot
      BY DEF Eligible
    <2>3. purge' \in Purge /\ CaresKept'
      BY <2>1, <2>2 DEF Purge, CaresKept
    <2> QED BY <1>1, <2>1, <2>3
  <1>4. CASE PurgeProtect
    <2>1. PurgeOn(purge.lots \ Protected) /\ UNCHANGED <<lot, job, hand, tick, purged>>
      BY <1>4 DEF PurgeProtect
    <2>2. (purge.lots \ Protected) \cap purge.before = {}
      BY <1>0 DEF CaresKept, Protected, Purge
    <2>3. purge' \in Purge /\ CaresKept'
      BY <1>0, <1>2, <2>1, <2>2 DEF CaresKept
    <2> QED BY <1>1, <2>1, <2>3
  <1>5. CASE PurgePointer
    <2>1. PICK l \in purge.lots :
               \/ /\ lot' = [lot EXCEPT ![l].cached = FALSE]
                  /\ purged' = purged \cup {l}
                  /\ purge' = [purge EXCEPT !.pc = "row", !.on = {l}, !.lots = @ \ {l}]
               \/ PurgeOn(purge.lots \ {l}) /\ UNCHANGED <<lot, purged>>
      BY <1>5 DEF PurgePointer
    <2>2. UNCHANGED <<job, hand, tick>> /\ purge.pc = "pointer"
      BY <1>5 DEF PurgePointer
    <2>3. l \in Lot /\ l \notin purge.before /\ purge.lots \cap purge.before = {}
      BY <1>0, <2>1, <2>2 DEF Purge, CaresKept
    <2>4. CASE PurgeOn(purge.lots \ {l}) /\ UNCHANGED <<lot, purged>>
      <3>1. purge' \in Purge /\ CaresKept'
        BY <1>0, <1>2, <2>3, <2>4 DEF CaresKept
      <3> QED BY <1>1, <2>2, <2>4, <3>1
    <2>5. ASSUME lot' = [lot EXCEPT ![l].cached = FALSE],
                 purged' = purged \cup {l},
                 purge' = [purge EXCEPT !.pc = "row", !.on = {l}, !.lots = @ \ {l}]
          PROVE  PipeInv' /\ Spares
      <3>1. lot[l] \in Listing /\ lot' = [lot EXCEPT ![l] = [lot[l] EXCEPT !.cached = FALSE]]
        BY <1>0, <2>3, <2>5
      <3>2. [lot[l] EXCEPT !.cached = FALSE] \in Listing
            /\ [lot[l] EXCEPT !.cached = FALSE].wanted = lot[l].wanted
        BY <3>1 DEF Listing
      <3>3. /\ lot' \in [Lot -> Listing]
            /\ \A k \in Lot : lot'[k].wanted = lot[k].wanted
            /\ \A k \in Lot \ {l} : lot'[k] = lot[k]
        BY <1>0, <2>3, <3>1, <3>2
      <3>4. \A k \in Lot : Kept(k) => Kept(k)'
        BY <2>5, <3>3 DEF Kept, Cached
      <3>5. /\ purge' \in Purge /\ purge'.before = purge.before
            /\ purge'.lots \cap purge'.before = {}
        BY <1>0, <2>3, <2>5 DEF Purge
      <3>6. Spares
        BY <2>3, <3>3 DEF Spares, Cached
      <3>7. DoneIsCached' /\ HandsKept' /\ MarksKept'
        <4>1. \A q \in Slot : hand[q].on \in SUBSET Lot
          BY <1>0 DEF Delivery
        <4>2. tick.on \in SUBSET Lot
          BY DEF PipeInv, Shapes
        <4>3. DoneIsCached'
          BY <1>0, <2>2, <3>4 DEF DoneIsCached, Kept
        <4>4. HandsKept'
          BY <1>0, <2>2, <3>4, <4>1 DEF HandsKept, HandKept
        <4>5. MarksKept'
          BY <2>2, <3>4, <4>2 DEF PipeInv, MarksKept
        <4> QED BY <4>3, <4>4, <4>5
      <3>8. CaresKept'
        <4>1. \A k \in purge.before : k \in Lot
          BY <1>0 DEF Purge
        <4> QED BY <1>0, <3>3, <3>5, <4>1 DEF CaresKept
      <3>9. Shapes' /\ OneAtATime'
        BY <1>0, <2>2, <2>3, <2>5, <3>3, <3>5 DEF PipeInv, Shapes, OneAtATime
      <3> QED BY <3>6, <3>7, <3>8, <3>9 DEF PipeInv
    <2> QED BY <2>1, <2>4, <2>5
  <1>6. CASE PurgeRow
    <2>1. PurgeOn(purge.lots) /\ UNCHANGED <<lot, hand, tick, purged>> /\ purge.pc = "row"
      BY <1>6 DEF PurgeRow
    <2>2. purge.lots \cap purge.before = {}
      BY <1>0, <2>1 DEF CaresKept
    <2>3. purge' \in Purge /\ CaresKept'
      BY <1>0, <1>2, <2>1, <2>2 DEF CaresKept
    <2>4. UNCHANGED job \/ \E S : SetJobs(S, "none")
      BY <1>6 DEF PurgeRow
    <2> QED BY <1>1, <2>1, <2>3, <2>4
  <1> QED BY <1>3, <1>4, <1>5, <1>6 DEF PurgeStep

\* Whatever the process of the crawler or that of the consumer does, or dies of.
LEMMA JobsKeep ==
    ASSUME PipeInv, JobsStep
    PROVE  PipeInv' /\ Spares
  <1>1. CASE TickStart \/ TickStep
    <2>1. UNCHANGED lot
      BY <1>1 DEF TickStart, TickStep, Reap, CountPending, Seed, Pick, Take, Look, Fetch, Mark
    <2> QED BY <1>1, <2>1, TickKeeps DEF Spares, Cached
  <1>2. ASSUME NEW s \in Slot, HandStep(s)
        PROVE  PipeInv' /\ Spares
    <2>1. CASE Ack(s) /\ ~hand[s].mine
      BY <2>1, FaultKeeps DEF Ack, ConsumerDies
    <2> QED BY <1>2, <2>1, HandKeeps DEF HandStep
  <1>3. CASE FaultStep
    <2>1. CASE ConsumerCrash
      BY <2>1, FaultKeeps DEF ConsumerCrash, ConsumerDies
    <2>2. CASE Disconnect
      BY <2>2, FaultKeeps DEF Disconnect
    <2>3. ASSUME NEW l \in Lot, Lose(l)
          PROVE  PipeInv' /\ Spares
      BY <2>3, FaultKeeps DEF Lose
    <2> QED BY <1>3, <2>1, <2>2, <2>3, HandKeeps DEF FaultStep
  <1>4. ASSUME NEW s \in Slot, NEW l \in Lot, Deliver(s, l)
        PROVE  PipeInv' /\ Spares
    BY <1>4, HandKeeps
  <1> QED BY <1>1, <1>2, <1>3, <1>4, PurgeKeeps, PeopleKeep DEF JobsStep

\* The import writes listings and jobs; its process dies with the crawler.
LEMMA SyncKeeps ==
    ASSUME PipeInv, SyncNext
    PROVE  PipeInv' /\ Spares
  <1>0. lot \in [Lot -> Listing]
    BY DEF PipeInv, Shapes
  <1>1. CASE JobsStep
    BY <1>1, JobsKeep
  <1>2. ASSUME CrawlerDies
        PROVE  PipeInv' /\ Spares
    BY <1>2, FaultKeeps DEF CrawlerDies
  <1>3. ASSUME NEW r \in Runner, Map(r)
        PROVE  PipeInv' /\ Spares
    <2>1. /\ lot' = [l \in Lot |-> IF l \in staging
                                   THEN [lot[l] EXCEPT !.known = TRUE, !.stale = FALSE]
                                   ELSE lot[l]]
          /\ UNCHANGED <<job, hand, tick, purge, purged>>
      BY <1>3 DEF Map
    <2>2. \A l \in Lot : LET new == [lot[l] EXCEPT !.known = TRUE, !.stale = FALSE]
                         IN  new \in Listing /\ new.wanted = lot[l].wanted
                             /\ new.cached = lot[l].cached
      BY <1>0 DEF Listing
    <2>3. /\ lot' \in [Lot -> Listing]
          /\ \A l \in Lot : (lot[l].wanted => lot'[l].wanted) /\ (lot[l].cached => lot'[l].cached)
      BY <1>0, <2>1, <2>2
    <2> QED BY <2>1, <2>3, ListingKeeps
  <1>4. ASSUME NEW r \in Runner, Sweep(r)
        PROVE  PipeInv' /\ Spares
    <2>1. /\ lot' = [l \in Lot |-> IF l \in Gone THEN [lot[l] EXCEPT !.stale = TRUE] ELSE lot[l]]
          /\ UNCHANGED <<job, hand, tick, purge, purged>>
      BY <1>4 DEF Sweep
    <2>2. \A l \in Lot : LET new == [lot[l] EXCEPT !.stale = TRUE]
                         IN  new \in Listing /\ new.wanted = lot[l].wanted
                             /\ new.cached = lot[l].cached
      BY <1>0 DEF Listing
    <2>3. /\ lot' \in [Lot -> Listing]
          /\ \A l \in Lot : (lot[l].wanted => lot'[l].wanted) /\ (lot[l].cached => lot'[l].cached)
      BY <1>0, <2>1, <2>2
    <2> QED BY <2>1, <2>3, ListingKeeps
  <1>5. ASSUME NEW r \in Runner, Enqueue(r)
        PROVE  PipeInv' /\ Spares
    <2>1. UNCHANGED <<lot, hand, tick, purge, purged>>
      BY <1>5 DEF Enqueue
    <2>2. UNCHANGED job \/ \E S : SetJobs(S, "pending")
      BY <1>5 DEF Enqueue
    <2> QED BY <1>0, <2>1, <2>2, ListingKeeps
  <1>6. ASSUME NEW r \in Runner, Settle(r)
        PROVE  PipeInv' /\ Spares
    <2>1. CASE run[r].mine
      <3>1. UNCHANGED jobsVars
        BY <1>6, <2>1 DEF Settle, jobsVars
      <3> QED BY <3>1, Undisturbed
    <2>2. CASE ~run[r].mine
      BY <1>2, <1>6, <2>2 DEF Settle, SyncDies
    <2> QED BY <2>1, <2>2
  <1>7. CASE SyncCrash
    BY <1>2, <1>7 DEF SyncCrash, SyncDies
  <1>8. CASE SyncBoots
    BY <1>8, FaultKeeps DEF SyncBoots, ContainerRestarts
  <1>9. ASSUME NEW r \in Runner, RunStep(r), ~Map(r), ~Sweep(r), ~Enqueue(r), ~Settle(r)
        PROVE  UNCHANGED jobsVars
    BY <1>9 DEF RunStep, TryLock, Download, Empty, Stage, Ask, Wipe, IndexPage, IndexDone,
                Finish, Fail, Unlock, DropIndex, CreateIndex
  <1>10. ASSUME NEW r \in Runner, CronFires(r) \/ Throws(r) \/ TriggerRequeued(r) \/ LockLost(r)
         PROVE  UNCHANGED jobsVars
    BY <1>10 DEF CronFires, Throws, TriggerRequeued, LockLost
  <1>11. ASSUME NEW k \in Kind,
                Publishes(k) \/ HoursPass \/ DayAndNight \/ Watchdog
                \/ \E r \in Consumer : Receive(r, k)
         PROVE  UNCHANGED jobsVars
    BY <1>11 DEF Publishes, HoursPass, DayAndNight, Watchdog, Receive
  <1>12. HoursPass \/ DayAndNight \/ Watchdog => UNCHANGED jobsVars
    BY DEF HoursPass, DayAndNight, Watchdog
  <1> QED
    BY <1>1, <1>3, <1>4, <1>5, <1>6, <1>7, <1>8, <1>9, <1>10, <1>11, <1>12, Undisturbed
    DEF SyncNext

LEMMA PipeInit == JobsInit => PipeInv
  <1> SUFFICES ASSUME JobsInit
      PROVE  PipeInv
    OBVIOUS
  <1> USE Blanks
  <1>1. PICK S \in SUBSET Lot : lot = [l \in Lot |-> [Unseen EXCEPT !.known = l \in S]]
    BY DEF JobsInit
  <1>a. \A b \in BOOLEAN : [Unseen EXCEPT !.known = b] \in Listing
    BY DEF Unseen, Listing
  <1>b. \A l \in Lot : (l \in S) \in BOOLEAN
    OBVIOUS
  <1>2. \A l \in Lot : [Unseen EXCEPT !.known = l \in S] \in Listing
    BY <1>a, <1>b
  <1>3. lot \in [Lot -> Listing]
    BY <1>1, <1>2
  <1>4. /\ job = [l \in Lot |-> "none"] /\ hand = [s \in Slot |-> NoDelivery]
        /\ tick = NoTick /\ purge = NoPurge /\ purged = {}
    BY DEF JobsInit
  <1>5. job \in [Lot -> Status] /\ DoneIsCached
    BY <1>4 DEF Status, DoneIsCached
  <1>6. hand \in [Slot -> Delivery] /\ HandsKept
    BY <1>4 DEF Delivery, HandsKept, HandKept
  <1>7. tick \in [pc : {"idle"}, slots : {tick.slots}, reap : BOOLEAN, blind : BOOLEAN,
                  batch : SUBSET Lot, on : {{}}, as : Status]
    BY <1>4 DEF Status
  <1>8. OneAtATime /\ MarksKept
    BY <1>7 DEF OneAtATime, MarksKept
  <1>9. purge \in Purge /\ CaresKept
    BY <1>4 DEF Purge, CaresKept
  <1> QED BY <1>3, <1>4, <1>5, <1>6, <1>7, <1>8, <1>9 DEF PipeInv, Shapes

\* The shapes of jobs, deliveries, ticks and retention runs, and what a tick, a
\* consumer and a retention run still rely on when they come to write, hold throughout.
THEOREM PipeHolds == SyncSpec => []PipeInv
  <1>1. JobsInit /\ SyncInit => PipeInv
    BY PipeInit
  <1>2. PipeInv /\ [SyncNext]_<<jobsVars, syncVars>> => PipeInv'
    BY SyncKeeps, Undisturbed
  <1> QED BY <1>1, <1>2, PTL DEF SyncSpec

\* For any number of lots and messages in hand: a job is done only once its gallery is
\* there, whatever crawler, consumer, redeliveries, staff, deaths and imports do, and
\* it stays there until retention drops it.
THEOREM DoneStaysCached == SyncSpec => []DoneIsCached
  BY PipeHolds, PTL DEF PipeInv

\* For any lots: retention never drops a gallery somebody cared about when it began.
THEOREM CaredForStays == SyncSpec => WantedIsKept
  <1>1. PipeInv /\ [SyncNext]_<<jobsVars, syncVars>>
            => [\A l \in Lot : Cached(l) /\ ~Cached(l)' => l \notin purge.before]_jobsVars
    BY SyncKeeps, Undisturbed DEF Spares
  <1> QED BY <1>1, PipeHolds, PTL DEF SyncSpec, WantedIsKept

-----------------------------------------------------------------------------
(* The depth of the queue                                                   *)

\* Induction: a set of naturals without a least element is empty.
LEMMA NoLeast ==
    ASSUME NEW B \in SUBSET Nat, \A m \in B : \E k \in B : ~(m <= k)
    PROVE  B = {}
  <1> DEFINE Downs == {0..m : m \in B}
  <1> SUFFICES ASSUME B # {} PROVE FALSE
    OBVIOUS
  <1>1. IsWellFoundedOn(StrictSubsetOrdering(Nat), FiniteSubsetsOf(Nat))
    BY FS_StrictSubsetOrderingWellFounded
  <1>2. Downs \subseteq FiniteSubsetsOf(Nat) /\ Downs # {}
    <2>1. \A m \in B : IsFiniteSet(0..m)
      BY FS_Interval
    <2>2. \A m \in B : 0..m \in SUBSET Nat
      OBVIOUS
    <2>3. \A T \in Downs : T \in SUBSET Nat /\ IsFiniteSet(T)
      BY <2>1, <2>2
    <2> HIDE DEF Downs
    <2>4. Downs \subseteq FiniteSubsetsOf(Nat)
      BY <2>3 DEF FiniteSubsetsOf
    <2> QED BY <2>4 DEF Downs
  <1>3. PICK x \in Downs : \A y \in Downs : ~(<<y, x>> \in StrictSubsetOrdering(Nat))
    <2> HIDE DEF Downs
    <2> QED BY <1>1, <1>2, WFMin
  <1>4. PICK m \in B : x = 0..m
    OBVIOUS
  <1>5. PICK k \in B : ~(m <= k)
    OBVIOUS
  <1>6. /\ 0..k \in SUBSET Nat /\ 0..m \in SUBSET Nat
        /\ 0..k \subseteq 0..m /\ m \in 0..m /\ m \notin 0..k
    BY <1>5
  <1>7. <<0..k, 0..m>> \in StrictSubsetOrdering(Nat)
    <2>1. 0..k # 0..m
      BY <1>6
    <2> QED BY <1>6, <2>1 DEF StrictSubsetOrdering
  <1> QED BY <1>3, <1>4, <1>7

Picked(s) == CHOOSE l \in s : TRUE

Sum(s, f) == IF s = {} THEN 0 ELSE ready[Picked(s)] + f[s \ {Picked(s)}]

\* The messages that wait, added up over the lots of any set.
Adding(f) == f = [s \in SUBSET Lot |-> Sum(s, f)]

Small(n) == {s \in SUBSET Lot : Cardinality(s) <= n}

\* A set less one of its lots.
LEMMA OneLess ==
    ASSUME NEW s \in SUBSET Lot
    PROVE  /\ IsFiniteSet(s) /\ Cardinality(s) \in Nat
           /\ Cardinality(s) <= Cardinality(Lot) /\ Cardinality(Lot) \in Nat
           /\ s # {} => /\ Picked(s) \in s /\ Cardinality(s) # 0
                        /\ s \ {Picked(s)} \in SUBSET Lot
                        /\ Cardinality(s \ {Picked(s)}) = Cardinality(s) - 1
  <1>1. IsFiniteSet(Lot)
    BY JobsAssumption
  <1>2. IsFiniteSet(s) /\ Cardinality(s) <= Cardinality(Lot)
    BY <1>1, FS_Subset
  <1>3. Cardinality(s) \in Nat /\ Cardinality(Lot) \in Nat
    BY <1>1, <1>2, FS_CardinalityType
  <1>4. ASSUME s # {}
        PROVE  /\ Picked(s) \in s /\ Cardinality(s) # 0
               /\ s \ {Picked(s)} \in SUBSET Lot
               /\ Cardinality(s \ {Picked(s)}) = Cardinality(s) - 1
    <2>1. Picked(s) \in s
      BY <1>4 DEF Picked
    <2>2. Cardinality(s \ {Picked(s)}) = Cardinality(s) - 1
      BY <1>2, <2>1, FS_RemoveElement
    <2>3. Cardinality(s) # 0
      BY <1>2, <1>4, FS_EmptySet
    <2> QED BY <2>1, <2>2, <2>3
  <1> QED BY <1>2, <1>3, <1>4

LEMMA AddingExists == \E f : Adding(f)
  <1> DEFINE Bad == {n \in Nat : ~\E f : f = [s \in Small(n) |-> Sum(s, f)]}
  <1>1. ASSUME Bad # {}
        PROVE  FALSE
    <2>1. PICK n \in Bad : \A k \in Bad : n <= k
      <3>1. Bad \in SUBSET Nat
        OBVIOUS
      <3> HIDE DEF Bad
      <3> QED BY <1>1, <3>1, NoLeast
    <2>2. n \in Nat /\ ~\E f : f = [s \in Small(n) |-> Sum(s, f)]
      OBVIOUS
    <2>3. CASE n = 0
      <3> DEFINE f == [s \in Small(0) |-> 0]
      <3>1. ASSUME NEW s \in Small(0)
            PROVE  s = {}
        <4>1. s \in SUBSET Lot /\ Cardinality(s) <= 0
          BY DEF Small
        <4>2. Cardinality(s) \in Nat /\ (s # {} => Cardinality(s) # 0)
          BY <4>1, OneLess
        <4> QED BY <4>1, <4>2
      <3>2. \A s \in Small(0) : Sum(s, f) = 0
        BY <3>1 DEF Sum
      <3>3. f = [s \in Small(0) |-> Sum(s, f)]
        <4> HIDE DEF f
        <4>1. f = [s \in Small(0) |-> 0]
          BY DEF f
        <4> QED BY <3>2, <4>1
      <3> QED BY <2>2, <2>3, <3>3
    <2>4. CASE n # 0
      <3>1. n - 1 \in Nat /\ n - 1 \notin Bad
        BY <2>1, <2>2, <2>4
      <3>2. PICK g : g = [s \in Small(n - 1) |-> Sum(s, g)]
        BY <3>1
      <3> DEFINE f == [s \in Small(n) |-> Sum(s, g)]
      <3>3. ASSUME NEW s \in Small(n - 1)
            PROVE  s \in Small(n) /\ g[s] = Sum(s, g)
        <4>1. s \in SUBSET Lot /\ Cardinality(s) <= n - 1
          BY DEF Small
        <4>2. Cardinality(s) \in Nat
          BY <4>1, OneLess
        <4>3. s \in Small(n)
          BY <2>2, <4>1, <4>2 DEF Small
        <4> QED BY <3>2, <4>3
      <3>4. \A s \in Small(n) : f[s] = Sum(s, g)
        OBVIOUS
      <3>5. f = [s \in Small(n) |-> f[s]]
        OBVIOUS
      <3> HIDE DEF f
      <3>6. \A s \in Small(n) : s # {} => s \ {Picked(s)} \in Small(n - 1)
        BY <2>2, OneLess DEF Small
      <3>7. \A s \in Small(n) : s # {} => f[s \ {Picked(s)}] = g[s \ {Picked(s)}]
        BY <3>3, <3>4, <3>6
      <3>8. \A s \in Small(n) : Sum(s, g) = Sum(s, f)
        BY <3>7 DEF Sum
      <3>9. f = [s \in Small(n) |-> Sum(s, f)]
        BY <3>4, <3>5, <3>8
      <3> QED BY <2>2, <3>9
    <2> QED BY <2>3, <2>4
  <1>2. Cardinality(Lot) \in Nat /\ Small(Cardinality(Lot)) = SUBSET Lot
    BY OneLess DEF Small
  <1>3. Cardinality(Lot) \notin Bad
    BY <1>1
  <1>4. \E f : f = [s \in Small(Cardinality(Lot)) |-> Sum(s, f)]
    BY <1>2, <1>3
  <1> QED BY <1>2, <1>4 DEF Adding

LEMMA DepthIsSum ==
    ASSUME ready \in [Lot -> Nat]
    PROVE  Depth = (CHOOSE f : Adding(f))[Lot]
  <1>1. Depth = FoldFunctionOnSet(+, 0, ready, Lot)
    BY DEF Depth, FoldFunction
  <1> QED BY <1>1 DEF FoldFunctionOnSet, MapThenFoldSet, Adding, Sum, Picked

\* The depth of the queue is a number, and 0 only if no message waits.
LEMMA DepthCounts ==
    ASSUME ready \in [Lot -> Nat]
    PROVE  Depth \in Nat /\ (Depth = 0 => \A l \in Lot : ready[l] = 0)
  <1>1. PICK f : f = (CHOOSE g : Adding(g))
    OBVIOUS
  <1>2. Adding(f) /\ Depth = f[Lot]
    BY <1>1, AddingExists, DepthIsSum
  <1>3. \A s \in SUBSET Lot : f[s] = Sum(s, f)
    BY <1>2 DEF Adding
  <1> DEFINE Counts(s) == f[s] \in Nat /\ (f[s] = 0 => \A l \in s : ready[l] = 0)
             Bad == {s \in SUBSET Lot : ~Counts(s)}
  <1>4. ASSUME Bad # {}
        PROVE  FALSE
    <2>1. Bad \subseteq FiniteSubsetsOf(Lot)
      <3>1. \A s \in Bad : s \in SUBSET Lot /\ IsFiniteSet(s)
        BY OneLess
      <3> HIDE DEF Bad
      <3> QED BY <3>1 DEF FiniteSubsetsOf
    <2>2. PICK s \in Bad : \A t \in Bad : ~(<<t, s>> \in StrictSubsetOrdering(Lot))
      <3> HIDE DEF Bad
      <3> QED BY <1>4, <2>1, FS_StrictSubsetOrderingWellFounded, WFMin
    <2>3. s \in SUBSET Lot /\ ~Counts(s)
      OBVIOUS
    <2>4. s # {}
      <3>1. Sum({}, f) = 0 /\ {} \in SUBSET Lot
        BY DEF Sum
      <3>2. f[{}] = 0
        BY <1>3, <3>1
      <3> QED BY <2>3, <3>2
    <2> DEFINE t == s \ {Picked(s)}
    <2>5. Picked(s) \in s /\ t \in SUBSET Lot /\ t \subseteq s /\ t # s
      BY <2>3, <2>4, OneLess
    <2>6. <<t, s>> \in StrictSubsetOrdering(Lot)
      BY <2>3, <2>5 DEF StrictSubsetOrdering
    <2>7. Counts(t)
      BY <2>2, <2>5, <2>6
    <2>8. f[s] = ready[Picked(s)] + f[t] /\ ready[Picked(s)] \in Nat
      BY <1>3, <2>3, <2>4, <2>5 DEF Sum
    <2>9. \A l \in s : l \in t \/ l = Picked(s)
      OBVIOUS
    <2> QED
      <3> HIDE DEF t
      <3>1. f[t] \in Nat /\ (f[t] = 0 => \A l \in t : ready[l] = 0)
        BY <2>7
      <3>2. f[s] \in Nat /\ (f[s] = 0 => f[t] = 0 /\ ready[Picked(s)] = 0)
        BY <2>8, <3>1
      <3> QED BY <2>3, <2>9, <3>1, <3>2
  <1>5. Counts(Lot)
    BY <1>4
  <1> QED BY <1>2, <1>5

-----------------------------------------------------------------------------
(* The queue: at most one message of a lot waits                            *)

Counted == ready \in [Lot -> Nat] /\ extra \in [Lot -> Nat]

\* What waits of a lot is accounted for: another message does not make a storm.
Room(l) == ready[l] <= extra[l]

\* The next message of the lot: its job is pending or in the tick's batch ...
Due(l) == IF job[l] = "pending" \/ l \in tick.batch THEN 1 ELSE 0

\* ... and the one the tick is about to send, or about to give up for the next tick.
Going(l) ==
    IF /\ l \in tick.on
       /\ tick.pc \in {"look", "fetch"} \/ (tick.pc = "mark" /\ tick.as = "pending")
    THEN 1 ELSE 0

\* The messages to come count as those that wait.
NoneTooMany == \A l \in Lot : ready[l] + Due(l) + Going(l) <= 1 + extra[l]

\* A tick that has not picked its batch has none, only a lot taken is looked at, and
\* no mark makes a job disappear.
TickInOrder ==
    /\ tick.pc \in {"idle", "reap", "count", "seed", "pick"} => tick.batch = {}
    /\ tick.pc \in {"idle", "reap", "count", "seed", "pick", "take"} => tick.on = {}
    /\ tick.pc = "mark" => tick.as # "none"

\* A tick that may reap has seen an empty queue, or could not see it.
ReapsWithRoom == tick.reap /\ ~tick.blind => \A l \in Lot : Room(l)

\* The crawler has never sent a message of a lot without a job, but for those whose
\* row retention has dropped.
UntouchedHaveRoom ==
    \A l \in Lot : job[l] = "none" /\ l \notin purged
                      => Room(l) /\ l \notin tick.batch /\ l \notin tick.on

StormInv == NoneTooMany /\ TickInOrder /\ ReapsWithRoom /\ UntouchedHaveRoom

\* Retention deals with old lots only, which stay old, and deletes the row of a lot
\* after its gallery.
PurgedOld ==
    /\ purge.pc = "row" => purge.on \subseteq purged
    /\ \A l \in purge.lots : lot[l].age = "old"
    /\ \A l \in purged : lot[l].age = "old"

\* A step that is not the tick's: every message it adds has its reason, and so has a
\* job it makes pending, unless it is the first of its lot.
LEMMA OthersMove ==
    ASSUME PipeInv, Counted, Counted', StormInv,
           tick' \in {tick, NoTick}, purged \subseteq purged',
           \A l \in Lot : ready'[l] + extra[l] <= extra'[l] + ready[l],
           \A l \in Lot : job'[l] = "none" /\ l \notin purged' => job[l] = "none",
           \A l \in Lot : job'[l] = "pending" /\ job[l] # "pending" =>
               \/ ready'[l] + extra[l] + 1 <= extra'[l] + ready[l]
               \/ job[l] = "none" /\ l \notin purged
    PROVE  StormInv'
  <1> USE Blanks
  <1>0. \A l \in Lot : ready[l] \in Nat /\ extra[l] \in Nat /\ ready'[l] \in Nat
                       /\ extra'[l] \in Nat
    BY DEF Counted
  <1>1. \A l \in Lot : Room(l) => Room(l)'
    BY <1>0 DEF Room
  <1>2. tick' = NoTick => /\ tick'.batch = {} /\ tick'.on = {} /\ tick'.pc = "idle"
                          /\ tick'.reap = FALSE
    OBVIOUS
  <1>3. TickInOrder' /\ ReapsWithRoom'
    BY <1>1, <1>2 DEF StormInv, TickInOrder, ReapsWithRoom
  <1>4. UntouchedHaveRoom'
    BY <1>1, <1>2 DEF StormInv, UntouchedHaveRoom
  <1>5. ASSUME NEW l \in Lot
        PROVE  (ready[l] + Due(l) + Going(l) <= 1 + extra[l])'
    <2>1. ready[l] + Due(l) + Going(l) <= 1 + extra[l]
      BY DEF StormInv, NoneTooMany
    <2>2. Going(l) \in {0, 1} /\ Going(l)' \in {0, 1} /\ Due(l) \in {0, 1} /\ Due(l)' \in {0, 1}
      BY DEF Going, Due
    <2>3. Going(l)' <= Going(l)
      BY <1>2, <2>2 DEF Going
    <2>4. CASE job[l] = "none" /\ l \notin purged
      <3>1. Going(l) = 0 /\ Room(l)
        BY <2>4 DEF StormInv, UntouchedHaveRoom, Going
      <3> QED BY <1>0, <1>1, <2>2, <2>3, <3>1 DEF Room
    <2>5. CASE Due(l)' <= Due(l)
      BY <1>0, <2>1, <2>2, <2>3, <2>5
    <2>6. CASE ~(Due(l)' <= Due(l)) /\ ~(job[l] = "none" /\ l \notin purged)
      <3>1. Due(l)' = 1 /\ Due(l) = 0
        BY <2>2, <2>6
      <3>2. job'[l] = "pending" /\ job[l] # "pending"
        BY <1>2, <3>1 DEF Due
      <3>3. ready'[l] + extra[l] + 1 <= extra'[l] + ready[l]
        BY <2>6, <3>2
      <3> QED BY <1>0, <2>1, <2>2, <2>3, <3>1, <3>3
    <2> QED BY <2>4, <2>5, <2>6
  <1>6. NoneTooMany'
    BY <1>5 DEF NoneTooMany
  <1> QED BY <1>3, <1>4, <1>6 DEF StormInv

\* What the tick does to jobs and messages, lot by lot.
LEMMA TicksMove ==
    ASSUME PipeInv, Counted, Counted', StormInv, UNCHANGED purged,
           TickInOrder', ReapsWithRoom',
           \A l \in Lot : (ready[l] + Due(l) + Going(l) <= 1 + extra[l])',
           \A l \in Lot : ready'[l] > ready[l] => l \in tick.on,
           \A l \in Lot : extra'[l] >= extra[l],
           \A l \in Lot : job'[l] = "none" => job[l] = "none",
           tick'.batch \subseteq tick.batch \cup {l \in Lot : job[l] # "none"},
           tick'.on \subseteq tick.on \cup {l \in Lot : job[l] # "none"}
    PROVE  StormInv'
  <1>0. \A l \in Lot : ready[l] \in Nat /\ extra[l] \in Nat /\ ready'[l] \in Nat
                       /\ extra'[l] \in Nat
    BY DEF Counted
  <1>1. UntouchedHaveRoom'
    <2> SUFFICES ASSUME NEW l \in Lot, job'[l] = "none", l \notin purged'
                 PROVE  Room(l)' /\ l \notin tick'.batch /\ l \notin tick'.on
      BY DEF UntouchedHaveRoom
    <2>1. Room(l) /\ l \notin tick.batch /\ l \notin tick.on /\ job[l] = "none"
      BY DEF StormInv, UntouchedHaveRoom
    <2> QED BY <1>0, <2>1 DEF Room
  <1>2. NoneTooMany'
    BY DEF NoneTooMany
  <1> QED BY <1>1, <1>2 DEF StormInv

LEMMA ExcuseCounts ==
    ASSUME Counted, NEW S, Excuse(S)
    PROVE  /\ extra' \in [Lot -> Nat]
           /\ \A l \in Lot : extra'[l] = IF l \in S THEN extra[l] + 1 ELSE extra[l]
  BY DEF Counted, Excuse

LEMMA PublishCounts ==
    ASSUME Counted, NEW l \in Lot, Publish(l)
    PROVE  /\ ready' \in [Lot -> Nat]
           /\ ready'[l] = ready[l] + 1 /\ \A k \in Lot \ {l} : ready'[k] = ready[k]
  BY DEF Counted, Publish

\* Jobs of lots the tick has not touched get a status.
LEMMA SetOne ==
    ASSUME PipeInv, NEW S, NEW status, SetJobs(S, status)
    PROVE  \A l \in Lot : job'[l] = IF l \in S THEN status ELSE job[l]
  BY DEF SetJobs

LEMMA TickKeepsRoom ==
    ASSUME PipeInv, Counted, StormInv, PurgedOld, TickStart \/ TickStep
    PROVE  Counted' /\ StormInv'
  <1> USE Blanks
  <1>0. \A l \in Lot : ready[l] \in Nat /\ extra[l] \in Nat
    BY DEF Counted
  <1>a. \A l \in Lot : /\ Going(l) \in {0, 1} /\ Due(l) \in {0, 1}
                       /\ Going(l)' \in {0, 1} /\ Due(l)' \in {0, 1}
    BY DEF Going, Due
  <1>b. \A l \in Lot : ready[l] + Due(l) + Going(l) <= 1 + extra[l]
    BY DEF StormInv, NoneTooMany
  <1>c. ASSUME UNCHANGED ready, UNCHANGED extra
        PROVE  Counted' /\ \A l \in Lot : ready'[l] = ready[l] /\ extra'[l] = extra[l]
    BY <1>c DEF Counted
  <1>d. tick.batch \in SUBSET Lot /\ tick.on \in SUBSET Lot
    BY DEF PipeInv, Shapes
  <1>1. CASE TickStart
    <2>1. UNCHANGED <<job, ready, extra, purged>>
      BY <1>1 DEF TickStart
    <2>2. PICK n, r, b : /\ tick' = [NoTick EXCEPT !.pc = "reap", !.slots = n, !.reap = r, !.blind = b]
                         /\ r /\ ~b => Depth = 0
      <3>1. CASE tick' = [NoTick EXCEPT !.pc = "reap", !.slots = Slots(Depth),
                                    !.reap = MayReap(Depth)]
        <4>1. tick' = [NoTick EXCEPT !.pc = "reap", !.slots = Slots(Depth),
                                     !.reap = MayReap(Depth), !.blind = FALSE]
          BY <3>1 DEF NoTick
        <4> QED BY <4>1 DEF MayReap
      <3>2. CASE tick' = [NoTick EXCEPT !.pc = "reap", !.slots = LotsPerTick,
                                    !.reap = TRUE, !.blind = TRUE]
        BY <3>2
      <3> QED BY <1>1, <3>1, <3>2 DEF TickStart
    <2>3. /\ tick'.pc = "reap" /\ tick'.batch = {} /\ tick'.on = {}
          /\ tick'.reap = r /\ tick'.blind = b
      BY <2>2 DEF NoTick
    <2>4. TickInOrder'
      BY <2>3 DEF TickInOrder
    <2>5. ReapsWithRoom'
      <3>1. r /\ ~b => \A l \in Lot : ready[l] = 0
        BY <2>2, DepthCounts DEF Counted
      <3> QED BY <1>0, <2>1, <2>3, <3>1 DEF ReapsWithRoom, Room
    <2>6. \A l \in Lot : Due(l)' <= Due(l) /\ Going(l)' = 0
      BY <1>a, <2>1, <2>3 DEF Due, Going
    <2>7. \A l \in Lot : (ready[l] + Due(l) + Going(l) <= 1 + extra[l])'
      BY <1>0, <1>a, <1>b, <1>c, <2>1, <2>6
    <2> QED BY <1>0, <1>c, <2>1, <2>3, <2>4, <2>5, <2>7, TicksMove
  <1>2. CASE Reap
    <2>1. PICK S : /\ SetJobs(S, "pending") /\ (S # {} => tick.reap)
                   /\ \A l \in S : job[l] = "processing"
                   /\ IF tick.blind THEN Excuse(S) ELSE UNCHANGED extra
      BY <1>2 DEF Reap
    <2>2. UNCHANGED <<ready, purged>> /\ tick.pc = "reap"
          /\ tick' = [tick EXCEPT !.pc = "count", !.reap = FALSE]
      BY <1>2 DEF Reap
    <2>3. tick'.pc = "count" /\ tick'.batch = {} /\ tick'.on = {} /\ ~tick'.reap
          /\ tick.batch = {} /\ tick.on = {}
      BY <2>2 DEF PipeInv, Shapes, StormInv, TickInOrder
    <2>4. Counted' /\ \A l \in Lot : extra'[l] >= extra[l]
                                     /\ (tick.blind /\ l \in S => extra'[l] = extra[l] + 1)
      BY <1>0, <2>1, <2>2, ExcuseCounts DEF Counted
    <2>5. \A l \in Lot : job'[l] = IF l \in S THEN "pending" ELSE job[l]
      BY <2>1, SetOne
    <2>6. ASSUME NEW l \in Lot
          PROVE  (ready[l] + Due(l) + Going(l) <= 1 + extra[l])'
      <3>0. extra'[l] \in Nat /\ ready'[l] = ready[l]
        BY <2>2, <2>4 DEF Counted
      <3>1. Going(l)' = 0
        BY <2>3 DEF Going
      <3>2. CASE l \notin S
        <4>1. Due(l)' = Due(l)
          BY <2>3, <2>5, <3>2 DEF Due
        <4> QED BY <1>0, <1>a, <1>b, <2>4, <3>0, <3>1, <4>1
      <3>3. CASE l \in S /\ tick.blind
        BY <1>0, <1>a, <1>b, <2>4, <3>0, <3>1, <3>3
      <3>4. CASE l \in S /\ ~tick.blind
        <4>1. Room(l)
          BY <2>1, <3>4 DEF StormInv, ReapsWithRoom
        <4> QED BY <1>0, <1>a, <2>4, <3>0, <3>1, <4>1 DEF Room
      <3> QED BY <3>2, <3>3, <3>4
    <2>7. TickInOrder' /\ ReapsWithRoom'
      BY <2>3 DEF TickInOrder, ReapsWithRoom
    <2>8. \A l \in Lot : job'[l] = "none" => job[l] = "none"
      BY <2>5
    <2> QED BY <1>0, <2>2, <2>3, <2>4, <2>6, <2>7, <2>8, TicksMove
  <1>3. CASE CountPending
    <2>1. PICK pc \in {"seed", "pick"} : tick' = [tick EXCEPT !.pc = pc]
      BY <1>3 DEF CountPending
    <2>2. UNCHANGED <<job, ready, extra, purged>> /\ tick.pc = "count"
      BY <1>3 DEF CountPending
    <2>3. /\ tick'.pc = pc /\ tick'.batch = {} /\ tick'.on = {}
          /\ tick.batch = {} /\ tick.on = {}
          /\ tick'.reap = tick.reap /\ tick'.blind = tick.blind
      BY <2>1, <2>2 DEF PipeInv, Shapes, StormInv, TickInOrder
    <2>4. \A l \in Lot : Due(l)' = Due(l) /\ Going(l)' = 0
      BY <2>2, <2>3 DEF Due, Going
    <2>5. \A l \in Lot : (ready[l] + Due(l) + Going(l) <= 1 + extra[l])'
      BY <1>0, <1>a, <1>b, <1>c, <2>2, <2>4
    <2>6. TickInOrder' /\ ReapsWithRoom'
      BY <1>0, <1>c, <2>2, <2>3 DEF StormInv, TickInOrder, ReapsWithRoom, Room
    <2> QED BY <1>0, <1>c, <2>2, <2>3, <2>5, <2>6, TicksMove
  <1>4. CASE Seed
    <2>1. PICK C \in Some(Backlog, SeedBatch) : SetJobs(C, "pending")
      BY <1>4 DEF Seed
    <2>2. UNCHANGED <<ready, extra, purged>> /\ tick.pc = "seed"
          /\ tick' = [tick EXCEPT !.pc = "pick"]
      BY <1>4 DEF Seed
    <2>3. /\ tick'.pc = "pick" /\ tick'.batch = {} /\ tick'.on = {}
          /\ tick.batch = {} /\ tick.on = {}
          /\ tick'.reap = tick.reap /\ tick'.blind = tick.blind
      BY <2>2 DEF PipeInv, Shapes, StormInv, TickInOrder
    <2>4. \A l \in Lot : job'[l] = IF l \in C THEN "pending" ELSE job[l]
      BY <2>1, SetOne
    <2>5. \A l \in C : job[l] = "none" /\ l \notin purged /\ l \in Lot
      <3>1. C \subseteq Backlog
        BY DEF Some
      <3>2. \A l \in Backlog : job[l] = "none" /\ lot[l].age = "new" /\ l \in Lot
        BY DEF Backlog
      <3> QED BY <3>1, <3>2 DEF PurgedOld
    <2>6. ASSUME NEW l \in Lot
          PROVE  (ready[l] + Due(l) + Going(l) <= 1 + extra[l])'
      <3>1. Going(l)' = 0 /\ ready'[l] = ready[l] /\ extra'[l] = extra[l]
        BY <2>2, <2>3 DEF Going
      <3>2. CASE l \notin C
        <4>1. Due(l)' = Due(l)
          BY <2>3, <2>4, <3>2 DEF Due
        <4> QED BY <1>0, <1>a, <1>b, <3>1, <4>1
      <3>3. CASE l \in C
        <4>1. Room(l)
          BY <2>5, <3>3 DEF StormInv, UntouchedHaveRoom
        <4> QED BY <1>0, <1>a, <3>1, <4>1 DEF Room
      <3> QED BY <3>2, <3>3
    <2>7. TickInOrder' /\ ReapsWithRoom'
      BY <1>0, <1>c, <2>2, <2>3 DEF StormInv, TickInOrder, ReapsWithRoom, Room
    <2>8. \A l \in Lot : job'[l] = "none" => job[l] = "none"
      BY <2>4
    <2> QED BY <1>0, <1>c, <2>2, <2>3, <2>6, <2>7, <2>8, TicksMove
  <1>5. CASE Pick
    <2>1. PICK C \in Some(With("pending"), tick.slots) : Onward(C)
      BY <1>5 DEF Pick
    <2>2. C \in SUBSET Lot /\ \A l \in C : job[l] = "pending"
      BY DEF Some, With
    <2>3. UNCHANGED <<job, ready, extra, purged>> /\ tick.pc = "pick"
      BY <1>5 DEF Pick
    <2>4. /\ tick'.pc \in {"idle", "take"} /\ tick'.batch = C /\ tick'.on = {} /\ ~tick'.reap
          /\ tick'.pc = "idle" => C = {}
          /\ tick.batch = {} /\ tick.on = {}
      BY <2>1, <2>3 DEF Onward, NoTick, StormInv, TickInOrder
    <2>5. \A l \in Lot : Due(l)' = Due(l) /\ Going(l)' = 0
      BY <2>2, <2>3, <2>4 DEF Due, Going
    <2>6. \A l \in Lot : (ready[l] + Due(l) + Going(l) <= 1 + extra[l])'
      BY <1>0, <1>a, <1>b, <1>c, <2>3, <2>5
    <2>7. TickInOrder' /\ ReapsWithRoom'
      BY <2>4 DEF TickInOrder, ReapsWithRoom
    <2>8. tick'.batch \subseteq tick.batch \cup {l \in Lot : job[l] # "none"}
      BY <2>2, <2>4
    <2> QED BY <1>0, <1>c, <2>3, <2>4, <2>6, <2>7, <2>8, TicksMove
  <1>e. CASE tick' = NoTick /\ UNCHANGED <<job, ready, extra, purged>>
    <2>1. Counted' /\ \A l \in Lot : ready'[l] = ready[l] /\ extra'[l] = extra[l]
      BY <1>c, <1>e
    <2> QED BY <1>0, <1>e, <2>1, OthersMove
  <1>6. CASE Take
    <2>1. UNCHANGED <<ready, extra, purged>> /\ tick.pc = "take"
      BY <1>6 DEF Take
    <2>2. ASSUME NEW l \in tick.batch, job[l] # "none", SetJobs({l}, "processing"),
                 tick' = [tick EXCEPT !.pc = "look", !.on = {l}, !.batch = @ \ {l}]
          PROVE  Counted' /\ StormInv'
      <3>1. /\ tick'.pc = "look" /\ tick'.batch = tick.batch \ {l} /\ tick'.on = {l}
            /\ tick'.reap = tick.reap /\ tick'.blind = tick.blind /\ l \in Lot /\ tick.on = {}
        BY <2>1, <2>2, <1>d DEF PipeInv, Shapes, StormInv, TickInOrder
      <3>2. \A k \in Lot : job'[k] = IF k = l THEN "processing" ELSE job[k]
        BY <2>2, SetOne
      <3>3. ASSUME NEW k \in Lot
            PROVE  (ready[k] + Due(k) + Going(k) <= 1 + extra[k])'
        <4>0. ready'[k] = ready[k] /\ extra'[k] = extra[k]
          BY <2>1
        <4>1. CASE k # l
          <5>1. Due(k)' = Due(k) /\ Going(k)' = 0
            BY <3>1, <3>2, <4>1 DEF Due, Going
          <5> QED BY <1>0, <1>a, <1>b, <4>0, <5>1
        <4>2. CASE k = l
          <5>1. Due(k)' = 0 /\ Due(k) = 1
            BY <2>2, <3>1, <3>2, <4>2 DEF Due
          <5> QED BY <1>0, <1>a, <1>b, <4>0, <5>1
        <4> QED BY <4>1, <4>2
      <3>4. TickInOrder' /\ ReapsWithRoom'
        BY <1>0, <1>c, <2>1, <3>1 DEF StormInv, TickInOrder, ReapsWithRoom, Room
      <3>5. \A k \in Lot : job'[k] = "none" => job[k] = "none"
        BY <3>2
      <3>6. tick'.on \subseteq tick.on \cup {k \in Lot : job[k] # "none"}
        BY <2>2, <3>1
      <3>7. tick'.batch \subseteq tick.batch
        BY <3>1
      <3> QED BY <1>0, <1>c, <2>1, <3>3, <3>4, <3>5, <3>6, <3>7, TicksMove
    <2> QED BY <1>6, <1>e, <2>1, <2>2 DEF Take
  <1>7. CASE Look
    <2>1. UNCHANGED <<job, ready, extra, purged>> /\ tick.pc = "look"
      BY <1>7 DEF Look
    <2>2. PICK l \in tick.on : tick' = IF Cached(l) THEN [tick EXCEPT !.pc = "mark", !.as = "done"]
                                                   ELSE [tick EXCEPT !.pc = "fetch"]
      BY <1>7 DEF Look
    <2>3. /\ tick'.pc \in {"mark", "fetch"} /\ tick'.batch = tick.batch /\ tick'.on = tick.on
          /\ tick'.reap = tick.reap /\ tick'.blind = tick.blind
          /\ tick'.pc = "mark" => tick'.as = "done"
      BY <2>2 DEF PipeInv, Shapes
    <2>4. \A k \in Lot : Due(k)' = Due(k) /\ Going(k)' <= Going(k)
      <3>1. \A k \in Lot : Due(k)' = Due(k)
        BY <2>1, <2>3 DEF Due
      <3>2. \A k \in Lot : k \in tick.on => Going(k) = 1
        BY <2>1 DEF Going
      <3>3. \A k \in Lot : k \notin tick.on => Going(k)' = 0
        BY <2>3 DEF Going
      <3> QED BY <1>a, <3>1, <3>2, <3>3
    <2>5. \A k \in Lot : (ready[k] + Due(k) + Going(k) <= 1 + extra[k])'
      BY <1>0, <1>a, <1>b, <1>c, <2>1, <2>4
    <2>6. TickInOrder' /\ ReapsWithRoom'
      BY <1>0, <1>c, <2>1, <2>3 DEF StormInv, TickInOrder, ReapsWithRoom, Room
    <2> QED BY <1>0, <1>c, <2>1, <2>3, <2>5, <2>6, TicksMove
  <1>f. ASSUME Onward(tick.batch)
        PROVE  /\ tick'.batch = tick.batch /\ tick'.on = {} /\ ~tick'.reap
               /\ tick'.pc \in {"idle", "take"} /\ (tick'.pc = "idle" => tick'.batch = {})
               /\ TickInOrder' /\ ReapsWithRoom'
               /\ \A l \in Lot : Going(l)' = 0
    <2>1. /\ tick'.batch = tick.batch /\ tick'.on = {} /\ ~tick'.reap
          /\ tick'.pc \in {"idle", "take"} /\ (tick'.pc = "idle" => tick'.batch = {})
      BY <1>f DEF Onward, NoTick
    <2> QED BY <2>1 DEF TickInOrder, ReapsWithRoom, Going
  <1>g. \A l \in tick.on : tick.on = {l} /\ l \in Lot
    BY <1>d DEF PipeInv, OneAtATime
  <1>8. CASE Fetch
    <2>1. UNCHANGED <<job, purged>> /\ tick.pc = "fetch"
      BY <1>8 DEF Fetch
    <2>2. ASSUME NEW l \in tick.on, Publish(l), Onward(tick.batch),
                 IF tick.blind THEN Excuse({l}) ELSE UNCHANGED extra
          PROVE  Counted' /\ StormInv'
      <3>1. /\ ready' \in [Lot -> Nat] /\ ready'[l] = ready[l] + 1
            /\ \A k \in Lot \ {l} : ready'[k] = ready[k]
        BY <1>g, <2>2, PublishCounts
      <3>2. extra' \in [Lot -> Nat] /\ \A k \in Lot : extra'[k] >= extra[k]
        BY <1>0, <2>2, ExcuseCounts DEF Counted
      <3>3. Counted' /\ \A k \in Lot : extra'[k] \in Nat
        BY <3>1, <3>2 DEF Counted
      <3>4. \A k \in Lot : Due(k)' = Due(k)
        BY <1>f, <2>1, <2>2 DEF Due
      <3>5. Going(l) = 1
        BY <2>1 DEF Going
      <3>6. ASSUME NEW k \in Lot
            PROVE  (ready[k] + Due(k) + Going(k) <= 1 + extra[k])'
        <4>1. Going(k)' = 0 /\ Due(k)' = Due(k)
          BY <1>f, <2>2, <3>4
        <4>2. CASE k = l
          BY <1>0, <1>a, <1>b, <3>1, <3>2, <3>3, <3>5, <4>1, <4>2
        <4>3. CASE k # l
          BY <1>0, <1>a, <1>b, <3>1, <3>2, <3>3, <4>1, <4>3
        <4> QED BY <4>2, <4>3
      <3>7. \A k \in Lot : ready'[k] > ready[k] => k \in tick.on
        BY <1>0, <3>1
      <3> QED BY <1>f, <2>1, <2>2, <3>2, <3>3, <3>6, <3>7, TicksMove
    <2>3. ASSUME NEW as \in {"failed", "skipped", "pending"},
                 tick' = [tick EXCEPT !.pc = "mark", !.as = as],
                 UNCHANGED <<ready, extra>>
          PROVE  Counted' /\ StormInv'
      <3>1. /\ tick'.pc = "mark" /\ tick'.batch = tick.batch /\ tick'.on = tick.on
            /\ tick'.as # "none" /\ tick'.reap = tick.reap /\ tick'.blind = tick.blind
        BY <2>3 DEF PipeInv, Shapes
      <3>2. \A k \in Lot : Due(k)' = Due(k)
        BY <2>1, <3>1 DEF Due
      <3>3. \A k \in Lot : k \in tick.on => Going(k) = 1
        BY <2>1 DEF Going
      <3>4. \A k \in Lot : k \notin tick.on => Going(k)' = 0
        BY <3>1 DEF Going
      <3>5. \A k \in Lot : (ready[k] + Due(k) + Going(k) <= 1 + extra[k])'
        BY <1>0, <1>a, <1>b, <1>c, <2>3, <3>2, <3>3, <3>4
      <3>6. TickInOrder' /\ ReapsWithRoom'
        BY <1>0, <1>c, <2>1, <2>3, <3>1 DEF StormInv, TickInOrder, ReapsWithRoom, Room
      <3> QED BY <1>0, <1>c, <2>1, <2>3, <3>1, <3>5, <3>6, TicksMove
    <2> QED BY <1>8, <2>2, <2>3 DEF Fetch
  <1>9. CASE Mark
    <2>1. UNCHANGED <<ready, extra, purged>> /\ tick.pc = "mark"
      BY <1>9 DEF Mark
    <2>2. ASSUME NEW l \in tick.on, job[l] # "none", SetJobs({l}, tick.as), Onward(tick.batch)
          PROVE  Counted' /\ StormInv'
      <3>1. \A k \in Lot : job'[k] = IF k = l THEN tick.as ELSE job[k]
        BY <2>2, SetOne
      <3>2. \A k \in Lot : k # l => Due(k)' = Due(k)
        BY <1>f, <2>2, <3>1 DEF Due
      <3>3. Due(l)' <= Due(l) + Going(l)
        <4>1. CASE tick.as = "pending"
          <5>1. Going(l) = 1
            BY <2>1, <4>1 DEF Going
          <5> QED BY <1>a, <1>g, <5>1
        <4>2. CASE tick.as # "pending" /\ l \notin tick.batch
          <5>1. Due(l)' = 0
            BY <1>f, <1>g, <2>2, <3>1, <4>2 DEF Due
          <5> QED BY <1>a, <1>g, <5>1
        <4>3. CASE l \in tick.batch
          <5>1. Due(l) = 1
            BY <4>3 DEF Due
          <5> QED BY <1>a, <1>g, <5>1
        <4> QED BY <4>1, <4>2, <4>3
      <3>4. ASSUME NEW k \in Lot
            PROVE  (ready[k] + Due(k) + Going(k) <= 1 + extra[k])'
        <4>1. Going(k)' = 0 /\ ready'[k] = ready[k] /\ extra'[k] = extra[k]
          BY <1>f, <2>1, <2>2
        <4>2. Due(k)' <= Due(k) + Going(k)
          BY <1>a, <3>2, <3>3
        <4> QED BY <1>0, <1>a, <1>b, <4>1, <4>2
      <3>5. \A k \in Lot : job'[k] = "none" => job[k] = "none" \/ (k = l /\ tick.as = "none")
        BY <3>1
      <3>6. tick.as # "none"
        BY <2>1 DEF StormInv, TickInOrder
      <3>7. \A k \in Lot : job'[k] = "none" => job[k] = "none"
        BY <3>5, <3>6
      <3> QED BY <1>0, <1>c, <1>f, <2>1, <2>2, <3>4, <3>7, TicksMove
    <2> QED BY <1>9, <1>e, <2>1, <2>2 DEF Mark
  <1> QED
    BY <1>1, <1>2, <1>3, <1>4, <1>5, <1>6, <1>7, <1>8, <1>9 DEF TickStep

\* Neither jobs nor messages change, or jobs change otherwise than by getting pending,
\* and by getting lost only to retention.
LEMMA RoomUndisturbed ==
    ASSUME PipeInv, Counted, StormInv, UNCHANGED <<ready, extra>>,
           tick' \in {tick, NoTick}, purged \subseteq purged',
           \/ UNCHANGED job
           \/ \E S : SetJobs(S, "none") /\ S \subseteq purged
           \/ \E S : SetJobs(S, "done") \/ SetJobs(S, "failed")
    PROVE  Counted' /\ StormInv'
  <1>1. Counted' /\ \A l \in Lot : ready[l] \in Nat /\ extra[l] \in Nat
    BY DEF Counted
  <1>2. \A l \in Lot : job'[l] = "pending" => job[l] = "pending"
    BY DEF SetJobs
  <1>3. \A l \in Lot : job'[l] = "none" /\ l \notin purged' => job[l] = "none"
    BY DEF SetJobs
  <1>4. \A l \in Lot : ready'[l] + extra[l] <= extra'[l] + ready[l]
    BY <1>1
  <1> QED BY <1>1, <1>2, <1>3, <1>4, OthersMove

\* Jobs get pending and have a reason, or are the first of their lots.
LEMMA RoomPending ==
    ASSUME PipeInv, Counted, StormInv, UNCHANGED <<ready, tick, purged>>,
           NEW S, NEW T, SetJobs(S, "pending"), Excuse(T),
           \A l \in S : l \in T \/ (job[l] = "none" /\ l \notin purged)
    PROVE  Counted' /\ StormInv'
  <1>1. /\ Counted' /\ \A l \in Lot : ready[l] \in Nat /\ extra[l] \in Nat /\ extra'[l] \in Nat
        /\ \A l \in Lot : extra'[l] = IF l \in T THEN extra[l] + 1 ELSE extra[l]
    BY ExcuseCounts DEF Counted
  <1>2. \A l \in Lot : job'[l] = IF l \in S THEN "pending" ELSE job[l]
    BY SetOne
  <1>3. \A l \in Lot : ready'[l] + extra[l] <= extra'[l] + ready[l]
                       /\ (l \in T => ready'[l] + extra[l] + 1 <= extra'[l] + ready[l])
    BY <1>1
  <1>4. ASSUME NEW l \in Lot, job'[l] = "pending", job[l] # "pending"
        PROVE  \/ ready'[l] + extra[l] + 1 <= extra'[l] + ready[l]
               \/ job[l] = "none" /\ l \notin purged
    <2>1. l \in S
      BY <1>2, <1>4
    <2>2. l \in T \/ (job[l] = "none" /\ l \notin purged)
      BY <2>1
    <2> QED BY <1>3, <2>2
  <1>5. \A l \in Lot : job'[l] = "none" /\ l \notin purged' => job[l] = "none"
    BY <1>2
  <1> QED BY <1>1, <1>3, <1>4, <1>5, OthersMove

\* Messages go, or come back with a reason.
LEMMA RoomQueued ==
    ASSUME PipeInv, Counted, Counted', StormInv, UNCHANGED <<job, purged>>,
           tick' \in {tick, NoTick},
           \A l \in Lot : ready'[l] + extra[l] <= extra'[l] + ready[l]
    PROVE  StormInv'
  BY OthersMove

\* What a consumer or the broker had in hand is counted.
LEMMA RequeueCounts ==
    ASSUME Counted, Requeue
    PROVE  Counted' /\ \A l \in Lot : ready'[l] + extra[l] <= extra'[l] + ready[l]
  <1> DEFINE held(l) == Cardinality({s \in Slot : hand[s].on = {l} /\ hand[s].mine})
  <1>1. \A l \in Lot : held(l) \in Nat
    <2> SUFFICES ASSUME NEW l \in Lot PROVE held(l) \in Nat
      OBVIOUS
    <2>1. IsFiniteSet(Slot)
      BY JobsAssumption
    <2>2. {s \in Slot : hand[s].on = {l} /\ hand[s].mine} \subseteq Slot
      OBVIOUS
    <2>3. IsFiniteSet({s \in Slot : hand[s].on = {l} /\ hand[s].mine})
      BY <2>1, <2>2, FS_Subset
    <2> QED BY <2>3, FS_CardinalityType
  <1>2. /\ ready' = [l \in Lot |-> ready[l] + held(l)]
        /\ extra' = [l \in Lot |-> extra[l] + held(l)]
    BY DEF Requeue
  <1> HIDE DEF held
  <1>3. \A l \in Lot : ready[l] \in Nat /\ extra[l] \in Nat
    BY DEF Counted
  <1>4. Counted'
    BY <1>1, <1>2, <1>3 DEF Counted
  <1> QED BY <1>1, <1>2, <1>3, <1>4

LEMMA HandsKeepRoom ==
    ASSUME PipeInv, Counted, StormInv, NEW s \in Slot,
           HandStep(s) \/ HandlerError(s) \/ \E l \in Lot : Deliver(s, l)
    PROVE  Counted' /\ StormInv'
  <1>0. hand[s] \in Delivery
    BY DEF PipeInv, Shapes
  <1>1. ASSUME NEW l \in Lot, ready[l] > 0, ready' = [ready EXCEPT ![l] = @ - 1],
               UNCHANGED <<job, extra, tick, purged>>
        PROVE  Counted' /\ StormInv'
    <2>1. /\ Counted' /\ \A k \in Lot : ready[k] \in Nat /\ extra[k] \in Nat /\ extra'[k] = extra[k]
          /\ ready'[l] = ready[l] - 1 /\ \A k \in Lot \ {l} : ready'[k] = ready[k]
      BY <1>1 DEF Counted
    <2>2. \A k \in Lot : ready'[k] + extra[k] <= extra'[k] + ready[k]
      BY <2>1
    <2> QED BY <1>1, <2>1, <2>2, RoomQueued
  <1>2. ASSUME NEW l \in Lot, Deliver(s, l)
        PROVE  Counted' /\ StormInv'
    BY <1>1, <1>2 DEF Deliver
  <1>3. CASE CheckCached(s) \/ Upload(s) \/ HandlerError(s)
    BY <1>3, RoomUndisturbed DEF CheckCached, Upload, HandlerError
  <1>4. CASE Finalize(s)
    <2>1. UNCHANGED <<ready, extra, tick, purged>>
      BY <1>4 DEF Finalize
    <2>2. hand[s].as \in {"done", "failed"}
      BY <1>0 DEF Delivery
    <2>3. UNCHANGED job \/ \E S : SetJobs(S, hand[s].as)
      BY <1>4 DEF Finalize
    <2> QED BY <2>1, <2>2, <2>3, RoomUndisturbed
  <1>5. CASE Ack(s)
    <2>1. CASE hand[s].mine
      BY <1>5, <2>1, RoomUndisturbed DEF Ack
    <2>2. CASE ~hand[s].mine
      BY <1>5, <2>2, RequeueCounts, RoomQueued DEF Ack, ConsumerDies
    <2> QED BY <2>1, <2>2
  <1> QED BY <1>2, <1>3, <1>4, <1>5 DEF HandStep

LEMMA FaultsKeepRoom ==
    ASSUME PipeInv, Counted, StormInv, FaultStep
    PROVE  Counted' /\ StormInv'
  <1>1. CASE ConsumerCrash
    BY <1>1, RequeueCounts, RoomQueued DEF ConsumerCrash, ConsumerDies
  <1>2. CASE Disconnect
    BY <1>2, RequeueCounts, RoomQueued DEF Disconnect
  <1>3. ASSUME NEW l \in Lot, Lose(l)
        PROVE  Counted' /\ StormInv'
    <2>1. /\ Counted' /\ \A k \in Lot : ready[k] \in Nat /\ extra[k] \in Nat /\ extra'[k] = extra[k]
          /\ ready'[l] = ready[l] - 1 /\ \A k \in Lot \ {l} : ready'[k] = ready[k]
      BY <1>3 DEF Lose, Counted
    <2>2. \A k \in Lot : ready'[k] + extra[k] <= extra'[k] + ready[k]
      BY <2>1
    <2> QED BY <1>3, <2>1, <2>2, RoomQueued DEF Lose
  <1> QED BY <1>1, <1>2, <1>3, HandsKeepRoom DEF FaultStep

\* Staff and readers account for their messages and jobs; time changes neither.
LEMMA PeopleKeepRoom ==
    ASSUME PipeInv, Counted, StormInv, PeopleStep \/ \E l \in Lot : JobAges(l) \/ LotAges(l)
    PROVE  Counted' /\ StormInv'
  <1>1. ASSUME NEW l \in Lot, RetryJob(l)
        PROVE  Counted' /\ StormInv'
    BY <1>1, RoomPending DEF RetryJob
  <1>2. CASE RetryFailed
    <2>1. PICK S : SetJobs(S, "pending") /\ Excuse(S)
      BY <1>2 DEF RetryFailed
    <2> QED BY <1>2, <2>1, RoomPending DEF RetryFailed
  <1>3. ASSUME NEW l \in Lot, OnDemand(l)
        PROVE  Counted' /\ StormInv'
    <2>1. Publish(l) /\ Excuse({l}) /\ UNCHANGED <<job, tick, purged>>
      BY <1>3 DEF OnDemand
    <2>2. Counted' /\ \A k \in Lot : ready[k] \in Nat /\ extra[k] \in Nat
      BY <2>1, PublishCounts, ExcuseCounts DEF Counted
    <2>3. \A k \in Lot : ready'[k] + extra[k] <= extra'[k] + ready[k]
      <3>1. /\ ready'[l] = ready[l] + 1 /\ extra'[l] = extra[l] + 1
            /\ \A k \in Lot \ {l} : ready'[k] = ready[k] /\ extra'[k] = extra[k]
        BY <2>1, PublishCounts, ExcuseCounts
      <3> QED BY <2>2, <3>1
    <2> QED BY <2>1, <2>2, <2>3, RoomQueued
  <1>4. ASSUME NEW l \in Lot, TogglePause \/ Want(l) \/ JobAges(l) \/ LotAges(l)
        PROVE  Counted' /\ StormInv'
    BY <1>4, RoomUndisturbed DEF TogglePause, Want, JobAges, LotAges
  <1>5. CASE TogglePause
    BY <1>5, RoomUndisturbed DEF TogglePause
  <1> QED BY <1>1, <1>2, <1>3, <1>4, <1>5 DEF PeopleStep

LEMMA PurgeKeepsRoom ==
    ASSUME PipeInv, Counted, StormInv, PurgedOld, PurgeRead \/ PurgeStep
    PROVE  Counted' /\ StormInv'
  <1>1. UNCHANGED <<ready, extra, tick>> /\ purged \subseteq purged'
    BY DEF PurgeRead, PurgeStep, PurgeProtect, PurgePointer, PurgeRow
  <1>2. CASE PurgeRow
    <2>1. purge.on \subseteq purged
      BY <1>2 DEF PurgeRow, PurgedOld
    <2>2. UNCHANGED job \/ SetJobs(purge.on, "none")
      BY <1>2 DEF PurgeRow
    <2> QED BY <1>1, <2>1, <2>2, RoomUndisturbed
  <1>3. CASE PurgeRead \/ PurgeProtect \/ PurgePointer
    <2>1. UNCHANGED job
      BY <1>3 DEF PurgeRead, PurgeProtect, PurgePointer
    <2> QED BY <1>1, <2>1, RoomUndisturbed
  <1> QED BY <1>2, <1>3 DEF PurgeStep

\* Lots do not get younger, and retention deals with old ones.
LEMMA PurgeAges ==
    ASSUME PipeInv, PurgedOld, UNCHANGED purged, purge' \in {purge, NoPurge},
           \A l \in Lot : lot[l].age = "old" => lot'[l].age = "old"
    PROVE  PurgedOld'
  <1>1. purge.lots \in SUBSET Lot /\ purged \in SUBSET Lot
    BY DEF PipeInv, Shapes, Purge
  <1>2. purge' = NoPurge => purge'.pc = "idle" /\ purge'.lots = {}
    BY Blanks
  <1>3. \A l \in Lot : l \in purge'.lots => l \in purge.lots
    BY <1>2
  <1>4. purge'.pc = "row" => purge'.on \subseteq purged'
    BY <1>2 DEF PurgedOld
  <1>5. \A l \in purge'.lots : lot'[l].age = "old"
    BY <1>1, <1>2 DEF PurgedOld
  <1>6. \A l \in purged' : lot'[l].age = "old"
    BY <1>1 DEF PurgedOld
  <1> QED BY <1>4, <1>5, <1>6 DEF PurgedOld

LEMMA PurgeKeepsOld ==
    ASSUME PipeInv, PurgedOld, PurgeRead \/ PurgeStep
    PROVE  PurgedOld'
  <1>0. /\ lot \in [Lot -> Listing] /\ purge \in Purge /\ purge.lots \in SUBSET Lot
        /\ purged \in SUBSET Lot
    BY DEF PipeInv, Shapes, Purge
  <1>1. ASSUME NEW lots \in SUBSET purge.lots, PurgeOn(lots), UNCHANGED <<lot, purged>>
        PROVE  PurgedOld'
    <2>1. purge'.lots \subseteq purge.lots /\ purge'.pc # "row"
      <3>1. CASE lots = {}
        BY <1>1, <3>1, Blanks DEF PurgeOn
      <3>2. CASE lots # {}
        BY <1>0, <1>1, <3>2 DEF PurgeOn, Purge
      <3> QED BY <3>1, <3>2
    <2> QED BY <1>1, <2>1 DEF PurgedOld
  <1>2. CASE PurgeRead
    <2>1. /\ purge'.pc = "protect" /\ purge'.lots = Eligible /\ UNCHANGED <<lot, purged>>
      BY <1>2 DEF PurgeRead, NoPurge
    <2> QED BY <2>1 DEF PurgedOld, Eligible
  <1>3. CASE PurgeProtect
    BY <1>1, <1>3 DEF PurgeProtect
  <1>4. CASE PurgePointer
    <2>1. ASSUME NEW l \in purge.lots, lot' = [lot EXCEPT ![l].cached = FALSE],
                 purged' = purged \cup {l},
                 purge' = [purge EXCEPT !.pc = "row", !.on = {l}, !.lots = @ \ {l}]
          PROVE  PurgedOld'
      <3>1. purge'.pc = "row" /\ purge'.on = {l} /\ purge'.lots = purge.lots \ {l}
        BY <1>0, <2>1 DEF Purge
      <3>2. l \in Lot /\ lot[l] \in Listing
        BY <1>0
      <3>3. [lot[l] EXCEPT !.cached = FALSE].age = lot[l].age
        BY <3>2 DEF Listing
      <3>4. lot' = [lot EXCEPT ![l] = [lot[l] EXCEPT !.cached = FALSE]]
        BY <1>0, <2>1, <3>2
      <3>5. \A k \in Lot : lot'[k].age = lot[k].age
        BY <1>0, <3>2, <3>3, <3>4
      <3> QED BY <1>0, <2>1, <3>1, <3>5 DEF PurgedOld
    <2> QED BY <1>1, <1>4, <2>1 DEF PurgePointer
  <1>5. CASE PurgeRow
    BY <1>1, <1>5 DEF PurgeRow
  <1> QED BY <1>2, <1>3, <1>4, <1>5 DEF PurgeStep

\* Nobody else makes a lot younger or touches the retention run, but for ending it.
LEMMA LotsAge ==
    ASSUME PipeInv, SyncNext, ~PurgeRead, ~PurgeStep
    PROVE  /\ purge' \in {purge, NoPurge} /\ UNCHANGED purged
           /\ \A l \in Lot : lot[l].age = "old" => lot'[l].age = "old"
  <1>0. lot \in [Lot -> Listing]
    BY DEF PipeInv, Shapes
  <1>1. ASSUME UNCHANGED lot
        PROVE  \A l \in Lot : lot[l].age = "old" => lot'[l].age = "old"
    BY <1>1
  <1>2. ASSUME NEW f \in [Lot -> Listing], lot' = f, \A l \in Lot : f[l].age = lot[l].age
        PROVE  \A l \in Lot : lot[l].age = "old" => lot'[l].age = "old"
    BY <1>2
  <1>3. ASSUME NEW s \in Slot, Upload(s)
        PROVE  \A l \in Lot : lot[l].age = "old" => lot'[l].age = "old"
    <2>1. ASSUME NEW l \in hand[s].on, lot' = [lot EXCEPT ![l].cached = TRUE]
          PROVE  \A k \in Lot : lot'[k].age = lot[k].age
      <3>1. l \in Lot /\ lot[l] \in Listing
        BY <1>0 DEF PipeInv, Shapes, Delivery
      <3>2. [lot[l] EXCEPT !.cached = TRUE].age = lot[l].age
        BY <3>1 DEF Listing
      <3>3. lot' = [lot EXCEPT ![l] = [lot[l] EXCEPT !.cached = TRUE]]
        BY <1>0, <2>1, <3>1
      <3> QED BY <1>0, <3>1, <3>2, <3>3
    <2> QED BY <1>3, <2>1 DEF Upload
  <1>4. ASSUME NEW l \in Lot, Want(l)
        PROVE  \A k \in Lot : lot[k].age = "old" => lot'[k].age = "old"
    <2>1. lot' = [lot EXCEPT ![l] = [lot[l] EXCEPT !.wanted = TRUE]]
      BY <1>4 DEF Want
    <2>2. [lot[l] EXCEPT !.wanted = TRUE].age = lot[l].age
      BY <1>0 DEF Listing
    <2> QED BY <1>0, <2>1, <2>2
  <1>5. ASSUME NEW l \in Lot, LotAges(l)
        PROVE  \A k \in Lot : lot[k].age = "old" => lot'[k].age = "old"
    <2>1. PICK age : lot' = [lot EXCEPT ![l] = [lot[l] EXCEPT !.age = age]]
      BY <1>5 DEF LotAges
    <2>2. lot[l].age # "old"
      BY <1>5 DEF LotAges
    <2> QED BY <1>0, <2>1, <2>2
  <1>6. ASSUME NEW r \in Runner, Map(r)
        PROVE  \A k \in Lot : lot[k].age = "old" => lot'[k].age = "old"
    <2>1. lot' = [l \in Lot |-> IF l \in staging
                                THEN [lot[l] EXCEPT !.known = TRUE, !.stale = FALSE]
                                ELSE lot[l]]
      BY <1>6 DEF Map
    <2>2. \A l \in Lot : [lot[l] EXCEPT !.known = TRUE, !.stale = FALSE].age = lot[l].age
      BY <1>0 DEF Listing
    <2> QED BY <2>1, <2>2
  <1>7. ASSUME NEW r \in Runner, Sweep(r)
        PROVE  \A k \in Lot : lot[k].age = "old" => lot'[k].age = "old"
    <2>1. lot' = [l \in Lot |-> IF l \in Gone THEN [lot[l] EXCEPT !.stale = TRUE] ELSE lot[l]]
      BY <1>7 DEF Sweep
    <2>2. \A l \in Lot : [lot[l] EXCEPT !.stale = TRUE].age = lot[l].age
      BY <1>0 DEF Listing
    <2> QED BY <2>1, <2>2
  <1>8. CASE JobsStep
    <2>1. CASE TickStart \/ TickStep
      BY <1>1, <2>1 DEF TickStart, TickStep, Reap, CountPending, Seed, Pick, Take, Look, Fetch, Mark
    <2>2. ASSUME NEW s \in Slot, HandStep(s)
          PROVE  /\ UNCHANGED <<purge, purged>>
                 /\ \A l \in Lot : lot[l].age = "old" => lot'[l].age = "old"
      <3>1. UNCHANGED <<purge, purged>>
        BY <2>2 DEF HandStep, CheckCached, Upload, Finalize, Ack
      <3>2. UNCHANGED lot \/ Upload(s)
        BY <2>2 DEF HandStep, CheckCached, Finalize, Ack
      <3> QED BY <1>1, <1>3, <3>1, <3>2
    <2>3. ASSUME NEW s \in Slot, NEW l \in Lot, Deliver(s, l)
          PROVE  UNCHANGED <<purge, purged, lot>>
      BY <2>3 DEF Deliver
    <2>4. CASE FaultStep
      BY <1>1, <2>4 DEF FaultStep, ConsumerCrash, Disconnect, HandlerError, Lose
    <2>5. CASE PeopleStep
      <3>1. UNCHANGED <<purge, purged>>
        BY <2>5 DEF PeopleStep, RetryFailed, TogglePause, RetryJob, OnDemand, Want
      <3>2. UNCHANGED lot \/ \E l \in Lot : Want(l)
        BY <2>5 DEF PeopleStep, RetryFailed, TogglePause, RetryJob, OnDemand
      <3> QED BY <1>1, <1>4, <3>1, <3>2
    <2>6. ASSUME NEW l \in Lot, JobAges(l)
          PROVE  UNCHANGED <<purge, purged, lot>>
      BY <2>6 DEF JobAges
    <2>7. ASSUME NEW l \in Lot, LotAges(l)
          PROVE  UNCHANGED <<purge, purged>>
      BY <2>7 DEF LotAges
    <2> QED BY <1>1, <1>5, <1>8, <2>1, <2>2, <2>3, <2>4, <2>5, <2>6, <2>7 DEF JobsStep
  <1>9. ASSUME CrawlerDies
        PROVE  UNCHANGED <<lot, purged>> /\ purge' = NoPurge
    BY <1>9 DEF CrawlerDies
  <1>10. CASE SyncCrash
    BY <1>1, <1>9, <1>10 DEF SyncCrash, SyncDies
  <1>11. CASE SyncBoots
    BY <1>1, <1>11 DEF SyncBoots, ContainerRestarts
  <1>12. ASSUME NEW r \in Runner, Settle(r)
         PROVE  UNCHANGED <<lot, purged>> /\ purge' \in {purge, NoPurge}
    BY <1>9, <1>12 DEF Settle, SyncDies
  <1>13. ASSUME NEW r \in Runner, RunStep(r), ~Settle(r)
         PROVE  UNCHANGED <<purge, purged>> /\ (UNCHANGED lot \/ Map(r) \/ Sweep(r))
    BY <1>13 DEF RunStep, TryLock, Download, Empty, Stage, Map, Ask, Enqueue, Sweep, Wipe,
                 IndexPage, IndexDone, Finish, Fail, Unlock, DropIndex, CreateIndex, jobsVars
  <1>14. ASSUME NEW r \in Runner, CronFires(r) \/ Throws(r) \/ TriggerRequeued(r) \/ LockLost(r)
         PROVE  UNCHANGED <<lot, purge, purged>>
    BY <1>14 DEF CronFires, Throws, TriggerRequeued, LockLost, jobsVars
  <1>15. ASSUME NEW k \in Kind, Publishes(k) \/ \E r \in Consumer : Receive(r, k)
         PROVE  UNCHANGED <<lot, purge, purged>>
    BY <1>15 DEF Publishes, Receive, jobsVars
  <1>16. HoursPass \/ DayAndNight \/ Watchdog => UNCHANGED <<lot, purge, purged>>
    BY DEF HoursPass, DayAndNight, Watchdog, jobsVars
  <1> QED
    BY <1>1, <1>6, <1>7, <1>8, <1>10, <1>11, <1>12, <1>13, <1>14, <1>15, <1>16 DEF SyncNext

QueueInv == Counted /\ StormInv /\ PurgedOld

LEMMA QueueUndisturbed ==
    ASSUME PipeInv, QueueInv, UNCHANGED jobsVars
    PROVE  QueueInv'
  <1>1. Counted' /\ StormInv'
    BY RoomUndisturbed DEF jobsVars, QueueInv
  <1>2. PurgedOld'
    BY PurgeAges DEF jobsVars, QueueInv
  <1> QED BY <1>1, <1>2 DEF QueueInv

LEMMA QueueKeeps ==
    ASSUME PipeInv, QueueInv, SyncNext
    PROVE  QueueInv'
  <1>0. Counted /\ StormInv /\ PurgedOld
    BY DEF QueueInv
  <1>1. PurgedOld'
    BY <1>0, PurgeKeepsOld, LotsAge, PurgeAges
  <1> SUFFICES Counted' /\ StormInv'
    BY <1>1 DEF QueueInv
  <1>2. CASE JobsStep
    <2>1. ASSUME NEW s \in Slot, HandStep(s) \/ \E l \in Lot : Deliver(s, l)
          PROVE  Counted' /\ StormInv'
      BY <1>0, <2>1, HandsKeepRoom
    <2> QED
      BY <1>0, <1>2, <2>1, TickKeepsRoom, FaultsKeepRoom, PeopleKeepRoom, PurgeKeepsRoom
      DEF JobsStep
  <1>3. ASSUME CrawlerDies
        PROVE  Counted' /\ StormInv'
    BY <1>0, <1>3, RoomUndisturbed DEF CrawlerDies
  <1>4. CASE SyncBoots
    <2>1. /\ Requeue /\ tick' = NoTick /\ UNCHANGED <<job, purged>>
      BY <1>4 DEF SyncBoots, ContainerRestarts
    <2> QED BY <1>0, <2>1, RequeueCounts, RoomQueued
  <1>5. ASSUME NEW r \in Runner, Enqueue(r)
        PROVE  Counted' /\ StormInv'
    <2>1. UNCHANGED <<ready, tick, purged>>
      BY <1>5 DEF Enqueue
    <2>2. CASE UNCHANGED <<job, extra>>
      BY <1>0, <2>1, <2>2, RoomUndisturbed
    <2>3. ASSUME NEW new, new = {l \in run[r].rest : job[l] = "none"},
                 SetJobs(new, "pending"), Excuse(new \cap purged)
          PROVE  Counted' /\ StormInv'
      <3>1. \A l \in new : l \in new \cap purged \/ (job[l] = "none" /\ l \notin purged)
        BY <2>3
      <3> QED BY <1>0, <2>1, <2>3, <3>1, RoomPending
    <2> QED BY <1>5, <2>2, <2>3 DEF Enqueue
  <1>6. ASSUME NEW r \in Runner, Settle(r)
        PROVE  Counted' /\ StormInv'
    <2>1. CASE run[r].mine
      BY <1>0, <1>6, <2>1, RoomUndisturbed DEF Settle
    <2>2. CASE ~run[r].mine
      BY <1>3, <1>6, <2>2 DEF Settle, SyncDies
    <2> QED BY <2>1, <2>2
  <1>7. CASE SyncCrash
    BY <1>3, <1>7 DEF SyncCrash, SyncDies
  <1>8. ASSUME UNCHANGED <<job, ready, tick, extra, purged>>
        PROVE  Counted' /\ StormInv'
    BY <1>0, <1>8, RoomUndisturbed
  <1>9. ASSUME NEW r \in Runner, RunStep(r), ~Enqueue(r), ~Settle(r)
        PROVE  UNCHANGED <<job, ready, tick, extra, purged>>
    BY <1>9 DEF RunStep, TryLock, Download, Empty, Stage, Map, Ask, Sweep, Wipe, IndexPage,
                IndexDone, Finish, Fail, Unlock, DropIndex, CreateIndex, jobsVars
  <1>10. ASSUME NEW r \in Runner, CronFires(r) \/ Throws(r) \/ TriggerRequeued(r) \/ LockLost(r)
         PROVE  UNCHANGED <<job, ready, tick, extra, purged>>
    BY <1>10 DEF CronFires, Throws, TriggerRequeued, LockLost, jobsVars
  <1>11. ASSUME NEW k \in Kind, Publishes(k) \/ \E r \in Consumer : Receive(r, k)
         PROVE  UNCHANGED <<job, ready, tick, extra, purged>>
    BY <1>11 DEF Publishes, Receive, jobsVars
  <1>12. HoursPass \/ DayAndNight \/ Watchdog => UNCHANGED <<job, ready, tick, extra, purged>>
    BY DEF HoursPass, DayAndNight, Watchdog, jobsVars
  <1> QED
    BY <1>2, <1>4, <1>5, <1>6, <1>7, <1>8, <1>9, <1>10, <1>11, <1>12 DEF SyncNext

LEMMA QueueInit == JobsInit => QueueInv
  <1> SUFFICES ASSUME JobsInit
      PROVE  QueueInv
    OBVIOUS
  <1>1. /\ job = [l \in Lot |-> "none"] /\ ready = [l \in Lot |-> 0]
        /\ extra = [l \in Lot |-> 0] /\ tick = NoTick /\ purge = NoPurge /\ purged = {}
    BY DEF JobsInit
  <1>2. /\ tick.pc = "idle" /\ tick.batch = {} /\ tick.on = {} /\ ~tick.reap
        /\ purge.pc = "idle" /\ purge.lots = {}
    BY <1>1, Blanks
  <1>3. Counted /\ PurgedOld
    BY <1>1, <1>2 DEF Counted, PurgedOld
  <1>4. \A l \in Lot : Room(l) /\ Due(l) = 0 /\ Going(l) = 0 /\ ready[l] = 0 /\ extra[l] = 0
    BY <1>1, <1>2 DEF Room, Due, Going
  <1>5. StormInv
    BY <1>2, <1>4 DEF StormInv, NoneTooMany, TickInOrder, ReapsWithRoom, UntouchedHaveRoom
  <1> QED BY <1>3, <1>5 DEF QueueInv

\* What waits, what is about to be sent and what may be sent next are accounted for
\* throughout.
THEOREM QueueHolds == SyncSpec => []QueueInv
  <1>1. JobsInit => QueueInv
    BY QueueInit
  <1>2. PipeInv /\ QueueInv /\ [SyncNext]_<<jobsVars, syncVars>> => QueueInv'
    BY QueueKeeps, QueueUndisturbed
  <1> QED BY <1>1, <1>2, PipeHolds, PTL DEF SyncSpec

\* For any lots, messages in hand, rates and batches: at most one message of a lot
\* waits in the queue, but for those that a redelivery, a retry of staff, a reader, a
\* tick that could not see the queue or an import after retention accounts for.
THEOREM NoStorm == SyncSpec => []NoDuplicateStorm
  <1>1. QueueInv => NoDuplicateStorm
    <2> SUFFICES ASSUME QueueInv, NEW l \in Lot
                 PROVE  ready[l] <= 1 + extra[l]
      BY DEF NoDuplicateStorm
    <2>1. ready[l] \in Nat /\ extra[l] \in Nat /\ ready[l] + Due(l) + Going(l) <= 1 + extra[l]
      BY DEF QueueInv, Counted, StormInv, NoneTooMany
    <2>2. Due(l) \in {0, 1} /\ Going(l) \in {0, 1}
      BY DEF Due, Going
    <2> QED BY <2>1, <2>2
  <1> QED BY <1>1, QueueHolds, PTL

-----------------------------------------------------------------------------
(* The import: a run maps the feed it downloaded                            *)

RunShapes == run \in [Runner -> Run] /\ lock \in SUBSET Runner /\ staging \in SUBSET Lot

\* Where a run has the lock to itself.
Inside == {"download", "empty", "stage", "map", "ask", "enqueue", "sweep", "wipe"}

\* What the staging table holds as a run goes on, if nobody else writes it.
Staged(r) ==
    /\ At(r, "empty") => run[r].rest = run[r].feed
    /\ At(r, "stage") => /\ run[r].rest \subseteq run[r].feed
                         /\ staging = run[r].feed \ run[r].rest
    /\ At(r, "map") => staging = run[r].feed

\* One run at a time has the lock and works between download and wipe.
Excluded ==
    /\ \A q, r \in lock : q = r
    /\ \A r \in Runner : run[r].pc \in Inside => r \in lock
    /\ \A r \in Runner : Staged(r)

FeedInv == RunShapes /\ (lost \/ Excluded)

\* A runner moves on, the lock and the staging table stay as they are.
LEMMA RunMoves ==
    ASSUME FeedInv, NEW r \in Runner, NEW new \in Run, run' = [run EXCEPT ![r] = new],
           UNCHANGED <<lock, staging, lost>>,
           new.pc \in Inside => run[r].pc \in Inside,
           new.pc = "empty" => new.rest = new.feed,
           new.pc \notin {"stage", "map"}
    PROVE  FeedInv'
  <1>1. RunShapes' /\ run'[r] = new /\ \A q \in Runner \ {r} : run'[q] = run[q]
    BY DEF FeedInv, RunShapes
  <1>2. CASE Excluded
    <2>1. \A q \in Runner : Staged(q)'
      BY <1>1, <1>2 DEF Excluded, Staged, At
    <2> QED BY <1>1, <1>2, <2>1 DEF FeedInv, Excluded
  <1> QED BY <1>1, <1>2 DEF FeedInv

\* The runner in the lock writes the staging table.
LEMMA StagingMoves ==
    ASSUME FeedInv, NEW r \in Runner, run[r].pc \in Inside, NEW new \in Run,
           run' = [run EXCEPT ![r] = new],
           UNCHANGED <<lock, lost>>, staging' \in SUBSET Lot,
           new.pc = "stage" /\ ~lost => /\ new.rest \subseteq new.feed
                                        /\ staging' = new.feed \ new.rest,
           new.pc = "map" /\ ~lost => staging' = new.feed,
           new.pc # "empty"
    PROVE  FeedInv'
  <1>1. RunShapes' /\ run'[r] = new /\ \A q \in Runner \ {r} : run'[q] = run[q]
    BY DEF FeedInv, RunShapes
  <1>2. CASE ~lost
    <2>1. Excluded
      BY <1>2 DEF FeedInv
    <2>2. \A q \in Runner \ {r} : run[q].pc \notin Inside
      BY <2>1 DEF Excluded
    <2>3. \A q \in Runner : Staged(q)'
      BY <1>1, <1>2, <2>2 DEF Staged, At, Inside
    <2> QED BY <1>1, <2>1, <2>3 DEF FeedInv, Excluded
  <1> QED BY <1>1, <1>2 DEF FeedInv

\* Nothing of the import moves, but a session that loses the lock.
LEMMA FeedUndisturbed ==
    ASSUME FeedInv, UNCHANGED <<run, staging>>,
           UNCHANGED <<lock, lost>> \/ (lost' /\ lock' \subseteq lock)
    PROVE  FeedInv'
  BY DEF FeedInv, RunShapes, Excluded, Staged, At

\* No run is left: the process has died.
LEMMA FeedGone ==
    ASSUME FeedInv, run' = [r \in Runner |-> NoRun], lock' = {}, UNCHANGED <<staging, lost>>
    PROVE  FeedInv'
  <1>1. NoRun \in Run /\ NoRun.pc = "idle"
    BY DEF NoRun, Run, Kind
  <1> QED BY <1>1 DEF FeedInv, RunShapes, Excluded, Staged, At, Inside

\* The runners' steps between lock and wipe.
LEMMA InsideKeeps ==
    ASSUME FeedInv, NEW r \in Runner,
           \/ TryLock(r) \/ Download(r) \/ Empty(r) \/ Stage(r) \/ Map(r) \/ Ask(r)
           \/ Enqueue(r) \/ Sweep(r) \/ Wipe(r) \/ Unlock(r)
    PROVE  FeedInv'
  <1>0. run \in [Runner -> Run] /\ run[r] \in Run /\ staging \in SUBSET Lot /\ RunShapes
    BY DEF FeedInv, RunShapes
  <1>1. CASE TryLock(r)
    <2>1. CASE lock = {}
      <3>h. PICK new : new = [run[r] EXCEPT !.pc = "download"]
        OBVIOUS
      <3>1. new \in Run /\ new.pc = "download"
        BY <1>0, <3>h DEF Run
      <3>2. run' = [run EXCEPT ![r] = new] /\ lock' = {r} /\ UNCHANGED <<staging, lost>>
        BY <1>1, <2>1, <3>h DEF TryLock, Goto
      <3>3. RunShapes' /\ run'[r] = new /\ \A q \in Runner \ {r} : run'[q] = run[q]
        BY <1>0, <3>1, <3>2 DEF RunShapes
      <3>4. Excluded => Excluded'
        BY <2>1, <3>1, <3>2, <3>3 DEF Excluded, Staged, At
      <3> QED BY <3>2, <3>3, <3>4 DEF FeedInv
    <2>2. CASE lock # {}
      <3>h. PICK new : new = [run[r] EXCEPT !.pc = "settle"]
        OBVIOUS
      <3>1. new \in Run /\ new.pc = "settle"
        BY <1>0, <3>h DEF Run
      <3>2. run' = [run EXCEPT ![r] = new] /\ UNCHANGED <<lock, staging, lost>>
        BY <1>1, <2>2, <3>h DEF TryLock, Goto
      <3> QED BY <3>1, <3>2, RunMoves DEF Inside
    <2> QED BY <2>1, <2>2
  <1>2. CASE Download(r)
    <2>1. PICK feed \in Feeds :
               run' = [run EXCEPT ![r].pc = "empty", ![r].feed = feed, ![r].rest = feed]
      BY <1>2 DEF Download
    <2>h. PICK new : new = [run[r] EXCEPT !.pc = "empty", !.feed = feed, !.rest = feed]
      OBVIOUS
    <2>2. feed \in SUBSET Lot
      BY SyncAssumption
    <2>3. new \in Run /\ new.pc = "empty" /\ new.rest = new.feed
      BY <1>0, <2>h, <2>2 DEF Run
    <2>4. run' = [run EXCEPT ![r] = new] /\ UNCHANGED <<lock, staging, lost>>
      BY <1>0, <1>2, <2>1, <2>h DEF Download
    <2> QED BY <1>2, <2>3, <2>4, RunMoves DEF Download, At, Inside
  <1>3. CASE Empty(r)
    <2>h. PICK new : new = [run[r] EXCEPT !.pc = IF run[r].feed = {} THEN "map" ELSE "stage"]
      OBVIOUS
    <2>1. /\ new \in Run /\ new.pc = (IF run[r].feed = {} THEN "map" ELSE "stage")
          /\ new.feed = run[r].feed /\ new.rest = run[r].rest
      BY <1>0, <2>h DEF Run
    <2>2. /\ run' = [run EXCEPT ![r] = new] /\ UNCHANGED <<lock, lost>> /\ staging' = {}
          /\ run[r].pc = "empty"
      BY <1>3, <2>h DEF Empty, Emptied, Goto, At
    <2>3. ~lost => run[r].rest = run[r].feed
      BY <2>2 DEF FeedInv, Excluded, Staged, At
    <2>4. new.pc = "stage" /\ ~lost => /\ new.rest \subseteq new.feed
                                       /\ staging' = new.feed \ new.rest
      BY <2>1, <2>2, <2>3
    <2>5. new.pc = "map" => staging' = new.feed
      BY <2>1, <2>2
    <2> QED BY <2>1, <2>2, <2>4, <2>5, StagingMoves DEF Inside
  <1>4. CASE Stage(r)
    <2>1. PICK l \in run[r].rest :
               /\ staging' = staging \cup {l}
               /\ run' = [run EXCEPT ![r].pc = IF run[r].rest = {l} THEN "map" ELSE "stage",
                                     ![r].rest = @ \ {l}]
      BY <1>4 DEF Stage
    <2>2. UNCHANGED <<lock, lost>> /\ run[r].pc = "stage"
      BY <1>4 DEF Stage, At
    <2>h. PICK new : new = [run[r] EXCEPT !.pc = IF run[r].rest = {l} THEN "map" ELSE "stage",
                                          !.rest = @ \ {l}]
      OBVIOUS
    <2>3. /\ new \in Run /\ new.pc = (IF run[r].rest = {l} THEN "map" ELSE "stage")
          /\ new.feed = run[r].feed /\ new.rest = run[r].rest \ {l}
      BY <1>0, <2>h DEF Run
    <2>4. run' = [run EXCEPT ![r] = new]
      BY <1>0, <2>1, <2>h
    <2>5. staging' \in SUBSET Lot
      BY <1>0, <2>1 DEF Run
    <2>6. ~lost => run[r].rest \subseteq run[r].feed /\ staging = run[r].feed \ run[r].rest
      BY <2>2 DEF FeedInv, Excluded, Staged, At
    <2>7. ~lost => /\ new.rest \subseteq new.feed
                   /\ staging' = new.feed \ new.rest
      BY <2>1, <2>3, <2>6
    <2>8. new.pc = "map" /\ ~lost => staging' = new.feed
      BY <2>3, <2>7
    <2> QED BY <2>2, <2>3, <2>4, <2>5, <2>7, <2>8, StagingMoves DEF Inside
  <1>5. CASE Map(r)
    <2>1. run' = [run EXCEPT ![r].pc = IF staging \ Listed = {} THEN "sweep" ELSE "ask",
                             ![r].feed = {}, ![r].rest = staging \ Listed]
      BY <1>5 DEF Map
    <2>h. PICK new : new = [run[r] EXCEPT !.pc = IF staging \ Listed = {} THEN "sweep" ELSE "ask",
                                          !.feed = {}, !.rest = staging \ Listed]
      OBVIOUS
    <2>2. new \in Run /\ new.pc \in {"sweep", "ask"}
      BY <1>0, <2>h DEF Run
    <2>3. run' = [run EXCEPT ![r] = new] /\ UNCHANGED <<lock, staging, lost>>
      BY <1>5, <2>1, <2>h DEF Map
    <2> QED BY <1>5, <2>2, <2>3, RunMoves DEF Map, At, Inside
  <1>6. CASE Ask(r)
    <2>1. CASE run' = [run EXCEPT ![r].pc = "enqueue", ![r].rest = {l \in @ : ~Cached(l)}]
      <3>h. PICK new : new = [run[r] EXCEPT !.pc = "enqueue", !.rest = {l \in @ : ~Cached(l)}]
        OBVIOUS
      <3>1. new \in Run /\ new.pc = "enqueue"
        BY <1>0, <3>h DEF Run
      <3>2. run' = [run EXCEPT ![r] = new] /\ UNCHANGED <<lock, staging, lost>>
        BY <1>6, <2>1, <3>h DEF Ask
      <3> QED BY <1>6, <3>1, <3>2, RunMoves DEF Ask, At, Inside
    <2>2. CASE run' = [run EXCEPT ![r].pc = "sweep", ![r].rest = {}]
      <3>h. PICK new : new = [run[r] EXCEPT !.pc = "sweep", !.rest = {}]
        OBVIOUS
      <3>1. new \in Run /\ new.pc = "sweep"
        BY <1>0, <3>h DEF Run
      <3>2. run' = [run EXCEPT ![r] = new] /\ UNCHANGED <<lock, staging, lost>>
        BY <1>6, <2>2, <3>h DEF Ask
      <3> QED BY <1>6, <3>1, <3>2, RunMoves DEF Ask, At, Inside
    <2> QED BY <1>6, <2>1, <2>2 DEF Ask
  <1>7. CASE Enqueue(r)
    <2>h. PICK new : new = [run[r] EXCEPT !.pc = "sweep", !.rest = {}]
      OBVIOUS
    <2>1. new \in Run /\ new.pc \in {"sweep"}
      BY <1>0, <1>7, <2>h DEF Enqueue, Run
    <2>2. run' = [run EXCEPT ![r] = new] /\ UNCHANGED <<lock, staging, lost>>
      BY <1>0, <1>7, <2>h DEF Enqueue, At
    <2> QED BY <1>7, <2>1, <2>2, RunMoves DEF Enqueue, At, Inside
  <1>8. CASE Sweep(r)
    <2>h. PICK new : new = [run[r] EXCEPT !.pc = "wipe"]
      OBVIOUS
    <2>1. new \in Run /\ new.pc \in {"wipe"}
      BY <1>0, <1>8, <2>h DEF Sweep, Goto, Run
    <2>2. run' = [run EXCEPT ![r] = new] /\ UNCHANGED <<lock, staging, lost>>
      BY <1>0, <1>8, <2>h DEF Sweep, Goto, At
    <2> QED BY <1>8, <2>1, <2>2, RunMoves DEF Sweep, Goto, At, Inside
  <1>9. CASE Wipe(r)
    <2>h. PICK new : new = [run[r] EXCEPT !.pc = "index", !.rest = Lot]
      OBVIOUS
    <2>1. new \in Run /\ new.pc = "index"
      BY <1>0, <2>h DEF Run
    <2>2. /\ run' = [run EXCEPT ![r] = new] /\ UNCHANGED <<lock, lost>> /\ staging' = {}
          /\ run[r].pc = "wipe"
      BY <1>9, <2>h DEF Wipe, At
    <2> QED BY <2>1, <2>2, StagingMoves DEF Inside
  <1>10. CASE Unlock(r)
    <2>h. PICK new : new = [run[r] EXCEPT !.pc = "settle"]
      OBVIOUS
    <2>1. new \in Run /\ new.pc = "settle"
      BY <1>0, <2>h DEF Run
    <2>2. /\ run' = [run EXCEPT ![r] = new] /\ UNCHANGED <<staging, lost>>
          /\ lock' = lock \ {r}
      BY <1>10, <2>h DEF Unlock, Released, Goto
    <2>3. RunShapes' /\ run'[r] = new /\ \A q \in Runner \ {r} : run'[q] = run[q]
      BY <1>0, <2>1, <2>2 DEF RunShapes
    <2>4. Excluded => Excluded'
      BY <2>1, <2>2, <2>3 DEF Excluded, Staged, At, Inside
    <2> QED BY <2>2, <2>3, <2>4 DEF FeedInv
  <1> QED
    BY <1>1, <1>2, <1>3, <1>4, <1>5, <1>6, <1>7, <1>8, <1>9, <1>10

\* The runners' other steps.
LEMMA OutsideKeeps ==
    ASSUME FeedInv, NEW r \in Runner,
           \/ CronFires(r) \/ IndexPage(r) \/ IndexDone(r) \/ Finish(r) \/ Fail(r)
           \/ DropIndex(r) \/ CreateIndex(r) \/ Throws(r) \/ TriggerRequeued(r)
           \/ \E k \in Kind : Receive(r, k)
    PROVE  FeedInv'
  <1>0. run \in [Runner -> Run] /\ run[r] \in Run
    BY DEF FeedInv, RunShapes
  <1>1. CASE CronFires(r)
    <2>h. PICK new : new = [run[r] EXCEPT !.pc = "lock"]
      OBVIOUS
    <2>1. new \in Run /\ new.pc \in {"lock"}
      BY <1>0, <1>1, <2>h DEF CronFires, Goto, Run
    <2>2. run' = [run EXCEPT ![r] = new] /\ UNCHANGED <<lock, staging, lost>>
      BY <1>0, <1>1, <2>h DEF CronFires, Goto, At
    <2> QED BY <1>1, <2>1, <2>2, RunMoves DEF CronFires, Goto, At, Inside
  <1>2. CASE IndexPage(r)
    <2>1. PICK l \in ToIndex(r) : run' = [run EXCEPT ![r].rest = @ \ {l}]
      BY <1>2 DEF IndexPage
    <2>h. PICK new : new = [run[r] EXCEPT !.rest = @ \ {l}]
      OBVIOUS
    <2>2. new \in Run /\ new.pc = run[r].pc
      BY <1>0, <2>h DEF Run
    <2>3. run' = [run EXCEPT ![r] = new] /\ UNCHANGED <<lock, staging, lost>>
      BY <1>2, <2>1, <2>h DEF IndexPage
    <2> QED BY <1>2, <2>2, <2>3, RunMoves DEF IndexPage, At, Inside
  <1>3. CASE IndexDone(r)
    <2>h. PICK new : new = [run[r] EXCEPT
                     !.pc = IF run[r].kind = "reindex" THEN "settle" ELSE "finish",
                     !.rest = {}]
      OBVIOUS
    <2>1. new \in Run /\ new.pc \in {"settle", "finish"}
      BY <1>0, <1>3, <2>h DEF IndexDone, Run
    <2>2. run' = [run EXCEPT ![r] = new] /\ UNCHANGED <<lock, staging, lost>>
      BY <1>0, <1>3, <2>h DEF IndexDone, At
    <2> QED BY <1>3, <2>1, <2>2, RunMoves DEF IndexDone, At, Inside
  <1>4. CASE Finish(r)
    <2>h. PICK new : new = [run[r] EXCEPT !.pc = "unlock"]
      OBVIOUS
    <2>1. new \in Run /\ new.pc \in {"unlock"}
      BY <1>0, <1>4, <2>h DEF Finish, Goto, Run
    <2>2. run' = [run EXCEPT ![r] = new] /\ UNCHANGED <<lock, staging, lost>>
      BY <1>0, <1>4, <2>h DEF Finish, Goto, At
    <2> QED BY <1>4, <2>1, <2>2, RunMoves DEF Finish, Goto, At, Inside
  <1>5. CASE Fail(r)
    <2>h. PICK new : new = [run[r] EXCEPT !.pc = "unlock"]
      OBVIOUS
    <2>1. new \in Run /\ new.pc \in {"unlock"}
      BY <1>0, <1>5, <2>h DEF Fail, Goto, Run
    <2>2. run' = [run EXCEPT ![r] = new] /\ UNCHANGED <<lock, staging, lost>>
      BY <1>0, <1>5, <2>h DEF Fail, Goto, At
    <2> QED BY <1>5, <2>1, <2>2, RunMoves DEF Fail, Goto, At, Inside
  <1>6. CASE DropIndex(r)
    <2>h. PICK new : new = [run[r] EXCEPT !.pc = "create"]
      OBVIOUS
    <2>1. new \in Run /\ new.pc \in {"create"}
      BY <1>0, <1>6, <2>h DEF DropIndex, Goto, Run
    <2>2. run' = [run EXCEPT ![r] = new] /\ UNCHANGED <<lock, staging, lost>>
      BY <1>0, <1>6, <2>h DEF DropIndex, Goto, At
    <2> QED BY <1>6, <2>1, <2>2, RunMoves DEF DropIndex, Goto, At, Inside
  <1>7. CASE CreateIndex(r)
    <2>h. PICK new : new = [run[r] EXCEPT
                     !.pc = IF run[r].kind = "import-recreate" THEN "lock" ELSE "settle"]
      OBVIOUS
    <2>1. new \in Run /\ new.pc \in {"lock", "settle"}
      BY <1>0, <1>7, <2>h DEF CreateIndex, Goto, Run
    <2>2. run' = [run EXCEPT ![r] = new] /\ UNCHANGED <<lock, staging, lost>>
      BY <1>0, <1>7, <2>h DEF CreateIndex, Goto, At
    <2> QED BY <1>7, <2>1, <2>2, RunMoves DEF CreateIndex, Goto, At, Inside
  <1>8. CASE Throws(r)
    <2>h. PICK new : new = [run[r] EXCEPT
                     !.pc = IF run[r].kind = "reindex" THEN "settle" ELSE "fail",
                     !.feed = {}, !.rest = {}]
      OBVIOUS
    <2>1. new \in Run /\ new.pc \in {"settle", "fail"}
      BY <1>0, <1>8, <2>h DEF Throws, Run
    <2>2. run' = [run EXCEPT ![r] = new] /\ UNCHANGED <<lock, staging, lost>>
      BY <1>0, <1>8, <2>h DEF Throws, At
    <2> QED BY <1>8, <2>1, <2>2, RunMoves DEF Throws, At, Inside
  <1>9. CASE TriggerRequeued(r)
    <2>h. PICK new : new = [run[r] EXCEPT !.mine = FALSE]
      OBVIOUS
    <2>1. /\ new \in Run /\ new.pc = run[r].pc /\ new.feed = run[r].feed
          /\ new.rest = run[r].rest
      BY <1>0, <2>h DEF Run
    <2>2. run' = [run EXCEPT ![r] = new] /\ UNCHANGED <<lock, staging, lost>>
      BY <1>9, <2>h DEF TriggerRequeued
    <2>3. RunShapes' /\ run'[r] = new /\ \A q \in Runner \ {r} : run'[q] = run[q]
      BY <1>0, <2>1, <2>2 DEF FeedInv, RunShapes
    <2>4. Excluded => Excluded'
      BY <2>1, <2>2, <2>3 DEF Excluded, Staged, At
    <2> QED BY <2>2, <2>3, <2>4 DEF FeedInv
  <1>10. ASSUME NEW k \in Kind, Receive(r, k)
         PROVE  FeedInv'
    <2>h. PICK new : new = [NoRun EXCEPT !.pc = FirstStep(k), !.kind = k,
                                         !.rest = IF k = "reindex" THEN Lot ELSE {}]
      OBVIOUS
    <2>1. FirstStep(k) \in {"lock", "index", "drop"}
      BY DEF FirstStep, Kind
    <2>2. new \in Run /\ new.pc \in {"lock", "index", "drop"}
      BY <2>h, <2>1 DEF Run, NoRun
    <2>3. run' = [run EXCEPT ![r] = new] /\ UNCHANGED <<lock, staging, lost>>
      BY <1>10, <2>h DEF Receive
    <2> QED BY <2>2, <2>3, RunMoves DEF Inside
  <1> QED
    BY <1>1, <1>2, <1>3, <1>4, <1>5, <1>6, <1>7, <1>8, <1>9, <1>10

LEMMA FeedKeeps ==
    ASSUME FeedInv, SyncNext
    PROVE  FeedInv'
  <1>1. CASE JobsStep /\ UNCHANGED syncVars
    BY <1>1, FeedUndisturbed DEF syncVars
  <1>2. ASSUME NEW r \in Runner, Settle(r)
        PROVE  FeedInv'
    <2>1. CASE run[r].mine
      <3>1. NoRun \in Run /\ NoRun.pc = "idle"
        BY DEF NoRun, Run, Kind
      <3>2. run' = [run EXCEPT ![r] = NoRun] /\ UNCHANGED <<lock, staging, lost>>
        BY <1>2, <2>1 DEF Settle
      <3> QED BY <3>1, <3>2, RunMoves DEF Inside
    <2>2. CASE ~run[r].mine
      BY <1>2, <2>2, FeedGone DEF Settle, SyncDies
    <2> QED BY <2>1, <2>2
  <1>3. CASE SyncCrash
    BY <1>3, FeedGone DEF SyncCrash, SyncDies
  <1>4. CASE SyncBoots
    BY <1>4, FeedGone DEF SyncBoots
  <1>5. ASSUME NEW r \in Runner, LockLost(r)
        PROVE  FeedInv'
    BY <1>5, FeedUndisturbed DEF LockLost
  <1>6. HoursPass \/ DayAndNight \/ Watchdog \/ (\E k \in Kind : Publishes(k)) => FeedInv'
    BY FeedUndisturbed DEF HoursPass, DayAndNight, Watchdog, Publishes
  <1>7. \A r \in Consumer : r \in Runner
    BY DEF Runner
  <1> QED
    BY <1>1, <1>2, <1>3, <1>4, <1>5, <1>6, <1>7, InsideKeeps, OutsideKeeps
    DEF SyncNext, RunStep

\* The lock lets one run at a time into the import, and what that run staged is what it
\* has downloaded so far, throughout.
THEOREM FeedHolds == SyncSpec => []FeedInv
  <1>1. JobsInit /\ SyncInit => FeedInv
    <2> SUFFICES ASSUME SyncInit
        PROVE  FeedInv
      OBVIOUS
    <2>1. NoRun \in Run /\ NoRun.pc = "idle"
      BY DEF NoRun, Run, Kind
    <2> QED BY <2>1 DEF SyncInit, FeedInv, RunShapes, Excluded, Staged, At, Inside
  <1>2. FeedInv /\ [SyncNext]_<<jobsVars, syncVars>> => FeedInv'
    BY FeedKeeps, FeedUndisturbed DEF syncVars
  <1> QED BY <1>1, <1>2, PTL DEF SyncSpec

\* For any lots, feeds and number of overlapping crons and triggers: what a run upserts
\* is the feed it downloaded, unless a run has lost the session that held its lock.
THEOREM EachMapsItsFeed == SyncSpec => []MapsOwnFeed
  <1>1. FeedInv => MapsOwnFeed
    BY DEF FeedInv, Excluded, Staged, MapsOwnFeed
  <1> QED BY <1>1, FeedHolds, PTL

-----------------------------------------------------------------------------
(* Types                                                                    *)

\* The pipeline's state besides what PipeInv and QueueInv speak of.
JobsRest ==
    /\ late \subseteq {l \in Lot : job[l] = "processing"}
    /\ tick.slots \in Nat
    /\ paused \in BOOLEAN
    /\ down \in SUBSET Service
    /\ jobsLeft \in [fault : Nat, people : Nat, age : Nat]

Paid == UNCHANGED jobsLeft \/ Spend("fault") \/ Spend("people") \/ Spend("age")

\* What a step may do to that rest.
Modest ==
    /\ \/ UNCHANGED <<job, late>>
       \/ \E S : \E status : SetJobs(S, status)
       \/ \E l \in Lot : JobAges(l)
    /\ Paid
    /\ UNCHANGED paused \/ paused' = ~paused
    /\ down' \in {down, {}, down \cup {"data-sync"}, down \cup {"image-service"}}
    /\ tick' \in {tick, NoTick} \/ TickStart \/ TickStep

LEMMA JobsAreModest ==
    ASSUME JobsStep
    PROVE  Modest
  <1>1. CASE TickStart \/ TickStep
    <2>1. UNCHANGED <<paused, down>> /\ Paid
      BY <1>1 DEF TickStart, TickStep, Reap, CountPending, Seed, Pick, Take, Look, Fetch, Mark,
                  Paid
    <2>2. UNCHANGED <<job, late>> \/ \E S : \E status : SetJobs(S, status)
      BY <1>1 DEF TickStart, TickStep, Reap, CountPending, Seed, Pick, Take, Look, Fetch, Mark
    <2> QED BY <1>1, <2>1, <2>2 DEF Modest
  <1>2. ASSUME NEW s \in Slot,
               HandStep(s) \/ HandlerError(s) \/ \E l \in Lot : Deliver(s, l)
        PROVE  Modest
    <2>1. UNCHANGED <<tick, paused>> /\ Paid
      BY <1>2 DEF HandStep, CheckCached, Upload, Finalize, Ack, HandlerError, Deliver, Paid
    <2>2. UNCHANGED <<job, late>> \/ \E S : \E status : SetJobs(S, status)
      BY <1>2 DEF HandStep, CheckCached, Upload, Finalize, Ack, HandlerError, Deliver
    <2>3. down' \in {down, down \cup {"image-service"}}
      BY <1>2 DEF HandStep, CheckCached, Upload, Finalize, Ack, HandlerError, Deliver,
                  ConsumerDies
    <2> QED BY <2>1, <2>2, <2>3 DEF Modest
  <1>3. CASE PurgeRead \/ PurgeStep
    <2>1. UNCHANGED <<tick, paused, down>> /\ Paid
      BY <1>3 DEF PurgeRead, PurgeStep, PurgeProtect, PurgePointer, PurgeRow, Paid
    <2>2. UNCHANGED <<job, late>> \/ \E S : \E status : SetJobs(S, status)
      BY <1>3 DEF PurgeRead, PurgeStep, PurgeProtect, PurgePointer, PurgeRow
    <2> QED BY <2>1, <2>2 DEF Modest
  <1>4. CASE PeopleStep
    <2>1. UNCHANGED <<tick, down>> /\ Paid /\ (UNCHANGED paused \/ paused' = ~paused)
      BY <1>4 DEF PeopleStep, RetryFailed, TogglePause, RetryJob, OnDemand, Want, Paid
    <2>2. UNCHANGED <<job, late>> \/ \E S : \E status : SetJobs(S, status)
      BY <1>4 DEF PeopleStep, RetryFailed, TogglePause, RetryJob, OnDemand, Want
    <2> QED BY <2>1, <2>2 DEF Modest
  <1>5. ASSUME NEW l \in Lot, JobAges(l) \/ LotAges(l)
        PROVE  Modest
    <2>1. UNCHANGED <<tick, paused, down>> /\ Paid
      BY <1>5 DEF JobAges, LotAges, Paid
    <2>2. UNCHANGED <<job, late>> \/ JobAges(l)
      BY <1>5 DEF LotAges
    <2> QED BY <2>1, <2>2 DEF Modest
  <1>6. CASE FaultStep
    <2>1. CASE \E s \in Slot : HandlerError(s)
      BY <1>2, <2>1
    <2>2. CASE ConsumerCrash \/ Disconnect \/ \E l \in Lot : Lose(l)
      <3>1. UNCHANGED <<tick, paused, job, late>> /\ Paid
        BY <2>2 DEF ConsumerCrash, Disconnect, Lose, Paid
      <3>2. down' \in {down, down \cup {"image-service"}}
        BY <2>2 DEF ConsumerCrash, ConsumerDies, Disconnect, Lose
      <3> QED BY <3>1, <3>2 DEF Modest
    <2> QED BY <1>6, <2>1, <2>2 DEF FaultStep
  <1> QED BY <1>1, <1>2, <1>3, <1>4, <1>5, <1>6 DEF JobsStep

LEMMA SyncIsModest ==
    ASSUME SyncNext
    PROVE  Modest
  <1>1. ASSUME UNCHANGED jobsVars
        PROVE  Modest
    BY <1>1 DEF jobsVars, Modest, Paid
  <1>2. ASSUME CrawlerDies, UNCHANGED jobsLeft
        PROVE  Modest
    BY <1>2 DEF CrawlerDies, Modest, Paid
  <1>3. CASE SyncBoots
    BY <1>3 DEF SyncBoots, ContainerRestarts, Modest, Paid
  <1>4. CASE SyncCrash
    BY <1>2, <1>4 DEF SyncCrash, SyncDies
  <1>5. ASSUME NEW r \in Runner, Settle(r)
        PROVE  Modest
    <2>1. CASE run[r].mine
      BY <1>1, <1>5, <2>1 DEF Settle, jobsVars
    <2>2. CASE ~run[r].mine
      BY <1>2, <1>5, <2>2 DEF Settle, SyncDies
    <2> QED BY <2>1, <2>2
  <1>6. ASSUME NEW r \in Runner, Map(r) \/ Sweep(r) \/ Enqueue(r)
        PROVE  Modest
    <2>1. UNCHANGED <<tick, paused, down, jobsLeft>>
      BY <1>6 DEF Map, Sweep, Enqueue
    <2>2. UNCHANGED <<job, late>> \/ \E S : \E status : SetJobs(S, status)
      BY <1>6 DEF Map, Sweep, Enqueue
    <2> QED BY <2>1, <2>2 DEF Modest, Paid
  <1>7. ASSUME NEW r \in Runner, RunStep(r), ~Map(r), ~Sweep(r), ~Enqueue(r), ~Settle(r)
        PROVE  UNCHANGED jobsVars
    BY <1>7 DEF RunStep, TryLock, Download, Empty, Stage, Ask, Wipe, IndexPage, IndexDone,
                Finish, Fail, Unlock, DropIndex, CreateIndex
  <1>8. ASSUME NEW r \in Runner, CronFires(r) \/ Throws(r) \/ TriggerRequeued(r) \/ LockLost(r)
        PROVE  UNCHANGED jobsVars
    BY <1>8 DEF CronFires, Throws, TriggerRequeued, LockLost
  <1>9. ASSUME NEW k \in Kind, Publishes(k) \/ \E r \in Consumer : Receive(r, k)
        PROVE  UNCHANGED jobsVars
    BY <1>9 DEF Publishes, Receive
  <1>10. HoursPass \/ DayAndNight \/ Watchdog => UNCHANGED jobsVars
    BY DEF HoursPass, DayAndNight, Watchdog
  <1> QED
    BY <1>1, <1>3, <1>4, <1>5, <1>6, <1>7, <1>8, <1>9, <1>10, JobsAreModest DEF SyncNext

\* How many lots a tick may take is a number.
LEMMA SlotsCount ==
    ASSUME PipeInv, Counted, tick.slots \in Nat,
           tick' \in {tick, NoTick} \/ TickStart \/ TickStep
    PROVE  tick'.slots \in Nat
  <1> USE Blanks
  <1>1. CASE tick' \in {tick, NoTick}
    BY <1>1
  <1>2. CASE TickStart
    <2>1. LotsPerTick \in Nat \ {0} /\ QueueMinutes \in Nat
      BY JobsAssumption
    <2>2. Cap \in Nat
      BY <2>1 DEF Cap
    <2>3. Slots(Depth) \in Nat
      <3>1. PICK d \in Nat : d = Depth
        BY DepthCounts DEF Counted
      <3>2. Slots(d) \in Nat
        BY <2>1, <2>2 DEF Slots, Least
      <3> QED BY <3>1, <3>2
    <2>4. tick'.slots \in {Slots(Depth), LotsPerTick}
      <3>1. CASE tick' = [NoTick EXCEPT !.pc = "reap", !.slots = Slots(Depth),
                                    !.reap = MayReap(Depth)]
        BY <3>1 DEF NoTick
      <3>2. CASE tick' = [NoTick EXCEPT !.pc = "reap", !.slots = LotsPerTick,
                                    !.reap = TRUE, !.blind = TRUE]
        BY <3>2 DEF NoTick
      <3> QED BY <1>2, <3>1, <3>2 DEF TickStart
    <2> QED BY <2>1, <2>3, <2>4
  <1>3. ASSUME NEW batch, Onward(batch)
        PROVE  tick'.slots \in Nat
    <2>1. tick'.slots = 0
      BY <1>3 DEF Onward, NoTick
    <2> QED BY <2>1
  <1>4. CASE Reap \/ CountPending \/ Seed \/ Look
    <2>1. tick'.slots = tick.slots
      BY <1>4 DEF Reap, CountPending, Seed, Look, PipeInv, Shapes
    <2> QED BY <2>1
  <1>5. CASE Pick
    BY <1>3, <1>5 DEF Pick
  <1>6. CASE Take
    <2>1. ASSUME NEW l, tick' = [tick EXCEPT !.pc = "look", !.on = {l}, !.batch = @ \ {l}]
          PROVE  tick'.slots \in Nat
      BY <2>1 DEF PipeInv, Shapes
    <2> QED BY <1>1, <1>6, <2>1 DEF Take
  <1>7. CASE Fetch
    <2>1. ASSUME NEW as, tick' = [tick EXCEPT !.pc = "mark", !.as = as]
          PROVE  tick'.slots \in Nat
      BY <2>1 DEF PipeInv, Shapes
    <2> QED BY <1>3, <1>7, <2>1 DEF Fetch
  <1>8. CASE Mark
    BY <1>1, <1>3, <1>8 DEF Mark
  <1> QED BY <1>1, <1>2, <1>4, <1>5, <1>6, <1>7, <1>8 DEF TickStep

LEMMA RestKeeps ==
    ASSUME PipeInv, QueueInv, JobsRest, Modest
    PROVE  JobsRest'
  <1>1. late' \subseteq {l \in Lot : job'[l] = "processing"}
    <2>1. CASE UNCHANGED <<job, late>>
      BY <2>1 DEF JobsRest
    <2>2. ASSUME NEW S, NEW status, SetJobs(S, status)
          PROVE  late' \subseteq {l \in Lot : job'[l] = "processing"}
      BY <2>2 DEF JobsRest, SetJobs
    <2>3. ASSUME NEW l \in Lot, JobAges(l)
          PROVE  late' \subseteq {k \in Lot : job'[k] = "processing"}
      BY <2>3 DEF JobsRest, JobAges
    <2> QED BY <2>1, <2>2, <2>3 DEF Modest
  <1>2. tick'.slots \in Nat
    BY SlotsCount DEF QueueInv, JobsRest, Modest
  <1>3. paused' \in BOOLEAN /\ down' \in SUBSET Service
    BY DEF JobsRest, Modest, Service
  <1>4. jobsLeft' \in [fault : Nat, people : Nat, age : Nat]
    <2>1. ASSUME NEW kind \in {"fault", "people", "age"}, Spend(kind)
          PROVE  jobsLeft' \in [fault : Nat, people : Nat, age : Nat]
      <3>1. jobsLeft[kind] \in Nat /\ jobsLeft[kind] > 0
        BY <2>1 DEF JobsRest, Spend
      <3>2. jobsLeft[kind] - 1 \in Nat
        BY <3>1
      <3> QED BY <2>1, <3>2 DEF JobsRest, Spend
    <2> QED BY <2>1 DEF JobsRest, Modest, Paid
  <1> QED BY <1>1, <1>2, <1>3, <1>4 DEF JobsRest

\* The import's state besides what FeedInv speaks of.
SyncRest ==
    /\ running \in SUBSET Runner
    /\ unseen \in SUBSET Lot
    /\ index \in Index /\ (~index.exists => index = NoIndex)
    /\ triggers \in [Kind -> Nat]
    /\ {recent, alerted, night, lost} \subseteq BOOLEAN
    /\ syncLeft \in [fault : Nat, people : Nat, age : Nat]

SyncPaid ==
    UNCHANGED syncLeft \/ SpendSync("fault") \/ SpendSync("people") \/ SpendSync("age")

\* What a step may do to that rest, but for the triggers.
SyncModest ==
    /\ running' \subseteq running \cup Runner
    /\ unseen' \subseteq unseen \cup Lot
    /\ \/ index' \in {index, Dropped, Ensured}
       \/ \E l \in Lot : index' = [exists |-> TRUE, typed |-> index.typed,
                                   docs |-> index.docs \cup {l}]
    /\ recent' \in {recent, TRUE, FALSE} /\ alerted' \in {alerted, TRUE, FALSE}
    /\ night' \in {night, ~night} /\ lost' \in {lost, TRUE}
    /\ SyncPaid

LEMMA RunsAreModest ==
    ASSUME NEW r \in Runner, RunStep(r)
    PROVE  SyncModest
  <1>1. CASE TryLock(r) \/ Finish(r) \/ Fail(r)
    BY <1>1 DEF TryLock, Finish, Fail, SyncModest, SyncPaid
  <1>2. CASE Download(r) \/ Empty(r) \/ Stage(r) \/ Ask(r) \/ Enqueue(r) \/ Wipe(r)
             \/ IndexDone(r) \/ Unlock(r) \/ Sweep(r)
    BY <1>2 DEF Download, Empty, Stage, Ask, Enqueue, Wipe, IndexDone, Unlock, Sweep,
                SyncModest, SyncPaid
  <1>3. CASE Map(r)
    BY <1>3 DEF Map, SyncModest, SyncPaid
  <1>4. CASE IndexPage(r)
    <2>1. \A l \in ToIndex(r) : l \in Lot
      BY DEF ToIndex, Listed
    <2>2. UNCHANGED <<running, unseen, recent, alerted, night, lost>> /\ SyncPaid
      BY <1>4 DEF IndexPage, SyncPaid
    <2>3. \/ UNCHANGED index
          \/ \E l \in Lot : index' = [exists |-> TRUE, typed |-> index.typed,
                                      docs |-> index.docs \cup {l}]
      BY <1>4, <2>1 DEF IndexPage
    <2> QED BY <2>2, <2>3 DEF SyncModest
  <1>5. CASE DropIndex(r) \/ CreateIndex(r)
    BY <1>5 DEF DropIndex, CreateIndex, SyncModest, SyncPaid
  <1>6. CASE Settle(r)
    BY <1>6 DEF Settle, SyncDies, SyncModest, SyncPaid
  <1> QED BY <1>1, <1>2, <1>3, <1>4, <1>5, <1>6 DEF RunStep

LEMMA OthersAreModest ==
    ASSUME SyncNext
    PROVE  SyncModest
  <1>1. CASE UNCHANGED syncVars
    BY <1>1 DEF syncVars, SyncModest, SyncPaid
  <1>2. ASSUME NEW r \in Runner, CronFires(r) \/ Throws(r) \/ TriggerRequeued(r) \/ LockLost(r)
        PROVE  SyncModest
    BY <1>2 DEF CronFires, Throws, TriggerRequeued, LockLost, SyncModest, SyncPaid
  <1>3. ASSUME NEW k \in Kind, Publishes(k) \/ \E r \in Consumer : Receive(r, k)
        PROVE  SyncModest
    BY <1>3 DEF Publishes, Receive, SyncModest, SyncPaid
  <1>4. CASE HoursPass \/ DayAndNight \/ Watchdog
    BY <1>4 DEF HoursPass, DayAndNight, Watchdog, SyncModest, SyncPaid, Listed
  <1>5. CASE SyncCrash
    BY <1>5 DEF SyncCrash, SyncDies, SyncModest, SyncPaid
  <1>6. CASE SyncBoots
    BY <1>6 DEF SyncBoots, SyncModest, SyncPaid
  <1> QED
    BY <1>1, <1>2, <1>3, <1>4, <1>5, <1>6, RunsAreModest DEF SyncNext

\* Messages of handlers that die are requeued.
LEMMA HandlersCount ==
    ASSUME triggers \in [Kind -> Nat],
           triggers' = [k \in Kind |-> triggers[k]
                            + Cardinality({r \in Consumer : ~At(r, "idle") /\ run[r].mine
                                                            /\ run[r].kind = k})]
    PROVE  triggers' \in [Kind -> Nat]
  <1> DEFINE held(k) == Cardinality({r \in Consumer : ~At(r, "idle") /\ run[r].mine
                                                      /\ run[r].kind = k})
  <1>1. ASSUME NEW k \in Kind
        PROVE  held(k) \in Nat
    <2>1. IsFiniteSet(Consumer)
      BY SyncAssumption
    <2>2. {r \in Consumer : ~At(r, "idle") /\ run[r].mine /\ run[r].kind = k} \subseteq Consumer
      OBVIOUS
    <2>3. IsFiniteSet({r \in Consumer : ~At(r, "idle") /\ run[r].mine /\ run[r].kind = k})
      BY <2>1, <2>2, FS_Subset
    <2> QED BY <2>3, FS_CardinalityType
  <1>2. triggers' = [k \in Kind |-> triggers[k] + held(k)]
    OBVIOUS
  <1> HIDE DEF held
  <1>3. \A k \in Kind : triggers[k] + held(k) \in Nat
    BY <1>1
  <1> QED BY <1>2, <1>3

LEMMA TriggersKeep ==
    ASSUME FeedInv, SyncRest, SyncNext
    PROVE  triggers' \in [Kind -> Nat]
  <1>0. triggers \in [Kind -> Nat] /\ run \in [Runner -> Run]
    BY DEF SyncRest, FeedInv, RunShapes
  <1>1. ASSUME NEW r \in Runner, RunStep(r) \/ CronFires(r) \/ Throws(r) \/ LockLost(r), ~Settle(r)
        PROVE  UNCHANGED triggers
    BY <1>1 DEF RunStep, TryLock, Download, Empty, Stage, Map, Ask, Enqueue, Sweep, Wipe,
                IndexPage, IndexDone, Finish, Fail, Unlock, DropIndex, CreateIndex, CronFires,
                Throws, LockLost
  <1>2. ASSUME NEW r \in Runner, Settle(r)
        PROVE  triggers' \in [Kind -> Nat]
    <2>1. CASE run[r].mine
      BY <1>0, <1>2, <2>1 DEF Settle
    <2>2. CASE ~run[r].mine
      BY <1>0, <1>2, <2>2, HandlersCount DEF Settle, SyncDies
    <2> QED BY <2>1, <2>2
  <1>3. ASSUME NEW k \in Kind, triggers' = [triggers EXCEPT ![k] = @ + 1]
        PROVE  triggers' \in [Kind -> Nat]
    BY <1>0, <1>3
  <1>4. ASSUME NEW r \in Runner, TriggerRequeued(r)
        PROVE  triggers' \in [Kind -> Nat]
    <2>1. run[r].kind \in Kind
      BY <1>0 DEF Run
    <2> QED BY <1>3, <1>4, <2>1 DEF TriggerRequeued
  <1>5. ASSUME NEW k \in Kind, Publishes(k)
        PROVE  triggers' \in [Kind -> Nat]
    BY <1>3, <1>5 DEF Publishes
  <1>6. ASSUME NEW r \in Consumer, NEW k \in Kind, Receive(r, k)
        PROVE  triggers' \in [Kind -> Nat]
    <2>1. triggers[k] \in Nat /\ triggers[k] > 0 /\ triggers' = [triggers EXCEPT ![k] = @ - 1]
      BY <1>0, <1>6 DEF Receive
    <2>2. triggers[k] - 1 \in Nat
      BY <2>1
    <2> QED BY <1>0, <2>1, <2>2
  <1>7. CASE SyncCrash
    BY <1>0, <1>7, HandlersCount DEF SyncCrash, SyncDies
  <1>8. CASE SyncBoots
    BY <1>0, <1>8, HandlersCount DEF SyncBoots
  <1>9. UNCHANGED syncVars \/ HoursPass \/ DayAndNight \/ Watchdog => UNCHANGED triggers
    BY DEF syncVars, HoursPass, DayAndNight, Watchdog
  <1> QED
    BY <1>0, <1>1, <1>2, <1>4, <1>5, <1>6, <1>7, <1>8, <1>9 DEF SyncNext

LEMMA SyncRestKeeps ==
    ASSUME SyncRest, SyncModest, triggers' \in [Kind -> Nat]
    PROVE  SyncRest'
  <1>1. running' \in SUBSET Runner /\ unseen' \in SUBSET Lot
    BY DEF SyncRest, SyncModest
  <1>2. index' \in Index /\ (~index'.exists => index' = NoIndex)
    <2>1. Dropped \in Index /\ Ensured \in Index /\ Dropped = NoIndex
          /\ (~Ensured.exists => Ensured = NoIndex)
      BY DEF Dropped, NoIndex, Ensured, Index, SyncRest
    <2>2. ASSUME NEW l \in Lot, index' = [exists |-> TRUE, typed |-> index.typed,
                                          docs |-> index.docs \cup {l}]
          PROVE  index' \in Index /\ index'.exists
      BY <2>2 DEF SyncRest, Index
    <2> QED BY <2>1, <2>2 DEF SyncRest, SyncModest
  <1>3. {recent', alerted', night', lost'} \subseteq BOOLEAN
    BY DEF SyncRest, SyncModest
  <1>4. syncLeft' \in [fault : Nat, people : Nat, age : Nat]
    <2>1. ASSUME NEW kind \in {"fault", "people", "age"}, SpendSync(kind)
          PROVE  syncLeft' \in [fault : Nat, people : Nat, age : Nat]
      <3>1. syncLeft[kind] \in Nat /\ syncLeft[kind] > 0
        BY <2>1 DEF SyncRest, SpendSync
      <3>2. syncLeft[kind] - 1 \in Nat
        BY <3>1
      <3> QED BY <2>1, <3>2 DEF SyncRest, SpendSync
    <2> QED BY <2>1 DEF SyncRest, SyncModest, SyncPaid
  <1> QED BY <1>1, <1>2, <1>3, <1>4 DEF SyncRest

TypeInv == JobsRest /\ SyncRest

LEMMA TypeKeeps ==
    ASSUME PipeInv, QueueInv, FeedInv, TypeInv, [SyncNext]_<<jobsVars, syncVars>>
    PROVE  TypeInv'
  <1>1. CASE SyncNext
    BY <1>1, SyncIsModest, RestKeeps, OthersAreModest, TriggersKeep, SyncRestKeeps DEF TypeInv
  <1>2. CASE UNCHANGED <<jobsVars, syncVars>>
    <2>1. JobsRest'
      BY <1>2 DEF jobsVars, TypeInv, JobsRest
    <2>2. SyncRest'
      BY <1>2 DEF syncVars, TypeInv, SyncRest
    <2> QED BY <2>1, <2>2 DEF TypeInv
  <1> QED BY <1>1, <1>2

LEMMA TypeInit == JobsInit /\ SyncInit => TypeInv
  <1> SUFFICES ASSUME JobsInit, SyncInit
      PROVE  TypeInv
    OBVIOUS
  <1>1. tick.slots = 0
    BY Blanks DEF JobsInit
  <1>2. JobsRest
    BY <1>1 DEF JobsInit, JobsRest
  <1>3. Listed \in SUBSET Lot
    BY DEF Listed
  <1>4. SyncRest
    BY <1>3 DEF SyncInit, SyncRest, Index
  <1> QED BY <1>2, <1>4 DEF TypeInv

\* For any lots, feeds, messages in hand and runs: the import with its index and its
\* triggers, and the jobs, messages, ticks and retention runs of the pipeline have
\* their types at every moment.
THEOREM PipelineTyped == SyncSpec => []PipelineTypeOK
  <1>1. SyncSpec => []TypeInv
    BY TypeInit, TypeKeeps, PipeHolds, QueueHolds, FeedHolds, PTL DEF SyncSpec
  <1>2. PipeInv /\ QueueInv /\ FeedInv /\ TypeInv => PipelineTypeOK
    <2> SUFFICES ASSUME PipeInv, QueueInv, FeedInv, TypeInv
                 PROVE  PipelineTypeOK
      OBVIOUS
    <2>1. tick \in Tick
      BY DEF PipeInv, Shapes, TypeInv, JobsRest, Tick
    <2>2. JobsTypeOK
      BY <2>1 DEF PipeInv, Shapes, QueueInv, Counted, TypeInv, JobsRest, JobsTypeOK
    <2>3. SyncTypeOK
      BY DEF FeedInv, RunShapes, TypeInv, SyncRest, SyncTypeOK
    <2> QED BY <2>2, <2>3 DEF PipelineTypeOK
  <1> QED BY <1>1, <1>2, PipeHolds, QueueHolds, FeedHolds, PTL
=============================================================================
