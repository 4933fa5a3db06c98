------------------------------ MODULE AgentDeal ------------------------------
(***************************************************************************)
(* Scraper agents and the sales dealt to them: AgentAssignmentService of   *)
(* libs/common, of which every Nest module that provides it has an instance *)
(* with its own cron and its own running flag, and the staff operations of *)
(* ScraperAgentsService in apps/api.                                       *)
(*                                                                         *)
(* Every await is a step. Names, passwords and e-mails of the agents are   *)
(* left out, and so is the cap of 5000 sales of one pass.                  *)
(***************************************************************************)
EXTENDS SaleClock, Filters, FiniteSets, Functions, SequencesExt

CONSTANTS
    Agent,    \* accounts, existing or still to be created
    Stocked,  \* sales with items: totalAvailableItems > 0
    Desk,     \* instances of AgentAssignmentService
    Call,     \* removals in flight at once
    Nobody

ASSUME DealAssumption ==
    IsFiniteSet(Agent) /\ IsFiniteSet(Sale) /\ Stocked \subseteq Sale /\ Nobody \notin Agent

VARIABLES
    agent,     \* scraper_agents
    holder,    \* scraperAgentId of each sale
    locked,    \* between 8:00 and 23:00 in Houston
    pass,      \* runAssignment in flight, by instance; running is pc # "idle"
    call,      \* remove or bulkRemove in flight
    dealLeft   \* moves of staff and of the environment not yet used up

dealVars == <<agent, holder, locked, pass, call, dealLeft>>

-----------------------------------------------------------------------------
(* Records                                                                  *)

Given == [sale : Sale, to : Agent]

\* off: the process of the instance does not run.
Pass == [pc : {"off", "idle", "pending", "deal", "give"}, among : SUBSET Agent,
         todo : SUBSET Sale, plan : Seq(Given)]

NoPass == [pc |-> "idle", among |-> {}, todo |-> {}, plan |-> << >>]

\* watch: the agents of the call whose sales it has read and will not leave behind,
\* unless somebody has activated one again since it was set inactive (back);
\* given: the sales somebody else has given them since.
Removal == [pc : {"idle", "off", "read", "transfer", "others", "deal", "give", "delete"},
            bulk : BOOLEAN, how : {"transfer", "random", "release"}, to : Agent \cup {Nobody},
            all : SUBSET Agent, rest : SUBSET Agent, now : SUBSET Agent,
            among : SUBSET Agent, todo : SUBSET Sale, plan : Seq(Given),
            watch : SUBSET Agent, back : SUBSET Agent, given : SUBSET Sale]

NoRemoval == [pc |-> "idle", bulk |-> FALSE, how |-> "release", to |-> Nobody,
              all |-> {}, rest |-> {}, now |-> {}, among |-> {}, todo |-> {},
              plan |-> << >>, watch |-> {}, back |-> {}, given |-> {}]

Existing == {a \in Agent : agent[a] \in {"active", "inactive"}}

DealTypeOK ==
    /\ agent \in [Agent -> {"none", "active", "inactive", "gone"}]
    /\ holder \in [Sale -> Agent \cup {Nobody}]
    /\ locked \in BOOLEAN
    /\ pass \in [Desk -> Pass]
    /\ call \in [Call -> Removal]
    /\ dealLeft \in [remove : Nat, staff : Nat, fault : Nat]
    \* a sale is never left with an account that no longer exists
    /\ \A s \in Sale : holder[s] # Nobody => holder[s] \in Existing

-----------------------------------------------------------------------------
(* The deal                                                                 *)

Active == {a \in Agent : agent[a] = "active"}

\* currentLoad: future sales of each agent, with or without items.
Load(a) == Cardinality({s \in Future : holder[s] = a})

\* a is the first agent of order that has the least.
IsBest(order, count, a) ==
    \E i \in DOMAIN order :
        /\ order[i] = a
        /\ \A j \in DOMAIN order : \/ count[a] < count[order[j]]
                                   \/ count[a] = count[order[j]] /\ i <= j

\* Mutant: what is dealt does not count.
CountedNot(plan, i, a) == 0

\* The sales a has been dealt before the i-th.
Counted(plan, i, a) == Cardinality({j \in DOMAIN plan : j < i /\ plan[j].to = a})

\* deal: one sale after another to whoever has least; shuffled sales, and shuffled
\* agents to settle ties.
Deals(sales, agents) ==
    LET n == Cardinality(sales)
        Greedy(plan, order) ==
            \A i \in DOMAIN plan :
                IsBest(order, [a \in agents |-> Load(a) + Counted(plan, i, a)], plan[i].to)
    IN  {plan \in {[i \in 1..n |-> [sale |-> q[i], to |-> to[i]]] :
                      q \in SetToSeqs(sales), to \in [1..n -> agents]} :
            \E order \in SetToSeqs(agents) : Greedy(plan, order)}

\* One updateMany per agent, in the order the deal met them.
BatchOf(plan) == {g.sale : g \in {h \in ToSet(plan) : h.to = Head(plan).to}}

AfterBatch(plan) == Kept(plan, {g \in ToSet(plan) : g.to # Head(plan).to})

-----------------------------------------------------------------------------
(* Writes of sales and agents, with what the calls in flight must know      *)

Hand(S, a) == holder' = [s \in Sale |-> IF s \in S THEN a ELSE holder[s]]

Told(c, S, a) == IF a \in call[c].watch THEN [call[c] EXCEPT !.given = @ \cup S] ELSE call[c]

\* The sales S go to a.
Write(S, a) == Hand(S, a) /\ call' = [c \in Call |-> Told(c, S, a)]

\* A removal does it, and goes on.
WriteAnd(c, S, a, next) ==
    Hand(S, a) /\ call' = [e \in Call |-> IF e = c THEN next ELSE Told(e, S, a)]

\* Mutant: a deleted agent keeps its sales.
FreedNot(gone) == holder

\* ON DELETE SET NULL
Freed(gone) == [s \in Sale |-> IF holder[s] \in gone THEN Nobody ELSE holder[s]]

Spend(kind) == dealLeft[kind] > 0 /\ dealLeft' = [dealLeft EXCEPT ![kind] = @ - 1]

-----------------------------------------------------------------------------
(* runAssignment                                                            *)

\* releaseStale: sales that are over or have no items are nobody's.
Stale == (Sale \ Future) \cup (Sale \ Stocked)

\* Mutant: the early return leaves the flag up.
EndedEarlyStuck(d) == pass' = [pass EXCEPT ![d] = [NoPass EXCEPT !.pc = "give"]]

\* return inside try: finally lowers the flag.
EndedEarly(d) == pass' = [pass EXCEPT ![d] = NoPass]

\* The cron of an instance or the button of the calendar: releaseStale, then, unless
\* the instance has a pass in flight, the active agents.
Assign(d) ==
    /\ pass[d].pc # "off"
    /\ IF pass[d].pc # "idle" THEN UNCHANGED pass
       ELSE IF Active = {} THEN EndedEarly(d)
       ELSE pass' = [pass EXCEPT ![d].pc = "pending", ![d].among = Active]
    /\ Write(Stale, Nobody)
    /\ UNCHANGED <<agent, locked, dealLeft>>

Pending == {s \in Future \cap Stocked : holder[s] = Nobody}

ReadPending(d) ==
    /\ pass[d].pc = "pending"
    /\ IF Pending = {} THEN EndedEarly(d)
       ELSE pass' = [pass EXCEPT ![d].pc = "deal", ![d].todo = Pending]
    /\ UNCHANGED <<agent, holder, locked, call, dealLeft>>

\* currentLoad is read, the rest happens in memory.
PassDeals(d) ==
    /\ pass[d].pc = "deal"
    /\ \E plan \in Deals(pass[d].todo, pass[d].among) :
          pass' = [pass EXCEPT ![d] = [NoPass EXCEPT !.pc = "give", !.plan = plan]]
    /\ UNCHANGED <<agent, holder, locked, call, dealLeft>>

\* Only sales still without agent; an agent deleted meanwhile fails the foreign key,
\* and the exception ends the pass.
PassGives(d) ==
    /\ pass[d].pc = "give" /\ pass[d].plan # << >>
    /\ LET plan == pass[d].plan
           to   == Head(plan).to
           free == {s \in BatchOf(plan) : holder[s] = Nobody}
           rest == AfterBatch(plan)
       IN  IF free # {} /\ to \notin Existing
           THEN EndedEarly(d) /\ UNCHANGED <<holder, call>>
           ELSE /\ Write(free, to)
                /\ pass' = [pass EXCEPT ![d] = IF rest = << >> THEN NoPass
                                               ELSE [@ EXCEPT !.plan = rest]]
    /\ UNCHANGED <<agent, locked, dealLeft>>

PassStep(d) == ReadPending(d) \/ PassDeals(d) \/ PassGives(d)

-----------------------------------------------------------------------------
(* remove, bulkRemove                                                       *)

\* Mutant: the agent is not set inactive before its sales are dealt.
FirstActive(r) == "read"

\* What happens first to each agent of a removal.
First(r) == IF r.bulk /\ r.how = "random" THEN "off" ELSE "read"

\* The removal once the agent at hand is done: the next of its list, or the deletion.
Turn(r) ==
    LET done == [r EXCEPT !.now = {}, !.among = {}, !.todo = {}, !.plan = << >>]
    IN  IF r.how = "release" \/ r.rest = {} THEN {[done EXCEPT !.pc = "delete"]}
        ELSE {[done EXCEPT !.pc = First(r), !.now = {a}, !.rest = @ \ {a}] : a \in r.rest}

Set(c, r) == call' = [call EXCEPT ![c] = r]

\* assertEditable, getOrThrow and the checks of the target; remove takes any
\* existing target, the agent itself included. Idle calls are all the same.
StartRemoval(c) ==
    /\ call[c].pc = "idle" /\ c = CHOOSE e \in Call : call[e].pc = "idle"
    /\ ~locked /\ Spend("remove")
    /\ \E bulk \in BOOLEAN, how \in {"transfer", "random", "release"},
          ids \in (SUBSET {a \in Agent : agent[a] # "none"}) \ {{}}, to \in Agent \cup {Nobody} :
          /\ how = "transfer" <=> to # Nobody
          /\ to \in Existing \cup {Nobody}
          /\ IF bulk THEN to \notin ids ELSE \E a \in Existing : ids = {a}
          /\ \E r \in Turn([NoRemoval EXCEPT !.bulk = bulk, !.how = how, !.to = to,
                                             !.all = ids, !.rest = ids]) : Set(c, r)
    /\ UNCHANGED <<agent, holder, locked, pass>>

\* bulkRemove: inactive first, so that the next ones of the list do not get its sales.
SetInactive(c) ==
    /\ call[c].pc = "off"
    /\ agent' = [a \in Agent |-> IF a \in call[c].now /\ agent[a] = "active"
                                 THEN "inactive" ELSE agent[a]]
    /\ Set(c, [call[c] EXCEPT !.pc = "read"])
    /\ UNCHANGED <<holder, locked, pass, dealLeft>>

\* reassignFrom: the future sales of the agent at hand.
ReadSales(c) ==
    LET r    == call[c]
        mine == {s \in Future : holder[s] \in r.now}
        seen == [r EXCEPT !.watch = @ \cup (r.now \ (r.back \cup {r.to})),
                          !.todo = mine,
                          !.pc = IF r.how = "transfer" THEN "transfer" ELSE "others"]
    IN  /\ r.pc = "read"
        /\ \E next \in IF mine = {} THEN Turn(seen) ELSE {seen} : Set(c, next)
        /\ UNCHANGED <<agent, holder, locked, pass, dealLeft>>

\* An exception: what is moved is moved, nothing is deleted.
Throws(c) == Set(c, NoRemoval) /\ UNCHANGED holder

\* Every sale read goes to the target, whoever has it by now.
Transfer(c) ==
    LET r == call[c]
    IN  /\ r.pc = "transfer"
        /\ IF r.to \notin Existing \cup {Nobody} THEN Throws(c)
           ELSE \E next \in Turn(r) : WriteAnd(c, r.todo, r.to, next)
        /\ UNCHANGED <<agent, locked, pass, dealLeft>>

\* The other active agents; without any the sales are nobody's.
ReadOthers(c) ==
    LET r      == call[c]
        others == Active \ r.now
    IN  /\ r.pc = "others"
        /\ Set(c, [r EXCEPT !.pc = IF others = {} THEN "transfer" ELSE "deal",
                            !.among = others])
        /\ UNCHANGED <<agent, holder, locked, pass, dealLeft>>

RemovalDeals(c) ==
    LET r == call[c]
    IN  /\ r.pc = "deal"
        /\ \E plan \in Deals(r.todo, r.among) :
              Set(c, [r EXCEPT !.pc = "give", !.plan = plan, !.todo = {}, !.among = {}])
        /\ UNCHANGED <<agent, holder, locked, pass, dealLeft>>

RemovalGives(c) ==
    LET r    == call[c]
        to   == Head(r.plan).to
        rest == AfterBatch(r.plan)
    IN  /\ r.pc = "give"
        /\ IF to \notin Existing THEN Throws(c)
           ELSE \E next \in IF rest = << >> THEN Turn(r) ELSE {[r EXCEPT !.plan = rest]} :
                   WriteAnd(c, BatchOf(r.plan), to, next)
        /\ UNCHANGED <<agent, locked, pass, dealLeft>>

\* delete of one agent, which fails if it is gone, or deleteMany.
DeleteAgents(c) ==
    /\ call[c].pc = "delete"
    /\ agent' = [a \in Agent |-> IF a \in call[c].all THEN "gone" ELSE agent[a]]
    /\ holder' = Freed(call[c].all)
    /\ Set(c, NoRemoval)
    /\ UNCHANGED <<locked, pass, dealLeft>>

RemovalStep(c) ==
    \/ SetInactive(c) \/ ReadSales(c) \/ Transfer(c) \/ ReadOthers(c)
    \/ RemovalDeals(c) \/ RemovalGives(c) \/ DeleteAgents(c)

-----------------------------------------------------------------------------
(* The other operations of staff, and the environment                       *)

\* create and generate: an account, active.
Create ==
    /\ Spend("staff")
    /\ \E a \in Agent : agent[a] = "none" /\ agent' = [agent EXCEPT ![a] = "active"]
    /\ UNCHANGED <<holder, locked, pass, call>>

\* update and bulkSetActive: at any hour, and the agent keeps its sales.
Switch ==
    /\ Spend("staff")
    /\ \E a \in Agent :
          \/ /\ agent[a] = "active"
             /\ agent' = [agent EXCEPT ![a] = "inactive"] /\ UNCHANGED call
          \/ /\ agent[a] = "inactive"
             /\ agent' = [agent EXCEPT ![a] = "active"]
             /\ call' = [c \in Call |-> [call[c] EXCEPT
                            !.watch = @ \ {a},
                            !.back = IF call[c].pc = "idle" THEN @ ELSE @ \cup {a}]]
    /\ UNCHANGED <<holder, locked, pass>>

\* reassignEntry: any sale of the calendar, to an existing agent.
Reassign ==
    /\ ~locked /\ Spend("staff")
    /\ \E s \in Sale, a \in Existing : Write({s}, a)
    /\ UNCHANGED <<agent, locked, pass>>

\* 8:00 and 23:00
HourStrikes ==
    /\ Spend("fault")
    /\ locked' = ~locked
    /\ UNCHANGED <<agent, holder, pass, call>>

\* The processes restart: what was in flight is gone, the flags are down.
Restart ==
    /\ Spend("fault")
    /\ pass' = [d \in Desk |-> IF pass[d].pc = "off" THEN pass[d] ELSE NoPass]
    /\ call' = [c \in Call |-> NoRemoval]
    /\ UNCHANGED <<agent, holder, locked>>

-----------------------------------------------------------------------------
DealInit ==
    /\ agent \in [Agent -> {"none", "active", "inactive"}]
    /\ holder = [s \in Sale |-> Nobody]
    /\ locked \in BOOLEAN
    /\ pass \in [Desk -> {NoPass, [NoPass EXCEPT !.pc = "off"]}]
    /\ \E d \in Desk : pass[d].pc # "off"
    /\ call = [c \in Call |-> NoRemoval]
    /\ dealLeft \in [remove : Nat, staff : Nat, fault : Nat]

DealStep ==
    \/ \E d \in Desk : Assign(d) \/ PassStep(d)
    \/ \E c \in Call : StartRemoval(c) \/ RemovalStep(c)
    \/ Create \/ Switch \/ Reassign \/ HourStrikes \/ Restart

\* The crons run every day, and a pass in flight goes on.
DealFairness ==
    \A d \in Desk :
        /\ WF_dealVars(pass[d].pc = "idle" /\ UNCHANGED phase /\ Assign(d))
        /\ WF_dealVars(UNCHANGED phase /\ PassStep(d))

-----------------------------------------------------------------------------
(* Properties                                                               *)

\* What a deal promises: every sale it was given is dealt once, and nobody who got
\* one ends more than one above anybody else.
Level(sales, among, plan) ==
    LET got(a) == Cardinality({i \in DOMAIN plan : plan[i].to = a})
    IN  /\ Len(plan) = Cardinality(sales) /\ {g.sale : g \in ToSet(plan)} = sales
        /\ \A a, b \in among : got(a) > 0 => Load(a) + got(a) <= Load(b) + got(b) + 1

\* A pass deals the free sales, and a removal those of the agent, level on top of
\* what the agents already have (agent-assignment.service.ts, deal).
DealIsLevel ==
    [][/\ \A d \in Desk : pass[d].pc = "deal" /\ pass'[d].pc = "give" =>
             Level(pass[d].todo, pass[d].among, pass'[d].plan)
       /\ \A c \in Call : call[c].pc = "deal" /\ call'[c].pc = "give" =>
             Level(call[c].todo, call[c].among, call'[c].plan)]_<<clockVars, dealVars>>

\* A deletion that moves sales leaves none of an agent's future sales behind, but
\* those somebody else gave it after its list was read, and those of an agent
\* activated again meanwhile or transferred to itself (remove, bulkRemove).
AgentsWorkIsKept ==
    [][\A a \in Existing : agent'[a] = "gone" =>
          \E c \in Call :
             /\ call[c].pc = "delete" /\ a \in call[c].all
             /\ a \in call[c].watch =>
                  {s \in Future : holder[s] = a} \subseteq call[c].given
      ]_<<clockVars, dealVars>>

\* Sales that could have an agent.
Waiting == {s \in Pending : Active # {}}

\* The coming sales with items get their agents, as long as there are any: whatever
\* ended an earlier pass, and whatever was deleted under it (assignPending).
UnassignedIsDealt == Waiting # {} ~> Waiting = {}
=============================================================================
