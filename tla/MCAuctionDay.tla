---------------------------- MODULE MCAuctionDay ----------------------------
(* Small instances of AuctionDay for TLC.                                     *)
EXTENDS AuctionDay

CONSTANTS a1, a2, a3, s1, s2, d1, d2, c1, c2

Shown(tick, sold) == [lot |-> 1, tick |-> tick, sold |-> sold]

MCEvent == {Shown(1, FALSE), Shown(2, FALSE), Shown(3, TRUE)}

\* Work for the agents' deal with the monitor paused, by one or two instances of the
\* service; for the monitor without agents.
DealPlan(desks, active, inactive, remove, staff, fault, days) ==
    [desks |-> desks,
     agents |-> [a \in Agent |-> IF a \in active THEN "active"
                                 ELSE IF a \in inactive THEN "inactive" ELSE "none"],
     deal |-> [remove |-> remove, staff |-> staff, fault |-> fault],
     live |-> {}, off |-> TRUE, at |-> "soon", days |-> days,
     watch |-> [staff |-> 0, fault |-> 0], sink |-> [frame |-> 0, fault |-> 0]]

WatchPlan(live, at, staff, fault, frame, error, days) ==
    [desks |-> {d1},
     agents |-> [a \in Agent |-> "none"],
     deal |-> [remove |-> 0, staff |-> 0, fault |-> 0],
     live |-> live, off |-> FALSE, at |-> at, days |-> days,
     watch |-> [staff |-> staff, fault |-> fault], sink |-> [frame |-> frame, fault |-> error]]

Plans ==
    {DealPlan({d1, d2}, {a1, a2}, {}, 0, 1, 0, 0),
     DealPlan({d1}, {a1, a2}, {}, 1, 1, 0, 0), DealPlan({d1}, {a1}, {a2}, 2, 0, 0, 0),
     DealPlan({d1}, {a1}, {a2}, 0, 1, 1, 1), DealPlan({d1}, {a1, a2}, {}, 1, 0, 1, 0),
     WatchPlan({s1}, "on", 0, 0, 2, 0, 0), WatchPlan({s1}, "on", 0, 0, 1, 2, 0),
     WatchPlan({s1}, "on", 1, 1, 0, 0, 0), WatchPlan({s1}, "on", 0, 2, 0, 0, 0),
     WatchPlan({s1}, "on", 0, 1, 1, 0, 0), WatchPlan({s1, s2}, "soon", 0, 0, 0, 0, 2),
     WatchPlan({}, "soon", 1, 0, 0, 0, 1)}

Init ==
    \E p \in Plans :
        /\ pass = [d \in Desk |-> IF d \in p.desks THEN NoPass
                                  ELSE [NoPass EXCEPT !.pc = "off"]]
        /\ agent = p.agents /\ dealLeft = p.deal /\ locked = FALSE
        /\ monitored = p.live /\ halted = p.off /\ watchLeft = p.watch
        /\ sinkLeft = p.sink /\ daysLeft = p.days
        /\ phase = [s \in Sale |-> p.at]
        /\ DealInit /\ MonitorInit /\ SinkInit

Spec == Init /\ [][DayStep]_<<clockVars, dealVars, MonitorVars>> /\ DayFairness
=============================================================================
