----------------------------- MODULE AuctionDay -----------------------------
(* One auction day: the sales of the calendar are dealt to the agents in the  *)
(* night, watched by the monitor while they run, and their results stored.    *)
EXTENDS AgentDeal, MonitorSessions

DayStep ==
    \/ DealStep /\ UNCHANGED <<clockVars, MonitorVars>>
    \/ MonitorStep /\ UNCHANGED <<clockVars, dealVars>>
    \/ \E s \in Sale : TimePasses(s) /\ UNCHANGED <<dealVars, MonitorVars>>

DayFairness == DealFairness /\ MonitorFairness

\* The state of the three services that share the day has its types at every moment:
\* the agents' deal, the sink of the results and the monitor's sessions.
DayTypeOK == DealTypeOK /\ SinkTypeOK /\ MonitorTypeOK
=============================================================================
