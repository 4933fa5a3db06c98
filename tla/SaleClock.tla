------------------------------ MODULE SaleClock ------------------------------
(* The calendar's sales and the time of day, as the agents' deal and the live *)
(* monitor see them.                                                          *)
EXTENDS Integers

CONSTANT Sale   \* calendar entries

VARIABLES
    phase,    \* where each sale is in its day
    daysLeft  \* sales that may still move on

clockVars == <<phase, daysLeft>>

\* soon: within leadMinutes; past: maxDurationMinutes after its start, or ended.
Phases == {"ahead", "soon", "on", "past"}

\* startedAt >= now and not ended
Future == {s \in Sale : phase[s] \in {"ahead", "soon"}}

\* A sale comes nearer, starts, or is over.
TimePasses(s) ==
    /\ daysLeft > 0 /\ daysLeft' = daysLeft - 1
    /\ \E next \in {<<"ahead", "soon">>, <<"soon", "on">>, <<"on", "past">>} :
          phase[s] = next[1] /\ phase' = [phase EXCEPT ![s] = next[2]]
=============================================================================
