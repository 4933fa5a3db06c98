------------------------------ MODULE SaleDeal ------------------------------
(***************************************************************************)
(* What dealing the day's sales to the virtual machines promises, whatever *)
(* requests, cron jobs and staff race inside it: a sale has one holder, it *)
(* is given only while nobody holds it, it passes through nobody from one  *)
(* machine to another, and a machine is told to open what it holds.        *)
(***************************************************************************)
EXTENDS Naturals

CONSTANTS
    VM,      \* the virtual machines
    Sale,    \* the sales of the calendar
    Nobody   \* the holder of a free sale

VARIABLES
    holder,    \* who has each sale
    open,      \* what each machine was last told to open
    lifted,    \* the sales that have changed hands at least once
    calendar   \* which calendar is in force

dealVars == <<holder, open, lifted, calendar>>

DealInit ==
    /\ holder = [s \in Sale |-> Nobody]
    /\ open = [w \in VM |-> {}]
    /\ lifted = {}
    /\ calendar = 0

\* A claim: free sales get a holder, all of them the same one.
Give(w) ==
    /\ \E S \in SUBSET {s \in Sale : holder[s] = Nobody} :
          holder' = [s \in Sale |-> IF s \in S THEN w ELSE holder[s]]
    /\ UNCHANGED <<open, lifted, calendar>>

\* A release, by a cron job or by staff, and never without a trace.
TakeBack ==
    /\ \E S \in SUBSET Sale :
          /\ holder' = [s \in Sale |-> IF s \in S THEN Nobody ELSE holder[s]]
          /\ lifted' = lifted \cup {s \in S : holder[s] # Nobody}
    /\ UNCHANGED <<open, calendar>>

\* An answer names sales of the machine it goes to, or sales that have moved since
\* the request first looked.
Answer(w) ==
    /\ \E S \in SUBSET Sale :
          /\ \A s \in S \ lifted : holder[s] = w
          /\ open' = [open EXCEPT ![w] = S]
    /\ UNCHANGED <<holder, lifted, calendar>>

\* A new calendar keeps the holder of a sale or drops it; only a sale that has
\* changed hands meanwhile may come back to somebody else.
Replace ==
    /\ \A s \in Sale : holder'[s] \in {holder[s], Nobody} \/ s \in lifted
    /\ holder' \in [Sale -> VM \cup {Nobody}]
    /\ lifted' = lifted \cup {s \in Sale : holder[s] # Nobody /\ holder'[s] # holder[s]}
    /\ calendar' = calendar + 1
    /\ UNCHANGED open

DealNext ==
    \/ \E w \in VM : Give(w) \/ Answer(w)
    \/ TakeBack \/ Replace

DealSpec == DealInit /\ [][DealNext]_dealVars
=============================================================================
