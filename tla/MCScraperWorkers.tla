-------------------------- MODULE MCScraperWorkers --------------------------
(* Small instances of ScraperWorkers for TLC.                               *)
EXTENDS ScraperWorkers, TLC

CONSTANTS w1, w2, a1, s1, s2, r1, r2

\* s1 is open from the first moment and closes within the day; s2 opens later.
MCStartOf == (s1 :> 0) @@ (s2 :> 1)

\* One sale, still to open.
MCLateStart == s1 :> 1

\* A sale late in the day: it closes after midnight, and a virtual machine has the
\* time to go silent before it opens.
MCMidnight == s1 :> 2

MCMailBox == a1 :> w1

\* No account is known by email.
MCNoMail == <<>>

MCSymmetry == Permutations(Request)

\* Without accounts the virtual machines are alike too.
MCSymmetryVM == MCSymmetry \cup Permutations(Worker)
=============================================================================
