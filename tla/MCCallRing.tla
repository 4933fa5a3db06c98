----------------------------- MODULE MCCallRing -----------------------------
(* Small instances of CallRing for TLC.                                     *)
EXTENDS CallRing, TLC

CONSTANTS a, b, h1, h2

\* Two agents at once, and the same two as the attempts of a round robin.
MCFlows == {[rings |-> <<<<a, b>>>>, robin |-> {}],
            [rings |-> <<<<a>>, <<b>>>>, robin |-> {1, 2}]}

MCSymmetry == Permutations(Handler)
=============================================================================
