------------------------- MODULE MCDepositReleases -------------------------
(* Small instances of DepositReleases for TLC.                              *)
EXTENDS DepositReleases, TLC

CONSTANTS d1, d2, h1, cash, x1, x2, k1, c1, c2

\* Two deposits of different amounts.
MCTypeOf == (d1 :> "DEPOSIT") @@ (d2 :> "DEPOSIT")
MCThingsOf == (d1 :> {cash}) @@ (d2 :> {cash})
MCAmount == (d1 :> 1) @@ (d2 :> 2)

\* One deposit.
MCOneType == d1 :> "DEPOSIT"
MCOneThing == d1 :> {cash}
MCOneAmount == d1 :> 1

MCSymmetry == Permutations(Release) \cup Permutations(Clerk)
=============================================================================
