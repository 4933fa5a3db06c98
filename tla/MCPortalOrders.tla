--------------------------- MODULE MCPortalOrders ---------------------------
(* Small instances of PortalOrders for TLC.                                 *)
EXTENDS PortalOrders, TLC

CONSTANTS d1, i1, h1, h2, cash, lot1, lot2

\* A deposit and a cart of two lots.
MCTypeOf == (d1 :> "DEPOSIT") @@ (i1 :> "INSPECTION")
MCThingsOf == (d1 :> {cash}) @@ (i1 :> {lot1, lot2})

\* The deposit alone.
MCDepositType == d1 :> "DEPOSIT"
MCDepositThings == d1 :> {cash}
=============================================================================
