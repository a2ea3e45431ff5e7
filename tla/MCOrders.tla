------------------------------ MODULE MCOrders ------------------------------
(* Values for the constants of Orders that a cfg cannot write, and the        *)
(* symmetry of the small instances.                                           *)
EXTENDS Financials, TLC

CONSTANTS a, v, c, w, x, y

MCVendorOf == [k \in {c} |-> v]

\* Retail and list prices differ, and no two sets of lines cost the same.
MCRetailPrice == (x :> 3) @@ (y :> 5)
MCListPrice == (x :> 2) @@ (y :> 4)

MCSymmetry == Permutations(OrderIds)

=============================================================================
