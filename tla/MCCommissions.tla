---------------------------- MODULE MCCommissions ----------------------------
(* Values for the constants of Commissions.                                  *)
EXTENDS Commissions, TLC

CONSTANTS v1, v2, o1, o2, o3, o4

\* Two sales of one vendor, one of another, and a wholesale order.
MCSellerOf ==
  [o \in Parcels |-> IF o \in {o1, o2} THEN v1 ELSE IF o = o3 THEN v2 ELSE NoVendor]

\* 100.05 at 30 % is a tie between two cents; the sums of totals are distinct.
MCTotalOf ==
  [o \in Parcels |-> IF o \in {o1, o2} THEN 10005 ELSE IF o = o3 THEN 20000 ELSE 50000]

MCSymmetry == Permutations({o1, o2})

=============================================================================
