------------------------ MODULE MCCommissionSessions ------------------------
(* Values for the constants of CommissionSessions.                           *)
EXTENDS CommissionSessions, TLC

CONSTANTS v1, v2, o1, o2, o3, o4

\* Two sales of one vendor, one of another if there is one, and wholesale orders.
MCSellerOf ==
  [o \in Parcels |-> IF o \in {o1, o2} THEN v1
                     ELSE IF o = o3 /\ v2 \in Vendors THEN v2 ELSE NoVendor]

\* Sums of totals are distinct, and 30 % of them is a number of cents.
MCTotalOf == [o \in Parcels |-> IF o = o1 THEN 100 ELSE IF o = o2 THEN 200 ELSE 400]

\* 100.05 at 30 % is a tie between two cents; quantities may be negative.
MCTiedTotalOf ==
  [o \in Parcels |-> IF o \in {o1, o2} THEN 10005 ELSE IF o = o3 THEN -20000 ELSE 50000]

MCSymmetry == Permutations(Sessions)

\* With MCTiedTotalOf, two orders are interchangeable as well.
MCTiedSymmetry == Permutations(Sessions) \cup Permutations({o1, o2})

=============================================================================
