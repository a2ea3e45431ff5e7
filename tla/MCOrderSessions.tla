-------------------------- MODULE MCOrderSessions --------------------------
(* Values for the constants of OrderSessions, and the symmetry of the small   *)
(* instances.                                                                 *)
EXTENDS OrderSessions, TLC

CONSTANTS v, x, y

MCVendorOf == [k \in Clients |-> v]

MCRetailPrice == [k \in Variants |-> IF k = x THEN 3 ELSE 5]
MCListPrice == [k \in Variants |-> IF k = x THEN 2 ELSE 4]

\* Orders that were created and then left alone.
MCFresh ==
  /\ \A s \in Sessions : ~OnOrder(s)
  /\ \A o \in DOMAIN orders : Len(history[o]) = 1

\* bound: one order, in one year and to its delivery, or several created around a New Year.
MCRacesBound == MCFresh \/ (year = FirstYear /\ Cardinality(DOMAIN orders) <= 1)

MCRacesSpec == Init /\ [][Next /\ MCRacesBound']_vars

\* bound: the orders of one year, or several created around a New Year.
MCExclusiveBound == MCFresh \/ year = FirstYear

MCExclusiveSpec == Init /\ [][Next /\ Exclusive' /\ MCExclusiveBound']_vars

\* Sessions and identifiers of orders are interchangeable.
MCSymmetry == Permutations(Sessions) \cup Permutations(OrderIds)

=============================================================================
