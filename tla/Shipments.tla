------------------------------ MODULE Shipments ------------------------------
(***************************************************************************)
(* Shipments of delivered orders (delivery/service.py), made by requests   *)
(* that overlap each other and the orders' own changes.  A request loads    *)
(* its orders one by one, inserts the shipment, reads the delivery person  *)
(* and commits; nothing is locked in between.                              *)
(*                                                                         *)
(* Orders has the life of an order; here an order is only in               *)
(* delivered_to_vendor or not.  All orders count the same amount.          *)
(***************************************************************************)
EXTENDS Naturals, Sequences, FiniteSets, FiniteSetsExt

CONSTANTS
  ShipOrders, Vendors, VendorOf,
  Persons,        \* those a request may name
  Couriers,       \* those of table delivery_persons
  Clerks,         \* bound: the requests served at the same time
  OrderLists,     \* the lists of orders a request may have
  MaxShipments    \* bound: the rows of shipments

ASSUME ShipmentsAssumption ==
  /\ Couriers \subseteq Persons
  /\ VendorOf \in [ShipOrders -> Vendors]
  /\ OrderLists \subseteq Seq(ShipOrders)
  /\ MaxShipments \in Nat

VARIABLES
  delivered,   \* the orders in delivered_to_vendor
  shipmentOf,  \* order.shipment_id, 0 for NULL
  shipments,   \* table shipments
  deliveries,  \* delivery_person.total_deliveries
  clerk        \* what each request holds

shipVars == <<delivered, shipmentOf, shipments, deliveries, clerk>>

AtDesk == [stage |-> "none", person |-> 0, vendor |-> 0, asked |-> <<>>,
           loaded |-> <<>>, deliveries |-> 0]

ShipInit ==
  /\ delivered = {}
  /\ shipmentOf = [o \in ShipOrders |-> 0]
  /\ shipments = <<>>
  /\ deliveries = [p \in Couriers |-> 0]
  /\ clerk = [c \in Clerks |-> AtDesk]

\* The orders' own life.
OrderMoves ==
  /\ \E o \in ShipOrders :
       delivered' = IF o \in delivered THEN delivered \ {o} ELSE delivered \cup {o}
  /\ UNCHANGED <<shipmentOf, shipments, deliveries, clerk>>

CreateShipment(c, p, v, list) ==
  /\ clerk[c].stage = "none"
  /\ Len(shipments) < MaxShipments
  /\ clerk' = [clerk EXCEPT ![c] = [AtDesk EXCEPT !.stage = "load", !.person = p,
                                                  !.vendor = v, !.asked = list]]
  /\ UNCHANGED <<delivered, shipmentOf, shipments, deliveries>>

LoadedOf(c) == {clerk[c].loaded[i] : i \in DOMAIN clerk[c].loaded}

\* Faulty: does not look at the vendor.
Accepts_AnyVendor(c, o) == o \in delivered

\* What an order has to be for the shipment.  Whether it has one already is not
\* looked at, nor whose delivery it was, nor whether the list has it twice: the
\* second query answers with the row that the session has already loaded.
Accepts(c, o) ==
  /\ VendorOf[o] = clerk[c].vendor
  /\ o \in delivered \cup LoadedOf(c)

LoadOrder(c) ==
  LET r == clerk[c]
      o == Head(r.asked)
  IN
  /\ r.stage = "load" /\ r.asked # <<>>
  /\ clerk' = [clerk EXCEPT ![c] =
       IF Accepts(c, o)
       THEN [r EXCEPT !.asked = Tail(r.asked), !.loaded = Append(r.loaded, o)]
       ELSE AtDesk]
  /\ UNCHANGED <<delivered, shipmentOf, shipments, deliveries>>

\* The flush of the shipment fails for a person who is not there.
InsertShipment(c) ==
  LET r == clerk[c] IN
  /\ r.stage = "load" /\ r.asked = <<>>
  /\ clerk' = [clerk EXCEPT ![c] =
       IF r.person \in Couriers
       THEN [r EXCEPT !.stage = "commit", !.deliveries = deliveries[r.person]]
       ELSE AtDesk]
  /\ UNCHANGED <<delivered, shipmentOf, shipments, deliveries>>

\* order_count, and total_amount as all orders count the same.
Counted(c) == Len(clerk[c].loaded)

CommitShipment(c) ==
  LET r == clerk[c] IN
  /\ r.stage = "commit"
  /\ Len(shipments) < MaxShipments
  /\ shipments' = Append(shipments, [person |-> r.person, vendor |-> r.vendor,
                                     count |-> Counted(c)])
  /\ shipmentOf' = [o \in ShipOrders |->
       IF o \in LoadedOf(c) THEN Len(shipments) + 1 ELSE shipmentOf[o]]
  /\ deliveries' = [deliveries EXCEPT ![r.person] = r.deliveries + Len(r.loaded)]
  /\ clerk' = [clerk EXCEPT ![c] = AtDesk]
  /\ UNCHANGED delivered

ShipNext ==
  \/ OrderMoves
  \/ \E c \in Clerks :
       \/ \E p \in Persons, v \in Vendors, list \in OrderLists : CreateShipment(c, p, v, list)
       \/ LoadOrder(c)
       \/ InsertShipment(c)
       \/ CommitShipment(c)

ShipSpec == ShipInit /\ [][ShipNext]_shipVars

-----------------------------------------------------------------------------
(* Properties.                                                              *)

LinkedTo(s) == {o \in ShipOrders : shipmentOf[o] = s}

ShipmentsBy(p) == {s \in DOMAIN shipments : shipments[s].person = p}

\* Overlapping requests lose deliveries and ship an order twice, but nothing is made
\* up: a shipment's count covers the orders that are linked to it, all of its vendor,
\* and a person is credited with no more than the person's shipments count.
ShipmentsCover ==
  /\ \A s \in DOMAIN shipments :
       /\ Cardinality(LinkedTo(s)) <= shipments[s].count
       /\ \A o \in LinkedTo(s) : VendorOf[o] = shipments[s].vendor
  /\ \A p \in Couriers :
       deliveries[p] <= MapThenSumSet(LAMBDA s : shipments[s].count, ShipmentsBy(p))

=============================================================================
