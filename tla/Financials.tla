------------------------------ MODULE Financials ------------------------------
(***************************************************************************)
(* What the reports of financials/service.py say of the orders.  Both read *)
(* the orders delivered to their clients and change nothing.  The financial*)
(* report (get_financial_report) adds up their lines, the dashboard        *)
(* (get_dashboard) their totals.  The dates that select the orders are left *)
(* out: both reports are taken over the same ones.                         *)
(***************************************************************************)
EXTENDS Orders

Delivered == {o \in DOMAIN orders : orders[o].status = "delivered_to_client"}

\* Faulty: without the filter on cancelled_in_partial.
ItemRevenue_AllLines(o) == LineSum(lines[o], DOMAIN lines[o])

\* The lines of an order that the report counts.
ItemRevenue(o) == LineSum(lines[o], AvailableLines(lines[o], cancelled[o]))

WholesaleRevenue == MapThenSumSet(ItemRevenue, {o \in Delivered : orders[o].sale = "wholesale"})

RetailRevenue == MapThenSumSet(ItemRevenue, {o \in Delivered : orders[o].sale # "wholesale"})

GrossRevenue == MapThenSumSet(ItemRevenue, Delivered)

TodaysRevenue == MapThenSumSet(LAMBDA o : orders[o].total, Delivered)

-----------------------------------------------------------------------------
(* Properties.                                                              *)

\* The two reports differ by the lines marked unavailable of the orders whose client
\* confirmed them without partial-accept, which the dashboard still counts, and by
\* nothing else; the report's two parts make its whole.
RevenuesReconcile ==
  /\ GrossRevenue = RetailRevenue + WholesaleRevenue
  /\ TodaysRevenue = GrossRevenue
       + MapThenSumSet(LAMBDA o : LineSum(lines[o], cancelled[o]),
                 {o \in Delivered : ~orders[o].accepted})

=============================================================================
