----------------------------- MODULE Commissions -----------------------------
(***************************************************************************)
(* What a vendor earns.  Delivering a retail order adds its total and the  *)
(* commission on it to the vendor's period of the running week             *)
(* (_register_vendor_commission in orders/service.py); an admin may compute*)
(* the previous week again from its orders, pay a period, and change the   *)
(* percentage of a vendor (commissions/, vendors/).  Here no two requests  *)
(* overlap; CommissionSessions cuts them at their queries.                 *)
(*                                                                         *)
(* Amounts are in cents and percentages in hundredths of a percent, as the *)
(* NUMERIC columns keep them.  net_commission always equals the amount, and*)
(* gross_sales_amount and cost_amount are added up beside the base in the  *)
(* same statements: the three are left out.  Dates are numbers of weeks.   *)
(***************************************************************************)
EXTENDS Integers, Sequences, FiniteSets, FiniteSetsExt, SequencesExt

CONSTANTS
  Vendors,
  NoVendor,       \* the NULL vendor_id of a wholesale order
  Parcels,        \* orders on their way to the client
  SellerOf,       \* vendor_id of an order
  TotalOf,        \* total of an order; nothing keeps quantities, or it, from being negative
  Percentages,    \* commission_percentage an admin may give a vendor, 0 included
  NoPercentage,   \* the NULL commission_percentage
  ActivePercentage,   \* get_active_commission_percentage: settings, else 30.00
  MaxWeek         \* bound: the last week

ASSUME CommissionsAssumption ==
  /\ SellerOf \in [Parcels -> Vendors \cup {NoVendor}]
  /\ TotalOf \in [Parcels -> Int]
  /\ Percentages \subseteq Int /\ ActivePercentage \in Int
  /\ NoVendor \notin Vendors /\ NoPercentage \notin Int
  /\ MaxWeek \in Nat \ {0} /\ IsFiniteSet(Vendors)

VARIABLES
  sold,         \* delivered orders: identifier -> week of delivered_at, and the
                \* commission registered for it, which no table keeps
  percentage,   \* vendors.commission_percentage
  periods,      \* table commission_periods, in order of insertion
  week          \* the week of utcnow()

vars == <<sold, percentage, periods, week>>

-----------------------------------------------------------------------------
(* Computing a commission.                                                  *)

\* Python's round of a Decimal: to the nearest, and a tie to the even one.
RoundHalfEven(n, d) ==
  LET q == n \div d
      tie == 2 * (n % d) = d
  IN IF 2 * (n % d) > d \/ (tie /\ q % 2 = 1) THEN q + 1 ELSE q

Commission(total, pct) == RoundHalfEven(total * pct, 10000)

\* A percentage of 0 is false in Python, so it counts as none given.
PercentageOf(v) ==
  IF percentage[v] \in {NoPercentage, 0} THEN ActivePercentage ELSE percentage[v]

\* The retail orders of a vendor delivered in a week.
SoldIn(v, w) == {o \in DOMAIN sold : SellerOf[o] = v /\ sold[o].week = w}

SumOfTotals(S) == MapThenSumSet(LAMBDA o : TotalOf[o], S)

Sales(v, w) == SumOfTotals(SoldIn(v, w))

Earned(v, w) == MapThenSumSet(LAMBDA o : sold[o].earned, SoldIn(v, w))

-----------------------------------------------------------------------------
(* The rows of commission_periods.                                          *)

PeriodRows ==
  [vendor: Vendors, week: 0..MaxWeek, base: Int, amount: Int, rate: Int,
   status: {"pending", "paid"}]

\* Faulty: keeps the vendor's own percentage, which may be none.
NewPeriod_OwnRate(v, w, base, pct) ==
  [vendor |-> v, week |-> w, base |-> base, amount |-> Commission(base, pct),
   rate |-> percentage[v], status |-> "pending"]

NewPeriod(v, w, base, pct) ==
  [vendor |-> v, week |-> w, base |-> base, amount |-> Commission(base, pct),
   rate |-> pct, status |-> "pending"]

\* Faulty: ignores the week.
Matching_AnyWeek(v, w) == {p \in DOMAIN periods : periods[p].vendor = v}

\* The query of a vendor's period; .first() takes any of the rows it finds.
Matching(v, w) == {p \in DOMAIN periods : periods[p].vendor = v /\ periods[p].week = w}

\* Faulty: forgets the base.
Accrued_AmountOnly(row, total, pct) ==
  [row EXCEPT !.amount = @ + Commission(total, pct)]

\* Faulty: rounds the whole instead of adding the rounded part.
Accrued_RoundsTheSum(row, total, pct) ==
  [row EXCEPT !.base = @ + total, !.amount = Commission(row.base + total, pct)]

\* The rate of the row stays the one of the order that opened the period.
Accrued(row, total, pct) ==
  [row EXCEPT !.base = @ + total, !.amount = @ + Commission(total, pct)]

\* Faulty: a recalculated period is pending again.
Recalculated_Reopens(row, base, pct) == NewPeriod(row.vendor, row.week, base, pct)

\* Computed from scratch, whatever the status of the period.
Recalculated(row, base, pct) ==
  [row EXCEPT !.base = base, !.amount = Commission(base, pct), !.rate = pct]

-----------------------------------------------------------------------------

Init ==
  /\ sold = <<>>
  /\ percentage \in [Vendors -> Percentages \cup {NoPercentage}]
  /\ periods = <<>>
  /\ week = 1

\* An order reaches delivered_to_client.
Deliver(o) ==
  LET v == SellerOf[o]
      total == TotalOf[o]
      pct == PercentageOf(v)
      delivery == [week |-> week, earned |-> IF v = NoVendor THEN 0 ELSE Commission(total, pct)]
  IN
  /\ o \notin DOMAIN sold
  /\ sold' = [x \in DOMAIN sold \cup {o} |-> IF x = o THEN delivery ELSE sold[x]]
  /\ \/ v = NoVendor /\ UNCHANGED periods
     \/ /\ v # NoVendor
        /\ \E p \in Matching(v, week) :
             periods' = [periods EXCEPT ![p] = Accrued(@, total, pct)]
     \/ /\ v # NoVendor
        /\ Matching(v, week) = {}
        /\ periods' = Append(periods, NewPeriod(v, week, total, pct))
  /\ UNCHANGED <<percentage, week>>

\* POST /admin/commissions/calculate, always of the week before this one.
Recalculate ==
  LET w == week - 1
      sellers == {v \in Vendors : SoldIn(v, w) # {}}
      known == {v \in sellers : Matching(v, w) # {}}
      again(row) == Recalculated(row, Sales(row.vendor, w), PercentageOf(row.vendor))
      opened(v) == NewPeriod(v, w, Sales(v, w), PercentageOf(v))
  IN
  /\ \E first \in [known -> DOMAIN periods], fresh \in SetToSeqs(sellers \ known) :
       /\ \A v \in known : first[v] \in Matching(v, w)
       /\ periods' =
            [p \in DOMAIN periods |->
               IF \E v \in known : first[v] = p THEN again(periods[p]) ELSE periods[p]]
            \o [i \in DOMAIN fresh |-> opened(fresh[i])]
  /\ UNCHANGED <<sold, percentage, week>>

\* PATCH /admin/commissions/{id}/confirm
Pay(p) ==
  /\ periods[p].status # "paid"
  /\ periods' = [periods EXCEPT ![p].status = "paid"]
  /\ UNCHANGED <<sold, percentage, week>>

\* PATCH /admin/vendors/{id}: a percentage of NULL is skipped, not stored.
SetPercentage(v, pct) ==
  /\ percentage' = [percentage EXCEPT ![v] = pct]
  /\ UNCHANGED <<sold, periods, week>>

\* Monday comes.
NextWeek ==
  /\ week < MaxWeek
  /\ week' = week + 1
  /\ UNCHANGED <<sold, percentage, periods>>

Next ==
  \/ \E o \in Parcels : Deliver(o)
  \/ Recalculate
  \/ \E p \in DOMAIN periods : Pay(p)
  \/ \E v \in Vendors, pct \in Percentages : SetPercentage(v, pct)
  \/ NextWeek

Spec == Init /\ [][Next]_vars

-----------------------------------------------------------------------------
(* Types.                                                                  *)

\* Every column holds a value of its type, and only vendors have periods.
TypeOK ==
  /\ DOMAIN sold \subseteq Parcels
  /\ sold \in [DOMAIN sold -> [week: 1..MaxWeek, earned: Int]]
  /\ percentage \in [Vendors -> Percentages \cup {NoPercentage}]
  /\ periods \in Seq(PeriodRows)
  /\ week \in 1..MaxWeek

(* What the two ways of computing a period keep true.                      *)

\* A vendor has one period for each week with a retail sale and none for
\* another, and its base is what was sold: deliveries that add to it one by one
\* and a recalculation of the whole week come to the same base.
BaseIsSales ==
  \A v \in Vendors, w \in 1..week :
    IF SoldIn(v, w) = {} THEN Matching(v, w) = {}
    ELSE \E p \in DOMAIN periods :
           Matching(v, w) = {p} /\ periods[p].base = Sales(v, w)

\* A period pays each order at the percentage of the day it was delivered,
\* rounded order by order, until it is recalculated; from then on, the whole
\* base at the one rate the row shows.
AmountExplained ==
  \A p \in DOMAIN periods :
    LET row == periods[p] IN
    \/ row.amount = Earned(row.vendor, row.week)
    \/ row.week < week /\ row.amount = Commission(row.base, row.rate)

\* Two weeks later a period can only be paid: nothing changes what it says was
\* sold and earned.
ClosedWeeks ==
  [][\A p \in DOMAIN periods : periods[p].week < week - 1 =>
       periods'[p] = [periods[p] EXCEPT !.status = periods'[p].status]]_vars

\* A payment is never taken back, and no period goes away or changes hands.
PaidStaysPaid ==
  [][\A p \in DOMAIN periods :
       /\ p \in DOMAIN periods'
       /\ periods'[p].vendor = periods[p].vendor /\ periods'[p].week = periods[p].week
       /\ periods[p].status = "paid" => periods'[p].status = "paid"]_vars

(* What the docstring of calculate_commissions_for_week promises: the same     *)
(* formula on both sides, so that a recalculation does not replace the         *)
(* accumulated amount by another.                                              *)

\* With no sale and no change of percentage ever made, computing a period again
\* leaves its amount as it was.
RecalculationAgrees ==
  [][sold' = sold => \A p \in DOMAIN periods : periods'[p].amount = periods[p].amount]_vars

=============================================================================
