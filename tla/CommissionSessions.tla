-------------------------- MODULE CommissionSessions --------------------------
(***************************************************************************)
(* The periods of Commissions as requests really keep them.  A request     *)
(* reads the order or the period it works on, computes in memory and       *)
(* writes the result when it commits; other requests commit in between, and*)
(* the week may end in between.  No query locks a row, and no constraint   *)
(* keeps two periods of the same vendor and week out.                      *)
(*                                                                         *)
(* A vendor's percentage is read in the same step as the period: nothing   *)
(* relates the two.                                                        *)
(***************************************************************************)
EXTENDS Commissions

CONSTANT Sessions   \* bound: the requests served at the same time

VARIABLE tx   \* what each session holds in memory

tables == <<sold, percentage, periods, week>>
svars == <<sold, percentage, periods, week, tx>>

-----------------------------------------------------------------------------

Idle == [op |-> "idle"]

NoRow == 0   \* no period was found, and the session will insert one

SInit == Init /\ tx = [s \in Sessions |-> Idle]

Hold(s, held) == tx' = [tx EXCEPT ![s] = held]

\* Faulty: writes the whole row back.
Merge_WholeRow(old, new, current) == new

\* UPDATE commission_periods: the columns whose value the session changed, and
\* no others.
Merge(old, new, current) ==
  [col \in DOMAIN current |-> IF new[col] # old[col] THEN new[col] ELSE current[col]]

\* The table after a session's inserts and updates; a write has the identifier
\* of a row, or NoRow, and the row as it was read and as it was left.
Written(writes) ==
  LET inserts == SetToSeq({i \in DOMAIN writes : writes[i].id = NoRow})
      toRow(p) == {i \in DOMAIN writes : writes[i].id = p}
  IN [p \in DOMAIN periods |->
        IF toRow(p) = {} THEN periods[p]
        ELSE LET x == writes[CHOOSE i \in toRow(p) : TRUE]
             IN Merge(x.old, x.new, periods[p])]
     \o [k \in DOMAIN inserts |-> writes[inserts[k]].new]

Write(p, old, new) == [id |-> p, old |-> old, new |-> new]

Insert(row) == Write(NoRow, row, row)

-----------------------------------------------------------------------------
(* PATCH /orders/{id}/status, to delivered_to_client.                       *)

\* Faulty: does not see that the order was delivered.
LoadOrder_Again(s, o) ==
  /\ tx[s] = Idle
  /\ Hold(s, [op |-> "deliver", order |-> o, week |-> week])
  /\ UNCHANGED tables

\* The order is loaded, checked and stamped with delivered_at.
LoadOrder(s, o) ==
  /\ tx[s] = Idle
  /\ o \notin DOMAIN sold
  /\ Hold(s, [op |-> "deliver", order |-> o, week |-> week])
  /\ UNCHANGED tables

\* _register_vendor_commission asks for today's date again, and reads the
\* period of that week.
RegisterCommission(s) ==
  LET t == tx[s]
      v == SellerOf[t.order]
      total == TotalOf[t.order]
      pct == PercentageOf(v)
      register(writes, earned) ==
        Hold(s, [op |-> "delivered", order |-> t.order, week |-> t.week,
                 earned |-> earned, writes |-> writes])
  IN
  /\ t.op = "deliver"
  /\ \/ v = NoVendor /\ register(<<>>, 0)
     \/ /\ v # NoVendor
        /\ \E p \in Matching(v, week) :
             register(<<Write(p, periods[p], Accrued(periods[p], total, pct))>>,
                      Commission(total, pct))
     \/ /\ v # NoVendor
        /\ Matching(v, week) = {}
        /\ register(<<Insert(NewPeriod(v, week, total, pct))>>,
                    Commission(total, pct))
  /\ UNCHANGED tables

CommitDelivery(s) ==
  LET t == tx[s] IN
  /\ t.op = "delivered"
  /\ sold' = [x \in DOMAIN sold \cup {t.order} |->
                IF x = t.order THEN [week |-> t.week, earned |-> t.earned] ELSE sold[x]]
  /\ periods' = Written(t.writes)
  /\ Hold(s, Idle)
  /\ UNCHANGED <<percentage, week>>

(* POST /admin/commissions/calculate                                        *)

\* The week is fixed and its orders are read, with one query for all vendors.
LoadSales(s) ==
  LET w == week - 1
      sellers == {v \in Vendors : SoldIn(v, w) # {}}
  IN
  /\ tx[s] = Idle
  /\ Hold(s, [op |-> "recalculate", week |-> w, sales |-> [v \in sellers |-> Sales(v, w)],
              left |-> sellers, writes |-> <<>>])
  /\ UNCHANGED tables

\* Then the period of each of them is read and computed again.
RecalculateVendor(s, v) ==
  LET t == tx[s]
      pct == PercentageOf(v)
      compute(write) ==
        Hold(s, [t EXCEPT !.left = @ \ {v}, !.writes = Append(@, write)])
  IN
  /\ t.op = "recalculate" /\ v \in t.left
  /\ \/ \E p \in Matching(v, t.week) :
          compute(Write(p, periods[p], Recalculated(periods[p], t.sales[v], pct)))
     \/ /\ Matching(v, t.week) = {}
        /\ compute(Insert(NewPeriod(v, t.week, t.sales[v], pct)))
  /\ UNCHANGED tables

CommitRecalculation(s) ==
  LET t == tx[s] IN
  /\ t.op = "recalculate" /\ t.left = {}
  /\ periods' = Written(t.writes)
  /\ Hold(s, Idle)
  /\ UNCHANGED <<sold, percentage, week>>

(* PATCH /admin/commissions/{id}/confirm                                    *)

LoadPeriod(s, p) ==
  /\ tx[s] = Idle
  /\ periods[p].status # "paid"
  /\ Hold(s, [op |-> "pay",
              writes |-> <<Write(p, periods[p], [periods[p] EXCEPT !.status = "paid"])>>])
  /\ UNCHANGED tables

CommitPayment(s) ==
  /\ tx[s].op = "pay"
  /\ periods' = Written(tx[s].writes)
  /\ Hold(s, Idle)
  /\ UNCHANGED <<sold, percentage, week>>

\* A request ends without committing, and its session rolls back.
Rollback(s) ==
  /\ tx[s] # Idle
  /\ Hold(s, Idle)
  /\ UNCHANGED tables

-----------------------------------------------------------------------------

SNext ==
  \/ \E s \in Sessions :
       \/ \E o \in Parcels : LoadOrder(s, o)
       \/ RegisterCommission(s) \/ CommitDelivery(s)
       \/ LoadSales(s) \/ CommitRecalculation(s)
       \/ \E v \in Vendors : RecalculateVendor(s, v)
       \/ \E p \in DOMAIN periods : LoadPeriod(s, p)
       \/ CommitPayment(s)
       \/ Rollback(s)
  \/ \E v \in Vendors, pct \in Percentages : SetPercentage(v, pct) /\ UNCHANGED tx
  \/ NextWeek /\ UNCHANGED tx

SessionSpec == SInit /\ [][SNext]_svars

\* The vendors whose periods a session may write.
Touched(s) ==
  CASE tx[s].op = "idle" -> {}
    [] tx[s].op \in {"deliver", "delivered"} -> {SellerOf[tx[s].order]}
    [] tx[s].op = "recalculate" -> Vendors
    [] tx[s].op = "pay" -> {tx[s].writes[1].old.vendor}

\* The assumption under which requests keep the periods as Commissions does: no
\* two of them touch the same vendor, and neither the week nor a percentage
\* changes during a request.
OneSessionPerVendor ==
  \A s, t \in Sessions : s # t => Touched(s) \cap Touched(t) = {}

Quiet == \A s \in Sessions : tx[s] = Idle

ExclusiveSpec ==
  SInit /\ [][/\ SNext /\ OneSessionPerVendor'
              /\ <<week, percentage>>' # <<week, percentage>> => Quiet]_svars

-----------------------------------------------------------------------------
(* What stays true whatever requests overlap.                              *)

\* Whoever's order is delivered gets paid for something: every retail sale has a
\* period of its vendor, of the week of the sale or, when midnight of Sunday
\* passes during the request, a later one.  What that period says can be wrong.
EverySaleHasPeriod ==
  \A o \in DOMAIN sold :
    SellerOf[o] # NoVendor =>
      \E p \in DOMAIN periods :
        periods[p].vendor = SellerOf[o] /\ periods[p].week >= sold[o].week

\* When percentages do not change and commissions need no rounding: an update
\* that is lost loses the sale and its commission together, so the amount of a
\* period is always the commission on its base.
AmountFollowsBase ==
  \A p \in DOMAIN periods : periods[p].amount = Commission(periods[p].base, periods[p].rate)

(* What does not: "Recalcula desde cero las comisiones de la semana".        *)

RecalculationAlone ==
  \A s, t \in Sessions : tx[s].op = "recalculate" /\ s # t => tx[t] = Idle

AloneSpec == SInit /\ [][SNext /\ RecalculationAlone']_svars

\* A recalculation leaves the periods of each vendor with the sales it read.
RecalculatedFromScratch ==
  [][\A s \in Sessions : CommitRecalculation(s) =>
       \A v \in DOMAIN tx[s].sales :
         tx[s].sales[v] =
           MapThenSumSet(LAMBDA p : periods'[p].base,
                         {p \in DOMAIN periods' : /\ periods'[p].vendor = v
                                                  /\ periods'[p].week = tx[s].week})]_svars

(* Refinement: without such overlaps the requests implement the handlers of  *)
(* Commissions, each taking effect at its commit.                           *)

ImplementsSerial == Spec

=============================================================================
