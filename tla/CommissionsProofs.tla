--------------------------- MODULE CommissionsProofs ---------------------------
(***************************************************************************)
(* Proofs about the commissions, for any number of vendors, orders, weeks  *)
(* and overlapping requests.  First about Commissions, where a request is  *)
(* one step: what a step may do to a period of an earlier week, that the   *)
(* columns have their types, and that base and amount are the sums they    *)
(* stand for.  Then about CommissionSessions, where a request is several:  *)
(* what survives them, that requests which never share a vendor implement  *)
(* Commissions, and when amounts still follow their base.  At the end, how *)
(* far a recalculation can move an amount.                                 *)
(***************************************************************************)
EXTENDS CommissionSessions, SumsProofs, FiniteSetTheorems, FunctionTheorems, TLAPS

\* A row has the columns of commission_periods, whatever they hold.
Columns == {"vendor", "week", "base", "amount", "rate", "status"}

HasColumns(r) == r = [c \in Columns |-> r[c]]

\* For the action properties the columns need no type: the table is a sequence of
\* rows, and it is some week.
IInv ==
  /\ periods \in Seq({periods[p] : p \in DOMAIN periods})
  /\ \A p \in DOMAIN periods : HasColumns(periods[p])
  /\ week \in Nat

-----------------------------------------------------------------------------
(* Rows.                                                                    *)

LEMMA NewPeriodColumns ==
  ASSUME NEW v, NEW w, NEW base, NEW pct
  PROVE  HasColumns(NewPeriod(v, w, base, pct))
BY DEF HasColumns, Columns, NewPeriod

\* A delivery that adds to a row keeps its vendor, its week and its status.
LEMMA AccruedColumns ==
  ASSUME NEW r, HasColumns(r), NEW total, NEW pct
  PROVE  LET a == Accrued(r, total, pct)
         IN HasColumns(a) /\ a.vendor = r.vendor /\ a.week = r.week /\ a.status = r.status
BY DEF HasColumns, Columns, Accrued

\* So does a recalculation.
LEMMA RecalculatedColumns ==
  ASSUME NEW r, HasColumns(r), NEW base, NEW pct
  PROVE  LET a == Recalculated(r, base, pct)
         IN HasColumns(a) /\ a.vendor = r.vendor /\ a.week = r.week /\ a.status = r.status
BY DEF HasColumns, Columns, Recalculated

LEMMA PaidColumns ==
  ASSUME NEW r, HasColumns(r)
  PROVE  LET a == [r EXCEPT !.status = "paid"]
         IN /\ HasColumns(a) /\ a.vendor = r.vendor /\ a.week = r.week
            /\ a.status = "paid" /\ a = [r EXCEPT !.status = a.status]
BY DEF HasColumns, Columns

LEMMA SameColumns ==
  ASSUME NEW r, HasColumns(r)
  PROVE  r = [r EXCEPT !.status = r.status]
BY DEF HasColumns, Columns

-----------------------------------------------------------------------------
(* What any step does to the table.                                         *)

\* The rows of the table stay where they are and keep vendor and week; one of
\* before last week keeps all but its status; no payment is taken back.
Kept ==
  /\ DOMAIN periods \subseteq DOMAIN periods'
  /\ \A p \in DOMAIN periods :
       /\ periods'[p].vendor = periods[p].vendor /\ periods'[p].week = periods[p].week
       /\ periods[p].status = "paid" => periods'[p].status = "paid"
       /\ periods[p].week < week - 1 =>
            periods'[p] = [periods[p] EXCEPT !.status = periods'[p].status]

LEMMA SameTableKept ==
  ASSUME IInv, periods' = periods
  PROVE  Kept
BY SameColumns DEF IInv, Kept

\* A sequence is one over the set of its own elements.
LEMMA OwnElements ==
  ASSUME NEW S, NEW q \in Seq(S)
  PROVE  q \in Seq({q[p] : p \in DOMAIN q})
OBVIOUS

LEMMA RowByRow ==
  ASSUME NEW n \in Nat, NEW q, q = [i \in 1..n |-> q[i]]
  PROVE  q \in Seq({q[i] : i \in 1..n}) /\ Len(q) = n
<1>1. \A i \in 1..n : q[i] \in {q[j] : j \in 1..n}
  OBVIOUS
<1> DEFINE S == {q[j] : j \in 1..n}
<1>2. \A i \in 1..n : q[i] \in S
  BY <1>1
<1> HIDE DEF S
<1>3. q \in [1..n -> S]
  BY <1>2
<1>4. q \in Seq(S) /\ Len(q) = n
  BY <1>3
<1> QED
  BY <1>4 DEF S

\* The rows of two tables put one after the other.
LEMMA Joined ==
  ASSUME NEW S, NEW a \in Seq(S), NEW b \in Seq(S)
  PROVE  /\ a \o b \in Seq(S)
         /\ \A p \in DOMAIN a : p \in DOMAIN (a \o b) /\ (a \o b)[p] = a[p]
         /\ \A p \in DOMAIN (a \o b) : p \notin DOMAIN a =>
              \E i \in DOMAIN b : (a \o b)[p] = b[i]
<1>1. /\ DOMAIN a = 1..Len(a) /\ DOMAIN b = 1..Len(b)
      /\ Len(a) \in Nat /\ Len(b) \in Nat
  OBVIOUS
<1>2. /\ a \o b \in Seq(S) /\ DOMAIN (a \o b) = 1..(Len(a) + Len(b))
      /\ \A p \in 1..(Len(a) + Len(b)) :
           (a \o b)[p] = IF p \leq Len(a) THEN a[p] ELSE b[p - Len(a)]
  OBVIOUS
<1>3. ASSUME NEW p \in DOMAIN (a \o b), p \notin DOMAIN a
      PROVE  \E i \in DOMAIN b : (a \o b)[p] = b[i]
  <2>1. p - Len(a) \in DOMAIN b /\ (a \o b)[p] = b[p - Len(a)]
    BY <1>1, <1>2, <1>3
  <2> QED
    BY <2>1
<1> QED
  BY <1>1, <1>2, <1>3

\* A changed row or an added one leaves the table a sequence of rows.
LEMMA DeliverKeeps ==
  ASSUME IInv, NEW o \in Parcels, Deliver(o)
  PROVE  IInv' /\ Kept
<1> DEFINE v == SellerOf[o]
           pct == PercentageOf(v)
           S == {periods[p] : p \in DOMAIN periods}
<1>1. week' = week
  BY DEF Deliver
<1>2. CASE periods' = periods
  BY <1>1, <1>2, SameTableKept DEF IInv
<1>3. ASSUME NEW p \in Matching(v, week),
             periods' = [periods EXCEPT ![p] = Accrued(@, TotalOf[o], pct)]
      PROVE  IInv' /\ Kept
  <2> DEFINE row == Accrued(periods[p], TotalOf[o], pct)
  <2>1. p \in DOMAIN periods /\ periods[p].week = week
    BY <1>3 DEF Matching
  <2>2. /\ HasColumns(row) /\ row.vendor = periods[p].vendor
        /\ row.week = periods[p].week /\ row.status = periods[p].status
    BY <2>1, AccruedColumns DEF IInv
  <2>3. periods' = [periods EXCEPT ![p] = row]
    BY <1>3
  <2> HIDE DEF row
  <2>4. periods' \in Seq(S \cup {row})
    BY <2>1, <2>3 DEF IInv
  <2>5. DOMAIN periods' = DOMAIN periods
        /\ \A x \in DOMAIN periods : periods'[x] = IF x = p THEN row ELSE periods[x]
    BY <2>1, <2>3 DEF IInv
  <2>6. IInv'
    BY <1>1, <2>2, <2>4, <2>5, OwnElements DEF IInv
  <2>7. Kept
    BY <2>1, <2>2, <2>5, SameColumns DEF IInv, Kept
  <2> QED
    BY <2>6, <2>7
<1>4. ASSUME periods' = Append(periods, NewPeriod(v, week, TotalOf[o], pct))
      PROVE  IInv' /\ Kept
  <2> DEFINE row == NewPeriod(v, week, TotalOf[o], pct)
  <2>1. HasColumns(row)
    BY NewPeriodColumns
  <2> HIDE DEF row
  <2>2. periods' = Append(periods, row)
    BY <1>4 DEF row
  <2>3. periods' \in Seq(S \cup {row})
    BY <2>2 DEF IInv
  <2>4. /\ DOMAIN periods' = DOMAIN periods \cup {Len(periods) + 1}
        /\ \A x \in DOMAIN periods : periods'[x] = periods[x]
        /\ periods'[Len(periods) + 1] = row
    BY <2>2 DEF IInv
  <2>5. IInv'
    BY <1>1, <2>1, <2>3, <2>4, OwnElements DEF IInv
  <2>6. Kept
    BY <2>4, SameColumns DEF IInv, Kept
  <2> QED
    BY <2>5, <2>6
<1> QED
  BY <1>2, <1>3, <1>4 DEF Deliver

LEMMA PayKeeps ==
  ASSUME IInv, NEW p \in DOMAIN periods, Pay(p)
  PROVE  IInv' /\ Kept
<1> DEFINE row == [periods[p] EXCEPT !.status = "paid"]
           S == {periods[x] : x \in DOMAIN periods}
<1>1. /\ HasColumns(row) /\ row.vendor = periods[p].vendor /\ row.week = periods[p].week
      /\ row.status = "paid" /\ row = [periods[p] EXCEPT !.status = row.status]
  BY PaidColumns DEF IInv
<1>2. periods' = [periods EXCEPT ![p] = row] /\ week' = week
  BY DEF Pay
<1> HIDE DEF row
<1>3. periods' \in Seq(S \cup {row})
  BY <1>2 DEF IInv
<1>4. DOMAIN periods' = DOMAIN periods
      /\ \A x \in DOMAIN periods : periods'[x] = IF x = p THEN row ELSE periods[x]
  BY <1>2 DEF IInv
<1>5. IInv'
  <2>1. \A x \in DOMAIN periods' : HasColumns(periods'[x])
    BY <1>1, <1>4 DEF IInv
  <2>2. periods' \in Seq({periods'[x] : x \in DOMAIN periods'})
    BY <1>3, OwnElements
  <2>3. week' \in Nat
    BY <1>2 DEF IInv
  <2> QED
    BY <2>1, <2>2, <2>3 DEF IInv
<1>6. Kept
  BY <1>1, <1>4, SameColumns DEF IInv, Kept
<1> QED
  BY <1>5, <1>6

\* Only rows of last week are computed again, and the new ones come at the end.
LEMMA RecalculateKeeps ==
  ASSUME IInv, Recalculate
  PROVE  IInv' /\ Kept
<1> DEFINE w == week - 1
           sellers == {v \in Vendors : SoldIn(v, w) # {}}
           known == {v \in sellers : Matching(v, w) # {}}
           again(row) == Recalculated(row, Sales(row.vendor, w), PercentageOf(row.vendor))
           opened(v) == NewPeriod(v, w, Sales(v, w), PercentageOf(v))
<1>1. PICK first \in [known -> DOMAIN periods], fresh \in SetToSeqs(sellers \ known) :
        /\ \A v \in known : first[v] \in Matching(v, w)
        /\ periods' = [p \in DOMAIN periods |->
                         IF \E v \in known : first[v] = p THEN again(periods[p])
                         ELSE periods[p]]
                      \o [i \in DOMAIN fresh |-> opened(fresh[i])]
  BY DEF Recalculate
<1> DEFINE old == [p \in DOMAIN periods |->
                     IF \E v \in known : first[v] = p THEN again(periods[p]) ELSE periods[p]]
           new == [i \in DOMAIN fresh |-> opened(fresh[i])]
           n == Cardinality(sellers \ known)
<1>2. week' = week
  BY DEF Recalculate
<1>3. n \in Nat /\ DOMAIN fresh = 1..n
  <2>1. IsFiniteSet(sellers \ known)
    BY FS_Subset, CommissionsAssumption
  <2> QED
    BY <2>1, FS_CardinalityType DEF SetToSeqs
<1>4. \A p \in DOMAIN periods :
        /\ HasColumns(old[p]) /\ old[p].vendor = periods[p].vendor
        /\ old[p].week = periods[p].week /\ old[p].status = periods[p].status
  BY RecalculatedColumns DEF IInv
<1>5. \A p \in DOMAIN periods : periods[p].week # w => old[p] = periods[p]
  BY <1>1 DEF Matching
<1>6. \A i \in 1..n : HasColumns(new[i])
  BY <1>3, NewPeriodColumns
<1>7. DOMAIN old = DOMAIN periods /\ DOMAIN new = 1..n /\ periods' = old \o new
  BY <1>1, <1>3
<1>8. /\ old \in Seq({old[p] : p \in DOMAIN periods})
      /\ new \in Seq({new[i] : i \in 1..n})
  <2>1. DOMAIN periods = 1..Len(periods) /\ Len(periods) \in Nat
    BY DEF IInv
  <2>2. old = [p \in 1..Len(periods) |-> old[p]] /\ new = [i \in 1..n |-> new[i]]
    BY <1>3, <2>1
  <2> HIDE DEF old, new, n
  <2> QED
    BY <1>3, <2>1, <2>2, RowByRow
<1> HIDE DEF old, new, n
<1> DEFINE S == {old[p] : p \in DOMAIN periods} \cup {new[i] : i \in 1..n}
<1>9. old \in Seq(S) /\ new \in Seq(S)
  BY <1>7, <1>8
<1>10. /\ periods' \in Seq(S)
       /\ \A p \in DOMAIN periods : p \in DOMAIN periods' /\ periods'[p] = old[p]
       /\ \A p \in DOMAIN periods' : p \notin DOMAIN periods =>
            \E i \in 1..n : periods'[p] = new[i]
  <2> HIDE DEF S
  <2>1. /\ old \o new \in Seq(S)
        /\ \A p \in DOMAIN old : p \in DOMAIN (old \o new) /\ (old \o new)[p] = old[p]
        /\ \A p \in DOMAIN (old \o new) : p \notin DOMAIN old =>
             \E i \in DOMAIN new : (old \o new)[p] = new[i]
    BY <1>9, Joined
  <2> QED
    BY <1>7, <2>1
<1>11. IInv'
  <2>1. \A p \in DOMAIN periods' : HasColumns(periods'[p])
    BY <1>4, <1>6, <1>10
  <2>2. week' \in Nat
    BY <1>2 DEF IInv
  <2>3. periods' \in Seq({periods'[p] : p \in DOMAIN periods'})
    BY <1>10, OwnElements
  <2> QED
    BY <2>1, <2>2, <2>3 DEF IInv
<1>12. Kept
  <2>1. \A p \in DOMAIN periods : periods[p].week < week - 1 =>
          periods'[p] = [periods[p] EXCEPT !.status = periods'[p].status]
    <3>1. \A p \in DOMAIN periods : periods[p].week < week - 1 => periods'[p] = periods[p]
      <4>1. ~ (w < week - 1)
        BY DEF IInv
      <4>2. \A p \in DOMAIN periods : periods[p].week < week - 1 => periods[p].week # w
        <5> HIDE DEF w
        <5> QED
          BY <4>1
      <4> QED
        BY <1>5, <1>10, <4>2
    <3>2. \A p \in DOMAIN periods :
            periods[p] = [periods[p] EXCEPT !.status = periods[p].status]
      BY SameColumns DEF IInv
    <3> QED
      BY <3>1, <3>2
  <2> QED
    BY <1>4, <1>10, <2>1 DEF Kept
<1> QED
  BY <1>11, <1>12

-----------------------------------------------------------------------------

LEMMA InitIInv == Init => IInv
BY DEF Init, IInv

LEMMA StepKeeps ==
  ASSUME IInv, [Next]_vars
  PROVE  IInv' /\ Kept
<1>1. ASSUME NEW o \in Parcels, Deliver(o)
      PROVE  IInv' /\ Kept
  BY <1>1, DeliverKeeps
<1>2. CASE Recalculate
  BY <1>2, RecalculateKeeps
<1>3. ASSUME NEW p \in DOMAIN periods, Pay(p)
      PROVE  IInv' /\ Kept
  BY <1>3, PayKeeps
<1>4. ASSUME NEW v \in Vendors, NEW pct \in Percentages, SetPercentage(v, pct)
      PROVE  IInv' /\ Kept
  BY <1>4, SameTableKept DEF SetPercentage, IInv
<1>5. CASE NextWeek
  BY <1>5, SameTableKept DEF NextWeek, IInv
<1>6. CASE UNCHANGED vars
  BY <1>6, SameTableKept DEF vars, IInv
<1> QED
  BY <1>1, <1>2, <1>3, <1>4, <1>5, <1>6 DEF Next

\* Two weeks later only a payment can touch a period: a delivery adds to the
\* running week and a calculation redoes the one before it (orders/service.py,
\* commissions/service.py).
THEOREM WeeksClose == Spec => ClosedWeeks
<1>1. IInv /\ [Next]_vars =>
        /\ IInv'
        /\ \A p \in DOMAIN periods : periods[p].week < week - 1 =>
             periods'[p] = [periods[p] EXCEPT !.status = periods'[p].status]
  BY StepKeeps DEF Kept
<1> QED
  BY <1>1, InitIInv, PTL DEF Spec, ClosedWeeks

\* No step takes a payment back or moves a period to another vendor or week, a
\* recalculation of a paid week included (commissions/service.py).
THEOREM PaymentsStay == Spec => PaidStaysPaid
<1>1. IInv /\ [Next]_vars =>
        /\ IInv'
        /\ \A p \in DOMAIN periods :
             /\ p \in DOMAIN periods'
             /\ periods'[p].vendor = periods[p].vendor /\ periods'[p].week = periods[p].week
             /\ periods[p].status = "paid" => periods'[p].status = "paid"
  BY StepKeeps DEF Kept
<1> QED
  BY <1>1, InitIInv, PTL DEF Spec, PaidStaysPaid

-----------------------------------------------------------------------------
(* The books: what the rows of the table say of the orders sold.            *)

\* SoldIn and Earned, of any ledger q of deliveries.
SoldBy(q, v, w) == {o \in DOMAIN q : SellerOf[o] = v /\ q[o].week = w}

EarnedOf(q, S) == MapThenSumSet(LAMBDA o : q[o].earned, S)

\* A row has the base of its week's sales, and was computed order by order or,
\* once the week is over, from its base.
RowRight(q, now, r) ==
  /\ SoldBy(q, r.vendor, r.week) # {}
  /\ r.base = SumOfTotals(SoldBy(q, r.vendor, r.week))
  /\ \/ r.amount = EarnedOf(q, SoldBy(q, r.vendor, r.week))
     \/ r.week < now /\ r.amount = Commission(r.base, r.rate)

Deliveries(q, now) ==
  /\ DOMAIN q \subseteq Parcels /\ IsFiniteSet(DOMAIN q)
  /\ q \in [DOMAIN q -> [week: 1..now, earned: Int]]
  /\ now \in 1..MaxWeek

\* Every row is right and of a week that has come, no two are of one vendor and
\* week, and every retail sale is in one.
BooksRight(q, t, now) ==
  /\ Deliveries(q, now)
  /\ t \in Seq(PeriodRows)
  /\ \A p \in DOMAIN t : t[p].week \in 1..now /\ RowRight(q, now, t[p])
  /\ \A p, r \in DOMAIN t : t[p].vendor = t[r].vendor /\ t[p].week = t[r].week => p = r
  /\ \A o \in DOMAIN q : SellerOf[o] # NoVendor =>
       \E p \in DOMAIN t : t[p].vendor = SellerOf[o] /\ t[p].week = q[o].week

Books ==
  /\ BooksRight(sold, periods, week)
  /\ percentage \in [Vendors -> Percentages \cup {NoPercentage}]

-----------------------------------------------------------------------------
(* Amounts.                                                                 *)

LEMMA CommissionIsInt ==
  ASSUME NEW total \in Int, NEW pct \in Int
  PROVE  Commission(total, pct) \in Int
<1> DEFINE n == total * pct
<1>1. n \in Int
  OBVIOUS
<1> HIDE DEF n
<1>2. n \div 10000 \in Int
  BY <1>1
<1>3. RoundHalfEven(n, 10000) \in Int
  BY <1>2 DEF RoundHalfEven
<1> QED
  BY <1>3 DEF Commission, n

LEMMA PercentageIsInt ==
  ASSUME Books, NEW v \in Vendors
  PROVE  PercentageOf(v) \in Int
BY CommissionsAssumption DEF Books, PercentageOf

LEMMA TotalsAdd ==
  ASSUME NEW S \in SUBSET Parcels, IsFiniteSet(S), NEW o \in Parcels, o \notin S
  PROVE  /\ SumOfTotals(S) \in Int
         /\ SumOfTotals(S \cup {o}) = SumOfTotals(S) + TotalOf[o]
<1>1. \A T : SumOfTotals(T) = SumOf(TotalOf, T)
  BY DEF SumOfTotals, SumOf
<1>2. \A x \in S \cup {o} : TotalOf[x] \in Int
  BY CommissionsAssumption
<1> QED
  BY <1>1, <1>2, SumOfInts, SumWith

LEMMA TotalsNone == SumOfTotals({}) = 0
<1>1. SumOfTotals({}) = SumOf(TotalOf, {})
  BY DEF SumOfTotals, SumOf
<1> QED
  BY <1>1, SumOfNone

\* The sum in Earned is a sum of the values of a function.
LEMMA EarnedIsSum ==
  ASSUME NEW q, NEW S, IsFiniteSet(S)
  PROVE  EarnedOf(q, S) = SumOf([o \in S |-> q[o].earned], S)
<1> DEFINE f == [o \in S |-> q[o].earned]
           Is(it) == it = [s \in SUBSET S |-> IF s = {} THEN 0
                             ELSE q[Chosen(s)].earned + it[s \ {Chosen(s)}]]
<1>1. EarnedOf(q, S) = (CHOOSE it : Is(it))[S]
  BY DEF EarnedOf, MapThenSumSet, MapThenFoldSet, Chosen
<1>2. \A it : Is(it) <=> Sums(f, S, it)
  BY ChosenIsElement DEF Sums
<1>3. Is(CHOOSE it : Is(it))
  <2> HIDE DEF Is, f
  <2> QED
    BY <1>2, SumsExist
<1> HIDE DEF Is, f
<1>4. EarnedOf(q, S) = SumOf(f, S)
  BY <1>1, <1>2, <1>3, SumIs
<1> QED
  BY <1>4 DEF f

LEMMA EarnedSame ==
  ASSUME NEW q, NEW r, NEW S, IsFiniteSet(S), \A o \in S : q[o].earned = r[o].earned
  PROVE  EarnedOf(q, S) = EarnedOf(r, S)
<1>1. [o \in S |-> q[o].earned] = [o \in S |-> r[o].earned]
  OBVIOUS
<1> QED
  BY <1>1, EarnedIsSum

LEMMA EarnedNone ==
  ASSUME NEW q
  PROVE  EarnedOf(q, {}) = 0
BY EarnedIsSum, SumOfNone, FS_EmptySet

LEMMA EarnedAdds ==
  ASSUME NEW q, NEW r, NEW S, IsFiniteSet(S), NEW o, o \notin S,
         \A x \in S : q[x].earned \in Int /\ r[x].earned = q[x].earned,
         r[o].earned \in Int
  PROVE  /\ EarnedOf(r, S \cup {o}) = EarnedOf(q, S) + r[o].earned
         /\ EarnedOf(q, S) \in Int
<1> DEFINE f == [x \in S \cup {o} |-> r[x].earned]
           g == [x \in S |-> q[x].earned]
<1>1. \A x \in S \cup {o} : f[x] \in Int
  OBVIOUS
<1>2. \A x \in S : f[x] = g[x] /\ g[x] \in Int
  OBVIOUS
<1>3. f[o] = r[o].earned
  OBVIOUS
<1>4. IsFiniteSet(S \cup {o})
  BY FS_AddElement
<1>5. EarnedOf(r, S \cup {o}) = SumOf(f, S \cup {o}) /\ EarnedOf(q, S) = SumOf(g, S)
  BY <1>4, EarnedIsSum
<1> HIDE DEF f, g
<1>6. SumOf(f, S \cup {o}) = SumOf(f, S) + f[o]
  BY <1>1, SumWith
<1>7. SumOf(f, S) = SumOf(g, S) /\ SumOf(g, S) \in Int
  BY <1>2, SumOfSame, SumOfInts
<1> QED
  BY <1>3, <1>5, <1>6, <1>7

-----------------------------------------------------------------------------
(* A delivery.                                                              *)

\* The ledger with one delivery more.
EntryOf(now) == [week: {now}, earned: Int]

\* Order o is delivered this week, and was not before.
Sale(q, now, o, d) ==
  /\ Deliveries(q, now)
  /\ o \in Parcels /\ o \notin DOMAIN q
  /\ d \in EntryOf(now)

LedgerWith(q, o, d) == [x \in DOMAIN q \cup {o} |-> IF x = o THEN d ELSE q[x]]

LEMMA SaleFacts ==
  ASSUME NEW q, NEW now, NEW o, NEW d, Sale(q, now, o, d)
  PROVE  /\ Deliveries(q, now) /\ o \in Parcels /\ o \notin DOMAIN q
         /\ d.week = now /\ d.earned \in Int /\ TotalOf[o] \in Int
BY CommissionsAssumption DEF Sale, EntryOf

\* z is q and the delivery of o.
Adds(q, o, d, z) ==
  /\ DOMAIN z = DOMAIN q \cup {o} /\ z[o] = d
  /\ \A x \in DOMAIN q : z[x] = q[x]

LEMMA LedgerEntries ==
  ASSUME NEW q, NEW now, NEW o, NEW d, Sale(q, now, o, d),
         NEW z, z = LedgerWith(q, o, d)
  PROVE  Adds(q, o, d, z)
<1>1. o \notin DOMAIN q
  BY DEF Sale
<1> QED
  BY <1>1 DEF LedgerWith, Adds

LEMMA LedgerGrows ==
  ASSUME NEW q, NEW now, NEW o, NEW d, Sale(q, now, o, d),
         NEW z, z = LedgerWith(q, o, d)
  PROVE  Deliveries(z, now)
<1>1. /\ DOMAIN z = DOMAIN q \cup {o} /\ z[o] = d
      /\ \A x \in DOMAIN q : z[x] = q[x]
  <2>1. Adds(q, o, d, z)
    BY LedgerEntries
  <2> QED
    BY <2>1 DEF Adds
<1>2. z = [x \in DOMAIN z |-> z[x]]
  BY DEF LedgerWith
<1>3. Deliveries(q, now) /\ o \in Parcels
  BY SaleFacts
<1>4. IsFiniteSet(DOMAIN q \cup {o})
  BY <1>3, FS_AddElement DEF Deliveries
<1>5. d \in [week: 1..now, earned: Int]
  BY <1>3 DEF Sale, EntryOf, Deliveries
<1>6. \A x \in DOMAIN z : z[x] \in [week: 1..now, earned: Int]
  BY <1>1, <1>3, <1>5 DEF Deliveries
<1> QED
  BY <1>1, <1>2, <1>3, <1>4, <1>6 DEF Deliveries

\* The orders of a vendor and week are those they were, and the new one.
LEMMA SoldByMore ==
  ASSUME NEW q, NEW now, NEW o, NEW d, Sale(q, now, o, d),
         NEW z, z = LedgerWith(q, o, d), NEW v, NEW w
  PROVE  SoldBy(z, v, w) = IF SellerOf[o] = v /\ now = w THEN SoldBy(q, v, w) \cup {o}
                           ELSE SoldBy(q, v, w)
<1>1. /\ DOMAIN z = DOMAIN q \cup {o} /\ z[o] = d
      /\ \A x \in DOMAIN q : z[x] = q[x]
  <2>1. Adds(q, o, d, z)
    BY LedgerEntries
  <2> QED
    BY <2>1 DEF Adds
<1>2. d.week = now /\ o \notin DOMAIN q
  BY SaleFacts
<1>3. SellerOf[o] = v /\ now = w => SoldBy(z, v, w) = SoldBy(q, v, w) \cup {o}
  BY <1>1, <1>2 DEF SoldBy
<1>4. ~(SellerOf[o] = v /\ now = w) => SoldBy(z, v, w) = SoldBy(q, v, w)
  BY <1>1, <1>2 DEF SoldBy
<1> QED
  BY <1>3, <1>4

LEMMA SoldByFinite ==
  ASSUME NEW q, NEW now, Deliveries(q, now), NEW v, NEW w
  PROVE  /\ IsFiniteSet(SoldBy(q, v, w)) /\ SoldBy(q, v, w) \in SUBSET Parcels
         /\ \A o \in SoldBy(q, v, w) : q[o].earned \in Int
<1>1. SoldBy(q, v, w) \subseteq DOMAIN q
  BY DEF SoldBy
<1>2. IsFiniteSet(SoldBy(q, v, w))
  BY <1>1, FS_Subset DEF Deliveries
<1> QED
  BY <1>1, <1>2 DEF Deliveries

\* A row of another vendor or week is as right as it was.
LEMMA OtherRowRight ==
  ASSUME NEW q, NEW now, NEW o, NEW d, Sale(q, now, o, d),
         NEW z, z = LedgerWith(q, o, d),
         NEW r, RowRight(q, now, r), ~(SellerOf[o] = r.vendor /\ now = r.week)
  PROVE  RowRight(z, now, r)
<1> DEFINE S == SoldBy(q, r.vendor, r.week)
<1>1. SoldBy(z, r.vendor, r.week) = S
  BY SoldByMore
<1>2. \A x \in DOMAIN q : z[x] = q[x]
  <2>1. Adds(q, o, d, z)
    BY LedgerEntries
  <2> QED
    BY <2>1 DEF Adds
<1>3. S \subseteq DOMAIN q
  BY DEF SoldBy
<1>4. IsFiniteSet(S)
  BY SaleFacts, SoldByFinite
<1>5. EarnedOf(z, S) = EarnedOf(q, S)
  <2> HIDE DEF S
  <2> QED
    BY <1>2, <1>3, <1>4, EarnedSame
<1> QED
  BY <1>1, <1>5 DEF RowRight

\* The sums of the row that an order is added to.
LEMMA SumsMore ==
  ASSUME NEW q, NEW now, NEW o, NEW d, Sale(q, now, o, d),
         NEW z, z = LedgerWith(q, o, d),
         NEW S, S = SoldBy(q, SellerOf[o], now)
  PROVE  /\ SoldBy(z, SellerOf[o], now) = S \cup {o}
         /\ SumOfTotals(S \cup {o}) = SumOfTotals(S) + TotalOf[o]
         /\ EarnedOf(z, S \cup {o}) = EarnedOf(q, S) + d.earned
<1>1. SoldBy(z, SellerOf[o], now) = S \cup {o}
  BY SoldByMore
<1>2. IsFiniteSet(S) /\ S \in SUBSET Parcels /\ \A x \in S : q[x].earned \in Int
  BY SaleFacts, SoldByFinite
<1>3. S \subseteq DOMAIN q
  BY DEF SoldBy
<1>4. z[o] = d /\ \A x \in DOMAIN q : z[x] = q[x]
  <2>1. Adds(q, o, d, z)
    BY LedgerEntries
  <2> QED
    BY <2>1 DEF Adds
<1>5. o \in Parcels /\ o \notin S /\ d.earned \in Int
  BY <1>3, SaleFacts
<1>6. SumOfTotals(S \cup {o}) = SumOfTotals(S) + TotalOf[o]
  BY <1>2, <1>5, TotalsAdd
<1>7. \A x \in S : q[x].earned \in Int /\ z[x].earned = q[x].earned
  BY <1>2, <1>3, <1>4
<1>8. EarnedOf(z, S \cup {o}) = EarnedOf(q, S) + z[o].earned
  BY <1>2, <1>4, <1>5, <1>7, EarnedAdds
<1> QED
  BY <1>1, <1>4, <1>6, <1>8

\* What a delivery does to the row of its vendor and week.
LEMMA AccruedRow ==
  ASSUME NEW r \in PeriodRows, NEW total \in Int, NEW pct \in Int
  PROVE  LET a == Accrued(r, total, pct) IN
         /\ a \in PeriodRows
         /\ a.vendor = r.vendor /\ a.week = r.week /\ a.rate = r.rate
         /\ a.base = r.base + total /\ a.amount = r.amount + Commission(total, pct)
<1> DEFINE c == Commission(total, pct)
<1>1. c \in Int
  BY CommissionIsInt
<1>2. Accrued(r, total, pct) = [r EXCEPT !.base = r.base + total, !.amount = r.amount + c]
  BY DEF Accrued, PeriodRows
<1> HIDE DEF c
<1>3. /\ r.base + total \in Int /\ r.amount + c \in Int
  BY <1>1 DEF PeriodRows
<1> DEFINE b == r.base + total
           m == r.amount + c
           a == [r EXCEPT !.base = b, !.amount = m]
<1>4. b \in Int /\ m \in Int
  BY <1>3
<1> HIDE DEF b, m
<1>5. /\ a \in PeriodRows /\ a.base = b /\ a.amount = m
      /\ a.vendor = r.vendor /\ a.week = r.week /\ a.rate = r.rate
  BY <1>4 DEF PeriodRows
<1> QED
  BY <1>2, <1>5 DEF a, b, m, c

LEMMA NewPeriodRow ==
  ASSUME NEW v \in Vendors, NEW w \in 0..MaxWeek, NEW base \in Int, NEW pct \in Int
  PROVE  LET a == NewPeriod(v, w, base, pct) IN
         /\ a \in PeriodRows
         /\ a.vendor = v /\ a.week = w /\ a.base = base
         /\ a.amount = Commission(base, pct) /\ a.rate = pct
BY CommissionIsInt DEF NewPeriod, PeriodRows

\* The books stay right when a delivery is added to the row its vendor already has
\* this week.
LEMMA BooksAccrue ==
  ASSUME NEW q, NEW t, NEW now, BooksRight(q, t, now),
         NEW o \in Parcels, o \notin DOMAIN q,
         NEW pct \in Int, NEW p \in DOMAIN t, t[p].vendor = SellerOf[o], t[p].week = now,
         NEW d \in EntryOf(now), d.earned = Commission(TotalOf[o], pct),
         NEW y, y = [t EXCEPT ![p] = Accrued(t[p], TotalOf[o], pct)]
  PROVE  BooksRight(LedgerWith(q, o, d), y, now)
<1> DEFINE z == LedgerWith(q, o, d)
           a == Accrued(t[p], TotalOf[o], pct)
           S == SoldBy(q, SellerOf[o], now)
<1>0. Sale(q, now, o, d) /\ Deliveries(q, now)
  BY DEF BooksRight, Sale
<1>1. /\ t \in Seq(PeriodRows) /\ t[p] \in PeriodRows
      /\ RowRight(q, now, t[p])
      /\ \A i, k \in DOMAIN t : t[i].vendor = t[k].vendor /\ t[i].week = t[k].week => i = k
  BY DEF BooksRight
<1>2. /\ a \in PeriodRows /\ a.vendor = SellerOf[o] /\ a.week = now
      /\ a.base = t[p].base + TotalOf[o] /\ a.amount = t[p].amount + d.earned
  <2>1. TotalOf[o] \in Int
    BY CommissionsAssumption
  <2> QED
    BY <1>1, <2>1, AccruedRow
<1>3. /\ SoldBy(z, SellerOf[o], now) = S \cup {o}
      /\ SumOfTotals(S \cup {o}) = SumOfTotals(S) + TotalOf[o]
      /\ EarnedOf(z, S \cup {o}) = EarnedOf(q, S) + d.earned
  BY <1>0, SumsMore
<1>4. t[p].base = SumOfTotals(S) /\ t[p].amount = EarnedOf(q, S)
  <2>1. now \in Nat
    BY <1>0 DEF Deliveries
  <2> QED
    BY <1>1, <2>1 DEF RowRight
<1>5. /\ Deliveries(z, now) /\ DOMAIN z = DOMAIN q \cup {o} /\ z[o].week = now
      /\ \A x \in DOMAIN q : z[x] = q[x]
  <2>1. d.week = now
    BY <1>0, SaleFacts
  <2>2. Deliveries(z, now)
    BY <1>0, LedgerGrows
  <2>3. /\ DOMAIN z = DOMAIN q \cup {o} /\ z[o] = d
        /\ \A x \in DOMAIN q : z[x] = q[x]
    <3>1. Adds(q, o, d, z)
      BY <1>0, LedgerEntries
    <3> QED
      BY <3>1 DEF Adds
  <2> QED
    BY <2>1, <2>2, <2>3
<1> HIDE DEF a, z, S
<1>6. RowRight(z, now, a)
  BY <1>2, <1>3, <1>4 DEF RowRight
<1>7. /\ y \in Seq(PeriodRows) /\ DOMAIN y = DOMAIN t
      /\ \A i \in DOMAIN t : y[i] = IF i = p THEN a ELSE t[i]
  <2>1. y = [t EXCEPT ![p] = a]
    BY DEF a
  <2> QED
    BY <1>1, <1>2, <2>1
<1>8. \A i \in DOMAIN t : y[i].vendor = t[i].vendor /\ y[i].week = t[i].week
  BY <1>2, <1>7
<1>9. \A i \in DOMAIN t : i # p => RowRight(z, now, t[i])
  <2> TAKE i \in DOMAIN t
  <2> HAVE i # p
  <2>1. RowRight(q, now, t[i]) /\ ~(SellerOf[o] = t[i].vendor /\ now = t[i].week)
    BY <1>1 DEF BooksRight
  <2> QED
    BY <1>0, <2>1, OtherRowRight DEF z
<1>10. \A i \in DOMAIN y : y[i].week \in 1..now /\ RowRight(z, now, y[i])
  <2>1. \A i \in DOMAIN t : t[i].week \in 1..now
    BY DEF BooksRight
  <2> QED
    BY <1>6, <1>7, <1>8, <1>9, <2>1
<1>11. \A i, k \in DOMAIN y : y[i].vendor = y[k].vendor /\ y[i].week = y[k].week => i = k
  BY <1>1, <1>7, <1>8
<1>12. \A x \in DOMAIN z : SellerOf[x] # NoVendor =>
         \E i \in DOMAIN y : y[i].vendor = SellerOf[x] /\ y[i].week = z[x].week
  <2> TAKE x \in DOMAIN z
  <2> HAVE SellerOf[x] # NoVendor
  <2>1. CASE x = o
    BY <1>5, <1>7, <1>8, <2>1
  <2>2. CASE x # o
    <3>1. x \in DOMAIN q /\ z[x] = q[x]
      BY <1>5, <2>2
    <3>2. PICK i \in DOMAIN t : t[i].vendor = SellerOf[x] /\ t[i].week = q[x].week
      BY <3>1 DEF BooksRight
    <3> QED
      BY <1>7, <1>8, <3>1, <3>2
  <2> QED
    BY <2>1, <2>2
<1>13. BooksRight(z, y, now)
  BY <1>5, <1>7, <1>10, <1>11, <1>12 DEF BooksRight
<1> QED
  BY <1>13 DEF z

LEMMA BooksOpen ==
  ASSUME NEW q, NEW t, NEW now, BooksRight(q, t, now),
         NEW o \in Parcels, o \notin DOMAIN q, SellerOf[o] \in Vendors,
         NEW pct \in Int,
         \A p \in DOMAIN t : ~(t[p].vendor = SellerOf[o] /\ t[p].week = now),
         NEW d \in EntryOf(now), d.earned = Commission(TotalOf[o], pct),
         NEW y, y = Append(t, NewPeriod(SellerOf[o], now, TotalOf[o], pct))
  PROVE  BooksRight(LedgerWith(q, o, d), y, now)
<1> DEFINE z == LedgerWith(q, o, d)
           a == NewPeriod(SellerOf[o], now, TotalOf[o], pct)
           S == SoldBy(q, SellerOf[o], now)
<1>0. Sale(q, now, o, d) /\ Deliveries(q, now)
  BY DEF BooksRight, Sale
<1>1. /\ t \in Seq(PeriodRows)
      /\ \A i, k \in DOMAIN t : t[i].vendor = t[k].vendor /\ t[i].week = t[k].week => i = k
  BY DEF BooksRight
<1>2. /\ a \in PeriodRows /\ a.vendor = SellerOf[o] /\ a.week = now
      /\ a.base = TotalOf[o] /\ a.amount = d.earned
  <2>1. TotalOf[o] \in Int
    BY CommissionsAssumption
  <2>2. now \in 0..MaxWeek /\ now \in Nat
    BY <1>0, CommissionsAssumption DEF Deliveries
  <2> QED
    BY <2>1, <2>2, NewPeriodRow
<1>3. S = {}
  <2> SUFFICES ASSUME NEW x \in S
               PROVE  FALSE
    OBVIOUS
  <2>1. x \in DOMAIN q /\ SellerOf[x] = SellerOf[o] /\ q[x].week = now
    BY DEF SoldBy
  <2>2. SellerOf[x] # NoVendor
    BY <2>1, CommissionsAssumption
  <2> QED
    BY <2>1, <2>2 DEF BooksRight
<1>4. /\ SoldBy(z, SellerOf[o], now) = S \cup {o}
      /\ SumOfTotals(S \cup {o}) = SumOfTotals(S) + TotalOf[o]
      /\ EarnedOf(z, S \cup {o}) = EarnedOf(q, S) + d.earned
  <2>1. z = LedgerWith(q, o, d) /\ S = SoldBy(q, SellerOf[o], now)
    OBVIOUS
  <2>2. Sale(q, now, o, d)
    BY <1>0
  <2> HIDE DEF z, S
  <2>3. SoldBy(z, SellerOf[o], now) = S \cup {o}
    BY <2>1, <2>2, SoldByMore
  <2>4. SumOfTotals(S \cup {o}) = SumOfTotals(S) + TotalOf[o]
    BY <2>1, <2>2, SumsMore
  <2>5. EarnedOf(z, S \cup {o}) = EarnedOf(q, S) + d.earned
    BY <2>1, <2>2, SumsMore
  <2> QED
    BY <2>3, <2>4, <2>5
<1>5. SumOfTotals(S) = 0 /\ EarnedOf(q, S) = 0
  <2>1. SumOfTotals({}) = 0 /\ EarnedOf(q, {}) = 0
    BY EarnedNone, TotalsNone
  <2> HIDE DEF S
  <2> QED
    BY <1>3, <2>1
<1>6. d.earned \in Int /\ TotalOf[o] \in Int
  BY <1>0, SaleFacts
<1>7. /\ Deliveries(z, now) /\ DOMAIN z = DOMAIN q \cup {o} /\ z[o].week = now
      /\ \A x \in DOMAIN q : z[x] = q[x]
  <2>1. d.week = now
    BY <1>0, SaleFacts
  <2>2. Deliveries(z, now)
    BY <1>0, LedgerGrows
  <2>3. Adds(q, o, d, z)
    BY <1>0, LedgerEntries
  <2> QED
    BY <2>1, <2>2, <2>3 DEF Adds
<1>8. y = Append(t, a)
  OBVIOUS
<1> HIDE DEF a, z, S
<1>9. RowRight(z, now, a)
  BY <1>2, <1>4, <1>5, <1>6 DEF RowRight
<1> DEFINE n == Len(t) + 1
<1>10. /\ y \in Seq(PeriodRows) /\ DOMAIN y = DOMAIN t \cup {n} /\ y[n] = a
       /\ \A i \in DOMAIN t : y[i] = t[i]
  BY <1>1, <1>2, <1>8
<1>11. n \notin DOMAIN t
  BY <1>1
<1> HIDE DEF n
<1>12. \A i \in DOMAIN t : RowRight(z, now, t[i]) /\ t[i].week \in 1..now
  <2> TAKE i \in DOMAIN t
  <2>1. /\ RowRight(q, now, t[i]) /\ ~(SellerOf[o] = t[i].vendor /\ now = t[i].week)
        /\ t[i].week \in 1..now
    BY DEF BooksRight
  <2> QED
    BY <1>0, <2>1, OtherRowRight DEF z
<1>13. \A i \in DOMAIN y : y[i].week \in 1..now /\ RowRight(z, now, y[i])
  <2>1. now \in 1..now
    BY <1>0 DEF Deliveries
  <2> QED
    BY <1>2, <1>9, <1>10, <1>12, <2>1
<1>14. \A i, k \in DOMAIN y : y[i].vendor = y[k].vendor /\ y[i].week = y[k].week => i = k
  BY <1>1, <1>2, <1>10
<1>15. \A x \in DOMAIN z : SellerOf[x] # NoVendor =>
         \E i \in DOMAIN y : y[i].vendor = SellerOf[x] /\ y[i].week = z[x].week
  <2> TAKE x \in DOMAIN z
  <2> HAVE SellerOf[x] # NoVendor
  <2>1. CASE x = o
    BY <1>2, <1>7, <1>10, <2>1
  <2>2. CASE x # o
    <3>1. x \in DOMAIN q /\ z[x] = q[x]
      BY <1>7, <2>2
    <3>2. PICK i \in DOMAIN t : t[i].vendor = SellerOf[x] /\ t[i].week = q[x].week
      BY <3>1 DEF BooksRight
    <3> QED
      BY <1>10, <3>1, <3>2
  <2> QED
    BY <2>1, <2>2
<1>16. BooksRight(z, y, now)
  BY <1>7, <1>10, <1>13, <1>14, <1>15 DEF BooksRight
<1> QED
  BY <1>16 DEF z

\* A wholesale order is in no period.
LEMMA BooksWholesale ==
  ASSUME NEW q, NEW t, NEW now, BooksRight(q, t, now),
         NEW o \in Parcels, o \notin DOMAIN q, SellerOf[o] = NoVendor,
         NEW d \in EntryOf(now)
  PROVE  BooksRight(LedgerWith(q, o, d), t, now)
<1> DEFINE z == LedgerWith(q, o, d)
<1>0. Sale(q, now, o, d) /\ Deliveries(q, now)
  BY DEF BooksRight, Sale
<1>1. Deliveries(z, now)
  BY <1>0, LedgerGrows
<1>2. Adds(q, o, d, z)
  BY <1>0, LedgerEntries
<1>3. \A i \in DOMAIN t : t[i].week \in 1..now /\ RowRight(z, now, t[i])
  <2> TAKE i \in DOMAIN t
  <2>1. /\ RowRight(q, now, t[i]) /\ t[i] \in PeriodRows /\ t[i].week \in 1..now
    BY DEF BooksRight
  <2>2. SellerOf[o] # t[i].vendor
    BY <2>1, CommissionsAssumption DEF PeriodRows
  <2> QED
    BY <1>0, <2>1, <2>2, OtherRowRight
<1> HIDE DEF z
<1>4. \A x \in DOMAIN z : SellerOf[x] # NoVendor => x \in DOMAIN q /\ z[x] = q[x]
  BY <1>2 DEF Adds
<1>5. BooksRight(z, t, now)
  BY <1>1, <1>3, <1>4 DEF BooksRight
<1> QED
  BY <1>5 DEF z

-----------------------------------------------------------------------------
(* What changes no order.                                                   *)

\* Rows may be replaced by rows of the same vendor, week and base that are right.
LEMMA BooksRewritten ==
  ASSUME NEW q, NEW t, NEW now, BooksRight(q, t, now),
         NEW y \in Seq(PeriodRows), DOMAIN y = DOMAIN t,
         \A p \in DOMAIN t : /\ y[p].vendor = t[p].vendor /\ y[p].week = t[p].week
                             /\ RowRight(q, now, y[p])
  PROVE  BooksRight(q, y, now)
<1>1. \A p \in DOMAIN y : y[p].week \in 1..now /\ RowRight(q, now, y[p])
  BY DEF BooksRight
<1>2. \A p, r \in DOMAIN y : y[p].vendor = y[r].vendor /\ y[p].week = y[r].week => p = r
  BY DEF BooksRight
<1>3. \A o \in DOMAIN q : SellerOf[o] # NoVendor =>
        \E p \in DOMAIN y : y[p].vendor = SellerOf[o] /\ y[p].week = q[o].week
  BY DEF BooksRight
<1> QED
  BY <1>1, <1>2, <1>3 DEF BooksRight

\* The week that begins has no sale and no row.
LEMMA BooksNextWeek ==
  ASSUME NEW q, NEW t, NEW now, BooksRight(q, t, now), now < MaxWeek
  PROVE  BooksRight(q, t, now + 1)
<1>0. Deliveries(q, now)
  BY DEF BooksRight
<1>1. now \in Nat /\ now + 1 \in 1..MaxWeek /\ 1..now \subseteq 1..(now + 1)
  BY <1>0, CommissionsAssumption DEF Deliveries
<1>2. Deliveries(q, now + 1)
  <2>1. \A x \in DOMAIN q : q[x] \in [week: 1..(now + 1), earned: Int]
    BY <1>0, <1>1 DEF Deliveries
  <2>2. q = [x \in DOMAIN q |-> q[x]]
    BY <1>0 DEF Deliveries
  <2> QED
    BY <1>0, <1>1, <2>1, <2>2 DEF Deliveries
<1>3. \A p \in DOMAIN t : t[p].week \in 1..(now + 1) /\ RowRight(q, now + 1, t[p])
  <2> TAKE p \in DOMAIN t
  <2>1. t[p].week \in 1..now /\ RowRight(q, now, t[p])
    BY DEF BooksRight
  <2>2. t[p].week < now => t[p].week < now + 1
    BY <1>1, <2>1
  <2> QED
    BY <1>1, <2>1, <2>2 DEF RowRight
<1> QED
  BY <1>2, <1>3 DEF BooksRight

-----------------------------------------------------------------------------
(* The steps.                                                               *)

LEMMA InitBooks == Init => Books
<1> SUFFICES ASSUME Init
             PROVE  Books
  OBVIOUS
<1>1. sold = <<>> /\ periods = <<>> /\ week = 1
      /\ percentage \in [Vendors -> Percentages \cup {NoPercentage}]
  BY DEF Init
<1>2. DOMAIN sold = {} /\ DOMAIN periods = {} /\ periods \in Seq(PeriodRows)
  BY <1>1
<1>3. sold \in [{} -> [week: 1..1, earned: Int]]
  BY <1>1
<1>4. Deliveries(sold, week)
  BY <1>1, <1>2, <1>3, FS_EmptySet, CommissionsAssumption DEF Deliveries
<1> QED
  BY <1>1, <1>2, <1>4 DEF Books, BooksRight

LEMMA DeliverBooks ==
  ASSUME Books, NEW o \in Parcels, Deliver(o)
  PROVE  Books'
<1> DEFINE v == SellerOf[o]
           total == TotalOf[o]
           pct == PercentageOf(v)
           d == [week |-> week, earned |-> IF v = NoVendor THEN 0 ELSE Commission(total, pct)]
<1>1. /\ o \notin DOMAIN sold /\ sold' = LedgerWith(sold, o, d)
      /\ week' = week /\ percentage' = percentage
  BY DEF Deliver, LedgerWith
<1>2. BooksRight(sold, periods, week) /\ total \in Int
  BY CommissionsAssumption DEF Books
<1>3. v # NoVendor => v \in Vendors /\ pct \in Int
  BY PercentageIsInt, CommissionsAssumption
<1>4. d \in EntryOf(week) /\ (v # NoVendor => d.earned = Commission(total, pct))
  <2>1. v # NoVendor => Commission(total, pct) \in Int
    BY <1>2, <1>3, CommissionIsInt
  <2>2. d.earned \in Int
    BY <2>1
  <2> QED
    BY <2>2 DEF EntryOf
<1>5. BooksRight(LedgerWith(sold, o, d), periods', week)
  <2>1. CASE v = NoVendor
    <3>1. periods' = periods
      BY <2>1 DEF Deliver
    <3> HIDE DEF d
    <3> QED
      BY <1>1, <1>2, <1>4, <2>1, <3>1, BooksWholesale
  <2>2. ASSUME v # NoVendor, NEW p \in Matching(v, week),
               periods' = [periods EXCEPT ![p] = Accrued(@, total, pct)]
        PROVE  BooksRight(LedgerWith(sold, o, d), periods', week)
    <3>1. p \in DOMAIN periods /\ periods[p].vendor = v /\ periods[p].week = week
      BY DEF Matching
    <3>2. periods' = [periods EXCEPT ![p] = Accrued(periods[p], total, pct)]
      BY <2>2
    <3>3. pct \in Int /\ d.earned = Commission(total, pct)
      BY <1>3, <1>4, <2>2
    <3> HIDE DEF d, pct
    <3> QED
      BY <1>1, <1>2, <1>4, <3>1, <3>2, <3>3, BooksAccrue
  <2>3. ASSUME v # NoVendor, Matching(v, week) = {},
               periods' = Append(periods, NewPeriod(v, week, total, pct))
        PROVE  BooksRight(LedgerWith(sold, o, d), periods', week)
    <3>1. \A p \in DOMAIN periods : ~(periods[p].vendor = v /\ periods[p].week = week)
      BY <2>3 DEF Matching
    <3>2. pct \in Int /\ d.earned = Commission(total, pct) /\ v \in Vendors
      BY <1>3, <1>4, <2>3
    <3> HIDE DEF d, pct
    <3> QED
      BY <1>1, <1>2, <1>4, <2>3, <3>1, <3>2, BooksOpen
  <2> QED
    BY <2>1, <2>2, <2>3 DEF Deliver
<1> HIDE DEF d
<1> QED
  BY <1>1, <1>5 DEF Books

LEMMA PayBooks ==
  ASSUME Books, NEW p \in DOMAIN periods, Pay(p)
  PROVE  Books'
<1> DEFINE row == [periods[p] EXCEPT !.status = "paid"]
<1>1. /\ periods' = [periods EXCEPT ![p] = row]
      /\ sold' = sold /\ week' = week /\ percentage' = percentage
  BY DEF Pay
<1>2. BooksRight(sold, periods, week) /\ periods \in Seq(PeriodRows)
  BY DEF Books, BooksRight
<1>3. periods[p] \in PeriodRows /\ RowRight(sold, week, periods[p])
  BY <1>2 DEF BooksRight
<1>4. /\ row \in PeriodRows /\ row.vendor = periods[p].vendor /\ row.week = periods[p].week
      /\ row.base = periods[p].base /\ row.amount = periods[p].amount
      /\ row.rate = periods[p].rate
  BY <1>3 DEF PeriodRows
<1> HIDE DEF row
<1>5. RowRight(sold, week, row)
  BY <1>3, <1>4 DEF RowRight
<1>6. /\ periods' \in Seq(PeriodRows) /\ DOMAIN periods' = DOMAIN periods
      /\ \A i \in DOMAIN periods : periods'[i] = IF i = p THEN row ELSE periods[i]
  BY <1>1, <1>2, <1>4
<1>7. \A i \in DOMAIN periods :
        /\ periods'[i].vendor = periods[i].vendor /\ periods'[i].week = periods[i].week
        /\ RowRight(sold, week, periods'[i])
  <2>1. \A i \in DOMAIN periods : RowRight(sold, week, periods[i])
    BY <1>2 DEF BooksRight
  <2> QED
    BY <1>4, <1>5, <1>6, <2>1
<1>8. BooksRight(sold, periods', week)
  BY <1>2, <1>6, <1>7, BooksRewritten
<1> QED
  BY <1>1, <1>8 DEF Books

LEMMA RecalculatedRow ==
  ASSUME NEW r \in PeriodRows, NEW base \in Int, NEW pct \in Int
  PROVE  LET a == Recalculated(r, base, pct) IN
         /\ a \in PeriodRows
         /\ a.vendor = r.vendor /\ a.week = r.week /\ a.rate = pct
         /\ a.base = base /\ a.amount = Commission(base, pct)
<1> DEFINE c == Commission(base, pct)
<1>1. c \in Int
  BY CommissionIsInt
<1>2. Recalculated(r, base, pct) = [r EXCEPT !.base = base, !.amount = c, !.rate = pct]
  BY DEF Recalculated
<1> HIDE DEF c
<1> DEFINE a == [r EXCEPT !.base = base, !.amount = c, !.rate = pct]
<1>3. /\ a \in PeriodRows /\ a.base = base /\ a.amount = c /\ a.rate = pct
      /\ a.vendor = r.vendor /\ a.week = r.week
  BY <1>1 DEF PeriodRows
<1> QED
  BY <1>2, <1>3 DEF a, c

\* The vendors with sales last week have their period, so a recalculation inserts
\* nothing; what it does to the rows it finds.
LEMMA RecalculatedTable ==
  ASSUME Books, Recalculate
  PROVE  /\ sold' = sold /\ percentage' = percentage /\ week' = week
         /\ periods' \in Seq({periods'[p] : p \in DOMAIN periods'})
         /\ DOMAIN periods' = DOMAIN periods
         /\ \A p \in DOMAIN periods :
              LET row == periods[p] IN
              \/ periods'[p] = row
              \/ /\ row.week = week - 1
                 /\ periods'[p] = Recalculated(row, Sales(row.vendor, row.week),
                                               PercentageOf(row.vendor))
<1> DEFINE w == week - 1
           sellers == {v \in Vendors : SoldIn(v, w) # {}}
           known == {v \in sellers : Matching(v, w) # {}}
           again(row) == Recalculated(row, Sales(row.vendor, w), PercentageOf(row.vendor))
           opened(v) == NewPeriod(v, w, Sales(v, w), PercentageOf(v))
<1>1. PICK first \in [known -> DOMAIN periods], fresh \in SetToSeqs(sellers \ known) :
        /\ \A v \in known : first[v] \in Matching(v, w)
        /\ periods' = [p \in DOMAIN periods |->
                         IF \E v \in known : first[v] = p THEN again(periods[p])
                         ELSE periods[p]]
                      \o [i \in DOMAIN fresh |-> opened(fresh[i])]
  BY DEF Recalculate
<1> DEFINE old == [p \in DOMAIN periods |->
                     IF \E v \in known : first[v] = p THEN again(periods[p]) ELSE periods[p]]
           new == [i \in DOMAIN fresh |-> opened(fresh[i])]
<1>2. week' = week /\ sold' = sold /\ percentage' = percentage
  BY DEF Recalculate
<1>3. BooksRight(sold, periods, week) /\ periods \in Seq(PeriodRows)
  BY DEF Books, BooksRight
<1>4. sellers \ known = {}
  <2> SUFFICES ASSUME NEW v \in sellers
               PROVE  Matching(v, w) # {}
    OBVIOUS
  <2>1. PICK o \in DOMAIN sold : SellerOf[o] = v /\ sold[o].week = w
    BY DEF SoldIn
  <2>2. SellerOf[o] # NoVendor
    BY <2>1, CommissionsAssumption
  <2>3. PICK p \in DOMAIN periods : periods[p].vendor = v /\ periods[p].week = w
    BY <1>3, <2>1, <2>2 DEF BooksRight
  <2> QED
    BY <2>3 DEF Matching
<1>5. DOMAIN fresh = {}
  <2>1. fresh \in SetToSeqs({})
    BY <1>4
  <2>2. DOMAIN fresh = 1..0
    BY <2>1, FS_EmptySet DEF SetToSeqs
  <2> QED
    BY <2>2
<1>6. \A p \in DOMAIN periods :
        \/ old[p] = periods[p]
        \/ periods[p].week = w /\ old[p] = again(periods[p])
  <2> TAKE p \in DOMAIN periods
  <2>1. ASSUME NEW v \in known, first[v] = p
        PROVE  periods[p].week = w
    BY <1>1, <2>1 DEF Matching
  <2> QED
    BY <2>1
<1>7. DOMAIN old = DOMAIN periods /\ new = <<>> /\ periods' = old \o new
  BY <1>1, <1>5
<1>8. old \in Seq({old[p] : p \in DOMAIN periods})
  <2>1. DOMAIN periods = 1..Len(periods) /\ Len(periods) \in Nat
    BY <1>3
  <2>2. old = [p \in 1..Len(periods) |-> old[p]]
    BY <2>1
  <2> HIDE DEF old
  <2> QED
    BY <2>1, <2>2, RowByRow
<1> HIDE DEF old, new, known, sellers
<1>9. periods' = old
  BY <1>7, <1>8
<1>10. periods' \in Seq({periods'[p] : p \in DOMAIN periods'})
  BY <1>7, <1>8, <1>9
<1>11. ASSUME NEW p \in DOMAIN periods
       PROVE  LET row == periods[p] IN
              \/ periods'[p] = row
              \/ /\ row.week = week - 1
                 /\ periods'[p] = Recalculated(row, Sales(row.vendor, row.week),
                                               PercentageOf(row.vendor))
  BY <1>6, <1>9
<1> QED
  BY <1>2, <1>7, <1>9, <1>10, <1>11

LEMMA RecalculateBooks ==
  ASSUME Books, Recalculate
  PROVE  Books'
<1>1. BooksRight(sold, periods, week) /\ Deliveries(sold, week) /\ week \in Nat
  BY DEF Books, BooksRight, Deliveries
<1>2. /\ sold' = sold /\ percentage' = percentage /\ week' = week
      /\ periods' \in Seq({periods'[p] : p \in DOMAIN periods'})
      /\ DOMAIN periods' = DOMAIN periods
  BY RecalculatedTable
<1>3. ASSUME NEW p \in DOMAIN periods
      PROVE  /\ periods'[p] \in PeriodRows
             /\ periods'[p].vendor = periods[p].vendor /\ periods'[p].week = periods[p].week
             /\ RowRight(sold, week, periods'[p])
  <2> DEFINE row == periods[p]
             v == row.vendor
             w == row.week
             base == Sales(v, w)
             pct == PercentageOf(v)
  <2>1. row \in PeriodRows /\ RowRight(sold, week, row)
    BY <1>1 DEF BooksRight
  <2>2. CASE periods'[p] = row
    BY <2>1, <2>2
  <2>3. CASE w = week - 1 /\ periods'[p] = Recalculated(row, base, pct)
    <3> DEFINE S == SoldBy(sold, v, w)
               a == Recalculated(row, base, pct)
    <3>1. S # {} /\ row.base = SumOfTotals(S) /\ base = SumOfTotals(S)
      BY <2>1 DEF RowRight, Sales, SoldIn, SoldBy
    <3>2. base \in Int /\ v \in Vendors
      BY <2>1, <3>1 DEF PeriodRows
    <3>3. pct \in Int
      BY <3>2, PercentageIsInt
    <3> HIDE DEF base, pct
    <3>4. /\ a \in PeriodRows /\ a.vendor = v /\ a.week = w /\ a.rate = pct
          /\ a.base = base /\ a.amount = Commission(base, pct)
      BY <2>1, <3>2, <3>3, RecalculatedRow
    <3>5. w < week
      BY <1>1, <2>3
    <3>6. periods'[p] = a
      BY <2>3
    <3> HIDE DEF a, S, v, w, row
    <3>7. RowRight(sold, week, a)
      BY <3>1, <3>4, <3>5 DEF RowRight, S
    <3> QED
      BY <3>4, <3>6, <3>7 DEF v, w, row
  <2> QED
    BY <2>2, <2>3, RecalculatedTable
<1>4. periods' \in Seq(PeriodRows)
  BY <1>2, <1>3
<1>5. BooksRight(sold, periods', week)
  BY <1>1, <1>2, <1>3, <1>4, BooksRewritten
<1> QED
  BY <1>2, <1>5 DEF Books

LEMMA StepBooks ==
  ASSUME Books, [Next]_vars
  PROVE  Books'
<1>1. ASSUME NEW o \in Parcels, Deliver(o)
      PROVE  Books'
  BY <1>1, DeliverBooks
<1>2. CASE Recalculate
  BY <1>2, RecalculateBooks
<1>3. ASSUME NEW p \in DOMAIN periods, Pay(p)
      PROVE  Books'
  BY <1>3, PayBooks
<1>4. ASSUME NEW v \in Vendors, NEW pct \in Percentages, SetPercentage(v, pct)
      PROVE  Books'
  BY <1>4 DEF SetPercentage, Books
<1>5. CASE NextWeek
  <2>1. BooksRight(sold, periods, week + 1)
    BY <1>5, BooksNextWeek DEF Books, NextWeek
  <2> QED
    BY <1>5, <2>1 DEF Books, NextWeek
<1>6. CASE UNCHANGED vars
  BY <1>6 DEF vars, Books
<1> QED
  BY <1>1, <1>2, <1>3, <1>4, <1>5, <1>6 DEF Next

\* A vendor's period for a week is one, exists if and only if the vendor sold
\* something in it, and its base is what was sold.
LEMMA BooksBase == Books => BaseIsSales
<1> SUFFICES ASSUME Books, NEW v \in Vendors, NEW w \in 1..week
             PROVE  IF SoldIn(v, w) = {} THEN Matching(v, w) = {}
                    ELSE \E p \in DOMAIN periods :
                           Matching(v, w) = {p} /\ periods[p].base = Sales(v, w)
  BY DEF BaseIsSales
<1>1. BooksRight(sold, periods, week)
  BY DEF Books
<1>2. SoldIn(v, w) = SoldBy(sold, v, w)
  BY DEF SoldIn, SoldBy
<1>3. ASSUME SoldIn(v, w) = {}
      PROVE  Matching(v, w) = {}
  <2> SUFFICES ASSUME NEW p \in Matching(v, w)
               PROVE  FALSE
    OBVIOUS
  <2>1. p \in DOMAIN periods /\ periods[p].vendor = v /\ periods[p].week = w
    BY DEF Matching
  <2>2. SoldBy(sold, v, w) # {}
    BY <1>1, <2>1 DEF BooksRight, RowRight
  <2> QED
    BY <1>2, <1>3, <2>2
<1>4. ASSUME SoldIn(v, w) # {}
      PROVE  \E p \in DOMAIN periods :
               Matching(v, w) = {p} /\ periods[p].base = Sales(v, w)
  <2>1. PICK o \in DOMAIN sold : SellerOf[o] = v /\ sold[o].week = w
    BY <1>4 DEF SoldIn
  <2>2. SellerOf[o] # NoVendor
    BY <2>1, CommissionsAssumption
  <2>3. PICK p \in DOMAIN periods : periods[p].vendor = v /\ periods[p].week = w
    BY <1>1, <2>1, <2>2 DEF BooksRight
  <2>4. \A r \in DOMAIN periods : periods[r].vendor = v /\ periods[r].week = w => r = p
    BY <1>1, <2>3 DEF BooksRight
  <2>5. Matching(v, w) = {p}
    BY <2>3, <2>4 DEF Matching
  <2>6. periods[p].base = SumOfTotals(SoldBy(sold, v, w))
    BY <1>1, <2>3 DEF BooksRight, RowRight
  <2> QED
    BY <1>2, <2>5, <2>6 DEF Sales
<1> QED
  BY <1>3, <1>4

LEMMA BooksAmount == Books => AmountExplained
<1> SUFFICES ASSUME Books, NEW p \in DOMAIN periods
             PROVE  LET row == periods[p] IN
                    \/ row.amount = Earned(row.vendor, row.week)
                    \/ row.week < week /\ row.amount = Commission(row.base, row.rate)
  BY DEF AmountExplained
<1> DEFINE row == periods[p]
<1>1. RowRight(sold, week, row)
  BY DEF Books, BooksRight
<1>2. Earned(row.vendor, row.week) = EarnedOf(sold, SoldBy(sold, row.vendor, row.week))
  BY DEF Earned, EarnedOf, SoldIn, SoldBy
<1> HIDE DEF row
<1>3. \/ row.amount = Earned(row.vendor, row.week)
      \/ row.week < week /\ row.amount = Commission(row.base, row.rate)
  BY <1>1, <1>2 DEF RowRight
<1> QED
  BY <1>3 DEF row

LEMMA BooksType == Books => TypeOK
<1> SUFFICES ASSUME Books
             PROVE  TypeOK
  OBVIOUS
<1>1. Deliveries(sold, week) /\ periods \in Seq(PeriodRows)
  BY DEF Books, BooksRight
<1>2. week \in 1..MaxWeek /\ 1..week \subseteq 1..MaxWeek
  BY <1>1, CommissionsAssumption DEF Deliveries
<1>3. \A o \in DOMAIN sold : sold[o] \in [week: 1..MaxWeek, earned: Int]
  BY <1>1, <1>2 DEF Deliveries
<1>4. sold = [o \in DOMAIN sold |-> sold[o]]
  BY <1>1 DEF Deliveries
<1>5. sold \in [DOMAIN sold -> [week: 1..MaxWeek, earned: Int]]
  BY <1>3, <1>4
<1> QED
  BY <1>1, <1>2, <1>5 DEF Books, TypeOK, Deliveries

\* Every column of the tables holds a value of its type.
THEOREM CommissionsTyped == Spec => []TypeOK
<1>1. Books /\ [Next]_vars => Books'
  BY StepBooks
<1> QED
  BY <1>1, InitBooks, BooksType, PTL DEF Spec

\* A delivery that adds to a period (orders/service.py) and a calculation of the
\* whole week (commissions/service.py) come to the same base: what was sold.
THEOREM PeriodsAddUp == Spec => []BaseIsSales
<1>1. Books /\ [Next]_vars => Books'
  BY StepBooks
<1> QED
  BY <1>1, InitBooks, BooksBase, PTL DEF Spec

\* The amount is the sum of the commissions of the orders, rounded one by one, or,
\* after a calculation, the commission on the base at the row's rate.
THEOREM AmountsExplained == Spec => []AmountExplained
<1>1. Books /\ [Next]_vars => Books'
  BY StepBooks
<1> QED
  BY <1>1, InitBooks, BooksAmount, PTL DEF Spec

-----------------------------------------------------------------------------
(* The sessions of the requests (CommissionSessions): the rows to insert,   *)
(* in some order.                                                           *)

LEMMA SetToSeqFacts ==
  ASSUME NEW S, IsFiniteSet(S)
  PROVE  LET q == SetToSeq(S)
             n == Cardinality(S)
         IN /\ n \in Nat /\ q \in [1..n -> S] /\ DOMAIN q = 1..n
            /\ \A i, j \in 1..n : q[i] = q[j] => i = j
            /\ \A x \in S : \E i \in 1..n : q[i] = x
<1> DEFINE n == Cardinality(S)
           q == SetToSeq(S)
<1>1. n \in Nat /\ ExistsBijection(1..n, S)
  BY FS_CardinalityType
<1>2. PICK f \in [1..n -> S] : \A i, j \in 1..n : f[i] = f[j] => i = j
  BY <1>1, Fun_BijectionProperties DEF ExistsBijection
<1>3. \E g \in [1..n -> S] : IsInjective(g)
  <2>1. IsInjective(f)
    BY <1>2 DEF IsInjective
  <2> QED
    BY <2>1
<1>4. q \in [1..n -> S] /\ IsInjective(q)
  BY <1>3 DEF SetToSeq
<1> HIDE DEF n, q
<1>5. \A i, j \in 1..n : q[i] = q[j] => i = j
  BY <1>4 DEF IsInjective
<1>6. q \in Surjection(1..n, S)
  <2>1. q \in Injection(1..n, S)
    BY <1>4 DEF Injection
  <2>2. Cardinality(1..n) = n
    BY <1>1, FS_Interval
  <2> QED
    BY <2>1, <2>2, FS_Injection DEF n
<1>7. \A x \in S : \E i \in 1..n : q[i] = x
  BY <1>6 DEF Surjection
<1> QED
  BY <1>1, <1>4, <1>5, <1>7 DEF n, q

-----------------------------------------------------------------------------
(* Tables and writes.                                                       *)

TableOK(P) ==
  /\ P \in Seq({P[p] : p \in DOMAIN P})
  /\ \A p \in DOMAIN P : HasColumns(P[p]) /\ P[p].vendor \in Vendors

\* What a session may do to a row: not its vendor, not its week, and of its status
\* only pay.  These are the same in the table as in the copy the session has.
WriteOK(w, P) ==
  /\ HasColumns(w.new) /\ w.new.vendor \in Vendors
  /\ w.id # NoRow =>
       /\ w.id \in DOMAIN P
       /\ w.new.vendor = w.old.vendor /\ w.new.week = w.old.week
       /\ P[w.id].vendor = w.new.vendor /\ P[w.id].week = w.new.week
       /\ w.new.status \in {w.old.status, "paid"}

WritesOK(W, P) ==
  /\ W \in Seq({W[i] : i \in DOMAIN W})
  /\ \A i \in DOMAIN W : WriteOK(W[i], P)

\* What happens to a row.
KeptRow(before, after) ==
  /\ HasColumns(after)
  /\ after.vendor = before.vendor /\ after.week = before.week
  /\ before.status = "paid" => after.status = "paid"

\* No row goes away.
Grown(P, Q) == \A p \in DOMAIN P : p \in DOMAIN Q /\ KeptRow(P[p], Q[p])

LEMMA MergeKeeps ==
  ASSUME NEW r, HasColumns(r), NEW old, NEW new,
         new.vendor = old.vendor, new.week = old.week, new.status \in {old.status, "paid"}
  PROVE  KeptRow(r, Merge(old, new, r))
BY DEF HasColumns, Columns, KeptRow, Merge

\* What a session holds stays right while the table grows.
LEMMA WriteStaysOK ==
  ASSUME NEW P, NEW Q, Grown(P, Q), NEW w, WriteOK(w, P)
  PROVE  WriteOK(w, Q)
BY DEF Grown, KeptRow, WriteOK

LEMMA SameTableGrown ==
  ASSUME NEW P, TableOK(P)
  PROVE  Grown(P, P)
BY DEF TableOK, Grown, KeptRow

\* A sequence of one element.
LEMMA OneWrite ==
  ASSUME NEW w, NEW P, WriteOK(w, P)
  PROVE  WritesOK(<<w>>, P)
<1>1. DOMAIN <<w>> = 1..1 /\ <<w>>[1] = w /\ <<w>> \in Seq({w})
  OBVIOUS
<1>2. <<w>> \in Seq({<<w>>[i] : i \in DOMAIN <<w>>})
  BY <1>1, OwnElements
<1> QED
  BY <1>1, <1>2 DEF WritesOK

LEMMA NoWrites ==
  ASSUME NEW P
  PROVE  WritesOK(<< >>, P)
BY DEF WritesOK

LEMMA OneMoreWrite ==
  ASSUME NEW P, NEW W, WritesOK(W, P), NEW w, WriteOK(w, P)
  PROVE  WritesOK(Append(W, w), P)
<1> DEFINE S == {W[i] : i \in DOMAIN W}
<1>1. W \in Seq(S \cup {w})
  BY DEF WritesOK
<1> HIDE DEF S
<1>2. /\ Append(W, w) \in Seq(S \cup {w})
      /\ \A i \in DOMAIN Append(W, w) : Append(W, w)[i] = w \/
           (i \in DOMAIN W /\ Append(W, w)[i] = W[i])
  BY <1>1
<1>3. Append(W, w) \in Seq({Append(W, w)[i] : i \in DOMAIN Append(W, w)})
  BY <1>2, OwnElements
<1> QED
  BY <1>2, <1>3 DEF WritesOK

\* A commit: the rows that were there, merged, and then the inserts.
LEMMA WrittenEffect ==
  ASSUME TableOK(periods), NEW W, WritesOK(W, periods)
  PROVE  LET Q == Written(W)
         IN /\ TableOK(Q) /\ Grown(periods, Q)
            /\ \A i \in DOMAIN W : W[i].id = NoRow =>
                 \E p \in DOMAIN Q : Q[p] = W[i].new
            /\ \A p \in DOMAIN periods :
                 (\A i \in DOMAIN W : W[i].id # p) => Q[p] = periods[p]
            /\ \A p \in DOMAIN Q : p \notin DOMAIN periods =>
                 \E i \in DOMAIN W : Q[p] = W[i].new
            /\ \A p \in DOMAIN periods :
                 \/ Q[p] = periods[p]
                 \/ \E i \in DOMAIN W :
                      W[i].id = p /\ Q[p] = Merge(W[i].old, W[i].new, periods[p])
<1> DEFINE I == {i \in DOMAIN W : W[i].id = NoRow}
           ins == SetToSeq(I)
           n == Cardinality(I)
           toRow(p) == {i \in DOMAIN W : W[i].id = p}
           old == [p \in DOMAIN periods |->
                     IF toRow(p) = {} THEN periods[p]
                     ELSE LET x == W[CHOOSE i \in toRow(p) : TRUE]
                          IN Merge(x.old, x.new, periods[p])]
           new == [k \in DOMAIN ins |-> W[ins[k]].new]
           Q == old \o new
<1>1. Written(W) = Q
  BY DEF Written
<1>2. /\ n \in Nat /\ ins \in [1..n -> I] /\ DOMAIN ins = 1..n
      /\ \A x \in I : \E k \in 1..n : ins[k] = x
  <2>1. DOMAIN W = 1..Len(W) /\ Len(W) \in Nat
    BY DEF WritesOK
  <2>2. IsFiniteSet(I)
    <3>1. IsFiniteSet(1..Len(W)) /\ I \in SUBSET (1..Len(W))
      BY <2>1, FS_Interval
    <3> HIDE DEF I
    <3> QED
      BY <3>1, FS_Subset
  <2> HIDE DEF I
  <2> QED
    BY <2>2, SetToSeqFacts
<1>3. DOMAIN periods = 1..Len(periods) /\ Len(periods) \in Nat
  BY DEF TableOK
<1>4. \A p \in DOMAIN periods : p # NoRow
  BY <1>3 DEF NoRow
<1>5. \A p \in DOMAIN periods : KeptRow(periods[p], old[p])
  <2>1. ASSUME NEW p \in DOMAIN periods, toRow(p) = {}
        PROVE  KeptRow(periods[p], old[p])
    BY <2>1 DEF TableOK, KeptRow
  <2>2. ASSUME NEW p \in DOMAIN periods, toRow(p) # {}
        PROVE  KeptRow(periods[p], old[p])
    <3> DEFINE x == W[CHOOSE i \in toRow(p) : TRUE]
    <3>1. (CHOOSE i \in toRow(p) : TRUE) \in toRow(p)
      BY <2>2
    <3>2. WriteOK(x, periods) /\ x.id = p
      BY <3>1 DEF WritesOK
    <3>3. old[p] = Merge(x.old, x.new, periods[p])
      BY <2>2
    <3> HIDE DEF x, old
    <3>4. HasColumns(periods[p])
      BY DEF TableOK
    <3>5. /\ x.new.vendor = x.old.vendor /\ x.new.week = x.old.week
          /\ x.new.status \in {x.old.status, "paid"}
      BY <1>4, <3>2 DEF WriteOK
    <3> QED
      BY <3>3, <3>4, <3>5, MergeKeeps
  <2> QED
    BY <2>1, <2>2
<1>15. \A p \in DOMAIN periods : (\A i \in DOMAIN W : W[i].id # p) => old[p] = periods[p]
  OBVIOUS
<1>17. \A p \in DOMAIN periods :
         \/ old[p] = periods[p]
         \/ \E i \in DOMAIN W : W[i].id = p /\ old[p] = Merge(W[i].old, W[i].new, periods[p])
  <2> SUFFICES ASSUME NEW p \in DOMAIN periods, toRow(p) # {}
               PROVE  \E i \in DOMAIN W :
                        W[i].id = p /\ old[p] = Merge(W[i].old, W[i].new, periods[p])
    OBVIOUS
  <2> DEFINE i == CHOOSE x \in toRow(p) : TRUE
  <2>1. i \in toRow(p)
    OBVIOUS
  <2>2. old[p] = Merge(W[i].old, W[i].new, periods[p])
    OBVIOUS
  <2> HIDE DEF i, old
  <2> QED
    BY <2>1, <2>2
<1>6. \A k \in 1..n : HasColumns(new[k]) /\ new[k].vendor \in Vendors /\ new[k] = W[ins[k]].new
  BY <1>2 DEF WritesOK, WriteOK
<1>7. DOMAIN old = DOMAIN periods /\ DOMAIN new = 1..n
  BY <1>2
<1>8. /\ old \in Seq({old[p] : p \in DOMAIN periods})
      /\ new \in Seq({new[k] : k \in 1..n})
  <2>1. old = [p \in 1..Len(periods) |-> old[p]] /\ new = [k \in 1..n |-> new[k]]
    BY <1>2, <1>3
  <2> HIDE DEF old, new, n
  <2> QED
    BY <1>2, <1>3, <2>1, RowByRow
<1> HIDE DEF old, new, n, ins, I
<1> DEFINE S == {old[p] : p \in DOMAIN periods} \cup {new[k] : k \in 1..n}
<1>9. old \in Seq(S) /\ new \in Seq(S)
  BY <1>7, <1>8
<1>10. /\ Q \in Seq(S)
       /\ \A p \in DOMAIN old : p \in DOMAIN Q /\ Q[p] = old[p]
       /\ \A p \in DOMAIN Q : p \notin DOMAIN old => \E k \in DOMAIN new : Q[p] = new[k]
       /\ \A k \in DOMAIN new : \E p \in DOMAIN Q : Q[p] = new[k]
  <2> HIDE DEF S
  <2>1. ASSUME NEW k \in DOMAIN new
        PROVE  \E p \in DOMAIN (old \o new) : (old \o new)[p] = new[k]
    <3>1. Len(old) + k \in DOMAIN (old \o new) /\ (old \o new)[Len(old) + k] = new[k]
      BY <1>9
    <3> QED
      BY <3>1
  <2> QED
    BY <1>9, <2>1, Joined
<1> HIDE DEF Q
<1>11. \A p \in DOMAIN Q : HasColumns(Q[p]) /\ Q[p].vendor \in Vendors
  BY <1>5, <1>6, <1>7, <1>10 DEF KeptRow, TableOK
<1>12. Q \in Seq({Q[p] : p \in DOMAIN Q})
  BY <1>10, OwnElements
<1>13. Grown(periods, Q)
  BY <1>5, <1>7, <1>10 DEF Grown
<1>14. \A i \in I : \E p \in DOMAIN Q : Q[p] = W[i].new
  <2> TAKE i \in I
  <2>1. PICK k \in 1..n : ins[k] = i
    BY <1>2
  <2>2. new[k] = W[i].new
    BY <1>6, <2>1
  <2> QED
    BY <1>7, <1>10, <2>2
<1>16. \A p \in DOMAIN Q : p \notin DOMAIN periods => \E i \in DOMAIN W : Q[p] = W[i].new
  <2>1. \A k \in 1..n : ins[k] \in DOMAIN W
    BY <1>2 DEF I
  <2> QED
    BY <1>6, <1>7, <1>10, <2>1
<1> QED
  BY <1>1, <1>7, <1>10, <1>11, <1>12, <1>13, <1>14, <1>15, <1>16, <1>17 DEF TableOK, I


-----------------------------------------------------------------------------
(* What sessions hold.                                                      *)

RecalculateFields == {"op", "week", "sales", "left", "writes"}

\* Among the writes is the period of a sale.
Covering(W, v, w) == \E i \in DOMAIN W : W[i].new.vendor = v /\ W[i].new.week >= w

SessionOK(t, P, now) ==
  /\ t.op = "deliver" => t.order \in Parcels /\ t.week \in Nat /\ t.week <= now
  /\ t.op = "delivered" =>
       /\ t.order \in Parcels /\ WritesOK(t.writes, P)
       /\ SellerOf[t.order] # NoVendor => Covering(t.writes, SellerOf[t.order], t.week)
  /\ t.op = "recalculate" =>
       /\ t = [k \in RecalculateFields |-> t[k]]
       /\ t.left \subseteq Vendors /\ WritesOK(t.writes, P)
  /\ t.op = "pay" => WritesOK(t.writes, P)

SInv ==
  /\ TableOK(periods) /\ week \in Nat
  /\ tx = [s \in Sessions |-> tx[s]]
  /\ \A s \in Sessions : SessionOK(tx[s], periods, week)
  /\ EverySaleHasPeriod

LEMMA SessionStaysOK ==
  ASSUME NEW P, NEW Q, Grown(P, Q), NEW now \in Nat, NEW later \in Nat, now <= later,
         NEW t, SessionOK(t, P, now)
  PROVE  SessionOK(t, Q, later)
<1>1. ASSUME NEW W, WritesOK(W, P)
      PROVE  WritesOK(W, Q)
  BY <1>1, WriteStaysOK DEF WritesOK
<1> QED
  BY <1>1 DEF SessionOK

LEMMA IdleOK ==
  ASSUME NEW P, NEW now
  PROVE  SessionOK(Idle, P, now)
BY DEF SessionOK, Idle

\* A step that changes one session and no table.
LEMMA HeldKeeps ==
  ASSUME SInv, NEW s \in Sessions, NEW held, Hold(s, held), UNCHANGED tables,
         SessionOK(held, periods, week)
  PROVE  SInv' /\ Grown(periods, periods')
<1>1. /\ periods' = periods /\ week' = week /\ sold' = sold
      /\ tx' = [x \in Sessions |-> IF x = s THEN held ELSE tx[x]]
  BY DEF tables, Hold, SInv
<1>2. \A x \in Sessions : SessionOK(tx'[x], periods, week)
  BY <1>1 DEF SInv
<1>3. EverySaleHasPeriod'
  BY <1>1 DEF SInv, EverySaleHasPeriod
<1>4. Grown(periods, periods)
  BY SameTableGrown DEF SInv
<1> QED
  BY <1>1, <1>2, <1>3, <1>4 DEF SInv

\* A sale that has its period keeps it.
LEMMA SalesStayCovered ==
  ASSUME NEW S, NEW P, NEW Q, Grown(P, Q),
         \A o \in DOMAIN S : SellerOf[o] # NoVendor =>
           \E p \in DOMAIN P : P[p].vendor = SellerOf[o] /\ P[p].week >= S[o].week
  PROVE  \A o \in DOMAIN S : SellerOf[o] # NoVendor =>
           \E p \in DOMAIN Q : Q[p].vendor = SellerOf[o] /\ Q[p].week >= S[o].week
<1> TAKE o \in DOMAIN S
<1> HAVE SellerOf[o] # NoVendor
<1>1. PICK p \in DOMAIN P : P[p].vendor = SellerOf[o] /\ P[p].week >= S[o].week
  OBVIOUS
<1>2. p \in DOMAIN Q /\ Q[p].vendor = P[p].vendor /\ Q[p].week = P[p].week
  BY <1>1 DEF Grown, KeptRow
<1> QED
  BY <1>1, <1>2

\* A commit that only writes periods.
LEMMA CommitKeeps ==
  ASSUME SInv, NEW s \in Sessions, NEW W, WritesOK(W, periods), periods' = Written(W),
         Hold(s, Idle), sold' = sold, week' = week
  PROVE  SInv' /\ Grown(periods, periods')
<1> DEFINE Q == Written(W)
<1>1. TableOK(Q) /\ Grown(periods, Q)
  BY WrittenEffect DEF SInv
<1>2. tx' = [x \in Sessions |-> IF x = s THEN Idle ELSE tx[x]]
  BY DEF Hold, SInv
<1> HIDE DEF Q
<1>3. \A x \in Sessions : SessionOK(tx[x], Q, week)
  BY <1>1, SessionStaysOK DEF SInv
<1>4. \A x \in Sessions : SessionOK(tx'[x], Q, week)
  BY <1>2, <1>3, IdleOK
<1>5. \A o \in DOMAIN sold : SellerOf[o] # NoVendor =>
        \E p \in DOMAIN Q : Q[p].vendor = SellerOf[o] /\ Q[p].week >= sold[o].week
  BY <1>1, SalesStayCovered DEF SInv, EverySaleHasPeriod
<1>6. periods' = Q
  BY DEF Q
<1>7. EverySaleHasPeriod'
  BY <1>5, <1>6 DEF EverySaleHasPeriod
<1> QED
  BY <1>1, <1>2, <1>4, <1>6, <1>7 DEF SInv


-----------------------------------------------------------------------------
(* The writes that requests prepare.                                        *)

LEMMA InsertOK ==
  ASSUME NEW v \in Vendors, NEW w, NEW base, NEW pct, NEW P
  PROVE  LET x == Insert(NewPeriod(v, w, base, pct))
         IN WriteOK(x, P) /\ x.id = NoRow /\ x.new = NewPeriod(v, w, base, pct)
            /\ x.new.vendor = v /\ x.new.week = w
<1>1. HasColumns(NewPeriod(v, w, base, pct))
  BY NewPeriodColumns
<1>2. NewPeriod(v, w, base, pct).vendor = v /\ NewPeriod(v, w, base, pct).week = w
  BY DEF NewPeriod
<1> QED
  BY <1>1, <1>2 DEF Insert, Write, WriteOK

LEMMA AccrueOK ==
  ASSUME TableOK(periods), NEW v \in Vendors, NEW w, NEW p \in Matching(v, w),
         NEW total, NEW pct
  PROVE  LET x == Write(p, periods[p], Accrued(periods[p], total, pct))
         IN WriteOK(x, periods) /\ x.new.vendor = v /\ x.new.week = w
<1>1. p \in DOMAIN periods /\ periods[p].vendor = v /\ periods[p].week = w
  BY DEF Matching
<1>2. HasColumns(periods[p])
  BY <1>1 DEF TableOK
<1> DEFINE a == Accrued(periods[p], total, pct)
<1>3. HasColumns(a) /\ a.vendor = v /\ a.week = w /\ a.status = periods[p].status
  BY <1>1, <1>2, AccruedColumns
<1> HIDE DEF a
<1> QED
  BY <1>1, <1>3 DEF Write, WriteOK, a

LEMMA RecalculateOK ==
  ASSUME TableOK(periods), NEW v \in Vendors, NEW w, NEW p \in Matching(v, w),
         NEW base, NEW pct
  PROVE  WriteOK(Write(p, periods[p], Recalculated(periods[p], base, pct)), periods)
<1>1. p \in DOMAIN periods /\ periods[p].vendor = v /\ periods[p].week = w
  BY DEF Matching
<1>2. HasColumns(periods[p])
  BY <1>1 DEF TableOK
<1> DEFINE a == Recalculated(periods[p], base, pct)
<1>3. HasColumns(a) /\ a.vendor = v /\ a.week = w /\ a.status = periods[p].status
  BY <1>1, <1>2, RecalculatedColumns
<1> HIDE DEF a
<1> QED
  BY <1>1, <1>3 DEF Write, WriteOK, a

LEMMA PayOK ==
  ASSUME TableOK(periods), NEW p \in DOMAIN periods
  PROVE  WriteOK(Write(p, periods[p], [periods[p] EXCEPT !.status = "paid"]), periods)
<1> DEFINE a == [periods[p] EXCEPT !.status = "paid"]
<1>1. /\ HasColumns(a) /\ a.vendor = periods[p].vendor
      /\ a.week = periods[p].week /\ a.status = "paid"
  BY PaidColumns DEF TableOK
<1> HIDE DEF a
<1>2. periods[p].vendor \in Vendors
  BY DEF TableOK
<1> QED
  BY <1>1, <1>2 DEF Write, WriteOK, a

-----------------------------------------------------------------------------
(* Each step.                                                               *)

LEMMA LoadOrderKeeps ==
  ASSUME SInv, NEW s \in Sessions, NEW o \in Parcels, LoadOrder(s, o)
  PROVE  SInv' /\ Grown(periods, periods')
<1> DEFINE held == [op |-> "deliver", order |-> o, week |-> week]
<1>1. Hold(s, held) /\ UNCHANGED tables
  BY DEF LoadOrder
<1>2. SessionOK(held, periods, week)
  BY DEF SessionOK, SInv
<1> HIDE DEF held
<1> QED
  BY <1>1, <1>2, HeldKeeps

LEMMA RegisterCommissionKeeps ==
  ASSUME SInv, NEW s \in Sessions, RegisterCommission(s)
  PROVE  SInv' /\ Grown(periods, periods')
<1> DEFINE t == tx[s]
           v == SellerOf[t.order]
           total == TotalOf[t.order]
           pct == PercentageOf(v)
           held(writes, earned) ==
             [op |-> "delivered", order |-> t.order, week |-> t.week,
              earned |-> earned, writes |-> writes]
<1>1. /\ t.op = "deliver" /\ t.order \in Parcels /\ t.week \in Nat /\ t.week <= week
      /\ UNCHANGED tables /\ TableOK(periods) /\ week \in Nat
  BY DEF RegisterCommission, SInv, SessionOK
<1>2. ASSUME NEW W, NEW e, WritesOK(W, periods), Hold(s, held(W, e)),
             v # NoVendor => Covering(W, v, t.week)
      PROVE  SInv' /\ Grown(periods, periods')
  <2>1. SessionOK(held(W, e), periods, week)
    BY <1>1, <1>2 DEF SessionOK
  <2> HIDE DEF held
  <2> QED
    BY <1>1, <1>2, <2>1, HeldKeeps
<1>3. CASE v = NoVendor /\ Hold(s, held(<<>>, 0))
  BY <1>2, <1>3, NoWrites
<1>4. v # NoVendor => v \in Vendors
  BY <1>1, CommissionsAssumption
<1>5. ASSUME v # NoVendor, NEW x, WriteOK(x, periods), x.new.vendor = v, x.new.week = week,
             Hold(s, held(<<x>>, Commission(total, pct)))
      PROVE  SInv' /\ Grown(periods, periods')
  <2>1. WritesOK(<<x>>, periods)
    BY <1>5, OneWrite
  <2>2. Covering(<<x>>, v, t.week)
    <3>1. 1 \in DOMAIN <<x>> /\ <<x>>[1] = x
      OBVIOUS
    <3> QED
      BY <1>1, <1>5, <3>1 DEF Covering
  <2> QED
    BY <1>2, <1>5, <2>1, <2>2
<1>6. ASSUME v # NoVendor, NEW p \in Matching(v, week),
             Hold(s, held(<<Write(p, periods[p], Accrued(periods[p], total, pct))>>,
                          Commission(total, pct)))
      PROVE  SInv' /\ Grown(periods, periods')
  <2> DEFINE x == Write(p, periods[p], Accrued(periods[p], total, pct))
  <2>1. WriteOK(x, periods) /\ x.new.vendor = v /\ x.new.week = week
    BY <1>1, <1>4, <1>6, AccrueOK
  <2>2. Hold(s, held(<<x>>, Commission(total, pct)))
    BY <1>6
  <2> HIDE DEF x, held, v, total, pct
  <2> QED
    BY <1>5, <1>6, <2>1, <2>2
<1>7. ASSUME v # NoVendor,
             Hold(s, held(<<Insert(NewPeriod(v, week, total, pct))>>, Commission(total, pct)))
      PROVE  SInv' /\ Grown(periods, periods')
  <2> DEFINE x == Insert(NewPeriod(v, week, total, pct))
  <2>1. WriteOK(x, periods) /\ x.new.vendor = v /\ x.new.week = week
    BY <1>4, <1>7, InsertOK
  <2>2. Hold(s, held(<<x>>, Commission(total, pct)))
    BY <1>7
  <2> HIDE DEF x, held, v, total, pct
  <2> QED
    BY <1>5, <1>7, <2>1, <2>2
<1> QED
  BY <1>3, <1>6, <1>7 DEF RegisterCommission

LEMMA CommitDeliveryKeeps ==
  ASSUME SInv, NEW s \in Sessions, CommitDelivery(s)
  PROVE  SInv' /\ Grown(periods, periods')
<1> DEFINE t == tx[s]
           W == t.writes
           Q == Written(W)
           v == SellerOf[t.order]
<1>1. /\ t.order \in Parcels /\ WritesOK(W, periods)
      /\ v # NoVendor => Covering(W, v, t.week)
  BY DEF CommitDelivery, SInv, SessionOK
<1>2. /\ TableOK(Q) /\ Grown(periods, Q)
      /\ \A i \in DOMAIN W : W[i].id = NoRow => \E p \in DOMAIN Q : Q[p] = W[i].new
  BY <1>1, WrittenEffect DEF SInv
<1>3. /\ tx' = [x \in Sessions |-> IF x = s THEN Idle ELSE tx[x]]
      /\ periods' = Q /\ week' = week
      /\ DOMAIN sold' = DOMAIN sold \cup {t.order}
      /\ \A o \in DOMAIN sold' : sold'[o].week = IF o = t.order THEN t.week ELSE sold[o].week
  BY DEF CommitDelivery, Hold, SInv
<1>4. v # NoVendor => \E p \in DOMAIN Q : Q[p].vendor = v /\ Q[p].week >= t.week
  <2> HAVE v # NoVendor
  <2>1. PICK i \in DOMAIN W : W[i].new.vendor = v /\ W[i].new.week >= t.week
    BY <1>1 DEF Covering
  <2> HIDE DEF Q
  <2>2. CASE W[i].id = NoRow
    BY <1>2, <2>1, <2>2
  <2>3. CASE W[i].id # NoRow
    <3>1. /\ W[i].id \in DOMAIN periods /\ periods[W[i].id].vendor = v
          /\ periods[W[i].id].week = W[i].new.week
      BY <1>1, <2>1, <2>3 DEF WritesOK, WriteOK
    <3>2. /\ W[i].id \in DOMAIN Q /\ Q[W[i].id].vendor = v
          /\ Q[W[i].id].week = W[i].new.week
      BY <1>2, <3>1 DEF Grown, KeptRow
    <3> QED
      BY <2>1, <3>2
  <2> QED
    BY <2>2, <2>3
<1> HIDE DEF Q, W
<1>5. \A x \in Sessions : SessionOK(tx[x], Q, week)
  BY <1>2, SessionStaysOK DEF SInv
<1>6. \A x \in Sessions : SessionOK(tx'[x], Q, week)
  BY <1>3, <1>5, IdleOK
<1>7. \A o \in DOMAIN sold : SellerOf[o] # NoVendor =>
        \E p \in DOMAIN Q : Q[p].vendor = SellerOf[o] /\ Q[p].week >= sold[o].week
  BY <1>2, SalesStayCovered DEF SInv, EverySaleHasPeriod
<1>8. \A o \in DOMAIN sold' : SellerOf[o] # NoVendor =>
        \E p \in DOMAIN Q : Q[p].vendor = SellerOf[o] /\ Q[p].week >= sold'[o].week
  BY <1>3, <1>4, <1>7
<1>9. EverySaleHasPeriod'
  BY <1>3, <1>8 DEF EverySaleHasPeriod
<1> QED
  BY <1>2, <1>3, <1>6, <1>9 DEF SInv

LEMMA LoadSalesKeeps ==
  ASSUME SInv, NEW s \in Sessions, LoadSales(s)
  PROVE  SInv' /\ Grown(periods, periods')
<1> DEFINE w == week - 1
           sellers == {v \in Vendors : SoldIn(v, w) # {}}
           sales == [v \in sellers |-> Sales(v, w)]
           held == [op |-> "recalculate", week |-> w, sales |-> sales,
                    left |-> sellers, writes |-> <<>>]
<1>1. Hold(s, held) /\ UNCHANGED tables
  BY DEF LoadSales
<1>2. sellers \subseteq Vendors
  OBVIOUS
<1> HIDE DEF sellers, sales, w
<1>3. SessionOK(held, periods, week)
  BY <1>2, NoWrites DEF SessionOK, RecalculateFields
<1> HIDE DEF held
<1> QED
  BY <1>1, <1>3, HeldKeeps

LEMMA RecalculateVendorKeeps ==
  ASSUME SInv, NEW s \in Sessions, NEW v \in Vendors, RecalculateVendor(s, v)
  PROVE  SInv' /\ Grown(periods, periods')
<1> DEFINE t == tx[s]
           pct == PercentageOf(v)
           held(x) == [t EXCEPT !.left = @ \ {v}, !.writes = Append(@, x)]
<1>1. /\ t.op = "recalculate" /\ t = [k \in RecalculateFields |-> t[k]]
      /\ t.left \subseteq Vendors /\ WritesOK(t.writes, periods)
      /\ UNCHANGED tables /\ TableOK(periods)
  BY DEF RecalculateVendor, SInv, SessionOK
<1>2. ASSUME NEW x, WriteOK(x, periods), Hold(s, held(x))
      PROVE  SInv' /\ Grown(periods, periods')
  <2>1. WritesOK(Append(t.writes, x), periods)
    BY <1>1, <1>2, OneMoreWrite
  <2>2. /\ held(x).op = "recalculate" /\ held(x) = [k \in RecalculateFields |-> held(x)[k]]
        /\ held(x).left \subseteq Vendors /\ held(x).writes = Append(t.writes, x)
    BY <1>1 DEF RecalculateFields
  <2> HIDE DEF held
  <2>3. SessionOK(held(x), periods, week)
    BY <2>1, <2>2 DEF SessionOK
  <2> QED
    BY <1>1, <1>2, <2>3, HeldKeeps
<1>3. ASSUME NEW p \in Matching(v, t.week),
             Hold(s, held(Write(p, periods[p], Recalculated(periods[p], t.sales[v], pct))))
      PROVE  SInv' /\ Grown(periods, periods')
  <2>1. WriteOK(Write(p, periods[p], Recalculated(periods[p], t.sales[v], pct)), periods)
    BY <1>1, <1>3, RecalculateOK
  <2> HIDE DEF held, t, pct
  <2> QED
    BY <1>2, <1>3, <2>1
<1>4. ASSUME Hold(s, held(Insert(NewPeriod(v, t.week, t.sales[v], pct))))
      PROVE  SInv' /\ Grown(periods, periods')
  <2>1. WriteOK(Insert(NewPeriod(v, t.week, t.sales[v], pct)), periods)
    BY InsertOK
  <2> HIDE DEF held, t, pct
  <2> QED
    BY <1>2, <1>4, <2>1
<1> QED
  BY <1>3, <1>4 DEF RecalculateVendor

LEMMA LoadPeriodKeeps ==
  ASSUME SInv, NEW s \in Sessions, NEW p \in DOMAIN periods, LoadPeriod(s, p)
  PROVE  SInv' /\ Grown(periods, periods')
<1> DEFINE x == Write(p, periods[p], [periods[p] EXCEPT !.status = "paid"])
           held == [op |-> "pay", writes |-> <<x>>]
<1>1. Hold(s, held) /\ UNCHANGED tables
  BY DEF LoadPeriod
<1>2. WritesOK(<<x>>, periods)
  BY PayOK, OneWrite DEF SInv
<1> HIDE DEF x
<1>3. SessionOK(held, periods, week)
  BY <1>2 DEF SessionOK
<1> HIDE DEF held
<1> QED
  BY <1>1, <1>3, HeldKeeps


\* A step of nobody's session.
LEMMA OutsideKeeps ==
  ASSUME SInv, periods' = periods, sold' = sold, tx' = tx, week' \in Nat, week <= week'
  PROVE  SInv' /\ Grown(periods, periods')
<1>1. Grown(periods, periods)
  BY SameTableGrown DEF SInv
<1> DEFINE later == week'
<1> HIDE DEF later
<1>2. \A x \in Sessions : SessionOK(tx[x], periods, later)
  BY <1>1, SessionStaysOK DEF SInv, later
<1>3. EverySaleHasPeriod'
  BY DEF SInv, EverySaleHasPeriod
<1> QED
  BY <1>1, <1>2, <1>3 DEF SInv, later

LEMMA SInit_SInv == SInit => SInv
<1> SUFFICES ASSUME SInit
             PROVE  SInv
  OBVIOUS
<1>1. periods = <<>> /\ week = 1 /\ sold = <<>> /\ tx = [s \in Sessions |-> Idle]
  BY DEF SInit, Init
<1>2. TableOK(periods)
  BY <1>1 DEF TableOK
<1>3. \A s \in Sessions : SessionOK(tx[s], periods, week)
  BY <1>1, IdleOK
<1> QED
  BY <1>1, <1>2, <1>3 DEF SInv, EverySaleHasPeriod

LEMMA SNextKeeps ==
  ASSUME SInv, [SNext]_svars
  PROVE  SInv' /\ Grown(periods, periods')
<1>1. ASSUME NEW s \in Sessions, NEW o \in Parcels, LoadOrder(s, o)
      PROVE  SInv' /\ Grown(periods, periods')
  BY <1>1, LoadOrderKeeps
<1>2. ASSUME NEW s \in Sessions, RegisterCommission(s) \/ CommitDelivery(s) \/ LoadSales(s)
      PROVE  SInv' /\ Grown(periods, periods')
  BY <1>2, RegisterCommissionKeeps, CommitDeliveryKeeps, LoadSalesKeeps
<1>3. ASSUME NEW s \in Sessions, NEW v \in Vendors, RecalculateVendor(s, v)
      PROVE  SInv' /\ Grown(periods, periods')
  BY <1>3, RecalculateVendorKeeps
<1>4. ASSUME NEW s \in Sessions, NEW p \in DOMAIN periods, LoadPeriod(s, p)
      PROVE  SInv' /\ Grown(periods, periods')
  BY <1>4, LoadPeriodKeeps
<1>5. ASSUME NEW s \in Sessions, CommitRecalculation(s) \/ CommitPayment(s)
      PROVE  SInv' /\ Grown(periods, periods')
  <2>1. WritesOK(tx[s].writes, periods)
    BY <1>5 DEF CommitRecalculation, CommitPayment, SInv, SessionOK
  <2>2. /\ periods' = Written(tx[s].writes) /\ Hold(s, Idle)
        /\ sold' = sold /\ week' = week
    BY <1>5 DEF CommitRecalculation, CommitPayment
  <2> QED
    BY <2>1, <2>2, CommitKeeps
<1>6. ASSUME NEW s \in Sessions, Rollback(s)
      PROVE  SInv' /\ Grown(periods, periods')
  BY <1>6, IdleOK, HeldKeeps DEF Rollback
<1>7. ASSUME NEW v \in Vendors, NEW pct \in Percentages, SetPercentage(v, pct), tx' = tx
      PROVE  SInv' /\ Grown(periods, periods')
  BY <1>7, OutsideKeeps DEF SetPercentage, SInv
<1>8. CASE NextWeek /\ tx' = tx
  BY <1>8, OutsideKeeps DEF NextWeek, SInv
<1>9. CASE UNCHANGED svars
  BY <1>9, OutsideKeeps DEF svars, SInv
<1> QED
  BY <1>1, <1>2, <1>3, <1>4, <1>5, <1>6, <1>7, <1>8, <1>9 DEF SNext

\* However deliveries, recalculations and payments overlap, and whenever the week
\* ends, a retail sale has a period of its vendor, of its week or a later one
\* (orders/service.py:294-352): an update may overwrite an amount, never a row.
THEOREM SalesHavePeriods == SessionSpec => []EverySaleHasPeriod
<1>1. SInv /\ [SNext]_svars => SInv'
  BY SNextKeeps
<1>2. SInv => EverySaleHasPeriod
  BY DEF SInv
<1> QED
  BY <1>1, <1>2, SInit_SInv, PTL DEF SessionSpec

\* No overlap takes a payment back (commissions/service.py): the only request that
\* changes the status column of a period is the one that pays it, so no other
\* UPDATE contains that column.
THEOREM PaymentsStayPaid == SessionSpec => PaidStaysPaid
<1>1. SInv /\ [SNext]_svars =>
        /\ SInv'
        /\ \A p \in DOMAIN periods :
             /\ p \in DOMAIN periods'
             /\ periods'[p].vendor = periods[p].vendor /\ periods'[p].week = periods[p].week
             /\ periods[p].status = "paid" => periods'[p].status = "paid"
  BY SNextKeeps DEF Grown, KeptRow
<1> QED
  BY <1>1, SInit_SInv, PTL DEF SessionSpec, PaidStaysPaid


-----------------------------------------------------------------------------
(* What a commit writes when the table is still as the session read it.     *)

\* A session that changed a row nobody else did leaves it as it computed it.
LEMMA MergeFresh ==
  ASSUME NEW r, HasColumns(r), NEW new, HasColumns(new)
  PROVE  Merge(r, new, r) = new
BY DEF HasColumns, Columns, Merge

\* Without inserts nothing is added.
LEMMA NoInserts ==
  ASSUME NEW W, {i \in DOMAIN W : W[i].id = NoRow} = {}
  PROVE  [k \in DOMAIN SetToSeq({i \in DOMAIN W : W[i].id = NoRow}) |->
            W[SetToSeq({i \in DOMAIN W : W[i].id = NoRow})[k]].new] = << >>
<1> DEFINE ins == SetToSeq({i \in DOMAIN W : W[i].id = NoRow})
<1>1. DOMAIN ins = {}
  <2>1. IsFiniteSet({}) /\ Cardinality({}) = 0
    BY FS_EmptySet
  <2>2. ins = SetToSeq({})
    OBVIOUS
  <2> HIDE DEF ins
  <2>3. DOMAIN SetToSeq({}) = 1..0
    BY <2>1, SetToSeqFacts
  <2> QED
    BY <2>2, <2>3
<1> HIDE DEF ins
<1>2. [k \in DOMAIN ins |-> W[ins[k]].new] = << >>
  BY <1>1
<1> QED
  BY <1>2 DEF ins

LEMMA WrittenNothing ==
  ASSUME TableOK(periods)
  PROVE  Written(<< >>) = periods
<1> DEFINE W == << >>
           I == {i \in DOMAIN W : W[i].id = NoRow}
           old == [p \in DOMAIN periods |->
                     IF {i \in DOMAIN W : W[i].id = p} = {} THEN periods[p]
                     ELSE LET x == W[CHOOSE i \in {i \in DOMAIN W : W[i].id = p} : TRUE]
                          IN Merge(x.old, x.new, periods[p])]
<1>1. I = {}
  OBVIOUS
<1>2. Written(W) = old \o [k \in DOMAIN SetToSeq(I) |-> W[SetToSeq(I)[k]].new]
  BY DEF Written
<1>3. [k \in DOMAIN SetToSeq(I) |-> W[SetToSeq(I)[k]].new] = << >>
  BY <1>1, NoInserts
<1>4. old = periods
  <2>1. old = [p \in DOMAIN periods |-> periods[p]]
    OBVIOUS
  <2> HIDE DEF old
  <2> QED
    BY <2>1 DEF TableOK
<1>5. periods \o << >> = periods
  BY DEF TableOK
<1> HIDE DEF old, I, W
<1> QED
  BY <1>2, <1>3, <1>4, <1>5 DEF W

LEMMA WrittenUpdate ==
  ASSUME TableOK(periods), NEW p \in DOMAIN periods, NEW new, HasColumns(new)
  PROVE  Written(<<Write(p, periods[p], new)>>) = [periods EXCEPT ![p] = new]
<1> DEFINE x == Write(p, periods[p], new)
           W == <<x>>
           I == {i \in DOMAIN W : W[i].id = NoRow}
           toRow(q) == {i \in DOMAIN W : W[i].id = q}
           old == [q \in DOMAIN periods |->
                     IF toRow(q) = {} THEN periods[q]
                     ELSE LET y == W[CHOOSE i \in toRow(q) : TRUE]
                          IN Merge(y.old, y.new, periods[q])]
<1>1. x.id = p /\ x.old = periods[p] /\ x.new = new /\ p # NoRow
  BY DEF Write, NoRow, TableOK
<1>2. DOMAIN W = {1} /\ W[1] = x
  OBVIOUS
<1>3. I = {}
  BY <1>1, <1>2
<1>4. Written(W) = old \o [k \in DOMAIN SetToSeq(I) |-> W[SetToSeq(I)[k]].new]
  BY DEF Written
<1>5. [k \in DOMAIN SetToSeq(I) |-> W[SetToSeq(I)[k]].new] = << >>
  BY <1>3, NoInserts
<1>6. old = [periods EXCEPT ![p] = new]
  <2>1. toRow(p) = {1} /\ \A q \in DOMAIN periods : q # p => toRow(q) = {}
    BY <1>1, <1>2
  <2>2. (CHOOSE i \in toRow(p) : TRUE) = 1
    BY <2>1
  <2>3. Merge(x.old, x.new, periods[p]) = new
    BY <1>1, MergeFresh DEF TableOK
  <2>4. old[p] = new
    BY <1>2, <2>1, <2>2, <2>3
  <2>5. \A q \in DOMAIN periods : q # p => old[q] = periods[q]
    BY <2>1
  <2>6. old = [q \in DOMAIN periods |-> old[q]]
    OBVIOUS
  <2> HIDE DEF old
  <2>7. old = [q \in DOMAIN periods |-> IF q = p THEN new ELSE periods[q]]
    BY <2>4, <2>5, <2>6
  <2> QED
    BY <2>7
<1>7. [periods EXCEPT ![p] = new] \o << >> = [periods EXCEPT ![p] = new]
  <2> DEFINE S == {periods[q] : q \in DOMAIN periods}
  <2>1. periods \in Seq(S \cup {new})
    BY DEF TableOK
  <2> HIDE DEF S
  <2>2. [periods EXCEPT ![p] = new] \in Seq(S \cup {new})
    BY <2>1
  <2> QED
    BY <2>2
<1> HIDE DEF old, I, W, x
<1> QED
  BY <1>4, <1>5, <1>6, <1>7 DEF W, x


LEMMA WrittenInsert ==
  ASSUME TableOK(periods), NEW r
  PROVE  Written(<<Insert(r)>>) = Append(periods, r)
<1> DEFINE x == Insert(r)
           W == <<x>>
           I == {i \in DOMAIN W : W[i].id = NoRow}
           ins == SetToSeq(I)
           toRow(q) == {i \in DOMAIN W : W[i].id = q}
           old == [q \in DOMAIN periods |->
                     IF toRow(q) = {} THEN periods[q]
                     ELSE LET y == W[CHOOSE i \in toRow(q) : TRUE]
                          IN Merge(y.old, y.new, periods[q])]
           new == [k \in DOMAIN ins |-> W[ins[k]].new]
<1>1. x.id = NoRow /\ x.new = r
  BY DEF Insert, Write
<1>2. DOMAIN W = {1} /\ W[1] = x
  OBVIOUS
<1>3. I = {1}
  BY <1>1, <1>2
<1>4. Written(W) = old \o new
  BY DEF Written
<1>5. old = periods
  <2>1. \A q \in DOMAIN periods : q # NoRow
    BY DEF TableOK, NoRow
  <2>2. \A q \in DOMAIN periods : toRow(q) = {}
    BY <1>1, <1>2, <2>1
  <2>3. old = [q \in DOMAIN periods |-> periods[q]]
    BY <2>2
  <2> HIDE DEF old
  <2> QED
    BY <2>3 DEF TableOK
<1>6. new = <<r>>
  <2>1. IsFiniteSet({1}) /\ Cardinality({1}) = 1
    BY FS_Singleton
  <2>2. ins = SetToSeq({1})
    BY <1>3
  <2> HIDE DEF ins, I
  <2>3. DOMAIN ins = 1..1 /\ ins[1] = 1
    <3>1. SetToSeq({1}) \in [1..1 -> {1}] /\ DOMAIN SetToSeq({1}) = 1..1
      BY <2>1, SetToSeqFacts
    <3> QED
      BY <2>2, <3>1
  <2>4. new = [k \in 1..1 |-> new[k]] /\ new[1] = r
    BY <1>1, <1>2, <2>3
  <2> HIDE DEF new
  <2> QED
    BY <2>4
<1>7. periods \o <<r>> = Append(periods, r)
  <2> DEFINE S == {periods[q] : q \in DOMAIN periods}
  <2>1. periods \in Seq(S \cup {r})
    BY DEF TableOK
  <2> HIDE DEF S
  <2> QED
    BY <2>1
<1> HIDE DEF old, new, ins, I, W, x
<1> QED
  BY <1>4, <1>5, <1>6, <1>7 DEF W, x

-----------------------------------------------------------------------------
(* Sessions that never share a vendor hold what the tables say.             *)

MatchingOf(P, v, w) == {p \in DOMAIN P : P[p].vendor = v /\ P[p].week = w}

SoldOf(S, v, w) == {o \in DOMAIN S : SellerOf[o] = v /\ S[o].week = w}

PercentageIn(G, v) == IF G[v] \in {NoPercentage, 0} THEN ActivePercentage ELSE G[v]

LEMMA QueriesOfTables ==
  \A v, w : /\ Matching(v, w) = MatchingOf(periods, v, w)
            /\ SoldIn(v, w) = SoldOf(sold, v, w)
            /\ Sales(v, w) = SumOfTotals(SoldOf(sold, v, w))
            /\ PercentageOf(v) = PercentageIn(percentage, v)
BY DEF Matching, MatchingOf, SoldIn, SoldOf, Sales, PercentageOf, PercentageIn

\* The write of the delivery of o.
DeliveryOf(t, P, now, G) ==
  LET v == SellerOf[t.order]
      total == TotalOf[t.order]
      pct == PercentageIn(G, v)
  IN \/ v = NoVendor /\ t.writes = << >> /\ t.earned = 0
     \/ /\ v # NoVendor /\ t.earned = Commission(total, pct)
        /\ \E p \in MatchingOf(P, v, now) :
             t.writes = <<Write(p, P[p], Accrued(P[p], total, pct))>>
     \/ /\ v # NoVendor /\ t.earned = Commission(total, pct)
        /\ MatchingOf(P, v, now) = {}
        /\ t.writes = <<Insert(NewPeriod(v, now, total, pct))>>

\* The write of a vendor's week, computed again.
RecalculationOf(x, P, S, w, G) ==
  LET v == x.new.vendor
      sales == SumOfTotals(SoldOf(S, v, w))
  IN \/ /\ MatchingOf(P, v, w) = {}
        /\ x = Insert(NewPeriod(v, w, sales, PercentageIn(G, v)))
     \/ \E p \in MatchingOf(P, v, w) :
          x = Write(p, P[p], Recalculated(P[p], sales, PercentageIn(G, v)))

Sellers(S, w) == {v \in Vendors : SoldOf(S, v, w) # {}}

CurrentTx(t, P, S, now, G) ==
  /\ t.op \in {"deliver", "delivered"} =>
       t.order \in Parcels /\ t.order \notin DOMAIN S /\ t.week = now
  /\ t.op = "delivered" => DeliveryOf(t, P, now, G)
  /\ t.op = "recalculate" =>
       /\ t.week = now - 1
       /\ t.sales = [v \in Sellers(S, now - 1) |-> SumOfTotals(SoldOf(S, v, now - 1))]
       /\ t.left \subseteq Sellers(S, now - 1)
       /\ \A i \in DOMAIN t.writes :
            /\ t.writes[i].new.vendor \in Sellers(S, now - 1) \ t.left
            /\ RecalculationOf(t.writes[i], P, S, now - 1, G)
       /\ \A v \in Sellers(S, now - 1) \ t.left :
            \E i \in DOMAIN t.writes : t.writes[i].new.vendor = v
       /\ \A i, j \in DOMAIN t.writes :
            t.writes[i].new.vendor = t.writes[j].new.vendor => i = j
  /\ t.op = "pay" =>
       \E p \in DOMAIN P :
         /\ P[p].status # "paid"
         /\ t.writes = <<Write(p, P[p], [P[p] EXCEPT !.status = "paid"])>>

UpToDate == \A s \in Sessions : CurrentTx(tx[s], periods, sold, week, percentage)

\* Nothing of vendor v changes from the tables P and S to Q and R.
SameFor(v, P, S, Q, R) ==
  /\ \A p : p \in DOMAIN P /\ P[p].vendor = v <=> p \in DOMAIN Q /\ Q[p].vendor = v
  /\ \A p \in DOMAIN P : P[p].vendor = v => Q[p] = P[p]
  /\ \A o : SellerOf[o] = v => /\ o \in DOMAIN R <=> o \in DOMAIN S
                               /\ o \in DOMAIN S => R[o].week = S[o].week

TouchedBy(t) ==
  CASE t.op = "idle" -> {}
    [] t.op \in {"deliver", "delivered"} -> {SellerOf[t.order]}
    [] t.op = "recalculate" -> Vendors
    [] t.op = "pay" -> {t.writes[1].old.vendor}

LEMMA SameQueries ==
  ASSUME NEW P, NEW S, NEW Q, NEW R, NEW v, SameFor(v, P, S, Q, R)
  PROVE  \A w : /\ MatchingOf(Q, v, w) = MatchingOf(P, v, w)
                /\ SoldOf(R, v, w) = SoldOf(S, v, w)
                /\ \A p \in MatchingOf(P, v, w) : Q[p] = P[p]
BY DEF SameFor, MatchingOf, SoldOf

\* What a session holds depends on the vendors it touches alone.
LEMMA CurrentStays ==
  ASSUME NEW P, NEW S, NEW Q, NEW R, NEW now, NEW G, NEW t, CurrentTx(t, P, S, now, G),
         \A v \in TouchedBy(t) : SameFor(v, P, S, Q, R)
  PROVE  CurrentTx(t, Q, R, now, G)
<1>1. CASE t.op \in {"deliver", "delivered"}
  <2> DEFINE v == SellerOf[t.order]
  <2>1. SameFor(v, P, S, Q, R)
    BY <1>1 DEF TouchedBy
  <2>2. t.order \in Parcels /\ t.order \notin DOMAIN R /\ t.week = now
    BY <1>1, <2>1 DEF CurrentTx, SameFor
  <2>3. ASSUME t.op = "delivered"
        PROVE  DeliveryOf(t, Q, now, G)
    <3>1. DeliveryOf(t, P, now, G)
      BY <2>3 DEF CurrentTx
    <3>2. /\ MatchingOf(Q, v, now) = MatchingOf(P, v, now)
          /\ \A p \in MatchingOf(P, v, now) : Q[p] = P[p]
      BY <2>1, SameQueries
    <3> QED
      BY <3>1, <3>2 DEF DeliveryOf
  <2> QED
    BY <1>1, <2>2, <2>3 DEF CurrentTx
<1>2. CASE t.op = "recalculate"
  <2> DEFINE w == now - 1
  <2>1. \A v \in Vendors : SameFor(v, P, S, Q, R)
    BY <1>2 DEF TouchedBy
  <2>2. \A v \in Vendors : /\ MatchingOf(Q, v, w) = MatchingOf(P, v, w)
                           /\ SoldOf(R, v, w) = SoldOf(S, v, w)
                           /\ \A p \in MatchingOf(P, v, w) : Q[p] = P[p]
    BY <2>1, SameQueries
  <2> HIDE DEF w
  <2>3. Sellers(R, w) = Sellers(S, w)
    BY <2>2 DEF Sellers
  <2>4. \A v \in Sellers(S, w) : v \in Vendors /\ SoldOf(R, v, w) = SoldOf(S, v, w)
    BY <2>2 DEF Sellers
  <2>5. [v \in Sellers(R, w) |-> SumOfTotals(SoldOf(R, v, w))]
          = [v \in Sellers(S, w) |-> SumOfTotals(SoldOf(S, v, w))]
    BY <2>3, <2>4
  <2>6. \A x : x.new.vendor \in Vendors /\ RecalculationOf(x, P, S, w, G)
                 => RecalculationOf(x, Q, R, w, G)
    BY <2>2 DEF RecalculationOf
  <2> QED
    BY <1>2, <2>3, <2>4, <2>5, <2>6 DEF CurrentTx, w
<1>3. CASE t.op = "pay"
  <2>1. PICK p \in DOMAIN P :
          /\ P[p].status # "paid"
          /\ t.writes = <<Write(p, P[p], [P[p] EXCEPT !.status = "paid"])>>
    BY <1>3 DEF CurrentTx
  <2>2. t.writes[1].old = P[p]
    BY <2>1 DEF Write
  <2>3. SameFor(P[p].vendor, P, S, Q, R)
    BY <1>3, <2>2 DEF TouchedBy
  <2>4. p \in DOMAIN Q /\ Q[p] = P[p]
    BY <2>3 DEF SameFor
  <2> QED
    BY <1>3, <2>1, <2>4 DEF CurrentTx
<1> QED
  BY <1>1, <1>2, <1>3 DEF CurrentTx


LEMMA CurrentIdle ==
  ASSUME NEW P, NEW S, NEW now, NEW G
  PROVE  CurrentTx(Idle, P, S, now, G)
BY DEF CurrentTx, Idle

\* A step that changes one session and no table is a stutter of Commissions.
LEMMA HeldStutters ==
  ASSUME SInv, UpToDate, NEW s \in Sessions, NEW held, Hold(s, held), UNCHANGED tables,
         CurrentTx(held, periods, sold, week, percentage)
  PROVE  UpToDate' /\ UNCHANGED vars
<1>1. /\ UNCHANGED <<periods, week, sold, percentage>>
      /\ tx' = [x \in Sessions |-> IF x = s THEN held ELSE tx[x]]
  BY DEF tables, Hold, SInv
<1>2. \A x \in Sessions : CurrentTx(tx'[x], periods, sold, week, percentage)
  BY <1>1 DEF UpToDate
<1> QED
  BY <1>1, <1>2 DEF UpToDate, vars

\* A commit changes nothing of the vendors its session does not touch.
LEMMA WrittenElsewhere ==
  ASSUME TableOK(periods), NEW W, WritesOK(W, periods), NEW T,
         \A i \in DOMAIN W : W[i].new.vendor \in T,
         NEW R, \A o : SellerOf[o] \notin T =>
                  /\ o \in DOMAIN R <=> o \in DOMAIN sold
                  /\ o \in DOMAIN sold => R[o].week = sold[o].week
  PROVE  \A v : v \notin T => SameFor(v, periods, sold, Written(W), R)
<1> DEFINE Q == Written(W)
<1>1. /\ Grown(periods, Q)
      /\ \A p \in DOMAIN periods : (\A i \in DOMAIN W : W[i].id # p) => Q[p] = periods[p]
      /\ \A p \in DOMAIN Q : p \notin DOMAIN periods => \E i \in DOMAIN W : Q[p] = W[i].new
  BY WrittenEffect
<1>2. \A p \in DOMAIN periods : p # NoRow
  BY DEF TableOK, NoRow
<1> HIDE DEF Q
<1>3. ASSUME NEW v, v \notin T, NEW p \in DOMAIN periods, periods[p].vendor = v
      PROVE  Q[p] = periods[p]
  <2>1. \A i \in DOMAIN W : W[i].id # p
    BY <1>2, <1>3 DEF WritesOK, WriteOK
  <2> QED
    BY <1>1, <2>1
<1>4. \A p \in DOMAIN periods : p \in DOMAIN Q /\ Q[p].vendor = periods[p].vendor
  BY <1>1 DEF Grown, KeptRow
<1>5. \A v : v \notin T =>
        \A p : p \in DOMAIN Q /\ Q[p].vendor = v => p \in DOMAIN periods
  BY <1>1
<1> QED
  BY <1>3, <1>4, <1>5 DEF SameFor, Q

\* A commit leaves the other sessions up to date.
LEMMA CommitUpToDate ==
  ASSUME SInv, OneSessionPerVendor, UpToDate, NEW s \in Sessions, Hold(s, Idle),
         week' = week, percentage' = percentage,
         \A v : v \notin TouchedBy(tx[s]) => SameFor(v, periods, sold, periods', sold')
  PROVE  UpToDate'
<1> DEFINE Q == periods'
           R == sold'
<1>1. tx' = [x \in Sessions |-> IF x = s THEN Idle ELSE tx[x]]
  BY DEF Hold, SInv
<1>2. \A x \in Sessions : x # s => TouchedBy(tx[x]) \cap TouchedBy(tx[s]) = {}
  BY DEF OneSessionPerVendor, Touched, TouchedBy
<1>3. \A x \in Sessions : x # s =>
        \A v \in TouchedBy(tx[x]) : SameFor(v, periods, sold, Q, R)
  BY <1>2
<1> HIDE DEF Q, R
<1>4. \A x \in Sessions : x # s => CurrentTx(tx[x], Q, R, week, percentage)
  BY <1>3, CurrentStays DEF UpToDate
<1>5. \A x \in Sessions : CurrentTx(tx'[x], Q, R, week, percentage)
  BY <1>1, <1>4, CurrentIdle
<1> QED
  BY <1>1, <1>5 DEF UpToDate, Q, R

-----------------------------------------------------------------------------
(* Each step of such sessions.                                              *)

LEMMA LoadOrderStutters ==
  ASSUME SInv, UpToDate, NEW s \in Sessions, NEW o \in Parcels, LoadOrder(s, o)
  PROVE  UpToDate' /\ UNCHANGED vars
<1> DEFINE held == [op |-> "deliver", order |-> o, week |-> week]
<1>1. Hold(s, held) /\ UNCHANGED tables /\ o \notin DOMAIN sold
  BY DEF LoadOrder
<1>2. CurrentTx(held, periods, sold, week, percentage)
  BY <1>1 DEF CurrentTx
<1> HIDE DEF held
<1> QED
  BY <1>1, <1>2, HeldStutters

LEMMA RegisterCommissionStutters ==
  ASSUME SInv, UpToDate, NEW s \in Sessions, RegisterCommission(s)
  PROVE  UpToDate' /\ UNCHANGED vars
<1> DEFINE t == tx[s]
           v == SellerOf[t.order]
           total == TotalOf[t.order]
           pct == PercentageOf(v)
           held(writes, earned) ==
             [op |-> "delivered", order |-> t.order, week |-> t.week,
              earned |-> earned, writes |-> writes]
<1>1. /\ t.order \in Parcels /\ t.order \notin DOMAIN sold /\ t.week = week
      /\ UNCHANGED tables
  BY DEF RegisterCommission, UpToDate, CurrentTx
<1>2. ASSUME NEW W, NEW e, Hold(s, held(W, e)),
             DeliveryOf(held(W, e), periods, week, percentage)
      PROVE  UpToDate' /\ UNCHANGED vars
  <2>1. CurrentTx(held(W, e), periods, sold, week, percentage)
    BY <1>1, <1>2 DEF CurrentTx
  <2> HIDE DEF held
  <2> QED
    BY <1>1, <1>2, <2>1, HeldStutters
<1>3. CASE v = NoVendor /\ Hold(s, held(<< >>, 0))
  <2>1. DeliveryOf(held(<< >>, 0), periods, week, percentage)
    BY <1>3 DEF DeliveryOf
  <2> QED
    BY <1>2, <1>3, <2>1
<1>4. ASSUME v # NoVendor, NEW p \in Matching(v, week),
             Hold(s, held(<<Write(p, periods[p], Accrued(periods[p], total, pct))>>,
                          Commission(total, pct)))
      PROVE  UpToDate' /\ UNCHANGED vars
  <2>1. DeliveryOf(held(<<Write(p, periods[p], Accrued(periods[p], total, pct))>>,
                        Commission(total, pct)), periods, week, percentage)
    BY <1>4, QueriesOfTables DEF DeliveryOf
  <2> HIDE DEF held, v, total, pct
  <2> QED
    BY <1>2, <1>4, <2>1
<1>5. ASSUME v # NoVendor, Matching(v, week) = {},
             Hold(s, held(<<Insert(NewPeriod(v, week, total, pct))>>, Commission(total, pct)))
      PROVE  UpToDate' /\ UNCHANGED vars
  <2>1. DeliveryOf(held(<<Insert(NewPeriod(v, week, total, pct))>>, Commission(total, pct)),
                   periods, week, percentage)
    BY <1>5, QueriesOfTables DEF DeliveryOf
  <2> HIDE DEF held, v, total, pct
  <2> QED
    BY <1>2, <1>5, <2>1
<1> QED
  BY <1>3, <1>4, <1>5 DEF RegisterCommission

LEMMA LoadSalesStutters ==
  ASSUME SInv, UpToDate, NEW s \in Sessions, LoadSales(s)
  PROVE  UpToDate' /\ UNCHANGED vars
<1> DEFINE w == week - 1
           sellers == {v \in Vendors : SoldIn(v, w) # {}}
           sales == [v \in sellers |-> Sales(v, w)]
           held == [op |-> "recalculate", week |-> w, sales |-> sales,
                    left |-> sellers, writes |-> << >>]
<1>1. Hold(s, held) /\ UNCHANGED tables
  BY DEF LoadSales
<1>2. sellers = Sellers(sold, w)
  BY QueriesOfTables DEF Sellers
<1>3. sales = [v \in Sellers(sold, w) |-> SumOfTotals(SoldOf(sold, v, w))]
  BY <1>2, QueriesOfTables
<1> HIDE DEF sellers, sales, w
<1>4. CurrentTx(held, periods, sold, week, percentage)
  BY <1>2, <1>3 DEF CurrentTx, w
<1> HIDE DEF held
<1> QED
  BY <1>1, <1>4, HeldStutters

LEMMA RecalculateVendorStutters ==
  ASSUME SInv, UpToDate, NEW s \in Sessions, NEW v \in Vendors, RecalculateVendor(s, v)
  PROVE  UpToDate' /\ UNCHANGED vars
<1> DEFINE t == tx[s]
           w == week - 1
           pct == PercentageOf(v)
           held(x) == [t EXCEPT !.left = @ \ {v}, !.writes = Append(@, x)]
<1>1. /\ t.op = "recalculate" /\ t = [k \in RecalculateFields |-> t[k]]
      /\ WritesOK(t.writes, periods) /\ UNCHANGED tables /\ v \in t.left
  BY DEF RecalculateVendor, SInv, SessionOK
<1>2. /\ t.week = w
      /\ t.sales = [y \in Sellers(sold, w) |-> SumOfTotals(SoldOf(sold, y, w))]
      /\ t.left \subseteq Sellers(sold, w)
      /\ \A i \in DOMAIN t.writes :
           /\ t.writes[i].new.vendor \in Sellers(sold, w) \ t.left
           /\ RecalculationOf(t.writes[i], periods, sold, w, percentage)
      /\ \A y \in Sellers(sold, w) \ t.left :
           \E i \in DOMAIN t.writes : t.writes[i].new.vendor = y
      /\ \A i, j \in DOMAIN t.writes :
           t.writes[i].new.vendor = t.writes[j].new.vendor => i = j
  BY <1>1 DEF UpToDate, CurrentTx
<1>3. t.sales[v] = SumOfTotals(SoldOf(sold, v, w))
  BY <1>1, <1>2
<1>4. ASSUME NEW x, x.new.vendor = v, RecalculationOf(x, periods, sold, w, percentage),
             Hold(s, held(x))
      PROVE  UpToDate' /\ UNCHANGED vars
  <2> DEFINE W == Append(t.writes, x)
             L == t.left \ {v}
             n == Len(t.writes)
  <2>1. /\ n \in Nat /\ DOMAIN t.writes = 1..n /\ DOMAIN W = 1..(n + 1)
        /\ W[n + 1] = x /\ \A i \in 1..n : W[i] = t.writes[i]
    <3> DEFINE S == {t.writes[i] : i \in DOMAIN t.writes}
    <3>1. t.writes \in Seq(S \cup {x})
      BY <1>1 DEF WritesOK
    <3> HIDE DEF S
    <3> QED
      BY <3>1
  <2>2. /\ held(x).op = "recalculate" /\ held(x).week = w /\ held(x).sales = t.sales
        /\ held(x).left = L /\ held(x).writes = W
    BY <1>1, <1>2 DEF RecalculateFields
  <2> HIDE DEF W, n
  <2>3. /\ L \subseteq Sellers(sold, w)
        /\ \A i \in 1..(n + 1) :
             /\ W[i].new.vendor \in Sellers(sold, w) \ L
             /\ RecalculationOf(W[i], periods, sold, w, percentage)
    <3>1. L \subseteq Sellers(sold, w) /\ v \in Sellers(sold, w) \ L
      BY <1>1, <1>2
    <3>2. \A y \in Sellers(sold, w) \ t.left : y \in Sellers(sold, w) \ L
      OBVIOUS
    <3>3. \A i \in 1..n : /\ W[i].new.vendor \in Sellers(sold, w) \ t.left
                          /\ RecalculationOf(W[i], periods, sold, w, percentage)
      <4> TAKE i \in 1..n
      <4>1. i \in DOMAIN t.writes /\ W[i] = t.writes[i]
        BY <2>1
      <4>2. /\ t.writes[i].new.vendor \in Sellers(sold, w) \ t.left
            /\ RecalculationOf(t.writes[i], periods, sold, w, percentage)
        BY <1>2, <4>1
      <4> HIDE DEF w, t
      <4> QED
        BY <4>1, <4>2
    <3> HIDE DEF w, t, L
    <3> QED
      BY <1>4, <2>1, <3>1, <3>2, <3>3
  <2>4. ASSUME NEW y \in Sellers(sold, w) \ L
        PROVE  \E i \in 1..(n + 1) : W[i].new.vendor = y
    <3>1. CASE y = v
      BY <1>4, <2>1, <3>1
    <3>2. CASE y # v
      <4>1. PICK i \in 1..n : t.writes[i].new.vendor = y
        BY <1>2, <2>1, <3>2
      <4> QED
        BY <2>1, <4>1
    <3> QED
      BY <3>1, <3>2
  <2>5. \A i, j \in 1..(n + 1) : W[i].new.vendor = W[j].new.vendor => i = j
    <3>1. \A i \in 1..n : W[i].new.vendor # v
      <4> TAKE i \in 1..n
      <4>1. i \in DOMAIN t.writes /\ W[i] = t.writes[i]
        BY <2>1
      <4>2. t.writes[i].new.vendor \in Sellers(sold, w) \ t.left
        BY <1>2, <4>1
      <4>3. v \in t.left
        BY <1>1
      <4> HIDE DEF w, t
      <4> QED
        BY <4>1, <4>2, <4>3
    <3>2. \A i, j \in 1..n : W[i].new.vendor = W[j].new.vendor => i = j
      BY <1>2, <2>1
    <3> QED
      BY <1>4, <2>1, <3>1, <3>2
  <2> HIDE DEF held, L
  <2>6. CurrentTx(held(x), periods, sold, week, percentage)
    BY <1>2, <2>1, <2>2, <2>3, <2>4, <2>5 DEF CurrentTx, w
  <2> QED
    BY <1>1, <1>4, <2>6, HeldStutters
<1>5. ASSUME NEW p \in Matching(v, t.week),
             Hold(s, held(Write(p, periods[p], Recalculated(periods[p], t.sales[v], pct))))
      PROVE  UpToDate' /\ UNCHANGED vars
  <2> DEFINE x == Write(p, periods[p], Recalculated(periods[p], t.sales[v], pct))
  <2>1. p \in DOMAIN periods /\ periods[p].vendor = v /\ HasColumns(periods[p])
    BY <1>5 DEF Matching, SInv, TableOK
  <2>2. x.new.vendor = v
    BY <2>1, RecalculatedColumns DEF Write
  <2>3. p \in MatchingOf(periods, v, w)
        /\ x = Write(p, periods[p], Recalculated(periods[p], SumOfTotals(SoldOf(sold, v, w)),
                                                 PercentageIn(percentage, v)))
    BY <1>2, <1>3, <1>5, QueriesOfTables
  <2> HIDE DEF x
  <2>4. RecalculationOf(x, periods, sold, w, percentage)
    BY <2>2, <2>3 DEF RecalculationOf
  <2>5. Hold(s, held(x))
    BY <1>5 DEF x
  <2> HIDE DEF held, t, pct, w
  <2> QED
    BY <1>4, <2>2, <2>4, <2>5
<1>6. ASSUME Matching(v, t.week) = {},
             Hold(s, held(Insert(NewPeriod(v, t.week, t.sales[v], pct))))
      PROVE  UpToDate' /\ UNCHANGED vars
  <2> DEFINE x == Insert(NewPeriod(v, t.week, t.sales[v], pct))
  <2>1. x.new.vendor = v
    BY InsertOK
  <2>2. MatchingOf(periods, v, w) = {}
        /\ x = Insert(NewPeriod(v, w, SumOfTotals(SoldOf(sold, v, w)),
                                PercentageIn(percentage, v)))
    BY <1>2, <1>3, <1>6, QueriesOfTables
  <2> HIDE DEF x
  <2>3. RecalculationOf(x, periods, sold, w, percentage)
    BY <2>1, <2>2 DEF RecalculationOf
  <2>4. Hold(s, held(x))
    BY <1>6 DEF x
  <2> HIDE DEF held, t, pct, w
  <2> QED
    BY <1>4, <2>1, <2>3, <2>4
<1> QED
  BY <1>5, <1>6 DEF RecalculateVendor

LEMMA LoadPeriodStutters ==
  ASSUME SInv, UpToDate, NEW s \in Sessions, NEW p \in DOMAIN periods, LoadPeriod(s, p)
  PROVE  UpToDate' /\ UNCHANGED vars
<1> DEFINE held == [op |-> "pay",
                    writes |-> <<Write(p, periods[p], [periods[p] EXCEPT !.status = "paid"])>>]
<1>1. Hold(s, held) /\ UNCHANGED tables /\ periods[p].status # "paid"
  BY DEF LoadPeriod
<1>2. CurrentTx(held, periods, sold, week, percentage)
  BY <1>1 DEF CurrentTx
<1> HIDE DEF held
<1> QED
  BY <1>1, <1>2, HeldStutters


LEMMA CommitDeliveryRefines ==
  ASSUME SInv, OneSessionPerVendor, UpToDate, NEW s \in Sessions, CommitDelivery(s)
  PROVE  UpToDate' /\ Next
<1> DEFINE t == tx[s]
           o == t.order
           v == SellerOf[o]
           total == TotalOf[o]
           pct == PercentageOf(v)
           W == t.writes
           delivery == [week |-> week,
                        earned |-> IF v = NoVendor THEN 0 ELSE Commission(total, pct)]
<1>1. /\ t.op = "delivered" /\ periods' = Written(W) /\ Hold(s, Idle)
      /\ week' = week /\ percentage' = percentage
      /\ sold' = [x \in DOMAIN sold \cup {o} |->
                    IF x = o THEN [week |-> t.week, earned |-> t.earned] ELSE sold[x]]
  BY DEF CommitDelivery
<1>2. /\ o \in Parcels /\ o \notin DOMAIN sold /\ t.week = week
      /\ DeliveryOf(t, periods, week, percentage)
  BY <1>1 DEF UpToDate, CurrentTx
<1>3. TableOK(periods) /\ WritesOK(W, periods)
  BY <1>1 DEF SInv, SessionOK
<1>4. v # NoVendor => v \in Vendors
  BY <1>2, CommissionsAssumption
<1>5. \/ v = NoVendor /\ W = << >> /\ t.earned = 0
      \/ /\ v # NoVendor /\ t.earned = Commission(total, pct)
         /\ \E p \in Matching(v, week) :
              W = <<Write(p, periods[p], Accrued(periods[p], total, pct))>>
      \/ /\ v # NoVendor /\ t.earned = Commission(total, pct)
         /\ Matching(v, week) = {} /\ W = <<Insert(NewPeriod(v, week, total, pct))>>
  BY <1>2, QueriesOfTables DEF DeliveryOf
<1>6. t.earned = IF v = NoVendor THEN 0 ELSE Commission(total, pct)
  BY <1>5
<1>7. \A i \in DOMAIN W : W[i].new.vendor = v
  <2>1. CASE W = << >>
    BY <2>1
  <2>2. ASSUME v # NoVendor, NEW p \in Matching(v, week),
               W = <<Write(p, periods[p], Accrued(periods[p], total, pct))>>
        PROVE  \A i \in DOMAIN W : W[i].new.vendor = v
    <3>1. Write(p, periods[p], Accrued(periods[p], total, pct)).new.vendor = v
      <4>1. v \in Vendors /\ p \in Matching(v, week)
        BY <1>4, <2>2
      <4> HIDE DEF v, total, pct
      <4> QED
        BY <1>3, <4>1, AccrueOK
    <3> QED
      BY <2>2, <3>1
  <2>3. ASSUME v # NoVendor, W = <<Insert(NewPeriod(v, week, total, pct))>>
        PROVE  \A i \in DOMAIN W : W[i].new.vendor = v
    <3>1. Insert(NewPeriod(v, week, total, pct)).new.vendor = v
      BY <1>4, <2>3, InsertOK
    <3> QED
      BY <2>3, <3>1
  <2> QED
    BY <1>5, <2>1, <2>2, <2>3
<1>8. \/ v = NoVendor /\ periods' = periods
      \/ /\ v # NoVendor
         /\ \E p \in Matching(v, week) :
              periods' = [periods EXCEPT ![p] = Accrued(@, total, pct)]
      \/ /\ v # NoVendor /\ Matching(v, week) = {}
         /\ periods' = Append(periods, NewPeriod(v, week, total, pct))
  <2>1. ASSUME NEW p \in Matching(v, week)
        PROVE  Written(<<Write(p, periods[p], Accrued(periods[p], total, pct))>>)
                 = [periods EXCEPT ![p] = Accrued(periods[p], total, pct)]
    <3>1. p \in DOMAIN periods /\ HasColumns(periods[p])
      BY <1>3 DEF Matching, TableOK
    <3>2. HasColumns(Accrued(periods[p], total, pct))
      BY <3>1, AccruedColumns
    <3> QED
      BY <1>3, <3>1, <3>2, WrittenUpdate
  <2>2. Written(<<Insert(NewPeriod(v, week, total, pct))>>)
          = Append(periods, NewPeriod(v, week, total, pct))
    BY <1>3, WrittenInsert
  <2> HIDE DEF v, pct, total
  <2> QED
    BY <1>1, <1>3, <1>5, <2>1, <2>2, WrittenNothing
<1>9. Deliver(o)
  <2>1. sold' = [x \in DOMAIN sold \cup {o} |-> IF x = o THEN delivery ELSE sold[x]]
    BY <1>1, <1>2, <1>6
  <2> HIDE DEF delivery
  <2>2. UNCHANGED <<percentage, week>>
    BY <1>1
  <2> QED
    BY <1>2, <1>8, <2>1, <2>2 DEF Deliver, delivery
<1>10. UpToDate'
  <2>1. TouchedBy(t) = {v}
    BY <1>1 DEF TouchedBy
  <2> DEFINE R == sold'
  <2>2. \A x : SellerOf[x] # v =>
          /\ x \in DOMAIN R <=> x \in DOMAIN sold
          /\ x \in DOMAIN sold => R[x].week = sold[x].week
    BY <1>1
  <2> HIDE DEF R
  <2>3. \A y : y \notin {v} => SameFor(y, periods, sold, Written(W), R)
    BY <1>3, <1>7, <2>2, WrittenElsewhere
  <2>4. \A y : y \notin TouchedBy(t) => SameFor(y, periods, sold, periods', sold')
    BY <1>1, <2>1, <2>3 DEF R
  <2> QED
    BY <1>1, <2>4, CommitUpToDate
<1> QED
  BY <1>2, <1>9, <1>10 DEF Next

LEMMA CommitPaymentRefines ==
  ASSUME SInv, OneSessionPerVendor, UpToDate, NEW s \in Sessions, CommitPayment(s)
  PROVE  UpToDate' /\ Next
<1> DEFINE t == tx[s]
           W == t.writes
<1>1. /\ t.op = "pay" /\ periods' = Written(W) /\ Hold(s, Idle)
      /\ sold' = sold /\ week' = week /\ percentage' = percentage
  BY DEF CommitPayment
<1>2. TableOK(periods) /\ WritesOK(W, periods)
  BY <1>1 DEF SInv, SessionOK
<1>3. PICK p \in DOMAIN periods :
        /\ periods[p].status # "paid"
        /\ W = <<Write(p, periods[p], [periods[p] EXCEPT !.status = "paid"])>>
  BY <1>1 DEF UpToDate, CurrentTx
<1> DEFINE row == [periods[p] EXCEPT !.status = "paid"]
<1>4. HasColumns(row) /\ row.vendor = periods[p].vendor
  BY <1>2, PaidColumns DEF TableOK
<1>5. periods' = [periods EXCEPT ![p] = row]
  <2> HIDE DEF row
  <2>1. W = <<Write(p, periods[p], row)>>
    BY <1>3 DEF row
  <2> QED
    BY <1>1, <1>2, <1>4, <2>1, WrittenUpdate
<1>6. Pay(p)
  BY <1>1, <1>3, <1>5 DEF Pay
<1>7. UpToDate'
  <2>1. W[1].old = periods[p] /\ \A i \in DOMAIN W : W[i].new.vendor = periods[p].vendor
    <3> HIDE DEF row
    <3>1. W = <<Write(p, periods[p], row)>>
      BY <1>3 DEF row
    <3> QED
      BY <1>4, <3>1 DEF Write
  <2>2. TouchedBy(t) = {periods[p].vendor}
    BY <1>1, <2>1 DEF TouchedBy
  <2>3. \A v : v \notin {periods[p].vendor} => SameFor(v, periods, sold, Written(W), sold)
    BY <1>2, <2>1, WrittenElsewhere
  <2>4. \A v : v \notin TouchedBy(t) => SameFor(v, periods, sold, periods', sold')
    BY <1>1, <2>2, <2>3
  <2> QED
    BY <1>1, <2>4, CommitUpToDate
<1> QED
  BY <1>3, <1>6, <1>7 DEF Next


\* What the writes of a finished recalculation are: one for each vendor that sold,
\* an insert for those without a period and an update for the others.
LEMMA RecalculationWrites ==
  ASSUME SInv, UpToDate, NEW s \in Sessions, tx[s].op = "recalculate", tx[s].left = {}
  PROVE  LET W == tx[s].writes
             w == week - 1
             sellers == {v \in Vendors : SoldIn(v, w) # {}}
         IN /\ \A i \in DOMAIN W :
                 LET v == W[i].new.vendor
                 IN /\ v \in sellers
                    /\ W[i].id = NoRow =>
                         /\ Matching(v, w) = {}
                         /\ W[i].new = NewPeriod(v, w, Sales(v, w), PercentageOf(v))
                    /\ W[i].id # NoRow =>
                         /\ W[i].id \in Matching(v, w) /\ W[i].old = periods[W[i].id]
                         /\ W[i].new = Recalculated(periods[W[i].id], Sales(v, w),
                                                    PercentageOf(v))
            /\ \A v \in sellers : \E i \in DOMAIN W : W[i].new.vendor = v
            /\ \A i, j \in DOMAIN W : W[i].new.vendor = W[j].new.vendor => i = j
<1> DEFINE W == tx[s].writes
           w == week - 1
           sellers == {v \in Vendors : SoldIn(v, w) # {}}
<1>1. sellers = Sellers(sold, w)
  BY QueriesOfTables DEF Sellers
<1>2. /\ \A i \in DOMAIN W : /\ W[i].new.vendor \in Sellers(sold, w)
                             /\ RecalculationOf(W[i], periods, sold, w, percentage)
      /\ \A v \in Sellers(sold, w) : \E i \in DOMAIN W : W[i].new.vendor = v
      /\ \A i, j \in DOMAIN W : W[i].new.vendor = W[j].new.vendor => i = j
  BY DEF UpToDate, CurrentTx
<1>3. \A p \in DOMAIN periods : p # NoRow
  BY DEF SInv, TableOK, NoRow
<1>4. ASSUME NEW i \in DOMAIN W
      PROVE  LET v == W[i].new.vendor
             IN /\ W[i].id = NoRow =>
                     /\ Matching(v, w) = {}
                     /\ W[i].new = NewPeriod(v, w, Sales(v, w), PercentageOf(v))
                /\ W[i].id # NoRow =>
                     /\ W[i].id \in Matching(v, w) /\ W[i].old = periods[W[i].id]
                     /\ W[i].new = Recalculated(periods[W[i].id], Sales(v, w),
                                                PercentageOf(v))
  <2> DEFINE x == W[i]
             v == x.new.vendor
  <2>1. RecalculationOf(x, periods, sold, w, percentage)
    BY <1>2
  <2> HIDE DEF x, W
  <2>2. \/ /\ Matching(v, w) = {}
           /\ x = Insert(NewPeriod(v, w, Sales(v, w), PercentageOf(v)))
        \/ \E p \in Matching(v, w) :
             x = Write(p, periods[p], Recalculated(periods[p], Sales(v, w), PercentageOf(v)))
    BY <2>1, QueriesOfTables DEF RecalculationOf
  <2> DEFINE y == v
  <2> HIDE DEF y, w
  <2>3. \/ /\ Matching(y, w) = {}
           /\ x = Insert(NewPeriod(y, w, Sales(y, w), PercentageOf(y)))
        \/ \E p \in Matching(y, w) :
             x = Write(p, periods[p], Recalculated(periods[p], Sales(y, w), PercentageOf(y)))
    BY <2>2 DEF y
  <2>4. /\ x.id = NoRow =>
             /\ Matching(y, w) = {}
             /\ x.new = NewPeriod(y, w, Sales(y, w), PercentageOf(y))
        /\ x.id # NoRow =>
             /\ x.id \in Matching(y, w) /\ x.old = periods[x.id]
             /\ x.new = Recalculated(periods[x.id], Sales(y, w), PercentageOf(y))
    <3>1. CASE x = Insert(NewPeriod(y, w, Sales(y, w), PercentageOf(y)))
               /\ Matching(y, w) = {}
      BY <3>1 DEF Insert, Write
    <3>2. ASSUME NEW p \in Matching(y, w),
                 x = Write(p, periods[p],
                           Recalculated(periods[p], Sales(y, w), PercentageOf(y)))
          PROVE  /\ x.id # NoRow /\ x.id \in Matching(y, w) /\ x.old = periods[x.id]
                 /\ x.new = Recalculated(periods[x.id], Sales(y, w), PercentageOf(y))
      <4>1. p # NoRow
        BY <1>3, <3>2 DEF Matching
      <4> QED
        BY <3>2, <4>1 DEF Write
    <3> QED
      BY <2>3, <3>1, <3>2
  <2> QED
    BY <2>4 DEF y, x
<1> HIDE DEF W, w, sellers
<1> QED
  BY <1>1, <1>2, <1>4 DEF W, w, sellers


\* The commit of a recalculation is the one step of Commissions: what is inserted
\* are the periods of the vendors that had none, in some order.
LEMMA CommitRecalculationIsOne ==
  ASSUME SInv, UpToDate, NEW s \in Sessions, CommitRecalculation(s)
  PROVE  Recalculate
<1> DEFINE W == tx[s].writes
           w == week - 1
           sellers == {v \in Vendors : SoldIn(v, w) # {}}
           known == {v \in sellers : Matching(v, w) # {}}
           again(row) == Recalculated(row, Sales(row.vendor, w), PercentageOf(row.vendor))
           opened(v) == NewPeriod(v, w, Sales(v, w), PercentageOf(v))
           I == {i \in DOMAIN W : W[i].id = NoRow}
           ins == SetToSeq(I)
           n == Cardinality(I)
           toRow(p) == {i \in DOMAIN W : W[i].id = p}
           old == [p \in DOMAIN periods |->
                     IF toRow(p) = {} THEN periods[p]
                     ELSE LET x == W[CHOOSE i \in toRow(p) : TRUE]
                          IN Merge(x.old, x.new, periods[p])]
           new == [k \in DOMAIN ins |-> W[ins[k]].new]
           seller(i) == W[i].new.vendor
           the(v) == CHOOSE i \in DOMAIN W : seller(i) = v
           first == [v \in known |-> W[the(v)].id]
           fresh == [k \in 1..n |-> seller(ins[k])]
<1>1. /\ tx[s].op = "recalculate" /\ tx[s].left = {} /\ periods' = Written(W)
      /\ UNCHANGED <<sold, percentage, week>>
  BY DEF CommitRecalculation
<1>2. TableOK(periods) /\ WritesOK(W, periods)
  BY <1>1 DEF SInv, SessionOK
<1>3. /\ \A i \in DOMAIN W :
           /\ seller(i) \in sellers
           /\ W[i].id = NoRow => Matching(seller(i), w) = {} /\ W[i].new = opened(seller(i))
           /\ W[i].id # NoRow =>
                /\ W[i].id \in Matching(seller(i), w) /\ W[i].old = periods[W[i].id]
                /\ W[i].new = Recalculated(periods[W[i].id], Sales(seller(i), w),
                                           PercentageOf(seller(i)))
      /\ \A v \in sellers : \E i \in DOMAIN W : seller(i) = v
      /\ \A i, j \in DOMAIN W : seller(i) = seller(j) => i = j
  BY <1>1, RecalculationWrites
<1>4. /\ n \in Nat /\ ins \in [1..n -> I] /\ DOMAIN ins = 1..n
      /\ \A j, k \in 1..n : ins[j] = ins[k] => j = k
      /\ \A i \in I : \E k \in 1..n : ins[k] = i
  <2>1. DOMAIN W = 1..Len(W) /\ Len(W) \in Nat
    BY <1>2 DEF WritesOK
  <2>2. IsFiniteSet(I)
    <3>1. IsFiniteSet(1..Len(W)) /\ I \in SUBSET (1..Len(W))
      BY <2>1, FS_Interval
    <3> HIDE DEF I
    <3> QED
      BY <3>1, FS_Subset
  <2> HIDE DEF I
  <2> QED
    BY <2>2, SetToSeqFacts
<1>5. periods' = old \o new
  BY <1>1 DEF Written
<1>6. \A v \in sellers : /\ the(v) \in DOMAIN W /\ seller(the(v)) = v
                         /\ \A i \in DOMAIN W : seller(i) = v => i = the(v)
  <2> TAKE v \in sellers
  <2>1. \E i \in DOMAIN W : seller(i) = v
    BY <1>3
  <2>2. the(v) \in DOMAIN W /\ seller(the(v)) = v
    BY <2>1
  <2> HIDE DEF the
  <2> QED
    BY <1>3, <2>2
<1> HIDE DEF the, W
<1>7. \A v \in sellers : v \in known <=> W[the(v)].id # NoRow
  BY <1>3, <1>6
<1>8. /\ first \in [known -> DOMAIN periods]
      /\ \A v \in known : first[v] \in Matching(v, w)
  <2>1. \A v \in known : W[the(v)].id \in Matching(v, w)
    BY <1>3, <1>6, <1>7
  <2>2. \A v \in known : W[the(v)].id \in DOMAIN periods
    BY <2>1 DEF Matching
  <2> HIDE DEF known
  <2> QED
    BY <2>1, <2>2
<1>9. fresh \in SetToSeqs(sellers \ known) /\ DOMAIN fresh = 1..n
  <2> DEFINE T == sellers \ known
  <2>1. \A i \in I : seller(i) \in T
    BY <1>3
  <2>2. \A v \in T : the(v) \in I
    BY <1>6, <1>7
  <2>3. fresh \in [1..n -> T]
    BY <1>4, <2>1
  <2>4. \A j, k \in 1..n : fresh[j] = fresh[k] => j = k
    <3> TAKE j, k \in 1..n
    <3> HAVE fresh[j] = fresh[k]
    <3>1. ins[j] \in DOMAIN W /\ ins[k] \in DOMAIN W /\ seller(ins[j]) = seller(ins[k])
      BY <1>4
    <3>2. ins[j] = ins[k]
      BY <1>3, <3>1
    <3> QED
      BY <1>4, <3>2
  <2>5. \A v \in T : \E k \in 1..n : fresh[k] = v
    <3> TAKE v \in T
    <3>1. PICK k \in 1..n : ins[k] = the(v)
      BY <1>4, <2>2
    <3>2. fresh[k] = v
      BY <1>6, <3>1
    <3> QED
      BY <3>2
  <2> HIDE DEF fresh, T, n
  <2>6. fresh \in Bijection(1..n, T)
    BY <2>3, <2>4, <2>5 DEF Bijection, Injection, Surjection, IsInjective
  <2>7. Cardinality(T) = n
    <3>1. IsFiniteSet(1..n) /\ Cardinality(1..n) = n
      BY <1>4, FS_Interval
    <3>2. ExistsBijection(1..n, T)
      BY <2>6 DEF ExistsBijection
    <3> QED
      BY <3>1, <3>2, FS_Bijection
  <2>8. fresh \in SetToSeqs(T)
    BY <2>3, <2>4, <2>7 DEF SetToSeqs
  <2> QED
    BY <2>3, <2>8 DEF T
<1>10. new = [k \in DOMAIN fresh |-> opened(fresh[k])]
  <2>1. \A k \in 1..n : W[ins[k]].new = opened(fresh[k])
    <3> TAKE k \in 1..n
    <3>1. ins[k] \in DOMAIN W /\ W[ins[k]].id = NoRow
      BY <1>4
    <3>2. W[ins[k]].new = opened(seller(ins[k]))
      BY <1>3, <3>1
    <3> QED
      BY <3>2
  <2> HIDE DEF fresh, ins, opened
  <2> QED
    BY <1>4, <1>9, <2>1
<1>11. old = [p \in DOMAIN periods |->
                IF \E v \in known : first[v] = p THEN again(periods[p]) ELSE periods[p]]
  <2>1. ASSUME NEW p \in DOMAIN periods, toRow(p) = {}
        PROVE  old[p] = periods[p] /\ ~ \E v \in known : first[v] = p
    BY <1>6, <2>1
  <2>2. ASSUME NEW p \in DOMAIN periods, toRow(p) # {}
        PROVE  old[p] = again(periods[p]) /\ \E v \in known : first[v] = p
    <3> DEFINE i == CHOOSE i \in toRow(p) : TRUE
    <3>1. i \in DOMAIN W /\ W[i].id = p /\ p # NoRow
      BY <1>2, <2>2 DEF TableOK, NoRow
    <3>2. old[p] = Merge(W[i].old, W[i].new, periods[p])
      BY <2>2
    <3> HIDE DEF i, old
    <3> DEFINE v == seller(i)
    <3>3. /\ v \in sellers /\ p \in Matching(v, w) /\ W[i].old = periods[p]
          /\ W[i].new = Recalculated(periods[p], Sales(v, w), PercentageOf(v))
      BY <1>3, <3>1
    <3>4. periods[p].vendor = v
      BY <3>3 DEF Matching
    <3>5. HasColumns(periods[p]) /\ HasColumns(W[i].new)
      BY <1>2, <3>1 DEF TableOK, WritesOK, WriteOK
    <3>6. old[p] = W[i].new
      BY <3>2, <3>3, <3>5, MergeFresh
    <3>7. v \in known /\ first[v] = p
      BY <1>6, <3>1, <3>3
    <3> HIDE DEF v
    <3>8. W[i].new = again(periods[p])
      BY <3>3, <3>4
    <3> QED
      BY <3>6, <3>7, <3>8
  <2>3. old = [p \in DOMAIN periods |-> old[p]]
    OBVIOUS
  <2> HIDE DEF old, again, first, known
  <2>4. \A p \in DOMAIN periods :
          old[p] = IF \E v \in known : first[v] = p THEN again(periods[p]) ELSE periods[p]
    BY <2>1, <2>2
  <2> QED
    BY <2>3, <2>4
<1> HIDE DEF first, fresh, old, new
<1> QED
  BY <1>1, <1>5, <1>8, <1>9, <1>10, <1>11 DEF Recalculate


LEMMA CommitRecalculationRefines ==
  ASSUME SInv, OneSessionPerVendor, UpToDate, NEW s \in Sessions, CommitRecalculation(s)
  PROVE  UpToDate' /\ Next
<1> DEFINE W == tx[s].writes
<1>1. /\ tx[s].op = "recalculate" /\ periods' = Written(W) /\ Hold(s, Idle)
      /\ sold' = sold /\ week' = week /\ percentage' = percentage
  BY DEF CommitRecalculation
<1>2. TableOK(periods) /\ WritesOK(W, periods)
  BY <1>1 DEF SInv, SessionOK
<1>3. \A i \in DOMAIN W : W[i].new.vendor \in Vendors
  BY <1>2 DEF WritesOK, WriteOK
<1>4. \A v : v \notin Vendors => SameFor(v, periods, sold, Written(W), sold)
  BY <1>2, <1>3, WrittenElsewhere
<1>5. TouchedBy(tx[s]) = Vendors
  BY <1>1 DEF TouchedBy
<1>6. \A v : v \notin TouchedBy(tx[s]) => SameFor(v, periods, sold, periods', sold')
  BY <1>1, <1>4, <1>5
<1> QED
  BY <1>1, <1>6, CommitUpToDate, CommitRecalculationIsOne DEF Next

\* A step outside of all sessions, while no session works.
LEMMA QuietRefines ==
  ASSUME Quiet, tx' = tx
  PROVE  UpToDate'
<1>1. \A s \in Sessions : tx'[s] = Idle
  BY DEF Quiet
<1> DEFINE P == periods'
           S == sold'
           now == week'
           G == percentage'
<1> HIDE DEF P, S, now, G
<1>2. \A s \in Sessions : CurrentTx(tx'[s], P, S, now, G)
  BY <1>1, CurrentIdle
<1> QED
  BY <1>2 DEF UpToDate, P, S, now, G

LEMMA ExclusiveStep ==
  ASSUME SInv, OneSessionPerVendor, UpToDate,
         [/\ SNext /\ OneSessionPerVendor'
          /\ <<week, percentage>>' # <<week, percentage>> => Quiet]_svars
  PROVE  (SInv /\ OneSessionPerVendor /\ UpToDate)' /\ [Next]_vars
<1>1. SInv'
  BY SNextKeeps
<1>2. CASE UNCHANGED svars
  <2>1. UNCHANGED <<sold, percentage, periods, week, tx>>
    BY <1>2 DEF svars
  <2>2. OneSessionPerVendor'
    BY <2>1 DEF OneSessionPerVendor, Touched
  <2>3. UpToDate'
    BY <2>1 DEF UpToDate
  <2> QED
    BY <1>1, <2>1, <2>2, <2>3 DEF vars
<1>3. CASE /\ SNext /\ OneSessionPerVendor'
           /\ <<week, percentage>>' # <<week, percentage>> => Quiet
  <2>1. ASSUME NEW s \in Sessions, NEW o \in Parcels, LoadOrder(s, o)
        PROVE  UpToDate' /\ [Next]_vars
    BY <2>1, LoadOrderStutters
  <2>2. ASSUME NEW s \in Sessions, RegisterCommission(s)
        PROVE  UpToDate' /\ [Next]_vars
    BY <2>2, RegisterCommissionStutters
  <2>3. ASSUME NEW s \in Sessions, CommitDelivery(s) \/ CommitRecalculation(s) \/ CommitPayment(s)
        PROVE  UpToDate' /\ [Next]_vars
    BY <2>3, CommitDeliveryRefines, CommitRecalculationRefines, CommitPaymentRefines
  <2>4. ASSUME NEW s \in Sessions, LoadSales(s)
        PROVE  UpToDate' /\ [Next]_vars
    BY <2>4, LoadSalesStutters
  <2>5. ASSUME NEW s \in Sessions, NEW v \in Vendors, RecalculateVendor(s, v)
        PROVE  UpToDate' /\ [Next]_vars
    BY <2>5, RecalculateVendorStutters
  <2>6. ASSUME NEW s \in Sessions, NEW p \in DOMAIN periods, LoadPeriod(s, p)
        PROVE  UpToDate' /\ [Next]_vars
    BY <2>6, LoadPeriodStutters
  <2>7. ASSUME NEW s \in Sessions, Rollback(s)
        PROVE  UpToDate' /\ [Next]_vars
    BY <2>7, CurrentIdle, HeldStutters DEF Rollback
  <2>8. ASSUME NEW v \in Vendors, NEW pct \in Percentages, SetPercentage(v, pct), tx' = tx
        PROVE  UpToDate' /\ [Next]_vars
    <3>1. Next
      BY <2>8 DEF Next
    <3>2. CASE percentage' = percentage
      BY <2>8, <3>1, <3>2 DEF SetPercentage, UpToDate
    <3>3. CASE percentage' # percentage
      BY <1>3, <2>8, <3>1, <3>3, QuietRefines
    <3> QED
      BY <3>2, <3>3
  <2>9. ASSUME NextWeek, tx' = tx
        PROVE  UpToDate' /\ [Next]_vars
    <3>1. week' # week
      BY <2>9 DEF NextWeek, SInv
    <3> QED
      BY <1>3, <2>9, <3>1, QuietRefines DEF Next
  <2> QED
    BY <1>1, <1>3, <2>1, <2>2, <2>3, <2>4, <2>5, <2>6, <2>7, <2>8, <2>9 DEF SNext
<1> QED
  BY <1>2, <1>3

LEMMA ExclusiveStart == SInit => SInv /\ OneSessionPerVendor /\ UpToDate
<1> SUFFICES ASSUME SInit
             PROVE  OneSessionPerVendor /\ UpToDate
  BY SInit_SInv
<1>1. \A s \in Sessions : tx[s] = Idle
  BY DEF SInit
<1>2. Idle.op = "idle"
  BY DEF Idle
<1>3. UpToDate
  BY <1>1, CurrentIdle DEF UpToDate
<1>4. \A s \in Sessions : Touched(s) = {}
  BY <1>1, <1>2 DEF Touched
<1> QED
  BY <1>3, <1>4 DEF OneSessionPerVendor

\* As long as no two requests work on the same vendor, and neither the week nor a
\* percentage changes during one, the handlers of commissions, cut at their
\* queries, do what each does in one step: a lock on the vendor would be enough.
THEOREM ExclusiveIsSerial == ExclusiveSpec => ImplementsSerial
<1>1. SInit => Init
  BY DEF SInit
<1>2. SInv /\ OneSessionPerVendor /\ UpToDate
        /\ [/\ SNext /\ OneSessionPerVendor'
            /\ <<week, percentage>>' # <<week, percentage>> => Quiet]_svars
        => (SInv /\ OneSessionPerVendor /\ UpToDate)' /\ [Next]_vars
  BY ExclusiveStep
<1> QED
  BY <1>1, <1>2, ExclusiveStart, PTL DEF ExclusiveSpec, ImplementsSerial, Spec

\* So a lock on the vendor would also keep the books right (orders/service.py:294-352,
\* commissions/service.py): one period for each week with a sale, with its sales as
\* the base and an amount that they explain.  PeriodRaces needs overlaps to lose them.
THEOREM ExclusiveAddsUp == ExclusiveSpec => [](BaseIsSales /\ AmountExplained)
BY ExclusiveIsSerial, PeriodsAddUp, AmountsExplained, PTL DEF ImplementsSerial

\* The sum over one row.
LEMMA OneRowSum ==
  ASSUME NEW P, NEW p, P[p].base \in Int
  PROVE  MapThenSumSet(LAMBDA x : P[x].base, {p}) = P[p].base
<1> DEFINE f == [x \in {p} |-> P[x].base]
           S == {p}
           Is(it) == it = [s \in SUBSET S |-> IF s = {} THEN 0
                             ELSE P[Chosen(s)].base + it[s \ {Chosen(s)}]]
<1>1. MapThenSumSet(LAMBDA x : P[x].base, S) = (CHOOSE it : Is(it))[S]
  BY DEF MapThenSumSet, MapThenFoldSet, Chosen
<1>2. IsFiniteSet(S)
  BY FS_Singleton
<1>3. \A it : Is(it) <=> Sums(f, S, it)
  BY ChosenIsElement DEF Sums
<1>4. Is(CHOOSE it : Is(it))
  <2> HIDE DEF Is, f, S
  <2> QED
    BY <1>2, <1>3, SumsExist
<1>5. SumOf(f, S) = P[p].base
  <2>1. Chosen(S) = p /\ S \ {p} = {} /\ f[p] = P[p].base /\ S # {}
    BY DEF Chosen
  <2>2. SumOf(f, S) = f[p] + SumOf(f, {})
    <3> HIDE DEF f, S
    <3> QED
      BY <1>2, <2>1, SumOfChosen
  <2>3. SumOf(f, {}) = 0
    BY SumOfNone
  <2> HIDE DEF f, S
  <2> QED
    BY <2>1, <2>2, <2>3
<1> HIDE DEF Is, f
<1>6. (CHOOSE it : Is(it))[S] = SumOf(f, S)
  BY <1>2, <1>3, <1>4, SumIs
<1> QED
  BY <1>1, <1>5, <1>6

\* RecalculatedFromScratch, of one step.
FromScratchNow ==
  \A s \in Sessions : CommitRecalculation(s) =>
    \A v \in DOMAIN tx[s].sales :
      tx[s].sales[v] =
        MapThenSumSet(LAMBDA p : periods'[p].base,
                      {p \in DOMAIN periods' : /\ periods'[p].vendor = v
                                               /\ periods'[p].week = tx[s].week})

LEMMA ExclusiveFromScratch ==
  ASSUME UpToDate, TypeOK, TypeOK', BaseIsSales'
  PROVE  FromScratchNow
<1> SUFFICES ASSUME NEW s \in Sessions, CommitRecalculation(s), NEW v \in DOMAIN tx[s].sales
             PROVE  tx[s].sales[v] =
                      MapThenSumSet(LAMBDA p : periods'[p].base,
                                    {p \in DOMAIN periods' : /\ periods'[p].vendor = v
                                                             /\ periods'[p].week = tx[s].week})
  BY DEF FromScratchNow
<1>10. PICK w : w = week - 1
  OBVIOUS
<1> DEFINE P == periods'
           S == SoldOf(sold, v, w)
<1>1. sold' = sold /\ week' = week /\ tx[s].op = "recalculate"
  BY DEF CommitRecalculation
<1>2. CurrentTx(tx[s], periods, sold, week, percentage)
  BY DEF UpToDate
<1>3. tx[s].week = w /\ tx[s].sales = [u \in Sellers(sold, w) |-> SumOfTotals(SoldOf(sold, u, w))]
  BY <1>1, <1>2, <1>10 DEF CurrentTx
<1>4. v \in Vendors /\ S # {} /\ tx[s].sales[v] = SumOfTotals(S)
  BY <1>3 DEF Sellers
<1>5. w \in 1..week
  <2>1. PICK o \in DOMAIN sold : sold[o].week = w
    BY <1>4 DEF SoldOf
  <2>2. w \in 1..MaxWeek
    BY <2>1 DEF TypeOK
  <2> QED
    BY <1>10, <2>2 DEF TypeOK
<1>6. /\ (SoldIn(v, w))' = S /\ (Sales(v, w))' = SumOfTotals(S)
      /\ (Matching(v, w))' = {p \in DOMAIN P : P[p].vendor = v /\ P[p].week = w}
  <2>1. (SoldIn(v, w))' = S
    BY <1>1 DEF SoldIn, SoldOf
  <2> QED
    BY <2>1 DEF Sales, Matching
<1> HIDE DEF S
<1>7. PICK p \in DOMAIN P :
        /\ {x \in DOMAIN P : P[x].vendor = v /\ P[x].week = w} = {p}
        /\ P[p].base = SumOfTotals(S)
  BY <1>1, <1>4, <1>5, <1>6 DEF BaseIsSales
<1>8. P[p].base \in Int
  <2>1. P \in Seq(PeriodRows)
    BY DEF TypeOK
  <2> HIDE DEF P
  <2>2. P[p] \in PeriodRows
    BY <1>7, <2>1
  <2> QED
    BY <2>2 DEF PeriodRows
<1>9. MapThenSumSet(LAMBDA x : P[x].base, {p}) = P[p].base
  <2> HIDE DEF P
  <2> QED
    BY <1>8, OneRowSum
<1> QED
  BY <1>3, <1>4, <1>7, <1>9

\* When no requests overlap on a vendor, a recalculation does compute the week from
\* scratch (commissions/service.py: "Recalcula desde cero las comisiones de la
\* semana"): a vendor's rows of the week add up to the sales it read.
THEOREM ExclusiveRecalculates == ExclusiveSpec => RecalculatedFromScratch
<1>1. SInv /\ OneSessionPerVendor /\ UpToDate
        /\ [/\ SNext /\ OneSessionPerVendor'
            /\ <<week, percentage>>' # <<week, percentage>> => Quiet]_svars
        => (SInv /\ OneSessionPerVendor /\ UpToDate)'
  BY ExclusiveStep
<1>2. UpToDate /\ TypeOK /\ TypeOK' /\ BaseIsSales' => FromScratchNow
  BY ExclusiveFromScratch
<1>3. ExclusiveSpec => [](TypeOK /\ BaseIsSales)
  BY ExclusiveIsSerial, CommissionsTyped, PeriodsAddUp, PTL DEF ImplementsSerial
<1>4. FromScratchNow => [FromScratchNow]_svars
  OBVIOUS
<1> QED
  BY <1>1, <1>2, <1>3, ExclusiveStart, PTL
  DEF ExclusiveSpec, RecalculatedFromScratch, FromScratchNow

-----------------------------------------------------------------------------
(* Amounts that follow their base.                                          *)

\* a is pct of b, and no cent is rounded.
Exact(b, a, pct) == b \in Int /\ a \in Int /\ b * pct = 10000 * a

LEMMA ExactCommission ==
  ASSUME NEW pct \in Int, NEW b, NEW a, Exact(b, a, pct)
  PROVE  Commission(b, pct) = a
<1>1. b * pct = 10000 * a /\ a \in Int
  BY DEF Exact
<1>2. RoundHalfEven(10000 * a, 10000) = a
  <2>1. (10000 * a) \div 10000 = a /\ (10000 * a) % 10000 = 0
    BY <1>1
  <2> QED
    BY <1>1, <2>1 DEF RoundHalfEven
<1> QED
  BY <1>1, <1>2 DEF Commission

LEMMA ExactAdds ==
  ASSUME NEW pct \in Int, NEW b, NEW a, Exact(b, a, pct), NEW c, NEW d, Exact(c, d, pct)
  PROVE  Exact(b + c, a + d, pct)
<1>1. b \in Int /\ c \in Int /\ a \in Int /\ d \in Int
  BY DEF Exact
<1>2. (b + c) * pct = b * pct + c * pct
  BY <1>1
<1> QED
  BY <1>1, <1>2 DEF Exact

\* One of the two fixes the other.
LEMMA ExactIsOne ==
  ASSUME NEW pct \in Int, NEW b, NEW a, Exact(b, a, pct), NEW c, NEW d, Exact(c, d, pct)
  PROVE  /\ b = c => a = d
         /\ a = d => b = c \/ pct = 0
         /\ pct = 0 => a = 0 /\ d = 0
<1>1. b \in Int /\ c \in Int /\ a \in Int /\ d \in Int /\ b * pct = 10000 * a /\ c * pct = 10000 * d
  BY DEF Exact
<1>2. b = c => a = d
  BY <1>1
<1>3. ASSUME pct # 0, b * pct = c * pct
      PROVE  b = c
  <2>1. (b - c) * pct = 0
    BY <1>1, <1>3
  <2>2. b - c = 0
    BY <1>1, <1>3, <2>1
  <2> QED
    BY <1>1, <2>2
<1>4. pct = 0 => a = 0 /\ d = 0
  BY <1>1
<1> QED
  BY <1>1, <1>2, <1>3, <1>4

\* The commissions of some totals are exactly the commission of their sum.
LEMMA SumExact ==
  ASSUME NEW pct \in Int, NEW f, NEW g, NEW S, IsFiniteSet(S),
         \A x \in S : Exact(f[x], g[x], pct)
  PROVE  Exact(SumOf(f, S), SumOf(g, S), pct)
<1> DEFINE Fine(s) == Exact(SumOf(f, s), SumOf(g, s), pct)
           D == {s \in SUBSET S : ~Fine(s)}
<1> SUFFICES ASSUME D # {}
             PROVE  FALSE
  OBVIOUS
<1>1. PICK m \in D : \A u \in D : u \subseteq m => u = m
  <2>1. D \in SUBSET (SUBSET S)
    OBVIOUS
  <2> HIDE DEF D
  <2> QED
    BY <2>1, SmallestSubset
<1>2. m # {}
  <2>1. SumOf(f, {}) = 0 /\ SumOf(g, {}) = 0 /\ Exact(0, 0, pct)
    BY SumOfNone DEF Exact
  <2> QED
    BY <2>1
<1> DEFINE e == Chosen(m)
           u == m \ {e}
<1>3. e \in m /\ IsFiniteSet(m) /\ u \subseteq S
  BY <1>2, ChosenIsElement, FS_Subset
<1>4. Fine(u)
  BY <1>1, <1>3
<1>5. /\ SumOf(f, m) = f[e] + SumOf(f, u)
      /\ SumOf(g, m) = g[e] + SumOf(g, u)
  BY <1>2, <1>3, SumOfChosen
<1> HIDE DEF e, u
<1>6. Exact(f[e], g[e], pct)
  BY <1>3
<1>7. Fine(m)
  BY <1>4, <1>5, <1>6, ExactAdds
<1> QED
  BY <1>1, <1>7

\* A sum of totals whose commission is a number of cents has such a commission.
InCents(b, pct) == \E a \in Int : Exact(b, a, pct)

LEMMA SumInCents ==
  ASSUME NEW pct \in Int, NEW f, NEW S, IsFiniteSet(S), \A x \in S : InCents(f[x], pct)
  PROVE  InCents(SumOf(f, S), pct)
<1> DEFINE g == [x \in S |-> CHOOSE a \in Int : Exact(f[x], a, pct)]
<1>1. \A x \in S : Exact(f[x], g[x], pct)
  BY DEF InCents
<1> HIDE DEF g
<1>2. Exact(SumOf(f, S), SumOf(g, S), pct)
  BY <1>1, SumExact
<1>3. SumOf(g, S) \in Int
  BY <1>2 DEF Exact
<1> QED
  BY <1>2, <1>3 DEF InCents

-----------------------------------------------------------------------------
(* Rows and writes while no percentage changes.                             *)

Rates == Percentages \cup {ActivePercentage}

\* The commission on every order is a number of cents, at every percentage.
NothingRounds == \A o \in Parcels, pct \in Rates : (TotalOf[o] * pct) % 10000 = 0

\* No vendor's percentage changes.
SteadySpec == SessionSpec /\ [][percentage' = percentage]_svars

RowAt(r, G) ==
  r.rate = PercentageIn(G, r.vendor) /\ Exact(r.base, r.amount, r.rate)

WriteAt(w, G) ==
  RowAt(w.new, G) /\ (w.id # NoRow => RowAt(w.old, G))

SteadyTx(t, G) ==
  /\ t.op \in {"delivered", "recalculate", "pay"} =>
       \A i \in DOMAIN t.writes : WriteAt(t.writes[i], G)
  /\ t.op = "recalculate" =>
       \A v \in t.left : \A pct \in Rates : InCents(t.sales[v], pct)

Steady ==
  /\ percentage \in [Vendors -> Percentages \cup {NoPercentage}]
  /\ DOMAIN sold \subseteq Parcels /\ IsFiniteSet(DOMAIN sold)
  /\ \A p \in DOMAIN periods : RowAt(periods[p], percentage)
  /\ \A s \in Sessions : SteadyTx(tx[s], percentage)

LEMMA RateIn ==
  ASSUME NEW G \in [Vendors -> Percentages \cup {NoPercentage}], NEW v \in Vendors
  PROVE  PercentageIn(G, v) \in Rates /\ PercentageIn(G, v) \in Int
BY CommissionsAssumption DEF PercentageIn, Rates

LEMMA TotalInCents ==
  ASSUME NothingRounds, NEW o \in Parcels, NEW pct \in Rates
  PROVE  Exact(TotalOf[o], Commission(TotalOf[o], pct), pct)
<1> DEFINE n == TotalOf[o] * pct
           a == n \div 10000
<1>1. TotalOf[o] \in Int /\ pct \in Int
  BY CommissionsAssumption DEF Rates
<1>2. n % 10000 = 0
  BY DEF NothingRounds
<1>3. n \in Int
  BY <1>1
<1>4. a \in Int /\ n = 10000 * a
  <2> HIDE DEF n
  <2> QED
    BY <1>2, <1>3
<1>5. Exact(TotalOf[o], a, pct)
  <2> HIDE DEF a
  <2> QED
    BY <1>1, <1>4 DEF Exact
<1> QED
  BY <1>1, <1>5, ExactCommission

\* An UPDATE writes the base and the amount together, or neither: whatever the
\* other sessions wrote, the row has both from the same one.
LEMMA MergeAt ==
  ASSUME NEW pct \in Int,
         NEW r, HasColumns(r), r.rate = pct, Exact(r.base, r.amount, pct),
         NEW old, old.rate = pct, Exact(old.base, old.amount, pct),
         NEW new, new.rate = pct, Exact(new.base, new.amount, pct)
  PROVE  LET m == Merge(old, new, r)
         IN m.rate = pct /\ Exact(m.base, m.amount, pct)
<1> DEFINE m == Merge(old, new, r)
<1>1. /\ m.rate = IF new.rate # old.rate THEN new.rate ELSE r.rate
      /\ m.base = IF new.base # old.base THEN new.base ELSE r.base
      /\ m.amount = IF new.amount # old.amount THEN new.amount ELSE r.amount
  BY DEF Merge, HasColumns, Columns
<1> SUFFICES m.rate = pct /\ Exact(m.base, m.amount, pct)
  OBVIOUS
<1> HIDE DEF m
<1>2. /\ new.base = old.base => new.amount = old.amount
      /\ new.amount = old.amount => new.base = old.base \/ pct = 0
      /\ pct = 0 => new.amount = 0 /\ r.amount = 0
  <2>1. pct = 0 => new.amount = 0 /\ r.amount = 0
    BY ExactIsOne
  <2> QED
    BY <2>1, ExactIsOne
<1>3. CASE new.base = old.base
  BY <1>1, <1>2, <1>3
<1>4. CASE new.base # old.base /\ new.amount # old.amount
  BY <1>1, <1>4
<1>5. CASE new.base # old.base /\ new.amount = old.amount
  <2>1. m.base = new.base /\ m.amount = new.amount
    BY <1>1, <1>2, <1>5
  <2> QED
    BY <1>1, <2>1
<1> QED
  BY <1>3, <1>4, <1>5

LEMMA IdleSteady ==
  ASSUME NEW G
  PROVE  SteadyTx(Idle, G)
BY DEF SteadyTx, Idle

\* A step that changes one session and no table.
LEMMA HeldSteady ==
  ASSUME SInv, Steady, NEW s \in Sessions, NEW held, Hold(s, held), UNCHANGED tables,
         SteadyTx(held, percentage)
  PROVE  Steady'
<1>1. /\ periods' = periods /\ percentage' = percentage /\ sold' = sold
      /\ tx' = [x \in Sessions |-> IF x = s THEN held ELSE tx[x]]
  BY DEF tables, Hold, SInv
<1>2. \A x \in Sessions : SteadyTx(tx'[x], percentage)
  BY <1>1 DEF Steady
<1> QED
  BY <1>1, <1>2 DEF Steady

\* A commit.
LEMMA CommitSteady ==
  ASSUME SInv, Steady, NEW s \in Sessions, NEW W, WritesOK(W, periods),
         \A i \in DOMAIN W : WriteAt(W[i], percentage),
         periods' = Written(W), Hold(s, Idle), percentage' = percentage,
         DOMAIN sold' \subseteq Parcels, IsFiniteSet(DOMAIN sold')
  PROVE  Steady'
<1> DEFINE Q == Written(W)
<1>1. /\ \A p \in DOMAIN Q : p \notin DOMAIN periods => \E i \in DOMAIN W : Q[p] = W[i].new
      /\ \A p \in DOMAIN periods :
           \/ Q[p] = periods[p]
           \/ \E i \in DOMAIN W : W[i].id = p /\ Q[p] = Merge(W[i].old, W[i].new, periods[p])
      /\ Grown(periods, Q)
  BY WrittenEffect DEF SInv
<1> HIDE DEF Q
<1>2. ASSUME NEW p \in DOMAIN periods, NEW i \in DOMAIN W, W[i].id = p
      PROVE  RowAt(Merge(W[i].old, W[i].new, periods[p]), percentage)
  <2> DEFINE w == W[i]
             r == periods[p]
             m == Merge(w.old, w.new, r)
             pct == PercentageIn(percentage, r.vendor)
  <2>1. /\ DOMAIN periods = 1..Len(periods) /\ Len(periods) \in Nat
        /\ HasColumns(r) /\ r.vendor \in Vendors
    BY DEF SInv, TableOK
  <2>2. w.id = p /\ p # NoRow
    BY <1>2, <2>1 DEF NoRow
  <2>3. WriteOK(w, periods) /\ WriteAt(w, percentage) /\ RowAt(r, percentage)
    BY DEF WritesOK, Steady
  <2>4. pct \in Int
    BY <2>1, RateIn DEF Steady
  <2> HIDE DEF w
  <2>5. /\ w.new.vendor = r.vendor /\ w.old.vendor = r.vendor
        /\ w.new.week = w.old.week /\ w.new.status \in {w.old.status, "paid"}
        /\ RowAt(w.new, percentage) /\ RowAt(w.old, percentage)
    BY <2>2, <2>3 DEF WriteOK, WriteAt
  <2>6. m.vendor = r.vendor
    BY <2>1, <2>5, MergeKeeps DEF KeptRow
  <2> HIDE DEF r
  <2>7. /\ r.rate = pct /\ Exact(r.base, r.amount, pct)
        /\ w.new.rate = pct /\ Exact(w.new.base, w.new.amount, pct)
        /\ w.old.rate = pct /\ Exact(w.old.base, w.old.amount, pct)
    BY <2>3, <2>5 DEF RowAt
  <2> HIDE DEF pct
  <2>8. m.rate = pct /\ Exact(m.base, m.amount, pct)
    BY <2>1, <2>4, <2>7, MergeAt
  <2> HIDE DEF m
  <2>9. RowAt(m, percentage)
    BY <2>6, <2>8 DEF RowAt, pct
  <2> QED
    BY <2>9 DEF m, w, r
<1>3. \A p \in DOMAIN Q : RowAt(Q[p], percentage)
  <2> TAKE p \in DOMAIN Q
  <2>1. CASE p \in DOMAIN periods
    BY <1>1, <1>2, <2>1 DEF Steady
  <2>2. CASE p \notin DOMAIN periods
    BY <1>1, <2>2 DEF WriteAt
  <2> QED
    BY <2>1, <2>2
<1>4. tx' = [x \in Sessions |-> IF x = s THEN Idle ELSE tx[x]]
  BY DEF Hold, SInv
<1>5. \A x \in Sessions : SteadyTx(tx'[x], percentage)
  BY <1>4, IdleSteady DEF Steady
<1>6. periods' = Q
  BY DEF Q
<1> QED
  BY <1>3, <1>5, <1>6 DEF Steady

-----------------------------------------------------------------------------
(* Each step.                                                               *)

LEMMA NewPeriodAt ==
  ASSUME NEW v, NEW w, NEW base, NEW pct \in Int, pct = PercentageIn(percentage, v),
         InCents(base, pct)
  PROVE  WriteAt(Insert(NewPeriod(v, w, base, pct)), percentage)
<1>1. PICK a \in Int : Exact(base, a, pct)
  BY DEF InCents
<1>2. Exact(base, Commission(base, pct), pct)
  BY <1>1, ExactCommission
<1>3. RowAt(NewPeriod(v, w, base, pct), percentage)
  BY <1>2 DEF RowAt, NewPeriod
<1> QED
  BY <1>3 DEF WriteAt, Insert, Write

LEMMA RegisterSteady ==
  ASSUME SInv, Steady, NothingRounds, NEW s \in Sessions, RegisterCommission(s)
  PROVE  Steady'
<1> DEFINE t == tx[s]
           v == SellerOf[t.order]
           total == TotalOf[t.order]
           pct == PercentageOf(v)
           held(writes, earned) ==
             [op |-> "delivered", order |-> t.order, week |-> t.week,
              earned |-> earned, writes |-> writes]
<1>1. t.order \in Parcels /\ UNCHANGED tables
  BY DEF RegisterCommission, SInv, SessionOK
<1>2. ASSUME NEW W, NEW e, \A i \in DOMAIN W : WriteAt(W[i], percentage), Hold(s, held(W, e))
      PROVE  Steady'
  <2>1. SteadyTx(held(W, e), percentage)
    BY <1>2 DEF SteadyTx
  <2> HIDE DEF held
  <2> QED
    BY <1>1, <1>2, <2>1, HeldSteady
<1>3. CASE Hold(s, held(<<>>, 0))
  <2>1. \A i \in DOMAIN << >> : WriteAt(<< >>[i], percentage)
    OBVIOUS
  <2> HIDE DEF held
  <2> QED
    BY <1>2, <1>3, <2>1
<1>4. ASSUME NEW x, WriteAt(x, percentage), NEW e, Hold(s, held(<<x>>, e))
      PROVE  Steady'
  <2>1. DOMAIN <<x>> = {1} /\ <<x>>[1] = x
    OBVIOUS
  <2>2. \A i \in DOMAIN <<x>> : WriteAt(<<x>>[i], percentage)
    BY <1>4, <2>1
  <2> HIDE DEF held
  <2> QED
    BY <1>2, <1>4, <2>2
<1>5. v # NoVendor =>
        /\ v \in Vendors /\ pct \in Rates /\ pct \in Int /\ pct = PercentageIn(percentage, v)
        /\ Exact(total, Commission(total, pct), pct)
  <2> HAVE v # NoVendor
  <2>1. v \in Vendors
    BY <1>1, CommissionsAssumption
  <2>2. pct = PercentageIn(percentage, v)
    BY QueriesOfTables
  <2>3. pct \in Rates /\ pct \in Int
    BY <2>1, <2>2, RateIn DEF Steady
  <2> HIDE DEF pct
  <2>4. Exact(total, Commission(total, pct), pct)
    BY <1>1, <2>3, TotalInCents
  <2> QED
    BY <2>1, <2>2, <2>3, <2>4 DEF pct
<1>6. ASSUME v # NoVendor, NEW p \in Matching(v, week),
             Hold(s, held(<<Write(p, periods[p], Accrued(periods[p], total, pct))>>,
                          Commission(total, pct)))
      PROVE  Steady'
  <2> DEFINE r == periods[p]
             a == Accrued(r, total, pct)
             x == Write(p, r, a)
             c == Commission(total, pct)
  <2>1. HasColumns(r) /\ r.vendor = v /\ RowAt(r, percentage)
    BY <1>6 DEF Matching, SInv, TableOK, Steady
  <2> HIDE DEF r
  <2>2. a.vendor = v /\ a.rate = r.rate /\ a.base = r.base + total /\ a.amount = r.amount + c
    BY <2>1 DEF Accrued, HasColumns, Columns
  <2>3. Exact(r.base, r.amount, pct) /\ r.rate = pct /\ pct \in Int /\ Exact(total, c, pct)
        /\ pct = PercentageIn(percentage, v)
    BY <1>5, <1>6, <2>1 DEF RowAt
  <2> HIDE DEF a, c, pct, total, v, t
  <2>4. RowAt(a, percentage)
    BY <2>2, <2>3, ExactAdds DEF RowAt
  <2>5. WriteAt(x, percentage)
    BY <2>1, <2>4 DEF WriteAt, Write
  <2>6. Hold(s, held(<<x>>, c))
    BY <1>6 DEF r, a, c
  <2> HIDE DEF x, held
  <2> QED
    BY <1>4, <2>5, <2>6
<1>7. ASSUME v # NoVendor,
             Hold(s, held(<<Insert(NewPeriod(v, week, total, pct))>>, Commission(total, pct)))
      PROVE  Steady'
  <2>1. pct \in Int /\ pct = PercentageIn(percentage, v) /\ InCents(total, pct)
    <3>1. Commission(total, pct) \in Int
      BY <1>5, <1>7 DEF Exact
    <3> QED
      BY <1>5, <1>7, <3>1 DEF InCents
  <2> HIDE DEF held, t, v, total, pct
  <2>2. WriteAt(Insert(NewPeriod(v, week, total, pct)), percentage)
    BY <2>1, NewPeriodAt
  <2> QED
    BY <1>4, <1>7, <2>2
<1> QED
  BY <1>3, <1>6, <1>7 DEF RegisterCommission

LEMMA CommitDeliverySteady ==
  ASSUME SInv, Steady, NEW s \in Sessions, CommitDelivery(s)
  PROVE  Steady'
<1> DEFINE W == tx[s].writes
<1>1. /\ WritesOK(W, periods) /\ tx[s].order \in Parcels
      /\ \A i \in DOMAIN W : WriteAt(W[i], percentage)
  BY DEF CommitDelivery, SInv, SessionOK, Steady, SteadyTx
<1>2. /\ periods' = Written(W) /\ Hold(s, Idle) /\ percentage' = percentage
      /\ DOMAIN sold' = DOMAIN sold \cup {tx[s].order}
  BY DEF CommitDelivery
<1>3. DOMAIN sold' \subseteq Parcels /\ IsFiniteSet(DOMAIN sold')
  BY <1>1, <1>2, FS_AddElement DEF Steady
<1> HIDE DEF W
<1> QED
  BY <1>1, <1>2, <1>3, CommitSteady

\* The sales of a week come to a total whose commission is a number of cents.
LEMMA SalesInCents ==
  ASSUME Steady, NothingRounds, NEW v, NEW w, NEW pct \in Rates
  PROVE  InCents(Sales(v, w), pct)
<1> DEFINE S == SoldIn(v, w)
<1>1. S \subseteq DOMAIN sold
  BY DEF SoldIn
<1> HIDE DEF S
<1>2. S \subseteq Parcels /\ IsFiniteSet(S)
  BY <1>1, FS_Subset DEF Steady
<1>3. pct \in Int
  BY CommissionsAssumption DEF Rates
<1>4. \A x \in S : InCents(TotalOf[x], pct)
  <2> TAKE x \in S
  <2>1. Exact(TotalOf[x], Commission(TotalOf[x], pct), pct)
    BY <1>2, TotalInCents
  <2>2. Commission(TotalOf[x], pct) \in Int
    BY <2>1 DEF Exact
  <2> QED
    BY <2>1, <2>2 DEF InCents
<1>5. InCents(SumOf(TotalOf, S), pct)
  BY <1>2, <1>3, <1>4, SumInCents
<1> QED
  BY <1>5 DEF Sales, SumOfTotals, SumOf, S

LEMMA LoadSalesSteady ==
  ASSUME SInv, Steady, NothingRounds, NEW s \in Sessions, LoadSales(s)
  PROVE  Steady'
<1> DEFINE w == week - 1
           sellers == {v \in Vendors : SoldIn(v, w) # {}}
           sales == [v \in sellers |-> Sales(v, w)]
           held == [op |-> "recalculate", week |-> w, sales |-> sales,
                    left |-> sellers, writes |-> <<>>]
<1>1. Hold(s, held) /\ UNCHANGED tables
  BY DEF LoadSales
<1>2. \A v \in sellers : \A pct \in Rates : InCents(sales[v], pct)
  BY SalesInCents
<1>3. \A i \in DOMAIN << >> : WriteAt(<< >>[i], percentage)
  OBVIOUS
<1> HIDE DEF sellers, sales, w
<1>4. SteadyTx(held, percentage)
  BY <1>2, <1>3 DEF SteadyTx
<1> HIDE DEF held
<1> QED
  BY <1>1, <1>4, HeldSteady

LEMMA RecalculateVendorSteady ==
  ASSUME SInv, Steady, NEW s \in Sessions, NEW v \in Vendors, RecalculateVendor(s, v)
  PROVE  Steady'
<1> DEFINE t == tx[s]
           pct == PercentageOf(v)
           base == t.sales[v]
           held(x) == [t EXCEPT !.left = @ \ {v}, !.writes = Append(@, x)]
<1>1. /\ t.op = "recalculate" /\ t = [k \in RecalculateFields |-> t[k]]
      /\ WritesOK(t.writes, periods) /\ UNCHANGED tables
      /\ v \in t.left /\ t.left \subseteq Vendors /\ TableOK(periods)
  BY DEF RecalculateVendor, SInv, SessionOK
<1>2. /\ \A i \in DOMAIN t.writes : WriteAt(t.writes[i], percentage)
      /\ \A u \in t.left : \A c \in Rates : InCents(t.sales[u], c)
  BY <1>1 DEF Steady, SteadyTx
<1>3. pct \in Rates /\ pct \in Int /\ pct = PercentageIn(percentage, v)
  <2>1. pct = PercentageIn(percentage, v)
    BY QueriesOfTables
  <2> QED
    BY <2>1, RateIn DEF Steady
<1> HIDE DEF pct
<1>4. InCents(base, pct)
  BY <1>1, <1>2, <1>3
<1>5. ASSUME NEW x, WriteAt(x, percentage), Hold(s, held(x))
      PROVE  Steady'
  <2>1. /\ held(x).op = "recalculate" /\ held(x).sales = t.sales
        /\ held(x).left = t.left \ {v} /\ held(x).writes = Append(t.writes, x)
    BY <1>1 DEF RecalculateFields
  <2>2. \A i \in DOMAIN Append(t.writes, x) : WriteAt(Append(t.writes, x)[i], percentage)
    <3>1. t.writes \in Seq({t.writes[i] : i \in DOMAIN t.writes})
      BY <1>1 DEF WritesOK
    <3>2. \A i \in DOMAIN Append(t.writes, x) :
            \/ Append(t.writes, x)[i] = x
            \/ i \in DOMAIN t.writes /\ Append(t.writes, x)[i] = t.writes[i]
      BY <3>1
    <3> QED
      BY <1>2, <1>5, <3>2
  <2> HIDE DEF held
  <2>3. SteadyTx(held(x), percentage)
    BY <1>2, <2>1, <2>2 DEF SteadyTx
  <2> QED
    BY <1>1, <1>5, <2>3, HeldSteady
<1>6. ASSUME NEW p \in Matching(v, t.week),
             Hold(s, held(Write(p, periods[p], Recalculated(periods[p], base, pct))))
      PROVE  Steady'
  <2> DEFINE r == periods[p]
             a == Recalculated(r, base, pct)
             x == Write(p, r, a)
  <2>1. HasColumns(r) /\ r.vendor = v /\ RowAt(r, percentage)
    BY <1>6 DEF Matching, SInv, TableOK, Steady
  <2> HIDE DEF r
  <2>2. a.vendor = v /\ a.rate = pct /\ a.base = base /\ a.amount = Commission(base, pct)
    BY <2>1 DEF Recalculated, HasColumns, Columns
  <2>3. PICK e \in Int : Exact(base, e, pct)
    BY <1>4 DEF InCents
  <2>4. Exact(base, Commission(base, pct), pct)
    BY <1>3, <2>3, ExactCommission
  <2> HIDE DEF a, base, t
  <2>5. RowAt(a, percentage)
    BY <1>3, <2>2, <2>4 DEF RowAt
  <2>6. WriteAt(x, percentage)
    BY <2>1, <2>5 DEF WriteAt, Write
  <2>7. Hold(s, held(x))
    BY <1>6 DEF r, a
  <2> HIDE DEF x, held
  <2> QED
    BY <1>5, <2>6, <2>7
<1>7. ASSUME Hold(s, held(Insert(NewPeriod(v, t.week, base, pct))))
      PROVE  Steady'
  <2> HIDE DEF held, t, base
  <2>1. WriteAt(Insert(NewPeriod(v, t.week, base, pct)), percentage)
    BY <1>3, <1>4, NewPeriodAt
  <2> QED
    BY <1>5, <1>7, <2>1
<1> QED
  BY <1>6, <1>7 DEF RecalculateVendor, pct

LEMMA LoadPeriodSteady ==
  ASSUME SInv, Steady, NEW s \in Sessions, NEW p \in DOMAIN periods, LoadPeriod(s, p)
  PROVE  Steady'
<1> DEFINE r == periods[p]
           a == [r EXCEPT !.status = "paid"]
           x == Write(p, r, a)
           held == [op |-> "pay", writes |-> <<x>>]
<1>1. Hold(s, held) /\ UNCHANGED tables
  BY DEF LoadPeriod
<1>2. HasColumns(r) /\ RowAt(r, percentage)
  BY DEF SInv, TableOK, Steady
<1> HIDE DEF r
<1>3. a.vendor = r.vendor /\ a.rate = r.rate /\ a.base = r.base /\ a.amount = r.amount
  BY <1>2 DEF HasColumns, Columns
<1> HIDE DEF a
<1>4. WriteAt(x, percentage)
  BY <1>2, <1>3 DEF WriteAt, RowAt, Write
<1> HIDE DEF x
<1>5. DOMAIN <<x>> = {1} /\ <<x>>[1] = x
  OBVIOUS
<1>6. SteadyTx(held, percentage)
  BY <1>4, <1>5 DEF SteadyTx
<1> HIDE DEF held
<1> QED
  BY <1>1, <1>6, HeldSteady

LEMMA InitSteady == SInit => Steady
<1> SUFFICES ASSUME SInit
             PROVE  Steady
  OBVIOUS
<1>1. periods = <<>> /\ sold = <<>> /\ tx = [s \in Sessions |-> Idle]
  BY DEF SInit, Init
<1>2. \A s \in Sessions : SteadyTx(tx[s], percentage)
  BY <1>1, IdleSteady
<1>3. percentage \in [Vendors -> Percentages \cup {NoPercentage}]
  BY DEF SInit, Init
<1>4. DOMAIN sold = {} /\ DOMAIN periods = {}
  BY <1>1
<1>5. DOMAIN sold \subseteq Parcels /\ IsFiniteSet(DOMAIN sold)
  BY <1>4, FS_EmptySet
<1> QED
  BY <1>2, <1>3, <1>4, <1>5 DEF Steady

LEMMA StepSteady ==
  ASSUME SInv, Steady, NothingRounds, [SNext]_svars, [percentage' = percentage]_svars
  PROVE  Steady'
<1>1. percentage' = percentage
  BY DEF svars
<1>2. ASSUME NEW s \in Sessions, NEW o \in Parcels, LoadOrder(s, o)
      PROVE  Steady'
  <2> DEFINE held == [op |-> "deliver", order |-> o, week |-> week]
  <2>1. Hold(s, held) /\ UNCHANGED tables
    BY <1>2 DEF LoadOrder
  <2>2. SteadyTx(held, percentage)
    BY DEF SteadyTx
  <2> HIDE DEF held
  <2> QED
    BY <2>1, <2>2, HeldSteady
<1>3. ASSUME NEW s \in Sessions, RegisterCommission(s) \/ CommitDelivery(s) \/ LoadSales(s)
      PROVE  Steady'
  BY <1>3, RegisterSteady, CommitDeliverySteady, LoadSalesSteady
<1>4. ASSUME NEW s \in Sessions, NEW v \in Vendors, RecalculateVendor(s, v)
      PROVE  Steady'
  BY <1>4, RecalculateVendorSteady
<1>5. ASSUME NEW s \in Sessions, NEW p \in DOMAIN periods, LoadPeriod(s, p)
      PROVE  Steady'
  BY <1>5, LoadPeriodSteady
<1>6. ASSUME NEW s \in Sessions, CommitRecalculation(s) \/ CommitPayment(s)
      PROVE  Steady'
  <2> DEFINE W == tx[s].writes
  <2>1. WritesOK(W, periods) /\ \A i \in DOMAIN W : WriteAt(W[i], percentage)
    BY <1>6 DEF CommitRecalculation, CommitPayment, SInv, SessionOK, Steady, SteadyTx
  <2>2. periods' = Written(W) /\ Hold(s, Idle) /\ sold' = sold
    BY <1>6 DEF CommitRecalculation, CommitPayment
  <2>3. DOMAIN sold' \subseteq Parcels /\ IsFiniteSet(DOMAIN sold')
    BY <2>2 DEF Steady
  <2> HIDE DEF W
  <2> QED
    BY <1>1, <2>1, <2>2, <2>3, CommitSteady
<1>7. ASSUME NEW s \in Sessions, Rollback(s)
      PROVE  Steady'
  BY <1>7, IdleSteady, HeldSteady DEF Rollback
<1>8. ASSUME periods' = periods, sold' = sold, tx' = tx
      PROVE  Steady'
  BY <1>1, <1>8 DEF Steady
<1>9. ASSUME NEW v \in Vendors, NEW pct \in Percentages, SetPercentage(v, pct), tx' = tx
      PROVE  Steady'
  BY <1>8, <1>9 DEF SetPercentage
<1>10. CASE NextWeek /\ tx' = tx
  BY <1>8, <1>10 DEF NextWeek
<1>11. CASE UNCHANGED svars
  BY <1>8, <1>11 DEF svars
<1> QED
  BY <1>2, <1>3, <1>4, <1>5, <1>6, <1>7, <1>9, <1>10, <1>11 DEF SNext

LEMMA SteadyFollows == SInv /\ Steady => AmountFollowsBase
<1> SUFFICES ASSUME SInv, Steady, NEW p \in DOMAIN periods
             PROVE  periods[p].amount = Commission(periods[p].base, periods[p].rate)
  BY DEF AmountFollowsBase
<1> DEFINE r == periods[p]
<1>1. r.vendor \in Vendors /\ RowAt(r, percentage)
  BY DEF SInv, TableOK, Steady
<1>2. r.rate \in Int
  BY <1>1, RateIn DEF RowAt, Steady
<1> QED
  BY <1>1, <1>2, ExactCommission DEF RowAt

\* Where no percentage changes and no commission needs rounding, the amount of a
\* period is the commission on its base, however requests overlap
\* (orders/service.py:294-352, commissions/service.py): they lose updates, but of
\* a sale always both or neither, because the UPDATE of a row contains the amount
\* exactly when it contains the base.
THEOREM AmountsFollowBases ==
  ASSUME NothingRounds
  PROVE  SteadySpec => []AmountFollowsBase
<1>1. SInv /\ [SNext]_svars => SInv'
  BY SNextKeeps
<1>2. SInv /\ Steady /\ [SNext]_svars /\ [percentage' = percentage]_svars => Steady'
  BY StepSteady
<1> QED
  BY <1>1, <1>2, SInit_SInv, InitSteady, SteadyFollows, PTL DEF SteadySpec, SessionSpec

-----------------------------------------------------------------------------
(* How far a recalculation moves an amount.                                 *)

\* Python's round, as the commissions use it, is off by half a cent at most, and
\* by half a cent only toward an even number of cents (commissions/service.py).
THEOREM CommissionIsNearest ==
  ASSUME NEW total \in Int, NEW pct \in Int
  PROVE  LET c == Commission(total, pct)
             off == 10000 * c - total * pct
         IN /\ c \in Int
            /\ -5000 <= off /\ off <= 5000
            /\ off \in {-5000, 5000} => c % 2 = 0
<1> DEFINE n == total * pct
           q == n \div 10000
           r == n % 10000
           c == RoundHalfEven(n, 10000)
<1>1. n \in Int
  OBVIOUS
<1> HIDE DEF n
<1>2. q \in Int /\ r \in 0..9999 /\ n = 10000 * q + r
  BY <1>1
<1>3. c = IF 2 * r > 10000 \/ (2 * r = 10000 /\ q % 2 = 1) THEN q + 1 ELSE q
  BY DEF RoundHalfEven
<1> HIDE DEF q, r, c
<1>4. /\ c \in Int
      /\ -5000 <= 10000 * c - n /\ 10000 * c - n <= 5000
      /\ 10000 * c - n \in {-5000, 5000} => c % 2 = 0
  BY <1>2, <1>3
<1>5. Commission(total, pct) = c
  BY DEF Commission, n, c
<1> QED
  BY <1>4, <1>5 DEF n

\* The rounding errors of the parts add up to half a cent each.
Off(c, b, pct, n) == -5000 * n <= 10000 * c - b * pct /\ 10000 * c - b * pct <= 5000 * n

LEMMA OffAdds ==
  ASSUME NEW pct \in Int, NEW c \in Int, NEW b \in Int, NEW n \in Nat, Off(c, b, pct, n),
         NEW d \in Int, NEW e \in Int, Off(d, e, pct, 1)
  PROVE  Off(c + d, b + e, pct, n + 1)
<1>1. (b + e) * pct = b * pct + e * pct /\ b * pct \in Int /\ e * pct \in Int
  OBVIOUS
<1> QED
  BY <1>1 DEF Off

LEMMA CommissionOff ==
  ASSUME NEW total \in Int, NEW pct \in Int
  PROVE  Off(Commission(total, pct), total, pct, 1)
BY CommissionIsNearest DEF Off

LEMMA SumOff ==
  ASSUME NEW pct \in Int, NEW S, IsFiniteSet(S), NEW f, NEW g,
         \A x \in S : f[x] \in Int /\ g[x] = Commission(f[x], pct)
  PROVE  Off(SumOf(g, S), SumOf(f, S), pct, Cardinality(S))
<1> DEFINE Fine(s) == Off(SumOf(g, s), SumOf(f, s), pct, Cardinality(s))
           D == {s \in SUBSET S : ~Fine(s)}
<1> SUFFICES ASSUME D # {}
             PROVE  FALSE
  OBVIOUS
<1>1. PICK m \in D : \A u \in D : u \subseteq m => u = m
  <2>1. D \in SUBSET (SUBSET S)
    OBVIOUS
  <2> HIDE DEF D
  <2> QED
    BY <2>1, SmallestSubset
<1>2. m # {}
  <2>1. SumOf(f, {}) = 0 /\ SumOf(g, {}) = 0 /\ Cardinality({}) = 0
    BY SumOfNone, FS_EmptySet
  <2>2. Fine({})
    BY <2>1 DEF Off
  <2> QED
    BY <2>2
<1> DEFINE e == Chosen(m)
           u == m \ {e}
<1>3. e \in m /\ IsFiniteSet(m) /\ m \subseteq S /\ u \subseteq S /\ IsFiniteSet(u)
  BY <1>2, ChosenIsElement, FS_Subset
<1>4. Fine(u)
  BY <1>1, <1>3
<1>5. /\ SumOf(f, m) = f[e] + SumOf(f, u)
      /\ SumOf(g, m) = g[e] + SumOf(g, u)
  BY <1>2, <1>3, SumOfChosen
<1>6. Cardinality(m) = Cardinality(u) + 1 /\ Cardinality(u) \in Nat
  BY <1>3, FS_RemoveElement, FS_CardinalityType
<1> HIDE DEF e, u
<1>7. /\ f[e] \in Int /\ g[e] \in Int /\ Off(g[e], f[e], pct, 1)
      /\ SumOf(f, u) \in Int /\ SumOf(g, u) \in Int
  <2>1. \A x \in S : f[x] \in Int /\ g[x] \in Int
    BY CommissionIsInt
  <2>2. e \in S /\ f[e] \in Int /\ g[e] \in Int /\ g[e] = Commission(f[e], pct)
    BY <1>3, <2>1
  <2>3. Off(Commission(f[e], pct), f[e], pct, 1)
    BY <2>2, CommissionOff
  <2>4. SumOf(f, u) \in Int /\ SumOf(g, u) \in Int
    BY <1>3, <2>1, SumOfInts
  <2>5. Off(g[e], f[e], pct, 1)
    BY <2>2, <2>3
  <2> QED
    BY <2>2, <2>4, <2>5
<1>8. Off(SumOf(g, u) + g[e], SumOf(f, u) + f[e], pct, Cardinality(u) + 1)
  BY <1>4, <1>6, <1>7, OffAdds
<1>9. SumOf(g, u) + g[e] = SumOf(g, m) /\ SumOf(f, u) + f[e] = SumOf(f, m)
  BY <1>5, <1>7
<1>10. Fine(m)
  BY <1>6, <1>8, <1>9
<1> QED
  BY <1>1, <1>10

\* At most half a cent for each of the parts, and half for the whole.
Near(a, b, n) == 2 * (a - b) <= n + 1 /\ 2 * (b - a) <= n + 1

LEMMA PartsNearWhole ==
  ASSUME NEW pct \in Int, NEW S, IsFiniteSet(S), NEW f, NEW g,
         \A x \in S : f[x] \in Int /\ g[x] = Commission(f[x], pct)
  PROVE  Near(SumOf(g, S), Commission(SumOf(f, S), pct), Cardinality(S))
<1> DEFINE b == SumOf(f, S)
           c == SumOf(g, S)
           d == Commission(b, pct)
           n == Cardinality(S)
<1>1. \A x \in S : f[x] \in Int /\ g[x] \in Int
  BY CommissionIsInt
<1>2. b \in Int /\ c \in Int /\ n \in Nat
  BY <1>1, SumOfInts, FS_CardinalityType
<1>3. Off(c, b, pct, n)
  BY SumOff
<1> HIDE DEF b, c, n
<1>4. d \in Int /\ Off(d, b, pct, 1)
  BY <1>2, CommissionIsInt, CommissionOff
<1> HIDE DEF d
<1>5. b * pct \in Int
  BY <1>2
<1>6. Near(c, d, n)
  BY <1>2, <1>3, <1>4, <1>5 DEF Off, Near
<1> QED
  BY <1>6 DEF b, c, d, n

-----------------------------------------------------------------------------
(* Recalculations while no percentage changes.                              *)

\* Every sale was paid, and every row was computed, at its vendor's percentage.
AtRates(q, t, G) ==
  /\ \A o \in DOMAIN q : SellerOf[o] # NoVendor =>
       q[o].earned = Commission(TotalOf[o], PercentageIn(G, SellerOf[o]))
  /\ \A p \in DOMAIN t : t[p].rate = PercentageIn(G, t[p].vendor)

FixedInv == Books /\ AtRates(sold, periods, percentage)

LEMMA RowRateKept ==
  ASSUME NEW r \in PeriodRows, NEW total \in Int, NEW pct \in Int
  PROVE  /\ Accrued(r, total, pct).rate = r.rate /\ Accrued(r, total, pct).vendor = r.vendor
         /\ [r EXCEPT !.status = "paid"].rate = r.rate
         /\ [r EXCEPT !.status = "paid"].vendor = r.vendor
         /\ [r EXCEPT !.status = "paid"].amount = r.amount
BY DEF Accrued, PeriodRows

LEMMA DeliverAtRates ==
  ASSUME FixedInv, NEW o \in Parcels, Deliver(o)
  PROVE  AtRates(sold', periods', percentage)
<1> DEFINE v == SellerOf[o]
           total == TotalOf[o]
           pct == PercentageOf(v)
           d == [week |-> week, earned |-> IF v = NoVendor THEN 0 ELSE Commission(total, pct)]
<1>1. /\ sold' = [x \in DOMAIN sold \cup {o} |-> IF x = o THEN d ELSE sold[x]]
      /\ total \in Int /\ periods \in Seq(PeriodRows)
  BY CommissionsAssumption DEF Deliver, FixedInv, Books, BooksRight
<1>2. v # NoVendor => pct \in Int /\ pct = PercentageIn(percentage, v)
  <2>1. pct = PercentageIn(percentage, v)
    BY QueriesOfTables
  <2> QED
    BY <2>1, PercentageIsInt, CommissionsAssumption DEF FixedInv
<1>3. v # NoVendor => d.earned = Commission(total, PercentageIn(percentage, v))
  BY <1>2
<1>4. \A x \in DOMAIN sold' : SellerOf[x] # NoVendor =>
        sold'[x].earned = Commission(TotalOf[x], PercentageIn(percentage, SellerOf[x]))
  <2> HIDE DEF d
  <2> QED
    BY <1>1, <1>3 DEF FixedInv, AtRates
<1>5. \A p \in DOMAIN periods' : periods'[p].rate = PercentageIn(percentage, periods'[p].vendor)
  <2>1. \A p \in DOMAIN periods :
          /\ periods[p].rate = PercentageIn(percentage, periods[p].vendor)
          /\ periods[p] \in PeriodRows
    BY <1>1 DEF FixedInv, AtRates
  <2>2. CASE periods' = periods
    BY <2>1, <2>2
  <2>3. ASSUME v # NoVendor, NEW p \in Matching(v, week),
               periods' = [periods EXCEPT ![p] = Accrued(@, total, pct)]
        PROVE  \A i \in DOMAIN periods' :
                 periods'[i].rate = PercentageIn(percentage, periods'[i].vendor)
    <3> DEFINE a == Accrued(periods[p], total, pct)
    <3>1. p \in DOMAIN periods
      BY DEF Matching
    <3>2. a.rate = PercentageIn(percentage, a.vendor)
      BY <1>1, <1>2, <2>1, <2>3, <3>1, RowRateKept
    <3>3. /\ DOMAIN periods' = DOMAIN periods
          /\ \A i \in DOMAIN periods : periods'[i] = IF i = p THEN a ELSE periods[i]
      BY <1>1, <2>3, <3>1
    <3> HIDE DEF a
    <3> QED
      BY <2>1, <3>2, <3>3
  <2>4. ASSUME v # NoVendor, periods' = Append(periods, NewPeriod(v, week, total, pct))
        PROVE  \A i \in DOMAIN periods' :
                 periods'[i].rate = PercentageIn(percentage, periods'[i].vendor)
    <3> DEFINE a == NewPeriod(v, week, total, pct)
    <3>1. a.rate = PercentageIn(percentage, a.vendor)
      BY <1>2, <2>4 DEF NewPeriod
    <3> HIDE DEF a
    <3>2. \A i \in DOMAIN Append(periods, a) :
            \/ Append(periods, a)[i] = a
            \/ i \in DOMAIN periods /\ Append(periods, a)[i] = periods[i]
      BY <1>1
    <3>3. periods' = Append(periods, a)
      BY <2>4 DEF a
    <3> QED
      BY <2>1, <3>1, <3>2, <3>3
  <2> QED
    BY <2>2, <2>3, <2>4 DEF Deliver
<1> QED
  BY <1>4, <1>5 DEF AtRates

\* Where a step changes an amount of a sold week at all, it is a recalculation.
Recalculations ==
  \A p \in DOMAIN periods :
    LET row == periods[p] IN
    \/ periods'[p].amount = row.amount
    \/ periods'[p].amount = Commission(Sales(row.vendor, row.week), PercentageOf(row.vendor))

LEMMA RecalculateAtRates ==
  ASSUME FixedInv, Recalculate
  PROVE  AtRates(sold', periods', percentage) /\ Recalculations
<1>1. sold' = sold /\ DOMAIN periods' = DOMAIN periods
  BY RecalculatedTable DEF FixedInv
<1>2. ASSUME NEW p \in DOMAIN periods
      PROVE  /\ periods'[p].rate = PercentageIn(percentage, periods'[p].vendor)
             /\ \/ periods'[p].amount = periods[p].amount
                \/ periods'[p].amount = Commission(Sales(periods[p].vendor, periods[p].week),
                                                   PercentageOf(periods[p].vendor))
  <2> DEFINE row == periods[p]
             base == Sales(row.vendor, row.week)
             pct == PercentageOf(row.vendor)
  <2>1. row \in PeriodRows /\ row.rate = PercentageIn(percentage, row.vendor)
    BY DEF FixedInv, Books, BooksRight, AtRates
  <2>2. pct = PercentageIn(percentage, row.vendor)
    BY QueriesOfTables
  <2>3. CASE periods'[p] = row
    BY <2>1, <2>3
  <2>4. CASE periods'[p] = Recalculated(row, base, pct)
    <3> DEFINE a == Recalculated(row, base, pct)
    <3> HIDE DEF base, pct
    <3>1. a.vendor = row.vendor /\ a.rate = pct /\ a.amount = Commission(base, pct)
      BY <2>1 DEF Recalculated, PeriodRows
    <3> HIDE DEF a
    <3> QED
      BY <2>2, <2>4, <3>1 DEF a, base, pct
  <2> QED
    BY <2>3, <2>4, RecalculatedTable DEF FixedInv
<1>3. Recalculations
  BY <1>2 DEF Recalculations
<1>4. \A o \in DOMAIN sold : SellerOf[o] # NoVendor =>
        sold[o].earned = Commission(TotalOf[o], PercentageIn(percentage, SellerOf[o]))
  BY DEF FixedInv, AtRates
<1> QED
  BY <1>1, <1>2, <1>3, <1>4 DEF AtRates

LEMMA InitFixed == Init => FixedInv
BY InitBooks DEF Init, FixedInv, AtRates

\* A step that is no delivery.
LEMMA StepFixed ==
  ASSUME FixedInv, [Next]_vars, [percentage' = percentage]_vars
  PROVE  FixedInv' /\ (sold' = sold => Recalculations)
<1>1. percentage' = percentage
  BY DEF vars
<1>2. Books'
  BY StepBooks DEF FixedInv
<1> SUFFICES AtRates(sold', periods', percentage) /\ (sold' = sold => Recalculations)
  BY <1>1, <1>2 DEF FixedInv
<1>3. ASSUME NEW o \in Parcels, Deliver(o)
      PROVE  AtRates(sold', periods', percentage) /\ sold' # sold
  <2>1. o \notin DOMAIN sold /\ o \in DOMAIN sold'
    BY <1>3 DEF Deliver
  <2> QED
    BY <1>3, <2>1, DeliverAtRates
<1>4. CASE Recalculate
  BY <1>4, RecalculateAtRates
<1>5. ASSUME NEW p \in DOMAIN periods, Pay(p)
      PROVE  AtRates(sold', periods', percentage) /\ Recalculations
  <2> DEFINE a == [periods[p] EXCEPT !.status = "paid"]
  <2>1. periods \in Seq(PeriodRows) /\ sold' = sold
    BY <1>5 DEF Pay, FixedInv, Books, BooksRight
  <2>2. /\ a.rate = periods[p].rate /\ a.vendor = periods[p].vendor
        /\ a.amount = periods[p].amount
    BY <2>1 DEF PeriodRows
  <2>3. /\ DOMAIN periods' = DOMAIN periods
        /\ \A i \in DOMAIN periods : periods'[i] = IF i = p THEN a ELSE periods[i]
    BY <1>5, <2>1 DEF Pay
  <2> HIDE DEF a
  <2>4. \A i \in DOMAIN periods :
          /\ periods'[i].rate = periods[i].rate /\ periods'[i].vendor = periods[i].vendor
          /\ periods'[i].amount = periods[i].amount
    BY <2>2, <2>3
  <2> QED
    BY <2>1, <2>3, <2>4 DEF FixedInv, AtRates, Recalculations
<1>6. ASSUME sold' = sold, periods' = periods
      PROVE  AtRates(sold', periods', percentage) /\ Recalculations
  BY <1>6 DEF FixedInv, AtRates, Recalculations
<1>7. ASSUME NEW v \in Vendors, NEW pct \in Percentages, SetPercentage(v, pct)
      PROVE  AtRates(sold', periods', percentage) /\ Recalculations
  BY <1>6, <1>7 DEF SetPercentage
<1>8. CASE NextWeek
  BY <1>6, <1>8 DEF NextWeek
<1>9. CASE UNCHANGED vars
  BY <1>6, <1>9 DEF vars
<1> QED
  BY <1>3, <1>4, <1>5, <1>7, <1>8, <1>9 DEF Next

\* What a period would be if it were computed again.
LEMMA AmountNearWhole ==
  ASSUME FixedInv, NEW p \in DOMAIN periods
  PROVE  LET row == periods[p]
             S == SoldIn(row.vendor, row.week)
             whole == Commission(Sales(row.vendor, row.week), PercentageOf(row.vendor))
         IN /\ IsFiniteSet(S) /\ whole \in Int /\ row.amount \in Int
            /\ Near(row.amount, whole, Cardinality(S))
            /\ NothingRounds => row.amount = whole
<1> DEFINE row == periods[p]
           v == row.vendor
           S == SoldBy(sold, v, row.week)
           pct == PercentageOf(v)
           whole == Commission(SumOfTotals(S), pct)
           f == [o \in S |-> sold[o].earned]
<1>1. /\ row \in PeriodRows /\ RowRight(sold, week, row) /\ Deliveries(sold, week)
      /\ row.rate = PercentageIn(percentage, v)
  BY DEF FixedInv, Books, BooksRight, AtRates
<1>2. v \in Vendors /\ v # NoVendor /\ row.amount \in Int
  BY <1>1, CommissionsAssumption DEF PeriodRows
<1>3. pct = PercentageIn(percentage, v) /\ pct \in Int /\ pct \in Rates
  <2>1. pct = PercentageIn(percentage, v)
    BY QueriesOfTables
  <2> QED
    BY <1>2, <2>1, RateIn DEF FixedInv, Books
<1>4. IsFiniteSet(S) /\ S \in SUBSET Parcels
  BY <1>1, SoldByFinite
<1>5. \A o \in S : TotalOf[o] \in Int /\ f[o] = Commission(TotalOf[o], pct)
  <2>1. \A o \in S : o \in DOMAIN sold /\ SellerOf[o] = v
    BY DEF SoldBy
  <2> HIDE DEF S
  <2>2. \A o \in S : f[o] = Commission(TotalOf[o], pct)
    BY <1>2, <1>3, <2>1 DEF FixedInv, AtRates
  <2> QED
    BY <1>4, <2>2, CommissionsAssumption
<1>6. EarnedOf(sold, S) = SumOf(f, S) /\ SumOfTotals(S) = SumOf(TotalOf, S)
  <2>1. SumOfTotals(S) = SumOf(TotalOf, S)
    BY DEF SumOfTotals, SumOf
  <2> HIDE DEF S
  <2> QED
    BY <1>4, <2>1, EarnedIsSum
<1>7. /\ row.base = SumOfTotals(S)
      /\ row.amount = SumOf(f, S) \/ row.amount = whole
  BY <1>1, <1>3, <1>6 DEF RowRight
<1> HIDE DEF f, S, pct, v
<1>8. Cardinality(S) \in Nat
  BY <1>4, FS_CardinalityType
<1>9. whole \in Int
  <2>1. SumOfTotals(S) \in Int
    BY <1>4, <1>5, <1>6, SumOfInts
  <2> QED
    BY <1>3, <2>1, CommissionIsInt
<1>10. Near(SumOf(f, S), whole, Cardinality(S))
  BY <1>3, <1>4, <1>5, <1>6, PartsNearWhole
<1>11. NothingRounds => SumOf(f, S) = whole
  <2> SUFFICES ASSUME NothingRounds
               PROVE  SumOf(f, S) = whole
    OBVIOUS
  <2>1. \A o \in S : Exact(TotalOf[o], f[o], pct)
    BY <1>3, <1>4, <1>5, TotalInCents
  <2>2. Exact(SumOf(TotalOf, S), SumOf(f, S), pct)
    BY <1>3, <1>4, <2>1, SumExact
  <2> QED
    BY <1>3, <1>6, <2>2, ExactCommission
<1> HIDE DEF whole
<1>12. Near(row.amount, whole, Cardinality(S))
  BY <1>2, <1>7, <1>8, <1>9, <1>10 DEF Near
<1>13. NothingRounds => row.amount = whole
  BY <1>7, <1>11
<1>14. /\ S = SoldIn(row.vendor, row.week)
       /\ whole = Commission(Sales(row.vendor, row.week), PercentageOf(row.vendor))
  BY DEF S, whole, v, pct, SoldBy, SoldIn, Sales
<1> QED
  BY <1>2, <1>4, <1>9, <1>12, <1>13, <1>14

\* The amount of every period stays within that distance as long as nothing is
\* sold.
Drift ==
  \A p \in DOMAIN periods :
    Near(periods'[p].amount, periods[p].amount,
         Cardinality(SoldIn(periods[p].vendor, periods[p].week)))

LEMMA RecalculationsNear ==
  ASSUME FixedInv, Recalculations
  PROVE  /\ Drift
         /\ NothingRounds => \A p \in DOMAIN periods : periods'[p].amount = periods[p].amount
<1> SUFFICES ASSUME NEW p \in DOMAIN periods
             PROVE  /\ Near(periods'[p].amount, periods[p].amount,
                            Cardinality(SoldIn(periods[p].vendor, periods[p].week)))
                    /\ NothingRounds => periods'[p].amount = periods[p].amount
  BY DEF Drift
<1> DEFINE row == periods[p]
           n == Cardinality(SoldIn(row.vendor, row.week))
           whole == Commission(Sales(row.vendor, row.week), PercentageOf(row.vendor))
           a == row.amount
           b == periods'[p].amount
<1>1. /\ n \in Nat /\ whole \in Int /\ a \in Int /\ Near(a, whole, n)
      /\ NothingRounds => a = whole
  BY AmountNearWhole, FS_CardinalityType
<1>2. b = a \/ b = whole
  BY DEF Recalculations
<1> HIDE DEF n, whole, a, b
<1>3. Near(b, a, n) /\ (NothingRounds => b = a)
  BY <1>1, <1>2 DEF Near
<1> QED
  BY <1>3 DEF n, a, b

\* When no vendor's percentage changes, a recalculation moves the amount of a period
\* by half a cent for each of its orders at most, and half a cent more: rounding
\* order by order and rounding the whole (orders/service.py:294-352,
\* commissions/service.py) do not differ by more.
THEOREM RecalculationDrifts ==
  Spec /\ [][percentage' = percentage]_vars => [][sold' = sold => Drift]_vars
<1>1. FixedInv /\ [Next]_vars /\ [percentage' = percentage]_vars
        => FixedInv' /\ (sold' = sold => Drift)
  BY StepFixed, RecalculationsNear
<1> QED
  BY <1>1, InitFixed, PTL DEF Spec

\* If moreover the commission on every order is a number of cents, a recalculation
\* changes no amount, as the docstring of calculate_commissions_for_week says: the
\* two computations differ by rounding alone.
THEOREM RecalculationKeepsAmounts ==
  ASSUME NothingRounds
  PROVE  Spec /\ [][percentage' = percentage]_vars => RecalculationAgrees
<1>1. FixedInv /\ [Next]_vars /\ [percentage' = percentage]_vars
        => /\ FixedInv'
           /\ sold' = sold => \A p \in DOMAIN periods : periods'[p].amount = periods[p].amount
  BY StepFixed, RecalculationsNear
<1> QED
  BY <1>1, InitFixed, PTL DEF Spec, RecalculationAgrees

=============================================================================
