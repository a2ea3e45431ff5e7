---------------------------- MODULE OrdersProofs ----------------------------
(***************************************************************************)
(* Theorems about Orders and about the reports on the orders (Financials), *)
(* for every set of users, variants and orders and every value of the      *)
(* bounds.                                                                 *)
(***************************************************************************)
EXTENDS Financials, OrderRulesProofs, SumsProofs

-----------------------------------------------------------------------------
(* Type correctness, one lemma per action.                                 *)

LEMMA CreateOrderType ==
  ASSUME TypeOK, NEW o \in OrderIds, NEW c \in Clients \cup Wholesalers,
         NEW b \in Baskets, CreateOrder(o, c, b)
  PROVE  TypeOK'
<1> DEFINE ls == PricedLines(b, SaleType(c))
           n == generate_order_number(year, Cardinality(DOMAIN orders))
<1>1. ls \in LineLists /\ NewRow(n, c, ls) \in Rows
  <2>1. SaleType(c) \in SaleTypes
    BY DEF SaleType, SaleTypes
  <2>2. n \in Numbers
    BY FS_CardinalityType, NumberType DEF TypeOK
  <2> QED BY <2>1, <2>2, PricedIsLineList, NewRowType
<1>2. CreationEntry \in Entries
  BY DEF CreationEntry, Entry, Entries, Statuses
<1>3. /\ orders' = With(orders, o, NewRow(n, c, ls))
      /\ lines' = With(lines, o, ls)
      /\ cancelled' = With(cancelled, o, {})
      /\ history' = With(history, o, <<CreationEntry>>)
      /\ year' = year
  BY DEF CreateOrder
<1>4. IsFiniteSet(DOMAIN orders')
  BY <1>3, FS_AddElement DEF TypeOK, With
<1> HIDE DEF ls, n
<1> QED BY <1>1, <1>2, <1>3, <1>4 DEF TypeOK, With

LEMMA ChangeStatusType ==
  ASSUME TypeOK, NEW o \in DOMAIN orders, NEW u \in Users, NEW to \in Statuses,
         NEW p \in Persons \cup {NoPerson}, ChangeStatus(u, o, to, p)
  PROVE  TypeOK'
<1>1. /\ StatusRow(orders[o], to, p) \in Rows
      /\ StatusEntry(orders[o], to, u, p) \in Entries
  BY StatusRowType, EntryType DEF TypeOK
<1> QED BY <1>1 DEF TypeOK, ChangeStatus, Record

LEMMA MarkUnavailableType ==
  ASSUME TypeOK, NEW o \in DOMAIN orders, NEW u \in Users,
         NEW requested \in SUBSET Variants, MarkUnavailable(u, o, requested)
  PROVE  TypeOK'
<1> DEFINE available == AvailableLines(lines[o], cancelled[o])
           entry == Entry("pending", "partially_available", u, 0, NoPerson)
<1>1. MarkRow(orders[o], lines[o], available) \in Rows
  BY MarkRowType DEF TypeOK, AvailableLines
<1>2. entry \in Entries
  BY DEF Entry, Entries, Statuses
<1>3. PICK M \in Markings(lines[o], requested) :
        cancelled' = [cancelled EXCEPT ![o] = @ \cup M]
  BY DEF MarkUnavailable
<1>4. M \subseteq DOMAIN lines[o]
  BY DEF Markings
<1>5. DOMAIN lines[o] \subseteq 1..MaxLines
  BY LinePositions DEF TypeOK
<1>6. /\ orders' = [orders EXCEPT ![o] = MarkRow(@, lines[o], available)]
      /\ history' = [history EXCEPT ![o] = Append(@, entry)]
      /\ lines' = lines /\ year' = year
  BY DEF MarkUnavailable, Record
<1> HIDE DEF available, entry
<1> QED BY <1>1, <1>2, <1>3, <1>4, <1>5, <1>6 DEF TypeOK

LEMMA AcceptPartialType ==
  ASSUME TypeOK, NEW o \in DOMAIN orders, NEW u \in Users, AcceptPartial(u, o)
  PROVE  TypeOK'
<1> DEFINE available == AvailableLines(lines[o], cancelled[o])
           entry == Entry("partially_available", "confirmed", u, 0, NoPerson)
<1>1. AcceptRow(orders[o], lines[o], available) \in Rows
  BY AcceptRowType DEF TypeOK, AvailableLines
<1>2. entry \in Entries
  BY DEF Entry, Entries, Statuses
<1> QED BY <1>1, <1>2 DEF TypeOK, AcceptPartial, Record

LEMMA RejectPartialType ==
  ASSUME TypeOK, NEW o \in DOMAIN orders, NEW u \in Users, RejectPartial(u, o)
  PROVE  TypeOK'
<1> DEFINE entry == Entry("partially_available", "cancelled", u, 0, NoPerson)
<1>1. RejectRow(orders[o]) \in Rows
  BY RejectRowType DEF TypeOK
<1>2. entry \in Entries
  BY DEF Entry, Entries, Statuses
<1> QED BY <1>1, <1>2 DEF TypeOK, RejectPartial, Record

LEMMA TypePreserved == TypeOK /\ [Next]_vars => TypeOK'
<1> SUFFICES ASSUME TypeOK, [Next]_vars PROVE TypeOK'
  OBVIOUS
<1>1. CASE UNCHANGED vars
  BY <1>1 DEF vars, tables, TypeOK
<1>2. ASSUME NEW o \in OrderIds, NEW c \in Clients \cup Wholesalers,
             NEW b \in Baskets, CreateOrder(o, c, b)
      PROVE TypeOK'
  BY <1>2, CreateOrderType
<1>3. ASSUME NEW o \in DOMAIN orders, NEW u \in Users, NEW to \in Statuses,
             NEW p \in Persons \cup {NoPerson}, ChangeStatus(u, o, to, p)
      PROVE TypeOK'
  BY <1>3, ChangeStatusType
<1>4. ASSUME NEW o \in DOMAIN orders, NEW u \in Users,
             NEW requested \in SUBSET Variants, MarkUnavailable(u, o, requested)
      PROVE TypeOK'
  BY <1>4, MarkUnavailableType
<1>5. ASSUME NEW o \in DOMAIN orders, NEW u \in Users, AcceptPartial(u, o)
      PROVE TypeOK'
  BY <1>5, AcceptPartialType
<1>6. ASSUME NEW o \in DOMAIN orders, NEW u \in Users, RejectPartial(u, o)
      PROVE TypeOK'
  BY <1>6, RejectPartialType
<1>7. CASE NewYear
  BY <1>7, YearsAssumption DEF NewYear, tables, TypeOK
<1> QED BY <1>1, <1>2, <1>3, <1>4, <1>5, <1>6, <1>7 DEF Next

LEMMA TypeInitially == Init => TypeOK
BY FS_EmptySet, YearsAssumption DEF Init, TypeOK

\* Every column of every order keeps a value of its type, whatever users,
\* goods and orders the constants describe.
THEOREM TypeCorrect == Spec => []TypeOK
BY TypeInitially, TypePreserved, PTL DEF Spec

-----------------------------------------------------------------------------
(* What a step does to one order.  The invariants speak of each order       *)
(* alone, so each is proved of one order from these six possibilities.      *)

SameOrder(o) ==
  /\ o \in DOMAIN orders
  /\ orders'[o] = orders[o] /\ history'[o] = history[o]
  /\ lines'[o] = lines[o] /\ cancelled'[o] = cancelled[o]

NewOrder(o) ==
  /\ o \notin DOMAIN orders
  /\ \E c \in Clients \cup Wholesalers, ls \in LineLists, n \in Numbers :
       /\ orders'[o] = NewRow(n, c, ls)
       /\ lines'[o] = ls
       /\ cancelled'[o] = {}
       /\ history'[o] = <<CreationEntry>>

StatusStep(o) ==
  /\ o \in DOMAIN orders
  /\ \E u \in Users, to \in Statuses, p \in Persons \cup {NoPerson} :
       /\ MayAccess(u, orders[o])
       /\ StatusAllowed(orders[o], to, Role(u))
       /\ orders'[o] = StatusRow(orders[o], to, p)
       /\ history'[o] = Append(history[o], StatusEntry(orders[o], to, u, p))
  /\ lines'[o] = lines[o] /\ cancelled'[o] = cancelled[o]

MarkStep(o) ==
  /\ o \in DOMAIN orders
  /\ orders[o].status = "pending"
  /\ orders'[o] = MarkRow(orders[o], lines[o], AvailableLines(lines[o], cancelled[o]))
  /\ lines'[o] = lines[o]
  /\ \E u \in Admins : history'[o] =
       Append(history[o], Entry("pending", "partially_available", u, 0, NoPerson))

AcceptStep(o) ==
  /\ o \in DOMAIN orders
  /\ orders[o].status = "partially_available"
  /\ orders'[o] = AcceptRow(orders[o], lines[o], AvailableLines(lines[o], cancelled[o]))
  /\ lines'[o] = lines[o] /\ cancelled'[o] = cancelled[o]
  /\ \E u \in Users : history'[o] =
       Append(history[o], Entry("partially_available", "confirmed", u, 0, NoPerson))

RejectStep(o) ==
  /\ o \in DOMAIN orders
  /\ orders[o].status = "partially_available"
  /\ orders'[o] = RejectRow(orders[o])
  /\ lines'[o] = lines[o] /\ cancelled'[o] = cancelled[o]
  /\ \E u \in Users : history'[o] =
       Append(history[o], Entry("partially_available", "cancelled", u, 0, NoPerson))

OrderStep(o) ==
  \/ SameOrder(o) \/ NewOrder(o) \/ StatusStep(o)
  \/ MarkStep(o) \/ AcceptStep(o) \/ RejectStep(o)

\* A step does to every order that exists after it one of the six.  A step on
\* one order leaves the others as they are.
LEMMA StepOfOneOrder ==
  ASSUME TypeOK, [Next]_vars, NEW o \in DOMAIN orders'
  PROVE  OrderStep(o)
<1>1. CASE UNCHANGED vars
  BY <1>1 DEF vars, tables, OrderStep, SameOrder
<1>2. ASSUME NEW x \in OrderIds, NEW c \in Clients \cup Wholesalers,
             NEW b \in Baskets, CreateOrder(x, c, b)
      PROVE OrderStep(o)
  <2> DEFINE ls == PricedLines(b, SaleType(c))
             n == generate_order_number(year, Cardinality(DOMAIN orders))
  <2>1. ls \in LineLists /\ n \in Numbers
    BY PricedIsLineList, FS_CardinalityType, NumberType DEF SaleType, SaleTypes, TypeOK
  <2>2. /\ orders' = With(orders, x, NewRow(n, c, ls))
        /\ lines' = With(lines, x, ls)
        /\ cancelled' = With(cancelled, x, {})
        /\ history' = With(history, x, <<CreationEntry>>)
        /\ x \notin DOMAIN orders
    BY <1>2 DEF CreateOrder
  <2> HIDE DEF ls, n
  <2>3. CASE o = x
    BY <2>1, <2>2, <2>3 DEF With, NewOrder, OrderStep, TypeOK
  <2>4. CASE o # x
    BY <2>2, <2>4 DEF With, SameOrder, OrderStep, TypeOK
  <2> QED BY <2>3, <2>4
<1>3. ASSUME NEW x \in DOMAIN orders, NEW u \in Users, NEW to \in Statuses,
             NEW p \in Persons \cup {NoPerson}, ChangeStatus(u, x, to, p)
      PROVE OrderStep(o)
  <2>1. CASE o = x
    BY <1>3, <2>1 DEF ChangeStatus, Record, StatusStep, OrderStep, TypeOK
  <2>2. CASE o # x
    BY <1>3, <2>2 DEF ChangeStatus, Record, SameOrder, OrderStep, TypeOK
  <2> QED BY <2>1, <2>2
<1>4. ASSUME NEW x \in DOMAIN orders, NEW u \in Users,
             NEW requested \in SUBSET Variants, MarkUnavailable(u, x, requested)
      PROVE OrderStep(o)
  <2>1. CASE o = x
    BY <1>4, <2>1 DEF MarkUnavailable, MarkAllowed, Record, MarkStep, OrderStep, TypeOK
  <2>2. CASE o # x
    BY <1>4, <2>2 DEF MarkUnavailable, Record, SameOrder, OrderStep, TypeOK
  <2> QED BY <2>1, <2>2
<1>5. ASSUME NEW x \in DOMAIN orders, NEW u \in Users, AcceptPartial(u, x)
      PROVE OrderStep(o)
  <2>1. CASE o = x
    BY <1>5, <2>1 DEF AcceptPartial, MayAnswer, AcceptAllowed, Record, AcceptStep,
                      OrderStep, TypeOK
  <2>2. CASE o # x
    BY <1>5, <2>2 DEF AcceptPartial, Record, SameOrder, OrderStep, TypeOK
  <2> QED BY <2>1, <2>2
<1>6. ASSUME NEW x \in DOMAIN orders, NEW u \in Users, RejectPartial(u, x)
      PROVE OrderStep(o)
  <2>1. CASE o = x
    BY <1>6, <2>1 DEF RejectPartial, MayAnswer, AcceptAllowed, Record, RejectStep,
                      OrderStep, TypeOK
  <2>2. CASE o # x
    BY <1>6, <2>2 DEF RejectPartial, Record, SameOrder, OrderStep, TypeOK
  <2> QED BY <2>1, <2>2
<1>7. CASE NewYear
  BY <1>7 DEF NewYear, tables, OrderStep, SameOrder
<1> QED BY <1>1, <1>2, <1>3, <1>4, <1>5, <1>6, <1>7 DEF Next

\* Entries are only added, so a status once entered stays entered.
LEMMA EnteredGrows ==
  ASSUME NEW o, NEW s, NEW e, history[o] \in Seq(Entries),
         history'[o] = Append(history[o], e)
  PROVE  Entered(o, s)' <=> Entered(o, s) \/ e.to = s
<1>1. /\ DOMAIN history[o] = 1..Len(history[o]) /\ Len(history[o]) \in Nat
      /\ DOMAIN history'[o] = 1..(Len(history[o]) + 1)
      /\ \A i \in 1..Len(history[o]) : history'[o][i] = history[o][i]
      /\ history'[o][Len(history[o]) + 1] = e
  OBVIOUS
<1> QED BY <1>1 DEF Entered

\* Orders are never deleted.
LEMMA OrdersStay ==
  ASSUME TypeOK, [Next]_vars
  PROVE  DOMAIN orders \subseteq DOMAIN orders'
BY DEF Next, vars, CreateOrder, ChangeStatus, MarkUnavailable, AcceptPartial,
       RejectPartial, NewYear, tables, With

-----------------------------------------------------------------------------
(* What each kind of step does, column by column.                          *)

LEMMA NewEffect ==
  ASSUME NEW o, NewOrder(o)
  PROVE  \E c \in Clients \cup Wholesalers :
           /\ orders'[o].client = c /\ orders'[o].sale = SaleType(c)
           /\ orders'[o].vendor = IF c \in Clients THEN VendorOf[c] ELSE NoVendor
           /\ orders'[o].status = "pending" /\ orders'[o].original = NoTotal
           /\ orders'[o].total = LineSum(lines'[o], DOMAIN lines'[o])
           /\ orders'[o].attempts = 0
           /\ ~orders'[o].confirmed /\ ~orders'[o].accepted
           /\ ~orders'[o].delivered /\ ~orders'[o].cancelled
           /\ cancelled'[o] = {}
           /\ history'[o] = <<CreationEntry>>
           /\ \A s : Entered(o, s)' <=> s = "pending"
<1>1. PICK c \in Clients \cup Wholesalers, ls \in LineLists, n \in Numbers :
        /\ orders'[o] = NewRow(n, c, ls)
        /\ lines'[o] = ls
        /\ cancelled'[o] = {}
        /\ history'[o] = <<CreationEntry>>
  BY DEF NewOrder
<1>2. \A s : Entered(o, s)' <=> s = "pending"
  BY <1>1 DEF Entered, CreationEntry, Entry
<1> QED BY <1>1, <1>2 DEF NewRow

LEMMA StatusEffect ==
  ASSUME IInv, NEW o, StatusStep(o)
  PROVE  \E u \in Users, to \in Statuses, e \in Entries :
           /\ MayAccess(u, orders[o]) /\ StatusAllowed(orders[o], to, Role(u))
           /\ orders'[o].status = to
           /\ orders'[o].client = orders[o].client /\ orders'[o].vendor = orders[o].vendor
           /\ orders'[o].sale = orders[o].sale /\ orders'[o].total = orders[o].total
           /\ orders'[o].original = orders[o].original
           /\ orders'[o].accepted = orders[o].accepted
           /\ orders'[o].attempts = IF to = "delivery_failed" THEN orders[o].attempts + 1
                                                              ELSE orders[o].attempts
           /\ orders'[o].confirmed <=> orders[o].confirmed \/ to = "confirmed"
           /\ orders'[o].delivered <=> orders[o].delivered \/ to = "delivered_to_client"
           /\ orders'[o].cancelled <=> orders[o].cancelled \/ to = "cancelled"
           /\ history'[o] = Append(history[o], e)
           /\ e.from = orders[o].status /\ e.to = to /\ e.by = u
           /\ to = "delivery_failed" => e.attempt = orders[o].attempts + 1
           /\ \A s : Entered(o, s)' <=> Entered(o, s) \/ s = to
<1>1. PICK u \in Users, to \in Statuses, p \in Persons \cup {NoPerson} :
        /\ MayAccess(u, orders[o])
        /\ StatusAllowed(orders[o], to, Role(u))
        /\ orders'[o] = StatusRow(orders[o], to, p)
        /\ history'[o] = Append(history[o], StatusEntry(orders[o], to, u, p))
  BY DEF StatusStep
<1>2. orders[o] \in Rows /\ history[o] \in Seq(Entries)
  BY DEF StatusStep, IInv, TypeOK
<1> DEFINE e == StatusEntry(orders[o], to, u, p)
<1>3. /\ e \in Entries /\ e.from = orders[o].status /\ e.to = to /\ e.by = u
      /\ to = "delivery_failed" => e.attempt = orders[o].attempts + 1
  BY <1>2, EntryType DEF StatusEntry, Entry
<1>4. \A s : Entered(o, s)' <=> Entered(o, s) \/ s = to
  BY <1>1, <1>2, <1>3, EnteredGrows
<1>5. /\ orders'[o].status = to
      /\ orders'[o].client = orders[o].client /\ orders'[o].vendor = orders[o].vendor
      /\ orders'[o].sale = orders[o].sale /\ orders'[o].total = orders[o].total
      /\ orders'[o].original = orders[o].original
      /\ orders'[o].accepted = orders[o].accepted
      /\ orders'[o].attempts = IF to = "delivery_failed" THEN orders[o].attempts + 1
                                                         ELSE orders[o].attempts
      /\ orders'[o].confirmed <=> orders[o].confirmed \/ to = "confirmed"
      /\ orders'[o].delivered <=> orders[o].delivered \/ to = "delivered_to_client"
      /\ orders'[o].cancelled <=> orders[o].cancelled \/ to = "cancelled"
  BY <1>1, <1>2 DEF StatusRow, Rows
<1> HIDE DEF e
<1> QED BY <1>1, <1>3, <1>4, <1>5 DEF e

LEMMA MarkEffect ==
  ASSUME IInv, NEW o, MarkStep(o)
  PROVE  /\ o \in DOMAIN orders /\ orders[o] \in Rows
         /\ orders[o].status = "pending" /\ orders'[o].status = "partially_available"
         /\ orders'[o].total = LineSum(lines[o], AvailableLines(lines[o], cancelled[o]))
         /\ orders'[o].original = orders[o].total
         /\ orders'[o].client = orders[o].client /\ orders'[o].vendor = orders[o].vendor
         /\ orders'[o].sale = orders[o].sale
         /\ orders'[o].accepted = orders[o].accepted
         /\ orders'[o].attempts = orders[o].attempts
         /\ orders'[o].confirmed = orders[o].confirmed
         /\ orders'[o].delivered = orders[o].delivered
         /\ orders'[o].cancelled = orders[o].cancelled
         /\ lines'[o] = lines[o]
         /\ \E u \in Admins, e \in Entries :
              /\ history'[o] = Append(history[o], e)
              /\ e.from = "pending" /\ e.to = "partially_available" /\ e.by = u
         /\ \A s : Entered(o, s)' <=> Entered(o, s) \/ s = "partially_available"
<1>1. o \in DOMAIN orders /\ orders[o] \in Rows /\ history[o] \in Seq(Entries)
  BY DEF MarkStep, IInv, TypeOK
<1>2. PICK u \in Admins : history'[o] =
        Append(history[o], Entry("pending", "partially_available", u, 0, NoPerson))
  BY DEF MarkStep
<1> DEFINE e == Entry("pending", "partially_available", u, 0, NoPerson)
<1>3. e \in Entries /\ e.from = "pending" /\ e.to = "partially_available" /\ e.by = u
  BY PlainEntry DEF Statuses, Users
<1>4. history'[o] = Append(history[o], e)
  BY <1>2
<1> HIDE DEF e
<1>5. \A s : Entered(o, s)' <=> Entered(o, s) \/ s = "partially_available"
  BY <1>1, <1>3, <1>4, EnteredGrows
<1>6. orders'[o] = MarkRow(orders[o], lines[o], AvailableLines(lines[o], cancelled[o]))
  BY DEF MarkStep
<1> QED BY <1>1, <1>3, <1>4, <1>5, <1>6 DEF MarkStep, MarkRow, Rows

LEMMA AcceptEffect ==
  ASSUME IInv, NEW o, AcceptStep(o)
  PROVE  /\ o \in DOMAIN orders /\ orders[o] \in Rows
         /\ orders[o].status = "partially_available" /\ orders'[o].status = "confirmed"
         /\ orders'[o].total = LineSum(lines[o], AvailableLines(lines[o], cancelled[o]))
         /\ orders'[o].original = orders[o].original
         /\ orders'[o].client = orders[o].client /\ orders'[o].vendor = orders[o].vendor
         /\ orders'[o].sale = orders[o].sale
         /\ orders'[o].accepted /\ orders'[o].confirmed
         /\ orders'[o].attempts = orders[o].attempts
         /\ orders'[o].delivered = orders[o].delivered
         /\ orders'[o].cancelled = orders[o].cancelled
         /\ lines'[o] = lines[o] /\ cancelled'[o] = cancelled[o]
         /\ \E e \in Entries :
              /\ history'[o] = Append(history[o], e)
              /\ e.from = "partially_available" /\ e.to = "confirmed"
         /\ \A s : Entered(o, s)' <=> Entered(o, s) \/ s = "confirmed"
<1>1. o \in DOMAIN orders /\ orders[o] \in Rows /\ history[o] \in Seq(Entries)
  BY DEF AcceptStep, IInv, TypeOK
<1>2. PICK u \in Users : history'[o] =
        Append(history[o], Entry("partially_available", "confirmed", u, 0, NoPerson))
  BY DEF AcceptStep
<1> DEFINE e == Entry("partially_available", "confirmed", u, 0, NoPerson)
<1>3. e \in Entries /\ e.from = "partially_available" /\ e.to = "confirmed"
  BY PlainEntry DEF Statuses
<1>4. history'[o] = Append(history[o], e)
  BY <1>2
<1> HIDE DEF e
<1>5. \A s : Entered(o, s)' <=> Entered(o, s) \/ s = "confirmed"
  BY <1>1, <1>3, <1>4, EnteredGrows
<1>6. orders'[o] = AcceptRow(orders[o], lines[o], AvailableLines(lines[o], cancelled[o]))
  BY DEF AcceptStep
<1> QED BY <1>1, <1>3, <1>4, <1>5, <1>6 DEF AcceptStep, AcceptRow, Rows

LEMMA RejectEffect ==
  ASSUME IInv, NEW o, RejectStep(o)
  PROVE  /\ o \in DOMAIN orders /\ orders[o] \in Rows
         /\ orders[o].status = "partially_available" /\ orders'[o].status = "cancelled"
         /\ orders'[o].total = orders[o].total
         /\ orders'[o].original = orders[o].original
         /\ orders'[o].client = orders[o].client /\ orders'[o].vendor = orders[o].vendor
         /\ orders'[o].sale = orders[o].sale
         /\ orders'[o].accepted = orders[o].accepted
         /\ orders'[o].attempts = orders[o].attempts
         /\ orders'[o].confirmed = orders[o].confirmed
         /\ orders'[o].delivered = orders[o].delivered
         /\ orders'[o].cancelled
         /\ lines'[o] = lines[o] /\ cancelled'[o] = cancelled[o]
         /\ \E e \in Entries :
              /\ history'[o] = Append(history[o], e)
              /\ e.from = "partially_available" /\ e.to = "cancelled"
         /\ \A s : Entered(o, s)' <=> Entered(o, s) \/ s = "cancelled"
<1>1. o \in DOMAIN orders /\ orders[o] \in Rows /\ history[o] \in Seq(Entries)
  BY DEF RejectStep, IInv, TypeOK
<1>2. PICK u \in Users : history'[o] =
        Append(history[o], Entry("partially_available", "cancelled", u, 0, NoPerson))
  BY DEF RejectStep
<1> DEFINE e == Entry("partially_available", "cancelled", u, 0, NoPerson)
<1>3. e \in Entries /\ e.from = "partially_available" /\ e.to = "cancelled"
  BY PlainEntry DEF Statuses
<1>4. history'[o] = Append(history[o], e)
  BY <1>2
<1> HIDE DEF e
<1>5. \A s : Entered(o, s)' <=> Entered(o, s) \/ s = "cancelled"
  BY <1>1, <1>3, <1>4, EnteredGrows
<1>6. orders'[o] = RejectRow(orders[o])
  BY DEF RejectStep
<1> QED BY <1>1, <1>3, <1>4, <1>5, <1>6 DEF RejectStep, RejectRow, Rows

\* The entry a step adds to the history of an order, if it adds one, starts at
\* the status of the row and ends at the new one.
LEMMA HistoryGrows ==
  ASSUME IInv, [Next]_vars, NEW o \in DOMAIN orders'
  PROVE  \/ SameOrder(o)
         \/ NewOrder(o)
         \/ /\ o \in DOMAIN orders
            /\ \E e \in Entries :
                 /\ history'[o] = Append(history[o], e)
                 /\ e.from = orders[o].status
                 /\ e.to = orders'[o].status
                 /\ <<e.from, e.to>> \in VALID_TRANSITIONS
<1>1. CASE StatusStep(o)
  <2>1. PICK u \in Users, to \in Statuses, e \in Entries :
          /\ StatusAllowed(orders[o], to, Role(u))
          /\ orders'[o].status = to
          /\ history'[o] = Append(history[o], e)
          /\ e.from = orders[o].status /\ e.to = to
    BY <1>1, StatusEffect
  <2>2. o \in DOMAIN orders /\ <<e.from, e.to>> \in VALID_TRANSITIONS
    BY <1>1, <2>1 DEF StatusStep, StatusAllowed, ValidateTransition
  <2> QED BY <2>1, <2>2
<1>2. /\ <<"pending", "partially_available">> \in VALID_TRANSITIONS
      /\ <<"partially_available", "confirmed">> \in VALID_TRANSITIONS
      /\ <<"partially_available", "cancelled">> \in VALID_TRANSITIONS
  BY DEF VALID_TRANSITIONS
<1>3. CASE MarkStep(o)
  <2>1. PICK e \in Entries : /\ history'[o] = Append(history[o], e)
                             /\ e.from = "pending" /\ e.to = "partially_available"
    BY <1>3, MarkEffect
  <2>2. /\ o \in DOMAIN orders
        /\ orders[o].status = "pending" /\ orders'[o].status = "partially_available"
    BY <1>3, MarkEffect
  <2> QED BY <1>2, <2>1, <2>2
<1>4. CASE AcceptStep(o)
  <2>1. PICK e \in Entries : /\ history'[o] = Append(history[o], e)
                             /\ e.from = "partially_available" /\ e.to = "confirmed"
    BY <1>4, AcceptEffect
  <2>2. /\ o \in DOMAIN orders
        /\ orders[o].status = "partially_available" /\ orders'[o].status = "confirmed"
    BY <1>4, AcceptEffect
  <2> QED BY <1>2, <2>1, <2>2
<1>5. CASE RejectStep(o)
  <2>1. PICK e \in Entries : /\ history'[o] = Append(history[o], e)
                             /\ e.from = "partially_available" /\ e.to = "cancelled"
    BY <1>5, RejectEffect
  <2>2. /\ o \in DOMAIN orders
        /\ orders[o].status = "partially_available" /\ orders'[o].status = "cancelled"
    BY <1>5, RejectEffect
  <2> QED BY <1>2, <2>1, <2>2
<1> QED BY <1>1, <1>3, <1>4, <1>5, StepOfOneOrder DEF IInv, OrderStep

-----------------------------------------------------------------------------
(* The invariants, one lemma each.                                         *)

LEMMA HistoryIsPathStep ==
  ASSUME IInv, [Next]_vars
  PROVE  HistoryIsPath'
<1> SUFFICES ASSUME NEW o \in DOMAIN orders'
    PROVE /\ history'[o] # <<>>
          /\ history'[o][1] = CreationEntry
          /\ \A i \in 2..Len(history'[o]) :
               /\ history'[o][i].from = history'[o][i - 1].to
               /\ <<history'[o][i].from, history'[o][i].to>> \in VALID_TRANSITIONS
          /\ history'[o][Len(history'[o])].to = orders'[o].status
  BY DEF HistoryIsPath
<1>1. CASE SameOrder(o)
  BY <1>1 DEF SameOrder, IInv, HistoryIsPath
<1>2. CASE NewOrder(o)
  BY <1>2 DEF NewOrder, NewRow, CreationEntry, Entry
<1>3. ASSUME o \in DOMAIN orders,
             NEW e \in Entries, history'[o] = Append(history[o], e),
             e.from = orders[o].status, e.to = orders'[o].status,
             <<e.from, e.to>> \in VALID_TRANSITIONS
      PROVE /\ history'[o] # <<>>
            /\ history'[o][1] = CreationEntry
            /\ \A i \in 2..Len(history'[o]) :
                 /\ history'[o][i].from = history'[o][i - 1].to
                 /\ <<history'[o][i].from, history'[o][i].to>> \in VALID_TRANSITIONS
            /\ history'[o][Len(history'[o])].to = orders'[o].status
  <2> DEFINE h == history[o]
  <2>1. /\ h \in Seq(Entries) /\ h # <<>> /\ h[1] = CreationEntry
        /\ h[Len(h)].to = orders[o].status
        /\ \A i \in 2..Len(h) : /\ h[i].from = h[i - 1].to
                                /\ <<h[i].from, h[i].to>> \in VALID_TRANSITIONS
    BY <1>3 DEF IInv, TypeOK, HistoryIsPath
  <2>2. /\ Len(history'[o]) = Len(h) + 1 /\ Len(h) \in Nat \ {0}
        /\ \A i \in 1..Len(h) : history'[o][i] = h[i]
        /\ history'[o][Len(h) + 1] = e
    BY <1>3, <2>1
  <2> HIDE DEF h
  <2>3. \A i \in 2..Len(history'[o]) :
          /\ history'[o][i].from = history'[o][i - 1].to
          /\ <<history'[o][i].from, history'[o][i].to>> \in VALID_TRANSITIONS
    <3> TAKE i \in 2..Len(history'[o])
    <3>1. CASE i = Len(h) + 1
      <4>1. i - 1 = Len(h) /\ i - 1 \in 1..Len(h)
        BY <2>2, <3>1
      <4>2. history'[o][i - 1] = h[Len(h)] /\ history'[o][i] = e
        BY <2>2, <3>1, <4>1
      <4> QED BY <1>3, <2>1, <4>2
    <3>2. CASE i \in 2..Len(h)
      <4>1. i \in 1..Len(h) /\ i - 1 \in 1..Len(h)
        BY <2>2, <3>2
      <4> QED BY <2>1, <2>2, <3>2, <4>1
    <3> QED BY <2>2, <3>1, <3>2
  <2> QED BY <1>3, <2>1, <2>2, <2>3
<1> QED BY <1>1, <1>2, <1>3, HistoryGrows

LEMMA StageAgreesStep ==
  ASSUME IInv, [Next]_vars
  PROVE  StageAgrees'
<1> DEFINE Good(row, cancel) ==
      /\ row.status = "pending" => cancel = {} /\ row.original = NoTotal
      /\ row.accepted => row.status \notin {"pending", "partially_available"}
      /\ row.sale = SaleType(row.client)
<1> SUFFICES ASSUME NEW o \in DOMAIN orders' PROVE Good(orders'[o], cancelled'[o])
  BY DEF StageAgrees
<1>1. o \in DOMAIN orders => Good(orders[o], cancelled[o])
  BY DEF IInv, StageAgrees
<1>2. CASE SameOrder(o)
  BY <1>1, <1>2 DEF SameOrder
<1>3. CASE NewOrder(o)
  BY <1>3, NewEffect
<1>4. CASE StatusStep(o)
  <2>1. PICK u \in Users, to \in Statuses :
          /\ StatusAllowed(orders[o], to, Role(u))
          /\ orders'[o].status = to
          /\ orders'[o].client = orders[o].client /\ orders'[o].sale = orders[o].sale
          /\ orders'[o].accepted = orders[o].accepted
    BY <1>4, StatusEffect
  <2>2. /\ to # "pending"
        /\ to = "partially_available" => orders[o].status = "pending"
    BY <2>1 DEF StatusAllowed, ValidateTransition, VALID_TRANSITIONS
  <2> QED BY <1>1, <1>4, <2>1, <2>2 DEF StatusStep
<1>5. CASE MarkStep(o)
  BY <1>1, <1>5, MarkEffect
<1>6. CASE AcceptStep(o)
  BY <1>1, <1>6, AcceptEffect
<1>7. CASE RejectStep(o)
  BY <1>1, <1>7, RejectEffect
<1> QED BY <1>2, <1>3, <1>4, <1>5, <1>6, <1>7, StepOfOneOrder DEF IInv, OrderStep

LEMMA TotalChargedStep ==
  ASSUME IInv, [Next]_vars
  PROVE  TotalCharged'
<1> DEFINE Good(row, ls, cancel) ==
      row.total = LineSum(ls, IF row.accepted THEN DOMAIN ls \ cancel ELSE DOMAIN ls)
<1> SUFFICES ASSUME NEW o \in DOMAIN orders'
    PROVE Good(orders'[o], lines'[o], cancelled'[o])
  BY DEF TotalCharged
<1>1. o \in DOMAIN orders =>
        /\ Good(orders[o], lines[o], cancelled[o])
        /\ orders[o].status = "pending" => cancelled[o] = {}
        /\ orders[o].accepted => orders[o].status \notin {"pending", "partially_available"}
  BY DEF IInv, StageAgrees, TotalCharged
<1>2. CASE SameOrder(o)
  BY <1>1, <1>2 DEF SameOrder
<1>3. CASE NewOrder(o)
  BY <1>3, NewEffect
<1>4. CASE StatusStep(o)
  <2>1. orders'[o].total = orders[o].total /\ orders'[o].accepted = orders[o].accepted
    BY <1>4, StatusEffect
  <2> QED BY <1>1, <1>4, <2>1 DEF StatusStep
<1>5. CASE MarkStep(o)
  <2>1. /\ o \in DOMAIN orders /\ lines'[o] = lines[o]
        /\ orders[o].status = "pending" /\ orders'[o].accepted = orders[o].accepted
        /\ orders'[o].total = LineSum(lines[o], AvailableLines(lines[o], cancelled[o]))
    BY <1>5, MarkEffect
  <2>2. AvailableLines(lines[o], cancelled[o]) = DOMAIN lines[o]
    BY <1>1, <2>1 DEF AvailableLines
  <2>3. orders[o].accepted = FALSE
    BY <1>1, <2>1 DEF IInv, TypeOK, Rows
  <2> QED BY <2>1, <2>2, <2>3
<1>6. CASE AcceptStep(o)
  <2>1. /\ orders'[o].total = LineSum(lines[o], AvailableLines(lines[o], cancelled[o]))
        /\ orders'[o].accepted
        /\ lines'[o] = lines[o] /\ cancelled'[o] = cancelled[o]
    BY <1>6, AcceptEffect
  <2>2. AvailableLines(lines[o], cancelled[o]) = DOMAIN lines[o] \ cancelled[o]
    BY DEF AvailableLines
  <2> QED BY <2>1, <2>2
<1>7. CASE RejectStep(o)
  <2>1. /\ o \in DOMAIN orders
        /\ orders'[o].total = orders[o].total /\ orders'[o].accepted = orders[o].accepted
        /\ lines'[o] = lines[o] /\ cancelled'[o] = cancelled[o]
    BY <1>7, RejectEffect
  <2> QED BY <1>1, <2>1
<1> QED BY <1>2, <1>3, <1>4, <1>5, <1>6, <1>7, StepOfOneOrder DEF IInv, OrderStep

LEMMA MarkedOnceStep ==
  ASSUME IInv, [Next]_vars
  PROVE  MarkedOnce'
<1> DEFINE P == "partially_available"
           Kept(row, ls) == row.original = LineSum(ls, DOMAIN ls)
<1> SUFFICES ASSUME NEW o \in DOMAIN orders'
    PROVE /\ cancelled'[o] # {} => orders'[o].original # NoTotal
          /\ orders'[o].original # NoTotal =>
               Kept(orders'[o], lines'[o]) /\ Entered(o, P)'
  BY DEF MarkedOnce
<1>1. o \in DOMAIN orders =>
        /\ cancelled[o] # {} => orders[o].original # NoTotal
        /\ orders[o].original # NoTotal => Kept(orders[o], lines[o]) /\ Entered(o, P)
  BY DEF IInv, MarkedOnce
<1>2. CASE SameOrder(o)
  BY <1>1, <1>2 DEF SameOrder, Entered
<1>3. CASE NewOrder(o)
  BY <1>3, NewEffect
<1>4. CASE StatusStep(o)
  <2>1. orders'[o].original = orders[o].original /\ (Entered(o, P) => Entered(o, P)')
    BY <1>4, StatusEffect
  <2> QED BY <1>1, <1>4, <2>1 DEF StatusStep
<1>5. CASE MarkStep(o)
  <2>1. /\ o \in DOMAIN orders /\ lines'[o] = lines[o] /\ Entered(o, P)'
        /\ orders[o].status = "pending" /\ orders'[o].original = orders[o].total
    BY <1>5, MarkEffect
  <2>2. orders[o].accepted = FALSE
    BY <2>1 DEF IInv, TypeOK, Rows, StageAgrees
  <2>3. orders[o].total = LineSum(lines[o], DOMAIN lines[o])
    BY <2>1, <2>2 DEF IInv, TotalCharged
  <2>4. orders[o].total # NoTotal
    BY <2>1, NoTotalAssumption DEF IInv, TypeOK, Rows
  <2> QED BY <2>1, <2>3, <2>4
<1>6. CASE AcceptStep(o)
  <2>1. /\ o \in DOMAIN orders /\ orders'[o].original = orders[o].original
        /\ lines'[o] = lines[o] /\ cancelled'[o] = cancelled[o]
        /\ Entered(o, P) => Entered(o, P)'
    BY <1>6, AcceptEffect
  <2> QED BY <1>1, <2>1
<1>7. CASE RejectStep(o)
  <2>1. /\ o \in DOMAIN orders /\ orders'[o].original = orders[o].original
        /\ lines'[o] = lines[o] /\ cancelled'[o] = cancelled[o]
        /\ Entered(o, P) => Entered(o, P)'
    BY <1>7, RejectEffect
  <2> QED BY <1>1, <2>1
<1> QED BY <1>2, <1>3, <1>4, <1>5, <1>6, <1>7, StepOfOneOrder DEF IInv, OrderStep

\* The status of the row is in the history, because the history ends there.
LEMMA StatusEntered ==
  ASSUME IInv, NEW o \in DOMAIN orders
  PROVE  Entered(o, orders[o].status)
<1>1. /\ history[o] \in Seq(Entries) /\ history[o] # <<>>
      /\ history[o][Len(history[o])].to = orders[o].status
  BY DEF IInv, TypeOK, HistoryIsPath
<1>2. Len(history[o]) \in DOMAIN history[o]
  BY <1>1
<1> QED BY <1>1, <1>2 DEF Entered

LEMMA DatesAgreeStep ==
  ASSUME IInv, [Next]_vars
  PROVE  DatesAgree'
<1> DEFINE C == "confirmed"
           P == "partially_available"
           Ended(row) == /\ row.delivered <=> row.status = "delivered_to_client"
                         /\ row.cancelled <=> row.status = "cancelled"
<1> SUFFICES ASSUME NEW o \in DOMAIN orders'
    PROVE /\ orders'[o].confirmed <=> Entered(o, C)'
          /\ Ended(orders'[o])
          /\ orders'[o].accepted => orders'[o].confirmed /\ Entered(o, P)'
  BY DEF DatesAgree
<1>1. o \in DOMAIN orders =>
        /\ orders[o].confirmed <=> Entered(o, C)
        /\ Ended(orders[o])
        /\ orders[o].accepted => orders[o].confirmed /\ Entered(o, P)
  BY DEF IInv, DatesAgree
<1>2. CASE SameOrder(o)
  BY <1>1, <1>2 DEF SameOrder, Entered
<1>3. CASE NewOrder(o)
  BY <1>3, NewEffect
<1>4. CASE StatusStep(o)
  <2>1. PICK u \in Users, to \in Statuses :
          /\ StatusAllowed(orders[o], to, Role(u))
          /\ orders'[o].status = to
          /\ orders'[o].accepted = orders[o].accepted
          /\ orders'[o].confirmed <=> orders[o].confirmed \/ to = C
          /\ orders'[o].delivered <=> orders[o].delivered \/ to = "delivered_to_client"
          /\ orders'[o].cancelled <=> orders[o].cancelled \/ to = "cancelled"
          /\ \A s : Entered(o, s)' <=> Entered(o, s) \/ s = to
    BY <1>4, StatusEffect
  <2>2. orders[o].status \notin {"delivered_to_client", "cancelled"}
    BY <2>1 DEF StatusAllowed, FINAL_STATES
  <2>3. /\ Entered(o, C)' <=> Entered(o, C) \/ to = C
        /\ Entered(o, P) => Entered(o, P)'
    BY <2>1
  <2> QED BY <1>1, <1>4, <2>1, <2>2, <2>3 DEF StatusStep
<1>5. CASE MarkStep(o)
  BY <1>1, <1>5, MarkEffect
<1>6. CASE AcceptStep(o)
  <2>1. Entered(o, P)
    BY <1>6, StatusEntered, AcceptEffect
  <2> QED BY <1>1, <1>6, <2>1, AcceptEffect
<1>7. CASE RejectStep(o)
  BY <1>1, <1>7, RejectEffect
<1> QED BY <1>2, <1>3, <1>4, <1>5, <1>6, <1>7, StepOfOneOrder DEF IInv, OrderStep

LEMMA WholesaleGoesDirectStep ==
  ASSUME IInv, [Next]_vars
  PROVE  WholesaleGoesDirect'
<1> DEFINE V == "delivered_to_vendor"
<1> SUFFICES ASSUME NEW o \in DOMAIN orders', orders'[o].sale = "wholesale"
    PROVE orders'[o].vendor = NoVendor /\ ~Entered(o, V)'
  BY DEF WholesaleGoesDirect
<1>1. o \in DOMAIN orders /\ orders[o].sale = "wholesale" =>
        orders[o].vendor = NoVendor /\ ~Entered(o, V)
  BY DEF IInv, WholesaleGoesDirect
<1>2. CASE SameOrder(o)
  BY <1>1, <1>2 DEF SameOrder, Entered
<1>3. CASE NewOrder(o)
  BY <1>3, NewEffect, UsersAssumption DEF SaleType
<1>4. CASE StatusStep(o)
  <2>1. PICK u \in Users, to \in Statuses :
          /\ StatusAllowed(orders[o], to, Role(u))
          /\ orders'[o].vendor = orders[o].vendor /\ orders'[o].sale = orders[o].sale
          /\ \A s : Entered(o, s)' <=> Entered(o, s) \/ s = to
    BY <1>4, StatusEffect
  <2>2. to # V
    BY <2>1 DEF StatusAllowed
  <2> QED BY <1>1, <1>4, <2>1, <2>2 DEF StatusStep
<1>5. CASE MarkStep(o)
  BY <1>1, <1>5, MarkEffect
<1>6. CASE AcceptStep(o)
  BY <1>1, <1>6, AcceptEffect
<1>7. CASE RejectStep(o)
  BY <1>1, <1>7, RejectEffect
<1> QED BY <1>2, <1>3, <1>4, <1>5, <1>6, <1>7, StepOfOneOrder DEF IInv, OrderStep

\* The positions of the entries that lead to a status.
Positions(h, s) == {i \in DOMAIN h : h[i].to = s}

\* Appending an entry adds its position to the positions of a status, or adds
\* nothing; the positions of the entries before it stay where they are.
LEMMA PositionsGrow ==
  ASSUME NEW h \in Seq(Entries), NEW e \in Entries, NEW s
  PROVE  LET F == Positions(h, s)
             G == Positions(Append(h, e), s) IN
         /\ F \subseteq 1..Len(h) /\ IsFiniteSet(F)
         /\ e.to # s => G = F
         /\ e.to = s => /\ G = F \cup {Len(h) + 1}
                        /\ IsFiniteSet(G) /\ Cardinality(G) = Cardinality(F) + 1
         /\ \A i \in F : {j \in G : j <= i} = {j \in F : j <= i}
<1> DEFINE F == Positions(h, s)
           G == Positions(Append(h, e), s)
<1>1. /\ Len(h) \in Nat /\ DOMAIN h = 1..Len(h)
      /\ DOMAIN Append(h, e) = 1..(Len(h) + 1)
      /\ \A i \in 1..Len(h) : Append(h, e)[i] = h[i]
      /\ Append(h, e)[Len(h) + 1] = e
  OBVIOUS
<1>2. F \subseteq 1..Len(h) /\ IsFiniteSet(F)
  <2>1. F \subseteq 1..Len(h)
    BY <1>1 DEF Positions
  <2>2. IsFiniteSet(1..Len(h))
    BY <1>1, FS_Interval
  <2> QED BY <2>1, <2>2, FS_Subset
<1>3. e.to # s => G = F
  BY <1>1 DEF Positions
<1>4. e.to = s => G = F \cup {Len(h) + 1}
  BY <1>1 DEF Positions
<1>5. Len(h) + 1 \notin F
  BY <1>1, <1>2
<1> HIDE DEF F, G
<1>6. \A i \in F : {j \in G : j <= i} = {j \in F : j <= i}
  BY <1>1, <1>2, <1>3, <1>4
<1>7. /\ IsFiniteSet(F \cup {Len(h) + 1})
      /\ Cardinality(F \cup {Len(h) + 1}) = Cardinality(F) + 1
  BY <1>2, <1>5, FS_AddElement
<1> QED BY <1>2, <1>3, <1>4, <1>6, <1>7, Zenon DEF F, G

LEMMA AttemptsNumberedStep ==
  ASSUME IInv, [Next]_vars
  PROVE  AttemptsNumbered'
<1> DEFINE D == "delivery_failed"
           F(h) == Positions(h, D)
           Good(row, h) ==
             /\ Cardinality(F(h)) = row.attempts
             /\ \A i \in F(h) : h[i].attempt = Cardinality({j \in F(h) : j <= i})
<1> SUFFICES ASSUME NEW o \in DOMAIN orders' PROVE Good(orders'[o], history'[o])
  BY DEF AttemptsNumbered, Positions
<1>1. o \in DOMAIN orders =>
        /\ Good(orders[o], history[o])
        /\ history[o] \in Seq(Entries) /\ orders[o].attempts \in Nat
  BY DEF IInv, TypeOK, AttemptsNumbered, Positions, Rows
<1>2. ASSUME o \in DOMAIN orders, NEW e \in Entries, history'[o] = Append(history[o], e),
             e.to # D, orders'[o].attempts = orders[o].attempts
      PROVE Good(orders'[o], history'[o])
  <2> DEFINE h == history[o]
             g == history'[o]
  <2>1. /\ F(g) = F(h) /\ F(h) \subseteq 1..Len(h)
        /\ \A i \in F(h) : {j \in F(g) : j <= i} = {j \in F(h) : j <= i}
    BY <1>1, <1>2, PositionsGrow
  <2>2. \A i \in F(h) : g[i] = h[i]
    BY <1>1, <1>2, <2>1
  <2> HIDE DEF F, h, g
  <2> QED BY <1>1, <1>2, <2>1, <2>2 DEF h, g
<1>3. CASE SameOrder(o)
  BY <1>1, <1>3 DEF SameOrder
<1>4. CASE NewOrder(o)
  <2>1. history'[o] = <<CreationEntry>> /\ orders'[o].attempts = 0
    BY <1>4, NewEffect
  <2>2. F(history'[o]) = {}
    BY <2>1 DEF CreationEntry, Entry, Positions
  <2> HIDE DEF F
  <2> QED BY <2>1, <2>2, FS_EmptySet
<1>5. CASE StatusStep(o)
  <2>1. PICK u \in Users, to \in Statuses, e \in Entries :
          /\ orders'[o].attempts = IF to = D THEN orders[o].attempts + 1
                                             ELSE orders[o].attempts
          /\ history'[o] = Append(history[o], e) /\ e.to = to
          /\ to = D => e.attempt = orders[o].attempts + 1
    BY <1>5, StatusEffect
  <2>2. o \in DOMAIN orders
    BY <1>5 DEF StatusStep
  <2>3. CASE to # D
    BY <1>2, <2>1, <2>2, <2>3
  <2>4. CASE to = D
    <3> DEFINE h == history[o]
               g == history'[o]
    <3>1. /\ F(h) \subseteq 1..Len(h) /\ IsFiniteSet(F(h))
          /\ F(g) = F(h) \cup {Len(h) + 1}
          /\ Cardinality(F(g)) = Cardinality(F(h)) + 1
          /\ \A i \in F(h) : {j \in F(g) : j <= i} = {j \in F(h) : j <= i}
      <4>1. h \in Seq(Entries) /\ e \in Entries /\ e.to = D /\ g = Append(h, e)
        BY <1>1, <2>1, <2>2, <2>4
      <4> HIDE DEF h, g
      <4> QED BY <4>1, PositionsGrow
    <3>2. /\ \A i \in F(h) : g[i] = h[i]
          /\ g[Len(h) + 1] = e /\ Len(h) \in Nat
      BY <1>1, <2>1, <2>2, <3>1
    <3>3. {j \in F(g) : j <= Len(h) + 1} = F(g)
      BY <3>1, <3>2
    <3> HIDE DEF F, h, g
    <3> QED BY <1>1, <2>1, <2>2, <2>4, <3>1, <3>2, <3>3 DEF h, g
  <2> QED BY <2>3, <2>4
<1>6. CASE MarkStep(o)
  <2>1. PICK e \in Entries :
          history'[o] = Append(history[o], e) /\ e.to = "partially_available"
    BY <1>6, MarkEffect
  <2>2. o \in DOMAIN orders /\ orders'[o].attempts = orders[o].attempts
    BY <1>6, MarkEffect
  <2> QED BY <1>2, <2>1, <2>2
<1>7. CASE AcceptStep(o)
  <2>1. PICK e \in Entries : history'[o] = Append(history[o], e) /\ e.to = "confirmed"
    BY <1>7, AcceptEffect
  <2>2. o \in DOMAIN orders /\ orders'[o].attempts = orders[o].attempts
    BY <1>7, AcceptEffect
  <2> QED BY <1>2, <2>1, <2>2
<1>8. CASE RejectStep(o)
  <2>1. PICK e \in Entries : history'[o] = Append(history[o], e) /\ e.to = "cancelled"
    BY <1>8, RejectEffect
  <2>2. o \in DOMAIN orders /\ orders'[o].attempts = orders[o].attempts
    BY <1>8, RejectEffect
  <2> QED BY <1>2, <2>1, <2>2
<1> QED BY <1>3, <1>4, <1>5, <1>6, <1>7, <1>8, StepOfOneOrder DEF IInv, OrderStep

LEMMA RetailNeedsAdminStep ==
  ASSUME IInv, [Next]_vars
  PROVE  RetailNeedsAdmin'
<1> DEFINE Seen(h) == \E i \in DOMAIN h : h[i].by \in Admins
           Early == {"pending", "cancelled"}
<1> SUFFICES ASSUME NEW o \in DOMAIN orders', orders'[o].sale = "retail",
                    orders'[o].status \notin Early
    PROVE Seen(history'[o])
  BY DEF RetailNeedsAdmin
<1>1. o \in DOMAIN orders /\ orders[o].sale = "retail" /\ orders[o].status \notin Early =>
        Seen(history[o])
  BY DEF IInv, RetailNeedsAdmin
<1>2. ASSUME o \in DOMAIN orders, NEW e \in Entries, history'[o] = Append(history[o], e),
             Seen(history[o]) \/ e.by \in Admins
      PROVE Seen(history'[o])
  <2>1. history[o] \in Seq(Entries)
    BY <1>2 DEF IInv, TypeOK
  <2>2. /\ DOMAIN history[o] = 1..Len(history[o]) /\ Len(history[o]) \in Nat
        /\ DOMAIN history'[o] = 1..(Len(history[o]) + 1)
        /\ \A i \in 1..Len(history[o]) : history'[o][i] = history[o][i]
        /\ history'[o][Len(history[o]) + 1] = e
    BY <1>2, <2>1
  <2> QED BY <1>2, <2>2
<1>3. CASE SameOrder(o)
  BY <1>1, <1>3 DEF SameOrder
<1>4. CASE NewOrder(o)
  BY <1>4, NewEffect
<1>5. CASE StatusStep(o)
  <2>1. PICK u \in Users, to \in Statuses, e \in Entries :
          /\ MayAccess(u, orders[o]) /\ StatusAllowed(orders[o], to, Role(u))
          /\ orders'[o].status = to /\ orders'[o].sale = orders[o].sale
          /\ history'[o] = Append(history[o], e) /\ e.by = u
    BY <1>5, StatusEffect
  <2>2. o \in DOMAIN orders
    BY <1>5 DEF StatusStep
  <2>3. CASE orders[o].status \notin Early
    BY <1>1, <1>2, <2>1, <2>2, <2>3
  <2>4. CASE orders[o].status \in Early
    <3>1. orders[o].status = "pending" /\ <<"pending", to>> \in VALID_TRANSITIONS
      BY <2>1, <2>4 DEF StatusAllowed, FINAL_STATES, ValidateTransition
    <3>2. orders[o].client \notin Wholesalers
      BY <2>1, <2>2 DEF IInv, StageAgrees, SaleType
    <3>3. u \notin Wholesalers
      BY <2>1, <3>2, UsersAssumption DEF MayAccess
    <3>4. u \notin Vendors
      <4>1. u \in Vendors => Role(u) = "vendor"
        BY UsersAssumption DEF Role
      <4> QED BY <2>1, <3>1, <4>1 DEF StatusAllowed, ValidateTransition, VENDOR_ALLOWED_FROM
    <3>5. u \notin Clients
      <4>1. u \in Clients => Role(u) = "client"
        BY UsersAssumption DEF Role
      <4> QED BY <2>1, <3>1, <4>1 DEF StatusAllowed, ValidateTransition, CLIENT_ALLOWED_FROM
    <3>6. u \in Admins
      BY <3>3, <3>4, <3>5 DEF Users
    <3> QED BY <1>2, <2>1, <2>2, <3>6
  <2> QED BY <2>3, <2>4
<1>6. CASE MarkStep(o)
  <2>1. PICK u \in Admins, e \in Entries : history'[o] = Append(history[o], e) /\ e.by = u
    BY <1>6, MarkEffect
  <2>2. o \in DOMAIN orders
    BY <1>6, MarkEffect
  <2> QED BY <1>2, <2>1, <2>2
<1>7. CASE AcceptStep(o)
  <2>1. PICK e \in Entries : history'[o] = Append(history[o], e)
    BY <1>7, AcceptEffect
  <2>2. /\ o \in DOMAIN orders /\ orders[o].status = "partially_available"
        /\ orders'[o].sale = orders[o].sale
    BY <1>7, AcceptEffect
  <2> QED BY <1>1, <1>2, <2>1, <2>2
<1>8. CASE RejectStep(o)
  BY <1>8, RejectEffect
<1> QED BY <1>3, <1>4, <1>5, <1>6, <1>7, <1>8, StepOfOneOrder DEF IInv, OrderStep

-----------------------------------------------------------------------------
(* The theorems.                                                           *)

\* The inductive invariant.  TotalCharged is the part that is not inductive
\* alone: that marking leaves the total as it is needs StageAgrees, no line of
\* a pending order being cancelled and no pending order being accepted.
THEOREM Invariance == Spec => []IInv
<1>1. Init => IInv
  <2>1. Init => DOMAIN orders = {}
    BY DEF Init
  <2> QED BY <2>1, TypeInitially DEF IInv, StageAgrees, HistoryIsPath, AttemptsNumbered,
        TotalCharged, MarkedOnce, DatesAgree, WholesaleGoesDirect, RetailNeedsAdmin
<1>2. IInv /\ [Next]_vars => IInv'
  <2> SUFFICES ASSUME IInv, [Next]_vars PROVE IInv'
    OBVIOUS
  <2>1. TypeOK'
    BY TypePreserved DEF IInv
  <2> QED BY <2>1, StageAgreesStep, HistoryIsPathStep, AttemptsNumberedStep,
             TotalChargedStep, MarkedOnceStep, DatesAgreeStep,
             WholesaleGoesDirectStep, RetailNeedsAdminStep DEF IInv
<1> QED BY <1>1, <1>2, PTL DEF Spec

\* What an order charges, whatever users do and in whatever order they do it.
THEOREM TotalIsCharged == Spec => []TotalCharged
<1>1. IInv => TotalCharged
  BY DEF IInv
<1> QED BY <1>1, Invariance, PTL

\* The history of an order is a path of allowed transitions to its status.
THEOREM HistoryIsAlwaysPath == Spec => []HistoryIsPath
<1>1. IInv => HistoryIsPath
  BY DEF IInv
<1> QED BY <1>1, Invariance, PTL

\* The failed attempts of an order are counted and numbered without gaps.
THEOREM AttemptsAreNumbered == Spec => []AttemptsNumbered
<1>1. IInv => AttemptsNumbered
  BY DEF IInv
<1> QED BY <1>1, Invariance, PTL

\* No retail order is served that no admin has acted on.
THEOREM RetailIsServedByAdmin == Spec => []RetailNeedsAdmin
<1>1. IInv => RetailNeedsAdmin
  BY DEF IInv
<1> QED BY <1>1, Invariance, PTL

\* The date columns agree with the history.
THEOREM DatesAlwaysAgree == Spec => []DatesAgree
<1>1. IInv => DatesAgree
  BY DEF IInv
<1> QED BY <1>1, Invariance, PTL

\* Nothing is reduced before the order is marked and nothing accepted before it is
\* offered (the handlers of orders/service.py).
THEOREM StagesAgree == Spec => []StageAgrees
<1>1. IInv => StageAgrees
  BY DEF IInv
<1> QED BY <1>1, Invariance, PTL

\* Lines are cancelled, and the original total kept, only on an order that
\* went through partially_available.
THEOREM ReducedOnlyWhenMarked == Spec => []MarkedOnce
<1>1. IInv => MarkedOnce
  BY DEF IInv
<1> QED BY <1>1, Invariance, PTL

\* A wholesale order never passes through a vendor's hands.
THEOREM WholesaleIsDirect == Spec => []WholesaleGoesDirect
<1>1. IInv => WholesaleGoesDirect
  BY DEF IInv
<1> QED BY <1>1, Invariance, PTL

\* A delivered or cancelled order is never changed again, by any request.
THEOREM FinalStaysFrozen == Spec => FinalIsFrozen
<1>1. IInv /\ [Next]_vars =>
        \A o \in DOMAIN orders : orders[o].status \in FINAL_STATES =>
          /\ orders'[o] = orders[o]
          /\ history'[o] = history[o]
          /\ cancelled'[o] = cancelled[o]
  <2> SUFFICES ASSUME IInv, [Next]_vars, NEW o \in DOMAIN orders,
                      orders[o].status \in FINAL_STATES
      PROVE SameOrder(o)
    BY DEF SameOrder
  <2>1. o \in DOMAIN orders'
    BY OrdersStay DEF IInv
  <2>2. ~StatusStep(o)
    BY DEF StatusStep, StatusAllowed
  <2>3. ~MarkStep(o) /\ ~AcceptStep(o) /\ ~RejectStep(o)
    BY DEF MarkStep, AcceptStep, RejectStep, FINAL_STATES
  <2>4. ~NewOrder(o)
    BY DEF NewOrder
  <2> QED BY <2>1, <2>2, <2>3, <2>4, StepOfOneOrder DEF IInv, OrderStep
<1>2. IInv /\ [Next]_vars => [\A o \in DOMAIN orders : orders[o].status \in FINAL_STATES =>
                               /\ orders'[o] = orders[o]
                               /\ history'[o] = history[o]
                               /\ cancelled'[o] = cancelled[o]]_vars
  BY <1>1
<1> QED BY <1>2, Invariance, PTL DEF Spec, FinalIsFrozen

-----------------------------------------------------------------------------
(* The reports.                                                             *)

\* The sum of some lines is a sum of the values of a function.
LEMMA LineSumIsSum ==
  ASSUME NEW ls, NEW S, IsFiniteSet(S)
  PROVE  LineSum(ls, S) = SumOf([i \in S |-> ls[i].subtotal], S)
<1> DEFINE f == [i \in S |-> ls[i].subtotal]
           Is(it) == it = [s \in SUBSET S |-> IF s = {} THEN 0
                             ELSE ls[Chosen(s)].subtotal + it[s \ {Chosen(s)}]]
<1>1. LineSum(ls, S) = (CHOOSE it : Is(it))[S]
  BY DEF LineSum, MapThenSumSet, MapThenFoldSet, Chosen
<1>2. \A it : Is(it) <=> Sums(f, S, it)
  BY ChosenIsElement DEF Sums
<1>3. Is(CHOOSE it : Is(it))
  <2> HIDE DEF Is, f
  <2> QED
    BY <1>2, SumsExist
<1> HIDE DEF Is, f
<1>4. LineSum(ls, S) = SumOf(f, S)
  BY <1>1, <1>2, <1>3, SumIs
<1> QED
  BY <1>4 DEF f

LEMMA LinesOfOrder ==
  ASSUME NEW ls \in LineLists
  PROVE  /\ IsFiniteSet(DOMAIN ls)
         /\ \A i \in DOMAIN ls : ls[i].subtotal \in Int
<1>1. PICK b \in Baskets, sale \in SaleTypes : ls = PricedLines(b, sale)
  BY DEF LineLists
<1>2. DOMAIN ls = DOMAIN b
  BY <1>1 DEF PricedLines
<1>3. PICK n \in 0..MaxLines : b \in [1..n -> Variants \X Quantities]
  BY DEF Baskets
<1>4. IsFiniteSet(DOMAIN ls)
  <2>1. n \in Int /\ DOMAIN ls = 1..n
    BY <1>2, <1>3, GoodsAssumption
  <2> QED
    BY <2>1, FS_Interval
<1>5. ASSUME NEW i \in DOMAIN ls
      PROVE  ls[i].subtotal \in Int
  <2>1. b[i][1] \in Variants /\ b[i][2] \in Int
    BY <1>2, <1>3, GoodsAssumption
  <2>2. UnitPrice(b[i][1], sale) \in Int
    BY <2>1, GoodsAssumption DEF UnitPrice
  <2>3. ls[i].subtotal = UnitPrice(b[i][1], sale) * b[i][2]
    BY <1>1, <1>2 DEF PricedLines
  <2> QED
    BY <2>1, <2>2, <2>3
<1> QED
  BY <1>4, <1>5

\* The lines marked unavailable and the others make up the order.
LEMMA LineSumSplits ==
  ASSUME NEW ls \in LineLists, NEW c \in SUBSET DOMAIN ls
  PROVE  /\ LineSum(ls, c) \in Int /\ LineSum(ls, DOMAIN ls \ c) \in Int
         /\ LineSum(ls, DOMAIN ls) = LineSum(ls, DOMAIN ls \ c) + LineSum(ls, c)
<1> DEFINE A == DOMAIN ls \ c
           f == [i \in DOMAIN ls |-> ls[i].subtotal]
<1>1. /\ IsFiniteSet(DOMAIN ls) /\ IsFiniteSet(A) /\ IsFiniteSet(c)
      /\ A \cap c = {} /\ A \cup c = DOMAIN ls
  BY LinesOfOrder, FS_Subset
<1>2. \A i \in DOMAIN ls : f[i] \in Int
  BY LinesOfOrder
<1>3. ASSUME NEW S \in SUBSET DOMAIN ls
      PROVE  LineSum(ls, S) = SumOf(f, S)
  <2> DEFINE g == [i \in S |-> ls[i].subtotal]
  <2>1. IsFiniteSet(S) /\ \A i \in S : g[i] = f[i]
    BY <1>1, FS_Subset
  <2>2. LineSum(ls, S) = SumOf(g, S)
    BY <2>1, LineSumIsSum
  <2> HIDE DEF f, g
  <2> QED
    BY <2>1, <2>2, SumOfSame
<1>4. /\ LineSum(ls, c) = SumOf(f, c) /\ LineSum(ls, A) = SumOf(f, A)
      /\ LineSum(ls, DOMAIN ls) = SumOf(f, DOMAIN ls)
  BY <1>3
<1> HIDE DEF f, A
<1>5. SumOf(f, DOMAIN ls) = SumOf(f, A) + SumOf(f, c)
  BY <1>1, <1>2, SumOfBoth
<1>6. SumOf(f, A) \in Int /\ SumOf(f, c) \in Int
  BY <1>1, <1>2, SumOfInts
<1> QED
  BY <1>4, <1>5, <1>6 DEF A

\* What the reports add up, over any set of orders.
GrossOf(S) == MapThenSumSet(ItemRevenue, S)

TotalsOf(S) == MapThenSumSet(LAMBDA o : orders[o].total, S)

UnavailableOf(S) == MapThenSumSet(LAMBDA o : LineSum(lines[o], cancelled[o]), S)

LEMMA GrossIsSum ==
  ASSUME NEW S, IsFiniteSet(S)
  PROVE  GrossOf(S) = SumOf([o \in S |-> ItemRevenue(o)], S)
<1> DEFINE f == [o \in S |-> ItemRevenue(o)]
           Is(it) == it = [s \in SUBSET S |-> IF s = {} THEN 0
                             ELSE ItemRevenue(Chosen(s)) + it[s \ {Chosen(s)}]]
<1>1. GrossOf(S) = (CHOOSE it : Is(it))[S]
  BY DEF GrossOf, MapThenSumSet, MapThenFoldSet, Chosen
<1>2. \A it : Is(it) <=> Sums(f, S, it)
  BY ChosenIsElement DEF Sums
<1>3. Is(CHOOSE it : Is(it))
  <2> HIDE DEF Is, f
  <2> QED
    BY <1>2, SumsExist
<1> HIDE DEF Is, f
<1>4. GrossOf(S) = SumOf(f, S)
  BY <1>1, <1>2, <1>3, SumIs
<1> QED
  BY <1>4 DEF f

LEMMA TotalsIsSum ==
  ASSUME NEW S, IsFiniteSet(S)
  PROVE  TotalsOf(S) = SumOf([o \in S |-> orders[o].total], S)
<1> DEFINE f == [o \in S |-> orders[o].total]
           Is(it) == it = [s \in SUBSET S |-> IF s = {} THEN 0
                             ELSE orders[Chosen(s)].total + it[s \ {Chosen(s)}]]
<1>1. TotalsOf(S) = (CHOOSE it : Is(it))[S]
  BY DEF TotalsOf, MapThenSumSet, MapThenFoldSet, Chosen
<1>2. \A it : Is(it) <=> Sums(f, S, it)
  BY ChosenIsElement DEF Sums
<1>3. Is(CHOOSE it : Is(it))
  <2> HIDE DEF Is, f
  <2> QED
    BY <1>2, SumsExist
<1> HIDE DEF Is, f
<1>4. TotalsOf(S) = SumOf(f, S)
  BY <1>1, <1>2, <1>3, SumIs
<1> QED
  BY <1>4 DEF f

LEMMA UnavailableIsSum ==
  ASSUME NEW S, IsFiniteSet(S)
  PROVE  UnavailableOf(S) = SumOf([o \in S |-> LineSum(lines[o], cancelled[o])], S)
<1> DEFINE f == [o \in S |-> LineSum(lines[o], cancelled[o])]
           Is(it) == it = [s \in SUBSET S |-> IF s = {} THEN 0
                             ELSE LineSum(lines[Chosen(s)], cancelled[Chosen(s)])
                                    + it[s \ {Chosen(s)}]]
<1>1. UnavailableOf(S) = (CHOOSE it : Is(it))[S]
  BY DEF UnavailableOf, MapThenSumSet, MapThenFoldSet, Chosen
<1>2. \A it : Is(it) <=> Sums(f, S, it)
  BY ChosenIsElement DEF Sums
<1>3. Is(CHOOSE it : Is(it))
  <2> HIDE DEF Is, f
  <2> QED
    BY <1>2, SumsExist
<1> HIDE DEF Is, f
<1>4. UnavailableOf(S) = SumOf(f, S)
  BY <1>1, <1>2, <1>3, SumIs
<1> QED
  BY <1>4 DEF f

\* What an order charges is what the report counts of it and, until the client has
\* accepted the reduced order, its lines that were marked unavailable.
LEMMA TotalOfOrder ==
  ASSUME TypeOK, TotalCharged, NEW o \in DOMAIN orders
  PROVE  /\ ItemRevenue(o) \in Int /\ LineSum(lines[o], cancelled[o]) \in Int
         /\ orders[o].total = ItemRevenue(o)
              + (IF orders[o].accepted THEN 0 ELSE LineSum(lines[o], cancelled[o]))
<1> DEFINE ls == lines[o]
           c == cancelled[o]
<1>1. ls \in LineLists /\ c \in SUBSET DOMAIN ls
  BY DEF TypeOK
<1>2. ItemRevenue(o) = LineSum(ls, DOMAIN ls \ c)
  BY DEF ItemRevenue, AvailableLines
<1>3. orders[o].total = LineSum(ls, IF orders[o].accepted THEN DOMAIN ls \ c ELSE DOMAIN ls)
  BY DEF TotalCharged
<1> HIDE DEF ls, c
<1>4. /\ LineSum(ls, c) \in Int /\ LineSum(ls, DOMAIN ls \ c) \in Int
      /\ LineSum(ls, DOMAIN ls) = LineSum(ls, DOMAIN ls \ c) + LineSum(ls, c)
  BY <1>1, LineSumSplits
<1>5. CASE orders[o].accepted
  BY <1>2, <1>3, <1>4, <1>5 DEF ls, c
<1>6. CASE ~orders[o].accepted
  BY <1>2, <1>3, <1>4, <1>6 DEF ls, c
<1> QED
  BY <1>5, <1>6

LEMMA PartsMakeWhole ==
  ASSUME TypeOK, TotalCharged
  PROVE  GrossRevenue = RetailRevenue + WholesaleRevenue
<1> DEFINE A == {o \in Delivered : orders[o].sale # "wholesale"}
           B == {o \in Delivered : orders[o].sale = "wholesale"}
           f == [o \in Delivered |-> ItemRevenue(o)]
<1>1. /\ IsFiniteSet(Delivered) /\ IsFiniteSet(A) /\ IsFiniteSet(B)
      /\ A \cap B = {} /\ A \cup B = Delivered
  <2>1. Delivered \subseteq DOMAIN orders /\ IsFiniteSet(DOMAIN orders)
    BY DEF Delivered, TypeOK
  <2>2. IsFiniteSet(Delivered)
    BY <2>1, FS_Subset
  <2> QED
    BY <2>2, FS_Subset
<1>2. \A o \in Delivered : f[o] \in Int
  BY TotalOfOrder DEF Delivered
<1>3. ASSUME NEW S \in SUBSET Delivered
      PROVE  GrossOf(S) = SumOf(f, S)
  <2> DEFINE g == [o \in S |-> ItemRevenue(o)]
  <2>1. IsFiniteSet(S) /\ \A o \in S : g[o] = f[o]
    BY <1>1, FS_Subset
  <2>2. GrossOf(S) = SumOf(g, S)
    BY <2>1, GrossIsSum
  <2> HIDE DEF f, g
  <2> QED
    BY <2>1, <2>2, SumOfSame
<1>4. GrossOf(A) = SumOf(f, A) /\ GrossOf(B) = SumOf(f, B)
      /\ GrossOf(Delivered) = SumOf(f, Delivered)
  BY <1>3
<1>5. GrossRevenue = GrossOf(Delivered)
  BY DEF GrossRevenue, GrossOf
<1>6. RetailRevenue = GrossOf(A) /\ WholesaleRevenue = GrossOf(B)
  BY DEF RetailRevenue, WholesaleRevenue, GrossOf
<1> HIDE DEF f, A, B
<1>7. SumOf(f, Delivered) = SumOf(f, A) + SumOf(f, B)
  BY <1>1, <1>2, SumOfBoth
<1> QED
  BY <1>4, <1>5, <1>6, <1>7

LEMMA DashboardExplained ==
  ASSUME TypeOK, TotalCharged
  PROVE  TodaysRevenue = GrossRevenue
           + MapThenSumSet(LAMBDA o : LineSum(lines[o], cancelled[o]),
                           {o \in Delivered : ~orders[o].accepted})
<1> DEFINE D == Delivered
           T == {o \in Delivered : ~orders[o].accepted}
           f == [o \in D |-> ItemRevenue(o)]
           g == [o \in D |-> IF orders[o].accepted THEN 0 ELSE LineSum(lines[o], cancelled[o])]
           h == [o \in D |-> orders[o].total]
           u == [o \in T |-> LineSum(lines[o], cancelled[o])]
<1>1. IsFiniteSet(D) /\ T \in SUBSET D /\ D \subseteq DOMAIN orders /\ IsFiniteSet(T)
  <2>1. D \subseteq DOMAIN orders /\ IsFiniteSet(DOMAIN orders)
    BY DEF Delivered, TypeOK
  <2>2. IsFiniteSet(D)
    BY <2>1, FS_Subset
  <2> QED
    BY <2>1, <2>2, FS_Subset
<1>2. \A o \in D : f[o] \in Int /\ g[o] \in Int /\ h[o] = f[o] + g[o]
  <2> SUFFICES ASSUME NEW o \in D
               PROVE  f[o] \in Int /\ g[o] \in Int /\ h[o] = f[o] + g[o]
    OBVIOUS
  <2> QED
    BY <1>1, TotalOfOrder
<1>3. \A o \in T : g[o] \in Int /\ u[o] = g[o]
  BY <1>1, <1>2
<1>4. \A o \in D \ T : g[o] = 0
  OBVIOUS
<1>5. GrossOf(D) = SumOf(f, D)
  BY <1>1, GrossIsSum
<1>6. TotalsOf(D) = SumOf(h, D)
  BY <1>1, TotalsIsSum
<1>7. UnavailableOf(T) = SumOf(u, T)
  BY <1>1, UnavailableIsSum
<1>8. GrossRevenue = GrossOf(D) /\ TodaysRevenue = TotalsOf(D)
  BY DEF GrossRevenue, GrossOf, TodaysRevenue, TotalsOf
<1>9. MapThenSumSet(LAMBDA o : LineSum(lines[o], cancelled[o]), T) = UnavailableOf(T)
  BY DEF UnavailableOf
<1> HIDE DEF f, g, h, u, D
<1>10. SumOf(h, D) = SumOf(f, D) + SumOf(g, D)
  BY <1>1, <1>2, SumOfSums
<1>11. SumOf(g, D) = SumOf(u, T)
  <2> HIDE DEF T
  <2>1. SumOf(g, D) = SumOf(g, T)
    BY <1>1, <1>3, <1>4, SumOfOthersZero
  <2>2. SumOf(u, T) = SumOf(g, T)
    BY <1>1, <1>3, SumOfSame
  <2> QED
    BY <2>1, <2>2
<1>12. TodaysRevenue = GrossRevenue + UnavailableOf(T)
  <2> HIDE DEF T
  <2> QED
    BY <1>5, <1>6, <1>7, <1>8, <1>10, <1>11
<1> QED
  BY <1>9, <1>12

\* The two reports (get_financial_report and get_dashboard of financials/service.py)
\* differ by the lines marked unavailable of the orders delivered without an accepted
\* reduction, and retail and wholesale make up the whole.
THEOREM ReportsReconcile == Spec => []RevenuesReconcile
<1>1. IInv => RevenuesReconcile
  <2>1. IInv => TypeOK /\ TotalCharged
    BY DEF IInv
  <2>2. IInv => GrossRevenue = RetailRevenue + WholesaleRevenue
    BY <2>1, PartsMakeWhole
  <2>3. IInv => TodaysRevenue = GrossRevenue
           + MapThenSumSet(LAMBDA o : LineSum(lines[o], cancelled[o]),
                           {o \in Delivered : ~orders[o].accepted})
    BY <2>1, DashboardExplained
  <2> QED
    BY <2>2, <2>3 DEF RevenuesReconcile
<1> QED
  BY <1>1, Invariance, PTL

=============================================================================
