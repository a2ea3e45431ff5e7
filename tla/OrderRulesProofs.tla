-------------------------- MODULE OrderRulesProofs --------------------------
(***************************************************************************)
(* What the operators of OrderRules return, for the proofs about Orders    *)
(* and about OrderSessions.                                                *)
(***************************************************************************)
EXTENDS OrderRules, FiniteSetTheorems, SequenceTheorems, TLAPS

\* A sum of some of the lines of an order is an amount.
LEMMA LineSumIsAmount ==
  ASSUME NEW ls \in LineLists, NEW S \in SUBSET DOMAIN ls
  PROVE  LineSum(ls, S) \in Amounts
BY DEF Amounts

\* The lines priced for a basket are a list of lines.
LEMMA PricedIsLineList ==
  ASSUME NEW b \in Baskets, NEW sale \in SaleTypes
  PROVE  PricedLines(b, sale) \in LineLists
BY DEF LineLists

\* The positions of a list of lines are 1..n with n at most MaxLines.
LEMMA LinePositions ==
  ASSUME NEW ls \in LineLists
  PROVE  DOMAIN ls \subseteq 1..MaxLines
<1>1. PICK b \in Baskets, sale \in SaleTypes : ls = PricedLines(b, sale)
  BY DEF LineLists
<1>2. DOMAIN ls = DOMAIN b
  BY <1>1 DEF PricedLines
<1>3. PICK n \in 0..MaxLines : b \in [1..n -> Variants \X Quantities]
  BY DEF Baskets
<1> QED BY <1>2, <1>3, GoodsAssumption

\* A new order, and every row a handler computes, is a row.
LEMMA NewRowType ==
  ASSUME NEW n \in Numbers, NEW c \in Clients \cup Wholesalers, NEW ls \in LineLists
  PROVE  NewRow(n, c, ls) \in Rows
<1>1. LineSum(ls, DOMAIN ls) \in Amounts
  BY LineSumIsAmount
<1>2. (IF c \in Clients THEN VendorOf[c] ELSE NoVendor) \in Vendors \cup {NoVendor}
  BY UsersAssumption
<1> QED BY <1>1, <1>2 DEF NewRow, Rows, SaleType, SaleTypes, Statuses

LEMMA NumberType ==
  ASSUME NEW year \in Nat, NEW count \in Nat
  PROVE  generate_order_number(year, count) \in Numbers
BY DEF generate_order_number, Numbers

LEMMA StatusRowType ==
  ASSUME NEW row \in Rows, NEW to \in Statuses, NEW p \in Persons \cup {NoPerson}
  PROVE  StatusRow(row, to, p) \in Rows
<1> DEFINE attempts == IF to = "delivery_failed" THEN row.attempts + 1 ELSE row.attempts
           person == IF p = NoPerson THEN row.person ELSE p
           confirmed == row.confirmed \/ to = "confirmed"
           delivered == row.delivered \/ to = "delivered_to_client"
           cancel == row.cancelled \/ to = "cancelled"
<1>1. attempts \in Nat /\ person \in Persons \cup {NoPerson}
  BY DEF Rows
<1>2. confirmed \in BOOLEAN /\ delivered \in BOOLEAN /\ cancel \in BOOLEAN
  OBVIOUS
<1>3. StatusRow(row, to, p) =
        [row EXCEPT !.status = to, !.attempts = attempts, !.person = person,
                    !.confirmed = confirmed, !.delivered = delivered, !.cancelled = cancel]
  BY Zenon DEF StatusRow
<1> HIDE DEF attempts, person, confirmed, delivered, cancel
<1> QED BY <1>1, <1>2, <1>3 DEF Rows

LEMMA MarkRowType ==
  ASSUME NEW row \in Rows, NEW ls \in LineLists, NEW S \in SUBSET DOMAIN ls
  PROVE  MarkRow(row, ls, S) \in Rows
BY LineSumIsAmount DEF MarkRow, Rows, Statuses

LEMMA AcceptRowType ==
  ASSUME NEW row \in Rows, NEW ls \in LineLists, NEW S \in SUBSET DOMAIN ls
  PROVE  AcceptRow(row, ls, S) \in Rows
BY LineSumIsAmount DEF AcceptRow, Rows, Statuses

LEMMA RejectRowType ==
  ASSUME NEW row \in Rows
  PROVE  RejectRow(row) \in Rows
BY DEF RejectRow, Rows, Statuses

LEMMA EntryType ==
  ASSUME NEW row \in Rows, NEW to \in Statuses, NEW u \in Users,
         NEW p \in Persons \cup {NoPerson}
  PROVE  StatusEntry(row, to, u, p) \in Entries
BY DEF StatusEntry, Entry, Entries, Rows

\* The entry of a handler that records neither an attempt nor a delivery person.
LEMMA PlainEntry ==
  ASSUME NEW from \in Statuses, NEW to \in Statuses, NEW u \in Users
  PROVE  LET e == Entry(from, to, u, 0, NoPerson) IN
           e \in Entries /\ e.from = from /\ e.to = to /\ e.by = u
BY DEF Entry, Entries

=============================================================================
