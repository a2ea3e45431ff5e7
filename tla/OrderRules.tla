----------------------------- MODULE OrderRules -----------------------------
(***************************************************************************)
(* The rules of an order that read and write no table: the status tables,  *)
(* who may make which transition, the price of a line, and the row that    *)
(* each service function of app/modules/orders computes from the row it    *)
(* loaded.  Orders applies them to the current row in one step;            *)
(* OrderSessions applies them to the row a request loaded some steps ago.  *)
(*                                                                         *)
(* A timestamp column (confirmed_at, delivered_at, ...) is abstracted to   *)
(* whether it is set.  tax_amount is always 0 in the code, so subtotal and *)
(* total are one column here.  Notes, addresses, failure reasons and the   *)
(* name snapshots of a line decide nothing and are left out.               *)
(***************************************************************************)
EXTENDS Integers, Sequences, FiniteSets, FiniteSetsExt

CONSTANTS
  Admins, Vendors, Clients, Wholesalers,   \* users, by role
  VendorOf,      \* the vendor in whose network a client registered
  NoVendor,      \* the NULL vendor_id of a wholesale order
  Persons,       \* delivery persons
  NoPerson,      \* the NULL delivery_person_id
  NoTotal,       \* the NULL original_total
  Nobody,        \* the NULL changed_by of the entry that creates an order
  Variants,      \* active variants whose product has both prices
  RetailPrice, ListPrice,   \* unit price of a variant by sale type
  Quantities,    \* quantities a line may ask for
  MaxLines,      \* bound: lines of one order
  MaxAttempts,   \* bound: failed delivery attempts of one order
  FirstYear,     \* the year of the first order
  MaxYear        \* bound: the last year looked at

Users == Admins \cup Vendors \cup Clients \cup Wholesalers

ASSUME UsersAssumption ==
  /\ VendorOf \in [Clients -> Vendors]
  /\ Nobody \notin Users
  /\ NoVendor \notin Vendors \cup Clients \cup Wholesalers
  /\ Admins \cap (Vendors \cup Clients \cup Wholesalers) = {}
  /\ Vendors \cap (Clients \cup Wholesalers) = {}
  /\ Clients \cap Wholesalers = {}

ASSUME GoodsAssumption ==
  /\ RetailPrice \in [Variants -> Int]
  /\ ListPrice \in [Variants -> Int]
  /\ Quantities \subseteq Int
  /\ MaxLines \in Nat
  /\ MaxAttempts \in Nat
  /\ NoPerson \notin Persons

ASSUME YearsAssumption == FirstYear \in Nat /\ MaxYear \in Nat

-----------------------------------------------------------------------------
(* Statuses, roles and the tables of allowed transitions.                  *)

Statuses == {"pending", "partially_available", "confirmed", "preparing",
             "in_delivery", "delivery_failed", "delivered_to_vendor",
             "delivered_to_client", "cancelled"}

Role(u) == CASE u \in Admins -> "admin"
             [] u \in Vendors -> "vendor"
             [] u \in Clients -> "client"
             [] u \in Wholesalers -> "wholesale"

VALID_TRANSITIONS ==
  ({"pending"} \X {"partially_available", "confirmed", "cancelled"})
    \cup ({"partially_available"} \X {"confirmed", "cancelled"})
    \cup ({"confirmed"} \X {"preparing", "cancelled"})
    \cup {<<"preparing", "in_delivery">>, <<"delivery_failed", "preparing">>,
          <<"delivered_to_vendor", "delivered_to_client">>}
    \cup ({"in_delivery"} \X {"delivered_to_vendor", "delivery_failed",
                              "delivered_to_client"})

FINAL_STATES == {"delivered_to_client", "cancelled"}

ADMIN_ONLY_TRANSITIONS ==
  {"partially_available", "confirmed", "preparing", "in_delivery",
   "delivered_to_vendor", "delivery_failed"}

CLIENT_ALLOWED_FROM ==
  {<<"pending", "cancelled">>, <<"partially_available", "confirmed">>,
   <<"partially_available", "cancelled">>}

VENDOR_ALLOWED_FROM == {<<"delivered_to_vendor", "delivered_to_client">>}

\* Faulty: forgets the table of the client role.
ValidateTransition_AnyClient(from, to, role) ==
  /\ <<from, to>> \in VALID_TRANSITIONS
  /\ role = "vendor" => <<from, to>> \in VENDOR_ALLOWED_FROM

\* Faulty: checks the tables of the roles but not the transition itself.
ValidateTransition_AnyOrder(from, to, role) ==
  /\ role = "vendor" => <<from, to>> \in VENDOR_ALLOWED_FROM
  /\ role = "client" => <<from, to>> \in CLIENT_ALLOWED_FROM

\* Only the vendor and the client role have a table of their own: every other
\* role, wholesale included, takes the last return and is not restricted.
ValidateTransition(from, to, role) ==
  /\ <<from, to>> \in VALID_TRANSITIONS
  /\ role = "vendor" => <<from, to>> \in VENDOR_ALLOWED_FROM
  /\ role = "client" => <<from, to>> \in CLIENT_ALLOWED_FROM

-----------------------------------------------------------------------------
(* Lines of an order.  A line is never edited after the order is created;   *)
(* the one thing that changes, cancelled_in_partial, is kept apart as the   *)
(* set of cancelled positions, so that a sum of lines is a function of the  *)
(* lines and of a set of positions.                                         *)

SaleTypes == {"retail", "wholesale"}

SaleType(c) == IF c \in Wholesalers THEN "wholesale" ELSE "retail"

UnitPrice(v, sale) == IF sale = "wholesale" THEN ListPrice[v] ELSE RetailPrice[v]

\* What a request may ask for: any list of variants and quantities, the empty
\* list and the same variant twice included.
Baskets == UNION {[1..n -> Variants \X Quantities] : n \in 0..MaxLines}

PricedLines(basket, sale) ==
  [i \in DOMAIN basket |->
    [variant |-> basket[i][1],
     subtotal |-> UnitPrice(basket[i][1], sale) * basket[i][2]]]

LineLists == {PricedLines(b, sale) : b \in Baskets, sale \in SaleTypes}

LineSum(ls, S) == MapThenSumSet(LAMBDA i : ls[i].subtotal, S)

Amounts == UNION {{LineSum(ls, S) : S \in SUBSET DOMAIN ls} : ls \in LineLists}

ASSUME NoTotalAssumption == NoTotal \notin Amounts

\* The lines that the loop over unavailable_variant_ids can mark: for every
\* requested variant that the order has, one of its lines, the one .first()
\* returns from an unordered query.
Markings(ls, requested) ==
  {M \in SUBSET DOMAIN ls :
     /\ {ls[i].variant : i \in M} = requested \cap {ls[i].variant : i \in DOMAIN ls}
     /\ \A i, j \in M : ls[i].variant = ls[j].variant => i = j}

\* The query "cancelled_in_partial == False" of a session that has not flushed:
\* it sees the flags in the table, never the ones the session itself just set.
AvailableLines(ls, cancelled) == DOMAIN ls \ cancelled

-----------------------------------------------------------------------------
(* Rows of the tables orders and order_status_history.                     *)

\* generate_order_number: ORD-{year}-{count + 1}, the year of the clock and the orders
\* counted so far, of whatever year.
generate_order_number(year, count) == [year |-> year, count |-> count + 1]

Numbers == [year: Nat, count: Nat \ {0}]

Rows ==
  [number: Numbers, client: Clients \cup Wholesalers, vendor: Vendors \cup {NoVendor},
   sale: SaleTypes, status: Statuses,
   total: Amounts, original: Amounts \cup {NoTotal},
   attempts: Nat, person: Persons \cup {NoPerson},
   confirmed: BOOLEAN, accepted: BOOLEAN, delivered: BOOLEAN, cancelled: BOOLEAN]

Entries ==
  [from: Statuses \cup {"none"}, to: Statuses, by: Users \cup {Nobody},
   attempt: Nat, person: Persons \cup {NoPerson}]

NewRow(n, c, ls) ==
  [number |-> n, client |-> c,
   vendor |-> IF c \in Clients THEN VendorOf[c] ELSE NoVendor,
   sale |-> SaleType(c), status |-> "pending",
   total |-> LineSum(ls, DOMAIN ls), original |-> NoTotal,
   attempts |-> 0, person |-> NoPerson,
   confirmed |-> FALSE, accepted |-> FALSE, delivered |-> FALSE, cancelled |-> FALSE]

Entry(from, to, by, attempt, person) ==
  [from |-> from, to |-> to, by |-> by, attempt |-> attempt, person |-> person]

CreationEntry == Entry("none", "pending", Nobody, 0, NoPerson)

MayAccess(u, row) ==
  \/ u \in Admins
  \/ u \in Clients \cup Wholesalers /\ row.client = u
  \/ u \in Vendors /\ row.vendor = u

\* Faulty: without the check on wholesale orders.
StatusAllowed_AnySale(row, to, role) ==
  row.status \notin FINAL_STATES /\ ValidateTransition(row.status, to, role)

StatusAllowed(row, to, role) ==
  /\ row.status \notin FINAL_STATES
  /\ ~(to = "delivered_to_vendor" /\ row.sale = "wholesale")
  /\ ValidateTransition(row.status, to, role)

\* Faulty: a failed attempt is taken off instead of added.
StatusRow_CountsDown(row, to, p) ==
  [row EXCEPT !.status = to,
              !.attempts = IF to = "delivery_failed" THEN @ - 1 ELSE @,
              !.person = IF p = NoPerson THEN @ ELSE p,
              !.confirmed = @ \/ to = "confirmed",
              !.delivered = @ \/ to = "delivered_to_client",
              !.cancelled = @ \/ to = "cancelled"]

\* Faulty: counts an attempt when the delivery starts, not when it fails.
StatusRow_CountsStart(row, to, p) ==
  [row EXCEPT !.status = to,
              !.attempts = IF to = "in_delivery" THEN @ + 1 ELSE @,
              !.person = IF p = NoPerson THEN @ ELSE p,
              !.confirmed = @ \/ to = "confirmed",
              !.delivered = @ \/ to = "delivered_to_client",
              !.cancelled = @ \/ to = "cancelled"]

\* change_order_status: the row with the new status, and its history entry.
StatusRow(row, to, p) ==
  [row EXCEPT !.status = to,
              !.attempts = IF to = "delivery_failed" THEN @ + 1 ELSE @,
              !.person = IF p = NoPerson THEN @ ELSE p,
              !.confirmed = @ \/ to = "confirmed",
              !.delivered = @ \/ to = "delivered_to_client",
              !.cancelled = @ \/ to = "cancelled"]

\* Faulty: numbers the attempt before it is counted.
StatusEntry_Uncounted(row, to, by, p) ==
  Entry(row.status, to, by, row.attempts, IF p = NoPerson THEN row.person ELSE p)

StatusEntry(row, to, by, p) ==
  Entry(row.status, to, by,
        IF to = "delivery_failed" THEN row.attempts + 1 ELSE 0,
        IF p = NoPerson THEN row.person ELSE p)

\* mark_items_unavailable, after the query found the lines in available.
\* Faulty: lets a reduced order be reduced again.
MarkAllowed_Again(row) == row.status \in {"pending", "partially_available"}

MarkAllowed(row) == row.status = "pending"

MarkRow(row, ls, available) ==
  [row EXCEPT !.original = row.total, !.total = LineSum(ls, available),
              !.status = "partially_available"]

\* accept_partial_order, after the query found the lines in available.
\* Faulty: without the check on the status.
AcceptAllowed_Always(row) == TRUE

AcceptAllowed(row) == row.status = "partially_available"

\* Faulty: confirms without computing the total again.
AcceptRow_OldTotal(row, ls, available) ==
  [row EXCEPT !.status = "confirmed", !.accepted = TRUE, !.confirmed = TRUE]

AcceptRow(row, ls, available) ==
  [row EXCEPT !.total = LineSum(ls, available), !.status = "confirmed",
              !.accepted = TRUE, !.confirmed = TRUE]

\* Faulty: forgets cancelled_at.
RejectRow_NoDate(row) == [row EXCEPT !.status = "cancelled"]

RejectRow(row) == [row EXCEPT !.status = "cancelled", !.cancelled = TRUE]

=============================================================================
