------------------------------- MODULE Orders -------------------------------
(***************************************************************************)
(* The order tables when requests do not overlap: each handler of          *)
(* orders/router.py, together with the service function it calls, is one   *)
(* step.  This is what the rest of the program takes an order to be, and   *)
(* what OrderSessions, where a handler loads its row and commits its       *)
(* changes in separate steps, is compared with.                            *)
(*                                                                         *)
(* The tables are partial functions from order identifiers, with the       *)
(* orders that exist as their domain.  Orders are never deleted.           *)
(***************************************************************************)
EXTENDS OrderRules

CONSTANT OrderIds   \* bound: the orders that can ever be created

VARIABLES
  orders,     \* table orders: identifier -> row
  lines,      \* table order_items: identifier -> sequence of lines
  cancelled,  \* its column cancelled_in_partial: identifier -> positions
  history,    \* table order_status_history: identifier -> sequence of entries
  year        \* datetime.utcnow().year

tables == <<orders, lines, cancelled, history>>
vars == <<orders, lines, cancelled, history, year>>

-----------------------------------------------------------------------------

Init ==
  /\ orders = <<>>
  /\ lines = <<>>
  /\ cancelled = <<>>
  /\ history = <<>>
  /\ year = FirstYear

\* A table with one row more.
With(table, o, row) == [x \in DOMAIN table \cup {o} |-> IF x = o THEN row ELSE table[x]]

Record(o, entry) == history' = [history EXCEPT ![o] = Append(@, entry)]

\* POST /orders.  A client, the client's vendor or a wholesaler asks; which of
\* them does leaves no trace, since the entry is recorded without a user.
CreateOrder(o, c, basket) ==
  /\ o \notin DOMAIN orders
  /\ LET ls == PricedLines(basket, SaleType(c)) IN
       /\ orders' = With(orders, o,
                      NewRow(generate_order_number(year, Cardinality(DOMAIN orders)), c, ls))
       /\ lines' = With(lines, o, ls)
  /\ cancelled' = With(cancelled, o, {})
  /\ history' = With(history, o, <<CreationEntry>>)
  /\ UNCHANGED year

\* PATCH /orders/{id}/status
ChangeStatus(u, o, to, p) ==
  /\ MayAccess(u, orders[o])
  /\ StatusAllowed(orders[o], to, Role(u))
  /\ to = "delivery_failed" => orders[o].attempts < MaxAttempts
  /\ orders' = [orders EXCEPT ![o] = StatusRow(@, to, p)]
  /\ Record(o, StatusEntry(orders[o], to, u, p))
  /\ UNCHANGED <<lines, cancelled, year>>

\* PATCH /orders/{id}/mark-unavailable
MarkUnavailable(u, o, requested) ==
  LET available == AvailableLines(lines[o], cancelled[o]) IN
  /\ u \in Admins
  /\ MarkAllowed(orders[o])
  /\ available # {}
  /\ \E M \in Markings(lines[o], requested) :
       cancelled' = [cancelled EXCEPT ![o] = @ \cup M]
  /\ orders' = [orders EXCEPT ![o] = MarkRow(@, lines[o], available)]
  /\ Record(o, Entry("pending", "partially_available", u, 0, NoPerson))
  /\ UNCHANGED <<lines, year>>

MayAnswer(u, row) == u \notin Vendors /\ MayAccess(u, row) /\ AcceptAllowed(row)

\* PATCH /orders/{id}/partial-accept, with accept true and with accept false
AcceptPartial(u, o) ==
  /\ MayAnswer(u, orders[o])
  /\ orders' = [orders EXCEPT ![o] =
                  AcceptRow(@, lines[o], AvailableLines(lines[o], cancelled[o]))]
  /\ Record(o, Entry("partially_available", "confirmed", u, 0, NoPerson))
  /\ UNCHANGED <<lines, cancelled, year>>

RejectPartial(u, o) ==
  /\ MayAnswer(u, orders[o])
  /\ orders' = [orders EXCEPT ![o] = RejectRow(@)]
  /\ Record(o, Entry("partially_available", "cancelled", u, 0, NoPerson))
  /\ UNCHANGED <<lines, cancelled, year>>

\* The clock, which no request moves.
NewYear ==
  /\ year < MaxYear
  /\ year' = year + 1
  /\ UNCHANGED tables

Next ==
  \/ \E o \in OrderIds, c \in Clients \cup Wholesalers, b \in Baskets : CreateOrder(o, c, b)
  \/ \E o \in DOMAIN orders, u \in Users :
       \/ \E to \in Statuses, p \in Persons \cup {NoPerson} : ChangeStatus(u, o, to, p)
       \/ \E requested \in SUBSET Variants : MarkUnavailable(u, o, requested)
       \/ AcceptPartial(u, o)
       \/ RejectPartial(u, o)
  \/ NewYear

Spec == Init /\ [][Next]_vars

-----------------------------------------------------------------------------
(* Types.                                                                  *)

\* The tables agree on which orders exist, and every column holds a value of
\* its type; the total of an order is a sum of lines some basket can have.
TypeOK ==
  /\ DOMAIN orders \subseteq OrderIds /\ IsFiniteSet(DOMAIN orders)
  /\ orders \in [DOMAIN orders -> Rows]
  /\ lines \in [DOMAIN orders -> LineLists]
  /\ cancelled \in [DOMAIN orders -> SUBSET (1..MaxLines)]
  /\ history \in [DOMAIN orders -> Seq(Entries)]
  /\ year \in Nat
  /\ \A o \in DOMAIN orders : cancelled[o] \subseteq DOMAIN lines[o]

(* What the code keeps true of an order.                                   *)

Entered(o, s) == \E i \in DOMAIN history[o] : history[o][i].to = s

\* The history of an order is a path: it starts with the creation, every entry
\* starts where the one before it ended and is a transition of the table, and
\* it ends at the status of the row.
HistoryIsPath ==
  \A o \in DOMAIN orders :
    LET h == history[o] IN
    /\ h # <<>>
    /\ h[1] = CreationEntry
    /\ \A i \in 2..Len(h) :
         /\ h[i].from = h[i - 1].to
         /\ <<h[i].from, h[i].to>> \in VALID_TRANSITIONS
    /\ h[Len(h)].to = orders[o].status

\* delivery_attempts counts the failed deliveries of the history, and those
\* entries are numbered 1, 2, ... in order.
AttemptsNumbered ==
  \A o \in DOMAIN orders :
    LET failed == {i \in DOMAIN history[o] : history[o][i].to = "delivery_failed"} IN
    /\ Cardinality(failed) = orders[o].attempts
    /\ \A i \in failed : history[o][i].attempt = Cardinality({j \in failed : j <= i})

\* What an order charges.  The total is the sum of all lines until the reduced
\* order is accepted through partial-accept, and of the available ones from
\* then on: an order confirmed through the status endpoint instead keeps
\* charging the lines marked unavailable.
TotalCharged ==
  \A o \in DOMAIN orders :
    orders[o].total =
      LineSum(lines[o], IF orders[o].accepted THEN DOMAIN lines[o] \ cancelled[o]
                                              ELSE DOMAIN lines[o])

\* An order with a cancelled line went through partially_available and kept its
\* original total, and an original total that was kept is the sum of all lines: an
\* order is marked at most once, before anything else changes its total.  Neither
\* converse holds: an order moved there by PATCH /status keeps no original total, and a
\* marking whose variants the order does not have keeps one and cancels nothing.
MarkedOnce ==
  \A o \in DOMAIN orders :
    /\ cancelled[o] # {} => orders[o].original # NoTotal
    /\ orders[o].original # NoTotal =>
         /\ orders[o].original = LineSum(lines[o], DOMAIN lines[o])
         /\ Entered(o, "partially_available")

\* A date column is set exactly when the history has the status it dates, and
\* delivered_at and cancelled_at are never both set.
DatesAgree ==
  \A o \in DOMAIN orders :
    LET row == orders[o] IN
    /\ row.confirmed <=> Entered(o, "confirmed")
    /\ row.delivered <=> row.status = "delivered_to_client"
    /\ row.cancelled <=> row.status = "cancelled"
    /\ row.accepted => row.confirmed /\ Entered(o, "partially_available")

\* A wholesale order has no vendor and never passes through the vendor's hands.
WholesaleGoesDirect ==
  \A o \in DOMAIN orders :
    orders[o].sale = "wholesale" =>
      /\ orders[o].vendor = NoVendor
      /\ ~Entered(o, "delivered_to_vendor")

\* A retail order gets beyond pending and cancelled only after an admin acted
\* on it: a client alone can do nothing but give it up.
RetailNeedsAdmin ==
  \A o \in DOMAIN orders :
    orders[o].sale = "retail" /\ orders[o].status \notin {"pending", "cancelled"} =>
      \E i \in DOMAIN history[o] : history[o][i].by \in Admins

\* Nothing is reduced before the order is marked, nothing is accepted before it
\* is offered, and the sale type is the one of the buyer's role.
StageAgrees ==
  \A o \in DOMAIN orders :
    LET row == orders[o] IN
    /\ row.status = "pending" => cancelled[o] = {} /\ row.original = NoTotal
    /\ row.accepted => row.status \notin {"pending", "partially_available"}
    /\ row.sale = SaleType(row.client)

\* The strengthening of the invariants above that every step preserves.
IInv ==
  /\ TypeOK
  /\ StageAgrees
  /\ HistoryIsPath
  /\ AttemptsNumbered
  /\ TotalCharged
  /\ MarkedOnce
  /\ DatesAgree
  /\ WholesaleGoesDirect
  /\ RetailNeedsAdmin

\* A delivered or cancelled order never changes again.
FinalIsFrozen ==
  [][\A o \in DOMAIN orders : orders[o].status \in FINAL_STATES =>
       /\ orders'[o] = orders[o]
       /\ history'[o] = history[o]
       /\ cancelled'[o] = cancelled[o]]_vars

=============================================================================
