---------------------------- MODULE OrderSessions ----------------------------
(***************************************************************************)
(* The order tables as requests really use them.  A request has a database *)
(* session of its own (app/database.py): it loads the order, checks it in  *)
(* memory, may query the lines, and commits its changes with everything it *)
(* computed from what it loaded.  PostgreSQL runs at READ COMMITTED, no    *)
(* query locks a row and no column holds a version, so other sessions      *)
(* commit in between.  autoflush is off: a session's own changes reach no  *)
(* query before its commit.                                                *)
(*                                                                         *)
(* The handlers and their rules are those of Orders; here each is cut at   *)
(* the queries it makes.  An exception, a lost connection or a killed      *)
(* worker closes the session, which rolls everything back.                 *)
(***************************************************************************)
EXTENDS OrderRules

CONSTANTS
  OrderIds,   \* bound: the orders that can ever be created
  Sessions,   \* bound: the requests served at the same time
  MaxEntries  \* bound: history entries of an order that a request may still load

ASSUME BoundsAssumption == MaxEntries \in Nat

VARIABLES
  orders, lines, cancelled, history,   \* the committed tables, as in Orders
  year,       \* datetime.utcnow().year
  tx          \* what each session holds in memory

vars == <<orders, lines, cancelled, history, year, tx>>
tables == <<orders, lines, cancelled, history>>

-----------------------------------------------------------------------------
(* What a session holds.                                                   *)

Idle == [op |-> "idle"]

CreateTx == [op: {"create"}, client: Clients \cup Wholesalers, lines: LineLists,
             number: Numbers]
StatusTx == [op: {"status"}, user: Users, order: OrderIds, row: Rows,
             to: Statuses, person: Persons \cup {NoPerson}]
MarkTx == [op: {"mark"}, user: Users, order: OrderIds, row: Rows,
           requested: SUBSET Variants]
MarkingTx == [op: {"marking"}, user: Users, order: OrderIds, row: Rows,
              available: SUBSET (1..MaxLines), marked: SUBSET (1..MaxLines)]
AnswerTx == [op: {"accept", "reject"}, user: Users, order: OrderIds, row: Rows]
AcceptingTx == [op: {"accepting"}, user: Users, order: OrderIds, row: Rows,
                available: SUBSET (1..MaxLines)]

\* The session has loaded an order.
OnOrder(s) == tx[s].op \notin {"idle", "create"}

Init ==
  /\ orders = <<>> /\ lines = <<>> /\ cancelled = <<>> /\ history = <<>>
  /\ year = FirstYear
  /\ tx = [s \in Sessions |-> Idle]

-----------------------------------------------------------------------------
(* Committing.                                                             *)

With(table, o, row) == [x \in DOMAIN table \cup {o} |-> IF x = o THEN row ELSE table[x]]

\* Faulty: keeps a column that another session has changed.
Merge_KeepsCurrent(old, new, current) ==
  [col \in DOMAIN current |->
    IF new[col] # old[col] /\ current[col] = old[col] THEN new[col] ELSE current[col]]

\* Faulty: writes the whole row back.
Merge_WholeRow(old, new, current) == new

\* UPDATE orders: the columns whose value the session changed since it loaded
\* the row, and no others.
Merge(old, new, current) ==
  [col \in DOMAIN current |-> IF new[col] # old[col] THEN new[col] ELSE current[col]]

Update(o, old, new) == orders' = [orders EXCEPT ![o] = Merge(old, new, @)]

Record(o, entry) == history' = [history EXCEPT ![o] = Append(@, entry)]

\* No step of a session moves the clock.
Hold(s, held) == tx' = [tx EXCEPT ![s] = held] /\ UNCHANGED year

Loadable(o) == Len(history[o]) < MaxEntries

-----------------------------------------------------------------------------
(* POST /orders: the order number names the year and is one more than the   *)
(* orders counted; it is UNIQUE, so the insert of a number that another     *)
(* session has taken since fails.  Numbers of two years never collide.      *)

CountOrders(s, c, basket) ==
  /\ tx[s] = Idle
  /\ Hold(s, [op |-> "create", client |-> c, lines |-> PricedLines(basket, SaleType(c)),
              number |-> generate_order_number(year, Cardinality(DOMAIN orders))])
  /\ UNCHANGED tables

\* Faulty: without the UNIQUE constraint.
NumberFree_Unchecked(n) == TRUE

NumberFree(n) == \A o \in DOMAIN orders : orders[o].number # n

CommitCreate(s, o) ==
  LET t == tx[s] IN
  /\ t.op = "create"
  /\ o \notin DOMAIN orders
  /\ NumberFree(t.number)
  /\ orders' = With(orders, o, NewRow(t.number, t.client, t.lines))
  /\ lines' = With(lines, o, t.lines)
  /\ cancelled' = With(cancelled, o, {})
  /\ history' = With(history, o, <<CreationEntry>>)
  /\ Hold(s, Idle)

(* PATCH /orders/{id}/status                                               *)

LoadForStatus(s, u, o, to, p) ==
  /\ tx[s] = Idle /\ Loadable(o)
  /\ MayAccess(u, orders[o])
  /\ StatusAllowed(orders[o], to, Role(u))
  /\ to = "delivery_failed" => orders[o].attempts < MaxAttempts
  /\ Hold(s, [op |-> "status", user |-> u, order |-> o, row |-> orders[o],
              to |-> to, person |-> p])
  /\ UNCHANGED tables

CommitStatus(s) ==
  LET t == tx[s] IN
  /\ t.op = "status"
  /\ Update(t.order, t.row, StatusRow(t.row, t.to, t.person))
  /\ Record(t.order, StatusEntry(t.row, t.to, t.user, t.person))
  /\ Hold(s, Idle)
  /\ UNCHANGED <<lines, cancelled>>

(* PATCH /orders/{id}/mark-unavailable                                     *)

LoadForMark(s, u, o, requested) ==
  /\ tx[s] = Idle /\ Loadable(o)
  /\ u \in Admins
  /\ MarkAllowed(orders[o])
  /\ Hold(s, [op |-> "mark", user |-> u, order |-> o, row |-> orders[o],
              requested |-> requested])
  /\ UNCHANGED tables

ReadForMark(s) ==
  LET t == tx[s]
      available == AvailableLines(lines[t.order], cancelled[t.order]) IN
  /\ t.op = "mark"
  /\ available # {}
  /\ \E M \in Markings(lines[t.order], t.requested) :
       Hold(s, [op |-> "marking", user |-> t.user, order |-> t.order, row |-> t.row,
                available |-> available, marked |-> M])
  /\ UNCHANGED tables

\* Faulty: writes the flags of all lines instead of the ones it set.
CommitMark_AllFlags(s) ==
  LET t == tx[s] IN
  /\ t.op = "marking"
  /\ Update(t.order, t.row, MarkRow(t.row, lines[t.order], t.available))
  /\ cancelled' = [cancelled EXCEPT ![t.order] = t.marked]
  /\ Record(t.order, Entry("pending", "partially_available", t.user, 0, NoPerson))
  /\ Hold(s, Idle)
  /\ UNCHANGED lines

CommitMark(s) ==
  LET t == tx[s] IN
  /\ t.op = "marking"
  /\ Update(t.order, t.row, MarkRow(t.row, lines[t.order], t.available))
  /\ cancelled' = [cancelled EXCEPT ![t.order] = @ \cup t.marked]
  /\ Record(t.order, Entry("pending", "partially_available", t.user, 0, NoPerson))
  /\ Hold(s, Idle)
  /\ UNCHANGED lines

(* PATCH /orders/{id}/partial-accept                                       *)

\* Faulty: without the check on the status.
MayAnswer_AnyStatus(u, row) == u \notin Vendors /\ MayAccess(u, row)

MayAnswer(u, row) == u \notin Vendors /\ MayAccess(u, row) /\ AcceptAllowed(row)

LoadForAnswer(s, u, o, answer) ==
  /\ tx[s] = Idle /\ Loadable(o)
  /\ MayAnswer(u, orders[o])
  /\ Hold(s, [op |-> answer, user |-> u, order |-> o, row |-> orders[o]])
  /\ UNCHANGED tables

ReadForAccept(s) ==
  LET t == tx[s] IN
  /\ t.op = "accept"
  /\ Hold(s, [op |-> "accepting", user |-> t.user, order |-> t.order, row |-> t.row,
              available |-> AvailableLines(lines[t.order], cancelled[t.order])])
  /\ UNCHANGED tables

CommitAccept(s) ==
  LET t == tx[s] IN
  /\ t.op = "accepting"
  /\ Update(t.order, t.row, AcceptRow(t.row, lines[t.order], t.available))
  /\ Record(t.order, Entry("partially_available", "confirmed", t.user, 0, NoPerson))
  /\ Hold(s, Idle)
  /\ UNCHANGED <<lines, cancelled>>

CommitReject(s) ==
  LET t == tx[s] IN
  /\ t.op = "reject"
  /\ Update(t.order, t.row, RejectRow(t.row))
  /\ Record(t.order, Entry("partially_available", "cancelled", t.user, 0, NoPerson))
  /\ Hold(s, Idle)
  /\ UNCHANGED <<lines, cancelled>>

\* A request ends without committing: a check on what it read refused it, an
\* insert failed, or the worker or its connection was lost.
Rollback(s) ==
  /\ tx[s] # Idle
  /\ Hold(s, Idle)
  /\ UNCHANGED tables

\* The clock, which no request moves and which does not wait for any.
NewYear ==
  /\ year < MaxYear
  /\ year' = year + 1
  /\ UNCHANGED <<tables, tx>>

-----------------------------------------------------------------------------

Step(s) ==
  \/ \E c \in Clients \cup Wholesalers, b \in Baskets : CountOrders(s, c, b)
  \/ \E o \in OrderIds : CommitCreate(s, o)
  \/ \E o \in DOMAIN orders, u \in Users :
       \/ \E to \in Statuses, p \in Persons \cup {NoPerson} :
            LoadForStatus(s, u, o, to, p)
       \/ \E requested \in SUBSET Variants : LoadForMark(s, u, o, requested)
       \/ \E answer \in {"accept", "reject"} : LoadForAnswer(s, u, o, answer)
  \/ CommitStatus(s)
  \/ ReadForMark(s) \/ CommitMark(s)
  \/ ReadForAccept(s) \/ CommitAccept(s) \/ CommitReject(s)
  \/ Rollback(s)

Next == (\E s \in Sessions : Step(s)) \/ NewYear

Spec == Init /\ [][Next]_vars

\* The assumption under which a request finds its order as it loaded it, and its number
\* in the year it commits: no two sessions hold the same order, and no session holds an
\* order number of the year before.  Sessions on different orders, and sessions that
\* create orders in one year, still run at the same time.
OneSessionPerOrder ==
  \A s, t \in Sessions :
    s # t /\ OnOrder(s) /\ OnOrder(t) => tx[s].order # tx[t].order

NumbersOfTheYear == \A s \in Sessions : tx[s].op = "create" => tx[s].number.year = year

Exclusive == OneSessionPerOrder /\ NumbersOfTheYear

ExclusiveSpec == Init /\ [][Next /\ Exclusive']_vars

-----------------------------------------------------------------------------
(* Types.                                                                  *)

\* The tables are as in Orders, and a session holds what its operation needs:
\* an order that exists, its row as it was, and positions of its lines.
TypeOK ==
  /\ DOMAIN orders \subseteq OrderIds /\ IsFiniteSet(DOMAIN orders)
  /\ orders \in [DOMAIN orders -> Rows]
  /\ lines \in [DOMAIN orders -> LineLists]
  /\ cancelled \in [DOMAIN orders -> SUBSET (1..MaxLines)]
  /\ history \in [DOMAIN orders -> Seq(Entries)]
  /\ year \in Nat
  /\ \A o \in DOMAIN orders : cancelled[o] \subseteq DOMAIN lines[o]
  /\ tx \in [Sessions -> {Idle} \cup CreateTx \cup StatusTx \cup MarkTx \cup MarkingTx
                           \cup AnswerTx \cup AcceptingTx]
  /\ \A s \in Sessions : OnOrder(s) => tx[s].order \in DOMAIN orders

(* What stays true whatever requests overlap.                              *)

Entered(o, s) == \E i \in DOMAIN history[o] : history[o][i].to = s

\* Order numbers count 1, 2, 3, ... through the years: an order that counted too early
\* finds its number taken.  Creations that overlap on New Year's Eve are the exception:
\* one of each year may carry the same count, and a later count is then skipped.
NumbersDense ==
  LET count(o) == orders[o].number.count IN
  /\ \A o \in DOMAIN orders : count(o) \in 1..Cardinality(DOMAIN orders)
  /\ \A o1, o2 \in DOMAIN orders : orders[o1].number = orders[o2].number => o1 = o2
  /\ \A n \in 1..Cardinality(DOMAIN orders) :
       \/ \E o \in DOMAIN orders : count(o) = n
       \/ \E o1, o2 \in DOMAIN orders :
            /\ count(o1) = count(o2) /\ count(o1) < n
            /\ orders[o1].number.year # orders[o2].number.year

\* The last entry of a history names the status of the row, and every entry was
\* an allowed transition from a status the order had had.
HistoryEndsAtStatus ==
  \A o \in DOMAIN orders :
    LET h == history[o] IN
    /\ h # <<>>
    /\ h[1] = CreationEntry
    /\ h[Len(h)].to = orders[o].status
    /\ \A i \in 2..Len(h) :
         /\ <<h[i].from, h[i].to>> \in VALID_TRANSITIONS
         /\ \E j \in 1..(i - 1) : h[j].to = h[i].from

\* The total is a sum of lines that leaves out no line still available: however
\* requests overlap, an order never charges less than what it will ship.
ChargesAvailable ==
  \A o \in DOMAIN orders :
    \E S \in SUBSET DOMAIN lines[o] :
      /\ DOMAIN lines[o] \ cancelled[o] \subseteq S
      /\ orders[o].total = LineSum(lines[o], S)

\* A failed attempt can be lost from delivery_attempts, but none is made up.
AttemptsNotInvented ==
  \A o \in DOMAIN orders :
    orders[o].attempts <=
      Cardinality({i \in DOMAIN history[o] : history[o][i].to = "delivery_failed"})

\* A date column is set exactly when the history has the status it dates.
DatesAgree ==
  \A o \in DOMAIN orders :
    LET row == orders[o] IN
    /\ row.confirmed <=> Entered(o, "confirmed")
    /\ row.delivered <=> Entered(o, "delivered_to_client")
    /\ row.cancelled <=> Entered(o, "cancelled")

(* What does not: the error of change_order_status says that an order in a   *)
(* final state cannot change.                                               *)

\* A delivered or cancelled order keeps its status.
FinalIsFinal ==
  [][\A o \in DOMAIN orders :
       orders[o].status \in FINAL_STATES => orders'[o].status = orders[o].status]_vars

(* Refinement: with one session per order, the handlers implement the        *)
(* handlers of Orders, each taking effect at its commit.                     *)

Serial == INSTANCE Orders

ImplementsSerial == Serial!Spec

=============================================================================
