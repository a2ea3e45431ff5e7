------------------------- MODULE OrderSessionsProofs -------------------------
(***************************************************************************)
(* What stays true of the orders whatever requests overlap, proved for     *)
(* every number of sessions and of orders and every value of the bounds.   *)
(***************************************************************************)
EXTENDS OrderSessions, OrderRulesProofs

-----------------------------------------------------------------------------
(* The row that an UPDATE leaves.                                           *)

Columns ==
  {"number", "client", "vendor", "sale", "status", "total", "original", "attempts",
   "person", "confirmed", "accepted", "delivered", "cancelled"}

LEMMA RowColumns ==
  ASSUME NEW row \in Rows
  PROVE  DOMAIN row = Columns
  BY DEF Rows, Columns

LEMMA MergeColumn ==
  ASSUME NEW old \in Rows, NEW new \in Rows, NEW current \in Rows, NEW col \in Columns
  PROVE  Merge(old, new, current)[col]
           = IF new[col] # old[col] THEN new[col] ELSE current[col]
  BY RowColumns DEF Merge

LEMMA MergeType ==
  ASSUME NEW old \in Rows, NEW new \in Rows, NEW current \in Rows
  PROVE  Merge(old, new, current) \in Rows
<1> DEFINE m == Merge(old, new, current)
<1>1. m = [col \in Columns |-> IF new[col] # old[col] THEN new[col] ELSE current[col]]
  BY RowColumns DEF Merge
<1>2. /\ m["number"] \in Numbers /\ m["client"] \in Clients \cup Wholesalers
      /\ m["vendor"] \in Vendors \cup {NoVendor} /\ m["sale"] \in SaleTypes
      /\ m["status"] \in Statuses /\ m["total"] \in Amounts
      /\ m["original"] \in Amounts \cup {NoTotal} /\ m["attempts"] \in Nat
      /\ m["person"] \in Persons \cup {NoPerson}
  BY <1>1 DEF Columns, Rows
<1>3. /\ m["confirmed"] \in BOOLEAN /\ m["accepted"] \in BOOLEAN
      /\ m["delivered"] \in BOOLEAN /\ m["cancelled"] \in BOOLEAN
  BY <1>1 DEF Columns, Rows
<1> HIDE DEF m
<1> DEFINE asRecord ==
             [number |-> m["number"], client |-> m["client"], vendor |-> m["vendor"],
              sale |-> m["sale"], status |-> m["status"], total |-> m["total"],
              original |-> m["original"], attempts |-> m["attempts"],
              person |-> m["person"], confirmed |-> m["confirmed"],
              accepted |-> m["accepted"], delivered |-> m["delivered"],
              cancelled |-> m["cancelled"]]
<1>4. m = asRecord
  BY <1>1 DEF Columns
<1>5. asRecord \in Rows
  BY <1>2, <1>3 DEF Rows
<1> HIDE DEF asRecord
<1> QED
  BY <1>4, <1>5 DEF m

LEMMA MergeFields ==
  ASSUME NEW old \in Rows, NEW new \in Rows, NEW current \in Rows
  PROVE  LET m == Merge(old, new, current) IN
         /\ m.number = IF new.number # old.number THEN new.number ELSE current.number
         /\ m.status = IF new.status # old.status THEN new.status ELSE current.status
         /\ m.total = IF new.total # old.total THEN new.total ELSE current.total
         /\ m.attempts = IF new.attempts # old.attempts THEN new.attempts ELSE current.attempts
  BY MergeColumn DEF Columns

LEMMA MergeDates ==
  ASSUME NEW old \in Rows, NEW new \in Rows, NEW current \in Rows
  PROVE  LET m == Merge(old, new, current) IN
         /\ m.confirmed <=> IF new.confirmed <=> old.confirmed
                            THEN current.confirmed ELSE new.confirmed
         /\ m.delivered <=> IF new.delivered <=> old.delivered
                            THEN current.delivered ELSE new.delivered
         /\ m.cancelled <=> IF new.cancelled <=> old.cancelled
                            THEN current.cancelled ELSE new.cancelled
<1>1. /\ new.confirmed \in BOOLEAN /\ old.confirmed \in BOOLEAN
      /\ new.delivered \in BOOLEAN /\ old.delivered \in BOOLEAN
      /\ new.cancelled \in BOOLEAN /\ old.cancelled \in BOOLEAN
  BY DEF Rows
<1> QED
  BY <1>1, MergeColumn DEF Columns

-----------------------------------------------------------------------------
(* The inductive invariant.  What a session loaded may be out of date, but   *)
(* it was true once: the status it saw is in the history, and so is what     *)
(* each date it saw set says; the attempts it saw are no more than those of  *)
(* the history; the lines it found available are all that still are.         *)

Seen(h, s) == \E i \in DOMAIN h : h[i].to = s

Failures(h) == {i \in DOMAIN h : h[i].to = "delivery_failed"}

\* The allowed steps from the status that a session has seen.
Permitted(t) ==
  /\ t.op = "status" => <<t.row.status, t.to>> \in VALID_TRANSITIONS
  /\ t.op \in {"mark", "marking"} => t.row.status = "pending"
  /\ t.op \in {"accept", "accepting", "reject"} => t.row.status = "partially_available"

OnceTrue(row, h) ==
  /\ Seen(h, row.status)
  /\ row.confirmed => Seen(h, "confirmed")
  /\ row.delivered => Seen(h, "delivered_to_client")
  /\ row.cancelled => Seen(h, "cancelled")
  /\ row.attempts <= Cardinality(Failures(h))

Found(t, ls, c) ==
  /\ t.op \in {"marking", "accepting"} =>
       t.available \subseteq DOMAIN ls /\ DOMAIN ls \ c \subseteq t.available
  /\ t.op = "marking" => t.marked \subseteq DOMAIN ls

Fits(t, ls, c, h) == Permitted(t) /\ OnceTrue(t.row, h) /\ Found(t, ls, c)

HeldFits ==
  \A s \in Sessions :
    /\ OnOrder(s) =>
         Fits(tx[s], lines[tx[s].order], cancelled[tx[s].order], history[tx[s].order])
    /\ tx[s].op = "create" => tx[s].number.count <= Cardinality(DOMAIN orders) + 1

\* The invariants of one order.
Ends(row, h) ==
  /\ h # <<>>
  /\ h[1] = CreationEntry
  /\ h[Len(h)].to = row.status
  /\ \A i \in 2..Len(h) :
       /\ <<h[i].from, h[i].to>> \in VALID_TRANSITIONS
       /\ \E j \in 1..(i - 1) : h[j].to = h[i].from

Charged(row, ls, c) ==
  \E S \in SUBSET DOMAIN ls : DOMAIN ls \ c \subseteq S /\ row.total = LineSum(ls, S)

Dated(row, h) ==
  /\ row.confirmed <=> Seen(h, "confirmed")
  /\ row.delivered <=> Seen(h, "delivered_to_client")
  /\ row.cancelled <=> Seen(h, "cancelled")

OrderOK(row, ls, c, h) ==
  /\ Ends(row, h) /\ Charged(row, ls, c) /\ Dated(row, h)
  /\ row.attempts <= Cardinality(Failures(h))

IInv ==
  /\ TypeOK
  /\ NumbersDense
  /\ \A o \in DOMAIN orders : OrderOK(orders[o], lines[o], cancelled[o], history[o])
  /\ HeldFits

-----------------------------------------------------------------------------
(* One more entry in a history.                                              *)

LEMMA Appended ==
  ASSUME NEW h \in Seq(Entries), NEW e \in Entries
  PROVE  LET g == Append(h, e) IN
         /\ g \in Seq(Entries) /\ Len(g) = Len(h) + 1 /\ g[Len(h) + 1] = e
         /\ \A i \in DOMAIN h : i \in DOMAIN g /\ g[i] = h[i]
         /\ DOMAIN h = 1..Len(h) /\ DOMAIN g = 1..(Len(h) + 1) /\ Len(h) \in Nat
  OBVIOUS

LEMMA SeenGrows ==
  ASSUME NEW h \in Seq(Entries), NEW e \in Entries, NEW s
  PROVE  Seen(Append(h, e), s) <=> Seen(h, s) \/ e.to = s
<1> DEFINE g == Append(h, e)
<1>1. /\ Len(g) = Len(h) + 1 /\ g[Len(h) + 1] = e
      /\ \A i \in DOMAIN h : i \in DOMAIN g /\ g[i] = h[i]
      /\ DOMAIN h = 1..Len(h) /\ DOMAIN g = 1..(Len(h) + 1) /\ Len(h) \in Nat
  BY Appended
<1>2. \A i \in DOMAIN g : i \in DOMAIN h \/ i = Len(h) + 1
  BY <1>1
<1>3. Len(h) + 1 \in DOMAIN g
  BY <1>1
<1> HIDE DEF g
<1>4. Seen(g, s) => Seen(h, s) \/ e.to = s
  <2> SUFFICES ASSUME NEW i \in DOMAIN g, g[i].to = s PROVE Seen(h, s) \/ e.to = s
    BY DEF Seen
  <2> QED
    BY <1>1, <1>2 DEF Seen
<1>5. Seen(h, s) \/ e.to = s => Seen(g, s)
  BY <1>1, <1>3 DEF Seen
<1> QED
  BY <1>4, <1>5 DEF g

LEMMA FailuresGrow ==
  ASSUME NEW h \in Seq(Entries), NEW e \in Entries
  PROVE  /\ Cardinality(Failures(h)) \in Nat
         /\ Cardinality(Failures(Append(h, e)))
              = Cardinality(Failures(h)) + (IF e.to = "delivery_failed" THEN 1 ELSE 0)
<1> DEFINE g == Append(h, e)
           n == Len(h) + 1
<1>0. /\ g[n] = e /\ \A i \in DOMAIN h : i \in DOMAIN g /\ g[i] = h[i]
      /\ DOMAIN h = 1..Len(h) /\ DOMAIN g = 1..n /\ Len(h) \in Nat
  BY Appended
<1> HIDE DEF g
<1>1. /\ g[n] = e /\ \A i \in DOMAIN h : i \in DOMAIN g /\ g[i] = h[i]
      /\ DOMAIN h = 1..Len(h) /\ DOMAIN g = DOMAIN h \cup {n} /\ n \notin DOMAIN h
      /\ Len(h) \in Nat
  <2>1. Len(h) \in Nat
    BY <1>0
  <2>2. 1..n = 1..Len(h) \cup {n} /\ n \notin 1..Len(h)
    BY <2>1
  <2> HIDE DEF n
  <2> QED
    BY <1>0, <2>2
<1>2. IsFiniteSet(Failures(h)) /\ n \notin Failures(h)
  <2>1. IsFiniteSet(1..Len(h))
    BY <1>1, FS_Interval
  <2>2. Failures(h) \in SUBSET (1..Len(h))
    BY <1>1 DEF Failures
  <2>3. IsFiniteSet(Failures(h))
    BY <2>1, <2>2, FS_Subset
  <2> QED
    BY <1>1, <2>3 DEF Failures
<1> HIDE DEF g, n
<1>3. Failures(g) = IF e.to = "delivery_failed" THEN Failures(h) \cup {n} ELSE Failures(h)
  BY <1>1 DEF Failures
<1>4. Cardinality(Failures(h)) \in Nat
  BY <1>2, FS_CardinalityType
<1>5. Cardinality(Failures(h) \cup {n}) = Cardinality(Failures(h)) + 1
  BY <1>2, FS_AddElement
<1> QED
  BY <1>3, <1>4, <1>5 DEF g

\* What a session has seen stays true once.
LEMMA OnceTrueStays ==
  ASSUME NEW row \in Rows, NEW h \in Seq(Entries), NEW e \in Entries, OnceTrue(row, h)
  PROVE  OnceTrue(row, Append(h, e))
<1>1. Cardinality(Failures(h)) <= Cardinality(Failures(Append(h, e)))
  BY FailuresGrow
<1>2. row.attempts <= Cardinality(Failures(Append(h, e)))
  <2>1. /\ row.attempts \in Nat /\ Cardinality(Failures(h)) \in Nat
        /\ Cardinality(Failures(Append(h, e))) \in Nat
    BY FailuresGrow DEF Rows
  <2> QED
    BY <1>1, <2>1 DEF OnceTrue
<1> QED
  BY <1>2, SeenGrows DEF OnceTrue

LEMMA EndsStays ==
  ASSUME NEW row, NEW new, NEW h \in Seq(Entries), NEW e \in Entries, Ends(row, h),
         <<e.from, e.to>> \in VALID_TRANSITIONS, Seen(h, e.from), new.status = e.to
  PROVE  Ends(new, Append(h, e))
<1> DEFINE g == Append(h, e)
<1>1. /\ Len(g) = Len(h) + 1 /\ g[Len(h) + 1] = e
      /\ \A i \in DOMAIN h : i \in DOMAIN g /\ g[i] = h[i]
      /\ DOMAIN h = 1..Len(h) /\ DOMAIN g = 1..(Len(h) + 1) /\ Len(h) \in Nat
  BY Appended
<1>2. Len(h) # 0 /\ 1 \in DOMAIN h
  BY <1>1 DEF Ends
<1>3. g # <<>> /\ g[1] = CreationEntry /\ g[Len(g)].to = new.status
  BY <1>1, <1>2 DEF Ends
<1> HIDE DEF g
<1>4. ASSUME NEW i \in 2..Len(g)
      PROVE  /\ <<g[i].from, g[i].to>> \in VALID_TRANSITIONS
             /\ \E j \in 1..(i - 1) : g[j].to = g[i].from
  <2>1. CASE i = Len(h) + 1
    <3>1. PICK j \in DOMAIN h : h[j].to = e.from
      BY DEF Seen
    <3>2. j \in 1..(i - 1) /\ g[j].to = g[i].from
      BY <1>1, <2>1, <3>1
    <3> QED
      BY <1>1, <2>1, <3>2
  <2>2. CASE i # Len(h) + 1
    <3>1. i \in 2..Len(h) /\ i \in DOMAIN h
      BY <1>1, <2>2
    <3>2. PICK j \in 1..(i - 1) : h[j].to = h[i].from
      BY <3>1 DEF Ends
    <3>3. j \in DOMAIN h
      BY <1>1, <3>1
    <3> QED
      BY <1>1, <3>1, <3>2, <3>3 DEF Ends
  <2> QED
    BY <2>1, <2>2
<1> QED
  BY <1>3, <1>4 DEF Ends, g

\* What a handler computes from the row it loaded, and the entry it records.
Computed(t, new, e, ls, c) ==
  /\ e.from = t.row.status /\ e.to = new.status
  /\ <<e.from, e.to>> \in VALID_TRANSITIONS
  /\ new.number = t.row.number
  /\ new.attempts = t.row.attempts + (IF e.to = "delivery_failed" THEN 1 ELSE 0)
  /\ new.confirmed <=> t.row.confirmed \/ e.to = "confirmed"
  /\ new.delivered <=> t.row.delivered \/ e.to = "delivered_to_client"
  /\ new.cancelled <=> t.row.cancelled \/ e.to = "cancelled"
  /\ new.total = t.row.total \/ Charged(new, ls, c)

\* Its commit keeps the order in order, whatever the row has become meanwhile.
LEMMA CommitOK ==
  ASSUME NEW row \in Rows, NEW ls, NEW c, NEW h \in Seq(Entries), OrderOK(row, ls, c, h),
         NEW t, t.row \in Rows, OnceTrue(t.row, h), NEW new \in Rows, NEW e \in Entries,
         Computed(t, new, e, ls, c), NEW M
  PROVE  OrderOK(Merge(t.row, new, row), ls, c \cup M, Append(h, e))
<1> DEFINE m == Merge(t.row, new, row)
           g == Append(h, e)
           old == t.row
<1>1. /\ m.status = IF new.status # old.status THEN new.status ELSE row.status
      /\ m.total = IF new.total # old.total THEN new.total ELSE row.total
      /\ m.attempts = IF new.attempts # old.attempts THEN new.attempts ELSE row.attempts
  BY MergeFields
<1>2. old.status # new.status
  BY DEF Computed, VALID_TRANSITIONS
<1>3. Ends(m, g)
  <2>1. m.status = e.to /\ Seen(h, e.from)
    BY <1>1, <1>2 DEF Computed, OnceTrue
  <2> HIDE DEF m
  <2> QED
    BY <2>1, EndsStays DEF Computed, OrderOK
<1>4. Charged(m, ls, c \cup M)
  <2>1. Charged(row, ls, c)
    BY DEF OrderOK
  <2>2. PICK S \in SUBSET DOMAIN ls : DOMAIN ls \ c \subseteq S /\ m.total = LineSum(ls, S)
    BY <1>1, <2>1 DEF Computed, Charged
  <2> HIDE DEF m
  <2> QED
    BY <2>2 DEF Charged
<1>5. Dated(m, g)
  <2>1. /\ m.confirmed <=> IF new.confirmed <=> old.confirmed
                           THEN row.confirmed ELSE new.confirmed
        /\ m.delivered <=> IF new.delivered <=> old.delivered
                           THEN row.delivered ELSE new.delivered
        /\ m.cancelled <=> IF new.cancelled <=> old.cancelled
                           THEN row.cancelled ELSE new.cancelled
    BY MergeDates
  <2>2. /\ Seen(g, "confirmed") <=> Seen(h, "confirmed") \/ e.to = "confirmed"
        /\ Seen(g, "delivered_to_client")
             <=> Seen(h, "delivered_to_client") \/ e.to = "delivered_to_client"
        /\ Seen(g, "cancelled") <=> Seen(h, "cancelled") \/ e.to = "cancelled"
    BY SeenGrows
  <2> HIDE DEF m, g
  <2> QED
    BY <2>1, <2>2 DEF Dated, OrderOK, OnceTrue, Computed, old
<1>6. m.attempts <= Cardinality(Failures(g))
  <2>1. /\ Cardinality(Failures(h)) \in Nat
        /\ Cardinality(Failures(g))
             = Cardinality(Failures(h)) + (IF e.to = "delivery_failed" THEN 1 ELSE 0)
    BY FailuresGrow
  <2>2. old.attempts \in Nat /\ row.attempts \in Nat
    BY DEF Rows
  <2>3. /\ new.attempts = old.attempts + (IF e.to = "delivery_failed" THEN 1 ELSE 0)
        /\ old.attempts <= Cardinality(Failures(h)) /\ row.attempts <= Cardinality(Failures(h))
    BY DEF Computed, OnceTrue, OrderOK
  <2> HIDE DEF m, g, old
  <2> QED
    BY <1>1, <2>1, <2>2, <2>3
<1> QED
  BY <1>3, <1>4, <1>5, <1>6 DEF OrderOK

-----------------------------------------------------------------------------
(* The kinds of steps of a session.                                          *)

Held == {Idle} \cup CreateTx \cup StatusTx \cup MarkTx \cup MarkingTx
               \cup AnswerTx \cup AcceptingTx

LEMMA HeldTypes ==
  ASSUME TypeOK, NEW s \in Sessions
  PROVE  LET t == tx[s] IN
         /\ t.op = "create" => t \in CreateTx
         /\ t.op = "status" => t \in StatusTx
         /\ t.op = "mark" => t \in MarkTx
         /\ t.op = "marking" => t \in MarkingTx
         /\ t.op \in {"accept", "reject"} => t \in AnswerTx
         /\ t.op = "accepting" => t \in AcceptingTx
<1> DEFINE t == tx[s]
<1>1. t \in Held
  BY DEF TypeOK, Held
<1> HIDE DEF t
<1>2. /\ Idle.op = "idle"
      /\ \A x \in CreateTx : x.op = "create"
      /\ \A x \in StatusTx : x.op = "status"
      /\ \A x \in MarkTx : x.op = "mark"
      /\ \A x \in MarkingTx : x.op = "marking"
      /\ \A x \in AnswerTx : x.op \in {"accept", "reject"}
      /\ \A x \in AcceptingTx : x.op = "accepting"
  BY DEF Idle, CreateTx, StatusTx, MarkTx, MarkingTx, AnswerTx, AcceptingTx
<1> QED
  BY <1>1, <1>2 DEF Held, t

LEMMA HeldOrder ==
  ASSUME TypeOK, NEW s \in Sessions, OnOrder(s)
  PROVE  tx[s].order \in DOMAIN orders /\ tx[s].row \in Rows /\ tx[s].user \in Users
<1>1. tx[s] \in Held /\ tx[s].op # "idle" /\ tx[s].op # "create"
  BY DEF TypeOK, OnOrder, Held
<1>2. tx[s] \in StatusTx \cup MarkTx \cup MarkingTx \cup AnswerTx \cup AcceptingTx
  BY <1>1 DEF Held, Idle, CreateTx
<1> QED
  BY <1>2 DEF TypeOK, StatusTx, MarkTx, MarkingTx, AnswerTx, AcceptingTx

\* The lines and marks of an order that exists.
LEMMA OrderTypes ==
  ASSUME TypeOK, NEW o \in DOMAIN orders
  PROVE  /\ orders[o] \in Rows /\ lines[o] \in LineLists /\ history[o] \in Seq(Entries)
         /\ cancelled[o] \subseteq DOMAIN lines[o] /\ DOMAIN lines[o] \subseteq 1..MaxLines
         /\ o \in OrderIds
  BY LinePositions DEF TypeOK

\* A session loads, reads on or ends without a commit.
LEMMA ReadKeeps ==
  ASSUME IInv, NEW s \in Sessions, NEW t \in Held, Hold(s, t), UNCHANGED tables,
         t.op \notin {"idle", "create"} =>
           /\ t.order \in DOMAIN orders
           /\ Fits(t, lines[t.order], cancelled[t.order], history[t.order]),
         t.op = "create" => t.number.count <= Cardinality(DOMAIN orders) + 1
  PROVE  IInv'
<1>1. /\ orders' = orders /\ lines' = lines /\ cancelled' = cancelled /\ history' = history
      /\ tx' = [tx EXCEPT ![s] = t] /\ year' = year
  BY DEF Hold, tables
<1>2. tx \in [Sessions -> Held]
  BY DEF IInv, TypeOK, Held
<1>3. tx' \in [Sessions -> Held] /\ \A x \in Sessions : tx'[x] = IF x = s THEN t ELSE tx[x]
  BY <1>1, <1>2
<1>4. TypeOK'
  BY <1>1, <1>3 DEF IInv, TypeOK, OnOrder, Held
<1>5. HeldFits'
  BY <1>1, <1>3 DEF IInv, HeldFits, OnOrder
<1>6. NumbersDense'
  BY <1>1 DEF IInv, NumbersDense
<1> QED
  BY <1>1, <1>4, <1>5, <1>6 DEF IInv

\* A session commits what it computed for an order.
LEMMA CommitKeeps ==
  ASSUME IInv, NEW s \in Sessions, OnOrder(s), NEW new \in Rows, NEW e \in Entries,
         NEW M \in SUBSET DOMAIN lines[tx[s].order],
         Computed(tx[s], new, e, lines[tx[s].order], cancelled[tx[s].order]),
         Update(tx[s].order, tx[s].row, new), Record(tx[s].order, e), Hold(s, Idle),
         cancelled' = [cancelled EXCEPT ![tx[s].order] = @ \cup M], lines' = lines
  PROVE  IInv'
<1> DEFINE t == tx[s]
           o == t.order
           m == Merge(t.row, new, orders[o])
           g == Append(history[o], e)
<1>1. TypeOK /\ o \in DOMAIN orders /\ t.row \in Rows
  BY HeldOrder DEF IInv
<1>2. /\ orders[o] \in Rows /\ lines[o] \in LineLists /\ history[o] \in Seq(Entries)
      /\ cancelled[o] \subseteq DOMAIN lines[o] /\ DOMAIN lines[o] \subseteq 1..MaxLines
  BY <1>1, OrderTypes
<1>3. m \in Rows /\ g \in Seq(Entries)
  BY <1>1, <1>2, MergeType, Appended
<1>4. OnceTrue(t.row, history[o])
  BY DEF IInv, HeldFits, Fits
<1>5. OrderOK(m, lines[o], cancelled[o] \cup M, g)
  BY <1>1, <1>2, <1>4, CommitOK DEF IInv
<1>6. m.number = orders[o].number
  BY <1>1, <1>2, MergeFields DEF Computed
<1>7. /\ orders' = [orders EXCEPT ![o] = m] /\ history' = [history EXCEPT ![o] = g]
      /\ cancelled' = [cancelled EXCEPT ![o] = @ \cup M] /\ tx' = [tx EXCEPT ![s] = Idle]
      /\ year' = year
  BY DEF Update, Record, Hold
<1> HIDE DEF m, g
<1>8. /\ DOMAIN orders' = DOMAIN orders
      /\ \A x \in DOMAIN orders : orders'[x] = IF x = o THEN m ELSE orders[x]
      /\ \A x \in DOMAIN orders : history'[x] = IF x = o THEN g ELSE history[x]
      /\ \A x \in DOMAIN orders :
           cancelled'[x] = IF x = o THEN cancelled[o] \cup M ELSE cancelled[x]
  BY <1>1, <1>7 DEF TypeOK
<1>9. tx' \in [Sessions -> Held] /\ \A x \in Sessions : tx'[x] = IF x = s THEN Idle ELSE tx[x]
  BY <1>1, <1>7 DEF TypeOK, Held
<1>10. TypeOK'
  <2>1. orders' \in [DOMAIN orders' -> Rows] /\ history' \in [DOMAIN orders' -> Seq(Entries)]
    BY <1>1, <1>3, <1>7 DEF TypeOK
  <2>2. cancelled' \in [DOMAIN orders' -> SUBSET (1..MaxLines)]
    BY <1>1, <1>2, <1>7 DEF TypeOK
  <2>3. \A x \in DOMAIN orders' : cancelled'[x] \subseteq DOMAIN lines'[x]
    BY <1>1, <1>2, <1>8 DEF TypeOK
  <2>4. \A x \in Sessions : OnOrder(x)' => tx'[x].order \in DOMAIN orders'
    BY <1>1, <1>8, <1>9 DEF TypeOK, OnOrder, Idle
  <2> QED
    BY <1>1, <1>7, <1>8, <1>9, <2>1, <2>2, <2>3, <2>4 DEF TypeOK, Held
<1>11. NumbersDense'
  <2>1. \A x \in DOMAIN orders : orders'[x].number = orders[x].number
    BY <1>6, <1>8
  <2> QED
    BY <1>8, <2>1 DEF IInv, NumbersDense
<1>12. \A x \in DOMAIN orders' : OrderOK(orders'[x], lines'[x], cancelled'[x], history'[x])
  BY <1>5, <1>8 DEF IInv
<1>13. HeldFits'
  <2> SUFFICES ASSUME NEW x \in Sessions
               PROVE  /\ OnOrder(x)' =>
                           Fits(tx'[x], lines'[tx'[x].order], cancelled'[tx'[x].order],
                                history'[tx'[x].order])
                      /\ tx'[x].op = "create" =>
                           tx'[x].number.count <= Cardinality(DOMAIN orders') + 1
    BY DEF HeldFits
  <2>1. CASE x = s
    BY <1>9, <2>1 DEF OnOrder, Idle
  <2>2. CASE x # s
    <3>1. tx'[x] = tx[x]
      BY <1>9, <2>2
    <3>2. tx'[x].op = "create" => tx'[x].number.count <= Cardinality(DOMAIN orders') + 1
      BY <1>8, <3>1 DEF IInv, HeldFits
    <3>3. ASSUME OnOrder(x)
          PROVE  Fits(tx[x], lines[tx[x].order], cancelled'[tx[x].order],
                      history'[tx[x].order])
      <4>1. /\ tx[x].order \in DOMAIN orders /\ tx[x].row \in Rows
            /\ Fits(tx[x], lines[tx[x].order], cancelled[tx[x].order], history[tx[x].order])
        BY <1>1, <3>3, HeldOrder DEF IInv, HeldFits
      <4>2. CASE tx[x].order # o
        BY <1>8, <4>1, <4>2
      <4>3. CASE tx[x].order = o
        <5>1. OnceTrue(tx[x].row, g)
          BY <1>2, <4>1, <4>3, OnceTrueStays DEF Fits, g
        <5>2. Found(tx[x], lines[o], cancelled[o] \cup M)
          BY <4>1, <4>3 DEF Fits, Found
        <5> QED
          BY <1>8, <4>1, <4>3, <5>1, <5>2 DEF Fits
      <4> QED
        BY <4>2, <4>3
    <3>4. OnOrder(x)' <=> OnOrder(x)
      BY <3>1 DEF OnOrder
    <3> QED
      BY <3>1, <3>2, <3>3, <3>4
  <2> QED
    BY <2>1, <2>2
<1> QED
  BY <1>10, <1>11, <1>12, <1>13 DEF IInv

\* The same of a commit that marks no line.
LEMMA CommitNoMarkKeeps ==
  ASSUME IInv, NEW s \in Sessions, OnOrder(s), NEW new \in Rows, NEW e \in Entries,
         Computed(tx[s], new, e, lines[tx[s].order], cancelled[tx[s].order]),
         Update(tx[s].order, tx[s].row, new), Record(tx[s].order, e), Hold(s, Idle),
         cancelled' = cancelled, lines' = lines
  PROVE  IInv'
<1> DEFINE M == {}
<1>1. cancelled' = [cancelled EXCEPT ![tx[s].order] = @ \cup M]
  BY DEF IInv, TypeOK
<1>2. M \in SUBSET DOMAIN lines[tx[s].order]
  OBVIOUS
<1> HIDE DEF M
<1> QED
  BY <1>1, <1>2, CommitKeeps

-----------------------------------------------------------------------------
(* The steps that load.                                                      *)

\* A row is true when it is loaded.
LEMMA LoadedTrue ==
  ASSUME IInv, NEW o \in DOMAIN orders
  PROVE  OnceTrue(orders[o], history[o])
<1>1. OrderOK(orders[o], lines[o], cancelled[o], history[o]) /\ history[o] \in Seq(Entries)
  BY OrderTypes DEF IInv
<1>2. Len(history[o]) \in DOMAIN history[o]
  BY <1>1 DEF OrderOK, Ends
<1> QED
  BY <1>1, <1>2 DEF OrderOK, Ends, Dated, Seen, OnceTrue

LEMMA CountOrdersKeeps ==
  ASSUME IInv, NEW s \in Sessions, NEW c \in Clients \cup Wholesalers, NEW b \in Baskets,
         CountOrders(s, c, b)
  PROVE  IInv'
<1> DEFINE n == Cardinality(DOMAIN orders)
           ls == PricedLines(b, SaleType(c))
           number == generate_order_number(year, n)
           t == [op |-> "create", client |-> c, lines |-> ls, number |-> number]
<1>1. Hold(s, t) /\ UNCHANGED tables
  BY DEF CountOrders
<1>2. n \in Nat
  BY FS_CardinalityType DEF IInv, TypeOK
<1>3. ls \in LineLists
  BY PricedIsLineList DEF SaleType, SaleTypes
<1>4. number \in Numbers /\ number.count = n + 1
  BY <1>2, NumberType DEF IInv, TypeOK, generate_order_number
<1>5. t.op = "create" /\ t.number = number
  OBVIOUS
<1>6. number.count <= n + 1
  BY <1>2, <1>4
<1> HIDE DEF n, ls, number
<1>7. t \in Held
  BY <1>3, <1>4 DEF CreateTx, Held
<1> HIDE DEF t
<1> QED
  BY <1>1, <1>5, <1>6, <1>7, ReadKeeps DEF n

LEMMA LoadForStatusKeeps ==
  ASSUME IInv, NEW s \in Sessions, NEW o \in DOMAIN orders, NEW u \in Users,
         NEW to \in Statuses, NEW p \in Persons \cup {NoPerson}, LoadForStatus(s, u, o, to, p)
  PROVE  IInv'
<1> DEFINE t == [op |-> "status", user |-> u, order |-> o, row |-> orders[o],
                 to |-> to, person |-> p]
<1>1. Hold(s, t) /\ UNCHANGED tables /\ <<orders[o].status, to>> \in VALID_TRANSITIONS
  BY DEF LoadForStatus, StatusAllowed, ValidateTransition
<1>2. t.op = "status" /\ t.order = o /\ t.row = orders[o] /\ t.to = to
  OBVIOUS
<1>3. t \in Held
  BY OrderTypes DEF IInv, StatusTx, Held
<1> HIDE DEF t
<1>4. Fits(t, lines[o], cancelled[o], history[o])
  BY <1>1, <1>2, LoadedTrue DEF Fits, Permitted, Found
<1> QED
  BY <1>1, <1>2, <1>3, <1>4, ReadKeeps

LEMMA LoadForMarkKeeps ==
  ASSUME IInv, NEW s \in Sessions, NEW o \in DOMAIN orders, NEW u \in Users,
         NEW requested \in SUBSET Variants, LoadForMark(s, u, o, requested)
  PROVE  IInv'
<1> DEFINE t == [op |-> "mark", user |-> u, order |-> o, row |-> orders[o],
                 requested |-> requested]
<1>1. Hold(s, t) /\ UNCHANGED tables /\ orders[o].status = "pending"
  BY DEF LoadForMark, MarkAllowed
<1>2. t.op = "mark" /\ t.order = o /\ t.row = orders[o]
  OBVIOUS
<1>3. t \in Held
  BY OrderTypes DEF IInv, MarkTx, Held
<1> HIDE DEF t
<1>4. Fits(t, lines[o], cancelled[o], history[o])
  BY <1>1, <1>2, LoadedTrue DEF Fits, Permitted, Found
<1> QED
  BY <1>1, <1>2, <1>3, <1>4, ReadKeeps

LEMMA LoadForAnswerKeeps ==
  ASSUME IInv, NEW s \in Sessions, NEW o \in DOMAIN orders, NEW u \in Users,
         NEW answer \in {"accept", "reject"}, LoadForAnswer(s, u, o, answer)
  PROVE  IInv'
<1> DEFINE t == [op |-> answer, user |-> u, order |-> o, row |-> orders[o]]
<1>1. Hold(s, t) /\ UNCHANGED tables /\ orders[o].status = "partially_available"
  BY DEF LoadForAnswer, MayAnswer, AcceptAllowed
<1>2. t.op \in {"accept", "reject"} /\ t.order = o /\ t.row = orders[o]
  OBVIOUS
<1>3. t \in Held
  BY OrderTypes DEF IInv, AnswerTx, Held
<1> HIDE DEF t
<1>4. Fits(t, lines[o], cancelled[o], history[o])
  BY <1>1, <1>2, LoadedTrue DEF Fits, Permitted, Found
<1> QED
  BY <1>1, <1>2, <1>3, <1>4, ReadKeeps

LEMMA ReadForMarkKeeps ==
  ASSUME IInv, NEW s \in Sessions, ReadForMark(s)
  PROVE  IInv'
<1> DEFINE o == tx[s].order
           available == AvailableLines(lines[o], cancelled[o])
<1>1. PICK M \in Markings(lines[o], tx[s].requested) :
        Hold(s, [op |-> "marking", user |-> tx[s].user, order |-> o, row |-> tx[s].row,
                 available |-> available, marked |-> M])
  BY DEF ReadForMark
<1> DEFINE t == [op |-> "marking", user |-> tx[s].user, order |-> o, row |-> tx[s].row,
                 available |-> available, marked |-> M]
<1>2. OnOrder(s) /\ tx[s].op = "mark" /\ UNCHANGED tables
  BY DEF ReadForMark, OnOrder
<1>3. o \in DOMAIN orders /\ tx[s].row \in Rows /\ tx[s].user \in Users /\ TypeOK
  BY <1>2, HeldOrder DEF IInv
<1>4. o \in OrderIds /\ DOMAIN lines[o] \subseteq 1..MaxLines
  BY <1>3, OrderTypes
<1>5. M \subseteq DOMAIN lines[o] /\ available = DOMAIN lines[o] \ cancelled[o]
  BY DEF Markings, AvailableLines
<1>6. /\ t.op = "marking" /\ t.order = o /\ t.row = tx[s].row /\ t.available = available
      /\ t.marked = M
  OBVIOUS
<1>7. Fits(tx[s], lines[o], cancelled[o], history[o])
  BY <1>2 DEF IInv, HeldFits
<1>8. t \in Held
  <2> HIDE DEF o, available
  <2> QED
    BY <1>3, <1>4, <1>5 DEF MarkingTx, Held
<1> HIDE DEF t
<1>9. Fits(t, lines[o], cancelled[o], history[o])
  BY <1>2, <1>5, <1>6, <1>7 DEF Fits, Permitted, Found
<1> QED
  BY <1>1, <1>2, <1>3, <1>6, <1>8, <1>9, ReadKeeps DEF t

LEMMA ReadForAcceptKeeps ==
  ASSUME IInv, NEW s \in Sessions, ReadForAccept(s)
  PROVE  IInv'
<1> DEFINE o == tx[s].order
           available == AvailableLines(lines[o], cancelled[o])
           t == [op |-> "accepting", user |-> tx[s].user, order |-> o, row |-> tx[s].row,
                 available |-> available]
<1>1. Hold(s, t)
  BY DEF ReadForAccept
<1>2. OnOrder(s) /\ tx[s].op = "accept" /\ UNCHANGED tables
  BY DEF ReadForAccept, OnOrder
<1>3. o \in DOMAIN orders /\ tx[s].row \in Rows /\ tx[s].user \in Users /\ TypeOK
  BY <1>2, HeldOrder DEF IInv
<1>4. o \in OrderIds /\ DOMAIN lines[o] \subseteq 1..MaxLines
  BY <1>3, OrderTypes
<1>5. available = DOMAIN lines[o] \ cancelled[o]
  BY DEF AvailableLines
<1>6. /\ t.op = "accepting" /\ t.order = o /\ t.row = tx[s].row /\ t.available = available
  OBVIOUS
<1>7. Fits(tx[s], lines[o], cancelled[o], history[o])
  BY <1>2 DEF IInv, HeldFits
<1>8. t \in Held
  <2> HIDE DEF o, available
  <2> QED
    BY <1>3, <1>4, <1>5 DEF AcceptingTx, Held
<1> HIDE DEF t
<1>9. Fits(t, lines[o], cancelled[o], history[o])
  BY <1>2, <1>5, <1>6, <1>7 DEF Fits, Permitted, Found
<1> QED
  BY <1>1, <1>2, <1>3, <1>6, <1>8, <1>9, ReadKeeps

LEMMA RollbackKeeps ==
  ASSUME IInv, NEW s \in Sessions, Rollback(s)
  PROVE  IInv'
<1>1. Idle \in Held /\ Idle.op = "idle"
  BY DEF Held, Idle
<1> QED
  BY <1>1, ReadKeeps DEF Rollback

-----------------------------------------------------------------------------
(* The steps that commit.                                                    *)

LEMMA StatusComputed ==
  ASSUME NEW t \in StatusTx, <<t.row.status, t.to>> \in VALID_TRANSITIONS, NEW ls, NEW c
  PROVE  Computed(t, StatusRow(t.row, t.to, t.person),
                  StatusEntry(t.row, t.to, t.user, t.person), ls, c)
<1> DEFINE row == t.row
           new == StatusRow(row, t.to, t.person)
           e == StatusEntry(row, t.to, t.user, t.person)
<1>1. row \in Rows
  BY DEF StatusTx
<1>2. /\ new.status = t.to /\ new.number = row.number /\ new.total = row.total
      /\ new.attempts = row.attempts + (IF t.to = "delivery_failed" THEN 1 ELSE 0)
  BY <1>1 DEF StatusRow, Rows
<1>3. /\ new.confirmed <=> row.confirmed \/ t.to = "confirmed"
      /\ new.delivered <=> row.delivered \/ t.to = "delivered_to_client"
      /\ new.cancelled <=> row.cancelled \/ t.to = "cancelled"
  BY <1>1 DEF StatusRow, Rows
<1>4. e.from = row.status /\ e.to = t.to
  BY DEF StatusEntry, Entry
<1> HIDE DEF row, new, e
<1>5. Computed(t, new, e, ls, c)
  BY <1>2, <1>3, <1>4 DEF Computed, row
<1> QED
  BY <1>5 DEF new, e, row

LEMMA CommitStatusKeeps ==
  ASSUME IInv, NEW s \in Sessions, CommitStatus(s)
  PROVE  IInv'
<1> DEFINE t == tx[s]
           new == StatusRow(t.row, t.to, t.person)
           e == StatusEntry(t.row, t.to, t.user, t.person)
<1>1. /\ OnOrder(s) /\ t.op = "status" /\ t \in StatusTx /\ TypeOK
      /\ Update(t.order, t.row, new) /\ Record(t.order, e) /\ Hold(s, Idle)
      /\ lines' = lines /\ cancelled' = cancelled
  BY HeldTypes DEF CommitStatus, OnOrder, IInv
<1>2. /\ t.row \in Rows /\ t.to \in Statuses /\ t.user \in Users
      /\ t.person \in Persons \cup {NoPerson}
  BY <1>1 DEF StatusTx
<1>3. new \in Rows /\ e \in Entries
  BY <1>2, StatusRowType, EntryType
<1>4. <<t.row.status, t.to>> \in VALID_TRANSITIONS
  BY <1>1 DEF IInv, HeldFits, Fits, Permitted
<1>5. Computed(t, new, e, lines[t.order], cancelled[t.order])
  BY <1>1, <1>4, StatusComputed
<1> HIDE DEF new, e
<1> QED
  BY <1>1, <1>3, <1>5, CommitNoMarkKeeps

LEMMA CommitMarkKeeps ==
  ASSUME IInv, NEW s \in Sessions, CommitMark(s)
  PROVE  IInv'
<1> DEFINE t == tx[s]
           o == t.order
           new == MarkRow(t.row, lines[o], t.available)
           e == Entry("pending", "partially_available", t.user, 0, NoPerson)
<1>1. /\ OnOrder(s) /\ t.op = "marking" /\ t \in MarkingTx /\ TypeOK
      /\ Update(o, t.row, new) /\ Record(o, e) /\ Hold(s, Idle)
      /\ lines' = lines /\ cancelled' = [cancelled EXCEPT ![o] = @ \cup t.marked]
  BY HeldTypes DEF CommitMark, OnOrder, IInv
<1>2. /\ t.row \in Rows /\ t.user \in Users /\ o \in DOMAIN orders
      /\ Fits(t, lines[o], cancelled[o], history[o])
  BY <1>1, HeldOrder DEF IInv, HeldFits
<1>3. /\ t.available \subseteq DOMAIN lines[o] /\ DOMAIN lines[o] \ cancelled[o] \subseteq t.available
      /\ t.marked \subseteq DOMAIN lines[o] /\ t.row.status = "pending"
  BY <1>1, <1>2 DEF Fits, Found, Permitted
<1>4. new \in Rows
  BY <1>1, <1>2, <1>3, MarkRowType, OrderTypes
<1>5. e \in Entries /\ e.from = "pending" /\ e.to = "partially_available"
  BY <1>2, PlainEntry DEF Statuses
<1>6. /\ new.status = "partially_available" /\ new.number = t.row.number
      /\ new.attempts = t.row.attempts /\ new.total = LineSum(lines[o], t.available)
  BY <1>2 DEF MarkRow, Rows
<1>7. /\ new.confirmed <=> t.row.confirmed
      /\ new.delivered <=> t.row.delivered
      /\ new.cancelled <=> t.row.cancelled
  BY <1>2 DEF MarkRow, Rows
<1> HIDE DEF new, e
<1>8. Charged(new, lines[o], cancelled[o])
  BY <1>3, <1>6 DEF Charged
<1>9. t.row.attempts \in Nat
  BY <1>2 DEF Rows
<1>10. Computed(t, new, e, lines[o], cancelled[o])
  BY <1>3, <1>5, <1>6, <1>7, <1>8, <1>9 DEF Computed, VALID_TRANSITIONS
<1> QED
  BY <1>1, <1>3, <1>4, <1>5, <1>10, CommitKeeps

LEMMA CommitAcceptKeeps ==
  ASSUME IInv, NEW s \in Sessions, CommitAccept(s)
  PROVE  IInv'
<1> DEFINE t == tx[s]
           o == t.order
           new == AcceptRow(t.row, lines[o], t.available)
           e == Entry("partially_available", "confirmed", t.user, 0, NoPerson)
<1>1. /\ OnOrder(s) /\ t.op = "accepting" /\ t \in AcceptingTx /\ TypeOK
      /\ Update(o, t.row, new) /\ Record(o, e) /\ Hold(s, Idle)
      /\ lines' = lines /\ cancelled' = cancelled
  BY HeldTypes DEF CommitAccept, OnOrder, IInv
<1>2. /\ t.row \in Rows /\ t.user \in Users /\ o \in DOMAIN orders
      /\ Fits(t, lines[o], cancelled[o], history[o])
  BY <1>1, HeldOrder DEF IInv, HeldFits
<1>3. /\ t.available \subseteq DOMAIN lines[o] /\ DOMAIN lines[o] \ cancelled[o] \subseteq t.available
      /\ t.row.status = "partially_available"
  BY <1>1, <1>2 DEF Fits, Found, Permitted
<1>4. new \in Rows
  BY <1>1, <1>2, <1>3, AcceptRowType, OrderTypes
<1>5. e \in Entries /\ e.from = "partially_available" /\ e.to = "confirmed"
  BY <1>2, PlainEntry DEF Statuses
<1>6. /\ new.status = "confirmed" /\ new.number = t.row.number
      /\ new.attempts = t.row.attempts /\ new.total = LineSum(lines[o], t.available)
  BY <1>2 DEF AcceptRow, Rows
<1>7. /\ new.confirmed
      /\ new.delivered <=> t.row.delivered
      /\ new.cancelled <=> t.row.cancelled
  BY <1>2 DEF AcceptRow, Rows
<1> HIDE DEF new, e
<1>9. Charged(new, lines[o], cancelled[o])
  BY <1>3, <1>6 DEF Charged
<1>10. t.row.attempts \in Nat
  BY <1>2 DEF Rows
<1>11. Computed(t, new, e, lines[o], cancelled[o])
  BY <1>3, <1>5, <1>6, <1>7, <1>9, <1>10 DEF Computed, VALID_TRANSITIONS
<1> QED
  BY <1>1, <1>4, <1>5, <1>11, CommitNoMarkKeeps

LEMMA CommitRejectKeeps ==
  ASSUME IInv, NEW s \in Sessions, CommitReject(s)
  PROVE  IInv'
<1> DEFINE t == tx[s]
           o == t.order
           new == RejectRow(t.row)
           e == Entry("partially_available", "cancelled", t.user, 0, NoPerson)
<1>1. /\ OnOrder(s) /\ t.op = "reject" /\ TypeOK
      /\ Update(o, t.row, new) /\ Record(o, e) /\ Hold(s, Idle)
      /\ lines' = lines /\ cancelled' = cancelled
  BY DEF CommitReject, OnOrder, IInv
<1>2. /\ t.row \in Rows /\ t.user \in Users /\ o \in DOMAIN orders
      /\ Fits(t, lines[o], cancelled[o], history[o])
  BY <1>1, HeldOrder DEF IInv, HeldFits
<1>3. t.row.status = "partially_available"
  BY <1>1, <1>2 DEF Fits, Permitted
<1>4. new \in Rows
  BY <1>2, RejectRowType
<1>5. e \in Entries /\ e.from = "partially_available" /\ e.to = "cancelled"
  BY <1>2, PlainEntry DEF Statuses
<1>6. /\ new.status = "cancelled" /\ new.number = t.row.number
      /\ new.attempts = t.row.attempts /\ new.total = t.row.total
  BY <1>2 DEF RejectRow, Rows
<1>7. /\ new.confirmed <=> t.row.confirmed
      /\ new.delivered <=> t.row.delivered
      /\ new.cancelled
  BY <1>2 DEF RejectRow, Rows
<1> HIDE DEF new, e
<1>9. t.row.attempts \in Nat
  BY <1>2 DEF Rows
<1>10. Computed(t, new, e, lines[o], cancelled[o])
  BY <1>3, <1>5, <1>6, <1>7, <1>9 DEF Computed, VALID_TRANSITIONS
<1> QED
  BY <1>1, <1>4, <1>5, <1>10, CommitNoMarkKeeps

LEMMA CommitCreateKeeps ==
  ASSUME IInv, NEW s \in Sessions, NEW o \in OrderIds, CommitCreate(s, o)
  PROVE  IInv'
<1> DEFINE t == tx[s]
           D == DOMAIN orders
           row == NewRow(t.number, t.client, t.lines)
           h == <<CreationEntry>>
<1>1. /\ TypeOK /\ o \notin D /\ t \in CreateTx /\ t.number.count <= Cardinality(D) + 1
      /\ NumberFree(t.number) /\ Hold(s, Idle)
      /\ orders' = With(orders, o, row) /\ lines' = With(lines, o, t.lines)
      /\ cancelled' = With(cancelled, o, {}) /\ history' = With(history, o, h)
  BY HeldTypes DEF IInv, CommitCreate, HeldFits
<1>2. /\ t.number \in Numbers /\ t.client \in Clients \cup Wholesalers /\ t.lines \in LineLists
  BY <1>1 DEF CreateTx
<1>3. row \in Rows /\ CreationEntry \in Entries
  BY <1>2, NewRowType DEF CreationEntry, Entry, Entries, Statuses
<1>4. /\ row.number = t.number /\ row.status = "pending" /\ row.attempts = 0
      /\ row.total = LineSum(t.lines, DOMAIN t.lines)
  BY DEF NewRow
<1>5. ~row.confirmed /\ ~row.delivered /\ ~row.cancelled
  BY DEF NewRow
<1>6. h \in Seq(Entries) /\ Len(h) = 1 /\ h[1] = CreationEntry /\ DOMAIN h = {1} /\ h # <<>>
  BY <1>3
<1>7. CreationEntry.to = "pending"
  BY DEF CreationEntry, Entry
<1>8. OrderOK(row, t.lines, {}, h)
  <2>1. Ends(row, h)
    BY <1>4, <1>6, <1>7 DEF Ends
  <2>2. Charged(row, t.lines, {})
    BY <1>4 DEF Charged
  <2>3. Dated(row, h)
    BY <1>5, <1>6, <1>7 DEF Dated, Seen
  <2>4. row.attempts <= Cardinality(Failures(h))
    <3>1. Failures(h) = {}
      BY <1>6, <1>7 DEF Failures
    <3> QED
      BY <1>4, <3>1, FS_EmptySet
  <2> QED
    BY <2>1, <2>2, <2>3, <2>4 DEF OrderOK
<1> HIDE DEF row, h, t
<1>9. /\ DOMAIN orders' = D \cup {o} /\ DOMAIN lines' = D \cup {o}
      /\ DOMAIN cancelled' = D \cup {o} /\ DOMAIN history' = D \cup {o}
      /\ orders'[o] = row /\ lines'[o] = t.lines /\ cancelled'[o] = {} /\ history'[o] = h
      /\ \A x \in D : /\ orders'[x] = orders[x] /\ lines'[x] = lines[x]
                      /\ cancelled'[x] = cancelled[x] /\ history'[x] = history[x]
  BY <1>1 DEF With, TypeOK
<1>10. IsFiniteSet(D) /\ IsFiniteSet(D \cup {o}) /\ Cardinality(D \cup {o}) = Cardinality(D) + 1
       /\ Cardinality(D) \in Nat
  BY <1>1, FS_AddElement, FS_CardinalityType DEF TypeOK
<1>11. /\ tx' \in [Sessions -> Held] /\ year' \in Nat
       /\ \A x \in Sessions : tx'[x] = IF x = s THEN Idle ELSE tx[x]
  BY <1>1 DEF TypeOK, Held, Hold
<1>12. TypeOK'
  <2>1. orders' \in [D \cup {o} -> Rows] /\ lines' \in [D \cup {o} -> LineLists]
    BY <1>1, <1>2, <1>3 DEF With, TypeOK
  <2>2. /\ cancelled' \in [D \cup {o} -> SUBSET (1..MaxLines)]
        /\ history' \in [D \cup {o} -> Seq(Entries)]
    BY <1>1, <1>6 DEF With, TypeOK
  <2>3. \A x \in D \cup {o} : cancelled'[x] \subseteq DOMAIN lines'[x]
    BY <1>1, <1>9 DEF TypeOK
  <2>4. \A x \in Sessions : OnOrder(x)' => tx'[x].order \in D \cup {o}
    BY <1>1, <1>11 DEF TypeOK, OnOrder, Idle
  <2>5. D \cup {o} \subseteq OrderIds
    BY <1>1 DEF TypeOK
  <2> HIDE DEF D
  <2> QED
    BY <1>9, <1>10, <1>11, <2>1, <2>2, <2>3, <2>4, <2>5 DEF TypeOK, Held
<1>13. NumbersDense'
  <2> DEFINE n == Cardinality(D)
             k == t.number.count
  <2>1. /\ \A x \in D : orders[x].number \in Numbers /\ orders[x].number.count \in 1..n
        /\ \A x, y \in D : orders[x].number = orders[y].number => x = y
        /\ \A x \in D : orders[x].number # t.number
    BY <1>1 DEF IInv, NumbersDense, TypeOK, Rows, NumberFree
  <2>2. \A m \in 1..n :
          \/ \E x \in D : orders[x].number.count = m
          \/ \E x, y \in D :
               /\ orders[x].number.count = orders[y].number.count
               /\ orders[x].number.count < m
               /\ orders[x].number.year # orders[y].number.year
    BY DEF IInv, NumbersDense
  <2>3. k \in Nat /\ k <= n + 1 /\ k # 0 /\ n \in Nat
    BY <1>1, <1>2, <1>10 DEF Numbers
  <2> HIDE DEF n, D
  <2>4. \A x \in D \cup {o} : orders'[x].number.count \in 1..(n + 1)
    BY <1>4, <1>9, <2>1, <2>3
  <2>5. \A x, y \in D \cup {o} : orders'[x].number = orders'[y].number => x = y
    BY <1>4, <1>9, <2>1
  <2>6. ASSUME NEW m \in 1..(n + 1)
        PROVE  \/ \E x \in D \cup {o} : orders'[x].number.count = m
               \/ \E x, y \in D \cup {o} :
                    /\ orders'[x].number.count = orders'[y].number.count
                    /\ orders'[x].number.count < m
                    /\ orders'[x].number.year # orders'[y].number.year
    <3>1. CASE m \in 1..n
      BY <1>9, <2>2, <3>1
    <3>2. CASE m = n + 1 /\ k = n + 1
      BY <1>4, <1>9, <3>2
    <3>3. CASE m = n + 1 /\ k # n + 1
      <4>1. k \in 1..n /\ k < m
        BY <2>3, <3>3
      <4>2. CASE \E x \in D : orders[x].number.count = k
        <5>1. PICK x \in D : orders[x].number.count = k
          BY <4>2
        <5>2. orders[x].number.year # t.number.year
          BY <1>2, <2>1, <5>1 DEF Numbers
        <5> QED
          BY <1>4, <1>9, <4>1, <5>1, <5>2
      <4>3. CASE \E x, y \in D :
                   /\ orders[x].number.count = orders[y].number.count
                   /\ orders[x].number.count < k
                   /\ orders[x].number.year # orders[y].number.year
        <5>1. PICK x \in D, y \in D :
                /\ orders[x].number.count = orders[y].number.count
                /\ orders[x].number.count < k
                /\ orders[x].number.year # orders[y].number.year
          BY <4>3
        <5>2. orders[x].number.count < m
          BY <2>1, <2>3, <4>1, <5>1
        <5> QED
          BY <1>9, <5>1, <5>2
      <4> QED
        BY <2>2, <4>1, <4>2, <4>3
    <3> QED
      BY <2>3, <3>1, <3>2, <3>3
  <2>7. DOMAIN orders' = D \cup {o} /\ Cardinality(DOMAIN orders') = n + 1
    BY <1>9, <1>10 DEF n
  <2> HIDE DEF k
  <2>8. \A x \in DOMAIN orders' : orders'[x].number.count \in 1..Cardinality(DOMAIN orders')
    BY <2>4, <2>7
  <2>9. \A x, y \in DOMAIN orders' : orders'[x].number = orders'[y].number => x = y
    BY <2>5, <2>7
  <2>10. \A m \in 1..Cardinality(DOMAIN orders') :
           \/ \E x \in DOMAIN orders' : orders'[x].number.count = m
           \/ \E x, y \in DOMAIN orders' :
                /\ orders'[x].number.count = orders'[y].number.count
                /\ orders'[x].number.count < m
                /\ orders'[x].number.year # orders'[y].number.year
    BY <2>6, <2>7
  <2> QED
    BY <2>8, <2>9, <2>10, Zenon DEF NumbersDense
<1>14. \A x \in DOMAIN orders' : OrderOK(orders'[x], lines'[x], cancelled'[x], history'[x])
  BY <1>8, <1>9 DEF IInv
<1>15. HeldFits'
  <2> SUFFICES ASSUME NEW x \in Sessions
               PROVE  /\ OnOrder(x)' =>
                           Fits(tx'[x], lines'[tx'[x].order], cancelled'[tx'[x].order],
                                history'[tx'[x].order])
                      /\ tx'[x].op = "create" =>
                           tx'[x].number.count <= Cardinality(DOMAIN orders') + 1
    BY DEF HeldFits
  <2>1. CASE x = s
    BY <1>11, <2>1 DEF OnOrder, Idle
  <2>2. CASE x # s
    <3>1. tx'[x] = tx[x]
      BY <1>11, <2>2
    <3>2. ASSUME tx[x].op = "create"
          PROVE  tx[x].number.count <= Cardinality(DOMAIN orders') + 1
      <4>1. tx[x] \in CreateTx /\ tx[x].number.count <= Cardinality(D) + 1
        BY <1>1, <3>2, HeldTypes DEF IInv, HeldFits
      <4>2. tx[x].number.count \in Nat
        BY <4>1 DEF CreateTx, Numbers
      <4> HIDE DEF D
      <4> QED
        BY <1>9, <1>10, <4>1, <4>2
    <3>3. ASSUME OnOrder(x)
          PROVE  Fits(tx[x], lines'[tx[x].order], cancelled'[tx[x].order],
                      history'[tx[x].order])
      BY <1>1, <1>9, <3>3, HeldOrder DEF IInv, HeldFits
    <3>4. OnOrder(x)' <=> OnOrder(x)
      BY <3>1 DEF OnOrder
    <3> QED
      BY <3>1, <3>2, <3>3, <3>4
  <2> QED
    BY <2>1, <2>2
<1> QED
  BY <1>12, <1>13, <1>14, <1>15 DEF IInv

-----------------------------------------------------------------------------

LEMMA InitIInv == Init => IInv
<1> SUFFICES ASSUME Init PROVE IInv
  OBVIOUS
<1>1. /\ DOMAIN orders = {} /\ DOMAIN lines = {} /\ DOMAIN cancelled = {}
      /\ DOMAIN history = {} /\ orders = <<>> /\ lines = <<>> /\ cancelled = <<>>
      /\ history = <<>>
  BY DEF Init
<1>2. tx = [s \in Sessions |-> Idle] /\ Idle.op = "idle"
  BY DEF Init, Idle
<1>3. TypeOK
  <2>1. IsFiniteSet(DOMAIN orders)
    BY <1>1, FS_EmptySet
  <2>2. /\ orders \in [DOMAIN orders -> Rows] /\ lines \in [DOMAIN orders -> LineLists]
        /\ cancelled \in [DOMAIN orders -> SUBSET (1..MaxLines)]
        /\ history \in [DOMAIN orders -> Seq(Entries)]
    BY <1>1
  <2> QED
    BY <1>1, <1>2, <2>1, <2>2, YearsAssumption DEF Init, TypeOK, OnOrder
<1>4. NumbersDense
  <2>1. Cardinality(DOMAIN orders) = 0
    BY <1>1, FS_EmptySet
  <2> QED
    BY <1>1, <2>1 DEF NumbersDense
<1>5. HeldFits
  BY <1>2 DEF HeldFits, OnOrder
<1> QED
  BY <1>1, <1>3, <1>4, <1>5 DEF IInv

LEMMA StepIInv == IInv /\ [Next]_vars => IInv'
<1> SUFFICES ASSUME IInv, [Next]_vars PROVE IInv'
  OBVIOUS
<1>1. CASE UNCHANGED vars
  <2>1. /\ orders' = orders /\ lines' = lines /\ cancelled' = cancelled
        /\ history' = history /\ tx' = tx /\ year' = year
    BY <1>1 DEF vars
  <2> QED
    BY <2>1 DEF IInv, TypeOK, NumbersDense, HeldFits, OnOrder
<1>2. ASSUME NEW s \in Sessions, NEW c \in Clients \cup Wholesalers, NEW b \in Baskets,
             CountOrders(s, c, b)
      PROVE  IInv'
  BY <1>2, CountOrdersKeeps
<1>3. ASSUME NEW s \in Sessions, NEW o \in OrderIds, CommitCreate(s, o)
      PROVE  IInv'
  BY <1>3, CommitCreateKeeps
<1>4. ASSUME NEW s \in Sessions, NEW o \in DOMAIN orders, NEW u \in Users,
             \/ \E to \in Statuses, p \in Persons \cup {NoPerson} :
                  LoadForStatus(s, u, o, to, p)
             \/ \E requested \in SUBSET Variants : LoadForMark(s, u, o, requested)
             \/ \E answer \in {"accept", "reject"} : LoadForAnswer(s, u, o, answer)
      PROVE  IInv'
  BY <1>4, LoadForStatusKeeps, LoadForMarkKeeps, LoadForAnswerKeeps
<1>5. ASSUME NEW s \in Sessions,
             \/ CommitStatus(s)
             \/ ReadForMark(s) \/ CommitMark(s)
             \/ ReadForAccept(s) \/ CommitAccept(s) \/ CommitReject(s)
             \/ Rollback(s)
      PROVE  IInv'
  BY <1>5, CommitStatusKeeps, ReadForMarkKeeps, CommitMarkKeeps, ReadForAcceptKeeps,
     CommitAcceptKeeps, CommitRejectKeeps, RollbackKeeps
<1>6. CASE NewYear
  <2>1. /\ orders' = orders /\ lines' = lines /\ cancelled' = cancelled
        /\ history' = history /\ tx' = tx /\ year' = year + 1
    BY <1>6 DEF NewYear, tables
  <2> QED
    BY <2>1 DEF IInv, TypeOK, NumbersDense, HeldFits, OnOrder
<1> QED
  BY <1>1, <1>2, <1>3, <1>4, <1>5, <1>6 DEF Next, Step

LEMMA InvariantHolds == Spec => []IInv
  BY InitIInv, StepIInv, PTL DEF Spec

\* Every column holds a value of its type and a session what its operation needs, however
\* requests overlap (the handlers of orders/).
THEOREM TypeCorrect == Spec => []TypeOK
<1>1. IInv => TypeOK
  BY DEF IInv
<1> QED
  BY <1>1, InvariantHolds, PTL

\* A stale count of the orders never gives two of them the same number, since count and
\* year make one UNIQUE string, and a count is skipped only after a New Year during a
\* creation gave two orders one count (generate_order_number in orders/service.py).
THEOREM NumbersStayDense == Spec => []NumbersDense
<1>1. IInv => NumbersDense
  BY DEF IInv
<1> QED
  BY <1>1, InvariantHolds, PTL

\* Whatever two requests did to an order at once, its history ends at its status and has
\* only allowed transitions, each from a status the order had.
THEOREM HistoryEnds == Spec => []HistoryEndsAtStatus
<1>1. IInv => HistoryEndsAtStatus
  BY DEF IInv, OrderOK, Ends, HistoryEndsAtStatus
<1> QED
  BY <1>1, InvariantHolds, PTL

\* However the marks of one request fall between the query and the commit of another, an
\* order charges for all the lines it will ship.
THEOREM ShippedIsCharged == Spec => []ChargesAvailable
<1>1. IInv => ChargesAvailable
  BY DEF IInv, OrderOK, Charged, ChargesAvailable
<1> QED
  BY <1>1, InvariantHolds, PTL

\* The dates of an order agree with its history, though requests write them from rows
\* that are out of date.
THEOREM DatesAlwaysAgree == Spec => []DatesAgree
<1>1. IInv => DatesAgree
  <2> SUFFICES ASSUME IInv, NEW o \in DOMAIN orders
               PROVE  /\ orders[o].confirmed <=> Entered(o, "confirmed")
                      /\ orders[o].delivered <=> Entered(o, "delivered_to_client")
                      /\ orders[o].cancelled <=> Entered(o, "cancelled")
    BY DEF DatesAgree
  <2> QED
    BY DEF IInv, OrderOK, Dated, Seen, Entered
<1> QED
  BY <1>1, InvariantHolds, PTL

\* Two requests may count the same failed attempt once, but never one that was not made.
THEOREM AttemptsAreReal == Spec => []AttemptsNotInvented
<1>1. IInv => AttemptsNotInvented
  BY DEF IInv, OrderOK, Failures, AttemptsNotInvented
<1> QED
  BY <1>1, InvariantHolds, PTL

-----------------------------------------------------------------------------
(* The refinement of Orders, with one session per order.                     *)

\* The rules, as Orders names them, are the same rules.
LEMMA SerialSum ==
  ASSUME NEW ls, NEW S
  PROVE  Serial!LineSum(ls, S) = LineSum(ls, S)
  BY DEF Serial!LineSum, LineSum, Serial!MapThenSumSet, MapThenSumSet,
         Serial!MapThenFoldSet, MapThenFoldSet

LEMMA SerialTables ==
  /\ Serial!Users = Users /\ Serial!Statuses = Statuses /\ Serial!Baskets = Baskets
  /\ \A S : Serial!Cardinality(S) = Cardinality(S)
  /\ \A table, o, row : Serial!With(table, o, row) = With(table, o, row)
  /\ \A y, n : Serial!generate_order_number(y, n) = generate_order_number(y, n)
  BY DEF Serial!generate_order_number, generate_order_number, Serial!Users, Users, Serial!Statuses, Statuses, Serial!Baskets, Baskets,
         Serial!Cardinality, Cardinality, Serial!With, With

LEMMA SerialLines ==
  /\ \A c : Serial!SaleType(c) = SaleType(c)
  /\ \A b, sale : Serial!PricedLines(b, sale) = PricedLines(b, sale)
  /\ \A ls, c : Serial!AvailableLines(ls, c) = AvailableLines(ls, c)
  /\ \A ls, requested : Serial!Markings(ls, requested) = Markings(ls, requested)
  BY DEF Serial!SaleType, SaleType, Serial!PricedLines, PricedLines, Serial!UnitPrice,
         UnitPrice, Serial!AvailableLines, AvailableLines, Serial!Markings, Markings

LEMMA SerialEntries ==
  /\ \A from, to, by, n, p : Serial!Entry(from, to, by, n, p) = Entry(from, to, by, n, p)
  /\ Serial!CreationEntry = CreationEntry
  /\ \A row, to, by, p : Serial!StatusEntry(row, to, by, p) = StatusEntry(row, to, by, p)
  BY DEF Serial!Entry, Entry, Serial!CreationEntry, CreationEntry, Serial!StatusEntry,
         StatusEntry

LEMMA SerialRows ==
  /\ \A n, c, ls : Serial!NewRow(n, c, ls) = NewRow(n, c, ls)
  /\ \A row, to, p : Serial!StatusRow(row, to, p) = StatusRow(row, to, p)
  /\ \A row, ls, S : Serial!MarkRow(row, ls, S) = MarkRow(row, ls, S)
  /\ \A row, ls, S : Serial!AcceptRow(row, ls, S) = AcceptRow(row, ls, S)
  /\ \A row : Serial!RejectRow(row) = RejectRow(row)
  BY SerialSum, SerialLines
     DEF Serial!NewRow, NewRow, Serial!StatusRow, StatusRow, Serial!MarkRow, MarkRow,
         Serial!AcceptRow, AcceptRow, Serial!RejectRow, RejectRow

LEMMA SerialChecks ==
  /\ \A u, row : Serial!MayAccess(u, row) <=> MayAccess(u, row)
  /\ \A u, row : Serial!MayAnswer(u, row) <=> MayAnswer(u, row)
  /\ \A row : Serial!MarkAllowed(row) <=> MarkAllowed(row)
  /\ \A u, row, to : Serial!StatusAllowed(row, to, Serial!Role(u))
                        <=> StatusAllowed(row, to, Role(u))
  BY DEF Serial!MayAccess, MayAccess, Serial!MayAnswer, MayAnswer, Serial!AcceptAllowed,
         AcceptAllowed, Serial!MarkAllowed, MarkAllowed, Serial!StatusAllowed, StatusAllowed,
         Serial!Role, Role, Serial!ValidateTransition, ValidateTransition,
         Serial!VALID_TRANSITIONS, VALID_TRANSITIONS, Serial!FINAL_STATES, FINAL_STATES,
         Serial!VENDOR_ALLOWED_FROM, VENDOR_ALLOWED_FROM,
         Serial!CLIENT_ALLOWED_FROM, CLIENT_ALLOWED_FROM

\* What a session holds of an order that no other session can change.
Promised(t, row, ls, c) ==
  /\ t.row = row
  /\ t.op = "status" =>
       /\ MayAccess(t.user, row) /\ StatusAllowed(row, t.to, Role(t.user))
       /\ t.to = "delivery_failed" => row.attempts < MaxAttempts
  /\ t.op \in {"mark", "marking"} => t.user \in Admins /\ MarkAllowed(row)
  /\ t.op \in {"accept", "accepting", "reject"} => MayAnswer(t.user, row)
  /\ t.op \in {"marking", "accepting"} => t.available = AvailableLines(ls, c)
  /\ t.op = "marking" =>
       t.available # {} /\ \E requested \in SUBSET Variants : t.marked \in Markings(ls, requested)

\* The number that a session holds is taken, or it is the next one.
NextUnlessTaken(t) ==
  NumberFree(t.number) => t.number.count = Cardinality(DOMAIN orders) + 1

Ordered(t) == \E b \in Baskets : t.lines = PricedLines(b, SaleType(t.client))

UpToDate ==
  \A s \in Sessions :
    /\ OnOrder(s) => Promised(tx[s], orders[tx[s].order], lines[tx[s].order],
                              cancelled[tx[s].order])
    /\ tx[s].op = "create" => Ordered(tx[s])

\* A step of one session leaves the orders of the others as they are.
LEMMA OthersUpToDate ==
  ASSUME IInv, UpToDate, NEW s \in Sessions, NEW t, Hold(s, t),
         \A x \in Sessions \ {s} : OnOrder(x) =>
            /\ orders'[tx[x].order] = orders[tx[x].order]
            /\ lines'[tx[x].order] = lines[tx[x].order]
            /\ cancelled'[tx[x].order] = cancelled[tx[x].order],
         t.op \notin {"idle", "create"} =>
            Promised(t, orders'[t.order], lines'[t.order], cancelled'[t.order]),
         t.op = "create" => Ordered(t)
  PROVE  UpToDate'
<1>1. \A x \in Sessions : tx'[x] = IF x = s THEN t ELSE tx[x]
  BY DEF Hold, IInv, TypeOK
<1> SUFFICES ASSUME NEW x \in Sessions
             PROVE  /\ OnOrder(x)' => Promised(tx'[x], orders'[tx'[x].order],
                                               lines'[tx'[x].order], cancelled'[tx'[x].order])
                    /\ tx'[x].op = "create" => Ordered(tx'[x])
  BY DEF UpToDate
<1>2. CASE x = s
  BY <1>1, <1>2 DEF OnOrder
<1>3. CASE x # s
  <2>1. tx'[x] = tx[x] /\ (OnOrder(x)' <=> OnOrder(x))
    BY <1>1, <1>3 DEF OnOrder
  <2>2. OnOrder(x) => Promised(tx[x], orders'[tx[x].order], lines'[tx[x].order],
                               cancelled'[tx[x].order])
    BY <1>3 DEF UpToDate
  <2> QED
    BY <2>1, <2>2 DEF UpToDate
<1> QED
  BY <1>2, <1>3

\* A load, a query or a rollback is not seen.
LEMMA LoadRefines ==
  ASSUME IInv, UpToDate, NEW s \in Sessions, NEW t, Hold(s, t), UNCHANGED tables,
         t.op \notin {"idle", "create"} =>
            Promised(t, orders[t.order], lines[t.order], cancelled[t.order]),
         t.op = "create" => Ordered(t)
  PROVE  UpToDate' /\ UNCHANGED Serial!vars
<1>1. orders' = orders /\ lines' = lines /\ cancelled' = cancelled /\ history' = history
  BY DEF tables
<1>2. UpToDate'
  BY <1>1, OthersUpToDate
<1> QED
  BY <1>1, <1>2 DEF Serial!vars, Hold

\* The rows that the commits write, when the row has not changed since it was loaded.
LEMMA MergeSelf ==
  ASSUME NEW row \in Rows, NEW new \in Rows
  PROVE  Merge(row, new, row) = new
<1>1. DOMAIN row = Columns /\ DOMAIN new = Columns
  BY RowColumns
<1>2. Merge(row, new, row) = [col \in Columns |-> new[col]]
  BY <1>1 DEF Merge
<1>3. new = [col \in Columns |-> new[col]]
  BY <1>1 DEF Rows
<1> QED
  BY <1>2, <1>3

\* After a commit on its order, no other session is out of date.
LEMMA CommitUpToDate ==
  ASSUME IInv, UpToDate, OneSessionPerOrder, NEW s \in Sessions, OnOrder(s), Hold(s, Idle),
         NEW row, NEW c, orders' = [orders EXCEPT ![tx[s].order] = row],
         cancelled' = [cancelled EXCEPT ![tx[s].order] = c], lines' = lines
  PROVE  UpToDate'
<1>1. Idle.op = "idle"
  BY DEF Idle
<1>2. ASSUME NEW x \in Sessions \ {s}, OnOrder(x)
      PROVE  /\ orders'[tx[x].order] = orders[tx[x].order]
             /\ lines'[tx[x].order] = lines[tx[x].order]
             /\ cancelled'[tx[x].order] = cancelled[tx[x].order]
  <2>1. tx[x].order # tx[s].order /\ tx[x].order \in DOMAIN orders
    BY <1>2, HeldOrder DEF OneSessionPerOrder, IInv
  <2> QED
    BY <2>1 DEF IInv, TypeOK
<1> QED
  BY <1>1, <1>2, OthersUpToDate

LEMMA CountOrdersRefines ==
  ASSUME IInv, UpToDate, NEW s \in Sessions, NEW c \in Clients \cup Wholesalers,
         NEW b \in Baskets, CountOrders(s, c, b)
  PROVE  UpToDate' /\ UNCHANGED Serial!vars
<1> DEFINE t == [op |-> "create", client |-> c, lines |-> PricedLines(b, SaleType(c)),
                 number |-> generate_order_number(year, Cardinality(DOMAIN orders))]
<1>1. Hold(s, t) /\ UNCHANGED tables
  BY DEF CountOrders
<1>2. t.op = "create" /\ Ordered(t)
  BY DEF Ordered
<1> HIDE DEF t
<1> QED
  BY <1>1, <1>2, LoadRefines

LEMMA LoadOrderRefines ==
  ASSUME IInv, UpToDate, NEW s \in Sessions, NEW o \in DOMAIN orders, NEW u \in Users,
         \/ \E to \in Statuses, p \in Persons \cup {NoPerson} :
              LoadForStatus(s, u, o, to, p)
         \/ \E requested \in SUBSET Variants : LoadForMark(s, u, o, requested)
         \/ \E answer \in {"accept", "reject"} : LoadForAnswer(s, u, o, answer)
  PROVE  UpToDate' /\ UNCHANGED Serial!vars
<1>1. ASSUME NEW to \in Statuses, NEW p \in Persons \cup {NoPerson},
             LoadForStatus(s, u, o, to, p)
      PROVE  UpToDate' /\ UNCHANGED Serial!vars
  <2> DEFINE t == [op |-> "status", user |-> u, order |-> o, row |-> orders[o],
                   to |-> to, person |-> p]
  <2>1. Hold(s, t) /\ UNCHANGED tables
    BY <1>1 DEF LoadForStatus
  <2>2. t.op = "status" /\ t.user = u /\ t.order = o /\ t.row = orders[o] /\ t.to = to
    OBVIOUS
  <2> HIDE DEF t
  <2>3. Promised(t, orders[o], lines[o], cancelled[o])
    BY <1>1, <2>2 DEF LoadForStatus, Promised
  <2> QED
    BY <2>1, <2>2, <2>3, LoadRefines
<1>2. ASSUME NEW requested \in SUBSET Variants, LoadForMark(s, u, o, requested)
      PROVE  UpToDate' /\ UNCHANGED Serial!vars
  <2> DEFINE t == [op |-> "mark", user |-> u, order |-> o, row |-> orders[o],
                   requested |-> requested]
  <2>1. Hold(s, t) /\ UNCHANGED tables
    BY <1>2 DEF LoadForMark
  <2>2. t.op = "mark" /\ t.user = u /\ t.order = o /\ t.row = orders[o]
    OBVIOUS
  <2> HIDE DEF t
  <2>3. Promised(t, orders[o], lines[o], cancelled[o])
    BY <1>2, <2>2 DEF LoadForMark, Promised
  <2> QED
    BY <2>1, <2>2, <2>3, LoadRefines
<1>3. ASSUME NEW answer \in {"accept", "reject"}, LoadForAnswer(s, u, o, answer)
      PROVE  UpToDate' /\ UNCHANGED Serial!vars
  <2> DEFINE t == [op |-> answer, user |-> u, order |-> o, row |-> orders[o]]
  <2>1. Hold(s, t) /\ UNCHANGED tables
    BY <1>3 DEF LoadForAnswer
  <2>2. t.op \in {"accept", "reject"} /\ t.user = u /\ t.order = o /\ t.row = orders[o]
    OBVIOUS
  <2> HIDE DEF t
  <2>3. Promised(t, orders[o], lines[o], cancelled[o])
    BY <1>3, <2>2 DEF LoadForAnswer, Promised
  <2> QED
    BY <2>1, <2>2, <2>3, LoadRefines
<1> QED
  BY <1>1, <1>2, <1>3

LEMMA ReadLinesRefines ==
  ASSUME IInv, UpToDate, NEW s \in Sessions, ReadForMark(s) \/ ReadForAccept(s)
  PROVE  UpToDate' /\ UNCHANGED Serial!vars
<1> DEFINE o == tx[s].order
           available == AvailableLines(lines[o], cancelled[o])
<1>1. OnOrder(s) /\ Promised(tx[s], orders[o], lines[o], cancelled[o])
  BY DEF ReadForMark, ReadForAccept, OnOrder, UpToDate
<1>2. CASE ReadForMark(s)
  <2>1. PICK M \in Markings(lines[o], tx[s].requested) :
          Hold(s, [op |-> "marking", user |-> tx[s].user, order |-> o, row |-> tx[s].row,
                   available |-> available, marked |-> M])
    BY <1>2 DEF ReadForMark
  <2> DEFINE t == [op |-> "marking", user |-> tx[s].user, order |-> o, row |-> tx[s].row,
                   available |-> available, marked |-> M]
  <2>2. UNCHANGED tables /\ available # {} /\ tx[s].op = "mark"
    BY <1>2 DEF ReadForMark
  <2>3. tx[s].requested \in SUBSET Variants
    BY <2>2, HeldTypes DEF IInv, MarkTx
  <2>4. /\ t.op = "marking" /\ t.user = tx[s].user /\ t.order = o /\ t.row = tx[s].row
        /\ t.available = available /\ t.marked = M
    OBVIOUS
  <2>5. Hold(s, t)
    BY <2>1
  <2> HIDE DEF t
  <2>6. Promised(t, orders[o], lines[o], cancelled[o])
    BY <1>1, <2>2, <2>3, <2>4 DEF Promised
  <2> QED
    BY <2>2, <2>4, <2>5, <2>6, LoadRefines
<1>3. CASE ReadForAccept(s)
  <2> DEFINE t == [op |-> "accepting", user |-> tx[s].user, order |-> o, row |-> tx[s].row,
                   available |-> available]
  <2>1. Hold(s, t) /\ UNCHANGED tables /\ tx[s].op = "accept"
    BY <1>3 DEF ReadForAccept
  <2>2. /\ t.op = "accepting" /\ t.user = tx[s].user /\ t.order = o /\ t.row = tx[s].row
        /\ t.available = available
    OBVIOUS
  <2> HIDE DEF t
  <2>3. Promised(t, orders[o], lines[o], cancelled[o])
    BY <1>1, <2>1, <2>2 DEF Promised
  <2> QED
    BY <2>1, <2>2, <2>3, LoadRefines
<1> QED
  BY <1>2, <1>3

LEMMA RollbackRefines ==
  ASSUME IInv, UpToDate, NEW s \in Sessions, Rollback(s)
  PROVE  UpToDate' /\ UNCHANGED Serial!vars
<1>1. Idle.op = "idle"
  BY DEF Idle
<1> QED
  BY <1>1, LoadRefines DEF Rollback

\* A commit on an order, as Orders sees it.
LEMMA CommitSeen ==
  ASSUME IInv, UpToDate, NEW s \in Sessions, OnOrder(s), NEW new \in Rows,
         Update(tx[s].order, tx[s].row, new)
  PROVE  LET o == tx[s].order IN
         /\ o \in DOMAIN orders /\ tx[s].row = orders[o] /\ tx[s].user \in Users
         /\ Promised(tx[s], orders[o], lines[o], cancelled[o])
         /\ orders' = [orders EXCEPT ![o] = new]
<1> DEFINE o == tx[s].order
<1>1. o \in DOMAIN orders /\ tx[s].row \in Rows /\ tx[s].user \in Users /\ orders[o] \in Rows
  BY HeldOrder, OrderTypes DEF IInv
<1>2. Promised(tx[s], orders[o], lines[o], cancelled[o]) /\ tx[s].row = orders[o]
  BY DEF UpToDate, Promised
<1>3. Merge(tx[s].row, new, orders[o]) = new
  BY <1>1, <1>2, MergeSelf
<1> QED
  BY <1>1, <1>2, <1>3 DEF Update

LEMMA CommitStatusRefines ==
  ASSUME IInv, UpToDate, OneSessionPerOrder, NEW s \in Sessions, CommitStatus(s)
  PROVE  UpToDate' /\ Serial!Next
<1> DEFINE t == tx[s]
           o == t.order
           new == StatusRow(t.row, t.to, t.person)
           e == StatusEntry(t.row, t.to, t.user, t.person)
<1>1. /\ OnOrder(s) /\ t.op = "status" /\ t \in StatusTx
      /\ Update(o, t.row, new) /\ Record(o, e) /\ Hold(s, Idle)
      /\ lines' = lines /\ cancelled' = cancelled
  BY HeldTypes DEF CommitStatus, OnOrder, IInv
<1>2. t.row \in Rows /\ t.to \in Statuses /\ t.person \in Persons \cup {NoPerson}
  BY <1>1 DEF StatusTx
<1>3. new \in Rows
  BY <1>2, StatusRowType
<1> HIDE DEF new, e
<1>4. /\ o \in DOMAIN orders /\ t.row = orders[o] /\ t.user \in Users
      /\ Promised(t, orders[o], lines[o], cancelled[o])
      /\ orders' = [orders EXCEPT ![o] = new]
  BY <1>1, <1>3, CommitSeen
<1>5. UpToDate'
  <2>1. cancelled' = [cancelled EXCEPT ![o] = cancelled[o]]
    BY <1>1 DEF IInv, TypeOK
  <2> QED
    BY <1>1, <1>4, <2>1, CommitUpToDate
<1>6. Serial!ChangeStatus(t.user, o, t.to, t.person)
  <2>1. /\ Serial!MayAccess(t.user, orders[o])
        /\ Serial!StatusAllowed(orders[o], t.to, Serial!Role(t.user))
        /\ t.to = "delivery_failed" => orders[o].attempts < MaxAttempts
    BY <1>1, <1>4, SerialChecks DEF Promised
  <2>2. orders' = [orders EXCEPT ![o] = Serial!StatusRow(@, t.to, t.person)]
    BY <1>4, SerialRows DEF new
  <2>3. Serial!Record(o, Serial!StatusEntry(orders[o], t.to, t.user, t.person))
    BY <1>1, <1>4, SerialEntries DEF Serial!Record, Record, e
  <2>6. year' = year
    BY <1>1 DEF Hold
  <2> QED
    BY <1>1, <2>1, <2>2, <2>3, <2>6 DEF Serial!ChangeStatus
<1> QED
  BY <1>2, <1>4, <1>5, <1>6, SerialTables DEF Serial!Next

LEMMA CommitMarkRefines ==
  ASSUME IInv, UpToDate, OneSessionPerOrder, NEW s \in Sessions, CommitMark(s)
  PROVE  UpToDate' /\ Serial!Next
<1> DEFINE t == tx[s]
           o == t.order
           new == MarkRow(t.row, lines[o], t.available)
           e == Entry("pending", "partially_available", t.user, 0, NoPerson)
<1>1. /\ OnOrder(s) /\ t.op = "marking" /\ t \in MarkingTx
      /\ Update(o, t.row, new) /\ Record(o, e) /\ Hold(s, Idle)
      /\ lines' = lines /\ cancelled' = [cancelled EXCEPT ![o] = @ \cup t.marked]
  BY HeldTypes DEF CommitMark, OnOrder, IInv
<1>2. /\ t.row \in Rows /\ o \in DOMAIN orders
      /\ Fits(t, lines[o], cancelled[o], history[o]) /\ lines[o] \in LineLists
  BY <1>1, HeldOrder, OrderTypes DEF IInv, HeldFits
<1>3. new \in Rows
  BY <1>1, <1>2, MarkRowType DEF Fits, Found
<1> HIDE DEF new, e
<1>4. /\ t.row = orders[o] /\ t.user \in Users
      /\ Promised(t, orders[o], lines[o], cancelled[o])
      /\ orders' = [orders EXCEPT ![o] = new]
  BY <1>1, <1>3, CommitSeen
<1>5. UpToDate'
  <2>1. cancelled' = [cancelled EXCEPT ![o] = cancelled[o] \cup t.marked]
    BY <1>1
  <2> QED
    BY <1>1, <1>4, <2>1, CommitUpToDate
<1>6. PICK requested \in SUBSET Variants : t.marked \in Markings(lines[o], requested)
  BY <1>1, <1>4 DEF Promised
<1>7. Serial!MarkUnavailable(t.user, o, requested)
  <2> DEFINE available == Serial!AvailableLines(lines[o], cancelled[o])
  <2>1. available = t.available
    BY <1>1, <1>4, SerialLines DEF Promised
  <2>2. t.user \in Admins /\ Serial!MarkAllowed(orders[o]) /\ available # {}
    BY <1>1, <1>4, <2>1, SerialChecks DEF Promised
  <2>3. \E M \in Serial!Markings(lines[o], requested) :
          cancelled' = [cancelled EXCEPT ![o] = @ \cup M]
    BY <1>1, <1>6, SerialLines
  <2>4. orders' = [orders EXCEPT ![o] = Serial!MarkRow(@, lines[o], available)]
    BY <1>4, <2>1, SerialRows DEF new
  <2>5. Serial!Record(o, Serial!Entry("pending", "partially_available", t.user, 0, NoPerson))
    BY <1>1, SerialEntries DEF Serial!Record, Record, e
  <2>6. year' = year
    BY <1>1 DEF Hold
  <2> QED
    BY <1>1, <2>2, <2>3, <2>4, <2>5, <2>6 DEF Serial!MarkUnavailable
<1> QED
  BY <1>2, <1>4, <1>5, <1>7, SerialTables DEF Serial!Next

LEMMA CommitAcceptRefines ==
  ASSUME IInv, UpToDate, OneSessionPerOrder, NEW s \in Sessions, CommitAccept(s)
  PROVE  UpToDate' /\ Serial!Next
<1> DEFINE t == tx[s]
           o == t.order
           new == AcceptRow(t.row, lines[o], t.available)
           e == Entry("partially_available", "confirmed", t.user, 0, NoPerson)
<1>1. /\ OnOrder(s) /\ t.op = "accepting"
      /\ Update(o, t.row, new) /\ Record(o, e) /\ Hold(s, Idle)
      /\ lines' = lines /\ cancelled' = cancelled
  BY DEF CommitAccept, OnOrder
<1>2. /\ t.row \in Rows /\ o \in DOMAIN orders
      /\ Fits(t, lines[o], cancelled[o], history[o]) /\ lines[o] \in LineLists
  BY <1>1, HeldOrder, OrderTypes DEF IInv, HeldFits
<1>3. new \in Rows
  BY <1>1, <1>2, AcceptRowType DEF Fits, Found
<1> HIDE DEF new, e
<1>4. /\ t.row = orders[o] /\ t.user \in Users
      /\ Promised(t, orders[o], lines[o], cancelled[o])
      /\ orders' = [orders EXCEPT ![o] = new]
  BY <1>1, <1>3, CommitSeen
<1>5. UpToDate'
  <2>1. cancelled' = [cancelled EXCEPT ![o] = cancelled[o]]
    BY <1>1 DEF IInv, TypeOK
  <2> QED
    BY <1>1, <1>4, <2>1, CommitUpToDate
<1>6. Serial!AcceptPartial(t.user, o)
  <2>1. t.available = Serial!AvailableLines(lines[o], cancelled[o])
    BY <1>1, <1>4, SerialLines DEF Promised
  <2>2. Serial!MayAnswer(t.user, orders[o])
    BY <1>1, <1>4, SerialChecks DEF Promised
  <2>3. orders' = [orders EXCEPT ![o] =
                     Serial!AcceptRow(@, lines[o], Serial!AvailableLines(lines[o], cancelled[o]))]
    BY <1>4, <2>1, SerialRows DEF new
  <2>4. Serial!Record(o, Serial!Entry("partially_available", "confirmed", t.user, 0, NoPerson))
    BY <1>1, SerialEntries DEF Serial!Record, Record, e
  <2>6. year' = year
    BY <1>1 DEF Hold
  <2> QED
    BY <1>1, <2>2, <2>3, <2>4, <2>6 DEF Serial!AcceptPartial
<1> QED
  BY <1>2, <1>4, <1>5, <1>6, SerialTables DEF Serial!Next

LEMMA CommitRejectRefines ==
  ASSUME IInv, UpToDate, OneSessionPerOrder, NEW s \in Sessions, CommitReject(s)
  PROVE  UpToDate' /\ Serial!Next
<1> DEFINE t == tx[s]
           o == t.order
           new == RejectRow(t.row)
           e == Entry("partially_available", "cancelled", t.user, 0, NoPerson)
<1>1. /\ OnOrder(s) /\ t.op = "reject"
      /\ Update(o, t.row, new) /\ Record(o, e) /\ Hold(s, Idle)
      /\ lines' = lines /\ cancelled' = cancelled
  BY DEF CommitReject, OnOrder
<1>2. t.row \in Rows /\ o \in DOMAIN orders
  BY <1>1, HeldOrder DEF IInv
<1>3. new \in Rows
  BY <1>2, RejectRowType
<1> HIDE DEF new, e
<1>4. /\ t.row = orders[o] /\ t.user \in Users
      /\ Promised(t, orders[o], lines[o], cancelled[o])
      /\ orders' = [orders EXCEPT ![o] = new]
  BY <1>1, <1>3, CommitSeen
<1>5. UpToDate'
  <2>1. cancelled' = [cancelled EXCEPT ![o] = cancelled[o]]
    BY <1>1 DEF IInv, TypeOK
  <2> QED
    BY <1>1, <1>4, <2>1, CommitUpToDate
<1>6. Serial!RejectPartial(t.user, o)
  <2>1. Serial!MayAnswer(t.user, orders[o])
    BY <1>1, <1>4, SerialChecks DEF Promised
  <2>2. orders' = [orders EXCEPT ![o] = Serial!RejectRow(@)]
    BY <1>4, SerialRows DEF new
  <2>3. Serial!Record(o, Serial!Entry("partially_available", "cancelled", t.user, 0, NoPerson))
    BY <1>1, SerialEntries DEF Serial!Record, Record, e
  <2>6. year' = year
    BY <1>1 DEF Hold
  <2> QED
    BY <1>1, <2>1, <2>2, <2>3, <2>6 DEF Serial!RejectPartial
<1> QED
  BY <1>2, <1>4, <1>5, <1>6, SerialTables DEF Serial!Next

LEMMA CommitCreateRefines ==
  ASSUME IInv, UpToDate, NumbersOfTheYear, NEW s \in Sessions, NEW o \in OrderIds,
         NextUnlessTaken(tx[s]), CommitCreate(s, o)
  PROVE  UpToDate' /\ Serial!Next
<1> DEFINE t == tx[s]
           row == NewRow(t.number, t.client, t.lines)
<1>1. /\ t.op = "create" /\ t \in CreateTx /\ o \notin DOMAIN orders
      /\ NumberFree(t.number) /\ Hold(s, Idle)
      /\ orders' = With(orders, o, row) /\ lines' = With(lines, o, t.lines)
      /\ cancelled' = With(cancelled, o, {}) /\ history' = With(history, o, <<CreationEntry>>)
  BY HeldTypes DEF IInv, CommitCreate
<1>2. t.client \in Clients \cup Wholesalers
  BY <1>1 DEF CreateTx
<1>3. PICK b \in Baskets : t.lines = PricedLines(b, SaleType(t.client))
  BY <1>1 DEF UpToDate, Ordered
<1>4. t.number = generate_order_number(year, Cardinality(DOMAIN orders))
  <2>1. t.number \in Numbers /\ t.number.year = year
    BY <1>1 DEF CreateTx, NumbersOfTheYear
  <2>2. t.number.count = Cardinality(DOMAIN orders) + 1
    BY <1>1 DEF NextUnlessTaken
  <2> QED
    BY <2>1, <2>2 DEF generate_order_number, Numbers
<1>5. UpToDate'
  <2>1. Idle.op = "idle"
    BY DEF Idle
  <2>2. ASSUME NEW x \in Sessions \ {s}, OnOrder(x)
        PROVE  /\ orders'[tx[x].order] = orders[tx[x].order]
               /\ lines'[tx[x].order] = lines[tx[x].order]
               /\ cancelled'[tx[x].order] = cancelled[tx[x].order]
    <3>1. tx[x].order \in DOMAIN orders
      BY <2>2, HeldOrder DEF IInv
    <3>2. DOMAIN lines = DOMAIN orders /\ DOMAIN cancelled = DOMAIN orders
      BY DEF IInv, TypeOK
    <3>3. \A y \in DOMAIN orders : /\ orders'[y] = orders[y] /\ lines'[y] = lines[y]
                                  /\ cancelled'[y] = cancelled[y]
      <4> HIDE DEF row, t
      <4> QED
        BY <1>1, <3>2 DEF With
    <3> QED
      BY <3>1, <3>3
  <2> QED
    BY <1>1, <2>1, <2>2, OthersUpToDate
<1>6. Serial!CreateOrder(o, t.client, b)
  <2>1. orders' = Serial!With(orders, o,
           Serial!NewRow(Serial!generate_order_number(year, Serial!Cardinality(DOMAIN orders)),
                         t.client, t.lines))
    BY <1>1, <1>4, SerialTables, SerialRows
  <2>2. t.lines = Serial!PricedLines(b, Serial!SaleType(t.client))
    BY <1>3, SerialLines
  <2>3. /\ lines' = Serial!With(lines, o, t.lines)
        /\ cancelled' = Serial!With(cancelled, o, {})
        /\ history' = Serial!With(history, o, <<Serial!CreationEntry>>)
        /\ year' = year
    BY <1>1, SerialTables, SerialEntries DEF Hold
  <2> HIDE DEF t, row
  <2> QED
    BY <1>1, <2>1, <2>2, <2>3 DEF Serial!CreateOrder
<1> QED
  BY <1>2, <1>3, <1>5, <1>6, SerialTables DEF Serial!Next

\* The invariant of the exclusive sessions.
ExclusiveInv ==
  /\ IInv /\ OneSessionPerOrder /\ NumbersOfTheYear /\ UpToDate
  /\ \A s \in Sessions : tx[s].op = "create" => NextUnlessTaken(tx[s])

\* A commit on an order leaves the numbers as they are.
LEMMA CommitsKeepNumbers ==
  ASSUME IInv, NEW s \in Sessions,
         CommitStatus(s) \/ CommitMark(s) \/ CommitAccept(s) \/ CommitReject(s)
  PROVE  /\ DOMAIN orders' = DOMAIN orders /\ Hold(s, Idle)
         /\ \A x \in DOMAIN orders : orders'[x].number = orders[x].number
<1> DEFINE t == tx[s]
           o == t.order
<1>1. /\ OnOrder(s) /\ Hold(s, Idle)
      /\ \/ t.op = "status" /\ Update(o, t.row, StatusRow(t.row, t.to, t.person))
         \/ t.op = "marking" /\ Update(o, t.row, MarkRow(t.row, lines[o], t.available))
         \/ t.op = "accepting" /\ Update(o, t.row, AcceptRow(t.row, lines[o], t.available))
         \/ t.op = "reject" /\ Update(o, t.row, RejectRow(t.row))
  BY DEF CommitStatus, CommitMark, CommitAccept, CommitReject, OnOrder
<1>2. /\ t.row \in Rows /\ o \in DOMAIN orders /\ orders[o] \in Rows
      /\ orders = [x \in DOMAIN orders |-> orders[x]]
  BY <1>1, HeldOrder DEF IInv, TypeOK
<1>3. "number" \in DOMAIN t.row /\ "number" \in DOMAIN orders[o]
  BY <1>2 DEF Rows
<1>4. PICK new : Update(o, t.row, new) /\ new["number"] = t.row["number"]
  <2>1. \A to, p : StatusRow(t.row, to, p)["number"] = t.row["number"]
    BY <1>3 DEF StatusRow
  <2>2. /\ \A ls, S : MarkRow(t.row, ls, S)["number"] = t.row["number"]
        /\ \A ls, S : AcceptRow(t.row, ls, S)["number"] = t.row["number"]
        /\ RejectRow(t.row)["number"] = t.row["number"]
    BY <1>3 DEF MarkRow, AcceptRow, RejectRow
  <2> QED
    BY <1>1, <2>1, <2>2
<1>5. Merge(t.row, new, orders[o])["number"] = orders[o]["number"]
  BY <1>3, <1>4 DEF Merge
<1>6. orders' = [orders EXCEPT ![o] = Merge(t.row, new, orders[o])]
  BY <1>2, <1>4 DEF Update
<1> HIDE DEF t, o
<1> QED
  BY <1>1, <1>2, <1>5, <1>6

\* The number a session holds stays the next one until an order has it.
LEMMA NumbersStayNext ==
  ASSUME ExclusiveInv, [Next /\ Exclusive']_vars, NEW s \in Sessions, tx'[s].op = "create"
  PROVE  NextUnlessTaken(tx[s])'
<1>1. ASSUME tx'[s] = tx[s], DOMAIN orders' = DOMAIN orders,
             \A x \in DOMAIN orders : orders'[x].number = orders[x].number
      PROVE  NextUnlessTaken(tx[s])'
  BY <1>1 DEF ExclusiveInv, NextUnlessTaken, NumberFree
<1>2. ASSUME NEW x \in Sessions, NEW t, Hold(x, t)
      PROVE  tx'[x] = t /\ (x # s => tx'[s] = tx[s])
  BY <1>2 DEF Hold, ExclusiveInv, IInv, TypeOK
<1>3. CASE UNCHANGED vars
  BY <1>1, <1>3 DEF vars
<1>4. ASSUME NEW x \in Sessions, NEW c, NEW b, CountOrders(x, c, b)
      PROVE  NextUnlessTaken(tx[s])'
  <2> DEFINE t == [op |-> "create", client |-> c, lines |-> PricedLines(b, SaleType(c)),
                   number |-> generate_order_number(year, Cardinality(DOMAIN orders))]
  <2>1. Hold(x, t) /\ orders' = orders
    BY <1>4 DEF CountOrders, tables
  <2>2. t.number.count = Cardinality(DOMAIN orders) + 1
    BY DEF generate_order_number
  <2> HIDE DEF t
  <2>3. CASE x = s
    BY <1>2, <2>1, <2>2, <2>3 DEF NextUnlessTaken
  <2> QED
    BY <1>1, <1>2, <2>1, <2>3
<1>5. ASSUME NEW x \in Sessions, NEW o \in OrderIds, CommitCreate(x, o)
      PROVE  NextUnlessTaken(tx[s])'
  <2>1. /\ tx[x].op = "create" /\ NumberFree(tx[x].number) /\ Hold(x, Idle)
        /\ orders' = With(orders, o, NewRow(tx[x].number, tx[x].client, tx[x].lines))
        /\ o \notin DOMAIN orders
    BY <1>5 DEF CommitCreate
  <2>2. x # s /\ tx'[s] = tx[s]
    BY <1>2, <2>1 DEF Idle
  <2>3. /\ tx[x].number \in Numbers /\ tx[x].number.year = year
        /\ tx[s].number \in Numbers /\ tx[s].number.year = year
    BY <2>1, <2>2, HeldTypes DEF ExclusiveInv, IInv, CreateTx, NumbersOfTheYear
  <2>4. tx[x].number.count = Cardinality(DOMAIN orders) + 1
    BY <2>1 DEF ExclusiveInv, NextUnlessTaken
  <2>5. /\ orders'[o].number = tx[x].number /\ o \in DOMAIN orders'
        /\ \A y \in DOMAIN orders : y \in DOMAIN orders' /\ orders'[y] = orders[y]
    BY <2>1 DEF With, NewRow
  <2> SUFFICES ASSUME \A y \in DOMAIN orders' : orders'[y].number # tx[s].number
               PROVE  FALSE
    BY <2>2 DEF NextUnlessTaken, NumberFree
  <2>6. NumberFree(tx[s].number)
    BY <2>5 DEF NumberFree
  <2>7. tx[s].number.count = Cardinality(DOMAIN orders) + 1
    BY <2>2, <2>6 DEF ExclusiveInv, NextUnlessTaken
  <2>8. tx[s].number = tx[x].number
    BY <2>3, <2>4, <2>7 DEF Numbers
  <2> QED
    BY <2>5, <2>8
<1>6. ASSUME NEW x \in Sessions, NEW t, Hold(x, t), t.op # "create", orders' = orders
      PROVE  NextUnlessTaken(tx[s])'
  BY <1>1, <1>2, <1>6
<1>7. ASSUME NEW x \in Sessions, NEW o, NEW u,
             \/ \E to \in Statuses, p \in Persons \cup {NoPerson} :
                  LoadForStatus(x, u, o, to, p)
             \/ \E requested \in SUBSET Variants : LoadForMark(x, u, o, requested)
             \/ \E answer \in {"accept", "reject"} : LoadForAnswer(x, u, o, answer)
      PROVE  NextUnlessTaken(tx[s])'
  <2>1. ASSUME NEW to \in Statuses, NEW p \in Persons \cup {NoPerson},
               LoadForStatus(x, u, o, to, p)
        PROVE  NextUnlessTaken(tx[s])'
    <3> DEFINE t == [op |-> "status", user |-> u, order |-> o, row |-> orders[o],
                     to |-> to, person |-> p]
    <3>1. Hold(x, t) /\ orders' = orders /\ t.op # "create"
      BY <2>1 DEF LoadForStatus, tables
    <3> QED
      BY <1>6, <3>1
  <2>2. ASSUME NEW requested \in SUBSET Variants, LoadForMark(x, u, o, requested)
        PROVE  NextUnlessTaken(tx[s])'
    <3> DEFINE t == [op |-> "mark", user |-> u, order |-> o, row |-> orders[o],
                     requested |-> requested]
    <3>1. Hold(x, t) /\ orders' = orders /\ t.op # "create"
      BY <2>2 DEF LoadForMark, tables
    <3> QED
      BY <1>6, <3>1
  <2>3. ASSUME NEW answer \in {"accept", "reject"}, LoadForAnswer(x, u, o, answer)
        PROVE  NextUnlessTaken(tx[s])'
    <3> DEFINE t == [op |-> answer, user |-> u, order |-> o, row |-> orders[o]]
    <3>1. Hold(x, t) /\ orders' = orders /\ t.op # "create"
      BY <2>3 DEF LoadForAnswer, tables
    <3> QED
      BY <1>6, <3>1
  <2> QED
    BY <1>7, <2>1, <2>2, <2>3
<1>8. ASSUME NEW x \in Sessions, ReadForMark(x) \/ ReadForAccept(x) \/ Rollback(x)
      PROVE  NextUnlessTaken(tx[s])'
  <2>1. CASE ReadForMark(x)
    <3>1. PICK M : Hold(x, [op |-> "marking", user |-> tx[x].user, order |-> tx[x].order,
                            row |-> tx[x].row,
                            available |-> AvailableLines(lines[tx[x].order],
                                                         cancelled[tx[x].order]),
                            marked |-> M])
      BY <2>1 DEF ReadForMark
    <3>2. orders' = orders
      BY <2>1 DEF ReadForMark, tables
    <3> QED
      BY <1>6, <3>1, <3>2
  <2>2. CASE ReadForAccept(x)
    <3> DEFINE t == [op |-> "accepting", user |-> tx[x].user, order |-> tx[x].order,
                     row |-> tx[x].row,
                     available |-> AvailableLines(lines[tx[x].order], cancelled[tx[x].order])]
    <3>1. Hold(x, t) /\ orders' = orders /\ t.op # "create"
      BY <2>2 DEF ReadForAccept, tables
    <3> QED
      BY <1>6, <3>1
  <2>3. CASE Rollback(x)
    <3>1. Hold(x, Idle) /\ orders' = orders /\ Idle.op # "create"
      BY <2>3 DEF Rollback, Idle, tables
    <3> QED
      BY <1>6, <3>1
  <2> QED
    BY <1>8, <2>1, <2>2, <2>3
<1>9. ASSUME NEW x \in Sessions,
             CommitStatus(x) \/ CommitMark(x) \/ CommitAccept(x) \/ CommitReject(x)
      PROVE  NextUnlessTaken(tx[s])'
  <2>1. /\ DOMAIN orders' = DOMAIN orders /\ Hold(x, Idle)
        /\ \A y \in DOMAIN orders : orders'[y].number = orders[y].number
    BY <1>9, CommitsKeepNumbers DEF ExclusiveInv
  <2>2. tx'[s] = tx[s]
    BY <1>2, <2>1 DEF Idle
  <2> QED
    BY <1>1, <2>1, <2>2
<1>10. CASE NewYear /\ NumbersOfTheYear'
  <2>1. tx' = tx /\ year' = year + 1 /\ year \in Nat
    BY <1>10 DEF NewYear, ExclusiveInv, IInv, TypeOK
  <2>2. tx[s].number.year = year /\ tx'[s].number.year = year'
    BY <1>10, <2>1 DEF ExclusiveInv, NumbersOfTheYear
  <2> QED
    BY <2>1, <2>2
<1> QED
  BY <1>3, <1>4, <1>5, <1>7, <1>8, <1>9, <1>10 DEF Next, Step, Exclusive

LEMMA ExclusiveStep ==
  ASSUME ExclusiveInv, [Next /\ Exclusive']_vars
  PROVE  ExclusiveInv' /\ [Serial!Next]_Serial!vars
<1>1. CASE UNCHANGED vars
  <2>1. /\ orders' = orders /\ lines' = lines /\ cancelled' = cancelled
        /\ history' = history /\ tx' = tx /\ year' = year
    BY <1>1 DEF vars
  <2>2. IInv'
    BY <1>1, StepIInv DEF ExclusiveInv
  <2>3. \A s \in Sessions : tx'[s].op = "create" => NextUnlessTaken(tx[s])'
    BY <1>1, NumbersStayNext
  <2> QED
    BY <2>1, <2>2, <2>3 DEF ExclusiveInv, OneSessionPerOrder, NumbersOfTheYear, UpToDate,
                            OnOrder, Serial!vars
<1>2. CASE Next /\ Exclusive'
  <2>1. IInv'
    BY <1>2, StepIInv DEF ExclusiveInv
  <2>2. UpToDate' /\ [Serial!Next]_Serial!vars
    <3>1. ASSUME NEW s \in Sessions, NEW c \in Clients \cup Wholesalers, NEW b \in Baskets,
                 CountOrders(s, c, b)
          PROVE  UpToDate' /\ [Serial!Next]_Serial!vars
      BY <3>1, CountOrdersRefines DEF ExclusiveInv
    <3>2. ASSUME NEW s \in Sessions, NEW o \in OrderIds, CommitCreate(s, o)
          PROVE  UpToDate' /\ [Serial!Next]_Serial!vars
      BY <3>2, CommitCreateRefines DEF ExclusiveInv, CommitCreate
    <3>3. ASSUME NEW s \in Sessions, NEW o \in DOMAIN orders, NEW u \in Users,
                 \/ \E to \in Statuses, p \in Persons \cup {NoPerson} :
                      LoadForStatus(s, u, o, to, p)
                 \/ \E requested \in SUBSET Variants : LoadForMark(s, u, o, requested)
                 \/ \E answer \in {"accept", "reject"} : LoadForAnswer(s, u, o, answer)
          PROVE  UpToDate' /\ [Serial!Next]_Serial!vars
      BY <3>3, LoadOrderRefines DEF ExclusiveInv
    <3>4. ASSUME NEW s \in Sessions,
                 CommitStatus(s) \/ CommitMark(s) \/ CommitAccept(s) \/ CommitReject(s)
          PROVE  UpToDate' /\ [Serial!Next]_Serial!vars
      BY <3>4, CommitStatusRefines, CommitMarkRefines, CommitAcceptRefines,
         CommitRejectRefines DEF ExclusiveInv
    <3>5. ASSUME NEW s \in Sessions, ReadForMark(s) \/ ReadForAccept(s) \/ Rollback(s)
          PROVE  UpToDate' /\ [Serial!Next]_Serial!vars
      BY <3>5, ReadLinesRefines, RollbackRefines DEF ExclusiveInv
    <3>6. CASE NewYear
      <4>1. /\ orders' = orders /\ lines' = lines /\ cancelled' = cancelled
            /\ history' = history /\ tx' = tx /\ year < MaxYear /\ year' = year + 1
        BY <3>6 DEF NewYear, tables
      <4> QED
        BY <4>1 DEF ExclusiveInv, UpToDate, OnOrder, Serial!Next, Serial!NewYear,
                    Serial!tables
    <3> QED
      BY <1>2, <3>1, <3>2, <3>3, <3>4, <3>5, <3>6 DEF Next, Step
  <2>3. \A s \in Sessions : tx'[s].op = "create" => NextUnlessTaken(tx[s])'
    BY <1>2, NumbersStayNext
  <2> QED
    BY <1>2, <2>1, <2>2, <2>3 DEF ExclusiveInv, Exclusive
<1> QED
  BY <1>1, <1>2

LEMMA ExclusiveStart == Init => ExclusiveInv
<1> SUFFICES ASSUME Init
             PROVE  /\ OneSessionPerOrder /\ NumbersOfTheYear /\ UpToDate
                    /\ \A s \in Sessions : tx[s].op # "create"
  BY InitIInv DEF ExclusiveInv
<1>1. \A s \in Sessions : tx[s] = Idle
  BY DEF Init
<1>2. Idle.op = "idle"
  BY DEF Idle
<1> QED
  BY <1>1, <1>2 DEF OneSessionPerOrder, NumbersOfTheYear, UpToDate, OnOrder

\* As long as no two requests hold the same order and no creation sees a New Year, the
\* handlers, cut at their queries, do what each does in one step: every behaviour is one
\* of Orders.
THEOREM ExclusiveIsSerial == ExclusiveSpec => ImplementsSerial
<1>1. Init => Serial!Init
  BY DEF Init, Serial!Init
<1>2. ExclusiveInv /\ [Next /\ Exclusive']_vars
        => ExclusiveInv' /\ [Serial!Next]_Serial!vars
  BY ExclusiveStep
<1> QED
  BY <1>1, <1>2, ExclusiveStart, PTL DEF ExclusiveSpec, ImplementsSerial, Serial!Spec

-----------------------------------------------------------------------------
(* Final states.                                                            *)

LEMMA FinalKept ==
  ASSUME ExclusiveInv, [Next]_vars, NEW o \in DOMAIN orders, orders[o].status \in FINAL_STATES
  PROVE  orders'[o].status = orders[o].status
<1>1. orders = [x \in DOMAIN orders |-> orders[x]]
  BY DEF ExclusiveInv, IInv, TypeOK
<1>2. ASSUME UNCHANGED orders
      PROVE  orders'[o].status = orders[o].status
  BY <1>2
<1>3. ASSUME NEW s \in Sessions, NEW new, OnOrder(s), Update(tx[s].order, tx[s].row, new)
      PROVE  orders'[o].status = orders[o].status
  <2>1. CASE tx[s].order # o
    BY <1>1, <1>3, <2>1 DEF Update
  <2>2. CASE tx[s].order = o
    <3>1. tx[s].row = orders[o]
      BY <1>3, <2>2 DEF ExclusiveInv, UpToDate, Promised
    <3>2. Permitted(tx[s])
      BY <1>3 DEF ExclusiveInv, IInv, HeldFits, Fits
    <3>3. tx[s] \in Held /\ tx[s].op # "idle" /\ tx[s].op # "create"
      BY <1>3 DEF ExclusiveInv, IInv, TypeOK, OnOrder, Held
    <3>4. tx[s].op \in {"status", "mark", "marking", "accept", "accepting", "reject"}
      BY <3>3 DEF Held, Idle, CreateTx, StatusTx, MarkTx, MarkingTx, AnswerTx, AcceptingTx
    <3>5. tx[s].row.status \notin FINAL_STATES
      BY <3>2, <3>4 DEF Permitted, VALID_TRANSITIONS, FINAL_STATES
    <3> QED
      BY <3>1, <3>5
  <2> QED
    BY <2>1, <2>2
<1>4. ASSUME NEW s \in Sessions, NEW x \in OrderIds, CommitCreate(s, x)
      PROVE  orders'[o].status = orders[o].status
  BY <1>1, <1>4 DEF CommitCreate, With
<1>5. ASSUME NEW s \in Sessions,
             CommitStatus(s) \/ CommitMark(s) \/ CommitAccept(s) \/ CommitReject(s)
      PROVE  orders'[o].status = orders[o].status
  <2>1. OnOrder(s) /\ \E new : Update(tx[s].order, tx[s].row, new)
    BY <1>5 DEF CommitStatus, CommitMark, CommitAccept, CommitReject, OnOrder
  <2> QED
    BY <1>3, <2>1
<1>6. ASSUME NEW s \in Sessions, NEW c, NEW b, CountOrders(s, c, b)
      PROVE  UNCHANGED orders
  BY <1>6 DEF CountOrders, tables
<1>7. ASSUME NEW s \in Sessions, NEW x, NEW u,
             \/ \E to \in Statuses, p \in Persons \cup {NoPerson} : LoadForStatus(s, u, x, to, p)
             \/ \E requested \in SUBSET Variants : LoadForMark(s, u, x, requested)
             \/ \E answer \in {"accept", "reject"} : LoadForAnswer(s, u, x, answer)
      PROVE  UNCHANGED orders
  BY <1>7 DEF LoadForStatus, LoadForMark, LoadForAnswer, tables
<1>8. ASSUME NEW s \in Sessions, ReadForMark(s) \/ ReadForAccept(s) \/ Rollback(s)
      PROVE  UNCHANGED orders
  BY <1>8 DEF ReadForMark, ReadForAccept, Rollback, tables
<1>9. CASE UNCHANGED vars
  BY <1>2, <1>9 DEF vars
<1>10. CASE NewYear
  BY <1>2, <1>10 DEF NewYear, tables
<1> QED
  BY <1>2, <1>4, <1>5, <1>6, <1>7, <1>8, <1>9, <1>10 DEF Next, Step

\* As long as no two requests hold the same order, a delivered or cancelled order
\* keeps its status, as the error of change_order_status says
\* (orders/service.py): what FinalRace refutes takes two requests on one order.
THEOREM ExclusiveKeepsFinal == ExclusiveSpec => FinalIsFinal
<1>1. ExclusiveInv /\ [Next /\ Exclusive']_vars
        => /\ ExclusiveInv'
           /\ \A o \in DOMAIN orders :
                orders[o].status \in FINAL_STATES => orders'[o].status = orders[o].status
  BY ExclusiveStep, FinalKept
<1> QED
  BY <1>1, ExclusiveStart, PTL DEF ExclusiveSpec, FinalIsFinal

=============================================================================
