--------------------------- MODULE BackOfficeProofs ---------------------------
(***************************************************************************)
(* Proofs about the parts of the back office beside orders, commissions,   *)
(* accounts and the synchronization: what the reader of the catalogue is   *)
(* told and what an order charges (Offers), what the shipments account for *)
(* (Shipments) and what an import stores (CatalogImport), for all values   *)
(* of the constants.                                                       *)
(***************************************************************************)
EXTENDS Offers, Shipments, CatalogImport, SumsProofs, FiniteSetTheorems, TLAPS

-----------------------------------------------------------------------------
(* Offers.  The inductive invariant: at each stage, what was shown is the   *)
(* price that was right at the first reading of the clock, and the flag is  *)
(* right at the second one.                                                 *)

Moments == 0..MaxTime

OffersOK ==
  /\ time \in Moments
  /\ retail \in RetailPrices
  /\ offer \in [start : {NoValue} \cup Moments, end : {NoValue} \cup Moments,
                price : {NoValue} \cup OfferPrices, pct : {NoValue} \cup OfferPcts]

ActiveAt(t) ==
  /\ offer.start # NoValue /\ offer.end # NoValue
  /\ offer.start <= t /\ t <= offer.end

HasPrice == offer.price # NoValue \/ offer.pct # NoValue

Shown ==
  \/ visit.role = "wholesale" /\ visit.shown = ListPrice
  \/ visit.role = "admin" /\ visit.shown = retail
  \/ SeesOffers(visit.role) /\ visit.shown = retail
       /\ ~(ActiveAt(visit.priced) /\ HasPrice)
  \/ SeesOffers(visit.role) /\ ActiveAt(visit.priced) /\ HasPrice
       /\ visit.shown = OfferPrice

PricedAtFirst == visit.priced \in Moments /\ visit.priced <= time /\ Shown

Flagged ==
  /\ visit.flagged \in Moments /\ visit.priced <= visit.flagged
  /\ visit.flag <=> /\ SeesOffers(visit.role) /\ ActiveAt(visit.flagged)
                    /\ HasPrice

Charged ==
  /\ visit.role # "admin"
  /\ visit.charged = IF visit.role = "wholesale" THEN ListPrice ELSE retail

Fields == {"stage", "role", "shown", "flag", "priced", "flagged", "charged"}

VisitOK ==
  /\ visit = [k \in Fields |-> visit[k]]
  /\ visit.stage \in {"none", "priced", "shown", "bought"}
  /\ visit.stage # "none" => PricedAtFirst
  /\ visit.stage \in {"shown", "bought"} => Flagged
  /\ visit.stage = "bought" => Charged

VisitInv == OffersOK /\ VisitOK

-----------------------------------------------------------------------------

\* The rounded percentage of a price is a price.
LEMMA AfterPctType ==
  ASSUME NEW price \in Int, NEW pct \in 0..100
  PROVE  AfterPct(price, pct) \in Int
<1>1. ASSUME NEW n \in Int
      PROVE  n \div 100 \in Int
  OBVIOUS
<1>2. price * (100 - pct) \in Int
  OBVIOUS
<1> DEFINE cents == (price * (100 - pct)) \div 100
<1>3. cents \in Int
  BY <1>1, <1>2
<1>4. cents + 1 \in Int
  BY <1>3
<1>5. AfterPct(price, pct) \in {cents, cents + 1}
  BY Zenon DEF AfterPct
<1> QED
  BY <1>3, <1>4, <1>5

\* The update of a visit that sets its flag.
LEMMA FlagSet ==
  ASSUME NEW v, v = [k \in Fields |-> v[k]], NEW t, NEW b
  PROVE  [v EXCEPT !.stage = "shown", !.flagged = t, !.flag = b].flag = b
  BY DEF Fields

\* Whether an answer sees an offer: it has a price or a percentage, in its time.
LEMMA OfferSeen ==
  ASSUME OffersOK, retail # NoValue \/ offer.price # NoValue \/ offer.pct = NoValue
  PROVE  (PrecioOferta # NoValue) <=>
           (ActiveAt(time) /\ HasPrice)
<1>1. OfertaEstaActiva <=> ActiveAt(time)
  BY DEF OfertaEstaActiva, ActiveAt
<1>2. CASE ~OfertaEstaActiva
  BY <1>1, <1>2 DEF PrecioOferta, HasPrice
<1>3. CASE OfertaEstaActiva /\ offer.price # NoValue
  BY <1>1, <1>3 DEF PrecioOferta, HasPrice
<1>4. CASE OfertaEstaActiva /\ offer.price = NoValue /\ offer.pct = NoValue
  BY <1>1, <1>4 DEF PrecioOferta, HasPrice
<1>5. CASE OfertaEstaActiva /\ offer.price = NoValue /\ offer.pct # NoValue
  <2>1. retail \in Int /\ offer.pct \in 0..100
    BY <1>5, OffersAssumption DEF OffersOK
  <2>2. AfterPct(retail, offer.pct) # NoValue
    BY <2>1, AfterPctType, OffersAssumption
  <2>3. PrecioOferta = AfterPct(retail, offer.pct)
    BY <1>5 DEF PrecioOferta, HasPrice
  <2> QED
    BY <1>1, <1>5, <2>2, <2>3 DEF HasPrice
<1> QED
  BY <1>2, <1>3, <1>4, <1>5

\* The price an answer sees is the offer's.
LEMMA OfferPriceSeen ==
  ASSUME PrecioOferta # NoValue
  PROVE  PrecioOferta = OfferPrice
BY DEF PrecioOferta, OfferPrice

\* No offer and nobody reading.
LEMMA InitVisitInv == OffersInit => VisitInv
  BY OffersAssumption DEF OffersInit, VisitInv, OffersOK, VisitOK, Moments, Fields, NoOffer, NoVisit

-----------------------------------------------------------------------------

\* What was shown stays right while the offer does.
LEMMA ShownStays ==
  ASSUME Shown, UNCHANGED <<retail, offer>>, visit'.role = visit.role,
         visit'.shown = visit.shown, visit'.priced = visit.priced
  PROVE  Shown'
<1>1. (ActiveAt(visit.priced) <=> ActiveAt(visit.priced)') /\ (HasPrice <=> HasPrice')
  BY DEF ActiveAt, HasPrice
<1>2. SeesOffers(visit.role) <=> SeesOffers(visit.role)'
  BY DEF SeesOffers
<1>3. CASE visit.role = "wholesale" /\ visit.shown = ListPrice
  BY <1>3 DEF Shown
<1>4. CASE visit.role = "admin" /\ visit.shown = retail
  BY <1>4 DEF Shown
<1>5. CASE SeesOffers(visit.role) /\ visit.shown = retail
             /\ ~(ActiveAt(visit.priced) /\ HasPrice)
  BY <1>1, <1>2, <1>5 DEF Shown
<1>6. CASE SeesOffers(visit.role) /\ ActiveAt(visit.priced) /\ HasPrice
             /\ visit.shown = OfferPrice
  <2>1. visit'.shown = OfferPrice'
    BY <1>6 DEF OfferPrice
  <2> QED
    BY <1>1, <1>2, <1>6, <2>1 DEF Shown
<1> QED
  BY <1>3, <1>4, <1>5, <1>6 DEF Shown

\* A first answer shows what is right now.
LEMMA ReadPriceKeeps ==
  ASSUME VisitInv, NEW role \in ViewRoles, ReadPrice(role)
  PROVE  VisitInv'
<1>1. OffersOK'
  BY DEF VisitInv, OffersOK, ReadPrice
<1>2. CASE PriceRaises(role) \/ DisplayPrice(role) = NoValue
  BY <1>1, <1>2 DEF VisitInv, VisitOK, ReadPrice, NoVisit, Fields
<1>3. CASE ~(PriceRaises(role) \/ DisplayPrice(role) = NoValue)
  <2>1. visit' = [stage |-> "priced", role |-> role, shown |-> DisplayPrice(role),
                  flag |-> FALSE, priced |-> time, flagged |-> 0, charged |-> NoValue]
    BY <1>3 DEF ReadPrice, NoVisit
  <2>2. UNCHANGED <<time, retail, offer>>
    BY DEF ReadPrice
  <2>3. Shown'
    <3>1. CASE role = "wholesale"
      <4>1. DisplayPrice(role) = ListPrice
        BY <3>1 DEF DisplayPrice, SeesOffers
      <4> QED
        BY <2>1, <3>1, <4>1 DEF Shown
    <3>2. CASE role = "admin"
      BY <2>1, <2>2, <3>2 DEF Shown, DisplayPrice, SeesOffers
    <3>3. CASE SeesOffers(role)
      <4>1. OffersOK
        BY DEF VisitInv
      <4>2. role # "wholesale"
        BY <3>3 DEF SeesOffers
      <4>3. CASE PrecioOferta # NoValue
        <5>1. ActiveAt(time)
          BY <4>3 DEF PrecioOferta, OfertaEstaActiva, ActiveAt
        <5>a. HasPrice
          BY <4>3 DEF PrecioOferta, HasPrice
        <5>2. DisplayPrice(role) = PrecioOferta
          BY <3>3, <4>2, <4>3 DEF DisplayPrice
        <5>3. PrecioOferta = OfferPrice
          BY <4>3, OfferPriceSeen
        <5>4. ActiveAt(visit.priced)'
          BY <2>1, <2>2, <5>1 DEF ActiveAt
        <5>b. HasPrice'
          BY <2>2, <5>a DEF HasPrice
        <5>5. visit'.shown = OfferPrice'
          BY <2>1, <2>2, <5>2, <5>3 DEF OfferPrice
        <5> QED
          BY <2>1, <3>3, <5>4, <5>5, <5>b DEF Shown, SeesOffers
      <4>4. CASE PrecioOferta = NoValue
        <5>1. DisplayPrice(role) = retail
          BY <4>2, <4>4 DEF DisplayPrice
        <5>2. retail # NoValue
          BY <1>3, <5>1
        <5>3. ~(ActiveAt(time) /\ HasPrice)
          BY <4>1, <4>4, <5>2, OfferSeen
        <5>4. ~(ActiveAt(visit.priced) /\ HasPrice)'
          BY <2>1, <2>2, <5>3 DEF ActiveAt, HasPrice
        <5> QED
          BY <2>1, <2>2, <3>3, <5>1, <5>4 DEF Shown, SeesOffers
      <4> QED
        BY <4>3, <4>4
    <3> QED
      BY <3>1, <3>2, <3>3 DEF ViewRoles, SeesOffers
  <2>4. time \in Moments
    BY DEF VisitInv, OffersOK
  <2>5. PricedAtFirst'
    BY <2>1, <2>2, <2>3, <2>4 DEF PricedAtFirst, Moments
  <2> QED
    BY <1>1, <2>1, <2>5 DEF VisitInv, VisitOK, Fields
<1> QED
  BY <1>2, <1>3

\* A second reading of the clock flags what is right then.
LEMMA ReadFlagKeeps ==
  ASSUME VisitInv, ReadFlag
  PROVE  VisitInv'
<1>1. OffersOK'
  BY DEF VisitInv, OffersOK, ReadFlag
<1>2. CASE PriceRaises(visit.role)
  BY <1>1, <1>2 DEF VisitInv, VisitOK, ReadFlag, NoVisit, Fields
<1>3. CASE ~PriceRaises(visit.role)
  <2>1. /\ visit.stage = "priced"
        /\ visit' = [visit EXCEPT !.stage = "shown", !.flagged = time,
                       !.flag = SeesOffers(visit.role) /\ PrecioOferta # NoValue]
        /\ UNCHANGED <<time, retail, offer>>
    BY <1>3 DEF ReadFlag
  <2>2. visit = [k \in Fields |-> visit[k]] /\ PricedAtFirst /\ OffersOK
    BY <2>1 DEF VisitInv, VisitOK
  <2>3. /\ visit' = [k \in Fields |-> visit'[k]]
        /\ visit'.stage = "shown" /\ visit'.flagged = time
        /\ visit'.role = visit.role /\ visit'.shown = visit.shown
        /\ visit'.priced = visit.priced
    BY <2>1, <2>2 DEF Fields
  <2> DEFINE seen == SeesOffers(visit.role) /\ PrecioOferta # NoValue
  <2>4. visit'.flag <=> seen
    <3>1. visit' = [visit EXCEPT !.stage = "shown", !.flagged = time, !.flag = seen]
      BY <2>1
    <3> HIDE DEF seen
    <3>2. visit'.flag = seen
      BY <2>2, <3>1, FlagSet
    <3> QED
      BY <3>2
  <2>5. PricedAtFirst'
    BY <2>1, <2>2, <2>3, ShownStays DEF PricedAtFirst
  <2>6. SeesOffers(visit.role) => ((PrecioOferta # NoValue) <=>
           (ActiveAt(time) /\ HasPrice))
    <3>1. CASE retail # NoValue \/ offer.price # NoValue \/ offer.pct = NoValue
      BY <2>2, <3>1, OfferSeen
    <3>2. CASE retail = NoValue /\ offer.price = NoValue /\ offer.pct # NoValue
      BY <1>3, <3>2 DEF PriceRaises, PrecioOferta, OfertaEstaActiva, ActiveAt, HasPrice
    <3> QED
      BY <3>1, <3>2
  <2>7. Flagged'
    BY <2>1, <2>2, <2>3, <2>4, <2>6
       DEF Flagged, PricedAtFirst, ActiveAt, SeesOffers, HasPrice, OffersOK
  <2> QED
    BY <1>1, <2>3, <2>5, <2>7 DEF VisitInv, VisitOK
<1> QED
  BY <1>2, <1>3

LEMMA BuyShownKeeps ==
  ASSUME VisitInv, BuyShown
  PROVE  VisitInv'
<1> DEFINE price == IF visit.role = "wholesale" THEN ListPrice ELSE retail
<1>1. OffersOK'
  BY DEF VisitInv, OffersOK, BuyShown
<1>2. CASE price = NoValue
  BY <1>1, <1>2 DEF VisitInv, VisitOK, BuyShown, NoVisit, Fields
<1>3. CASE price # NoValue
  <2>1. /\ visit.stage = "shown" /\ visit.role # "admin"
        /\ visit' = [visit EXCEPT !.stage = "bought", !.charged = price]
        /\ UNCHANGED <<time, retail, offer>>
    BY <1>3 DEF BuyShown
  <2>2. visit = [k \in Fields |-> visit[k]] /\ PricedAtFirst /\ Flagged
    BY <2>1 DEF VisitInv, VisitOK
  <2>3. /\ visit' = [k \in Fields |-> visit'[k]]
        /\ visit'.stage = "bought" /\ visit'.charged = price
        /\ visit'.role = visit.role /\ visit'.shown = visit.shown
        /\ visit'.priced = visit.priced /\ visit'.flagged = visit.flagged
    BY <2>1, <2>2 DEF Fields
  <2>7. visit'.flag = visit.flag
    BY <2>1, <2>2 DEF Fields
  <2> HIDE DEF price
  <2>4. PricedAtFirst'
    BY <2>1, <2>2, <2>3, ShownStays DEF PricedAtFirst
  <2>5. Flagged'
    BY <2>1, <2>2, <2>3, <2>7 DEF Flagged, ActiveAt, SeesOffers, HasPrice
  <2>6. Charged'
    BY <2>1, <2>3 DEF Charged, price
  <2> QED
    BY <1>1, <2>3, <2>4, <2>5, <2>6 DEF VisitInv, VisitOK
<1> QED
  BY <1>2, <1>3

\* Every step of the catalogue, of the clock and of the reader keeps the invariant.
LEMMA StepVisitInv == VisitInv /\ [OffersNext]_offerVars => VisitInv'
<1> SUFFICES ASSUME VisitInv, [OffersNext]_offerVars
             PROVE  VisitInv'
  OBVIOUS
<1>1. CASE Tick
  <2>1. time' \in Moments /\ time <= time' /\ UNCHANGED <<retail, offer, visit>>
    BY <1>1, OffersAssumption DEF Tick, VisitInv, OffersOK, Moments
  <2>2. OffersOK'
    BY <2>1 DEF VisitInv, OffersOK
  <2>3. Shown => Shown'
    BY <2>1, ShownStays
  <2>4. PricedAtFirst => PricedAtFirst'
    BY <2>1, <2>3 DEF PricedAtFirst, VisitInv, OffersOK, Moments
  <2>5. (Flagged' <=> Flagged) /\ (Charged' <=> Charged)
    BY <2>1 DEF Flagged, Charged, ActiveAt, HasPrice
  <2> QED
    BY <2>1, <2>2, <2>4, <2>5 DEF VisitInv, VisitOK
<1>2. ASSUME NEW start \in {NoValue} \cup 0..MaxTime, NEW end \in {NoValue} \cup 0..MaxTime,
             NEW price \in {NoValue} \cup OfferPrices, NEW pct \in {NoValue} \cup OfferPcts,
             UpdateOferta([start |-> start, end |-> end, price |-> price, pct |-> pct])
      PROVE  VisitInv'
  BY <1>2 DEF UpdateOferta, VisitInv, OffersOK, VisitOK, Moments
<1>3. ASSUME NEW role \in ViewRoles, ReadPrice(role)
      PROVE  VisitInv'
  BY <1>3, ReadPriceKeeps
<1>4. CASE ReadFlag
  BY <1>4, ReadFlagKeeps
<1>5. CASE BuyShown
  BY <1>5, BuyShownKeeps
<1>6. CASE Leave
  BY <1>6 DEF Leave, VisitInv, OffersOK, VisitOK, NoVisit, Fields
<1>7. CASE UNCHANGED offerVars
  <2>1. time' = time /\ retail' = retail /\ offer' = offer /\ visit' = visit
    BY <1>7 DEF offerVars
  <2>2. OffersOK' /\ (HasPrice' <=> HasPrice)
        /\ \A t : ActiveAt(t)' <=> ActiveAt(t)
    BY <2>1 DEF VisitInv, OffersOK, HasPrice, ActiveAt
  <2>3. (PricedAtFirst' <=> PricedAtFirst) /\ (Charged' <=> Charged)
    BY <2>1, <2>2 DEF PricedAtFirst, Shown, Charged, OfferPrice, ActiveAt, HasPrice
  <2>4. Flagged' <=> Flagged
    BY <2>1, <2>2 DEF Flagged, ActiveAt, HasPrice
  <2> QED
    BY <2>1, <2>2, <2>3, <2>4 DEF VisitInv, VisitOK
<1> QED
  BY <1>1, <1>2, <1>3, <1>4, <1>5, <1>6, <1>7 DEF OffersNext

\* Whatever an offer, its dates and its prices: the price of an answer and its flag are
\* of the same reading of the offer (get_display_price, get_oferta_info), unless the
\* offer begins or ends between the two readings of the clock.
THEOREM OffersAreAnnounced == OffersSpec => []OfferAnnounced
<1>1. VisitInv => OfferAnnounced
  <2> SUFFICES ASSUME VisitInv, visit.stage \in {"shown", "bought"}
               PROVE  IF visit.flag
                      THEN \/ visit.shown = OfferPrice
                           \/ visit.shown = retail /\ BeganIn(visit)
                      ELSE \/ visit.shown = PlainPrice(visit.role)
                           \/ visit.shown = OfferPrice /\ EndedIn(visit)
    BY DEF OfferAnnounced
  <2>1. PricedAtFirst /\ Flagged /\ OffersOK
    BY DEF VisitInv, VisitOK
  <2>2. offer.start # NoValue /\ offer.end # NoValue
           => offer.start \in Moments /\ offer.end \in Moments
    BY <2>1 DEF OffersOK
  <2>3. visit.priced \in Moments /\ visit.flagged \in Moments /\ visit.priced <= visit.flagged
    BY <2>1 DEF PricedAtFirst, Flagged
  <2>4. ActiveAt(visit.priced) /\ ~ActiveAt(visit.flagged) => EndedIn(visit)
    BY <2>2, <2>3 DEF ActiveAt, EndedIn, Moments
  <2>5. ActiveAt(visit.flagged) /\ ~ActiveAt(visit.priced) => BeganIn(visit)
    BY <2>2, <2>3 DEF ActiveAt, BeganIn, Moments
  <2>6. Shown
    BY <2>1 DEF PricedAtFirst
  <2>7. CASE visit.flag
    <3>1. SeesOffers(visit.role) /\ ActiveAt(visit.flagged) /\ HasPrice
      BY <2>1, <2>7 DEF Flagged
    <3>2. \/ visit.shown = retail /\ ~ActiveAt(visit.priced)
          \/ visit.shown = OfferPrice
      BY <2>6, <3>1 DEF Shown, SeesOffers
    <3> QED
      BY <2>5, <2>7, <3>1, <3>2
  <2>8. CASE ~visit.flag
    <3>1. ~(SeesOffers(visit.role) /\ ActiveAt(visit.flagged) /\ HasPrice)
      BY <2>1, <2>8 DEF Flagged
    <3>2. \/ visit.shown = PlainPrice(visit.role)
          \/ /\ SeesOffers(visit.role) /\ ActiveAt(visit.priced) /\ HasPrice
             /\ visit.shown = OfferPrice
      BY <2>6 DEF Shown, PlainPrice, SeesOffers
    <3> QED
      BY <2>4, <2>8, <3>1, <3>2
  <2> QED
    BY <2>7, <2>8
<1> QED
  BY <1>1, InitVisitInv, StepVisitInv, PTL DEF OffersSpec

-----------------------------------------------------------------------------
(* Shipments.  The orders linked to a shipment are those its request had    *)
(* loaded, less those a later one took over; a request that has read the    *)
(* deliveries of its person holds a number that was right then, and the     *)
(* shipments of a person only become more.                                  *)

ShipmentRows == [person : Couriers, vendor : Vendors, count : Nat]

Linked(f, s) == {o \in ShipOrders : f[o] = s}

\* What the shipments of a person count.
RowsBy(t, p) == {s \in DOMAIN t : t[s].person = p}

CountOf(t, p) == MapThenSumSet(LAMBDA s : t[s].count, RowsBy(t, p))

Counts(t, p) == [s \in RowsBy(t, p) |-> t[s].count]

\* The orders in a list, and the links when they get shipment n.
Listed(q) == {q[i] : i \in DOMAIN q}

Relinked(f, q, n) == [o \in ShipOrders |-> IF o \in Listed(q) THEN n ELSE f[o]]

DeskFields == {"stage", "person", "vendor", "asked", "loaded", "deliveries"}

DeskOK(r, t) ==
  /\ r = [k \in DeskFields |-> r[k]]
  /\ r.stage \in {"none", "load", "commit"}
  /\ r.asked \in Seq(ShipOrders) /\ r.loaded \in Seq(ShipOrders) /\ r.deliveries \in Nat
  /\ r.stage # "none" =>
       r.vendor \in Vendors /\ \A i \in DOMAIN r.loaded : VendorOf[r.loaded[i]] = r.vendor
  /\ r.stage = "commit" =>
       r.person \in Couriers /\ r.deliveries <= CountOf(t, r.person)

\* A shipment covers the orders linked to it.
Covered(f, t) ==
  /\ f \in [ShipOrders -> 0..Len(t)]
  /\ \A s \in DOMAIN t :
       /\ IsFiniteSet(Linked(f, s)) /\ Cardinality(Linked(f, s)) <= t[s].count
       /\ \A o \in Linked(f, s) : VendorOf[o] = t[s].vendor

ShippingInv ==
  /\ shipments \in Seq(ShipmentRows)
  /\ Covered(shipmentOf, shipments)
  /\ deliveries \in [Couriers -> Nat]
  /\ \A p \in Couriers : deliveries[p] <= CountOf(shipments, p)
  /\ clerk = [c \in Clerks |-> clerk[c]]
  /\ \A c \in Clerks : DeskOK(clerk[c], shipments)

LEMMA RowOfShipment ==
  ASSUME NEW t \in Seq(ShipmentRows), NEW s \in DOMAIN t
  PROVE  t[s] \in ShipmentRows /\ t[s].count \in Nat
<1>1. t[s] \in ShipmentRows
  OBVIOUS
<1> QED
  BY <1>1 DEF ShipmentRows

LEMMA CountIsSum ==
  ASSUME NEW t, NEW p, IsFiniteSet(DOMAIN t)
  PROVE  CountOf(t, p) = SumOf(Counts(t, p), RowsBy(t, p))
<1> DEFINE S == RowsBy(t, p)
           f == Counts(t, p)
           Is(it) == it = [s \in SUBSET S |-> IF s = {} THEN 0
                             ELSE t[Chosen(s)].count + it[s \ {Chosen(s)}]]
<1>1. CountOf(t, p) = (CHOOSE it : Is(it))[S]
  BY DEF CountOf, MapThenSumSet, MapThenFoldSet, Chosen
<1>2. IsFiniteSet(S)
  BY FS_Subset DEF RowsBy
<1>3. \A it : Is(it) <=> Sums(f, S, it)
  BY <1>2, ChosenIsElement DEF Sums, Counts
<1>4. Is(CHOOSE it : Is(it))
  <2> HIDE DEF Is, f, S
  <2> QED
    BY <1>2, <1>3, SumsExist
<1> HIDE DEF Is, f, S
<1>5. CountOf(t, p) = SumOf(f, S)
  BY <1>1, <1>2, <1>3, <1>4, SumIs
<1> QED
  BY <1>5 DEF f, S

\* A shipment more counts for its person and for nobody else.
LEMMA CountAppended ==
  ASSUME NEW t \in Seq(ShipmentRows), NEW row \in ShipmentRows, NEW p,
         NEW u, u = Append(t, row)
  PROVE  /\ CountOf(t, p) \in Nat
         /\ CountOf(u, p) = CountOf(t, p) + (IF row.person = p THEN row.count ELSE 0)
<1> DEFINE n == Len(t)
           S == RowsBy(t, p)
           T == RowsBy(u, p)
           f == Counts(t, p)
           g == Counts(u, p)
<1>1. /\ n \in Nat /\ DOMAIN t = 1..n /\ DOMAIN u = 1..(n + 1)
      /\ u[n + 1] = row /\ \A s \in DOMAIN t : u[s] = t[s]
  OBVIOUS
<1>2. IsFiniteSet(DOMAIN t) /\ IsFiniteSet(DOMAIN u)
  <2> HIDE DEF n, S, T, f, g
  <2>1. n \in Int /\ n + 1 \in Int
    BY <1>1
  <2>2. IsFiniteSet(1..n) /\ IsFiniteSet(1..(n + 1))
    BY <2>1, FS_Interval
  <2> QED
    BY <1>1, <2>2
<1>3. IsFiniteSet(S) /\ IsFiniteSet(T)
  BY <1>2, FS_Subset DEF RowsBy
<1>4. \A s \in DOMAIN t : t[s].count \in Nat
  BY RowOfShipment
<1>5. row.count \in Nat
  BY DEF ShipmentRows
<1>6. CountOf(t, p) = SumOf(f, S) /\ CountOf(u, p) = SumOf(g, T)
  BY <1>2, CountIsSum
<1>7. /\ \A s \in S : f[s] \in Nat /\ s # n + 1
      /\ n + 1 \notin S
  BY <1>1, <1>4 DEF RowsBy, Counts
<1>8. row.person = p => T = S \cup {n + 1} /\ g[n + 1] = row.count
  BY <1>1 DEF RowsBy, Counts
<1>9. row.person # p => T = S
  BY <1>1 DEF RowsBy
<1>10. \A s \in S : s \in T /\ g[s] = f[s]
  BY <1>1 DEF RowsBy, Counts
<1> HIDE DEF f, g, S, T, n
<1>11. SumOf(f, S) \in Nat
  BY <1>3, <1>7, SumOfNats
<1>12. SumOf(g, S) = SumOf(f, S)
  BY <1>3, <1>10, SumOfSame
<1>13. CASE row.person = p
  <2>1. \A s \in S \cup {n + 1} : g[s] \in Int
    BY <1>5, <1>7, <1>8, <1>10, <1>13
  <2>2. SumOf(g, S \cup {n + 1}) = SumOf(g, S) + g[n + 1]
    BY <1>3, <1>7, <2>1, SumWith
  <2> QED
    BY <1>6, <1>8, <1>11, <1>12, <1>13, <2>2
<1>14. CASE row.person # p
  BY <1>6, <1>9, <1>11, <1>12, <1>14
<1> QED
  BY <1>13, <1>14

\* The orders a request has loaded are no more than it counts.
LEMMA LoadedAreCounted ==
  ASSUME NEW q \in Seq(ShipOrders)
  PROVE  /\ IsFiniteSet(Listed(q)) /\ Cardinality(Listed(q)) <= Len(q)
         /\ Listed(q) \subseteq ShipOrders
<1>1. DOMAIN q = 1..Len(q) /\ Len(q) \in Nat
  OBVIOUS
<1>2. IsFiniteSet(DOMAIN q) /\ Cardinality(DOMAIN q) = Len(q)
  BY <1>1, FS_Interval
<1>3. q \in Surjection(DOMAIN q, Listed(q))
  BY DEF Surjection, Listed
<1>4. Listed(q) \subseteq ShipOrders
  BY DEF Listed
<1> QED
  BY <1>2, <1>3, <1>4, FS_Surjection

\* The commit of a shipment: what it covers.
LEMMA CommitCovers ==
  ASSUME NEW f, NEW t \in Seq(ShipmentRows), Covered(f, t),
         NEW q \in Seq(ShipOrders), NEW row \in ShipmentRows, row.count = Len(q),
         \A i \in DOMAIN q : VendorOf[q[i]] = row.vendor
  PROVE  Covered(Relinked(f, q, Len(t) + 1), Append(t, row))
<1> DEFINE g == Relinked(f, q, Len(t) + 1)
           L == Listed(q)
           u == Append(t, row)
<1>1. /\ Len(t) \in Nat /\ DOMAIN t = 1..Len(t) /\ Len(u) = Len(t) + 1
      /\ DOMAIN u = 1..(Len(t) + 1)
      /\ u[Len(t) + 1] = row /\ \A s \in DOMAIN t : u[s] = t[s]
  OBVIOUS
<1>2. /\ IsFiniteSet(L) /\ Cardinality(L) <= Len(q) /\ L \subseteq ShipOrders
      /\ \A o \in L : VendorOf[o] = row.vendor
  BY LoadedAreCounted DEF Listed
<1>3. f \in [ShipOrders -> 0..Len(t)]
  BY DEF Covered
<1>4. g \in [ShipOrders -> 0..Len(u)]
  BY <1>1, <1>3 DEF Relinked
<1>5. ASSUME NEW s \in DOMAIN t
      PROVE  /\ IsFiniteSet(Linked(g, s)) /\ Cardinality(Linked(g, s)) <= u[s].count
             /\ \A o \in Linked(g, s) : VendorOf[o] = u[s].vendor
  <2>1. Linked(g, s) \in SUBSET Linked(f, s)
    BY <1>1 DEF Linked, Relinked
  <2>2. /\ IsFiniteSet(Linked(f, s)) /\ Cardinality(Linked(f, s)) <= t[s].count
        /\ \A o \in Linked(f, s) : VendorOf[o] = t[s].vendor
    BY DEF Covered
  <2>3. IsFiniteSet(Linked(g, s)) /\ Cardinality(Linked(g, s)) <= Cardinality(Linked(f, s))
    BY <2>1, <2>2, FS_Subset
  <2>4. Cardinality(Linked(g, s)) \in Nat /\ Cardinality(Linked(f, s)) \in Nat
    BY <2>2, <2>3, FS_CardinalityType
  <2>5. t[s].count \in Nat /\ u[s] = t[s]
    BY <1>1, RowOfShipment
  <2>6. Cardinality(Linked(g, s)) <= u[s].count
    BY <2>2, <2>3, <2>4, <2>5
  <2> QED
    BY <2>1, <2>2, <2>3, <2>5, <2>6
<1>6. Linked(g, Len(t) + 1) = L
  <2>1. \A o \in ShipOrders : f[o] # Len(t) + 1
    BY <1>1, <1>3
  <2> QED
    BY <1>2, <2>1 DEF Linked, Relinked
<1>7. \A s \in DOMAIN u : s \in DOMAIN t \/ s = Len(t) + 1
  BY <1>1
<1>8. ASSUME NEW s \in DOMAIN u
      PROVE  /\ IsFiniteSet(Linked(g, s)) /\ Cardinality(Linked(g, s)) <= u[s].count
             /\ \A o \in Linked(g, s) : VendorOf[o] = u[s].vendor
  <2>1. CASE s = Len(t) + 1
    BY <1>1, <1>2, <1>6, <2>1
  <2> QED
    BY <1>5, <1>7, <2>1
<1>9. Covered(g, u)
  <2> HIDE DEF g, u
  <2> QED
    BY <1>4, <1>8 DEF Covered
<1> QED
  BY <1>9

\* A shipment more leaves the other requests as right as they were.
LEMMA DeskStays ==
  ASSUME NEW t \in Seq(ShipmentRows), NEW row \in ShipmentRows,
         NEW u, u = Append(t, row), NEW r, DeskOK(r, t)
  PROVE  DeskOK(r, u)
<1> DEFINE p == r.person
<1>1. CountOf(t, p) \in Nat /\ CountOf(t, p) <= CountOf(u, p) /\ CountOf(u, p) \in Nat
  <2>1. row.count \in Nat
    BY DEF ShipmentRows
  <2> HIDE DEF p
  <2>2. /\ CountOf(t, p) \in Nat
        /\ CountOf(u, p) = CountOf(t, p) + (IF row.person = p THEN row.count ELSE 0)
    BY CountAppended
  <2> QED
    BY <2>1, <2>2
<1>2. r.deliveries \in Nat /\ (r.deliveries <= CountOf(t, p) => r.deliveries <= CountOf(u, p))
  <2>1. r.deliveries \in Nat
    BY DEF DeskOK
  <2> HIDE DEF p
  <2> QED
    BY <1>1, <2>1
<1> QED
  BY <1>2 DEF DeskOK

LEMMA AtDeskOK ==
  ASSUME NEW t
  PROVE  DeskOK(AtDesk, t)
BY DEF DeskOK, AtDesk, DeskFields

LEMMA LoadingDeskOK ==
  ASSUME NEW t, NEW d, d = [k \in DeskFields |-> d[k]], d.stage = "load",
         d.vendor \in Vendors, d.asked \in Seq(ShipOrders), d.loaded \in Seq(ShipOrders),
         d.deliveries \in Nat, \A i \in DOMAIN d.loaded : VendorOf[d.loaded[i]] = d.vendor
  PROVE  DeskOK(d, t)
BY DEF DeskOK

LEMMA InitShipping == ShipInit => ShippingInv
<1> SUFFICES ASSUME ShipInit
             PROVE  ShippingInv
  OBVIOUS
<1>1. /\ shipments = <<>> /\ shipmentOf = [o \in ShipOrders |-> 0]
      /\ deliveries = [p \in Couriers |-> 0] /\ clerk = [c \in Clerks |-> AtDesk]
  BY DEF ShipInit
<1>2. shipments \in Seq(ShipmentRows) /\ DOMAIN shipments = {} /\ Len(shipments) = 0
  BY <1>1
<1>3. Covered(shipmentOf, shipments)
  BY <1>1, <1>2 DEF Covered
<1>4. ASSUME NEW p \in Couriers
      PROVE  deliveries[p] <= CountOf(shipments, p)
  <2> DEFINE S == RowsBy(shipments, p)
             f == Counts(shipments, p)
  <2>1. IsFiniteSet(DOMAIN shipments) /\ S = {}
    BY <1>2, FS_EmptySet DEF RowsBy
  <2>2. CountOf(shipments, p) = SumOf(f, S)
    BY <2>1, CountIsSum
  <2> HIDE DEF f, S
  <2> QED
    BY <1>1, <2>1, <2>2, SumOfNone
<1>5. \A c \in Clerks : DeskOK(clerk[c], shipments)
  BY <1>1, AtDeskOK
<1> QED
  BY <1>1, <1>2, <1>3, <1>4, <1>5 DEF ShippingInv

LEMMA StepShipping == ShippingInv /\ [ShipNext]_shipVars => ShippingInv'
<1> SUFFICES ASSUME ShippingInv, [ShipNext]_shipVars
             PROVE  ShippingInv'
  OBVIOUS
<1>1. CASE OrderMoves \/ UNCHANGED shipVars
  <2>1. UNCHANGED <<shipmentOf, shipments, deliveries, clerk>>
    BY <1>1 DEF OrderMoves, shipVars
  <2> QED
    BY <2>1 DEF ShippingInv
<1>2. ASSUME NEW c \in Clerks, NEW d, DeskOK(d, shipments),
             clerk' = [clerk EXCEPT ![c] = d],
             UNCHANGED <<shipmentOf, shipments, deliveries>>
      PROVE  ShippingInv'
  <2>1. \A k \in Clerks : DeskOK(clerk'[k], shipments)
    BY <1>2 DEF ShippingInv
  <2> QED
    BY <1>2, <2>1 DEF ShippingInv
<1>3. ASSUME NEW c \in Clerks, NEW p \in Persons, NEW v \in Vendors, NEW list \in OrderLists,
             CreateShipment(c, p, v, list)
      PROVE  ShippingInv'
  <2> DEFINE d == [AtDesk EXCEPT !.stage = "load", !.person = p,
                                 !.vendor = v, !.asked = list]
  <2>1. DeskOK(d, shipments)
    <3>1. list \in Seq(ShipOrders) /\ <<>> \in Seq(ShipOrders) /\ DOMAIN <<>> = {}
      BY ShipmentsAssumption
    <3>2. d = [k \in DeskFields |-> d[k]]
      BY DEF AtDesk, DeskFields
    <3>3. /\ d.stage = "load" /\ d.vendor = v /\ d.asked = list /\ d.loaded = <<>>
          /\ d.deliveries = 0
      BY DEF AtDesk
    <3> HIDE DEF d
    <3>4. \A i \in DOMAIN d.loaded : VendorOf[d.loaded[i]] = d.vendor
      BY <3>1, <3>3
    <3>5. /\ d.vendor \in Vendors /\ d.asked \in Seq(ShipOrders)
          /\ d.loaded \in Seq(ShipOrders) /\ d.deliveries \in Nat
      BY <3>1, <3>3
    <3> QED
      BY <3>2, <3>3, <3>4, <3>5, LoadingDeskOK
  <2>2. /\ clerk' = [clerk EXCEPT ![c] = d]
        /\ UNCHANGED <<shipmentOf, shipments, deliveries>>
    BY <1>3 DEF CreateShipment
  <2> HIDE DEF d
  <2> QED
    BY <1>2, <2>1, <2>2
<1>4. ASSUME NEW c \in Clerks, LoadOrder(c)
      PROVE  ShippingInv'
  <2> DEFINE r == clerk[c]
             o == Head(r.asked)
             d == [r EXCEPT !.asked = Tail(@), !.loaded = Append(@, o)]
  <2>1. DeskOK(r, shipments)
    BY DEF ShippingInv
  <2>2. r.stage = "load" /\ r.asked # <<>>
    BY <1>4 DEF LoadOrder
  <2>3. ASSUME Accepts(c, o)
        PROVE  DeskOK(d, shipments)
    <3>1. VendorOf[o] = r.vendor
      BY <2>3 DEF Accepts
    <3>2. /\ r.asked \in Seq(ShipOrders) /\ r.loaded \in Seq(ShipOrders)
          /\ r = [k \in DeskFields |-> r[k]]
      BY <2>1 DEF DeskOK
    <3>3. /\ \A i \in DOMAIN r.loaded : VendorOf[r.loaded[i]] = r.vendor
          /\ r.vendor \in Vendors /\ r.deliveries \in Nat
      BY <2>1, <2>2 DEF DeskOK
    <3>4. /\ d = [k \in DeskFields |-> d[k]] /\ d.stage = "load" /\ d.vendor = r.vendor
          /\ d.deliveries = r.deliveries /\ d.asked = Tail(r.asked)
          /\ d.loaded = Append(r.loaded, o)
      BY <2>2, <3>2 DEF DeskFields
    <3> HIDE DEF r, o, d
    <3>5. Tail(r.asked) \in Seq(ShipOrders) /\ o \in ShipOrders
      BY <2>2, <3>2 DEF o
    <3>6. d.asked \in Seq(ShipOrders) /\ d.deliveries \in Nat /\ d.vendor \in Vendors
      BY <3>3, <3>4, <3>5
    <3>8. d.loaded \in Seq(ShipOrders)
      <4>1. Append(r.loaded, o) \in Seq(ShipOrders)
        BY <3>2, <3>5
      <4> QED
        BY <3>4, <4>1
    <3>7. \A i \in DOMAIN d.loaded : VendorOf[d.loaded[i]] = d.vendor
      <4> SUFFICES ASSUME NEW i \in DOMAIN Append(r.loaded, o)
                   PROVE  VendorOf[Append(r.loaded, o)[i]] = r.vendor
        BY <3>4
      <4>1. CASE i \in DOMAIN r.loaded
        <5>1. Append(r.loaded, o)[i] = r.loaded[i]
          BY <3>2, <3>5, <4>1
        <5> QED
          BY <3>3, <4>1, <5>1
      <4>2. CASE i \notin DOMAIN r.loaded
        <5>1. Append(r.loaded, o)[i] = o
          BY <3>2, <3>5, <4>2
        <5> QED
          BY <3>1, <5>1
      <4> QED
        BY <4>1, <4>2
    <3> QED
      BY <3>4, <3>6, <3>7, <3>8, LoadingDeskOK
  <2>4. clerk' = [clerk EXCEPT ![c] = IF Accepts(c, o) THEN d ELSE AtDesk]
    BY <1>4 DEF LoadOrder
  <2>5. UNCHANGED <<shipmentOf, shipments, deliveries>>
    BY <1>4 DEF LoadOrder
  <2> HIDE DEF d, r, o
  <2>6. DeskOK(IF Accepts(c, o) THEN d ELSE AtDesk, shipments)
    BY <2>3, AtDeskOK
  <2> QED
    BY <1>2, <2>4, <2>5, <2>6
<1>5. ASSUME NEW c \in Clerks, InsertShipment(c)
      PROVE  ShippingInv'
  <2> DEFINE r == clerk[c]
             d == [r EXCEPT !.stage = "commit", !.deliveries = deliveries[r.person]]
  <2>1. DeskOK(r, shipments) /\ r.stage = "load"
    BY <1>5 DEF ShippingInv, InsertShipment
  <2>2. ASSUME r.person \in Couriers
        PROVE  DeskOK(d, shipments)
    <3>1. /\ deliveries[r.person] \in Nat
          /\ deliveries[r.person] <= CountOf(shipments, r.person)
      BY <2>2 DEF ShippingInv
    <3>2. r = [k \in DeskFields |-> r[k]]
      BY <2>1 DEF DeskOK
    <3>3. /\ d = [k \in DeskFields |-> d[k]] /\ d.stage = "commit" /\ d.vendor = r.vendor
          /\ d.deliveries = deliveries[r.person] /\ d.asked = r.asked
          /\ d.loaded = r.loaded /\ d.person = r.person
      BY <3>2 DEF DeskFields
    <3> HIDE DEF d, r
    <3> QED
      BY <2>1, <2>2, <3>1, <3>3 DEF DeskOK
  <2>3. clerk' = [clerk EXCEPT ![c] = IF r.person \in Couriers THEN d ELSE AtDesk]
    BY <1>5 DEF InsertShipment
  <2>4. UNCHANGED <<shipmentOf, shipments, deliveries>>
    BY <1>5 DEF InsertShipment
  <2> HIDE DEF d, r
  <2>5. DeskOK(IF r.person \in Couriers THEN d ELSE AtDesk, shipments)
    BY <2>2, AtDeskOK
  <2> QED
    BY <1>2, <2>3, <2>4, <2>5
<1>6. ASSUME NEW c \in Clerks, CommitShipment(c)
      PROVE  ShippingInv'
  <2> DEFINE r == clerk[c]
             n == Len(r.loaded)
             row == [person |-> r.person, vendor |-> r.vendor, count |-> n]
             u == Append(shipments, row)
  <2>1. /\ DeskOK(r, shipments) /\ r.stage = "commit"
        /\ shipments \in Seq(ShipmentRows)
    BY <1>6 DEF ShippingInv, CommitShipment
  <2>2. /\ r.person \in Couriers /\ r.vendor \in Vendors /\ r.loaded \in Seq(ShipOrders)
        /\ r.deliveries \in Nat /\ r.deliveries <= CountOf(shipments, r.person)
        /\ \A i \in DOMAIN r.loaded : VendorOf[r.loaded[i]] = r.vendor
    BY <2>1 DEF DeskOK
  <2>3. n \in Nat
    BY <2>2
  <2>4. row \in ShipmentRows
    BY <2>2, <2>3 DEF ShipmentRows
  <2>5. shipments' = u
    BY <1>6 DEF CommitShipment, Counted
  <2>6. u \in Seq(ShipmentRows)
    BY <2>1, <2>4
  <2>7. Covered(shipmentOf', u)
    <3>1. shipmentOf' = Relinked(shipmentOf, r.loaded, Len(shipments) + 1)
      BY <1>6 DEF CommitShipment, LoadedOf, Relinked, Listed
    <3>2. Covered(shipmentOf, shipments)
      BY DEF ShippingInv
    <3>3. row.count = Len(r.loaded) /\ row.vendor = r.vendor
      OBVIOUS
    <3> HIDE DEF r, row, n
    <3>4. Covered(Relinked(shipmentOf, r.loaded, Len(shipments) + 1), Append(shipments, row))
      BY <2>1, <2>2, <2>4, <3>2, <3>3, CommitCovers
    <3> QED
      BY <3>1, <3>4
  <2>8. \A p \in Couriers :
          /\ CountOf(shipments, p) \in Nat
          /\ CountOf(u, p) = CountOf(shipments, p) + (IF r.person = p THEN n ELSE 0)
    <3> SUFFICES ASSUME NEW p \in Couriers
                 PROVE  /\ CountOf(shipments, p) \in Nat
                        /\ CountOf(u, p) = CountOf(shipments, p)
                                             + (IF r.person = p THEN n ELSE 0)
      OBVIOUS
    <3>1. row.person = r.person /\ row.count = n
      OBVIOUS
    <3>2. u = Append(shipments, row)
      OBVIOUS
    <3> HIDE DEF r, row, u, n
    <3>3. /\ CountOf(shipments, p) \in Nat
          /\ CountOf(u, p) = CountOf(shipments, p)
                               + (IF row.person = p THEN row.count ELSE 0)
      BY <2>1, <2>4, <3>2, CountAppended
    <3> QED
      BY <3>1, <3>3
  <2>9. /\ deliveries' = [deliveries EXCEPT ![r.person] = r.deliveries + n]
        /\ clerk' = [clerk EXCEPT ![c] = AtDesk]
    BY <1>6 DEF CommitShipment
  <2>10. \A k \in Clerks : DeskOK(clerk[k], u)
    <3>1. u = Append(shipments, row) /\ \A k \in Clerks : DeskOK(clerk[k], shipments)
      BY DEF ShippingInv
    <3> HIDE DEF u, row
    <3> QED
      BY <2>1, <2>4, <3>1, DeskStays
  <2> HIDE DEF r, n, row, u
  <2>11. deliveries \in [Couriers -> Nat] /\ clerk = [k \in Clerks |-> clerk[k]]
         /\ \A p \in Couriers : deliveries[p] <= CountOf(shipments, p)
    BY DEF ShippingInv
  <2>12. deliveries' \in [Couriers -> Nat]
    BY <2>2, <2>3, <2>9, <2>11
  <2>13. ASSUME NEW p \in Couriers
         PROVE  deliveries'[p] <= CountOf(u, p)
    <3>1. deliveries[p] \in Nat /\ deliveries[p] <= CountOf(shipments, p)
      BY <2>11
    <3>2. CASE r.person = p
      <4>1. deliveries'[p] = r.deliveries + n
        BY <2>9, <2>11, <3>2
      <4> QED
        BY <2>2, <2>3, <2>8, <3>2, <4>1
    <3>3. CASE r.person # p
      <4>1. deliveries'[p] = deliveries[p]
        BY <2>9, <2>11, <3>3
      <4> QED
        BY <2>8, <3>1, <3>3, <4>1
    <3> QED
      BY <3>2, <3>3
  <2>14. /\ \A k \in Clerks : DeskOK(clerk'[k], u)
         /\ clerk' = [k \in Clerks |-> clerk'[k]]
    BY <2>9, <2>10, <2>11, AtDeskOK
  <2> QED
    BY <2>5, <2>6, <2>7, <2>12, <2>13, <2>14 DEF ShippingInv
<1> QED
  BY <1>1, <1>3, <1>4, <1>5, <1>6 DEF ShipNext

LEMMA ShippingCovers == ShippingInv => ShipmentsCover
<1> SUFFICES ASSUME ShippingInv
             PROVE  ShipmentsCover
  OBVIOUS
<1>1. ASSUME NEW s \in DOMAIN shipments
      PROVE  /\ Cardinality(LinkedTo(s)) <= shipments[s].count
             /\ \A o \in LinkedTo(s) : VendorOf[o] = shipments[s].vendor
  <2>1. LinkedTo(s) = Linked(shipmentOf, s)
    BY DEF LinkedTo, Linked
  <2> QED
    BY <2>1 DEF ShippingInv, Covered
<1>2. ASSUME NEW p \in Couriers
      PROVE  deliveries[p] <= MapThenSumSet(LAMBDA s : shipments[s].count, ShipmentsBy(p))
  <2>1. deliveries[p] <= CountOf(shipments, p)
    BY DEF ShippingInv
  <2> QED
    BY <2>1 DEF CountOf, ShipmentsBy, RowsBy
<1> QED
  BY <1>1, <1>2 DEF ShipmentsCover

\* Requests that overlap lose deliveries and ship an order twice (create_shipment of
\* delivery/service.py), but a shipment's count covers the orders linked to it, all of
\* its vendor, and a person is credited with no more than the shipments count.
THEOREM ShipmentsAreCovered == ShipSpec => []ShipmentsCover
<1> QED
  BY InitShipping, StepShipping, ShippingCovers, PTL DEF ShipSpec

-----------------------------------------------------------------------------
(* The import.  What a step may do to a session: keep what it would store   *)
(* of a variant, the titles it knows and the prices that products have.     *)

CatalogueFields == {"categories", "brands", "products", "priced", "variants"}

SessionFields ==
  {"open", "rows", "template", "view", "added", "twice", "renamed", "priced", "gone",
   "goneProducts", "made", "touched", "alone"}

IsCatalogue(c) == c = [f \in CatalogueFields |-> c[f]]

SessionOK(s) ==
  /\ s = [f \in SessionFields |-> s[f]]
  /\ IsCatalogue(s.view)
  /\ s.rows \in Seq(Rows)

\* What is in the session's catalogue once it is flushed.
Stores(s, k) == k \in (DOMAIN s.view.variants \ s.gone) \cup DOMAIN s.added

TitlesOf(s) ==
  {s.view.products[p] : p \in DOMAIN s.view.products}
    \cup {s.renamed[p] : p \in DOMAIN s.renamed}

IsPriced(s, p) == p \in s.view.priced \cup s.priced

Agrees(v, w, k) ==
  /\ k \in DOMAIN v <=> k \in DOMAIN w
  /\ k \in DOMAIN w => v[k] = w[k]

\* What a step of a row leaves alone: always, of a variant, and of the products.
SameSession(s, t) ==
  /\ SessionOK(t)
  /\ t.open = s.open /\ t.rows = s.rows /\ t.touched = s.touched /\ t.alone = s.alone
  /\ sold \subseteq DOMAIN s.view.variants => sold \subseteq DOMAIN t.view.variants

SameVariant(s, t, k) ==
  /\ k \in t.gone => k \in s.gone
  /\ k \in DOMAIN t.added => k \in DOMAIN s.added
  /\ Stores(t, k) <=> Stores(s, k)
  /\ k \notin s.gone \cup DOMAIN s.added => Agrees(t.view.variants, s.view.variants, k)

SameProduct(s, t, p) ==
  p \in DOMAIN s.view.products /\ (IsPriced(s, p) => IsPriced(t, p))

Same(s, t) ==
  /\ SameSession(s, t)
  /\ t.made = s.made
  /\ \A k \in Skus : SameVariant(s, t, k)
  /\ TitlesOf(t) \subseteq TitlesOf(s)
  /\ \A p \in DOMAIN t.view.products : SameProduct(s, t, p)

\* What a row that does not raise has done.
VariantDone(s, row, t) ==
  LET k == row.sku IN
  /\ row.kind = "add" => /\ k \in t.gone => k \in s.gone
                         /\ k \notin s.gone => Stores(t, k)
  /\ row.kind = "delete" => /\ k \in DOMAIN t.added => k \in DOMAIN s.added
                            /\ k \notin DOMAIN s.added => ~Stores(t, k)

Offered(s, row) == s.template = [name |-> NameOf[row.title], price |-> TRUE]

Makes(s, row, t, p) ==
  /\ row.kind = "add"
  /\ t.made = Put(s.made, p, Len(s.rows) + 1)
  /\ \A q \in DOMAIN t.view.products \ {p} : SameProduct(s, t, q)
  /\ Offered(s, row) =>
       IsPriced(t, p) \/ \E title \in TitlesOf(s) : NameOf[title] = NameOf[row.title]

ProductsDone(s, row, t) ==
  /\ \A title \in TitlesOf(t) : title \in TitlesOf(s) \/ (row.kind = "add" /\ title = row.title)
  /\ \/ t.made = s.made /\ \A p \in DOMAIN t.view.products : SameProduct(s, t, p)
     \/ \E p : Makes(s, row, t, p)

RowDone(s, row, t) ==
  /\ SameSession(s, t)
  /\ \A k \in Skus : row.kind = "template" \/ k # row.sku => SameVariant(s, t, k)
  /\ VariantDone(s, row, t)
  /\ ProductsDone(s, row, t)
  /\ row.kind = "template" => t.template = [name |-> NameOf[row.title], price |-> row.price]

-----------------------------------------------------------------------------

LEMMA SameSelf == ASSUME NEW s, SessionOK(s) PROVE Same(s, s)
BY DEF Same, SameSession, SameVariant, SameProduct, Agrees

LEMMA SameThenSame ==
  ASSUME NEW s, NEW t, NEW u, Same(s, t), Same(t, u)
  PROVE  Same(s, u)
<1>1. SameSession(s, u) /\ u.made = s.made /\ TitlesOf(u) \subseteq TitlesOf(s)
  BY DEF Same, SameSession
<1>2. ASSUME NEW k \in Skus
      PROVE  SameVariant(s, u, k)
  BY DEF Same, SameVariant, Agrees
<1>3. ASSUME NEW p \in DOMAIN u.view.products
      PROVE  SameProduct(s, u, p)
  BY <1>3 DEF Same, SameProduct
<1> QED
  BY <1>1, <1>2, <1>3 DEF Same

LEMMA FreshFacts ==
  ASSUME NEW s, SessionOK(s), NEW C, IsCatalogue(C)
  PROVE  LET t == Fresh(s, C) IN
         /\ SessionOK(t) /\ t.view = C /\ t.added = <<>> /\ t.gone = {} /\ t.renamed = <<>>
         /\ t.priced = {} /\ t.template = s.template /\ t.made = s.made
         /\ t.open = s.open /\ t.rows = s.rows /\ t.touched = s.touched /\ t.alone = s.alone
BY DEF SessionOK, Fresh, SessionFields

LEMMA WrittenFacts ==
  ASSUME NEW s, SessionOK(s)
  PROVE  LET w == Written(s)
             left == DOMAIN s.view.products \ s.goneProducts IN
         /\ IsCatalogue(w)
         /\ w.products = [p \in left |-> IF p \in DOMAIN s.renamed THEN s.renamed[p]
                                         ELSE s.view.products[p]]
         /\ w.priced = (s.view.priced \cup s.priced) \cap left
         /\ w.variants = [k \in (DOMAIN s.view.variants \ s.gone) \cup DOMAIN s.added |->
                            IF k \in DOMAIN s.added THEN s.added[k] ELSE s.view.variants[k]]
BY DEF SessionOK, IsCatalogue, Written, CatalogueFields

LEMMA FlushedFacts ==
  ASSUME NEW s, SessionOK(s), CanFlush(s)
  PROVE  LET t == Flushed(s) IN
         /\ Same(s, t) /\ t.template = s.template
         /\ t.added = <<>> /\ t.gone = {} /\ t.renamed = <<>> /\ t.priced = {}
<1> DEFINE w == Written(s)
           t == Flushed(s)
           left == DOMAIN s.view.products \ s.goneProducts
<1>1. /\ IsCatalogue(w)
      /\ w.products = [p \in left |-> IF p \in DOMAIN s.renamed THEN s.renamed[p]
                                      ELSE s.view.products[p]]
      /\ w.priced = (s.view.priced \cup s.priced) \cap left
      /\ w.variants = [k \in (DOMAIN s.view.variants \ s.gone) \cup DOMAIN s.added |->
                         IF k \in DOMAIN s.added THEN s.added[k] ELSE s.view.variants[k]]
  BY WrittenFacts
<1>2. s.gone \cap sold = {}
  BY DEF CanFlush
<1> HIDE DEF w
<1>3. /\ SessionOK(t) /\ t.view = w /\ t.added = <<>> /\ t.gone = {} /\ t.renamed = <<>>
      /\ t.priced = {} /\ t.template = s.template /\ t.made = s.made
      /\ t.open = s.open /\ t.rows = s.rows /\ t.touched = s.touched /\ t.alone = s.alone
  BY <1>1, FreshFacts DEF Flushed, w
<1> HIDE DEF t
<1>4. DOMAIN t.added = {} /\ DOMAIN t.renamed = {}
  BY <1>3
<1>5. SameSession(s, t)
  BY <1>1, <1>2, <1>3 DEF SameSession
<1>6. ASSUME NEW k \in Skus
      PROVE  SameVariant(s, t, k)
  BY <1>1, <1>3, <1>4 DEF SameVariant, Stores, Agrees
<1>7. TitlesOf(t) \subseteq TitlesOf(s)
  BY <1>1, <1>3, <1>4 DEF TitlesOf
<1>8. ASSUME NEW p \in DOMAIN t.view.products
      PROVE  SameProduct(s, t, p)
  BY <1>1, <1>3, <1>8 DEF SameProduct, IsPriced
<1> QED
  BY <1>3, <1>5, <1>6, <1>7, <1>8 DEF Same, t

\* What adds categories or brands to the view.
LEMMA LabelledFacts ==
  ASSUME NEW s, SessionOK(s), NEW c, NEW b
  PROVE  LET t == [s EXCEPT !.view.categories = @ \cup {c}, !.view.brands = @ \cup {b}] IN
         Same(s, t) /\ t.template = s.template
<1> DEFINE t == [s EXCEPT !.view.categories = @ \cup {c}, !.view.brands = @ \cup {b}]
<1>1. /\ t = [f \in SessionFields |-> t[f]] /\ IsCatalogue(t.view)
      /\ t.view.products = s.view.products /\ t.view.priced = s.view.priced
      /\ t.view.variants = s.view.variants /\ t.template = s.template
      /\ t.added = s.added /\ t.gone = s.gone /\ t.renamed = s.renamed /\ t.priced = s.priced
      /\ t.made = s.made /\ t.open = s.open /\ t.rows = s.rows /\ t.touched = s.touched
      /\ t.alone = s.alone
  BY DEF SessionOK, IsCatalogue, SessionFields, CatalogueFields
<1> HIDE DEF t
<1>2. SameSession(s, t)
  BY <1>1 DEF SameSession, SessionOK
<1>3. \A k \in Skus : SameVariant(s, t, k)
  BY <1>1 DEF SameVariant, Agrees, Stores
<1>4. TitlesOf(t) = TitlesOf(s) /\ \A p \in DOMAIN t.view.products : SameProduct(s, t, p)
  BY <1>1 DEF TitlesOf, SameProduct, IsPriced
<1> QED
  BY <1>1, <1>2, <1>3, <1>4 DEF Same, t

LEMMA EnsureFacts ==
  ASSUME NEW s, SessionOK(s), NEW row \in Rows, ~EnsureRaises(s, row)
  PROVE  Same(s, Ensure(s, row)) /\ Ensure(s, row).template = s.template
<1>1. CASE Unknown(s, row.title)
  <2> DEFINE u == Flushed(s)
             t == Ensure(s, row)
             c == CategoryOf[row.title]
             b == BrandOf[row.title]
  <2>1. CanFlush(s)
    BY <1>1 DEF EnsureRaises
  <2>2. Same(s, u) /\ u.template = s.template
    BY <2>1, FlushedFacts
  <2>3. t = [u EXCEPT !.view.categories = @ \cup {c}, !.view.brands = @ \cup {b}]
    BY <1>1 DEF Ensure
  <2> HIDE DEF u, t, c, b
  <2>5. SessionOK(u)
    BY <2>2 DEF Same, SameSession
  <2>4. Same(u, t) /\ t.template = u.template
    BY <2>5, <2>3, LabelledFacts
  <2> QED
    BY <2>2, <2>4, SameThenSame DEF t
<1>2. CASE ~Unknown(s, row.title)
  BY <1>2, SameSelf DEF Ensure
<1> QED
  BY <1>1, <1>2

-----------------------------------------------------------------------------
(* The rows.                                                                *)

\* Giving a product a price, or not.
LEMMA PricedFacts ==
  ASSUME NEW s, SessionOK(s), NEW p, NEW price \in BOOLEAN
  PROVE  LET t == Priced(s, p, price) IN
         /\ Same(s, t) /\ t.template = s.template
         /\ t.added = s.added /\ t.gone = s.gone /\ t.renamed = s.renamed /\ t.view = s.view
         /\ price => IsPriced(t, p)
<1> DEFINE t == Priced(s, p, price)
<1>1. CASE price
  <2>1. t = [s EXCEPT !.priced = s.priced \cup ({p} \ s.view.priced)]
    BY <1>1 DEF Priced
  <2> HIDE DEF t
  <2>2. /\ SessionOK(t) /\ t.priced = s.priced \cup ({p} \ s.view.priced)
        /\ t.view = s.view /\ t.template = s.template
        /\ t.added = s.added /\ t.gone = s.gone /\ t.renamed = s.renamed
        /\ t.made = s.made /\ t.open = s.open /\ t.rows = s.rows /\ t.touched = s.touched
        /\ t.alone = s.alone
    BY <2>1 DEF SessionOK, SessionFields
  <2>3. SameSession(s, t)
    BY <2>2 DEF SameSession
  <2>4. \A k \in Skus : SameVariant(s, t, k)
    BY <2>2 DEF SameVariant, Agrees, Stores
  <2>5. /\ TitlesOf(t) = TitlesOf(s) /\ IsPriced(t, p)
        /\ \A q \in DOMAIN t.view.products : SameProduct(s, t, q)
    BY <2>2 DEF TitlesOf, SameProduct, IsPriced
  <2> QED
    BY <2>2, <2>3, <2>4, <2>5 DEF Same, t
<1>2. CASE ~price
  BY <1>2, SameSelf DEF Priced
<1> QED
  BY <1>1, <1>2

\* The template is spent on one product or waits on, which alters nothing else.
LEMMA TemplateSpent ==
  ASSUME NEW s, SessionOK(s)
  PROVE  LET t == [s EXCEPT !.template = NoTemplate] IN Same(s, t)
<1> DEFINE t == [s EXCEPT !.template = NoTemplate]
<1>1. /\ SessionOK(t) /\ t.priced = s.priced /\ t.view = s.view
      /\ t.added = s.added /\ t.gone = s.gone /\ t.renamed = s.renamed
      /\ t.made = s.made /\ t.open = s.open /\ t.rows = s.rows /\ t.touched = s.touched
      /\ t.alone = s.alone
  BY DEF SessionOK, SessionFields
<1> HIDE DEF t
<1>2. SameSession(s, t)
  BY <1>1 DEF SameSession
<1>3. \A k \in Skus : SameVariant(s, t, k)
  BY <1>1 DEF SameVariant, Agrees, Stores
<1>4. /\ TitlesOf(t) = TitlesOf(s)
      /\ \A q \in DOMAIN t.view.products : SameProduct(s, t, q)
  BY <1>1 DEF TitlesOf, SameProduct, IsPriced
<1> QED
  BY <1>1, <1>2, <1>3, <1>4 DEF Same, t

\* What WithTemplate does: a template that waits for the row's product is taken by a
\* product with its name.
TemplateDone(s, row, t) ==
  \A p \in DOMAIN s.view.products :
    /\ NameOf[s.view.products[p]] = NameOf[row.title] /\ Offered(s, row)
    /\ \A q \in DOMAIN s.view.products \ {p} :
         NameOf[s.view.products[q]] # NameOf[row.title]
    => IsPriced(t, p)

TemplateOK(s) == s.template = NoTemplate \/ s.template.price \in BOOLEAN

LEMMA TemplateFacts ==
  ASSUME NEW s, SessionOK(s), TemplateOK(s), NEW row \in Rows, NEW t \in WithTemplate(s, row)
  PROVE  Same(s, t) /\ TemplateOK(t) /\ TemplateDone(s, row, t)
<1> DEFINE named == {p \in DOMAIN s.view.products :
                       NameOf[s.view.products[p]] = NameOf[row.title]}
           Taken == /\ s.template # NoTemplate /\ s.template.name = NameOf[row.title]
                    /\ named # {}
<1>0. NoTemplate # [name |-> NameOf[row.title], price |-> TRUE]
  <2>1. NameOf[row.title] \in {NameOf[title] : title \in Titles}
    BY DEF Rows
  <2>2. [name |-> NameOf[row.title], price |-> TRUE]
          \in [name : {NameOf[title] : title \in Titles}, price : BOOLEAN]
    BY <2>1
  <2> QED
    BY <2>2, ImportAssumption
<1>1. CASE Taken
  <2>1. PICK p \in named : t = [Priced(s, p, s.template.price) EXCEPT !.template = NoTemplate]
    BY <1>1 DEF WithTemplate
  <2> DEFINE u == Priced(s, p, s.template.price)
  <2>2. s.template.price \in BOOLEAN
    BY <1>1 DEF TemplateOK
  <2>3. Same(s, u) /\ SessionOK(u) /\ (s.template.price => IsPriced(u, p))
    BY <2>2, PricedFacts DEF Same, SameSession
  <2> HIDE DEF u
  <2>4. t = [u EXCEPT !.template = NoTemplate]
    BY <2>1 DEF u
  <2>5. Same(u, t) /\ TemplateOK(t) /\ t.view = u.view /\ t.priced = u.priced
    <3>1. Same(u, t)
      BY <2>3, <2>4, TemplateSpent
    <3> QED
      BY <2>3, <2>4, <3>1 DEF TemplateOK, SessionOK, SessionFields
  <2>6. Same(s, t)
    BY <2>3, <2>5, SameThenSame
  <2>7. TemplateDone(s, row, t)
    <3> SUFFICES ASSUME NEW o \in DOMAIN s.view.products, Offered(s, row),
                        \A q \in DOMAIN s.view.products \ {o} :
                          NameOf[s.view.products[q]] # NameOf[row.title]
                 PROVE  IsPriced(t, o)
      BY DEF TemplateDone
    <3>1. o = p /\ s.template.price
      BY DEF Offered
    <3> QED
      BY <2>3, <2>5, <3>1 DEF IsPriced
  <2> QED
    BY <2>5, <2>6, <2>7
<1>2. CASE ~Taken
  <2>1. t = s
    BY <1>2 DEF WithTemplate
  <2>2. Same(s, t) /\ TemplateOK(t)
    BY <2>1, SameSelf
  <2>3. TemplateDone(s, row, t)
    BY <1>0, <1>2 DEF TemplateDone, Offered
  <2> QED
    BY <2>2, <2>3
<1> QED
  BY <1>1, <1>2

LEMMA AddingFacts ==
  ASSUME NEW s, SessionOK(s), NEW k \in Skus, NEW p
  PROVE  LET t == Adding(s, k, p) IN
         /\ SameSession(s, t) /\ t.made = s.made /\ t.template = s.template
         /\ t.gone = s.gone /\ t.view = s.view /\ t.renamed = s.renamed
         /\ t.priced = s.priced
         /\ DOMAIN t.added = DOMAIN s.added \cup {k} /\ Stores(t, k)
         /\ \A j \in Skus \ {k} : SameVariant(s, t, j)
<1> DEFINE t == Adding(s, k, p)
<1>1. /\ t = [f \in SessionFields |-> t[f]] /\ t.added = Put(s.added, k, p)
      /\ t.priced = s.priced /\ t.view = s.view /\ t.template = s.template
      /\ t.gone = s.gone /\ t.renamed = s.renamed /\ t.made = s.made
      /\ t.open = s.open /\ t.rows = s.rows /\ t.touched = s.touched /\ t.alone = s.alone
  BY DEF SessionOK, SessionFields, Adding
<1> HIDE DEF t
<1>2. DOMAIN t.added = DOMAIN s.added \cup {k}
  BY <1>1 DEF Put
<1>3. SameSession(s, t) /\ Stores(t, k)
  BY <1>1, <1>2 DEF SameSession, SessionOK, Stores
<1>4. \A j \in Skus \ {k} : SameVariant(s, t, j)
  BY <1>1, <1>2 DEF SameVariant, Agrees, Stores
<1> QED
  BY <1>1, <1>2, <1>3, <1>4 DEF t

\* A stored sku: its product gets the name and perhaps a price.
LEMMA UpdateFacts ==
  ASSUME NEW s, SessionOK(s), NEW row \in Rows, row.sku \in DOMAIN s.view.variants
  PROVE  LET t == UpdateVariant(s, row) IN
         /\ SameSession(s, t) /\ t.made = s.made /\ t.template = s.template
         /\ \A k \in Skus : SameVariant(s, t, k)
         /\ \A title \in TitlesOf(t) : title \in TitlesOf(s) \/ title = row.title
         /\ \A p \in DOMAIN t.view.products : SameProduct(s, t, p)
<1> DEFINE p == s.view.variants[row.sku]
           renamed == IF s.view.products[p] = row.title
                      THEN Restrict(s.renamed, DOMAIN s.renamed \ {p})
                      ELSE Put(s.renamed, p, row.title)
           u == [s EXCEPT !.renamed = renamed]
           t == UpdateVariant(s, row)
<1>1. CASE p \in DOMAIN s.view.products
  <2>1. t = Priced(u, p, row.price) /\ row.price \in BOOLEAN
    BY <1>1 DEF UpdateVariant, Rows
  <2>2. \A q \in DOMAIN renamed :
          \/ q \in DOMAIN s.renamed /\ renamed[q] = s.renamed[q]
          \/ renamed[q] = row.title
    BY DEF Restrict, Put
  <2> HIDE DEF renamed
  <2>3. /\ SessionOK(u) /\ u.renamed = renamed
        /\ u.priced = s.priced /\ u.view = s.view /\ u.template = s.template
        /\ u.added = s.added /\ u.gone = s.gone /\ u.made = s.made
        /\ u.open = s.open /\ u.rows = s.rows /\ u.touched = s.touched /\ u.alone = s.alone
    BY DEF SessionOK, SessionFields
  <2> HIDE DEF u, t
  <2>4. Same(u, t) /\ t.template = u.template
    BY <2>1, <2>3, PricedFacts
  <2>5. SameSession(s, t) /\ t.made = s.made
    BY <2>3, <2>4 DEF Same, SameSession
  <2>6. \A k \in Skus : SameVariant(s, t, k)
    BY <2>3, <2>4 DEF Same, SameVariant, Stores
  <2>7. \A title \in TitlesOf(u) : title \in TitlesOf(s) \/ title = row.title
    BY <2>2, <2>3 DEF TitlesOf
  <2>8. \A q \in DOMAIN t.view.products : SameProduct(s, t, q)
    BY <2>3, <2>4 DEF Same, SameProduct, IsPriced
  <2> QED
    BY <2>3, <2>4, <2>5, <2>6, <2>7, <2>8 DEF Same, t
<1>2. CASE p \notin DOMAIN s.view.products
  <2>1. t = s
    BY <1>2 DEF UpdateVariant
  <2> QED
    BY <2>1, SameSelf DEF Same
<1> QED
  BY <1>1, <1>2

\* A product made by the row, after a flush, with or without a price.
LEMMA MakeFacts ==
  ASSUME NEW s, SessionOK(s), CanFlush(s), NEW row \in Rows, NEW p
  PROVE  LET t == MakeForVariant(s, row, p) IN
         /\ SameSession(s, t) /\ t.template = s.template
         /\ \A k \in Skus \ {row.sku} : SameVariant(s, t, k)
         /\ t.gone = {} /\ Stores(t, row.sku)
         /\ \A title \in TitlesOf(t) : title \in TitlesOf(s) \/ title = row.title
         /\ t.made = Put(s.made, p, Len(s.rows) + 1)
         /\ p \in DOMAIN t.view.products /\ t.view.products[p] = row.title
         /\ \A q \in DOMAIN t.view.products \ {p} :
              SameProduct(s, t, q) /\ t.view.products[q] \in TitlesOf(s)
<1> DEFINE f == Flushed(s)
           v == f.view
           w == [v EXCEPT !.products = Put(@, p, row.title),
                          !.priced = IF row.price THEN @ \cup {p} ELSE @]
           u == [f EXCEPT !.view = w, !.made = Put(@, p, Len(s.rows) + 1)]
           t == MakeForVariant(s, row, p)
<1>1. /\ Same(s, f) /\ f.template = s.template /\ SessionOK(f)
      /\ f.added = <<>> /\ f.gone = {} /\ f.renamed = <<>> /\ f.priced = {}
  BY FlushedFacts DEF Same, SameSession
<1>2. row.sku \in Skus /\ row.price \in BOOLEAN
  BY DEF Rows
<1>3. t = Adding(u, row.sku, p)
  <2>1. u = [f EXCEPT !.view.products = Put(@, p, row.title),
                      !.view.priced = IF row.price THEN @ \cup {p} ELSE @,
                      !.made = Put(@, p, Len(s.rows) + 1)]
    <3> HIDE DEF f
    <3> QED
      BY <1>1 DEF SessionOK, IsCatalogue, SessionFields, CatalogueFields
  <2> QED
    BY <2>1 DEF MakeForVariant
<1> HIDE DEF f
<1>4. /\ IsCatalogue(w) /\ w.products = Put(v.products, p, row.title)
      /\ v.priced \subseteq w.priced /\ w.variants = v.variants
  BY <1>1 DEF SessionOK, IsCatalogue, CatalogueFields
<1> HIDE DEF w
<1>5. /\ SessionOK(u) /\ u.view = w /\ u.made = Put(f.made, p, Len(s.rows) + 1)
      /\ u.template = f.template /\ u.added = f.added /\ u.gone = f.gone
      /\ u.renamed = f.renamed /\ u.priced = f.priced /\ u.open = f.open /\ u.rows = f.rows
      /\ u.touched = f.touched /\ u.alone = f.alone
  BY <1>1, <1>4 DEF SessionOK, SessionFields
<1> HIDE DEF u, t
<1>6. /\ SameSession(u, t) /\ t.made = u.made /\ t.template = u.template
      /\ t.gone = u.gone /\ t.view = u.view /\ t.renamed = u.renamed /\ t.priced = u.priced
      /\ DOMAIN t.added = DOMAIN u.added \cup {row.sku} /\ Stores(t, row.sku)
      /\ \A j \in Skus \ {row.sku} : SameVariant(u, t, j)
  BY <1>2, <1>3, <1>5, AddingFacts
<1>7. SameSession(s, t) /\ t.made = Put(s.made, p, Len(s.rows) + 1)
  BY <1>1, <1>4, <1>5, <1>6 DEF Same, SameSession
<1>8. \A k \in Skus \ {row.sku} : SameVariant(s, t, k)
  <2>1. \A k \in Skus : SameVariant(f, u, k)
    BY <1>4, <1>5 DEF SameVariant, Stores, Agrees
  <2> QED
    BY <1>1, <1>6, <2>1 DEF Same, SameVariant, Agrees
<1>9. /\ p \in DOMAIN t.view.products /\ t.view.products[p] = row.title
      /\ \A q \in DOMAIN t.view.products \ {p} :
           /\ q \in DOMAIN v.products /\ t.view.products[q] = v.products[q]
           /\ IsPriced(f, q) => IsPriced(t, q)
  BY <1>4, <1>5, <1>6 DEF Put, IsPriced
<1>10. \A q \in DOMAIN t.view.products \ {p} :
         SameProduct(s, t, q) /\ t.view.products[q] \in TitlesOf(s)
  BY <1>1, <1>9 DEF Same, SameProduct, TitlesOf
<1>11. \A title \in TitlesOf(t) : title \in TitlesOf(s) \/ title = row.title
  <2>1. DOMAIN t.renamed = {}
    BY <1>1, <1>5, <1>6
  <2> QED
    BY <1>9, <1>10, <2>1 DEF TitlesOf
<1> QED
  BY <1>1, <1>5, <1>6, <1>7, <1>8, <1>9, <1>10, <1>11 DEF t

\* An "add" row before the template: it made a product, or it did not.
AddDone(s, row, u) ==
  /\ SameSession(s, u) /\ u.template = s.template
  /\ \A k \in Skus \ {row.sku} : SameVariant(s, u, k)
  /\ VariantDone(s, row, u)
  /\ \A title \in TitlesOf(u) : title \in TitlesOf(s) \/ title = row.title
  /\ \/ u.made = s.made /\ \A p \in DOMAIN u.view.products : SameProduct(s, u, p)
     \/ \E p \in DOMAIN u.view.products :
          /\ u.made = Put(s.made, p, Len(s.rows) + 1) /\ u.view.products[p] = row.title
          /\ \A q \in DOMAIN u.view.products \ {p} :
               SameProduct(s, u, q) /\ u.view.products[q] \in TitlesOf(s)

LEMMA AddFacts ==
  ASSUME NEW s, SessionOK(s), NEW row \in Rows, row.kind = "add", ~AddRaises(s, row),
         NEW u \in AddVariant(s, row)
  PROVE  AddDone(s, row, u)
<1> DEFINE e == Ensure(s, row)
           k == row.sku
<1>0. k \in Skus /\ row.price \in BOOLEAN
  BY DEF Rows
<1>1. /\ Same(s, e) /\ SessionOK(e) /\ e.template = s.template /\ e.rows = s.rows
      /\ e.made = s.made
  BY EnsureFacts DEF AddRaises, Same, SameSession
<1>2. k \notin DOMAIN e.view.variants /\ Entitled(e, row.title) = {} => CanFlush(e)
  BY DEF AddRaises
<1>3. /\ k \in DOMAIN e.view.variants => u = UpdateVariant(e, row)
      /\ k \notin DOMAIN e.view.variants =>
           IF Entitled(e, row.title) = {}
           THEN \E p \in NewIds(e) : u = MakeForVariant(e, row, p)
           ELSE \E p \in Entitled(e, row.title) : u = Priced(Adding(e, k, p), p, row.price)
  BY DEF AddVariant
<1> HIDE DEF e, k
<1>4. CASE k \in DOMAIN e.view.variants
  <2>1. /\ SameSession(e, u) /\ u.made = e.made /\ u.template = e.template
        /\ \A j \in Skus : SameVariant(e, u, j)
        /\ \A title \in TitlesOf(u) : title \in TitlesOf(e) \/ title = row.title
        /\ \A p \in DOMAIN u.view.products : SameProduct(e, u, p)
    BY <1>1, <1>3, <1>4, UpdateFacts DEF k
  <2>2. SameSession(s, u) /\ \A j \in Skus : SameVariant(s, u, j)
    BY <1>1, <2>1 DEF Same, SameSession, SameVariant, Agrees
  <2>3. VariantDone(s, row, u)
    <3>1. k \in u.gone => k \in s.gone
      BY <1>0, <2>2 DEF SameVariant
    <3>2. k \notin s.gone => Stores(e, k)
      BY <1>0, <1>1, <1>4 DEF Same, SameVariant, Stores
    <3>3. Stores(e, k) => Stores(u, k)
      BY <1>0, <2>1 DEF SameVariant
    <3> QED
      BY <3>1, <3>2, <3>3 DEF VariantDone, k
  <2>4. \A p \in DOMAIN u.view.products : SameProduct(s, u, p)
    BY <1>1, <2>1 DEF Same, SameProduct
  <2> QED
    BY <1>1, <2>1, <2>2, <2>3, <2>4 DEF Same, AddDone
<1>5. CASE k \notin DOMAIN e.view.variants /\ Entitled(e, row.title) = {}
  <2>1. PICK p : u = MakeForVariant(e, row, p)
    BY <1>3, <1>5
  <2>2. /\ SameSession(e, u) /\ u.template = e.template
        /\ \A j \in Skus \ {k} : SameVariant(e, u, j)
        /\ u.gone = {} /\ Stores(u, k)
        /\ \A title \in TitlesOf(u) : title \in TitlesOf(e) \/ title = row.title
        /\ u.made = Put(e.made, p, Len(e.rows) + 1)
        /\ p \in DOMAIN u.view.products /\ u.view.products[p] = row.title
        /\ \A q \in DOMAIN u.view.products \ {p} :
             SameProduct(e, u, q) /\ u.view.products[q] \in TitlesOf(e)
    BY <1>1, <1>2, <1>5, <2>1, MakeFacts DEF k
  <2>3. SameSession(s, u) /\ \A j \in Skus \ {k} : SameVariant(s, u, j)
    BY <1>1, <2>2 DEF Same, SameSession, SameVariant, Agrees
  <2>4. VariantDone(s, row, u)
    BY <2>2 DEF VariantDone, k
  <2>5. \A q \in DOMAIN u.view.products \ {p} :
          SameProduct(s, u, q) /\ u.view.products[q] \in TitlesOf(s)
    BY <1>1, <2>2 DEF Same, SameProduct
  <2> QED
    BY <1>1, <2>2, <2>3, <2>4, <2>5 DEF Same, AddDone, k
<1>6. CASE k \notin DOMAIN e.view.variants /\ Entitled(e, row.title) # {}
  <2>1. PICK p : u = Priced(Adding(e, k, p), p, row.price)
    BY <1>3, <1>6
  <2> DEFINE a == Adding(e, k, p)
  <2>2. /\ SameSession(e, a) /\ a.made = e.made /\ a.template = e.template
        /\ a.gone = e.gone /\ a.view = e.view /\ a.renamed = e.renamed
        /\ a.priced = e.priced /\ Stores(a, k) /\ SessionOK(a)
        /\ \A j \in Skus \ {k} : SameVariant(e, a, j)
    BY <1>0, <1>1, AddingFacts DEF SameSession
  <2> HIDE DEF a
  <2>3. Same(a, u) /\ u.template = a.template
    BY <1>0, <2>1, <2>2, PricedFacts DEF a
  <2>4. SameSession(s, u) /\ \A j \in Skus \ {k} : SameVariant(s, u, j)
    BY <1>1, <2>2, <2>3 DEF Same, SameSession, SameVariant, Agrees
  <2>5. VariantDone(s, row, u)
    <3>1. (k \in e.gone => k \in s.gone) /\ (k \in u.gone => k \in a.gone)
      BY <1>0, <1>1, <2>3 DEF Same, SameVariant
    <3>2. Stores(u, k)
      BY <1>0, <2>2, <2>3 DEF Same, SameVariant
    <3> QED
      BY <2>2, <3>1, <3>2 DEF VariantDone, k
  <2>6. TitlesOf(a) = TitlesOf(e) /\ \A q : IsPriced(a, q) <=> IsPriced(e, q)
    BY <2>2 DEF TitlesOf, IsPriced
  <2>7. \A q \in DOMAIN u.view.products : SameProduct(s, u, q)
    BY <1>1, <2>2, <2>3, <2>6 DEF Same, SameProduct
  <2> QED
    BY <1>1, <2>2, <2>3, <2>4, <2>5, <2>6, <2>7 DEF Same, AddDone, k
<1> QED
  BY <1>4, <1>5, <1>6

LEMMA AddRow ==
  ASSUME NEW s, SessionOK(s), TemplateOK(s), NEW row \in Rows, row.kind = "add",
         ~AddRaises(s, row), NEW u \in AddVariant(s, row), NEW t \in WithTemplate(u, row)
  PROVE  RowDone(s, row, t) /\ TemplateOK(t)
<1>1. AddDone(s, row, u)
  BY AddFacts
<1>2. SessionOK(u) /\ TemplateOK(u)
  BY <1>1 DEF AddDone, SameSession, TemplateOK
<1>3. Same(u, t) /\ TemplateOK(t) /\ TemplateDone(u, row, t)
  BY <1>2, TemplateFacts
<1>4. SameSession(s, t) /\ \A k \in Skus \ {row.sku} : SameVariant(s, t, k)
  BY <1>1, <1>3 DEF AddDone, Same, SameSession, SameVariant, Agrees
<1>5. VariantDone(s, row, t)
  <2>1. row.sku \in Skus
    BY DEF Rows
  <2> QED
    BY <1>1, <1>3, <2>1 DEF AddDone, Same, SameVariant, VariantDone
<1>6. ProductsDone(s, row, t)
  <2>1. \A title \in TitlesOf(t) : title \in TitlesOf(s) \/ title = row.title
    BY <1>1, <1>3 DEF AddDone, Same
  <2>2. CASE u.made = s.made /\ \A p \in DOMAIN u.view.products : SameProduct(s, u, p)
    <3>1. t.made = s.made /\ \A p \in DOMAIN t.view.products : SameProduct(s, t, p)
      BY <1>3, <2>2 DEF Same, SameProduct
    <3> QED
      BY <2>1, <3>1 DEF ProductsDone
  <2>3. CASE \E p \in DOMAIN u.view.products :
               /\ u.made = Put(s.made, p, Len(s.rows) + 1) /\ u.view.products[p] = row.title
               /\ \A q \in DOMAIN u.view.products \ {p} :
                    SameProduct(s, u, q) /\ u.view.products[q] \in TitlesOf(s)
    <3>1. PICK p \in DOMAIN u.view.products :
               /\ u.made = Put(s.made, p, Len(s.rows) + 1) /\ u.view.products[p] = row.title
               /\ \A q \in DOMAIN u.view.products \ {p} :
                    SameProduct(s, u, q) /\ u.view.products[q] \in TitlesOf(s)
      BY <2>3
    <3>2. \A q \in DOMAIN t.view.products \ {p} : SameProduct(s, t, q)
      BY <1>3, <3>1 DEF Same, SameProduct
    <3>3. ASSUME Offered(s, row), ~\E title \in TitlesOf(s) : NameOf[title] = NameOf[row.title]
          PROVE  IsPriced(t, p)
      <4>1. Offered(u, row)
        BY <1>1, <3>3 DEF AddDone, Offered
      <4> QED
        BY <1>3, <3>1, <3>3, <4>1 DEF TemplateDone
    <3>4. Makes(s, row, t, p)
      BY <1>3, <3>1, <3>2, <3>3 DEF Same, Makes
    <3> QED
      BY <2>1, <3>4 DEF ProductsDone
  <2> QED
    BY <1>1, <2>2, <2>3 DEF AddDone
<1> QED
  BY <1>3, <1>4, <1>5, <1>6 DEF RowDone

LEMMA DeleteFacts ==
  ASSUME NEW s, SessionOK(s), NEW row \in Rows, ~EnsureRaises(s, row)
  PROVE  LET u == DeleteVariant(s, row) IN
         /\ SameSession(s, u) /\ u.template = s.template /\ u.made = s.made
         /\ \A k \in Skus \ {row.sku} : SameVariant(s, u, k)
         /\ row.sku \in DOMAIN u.added => row.sku \in DOMAIN s.added
         /\ row.sku \notin DOMAIN s.added => ~Stores(u, row.sku)
         /\ TitlesOf(u) \subseteq TitlesOf(s)
         /\ \A p \in DOMAIN u.view.products : SameProduct(s, u, p)
<1> DEFINE e == Ensure(s, row)
           k == row.sku
           p == e.view.variants[k]
           last == VariantsOf(p, e.view.variants) = {k} /\ p \in DOMAIN e.view.products
           gone == IF last THEN e.goneProducts \cup {p} ELSE e.goneProducts
           u == DeleteVariant(s, row)
<1>0. k \in Skus
  BY DEF Rows
<1>1. /\ Same(s, e) /\ SessionOK(e) /\ e.template = s.template
  BY EnsureFacts DEF Same, SameSession
<1>2. u = IF k \notin DOMAIN e.view.variants THEN e
          ELSE [e EXCEPT !.gone = @ \cup {k}, !.goneProducts = gone]
  <2>1. u = IF k \notin DOMAIN e.view.variants THEN e
            ELSE [e EXCEPT !.gone = @ \cup {k},
                           !.goneProducts = IF last THEN @ \cup {p} ELSE @]
    BY DEF DeleteVariant
  <2> HIDE DEF e, k, p, last, u
  <2>2. [e EXCEPT !.gone = @ \cup {k}, !.goneProducts = IF last THEN @ \cup {p} ELSE @]
          = [e EXCEPT !.gone = @ \cup {k}, !.goneProducts = gone]
    BY <1>1 DEF SessionOK, SessionFields
  <2> QED
    BY <2>1, <2>2
<1> HIDE DEF e, k, gone, u
<1>3. CASE k \notin DOMAIN e.view.variants
  <2>1. u = e
    BY <1>2, <1>3
  <2>2. Stores(e, k) => k \in DOMAIN e.added
    BY <1>3 DEF Stores
  <2> QED
    BY <1>0, <1>1, <2>1, <2>2 DEF Same, SameVariant, u, k
<1>4. CASE k \in DOMAIN e.view.variants
  <2>1. /\ SessionOK(u) /\ u.gone = e.gone \cup {k}
        /\ u.view = e.view /\ u.template = e.template /\ u.priced = e.priced
        /\ u.added = e.added /\ u.renamed = e.renamed
        /\ u.made = e.made /\ u.open = e.open /\ u.rows = e.rows /\ u.touched = e.touched
        /\ u.alone = e.alone
    BY <1>1, <1>2, <1>4 DEF SessionOK, SessionFields
  <2>2. SameSession(s, u)
    BY <1>1, <2>1 DEF Same, SameSession
  <2>3. \A j \in Skus \ {k} : SameVariant(s, u, j)
    <3>1. \A j \in Skus \ {k} : SameVariant(e, u, j)
      BY <2>1 DEF SameVariant, Stores, Agrees
    <3> QED
      BY <1>1, <3>1 DEF Same, SameVariant, Agrees
  <2>4. /\ k \in DOMAIN u.added => k \in DOMAIN s.added
        /\ k \notin DOMAIN s.added => ~Stores(u, k)
    BY <1>0, <1>1, <2>1 DEF Same, SameVariant, Stores
  <2>5. TitlesOf(u) = TitlesOf(e) /\ \A q : IsPriced(u, q) <=> IsPriced(e, q)
    BY <2>1 DEF TitlesOf, IsPriced
  <2>6. \A q \in DOMAIN u.view.products : SameProduct(s, u, q)
    BY <1>1, <2>1, <2>5 DEF Same, SameProduct
  <2> QED
    BY <1>1, <2>1, <2>2, <2>3, <2>4, <2>5, <2>6 DEF Same, u, k
<1> QED
  BY <1>3, <1>4

LEMMA DeleteRow ==
  ASSUME NEW s, SessionOK(s), TemplateOK(s), NEW row \in Rows, row.kind = "delete",
         ~EnsureRaises(s, row), NEW t \in WithTemplate(DeleteVariant(s, row), row)
  PROVE  RowDone(s, row, t) /\ TemplateOK(t)
<1> DEFINE u == DeleteVariant(s, row)
<1>0. row.sku \in Skus
  BY DEF Rows
<1>1. /\ SameSession(s, u) /\ u.template = s.template /\ u.made = s.made
      /\ \A k \in Skus \ {row.sku} : SameVariant(s, u, k)
      /\ row.sku \in DOMAIN u.added => row.sku \in DOMAIN s.added
      /\ row.sku \notin DOMAIN s.added => ~Stores(u, row.sku)
      /\ TitlesOf(u) \subseteq TitlesOf(s)
      /\ \A p \in DOMAIN u.view.products : SameProduct(s, u, p)
  BY DeleteFacts
<1> HIDE DEF u
<1>2. SessionOK(u) /\ TemplateOK(u)
  BY <1>1 DEF SameSession, TemplateOK
<1>3. Same(u, t) /\ TemplateOK(t)
  BY <1>2, TemplateFacts DEF u
<1>4. SameSession(s, t) /\ \A k \in Skus \ {row.sku} : SameVariant(s, t, k)
  BY <1>1, <1>3 DEF Same, SameSession, SameVariant, Agrees
<1>5. VariantDone(s, row, t)
  BY <1>0, <1>1, <1>3 DEF Same, SameVariant, VariantDone
<1>6. ProductsDone(s, row, t)
  BY <1>1, <1>3 DEF Same, SameProduct, ProductsDone
<1> QED
  BY <1>3, <1>4, <1>5, <1>6 DEF RowDone

LEMMA TemplateRow ==
  ASSUME NEW s, SessionOK(s), NEW row \in Rows, row.kind = "template", ~EnsureRaises(s, row)
  PROVE  RowDone(s, row, TakeTemplate(s, row)) /\ TemplateOK(TakeTemplate(s, row))
<1> DEFINE e == Ensure(s, row)
           t == TakeTemplate(s, row)
<1>1. Same(s, e) /\ SessionOK(e)
  BY EnsureFacts DEF Same, SameSession
<1>2. t = [e EXCEPT !.template = [name |-> NameOf[row.title], price |-> row.price]]
  BY DEF TakeTemplate
<1> HIDE DEF e, t
<1>3. /\ SessionOK(t) /\ t.priced = e.priced /\ t.view = e.view
      /\ t.added = e.added /\ t.gone = e.gone /\ t.renamed = e.renamed
      /\ t.made = e.made /\ t.open = e.open /\ t.rows = e.rows /\ t.touched = e.touched
      /\ t.alone = e.alone /\ t.template = [name |-> NameOf[row.title], price |-> row.price]
  BY <1>1, <1>2 DEF SessionOK, SessionFields
<1>4. SameSession(s, t)
  BY <1>1, <1>3 DEF Same, SameSession
<1>5. \A k \in Skus : SameVariant(s, t, k)
  BY <1>1, <1>3 DEF Same, SameVariant, Agrees, Stores
<1>6. TitlesOf(t) = TitlesOf(e) /\ \A q : IsPriced(t, q) <=> IsPriced(e, q)
  BY <1>3 DEF TitlesOf, IsPriced
<1>7. ProductsDone(s, row, t)
  BY <1>1, <1>3, <1>6 DEF Same, SameProduct, ProductsDone
<1>8. TemplateOK(t)
  <2>1. row.price \in BOOLEAN
    BY DEF Rows
  <2> QED
    BY <1>3, <2>1 DEF TemplateOK
<1> QED
  BY <1>3, <1>4, <1>5, <1>7, <1>8 DEF RowDone, VariantDone, t

LEMMA RowFacts ==
  ASSUME NEW s, SessionOK(s), TemplateOK(s), NEW row \in Rows, ~RowRaises(s, row),
         NEW t \in AfterRow(s, row)
  PROVE  RowDone(s, row, t) /\ TemplateOK(t)
<1>1. row.kind \in {"template", "add", "delete"}
  BY DEF Rows
<1>2. CASE row.kind = "template"
  <2>1. t = TakeTemplate(s, row) /\ ~EnsureRaises(s, row)
    BY <1>2 DEF AfterRow, RowRaises
  <2> QED
    BY <1>2, <2>1, TemplateRow
<1>3. CASE row.kind = "add"
  <2>1. ~AddRaises(s, row) /\ \E u \in AddVariant(s, row) : t \in WithTemplate(u, row)
    BY <1>3 DEF AfterRow, RowRaises
  <2> QED
    BY <1>3, <2>1, AddRow
<1>4. CASE row.kind = "delete"
  <2>1. t \in WithTemplate(DeleteVariant(s, row), row) /\ ~EnsureRaises(s, row)
    BY <1>4 DEF AfterRow, RowRaises
  <2> QED
    BY <1>4, <2>1, DeleteRow
<1> QED
  BY <1>1, <1>2, <1>3, <1>4

-----------------------------------------------------------------------------
(* The inductive invariant.  Of each variant it says what the rows read so  *)
(* far have made of it, flushed or not; of each title in the session, that  *)
(* the table or an "add" row has it; of each product that was made, that it *)
(* has a price or another product had its name.                             *)

HasRow(s, kind, k) == \E i \in DOMAIN s.rows : s.rows[i].kind = kind /\ s.rows[i].sku = k

VariantRead(s, T, k) ==
  LET adds == HasRow(s, "add", k)
      deletes == HasRow(s, "delete", k)
  IN /\ k \in s.gone => deletes
     /\ k \in DOMAIN s.added => adds
     /\ ~adds /\ ~deletes => Agrees(s.view.variants, T.variants, k)
     /\ k \notin s.touched /\ adds /\ ~deletes => Stores(s, k)
     /\ k \notin s.touched /\ deletes /\ ~adds => ~Stores(s, k)

KnownName(s, T, name, i) ==
  \/ \E q \in DOMAIN T.products : NameOf[T.products[q]] = name
  \/ \E k \in 1..(i - 1) : s.rows[k].kind = "add" /\ NameOf[s.rows[k].title] = name

Heralded(s, i) ==
  /\ i - 1 \in DOMAIN s.rows
  /\ s.rows[i - 1].kind = "template" /\ s.rows[i - 1].price
  /\ NameOf[s.rows[i - 1].title] = NameOf[s.rows[i].title]

MadeRead(s, T, p) ==
  LET i == s.made[p] IN
  IsPriced(s, p) \/ (Heralded(s, i) => KnownName(s, T, NameOf[s.rows[i].title], i))

ProductsRead(s, T) ==
  /\ \A title \in TitlesOf(s) : KnownName(s, T, NameOf[title], Len(s.rows) + 1)
  /\ \A p \in DOMAIN s.made : s.made[p] \in 1..Len(s.rows)
  /\ \A p \in DOMAIN s.view.products : p \in DOMAIN s.made => MadeRead(s, T, p)

TemplateRead(s) ==
  LET last == s.rows[Len(s.rows)] IN
  Len(s.rows) # 0 /\ last.kind = "template"
    => s.template = [name |-> NameOf[last.title], price |-> last.price]

SessionRead(s, T, S) ==
  /\ SessionOK(s) /\ TemplateOK(s) /\ TemplateRead(s)
  /\ S \subseteq DOMAIN s.view.variants
  /\ \A k \in Skus : VariantRead(s, T, k)
  /\ s.alone => ProductsRead(s, T)

ImportInv ==
  /\ IsCatalogue(table)
  /\ sold \subseteq DOMAIN table.variants
  /\ IF import.open THEN SessionRead(import, table, sold) ELSE import = NoImport

-----------------------------------------------------------------------------
(* Reading one row more.                                                    *)

LEMMA AppendFacts ==
  ASSUME NEW rows \in Seq(Rows), NEW row \in Rows, NEW more, more = Append(rows, row)
  PROVE  /\ Len(rows) \in Nat /\ DOMAIN rows = 1..Len(rows)
         /\ Len(more) = Len(rows) + 1 /\ DOMAIN more = 1..(Len(rows) + 1)
         /\ more[Len(rows) + 1] = row /\ \A i \in 1..Len(rows) : more[i] = rows[i]
OBVIOUS

LEMMA RowKeepsVariant ==
  ASSUME NEW s, SessionOK(s), NEW row \in Rows, NEW t, RowDone(s, row, t),
         NEW u, u.rows = Append(s.rows, row), u.added = t.added, u.gone = t.gone,
         u.view = t.view, u.touched = t.touched,
         NEW T, NEW k \in Skus, VariantRead(s, T, k)
  PROVE  VariantRead(u, T, k)
<1>1. ASSUME NEW kind
      PROVE  HasRow(u, kind, k) <=> HasRow(s, kind, k) \/ (row.kind = kind /\ row.sku = k)
  <2>1. /\ Len(s.rows) \in Nat /\ DOMAIN s.rows = 1..Len(s.rows)
        /\ DOMAIN u.rows = 1..(Len(s.rows) + 1)
        /\ u.rows[Len(s.rows) + 1] = row
        /\ \A i \in 1..Len(s.rows) : u.rows[i] = s.rows[i]
    BY AppendFacts DEF SessionOK
  <2>2. \A i \in DOMAIN u.rows : i \in DOMAIN s.rows \/ i = Len(s.rows) + 1
    BY <2>1
  <2>3. Len(s.rows) + 1 \in DOMAIN u.rows /\ DOMAIN s.rows \subseteq DOMAIN u.rows
    BY <2>1
  <2> QED
    BY <2>1, <2>2, <2>3 DEF HasRow
<1>2. Stores(u, k) <=> Stores(t, k)
  BY DEF Stores
<1>3. t.touched = s.touched
  BY DEF RowDone, SameSession
<1>4. CASE row.kind = "template" \/ row.sku # k
  <2>1. SameVariant(s, t, k)
    BY <1>4 DEF RowDone
  <2>2. /\ HasRow(u, "add", k) <=> HasRow(s, "add", k)
        /\ HasRow(u, "delete", k) <=> HasRow(s, "delete", k)
    BY <1>1, <1>4
  <2> QED
    BY <1>2, <1>3, <2>1, <2>2 DEF VariantRead, SameVariant, Agrees
<1>5. CASE row.kind = "add" /\ row.sku = k
  <2>1. /\ HasRow(u, "add", k)
        /\ HasRow(u, "delete", k) <=> HasRow(s, "delete", k)
    BY <1>1, <1>5
  <2>2. /\ k \in t.gone => k \in s.gone
        /\ k \notin s.gone => Stores(t, k)
    BY <1>5 DEF RowDone, VariantDone
  <2> QED
    BY <1>2, <1>3, <2>1, <2>2 DEF VariantRead
<1>6. CASE row.kind = "delete" /\ row.sku = k
  <2>1. /\ HasRow(u, "delete", k)
        /\ HasRow(u, "add", k) <=> HasRow(s, "add", k)
    BY <1>1, <1>6
  <2>2. /\ k \in DOMAIN t.added => k \in DOMAIN s.added
        /\ k \notin DOMAIN s.added => ~Stores(t, k)
    BY <1>6 DEF RowDone, VariantDone
  <2> QED
    BY <1>2, <1>3, <2>1, <2>2 DEF VariantRead
<1> QED
  BY <1>4, <1>5, <1>6 DEF Rows

LEMMA RowKeepsProducts ==
  ASSUME NEW s, SessionOK(s), TemplateRead(s), NEW row \in Rows,
         NEW t, RowDone(s, row, t),
         NEW u, u.rows = Append(s.rows, row), u.priced = t.priced, u.renamed = t.renamed,
         u.view = t.view, u.made = t.made,
         NEW T, ProductsRead(s, T)
  PROVE  ProductsRead(u, T)
<1> DEFINE n == Len(s.rows)
<1>1. /\ n \in Nat /\ DOMAIN s.rows = 1..n
      /\ Len(u.rows) = n + 1 /\ DOMAIN u.rows = 1..(n + 1)
      /\ u.rows[n + 1] = row /\ \A i \in 1..n : u.rows[i] = s.rows[i]
  BY AppendFacts DEF SessionOK
<1>2. TitlesOf(u) = TitlesOf(t) /\ \A p : IsPriced(u, p) <=> IsPriced(t, p)
  BY DEF TitlesOf, IsPriced
<1> HIDE DEF n
<1>3. ASSUME NEW name, NEW i \in 1..(n + 1), KnownName(s, T, name, i)
      PROVE  KnownName(u, T, name, i)
  <2>1. \A k \in 1..(i - 1) : k \in 1..n
    BY <1>1
  <2> QED
    BY <1>1, <1>3, <2>1 DEF KnownName
<1>4. ASSUME NEW i \in 1..n
      PROVE  u.rows[i] = s.rows[i] /\ (Heralded(u, i) => Heralded(s, i))
  <2>1. i - 1 \in 1..(n + 1) => i - 1 \in 1..n
    BY <1>1
  <2> QED
    BY <1>1, <2>1 DEF Heralded
<1>5. \A title \in TitlesOf(s) : KnownName(s, T, NameOf[title], n + 1)
  BY DEF ProductsRead, n
<1>6. \A p \in DOMAIN s.made : s.made[p] \in 1..n
  BY DEF ProductsRead, n
<1>7. \A title \in TitlesOf(u) : KnownName(u, T, NameOf[title], n + 2)
  <2> SUFFICES ASSUME NEW title \in TitlesOf(u)
               PROVE  KnownName(u, T, NameOf[title], n + 2)
    OBVIOUS
  <2>0. 1..((n + 2) - 1) = 1..(n + 1) /\ 1..((n + 1) - 1) = 1..n /\ n + 1 \in 1..(n + 1)
        /\ 1..n \subseteq 1..(n + 1)
    BY <1>1
  <2>1. CASE title \in TitlesOf(s)
    <3>1. KnownName(u, T, NameOf[title], n + 1)
      BY <1>3, <1>5, <2>0, <2>1
    <3> QED
      BY <2>0, <3>1 DEF KnownName
  <2>2. CASE row.kind = "add" /\ title = row.title
    BY <1>1, <2>0, <2>2 DEF KnownName
  <2> QED
    BY <1>2, <2>1, <2>2 DEF RowDone, ProductsDone
<1>8. ASSUME NEW p \in DOMAIN s.made, p \in DOMAIN s.view.products, SameProduct(s, t, p),
             p \in DOMAIN u.made, u.made[p] = s.made[p]
      PROVE  MadeRead(u, T, p)
  <2>1. MadeRead(s, T, p) /\ s.made[p] \in 1..n /\ (IsPriced(s, p) => IsPriced(u, p))
    BY <1>2, <1>6, <1>8 DEF ProductsRead, SameProduct
  <2>2. s.made[p] \in 1..(n + 1)
    BY <1>1, <2>1
  <2> QED
    BY <1>3, <1>4, <1>8, <2>1, <2>2 DEF MadeRead
<1>9. CASE t.made = s.made /\ \A p \in DOMAIN t.view.products : SameProduct(s, t, p)
  <2>1. \A p \in DOMAIN u.made : u.made[p] \in 1..(n + 1)
    BY <1>1, <1>6, <1>9
  <2>2. \A p \in DOMAIN u.view.products : p \in DOMAIN u.made => MadeRead(u, T, p)
    BY <1>8, <1>9 DEF SameProduct
  <2> QED
    BY <1>1, <1>7, <2>1, <2>2 DEF ProductsRead
<1>10. CASE \E p : Makes(s, row, t, p)
  <2>1. PICK p : Makes(s, row, t, p)
    BY <1>10
  <2>2. /\ DOMAIN u.made = DOMAIN s.made \cup {p} /\ u.made[p] = n + 1
        /\ \A q \in DOMAIN s.made \ {p} : u.made[q] = s.made[q]
        /\ \A q \in DOMAIN t.view.products \ {p} : SameProduct(s, t, q)
        /\ Offered(s, row) =>
             IsPriced(t, p) \/ \E title \in TitlesOf(s) : NameOf[title] = NameOf[row.title]
    BY <2>1 DEF Makes, Put, n
  <2>3. \A q \in DOMAIN u.made : u.made[q] \in 1..(n + 1)
    BY <1>1, <1>6, <2>2
  <2>4. \A q \in DOMAIN u.view.products \ {p} : q \in DOMAIN u.made => MadeRead(u, T, q)
    BY <1>8, <2>2 DEF SameProduct
  <2>5. MadeRead(u, T, p)
    <3> SUFFICES ASSUME ~IsPriced(u, p), Heralded(u, n + 1)
                 PROVE  KnownName(u, T, NameOf[row.title], n + 1)
      BY <1>1, <2>2 DEF MadeRead
    <3>1. n # 0 /\ n \in 1..n /\ (n + 1) - 1 = n
      BY <1>1 DEF Heralded
    <3>2. /\ s.rows[n].kind = "template" /\ s.rows[n].price
          /\ NameOf[s.rows[n].title] = NameOf[row.title]
      BY <1>1, <3>1 DEF Heralded
    <3>3. s.rows[n].price \in BOOLEAN
      <4>1. s.rows[n] \in Rows
        BY <3>1 DEF SessionOK, n
      <4> QED
        BY <4>1 DEF Rows
    <3>4. Offered(s, row)
      BY <3>1, <3>2, <3>3 DEF TemplateRead, Offered, n
    <3>5. PICK title \in TitlesOf(s) : NameOf[title] = NameOf[row.title]
      BY <1>2, <2>2, <3>4
    <3>6. KnownName(s, T, NameOf[row.title], n + 1)
      BY <1>5, <3>5
    <3>7. n + 1 \in 1..(n + 1)
      BY <1>1
    <3> QED
      BY <1>3, <3>6, <3>7
  <2> QED
    BY <1>1, <1>7, <2>3, <2>4, <2>5 DEF ProductsRead
<1> QED
  BY <1>9, <1>10 DEF RowDone, ProductsDone

LEMMA RowKeeps ==
  ASSUME NEW row \in Rows, import.open, ImportInv, ProcessRow(row)
  PROVE  ImportInv'
<1> DEFINE s == import
<1>0. SessionRead(s, table, sold) /\ SessionOK(s) /\ ~RowRaises(s, row)
      /\ table' = table /\ sold' = sold
  BY DEF ImportInv, SessionRead, ProcessRow
<1>1. PICK t \in AfterRow(s, row) : s' = [t EXCEPT !.rows = Append(@, row)]
  BY DEF ProcessRow
<1> DEFINE u == [t EXCEPT !.rows = Append(@, row)]
<1>2. RowDone(s, row, t) /\ TemplateOK(t)
  BY <1>0, RowFacts DEF SessionRead
<1>3. SessionOK(t) /\ t.rows = s.rows /\ t.open = s.open /\ t.alone = s.alone
      /\ t.touched = s.touched
  BY <1>2 DEF RowDone, SameSession
<1>4. /\ SessionOK(u) /\ u.rows = Append(s.rows, row)
      /\ u.priced = t.priced /\ u.view = t.view /\ u.template = t.template
      /\ u.added = t.added /\ u.gone = t.gone /\ u.renamed = t.renamed
      /\ u.made = t.made /\ u.open = s.open /\ u.touched = t.touched /\ u.alone = s.alone
  <2>1. Append(t.rows, row) \in Seq(Rows)
    BY <1>3 DEF SessionOK
  <2> QED
    BY <1>3, <2>1 DEF SessionOK, SessionFields
<1> HIDE DEF u
<1>5. TemplateOK(u) /\ TemplateRead(u)
  <2>1. Len(u.rows) = Len(s.rows) + 1 /\ u.rows[Len(s.rows) + 1] = row
    BY <1>0, <1>4, AppendFacts DEF SessionOK
  <2>2. row.kind = "template" => t.template = [name |-> NameOf[row.title], price |-> row.price]
    BY <1>2 DEF RowDone
  <2> QED
    BY <1>2, <1>4, <2>1, <2>2 DEF TemplateOK, TemplateRead
<1>6. sold \subseteq DOMAIN u.view.variants
  BY <1>0, <1>2, <1>4 DEF SessionRead, RowDone, SameSession
<1>7. \A k \in Skus : VariantRead(u, table, k)
  <2> SUFFICES ASSUME NEW k \in Skus PROVE VariantRead(u, table, k)
    OBVIOUS
  <2>1. VariantRead(s, table, k)
    BY <1>0 DEF SessionRead
  <2> QED
    BY <1>0, <1>2, <1>4, <2>1, RowKeepsVariant
<1>8. u.alone => ProductsRead(u, table)
  <2> SUFFICES ASSUME u.alone PROVE ProductsRead(u, table)
    OBVIOUS
  <2>1. ProductsRead(s, table) /\ TemplateRead(s)
    BY <1>0, <1>4 DEF SessionRead
  <2> QED
    BY <1>0, <1>2, <1>4, <2>1, RowKeepsProducts
<1>9. SessionRead(u, table, sold)
  BY <1>4, <1>5, <1>6, <1>7, <1>8 DEF SessionRead
<1>10. SessionRead(s', table', sold') /\ s'.open
  BY <1>0, <1>1, <1>4, <1>9 DEF u
<1> QED
  BY <1>0, <1>10 DEF ImportInv

-----------------------------------------------------------------------------
(* The other steps.                                                         *)

LEMMA RestartedReads ==
  ASSUME IsCatalogue(table), sold \subseteq DOMAIN table.variants,
         NEW s, SessionOK(s), TemplateOK(s)
  PROVE  LET u == Restarted(s) IN
         SessionRead(u, table, sold) /\ u.open = s.open
<1> DEFINE f == Fresh(s, table)
           u == Restarted(s)
<1>1. /\ SessionOK(f) /\ f.view = table /\ f.added = <<>> /\ f.gone = {} /\ f.renamed = <<>>
      /\ f.priced = {} /\ f.template = s.template /\ f.open = s.open
  BY FreshFacts
<1>2. u = [f EXCEPT !.rows = <<>>, !.made = <<>>, !.touched = {}, !.alone = TRUE]
  BY DEF Restarted
<1> HIDE DEF f, u
<1>3. /\ SessionOK(u) /\ u.view = table /\ u.added = <<>> /\ u.gone = {} /\ u.renamed = <<>>
      /\ u.template = s.template /\ u.open = s.open /\ u.rows = <<>> /\ u.made = <<>>
  <2>1. <<>> \in Seq(Rows)
    OBVIOUS
  <2> QED
    BY <1>1, <1>2, <2>1 DEF SessionOK, SessionFields
<1>4. /\ Len(u.rows) = 0 /\ DOMAIN u.rows = {} /\ DOMAIN u.made = {} /\ DOMAIN u.added = {}
      /\ DOMAIN u.renamed = {}
  BY <1>3
<1>5. \A k \in Skus : VariantRead(u, table, k)
  BY <1>3, <1>4 DEF VariantRead, HasRow, Agrees
<1>6. ProductsRead(u, table)
  BY <1>3, <1>4 DEF ProductsRead, TitlesOf, KnownName
<1> QED
  BY <1>3, <1>4, <1>5, <1>6 DEF SessionRead, TemplateOK, TemplateRead, u

LEMMA NoImportOK == SessionOK(NoImport) /\ TemplateOK(NoImport) /\ ~NoImport.open
<1>1. <<>> \in Seq(Rows)
  OBVIOUS
<1> QED
  BY <1>1 DEF SessionOK, TemplateOK, NoImport, IsCatalogue, EmptyCatalogue, SessionFields,
              CatalogueFields

LEMMA StartKeeps == ASSUME ImportInv, StartImport PROVE ImportInv'
<1> DEFINE f == Restarted(NoImport)
           u == [f EXCEPT !.open = TRUE]
<1>1. import' = u /\ table' = table /\ sold' = sold
  BY DEF StartImport
<1>2. SessionRead(f, table, sold) /\ SessionOK(f)
  BY NoImportOK, RestartedReads DEF ImportInv, SessionRead
<1> HIDE DEF f
<1>3. /\ SessionOK(u) /\ u.view = f.view /\ u.added = f.added /\ u.gone = f.gone
      /\ u.renamed = f.renamed /\ u.priced = f.priced /\ u.template = f.template
      /\ u.rows = f.rows /\ u.made = f.made /\ u.touched = f.touched /\ u.alone = f.alone
      /\ u.open
  BY <1>2 DEF SessionOK, SessionFields
<1> HIDE DEF u
<1>4. \A k \in Skus : VariantRead(u, table, k)
  BY <1>2, <1>3 DEF SessionRead, VariantRead, HasRow, Stores
<1>5. u.alone => ProductsRead(u, table)
  <2>1. TitlesOf(u) = TitlesOf(f)
    BY <1>3 DEF TitlesOf
  <2>2. \A name, i : KnownName(u, table, name, i) <=> KnownName(f, table, name, i)
    BY <1>3 DEF KnownName
  <2>3. \A p : MadeRead(u, table, p) <=> MadeRead(f, table, p)
    BY <1>3, <2>2 DEF MadeRead, IsPriced, Heralded
  <2> QED
    BY <1>2, <1>3, <2>1, <2>2, <2>3 DEF SessionRead, ProductsRead
<1>6. SessionRead(u, table, sold)
  BY <1>2, <1>3, <1>4, <1>5 DEF SessionRead, TemplateOK, TemplateRead
<1> QED
  BY <1>1, <1>3, <1>6 DEF ImportInv

LEMMA SkipKeeps == ASSUME ImportInv, SkipRow PROVE ImportInv'
<1>1. SessionOK(import) /\ TemplateOK(import) /\ IsCatalogue(table) /\ import.open
      /\ sold \subseteq DOMAIN table.variants
  BY DEF ImportInv, SessionRead, SkipRow
<1> DEFINE u == Restarted(import)
<1>2. SessionRead(u, table, sold) /\ u.open
  BY <1>1, RestartedReads
<1>3. import' = u /\ table' = table /\ sold' = sold
  BY DEF SkipRow
<1> HIDE DEF u
<1> QED
  BY <1>1, <1>2, <1>3 DEF ImportInv

LEMMA CommitKeeps == ASSUME ImportInv, CommitImport PROVE ImportInv'
<1>1. SessionRead(import, table, sold) /\ SessionOK(import) /\ import.gone \cap sold = {}
  BY DEF ImportInv, SessionRead, CommitImport, CanFlush
<1>2. table' = Written(import) /\ sold' = sold /\ import' = NoImport
  BY DEF CommitImport
<1>3. /\ IsCatalogue(table')
      /\ DOMAIN table'.variants
           = (DOMAIN import.view.variants \ import.gone) \cup DOMAIN import.added
  <2> DEFINE w == Written(import)
  <2>1. /\ IsCatalogue(w)
        /\ w.variants
             = [k \in (DOMAIN import.view.variants \ import.gone) \cup DOMAIN import.added |->
                  IF k \in DOMAIN import.added THEN import.added[k]
                  ELSE import.view.variants[k]]
    BY <1>1, WrittenFacts
  <2>2. table' = w
    BY <1>2
  <2> HIDE DEF w
  <2> QED
    BY <2>1, <2>2
<1>4. sold' \subseteq DOMAIN table'.variants
  BY <1>1, <1>2, <1>3 DEF SessionRead
<1> QED
  BY <1>2, <1>3, <1>4, NoImportOK DEF ImportInv

LEMMA OtherSteps ==
  ASSUME ImportInv, NEW C, NEW W, NEW skus, NEW S,
         IsCatalogue(C), S \subseteq DOMAIN C.variants,
         import.open => /\ IsCatalogue(W)
                        /\ S \subseteq DOMAIN W.variants
                        /\ \A k \in Skus :
                             /\ Agrees(import.view.variants, table.variants, k)
                                  => Agrees(W.variants, C.variants, k)
                             /\ k \notin skus => Agrees(W.variants, import.view.variants, k),
         table' = C, sold' = S, import' = SessionAfter(W, skus)
  PROVE  ImportInv'
<1>1. CASE ~import.open
  BY <1>1, NoImportOK DEF SessionAfter, ImportInv
<1>2. CASE import.open
  <2> DEFINE u == SessionAfter(W, skus)
  <2>1. SessionRead(import, table, sold) /\ SessionOK(import)
    BY <1>2 DEF ImportInv, SessionRead
  <2>2. u = [import EXCEPT !.view = W, !.touched = @ \cup skus, !.alone = FALSE]
    BY <1>2 DEF SessionAfter
  <2> HIDE DEF u
  <2>3. /\ SessionOK(u) /\ u.view = W /\ u.added = import.added /\ u.gone = import.gone
        /\ u.template = import.template /\ u.rows = import.rows /\ ~u.alone /\ u.open
        /\ u.touched = import.touched \cup skus
    BY <1>2, <2>1, <2>2 DEF SessionOK, SessionFields
  <2>4. ASSUME NEW k \in Skus
        PROVE  VariantRead(u, C, k)
    <3>1. VariantRead(import, table, k)
      BY <2>1 DEF SessionRead
    <3>2. \A kind : HasRow(u, kind, k) <=> HasRow(import, kind, k)
      BY <2>3 DEF HasRow
    <3>3. k \notin skus => (Stores(u, k) <=> Stores(import, k))
      BY <1>2, <2>3 DEF Stores, Agrees
    <3> QED
      BY <1>2, <2>3, <3>1, <3>2, <3>3 DEF VariantRead
  <2>5. SessionRead(u, C, S)
    BY <1>2, <2>1, <2>3, <2>4 DEF SessionRead, TemplateOK, TemplateRead
  <2>6. import' = u
    BY DEF u
  <2> QED
    BY <2>3, <2>5, <2>6 DEF ImportInv
<1> QED
  BY <1>1, <1>2

LEMMA ClearKeeps == ASSUME ImportInv, CommitClear PROVE ImportInv'
<1> DEFINE C == Cleared(table)
           W == Cleared(import.view)
           S == sold \ clear.skus
<1>1. table' = C /\ sold' = S /\ import' = SessionAfter(W, clear.skus)
  BY DEF CommitClear
<1>2. IsCatalogue(C) /\ IsCatalogue(W)
  BY DEF Cleared, IsCatalogue, CatalogueFields
<1>3. /\ C.variants = Restrict(table.variants, DOMAIN table.variants \ clear.skus)
      /\ W.variants = Restrict(import.view.variants, DOMAIN import.view.variants \ clear.skus)
  BY DEF Cleared
<1> HIDE DEF C, W
<1>4. S \subseteq DOMAIN C.variants
  BY <1>3 DEF Restrict, ImportInv
<1>5. import.open => S \subseteq DOMAIN W.variants
  BY <1>3 DEF Restrict, ImportInv, SessionRead
<1>6. ASSUME NEW k \in Skus
      PROVE  /\ Agrees(import.view.variants, table.variants, k)
                  => Agrees(W.variants, C.variants, k)
             /\ k \notin clear.skus => Agrees(W.variants, import.view.variants, k)
  BY <1>3 DEF Restrict, Agrees
<1> HIDE DEF S
<1> QED
  BY <1>1, <1>2, <1>4, <1>5, <1>6, OtherSteps

LEMMA AddKeeps ==
  ASSUME NEW sku, NEW p, NEW title, ImportInv, OtherAdds(sku, p, title)
  PROVE  ImportInv'
<1> DEFINE C == Stored(table, sku, p, title)
           W == Stored(import.view, sku, p, title)
<1>1. table' = C /\ sold' = sold /\ import' = SessionAfter(W, {sku})
  BY DEF OtherAdds
<1>2. IsCatalogue(table) /\ (import.open => IsCatalogue(import.view))
  BY DEF ImportInv, SessionRead, SessionOK
<1>3. /\ IsCatalogue(C) /\ C.variants = Put(table.variants, sku, p)
      /\ import.open => IsCatalogue(W) /\ W.variants = Put(import.view.variants, sku, p)
  BY <1>2 DEF Stored, IsCatalogue, CatalogueFields
<1> HIDE DEF C, W
<1>4. sold \subseteq DOMAIN C.variants
  BY <1>3 DEF Put, ImportInv
<1>5. import.open => sold \subseteq DOMAIN W.variants
  BY <1>3 DEF Put, ImportInv, SessionRead
<1>6. ASSUME NEW k \in Skus, import.open
      PROVE  /\ Agrees(import.view.variants, table.variants, k)
                  => Agrees(W.variants, C.variants, k)
             /\ k \notin {sku} => Agrees(W.variants, import.view.variants, k)
  BY <1>3, <1>6 DEF Put, Agrees
<1> QED
  BY <1>1, <1>3, <1>4, <1>5, <1>6, OtherSteps

LEMMA DeleteKeeps ==
  ASSUME NEW sku, ImportInv, OtherDeletes(sku)
  PROVE  ImportInv'
<1>0. PICK ids : /\ table' = Without(table, sku, ids) /\ sold' = sold
                 /\ import' = SessionAfter(Without(import.view, sku, ids), {sku})
                 /\ sku \notin sold
  BY DEF OtherDeletes
<1> DEFINE C == Without(table, sku, ids)
           W == Without(import.view, sku, ids)
<1>1. table' = C /\ sold' = sold /\ import' = SessionAfter(W, {sku})
  BY <1>0
<1>2. IsCatalogue(table) /\ (import.open => IsCatalogue(import.view))
  BY DEF ImportInv, SessionRead, SessionOK
<1>3. /\ IsCatalogue(C)
      /\ C.variants = Restrict(table.variants, DOMAIN table.variants \ {sku})
      /\ import.open =>
           /\ IsCatalogue(W)
           /\ W.variants = Restrict(import.view.variants, DOMAIN import.view.variants \ {sku})
  BY <1>2 DEF Without, IsCatalogue, CatalogueFields
<1> HIDE DEF C, W
<1>4. sold \subseteq DOMAIN C.variants
  BY <1>0, <1>3 DEF Restrict, ImportInv
<1>5. import.open => sold \subseteq DOMAIN W.variants
  BY <1>0, <1>3 DEF Restrict, ImportInv, SessionRead
<1>6. ASSUME NEW k \in Skus, import.open
      PROVE  /\ Agrees(import.view.variants, table.variants, k)
                  => Agrees(W.variants, C.variants, k)
             /\ k \notin {sku} => Agrees(W.variants, import.view.variants, k)
  BY <1>3, <1>6 DEF Restrict, Agrees
<1> QED
  BY <1>1, <1>3, <1>4, <1>5, <1>6, OtherSteps

LEMMA SellKeeps == ASSUME NEW sku, ImportInv, Sell(sku) PROVE ImportInv'
<1>1. /\ table' = table /\ import' = import /\ sold' = sold \cup {sku}
      /\ sku \in DOMAIN table.variants
      /\ import.open => sku \in DOMAIN import.view.variants
  BY DEF Sell
<1>2. CASE import.open
  <2>1. SessionRead(import, table, sold \cup {sku})
    BY <1>1, <1>2 DEF ImportInv, SessionRead
  <2> QED
    BY <1>1, <1>2, <2>1 DEF ImportInv
<1>3. CASE ~import.open
  BY <1>1, <1>3 DEF ImportInv
<1> QED
  BY <1>2, <1>3

LEMMA InitImport == ImportInit => ImportInv
<1> SUFFICES ASSUME ImportInit PROVE ImportInv
  OBVIOUS
<1>1. IsCatalogue(EmptyCatalogue)
  BY DEF IsCatalogue, EmptyCatalogue, CatalogueFields
<1> QED
  BY <1>1, NoImportOK DEF ImportInit, ImportInv

LEMMA StepImport == ImportInv /\ [ImportNext]_importVars => ImportInv'
<1> SUFFICES ASSUME ImportInv, [ImportNext]_importVars PROVE ImportInv'
  OBVIOUS
<1> USE DEF importVars
<1>1. CASE StartImport
  BY <1>1, StartKeeps
<1>2. ASSUME NEW row \in Sheet, ProcessRow(row) PROVE ImportInv'
  <2>1. row \in Rows /\ import.open
    BY <1>2, ImportAssumption DEF ProcessRow
  <2> QED
    BY <1>2, <2>1, RowKeeps
<1>3. CASE SkipRow
  BY <1>3, SkipKeeps
<1>4. CASE CommitImport
  BY <1>4, CommitKeeps
<1>5. CASE AbortImport
  BY <1>5, NoImportOK DEF AbortImport, ImportInv
<1>6. CASE UNCHANGED <<table, sold, import>>
  <2>1. SessionRead(import, table, sold)' <=> SessionRead(import', table', sold')
    OBVIOUS
  <2> QED
    BY <1>6, <2>1 DEF ImportInv
<1>7. CASE BeginClear \/ AbortClear
  BY <1>6, <1>7 DEF BeginClear, AbortClear
<1>8. CASE CommitClear
  BY <1>8, ClearKeeps
<1>9. ASSUME NEW sku \in OtherSkus, NEW p \in ProductIds, NEW title \in Titles,
             OtherAdds(sku, p, title)
      PROVE  ImportInv'
  BY <1>9, AddKeeps
<1>10. ASSUME NEW sku \in OtherSkus, OtherDeletes(sku) PROVE ImportInv'
  BY <1>10, DeleteKeeps
<1>11. ASSUME NEW sku \in Skus, Sell(sku) PROVE ImportInv'
  BY <1>11, SellKeeps
<1> QED
  BY <1>1, <1>2, <1>3, <1>4, <1>5, <1>6, <1>7, <1>8, <1>9, <1>10, <1>11 DEF ImportNext

-----------------------------------------------------------------------------

\* A completed import has stored the rows since the last one that failed, and none of
\* the rows before it: whatever rows it read, with any number of rows of a sku, and
\* whatever other imports, synchronizations, clears and orders did in the meantime.
THEOREM RowsSinceLastError == ImportSpec => StoresRowsSinceLastError
<1> DEFINE Kept == /\ \A sku \in Skus :
                        IF RowsOf(sku) = {}
                        THEN /\ sku \in DOMAIN table'.variants <=> sku \in DOMAIN table.variants
                             /\ sku \in DOMAIN table.variants
                                  => table'.variants[sku] = table.variants[sku]
                        ELSE \/ sku \in import.touched
                             \/ \E i \in RowsOf(sku) :
                                  sku \in DOMAIN table'.variants
                                    <=> import.rows[i].kind = "add"
                   /\ sold \subseteq DOMAIN table'.variants
<1>1. ASSUME ImportInv, CommitImport
      PROVE  Kept
  <2>1. SessionRead(import, table, sold) /\ SessionOK(import) /\ import.gone \cap sold = {}
    BY <1>1 DEF ImportInv, SessionRead, CommitImport, CanFlush
  <2>2. table'.variants
          = [k \in (DOMAIN import.view.variants \ import.gone) \cup DOMAIN import.added |->
               IF k \in DOMAIN import.added THEN import.added[k] ELSE import.view.variants[k]]
    BY <1>1, <2>1, WrittenFacts DEF CommitImport
  <2>3. sold \subseteq DOMAIN table'.variants
    BY <2>1, <2>2 DEF SessionRead
  <2>4. ASSUME NEW sku \in Skus, RowsOf(sku) = {}
        PROVE  Agrees(table'.variants, table.variants, sku)
    <3>1. ~HasRow(import, "add", sku) /\ ~HasRow(import, "delete", sku)
      BY <2>4 DEF RowsOf, HasRow
    <3> QED
      BY <2>1, <2>2, <3>1 DEF SessionRead, VariantRead, Agrees
  <2>5. ASSUME NEW sku \in Skus, RowsOf(sku) # {}, sku \notin import.touched
        PROVE  \E i \in RowsOf(sku) :
                 sku \in DOMAIN table'.variants <=> import.rows[i].kind = "add"
    <3>1. VariantRead(import, table, sku)
          /\ (sku \in DOMAIN table'.variants <=> Stores(import, sku))
      BY <2>1, <2>2 DEF SessionRead, Stores
    <3>2. HasRow(import, "add", sku) \/ HasRow(import, "delete", sku)
      BY <2>5 DEF RowsOf, HasRow
    <3>3. CASE HasRow(import, "add", sku) /\ sku \in DOMAIN table'.variants
      BY <3>3 DEF RowsOf, HasRow
    <3>4. CASE HasRow(import, "delete", sku) /\ sku \notin DOMAIN table'.variants
      BY <3>4 DEF RowsOf, HasRow
    <3> QED
      BY <2>5, <3>1, <3>2, <3>3, <3>4 DEF VariantRead
  <2> QED
    BY <2>3, <2>4, <2>5 DEF Agrees
<1>2. ImportInv /\ [ImportNext]_importVars => [CommitImport => Kept]_importVars
  BY <1>1
<1> QED
  BY <1>2, InitImport, StepImport, PTL DEF ImportSpec, StoresRowsSinceLastError

\* A product that an import made after its template, and that is left at 0.00, had a
\* namesake that may have taken the price, if no other request wrote the catalogue since
\* the last row that failed.
THEOREM PlaceholdersExplained == ImportSpec => PlaceholderExplained
<1> DEFINE Namesake(i) ==
             LET name == NameOf[import.rows[i].title] IN
             \/ \E q \in DOMAIN table.products : NameOf[table.products[q]] = name
             \/ \E k \in 1..(i - 1) : /\ import.rows[k].kind = "add"
                                      /\ NameOf[import.rows[k].title] = name
           Explained ==
             \A p \in DOMAIN table'.products \ (DOMAIN table.products \cup table'.priced),
                i \in DOMAIN import.rows : Announced(p, i) => Namesake(i)
<1>1. ASSUME ImportInv, CommitImport, import.alone,
             NEW p \in DOMAIN table'.products \ (DOMAIN table.products \cup table'.priced),
             NEW i \in DOMAIN import.rows, Announced(p, i)
      PROVE  Namesake(i)
  <2>1. SessionOK(import) /\ ProductsRead(import, table)
    BY <1>1 DEF ImportInv, SessionRead, CommitImport
  <2> DEFINE left == DOMAIN import.view.products \ import.goneProducts
  <2>2. /\ DOMAIN table'.products = left
        /\ table'.priced = (import.view.priced \cup import.priced) \cap left
    BY <1>1, <2>1, WrittenFacts DEF CommitImport
  <2>3. p \in DOMAIN import.view.products /\ ~IsPriced(import, p)
    BY <1>1, <2>2 DEF IsPriced
  <2>4. p \in DOMAIN import.made /\ import.made[p] = i /\ Heralded(import, i)
    BY <1>1 DEF Announced, Heralded
  <2>5. KnownName(import, table, NameOf[import.rows[i].title], i)
    BY <2>1, <2>3, <2>4 DEF ProductsRead, MadeRead
  <2> QED
    BY <2>5 DEF KnownName
<1>2. ImportInv /\ [ImportNext]_importVars
        => [CommitImport /\ import.alone => Explained]_importVars
  BY <1>1
<1> QED
  BY <1>2, InitImport, StepImport, PTL DEF ImportSpec, PlaceholderExplained

=============================================================================
