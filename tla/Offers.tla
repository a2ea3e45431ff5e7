-------------------------------- MODULE Offers --------------------------------
(***************************************************************************)
(* What the catalogue shows for a product and what an order charges for it *)
(* (catalog/service.py, catalog/router.py, orders/service.py).  An offer is *)
(* active between two dates; there is no flag in the table, so each answer *)
(* reads the clock, once for the price it shows and once more for its      *)
(* is_oferta_activa.  The product is loaded once for an answer, and orders *)
(* do not look at offers: an update during a visit would not be seen.      *)
(***************************************************************************)
EXTENDS Integers

CONSTANTS
  RetailPrices,   \* products.retail_price, NoValue for NULL
  ListPrice,      \* products.list_price
  OfferPrices, OfferPcts,
  MaxTime,        \* bound: the clock
  NoValue

ASSUME OffersAssumption ==
  /\ RetailPrices \subseteq Int \cup {NoValue}
  /\ OfferPrices \subseteq Int /\ OfferPcts \subseteq 0..100
  /\ NoValue \notin Int /\ ListPrice \in Int /\ MaxTime \in Nat

VARIABLES
  time,    \* datetime.utcnow()
  retail,  \* the product's retail_price
  offer,   \* its four columns of the offer
  visit    \* one reader: what the answer has shown so far, what the order charged

offerVars == <<time, retail, offer, visit>>

ViewRoles == {"admin", "client", "vendor", "wholesale"}

NoOffer == [start |-> NoValue, end |-> NoValue, price |-> NoValue, pct |-> NoValue]

NoVisit == [stage |-> "none", role |-> "admin", shown |-> NoValue, flag |-> FALSE,
            priced |-> 0, flagged |-> 0, charged |-> NoValue]

OffersInit ==
  /\ time = 0
  /\ retail \in RetailPrices
  /\ offer = NoOffer
  /\ visit = NoVisit

Tick ==
  /\ time < MaxTime
  /\ time' = time + 1
  /\ UNCHANGED <<retail, offer, visit>>

-----------------------------------------------------------------------------

OfertaEstaActiva ==
  /\ offer.start # NoValue /\ offer.end # NoValue
  /\ offer.start <= time /\ time <= offer.end

\* round(retail_price * (1 - pct / 100), 2): to the nearest, a half to the even one.
AfterPct(price, pct) ==
  LET cents == (price * (100 - pct)) \div 100
      rest == (price * (100 - pct)) % 100
  IN IF rest > 50 \/ (rest = 50 /\ cents % 2 = 1) THEN cents + 1 ELSE cents

\* get_precio_oferta, when the product's price is not NULL or the offer has its own.
PrecioOferta ==
  IF ~OfertaEstaActiva THEN NoValue
  ELSE IF offer.price # NoValue THEN offer.price
  ELSE IF offer.pct # NoValue THEN AfterPct(retail, offer.pct)
  ELSE NoValue

\* Faulty: wholesale clients see offers too.
SeesOffers_Buyers(role) == role # "admin"

SeesOffers(role) == role \in {"client", "vendor"}

\* The percentage of a NULL price raises.
PriceRaises(role) ==
  SeesOffers(role) /\ OfertaEstaActiva
    /\ offer.price = NoValue /\ offer.pct # NoValue /\ retail = NoValue

DisplayPrice(role) ==
  CASE role = "wholesale" -> ListPrice
    [] SeesOffers(role) /\ PrecioOferta # NoValue -> PrecioOferta
    [] OTHER -> retail

\* The commit replaces the four columns.
UpdateOferta(new) ==
  /\ visit.stage = "none"
  /\ new.start # NoValue /\ new.end # NoValue
       => new.start < new.end /\ (new.price # NoValue \/ new.pct # NoValue)
  /\ offer' = new
  /\ UNCHANGED <<time, retail, visit>>

\* get_display_price.  An answer without a price is not valid: it is an error.
ReadPrice(role) ==
  /\ visit.stage = "none"
  /\ visit' = IF PriceRaises(role) \/ DisplayPrice(role) = NoValue THEN NoVisit
              ELSE [NoVisit EXCEPT !.stage = "priced", !.role = role,
                                   !.shown = DisplayPrice(role), !.priced = time]
  /\ UNCHANGED <<time, retail, offer>>

\* get_oferta_info.
ReadFlag ==
  /\ visit.stage = "priced"
  /\ visit' = IF PriceRaises(visit.role) THEN NoVisit
              ELSE [visit EXCEPT !.stage = "shown", !.flagged = time,
                      !.flag = SeesOffers(visit.role) /\ PrecioOferta # NoValue]
  /\ UNCHANGED <<time, retail, offer>>

\* calculate_item_prices, for who may create orders: a client, a wholesale client, a
\* vendor for a client of its network; a NULL price raises.
BuyShown ==
  /\ visit.stage = "shown" /\ visit.role # "admin"
  /\ LET price == IF visit.role = "wholesale" THEN ListPrice ELSE retail IN
     visit' = IF price = NoValue THEN NoVisit
              ELSE [visit EXCEPT !.stage = "bought", !.charged = price]
  /\ UNCHANGED <<time, retail, offer>>

Leave ==
  /\ visit.stage \in {"shown", "bought"}
  /\ visit' = NoVisit
  /\ UNCHANGED <<time, retail, offer>>

OffersNext ==
  \/ Tick
  \/ \E start, end \in {NoValue} \cup 0..MaxTime, price \in {NoValue} \cup OfferPrices,
        pct \in {NoValue} \cup OfferPcts :
       UpdateOferta([start |-> start, end |-> end, price |-> price, pct |-> pct])
  \/ \E role \in ViewRoles : ReadPrice(role)
  \/ ReadFlag
  \/ BuyShown
  \/ Leave

OffersSpec == OffersInit /\ [][OffersNext]_offerVars

-----------------------------------------------------------------------------
(* Properties.                                                              *)

\* Between the two readings of the clock the offer can begin or end.
BeganIn(v) == v.priced < offer.start /\ offer.start <= v.flagged
EndedIn(v) == v.priced <= offer.end /\ offer.end < v.flagged

\* The price of the role when no offer counts, and the price under the offer.
PlainPrice(role) == IF role = "wholesale" THEN ListPrice ELSE retail
OfferPrice == IF offer.price # NoValue THEN offer.price ELSE AfterPct(retail, offer.pct)

\* The two halves of an answer agree although each reads the clock: beside an offer's
\* price stands that an offer is active and beside the plain one that none is, unless
\* the offer began or ended while the answer was made, and then only in that way round.
OfferAnnounced ==
  visit.stage \in {"shown", "bought"} =>
    IF visit.flag
    THEN \/ visit.shown = OfferPrice
         \/ visit.shown = retail /\ BeganIn(visit)
    ELSE \/ visit.shown = PlainPrice(visit.role)
         \/ visit.shown = OfferPrice /\ EndedIn(visit)

\* What catalog/models.py:68-71 says an offer is, a temporary discount for clients and
\* vendors: a client who is shown the price of an offer, and orders while it is still
\* active, is charged that price.  The code charges retail_price.
OfferCharged ==
  /\ visit.stage = "bought" /\ visit.role = "client" /\ visit.flag
  /\ OfertaEstaActiva /\ visit.shown = OfferPrice
  => visit.charged = visit.shown

=============================================================================
