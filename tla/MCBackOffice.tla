----------------------------- MODULE MCBackOffice -----------------------------
(***************************************************************************)
(* The parts of the back office beside orders, commissions and accounts,   *)
(* each moving while the others are at rest, in one initial state of       *)
(* theirs.  The pool, the shipments and the offers share no row with the   *)
(* others.  The synchronization and the import write the same catalogue:   *)
(* what others commit during an import, CatalogImport has as OtherAdds and *)
(* OtherDeletes; an import or a clear during a synchronization is left out.*)
(***************************************************************************)
EXTENDS RequestPool, Synchronization, CatalogImport, Shipments, Offers

CONSTANTS
  lab1, lab2, som, labial, sombra,     \* skus and names of the synchronization
  a, b, labialx, labialy, x, y, category, \* skus, titles, brands of the import
  o1, o2, v1, v2                       \* orders and vendors of shipments

\* The longest kind of route; a refusal makes it as short as any.
MCRoutes == {<<"get_db", "get_current_user", "require_role", "handler", "validate">>}

MCMockProducts == <<lab1, lab2, som>>
MCMockName == [k \in {lab1, lab2, som} |-> IF k = som THEN sombra ELSE labial]

\* Two products of one name: a row of sku a is of either, so that one of them renames
\* the product of the other; b comes with its price.
MCNameOf == [t \in Titles |-> labial]
MCBrandOf == [t \in Titles |-> IF t = labialx THEN x ELSE y]
MCCategoryOf == [t \in Titles |-> category]

MCRow(kind, sku, t, price, margin) ==
  [kind |-> kind, sku |-> sku, title |-> t, price |-> price, margin |-> margin]

MCSheet ==
  {MCRow("template", a, labialx, TRUE, TRUE), MCRow("template", a, labialy, FALSE, TRUE),
   MCRow("add", a, labialx, FALSE, FALSE), MCRow("add", a, labialy, FALSE, FALSE),
   MCRow("add", b, labialy, TRUE, TRUE), MCRow("delete", a, labialx, FALSE, FALSE)}

\* Others interfere once with what an import has read since its last error, and then it
\* reads up to two rows more; one line is of sku a.
MCImportBound ==
  /\ sold' # sold => sold' = {a} /\ dangling = {} /\ ~clear.open
  /\ clear'.open # clear.open => import.open /\ import.alone
  /\ clear'.open /\ ~clear.open => dangling = {}
  /\ clear.open => import'.open
  /\ table' # table => import.open /\ (import'.open => import.alone)
  /\ Len(import'.rows) > 2 => import'.alone /\ ~clear'.open

MCVendorOf == [o \in ShipOrders |-> v1]
MCOrderLists == {<<o1>>, <<o1, o1>>, <<o1, o2>>}

MCInit == PoolInit /\ SyncInit /\ ImportInit /\ ShipInit /\ OffersInit

PoolAtRest == \A r \in Requests : at[r] = "away"
SyncAtRest == logs = <<>> /\ stored = {} /\ brands = 0
ImportAtRest ==
  table = EmptyCatalogue /\ sold = {} /\ dangling = {} /\ import = NoImport /\ ~clear.open
ShipAtRest == shipments = <<>> /\ delivered = {} /\ \A k \in Clerks : clerk[k] = AtDesk
OffersAtRest == time = 0 /\ retail # NoValue /\ offer = NoOffer /\ visit = NoVisit

MCNext ==
  \/ /\ PoolNext
     /\ SyncAtRest /\ ImportAtRest /\ ShipAtRest /\ OffersAtRest
     /\ UNCHANGED <<syncVars, importVars, shipVars, offerVars>>
  \/ /\ SyncNext
     /\ PoolAtRest /\ ImportAtRest /\ ShipAtRest /\ OffersAtRest
     /\ UNCHANGED <<poolVars, importVars, shipVars, offerVars>>
  \/ /\ ImportNext /\ MCImportBound
     /\ PoolAtRest /\ SyncAtRest /\ ShipAtRest /\ OffersAtRest
     /\ UNCHANGED <<poolVars, syncVars, shipVars, offerVars>>
  \/ /\ ShipNext
     /\ PoolAtRest /\ SyncAtRest /\ ImportAtRest /\ OffersAtRest
     /\ UNCHANGED <<poolVars, syncVars, importVars, offerVars>>
  \/ /\ OffersNext
     /\ PoolAtRest /\ SyncAtRest /\ ImportAtRest /\ ShipAtRest
     /\ UNCHANGED <<poolVars, syncVars, importVars, shipVars>>

MCVars == <<poolVars, syncVars, importVars, shipVars, offerVars>>

MCSpec == MCInit /\ [][MCNext]_MCVars /\ PoolFairness /\ SyncFairness

=============================================================================
