---------------------------- MODULE CatalogImport ----------------------------
(***************************************************************************)
(* POST /admin/catalog/import and DELETE /admin/catalog/clear              *)
(* (admin/catalog_import.py), beside orders that sell what is stored and   *)
(* other requests that add and delete variants.  Nobody locks the          *)
(* catalogue: they are kept apart by the rows they have written.           *)
(*                                                                         *)
(* The import reads a sheet row by row in one transaction.  The session    *)
(* flushes only where the code says so (autoflush is off), for a new       *)
(* category, brand or product: what other rows add, rename or delete       *)
(* reaches the database with the flush of some later row, or with the      *)
(* commit, and the queries of the rows between do not see it.  A row that  *)
(* fails, for its own sake or because the flush it causes fails, rolls     *)
(* everything back and the import goes on.  A row is one step.             *)
(*                                                                         *)
(* The template (variante Unico, agregar no) brings the price of a product *)
(* whose variants come in the rows that follow; "add" and "delete" are of  *)
(* a sku (agregar si and no).  The row of a product that is one variant    *)
(* (Unico, si) is an "add" that has a price of its own.                    *)
(***************************************************************************)
EXTENDS Naturals, Sequences, FiniteSets, Functions

CONSTANTS
  Skus,
  Titles,      \* what a row calls a product: its name, its brand and its category
  NameOf, BrandOf, CategoryOf,
  ProductIds,  \* bound: the ids of products
  Sheet,       \* bound: the rows a sheet can have
  MaxRows,     \* bound: the rows between two that fail
  OtherSkus,   \* bound: the skus that other requests add and delete
  NoTemplate

Rows == [kind : {"template", "add", "delete"}, sku : Skus, title : Titles,
         price : BOOLEAN, margin : BOOLEAN]

ASSUME ImportAssumption ==
  /\ Sheet \subseteq Rows
  /\ OtherSkus \subseteq Skus
  /\ MaxRows \in Nat
  /\ NoTemplate \notin [name : {NameOf[t] : t \in Titles}, price : BOOLEAN]

VARIABLES
  table,     \* the committed catalogue
  sold,      \* the skus of the stored variants that lines of orders refer to
  dangling,  \* the skus of lines that refer to a variant no longer there
  clear,     \* the variants that a clear under way has found
  import     \* the session of the import

importVars == <<table, sold, dangling, clear, import>>

\* products: id -> title; priced: those whose price is not the 0.00 of a product made
\* without one; variants: sku -> id of its product.
EmptyCatalogue ==
  [categories |-> {}, brands |-> {}, products |-> <<>>, priced |-> {}, variants |-> <<>>]

\* view is what the queries of the session find: the table with what the session has
\* flushed.  What it has not: added, renamed (with the title to come), priced, gone
\* and goneProducts; twice, that it has added a sku two times.  rows are those since
\* the last that failed, made the row that made a product, touched the skus others
\* have written in the meantime, and alone says that they have written nothing.
Fresh(s, catalogue) ==
  [s EXCEPT !.view = catalogue, !.added = <<>>, !.twice = FALSE, !.renamed = <<>>,
            !.priced = {}, !.gone = {}, !.goneProducts = {}]

NoImport ==
  [open |-> FALSE, rows |-> <<>>, template |-> NoTemplate, view |-> EmptyCatalogue,
   added |-> <<>>, twice |-> FALSE, renamed |-> <<>>, priced |-> {}, gone |-> {},
   goneProducts |-> {}, made |-> <<>>, touched |-> {}, alone |-> TRUE]

\* A session after a rollback, which reads the table anew.
Restarted(s) ==
  [Fresh(s, table) EXCEPT !.rows = <<>>, !.made = <<>>, !.touched = {}, !.alone = TRUE]

NoClear == [open |-> FALSE, skus |-> {}]

ImportInit ==
  /\ table = EmptyCatalogue
  /\ sold = {} /\ dangling = {}
  /\ clear = NoClear
  /\ import = NoImport

Put(f, k, x) == [y \in DOMAIN f \cup {k} |-> IF y = k THEN x ELSE f[y]]

VariantsOf(p, variants) == {k \in DOMAIN variants : variants[k] = p}

-----------------------------------------------------------------------------
(* The flush of a session: what it writes, and when it raises.              *)

Written(s) ==
  LET left == DOMAIN s.view.products \ s.goneProducts IN
  [s.view EXCEPT
     !.products = [p \in left |-> IF p \in DOMAIN s.renamed THEN s.renamed[p] ELSE @[p]],
     !.priced = (@ \cup s.priced) \cap left,
     !.variants = [k \in (DOMAIN @ \ s.gone) \cup DOMAIN s.added |->
                     IF k \in DOMAIN s.added THEN s.added[k] ELSE @[k]]]

\* Not: a sku twice, the sku of an order's line, an UPDATE of a row that has gone, a
\* reference to one, a product that keeps a variant.
CanFlush(s) ==
  /\ ~s.twice /\ DOMAIN s.added \cap DOMAIN s.view.variants = {}
  /\ s.gone \cap sold = {}
  /\ (DOMAIN s.renamed \cup s.priced) \ s.goneProducts \subseteq DOMAIN s.view.products
  /\ \A p \in DOMAIN s.renamed : /\ BrandOf[s.renamed[p]] \in s.view.brands
                                 /\ CategoryOf[s.renamed[p]] \in s.view.categories
  /\ \A k \in DOMAIN s.added : s.added[k] \in DOMAIN Written(s).products
  /\ \A p \in s.goneProducts : VariantsOf(p, Written(s).variants) = {}

Flushed(s) == Fresh(s, Written(s))

-----------------------------------------------------------------------------
(* The rows.  Each operator says whether the row raises, or what the session *)
(* is after it.                                                              *)

\* _ensure_categoria_marca: a new brand needs a margin.
Unknown(s, t) == CategoryOf[t] \notin s.view.categories \/ BrandOf[t] \notin s.view.brands

EnsureRaises(s, row) ==
  \/ BrandOf[row.title] \notin s.view.brands /\ ~row.margin
  \/ Unknown(s, row.title) /\ ~CanFlush(s)

Ensure(s, row) ==
  IF Unknown(s, row.title)
  THEN [Flushed(s) EXCEPT !.view.categories = @ \cup {CategoryOf[row.title]},
                          !.view.brands = @ \cup {BrandOf[row.title]}]
  ELSE s

\* An id that something refers to is not used again.
UsedIds(s) ==
  UNION {DOMAIN table.products, Range(table.variants), DOMAIN s.view.products,
         Range(s.view.variants), DOMAIN s.renamed, s.priced, s.goneProducts, Range(s.added)}

\* One id not used, or none where the bound is reached.
NewIds(s) ==
  LET free == ProductIds \ UsedIds(s) IN IF free = {} THEN {} ELSE {CHOOSE p \in free : TRUE}

\* The products that a query by name and brand finds, whatever their category.
Entitled(s, t) ==
  {p \in DOMAIN s.view.products : /\ NameOf[s.view.products[p]] = NameOf[t]
                                  /\ BrandOf[s.view.products[p]] = BrandOf[t]}

\* A price that a stored product gets.
Priced(s, p, price) ==
  IF price THEN [s EXCEPT !.priced = @ \cup ({p} \ s.view.priced)] ELSE s

\* A row for a sku that is stored gives its product the name and brand of the row.
UpdateVariant(s, row) ==
  LET p == s.view.variants[row.sku]
      renamed == IF s.view.products[p] = row.title
                 THEN Restrict(s.renamed, DOMAIN s.renamed \ {p})
                 ELSE Put(s.renamed, p, row.title)
  IN IF p \in DOMAIN s.view.products
     THEN Priced([s EXCEPT !.renamed = renamed], p, row.price) ELSE s

Adding(s, sku, p) ==
  [s EXCEPT !.twice = @ \/ sku \in DOMAIN s.added, !.added = Put(@, sku, p)]

\* The product is made with the price of the row, or with the placeholder 0.00.
MakeForVariant(s, row, p) ==
  Adding([Flushed(s) EXCEPT !.view.products = Put(@, p, row.title),
                            !.view.priced = IF row.price THEN @ \cup {p} ELSE @,
                            !.made = Put(@, p, Len(s.rows) + 1)], row.sku, p)

\* Decimal(None) raises: a product that is there gets no price without a margin.
AddRaises(s, row) ==
  LET e == Ensure(s, row)
      p == e.view.variants[row.sku]
      stored == row.sku \in DOMAIN e.view.variants
      entitled == Entitled(e, row.title) # {}
  IN \/ EnsureRaises(s, row)
     \/ /\ row.price /\ ~row.margin
        /\ IF stored THEN p \in DOMAIN e.view.products ELSE entitled
     \/ ~stored /\ ~entitled /\ ~CanFlush(e)

AddVariant(s, row) ==
  LET e == Ensure(s, row) IN
  IF row.sku \in DOMAIN e.view.variants THEN {UpdateVariant(e, row)}
  ELSE IF Entitled(e, row.title) = {}
  THEN {MakeForVariant(e, row, p) : p \in NewIds(e)}
  ELSE {Priced(Adding(e, row.sku, p), p, row.price) : p \in Entitled(e, row.title)}

\* The variants that are left are counted by a query, which still sees those that
\* earlier rows deleted since the last flush.
DeleteVariant(s, row) ==
  LET e == Ensure(s, row)
      p == e.view.variants[row.sku]
      last == VariantsOf(p, e.view.variants) = {row.sku} /\ p \in DOMAIN e.view.products
  IN IF row.sku \notin DOMAIN e.view.variants THEN e
     ELSE [e EXCEPT !.gone = @ \cup {row.sku},
                    !.goneProducts = IF last THEN @ \cup {p} ELSE @]

\* The template that waits goes to a product with the name of the row, any of them, and
\* is spent even if it has no price.
WithTemplate(s, row) ==
  LET named == {p \in DOMAIN s.view.products : NameOf[s.view.products[p]] = NameOf[row.title]} IN
  IF s.template # NoTemplate /\ s.template.name = NameOf[row.title] /\ named # {}
  THEN {[Priced(s, p, s.template.price) EXCEPT !.template = NoTemplate] : p \in named}
  ELSE {s}

TakeTemplate(s, row) ==
  [Ensure(s, row) EXCEPT !.template = [name |-> NameOf[row.title], price |-> row.price]]

\* Faulty: looks for the product of the template before the row has made it.
AfterRow_TemplateFirst(s, row) ==
  CASE row.kind = "template" -> {TakeTemplate(s, row)}
    [] row.kind = "add" ->
         UNION {AddVariant([u EXCEPT !.template = NoTemplate], row) : u \in WithTemplate(s, row)}
    [] OTHER -> WithTemplate(DeleteVariant(s, row), row)

AfterRow(s, row) ==
  CASE row.kind = "template" -> {TakeTemplate(s, row)}
    [] row.kind = "add" -> UNION {WithTemplate(u, row) : u \in AddVariant(s, row)}
    [] OTHER -> WithTemplate(DeleteVariant(s, row), row)

RowRaises(s, row) == IF row.kind = "add" THEN AddRaises(s, row) ELSE EnsureRaises(s, row)

-----------------------------------------------------------------------------
(* The import.                                                              *)

StartImport ==
  /\ ~import.open
  /\ import' = [Restarted(NoImport) EXCEPT !.open = TRUE]
  /\ UNCHANGED <<table, sold, dangling, clear>>

ProcessRow(row) ==
  /\ import.open /\ ~RowRaises(import, row)
  /\ Len(import.rows) < MaxRows
  /\ \E s \in AfterRow(import, row) : import' = [s EXCEPT !.rows = Append(@, row)]
  /\ UNCHANGED <<table, sold, dangling, clear>>

\* Faulty: a row that fails keeps what the rows before it did.
SkipRow_KeepingRest ==
  /\ import.open
  /\ import' = [import EXCEPT !.rows = <<>>]
  /\ UNCHANGED <<table, sold, dangling, clear>>

\* A row raises, as RowRaises says or because its numbers cannot be read or another
\* session is in its way: the template that waits survives the rollback.
SkipRow ==
  /\ import.open
  /\ import' = Restarted(import)
  /\ UNCHANGED <<table, sold, dangling, clear>>

\* The variants that a clear under way has found and that are still there.
Found(catalogue) == [clear EXCEPT !.skus = @ \cap DOMAIN catalogue.variants]

\* The commit at the end of the sheet.
CommitImport ==
  /\ import.open
  /\ CanFlush(import)
  /\ table' = Written(import)
  /\ import' = NoImport
  /\ clear' = Found(table')
  /\ UNCHANGED <<sold, dangling>>

\* The last flush raises, a template's number cannot be read, or the worker is lost:
\* nothing is stored.
AbortImport ==
  /\ import.open
  /\ import' = NoImport
  /\ UNCHANGED <<table, sold, dangling, clear>>

-----------------------------------------------------------------------------
(* The others.  What they commit the queries of the import find at once.    *)

SessionAfter(view, skus) ==
  IF import.open
  THEN [import EXCEPT !.view = view, !.touched = @ \cup skus, !.alone = FALSE]
  ELSE import

\* DELETE FROM product_variants finds the variants that are committed.
BeginClear ==
  /\ ~clear.open
  /\ clear' = [open |-> TRUE, skus |-> DOMAIN table.variants]
  /\ UNCHANGED <<table, sold, dangling, import>>

\* The stored rows that the import has written, or that rows it has written refer to:
\* others wait before they delete one.
HeldSkus(s) == DOMAIN table.variants \ DOMAIN s.view.variants

HeldProducts(s) ==
  {p \in DOMAIN table.products :
     \/ p \notin DOMAIN s.view.products
     \/ s.view.products[p] # table.products[p] \/ p \in s.view.priced \ table.priced
     \/ ~(VariantsOf(p, s.view.variants) \subseteq DOMAIN table.variants)}

HoldsLabel(s) ==
  \E p \in DOMAIN s.view.products \ DOMAIN table.products :
    BrandOf[s.view.products[p]] \in table.brands
      \/ CategoryOf[s.view.products[p]] \in table.categories

\* What is left of a catalogue: the variants stored after the first DELETE, and what
\* only the import's session has.
Cleared(catalogue) ==
  LET new == DOMAIN catalogue.products \ DOMAIN table.products IN
  [categories |-> catalogue.categories \ table.categories,
   brands |-> catalogue.brands \ table.brands,
   products |-> Restrict(catalogue.products, new),
   priced |-> catalogue.priced \cap new,
   variants |-> Restrict(catalogue.variants, DOMAIN catalogue.variants \ clear.skus)]

\* The other DELETEs and the commit.  Foreign keys are off: the lines of orders stay
\* and refer to nothing, and so does a variant that was stored in between.
CommitClear ==
  /\ clear.open
  /\ import.open => HeldSkus(import) \cup HeldProducts(import) = {} /\ ~HoldsLabel(import)
  /\ table' = Cleared(table)
  /\ sold' = sold \ clear.skus
  /\ dangling' = dangling \cup (sold \cap clear.skus)
  /\ import' = SessionAfter(Cleared(import.view), clear.skus)
  /\ clear' = NoClear

AbortClear ==
  /\ clear.open
  /\ clear' = NoClear
  /\ UNCHANGED <<table, sold, dangling, import>>

Stored(catalogue, sku, p, t) ==
  LET new == {p} \ DOMAIN catalogue.products IN
  [catalogue EXCEPT !.categories = @ \cup {CategoryOf[t]}, !.brands = @ \cup {BrandOf[t]},
                    !.products = IF new = {} THEN @ ELSE Put(@, p, t),
                    !.priced = @ \cup new, !.variants = Put(@, sku, p)]

\* A synchronization, or another import, stores a sku, in a product of its own or in a
\* stored one; a sku that the import has flushed makes it wait.
OtherAdds(sku, p, t) ==
  /\ sku \notin DOMAIN table.variants
  /\ import.open => sku \notin DOMAIN import.view.variants
  /\ IF p \in DOMAIN table.products
     THEN t = table.products[p] /\ (import.open => p \in DOMAIN import.view.products)
     ELSE p \in NewIds(import)
  /\ table' = Stored(table, sku, p, t)
  /\ import' = SessionAfter(Stored(import.view, sku, p, t), {sku})
  /\ UNCHANGED <<sold, dangling, clear>>

Without(catalogue, sku, ids) ==
  [catalogue EXCEPT !.variants = Restrict(@, DOMAIN @ \ {sku}),
                    !.products = Restrict(@, DOMAIN @ \ ids), !.priced = @ \ ids]

\* Another import deletes a sku, and with the last one its product, unless an order's
\* line or a row of the import's session keeps it from that.
OtherDeletes(sku) ==
  LET p == table.variants[sku]
      ids == IF VariantsOf(p, table.variants) = {sku} THEN {p} ELSE {}
  IN
  /\ sku \in DOMAIN table.variants \ sold
  /\ import.open => sku \notin HeldSkus(import) /\ ids \cap HeldProducts(import) = {}
  /\ table' = Without(table, sku, ids)
  /\ import' = SessionAfter(Without(import.view, sku, ids), {sku})
  /\ clear' = Found(table')
  /\ UNCHANGED <<sold, dangling>>

\* An order takes a variant of a product; one whose deletion is flushed makes it wait.
Sell(sku) ==
  /\ sku \in DOMAIN table.variants
  /\ table.variants[sku] \in DOMAIN table.products
  /\ import.open => sku \in DOMAIN import.view.variants
  /\ sold' = sold \cup {sku}
  /\ UNCHANGED <<table, dangling, clear, import>>

ImportNext ==
  \/ StartImport
  \/ \E row \in Sheet : ProcessRow(row)
  \/ SkipRow
  \/ CommitImport
  \/ AbortImport
  \/ BeginClear
  \/ CommitClear
  \/ AbortClear
  \/ \E sku \in OtherSkus, p \in ProductIds, t \in Titles : OtherAdds(sku, p, t)
  \/ \E sku \in OtherSkus : OtherDeletes(sku)
  \/ \E sku \in Skus : Sell(sku)

ImportSpec == ImportInit /\ [][ImportNext]_importVars

-----------------------------------------------------------------------------
(* Properties.                                                              *)

\* The rows of a sku since the last row that failed.
RowsOf(sku) ==
  {i \in DOMAIN import.rows : import.rows[i].kind \in {"add", "delete"}
                                /\ import.rows[i].sku = sku}

\* A completed import has stored the rows since the last failed one and none before,
\* whatever it has counted: a sku without such a row is as it was, in the product it was
\* in, and a sku with rows is as one of them says, unless another request wrote it in
\* the meantime.  And no line of an order loses its variant.
StoresRowsSinceLastError ==
  [][CommitImport =>
       /\ \A sku \in Skus :
            IF RowsOf(sku) = {}
            THEN /\ sku \in DOMAIN table'.variants <=> sku \in DOMAIN table.variants
                 /\ sku \in DOMAIN table.variants
                      => table'.variants[sku] = table.variants[sku]
            ELSE \/ sku \in import.touched
                 \/ \E i \in RowsOf(sku) :
                      sku \in DOMAIN table'.variants <=> import.rows[i].kind = "add"
       /\ sold \subseteq DOMAIN table'.variants]_importVars

\* The product was made by row i, right after a template with its name and a price.
Announced(p, i) ==
  /\ i \in DOMAIN import.rows /\ i - 1 \in DOMAIN import.rows
  /\ p \in DOMAIN import.made /\ import.made[p] = i
  /\ LET row == import.rows[i - 1] IN
       /\ row.kind = "template" /\ row.price
       /\ NameOf[row.title] = NameOf[import.rows[i].title]

\* A new product keeps the price 0.00 it was made with only if its template did not come
\* right before the row that made it, or brought no price, or a row failed after that, or
\* another product had its name, as stored or from an earlier row, and may have taken
\* the template: nothing else loses the price, where no other request interferes.
PlaceholderExplained ==
  [][CommitImport /\ import.alone =>
       \A p \in DOMAIN table'.products \ (DOMAIN table.products \cup table'.priced),
          i \in DOMAIN import.rows :
         Announced(p, i) =>
           LET name == NameOf[import.rows[i].title] IN
           \/ \E q \in DOMAIN table.products : NameOf[table.products[q]] = name
           \/ \E k \in 1..(i - 1) : /\ import.rows[k].kind = "add"
                                    /\ NameOf[import.rows[k].title] = name
    ]_importVars

=============================================================================
