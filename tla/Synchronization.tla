--------------------------- MODULE Synchronization ---------------------------
(***************************************************************************)
(* POST /catalog/sync (sync_catalog_mock in catalog/service.py).  The log  *)
(* of a run is committed as running; the run looks up each product of its  *)
(* list and adds the missing ones, all in one transaction; after its commit*)
(* a second one closes the log.  Runs of several requests overlap, and the *)
(* worker of one may be lost at any step.                                  *)
(*                                                                         *)
(* What keeps two runs apart are three UNIQUE columns: the slug of a       *)
(* category, the slug of a product and the sku of a variant.  A row is     *)
(* named by that key.  brands.name and products.name are not unique.  An   *)
(* insert of a key that another open transaction has inserted waits for it *)
(* to end, and fails if it committed.  Nothing else writes the catalogue   *)
(* while a run is under way (CatalogImport does, between runs).            *)
(***************************************************************************)
EXTENDS Naturals, Sequences, FiniteSets

CONSTANTS
  MaxJobs,        \* bound: the rows of catalog_sync_logs
  Workers,        \* bound: the runs served at the same time
  MockProducts,   \* the list of skus, in its order
  Names,          \* the names of its products, each with a slug of its own
  MockName,       \* the name of the product of a sku
  Category        \* the slug "cosmeticos"

Jobs == 1..MaxJobs

Items == {MockProducts[i] : i \in DOMAIN MockProducts}

Keys == {Category} \cup Names \cup Items

ASSUME SyncAssumption ==
  /\ MockProducts \in Seq(Items)
  /\ \A i, k \in DOMAIN MockProducts : MockProducts[i] = MockProducts[k] => i = k
  /\ MockName \in [Items -> Names]
  /\ Names \cap Items = {} /\ Category \notin Names \cup Items
  /\ MaxJobs \in Nat
  /\ IsFiniteSet(Workers) /\ Workers # {}

VARIABLES
  logs,     \* table catalog_sync_logs
  stored,   \* the unique keys in the catalogue
  brands,   \* the number of brands named "Bissu"
  twins,    \* the number of products stored under a name that was taken
  run       \* what each worker holds in memory

syncVars == <<logs, stored, brands, twins, run>>

-----------------------------------------------------------------------------
(* What a worker holds: its log, its place in the list, the keys it has      *)
(* inserted, those it will insert with the next flush, the variants it       *)
(* counted in products_updated.                                              *)

Stages == {"none", "category", "brand", "variant", "product", "slug", "report",
           "failing"}

Idle == [stage |-> "none", job |-> 0, place |-> 1, flushed |-> {}, pending |-> {},
         brand |-> 0, twins |-> 0, updated |-> {}, applied |-> FALSE]

SyncInit ==
  /\ logs = <<>>
  /\ stored \in SUBSET Keys
  /\ \A k \in stored \cap Items : MockName[k] \in stored
  /\ stored \cap Names # {} => Category \in stored
  /\ brands \in 0..1
  /\ stored \cap Names # {} => brands = 1
  /\ twins = 0
  /\ run = [w \in Workers |-> Idle]

Become(w, r) == run' = [run EXCEPT ![w] = r]

Catalogue == <<stored, brands, twins>>

\* The keys that other open transactions have inserted.
HeldByOthers(w) == UNION {run[x].flushed : x \in Workers \ {w}}

\* Faulty: takes a violated constraint for a row already there.
Flush_Ignoring(w, keys, r) ==
  LET new == keys \cup run[w].pending IN
  /\ new \cap HeldByOthers(w) = {}
  /\ Become(w, [r EXCEPT !.flushed = @ \cup (new \ stored), !.pending = {}])

\* db.flush() of the pending rows and of some more: waits for other transactions
\* that hold one of the keys, and raises if one of them is stored.
Flush(w, keys, r) ==
  LET new == keys \cup run[w].pending IN
  /\ new \cap HeldByOthers(w) = {}
  /\ IF new \cap stored = {}
     THEN Become(w, [r EXCEPT !.flushed = @ \cup new, !.pending = r.pending \ run[w].pending])
     ELSE Become(w, [Idle EXCEPT !.stage = "failing", !.job = run[w].job])

-----------------------------------------------------------------------------

StartSync(w) ==
  /\ run[w].stage = "none"
  /\ Len(logs) < MaxJobs
  /\ logs' = Append(logs, [status |-> "running", updated |-> 0])
  /\ Become(w, [Idle EXCEPT !.stage = "category", !.job = Len(logs) + 1])
  /\ UNCHANGED Catalogue

FindCategory(w) ==
  LET r == [run[w] EXCEPT !.stage = "brand"] IN
  /\ run[w].stage = "category"
  /\ IF Category \in stored THEN Become(w, r) ELSE Flush(w, {Category}, r)
  /\ UNCHANGED <<logs, stored, brands, twins>>

FindBrand(w) ==
  /\ run[w].stage = "brand"
  /\ Become(w, [run[w] EXCEPT !.stage = "variant", !.brand = IF brands = 0 THEN 1 ELSE 0])
  /\ UNCHANGED <<logs, stored, brands, twins>>

Sku(w) == MockProducts[run[w].place]

\* The lookup of a variant by its sku, for the next product of the list.
FindVariant(w) ==
  /\ run[w].stage = "variant"
  /\ run[w].place \in DOMAIN MockProducts
  /\ Become(w, IF Sku(w) \in stored THEN [run[w] EXCEPT !.place = @ + 1]
               ELSE [run[w] EXCEPT !.stage = "product"])
  /\ UNCHANGED <<logs, stored, brands, twins>>

\* db.add(variant): it will be inserted by the next flush.
WithVariant(w, r) ==
  [r EXCEPT !.stage = "variant", !.place = @ + 1, !.pending = @ \cup {Sku(w)},
            !.updated = @ \cup {Sku(w)}]

\* The lookup of its product by name.
FindProduct(w) ==
  /\ run[w].stage = "product"
  /\ Become(w, IF MockName[Sku(w)] \in stored \cup run[w].flushed
               THEN WithVariant(w, run[w])
               ELSE [run[w] EXCEPT !.stage = "slug"])
  /\ UNCHANGED <<logs, stored, brands, twins>>

\* The lookup of a free slug, and the flush of the product: one stored under this
\* name since the lookup leaves a slug with a number.
MakeProduct(w) ==
  LET name == MockName[Sku(w)]
      r == WithVariant(w, run[w])
  IN /\ run[w].stage = "slug"
     /\ IF name \in stored THEN Flush(w, {}, [r EXCEPT !.twins = @ + 1])
        ELSE Flush(w, {name}, r)
     /\ UNCHANGED <<logs, stored, brands, twins>>

\* db.commit() of the work flushes what is pending.
CommitWork(w) ==
  LET r == run[w] IN
  /\ r.stage = "variant"
  /\ r.place \notin DOMAIN MockProducts
  /\ r.pending \cap HeldByOthers(w) = {}
  /\ IF r.pending \cap stored = {}
     THEN /\ stored' = stored \cup r.flushed \cup r.pending
          /\ brands' = brands + r.brand
          /\ twins' = twins + r.twins
          /\ Become(w, [Idle EXCEPT !.stage = "report", !.job = r.job,
                                    !.updated = r.updated, !.applied = TRUE])
     ELSE /\ Become(w, [Idle EXCEPT !.stage = "failing", !.job = r.job])
          /\ UNCHANGED Catalogue
  /\ UNCHANGED logs

\* Faulty: reports what it has scanned.
CommitLog_Scanned(w) ==
  /\ run[w].stage = "report"
  /\ logs' = [logs EXCEPT ![run[w].job] =
               [status |-> "completed", updated |-> Len(MockProducts)]]
  /\ Become(w, Idle)
  /\ UNCHANGED Catalogue

\* The log's second commit.
CommitLog(w) ==
  /\ run[w].stage = "report"
  /\ logs' = [logs EXCEPT ![run[w].job] =
               [status |-> "completed", updated |-> Cardinality(run[w].updated)]]
  /\ Become(w, Idle)
  /\ UNCHANGED Catalogue

\* Any exception of the database inside the try: db.rollback(), and the error goes
\* to the log.
Break(w) ==
  /\ run[w].stage \notin {"none", "failing"}
  /\ Become(w, [Idle EXCEPT !.stage = "failing", !.job = run[w].job,
                            !.applied = run[w].applied, !.updated = run[w].updated])
  /\ UNCHANGED <<logs, stored, brands, twins>>

CommitFailure(w) ==
  /\ run[w].stage = "failing"
  /\ logs' = [logs EXCEPT ![run[w].job].status = "failed"]
  /\ Become(w, Idle)
  /\ UNCHANGED Catalogue

\* The worker is killed, or the commit of the failure fails too.
LoseWorker(w) ==
  /\ run[w].stage # "none"
  /\ Become(w, Idle)
  /\ UNCHANGED <<logs, stored, brands, twins>>

\* What a worker does by itself once it was asked to synchronize.
Work(w) ==
  \/ FindCategory(w) \/ FindBrand(w)
  \/ FindVariant(w) \/ FindProduct(w) \/ MakeProduct(w)
  \/ CommitWork(w) \/ CommitLog(w) \/ CommitFailure(w)

SyncNext ==
  \E w \in Workers :
    \/ StartSync(w)
    \/ Work(w)
    \/ Break(w)
    \/ LoseWorker(w)

SyncFairness == \A w \in Workers : WF_syncVars(Work(w))

SyncSpec == SyncInit /\ [][SyncNext]_syncVars /\ SyncFairness

-----------------------------------------------------------------------------
(* Properties.                                                              *)

\* No product is stored twice, although products.name is not unique: of two runs that
\* both missed one, the second also inserts a sku that the first has stored, and is
\* rolled back.  The brand has no such company.  A run that found none keeps the one
\* it adds when all the skus came in meanwhile, so that there can be one for each run
\* that overlapped the first, and no more.
NoTwins == twins = 0 /\ brands <= Cardinality(Workers)

\* The worker of a job, if it has one.
WorkersOf(j) == {w \in Workers : run[w].job = j}

Phase(j) ==
  IF j \notin DOMAIN logs THEN "none"
  ELSE IF logs[j].status # "running" THEN logs[j].status
  ELSE IF WorkersOf(j) = {} THEN "abandoned"
  ELSE IF \E w \in WorkersOf(j) : run[w].applied THEN "applied"
  ELSE "running"

Created(j) ==
  IF Phase(j) = "completed" THEN logs[j].updated
  ELSE IF Phase(j) = "applied"
  THEN Cardinality(UNION {run[w].updated : w \in WorkersOf(j)})
  ELSE 0

\* Each run keeps the promise of SyncJobs, whatever runs overlap: all that is
\* missing is stored at once and counted exactly, and a run whose worker is not
\* lost ends completed or failed.
AbstractJobs ==
  INSTANCE SyncJobs WITH
    phase <- [j \in Jobs |-> Phase(j)],
    catalogue <- stored \cap Items,
    created <- [j \in Jobs |-> Created(j)]

ImplementsJobs == AbstractJobs!Spec

=============================================================================
