------------------------ MODULE SynchronizationProofs ------------------------
(***************************************************************************)
(* Overlapping synchronizations keep the promise of SyncJobs and store     *)
(* nothing twice, proved for any number of runs and any list of products.  *)
(***************************************************************************)
EXTENDS Synchronization, FiniteSetTheorems, TLAPS

-----------------------------------------------------------------------------
(* The inductive invariant.  A run has dealt with the products before its   *)
(* place: their skus are stored, inserted or waiting for its next flush.    *)
(* The keys it has inserted are its own.  And once one run has committed,   *)
(* every sku is stored, so that a run that added a product with a name that *)
(* was taken can no longer commit: its sku is taken too.                    *)

WorkerRows ==
  [stage : Stages, job : 0..MaxJobs, place : 1..(Len(MockProducts) + 1),
   flushed : SUBSET Keys, pending : SUBSET Items, brand : 0..1, twins : Nat,
   updated : SUBSET Items, applied : BOOLEAN]

Done(r) == {MockProducts[i] : i \in 1..(r.place - 1)}

AtWork(r) == r.stage \in {"category", "brand", "variant", "product", "slug"}

\* A worker that is not at work holds nothing but its job and what it will report.
Resting(r) ==
  ~AtWork(r) => /\ r.place = 1 /\ r.flushed = {} /\ r.pending = {}
                /\ r.brand = 0 /\ r.twins = 0

HasJob(r, L) ==
  IF r.stage = "none" THEN r.job = 0
  ELSE r.job \in DOMAIN L /\ L[r.job].status = "running"

Reporting(r) ==
  /\ r.applied => r.stage \in {"report", "failing"}
  /\ r.stage = "report" => r.applied

Progressing(r, S) ==
  /\ r.pending \subseteq Done(r)
  /\ Done(r) \subseteq S \cup r.flushed \cup r.pending
  /\ r.flushed \cap S = {}
  /\ AtWork(r) => r.updated = (r.flushed \cup r.pending) \cap Items
  /\ r.stage \in {"product", "slug"} => r.place \in DOMAIN MockProducts

\* A product under a name that is taken is made only after another run has stored
\* everything, this product's sku too.
Doomed(r, S) ==
  /\ r.stage = "slug" => MockName[MockProducts[r.place]] \notin S \/ Items \subseteq S
  /\ r.twins > 0 => Items \subseteq S /\ r.pending # {}

WorkerOK(r, L, S) ==
  /\ r \in WorkerRows
  /\ Resting(r) /\ HasJob(r, L) /\ Reporting(r)
  /\ Progressing(r, S) /\ Doomed(r, S)

LogRows == [status : {"running", "completed", "failed"}, updated : Nat]

Tables ==
  /\ logs \in Seq(LogRows) /\ Len(logs) <= MaxJobs
  /\ stored \subseteq Keys
  /\ brands \in Nat

Apart(R) ==
  \A w, x \in Workers : w # x =>
    /\ R[w].flushed \cap R[x].flushed = {}
    /\ R[w].job = R[x].job => R[w].job = 0

Adding(R) == {w \in Workers : R[w].brand = 1}

BrandsFit(b, R) == b + Cardinality(Adding(R)) <= Cardinality(Workers)

IInv ==
  /\ Tables
  /\ run = [w \in Workers |-> run[w]]
  /\ \A w \in Workers : WorkerOK(run[w], logs, stored)
  /\ Apart(run)
  /\ BrandsFit(brands, run)
  /\ twins = 0

-----------------------------------------------------------------------------
(* Facts about the list.                                                     *)

LEMMA ListFacts ==
  /\ Len(MockProducts) \in Nat /\ DOMAIN MockProducts = 1..Len(MockProducts)
  /\ \A i \in DOMAIN MockProducts : MockProducts[i] \in Items
  /\ Items = {MockProducts[i] : i \in 1..Len(MockProducts)}
  BY SyncAssumption DEF Items

LEMMA KeyFacts ==
  /\ Items \subseteq Keys /\ Names \subseteq Keys /\ Category \in Keys
  /\ Category \notin Items /\ Names \cap Items = {}
  /\ \A k \in Items : MockName[k] \in Names
  BY SyncAssumption DEF Keys

LEMMA DoneGrows ==
  ASSUME NEW r \in WorkerRows, NEW q \in WorkerRows, r.place \in DOMAIN MockProducts,
         q.place = r.place + 1
  PROVE  Done(q) = Done(r) \cup {MockProducts[r.place]}
  BY ListFacts DEF Done, WorkerRows

LEMMA NotDoneYet ==
  ASSUME NEW r \in WorkerRows, r.place \in DOMAIN MockProducts
  PROVE  MockProducts[r.place] \notin Done(r)
<1>1. SUFFICES ASSUME NEW i \in 1..(r.place - 1), MockProducts[i] = MockProducts[r.place]
               PROVE  FALSE
  BY DEF Done
<1>2. i \in DOMAIN MockProducts /\ i # r.place
  BY ListFacts DEF WorkerRows
<1> QED
  BY <1>1, <1>2, SyncAssumption

LEMMA AllDone ==
  ASSUME NEW r \in WorkerRows, r.place \notin DOMAIN MockProducts
  PROVE  Done(r) = Items
<1>1. r.place - 1 = Len(MockProducts)
  BY ListFacts DEF WorkerRows
<1>2. Done(r) = {MockProducts[i] : i \in 1..Len(MockProducts)}
  BY <1>1, Zenon DEF Done
<1> QED
  BY <1>2, ListFacts

LEMMA NothingDone ==
  ASSUME NEW r, r.place = 1
  PROVE  Done(r) = {}
  BY DEF Done

\* A worker with no task, with or without a job, is as it should be.
LEMMA RestOK ==
  ASSUME NEW L, NEW S, NEW r \in WorkerRows, ~AtWork(r), r.place = 1,
         r.flushed = {}, r.pending = {}, r.brand = 0, r.twins = 0,
         HasJob(r, L), Reporting(r)
  PROVE  WorkerOK(r, L, S)
<1>1. Done(r) = {}
  BY NothingDone
<1>2. r.stage \notin {"product", "slug"}
  BY DEF AtWork
<1>3. Progressing(r, S)
  BY <1>1, <1>2 DEF Progressing
<1>4. Doomed(r, S)
  BY <1>2 DEF Doomed
<1> QED
  BY <1>3, <1>4 DEF WorkerOK, Resting

\* What the others store or log keeps a worker as it should be.
LEMMA OthersMove ==
  ASSUME NEW r, NEW L, NEW M, NEW S, NEW T, WorkerOK(r, L, S),
         r.job \in DOMAIN L => r.job \in DOMAIN M /\ M[r.job] = L[r.job],
         T = S \/ (S \subseteq T /\ Items \subseteq T /\ r.flushed \cap T = {})
  PROVE  WorkerOK(r, M, T)
<1>1. HasJob(r, M)
  BY DEF WorkerOK, HasJob
<1>2. Progressing(r, T)
  BY DEF WorkerOK, Progressing
<1>3. Doomed(r, T)
  BY DEF WorkerOK, Doomed
<1> QED
  BY <1>1, <1>2, <1>3 DEF WorkerOK

-----------------------------------------------------------------------------
(* The invariant is kept.                                                    *)

LEMMA BrandsStay ==
  ASSUME NEW b \in Nat, NEW R, NEW Q, BrandsFit(b, R), Adding(Q) \subseteq Adding(R)
  PROVE  BrandsFit(b, Q)
<1>1. IsFiniteSet(Adding(R)) /\ IsFiniteSet(Adding(Q))
  BY SyncAssumption, FS_Subset DEF Adding
<1>2. /\ Cardinality(Adding(R)) \in Nat /\ Cardinality(Adding(Q)) \in Nat
      /\ Cardinality(Workers) \in Nat
  BY <1>1, SyncAssumption, FS_CardinalityType
<1>3. Cardinality(Adding(Q)) <= Cardinality(Adding(R))
  BY <1>1, FS_Subset
<1> QED
  BY <1>2, <1>3 DEF BrandsFit

\* A step of one worker that stores nothing and logs nothing.
LEMMA OneMoves ==
  ASSUME IInv, NEW w \in Workers, NEW q, Become(w, q),
         UNCHANGED <<logs, stored, brands, twins>>,
         WorkerOK(q, logs, stored), q.job \in {0, run[w].job},
         \A x \in Workers \ {w} : q.flushed \cap run[x].flushed = {},
         q.brand = 1 => run[w].brand = 1
  PROVE  IInv'
<1>1. run' = [x \in Workers |-> IF x = w THEN q ELSE run[x]]
  BY DEF Become, IInv
<1>2. \A x \in Workers : run'[x] = IF x = w THEN q ELSE run[x]
  BY <1>1
<1>3. run' = [x \in Workers |-> run'[x]]
  BY <1>1
<1>4. \A x \in Workers : WorkerOK(run'[x], logs', stored')
  BY <1>2 DEF IInv
<1>5. Apart(run')
  BY <1>2 DEF IInv, Apart
<1>6. Adding(run') \subseteq Adding(run)
  BY <1>2 DEF Adding
<1>7. BrandsFit(brands', run')
  BY <1>6, BrandsStay DEF IInv, Tables
<1> QED
  BY <1>3, <1>4, <1>5, <1>7 DEF IInv, Tables

LEMMA IdleRow == Idle \in WorkerRows
<1>1. 1 \in 1..(Len(MockProducts) + 1) /\ 0 \in 0..MaxJobs
  BY ListFacts, SyncAssumption
<1> QED
  BY <1>1 DEF Idle, WorkerRows, Stages

\* The row of a worker whose flush or commit has failed.
Failing(r) == [Idle EXCEPT !.stage = "failing", !.job = r.job]

LEMMA FailingOK ==
  ASSUME NEW r, NEW L, NEW S, WorkerOK(r, L, S), AtWork(r)
  PROVE  /\ WorkerOK(Failing(r), L, S)
         /\ Failing(r).job = r.job /\ Failing(r).flushed = {} /\ Failing(r).brand = 0
<1>1. /\ Failing(r).stage = "failing" /\ Failing(r).job = r.job /\ Failing(r).place = 1
      /\ Failing(r).flushed = {} /\ Failing(r).pending = {} /\ Failing(r).brand = 0
      /\ Failing(r).twins = 0 /\ ~Failing(r).applied
  BY DEF Failing, Idle
<1>2. r.job \in 0..MaxJobs /\ r.stage # "none"
  BY DEF WorkerOK, WorkerRows, AtWork
<1>3. Failing(r) \in WorkerRows
  BY <1>2, IdleRow DEF WorkerRows, Stages, Failing
<1>4. HasJob(Failing(r), L)
  BY <1>1, <1>2 DEF WorkerOK, HasJob
<1>5. Reporting(Failing(r)) /\ ~AtWork(Failing(r))
  BY <1>1 DEF Reporting, AtWork
<1> QED
  BY <1>1, <1>3, <1>4, <1>5, RestOK

LEMMA FailKeeps ==
  ASSUME IInv, NEW w \in Workers, AtWork(run[w]), Become(w, Failing(run[w])),
         UNCHANGED <<logs, stored, brands, twins>>
  PROVE  IInv'
<1>1. WorkerOK(run[w], logs, stored)
  BY DEF IInv
<1> QED
  BY <1>1, FailingOK, OneMoves

\* A flush either fails, or inserts keys that nobody has and leaves the row that the
\* code wants next.
Flushed(w, keys, r) ==
  [r EXCEPT !.flushed = @ \cup keys \cup run[w].pending, !.pending = @ \ run[w].pending]

LEMMA FlushKeeps ==
  ASSUME IInv, NEW w \in Workers, AtWork(run[w]), NEW keys, NEW r \in WorkerRows,
         Flush(w, keys, r), UNCHANGED <<logs, stored, brands, twins>>,
         r.job = run[w].job, r.flushed = run[w].flushed, r.brand = run[w].brand,
         (keys \cup run[w].pending) \cap stored = {} =>
            WorkerOK(Flushed(w, keys, r), logs, stored)
  PROVE  IInv'
<1> DEFINE new == keys \cup run[w].pending
<1>1. new \cap HeldByOthers(w) = {}
  BY DEF Flush
<1>2. CASE new \cap stored # {}
  <2>1. Become(w, Failing(run[w]))
    BY <1>2 DEF Flush, Failing
  <2> QED
    BY <2>1, FailKeeps
<1>3. CASE new \cap stored = {}
  <2> DEFINE q == Flushed(w, keys, r)
  <2>1. Become(w, q)
    BY <1>3 DEF Flush, Flushed
  <2>2. q.job = run[w].job /\ q.brand = run[w].brand /\ q.flushed = run[w].flushed \cup new
    BY DEF Flushed, WorkerRows
  <2>3. \A x \in Workers \ {w} : q.flushed \cap run[x].flushed = {}
    BY <1>1, <2>2 DEF HeldByOthers, IInv, Apart
  <2>4. WorkerOK(q, logs, stored)
    BY <1>3
  <2> QED
    BY <2>1, <2>2, <2>3, <2>4, OneMoves
<1> QED
  BY <1>2, <1>3

LEMMA FindCategoryKeeps ==
  ASSUME IInv, NEW w \in Workers, FindCategory(w)
  PROVE  IInv'
<1> DEFINE r == [run[w] EXCEPT !.stage = "brand"]
<1>1. WorkerOK(run[w], logs, stored) /\ run[w] \in WorkerRows /\ AtWork(run[w])
  BY DEF IInv, FindCategory, WorkerOK, AtWork
<1>2. r \in WorkerRows
  BY <1>1 DEF WorkerRows, Stages
<1>3. /\ r.stage = "brand" /\ r.job = run[w].job /\ r.place = run[w].place
      /\ r.flushed = run[w].flushed /\ r.pending = run[w].pending /\ r.brand = run[w].brand
      /\ r.twins = run[w].twins /\ r.updated = run[w].updated /\ (r.applied <=> run[w].applied)
  BY <1>1 DEF WorkerRows
<1>4. CASE Category \in stored
  <2>1. Become(w, r) /\ UNCHANGED <<logs, stored, brands, twins>>
    BY <1>4 DEF FindCategory
  <2>2. WorkerOK(r, logs, stored)
    BY <1>1, <1>2, <1>3 DEF WorkerOK, Resting, HasJob, Reporting, Progressing, Doomed, AtWork, Done
  <2>3. \A x \in Workers \ {w} : r.flushed \cap run[x].flushed = {}
    BY <1>3 DEF IInv, Apart
  <2> HIDE DEF r
  <2> QED
    BY <1>3, <2>1, <2>2, <2>3, OneMoves
<1>5. CASE Category \notin stored
  <2>1. Flush(w, {Category}, r) /\ UNCHANGED <<logs, stored, brands, twins>>
    BY <1>5 DEF FindCategory
  <2>2. ASSUME ({Category} \cup run[w].pending) \cap stored = {}
        PROVE  WorkerOK(Flushed(w, {Category}, r), logs, stored)
    <3> DEFINE q == Flushed(w, {Category}, r)
    <3>1. /\ q.stage = "brand" /\ q.job = run[w].job /\ q.place = run[w].place
          /\ q.flushed = run[w].flushed \cup {Category} \cup run[w].pending /\ q.pending = {}
          /\ q.brand = run[w].brand /\ q.twins = run[w].twins
          /\ q.updated = run[w].updated /\ (q.applied <=> run[w].applied)
      BY <1>2, <1>3 DEF Flushed, WorkerRows
    <3>2. q \in WorkerRows
      BY <1>1, <1>2, <1>3, KeyFacts DEF Flushed, WorkerRows
    <3>3. Progressing(q, stored)
      BY <1>1, <2>2, <3>1, KeyFacts DEF WorkerOK, Progressing, Done, AtWork, WorkerRows
    <3>4. Doomed(q, stored)
      BY <1>1, <2>2, <3>1 DEF WorkerOK, Doomed, WorkerRows
    <3> QED
      BY <1>1, <3>1, <3>2, <3>3, <3>4 DEF WorkerOK, Resting, HasJob, Reporting, AtWork
  <2> QED
    BY <1>1, <1>2, <1>3, <2>1, <2>2, FlushKeeps
<1> QED
  BY <1>4, <1>5

LEMMA FindBrandKeeps ==
  ASSUME IInv, NEW w \in Workers, FindBrand(w)
  PROVE  IInv'
<1> DEFINE b == IF brands = 0 THEN 1 ELSE 0
           q == [run[w] EXCEPT !.stage = "variant", !.brand = b]
<1>b. b \in 0..1
  OBVIOUS
<1> HIDE DEF b
<1>1. WorkerOK(run[w], logs, stored) /\ run[w] \in WorkerRows /\ run[w].stage = "brand"
  BY DEF IInv, FindBrand, WorkerOK
<1>2. /\ q.stage = "variant" /\ q.job = run[w].job /\ q.place = run[w].place
      /\ q.flushed = run[w].flushed /\ q.pending = run[w].pending /\ q.brand = b
      /\ q.twins = run[w].twins /\ q.updated = run[w].updated /\ (q.applied <=> run[w].applied)
  BY <1>1 DEF WorkerRows
<1>3. q \in WorkerRows
  BY <1>1, <1>b DEF WorkerRows, Stages
<1>4. WorkerOK(q, logs, stored)
  BY <1>1, <1>2, <1>3 DEF WorkerOK, Resting, HasJob, Reporting, Progressing, Doomed, AtWork, Done
<1>5. Become(w, q) /\ UNCHANGED <<logs, stored, brands, twins>>
  BY DEF FindBrand, b
<1>6. \A x \in Workers \ {w} : q.flushed \cap run[x].flushed = {}
  BY <1>2 DEF IInv, Apart
<1> HIDE DEF q
<1>7. CASE brands # 0
  BY <1>2, <1>4, <1>5, <1>6, <1>7, OneMoves DEF b
<1>8. CASE brands = 0
  <2>1. run' = [x \in Workers |-> IF x = w THEN q ELSE run[x]]
    BY <1>5 DEF Become, IInv
  <2>2. \A x \in Workers : run'[x] = IF x = w THEN q ELSE run[x]
    BY <2>1
  <2>3. run' = [x \in Workers |-> run'[x]]
    BY <2>1
  <2>4. \A x \in Workers : WorkerOK(run'[x], logs', stored')
    BY <1>4, <1>5, <2>2 DEF IInv
  <2>5. Apart(run')
    BY <1>2, <1>6, <2>2 DEF IInv, Apart
  <2>6. BrandsFit(brands', run')
    <3>1. Adding(run') \subseteq Workers
      BY DEF Adding
    <3>2. Cardinality(Adding(run')) <= Cardinality(Workers) /\ Cardinality(Adding(run')) \in Nat
      BY <3>1, SyncAssumption, FS_Subset, FS_CardinalityType
    <3> QED
      BY <1>5, <1>8, <3>2 DEF BrandsFit
  <2> QED
    BY <1>5, <2>3, <2>4, <2>5, <2>6 DEF IInv, Tables
<1> QED
  BY <1>7, <1>8

\* The row of a worker that has added the variant of its next product to the session.
LEMMA VariantAdded ==
  ASSUME NEW w \in Workers, NEW r \in WorkerRows, run[w] \in WorkerRows,
         r.place = run[w].place, r.place \in DOMAIN MockProducts
  PROVE  LET q == WithVariant(w, r) IN
         /\ q \in WorkerRows
         /\ q.stage = "variant" /\ q.job = r.job /\ q.place = r.place + 1
         /\ q.flushed = r.flushed /\ q.pending = r.pending \cup {Sku(w)}
         /\ q.updated = r.updated \cup {Sku(w)}
         /\ q.brand = r.brand /\ q.twins = r.twins /\ (q.applied <=> r.applied)
         /\ Done(q) = Done(r) \cup {Sku(w)}
<1> DEFINE q == WithVariant(w, r)
<1>1. Sku(w) \in Items /\ Sku(w) = MockProducts[r.place]
  BY ListFacts DEF Sku
<1>2. r.place + 1 \in 1..(Len(MockProducts) + 1)
  BY ListFacts
<1>3. q \in WorkerRows
  BY <1>1, <1>2 DEF WithVariant, WorkerRows, Stages
<1>4. /\ q.stage = "variant" /\ q.job = r.job /\ q.place = r.place + 1
      /\ q.flushed = r.flushed /\ q.pending = r.pending \cup {Sku(w)}
      /\ q.updated = r.updated \cup {Sku(w)}
      /\ q.brand = r.brand /\ q.twins = r.twins
  BY DEF WithVariant, WorkerRows
<1>5. q.applied <=> r.applied
  BY DEF WithVariant, WorkerRows
<1>6. Done(q) = Done(r) \cup {Sku(w)}
  BY <1>1, <1>3, <1>4, DoneGrows
<1> QED
  BY <1>3, <1>4, <1>5, <1>6

LEMMA FindVariantKeeps ==
  ASSUME IInv, NEW w \in Workers, FindVariant(w)
  PROVE  IInv'
<1>1. /\ WorkerOK(run[w], logs, stored) /\ run[w] \in WorkerRows /\ run[w].stage = "variant"
      /\ run[w].place \in DOMAIN MockProducts /\ UNCHANGED <<logs, stored, brands, twins>>
  BY DEF IInv, FindVariant, WorkerOK
<1>2. Sku(w) \in Items /\ Sku(w) = MockProducts[run[w].place]
  BY <1>1, ListFacts DEF Sku
<1>3. \A x \in Workers \ {w} : run[w].flushed \cap run[x].flushed = {}
  BY DEF IInv, Apart
<1>4. CASE Sku(w) \in stored
  <2> DEFINE q == [run[w] EXCEPT !.place = @ + 1]
  <2>1. /\ q.stage = "variant" /\ q.job = run[w].job /\ q.place = run[w].place + 1
        /\ q.flushed = run[w].flushed /\ q.pending = run[w].pending /\ q.brand = run[w].brand
        /\ q.twins = run[w].twins /\ q.updated = run[w].updated
        /\ (q.applied <=> run[w].applied)
    BY <1>1 DEF WorkerRows
  <2>2. run[w].place + 1 \in 1..(Len(MockProducts) + 1)
    BY <1>1, ListFacts
  <2>3. q \in WorkerRows
    BY <1>1, <2>2 DEF WorkerRows
  <2>4. Become(w, q)
    BY <1>4 DEF FindVariant
  <2> HIDE DEF q
  <2>5. Done(q) = Done(run[w]) \cup {Sku(w)}
    BY <1>1, <1>2, <2>1, <2>3, DoneGrows
  <2>6. Progressing(q, stored)
    BY <1>1, <1>4, <2>1, <2>5 DEF WorkerOK, Progressing, AtWork
  <2>7. WorkerOK(q, logs, stored)
    BY <1>1, <2>1, <2>3, <2>6 DEF WorkerOK, Resting, HasJob, Reporting, Doomed, AtWork
  <2> QED
    BY <1>1, <1>3, <2>1, <2>4, <2>7, OneMoves
<1>5. CASE Sku(w) \notin stored
  <2> DEFINE q == [run[w] EXCEPT !.stage = "product"]
  <2>1. /\ q.stage = "product" /\ q.job = run[w].job /\ q.place = run[w].place
        /\ q.flushed = run[w].flushed /\ q.pending = run[w].pending /\ q.brand = run[w].brand
        /\ q.twins = run[w].twins /\ q.updated = run[w].updated
        /\ (q.applied <=> run[w].applied)
    BY <1>1 DEF WorkerRows
  <2>3. q \in WorkerRows
    BY <1>1 DEF WorkerRows, Stages
  <2>4. Become(w, q)
    BY <1>5 DEF FindVariant
  <2> HIDE DEF q
  <2>7. WorkerOK(q, logs, stored)
    BY <1>1, <2>1, <2>3 DEF WorkerOK, Resting, HasJob, Reporting, Progressing, Doomed, AtWork, Done
  <2> QED
    BY <1>1, <1>3, <2>1, <2>4, <2>7, OneMoves
<1> QED
  BY <1>4, <1>5

LEMMA FindProductKeeps ==
  ASSUME IInv, NEW w \in Workers, FindProduct(w)
  PROVE  IInv'
<1>1. /\ WorkerOK(run[w], logs, stored) /\ run[w] \in WorkerRows /\ run[w].stage = "product"
      /\ run[w].place \in DOMAIN MockProducts /\ UNCHANGED <<logs, stored, brands, twins>>
  BY DEF IInv, FindProduct, WorkerOK, Progressing
<1>2. Sku(w) \in Items /\ Sku(w) = MockProducts[run[w].place]
  BY <1>1, ListFacts DEF Sku
<1>3. \A x \in Workers \ {w} : run[w].flushed \cap run[x].flushed = {}
  BY DEF IInv, Apart
<1>4. CASE MockName[Sku(w)] \in stored \cup run[w].flushed
  <2> DEFINE q == WithVariant(w, run[w])
  <2>1. Become(w, q)
    BY <1>4 DEF FindProduct
  <2>2. /\ q \in WorkerRows
        /\ q.stage = "variant" /\ q.job = run[w].job /\ q.place = run[w].place + 1
        /\ q.flushed = run[w].flushed /\ q.pending = run[w].pending \cup {Sku(w)}
        /\ q.updated = run[w].updated \cup {Sku(w)}
        /\ q.brand = run[w].brand /\ q.twins = run[w].twins
        /\ (q.applied <=> run[w].applied)
        /\ Done(q) = Done(run[w]) \cup {Sku(w)}
    BY <1>1, VariantAdded
  <2> HIDE DEF q
  <2>3. Progressing(q, stored)
    BY <1>1, <1>2, <2>2 DEF WorkerOK, Progressing, AtWork
  <2>4. WorkerOK(q, logs, stored)
    BY <1>1, <2>2, <2>3 DEF WorkerOK, Resting, HasJob, Reporting, Doomed, AtWork
  <2> QED
    BY <1>1, <1>3, <2>1, <2>2, <2>4, OneMoves
<1>5. CASE MockName[Sku(w)] \notin stored \cup run[w].flushed
  <2> DEFINE q == [run[w] EXCEPT !.stage = "slug"]
  <2>1. /\ q.stage = "slug" /\ q.job = run[w].job /\ q.place = run[w].place
        /\ q.flushed = run[w].flushed /\ q.pending = run[w].pending /\ q.brand = run[w].brand
        /\ q.twins = run[w].twins /\ q.updated = run[w].updated
        /\ (q.applied <=> run[w].applied)
    BY <1>1 DEF WorkerRows
  <2>2. q \in WorkerRows
    BY <1>1 DEF WorkerRows, Stages
  <2>3. Become(w, q)
    BY <1>5 DEF FindProduct
  <2> HIDE DEF q
  <2>4. Doomed(q, stored)
    BY <1>1, <1>2, <1>5, <2>1 DEF WorkerOK, Doomed
  <2>5. WorkerOK(q, logs, stored)
    BY <1>1, <2>1, <2>2, <2>4 DEF WorkerOK, Resting, HasJob, Reporting, Progressing, AtWork, Done
  <2> QED
    BY <1>1, <1>3, <2>1, <2>3, <2>5, OneMoves
<1> QED
  BY <1>4, <1>5

\* The flush of a product and of the variants before it.
LEMMA MakeProductKeeps ==
  ASSUME IInv, NEW w \in Workers, MakeProduct(w)
  PROVE  IInv'
<1> DEFINE name == MockName[Sku(w)]
           r == WithVariant(w, run[w])
           old == run[w].pending
<1>1. /\ WorkerOK(run[w], logs, stored) /\ run[w] \in WorkerRows /\ run[w].stage = "slug"
      /\ run[w].place \in DOMAIN MockProducts /\ UNCHANGED <<logs, stored, brands, twins>>
  BY DEF IInv, MakeProduct, WorkerOK, Progressing
<1>2. Sku(w) \in Items /\ Sku(w) = MockProducts[run[w].place] /\ Sku(w) \notin old
  BY <1>1, ListFacts, NotDoneYet DEF Sku, WorkerOK, Progressing
<1>3. /\ r \in WorkerRows
      /\ r.stage = "variant" /\ r.job = run[w].job /\ r.place = run[w].place + 1
      /\ r.flushed = run[w].flushed /\ r.pending = old \cup {Sku(w)}
      /\ r.updated = run[w].updated \cup {Sku(w)}
      /\ r.brand = run[w].brand /\ r.twins = run[w].twins
      /\ (r.applied <=> run[w].applied)
      /\ Done(r) = Done(run[w]) \cup {Sku(w)}
  BY <1>1, VariantAdded
<1>4. name \in Names
  BY <1>2, KeyFacts
<1>5. AtWork(run[w]) /\ ~run[w].applied
  BY <1>1 DEF AtWork, WorkerOK, Reporting
\* The row after the flush of some keys other than skus, whatever its twins.
<1>6. ASSUME NEW keys \in SUBSET {name}, NEW n \in Nat, NEW s \in WorkerRows,
             s.stage = "variant", s.job = run[w].job, s.place = run[w].place + 1,
             s.flushed = run[w].flushed, s.pending = old \cup {Sku(w)},
             s.updated = run[w].updated \cup {Sku(w)}, s.brand = run[w].brand,
             s.twins = n, s.applied <=> run[w].applied,
             Done(s) = Done(run[w]) \cup {Sku(w)},
             (keys \cup old) \cap stored = {}, n > 0 => Items \subseteq stored
      PROVE  WorkerOK(Flushed(w, keys, s), logs, stored)
  <2> DEFINE q == Flushed(w, keys, s)
  <2>1. /\ q.stage = "variant" /\ q.job = run[w].job /\ q.place = run[w].place + 1
        /\ q.flushed = run[w].flushed \cup keys \cup old /\ q.pending = {Sku(w)}
        /\ q.updated = run[w].updated \cup {Sku(w)} /\ q.brand = run[w].brand
        /\ q.twins = n
    BY <1>2, <1>6 DEF Flushed, WorkerRows
  <2>2. q.applied <=> run[w].applied
    BY <1>6 DEF Flushed, WorkerRows
  <2>3. keys \subseteq Keys /\ keys \cap Items = {} /\ old \subseteq Keys
    BY <1>1, <1>4, KeyFacts DEF WorkerRows
  <2>4. q \in WorkerRows
    BY <1>6, <1>1, <2>3 DEF Flushed, WorkerRows
  <2>5. Done(q) = Done(run[w]) \cup {Sku(w)}
    BY <1>6, <2>1 DEF Done
  <2> HIDE DEF q
  <2>6. Progressing(q, stored)
    <3>1. q.updated = (q.flushed \cup q.pending) \cap Items
      BY <1>1, <1>2, <1>5, <2>1, <2>3 DEF WorkerOK, Progressing, WorkerRows
    <3>2. q.flushed \cap stored = {}
      BY <1>1, <1>6, <2>1 DEF WorkerOK, Progressing
    <3>3. q.pending \subseteq Done(q)
      BY <2>1, <2>5
    <3>4. Done(q) \subseteq stored \cup q.flushed \cup q.pending
      BY <1>1, <2>1, <2>5 DEF WorkerOK, Progressing
    <3> QED
      BY <2>1, <3>1, <3>2, <3>3, <3>4 DEF Progressing
  <2>7. Doomed(q, stored)
    BY <1>6, <2>1 DEF Doomed
  <2> QED
    BY <1>1, <2>1, <2>2, <2>4, <2>6, <2>7, <1>5
       DEF Flushed, WorkerOK, Resting, HasJob, Reporting, AtWork, q
<1> HIDE DEF name, r, old
<1>7. CASE name \in stored
  <2> DEFINE s == [r EXCEPT !.twins = @ + 1]
  <2>1. Flush(w, {}, s)
    BY <1>7 DEF MakeProduct, name, r
  <2>2. Items \subseteq stored
    BY <1>1, <1>2, <1>7 DEF WorkerOK, Doomed, name
  <2>3. /\ s \in WorkerRows
        /\ s.stage = r.stage /\ s.job = r.job /\ s.place = r.place
        /\ s.flushed = r.flushed /\ s.pending = r.pending /\ s.updated = r.updated
        /\ s.brand = r.brand /\ s.twins = r.twins + 1
    BY <1>3 DEF WorkerRows
  <2>4. s.applied <=> r.applied
    BY <1>3 DEF WorkerRows
  <2>5. Done(s) = Done(r) /\ r.twins + 1 \in Nat
    BY <1>3, <2>3 DEF Done, WorkerRows
  <2> HIDE DEF s
  <2>6. ({} \cup run[w].pending) \cap stored = {} => WorkerOK(Flushed(w, {}, s), logs, stored)
    BY <1>3, <1>6, <2>2, <2>3, <2>4, <2>5 DEF old
  <2> QED
    BY <1>1, <1>3, <1>5, <2>1, <2>3, <2>6, FlushKeeps
<1>8. CASE name \notin stored
  <2>1. Flush(w, {name}, r)
    BY <1>8 DEF MakeProduct, name, r
  <2>2. ({name} \cup run[w].pending) \cap stored = {} => (r.twins > 0 => Items \subseteq stored)
    BY <1>1, <1>3 DEF WorkerOK, Doomed
  <2>3. ({name} \cup run[w].pending) \cap stored = {}
           => WorkerOK(Flushed(w, {name}, r), logs, stored)
    BY <1>3, <1>6, <2>2 DEF old, WorkerRows
  <2> QED
    BY <1>1, <1>3, <1>5, <2>1, <2>3, FlushKeeps
<1> QED
  BY <1>7, <1>8

\* A step of one worker, whatever it stores or logs.
LEMMA OneMovesOn ==
  ASSUME IInv, NEW w \in Workers, NEW q, Become(w, q), Tables', twins' = 0,
         WorkerOK(q, logs', stored'),
         \A x \in Workers \ {w} : /\ WorkerOK(run[x], logs', stored')
                                  /\ q.flushed \cap run[x].flushed = {}
                                  /\ q.job = run[x].job => q.job = 0,
         BrandsFit(brands', run')
  PROVE  IInv'
<1>1. run' = [x \in Workers |-> IF x = w THEN q ELSE run[x]]
  BY DEF Become, IInv
<1>2. \A x \in Workers : run'[x] = IF x = w THEN q ELSE run[x]
  BY <1>1
<1>3. run' = [x \in Workers |-> run'[x]]
  BY <1>1
<1>4. \A x \in Workers : WorkerOK(run'[x], logs', stored')
  BY <1>2
<1>5. Apart(run')
  BY <1>2 DEF IInv, Apart
<1> QED
  BY <1>3, <1>4, <1>5 DEF IInv

\* A worker that does not add a brand leaves no more of them adding one.
LEMMA FewerAdding ==
  ASSUME IInv, NEW w \in Workers, NEW q, Become(w, q), q.brand = 0
  PROVE  Adding(run') = Adding(run) \ {w}
<1>1. run' = [x \in Workers |-> IF x = w THEN q ELSE run[x]]
  BY DEF Become, IInv
<1> QED
  BY <1>1 DEF Adding

LEMMA ItemsFinite == IsFiniteSet(Items)
<1> DEFINE f == [i \in 1..Len(MockProducts) |-> MockProducts[i]]
<1>1. f \in Surjection(1..Len(MockProducts), Items)
  BY ListFacts DEF Surjection
<1>2. IsFiniteSet(1..Len(MockProducts))
  BY ListFacts, FS_Interval
<1> QED
  BY <1>1, <1>2, FS_Surjection

LEMMA StartSyncKeeps ==
  ASSUME IInv, NEW w \in Workers, StartSync(w)
  PROVE  IInv'
<1> DEFINE j == Len(logs) + 1
           q == [Idle EXCEPT !.stage = "category", !.job = j]
<1>1. /\ Become(w, q) /\ UNCHANGED Catalogue /\ Len(logs) < MaxJobs
      /\ logs' = Append(logs, [status |-> "running", updated |-> 0])
  BY DEF StartSync
<1>2. logs \in Seq(LogRows) /\ Len(logs) \in Nat /\ MaxJobs \in Nat
  BY SyncAssumption DEF IInv, Tables
<1>3. [status |-> "running", updated |-> 0] \in LogRows
  BY DEF LogRows
<1>4. Tables'
  BY <1>1, <1>2, <1>3 DEF IInv, Tables, Catalogue
<1>5. /\ DOMAIN logs = 1..Len(logs) /\ DOMAIN logs' = 1..j
      /\ logs'[j].status = "running" /\ \A i \in DOMAIN logs : logs'[i] = logs[i]
  BY <1>1, <1>2, <1>3
<1>6. /\ q.stage = "category" /\ q.job = j /\ q.place = 1 /\ q.flushed = {} /\ q.pending = {}
      /\ q.brand = 0 /\ q.twins = 0 /\ q.updated = {} /\ ~q.applied
  BY DEF Idle
<1>a. j \in 0..MaxJobs
  BY <1>1, <1>2
<1>7. q \in WorkerRows
  <2> HIDE DEF j
  <2> QED
    BY <1>a, IdleRow DEF WorkerRows, Stages
<1> HIDE DEF q
<1>8. Done(q) = {}
  BY <1>6, NothingDone
<1>9. WorkerOK(q, logs', stored')
  BY <1>2, <1>5, <1>6, <1>7, <1>8
     DEF WorkerOK, Resting, HasJob, Reporting, Progressing, Doomed, AtWork
<1>10. ASSUME NEW x \in Workers \ {w}
       PROVE  /\ WorkerOK(run[x], logs', stored')
              /\ q.flushed \cap run[x].flushed = {}
              /\ q.job = run[x].job => q.job = 0
  <2>1. WorkerOK(run[x], logs, stored)
    BY DEF IInv
  <2>2. WorkerOK(run[x], logs', stored')
    <3>1. /\ stored' = stored
          /\ run[x].job \in DOMAIN logs
               => run[x].job \in DOMAIN logs' /\ logs'[run[x].job] = logs[run[x].job]
      BY <1>1, <1>2, <1>5 DEF Catalogue
    <3> QED
      BY <2>1, <3>1, OthersMove
  <2>3. run[x].job # j
    BY <1>2, <1>5, <2>1 DEF WorkerOK, HasJob
  <2> QED
    BY <1>6, <2>2, <2>3
<1>11. BrandsFit(brands', run')
  <2>1. Adding(run') \subseteq Adding(run)
    BY <1>1, <1>6, FewerAdding
  <2> QED
    BY <1>1, <2>1, BrandsStay DEF IInv, Tables, Catalogue
<1> QED
  BY <1>1, <1>4, <1>9, <1>10, <1>11, OneMovesOn DEF IInv, Catalogue

\* The commit of the work: from then on every sku is stored.
LEMMA CommitWorkKeeps ==
  ASSUME IInv, NEW w \in Workers, CommitWork(w)
  PROVE  IInv'
<1> DEFINE r == run[w]
           q == [Idle EXCEPT !.stage = "report", !.job = r.job, !.updated = r.updated,
                             !.applied = TRUE]
<1>1. /\ WorkerOK(r, logs, stored) /\ r \in WorkerRows /\ r.stage = "variant"
      /\ r.place \notin DOMAIN MockProducts /\ r.pending \cap HeldByOthers(w) = {}
      /\ UNCHANGED logs
  BY DEF IInv, CommitWork, WorkerOK
<1>2. CASE r.pending \cap stored # {}
  <2>1. Become(w, Failing(r)) /\ UNCHANGED <<logs, stored, brands, twins>>
    BY <1>2 DEF CommitWork, Failing, Catalogue
  <2> QED
    BY <1>1, <2>1, FailKeeps DEF AtWork
<1>3. CASE r.pending \cap stored = {}
  <2>1. /\ stored' = stored \cup r.flushed \cup r.pending
        /\ brands' = brands + r.brand /\ twins' = twins + r.twins /\ Become(w, q)
    BY <1>3 DEF CommitWork
  <2>2. r.twins = 0
    BY <1>1, <1>3 DEF WorkerOK, Doomed, WorkerRows
  <2>3. Done(r) = Items
    BY <1>1, AllDone
  <2>4. Items \subseteq stored'
    BY <1>1, <2>1, <2>3 DEF WorkerOK, Progressing
  <2>5. stored' \subseteq Keys /\ stored \subseteq stored'
    BY <1>1, <2>1, KeyFacts DEF IInv, Tables, WorkerRows
  <2>6. Tables'
    <3>1. r.brand \in Nat
      BY <1>1 DEF WorkerRows
    <3> QED
      BY <1>1, <2>1, <2>5, <3>1 DEF IInv, Tables
  <2>7. /\ q.stage = "report" /\ q.job = r.job /\ q.place = 1 /\ q.flushed = {}
        /\ q.pending = {} /\ q.brand = 0 /\ q.twins = 0 /\ q.updated = r.updated
    BY DEF Idle
  <2>8. q.applied
    BY DEF Idle
  <2>9. q \in WorkerRows
    BY <1>1, IdleRow DEF WorkerRows, Stages
  <2> HIDE DEF q
  <2>10. WorkerOK(q, logs', stored')
    <3>1. HasJob(q, logs')
      BY <1>1, <2>7 DEF WorkerOK, HasJob
    <3> QED
      BY <2>7, <2>8, <2>9, <3>1, RestOK DEF AtWork, Reporting
  <2>11. ASSUME NEW x \in Workers \ {w}
         PROVE  /\ WorkerOK(run[x], logs', stored')
                /\ q.flushed \cap run[x].flushed = {}
                /\ q.job = run[x].job => q.job = 0
    <3>1. WorkerOK(run[x], logs, stored)
      BY DEF IInv
    <3>2. run[x].flushed \cap stored' = {}
      BY <1>1, <2>1, <3>1 DEF HeldByOthers, IInv, Apart, WorkerOK, Progressing
    <3>3. WorkerOK(run[x], logs', stored')
      BY <1>1, <2>4, <2>5, <3>1, <3>2, OthersMove
    <3> QED
      BY <2>7, <3>3 DEF IInv, Apart
  <2>12. BrandsFit(brands', run')
    <3>1. Adding(run') = Adding(run) \ {w}
      BY <2>1, <2>7, FewerAdding
    <3>2. CASE r.brand = 0
      BY <2>1, <3>1, <3>2, BrandsStay DEF IInv, Tables
    <3>3. CASE r.brand = 1
      <4>1. w \in Adding(run) /\ IsFiniteSet(Adding(run))
        BY <3>3, SyncAssumption, FS_Subset DEF Adding
      <4>2. /\ Cardinality(Adding(run')) = Cardinality(Adding(run)) - 1
            /\ Cardinality(Adding(run)) \in Nat /\ Cardinality(Workers) \in Nat
        BY <3>1, <4>1, SyncAssumption, FS_RemoveElement, FS_CardinalityType
      <4> QED
        BY <2>1, <3>3, <4>2 DEF IInv, Tables, BrandsFit
    <3> QED
      BY <1>1, <3>2, <3>3 DEF WorkerRows
  <2>13. twins' = 0
    BY <2>1, <2>2 DEF IInv
  <2> HIDE DEF r
  <2> QED
    BY <2>1, <2>6, <2>10, <2>11, <2>12, <2>13, OneMovesOn
<1> QED
  BY <1>2, <1>3

\* The commit that closes a log, with what it says.
LEMMA CloseKeeps ==
  ASSUME IInv, NEW w \in Workers, run[w].stage # "none", NEW row \in LogRows,
         logs' = [logs EXCEPT ![run[w].job] = row], Become(w, Idle), UNCHANGED Catalogue
  PROVE  IInv'
<1> DEFINE j == run[w].job
<1>1. j \in DOMAIN logs /\ j # 0 /\ logs \in Seq(LogRows)
  BY DEF IInv, Tables, WorkerOK, HasJob
<1>2. /\ logs' \in Seq(LogRows) /\ Len(logs') = Len(logs) /\ DOMAIN logs' = DOMAIN logs
      /\ \A i \in DOMAIN logs : i # j => logs'[i] = logs[i]
  BY <1>1
<1>3. Tables'
  BY <1>2 DEF IInv, Tables, Catalogue
<1>4. /\ Idle.stage = "none" /\ Idle.job = 0 /\ Idle.place = 1 /\ Idle.flushed = {}
      /\ Idle.pending = {} /\ Idle.brand = 0 /\ Idle.twins = 0 /\ ~Idle.applied
  BY DEF Idle
<1>5. WorkerOK(Idle, logs', stored')
  BY <1>4, IdleRow, RestOK DEF AtWork, HasJob, Reporting
<1>6. ASSUME NEW x \in Workers \ {w}
      PROVE  WorkerOK(run[x], logs', stored')
  <2>1. WorkerOK(run[x], logs, stored) /\ run[x].job # j
    BY <1>1 DEF IInv, Apart
  <2>2. /\ stored' = stored
        /\ run[x].job \in DOMAIN logs
             => run[x].job \in DOMAIN logs' /\ logs'[run[x].job] = logs[run[x].job]
    BY <1>2, <2>1 DEF Catalogue
  <2> QED
    BY <2>1, <2>2, OthersMove
<1>7. BrandsFit(brands', run')
  <2>1. Adding(run') \subseteq Adding(run)
    BY <1>4, FewerAdding
  <2> QED
    BY <2>1, BrandsStay DEF IInv, Tables, Catalogue
<1>8. twins' = 0
  BY DEF IInv, Catalogue
<1> QED
  BY <1>3, <1>4, <1>5, <1>6, <1>7, <1>8, OneMovesOn

LEMMA LogRowOf ==
  ASSUME IInv, NEW w \in Workers, run[w].stage # "none"
  PROVE  /\ run[w].job \in DOMAIN logs /\ run[w].job \in Jobs
         /\ logs[run[w].job] \in LogRows /\ logs[run[w].job].status = "running"
         /\ Cardinality(run[w].updated) \in Nat
<1>1. run[w].job \in DOMAIN logs /\ logs[run[w].job].status = "running"
  BY DEF IInv, WorkerOK, HasJob
<1>2. logs \in Seq(LogRows) /\ Len(logs) <= MaxJobs
  BY DEF IInv, Tables
<1>3. run[w].updated \in SUBSET Items
  BY DEF IInv, WorkerOK, WorkerRows
<1>4. Cardinality(run[w].updated) \in Nat
  BY <1>3, ItemsFinite, FS_Subset, FS_CardinalityType
<1> QED
  BY <1>1, <1>2, <1>4, SyncAssumption DEF Jobs

LEMMA CommitLogKeeps ==
  ASSUME IInv, NEW w \in Workers, CommitLog(w)
  PROVE  IInv'
<1> DEFINE n == Cardinality(run[w].updated)
           row == [status |-> "completed", updated |-> n]
<1>1. /\ run[w].stage # "none" /\ Become(w, Idle) /\ UNCHANGED Catalogue
      /\ logs' = [logs EXCEPT ![run[w].job] = row]
  BY DEF CommitLog
<1>2. n \in Nat
  BY <1>1, LogRowOf
<1>3. row \in LogRows
  BY <1>2 DEF LogRows
<1> QED
  BY <1>1, <1>3, CloseKeeps

LEMMA CommitFailureKeeps ==
  ASSUME IInv, NEW w \in Workers, CommitFailure(w)
  PROVE  IInv'
<1> DEFINE row == [logs[run[w].job] EXCEPT !.status = "failed"]
<1>1. /\ run[w].stage # "none" /\ Become(w, Idle) /\ UNCHANGED Catalogue
      /\ logs' = [logs EXCEPT ![run[w].job] = row]
  BY DEF CommitFailure
<1>2. row \in LogRows
  BY <1>1, LogRowOf DEF LogRows
<1> QED
  BY <1>1, <1>2, CloseKeeps

LEMMA BreakKeeps ==
  ASSUME IInv, NEW w \in Workers, Break(w)
  PROVE  IInv'
<1> DEFINE q == [Idle EXCEPT !.stage = "failing", !.job = run[w].job,
                             !.applied = run[w].applied, !.updated = run[w].updated]
<1>1. /\ WorkerOK(run[w], logs, stored) /\ run[w] \in WorkerRows /\ run[w].stage # "none"
      /\ Become(w, q) /\ UNCHANGED <<logs, stored, brands, twins>>
  BY DEF IInv, Break, WorkerOK
<1>2. /\ q.stage = "failing" /\ q.job = run[w].job /\ q.place = 1 /\ q.flushed = {}
      /\ q.pending = {} /\ q.brand = 0 /\ q.twins = 0
  BY DEF Idle
<1>3. q \in WorkerRows
  BY <1>1, IdleRow DEF WorkerRows, Stages
<1> HIDE DEF q
<1>4. HasJob(q, logs) /\ Reporting(q) /\ ~AtWork(q)
  BY <1>1, <1>2 DEF WorkerOK, HasJob, Reporting, AtWork
<1>5. WorkerOK(q, logs, stored)
  BY <1>2, <1>3, <1>4, RestOK
<1> QED
  BY <1>1, <1>2, <1>5, OneMoves

LEMMA LoseWorkerKeeps ==
  ASSUME IInv, NEW w \in Workers, LoseWorker(w)
  PROVE  IInv'
<1>1. /\ Idle.stage = "none" /\ Idle.job = 0 /\ Idle.place = 1 /\ Idle.flushed = {}
      /\ Idle.pending = {} /\ Idle.brand = 0 /\ Idle.twins = 0 /\ ~Idle.applied
  BY DEF Idle
<1>2. WorkerOK(Idle, logs, stored)
  BY <1>1, IdleRow, RestOK DEF AtWork, HasJob, Reporting
<1> QED
  BY <1>1, <1>2, OneMoves DEF LoseWorker

-----------------------------------------------------------------------------

LEMMA InitIInv == SyncInit => IInv
<1> SUFFICES ASSUME SyncInit PROVE IInv
  OBVIOUS
<1>1. /\ Idle.stage = "none" /\ Idle.job = 0 /\ Idle.place = 1 /\ Idle.flushed = {}
      /\ Idle.pending = {} /\ Idle.brand = 0 /\ Idle.twins = 0 /\ ~Idle.applied
  BY DEF Idle
<1>2. WorkerOK(Idle, logs, stored)
  BY <1>1, IdleRow, RestOK DEF AtWork, HasJob, Reporting
<1>3. Tables
  BY SyncAssumption DEF SyncInit, Tables
<1>4. run = [w \in Workers |-> run[w]] /\ \A w \in Workers : run[w] = Idle
  BY DEF SyncInit
<1>5. Apart(run) /\ Adding(run) = {}
  BY <1>1, <1>4 DEF Apart, Adding
<1>6. BrandsFit(brands, run)
  <2>1. Cardinality(Workers) \in Nat /\ Cardinality(Workers) # 0
    BY SyncAssumption, FS_CardinalityType, FS_EmptySet
  <2>2. Cardinality(Adding(run)) = 0 /\ brands \in 0..1
    BY <1>5, FS_EmptySet DEF SyncInit
  <2> QED
    BY <2>1, <2>2 DEF BrandsFit
<1> QED
  BY <1>2, <1>3, <1>4, <1>5, <1>6 DEF IInv, SyncInit

LEMMA StepIInv == IInv /\ [SyncNext]_syncVars => IInv'
<1> SUFFICES ASSUME IInv, [SyncNext]_syncVars PROVE IInv'
  OBVIOUS
<1>1. CASE UNCHANGED syncVars
  BY <1>1 DEF syncVars, IInv, Tables
<1>2. ASSUME NEW w \in Workers, StartSync(w) \/ Work(w) \/ Break(w) \/ LoseWorker(w)
      PROVE  IInv'
  BY <1>2, StartSyncKeeps, FindCategoryKeeps, FindBrandKeeps, FindVariantKeeps,
     FindProductKeeps, MakeProductKeeps, CommitWorkKeeps, CommitLogKeeps,
     CommitFailureKeeps, BreakKeeps, LoseWorkerKeeps DEF Work
<1> QED
  BY <1>1, <1>2 DEF SyncNext

LEMMA InvariantHolds == SyncSpec => []IInv
  BY InitIInv, StepIInv, PTL DEF SyncSpec

\* Synchronizations that overlap never store a product twice, although nothing in the
\* database forbids it, and no more than one brand each (sync_catalog_mock).
THEOREM NothingStoredTwice == SyncSpec => []NoTwins
<1>1. IInv => NoTwins
  <2> SUFFICES ASSUME IInv PROVE NoTwins
    OBVIOUS
  <2>1. Cardinality(Adding(run)) \in Nat /\ Cardinality(Workers) \in Nat
    BY SyncAssumption, FS_Subset, FS_CardinalityType DEF Adding
  <2> QED
    BY <2>1 DEF IInv, Tables, BrandsFit, NoTwins
<1> QED
  BY <1>1, InvariantHolds, PTL

-----------------------------------------------------------------------------
(* The refinement of SyncJobs.  The phase of a job is what its log and its   *)
(* worker say of it: the operators of the mapping, for any logs and workers. *)

On(R, j) == {w \in Workers : R[w].job = j}

PhaseIn(L, R, j) ==
  IF j \notin DOMAIN L THEN "none"
  ELSE IF L[j].status # "running" THEN L[j].status
  ELSE IF On(R, j) = {} THEN "abandoned"
  ELSE IF \E w \in On(R, j) : R[w].applied THEN "applied"
  ELSE "running"

CreatedIn(L, R, j) ==
  IF PhaseIn(L, R, j) = "completed" THEN L[j].updated
  ELSE IF PhaseIn(L, R, j) = "applied"
  THEN Cardinality(UNION {R[w].updated : w \in On(R, j)})
  ELSE 0

Phases(L, R) == [j \in Jobs |-> PhaseIn(L, R, j)]
Createds(L, R) == [j \in Jobs |-> CreatedIn(L, R, j)]

LEMMA MappedState ==
  /\ [j \in Jobs |-> Phase(j)] = Phases(logs, run)
  /\ [j \in Jobs |-> Created(j)] = Createds(logs, run)
  /\ [j \in Jobs |-> Phase(j)]' = Phases(logs', run')
  /\ [j \in Jobs |-> Created(j)]' = Createds(logs', run')
  BY DEF Phases, Createds, Phase, Created, PhaseIn, CreatedIn, On, WorkersOf

LEMMA PhaseNew ==
  ASSUME NEW L, NEW R, NEW j, j \notin DOMAIN L
  PROVE  PhaseIn(L, R, j) = "none" /\ CreatedIn(L, R, j) = 0
  BY DEF PhaseIn, CreatedIn

LEMMA PhaseEnded ==
  ASSUME NEW L, NEW R, NEW j \in DOMAIN L, L[j].status \in {"completed", "failed"}
  PROVE  /\ PhaseIn(L, R, j) = L[j].status
         /\ CreatedIn(L, R, j) = IF L[j].status = "completed" THEN L[j].updated ELSE 0
  BY DEF PhaseIn, CreatedIn

LEMMA PhaseNone ==
  ASSUME NEW L, NEW R, NEW j \in DOMAIN L, L[j].status = "running", On(R, j) = {}
  PROVE  PhaseIn(L, R, j) = "abandoned" /\ CreatedIn(L, R, j) = 0
  BY DEF PhaseIn, CreatedIn

LEMMA PhaseOne ==
  ASSUME NEW L, NEW R, NEW j \in DOMAIN L, L[j].status = "running",
         NEW w \in Workers, On(R, j) = {w}
  PROVE  /\ PhaseIn(L, R, j) = IF R[w].applied THEN "applied" ELSE "running"
         /\ CreatedIn(L, R, j) = IF R[w].applied THEN Cardinality(R[w].updated) ELSE 0
<1>1. PhaseIn(L, R, j) = IF R[w].applied THEN "applied" ELSE "running"
  BY Zenon DEF PhaseIn
<1>2. UNION {R[x].updated : x \in On(R, j)} = R[w].updated
  BY Zenon
<1> QED
  BY <1>1, <1>2 DEF CreatedIn

\* Of a job whose log and workers are the same, the same is said.
LEMMA PhaseSame ==
  ASSUME NEW L, NEW M, NEW R, NEW Q, NEW j, j \in DOMAIN L <=> j \in DOMAIN M,
         j \in DOMAIN L => L[j] = M[j],
         On(Q, j) = On(R, j), \A w \in On(R, j) : Q[w] = R[w]
  PROVE  PhaseIn(M, Q, j) = PhaseIn(L, R, j) /\ CreatedIn(M, Q, j) = CreatedIn(L, R, j)
<1>1. PhaseIn(M, Q, j) = PhaseIn(L, R, j)
  BY DEF PhaseIn
<1>2. UNION {Q[w].updated : w \in On(Q, j)} = UNION {R[w].updated : w \in On(R, j)}
  BY Zenon
<1>3. j \notin DOMAIN L => PhaseIn(L, R, j) = "none"
  BY DEF PhaseIn
<1> QED
  BY <1>1, <1>2, <1>3 DEF CreatedIn

\* The worker of a job is its only one.
LEMMA OnlyWorker ==
  ASSUME IInv, NEW w \in Workers, run[w].stage # "none"
  PROVE  On(run, run[w].job) = {w}
<1>1. run[w].job # 0
  BY LogRowOf, SyncAssumption DEF Jobs
<1> QED
  BY <1>1 DEF On, IInv, Apart

\* A step of one worker moves no job but its own.
LEMMA OneJobMoves ==
  ASSUME IInv, NEW w \in Workers, NEW q, NEW k \in Jobs, Become(w, q),
         run[w].job \in {0, k}, q.job \in {0, k},
         \A j \in Jobs \ {k} : /\ j \in DOMAIN logs <=> j \in DOMAIN logs'
                               /\ j \in DOMAIN logs => logs[j] = logs'[j]
  PROVE  /\ Phases(logs', run')
              = [Phases(logs, run) EXCEPT ![k] = PhaseIn(logs', run', k)]
         /\ Createds(logs', run')
              = [Createds(logs, run) EXCEPT ![k] = CreatedIn(logs', run', k)]
         /\ run'[w] = q
         /\ On(run', k) = IF q.job = k THEN On(run, k) \cup {w} ELSE On(run, k) \ {w}
<1>1. run' = [x \in Workers |-> IF x = w THEN q ELSE run[x]]
  BY DEF Become, IInv
<1>2. \A x \in Workers : run'[x] = IF x = w THEN q ELSE run[x]
  BY <1>1
<1>3. ASSUME NEW j \in Jobs \ {k}
      PROVE  /\ PhaseIn(logs', run', j) = PhaseIn(logs, run, j)
             /\ CreatedIn(logs', run', j) = CreatedIn(logs, run, j)
  <2>1. j # 0 /\ j # k
    BY SyncAssumption DEF Jobs
  <2>2. On(run', j) = On(run, j) /\ \A x \in On(run, j) : run'[x] = run[x]
    BY <1>2, <2>1 DEF On
  <2> QED
    BY <2>2, PhaseSame
<1>4. On(run', k) = IF q.job = k THEN On(run, k) \cup {w} ELSE On(run, k) \ {w}
  BY <1>2 DEF On
<1> QED
  BY <1>2, <1>3, <1>4 DEF Phases, Createds

SameJobs ==
  /\ Phases(logs', run') = Phases(logs, run)
  /\ Createds(logs', run') = Createds(logs, run)
  /\ stored' \cap Items = stored \cap Items

\* A step of a worker that goes on with its job and commits nothing is not seen.
LEMMA SilentStep ==
  ASSUME IInv, NEW w \in Workers, NEW q, Become(w, q), UNCHANGED <<logs, stored>>,
         run[w].stage # "none", q.job = run[w].job, q.applied <=> run[w].applied,
         q.applied => q.updated = run[w].updated
  PROVE  SameJobs
<1> DEFINE k == run[w].job
<1>1. k \in Jobs /\ k \in DOMAIN logs /\ logs[k].status = "running"
  BY LogRowOf
<1>2. On(run, k) = {w}
  BY OnlyWorker
<1>3. /\ Phases(logs', run') = [Phases(logs, run) EXCEPT ![k] = PhaseIn(logs', run', k)]
      /\ Createds(logs', run') = [Createds(logs, run) EXCEPT ![k] = CreatedIn(logs', run', k)]
      /\ run'[w] = q /\ On(run', k) = {w}
  BY <1>1, <1>2, OneJobMoves
<1>4. /\ PhaseIn(logs, run, k) = IF run[w].applied THEN "applied" ELSE "running"
      /\ CreatedIn(logs, run, k) = IF run[w].applied THEN Cardinality(run[w].updated) ELSE 0
  BY <1>1, <1>2, PhaseOne
<1>5. /\ PhaseIn(logs', run', k) = IF q.applied THEN "applied" ELSE "running"
      /\ CreatedIn(logs', run', k) = IF q.applied THEN Cardinality(q.updated) ELSE 0
  BY <1>1, <1>3, PhaseOne
<1>6. /\ PhaseIn(logs', run', k) = PhaseIn(logs, run, k)
      /\ CreatedIn(logs', run', k) = CreatedIn(logs, run, k)
  BY <1>4, <1>5
<1> HIDE DEF k
<1> QED
  BY <1>1, <1>3, <1>6 DEF SameJobs, Phases, Createds

LEMMA FlushSilent ==
  ASSUME IInv, NEW w \in Workers, AtWork(run[w]), NEW keys, NEW r, Flush(w, keys, r),
         UNCHANGED <<logs, stored>>, r \in WorkerRows, r.job = run[w].job,
         r.applied <=> run[w].applied
  PROVE  SameJobs
<1> DEFINE new == keys \cup run[w].pending
<1>1. run[w].stage # "none" /\ ~run[w].applied
  BY DEF IInv, WorkerOK, Reporting, AtWork
<1>2. CASE new \cap stored # {}
  <2>1. Become(w, Failing(run[w]))
    BY <1>2 DEF Flush, Failing
  <2>2. Failing(run[w]).job = run[w].job
    BY DEF Failing, Idle
  <2>3. ~Failing(run[w]).applied
    BY DEF Failing, Idle
  <2> QED
    BY <1>1, <2>1, <2>2, <2>3, SilentStep
<1>3. CASE new \cap stored = {}
  <2> DEFINE q == Flushed(w, keys, r)
  <2>1. Become(w, q)
    BY <1>3 DEF Flush, Flushed
  <2>2. q.job = run[w].job
    BY DEF Flushed, WorkerRows
  <2>3. ~q.applied
    BY <1>1 DEF Flushed, WorkerRows
  <2> HIDE DEF q
  <2> QED
    BY <1>1, <2>1, <2>2, <2>3, SilentStep
<1> QED
  BY <1>2, <1>3

\* The lookups, with their flushes.
LEMMA LookupSilent ==
  ASSUME IInv, NEW w \in Workers,
         FindCategory(w) \/ FindBrand(w) \/ FindVariant(w) \/ FindProduct(w) \/ MakeProduct(w)
  PROVE  SameJobs
<1>1. run[w] \in WorkerRows /\ AtWork(run[w]) /\ UNCHANGED <<logs, stored>>
  BY DEF IInv, WorkerOK, AtWork, FindCategory, FindBrand, FindVariant, FindProduct, MakeProduct
<1>2. run[w].stage # "none" /\ ~run[w].applied
  BY <1>1 DEF IInv, WorkerOK, Reporting, AtWork
<1>3. ASSUME NEW q \in WorkerRows, Become(w, q), q.job = run[w].job, ~q.applied
      PROVE  SameJobs
  BY <1>1, <1>2, <1>3, SilentStep
<1>4. CASE FindCategory(w)
  <2> DEFINE r == [run[w] EXCEPT !.stage = "brand"]
  <2>1. r \in WorkerRows /\ r.job = run[w].job
    BY <1>1 DEF WorkerRows, Stages
  <2>2. r.applied <=> run[w].applied
    BY <1>1 DEF WorkerRows
  <2>3. Become(w, r) \/ Flush(w, {Category}, r)
    BY <1>4 DEF FindCategory
  <2> HIDE DEF r
  <2> QED
    BY <1>1, <1>2, <1>3, <2>1, <2>2, <2>3, FlushSilent
<1>5. CASE FindBrand(w)
  <2> DEFINE b == IF brands = 0 THEN 1 ELSE 0
             q == [run[w] EXCEPT !.stage = "variant", !.brand = b]
  <2>b. b \in 0..1
    OBVIOUS
  <2>3. Become(w, q)
    BY <1>5 DEF FindBrand
  <2> HIDE DEF b
  <2>1. q \in WorkerRows /\ q.job = run[w].job
    BY <1>1, <2>b DEF WorkerRows, Stages
  <2>2. q.applied <=> run[w].applied
    BY <1>1 DEF WorkerRows
  <2> HIDE DEF q
  <2> QED
    BY <1>2, <1>3, <2>1, <2>2, <2>3
\* What the step of a product leaves: the next place, or the next stage.
<1>6. ASSUME run[w].place \in DOMAIN MockProducts
      PROVE  LET q == WithVariant(w, run[w]) IN
             q \in WorkerRows /\ q.job = run[w].job /\ (q.applied <=> run[w].applied)
  BY <1>1, <1>6, VariantAdded
<1>7. run[w].stage \in {"product", "slug"} => run[w].place \in DOMAIN MockProducts
  BY DEF IInv, WorkerOK, Progressing
<1>8. CASE FindVariant(w)
  <2> DEFINE p == [run[w] EXCEPT !.place = @ + 1]
             q == [run[w] EXCEPT !.stage = "product"]
  <2>1. Become(w, p) \/ Become(w, q)
    BY <1>8 DEF FindVariant
  <2>2. run[w].place + 1 \in 1..(Len(MockProducts) + 1)
    BY <1>1, <1>8, ListFacts DEF FindVariant, WorkerRows
  <2>3. p \in WorkerRows /\ q \in WorkerRows
    BY <1>1, <2>2 DEF WorkerRows, Stages
  <2>4. p.job = run[w].job /\ q.job = run[w].job
    BY <1>1 DEF WorkerRows
  <2>5. (p.applied <=> run[w].applied) /\ (q.applied <=> run[w].applied)
    BY <1>1 DEF WorkerRows
  <2> HIDE DEF p, q
  <2> QED
    BY <1>2, <1>3, <2>1, <2>3, <2>4, <2>5
<1>9. CASE FindProduct(w)
  <2> DEFINE p == WithVariant(w, run[w])
             q == [run[w] EXCEPT !.stage = "slug"]
  <2>1. Become(w, p) \/ Become(w, q)
    BY <1>9 DEF FindProduct
  <2>2. p \in WorkerRows /\ p.job = run[w].job /\ (p.applied <=> run[w].applied)
    BY <1>6, <1>7, <1>9 DEF FindProduct
  <2>3. q \in WorkerRows /\ q.job = run[w].job
    BY <1>1 DEF WorkerRows, Stages
  <2>4. q.applied <=> run[w].applied
    BY <1>1 DEF WorkerRows
  <2> HIDE DEF p, q
  <2> QED
    BY <1>2, <1>3, <2>1, <2>2, <2>3, <2>4
<1>10. CASE MakeProduct(w)
  <2> DEFINE r == WithVariant(w, run[w])
             s == [r EXCEPT !.twins = @ + 1]
  <2>1. Flush(w, {}, s) \/ Flush(w, {MockName[Sku(w)]}, r)
    BY <1>10 DEF MakeProduct
  <2>2. r \in WorkerRows /\ r.job = run[w].job /\ (r.applied <=> run[w].applied)
    BY <1>6, <1>7, <1>10 DEF MakeProduct
  <2> HIDE DEF r
  <2>3. s \in WorkerRows /\ s.job = r.job
    BY <2>2 DEF WorkerRows
  <2>4. s.applied <=> r.applied
    BY <2>2 DEF WorkerRows
  <2> HIDE DEF s
  <2> QED
    BY <1>1, <2>1, <2>2, <2>3, <2>4, FlushSilent
<1> QED
  BY <1>4, <1>5, <1>8, <1>9, <1>10

LEMMA BreakSilent ==
  ASSUME IInv, NEW w \in Workers, Break(w)
  PROVE  SameJobs
<1> DEFINE q == [Idle EXCEPT !.stage = "failing", !.job = run[w].job,
                             !.applied = run[w].applied, !.updated = run[w].updated]
<1>1. Become(w, q) /\ run[w].stage # "none" /\ UNCHANGED <<logs, stored>>
  BY DEF Break
<1>2. q.job = run[w].job /\ q.updated = run[w].updated
  BY DEF Idle
<1>3. run[w].applied \in BOOLEAN
  BY DEF IInv, WorkerOK, WorkerRows
<1>4. q.applied <=> run[w].applied
  BY <1>3 DEF Idle
<1> HIDE DEF q
<1> QED
  BY <1>1, <1>2, <1>4, SilentStep

\* Each of the other steps, as SyncJobs sees it.
LEMMA StartStarts ==
  ASSUME IInv, NEW w \in Workers, StartSync(w)
  PROVE  \E k \in Jobs : AbstractJobs!Start(k)
<1> DEFINE k == Len(logs) + 1
           q == [Idle EXCEPT !.stage = "category", !.job = k]
<1>1. /\ Become(w, q) /\ Len(logs) < MaxJobs /\ run[w].stage = "none" /\ stored' = stored
      /\ logs' = Append(logs, [status |-> "running", updated |-> 0])
  BY DEF StartSync, Catalogue
<1>2. logs \in Seq(LogRows) /\ Len(logs) \in Nat /\ MaxJobs \in Nat
  BY SyncAssumption DEF IInv, Tables
<1>3. k \in Jobs
  BY <1>1, <1>2 DEF Jobs
<1>4. /\ DOMAIN logs = 1..Len(logs) /\ DOMAIN logs' = 1..k /\ logs'[k].status = "running"
      /\ \A i \in DOMAIN logs : logs'[i] = logs[i]
  BY <1>1, <1>2
<1>5. k \in DOMAIN logs' /\ k \notin DOMAIN logs
      /\ \A j \in Jobs \ {k} : j \in DOMAIN logs <=> j \in DOMAIN logs'
  BY <1>2, <1>4 DEF Jobs
<1>6. q.job = k /\ ~q.applied
  BY DEF Idle
<1>7. run[w].job = 0
  BY <1>1 DEF IInv, WorkerOK, HasJob
<1>8. On(run, k) = {}
  BY <1>2, <1>3, <1>5, SyncAssumption DEF On, IInv, WorkerOK, HasJob, Jobs
<1>a. /\ \A j \in Jobs \ {k} : /\ j \in DOMAIN logs <=> j \in DOMAIN logs'
                               /\ j \in DOMAIN logs => logs[j] = logs'[j]
      /\ run[w].job \in {0, k} /\ q.job \in {0, k}
  BY <1>4, <1>5, <1>6, <1>7
<1> HIDE DEF k, q
<1>9. /\ Phases(logs', run') = [Phases(logs, run) EXCEPT ![k] = PhaseIn(logs', run', k)]
      /\ Createds(logs', run') = [Createds(logs, run) EXCEPT ![k] = CreatedIn(logs', run', k)]
      /\ run'[w] = q /\ On(run', k) = {w}
  <2>1. Become(w, q) /\ q.job = k
    BY <1>1, <1>6
  <2> QED
    BY <1>3, <1>8, <1>a, <2>1, OneJobMoves
<1>10. PhaseIn(logs, run, k) = "none" /\ CreatedIn(logs, run, k) = 0
  BY <1>5, PhaseNew
<1>11. PhaseIn(logs', run', k) = "running" /\ CreatedIn(logs', run', k) = 0
  BY <1>4, <1>5, <1>6, <1>9, PhaseOne
<1>12. /\ Phases(logs, run)[k] = "none"
       /\ Phases(logs', run') = [Phases(logs, run) EXCEPT ![k] = "running"]
       /\ Createds(logs', run') = Createds(logs, run)
  BY <1>3, <1>9, <1>10, <1>11 DEF Phases, Createds
<1> QED
  BY <1>1, <1>3, <1>12, MappedState DEF AbstractJobs!Start

LEMMA SameCardinality == \A S : AbstractJobs!Cardinality(S) = Cardinality(S)
  BY DEF AbstractJobs!Cardinality, Cardinality

\* The commit of the work, when it succeeds, brings in what was missing.
LEMMA CommitApplies ==
  ASSUME IInv, NEW w \in Workers, CommitWork(w)
  PROVE  SameJobs \/ \E k \in Jobs : AbstractJobs!Apply(k)
<1> DEFINE r == run[w]
           k == r.job
           q == [Idle EXCEPT !.stage = "report", !.job = r.job, !.updated = r.updated,
                             !.applied = TRUE]
<1>1. /\ WorkerOK(r, logs, stored) /\ r \in WorkerRows /\ r.stage = "variant"
      /\ r.place \notin DOMAIN MockProducts /\ logs' = logs
  BY DEF IInv, CommitWork, WorkerOK
<1>2. r.stage # "none" /\ ~r.applied
  BY <1>1 DEF WorkerOK, Reporting
<1>3. CASE r.pending \cap stored # {}
  <2>1. Become(w, Failing(r)) /\ UNCHANGED <<logs, stored>>
    BY <1>1, <1>3 DEF CommitWork, Failing, Catalogue
  <2>2. Failing(r).job = r.job
    BY DEF Failing, Idle
  <2>3. ~Failing(r).applied
    BY DEF Failing, Idle
  <2> QED
    BY <1>2, <2>1, <2>2, <2>3, SilentStep
<1>4. CASE r.pending \cap stored = {}
  <2>1. stored' = stored \cup r.flushed \cup r.pending /\ Become(w, q)
    BY <1>4 DEF CommitWork
  <2>2. q.job = k /\ q.updated = r.updated
    BY DEF Idle
  <2>3. q.applied
    BY DEF Idle
  <2>4. k \in Jobs /\ k \in DOMAIN logs /\ logs[k].status = "running"
    BY <1>2, LogRowOf
  <2>5. On(run, k) = {w}
    BY <1>2, OnlyWorker
  <2>6. Done(r) = Items
    BY <1>1, AllDone
  <2>7. stored' \cap Items = Items
    BY <1>1, <2>1, <2>6 DEF WorkerOK, Progressing
  <2>8. r.updated = Items \ (stored \cap Items)
    <3>1. r.updated = (r.flushed \cup r.pending) \cap Items
      BY <1>1 DEF WorkerOK, Progressing, AtWork
    <3>2. r.flushed \cap stored = {} /\ Items \subseteq stored \cup r.flushed \cup r.pending
      BY <1>1, <2>6 DEF WorkerOK, Progressing
    <3> QED
      BY <1>4, <3>1, <3>2
  <2> HIDE DEF q
  <2>9. /\ Phases(logs', run') = [Phases(logs, run) EXCEPT ![k] = PhaseIn(logs', run', k)]
        /\ Createds(logs', run')
             = [Createds(logs, run) EXCEPT ![k] = CreatedIn(logs', run', k)]
        /\ run'[w] = q /\ On(run', k) = {w}
    BY <1>1, <2>1, <2>2, <2>4, <2>5, OneJobMoves
  <2>10. PhaseIn(logs, run, k) = "running"
    BY <1>2, <2>4, <2>5, PhaseOne
  <2>11. /\ PhaseIn(logs', run', k) = "applied"
         /\ CreatedIn(logs', run', k) = Cardinality(Items \ (stored \cap Items))
    <3>1. k \in DOMAIN logs' /\ logs'[k].status = "running"
      BY <1>1, <2>4
    <3>2. run'[w].updated = Items \ (stored \cap Items)
      BY <2>2, <2>8, <2>9
    <3>3. run'[w].applied
      BY <2>3, <2>9
    <3>4. On(run', k) = {w}
      BY <2>9
    <3> HIDE DEF k, r
    <3>5. /\ PhaseIn(logs', run', k) = IF run'[w].applied THEN "applied" ELSE "running"
          /\ CreatedIn(logs', run', k)
               = IF run'[w].applied THEN Cardinality(run'[w].updated) ELSE 0
      BY <3>1, <3>4, PhaseOne
    <3> QED
      BY <3>2, <3>3, <3>5
  <2>12. Phases(logs, run)[k] = "running"
    BY <2>4, <2>10 DEF Phases
  <2> HIDE DEF k
  <2>13. AbstractJobs!Apply(k)
    BY <2>4, <2>7, <2>9, <2>11, <2>12, MappedState, SameCardinality DEF AbstractJobs!Apply
  <2> QED
    BY <2>4, <2>13
<1> QED
  BY <1>3, <1>4

\* The commits that close a log, and the loss of a worker, end the job.
LEMMA WorkerLeaves ==
  ASSUME IInv, NEW w \in Workers, run[w].stage # "none", Become(w, Idle), stored' = stored,
         DOMAIN logs' = DOMAIN logs,
         \A i \in DOMAIN logs : i # run[w].job => logs'[i] = logs[i]
  PROVE  LET k == run[w].job IN
         /\ k \in Jobs /\ k \in DOMAIN logs
         /\ Phases(logs', run') = [Phases(logs, run) EXCEPT ![k] = PhaseIn(logs', run', k)]
         /\ Createds(logs', run')
              = [Createds(logs, run) EXCEPT ![k] = CreatedIn(logs', run', k)]
         /\ Phases(logs, run)[k] = IF run[w].applied THEN "applied" ELSE "running"
         /\ Createds(logs, run)[k]
              = IF run[w].applied THEN Cardinality(run[w].updated) ELSE 0
         /\ On(run', k) = {}
<1> DEFINE k == run[w].job
<1>1. k \in Jobs /\ k \in DOMAIN logs /\ logs[k].status = "running" /\ k # 0
  BY LogRowOf, SyncAssumption DEF Jobs
<1>2. On(run, k) = {w}
  BY OnlyWorker
<1>3. Idle.job = 0
  BY DEF Idle
<1>4. /\ Phases(logs', run') = [Phases(logs, run) EXCEPT ![k] = PhaseIn(logs', run', k)]
      /\ Createds(logs', run') = [Createds(logs, run) EXCEPT ![k] = CreatedIn(logs', run', k)]
      /\ On(run', k) = {}
  BY <1>1, <1>2, <1>3, OneJobMoves
<1>5. /\ PhaseIn(logs, run, k) = IF run[w].applied THEN "applied" ELSE "running"
      /\ CreatedIn(logs, run, k) = IF run[w].applied THEN Cardinality(run[w].updated) ELSE 0
  BY <1>1, <1>2, PhaseOne
<1> HIDE DEF k
<1>6. Phases(logs, run)[k] = PhaseIn(logs, run, k) /\ Createds(logs, run)[k] = CreatedIn(logs, run, k)
  BY <1>1 DEF Phases, Createds
<1> QED
  BY <1>1, <1>4, <1>5, <1>6 DEF k

LEMMA CommitLogCompletes ==
  ASSUME IInv, NEW w \in Workers, CommitLog(w)
  PROVE  \E k \in Jobs : AbstractJobs!Complete(k)
<1> DEFINE k == run[w].job
           n == Cardinality(run[w].updated)
           row == [status |-> "completed", updated |-> n]
<1>1. /\ run[w].stage = "report" /\ Become(w, Idle) /\ stored' = stored
      /\ logs' = [logs EXCEPT ![k] = row]
  BY DEF CommitLog, Catalogue
<1>2. run[w].applied
  BY <1>1 DEF IInv, WorkerOK, Reporting
<1>3. /\ k \in Jobs /\ k \in DOMAIN logs
      /\ Phases(logs', run') = [Phases(logs, run) EXCEPT ![k] = PhaseIn(logs', run', k)]
      /\ Createds(logs', run')
           = [Createds(logs, run) EXCEPT ![k] = CreatedIn(logs', run', k)]
      /\ Phases(logs, run)[k] = "applied" /\ Createds(logs, run)[k] = n
  BY <1>1, <1>2, WorkerLeaves
<1>4. k \in DOMAIN logs' /\ logs'[k] = row
  BY <1>1, <1>3
<1> HIDE DEF k, n
<1>5. PhaseIn(logs', run', k) = "completed" /\ CreatedIn(logs', run', k) = n
  BY <1>4, PhaseEnded
<1>6. Createds(logs', run') = Createds(logs, run)
  BY <1>3, <1>5 DEF Createds
<1>7. AbstractJobs!Complete(k)
  BY <1>1, <1>3, <1>5, <1>6, MappedState DEF AbstractJobs!Complete
<1> QED
  BY <1>3, <1>7

LEMMA CommitFailureFails ==
  ASSUME IInv, NEW w \in Workers, CommitFailure(w)
  PROVE  \E k \in Jobs : AbstractJobs!Fail(k)
<1> DEFINE k == run[w].job
           row == [logs[k] EXCEPT !.status = "failed"]
<1>1. /\ run[w].stage # "none" /\ Become(w, Idle) /\ stored' = stored
      /\ logs' = [logs EXCEPT ![k] = row]
  BY DEF CommitFailure, Catalogue
<1>2. /\ k \in Jobs /\ k \in DOMAIN logs
      /\ Phases(logs', run') = [Phases(logs, run) EXCEPT ![k] = PhaseIn(logs', run', k)]
      /\ Createds(logs', run')
           = [Createds(logs, run) EXCEPT ![k] = CreatedIn(logs', run', k)]
      /\ Phases(logs, run)[k] \in {"running", "applied"}
  BY <1>1, WorkerLeaves
<1>3. logs[k] \in LogRows
  BY <1>1, LogRowOf
<1>4. k \in DOMAIN logs' /\ logs'[k].status = "failed"
  BY <1>1, <1>2, <1>3 DEF LogRows
<1> HIDE DEF k
<1>5. PhaseIn(logs', run', k) = "failed" /\ CreatedIn(logs', run', k) = 0
  BY <1>4, PhaseEnded
<1>6. AbstractJobs!Fail(k)
  BY <1>1, <1>2, <1>5, MappedState DEF AbstractJobs!Fail, AbstractJobs!GiveUp
<1> QED
  BY <1>2, <1>6

LEMMA LoseWorkerAbandons ==
  ASSUME IInv, NEW w \in Workers, LoseWorker(w)
  PROVE  \E k \in Jobs : AbstractJobs!Abandon(k)
<1> DEFINE k == run[w].job
<1>1. run[w].stage # "none" /\ Become(w, Idle) /\ stored' = stored /\ logs' = logs
  BY DEF LoseWorker
<1>2. /\ k \in Jobs /\ k \in DOMAIN logs
      /\ Phases(logs', run') = [Phases(logs, run) EXCEPT ![k] = PhaseIn(logs', run', k)]
      /\ Createds(logs', run')
           = [Createds(logs, run) EXCEPT ![k] = CreatedIn(logs', run', k)]
      /\ Phases(logs, run)[k] \in {"running", "applied"}
      /\ On(run', k) = {}
  BY <1>1, WorkerLeaves
<1>3. k \in DOMAIN logs' /\ logs'[k].status = "running"
  BY <1>1, LogRowOf
<1> HIDE DEF k
<1>4. PhaseIn(logs', run', k) = "abandoned" /\ CreatedIn(logs', run', k) = 0
  BY <1>2, <1>3, PhaseNone
<1>5. AbstractJobs!Abandon(k)
  BY <1>1, <1>2, <1>4, MappedState DEF AbstractJobs!Abandon, AbstractJobs!GiveUp
<1> QED
  BY <1>2, <1>5

\* A run of the synchronization does what SyncJobs allows a job, at every step: it
\* brings in all that is missing at once, counts it exactly and ends as it says
\* (sync_catalog_mock).  That it ends at all is checked with TLC.
THEOREM RunsAreJobs == SyncSpec => AbstractJobs!SafeSpec
<1>1. SyncInit => AbstractJobs!Init
  <2> SUFFICES ASSUME SyncInit PROVE AbstractJobs!Init
    OBVIOUS
  <2>1. logs = <<>>
    BY DEF SyncInit
  <2>2. \A j \in Jobs : j \notin DOMAIN logs
    BY <2>1
  <2>3. \A j \in Jobs : Phase(j) = "none" /\ Created(j) = 0
    BY <2>2 DEF Phase, Created
  <2> QED
    BY <2>3 DEF AbstractJobs!Init
<1>2. IInv /\ [SyncNext]_syncVars => [AbstractJobs!Next]_AbstractJobs!jobVars
  <2> SUFFICES ASSUME IInv, [SyncNext]_syncVars
               PROVE  [AbstractJobs!Next]_AbstractJobs!jobVars
    OBVIOUS
  <2>1. ASSUME SameJobs
        PROVE  UNCHANGED AbstractJobs!jobVars
    BY <2>1, MappedState DEF SameJobs, AbstractJobs!jobVars
  <2>2. CASE UNCHANGED syncVars
    BY <2>1, <2>2 DEF syncVars, SameJobs
  <2>3. ASSUME NEW w \in Workers, StartSync(w) \/ Work(w) \/ Break(w) \/ LoseWorker(w)
        PROVE  SameJobs \/ AbstractJobs!Next
    BY <2>3, StartStarts, LookupSilent, CommitApplies, CommitLogCompletes,
       CommitFailureFails, BreakSilent, LoseWorkerAbandons DEF Work, AbstractJobs!Next
  <2> QED
    BY <2>1, <2>2, <2>3 DEF SyncNext
<1> QED
  BY <1>1, <1>2, InvariantHolds, PTL DEF SyncSpec, AbstractJobs!SafeSpec

=============================================================================
