---------------------------- MODULE PoolPipeline ----------------------------
(***************************************************************************)
(* The pool backend: sync-all.sh copies the public pool of localmaxxing    *)
(* into SQLite, adds the lab's own runs, flags every run against its       *)
(* roofline and publishes four derived documents.                          *)
(*                                                                         *)
(* One pipeline runs at a time.  Each command migrates first and commits   *)
(* one transaction; `set -e` ends the pipeline at the first command that   *)
(* fails, and launchd starts it again from the first.  Meanwhile the       *)
(* remote pool changes between two pages, the catalog file is edited, the  *)
(* machine crashes, and the local API reads the tables.                    *)
(***************************************************************************)
EXTENDS Integers, Sequences, FiniteSets, SequencesExt

CONSTANTS
  PoolRuns, LocalRuns,     \* ids of remote runs, and of the lab's bundles
  Models, Rigs, Categories,
  NoRun, NoCategory,
  Data,                    \* what a run row may say: a set of RunData
  LocalData,               \* LocalData[l]: the row of a bundled run
  ListedModels,            \* models of the remote model catalog
  Class,                   \* Class[m]: category whose pattern matches m
  FirstCatalog,            \* storable categories at the start
  Fallback,                \* fallbackIntent
  Seeded,                  \* rigs with a bandwidth in BANDWIDTH_SEED_GBS
  Measured,                \* rigs a bundle brings its own bandwidth for
  PageSize,                \* SPEED_TEST_LIMIT
  MinTotal,                \* MIN_REMOTE_TOTAL
  FirstListing,            \* the remote pool at the start: a sequence of ids
  FirstData,               \* and its rows
  MaxEdits,                \* bound: changes of the remote pool
  MaxCatalogEdits,         \* bound: edits of the intent catalog
  MaxFaults                \* bound: crashes and failed downloads

AllRuns  == PoolRuns \cup LocalRuns
RunData  == [model : Models, rig : Rigs, approved : BOOLEAN,
             bits : BOOLEAN,      \* the quantisation has a bit width
             single : BOOLEAN,    \* batch and concurrency of one
             spec : BOOLEAN,      \* speculative decoding or several tokens a step
             fast : BOOLEAN]      \* above IMPOSSIBLE_FRACTION of the ceiling

ASSUME PoolAssumption ==
  /\ PoolRuns \cap LocalRuns = {} /\ NoRun \notin RunData
  /\ IsFiniteSet(PoolRuns) /\ IsFiniteSet(LocalRuns)
  /\ NoCategory \notin Categories /\ Fallback \in FirstCatalog
  /\ FirstCatalog \subseteq Categories
  /\ Data \subseteq RunData /\ LocalData \in [LocalRuns -> RunData]
  /\ ListedModels \subseteq Models /\ Class \in [Models -> Categories]
  /\ Seeded \subseteq Rigs /\ Measured \subseteq Rigs
  /\ PageSize \in Nat \ {0} /\ MinTotal \in Nat
  /\ FirstListing \in Seq(PoolRuns) /\ IsInjective(FirstListing)
  /\ FirstData \in [PoolRuns -> Data]
  /\ MaxEdits \in Nat /\ MaxCatalogEdits \in Nat /\ MaxFaults \in Nat

VARIABLES
  listing, data,   \* the remote pool: order of its pages, and its rows
  catalog,         \* storable categories of catalog.json
  schema,          \* categories in the CHECK of lm_model
  models,          \* lm_model.category, NoCategory for no row
  rigs,            \* lm_rig: [stored, bandwidth, count]
  runs,            \* lm_run: a row or NoRun
  flags,           \* plausibility_flag.verdict, "none" for no row
  synced,          \* sync_meta.synced_runs
  step,            \* the pipeline: [pc, offset, total, seen, first, shifted,
                   \* docs, at]; first and shifted only serve PagesComplete
  why,             \* how the last pipeline ended
  out, web,        \* the four documents of out/derived and of the web pack
  marker,          \* out/derived/.published
  cleared,         \* runs some assessment let pass, for OnlyAssessedServed
  edits, catalogEdits, faults

remote  == <<listing, data>>
tables  == <<models, rigs, runs, flags, synced>>
files   == <<out, web, marker>>
bounds  == <<edits, catalogEdits, faults>>
vars    == <<remote, catalog, schema, tables, step, why, files, cleared, bounds>>

Docs    == <<"hardware", "models", "pool", "stats">>
DocName == Range(Docs)
NoDoc   == [stamp |-> "missing", clean |-> {}, excluded |-> 0]
Rest    == [pc |-> "rest", offset |-> 0, total |-> 0,
            seen |-> [r \in PoolRuns |-> NoRun], first |-> {}, shifted |-> FALSE,
            docs |-> [clean |-> {}, excluded |-> 0], at |-> 1]

Stored  == {r \in AllRuns : runs[r] # NoRun}

(* exemption_reason and verdict_for, on the joined row of a run; no reader *)
(* tells "suspicious" from "ok".                                           *)
Verdict(d, bandwidth) ==
  IF d.spec \/ ~d.single \/ ~d.bits \/ ~bandwidth THEN "exempt"
  ELSE IF d.fast THEN "impossible" ELSE "ok"

(* CLEAN_EXISTS: a flag exists and it is not impossible.                   *)
Clean(r) == runs[r] # NoRun /\ flags[r] \notin {"none", "impossible"}

(* The rows that build_rigs, build_models and build_cells read, for the    *)
(* documents and for every API request, with what a fresh assessment of    *)
(* the row would say.                                                      *)
CleanRows ==
  {[run |-> r, rig |-> runs[r].rig, model |-> runs[r].model,
    cell |-> runs[r].bits /\ runs[r].single,
    now |-> Verdict(runs[r], rigs[runs[r].rig].bandwidth)] :
     r \in {q \in AllRuns : Clean(q)}}

RunsOf(rows) == {x.run : x \in rows}

(* What a request reads, whenever it comes: the handlers build rigs,       *)
(* models and cells from the committed tables and keep nothing.            *)
Served == RunsOf(CleanRows)

Excluded ==
  Cardinality({r \in Stored : flags[r] = "impossible" /\ runs[r].bits})

(* classify reads the catalog file at every call.                          *)
Category(m) == IF Class[m] \in catalog THEN Class[m] ELSE Fallback

CountFor(rows, g) ==
  Cardinality({r \in AllRuns : rows[r] # NoRun /\ rows[r].rig = g})

-----------------------------------------------------------------------------
Init ==
  /\ listing = FirstListing /\ data = FirstData
  /\ catalog = FirstCatalog /\ schema = FirstCatalog
  /\ models = [m \in Models |-> NoCategory]
  /\ rigs = [g \in Rigs |-> [stored |-> FALSE, bandwidth |-> FALSE, count |-> 0]]
  /\ runs = [r \in AllRuns |-> NoRun]
  /\ flags = [r \in AllRuns |-> "none"]
  /\ synced = 0
  /\ step = Rest /\ why = "none"
  /\ out = [n \in DocName |-> NoDoc] /\ web = [n \in DocName |-> NoDoc]
  /\ marker = FALSE
  /\ cleared = {}
  /\ edits = 0 /\ catalogEdits = 0 /\ faults = 0

-----------------------------------------------------------------------------
(* The world around the pipeline                                           *)

(* External: a run is added anywhere in the order of the pages.            *)
AddRun(r, d) ==
  /\ ~Contains(listing, r)
  /\ \E i \in 1 .. Len(listing) + 1 : listing' = InsertAt(listing, i, r)
  /\ data' = [data EXCEPT ![r] = d]
  /\ UNCHANGED step

(* External: a listed run is amended or moderated.                         *)
AmendRun(r, d) ==
  /\ Contains(listing, r) /\ data[r] # d
  /\ data' = [data EXCEPT ![r] = d]
  /\ UNCHANGED <<listing, step>>

(* External: a run is withdrawn, which shifts the later ones to the left.  *)
WithdrawRun(r) ==
  /\ \E i \in DOMAIN listing : listing[i] = r /\ listing' = RemoveAt(listing, i)
  /\ step' = [step EXCEPT !.shifted = @ \/ step.pc = "page"]
  /\ UNCHANGED data

RemoteChange ==
  /\ edits < MaxEdits /\ edits' = edits + 1
  /\ \E r \in PoolRuns :
       WithdrawRun(r) \/ \E d \in Data : AddRun(r, d) \/ AmendRun(r, d)
  /\ UNCHANGED <<catalog, schema, tables, why, files, cleared, catalogEdits, faults>>

(* catalog.json is edited: a storable intent is removed, or added.         *)
EditCatalog(c) ==
  /\ catalogEdits < MaxCatalogEdits /\ catalogEdits' = catalogEdits + 1
  /\ c # Fallback
  /\ catalog' = IF c \in catalog THEN catalog \ {c} ELSE catalog \cup {c}
  /\ UNCHANGED <<remote, schema, tables, step, why, files, cleared, edits, faults>>

-----------------------------------------------------------------------------
(* migrate, the first thing every command does                             *)

(* Copying the rows into a table with the catalog's CHECK succeeds.        *)
Migratable == \A m \in Models : models[m] \in catalog \cup {NoCategory}

(* Mutant: rows the new CHECK refuses are left behind.                     *)
MigratedDropping ==
  /\ schema' = catalog
  /\ models' = [m \in Models |->
                  IF models[m] \in catalog THEN models[m] ELSE NoCategory]

Migrated ==
  /\ Migratable
  /\ schema' = catalog
  /\ UNCHANGED models

Stop(reason) == step' = Rest /\ why' = reason

(* A copied row violates the new CHECK: roll back, raise, stop.            *)
MigrationFails(pcs) ==
  /\ step.pc \in pcs /\ ~Migratable
  /\ Stop("check")
  /\ UNCHANGED <<remote, catalog, schema, tables, files, cleared, bounds>>

-----------------------------------------------------------------------------
(* sync_pool                                                               *)

StartSync ==
  /\ step.pc = "rest" /\ Migrated
  /\ step' = [Rest EXCEPT !.pc = "page", !.first = ToSet(listing)]
  /\ UNCHANGED <<remote, catalog, rigs, runs, flags, synced, why, files, cleared, bounds>>

(* Mutant: the total of the first page decides how many pages there are.   *)
MoreThanFirstTotal(next) == next < Cardinality(step.first)

(* The loop goes on while the offset is below the total of this page.      *)
MorePages(next) == next < Len(listing)

(* One page; a run that is seen twice keeps the later row.                 *)
FetchPage ==
  /\ step.pc = "page"
  /\ LET next == step.offset + PageSize
         page == {listing[i] : i \in DOMAIN listing \cap step.offset + 1 .. next}
     IN  step' = [step EXCEPT
           !.pc = IF MorePages(next) THEN "page" ELSE "models",
           !.offset = next, !.total = Len(listing),
           !.seen = [r \in PoolRuns |-> IF r \in page THEN data[r] ELSE step.seen[r]]]
  /\ UNCHANGED <<remote, catalog, schema, tables, why, files, cleared, bounds>>

(* The runs that are kept, and the two guards of spec S2.                  *)
Kept == {r \in PoolRuns : step.seen[r] # NoRun /\ step.seen[r].approved}
GuardsHold ==
  /\ step.total >= MinTotal
  /\ 10 * Cardinality({r \in Kept : ~step.seen[r].bits}) <= 3 * Cardinality(Kept)

(* fetch_models, then the guards; remote_total is that of the last page.   *)
FetchModels ==
  /\ step.pc = "models"
  /\ IF GuardsHold
     THEN step' = [step EXCEPT !.pc = "store"] /\ UNCHANGED why
     ELSE Stop("guard")
  /\ UNCHANGED <<remote, catalog, schema, tables, files, cleared, bounds>>

(* Catalog rows, and a fallback row for every other model of a kept run.   *)
ModelRows == ListedModels \cup {step.seen[r].model : r \in Kept}

(* Mutant: INSERT OR IGNORE.                                               *)
StoreRunsIgnoring(rows) ==
  [r \in AllRuns |-> IF r \in Kept /\ rows[r] = NoRun THEN step.seen[r] ELSE rows[r]]

(* upsert_runs: the kept rows replace, nothing is deleted.                 *)
StoreRuns(rows) ==
  [r \in AllRuns |-> IF r \in Kept THEN step.seen[r] ELSE rows[r]]

(* A document's stamp is compared with last_sync_at, which has moved on.   *)
Aged(docs) == [n \in DocName |-> IF docs[n].stamp = "last"
                 THEN [docs[n] EXCEPT !.stamp = "older"] ELSE docs[n]]

(* upsert_models: a row that is there gets its category afresh.            *)
StoreModels ==
  [m \in Models |-> IF m \in ModelRows THEN Category(m) ELSE models[m]]

(* upsert_rigs of the rigs brought, `known` with a bandwidth, then the run *)
(* counts over the new table of runs.                                      *)
StoreRigs(brought, known, table) ==
  [g \in Rigs |-> [stored |-> rigs[g].stored \/ g \in brought,
                   bandwidth |-> IF g \in brought THEN g \in known
                                 ELSE rigs[g].bandwidth,
                   count |-> CountFor(table, g)]]

(* One transaction: models, rigs, runs, run counts, sync_meta.             *)
StoreSync ==
  LET table == StoreRuns(runs) IN
  /\ step.pc = "store"
  /\ IF \E m \in ModelRows : Category(m) \notin schema
     THEN Stop("check") /\ UNCHANGED <<models, rigs, runs, synced, files>>
     ELSE IF \E r \in Kept : /\ step.seen[r].model \notin ModelRows
                             /\ models[step.seen[r].model] = NoCategory
     THEN Stop("foreign key") /\ UNCHANGED <<models, rigs, runs, synced, files>>
     ELSE /\ models' = StoreModels
          /\ rigs' = StoreRigs({step.seen[r].rig : r \in Kept}, Seeded, table)
          /\ runs' = table
          /\ synced' = Cardinality(Kept)
          /\ step' = [Rest EXCEPT !.pc = "local"]
          /\ out' = Aged(out) /\ web' = Aged(web)
          /\ UNCHANGED <<why, marker>>
  /\ UNCHANGED <<remote, catalog, schema, flags, cleared, bounds>>

-----------------------------------------------------------------------------
(* import_local_runs --sqlite-only                                         *)

(* Runs of unknown models are skipped until a sync brings the model.       *)
Importable == {l \in LocalRuns : models[LocalData[l].model] # NoCategory}

LocalRigs(table) == StoreRigs({LocalData[l].rig : l \in LocalRuns}, Measured, table)

(* The bundle's rigs, its runs, and the run counts, in one transaction.    *)
ImportLocal ==
  LET table == [r \in AllRuns |-> IF r \in Importable THEN LocalData[r] ELSE runs[r]]
  IN
  /\ step.pc = "local" /\ Migrated
  /\ IF \E l \in Importable : models[LocalData[l].model] = NoCategory
     THEN Stop("foreign key") /\ UNCHANGED <<rigs, runs>>
     ELSE /\ rigs' = LocalRigs(table) /\ runs' = table
          /\ step' = [step EXCEPT !.pc = "assess"]
          /\ UNCHANGED why
  /\ UNCHANGED <<remote, catalog, flags, synced, files, cleared, bounds>>

-----------------------------------------------------------------------------
(* plausibility                                                            *)

(* Mutant: only runs without a flag are assessed.                          *)
RecomputedMissing ==
  [r \in AllRuns |-> IF runs[r] = NoRun THEN "none"
                     ELSE IF flags[r] # "none" THEN flags[r]
                     ELSE Verdict(runs[r], rigs[runs[r].rig].bandwidth)]

(* DELETE and INSERT of the whole table.                                   *)
Recomputed ==
  [r \in AllRuns |-> IF runs[r] = NoRun THEN "none"
                     ELSE Verdict(runs[r], rigs[runs[r].rig].bandwidth)]

Assess ==
  /\ step.pc = "assess" /\ Migrated
  /\ flags' = Recomputed
  /\ cleared' = cleared \cup {r \in Stored : flags'[r] # "impossible"}
  /\ step' = [step EXCEPT !.pc = "export"]
  /\ UNCHANGED <<remote, catalog, rigs, runs, synced, why, files, bounds>>

-----------------------------------------------------------------------------
(* derive_export --publish                                                 *)

(* export_payloads: four documents of one reading of the tables.           *)
Export ==
  /\ step.pc = "export" /\ Migrated
  /\ step' = [step EXCEPT !.pc = "write", !.at = 1,
                !.docs = [clean |-> CleanRows, excluded |-> Excluded]]
  /\ UNCHANGED <<remote, catalog, rigs, runs, flags, synced, why, files, cleared, bounds>>

Document == [stamp |-> "last", clean |-> step.docs.clean,
             excluded |-> step.docs.excluded]

(* After the document at `at` comes the next one, after the last `after`.  *)
NextDocument(after) ==
  IF step.at < Len(Docs) THEN [step EXCEPT !.at = step.at + 1]
  ELSE [step EXCEPT !.at = 1, !.pc = after]

WriteOutput ==
  /\ step.pc = "write"
  /\ out' = [out EXCEPT ![Docs[step.at]] = Document]
  /\ step' = NextDocument("copy")
  /\ UNCHANGED <<remote, catalog, schema, tables, why, web, marker, cleared, bounds>>

(* Mutant: the last file is not copied.                                    *)
CopyAllButLast ==
  /\ step.pc = "copy"
  /\ web' = IF step.at = Len(Docs) THEN web
            ELSE [web EXCEPT ![Docs[step.at]] = out[Docs[step.at]]]
  /\ step' = NextDocument("mark")
  /\ UNCHANGED <<remote, catalog, schema, tables, why, out, marker, cleared, bounds>>

Copy ==
  /\ step.pc = "copy"
  /\ web' = [web EXCEPT ![Docs[step.at]] = out[Docs[step.at]]]
  /\ step' = NextDocument("mark")
  /\ UNCHANGED <<remote, catalog, schema, tables, why, out, marker, cleared, bounds>>

Mark ==
  /\ step.pc = "mark"
  /\ marker' = TRUE
  /\ Stop("done")
  /\ UNCHANGED <<remote, catalog, schema, tables, out, web, cleared, bounds>>

-----------------------------------------------------------------------------
(* Faults: a download refused after three attempts, or a crash, which      *)
(* leaves the file that was being written or copied truncated.             *)

Torn == [NoDoc EXCEPT !.stamp = "torn"]

Fault ==
  /\ step.pc # "rest"
  /\ faults < MaxFaults /\ faults' = faults + 1
  /\ Stop("fault")
  /\ \/ UNCHANGED <<out, web>>
     \/ step.pc = "write" /\ out' = [out EXCEPT ![Docs[step.at]] = Torn]
                          /\ UNCHANGED web
     \/ step.pc = "copy"  /\ web' = [web EXCEPT ![Docs[step.at]] = Torn]
                          /\ UNCHANGED out
  /\ UNCHANGED <<remote, catalog, schema, tables, marker, cleared, edits, catalogEdits>>

-----------------------------------------------------------------------------
Sync     == StartSync \/ FetchPage \/ FetchModels \/ StoreSync
Pipeline == \/ Sync \/ ImportLocal \/ Assess \/ Export \/ WriteOutput \/ Copy \/ Mark
            \/ MigrationFails({"rest", "local", "assess", "export"})

Next ==
  \/ RemoteChange
  \/ \E c \in Categories : EditCatalog(c)
  \/ Pipeline
  \/ Fault

Spec     == Init /\ [][Next]_vars
Fairness == WF_vars(Pipeline)
FairSpec == Spec /\ Fairness

-----------------------------------------------------------------------------
(* Type correctness of the tables, the files and the pipeline.             *)
TypeOK ==
  /\ Range(listing) \subseteq PoolRuns /\ IsInjective(listing)
  /\ data \in [PoolRuns -> Data]
  /\ catalog \subseteq Categories /\ schema \subseteq Categories
  /\ models \in [Models -> Categories \cup {NoCategory}]
  /\ rigs \in [Rigs -> [stored : BOOLEAN, bandwidth : BOOLEAN, count : Nat]]
  /\ runs \in [AllRuns -> RunData \cup {NoRun}]
  /\ flags \in [AllRuns -> {"none", "ok", "exempt", "impossible"}]
  /\ synced \in Nat /\ marker \in BOOLEAN
  /\ step.pc \in {"rest", "page", "models", "store", "local", "assess",
                  "export", "write", "copy", "mark"}
  /\ step.seen \in [PoolRuns -> RunData \cup {NoRun}]
  /\ step.at \in 1 .. Len(Docs)
  /\ why \in {"none", "guard", "check", "foreign key", "fault", "done"}
  /\ \A n \in DocName :
       {out[n].stamp, web[n].stamp} \subseteq {"missing", "last", "older", "torn"}

(* A run that was in the remote listing when the paging began is among the *)
(* runs fetched, however many runs were inserted in front of it meanwhile; *)
(* only a withdrawal, which shifts the pages, can hide one.                *)
PagesComplete ==
  step.pc \in {"models", "store"} /\ ~step.shifted =>
    \A r \in step.first : step.seen[r] # NoRun

(* No document, in out/ or in the web pack, ever holds a run which, as it  *)
(* stood at the export, lies above the roofline: amended rows and a new    *)
(* bandwidth are assessed again before the export reads the flags.         *)
DocumentsAreClean ==
  \A n \in DocName : \A x \in out[n].clean \cup web[n].clean : x.now # "impossible"

(* What the API reads and the documents show has passed some assessment: a run   *)
(* that a sync has just stored, and no command has flagged yet, is hidden. *)
OnlyAssessedServed ==
  /\ Served \subseteq cleared
  /\ \A n \in DocName : RunsOf(out[n].clean \cup web[n].clean) \subseteq cleared

(* What is served or published has been assessed, with the data and the    *)
(* bandwidths it is published with.                                        *)
PublishedIsAssessed == OnlyAssessedServed /\ DocumentsAreClean

(* The assertions of check.py on flags and on the derived documents.       *)
FlagsOracle == {r \in AllRuns : flags[r] # "none"} = Stored

CellsResolve(docs) ==
  \A x \in docs["pool"].clean : x.cell =>
    /\ \E y \in docs["hardware"].clean : y.rig = x.rig
    /\ \E y \in docs["models"].clean : y.model = x.model

DerivedOracle ==
  /\ \A n \in DocName : out[n].stamp = "last"
  /\ out["stats"].excluded = Excluded
  /\ CellsResolve(out)
  /\ marker => web = out

(* When sync-all.sh has ended well, and until it is started again, the     *)
(* oracles of check.py on the flags and on the documents hold, whatever    *)
(* crashes, torn files and aborted pipelines came before.                  *)
DoneIsConsistent ==
  step.pc = "rest" /\ why = "done" => FlagsOracle /\ DerivedOracle

(* No command ever deletes a run, a model or a rig, nor leaves one behind  *)
(* when it rebuilds lm_model under a new CHECK.                            *)
NothingForgotten ==
  [][ /\ \A r \in AllRuns : runs[r] # NoRun => runs'[r] # NoRun
      /\ \A m \in Models : models[m] # NoCategory => models'[m] # NoCategory
      /\ \A g \in Rigs : rigs[g].stored => rigs'[g].stored ]_vars

(* The sync can pass its guards and the stored categories are storable.    *)
Healthy ==
  LET approved == {r \in Range(listing) : data[r].approved} IN
  /\ Len(listing) >= MinTotal
  /\ 10 * Cardinality({r \in approved : ~data[r].bits}) <= 3 * Cardinality(approved)
  /\ Migratable

(* Every approved run of the remote pool is stored as the pool has it, and *)
(* the web pack shows what the tables have.                                *)
Current ==
  /\ \A r \in Range(listing) : data[r].approved => runs[r] = data[r]
  /\ \A n \in DocName : RunsOf(web[n].clean) = Served

(* Once the remote pool stops changing, the database and the web pack come *)
(* to agree with it and stay so, whatever pages were missed, downloads     *)
(* refused or pipelines cut short before; unless the sync refuses the      *)
(* pool, or a stored category has been removed from the catalog.           *)
EventuallyCurrent == <>[](Healthy => Current)
=============================================================================
