--------------------------- MODULE DeploymentProofs ---------------------------
(***************************************************************************)
(* Proofs about Deployment for any releases, migrations, catalogs,         *)
(* operators, backups and failures.  Three layers, each inductive relative *)
(* to the ones before it: the types with the stage a backup is at, the     *)
(* migrations, and the evidence.                                           *)
(***************************************************************************)
EXTENDS Deployment, WellFoundedInduction, TLAPS

-----------------------------------------------------------------------------
(* The first of several files, and rows                                    *)

(* A set of files that is not empty has a first one: the order in which    *)
(* migrate.py takes the pending files is defined.                          *)
LEMMA FirstIsLeast ==
  ASSUME NEW S \in SUBSET Files, S # {}
  PROVE  FirstOf(S) \in S /\ \A g \in S : FirstOf(S) <= g
<1> DEFINE Below == OpToRel(<, Nat)
<1>1. S \subseteq Nat
  BY FilesAssumption
<1>2. IsWellFoundedOn(Below, Nat)
  BY NatLessThanWellFounded
<1>3. \A g, f \in Nat : <<g, f>> \in Below <=> g < f
  BY DEF OpToRel
<1> HIDE DEF Below
<1>4. PICK f \in S : \A g \in S : ~(<<g, f>> \in Below)
  BY <1>1, <1>2, WFMin
<1>5. \A g \in S : ~(g < f)
  BY <1>1, <1>3, <1>4
<1>6. \A g \in S : f <= g
  BY <1>1, <1>5
<1> QED BY <1>6 DEF FirstOf

(* What a restore copies into a table, or refuses to, was there before or  *)
(* in the dump.                                                            *)
LEMMA CopiesAreRows ==
  ASSUME NEW old, NEW new, NEW t
  PROVE  CopiedRows(old, new, t) \subseteq old \cup new
BY DEF CopiedRows, RowsOf

(* The same for the runs and the ledger.                                   *)
LEMMA CopiesAreKnown ==
  ASSUME NEW old, NEW new
  PROVE  Copied(old, new) \subseteq old \cup new
BY DEF Copied

(* Seeding a table keeps its rows and adds rows of the image.              *)
LEMMA SeedingAdds ==
  ASSUME NEW rows, NEW t, TypeOK
  PROVE  /\ rows \subseteq Seeded(rows, t)
         /\ Seeded(rows, t) \subseteq rows \cup Releases[image].rows
BY DEF Seeded, RowsOf

-----------------------------------------------------------------------------
(* Types, and how far a backup is                                          *)

(* A copy that is complete.                                                *)
Whole(pair) == pair.sql \in Databases /\ pair.tar \in SUBSET Runs

(* What a run of backup.sh has in hand at each step, and that nothing but  *)
(* a whole pair is ever pushed.                                            *)
Stages ==
  /\ \A b \in Backups :
       /\ ~At(b, "idle") => backup[b].sql \in Databases
       /\ backup[b].at \in {"move", "tar", "commit"} =>
            backup[b].tar \in SUBSET Runs
       /\ At(b, "tar") => clone.tree.sql \in Databases
       /\ At(b, "commit") => Whole(clone.tree)
  /\ clone.remote.sql # None => Whole(clone.remote)

(* An operator that executes or records has a file to do so with.          *)
Busy == \A p \in Operators : job[p].at \in {"run", "record"} => job[p].pending # {}

Typed == TypeOK /\ Busy /\ Stages

Jobs == [at : {"idle", "run", "record", "seed", "done"},
         pending : SUBSET Files, table : 1..Len(Tables)]

LEMMA EmptyIsDatabase == Empty \in Databases
BY DEF Empty, Databases

LEMMA IdleIsJob == Idle \in Jobs /\ Idle.at = "idle"
BY BoundsAssumption DEF Idle, Jobs

(* The image brings known files and catalog rows of known tables.          *)
LEMMA ImageIsKnown ==
  ASSUME TypeOK
  PROVE  /\ Releases[image].files \subseteq Files
         /\ Releases[image].rows \subseteq CatalogRows
         /\ \A r \in Releases[image].rows : r.table \in 1..Len(Tables)
BY ReleasesAssumption DEF TypeOK, CatalogRows

LEMMA TypedInit == Init => Typed
<1> SUFFICES ASSUME Init PROVE Typed
  OBVIOUS
<1>1. TypeOK
  <2>1. image \in 1..Len(Releases) /\ db \in Databases /\ vault \in SUBSET Runs
    BY BoundsAssumption, EmptyIsDatabase DEF Init
  <2>2. job \in [Operators -> Jobs]
    BY IdleIsJob DEF Init
  <2>3. clone \in [tree : Saved, remote : Saved]
    BY DEF Init, Saved, Pair
  <2> QED BY <2>1, <2>2, <2>3 DEF Init, TypeOK, Jobs
<1>2. Stages
  BY DEF Init, Stages, At, Pair
<1>3. Busy
  BY IdleIsJob DEF Init, Busy
<1> QED BY <1>1, <1>2, <1>3 DEF Typed

(* What a step of the migration job leaves to prove.                       *)
LEMMA TypedJob ==
  ASSUME Typed, db' \in Databases, faults' \in Nat,
         NEW p \in Operators, NEW j \in Jobs, job' = [job EXCEPT ![p] = j],
         j.at \in {"run", "record"} => j.pending # {},
         UNCHANGED <<image, vault, saves, spoiled>>
  PROVE  Typed'
<1>1. TypeOK'
  BY DEF Typed, TypeOK, Jobs, saves
<1>2. Busy'
  BY DEF Typed, TypeOK, Busy
<1>3. Stages'
  BY DEF Typed, Stages, At, Whole, saves
<1> QED BY <1>1, <1>2, <1>3 DEF Typed

LEMMA TypedMigrate ==
  ASSUME Typed, NEW p \in Operators, Migrate(p) \/ JobCrash(p)
  PROVE  Typed'
<1> DEFINE f == FirstOf(job[p].pending)
<1>1. job[p] \in Jobs /\ db \in Databases /\ faults \in Nat
  BY DEF Typed, TypeOK, Jobs
<1>2. Releases[image].files \subseteq Files /\ Releases[image].rows \subseteq CatalogRows
  BY ImageIsKnown DEF Typed
<1>3. job[p].at \in {"run", "record"} => f \in Files /\ f \in job[p].pending
  BY <1>1, FirstIsLeast DEF Typed, Busy, Jobs
<1> HIDE DEF f
<1>4. CASE StartMigrate(p)
  <2> DEFINE j == [at |-> IF Pending = {} THEN "seed" ELSE "run",
                   pending |-> Pending, table |-> 1]
  <2>1. j \in Jobs /\ (j.at \in {"run", "record"} => j.pending # {})
    BY <1>2, BoundsAssumption DEF Pending, Jobs
  <2>2. job' = [job EXCEPT ![p] = j]
    BY <1>4 DEF StartMigrate
  <2> HIDE DEF j
  <2> QED BY <1>1, <1>4, <2>1, <2>2, TypedJob DEF StartMigrate
<1>5. CASE Execute(p)
  <2>1. CASE Applies(f, db.schema)
    <3> DEFINE j == [job[p] EXCEPT !.at = "record"]
    <3>1. j \in Jobs /\ j.pending # {}
      BY <1>1, <1>3, <1>5 DEF Jobs, Execute
    <3>2. job' = [job EXCEPT ![p] = j] /\ db' = [db EXCEPT !.schema = @ \cup {f}]
      BY <1>5, <2>1 DEF Execute, f
    <3>3. db' \in Databases
      BY <1>1, <1>3, <1>5, <3>2 DEF Databases, Execute
    <3> HIDE DEF j
    <3> QED BY <1>1, <1>5, <3>1, <3>2, <3>3, TypedJob DEF Execute
  <2>2. CASE ~Applies(f, db.schema)
    BY <1>1, <1>5, <2>2, TypedJob, IdleIsJob DEF Execute, f
  <2> QED BY <2>1, <2>2
<1>6. CASE Record(p)
  <2>1. CASE f \in db.ledger
    BY <1>1, <1>6, <2>1, TypedJob, IdleIsJob DEF Record, f
  <2>2. CASE f \notin db.ledger
    <3> DEFINE rest == job[p].pending \ {f}
               j == [at |-> IF rest = {} THEN "seed" ELSE "run",
                     pending |-> rest, table |-> 1]
    <3>1. j \in Jobs /\ (j.at \in {"run", "record"} => j.pending # {})
      BY <1>1, BoundsAssumption DEF Jobs
    <3>2. job' = [job EXCEPT ![p] = j] /\ db' = [db EXCEPT !.ledger = @ \cup {f}]
      BY <1>6, <2>2 DEF Record, f
    <3>3. db' \in Databases
      BY <1>1, <1>3, <1>6, <3>2 DEF Databases, Record
    <3> HIDE DEF j
    <3> QED BY <1>1, <1>6, <3>1, <3>2, <3>3, TypedJob DEF Record
  <2> QED BY <2>1, <2>2
<1>7. CASE Seed(p)
  <2> DEFINE t == job[p].table
  <2>1. CASE Tables[t] \in db.schema
    <3> DEFINE j == [job[p] EXCEPT !.at = IF t = Len(Tables) THEN "done" ELSE "seed",
                                   !.table = IF t = Len(Tables) THEN 1 ELSE t + 1]
    <3>1. j \in Jobs /\ j.at \notin {"run", "record"}
      <4>1. t \in 1..Len(Tables) /\ Len(Tables) \in Nat
        BY <1>1, BoundsAssumption DEF Jobs
      <4>2. (IF t = Len(Tables) THEN 1 ELSE t + 1) \in 1..Len(Tables)
        BY <4>1
      <4> QED BY <1>1, <4>2 DEF Jobs
    <3>2. job' = [job EXCEPT ![p] = j] /\ db' = [db EXCEPT !.rows = Seeded(@, t)]
      BY <1>7, <2>1 DEF Seed
    <3>3. Seeded(db.rows, t) \subseteq CatalogRows
      BY <1>1, <1>2, SeedingAdds DEF Databases, Typed
    <3>4. db' \in Databases
      BY <1>1, <3>2, <3>3 DEF Databases
    <3> HIDE DEF j
    <3> QED BY <1>1, <1>7, <3>1, <3>2, <3>4, TypedJob DEF Seed
  <2>2. CASE Tables[t] \notin db.schema
    BY <1>1, <1>7, <2>2, TypedJob, IdleIsJob DEF Seed
  <2> QED BY <2>1, <2>2
<1>8. CASE JobCrash(p)
  <2>1. faults' \in Nat
    BY <1>1, <1>8 DEF JobCrash, Fault
  <2> QED BY <1>1, <1>8, <2>1, TypedJob, IdleIsJob DEF JobCrash
<1> QED BY <1>4, <1>5, <1>6, <1>7, <1>8 DEF Migrate

(* Images, uploads, the nightly dump.                                      *)
LEMMA TypedRest ==
  ASSUME Typed,
         \/ Deploy \/ NightlyDump
         \/ \E r \in Runs : StoreArtifact(r) \/ InsertRun(r)
  PROVE  Typed'
<1> USE DEF Typed
<1>1. CASE Deploy
  <2>1. TypeOK'
    BY <1>1, BoundsAssumption, IdleIsJob
    DEF Deploy, Reset, TypeOK, Jobs, saves
  <2>2. Busy' /\ Stages'
    BY <1>1, IdleIsJob DEF Deploy, Reset, Busy, Stages, At, Whole, saves
  <2> QED BY <2>1, <2>2
<1>2. CASE NightlyDump
  BY <1>2 DEF NightlyDump, TypeOK, Busy, Stages, At, Whole
<1>3. ASSUME NEW r \in Runs, StoreArtifact(r)
      PROVE  Typed'
  BY <1>3 DEF StoreArtifact, TypeOK, Busy, Stages, At, Whole, saves
<1>4. ASSUME NEW r \in Runs, InsertRun(r)
      PROVE  Typed'
  <2>1. db' \in Databases
    BY <1>4 DEF InsertRun, TypeOK, Databases
  <2> QED BY <1>4, <2>1 DEF InsertRun, TypeOK, Busy, Stages, At, Whole, saves
<1> QED BY <1>1, <1>2, <1>3, <1>4

(* The disk and the restores.                                              *)
LEMMA TypedRestore ==
  ASSUME Typed, DiskLoss \/ RestoreBackup \/ RestoreNightly
  PROVE  Typed'
<1> USE DEF Typed
<1>1. CASE DiskLoss
  <2>1. TypeOK'
    BY <1>1, EmptyIsDatabase, IdleIsJob DEF DiskLoss, Fault, Reset, TypeOK, Jobs, Saved
  <2>2. Busy' /\ Stages'
    BY <1>1, IdleIsJob DEF DiskLoss, Reset, Busy, Stages, At, Whole, TypeOK, Saved
  <2> QED BY <2>1, <2>2
<1>2. CASE RestoreBackup
  <2> DEFINE dump == clone.remote.sql
             kept == UNION {Needs[f] : f \in db.schema \ dump.schema}
  <2>1. Whole(clone.remote) /\ db \in Databases
    BY <1>2 DEF RestoreBackup, Stages, TypeOK
  <2>2. db'.rows \subseteq db.rows \cup dump.rows
    BY <1>2, CopiesAreRows DEF RestoreBackup, RowsOf
  <2>3. db'.runs \subseteq db.runs \cup dump.runs
    BY <1>2, CopiesAreKnown DEF RestoreBackup
  <2>4. db' \in Databases
    BY <1>2, <2>1, <2>2, <2>3 DEF RestoreBackup, Whole, Databases
  <2>5. vault' \in SUBSET Runs
    BY <1>2, <2>1 DEF RestoreBackup, Whole, TypeOK
  <2> QED BY <1>2, <2>4, <2>5, IdleIsJob
          DEF RestoreBackup, Reset, TypeOK, Jobs, Busy, Stages, At, Whole, saves
<1>3. CASE RestoreNightly
  <2>1. nightly \in Databases /\ db \in Databases
    BY <1>3 DEF RestoreNightly, TypeOK
  <2>2. db'.rows \subseteq db.rows \cup nightly.rows
    BY <1>3, CopiesAreRows DEF RestoreNightly
  <2>3. db'.runs \subseteq db.runs \cup nightly.runs
    BY <1>3, CopiesAreKnown DEF RestoreNightly
  <2>4. db'.ledger \subseteq db.ledger \cup nightly.ledger
    BY <1>3, CopiesAreKnown DEF RestoreNightly
  <2>5. db' \in Databases
    BY <1>3, <2>1, <2>2, <2>3, <2>4 DEF RestoreNightly, Databases
  <2> QED BY <1>3, <2>5, IdleIsJob
          DEF RestoreNightly, Reset, TypeOK, Jobs, Busy, Stages, At, Whole, saves
<1> QED BY <1>1, <1>2, <1>3

(* backup.sh: the type of what a step leaves in hand and in the clone.     *)
LEMMA TypedSave ==
  ASSUME Typed, NEW b \in Backups, Save(b) \/ BackupFails(b)
  PROVE  Typed'
<1> USE DEF Typed
<1>1. UNCHANGED <<image, db, vault, job, nightly>>
  BY DEF Save, Dump, Archive, MoveSql, MoveTar, Commit, BackupFails
<1>2. Busy'
  BY <1>1 DEF Busy
<1>3. CASE Dump(b)
  <2>1. TypeOK'
    BY <1>1, <1>3 DEF Dump, Overlap, TypeOK
  <2>2. Stages'
    BY <1>1, <1>3 DEF Dump, At, TypeOK, Stages, Whole
  <2> QED BY <1>2, <2>1, <2>2
<1>4. CASE Archive(b)
  <2>1. PICK tar \in {vault, {}} :
          backup' = [backup EXCEPT ![b].at = "move", ![b].tar = tar]
    BY <1>4 DEF Archive
  <2>2. /\ faults' \in Nat
        /\ spoiled' \in BOOLEAN
        /\ tar \in SUBSET Runs
    <3>1. faults' \in Nat
      BY <1>4 DEF Archive, Fault, TypeOK
    <3>2. spoiled' \in BOOLEAN
      BY <1>4 DEF Archive, TypeOK
    <3>3. tar \in SUBSET Runs
      BY DEF TypeOK
    <3> QED BY <3>1, <3>2, <3>3
  <2>3. TypeOK'
    BY <1>1, <1>4, <2>1, <2>2 DEF Archive, TypeOK
  <2>4. Stages'
    BY <1>1, <1>4, <2>1, <2>2 DEF Archive, At, TypeOK, Stages, Whole
  <2> QED BY <1>2, <2>3, <2>4
<1>5. CASE MoveSql(b)
  <2>1. clone' = [clone EXCEPT !.tree.sql = backup[b].sql] /\ backup[b].sql \in Databases
    BY <1>5 DEF MoveSql, At, Stages
  <2>2. clone' \in [tree : Saved, remote : Saved]
    BY <2>1 DEF TypeOK, Saved
  <2>3. TypeOK'
    BY <1>1, <1>5, <2>2 DEF MoveSql, TypeOK
  <2>4. Stages'
    BY <1>1, <1>5, <2>1 DEF MoveSql, At, TypeOK, Saved, Stages, Whole
  <2> QED BY <1>2, <2>3, <2>4
<1>6. CASE MoveTar(b)
  <2>1. /\ clone' = [clone EXCEPT !.tree.tar = backup[b].tar]
        /\ backup[b].tar \in SUBSET Runs /\ clone.tree.sql \in Databases
    BY <1>6 DEF MoveTar, At, Stages
  <2>2. clone' \in [tree : Saved, remote : Saved]
    BY <2>1 DEF TypeOK, Saved
  <2>3. TypeOK'
    BY <1>1, <1>6, <2>2 DEF MoveTar, TypeOK
  <2>4. Stages'
    BY <1>1, <1>6, <2>1 DEF MoveTar, At, TypeOK, Saved, Stages, Whole
  <2> QED BY <1>2, <2>3, <2>4
<1>7. CASE Commit(b)
  BY <1>1, <1>2, <1>7 DEF Commit, At, TypeOK, Saved, Stages, Whole
<1>8. CASE BackupFails(b)
  BY <1>1, <1>2, <1>8 DEF BackupFails, Fault, At, TypeOK, Stages, Whole
<1> QED BY <1>3, <1>4, <1>5, <1>6, <1>7, <1>8 DEF Save

LEMMA TypedNext == Typed /\ [Next]_vars => Typed'
<1> SUFFICES ASSUME Typed, [Next]_vars PROVE Typed'
  OBVIOUS
<1>1. CASE UNCHANGED vars
  BY <1>1 DEF vars, saves, Typed, TypeOK, Busy, Stages, At, Whole
<1>2. CASE Next
  BY <1>2, TypedMigrate, TypedRest, TypedRestore, TypedSave DEF Next
<1> QED BY <1>1, <1>2

THEOREM TypeInvariant == Spec => []Typed
BY TypedInit, TypedNext, PTL DEF Spec

(* Every state of every behaviour has the declared types: what is dumped,  *)
(* moved, committed, pushed and restored is a database and an archive.     *)
THEOREM TypeCorrect == Spec => []TypeOK
<1>1. Typed => TypeOK
  BY DEF Typed
<1> QED BY <1>1, TypeInvariant, PTL
-----------------------------------------------------------------------------
(* Migrations                                                              *)

(* A database, or a copy of one, whose ledger holds applied files only.    *)
Applied(d) == d.ledger \subseteq d.schema

(* Every copy of a database, wherever a restore may take it from.          *)
CopiesApplied ==
  /\ Applied(db)
  /\ \A b \in Backups : ~At(b, "idle") => Applied(backup[b].sql)
  /\ clone.tree.sql # None => Applied(clone.tree.sql)
  /\ clone.remote.sql # None => Applied(clone.remote.sql)
  /\ nightly # None => Applied(nightly)

(* What migrate.py read once is still enough: whatever is not pending is   *)
(* in the ledger, and the file it records has been applied.                *)
OnTrack(p) ==
  LET j == job[p]
  IN  /\ j.at \in {"run", "record"} =>
           /\ j.pending \subseteq Releases[image].files
           /\ Releases[image].files \ j.pending \subseteq db.ledger
      /\ j.at = "record" => FirstOf(j.pending) \in db.schema

(* And the seed begins when nothing is pending, and goes from table to     *)
(* table.                                                                  *)
HasRow(d, r) == \E have \in d.rows : have.table = r.table /\ have.id = r.id

Finished(p) ==
  LET j == job[p]
  IN  /\ j.at \in {"seed", "done"} => Releases[image].files \subseteq db.ledger
      /\ j.at = "seed" =>
           \A r \in Releases[image].rows : r.table < j.table => HasRow(db, r)
      /\ j.at = "done" => \A r \in Releases[image].rows : HasRow(db, r)

Migrating == CopiesApplied /\ \A p \in Operators : OnTrack(p) /\ Finished(p)

LEMMA MigratingInit == Init => Migrating
BY DEF Init, Migrating, CopiesApplied, Applied, Empty, At, Pair, OnTrack,
       Finished, Idle

(* A database only grows unless it is lost or restored, and then every job *)
(* begins again.                                                           *)
Grows == /\ image' = image
         /\ db.schema \subseteq db'.schema /\ db.ledger \subseteq db'.ledger
         /\ db.rows \subseteq db'.rows

LEMMA GrowthKeepsJobs ==
  ASSUME Grows, NEW p \in Operators, job'[p] = job[p], OnTrack(p), Finished(p)
  PROVE  OnTrack(p)' /\ Finished(p)'
BY DEF Grows, OnTrack, Finished, HasRow

LEMMA IdleJobs ==
  ASSUME NEW p \in Operators, job'[p] = Idle
  PROVE  OnTrack(p)' /\ Finished(p)'
BY DEF OnTrack, Finished, Idle

(* Nobody's job but the operator's own is touched by a step of it.         *)
LEMMA OneJobMoves ==
  ASSUME Typed, Migrating, Grows, Applied(db)', NEW p \in Operators,
         UNCHANGED saves, \A q \in Operators \ {p} : job'[q] = job[q],
         OnTrack(p)', Finished(p)'
  PROVE  Migrating'
<1>1. \A q \in Operators : OnTrack(q)' /\ Finished(q)'
  BY GrowthKeepsJobs DEF Migrating
<1>2. CopiesApplied'
  BY DEF Migrating, CopiesApplied, At, Applied, saves
<1> QED BY <1>1, <1>2 DEF Migrating

LEMMA MigratingMigrate ==
  ASSUME Typed, Migrating, NEW p \in Operators, Migrate(p) \/ JobCrash(p)
  PROVE  Migrating'
<1> DEFINE f == FirstOf(job[p].pending)
<1>1. /\ job \in [Operators -> Jobs] /\ db \in Databases /\ job[p] \in Jobs
      /\ OnTrack(p) /\ Finished(p) /\ Applied(db)
  BY DEF Typed, TypeOK, Jobs, Migrating, CopiesApplied
<1>2. job[p].at \in {"run", "record"} => f \in job[p].pending
  BY <1>1, FirstIsLeast DEF Typed, Busy, Jobs
<1>3. UNCHANGED saves /\ \A q \in Operators \ {p} : job'[q] = job[q]
  BY <1>1 DEF Migrate, StartMigrate, Execute, Record, Seed, JobCrash, saves
<1> HIDE DEF f
<1>4. CASE job' = [job EXCEPT ![p] = Idle] /\ UNCHANGED <<image, db>>
  <2>1. OnTrack(p)' /\ Finished(p)'
    BY <1>1, <1>4, IdleJobs
  <2> QED BY <1>1, <1>3, <1>4, <2>1, OneJobMoves DEF Grows, Applied
<1>5. CASE StartMigrate(p)
  <2>1. /\ UNCHANGED <<image, db>> /\ job'[p].pending = Pending
        /\ job'[p].at = (IF Pending = {} THEN "seed" ELSE "run")
        /\ job'[p].table = 1
    BY <1>1, <1>5 DEF StartMigrate
  <2>2. OnTrack(p)'
    BY <2>1 DEF OnTrack, Pending
  <2>3. Finished(p)'
    <3>1. \A r \in Releases[image].rows : r.table \in 1..Len(Tables)
      BY ImageIsKnown DEF Typed
    <3>2. \A r \in Releases[image].rows : ~(r.table < 1)
      BY <3>1, BoundsAssumption
    <3> QED BY <2>1, <3>2 DEF Finished, Pending
  <2> QED BY <1>1, <1>3, <2>1, <2>2, <2>3, OneJobMoves DEF Grows, Applied
<1>6. CASE Execute(p) /\ Applies(f, db.schema)
  <2>1. /\ image' = image /\ db' = [db EXCEPT !.schema = @ \cup {f}]
        /\ job'[p].at = "record" /\ job'[p].pending = job[p].pending
        /\ job[p].at = "run"
    BY <1>1, <1>6 DEF Execute, Jobs, f
  <2>2. /\ db'.schema = db.schema \cup {f} /\ db'.ledger = db.ledger
        /\ db'.rows = db.rows
    BY <1>1, <2>1 DEF Databases
  <2>3. OnTrack(p)'
    BY <1>1, <2>1, <2>2 DEF OnTrack, f
  <2>4. Finished(p)'
    BY <2>1 DEF Finished
  <2> QED BY <1>1, <1>3, <2>1, <2>2, <2>3, <2>4, OneJobMoves DEF Grows, Applied
<1>7. CASE Record(p) /\ f \notin db.ledger
  <2> DEFINE rest == job[p].pending \ {f}
  <2>1. /\ image' = image /\ db' = [db EXCEPT !.ledger = @ \cup {f}]
        /\ job'[p].at = (IF rest = {} THEN "seed" ELSE "run")
        /\ job'[p].pending = rest /\ job'[p].table = 1
        /\ job[p].at = "record"
    BY <1>1, <1>7 DEF Record, f
  <2>2. /\ db'.schema = db.schema /\ db'.ledger = db.ledger \cup {f}
        /\ db'.rows = db.rows
    BY <1>1, <2>1 DEF Databases
  <2>3. Releases[image].files \ rest \subseteq db'.ledger /\ f \in db.schema
    BY <1>1, <2>1, <2>2 DEF OnTrack, f
  <2>4. OnTrack(p)'
    BY <1>1, <2>1, <2>3 DEF OnTrack
  <2>5. Finished(p)'
    <3>1. \A r \in Releases[image].rows : r.table \in 1..Len(Tables)
      BY ImageIsKnown DEF Typed
    <3>2. \A r \in Releases[image].rows : ~(r.table < 1)
      BY <3>1, BoundsAssumption
    <3> QED BY <2>1, <2>3, <3>2 DEF Finished
  <2>6. Grows /\ Applied(db)'
    BY <1>1, <2>1, <2>2, <2>3 DEF Grows, Applied
  <2> QED BY <1>3, <2>4, <2>5, <2>6, OneJobMoves
<1>8. CASE Seed(p) /\ Tables[job[p].table] \in db.schema
  <2> DEFINE t == job[p].table
  <2>1. /\ image' = image /\ db' = [db EXCEPT !.rows = Seeded(@, t)]
        /\ job'[p].at = (IF t = Len(Tables) THEN "done" ELSE "seed")
        /\ job'[p].table = (IF t = Len(Tables) THEN 1 ELSE t + 1)
        /\ job[p].at = "seed"
    <3> DEFINE j == [job[p] EXCEPT !.at = IF t = Len(Tables) THEN "done" ELSE "seed",
                                   !.table = IF t = Len(Tables) THEN 1 ELSE t + 1]
    <3>1. image' = image /\ db' = [db EXCEPT !.rows = Seeded(@, t)] /\ job[p].at = "seed"
      BY <1>8 DEF Seed
    <3>2. job'[p] = j
      BY <1>1, <1>8 DEF Seed
    <3>3. /\ j.at = (IF t = Len(Tables) THEN "done" ELSE "seed")
          /\ j.table = (IF t = Len(Tables) THEN 1 ELSE t + 1)
      BY <1>1 DEF Jobs
    <3> HIDE DEF j
    <3> QED BY <3>1, <3>2, <3>3
  <2>2. /\ db'.schema = db.schema /\ db'.ledger = db.ledger
        /\ db'.rows = Seeded(db.rows, t)
    BY <1>1, <2>1 DEF Databases
  <2>3. db.rows \subseteq db'.rows
    BY <2>2, SeedingAdds DEF Typed
  <2>4. \A r \in Releases[image].rows : r.table = t => HasRow(db, r)'
    BY <2>1, <2>2 DEF HasRow, Seeded, RowsOf
  <2>5. \A r \in Releases[image].rows : r.table < t => HasRow(db, r)'
    BY <1>1, <2>1, <2>3 DEF Finished, HasRow
  <2>6. \A r \in Releases[image].rows : r.table \in 1..Len(Tables)
    BY ImageIsKnown DEF Typed
  <2>7. t \in 1..Len(Tables) /\ Len(Tables) \in Nat
    BY <1>1, BoundsAssumption DEF Jobs
  <2>8. Finished(p)'
    <3>1. CASE t = Len(Tables)
      <4>1. \A r \in Releases[image].rows : r.table < t \/ r.table = t
        BY <2>6, <2>7, <3>1
      <4> QED BY <1>1, <2>1, <2>2, <2>4, <2>5, <3>1, <4>1 DEF Finished
    <3>2. CASE t # Len(Tables)
      <4>1. \A r \in Releases[image].rows :
              r.table < t + 1 => r.table < t \/ r.table = t
        BY <2>6, <2>7
      <4> QED BY <1>1, <2>1, <2>2, <2>4, <2>5, <3>2, <4>1 DEF Finished
    <3> QED BY <3>1, <3>2
  <2>9. OnTrack(p)'
    BY <2>1 DEF OnTrack
  <2>10. Grows /\ Applied(db)'
    BY <1>1, <2>1, <2>2, <2>3 DEF Grows, Applied
  <2> QED BY <1>3, <2>8, <2>9, <2>10, OneJobMoves
<1>9. CASE Execute(p) /\ ~Applies(f, db.schema)
  BY <1>4, <1>9 DEF Execute, f
<1>10. CASE Record(p) /\ f \in db.ledger
  BY <1>4, <1>10 DEF Record, f
<1>11. CASE Seed(p) /\ Tables[job[p].table] \notin db.schema
  BY <1>4, <1>11 DEF Seed
<1>12. CASE JobCrash(p)
  BY <1>4, <1>12 DEF JobCrash
<1> QED BY <1>5, <1>6, <1>7, <1>8, <1>9, <1>10, <1>11, <1>12 DEF Migrate

(* A new image, a lost disk or a restore puts every job back; what is      *)
(* restored was applied where it was dumped.                               *)
LEMMA MigratingReset ==
  ASSUME Typed, Migrating, Deploy \/ DiskLoss \/ RestoreBackup \/ RestoreNightly
  PROVE  Migrating'
<1>1. \A p \in Operators : job'[p] = Idle
  BY DEF Deploy, DiskLoss, RestoreBackup, RestoreNightly, Reset
<1>2. \A p \in Operators : OnTrack(p)' /\ Finished(p)'
  BY <1>1, IdleJobs
<1>3. CASE Deploy
  BY <1>2, <1>3 DEF Deploy, Migrating, CopiesApplied, Applied, At, saves
<1>4. CASE DiskLoss
  <2>1. Applied(Empty)
    BY DEF Applied, Empty
  <2>2. /\ db' = Empty /\ nightly' = None
        /\ clone'.tree = clone.remote /\ clone'.remote = clone.remote
        /\ \A b \in Backups : backup'[b].at = "idle"
    BY <1>4 DEF DiskLoss, Typed, TypeOK
  <2>3. CopiesApplied'
    BY <2>1, <2>2 DEF Migrating, CopiesApplied, At
  <2> QED BY <1>2, <2>3 DEF Migrating
<1>5. CASE RestoreBackup
  <2>1. Applied(clone.remote.sql)
    BY <1>5 DEF RestoreBackup, Migrating, CopiesApplied
  <2>2. Applied(db)'
    BY <1>5, <2>1 DEF RestoreBackup, Applied
  <2>3. CopiesApplied'
    BY <1>5, <2>2 DEF RestoreBackup, Migrating, CopiesApplied, Applied, At, saves
  <2> QED BY <1>2, <2>3 DEF Migrating
<1>6. CASE RestoreNightly
  <2>1. Applied(nightly) /\ Applied(db)
    BY <1>6 DEF RestoreNightly, Migrating, CopiesApplied
  <2>2. Applied(db)'
    BY <1>6, <2>1, CopiesAreKnown DEF RestoreNightly, Applied
  <2>3. CopiesApplied'
    BY <1>6, <2>2 DEF RestoreNightly, Migrating, CopiesApplied, Applied, At, saves
  <2> QED BY <1>2, <2>3 DEF Migrating
<1> QED BY <1>3, <1>4, <1>5, <1>6

(* Uploads and copies leave the jobs alone.                                *)
LEMMA MigratingRest ==
  ASSUME Typed, Migrating,
         \/ UNCHANGED vars \/ NightlyDump
         \/ \E r \in Runs : StoreArtifact(r) \/ InsertRun(r)
         \/ \E b \in Backups : Save(b) \/ BackupFails(b)
  PROVE  Migrating'
<1>1. /\ UNCHANGED <<image, job>> /\ db'.schema = db.schema
      /\ db'.ledger = db.ledger /\ db'.rows = db.rows
  BY DEF vars, NightlyDump, StoreArtifact, InsertRun, Save, Dump, Archive,
         MoveSql, MoveTar, Commit, BackupFails, Typed, TypeOK, Databases
<1>2. \A p \in Operators : OnTrack(p)' /\ Finished(p)'
  BY <1>1, GrowthKeepsJobs DEF Grows, Migrating
<1>3. Applied(db)'
  BY <1>1 DEF Migrating, CopiesApplied, Applied
<1>4. CASE UNCHANGED saves
  BY <1>2, <1>3, <1>4 DEF Migrating, CopiesApplied, Applied, At, saves
<1>5. CASE NightlyDump
  BY <1>2, <1>3, <1>5 DEF NightlyDump, Migrating, CopiesApplied, Applied, At
<1>6. ASSUME NEW b \in Backups, Save(b) \/ BackupFails(b)
      PROVE  CopiesApplied'
  <2> USE <1>3 DEF Migrating, CopiesApplied, Typed
  <2>1. CASE Dump(b)
    BY <2>1 DEF Dump, Applied, At, TypeOK
  <2>2. CASE Archive(b)
    BY <2>2 DEF Archive, Applied, At, TypeOK
  <2>3. CASE MoveSql(b)
    <3>1. /\ clone'.tree.sql = backup[b].sql /\ clone'.remote = clone.remote
          /\ Applied(backup[b].sql)
      BY <2>3 DEF MoveSql, At, TypeOK, Saved
    <3>2. \A c \in Backups : ~At(c, "idle")' =>
            ~At(c, "idle") /\ backup'[c].sql = backup[c].sql
      BY <2>3 DEF MoveSql, At, TypeOK
    <3> QED BY <2>3, <3>1, <3>2 DEF MoveSql
  <2>4. CASE MoveTar(b)
    <3>1. clone'.tree.sql = clone.tree.sql /\ clone'.remote = clone.remote
      BY <2>4 DEF MoveTar, TypeOK, Saved
    <3>2. \A c \in Backups : ~At(c, "idle")' =>
            ~At(c, "idle") /\ backup'[c].sql = backup[c].sql
      BY <2>4 DEF MoveTar, At, TypeOK
    <3> QED BY <2>4, <3>1, <3>2 DEF MoveTar
  <2>5. CASE Commit(b)
    <3>1. clone'.tree = clone.tree /\ clone'.remote = clone.tree
      BY <2>5 DEF Commit, TypeOK
    <3>2. \A c \in Backups : ~At(c, "idle")' =>
            ~At(c, "idle") /\ backup'[c].sql = backup[c].sql
      BY <2>5 DEF Commit, At, TypeOK
    <3> QED BY <2>5, <3>1, <3>2 DEF Commit
  <2>6. CASE BackupFails(b)
    BY <2>6 DEF BackupFails, Applied, At, TypeOK
  <2> QED BY <1>6, <2>1, <2>2, <2>3, <2>4, <2>5, <2>6 DEF Save
<1> QED BY <1>2, <1>4, <1>5, <1>6 DEF vars, saves, StoreArtifact, InsertRun, Migrating

LEMMA MigratingNext == Typed /\ Migrating /\ [Next]_vars => Migrating'
<1> SUFFICES ASSUME Typed, Migrating, [Next]_vars PROVE Migrating'
  OBVIOUS
<1> QED BY MigratingMigrate, MigratingReset, MigratingRest DEF Next

THEOREM MigrationInvariant == Spec => []Migrating
BY TypeInvariant, MigratingInit, MigratingNext, PTL DEF Spec

(* The ledger never names a file that was not applied, and the order of    *)
(* the names is enough for any number of operators, crashes, releases and  *)
(* restores: what a file refers to is there when it is executed.           *)
THEOREM OrderIsEnough == Spec => []MigrationsInOrder
<1>1. ASSUME Typed, Migrating
      PROVE  MigrationsInOrder
  <2>1. Applied(db)
    BY <1>1 DEF Migrating, CopiesApplied
  <2>2. ASSUME NEW p \in Operators, job[p].at = "run"
        PROVE  Needs[FirstOf(job[p].pending)] \subseteq db.schema
    <3> DEFINE f == FirstOf(job[p].pending)
               files == Releases[image].files
    <3>1. job[p].pending \in SUBSET Files /\ job[p].pending # {}
      BY <1>1, <2>2 DEF Typed, TypeOK, Busy
    <3>2. f \in job[p].pending /\ \A g \in job[p].pending : f <= g
      BY <3>1, FirstIsLeast
    <3>3. job[p].pending \subseteq files /\ files \ job[p].pending \subseteq db.ledger
      BY <1>1, <2>2 DEF Migrating, OnTrack
    <3>4. Needs[f] \subseteq {g \in files : g < f}
      BY <1>1, <3>2, <3>3, ReleasesAssumption DEF Typed, TypeOK
    <3>5. \A g \in Needs[f] : g \in Nat /\ f \in Nat /\ g < f /\ g \in files
      BY <3>1, <3>2, <3>4, <1>1, ImageIsKnown, FilesAssumption DEF Typed
    <3>6. \A g \in Needs[f] : g \notin job[p].pending
      BY <3>2, <3>5
    <3> QED BY <2>1, <3>3, <3>5, <3>6 DEF Applied
  <2> QED BY <2>1, <2>2 DEF Applied, MigrationsInOrder
<1> QED BY <1>1, TypeInvariant, MigrationInvariant, PTL

(* A make prod-migrate that ended well means that the database is the one  *)
(* of the image, whatever other operators did before, meanwhile and after. *)
THEOREM DoneStaysCurrent == Spec => []DoneIsCurrent
<1>1. Migrating => DoneIsCurrent
  BY DEF Migrating, CopiesApplied, Applied, Finished, HasRow, DoneIsCurrent
<1> QED BY <1>1, MigrationInvariant, PTL

-----------------------------------------------------------------------------
(* Evidence                                                                *)

(* Unless it is spoiled: at most one backup is under way, and what it has  *)
(* in hand, what it has moved and what it pushed holds an artifact for     *)
(* every run, because runs are dumped first and artifacts are only added.  *)
Lone == \A b, c \in Backups : ~At(b, "idle") /\ ~At(c, "idle") => b = c

InHand(b) ==
  /\ At(b, "archive") => backup[b].sql.runs \subseteq vault
  /\ backup[b].at \in {"move", "tar", "commit"} =>
       backup[b].sql.runs \subseteq backup[b].tar
  /\ At(b, "tar") => clone.tree.sql = backup[b].sql
  /\ At(b, "commit") => clone.tree = Pair(backup[b].sql, backup[b].tar)

Kept ==
  \/ spoiled
  \/ /\ db.runs \subseteq vault
     /\ nightly # None => nightly.runs \subseteq vault
     /\ clone.remote.sql # None => clone.remote.sql.runs \subseteq clone.remote.tar
     /\ Lone /\ \A b \in Backups : InHand(b)

LEMMA KeptInit == Init => Kept
BY DEF Init, Kept, Lone, InHand, At, Empty, Pair

(* A step outside backup.sh.                                               *)
LEMMA KeptAside ==
  ASSUME Kept, ~spoiled, backup' = backup, clone' = clone,
         vault \subseteq vault', db'.runs \subseteq vault',
         nightly' = None \/ nightly'.runs \subseteq vault'
  PROVE  Kept'
BY DEF Kept, Lone, InHand, At

LEMMA KeptRest ==
  ASSUME Typed, Kept,
         \/ UNCHANGED vars \/ Deploy \/ NightlyDump \/ RestoreBackup \/ RestoreNightly
         \/ \E p \in Operators : Migrate(p) \/ JobCrash(p)
         \/ \E r \in Runs : StoreArtifact(r) \/ InsertRun(r)
  PROVE  Kept'
<1>1. CASE spoiled
  BY <1>1 DEF Kept, vars, Deploy, NightlyDump, RestoreBackup, RestoreNightly,
     Migrate, StartMigrate, Execute, Record, Seed, JobCrash, StoreArtifact, InsertRun
<1> SUFFICES ASSUME ~spoiled
             PROVE  Kept'
  BY <1>1
<1>2. /\ db.runs \subseteq vault
      /\ nightly # None => nightly.runs \subseteq vault
      /\ clone.remote.sql # None => clone.remote.sql.runs \subseteq clone.remote.tar
      /\ db \in Databases
  BY DEF Kept, Typed, TypeOK
<1>3. CASE UNCHANGED vars \/ Deploy
  BY <1>2, <1>3, KeptAside DEF vars, saves, Deploy
<1>4. CASE NightlyDump
  BY <1>2, <1>4, KeptAside DEF NightlyDump
<1>5. CASE RestoreBackup
  <2>1. vault' = vault \cup clone.remote.tar /\ UNCHANGED <<saves, spoiled>>
    BY <1>5 DEF RestoreBackup
  <2>2. db'.runs \subseteq db.runs \cup clone.remote.sql.runs /\ clone.remote.sql # None
    BY <1>5, CopiesAreKnown DEF RestoreBackup
  <2> QED BY <1>2, <2>1, <2>2, KeptAside DEF saves
<1>6. CASE RestoreNightly
  <2>1. db'.runs \subseteq db.runs \cup nightly.runs /\ nightly # None
    BY <1>6, CopiesAreKnown DEF RestoreNightly
  <2> QED BY <1>2, <1>6, <2>1, KeptAside DEF RestoreNightly, saves
<1>7. ASSUME NEW p \in Operators, Migrate(p) \/ JobCrash(p)
      PROVE  Kept'
  <2>1. db'.runs = db.runs /\ UNCHANGED <<vault, saves, spoiled>>
    BY <1>2, <1>7 DEF Migrate, StartMigrate, Execute, Record, Seed, JobCrash, Databases
  <2> QED BY <1>2, <2>1, KeptAside DEF saves
<1>8. ASSUME NEW r \in Runs, StoreArtifact(r) \/ InsertRun(r)
      PROVE  Kept'
  <2>1. /\ db'.runs \subseteq db.runs \cup {x \in {r} : r \in vault}
        /\ vault \subseteq vault' /\ UNCHANGED <<saves, spoiled>>
    BY <1>2, <1>8 DEF StoreArtifact, InsertRun, Databases
  <2> QED BY <1>2, <2>1, KeptAside DEF saves
<1> QED BY <1>3, <1>4, <1>5, <1>6, <1>7, <1>8

(* backup.sh and the loss of the disk.                                     *)
LEMMA KeptSave ==
  ASSUME Typed, Kept, NEW b \in Backups, Save(b) \/ BackupFails(b)
  PROVE  Kept'
<1>1. CASE spoiled
  BY <1>1 DEF Kept, Save, Dump, Archive, MoveSql, MoveTar, Commit, BackupFails
<1>2. CASE spoiled'
  BY <1>2 DEF Kept
<1> SUFFICES ASSUME ~spoiled, ~spoiled'
             PROVE  Kept'
  BY <1>1, <1>2
<1>3. /\ db.runs \subseteq vault
      /\ nightly # None => nightly.runs \subseteq vault
      /\ clone.remote.sql # None => clone.remote.sql.runs \subseteq clone.remote.tar
      /\ Lone /\ \A c \in Backups : InHand(c)
      /\ UNCHANGED <<db, vault, nightly>>
  BY DEF Kept, Save, Dump, Archive, MoveSql, MoveTar, Commit, BackupFails
<1>4. \A c \in Backups \ {b} : At(c, "idle") /\ At(c, "idle")'
  <2>1. \A c \in Backups \ {b} : At(c, "idle")
    <3>1. CASE Dump(b)
      <4>1. ~Overlap(b)
        BY <3>1 DEF Dump
      <4> QED BY <4>1 DEF Overlap
    <3>2. CASE ~Dump(b)
      <4>1. \/ ~At(b, "idle") \/ At(b, "archive") \/ At(b, "move")
            \/ At(b, "tar") \/ At(b, "commit")
        BY <3>2 DEF Save, Archive, MoveSql, MoveTar, Commit, BackupFails
      <4>2. ~At(b, "idle")
        BY <4>1 DEF At
      <4> QED BY <1>3, <4>2 DEF Lone
    <3> QED BY <3>1, <3>2
  <2>2. \A c \in Backups \ {b} : backup'[c] = backup[c]
    <3>1. \/ \E new : backup' = [backup EXCEPT ![b] = new]
          \/ \E at : backup' = [backup EXCEPT ![b].at = at]
          \/ \E at, tar : backup' = [backup EXCEPT ![b].at = at, ![b].tar = tar]
      <4>1. CASE Dump(b) \/ Commit(b) \/ BackupFails(b)
        BY <4>1 DEF Dump, Commit, BackupFails
      <4>2. CASE MoveSql(b) \/ MoveTar(b)
        BY <4>2 DEF MoveSql, MoveTar
      <4>3. CASE Archive(b)
        BY <4>3 DEF Archive
      <4> QED BY <4>1, <4>2, <4>3 DEF Save
    <3> QED BY <3>1 DEF Typed, TypeOK
  <2> QED BY <2>1, <2>2 DEF At
<1>5. Lone'
  BY <1>4 DEF Lone
<1>6. \A c \in Backups \ {b} : InHand(c)'
  BY <1>4 DEF InHand, At
<1>7. SUFFICES /\ InHand(b)'
               /\ clone'.remote.sql # None => clone'.remote.sql.runs \subseteq clone'.remote.tar
  BY <1>3, <1>5, <1>6 DEF Kept
<1> USE DEF Typed
<1>8. CASE Dump(b)
  <2>1. /\ backup'[b].at = "archive" /\ backup'[b].sql = db /\ clone' = clone
    BY <1>8 DEF Dump, TypeOK
  <2> QED BY <1>3, <2>1 DEF InHand, At
<1>9. CASE Archive(b)
  <2>1. /\ backup[b].at = "archive" /\ backup'[b].at = "move"
        /\ backup'[b].sql = backup[b].sql /\ backup'[b].tar = vault
        /\ clone' = clone
    BY <1>9 DEF Archive, At, TypeOK
  <2> QED BY <1>3, <2>1 DEF InHand, At
<1>10. CASE MoveSql(b)
  BY <1>3, <1>10 DEF MoveSql, InHand, At, TypeOK, Saved
<1>11. CASE MoveTar(b)
  BY <1>3, <1>11 DEF MoveTar, InHand, At, TypeOK, Saved, Pair
<1>12. CASE Commit(b)
  BY <1>3, <1>12 DEF Commit, InHand, At, TypeOK, Saved, Pair
<1>13. CASE BackupFails(b)
  BY <1>3, <1>13 DEF BackupFails, InHand, At, TypeOK
<1> QED BY <1>8, <1>9, <1>10, <1>11, <1>12, <1>13 DEF Save

LEMMA KeptLoss == ASSUME Typed, Kept, DiskLoss PROVE Kept'
<1>1. /\ db'.runs = {} /\ nightly' = None /\ spoiled' = spoiled
      /\ clone'.remote = clone.remote
      /\ \A b \in Backups : backup'[b].at = "idle"
  BY DEF DiskLoss, Empty, Typed, TypeOK
<1> QED BY <1>1 DEF Kept, Lone, InHand, At

THEOREM EvidenceInvariant == Spec => []Kept
<1>1. Typed /\ Kept /\ [Next]_vars => Kept'
  BY KeptRest, KeptSave, KeptLoss DEF Next
<1> QED BY <1>1, TypeInvariant, KeptInit, PTL DEF Spec

(* Every run has its artifact, in production and in what was pushed, for   *)
(* any interleaving of uploads, backups, losses and restores, unless tar   *)
(* failed or two backups overlapped.                                       *)
THEOREM EvidenceIsKept == Spec => []EvidenceSurvives
<1>1. Kept => EvidenceSurvives
  BY DEF Kept, EvidenceSurvives
<1> QED BY <1>1, EvidenceInvariant, PTL
===============================================================================
