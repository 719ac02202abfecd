----------------------------- MODULE Deployment -----------------------------
(***************************************************************************)
(* What keeps the production database and the evidence beside it: new      *)
(* images (make prod-up), migrations and seed run inside the api container *)
(* (make prod-migrate: migrate.py, then load_seed.py), the off-host backup *)
(* (deploy/backup.sh), the nightly dump (backup-db.sh) and the two ways to *)
(* restore.                                                                *)
(*                                                                         *)
(* A migration file is a number, in the lexicographic order of the names;  *)
(* schema is the set of files whose DDL has committed, ledger the set of   *)
(* those recorded in meta.schema_migrations.  A catalog row is [table, id, *)
(* version], where table is its position in TABLES of load_seed.py.        *)
(***************************************************************************)
EXTENDS Naturals, Sequences

CONSTANTS
  Files,                  \* migration files of any release
  Needs,                  \* of a file: the files whose objects it refers to
  Rerunnable,             \* files written with IF NOT EXISTS throughout
  Releases,               \* images in order: [files, rows, insert]
  Tables,                 \* for each table of TABLES the file that makes it
  RunFile,                \* the file that makes benchmark_run
  Runs,                   \* uploads, each with its artifact
  Operators, Backups,     \* people running prod-migrate, runs of backup.sh
  None,
  MaxFaults, MaxBackups   \* bounds: failures, dumps taken

ASSUME FilesAssumption == Files \subseteq Nat /\ Needs \in [Files -> SUBSET Files]

\* A file refers to files with a lower name that ship in the same image.
ASSUME ReleasesAssumption ==
  \A i \in 1..Len(Releases) :
    /\ Releases[i].files \subseteq Files
    /\ \A f \in Releases[i].files :
         Needs[f] \subseteq {g \in Releases[i].files : g < f}
    /\ \A r \in Releases[i].rows : r.table \in 1..Len(Tables)

ASSUME BoundsAssumption ==
  /\ Rerunnable \subseteq Files /\ RunFile \in Files
  /\ Len(Releases) \in Nat \ {0} /\ Len(Tables) \in Nat \ {0}
  /\ MaxFaults \in Nat /\ MaxBackups \in Nat

VARIABLES
  image,      \* the release the containers run
  db,         \* [schema, ledger, rows, runs]: the postgres volume
  vault,      \* runs whose artifact is in the artifacts volume
  job,        \* of an operator: [at, pending, table]
  backup,     \* of a backup.sh: [at, sql, tar]
  clone,      \* of bestmodel-backups: [tree, remote], each [sql, tar]
  nightly,    \* the newest dump of backup-db.sh
  faults, begun,
  spoiled     \* history: evidence was lost in one of the ways named below

saves == <<backup, clone, nightly, begun>>
vars  == <<image, db, vault, job, backup, clone, nightly, faults, begun, spoiled>>

Empty == [schema |-> {}, ledger |-> {}, rows |-> {}, runs |-> {}]
Idle == [at |-> "idle", pending |-> {}, table |-> 1]
Pair(sql, tar) == [sql |-> sql, tar |-> tar]

Running == {"run", "record", "seed"}
Working(p) == job[p].at \in Running

Init ==
  /\ image = 1 /\ db = Empty /\ vault = {}
  /\ job = [p \in Operators |-> Idle]
  /\ backup = [b \in Backups |-> [at |-> "idle", sql |-> None, tar |-> None]]
  /\ clone = [tree |-> Pair(None, None), remote |-> Pair(None, None)]
  /\ nightly = None /\ faults = 0 /\ begun = 0 /\ spoiled = FALSE

Fault == faults < MaxFaults /\ faults' = faults + 1
-----------------------------------------------------------------------------
(* make prod-up and make prod-migrate                                      *)

\* What was done is done for one image and one database, and what was being
\* executed inside the api container is killed with it.  A command that failed
\* leaves nothing behind but the database: the operator may start again.
Reset == [p \in Operators |-> Idle]

Deploy ==
  /\ image < Len(Releases)
  /\ image' = image + 1
  /\ job' = Reset
  /\ UNCHANGED <<db, vault, saves, faults, spoiled>>

PendingAfterLast ==                \* mutant: the highest version counts
  {f \in Releases[image].files : \A g \in db.ledger : g < f}

Pending == Releases[image].files \ db.ledger

\* The ledger is read once, before the first file.
StartMigrate(p) ==
  LET pending == Pending
  IN  /\ ~Working(p)
      /\ job' = [job EXCEPT ![p] =
           [at |-> IF pending = {} THEN "seed" ELSE "run",
            pending |-> pending, table |-> 1]]
      /\ UNCHANGED <<image, db, vault, saves, faults, spoiled>>

LastOf(files) ==                   \* mutant: the order is reversed
  CHOOSE f \in files : \A g \in files : g <= f

FirstOf(files) == CHOOSE f \in files : \A g \in files : f <= g

Applies(f, schema) ==
  Needs[f] \subseteq schema /\ (f \notin schema \/ f \in Rerunnable)

\* BEGIN ... COMMIT of the file itself: it commits as a whole or raises.
Execute(p) ==
  LET f == FirstOf(job[p].pending)
  IN  /\ job[p].at = "run"
      /\ IF Applies(f, db.schema)
         THEN /\ db' = [db EXCEPT !.schema = @ \cup {f}]
              /\ job' = [job EXCEPT ![p].at = "record"]
         ELSE UNCHANGED db /\ job' = [job EXCEPT ![p] = Idle]
      /\ UNCHANGED <<image, vault, saves, faults, spoiled>>

\* Its own transaction; filename is the primary key.
Record(p) ==
  LET f    == FirstOf(job[p].pending)
      rest == job[p].pending \ {f}
  IN  /\ job[p].at = "record"
      /\ IF f \in db.ledger
         THEN UNCHANGED db /\ job' = [job EXCEPT ![p] = Idle]
         ELSE /\ db' = [db EXCEPT !.ledger = @ \cup {f}]
              /\ job' = [job EXCEPT ![p] =
                   [at |-> IF rest = {} THEN "seed" ELSE "run",
                    pending |-> rest, table |-> 1]]
      /\ UNCHANGED <<image, vault, saves, faults, spoiled>>

RowsOf(rows, t) == {r \in rows : r.table = t}

\* INSERT ... ON CONFLICT (id) DO NOTHING, one connection for each table.
Seeded(rows, t) ==
  rows \cup {r \in RowsOf(Releases[image].rows, t) :
               ~ \E old \in RowsOf(rows, t) : old.id = r.id}

Seed(p) ==
  LET t == job[p].table
  IN  /\ job[p].at = "seed"
      /\ IF Tables[t] \in db.schema
         THEN /\ db' = [db EXCEPT !.rows = Seeded(@, t)]
              /\ job' = [job EXCEPT ![p] =
                   [@ EXCEPT !.at = IF t = Len(Tables) THEN "done" ELSE "seed",
                             !.table = IF t = Len(Tables) THEN 1 ELSE t + 1]]
         ELSE UNCHANGED db /\ job' = [job EXCEPT ![p] = Idle]
      /\ UNCHANGED <<image, vault, saves, faults, spoiled>>

\* A lost connection or a killed process, between two statements.
JobCrash(p) ==
  /\ Working(p) /\ Fault
  /\ job' = [job EXCEPT ![p] = Idle]
  /\ UNCHANGED <<image, db, vault, saves, spoiled>>
-----------------------------------------------------------------------------
(* Uploads, as far as the backup can tell                                  *)

StoreArtifact(r) ==
  /\ r \notin vault
  /\ vault' = vault \cup {r}
  /\ UNCHANGED <<image, db, job, saves, faults, spoiled>>

\* The INSERT of the running image names columns of the files it counts on.
InsertRun(r) ==
  /\ r \in vault /\ r \notin db.runs
  /\ Releases[image].insert \subseteq db.schema
  /\ db' = [db EXCEPT !.runs = @ \cup {r}]
  /\ UNCHANGED <<image, vault, job, saves, faults, spoiled>>
-----------------------------------------------------------------------------
(* deploy/backup.sh                                                        *)

At(b, step) == backup[b].at = step

Overlap(b) == \E c \in Backups \ {b} : ~At(c, "idle")

\* pg_dump is one snapshot; a dump without a table is refused.
Dump(b) ==
  /\ At(b, "idle") /\ begun < MaxBackups /\ db.schema # {}
  /\ begun' = begun + 1
  /\ backup' = [backup EXCEPT ![b] = [at |-> "archive", sql |-> db, tar |-> None]]
  /\ spoiled' = (spoiled \/ Overlap(b))
  /\ UNCHANGED <<image, db, vault, job, clone, nightly, faults>>

\* tar ... || : > artifacts.tar.gz leaves an empty file when tar fails.
Archive(b) ==
  /\ At(b, "archive")
  /\ \/ /\ backup' = [backup EXCEPT ![b].at = "move", ![b].tar = vault]
        /\ UNCHANGED <<faults, spoiled>>
     \/ /\ backup' = [backup EXCEPT ![b].at = "move", ![b].tar = {}]
        /\ Fault /\ spoiled' = TRUE
  /\ UNCHANGED <<image, db, vault, job, clone, nightly, begun>>

MoveSql(b) ==
  /\ At(b, "move")
  /\ clone' = [clone EXCEPT !.tree.sql = backup[b].sql]
  /\ backup' = [backup EXCEPT ![b].at = "tar"]
  /\ UNCHANGED <<image, db, vault, job, nightly, faults, begun, spoiled>>

MoveTarOnce(b) ==                 \* mutant: an archive that exists stays
  /\ At(b, "tar")
  /\ clone' = [clone EXCEPT !.tree.tar = IF @ = None THEN backup[b].tar ELSE @]
  /\ backup' = [backup EXCEPT ![b].at = "commit"]
  /\ UNCHANGED <<image, db, vault, job, nightly, faults, begun, spoiled>>

MoveTar(b) ==
  /\ At(b, "tar")
  /\ clone' = [clone EXCEPT !.tree.tar = backup[b].tar]
  /\ backup' = [backup EXCEPT ![b].at = "commit"]
  /\ UNCHANGED <<image, db, vault, job, nightly, faults, begun, spoiled>>

\* git add -A takes the work tree as it is.  The stamp in README.md makes every
\* commit a new one, so a commit that could not be pushed goes with the next.
Commit(b) ==
  /\ At(b, "commit")
  /\ clone' = [clone EXCEPT !.remote = clone.tree]
  /\ backup' = [backup EXCEPT ![b] = [at |-> "idle", sql |-> None, tar |-> None]]
  /\ UNCHANGED <<image, db, vault, job, nightly, faults, begun, spoiled>>

\* set -e: a failed step, a dump without its end marker, a killed unit.
BackupFails(b) ==
  /\ ~At(b, "idle") /\ Fault
  /\ backup' = [backup EXCEPT ![b] = [at |-> "idle", sql |-> None, tar |-> None]]
  /\ UNCHANGED <<image, db, vault, job, clone, nightly, begun, spoiled>>

\* backup-db.sh, on the disk of the host.
NightlyDump ==
  /\ begun < MaxBackups /\ nightly # db
  /\ begun' = begun + 1 /\ nightly' = db
  /\ UNCHANGED <<image, db, vault, job, backup, clone, faults, spoiled>>
-----------------------------------------------------------------------------
(* Losing the disk, and restoring                                          *)

\* Only what was pushed survives.
DiskLoss ==
  /\ Fault
  /\ db' = Empty /\ vault' = {} /\ nightly' = None
  /\ clone' = [clone EXCEPT !.tree = clone.remote]
  /\ job' = Reset
  /\ backup' = [b \in Backups |-> [at |-> "idle", sql |-> None, tar |-> None]]
  /\ UNCHANGED <<image, begun, spoiled>>

\* COPY into a table is refused as a whole for one key that is there already.
Copied(old, new) == IF old \cap new = {} THEN old \cup new ELSE old

CopiedRows(old, new, t) ==
  IF \E r \in RowsOf(old, t), x \in RowsOf(new, t) : r.id = x.id
  THEN RowsOf(old, t) ELSE RowsOf(old, t) \cup RowsOf(new, t)

\* The backup's README: a dump with --clean --if-exists and the archive.  An
\* object that a newer migration refers to is not dropped and is copied into.
RestoreBackup ==
  LET dump == clone.remote.sql
      kept == UNION {Needs[f] : f \in db.schema \ dump.schema}
  IN  /\ dump # None /\ \A p \in Operators : ~Working(p)
      /\ db' = [schema |-> db.schema \cup dump.schema,
                ledger |-> dump.ledger,
                rows   |-> UNION {IF Tables[t] \in kept
                                  THEN CopiedRows(db.rows, dump.rows, t)
                                  ELSE RowsOf(dump.rows, t) : t \in 1..Len(Tables)},
                runs   |-> IF RunFile \in kept THEN Copied(db.runs, dump.runs)
                           ELSE dump.runs]
      /\ vault' = vault \cup clone.remote.tar
      /\ job' = Reset
      /\ UNCHANGED <<image, saves, faults, spoiled>>

\* restore-db.sh: a dump without --clean.  The rows of benchmark_run come
\* before those they refer to, so an existing table may refuse them anyway.
RestoreNightly ==
  /\ nightly # None /\ \A p \in Operators : ~Working(p)
  /\ \E runs \in {db.runs, Copied(db.runs, nightly.runs)} :
       db' = [schema |-> db.schema \cup nightly.schema,
              ledger |-> Copied(db.ledger, nightly.ledger),
              rows   |-> UNION {CopiedRows(db.rows, nightly.rows, t) :
                                  t \in 1..Len(Tables)},
              runs   |-> runs]
  /\ job' = Reset
  /\ UNCHANGED <<image, vault, saves, faults, spoiled>>
-----------------------------------------------------------------------------
Migrate(p) == StartMigrate(p) \/ Execute(p) \/ Record(p) \/ Seed(p)

Save(b) == Dump(b) \/ Archive(b) \/ MoveSql(b) \/ MoveTar(b) \/ Commit(b)

Next ==
  \/ Deploy \/ DiskLoss \/ RestoreBackup \/ RestoreNightly \/ NightlyDump
  \/ \E p \in Operators : Migrate(p) \/ JobCrash(p)
  \/ \E b \in Backups : Save(b) \/ BackupFails(b)
  \/ \E r \in Runs : StoreArtifact(r) \/ InsertRun(r)

Spec == Init /\ [][Next]_vars
-----------------------------------------------------------------------------
(* Properties                                                              *)

CatalogRows == UNION {Releases[i].rows : i \in 1..Len(Releases)}

Databases == [schema : SUBSET Files, ledger : SUBSET Files,
              rows : SUBSET CatalogRows, runs : SUBSET Runs]

Saved == [sql : Databases \cup {None}, tar : (SUBSET Runs) \cup {None}]

\* What is dumped, moved, committed and pushed was the database once.
TypeOK ==
  /\ image \in 1..Len(Releases) /\ db \in Databases /\ vault \in SUBSET Runs
  /\ job \in [Operators -> [at : {"idle", "run", "record", "seed", "done"},
                             pending : SUBSET Files, table : 1..Len(Tables)]]
  /\ backup \in [Backups -> [at : {"idle", "archive", "move", "tar", "commit"},
                              sql : Databases \cup {None},
                              tar : (SUBSET Runs) \cup {None}]]
  /\ clone \in [tree : Saved, remote : Saved]
  /\ nightly \in Databases \cup {None}
  /\ faults \in Nat /\ begun \in Nat /\ spoiled \in BOOLEAN

\* The ledger of migrate.py holds nothing that has not been applied, and the
\* order of the names is enough: whatever was interrupted, run by two people
\* or restored before, what a file refers to is there when it is executed.
MigrationsInOrder ==
  /\ db.ledger \subseteq db.schema
  /\ \A p \in Operators : job[p].at = "run" =>
       Needs[FirstOf(job[p].pending)] \subseteq db.schema

\* When make prod-migrate has ended well, the database has every migration and
\* every catalog row of the image that is running, until the next image, the
\* next restore or the loss of the disk.
DoneIsCurrent ==
  \A p \in Operators : job[p].at = "done" =>
    /\ Releases[image].files \subseteq db.schema \cap db.ledger
    /\ \A r \in Releases[image].rows :
         \E have \in db.rows : have.table = r.table /\ have.id = r.id

\* Every run has its artifact, and the pushed copy of the runs is never ahead of
\* the pushed copy of the artifacts, though the two are taken and moved apart;
\* unless tar failed or two backups were under way together.
EvidenceSurvives ==
  spoiled \/ /\ db.runs \subseteq vault
             /\ clone.remote.sql # None =>
                  clone.remote.sql.runs \subseteq clone.remote.tar
=============================================================================
