--------------------------- MODULE Contributions ---------------------------
(***************************************************************************)
(* What enters the tables without a signature: runs reported by            *)
(* contributors, posts of users under a rate limit, claims imported from   *)
(* the LocalMaxxing pool, and harvested cells and recipe candidates that   *)
(* are staged in a file, reviewed in another and promoted.                 *)
(*                                                                         *)
(* The reported-run handler is async: between two awaits it has the event  *)
(* loop to itself.  The other handlers run in a pool of threads; what they *)
(* count may be stale when they insert.  Imports and promotions are        *)
(* processes with one transaction each; a harvest appends to a file.       *)
(***************************************************************************)
EXTENDS Integers, Sequences, FiniteSets, SequencesExt

CONSTANTS
  Threads, None,
  Emails, Keys, Quota,      \* contributors, lookup keys of runs, quota a day
  Kinds, Targets, Limit,    \* posts under a limit; Limit[kind] in the window
  Cells, Importers,         \* pool cells: [rig, bits], all of known models
  Fixtures, Video,          \* [kind, source, hash, items]; items of video
  Promoters,
  MaxLines, MaxEvents       \* bounds: lines of decisions; things begun

ASSUME ContributionsAssumption ==
  /\ IsFiniteSet(Threads) /\ Threads # {} /\ None \notin Threads
  /\ IsFiniteSet(Targets)
  /\ Quota \in Nat /\ Limit \in [Kinds -> Nat]
  /\ Kinds \subseteq {"claim", "vote", "report"}
  /\ \A f \in Fixtures : f.kind \in {"cell", "candidate"}
  /\ MaxLines \in Nat /\ MaxEvents \in Nat

VARIABLES
  contributors,  \* contributor_account
  reported,      \* benchmark_run rows with source_class 'reported', per key
  recent,        \* reported_submission_log rows inside the window
  loop,          \* the request that has the event loop, or None
  posts,         \* posts[kind][target]: no row, one in the window, an old one
  request,       \* the request of each thread or coroutine
  imported,      \* run_claim rows per external_ref
  importer,      \* the file, what is left of it, and the rows inserted
  staged,        \* rows of the staging files
  torn,          \* the staging files whose last line is half written
  complete,      \* fixtures a harvest reported as staged (history)
  decisions,     \* lines of the decisions file
  plan,          \* the plan of each promoter
  runs, metrics, \* promoted benchmark_run and benchmark_metric rows
  recipes,
  events

reports   == <<contributors, reported, recent, loop>>
imports   == <<imported, importer>>
harvests  == <<staged, torn, complete>>
promotion == <<decisions, plan, runs, metrics, recipes>>
vars      == <<reports, posts, request, imports, harvests, promotion, events>>

Idle    == [op |-> "idle", who |-> None, key |-> None]
NoFile  == [file |-> {}, left |-> {}, new |-> {}]
Rows    == UNION { {[kind |-> f.kind, source |-> f.source, hash |-> f.hash, item |-> i]
                      : i \in ToSet(f.items)} : f \in Fixtures }

Init ==
  /\ contributors = {} /\ reported = [k \in Keys |-> 0]
  /\ recent = 0 /\ loop = None
  /\ posts = [kind \in Kinds |-> [x \in Targets |-> "no"]]
  /\ request = [t \in Threads |-> Idle]
  /\ imported = [c \in Cells |-> 0] /\ importer = [p \in Importers |-> NoFile]
  /\ staged = {} /\ torn = {} /\ complete = {}
  /\ decisions = <<>> /\ plan = [p \in Promoters |-> None]
  /\ runs = {} /\ metrics = {} /\ recipes = {}
  /\ events = 0

Counted == events < MaxEvents /\ events' = events + 1

Begin(t, op, who, key) ==
  /\ Counted /\ request[t] = Idle
  /\ request' = [request EXCEPT ![t] = [op |-> op, who |-> who, key |-> key]]

(* The request is answered, with or without its writes.                    *)
End(t) == request' = [request EXCEPT ![t] = Idle] /\ UNCHANGED events

-----------------------------------------------------------------------------
(* Contributors and the runs they report.  In production every request     *)
(* comes from the reverse proxy, so one address stands for all clients.    *)

BeginRegister(t, e) ==
  /\ e \notin contributors
  /\ Begin(t, "register", e, None)
  /\ UNCHANGED <<reports, posts, imports, harvests, promotion>>

(* The unique index on the e-mail refuses the second of two.               *)
WriteRegister(t) ==
  /\ request[t].op = "register"
  /\ contributors' = contributors \cup {request[t].who}
  /\ End(t)
  /\ UNCHANGED <<reported, recent, loop, posts, imports, harvests, promotion>>

(* submit_reported up to the await of the body: the token is good.         *)
ReportedArrives(t, e, k) ==
  /\ e \in contributors
  /\ Begin(t, "reported", e, k)
  /\ UNCHANGED <<reports, posts, imports, harvests, promotion>>

LoopIsFree == loop = None

(* Mutant: only runs that are validated count.                             *)
ValidatedTwin(k) == FALSE

(* find_run_by_lookup, whatever the status of the run.                     *)
Twin(k) == reported[k] > 0

(* _enforce_quota and the duplicate check.                                 *)
ReportedCheck(t) ==
  LET r == request[t] IN
  /\ r.op = "reported" /\ LoopIsFree
  /\ IF recent >= Quota \/ Twin(r.key)
     THEN End(t) /\ UNCHANGED loop
     ELSE /\ loop' = t
          /\ request' = [request EXCEPT ![t].op = "insert"]
          /\ UNCHANGED events
  /\ UNCHANGED <<contributors, reported, recent, posts, imports, harvests, promotion>>

(* Hardware, scenario, run, metrics and log in one transaction.            *)
ReportedInsert(t) ==
  LET k == request[t].key IN
  /\ request[t].op = "insert"
  /\ reported' = [reported EXCEPT ![k] = @ + 1] /\ recent' = recent + 1
  /\ loop' = None /\ End(t)
  /\ UNCHANGED <<contributors, posts, imports, harvests, promotion>>

-----------------------------------------------------------------------------
(* Claims, votes and run reports of one user, each kind with its window.   *)

Used(kind) == Cardinality({x \in Targets : posts[kind][x] = "recent"})

(* Mutant: the limit itself is still allowed.                              *)
UpToLimit(kind) == Used(kind) <= Limit[kind]

BelowLimit(kind) == Used(kind) < Limit[kind]

(* create_run_claim, vote_on_claim and create_run_report up to the insert: *)
(* a claim is a new row, a vote may be cast again, a report may not.       *)
BeginPost(t, kind, x) ==
  /\ BelowLimit(kind)
  /\ kind # "vote" => posts[kind][x] = "no"
  /\ Begin(t, kind, None, x)
  /\ UNCHANGED <<reports, posts, imports, harvests, promotion>>

(* A repeated vote keeps its created_at; a repeated report is refused by   *)
(* the partial unique index.                                               *)
WritePost(t) ==
  LET r == request[t] IN
  /\ r.op \in Kinds
  /\ posts' = [posts EXCEPT ![r.op][r.key] = IF @ = "no" THEN "recent" ELSE @]
  /\ End(t)
  /\ UNCHANGED <<reports, imports, harvests, promotion>>

(* A row leaves the window of its quota.                                   *)
Age ==
  /\ Counted
  /\ \/ recent > 0 /\ recent' = recent - 1 /\ UNCHANGED posts
     \/ \E kind \in Kinds, x \in Targets :
          /\ posts[kind][x] = "recent"
          /\ posts' = [posts EXCEPT ![kind][x] = "old"] /\ UNCHANGED recent
  /\ UNCHANGED <<contributors, reported, loop, request, imports, harvests, promotion>>

-----------------------------------------------------------------------------
(* import_localmaxxing                                                     *)

(* Mutant: all quantizations of a model on a rig are one claim.            *)
RigOnly(c) == [c EXCEPT !.bits = CHOOSE b \in {d.bits : d \in Cells} : TRUE]

(* external_ref_for: the quantization is part of the identity.             *)
RefOf(c) == c

BeginImport(p, file) ==
  /\ Counted /\ importer[p] = NoFile
  /\ importer' = [importer EXCEPT ![p] = [file |-> file, left |-> file, new |-> {}]]
  /\ UNCHANGED <<reports, posts, request, imported, harvests, promotion>>

(* One cell: it is there, or was inserted by this very import, or is new.  *)
ImportCell(p, c) ==
  /\ c \in importer[p].left
  /\ importer' = [importer EXCEPT ![p].left = @ \ {c},
       ![p].new = IF imported[RefOf(c)] > 0 THEN @ ELSE @ \cup {RefOf(c)}]
  /\ UNCHANGED <<reports, posts, request, imported, harvests, promotion, events>>

(* The unique index on external_ref.                                       *)
Clash(new) == \E r \in new : imported[r] > 0

(* The transaction commits, or another import was first and it rolls back. *)
CommitImport(p) ==
  LET new == importer[p].new IN
  /\ importer[p] # NoFile /\ importer[p].left = {}
  /\ importer' = [importer EXCEPT ![p] = NoFile]
  /\ imported' = [r \in Cells |-> imported[r] +
                    IF r \in new /\ ~Clash(new) THEN 1 ELSE 0]
  /\ UNCHANGED <<reports, posts, request, harvests, promotion, events>>

-----------------------------------------------------------------------------
(* Harvest: cells by harvester.harvest, candidates by                      *)
(* stage_recipe_candidates; each kind has its staging file.                *)

RowOf(f, i) == [kind |-> f.kind, source |-> f.source, hash |-> f.hash, item |-> i]
StagedOf(f) == {r \in staged : r.kind = f.kind /\ r.source = f.source}

(* SourceMutated: for cells an identity staged under another hash, for     *)
(* candidates any row of the source.                                       *)
Mutated(f) ==
  \E r \in StagedOf(f) :
    r.hash # f.hash /\ (f.kind = "cell" => r.item \in ToSet(f.items))

(* Mutant: a source that is staged already is done.                        *)
NewRowsOfNewSource(f) == IF StagedOf(f) # {} THEN {} ELSE DOMAIN f.items

(* The places in the fixture of the items that are not staged.             *)
NewRows(f) == {k \in DOMAIN f.items : RowOf(f, f.items[k]) \notin staged}

(* The new rows are appended in order; a crash leaves those of the first n *)
(* items, and perhaps a piece of the next.                                 *)
Harvest(f) ==
  /\ Counted /\ f.kind \notin torn /\ ~Mutated(f)
  /\ \E n \in 0..Len(f.items) :
       /\ staged' = staged \cup {RowOf(f, f.items[k]) : k \in NewRows(f) \cap 1..n}
       /\ \/ NewRows(f) \subseteq 1..n /\ complete' = complete \cup {f} /\ UNCHANGED torn
          \/ ~(NewRows(f) \subseteq 1..n) /\ UNCHANGED complete
               /\ (torn' = torn \cup {f.kind} \/ UNCHANGED torn)
  /\ UNCHANGED <<reports, posts, request, imports, promotion>>

(* Somebody takes the broken line out of the file.                         *)
Repair(kind) ==
  /\ kind \in torn /\ torn' = torn \ {kind}
  /\ UNCHANGED <<reports, posts, request, imports, staged, complete, promotion, events>>

-----------------------------------------------------------------------------
(* Review and promotion                                                    *)

Outcomes == {"approved", "rejected"}
Bindings == {"full", "noruntime", "unknown"}  \* unknown: no such model release

(* A line is added to, or taken out of, the decisions file; the binding of *)
(* a rejection is ignored.                                                 *)
Decide(row, outcome, binding) ==
  /\ Counted /\ Len(decisions) < MaxLines
  /\ outcome = "rejected" => binding = "full"
  /\ decisions' = Append(decisions, [row |-> row, outcome |-> outcome, binding |-> binding])
  /\ UNCHANGED <<reports, posts, request, imports, harvests, plan, runs, metrics, recipes>>

Undecide(n) ==
  /\ Counted /\ n \in DOMAIN decisions
  /\ decisions' = RemoveAt(decisions, n)
  /\ UNCHANGED <<reports, posts, request, imports, harvests, plan, runs, metrics, recipes>>

(* Mutant: the first line wins, without a word.                            *)
NeverConflicting == FALSE

(* load_decisions refuses two outcomes for one row.                        *)
Conflicting ==
  \E m, n \in DOMAIN decisions :
    decisions[m].row = decisions[n].row /\ decisions[m].outcome # decisions[n].outcome

Lines(row) == {n \in DOMAIN decisions : decisions[n].row = row}

(* _decision_by_id: the first line of a row.                               *)
Decision(row) == decisions[CHOOSE n \in Lines(row) : \A m \in Lines(row) : n <= m]

Approved == {r \in staged : Lines(r) # {} /\ Decision(r).outcome = "approved"}

Token(r) == r.kind = "cell" /\ r.item \notin Video

(* _plan_cell_run raises: a video metric has no default runtime.           *)
Unplannable ==
  \E r \in Approved : /\ r.kind = "cell" /\ r.item \in Video
                      /\ Decision(r).binding = "noruntime"

BeginPromote(p) ==
  /\ Counted /\ plan[p] = None
  /\ torn = {} /\ ~Conflicting /\ ~Unplannable
  /\ plan' = [plan EXCEPT ![p] =
       [rows |-> Approved,
        dangling |-> \E r \in Approved : Decision(r).binding = "unknown"]]
  /\ UNCHANGED <<reports, posts, request, imports, harvests, decisions, runs, metrics,
                 recipes>>

(* Only for the runs that this execution inserted.                         *)
MetricsOf(cells) == {r \in cells \ runs : Token(r)}

(* write_promotion_rows: one transaction.  A foreign key that dangles, or  *)
(* a metric that is there already, rolls all of it back.                   *)
WritePromote(p) ==
  LET cells == {r \in plan[p].rows : r.kind = "cell"} IN
  /\ plan[p] # None
  /\ plan' = [plan EXCEPT ![p] = None]
  /\ IF plan[p].dangling \/ MetricsOf(cells) \cap metrics # {}
     THEN UNCHANGED <<runs, metrics, recipes>>
     ELSE /\ runs' = runs \cup cells
          /\ metrics' = metrics \cup MetricsOf(cells)
          /\ recipes' = recipes \cup (plan[p].rows \ cells)
  /\ UNCHANGED <<reports, posts, request, imports, harvests, decisions, events>>

-----------------------------------------------------------------------------
Handler(t) ==
  \/ \E e \in Emails : BeginRegister(t, e) \/ \E k \in Keys : ReportedArrives(t, e, k)
  \/ WriteRegister(t) \/ ReportedCheck(t) \/ ReportedInsert(t) \/ WritePost(t)
  \/ \E kind \in Kinds, x \in Targets : BeginPost(t, kind, x)

Import(p) ==
  \/ \E file \in SUBSET Cells : file # {} /\ BeginImport(p, file)
  \/ \E c \in Cells : ImportCell(p, c)
  \/ CommitImport(p)

Review ==
  \/ \E row \in staged, o \in Outcomes, b \in Bindings : Decide(row, o, b)
  \/ \E n \in 1..MaxLines : Undecide(n)

Next ==
  \/ \E t \in Threads : Handler(t)
  \/ Age
  \/ \E p \in Importers : Import(p)
  \/ \E f \in Fixtures : Harvest(f)
  \/ \E kind \in {"cell", "candidate"} : Repair(kind)
  \/ Review
  \/ \E p \in Promoters : BeginPromote(p) \/ WritePromote(p)

Spec == Init /\ [][Next]_vars

-----------------------------------------------------------------------------
(* Type correctness; a promoted row and a line of the decisions file refer *)
(* to staged rows, and who has the event loop is about to insert.          *)
TypeOK ==
  /\ contributors \subseteq Emails /\ reported \in [Keys -> Nat] /\ recent \in Nat
  /\ loop \in Threads \cup {None}
  /\ \A t \in Threads : request[t].op = "insert" <=> loop = t
  /\ posts \in [Kinds -> [Targets -> {"no", "recent", "old"}]]
  /\ \A t \in Threads : request[t].op = "reported" => request[t].who \in contributors
  /\ imported \in [Cells -> Nat]
  /\ \A p \in Importers : importer[p].left \subseteq importer[p].file
  /\ staged \subseteq Rows /\ torn \subseteq {"cell", "candidate"}
  /\ \A n \in DOMAIN decisions : decisions[n].row \in staged
  /\ runs \cup recipes \subseteq staged

(* The quota of reported runs is exact although it is counted and inserted *)
(* apart: the handler is async and does not await in between.              *)
QuotaHolds == recent <= Quota

(* No two reported runs have one lookup key, for the same reason and       *)
(* because the status does not matter; no unique index stands behind it.   *)
ReportedOnce == \A k \in Keys : reported[k] <= 1

(* Handlers in threads count and then insert: they may pass a limit by the *)
(* requests that were in flight with theirs, and by no more.               *)
OvershootBounded ==
  \A kind \in Kinds : Used(kind) <= Limit[kind] + Cardinality(Threads) - 1

(* Both kinds of quota together: exact where no await comes between count  *)
(* and insert, and of a known overshoot where handlers run in threads.     *)
QuotasHold == QuotaHolds /\ OvershootBounded

(* However imports overlap and are repeated, an external_ref has one claim.*)
ImportedOnce == \A r \in Cells : imported[r] <= 1

(* What a client sends again, to another thread or in another file, is in  *)
(* the tables once.                                                        *)
NothingTwice == ReportedOnce /\ ImportedOnce

(* An import that commits leaves a claim for each cell of its file.        *)
ImportIsWhole ==
  [][ \A p \in Importers : \A c \in importer[p].file :
        importer'[p] = NoFile /\ imported' # imported => imported'[c] > 0 ]_vars

(* No changed source is staged over, or beside, what was staged of it: an  *)
(* identity has one row, and all candidates of a source have one hash.     *)
OneHashPerIdentity ==
  \A r, s \in staged :
    r.kind = s.kind /\ r.source = s.source /\ (r.kind = "cell" => r.item = s.item)
      => r.hash = s.hash

(* A harvest that ends has staged all of its fixture, also when an earlier *)
(* one crashed in the middle of the append.                                *)
HarvestIsWhole == \A f \in complete : \A i \in ToSet(f.items) : RowOf(f, i) \in staged

(* The staging files hold every harvested item, and no two versions of one.*)
StagingIsSound == OneHashPerIdentity /\ HarvestIsWhole

(* A promotion whose references exist goes through: what an earlier one    *)
(* wrote does not stop it.                                                 *)
PromotionRepeats ==
  [][ \A p \in Promoters :
        plan[p] # None /\ plan'[p] = None /\ ~plan[p].dangling
          => plan[p].rows \subseteq runs' \cup recipes' ]_vars

(* Nothing is planned for production that a line of the decisions file     *)
(* rejects, in whatever order the lines were written.                      *)
NothingRejectedIsPlanned ==
  [][ \A p \in Promoters : plan'[p] # plan[p] /\ plan'[p] # None =>
        \A r \in plan'[p].rows : /\ Lines(r) # {}
                                 /\ \A n \in Lines(r) : decisions[n].outcome = "approved" ]_vars

(* What is promoted is what the reviewers' file says, all of it and only   *)
(* it, however often the promotion is run.                                 *)
PromotionIsFaithful == PromotionRepeats /\ NothingRejectedIsPlanned

=============================================================================
