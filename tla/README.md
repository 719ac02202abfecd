# bestmodel, specified in TLA+

bestmodel collects benchmark runs of local AI models. A command-line probe
measures a model on somebody's machine, signs a report and posts it; the public
API stores it and puts an event on a Redis stream; one intake worker reads the
stream, gives every run a verdict (validated, quarantined or rejected) and, for a
validated run, settles the claim it was submitted for and credits reputation
points. Users sign in with passkeys or an OAuth provider, open claims ("I get
40 tok/s with this model"), vote on claims of others and report runs and claims
to a moderator. Around that, contributors report runs without a signature,
harvested cells are reviewed and promoted, a pool backend mirrors a third-party
listing and publishes derived documents, and match services answer from all of
it.

The modules here model the parts of that program whose correctness depends on
the order of steps, and the computations that are written twice and must agree.
Paths are relative to the repository.

## 1. Inventory

| Component | Source | State it keeps | Operations | What is hard | Module |
|---|---|---|---|---|---|
| Submission handler | `apps/public-api/src/services/submit_benchmark_run.py`, `dependencies/artifact_vault_provider.py`, `redis_queue_provider.py` | artifact files, rows of `benchmark_run` and its children, `benchmark_runs` stream | check, store artifacts, refuse duplicates, insert and commit, publish | commit and publish are two steps; retries; artifacts are written before the duplicate check | `IntakePipeline` |
| Intake worker | `apps/intake-worker/src/worker.py`, `postgres_repository.py` and the checks next to them | batch in hand; `trust_assessment`, `benchmark_run.status`, `ranking_updates` | read a batch, hydrate, judge, three writes, settle, announce, acknowledge | crash between any two writes; pending list nobody reads; redelivery | `IntakePipeline`, `RunLifecycle` |
| Redis | `deploy/docker-compose.prod.yml` | stream, group cursor, pending list, append-only file | XADD, XREADGROUP, XACK, restart | up to a second of writes lost in a crash | `IntakePipeline` |
| Claims and votes | `services/create_run_claim.py`, `vote_on_claim.py`, `compute_vote_tally.py` | `run_claim`, `claim_vote` | open, vote, retract, bind to a run | check and write of a handler are apart, handlers run in a thread pool | `ClaimSettlement` |
| Settlement and reputation | `settle_claims.py`, `reputation_policy.py`, `postgres_repository.py` | `user_reputation`, `reputation_event`, `notification` | read context, complete settlement | read in one transaction, write in another; absolute totals | `ClaimSettlement` |
| Run reports | `services/create_run_report.py`, `infra/migrations/0014`, `0015` | `run_report`, status of a claim | report, confirm, dismiss | two moderators, two equal reports, partial unique index | `ClaimSettlement` |
| Login | `services/register_passkey.py`, `authenticate_passkey.py`, `oauth_login.py`, `manage_auth_tokens.py`, `register_signing_key.py` | users, credentials, identities, challenges, tokens, keys | begin, finish, link, revoke | reads and commit apart; one-time values; an account emptied by a moved identity | `Accounts` |
| Contributor-reported runs, rate limits | `services/submit_reported_run.py`, `rate_limit_policy.py` | contributors, reported runs, submission log | register, submit, quota | count-then-insert, on the event loop or in threads | `Contributions` |
| Claim import | `services/import_localmaxxing_claims.py` | imported claims | import by `external_ref` | running it twice at once | `Contributions` |
| Harvester and review queue | `packages/harvester/src` | staging file, decisions file, promoted rows | harvest, decide, promote | append cut short, repeated or contradictory decisions, promotion repeated | `Contributions` |
| Pool backend | `apps/pool-backend/src`, `scripts/sync-all.sh` | SQLite mirror of a third-party pool, flags, derived documents | sync, import local runs, assess, export, publish | the listing changes between two pages; a command fails or tears a file; the catalog changes | `PoolPipeline`, `PoolMatch` |
| Roofline kernel, recommendation engine | `packages/roofline-kernel`, `packages/recommendation-engine` | none | footprint, context limit, decode, prefill, first token, ranking | clamps, saturation, division by zero | `Roofline`, `Matching` |
| Leaderboard, match, model-pick, claim prior | `services/query_leaderboard.py`, `query_hardware_match.py`, `query_model_match.py`, `model_pick.py`, `compute_claim_prior.py` | none | answer a question | the same thing computed in two or three places | `Matching` |
| Migrations, seed, backup, restore | `infra/scripts`, `infra/migrations`, `deploy` | schema, ledger, catalog rows, dumps, backup clone | migrate, seed, dump, archive, push, restore | crash between commit and ledger; two operators; two backups in one clone | `Deployment` |
| Probe CLI | `cli/benchmark-probe` (Rust) | none that lasts | plan, tune, find the sweet spot, sign | search algorithms | not modelled |
| Listings, feed, rigs, follows | other services of `apps/public-api` | single rows | single-statement reads and writes | little | not modelled |
| Front ends, rendering | `apps/web`, `apps/web-next`, `render_*` | static pages | render | layout | not modelled |

How they interact: the API and the worker share Postgres and the artifact vault
and talk through the `benchmark_runs` stream; the worker alone writes verdicts,
assessments, reputation and the `ranking_updates` stream; claims are written by
the API's handlers (open, vote, retract, bind, refute), by the import and by the
worker (settle). The pool backend has a database of its own; what it derives is
copied into the web pack, where `model_pick` of the public API reads it. Both
backends take the roofline formulas, the API from the kernel, the pool backend
from its own copy. The submission routes are `async def` around a synchronous
body, so submissions of the one uvicorn process never overlap; all other routes
are plain `def` and run in a thread pool, so those do.

What makes each part correct:

- intake: one run per lookup key; one counting run per dimension group; one
  verdict per run, never seen without its assessment; nothing announced before
  it is written, nothing acknowledged before it is judged; every accepted run
  judged in the end;
- claims: settled once, by a validated run that the claim was bound to while it
  was open; points equal to the sum of the events; a refutation backed by a
  confirmed report; one live report per reporter and target;
- login: a session is backed by a credential of its user, a credential was
  enrolled with a challenge of its user, one-time values serve once, and an
  identity belongs to whom asked for it;
- contributions: quotas hold on the event loop and overshoot by at most the
  threads elsewhere; nothing is imported or reported twice; a harvest loses and
  repeats nothing; promotion does what the decisions say, however often;
- pool: a sync with no change meanwhile is complete; only assessed rows are
  served or published; a published set is of one generation; it catches up;
- answers: services that compute the same thing agree; more evidence, more
  hardware or more requests never worsen an answer;
- operations: the ledger never runs ahead of the schema, a migration finds what
  it refers to, a finished `make prod-migrate` leaves everything of the image,
  and the pushed copy of the runs is never ahead of that of the artifacts.

## 2. Modules

| Module | What it is |
|---|---|
| `RunLifecycle` | Abstract specification of a run: accepted once per key, one verdict, one counting run per group. No queue, worker or failure. |
| `IntakePipeline` | API handler, Redis and worker, step by step, with failures. Implements `RunLifecycle`. |
| `IntakePipelineProofs` | Proofs of the invariants of `IntakePipeline`, of the finality of verdicts and of the refinement. |
| `ClaimSettlement` | Claims, votes, reports, submissions that settle, the worker's settlement. |
| `ClaimSettlementProofs` | Proofs about `ClaimSettlement`. |
| `Accounts` | Sign-up, passkey ceremonies, OAuth sign-in and linking, tokens and signing keys, in several threads. |
| `Contributions` | Reported runs, rate-limited posts, claim import, harvest, review and promotion. |
| `PoolPipeline` | The nightly pipeline of the pool backend against a remote pool that changes. |
| `PoolMatch`, `Roofline` | Operators: the decision engine of the pool and of `model_pick`; the roofline kernel. |
| `Matching` | The evidence grows and questions are asked: `PoolMatch` and `Roofline` composed with the match services, the claim prior and the leaderboard. |
| `Deployment` | Images, migrations, seed, backups, restores. |
| `DeploymentProofs` | Proofs about `Deployment`. |
| `AccountsProofs`, `ContributionsProofs`, `PoolPipelineProofs`, `MatchingProofs` | Proofs about the four modules of those names; `MatchingProofs` also about the operators of `PoolMatch`. |
| `MatchServicesProofs` | Extends `MatchingProofs`: the kernel of `Roofline`, and what the match services and the claim prior make of it. |
| `MC...` | The instances TLC checks, one for each specification with a cfg. |

### IntakePipeline

`vault`, `uploadOf`, `status`, `assessed` and `settled` are the file system and
Postgres; `stream`, `cursor`, `pel` and `ranking` are Redis, `disk` what its
append-only file holds; `api` and `worker` are the program counters and local
variables of the two processes.

| Action | Code |
|---|---|
| `Receive` | a POST that passes schema, digest and signature checks; the others change nothing |
| `TruncateArtifacts`, `WriteArtifacts` | `LocalArtifactVault.store`: `write_bytes` truncates, then writes |
| `RejectIfDuplicate` | `_reject_if_duplicate`: any run with the five-column key is a 409 |
| `CommitRun` | the inserts and `session.commit()` |
| `Publish` | `queue.publish` (XADD) after the commit |
| `ReadBatch` | `xreadgroup(..., ">", count=10)`; `BatchCount` is 2 in the runs |
| `Hydrate` | `fetch_run_payload`, with the artifact bytes the vault has at that moment, and the hash check that fails on a torn file |
| `Judge` | `process_run` up to `_decide_status` |
| `RecordTrustAssessment`, `SetRunStatus`, `SettleClaims`, `PublishRankingUpdate`, `Acknowledge` | the five writes that follow, each its own transaction or Redis command |
| `ApiFault`, `WorkerCrash`, `RedisCrash`, `Fsync` | failures between any two steps; the append-only file is flushed now and then |

`Honest` is the set of uploads whose report passes the payload and evidence
checks; what those checks look at is not part of the model. Memory and roofline
checks never flag, because a submission inserts its hardware row with no catalog
GPU and `_collect_plausibility_flags` returns at once without one. The outlier
check may flag when it has a population of three. Its peers are the *validated*
rows of the group; one of them already makes the run a duplicate, which is why
`NeverQuarantined` holds. Rows that other parts write (reported runs, which stay
`submitted`, and promoted candidates) are not in the model; they can only turn
more runs into duplicates.

docs/architecture.md:126 calls the index of the API's lookup unique; it is not
(`infra/migrations`), and `OneRunPerKey` holds because submissions are
serialised.

### ClaimSettlement

Every handler of the thread pool is a `Begin...` action, which makes the checks on
what it reads, and a `Write...` action for its transaction; `call[t]` holds the
arguments in between. A call that a check refuses changes nothing and is left
out. Weights are in fifths (0.2 to 1.0 in `TIER_WEIGHTS`).

| Action | Code |
|---|---|
| `CreateRunClaim` | `create_run_claim` |
| `BeginVote`, `WriteVote` | `vote_on_claim`, `upsert_claim_vote` |
| `BeginRetract`, `WriteRetract` | `retract_run_claim`, `set_run_claim_status` |
| `BeginReport`, `WriteReport` | `create_run_report` and the unique index of migration 0015 |
| `BeginModerate`, `WriteConfirm`, `WriteDismiss` | `confirm_report`, `dismiss_report` |
| `ResolveSettlement`, `InsertRun` | `_resolve_settlement` and the run's transaction with `bind_claim_to_run` |
| `JudgeRun` | `process_run` up to the status; the verdict is free here, `IntakePipeline` says what decides it |
| `FetchContext` | `fetch_settlement_context`, and the early return for any verdict but validated |
| `CompleteSettlement` | `complete_claim_settlement`, one transaction |
| `WorkerCrash` | between the status and the end of the settlement |

`linked` (the pairs a submission was answered with), `ledger` (the sum of
`reputation_event.delta`) and `notices` record what the database holds in tables
that only grow.

### Accounts

A handler reads on a connection of its own and commits at the end; two threads
run two handlers. A request is therefore a `Begin...` step, whose reads are kept
in `request[t]`, and a step that writes and commits; refused requests are no
step. Unique indexes and raised exceptions end a request in `Fail`. Requests
whose writes depend on nothing they read earlier are one step (`AtOnce`).

| Action | Code |
|---|---|
| `BeginOptions`, `CreateUser`, `CheckOwner`, `IssueRegistration` | `passkey_registration_options`: the user row is committed before the challenge is issued |
| `BeginEnrol`, `CommitEnrol` | `verify_passkey_registration`, the challenge read, the credential inserted, the challenge deleted |
| `LoginOptions`, `BeginAssert`, `CommitAssert` | `passkey_login_options`, `verify_passkey_authentication` with the sign counter |
| `BeginLinking` | `begin_oauth_link`, which signs a state for the caller |
| `BeginLink`, `CommitLink` | the callback with a link state: bind, or move from an account that has nothing else |
| `BeginLogin`, `BeginLoginByName`, `CommitLogin` | the callback without one: sign in, or create a user under the first free handle |
| `Create`, `RevokeAgentToken`, `BeginRevokeKey`, `CommitRevokeKey` | agent tokens and signing keys |
| `Expire` | a session or a link state reaches its end |

`enrolled`, `spent`, `held`, `asked`, `answers`, `raced` and `broken` are history.
Cryptography is who can answer which challenge (`Answers`). `raced` collects
whom a request wrote about that another commit had overtaken: most of the
invariants are not backed by an index and hold only outside a race, and the
properties say so by naming `raced` instead of being weaker everywhere.

Two things the model has and no property forbids. An account whose only identity
was moved to another account is `Open` again, so anybody may enrol a passkey for
its handle (`register_passkey.py:50`). And the JSON answer of
`verify_passkey_registration` holds a UUID object (`auth_route.py:83`), so on
PostgreSQL the caller gets a 500 after the credential was committed.

### Contributions

| Action | Code |
|---|---|
| `BeginRegister`, `WriteRegister` | `register_contributor`, by e-mail |
| `ReportedArrives`, `ReportedCheck`, `ReportedInsert` | `submit_reported_run`: the body is awaited, then quota, duplicate check and insert run on the event loop, which `loop` holds |
| `BeginPost`, `WritePost` | opening a claim, voting, reporting: count since the window began, then insert |
| `Age` | the windows slide on |
| `BeginImport`, `ImportCell`, `CommitImport` | `import_localmaxxing_claims`, one transaction and a unique index |
| `Harvest` | `harvest`: the rows that are not staged yet are appended, all of them or the first ones with half a line |
| `Repair` | somebody removes the half line by hand; until then the file cannot be read |
| `Decide`, `Undecide` | edits of the decisions file |
| `BeginPromote`, `WritePromote` | `plan_promotion`, `write_promotion_rows` with ON CONFLICT |

What the code does here and its text does not say: `harvester.py:8-10` says that
a changed source is rejected, but it is only when an identity overlaps; a
repeated decision with the same outcome and another binding keeps the first; a
vote that is given again keeps its `created_at`, so it is not counted against
the limit; a dry run of the import counts a reference twice that the file has
twice. And uvicorn runs behind Caddy without `forwarded-allow-ips`, so the quota
"per IP" is one quota for all callers; the model has one.

### PoolPipeline

| Action | Code |
|---|---|
| `RemoteChange`, `EditCatalog` | the remote listing and `catalog.json` change at any moment |
| `StartSync`, `FetchPage`, `FetchModels`, `StoreSync` | `sync_pool.main`: pages by offset, the guards, one transaction |
| `ImportLocal` | `import_local_runs` |
| `Assess` | `recompute_flags`: delete all, insert all |
| `Export`, `WriteOutput`, `Copy`, `Mark` | `derive_export --publish`, one document at a time |
| `Migrated`, `MigrationFails` | every command rebuilds `lm_model` when the catalog's categories differ |
| `Fault` | a failed download, a crash, a document torn in the middle |

`FetchPage` reads what the remote pool says at that moment; `step.first` and
`step.shifted` remember the first total and whether anything moved, and only
`PagesComplete` reads them. `Verdict` keeps of the roofline what the verdict
depends on: whether the rig's bandwidth is known, whether the row is a plain
single request, and whether it is faster than the ceiling.

Seen while modelling: the bandwidth of a rig the seed does not know is
set to NULL by `StoreSync` and set again by `ImportLocal`; a category
removed from the catalog while a row has it stops every command; and
`WEB_DERIVED_DIR` is relative to the working directory.

### PoolMatch, Roofline and Matching

`PoolMatch` is `match.py` and the core of `model_pick.py` over a set of clean
runs; `Roofline` is the kernel in whole numbers (memory in 1/800 GiB, so that
1.05 and the overheads are exact; rates as fractions compared by cross
multiplication). `Matching` lets the evidence grow one run at a time (`AddRun`,
`Validate`), publishes a snapshot by either publisher (`Publish`), and asks
(`Ask`); its invariants compare the answers. `PoolAtRest`, `BoardAtRest` and
`AskedAbout` are a bound: pool, board and catalog share no state, so each is
explored while the others are at rest.

Facts the model follows and a reader may not expect: the bytes a decode step
reads for the KV cache leave out the number of layers
(`estimate_decode_throughput.py:67-71`); the footprint sizes a mixture of experts
by its active parameters where the pool's `match.py` uses all of them;
`hardware-to-models` validates `bits` and never uses it; `query_model_match`
does not catch the ValueError its sibling skips, and where the experts of a token
are NULL a batch of two multiplies None (`estimate_decode_throughput.py:127`; the
seed's gemma-4-26b-a4b-it), which is why a question of its may fail (`ModelFails`).
The question about hardware takes any number of GPUs
(`hardware_match_request.py:11`), the one about a model tries eight at most
(`query_model_match.py:24`), so `MatchesAreRecommended` compares up to that number.
And a batch of two can be slower than a lone request:
solving for the sizes of the shared part and of an expert clamps a negative
shared part to 0 (`estimate_decode_throughput.py:105`). The seed's
Qwen2-57B-A14B (57.4 and 14.0 billion, 4 of 16 experts) has one: a batch of two
is charged 28.7 billion weights, more than twice 14.0. `BatchNeverSlower`
therefore speaks of models that add up (`AddsUp`); no table and no test requires
it of a row. Published snapshots have two
forms: the web pack writes `evalScore` as an object and a `sourceClass`
(`derive.mjs:150-151`), the pool backend a number and none, on which `_quality`
of `model_pick` fails (`PickFails`).

### Deployment

| Action | Code |
|---|---|
| `Deploy` | `make prod-up`: new containers, what ran inside the old ones is killed |
| `StartMigrate`, `Execute`, `Record` | `migrate.py`: the ledger is read once; a file commits itself; its name is inserted by another statement |
| `Seed` | `load_seed.py`, one table at a time, ON CONFLICT (id) DO NOTHING |
| `StoreArtifact`, `InsertRun` | an upload, as far as a backup can tell |
| `Dump`, `Archive`, `MoveSql`, `MoveTar`, `Commit`, `BackupFails` | `deploy/backup.sh` |
| `NightlyDump`, `RestoreNightly` | `backup-db.sh`, `restore-db.sh` |
| `DiskLoss`, `RestoreBackup` | the host is lost; the commands of the backup's README |
| `JobCrash` | a lost connection between two statements |

A migration is the number of its file, `Needs` what it refers to, `Rerunnable`
says that it is written with IF NOT EXISTS throughout. `spoiled` records the two
ways evidence is lost that the script has: `tar ... || : > artifacts.tar.gz`
commits an empty archive although the dump is guarded (`backup.sh:32`), and two
overlapping runs of the script move their files into one clone.

Seen while modelling: after a crash between the COMMIT of a file with plain
CREATE statements (0001 to 0010, 0017) and its ledger row, every later run of
`migrate.py` fails on that file, though `migrate.py:5-6` says that repeated runs
are idempotent; `make prod-up` starts the new code before `make prod-migrate`;
`restore-db.sh:11` says "This REPLACES the current database", but a plain dump
leaves the rows that are there; `docs/en/deploy.md:40` names a
`infra/scripts/seed/load_seed.py` that does not exist. None of these breaks the
properties, and that is what the run shows: a wedged runner stops, it does not
go out of order.

## 3. Runs

Runs that pass:

| Run | Checks | Bounds |
|---|---|---|
| `IntakeFaults` | `TypeOK`, `OneRunPerKey`, `OneBlockingRunPerGroup`, `RankedIsWritten`, `AckedIsDecided`, `AccountedFor`, `VerdictFinal`, `ImplementsLifecycle` | three uploads and runs of one group (a population of three is what the outlier check needs), batches of two, one API and one worker failure |
| `IntakeRedisCrash` | `EveryRunAnnounced`, `BacklogDrains` | an llm upload that is not honest and a video upload, one worker crash and one Redis crash to any earlier flush, with fairness |
| `ClaimCredit` | `TypeOK`, `PointsExplained`, `SettledByValidatedRun`, `BindingIsFinal` | two claims and two runs, so that two settlements of one user and a second run for one claim occur |
| `ClaimRefute` | `CreditedOnce`, `OneLiveReport`, `ValidatedClaimSettles` | one user, one claim, one run delivered twice, two reports, two threads, one crash, with fairness |
| `Accounts` | `SessionsAreBacked`, `EnrolmentsAreGranted`, `OnceUnlessRaced`, `BoundByItsUser`, `MovesLeaveNoOwner` | two handles, a passkey, three identities of two providers, two challenges, two threads; six requests begun or expiries (`MaxEvents`) |
| `Contributions` | `QuotasHold`, `NothingTwice`, `StagingIsSound`, `ImportIsWhole`, `PromotionIsFaithful` | two threads, importers and promoters, limits of one, two versions of a source of cells and of a workflow, two lines of decisions (`MaxLines`), five things begun (`MaxEvents`) |
| `PoolPublish` | `PagesComplete`, `PublishedIsAssessed`, `DoneIsConsistent`, `NothingForgotten`, `EventuallyCurrent` | two remote runs on pages of one, a local run, two models and rigs, three categories; two remote changes, one catalog edit, one fault |
| `Matching` | `PoolAnswersAgree`, `MatchServicesAgree`, `GrowthNeverHurts`, `RankingIsFair`, `EvidenceRaisesBasis` | every subset of six pool runs and of five board entries; every question over two GPUs or none, up to three of each (`MaxGpuCount` is 2), a dense model and mixtures of experts of which one has no active size, one no experts of a token (`untold`) and one does not add up (`thin`), two quantizations, three runtimes |
| `Deployment` | `MigrationsInOrder`, `DoneIsCurrent`, `EvidenceSurvives` | two images, the second with a migration between those of the first and a changed catalog row; two operators, two runs of `backup.sh`, two dumps, one fault or disk loss |

Several of these are conjunctions of properties that belong together and break
together; the parts have names and comments of their own in the modules:

| Property | Parts |
|---|---|
| `OnceUnlessRaced` | `ChallengesServeOnce`, `OneIdentityPerProvider`, `RevocationsAnswerOnce` |
| `QuotasHold` | `QuotaHolds` (event loop), `OvershootBounded` (threads) |
| `NothingTwice` | `ReportedOnce`, `ImportedOnce` |
| `StagingIsSound` | `OneHashPerIdentity`, `HarvestIsWhole` |
| `PromotionIsFaithful` | `PromotionRepeats`, `NothingRejectedIsPlanned` |
| `PublishedIsAssessed` | `OnlyAssessedServed`, `DocumentsAreClean` |
| `PoolAnswersAgree` | `RankKeysAgree`, `BothWaysAgree`, `PicksArePreferred` |
| `MatchServicesAgree` | `FeasibilityAgrees`, `ConfigsAreConfirmed`, `MatchesAreRecommended`, `PriorAgrees` |
| `GrowthNeverHurts` | `GrowthKeepsFeasible`, `BatchNeverSlower` |
| `RankingIsFair` | `BetterRanksHigher`, `HiddenIsInert` |

`TypeOK` of `Accounts`, `Contributions`, `PoolPipeline`, `Matching` and
`Deployment` is a theorem and not part of the runs; add it as an INVARIANT of the
cfg after a change, before the proof.

Runs that refute what a document or a comment says:

| Run | Says | Does |
|---|---|---|
| `IntakeDurability` | docs/architecture.md:111, events stay until they are processed | after a crash nobody reads the pending list |
| `AccountsAnswer` | oauth_route.py:99, linking returns the provider's URL | on PostgreSQL, ids are UUID objects (`UuidRows`), and `sign_state` joins one into a string: TypeError (oauth_login.py:101) |
| `MatchAnswers` | query_hardware_match.py:4, each candidate is evaluated and returned | a GPU without an fp16 figure (gpu_models.json:329) makes `estimate_ttft` divide by zero, which the handler does not catch |

More of the kind, which no run of their own shows:

- docs/architecture.md:125 says that artifact bytes are stored once; a repeated
  POST truncates and writes them again before it gets its 409, and a worker that
  reads in between rejects the run.
- detect_duplicate_submission.py:3 says that a dimension group has one counting
  run; video groups compare NULL with `=` and have no duplicates at all.
- worker.py:64 says that settling and crediting are atomic; credit does not
  depend on the claim still being open.
- settle_claims.py:4 says that the claimant of a rejected run can retry; the
  claim stays bound to its first run.
- specs/en/S28-run-report-and-provenance.md:39 says that dismissing has no effect
  on the target; a dismissal may follow a confirmation, of the same report, that
  has refuted the claim.
- The worker writes the status and settles the claim in two transactions: after a
  crash in between, the run is validated and its claim is not looked at again,
  which is why `EveryRunAnnounced` and `ValidatedClaimSettles` excuse a worker
  that failed and `RankedIsWritten` binds only what was announced.
- The notification stores the user's new total as `points_awarded`
  (`postgres_repository.py:188`), which `notices` keeps as it is.

Symmetry is used only in runs of invariants and step properties, over sets whose
members no definition names; `IntakeFaults` permutes run ids only, because
uploads have different keys. The runs with a liveness property use none.
Deadlock is checked for the intake, where a client can always post again, and
for `Deployment`, where an operator can always migrate again; the other
specifications may use up their ids or their events.

Every passing property has a mutant in its module: an operator next to the one
it replaces, marked as a mutant in its comment, that changes it the way a
plausible bug would. `PROJECT.json` pairs them.

### Bounds and fairness

`MaxApiFaults`, `MaxWorkerCrashes`, `MaxRedisCrashes` and `MaxFaults` count
failures; `MaxDeliveries` counts how often a run's event reaches the worker;
`MaxEdits`, `MaxCatalogEdits`, `MaxLines` and `MaxBackups` count what people
and remote systems do; `MaxEvents` counts requests, which are begun and not
merely finished, so that two may always overlap. One failure of a kind is
enough for every counterexample we found; the theorems below hold for any
number.

`FairSpec` of the intake asks weak fairness of the API's steps and of the
worker's steps as a whole: both are loops that go on as long as the process
runs, and the containers are restarted (`restart: unless-stopped`). Nothing is
asked of clients or of failures. `FairSpec` of the claims asks that a handler
that began finishes, that the worker finishes a settlement it began, and that a
submitted run is judged once, which is what `EveryRunAnnounced` shows of the
intake without failures. `FairSpec` of the pool asks weak fairness of the
pipeline as a whole, because launchd starts `sync-all.sh` again at every interval
(`com.bestmodel.sync.plist`); nothing is asked of the remote pool, of the catalog
or of faults, and `EventuallyCurrent` speaks only of a catalog that is
`Healthy`. `Accounts`, `Contributions`, `Matching` and `Deployment` have safety
properties only: people decide whether anything is retried there.

## 4. Proofs

All theorems hold for any number of uploads, keys, groups, runs, users, claims,
reports, threads, identities, fixtures, rigs, models, pages, entries, releases,
operators, backups and failures. They assume the ASSUMEs of their module and
nothing else; TLC evaluates each of them in the runs.

| Assumption | What it says, and why the code justifies it |
|---|---|
| `PipelineAssumption`, `SettlementAssumption`, `AccountsAssumption` | "none" is no id, passkeys and identities are rows of two tables; bounds are numbers; constants that give something an attribute are functions on it; an identity has a candidate for its handle (`oauth_login.py` tries one at least) |
| `PoolAssumption` | remote and local runs have different ids and are finite in number; the listing begins without duplicates (an id is a primary key there); the category the code falls back to is in the catalog the tables were made with; rows have the columns of `RunData`; page size and `MIN_REMOTE_TOTAL` are numbers |
| `ContributionsAssumption` | the thread pool is finite and not empty, limits are numbers; the posts that may ever be made are finite in number |
| `FilesAssumption`, `ReleasesAssumption`, `BoundsAssumption` | a migration refers to lower numbers of the same image; a catalog row belongs to a table of the seed; there is an image, and bounds are numbers |
| `MatchingAssumption`, `EvidenceAssumption` | tables are finite; ids, rig keys and slugs are primary keys; figures are numbers, and a bandwidth that is there is positive |
| `QuestionsAssumption`, `EntriesAssumption` | a pick asks for at least one row; the columns the leaderboard sorts by are numbers, as its query coalesces them |
| `CatalogAssumption` | the catalog's tables are finite and their ids primary keys; capacities, bandwidths, layers, KV heads and bit widths are positive, the sizes of a model are numbers or NULL, which is what the kernel's types take (`gpu_spec.py`, `model_arch.py`, `quant_profile.py`). It says nothing of how the sizes of a model relate |
| `RequestsAssumption` | a question has the fields and lower bounds of its request schema, and the rows it names were found |

`NeverQuarantined` and `DecidedIsAssessed` are proved and in no run.

| Module | Theorem | Statement |
|---|---|---|
| `IntakePipelineProofs` | `TypeCorrect` | `Spec => []TypeOK` |
| | `KeysAreUnique` | `Spec => []OneRunPerKey` |
| | `OneRunCounts` | `Spec => []OneBlockingRunPerGroup` |
| | `NobodyIsQuarantined` | `Spec => []NeverQuarantined` |
| | `VerdictsAreAssessed` | `Spec => []DecidedIsAssessed` |
| | `AnnouncementsAreWritten` | `Spec => []RankedIsWritten` |
| | `AcksAreDecided` | `Spec => []AckedIsDecided` |
| | `NobodyIsLost` | `Spec => []AccountedFor` |
| | `VerdictIsFinal` | `Spec => VerdictFinal` |
| | `RefinesWhileRedisStands` | `Spec /\ [](faults.redis = 0) => ImplementsLifecycle` |
| `ClaimSettlementProofs` | `TypeCorrect` | `Spec => []TypeOK` |
| | `SettlementIsCreditedOnce` | `Spec => []CreditedOnce` |
| | `OnlyValidatedRunsSettle` | `Spec => SettledByValidatedRun` |
| | `BindingStays` | `Spec => BindingIsFinal` |
| | `LiveReportsAreUnique` | `Spec => []OneLiveReport` |
| | `PointsAreExplained` | `Spec => []PointsExplained` |
| `DeploymentProofs` | `TypeCorrect` | `Spec => []TypeOK` |
| | `OrderIsEnough` | `Spec => []MigrationsInOrder` |
| | `DoneStaysCurrent` | `Spec => []DoneIsCurrent` |
| | `EvidenceIsKept` | `Spec => []EvidenceSurvives` |
| `AccountsProofs` | `TypeCorrect` | `Spec => []TypeOK` |
| | `SessionsRest` | `Spec => []SessionsAreBacked` |
| | `EnrolmentsRest` | `Spec => []EnrolmentsAreGranted` |
| | `OnceRest` | `Spec => []OnceUnlessRaced` |
| | `BoundRest` | `Spec => BoundByItsUser` |
| | `MovesRest` | `Spec => MovesLeaveNoOwner` |
| `ContributionsProofs` | `TypeCorrect` | `Spec => []TypeOK` |
| | `QuotasAreKept` | `Spec => []QuotasHold` |
| | `NothingIsTwice` | `Spec => []NothingTwice` |
| | `StagingStaysSound` | `Spec => []StagingIsSound` |
| | `ImportsAreWhole` | `Spec => ImportIsWhole` |
| | `PromotionsAreFaithful` | `Spec => PromotionIsFaithful` |
| `PoolPipelineProofs` | `TypeCorrect` | `Spec => []TypeOK` |
| | `PagesAreComplete` | `Spec => []PagesComplete` |
| | `OnlyAssessedIsPublished` | `Spec => []PublishedIsAssessed` |
| | `DoneStaysConsistent` | `Spec => []DoneIsConsistent` |
| | `NothingIsForgotten` | `Spec => NothingForgotten` |
| `MatchingProofs` | `TypeCorrect` | `Spec => []TypeOK` |
| | `EvidenceOnlyRaises` | `Spec => EvidenceRaisesBasis` |
| | `AnswersAgree` | `Spec => []PoolAnswersAgree` |
| | `RankingStaysFair` | `Spec => []RankingIsFair` |
| `MatchServicesProofs` | `ServicesAgree` | `Spec => []MatchServicesAgree` |
| | `GrowthHelps` | `Spec => []GrowthNeverHurts` |

### The intake

None of the invariants but the first is inductive as it stands. The
strengthening, layer by layer:

1. `TypeOK`, with the fact that the worker is idle exactly when its batch is empty.
2. `Committed`: a run has an upload exactly when it has a row, and every id that
   Redis, its disk, the worker or the API holds belongs to a committed row. A
   Redis crash needs the disk's part, a worker step the batch's part.
3. `FreshKeys`: `OneRunPerKey` with `InsertIsFresh`, the handler between its check
   and its insert still has a key nobody uses. This is where the serialisation
   of submissions enters: no other handler can insert in between.
4. `OneCounts`: `OneBlockingRunPerGroup` with `VerdictIsCurrent`, the worker
   between its verdict and its write still sees no counting run in the group.
   This is where the single worker enters.
5. `NoneQuarantined`: no run is quarantined and no verdict in hand is.
   `OutlierIsDuplicate` is the key: whoever has two validated peers is a duplicate.
6. `AllWritten`: the assessed, ranked and acknowledged properties with
   `Progress`, what the worker has written when it has come so far, and
   `DiskIsGood`, the same for what Redis would restore. Written facts are stable
   (`WritesStay`), so restoring an older disk cannot break them.
7. `Placed`: `AccountedFor` with the place of the run in the stream spelled out.
8. `NoReplay`: until Redis goes back, the stream has no id twice (`StreamOnce`),
   a run about to be published is not in it (`PublishesOnce`), the batch is the
   stretch of the stream that ends at the cursor (`BatchIsRead`), and what is
   unread, unjudged or being judged still waits (`Unread`, `RestWaits`,
   `HeadWaits`). `CurrentIsOnce` draws the consequence: the run the worker
   judges is nowhere else, so its verdict disturbs no other place.

The refinement maps `status` to `status` and the abstract `key` to the key of the
upload a run was inserted from. `CommitRun` is `Accept` (by 3), `SetRunStatus` is
`Decide` (by 4 and 8), and every other step, crashes of API and worker included,
stutters. `RefinesWhileRedisStands` needs its second hypothesis: after a Redis
crash a judged run is delivered again and its verdict may be written over, which
`Decide` forbids; `IntakeFaults`, with `MaxRedisCrashes = 0`, checks the same
on an instance.

### Claims

1. `TypeOK` with `Known`: a claim that is not there is not bound, a bound run was
   inserted, and what a report, a waiting handler or the worker names is there.
   Without it a late retraction could give a status to a claim that does not
   exist.
2. `ClaimMoves`: the five things a step may do to a claim. All that follows uses it
   in place of the actions.
3. `InHand`: a credited claim is closed for ever (`CreditedIsClosed`), and what
   the worker read is still so when it writes (`ContextIsCurrent`): the run has
   the verdict, the claim is bound to it and uncredited, and the claimant's
   points are what they were. The claim may have been retracted or refuted in
   between; that it is still open is the one thing that is not part of it.
4. `Explained`: `PointsExplained` with the finiteness of a user's credited claims.
   A settlement adds one claim to them and one award to both totals.
5. `OneLiveReport` is inductive with 1: the index, not the handler's check,
   carries it.

Each layer is an inductive invariant relative to the ones before it.

### Deployment

1. `Typed`: `TypeOK` with `Busy`, an operator who executes or records has a file
   to do it with, and `Stages`, what a run of `backup.sh` has in hand at each
   step, so that nothing but a whole pair is ever pushed and a restore finds a
   dump and an archive.
2. `Migrating`: `CopiesApplied`, the ledger is within the schema, in the database
   and in every copy a restore may load; `OnTrack`, the list of pending files an
   operator read once is still enough, because whatever is not on it is in the
   ledger, and the file that is about to be recorded has been applied;
   `Finished`, the seed goes from table to table. Outside `Deploy`, the restores
   and the loss of the disk the database only grows (`GrowthKeepsJobs`) and those
   four end every job under way, which is why a second operator disturbs
   nobody. `MigrationsInOrder` follows with `FirstIsLeast`: the first pending
   file is the least, and what it refers to is less, so it is not pending.
   `FirstIsLeast` is where the order of the names enters, by the
   well-foundedness of `<`.
3. `Kept`: unless the evidence is `spoiled`, one backup is under way at most
   (`Lone`), and what it has in hand, what it has moved and what it pushed holds
   an artifact for every run (`InHand`): runs are dumped before artifacts are
   archived, and artifacts are only added.

Each layer is an inductive invariant relative to the ones before it.

### Accounts

1. `Typed`: `TypeOK` with the domain of every row and request and with `Names`,
   what a request in flight names: its challenge was issued, its user exists,
   its passkey or identity is of the kind the operation works on.
2. `Grows` and `QuietOrWrites` sum a step up: what no step takes back, and that a
   step either writes none of the rows a request has read or is one of nine
   writes. The invariants below are proved from the summaries, so that a request
   in another thread is looked at once for each kind of write and not once for
   each action.
3. `SessionsInv`: a bound identity is one its user has held, and a login in flight
   was `Proven`. An identity that is moved meanwhile stays in `held`, which is
   why a session opened late is still backed.
4. `EnrolmentsInv`: a challenge for a registration was issued on a good `ground`,
   what `CheckOwner` found; an enrolment in flight holds a challenge of its
   user; an owned passkey has one of its owner. No step changes the user or the
   ground of an issued challenge.
5. `OnceInv`: a request that nothing has overtaken is `Fresh`, it still sees what
   it checked. A commit of another thread either leaves that alone or marks the
   request stale, and only a stale request ends in `raced`.
6. `LinksInv`: a link was asked for, and unless it is stale the account it takes
   the identity from is bare but for it.

### Contributions

Requests, imports, staging files and promotions share no variable but the
staging files, so each part has its own invariant and `Parts` splits a step into
the step of one part and a stutter of the others.

- `ReportsInv`: whoever has the event loop found room in the quota and no twin.
  It is here that the exactness of the quota rests on the loop.
- `PostsInv`: posts of the window and posts in flight together are at most the
  limit and all threads but one. `OvershootBounded` alone is not inductive: a
  check passes with others in flight, and what they will add is in the invariant.
- `ImportsInv`: a cell of a file is still to be read, inserted in this
  transaction, or in the table.
- `StagingIsSound` is inductive with its types; `PromotionTyped` has that metrics
  are of promoted runs, so that no reference of theirs dangles.

### PoolPipeline

1. `Typed`, with the domain of the pipeline's step and of every document.
2. `PagesInv`: of the runs that were listed when the paging began, those not
   fetched yet are in front of the offset (`PagesAhead`), because an insertion
   only moves a run to the right. `Inserted` and `Removed` say what the two
   edits of the listing do to the places of the others.
3. `ServingInv`: a flag that lets a run pass is the word of some assessment
   (`FlagsAreEarned`), every document holds only such runs as they stood
   (`DocumentsSound`), and from the assessment to the end of the pipeline the
   flags are what an assessment of the rows would say now (`FlagsAreFresh`).
4. `DoneInv`: the documents state the tables (`Writing`), those before the one at
   hand are written and copied (`Copying`), and after the last they are equal
   (`Written`, `Copied`). A fault leaves the pipeline at rest without the word
   that it ended well, which is where torn files enter.

`KindsOfSteps` sorts the actions into those that touch neither tables nor
pipeline, the commands before the assessment and those after it; 3 and 4 follow
the kinds.

### Matching

The steps only add evidence, so `TypeOK` is the invariant, and the proofs are
about what is computed from any evidence of that type.

1. Order. `LexLess` on integer tuples of one length is irreflexive, transitive and
   total; the rank of an element is the number of those before it; `FirstK`
   leaves nothing out that comes before what it holds (`CutsKeepOrder`), and
   `Nth` exists for every rank, because ranks are an injection into as many
   numbers (`NthIs`).
2. Evidence. `EstimatesTyped`: there is at most one estimate, it is a number and
   rests on a run. `EstimatesRise`, `PicksRise`: with more runs a cell only
   grows and rigs to extrapolate from only appear.
3. Answers. `BetterIsBefore` makes the comparison and the sort key one order. Two
   candidates of a model differ in their size (`OneCandidate`), so the
   comparison is total and a best one is there (`BestIsThere`). Lists as long as
   there are rigs and models are not cut off (`AllPicks`, `AllHardware`), and on
   those the two questions confirm each other (`BothWays`). `PreferredIsBefore`
   and `CutsKeepOrder` give `PicksArePreferred`.
4. Leaderboard. The values of a dimension are in order (`ValuesAre`), a percentile
   interpolates between neighbours and so grows with the rank
   (`PercentilesGrow`, which needs the monotonicity of integer division), hence
   the share of a better value is not smaller (`SharesAre`, clamps included) and
   neither is the weighted sum.
5. Sums. A sum over the GPUs of a question folds over a set in an order nobody
   knows. `SumsExist` builds the function that the fold iterates, by the least
   number of elements where it would fail, and `SumsAre` bounds it: a number,
   positive if all summands are, and the summand itself where there is one.
6. Kernel. `FitsIff`: the division of the context check (`QuotientAtLeast`) makes
   it the inequality of the footprint check, and the cap is the only difference;
   hence `FeasibleGrows`, more memory or a smaller batch keeps what is feasible.
   `WeightsRead` and `DecodeRateIs`: a rate is a fraction with a positive divisor.
   `ReadsGrow`: what a step reads grows no faster than the batch, by cases dense,
   saturated, unsaturated, and the change from active weights to distinct experts
   at two (`SecondOfMixture`), the one place where `AddsUp` enters.
   `BatchesAreNotSlower` follows, the bytes of the cache cancel.
7. Orders. `SlowerIs` and `SlowerTransitive`: rates compared by cross
   multiplication are a weak order. `TiesAreBroken`: a weak order whose ties are
   broken by the position of a row puts a finite set in a line (`Lines`), as
   `sort`, `min` and `max` of Python do with the order of the query.
   `LinesHaveAFirst`, so a best configuration exists and nothing feasible is
   better (`BestIsChosen`); `LeftOutBehindAll`, so a feasible candidate that is
   cut off has a full list of feasible ones before it (`FullOfFeasible`).
8. Services. `OffersAre` and `ConfigsAre` say what is read of a row of an answer.
   With them the configuration behind a match is a candidate of the model's
   question and the other way round, and 6 and 7 compare the two.

Each layer is an inductive invariant relative to the ones before it, or, in
`Matching`, a consequence of the types.

### Only model-checked

Liveness (`EveryRunAnnounced`, `BacklogDrains`, `ValidatedClaimSettles`,
`EventuallyCurrent`) is out of the prover's reach. Every safety invariant and
every step property of a passing run is a theorem.

## 5. Not modelled

Formulas in floating point are integers or fractions here, and where the code
rounds, the model rounds the same way only as far as it says so in a comment.
Trust scores and the z-score are reduced to whether they can flag at all. The
content of reports and artifacts, signatures and cryptography, SQL isolation
below "a transaction is one step" (every write of the modelled code is one
statement or one short transaction whose reads were made earlier) and the
extraction of cells from model cards and workflow templates are left out.

Not modelled at all: the probe CLI (its search over runtime settings is
sequential arithmetic over measured samples, and it meets the server only
through the signed report), canirunit and comfy-lab (arithmetic on a fixed
catalog, batch scripts over HTTP), catalog listings, feed, rigs and follows
(single statements), rendering, the web front ends, schemas and parsers of tool
output, test doubles, and vendored code. Imported claims, which have no
claimant, cannot be retracted or settled and are left out of `ClaimSettlement`.

## 6. Plan

Done: the intake with its abstract specification; claims, settlement and
reports; accounts; contributions; the pool pipeline; the answers of the match
services; deployment and backups; proofs of all safety properties of the intake,
of the refinement, of the claims, the accounts, the contributions, the pool
pipeline and the deployment, and of all that the pool, the leaderboard and the
match services answer.

What is left, most important first:

1. A `TuningSearch` module: the probe's search and the sweet spot as functions,
   checked against a reference definition over bounded inputs.
2. The catalog expansion and the lab import as further sources of
   `PoolPipeline`.
