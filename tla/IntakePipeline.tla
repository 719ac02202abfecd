--------------------------- MODULE IntakePipeline ---------------------------
(***************************************************************************)
(* The signed-run intake of bestmodel: the API handler that stores the     *)
(* artifacts, refuses duplicates, commits the run and publishes its event; *)
(* the Redis stream with its consumer group; and the one intake worker     *)
(* that reads a batch, judges every run and acknowledges it.  The API      *)
(* process, the worker and Redis may each fail between any two steps.      *)
(*                                                                         *)
(* The submission route is an `async def` with a synchronous body in one   *)
(* uvicorn process: submissions never overlap, so `api` is one record.     *)
(***************************************************************************)
EXTENDS Integers, Sequences, FiniteSets, Functions

CONSTANTS
  Uploads,     \* signed reports clients hold and may POST any number of times
  Honest,      \* uploads whose report passes the payload and evidence checks
  Lookups,     \* five-column keys of find_run_by_lookup
  LookupOf,    \* LookupOf[u]: the key an upload resolves to
  Groups,      \* dimension groups of the worker (model, quant, engine, tokens)
  GroupOf,     \* GroupOf[l]: the group of a key
  VideoGroups, \* groups of video scenarios, whose token columns are NULL
  Runs,        \* fresh uuids for benchmark_run rows
  NoUpload,    \* the upload of a run id not in use
  NoRun,       \* the run the API handler has in hand before it inserts one
  NoKey,       \* the key of a run id not in use, in the abstract lifecycle
  BatchCount,  \* count= of XREADGROUP
  MaxApiFaults, MaxWorkerCrashes, MaxRedisCrashes  \* bounds on failures

ASSUME PipelineAssumption ==
  /\ Honest \subseteq Uploads
  /\ LookupOf \in [Uploads -> Lookups]
  /\ GroupOf \in [Lookups -> Groups]
  /\ VideoGroups \subseteq Groups
  /\ NoUpload \notin Uploads
  /\ NoRun \notin Runs
  /\ NoKey \notin Lookups
  /\ BatchCount \in Nat \ {0}
  /\ MaxApiFaults \in Nat /\ MaxWorkerCrashes \in Nat /\ MaxRedisCrashes \in Nat

VARIABLES
  vault,    \* vault[u]: the artifact files of upload u: "none", "torn", "whole"
  uploadOf, \* uploadOf[r]: the upload row r was inserted from
  status,   \* benchmark_run.status, "absent" for an id not in use
  assessed, \* runs with a trust_assessment row
  settled,  \* validated runs whose settlement hook has run to its end
  stream,   \* the entries of benchmark_runs, oldest first
  cursor,   \* how many of them the consumer group has delivered
  pel,      \* entries delivered and not acknowledged
  ranking,  \* events of the ranking_updates stream
  disk,     \* the state of Redis its append-only file would restore
  api,      \* the submission handler: [pc, upload, run]
  worker,   \* the intake worker: [pc, batch, evidence, verdict]
  faults    \* failures so far: [api, worker, redis]

postgres == <<uploadOf, status, assessed, settled>>
redis    == <<stream, cursor, pel, ranking>>
vars     == <<vault, postgres, redis, disk, api, worker, faults>>

Verdicts == {"validated", "quarantined", "rejected"}
Blocking == {"validated", "quarantined"}   \* BLOCKING_STATUSES

ApiIdle    == [pc |-> "idle", upload |-> NoUpload, run |-> NoRun]
WorkerIdle == [pc |-> "idle", batch |-> <<>>, evidence |-> FALSE,
               verdict |-> "rejected"]
RedisState == [stream |-> stream, cursor |-> cursor, pel |-> pel,
               ranking |-> ranking]

Decided(r) == status[r] \in Verdicts
Key(r)     == LookupOf[uploadOf[r]]

(* The rows _group_where selects for run r: same group columns, another    *)
(* id.  A video row has NULL token columns, which equal nothing in SQL, so *)
(* it is in no group.                                                      *)
GroupRows(r) ==
  {s \in Runs \ {r} : /\ status[s] # "absent"
                      /\ GroupOf[Key(s)] = GroupOf[Key(r)]
                      /\ GroupOf[Key(r)] \notin VideoGroups}

(* Mutant: the columns of the API's lookup instead of the group's.         *)
DuplicateByKey(r) ==
  \E s \in GroupRows(r) : status[s] \in Blocking /\ Key(s) = Key(r)

Duplicate(r) == \E s \in GroupRows(r) : status[s] \in Blocking
PeerRows(r)  == {s \in GroupRows(r) : status[s] = "validated"}

(* The z-score needs a population of three, the run and two peers.         *)
MaybeOutlier(r) == /\ GroupOf[Key(r)] \notin VideoGroups
                   /\ Cardinality(PeerRows(r)) >= 2

-----------------------------------------------------------------------------
Init ==
  /\ vault = [u \in Uploads |-> "none"]
  /\ uploadOf = [r \in Runs |-> NoUpload]
  /\ status = [r \in Runs |-> "absent"]
  /\ assessed = {} /\ settled = {}
  /\ stream = <<>> /\ cursor = 0 /\ pel = {} /\ ranking = {}
  /\ disk = RedisState
  /\ api = ApiIdle
  /\ worker = WorkerIdle
  /\ faults = [api |-> 0, worker |-> 0, redis |-> 0]

-----------------------------------------------------------------------------
(* The submission handler                                                  *)

(* POST of a well-formed, correctly signed report.  A malformed one is     *)
(* refused before anything is stored.                                      *)
Receive(u) ==
  /\ api.pc = "idle"
  /\ api' = [api EXCEPT !.pc = "store", !.upload = u]
  /\ UNCHANGED <<vault, postgres, redis, disk, worker, faults>>

(* write_bytes opens the file for writing, which truncates it ...          *)
TruncateArtifacts ==
  /\ api.pc = "store"
  /\ vault' = [vault EXCEPT ![api.upload] = "torn"]
  /\ api' = [api EXCEPT !.pc = "write"]
  /\ UNCHANGED <<postgres, redis, disk, worker, faults>>

(* ... and then writes the bytes, on an accepted upload's retry as well:   *)
(* the vault is filled before the duplicate check.                         *)
WriteArtifacts ==
  /\ api.pc = "write"
  /\ vault' = [vault EXCEPT ![api.upload] = "whole"]
  /\ api' = [api EXCEPT !.pc = "dedupe"]
  /\ UNCHANGED <<postgres, redis, disk, worker, faults>>

(* Mutant: only runs that already have a verdict count as existing.        *)
KeyTakenByJudged(l) == \E r \in Runs : Decided(r) /\ Key(r) = l

KeyTaken(l) == \E r \in Runs : status[r] # "absent" /\ Key(r) = l

(* _reject_if_duplicate: a run with this key, in whatever status, is a 409. *)
RejectIfDuplicate ==
  /\ api.pc = "dedupe"
  /\ api' = IF KeyTaken(LookupOf[api.upload])
            THEN ApiIdle ELSE [api EXCEPT !.pc = "insert"]
  /\ UNCHANGED <<vault, postgres, redis, disk, worker, faults>>

(* All rows of the run are inserted in one transaction and committed.      *)
CommitRun(r) ==
  /\ api.pc = "insert"
  /\ status[r] = "absent"
  /\ status' = [status EXCEPT ![r] = "submitted"]
  /\ uploadOf' = [uploadOf EXCEPT ![r] = api.upload]
  /\ api' = [api EXCEPT !.pc = "publish", !.run = r]
  /\ UNCHANGED <<vault, assessed, settled, redis, disk, worker, faults>>

(* XADD benchmark_runs, after the commit.                                  *)
Publish ==
  /\ api.pc = "publish"
  /\ stream' = Append(stream, api.run)
  /\ api' = ApiIdle
  /\ UNCHANGED <<vault, postgres, cursor, pel, ranking, disk, worker, faults>>

(* The API process dies, or a call of the handler raises: an uncommitted   *)
(* transaction is gone, a committed one stays without its event.           *)
ApiFault ==
  /\ api.pc # "idle"
  /\ faults.api < MaxApiFaults
  /\ api' = ApiIdle
  /\ faults' = [faults EXCEPT !.api = @ + 1]
  /\ UNCHANGED <<vault, postgres, redis, disk, worker>>

-----------------------------------------------------------------------------
(* The intake worker                                                       *)

Current == Head(worker.batch)

(* Mutant: XREADGROUP ... NOACK, which keeps no pending list.              *)
ReadBatchNoAck ==
  LET n == IF Len(stream) - cursor < BatchCount
           THEN Len(stream) - cursor ELSE BatchCount
  IN  /\ worker.pc = "idle" /\ n > 0
      /\ cursor' = cursor + n
      /\ worker' = [worker EXCEPT !.pc = "hydrate",
                      !.batch = SubSeq(stream, cursor + 1, cursor + n)]
      /\ UNCHANGED <<vault, postgres, stream, pel, ranking, disk, api, faults>>

(* Mutant: the next read starts at the last entry of this one.             *)
ReadBatchFromLast ==
  LET n == IF Len(stream) - cursor < BatchCount
           THEN Len(stream) - cursor ELSE BatchCount
      new == SubSeq(stream, cursor + 1, cursor + n)
  IN  /\ worker.pc = "idle" /\ n > 0
      /\ cursor' = cursor + n - 1
      /\ pel' = pel \cup Range(new)
      /\ worker' = [worker EXCEPT !.pc = "hydrate", !.batch = new]
      /\ UNCHANGED <<vault, postgres, stream, ranking, disk, api, faults>>

(* Mutant: the worker waits for a full batch.                              *)
ReadBatchWhenFull ==
  LET new == SubSeq(stream, cursor + 1, cursor + BatchCount)
  IN  /\ worker.pc = "idle" /\ Len(stream) - cursor >= BatchCount
      /\ cursor' = cursor + BatchCount
      /\ pel' = pel \cup Range(new)
      /\ worker' = [worker EXCEPT !.pc = "hydrate", !.batch = new]
      /\ UNCHANGED <<vault, postgres, stream, ranking, disk, api, faults>>

(* XREADGROUP with id ">": the next entries never delivered to the group,  *)
(* at most BatchCount of them.  Nothing ever asks for delivered ones.      *)
ReadBatch ==
  LET n == IF Len(stream) - cursor < BatchCount
           THEN Len(stream) - cursor ELSE BatchCount
      new == SubSeq(stream, cursor + 1, cursor + n)
  IN  /\ worker.pc = "idle"
      /\ n > 0
      /\ cursor' = cursor + n
      /\ pel' = pel \cup Range(new)
      /\ worker' = [worker EXCEPT !.pc = "hydrate", !.batch = new]
      /\ UNCHANGED <<vault, postgres, stream, ranking, disk, api, faults>>

(* fetch_run_payload: the row, and the artifact bytes as the vault has     *)
(* them now; a torn file fails the hash check of its declared digest.  A   *)
(* run with no row is acknowledged without more ado.                       *)
Hydrate ==
  /\ worker.pc = "hydrate"
  /\ worker' = IF status[Current] = "absent"
               THEN [worker EXCEPT !.pc = "ack"]
               ELSE [worker EXCEPT !.pc = "judge",
                       !.evidence = /\ vault[uploadOf[Current]] = "whole"
                                    /\ uploadOf[Current] \in Honest]
  /\ UNCHANGED <<vault, postgres, redis, disk, api, faults>>

(* The verdicts _decide_status can reach.  Plausibility against hardware   *)
(* limits never flags: submissions insert hardware with no catalog GPU.    *)
VerdictsFor(r) ==
  IF ~worker.evidence \/ Duplicate(r) THEN {"rejected"}
  ELSE IF MaybeOutlier(r) THEN {"quarantined", "validated"}
  ELSE {"validated"}

Judge ==
  /\ worker.pc = "judge"
  /\ \E v \in VerdictsFor(Current) :
       worker' = [worker EXCEPT !.pc = "trust", !.verdict = v]
  /\ UNCHANGED <<vault, postgres, redis, disk, api, faults>>

(* Each of the next three writes is a transaction of its own.              *)
RecordTrustAssessment ==
  /\ worker.pc = "trust"
  /\ assessed' = assessed \cup {Current}
  /\ worker' = [worker EXCEPT !.pc = "status"]
  /\ UNCHANGED <<vault, uploadOf, status, settled, redis, disk, api, faults>>

(* Mutant: the ranking update goes out before the settlement.              *)
SetRunStatusThenRank ==
  /\ worker.pc = "status"
  /\ status' = [status EXCEPT ![Current] = worker.verdict]
  /\ worker' = [worker EXCEPT !.pc = "rank"]
  /\ UNCHANGED <<vault, uploadOf, assessed, settled, redis, disk, api, faults>>

SetRunStatus ==
  /\ worker.pc = "status"
  /\ status' = [status EXCEPT ![Current] = worker.verdict]
  /\ worker' = [worker EXCEPT !.pc = "settle"]
  /\ UNCHANGED <<vault, uploadOf, assessed, settled, redis, disk, api, faults>>

(* settle_claims_for_run; what it does to claims is ClaimSettlement's.     *)
SettleClaims ==
  /\ worker.pc = "settle"
  /\ settled' = IF worker.verdict = "validated"
                THEN settled \cup {Current} ELSE settled
  /\ worker' = [worker EXCEPT !.pc = "rank"]
  /\ UNCHANGED <<vault, uploadOf, status, assessed, redis, disk, api, faults>>

PublishRankingUpdate ==
  /\ worker.pc = "rank"
  /\ ranking' = ranking \cup {[run |-> Current, status |-> worker.verdict]}
  /\ worker' = [worker EXCEPT !.pc = "ack"]
  /\ UNCHANGED <<vault, postgres, stream, cursor, pel, disk, api, faults>>

(* Mutant: one XACK for the whole batch after its first message.           *)
AcknowledgeBatch ==
  /\ worker.pc = "ack"
  /\ pel' = pel \ Range(worker.batch)
  /\ worker' = WorkerIdle
  /\ UNCHANGED <<vault, postgres, stream, cursor, ranking, disk, api, faults>>

(* Mutant: the loop over the batch runs once too often.                    *)
AcknowledgeAndGoOn ==
  /\ worker.pc = "ack"
  /\ pel' = pel \ {Current}
  /\ worker' = [WorkerIdle EXCEPT !.pc = "hydrate", !.batch = Tail(worker.batch)]
  /\ UNCHANGED <<vault, postgres, stream, cursor, ranking, disk, api, faults>>

(* XACK, then the next message of the batch or the next round.             *)
Acknowledge ==
  /\ worker.pc = "ack"
  /\ pel' = pel \ {Current}
  /\ worker' = IF Len(worker.batch) = 1 THEN WorkerIdle
               ELSE [WorkerIdle EXCEPT !.pc = "hydrate",
                                       !.batch = Tail(worker.batch)]
  /\ UNCHANGED <<vault, postgres, stream, cursor, ranking, disk, api, faults>>

(* An exception leaves run_worker_loop, or the process is killed; the      *)
(* container is restarted and its loop asks for ">" again.                 *)
WorkerCrash ==
  /\ worker.pc # "idle"
  /\ faults.worker < MaxWorkerCrashes
  /\ worker' = WorkerIdle
  /\ faults' = [faults EXCEPT !.worker = @ + 1]
  /\ UNCHANGED <<vault, postgres, redis, disk, api>>

-----------------------------------------------------------------------------
(* Redis runs with an append-only file that is flushed once a second: a    *)
(* crash takes it back to the last flush.                                  *)

Fsync ==
  /\ faults.redis < MaxRedisCrashes
  /\ disk # RedisState
  /\ disk' = RedisState
  /\ UNCHANGED <<vault, postgres, redis, api, worker, faults>>

RedisCrash ==
  /\ faults.redis < MaxRedisCrashes
  /\ stream' = disk.stream /\ cursor' = disk.cursor
  /\ pel' = disk.pel /\ ranking' = disk.ranking
  /\ faults' = [faults EXCEPT !.redis = @ + 1]
  /\ UNCHANGED <<vault, postgres, disk, api, worker>>

-----------------------------------------------------------------------------
ApiStep ==
  \/ TruncateArtifacts
  \/ WriteArtifacts
  \/ RejectIfDuplicate
  \/ \E r \in Runs : CommitRun(r)
  \/ Publish

WorkerStep ==
  \/ ReadBatch
  \/ Hydrate
  \/ Judge
  \/ RecordTrustAssessment
  \/ SetRunStatus
  \/ SettleClaims
  \/ PublishRankingUpdate
  \/ Acknowledge

Fault == ApiFault \/ WorkerCrash \/ Fsync \/ RedisCrash

Next == (\E u \in Uploads : Receive(u)) \/ ApiStep \/ WorkerStep \/ Fault

(* Both processes keep running, restarted when they die; no client has to  *)
(* submit anything and nothing has to fail.                                *)
Fairness == WF_vars(ApiStep) /\ WF_vars(WorkerStep)

Spec     == Init /\ [][Next]_vars
FairSpec == Spec /\ Fairness
-----------------------------------------------------------------------------
(* Properties                                                              *)

RowsOK ==
  /\ vault \in [Uploads -> {"none", "torn", "whole"}]
  /\ uploadOf \in [Runs -> Uploads \cup {NoUpload}]
  /\ status \in [Runs -> Verdicts \cup {"absent", "submitted"}]
  /\ assessed \subseteq Runs /\ settled \subseteq Runs

RedisOK ==
  /\ stream \in Seq(Runs) /\ cursor \in 0 .. Len(stream) /\ pel \subseteq Runs
  /\ ranking \subseteq [run : Runs, status : Verdicts]

DiskOK ==
  /\ disk \in [stream : Seq(Runs), cursor : Nat, pel : SUBSET Runs,
               ranking : SUBSET [run : Runs, status : Verdicts]]
  /\ disk.cursor <= Len(disk.stream)

ApiOK ==
  /\ api \in [pc : {"idle", "store", "write", "dedupe", "insert", "publish"},
              upload : Uploads \cup {NoUpload}, run : Runs \cup {NoRun}]
  /\ api.pc # "idle" => api.upload \in Uploads
  /\ api.pc = "publish" => api.run \in Runs

WorkerOK ==
  /\ worker \in [pc : {"idle", "hydrate", "judge", "trust", "status",
                       "settle", "rank", "ack"},
                 batch : Seq(Runs), evidence : BOOLEAN, verdict : Verdicts]
  /\ worker.pc = "idle" <=> worker.batch = <<>>

(* Every variable has its type; the worker has a message in hand exactly   *)
(* when it is not idle (worker.py, submit_benchmark_run.py).               *)
TypeOK ==
  /\ RowsOK /\ RedisOK /\ DiskOK /\ ApiOK /\ WorkerOK
  /\ faults \in [api : Nat, worker : Nat, redis : Nat]

(* The check-then-insert of _reject_if_duplicate never admits two runs     *)
(* with one five-column key, although no unique index backs it.            *)
OneRunPerKey ==
  \A r, s \in Runs :
    (status[r] # "absent" /\ status[s] # "absent" /\ Key(r) = Key(s)) => r = s

(* At most one run of an llm dimension group is validated or quarantined,  *)
(* whatever is crashed, redelivered or judged again                        *)
(* (detect_duplicate_submission.py).                                       *)
OneBlockingRunPerGroup ==
  \A r, s \in Runs :
    (/\ status[r] \in Blocking /\ status[s] \in Blocking
     /\ GroupOf[Key(r)] = GroupOf[Key(s)]
     /\ GroupOf[Key(r)] \notin VideoGroups) => r = s

(* No signed run is ever quarantined: the duplicate check, which comes     *)
(* first, leaves the z-score no peers, and no GPU is bound to check against *)
(* (worker.py process_run, _ensure_hardware_submission).                   *)
NeverQuarantined == \A r \in Runs : status[r] # "quarantined"

(* The verdict and the trust assessment are written by two transactions; a *)
(* crash between them never shows a verdict without its assessment         *)
(* (process_run, record_trust_assessment, set_run_status).                 *)
DecidedIsAssessed == \A r \in Runs : Decided(r) => r \in assessed

Written(e) == /\ Decided(e.run) /\ e.run \in assessed
              /\ e.status = "validated" => e.run \in settled

(* A ranking update is announced only when all of the run's rows are       *)
(* written and, for a validated run, its claim has been looked at.         *)
RankedIsWritten == \A e \in ranking : Written(e)

(* An entry the group was given and no longer holds pending belongs to a   *)
(* run with a verdict: nothing is acknowledged unprocessed                 *)
(* (consume_pending_events).                                               *)
AckedIsDecided ==
  \A i \in 1 .. cursor : stream[i] \in pel \/ Decided(stream[i])

(* A run that waits for its verdict is about to be published, in the       *)
(* stream beyond the cursor, or in the pending list - unless the API failed *)
(* between commit and publish, or Redis lost its last second.              *)
AccountedFor ==
  \A r \in Runs : status[r] = "submitted" =>
    \/ api.pc = "publish" /\ api.run = r
    \/ r \in Range(SubSeq(stream, cursor + 1, Len(stream)))
    \/ r \in pel
    \/ faults.api > 0 \/ faults.redis > 0

(* A verdict, once stored, changes only if Redis went back and delivered   *)
(* the run's event again (worker.py: submitted -> validated | quarantined  *)
(* | rejected).                                                            *)
VerdictFinal ==
  [][\A r \in Runs : Decided(r) =>
       status'[r] = status[r] \/ faults.redis > 0]_vars

(* The lifecycle of RunLifecycle, with the key of a run read off the       *)
(* upload it was inserted from.                                            *)
Lifecycle == INSTANCE RunLifecycle WITH
  key <- [r \in Runs |-> IF uploadOf[r] = NoUpload THEN NoKey ELSE Key(r)]

(* The intake implements the abstract lifecycle: one acceptance per key,   *)
(* one verdict per run, one counting run per llm group.                    *)
ImplementsLifecycle == Lifecycle!Spec

(* Delivered, not acknowledged, and in no batch: nobody reads it again.    *)
Abandoned(r) == r \in pel /\ r \notin Range(worker.batch)

Announced(r) == \E e \in ranking : e.run = r /\ e.status = status[r]

(* Every accepted run gets a verdict and its ranking update, and a         *)
(* validated one has its claim looked at, unless the worker failed or      *)
(* Redis went back.                                                        *)
EveryRunAnnounced ==
  \A r \in Runs : (status[r] = "submitted") ~>
    \/ Decided(r) /\ Announced(r) /\ (status[r] = "validated" => r \in settled)
    \/ faults.worker > 0 \/ faults.redis > 0

(* A worker crash loses only the batch it had read: what the stream still  *)
(* holds for the group is judged, abandoned by another crash, or lost with *)
(* the last second of Redis.                                               *)
BacklogDrains ==
  \A r \in Runs : (r \in Range(SubSeq(stream, cursor + 1, Len(stream)))) ~>
    (Decided(r) \/ Abandoned(r) \/ faults.redis > 0)

-----------------------------------------------------------------------------
(* What documents of the repository say, and the code does not keep        *)

(* docs/architecture.md on the worker: "Durability: events stay in the     *)
(* stream until xack after processing", that is, a published run is        *)
(* processed in the end.                                                   *)
PublishedIsProcessed ==
  \A r \in Runs : (r \in Range(stream)) ~> Decided(r)

=============================================================================
