------------------------ MODULE IntakePipelineProofs ------------------------
(***************************************************************************)
(* Proofs about IntakePipeline, for any number of uploads, keys, groups,   *)
(* runs and failures: its invariants, then that it implements RunLifecycle.*)
(***************************************************************************)
EXTENDS IntakePipeline, SequenceTheorems, FiniteSetTheorems, TLAPS

(* A run has an upload exactly when its row is there.                      *)
UploadKnown == \A r \in Runs : uploadOf[r] = NoUpload <=> status[r] = "absent"

(* Whatever Redis, its disk and the two processes hold belongs to a run    *)
(* that was committed before.                                              *)
OnlyCommitted ==
  /\ \A i \in 1 .. Len(stream) : status[stream[i]] # "absent"
  /\ \A i \in 1 .. Len(disk.stream) : status[disk.stream[i]] # "absent"
  /\ \A i \in 1 .. Len(worker.batch) : status[worker.batch[i]] # "absent"
  /\ api.pc = "publish" => status[api.run] # "absent"

(* A handler past its duplicate check inserts a key nobody has.            *)
InsertIsFresh == api.pc = "insert" => ~KeyTaken(LookupOf[api.upload])

(* A worker that has decided to let a run count is still right about it.   *)
VerdictIsCurrent ==
  (worker.pc \in {"trust", "status"} /\ worker.verdict \in Blocking)
    => ~Duplicate(Current)

(* What the worker has written when it has come so far.                    *)
Progress ==
  /\ worker.pc = "status" => Current \in assessed
  /\ worker.pc \in {"settle", "rank", "ack"} => Decided(Current)
  /\ (worker.pc = "rank" /\ worker.verdict = "validated") => Current \in settled

(* The disk of Redis is as good as its memory.                             *)
DiskIsGood ==
  /\ \A e \in disk.ranking : Written(e)
  /\ \A i \in 1 .. disk.cursor :
       disk.stream[i] \in disk.pel \/ Decided(disk.stream[i])

-----------------------------------------------------------------------------
(* What the worker reads is a non-empty stretch of the stream.             *)
LEMMA NextBatch ==
  ASSUME NEW S, NEW s \in Seq(S), NEW c \in 0 .. Len(s), NEW n \in Nat,
         n > 0, c + n <= Len(s)
  PROVE  /\ SubSeq(s, c + 1, c + n) \in Seq(S)
         /\ Len(SubSeq(s, c + 1, c + n)) = n
         /\ \A i \in 1 .. n : SubSeq(s, c + 1, c + n)[i] = s[c + i]
         /\ \A i \in 1 .. n : s[c + i] \in Range(SubSeq(s, c + 1, c + n))
  <1> DEFINE new == SubSeq(s, c + 1, c + n)
  <1>1. /\ c + 1 \in 1 .. Len(s) + 1 /\ c + n \in (c + 1) - 1 .. Len(s)
        /\ (c + n) - (c + 1) + 1 = n
    OBVIOUS
  <1>2. new \in Seq(S) /\ Len(new) = n
        /\ \A i \in 1 .. n : new[i] = s[c + i]
    BY <1>1, SubSeqProperties
  <1>3. DOMAIN new = 1 .. n
    BY <1>2
  <1> QED
    BY <1>2, <1>3 DEF Range
-----------------------------------------------------------------------------
(* Every variable keeps its type, whatever the processes do and however    *)
(* often they fail.                                                        *)

LEMMA TypeInit == Init => TypeOK
  BY PipelineAssumption DEF Init, TypeOK, RowsOK, RedisOK, DiskOK, ApiOK, WorkerOK,
    ApiIdle, WorkerIdle, RedisState, Verdicts

LEMMA ReadsNext ==
  ASSUME TypeOK, ReadBatch
  PROVE  \E n \in Nat \ {0} :
           LET new == SubSeq(stream, cursor + 1, cursor + n)
           IN  /\ cursor + n <= Len(stream) /\ cursor' = cursor + n
               /\ pel' = pel \cup Range(new)
               /\ worker' = [worker EXCEPT !.pc = "hydrate", !.batch = new]
  <1> DEFINE n == IF Len(stream) - cursor < BatchCount
                  THEN Len(stream) - cursor ELSE BatchCount
  <1>1. n \in Nat \ {0} /\ cursor + n <= Len(stream)
    BY PipelineAssumption DEF TypeOK, RedisOK, ReadBatch
  <1>2. /\ cursor' = cursor + n
        /\ pel' = pel \cup Range(SubSeq(stream, cursor + 1, cursor + n))
        /\ worker' = [worker EXCEPT !.pc = "hydrate",
                        !.batch = SubSeq(stream, cursor + 1, cursor + n)]
    BY DEF ReadBatch
  <1> HIDE DEF n
  <1> QED
    BY <1>1, <1>2

LEMMA TypeReadBatch == TypeOK /\ ReadBatch => TypeOK'
  <1> SUFFICES ASSUME TypeOK, ReadBatch PROVE TypeOK'
    OBVIOUS
  <1>1. PICK n \in Nat \ {0} :
          /\ cursor + n <= Len(stream) /\ cursor' = cursor + n
          /\ pel' = pel \cup Range(SubSeq(stream, cursor + 1, cursor + n))
          /\ worker' = [worker EXCEPT !.pc = "hydrate",
                          !.batch = SubSeq(stream, cursor + 1, cursor + n)]
    BY ReadsNext
  <1> DEFINE new == SubSeq(stream, cursor + 1, cursor + n)
  <1>2. stream \in Seq(Runs) /\ cursor \in 0 .. Len(stream)
    BY DEF TypeOK, RedisOK
  <1>3. new \in Seq(Runs) /\ Len(new) = n
    BY <1>1, <1>2, NextBatch
  <1>4. UNCHANGED <<vault, uploadOf, status, assessed, settled, stream,
                    ranking, disk, api, faults>>
    BY DEF ReadBatch, postgres
  <1> HIDE DEF new
  <1>5. new # <<>> /\ Range(new) \subseteq Runs
    BY <1>3, EmptySeq DEF Range
  <1>6. cursor' = cursor + n /\ pel' = pel \cup Range(new)
        /\ worker' = [worker EXCEPT !.pc = "hydrate", !.batch = new]
    BY <1>1 DEF new
  <1>7. RedisOK'
    BY <1>1, <1>2, <1>4, <1>5, <1>6 DEF TypeOK, RedisOK
  <1>8. WorkerOK'
    BY <1>3, <1>5, <1>6 DEF TypeOK, WorkerOK
  <1>9. RowsOK' /\ DiskOK' /\ ApiOK'
    BY <1>4 DEF TypeOK, RowsOK, DiskOK, ApiOK
  <1> QED
    BY <1>4, <1>7, <1>8, <1>9 DEF TypeOK

(* The batch shrinks from its head; it is empty only in an idle worker.    *)
LEMMA BatchShrinks ==
  ASSUME TypeOK, worker.pc # "idle"
  PROVE  /\ worker.batch \in Seq(Runs) /\ worker.batch # <<>>
         /\ Len(worker.batch) \in Nat \ {0}
         /\ Current = worker.batch[1] /\ Current \in Runs
         /\ Tail(worker.batch) \in Seq(Runs)
         /\ Len(worker.batch) # 1 => Tail(worker.batch) # <<>>
         /\ \A i \in 1 .. Len(Tail(worker.batch)) :
              Tail(worker.batch)[i] = worker.batch[i + 1]
         /\ Len(Tail(worker.batch)) = Len(worker.batch) - 1
  <1>1. worker.batch \in Seq(Runs) /\ worker.batch # <<>>
    BY DEF TypeOK, WorkerOK
  <1>2. Len(worker.batch) \in Nat \ {0}
    BY <1>1
  <1>3. Current = worker.batch[1] /\ Current \in Runs
    BY <1>1, <1>2, ElementOfSeq DEF Current
  <1>4. /\ Tail(worker.batch) \in Seq(Runs)
        /\ Len(Tail(worker.batch)) = Len(worker.batch) - 1
        /\ \A i \in 1 .. Len(Tail(worker.batch)) :
             Tail(worker.batch)[i] = worker.batch[i + 1]
    BY <1>1, HeadTailProperties
  <1>5. Len(worker.batch) # 1 => Tail(worker.batch) # <<>>
    <2> SUFFICES ASSUME Tail(worker.batch) = <<>> PROVE Len(worker.batch) = 1
      OBVIOUS
    <2>1. Len(Tail(worker.batch)) = 0
      BY EmptySeq
    <2> QED
      BY <1>2, <1>4, <2>1
  <1> QED
    BY <1>1, <1>2, <1>3, <1>4, <1>5

LEMMA TypeStep == TypeOK /\ [Next]_vars => TypeOK'
  <1> SUFFICES ASSUME TypeOK, [Next]_vars PROVE TypeOK'
    OBVIOUS
  <1> USE DEF postgres, redis
  <1>1. ASSUME NEW u \in Uploads, Receive(u) PROVE TypeOK'
    BY <1>1 DEF Receive, TypeOK, RowsOK, RedisOK, DiskOK, ApiOK, WorkerOK
  <1>2. CASE TruncateArtifacts
    BY <1>2 DEF TruncateArtifacts, TypeOK, RowsOK, RedisOK, DiskOK, ApiOK, WorkerOK
  <1>3. CASE WriteArtifacts
    BY <1>3 DEF WriteArtifacts, TypeOK, RowsOK, RedisOK, DiskOK, ApiOK, WorkerOK
  <1>4. CASE RejectIfDuplicate
    BY <1>4 DEF RejectIfDuplicate, ApiIdle, TypeOK, RowsOK, RedisOK, DiskOK, ApiOK,
      WorkerOK
  <1>5. ASSUME NEW r \in Runs, CommitRun(r) PROVE TypeOK'
    <2>1. RowsOK'
      BY <1>5, PipelineAssumption DEF CommitRun, TypeOK, RowsOK, ApiOK, Verdicts
    <2>2. ApiOK'
      BY <1>5 DEF CommitRun, TypeOK, ApiOK
    <2>3. RedisOK' /\ DiskOK' /\ WorkerOK'
      BY <1>5 DEF CommitRun, TypeOK, RedisOK, DiskOK, WorkerOK
    <2> QED
      BY <1>5, <2>1, <2>2, <2>3 DEF CommitRun, TypeOK
  <1>6. CASE Publish
    <2>1. RedisOK'
      BY <1>6, AppendProperties DEF Publish, TypeOK, RedisOK, ApiOK
    <2>2. RowsOK' /\ DiskOK' /\ ApiOK' /\ WorkerOK'
      BY <1>6 DEF Publish, ApiIdle, TypeOK, RowsOK, DiskOK, ApiOK, WorkerOK
    <2> QED
      BY <1>6, <2>1, <2>2 DEF Publish, TypeOK
  <1>7. CASE ApiFault
    <2>1. faults' \in [api : Nat, worker : Nat, redis : Nat]
      BY <1>7 DEF ApiFault, TypeOK
    <2> QED
      BY <1>7, <2>1 DEF ApiFault, ApiIdle, TypeOK, RowsOK, RedisOK, DiskOK, ApiOK,
        WorkerOK
  <1>8. CASE ReadBatch
    BY <1>8, TypeReadBatch
  <1>9. CASE Hydrate
    <2>1. WorkerOK'
      BY <1>9 DEF Hydrate, TypeOK, WorkerOK
    <2> QED
      BY <1>9, <2>1 DEF Hydrate, TypeOK, RowsOK, RedisOK, DiskOK, ApiOK
  <1>10. CASE Judge
    <2>1. VerdictsFor(Current) \subseteq Verdicts
      BY DEF VerdictsFor, Verdicts
    <2>2. WorkerOK'
      BY <1>10, <2>1 DEF Judge, TypeOK, WorkerOK
    <2> QED
      BY <1>10, <2>2 DEF Judge, TypeOK, RowsOK, RedisOK, DiskOK, ApiOK
  <1>11. CASE RecordTrustAssessment
    <2>1. Current \in Runs
      BY <1>11, BatchShrinks DEF RecordTrustAssessment
    <2> QED
      BY <1>11, <2>1 DEF RecordTrustAssessment, TypeOK, RowsOK, RedisOK, DiskOK,
        ApiOK, WorkerOK
  <1>12. CASE SetRunStatus
    <2>1. worker.verdict \in Verdicts
      BY DEF TypeOK, WorkerOK
    <2>2. RowsOK'
      BY <1>12, <2>1 DEF SetRunStatus, TypeOK, RowsOK
    <2> QED
      BY <1>12, <2>2 DEF SetRunStatus, TypeOK, RedisOK, DiskOK, ApiOK, WorkerOK
  <1>13. CASE SettleClaims
    <2>1. Current \in Runs
      BY <1>13, BatchShrinks DEF SettleClaims
    <2> QED
      BY <1>13, <2>1 DEF SettleClaims, TypeOK, RowsOK, RedisOK, DiskOK, ApiOK,
        WorkerOK
  <1>14. CASE PublishRankingUpdate
    <2>1. Current \in Runs
      BY <1>14, BatchShrinks DEF PublishRankingUpdate
    <2>2. RedisOK'
      BY <1>14, <2>1 DEF PublishRankingUpdate, TypeOK, RedisOK, WorkerOK
    <2> QED
      BY <1>14, <2>2 DEF PublishRankingUpdate, TypeOK, RowsOK, DiskOK, ApiOK, WorkerOK
  <1>15. CASE Acknowledge
    <2>1. /\ Tail(worker.batch) \in Seq(Runs)
          /\ Len(worker.batch) # 1 => Tail(worker.batch) # <<>>
      BY <1>15, BatchShrinks DEF Acknowledge
    <2>2. WorkerOK'
      BY <1>15, <2>1, EmptySeq DEF Acknowledge, WorkerIdle, WorkerOK, Verdicts
    <2> QED
      BY <1>15, <2>2 DEF Acknowledge, TypeOK, RowsOK, RedisOK, DiskOK, ApiOK
  <1>16. CASE WorkerCrash
    <2>1. WorkerOK'
      BY <1>16, EmptySeq DEF WorkerCrash, WorkerIdle, WorkerOK, Verdicts
    <2> QED
      BY <1>16, <2>1 DEF WorkerCrash, TypeOK, RowsOK, RedisOK, DiskOK, ApiOK
  <1>17. CASE Fsync
    <2>1. DiskOK'
      BY <1>17 DEF Fsync, RedisState, TypeOK, RedisOK, DiskOK
    <2> QED
      BY <1>17, <2>1 DEF Fsync, TypeOK, RowsOK, RedisOK, ApiOK, WorkerOK
  <1>18. CASE RedisCrash
    <2>1. RedisOK'
      BY <1>18 DEF RedisCrash, TypeOK, RedisOK, DiskOK
    <2>2. faults' \in [api : Nat, worker : Nat, redis : Nat]
      BY <1>18 DEF RedisCrash, TypeOK
    <2> QED
      BY <1>18, <2>1, <2>2 DEF RedisCrash, TypeOK, RowsOK, DiskOK, ApiOK, WorkerOK
  <1>19. CASE UNCHANGED vars
    BY <1>19 DEF vars, TypeOK, RowsOK, RedisOK, DiskOK, ApiOK, WorkerOK
  <1> QED
    BY <1>1, <1>2, <1>3, <1>4, <1>5, <1>6, <1>7, <1>8, <1>9, <1>10, <1>11, <1>12,
       <1>13, <1>14, <1>15, <1>16, <1>17, <1>18, <1>19
    DEF Next, ApiStep, WorkerStep, Fault

(* TypeOK is an invariant of the specification.                            *)
THEOREM TypeCorrect == Spec => []TypeOK
  BY TypeInit, TypeStep, PTL DEF Spec

-----------------------------------------------------------------------------
(* Which actions write which variables.                                    *)

LEMMA RowWriters ==
  [Next]_vars => \/ UNCHANGED <<uploadOf, status>>
                 \/ SetRunStatus
                 \/ \E r \in Runs : CommitRun(r)
  BY DEF Next, ApiStep, WorkerStep, Fault, vars, postgres, redis, Receive,
    TruncateArtifacts, WriteArtifacts, RejectIfDuplicate, Publish, ApiFault,
    ReadBatch, Hydrate, Judge, RecordTrustAssessment, SettleClaims,
    PublishRankingUpdate, Acknowledge, WorkerCrash, Fsync, RedisCrash

LEMMA HookWriters ==
  [Next]_vars => /\ UNCHANGED assessed \/ RecordTrustAssessment
                 /\ UNCHANGED settled \/ SettleClaims
  BY DEF Next, ApiStep, WorkerStep, Fault, vars, postgres, redis, Receive,
    TruncateArtifacts, WriteArtifacts, RejectIfDuplicate, CommitRun, Publish,
    ApiFault, ReadBatch, Hydrate, Judge, RecordTrustAssessment, SetRunStatus,
    SettleClaims, PublishRankingUpdate, Acknowledge, WorkerCrash, Fsync, RedisCrash

LEMMA StreamWriters ==
  [Next]_vars => /\ UNCHANGED stream \/ Publish \/ RedisCrash
                 /\ UNCHANGED <<cursor, pel>> \/ ReadBatch \/ Acknowledge
                    \/ RedisCrash
                 /\ UNCHANGED ranking \/ PublishRankingUpdate \/ RedisCrash
                 /\ UNCHANGED disk \/ Fsync
  <1> SUFFICES ASSUME [Next]_vars
               PROVE  /\ UNCHANGED stream \/ Publish \/ RedisCrash
                      /\ UNCHANGED <<cursor, pel>> \/ ReadBatch \/ Acknowledge
                         \/ RedisCrash
                      /\ UNCHANGED ranking \/ PublishRankingUpdate \/ RedisCrash
                      /\ UNCHANGED disk \/ Fsync
    OBVIOUS
  <1>1. CASE (\E u \in Uploads : Receive(u)) \/ ApiStep
    BY <1>1 DEF ApiStep, redis, Receive, TruncateArtifacts, WriteArtifacts,
      RejectIfDuplicate, CommitRun, Publish
  <1>2. CASE WorkerStep
    BY <1>2 DEF WorkerStep, redis, ReadBatch, Hydrate, Judge,
      RecordTrustAssessment, SetRunStatus, SettleClaims, PublishRankingUpdate,
      Acknowledge
  <1>3. CASE Fault
    BY <1>3 DEF Fault, redis, ApiFault, WorkerCrash, Fsync, RedisCrash
  <1>4. CASE UNCHANGED vars
    BY <1>4 DEF vars, redis
  <1> QED
    BY <1>1, <1>2, <1>3, <1>4 DEF Next

LEMMA BatchWriters ==
  TypeOK /\ [Next]_vars =>
    \/ worker'.batch = worker.batch \/ ReadBatch \/ Acknowledge
    \/ worker'.batch = <<>>
  <1> SUFFICES ASSUME TypeOK, [Next]_vars
               PROVE  \/ worker'.batch = worker.batch \/ ReadBatch \/ Acknowledge
                      \/ worker'.batch = <<>>
    OBVIOUS
  <1>1. CASE (\E u \in Uploads : Receive(u)) \/ ApiStep
    BY <1>1 DEF ApiStep, Receive, TruncateArtifacts, WriteArtifacts,
      RejectIfDuplicate, CommitRun, Publish
  <1>2. CASE WorkerStep
    BY <1>2 DEF WorkerStep, Hydrate, Judge, RecordTrustAssessment, SetRunStatus,
      SettleClaims, PublishRankingUpdate, TypeOK, WorkerOK
  <1>3. CASE Fault
    BY <1>3 DEF Fault, ApiFault, WorkerCrash, Fsync, RedisCrash, WorkerIdle
  <1>4. CASE UNCHANGED vars
    BY <1>4 DEF vars
  <1> QED
    BY <1>1, <1>2, <1>3, <1>4 DEF Next

LEMMA ApiWriters ==
  TypeOK /\ [Next]_vars =>
    \/ UNCHANGED api
    \/ RejectIfDuplicate
    \/ \E r \in Runs : CommitRun(r)
    \/ api'.pc \notin {"insert", "publish"}
  <1> SUFFICES ASSUME TypeOK, [Next]_vars
               PROVE  \/ UNCHANGED api
                      \/ RejectIfDuplicate
                      \/ \E r \in Runs : CommitRun(r)
                      \/ api'.pc \notin {"insert", "publish"}
    OBVIOUS
  <1>1. CASE (\E u \in Uploads : Receive(u)) \/ ApiStep
    <2>1. ASSUME NEW u \in Uploads, Receive(u) PROVE api'.pc = "store"
      BY <2>1 DEF Receive, TypeOK, ApiOK
    <2>2. TruncateArtifacts => api'.pc = "write"
      BY DEF TruncateArtifacts, TypeOK, ApiOK
    <2>3. WriteArtifacts => api'.pc = "dedupe"
      BY DEF WriteArtifacts, TypeOK, ApiOK
    <2>4. Publish => api'.pc = "idle"
      BY DEF Publish, ApiIdle
    <2> QED
      BY <1>1, <2>1, <2>2, <2>3, <2>4 DEF ApiStep
  <1>2. CASE WorkerStep
    BY <1>2 DEF WorkerStep, ReadBatch, Hydrate, Judge, RecordTrustAssessment,
      SetRunStatus, SettleClaims, PublishRankingUpdate, Acknowledge
  <1>3. CASE Fault
    BY <1>3 DEF Fault, ApiFault, WorkerCrash, Fsync, RedisCrash, ApiIdle
  <1>4. CASE UNCHANGED vars
    BY <1>4 DEF vars
  <1> QED
    BY <1>1, <1>2, <1>3, <1>4 DEF Next

-----------------------------------------------------------------------------
(* Whatever a process or Redis has in hand was committed.                  *)

Committed == UploadKnown /\ OnlyCommitted

LEMMA CommittedInit == Init => Committed
  <1> SUFFICES ASSUME Init PROVE Committed
    OBVIOUS
  <1>1. Len(stream) = 0 /\ Len(disk.stream) = 0 /\ Len(worker.batch) = 0
    BY EmptySeq DEF Init, RedisState, WorkerIdle
  <1> QED
    BY <1>1, PipelineAssumption
    DEF Init, ApiIdle, Committed, UploadKnown, OnlyCommitted

(* A row, once there, stays.                                               *)
LEMMA RowsStay ==
  ASSUME TypeOK, Committed, [Next]_vars
  PROVE  /\ UploadKnown'
         /\ \A r \in Runs : status[r] # "absent" =>
              (status'[r] # "absent" /\ uploadOf'[r] = uploadOf[r])
         /\ \A r \in Runs : status'[r] # "absent" =>
              (status[r] # "absent" \/ CommitRun(r))
  <1>1. CASE UNCHANGED <<uploadOf, status>>
    BY <1>1 DEF Committed, UploadKnown
  <1>2. CASE SetRunStatus
    <2>1. Current \in Runs /\ status[Current] # "absent" /\ worker.verdict \in Verdicts
      BY <1>2, BatchShrinks
      DEF SetRunStatus, Committed, OnlyCommitted, TypeOK, WorkerOK
    <2>2. /\ status' = [status EXCEPT ![Current] = worker.verdict]
          /\ uploadOf' = uploadOf
      BY <1>2 DEF SetRunStatus
    <2> QED
      BY <2>1, <2>2
      DEF Committed, UploadKnown, TypeOK, RowsOK, Verdicts
  <1>3. ASSUME NEW r \in Runs, CommitRun(r)
        PROVE  /\ UploadKnown'
               /\ \A q \in Runs : status[q] # "absent" =>
                    (status'[q] # "absent" /\ uploadOf'[q] = uploadOf[q])
               /\ \A q \in Runs : status'[q] # "absent" =>
                    (status[q] # "absent" \/ q = r)
    BY <1>3, PipelineAssumption
    DEF CommitRun, Committed, UploadKnown, TypeOK, RowsOK, ApiOK
  <1> QED
    BY <1>1, <1>2, <1>3, RowWriters

LEMMA CommittedStep == TypeOK /\ Committed /\ [Next]_vars => Committed'
  <1> SUFFICES ASSUME TypeOK, Committed, [Next]_vars PROVE Committed'
    OBVIOUS
  <1>1. TypeOK'
    BY TypeStep
  <1>2. /\ UploadKnown'
        /\ \A r \in Runs : status[r] # "absent" => status'[r] # "absent"
    BY RowsStay
  <1>3. \A i \in 1 .. Len(stream') : status'[stream'[i]] # "absent"
    <2>1. CASE UNCHANGED stream
      BY <2>1, <1>2, ElementOfSeq DEF TypeOK, RedisOK, Committed, OnlyCommitted
    <2>2. CASE Publish
      <3>1. /\ stream \in Seq(Runs) /\ api.run \in Runs /\ status[api.run] # "absent"
            /\ stream' = Append(stream, api.run)
        BY <2>2 DEF Publish, TypeOK, RedisOK, ApiOK, Committed, OnlyCommitted
      <3> QED
        BY <3>1, <1>2, ElementOfSeq, AppendProperties DEF Committed, OnlyCommitted
    <2>3. CASE RedisCrash
      <3>1. stream' = disk.stream /\ disk.stream \in Seq(Runs)
        BY <2>3 DEF RedisCrash, TypeOK, DiskOK
      <3> QED
        BY <3>1, <1>2, ElementOfSeq DEF Committed, OnlyCommitted
    <2> QED
      BY <2>1, <2>2, <2>3, StreamWriters
  <1>4. \A i \in 1 .. Len(disk'.stream) : status'[disk'.stream[i]] # "absent"
    <2>1. disk'.stream = disk.stream \/ disk'.stream = stream
      BY StreamWriters DEF Fsync, RedisState
    <2> QED
      BY <2>1, <1>2, ElementOfSeq DEF TypeOK, RedisOK, DiskOK, Committed, OnlyCommitted
  <1>5. \A i \in 1 .. Len(worker'.batch) : status'[worker'.batch[i]] # "absent"
    <2>1. CASE worker'.batch = worker.batch
      BY <2>1, <1>2, ElementOfSeq DEF TypeOK, WorkerOK, Committed, OnlyCommitted
    <2>2. CASE ReadBatch
      <3>1. PICK n \in Nat \ {0} :
              /\ cursor + n <= Len(stream)
              /\ worker'.batch = SubSeq(stream, cursor + 1, cursor + n)
        BY <2>2, ReadsNext DEF TypeOK, WorkerOK
      <3>2. /\ Len(worker'.batch) = n
            /\ \A i \in 1 .. n : worker'.batch[i] = stream[cursor + i]
        BY <3>1, NextBatch DEF TypeOK, RedisOK
      <3>3. \A i \in 1 .. n : cursor + i \in 1 .. Len(stream)
        BY <3>1 DEF TypeOK, RedisOK
      <3>4. ASSUME NEW i \in 1 .. n PROVE status'[stream[cursor + i]] # "absent"
        <4>1. stream[cursor + i] \in Runs /\ status[stream[cursor + i]] # "absent"
          BY <3>3, ElementOfSeq DEF TypeOK, RedisOK, Committed, OnlyCommitted
        <4> QED
          BY <4>1, <1>2
      <3> QED
        BY <3>2, <3>4
    <2>3. CASE Acknowledge
      <3>1. CASE worker'.batch = <<>>
        BY <3>1, EmptySeq
      <3>2. CASE worker'.batch = Tail(worker.batch)
        <4>1. /\ worker.batch \in Seq(Runs) /\ Len(worker.batch) \in Nat \ {0}
              /\ Len(Tail(worker.batch)) = Len(worker.batch) - 1
              /\ \A i \in 1 .. Len(Tail(worker.batch)) :
                   Tail(worker.batch)[i] = worker.batch[i + 1]
          BY <2>3, BatchShrinks DEF Acknowledge
        <4>2. \A i \in 1 .. Len(Tail(worker.batch)) : i + 1 \in 1 .. Len(worker.batch)
          BY <4>1
        <4> QED
          BY <3>2, <4>1, <4>2, <1>2, ElementOfSeq DEF Committed, OnlyCommitted
      <3> QED
        BY <2>3, <3>1, <3>2 DEF Acknowledge, WorkerIdle
    <2>4. CASE worker'.batch = <<>>
      BY <2>4, EmptySeq
    <2> QED
      BY <2>1, <2>2, <2>3, <2>4, BatchWriters
  <1>6. api'.pc = "publish" => status'[api'.run] # "absent"
    <2>1. CASE UNCHANGED api
      BY <2>1, <1>2 DEF TypeOK, ApiOK, Committed, OnlyCommitted
    <2>2. CASE RejectIfDuplicate
      BY <2>2 DEF RejectIfDuplicate, ApiIdle, TypeOK, ApiOK
    <2>3. ASSUME NEW r \in Runs, CommitRun(r) PROVE status'[api'.run] # "absent"
      BY <2>3 DEF CommitRun, TypeOK, ApiOK, RowsOK
    <2> QED
      BY <2>1, <2>2, <2>3, ApiWriters
  <1> QED
    BY <1>2, <1>3, <1>4, <1>5, <1>6 DEF Committed, OnlyCommitted

LEMMA AlwaysCommitted == Spec => [](TypeOK /\ Committed)
  BY TypeInit, TypeStep, CommittedInit, CommittedStep, PTL DEF Spec

-----------------------------------------------------------------------------
(* No two runs have one key.                                               *)

FreshKeys == InsertIsFresh /\ OneRunPerKey

LEMMA FreshKeysInit == Init => FreshKeys
  BY DEF Init, ApiIdle, FreshKeys, InsertIsFresh, OneRunPerKey

LEMMA FreshKeysStep ==
  TypeOK /\ Committed /\ FreshKeys /\ [Next]_vars => FreshKeys'
  <1> SUFFICES ASSUME TypeOK, Committed, FreshKeys, [Next]_vars PROVE FreshKeys'
    OBVIOUS
  <1>1. ASSUME NEW r \in Runs, CommitRun(r) PROVE FreshKeys'
    <2>1. /\ api.pc = "insert" /\ api'.pc = "publish"
          /\ \A q \in Runs \ {r} :
               status'[q] = status[q] /\ uploadOf'[q] = uploadOf[q]
          /\ uploadOf'[r] = api.upload
      BY <1>1 DEF CommitRun, TypeOK, RowsOK, ApiOK
    <2>2. \A q \in Runs \ {r} : status'[q] # "absent" => Key(q)' # Key(r)'
      BY <2>1 DEF FreshKeys, InsertIsFresh, KeyTaken, Key
    <2> QED
      BY <2>1, <2>2 DEF FreshKeys, InsertIsFresh, OneRunPerKey, Key
  <1>2. CASE ~\E r \in Runs : CommitRun(r)
    <2>1. \A r \in Runs : status'[r] # "absent" =>
            (status[r] # "absent" /\ uploadOf'[r] = uploadOf[r])
      BY <1>2, RowsStay
    <2>2. OneRunPerKey'
      BY <2>1 DEF FreshKeys, OneRunPerKey, Key
    <2>3. \A l \in Lookups : KeyTaken(l)' => KeyTaken(l)
      BY <2>1 DEF KeyTaken, Key
    <2>4. CASE UNCHANGED api
      BY <2>2, <2>3, <2>4, PipelineAssumption
      DEF FreshKeys, InsertIsFresh, TypeOK, ApiOK
    <2>5. CASE RejectIfDuplicate
      <3>1. api.upload \in Uploads /\ LookupOf[api.upload] \in Lookups
        BY <2>5, PipelineAssumption DEF RejectIfDuplicate, TypeOK, ApiOK
      <3>2. api'.pc = "insert" =>
              api'.upload = api.upload /\ ~KeyTaken(LookupOf[api.upload])
        BY <2>5 DEF RejectIfDuplicate, ApiIdle, TypeOK, ApiOK
      <3> QED
        BY <3>1, <3>2, <2>2, <2>3 DEF FreshKeys, InsertIsFresh
    <2>6. CASE api'.pc \notin {"insert", "publish"}
      BY <2>2, <2>6 DEF FreshKeys, InsertIsFresh
    <2> QED
      BY <1>2, <2>4, <2>5, <2>6, ApiWriters
  <1> QED
    BY <1>1, <1>2

(* The API's check-then-insert admits one run per five-column key, however *)
(* often an upload is sent and the handler fails.                          *)
THEOREM KeysAreUnique == Spec => []OneRunPerKey
  <1>1. Init => TypeOK /\ Committed /\ FreshKeys
    BY TypeInit, CommittedInit, FreshKeysInit
  <1>2. TypeOK /\ Committed /\ FreshKeys /\ [Next]_vars
          => (TypeOK /\ Committed /\ FreshKeys)'
    BY TypeStep, CommittedStep, FreshKeysStep
  <1>3. TypeOK /\ Committed /\ FreshKeys => OneRunPerKey
    BY DEF FreshKeys
  <1> QED
    BY <1>1, <1>2, <1>3, PTL DEF Spec

-----------------------------------------------------------------------------
(* One counting run per group.                                             *)

LEMMA WorkerWriters ==
  TypeOK /\ [Next]_vars =>
    \/ UNCHANGED worker
    \/ Judge \/ RecordTrustAssessment \/ SetRunStatus \/ SettleClaims
    \/ PublishRankingUpdate \/ Hydrate
    \/ worker'.pc \in {"idle", "hydrate"}
  <1> SUFFICES ASSUME TypeOK, [Next]_vars
               PROVE  \/ UNCHANGED worker
                      \/ Judge \/ RecordTrustAssessment \/ SetRunStatus
                      \/ SettleClaims \/ PublishRankingUpdate \/ Hydrate
                      \/ worker'.pc \in {"idle", "hydrate"}
    OBVIOUS
  <1>1. CASE (\E u \in Uploads : Receive(u)) \/ ApiStep
    BY <1>1 DEF ApiStep, Receive, TruncateArtifacts, WriteArtifacts,
      RejectIfDuplicate, CommitRun, Publish
  <1>2. CASE WorkerStep
    <2>1. ReadBatch => worker'.pc = "hydrate"
      BY ReadsNext DEF TypeOK, WorkerOK
    <2>2. Acknowledge => worker'.pc \in {"idle", "hydrate"}
      BY DEF Acknowledge, WorkerIdle
    <2> QED
      BY <1>2, <2>1, <2>2 DEF WorkerStep
  <1>3. CASE Fault
    BY <1>3 DEF Fault, ApiFault, WorkerCrash, Fsync, RedisCrash, WorkerIdle
  <1>4. CASE UNCHANGED vars
    BY <1>4 DEF vars
  <1> QED
    BY <1>1, <1>2, <1>3, <1>4 DEF Next

OneCounts == VerdictIsCurrent /\ OneBlockingRunPerGroup

LEMMA OneCountsInit == Init => OneCounts
  BY DEF Init, WorkerIdle, OneCounts, VerdictIsCurrent, OneBlockingRunPerGroup,
    Blocking

(* A step other than the worker's own verdict makes nobody a duplicate.    *)
LEMMA DuplicateStays ==
  ASSUME TypeOK, Committed, [Next]_vars, ~SetRunStatus,
         NEW r \in Runs, status[r] # "absent", Duplicate(r)'
  PROVE  Duplicate(r)
  <1>1. PICK s \in Runs \ {r} :
          /\ status'[s] \in Blocking
          /\ GroupOf[Key(s)'] = GroupOf[Key(r)']
          /\ GroupOf[Key(r)'] \notin VideoGroups
    BY DEF Duplicate, GroupRows
  <1>2. CASE UNCHANGED <<uploadOf, status>>
    BY <1>1, <1>2 DEF Duplicate, GroupRows, Key, Blocking
  <1>3. ASSUME NEW q \in Runs, CommitRun(q) PROVE Duplicate(r)
    <2>1. /\ q # r /\ status'[q] = "submitted"
          /\ \A t \in Runs \ {q} :
               status'[t] = status[t] /\ uploadOf'[t] = uploadOf[t]
      BY <1>3 DEF CommitRun, TypeOK, RowsOK
    <2> QED
      BY <1>1, <2>1 DEF Duplicate, GroupRows, Key, Blocking
  <1> QED
    BY <1>2, <1>3, RowWriters

LEMMA OneCountsStep ==
  TypeOK /\ Committed /\ OneCounts /\ [Next]_vars => OneCounts'
  <1> SUFFICES ASSUME TypeOK, Committed, OneCounts, [Next]_vars PROVE OneCounts'
    OBVIOUS
  <1>1. CASE SetRunStatus
    <2>1. /\ Current \in Runs /\ worker.verdict \in Verdicts
          /\ status'[Current] = worker.verdict /\ worker.pc = "status"
          /\ worker'.pc = "settle" /\ uploadOf' = uploadOf
          /\ \A s \in Runs \ {Current} : status'[s] = status[s]
      BY <1>1, BatchShrinks DEF SetRunStatus, TypeOK, RowsOK, WorkerOK
    <2>2. VerdictIsCurrent'
      BY <2>1 DEF VerdictIsCurrent
    <2>3. ASSUME NEW s \in Runs \ {Current},
                 status'[s] \in Blocking, status'[Current] \in Blocking,
                 GroupOf[Key(s)] = GroupOf[Key(Current)],
                 GroupOf[Key(Current)] \notin VideoGroups
          PROVE  FALSE
      <3>1. ~Duplicate(Current) /\ status[s] \in Blocking
        BY <2>1, <2>3 DEF OneCounts, VerdictIsCurrent
      <3> QED
        BY <3>1, <2>3 DEF Duplicate, GroupRows, Blocking
    <2>4. OneBlockingRunPerGroup'
      <3> SUFFICES ASSUME NEW r \in Runs, NEW s \in Runs, r # s,
                          status'[r] \in Blocking, status'[s] \in Blocking,
                          GroupOf[Key(r)] = GroupOf[Key(s)],
                          GroupOf[Key(r)] \notin VideoGroups
                   PROVE  FALSE
        BY <2>1 DEF OneBlockingRunPerGroup, Key
      <3>1. CASE r = Current
        BY <3>1, <2>3
      <3>2. CASE s = Current
        BY <3>2, <2>3
      <3>3. CASE r # Current /\ s # Current
        BY <3>3, <2>1 DEF OneCounts, OneBlockingRunPerGroup
      <3> QED
        BY <3>1, <3>2, <3>3
    <2> QED
      BY <2>2, <2>4 DEF OneCounts
  <1>2. CASE ~SetRunStatus
    <2>1. OneBlockingRunPerGroup'
      <3>1. \A r \in Runs : status'[r] \in Blocking =>
              status[r] \in Blocking /\ uploadOf'[r] = uploadOf[r]
        BY <1>2, RowWriters DEF CommitRun, TypeOK, RowsOK, Blocking
      <3> QED
        BY <3>1 DEF OneCounts, OneBlockingRunPerGroup, Key
    <2>2. CASE UNCHANGED worker
      <3>1. ASSUME worker.pc \in {"trust", "status"}, worker.verdict \in Blocking
            PROVE  ~Duplicate(Current)'
        <4>1. /\ Current' = Current /\ ~Duplicate(Current)
              /\ Current \in Runs /\ status[Current] # "absent"
          BY <2>2, <3>1, BatchShrinks
          DEF OneCounts, VerdictIsCurrent, Committed, OnlyCommitted, Current
        <4>2. PICK c \in Runs : c = Current
          BY <4>1
        <4>3. ~Duplicate(c)'
          BY <4>1, <4>2, <1>2, DuplicateStays
        <4> QED
          BY <4>1, <4>2, <4>3 DEF Duplicate, GroupRows
      <3> QED
        BY <2>1, <2>2, <3>1 DEF OneCounts, VerdictIsCurrent
    <2>3. CASE Judge
      <3>1. /\ worker'.verdict \in VerdictsFor(Current) /\ Current' = Current
            /\ UNCHANGED <<status, uploadOf>>
        BY <2>3 DEF Judge, TypeOK, WorkerOK, Current, postgres
      <3>2. worker'.verdict \in Blocking => ~Duplicate(Current)
        BY <3>1 DEF VerdictsFor, Blocking
      <3> QED
        BY <3>1, <3>2, <2>1
        DEF OneCounts, VerdictIsCurrent, Duplicate, GroupRows, Key
    <2>4. CASE RecordTrustAssessment
      <3>1. /\ worker'.verdict = worker.verdict /\ Current' = Current
            /\ worker.pc = "trust" /\ UNCHANGED <<status, uploadOf>>
        BY <2>4 DEF RecordTrustAssessment, TypeOK, WorkerOK, Current
      <3> QED
        BY <3>1, <2>1 DEF OneCounts, VerdictIsCurrent, Duplicate, GroupRows, Key
    <2>5. CASE SettleClaims \/ PublishRankingUpdate \/ Hydrate
      <3>1. worker'.pc \in {"rank", "ack", "judge"}
        BY <2>5 DEF SettleClaims, PublishRankingUpdate, Hydrate, TypeOK, WorkerOK
      <3> QED
        BY <3>1, <2>1 DEF OneCounts, VerdictIsCurrent
    <2>6. CASE worker'.pc \in {"idle", "hydrate"}
      BY <2>6, <2>1 DEF OneCounts, VerdictIsCurrent
    <2> QED
      BY <1>2, <2>2, <2>3, <2>4, <2>5, <2>6, WorkerWriters
  <1> QED
    BY <1>1, <1>2

(* At most one run of an llm dimension group counts, although the check    *)
(* and the write of the verdict are three transactions apart, the API      *)
(* inserts rows meanwhile and Redis may deliver old events again.          *)
THEOREM OneRunCounts == Spec => []OneBlockingRunPerGroup
  <1>1. Init => TypeOK /\ Committed /\ OneCounts
    BY TypeInit, CommittedInit, OneCountsInit
  <1>2. TypeOK /\ Committed /\ OneCounts /\ [Next]_vars
          => (TypeOK /\ Committed /\ OneCounts)'
    BY TypeStep, CommittedStep, OneCountsStep
  <1>3. TypeOK /\ Committed /\ OneCounts => OneBlockingRunPerGroup
    BY DEF OneCounts
  <1> QED
    BY <1>1, <1>2, <1>3, PTL DEF Spec

-----------------------------------------------------------------------------
(* No run is quarantined: a group that offers two peers is a duplicate.    *)

NoneQuarantined == NeverQuarantined /\ worker.verdict # "quarantined"

LEMMA OutlierIsDuplicate ==
  ASSUME NEW r \in Runs, MaybeOutlier(r)
  PROVE  Duplicate(r)
  <1>1. PeerRows(r) # {}
    BY FS_EmptySet DEF MaybeOutlier
  <1> QED
    BY <1>1 DEF PeerRows, Duplicate, Blocking

LEMMA NoneQuarantinedStep ==
  TypeOK /\ NoneQuarantined /\ [Next]_vars => NoneQuarantined'
  <1> SUFFICES ASSUME TypeOK, NoneQuarantined, [Next]_vars PROVE NoneQuarantined'
    OBVIOUS
  <1>1. NeverQuarantined'
    <2>1. CASE UNCHANGED <<uploadOf, status>>
      BY <2>1 DEF NoneQuarantined, NeverQuarantined
    <2>2. CASE SetRunStatus
      BY <2>2 DEF SetRunStatus, NoneQuarantined, NeverQuarantined, TypeOK, RowsOK
    <2>3. ASSUME NEW r \in Runs, CommitRun(r) PROVE NeverQuarantined'
      BY <2>3 DEF CommitRun, NoneQuarantined, NeverQuarantined, TypeOK, RowsOK
    <2> QED
      BY <2>1, <2>2, <2>3, RowWriters
  <1>2. worker'.verdict # "quarantined"
    <2>1. CASE Judge
      <3>1. Current \in Runs /\ worker'.verdict \in VerdictsFor(Current)
        BY <2>1, BatchShrinks DEF Judge, TypeOK, WorkerOK
      <3> QED
        BY <3>1, OutlierIsDuplicate DEF VerdictsFor
    <2>2. CASE worker'.verdict = worker.verdict \/ worker'.verdict = "rejected"
      BY <2>2 DEF NoneQuarantined
    <2>3. (\E u \in Uploads : Receive(u)) \/ ApiStep \/ UNCHANGED vars
            => worker'.verdict = worker.verdict
      BY DEF ApiStep, Receive, TruncateArtifacts, WriteArtifacts,
        RejectIfDuplicate, CommitRun, Publish, vars
    <2>5. Fault => worker'.verdict = worker.verdict \/ worker'.verdict = "rejected"
      BY DEF Fault, ApiFault, WorkerCrash, Fsync, RedisCrash, WorkerIdle
    <2>4. WorkerStep
            => Judge \/ worker'.verdict = worker.verdict \/ worker'.verdict = "rejected"
      <3>1. ReadBatch => worker'.verdict = worker.verdict
        BY ReadsNext DEF TypeOK, WorkerOK
      <3>2. Acknowledge => worker'.verdict = "rejected"
        BY DEF Acknowledge, WorkerIdle
      <3>3. Hydrate \/ RecordTrustAssessment \/ SetRunStatus \/ SettleClaims
            \/ PublishRankingUpdate => worker'.verdict = worker.verdict
        BY DEF Hydrate, RecordTrustAssessment, SetRunStatus, SettleClaims,
          PublishRankingUpdate, TypeOK, WorkerOK
      <3> QED
        BY <3>1, <3>2, <3>3 DEF WorkerStep
    <2> QED
      BY <2>1, <2>2, <2>3, <2>4, <2>5 DEF Next
  <1> QED
    BY <1>1, <1>2 DEF NoneQuarantined

(* The statistical check never quarantines a signed run: whenever it has   *)
(* peers to compare with, the duplicate check has rejected the run.        *)
THEOREM NobodyIsQuarantined == Spec => []NeverQuarantined
  <1>1. Init => TypeOK /\ NoneQuarantined
    BY TypeInit DEF Init, WorkerIdle, NoneQuarantined, NeverQuarantined
  <1>2. TypeOK /\ NoneQuarantined /\ [Next]_vars => (TypeOK /\ NoneQuarantined)'
    BY TypeStep, NoneQuarantinedStep
  <1>3. TypeOK /\ NoneQuarantined => NeverQuarantined
    BY DEF NoneQuarantined
  <1> QED
    BY <1>1, <1>2, <1>3, PTL DEF Spec

-----------------------------------------------------------------------------
(* What is acknowledged or announced is written.                           *)

AllWritten ==
  Progress /\ DecidedIsAssessed /\ RankedIsWritten /\ AckedIsDecided /\ DiskIsGood

LEMMA AllWrittenInit == Init => AllWritten
  BY DEF Init, WorkerIdle, RedisState, Decided, Verdicts, AllWritten, Progress,
    DecidedIsAssessed, RankedIsWritten, AckedIsDecided, DiskIsGood

(* Verdicts, assessments and settlements are never taken back.             *)
LEMMA WritesStay ==
  ASSUME TypeOK, Committed, [Next]_vars
  PROVE  /\ \A r \in Runs : Decided(r) => Decided(r)'
         /\ assessed \subseteq assessed' /\ settled \subseteq settled'
         /\ \A r \in Runs : Decided(r)' => Decided(r) \/ (SetRunStatus /\ r = Current)
  <1>1. assessed \subseteq assessed' /\ settled \subseteq settled'
    BY HookWriters DEF RecordTrustAssessment, SettleClaims
  <1>2. CASE UNCHANGED <<uploadOf, status>>
    BY <1>1, <1>2 DEF Decided
  <1>3. CASE SetRunStatus
    BY <1>1, <1>3 DEF SetRunStatus, Decided, TypeOK, RowsOK, WorkerOK
  <1>4. CASE \E r \in Runs : CommitRun(r)
    BY <1>1, <1>4 DEF CommitRun, Decided, Verdicts, TypeOK, RowsOK
  <1> QED
    BY <1>2, <1>3, <1>4, RowWriters

LEMMA ProgressStep ==
  TypeOK /\ Committed /\ AllWritten /\ [Next]_vars => Progress'
  <1> SUFFICES ASSUME TypeOK, Committed, AllWritten, [Next]_vars PROVE Progress'
    OBVIOUS
  <1>1. CASE UNCHANGED worker
    <2>1. Current' = Current
      BY <1>1 DEF Current
    <2>2. worker.pc # "idle" => Current \in Runs
      BY BatchShrinks
    <2> QED
      BY <1>1, <2>1, <2>2, WritesStay DEF AllWritten, Progress, Decided
  <1>2. CASE Judge
    BY <1>2 DEF Judge, Progress, TypeOK, WorkerOK
  <1>3. CASE RecordTrustAssessment
    BY <1>3 DEF RecordTrustAssessment, Progress, Current, TypeOK, WorkerOK
  <1>4. CASE SetRunStatus
    <2>1. Current \in Runs
      BY <1>4, BatchShrinks DEF SetRunStatus
    <2> QED
      BY <1>4, <2>1
      DEF SetRunStatus, Progress, Current, Decided, TypeOK, RowsOK, WorkerOK
  <1>5. CASE SettleClaims
    BY <1>5
    DEF SettleClaims, AllWritten, Progress, Current, Decided, TypeOK, WorkerOK
  <1>6. CASE PublishRankingUpdate
    BY <1>6
    DEF PublishRankingUpdate, postgres, AllWritten, Progress, Current, Decided,
      TypeOK, WorkerOK
  <1>7. CASE Hydrate
    <2>1. status[Current] # "absent"
      BY <1>7, BatchShrinks DEF Hydrate, Committed, OnlyCommitted
    <2> QED
      BY <1>7, <2>1 DEF Hydrate, Progress, TypeOK, WorkerOK
  <1>8. CASE worker'.pc \in {"idle", "hydrate"}
    BY <1>8 DEF Progress
  <1> QED
    BY <1>1, <1>2, <1>3, <1>4, <1>5, <1>6, <1>7, <1>8, WorkerWriters

LEMMA AllWrittenStep ==
  TypeOK /\ Committed /\ AllWritten /\ [Next]_vars => AllWritten'
  <1> SUFFICES ASSUME TypeOK, Committed, AllWritten, [Next]_vars PROVE AllWritten'
    OBVIOUS
  <1>1. Progress'
    BY ProgressStep
  <1>2. DecidedIsAssessed'
    BY WritesStay DEF SetRunStatus, AllWritten, Progress, DecidedIsAssessed
  <1>3. \A e \in [run : Runs, status : Verdicts] : Written(e) => Written(e)'
    BY WritesStay DEF Written
  <1>4. RankedIsWritten'
    <2>1. CASE UNCHANGED ranking
      BY <2>1, <1>3 DEF TypeOK, RedisOK, AllWritten, RankedIsWritten
    <2>2. CASE PublishRankingUpdate
      <3> DEFINE new == [run |-> Current, status |-> worker.verdict]
      <3>1. new \in [run : Runs, status : Verdicts] /\ Written(new)
        BY <2>2, BatchShrinks
        DEF PublishRankingUpdate, TypeOK, WorkerOK, AllWritten, Progress,
          DecidedIsAssessed, Written
      <3>2. ranking' = ranking \cup {new}
        BY <2>2 DEF PublishRankingUpdate
      <3> HIDE DEF new
      <3> QED
        BY <3>1, <3>2, <1>3 DEF TypeOK, RedisOK, AllWritten, RankedIsWritten
    <2>3. CASE RedisCrash
      BY <2>3, <1>3 DEF RedisCrash, TypeOK, DiskOK, AllWritten, RankedIsWritten,
        DiskIsGood
    <2> QED
      BY <2>1, <2>2, <2>3, StreamWriters
  <1>5. AckedIsDecided'
    <2>1. CASE ReadBatch
      <3>1. PICK n \in Nat \ {0} :
              /\ cursor + n <= Len(stream) /\ cursor' = cursor + n
              /\ pel' = pel \cup Range(SubSeq(stream, cursor + 1, cursor + n))
        BY <2>1, ReadsNext
      <3>2. stream' = stream /\ status' = status /\ cursor \in Nat
        BY <2>1 DEF ReadBatch, postgres, TypeOK, RedisOK
      <3>3. ASSUME NEW i \in 1 .. cursor' PROVE stream[i] \in pel' \/ Decided(stream[i])
        <4>1. CASE i <= cursor
          BY <4>1, <3>1, <3>2 DEF AllWritten, AckedIsDecided
        <4>2. CASE i > cursor
          <5> DEFINE j == i - cursor
          <5>1. j \in 1 .. n /\ i = cursor + j
            <6>1. i \in 1 .. cursor + n
              BY <3>1
            <6> QED
              BY <4>2, <6>1, <3>2
          <5> HIDE DEF j
          <5>2. \A k \in 1 .. n :
                  stream[cursor + k] \in Range(SubSeq(stream, cursor + 1, cursor + n))
            <6>1. stream \in Seq(Runs) /\ cursor \in 0 .. Len(stream) /\ n \in Nat /\ n > 0
              BY DEF TypeOK, RedisOK
            <6> QED
              BY <6>1, <3>1, NextBatch
          <5> QED
            BY <5>1, <5>2, <3>1
        <4> QED
          BY <4>1, <4>2, <3>2
      <3> QED
        BY <3>2, <3>3 DEF AckedIsDecided, Decided
    <2>2. CASE Acknowledge
      <3>1. Decided(Current)
        BY <2>2 DEF Acknowledge, AllWritten, Progress
      <3> QED
        BY <2>2, <3>1
        DEF Acknowledge, postgres, AllWritten, AckedIsDecided, Decided
    <2>3. CASE RedisCrash
      BY <2>3 DEF RedisCrash, postgres, AllWritten, AckedIsDecided, DiskIsGood, Decided
    <2>4. CASE UNCHANGED <<cursor, pel>> /\ ~RedisCrash
      <3>1. \A i \in 1 .. cursor : stream'[i] = stream[i] /\ stream[i] \in Runs
        <4>1. stream \in Seq(Runs) /\ cursor \in 0 .. Len(stream)
          BY DEF TypeOK, RedisOK
        <4>2. CASE UNCHANGED stream
          BY <4>1, <4>2, ElementOfSeq
        <4>3. CASE Publish
          BY <4>1, <4>3, ElementOfSeq, AppendProperties
          DEF Publish, TypeOK, ApiOK
        <4> QED
          BY <2>4, <4>2, <4>3, StreamWriters
      <3> QED
        BY <2>4, <3>1, WritesStay DEF AllWritten, AckedIsDecided
    <2> QED
      BY <2>1, <2>2, <2>3, <2>4, StreamWriters
  <1>6. DiskIsGood'
    <2>1. CASE Fsync
      BY <2>1 DEF Fsync, RedisState, postgres, redis, AllWritten, RankedIsWritten,
        AckedIsDecided, DiskIsGood, Written, Decided
    <2>2. CASE UNCHANGED disk
      <3>1. \A i \in 1 .. disk.cursor : disk.stream[i] \in Runs
        <4>1. /\ disk.stream \in Seq(Runs) /\ disk.cursor \in Nat
              /\ disk.cursor <= Len(disk.stream)
          BY DEF TypeOK, DiskOK
        <4> QED
          BY <4>1, ElementOfSeq
      <3> QED
        BY <2>2, <3>1, <1>3, WritesStay DEF TypeOK, DiskOK, AllWritten, DiskIsGood
    <2> QED
      BY <2>1, <2>2, StreamWriters
  <1> QED
    BY <1>1, <1>2, <1>4, <1>5, <1>6 DEF AllWritten

LEMMA AllWrittenAlways == Spec => [](TypeOK /\ Committed /\ AllWritten)
  BY TypeInit, CommittedInit, AllWrittenInit, TypeStep, CommittedStep,
    AllWrittenStep, PTL DEF Spec

(* A verdict is never there without its trust assessment.                  *)
THEOREM VerdictsAreAssessed == Spec => []DecidedIsAssessed
  <1>1. TypeOK /\ Committed /\ AllWritten => DecidedIsAssessed
    BY DEF AllWritten
  <1> QED
    BY <1>1, AllWrittenAlways, PTL

(* A ranking update is never there before what it announces, even when     *)
(* Redis has lost its last second.                                         *)
THEOREM AnnouncementsAreWritten == Spec => []RankedIsWritten
  <1>1. TypeOK /\ Committed /\ AllWritten => RankedIsWritten
    BY DEF AllWritten
  <1> QED
    BY <1>1, AllWrittenAlways, PTL

(* No event is acknowledged before its run has a verdict.                  *)
THEOREM AcksAreDecided == Spec => []AckedIsDecided
  <1>1. TypeOK /\ Committed /\ AllWritten => AckedIsDecided
    BY DEF AllWritten
  <1> QED
    BY <1>1, AllWrittenAlways, PTL

-----------------------------------------------------------------------------
(* Where a waiting run is.                                                 *)

LEMMA RestOfSeq ==
  ASSUME NEW S, NEW s \in Seq(S), NEW c \in 0 .. Len(s), NEW x
  PROVE  x \in Range(SubSeq(s, c + 1, Len(s))) <=> \E i \in (c + 1) .. Len(s) : s[i] = x
  <1> DEFINE rest == SubSeq(s, c + 1, Len(s))
  <1>1. Len(s) \in Nat /\ c \in Nat /\ c <= Len(s)
    OBVIOUS
  <1>2. /\ c + 1 \in 1 .. Len(s) + 1 /\ Len(s) \in (c + 1) - 1 .. Len(s)
        /\ Len(s) - (c + 1) + 1 = Len(s) - c
    BY <1>1
  <1>3. /\ rest \in Seq(S) /\ Len(rest) = Len(s) - c
        /\ \A i \in 1 .. Len(s) - c : rest[i] = s[(c + 1) + i - 1]
    BY <1>2, SubSeqProperties
  <1>4. DOMAIN rest = 1 .. Len(s) - c
    BY <1>3
  <1>5. \A i \in 1 .. Len(s) - c : rest[i] = s[c + i]
    BY <1>1, <1>3
  <1> HIDE DEF rest
  <1>6. ASSUME NEW i \in (c + 1) .. Len(s) PROVE s[i] = rest[i - c] /\ i - c \in DOMAIN rest
    BY <1>1, <1>4, <1>5
  <1>7. ASSUME NEW j \in DOMAIN rest
        PROVE  rest[j] = s[c + j] /\ c + j \in (c + 1) .. Len(s)
    BY <1>1, <1>4, <1>5
  <1> QED
    BY <1>6, <1>7 DEF Range, rest

(* AccountedFor with the place of the run in the stream spelled out.       *)
Unheard(r) == \E i \in (cursor + 1) .. Len(stream) : stream[i] = r
Excused    == faults.api > 0 \/ faults.redis > 0
Placed ==
  \A r \in Runs : status[r] = "submitted" =>
    \/ api.pc = "publish" /\ api.run = r
    \/ Unheard(r) \/ r \in pel \/ Excused

LEMMA PlacedIsAccounted == TypeOK /\ Placed => AccountedFor
  <1> SUFFICES ASSUME TypeOK, NEW r \in Runs, Unheard(r)
               PROVE  r \in Range(SubSeq(stream, cursor + 1, Len(stream)))
    BY DEF AccountedFor, Placed, Excused
  <1> QED
    BY RestOfSeq DEF TypeOK, RedisOK, Unheard

LEMMA ExcusedStays == TypeOK /\ [Next]_vars /\ Excused => Excused'
  <1> SUFFICES ASSUME TypeOK, [Next]_vars, Excused PROVE Excused'
    OBVIOUS
  <1>1. CASE UNCHANGED faults
    BY <1>1 DEF Excused
  <1>2. CASE ApiFault \/ RedisCrash \/ WorkerCrash
    BY <1>2 DEF ApiFault, RedisCrash, WorkerCrash, Excused, TypeOK
  <1> QED
    BY <1>1, <1>2 DEF Next, ApiStep, WorkerStep, Fault, vars, Receive,
      TruncateArtifacts, WriteArtifacts, RejectIfDuplicate, CommitRun, Publish,
      ReadBatch, Hydrate, Judge, RecordTrustAssessment, SetRunStatus, SettleClaims,
      PublishRankingUpdate, Acknowledge, Fsync

LEMMA PublishEnds ==
  TypeOK /\ [Next]_vars /\ api.pc = "publish" => UNCHANGED api \/ Publish \/ ApiFault
  BY DEF Next, ApiStep, WorkerStep, Fault, vars, Receive, TruncateArtifacts,
    WriteArtifacts, RejectIfDuplicate, CommitRun, ReadBatch, Hydrate, Judge,
    RecordTrustAssessment, SetRunStatus, SettleClaims, PublishRankingUpdate,
    Acknowledge, WorkerCrash, Fsync, RedisCrash

LEMMA PlacedStep ==
  TypeOK /\ Committed /\ AllWritten /\ Placed /\ [Next]_vars => Placed'
  <1> SUFFICES ASSUME TypeOK, Committed, AllWritten, Placed, [Next]_vars,
                      NEW r \in Runs, status'[r] = "submitted", ~Excused'
               PROVE  \/ api'.pc = "publish" /\ api'.run = r
                      \/ Unheard(r)' \/ r \in pel'
    BY DEF Placed
  <1>1. ~Excused /\ ~ApiFault /\ ~RedisCrash
    BY ExcusedStays DEF ApiFault, RedisCrash, Excused, TypeOK
  <1>2. stream \in Seq(Runs) /\ cursor \in Nat /\ cursor <= Len(stream)
        /\ Len(stream) \in Nat
    BY DEF TypeOK, RedisOK
  <1>3. status[r] = "submitted" \/ CommitRun(r)
    BY RowWriters DEF SetRunStatus, CommitRun, TypeOK, RowsOK, WorkerOK, Verdicts
  <1>4. CASE CommitRun(r)
    BY <1>4 DEF CommitRun, TypeOK, ApiOK
  <1>5. CASE status[r] = "submitted" /\ api.pc = "publish" /\ api.run = r
    <2>1. CASE UNCHANGED api
      BY <1>5, <2>1
    <2>2. CASE Publish
      <3>1. stream' = Append(stream, r) /\ cursor' = cursor
        BY <1>5, <2>2 DEF Publish
      <3>2. Len(stream') = Len(stream) + 1 /\ stream'[Len(stream) + 1] = r
        BY <1>2, <3>1, AppendProperties
      <3> QED
        BY <1>2, <3>1, <3>2 DEF Unheard
    <2> QED
      BY <1>1, <1>5, <2>1, <2>2, PublishEnds
  <1>6. CASE status[r] = "submitted" /\ r \in pel
    <2>1. CASE ReadBatch
      BY <1>6, <2>1 DEF ReadBatch
    <2>2. CASE Acknowledge
      <3>1. Decided(Current)
        BY <2>2 DEF Acknowledge, AllWritten, Progress
      <3> QED
        BY <1>6, <2>2, <3>1 DEF Acknowledge, Decided, Verdicts
    <2> QED
      BY <1>1, <1>6, <2>1, <2>2, StreamWriters
  <1>7. CASE status[r] = "submitted" /\ Unheard(r)
    <2>1. PICK i \in (cursor + 1) .. Len(stream) : stream[i] = r
      BY <1>7 DEF Unheard
    <2>2. CASE ReadBatch
      <3>1. PICK n \in Nat \ {0} :
              /\ cursor + n <= Len(stream) /\ cursor' = cursor + n
              /\ pel' = pel \cup Range(SubSeq(stream, cursor + 1, cursor + n))
        BY <2>2, ReadsNext
      <3>2. stream' = stream
        BY <2>2 DEF ReadBatch
      <3>3. CASE i <= cursor + n
        <4>1. n \in Nat /\ n > 0 /\ cursor \in 0 .. Len(stream)
          BY <1>2
        <4>2. \A k \in 1 .. n :
                stream[cursor + k] \in Range(SubSeq(stream, cursor + 1, cursor + n))
          BY <1>2, <3>1, <4>1, NextBatch
        <4>3. i - cursor \in 1 .. n /\ cursor + (i - cursor) = i
          BY <1>2, <2>1, <3>3, <4>1
        <4> QED
          BY <2>1, <3>1, <4>2, <4>3
      <3>4. CASE i > cursor + n
        BY <1>2, <2>1, <3>1, <3>2, <3>4 DEF Unheard
      <3> QED
        BY <1>2, <3>3, <3>4
    <2>3. CASE Acknowledge
      BY <2>1, <2>3 DEF Acknowledge, Unheard
    <2>4. CASE cursor' = cursor
      <3>1. CASE stream' = stream
        BY <2>1, <2>4, <3>1 DEF Unheard
      <3>2. CASE Publish
        <4>1. stream' = Append(stream, api.run) /\ api.run \in Runs
          BY <3>2 DEF Publish, TypeOK, ApiOK
        <4>2. /\ Len(stream') = Len(stream) + 1
              /\ \A k \in 1 .. Len(stream) : stream'[k] = stream[k]
          BY <1>2, <4>1, AppendProperties
        <4> QED
          BY <1>2, <2>1, <2>4, <4>2 DEF Unheard
      <3> QED
        BY <1>1, <3>1, <3>2, StreamWriters
    <2> QED
      BY <1>1, <2>2, <2>3, <2>4, StreamWriters
  <1> QED
    BY <1>1, <1>3, <1>4, <1>5, <1>6, <1>7 DEF Placed

(* A run that waits is about to be published, in the stream or pending: a  *)
(* worker crash alone loses nobody's event, it only stops being read.      *)
THEOREM NobodyIsLost == Spec => []AccountedFor
  <1>1. Init => TypeOK /\ Committed /\ AllWritten /\ Placed
    BY TypeInit, CommittedInit, AllWrittenInit DEF Init, Placed
  <1>2. TypeOK /\ Committed /\ AllWritten /\ Placed /\ [Next]_vars
          => (TypeOK /\ Committed /\ AllWritten /\ Placed)'
    BY TypeStep, CommittedStep, AllWrittenStep, PlacedStep
  <1> QED
    BY <1>1, <1>2, PlacedIsAccounted, PTL DEF Spec
-----------------------------------------------------------------------------
(* A verdict is final, and IntakePipeline implements RunLifecycle.  Both   *)
(* rest on the stream handing every event to the worker once, which is so  *)
(* as long as Redis has not gone back.                                     *)

(* No run is published twice.                                              *)
StreamOnce ==
  \A i, j \in 1 .. Len(stream) : stream[i] = stream[j] => i = j

(* A run about to be published is not in the stream, nor judged.           *)
PublishesOnce ==
  api.pc = "publish" => /\ status[api.run] = "submitted"
                        /\ \A i \in 1 .. Len(stream) : stream[i] # api.run

(* The batch in hand is the stretch of the stream that ends at the cursor. *)
BatchIsRead ==
  /\ Len(worker.batch) <= cursor
  /\ \A i \in 1 .. Len(worker.batch) :
       worker.batch[i] = stream[cursor - Len(worker.batch) + i]

(* What is still to be read, and what is read and not yet judged, waits.   *)
Unread    == \A i \in (cursor + 1) .. Len(stream) : status[stream[i]] = "submitted"
RestWaits == \A i \in 2 .. Len(worker.batch) : status[worker.batch[i]] = "submitted"
HeadWaits == worker.pc \in {"hydrate", "judge", "trust", "status"} =>
               status[Current] = "submitted"

DeliveredOnce ==
  StreamOnce /\ PublishesOnce /\ BatchIsRead /\ Unread /\ RestWaits /\ HeadWaits

NoReplay == faults.redis = 0 => DeliveredOnce

-----------------------------------------------------------------------------
LEMMA NoReplayInit == Init => NoReplay
  <1> SUFFICES ASSUME Init PROVE DeliveredOnce
    BY DEF NoReplay
  <1>1. Len(stream) = 0 /\ Len(worker.batch) = 0 /\ cursor = 0
        /\ worker.pc = "idle" /\ api.pc = "idle"
    BY EmptySeq DEF Init, WorkerIdle, ApiIdle
  <1> QED
    BY <1>1 DEF DeliveredOnce, StreamOnce, PublishesOnce, BatchIsRead, Unread,
      RestWaits, HeadWaits

LEMMA RedisFaults == TypeOK /\ [Next]_vars /\ ~RedisCrash => faults'.redis = faults.redis
  BY DEF Next, ApiStep, WorkerStep, Fault, vars, Receive, TruncateArtifacts,
    WriteArtifacts, RejectIfDuplicate, CommitRun, Publish, ApiFault, ReadBatch,
    Hydrate, Judge, RecordTrustAssessment, SetRunStatus, SettleClaims,
    PublishRankingUpdate, Acknowledge, WorkerCrash, Fsync, TypeOK

LEMMA ReplayCounts == TypeOK /\ RedisCrash => faults'.redis # 0
  BY DEF RedisCrash, TypeOK

(* Without a Redis crash the stream only grows, by the run of the API.     *)
LEMMA StreamGrows ==
  ASSUME TypeOK, [Next]_vars, ~RedisCrash
  PROVE  /\ Len(stream) \in Nat /\ Len(stream') \in Nat
         /\ Len(stream') >= Len(stream)
         /\ \A i \in 1 .. Len(stream) : stream'[i] = stream[i]
         /\ \A i \in 1 .. Len(stream') : i > Len(stream) =>
              Publish /\ i = Len(stream) + 1 /\ stream'[i] = api.run
  <1>1. stream \in Seq(Runs) /\ Len(stream) \in Nat
    BY DEF TypeOK, RedisOK
  <1>2. CASE UNCHANGED stream
    BY <1>1, <1>2
  <1>3. CASE Publish
    <2>1. stream' = Append(stream, api.run) /\ api.run \in Runs
      BY <1>3 DEF Publish, TypeOK, ApiOK
    <2> QED
      BY <1>1, <1>3, <2>1, AppendProperties
  <1> QED
    BY <1>2, <1>3, StreamWriters

(* A waiting run stops waiting only when the worker writes its verdict.    *)
LEMMA StaysSubmitted ==
  ASSUME TypeOK, [Next]_vars, NEW q \in Runs, status[q] = "submitted",
         SetRunStatus => q # Current
  PROVE  status'[q] = "submitted"
  <1>1. CASE UNCHANGED <<uploadOf, status>>
    BY <1>1
  <1>2. CASE SetRunStatus
    BY <1>2 DEF SetRunStatus, TypeOK, RowsOK
  <1>3. ASSUME NEW r \in Runs, CommitRun(r) PROVE status'[q] = "submitted"
    BY <1>3 DEF CommitRun, TypeOK, RowsOK
  <1> QED
    BY <1>1, <1>2, <1>3, RowWriters

(* Where the worker stands in the stream.                                  *)
LEMMA CurrentIsRead ==
  ASSUME TypeOK, BatchIsRead, worker.pc # "idle"
  PROVE  /\ cursor - Len(worker.batch) + 1 \in 1 .. cursor
         /\ cursor \in Nat /\ cursor <= Len(stream)
         /\ Current = stream[cursor - Len(worker.batch) + 1]
  <1>1. Len(worker.batch) \in Nat \ {0} /\ Current = worker.batch[1]
    BY BatchShrinks
  <1>2. cursor \in Nat /\ cursor <= Len(stream)
    BY DEF TypeOK, RedisOK
  <1>3. 1 \in 1 .. Len(worker.batch) /\ Len(worker.batch) <= cursor
    BY <1>1 DEF BatchIsRead
  <1>4. worker.batch[1] = stream[cursor - Len(worker.batch) + 1]
    BY <1>3 DEF BatchIsRead
  <1> QED
    BY <1>1, <1>2, <1>3, <1>4

(* The worker judges a run that no other place of the stream, of the batch *)
(* or of the API holds.                                                    *)
LEMMA CurrentIsOnce ==
  ASSUME TypeOK, StreamOnce, PublishesOnce, BatchIsRead, worker.pc # "idle"
  PROVE  /\ \A i \in (cursor + 1) .. Len(stream) : stream[i] # Current
         /\ \A i \in 2 .. Len(worker.batch) : worker.batch[i] # Current
         /\ api.pc = "publish" => api.run # Current
  <1> DEFINE k == cursor - Len(worker.batch) + 1
  <1>1. k \in 1 .. cursor /\ cursor \in Nat /\ cursor <= Len(stream)
        /\ Current = stream[k]
    BY CurrentIsRead
  <1>2. Len(stream) \in Nat
    BY DEF TypeOK, RedisOK
  <1>3. Len(worker.batch) \in Nat
    BY BatchShrinks
  <1> HIDE DEF k
  <1>4. ASSUME NEW i \in (cursor + 1) .. Len(stream) PROVE stream[i] # Current
    <2>1. i \in 1 .. Len(stream) /\ k \in 1 .. Len(stream) /\ i # k
      BY <1>1, <1>2
    <2> QED
      BY <1>1, <1>2, <2>1 DEF StreamOnce
  <1>5. ASSUME NEW i \in 2 .. Len(worker.batch) PROVE worker.batch[i] # Current
    <2>1. i \in 1 .. Len(worker.batch)
          /\ cursor - Len(worker.batch) + i \in 1 .. Len(stream)
          /\ cursor - Len(worker.batch) + i # k /\ k \in 1 .. Len(stream)
      BY <1>1, <1>2, <1>3 DEF k, BatchIsRead
    <2>2. worker.batch[i] = stream[cursor - Len(worker.batch) + i]
      BY <2>1 DEF BatchIsRead
    <2> QED
      BY <1>1, <1>2, <2>1, <2>2 DEF StreamOnce
  <1>6. api.pc = "publish" => api.run # Current
    <2>1. k \in 1 .. Len(stream)
      BY <1>1, <1>2
    <2> QED
      BY <1>1, <1>2, <2>1 DEF PublishesOnce
  <1> QED
    BY <1>4, <1>5, <1>6

LEMMA HydrateWriters ==
  TypeOK /\ [Next]_vars /\ worker'.pc = "hydrate" =>
    UNCHANGED worker \/ ReadBatch \/ Acknowledge
  <1> SUFFICES ASSUME TypeOK, [Next]_vars, worker'.pc = "hydrate"
               PROVE  UNCHANGED worker \/ ReadBatch \/ Acknowledge
    OBVIOUS
  <1>1. CASE (\E u \in Uploads : Receive(u)) \/ ApiStep
    BY <1>1 DEF ApiStep, Receive, TruncateArtifacts, WriteArtifacts,
      RejectIfDuplicate, CommitRun, Publish
  <1>2. CASE WorkerStep
    BY <1>2 DEF WorkerStep, Hydrate, Judge, RecordTrustAssessment, SetRunStatus,
      SettleClaims, PublishRankingUpdate, TypeOK, WorkerOK
  <1>3. CASE Fault
    BY <1>3 DEF Fault, ApiFault, WorkerCrash, Fsync, RedisCrash, WorkerIdle
  <1>4. CASE UNCHANGED vars
    BY <1>4 DEF vars
  <1> QED
    BY <1>1, <1>2, <1>3, <1>4 DEF Next

-----------------------------------------------------------------------------
(* A step of anything but a Redis crash delivers nothing twice.            *)

LEMMA StreamOnceStep ==
  ASSUME TypeOK, Committed, DeliveredOnce, [Next]_vars, ~RedisCrash
  PROVE  StreamOnce'
  <1>1. CASE UNCHANGED stream
    BY <1>1 DEF DeliveredOnce, StreamOnce
  <1>2. CASE Publish
    <2>1. /\ stream \in Seq(Runs) /\ api.run \in Runs
          /\ stream' = Append(stream, api.run)
          /\ \A i \in 1 .. Len(stream) : stream[i] # api.run
      BY <1>2 DEF Publish, TypeOK, ApiOK, RedisOK, DeliveredOnce, PublishesOnce
    <2>2. /\ Len(stream) \in Nat /\ Len(stream') = Len(stream) + 1
          /\ \A i \in 1 .. Len(stream) : stream'[i] = stream[i]
          /\ stream'[Len(stream) + 1] = api.run
      BY <2>1, AppendProperties
    <2> QED
      BY <2>1, <2>2 DEF DeliveredOnce, StreamOnce
  <1> QED
    BY <1>1, <1>2, StreamWriters

LEMMA PublishesOnceStep ==
  ASSUME TypeOK, Committed, DeliveredOnce, [Next]_vars, ~RedisCrash
  PROVE  PublishesOnce'
  <1>1. CASE UNCHANGED api
    <2>1. SUFFICES ASSUME api.pc = "publish" PROVE PublishesOnce'
      BY <1>1 DEF PublishesOnce
    <2>2. ~Publish
      BY <1>1, <2>1 DEF Publish, ApiIdle
    <2>3. UNCHANGED stream
      BY <2>2, StreamWriters
    <2>4. api.run \in Runs /\ status[api.run] = "submitted"
      BY <2>1 DEF TypeOK, ApiOK, DeliveredOnce, PublishesOnce
    <2>5. SetRunStatus => api.run # Current
      BY <2>1, CurrentIsOnce DEF SetRunStatus, DeliveredOnce
    <2>6. status'[api.run] = "submitted"
      BY <2>4, <2>5, StaysSubmitted
    <2> QED
      BY <1>1, <2>1, <2>3, <2>6 DEF DeliveredOnce, PublishesOnce
  <1>2. CASE RejectIfDuplicate
    BY <1>2 DEF RejectIfDuplicate, ApiIdle, TypeOK, ApiOK, PublishesOnce
  <1>3. ASSUME NEW r \in Runs, CommitRun(r) PROVE PublishesOnce'
    <2>1. /\ api'.run = r /\ status'[r] = "submitted" /\ status[r] = "absent"
          /\ stream' = stream
      BY <1>3 DEF CommitRun, redis, TypeOK, ApiOK, RowsOK
    <2> QED
      BY <2>1 DEF PublishesOnce, Committed, OnlyCommitted
  <1>4. CASE api'.pc \notin {"insert", "publish"}
    BY <1>4 DEF PublishesOnce
  <1> QED
    BY <1>1, <1>2, <1>3, <1>4, ApiWriters

(* What the read and the acknowledgement make of cursor and batch.         *)
LEMMA ReadResult ==
  ASSUME TypeOK, ReadBatch
  PROVE  /\ cursor \in Nat /\ Len(stream) \in Nat /\ UNCHANGED <<stream, status>>
         /\ Len(worker'.batch) \in Nat \ {0}
         /\ cursor' = cursor + Len(worker'.batch) /\ cursor' <= Len(stream)
         /\ \A i \in 1 .. Len(worker'.batch) : worker'.batch[i] = stream[cursor + i]
         /\ worker'.pc = "hydrate"
  <1>1. PICK n \in Nat \ {0} :
          /\ cursor + n <= Len(stream) /\ cursor' = cursor + n
          /\ worker' = [worker EXCEPT !.pc = "hydrate",
                          !.batch = SubSeq(stream, cursor + 1, cursor + n)]
    BY ReadsNext
  <1>2. stream \in Seq(Runs) /\ cursor \in 0 .. Len(stream) /\ Len(stream) \in Nat
    BY DEF TypeOK, RedisOK
  <1> DEFINE new == SubSeq(stream, cursor + 1, cursor + n)
  <1>3. worker'.pc = "hydrate" /\ worker'.batch = new
    BY <1>1 DEF TypeOK, WorkerOK
  <1>4. n \in Nat /\ n > 0 /\ cursor \in Nat
    BY <1>2
  <1>5. Len(new) = n /\ \A i \in 1 .. n : new[i] = stream[cursor + i]
    <2>1. cursor + n <= Len(stream)
      BY <1>1
    <2> QED
      BY <1>2, <1>4, <2>1, NextBatch
  <1> HIDE DEF new
  <1>6. UNCHANGED <<stream, status>>
    BY DEF ReadBatch, postgres
  <1> QED
    BY <1>1, <1>2, <1>3, <1>4, <1>5, <1>6

LEMMA AckResult ==
  ASSUME TypeOK, Acknowledge
  PROVE  /\ UNCHANGED <<stream, cursor, status>> /\ worker.pc # "idle"
         /\ Len(worker.batch) \in Nat \ {0}
         /\ Len(worker'.batch) = Len(worker.batch) - 1
         /\ \A i \in 1 .. Len(worker'.batch) : worker'.batch[i] = worker.batch[i + 1]
         /\ worker'.pc = "hydrate" => Len(worker'.batch) \in Nat \ {0}
  <1>1. worker.pc # "idle" /\ UNCHANGED <<stream, cursor, status>>
    BY DEF Acknowledge, postgres
  <1>2. CASE Len(worker.batch) = 1
    <2>1. worker'.batch = <<>> /\ worker'.pc = "idle"
      BY <1>2 DEF Acknowledge, WorkerIdle
    <2>2. Len(worker'.batch) = 0
      BY <2>1, EmptySeq
    <2> QED
      BY <1>1, <1>2, <2>1, <2>2
  <1>3. CASE Len(worker.batch) # 1
    <2>1. worker'.batch = Tail(worker.batch)
      BY <1>3 DEF Acknowledge, WorkerIdle
    <2> QED
      BY <1>1, <1>3, <2>1, BatchShrinks
  <1> QED
    BY <1>2, <1>3

(* Any other step leaves the cursor, and the batch or drops it.            *)
LEMMA BatchStays ==
  ASSUME TypeOK, [Next]_vars, ~RedisCrash, ~ReadBatch, ~Acknowledge
  PROVE  /\ cursor' = cursor
         /\ worker'.batch = worker.batch \/ (worker'.batch = <<>> /\ Len(worker'.batch) = 0)
  BY StreamWriters, BatchWriters, EmptySeq

LEMMA BatchIsReadStep ==
  ASSUME TypeOK, Committed, DeliveredOnce, [Next]_vars, ~RedisCrash
  PROVE  BatchIsRead'
  <1>1. cursor \in Nat /\ cursor <= Len(stream) /\ Len(stream) \in Nat
    BY DEF TypeOK, RedisOK
  <1>2. CASE ReadBatch
    BY <1>2, ReadResult DEF BatchIsRead
  <1>3. CASE Acknowledge
    <2>1. /\ Len(worker.batch) \in Nat \ {0} /\ Len(worker'.batch) = Len(worker.batch) - 1
          /\ UNCHANGED <<stream, cursor>> /\ Len(worker.batch) <= cursor
      BY <1>3, AckResult DEF DeliveredOnce, BatchIsRead
    <2>2. ASSUME NEW i \in 1 .. Len(worker'.batch)
          PROVE  worker'.batch[i] = stream[cursor - Len(worker'.batch) + i]
      <3>1. i + 1 \in 1 .. Len(worker.batch)
            /\ cursor - Len(worker.batch) + (i + 1) = cursor - Len(worker'.batch) + i
        BY <1>1, <2>1
      <3>2. worker'.batch[i] = worker.batch[i + 1]
        BY <1>3, AckResult
      <3> QED
        BY <3>1, <3>2 DEF DeliveredOnce, BatchIsRead
    <2>3. Len(worker'.batch) <= cursor
      BY <1>1, <2>1
    <2>4. stream' = stream /\ cursor' = cursor
      BY <2>1
    <2> QED
      BY <2>2, <2>3, <2>4 DEF BatchIsRead
  <1>4. CASE ~ReadBatch /\ ~Acknowledge
    <2>1. CASE worker'.batch = worker.batch
      <3>1. cursor' = cursor
        BY <1>4, BatchStays
      <3>2. Len(worker.batch) \in Nat /\ Len(worker.batch) <= cursor
        BY DEF DeliveredOnce, BatchIsRead, TypeOK, WorkerOK
      <3>3. ASSUME NEW i \in 1 .. Len(worker.batch)
            PROVE  worker.batch[i] = stream'[cursor - Len(worker.batch) + i]
        <4>1. cursor - Len(worker.batch) + i \in 1 .. Len(stream)
          BY <1>1, <3>2
        <4>2. worker.batch[i] = stream[cursor - Len(worker.batch) + i]
          BY DEF DeliveredOnce, BatchIsRead
        <4> QED
          BY <4>1, <4>2, StreamGrows
      <3> QED
        BY <2>1, <3>1, <3>2, <3>3 DEF BatchIsRead
    <2>2. CASE worker'.batch = <<>> /\ Len(worker'.batch) = 0
      BY <1>1, <1>4, <2>2, BatchStays DEF BatchIsRead
    <2> QED
      BY <1>4, <2>1, <2>2, BatchStays
  <1> QED
    BY <1>2, <1>3, <1>4

LEMMA UnreadStep ==
  ASSUME TypeOK, Committed, DeliveredOnce, [Next]_vars, ~RedisCrash
  PROVE  Unread'
  <1>1. cursor \in Nat /\ cursor <= Len(stream) /\ Len(stream) \in Nat
        /\ stream \in Seq(Runs)
    BY DEF TypeOK, RedisOK
  <1>2. cursor' \in Nat /\ cursor' >= cursor
    <2>1. CASE ReadBatch
      BY <2>1, ReadResult
    <2>2. CASE Acknowledge
      BY <1>1, <2>2, AckResult
    <2> QED
      BY <1>1, <2>1, <2>2, BatchStays
  <1> SUFFICES ASSUME NEW i \in (cursor' + 1) .. Len(stream')
               PROVE  status'[stream'[i]] = "submitted"
    BY DEF Unread
  <1>3. CASE i <= Len(stream)
    <2>1. i \in (cursor + 1) .. Len(stream) /\ i \in 1 .. Len(stream)
      BY <1>1, <1>2, <1>3, StreamGrows
    <2>2. stream'[i] = stream[i] /\ stream[i] \in Runs /\ status[stream[i]] = "submitted"
      BY <1>1, <2>1, StreamGrows, ElementOfSeq DEF DeliveredOnce, Unread
    <2>3. SetRunStatus => stream[i] # Current
      BY <2>1, CurrentIsOnce DEF SetRunStatus, DeliveredOnce
    <2> QED
      BY <2>2, <2>3, StaysSubmitted
  <1>4. CASE i > Len(stream)
    <2>1. Publish /\ stream'[i] = api.run
      BY <1>1, <1>2, <1>4, StreamGrows
    <2> QED
      BY <2>1 DEF Publish, postgres, DeliveredOnce, PublishesOnce
  <1> QED
    BY <1>1, <1>2, <1>3, <1>4, StreamGrows

LEMMA RestWaitsStep ==
  ASSUME TypeOK, Committed, DeliveredOnce, [Next]_vars, ~RedisCrash
  PROVE  RestWaits'
  <1> SUFFICES ASSUME NEW i \in 2 .. Len(worker'.batch)
               PROVE  status'[worker'.batch[i]] = "submitted"
    BY DEF RestWaits
  <1>1. CASE ReadBatch
    <2>1. /\ cursor + i \in (cursor + 1) .. Len(stream)
          /\ worker'.batch[i] = stream[cursor + i] /\ status' = status
      BY <1>1, ReadResult
    <2> QED
      BY <2>1 DEF DeliveredOnce, Unread
  <1>2. CASE Acknowledge
    <2>1. /\ i + 1 \in 2 .. Len(worker.batch)
          /\ worker'.batch[i] = worker.batch[i + 1] /\ status' = status
      BY <1>2, AckResult
    <2> QED
      BY <2>1 DEF DeliveredOnce, RestWaits
  <1>3. CASE ~ReadBatch /\ ~Acknowledge
    <2>1. CASE worker'.batch = worker.batch
      <3>1. worker.batch \in Seq(Runs) /\ i \in 1 .. Len(worker.batch)
        BY <2>1 DEF TypeOK, WorkerOK
      <3>2. worker.batch[i] \in Runs /\ status[worker.batch[i]] = "submitted"
        BY <2>1, <3>1, ElementOfSeq DEF DeliveredOnce, RestWaits
      <3>3. SetRunStatus => worker.batch[i] # Current
        BY <2>1, CurrentIsOnce DEF SetRunStatus, DeliveredOnce
      <3> QED
        BY <2>1, <3>2, <3>3, StaysSubmitted
    <2>2. CASE Len(worker'.batch) = 0
      BY <2>2
    <2> QED
      BY <1>3, <2>1, <2>2, BatchStays
  <1> QED
    BY <1>1, <1>2, <1>3

LEMMA HeadWaitsStep ==
  ASSUME TypeOK, Committed, DeliveredOnce, [Next]_vars, ~RedisCrash
  PROVE  HeadWaits'
  <1>1. CASE UNCHANGED worker
    <2> SUFFICES ASSUME worker.pc \in {"hydrate", "judge", "trust", "status"}
                 PROVE  status'[Current] = "submitted"
      BY <1>1 DEF HeadWaits, Current
    <2>1. ~SetRunStatus
      BY <1>1 DEF SetRunStatus, TypeOK, WorkerOK
    <2>2. Current \in Runs /\ status[Current] = "submitted"
      BY BatchShrinks DEF DeliveredOnce, HeadWaits
    <2> QED
      BY <2>1, <2>2, StaysSubmitted
  <1>2. CASE Judge \/ RecordTrustAssessment \/ Hydrate
    <2>1. /\ worker.pc \in {"hydrate", "judge", "trust"}
          /\ worker'.batch = worker.batch /\ status' = status
      BY <1>2 DEF Judge, RecordTrustAssessment, Hydrate, postgres, TypeOK, WorkerOK
    <2> QED
      BY <2>1 DEF DeliveredOnce, HeadWaits, Current
  <1>3. CASE SetRunStatus \/ SettleClaims \/ PublishRankingUpdate
    <2>1. worker'.pc \in {"settle", "rank", "ack"}
      BY <1>3 DEF SetRunStatus, SettleClaims, PublishRankingUpdate, TypeOK, WorkerOK
    <2> QED
      BY <2>1 DEF HeadWaits
  <1>4. CASE worker'.pc = "idle"
    BY <1>4 DEF HeadWaits
  <1>5. CASE worker'.pc = "hydrate" /\ (ReadBatch \/ Acknowledge)
    <2>1. Len(worker'.batch) \in Nat \ {0}
      BY <1>5, ReadResult, AckResult
    <2>2. worker'.batch \in Seq(Runs)
      BY TypeStep DEF TypeOK, WorkerOK
    <2>3. Current' = worker'.batch[1]
      BY <2>1, <2>2 DEF Current
    <2>4. CASE ReadBatch
      <3>1. /\ cursor + 1 \in (cursor + 1) .. Len(stream)
            /\ worker'.batch[1] = stream[cursor + 1] /\ status' = status
        BY <2>1, <2>4, ReadResult
      <3> QED
        BY <2>3, <3>1 DEF DeliveredOnce, Unread, HeadWaits
    <2>5. CASE Acknowledge
      <3>1. /\ 2 \in 2 .. Len(worker.batch)
            /\ worker'.batch[1] = worker.batch[2] /\ status' = status
        BY <2>1, <2>5, AckResult
      <3> QED
        BY <2>3, <3>1 DEF DeliveredOnce, RestWaits, HeadWaits
    <2> QED
      BY <1>5, <2>4, <2>5
  <1> QED
    BY <1>1, <1>2, <1>3, <1>4, <1>5, WorkerWriters, HydrateWriters

LEMMA NoReplayStep == TypeOK /\ Committed /\ NoReplay /\ [Next]_vars => NoReplay'
  <1> SUFFICES ASSUME TypeOK, Committed, NoReplay, [Next]_vars, faults'.redis = 0
               PROVE  DeliveredOnce'
    BY DEF NoReplay
  <1>1. ~RedisCrash
    BY ReplayCounts
  <1>2. DeliveredOnce
    BY <1>1, RedisFaults DEF NoReplay
  <1> QED
    BY <1>1, <1>2, StreamOnceStep, PublishesOnceStep, BatchIsReadStep, UnreadStep,
      RestWaitsStep, HeadWaitsStep DEF DeliveredOnce

LEMMA NothingReplayed == Spec => [](TypeOK /\ Committed /\ NoReplay)
  BY TypeInit, CommittedInit, NoReplayInit, TypeStep, CommittedStep, NoReplayStep,
    PTL DEF Spec

-----------------------------------------------------------------------------
(* A verdict is written over only when Redis has gone back: no crash of the *)
(* API or of the worker, in any place, makes the worker judge a run twice. *)
THEOREM VerdictIsFinal == Spec => VerdictFinal
  <1>1. TypeOK /\ NoReplay /\ [Next]_vars =>
          [\A r \in Runs : Decided(r) =>
             status'[r] = status[r] \/ faults.redis > 0]_vars
    <2> SUFFICES ASSUME TypeOK, NoReplay, [Next]_vars, NEW r \in Runs, Decided(r),
                        faults.redis = 0
                 PROVE  status'[r] = status[r]
      BY DEF TypeOK
    <2>1. CASE SetRunStatus
      <3>1. status[Current] = "submitted"
        BY <2>1 DEF SetRunStatus, NoReplay, DeliveredOnce, HeadWaits
      <3> QED
        BY <2>1, <3>1 DEF SetRunStatus, Decided, Verdicts, TypeOK, RowsOK
    <2>2. ASSUME NEW q \in Runs, CommitRun(q) PROVE status'[r] = status[r]
      BY <2>2 DEF CommitRun, Decided, Verdicts, TypeOK, RowsOK
    <2> QED
      BY <2>1, <2>2, RowWriters
  <1> QED
    BY <1>1, NothingReplayed, PTL DEF Spec, VerdictFinal

-----------------------------------------------------------------------------
(* The refinement of RunLifecycle.                                         *)

(* What Lifecycle substitutes for the variable key.                        *)
RunKey == [r \in Runs |-> IF uploadOf[r] = NoUpload THEN NoKey ELSE Key(r)]

LEMMA LifecycleInit == Init => Lifecycle!Init
  BY DEF Init, Lifecycle!Init

(* The commit of a run is its acceptance, under a key no run has.          *)
LEMMA CommitAccepts ==
  ASSUME TypeOK, Committed, FreshKeys, NEW r \in Runs, CommitRun(r)
  PROVE  \E l \in Lookups : Lifecycle!Accept(r, l)
  <1> DEFINE l == LookupOf[api.upload]
  <1>1. /\ api.upload \in Uploads /\ l \in Lookups /\ l # NoKey
        /\ api.upload # NoUpload /\ ~KeyTaken(l)
    BY PipelineAssumption
    DEF CommitRun, TypeOK, ApiOK, FreshKeys, InsertIsFresh
  <1>2. \A s \in Runs : RunKey[s] # l
    BY <1>1 DEF RunKey, KeyTaken, Committed, UploadKnown
  <1>3. RunKey' = [RunKey EXCEPT ![r] = l]
    <2>1. uploadOf' = [uploadOf EXCEPT ![r] = api.upload]
      BY DEF CommitRun
    <2> QED
      BY <1>1, <2>1 DEF RunKey, Key, TypeOK, RowsOK
  <1>4. status[r] = "absent" /\ status' = [status EXCEPT ![r] = "submitted"]
    BY DEF CommitRun
  <1> HIDE DEF l
  <1> QED
    BY <1>1, <1>2, <1>3, <1>4 DEF RunKey, Lifecycle!Accept

(* The write of a verdict is the decision of a waiting run.                *)
LEMMA VerdictDecides ==
  ASSUME TypeOK, Committed, OneCounts, HeadWaits, SetRunStatus
  PROVE  Current \in Runs /\ Lifecycle!Decide(Current, worker.verdict)
  <1>1. /\ Current \in Runs /\ status[Current] = "submitted" /\ worker.pc = "status"
        /\ status' = [status EXCEPT ![Current] = worker.verdict]
        /\ uploadOf' = uploadOf
    BY BatchShrinks DEF SetRunStatus, HeadWaits
  <1>2. RunKey' = RunKey
    BY <1>1 DEF RunKey, Key
  <1>3. ASSUME worker.verdict \in Blocking, NEW s \in Runs, status[s] \in Blocking,
               Lifecycle!Peers(Current, s)
        PROVE  FALSE
    <2>1. s # Current /\ uploadOf[s] # NoUpload /\ uploadOf[Current] # NoUpload
      BY <1>1, <1>3 DEF Blocking, Committed, UploadKnown
    <2>2. /\ GroupOf[Key(s)] = GroupOf[Key(Current)]
          /\ GroupOf[Key(Current)] \notin VideoGroups
      BY <1>1, <1>3, <2>1 DEF Lifecycle!Peers
    <2>3. Duplicate(Current)
      BY <1>3, <2>1, <2>2 DEF Duplicate, GroupRows, Blocking
    <2> QED
      BY <1>1, <1>3, <2>3 DEF OneCounts, VerdictIsCurrent
  <1> QED
    BY <1>1, <1>2, <1>3
    DEF RunKey, Lifecycle!Decide, Lifecycle!Blocking, Blocking

LEMMA LifecycleStep ==
  ASSUME TypeOK, Committed, FreshKeys, OneCounts, NoReplay, faults.redis = 0,
         [Next]_vars
  PROVE  [Lifecycle!Next]_(Lifecycle!vars)
  <1>1. CASE UNCHANGED <<uploadOf, status>>
    BY <1>1 DEF Lifecycle!vars, Key
  <1>2. CASE SetRunStatus
    <2>1. Current \in Runs /\ Lifecycle!Decide(Current, worker.verdict)
      BY <1>2, VerdictDecides DEF NoReplay, DeliveredOnce
    <2>2. worker.verdict \in Lifecycle!Verdicts
      BY DEF TypeOK, WorkerOK, Verdicts, Lifecycle!Verdicts
    <2> QED
      BY <2>1, <2>2 DEF Lifecycle!Next
  <1>3. ASSUME NEW r \in Runs, CommitRun(r) PROVE Lifecycle!Next
    BY <1>3, CommitAccepts DEF Lifecycle!Next
  <1> QED
    BY <1>1, <1>2, <1>3, RowWriters

(* As long as Redis does not go back, the intake - with its crashes, its   *)
(* batches and its repeated submissions - is the abstract lifecycle: a key *)
(* is accepted once, a run is judged once, a group counts one run.         *)
THEOREM RefinesWhileRedisStands ==
  Spec /\ [](faults.redis = 0) => ImplementsLifecycle
  <1> DEFINE Inv == TypeOK /\ Committed /\ NoReplay /\ FreshKeys /\ OneCounts
  <1>1. Init => Inv
    BY TypeInit, CommittedInit, NoReplayInit, FreshKeysInit, OneCountsInit
  <1>2. Inv /\ [Next]_vars => Inv'
    BY TypeStep, CommittedStep, NoReplayStep, FreshKeysStep, OneCountsStep
  <1>3. Inv /\ faults.redis = 0 /\ [Next]_vars => [Lifecycle!Next]_(Lifecycle!vars)
    BY LifecycleStep
  <1> HIDE DEF Inv
  <1> QED
    BY <1>1, <1>2, <1>3, LifecycleInit, PTL DEF Spec, ImplementsLifecycle, Lifecycle!Spec

=============================================================================
