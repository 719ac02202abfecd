------------------------- MODULE PoolPipelineProofs --------------------------
(***************************************************************************)
(* Proofs about PoolPipeline for any pool, catalog, rigs, page size and    *)
(* number of edits and faults: the types, the paging of a pool that moves, *)
(* what is served and published, and what a finished pipeline leaves.      *)
(***************************************************************************)
EXTENDS PoolPipeline, FiniteSetTheorems, TLAPS

-----------------------------------------------------------------------------
(* Rows, documents and steps                                               *)

Pcs      == {"rest", "page", "models", "store", "local", "assess", "export", "write",
             "copy", "mark"}
Verdicts == {"ok", "exempt", "impossible"}
Stamps   == {"missing", "last", "older", "torn"}

CleanRow  == [run : AllRuns, rig : Rigs, model : Models, cell : BOOLEAN, now : Verdicts]
DocRecord == [stamp : Stamps, clean : SUBSET CleanRow, excluded : Nat]
Steps     == [pc : Pcs, offset : Nat, total : Nat,
              seen : [PoolRuns -> RunData \cup {NoRun}], first : SUBSET PoolRuns,
              shifted : BOOLEAN, docs : [clean : SUBSET CleanRow, excluded : Nat],
              at : 1 .. 4]

Domains ==
  /\ listing \in Seq(PoolRuns) /\ step \in Steps
  /\ out \in [DocName -> DocRecord] /\ web \in [DocName -> DocRecord]
  /\ why \in {"none", "guard", "check", "foreign key", "fault", "done"}
  /\ marker \in BOOLEAN

Typed == TypeOK /\ Domains

LEMMA DocsAre ==
  /\ Len(Docs) = 4 /\ DocName = {"hardware", "models", "pool", "stats"}
  /\ \A k \in 1 .. 4 : Docs[k] \in DocName
  /\ \A n \in DocName : \E k \in 1 .. 4 : Docs[k] = n
  /\ \A j, k \in 1 .. 4 : Docs[j] = Docs[k] => j = k
<1>1. DOMAIN Docs = 1 .. 4 /\ Len(Docs) = 4
  BY DEF Docs
<1>2. Docs[1] = "hardware" /\ Docs[2] = "models" /\ Docs[3] = "pool" /\ Docs[4] = "stats"
  BY DEF Docs
<1>3. \A k \in 1 .. 4 : k = 1 \/ k = 2 \/ k = 3 \/ k = 4
  OBVIOUS
<1>4. DocName = {Docs[k] : k \in 1 .. 4}
  BY <1>1 DEF DocName, Range
<1>5. DocName = {"hardware", "models", "pool", "stats"}
  BY <1>2, <1>3, <1>4
<1>6. \A n \in DocName : \E k \in 1 .. 4 : Docs[k] = n
  BY <1>4
<1>7. \A j, k \in 1 .. 4 : Docs[j] = Docs[k] => j = k
  BY <1>2, <1>3
<1> QED BY <1>1, <1>4, <1>5, <1>6, <1>7

LEMMA RestIsStep ==
  /\ Rest \in Steps /\ Rest.pc = "rest" /\ Rest.docs.clean = {} /\ Rest.shifted = FALSE
  /\ NoDoc \in DocRecord /\ NoDoc.clean = {} /\ Torn \in DocRecord /\ Torn.clean = {}
<1>1. [clean |-> {}, excluded |-> 0] \in [clean : SUBSET CleanRow, excluded : Nat]
  OBVIOUS
<1>2. [r \in PoolRuns |-> NoRun] \in [PoolRuns -> RunData \cup {NoRun}]
  OBVIOUS
<1>3. Rest \in Steps /\ Rest.pc = "rest" /\ Rest.docs.clean = {} /\ Rest.shifted = FALSE
  BY <1>1, <1>2 DEF Rest, Steps, Pcs
<1>4. NoDoc \in DocRecord /\ NoDoc.clean = {}
  BY DEF NoDoc, DocRecord, Stamps
<1>5. Torn \in DocRecord /\ Torn.clean = {}
  BY <1>4 DEF Torn, DocRecord, Stamps
<1> QED BY <1>3, <1>4, <1>5

LEMMA RunsAreCounted ==
  ASSUME NEW S, S \subseteq AllRuns
  PROVE  IsFiniteSet(S) /\ Cardinality(S) \in Nat
<1>1. IsFiniteSet(AllRuns)
  BY PoolAssumption, FS_Union DEF AllRuns
<1> QED BY <1>1, FS_Subset, FS_CardinalityType

LEMMA VerdictIs ==
  ASSUME NEW d, NEW b
  PROVE  Verdict(d, b) \in Verdicts
BY DEF Verdict, Verdicts

LEMMA CleanRowsAre ==
  ASSUME Typed
  PROVE  CleanRows \subseteq CleanRow
<1> SUFFICES ASSUME NEW r \in AllRuns, Clean(r)
             PROVE  [run |-> r, rig |-> runs[r].rig, model |-> runs[r].model,
                     cell |-> runs[r].bits /\ runs[r].single,
                     now |-> Verdict(runs[r], rigs[runs[r].rig].bandwidth)] \in CleanRow
  BY DEF CleanRows
<1>1. runs[r] \in RunData
  BY DEF Clean, Typed, TypeOK
<1>2. /\ runs[r].rig \in Rigs /\ runs[r].model \in Models
      /\ (runs[r].bits /\ runs[r].single) \in BOOLEAN
  BY <1>1 DEF RunData
<1> QED BY <1>2, VerdictIs DEF CleanRow

(* The documents, the files and the pipeline, for a step of the pipeline.  *)
LEMMA NextDocumentIs ==
  ASSUME Typed, NEW after \in Pcs
  PROVE  LET q == NextDocument(after)
         IN  /\ q \in Steps /\ q.docs = step.docs /\ q.seen = step.seen
             /\ q.shifted = step.shifted /\ q.first = step.first
             /\ step.at # 4 => step.at < 4 /\ q.at = step.at + 1 /\ q.pc = step.pc
             /\ step.at = 4 => q.at = 1 /\ q.pc = after
<1>1. step \in Steps
  BY DEF Typed, Domains
<1>2. CASE step.at < 4
  <2> DEFINE n == step.at + 1
  <2>1. n \in 1 .. 4 /\ step.at # 4
    BY <1>1, <1>2 DEF Steps
  <2>2. NextDocument(after) = [step EXCEPT !.at = n]
    BY <1>2, DocsAre DEF NextDocument
  <2> HIDE DEF n
  <2>3. [step EXCEPT !.at = n] \in Steps
    BY <1>1, <2>1 DEF Steps
  <2>4. LET q == [step EXCEPT !.at = n]
        IN  /\ q.docs = step.docs /\ q.seen = step.seen /\ q.shifted = step.shifted
            /\ q.first = step.first /\ q.pc = step.pc /\ q.at = n
    BY <1>1 DEF Steps
  <2> QED BY <1>2, <2>1, <2>2, <2>3, <2>4 DEF n
<1>3. CASE ~(step.at < 4)
  <2>1. NextDocument(after) = [step EXCEPT !.at = 1, !.pc = after] /\ step.at = 4
    BY <1>1, <1>3, DocsAre DEF NextDocument, Steps
  <2>2. [step EXCEPT !.at = 1, !.pc = after] \in Steps
    <3>1. 1 \in 1 .. 4
      OBVIOUS
    <3> QED BY <1>1, <3>1 DEF Steps
  <2>3. LET q == [step EXCEPT !.at = 1, !.pc = after]
        IN  /\ q.docs = step.docs /\ q.seen = step.seen /\ q.shifted = step.shifted
            /\ q.first = step.first /\ q.pc = after /\ q.at = 1
    BY <1>1 DEF Steps
  <2> QED BY <2>1, <2>2, <2>3
<1> QED BY <1>2, <1>3

(* The commands that only move the pipeline on.                            *)
LEMMA StepIs ==
  ASSUME Typed
  PROVE  /\ \A r \in PoolRuns : WithdrawRun(r) =>
              /\ step' \in Steps /\ step'.pc = step.pc /\ step'.docs = step.docs
              /\ step'.at = step.at /\ step'.seen = step.seen /\ step'.first = step.first
              /\ step'.offset = step.offset
              /\ (step'.shifted <=> step.shifted \/ step.pc = "page")
         /\ StartSync =>
              /\ step' \in Steps /\ step'.pc = "page" /\ step'.first = ToSet(listing)
              /\ step'.docs.clean = {} /\ step'.offset = 0
         /\ FetchPage =>
              LET next == step.offset + PageSize
                  page == {listing[i] : i \in DOMAIN listing \cap step.offset + 1 .. next}
              IN  /\ step' \in Steps /\ step'.docs = step.docs /\ step'.offset = next
                  /\ step'.pc = IF MorePages(next) THEN "page" ELSE "models"
                  /\ step'.shifted = step.shifted /\ step'.first = step.first
                  /\ step'.seen = [r \in PoolRuns |-> IF r \in page THEN data[r]
                                                      ELSE step.seen[r]]
         /\ FetchModels =>
              \/ step' = Rest /\ why' = "guard"
              \/ /\ step' \in Steps /\ step'.pc = "store" /\ step'.docs = step.docs
                 /\ step'.seen = step.seen /\ step'.first = step.first
                 /\ step'.shifted = step.shifted /\ UNCHANGED why
         /\ StoreSync =>
              \/ step' = Rest /\ why' \in {"check", "foreign key"}
              \/ step' \in Steps /\ step'.pc = "local" /\ step'.docs.clean = {} /\ UNCHANGED why
         /\ ImportLocal =>
              \/ step' = Rest /\ why' = "foreign key"
              \/ /\ step' \in Steps /\ step'.pc = "assess" /\ step'.docs = step.docs
                 /\ UNCHANGED why
         /\ Assess => step' \in Steps /\ step'.pc = "export" /\ step'.docs = step.docs
         /\ Export => /\ step' \in Steps /\ step'.pc = "write" /\ step'.at = 1
                      /\ step'.docs.clean = CleanRows /\ step'.docs.excluded = Excluded
<1>1. step \in Steps /\ listing \in Seq(PoolRuns) /\ data \in [PoolRuns -> RunData]
  BY PoolAssumption DEF Typed, Domains, TypeOK
<1>2. ASSUME NEW r \in PoolRuns, WithdrawRun(r)
      PROVE  /\ step' \in Steps /\ step'.pc = step.pc /\ step'.docs = step.docs
             /\ step'.at = step.at /\ step'.seen = step.seen /\ step'.first = step.first
             /\ step'.offset = step.offset
             /\ (step'.shifted <=> step.shifted \/ step.pc = "page")
  <2> DEFINE s == step.shifted \/ step.pc = "page"
  <2>1. s \in BOOLEAN /\ step' = [step EXCEPT !.shifted = s]
    BY <1>1, <1>2 DEF WithdrawRun, Steps
  <2> HIDE DEF s
  <2>2. /\ step' \in Steps /\ step'.pc = step.pc /\ step'.docs = step.docs
        /\ step'.at = step.at /\ step'.seen = step.seen /\ step'.first = step.first
        /\ step'.offset = step.offset /\ step'.shifted = s
    BY <1>1, <2>1 DEF Steps
  <2> QED BY <2>2 DEF s
<1>3. ASSUME StartSync
      PROVE  /\ step' \in Steps /\ step'.pc = "page" /\ step'.first = ToSet(listing)
             /\ step'.docs.clean = {} /\ step'.offset = 0
  <2> DEFINE f == ToSet(listing)
  <2>1. f \subseteq PoolRuns
    BY <1>1 DEF ToSet
  <2>2. step' = [Rest EXCEPT !.pc = "page", !.first = f]
    BY <1>3 DEF StartSync
  <2> HIDE DEF f
  <2>3. Rest \in Steps /\ Rest.docs.clean = {} /\ Rest.offset = 0
    BY RestIsStep DEF Rest
  <2> HIDE DEF Rest
  <2>4. /\ step' \in Steps /\ step'.pc = "page" /\ step'.first = f
        /\ step'.docs = Rest.docs /\ step'.offset = Rest.offset
    BY <2>1, <2>2, <2>3 DEF Steps, Pcs
  <2> QED BY <2>3, <2>4 DEF f
<1>4. ASSUME FetchPage
      PROVE  LET next == step.offset + PageSize
                 page == {listing[i] : i \in DOMAIN listing \cap step.offset + 1 .. next}
             IN  /\ step' \in Steps /\ step'.docs = step.docs /\ step'.offset = next
                 /\ step'.pc = IF MorePages(next) THEN "page" ELSE "models"
                 /\ step'.shifted = step.shifted /\ step'.first = step.first
                 /\ step'.seen = [r \in PoolRuns |-> IF r \in page THEN data[r]
                                                     ELSE step.seen[r]]
  <2> DEFINE next == step.offset + PageSize
             page == {listing[i] : i \in DOMAIN listing \cap step.offset + 1 .. next}
             seen == [r \in PoolRuns |-> IF r \in page THEN data[r] ELSE step.seen[r]]
             pc   == IF MorePages(next) THEN "page" ELSE "models"
             n    == Len(listing)
  <2>1. /\ next \in Nat /\ n \in Nat /\ pc \in Pcs
        /\ seen \in [PoolRuns -> RunData \cup {NoRun}]
    BY <1>1, PoolAssumption DEF Steps, Pcs
  <2>2. step' = [step EXCEPT !.pc = pc, !.offset = next, !.total = n, !.seen = seen]
    BY <1>4 DEF FetchPage
  <2> HIDE DEF next, page, seen, pc, n
  <2>3. /\ step' \in Steps /\ step'.docs = step.docs /\ step'.offset = next
        /\ step'.pc = pc /\ step'.shifted = step.shifted /\ step'.first = step.first
        /\ step'.seen = seen
    BY <1>1, <2>1, <2>2 DEF Steps
  <2> QED BY <2>3 DEF next, page, seen, pc
<1>5. ASSUME FetchModels
      PROVE  \/ step' = Rest /\ why' = "guard"
             \/ /\ step' \in Steps /\ step'.pc = "store" /\ step'.docs = step.docs
                /\ step'.seen = step.seen /\ step'.first = step.first
                /\ step'.shifted = step.shifted /\ UNCHANGED why
  <2>1. \/ step' = Rest /\ why' = "guard"
        \/ step' = [step EXCEPT !.pc = "store"] /\ UNCHANGED why
    BY <1>5 DEF FetchModels, Stop
  <2> DEFINE s == [step EXCEPT !.pc = "store"]
  <2>2. "store" \in Pcs
    BY DEF Pcs
  <2>3. /\ s \in Steps /\ s.pc = "store" /\ s.docs = step.docs
        /\ s.seen = step.seen /\ s.first = step.first /\ s.shifted = step.shifted
    BY <1>1, <2>2 DEF Steps
  <2> HIDE DEF s
  <2>4. (step' = Rest /\ why' = "guard") \/ (step' = s /\ UNCHANGED why)
    BY <2>1 DEF s
  <2> QED BY <2>3, <2>4
<1>6. ASSUME StoreSync
      PROVE  \/ step' = Rest /\ why' \in {"check", "foreign key"}
             \/ step' \in Steps /\ step'.pc = "local" /\ step'.docs.clean = {} /\ UNCHANGED why
  <2>1. \/ step' = Rest /\ why' \in {"check", "foreign key"}
        \/ step' = [Rest EXCEPT !.pc = "local"] /\ UNCHANGED why
    BY <1>6 DEF StoreSync, Stop
  <2>2. Rest \in Steps /\ Rest.docs.clean = {}
    BY RestIsStep
  <2> DEFINE s == [Rest EXCEPT !.pc = "local"]
  <2> HIDE DEF Rest
  <2>3. "local" \in Pcs
    BY DEF Pcs
  <2>4. s \in Steps /\ s.pc = "local" /\ s.docs.clean = {}
    BY <2>2, <2>3 DEF Steps
  <2> HIDE DEF s
  <2>5. \/ step' = Rest /\ why' \in {"check", "foreign key"}
        \/ step' = s /\ UNCHANGED why
    BY <2>1 DEF s
  <2> QED BY <2>4, <2>5
<1>7. ASSUME ImportLocal
      PROVE  \/ step' = Rest /\ why' = "foreign key"
             \/ /\ step' \in Steps /\ step'.pc = "assess" /\ step'.docs = step.docs
                /\ UNCHANGED why
  <2>1. \/ step' = Rest /\ why' = "foreign key"
        \/ step' = [step EXCEPT !.pc = "assess"] /\ UNCHANGED why
    BY <1>7 DEF ImportLocal, Stop
  <2> DEFINE s == [step EXCEPT !.pc = "assess"]
  <2>2. "assess" \in Pcs
    BY DEF Pcs
  <2>3. s \in Steps /\ s.pc = "assess" /\ s.docs = step.docs
    BY <1>1, <2>2 DEF Steps
  <2> HIDE DEF s
  <2>4. (step' = Rest /\ why' = "foreign key") \/ (step' = s /\ UNCHANGED why)
    BY <2>1 DEF s
  <2> QED BY <2>3, <2>4
<1>8. ASSUME Assess
      PROVE  step' \in Steps /\ step'.pc = "export" /\ step'.docs = step.docs
  BY <1>1, <1>8 DEF Assess, Steps, Pcs
<1>9. ASSUME Export
      PROVE  /\ step' \in Steps /\ step'.pc = "write" /\ step'.at = 1
             /\ step'.docs.clean = CleanRows /\ step'.docs.excluded = Excluded
  <2> DEFINE d == [clean |-> CleanRows, excluded |-> Excluded]
  <2>1. d \in [clean : SUBSET CleanRow, excluded : Nat]
    BY CleanRowsAre, RunsAreCounted DEF Excluded, Stored
  <2>2. d.clean = CleanRows /\ d.excluded = Excluded
    OBVIOUS
  <2>3. step' = [step EXCEPT !.pc = "write", !.at = 1, !.docs = d]
    BY <1>9 DEF Export
  <2> HIDE DEF d
  <2>4. step' \in Steps /\ step'.pc = "write" /\ step'.at = 1 /\ step'.docs = d
    <3>1. 1 \in 1 .. 4 /\ "write" \in Pcs
      BY DEF Pcs
    <3> QED BY <1>1, <2>1, <2>3, <3>1 DEF Steps
  <2> QED BY <2>2, <2>4
<1> QED BY <1>2, <1>3, <1>4, <1>5, <1>6, <1>7, <1>8, <1>9

-----------------------------------------------------------------------------
(* The order of the remote pool                                            *)

LEMMA Inserted ==
  ASSUME NEW S, NEW s \in Seq(S), NEW i \in 1 .. Len(s) + 1, NEW e \in S
  PROVE  LET t == InsertAt(s, i, e)
         IN  /\ t \in Seq(S) /\ Len(t) = Len(s) + 1
             /\ \A k \in 1 .. Len(t) : t[k] = IF k < i THEN s[k] ELSE IF k = i THEN e
                                              ELSE s[k - 1]
<1> DEFINE a == SubSeq(s, 1, i - 1)
           b == a \o <<e>>
           c == SubSeq(s, i, Len(s))
<1>1. a \in Seq(S) /\ Len(a) = i - 1 /\ \A k \in 1 .. i - 1 : a[k] = s[k]
  OBVIOUS
<1>2. c \in Seq(S) /\ Len(c) = Len(s) - i + 1 /\ \A k \in 1 .. Len(c) : c[k] = s[i + k - 1]
  OBVIOUS
<1> HIDE DEF a, c
<1>3. /\ b \in Seq(S) /\ Len(b) = i
      /\ \A k \in 1 .. i : b[k] = IF k < i THEN s[k] ELSE e
  BY <1>1
<1> HIDE DEF b
<1>4. /\ b \o c \in Seq(S) /\ Len(b \o c) = Len(s) + 1
      /\ \A k \in 1 .. Len(b \o c) : (b \o c)[k] = IF k <= i THEN b[k] ELSE c[k - i]
  BY <1>2, <1>3
<1>5. \A k \in 1 .. Len(s) + 1 : k > i => k - i \in 1 .. Len(c) /\ i + (k - i) - 1 = k - 1
  BY <1>2
<1>6. InsertAt(s, i, e) = b \o c
  BY DEF InsertAt, a, b, c
<1> QED BY <1>2, <1>3, <1>4, <1>5, <1>6

LEMMA Joined ==
  ASSUME NEW S, NEW a \in Seq(S), NEW c \in Seq(S)
  PROVE  /\ a \o c \in Seq(S) /\ Len(a \o c) = Len(a) + Len(c)
         /\ \A k \in 1 .. Len(a) + Len(c) : (a \o c)[k] = IF k <= Len(a) THEN a[k]
                                                         ELSE c[k - Len(a)]
OBVIOUS

LEMMA Removed ==
  ASSUME NEW S, NEW s \in Seq(S), NEW i \in 1 .. Len(s)
  PROVE  LET t == RemoveAt(s, i)
         IN  /\ t \in Seq(S) /\ Len(t) = Len(s) - 1
             /\ \A k \in 1 .. Len(t) : t[k] = IF k < i THEN s[k] ELSE s[k + 1]
<1> DEFINE a == SubSeq(s, 1, i - 1)
           c == SubSeq(s, i + 1, Len(s))
<1>1. a \in Seq(S) /\ Len(a) = i - 1 /\ \A k \in 1 .. i - 1 : a[k] = s[k]
  OBVIOUS
<1>2. c \in Seq(S) /\ Len(c) = Len(s) - i /\ \A k \in 1 .. Len(c) : c[k] = s[i + k]
  <2>1. Len(s) - (i + 1) + 1 = Len(s) - i /\ \A k \in Int : (i + 1) + k - 1 = i + k
    OBVIOUS
  <2>2. \A k \in i + 1 .. Len(s) : s[k] \in S
    OBVIOUS
  <2>3. c = [k \in 1 .. Len(s) - i |-> s[i + k]]
    OBVIOUS
  <2> QED BY <2>2, <2>3
<1> HIDE DEF a, c
<1>3. Len(s) \in Nat /\ i \in Nat /\ i >= 1 /\ i <= Len(s)
  OBVIOUS
<1>4. Len(a) + Len(c) = Len(s) - 1
  BY <1>1, <1>2, <1>3
<1>5. /\ a \o c \in Seq(S) /\ Len(a \o c) = Len(s) - 1
      /\ \A k \in 1 .. Len(s) - 1 : (a \o c)[k] = IF k <= i - 1 THEN a[k] ELSE c[k - (i - 1)]
  <2>1. a \in Seq(S) /\ c \in Seq(S) /\ Len(a) = i - 1 /\ Len(a) + Len(c) = Len(s) - 1
    BY <1>1, <1>2, <1>4
  <2>2. /\ a \o c \in Seq(S) /\ Len(a \o c) = Len(a) + Len(c)
        /\ \A k \in 1 .. Len(a) + Len(c) : (a \o c)[k] = IF k <= Len(a) THEN a[k]
                                                        ELSE c[k - Len(a)]
    BY <2>1, Joined
  <2> QED BY ONLY <2>1, <2>2
<1>6. ASSUME NEW k \in 1 .. Len(s) - 1
      PROVE  (a \o c)[k] = IF k < i THEN s[k] ELSE s[k + 1]
  <2>1. CASE k < i
    BY <1>1, <1>3, <1>5, <2>1
  <2>2. CASE ~(k < i)
    <3>1. k - (i - 1) \in 1 .. Len(c) /\ i + (k - (i - 1)) = k + 1 /\ ~(k <= i - 1)
      BY <1>2, <1>3, <2>2
    <3>2. (a \o c)[k] = c[k - (i - 1)] /\ c[k - (i - 1)] = s[i + (k - (i - 1))]
      BY <1>2, <1>5, <3>1
    <3> QED BY <2>2, <3>1, <3>2
  <2> QED BY <2>1, <2>2
<1>7. RemoveAt(s, i) = a \o c
  BY DEF RemoveAt, a, c
<1> QED BY <1>5, <1>6, <1>7

(* What a change of the pool does to its order and to the paging.          *)
LEMMA ListingTyped ==
  ASSUME Typed, RemoteChange
  PROVE  /\ listing' \in Seq(PoolRuns) /\ IsInjective(listing') /\ Range(listing') \subseteq PoolRuns
         /\ data' \in [PoolRuns -> Data]
<1>1. /\ listing \in Seq(PoolRuns) /\ data \in [PoolRuns -> Data] /\ IsInjective(listing)
  BY DEF Typed, TypeOK, Domains
<1>2. \A s \in Seq(PoolRuns) : Range(s) \subseteq PoolRuns
  BY DEF Range
<1>3. ASSUME NEW r \in PoolRuns, NEW d \in Data, AddRun(r, d)
      PROVE  listing' \in Seq(PoolRuns) /\ IsInjective(listing') /\ data' \in [PoolRuns -> Data]
  <2>1. PICK i \in 1 .. Len(listing) + 1 : listing' = InsertAt(listing, i, r)
    BY <1>3 DEF AddRun
  <2>2. /\ listing' \in Seq(PoolRuns) /\ Len(listing') = Len(listing) + 1
        /\ \A k \in 1 .. Len(listing') : listing'[k] = IF k < i THEN listing[k]
                                         ELSE IF k = i THEN r ELSE listing[k - 1]
    <3>1. listing \in Seq(PoolRuns) /\ i \in 1 .. Len(listing) + 1 /\ r \in PoolRuns
      BY <1>1
    <3> DEFINE t == InsertAt(listing, i, r)
    <3>2. /\ t \in Seq(PoolRuns) /\ Len(t) = Len(listing) + 1
          /\ \A k \in 1 .. Len(t) : t[k] = IF k < i THEN listing[k]
                                           ELSE IF k = i THEN r ELSE listing[k - 1]
      BY <3>1, Inserted
    <3> HIDE DEF t
    <3>3. listing' = t
      BY <2>1 DEF t
    <3> QED BY <3>2, <3>3
  <2>3. \A j \in 1 .. Len(listing) : listing[j] # r
    BY <1>3 DEF AddRun, Contains
  <2>4. \A j, k \in 1 .. Len(listing) : listing[j] = listing[k] => j = k
    BY <1>1 DEF IsInjective
  <2>5. ASSUME NEW j \in 1 .. Len(listing'), NEW k \in 1 .. Len(listing'),
               listing'[j] = listing'[k]
        PROVE  j = k
    <3>1. Len(listing) \in Nat /\ i \in Nat /\ j \in Nat /\ k \in Nat
      BY <1>1
    <3>2. /\ j < i => j \in 1 .. Len(listing)
          /\ j > i => j - 1 \in 1 .. Len(listing)
          /\ k < i => k \in 1 .. Len(listing)
          /\ k > i => k - 1 \in 1 .. Len(listing)
      BY <2>2, <3>1
    <3>3. /\ j < i => listing'[j] = listing[j]
          /\ j > i => listing'[j] = listing[j - 1]
          /\ j = i => listing'[j] = r
          /\ k < i => listing'[k] = listing[k]
          /\ k > i => listing'[k] = listing[k - 1]
          /\ k = i => listing'[k] = r
      BY <2>2, <3>1
    <3>4. CASE j = i \/ k = i
      BY <2>3, <2>5, <3>1, <3>2, <3>3, <3>4
    <3>5. CASE j < i /\ k < i
      BY <2>4, <2>5, <3>2, <3>3, <3>5
    <3>6. CASE j > i /\ k > i
      <4>1. j - 1 = k - 1
        BY <2>4, <2>5, <3>2, <3>3, <3>6
      <4> QED BY <3>1, <4>1
    <3>7. CASE j < i /\ k > i
      <4>1. j = k - 1
        BY <2>4, <2>5, <3>2, <3>3, <3>7
      <4> QED BY <3>1, <3>7, <4>1
    <3>8. CASE j > i /\ k < i
      <4>1. j - 1 = k
        BY <2>4, <2>5, <3>2, <3>3, <3>8
      <4> QED BY <3>1, <3>8, <4>1
    <3> QED BY <3>1, <3>4, <3>5, <3>6, <3>7, <3>8
  <2>6. DOMAIN listing' = 1 .. Len(listing')
    BY <2>2
  <2>7. data' \in [PoolRuns -> Data]
    BY <1>1, <1>3 DEF AddRun
  <2> QED BY <2>2, <2>5, <2>6, <2>7 DEF IsInjective
<1>4. ASSUME NEW r \in PoolRuns, NEW d \in Data, AmendRun(r, d)
      PROVE  listing' \in Seq(PoolRuns) /\ IsInjective(listing') /\ data' \in [PoolRuns -> Data]
  BY <1>1, <1>4 DEF AmendRun, IsInjective
<1>5. ASSUME NEW r \in PoolRuns, WithdrawRun(r)
      PROVE  listing' \in Seq(PoolRuns) /\ IsInjective(listing') /\ data' \in [PoolRuns -> Data]
  <2>1. PICK i \in 1 .. Len(listing) : listing' = RemoveAt(listing, i)
    BY <1>1, <1>5 DEF WithdrawRun
  <2>2. /\ listing' \in Seq(PoolRuns) /\ Len(listing') = Len(listing) - 1
        /\ \A k \in 1 .. Len(listing') : listing'[k] = IF k < i THEN listing[k]
                                                       ELSE listing[k + 1]
    BY <1>1, <2>1, Removed
  <2>3. \A j, k \in 1 .. Len(listing) : listing[j] = listing[k] => j = k
    BY <1>1 DEF IsInjective
  <2>4. ASSUME NEW j \in 1 .. Len(listing'), NEW k \in 1 .. Len(listing'),
               listing'[j] = listing'[k]
        PROVE  j = k
    <3> DEFINE a == IF j < i THEN j ELSE j + 1
               b == IF k < i THEN k ELSE k + 1
    <3>1. Len(listing) \in Nat /\ i \in Nat /\ j \in Nat /\ k \in Nat
      BY <1>1
    <3>2. a \in 1 .. Len(listing) /\ b \in 1 .. Len(listing)
      BY <2>2, <3>1
    <3>3. listing'[j] = listing[a] /\ listing'[k] = listing[b]
      BY <2>2
    <3>4. a = b
      <4> HIDE DEF a, b
      <4> QED BY <2>3, <2>4, <3>2, <3>3
    <3> QED BY <3>1, <3>4
  <2>5. DOMAIN listing' = 1 .. Len(listing')
    BY <2>2
  <2>6. data' = data
    BY <1>5 DEF WithdrawRun
  <2> QED BY <1>1, <2>2, <2>4, <2>5, <2>6 DEF IsInjective
<1> QED BY <1>2, <1>3, <1>4, <1>5 DEF RemoteChange

-----------------------------------------------------------------------------
LEMMA TypedInit == Init => Typed
<1> SUFFICES ASSUME Init PROVE Typed
  OBVIOUS
<1>1. step \in Steps /\ out \in [DocName -> DocRecord] /\ web \in [DocName -> DocRecord]
  BY RestIsStep DEF Init
<1>2. Domains
  BY <1>1, PoolAssumption DEF Init, Domains
<1>3. Range(listing) \subseteq PoolRuns /\ IsInjective(listing)
  BY PoolAssumption DEF Init, Range
<1>4. TypeOK
  <2>1. step.seen \in [PoolRuns -> RunData \cup {NoRun}] /\ step.pc \in Pcs /\ step.at \in 1 .. Len(Docs)
    BY <1>1, DocsAre DEF Steps
  <2>2. \A n \in DocName : out[n].stamp \in Stamps /\ web[n].stamp \in Stamps
    BY <1>1 DEF DocRecord
  <2> QED BY <1>2, <1>3, <2>1, <2>2, PoolAssumption DEF Init, TypeOK, Domains, Pcs, Stamps
<1> QED BY <1>2, <1>4 DEF Typed

(* The tables.                                                             *)
TablesTyped ==
  /\ catalog \subseteq Categories /\ schema \subseteq Categories
  /\ models \in [Models -> Categories \cup {NoCategory}]
  /\ rigs \in [Rigs -> [stored : BOOLEAN, bandwidth : BOOLEAN, count : Nat]]
  /\ runs \in [AllRuns -> RunData \cup {NoRun}]
  /\ flags \in [AllRuns -> {"none", "ok", "exempt", "impossible"}]
  /\ synced \in Nat

LEMMA TypedIs ==
  Typed <=> /\ Domains /\ TablesTyped /\ data \in [PoolRuns -> Data]
            /\ Range(listing) \subseteq PoolRuns /\ IsInjective(listing)
<1>1. Domains => /\ step.seen \in [PoolRuns -> RunData \cup {NoRun}] /\ step.pc \in Pcs
                 /\ step.at \in 1 .. Len(Docs)
  BY DocsAre DEF Domains, Steps
<1>2. Domains => \A n \in DocName : out[n].stamp \in Stamps /\ web[n].stamp \in Stamps
  BY DEF Domains, DocRecord
<1> QED BY <1>1, <1>2 DEF Typed, TypeOK, Domains, TablesTyped, Pcs, Stamps

LEMMA RigsTyped ==
  ASSUME TablesTyped, NEW brought, NEW known, NEW table
  PROVE  StoreRigs(brought, known, table)
           \in [Rigs -> [stored : BOOLEAN, bandwidth : BOOLEAN, count : Nat]]
<1> SUFFICES ASSUME NEW g \in Rigs
             PROVE  [stored |-> rigs[g].stored \/ g \in brought,
                     bandwidth |-> IF g \in brought THEN g \in known ELSE rigs[g].bandwidth,
                     count |-> CountFor(table, g)]
                       \in [stored : BOOLEAN, bandwidth : BOOLEAN, count : Nat]
  BY DEF StoreRigs
<1>1. CountFor(table, g) \in Nat
  BY RunsAreCounted DEF CountFor
<1>2. rigs[g] \in [stored : BOOLEAN, bandwidth : BOOLEAN, count : Nat]
  BY DEF TablesTyped
<1>3. rigs[g].bandwidth \in BOOLEAN
  BY <1>2
<1>4. (IF g \in brought THEN g \in known ELSE rigs[g].bandwidth) \in BOOLEAN
  <2>1. (g \in known) \in BOOLEAN
    OBVIOUS
  <2> QED BY <1>3, <2>1, Zenon
<1>5. (rigs[g].stored \/ g \in brought) \in BOOLEAN
  OBVIOUS
<1> QED BY <1>1, <1>4, <1>5

LEMMA KeptIs ==
  ASSUME Typed
  PROVE  /\ Kept \subseteq PoolRuns /\ Kept \subseteq AllRuns
         /\ \A r \in Kept : step.seen[r] \in RunData
BY DEF Kept, Typed, TypeOK, AllRuns

LEMMA TablesTypedNext ==
  ASSUME Typed, [Next]_vars
  PROVE  TablesTyped'
<1>1. TablesTyped
  BY TypedIs
<1>2. CASE UNCHANGED <<models, rigs, runs, flags, synced, catalog, schema>>
  BY <1>1, <1>2 DEF TablesTyped
<1>3. ASSUME NEW c \in Categories, EditCatalog(c)
      PROVE  TablesTyped'
  BY <1>1, <1>3 DEF TablesTyped, EditCatalog, tables
<1>4. Migrated /\ UNCHANGED catalog =>
        /\ catalog' \subseteq Categories /\ schema' \subseteq Categories
        /\ models' \in [Models -> Categories \cup {NoCategory}]
  BY <1>1 DEF TablesTyped, Migrated
<1>5. CASE StartSync
  BY <1>1, <1>4, <1>5 DEF TablesTyped, StartSync
<1>6. CASE Export
  BY <1>1, <1>4, <1>6 DEF TablesTyped, Export
<1>7. CASE Assess
  <2>1. flags' \in [AllRuns -> {"none", "ok", "exempt", "impossible"}]
    BY <1>7, VerdictIs DEF Assess, Recomputed, Verdicts
  <2> QED BY <1>1, <1>4, <1>7, <2>1 DEF TablesTyped, Assess
<1>8. CASE ImportLocal
  <2> DEFINE table == [r \in AllRuns |-> IF r \in Importable THEN LocalData[r] ELSE runs[r]]
  <2>1. table \in [AllRuns -> RunData \cup {NoRun}]
    BY <1>1, PoolAssumption DEF TablesTyped, Importable
  <2>2. LocalRigs(table) \in [Rigs -> [stored : BOOLEAN, bandwidth : BOOLEAN, count : Nat]]
    BY <1>1, RigsTyped DEF LocalRigs
  <2>3. \/ UNCHANGED <<rigs, runs>>
        \/ rigs' = LocalRigs(table) /\ runs' = table
    BY <1>8 DEF ImportLocal
  <2>4. Migrated /\ UNCHANGED <<catalog, flags, synced>>
    BY <1>8 DEF ImportLocal
  <2> HIDE DEF table
  <2> QED BY <1>1, <1>4, <2>1, <2>2, <2>3, <2>4 DEF TablesTyped
<1>9. CASE StoreSync
  <2> DEFINE table == StoreRuns(runs)
             sent  == StoreRigs({step.seen[r].rig : r \in Kept}, Seeded, table)
  <2>1. table \in [AllRuns -> RunData \cup {NoRun}]
    BY <1>1, KeptIs DEF TablesTyped, StoreRuns
  <2>2. sent \in [Rigs -> [stored : BOOLEAN, bandwidth : BOOLEAN, count : Nat]]
    BY <1>1, RigsTyped
  <2>3. StoreModels \in [Models -> Categories \cup {NoCategory}]
    <3>1. \A m \in Models : Category(m) \in Categories
      BY PoolAssumption DEF Category
    <3> QED BY <1>1, <3>1 DEF TablesTyped, StoreModels
  <2>4. Cardinality(Kept) \in Nat
    BY KeptIs, RunsAreCounted
  <2>5. \/ UNCHANGED <<models, rigs, runs, synced>>
        \/ models' = StoreModels /\ rigs' = sent /\ runs' = table /\ synced' = Cardinality(Kept)
    BY <1>9 DEF StoreSync
  <2>6. UNCHANGED <<catalog, schema, flags>>
    BY <1>9 DEF StoreSync
  <2> HIDE DEF table, sent
  <2> QED BY <1>1, <2>1, <2>2, <2>3, <2>4, <2>5, <2>6 DEF TablesTyped
<1> QED BY <1>2, <1>3, <1>5, <1>6, <1>7, <1>8, <1>9
        DEF Next, RemoteChange, Pipeline, Sync, FetchPage, FetchModels, WriteOutput, Copy, Mark,
            MigrationFails, Fault, tables, vars

(* The files.                                                              *)
LEMMA DocumentTyped ==
  ASSUME Typed
  PROVE  /\ Document \in DocRecord /\ Document.clean = step.docs.clean
         /\ Document.excluded = step.docs.excluded /\ Document.stamp = "last"
<1>1. step.docs \in [clean : SUBSET CleanRow, excluded : Nat]
  BY DEF Typed, Domains, Steps
<1> QED BY <1>1 DEF Document, DocRecord, Stamps

LEMMA AgedTyped ==
  ASSUME NEW docs \in [DocName -> DocRecord]
  PROVE  /\ Aged(docs) \in [DocName -> DocRecord]
         /\ \A n \in DocName : Aged(docs)[n].clean = docs[n].clean
<1> SUFFICES ASSUME NEW n \in DocName
             PROVE  Aged(docs)[n] \in DocRecord /\ Aged(docs)[n].clean = docs[n].clean
  BY DEF Aged
<1>1. docs[n] \in DocRecord
  OBVIOUS
<1>2. Aged(docs)[n] = docs[n] \/ Aged(docs)[n] = [docs[n] EXCEPT !.stamp = "older"]
  BY DEF Aged
<1>3. /\ [docs[n] EXCEPT !.stamp = "older"] \in DocRecord
      /\ [docs[n] EXCEPT !.stamp = "older"].clean = docs[n].clean
  BY <1>1 DEF DocRecord, Stamps
<1> QED BY <1>1, <1>2, <1>3

(* What a document may become: one of three rows of clean runs.            *)
LEMMA FilesAre ==
  ASSUME Typed, [Next]_vars
  PROVE  /\ out' \in [DocName -> DocRecord] /\ web' \in [DocName -> DocRecord]
         /\ \A n \in DocName :
              /\ out'[n].clean \in {out[n].clean, {}, step.docs.clean}
              /\ web'[n].clean \in {web[n].clean, {}, out[n].clean}
<1> DEFINE Done == /\ out' \in [DocName -> DocRecord] /\ web' \in [DocName -> DocRecord]
                   /\ \A n \in DocName :
                        /\ out'[n].clean \in {out[n].clean, {}, step.docs.clean}
                        /\ web'[n].clean \in {web[n].clean, {}, out[n].clean}
<1> SUFFICES Done
  OBVIOUS
<1>1. /\ out \in [DocName -> DocRecord] /\ web \in [DocName -> DocRecord]
      /\ step.at \in 1 .. 4 /\ Docs[step.at] \in DocName
  BY DocsAre DEF Typed, Domains, Steps
<1>2. CASE UNCHANGED <<out, web>>
  BY <1>1, <1>2
<1>3. CASE WriteOutput
  BY <1>1, <1>3, DocumentTyped DEF WriteOutput
<1>4. CASE Copy
  BY <1>1, <1>4 DEF Copy
<1>5. CASE StoreSync
  <2>1. UNCHANGED <<out, web>> \/ (out' = Aged(out) /\ web' = Aged(web))
    BY <1>5 DEF StoreSync, files
  <2> QED BY <1>1, <1>2, <2>1, AgedTyped
<1>6. CASE Fault
  BY <1>1, <1>6, RestIsStep DEF Fault
<1> QED BY <1>2, <1>3, <1>4, <1>5, <1>6
        DEF Next, RemoteChange, EditCatalog, Pipeline, Sync, StartSync, FetchPage, FetchModels,
            ImportLocal, Assess, Export, Mark, MigrationFails, files, vars

(* The pipeline.                                                           *)
Reasons == {"none", "guard", "check", "foreign key", "fault", "done"}

LEMMA StepTyped ==
  ASSUME Typed, [Next]_vars
  PROVE  step' \in Steps /\ why' \in Reasons /\ marker' \in BOOLEAN
<1> DEFINE Done == step' \in Steps /\ why' \in Reasons /\ marker' \in BOOLEAN
<1> SUFFICES Done
  OBVIOUS
<1>1. step \in Steps /\ why \in Reasons /\ marker \in BOOLEAN
  BY DEF Typed, Domains, Reasons
<1>2. CASE RemoteChange
  <2>1. step' = step \/ step' \in Steps
    BY <1>2, StepIs DEF RemoteChange, AddRun, AmendRun
  <2> QED BY <1>1, <1>2, <2>1 DEF RemoteChange, files
<1>3. CASE StartSync \/ FetchPage \/ Assess \/ Export
  <2>1. UNCHANGED <<why, marker>>
    BY <1>3 DEF StartSync, FetchPage, Assess, Export, files
  <2> QED BY <1>1, <1>3, <2>1, StepIs
<1>4. CASE FetchModels \/ StoreSync \/ ImportLocal
  <2>1. UNCHANGED marker
    BY <1>4 DEF FetchModels, StoreSync, ImportLocal, files
  <2>2. step' \in Steps /\ why' \in Reasons
    BY <1>1, <1>4, StepIs, RestIsStep DEF Reasons
  <2> QED BY <1>1, <2>1, <2>2
<1>5. CASE WriteOutput \/ Copy
  <2>1. UNCHANGED <<why, marker>> /\ (step' = NextDocument("copy") \/ step' = NextDocument("mark"))
    BY <1>5 DEF WriteOutput, Copy
  <2>2. "copy" \in Pcs /\ "mark" \in Pcs
    BY DEF Pcs
  <2> QED BY <1>1, <2>1, <2>2, NextDocumentIs
<1>6. CASE Mark
  BY <1>6, RestIsStep DEF Mark, Stop, Reasons
<1>7. CASE Fault
  BY <1>1, <1>7, RestIsStep DEF Fault, Stop, Reasons
<1>8. CASE MigrationFails({"rest", "local", "assess", "export"})
  BY <1>1, <1>8, RestIsStep DEF MigrationFails, Stop, Reasons, files
<1>9. CASE UNCHANGED <<step, why, files>>
  BY <1>1, <1>9 DEF files
<1> QED BY <1>2, <1>3, <1>4, <1>5, <1>6, <1>7, <1>8, <1>9
        DEF Next, EditCatalog, Pipeline, Sync, vars

LEMMA TypedNext ==
  ASSUME Typed, [Next]_vars
  PROVE  Typed'
<1>1. /\ listing' \in Seq(PoolRuns) /\ IsInjective(listing') /\ Range(listing') \subseteq PoolRuns
      /\ data' \in [PoolRuns -> Data]
  <2>1. CASE RemoteChange
    BY <2>1, ListingTyped
  <2>2. CASE UNCHANGED remote
    BY <2>2 DEF Typed, TypeOK, Domains, remote, IsInjective
  <2> QED BY <2>1, <2>2
          DEF Next, EditCatalog, Pipeline, Sync, StartSync, FetchPage, FetchModels, StoreSync,
              ImportLocal, Assess, Export, WriteOutput, Copy, Mark, MigrationFails, Fault, vars
<1>2. TablesTyped'
  BY TablesTypedNext
<1>3. Domains'
  BY <1>1, FilesAre, StepTyped DEF Domains, Reasons
<1>4. (/\ Domains /\ TablesTyped /\ data \in [PoolRuns -> Data]
       /\ Range(listing) \subseteq PoolRuns /\ IsInjective(listing))'
  BY <1>1, <1>2, <1>3
<1> QED BY <1>4, TypedIs, PTL

LEMMA TypeInvariant == Spec => []Typed
<1>1. Init => Typed
  BY TypedInit
<1>2. Typed /\ [Next]_vars => Typed'
  BY TypedNext
<1> QED BY <1>1, <1>2, PTL DEF Spec

(* The tables, the files and the pipeline always hold what the code can    *)
(* put there.                                                              *)
THEOREM TypeCorrect == Spec => []TypeOK
<1>1. Typed => TypeOK
  BY DEF Typed
<1> QED BY <1>1, TypeInvariant, PTL

-----------------------------------------------------------------------------
(* The pages of a pool that moves                                          *)

(* Between two pages, a run that was listed when the paging began is among *)
(* the runs fetched or still in front of the offset: an insertion can only *)
(* move it to the right.                                                   *)
PagesAhead ==
  step.pc = "page" /\ ~step.shifted =>
    \A r \in step.first : \/ step.seen[r] # NoRun
                          \/ \E i \in DOMAIN listing : listing[i] = r /\ i > step.offset

PagesInv == PagesAhead /\ PagesComplete

LEMMA PagesAtFetch ==
  ASSUME Typed, PagesInv, FetchPage
  PROVE  PagesInv'
<1> DEFINE next == step.offset + PageSize
           page == {listing[i] : i \in DOMAIN listing \cap step.offset + 1 .. next}
<1>1. /\ step \in Steps /\ listing \in Seq(PoolRuns) /\ data \in [PoolRuns -> RunData]
      /\ step.offset \in Nat /\ step.first \subseteq PoolRuns /\ next \in Nat
  <2>1. step \in Steps /\ listing \in Seq(PoolRuns) /\ data \in [PoolRuns -> RunData]
    BY PoolAssumption DEF Typed, TypeOK, Domains
  <2>2. step.offset \in Nat /\ step.first \subseteq PoolRuns
    BY <2>1 DEF Steps
  <2> QED BY <2>1, <2>2, PoolAssumption
<1>2. /\ step'.pc = IF MorePages(next) THEN "page" ELSE "models"
      /\ step'.offset = next /\ step'.shifted = step.shifted /\ step'.first = step.first
      /\ step'.seen = [r \in PoolRuns |-> IF r \in page THEN data[r] ELSE step.seen[r]]
  BY <1>1, StepIs
<1>3. step.pc = "page" /\ UNCHANGED listing
  BY <1>1 DEF FetchPage, remote
<1>4. ASSUME ~step.shifted, NEW r \in step.first
      PROVE  \/ step'.seen[r] # NoRun
             \/ \E i \in DOMAIN listing : listing[i] = r /\ i > next
  <2>1. r \in PoolRuns /\ data[r] # NoRun
    BY <1>1, PoolAssumption
  <2>2. CASE step.seen[r] # NoRun
    BY <1>2, <2>1, <2>2
  <2>3. CASE \E i \in DOMAIN listing : listing[i] = r /\ i > step.offset
    <3>1. PICK i \in DOMAIN listing : listing[i] = r /\ i > step.offset
      BY <2>3
    <3>2. i \in Nat
      BY <1>1
    <3>3. CASE i <= next
      <4>1. i \in step.offset + 1 .. next
        BY <1>1, <3>1, <3>2, <3>3
      <4>2. r \in page
        BY <3>1, <4>1
      <4> QED BY <1>2, <2>1, <4>2
    <3>4. CASE ~(i <= next)
      BY <1>1, <3>1, <3>2, <3>4
    <3> QED BY <3>3, <3>4
  <2> QED BY <1>3, <1>4, <2>2, <2>3 DEF PagesInv, PagesAhead
<1>5. ~MorePages(next) => ~\E i \in DOMAIN listing : i > next
  BY <1>1 DEF MorePages
<1> HIDE DEF next, page
<1> QED BY <1>2, <1>3, <1>4, <1>5 DEF PagesInv, PagesAhead, PagesComplete

LEMMA PagesAtChange ==
  ASSUME Typed, PagesInv, RemoteChange
  PROVE  PagesInv'
<1>1. listing \in Seq(PoolRuns) /\ step \in Steps
  BY DEF Typed, Domains
<1>2. ASSUME NEW r \in PoolRuns, NEW d \in Data, AddRun(r, d)
      PROVE  PagesInv'
  <2>1. PICK j \in 1 .. Len(listing) + 1 : listing' = InsertAt(listing, j, r)
    BY <1>2 DEF AddRun
  <2>2. /\ listing' \in Seq(PoolRuns) /\ Len(listing') = Len(listing) + 1
        /\ \A k \in 1 .. Len(listing') : listing'[k] = IF k < j THEN listing[k]
                                         ELSE IF k = j THEN r ELSE listing[k - 1]
    <3>1. listing \in Seq(PoolRuns) /\ j \in 1 .. Len(listing) + 1 /\ r \in PoolRuns
      BY <1>1
    <3> DEFINE t == InsertAt(listing, j, r)
    <3>2. /\ t \in Seq(PoolRuns) /\ Len(t) = Len(listing) + 1
          /\ \A k \in 1 .. Len(t) : t[k] = IF k < j THEN listing[k]
                                           ELSE IF k = j THEN r ELSE listing[k - 1]
      BY <3>1, Inserted
    <3> HIDE DEF t
    <3>3. listing' = t
      BY <2>1 DEF t
    <3> QED BY <3>2, <3>3
  <2>3. ASSUME NEW i \in DOMAIN listing, i > step.offset
        PROVE  \E k \in DOMAIN listing' : listing'[k] = listing[i] /\ k > step.offset
    <3>1. i \in 1 .. Len(listing) /\ Len(listing) \in Nat /\ step.offset \in Nat /\ j \in Nat
      BY <1>1 DEF Steps
    <3>2. DOMAIN listing' = 1 .. Len(listing) + 1
      BY <2>2
    <3>3. CASE i < j
      <4>1. i \in 1 .. Len(listing) + 1 /\ listing'[i] = listing[i]
        BY <2>2, <3>1, <3>3
      <4> QED BY <2>3, <3>2, <4>1
    <3>4. CASE ~(i < j)
      <4>1. /\ i + 1 \in 1 .. Len(listing) + 1 /\ i + 1 > step.offset
            /\ ~(i + 1 < j) /\ i + 1 # j /\ (i + 1) - 1 = i
        BY <2>3, <3>1, <3>4
      <4>2. listing'[i + 1] = listing[i]
        BY <2>2, <4>1
      <4> QED BY <3>2, <4>1, <4>2
    <3> QED BY <3>3, <3>4
  <2>4. UNCHANGED step
    BY <1>2 DEF AddRun
  <2> QED BY <2>3, <2>4 DEF PagesInv, PagesAhead, PagesComplete
<1>3. ASSUME NEW r \in PoolRuns, NEW d \in Data, AmendRun(r, d)
      PROVE  PagesInv'
  BY <1>3 DEF AmendRun, PagesInv, PagesAhead, PagesComplete
<1>4. ASSUME NEW r \in PoolRuns, WithdrawRun(r)
      PROVE  PagesInv'
  BY <1>4, StepIs DEF PagesInv, PagesAhead, PagesComplete
<1> QED BY <1>2, <1>3, <1>4 DEF RemoteChange

LEMMA PagesNext ==
  ASSUME Typed, PagesInv, [Next]_vars
  PROVE  PagesInv'
<1>1. CASE RemoteChange
  BY <1>1, PagesAtChange
<1>2. CASE FetchPage
  BY <1>2, PagesAtFetch
<1>3. CASE StartSync
  <2>1. step'.pc = "page" /\ step'.first = ToSet(listing) /\ step'.offset = 0 /\ listing' = listing
    BY <1>3, StepIs DEF StartSync, remote
  <2>2. ASSUME NEW r \in ToSet(listing)
        PROVE  \E i \in DOMAIN listing : listing[i] = r /\ i > 0
    <3>1. listing \in Seq(PoolRuns)
      BY DEF Typed, Domains
    <3>2. \A i \in DOMAIN listing : i > 0
      BY <3>1
    <3> QED BY <3>2 DEF ToSet
  <2> QED BY <2>1, <2>2 DEF PagesInv, PagesAhead, PagesComplete
<1>4. CASE FetchModels
  <2>1. \/ step' = Rest
        \/ /\ step'.pc = "store" /\ step'.seen = step.seen /\ step'.first = step.first
           /\ step'.shifted = step.shifted
    BY <1>4, StepIs
  <2>2. step.pc = "models"
    BY <1>4 DEF FetchModels
  <2> QED BY <2>1, <2>2, RestIsStep DEF PagesInv, PagesAhead, PagesComplete
<1>5. CASE step'.pc \notin {"page", "models", "store"}
  BY <1>5 DEF PagesInv, PagesAhead, PagesComplete
<1>6. CASE UNCHANGED <<listing, step>>
  BY <1>6 DEF PagesInv, PagesAhead, PagesComplete
<1>7. StoreSync \/ ImportLocal \/ Assess \/ Export => step'.pc \notin {"page", "models", "store"}
  BY StepIs, RestIsStep
<1>8. WriteOutput \/ Copy => step'.pc \notin {"page", "models", "store"}
  <2>1. WriteOutput => step.pc = "write" /\ step' = NextDocument("copy")
    BY DEF WriteOutput
  <2>2. Copy => step.pc = "copy" /\ step' = NextDocument("mark")
    BY DEF Copy
  <2>3. "copy" \in Pcs /\ "mark" \in Pcs
    BY DEF Pcs
  <2> QED BY <2>1, <2>2, <2>3, NextDocumentIs
<1>9. Mark \/ Fault \/ MigrationFails({"rest", "local", "assess", "export"})
        => step'.pc \notin {"page", "models", "store"}
  BY RestIsStep DEF Mark, Fault, MigrationFails, Stop
<1> QED BY <1>1, <1>2, <1>3, <1>4, <1>5, <1>6, <1>7, <1>8, <1>9
        DEF Next, EditCatalog, Pipeline, Sync, remote, vars

(* A run listed when the paging began is fetched, however many runs are    *)
(* inserted before it meanwhile, for every page size and every pool.       *)
THEOREM PagesAreComplete == Spec => []PagesComplete
<1>1. Init => PagesInv
  BY RestIsStep DEF Init, PagesInv, PagesAhead, PagesComplete
<1>2. Typed /\ PagesInv /\ [Next]_vars => PagesInv'
  BY PagesNext
<1>3. PagesInv => PagesComplete
  BY DEF PagesInv
<1> QED BY <1>1, <1>2, <1>3, TypeInvariant, PTL DEF Spec

-----------------------------------------------------------------------------
(* What is served and published                                            *)

Finished == step.pc = "rest" /\ why = "done"
Late     == step.pc \in {"export", "write", "copy", "mark"} \/ Finished

(* A flag that lets a run pass is the word of some assessment; a document  *)
(* holds only runs that were let pass, as they stood; and from the         *)
(* assessment to the end of the pipeline the flags are what an assessment  *)
(* of the rows as they are would say.                                      *)
FlagsAreEarned == \A r \in AllRuns : flags[r] \notin {"none", "impossible"} => r \in cleared
Sound(rows)    == \A x \in rows : x.run \in cleared /\ x.now # "impossible"
DocumentsSound == /\ Sound(step.docs.clean)
                  /\ \A n \in DocName : Sound(out[n].clean) /\ Sound(web[n].clean)
FlagsAreFresh  == Late => flags = Recomputed

ServingInv == FlagsAreEarned /\ DocumentsSound /\ FlagsAreFresh

(* The document that states the tables, and how far it has been written    *)
(* and copied.                                                             *)
Now     == [stamp |-> "last", clean |-> CleanRows, excluded |-> Excluded]
Writing == step.pc = "write" =>
             /\ step.docs.clean = CleanRows /\ step.docs.excluded = Excluded
             /\ \A k \in 1 .. 4 : k < step.at => out[Docs[k]] = Now
Written == step.pc \in {"copy", "mark"} \/ Finished => \A n \in DocName : out[n] = Now
Copying == step.pc = "copy" => \A k \in 1 .. 4 : k < step.at => web[Docs[k]] = out[Docs[k]]
Copied  == step.pc = "mark" \/ Finished => web = out

DoneInv == Writing /\ Written /\ Copying /\ Copied

(* The actions in three kinds: those that leave the tables and the         *)
(* pipeline where they are, the early commands, and the late ones.         *)
Aside == /\ UNCHANGED <<runs, rigs, flags, cleared, out, web, why>>
         /\ step'.pc = step.pc /\ step'.docs = step.docs /\ step'.at = step.at
Early == /\ UNCHANGED <<flags, cleared>>
         /\ step'.docs.clean \in {step.docs.clean, {}}
         /\ step'.pc \in {"page", "models", "store", "local", "assess"}
              \/ (step'.pc = "rest" /\ why' # "done")

LEMMA KindsOfSteps ==
  ASSUME Typed, [Next]_vars
  PROVE  Aside \/ Early \/ Assess \/ Export \/ WriteOutput \/ Copy \/ Mark
<1>1. CASE RemoteChange
  <2>1. step'.pc = step.pc /\ step'.docs = step.docs /\ step'.at = step.at
    BY <1>1, StepIs DEF RemoteChange, AddRun, AmendRun
  <2> QED BY <1>1, <2>1 DEF RemoteChange, Aside, tables, files
<1>2. CASE StartSync
  BY <1>2, StepIs DEF StartSync, Early
<1>3. CASE FetchPage
  <2>1. step'.pc \in {"page", "models"} /\ step'.docs = step.docs
    BY <1>3, StepIs
  <2> QED BY <1>3, <2>1 DEF FetchPage, Early, tables
<1>4. CASE FetchModels
  <2>1. (step' = Rest /\ why' = "guard") \/ (step'.pc = "store" /\ step'.docs = step.docs)
    BY <1>4, StepIs
  <2> QED BY <1>4, <2>1, RestIsStep DEF FetchModels, Early, tables
<1>5. CASE StoreSync
  <2>1. (step' = Rest /\ why' \in {"check", "foreign key"})
          \/ (step'.pc = "local" /\ step'.docs.clean = {})
    BY <1>5, StepIs
  <2> QED BY <1>5, <2>1, RestIsStep DEF StoreSync, Early
<1>6. CASE ImportLocal
  <2>1. (step' = Rest /\ why' = "foreign key") \/ (step'.pc = "assess" /\ step'.docs = step.docs)
    BY <1>6, StepIs
  <2> QED BY <1>6, <2>1, RestIsStep DEF ImportLocal, Early
<1>7. CASE Fault \/ MigrationFails({"rest", "local", "assess", "export"})
  BY <1>7, RestIsStep DEF Fault, MigrationFails, Stop, Early, tables
<1>8. CASE UNCHANGED <<tables, step, why, files, cleared>>
  BY <1>8 DEF Aside, tables, files
<1> QED BY <1>1, <1>2, <1>3, <1>4, <1>5, <1>6, <1>7, <1>8
        DEF Next, EditCatalog, Pipeline, Sync, vars

LEMMA TablesSpeak ==
  ASSUME UNCHANGED <<runs, rigs, flags>>
  PROVE  CleanRows' = CleanRows /\ Excluded' = Excluded /\ Recomputed' = Recomputed /\ Now' = Now
<1>1. CleanRows' = CleanRows
  BY DEF CleanRows, Clean
<1>2. Excluded' = Excluded
  BY DEF Excluded, Stored
<1>3. Recomputed' = Recomputed
  BY DEF Recomputed
<1> QED BY <1>1, <1>2, <1>3 DEF Now

(* What a fresh assessment lets pass may be published.                     *)
LEMMA CleanRowsAreSound ==
  ASSUME Typed, FlagsAreEarned, flags = Recomputed
  PROVE  Sound(CleanRows)
<1> SUFFICES ASSUME NEW r \in AllRuns, Clean(r)
             PROVE  r \in cleared /\ Verdict(runs[r], rigs[runs[r].rig].bandwidth) # "impossible"
  BY DEF Sound, CleanRows
<1>1. runs[r] # NoRun /\ flags[r] \notin {"none", "impossible"}
  BY DEF Clean
<1>2. flags[r] = Verdict(runs[r], rigs[runs[r].rig].bandwidth)
  BY <1>1 DEF Recomputed
<1> QED BY <1>1, <1>2 DEF FlagsAreEarned

LEMMA ServingNext ==
  ASSUME Typed, ServingInv, [Next]_vars
  PROVE  ServingInv'
<1>1. \A n \in DocName : /\ out'[n].clean \in {out[n].clean, {}, step.docs.clean}
                         /\ web'[n].clean \in {web[n].clean, {}, out[n].clean}
  BY FilesAre
<1>2. cleared \subseteq cleared' /\ Sound(step.docs.clean)' => DocumentsSound'
  BY <1>1 DEF ServingInv, DocumentsSound, Sound
<1>3. cleared \subseteq cleared' /\ step'.docs.clean \in {step.docs.clean, {}}
        => Sound(step.docs.clean)'
  BY DEF ServingInv, DocumentsSound, Sound
<1>4. CASE Aside
  <2>1. DocumentsSound'
    BY <1>2, <1>3, <1>4 DEF Aside
  <2>2. Late' = Late
    BY <1>4 DEF Aside, Late, Finished
  <2> QED BY <1>4, <2>1, <2>2, TablesSpeak DEF Aside, ServingInv, FlagsAreEarned, FlagsAreFresh
<1>5. CASE Early
  <2>1. DocumentsSound' /\ ~Late'
    BY <1>2, <1>3, <1>5 DEF Early, Late, Finished
  <2> QED BY <1>5, <2>1 DEF Early, ServingInv, FlagsAreEarned, FlagsAreFresh
<1>6. CASE Assess
  <2>1. /\ flags' = Recomputed /\ UNCHANGED <<runs, rigs>>
        /\ cleared' = cleared \cup {r \in Stored : flags'[r] # "impossible"}
    BY <1>6 DEF Assess
  <2>2. DocumentsSound'
    <3>1. step'.docs = step.docs
      BY <1>6, StepIs
    <3> QED BY <1>2, <1>3, <2>1, <3>1
  <2>3. Recomputed' = Recomputed
    BY <2>1 DEF Recomputed
  <2>4. \A r \in AllRuns : flags'[r] # "none" => r \in Stored
    BY <2>1 DEF Recomputed, Stored
  <2> QED BY <2>1, <2>2, <2>3, <2>4 DEF ServingInv, FlagsAreEarned, FlagsAreFresh
<1>7. CASE Export
  <2>1. UNCHANGED <<runs, rigs, flags, cleared>> /\ step.pc = "export"
    BY <1>7 DEF Export
  <2>2. flags = Recomputed
    BY <2>1 DEF ServingInv, FlagsAreFresh, Late
  <2>3. step'.docs.clean = CleanRows
    BY <1>7, StepIs
  <2>4. Sound(step.docs.clean)'
    BY <2>1, <2>2, <2>3, CleanRowsAreSound DEF ServingInv, Sound
  <2> QED BY <1>2, <2>1, <2>2, <2>4, TablesSpeak DEF ServingInv, FlagsAreEarned, FlagsAreFresh
<1>8. CASE WriteOutput \/ Copy \/ Mark
  <2>1. UNCHANGED <<runs, rigs, flags, cleared>> /\ Late
    BY <1>8 DEF WriteOutput, Copy, Mark, tables, Late
  <2>2. step'.docs.clean \in {step.docs.clean, {}}
    <3>1. \/ step' = NextDocument("copy") \/ step' = NextDocument("mark") \/ step' = Rest
      BY <1>8 DEF WriteOutput, Copy, Mark, Stop
    <3>2. "copy" \in Pcs /\ "mark" \in Pcs
      BY DEF Pcs
    <3> QED BY <3>1, <3>2, NextDocumentIs, RestIsStep
  <2>3. DocumentsSound'
    BY <1>2, <1>3, <2>1, <2>2
  <2> QED BY <2>1, <2>3, TablesSpeak DEF ServingInv, FlagsAreEarned, FlagsAreFresh
<1> QED BY <1>4, <1>5, <1>6, <1>7, <1>8, KindsOfSteps

LEMMA ServingHolds == Spec => []ServingInv
<1>1. Init => ServingInv
  BY RestIsStep DEF Init, ServingInv, FlagsAreEarned, DocumentsSound, Sound, FlagsAreFresh, Late,
                    Finished
<1>2. Typed /\ ServingInv /\ [Next]_vars => ServingInv'
  BY ServingNext
<1> QED BY <1>1, <1>2, TypeInvariant, PTL DEF Spec

(* Whatever is read through the API or lies in out/ or in the web pack,    *)
(* whenever it is read and after any crash, was assessed with the data and *)
(* the bandwidths it is shown with.                                        *)
THEOREM OnlyAssessedIsPublished == Spec => []PublishedIsAssessed
<1>1. ServingInv => PublishedIsAssessed
  <2> SUFFICES ASSUME ServingInv PROVE PublishedIsAssessed
    OBVIOUS
  <2>1. Served \subseteq cleared
    BY DEF ServingInv, FlagsAreEarned, Served, RunsOf, CleanRows, Clean
  <2>2. \A n \in DocName : \A x \in out[n].clean \cup web[n].clean :
          x.run \in cleared /\ x.now # "impossible"
    BY DEF ServingInv, DocumentsSound, Sound
  <2> QED BY <2>1, <2>2 DEF PublishedIsAssessed, OnlyAssessedServed, DocumentsAreClean, RunsOf
<1> QED BY <1>1, ServingHolds, PTL

-----------------------------------------------------------------------------
(* What a finished pipeline leaves                                         *)

(* Document by document: one at a time is written and copied, in order.    *)
LEMMA WritingNext ==
  ASSUME Typed, DoneInv, WriteOutput
  PROVE  DoneInv'
<1>1. /\ step.pc = "write" /\ out' = [out EXCEPT ![Docs[step.at]] = Document]
      /\ step' = NextDocument("copy") /\ UNCHANGED <<runs, rigs, flags>>
  BY DEF WriteOutput, tables
<1>2. /\ out \in [DocName -> DocRecord] /\ step.at \in 1 .. 4 /\ "copy" \in Pcs
      /\ \A k \in 1 .. 4 : Docs[k] \in DocName
  BY DocsAre DEF Typed, Domains, Steps, Pcs
<1>3. Now' = Now /\ CleanRows' = CleanRows /\ Excluded' = Excluded
  BY <1>1, TablesSpeak
<1>4. Document = Now
  BY <1>1 DEF DoneInv, Writing, Document, Now
<1>5. ASSUME NEW k \in 1 .. 4, k <= step.at
      PROVE  out'[Docs[k]] = Now
  <2>1. CASE k = step.at
    BY <1>1, <1>2, <1>4, <2>1
  <2>2. CASE k # step.at
    <3>1. k < step.at /\ Docs[k] # Docs[step.at]
      BY <1>2, <1>5, <2>2, DocsAre
    <3> QED BY <1>1, <1>2, <3>1 DEF DoneInv, Writing
  <2> QED BY <2>1, <2>2
<1>6. CASE step.at # 4
  <2>1. step'.docs = step.docs /\ step'.at = step.at + 1 /\ step'.pc = "write"
    BY <1>1, <1>2, <1>6, NextDocumentIs
  <2>2. \A k \in 1 .. 4 : k < step.at + 1 => out'[Docs[k]] = Now
    BY <1>2, <1>5
  <2>3. step.docs.clean = CleanRows /\ step.docs.excluded = Excluded
    BY <1>1 DEF DoneInv, Writing
  <2> QED BY <1>3, <2>1, <2>2, <2>3 DEF DoneInv, Writing, Written, Copying, Copied, Finished
<1>7. CASE step.at = 4
  <2>1. step'.at = 1 /\ step'.pc = "copy"
    BY <1>1, <1>2, <1>7, NextDocumentIs
  <2>2. \A k \in 1 .. 4 : out'[Docs[k]] = Now
    BY <1>5, <1>7
  <2>3. \A n \in DocName : out'[n] = Now
    BY <2>2, DocsAre
  <2>4. \A k \in 1 .. 4 : ~(k < 1)
    OBVIOUS
  <2> QED BY <1>3, <2>1, <2>3, <2>4 DEF DoneInv, Writing, Written, Copying, Copied, Finished
<1> QED BY <1>6, <1>7

LEMMA CopyingNext ==
  ASSUME Typed, DoneInv, Copy
  PROVE  DoneInv'
<1>1. /\ step.pc = "copy" /\ web' = [web EXCEPT ![Docs[step.at]] = out[Docs[step.at]]]
      /\ step' = NextDocument("mark") /\ UNCHANGED <<runs, rigs, flags, out>>
  BY DEF Copy, tables
<1>2. /\ out \in [DocName -> DocRecord] /\ web \in [DocName -> DocRecord]
      /\ step.at \in 1 .. 4 /\ "mark" \in Pcs /\ \A k \in 1 .. 4 : Docs[k] \in DocName
  BY DocsAre DEF Typed, Domains, Steps, Pcs
<1>3. Now' = Now
  BY <1>1, TablesSpeak
<1>4. \A n \in DocName : out[n] = Now
  BY <1>1 DEF DoneInv, Written
<1>5. ASSUME NEW k \in 1 .. 4, k <= step.at
      PROVE  web'[Docs[k]] = out[Docs[k]]
  <2>1. CASE k = step.at
    BY <1>1, <1>2, <2>1
  <2>2. CASE k # step.at
    <3>1. k < step.at /\ Docs[k] # Docs[step.at]
      BY <1>2, <1>5, <2>2, DocsAre
    <3> QED BY <1>1, <1>2, <3>1 DEF DoneInv, Copying
  <2> QED BY <2>1, <2>2
<1>6. CASE step.at # 4
  <2>1. step'.at = step.at + 1 /\ step'.pc = "copy"
    BY <1>1, <1>2, <1>6, NextDocumentIs
  <2>2. \A k \in 1 .. 4 : k < step.at + 1 => web'[Docs[k]] = out[Docs[k]]
    BY <1>2, <1>5
  <2> QED BY <1>1, <1>3, <1>4, <2>1, <2>2 DEF DoneInv, Writing, Written, Copying, Copied, Finished
<1>7. CASE step.at = 4
  <2>1. step'.pc = "mark"
    BY <1>1, <1>2, <1>7, NextDocumentIs
  <2>2. \A k \in 1 .. 4 : web'[Docs[k]] = out[Docs[k]]
    BY <1>5, <1>7
  <2>3. \A n \in DocName : web'[n] = out[n]
    BY <2>2, DocsAre
  <2>4. web' \in [DocName -> DocRecord]
    BY <1>1, <1>2
  <2>5. web' = out
    BY <1>2, <2>3, <2>4
  <2> QED BY <1>1, <1>3, <1>4, <2>1, <2>5 DEF DoneInv, Writing, Written, Copying, Copied, Finished
<1> QED BY <1>6, <1>7

LEMMA DoneNext ==
  ASSUME Typed, DoneInv, [Next]_vars
  PROVE  DoneInv'
<1>1. CASE Aside
  <2>1. UNCHANGED <<runs, rigs, flags, out, web>>
    BY <1>1 DEF Aside
  <2>2. /\ step'.pc = step.pc /\ step'.docs = step.docs /\ step'.at = step.at
        /\ Finished' = Finished
    BY <1>1 DEF Aside, Finished
  <2> QED BY <2>1, <2>2, TablesSpeak DEF DoneInv, Writing, Written, Copying, Copied
<1>2. CASE Early
  BY <1>2 DEF Early, DoneInv, Writing, Written, Copying, Copied, Finished
<1>3. CASE Assess
  <2>1. step'.pc = "export"
    BY <1>3, StepIs
  <2> QED BY <2>1 DEF DoneInv, Writing, Written, Copying, Copied, Finished
<1>4. CASE Export
  <2>1. /\ step'.pc = "write" /\ step'.at = 1
        /\ step'.docs.clean = CleanRows /\ step'.docs.excluded = Excluded
    BY <1>4, StepIs
  <2>2. UNCHANGED <<runs, rigs, flags>> /\ \A k \in 1 .. 4 : ~(k < 1)
    BY <1>4 DEF Export
  <2> QED BY <2>1, <2>2, TablesSpeak DEF DoneInv, Writing, Written, Copying, Copied, Finished
<1>5. CASE Mark
  <2>1. /\ step.pc = "mark" /\ step' = Rest /\ UNCHANGED <<runs, rigs, flags, out, web>>
    BY <1>5 DEF Mark, Stop, tables
  <2>2. step'.pc = "rest"
    BY <2>1, RestIsStep
  <2> QED BY <2>1, <2>2, TablesSpeak DEF DoneInv, Writing, Written, Copying, Copied, Finished
<1> QED BY <1>1, <1>2, <1>3, <1>4, <1>5, WritingNext, CopyingNext, KindsOfSteps

LEMMA DoneHolds == Spec => []DoneInv
<1>1. Init => DoneInv
  BY RestIsStep DEF Init, DoneInv, Writing, Written, Copying, Copied, Finished
<1>2. Typed /\ DoneInv /\ [Next]_vars => DoneInv'
  BY DoneNext
<1> QED BY <1>1, <1>2, TypeInvariant, PTL DEF Spec

(* When the pipeline has ended well, the assertions of check.py on the     *)
(* flags and on the documents hold, whatever crashes, torn files and       *)
(* aborted pipelines came before.                                          *)
THEOREM DoneStaysConsistent == Spec => []DoneIsConsistent
<1>1. ASSUME Typed, ServingInv, DoneInv
      PROVE  DoneIsConsistent
  <2> SUFFICES ASSUME Finished
               PROVE  FlagsOracle /\ DerivedOracle
    BY DEF DoneIsConsistent, Finished
  <2>1. flags = Recomputed
    BY <1>1 DEF ServingInv, FlagsAreFresh, Late
  <2>2. \A r \in AllRuns : flags[r] # "none" <=> runs[r] # NoRun
    BY <2>1, VerdictIs DEF Recomputed, Verdicts
  <2>3. FlagsOracle
    BY <2>2 DEF FlagsOracle, Stored
  <2>4. \A n \in DocName : /\ out[n].stamp = "last" /\ out[n].clean = CleanRows
                           /\ out[n].excluded = Excluded
    BY <1>1 DEF DoneInv, Written, Now
  <2>5. web = out
    BY <1>1 DEF DoneInv, Copied
  <2>6. CellsResolve(out)
    BY <2>4, DocsAre DEF CellsResolve
  <2> QED BY <2>3, <2>4, <2>5, <2>6, DocsAre DEF DerivedOracle
<1> QED BY <1>1, TypeInvariant, ServingHolds, DoneHolds, PTL

-----------------------------------------------------------------------------
(* No command deletes a run, a model or a rig, nor leaves a model behind   *)
(* when it rebuilds lm_model under the catalog's new CHECK.                *)
THEOREM NothingIsForgotten == Spec => NothingForgotten
<1> DEFINE Keeps == /\ \A r \in AllRuns : runs[r] # NoRun => runs'[r] # NoRun
                    /\ \A m \in Models : models[m] # NoCategory => models'[m] # NoCategory
                    /\ \A g \in Rigs : rigs[g].stored => rigs'[g].stored
<1>1. ASSUME Typed, [Next]_vars
      PROVE  Keeps
  <2>1. CASE UNCHANGED <<models, rigs, runs>>
    BY <2>1
  <2>2. \A brought, known, table : \A g \in Rigs :
          rigs[g].stored => StoreRigs(brought, known, table)[g].stored
    BY DEF StoreRigs
  <2>3. CASE StoreSync
    <3>1. \/ UNCHANGED <<models, rigs, runs>>
          \/ /\ models' = StoreModels /\ runs' = StoreRuns(runs)
             /\ rigs' = StoreRigs({step.seen[r].rig : r \in Kept}, Seeded, StoreRuns(runs))
      BY <2>3 DEF StoreSync
    <3>2. \A m \in Models : models[m] # NoCategory => StoreModels[m] # NoCategory
      BY PoolAssumption DEF StoreModels, Category
    <3>3. \A r \in AllRuns : runs[r] # NoRun => StoreRuns(runs)[r] # NoRun
      BY DEF StoreRuns, Kept
    <3> QED BY <2>2, <3>1, <3>2, <3>3
  <2>4. CASE ImportLocal
    <3> DEFINE table == [r \in AllRuns |-> IF r \in Importable THEN LocalData[r] ELSE runs[r]]
    <3>1. UNCHANGED <<rigs, runs>> \/ (rigs' = LocalRigs(table) /\ runs' = table)
      BY <2>4 DEF ImportLocal
    <3>2. UNCHANGED models
      BY <2>4 DEF ImportLocal, Migrated
    <3>3. \A r \in AllRuns : runs[r] # NoRun => table[r] # NoRun
      BY PoolAssumption DEF Importable
    <3>4. \A g \in Rigs : rigs[g].stored => LocalRigs(table)[g].stored
      BY <2>2 DEF LocalRigs
    <3> HIDE DEF table
    <3> QED BY <3>1, <3>2, <3>3, <3>4
  <2>5. StoreSync \/ ImportLocal \/ UNCHANGED <<models, rigs, runs>>
    BY <1>1 DEF Next, RemoteChange, EditCatalog, Pipeline, Sync, StartSync, FetchPage,
                FetchModels, Assess, Export, WriteOutput, Copy, Mark, MigrationFails, Migrated,
                Fault, tables, vars
  <2> QED BY <2>1, <2>3, <2>4, <2>5
<1>2. Typed /\ [Next]_vars => [Keeps]_vars
  BY <1>1
<1> QED BY <1>2, TypeInvariant, PTL DEF Spec, NothingForgotten

=============================================================================
