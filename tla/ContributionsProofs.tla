------------------------- MODULE ContributionsProofs -------------------------
(***************************************************************************)
(* Proofs about Contributions for any threads, quotas, limits, fixtures,   *)
(* importers and promoters.  The requests, the imports, the staging files  *)
(* and the promotions share no variable but the staging files, which only  *)
(* grow: each part has its types, its invariant and its steps, and a step  *)
(* of another part leaves it alone.                                        *)
(***************************************************************************)
EXTENDS Contributions, FiniteSetTheorems, WellFoundedInduction, TLAPS

-----------------------------------------------------------------------------
(* Helpers                                                                 *)

LEMMA LeastNumber ==
  ASSUME NEW S \in SUBSET Nat, S # {}
  PROVE  \E n \in S : \A m \in S : n <= m
<1> DEFINE Below == OpToRel(<, Nat)
<1>1. IsWellFoundedOn(Below, Nat)
  BY NatLessThanWellFounded
<1>2. \A m, n \in Nat : <<m, n>> \in Below <=> m < n
  BY DEF OpToRel
<1> HIDE DEF Below
<1>3. PICK n \in S : \A m \in S : ~(<<m, n>> \in Below)
  BY <1>1, WFMin
<1>4. \A m \in S : ~(m < n)
  BY <1>2, <1>3
<1> QED BY <1>4

LEMMA ThreadsAreCounted == Cardinality(Threads) \in Nat /\ Cardinality(Threads) >= 1
<1>1. Cardinality(Threads) \in Nat /\ Cardinality(Threads) # 0
  BY ContributionsAssumption, FS_CardinalityType, FS_EmptySet
<1> QED BY <1>1

(* The steps of each part.                                                 *)
Requests == (\E t \in Threads : Handler(t)) \/ Age
Imports  == \E p \in Importers : Import(p)
Stages   == (\E f \in Fixtures : Harvest(f)) \/ (\E kind \in {"cell", "candidate"} : Repair(kind))
Promotes == Review \/ \E p \in Promoters : BeginPromote(p) \/ WritePromote(p)

OthersRest ==
  /\ Requests => UNCHANGED <<imports, harvests, promotion>>
  /\ Imports  => UNCHANGED <<reports, posts, request, harvests, promotion>>
  /\ Stages   => UNCHANGED <<reports, posts, request, imports, promotion>>
  /\ Promotes => UNCHANGED <<reports, posts, request, imports, harvests>>

LEMMA Parts ==
  ASSUME [Next]_vars
  PROVE  OthersRest /\ (Requests \/ Imports \/ Stages \/ Promotes \/ UNCHANGED vars)
<1>1. Next => Requests \/ Imports \/ Stages \/ Promotes
  BY DEF Next, Requests, Imports, Stages, Promotes
<1>2. Requests => UNCHANGED <<imports, harvests, promotion>>
  <2>1. ASSUME NEW t \in Threads, Handler(t)
        PROVE  UNCHANGED <<imports, harvests, promotion>>
    BY <2>1 DEF Handler, BeginRegister, ReportedArrives, WriteRegister, ReportedCheck,
                ReportedInsert, WritePost, BeginPost
  <2> QED BY <2>1 DEF Requests, Age
<1>3. Imports => UNCHANGED <<reports, posts, request, harvests, promotion>>
  BY DEF Imports, Import, BeginImport, ImportCell, CommitImport
<1>4. Stages => UNCHANGED <<reports, posts, request, imports, promotion>>
  BY DEF Stages, Harvest, Repair
<1>5. Promotes => UNCHANGED <<reports, posts, request, imports, harvests>>
  BY DEF Promotes, Review, Decide, Undecide, BeginPromote, WritePromote
<1> QED BY <1>1, <1>2, <1>3, <1>4, <1>5 DEF OthersRest

-----------------------------------------------------------------------------
(* Requests                                                                *)

Ops == {"idle", "register", "reported", "insert"} \cup Kinds

RequestsTyped ==
  /\ contributors \subseteq Emails /\ reported \in [Keys -> Nat] /\ recent \in Nat
  /\ loop \in Threads \cup {None}
  /\ posts \in [Kinds -> [Targets -> {"no", "recent", "old"}]]
  /\ request \in [Threads -> [op : Ops, who : Emails \cup {None},
                              key : Keys \cup Targets \cup {None}]]
  /\ \A t \in Threads :
       /\ request[t].op = "insert" <=> loop = t
       /\ request[t].op = "register" => request[t].who \in Emails
       /\ request[t].op = "reported" => request[t].who \in contributors
       /\ request[t].op \in {"reported", "insert"} => request[t].key \in Keys
       /\ request[t].op \in Kinds => request[t].key \in Targets

LEMMA RequestsTypedInit == Init => RequestsTyped
BY ContributionsAssumption DEF Init, RequestsTyped, Idle, Ops

(* A request begins, or is answered.                                       *)
LEMMA BeginsTyped ==
  ASSUME RequestsTyped, NEW t \in Threads, NEW op \in Ops \ {"idle", "insert"},
         NEW who \in Emails \cup {None}, NEW key \in Keys \cup Targets \cup {None},
         Begin(t, op, who, key), UNCHANGED <<reports, posts>>,
         op = "register" => who \in Emails,
         op = "reported" => who \in contributors /\ key \in Keys,
         op \in Kinds => key \in Targets
  PROVE  RequestsTyped'
<1>1. /\ request' = [request EXCEPT ![t] = [op |-> op, who |-> who, key |-> key]]
      /\ request[t].op = "idle"
  BY DEF Begin, Idle
<1> QED BY <1>1 DEF RequestsTyped, reports

LEMMA EndsTyped ==
  ASSUME RequestsTyped, NEW t \in Threads, End(t)
  PROVE  /\ request' \in [Threads -> [op : Ops, who : Emails \cup {None},
                                      key : Keys \cup Targets \cup {None}]]
         /\ request'[t].op = "idle"
         /\ \A s \in Threads \ {t} : request'[s] = request[s]
BY DEF RequestsTyped, End, Idle, Ops

LEMMA RequestsTypedNext ==
  ASSUME RequestsTyped, Requests
  PROVE  RequestsTyped'
<1> USE ContributionsAssumption
<1>1. ASSUME NEW t \in Threads, NEW e \in Emails, BeginRegister(t, e)
      PROVE  RequestsTyped'
  BY <1>1, BeginsTyped DEF BeginRegister, Ops
<1>2. ASSUME NEW t \in Threads, NEW e \in Emails, NEW k \in Keys, ReportedArrives(t, e, k)
      PROVE  RequestsTyped'
  BY <1>2, BeginsTyped DEF ReportedArrives, Ops
<1>3. ASSUME NEW t \in Threads, WriteRegister(t)
      PROVE  RequestsTyped'
  <2>1. /\ End(t) /\ contributors' = contributors \cup {request[t].who}
        /\ request[t].who \in Emails /\ request[t].op = "register"
        /\ UNCHANGED <<reported, recent, loop, posts>>
    BY <1>3 DEF WriteRegister, RequestsTyped
  <2> QED BY <2>1, EndsTyped DEF RequestsTyped
<1>4. ASSUME NEW t \in Threads, ReportedCheck(t)
      PROVE  RequestsTyped'
  <2>1. /\ request[t].op = "reported" /\ loop = None
        /\ UNCHANGED <<contributors, reported, recent, posts>>
    BY <1>4 DEF ReportedCheck, LoopIsFree
  <2>2. CASE End(t) /\ UNCHANGED loop
    BY <2>1, <2>2, EndsTyped DEF RequestsTyped
  <2>3. CASE loop' = t /\ request' = [request EXCEPT ![t].op = "insert"]
    <3> DEFINE q == [request[t] EXCEPT !.op = "insert"]
    <3>1. /\ q \in [op : Ops, who : Emails \cup {None}, key : Keys \cup Targets \cup {None}]
          /\ q.op = "insert" /\ q.who = request[t].who /\ q.key = request[t].key
      <4>1. /\ request[t] \in [op : Ops, who : Emails \cup {None},
                               key : Keys \cup Targets \cup {None}]
            /\ "insert" \in Ops
        BY DEF RequestsTyped, Ops
      <4> QED BY <4>1
    <3>2. request' = [request EXCEPT ![t] = q]
      BY <2>3
    <3> HIDE DEF q
    <3>3. request' \in [Threads -> [op : Ops, who : Emails \cup {None},
                                    key : Keys \cup Targets \cup {None}]]
      BY <3>1, <3>2 DEF RequestsTyped
    <3>4. \A u \in Threads : request'[u] = IF u = t THEN q ELSE request[u]
      BY <3>2 DEF RequestsTyped
    <3>5. /\ q.who \in contributors /\ q.key \in Keys
          /\ \A u \in Threads : loop # u
      BY <2>1, <3>1 DEF RequestsTyped
    <3>6. ASSUME NEW u \in Threads
          PROVE  /\ request'[u].op = "insert" <=> loop' = u
                 /\ request'[u].op = "register" => request'[u].who \in Emails
                 /\ request'[u].op = "reported" => request'[u].who \in contributors
                 /\ request'[u].op \in {"reported", "insert"} => request'[u].key \in Keys
                 /\ request'[u].op \in Kinds => request'[u].key \in Targets
      <4>1. CASE u = t
        BY <2>3, <3>1, <3>4, <3>5, <4>1
      <4>2. CASE u # t
        BY <2>3, <3>4, <3>5, <4>2 DEF RequestsTyped
      <4> QED BY <4>1, <4>2
    <3> QED BY <2>1, <2>3, <3>3, <3>6 DEF RequestsTyped
  <2>4. \/ End(t) /\ UNCHANGED loop
        \/ loop' = t /\ request' = [request EXCEPT ![t].op = "insert"]
    BY <1>4 DEF ReportedCheck
  <2> QED BY <2>2, <2>3, <2>4
<1>5. ASSUME NEW t \in Threads, ReportedInsert(t)
      PROVE  RequestsTyped'
  <2>1. /\ request[t].op = "insert" /\ loop = t /\ loop' = None /\ End(t)
        /\ reported' = [reported EXCEPT ![request[t].key] = @ + 1]
        /\ recent' = recent + 1 /\ UNCHANGED <<contributors, posts>>
        /\ request[t].key \in Keys
    BY <1>5 DEF ReportedInsert, RequestsTyped
  <2> QED BY <2>1, EndsTyped DEF RequestsTyped
<1>6. ASSUME NEW t \in Threads, WritePost(t)
      PROVE  RequestsTyped'
  <2> DEFINE r == request[t]
  <2>1. /\ r.op \in Kinds /\ r.key \in Targets /\ End(t) /\ UNCHANGED reports
        /\ posts' = [posts EXCEPT ![r.op][r.key] = IF @ = "no" THEN "recent" ELSE @]
    BY <1>6 DEF WritePost, RequestsTyped
  <2>2. posts' \in [Kinds -> [Targets -> {"no", "recent", "old"}]]
    BY <2>1 DEF RequestsTyped
  <2> QED BY <2>1, <2>2, EndsTyped DEF RequestsTyped, reports
<1>7. ASSUME NEW t \in Threads, NEW kind \in Kinds, NEW x \in Targets, BeginPost(t, kind, x)
      PROVE  RequestsTyped'
  BY <1>7, BeginsTyped DEF BeginPost, Ops
<1>8. CASE Age
  BY <1>8 DEF Age, RequestsTyped
<1> QED BY <1>1, <1>2, <1>3, <1>4, <1>5, <1>6, <1>7, <1>8 DEF Requests, Handler

-----------------------------------------------------------------------------
(* The reported runs.  Who has the event loop found room and no twin, and  *)
(* no step of another can change that before the insert.                   *)
ReportsInv ==
  /\ recent <= Quota /\ ReportedOnce
  /\ loop # None => recent < Quota /\ reported[request[loop].key] = 0

LEMMA ReportsInit == Init => ReportsInv
BY ContributionsAssumption DEF Init, ReportsInv, ReportedOnce

(* No step but the two of the handler touches what it has checked.         *)
LEMMA ReportsRest ==
  ASSUME RequestsTyped, ReportsInv, recent' \in Nat, recent' <= recent,
         UNCHANGED <<reported, loop>>, loop # None => request'[loop] = request[loop]
  PROVE  ReportsInv'
BY ContributionsAssumption DEF ReportsInv, ReportedOnce, RequestsTyped

LEMMA ReportsNext ==
  ASSUME RequestsTyped, ReportsInv, Requests
  PROVE  ReportsInv'
<1> USE ContributionsAssumption
<1>1. ASSUME NEW t \in Threads, request[t].op # "insert",
             \A s \in Threads \ {t} : request'[s] = request[s], UNCHANGED <<reported, recent, loop>>
      PROVE  ReportsInv'
  BY <1>1, ReportsRest DEF RequestsTyped
<1>2. ASSUME NEW t \in Threads, NEW op, NEW who, NEW key, Begin(t, op, who, key),
             UNCHANGED reports
      PROVE  ReportsInv'
  BY <1>1, <1>2 DEF Begin, Idle, RequestsTyped, reports
<1>3. ASSUME NEW t \in Threads, WriteRegister(t) \/ WritePost(t)
      PROVE  ReportsInv'
  BY <1>1, <1>3, EndsTyped DEF WriteRegister, WritePost, reports
<1>4. ASSUME NEW t \in Threads, ReportedCheck(t)
      PROVE  ReportsInv'
  <2>1. CASE End(t) /\ UNCHANGED loop
    BY <1>1, <1>4, <2>1, EndsTyped DEF ReportedCheck
  <2>2. CASE ~(recent >= Quota \/ Twin(request[t].key))
    <3>1. /\ request[t].op = "reported" /\ recent < Quota /\ ~(reported[request[t].key] > 0)
          /\ loop' = t /\ request' = [request EXCEPT ![t].op = "insert"]
          /\ UNCHANGED <<reported, recent>>
      BY <1>4, <2>2 DEF ReportedCheck, Twin, RequestsTyped
    <3>2. request'[t].key = request[t].key
      BY <3>1 DEF RequestsTyped
    <3>3. reported[request[t].key] \in Nat
      BY <3>1 DEF RequestsTyped
    <3> QED BY <3>1, <3>2, <3>3 DEF ReportsInv, ReportedOnce
  <2> QED BY <1>4, <2>1, <2>2 DEF ReportedCheck
<1>5. ASSUME NEW t \in Threads, ReportedInsert(t)
      PROVE  ReportsInv'
  <2>1. /\ loop = t /\ loop' = None /\ recent' = recent + 1 /\ request[t].key \in Keys
        /\ reported' = [reported EXCEPT ![request[t].key] = @ + 1]
    BY <1>5 DEF ReportedInsert, RequestsTyped
  <2> QED BY <2>1 DEF ReportsInv, ReportedOnce, RequestsTyped
<1>6. CASE Age
  BY <1>6, ReportsRest DEF Age, RequestsTyped
<1> QED BY <1>2, <1>3, <1>4, <1>5, <1>6
        DEF Requests, Handler, BeginRegister, ReportedArrives, BeginPost

-----------------------------------------------------------------------------
(* Posts.  A post in flight may still become a row of the window: both     *)
(* together never pass the limit by more than the other threads.           *)
Posting(kind) == {t \in Threads : request[t].op = kind}
Recent(kind)  == {x \in Targets : posts[kind][x] = "recent"}

PostsInv ==
  \A kind \in Kinds :
    Cardinality(Recent(kind)) + Cardinality(Posting(kind))
      <= Limit[kind] + Cardinality(Threads) - 1

LEMMA Counts ==
  ASSUME NEW kind \in Kinds
  PROVE  /\ IsFiniteSet(Recent(kind)) /\ Cardinality(Recent(kind)) \in Nat
         /\ IsFiniteSet(Posting(kind)) /\ Cardinality(Posting(kind)) \in Nat
         /\ Cardinality(Posting(kind)) <= Cardinality(Threads)
         /\ Limit[kind] \in Nat
BY ContributionsAssumption, FS_Subset, FS_CardinalityType DEF Recent, Posting

LEMMA PostsInit == Init => PostsInv
<1> SUFFICES ASSUME Init, NEW kind \in Kinds
             PROVE  Cardinality(Recent(kind)) + Cardinality(Posting(kind))
                      <= Limit[kind] + Cardinality(Threads) - 1
  BY DEF PostsInv
<1>1. Recent(kind) = {} /\ Posting(kind) = {}
  BY ContributionsAssumption DEF Init, Recent, Posting, Idle
<1> QED BY <1>1, Counts, ThreadsAreCounted, FS_EmptySet

LEMMA PostsNext ==
  ASSUME RequestsTyped, PostsInv, Requests
  PROVE  PostsInv'
<1> USE ContributionsAssumption
<1> DEFINE Bounded(kind) == Cardinality(Recent(kind)) + Cardinality(Posting(kind))
                              <= Limit[kind] + Cardinality(Threads) - 1
<1> SUFFICES ASSUME NEW kind \in Kinds PROVE Bounded(kind)'
  BY DEF PostsInv
<1>1. Bounded(kind)
  BY DEF PostsInv
(* Fewer rows in the window and fewer posts in flight.                     *)
<1>2. ASSUME Recent(kind)' \subseteq Recent(kind), Posting(kind)' \subseteq Posting(kind)
      PROVE  Bounded(kind)'
  <2>1. /\ Cardinality(Recent(kind)') \in Nat /\ Cardinality(Recent(kind)') <= Cardinality(Recent(kind))
        /\ Cardinality(Posting(kind)') \in Nat /\ Cardinality(Posting(kind)') <= Cardinality(Posting(kind))
    BY <1>2, Counts, FS_Subset, FS_CardinalityType
  <2> QED BY <1>1, <2>1, Counts, ThreadsAreCounted
<1>3. ASSUME NEW t \in Threads, UNCHANGED posts, request'[t].op # kind,
             \A s \in Threads \ {t} : request'[s] = request[s]
      PROVE  Bounded(kind)'
  BY <1>2, <1>3 DEF Recent, Posting
<1>4. ASSUME NEW t \in Threads, NEW op, NEW who, NEW key, Begin(t, op, who, key), op # kind,
             UNCHANGED posts
      PROVE  Bounded(kind)'
  <2>1. request'[t].op # kind /\ \A s \in Threads \ {t} : request'[s] = request[s]
    BY <1>4 DEF Begin, RequestsTyped
  <2> QED BY <1>3, <1>4, <2>1
<1>5. ASSUME NEW t \in Threads, End(t), UNCHANGED posts
      PROVE  Bounded(kind)'
  BY <1>3, <1>5, EndsTyped
<1>6. ASSUME NEW t \in Threads, ReportedCheck(t)
      PROVE  Bounded(kind)'
  <2>1. CASE End(t)
    BY <1>5, <1>6, <2>1 DEF ReportedCheck
  <2>2. CASE request' = [request EXCEPT ![t].op = "insert"]
    <3>1. request'[t].op = "insert" /\ \A s \in Threads \ {t} : request'[s] = request[s]
      BY <2>2 DEF RequestsTyped
    <3> QED BY <1>3, <1>6, <3>1 DEF ReportedCheck
  <2> QED BY <1>6, <2>1, <2>2 DEF ReportedCheck
<1>7. ASSUME NEW t \in Threads, NEW x \in Targets, BeginPost(t, kind, x)
      PROVE  Bounded(kind)'
  <2>1. Recent(kind)' = Recent(kind) /\ Cardinality(Recent(kind)) < Limit[kind]
    BY <1>7 DEF BeginPost, BelowLimit, Used, Recent
  <2>2. Cardinality(Posting(kind)') \in Nat /\ Cardinality(Posting(kind)') <= Cardinality(Threads)
    BY FS_Subset, FS_CardinalityType DEF Posting
  <2> QED BY <2>1, <2>2, Counts, ThreadsAreCounted
<1>8. ASSUME NEW t \in Threads, WritePost(t), request[t].op = kind
      PROVE  Bounded(kind)'
  <2> DEFINE x == request[t].key
  <2>1. /\ x \in Targets /\ End(t)
        /\ posts' = [posts EXCEPT ![kind][x] = IF @ = "no" THEN "recent" ELSE @]
    BY <1>8 DEF WritePost, RequestsTyped
  <2>2. Posting(kind)' = Posting(kind) \ {t} /\ t \in Posting(kind)
    BY <1>8, <2>1, EndsTyped DEF Posting
  <2>3. Recent(kind)' \subseteq Recent(kind) \cup {x}
    BY <2>1 DEF Recent, RequestsTyped
  <2> HIDE DEF x
  <2>4. Cardinality(Posting(kind)') = Cardinality(Posting(kind)) - 1
    BY <2>2, Counts, FS_RemoveElement
  <2>5. /\ IsFiniteSet(Recent(kind) \cup {x})
        /\ Cardinality(Recent(kind) \cup {x}) \in Nat
        /\ Cardinality(Recent(kind) \cup {x}) <= Cardinality(Recent(kind)) + 1
    <3> DEFINE R == Recent(kind)
    <3>1. IsFiniteSet(R) /\ Cardinality(R) \in Nat
      BY Counts
    <3> HIDE DEF R
    <3>2. IsFiniteSet(R \cup {x})
          /\ (Cardinality(R \cup {x}) = Cardinality(R) \/ Cardinality(R \cup {x}) = Cardinality(R) + 1)
      BY <3>1, FS_AddElement
    <3> QED BY <3>1, <3>2 DEF R
  <2>6. /\ Cardinality(Recent(kind)') \in Nat
        /\ Cardinality(Recent(kind)') <= Cardinality(Recent(kind) \cup {x})
    BY <2>3, <2>5, FS_Subset, FS_CardinalityType
  <2> QED BY <1>1, <2>4, <2>5, <2>6, Counts, ThreadsAreCounted
<1>9. ASSUME NEW t \in Threads, WritePost(t), request[t].op # kind
      PROVE  Bounded(kind)'
  <2>1. /\ End(t) /\ request[t].op \in Kinds
        /\ \E x : posts' = [posts EXCEPT ![request[t].op][x] = IF @ = "no" THEN "recent" ELSE @]
    BY <1>9 DEF WritePost
  <2>2. posts'[kind] = posts[kind]
    BY <1>9, <2>1 DEF RequestsTyped
  <2> QED BY <1>2, <2>1, <2>2, EndsTyped DEF Recent, Posting
<1>10. CASE Age
  BY <1>2, <1>10 DEF Age, Recent, Posting, RequestsTyped
<1>11. ASSUME NEW t \in Threads, NEW k \in Kinds, NEW x \in Targets, BeginPost(t, k, x)
       PROVE  Bounded(kind)'
  BY <1>4, <1>7, <1>11 DEF BeginPost
<1>12. ASSUME NEW t \in Threads,
              \/ \E e \in Emails : BeginRegister(t, e) \/ \E k \in Keys : ReportedArrives(t, e, k)
              \/ WriteRegister(t) \/ ReportedInsert(t)
       PROVE  Bounded(kind)'
  BY <1>4, <1>5, <1>12 DEF BeginRegister, ReportedArrives, WriteRegister, ReportedInsert
<1> HIDE DEF Bounded
<1> QED BY <1>6, <1>8, <1>9, <1>10, <1>11, <1>12 DEF Requests, Handler

LEMMA PostsAreBounded ==
  ASSUME RequestsTyped, PostsInv
  PROVE  OvershootBounded
<1> SUFFICES ASSUME NEW kind \in Kinds
             PROVE  Used(kind) <= Limit[kind] + Cardinality(Threads) - 1
  BY DEF OvershootBounded
<1>1. Used(kind) = Cardinality(Recent(kind))
  BY DEF Used, Recent
<1> QED BY <1>1, Counts, ThreadsAreCounted DEF PostsInv

-----------------------------------------------------------------------------
(* Imports.  Of the cells of a file, each is still to be read, inserted in *)
(* this transaction, or in the table.                                      *)
ImportsTyped ==
  /\ imported \in [Cells -> Nat]
  /\ importer \in [Importers -> [file : SUBSET Cells, left : SUBSET Cells,
                                 new : SUBSET Cells]]
  /\ \A p \in Importers : importer[p].left \subseteq importer[p].file

ImportsInv ==
  /\ ImportedOnce
  /\ \A p \in Importers : \A c \in importer[p].file :
       c \in importer[p].left \/ c \in importer[p].new \/ imported[c] > 0

LEMMA ImportsInit == Init => ImportsTyped /\ ImportsInv
BY DEF Init, ImportsTyped, ImportsInv, ImportedOnce, NoFile

LEMMA CommitsImport ==
  ASSUME ImportsTyped, ImportsInv, NEW p \in Importers, CommitImport(p)
  PROVE  /\ imported' \in [Cells -> Nat] /\ ImportedOnce'
         /\ \A c \in Cells : imported[c] <= imported'[c]
         /\ imported' # imported => \A c \in importer[p].file : imported'[c] > 0
         /\ importer' = [importer EXCEPT ![p] = NoFile]
<1> DEFINE new == importer[p].new
<1>1. /\ importer[p].left = {} /\ new \subseteq Cells /\ importer[p].file \subseteq Cells
      /\ imported' = [r \in Cells |-> imported[r] + IF r \in new /\ ~Clash(new) THEN 1 ELSE 0]
      /\ importer' = [importer EXCEPT ![p] = NoFile]
  BY DEF CommitImport, ImportsTyped
<1>2. \A c \in Cells : imported[c] \in Nat /\ imported[c] <= 1
  BY DEF ImportsTyped, ImportsInv, ImportedOnce
<1>3. \A c \in importer[p].file : c \in new \/ imported[c] > 0
  BY <1>1 DEF ImportsInv
<1> HIDE DEF new
<1>4. CASE Clash(new)
  <2>1. \A r \in Cells : imported'[r] = imported[r]
    BY <1>1, <1>2, <1>4
  <2>2. imported \in [Cells -> Nat] /\ imported' = [r \in Cells |-> imported'[r]]
    BY <1>1 DEF ImportsTyped
  <2>3. imported' = imported
    BY <2>1, <2>2
  <2>4. ImportedOnce'
    BY <2>3 DEF ImportsInv, ImportedOnce
  <2> QED BY <1>1, <1>2, <2>2, <2>3, <2>4
<1>5. CASE ~Clash(new)
  <2>1. \A c \in new : imported[c] = 0
    BY <1>1, <1>2, <1>5 DEF Clash
  <2>2. \A c \in Cells : imported'[c] = IF c \in new THEN 1 ELSE imported[c]
    BY <1>1, <1>2, <1>5, <2>1
  <2>3. imported' \in [Cells -> Nat]
    BY <1>1, <1>2, <2>2
  <2>4. \A c \in importer[p].file : c \in Cells /\ imported'[c] > 0
    BY <1>1, <1>2, <1>3, <2>2
  <2>5. \A c \in Cells : imported[c] <= imported'[c] /\ imported'[c] <= 1
    BY <1>2, <2>1, <2>2
  <2> QED BY <1>1, <2>3, <2>4, <2>5 DEF ImportedOnce
<1> QED BY <1>4, <1>5

LEMMA ImportsNext ==
  ASSUME ImportsTyped, ImportsInv, Imports
  PROVE  ImportsTyped' /\ ImportsInv'
<1>1. ASSUME NEW p \in Importers, NEW file \in SUBSET Cells, BeginImport(p, file)
      PROVE  ImportsTyped' /\ ImportsInv'
  <2> DEFINE q == [file |-> file, left |-> file, new |-> {}]
  <2>1. importer' = [importer EXCEPT ![p] = q] /\ UNCHANGED imported
    BY <1>1 DEF BeginImport
  <2>2. /\ q \in [file : SUBSET Cells, left : SUBSET Cells, new : SUBSET Cells]
        /\ q.left = file /\ q.file = file
    OBVIOUS
  <2> HIDE DEF q
  <2> QED BY <2>1, <2>2 DEF ImportsTyped, ImportsInv, ImportedOnce
<1>2. ASSUME NEW p \in Importers, NEW c \in Cells, ImportCell(p, c)
      PROVE  ImportsTyped' /\ ImportsInv'
  <2> DEFINE old  == importer[p]
             left == old.left \ {c}
             new  == IF imported[c] > 0 THEN old.new ELSE old.new \cup {c}
             q    == [old EXCEPT !.left = left, !.new = new]
  <2>1. importer' = [importer EXCEPT ![p] = q] /\ UNCHANGED imported
    BY <1>2 DEF ImportCell, RefOf
  <2>2. /\ old \in [file : SUBSET Cells, left : SUBSET Cells, new : SUBSET Cells]
        /\ left \subseteq old.left /\ new \subseteq Cells /\ old.left \subseteq old.file
    BY DEF ImportsTyped
  <2>3. /\ q \in [file : SUBSET Cells, left : SUBSET Cells, new : SUBSET Cells]
        /\ q.left = left /\ q.new = new /\ q.file = old.file
    <3> HIDE DEF old, left, new
    <3> QED BY <2>2
  <2>4. \A d \in q.file : d \in q.left \/ d \in q.new \/ imported[d] > 0
    BY <2>3 DEF ImportsInv
  <2> HIDE DEF q
  <2> QED BY <2>1, <2>2, <2>3, <2>4 DEF ImportsTyped, ImportsInv, ImportedOnce
<1>3. ASSUME NEW p \in Importers, CommitImport(p)
      PROVE  ImportsTyped' /\ ImportsInv'
  <2>1. /\ imported' \in [Cells -> Nat] /\ ImportedOnce'
        /\ \A c \in Cells : imported[c] \in Nat /\ imported[c] <= imported'[c]
        /\ importer' = [importer EXCEPT ![p] = NoFile]
    BY <1>3, CommitsImport DEF ImportsTyped
  <2>2. /\ NoFile \in [file : SUBSET Cells, left : SUBSET Cells, new : SUBSET Cells]
        /\ NoFile.file = {} /\ NoFile.left = {}
    BY DEF NoFile
  <2>3. ImportsTyped'
    BY <2>1, <2>2 DEF ImportsTyped
  <2>4. ASSUME NEW q \in Importers, NEW c \in importer'[q].file
        PROVE  c \in importer'[q].left \/ c \in importer'[q].new \/ imported'[c] > 0
    <3>1. q # p /\ importer'[q] = importer[q] /\ c \in Cells
      BY <2>1, <2>2, <2>4 DEF ImportsTyped
    <3> QED BY <2>1, <3>1 DEF ImportsInv
  <2> QED BY <2>1, <2>3, <2>4 DEF ImportsInv
<1> QED BY <1>1, <1>2, <1>3 DEF Imports, Import

-----------------------------------------------------------------------------
(* The staging files                                                       *)

StagingTyped == staged \subseteq Rows /\ torn \subseteq {"cell", "candidate"}

LEMMA StagingInit == Init => StagingTyped /\ StagingIsSound
BY DEF Init, StagingTyped, StagingIsSound, OneHashPerIdentity, HarvestIsWhole

(* A harvest adds rows of its fixture, of items that were not staged, and  *)
(* all of them when it ends.                                               *)
LEMMA HarvestAdds ==
  ASSUME NEW f \in Fixtures, Harvest(f)
  PROVE  /\ staged \subseteq staged' /\ ~Mutated(f)
         /\ \A r \in staged' \ staged : \E i \in ToSet(f.items) : r = RowOf(f, i)
         /\ \/ UNCHANGED complete
            \/ /\ complete' = complete \cup {f}
               /\ \A i \in ToSet(f.items) : RowOf(f, i) \in staged'
         /\ torn' \subseteq torn \cup {f.kind}
<1>1. PICK n \in 0..Len(f.items) :
        /\ staged' = staged \cup {RowOf(f, f.items[k]) : k \in NewRows(f) \cap 1..n}
        /\ \/ NewRows(f) \subseteq 1..n /\ complete' = complete \cup {f} /\ UNCHANGED torn
           \/ UNCHANGED complete /\ (torn' = torn \cup {f.kind} \/ UNCHANGED torn)
  BY DEF Harvest
<1>2. \A i \in ToSet(f.items) : \E k \in DOMAIN f.items : i = f.items[k]
  BY DEF ToSet
<1>3. \A r \in staged' \ staged : \E i \in ToSet(f.items) : r = RowOf(f, i)
  BY <1>1 DEF NewRows, ToSet
<1>4. NewRows(f) \subseteq 1..n => \A i \in ToSet(f.items) : RowOf(f, i) \in staged'
  BY <1>1, <1>2 DEF NewRows
<1> QED BY <1>1, <1>3, <1>4 DEF Harvest

LEMMA StagingNext ==
  ASSUME StagingTyped, StagingIsSound, Stages
  PROVE  StagingTyped' /\ StagingIsSound' /\ staged \subseteq staged'
<1>1. ASSUME NEW kind \in {"cell", "candidate"}, Repair(kind)
      PROVE  StagingTyped' /\ StagingIsSound' /\ staged \subseteq staged'
  BY <1>1 DEF Repair, StagingTyped, StagingIsSound, OneHashPerIdentity, HarvestIsWhole
<1>2. ASSUME NEW f \in Fixtures, Harvest(f)
      PROVE  StagingTyped' /\ StagingIsSound' /\ staged \subseteq staged'
  <2>1. /\ staged \subseteq staged' /\ ~Mutated(f)
        /\ \A r \in staged' \ staged : \E i \in ToSet(f.items) : r = RowOf(f, i)
        /\ \/ UNCHANGED complete
           \/ /\ complete' = complete \cup {f}
              /\ \A i \in ToSet(f.items) : RowOf(f, i) \in staged'
        /\ torn' \subseteq torn \cup {f.kind}
    BY <1>2, HarvestAdds
  <2>2. f.kind \in {"cell", "candidate"} /\ \A i \in ToSet(f.items) : RowOf(f, i) \in Rows
    <3> DEFINE of(g) == {[kind |-> g.kind, source |-> g.source, hash |-> g.hash, item |-> i]
                           : i \in ToSet(g.items)}
    <3>1. Rows = UNION {of(g) : g \in Fixtures}
      BY DEF Rows
    <3>2. \A i \in ToSet(f.items) : RowOf(f, i) \in of(f)
      BY DEF RowOf
    <3> HIDE DEF of
    <3>3. \A i \in ToSet(f.items) : RowOf(f, i) \in Rows
      BY <3>1, <3>2
    <3> QED BY <3>3, ContributionsAssumption
  <2>3. StagingTyped'
    BY <2>1, <2>2 DEF StagingTyped
  <2>4. HarvestIsWhole'
    BY <2>1 DEF StagingIsSound, HarvestIsWhole
  <2>5. ASSUME NEW r \in staged' \ staged
        PROVE  /\ r.kind = f.kind /\ r.source = f.source /\ r.hash = f.hash
               /\ r.item \in ToSet(f.items)
    BY <2>1 DEF RowOf
  <2>6. ASSUME NEW r \in staged' \ staged, NEW s \in staged, r.kind = s.kind,
               r.source = s.source, r.kind = "cell" => r.item = s.item
        PROVE  r.hash = s.hash
    <3>1. s \in StagedOf(f) /\ (f.kind = "cell" => s.item \in ToSet(f.items))
      BY <2>5, <2>6 DEF StagedOf
    <3> QED BY <2>1, <2>5, <3>1 DEF Mutated
  <2>7. OneHashPerIdentity'
    <3> SUFFICES ASSUME NEW r \in staged', NEW s \in staged', r.kind = s.kind,
                        r.source = s.source, r.kind = "cell" => r.item = s.item
                 PROVE  r.hash = s.hash
      BY DEF OneHashPerIdentity
    <3>1. CASE r \in staged /\ s \in staged
      BY <3>1 DEF StagingIsSound, OneHashPerIdentity
    <3>2. CASE r \notin staged /\ s \in staged
      BY <2>6, <3>2
    <3>3. CASE r \in staged /\ s \notin staged
      <4>1. s \in staged' \ staged /\ (s.kind = "cell" => s.item = r.item)
        BY <3>3
      <4>2. s.hash = r.hash
        BY <2>6, <3>3, <4>1
      <4> QED BY <4>2
    <3>4. CASE r \notin staged /\ s \notin staged
      BY <2>5, <3>4
    <3> QED BY <3>1, <3>2, <3>3, <3>4
  <2> QED BY <2>1, <2>3, <2>4, <2>7 DEF StagingIsSound
<1> QED BY <1>1, <1>2 DEF Stages

-----------------------------------------------------------------------------
(* Review and promotion                                                    *)

DecisionLines == [row : staged, outcome : Outcomes, binding : Bindings]

(* A metric is of a promoted run, so that it never stops a promotion.      *)
PromotionTyped ==
  /\ decisions \in Seq(DecisionLines)
  /\ plan \in [Promoters -> {None} \cup [rows : SUBSET staged, dangling : BOOLEAN]]
  /\ runs \cup recipes \subseteq staged
  /\ metrics \subseteq runs

LEMMA PromotionInit == Init => PromotionTyped
BY DEF Init, PromotionTyped

(* The staging files grow, and nothing else of promotion changes.          *)
LEMMA PromotionRests ==
  ASSUME PromotionTyped, staged \subseteq staged', UNCHANGED promotion
  PROVE  PromotionTyped'
<1>1. DecisionLines \subseteq DecisionLines'
  BY DEF DecisionLines
<1>2. decisions \in Seq(DecisionLines')
  <2> DEFINE A == DecisionLines
             B == DecisionLines'
  <2>1. decisions \in Seq(A) /\ A \subseteq B
    BY <1>1 DEF PromotionTyped
  <2> HIDE DEF A, B
  <2>2. decisions \in Seq(B)
    BY <2>1
  <2> QED BY <2>2 DEF B
<1> QED BY <1>2 DEF PromotionTyped, promotion

LEMMA RemovedIsShorter ==
  ASSUME NEW S, NEW seq \in Seq(S), NEW n \in DOMAIN seq
  PROVE  RemoveAt(seq, n) \in Seq(S)
BY DEF RemoveAt

(* The line that decides is a line of the row.                             *)
LEMMA DecisionIsLine ==
  ASSUME PromotionTyped, NEW row, Lines(row) # {}
  PROVE  \E n \in Lines(row) : Decision(row) = decisions[n]
<1>1. Lines(row) \in SUBSET Nat
  BY DEF PromotionTyped, Lines
<1>2. \E n \in Lines(row) : \A m \in Lines(row) : n <= m
  BY <1>1, LeastNumber
<1>3. (CHOOSE n \in Lines(row) : \A m \in Lines(row) : n <= m) \in Lines(row)
  BY <1>2
<1> QED BY <1>3 DEF Decision

LEMMA WritesPromotion ==
  ASSUME PromotionTyped, NEW p \in Promoters, WritePromote(p)
  PROVE  /\ plan' = [plan EXCEPT ![p] = None]
         /\ runs' \cup recipes' \subseteq staged /\ metrics' \subseteq runs'
         /\ ~plan[p].dangling => plan[p].rows \subseteq runs' \cup recipes'
         /\ UNCHANGED <<decisions, staged>>
<1> DEFINE cells == {r \in plan[p].rows : r.kind = "cell"}
<1>1. plan[p].rows \subseteq staged
  BY DEF WritePromote, PromotionTyped
<1>2. MetricsOf(cells) \cap metrics = {} /\ MetricsOf(cells) \subseteq cells
  BY DEF MetricsOf, PromotionTyped
<1>3. CASE plan[p].dangling
  BY <1>3 DEF WritePromote, PromotionTyped, harvests
<1>4. CASE ~plan[p].dangling
  <2>1. /\ runs' = runs \cup cells /\ metrics' = metrics \cup MetricsOf(cells)
        /\ recipes' = recipes \cup (plan[p].rows \ cells)
        /\ plan' = [plan EXCEPT ![p] = None] /\ UNCHANGED <<decisions, staged>>
    BY <1>2, <1>4 DEF WritePromote, harvests
  <2> QED BY <1>1, <1>2, <2>1 DEF PromotionTyped
<1> QED BY <1>3, <1>4

LEMMA PromotionNext ==
  ASSUME PromotionTyped, Promotes
  PROVE  PromotionTyped'
<1>1. UNCHANGED staged /\ DecisionLines' = DecisionLines
  BY DEF Promotes, Review, Decide, Undecide, BeginPromote, WritePromote, harvests, DecisionLines
<1>2. ASSUME NEW row \in staged, NEW o \in Outcomes, NEW b \in Bindings, Decide(row, o, b)
      PROVE  PromotionTyped'
  <2> DEFINE line == [row |-> row, outcome |-> o, binding |-> b]
  <2>1. line \in DecisionLines
    BY DEF DecisionLines
  <2> HIDE DEF line
  <2>2. decisions' = Append(decisions, line) /\ UNCHANGED <<plan, runs, metrics, recipes>>
    BY <1>2 DEF Decide, line
  <2> QED BY <1>1, <2>1, <2>2 DEF PromotionTyped
<1>3. ASSUME NEW n, Undecide(n)
      PROVE  PromotionTyped'
  <2>1. decisions' \in Seq(DecisionLines)
    BY <1>3, RemovedIsShorter DEF Undecide, PromotionTyped
  <2> QED BY <1>1, <1>3, <2>1 DEF PromotionTyped, Undecide
<1>4. ASSUME NEW p \in Promoters, BeginPromote(p)
      PROVE  PromotionTyped'
  <2> DEFINE dangling == \E r \in Approved : Decision(r).binding = "unknown"
             new      == [rows |-> Approved, dangling |-> dangling]
  <2>1. new \in [rows : SUBSET staged, dangling : BOOLEAN]
    <3>1. Approved \subseteq staged /\ dangling \in BOOLEAN
      BY DEF Approved
    <3> HIDE DEF dangling
    <3> QED BY <3>1
  <2>2. plan' = [plan EXCEPT ![p] = new] /\ UNCHANGED <<decisions, runs, metrics, recipes>>
    BY <1>4 DEF BeginPromote
  <2> HIDE DEF new
  <2> QED BY <1>1, <2>1, <2>2 DEF PromotionTyped
<1>5. ASSUME NEW p \in Promoters, WritePromote(p)
      PROVE  PromotionTyped'
  BY <1>1, <1>5, WritesPromotion DEF PromotionTyped
<1> QED BY <1>2, <1>3, <1>4, <1>5 DEF Promotes, Review

-----------------------------------------------------------------------------
(* The parts together                                                      *)

Inv ==
  /\ RequestsTyped /\ ReportsInv /\ PostsInv
  /\ ImportsTyped /\ ImportsInv
  /\ StagingTyped /\ StagingIsSound
  /\ PromotionTyped

LEMMA RequestsRest ==
  ASSUME RequestsTyped, ReportsInv, PostsInv, UNCHANGED <<reports, posts, request>>
  PROVE  RequestsTyped' /\ ReportsInv' /\ PostsInv'
BY DEF RequestsTyped, ReportsInv, ReportedOnce, PostsInv, Recent, Posting, reports

LEMMA ImportsRest ==
  ASSUME ImportsTyped, ImportsInv, UNCHANGED imports
  PROVE  ImportsTyped' /\ ImportsInv'
BY DEF ImportsTyped, ImportsInv, ImportedOnce, imports

LEMMA StagingRests ==
  ASSUME StagingTyped, StagingIsSound, UNCHANGED harvests
  PROVE  StagingTyped' /\ StagingIsSound' /\ staged' = staged
BY DEF StagingTyped, StagingIsSound, OneHashPerIdentity, HarvestIsWhole, harvests

LEMMA InvInit == Init => Inv
BY RequestsTypedInit, ReportsInit, PostsInit, ImportsInit, StagingInit, PromotionInit DEF Inv

LEMMA InvNext == Inv /\ [Next]_vars => Inv'
<1> SUFFICES ASSUME Inv, [Next]_vars PROVE Inv'
  OBVIOUS
<1>1. /\ RequestsTyped /\ ReportsInv /\ PostsInv /\ ImportsTyped /\ ImportsInv
      /\ StagingTyped /\ StagingIsSound /\ PromotionTyped
  BY DEF Inv
<1>2. RequestsTyped' /\ ReportsInv' /\ PostsInv'
  <2>1. CASE Requests
    BY <1>1, <2>1, RequestsTypedNext, ReportsNext, PostsNext
  <2>2. CASE UNCHANGED <<reports, posts, request>>
    BY <1>1, <2>2, RequestsRest
  <2> QED BY <2>1, <2>2, Parts DEF OthersRest, vars
<1>3. ImportsTyped' /\ ImportsInv'
  <2>1. CASE Imports
    BY <1>1, <2>1, ImportsNext
  <2>2. CASE UNCHANGED imports
    BY <1>1, <2>2, ImportsRest
  <2> QED BY <2>1, <2>2, Parts DEF OthersRest, vars
<1>4. StagingTyped' /\ StagingIsSound' /\ staged \subseteq staged'
  <2>1. CASE Stages
    BY <1>1, <2>1, StagingNext
  <2>2. CASE UNCHANGED harvests
    BY <1>1, <2>2, StagingRests
  <2> QED BY <2>1, <2>2, Parts DEF OthersRest, vars
<1>5. PromotionTyped'
  <2>1. CASE Promotes
    BY <1>1, <2>1, PromotionNext
  <2>2. CASE UNCHANGED promotion
    BY <1>1, <1>4, <2>2, PromotionRests
  <2> QED BY <2>1, <2>2, Parts DEF OthersRest, vars
<1> QED BY <1>2, <1>3, <1>4, <1>5 DEF Inv

LEMMA InvAlways == Spec => []Inv
<1> QED BY InvInit, InvNext, PTL DEF Spec

-----------------------------------------------------------------------------
(* Type correctness, with what rows, lines and requests refer to.          *)
THEOREM TypeCorrect == Spec => []TypeOK
<1>1. Inv => TypeOK
  <2> SUFFICES ASSUME Inv PROVE TypeOK
    OBVIOUS
  <2>1. RequestsTyped /\ ImportsTyped /\ StagingTyped /\ PromotionTyped
    BY DEF Inv
  <2>2. \A n \in DOMAIN decisions : decisions[n].row \in staged
    <3>1. \A n \in DOMAIN decisions : decisions[n] \in DecisionLines
      BY <2>1 DEF PromotionTyped
    <3> QED BY <3>1 DEF DecisionLines
  <2> QED BY <2>1, <2>2 DEF TypeOK, RequestsTyped, ImportsTyped, StagingTyped, PromotionTyped
<1> QED BY <1>1, InvAlways, PTL

(* The quota of reported runs is exact for any number of coroutines, and   *)
(* the limits of posts are passed by less than the number of threads.      *)
THEOREM QuotasAreKept == Spec => []QuotasHold
<1>1. Inv => QuotasHold
  BY PostsAreBounded DEF Inv, ReportsInv, QuotasHold, QuotaHolds
<1> QED BY <1>1, InvAlways, PTL

(* A lookup key has one reported run and an external_ref one claim.        *)
THEOREM NothingIsTwice == Spec => []NothingTwice
<1>1. Inv => NothingTwice
  BY DEF Inv, ReportsInv, ImportsInv, NothingTwice
<1> QED BY <1>1, InvAlways, PTL

(* Whatever harvests crash and are repeated, one version of an item is     *)
(* staged, and all items of a harvest that ended.                          *)
THEOREM StagingStaysSound == Spec => []StagingIsSound
<1>1. Inv => StagingIsSound
  BY DEF Inv
<1> QED BY <1>1, InvAlways, PTL

(* An import that commits leaves a claim for each cell of its file.        *)
THEOREM ImportsAreWhole == Spec => ImportIsWhole
<1> DEFINE Whole == \A p \in Importers : \A c \in importer[p].file :
                      importer'[p] = NoFile /\ imported' # imported => imported'[c] > 0
<1>1. Inv /\ [Next]_vars => [Whole]_vars
  <2> SUFFICES ASSUME Inv, [Next]_vars, NEW p \in Importers, NEW c \in importer[p].file,
                      importer'[p] = NoFile, imported' # imported
               PROVE  imported'[c] > 0
    OBVIOUS
  <2>1. ImportsTyped /\ ImportsInv
    BY DEF Inv
  <2>2. Imports
    BY Parts DEF OthersRest, imports, vars
  <2>3. PICK q \in Importers : CommitImport(q)
    BY <2>2 DEF Imports, Import, BeginImport, ImportCell
  <2>4. CASE q = p
    BY <2>1, <2>3, <2>4, CommitsImport
  <2>5. CASE q # p
    <3>1. importer'[p] = importer[p]
      BY <2>1, <2>3, <2>5 DEF CommitImport, ImportsTyped
    <3> QED BY <3>1 DEF NoFile
  <2> QED BY <2>4, <2>5
<1> QED BY <1>1, InvAlways, PTL DEF ImportIsWhole, Spec

(* A promotion whose references exist is carried out, and nothing that a   *)
(* line rejects is planned, in whatever order the lines were written.      *)
THEOREM PromotionsAreFaithful == Spec => PromotionIsFaithful
<1> DEFINE Repeats == \A p \in Promoters :
                        plan[p] # None /\ plan'[p] = None /\ ~plan[p].dangling
                          => plan[p].rows \subseteq runs' \cup recipes'
           Agreed == \A p \in Promoters : plan'[p] # plan[p] /\ plan'[p] # None =>
                       \A r \in plan'[p].rows :
                         /\ Lines(r) # {}
                         /\ \A n \in Lines(r) : decisions[n].outcome = "approved"
<1>1. ASSUME Inv, [Next]_vars, NEW p \in Promoters, plan'[p] # plan[p]
      PROVE  BeginPromote(p) \/ WritePromote(p)
  <2>1. PromotionTyped /\ Promotes
    BY <1>1, Parts DEF OthersRest, vars, promotion, Inv
  <2>2. PICK q \in Promoters : BeginPromote(q) \/ WritePromote(q)
    BY <1>1, <2>1 DEF Promotes, Review, Decide, Undecide
  <2>3. q = p
    BY <1>1, <2>1, <2>2 DEF BeginPromote, WritePromote, PromotionTyped
  <2> QED BY <2>2, <2>3
<1>2. Inv /\ [Next]_vars => [Repeats]_vars
  <2> SUFFICES ASSUME Inv, [Next]_vars, NEW p \in Promoters, plan[p] # None, plan'[p] = None,
                      ~plan[p].dangling
               PROVE  plan[p].rows \subseteq runs' \cup recipes'
    OBVIOUS
  <2>1. WritePromote(p)
    BY <1>1 DEF BeginPromote
  <2> QED BY <2>1, WritesPromotion DEF Inv
<1>3. Inv /\ [Next]_vars => [Agreed]_vars
  <2> SUFFICES ASSUME Inv, [Next]_vars, NEW p \in Promoters, plan'[p] # plan[p],
                      plan'[p] # None, NEW r \in plan'[p].rows
               PROVE  /\ Lines(r) # {}
                      /\ \A n \in Lines(r) : decisions[n].outcome = "approved"
    OBVIOUS
  <2>1. PromotionTyped
    BY DEF Inv
  <2>2. BeginPromote(p)
    BY <1>1, <2>1, WritesPromotion DEF PromotionTyped
  <2>3. r \in Approved /\ ~Conflicting
    <3> DEFINE new == [rows |-> Approved,
                       dangling |-> \E s \in Approved : Decision(s).binding = "unknown"]
    <3>1. plan' = [plan EXCEPT ![p] = new] /\ ~Conflicting
      BY <2>2 DEF BeginPromote
    <3>2. new.rows = Approved
      OBVIOUS
    <3> HIDE DEF new
    <3> QED BY <2>1, <3>1, <3>2 DEF PromotionTyped
  <2>4. PICK m \in Lines(r) : decisions[m].outcome = "approved"
    BY <2>1, <2>3, DecisionIsLine DEF Approved
  <2>5. \A n \in Lines(r) : decisions[n].outcome = "approved"
    BY <2>3, <2>4 DEF Conflicting, Lines
  <2> QED BY <2>4, <2>5
<1>4. Spec => PromotionRepeats
  BY <1>2, InvAlways, PTL DEF PromotionRepeats, Spec
<1>5. Spec => NothingRejectedIsPlanned
  BY <1>3, InvAlways, PTL DEF NothingRejectedIsPlanned, Spec
<1> QED BY <1>4, <1>5 DEF PromotionIsFaithful

=============================================================================
