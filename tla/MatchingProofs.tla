---------------------------- MODULE MatchingProofs ----------------------------
(***************************************************************************)
(* Proofs about Matching for any rigs, models, runs, entries and           *)
(* questions.  Every answer is a list cut out of an order by tuples, so    *)
(* the order comes first; then the evidence of the pool, and the           *)
(* leaderboard.                                                            *)
(***************************************************************************)
EXTENDS Matching, FiniteSetTheorems, WellFoundedInduction, TLAPS

-----------------------------------------------------------------------------
(* The order of tuples                                                     *)

LEMMA LeastNumber ==
  ASSUME NEW S \in SUBSET Nat, S # {}
  PROVE  \E n \in S : \A m \in S : n <= m
<1> DEFINE Below == OpToRel(<, Nat)
<1>1. IsWellFoundedOn(Below, Nat)
  BY NatLessThanWellFounded
<1>2. \A m, n \in Nat : <<m, n>> \in Below <=> m < n
  BY DEF OpToRel
<1> HIDE DEF Below
<1>3. PICK n \in S : \A m \in S : ~(<<m, n>> \in Below)
  BY <1>1, WFMin
<1>4. \A m \in S : ~(m < n)
  BY <1>2, <1>3
<1> QED BY <1>4

Tuples(n) == {s \in Seq(Int) : Len(s) = n}

LEMMA TuplesAre ==
  ASSUME NEW n \in Nat, NEW s \in Tuples(n)
  PROVE  s \in Seq(Int) /\ Len(s) = n /\ \A i \in 1 .. n : s[i] \in Int
BY DEF Tuples

LEMMA LexIrreflexive ==
  ASSUME NEW n \in Nat, NEW s \in Tuples(n)
  PROVE  ~LexLess(s, s)
BY TuplesAre DEF LexLess

LEMMA LexTransitive ==
  ASSUME NEW n \in Nat, NEW s \in Tuples(n), NEW t \in Tuples(n), NEW u \in Tuples(n),
         LexLess(s, t), LexLess(t, u)
  PROVE  LexLess(s, u)
<1>1. PICK i \in 1 .. n : s[i] < t[i] /\ \A j \in 1 .. i - 1 : s[j] = t[j]
  BY TuplesAre DEF LexLess
<1>2. PICK k \in 1 .. n : t[k] < u[k] /\ \A j \in 1 .. k - 1 : t[j] = u[j]
  BY TuplesAre DEF LexLess
<1>3. \A j \in 1 .. n : s[j] \in Int /\ t[j] \in Int /\ u[j] \in Int
  BY TuplesAre
<1>4. SUFFICES \E m \in 1 .. n : s[m] < u[m] /\ \A j \in 1 .. m - 1 : s[j] = u[j]
  BY TuplesAre DEF LexLess
<1>5. CASE i < k
  <2>1. s[i] < u[i] /\ \A j \in 1 .. i - 1 : s[j] = u[j]
    BY <1>1, <1>2, <1>3, <1>5
  <2> QED BY <2>1
<1>6. CASE i = k
  <2>1. s[i] < u[i] /\ \A j \in 1 .. i - 1 : s[j] = u[j]
    BY <1>1, <1>2, <1>3, <1>6
  <2> QED BY <2>1
<1>7. CASE i > k
  <2>1. s[k] < u[k] /\ \A j \in 1 .. k - 1 : s[j] = u[j]
    BY <1>1, <1>2, <1>3, <1>7
  <2> QED BY <2>1
<1> QED BY <1>5, <1>6, <1>7

LEMMA LexTotal ==
  ASSUME NEW n \in Nat, NEW s \in Tuples(n), NEW t \in Tuples(n), s # t
  PROVE  LexLess(s, t) \/ LexLess(t, s)
<1> DEFINE D == {i \in 1 .. n : s[i] # t[i]}
<1>1. s \in Seq(Int) /\ t \in Seq(Int) /\ Len(s) = n /\ Len(t) = n
      /\ \A j \in 1 .. n : s[j] \in Int /\ t[j] \in Int
  BY TuplesAre
<1>2. D # {}
  BY <1>1
<1>3. D \in SUBSET Nat
  OBVIOUS
<1>4. PICK i \in D : \A j \in D : i <= j
  <2> HIDE DEF D
  <2> QED BY <1>2, <1>3, LeastNumber
<1>5. i \in 1 .. n /\ s[i] # t[i] /\ \A j \in 1 .. i - 1 : s[j] = t[j]
  BY <1>4
<1>6. s[i] < t[i] \/ t[i] < s[i]
  BY <1>1, <1>5
<1> QED BY <1>1, <1>5, <1>6 DEF LexLess

(* Keys of the same length on a finite set; the rank of an element.        *)
Keyed(S, key, n) == IsFiniteSet(S) /\ n \in Nat /\ \A x \in S : key[x] \in Tuples(n)
Before(S, key, x) == {y \in S : LexLess(key[y], key[x])}
Rank(S, key, x)   == Cardinality(Before(S, key, x))

LEMMA FirstKIs ==
  ASSUME NEW S, NEW key, NEW k
  PROVE  /\ FirstK(S, key, k) = {x \in S : Rank(S, key, x) < k}
         /\ Nth(S, key, k) = CHOOSE x \in S : Rank(S, key, x) = k - 1
BY DEF FirstK, Nth, Rank, Before

LEMMA RankIs ==
  ASSUME NEW S, NEW key, NEW n, Keyed(S, key, n), NEW x \in S
  PROVE  /\ Rank(S, key, x) \in 0 .. Cardinality(S) - 1
         /\ IsFiniteSet(Before(S, key, x)) /\ Cardinality(S) \in Nat
<1>1. IsFiniteSet(S) /\ Before(S, key, x) \subseteq S /\ x \notin Before(S, key, x)
  BY LexIrreflexive DEF Keyed, Before
<1>2. IsFiniteSet(Before(S, key, x)) /\ Rank(S, key, x) <= Cardinality(S)
      /\ (Cardinality(S) = Rank(S, key, x) => S = Before(S, key, x))
  BY <1>1, FS_Subset DEF Rank
<1>3. Rank(S, key, x) \in Nat /\ Cardinality(S) \in Nat
  BY <1>1, <1>2, FS_CardinalityType DEF Rank
<1>4. Rank(S, key, x) # Cardinality(S)
  BY <1>1, <1>2
<1> QED BY <1>2, <1>3, <1>4

(* What comes before has a smaller rank.                                   *)
LEMMA RankGrows ==
  ASSUME NEW S, NEW key, NEW n, Keyed(S, key, n), NEW x \in S, NEW y \in S,
         LexLess(key[x], key[y])
  PROVE  Rank(S, key, x) < Rank(S, key, y)
<1> DEFINE A == Before(S, key, x)
           B == Before(S, key, y)
<1>1. A \subseteq B /\ x \in B /\ x \notin A
  BY LexTransitive, LexIrreflexive DEF Keyed, Before
<1>2. IsFiniteSet(A) /\ IsFiniteSet(B)
  BY RankIs
<1> HIDE DEF A, B
<1>3. Cardinality(A) <= Cardinality(B) /\ (Cardinality(B) = Cardinality(A) => B = A)
  BY <1>1, <1>2, FS_Subset
<1>4. Cardinality(A) \in Nat /\ Cardinality(B) \in Nat
  BY <1>2, FS_CardinalityType
<1>5. Cardinality(A) < Cardinality(B)
  BY <1>1, <1>3, <1>4
<1> QED BY <1>5 DEF A, B, Rank

LEMMA RankOrders ==
  ASSUME NEW S, NEW key, NEW n, Keyed(S, key, n), NEW x \in S, NEW y \in S,
         Rank(S, key, x) <= Rank(S, key, y)
  PROVE  ~LexLess(key[y], key[x])
<1>1. Rank(S, key, x) \in Int /\ Rank(S, key, y) \in Int
  BY RankIs
<1> QED BY <1>1, RankGrows

(* A list that is cut off leaves nothing out that comes before what it     *)
(* holds.                                                                  *)
LEMMA CutsKeepOrder ==
  ASSUME NEW S, NEW key, NEW n, Keyed(S, key, n), NEW k \in Int,
         NEW a \in FirstK(S, key, k), NEW b \in S \ FirstK(S, key, k)
  PROVE  ~LexLess(key[b], key[a])
<1>1. a \in S /\ b \in S /\ Rank(S, key, a) < k /\ ~(Rank(S, key, b) < k)
  BY FirstKIs
<1>2. Rank(S, key, a) \in Int /\ Rank(S, key, b) \in Int
  BY <1>1, RankIs
<1>3. Rank(S, key, a) <= Rank(S, key, b)
  BY <1>1, <1>2
<1> QED BY <1>1, <1>3, RankOrders

LEMMA CutsOfAll ==
  ASSUME NEW S, NEW key, NEW n, Keyed(S, key, n), NEW k \in Int, Cardinality(S) <= k
  PROVE  FirstK(S, key, k) = S
<1>1. \A x \in S : Rank(S, key, x) < k
  <2> TAKE x \in S
  <2>1. Rank(S, key, x) \in 0 .. Cardinality(S) - 1 /\ Cardinality(S) \in Nat
    BY RankIs
  <2> QED BY <2>1
<1> QED BY <1>1, FirstKIs

(* Something comes first.                                                  *)
LEMMA SomethingIsFirst ==
  ASSUME NEW S, NEW key, NEW n, Keyed(S, key, n), S # {}
  PROVE  \E x \in S : \A y \in S : ~LexLess(key[y], key[x])
<1> DEFINE R == {Rank(S, key, x) : x \in S}
<1>1. R \in SUBSET Nat /\ R # {}
  BY RankIs
<1>2. PICK m \in R : \A j \in R : m <= j
  <2> HIDE DEF R
  <2> QED BY <1>1, LeastNumber
<1>3. PICK x \in S : m = Rank(S, key, x)
  BY <1>2
<1>4. \A y \in S : Rank(S, key, x) <= Rank(S, key, y)
  BY <1>2, <1>3
<1>5. \A y \in S : ~LexLess(key[y], key[x])
  BY <1>4, RankOrders
<1> QED BY <1>5

LEMMA CutsAreNotEmpty ==
  ASSUME NEW S, NEW key, NEW n, Keyed(S, key, n), S # {}, NEW k \in Nat, k >= 1
  PROVE  FirstK(S, key, k) # {}
<1>1. PICK x \in S : \A y \in S : ~LexLess(key[y], key[x])
  BY SomethingIsFirst
<1>2. Before(S, key, x) = {}
  BY <1>1 DEF Before
<1>3. Rank(S, key, x) = 0
  BY <1>2, FS_EmptySet DEF Rank
<1> QED BY <1>3, FirstKIs

-----------------------------------------------------------------------------
(* The evidence of the pool                                                *)

(* The pool, the board and the snapshot hold what there is, and a snapshot *)
(* nothing that the pool does not.                                         *)
THEOREM TypeCorrect == Spec => []TypeOK
<1>1. Init => TypeOK
  BY DEF Init, TypeOK, QuestionsOK
<1>2. TypeOK /\ [Next]_vars => TypeOK'
  <2> SUFFICES ASSUME TypeOK, [Next]_vars PROVE TypeOK'
    OBVIOUS
  <2>1. ASSUME NEW r \in Runs, AddRun(r) PROVE TypeOK'
    BY <2>1 DEF AddRun, TypeOK, QuestionsOK
  <2>2. ASSUME NEW by \in {"web", "backend"}, Publish(by) PROVE TypeOK'
    BY <2>2 DEF Publish, TypeOK, QuestionsOK
  <2>3. ASSUME NEW e \in Entries, Validate(e) PROVE TypeOK'
    BY <2>3 DEF Validate, TypeOK, QuestionsOK
  <2>4. ASSUME NEW q \in Questions, Ask(q) PROVE TypeOK'
    BY <2>4 DEF Ask, TypeOK, QuestionsOK
  <2>5. CASE UNCHANGED vars
    BY <2>5 DEF vars, TypeOK, QuestionsOK
  <2> QED BY <2>1, <2>2, <2>3, <2>4, <2>5 DEF Next
<1> QED BY <1>1, <1>2, PTL DEF Spec

LEMMA CellsAre ==
  ASSUME NEW A, A \subseteq Runs, NEW B, A \subseteq B, B \subseteq Runs, NEW g, NEW m, NEW b
  PROVE  /\ Cell(A, g, m, b) \subseteq Cell(B, g, m, b)
         /\ IsFiniteSet(Cell(A, g, m, b)) /\ Cardinality(Cell(A, g, m, b)) \in Nat
         /\ IsFiniteSet(Cell(B, g, m, b)) /\ Cardinality(Cell(B, g, m, b)) \in Nat
         /\ Cardinality(Cell(A, g, m, b)) <= Cardinality(Cell(B, g, m, b))
<1> DEFINE S == Cell(A, g, m, b)
           T == Cell(B, g, m, b)
<1>1. S \subseteq T /\ T \subseteq Runs
  BY DEF Cell
<1> HIDE DEF S, T
<1>2. IsFiniteSet(T) /\ IsFiniteSet(S) /\ Cardinality(S) <= Cardinality(T)
  BY <1>1, MatchingAssumption, FS_Subset
<1>3. Cardinality(S) \in Nat /\ Cardinality(T) \in Nat
  BY <1>2, FS_CardinalityType
<1> QED BY <1>1, <1>2, <1>3 DEF S, T

Bases == {"measured", "reported", "extrapolated"}

LEMMA WeightsAre ==
  /\ BasisWeight["measured"] = 3 /\ BasisWeight["reported"] = 2
  /\ BasisWeight["extrapolated"] = 1
  /\ \A x \in Bases : BasisWeight[x] \in 1 .. 3
BY DEF BasisWeight, Bases

(* The other rigs a speed is extrapolated from.                            *)
Others(runs, rigs, g, m, b) ==
  {o \in rigs : o.key # g.key /\ o.bw # None /\ Cell(runs, o, m, b) # {}}

LEMMA SourcesAre ==
  ASSUME NEW A, A \subseteq Runs, NEW g, NEW m, NEW b
  PROVE  LET G == PoolRigs(A, Rigs)
         IN  /\ Source(A, G, g, m, b) \subseteq Others(A, G, g, m, b)
             /\ Others(A, G, g, m, b) # {} => Source(A, G, g, m, b) # {}
<1> DEFINE G == PoolRigs(A, Rigs)
           O == Others(A, G, g, m, b)
           key == [o \in O |-> <<-Cardinality(Cell(A, o, m, b)), o.key>>]
<1>1. Source(A, G, g, m, b) = FirstK(O, key, 1)
  BY DEF Source, Others
<1>2. O \subseteq Rigs /\ IsFiniteSet(O)
  BY MatchingAssumption, FS_Subset DEF Others, PoolRigs
<1>3. \A o \in O : key[o] \in Tuples(2)
  <2> TAKE o \in O
  <2>1. Cardinality(Cell(A, o, m, b)) \in Nat
    BY CellsAre
  <2>2. o.key \in Int
    BY <1>2, EvidenceAssumption
  <2> QED BY <2>1, <2>2 DEF Tuples
<1>4. Keyed(O, key, 2)
  BY <1>2, <1>3 DEF Keyed
<1> HIDE DEF O, key
<1>5. FirstK(O, key, 1) \subseteq O
  BY FirstKIs
<1>6. O # {} => FirstK(O, key, 1) # {}
  BY <1>4, CutsAreNotEmpty
<1> QED BY <1>1, <1>5, <1>6 DEF O

(* What an estimate may say, and when there is one.                        *)
LEMMA EstimatesAre ==
  ASSUME NEW A, A \subseteq Runs, NEW g, NEW m, NEW b
  PROVE  LET own == Cell(A, g, m, b)
             G   == PoolRigs(A, Rigs)
             E   == Estimate(A, G, g, m, b)
         IN  /\ own # {} => /\ E # {}
                            /\ \A e \in E : e.basis = IF Cardinality(own) >= 3 THEN "measured"
                                                      ELSE "reported"
             /\ own = {} => \A e \in E : e.basis = "extrapolated"
             /\ own = {} => (E # {} <=> g.bw # None /\ Others(A, G, g, m, b) # {})
<1> DEFINE own == Cell(A, g, m, b)
           G   == PoolRigs(A, Rigs)
           E   == Estimate(A, G, g, m, b)
           from == IF g.bw = None THEN {} ELSE Source(A, G, g, m, b)
<1>1. CASE own # {}
  <2> DEFINE x == IF Cardinality(own) >= 3 THEN "measured" ELSE "reported"
             y == [value |-> CellMedian(own), n |-> Cardinality(own), basis |-> x]
  <2>1. E = {y}
    BY <1>1 DEF Estimate, MinRunsMeasured
  <2>2. y.basis = x
    OBVIOUS
  <2> HIDE DEF E, y
  <2>3. E # {} /\ \A e \in E : e.basis = x
    BY <2>1, <2>2
  <2> QED BY <1>1, <2>3 DEF E
<1>2. CASE own = {}
  <2>1. E = {[value |-> (2 * CellMedian(Cell(A, o, m, b)) * g.bw + o.bw) \div (2 * o.bw),
              n |-> Cardinality(Cell(A, o, m, b)), basis |-> "extrapolated"] : o \in from}
    BY <1>2 DEF Estimate
  <2>2. \A e \in E : e.basis = "extrapolated"
    BY <2>1
  <2>3. E # {} <=> from # {}
    BY <2>1
  <2>4. from # {} <=> g.bw # None /\ Others(A, G, g, m, b) # {}
    BY SourcesAre
  <2> HIDE DEF E, from
  <2> QED BY <1>2, <2>2, <2>3, <2>4 DEF E
<1> QED BY <1>1, <1>2

(* More runs never weaken an estimate.                                     *)
LEMMA EstimatesRise ==
  ASSUME NEW A, A \subseteq Runs, NEW B, A \subseteq B, B \subseteq Runs, NEW g, NEW m, NEW b,
         NEW e \in Estimate(A, PoolRigs(A, Rigs), g, m, b)
  PROVE  \E f \in Estimate(B, PoolRigs(B, Rigs), g, m, b) :
           BasisWeight[f.basis] >= BasisWeight[e.basis]
<1> DEFINE S == Cell(A, g, m, b)
           T == Cell(B, g, m, b)
<1>1. S \subseteq T /\ Cardinality(S) <= Cardinality(T)
      /\ Cardinality(S) \in Nat /\ Cardinality(T) \in Nat
  BY CellsAre
<1>2. CASE S # {}
  <2>1. T # {}
    BY <1>1, <1>2
  <2>2. e.basis = IF Cardinality(S) >= 3 THEN "measured" ELSE "reported"
    BY <1>2, EstimatesAre
  <2>3. PICK f \in Estimate(B, PoolRigs(B, Rigs), g, m, b) :
          f.basis = IF Cardinality(T) >= 3 THEN "measured" ELSE "reported"
    BY <2>1, EstimatesAre
  <2> QED BY <1>1, <2>2, <2>3, WeightsAre
<1>3. CASE S = {}
  <2>1. e.basis = "extrapolated" /\ g.bw # None /\ Others(A, PoolRigs(A, Rigs), g, m, b) # {}
    BY <1>3, EstimatesAre
  <2>2. PoolRigs(A, Rigs) \subseteq PoolRigs(B, Rigs)
    BY DEF PoolRigs
  <2>3. \A o : Cell(A, o, m, b) \subseteq Cell(B, o, m, b)
    BY DEF Cell
  <2>4. Others(B, PoolRigs(B, Rigs), g, m, b) # {}
    BY <2>1, <2>2, <2>3 DEF Others
  <2>5. Estimate(B, PoolRigs(B, Rigs), g, m, b) # {}
    BY <2>1, <2>4, EstimatesAre
  <2>6. PICK f \in Estimate(B, PoolRigs(B, Rigs), g, m, b) : TRUE
    BY <2>5
  <2>7. f.basis \in Bases
    <3>1. T # {} => f.basis = IF Cardinality(T) >= 3 THEN "measured" ELSE "reported"
      BY <2>6, EstimatesAre
    <3>2. T = {} => f.basis = "extrapolated"
      BY <2>6, EstimatesAre
    <3> QED BY <3>1, <3>2 DEF Bases
  <2> QED BY <2>1, <2>7, WeightsAre
<1> QED BY <1>2, <1>3

LEMMA PicksRise ==
  ASSUME NEW A, A \subseteq Runs, NEW B, A \subseteq B, B \subseteq Runs,
         NEW g, NEW m, MemoryKnown(A, m) = MemoryKnown(B, m),
         NEW c \in PickCandidates(A, Rigs, g, m)
  PROVE  \E d \in PickCandidates(B, Rigs, g, m) :
           BasisWeight[d.est.basis] >= BasisWeight[c.est.basis]
<1>0. PICK b \in {r.bits : r \in {x \in A : x.model = m.slug}} :
        \E e \in Estimate(A, PoolRigs(A, Rigs), g, m, b) :
          /\ FitClass(A, g, m, b) \in Fitting
          /\ c = [slug |-> m.slug, bits |-> b, est |-> e, fit |-> FitClass(A, g, m, b)]
  BY DEF PickCandidates
<1>1. PICK e \in Estimate(A, PoolRigs(A, Rigs), g, m, b) :
        /\ FitClass(A, g, m, b) \in Fitting
        /\ c = [slug |-> m.slug, bits |-> b, est |-> e, fit |-> FitClass(A, g, m, b)]
  BY <1>0
<1>2. b \in {r.bits : r \in {x \in B : x.model = m.slug}} /\ b \in {r.bits : r \in Runs}
  BY <1>1
<1>3. VramNeeded(A, m, b) = VramNeeded(B, m, b)
  BY <1>2 DEF MemoryKnown
<1>4. FitClass(A, g, m, b) = FitClass(B, g, m, b)
  BY <1>3 DEF FitClass
<1>5. PICK f \in Estimate(B, PoolRigs(B, Rigs), g, m, b) :
        BasisWeight[f.basis] >= BasisWeight[e.basis]
  BY <1>1, EstimatesRise
<1> DEFINE d == [slug |-> m.slug, bits |-> b, est |-> f, fit |-> FitClass(B, g, m, b)]
<1>6. d \in PickCandidates(B, Rigs, g, m)
  BY <1>1, <1>2, <1>4, <1>5 DEF PickCandidates
<1>7. d.est.basis = f.basis /\ c.est.basis = e.basis
  BY <1>1
<1> HIDE DEF d
<1> QED BY <1>5, <1>6, <1>7

LEMMA BasesAre ==
  ASSUME NEW A, A \subseteq Runs, NEW g, NEW m, NEW c \in PickCandidates(A, Rigs, g, m)
  PROVE  c.est.basis \in Bases
<1>1. PICK b : \E e \in Estimate(A, PoolRigs(A, Rigs), g, m, b) : c.est.basis = e.basis
  BY DEF PickCandidates
<1>2. PICK e \in Estimate(A, PoolRigs(A, Rigs), g, m, b) : c.est.basis = e.basis
  BY <1>1
<1>3. CASE Cell(A, g, m, b) # {}
  BY <1>2, <1>3, EstimatesAre DEF Bases
<1>4. CASE Cell(A, g, m, b) = {}
  BY <1>2, <1>4, EstimatesAre DEF Bases
<1> QED BY <1>3, <1>4

LEMMA MaxIs ==
  ASSUME NEW S \in SUBSET (0 .. 3), S # {}
  PROVE  Max(S) \in S /\ \A y \in S : Max(S) >= y
<1>1. \A y \in S : y = 0 \/ y = 1 \/ y = 2 \/ y = 3
  OBVIOUS
<1>2. CASE 3 \in S
  <2>1. \A y \in S : 3 >= y
    BY <1>1
  <2> QED BY <1>2, <2>1 DEF Max
<1>3. CASE 3 \notin S /\ 2 \in S
  <2>1. \A y \in S : 2 >= y
    BY <1>1, <1>3
  <2> QED BY <1>3, <2>1 DEF Max
<1>4. CASE 3 \notin S /\ 2 \notin S /\ 1 \in S
  <2>1. \A y \in S : 1 >= y
    BY <1>1, <1>4
  <2> QED BY <1>4, <2>1 DEF Max
<1>5. CASE 3 \notin S /\ 2 \notin S /\ 1 \notin S
  <2>1. \A y \in S : y = 0
    BY <1>1, <1>5
  <2>2. 0 \in S
    BY <2>1
  <2>3. \A y \in S : 0 >= y
    BY <2>1
  <2> QED BY <2>2, <2>3 DEF Max
<1> QED BY <1>2, <1>3, <1>4, <1>5

LEMMA BasisRises ==
  ASSUME NEW A, A \subseteq Runs, NEW B, A \subseteq B, B \subseteq Runs, NEW g, NEW m,
         MemoryKnown(A, m) = MemoryKnown(B, m)
  PROVE  Basis(B, g, m) >= Basis(A, g, m)
<1> DEFINE U == {0} \cup {BasisWeight[c.est.basis] : c \in PickCandidates(A, Rigs, g, m)}
           V == {0} \cup {BasisWeight[c.est.basis] : c \in PickCandidates(B, Rigs, g, m)}
<1>1. U \in SUBSET (0 .. 3) /\ U # {} /\ V \in SUBSET (0 .. 3) /\ V # {}
  BY BasesAre, WeightsAre
<1>2. ASSUME NEW u \in U
      PROVE  \E v \in V : v >= u
  <2>1. CASE u = 0
    <3>1. 0 \in V /\ 0 >= 0
      OBVIOUS
    <3> QED BY <2>1, <3>1
  <2>2. CASE u # 0
    <3>1. PICK c \in PickCandidates(A, Rigs, g, m) : u = BasisWeight[c.est.basis]
      BY <2>2
    <3>2. PICK d \in PickCandidates(B, Rigs, g, m) :
            BasisWeight[d.est.basis] >= BasisWeight[c.est.basis]
      BY PicksRise
    <3>3. BasisWeight[d.est.basis] \in V
      OBVIOUS
    <3> HIDE DEF V
    <3> QED BY <3>1, <3>2, <3>3
  <2> QED BY <2>1, <2>2
<1>3. Basis(A, g, m) = Max(U) /\ Basis(B, g, m) = Max(V)
  BY DEF Basis
<1> HIDE DEF U, V
<1>4. Max(U) \in U /\ Max(V) \in V /\ \A v \in V : Max(V) >= v
  BY <1>1, MaxIs
<1>5. PICK v \in V : v >= Max(U)
  BY <1>2, <1>4
<1>6. Max(V) >= v
  BY <1>4
<1>7. U \subseteq Int /\ V \subseteq Int
  BY <1>1
<1>8. Max(V) \in Int /\ v \in Int /\ Max(U) \in Int
  BY <1>4, <1>7
<1> QED BY <1>3, <1>5, <1>6, <1>8

(* One more run never takes a model off a rig, nor turns a measured or     *)
(* reported pick into a weaker one, unless it changes the memory the model *)
(* is taken to need.                                                       *)
THEOREM EvidenceOnlyRaises == Spec => EvidenceRaisesBasis
<1> DEFINE Raises == \A g \in Rigs, m \in PoolModels :
                       MemoryKnown(pool', m) = MemoryKnown(pool, m) =>
                         Basis(pool', g, m) >= Basis(pool, g, m)
<1>1. ASSUME TypeOK, [Next]_vars
      PROVE  Raises
  <2>1. pool \subseteq pool' /\ pool \subseteq Runs /\ pool' \subseteq Runs
    BY <1>1 DEF TypeOK, Next, AddRun, Publish, Validate, Ask, vars
  <2> QED BY <2>1, BasisRises
<1>2. TypeOK /\ [Next]_vars => [Raises]_vars
  BY <1>1
<1> QED BY <1>2, TypeCorrect, PTL DEF Spec, EvidenceRaisesBasis

-----------------------------------------------------------------------------
(* The leaderboard                                                         *)

(* Distinct keys have distinct ranks, and every rank is somebody's.        *)
LEMMA NthIs ==
  ASSUME NEW S, NEW key, NEW n, Keyed(S, key, n), \A x, y \in S : key[x] = key[y] => x = y,
         NEW k \in 1 .. Cardinality(S)
  PROVE  Nth(S, key, k) \in S /\ Rank(S, key, Nth(S, key, k)) = k - 1
<1> DEFINE N == Cardinality(S)
           T == 0 .. N - 1
           f == [x \in S |-> Rank(S, key, x)]
<1>1. IsFiniteSet(S) /\ N \in Nat /\ N >= 1
  BY FS_CardinalityType DEF Keyed
<1>2. \A x \in S : Rank(S, key, x) \in T
  BY RankIs
<1>3. ASSUME NEW x \in S, NEW y \in S, Rank(S, key, x) = Rank(S, key, y)
      PROVE  x = y
  <2>1. ~LexLess(key[x], key[y]) /\ ~LexLess(key[y], key[x])
    <3>1. Rank(S, key, x) \in Int /\ Rank(S, key, y) \in Int
      BY RankIs
    <3> QED BY <1>3, <3>1, RankOrders
  <2> QED BY <2>1, LexTotal DEF Keyed
<1>4. IsFiniteSet(T) /\ Cardinality(T) = N
  <2>1. 0 \in Int /\ N - 1 \in Int
    BY <1>1
  <2> QED BY <1>1, <2>1, FS_Interval
<1> HIDE DEF N, T
<1>5. f \in Injection(S, T)
  BY <1>2, <1>3 DEF Injection, IsInjective
<1> HIDE DEF f
<1>6. f \in Surjection(S, T)
  BY <1>1, <1>4, <1>5, FS_Injection DEF N
<1>7. k - 1 \in T
  BY <1>1 DEF N, T
<1>8. \E x \in S : f[x] = k - 1
  BY <1>6, <1>7 DEF Surjection
<1>9. \E x \in S : Rank(S, key, x) = k - 1
  BY <1>8 DEF f
<1> QED BY <1>9, FirstKIs

LEMMA NthOrders ==
  ASSUME NEW S, NEW key, NEW n, Keyed(S, key, n), \A x, y \in S : key[x] = key[y] => x = y,
         NEW j \in 1 .. Cardinality(S), NEW k \in 1 .. Cardinality(S), j <= k
  PROVE  ~LexLess(key[Nth(S, key, k)], key[Nth(S, key, j)])
<1> DEFINE x == Nth(S, key, j)
           y == Nth(S, key, k)
<1>1. x \in S /\ y \in S /\ Rank(S, key, x) = j - 1 /\ Rank(S, key, y) = k - 1
  BY NthIs
<1> HIDE DEF x, y
<1>2. Cardinality(S) \in Nat
  BY FS_CardinalityType DEF Keyed
<1>3. Rank(S, key, x) <= Rank(S, key, y)
  BY <1>1, <1>2
<1>4. ~LexLess(key[y], key[x])
  BY <1>1, <1>3, RankOrders
<1> QED BY <1>4 DEF x, y

(* Pairs of a number and an id.                                            *)
LEMMA PairsAre ==
  ASSUME NEW a \in Int, NEW b \in Int, NEW c \in Int, NEW d \in Int
  PROVE  /\ <<a, b>> \in Tuples(2)
         /\ <<a, b>> = <<c, d>> <=> a = c /\ b = d
         /\ LexLess(<<a, b>>, <<c, d>>) <=> a < c \/ (a = c /\ b < d)
<1>1. Len(<<a, b>>) = 2 /\ 1 .. 1 - 1 = {} /\ 1 .. 2 - 1 = {1} /\ 1 .. 2 = {1, 2}
  OBVIOUS
<1> QED BY <1>1 DEF Tuples, LexLess

LEMMA DivisionIs ==
  ASSUME NEW a \in Int, NEW d \in Int, d > 0
  PROVE  a \div d \in Int /\ d * (a \div d) <= a /\ a < d * (a \div d) + d
OBVIOUS

LEMMA DivisionIsMonotone ==
  ASSUME NEW a \in Int, NEW b \in Int, NEW d \in Int, d > 0, a <= b
  PROVE  a \div d <= b \div d
<1> DEFINE p == a \div d
           q == b \div d
<1>1. p \in Int /\ q \in Int /\ d * p <= a /\ b < d * q + d
  BY DivisionIs
<1> HIDE DEF p, q
<1>2. CASE p > q
  <2>1. p >= q + 1
    BY <1>1, <1>2
  <2>2. d * p >= d * (q + 1)
    BY <1>1, <2>1
  <2>3. d * (q + 1) = d * q + d
    BY <1>1
  <2> QED BY <1>1, <2>2, <2>3
<1>3. CASE p <= q
  BY <1>3 DEF p, q
<1> QED BY <1>1, <1>2, <1>3

LEMMA DimensionsAre ==
  ASSUME NEW e \in Entries, NEW i \in 1 .. 6
  PROVE  Dimensions(e)[i] \in Int
<1>1. {e.id, e.decode, e.prefill, e.context, e.quality, e.trust, e.power} \subseteq Int
  BY EntriesAssumption
<1>2. Efficiency(e) \in Int
  <2>1. CASE e.power <= 0
    BY <2>1 DEF Efficiency
  <2>2. CASE ~(e.power <= 0)
    <3>1. 100 * e.decode \in Int /\ e.power \in Int /\ e.power > 0
      BY <1>1, <2>2
    <3> QED BY <2>2, <3>1, DivisionIs DEF Efficiency
  <2> QED BY <2>1, <2>2
<1>3. i = 1 \/ i = 2 \/ i = 3 \/ i = 4 \/ i = 5 \/ i = 6
  OBVIOUS
<1> QED BY <1>1, <1>2, <1>3 DEF Dimensions

(* The values of a dimension, in order.                                    *)
LEMMA ValuesAre ==
  ASSUME NEW S \in SUBSET Entries, S # {}, NEW i \in 1 .. 6
  PROVE  LET values == DimensionValues(S, i)
         IN  /\ values \in Seq(Int) /\ Len(values) >= 1
             /\ \A j, k \in 1 .. Len(values) : j <= k => values[j] <= values[k]
<1> DEFINE key == [e \in S |-> <<Dimensions(e)[i], e.id>>]
           N   == Cardinality(S)
           values == DimensionValues(S, i)
<1>1. IsFiniteSet(S)
  BY MatchingAssumption, FS_Subset
<1>2. N \in Nat /\ N >= 1
  BY <1>1, FS_CardinalityType, FS_EmptySet
<1>3. \A e \in S : Dimensions(e)[i] \in Int /\ e.id \in Int
  BY DimensionsAre, EntriesAssumption
<1>4. Keyed(S, key, 2)
  BY <1>1, <1>3, PairsAre DEF Keyed
<1>5. \A x, y \in S : key[x] = key[y] => x = y
  BY <1>3, PairsAre, EntriesAssumption
<1>6. values = [j \in 1 .. N |-> Dimensions(Nth(S, key, j))[i]]
  BY DEF DimensionValues
<1>7. \A e \in S : key[e] = <<Dimensions(e)[i], e.id>>
  OBVIOUS
<1> HIDE DEF key, N, values
<1>8. \A j \in 1 .. N : Nth(S, key, j) \in S
  BY <1>4, <1>5, NthIs DEF N
<1>9. values \in Seq(Int) /\ Len(values) = N
  BY <1>2, <1>3, <1>6, <1>8
<1>10. ASSUME NEW j \in 1 .. N, NEW k \in 1 .. N, j <= k
       PROVE  values[j] <= values[k]
  <2> DEFINE x == Nth(S, key, j)
             y == Nth(S, key, k)
  <2>1. ~LexLess(key[y], key[x])
    BY <1>4, <1>5, <1>10, NthOrders DEF N
  <2>2. x \in S /\ y \in S
    BY <1>8
  <2>3. values[j] = Dimensions(x)[i] /\ values[k] = Dimensions(y)[i]
    BY <1>6
  <2> HIDE DEF x, y
  <2>4. ~(Dimensions(y)[i] < Dimensions(x)[i])
    <3> DEFINE u == Dimensions(x)[i]
               v == Dimensions(y)[i]
    <3>1. u \in Int /\ v \in Int /\ x.id \in Int /\ y.id \in Int
      BY <1>3, <2>2
    <3>2. key[x] = <<u, x.id>> /\ key[y] = <<v, y.id>>
      BY <1>7, <2>2
    <3> HIDE DEF u, v
    <3>3. ~LexLess(<<v, y.id>>, <<u, x.id>>)
      BY <2>1, <3>2
    <3>4. ~(v < u)
      BY <3>1, <3>3, PairsAre
    <3> QED BY <3>4 DEF u, v
  <2> QED BY <1>3, <2>2, <2>3, <2>4
<1> QED BY <1>2, <1>9, <1>10 DEF values

LEMMA ScaleIs ==
  ASSUME NEW d \in Int, d >= 0, NEW f \in Int, NEW g \in Int, f <= g
  PROVE  d * f <= d * g
OBVIOUS

(* A percentile lies between the value at its position and the next one.   *)
Interpolates(v, p) ==
  LET r == p * (Len(v) - 1)
      q == r \div 100
      f == r % 100
  IN  /\ q + 1 \in 1 .. Len(v) /\ f \in 0 .. 99 /\ Percentile(v, p) \in Int
      /\ f = 0 => Percentile(v, p) = 100 * v[q + 1]
      /\ f # 0 => /\ q + 2 \in 1 .. Len(v)
                  /\ Percentile(v, p) = 100 * v[q + 1] + (v[q + 2] - v[q + 1]) * f

(* Percentiles of ordered values are ordered.                              *)
LEMMA PercentilesAre ==
  ASSUME NEW v \in Seq(Int), Len(v) >= 1, NEW p \in 0 .. 100,
         \A j, k \in 1 .. Len(v) : j <= k => v[j] <= v[k]
  PROVE  Interpolates(v, p)
<1> DEFINE n == Len(v) - 1
           r == p * n
           q == r \div 100
           f == r % 100
<1>1. n \in Nat /\ Len(v) = n + 1
  OBVIOUS
<1>2. Percentile(v, p) = 100 * v[1 + q] + (v[1 + (r + 99) \div 100] - v[1 + q]) * f
  BY DEF Percentile
<1>3. r \in Int /\ 0 <= r /\ r <= 100 * n
  <2> HIDE DEF n
  <2>1. n * 0 <= n * p /\ n * p <= n * 100 /\ p * n = n * p /\ p \in Int
    BY <1>1, ScaleIs
  <2> QED BY <1>1, <2>1
<1> HIDE DEF r, n
<1>4. q \in Int /\ f \in 0 .. 99 /\ r = 100 * q + f /\ q >= 0
  BY <1>3
<1> HIDE DEF q, f
<1>5. (r + 99) \div 100 = IF f = 0 THEN q ELSE q + 1
  BY <1>3, <1>4
<1>6. q <= n /\ (f # 0 => q + 1 <= n)
  BY <1>1, <1>3, <1>4
<1>7. q + 1 \in 1 .. Len(v) /\ (f # 0 => q + 2 \in 1 .. Len(v)) /\ 1 + q = q + 1
      /\ 1 + (q + 1) = q + 2
  BY <1>1, <1>4, <1>6
<1>8. v[q + 1] \in Int /\ (f # 0 => v[q + 2] \in Int)
  BY <1>7
<1>9. CASE f = 0
  <2>1. Percentile(v, p) = 100 * v[q + 1] + (v[q + 1] - v[q + 1]) * 0
    BY <1>2, <1>5, <1>7, <1>9
  <2>2. Percentile(v, p) = 100 * v[q + 1]
    BY <1>8, <2>1
  <2> QED BY <1>4, <1>7, <1>8, <1>9, <2>2 DEF Interpolates, q, f, r, n
<1>10. CASE f # 0
  <2>1. Percentile(v, p) = 100 * v[q + 1] + (v[q + 2] - v[q + 1]) * f
    BY <1>2, <1>5, <1>7, <1>10
  <2>2. Percentile(v, p) \in Int
    BY <1>4, <1>8, <1>10, <2>1
  <2> QED BY <1>4, <1>7, <1>10, <2>1, <2>2 DEF Interpolates, q, f, r, n
<1> QED BY <1>9, <1>10

LEMMA PercentilesGrow ==
  ASSUME NEW v \in Seq(Int), Len(v) >= 1, NEW p \in 0 .. 100, NEW t \in 0 .. 100, p <= t,
         \A j, k \in 1 .. Len(v) : j <= k => v[j] <= v[k]
  PROVE  Percentile(v, p) <= Percentile(v, t)
<1> DEFINE n == Len(v) - 1
           r == p * n
           s == t * n
           q == r \div 100
           f == r % 100
           h == s \div 100
           g == s % 100
           P == Percentile(v, p)
           T == Percentile(v, t)
<1>1. /\ q + 1 \in 1 .. Len(v) /\ f \in 0 .. 99 /\ P \in Int
      /\ f = 0 => P = 100 * v[q + 1]
      /\ f # 0 => q + 2 \in 1 .. Len(v) /\ P = 100 * v[q + 1] + (v[q + 2] - v[q + 1]) * f
  <2>1. Interpolates(v, p)
    BY PercentilesAre
  <2> QED BY <2>1 DEF Interpolates
<1>2. /\ h + 1 \in 1 .. Len(v) /\ g \in 0 .. 99 /\ T \in Int
      /\ g = 0 => T = 100 * v[h + 1]
      /\ g # 0 => h + 2 \in 1 .. Len(v) /\ T = 100 * v[h + 1] + (v[h + 2] - v[h + 1]) * g
  <2>1. Interpolates(v, t)
    BY PercentilesAre
  <2> QED BY <2>1 DEF Interpolates
<1>3. n \in Nat
  OBVIOUS
<1>4. r \in Int /\ s \in Int /\ r <= s
  <2> HIDE DEF n
  <2>1. n * p <= n * t /\ n * p = p * n /\ n * t = t * n
    BY <1>3, ScaleIs
  <2> QED BY <1>3, <2>1
<1> HIDE DEF n, r, s, P, T
<1>5. q \in Int /\ h \in Int /\ r = 100 * q + f /\ s = 100 * h + g
  BY <1>4
<1> HIDE DEF q, f, h, g
<1>6. q < h \/ (q = h /\ f <= g)
  BY <1>1, <1>2, <1>4, <1>5
<1>7. \A j \in 1 .. Len(v) : v[j] \in Int
  OBVIOUS
<1> DEFINE a == v[q + 1]
           b == v[q + 2]
           c == v[h + 1]
           d == v[h + 2]
<1>8. /\ a \in Int /\ c \in Int /\ (f # 0 => b \in Int /\ b - a >= 0)
      /\ (g # 0 => d \in Int /\ d - c >= 0)
  <2>1. a \in Int /\ c \in Int
    BY <1>1, <1>2, <1>7
  <2>2. f # 0 => b \in Int /\ a <= b
    BY <1>1, <1>5, <1>7
  <2>3. g # 0 => d \in Int /\ c <= d
    BY <1>2, <1>5, <1>7
  <2> QED BY <2>1, <2>2, <2>3
<1>9. q < h => a <= c /\ (f # 0 => b <= c)
  <2> SUFFICES ASSUME q < h PROVE a <= c /\ (f # 0 => b <= c)
    OBVIOUS
  <2>1. q + 1 <= h + 1 /\ q + 2 <= h + 1
    BY <1>5
  <2> QED BY <1>1, <1>2, <2>1
<1>10. q = h => a = c /\ b = d
  OBVIOUS
<1>11. /\ f = 0 => P = 100 * a
       /\ f # 0 => P = 100 * a + (b - a) * f
       /\ g = 0 => T = 100 * c
       /\ g # 0 => T = 100 * c + (d - c) * g
  BY <1>1, <1>2
<1> HIDE DEF a, b, c, d
<1>ranges. f \in 0 .. 99 /\ g \in 0 .. 99 /\ P \in Int /\ T \in Int
  BY <1>1, <1>2
<1>12. f # 0 => (b - a) * f <= (b - a) * 100
  <2> SUFFICES ASSUME f # 0 PROVE (b - a) * f <= (b - a) * 100
    OBVIOUS
  <2>1. b - a \in Int /\ b - a >= 0 /\ f \in Int /\ f <= 100
    BY ONLY <1>8, <1>ranges, f # 0
  <2> QED BY <2>1, ScaleIs
<1>13. g # 0 => (d - c) * g >= 0
  <2> SUFFICES ASSUME g # 0 PROVE (d - c) * g >= 0
    OBVIOUS
  <2>1. d - c \in Int /\ d - c >= 0 /\ g \in Int /\ 0 <= g
    BY ONLY <1>8, <1>ranges, g # 0
  <2>2. (d - c) * 0 <= (d - c) * g
    BY <2>1, ScaleIs
  <2> QED BY <2>1, <2>2
<1>above. 100 * c <= T
  <2>1. CASE g = 0
    BY ONLY <1>8, <1>11, <2>1
  <2>2. CASE g # 0
    <3> DEFINE z == (d - c) * g
    <3>1. T = 100 * c + z /\ z >= 0
      BY ONLY <1>11, <1>13, <2>2
    <3>2. c \in Int /\ z \in Int
      BY ONLY <1>8, <1>ranges, <2>2
    <3> HIDE DEF z
    <3> QED BY ONLY <3>1, <3>2
  <2> QED BY <2>1, <2>2
<1>14. CASE q < h
  <2>1. P <= 100 * c
    <3>1. CASE f = 0
      BY ONLY <1>8, <1>9, <1>11, <1>14, <3>1
    <3>2. CASE f # 0
      <4> DEFINE z == (b - a) * f
      <4>1. P = 100 * a + z /\ z <= (b - a) * 100
        BY ONLY <1>11, <1>12, <3>2
      <4>2. a \in Int /\ b \in Int /\ c \in Int /\ b <= c /\ z \in Int
        BY ONLY <1>8, <1>9, <1>14, <1>ranges, <3>2
      <4> HIDE DEF z
      <4> QED BY ONLY <4>1, <4>2
    <3> QED BY <3>1, <3>2
  <2> QED BY ONLY <1>8, <1>ranges, <1>above, <2>1 DEF P, T
<1>15. CASE q = h /\ f <= g
  <2>1. CASE f = 0
    <3>1. P = 100 * c
      BY ONLY <1>10, <1>11, <1>15, <2>1
    <3> QED BY <1>above, <3>1 DEF P, T
  <2>2. CASE f # 0
    <3>1. g # 0
      <4>1. f \in Nat /\ g \in Nat
        BY ONLY <1>ranges
      <4> QED BY ONLY <1>15, <2>2, <4>1
    <3>2. d - c \in Int /\ d - c >= 0 /\ f \in Int /\ g \in Int
      BY ONLY <1>8, <1>ranges, <3>1
    <3>3. (d - c) * f <= (d - c) * g
      BY <1>15, <3>2, ScaleIs
    <3>4. P = 100 * c + (d - c) * f /\ T = 100 * c + (d - c) * g
      BY <1>10, <1>11, <1>15, <2>2, <3>1
    <3>5. (d - c) * f \in Int /\ (d - c) * g \in Int /\ 100 * c \in Int
      BY <1>8, <3>2
    <3>6. P <= T
      BY <3>3, <3>4, <3>5
    <3> QED BY <3>6 DEF P, T
  <2> QED BY <2>1, <2>2
<1> QED BY <1>6, <1>14, <1>15

LEMMA RangesAre ==
  ASSUME NEW x \in Int, NEW y \in Int, x <= y, NEW p \in Int, NEW t \in Int, p <= t
  PROVE  /\ RobustMinMax(x, p, t) \in Int /\ RobustMinMax(y, p, t) \in Int
         /\ RobustMinMax(x, p, t) <= RobustMinMax(y, p, t)
<1>1. CASE t = p
  BY <1>1 DEF RobustMinMax
<1>2. CASE t # p
  <2> DEFINE a == 1000 * (100 * x - p)
             b == 1000 * (100 * y - p)
             d == t - p
             m == a \div d
             w == b \div d
  <2>1. a \in Int /\ b \in Int /\ a <= b /\ d \in Int /\ d > 0
    BY <1>2
  <2>2. /\ RobustMinMax(x, p, t) = IF m < 0 THEN 0 ELSE IF m > 1000 THEN 1000 ELSE m
        /\ RobustMinMax(y, p, t) = IF w < 0 THEN 0 ELSE IF w > 1000 THEN 1000 ELSE w
    BY <1>2 DEF RobustMinMax
  <2> HIDE DEF a, b, d
  <2>3. m \in Int /\ w \in Int /\ m <= w
    BY <2>1, DivisionIs, DivisionIsMonotone
  <2> HIDE DEF m, w
  <2> QED BY <2>2, <2>3
<1> QED BY <1>1, <1>2

(* What one dimension contributes to a score.                              *)
Share(e, ranked, i) ==
  LET values == DimensionValues(ranked, i)
  IN  Weights[i] * RobustMinMax(Dimensions(e)[i], Percentile(values, 5), Percentile(values, 95))

LEMMA SharesAre ==
  ASSUME NEW S \in SUBSET Entries, NEW a \in S, NEW b \in S, NEW i \in 1 .. 6,
         Dimensions(a)[i] >= Dimensions(b)[i]
  PROVE  /\ Share(a, S, i) \in Int /\ Share(b, S, i) \in Int
         /\ Share(b, S, i) <= Share(a, S, i)
<1> DEFINE values == DimensionValues(S, i)
           p == Percentile(values, 5)
           t == Percentile(values, 95)
           x == Dimensions(b)[i]
           y == Dimensions(a)[i]
           l == RobustMinMax(x, p, t)
           u == RobustMinMax(y, p, t)
           w == Weights[i]
<1>1. /\ values \in Seq(Int) /\ Len(values) >= 1
      /\ \A j, k \in 1 .. Len(values) : j <= k => values[j] <= values[k]
  BY ValuesAre
<1>2. x \in Int /\ y \in Int /\ x <= y
  BY DimensionsAre
<1>3. w \in Int /\ w >= 0
  <2>1. i = 1 \/ i = 2 \/ i = 3 \/ i = 4 \/ i = 5 \/ i = 6
    OBVIOUS
  <2> QED BY <2>1 DEF Weights
<1>4. Share(a, S, i) = w * u /\ Share(b, S, i) = w * l
  BY DEF Share
<1> HIDE DEF values, x, y, w
<1>5. p \in Int /\ t \in Int /\ p <= t
  <2>1. 5 \in 0 .. 100 /\ 95 \in 0 .. 100 /\ 5 <= 95
    OBVIOUS
  <2>2. Interpolates(values, 5) /\ Interpolates(values, 95)
    BY <1>1, <2>1, PercentilesAre
  <2>3. p \in Int /\ t \in Int
    BY <2>2 DEF Interpolates
  <2>4. p <= t
    BY <1>1, <2>1, PercentilesGrow
  <2> QED BY <2>3, <2>4
<1> HIDE DEF p, t
<1>6. l \in Int /\ u \in Int /\ l <= u
  BY <1>2, <1>5, RangesAre
<1> HIDE DEF l, u
<1>7. w * l <= w * u
  BY <1>3, <1>6, ScaleIs
<1> QED BY <1>3, <1>4, <1>6, <1>7

LEMMA ScoresAre ==
  ASSUME NEW S \in SUBSET Entries, NEW a \in S, NEW b \in S, NotWorse(a, b)
  PROVE  RankScore(a, S) >= RankScore(b, S)
<1>1. \A i \in 1 .. 6 : /\ Share(a, S, i) \in Int /\ Share(b, S, i) \in Int
                        /\ Share(b, S, i) <= Share(a, S, i)
  BY SharesAre DEF NotWorse
<1>2. \A e : RankScore(e, S) = Share(e, S, 1) + Share(e, S, 2) + Share(e, S, 3)
                                 + Share(e, S, 4) + Share(e, S, 5) + Share(e, S, 6)
  BY DEF RankScore, Share
<1>3. 1 \in 1 .. 6 /\ 2 \in 1 .. 6 /\ 3 \in 1 .. 6 /\ 4 \in 1 .. 6 /\ 5 \in 1 .. 6 /\ 6 \in 1 .. 6
  OBVIOUS
<1>4. /\ Share(a, S, 1) \in Int /\ Share(b, S, 1) \in Int /\ Share(b, S, 1) <= Share(a, S, 1)
      /\ Share(a, S, 2) \in Int /\ Share(b, S, 2) \in Int /\ Share(b, S, 2) <= Share(a, S, 2)
      /\ Share(a, S, 3) \in Int /\ Share(b, S, 3) \in Int /\ Share(b, S, 3) <= Share(a, S, 3)
      /\ Share(a, S, 4) \in Int /\ Share(b, S, 4) \in Int /\ Share(b, S, 4) <= Share(a, S, 4)
      /\ Share(a, S, 5) \in Int /\ Share(b, S, 5) \in Int /\ Share(b, S, 5) <= Share(a, S, 5)
      /\ Share(a, S, 6) \in Int /\ Share(b, S, 6) \in Int /\ Share(b, S, 6) <= Share(a, S, 6)
  BY <1>1, <1>3
<1> QED BY <1>2, <1>4

(* A place on the leaderboard depends on the visible runs alone, and a run *)
(* that is as good in every dimension never scores lower, for any number   *)
(* of runs and any filter.                                                 *)
THEOREM RankingStaysFair == Spec => []RankingIsFair
<1>1. ASSUME TypeOK
      PROVE  RankingIsFair
  <2>1. BetterRanksHigher
    <3>1. \A filter : Ranked(board, filter) \in SUBSET Entries
      BY <1>1 DEF TypeOK, Ranked
    <3> QED BY <3>1, ScoresAre DEF BetterRanksHigher
  <2>2. ASSUME NEW filter, NEW e \in board, ~(e.source /\ PlaceFeasible(e))
        PROVE  Page(board, filter, 2, 0) = Page(board \ {e}, filter, 2, 0)
    <3>1. Ranked(board, filter) = Ranked(board \ {e}, filter)
      BY <2>2 DEF Ranked, Wanted
    <3> QED BY <3>1 DEF Page
  <2>3. HiddenIsInert
    BY <2>2 DEF HiddenIsInert
  <2> QED BY <2>1, <2>3 DEF RankingIsFair
<1> QED BY <1>1, TypeCorrect, PTL

-----------------------------------------------------------------------------
(* What is answered from the pool                                          *)

LEMMA MediansAre ==
  ASSUME NEW S \in SUBSET Runs, S # {}, NEW value, \A r \in S : value[r] \in Int
  PROVE  Median(S, value) \in Int
<1> DEFINE key == [r \in S |-> <<value[r], r.id>>]
           n   == Cardinality(S)
           i   == (n + 1) \div 2
           k   == (n + 2) \div 2
<1>1. IsFiniteSet(S)
  BY MatchingAssumption, FS_Subset
<1>2. n \in Nat /\ n >= 1
  BY <1>1, FS_CardinalityType, FS_EmptySet
<1>3. \A r \in S : r.id \in Int
  BY EvidenceAssumption
<1>4. Keyed(S, key, 2)
  BY <1>1, <1>3, PairsAre DEF Keyed
<1>5. \A x, y \in S : key[x] = key[y] => x = y
  BY <1>3, PairsAre, EvidenceAssumption
<1>6. Median(S, value) = 50 * (value[Nth(S, key, i)] + value[Nth(S, key, k)])
  BY DEF Median
<1> HIDE DEF key
<1>7. i \in 1 .. n /\ k \in 1 .. n
  <2> HIDE DEF n
  <2> QED BY <1>2
<1>8. Nth(S, key, i) \in S /\ Nth(S, key, k) \in S
  <2> HIDE DEF i, k
  <2> QED BY <1>4, <1>5, <1>7, NthIs
<1> HIDE DEF i, k
<1> QED BY <1>6, <1>8

LEMMA CellMediansAre ==
  ASSUME NEW S \in SUBSET Runs, S # {}
  PROVE  CellMedian(S) \in Int
<1> DEFINE value == [r \in S |-> r.tok]
<1>1. \A r \in S : value[r] \in Int
  BY EvidenceAssumption
<1>2. CellMedian(S) = Median(S, value)
  BY DEF CellMedian
<1> HIDE DEF value
<1> QED BY <1>1, <1>2, MediansAre

(* A speed is extrapolated from one rig.                                   *)
LEMMA OneSource ==
  ASSUME NEW A, A \subseteq Runs, NEW g, NEW m, NEW b,
         NEW x \in Source(A, PoolRigs(A, Rigs), g, m, b),
         NEW y \in Source(A, PoolRigs(A, Rigs), g, m, b)
  PROVE  x = y
<1> DEFINE G == PoolRigs(A, Rigs)
           O == Others(A, G, g, m, b)
           key == [o \in O |-> <<-Cardinality(Cell(A, o, m, b)), o.key>>]
<1>1. Source(A, G, g, m, b) = FirstK(O, key, 1)
  BY DEF Source, Others
<1>2. O \subseteq Rigs /\ IsFiniteSet(O)
  BY MatchingAssumption, FS_Subset DEF Others, PoolRigs
<1>3. \A o \in O : o.key \in Int /\ -Cardinality(Cell(A, o, m, b)) \in Int
  <2> TAKE o \in O
  <2>1. Cardinality(Cell(A, o, m, b)) \in Nat
    BY CellsAre
  <2>2. o.key \in Int
    BY <1>2, EvidenceAssumption
  <2> QED BY <2>1, <2>2
<1>4. Keyed(O, key, 2)
  BY <1>2, <1>3, PairsAre DEF Keyed
<1>5. \A o, p \in O : key[o] = key[p] => o = p
  BY <1>2, <1>3, PairsAre, EvidenceAssumption
<1> HIDE DEF O, key
<1>6. x \in O /\ y \in O /\ Rank(O, key, x) < 1 /\ Rank(O, key, y) < 1
  BY <1>1, FirstKIs
<1>7. Rank(O, key, x) = 0 /\ Rank(O, key, y) = 0
  BY <1>4, <1>6, RankIs
<1>8. ~LexLess(key[x], key[y]) /\ ~LexLess(key[y], key[x])
  BY <1>4, <1>6, <1>7, RankOrders
<1> QED BY <1>4, <1>5, <1>6, <1>8, LexTotal DEF Keyed

Estimates == [value : Int, n : Nat, basis : Bases]

(* There is one estimate at most, it is a number, and it rests on a run.   *)
LEMMA EstimatesTyped ==
  ASSUME NEW A, A \subseteq Runs, NEW g \in Rigs, NEW m, NEW b
  PROVE  LET E == Estimate(A, PoolRigs(A, Rigs), g, m, b)
         IN  /\ E \subseteq Estimates
             /\ \A d, e \in E : d = e
             /\ E # {} => \E r \in A : r.model = m.slug /\ r.bits = b
<1> DEFINE own == Cell(A, g, m, b)
           G   == PoolRigs(A, Rigs)
           E   == Estimate(A, G, g, m, b)
           from == IF g.bw = None THEN {} ELSE Source(A, G, g, m, b)
<1>1. CASE own # {}
  <2> DEFINE x == IF Cardinality(own) >= 3 THEN "measured" ELSE "reported"
             v == CellMedian(own)
             n == Cardinality(own)
             y == [value |-> v, n |-> n, basis |-> x]
  <2>1. E = {y}
    BY <1>1 DEF Estimate, MinRunsMeasured
  <2>2. v \in Int
    BY <1>1, CellMediansAre DEF Cell
  <2>3. n \in Nat
    BY CellsAre
  <2>4. x \in Bases
    BY DEF Bases
  <2> HIDE DEF v, n, x
  <2>5. y \in Estimates
    BY <2>2, <2>3, <2>4 DEF Estimates
  <2>6. \E r \in A : r.model = m.slug /\ r.bits = b
    BY <1>1 DEF Cell
  <2> HIDE DEF y, E
  <2> QED BY <2>1, <2>5, <2>6 DEF E
<1>2. CASE own = {}
  <2> DEFINE of(o) == [value |-> (2 * CellMedian(Cell(A, o, m, b)) * g.bw + o.bw) \div (2 * o.bw),
                       n |-> Cardinality(Cell(A, o, m, b)), basis |-> "extrapolated"]
  <2>1. E = {of(o) : o \in from}
    BY <1>2 DEF Estimate
  <2>2. from \subseteq Others(A, G, g, m, b) /\ \A p, q \in from : p = q
    BY SourcesAre, OneSource
  <2>3. ASSUME NEW o \in from
        PROVE  of(o) \in Estimates
    <3>1. o \in Rigs /\ o.bw # None /\ Cell(A, o, m, b) # {} /\ g.bw # None
      BY <2>2 DEF Others, PoolRigs
    <3>2. o.bw \in Nat \ {0} /\ g.bw \in Nat \ {0}
      BY <3>1, EvidenceAssumption
    <3> DEFINE c == CellMedian(Cell(A, o, m, b))
               v == (2 * c * g.bw + o.bw) \div (2 * o.bw)
               n == Cardinality(Cell(A, o, m, b))
    <3>3. c \in Int
      BY <3>1, CellMediansAre DEF Cell
    <3>4. n \in Nat
      BY CellsAre
    <3>5. v \in Int
      <4> HIDE DEF c
      <4>1. 2 * c * g.bw + o.bw \in Int /\ 2 * o.bw \in Int /\ 2 * o.bw > 0
        BY <3>2, <3>3
      <4> QED BY <4>1, DivisionIs
    <3> HIDE DEF v, n
    <3>6. [value |-> v, n |-> n, basis |-> "extrapolated"] \in Estimates
      BY <3>4, <3>5 DEF Estimates, Bases
    <3> QED BY <3>6 DEF v, n
  <2>4. ASSUME E # {}
        PROVE  \E r \in A : r.model = m.slug /\ r.bits = b
    <3>1. PICK o \in from : TRUE
      BY <2>1, <2>4
    <3>2. Cell(A, o, m, b) # {}
      BY <2>2, <3>1 DEF Others
    <3> QED BY <3>2 DEF Cell
  <2>5. E \subseteq Estimates /\ \A d, e \in E : d = e
    <3> HIDE DEF of, E, from
    <3> QED BY <2>1, <2>2, <2>3
  <2> QED BY <2>4, <2>5
<1> QED BY <1>1, <1>2

Ranking == [slug : Int, bits : Int, est : Estimates, fit : Fitting]

(* The picks of one model: one for each size there are runs of.            *)
IsPick(A, g, m, c) ==
  /\ c \in Ranking /\ c.slug = m.slug
  /\ c.est \in Estimate(A, PoolRigs(A, Rigs), g, m, c.bits)
  /\ c.fit = FitClass(A, g, m, c.bits) /\ c.fit \in Fitting
  /\ \E r \in A : r.model = m.slug /\ r.bits = c.bits

LEMMA CandidatesAre ==
  ASSUME NEW A, A \subseteq Runs, NEW g \in Rigs, NEW m \in PoolModels,
         NEW c \in PickCandidates(A, Rigs, g, m)
  PROVE  IsPick(A, g, m, c)
<1>1. PICK b \in {r.bits : r \in {x \in A : x.model = m.slug}} :
        \E e \in Estimate(A, PoolRigs(A, Rigs), g, m, b) :
          /\ FitClass(A, g, m, b) \in Fitting
          /\ c = [slug |-> m.slug, bits |-> b, est |-> e, fit |-> FitClass(A, g, m, b)]
  BY DEF PickCandidates
<1>2. PICK e \in Estimate(A, PoolRigs(A, Rigs), g, m, b) :
        /\ FitClass(A, g, m, b) \in Fitting
        /\ c = [slug |-> m.slug, bits |-> b, est |-> e, fit |-> FitClass(A, g, m, b)]
  BY <1>1
<1>3. c.slug = m.slug /\ c.bits = b /\ c.est = e /\ c.fit = FitClass(A, g, m, b)
  BY <1>2
<1>4. PICK r \in A : r.model = m.slug /\ r.bits = b
  BY <1>1
<1>5. m.slug \in Int /\ b \in Int
  BY <1>4, EvidenceAssumption
<1>6. e \in Estimates
  BY <1>2, EstimatesTyped
<1>7. c \in Ranking
  BY <1>2, <1>5, <1>6 DEF Ranking
<1> QED BY <1>2, <1>3, <1>4, <1>7 DEF IsPick

LEMMA OneCandidate ==
  ASSUME NEW A, A \subseteq Runs, NEW g \in Rigs, NEW m \in PoolModels,
         NEW c \in PickCandidates(A, Rigs, g, m), NEW d \in PickCandidates(A, Rigs, g, m),
         c.bits = d.bits
  PROVE  c = d
<1>1. IsPick(A, g, m, c) /\ IsPick(A, g, m, d)
  BY CandidatesAre
<1>2. c.est \in Estimate(A, PoolRigs(A, Rigs), g, m, c.bits)
      /\ d.est \in Estimate(A, PoolRigs(A, Rigs), g, m, c.bits)
  BY <1>1 DEF IsPick
<1>3. c.est = d.est
  BY <1>2, EstimatesTyped
<1>4. c.fit = d.fit /\ c.slug = d.slug
  BY <1>1 DEF IsPick
<1>5. c \in Ranking /\ d \in Ranking
  BY <1>1 DEF IsPick
<1> QED BY <1>3, <1>4, <1>5 DEF Ranking

(* The comparison of picks is the order of their keys.                     *)
LEMMA BetterIsBefore ==
  ASSUME NEW a \in Ranking, NEW b \in Ranking
  PROVE  /\ RankKey(a) \in Tuples(4)
         /\ Better(a, b) <=> LexLess(RankKey(a), RankKey(b))
         /\ RankKey(a) = RankKey(b) => a.slug = b.slug /\ a.bits = b.bits
<1> DEFINE u == BasisWeight[a.est.basis]
           v == BasisWeight[b.est.basis]
           s == a.est.value
           t == b.est.value
<1>1. /\ a.est.basis \in Bases /\ b.est.basis \in Bases /\ s \in Int /\ t \in Int
      /\ a.slug \in Int /\ b.slug \in Int /\ a.bits \in Int /\ b.bits \in Int
  BY DEF Ranking, Estimates
<1>2. u \in Int /\ v \in Int
  BY <1>1, WeightsAre
<1>3. a.est.basis = b.est.basis <=> u = v
  BY <1>1, WeightsAre DEF Bases
<1>4. RankKey(a) = <<-u, -s, a.slug, a.bits>> /\ RankKey(b) = <<-v, -t, b.slug, b.bits>>
  BY DEF RankKey
<1>5. Better(a, b) <=> \/ u > v
                       \/ u = v /\ s > t
                       \/ u = v /\ s = t /\ a.slug < b.slug
                       \/ u = v /\ s = t /\ a.slug = b.slug /\ a.bits < b.bits
  BY <1>3 DEF Better
<1> HIDE DEF u, v, s, t
<1> DEFINE nu == -u
           nv == -v
           ns == -s
           nt == -t
           sa == a.slug
           sb == b.slug
           ba == a.bits
           bb == b.bits
<1>6. /\ nu \in Int /\ nv \in Int /\ ns \in Int /\ nt \in Int
      /\ sa \in Int /\ sb \in Int /\ ba \in Int /\ bb \in Int
      /\ nu < nv <=> u > v
      /\ nu = nv <=> u = v
      /\ ns < nt <=> s > t
      /\ ns = nt <=> s = t
  BY <1>1, <1>2
<1>7. RankKey(a) = <<nu, ns, sa, ba>> /\ RankKey(b) = <<nv, nt, sb, bb>>
  BY <1>4
<1>8. Better(a, b) <=> \/ u > v
                       \/ u = v /\ s > t
                       \/ u = v /\ s = t /\ sa < sb
                       \/ u = v /\ s = t /\ sa = sb /\ ba < bb
  BY <1>5
<1> HIDE DEF nu, nv, ns, nt, sa, sb, ba, bb
<1>9. /\ <<nu, ns, sa, ba>> \in Tuples(4)
      /\ <<nu, ns, sa, ba>> = <<nv, nt, sb, bb>> <=> nu = nv /\ ns = nt /\ sa = sb /\ ba = bb
      /\ LexLess(<<nu, ns, sa, ba>>, <<nv, nt, sb, bb>>) <=>
           \/ nu < nv
           \/ nu = nv /\ ns < nt
           \/ nu = nv /\ ns = nt /\ sa < sb
           \/ nu = nv /\ ns = nt /\ sa = sb /\ ba < bb
  <2>1. /\ nu \in Int /\ nv \in Int /\ ns \in Int /\ nt \in Int
        /\ sa \in Int /\ sb \in Int /\ ba \in Int /\ bb \in Int
    BY <1>6
  <2>2. /\ Len(<<nu, ns, sa, ba>>) = 4 /\ 1 .. 4 = {1, 2, 3, 4} /\ 1 .. 1 - 1 = {}
        /\ 1 .. 2 - 1 = {1} /\ 1 .. 3 - 1 = {1, 2} /\ 1 .. 4 - 1 = {1, 2, 3}
    OBVIOUS
  <2>3. <<nu, ns, sa, ba>> \in Tuples(4)
    BY ONLY <2>1, <2>2 DEF Tuples
  <2>4. <<nu, ns, sa, ba>> = <<nv, nt, sb, bb>> <=> nu = nv /\ ns = nt /\ sa = sb /\ ba = bb
    OBVIOUS
  <2>5. LexLess(<<nu, ns, sa, ba>>, <<nv, nt, sb, bb>>) <=>
          \/ nu < nv
          \/ nu = nv /\ ns < nt
          \/ nu = nv /\ ns = nt /\ sa < sb
          \/ nu = nv /\ ns = nt /\ sa = sb /\ ba < bb
    <3> DEFINE P == <<nu, ns, sa, ba>>
               Q == <<nv, nt, sb, bb>>
    <3>1. /\ P[1] = nu /\ P[2] = ns /\ P[3] = sa /\ P[4] = ba
          /\ Q[1] = nv /\ Q[2] = nt /\ Q[3] = sb /\ Q[4] = bb
      OBVIOUS
    <3>2. Len(P) = 4
      BY <2>2
    <3> HIDE DEF P, Q
    <3>3. LexLess(P, Q) <=> \E i \in {1, 2, 3, 4} : P[i] < Q[i] /\ \A j \in 1 .. i - 1 : P[j] = Q[j]
      BY <2>2, <3>2 DEF LexLess
    <3>4. LexLess(P, Q) <=>
            \/ P[1] < Q[1]
            \/ P[2] < Q[2] /\ P[1] = Q[1]
            \/ P[3] < Q[3] /\ P[1] = Q[1] /\ P[2] = Q[2]
            \/ P[4] < Q[4] /\ P[1] = Q[1] /\ P[2] = Q[2] /\ P[3] = Q[3]
      BY <2>2, <3>3
    <3>5. LexLess(P, Q) <=>
            \/ nu < nv
            \/ nu = nv /\ ns < nt
            \/ nu = nv /\ ns = nt /\ sa < sb
            \/ nu = nv /\ ns = nt /\ sa = sb /\ ba < bb
      BY ONLY <3>1, <3>4
    <3> QED BY <3>5 DEF P, Q
  <2> QED BY <2>3, <2>4, <2>5
<1>10. RankKey(a) \in Tuples(4)
  BY <1>7, <1>9
<1>11. RankKey(a) = RankKey(b) => a.slug = b.slug /\ a.bits = b.bits
  BY <1>7, <1>9 DEF sa, sb, ba, bb
<1>12. Better(a, b) <=> LexLess(RankKey(a), RankKey(b))
  BY <1>6, <1>7, <1>8, <1>9
<1> QED BY <1>10, <1>11, <1>12

LEMMA BetterOrders ==
  ASSUME NEW a \in Ranking, NEW b \in Ranking
  PROVE  /\ ~(Better(a, b) /\ Better(b, a))
         /\ (a.slug # b.slug \/ a.bits # b.bits) => Better(a, b) \/ Better(b, a)
<1>1. RankKey(a) \in Tuples(4) /\ RankKey(b) \in Tuples(4)
      /\ (Better(a, b) <=> LexLess(RankKey(a), RankKey(b)))
      /\ (Better(b, a) <=> LexLess(RankKey(b), RankKey(a)))
      /\ (RankKey(a) = RankKey(b) => a.slug = b.slug /\ a.bits = b.bits)
  BY BetterIsBefore
<1>2. 4 \in Nat
  OBVIOUS
<1>3. ~(LexLess(RankKey(a), RankKey(b)) /\ LexLess(RankKey(b), RankKey(a)))
  BY <1>1, <1>2, LexTransitive, LexIrreflexive
<1>4. RankKey(a) # RankKey(b) => LexLess(RankKey(a), RankKey(b)) \/ LexLess(RankKey(b), RankKey(a))
  BY <1>1, <1>2, LexTotal
<1> QED BY <1>1, <1>3, <1>4

(* The comparison and the sort key are one strict total order.             *)
LEMMA OneOrder ==
  ASSUME TypeOK
  PROVE  RankKeysAgree
<1> SUFFICES ASSUME NEW g \in Rigs, NEW a \in CandidatesOf(g), NEW b \in CandidatesOf(g)
             PROVE  /\ Better(a, b) <=> LexLess(RankKey(a), RankKey(b))
                    /\ a # b => (Better(a, b) <=> ~Better(b, a))
  BY DEF RankKeysAgree
<1>1. PICK m \in PoolModels : a \in PickCandidates(pool, Rigs, g, m)
  BY DEF CandidatesOf
<1>2. PICK n \in PoolModels : b \in PickCandidates(pool, Rigs, g, n)
  BY DEF CandidatesOf
<1>3. pool \subseteq Runs
  BY DEF TypeOK
<1>4. IsPick(pool, g, m, a) /\ IsPick(pool, g, n, b)
  BY <1>1, <1>2, <1>3, CandidatesAre
<1>5. a \in Ranking /\ b \in Ranking /\ a.slug = m.slug /\ b.slug = n.slug
  BY <1>4 DEF IsPick
<1>6. a # b => a.slug # b.slug \/ a.bits # b.bits
  <2>1. a.slug = b.slug => m = n
    BY <1>5, EvidenceAssumption
  <2> QED BY <1>1, <1>2, <1>3, <2>1, OneCandidate
<1> QED BY <1>5, <1>6, BetterIsBefore, BetterOrders

LEMMA CandidatesFinite ==
  ASSUME NEW A, A \subseteq Runs, NEW g \in Rigs, NEW m \in PoolModels
  PROVE  IsFiniteSet(PickCandidates(A, Rigs, g, m))
<1> DEFINE P == PickCandidates(A, Rigs, g, m)
           f == [c \in P |-> CHOOSE r \in A : r.bits = c.bits]
<1>1. \A c \in P : f[c] \in A /\ f[c].bits = c.bits
  <2> TAKE c \in P
  <2>1. IsPick(A, g, m, c)
    BY CandidatesAre
  <2> QED BY <2>1 DEF IsPick
<1>2. \A c, d \in P : c.bits = d.bits => c = d
  BY OneCandidate
<1> HIDE DEF P
<1>3. f \in Injection(P, A)
  BY <1>1, <1>2 DEF Injection, IsInjective
<1>4. IsFiniteSet(A)
  BY MatchingAssumption, FS_Subset
<1> HIDE DEF f
<1>5. IsFiniteSet(P)
  BY <1>3, <1>4, FS_Injection
<1> QED BY <1>5 DEF P

(* The best pick of each model.                                            *)
Best(A, g) ==
  UNION {{c \in PickCandidates(A, Rigs, g, m) :
            \A d \in PickCandidates(A, Rigs, g, m) : d = c \/ Better(c, d)} :
           m \in {x \in PoolModels : \E r \in A : r.model = x.slug}}

LEMMA BestAre ==
  ASSUME NEW A, A \subseteq Runs, NEW g \in Rigs, NEW p \in Best(A, g)
  PROVE  \E m \in PoolModels :
           /\ p \in PickCandidates(A, Rigs, g, m) /\ IsPick(A, g, m, p)
           /\ \A d \in PickCandidates(A, Rigs, g, m) : d = p \/ Better(p, d)
<1>1. PICK m \in PoolModels :
        p \in PickCandidates(A, Rigs, g, m)
        /\ \A d \in PickCandidates(A, Rigs, g, m) : d = p \/ Better(p, d)
  BY DEF Best
<1>2. IsPick(A, g, m, p)
  BY <1>1, CandidatesAre
<1> QED BY <1>1, <1>2

LEMMA OneBest ==
  ASSUME NEW A, A \subseteq Runs, NEW g \in Rigs, NEW p \in Best(A, g), NEW q \in Best(A, g),
         p.slug = q.slug
  PROVE  p = q
<1>1. PICK m \in PoolModels :
        /\ p \in PickCandidates(A, Rigs, g, m) /\ IsPick(A, g, m, p)
        /\ \A d \in PickCandidates(A, Rigs, g, m) : d = p \/ Better(p, d)
  BY BestAre
<1>2. PICK n \in PoolModels :
        /\ q \in PickCandidates(A, Rigs, g, n) /\ IsPick(A, g, n, q)
        /\ \A d \in PickCandidates(A, Rigs, g, n) : d = q \/ Better(q, d)
  BY BestAre
<1>3. p.slug = m.slug /\ q.slug = n.slug /\ p \in Ranking /\ q \in Ranking
  BY <1>1, <1>2 DEF IsPick
<1>4. m = n
  BY <1>3, EvidenceAssumption
<1> QED BY <1>1, <1>2, <1>3, <1>4, BetterOrders

(* The list of all picks is the best pick of each model.                   *)
LEMMA AllPicks ==
  ASSUME NEW A, A \subseteq Runs, NEW g \in Rigs
  PROVE  TopPicks(A, Rigs, g, PoolModels, All) = Best(A, g)
<1> DEFINE B == Best(A, g)
           key == [p \in B |-> RankKey(p)]
           f == [p \in B |-> CHOOSE m \in PoolModels : m.slug = p.slug]
<1>1. TopPicks(A, Rigs, g, PoolModels, All) = FirstK(B, key, All)
  BY DEF TopPicks, Best
<1>2. \A p \in B : f[p] \in PoolModels /\ f[p].slug = p.slug /\ p \in Ranking
  <2> TAKE p \in B
  <2>1. PICK m \in PoolModels : IsPick(A, g, m, p)
    BY BestAre
  <2>2. p.slug = m.slug /\ p \in Ranking
    BY <2>1 DEF IsPick
  <2> QED BY <2>2
<1>3. \A p, q \in B : p.slug = q.slug => p = q
  BY OneBest
<1>4. \A p \in B : p \in Ranking
  BY <1>2
<1> HIDE DEF B
<1>5. f \in Injection(B, PoolModels)
  BY <1>2, <1>3 DEF Injection, IsInjective
<1> HIDE DEF f
<1>6. IsFiniteSet(B) /\ Cardinality(B) <= Cardinality(PoolModels)
  BY <1>5, MatchingAssumption, FS_Injection
<1>7. Cardinality(B) \in Nat /\ Cardinality(PoolModels) \in Nat /\ Cardinality(Rigs) \in Nat
  BY <1>6, MatchingAssumption, FS_CardinalityType
<1>8. All \in Int /\ Cardinality(B) <= All
  BY <1>6, <1>7 DEF All
<1>9. Keyed(B, key, 4)
  BY <1>4, <1>6, BetterIsBefore DEF Keyed
<1> HIDE DEF key
<1>10. FirstK(B, key, All) = B
  BY <1>8, <1>9, CutsOfAll
<1> QED BY <1>1, <1>10 DEF B

LEMMA BestIsThere ==
  ASSUME NEW A, A \subseteq Runs, NEW g \in Rigs, NEW m \in PoolModels,
         NEW c \in PickCandidates(A, Rigs, g, m)
  PROVE  \E p \in Best(A, g) : p.slug = m.slug /\ ~Better(c, p)
<1> DEFINE P == PickCandidates(A, Rigs, g, m)
           key == [d \in P |-> RankKey(d)]
<1>1. IsFiniteSet(P) /\ \A d \in P : d \in Ranking /\ d.slug = m.slug
  <2>1. \A d \in P : IsPick(A, g, m, d)
    BY CandidatesAre
  <2>2. IsFiniteSet(P)
    BY CandidatesFinite
  <2> HIDE DEF P
  <2> QED BY <2>1, <2>2 DEF IsPick
<1>2. Keyed(P, key, 4)
  <2> HIDE DEF P
  <2> QED BY <1>1, BetterIsBefore DEF Keyed
<1>3. PICK p \in P : \A d \in P : ~LexLess(key[d], key[p])
  <2> HIDE DEF P, key
  <2>1. P # {}
    BY DEF P
  <2> QED BY <1>2, <2>1, SomethingIsFirst
<1>4. \A d \in P : ~Better(d, p)
  BY <1>1, <1>3, BetterIsBefore
<1>5. \A d \in P : d.bits = p.bits => d = p
  BY <1>3, OneCandidate
<1>6. \A d \in P : d = p \/ Better(p, d)
  BY <1>1, <1>3, <1>4, <1>5, BetterOrders
<1>7. \E r \in A : r.model = m.slug
  <2>1. IsPick(A, g, m, c)
    BY CandidatesAre
  <2> QED BY <2>1 DEF IsPick
<1>8. p \in Best(A, g)
  BY <1>3, <1>6, <1>7 DEF Best
<1> QED BY <1>1, <1>3, <1>4, <1>8

(* The list of all hardware for a model.                                   *)
Listed(A, m, b) ==
  {g \in PoolRigs(A, Rigs) : Cell(A, g, m, b) # {} \/ FitClass(A, g, m, b) \in Fitting}

Answer(A, m, b, g) ==
  [key |-> g.key, fit |-> FitClass(A, g, m, b), est |-> Estimate(A, PoolRigs(A, Rigs), g, m, b)]

LEMMA TriplesAre ==
  ASSUME NEW a \in Int, NEW b \in Int, NEW c \in Int
  PROVE  <<a, b, c>> \in Tuples(3)
BY DEF Tuples

LEMMA HardwareKeysAre ==
  ASSUME NEW A, A \subseteq Runs, NEW m, NEW b, NEW g \in Rigs
  PROVE  HardwareKey(Answer(A, m, b, g)) \in Tuples(3)
<1> DEFINE E == Estimate(A, PoolRigs(A, Rigs), g, m, b)
           u == IF E = {} THEN 0 ELSE BasisWeight[(CHOOSE e \in E : TRUE).basis]
           v == IF E = {} THEN 0 ELSE (CHOOSE e \in E : TRUE).value
<1>1. E \subseteq Estimates
  BY EstimatesTyped
<1>2. HardwareKey(Answer(A, m, b, g)) = <<-u, -v, g.key>>
  BY DEF HardwareKey, Answer
<1> HIDE DEF E
<1>3. u \in Int /\ v \in Int
  <2>1. CASE E = {}
    BY <2>1
  <2>2. CASE E # {}
    <3> DEFINE e == CHOOSE x \in E : TRUE
    <3>1. e \in Estimates
      BY <1>1, <2>2
    <3>2. e.basis \in Bases /\ e.value \in Int
      BY <3>1 DEF Estimates
    <3>3. u = BasisWeight[e.basis] /\ v = e.value
      BY <2>2
    <3> HIDE DEF e, u, v
    <3> QED BY <3>2, <3>3, WeightsAre
  <2> QED BY <2>1, <2>2
<1>4. g.key \in Int
  BY EvidenceAssumption
<1> HIDE DEF u, v
<1>5. -u \in Int /\ -v \in Int
  BY <1>3
<1> QED BY <1>2, <1>4, <1>5, TriplesAre

LEMMA AllHardware ==
  ASSUME NEW A, A \subseteq Runs, NEW m, NEW b
  PROVE  ModelToHardware(A, Rigs, m, b, All) = {Answer(A, m, b, g) : g \in Listed(A, m, b)}
<1> DEFINE H == {Answer(A, m, b, g) : g \in Listed(A, m, b)}
           key == [h \in H |-> HardwareKey(h)]
           f == [h \in H |-> CHOOSE g \in Rigs : h = Answer(A, m, b, g)]
<1>1. ModelToHardware(A, Rigs, m, b, All) = FirstK(H, key, All)
  BY DEF ModelToHardware, Answer, Listed
<1>2. \A h \in H : \E g \in Rigs : h = Answer(A, m, b, g)
  BY DEF Listed, PoolRigs
<1> HIDE DEF H
<1>3. f \in Injection(H, Rigs)
  BY <1>2 DEF Injection, IsInjective
<1> HIDE DEF f
<1>4. IsFiniteSet(H) /\ Cardinality(H) <= Cardinality(Rigs)
  BY <1>3, MatchingAssumption, FS_Injection
<1>5. Cardinality(H) \in Nat /\ Cardinality(PoolModels) \in Nat /\ Cardinality(Rigs) \in Nat
  BY <1>4, MatchingAssumption, FS_CardinalityType
<1>6. All \in Int /\ Cardinality(H) <= All
  BY <1>4, <1>5 DEF All
<1>7. Keyed(H, key, 3)
  BY <1>2, <1>4, HardwareKeysAre DEF Keyed
<1> HIDE DEF key
<1>8. FirstK(H, key, All) = H
  BY <1>6, <1>7, CutsOfAll
<1> QED BY <1>1, <1>8 DEF H

(* The two questions of the pool API agree.                                *)
LEMMA BothWays ==
  ASSUME TypeOK
  PROVE  BothWaysAgree
<1>0. pool \subseteq Runs
  BY DEF TypeOK
<1> SUFFICES ASSUME NEW g \in PoolRigs(pool, Rigs), NEW m \in PoolModels
             PROVE  LET picks == {p \in TopPicks(pool, Rigs, g, PoolModels, All) :
                                    p.slug = m.slug}
                    IN  /\ \A p \in picks :
                             \E h \in ModelToHardware(pool, Rigs, m, p.bits, All) :
                               h.key = g.key /\ h.fit = p.fit /\ h.est = {p.est}
                        /\ \A b \in {r.bits : r \in pool} :
                             \A h \in ModelToHardware(pool, Rigs, m, b, All) :
                               h.key = g.key /\ h.fit \in Fitting =>
                                 \A e \in h.est : \E p \in picks :
                                   ~Better([slug |-> m.slug, bits |-> b,
                                            est |-> e, fit |-> h.fit], p)
  BY DEF BothWaysAgree
<1>1. g \in Rigs
  BY DEF PoolRigs
<1> DEFINE picks == {p \in Best(pool, g) : p.slug = m.slug}
<1>2. TopPicks(pool, Rigs, g, PoolModels, All) = Best(pool, g)
  BY <1>0, <1>1, AllPicks
<1>3. ASSUME NEW p \in picks
      PROVE  \E h \in ModelToHardware(pool, Rigs, m, p.bits, All) :
               h.key = g.key /\ h.fit = p.fit /\ h.est = {p.est}
  <2>1. PICK n \in PoolModels : IsPick(pool, g, n, p)
    BY <1>0, <1>1, BestAre
  <2>2. n = m
    BY <2>1, EvidenceAssumption DEF IsPick
  <2>3. /\ p.fit = FitClass(pool, g, m, p.bits) /\ p.fit \in Fitting
        /\ p.est \in Estimate(pool, PoolRigs(pool, Rigs), g, m, p.bits)
    BY <2>1, <2>2 DEF IsPick
  <2>4. Estimate(pool, PoolRigs(pool, Rigs), g, m, p.bits) = {p.est}
    BY <1>0, <1>1, <2>3, EstimatesTyped
  <2>5. g \in Listed(pool, m, p.bits)
    BY <2>3 DEF Listed
  <2>6. Answer(pool, m, p.bits, g) \in ModelToHardware(pool, Rigs, m, p.bits, All)
    BY <1>0, <2>5, AllHardware
  <2> QED BY <2>3, <2>4, <2>6 DEF Answer
<1>4. ASSUME NEW b, NEW h \in ModelToHardware(pool, Rigs, m, b, All),
             h.key = g.key, h.fit \in Fitting, NEW e \in h.est
      PROVE  \E p \in picks :
               ~Better([slug |-> m.slug, bits |-> b, est |-> e, fit |-> h.fit], p)
  <2>1. PICK o \in Listed(pool, m, b) : h = Answer(pool, m, b, o)
    BY <1>0, AllHardware
  <2>2. o = g
    BY <1>1, <1>4, <2>1, EvidenceAssumption DEF Listed, PoolRigs, Answer
  <2>3. h.fit = FitClass(pool, g, m, b) /\ e \in Estimate(pool, PoolRigs(pool, Rigs), g, m, b)
    BY <2>1, <2>2 DEF Answer
  <2>4. \E r \in pool : r.model = m.slug /\ r.bits = b
    BY <1>0, <1>1, <2>3, EstimatesTyped
  <2> DEFINE c == [slug |-> m.slug, bits |-> b, est |-> e, fit |-> FitClass(pool, g, m, b)]
  <2>5. c \in PickCandidates(pool, Rigs, g, m)
    BY <1>4, <2>3, <2>4 DEF PickCandidates
  <2>6. \E p \in Best(pool, g) : p.slug = m.slug /\ ~Better(c, p)
    BY <1>0, <1>1, <2>5, BestIsThere
  <2> QED BY <2>3, <2>6
<1> QED BY <1>2, <1>3, <1>4

(* What model_pick picks from.                                             *)
IsCell(A, gpu, c) ==
  /\ c.model \in PoolModels /\ c.runs = Cell(A, gpu, c.model, c.bits)
  /\ c.runs # {} /\ c.runs \subseteq Runs
  /\ \E r \in A : r.bits = c.bits
  /\ c = [model |-> c.model, bits |-> c.bits, runs |-> c.runs]

LEMMA CellsOfPicks ==
  ASSUME NEW A, A \subseteq Runs, NEW gpu, NEW category, NEW vram,
         NEW c \in PickCells(A, PoolModels, gpu, category, vram)
  PROVE  IsCell(A, gpu, c)
<1>1. \E m \in PoolModels, b \in {r.bits : r \in A} :
        /\ c = [model |-> m, bits |-> b, runs |-> Cell(A, gpu, m, b)]
        /\ Peaks(c.runs) # {}
  BY DEF PickCells
<1>2. PICK m \in PoolModels, b \in {r.bits : r \in A} :
        /\ c = [model |-> m, bits |-> b, runs |-> Cell(A, gpu, m, b)]
        /\ Peaks(c.runs) # {}
  BY <1>1
<1>3. c.model = m /\ c.bits = b /\ c.runs = Cell(A, gpu, m, b)
  BY <1>2
<1>4. c.runs # {}
  BY <1>2 DEF Peaks
<1>5. c.runs \subseteq Runs
  BY <1>3 DEF Cell
<1>6. \E r \in A : r.bits = b
  OBVIOUS
<1> QED BY <1>2, <1>3, <1>4, <1>5, <1>6 DEF IsCell

LEMMA PickCellsFinite ==
  ASSUME NEW A, A \subseteq Runs, NEW gpu, NEW category, NEW vram
  PROVE  IsFiniteSet(PickCells(A, PoolModels, gpu, category, vram))
<1> DEFINE P == PickCells(A, PoolModels, gpu, category, vram)
           T == PoolModels \X A
           f == [c \in P |-> <<c.model, CHOOSE r \in A : r.bits = c.bits>>]
<1>1. \A c \in P : IsCell(A, gpu, c)
  BY CellsOfPicks
<1>2. \A c \in P : /\ f[c] = <<c.model, CHOOSE r \in A : r.bits = c.bits>>
                   /\ f[c] \in T
                   /\ f[c][1] = c.model /\ f[c][2].bits = c.bits
  <2> TAKE c \in P
  <2>1. PICK r \in A : r.bits = c.bits
    BY <1>1 DEF IsCell
  <2> DEFINE s == CHOOSE x \in A : x.bits = c.bits
  <2>2. s \in A /\ s.bits = c.bits
    BY <2>1
  <2>3. c.model \in PoolModels
    BY <1>1 DEF IsCell
  <2>4. f[c] = <<c.model, s>>
    OBVIOUS
  <2> HIDE DEF s, f, P
  <2>5. f[c] \in T /\ f[c][1] = c.model /\ f[c][2] = s
    BY <2>2, <2>3, <2>4
  <2> QED BY <2>2, <2>4, <2>5 DEF s
<1>3. \A c, d \in P : c.model = d.model /\ c.bits = d.bits => c = d
  <2> HIDE DEF P
  <2> TAKE c, d \in P
  <2> HAVE c.model = d.model /\ c.bits = d.bits
  <2>1. c.runs = d.runs
    BY <1>1 DEF IsCell
  <2>2. c = [model |-> c.model, bits |-> c.bits, runs |-> c.runs]
    BY <1>1 DEF IsCell
  <2>3. d = [model |-> d.model, bits |-> d.bits, runs |-> d.runs]
    BY <1>1 DEF IsCell
  <2> QED BY <2>1, <2>2, <2>3
<1>4. f \in [P -> T]
  BY <1>2
<1>5. \A c, d \in P : f[c] = f[d] => c = d
  <2> HIDE DEF f, P
  <2> QED BY <1>2, <1>3
<1>6. f \in Injection(P, T)
  <2> HIDE DEF f, P, T
  <2> QED BY <1>4, <1>5 DEF Injection, IsInjective
<1>7. IsFiniteSet(T)
  <2>1. IsFiniteSet(A)
    BY MatchingAssumption, FS_Subset
  <2> QED BY <2>1, MatchingAssumption, FS_Product
<1> HIDE DEF f, P, T
<1>8. IsFiniteSet(P)
  BY <1>6, <1>7, FS_Injection
<1> QED BY <1>8 DEF P

Score(c) == IF c.model.eval = None THEN 0 ELSE -c.model.eval
Unscored(c) == IF c.model.eval = None THEN 1 ELSE 0

LEMMA PickKeysAre ==
  ASSUME NEW A, A \subseteq Runs, NEW gpu, NEW c, IsCell(A, gpu, c)
  PROVE  /\ PickKey(c) \in Tuples(5)
         /\ PickKey(c)[1] = Unscored(c) /\ PickKey(c)[2] = Score(c)
         /\ PickKey(c)[3] = -CellMedian(c.runs)
         /\ CellMedian(c.runs) \in Int
<1> DEFINE u == Unscored(c)
           s == Score(c)
           v == CellMedian(c.runs)
           n == -v
           k == c.model.slug
           b == c.bits
<1>1. PickKey(c) = <<u, s, n, k, b>>
  BY DEF PickKey, Unscored, Score
<1>2. c.model \in PoolModels /\ c.runs \subseteq Runs /\ c.runs # {} /\ \E r \in A : r.bits = b
  BY DEF IsCell
<1>3. k \in Int /\ c.model.eval \in Int \cup {None}
  BY <1>2, EvidenceAssumption
<1>4. u \in Int /\ s \in Int
  BY <1>3 DEF Unscored, Score
<1>5. v \in Int
  BY <1>2, CellMediansAre
<1>6. b \in Int
  BY <1>2, EvidenceAssumption
<1> HIDE DEF u, s, v, k, b
<1>7. n \in Int
  BY <1>5
<1> HIDE DEF n
<1>8. <<u, s, n, k, b>> \in Tuples(5)
  BY <1>3, <1>4, <1>6, <1>7 DEF Tuples
<1> QED BY <1>1, <1>5, <1>8 DEF u, s, n, v

LEMMA PreferredIsBefore ==
  ASSUME NEW A, A \subseteq Runs, NEW gpu, NEW a, IsCell(A, gpu, a), NEW b, IsCell(A, gpu, b),
         Preferred(b, a)
  PROVE  LexLess(PickKey(b), PickKey(a))
<1> DEFINE P == PickKey(b)
           Q == PickKey(a)
           x == b.model.eval
           y == a.model.eval
<1>1. /\ P \in Tuples(5) /\ P[1] = Unscored(b) /\ P[2] = Score(b)
      /\ P[3] = -CellMedian(b.runs) /\ CellMedian(b.runs) \in Int
  BY PickKeysAre
<1>2. /\ Q \in Tuples(5) /\ Q[1] = Unscored(a) /\ Q[2] = Score(a)
      /\ Q[3] = -CellMedian(a.runs) /\ CellMedian(a.runs) \in Int
  BY PickKeysAre
<1>3. x \in Int \cup {None} /\ y \in Int \cup {None}
  BY EvidenceAssumption DEF IsCell
<1>4. /\ Unscored(b) = (IF x = None THEN 1 ELSE 0) /\ Unscored(a) = (IF y = None THEN 1 ELSE 0)
      /\ Score(b) = (IF x = None THEN 0 ELSE -x) /\ Score(a) = (IF y = None THEN 0 ELSE -y)
  BY DEF Unscored, Score
<1>5. \/ x # None /\ y = None
      \/ x # None /\ y # None /\ x > y
      \/ x = y /\ CellMedian(b.runs) > CellMedian(a.runs)
  BY DEF Preferred
<1> HIDE DEF P, Q, x, y
<1>6. \/ P[1] < Q[1]
      \/ P[1] = Q[1] /\ P[2] < Q[2]
      \/ P[1] = Q[1] /\ P[2] = Q[2] /\ P[3] < Q[3]
  <2>1. CASE x # None /\ y = None
    BY <1>1, <1>2, <1>4, <2>1
  <2>2. CASE x # None /\ y # None /\ x > y
    <3>1. -x < -y
      BY <1>3, <2>2
    <3> QED BY <1>1, <1>2, <1>4, <2>2, <3>1
  <2>3. CASE x = y /\ CellMedian(b.runs) > CellMedian(a.runs)
    <3>1. -CellMedian(b.runs) < -CellMedian(a.runs)
      BY <1>1, <1>2, <2>3
    <3> QED BY <1>1, <1>2, <1>4, <2>3, <3>1
  <2> QED BY <1>5, <2>1, <2>2, <2>3
<1>7. Len(P) = 5
  BY <1>1, TuplesAre
<1>8. \E i \in 1 .. 5 : P[i] < Q[i] /\ \A j \in 1 .. i - 1 : P[j] = Q[j]
  <2>1. 1 \in 1 .. 5 /\ 2 \in 1 .. 5 /\ 3 \in 1 .. 5
        /\ 1 .. 1 - 1 = {} /\ 1 .. 2 - 1 = {1} /\ 1 .. 3 - 1 = {1, 2}
    OBVIOUS
  <2>2. CASE P[1] < Q[1]
    BY <2>1, <2>2
  <2>3. CASE P[1] = Q[1] /\ P[2] < Q[2]
    BY <2>1, <2>3
  <2>4. CASE P[1] = Q[1] /\ P[2] = Q[2] /\ P[3] < Q[3]
    BY <2>1, <2>4
  <2> QED BY <1>6, <2>2, <2>3, <2>4
<1> QED BY <1>7, <1>8 DEF LexLess, P, Q

LEMMA PicksInOrder ==
  ASSUME TypeOK
  PROVE  PicksArePreferred
<1> SUFFICES ASSUME asked.kind = "pick", NEW a \in Picks(asked),
                    NEW b \in Eligible(asked) \ Picks(asked)
             PROVE  ~Preferred(b, a)
  BY DEF PicksArePreferred
<1> DEFINE A == snapshot.runs
           P == Eligible(asked)
           k == asked.limit
           key == [c \in P |-> PickKey(c)]
<1>1. A \subseteq Runs
  BY DEF TypeOK
<1>2. k \in Int
  <2>1. asked \in Questions
    BY DEF TypeOK, QuestionsOK, Nothing
  <2> QED BY <2>1, QuestionsAssumption
<1>3. IsFiniteSet(P) /\ \A c \in P : IsCell(A, asked.gpu, c)
  <2>1. CASE asked.intent \in TextIntents
    <3>1. P = PickCells(A, PoolModels, asked.gpu, asked.intent, asked.vram)
      BY <2>1 DEF Eligible
    <3> HIDE DEF P, A
    <3> QED BY <1>1, <3>1, PickCellsFinite, CellsOfPicks
  <2>2. CASE asked.intent \notin TextIntents
    BY <2>2, FS_EmptySet DEF Eligible
  <2> QED BY <2>1, <2>2
<1>4. Picks(asked) = FirstK(P, key, k)
  BY DEF Picks
<1> HIDE DEF A, P, k
<1>5. Keyed(P, key, 5)
  BY <1>1, <1>3, PickKeysAre DEF Keyed
<1>6. a \in P /\ b \in P
  BY <1>4, FirstKIs DEF P
<1>7. ~LexLess(key[b], key[a])
  <2>1. a \in FirstK(P, key, k) /\ b \in P \ FirstK(P, key, k)
    BY <1>4 DEF P
  <2> HIDE DEF key
  <2> QED BY <1>2, <1>5, <2>1, CutsKeepOrder
<1>8. key[a] = PickKey(a) /\ key[b] = PickKey(b)
  BY <1>6
<1> HIDE DEF key
<1> QED BY <1>1, <1>3, <1>6, <1>7, <1>8, PreferredIsBefore

(* What the pool answers from one set of runs is the same whichever of its *)
(* two questions, and whichever of the two orderings in the code, answers  *)
(* it, and a pick that is cut off is never preferred to a listed one.      *)
THEOREM AnswersAgree == Spec => []PoolAnswersAgree
<1>1. TypeOK => PoolAnswersAgree
  BY OneOrder, BothWays, PicksInOrder DEF PoolAnswersAgree
<1> QED BY <1>1, TypeCorrect, PTL

=============================================================================
