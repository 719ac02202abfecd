-------------------------- MODULE MatchServicesProofs --------------------------
(***************************************************************************)
(* Proofs about the match services and the kernel of Matching, for any     *)
(* catalog and any question: sums over the GPUs asked about, the memory    *)
(* checks, the order of rates, and what the two services make of them.     *)
(***************************************************************************)
EXTENDS MatchingProofs

-----------------------------------------------------------------------------
(* Sums over a finite set                                                  *)

Chosen(s) == CHOOSE x \in s : TRUE

\* The function that MapThenFoldSet iterates, for values in a function.
Step(v, f, s) == IF s = {} THEN 0 ELSE v[Chosen(s)] + f[s \ {Chosen(s)}]

\* What is left of a part of S without the element chosen from it.
Splits(S, s) ==
  /\ Cardinality(s) \in Nat /\ Cardinality(s) <= Cardinality(S)
  /\ s # {} => /\ Chosen(s) \in S /\ s \ {Chosen(s)} \in SUBSET S
               /\ Cardinality(s \ {Chosen(s)}) = Cardinality(s) - 1
               /\ Cardinality(s \ {Chosen(s)}) \in Nat

LEMMA ChosenIs ==
  ASSUME NEW S, IsFiniteSet(S)
  PROVE  \A s \in SUBSET S : Splits(S, s)
<1> SUFFICES ASSUME NEW s \in SUBSET S PROVE Splits(S, s)
  OBVIOUS
<1>1. IsFiniteSet(s) /\ Cardinality(s) <= Cardinality(S) /\ Cardinality(s) \in Nat
  BY FS_Subset, FS_CardinalityType
<1>2. s # {} => Chosen(s) \in s
  BY DEF Chosen
<1>3. s # {} => Cardinality(s \ {Chosen(s)}) = Cardinality(s) - 1
  BY <1>1, <1>2, FS_RemoveElement
<1>4. Cardinality(s \ {Chosen(s)}) \in Nat
  BY <1>1, FS_RemoveElement, FS_CardinalityType
<1> QED BY <1>1, <1>2, <1>3, <1>4 DEF Splits

\* f satisfies the equations on the parts of at most n elements.
SumsUpTo(S, v, n, f) ==
  \A s \in SUBSET S : Cardinality(s) <= n => f[s] = Step(v, f, s)

LEMMA SumsExist ==
  ASSUME NEW S, IsFiniteSet(S), NEW v \in [S -> Nat]
  PROVE  \E f \in [SUBSET S -> Nat] : \A s \in SUBSET S : f[s] = Step(v, f, s)
<1> DEFINE Bad == {n \in Nat : ~\E f \in [SUBSET S -> Nat] : SumsUpTo(S, v, n, f)}
<1>1. \A n \in Nat : n \in Bad <=> ~\E f \in [SUBSET S -> Nat] : SumsUpTo(S, v, n, f)
  OBVIOUS
<1>2. Bad \in SUBSET Nat
  OBVIOUS
<1> HIDE DEF Bad
<1>3. \A s \in SUBSET S : Splits(S, s)
  BY ChosenIs
<1>4. ASSUME Bad # {} PROVE FALSE
  <2>1. PICK n \in Bad : \A m \in Bad : n <= m
    BY <1>2, <1>4, LeastNumber
  <2>2. n \in Nat /\ ~\E f \in [SUBSET S -> Nat] : SumsUpTo(S, v, n, f)
    BY <1>1, <1>2, <2>1
  <2>3. \E f \in [SUBSET S -> Nat] : n > 0 => SumsUpTo(S, v, n - 1, f)
    <3>1. CASE n > 0
      <4>1. n - 1 \in Nat /\ ~(n <= n - 1)
        BY <2>2, <3>1
      <4>2. n - 1 \notin Bad
        BY <2>1, <4>1
      <4> QED BY <1>1, <4>1, <4>2
    <3>2. CASE ~(n > 0)
      <4>1. [s \in SUBSET S |-> 0] \in [SUBSET S -> Nat]
        OBVIOUS
      <4> QED BY <3>2, <4>1
    <3> QED BY <3>1, <3>2
  <2>4. PICK f \in [SUBSET S -> Nat] : n > 0 => SumsUpTo(S, v, n - 1, f)
    BY <2>3
  <2>5. ASSUME NEW s \in SUBSET S PROVE Step(v, f, s) \in Nat
    <3>1. Splits(S, s)
      BY <1>3
    <3>2. s # {} => v[Chosen(s)] \in Nat /\ f[s \ {Chosen(s)}] \in Nat
      BY <3>1 DEF Splits
    <3> QED BY <3>2 DEF Step
  <2> DEFINE g == [s \in SUBSET S |-> Step(v, f, s)]
  <2>6. g \in [SUBSET S -> Nat] /\ \A s \in SUBSET S : g[s] = Step(v, f, s)
    BY <2>5
  <2> HIDE DEF g
  <2>7. ASSUME NEW s \in SUBSET S, Cardinality(s) <= n
        PROVE  g[s] = Step(v, g, s)
    <3>1. CASE s = {}
      BY <2>6, <3>1 DEF Step
    <3>2. CASE s # {}
      <4> DEFINE r == s \ {Chosen(s)}
      <4>1. Splits(S, s)
        BY <1>3
      <4>2. r \in SUBSET S /\ Cardinality(r) = Cardinality(s) - 1 /\ Cardinality(r) \in Nat
            /\ Cardinality(s) \in Nat
        BY <3>2, <4>1 DEF Splits
      <4> HIDE DEF r
      <4>3. n > 0 /\ Cardinality(r) <= n - 1
        BY <2>2, <2>7, <4>2
      <4>4. f[r] = Step(v, f, r)
        BY <2>4, <4>2, <4>3 DEF SumsUpTo
      <4>5. g[r] = f[r]
        BY <2>6, <4>2, <4>4
      <4>6. Step(v, f, s) = Step(v, g, s)
        BY <3>2, <4>5 DEF Step, r
      <4> QED BY <2>6, <4>6
    <3> QED BY <3>1, <3>2
  <2>8. SumsUpTo(S, v, n, g)
    BY <2>7 DEF SumsUpTo
  <2> QED BY <2>2, <2>6, <2>8
<1>5. Cardinality(S) \in Nat
  BY FS_CardinalityType
<1>6. PICK f \in [SUBSET S -> Nat] : SumsUpTo(S, v, Cardinality(S), f)
  BY <1>1, <1>4, <1>5
<1>7. \A s \in SUBSET S : Cardinality(s) <= Cardinality(S)
  BY <1>3 DEF Splits
<1> QED BY <1>6, <1>7 DEF SumsUpTo

(* Whichever function satisfies the equations, it sums up.                 *)
LEMMA SumsAre ==
  ASSUME NEW S, IsFiniteSet(S), NEW v \in [S -> Nat], NEW f,
         \A s \in SUBSET S : f[s] = Step(v, f, s)
  PROVE  /\ f[S] \in Nat
         /\ \A x \in S : S = {x} => f[S] = v[x]
         /\ S # {} /\ (\A x \in S : v[x] > 0) => f[S] > 0
<1> DEFINE Bad == {n \in Nat : \E t \in SUBSET S : Cardinality(t) = n /\ f[t] \notin Nat}
<1>1. \A s \in SUBSET S : Splits(S, s)
  BY ChosenIs
<1>2. ASSUME NEW s \in SUBSET S, f[s] \notin Nat PROVE FALSE
  <2>1. \A n : n \in Bad <=> /\ n \in Nat
                             /\ \E t \in SUBSET S : Cardinality(t) = n /\ f[t] \notin Nat
    OBVIOUS
  <2> HIDE DEF Bad
  <2>2. \A t \in SUBSET S : f[t] \notin Nat => Cardinality(t) \in Bad
    BY <1>1, <2>1 DEF Splits
  <2>3. Bad \in SUBSET Nat /\ Bad # {}
    BY <1>2, <2>1, <2>2
  <2>4. PICK n \in Bad : \A m \in Bad : n <= m
    BY <2>3, LeastNumber
  <2>5. PICK t \in SUBSET S : Cardinality(t) = n /\ f[t] \notin Nat
    BY <2>1
  <2>6. t # {}
    <3>1. f[{}] = Step(v, f, {})
      OBVIOUS
    <3>2. Step(v, f, {}) = 0
      BY ONLY DEF Step
    <3>3. f[{}] \in Nat
      BY ONLY <3>1, <3>2
    <3>4. f[t] \notin Nat
      BY <2>5
    <3> QED BY ONLY <3>3, <3>4
  <2>7. Splits(S, t)
    BY <1>1
  <2> DEFINE r == t \ {Chosen(t)}
  <2>8. /\ r \in SUBSET S /\ Cardinality(r) = Cardinality(t) - 1 /\ Cardinality(r) \in Nat
        /\ Cardinality(t) \in Nat /\ Chosen(t) \in S
    BY <2>6, <2>7 DEF Splits
  <2>9. f[t] = v[Chosen(t)] + f[r]
    BY <2>6 DEF Step
  <2> HIDE DEF r
  <2>10. Cardinality(r) \notin Bad
    <3>1. ~(n <= Cardinality(r))
      BY <2>5, <2>8
    <3> QED BY <2>4, <3>1
  <2>11. f[r] \in Nat
    BY <2>2, <2>8, <2>10
  <2>12. v[Chosen(t)] \in Nat
    BY <2>8
  <2> QED BY <2>5, <2>9, <2>11, <2>12
<1>3. \A s \in SUBSET S : f[s] \in Nat
  BY <1>2
<1>4. f[{}] = 0
  BY DEF Step
<1>5. ASSUME S # {}
      PROVE  /\ Chosen(S) \in S /\ f[S \ {Chosen(S)}] \in Nat
             /\ f[S] = v[Chosen(S)] + f[S \ {Chosen(S)}]
  <2>1. Splits(S, S)
    BY <1>1
  <2>2. Chosen(S) \in S /\ S \ {Chosen(S)} \in SUBSET S
    BY <1>5, <2>1 DEF Splits
  <2> QED BY <1>3, <1>5, <2>2 DEF Step
<1>6. ASSUME NEW x \in S, S = {x} PROVE f[S] = v[x]
  <2>1. Chosen(S) = x /\ S \ {Chosen(S)} = {}
    BY <1>5, <1>6
  <2>2. f[S] = v[x] + 0 /\ v[x] \in Nat
    BY <1>4, <1>5, <1>6, <2>1
  <2> QED BY <2>2
<1>7. ASSUME S # {}, \A x \in S : v[x] > 0 PROVE f[S] > 0
  <2>1. v[Chosen(S)] \in Nat /\ v[Chosen(S)] > 0
    BY <1>5, <1>7
  <2>2. f[S] = v[Chosen(S)] + f[S \ {Chosen(S)}] /\ f[S \ {Chosen(S)}] \in Nat
    BY <1>5, <1>7
  <2> QED BY <2>1, <2>2
<1>8. f[S] \in Nat
  BY <1>3
<1> QED BY <1>6, <1>7, <1>8

(* What is taken of a catalog row.                                         *)
LEMMA CatalogIs ==
  /\ IsFiniteSet(Gpus) /\ IsFiniteSet(Models) /\ IsFiniteSet(Quants) /\ IsFiniteSet(Runtimes)
  /\ \A g \in Gpus : /\ g.id \in Int /\ g.vram \in Nat /\ g.vram > 0 /\ g.bw \in Nat
                     /\ g.bw > 0 /\ Tflops(g) \in Nat
  /\ \A w \in Quants : w.id \in Int /\ w.bits \in Nat /\ w.bits > 0
                       /\ w.kvBits \in Nat /\ w.kvBits > 0
  /\ \A m \in Models : m.id \in Int
  /\ \A r \in Runtimes : r.id \in Int
  /\ \A x, y \in Gpus : x.id = y.id => x = y
  /\ \A x, y \in Models : x.id = y.id => x = y
  /\ \A x, y \in Quants : x.id = y.id => x = y
  /\ \A x, y \in Runtimes : x.id = y.id => x = y
<1> DEFINE Table(S) == /\ IsFiniteSet(S) /\ \A x \in S : x.id \in Int
                       /\ \A x, y \in S : x.id = y.id => x = y
<1>1. Table(Gpus) /\ Table(Models) /\ Table(Quants) /\ Table(Runtimes)
  BY CatalogAssumption
<1>2. \A g \in Gpus : /\ g.vram \in Nat /\ g.vram > 0 /\ g.bw \in Nat
                     /\ g.bw > 0 /\ Tflops(g) \in Nat
  BY CatalogAssumption DEF Tflops
<1>3. \A w \in Quants : w.bits \in Nat /\ w.bits > 0 /\ w.kvBits \in Nat /\ w.kvBits > 0
  BY CatalogAssumption
<1> QED BY <1>1, <1>2, <1>3

(* The figures of a set of GPUs together.                                  *)
LEMMA VramIs ==
  ASSUME NEW S \in SUBSET Gpus
  PROVE  /\ MapThenSumSet(LAMBDA g : g.vram, S) \in Nat
         /\ \A x \in S : S = {x} => MapThenSumSet(LAMBDA g : g.vram, S) = x.vram
<1> DEFINE v == [g \in S |-> g.vram]
           Body(h) == [s \in SUBSET S |-> IF s = {} THEN 0
                                          ELSE Chosen(s).vram + h[s \ {Chosen(s)}]]
           H == CHOOSE h : h = Body(h)
<1>1. MapThenSumSet(LAMBDA g : g.vram, S) = H[S]
  BY DEF MapThenSumSet, MapThenFoldSet, Chosen
<1>2. IsFiniteSet(S) /\ v \in [S -> Nat]
  BY CatalogIs, FS_Subset
<1>3. \A s \in SUBSET S : s # {} => v[Chosen(s)] = Chosen(s).vram
  BY <1>2, ChosenIs DEF Splits
<1> HIDE DEF v
<1>4. PICK f \in [SUBSET S -> Nat] : \A s \in SUBSET S : f[s] = Step(v, f, s)
  BY <1>2, SumsExist
<1>5. f = Body(f)
  <2>1. ASSUME NEW s \in SUBSET S
        PROVE  f[s] = IF s = {} THEN 0 ELSE Chosen(s).vram + f[s \ {Chosen(s)}]
    <3>1. f[s] = Step(v, f, s)
      BY <1>4
    <3> QED BY <1>3, <3>1 DEF Step
  <2> QED BY <1>4, <2>1
<1>6. H = Body(H)
  BY <1>5
<1> HIDE DEF H
<1>7. \A s \in SUBSET S : H[s] = Step(v, H, s)
  <2> TAKE s \in SUBSET S
  <2>1. H[s] = IF s = {} THEN 0 ELSE Chosen(s).vram + H[s \ {Chosen(s)}]
    BY <1>6
  <2> QED BY <1>3, <2>1 DEF Step
<1>8. H[S] \in Nat /\ \A x \in S : S = {x} => H[S] = v[x]
  BY <1>2, <1>7, SumsAre
<1> QED BY <1>1, <1>8 DEF v

LEMMA BandwidthIs ==
  ASSUME NEW S \in SUBSET Gpus
  PROVE  /\ MapThenSumSet(LAMBDA g : g.bw, S) \in Nat
         /\ \A x \in S : S = {x} => MapThenSumSet(LAMBDA g : g.bw, S) = x.bw
         /\ S # {} => MapThenSumSet(LAMBDA g : g.bw, S) > 0
<1> DEFINE v == [g \in S |-> g.bw]
           Body(h) == [s \in SUBSET S |-> IF s = {} THEN 0
                                          ELSE Chosen(s).bw + h[s \ {Chosen(s)}]]
           H == CHOOSE h : h = Body(h)
<1>1. MapThenSumSet(LAMBDA g : g.bw, S) = H[S]
  BY DEF MapThenSumSet, MapThenFoldSet, Chosen
<1>2. IsFiniteSet(S) /\ v \in [S -> Nat] /\ \A x \in S : v[x] > 0
  BY CatalogIs, FS_Subset
<1>3. \A s \in SUBSET S : s # {} => v[Chosen(s)] = Chosen(s).bw
  BY <1>2, ChosenIs DEF Splits
<1> HIDE DEF v
<1>4. PICK f \in [SUBSET S -> Nat] : \A s \in SUBSET S : f[s] = Step(v, f, s)
  BY <1>2, SumsExist
<1>5. f = Body(f)
  <2>1. ASSUME NEW s \in SUBSET S
        PROVE  f[s] = IF s = {} THEN 0 ELSE Chosen(s).bw + f[s \ {Chosen(s)}]
    <3>1. f[s] = Step(v, f, s)
      BY <1>4
    <3> QED BY <1>3, <3>1 DEF Step
  <2> QED BY <1>4, <2>1
<1>6. H = Body(H)
  BY <1>5
<1> HIDE DEF H
<1>7. \A s \in SUBSET S : H[s] = Step(v, H, s)
  <2> TAKE s \in SUBSET S
  <2>1. H[s] = IF s = {} THEN 0 ELSE Chosen(s).bw + H[s \ {Chosen(s)}]
    BY <1>6
  <2> QED BY <1>3, <2>1 DEF Step
<1>8. /\ H[S] \in Nat /\ \A x \in S : S = {x} => H[S] = v[x]
      /\ S # {} => H[S] > 0
  BY <1>2, <1>7, SumsAre
<1> QED BY <1>1, <1>8 DEF v
-----------------------------------------------------------------------------
(* Memory                                                                  *)

LEMMA QuotientAtLeast ==
  ASSUME NEW a \in Int, NEW d \in Nat, d > 0, NEW c \in Int
  PROVE  a \div d >= c <=> d * c <= a
<1> DEFINE q == a \div d
<1>1. q \in Int /\ d * q <= a /\ a < d * q + d
  BY DivisionIs
<1> HIDE DEF q
<1>2. CASE q >= c
  <2>1. d * c <= d * q
    BY <1>1, <1>2, ScaleIs
  <2> QED BY <1>1, <1>2, <2>1 DEF q
<1>3. CASE q < c
  <2>1. q + 1 \in Int /\ q + 1 <= c
    BY <1>1, <1>3
  <2>2. d * (q + 1) <= d * c
    BY <2>1, ScaleIs
  <2>3. d * (q + 1) = d * q + d
    BY <1>1
  <2>4. ~(d * c <= a)
    BY <1>1, <2>2, <2>3
  <2> QED BY <1>1, <1>3, <2>4 DEF q
<1> QED BY <1>1, <1>2, <1>3

LEMMA OverheadIs ==
  ASSUME NEW engine
  PROVE  BaseOverhead(engine) \in Nat
<1>1. CASE engine = "llama_cpp"
  BY <1>1 DEF BaseOverhead
<1>2. CASE engine # "llama_cpp" /\ engine = "vllm"
  BY <1>2 DEF BaseOverhead
<1>3. CASE engine # "llama_cpp" /\ engine # "vllm"
  BY <1>3 DEF BaseOverhead
<1> QED BY <1>1, <1>2, <1>3

LEMMA MemoryIs ==
  ASSUME NEW m \in Models, NEW w \in Quants, Sized(m)
  PROVE  /\ WeightMem(m, w) \in Nat
         /\ KvPerToken(m, w) \in Nat /\ KvPerToken(m, w) > 0
         /\ m.maxContext \in Nat /\ m.maxContext > 0
<1> DEFINE p == IF m.moe THEN m.active ELSE m.params
<1>1. p \in Nat /\ m.layers \in Nat /\ m.layers > 0 /\ m.kv \in Nat /\ m.kv > 0
      /\ m.maxContext \in Nat /\ m.maxContext > 0
  BY CatalogAssumption DEF Sized
<1>2. w.bits \in Nat /\ w.kvBits \in Nat /\ w.kvBits > 0
  BY CatalogIs
<1>3. WeightMem(m, w) = (105 * w.bits) * p
  BY DEF WeightMem
<1> HIDE DEF p
<1>4. (105 * w.bits) * p \in Nat
  BY <1>1, <1>2
<1>5. m.layers * m.kv \in Nat /\ m.layers * m.kv > 0
  BY <1>1
<1>6. KvPerToken(m, w) = 100 * m.layers * m.kv * w.kvBits
  BY DEF KvPerToken
<1> DEFINE l == m.layers
           k == m.kv
           b == w.kvBits
<1> HIDE DEF l, k, b
<1>7. 100 * l * k * b = 100 * ((l * k) * b) /\ l * k \in Nat /\ l * k > 0
  BY <1>1, <1>2 DEF l, k, b
<1>8. (l * k) * b \in Nat /\ (l * k) * b > 0
  BY <1>2, <1>7 DEF b
<1>9. KvPerToken(m, w) \in Nat /\ KvPerToken(m, w) > 0
  BY <1>6, <1>7, <1>8 DEF l, k, b
<1> QED BY <1>1, <1>3, <1>4, <1>9

(* The footprint check and the context check are one inequality.           *)
LEMMA FitsIff ==
  ASSUME NEW m \in Models, NEW w \in Quants, Sized(m), NEW engine,
         NEW c \in Nat, c > 0, NEW b \in Nat, b > 0, NEW V \in Nat
  PROVE  ContextFits(m, w, engine, c, b, V)
           <=> FootprintFits(m, w, engine, c, b, V) /\ c <= m.maxContext
<1> DEFINE W == WeightMem(m, w)
           K == KvPerToken(m, w)
           B == BaseOverhead(engine)
           M == m.maxContext
           N == 20 * (K * b)
           A == Usable20(V) - 20 * W - 20 * B - (W + K * c * b)
           T == K * c * b
<1>1. W \in Nat /\ K \in Nat /\ K > 0 /\ B \in Nat /\ M \in Nat
  BY MemoryIs, OverheadIs
<1>2. Usable20(V) \in Nat
  BY DEF Usable20, GiB
<1>3. RawContext(W, K, B, c, b, V) = A \div N
  BY DEF RawContext
<1>4. MaxContext(m, w, engine, c, b, V) =
        LET capped == IF A \div N < M THEN A \div N ELSE M
        IN  IF capped < 0 THEN 0 ELSE capped
  BY <1>3 DEF MaxContext
<1>5. FootprintFits(m, w, engine, c, b, V) <=> 21 * (W + T) + 20 * B <= Usable20(V)
  BY DEF FootprintFits, Peak20
<1> HIDE DEF W, K, B, M
<1>6. N \in Nat /\ N > 0 /\ N * c = 20 * T /\ T \in Nat
  <2>1. K * b \in Nat /\ K * b > 0
    BY <1>1
  <2>2. (K * b) * c = T /\ T \in Nat
    BY <1>1
  <2>3. N * c = 20 * ((K * b) * c)
    BY <1>1
  <2> QED BY <2>1, <2>2, <2>3
<1>7. A = Usable20(V) - 20 * W - 20 * B - (W + T)
  OBVIOUS
<1> HIDE DEF N, T, A
<1>8. A \in Int
  BY <1>1, <1>2, <1>6, <1>7
<1> DEFINE q == A \div N
<1>9. q \in Int /\ (q >= c <=> N * c <= A)
  BY <1>6, <1>8, QuotientAtLeast, DivisionIs
<1>10. MaxContext(m, w, engine, c, b, V) >= c <=> q >= c /\ M >= c
  <2> HIDE DEF q
  <2>1. MaxContext(m, w, engine, c, b, V) =
          LET capped == IF q < M THEN q ELSE M
          IN  IF capped < 0 THEN 0 ELSE capped
    BY <1>4 DEF q
  <2> QED BY <1>1, <1>9, <2>1
<1>11. N * c <= A <=> 21 * (W + T) + 20 * B <= Usable20(V)
  BY <1>1, <1>2, <1>6, <1>7
<1> QED BY <1>5, <1>9, <1>10, <1>11, <1>1 DEF ContextFits, M

(* More memory and smaller batches keep what is feasible.                  *)
LEMMA FeasibleGrows ==
  ASSUME NEW m \in Models, NEW w \in Quants, Sized(m), NEW r,
         NEW c \in Nat, c > 0, NEW a \in Nat, a > 0, NEW b \in Nat, a <= b,
         NEW V \in Nat, NEW U \in Nat, V <= U, Feasible(m, w, r, c, b, V)
  PROVE  Feasible(m, w, r, c, a, U)
<1> DEFINE W == WeightMem(m, w)
           K == KvPerToken(m, w)
           B == BaseOverhead(r.engine)
           S == K * c * a
           T == K * c * b
<1>1. W \in Nat /\ K \in Nat /\ B \in Nat
  BY MemoryIs, OverheadIs
<1>2. FootprintFits(m, w, r.engine, c, b, V) /\ c <= m.maxContext
  BY FitsIff DEF Feasible
<1>3. 21 * (W + T) + 20 * B <= Usable20(V)
  BY <1>2 DEF FootprintFits, Peak20
<1>4. FootprintFits(m, w, r.engine, c, a, U) <=> 21 * (W + S) + 20 * B <= Usable20(U)
  BY DEF FootprintFits, Peak20
<1> HIDE DEF W, K, B
<1>5. S \in Nat /\ T \in Nat /\ S <= T
  <2>1. K * c \in Nat
    BY <1>1
  <2> QED BY <2>1, ScaleIs
<1>6. Usable20(V) \in Nat /\ Usable20(U) \in Nat /\ Usable20(V) <= Usable20(U)
  BY DEF Usable20, GiB
<1> HIDE DEF S, T
<1>7. 21 * (W + S) + 20 * B <= Usable20(U)
  BY <1>1, <1>3, <1>5, <1>6
<1>8. FootprintFits(m, w, r.engine, c, a, U)
  BY <1>4, <1>7
<1>9. ContextFits(m, w, r.engine, c, a, U)
  BY <1>2, <1>8, FitsIff
<1> QED BY <1>8, <1>9 DEF Feasible

-----------------------------------------------------------------------------
(* Rates                                                                   *)

Fraction(r) == r.n \in Nat /\ r.d \in Nat /\ r.d > 0

LEMMA SlowerIs ==
  ASSUME NEW r, NEW s, Fraction(r), Fraction(s)
  PROVE  ~Slower(r, r) /\ ~(Slower(r, s) /\ Slower(s, r))
<1> DEFINE p == r.n * s.d
           q == s.n * r.d
           t == r.n * r.d
<1>1. p \in Nat /\ q \in Nat /\ t \in Nat
  BY DEF Fraction
<1>2. (Slower(r, s) <=> p < q) /\ (Slower(s, r) <=> q < p) /\ (Slower(r, r) <=> t < t)
  BY DEF Slower
<1> HIDE DEF p, q, t
<1> QED BY <1>1, <1>2

(* What is no slower than something that is no slower.                     *)
LEMMA SlowerTransitive ==
  ASSUME NEW r, NEW s, NEW t, Fraction(r), Fraction(s), Fraction(t),
         ~Slower(r, s), ~Slower(s, t)
  PROVE  ~Slower(r, t)
<1> DEFINE rn == r.n
           rd == r.d
           sn == s.n
           sd == s.d
           tn == t.n
           td == t.d
<1>1. /\ rn \in Nat /\ rd \in Nat /\ rd > 0 /\ sn \in Nat /\ sd \in Nat /\ sd > 0
      /\ tn \in Nat /\ td \in Nat /\ td > 0
  BY DEF Fraction
<1>2. ~(rn * sd < sn * rd) /\ ~(sn * td < tn * sd) /\ (Slower(r, t) <=> rn * td < tn * rd)
  BY DEF Slower
<1> HIDE DEF rn, rd, sn, sd, tn, td
<1>3. sn * rd \in Nat /\ rn * sd \in Nat /\ sn * td \in Nat /\ tn * sd \in Nat
      /\ rn * td \in Nat /\ tn * rd \in Nat
  BY <1>1
<1>4. sn * rd <= rn * sd /\ tn * sd <= sn * td
  BY <1>2, <1>3
<1>5. td * (sn * rd) <= td * (rn * sd) /\ rd * (tn * sd) <= rd * (sn * td)
  BY <1>1, <1>3, <1>4, ScaleIs
<1>6. td * (sn * rd) = rd * (sn * td) /\ td * (rn * sd) = sd * (rn * td)
      /\ rd * (tn * sd) = sd * (tn * rd)
  BY <1>1
<1> DEFINE x == rn * td
           y == tn * rd
<1>7. x \in Nat /\ y \in Nat /\ sd * y <= sd * x
  <2>1. td * (sn * rd) \in Nat /\ td * (rn * sd) \in Nat /\ rd * (tn * sd) \in Nat
    BY <1>1, <1>3
  <2> QED BY <1>3, <1>5, <1>6, <2>1
<1> HIDE DEF x, y
<1>8. ~(x < y)
  <2>1. SUFFICES ASSUME x < y PROVE FALSE
    OBVIOUS
  <2>2. x + 1 <= y /\ x + 1 \in Int
    BY <1>7, <2>1
  <2>3. sd * (x + 1) <= sd * y
    BY <1>1, <1>7, <2>2, ScaleIs
  <2>4. sd * (x + 1) = sd * x + sd /\ sd * x \in Nat /\ sd * y \in Nat
    BY <1>1, <1>7
  <2> QED BY <1>1, <1>7, <2>3, <2>4
<1> QED BY <1>2, <1>8 DEF x, y
(* What a model weighs: the numbers its rates are computed from.           *)
LEMMA ModelIs ==
  ASSUME NEW m \in Models
  PROVE  /\ m.params \in Nat /\ Active(m) \in Nat /\ m.kv \in Nat /\ m.kv > 0
         /\ Mixture(m) => m.experts \in Nat /\ m.experts > 0
         /\ \A b \in Nat : b > 1 /\ Mixture(m) /\ RoutingKnown(m, b) => m.perToken \in Nat
<1>1. m.params \in Nat /\ Active(m) \in Nat /\ m.kv \in Nat /\ m.kv > 0
  BY CatalogAssumption DEF Active
<1>2. {m.active, m.experts, m.perToken} \subseteq Nat \cup {Unknown}
  BY CatalogAssumption
<1>3. Mixture(m) => m.experts \in Nat /\ m.experts > 0
  BY <1>2 DEF Mixture
<1> QED BY <1>1, <1>2, <1>3 DEF RoutingKnown

\* A batch of two or more of a mixture whose routing is known.
Routed(m, b) == b \in Nat /\ b > 1 /\ Mixture(m) /\ m.perToken \in Nat

LEMMA RoutedIs ==
  ASSUME NEW m \in Models, NEW b \in Nat, Routed(m, b)
  PROVE  /\ Distinct(m, b) \in Nat /\ SharedParams(m) \in Nat /\ ExpertParams(m) \in Nat
         /\ Distinct(m, b) <= m.perToken * b
         /\ Saturated(m) => Distinct(m, b) = m.experts
         /\ b * Distinct(m, b + 1) <= (b + 1) * Distinct(m, b)
<1> DEFINE E == m.experts
           k == m.perToken
           A == Active(m)
           P == m.params
<1>1. E \in Nat /\ E > 0 /\ k \in Nat /\ A \in Nat /\ P \in Nat /\ b > 1
  BY ModelIs DEF Routed
<1> DEFINE x == k * b
           y == k * (b + 1)
<1>2. Distinct(m, b) = (IF E < x THEN E ELSE x) /\ Distinct(m, b + 1) = (IF E < y THEN E ELSE y)
  BY DEF Distinct
<1>3. SharedParams(m) = Clamp(E * A - k * P)
      /\ ExpertParams(m) = Clamp((E - k) * P - SharedParams(m))
  BY DEF SharedParams, ExpertParams
<1>4. Saturated(m) <=> k >= E
  BY DEF Saturated
<1> HIDE DEF E, k, A, P
<1>5. x \in Nat /\ y \in Nat /\ b * y = (b + 1) * x /\ (k >= E => x >= E)
  BY <1>1
<1> HIDE DEF x, y
<1>6. Distinct(m, b) \in Nat /\ Distinct(m, b) <= x
  BY <1>1, <1>2, <1>5
<1>7. \A z \in Int : Clamp(z) \in Nat
  BY DEF Clamp
<1>8. E * A - k * P \in Int /\ (E - k) * P \in Int
  BY <1>1
<1>9. SharedParams(m) \in Nat /\ ExpertParams(m) \in Nat
  BY <1>3, <1>7, <1>8
<1>10. Saturated(m) => Distinct(m, b) = m.experts
  BY <1>1, <1>2, <1>4, <1>5 DEF E
<1>11. b * Distinct(m, b + 1) <= (b + 1) * Distinct(m, b)
  <2>1. Distinct(m, b + 1) \in Nat /\ Distinct(m, b + 1) <= E /\ Distinct(m, b + 1) <= y
    BY <1>1, <1>2, <1>5
  <2>2. CASE E < x
    <3>1. Distinct(m, b) = E
      BY <1>2, <2>2
    <3>2. b * Distinct(m, b + 1) <= b * E
      BY <1>1, <2>1, ScaleIs
    <3>3. (b + 1) * E = b * E + E /\ b * E \in Nat /\ b * Distinct(m, b + 1) \in Nat
      BY <1>1, <2>1
    <3> QED BY <1>1, <3>1, <3>2, <3>3
  <2>3. CASE ~(E < x)
    <3>1. Distinct(m, b) = x
      BY <1>2, <2>3
    <3>2. b * Distinct(m, b + 1) <= b * y
      BY <1>1, <1>5, <2>1, ScaleIs
    <3> QED BY <1>5, <3>1, <3>2
  <2> QED BY <2>2, <2>3
<1> QED BY <1>6, <1>9, <1>10, <1>11 DEF x, k

\* The weights read in a step are a fraction with a divisor.
Weighs(m, b) ==
  StepWeights(m, b).n \in Nat /\ StepWeights(m, b).d \in Nat /\ StepWeights(m, b).d > 0

LEMMA WeightsRead ==
  ASSUME NEW m \in Models, NEW b \in Nat, b > 0, RoutingKnown(m, b)
  PROVE  Weighs(m, b)
<1>1. CASE b <= 1
  BY <1>1, ModelIs DEF StepWeights, Weighs
<1>2. CASE b > 1 /\ ~Mixture(m)
  BY <1>2, ModelIs DEF StepWeights, Weighs
<1>3. CASE b > 1 /\ Mixture(m)
  <2>1. Routed(m, b)
    BY <1>3, ModelIs DEF Routed
  <2> DEFINE D == Distinct(m, b)
             S == SharedParams(m)
             X == ExpertParams(m)
             E == m.experts
             k == m.perToken
             P == m.params
  <2>2. D \in Nat /\ S \in Nat /\ X \in Nat /\ E \in Nat /\ E > 0 /\ k \in Nat /\ P \in Nat
    BY <1>3, <2>1, RoutedIs, ModelIs DEF Routed
  <2>3. StepWeights(m, b) = IF k >= E THEN [n |-> D * P, d |-> E]
                            ELSE [n |-> E * S + D * X, d |-> E * (E - k)]
    BY <1>3 DEF StepWeights, Saturated
  <2> HIDE DEF D, S, X, E, k, P
  <2>4. D * P \in Nat /\ E * S + D * X \in Nat /\ (k < E => E * (E - k) \in Nat /\ E * (E - k) > 0)
    BY <2>2
  <2>5. CASE k >= E
    BY <2>2, <2>3, <2>4, <2>5 DEF Weighs
  <2>6. CASE ~(k >= E)
    BY <2>2, <2>3, <2>4, <2>6 DEF Weighs
  <2> QED BY <2>5, <2>6
<1> QED BY <1>1, <1>2, <1>3

\* The rate as one fraction of the weights and the cache it reads.
RateIs(bw, m, w, c, b, n, d) ==
  LET cache == m.kv * w.kvBits * c
  IN  /\ cache \in Nat /\ cache > 0
      /\ DecodeRate(bw, m, w, c, b) =
           [n |-> b * bw * d, d |-> n * w.bits + d * (cache * b)]

LEMMA DecodeRateIs ==
  ASSUME NEW bw \in Nat, NEW m \in Models, NEW w \in Quants, NEW c \in Nat, c > 0,
         NEW b \in Nat, b > 0, Weighs(m, b)
  PROVE  /\ RateIs(bw, m, w, c, b, StepWeights(m, b).n, StepWeights(m, b).d)
         /\ Fraction(DecodeRate(bw, m, w, c, b))
<1> DEFINE n == StepWeights(m, b).n
           d == StepWeights(m, b).d
           k == m.kv
           v == w.kvBits
           cache == m.kv * w.kvBits * c
<1>1. n \in Nat /\ d \in Nat /\ d > 0
  BY DEF Weighs
<1>2. k \in Nat /\ k > 0 /\ v \in Nat /\ v > 0 /\ w.bits \in Nat
  BY ModelIs, CatalogIs
<1>3. DecodeRate(bw, m, w, c, b) =
        [n |-> b * bw * d, d |-> n * w.bits + d * k * v * c * b]
  BY DEF DecodeRate, StepBytes
<1> HIDE DEF n, d
<1>4. cache \in Nat /\ cache > 0
  <2>1. cache = (k * v) * c
    OBVIOUS
  <2> HIDE DEF k, v, cache
  <2>2. k * v \in Nat /\ k * v > 0
    BY <1>2
  <2>3. (k * v) * c \in Nat /\ (k * v) * c > 0
    BY <2>2
  <2> QED BY <2>1, <2>3
<1>5. d * k * v * c * b = d * (cache * b)
  <2>1. cache = k * v * c
    OBVIOUS
  <2> HIDE DEF k, v, cache
  <2> QED BY <1>1, <1>2, <2>1
<1> HIDE DEF k, v, cache
<1>6. DecodeRate(bw, m, w, c, b) = [n |-> b * bw * d, d |-> n * w.bits + d * (cache * b)]
  BY <1>3, <1>5
<1>7. b * bw * d \in Nat
  BY <1>1
<1>8. n * w.bits \in Nat
  BY <1>1, <1>2
<1>9. cache * b \in Nat /\ cache * b > 0
  BY <1>4
<1>10. d * (cache * b) \in Nat /\ d * (cache * b) > 0
  BY <1>1, <1>9
<1>11. Fraction(DecodeRate(bw, m, w, c, b))
  BY <1>6, <1>7, <1>8, <1>10 DEF Fraction
<1> QED BY <1>4, <1>6, <1>11 DEF RateIs, n, d, cache
-----------------------------------------------------------------------------
(* One more request in the batch                                           *)

\* What a step reads grows no faster than the batch.
ReadsGrowSlowly(m, b) ==
  b * StepWeights(m, b).d * StepWeights(m, b + 1).n
    <= (b + 1) * StepWeights(m, b + 1).d * StepWeights(m, b).n

(* From one request of a mixture to two: the sizes that are solved for     *)
(* are not clamped.                                                        *)
LEMMA SecondOfMixture ==
  ASSUME NEW m \in Models, Mixture(m), RoutingKnown(m, 2), AddsUp(m)
  PROVE  ReadsGrowSlowly(m, 1)
<1> DEFINE E == m.experts
           k == m.perToken
           A == Active(m)
           P == m.params
           D == Distinct(m, 2)
           S == SharedParams(m)
           X == ExpertParams(m)
<1>1. Routed(m, 2)
  BY ModelIs DEF Routed
<1>2. E \in Nat /\ E > 0 /\ k \in Nat /\ A \in Nat /\ P \in Nat /\ D \in Nat
      /\ D <= k * 2 /\ (k >= E => D = E)
  BY <1>1, ModelIs, RoutedIs DEF Routed, Saturated
<1>3. k * P <= E * A /\ A <= P
  BY DEF AddsUp
<1>4. StepWeights(m, 1) = [n |-> A, d |-> 1]
  BY DEF StepWeights
<1>5. StepWeights(m, 2) = IF k >= E THEN [n |-> D * P, d |-> E]
                          ELSE [n |-> E * S + D * X, d |-> E * (E - k)]
  BY <1>1 DEF StepWeights, Saturated, Routed
<1>6. S = Clamp(E * A - k * P) /\ X = Clamp((E - k) * P - S)
  BY DEF SharedParams, ExpertParams
<1> HIDE DEF E, k, A, P, D, S, X
<1>7. E * A \in Nat /\ k * P \in Nat
  BY <1>2
<1>8. CASE k >= E
  <2>1. StepWeights(m, 2) = [n |-> E * P, d |-> E]
    BY <1>2, <1>5, <1>8
  <2>2. P * E <= P * k
    BY <1>2, <1>8, ScaleIs
  <2>3. E * P <= E * A
    BY <1>2, <1>3, <2>2
  <2>4. E * P <= 2 * (E * A)
    BY <1>2, <1>7, <2>3
  <2>5. 1 * 1 * (E * P) = E * P /\ 2 * E * A = 2 * (E * A)
    BY <1>2
  <2>6. 1 * 1 * (E * P) <= 2 * E * A
    BY <2>4, <2>5
  <2> QED BY <1>4, <2>1, <2>6 DEF ReadsGrowSlowly
<1>9. CASE k < E
  <2>1. StepWeights(m, 2) = [n |-> E * S + D * X, d |-> E * (E - k)]
    BY <1>2, <1>5, <1>9
  <2>2. S \in Nat /\ S = E * A - k * P
    <3> DEFINE z == E * A - k * P
    <3>1. z \in Int /\ z >= 0
      BY <1>3, <1>7
    <3> HIDE DEF z
    <3>2. Clamp(z) = z /\ z \in Nat
      BY <3>1 DEF Clamp
    <3> QED BY <1>6, <3>2 DEF z
  <2>3. E * A <= E * P /\ E * P \in Nat
    BY <1>2, <1>3, ScaleIs
  <2>4. (E - k) * P = E * P - k * P
    BY <1>2
  <2>5. X \in Nat /\ X = E * P - E * A
    <3> DEFINE z == (E - k) * P - S
    <3>1. z = E * P - E * A
      BY <1>7, <2>2, <2>3, <2>4
    <3>2. z \in Int /\ z >= 0
      BY <1>7, <2>3, <3>1
    <3> HIDE DEF z
    <3>3. Clamp(z) = z /\ z \in Nat
      BY <3>2 DEF Clamp
    <3> QED BY <1>6, <3>1, <3>3 DEF z
  <2>6. D * X <= (k * 2) * X
    <3>1. X * D <= X * (k * 2)
      BY <1>2, <2>5, ScaleIs
    <3> QED BY <1>2, <2>5, <3>1
  <2>7. (k * 2) * X = 2 * (E * (k * P)) - 2 * (E * (k * A))
    <3>1. (k * 2) * (E * P - E * A) = 2 * (E * (k * P)) - 2 * (E * (k * A))
      BY <1>2
    <3> QED BY <2>5, <3>1
  <2>8. E * S = E * (E * A) - E * (k * P)
    <3>1. E * (E * A - k * P) = E * (E * A) - E * (k * P)
      BY <1>2
    <3> QED BY <2>2, <3>1
  <2>9. 2 * (E * (E - k)) * A = 2 * (E * (E * A)) - 2 * (E * (k * A))
    BY <1>2
  <2>10. E * (k * P) <= E * (E * A)
    BY <1>2, <1>3, <1>7, ScaleIs
  <2>11. E * (k * P) \in Nat /\ E * (E * A) \in Nat /\ E * (k * A) \in Nat
         /\ E * S \in Nat /\ D * X \in Nat /\ (k * 2) * X \in Nat
    <3>1. k * A \in Nat
      BY <1>2
    <3> QED BY <1>2, <1>7, <2>2, <2>5, <3>1
  <2>12. E * S + D * X <= 2 * (E * (E - k)) * A
    BY <2>6, <2>7, <2>8, <2>9, <2>10, <2>11
  <2>13. 1 * 1 * (E * S + D * X) = E * S + D * X
    BY <2>11
  <2> QED BY <1>4, <2>1, <2>12, <2>13 DEF ReadsGrowSlowly
<1> QED BY <1>2, <1>8, <1>9

LEMMA NextOfMixture ==
  ASSUME NEW m \in Models, NEW b \in Nat, Routed(m, b)
  PROVE  ReadsGrowSlowly(m, b)
<1> DEFINE E == m.experts
           k == m.perToken
           P == m.params
           D == Distinct(m, b)
           F == Distinct(m, b + 1)
           S == SharedParams(m)
           X == ExpertParams(m)
           d == E * (E - k)
<1>1. Routed(m, b + 1)
  BY DEF Routed
<1>2. E \in Nat /\ E > 0 /\ k \in Nat /\ P \in Nat /\ b > 1
  BY ModelIs DEF Routed
<1>3. D \in Nat /\ F \in Nat /\ S \in Nat /\ X \in Nat /\ b * F <= (b + 1) * D
  BY <1>1, RoutedIs
<1>4. /\ StepWeights(m, b) = IF k >= E THEN [n |-> D * P, d |-> E]
                             ELSE [n |-> E * S + D * X, d |-> d]
      /\ StepWeights(m, b + 1) = IF k >= E THEN [n |-> F * P, d |-> E]
                                 ELSE [n |-> E * S + F * X, d |-> d]
  BY <1>1 DEF StepWeights, Saturated, Routed
<1> HIDE DEF E, k, P, D, F, S, X
<1>5. d \in Int /\ (k < E => d >= 0)
  BY <1>2
<1> HIDE DEF d
<1>6. b * F \in Nat /\ (b + 1) * D \in Nat
  BY <1>3
<1>7. CASE k >= E
  <2>1. (E * P) * (b * F) <= (E * P) * ((b + 1) * D)
    <3>1. E * P \in Nat
      BY <1>2
    <3> QED BY <1>3, <1>6, <3>1, ScaleIs
  <2>2. b * E * (F * P) = (E * P) * (b * F) /\ (b + 1) * E * (D * P) = (E * P) * ((b + 1) * D)
    BY <1>2, <1>3
  <2>3. b * E * (F * P) <= (b + 1) * E * (D * P)
    BY <2>1, <2>2
  <2> QED BY <1>4, <1>7, <2>3 DEF ReadsGrowSlowly
<1>8. CASE k < E
  <2>1. X * (b * F) <= X * ((b + 1) * D)
    BY <1>3, <1>6, ScaleIs
  <2>2. b * (E * S + F * X) = b * (E * S) + X * (b * F)
        /\ (b + 1) * (E * S + D * X) = b * (E * S) + E * S + X * ((b + 1) * D)
    BY <1>2, <1>3
  <2>3. E * S \in Nat /\ b * (E * S) \in Nat /\ X * (b * F) \in Nat /\ X * ((b + 1) * D) \in Nat
    <3>1. E * S \in Nat
      BY <1>2, <1>3
    <3> QED BY <1>3, <1>6, <3>1
  <2> DEFINE p == b * (E * S + F * X)
             q == (b + 1) * (E * S + D * X)
  <2>4. p \in Int /\ q \in Int /\ p <= q
    BY <2>1, <2>2, <2>3
  <2>5. b * d * (E * S + F * X) = d * p /\ (b + 1) * d * (E * S + D * X) = d * q
    <3>1. E * S + F * X \in Int /\ E * S + D * X \in Int
      BY <1>2, <1>3
    <3> DEFINE u == E * S + F * X
               v == E * S + D * X
    <3> HIDE DEF u, v
    <3>2. b * d * u = d * (b * u) /\ (b + 1) * d * v = d * ((b + 1) * v)
      BY <1>5, <3>1 DEF u, v
    <3> QED BY <3>2 DEF u, v
  <2> HIDE DEF p, q
  <2>6. d * p <= d * q
    BY <1>5, <1>8, <2>4, ScaleIs
  <2>7. b * d * (E * S + F * X) <= (b + 1) * d * (E * S + D * X)
    BY <2>5, <2>6
  <2>8. ~(k >= E)
    BY <1>2, <1>8
  <2> QED BY <1>4, <2>7, <2>8 DEF ReadsGrowSlowly
<1> QED BY <1>2, <1>7, <1>8

LEMMA ReadsGrow ==
  ASSUME NEW m \in Models, RoutingKnown(m, 2), AddsUp(m), NEW b \in Nat, b > 0
  PROVE  ReadsGrowSlowly(m, b)
<1>1. CASE ~Mixture(m)
  <2> DEFINE P == m.params
  <2>1. P \in Nat /\ Active(m) = P
    BY <1>1, ModelIs DEF AddsUp
  <2>2. b + 1 > 1
    OBVIOUS
  <2>3. StepWeights(m, b) = [n |-> P, d |-> 1] /\ StepWeights(m, b + 1) = [n |-> P, d |-> 1]
    BY <1>1, <2>1, <2>2 DEF StepWeights
  <2> HIDE DEF P
  <2>4. b * 1 * P <= (b + 1) * 1 * P
    BY <2>1
  <2> QED BY <2>3, <2>4 DEF ReadsGrowSlowly
<1>2. CASE Mixture(m) /\ b = 1
  BY <1>2, SecondOfMixture
<1>3. CASE Mixture(m) /\ b > 1
  <2>1. Routed(m, b)
    BY <1>3, ModelIs DEF Routed
  <2> QED BY <2>1, NextOfMixture
<1> QED BY <1>1, <1>2, <1>3

LEMMA BatchesAreNotSlower ==
  ASSUME NEW m \in Models, RoutingKnown(m, 2), AddsUp(m), NEW b \in Nat, b > 0,
         NEW bw \in Nat, NEW w \in Quants, NEW c \in Nat, c > 0
  PROVE  ~Slower(DecodeRate(bw, m, w, c, b + 1), DecodeRate(bw, m, w, c, b))
<1> DEFINE n == StepWeights(m, b).n
           d == StepWeights(m, b).d
           o == StepWeights(m, b + 1).n
           e == StepWeights(m, b + 1).d
           z == m.kv * w.kvBits * c
           v == w.bits
<1>1. RoutingKnown(m, b) /\ RoutingKnown(m, b + 1) /\ b + 1 \in Nat /\ b + 1 > 0
  BY DEF RoutingKnown
<1>2. n \in Nat /\ d \in Nat /\ o \in Nat /\ e \in Nat /\ v \in Nat
  BY <1>1, WeightsRead, CatalogIs DEF Weighs
<1>3. RateIs(bw, m, w, c, b, n, d) /\ RateIs(bw, m, w, c, b + 1, o, e)
  BY <1>1, WeightsRead, DecodeRateIs
<1>4. b * d * o <= (b + 1) * e * n
  BY ReadsGrow DEF ReadsGrowSlowly
<1> HIDE DEF n, d, o, e
<1>5. /\ z \in Nat
      /\ DecodeRate(bw, m, w, c, b) = [n |-> b * bw * d, d |-> n * v + d * (z * b)]
      /\ DecodeRate(bw, m, w, c, b + 1) =
           [n |-> (b + 1) * bw * e, d |-> o * v + e * (z * (b + 1))]
  BY <1>3 DEF RateIs
<1> HIDE DEF z, v
<1> DEFINE p == ((b + 1) * bw * e) * (n * v + d * (z * b))
           q == (b * bw * d) * (o * v + e * (z * (b + 1)))
           x == b * d * o
           y == (b + 1) * e * n
           t == bw * v
           u == bw * (e * (d * (z * (b * (b + 1)))))
<1>6. Slower(DecodeRate(bw, m, w, c, b + 1), DecodeRate(bw, m, w, c, b)) <=> p < q
  BY <1>5 DEF Slower
<1>7. p = t * y + u
  <2>1. ((b + 1) * bw * e) * (n * v) = t * y
    BY <1>2
  <2>2. ((b + 1) * bw * e) * (d * (z * b)) = u
    BY <1>2, <1>5
  <2> DEFINE i == (b + 1) * bw * e
             j == n * v
             k == d * (z * b)
  <2>3. i \in Int /\ j \in Int /\ k \in Int
    BY <1>2, <1>5
  <2> HIDE DEF i, j, k
  <2>4. i * (j + k) = i * j + i * k
    BY <2>3
  <2> QED BY <2>1, <2>2, <2>4 DEF i, j, k
<1>8. q = t * x + u
  <2>1. (b * bw * d) * (o * v) = t * x
    BY <1>2
  <2>2. (b * bw * d) * (e * (z * (b + 1))) = u
    BY <1>2, <1>5
  <2> DEFINE i == b * bw * d
             j == o * v
             k == e * (z * (b + 1))
  <2>3. i \in Int /\ j \in Int /\ k \in Int
    BY <1>2, <1>5
  <2> HIDE DEF i, j, k
  <2>4. i * (j + k) = i * j + i * k
    BY <2>3
  <2> QED BY <2>1, <2>2, <2>4 DEF i, j, k
<1>9. x \in Int /\ y \in Int /\ t \in Int /\ t >= 0 /\ u \in Int /\ x <= y
  BY <1>2, <1>4, <1>5
<1> HIDE DEF p, q, x, y, t, u
<1>10. t * x <= t * y
  BY <1>9, ScaleIs
<1>11. t * x \in Int /\ t * y \in Int
  BY <1>9
<1> QED BY <1>6, <1>7, <1>8, <1>9, <1>10, <1>11
-----------------------------------------------------------------------------
(* Orders that are not given by a tuple                                    *)

\* R, a set of pairs, puts the elements of S one after the other.
Lines(S, R) ==
  /\ IsFiniteSet(S)
  /\ \A x \in S : <<x, x>> \notin R
  /\ \A x, y, z \in S : <<x, y>> \in R /\ <<y, z>> \in R => <<x, z>> \in R
  /\ \A x, y \in S : x = y \/ <<x, y>> \in R \/ <<y, x>> \in R

Position(S, R, x) == Cardinality({y \in S : <<y, x>> \in R})

(* The position in the line is a key: what is proved of tuples applies.    *)
LEMMA PositionsOrder ==
  ASSUME NEW S, NEW R, Lines(S, R), NEW x \in S
  PROVE  /\ Position(S, R, x) \in Nat
         /\ \A y \in S : <<y, x>> \in R <=> Position(S, R, y) < Position(S, R, x)
<1> DEFINE Ahd(y) == {z \in S : <<z, y>> \in R}
<1>1. \A y \in S : Position(S, R, y) \in Nat
  <2> TAKE y \in S
  <2>1. Ahd(y) \in SUBSET S /\ IsFiniteSet(S)
    BY DEF Lines
  <2> HIDE DEF Ahd
  <2>2. Cardinality(Ahd(y)) \in Nat
    BY <2>1, FS_Subset, FS_CardinalityType
  <2> QED BY <2>2 DEF Position, Ahd
<1>2. ASSUME NEW y \in S, NEW z \in S, <<y, z>> \in R
      PROVE  Position(S, R, y) < Position(S, R, z)
  <2> DEFINE A == Ahd(y)
             B == Ahd(z)
  <2>1. A \subseteq B /\ y \in B /\ y \notin A /\ B \in SUBSET S /\ IsFiniteSet(S)
    BY <1>2 DEF Lines
  <2>2. Position(S, R, y) = Cardinality(A) /\ Position(S, R, z) = Cardinality(B)
    BY DEF Position
  <2> HIDE DEF A, B
  <2>3. IsFiniteSet(B)
    BY <2>1, FS_Subset
  <2>4. Cardinality(A) <= Cardinality(B) /\ (Cardinality(B) = Cardinality(A) => B = A)
    BY <2>1, <2>3, FS_Subset
  <2>5. Cardinality(A) \in Nat /\ Cardinality(B) \in Nat
    BY <1>1, <2>2
  <2> QED BY <2>1, <2>2, <2>4, <2>5
<1>3. ASSUME NEW y \in S, Position(S, R, y) < Position(S, R, x)
      PROVE  <<y, x>> \in R
  <2>1. ~(Position(S, R, x) < Position(S, R, y)) /\ y # x
    BY <1>1, <1>3
  <2>2. <<x, y>> \notin R
    BY <1>2, <2>1
  <2> QED BY <2>1, <2>2 DEF Lines
<1> QED BY <1>1, <1>2, <1>3

(* Somebody is first.                                                      *)
LEMMA LinesHaveAFirst ==
  ASSUME NEW S, NEW R, Lines(S, R), S # {}
  PROVE  \E x \in S : \A y \in S \ {x} : <<x, y>> \in R
<1> DEFINE T == {n \in Nat : \E x \in S : Position(S, R, x) = n}
<1>1. \A n : n \in T <=> n \in Nat /\ \E x \in S : Position(S, R, x) = n
  OBVIOUS
<1>2. \A x \in S : Position(S, R, x) \in Nat
  BY PositionsOrder
<1> HIDE DEF T
<1>3. T \in SUBSET Nat /\ T # {}
  BY <1>1, <1>2
<1>4. PICK m \in T : \A n \in T : m <= n
  BY <1>3, LeastNumber
<1>5. PICK x \in S : Position(S, R, x) = m
  BY <1>1, <1>4
<1>6. ASSUME NEW y \in S, <<y, x>> \in R PROVE FALSE
  <2>1. Position(S, R, y) < m /\ Position(S, R, y) \in T
    BY <1>1, <1>2, <1>5, <1>6, PositionsOrder
  <2>2. m <= Position(S, R, y) /\ m \in Nat /\ Position(S, R, y) \in Nat
    BY <1>3, <1>4, <2>1
  <2> QED BY <2>1, <2>2
<1> QED BY <1>6 DEF Lines

(* Whoever is not among the first k has k before him, all of them ahead.   *)
LEMMA LeftOutBehindAll ==
  ASSUME NEW S, NEW R, Lines(S, R), NEW x \in S, NEW k \in Nat, k > 0,
         ~(Position(S, R, x) < k)
  PROVE  LET T == {y \in S : Position(S, R, y) < k}
         IN  Cardinality(T) = k /\ \A y \in T : <<y, x>> \in R
<1> DEFINE P(y) == Position(S, R, y)
           key == [y \in S |-> <<Position(S, R, y)>>]
           N == Cardinality(S)
           T == {y \in S : Position(S, R, y) < k}
           I == 0 .. k - 1
           f == [y \in T |-> Position(S, R, y)]
<1>1. IsFiniteSet(S) /\ N \in Nat
  BY FS_CardinalityType DEF Lines
<1>2. \A y \in S : Position(S, R, y) \in Nat
  BY PositionsOrder
<1>3. \A y \in S : key[y] \in Tuples(1)
  BY <1>2 DEF Tuples
<1>4. \A y, z \in S : LexLess(key[y], key[z]) <=> <<y, z>> \in R
  <2> TAKE y, z \in S
  <2>1. key[y] = <<Position(S, R, y)>> /\ key[z] = <<Position(S, R, z)>>
    OBVIOUS
  <2> HIDE DEF key
  <2>2. LexLess(key[y], key[z]) <=> Position(S, R, y) < Position(S, R, z)
    <3>1. 1 .. 1 - 1 = {} /\ 1 .. 1 = {1} /\ Len(key[y]) = 1
      BY <2>1
    <3> QED BY <2>1, <3>1 DEF LexLess
  <2> QED BY <2>2, PositionsOrder
<1>5. \A y, z \in S : key[y] = key[z] => y = z
  <2> TAKE y, z \in S
  <2> HAVE key[y] = key[z]
  <2>1. Position(S, R, y) = Position(S, R, z)
    OBVIOUS
  <2>2. <<y, z>> \notin R /\ <<z, y>> \notin R
    BY <1>2, <2>1, PositionsOrder
  <2> QED BY <2>2 DEF Lines
<1> HIDE DEF key
<1>6. Keyed(S, key, 1)
  BY <1>1, <1>3 DEF Keyed
<1>7. \A y \in S : Rank(S, key, y) = Position(S, R, y)
  <2> TAKE y \in S
  <2>1. Before(S, key, y) = {z \in S : <<z, y>> \in R}
    BY <1>4 DEF Before
  <2> QED BY <2>1 DEF Rank, Position
<1>8. k <= N - 1 /\ N >= 1
  <2>1. Position(S, R, x) \in 0 .. N - 1
    BY <1>6, <1>7, RankIs
  <2> HIDE DEF N
  <2> QED BY <1>1, <1>2, <2>1
<1>9. \A y : y \in T <=> y \in S /\ Position(S, R, y) < k
  OBVIOUS
<1>10. \A i \in I : \E y \in T : Position(S, R, y) = i
  <2> TAKE i \in I
  <2>1. i + 1 \in 1 .. N /\ (i + 1) - 1 = i /\ i < k /\ i \in Nat
    BY <1>1, <1>8
  <2> DEFINE y == Nth(S, key, i + 1)
  <2>2. y \in S /\ Rank(S, key, y) = (i + 1) - 1
    BY <1>5, <1>6, <2>1, NthIs
  <2> HIDE DEF y, T
  <2>3. Position(S, R, y) = i
    BY <1>7, <2>1, <2>2
  <2> QED BY <1>9, <2>1, <2>2, <2>3
<1>11. IsFiniteSet(T)
  BY <1>1, FS_Subset
<1>12. IsFiniteSet(I) /\ Cardinality(I) = k
  <2>1. 0 \in Int /\ k - 1 \in Int
    OBVIOUS
  <2>2. IsFiniteSet(0 .. k - 1) /\ Cardinality(0 .. k - 1) = IF 0 > k - 1 THEN 0 ELSE k - 1 - 0 + 1
    BY <2>1, FS_Interval
  <2> QED BY <2>2
<1>13. \A y \in T : Position(S, R, y) \in I
  BY <1>2
<1>14. f \in [T -> I] /\ \A y \in T : f[y] = Position(S, R, y)
  BY <1>13
<1> HIDE DEF T, I, f
<1>15. f \in Injection(T, I)
  <2>1. ASSUME NEW y \in T, NEW z \in T, f[y] = f[z] PROVE y = z
    <3>1. y \in S /\ z \in S /\ Position(S, R, y) = Position(S, R, z)
      BY <1>9, <1>14, <2>1
    <3>2. <<y, z>> \notin R /\ <<z, y>> \notin R
      BY <1>2, <3>1, PositionsOrder
    <3> QED BY <3>1, <3>2 DEF Lines
  <2> QED BY <1>14, <2>1 DEF Injection, IsInjective
<1>16. f \in Surjection(T, I)
  BY <1>10, <1>14 DEF Surjection
<1>17. Cardinality(T) = k
  BY <1>12, <1>15, <1>16, FS_Injection
<1>18. ASSUME NEW y \in T PROVE <<y, x>> \in R
  <2>1. y \in S /\ Position(S, R, y) < Position(S, R, x)
    BY <1>2, <1>9
  <2> QED BY <2>1, PositionsOrder
<1> QED BY <1>17, <1>18 DEF T

(* Ties of a weak order A are broken by the position.                      *)
Weak(S, A) ==
  /\ \A x, y \in S : <<x, y>> \in A => <<y, x>> \notin A
  /\ \A x, y, z \in S : <<x, z>> \in A => <<x, y>> \in A \/ <<y, z>> \in A

Tied(S, A, pos) ==
  {p \in S \X S : p \in A \/ (<<p[2], p[1]>> \notin A /\ LexLess(pos[p[1]], pos[p[2]]))}

LEMMA TiesAreBroken ==
  ASSUME NEW S, NEW A, Weak(S, A), NEW pos, NEW n, Keyed(S, pos, n),
         \A x, y \in S : pos[x] = pos[y] => x = y
  PROVE  /\ Lines(S, Tied(S, A, pos))
         /\ \A x, y \in S : <<x, y>> \in Tied(S, A, pos)
              <=> <<x, y>> \in A \/ (<<y, x>> \notin A /\ LexLess(pos[x], pos[y]))
<1> DEFINE R == Tied(S, A, pos)
<1>1. \A x, y \in S : <<x, y>> \in R
        <=> <<x, y>> \in A \/ (<<y, x>> \notin A /\ LexLess(pos[x], pos[y]))
  BY DEF Tied
<1> HIDE DEF R
<1>2. \A x \in S : <<x, x>> \notin A /\ ~LexLess(pos[x], pos[x])
  BY LexIrreflexive DEF Keyed, Weak
<1>3. \A x \in S : <<x, x>> \notin R
  BY <1>1, <1>2
<1>4. \A x, y \in S : x = y \/ <<x, y>> \in R \/ <<y, x>> \in R
  <2> TAKE x, y \in S
  <2>1. x = y \/ LexLess(pos[x], pos[y]) \/ LexLess(pos[y], pos[x])
    BY LexTotal DEF Keyed
  <2> QED BY <1>1, <2>1
<1>5. ASSUME NEW x \in S, NEW y \in S, NEW z \in S, <<x, y>> \in R, <<y, z>> \in R
      PROVE  <<x, z>> \in R
  <2>1. LexLess(pos[x], pos[y]) /\ LexLess(pos[y], pos[z]) => LexLess(pos[x], pos[z])
    BY LexTransitive DEF Keyed
  <2>2. /\ <<x, y>> \in A => <<y, x>> \notin A
        /\ <<y, z>> \in A => <<z, y>> \notin A
        /\ <<x, z>> \in A => <<z, x>> \notin A
        /\ <<x, z>> \in A => <<x, y>> \in A \/ <<y, z>> \in A
        /\ <<z, x>> \in A => <<z, y>> \in A \/ <<y, x>> \in A
        /\ <<x, y>> \in A => <<x, z>> \in A \/ <<z, y>> \in A
        /\ <<y, z>> \in A => <<y, x>> \in A \/ <<x, z>> \in A
    BY DEF Weak
  <2>3. /\ <<x, y>> \in A \/ (<<y, x>> \notin A /\ LexLess(pos[x], pos[y]))
        /\ <<y, z>> \in A \/ (<<z, y>> \notin A /\ LexLess(pos[y], pos[z]))
    BY <1>1, <1>5
  <2>4. <<x, z>> \in A \/ (<<z, x>> \notin A /\ LexLess(pos[x], pos[z]))
    BY <2>1, <2>2, <2>3
  <2> QED BY <1>1, <2>4
<1>6. Lines(S, R)
  BY <1>3, <1>4, <1>5 DEF Lines, Keyed
<1> QED BY <1>1, <1>6 DEF R
-----------------------------------------------------------------------------
(* Hardware to models                                                      *)

\* A question about hardware, as far as the kernel reads it.
AboutHardware(q) ==
  /\ q.gpus \in SUBSET Gpus
  /\ q.count \in Nat /\ q.count > 0 /\ q.context \in Nat /\ q.context > 0

LEMMA TotalsAre ==
  ASSUME NEW q, AboutHardware(q)
  PROVE  /\ TotalVram(q) \in Nat /\ TotalBandwidth(q) \in Nat
         /\ q.gpus # {} => TotalBandwidth(q) > 0
         /\ \A g \in Gpus : q.gpus = {g} => /\ TotalVram(q) = q.count * g.vram
                                            /\ TotalBandwidth(q) = q.count * g.bw
<1> DEFINE v == MapThenSumSet(LAMBDA g : g.vram, q.gpus)
           s == MapThenSumSet(LAMBDA g : g.bw, q.gpus)
           k == q.count
<1>1. q.gpus \in SUBSET Gpus /\ k \in Nat /\ k > 0
  BY DEF AboutHardware
<1>2. v \in Nat /\ s \in Nat /\ (q.gpus # {} => s > 0)
      /\ \A x \in q.gpus : q.gpus = {x} => v = x.vram /\ s = x.bw
  BY <1>1, VramIs, BandwidthIs
<1>3. TotalVram(q) = k * v /\ TotalBandwidth(q) = k * s
  BY DEF TotalVram, TotalBandwidth
<1> HIDE DEF v, s, k
<1>4. k * v \in Nat /\ k * s \in Nat /\ (s > 0 => k * s > 0)
  BY <1>1, <1>2
<1>5. \A g \in Gpus : q.gpus = {g} => v = g.vram /\ s = g.bw
  BY <1>2
<1> QED BY <1>2, <1>3, <1>4, <1>5 DEF k

\* The candidate of a model, a quantization and a runtime.
Offered(q, m, w, r) ==
  [model |-> m, quant |-> w, runtime |-> r,
   feasible |-> Feasible(m, w, r, q.context, 1, TotalVram(q)),
   decode |-> DecodeRate(TotalBandwidth(q), m, w, q.context, 1),
   ttft |-> TtftTime(TotalTflops(q), m, Prompt)]

Offerable(q, m, w, r) ==
  /\ m \in Models /\ w \in Quants /\ r \in TextRuntimes /\ r \in Runtimes
  /\ q.gpus # {} /\ m.family = q.family /\ Sized(m)

LEMMA OfferedIs ==
  ASSUME NEW q
  PROVE  /\ \A c \in HardwareCandidates(q) :
              /\ Offerable(q, c.model, c.quant, c.runtime)
              /\ c = Offered(q, c.model, c.quant, c.runtime)
         /\ \A m, w, r : Offerable(q, m, w, r) => Offered(q, m, w, r) \in HardwareCandidates(q)
<1>1. ASSUME NEW c \in HardwareCandidates(q)
      PROVE  /\ Offerable(q, c.model, c.quant, c.runtime)
             /\ c = Offered(q, c.model, c.quant, c.runtime)
  <2>1. PICK m \in {x \in Models : q.gpus # {} /\ x.family = q.family /\ Sized(x)},
             w \in Quants, r \in TextRuntimes : c = Offered(q, m, w, r)
    BY DEF HardwareCandidates, Offered
  <2>2. c.model = m /\ c.quant = w /\ c.runtime = r
    BY <2>1 DEF Offered
  <2>3. r \in Runtimes
    BY DEF TextRuntimes
  <2> QED BY <2>1, <2>2, <2>3 DEF Offerable
<1>2. ASSUME NEW m, NEW w, NEW r, Offerable(q, m, w, r)
      PROVE  Offered(q, m, w, r) \in HardwareCandidates(q)
  BY <1>2 DEF HardwareCandidates, Offered, Offerable
<1> QED BY <1>1, <1>2

\* What is read of an offer.
IsOffer(q, c) ==
  /\ c.model \in Models /\ c.quant \in Quants /\ c.runtime \in Runtimes /\ Sized(c.model)
  /\ c.feasible \in BOOLEAN
  /\ c.feasible <=> Feasible(c.model, c.quant, c.runtime, q.context, 1, TotalVram(q))
  /\ c.decode = DecodeRate(TotalBandwidth(q), c.model, c.quant, q.context, 1)
  /\ Fraction(c.decode)
  /\ MatchPosition(c) \in Tuples(3)

LEMMA LoneRates ==
  ASSUME NEW m \in Models, NEW w \in Quants, NEW c \in Nat, c > 0, NEW bw \in Nat
  PROVE  /\ Fraction(DecodeRate(bw, m, w, c, 1))
         /\ DecodeRate(bw, m, w, c, 1).n = bw
         /\ \A s \in Nat : DecodeRate(s, m, w, c, 1).d = DecodeRate(bw, m, w, c, 1).d
<1>1. RoutingKnown(m, 1) /\ StepWeights(m, 1).d = 1
  BY DEF RoutingKnown, StepWeights
<1>2. Weighs(m, 1)
  BY <1>1, WeightsRead
<1>3. Fraction(DecodeRate(bw, m, w, c, 1))
      /\ RateIs(bw, m, w, c, 1, StepWeights(m, 1).n, StepWeights(m, 1).d)
  BY <1>2, DecodeRateIs
<1>4. DecodeRate(bw, m, w, c, 1).n = 1 * bw * 1
  BY <1>1, <1>3 DEF RateIs
<1>5. \A s \in Nat : DecodeRate(s, m, w, c, 1).d = DecodeRate(bw, m, w, c, 1).d
  BY DEF DecodeRate
<1> QED BY <1>3, <1>4, <1>5

LEMMA OffersAre ==
  ASSUME NEW q, AboutHardware(q), NEW c \in HardwareCandidates(q)
  PROVE  IsOffer(q, c)
<1> DEFINE m == c.model
           w == c.quant
           r == c.runtime
<1>1. Offerable(q, m, w, r) /\ c = Offered(q, m, w, r)
  BY OfferedIs
<1>2. m \in Models /\ w \in Quants /\ r \in Runtimes /\ Sized(m)
  BY <1>1 DEF Offerable
<1>3. c.feasible = Feasible(m, w, r, q.context, 1, TotalVram(q))
      /\ c.decode = DecodeRate(TotalBandwidth(q), m, w, q.context, 1)
  <2> HIDE DEF m, w, r
  <2> QED BY <1>1 DEF Offered
<1>4. Feasible(m, w, r, q.context, 1, TotalVram(q)) \in BOOLEAN
  BY DEF Feasible, FootprintFits, ContextFits
<1>5. MatchPosition(c) = <<m.id, w.id, r.id>>
  BY DEF MatchPosition
<1>6. m.id \in Int /\ w.id \in Int /\ r.id \in Int
  BY <1>2, CatalogIs
<1> HIDE DEF m, w, r
<1>7. <<m.id, w.id, r.id>> \in Tuples(3)
  BY <1>6 DEF Tuples
<1>8. Fraction(DecodeRate(TotalBandwidth(q), m, w, q.context, 1))
  BY <1>2, TotalsAre, LoneRates DEF AboutHardware
<1>9. c.feasible \in BOOLEAN /\ (c.feasible <=> Feasible(m, w, r, q.context, 1, TotalVram(q)))
  BY <1>3, <1>4
<1>10. Fraction(c.decode)
  BY <1>3, <1>8
<1>11. MatchPosition(c) \in Tuples(3)
  BY <1>5, <1>7
<1> QED BY <1>2, <1>3, <1>9, <1>10, <1>11 DEF IsOffer, m, w, r

LEMMA OffersFinite ==
  ASSUME NEW q, AboutHardware(q)
  PROVE  /\ IsFiniteSet(HardwareCandidates(q))
         /\ \A c, d \in HardwareCandidates(q) : MatchPosition(c) = MatchPosition(d) => c = d
<1> DEFINE S == HardwareCandidates(q)
           T == Models \X (Quants \X Runtimes)
           f == [c \in S |-> <<c.model, <<c.quant, c.runtime>> >>]
<1>1. \A c \in S : IsOffer(q, c) /\ c = Offered(q, c.model, c.quant, c.runtime)
  BY OffersAre, OfferedIs
<1> HIDE DEF S
<1>2. f \in [S -> T]
  BY <1>1 DEF IsOffer
<1>3. ASSUME NEW c \in S, NEW d \in S, c.model = d.model, c.quant = d.quant,
             c.runtime = d.runtime
      PROVE  c = d
  BY <1>1, <1>3
<1>4. f \in Injection(S, T)
  <2>1. ASSUME NEW c \in S, NEW d \in S, f[c] = f[d] PROVE c = d
    BY <1>3, <2>1
  <2> HIDE DEF f
  <2> QED BY <1>2, <2>1 DEF Injection, IsInjective
<1>5. IsFiniteSet(T)
  BY CatalogIs, FS_Product
<1> HIDE DEF f, T
<1>6. IsFiniteSet(S)
  BY <1>4, <1>5, FS_Injection
<1>7. ASSUME NEW c \in S, NEW d \in S, MatchPosition(c) = MatchPosition(d) PROVE c = d
  <2>1. c.model.id = d.model.id /\ c.quant.id = d.quant.id /\ c.runtime.id = d.runtime.id
    BY <1>7 DEF MatchPosition
  <2>2. c.model = d.model /\ c.quant = d.quant /\ c.runtime = d.runtime
    BY <1>1, <2>1, CatalogIs DEF IsOffer
  <2> QED BY <1>3, <2>2
<1> QED BY <1>6, <1>7 DEF S

(* Nothing infeasible is listed while something feasible is left out.      *)
LEMMA FeasibleFirst ==
  ASSUME NEW q, AboutHardware(q), NEW m \in HardwareMatches(q), ~m.feasible,
         NEW x \in HardwareCandidates(q) \ HardwareMatches(q)
  PROVE  ~x.feasible
<1> SUFFICES ASSUME x.feasible PROVE FALSE
  OBVIOUS
<1> DEFINE S == HardwareCandidates(q)
           A == {d \in S : MatchBefore(q, d, x)}
           B == {d \in S : MatchBefore(q, d, m)}
<1>1. m \in S /\ x \in S /\ Cardinality(B) < MaxMatches /\ ~(Cardinality(A) < MaxMatches)
  BY DEF HardwareMatches
<1>2. \A d \in S : d.feasible \in BOOLEAN
  BY OffersAre DEF IsOffer
<1>3. A \subseteq B /\ B \in SUBSET S
  <2>1. ASSUME NEW d \in S, MatchBefore(q, d, x) PROVE MatchBefore(q, d, m)
    <3>1. d.feasible
      BY <1>1, <1>2, <2>1 DEF MatchBefore
    <3> QED BY <3>1 DEF MatchBefore
  <2> QED BY <2>1
<1>4. IsFiniteSet(S)
  BY OffersFinite
<1> HIDE DEF A, B, S
<1>5. IsFiniteSet(B) /\ Cardinality(A) <= Cardinality(B)
  BY <1>3, <1>4, FS_Subset
<1>6. Cardinality(A) \in Nat /\ Cardinality(B) \in Nat
  BY <1>3, <1>5, FS_Subset, FS_CardinalityType
<1>7. MaxMatches \in Nat
  BY MatchingAssumption
<1> QED BY <1>1, <1>5, <1>6, <1>7

(* A feasible offer that is not listed has a full list of feasible ones    *)
(* before it.                                                              *)
LEMMA FullOfFeasible ==
  ASSUME NEW q, AboutHardware(q), q.priority # "latency",
         NEW x \in HardwareCandidates(q) \ HardwareMatches(q), x.feasible
  PROVE  Cardinality({m \in HardwareMatches(q) : m.feasible}) = MaxMatches
<1> DEFINE S == HardwareCandidates(q)
           Prior(a, b) == \/ a.feasible /\ ~b.feasible
                          \/ a.feasible = b.feasible /\ Slower(b.decode, a.decode)
           A == {p \in S \X S : Prior(p[1], p[2])}
           pos == [c \in S |-> MatchPosition(c)]
           R == Tied(S, A, pos)
           T == {y \in S : Position(S, R, y) < MaxMatches}
<1>1. \A c \in S : c.feasible \in BOOLEAN /\ Fraction(c.decode) /\ MatchPosition(c) \in Tuples(3)
  BY OffersAre DEF IsOffer
<1>2. IsFiniteSet(S) /\ \A c, d \in S : MatchPosition(c) = MatchPosition(d) => c = d
  BY OffersFinite
<1>3. x \in S /\ MaxMatches \in Nat /\ MaxMatches > 0
  BY MatchingAssumption
<1>4. \A a, b \in S : <<a, b>> \in A <=> Prior(a, b)
  OBVIOUS
<1>5. \A a, b \in S : MatchBefore(q, a, b)
        <=> Prior(a, b) \/ (~Prior(b, a) /\ LexLess(MatchPosition(a), MatchPosition(b)))
  BY <1>1 DEF MatchBefore, Ahead
<1>6. HardwareMatches(q) = {c \in S : Cardinality({d \in S : MatchBefore(q, d, c)}) < MaxMatches}
  BY DEF HardwareMatches
<1> HIDE DEF S
<1>7. ASSUME NEW a \in S, NEW b \in S, Prior(a, b) PROVE ~Prior(b, a)
  <2>1. ~(Slower(a.decode, b.decode) /\ Slower(b.decode, a.decode))
    BY <1>1, SlowerIs
  <2> QED BY <1>1, <1>7, <2>1
<1>8. ASSUME NEW a \in S, NEW b \in S, NEW c \in S, Prior(a, c) PROVE Prior(a, b) \/ Prior(b, c)
  <2>1. Slower(c.decode, a.decode) => Slower(c.decode, b.decode) \/ Slower(b.decode, a.decode)
    BY <1>1, SlowerTransitive
  <2> QED BY <1>1, <1>8, <2>1
<1> HIDE DEF Prior, A
<1>9. Weak(S, A)
  BY <1>4, <1>7, <1>8 DEF Weak
<1>10. \A c \in S : pos[c] = MatchPosition(c)
  OBVIOUS
<1> HIDE DEF pos
<1>11. Keyed(S, pos, 3) /\ \A c, d \in S : pos[c] = pos[d] => c = d
  BY <1>1, <1>2, <1>10 DEF Keyed
<1>12. /\ Lines(S, R)
       /\ \A a, b \in S : <<a, b>> \in R
            <=> <<a, b>> \in A \/ (<<b, a>> \notin A /\ LexLess(pos[a], pos[b]))
  BY <1>9, <1>11, TiesAreBroken
<1> HIDE DEF R
<1>13. \A a, b \in S : <<a, b>> \in R <=> MatchBefore(q, a, b)
  <2> TAKE a, b \in S
  <2>1. pos[a] = MatchPosition(a) /\ pos[b] = MatchPosition(b)
    BY <1>10
  <2>2. <<a, b>> \in R <=> <<a, b>> \in A \/ (<<b, a>> \notin A /\ LexLess(pos[a], pos[b]))
    BY <1>12
  <2>3. (<<a, b>> \in A <=> Prior(a, b)) /\ (<<b, a>> \in A <=> Prior(b, a))
    BY <1>4
  <2>4. MatchBefore(q, a, b)
          <=> Prior(a, b) \/ (~Prior(b, a) /\ LexLess(MatchPosition(a), MatchPosition(b)))
    BY <1>5
  <2>5. LexLess(pos[a], pos[b]) <=> LexLess(MatchPosition(a), MatchPosition(b))
    BY <2>1
  <2> QED BY ONLY <2>2, <2>3, <2>4, <2>5
<1>14. \A c \in S : Position(S, R, c) = Cardinality({d \in S : MatchBefore(q, d, c)})
  <2> TAKE c \in S
  <2>1. {d \in S : <<d, c>> \in R} = {d \in S : MatchBefore(q, d, c)}
    BY <1>13
  <2> QED BY <2>1 DEF Position
<1>15. HardwareMatches(q) = T
  BY <1>6, <1>14
<1>16. ~(Position(S, R, x) < MaxMatches)
  BY <1>3, <1>15
<1>17. Cardinality(T) = MaxMatches /\ \A y \in T : <<y, x>> \in R
  BY <1>3, <1>12, <1>16, LeftOutBehindAll
<1>18. \A y \in T : y.feasible
  <2> TAKE y \in T
  <2>1. y \in S /\ MatchBefore(q, y, x)
    BY <1>3, <1>13, <1>17
  <2> QED BY <1>1, <1>3, <2>1 DEF MatchBefore
<1> HIDE DEF T
<1>19. {m \in T : m.feasible} = T
  BY <1>18
<1> QED BY <1>15, <1>17, <1>19
-----------------------------------------------------------------------------
(* Model to hardware                                                       *)

\* A question about a model that no candidate fails.
AboutModel(q) ==
  /\ q.model \in Models /\ Sized(q.model) /\ RoutingKnown(q.model, q.batch)
  /\ q.context \in Nat /\ q.context > 0 /\ q.batch \in Nat /\ q.batch > 0

\* The configuration of a number of GPUs, a quantization and a runtime.
Configured(q, g, n, w, r) ==
  [gpu |-> g, count |-> n, quant |-> w, runtime |-> r, vram |-> n * g.vram,
   decode |-> DecodeRate(n * g.bw, q.model, w, q.context, q.batch)]

Configurable(g, n, w, r) ==
  /\ g \in Gpus /\ n \in 1 .. MaxGpuCount /\ w \in Quants
  /\ r \in TextRuntimes /\ r \in Runtimes

LEMMA ConfiguredIs ==
  ASSUME NEW q
  PROVE  /\ \A c \in ModelCandidates(q) :
              /\ Configurable(c.gpu, c.count, c.quant, c.runtime)
              /\ c = Configured(q, c.gpu, c.count, c.quant, c.runtime)
         /\ \A g, n, w, r : Configurable(g, n, w, r)
                              => Configured(q, g, n, w, r) \in ModelCandidates(q)
<1>1. ASSUME NEW c \in ModelCandidates(q)
      PROVE  /\ Configurable(c.gpu, c.count, c.quant, c.runtime)
             /\ c = Configured(q, c.gpu, c.count, c.quant, c.runtime)
  <2>1. PICK g \in Gpus, n \in 1 .. MaxGpuCount, w \in Quants, r \in TextRuntimes :
          c = Configured(q, g, n, w, r)
    BY DEF ModelCandidates, Configured
  <2>2. c.gpu = g /\ c.count = n /\ c.quant = w /\ c.runtime = r
    BY <2>1 DEF Configured
  <2>3. r \in Runtimes
    BY DEF TextRuntimes
  <2> QED BY <2>1, <2>2, <2>3 DEF Configurable
<1>2. ASSUME NEW g, NEW n, NEW w, NEW r, Configurable(g, n, w, r)
      PROVE  Configured(q, g, n, w, r) \in ModelCandidates(q)
  BY <1>2 DEF ModelCandidates, Configured, Configurable
<1> QED BY <1>1, <1>2

\* What is read of a configuration.
IsConfig(q, c) ==
  /\ Configurable(c.gpu, c.count, c.quant, c.runtime)
  /\ c.vram = c.count * c.gpu.vram /\ c.vram \in Nat /\ c.vram > 0
  /\ c.decode = DecodeRate(c.count * c.gpu.bw, q.model, c.quant, q.context, q.batch)
  /\ Fraction(c.decode) /\ Fraction(PerGiB(c))
  /\ ConfigPosition(c) \in Tuples(4)

LEMMA ConfigsAre ==
  ASSUME NEW q, AboutModel(q), NEW c \in ModelCandidates(q)
  PROVE  IsConfig(q, c)
<1> DEFINE g == c.gpu
           n == c.count
           w == c.quant
           r == c.runtime
<1>1. Configurable(g, n, w, r) /\ c = Configured(q, g, n, w, r)
  BY ConfiguredIs
<1>2. ConfigPosition(c) = <<g.id, n, w.id, r.id>>
  BY DEF ConfigPosition
<1>3. PerGiB(c) = [n |-> c.decode.n, d |-> c.decode.d * c.vram]
  BY DEF PerGiB
<1> HIDE DEF g, n, w, r
<1>4. c.vram = n * g.vram /\ c.decode = DecodeRate(n * g.bw, q.model, w, q.context, q.batch)
  BY <1>1 DEF Configured
<1>5. g \in Gpus /\ n \in Nat /\ n > 0 /\ w \in Quants /\ r \in Runtimes
  BY <1>1, MatchingAssumption DEF Configurable
<1>6. g.id \in Int /\ w.id \in Int /\ r.id \in Int /\ g.vram \in Nat /\ g.vram > 0 /\ g.bw \in Nat
  BY <1>5, CatalogIs
<1>7. c.vram \in Nat /\ c.vram > 0 /\ n * g.bw \in Nat
  BY <1>4, <1>5, <1>6
<1>8. Fraction(c.decode)
  BY <1>4, <1>5, <1>7, WeightsRead, DecodeRateIs DEF AboutModel
<1>9. Fraction(PerGiB(c))
  <2> DEFINE v == c.vram
             d == c.decode.d
  <2>1. v \in Nat /\ v > 0 /\ d \in Nat /\ d > 0 /\ c.decode.n \in Nat
    BY <1>7, <1>8 DEF Fraction
  <2> HIDE DEF v, d
  <2>2. d * v \in Nat /\ d * v > 0
    BY <2>1
  <2> QED BY <1>3, <2>1, <2>2 DEF Fraction, v, d
<1>10. <<g.id, n, w.id, r.id>> \in Tuples(4)
  BY <1>5, <1>6 DEF Tuples
<1>11. ConfigPosition(c) \in Tuples(4)
  BY <1>2, <1>10
<1> QED BY <1>1, <1>4, <1>7, <1>8, <1>9, <1>11 DEF IsConfig, g, n, w, r

LEMMA ConfigsFinite ==
  ASSUME NEW q, AboutModel(q)
  PROVE  /\ IsFiniteSet(FeasibleConfigs(q))
         /\ \A c, d \in FeasibleConfigs(q) : ConfigPosition(c) = ConfigPosition(d) => c = d
<1> DEFINE S == FeasibleConfigs(q)
           N == 1 .. MaxGpuCount
           T == (Gpus \X N) \X (Quants \X Runtimes)
           f == [c \in S |-> << <<c.gpu, c.count>>, <<c.quant, c.runtime>> >>]
<1>1. \A c \in S : /\ IsConfig(q, c)
                   /\ c = Configured(q, c.gpu, c.count, c.quant, c.runtime)
  BY ConfigsAre, ConfiguredIs DEF FeasibleConfigs
<1> HIDE DEF S
<1>2. f \in [S -> T]
  BY <1>1 DEF IsConfig, Configurable
<1>3. ASSUME NEW c \in S, NEW d \in S, c.gpu = d.gpu, c.count = d.count,
             c.quant = d.quant, c.runtime = d.runtime
      PROVE  c = d
  BY <1>1, <1>3
<1>4. f \in Injection(S, T)
  <2>1. ASSUME NEW c \in S, NEW d \in S, f[c] = f[d] PROVE c = d
    BY <1>3, <2>1
  <2> HIDE DEF f
  <2> QED BY <1>2, <2>1 DEF Injection, IsInjective
<1>5. IsFiniteSet(T)
  <2>1. IsFiniteSet(N)
    <3>1. 1 \in Int /\ MaxGpuCount \in Int
      BY MatchingAssumption
    <3> QED BY <3>1, FS_Interval
  <2> HIDE DEF N
  <2>2. IsFiniteSet(Gpus \X N) /\ IsFiniteSet(Quants \X Runtimes)
    BY <2>1, CatalogIs, FS_Product
  <2> QED BY <2>2, FS_Product
<1> HIDE DEF f, T
<1>6. IsFiniteSet(S)
  BY <1>4, <1>5, FS_Injection
<1>7. ASSUME NEW c \in S, NEW d \in S, ConfigPosition(c) = ConfigPosition(d) PROVE c = d
  <2>1. /\ c.gpu.id = d.gpu.id /\ c.count = d.count
        /\ c.quant.id = d.quant.id /\ c.runtime.id = d.runtime.id
    BY <1>7 DEF ConfigPosition
  <2>2. c.gpu = d.gpu /\ c.quant = d.quant /\ c.runtime = d.runtime
    BY <1>1, <2>1, CatalogIs DEF IsConfig, Configurable
  <2> QED BY <1>3, <2>1, <2>2
<1> QED BY <1>6, <1>7 DEF S

(* Of two configurations one at most is the worse, and a third lies on one *)
(* side of them.                                                           *)
LEMMA WorseIs ==
  ASSUME NEW role \in Roles, NEW q, AboutModel(q), NEW a, NEW b, NEW c,
         IsConfig(q, a), IsConfig(q, b), IsConfig(q, c), Worse(role, a, b)
  PROVE  ~Worse(role, b, a) /\ (Worse(role, a, c) \/ Worse(role, c, b))
<1>1. CASE role = "minimum"
  <2>1. a.vram \in Nat /\ b.vram \in Nat /\ c.vram \in Nat
    BY DEF IsConfig
  <2>2. \A x, y : Worse(role, x, y) <=> x.vram > y.vram
    BY <1>1 DEF Worse
  <2> QED BY <2>1, <2>2
<1>2. CASE role = "recommended"
  <2>1. Fraction(a.decode) /\ Fraction(b.decode) /\ Fraction(c.decode)
    BY DEF IsConfig
  <2>2. \A x, y : Worse(role, x, y) <=> Slower(x.decode, y.decode)
    BY <1>2 DEF Worse
  <2> QED BY <2>1, <2>2, SlowerIs, SlowerTransitive
<1>3. CASE role = "cost_efficient"
  <2>1. Fraction(PerGiB(a)) /\ Fraction(PerGiB(b)) /\ Fraction(PerGiB(c))
    BY DEF IsConfig
  <2>2. \A x, y : Worse(role, x, y) <=> Slower(PerGiB(x), PerGiB(y))
    BY <1>3 DEF Worse
  <2> QED BY <2>1, <2>2, SlowerIs, SlowerTransitive
<1> QED BY <1>1, <1>2, <1>3 DEF Roles

(* The best configuration exists, and nothing feasible is better.          *)
LEMMA BestIsChosen ==
  ASSUME NEW role \in Roles, NEW q, AboutModel(q), FeasibleConfigs(q) # {}
  PROVE  /\ ConfigFor(role, FeasibleConfigs(q)) \in FeasibleConfigs(q)
         /\ \A d \in FeasibleConfigs(q) : ~Worse(role, ConfigFor(role, FeasibleConfigs(q)), d)
<1> DEFINE S == FeasibleConfigs(q)
           A == {p \in S \X S : Worse(role, p[2], p[1])}
           pos == [c \in S |-> ConfigPosition(c)]
           R == Tied(S, A, pos)
           c == ConfigFor(role, S)
           Beats(x, y) == \/ Worse(role, y, x)
                          \/ ~Worse(role, x, y) /\ LexLess(ConfigPosition(x), ConfigPosition(y))
<1>1. \A x \in S : IsConfig(q, x)
  BY ConfigsAre DEF FeasibleConfigs
<1>2. IsFiniteSet(S) /\ \A x, y \in S : ConfigPosition(x) = ConfigPosition(y) => x = y
  BY ConfigsFinite
<1>3. c = CHOOSE x \in S : \A y \in S \ {x} : Beats(x, y)
  BY DEF ConfigFor
<1>4. S # {}
  OBVIOUS
<1> HIDE DEF S, c
<1>5. \A x, y \in S : <<x, y>> \in A <=> Worse(role, y, x)
  OBVIOUS
<1>6. \A x \in S : pos[x] = ConfigPosition(x) /\ pos[x] \in Tuples(4)
  BY <1>1 DEF IsConfig
<1> HIDE DEF A, pos
<1>7. Weak(S, A)
  <2>1. ASSUME NEW x \in S, NEW y \in S, <<x, y>> \in A PROVE <<y, x>> \notin A
    <3>1. Worse(role, y, x)
      BY <1>5, <2>1
    <3>2. ~Worse(role, x, y)
      BY <1>1, <3>1, WorseIs
    <3> QED BY <1>5, <3>2
  <2>2. ASSUME NEW x \in S, NEW y \in S, NEW z \in S, <<x, z>> \in A
        PROVE  <<x, y>> \in A \/ <<y, z>> \in A
    <3>1. Worse(role, z, x)
      BY <1>5, <2>2
    <3>2. Worse(role, z, y) \/ Worse(role, y, x)
      BY <1>1, <3>1, WorseIs
    <3> QED BY <1>5, <3>2
  <2> QED BY <2>1, <2>2 DEF Weak
<1>8. Keyed(S, pos, 4) /\ \A x, y \in S : pos[x] = pos[y] => x = y
  BY <1>2, <1>6 DEF Keyed
<1>9. /\ Lines(S, R)
      /\ \A x, y \in S : <<x, y>> \in R
           <=> <<x, y>> \in A \/ (<<y, x>> \notin A /\ LexLess(pos[x], pos[y]))
  BY <1>7, <1>8, TiesAreBroken
<1> HIDE DEF R
<1>10. PICK x \in S : \A y \in S \ {x} : <<x, y>> \in R
  BY <1>4, <1>9, LinesHaveAFirst
<1>11. ASSUME NEW y \in S \ {x} PROVE Beats(x, y)
  <2>1. pos[x] = ConfigPosition(x) /\ pos[y] = ConfigPosition(y)
    BY <1>6
  <2>2. <<x, y>> \in A \/ (<<y, x>> \notin A /\ LexLess(pos[x], pos[y]))
    BY <1>9, <1>10
  <2>3. (<<x, y>> \in A <=> Worse(role, y, x)) /\ (<<y, x>> \in A <=> Worse(role, x, y))
    BY <1>5
  <2>4. LexLess(pos[x], pos[y]) <=> LexLess(ConfigPosition(x), ConfigPosition(y))
    BY <2>1
  <2> QED BY <2>2, <2>3, <2>4
<1>12. c \in S /\ \A y \in S \ {c} : Beats(c, y)
  <2> HIDE DEF Beats
  <2> QED BY <1>3, <1>11
<1>13. ASSUME NEW d \in S, Worse(role, c, d) PROVE FALSE
  <2>1. ~Worse(role, d, c)
    BY <1>1, <1>12, <1>13, WorseIs
  <2>2. d # c
    BY <1>13, <2>1
  <2> QED BY <1>12, <1>13, <2>1, <2>2
<1> QED BY <1>12, <1>13 DEF S, c
-----------------------------------------------------------------------------
(* What the two services answer                                            *)

LEMMA AskedIs ==
  ASSUME TypeOK
  PROVE  /\ Asking("hardware") => AboutHardware(asked)
         /\ Asking("model") /\ ~ModelFails(asked) => AboutModel(asked)
         /\ Asking("model") => /\ asked.model \in Models /\ asked.context \in Nat
                               /\ asked.context > 0 /\ asked.batch \in Nat /\ asked.batch > 0
         /\ Asking("prior") => /\ asked.model \in Models /\ asked.quant \in Quants \cup {None}
                               /\ asked.gpu \in Gpus \cup {None}
                               /\ asked.context \in (Nat \ {0}) \cup {None}
<1>1. \A kind \in {"hardware", "model", "prior"} : Asking(kind) => asked \in Questions
  BY DEF TypeOK, QuestionsOK, Nothing, Asking
<1>2. Asking("hardware") => AboutHardware(asked)
  <2>1. SUFFICES ASSUME Asking("hardware") PROVE AboutHardware(asked)
    OBVIOUS
  <2>2. asked \in [kind : {"hardware"}, gpus : SUBSET Gpus, count : Nat \ {0},
                   family : STRING, context : Nat \ {0}, priority : STRING]
    BY <1>1, <2>1, RequestsAssumption DEF Asking
  <2> QED BY <2>2 DEF AboutHardware
<1>3. Asking("model") => /\ asked.model \in Models /\ asked.context \in Nat
                         /\ asked.context > 0 /\ asked.batch \in Nat /\ asked.batch > 0
  BY <1>1, RequestsAssumption DEF Asking
<1>4. Asking("model") /\ ~ModelFails(asked) => AboutModel(asked)
  BY <1>3 DEF AboutModel, ModelFails
<1>5. Asking("prior") => /\ asked.model \in Models /\ asked.quant \in Quants \cup {None}
                         /\ asked.gpu \in Gpus \cup {None}
                         /\ asked.context \in (Nat \ {0}) \cup {None}
  BY <1>1, RequestsAssumption DEF Asking
<1> QED BY <1>2, <1>3, <1>4, <1>5

LEMMA ChecksAgree ==
  ASSUME TypeOK
  PROVE  FeasibilityAgrees
<1> SUFFICES ASSUME Asking("model"), ~ModelFails(asked), NEW c \in ModelCandidates(asked)
             PROVE  ContextFits(asked.model, c.quant, c.runtime.engine, asked.context,
                                asked.batch, c.vram)
                    <=> /\ FootprintFits(asked.model, c.quant, c.runtime.engine,
                                         asked.context, asked.batch, c.vram)
                        /\ asked.context <= asked.model.maxContext
  BY DEF FeasibilityAgrees
<1>1. AboutModel(asked)
  BY AskedIs
<1>2. c.quant \in Quants /\ c.vram \in Nat
  BY <1>1, ConfigsAre DEF IsConfig, Configurable
<1> QED BY <1>1, <1>2, FitsIff DEF AboutModel

LEMMA PriorsAgree ==
  ASSUME TypeOK
  PROVE  PriorAgrees
<1> DEFINE q == [kind |-> "hardware", gpus |-> {asked.gpu}, count |-> 1,
                 priority |-> "balanced", family |-> asked.model.family,
                 context |-> IF asked.context = None THEN 4 ELSE asked.context]
<1> SUFFICES ASSUME Asking("prior"), NEW rate \in RooflinePrior(asked),
                    NEW m \in HardwareCandidates(q), m.model = asked.model,
                    m.quant = asked.quant
             PROVE  SameRate(m.decode, rate)
  BY DEF PriorAgrees
<1> DEFINE g == asked.gpu
           c == PriorContext(asked)
<1>1. /\ asked.model \in Models /\ asked.quant \in Quants \cup {None}
      /\ g \in Gpus \cup {None} /\ asked.context \in (Nat \ {0}) \cup {None}
  BY AskedIs
<1>2. g # None /\ asked.quant # None
      /\ rate = DecodeRate(g.bw, asked.model, asked.quant, c, 1)
  BY DEF RooflinePrior
<1>3. c = (IF asked.context = None THEN 4 ELSE asked.context) /\ c \in Nat /\ c > 0
  BY <1>1 DEF PriorContext, DefaultContext
<1>4. q.gpus = {g} /\ q.count = 1 /\ q.context = c
  BY <1>3
<1> HIDE DEF q, g, c
<1>5. g \in Gpus /\ asked.quant \in Quants /\ g.bw \in Nat
  BY <1>1, <1>2, CatalogIs
<1>6. AboutHardware(q)
  BY <1>3, <1>4, <1>5 DEF AboutHardware
<1>7. TotalBandwidth(q) = 1 * g.bw
  BY <1>4, <1>5, <1>6, TotalsAre
<1>8. IsOffer(q, m)
  BY <1>6, OffersAre
<1>9. m.decode = DecodeRate(g.bw, asked.model, asked.quant, c, 1) /\ Fraction(m.decode)
  BY <1>4, <1>5, <1>7, <1>8 DEF IsOffer
<1>10. m.decode = rate
  BY <1>2, <1>9
<1> QED BY <1>9, <1>10, SlowerIs DEF SameRate

LEMMA MatchesAreNoBetter ==
  ASSUME TypeOK
  PROVE  MatchesAreRecommended
<1> SUFFICES ASSUME Asking("hardware"), Cardinality(asked.gpus) = 1,
                    asked.count <= MaxGpuCount,
                    NEW m \in HardwareMatches(asked), m.feasible,
                    NEW rc \in ModelConfigs([kind |-> "model", model |-> m.model,
                                             context |-> asked.context, batch |-> 1])
             PROVE  /\ rc.role = "minimum" => rc.config.vram <= TotalVram(asked)
                    /\ rc.role = "recommended" => ~Slower(rc.config.decode, m.decode)
  BY DEF MatchesAreRecommended
<1> DEFINE q == [kind |-> "model", model |-> m.model, context |-> asked.context, batch |-> 1]
           k == asked.count
<1>1. AboutHardware(asked)
  BY AskedIs
<1>2. PICK g \in Gpus : asked.gpus = {g}
  <2>1. asked.gpus \in SUBSET Gpus /\ IsFiniteSet(asked.gpus)
    BY <1>1, CatalogIs, FS_Subset DEF AboutHardware
  <2>2. \E g : asked.gpus = {g}
    BY <2>1, FS_Singleton
  <2> QED BY <2>1, <2>2
<1>3. TotalVram(asked) = k * g.vram /\ TotalBandwidth(asked) = k * g.bw
  BY <1>1, <1>2, TotalsAre
<1>4. m \in HardwareCandidates(asked)
  BY DEF HardwareMatches
<1>5. IsOffer(asked, m) /\ m.runtime \in TextRuntimes
  BY <1>1, <1>4, OffersAre, OfferedIs DEF Offerable
<1>6. q.model = m.model /\ q.context = asked.context /\ q.batch = 1
      /\ q.context \in Nat /\ q.context > 0
  BY <1>1 DEF AboutHardware
<1>7. rc \in ModelConfigs(q)
  OBVIOUS
<1> HIDE DEF q
<1>8. AboutModel(q)
  <2>1. RoutingKnown(q.model, q.batch)
    BY <1>6 DEF RoutingKnown
  <2> QED BY <1>5, <1>6, <2>1 DEF AboutModel, IsOffer
<1> DEFINE d == Configured(q, g, k, m.quant, m.runtime)
<1>9. d \in ModelCandidates(q)
  <2>1. k \in 1 .. MaxGpuCount
    BY <1>1, MatchingAssumption DEF AboutHardware
  <2>2. Configurable(g, k, m.quant, m.runtime)
    BY <1>5, <2>1 DEF Configurable, IsOffer
  <2> QED BY <2>2, ConfiguredIs
<1>10. /\ d.quant = m.quant /\ d.runtime = m.runtime /\ d.vram = TotalVram(asked)
       /\ d.decode = DecodeRate(k * g.bw, m.model, m.quant, asked.context, 1)
  BY <1>3, <1>6 DEF Configured
<1>11. d.decode = m.decode
  BY <1>3, <1>5, <1>10 DEF IsOffer
<1> HIDE DEF d
<1>12. d \in FeasibleConfigs(q)
  <2>1. Feasible(m.model, m.quant, m.runtime, asked.context, 1, TotalVram(asked))
    BY <1>5 DEF IsOffer
  <2> QED BY <1>6, <1>9, <1>10, <2>1 DEF FeasibleConfigs
<1>13. FeasibleConfigs(q) # {}
  BY <1>12
<1>14. PICK role \in Roles : rc = [role |-> role, config |-> ConfigFor(role, FeasibleConfigs(q))]
  BY <1>7, <1>13 DEF ModelConfigs
<1>15. rc.role = role /\ rc.config = ConfigFor(role, FeasibleConfigs(q))
  BY <1>14
<1>16. rc.config \in FeasibleConfigs(q) /\ ~Worse(role, rc.config, d)
  BY <1>8, <1>12, <1>13, <1>15, BestIsChosen
<1>17. IsConfig(q, rc.config) /\ IsConfig(q, d)
  BY <1>8, <1>12, <1>16, ConfigsAre DEF FeasibleConfigs
<1>18. rc.role = "minimum" => rc.config.vram <= d.vram
  BY <1>15, <1>16, <1>17 DEF Worse, IsConfig
<1>19. rc.role = "recommended" => ~Slower(rc.config.decode, d.decode)
  BY <1>15, <1>16 DEF Worse
<1> QED BY <1>10, <1>11, <1>18, <1>19

LEMMA ConfigsConfirmed ==
  ASSUME TypeOK
  PROVE  ConfigsAreConfirmed
<1> SUFFICES ASSUME Asking("model"), ~ModelFails(asked), NEW rc \in ModelConfigs(asked)
             PROVE  LET c == rc.config
                        q == Opposite(c)
                    IN  \/ HardwareFails(q)
                        \/ Cardinality({m \in HardwareMatches(q) : m.feasible}) = MaxMatches
                        \/ \E m \in HardwareMatches(q) :
                             /\ m.feasible /\ m.model = asked.model
                             /\ m.quant = c.quant /\ m.runtime = c.runtime
                             /\ asked.batch = 1 => SameRate(m.decode, c.decode)
  BY DEF ConfigsAreConfirmed
<1> DEFINE c == rc.config
           g == c.gpu
           q == Opposite(c)
           x == Offered(q, asked.model, c.quant, c.runtime)
<1>1. AboutModel(asked)
  BY AskedIs
<1>2. FeasibleConfigs(asked) # {}
      /\ \E role \in Roles : rc = [role |-> role, config |-> ConfigFor(role, FeasibleConfigs(asked))]
  BY DEF ModelConfigs
<1>3. c \in FeasibleConfigs(asked)
  <2>1. PICK role \in Roles :
          rc = [role |-> role, config |-> ConfigFor(role, FeasibleConfigs(asked))]
    BY <1>2
  <2>2. c = ConfigFor(role, FeasibleConfigs(asked))
    BY <2>1
  <2> QED BY <1>1, <1>2, <2>2, BestIsChosen
<1>4. c \in ModelCandidates(asked)
      /\ Feasible(asked.model, c.quant, c.runtime, asked.context, asked.batch, c.vram)
  BY <1>3 DEF FeasibleConfigs
<1>5. IsConfig(asked, c)
  BY <1>1, <1>4, ConfigsAre
<1>6. g \in Gpus /\ c.count \in Nat /\ c.count > 0 /\ c.quant \in Quants
      /\ c.runtime \in TextRuntimes /\ c.runtime \in Runtimes
      /\ c.vram = c.count * g.vram /\ c.vram \in Nat
      /\ c.decode = DecodeRate(c.count * g.bw, asked.model, c.quant, asked.context, asked.batch)
  BY <1>5, MatchingAssumption DEF IsConfig, Configurable
<1>7. q.gpus = {g} /\ q.count = c.count /\ q.priority = "balanced"
      /\ q.family = asked.model.family /\ q.context = asked.context
  BY DEF Opposite
<1> HIDE DEF c, g, q
<1>8. AboutHardware(q) /\ q.priority # "latency"
  BY <1>1, <1>6, <1>7 DEF AboutHardware, AboutModel
<1>9. TotalVram(q) = c.vram /\ TotalBandwidth(q) = c.count * g.bw
  BY <1>6, <1>7, <1>8, TotalsAre
<1>10. x \in HardwareCandidates(q)
  <2>1. Offerable(q, asked.model, c.quant, c.runtime)
    BY <1>1, <1>6, <1>7 DEF Offerable, AboutModel
  <2> QED BY <2>1, OfferedIs
<1>11. x.model = asked.model /\ x.quant = c.quant /\ x.runtime = c.runtime
  BY DEF Offered
<1>12. IsOffer(q, x)
  BY <1>8, <1>10, OffersAre
<1> HIDE DEF x
<1>13. x.feasible
  <2>1. Feasible(asked.model, c.quant, c.runtime, asked.context, 1, c.vram)
    <3>1. 1 \in Nat /\ 1 > 0 /\ 1 <= asked.batch
      BY <1>1 DEF AboutModel
    <3>2. c.vram <= c.vram
      BY <1>6
    <3> QED BY <1>1, <1>4, <1>6, <3>1, <3>2, FeasibleGrows DEF AboutModel
  <2> QED BY <1>7, <1>9, <1>11, <1>12, <2>1 DEF IsOffer
<1>14. asked.batch = 1 => SameRate(x.decode, c.decode)
  <2>1. SUFFICES ASSUME asked.batch = 1 PROVE SameRate(x.decode, c.decode)
    OBVIOUS
  <2>2. x.decode = c.decode /\ Fraction(x.decode)
    BY <1>6, <1>7, <1>9, <1>11, <1>12, <2>1 DEF IsOffer
  <2> QED BY <2>2, SlowerIs DEF SameRate
<1>15. CASE x \in HardwareMatches(q)
  BY <1>11, <1>13, <1>14, <1>15 DEF c, q
<1>16. CASE x \notin HardwareMatches(q)
  <2>1. Cardinality({m \in HardwareMatches(q) : m.feasible}) = MaxMatches
    BY <1>8, <1>10, <1>13, <1>16, FullOfFeasible
  <2> QED BY <2>1 DEF c, q
<1> QED BY <1>15, <1>16

LEMMA GrowthKeeps ==
  ASSUME TypeOK
  PROVE  GrowthKeepsFeasible
<1> DEFINE more == [asked EXCEPT !.count = @ + 1]
<1> SUFFICES ASSUME Asking("hardware")
             PROVE  /\ (\E m \in HardwareMatches(asked) : ~m.feasible) =>
                         \A m \in HardwareCandidates(asked) \ HardwareMatches(asked) : ~m.feasible
                    /\ \A m \in HardwareCandidates(asked) : m.feasible =>
                         \E n \in HardwareCandidates(more) :
                           /\ MatchPosition(n) = MatchPosition(m)
                           /\ n.feasible /\ Slower(m.decode, n.decode)
  BY DEF GrowthKeepsFeasible
<1>1. AboutHardware(asked)
  BY AskedIs
<1>2. more.gpus = asked.gpus /\ more.count = asked.count + 1
      /\ more.context = asked.context /\ more.family = asked.family
  <2>1. asked \in Questions /\ asked.kind = "hardware"
    BY DEF TypeOK, QuestionsOK, Nothing, Asking
  <2>2. asked \in [kind : {"hardware"}, gpus : SUBSET Gpus, count : Nat \ {0},
                   family : STRING, context : Nat \ {0}, priority : STRING]
    BY <2>1, RequestsAssumption
  <2> QED BY <2>2
<1> HIDE DEF more
<1>3. (\E m \in HardwareMatches(asked) : ~m.feasible) =>
        \A m \in HardwareCandidates(asked) \ HardwareMatches(asked) : ~m.feasible
  BY <1>1, FeasibleFirst
<1>4. AboutHardware(more)
  BY <1>1, <1>2 DEF AboutHardware
<1>5. ASSUME NEW m \in HardwareCandidates(asked), m.feasible
      PROVE  \E n \in HardwareCandidates(more) :
               /\ MatchPosition(n) = MatchPosition(m)
               /\ n.feasible /\ Slower(m.decode, n.decode)
  <2> DEFINE n == Offered(more, m.model, m.quant, m.runtime)
             V == TotalVram(asked)
             U == TotalVram(more)
             s == TotalBandwidth(asked)
             t == TotalBandwidth(more)
  <2>1. Offerable(asked, m.model, m.quant, m.runtime) /\ IsOffer(asked, m)
    BY <1>1, OfferedIs, OffersAre
  <2>2. n \in HardwareCandidates(more)
    BY <1>2, <2>1, OfferedIs DEF Offerable
  <2>3. n.model = m.model /\ n.quant = m.quant /\ n.runtime = m.runtime
    BY DEF Offered
  <2>4. IsOffer(more, n)
    BY <1>4, <2>2, OffersAre
  <2>5. V \in Nat /\ U \in Nat /\ V <= U /\ s \in Nat /\ t \in Nat /\ s < t
    <3> DEFINE v == MapThenSumSet(LAMBDA g : g.vram, asked.gpus)
               b == MapThenSumSet(LAMBDA g : g.bw, asked.gpus)
               k == asked.count
    <3>1. V = k * v /\ U = (k + 1) * v /\ s = k * b /\ t = (k + 1) * b
      BY <1>2 DEF TotalVram, TotalBandwidth
    <3>2. k \in Nat /\ asked.gpus # {} /\ asked.gpus \in SUBSET Gpus
      BY <1>1, <2>1 DEF AboutHardware, Offerable
    <3>3. v \in Nat /\ b \in Nat /\ b > 0
      BY <3>2, VramIs, BandwidthIs
    <3> HIDE DEF V, U, s, t, v, b, k
    <3>4. k * v \in Nat /\ k * b \in Nat /\ (k + 1) * v = k * v + v /\ (k + 1) * b = k * b + b
      BY <3>2, <3>3
    <3> QED BY <3>1, <3>3, <3>4
  <2> HIDE DEF n
  <2>6. n.feasible
    <3>1. Feasible(m.model, m.quant, m.runtime, asked.context, 1, V)
      BY <1>5, <2>1 DEF IsOffer
    <3>2. m.model \in Models /\ m.quant \in Quants /\ Sized(m.model)
          /\ asked.context \in Nat /\ asked.context > 0
      BY <1>1, <2>1 DEF IsOffer, AboutHardware
    <3> HIDE DEF V, U
    <3>3. 1 \in Nat /\ 1 > 0 /\ 1 <= 1
      OBVIOUS
    <3>4. Feasible(m.model, m.quant, m.runtime, asked.context, 1, U)
      BY <2>5, <3>1, <3>2, <3>3, FeasibleGrows
    <3> QED BY <1>2, <2>3, <2>4, <3>4 DEF IsOffer, U
  <2>7. Slower(m.decode, n.decode)
    <3> HIDE DEF s, t
    <3>1. m.decode = DecodeRate(s, m.model, m.quant, asked.context, 1)
          /\ n.decode = DecodeRate(t, m.model, m.quant, asked.context, 1)
      BY <1>2, <2>1, <2>3, <2>4 DEF IsOffer, s, t
    <3>2. m.model \in Models /\ m.quant \in Quants /\ asked.context \in Nat /\ asked.context > 0
      BY <1>1, <2>1 DEF IsOffer, AboutHardware
    <3> DEFINE d == m.decode.d
    <3>3. m.decode.n = s /\ n.decode.n = t /\ n.decode.d = d /\ d \in Nat /\ d > 0
      BY <2>5, <3>1, <3>2, LoneRates DEF Fraction
    <3> HIDE DEF d
    <3>4. s * d < t * d
      BY <2>5, <3>3
    <3> QED BY <3>3, <3>4 DEF Slower, d
  <2>8. MatchPosition(n) = MatchPosition(m)
    BY <2>3 DEF MatchPosition
  <2> QED BY <2>2, <2>6, <2>7, <2>8
<1> QED BY <1>3, <1>5

LEMMA BatchesKeep ==
  ASSUME TypeOK
  PROVE  BatchNeverSlower
<1> SUFFICES ASSUME Asking("model"), RoutingKnown(asked.model, 2), AddsUp(asked.model),
                    NEW g \in Gpus, NEW w \in Quants
             PROVE  ~Slower(DecodeRate(g.bw, asked.model, w, asked.context, asked.batch + 1),
                            DecodeRate(g.bw, asked.model, w, asked.context, asked.batch))
  BY DEF BatchNeverSlower
<1>1. asked.model \in Models /\ asked.context \in Nat /\ asked.context > 0
      /\ asked.batch \in Nat /\ asked.batch > 0
  BY AskedIs
<1>2. g.bw \in Nat
  BY CatalogIs
<1> QED BY <1>1, <1>2, BatchesAreNotSlower

(* Whatever the code computes twice, in the footprint and in the context   *)
(* check of the kernel, in the two match services or in the claim prior,   *)
(* comes out the same for any catalog and any question.                    *)
THEOREM ServicesAgree == Spec => []MatchServicesAgree
<1>1. TypeOK => MatchServicesAgree
  BY ChecksAgree, ConfigsConfirmed, MatchesAreNoBetter, PriorsAgree DEF MatchServicesAgree
<1> QED BY <1>1, TypeCorrect, PTL

(* More of the same hardware keeps every feasible candidate and makes it   *)
(* faster, a list that is cut off drops the infeasible first, and one more *)
(* request in the batch lowers no rate of a model whose sizes add up.      *)
THEOREM GrowthHelps == Spec => []GrowthNeverHurts
<1>1. TypeOK => GrowthNeverHurts
  BY GrowthKeeps, BatchesKeep DEF GrowthNeverHurts
<1> QED BY <1>1, TypeCorrect, PTL
=============================================================================
