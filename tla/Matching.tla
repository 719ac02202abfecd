------------------------------- MODULE Matching -------------------------------
(***************************************************************************)
(* What the platform recommends, and from which evidence:                  *)
(*   - the pool API, from the clean runs of the pool (PoolMatch);          *)
(*   - model_pick of the public API, from the snapshot published last,     *)
(*     by the web pack or by the pool backend;                             *)
(*   - the match services and the claim prior, from the catalog and the    *)
(*     roofline kernel (Roofline);                                         *)
(*   - the leaderboard, from the validated runs.                           *)
(* The evidence only grows; a question may come at any moment.             *)
(***************************************************************************)
EXTENDS PoolMatch, Roofline, FiniteSetsExt

CONSTANTS
  Rigs, PoolModels, Runs,               \* of the pool, as in PoolMatch
  Gpus, Models, Quants, Runtimes,       \* of the catalog, as in Roofline
  Entries,                              \* runs a worker may validate
  Questions,                            \* what may be asked of the services
  TextEngines,                          \* TEXT_GENERATION_ENGINES
  TextIntents,                          \* intents whose metric the cells carry
  MaxMatches, MaxGpuCount               \* MAX_MATCHES, MAX_GPU_COUNT

ASSUME MatchingAssumption ==
  /\ IsFiniteSet(Runs) /\ IsFiniteSet(Rigs) /\ IsFiniteSet(PoolModels)
  /\ IsFiniteSet(Entries) /\ IsFiniteSet(Questions)
  /\ MaxMatches \in Nat \ {0} /\ MaxGpuCount \in Nat \ {0}

\* Numbers of the pool's tables; id, key and slug are their primary keys.
ASSUME EvidenceAssumption ==
  /\ \A r \in Runs : r.id \in Int /\ r.tok \in Int /\ r.bits \in Int
  /\ \A q, r \in Runs : q.id = r.id => q = r
  /\ \A g \in Rigs : g.key \in Int /\ g.bw \in (Nat \ {0}) \cup {None}
  /\ \A g, h \in Rigs : g.key = h.key => g = h
  /\ \A m \in PoolModels : m.slug \in Int /\ m.eval \in Int \cup {None}
  /\ \A m, n \in PoolModels : m.slug = n.slug => m = n

\* The limit of a pick is a number of rows.
ASSUME QuestionsAssumption ==
  \A q \in Questions : q.kind = "pick" => q.limit \in Nat \ {0}

\* A row the kernel's types accept (gpu_spec.py, model_arch.py,
\* quant_profile.py); id is the primary key the queries order by.
ASSUME CatalogAssumption ==
  /\ \A S \in {Gpus, Models, Quants, Runtimes} :
       /\ IsFiniteSet(S) /\ \A x \in S : x.id \in Int
       /\ \A x, y \in S : x.id = y.id => x = y
  /\ \A g \in Gpus : /\ {g.vram, g.bw} \subseteq Nat \ {0}
                    /\ g.tflops \in Nat \cup {Unknown}
  /\ \A m \in Models :
       /\ m.moe \in BOOLEAN /\ {m.layers, m.kv, m.maxContext} \subseteq Nat \ {0}
       /\ {m.params, m.attention} \subseteq Nat
       /\ {m.active, m.experts, m.perToken} \subseteq Nat \cup {Unknown}
  /\ \A w \in Quants : {w.bits, w.kvBits} \subseteq Nat \ {0}

\* hardware_match_request.py, model_match_request.py and claim_schemas.py; the
\* rows that were found.
ASSUME RequestsAssumption ==
  \A q \in Questions :
    /\ q.kind = "hardware" =>
         q \in [kind : {"hardware"}, gpus : SUBSET Gpus, count : Nat \ {0},
               family : STRING, context : Nat \ {0}, priority : STRING]
    /\ q.kind = "model" =>
         q.model \in Models /\ {q.context, q.batch} \subseteq Nat \ {0}
    /\ q.kind = "prior" =>
         /\ q.model \in Models /\ q.quant \in Quants \cup {None}
         /\ q.gpu \in Gpus \cup {None} /\ q.context \in (Nat \ {0}) \cup {None}

\* Numbers of the leaderboard's query.
ASSUME EntriesAssumption ==
  /\ \A e \in Entries :
       {e.id, e.decode, e.prefill, e.context, e.quality, e.trust, e.power} \subseteq Int
  /\ \A d, e \in Entries : d.id = e.id => d = e

VARIABLES
  pool,       \* clean runs of the pool backend
  snapshot,   \* apps/web/data/derived: who published it, from which runs
  board,      \* validated runs
  asked       \* the question that was asked last

vars == <<pool, snapshot, board, asked>>

Nothing == [kind |-> "nothing"]
------------------------------------------------------------------------------
(* Hardware to models                                                      *)

TextRuntimes == {r \in Runtimes : r.engine \in TextEngines}

TotalVram(q) == q.count * MapThenSumSet(LAMBDA g : g.vram, q.gpus)
TotalBandwidth(q) == q.count * MapThenSumSet(LAMBDA g : g.bw, q.gpus)
TotalTflops(q) == q.count * MapThenSumSet(Tflops, q.gpus)

Feasible(model, quant, runtime, context, batch, vram) ==
  /\ FootprintFits(model, quant, runtime.engine, context, batch, vram)
  /\ ContextFits(model, quant, runtime.engine, context, batch, vram)

Prompt == 8                             \* TTFT_PROMPT_TOKENS, in context units

\* One batch; a candidate whose kernel raises ValueError is skipped, and there
\* is none where no id asked about is in the catalog.
HardwareCandidates(q) ==
  {[model |-> m, quant |-> w, runtime |-> r,
    feasible |-> Feasible(m, w, r, q.context, 1, TotalVram(q)),
    decode |-> DecodeRate(TotalBandwidth(q), m, w, q.context, 1),
    ttft |-> TtftTime(TotalTflops(q), m, Prompt)] :
     m \in {x \in Models : q.gpus # {} /\ x.family = q.family /\ Sized(x)},
     w \in Quants, r \in TextRuntimes}

Ahead(q, a, b) ==
  IF q.priority = "latency" THEN Slower(a.ttft, b.ttft)
  ELSE Slower(b.decode, a.decode)

MatchPosition(c) == <<c.model.id, c.quant.id, c.runtime.id>>

MatchBefore(q, a, b) ==
  \/ a.feasible /\ ~b.feasible
  \/ /\ a.feasible = b.feasible
     /\ \/ Ahead(q, a, b)
        \/ ~Ahead(q, b, a) /\ LexLess(MatchPosition(a), MatchPosition(b))

\* ZeroDivisionError in estimate_ttft is not a ValueError: the request fails.
HardwareFails(q) ==
  HardwareCandidates(q) # {} /\ ~TtftDefined(TotalTflops(q))

HardwareMatches(q) ==
  LET all == HardwareCandidates(q)
  IN  {c \in all : Cardinality({d \in all : MatchBefore(q, d, c)}) < MaxMatches}
------------------------------------------------------------------------------
(* Model to hardware                                                       *)

\* No candidate is skipped here: an MoE model without a size, or a batch of one
\* without the experts of a token, fails the request.
ModelFails(q) == ~Sized(q.model) \/ ~RoutingKnown(q.model, q.batch)

ModelCandidatesBelow(q) ==             \* mutant: range(1, MAX_GPU_COUNT)
  {[gpu |-> g, count |-> n, quant |-> w, runtime |-> r, vram |-> n * g.vram,
    decode |-> DecodeRate(n * g.bw, q.model, w, q.context, q.batch)] :
     g \in Gpus, n \in 1..(MaxGpuCount - 1), w \in Quants, r \in TextRuntimes}

ModelCandidates(q) ==
  {[gpu |-> g, count |-> n, quant |-> w, runtime |-> r, vram |-> n * g.vram,
    decode |-> DecodeRate(n * g.bw, q.model, w, q.context, q.batch)] :
     g \in Gpus, n \in 1..MaxGpuCount, w \in Quants, r \in TextRuntimes}

FeasibleConfigs(q) ==
  {c \in ModelCandidates(q) :
     Feasible(q.model, c.quant, c.runtime, q.context, q.batch, c.vram)}

ConfigPosition(c) == <<c.gpu.id, c.count, c.quant.id, c.runtime.id>>

PerGiB(c) == [n |-> c.decode.n, d |-> c.decode.d * c.vram]

Worse(role, a, b) ==
  CASE role = "minimum"        -> a.vram > b.vram
    [] role = "recommended"    -> Slower(a.decode, b.decode)
    [] role = "cost_efficient" -> Slower(PerGiB(a), PerGiB(b))

\* min and max of Python: the first of the best.
ConfigFor(role, S) ==
  CHOOSE c \in S : \A d \in S \ {c} :
    \/ Worse(role, d, c)
    \/ ~Worse(role, c, d) /\ LexLess(ConfigPosition(c), ConfigPosition(d))

Roles == {"minimum", "recommended", "cost_efficient"}

ModelConfigs(q) ==
  IF FeasibleConfigs(q) = {} THEN {}
  ELSE {[role |-> role, config |-> ConfigFor(role, FeasibleConfigs(q))] :
          role \in Roles}
------------------------------------------------------------------------------
(* The prior a new claim is frozen with                                    *)

DefaultContext == 4                     \* DEFAULT_CONTEXT_TOKENS

PriorContext(q) == IF q.context \in {None, 0} THEN DefaultContext ELSE q.context

\* Null unless the GPU and the quantization are known; no answer ever fails.
RooflinePrior(q) ==
  IF None \in {q.gpu, q.quant} THEN {}
  ELSE {DecodeRate(q.gpu.bw, q.model, q.quant, PriorContext(q), 1)}
------------------------------------------------------------------------------
(* The leaderboard                                                         *)

PlaceFeasible(e) ==
  e.peak = None \/ e.capacity = None \/ 100 * e.peak <= 95 * e.capacity

Wanted(e, filter) ==
  /\ e.source
  /\ filter.gpu # None => e.gpu = filter.gpu
  /\ filter.minContext # None => e.context >= filter.minContext

Efficiency(e) == IF e.power <= 0 THEN 0 ELSE (100 * e.decode) \div e.power

\* The six dimensions and their weights in percent.
Dimensions(e) ==
  <<e.decode, e.prefill, e.context, e.quality, Efficiency(e), e.trust>>
Weights == <<30, 20, 15, 15, 10, 10>>

\* Linear interpolation between ranks, times 100.
Percentile(values, pct) ==
  LET rank == pct * (Len(values) - 1)
      low  == values[1 + rank \div 100]
      high == values[1 + (rank + 99) \div 100]
  IN  100 * low + (high - low) * (rank % 100)

\* In thousandths, 1000 where the values do not differ.
RobustMinMax(value, p5, p95) ==
  IF p95 = p5 THEN 1000
  ELSE LET x == (1000 * (100 * value - p5)) \div (p95 - p5)
       IN  IF x < 0 THEN 0 ELSE IF x > 1000 THEN 1000 ELSE x

DimensionValues(entries, i) ==
  LET key == [e \in entries |-> <<Dimensions(e)[i], e.id>>]
  IN  [j \in 1..Cardinality(entries) |-> Dimensions(Nth(entries, key, j))[i]]

RankedWithInfeasible(entries, filter) ==       \* mutant: filter dropped
  {e \in entries : Wanted(e, filter)}

\* The entries the ranges are computed over: filtered and feasible.
Ranked(entries, filter) ==
  {e \in entries : Wanted(e, filter) /\ PlaceFeasible(e)}

RankScore(e, ranked) ==
  LET Part(i) == LET values == DimensionValues(ranked, i)
                 IN  Weights[i] * RobustMinMax(Dimensions(e)[i],
                       Percentile(values, 5), Percentile(values, 95))
  IN  Part(1) + Part(2) + Part(3) + Part(4) + Part(5) + Part(6)

\* Best first; equal scores stay in the order of the query, newest first.
Place(e, ranked) == <<-RankScore(e, ranked), -e.submitted, e.id>>

Page(entries, filter, limit, offset) ==
  LET ranked == Ranked(entries, filter)
      key    == [e \in ranked |-> Place(e, ranked)]
  IN  FirstK(ranked, key, limit + offset) \ FirstK(ranked, key, offset)
------------------------------------------------------------------------------
(* model_pick on the published snapshot                                    *)

\* A rig key that is not in the snapshot, or a bad intent, is a PickError.
PickKnown(q) == q.gpu \in PoolRigs(snapshot.runs, Rigs)

Eligible(q) ==
  IF q.intent \in TextIntents
  THEN PickCells(snapshot.runs, PoolModels, q.gpu, q.intent, q.vram) ELSE {}

Picks(q) == FirstK(Eligible(q), [c \in Eligible(q) |-> PickKey(c)], q.limit)

\* The backend publishes an eval score as a number, the web pack as an object;
\* the service reads .get("score") of whatever is there and not falsy.
PickFails(q) ==
  /\ PickKnown(q) /\ snapshot.by = "backend"
  /\ \E c \in Eligible(q) : c.model.eval \notin {None, 0}
------------------------------------------------------------------------------
(* Steps                                                                   *)

Init ==
  /\ pool = {} /\ board = {} /\ asked = Nothing
  /\ snapshot = [by |-> "web", runs |-> {}]

\* A bound: pool, leaderboard and catalog share no state and no property
\* relates them, so each is explored while the others are at rest.
PoolAtRest  == pool = {}
BoardAtRest == board = {}
AskedAbout(kinds) == asked.kind \in kinds \cup {"nothing"}

AddRun(r) ==
  /\ BoardAtRest /\ AskedAbout({"pick"})
  /\ r \notin pool
  /\ pool' = pool \cup {r}
  /\ UNCHANGED <<snapshot, board, asked>>

Publish(by) ==
  /\ AskedAbout({"pick"})
  /\ snapshot' = [by |-> by, runs |-> pool]
  /\ UNCHANGED <<pool, board, asked>>

Validate(e) ==
  /\ PoolAtRest /\ AskedAbout({})
  /\ e \notin board
  /\ board' = board \cup {e}
  /\ UNCHANGED <<pool, snapshot, asked>>

Ask(q) ==
  /\ BoardAtRest /\ (q.kind = "pick" \/ PoolAtRest)
  /\ asked' = q
  /\ UNCHANGED <<pool, snapshot, board>>

Next ==
  \/ \E r \in Runs : AddRun(r)
  \/ \E by \in {"web", "backend"} : Publish(by)
  \/ \E e \in Entries : Validate(e)
  \/ \E q \in Questions : Ask(q)

Spec == Init /\ [][Next]_vars
------------------------------------------------------------------------------
(* Properties of the pool                                                  *)

QuestionsOK == asked \in Questions \cup {Nothing}

\* The types; and a snapshot holds nothing that the pool does not.
TypeOK ==
  /\ pool \subseteq Runs /\ board \subseteq Entries /\ QuestionsOK
  /\ snapshot.by \in {"web", "backend"} /\ snapshot.runs \subseteq pool

\* Lists that are not cut off: no list is longer than this.
All == Cardinality(Rigs) + Cardinality(PoolModels)

CandidatesOf(g) ==
  UNION {PickCandidates(pool, Rigs, g, m) : m \in PoolModels}

\* The comparison that picks the best quantization of a model and the sort
\* key that ranks models are one strict total order (match.py:126).
RankKeysAgree ==
  \A g \in Rigs : \A a, b \in CandidatesOf(g) :
    /\ Better(a, b) <=> LexLess(RankKey(a), RankKey(b))
    /\ a # b => (Better(a, b) <=> ~Better(b, a))

\* The two questions of the pool API agree: a model picked for a rig lists
\* that rig with the same fit and estimate, and a rig listed for a model that
\* fits with an estimate has a pick of the model that is at least as good.
BothWaysAgree ==
  \A g \in PoolRigs(pool, Rigs) : \A m \in PoolModels :
    LET picks == {p \in TopPicks(pool, Rigs, g, PoolModels, All) :
                    p.slug = m.slug}
    IN  /\ \A p \in picks :
             \E h \in ModelToHardware(pool, Rigs, m, p.bits, All) :
               h.key = g.key /\ h.fit = p.fit /\ h.est = {p.est}
        /\ \A b \in {r.bits : r \in pool} :
             \A h \in ModelToHardware(pool, Rigs, m, b, All) :
               h.key = g.key /\ h.fit \in Fitting =>
                 \A e \in h.est : \E p \in picks :
                   ~Better([slug |-> m.slug, bits |-> b, est |-> e, fit |-> h.fit], p)

\* The weight of the best thing known about a model on a rig, 0 if none.
Basis(runs, g, m) ==
  Max({0} \cup {BasisWeight[c.est.basis] : c \in PickCandidates(runs, Rigs, g, m)})

MemoryKnown(runs, m) == [b \in {r.bits : r \in Runs} |-> VramNeeded(runs, m, b)]

\* More runs never take a model off a rig, nor turn a measured or reported
\* pick into a weaker one, unless they change the memory the model needs.
EvidenceRaisesBasis ==
  [][\A g \in Rigs, m \in PoolModels :
       MemoryKnown(pool', m) = MemoryKnown(pool, m) =>
         Basis(pool', g, m) >= Basis(pool, g, m)]_vars

\* What model_pick.py:120-121 says of the order: the highest score, then the
\* fastest; a model without a score after every scored one.
Preferred(a, b) ==
  \/ a.model.eval # None /\ b.model.eval = None
  \/ a.model.eval # None /\ b.model.eval # None /\ a.model.eval > b.model.eval
  \/ /\ a.model.eval = b.model.eval
     /\ CellMedian(a.runs) > CellMedian(b.runs)

\* The limit never cuts off a pick that is preferred to a listed one.
PicksArePreferred ==
  asked.kind = "pick" =>
    \A a \in Picks(asked), b \in Eligible(asked) \ Picks(asked) : ~Preferred(b, a)

\* What is answered from one set of runs is the same whichever service, and
\* whichever of the two orderings in the code, answers it.
PoolAnswersAgree == RankKeysAgree /\ BothWaysAgree /\ PicksArePreferred
------------------------------------------------------------------------------
(* Properties of the match services                                        *)

Asking(kind) == asked.kind = kind

\* The footprint check and the context check are computed apart, each with
\* the overhead at the target: they disagree for no model, but for a target
\* above the model's own maximum.
FeasibilityAgrees ==
  Asking("model") /\ ~ModelFails(asked) =>
    \A c \in ModelCandidates(asked) :
      ContextFits(asked.model, c.quant, c.runtime.engine, asked.context,
                  asked.batch, c.vram)
      <=> /\ FootprintFits(asked.model, c.quant, c.runtime.engine,
                           asked.context, asked.batch, c.vram)
          /\ asked.context <= asked.model.maxContext

SameRate(r, s) == ~Slower(r, s) /\ ~Slower(s, r)

\* The opposite question about one configuration.
Opposite(c) ==
  [kind |-> "hardware", gpus |-> {c.gpu}, count |-> c.count, priority |-> "balanced",
   family |-> asked.model.family, context |-> asked.context]

\* A configuration recommended for a model is confirmed by the question about
\* that hardware: feasible there, and for a lone request just as fast.
ConfigsAreConfirmed ==
  Asking("model") /\ ~ModelFails(asked) =>
    \A rc \in ModelConfigs(asked) :
      LET c == rc.config
          q == Opposite(c)
      IN  \/ HardwareFails(q)
          \/ Cardinality({m \in HardwareMatches(q) : m.feasible}) = MaxMatches
          \/ \E m \in HardwareMatches(q) :
               /\ m.feasible /\ m.model = asked.model
               /\ m.quant = c.quant /\ m.runtime = c.runtime
               /\ asked.batch = 1 => SameRate(m.decode, c.decode)

\* And a match of one GPU, in a number that the model's question tries as well,
\* is no better than what the model is recommended.
MatchesAreRecommended ==
  Asking("hardware") /\ Cardinality(asked.gpus) = 1 /\ asked.count <= MaxGpuCount =>
    \A m \in {x \in HardwareMatches(asked) : x.feasible} :
      LET q == [kind |-> "model", model |-> m.model, context |-> asked.context,
                batch |-> 1]
      IN  \A rc \in ModelConfigs(q) :
            /\ rc.role = "minimum" => rc.config.vram <= TotalVram(asked)
            /\ rc.role = "recommended" => ~Slower(rc.config.decode, m.decode)

\* A list that is cut off holds nothing infeasible while something feasible
\* is left out, and more of the same hardware keeps every feasible candidate.
GrowthKeepsFeasible ==
  Asking("hardware") =>
    LET more == [asked EXCEPT !.count = @ + 1]
        kept == HardwareMatches(asked)
    IN  /\ (\E m \in kept : ~m.feasible) =>
             \A m \in HardwareCandidates(asked) \ kept : ~m.feasible
        /\ \A m \in HardwareCandidates(asked) : m.feasible =>
             \E n \in HardwareCandidates(more) :
               /\ MatchPosition(n) = MatchPosition(m)
               /\ n.feasible /\ Slower(m.decode, n.decode)

\* The experts of a token are no more than its active weights, and nothing is
\* clamped when the sizes of the two are solved for; no table enforces it.
AddsUp(model) ==
  IF Mixture(model)
  THEN /\ model.perToken * model.params <= model.experts * Active(model)
       /\ Active(model) <= model.params
  ELSE Active(model) = model.params

\* One more request in the batch never lowers the rate of all together, also
\* where an MoE model goes over from its active weights to distinct experts
\* (test_estimate_decode_throughput.py:178-200).
BatchNeverSlower ==
  Asking("model") /\ RoutingKnown(asked.model, 2) /\ AddsUp(asked.model) =>
    \A g \in Gpus, w \in Quants :
      ~Slower(DecodeRate(g.bw, asked.model, w, asked.context, asked.batch + 1),
              DecodeRate(g.bw, asked.model, w, asked.context, asked.batch))

\* The prior a claim is frozen with is the rate the match service answers for
\* that GPU and that context.
PriorAgrees ==
  Asking("prior") =>
    \A rate \in RooflinePrior(asked) :
      LET q == [kind |-> "hardware", gpus |-> {asked.gpu}, count |-> 1,
                priority |-> "balanced", family |-> asked.model.family,
                context |-> IF asked.context = None THEN 4 ELSE asked.context]
      IN  \A m \in HardwareCandidates(q) :
            m.model = asked.model /\ m.quant = asked.quant =>
              SameRate(m.decode, rate)

\* Whatever the code computes twice, in two checks of the kernel or in two
\* services, comes out the same.
MatchServicesAgree ==
  FeasibilityAgrees /\ ConfigsAreConfirmed /\ MatchesAreRecommended /\ PriorAgrees

\* More GPUs and more requests in a batch never worsen an answer.
GrowthNeverHurts == GrowthKeepsFeasible /\ BatchNeverSlower
------------------------------------------------------------------------------
(* Properties of the leaderboard                                           *)

Filters == [gpu : {None} \cup {e.gpu : e \in Entries}, minContext : {None, 8}]

NotWorse(a, b) == \A i \in 1..6 : Dimensions(a)[i] >= Dimensions(b)[i]

\* A run that is as good in every dimension never scores lower, whatever the
\* percentiles of the others are.
BetterRanksHigher ==
  \A filter \in Filters :
    LET ranked == Ranked(board, filter)
    IN  \A a, b \in ranked :
          NotWorse(a, b) => RankScore(a, ranked) >= RankScore(b, ranked)

\* A run that does not fit its GPU, or whose source is unknown, is on no page
\* and moves nobody else's place (query_leaderboard.py:42-46).
HiddenIsInert ==
  \A filter \in Filters, e \in board :
    ~(e.source /\ PlaceFeasible(e)) =>
      Page(board, filter, 2, 0) = Page(board \ {e}, filter, 2, 0)

\* A place on the leaderboard depends on the visible runs alone, and a run
\* that is better all round is not below.
RankingIsFair == BetterRanksHigher /\ HiddenIsInert
------------------------------------------------------------------------------
(* What the services say they answer, and do not always                    *)

AnswersNeverFail ==
  /\ Asking("hardware") => ~HardwareFails(asked)
  /\ Asking("model") => ~ModelFails(asked)
  /\ Asking("pick") => ~PickFails(asked)
==============================================================================
