------------------------------ MODULE PoolMatch ------------------------------
(***************************************************************************)
(* The decision engine of the pool backend (src/match.py) and the model    *)
(* pick of the public API (model_pick.py): what is answered from a set of  *)
(* clean benchmark runs.                                                   *)
(*                                                                         *)
(* A run is [id, rig, model, bits, tok, vram]; a rig is [key, mem,         *)
(* unified, bw] and a model [slug, params, category, eval], where keys and *)
(* slugs are numbers in their alphabetical order.  mem, bw, params, vram   *)
(* and eval may be None.  Every number the code rounds to two decimals is  *)
(* counted here in hundredths.                                             *)
(***************************************************************************)
EXTENDS Integers, FiniteSets, Sequences

CONSTANT None       \* a column that is NULL, an answer that is null

\* Sorting by a tuple, as Python compares tuples.
LexLess(s, t) ==
  \E i \in 1..Len(s) : s[i] < t[i] /\ \A j \in 1..(i - 1) : s[j] = t[j]

\* The first k elements of S in the order of key, a function on S.
FirstK(S, key, k) ==
  {x \in S : Cardinality({y \in S : LexLess(key[y], key[x])}) < k}

\* The element of S that comes k-th in that order.
Nth(S, key, k) ==
  CHOOSE x \in S : Cardinality({y \in S : LexLess(key[y], key[x])}) = k - 1

Median(runs, value) ==
  LET key == [r \in runs |-> <<value[r], r.id>>]
      n   == Cardinality(runs)
  IN  50 * (value[Nth(runs, key, (n + 1) \div 2)] + value[Nth(runs, key, (n + 2) \div 2)])
------------------------------------------------------------------------------
(* Fit: the memory a model needs against what a rig can use                *)

UsableMem(rig) == rig.mem * (IF rig.unified THEN 75 ELSE 90)

VramSamples(runs, model, bits) ==
  {r \in runs : r.model = model.slug /\ r.bits = bits /\ r.vram # None}

\* A median of two samples or more, else the formula 0.15 * bits * params + 2.
VramNeeded(runs, model, bits) ==
  LET samples == VramSamples(runs, model, bits)
  IN  IF Cardinality(samples) >= 2
      THEN Median(samples, [r \in samples |-> r.vram])
      ELSE IF model.params = None THEN None
      ELSE 15 * bits * model.params + 200

FitTight == 12      \* FIT_TIGHT and FIT_OK, in percent
FitOk    == 35

FitClass(runs, rig, model, bits) ==
  LET need     == VramNeeded(runs, model, bits)
      usable   == UsableMem(rig)
      headroom == 100 * (usable - need)
  IN  IF rig.mem = None \/ need = None THEN None
      ELSE IF need > usable THEN "no"
      ELSE IF headroom < FitTight * usable THEN "tight"
      ELSE IF headroom < FitOk * usable THEN "ok" ELSE "head"

Fitting == {"ok", "head"}
------------------------------------------------------------------------------
(* Speed: the ladder measured, reported, extrapolated, nothing             *)

MinRunsMeasured == 3
BasisWeight == [measured |-> 3, reported |-> 2, extrapolated |-> 1]

Cell(runs, rig, model, bits) ==
  {r \in runs : r.rig = rig.key /\ r.model = model.slug /\ r.bits = bits}

CellMedian(cell) == Median(cell, [r \in cell |-> r.tok])

\* Other rigs of known bandwidth with a cell of the model, largest cell first.
Source(runs, rigs, rig, model, bits) ==
  LET others == {o \in rigs : /\ o.key # rig.key /\ o.bw # None
                              /\ Cell(runs, o, model, bits) # {}}
  IN  FirstK(others,
        [o \in others |-> <<-Cardinality(Cell(runs, o, model, bits)), o.key>>], 1)

EstimateTrusted(runs, rigs, rig, model, bits) ==   \* mutant: three runs or none
  LET own == Cell(runs, rig, model, bits)
  IN  IF own # {}
      THEN {[value |-> CellMedian(own), n |-> Cardinality(own), basis |-> "measured"] :
              x \in {c \in {own} : Cardinality(c) >= MinRunsMeasured}}
      ELSE {[value |-> CellMedian(Cell(runs, o, model, bits)),
             n |-> Cardinality(Cell(runs, o, model, bits)),
             basis |-> "extrapolated"] :
              o \in IF rig.bw = None THEN {}
                    ELSE Source(runs, rigs, rig, model, bits)}

Estimate(runs, rigs, rig, model, bits) ==
  LET own == Cell(runs, rig, model, bits)
  IN  IF own # {}
      THEN {[value |-> CellMedian(own), n |-> Cardinality(own),
             basis |-> IF Cardinality(own) >= MinRunsMeasured
                       THEN "measured" ELSE "reported"]}
      ELSE {[value |-> (2 * CellMedian(Cell(runs, o, model, bits)) * rig.bw
                          + o.bw) \div (2 * o.bw),
             n |-> Cardinality(Cell(runs, o, model, bits)),
             basis |-> "extrapolated"] :
              o \in IF rig.bw = None THEN {}
                    ELSE Source(runs, rigs, rig, model, bits)}
------------------------------------------------------------------------------
(* The two questions of the pool API                                       *)

\* What build_rigs lists: the rigs of the clean runs.
PoolRigs(runs, rigs) == {g \in rigs : \E r \in runs : r.rig = g.key}

\* Does the pick a outrank b: basis, speed, slug, bits.
Better(a, b) ==
  \/ BasisWeight[a.est.basis] > BasisWeight[b.est.basis]
  \/ /\ a.est.basis = b.est.basis
     /\ \/ a.est.value > b.est.value
        \/ /\ a.est.value = b.est.value
           /\ \/ a.slug < b.slug
              \/ a.slug = b.slug /\ a.bits < b.bits

RankKey(p) == <<-BasisWeight[p.est.basis], -p.est.value, p.slug, p.bits>>

\* The ok and head candidates of one model that have an estimate.
PickCandidates(runs, rigs, rig, model) ==
  UNION {{[slug |-> model.slug, bits |-> b, est |-> e,
           fit |-> FitClass(runs, rig, model, b)] :
            e \in Estimate(runs, PoolRigs(runs, rigs), rig, model, b)} :
          b \in {c \in {r.bits : r \in {x \in runs : x.model = model.slug}} :
                   FitClass(runs, rig, model, c) \in Fitting}}

TopPicksLast(runs, rigs, rig, models, k) ==   \* mutant: the last bits win
  LET best == UNION {{c \in PickCandidates(runs, rigs, rig, m) :
                        \A d \in PickCandidates(runs, rigs, rig, m) :
                          d.bits <= c.bits} : m \in models}
  IN  FirstK(best, [p \in best |-> RankKey(p)], k)

TopPicks(runs, rigs, rig, models, k) ==
  LET best == UNION {{c \in PickCandidates(runs, rigs, rig, m) :
                        \A d \in PickCandidates(runs, rigs, rig, m) :
                          d = c \/ Better(c, d)} :
                       m \in {x \in models : \E r \in runs : r.model = x.slug}}
  IN  FirstK(best, [p \in best |-> RankKey(p)], k)

\* A rig with a cell, or one the formula fits; est is {} when nothing is known.
HardwareKey(h) ==
  <<-(IF h.est = {} THEN 0 ELSE BasisWeight[(CHOOSE e \in h.est : TRUE).basis]),
    -(IF h.est = {} THEN 0 ELSE (CHOOSE e \in h.est : TRUE).value), h.key>>

ModelToHardware(runs, rigs, model, bits, k) ==
  LET listed == {g \in PoolRigs(runs, rigs) :
                   \/ Cell(runs, g, model, bits) # {}
                   \/ FitClass(runs, g, model, bits) \in Fitting}
      answers == {[key |-> g.key, fit |-> FitClass(runs, g, model, bits),
                   est |-> Estimate(runs, PoolRigs(runs, rigs), g, model, bits)] :
                    g \in listed}
  IN  FirstK(answers, [h \in answers |-> HardwareKey(h)], k)
------------------------------------------------------------------------------
(* model_pick: a budget of memory on one rig, from the published snapshot  *)

Peaks(cell) == {r \in cell : r.vram # None}

\* Cells of the rig, of models of the intent, whose measured peak is in budget.
PickCells(runs, models, gpu, category, vram) ==
  {c \in {[model |-> m, bits |-> b, runs |-> Cell(runs, gpu, m, b)] :
            m \in {x \in models : x.category = category},
            b \in {r.bits : r \in runs}} :
     /\ Peaks(c.runs) # {}
     /\ Median(Peaks(c.runs), [r \in Peaks(c.runs) |-> r.vram]) <= 100 * vram}

\* _rank: scored before unscored, score, speed; the confidence before them is
\* one and the same for all models of a snapshot.
PickKey(c) ==
  <<IF c.model.eval = None THEN 1 ELSE 0,
    IF c.model.eval = None THEN 0 ELSE -c.model.eval,
    -CellMedian(c.runs), c.model.slug, c.bits>>
==============================================================================
