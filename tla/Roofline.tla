------------------------------ MODULE Roofline -------------------------------
(***************************************************************************)
(* The roofline kernel: memory footprint, context limit, decode and        *)
(* prefill speed of a model on a GPU (packages/roofline-kernel), in whole  *)
(* numbers.                                                                *)
(*                                                                         *)
(* A model is [id, family, moe, params, active, layers, kv, attention,     *)
(* experts, perToken, maxContext], a quantization [id, bits, kvBits] and a *)
(* GPU [id, vram, bw, tflops].  params and active count 2^30 parameters,   *)
(* vram GiB, kv the K and V values of one layer for one token in units of  *)
(* 2^30; active, experts, perToken and tflops may be Unknown.  Memory is   *)
(* counted in 1/800 GiB so that the packing factor 1.05 and the overheads  *)
(* are whole numbers.                                                      *)
(***************************************************************************)
EXTENDS Integers

CONSTANT Unknown    \* a NULL column

GiB == 800

\* eta_pack 1.05 over 8 bits, and only the active weights of an MoE model.
WeightMem(model, quant) ==
  105 * quant.bits * (IF model.moe THEN model.active ELSE model.params)

\* _derive_active_parameter_count raises ValueError: no caller knows the size
\* of one expert.
Sized(model) == ~model.moe \/ model.active # Unknown

KvPerToken(model, quant) == 100 * model.layers * model.kv * quant.kvBits

BaseOverhead(engine) ==
  CASE engine = "llama_cpp" -> 640 [] engine = "vllm" -> 1600 [] OTHER -> 1200

\* Twenty times the peak: weights, KV cache, base and 5% of the first two.
Peak20(weight, kv, base) == 21 * (weight + kv) + 20 * base

Usable20(vram) == 19 * GiB * vram        \* 95% of the capacity, times 20

FootprintFits(model, quant, engine, context, batch, vram) ==
  Peak20(WeightMem(model, quant), KvPerToken(model, quant) * context * batch,
         BaseOverhead(engine)) <= Usable20(vram)

\* Tokens that fit beside the weights and the overhead at the target context.
RawContext(weight, kvToken, base, context, batch, vram) ==
  (Usable20(vram) - 20 * weight - 20 * base
     - (weight + kvToken * context * batch)) \div (20 * (kvToken * batch))

MaxContext(model, quant, engine, context, batch, vram) ==
  LET raw    == RawContext(WeightMem(model, quant), KvPerToken(model, quant),
                           BaseOverhead(engine), context, batch, vram)
      capped == IF raw < model.maxContext THEN raw ELSE model.maxContext
  IN  IF capped < 0 THEN 0 ELSE capped

ContextFits(model, quant, engine, context, batch, vram) ==
  MaxContext(model, quant, engine, context, batch, vram) >= context
------------------------------------------------------------------------------
(* Decode: bytes read in one step, as a fraction n / d of 2^27 bytes       *)

Active(model) == IF model.active = Unknown THEN model.params ELSE model.active

Clamp(n) == IF n < 0 THEN 0 ELSE n

\* shared + experts * size = params and shared + perToken * size = active,
\* over the common denominator experts * (experts - perToken).
SharedParams(model) ==
  Clamp(model.experts * Active(model) - model.perToken * model.params)

ExpertParams(model) ==
  Clamp((model.experts - model.perToken) * model.params - SharedParams(model))

Distinct(model, batch) ==
  IF model.experts < model.perToken * batch THEN model.experts
  ELSE model.perToken * batch

Saturated(model) == model.perToken >= model.experts

Mixture(model) == model.moe /\ model.experts \notin {0, Unknown}

\* experts_per_token * batch_size raises TypeError where the column is NULL.
RoutingKnown(model, batch) ==
  batch > 1 /\ Mixture(model) => model.perToken # Unknown

\* A lone request reads the active weights, a batch of an MoE model the shared
\* ones and the distinct experts it routes to, a dense batch all of them.
StepWeights(model, batch) ==
  IF batch <= 1 THEN [n |-> Active(model), d |-> 1]
  ELSE IF ~Mixture(model) THEN [n |-> model.params, d |-> 1]
  ELSE IF Saturated(model)
       THEN [n |-> Distinct(model, batch) * model.params, d |-> model.experts]
  ELSE [n |-> model.experts * SharedParams(model)
                + Distinct(model, batch) * ExpertParams(model),
        d |-> model.experts * (model.experts - model.perToken)]

\* One layer's K and V for every token: the code does not multiply by layers.
StepBytes(model, quant, context, batch) ==
  LET w == StepWeights(model, batch)
  IN  [n |-> w.n * quant.bits + w.d * model.kv * quant.kvBits * context * batch,
       d |-> w.d]

DecodeRateOfOne(bw, model, quant, context, batch) ==   \* mutant: one request's
  LET step == StepBytes(model, quant, context, batch)
  IN  [n |-> bw * step.d, d |-> step.n]

\* Tokens per second up to the utilization factors, which scale every rate.
DecodeRate(bw, model, quant, context, batch) ==
  LET step == StepBytes(model, quant, context, batch)
  IN  [n |-> batch * bw * step.d, d |-> step.n]

Slower(r, s) == r.n * s.d < s.n * r.d
------------------------------------------------------------------------------
(* Prefill and time to the first token                                     *)

\* A GPU without a tflops figure counts as 0: its prefill speed is 0.
Tflops(gpu) == IF gpu.tflops = Unknown THEN 0 ELSE gpu.tflops

\* 2 * active + 2 * L * H * S * d_h, halved.
FlopsPerToken(model, prompt) == Active(model) + model.attention * prompt

PrefillRate(tflops, model, prompt) ==
  [n |-> tflops, d |-> FlopsPerToken(model, prompt)]

\* prompt / prefill: without a divisor the division raises ZeroDivisionError.
TtftDefined(tflops) == tflops # 0

TtftTime(tflops, model, prompt) ==
  LET rate == PrefillRate(tflops, model, prompt)
  IN  [n |-> prompt * rate.d, d |-> rate.n]
==============================================================================
