------------------------------ MODULE MCMatching ------------------------------
(* Matching with a discrete, a unified and an unknown rig, three pool models, *)
(* a catalog of a dense and four MoE models and three GPUs.                   *)
EXTENDS Matching

Rig(key, mem, unified, bw) == [key |-> key, mem |-> mem, unified |-> unified, bw |-> bw]
r3090 == Rig(1, 24, FALSE, 9)
mac   == Rig(2, 64, TRUE, 8)
odd   == Rig(3, 40, FALSE, None)
MCRigs == {r3090, mac, odd}

PoolModel(slug, params, eval) ==
  [slug |-> slug, params |-> params, category |-> "chat", eval |-> eval]
MCPoolModels == {PoolModel(1, 7, None), PoolModel(2, 13, 0), PoolModel(3, None, 9)}

Run(id, rig, model, bits, tok, vram) ==
  [id |-> id, rig |-> rig, model |-> model, bits |-> bits, tok |-> tok, vram |-> vram]
MCRuns == {Run(1, 1, 1, 4, 60, 6), Run(2, 1, 1, 4, 66, None), Run(3, 1, 1, 4, 58, 38),
           Run(4, 2, 2, 4, 60, None), Run(5, 2, 1, 8, 60, 8), Run(6, 1, 2, 4, 30, 9)}

Gpu(id, vram, bw, tflops) == [id |-> id, vram |-> vram, bw |-> bw, tflops |-> tflops]
g4 == Gpu(1, 4, 9, 7)
g8 == Gpu(2, 8, 8, 14)
gm1 == Gpu(3, 12, 4, Unknown)
MCGpus == {g4, g8, gm1}

Model(id, isMoe, params, active, experts, perToken, maxContext) ==
  [id |-> id, family |-> "f", moe |-> isMoe, params |-> params, active |-> active,
   layers |-> 2, kv |-> 1, attention |-> 1, experts |-> experts,
   perToken |-> perToken, maxContext |-> maxContext]
dense == Model(1, FALSE, 6, Unknown, 0, 0, 16)
moe  == Model(2, TRUE, 10, 4, 4, 1, 8)
blind == Model(3, TRUE, 8, Unknown, 4, 1, 16)
untold == Model(4, TRUE, 9, 4, 4, Unknown, 8)   \* gemma-4-26b-a4b-it
thin == Model(5, TRUE, 10, 2, 4, 1, 8)          \* Qwen2-57B-A14B
MCModels == {dense, moe, blind, untold, thin}

q4 == [id |-> 1, bits |-> 4, kvBits |-> 2]
q16 == [id |-> 2, bits |-> 16, kvBits |-> 2]
MCQuants == {q4, q16}
MCRuntimes == {[id |-> 1, engine |-> "llama_cpp"], [id |-> 2, engine |-> "vllm"],
               [id |-> 3, engine |-> "comfyui"]}

Entry(id, gpu, context, numbers, peak, source) ==
  [id |-> id, gpu |-> gpu, context |-> context, decode |-> numbers[1],
   prefill |-> numbers[2], quality |-> numbers[3], power |-> numbers[4],
   trust |-> numbers[5], peak |-> peak, capacity |-> 24, submitted |-> id,
   source |-> source]
MCEntries == {Entry(1, 1, 8, <<60, 90, 9, 300, 5>>, 20, TRUE),
              Entry(2, 1, 8, <<50, 90, 9, 250, 5>>, None, TRUE),
              Entry(3, 2, 4, <<70, 80, 8, 0, 6>>, 22, TRUE),
              Entry(4, 1, 8, <<99, 99, 10, 200, 9>>, 23, TRUE),
              Entry(5, 2, 16, <<10, 20, 10, 100, 4>>, 12, FALSE)}

MCAnswered ==
  [kind : {"hardware"}, gpus : {{}, {g4}, {g8}, {g4, g8}}, count : {1, 2, 3},
   family : {"f"}, context : {4, 8, 16}, priority : {"balanced", "latency"}]
  \cup [kind : {"model"}, model : {dense, moe, thin}, context : {4, 16}, batch : {1, 2, 4}]
  \cup [kind : {"prior"}, model : {dense, moe}, quant : {None, q4}, gpu : {None, g4},
        context : {None, 8}]
  \cup [kind : {"pick"}, gpu : {r3090}, intent : {"chat", "image"}, vram : {8, 40},
        limit : {1, 2}]
MCQuestions ==
  MCAnswered \cup [kind : {"model"}, model : {blind, untold}, context : {4},
                   batch : {1, 2}]
MCFailing ==
  MCAnswered \cup [kind : {"hardware"}, gpus : {{gm1}}, count : {1},
                    family : {"f"}, context : {4}, priority : {"latency"}]
==============================================================================
