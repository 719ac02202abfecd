-------------------------- MODULE MCPoolPipeline ---------------------------
(* Instances of PoolPipeline for TLC: two models of which the remote       *)
(* catalog lists one, two rigs of which the seed knows one and the bundle  *)
(* measured the other, and runs that are plain, too fast on the other rig, *)
(* or not approved.                                                        *)
EXTENDS PoolPipeline

CONSTANTS r1, r2, l1, m1, m2, g1, g2

Plain   == [model |-> m1, rig |-> g1, approved |-> TRUE, bits |-> TRUE,
            single |-> TRUE, spec |-> FALSE, fast |-> FALSE]
TooFast == [Plain EXCEPT !.rig = g2, !.model = m2, !.fast = TRUE]
Refused == [Plain EXCEPT !.approved = FALSE]

MCData         == {Plain, TooFast, Refused}
MCLocalData    == [l \in {l1} |-> [TooFast EXCEPT !.fast = FALSE]]
MCListedModels == {m1}
MCClass        == (m1 :> "audio") @@ (m2 :> "code")
MCFirstListing == <<r1>>
MCFirstData    == (r1 :> Plain) @@ (r2 :> Plain)
=============================================================================
