-------------------------- MODULE MCIntakePipeline --------------------------
(***************************************************************************)
(* Instances of IntakePipeline for TLC.  Uploads u1, u2 and u3 have         *)
(* different keys in one llm group (three machines measured one model the  *)
(* same way); v1 and v2 are clips of one video group.                      *)
(***************************************************************************)
EXTENDS IntakePipeline, TLC

CONSTANTS u1, u2, u3, v1, v2, k1, k2, k3, kv1, kv2, llm, video

MCLookupOf == [u \in Uploads |->
  CASE u = u1 -> k1 [] u = u2 -> k2 [] u = u3 -> k3 [] u = v1 -> kv1 [] u = v2 -> kv2]
MCGroupOf == [l \in Lookups |-> IF l \in {kv1, kv2} THEN video ELSE llm]

RunSymmetry == Permutations(Runs)
=============================================================================
