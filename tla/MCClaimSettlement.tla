------------------------- MODULE MCClaimSettlement -------------------------
(* Instances of ClaimSettlement for TLC.                                   *)
EXTENDS ClaimSettlement, TLC

CONSTANTS u1, u2

(* u1 is one settlement short of tier L1, u2 is new.                       *)
MCStartPoints == [u \in Users |-> IF u = u1 THEN 75 ELSE 0]

SettlementSymmetry == Permutations(Claims) \cup Permutations(Runs)
                      \cup Permutations(Threads) \cup Permutations(Reports)
=============================================================================
