---------------------------- MODULE MCAccounts -----------------------------
(* Instances of Accounts for TLC: every login tries the same handles, and   *)
(* two of the three identities are of one provider.                        *)
EXTENDS Accounts

CONSTANTS h1, h2, i1, i2, i3

MCProvider   == [i \in Identities |-> IF i = i3 THEN "huggingface" ELSE "github"]
MCCandidates == [i \in Identities |-> <<h1, h2>>]

AccountSymmetry == Permutations(Passkeys) \cup Permutations(Challenges)
                   \cup Permutations(Threads) \cup Permutations({i1, i2})
=============================================================================
