-------------------------- MODULE MCProfileConfig --------------------------
(* Instances of ProfileConfig for TLC: a key for every version, in any      *)
(* order.                                                                   *)
EXTENDS ProfileConfig, FiniteSets, TLC

EnoughIds == 1 .. Cardinality(Requests) + 1

RequestSymmetry == Permutations(Requests)
=============================================================================
