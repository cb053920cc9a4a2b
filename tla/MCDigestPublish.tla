-------------------------- MODULE MCDigestPublish --------------------------
(* Instances of DigestPublish for TLC: the workers are interchangeable.     *)
EXTENDS DigestPublish, TLC

WorkerSymmetry == Permutations(Workers)
=============================================================================
