---------------------------- MODULE MCDigestRun ----------------------------
(* Instances of DigestRun for TLC: entries with different texts, or with    *)
(* the same text in two feeds.                                              *)
EXTENDS DigestRun, FiniteSets

AllDifferent == [e \in Entries |-> e]
OnePair ==
  LET pair == CHOOSE p \in SUBSET Entries : Cardinality(p) = 2
  IN  [e \in Entries |-> IF e \in pair THEN 0 ELSE 1]
=============================================================================
