------------------------- MODULE MCProcessPending -------------------------
(* Instances of ProcessPending for TLC: listings of up to three entries,   *)
(* one with a duplicate; more entries than workers and fewer.              *)
EXTENDS ProcessPending

Windows == {<<>>, <<7>>, <<7, 8, 7>>, <<7, 8, 9>>}
=============================================================================
