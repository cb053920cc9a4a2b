--------------------------- MODULE MCDailyTrigger ---------------------------
(* Instances of DailyTrigger for TLC: the settings of each run.             *)
EXTENDS DailyTrigger

Shanghai == {[enabled |-> TRUE, zone |-> 0, at |-> a] : a \in {1, 2}}
ForcedLater == {<<"forced", 1>>}
=============================================================================
