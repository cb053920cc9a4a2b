----------------------------- MODULE DossierLog -----------------------------
(***************************************************************************)
(* What SaveActive promises for one article, whoever calls it: a log of    *)
(* dossiers that only grows, one per call that takes effect, its last      *)
(* entry the one readers see.                                              *)
(***************************************************************************)
EXTENDS Naturals, Sequences

CONSTANT Jobs        (* the executions that may write a dossier            *)

VARIABLES
  log,               (* per version the execution that wrote it            *)
  current            (* the version readers see, 0 before the first        *)

Init == log = << >> /\ current = 0

Add(j) ==
  /\ \A v \in DOMAIN log : log[v] # j
  /\ log' = Append(log, j)
  /\ current' = Len(log')

Next == \E j \in Jobs : Add(j)

Spec == Init /\ [][Next]_<<log, current>>
=============================================================================
