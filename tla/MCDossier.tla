----------------------------- MODULE MCDossier -----------------------------
(* Instances of Dossier for TLC.                                            *)
EXTENDS Dossier
=============================================================================
