---------------------------- MODULE PendingBatch ----------------------------
(***************************************************************************)
(* What one call of ProcessPending promises to the run that makes it: it   *)
(* takes one batch of entries, gives each of them a dossier, and marks the *)
(* batch read as a whole and only when every entry has its dossier.        *)
(***************************************************************************)
EXTENDS Naturals

CONSTANT Entries

VARIABLES batch,        (* the entries of this call                        *)
          materialized, (* those with an active dossier                    *)
          read,         (* those marked read                               *)
          verdict       (* open, then ok or error                          *)

vars == <<batch, materialized, read, verdict>>

Init == batch = {} /\ materialized = {} /\ read = {} /\ verdict = "open"

(* An empty listing succeeds at once.                                      *)
Take ==
  /\ verdict = "open" /\ batch = {}
  /\ batch' \in SUBSET Entries
  /\ verdict' = IF batch' = {} THEN "ok" ELSE "open"
  /\ UNCHANGED <<materialized, read>>

Materialize(e) ==
  /\ verdict = "open" /\ e \in batch
  /\ materialized' = materialized \cup {e}
  /\ UNCHANGED <<batch, read, verdict>>

Succeed ==
  /\ verdict = "open" /\ batch # {} /\ batch \subseteq materialized
  /\ read' = batch /\ verdict' = "ok"
  /\ UNCHANGED <<batch, materialized>>

(* A failed call has marked nothing read, unless only the answer of the    *)
(* final request was lost.                                                 *)
Fail ==
  /\ verdict = "open" /\ verdict' = "error"
  /\ read' = read \/ (batch \subseteq materialized /\ read' = batch)
  /\ UNCHANGED <<batch, materialized>>

Next == Take \/ Succeed \/ Fail \/ \E e \in Entries : Materialize(e)

Spec == Init /\ [][Next]_vars
=============================================================================
