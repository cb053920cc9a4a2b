---------------------------- MODULE DigestLedger ----------------------------
(***************************************************************************)
(* What publishing the digest of one date promises while nobody forces a   *)
(* rerun: one claim at a time, at most one post ever visible, and a date   *)
(* that was confirmed or suspended is never claimed again.  It is the      *)
(* contract the state column of daily_digests is there to keep.            *)
(***************************************************************************)
EXTENDS Naturals

CONSTANT Posts       (* the posts the executions may create               *)

VARIABLES phase,     (* open, claimed, confirmed or suspended             *)
          visible    (* posts a reader of the site can see                *)

Init == phase = "open" /\ visible = {}

Claim == phase = "open" /\ phase' = "claimed" /\ UNCHANGED visible

(* Only a claim under which nothing has become visible is given back.      *)
Release ==
  /\ phase = "claimed" /\ visible = {}
  /\ phase' = "open"
  /\ UNCHANGED visible

(* The post appears, perhaps long after its publisher has given up.        *)
Appear(p) ==
  /\ phase \in {"claimed", "suspended"}
  /\ visible = {}
  /\ visible' = {p}
  /\ UNCHANGED phase

Confirm ==
  /\ phase = "claimed" /\ visible # {}
  /\ phase' = "confirmed"
  /\ UNCHANGED visible

Suspend ==
  /\ phase \in {"claimed", "confirmed"}
  /\ phase' = "suspended"
  /\ UNCHANGED visible

Next == Claim \/ Release \/ Confirm \/ Suspend \/ \E p \in Posts : Appear(p)

Spec == Init /\ [][Next]_<<phase, visible>>
=============================================================================
