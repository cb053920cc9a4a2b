---------------------------- MODULE MCBootstrap -----------------------------
(* Instances of Bootstrap for TLC: a profile and the administrator.         *)
EXTENDS Bootstrap

ProfileAndAdmin == <<"profile", "admin">>
=============================================================================
