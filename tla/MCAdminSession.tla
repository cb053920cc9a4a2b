--------------------------- MODULE MCAdminSession ---------------------------
(* An instance of AdminSession for TLC.  Nothing tells the members of these *)
(* sets apart.                                                              *)
EXTENDS AdminSession, TLC

Alike ==
  Permutations(Browsers) \cup Permutations(Users) \cup Permutations(Sessions)
    \cup Permutations(Requests)
=============================================================================
