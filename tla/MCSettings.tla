----------------------------- MODULE MCSettings -----------------------------
(* Instances of Settings for TLC.                                           *)
EXTENDS Settings

Bare ==
  [base_url |-> "", api_key |-> "", model |-> "m0", timeout |-> 1,
   mf_url |-> "", mf_token |-> "", channel |-> "", halo_base_url |-> "",
   halo_token |-> "", output_dir |-> "", cipher |-> TRUE]

(* Nothing set; everything, for either publisher, with and without a key.   *)
SomeEnvironments ==
  LET full == [base_url |-> "e", api_key |-> "envkey", model |-> "m0", timeout |-> 3,
               mf_url |-> "e", mf_token |-> "envkey", channel |-> "", halo_base_url |-> "e",
               halo_token |-> "envkey", output_dir |-> "d", cipher |-> TRUE]
  IN  {Bare, full,
       [full EXCEPT !.channel = "markdown", !.halo_base_url = "", !.timeout = 1,
                    !.cipher = FALSE]}

SomeSealed == [key |-> "sealed key", envkey |-> "sealed envkey", new |-> "sealed new"]
SomeTexts  == {SomeSealed[k] : k \in DOMAIN SomeSealed} \cup {"sealed elsewhere"}

(* Keys of an earlier release, and secrets encrypted with this key or       *)
(* another one.                                                             *)
SomeHistories ==
  LET old == [llm |-> [base_url |-> "u", api_key |-> "key", model |-> "m1", timeout |-> 0],
              miniflux |-> [base_url |-> "u", api_token |-> "key", limit |-> 0],
              publish |-> [provider |-> Missing, target_type |-> "halo",
                           halo_base_url |-> Missing, endpoint |-> "u",
                           halo_token |-> Missing, auth_token |-> "key",
                           output_dir |-> Missing, mode |-> Missing]]
  IN  {old, [old EXCEPT !.llm.api_key = "sealed key", !.miniflux.api_token = "sealed elsewhere",
                       !.publish.target_type = "rss"]}

SomeEdits ==
  [llm |-> {[model |-> "m1", timeout |-> 3]},
   miniflux |-> {[base_url |-> " ", limit |-> 0]},
   publish |-> {[provider |-> "", halo_base_url |-> "u", mode |-> "suggested"],
                [provider |-> "markdown", output_dir |-> "d"]}]
=============================================================================
