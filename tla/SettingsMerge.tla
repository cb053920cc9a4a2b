--------------------------- MODULE SettingsMerge ----------------------------
(***************************************************************************)
(* What is in effect of a stored profile.  The worker merges its payload   *)
(* with the environment in RuntimeConfigService.Snapshot; the console has  *)
(* a merge of its own in AdminConfigService.GetSnapshot, and the status    *)
(* page and the connectivity tests have their own notions of a complete    *)
(* configuration.  The Update methods make the next payload of a profile   *)
(* from the present one.                                                   *)
(*                                                                         *)
(* Texts are "", " " (white space only) or something; a version is the     *)
(* payload and whether SeedDefaults wrote it.                              *)
(***************************************************************************)
EXTENDS Integers

CONSTANTS
  Missing,      (* the payload has no such key                             *)
  Unreadable,   (* a secret that cannot be decrypted                       *)
  Cap,          (* maxAdminLLMTimeoutMS                                    *)
  Secrets,      (* secrets in clear; administrators enter "new"            *)
  SealedTexts,  (* encrypted ones, with this key or another                *)
  Sealed        (* what encryption makes of a secret                       *)

ASSUME CapAssumption == Cap \in Nat \ {0}
ASSUME SealedAssumption ==
  /\ "new" \in Secrets /\ Sealed \in [Secrets -> SealedTexts]
  /\ \A k, l \in Secrets : Sealed[k] = Sealed[l] => k = l

Types == {"llm", "miniflux", "publish"}

(* What an environment without settings amounts to, and what is seeded.     *)
DefaultTimeout == 1
DefaultLimit   == 1

Seeded ==
  [llm |-> [base_url |-> "", api_key |-> Missing, model |-> "m0", timeout |-> DefaultTimeout],
   miniflux |-> [base_url |-> "", api_token |-> "", limit |-> DefaultLimit],
   publish |-> [provider |-> "halo", target_type |-> Missing, halo_base_url |-> "",
                endpoint |-> Missing, halo_token |-> "", auth_token |-> Missing,
                output_dir |-> "", mode |-> "digest_only"]]

(* What is read of a profile that has no version.                           *)
Nothing ==
  [llm |-> [base_url |-> Missing, api_key |-> Missing, model |-> Missing, timeout |-> 0],
   miniflux |-> [base_url |-> Missing, api_token |-> Missing, limit |-> 0],
   publish |-> [k \in DOMAIN Seeded.publish |-> Missing]]

-----------------------------------------------------------------------------
(* Texts.                                                                   *)

Trim(t)  == IF t = " " THEN "" ELSE t
Value(t) == IF t = Missing THEN "" ELSE t

First(p, key, old) == IF Value(p[key]) # "" THEN p[key] ELSE Value(p[old])

(* What an administrator saved counts even when it is empty.                *)
Explicit(v, key) == v.payload[key] # Missing /\ ~v.seeded

(* A text: the one that counts, else the stored one, else the default.      *)
Text(v, key, old, env) ==
  IF Explicit(v, key) THEN Value(v.payload[key])
  ELSE IF Trim(First(v.payload, key, old)) # "" THEN Trim(First(v.payload, key, old))
  ELSE env

(* Positive numbers count.                                                  *)
Number(n, default) == IF n > 0 THEN n ELSE default
Capped(n)          == IF n <= 0 THEN DefaultTimeout ELSE IF n > Cap THEN Cap ELSE n

Aliases == [halo |-> "halo", markdown |-> "markdown_export", markdown_export |-> "markdown_export"]

ASSUME TextsAssumption ==
  /\ Secrets \cap SealedTexts = {} /\ {"", " "} \cap (Secrets \cup SealedTexts) = {}
  /\ {Missing, Unreadable} \cap (Secrets \cup SealedTexts \cup {"", " "} \cup DOMAIN Aliases) = {}

(* ResolvePublishProvider.                                                  *)
Resolved(provider, url) ==
  IF provider \in DOMAIN Aliases THEN Aliases[provider]
  ELSE IF Trim(provider) # "" THEN provider
  ELSE IF Trim(url) # "" THEN "halo" ELSE "markdown_export"

Mode(m) == IF m \in {"all", "suggested"} THEN m ELSE "digest_only"

-----------------------------------------------------------------------------
(* Secrets, stored in clear or encrypted.                                   *)

Encrypted(t) == IF t \in SealedTexts THEN t ELSE Sealed[t]

Decrypted(t, cipher) ==
  IF t \notin SealedTexts THEN t
  ELSE IF cipher /\ \E k \in Secrets : Sealed[k] = t
       THEN CHOOSE k \in Secrets : Sealed[k] = t ELSE Unreadable

Secret(v, key, old, env, cipher) ==
  LET t == First(v.payload, key, old)
  IN  IF Explicit(v, key) \/ Trim(t) # "" THEN Decrypted(t, cipher) ELSE env

(* Mutant: what comes from the environment is not shown.                    *)
IsSetStored(v, key, old, env) == First(v.payload, key, old) # ""

(* The console shows whether a secret is set, not what it is.               *)
IsSet(v, key, old, env) ==
  IF Explicit(v, key) THEN Value(v.payload[key]) # ""
  ELSE Trim(First(v.payload, key, old)) # "" \/ env # ""

-----------------------------------------------------------------------------
(* The two merges.                                                          *)

ProviderOf(v, env) ==
  IF Explicit(v, "provider") THEN Value(v.payload.provider)
  ELSE IF ~v.seeded /\ Trim(First(v.payload, "provider", "target_type")) # ""
       THEN Trim(First(v.payload, "provider", "target_type"))
  ELSE Resolved(env.channel, env.halo_base_url)

Publishing(v, env, secret) ==
  LET url == Text(v, "halo_base_url", "endpoint", env.halo_base_url)
  IN  [provider |-> Resolved(ProviderOf(v, env), url), halo_base_url |-> url,
       output_dir |-> Text(v, "output_dir", "output_dir", env.output_dir),
       mode |-> Mode(v.payload.mode), secret |-> secret]

(* Snapshot, of one profile.                                                *)
Runtime(t, v, env) ==
  CASE t = "llm" ->
         [base_url |-> Text(v, "base_url", "base_url", env.base_url),
          model    |-> Text(v, "model", "model", env.model),
          timeout  |-> Number(v.payload.timeout, Number(env.timeout, DefaultTimeout)),
          secret   |-> Secret(v, "api_key", "api_key", env.api_key, env.cipher)]
    [] t = "miniflux" ->
         [base_url |-> Text(v, "base_url", "base_url", env.mf_url),
          limit    |-> Number(v.payload.limit, DefaultLimit),
          secret   |-> Secret(v, "api_token", "api_token", env.mf_token, env.cipher)]
    [] t = "publish" ->
         Publishing(v, env, Secret(v, "halo_token", "auth_token", env.halo_token, env.cipher))

(* GetSnapshot, of one profile.                                             *)
Shown(t, v, env) ==
  CASE t = "llm" ->
         [base_url |-> Text(v, "base_url", "base_url", env.base_url),
          model    |-> Text(v, "model", "model", env.model),
          timeout  |-> Capped(Number(v.payload.timeout, env.timeout)),
          secret   |-> IsSet(v, "api_key", "api_key", env.api_key)]
    [] t = "miniflux" ->
         [base_url |-> Text(v, "base_url", "base_url", env.mf_url),
          limit    |-> Number(v.payload.limit, DefaultLimit),
          secret   |-> IsSet(v, "api_token", "api_token", env.mf_token)]
    [] t = "publish" ->
         Publishing(v, env, IsSet(v, "halo_token", "auth_token", env.halo_token))

-----------------------------------------------------------------------------
(* Who calls a configuration complete.                                      *)

(* Mutant: a publisher is built without a token.                            *)
AcceptsTokenless(t, c) ==
  CASE t = "llm"      -> Trim(c.model) # ""
    [] t = "miniflux" -> Trim(c.base_url) # "" /\ Trim(c.secret) # ""
    [] t = "publish"  -> c.provider \in {"halo", "markdown_export"}

(* validateRuntimeSnapshot and the builders of the publishers: what a task  *)
(* accepts, of a snapshot whose secrets could be read.                      *)
Accepts(t, c) ==
  CASE t = "llm"      -> Trim(c.model) # ""
    [] t = "miniflux" -> Trim(c.base_url) # "" /\ Trim(c.secret) # ""
    [] t = "publish"  ->
         \/ c.provider = "halo" /\ Trim(c.halo_base_url) # "" /\ Trim(c.secret) # ""
         \/ c.provider = "markdown_export" /\ Trim(c.output_dir) # ""

(* GetStatus.                                                               *)
Configured(t, s) ==
  CASE t \in {"llm", "miniflux"} -> s.base_url # "" /\ s.secret
    [] t = "publish" ->
         \/ s.provider = "halo" /\ s.halo_base_url # "" /\ s.secret
         \/ s.provider = "markdown_export" /\ s.output_dir # ""

(* What a connectivity test demands before it connects.                     *)
Testable(t, c) ==
  CASE t = "llm"      -> TRUE
    [] t = "miniflux" -> Trim(c.base_url) # "" /\ Trim(c.secret) # ""
    [] t = "publish"  ->
         CASE Resolved(c.provider, c.halo_base_url) = "halo" ->
                Trim(c.halo_base_url) # "" /\ Trim(c.secret) # ""
           [] Resolved(c.provider, c.halo_base_url) = "markdown_export" ->
                Trim(c.output_dir) # ""
           [] OTHER -> FALSE

-----------------------------------------------------------------------------
(* The Update methods.  An input is what the page shows with some of it     *)
(* edited, and the mode of the secret.                                      *)

SecretKey == [llm |-> "api_key", miniflux |-> "api_token", publish |-> "halo_token"]
OldKey    == [SecretKey EXCEPT !.publish = "auth_token"]
EnvSecret(t, env) == CASE t = "llm" -> env.api_key [] t = "miniflux" -> env.mf_token
                       [] t = "publish" -> env.halo_token

(* Mutant: the key of an earlier release is forgotten.                      *)
ExistingNew(t, p) == Value(p[SecretKey[t]])

Existing(t, p) == First(p, SecretKey[t], OldKey[t])

Kept(t, p, env) ==
  IF Existing(t, p) # "" THEN Encrypted(Existing(t, p))
  ELSE IF EnvSecret(t, env) # "" THEN Encrypted(EnvSecret(t, env)) ELSE Missing

NewSecret(t, p, how, env) ==
  CASE how = "replace" -> Sealed["new"] [] how = "clear" -> "" [] OTHER -> Kept(t, p, env)

(* The provider that is asked for, or the one there is.                     *)
Asked(t, p, in) == IF Trim(in.provider) # "" THEN in.provider
                   ELSE First(p, "provider", "target_type")

(* A provider there is, and a key to encrypt with if there is something to: *)
(* a nil cipher is not a nil interface, so that encrypting then fails.      *)
CanSave(t, p, in, how, env) ==
  /\ t = "publish" => Asked(t, p, in) \in DOMAIN Aliases
  /\ \/ env.cipher \/ how = "clear"
     \/ how = "keep" /\ (Existing(t, p) \in SealedTexts \/ Kept(t, p, env) = Missing)

NewPayload(t, p, in, how, env) ==
  LET secret == NewSecret(t, p, how, env)
  IN  CASE t = "llm" ->
             [base_url |-> in.base_url, model |-> in.model,
              timeout |-> Capped(Number(in.timeout, p.timeout)), api_key |-> secret]
        [] t = "miniflux" ->
             [base_url |-> in.base_url, limit |-> Number(in.limit, p.limit),
              api_token |-> secret]
        [] t = "publish" ->
             [provider |-> Aliases[Asked(t, p, in)], target_type |-> Missing,
              halo_base_url |-> in.halo_base_url, endpoint |-> Missing,
              output_dir |-> in.output_dir, mode |-> Mode(in.mode),
              halo_token |-> secret, auth_token |-> Missing]
=============================================================================
