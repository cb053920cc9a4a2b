------------------------------ MODULE Settings ------------------------------
(***************************************************************************)
(* The settings in use.  Administrators save profiles; every task of the   *)
(* worker reads the active ones, one after another, merges them with the   *)
(* environment, and runs with what it made of them or is refused; a page   *)
(* of the console reads them in the same way, and an administrator may     *)
(* save what it shows.                                                     *)
(*                                                                         *)
(* Versions and overlapping saves of one profile are the business of       *)
(* ProfileConfig; here a save takes effect at once.                        *)
(***************************************************************************)
EXTENDS SettingsMerge

CONSTANTS
  Tasks, Pages,  (* readers                                                *)
  Environments,  (* what the processes may be started with                 *)
  Histories,     (* payloads an earlier release may have left              *)
  Edits,         (* what administrators change of a page, per profile      *)
  Unread,        (* a profile that was not read yet                        *)
  MaxVersions    (* bound on versions, of all profiles together            *)

(* Secrets may be stored in clear, encrypted or not at all; an empty one    *)
(* was not written beside one under the key of an earlier release.          *)
Payload(t, p) ==
  /\ {p[SecretKey[t]], p[OldKey[t]]} \subseteq Secrets \cup SealedTexts \cup {"", Missing}
  /\ p[SecretKey[t]] = "" => p[OldKey[t]] \in {"", Missing}
  /\ t = "llm" => p.timeout \in Int
  /\ t = "miniflux" => p.limit \in Int

ASSUME VersionsAssumption == MaxVersions \in Nat
ASSUME EnvironmentsAssumption ==
  \A e \in Environments :
    /\ {e.api_key, e.mf_token, e.halo_token} \subseteq Secrets \cup {""}
    /\ Missing \notin {e.base_url, e.model, e.mf_url, e.halo_base_url, e.output_dir}
    /\ e.timeout \in Int
ASSUME HistoriesAssumption == \A h \in Histories, t \in Types : Payload(t, h[t])
ASSUME EditsAssumption ==
  /\ \A e \in Edits["llm"] : "timeout" \in DOMAIN e => e.timeout \in Int
  /\ \A e \in Edits["miniflux"] : "limit" \in DOMAIN e => e.limit \in Int

VARIABLES
  env,           (* the environment, and whether there is a key            *)
  active,        (* the active version of each profile                     *)
  pc,            (* idle, the profile it reads next, build, running,       *)
                 (* refused or shown                                       *)
  seen,          (* what it has read                                       *)
  since          (* which version was active when it began                 *)

settingsVars == <<env, active, pc, seen, since>>
Readers      == Tasks \cup Pages
Hows         == {"keep", "replace", "clear"}

Version(n, seeded, p) == [version |-> n, seeded |-> seeded, payload |-> p]

(* No profile yet, the defaults, or what an earlier release left.           *)
SettingsInit ==
  /\ env \in Environments
  /\ active \in {[t \in Types |-> Version(0, FALSE, Nothing[t])],
                 [t \in Types |-> Version(1, TRUE, Seeded[t])]}
             \cup {[t \in Types |-> Version(1, FALSE, h[t])] : h \in Histories}
  /\ pc = [r \in Readers |-> "idle"]
  /\ seen = [r \in Readers |-> [t \in Types |-> Unread]]
  /\ since = [r \in Readers |-> [t \in Types |-> 0]]

(* SeedDefaults, of the profile that has no version.                        *)
Seed(t) ==
  /\ active[t].version = 0
  /\ active' = [active EXCEPT ![t] = Version(1, TRUE, Seeded[t])]
  /\ UNCHANGED <<env, pc, seen, since>>

-----------------------------------------------------------------------------
(* Readers.                                                                 *)

(* Mutant: a worker builds its services once, not for every task.           *)
BeginCached(r) ==
  /\ pc[r] \in {"idle", "running", "refused", "shown"}
  /\ pc' = [pc EXCEPT ![r] = IF seen[r]["publish"] = Unread THEN "llm" ELSE "build"]
  /\ since' = [since EXCEPT ![r] = [t \in Types |-> active[t].version]]
  /\ UNCHANGED <<env, active, seen>>

(* A task or a page begins, after whatever it did before; the API serves    *)
(* pages once it has seeded.                                                *)
Begin(r) ==
  /\ r \in Pages => \A t \in Types : active[t].version > 0
  /\ pc[r] \in {"idle", "running", "refused", "shown"}
  /\ pc' = [pc EXCEPT ![r] = "llm"]
  /\ seen' = [seen EXCEPT ![r] = [t \in Types |-> Unread]]
  /\ since' = [since EXCEPT ![r] = [t \in Types |-> active[t].version]]
  /\ UNCHANGED <<env, active>>

After(t) == CASE t = "llm" -> "miniflux" [] t = "miniflux" -> "publish" [] OTHER -> "build"

(* activeProfile, loadProfile.                                              *)
ReadProfile(r) ==
  /\ pc[r] \in Types
  /\ seen' = [seen EXCEPT ![r][pc[r]] = active[pc[r]]]
  /\ pc' = [pc EXCEPT ![r] = After(pc[r])]
  /\ UNCHANGED <<env, active, since>>

Used(r, t) == Runtime(t, seen[r][t], env)

(* Build: a secret that cannot be read and a configuration that is not      *)
(* complete end the task.                                                   *)
Build(r) ==
  /\ r \in Tasks /\ pc[r] = "build"
  /\ pc' = [pc EXCEPT ![r] =
       IF \A t \in Types : Used(r, t).secret # Unreadable /\ Accepts(t, Used(r, t))
       THEN "running" ELSE "refused"]
  /\ UNCHANGED <<env, active, seen, since>>

Show(r) ==
  /\ r \in Pages /\ pc[r] = "build"
  /\ pc' = [pc EXCEPT ![r] = "shown"]
  /\ UNCHANGED <<env, active, seen, since>>

-----------------------------------------------------------------------------
(* An administrator saves a profile as a page shows it, with an edit of it. *)

Versions ==
  active["llm"].version + active["miniflux"].version + active["publish"].version

Saved(t, in, how) ==
  /\ active[t].version > 0 /\ Versions < MaxVersions
  /\ CanSave(t, active[t].payload, in, how, env)
  /\ active' = [active EXCEPT ![t] = Version(@.version + 1, FALSE,
                   NewPayload(t, active[t].payload, in, how, env))]
  /\ UNCHANGED <<env, pc, seen, since>>

Resave(r, t) ==
  /\ r \in Pages /\ pc[r] = "shown"
  /\ Saved(t, Shown(t, seen[r][t], env), "keep")

SaveEdited(r, t, how) ==
  /\ r \in Pages /\ pc[r] = "shown"
  /\ \E e \in Edits[t] :
       LET shown == Shown(t, seen[r][t], env)
       IN  Saved(t, [f \in DOMAIN shown |-> IF f \in DOMAIN e THEN e[f] ELSE shown[f]], how)

SettingsNext ==
  \/ \E t \in Types : Seed(t)
  \/ \E r \in Readers :
       \/ Begin(r) \/ ReadProfile(r) \/ Build(r) \/ Show(r)
       \/ \E t \in Types : Resave(r, t) \/ \E how \in Hows : SaveEdited(r, t, how)

SettingsSpec == SettingsInit /\ [][SettingsNext]_settingsVars

-----------------------------------------------------------------------------
(* Properties.                                                              *)

(* What a reader has read of a profile, once it has.                        *)
HasRead(r, t) ==
  CASE t = "llm"      -> pc[r] \notin {"idle", "llm"}
    [] t = "miniflux" -> pc[r] \notin {"idle", "llm", "miniflux"}
    [] t = "publish"  -> pc[r] \notin {"idle"} \cup Types

SettingsTypeOK ==
  /\ env \in Environments
  /\ \A t \in Types : active[t].version \in Nat /\ Payload(t, active[t].payload)
  /\ DOMAIN active = Types /\ DOMAIN seen = Readers
  /\ \A r \in Readers : DOMAIN seen[r] = Types
  /\ pc \in [Readers -> Types \cup {"idle", "build", "running", "refused", "shown"}]
  /\ since \in [Readers -> [Types -> Nat]]
  /\ \A r \in Readers, t \in Types : HasRead(r, t) => Payload(t, seen[r][t].payload)

(* A task runs with settings that were in effect when it began or were      *)
(* saved later, never with earlier ones, although it reads the profiles one *)
(* by one and the worker runs for weeks.                                    *)
UsesCurrent ==
  \A r \in Tasks, t \in Types : pc[r] = "running" =>
    seen[r][t].version \in since[r][t] .. active[t].version

Readable(t) == Runtime(t, active[t], env).secret # Unreadable

(* The console says a secret is set exactly when tasks have one, or have    *)
(* one they cannot read.                                                    *)
SecretShownIsUsed ==
  \A t \in Types :
    Shown(t, active[t], env).secret <=> Runtime(t, active[t], env).secret # ""

(* The status page, the connectivity tests and the tasks agree on whether   *)
(* Miniflux and the publisher are configured, though each of them asks in   *)
(* its own way; a text of white space looks like one to the status page.    *)
OneNotionOfComplete ==
  \A t \in {"miniflux", "publish"} :
    LET c == Runtime(t, active[t], env)
        s == Shown(t, active[t], env)
    IN  Readable(t) =>
          /\ Testable(t, c) <=> Accepts(t, c)
          /\ Accepts(t, c) => Configured(t, s)
          /\ Configured(t, s) => Accepts(t, c) \/ " " \in {s[f] : f \in DOMAIN s \ {"secret"}}

(* Saving a page as it is changes nothing for the tasks, be the settings    *)
(* those of the environment, seeded, or of an earlier release; but a secret *)
(* that was cleared returns to the environment's, a timeout is capped and a *)
(* secret nobody can read stays so.                                         *)
Same(t, a, b) ==
  \A f \in DOMAIN a :
    \/ a[f] = b[f]
    \/ f = "secret" /\ a[f] = ""
    \/ f = "timeout" /\ a[f] > Cap

ResaveChangesNothing ==
  [][\A r \in Pages, t \in Types :
       active' # active /\ seen[r][t] = active[t] /\ Resave(r, t)
       => Same(t, Runtime(t, active[t], env), Runtime(t, active'[t], env))]_settingsVars
=============================================================================
