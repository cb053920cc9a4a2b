--------------------------- MODULE ProfileConfig ---------------------------
(***************************************************************************)
(* The versions of one profile (settings of the model, of Miniflux, of     *)
(* publishing, ...: every statement is about one profile_type).            *)
(*                                                                         *)
(* API processes that start seed a default under the bootstrap lock, then  *)
(* serve administrators, whose saves load the active version, change the   *)
(* payload and create the next one.  ProfileRepository.Create deactivates  *)
(* all versions and inserts the new one in a transaction of two statements *)
(* under READ COMMITTED; no index keeps versions or active rows unique.    *)
(* Scheduler and worker read the active version at any time.               *)
(*                                                                         *)
(* Of the payload only the secret is modelled: it is kept, replaced or     *)
(* cleared by its own rules, the other fields come with every request.     *)
(***************************************************************************)
EXTENDS Naturals

CONSTANTS
  Requests,     (* seedings and saves, each of them once                   *)
  Ids           (* primary keys, ordered as GetActive orders them          *)

ASSUME IdsAssumption == Ids \subseteq Nat

VARIABLES
  env,          (* the secret in the environment of the processes          *)
  cipher,       (* they have a key to encrypt with                         *)
  rows,         (* profile_versions of the type, committed                 *)
  pc,           (* where each request is                                   *)
  kind,         (* seed, keep, replace or clear                            *)
  draft,        (* the version a request is about to create                *)
  seen          (* ids its update found                                    *)

settings == <<env, cipher>>
vars     == <<env, cipher, rows, pc, kind, draft, seen>>

Kinds == {"seed", "keep", "replace", "clear"}
Ended == {"ok", "error"}
Steps == Ended \cup {"new", "load", "update", "updateWait", "commit"}

-----------------------------------------------------------------------------
(* Secrets.  A payload has one under its key and perhaps under the key of   *)
(* an earlier release; a stored one may be empty, in clear or encrypted.    *)
Absent    == [form |-> "absent", value |-> "none"]
Blank     == [form |-> "blank",  value |-> "none"]
Plain(v)  == [form |-> "plain",  value |-> v]
Sealed(v) == [form |-> "sealed", value |-> v]

Values  == {"none", "env", "old"} \cup Requests
Secrets == [form : {"absent", "blank", "plain", "sealed"}, value : Values]
Rows    == [id : Ids, version : Nat, seeded : BOOLEAN, key : Secrets, legacy : Secrets,
            active : BOOLEAN]

(* What the code writes is never in clear.                                  *)
Drafts ==
  [version : Nat, seeded : BOOLEAN, key : {s \in Secrets : s.form # "plain"},
   legacy : {Absent}]

IsSet(s) == s.form \in {"plain", "sealed"}

(* firstString over the two keys.                                           *)
Stored(p) ==
  IF IsSet(p.key) THEN p.key ELSE IF IsSet(p.legacy) THEN p.legacy ELSE Blank

(* What RuntimeConfigService makes of it: an empty secret an administrator  *)
(* has saved is none, an empty or missing one of a seeded version is the    *)
(* environment's.                                                           *)
Effective(p) ==
  IF IsSet(Stored(p)) THEN Stored(p).value
  ELSE IF p.key # Absent /\ ~p.seeded THEN "none" ELSE env

(* What loadProfile returns when there is no active version.                *)
Nothing == [version |-> 0, seeded |-> FALSE, key |-> Absent, legacy |-> Absent]

(* Mutant: a kept secret is read from its present key only.                 *)
KeptFromKey(p) ==
  IF IsSet(p.key) THEN Sealed(p.key.value)
  ELSE IF env # "none" THEN Sealed(env) ELSE Absent

(* A secret that is kept: the stored one, else the environment's, encrypted *)
(* if it is not; with neither the key is deleted.                           *)
Kept(p) ==
  IF IsSet(Stored(p)) THEN Sealed(Stored(p).value)
  ELSE IF env # "none" THEN Sealed(env) ELSE Absent

NewSecret(w, p) ==
  CASE kind[w] = "keep"    -> Kept(p)
    [] kind[w] = "replace" -> Sealed(w)
    [] OTHER               -> Blank

(* Without a cipher nothing can be encrypted: the nil pointer in            *)
(* AdminConfigService.cipher is a non-nil interface, so that                *)
(* normalizeStoredSecret does not leave a secret in clear but fails.        *)
CanStore(w, p) ==
  \/ cipher \/ kind[w] = "clear"
  \/ kind[w] = "keep" /\ (Kept(p) = Absent \/ Stored(p) = Kept(p))

-----------------------------------------------------------------------------
Active == {r \in rows : r.active}

(* Mutant: seeding is not serialized.                                       *)
AlwaysFree(w) == w \in Requests

(* The advisory lock of the migrator, around the whole of Ensure.           *)
BootstrapFree(w) ==
  \A u \in Requests \ {w} : kind[u] = "seed" => pc[u] \in {"new"} \cup Ended

Goto(w, from, to) == pc[w] = from /\ pc' = [pc EXCEPT ![w] = to]

Row(i, d) == [id |-> i, version |-> d.version, seeded |-> d.seeded, active |-> TRUE,
              key |-> d.key, legacy |-> d.legacy]

(* A version an administrator saved with an earlier release.                *)
Earlier ==
  {[version |-> 1, seeded |-> FALSE, key |-> Plain("old"), legacy |-> Absent],
   [version |-> 1, seeded |-> FALSE, key |-> Absent, legacy |-> Plain("old")]}

Init ==
  /\ env \in {"none", "env"} /\ cipher \in BOOLEAN
  /\ \/ rows = {}
     \/ \E i \in Ids, d \in Earlier : rows = {Row(i, d)}
  /\ pc    = [w \in Requests |-> "new"]
  /\ kind  = [w \in Requests |-> "keep"]
  /\ draft = [w \in Requests |-> Nothing]
  /\ seen  = [w \in Requests |-> {}]

(* A process seeds under the lock; it serves saves after it has seeded.     *)
Start(w, k) ==
  /\ Goto(w, "new", "load")
  /\ IF k = "seed" THEN BootstrapFree(w) ELSE rows # {}
  /\ kind' = [kind EXCEPT ![w] = k]
  /\ UNCHANGED <<settings, rows, draft, seen>>

(* GetActive: the active version with the smallest id.                      *)
First(r) == r \in Active /\ \A s \in Active : r.id <= s.id

(* SeedDefaults: nothing to do once there is an active version.  The secret *)
(* is missing in the model's default and empty in the others.               *)
LoadSeed(w) ==
  /\ kind[w] = "seed"
  /\ \/ Active # {} /\ Goto(w, "load", "ok") /\ UNCHANGED draft
     \/ /\ Active = {} /\ Goto(w, "load", "update")
        /\ \E s \in {Absent, Blank} :
             draft' = [draft EXCEPT ![w] =
               [version |-> 1, seeded |-> TRUE, key |-> s, legacy |-> Absent]]
  /\ UNCHANGED <<settings, rows, kind, seen>>

(* The Update methods of AdminConfigService up to saveProfile.              *)
LoadSave(w) ==
  /\ kind[w] # "seed"
  /\ \E p \in IF Active = {} THEN {Nothing} ELSE {r \in Active : First(r)} :
       IF CanStore(w, p)
       THEN /\ Goto(w, "load", "update")
            /\ draft' = [draft EXCEPT ![w] =
                 [version |-> p.version + 1, seeded |-> FALSE,
                  key |-> NewSecret(w, p), legacy |-> Absent]]
       ELSE Goto(w, "load", "error") /\ UNCHANGED draft
  /\ UNCHANGED <<settings, rows, kind, seen>>

-----------------------------------------------------------------------------
(* Create.                                                                  *)

RowIds    == {r.id : r \in rows}
Locked(i) == \E u \in Requests : pc[u] = "commit" /\ i \in seen[u]

(* Mutant: without a transaction the update takes effect by itself.         *)
UpdateAtOnce(w) ==
  /\ Goto(w, "update", "commit")
  /\ seen' = [seen EXCEPT ![w] = RowIds]
  /\ rows' = {[r EXCEPT !.active = FALSE] : r \in rows}
  /\ UNCHANGED <<settings, kind, draft>>

(* The update of all versions of the type, in the state committed when it   *)
(* begins; it waits for a transaction that has locked one of them.          *)
Update(w) ==
  /\ Goto(w, "update", IF \E i \in RowIds : Locked(i) THEN "updateWait" ELSE "commit")
  /\ seen' = [seen EXCEPT ![w] = RowIds]
  /\ UNCHANGED <<settings, rows, kind, draft>>

(* Then it goes on with the rows it found, not with those that came since.  *)
UpdateAfterWait(w) ==
  /\ Goto(w, "updateWait", "commit")
  /\ \A i \in seen[w] : ~Locked(i)
  /\ UNCHANGED <<settings, rows, kind, draft, seen>>

(* Mutant: only the predecessor is deactivated.                             *)
ClosePredecessor(w) ==
  {[r EXCEPT !.active = @ /\ (r.id \notin seen[w] \/ r.version + 1 # draft[w].version)]
     : r \in rows}

Deactivated(w) == {[r EXCEPT !.active = @ /\ r.id \notin seen[w]] : r \in rows}

(* The insert and the end of the transaction, whose answer may be lost.     *)
Commit(w) ==
  /\ \E to \in Ended : Goto(w, "commit", to)
  /\ \E i \in Ids \ RowIds : rows' = Deactivated(w) \cup {Row(i, draft[w])}
  /\ UNCHANGED <<settings, kind, draft, seen>>

(* A call fails, the request is given up or the process dies.               *)
Fail(w) ==
  /\ pc[w] \notin Ended \cup {"new"}
  /\ pc' = [pc EXCEPT ![w] = "error"]
  /\ UNCHANGED <<settings, rows, kind, draft, seen>>

-----------------------------------------------------------------------------
Step(w) == LoadSeed(w) \/ LoadSave(w) \/ Update(w) \/ UpdateAfterWait(w) \/ Commit(w)

Next ==
  \E w \in Requests : \/ \E k \in Kinds : Start(w, k)
                      \/ Step(w)
                      \/ Fail(w)

Spec == Init /\ [][Next]_vars

-----------------------------------------------------------------------------
(* Properties.                                                              *)

TypeOK ==
  /\ env \in {"none", "env"} /\ cipher \in BOOLEAN
  /\ rows \subseteq Rows /\ \A r, s \in rows : r.id = s.id => r = s
  /\ pc \in [Requests -> Steps] /\ kind \in [Requests -> Kinds]
  /\ draft \in [Requests -> Drafts]
  /\ seen \in [Requests -> SUBSET RowIds]

(* Once a profile has a version, readers always find an active one, in the  *)
(* middle of a save and after every failure: the worker never falls back to *)
(* the environment between two versions.                                    *)
NeverWithout == rows # {} => Active # {}

(* A save that took effect has replaced, for good, every version that was   *)
(* committed when it looked, although overlapping saves may leave several   *)
(* versions active: readers never return to what was replaced.              *)
SaveReplaces ==
  \A w \in Requests : pc[w] = "ok" =>
    \A r \in Active : r.id \notin seen[w]

(* A seeded default is never active beside an administrator's version or    *)
(* instead of one: processes that start do not undo settings.               *)
SeedNeverOverrides ==
  (\E r \in rows : ~r.seeded) => \A r \in Active : ~r.seeded

(* A save in mode keep does not change a secret that is in effect, be it    *)
(* stored in clear, under its earlier key or only in the environment.       *)
KeepPreserves ==
  [][\A w \in Requests, p \in rows :
       pc[w] = "load" /\ pc'[w] = "update" /\ kind[w] = "keep" /\ First(p)
         /\ Effective(p) # "none"
       => Effective(draft'[w]) = Effective(p)]_vars
=============================================================================
