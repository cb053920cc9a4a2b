------------------------ MODULE ProfileConfigProofs ------------------------
(***************************************************************************)
(* Theorems about ProfileConfig, for any number of requests and any order  *)
(* of their keys.  ReplaceInv is about saves and their snapshots, SeedInv  *)
(* about seeding: it only meets an empty table, and saves only begin with  *)
(* a table that is not.                                                    *)
(***************************************************************************)
EXTENDS ProfileConfig, TLAPS

Writing == {"update", "updateWait", "commit"}

Fresh == \A w \in Requests : pc[w] \in {"new", "load"} => seen[w] = {}

ReplaceInv == TypeOK /\ NeverWithout /\ Fresh /\ SaveReplaces

(* One seeding at a time; it writes into an empty table only.               *)
OneSeeder ==
  \A u, w \in Requests :
    /\ kind[u] = "seed" /\ kind[w] = "seed"
    /\ pc[u] \notin {"new"} \cup Ended /\ pc[w] \notin {"new"} \cup Ended
    => u = w

SeedsEmpty ==
  \A w \in Requests : kind[w] = "seed" /\ pc[w] \in Writing => rows = {}

(* A save begins with a version in the table; it has seen every default.    *)
SavesServed ==
  \A w \in Requests : kind[w] # "seed" /\ pc[w] # "new" => rows # {}

DefaultsSeen ==
  \A w \in Requests : kind[w] # "seed" /\ pc[w] \in {"updateWait", "commit"} =>
    \A r \in rows : r.seeded => r.id \in seen[w]

DraftsMarked ==
  \A w \in Requests : pc[w] \in Writing => draft[w].seeded = (kind[w] = "seed")

SeedInv ==
  OneSeeder /\ SeedsEmpty /\ SavesServed /\ DefaultsSeen /\ DraftsMarked
    /\ SeedNeverOverrides

-----------------------------------------------------------------------------
(* Secrets.                                                                 *)

LEMMA StoredIsSecret ==
  ASSUME NEW p, p.key \in Secrets, p.legacy \in Secrets
  PROVE  Stored(p) \in Secrets
BY DEF Stored, Secrets, Blank, Values

(* A save never writes a secret in clear.                                   *)
LEMMA NewSecretIsSealed ==
  ASSUME NEW w \in Requests, NEW p, p.key \in Secrets, p.legacy \in Secrets,
         env \in {"none", "env"}
  PROVE  NewSecret(w, p) \in {s \in Secrets : s.form # "plain"}
<1>1. Stored(p) \in Secrets
  BY StoredIsSecret
<1>2. Kept(p) \in {s \in Secrets : s.form # "plain"}
  BY <1>1 DEF Kept, Sealed, Absent, Secrets, Values
<1>3. Sealed(w) \in {s \in Secrets : s.form # "plain"}
  BY DEF Sealed, Secrets, Values
<1>4. Blank \in {s \in Secrets : s.form # "plain"}
  BY DEF Blank, Secrets, Values
<1> QED
  BY <1>2, <1>3, <1>4 DEF NewSecret

(* A secret in effect that is kept is the same afterwards.                  *)
LEMMA KeptIsEffective ==
  ASSUME NEW p, Effective(p) # "none", NEW d, d.key = Kept(p), d.legacy = Absent
  PROVE  Effective(d) = Effective(p)
<1>1. CASE IsSet(Stored(p))
  <2>1. d.key = Sealed(Stored(p).value)
    BY <1>1 DEF Kept
  <2> QED
    BY <1>1, <2>1 DEF Effective, Stored, IsSet, Sealed
<1>2. CASE ~IsSet(Stored(p))
  <2>1. Effective(p) = env /\ env # "none"
    BY <1>2 DEF Effective
  <2>2. d.key = Sealed(env)
    BY <1>2, <2>1 DEF Kept
  <2> QED
    BY <2>1, <2>2 DEF Effective, Stored, IsSet, Sealed
<1> QED
  BY <1>1, <1>2

-----------------------------------------------------------------------------
LEMMA EarlierVersion ==
  ASSUME NEW d \in Earlier
  PROVE  /\ d.version \in Nat /\ d.seeded \in BOOLEAN /\ ~d.seeded
         /\ d.key \in Secrets /\ d.legacy \in Secrets
<1> DEFINE v(k, l) == [version |-> 1, seeded |-> FALSE, key |-> k, legacy |-> l]
<1>1. Plain("old") \in Secrets /\ Absent \in Secrets
  BY DEF Plain, Absent, Secrets, Values
<1>2. d = v(Plain("old"), Absent) \/ d = v(Absent, Plain("old"))
  BY DEF Earlier
<1>3. CASE d = v(Plain("old"), Absent)
  BY <1>1, <1>3
<1>4. CASE d = v(Absent, Plain("old"))
  BY <1>1, <1>4
<1> QED
  BY <1>2, <1>3, <1>4

LEMMA InitInv == Init => ReplaceInv /\ SeedInv
<1> SUFFICES ASSUME Init PROVE ReplaceInv /\ SeedInv
  OBVIOUS
<1> USE DEF Init
<1>1. Nothing \in Drafts
  BY DEF Nothing, Drafts, Absent, Secrets, Values
<1>2. /\ rows \subseteq Rows /\ \A r, s \in rows : r = s
      /\ \A r \in rows : r.active /\ ~r.seeded
  <2>1. \A i \in Ids, d \in Earlier :
          Row(i, d) \in Rows /\ Row(i, d).active /\ ~Row(i, d).seeded
    <3> SUFFICES ASSUME NEW i \in Ids, NEW d \in Earlier
                 PROVE  Row(i, d) \in Rows /\ Row(i, d).active /\ ~Row(i, d).seeded
      OBVIOUS
    <3> HIDE DEF Init
    <3> QED
      BY EarlierVersion DEF Row, Rows
  <2> QED
    BY <2>1
<1>3. \A r \in rows : r.active /\ ~r.seeded
  BY <1>2
<1>4. TypeOK
  BY <1>1, <1>2 DEF TypeOK, Steps, Kinds
<1>5. NeverWithout
  BY <1>3 DEF NeverWithout, Active
<1>6. Fresh /\ SaveReplaces
  BY DEF Fresh, SaveReplaces
<1>7. OneSeeder /\ SeedsEmpty /\ SavesServed /\ DefaultsSeen /\ DraftsMarked
  BY DEF OneSeeder, SeedsEmpty, SavesServed, DefaultsSeen, DraftsMarked, Writing
<1>8. SeedNeverOverrides
  BY <1>3 DEF SeedNeverOverrides, Active
<1> QED
  BY <1>4, <1>5, <1>6, <1>7, <1>8 DEF ReplaceInv, SeedInv

-----------------------------------------------------------------------------
(* A commit adds one active row under a new key and deactivates what was    *)
(* seen.                                                                    *)
LEMMA CommitRows ==
  ASSUME TypeOK, NEW w \in Requests, Commit(w)
  PROVE  \E new \in Rows :
           /\ new.active /\ new.id \notin RowIds /\ new.seeded = draft[w].seeded
           /\ rows' = Deactivated(w) \cup {new}
<1>1. PICK i \in Ids \ RowIds : rows' = Deactivated(w) \cup {Row(i, draft[w])}
  BY DEF Commit
<1>2. Row(i, draft[w]) \in Rows
  BY DEF TypeOK, Drafts, Rows, Row, Absent, Secrets, Values
<1> QED
  BY <1>1, <1>2 DEF Row

LEMMA DeactivatedRows ==
  ASSUME TypeOK, NEW w \in Requests
  PROVE  /\ \A s \in Deactivated(w) : \E r \in rows :
              /\ s.id = r.id /\ s.seeded = r.seeded
              /\ s.active = (r.active /\ r.id \notin seen[w])
         /\ \A r \in rows : \E s \in Deactivated(w) :
              /\ s.id = r.id /\ s.seeded = r.seeded
              /\ s.active = (r.active /\ r.id \notin seen[w])
         /\ Deactivated(w) \subseteq Rows
         /\ \A s, t \in Deactivated(w) : s.id = t.id => s = t
<1> DEFINE off(r) == [r EXCEPT !.active = @ /\ r.id \notin seen[w]]
<1>1. \A r \in rows : /\ off(r) \in Rows /\ off(r).id = r.id
                      /\ off(r).seeded = r.seeded
                      /\ off(r).active = (r.active /\ r.id \notin seen[w])
  BY DEF TypeOK, Rows
<1>2. Deactivated(w) = {off(r) : r \in rows}
  BY DEF Deactivated
<1>3. \A r, s \in rows : r.id = s.id => r = s
  BY DEF TypeOK
<1> HIDE DEF off
<1>4. \A s, t \in Deactivated(w) : s.id = t.id => s = t
  BY <1>1, <1>2, <1>3
<1> QED
  BY <1>1, <1>2, <1>4

-----------------------------------------------------------------------------
(* Steps that leave the table alone.                                        *)
LEMMA QuietStep ==
  ASSUME NEW w \in Requests, TypeOK,
         \/ \E k \in Kinds : Start(w, k)
         \/ Step(w) /\ ~Commit(w)
         \/ Fail(w)
  PROVE  rows' = rows /\ env' = env /\ cipher' = cipher
BY DEF Step, Start, LoadSeed, LoadSave, Update, UpdateAfterWait, Fail, settings

LEMMA QuietReplace ==
  ASSUME ReplaceInv, NEW w \in Requests,
         \/ \E k \in Kinds : Start(w, k)
         \/ Step(w) /\ ~Commit(w)
         \/ Fail(w)
  PROVE  ReplaceInv'
<1> USE DEF ReplaceInv, TypeOK, Goto, settings, Steps, Ended
<1>1. rows' = rows /\ env' = env /\ cipher' = cipher /\ Active' = Active /\ RowIds' = RowIds
  BY QuietStep DEF Active, RowIds
<1>2. NeverWithout'
  BY <1>1 DEF NeverWithout
<1> HIDE DEF NeverWithout
<1>3. ASSUME NEW k \in Kinds, Start(w, k) PROVE TypeOK' /\ Fresh' /\ SaveReplaces'
  BY <1>1, <1>3 DEF Start, Fresh, SaveReplaces
<1>4. CASE LoadSeed(w)
  <2>1. \A s \in {Absent, Blank} :
          [version |-> 1, seeded |-> TRUE, key |-> s, legacy |-> Absent] \in Drafts
    BY DEF Drafts, Absent, Blank, Secrets, Values
  <2> QED
    BY <1>1, <1>2, <1>4, <2>1 DEF LoadSeed, Fresh, SaveReplaces
<1>5. CASE LoadSave(w)
  <2>1. PICK p \in IF Active = {} THEN {Nothing} ELSE {r \in Active : First(r)} :
          IF CanStore(w, p)
          THEN /\ Goto(w, "load", "update")
               /\ draft' = [draft EXCEPT ![w] =
                    [version |-> p.version + 1, seeded |-> FALSE,
                     key |-> NewSecret(w, p), legacy |-> Absent]]
          ELSE Goto(w, "load", "error") /\ UNCHANGED draft
    BY <1>5 DEF LoadSave
  <2>2. p.key \in Secrets /\ p.legacy \in Secrets /\ p.version \in Nat
    BY DEF Active, Nothing, Rows, Absent, Secrets, Values
  <2>3. NewSecret(w, p) \in {s \in Secrets : s.form # "plain"}
    BY <2>2, NewSecretIsSealed
  <2>4. [version |-> p.version + 1, seeded |-> FALSE,
         key |-> NewSecret(w, p), legacy |-> Absent] \in Drafts
    BY <2>2, <2>3 DEF Drafts
  <2>5. UNCHANGED <<kind, seen>>
    BY <1>5 DEF LoadSave
  <2>6. draft' \in [Requests -> Drafts]
    BY <2>1, <2>4
  <2>7. pc' \in [Requests -> Steps] /\ pc'[w] \in {"update", "error"}
        /\ \A u \in Requests \ {w} : pc'[u] = pc[u]
    BY <2>1
  <2> QED
    BY <1>1, <1>2, <2>5, <2>6, <2>7 DEF Fresh, SaveReplaces
<1>6. CASE Update(w)
  BY <1>1, <1>2, <1>6 DEF Update, Fresh, SaveReplaces
<1>7. CASE UpdateAfterWait(w)
  BY <1>1, <1>2, <1>7 DEF UpdateAfterWait, Fresh, SaveReplaces
<1>8. CASE Fail(w)
  BY <1>1, <1>2, <1>8 DEF Fail, Fresh, SaveReplaces
<1> QED
  BY <1>2, <1>3, <1>4, <1>5, <1>6, <1>7, <1>8 DEF Step

LEMMA CommitReplace ==
  ASSUME ReplaceInv, NEW w \in Requests, Commit(w)
  PROVE  ReplaceInv'
<1> USE DEF ReplaceInv
<1>1. PICK new \in Rows :
        /\ new.active /\ new.id \notin RowIds /\ new.seeded = draft[w].seeded
        /\ rows' = Deactivated(w) \cup {new}
  BY CommitRows
<1>2. UNCHANGED <<env, cipher, kind, draft, seen>>
  BY DEF Commit, settings
<1>3. /\ pc' \in [Requests -> Steps]
      /\ pc[w] = "commit" /\ pc'[w] \in Ended
      /\ \A u \in Requests \ {w} : pc'[u] = pc[u]
  BY DEF Commit, Goto, TypeOK, Steps
<1>4. RowIds' = RowIds \cup {new.id}
  BY <1>1, DeactivatedRows DEF RowIds
<1>5. \A r, s \in rows' : r.id = s.id => r = s
  BY <1>1, DeactivatedRows DEF RowIds
<1>6. TypeOK'
  BY <1>1, <1>2, <1>3, <1>4, <1>5, DeactivatedRows DEF TypeOK
<1>7. NeverWithout'
  BY <1>1 DEF NeverWithout, Active
<1>8. Fresh'
  BY <1>2, <1>3 DEF Fresh, Ended
<1>9. \A r \in rows', u \in Requests : pc'[u] = "ok" /\ r.active => r.id \notin seen'[u]
  <2> SUFFICES ASSUME NEW r \in rows', NEW u \in Requests, pc'[u] = "ok", r.active
               PROVE  r.id \notin seen[u]
    BY <1>2
  <2>1. seen[u] \subseteq RowIds
    BY DEF TypeOK
  <2>2. CASE r = new
    BY <1>1, <2>1, <2>2
  <2>3. CASE r # new
    <3>1. PICK s \in rows : r.id = s.id /\ s.active /\ s.id \notin seen[w]
      BY <1>1, <2>3, DeactivatedRows
    <3>2. CASE u = w
      BY <3>1, <3>2
    <3>3. CASE u # w
      BY <1>3, <3>1, <3>3 DEF SaveReplaces, Active
    <3> QED
      BY <3>2, <3>3
  <2> QED
    BY <2>2, <2>3
<1>10. SaveReplaces'
  BY <1>9 DEF SaveReplaces, Active
<1> QED
  BY <1>6, <1>7, <1>8, <1>10

-----------------------------------------------------------------------------
LEMMA QuietSeed ==
  ASSUME ReplaceInv, SeedInv, NEW w \in Requests,
         \/ \E k \in Kinds : Start(w, k)
         \/ Step(w) /\ ~Commit(w)
         \/ Fail(w)
  PROVE  SeedInv'
<1> USE DEF ReplaceInv, SeedInv, TypeOK, Goto, settings, Steps, Ended, Writing
<1>1. rows' = rows /\ Active' = Active /\ RowIds' = RowIds
  BY QuietStep DEF Active, RowIds
<1>2. SeedNeverOverrides'
  BY <1>1 DEF SeedNeverOverrides
<1> HIDE DEF SeedNeverOverrides
<1>3. ASSUME NEW k \in Kinds, Start(w, k) PROVE SeedInv'
  <2>1. OneSeeder'
    BY <1>3 DEF Start, OneSeeder, BootstrapFree
  <2>2. SeedsEmpty' /\ SavesServed' /\ DefaultsSeen' /\ DraftsMarked'
    BY <1>1, <1>3 DEF Start, SeedsEmpty, SavesServed, DefaultsSeen, DraftsMarked
  <2> QED
    BY <1>2, <2>1, <2>2
<1>4. CASE LoadSeed(w)
  <2>1. OneSeeder' /\ SavesServed' /\ DefaultsSeen'
    BY <1>1, <1>4 DEF LoadSeed, OneSeeder, SavesServed, DefaultsSeen
  <2>2. SeedsEmpty'
    BY <1>1, <1>4 DEF LoadSeed, SeedsEmpty, NeverWithout
  <2>3. /\ kind[w] = "seed" /\ kind' = kind
        /\ \A u \in Requests \ {w} : pc'[u] = pc[u] /\ draft'[u] = draft[u]
        /\ pc'[w] = "ok" \/ draft'[w].seeded = TRUE
    BY <1>4 DEF LoadSeed
  <2>4. DraftsMarked'
    BY <2>3 DEF DraftsMarked
  <2> QED
    BY <1>2, <2>1, <2>2, <2>4
<1>5. CASE LoadSave(w)
  <2>1. PICK p \in IF Active = {} THEN {Nothing} ELSE {r \in Active : First(r)} :
          IF CanStore(w, p)
          THEN /\ Goto(w, "load", "update")
               /\ draft' = [draft EXCEPT ![w] =
                    [version |-> p.version + 1, seeded |-> FALSE,
                     key |-> NewSecret(w, p), legacy |-> Absent]]
          ELSE Goto(w, "load", "error") /\ UNCHANGED draft
    BY <1>5 DEF LoadSave
  <2>2. kind[w] # "seed" /\ UNCHANGED <<kind, seen>>
    BY <1>5 DEF LoadSave
  <2>3. /\ pc[w] = "load" /\ pc'[w] \in {"update", "error"}
        /\ \A u \in Requests \ {w} : pc'[u] = pc[u] /\ draft'[u] = draft[u]
        /\ pc'[w] = "update" => draft'[w].seeded = FALSE
    BY <2>1
  <2>4. OneSeeder' /\ SeedsEmpty' /\ SavesServed' /\ DefaultsSeen'
    BY <1>1, <2>2, <2>3 DEF OneSeeder, SeedsEmpty, SavesServed, DefaultsSeen
  <2>5. DraftsMarked'
    BY <2>2, <2>3 DEF DraftsMarked
  <2> QED
    BY <1>2, <2>4, <2>5
<1>6. CASE Update(w)
  BY <1>1, <1>2, <1>6
     DEF Update, OneSeeder, SeedsEmpty, SavesServed, DefaultsSeen, DraftsMarked, RowIds
<1>7. CASE UpdateAfterWait(w)
  BY <1>1, <1>2, <1>7
     DEF UpdateAfterWait, OneSeeder, SeedsEmpty, SavesServed, DefaultsSeen, DraftsMarked
<1>8. CASE Fail(w)
  BY <1>1, <1>2, <1>8
     DEF Fail, OneSeeder, SeedsEmpty, SavesServed, DefaultsSeen, DraftsMarked
<1> QED
  BY <1>3, <1>4, <1>5, <1>6, <1>7, <1>8 DEF Step

LEMMA CommitSeed ==
  ASSUME ReplaceInv, SeedInv, NEW w \in Requests, Commit(w)
  PROVE  SeedInv'
<1> USE DEF ReplaceInv, SeedInv
<1>1. PICK new \in Rows :
        /\ new.active /\ new.id \notin RowIds /\ new.seeded = draft[w].seeded
        /\ rows' = Deactivated(w) \cup {new}
  BY CommitRows
<1>2. UNCHANGED <<kind, draft, seen>>
  BY DEF Commit
<1>3. /\ pc[w] = "commit" /\ pc'[w] \in Ended
      /\ \A u \in Requests \ {w} : pc'[u] = pc[u]
  BY DEF Commit, Goto, TypeOK
<1>4. new.seeded = (kind[w] = "seed")
  BY <1>1, <1>3 DEF DraftsMarked, Writing
<1>5. OneSeeder' /\ SavesServed' /\ DraftsMarked'
  BY <1>1, <1>2, <1>3 DEF OneSeeder, SavesServed, DraftsMarked, Writing, Ended
<1>6. ASSUME NEW u \in Requests, kind[u] = "seed", pc'[u] \in Writing PROVE rows' = {}
  <2>1. u # w /\ pc[u] \in Writing /\ rows = {}
    BY <1>3, <1>6 DEF SeedsEmpty, Writing, Ended
  <2>2. kind[w] = "seed"
    BY <1>3, <2>1 DEF SavesServed
  <2> QED
    BY <1>3, <1>6, <2>1, <2>2 DEF OneSeeder, Writing, Ended
<1>7. SeedsEmpty'
  BY <1>2, <1>6 DEF SeedsEmpty
<1>8. CASE kind[w] = "seed"
  <2>1. rows = {}
    BY <1>3, <1>8 DEF SeedsEmpty, Writing
  <2>2. rows' = {new}
    BY <1>1, <2>1 DEF Deactivated
  <2>3. DefaultsSeen'
    BY <1>2, <1>3, <2>1 DEF DefaultsSeen, SavesServed, Ended
  <2>4. SeedNeverOverrides'
    BY <1>4, <1>8, <2>2 DEF SeedNeverOverrides, Active
  <2> QED
    BY <1>5, <1>7, <2>3, <2>4
<1>9. CASE kind[w] # "seed"
  <2>1. ASSUME NEW u \in Requests, kind[u] # "seed", pc'[u] \in {"updateWait", "commit"},
               NEW r \in rows', r.seeded
        PROVE  r.id \in seen[u]
    <3>1. r # new
      BY <1>4, <1>9, <2>1
    <3>2. PICK s \in rows : r.id = s.id /\ r.seeded = s.seeded
      BY <1>1, <3>1, DeactivatedRows
    <3> QED
      BY <1>3, <2>1, <3>2 DEF DefaultsSeen, Ended
  <2>2. \A r \in rows' : r.active => ~r.seeded
    BY <1>1, <1>3, <1>4, <1>9, DeactivatedRows DEF DefaultsSeen
  <2> QED
    BY <1>2, <1>5, <1>7, <2>1, <2>2 DEF DefaultsSeen, SeedNeverOverrides, Active
<1> QED
  BY <1>8, <1>9

LEMMA InvStep == ReplaceInv /\ SeedInv /\ [Next]_vars => (ReplaceInv /\ SeedInv)'
<1> SUFFICES ASSUME ReplaceInv, SeedInv, [Next]_vars PROVE (ReplaceInv /\ SeedInv)'
  OBVIOUS
<1>1. ASSUME NEW w \in Requests, Commit(w) PROVE (ReplaceInv /\ SeedInv)'
  BY <1>1, CommitReplace, CommitSeed
<1>2. ASSUME NEW w \in Requests,
             \/ \E k \in Kinds : Start(w, k)
             \/ Step(w) /\ ~Commit(w)
             \/ Fail(w)
      PROVE  (ReplaceInv /\ SeedInv)'
  BY <1>2, QuietReplace, QuietSeed
<1>3. CASE UNCHANGED vars
  BY <1>3 DEF vars, ReplaceInv, SeedInv, TypeOK, NeverWithout, Fresh, SaveReplaces,
       OneSeeder, SeedsEmpty, SavesServed, DefaultsSeen, DraftsMarked, SeedNeverOverrides,
       Active, RowIds
<1> QED
  BY <1>1, <1>2, <1>3 DEF Next, Step

LEMMA InvAlways == Spec => [](ReplaceInv /\ SeedInv)
BY InitInv, InvStep, PTL DEF Spec

-----------------------------------------------------------------------------
(* The types hold: keys are unique and no save stores a secret in clear.    *)
THEOREM TypeCorrect == Spec => []TypeOK
<1>1. ReplaceInv => TypeOK
  BY DEF ReplaceInv
<1> QED
  BY <1>1, InvAlways, PTL

(* Whatever fails and overlaps, readers find an active version once there   *)
(* is one.                                                                  *)
THEOREM AlwaysAnActiveVersion == Spec => []NeverWithout
<1>1. ReplaceInv => NeverWithout
  BY DEF ReplaceInv
<1> QED
  BY <1>1, InvAlways, PTL

(* What a save has replaced never comes back.                               *)
THEOREM ReplacedForGood == Spec => []SaveReplaces
<1>1. ReplaceInv => SaveReplaces
  BY DEF ReplaceInv
<1> QED
  BY <1>1, InvAlways, PTL

(* Under the bootstrap lock seeding never undoes an administrator's version. *)
THEOREM SettingsSurviveSeeding == Spec => []SeedNeverOverrides
<1>1. SeedInv => SeedNeverOverrides
  BY DEF SeedInv
<1> QED
  BY <1>1, InvAlways, PTL

(* Mode keep leaves every secret that is in effect as it is.                *)
THEOREM KeepIsKept == Spec => KeepPreserves
<1> DEFINE Preserved ==
      \A w \in Requests, p \in rows :
        pc[w] = "load" /\ pc'[w] = "update" /\ kind[w] = "keep" /\ First(p)
          /\ Effective(p) # "none"
        => Effective(draft'[w]) = Effective(p)
<1>1. ReplaceInv /\ [Next]_vars => [Preserved]_vars
  <2> SUFFICES ASSUME ReplaceInv, Next,
                      NEW w \in Requests, NEW p \in rows, pc[w] = "load",
                      pc'[w] = "update", kind[w] = "keep", First(p),
                      Effective(p) # "none"
               PROVE  Effective(draft'[w]) = Effective(p)
    OBVIOUS
  <2>1. LoadSave(w)
    <3> USE DEF ReplaceInv, TypeOK, Goto, Ended
    <3>1. PICK u \in Requests : (\E k \in Kinds : Start(u, k)) \/ Step(u) \/ Fail(u)
      BY DEF Next
    <3>2. ~ \E k \in Kinds : Start(u, k)
      BY DEF Start
    <3>3. ~Fail(u) /\ ~Commit(u)
      BY DEF Fail, Commit
    <3>4. ~LoadSeed(u)
      BY DEF LoadSeed
    <3>5. ~Update(u) /\ ~UpdateAfterWait(u)
      BY DEF Update, UpdateAfterWait
    <3>6. LoadSave(u)
      BY <3>1, <3>2, <3>3, <3>4, <3>5 DEF Step
    <3>7. \A v \in Requests \ {u} : pc'[v] = pc[v]
      BY <3>6 DEF LoadSave
    <3> QED
      BY <3>6, <3>7
  <2>2. p \in Active /\ \A q \in Active : First(q) => q = p
    <3>1. \A q \in Active : q \in rows /\ q.id \in Nat
      BY IdsAssumption DEF Active, ReplaceInv, TypeOK, Rows
    <3>2. ASSUME NEW q \in Active, First(q) PROVE q.id = p.id
      BY <3>1, <3>2 DEF First
    <3> QED
      BY <3>1, <3>2 DEF First, ReplaceInv, TypeOK
  <2>3. draft'[w] = [version |-> p.version + 1, seeded |-> FALSE,
                     key |-> NewSecret(w, p), legacy |-> Absent]
    BY <2>1, <2>2 DEF LoadSave, Goto, ReplaceInv, TypeOK
  <2>4. NewSecret(w, p) = Kept(p)
    BY DEF NewSecret
  <2> QED
    BY <2>3, <2>4, KeptIsEffective
<1> QED
  BY <1>1, InvAlways, PTL DEF Spec, KeepPreserves
=============================================================================
