--------------------------- MODULE DossierProofs ---------------------------
(***************************************************************************)
(* Proofs about module Dossier, for any number of executions.              *)
(*                                                                         *)
(* DossierInv adds to the properties what the locks and the unique indexes *)
(* bring about: versions are numbered from 1 without gaps, a computed      *)
(* version is never beyond the next one, a row that a transaction has      *)
(* locked stays active and is its own, only one insert is under way, and   *)
(* that one carries the next version and has the active row locked.        *)
(***************************************************************************)
EXTENDS Dossier, SequenceTheorems, TLAPS

Numbered == \E n \in Nat : Versions = 1 .. n

Distinct == \A r, s \in rows : r.version = s.version => r = s

InTransaction == {"close", "closeWait", "insert", "commit"}
Holding       == {"insert", "commit"}

VersionBounded ==
  \A j \in Jobs : pc[j] \in InTransaction => version[j] \in 1 .. NextVersion

TargetsInUse ==
  \A j \in Jobs : target[j] # None => pc[j] \in Holding \cup {"closeWait"}

HeldActive ==
  \A j \in Jobs : pc[j] \in Holding /\ target[j] # None => IsActive(target[j])

OneHolder ==
  \A j, u \in Jobs :
    pc[j] \in Holding /\ pc[u] \in Holding /\ target[j] = target[u] /\ target[j] # None
      => j = u

OneInsert == \A j, u \in Jobs : pc[j] = "commit" /\ pc[u] = "commit" => j = u

ReadyToCommit ==
  \A j \in Jobs : pc[j] = "commit" =>
    version[j] = NextVersion /\ \A r \in rows : r.active => r.version = target[j]

Stored ==
  \A j \in Jobs : pc[j] \in {"state", "ok"} =>
    /\ \E r \in rows : r.job = j /\ r.version = version[j] /\ r.source = source[j]
    /\ pc[j] = "ok" => j \in stated

Authors == \A r \in rows : pc[r.job] \in Ended \cup {"state"}

RowInv  == Numbered /\ Distinct /\ ActiveIsNewest
LockInv == VersionBounded /\ TargetsInUse /\ HeldActive /\ OneHolder /\ OneInsert /\ ReadyToCommit

DossierInv == TypeOK /\ RowInv /\ LockInv /\ Stored /\ Authors

-----------------------------------------------------------------------------
(* The next version is one more than the versions there are.                *)
LEMMA NextVersionIs ==
  Numbered => NextVersion \in Nat \ {0} /\ Versions = 1 .. (NextVersion - 1)
<1> SUFFICES ASSUME Numbered
             PROVE  NextVersion \in Nat \ {0} /\ Versions = 1 .. (NextVersion - 1)
  OBVIOUS
<1>1. PICK n \in Nat : Versions = 1 .. n
  BY DEF Numbered
<1>2. CASE rows = {}
  <2>1. Versions = {}
    BY <1>2 DEF Versions
  <2>2. n = 0
    <3>1. n >= 1 => 1 \in 1 .. n
      BY <1>1
    <3> QED
      BY <1>1, <2>1, <3>1
  <2> QED
    BY <1>1, <1>2, <2>2 DEF NextVersion
<1>3. CASE rows # {}
  <2>1. n >= 1
    <3>1. Versions # {}
      BY <1>3 DEF Versions
    <3> QED
      BY <1>1, <3>1
  <2> DEFINE Greatest(v) == \A u \in Versions : u <= v
  <2>2. n \in Versions /\ Greatest(n)
    BY <1>1, <2>1
  <2>3. \A v \in Versions : Greatest(v) => v = n
    BY <1>1, <2>2
  <2>4. (CHOOSE v \in Versions : Greatest(v)) = n
    <3> HIDE DEF Greatest
    <3> QED
      BY <2>2, <2>3
  <2>5. NextVersion = 1 + n
    BY <1>3, <2>4, Zenon DEF NextVersion, Greatest
  <2> QED
    BY <1>1, <2>5
<1> QED
  BY <1>2, <1>3

LEMMA DossierInvInit == Init => DossierInv
<1> SUFFICES ASSUME Init PROVE DossierInv
  OBVIOUS
<1>1. TypeOK
  BY DEF Init, TypeOK, None, Steps, Ended
<1>2. RowInv
  <2>1. Versions = 1 .. 0
    BY DEF Init, Versions
  <2>2. Numbered
    BY <2>1 DEF Numbered
  <2> QED
    BY <2>2 DEF Init, RowInv, Distinct, ActiveIsNewest
<1>3. LockInv
  BY DEF Init, LockInv, VersionBounded, TargetsInUse, HeldActive, OneHolder, OneInsert,
         ReadyToCommit, InTransaction, Holding, None
<1>4. Stored /\ Authors
  BY DEF Init, Stored, Authors
<1> QED
  BY <1>1, <1>2, <1>3, <1>4 DEF DossierInv

(* Every step but a commit leaves the rows and what is said of them alone.  *)
LEMMA RowsUnchanged ==
  ASSUME RowInv, UNCHANGED rows
  PROVE  /\ RowInv' /\ NextVersion' = NextVersion
         /\ \A v : IsActive(v)' = IsActive(v)
BY DEF RowInv, Numbered, Distinct, ActiveIsNewest, Versions, NextVersion, IsActive

LEMMA QuietStep ==
  ASSUME DossierInv, NEW j \in Jobs, UNCHANGED rows,
         Start(j) \/ Load(j) \/ Process(j) \/ SelectVersion(j) \/ InitState(j) \/ Fail(j)
  PROVE  DossierInv'
<1>1. RowInv' /\ NextVersion' = NextVersion /\ (\A v : IsActive(v)' = IsActive(v))
  BY RowsUnchanged DEF DossierInv
<1>2. NextVersion \in Nat \ {0}
  BY NextVersionIs DEF DossierInv, RowInv
<1>3. TypeOK'
  BY <1>2 DEF DossierInv, TypeOK, Start, Load, Process, SelectVersion, InitState, Fail,
              Goto, Write, Steps, Ended, None
<1>4. LockInv'
  BY <1>1, <1>2
     DEF DossierInv, TypeOK, LockInv, VersionBounded, TargetsInUse, HeldActive, OneHolder,
         OneInsert, ReadyToCommit, InTransaction, Holding, None, Start, Load, Process,
         SelectVersion, InitState, Fail, Goto, Write, Ended
<1>5. Stored' /\ Authors'
  BY DEF DossierInv, TypeOK, Dossiers, Stored, Authors, Start, Load, Process, SelectVersion,
         InitState, Fail, Goto, Write, Ended
<1> QED
  BY <1>1, <1>3, <1>4, <1>5 DEF DossierInv

LEMMA CloseStep ==
  ASSUME DossierInv, NEW j \in Jobs, CloseActive(j) \/ CloseAfterWait(j)
  PROVE  DossierInv'
<1>1. UNCHANGED rows
  BY DEF CloseActive, CloseAfterWait
<1>2. RowInv' /\ NextVersion' = NextVersion /\ (\A v : IsActive(v)' = IsActive(v))
  BY <1>1, RowsUnchanged DEF DossierInv
<1>3. \A v : IsActive(v) => v \in Nat
  BY DEF DossierInv, TypeOK, Dossiers, IsActive
<1>4. TypeOK'
  BY <1>3 DEF DossierInv, TypeOK, CloseActive, CloseAfterWait, Steps, Ended, None
<1>5. LockInv'
  BY <1>2
     DEF DossierInv, TypeOK, LockInv, VersionBounded, TargetsInUse, HeldActive, OneHolder,
         OneInsert, ReadyToCommit, InTransaction, Holding, None, CloseActive,
         CloseAfterWait, Locked
<1>6. Stored' /\ Authors'
  BY DEF DossierInv, TypeOK, Dossiers, Stored, Authors, CloseActive, CloseAfterWait, Ended
<1> QED
  BY <1>2, <1>4, <1>5, <1>6 DEF DossierInv

LEMMA InsertStep ==
  ASSUME DossierInv, NEW j \in Jobs, Insert(j)
  PROVE  DossierInv'
<1>1. RowInv' /\ NextVersion' = NextVersion /\ (\A v : IsActive(v)' = IsActive(v))
  BY RowsUnchanged DEF DossierInv, Insert
<1>2. TypeOK' /\ Stored' /\ Authors'
  BY DEF DossierInv, TypeOK, Dossiers, Stored, Authors, Insert, Steps, Ended, None
<1>3. CASE Conflicts(j)
  BY <1>1, <1>2, <1>3
     DEF DossierInv, TypeOK, LockInv, VersionBounded, TargetsInUse, HeldActive, OneHolder,
         OneInsert, ReadyToCommit, InTransaction, Holding, None, Insert
<1>4. CASE ~Conflicts(j)
  <2>1. version[j] = NextVersion
    <3>1. version[j] \in 1 .. NextVersion
      BY DEF DossierInv, LockInv, VersionBounded, InTransaction, Insert
    <3>2. version[j] \notin 1 .. (NextVersion - 1)
      BY <1>4, NextVersionIs DEF DossierInv, RowInv, Conflicts, Versions
    <3> QED
      BY <3>1, <3>2, NextVersionIs DEF DossierInv, RowInv
  <2>2. \A r \in rows : r.active => r.version = target[j]
    BY <1>4 DEF Conflicts
  <2>3. ReadyToCommit' /\ OneInsert'
    BY <1>1, <1>4, <2>1, <2>2
       DEF DossierInv, TypeOK, LockInv, OneInsert, ReadyToCommit, Insert, Pending
  <2> QED
    BY <1>1, <1>2, <1>4, <2>3
       DEF DossierInv, TypeOK, LockInv, VersionBounded, TargetsInUse, HeldActive, OneHolder,
           InTransaction, Holding, Insert
<1> QED
  BY <1>1, <1>2, <1>3, <1>4 DEF DossierInv

(* The rows after a commit: the new one is the only active one.             *)
Committed(j) == [version |-> version[j], job |-> j, source |-> source[j], active |-> TRUE]
Retired(r)   == [r EXCEPT !.active = FALSE]

LEMMA RetiredFields ==
  ASSUME NEW r \in Dossiers
  PROVE  /\ Retired(r) \in Dossiers
         /\ Retired(r).version = r.version /\ Retired(r).job = r.job
         /\ Retired(r).source = r.source /\ Retired(r).active = FALSE
BY DEF Retired, Dossiers

LEMMA CommittedFields ==
  ASSUME TypeOK, NEW j \in Jobs
  PROVE  /\ Committed(j) \in Dossiers
         /\ Committed(j).version = version[j] /\ Committed(j).job = j
         /\ Committed(j).source = source[j] /\ Committed(j).active = TRUE
BY DEF Committed, Dossiers, TypeOK

LEMMA CommittedRows ==
  ASSUME DossierInv, NEW j \in Jobs, Commit(j)
  PROVE  /\ rows' = {Retired(r) : r \in rows} \cup {Committed(j)}
         /\ rows \subseteq Dossiers
         /\ \A r \in rows : r.version < version[j]
         /\ Versions' = 1 .. NextVersion /\ NextVersion \in Nat \ {0}
         /\ version[j] = NextVersion
<1>1. version[j] = NextVersion /\ \A r \in rows : r.active => r.version = target[j]
  BY DEF DossierInv, LockInv, ReadyToCommit, Commit, Write
<1>2. NextVersion \in Nat \ {0} /\ Versions = 1 .. (NextVersion - 1)
  BY NextVersionIs DEF DossierInv, RowInv
<1>3. \A r \in rows : r.version < version[j]
  <2>1. \A r \in rows : r.version \in 1 .. (NextVersion - 1)
    BY <1>2 DEF Versions
  <2> QED
    BY <1>1, <1>2, <2>1
<1>4. rows \subseteq Dossiers
  BY DEF DossierInv, TypeOK
<1>5. rows' = {Retired(r) : r \in rows} \cup {Committed(j)}
  <2>1. \A r \in rows : (r.active /\ r.version # target[j]) = FALSE
    BY <1>1, <1>4 DEF Dossiers
  <2>2. \A r \in rows : [r EXCEPT !.active = @ /\ r.version # target[j]] = Retired(r)
    BY <2>1 DEF Retired
  <2> QED
    BY <2>2 DEF Commit, Committed
<1>6. Versions' = Versions \cup {version[j]}
  <2>1. \A r \in rows : Retired(r).version = r.version
    BY <1>4, RetiredFields
  <2>2. Committed(j).version = version[j]
    BY CommittedFields DEF DossierInv
  <2> QED
    BY <1>5, <2>1, <2>2 DEF Versions
<1> QED
  BY <1>1, <1>2, <1>3, <1>4, <1>5, <1>6

LEMMA CommitStep ==
  ASSUME DossierInv, NEW j \in Jobs, Commit(j)
  PROVE  DossierInv'
<1>1. /\ rows' = {Retired(r) : r \in rows} \cup {Committed(j)}
      /\ rows \subseteq Dossiers
      /\ \A r \in rows : r.version < version[j]
      /\ Versions' = 1 .. NextVersion /\ NextVersion \in Nat \ {0}
      /\ version[j] = NextVersion
  BY CommittedRows
<1>2. /\ Committed(j) \in Dossiers
      /\ Committed(j).version = version[j] /\ Committed(j).job = j
      /\ Committed(j).source = source[j] /\ Committed(j).active = TRUE
  BY CommittedFields DEF DossierInv
<1>3. \A r \in rows :
        /\ Retired(r) \in Dossiers
        /\ Retired(r).version = r.version /\ Retired(r).job = r.job
        /\ Retired(r).source = r.source /\ Retired(r).active = FALSE
  BY <1>1, RetiredFields
<1>4. TypeOK'
  <2>1. rows' \subseteq Dossiers
    BY <1>1, <1>2, <1>3
  <2> QED
    BY <2>1 DEF DossierInv, TypeOK, Commit, Write, Steps, Ended, None
<1>5. RowInv'
  <2>1. Numbered'
    BY <1>1 DEF Numbered
  <2>2. Distinct'
    <3>1. \A r, s \in rows : r.version = s.version => r = s
      BY DEF DossierInv, RowInv, Distinct
    <3>2. \A r, s \in rows : Retired(r).version = Retired(s).version => r = s
      BY <1>3, <3>1
    <3>3. \A r \in rows : Retired(r).version # version[j]
      BY <1>1, <1>3 DEF Dossiers
    <3> QED
      BY <1>1, <1>2, <3>2, <3>3 DEF Distinct
  <2>3. ActiveIsNewest'
    <3>1. \A s \in rows' \ {Committed(j)} : ~s.active /\ s.version < Committed(j).version
      BY <1>1, <1>2, <1>3
    <3> QED
      BY <1>1, <1>2, <3>1 DEF ActiveIsNewest
  <2> QED
    BY <2>1, <2>2, <2>3 DEF RowInv
<1>6. NextVersion' = NextVersion + 1
  <2>1. NextVersion' \in Nat \ {0} /\ Versions' = 1 .. (NextVersion' - 1)
    <3>1. Numbered'
      BY <1>5 DEF RowInv
    <3>2. (Numbered =>
             NextVersion \in Nat \ {0} /\ Versions = 1 .. (NextVersion - 1))'
      BY NextVersionIs, PTL
    <3> QED
      BY <3>1, <3>2
  <2> QED
    BY <1>1, <2>1
<1>7. LockInv'
  <2> USE DEF DossierInv, LockInv
  <2>1. \A u \in Jobs : pc[u] \in Holding /\ target[u] # None => u = j
    <3> SUFFICES ASSUME NEW u \in Jobs, pc[u] \in Holding, target[u] # None PROVE u = j
      OBVIOUS
    <3>1. IsActive(target[u])
      BY DEF HeldActive
    <3>2. target[u] = target[j]
      BY <3>1 DEF ReadyToCommit, IsActive, Commit, Write
    <3> QED
      BY <3>2 DEF OneHolder, Holding, Commit, Write
  <2>2. \A u \in Jobs : pc'[u] \in Holding => pc[u] = pc'[u] /\ target'[u] = None
    BY <2>1 DEF TypeOK, Commit, Write, Holding, None
  <2>3. VersionBounded'
    BY <1>1, <1>6 DEF VersionBounded, InTransaction, TypeOK, Commit, Write
  <2>4. TargetsInUse'
    BY DEF TargetsInUse, TypeOK, Commit, Write, Holding, None
  <2>5. HeldActive' /\ OneHolder'
    BY <2>2 DEF HeldActive, OneHolder
  <2>6. \A u \in Jobs : pc'[u] # "commit"
    BY DEF TypeOK, Commit, Write, OneInsert
  <2> QED
    BY <2>3, <2>4, <2>5, <2>6 DEF OneInsert, ReadyToCommit
<1>8. Stored'
  <2> SUFFICES ASSUME NEW u \in Jobs, pc'[u] \in {"state", "ok"}
               PROVE  /\ \E r \in rows' : r.job = u /\ r.version = version'[u]
                                           /\ r.source = source'[u]
                      /\ pc'[u] = "ok" => u \in stated'
    BY DEF Stored
  <2>1. CASE u = j
    BY <1>1, <1>2, <2>1 DEF DossierInv, TypeOK, Commit, Write
  <2>2. CASE u # j
    <3>1. pc[u] = pc'[u]
      BY <2>2 DEF DossierInv, TypeOK, Commit, Write
    <3>2. PICK r \in rows : r.job = u /\ r.version = version[u] /\ r.source = source[u]
      BY <3>1 DEF DossierInv, Stored
    <3>3. Retired(r) \in rows'
      BY <1>1
    <3>4. pc[u] = "ok" => u \in stated
      BY <3>1 DEF DossierInv, Stored
    <3> QED
      BY <1>3, <3>1, <3>2, <3>3, <3>4 DEF Commit
  <2> QED
    BY <2>1, <2>2
<1>9. Authors'
  <2>1. pc'[j] \in {"state", "error"} /\ \A u \in Jobs \ {j} : pc'[u] = pc[u]
    BY DEF DossierInv, TypeOK, Commit, Write
  <2>2. \A r \in rows : r.job \in Jobs /\ pc[r.job] \in Ended \cup {"state"}
    BY <1>1 DEF DossierInv, Authors, Dossiers
  <2> QED
    BY <1>1, <1>2, <1>3, <2>1, <2>2 DEF Authors, Ended
<1> QED
  BY <1>4, <1>5, <1>7, <1>8, <1>9 DEF DossierInv

LEMMA DossierInvStep == DossierInv /\ [Next]_vars => DossierInv'
<1> SUFFICES ASSUME DossierInv, [Next]_vars PROVE DossierInv'
  OBVIOUS
<1>1. CASE UNCHANGED vars
  <2>1. RowInv' /\ NextVersion' = NextVersion /\ (\A v : IsActive(v)' = IsActive(v))
    BY <1>1, RowsUnchanged DEF DossierInv, vars
  <2> QED
    BY <1>1, <2>1
       DEF vars, DossierInv, TypeOK, LockInv, VersionBounded, TargetsInUse, HeldActive,
           OneHolder, OneInsert, ReadyToCommit, Stored, Authors
<1>2. CASE Next
  <2>1. PICK j \in Jobs : Start(j) \/ Step(j) \/ Fail(j)
    BY <1>2 DEF Next
  <2>2. CASE Start(j) \/ Load(j) \/ Process(j) \/ SelectVersion(j) \/ InitState(j) \/ Fail(j)
    <3>1. UNCHANGED rows
      BY <2>2 DEF Start, Load, Process, SelectVersion, InitState, Fail
    <3> QED
      BY <2>2, <3>1, QuietStep
  <2>3. CASE CloseActive(j) \/ CloseAfterWait(j)
    BY <2>3, CloseStep
  <2>4. CASE Insert(j)
    BY <2>4, InsertStep
  <2>5. CASE Commit(j)
    BY <2>5, CommitStep
  <2> QED
    BY <2>1, <2>2, <2>3, <2>4, <2>5 DEF Step
<1> QED
  BY <1>1, <1>2

LEMMA DossierInvAlways == Spec => []DossierInv
<1> QED
  BY DossierInvInit, DossierInvStep, PTL DEF Spec

-----------------------------------------------------------------------------
(* Every variable of Dossier keeps its type.                                *)
THEOREM TypeCorrect == Spec => []TypeOK
<1>1. DossierInv => TypeOK
  BY DEF DossierInv
<1> QED
  BY <1>1, DossierInvAlways, PTL

(* An article with dossiers always has one active dossier, the newest one,  *)
(* for any number of transactions at once and wherever they die.            *)
THEOREM NewestAlwaysActive == Spec => []ActiveIsNewest
<1>1. DossierInv => ActiveIsNewest
  BY DEF DossierInv, RowInv
<1> QED
  BY <1>1, DossierInvAlways, PTL

(* What an execution that returned without error wrote is there to stay.    *)
THEOREM OkAlwaysStored == Spec => []OkIsStored
<1>1. DossierInv => OkIsStored
  BY DEF DossierInv, Stored, OkIsStored
<1> QED
  BY <1>1, DossierInvAlways, PTL

-----------------------------------------------------------------------------
(* The refinement: what the log is before and after a commit.               *)
LEMMA WriterOfRow ==
  DossierInv => \A r \in rows : Writer(r.version) = r.job
<1> SUFFICES ASSUME DossierInv, NEW r \in rows PROVE Writer(r.version) = r.job
  OBVIOUS
<1>1. \A s \in rows : s.version = r.version => s = r
  BY DEF DossierInv, RowInv, Distinct
<1>2. (CHOOSE s \in rows : s.version = r.version) = r
  BY <1>1
<1> QED
  BY <1>2 DEF Writer

LEMMA WrittenIs ==
  DossierInv => /\ Written \in Seq(Jobs) /\ Len(Written) = NextVersion - 1
                /\ \A r \in rows : Written[r.version] = r.job
<1> SUFFICES ASSUME DossierInv
             PROVE  /\ Written \in Seq(Jobs) /\ Len(Written) = NextVersion - 1
                    /\ \A r \in rows : Written[r.version] = r.job
  OBVIOUS
<1>1. NextVersion \in Nat \ {0} /\ Versions = 1 .. (NextVersion - 1)
  BY NextVersionIs DEF DossierInv, RowInv
<1>2. \A v \in Versions : \E r \in rows : r.version = v
  BY DEF Versions
<1>3. \A r \in rows : r.version \in Versions /\ r.job \in Jobs
  BY DEF Versions, DossierInv, TypeOK, Dossiers
<1>4. \A r \in rows : Writer(r.version) = r.job
  BY WriterOfRow
<1>5. Written \in [1 .. (NextVersion - 1) -> Jobs]
  BY <1>1, <1>2, <1>3, <1>4 DEF Written
<1>6. Written \in Seq(Jobs)
  BY <1>1, <1>5, SeqDef
<1>7. Len(Written) = NextVersion - 1
  <2>1. DOMAIN Written = 1 .. Len(Written) /\ Len(Written) \in Nat
    BY <1>6, LenProperties
  <2>2. DOMAIN Written = 1 .. (NextVersion - 1)
    BY <1>5
  <2> QED
    BY <1>1, <2>1, <2>2
<1> QED
  BY <1>3, <1>4, <1>6, <1>7 DEF Written

LEMMA CurrentIs ==
  DossierInv => Current = NextVersion - 1
<1> SUFFICES ASSUME DossierInv PROVE Current = NextVersion - 1
  OBVIOUS
<1>1. NextVersion \in Nat \ {0} /\ Versions = 1 .. (NextVersion - 1)
  BY NextVersionIs DEF DossierInv, RowInv
<1>2. CASE rows = {}
  BY <1>2 DEF Current, NextVersion
<1>3. CASE rows # {}
  <2>1. PICK r \in rows : r.active /\ \A s \in rows \ {r} : ~s.active /\ s.version < r.version
    BY <1>3 DEF DossierInv, RowInv, ActiveIsNewest
  <2>2. r.version \in Versions /\ \A v \in Versions : v <= r.version
    BY <1>1, <2>1 DEF Versions
  <2>3. r.version = NextVersion - 1
    BY <1>1, <2>2
  <2>4. \A v \in Versions : IsActive(v) <=> v = r.version
    BY <2>1 DEF IsActive
  <2>5. (CHOOSE v \in Versions : IsActive(v)) = r.version
    BY <2>2, <2>4
  <2> QED
    BY <1>3, <2>3, <2>5 DEF Current
<1> QED
  BY <1>2, <1>3

LEMMA UpTo == \A a, b \in Nat : 1 .. a = 1 .. b => a = b
<1> SUFFICES ASSUME NEW a \in Nat, NEW b \in Nat, 1 .. a = 1 .. b PROVE a = b
  OBVIOUS
<1>1. a > 0 => a \in 1 .. b
  OBVIOUS
<1>2. b > 0 => b \in 1 .. a
  OBVIOUS
<1> QED
  BY <1>1, <1>2

LEMMA LogInit == Init => Log!Init
<1> SUFFICES ASSUME Init PROVE Log!Init
  OBVIOUS
<1>1. rows = {} /\ Versions = {}
  BY DEF Init, Versions
<1>2. Written = << >>
  BY <1>1 DEF Written
<1> QED
  BY <1>1, <1>2 DEF Log!Init, Current

LEMMA LogCommit ==
  ASSUME DossierInv, DossierInv', NEW j \in Jobs, Commit(j)
  PROVE  Log!Add(j)
<1>1. /\ rows' = {Retired(r) : r \in rows} \cup {Committed(j)}
      /\ rows \subseteq Dossiers
      /\ version[j] = NextVersion /\ NextVersion \in Nat \ {0}
  BY CommittedRows
<1>2. Versions = 1 .. (NextVersion - 1) /\ Versions' = 1 .. NextVersion
  BY CommittedRows, NextVersionIs DEF DossierInv, RowInv
<1>3. /\ Written \in Seq(Jobs) /\ Len(Written) = NextVersion - 1
      /\ \A r \in rows : Written[r.version] = r.job
  BY WrittenIs
<1>4. /\ Written' \in Seq(Jobs) /\ Len(Written') = NextVersion' - 1
      /\ \A r \in rows' : Written'[r.version] = r.job
  <2>1. (DossierInv => /\ Written \in Seq(Jobs) /\ Len(Written) = NextVersion - 1
                       /\ \A r \in rows : Written[r.version] = r.job)'
    BY WrittenIs, PTL
  <2> QED
    BY <2>1
<1>5. Current' = NextVersion' - 1
  <2>1. (DossierInv => Current = NextVersion - 1)'
    BY CurrentIs, PTL
  <2> QED
    BY <2>1
<1>6. Len(Written') = NextVersion
  <2>1. DOMAIN Written' = 1 .. Len(Written') /\ Len(Written') \in Nat
    BY <1>4, LenProperties
  <2>2. DOMAIN Written' = 1 .. NextVersion
    BY <1>2 DEF Written
  <2> QED
    BY <1>1, <2>1, <2>2, UpTo
<1>7. \A v \in DOMAIN Written : Written[v] # j
  <2>1. \A r \in rows : r.job # j
    BY DEF DossierInv, Authors, Commit, Write, Ended
  <2> QED
    BY <1>3, <2>1 DEF Written, Versions
<1>8. Written' = Append(Written, j)
  <2>1. /\ Append(Written, j) \in Seq(Jobs) /\ Len(Append(Written, j)) = NextVersion
        /\ \A v \in 1 .. (NextVersion - 1) : Append(Written, j)[v] = Written[v]
        /\ Append(Written, j)[NextVersion] = j
    BY <1>1, <1>3, AppendProperties
  <2>2. \A v \in 1 .. (NextVersion - 1) : Written'[v] = Written[v]
    <3> SUFFICES ASSUME NEW v \in 1 .. (NextVersion - 1) PROVE Written'[v] = Written[v]
      OBVIOUS
    <3>1. PICK r \in rows : r.version = v
      BY <1>2 DEF Versions
    <3>2. Retired(r) \in rows' /\ Retired(r).version = v /\ Retired(r).job = r.job
      BY <1>1, <3>1, RetiredFields
    <3> QED
      BY <1>3, <1>4, <3>1, <3>2
  <2>3. Written'[NextVersion] = j
    <3>1. /\ Committed(j) \in rows' /\ Committed(j).version = NextVersion
          /\ Committed(j).job = j
      BY <1>1, CommittedFields DEF DossierInv
    <3> QED
      BY <1>4, <3>1
  <2>4. \A v \in 1 .. NextVersion : Written'[v] = Append(Written, j)[v]
    BY <1>1, <2>1, <2>2, <2>3
  <2> QED
    BY <1>4, <1>6, <2>1, <2>4, SeqEqual
<1> QED
  BY <1>4, <1>5, <1>6, <1>7, <1>8 DEF Log!Add

LEMMA LogStep ==
  DossierInv /\ DossierInv' /\ [Next]_vars => [Log!Next]_<<Written, Current>>
<1> SUFFICES ASSUME DossierInv, DossierInv', [Next]_vars
             PROVE  [Log!Next]_<<Written, Current>>
  OBVIOUS
<1>1. CASE UNCHANGED rows
  <2>1. Written' = Written
    BY <1>1 DEF Written, Writer, Versions
  <2>2. Current' = Current
    BY <1>1 DEF Current, IsActive, Versions
  <2> QED
    BY <2>1, <2>2
<1>2. ASSUME NEW j \in Jobs, Commit(j) PROVE Log!Next
  BY <1>2, LogCommit DEF Log!Next
<1>3. UNCHANGED rows \/ \E j \in Jobs : Commit(j)
  BY DEF Next, Step, Start, Load, Process, SelectVersion, CloseActive, CloseAfterWait, Insert,
         InitState, Fail, vars
<1> QED
  BY <1>1, <1>2, <1>3

(* The rows of an article behave as the log of DossierLog: every commit     *)
(* appends one dossier, nothing else changes the list or what readers see.  *)
THEOREM LogImplemented == Spec => ImplementsLog
BY LogInit, LogStep, DossierInvInit, DossierInvStep, PTL DEF Spec, ImplementsLog, Log!Spec
=============================================================================
