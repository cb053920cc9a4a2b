-------------------------- MODULE BootstrapProofs --------------------------
(***************************************************************************)
(* Proofs about module Bootstrap, for any number of processes, migrations  *)
(* and defaults.                                                           *)
(*                                                                         *)
(* BootInv adds to the properties why they hold: the migrations in effect  *)
(* are a prefix of them all and exactly the recorded ones, a process knows *)
(* of a prefix of that, and an open migration is the next one and nobody   *)
(* else's, with the lock or without; only the defaults rest on the lock,   *)
(* which a process inside has until a session was lost.                    *)
(***************************************************************************)
EXTENDS Bootstrap, SequenceTheorems, TLAPS

(* What takes effect is recorded with it, in order.                         *)
Prefix == recorded = 1 .. Len(log) /\ OnceInOrder

Informed == \A p \in Processes : \E k \in 0 .. Len(log) : seen[p] = 1 .. k

(* The migration that is executed is the next one.                          *)
Opened ==
  \A p \in Processes :
    IF pc[p] = "commit" THEN open[p] = Len(log) + 1 /\ seen[p] = 1 .. Len(log)
    ELSE open[p] = 0

OneOpen == \A p, q \in Processes : pc[p] = "commit" /\ pc[q] = "commit" => p = q

After == {"find", "create", "unlock", "serving"}

Migrations == \A p \in Processes : pc[p] \in After => seen[p] = 1 .. Files

SeedsBehind ==
  \A p \in Processes : \A i \in 1 .. Len(Defaults) : i < seed[p] => rows[Defaults[i]] > 0

SeedsDone ==
  \A p \in Processes :
    /\ pc[p] = "create" => seed[p] <= Len(Defaults)
    /\ pc[p] \in {"unlock", "serving"} => seed[p] > Len(Defaults)

Exclusive == ~lost => \A p \in Processes : pc[p] \in Inside => holder = p

StillMissing ==
  ~lost => \A p \in Processes : pc[p] = "create" => rows[Defaults[seed[p]]] = 0

BootInv ==
  /\ TypeOK /\ Prefix /\ Informed /\ Opened /\ OneOpen /\ Migrations
  /\ SeedsBehind /\ SeedsDone /\ Exclusive /\ StillMissing /\ SeededOnce

-----------------------------------------------------------------------------
(* Every default is one of the defaults; then one lemma per action.         *)
LEMMA DefaultsType ==
  /\ Len(Defaults) \in Nat
  /\ \A i \in 1 .. Len(Defaults) : Defaults[i] \in ToSet(Defaults)
BY DefaultsAssumption DEF ToSet

LEMMA InitInv == Init => BootInv
<1> SUFFICES ASSUME Init PROVE BootInv
  OBVIOUS
<1> USE FilesAssumption, MaxFaultsAssumption, DefaultsType DEF Init
<1>1. TypeOK
  <2>1. log \in Seq(1 .. Files) /\ open \in [Processes -> 0 .. Files]
    OBVIOUS
  <2>2. seed \in [Processes -> 1 .. Len(Defaults) + 1]
    OBVIOUS
  <2>3. rows \in [ToSet(Defaults) -> Nat] /\ faults \in 0 .. MaxFaults
    OBVIOUS
  <2>4. pc \in [Processes -> Steps]
    BY DEF Steps
  <2> QED
    BY <2>1, <2>2, <2>3, <2>4 DEF TypeOK
<1>2. Prefix /\ Informed /\ Opened /\ OneOpen /\ Migrations
  BY DEF Prefix, OnceInOrder, Informed, Opened, OneOpen, Migrations, After
<1>3. SeedsBehind /\ SeedsDone /\ Exclusive /\ StillMissing /\ SeededOnce
  BY DEF SeedsBehind, SeedsDone, Exclusive, StillMissing, SeededOnce, Inside
<1> QED
  BY <1>1, <1>2, <1>3 DEF BootInv

(* What a process executes that did not take effect is the next migration.  *)
LEMMA ExecutesNext ==
  ASSUME BootInv, NEW p \in Processes, Missing(p) # {}, Next1(p) \notin ToSet(log)
  PROVE  Next1(p) \in 1 .. Files /\ Next1(p) = Len(log) + 1 /\ seen[p] = 1 .. Len(log)
<1> USE FilesAssumption DEF BootInv
<1> DEFINE Least(f) == f \in Missing(p) /\ \A g \in Missing(p) : f <= g
<1>1. PICK k \in 0 .. Len(log) : seen[p] = 1 .. k
  BY DEF Informed
<1>2. Len(log) \in Nat /\ log \in Seq(1 .. Files)
  BY DEF TypeOK
<1>3. Missing(p) = (k + 1) .. Files /\ k + 1 <= Files
  BY <1>1, <1>2 DEF Missing
<1>4. Least(k + 1)
  BY <1>1, <1>2, <1>3
<1>5. \A f : Least(f) => f = k + 1
  <2> SUFFICES ASSUME NEW f, Least(f) PROVE f = k + 1
    OBVIOUS
  <2>1. f \in (k + 1) .. Files /\ k + 1 \in Missing(p)
    BY <1>1, <1>2, <1>3
  <2>2. f <= k + 1
    BY <2>1
  <2> QED
    BY <1>1, <1>2, <2>1, <2>2
<1>6. Next1(p) = k + 1
  BY <1>4, <1>5 DEF Next1
<1>7. k + 1 > Len(log)
  <2> SUFFICES ASSUME k + 1 <= Len(log) PROVE FALSE
    BY <1>1, <1>2
  <2>1. log[k + 1] = k + 1
    BY <1>1, <1>2 DEF Prefix, OnceInOrder
  <2>2. k + 1 \in DOMAIN log
    BY <1>1, <1>2
  <2> QED
    BY <1>6, <2>1, <2>2 DEF ToSet
<1> QED
  BY <1>1, <1>2, <1>3, <1>6, <1>7

(* A migration that takes effect extends the prefix.                        *)
LEMMA CommitExtends ==
  ASSUME BootInv, NEW p \in Processes, pc[p] = "commit",
         log' = Append(log, open[p]), recorded' = recorded \cup {open[p]}
  PROVE  /\ open[p] = Len(log) + 1 /\ open[p] \in 1 .. Files
         /\ log' \in Seq(1 .. Files) /\ Len(log') = Len(log) + 1
         /\ Prefix'
<1> USE FilesAssumption DEF BootInv
<1>1. log \in Seq(1 .. Files) /\ Len(log) \in Nat
  BY DEF TypeOK
<1>2. open[p] = Len(log) + 1 /\ open[p] \in 1 .. Files
  BY <1>1 DEF Opened, TypeOK
<1>3. log' \in Seq(1 .. Files) /\ Len(log') = Len(log) + 1
  BY <1>1, <1>2
<1>4. \A i \in 1 .. Len(log') : log'[i] = i
  BY <1>1, <1>2 DEF Prefix, OnceInOrder
<1>5. recorded' = 1 .. Len(log')
  BY <1>1, <1>2, <1>3 DEF Prefix
<1> QED
  BY <1>2, <1>3, <1>4, <1>5 DEF Prefix, OnceInOrder

(* What a process seeds is one of the defaults, and storing it keeps the    *)
(* promise about duplicates.                                                *)
LEMMA CreateAdds ==
  ASSUME BootInv, NEW p \in Processes, pc[p] = "create",
         ~(Defaults[seed[p]] \in Unique /\ rows[Defaults[seed[p]]] > 0),
         rows' = [rows EXCEPT ![Defaults[seed[p]]] = @ + 1],
         lost' = lost
  PROVE  /\ seed[p] \in 1 .. Len(Defaults) /\ Defaults[seed[p]] \in ToSet(Defaults)
         /\ rows' \in [ToSet(Defaults) -> Nat]
         /\ \A d \in ToSet(Defaults) : rows'[d] >= rows[d]
         /\ rows'[Defaults[seed[p]]] > 0
         /\ SeededOnce'
<1> USE DEF BootInv
<1> DEFINE d == Defaults[seed[p]]
<1>1. seed[p] \in 1 .. Len(Defaults) /\ d \in ToSet(Defaults)
  BY DefaultsType DEF TypeOK, SeedsDone
<1>2. rows \in [ToSet(Defaults) -> Nat] /\ lost \in BOOLEAN
  BY DEF TypeOK
<1>3. rows' = [rows EXCEPT ![d] = rows[d] + 1]
  OBVIOUS
<1>4. ~lost => rows[d] = 0
  BY DEF StillMissing
<1>5. ~(d \in Unique /\ rows[d] > 0)
  OBVIOUS
<1> HIDE DEF d
<1>6. rows' \in [ToSet(Defaults) -> Nat] /\ rows'[d] = rows[d] + 1
  BY <1>1, <1>2, <1>3
<1>7. \A e \in ToSet(Defaults) \ {d} : rows'[e] = rows[e]
  BY <1>1, <1>2, <1>3
<1>8. SeededOnce'
  BY <1>1, <1>2, <1>4, <1>5, <1>6, <1>7 DEF SeededOnce
<1>9. \A e \in ToSet(Defaults) : rows'[e] >= rows[e]
  BY <1>1, <1>2, <1>6, <1>7
<1>10. rows'[d] > 0
  BY <1>1, <1>2, <1>6
<1> QED
  BY <1>1, <1>6, <1>8, <1>9, <1>10 DEF d

(* The effect of a call that failed.                                        *)
LEMMA EffectKeeps ==
  ASSUME BootInv, NEW p \in Processes, EffectOrNot(p), lost' = lost
  PROVE  /\ log' \in Seq(1 .. Files) /\ recorded' \subseteq 1 .. Files
         /\ rows' \in [ToSet(Defaults) -> Nat]
         /\ \A d \in ToSet(Defaults) : rows'[d] >= rows[d]
         /\ Len(log') = Len(log) \/ (pc[p] = "commit" /\ Len(log') = Len(log) + 1)
         /\ rows' = rows \/ pc[p] = "create"
         /\ Prefix' /\ SeededOnce'
<1>0. log \in Seq(1 .. Files) /\ recorded \subseteq 1 .. Files /\ rows \in [ToSet(Defaults) -> Nat]
  BY DEF BootInv, TypeOK
<1>00. Prefix /\ SeededOnce
  BY DEF BootInv
<1>1. CASE UNCHANGED database
  <2>1. Prefix' /\ SeededOnce'
    BY <1>00, <1>1 DEF database, Prefix, OnceInOrder, SeededOnce
  <2>2. \A d \in ToSet(Defaults) : rows'[d] >= rows[d]
    BY <1>0, <1>1 DEF database
  <2>3. log' = log /\ recorded' = recorded /\ rows' = rows
    BY <1>1 DEF database
  <2>4. /\ log' \in Seq(1 .. Files) /\ recorded' \subseteq 1 .. Files
        /\ rows' \in [ToSet(Defaults) -> Nat]
    BY <1>0, <2>3
  <2>5. Len(log') = Len(log)
    BY <2>3
  <2> QED
    BY <2>1, <2>2, <2>3, <2>4, <2>5, Zenon
<1>2. CASE /\ pc[p] = "commit"
           /\ log' = Append(log, open[p]) /\ recorded' = recorded \cup {open[p]} /\ UNCHANGED rows
  <2>1. SeededOnce'
    BY <1>00, <1>2 DEF SeededOnce
  <2>2. log' \in Seq(1 .. Files) /\ Len(log') = Len(log) + 1 /\ Prefix' /\ open[p] \in 1 .. Files
    BY <1>2, CommitExtends
  <2>3. recorded' \subseteq 1 .. Files
    BY <1>0, <1>2, <2>2
  <2>4. \A d \in ToSet(Defaults) : rows'[d] >= rows[d]
    BY <1>0, <1>2
  <2> QED
    BY <1>0, <1>2, <2>1, <2>2, <2>3, <2>4
<1>3. CASE /\ pc[p] = "create"
           /\ ~(Defaults[seed[p]] \in Unique /\ rows[Defaults[seed[p]]] > 0)
           /\ rows' = [rows EXCEPT ![Defaults[seed[p]]] = @ + 1]
           /\ UNCHANGED <<log, recorded>>
  <2>1. Prefix'
    BY <1>00, <1>3 DEF Prefix, OnceInOrder
  <2>2. /\ rows' \in [ToSet(Defaults) -> Nat]
        /\ \A d \in ToSet(Defaults) : rows'[d] >= rows[d]
        /\ SeededOnce'
    BY <1>3, CreateAdds
  <2>3. log' = log /\ recorded' = recorded /\ pc[p] = "create"
    BY <1>3
  <2>4. /\ log' \in Seq(1 .. Files) /\ recorded' \subseteq 1 .. Files
        /\ Len(log') = Len(log)
    BY <1>0, <2>3
  <2> QED
    BY <2>1, <2>2, <2>3, <2>4, Zenon
<1> QED
  BY <1>1, <1>2, <1>3 DEF EffectOrNot

LEMMA StartKeeps ==
  ASSUME BootInv, NEW p \in Processes, Start(p)
  PROVE  BootInv'
<1> USE FilesAssumption, NoOneAssumption, MaxFaultsAssumption, DefaultsType
    DEF BootInv, TypeOK, Steps, Inside, database, Goto, Start
<1>1. TypeOK'
  BY DEF Opened, SeedsDone
<1>2. Prefix'
  BY DEF Prefix, OnceInOrder, Opened
<1>3. Informed'
  BY DEF Informed, Opened, Prefix
<1>4. Opened'
  BY DEF Opened, OneOpen, Informed, Prefix
<1>5. OneOpen'
  BY DEF OneOpen, Opened, Informed, Prefix
<1>6. Migrations'
  BY DEF Migrations, After, Informed, Opened
<1>7. SeedsBehind'
  BY DEF SeedsBehind, SeedsDone
<1>8. SeedsDone'
  BY DEF SeedsDone, SeedsBehind
<1>9. Exclusive'
  BY DEF Exclusive
<1>10. StillMissing'
  BY DEF StillMissing, SeedsDone, Exclusive, SeededOnce
<1>11. SeededOnce'
  BY DEF SeededOnce, SeedsDone, Exclusive, StillMissing
<1> QED
  BY <1>1, <1>2, <1>3, <1>4, <1>5, <1>6, <1>7, <1>8, <1>9, <1>10, <1>11 DEF BootInv

LEMMA LockKeeps ==
  ASSUME BootInv, NEW p \in Processes, Lock(p)
  PROVE  BootInv'
<1> USE FilesAssumption, NoOneAssumption, MaxFaultsAssumption, DefaultsType
    DEF BootInv, TypeOK, Steps, Inside, database, Goto, Lock
<1>1. TypeOK'
  BY DEF Opened, SeedsDone
<1>2. Prefix'
  BY DEF Prefix, OnceInOrder, Opened
<1>3. Informed'
  BY DEF Informed, Opened, Prefix
<1>4. Opened'
  BY DEF Opened, OneOpen, Informed, Prefix
<1>5. OneOpen'
  BY DEF OneOpen, Opened, Informed, Prefix
<1>6. Migrations'
  BY DEF Migrations, After, Informed, Opened
<1>7. SeedsBehind'
  BY DEF SeedsBehind, SeedsDone
<1>8. SeedsDone'
  BY DEF SeedsDone, SeedsBehind
<1>9. Exclusive'
  BY DEF Exclusive
<1>10. StillMissing'
  BY DEF StillMissing, SeedsDone, Exclusive, SeededOnce
<1>11. SeededOnce'
  BY DEF SeededOnce, SeedsDone, Exclusive, StillMissing
<1> QED
  BY <1>1, <1>2, <1>3, <1>4, <1>5, <1>6, <1>7, <1>8, <1>9, <1>10, <1>11 DEF BootInv

LEMMA LoadKeeps ==
  ASSUME BootInv, NEW p \in Processes, Load(p)
  PROVE  BootInv'
<1> USE FilesAssumption, NoOneAssumption, MaxFaultsAssumption, DefaultsType
    DEF BootInv, TypeOK, Steps, Inside, database, Goto, Load
<1>1. TypeOK'
  BY DEF Opened, SeedsDone
<1>2. Prefix'
  BY DEF Prefix, OnceInOrder, Opened
<1>3. Informed'
  BY DEF Informed, Opened, Prefix
<1>4. Opened'
  BY DEF Opened, OneOpen, Informed, Prefix
<1>5. OneOpen'
  BY DEF OneOpen, Opened, Informed, Prefix
<1>6. Migrations'
  BY DEF Migrations, After, Informed, Opened
<1>7. SeedsBehind'
  BY DEF SeedsBehind, SeedsDone
<1>8. SeedsDone'
  BY DEF SeedsDone, SeedsBehind
<1>9. Exclusive'
  BY DEF Exclusive
<1>10. StillMissing'
  BY DEF StillMissing, SeedsDone, Exclusive, SeededOnce
<1>11. SeededOnce'
  BY DEF SeededOnce, SeedsDone, Exclusive, StillMissing
<1> QED
  BY <1>1, <1>2, <1>3, <1>4, <1>5, <1>6, <1>7, <1>8, <1>9, <1>10, <1>11 DEF BootInv

LEMMA ExecuteKeeps ==
  ASSUME BootInv, NEW p \in Processes, Execute(p)
  PROVE  BootInv'
<1> USE FilesAssumption, NoOneAssumption, MaxFaultsAssumption, DefaultsType
    DEF BootInv, TypeOK, Steps, Inside, database, Goto, Execute, Missing, Next1, Stop
<1>1. TypeOK'
  <2>1. Next1(p) \in ToSet(log) \/ Next1(p) \in 1 .. Files
    BY ExecutesNext
  <2>2. open' \in [Processes -> 0 .. Files]
    BY <2>1, SMTT(30)
  <2>3. pc' \in [Processes -> Steps] /\ holder' \in Processes \cup {NoOne}
    OBVIOUS
  <2>4. UNCHANGED <<log, recorded, rows, seen, seed, lost, faults>>
    OBVIOUS
  <2> QED
    BY <2>2, <2>3, <2>4
<1>2. Prefix'
  BY DEF Prefix, OnceInOrder, Opened
<1>3. Informed'
  BY DEF Informed, Opened, Prefix
<1>4. Opened'
  BY ExecutesNext DEF Opened
<1>5. OneOpen'
  <2>1. CASE Next1(p) \in ToSet(log)
    BY <2>1, SMTT(30) DEF OneOpen
  <2>2. CASE Next1(p) \notin ToSet(log)
    <3>1. \A q \in Processes : open[q] # Len(log) + 1
      BY <2>2, ExecutesNext
    <3>2. \A q \in Processes : pc[q] # "commit"
      BY <3>1 DEF Opened
    <3>3. \A q \in Processes : pc'[q] = "commit" => q = p
      BY <2>2, <3>2
    <3> QED
      BY <3>3 DEF OneOpen
  <2> QED
    BY <2>1, <2>2
<1>6. Migrations'
  BY DEF Migrations, After, Informed, Opened
<1>7. SeedsBehind'
  BY DEF SeedsBehind, SeedsDone
<1>8. SeedsDone'
  BY DEF SeedsDone, SeedsBehind
<1>9. Exclusive'
  BY DEF Exclusive
<1>10. StillMissing'
  BY DEF StillMissing, SeedsDone, Exclusive, SeededOnce
<1>11. SeededOnce'
  BY DEF SeededOnce, SeedsDone, Exclusive, StillMissing
<1> QED
  BY <1>1, <1>2, <1>3, <1>4, <1>5, <1>6, <1>7, <1>8, <1>9, <1>10, <1>11 DEF BootInv

LEMMA CommitKeeps ==
  ASSUME BootInv, NEW p \in Processes, Commit(p)
  PROVE  BootInv'
<1> USE FilesAssumption, NoOneAssumption, MaxFaultsAssumption, DefaultsType
    DEF BootInv, TypeOK, Steps, Inside, database, Goto, Commit
<1>1. TypeOK'
  <2>1. log' \in Seq(1 .. Files) /\ open[p] \in 1 .. Files
    BY CommitExtends
  <2>2. recorded' \subseteq 1 .. Files /\ seen' \in [Processes -> SUBSET (1 .. Files)]
    BY <2>1
  <2>3. open' \in [Processes -> 0 .. Files] /\ pc' \in [Processes -> Steps]
    OBVIOUS
  <2>4. UNCHANGED <<rows, holder, seed, lost, faults>>
    OBVIOUS
  <2> QED
    BY <2>1, <2>2, <2>3, <2>4
<1>2. Prefix'
  BY CommitExtends
<1>3. Informed'
  <2>1. Len(log') = Len(log) + 1 /\ Len(log) \in Nat
    BY CommitExtends
  <2>2. seen[p] = 1 .. Len(log) /\ open[p] = Len(log) + 1
    BY DEF Opened
  <2>3. seen'[p] = 1 .. Len(log')
    BY <2>1, <2>2
  <2>4. Len(log') \in 0 .. Len(log')
    BY <2>1
  <2>5. \A k \in 0 .. Len(log) : k \in 0 .. Len(log')
    BY <2>1
  <2>6. \A q \in Processes \ {p} : seen'[q] = seen[q]
    OBVIOUS
  <2> QED
    BY <2>3, <2>4, <2>5, <2>6 DEF Informed
<1>4. Opened'
  BY DEF Opened, OneOpen, Informed, Prefix
<1>5. OneOpen'
  BY DEF OneOpen, Opened, Informed, Prefix
<1>6. Migrations'
  BY DEF Migrations, After, Informed, Opened
<1>7. SeedsBehind'
  BY DEF SeedsBehind, SeedsDone
<1>8. SeedsDone'
  BY DEF SeedsDone, SeedsBehind
<1>9. Exclusive'
  BY DEF Exclusive
<1>10. StillMissing'
  BY DEF StillMissing, SeedsDone, Exclusive, SeededOnce
<1>11. SeededOnce'
  BY DEF SeededOnce, SeedsDone, Exclusive, StillMissing
<1> QED
  BY <1>1, <1>2, <1>3, <1>4, <1>5, <1>6, <1>7, <1>8, <1>9, <1>10, <1>11 DEF BootInv

LEMMA MigratedKeeps ==
  ASSUME BootInv, NEW p \in Processes, Migrated(p)
  PROVE  BootInv'
<1> USE FilesAssumption, NoOneAssumption, MaxFaultsAssumption, DefaultsType
    DEF BootInv, TypeOK, Steps, Inside, database, Goto, Migrated, Missing
<1>1. TypeOK'
  BY DEF Opened, SeedsDone
<1>2. Prefix'
  BY DEF Prefix, OnceInOrder, Opened
<1>3. Informed'
  BY DEF Informed, Opened, Prefix
<1>4. Opened'
  BY DEF Opened, OneOpen, Informed, Prefix
<1>5. OneOpen'
  BY DEF OneOpen, Opened, Informed, Prefix
<1>6. Migrations'
  BY DEF Migrations, After, Informed, Opened
<1>7. SeedsBehind'
  BY DEF SeedsBehind, SeedsDone
<1>8. SeedsDone'
  BY DEF SeedsDone, SeedsBehind
<1>9. Exclusive'
  BY DEF Exclusive
<1>10. StillMissing'
  BY DEF StillMissing, SeedsDone, Exclusive, SeededOnce
<1>11. SeededOnce'
  BY DEF SeededOnce, SeedsDone, Exclusive, StillMissing
<1> QED
  BY <1>1, <1>2, <1>3, <1>4, <1>5, <1>6, <1>7, <1>8, <1>9, <1>10, <1>11 DEF BootInv

LEMMA FindKeeps ==
  ASSUME BootInv, NEW p \in Processes, Find(p)
  PROVE  BootInv'
<1> USE FilesAssumption, NoOneAssumption, MaxFaultsAssumption, DefaultsType
    DEF BootInv, TypeOK, Steps, Inside, database, Goto, Find
<1>1. TypeOK'
  <2>1. seed'[p] \in 1 .. Len(Defaults) + 1
    OBVIOUS
  <2> QED
    BY <2>1
<1>2. Prefix'
  BY DEF Prefix, OnceInOrder, Opened
<1>3. Informed'
  BY DEF Informed, Opened, Prefix
<1>4. Opened'
  BY DEF Opened, OneOpen, Informed, Prefix
<1>5. OneOpen'
  BY DEF OneOpen, Opened, Informed, Prefix
<1>6. Migrations'
  BY DEF Migrations, After, Informed, Opened
<1>7. SeedsBehind'
  <2>1. seed[p] \in 1 .. Len(Defaults) + 1
    OBVIOUS
  <2>2. \A i \in 1 .. Len(Defaults) : i < seed'[p] => i < seed[p] \/ i = seed[p]
    BY <2>1
  <2>3. seed'[p] # seed[p] => rows[Defaults[seed[p]]] > 0
    OBVIOUS
  <2>4. \A q \in Processes \ {p} : seed'[q] = seed[q]
    OBVIOUS
  <2> QED
    BY <2>1, <2>2, <2>3, <2>4 DEF SeedsBehind
<1>8. SeedsDone'
  BY DEF SeedsDone, SeedsBehind
<1>9. Exclusive'
  BY DEF Exclusive
<1>10. StillMissing'
  BY DEF StillMissing, SeedsDone, Exclusive, SeededOnce
<1>11. SeededOnce'
  BY DEF SeededOnce, SeedsDone, Exclusive, StillMissing
<1> QED
  BY <1>1, <1>2, <1>3, <1>4, <1>5, <1>6, <1>7, <1>8, <1>9, <1>10, <1>11 DEF BootInv

LEMMA CreateKeeps ==
  ASSUME BootInv, NEW p \in Processes, Create(p)
  PROVE  BootInv'
<1> USE FilesAssumption, NoOneAssumption, MaxFaultsAssumption, DefaultsType
    DEF BootInv, TypeOK, Steps, Inside, database, Goto, Create, Stop
<1>1. TypeOK'
  <2>1. seed[p] + 1 \in 1 .. Len(Defaults) + 1
    BY DEF SeedsDone
  <2>2. rows' \in [ToSet(Defaults) -> Nat]
    BY CreateAdds
  <2>3. seed' \in [Processes -> 1 .. Len(Defaults) + 1]
    BY <2>1
  <2>4. pc' \in [Processes -> Steps]
    OBVIOUS
  <2>5. open' \in [Processes -> 0 .. Files]
    <3>1. open' = open \/ open' = [open EXCEPT ![p] = 0]
      OBVIOUS
    <3>2. open \in [Processes -> 0 .. Files] /\ 0 \in 0 .. Files
      OBVIOUS
    <3> HIDE DEF Create, Stop, BootInv, TypeOK
    <3> QED
      BY <3>1, <3>2
  <2>6. holder' \in {holder, NoOne}
    OBVIOUS
  <2>7. log' = log /\ recorded' = recorded /\ seen' = seen /\ lost' = lost /\ faults' = faults
    OBVIOUS
  <2> QED
    BY <2>2, <2>3, <2>4, <2>5, <2>6, <2>7
<1>2. Prefix'
  BY DEF Prefix, OnceInOrder, Opened
<1>3. Informed'
  BY DEF Informed, Opened, Prefix
<1>4. Opened'
  BY DEF Opened, OneOpen, Informed, Prefix
<1>5. OneOpen'
  BY DEF OneOpen, Opened, Informed, Prefix
<1>6. Migrations'
  BY DEF Migrations, After, Informed, Opened
<1>7. SeedsBehind'
  <2>1. CASE UNCHANGED rows /\ UNCHANGED seed
    BY <2>1 DEF SeedsBehind
  <2>2. CASE ~(Defaults[seed[p]] \in Unique /\ rows[Defaults[seed[p]]] > 0)
    <3>1. /\ \A d \in ToSet(Defaults) : rows'[d] >= rows[d]
          /\ rows' \in [ToSet(Defaults) -> Nat]
          /\ rows'[Defaults[seed[p]]] > 0
      BY <2>2, CreateAdds
    <3>2. \A i \in 1 .. Len(Defaults) : rows[Defaults[i]] > 0 => rows'[Defaults[i]] > 0
      BY <3>1
    <3>3. \A i \in 1 .. Len(Defaults) : i < seed'[p] => i < seed[p] \/ i = seed[p]
      BY <2>2
    <3>4. \A q \in Processes \ {p} : seed'[q] = seed[q]
      BY <2>2
    <3> QED
      BY <3>1, <3>2, <3>3, <3>4 DEF SeedsBehind
  <2> QED
    BY <2>1, <2>2
<1>8. SeedsDone'
  BY DEF SeedsDone, SeedsBehind
<1>9. Exclusive'
  BY DEF Exclusive
<1>10. StillMissing'
  BY DEF StillMissing, SeedsDone, Exclusive, SeededOnce
<1>11. SeededOnce'
  <2>1. CASE UNCHANGED rows
    BY <2>1 DEF SeededOnce
  <2>2. CASE ~(Defaults[seed[p]] \in Unique /\ rows[Defaults[seed[p]]] > 0)
    BY <2>2, CreateAdds
  <2> QED
    BY <2>1, <2>2
<1> QED
  BY <1>1, <1>2, <1>3, <1>4, <1>5, <1>6, <1>7, <1>8, <1>9, <1>10, <1>11 DEF BootInv

LEMMA UnlockKeeps ==
  ASSUME BootInv, NEW p \in Processes, Unlock(p)
  PROVE  BootInv'
<1> USE FilesAssumption, NoOneAssumption, MaxFaultsAssumption, DefaultsType
    DEF BootInv, TypeOK, Steps, Inside, database, Goto, Unlock
<1>1. TypeOK'
  BY DEF Opened, SeedsDone
<1>2. Prefix'
  BY DEF Prefix, OnceInOrder, Opened
<1>3. Informed'
  BY DEF Informed, Opened, Prefix
<1>4. Opened'
  BY DEF Opened, OneOpen, Informed, Prefix
<1>5. OneOpen'
  BY DEF OneOpen, Opened, Informed, Prefix
<1>6. Migrations'
  BY DEF Migrations, After, Informed, Opened
<1>7. SeedsBehind'
  BY DEF SeedsBehind, SeedsDone
<1>8. SeedsDone'
  BY DEF SeedsDone, SeedsBehind
<1>9. Exclusive'
  BY DEF Exclusive
<1>10. StillMissing'
  BY DEF StillMissing, SeedsDone, Exclusive, SeededOnce
<1>11. SeededOnce'
  BY DEF SeededOnce, SeedsDone, Exclusive, StillMissing
<1> QED
  BY <1>1, <1>2, <1>3, <1>4, <1>5, <1>6, <1>7, <1>8, <1>9, <1>10, <1>11 DEF BootInv

LEMMA FailKeeps ==
  ASSUME BootInv, NEW p \in Processes, Fail(p)
  PROVE  BootInv'
<1> USE FilesAssumption, NoOneAssumption, MaxFaultsAssumption, DefaultsType
    DEF BootInv, TypeOK, Steps, Inside, database, Goto, Fail, Fault, Stop, EffectOrNot
<1>1. TypeOK'
  <2>1. /\ log' \in Seq(1 .. Files) /\ recorded' \subseteq 1 .. Files
        /\ rows' \in [ToSet(Defaults) -> Nat]
    BY EffectKeeps
  <2>2. /\ pc' \in [Processes -> Steps] /\ open' \in [Processes -> 0 .. Files]
        /\ holder' \in Processes \cup {NoOne} /\ faults' \in 0 .. MaxFaults
    OBVIOUS
  <2> QED
    BY <2>1, <2>2
<1>2. Prefix'
  BY EffectKeeps
<1>3. Informed'
  BY SMTT(30) DEF Informed, Opened, Prefix
<1>4. Opened'
  BY DEF Opened, OneOpen, Informed, Prefix
<1>5. OneOpen'
  BY DEF OneOpen, Opened, Informed, Prefix
<1>6. Migrations'
  BY DEF Migrations, After, Informed, Opened
<1>7. SeedsBehind'
  <2>1. \A d \in ToSet(Defaults) : rows'[d] >= rows[d] /\ rows'[d] \in Nat
    BY EffectKeeps
  <2>2. \A i \in 1 .. Len(Defaults) : rows[Defaults[i]] > 0 => rows'[Defaults[i]] > 0
    BY <2>1
  <2>3. UNCHANGED seed
    OBVIOUS
  <2> QED
    BY <2>2, <2>3 DEF SeedsBehind
<1>8. SeedsDone'
  BY DEF SeedsDone, SeedsBehind
<1>9. Exclusive'
  BY DEF Exclusive
<1>10. StillMissing'
  BY DEF StillMissing, SeedsDone, Exclusive, SeededOnce
<1>11. SeededOnce'
  BY EffectKeeps
<1> QED
  BY <1>1, <1>2, <1>3, <1>4, <1>5, <1>6, <1>7, <1>8, <1>9, <1>10, <1>11 DEF BootInv

LEMMA CrashKeeps ==
  ASSUME BootInv, NEW p \in Processes, Crash(p)
  PROVE  BootInv'
<1> USE FilesAssumption, NoOneAssumption, MaxFaultsAssumption, DefaultsType
    DEF BootInv, TypeOK, Steps, Inside, database, Goto, Crash, Fault, EffectOrNot
<1>1. TypeOK'
  <2>1. /\ log' \in Seq(1 .. Files) /\ recorded' \subseteq 1 .. Files
        /\ rows' \in [ToSet(Defaults) -> Nat]
    BY EffectKeeps
  <2>2. /\ pc' \in [Processes -> Steps] /\ open' \in [Processes -> 0 .. Files]
        /\ holder' \in Processes \cup {NoOne} /\ faults' \in 0 .. MaxFaults
    OBVIOUS
  <2> QED
    BY <2>1, <2>2
<1>2. Prefix'
  BY EffectKeeps
<1>3. Informed'
  BY SMTT(30) DEF Informed, Opened, Prefix
<1>4. Opened'
  BY DEF Opened, OneOpen, Informed, Prefix
<1>5. OneOpen'
  BY DEF OneOpen, Opened, Informed, Prefix
<1>6. Migrations'
  BY DEF Migrations, After, Informed, Opened
<1>7. SeedsBehind'
  <2>1. \A d \in ToSet(Defaults) : rows'[d] >= rows[d] /\ rows'[d] \in Nat
    BY EffectKeeps
  <2>2. \A i \in 1 .. Len(Defaults) : rows[Defaults[i]] > 0 => rows'[Defaults[i]] > 0
    BY <2>1
  <2>3. UNCHANGED seed
    OBVIOUS
  <2> QED
    BY <2>2, <2>3 DEF SeedsBehind
<1>8. SeedsDone'
  BY DEF SeedsDone, SeedsBehind
<1>9. Exclusive'
  BY DEF Exclusive
<1>10. StillMissing'
  BY DEF StillMissing, SeedsDone, Exclusive, SeededOnce
<1>11. SeededOnce'
  BY EffectKeeps
<1> QED
  BY <1>1, <1>2, <1>3, <1>4, <1>5, <1>6, <1>7, <1>8, <1>9, <1>10, <1>11 DEF BootInv

LEMMA LoseSessionKeeps ==
  ASSUME BootInv, NEW p \in Processes, LoseSession(p)
  PROVE  BootInv'
<1> USE FilesAssumption, NoOneAssumption, MaxFaultsAssumption, DefaultsType
    DEF BootInv, TypeOK, Steps, Inside, database, Goto, LoseSession, Fault
<1>1. TypeOK'
  BY DEF Opened, SeedsDone
<1>2. Prefix'
  BY DEF Prefix, OnceInOrder, Opened
<1>3. Informed'
  BY DEF Informed, Opened, Prefix
<1>4. Opened'
  BY DEF Opened, OneOpen, Informed, Prefix
<1>5. OneOpen'
  BY DEF OneOpen, Opened, Informed, Prefix
<1>6. Migrations'
  BY DEF Migrations, After, Informed, Opened
<1>7. SeedsBehind'
  BY DEF SeedsBehind, SeedsDone
<1>8. SeedsDone'
  BY DEF SeedsDone, SeedsBehind
<1>9. Exclusive'
  BY DEF Exclusive
<1>10. StillMissing'
  BY DEF StillMissing, SeedsDone, Exclusive, SeededOnce
<1>11. SeededOnce'
  BY DEF SeededOnce, SeedsDone, Exclusive, StillMissing
<1> QED
  BY <1>1, <1>2, <1>3, <1>4, <1>5, <1>6, <1>7, <1>8, <1>9, <1>10, <1>11 DEF BootInv

LEMMA SessionEndsKeeps ==
  ASSUME BootInv, SessionEnds
  PROVE  BootInv'
<1> USE FilesAssumption, NoOneAssumption, MaxFaultsAssumption, DefaultsType
    DEF BootInv, TypeOK, Steps, Inside, database, Goto, SessionEnds
<1>1. TypeOK'
  BY DEF Opened, SeedsDone
<1>2. Prefix'
  BY DEF Prefix, OnceInOrder, Opened
<1>3. Informed'
  BY DEF Informed, Opened, Prefix
<1>4. Opened'
  BY DEF Opened, OneOpen, Informed, Prefix
<1>5. OneOpen'
  BY DEF OneOpen, Opened, Informed, Prefix
<1>6. Migrations'
  BY DEF Migrations, After, Informed, Opened
<1>7. SeedsBehind'
  BY DEF SeedsBehind, SeedsDone
<1>8. SeedsDone'
  BY DEF SeedsDone, SeedsBehind
<1>9. Exclusive'
  BY DEF Exclusive
<1>10. StillMissing'
  BY DEF StillMissing, SeedsDone, Exclusive, SeededOnce
<1>11. SeededOnce'
  BY DEF SeededOnce, SeedsDone, Exclusive, StillMissing
<1> QED
  BY <1>1, <1>2, <1>3, <1>4, <1>5, <1>6, <1>7, <1>8, <1>9, <1>10, <1>11 DEF BootInv

LEMMA StepKeeps == BootInv /\ [Next]_vars => BootInv'
<1>1. CASE UNCHANGED vars
  BY <1>1 DEF vars, BootInv, TypeOK, Prefix, OnceInOrder, Informed, Opened, OneOpen, Migrations,
      SeedsBehind, SeedsDone, Exclusive, StillMissing, SeededOnce
<1>2. ASSUME BootInv, NEW p \in Processes, Step(p) PROVE BootInv'
  BY <1>2, StartKeeps, LockKeeps, LoadKeeps, ExecuteKeeps, CommitKeeps, MigratedKeeps, FindKeeps,
     CreateKeeps, UnlockKeeps, Zenon DEF Step
<1> QED
  BY <1>1, <1>2, FailKeeps, CrashKeeps, LoseSessionKeeps, SessionEndsKeeps, Zenon DEF Next

(* The inductive invariant of the start.                                    *)
THEOREM BootInvAlways == Spec => []BootInv
BY InitInv, StepKeeps, PTL DEF Spec

(* The state of a start stays in its types.                                 *)
THEOREM TypeCorrect == Spec => []TypeOK
BY BootInvAlways, PTL DEF BootInv

(* Migrate: however many processes start at once, die between statements or *)
(* lose their lock, every migration takes effect at most once and in order. *)
THEOREM MigratedInOrder == Spec => []OnceInOrder
BY BootInvAlways, PTL DEF BootInv, Prefix

(* SeedDefaults: a default is there twice only after a session was lost,    *)
(* and the administrator never.                                             *)
THEOREM SeededAtMostOnce == Spec => []SeededOnce
BY BootInvAlways, PTL DEF BootInv

LEMMA Served == BootInv => ServesComplete
<1> SUFFICES ASSUME BootInv, NEW p \in Processes, pc[p] = "serving"
             PROVE  recorded = 1 .. Files /\ \A d \in ToSet(Defaults) : rows[d] > 0
  BY DEF ServesComplete
<1> USE FilesAssumption, DefaultsType DEF BootInv
<1>1. recorded = 1 .. Files
  <2>1. seen[p] = 1 .. Files
    BY DEF Migrations, After
  <2>2. seen[p] \subseteq recorded
    BY DEF Informed, Prefix, TypeOK
  <2> QED
    BY <2>1, <2>2 DEF TypeOK
<1>2. ASSUME NEW d \in ToSet(Defaults) PROVE rows[d] > 0
  <2>1. PICK i \in 1 .. Len(Defaults) : Defaults[i] = d
    BY <1>2, DefaultsAssumption DEF ToSet
  <2>2. i < seed[p]
    BY DEF SeedsDone, TypeOK
  <2> QED
    BY <2>1, <2>2 DEF SeedsBehind
<1> QED
  BY <1>1, <1>2

(* RunAPI: whoever serves found every migration recorded and every default  *)
(* stored.                                                                  *)
THEOREM ServedComplete == Spec => []ServesComplete
BY BootInvAlways, Served, PTL
=============================================================================
