----------------------------- MODULE Bootstrap ------------------------------
(***************************************************************************)
(* The start of the API: a process takes an advisory lock of PostgreSQL on *)
(* a connection of its own, applies the migrations that are not recorded   *)
(* in schema_migrations, seeds the default profiles and the administrator, *)
(* releases the lock and serves.  Whatever fails ends the process, and its *)
(* supervisor starts it again.                                             *)
(*                                                                         *)
(* The lock belongs to the session of that connection.  Migrations and     *)
(* seeds use other connections: a process whose session was ended goes on  *)
(* without the lock and learns of it when it unlocks.  The session of a    *)
(* process that died may be ended later than the process.                  *)
(***************************************************************************)
EXTENDS Naturals, SequencesExt

CONSTANTS
  Processes,    (* API processes of one installation                       *)
  Files,        (* number of migrations, in the order of their names       *)
  Defaults,     (* sequence of what is seeded                              *)
  Unique,       (* defaults with a unique index: the administrator's name  *)
  NoOne,        (* the lock is free                                        *)
  MaxFaults     (* bound on faults                                         *)

ASSUME FilesAssumption == Files \in Nat
ASSUME DefaultsAssumption == Defaults \in Seq(ToSet(Defaults))
ASSUME MaxFaultsAssumption == MaxFaults \in Nat
ASSUME NoOneAssumption == NoOne \notin Processes

VARIABLES
  log,          (* migrations in the order they took effect                *)
  recorded,     (* rows of schema_migrations                               *)
  rows,         (* how often a default was stored                          *)
  holder,       (* whose session has the lock                              *)
  pc,           (* where each process is                                   *)
  seen,         (* migrations it knows to be applied                       *)
  open,         (* migration it has executed and not committed, or 0       *)
  seed,         (* position in Defaults of what it seeds                   *)
  lost,         (* some session was ended under a process                  *)
  faults

database == <<log, recorded, rows>>
vars     == <<log, recorded, rows, holder, pc, seen, open, seed, lost, faults>>

Inside == {"load", "execute", "commit", "find", "create", "unlock"}
Steps  == Inside \cup {"down", "waiting", "serving"}

Goto(p, from, to) == pc[p] = from /\ pc' = [pc EXCEPT ![p] = to]

Init ==
  /\ log = <<>> /\ recorded = {}
  /\ rows = [d \in ToSet(Defaults) |-> 0]
  /\ holder = NoOne
  /\ pc   = [p \in Processes |-> "down"]
  /\ seen = [p \in Processes |-> {}]
  /\ open = [p \in Processes |-> 0]
  /\ seed = [p \in Processes |-> 1]
  /\ lost = FALSE /\ faults = 0

(* The supervisor starts the process, which connects.                       *)
Start(p) ==
  /\ Goto(p, "down", "waiting")
  /\ seen' = [seen EXCEPT ![p] = {}]
  /\ seed' = [seed EXCEPT ![p] = 1]
  /\ UNCHANGED <<database, holder, open, lost, faults>>

(* Mutant: the lock is tried once and not waited for.                       *)
LockOrNot(p) ==
  /\ Goto(p, "waiting", "load")
  /\ holder' = IF holder = NoOne THEN p ELSE holder
  /\ UNCHANGED <<database, seen, open, seed, lost, faults>>

(* pg_advisory_lock waits.                                                  *)
Lock(p) ==
  /\ Goto(p, "waiting", "load") /\ holder = NoOne
  /\ holder' = p
  /\ UNCHANGED <<database, seen, open, seed, lost, faults>>

(* ensureSchemaMigrationsTable and loadAppliedMigrations.                   *)
Load(p) ==
  /\ Goto(p, "load", "execute")
  /\ seen' = [seen EXCEPT ![p] = recorded]
  /\ UNCHANGED <<database, holder, open, seed, lost, faults>>

-----------------------------------------------------------------------------
(* Migrate.                                                                 *)

Missing(p) == 1 .. Files \ seen[p]
Next1(p)   == CHOOSE f \in Missing(p) : \A g \in Missing(p) : f <= g

(* An error ends the run; the process unlocks if it can, and ends.          *)
Stop(p) ==
  /\ pc' = [pc EXCEPT ![p] = "down"]
  /\ open' = [open EXCEPT ![p] = 0]
  /\ holder' = IF holder = p THEN NoOne ELSE holder

(* A statement waits for another transaction that creates the same, and     *)
(* fails when what it creates is there.                                     *)
Execute(p) ==
  /\ pc[p] = "execute" /\ Missing(p) # {}
  /\ \A q \in Processes : open[q] # Next1(p)
  /\ IF Next1(p) \in ToSet(log)
     THEN Stop(p)
     ELSE /\ Goto(p, "execute", "commit")
          /\ open' = [open EXCEPT ![p] = Next1(p)]
          /\ UNCHANGED holder
  /\ UNCHANGED <<database, seen, seed, lost, faults>>

(* Mutant: the migration takes effect by itself, and is recorded after it.  *)
CommitThenRecord(p) ==
  /\ open[p] # 0
  /\ \/ /\ open[p] \notin ToSet(log) /\ log' = Append(log, open[p])
        /\ UNCHANGED <<pc, recorded, seen, open>>
     \/ /\ open[p] \in ToSet(log) /\ Goto(p, "commit", "execute")
        /\ recorded' = recorded \cup {open[p]}
        /\ seen' = [seen EXCEPT ![p] = @ \cup {open[p]}]
        /\ open' = [open EXCEPT ![p] = 0]
        /\ UNCHANGED log
  /\ UNCHANGED <<rows, holder, seed, lost, faults>>

(* The effects and the record of a migration, in one transaction.           *)
Commit(p) ==
  /\ Goto(p, "commit", "execute")
  /\ log' = Append(log, open[p])
  /\ recorded' = recorded \cup {open[p]}
  /\ seen' = [seen EXCEPT ![p] = @ \cup {open[p]}]
  /\ open' = [open EXCEPT ![p] = 0]
  /\ UNCHANGED <<rows, holder, seed, lost, faults>>

-----------------------------------------------------------------------------
(* SeedDefaults of the profiles and of the administrator.                   *)

(* Mutant: seeding waits for the next start when something was migrated.    *)
MigratedServes(p) ==
  /\ Goto(p, "execute", "unlock") /\ Missing(p) = {}
  /\ UNCHANGED <<database, holder, seen, open, seed, lost, faults>>

Migrated(p) ==
  /\ Goto(p, "execute", "find") /\ Missing(p) = {}
  /\ UNCHANGED <<database, holder, seen, open, seed, lost, faults>>

Find(p) ==
  /\ pc[p] = "find"
  /\ \/ seed[p] > Len(Defaults) /\ Goto(p, "find", "unlock") /\ UNCHANGED seed
     \/ /\ seed[p] <= Len(Defaults)
        /\ IF rows[Defaults[seed[p]]] > 0
           THEN UNCHANGED pc /\ seed' = [seed EXCEPT ![p] = @ + 1]
           ELSE Goto(p, "find", "create") /\ UNCHANGED seed
  /\ UNCHANGED <<database, holder, seen, open, lost, faults>>

Create(p) ==
  /\ pc[p] = "create"
  /\ LET d == Defaults[seed[p]]
     IN  IF d \in Unique /\ rows[d] > 0
         THEN Stop(p) /\ UNCHANGED <<rows, seed>>
         ELSE /\ Goto(p, "create", "find")
              /\ rows' = [rows EXCEPT ![d] = @ + 1]
              /\ seed' = [seed EXCEPT ![p] = @ + 1]
              /\ UNCHANGED <<open, holder>>
  /\ UNCHANGED <<log, recorded, seen, lost, faults>>

(* Mutant: the connection goes back to the pool with the lock.              *)
UnlockKept(p) ==
  /\ Goto(p, "unlock", IF holder = p THEN "serving" ELSE "down")
  /\ UNCHANGED <<database, holder, seen, open, seed, lost, faults>>

(* A process that has no session to unlock with does not serve.             *)
Unlock(p) ==
  /\ Goto(p, "unlock", IF holder = p THEN "serving" ELSE "down")
  /\ holder' = IF holder = p THEN NoOne ELSE holder
  /\ UNCHANGED <<database, seen, open, seed, lost, faults>>

-----------------------------------------------------------------------------
Fault == faults < MaxFaults /\ faults' = faults + 1

(* What is under way takes effect, or does not.                             *)
EffectOrNot(p) ==
  \/ UNCHANGED database
  \/ /\ pc[p] = "commit"
     /\ log' = Append(log, open[p]) /\ recorded' = recorded \cup {open[p]} /\ UNCHANGED rows
  \/ /\ pc[p] = "create"
     /\ LET d == Defaults[seed[p]]
        IN  ~(d \in Unique /\ rows[d] > 0) /\ rows' = [rows EXCEPT ![d] = @ + 1]
     /\ UNCHANGED <<log, recorded>>

(* A call fails, or its answer is lost.                                     *)
Fail(p) ==
  /\ Fault
  /\ pc[p] \in Inside \cup {"waiting"}
  /\ Stop(p) /\ EffectOrNot(p)
  /\ UNCHANGED <<seen, seed, lost>>

(* The process dies; an open transaction is rolled back, its session stays. *)
Crash(p) ==
  /\ Fault
  /\ pc[p] \in Inside \cup {"serving"}
  /\ pc' = [pc EXCEPT ![p] = "down"]
  /\ open' = [open EXCEPT ![p] = 0]
  /\ EffectOrNot(p)
  /\ UNCHANGED <<holder, seen, seed, lost>>

(* The server ends the session of a process that is dead.                   *)
SessionEnds ==
  /\ holder # NoOne /\ pc[holder] \in {"down", "waiting"}
  /\ holder' = NoOne
  /\ UNCHANGED <<database, pc, seen, open, seed, lost, faults>>

(* A session is ended while its process works on.                           *)
LoseSession(p) ==
  /\ Fault
  /\ holder = p /\ pc[p] \in Inside
  /\ holder' = NoOne /\ lost' = TRUE
  /\ UNCHANGED <<database, pc, seen, open, seed>>

-----------------------------------------------------------------------------
Step(p) ==
  \/ Start(p) \/ Lock(p) \/ Load(p) \/ Execute(p) \/ Commit(p) \/ Migrated(p)
  \/ Find(p) \/ Create(p) \/ Unlock(p)

Next ==
  \/ \E p \in Processes : Step(p) \/ Fail(p) \/ Crash(p) \/ LoseSession(p)
  \/ SessionEnds

Spec == Init /\ [][Next]_vars

(* The supervisor restarts what ended, nobody stops between two calls, and  *)
(* the server notices that a client has gone.                               *)
FairSpec ==
  /\ Spec
  /\ \A p \in Processes : WF_vars(Step(p))
  /\ WF_vars(SessionEnds)

-----------------------------------------------------------------------------
(* Properties.                                                              *)

TypeOK ==
  /\ log \in Seq(1 .. Files) /\ recorded \subseteq 1 .. Files
  /\ rows \in [ToSet(Defaults) -> Nat]
  /\ holder \in Processes \cup {NoOne}
  /\ pc \in [Processes -> Steps]
  /\ seen \in [Processes -> SUBSET (1 .. Files)]
  /\ open \in [Processes -> 0 .. Files]
  /\ seed \in [Processes -> 1 .. Len(Defaults) + 1]
  /\ lost \in BOOLEAN /\ faults \in 0 .. MaxFaults

(* Every migration takes effect once, after the ones before it, even when a *)
(* process works on without its lock or dies between two statements.        *)
OnceInOrder == \A i \in 1 .. Len(log) : log[i] = i

(* No default is stored twice, unless a session was lost under a process;   *)
(* the administrator never is.                                              *)
SeededOnce == \A d \in ToSet(Defaults) : rows[d] > 1 => lost /\ d \notin Unique

(* A process serves only on a schema that is complete and with all its      *)
(* defaults.                                                                *)
ServesComplete ==
  \A p \in Processes : pc[p] = "serving" =>
    recorded = 1 .. Files /\ \A d \in ToSet(Defaults) : rows[d] > 0

(* Once the faults are over every process gets to serve, whoever died with  *)
(* the lock.                                                                *)
AllServe == \A p \in Processes : <>[](pc[p] = "serving")
=============================================================================
