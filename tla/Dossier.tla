------------------------------ MODULE Dossier ------------------------------
(***************************************************************************)
(* The dossiers of one article.                                            *)
(*                                                                         *)
(* Executions of the digest task (runProcessingJob) and of the reprocess   *)
(* task (ReprocessArticle) may work on the same article at once: each      *)
(* finds or makes a processing of it and materializes a dossier, which     *)
(* becomes the active one in a transaction of three statements under       *)
(* PostgreSQL's READ COMMITTED, and gets its publish state afterwards.     *)
(* Two unique indexes, on the version and on the active dossier, meet      *)
(* whatever the transactions do at once.  Any call may fail, an answer to  *)
(* COMMIT may be lost, and a worker may die.                               *)
(*                                                                         *)
(* A dossier has the id its execution gave it: here, the execution.        *)
(***************************************************************************)
EXTENDS Naturals

CONSTANT Jobs   (* the executions that work on it, redeliveries included    *)

VARIABLES
  processings, (* processings saved so far, numbered as they were saved    *)
  rows,        (* article_dossiers, committed                              *)
  stated,      (* dossiers that have a row in article_publish_states       *)
  pc,          (* where each execution is                                  *)
  source,      (* the processing it works with                             *)
  version,     (* the version its transaction computed                     *)
  target       (* the version of the row its transaction closes, or None   *)

vars == <<processings, rows, stated, pc, source, version, target>>

None == 0

Ended == {"ok", "error"}
Steps == Ended \cup {"new", "load", "process", "select", "close", "closeWait", "insert",
                      "commit", "state"}

Dossiers == [version : Nat, job : Jobs, source : Nat, active : BOOLEAN]

Versions == {r.version : r \in rows}

(* nextDossierVersion, over the committed rows.                             *)
NextVersion ==
  IF rows = {} THEN 1 ELSE 1 + CHOOSE v \in Versions : \A u \in Versions : u <= v

(* A row a transaction has updated stays locked until it ends; a row it has *)
(* inserted keeps others with an equal key waiting until then.              *)
Locked(v)    == \E u \in Jobs : target[u] = v /\ pc[u] # "closeWait"
Pending(j)   == \E u \in Jobs \ {j} : pc[u] = "commit"
IsActive(v)  == \E r \in rows : r.version = v /\ r.active
Conflicts(j) == \E r \in rows : r.version = version[j] \/ (r.active /\ r.version # target[j])

Goto(j, from, to) == pc[j] = from /\ pc' = [pc EXCEPT ![j] = to]

(* A write whose answer may be lost.                                        *)
Write(j, from, to) ==
  /\ pc[j] = from
  /\ pc' \in {[pc EXCEPT ![j] = p] : p \in {to, "error"}}

-----------------------------------------------------------------------------
Init ==
  /\ processings = 0 /\ rows = {} /\ stated = {}
  /\ pc      = [j \in Jobs |-> "new"]
  /\ source  = [j \in Jobs |-> None]
  /\ version = [j \in Jobs |-> None]
  /\ target  = [j \in Jobs |-> None]

(* A task that concerns the article is delivered, or delivered again: the   *)
(* digest's looks for a processing first, the reprocess task does not.      *)
Start(j) ==
  /\ pc[j] = "new"
  /\ pc' \in {[pc EXCEPT ![j] = to] : to \in {"load", "process"}}
  /\ UNCHANGED <<processings, rows, stated, source, version, target>>

(* The digest's execution takes the latest processing if there is one.      *)
Load(j) ==
  /\ Goto(j, "load", IF processings = 0 THEN "process" ELSE "select")
  /\ source' = [source EXCEPT ![j] = processings]
  /\ UNCHANGED <<processings, rows, stated, version, target>>

(* Otherwise, and always in ReprocessArticle, the article is processed and  *)
(* the result saved.                                                        *)
Process(j) ==
  /\ Write(j, "process", "select")
  /\ processings' = processings + 1
  /\ source' = [source EXCEPT ![j] = processings']
  /\ UNCHANGED <<rows, stated, version, target>>

-----------------------------------------------------------------------------
(* SaveActive.                                                              *)

(* Its first statement, after the dossier has been built.                   *)
SelectVersion(j) ==
  /\ Goto(j, "select", "close")
  /\ version' = [version EXCEPT ![j] = NextVersion]
  /\ UNCHANGED <<processings, rows, stated, source, target>>

(* Mutant: without a transaction the update takes effect by itself.         *)
CloseActiveAtOnce(j) ==
  /\ Goto(j, "close", "insert")
  /\ rows' = {[r EXCEPT !.active = FALSE] : r \in rows}
  /\ UNCHANGED <<processings, stated, source, version, target>>

(* The update of the active row: it finds none, or locks it, or has to wait *)
(* for the transaction that has locked it.                                  *)
CloseActive(j) ==
  /\ pc[j] = "close"
  /\ \/ /\ ~ \E v \in Versions : IsActive(v)
        /\ pc' = [pc EXCEPT ![j] = "insert"] /\ UNCHANGED target
     \/ \E v \in Versions :
          /\ IsActive(v) /\ target' = [target EXCEPT ![j] = v]
          /\ pc' = [pc EXCEPT ![j] = IF Locked(v) THEN "closeWait" ELSE "insert"]
  /\ UNCHANGED <<processings, rows, stated, source, version>>

(* That transaction has ended: a row that is still active is locked now, a  *)
(* row that is not does not match any more, and the statement does not see  *)
(* the row that came in its place.                                          *)
CloseAfterWait(j) ==
  /\ pc[j] = "closeWait" /\ ~Locked(target[j])
  /\ pc' = [pc EXCEPT ![j] = "insert"]
  /\ target' = [target EXCEPT ![j] = IF IsActive(@) THEN @ ELSE None]
  /\ UNCHANGED <<processings, rows, stated, source, version>>

(* The insert waits for inserts under way and fails on a key in use.        *)
Insert(j) ==
  /\ pc[j] = "insert" /\ ~Pending(j)
  /\ IF Conflicts(j)
     THEN /\ pc' = [pc EXCEPT ![j] = "error"]
          /\ target' = [target EXCEPT ![j] = None]
     ELSE pc' = [pc EXCEPT ![j] = "commit"] /\ UNCHANGED target
  /\ UNCHANGED <<processings, rows, stated, source, version>>

(* Mutant: an error of COMMIT is not looked at.                             *)
CommitAssumed(j) ==
  /\ Goto(j, "commit", "state")
  /\ \/ UNCHANGED rows
     \/ rows' = {[r EXCEPT !.active = @ /\ r.version # target[j]] : r \in rows}
                \cup {[version |-> version[j], job |-> j,
                       source |-> source[j], active |-> TRUE]}
  /\ target' = [target EXCEPT ![j] = None]
  /\ UNCHANGED <<processings, stated, source, version>>

(* COMMIT ends the transaction.                                             *)
Commit(j) ==
  /\ Write(j, "commit", "state")
  /\ rows' = {[r EXCEPT !.active = @ /\ r.version # target[j]] : r \in rows}
             \cup {[version |-> version[j], job |-> j,
                    source |-> source[j], active |-> TRUE]}
  /\ target' = [target EXCEPT ![j] = None]
  /\ UNCHANGED <<processings, stated, source, version>>

-----------------------------------------------------------------------------
(* The initial publish state of the new dossier.                            *)
InitState(j) ==
  /\ Write(j, "state", "ok")
  /\ stated' = stated \cup {j}
  /\ UNCHANGED <<processings, rows, source, version, target>>

(* Mutant: an error leaves the transaction open.                            *)
FailWithoutRollback(j) ==
  /\ pc[j] \notin Ended \cup {"new", "commit"}
  /\ pc' = [pc EXCEPT ![j] = "error"]
  /\ UNCHANGED <<processings, rows, stated, source, version, target>>

(* Mutant: a dossier that gets no publish state is taken back.              *)
FailCompensates(j) ==
  /\ pc[j] \notin Ended \cup {"new"}
  /\ pc' = [pc EXCEPT ![j] = "error"]
  /\ target' = [target EXCEPT ![j] = None]
  /\ rows' = {r \in rows : r.job # j}
  /\ UNCHANGED <<processings, stated, source, version>>

(* A call fails, the context ends or the process dies: an open transaction  *)
(* is rolled back.                                                          *)
Fail(j) ==
  /\ pc[j] \notin Ended \cup {"new"}
  /\ pc' = [pc EXCEPT ![j] = "error"]
  /\ target' = [target EXCEPT ![j] = None]
  /\ UNCHANGED <<processings, rows, stated, source, version>>

Step(j) ==
  \/ Load(j) \/ Process(j) \/ SelectVersion(j) \/ CloseActive(j) \/ CloseAfterWait(j)
  \/ Insert(j) \/ Commit(j) \/ InitState(j)

Next == \E j \in Jobs : Start(j) \/ Step(j) \/ Fail(j)

Spec == Init /\ [][Next]_vars

(* The database answers whoever it does not keep waiting.                   *)
FairSpec == Spec /\ \A j \in Jobs : WF_vars(Step(j))

-----------------------------------------------------------------------------
(* Properties.                                                              *)

TypeOK ==
  /\ processings \in Nat /\ rows \subseteq Dossiers /\ stated \subseteq Jobs
  /\ pc \in [Jobs -> Steps]
  /\ source \in [Jobs -> 0 .. processings]
  /\ version \in [Jobs -> Nat] /\ target \in [Jobs -> Nat]

(* An article that has dossiers has exactly one active dossier, and it is   *)
(* the newest: no reader meets an article without one, whatever two         *)
(* transactions do at once and wherever one dies.                           *)
ActiveIsNewest ==
  rows # {} => \E r \in rows :
    r.active /\ \A s \in rows \ {r} : ~s.active /\ s.version < r.version

(* An execution that returned without error has stored its dossier, under   *)
(* the version it was told and with a publish state, and what it stored is  *)
(* not lost to another that computed the same version.                      *)
OkIsStored ==
  \A j \in Jobs : pc[j] = "ok" =>
    /\ \E r \in rows : r.job = j /\ r.version = version[j] /\ r.source = source[j]
    /\ j \in stated

(* Nobody waits for ever behind another's row lock or index key: every      *)
(* execution ends.                                                          *)
AllEnd == \A j \in Jobs : pc[j] # "new" ~> pc[j] \in Ended

(* The rows of an article are the log that DossierLog describes.            *)
Writer(v) == (CHOOSE r \in rows : r.version = v).job

Written   == [v \in Versions |-> Writer(v)]
Current   == IF rows = {} THEN 0 ELSE CHOOSE v \in Versions : IsActive(v)

Log == INSTANCE DossierLog WITH log <- Written, current <- Current

ImplementsLog == Log!Spec
=============================================================================
