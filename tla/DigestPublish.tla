--------------------------- MODULE DigestPublish ---------------------------
(***************************************************************************)
(* Publishing the digest of one date.                                      *)
(*                                                                         *)
(* Several executions of DailyDigestRuntimeService.Run may work on the     *)
(* same date at once: the scheduler's task, a forced task from the API     *)
(* (it has another task id) and redeliveries of either by the queue.  They *)
(* meet in one row of daily_digests, which BeginPublish uses as a lock,    *)
(* and in Halo, where a post is drafted and then published by two HTTP     *)
(* requests.  Any database call may fail, with or without its effect, any  *)
(* HTTP answer may be lost or come before the request has been served, and *)
(* any execution may die with its worker process.                          *)
(*                                                                         *)
(* Every execution posts under a name of its own (buildPostIdentity uses   *)
(* the clock), so the number of the execution is the number of the post    *)
(* and of the digest content it generated.                                 *)
(***************************************************************************)
EXTENDS Naturals

CONSTANTS
  Workers,      (* worker goroutines of the queue server                   *)
  ForceModes,   (* the values of RunOptions.Force that triggers use        *)
  Faults,       (* which of "crash" and "database" faults may happen       *)
  MaxRuns,      (* bound: executions started for this date                 *)
  RetryLimit    (* markPublishedRetryLimit                                 *)

ASSUME ForceModesAssumption == ForceModes \subseteq BOOLEAN
ASSUME FaultsAssumption     == Faults \subseteq {"crash", "database"}
ASSUME MaxRunsAssumption    == MaxRuns \in Nat
ASSUME RetryLimitAssumption == RetryLimit \in Nat \ {0}

VARIABLES
  rowState,   (* daily_digests.publish_state, "absent" without a row       *)
  rowDigest,  (* whose content the row holds: a run, or None               *)
  rowRemote,  (* remote_id and remote_url: a post, or None                 *)
  pc,         (* where each worker is in Run                               *)
  force,      (* its RunOptions.Force                                      *)
  job,        (* the number of the execution it works on                   *)
  tries,      (* failed attempts of markPublishedWithRetry                 *)
  started,    (* executions started so far                                 *)
  requests,   (* HTTP requests on their way to Halo                        *)
  drafts,     (* posts Halo has created                                    *)
  live        (* posts Halo has published                                  *)

row   == <<rowState, rowDigest, rowRemote>>
halo  == <<requests, drafts, live>>
tasks == <<force, job, started>>
vars  == <<rowState, rowDigest, rowRemote, pc, force, job, tries, started,
           requests, drafts, live>>

None == 0
Runs == 1 .. MaxRuns

RowStates == {"absent", "publishing", "published", "failed", "recovery_required"}

Returned == {"idle", "ok", "error"}
Owning   == {"draft", "draftWait", "publishWait", "mark", "recover",
             "recoverKnown", "fail"}
Steps    == Returned \cup Owning \cup
            {"check", "prepare", "begin", "forceCheck", "forceFail", "rebegin",
             "recheck"}

Requests == [kind : {"draft", "publish"}, post : Runs]

(* Mutant: BeginPublish takes a row that is being published, too.           *)
ClaimableAnyUnpublished == rowState \in {"absent", "failed", "publishing"}

(* The rows BeginPublish takes: the insert succeeds or the state is failed. *)
Claimable == rowState \in {"absent", "failed"}

Goto(w, from, to) == pc[w] = from /\ pc' = [pc EXCEPT ![w] = to]

DatabaseFault == "database" \in Faults

-----------------------------------------------------------------------------
(* The statements of DigestRepository, each one atomic.                     *)

(* Mutant: BeginPublish resets the remote columns with the content.         *)
ClaimWithReset(w) ==
  /\ Claimable
  /\ rowState' = "publishing" /\ rowDigest' = job[w] /\ rowRemote' = None

(* BeginPublish's transaction on a claimable row: it replaces the content   *)
(* and keeps the remote trace of an earlier post.                           *)
Claim(w) ==
  /\ Claimable
  /\ rowState'  = "publishing"
  /\ rowDigest' = job[w]
  /\ UNCHANGED rowRemote

(* updatePublishState: every Mark writes by digest_date alone, whatever the *)
(* state of the row is; a missing row is an error.                          *)
SetState(state, remote) ==
  /\ rowState # "absent"
  /\ rowState'  = state
  /\ rowRemote' = remote
  /\ UNCHANGED rowDigest

(* Mutant: MarkPublished sets the state and leaves the remote columns.      *)
SavePublishedState(w) == SetState("published", rowRemote)

SavePublished(w)     == SetState("published", job[w])
SaveFailed           == SetState("failed", rowRemote)
SaveRecovery(remote) == SetState("recovery_required", remote)

-----------------------------------------------------------------------------
Init ==
  /\ rowState = "absent" /\ rowDigest = None /\ rowRemote = None
  /\ pc    = [w \in Workers |-> "idle"]
  /\ force = [w \in Workers |-> FALSE]
  /\ job   = [w \in Workers |-> None]
  /\ tries = [w \in Workers |-> 0]
  /\ started = 0
  /\ requests = {} /\ drafts = {} /\ live = {}

(* The queue hands a task for the date to a worker.                         *)
Start(w, f) ==
  /\ pc[w] \in Returned
  /\ started < MaxRuns
  /\ started' = started + 1
  /\ pc'    = [pc EXCEPT ![w] = "check"]
  /\ force' = [force EXCEPT ![w] = f]
  /\ job'   = [job EXCEPT ![w] = started + 1]
  /\ tries' = [tries EXCEPT ![w] = 0]
  /\ UNCHANGED <<row, halo>>

(* What the first and the last GetState of Run let the execution return.    *)
Report(w) == IF rowState = "published" /\ ~force[w] THEN "ok" ELSE "error"

CheckState(w) ==
  /\ \/ Goto(w, "check", "prepare")
        /\ IF force[w] THEN rowState # "recovery_required" ELSE Claimable
     \/ Goto(w, "check", Report(w))
        /\ IF force[w] THEN rowState = "recovery_required" ELSE ~Claimable
     \/ Goto(w, "check", "error") /\ DatabaseFault
  /\ UNCHANGED <<row, halo, tasks, tries>>

(* Fetching, processing and generating: they write other tables only.       *)
Prepare(w) ==
  /\ \E next \in {"begin", "error"} : Goto(w, "prepare", next)
  /\ UNCHANGED <<row, halo, tasks, tries>>

BeginPublish(w) ==
  /\ pc[w] \in {"begin", "rebegin"}
  /\ \/ /\ Claim(w)
        /\ Goto(w, pc[w], "draft")
     \/ /\ ~Claimable /\ UNCHANGED row
        /\ Goto(w, pc[w], IF force[w] /\ pc[w] = "begin"
                          THEN "forceCheck" ELSE "recheck")
     \/ /\ DatabaseFault
        /\ Claim(w) \/ UNCHANGED row
        /\ Goto(w, pc[w], "error")
  /\ UNCHANGED <<halo, tasks, tries>>

(* beginPublish, force only: GetState, then MarkFailed, then try again.     *)
ForceCheck(w) ==
  /\ \/ Goto(w, "forceCheck", "error")
        /\ (rowState = "recovery_required" \/ DatabaseFault)
     \/ Goto(w, "forceCheck", "forceFail")
        /\ rowState \notin {"absent", "recovery_required"}
  /\ UNCHANGED <<row, halo, tasks, tries>>

ForceMarkFailed(w) ==
  /\ \/ SaveFailed /\ Goto(w, "forceFail", "rebegin")
     \/ /\ DatabaseFault
        /\ SaveFailed \/ UNCHANGED row
        /\ Goto(w, "forceFail", "error")
  /\ UNCHANGED <<halo, tasks, tries>>

(* The row was not claimed: Run reports what it finds.                      *)
Recheck(w) ==
  /\ \/ Goto(w, "recheck", Report(w))
     \/ Goto(w, "recheck", "error") /\ DatabaseFault
  /\ UNCHANGED <<row, halo, tasks, tries>>

-----------------------------------------------------------------------------
(* Publisher.PublishDigest: draft, then publish under the same name.        *)

SendDraft(w) ==
  /\ Goto(w, "draft", "draftWait")
  /\ requests' = requests \cup {[kind |-> "draft", post |-> job[w]]}
  /\ UNCHANGED <<row, tasks, tries, drafts, live>>

DraftAccepted(w) ==
  /\ job[w] \in drafts
  /\ Goto(w, "draftWait", "publishWait")
  /\ requests' = requests \cup {[kind |-> "publish", post |-> job[w]]}
  /\ UNCHANGED <<row, tasks, tries, drafts, live>>

(* A status outside 2xx counts as retryable for the draft only; a gateway   *)
(* may answer so while Halo still works on the request.                     *)
DraftRefused(w) ==
  /\ Goto(w, "draftWait", "fail")
  /\ UNCHANGED <<row, halo, tasks, tries>>

PublishAccepted(w) ==
  /\ job[w] \in live
  /\ Goto(w, "publishWait", "mark")
  /\ UNCHANGED <<row, halo, tasks, tries>>

(* Mutant: a lost answer is taken for a refusal.                            *)
AnswerLostFails(w) ==
  /\ \E at \in {"draftWait", "publishWait"} : Goto(w, at, "fail")
  /\ UNCHANGED <<row, halo, tasks, tries>>

(* A transport or decoding error on either request, a status outside 2xx on *)
(* the second: the outcome is ambiguous.                                    *)
AnswerLost(w) ==
  /\ \E at \in {"draftWait", "publishWait"} : Goto(w, at, "recover")
  /\ UNCHANGED <<row, halo, tasks, tries>>

(* Mutant: attempts are counted anew at the limit.                          *)
MarkPublishedForever(w) ==
  /\ \/ SavePublished(w) /\ Goto(w, "mark", "ok") /\ UNCHANGED tries
     \/ /\ DatabaseFault /\ UNCHANGED row
        /\ tries' = [tries EXCEPT ![w] = (@ + 1) % RetryLimit]
        /\ Goto(w, "mark", "mark")
  /\ UNCHANGED <<halo, tasks>>

MarkPublished(w) ==
  /\ \/ /\ SavePublished(w)
        /\ Goto(w, "mark", "ok")
        /\ UNCHANGED tries
     \/ /\ DatabaseFault
        /\ SavePublished(w) \/ UNCHANGED row
        /\ tries' = [tries EXCEPT ![w] = @ + 1]
        /\ Goto(w, "mark", IF tries'[w] < RetryLimit
                           THEN "mark" ELSE "recoverKnown")
  /\ UNCHANGED <<halo, tasks>>

(* Mutant: the ambiguous post is written as if it had been published.       *)
MarkRecoveryGuessed(w) ==
  /\ \E at \in {"recover", "recoverKnown"} : Goto(w, at, "error")
  /\ SaveRecovery(job[w]) \/ (DatabaseFault /\ UNCHANGED row)
  /\ UNCHANGED <<halo, tasks, tries>>

(* After an ambiguous answer the trace in the row is kept, after exhausted  *)
(* marks the known post is written.                                         *)
MarkRecoveryRequired(w) ==
  /\ \/ Goto(w, "recover", "error") /\ SaveRecovery(rowRemote)
     \/ Goto(w, "recoverKnown", "error") /\ SaveRecovery(job[w])
     \/ /\ DatabaseFault /\ UNCHANGED row
        /\ \E at \in {"recover", "recoverKnown"} : Goto(w, at, "error")
  /\ UNCHANGED <<halo, tasks, tries>>

MarkFailed(w) ==
  /\ Goto(w, "fail", "error")
  /\ SaveFailed \/ (DatabaseFault /\ UNCHANGED row)
  /\ UNCHANGED <<halo, tasks, tries>>

(* The worker process dies; the queue delivers the task again later.        *)
Crash(w) ==
  /\ "crash" \in Faults
  /\ pc[w] \notin Returned
  /\ pc' = [pc EXCEPT ![w] = "idle"]
  /\ UNCHANGED <<row, halo, tasks, tries>>

-----------------------------------------------------------------------------
(* Halo, external: a request is served late, or never.                      *)

Serve(r) ==
  /\ r \in requests
  /\ requests' = requests \ {r}
  /\ \/ r.kind = "draft" /\ drafts' = drafts \cup {r.post} /\ UNCHANGED live
     \/ r.kind = "publish" /\ live' = live \cup {r.post} /\ UNCHANGED drafts
  /\ UNCHANGED <<row, pc, tasks, tries>>

Lose(r) ==
  /\ r \in requests
  /\ requests' = requests \ {r}
  /\ UNCHANGED <<row, pc, tasks, tries, drafts, live>>

-----------------------------------------------------------------------------
Step(w) ==
  \/ CheckState(w) \/ Prepare(w) \/ BeginPublish(w)
  \/ ForceCheck(w) \/ ForceMarkFailed(w) \/ Recheck(w)
  \/ SendDraft(w) \/ DraftAccepted(w) \/ DraftRefused(w)
  \/ PublishAccepted(w) \/ AnswerLost(w)
  \/ MarkPublished(w) \/ MarkRecoveryRequired(w) \/ MarkFailed(w)

Next ==
  \/ \E w \in Workers : \/ \E f \in ForceModes : Start(w, f)
                        \/ Step(w)
                        \/ Crash(w)
  \/ \E r \in requests : Serve(r) \/ Lose(r)

Spec == Init /\ [][Next]_vars

(* A running goroutine goes on: its database and HTTP calls return, with a  *)
(* result, an error or the time-out of the client.                          *)
FairSpec == Spec /\ \A w \in Workers : WF_vars(Step(w))
-----------------------------------------------------------------------------
(* Properties.                                                              *)

TypeOK ==
  /\ rowState \in RowStates
  /\ rowDigest \in Runs \cup {None} /\ rowRemote \in Runs \cup {None}
  /\ pc \in [Workers -> Steps] /\ force \in [Workers -> BOOLEAN]
  /\ job \in [Workers -> Runs \cup {None}]
  /\ tries \in [Workers -> 0 .. RetryLimit]
  /\ started \in 0 .. MaxRuns
  /\ requests \subseteq Requests /\ drafts \subseteq Runs /\ live \subseteq Runs

(* Without forced runs the row is a lock: between the BeginPublish that     *)
(* succeeds and the mark that ends it, no second execution publishes, however *)
(* often the queue redelivers the task.                                     *)
OnePublisher ==
  \A v, w \in Workers : pc[v] \in Owning /\ pc[w] \in Owning => v = w

(* Without forced runs readers never see two posts for one date, whatever   *)
(* answers are lost, late or wrong and whoever crashes (the publisher's     *)
(* retryable and ambiguous kinds are told apart for this).                  *)
AtMostOneVisible == \A p, q \in live : p = q

(* Without forced runs a row marked published holds the content that its    *)
(* remote_id shows: the retries of MarkPublished and BeginPublish's         *)
(* replacement of the content never mix two executions.                     *)
PublishedMatchesContent == rowState = "published" => rowRemote = rowDigest

(* Forced or not, the remote trace in the row is a post that Halo really    *)
(* published: no mark writes a post whose publication was only asked for.   *)
RemoteIsVisible == rowRemote # None => rowRemote \in live

(* Forced or not, once an execution has returned without error the row has  *)
(* the trace of a post, and no retry or rerun after it erases that trace    *)
(* (digest_repository_test.go keeps the trace over forced reruns).          *)
OkMeansTraced == \A w \in Workers : pc[w] = "ok" => rowRemote # None

(* The state column as a phase of DigestLedger.                             *)
Phase ==
  CASE rowState = "publishing"        -> "claimed"
    [] rowState = "published"         -> "confirmed"
    [] rowState = "recovery_required" -> "suspended"
    [] OTHER                          -> "open"

Ledger == INSTANCE DigestLedger WITH
  Posts <- Runs, phase <- Phase, visible <- live

(* Without forced runs the executions, the row and Halo together implement  *)
(* the ledger: claims are exclusive, only a claim that showed nothing is    *)
(* given back, and a settled date is never reopened.                        *)
ImplementsLedger == Ledger!Spec

(* Every execution of Run returns or dies: no retry loop, no wait for an    *)
(* answer and no sequence of database errors holds a worker for ever.       *)
RunReturns ==
  \A w \in Workers : pc[w] \notin Returned ~> pc[w] \in Returned
=============================================================================
