--------------------------- MODULE ProcessPending ---------------------------
(***************************************************************************)
(* One call of RuntimeProcessingRunner.ProcessPending: a feeder goroutine  *)
(* hands the listed entries to worker goroutines over an unbuffered        *)
(* channel, the workers send results over a channel with room for all of   *)
(* them, the caller collects until a fourth goroutine closes that channel. *)
(* The first failed job cancels the shared context; the caller of          *)
(* ProcessPending (the queue's deadline, a shutdown) may cancel it too.    *)
(*                                                                         *)
(* A Go select with several ready cases takes any of them, so a cancelled  *)
(* context and a ready channel are both possible outcomes.                 *)
(***************************************************************************)
EXTENDS Naturals, FiniteSets, SequencesExt

CONSTANTS
  Listings,     (* what ListEntries may return: sequences of entry ids     *)
  Workers       (* worker goroutines available (defaultRuntimeConcurrency) *)

ASSUME ListingsAssumption == Listings \subseteq Seq(Nat \ {0})
ASSUME WorkersAssumption == IsFiniteSet(Workers) /\ Workers # {}

VARIABLES
  jobs,         (* the listed entries, duplicates removed, in order        *)
  fed,          (* jobs handed to workers                                  *)
  feeding,      (* jobCh is open                                           *)
  wpc,          (* where each worker goroutine is                          *)
  wjob,         (* the index of its job                                    *)
  results,      (* resultCh's buffer                                       *)
  resultsOpen,  (* resultCh is open                                        *)
  cancelled,    (* the derived context is cancelled                        *)
  parentGone,   (* by the caller's context                                 *)
  caller,       (* where ProcessPending itself is                          *)
  candidates,   (* per job index the entry of the collected result, or 0   *)
  received,     (* the indices of collected results, in order              *)
  firstErr,     (* the first collected error                               *)
  materialized, (* entries with a saved processing and an active dossier   *)
  read          (* entries Miniflux has marked read                        *)

channels == <<fed, feeding, results, resultsOpen>>
workers  == <<wpc, wjob>>
local    == <<jobs, candidates, received, firstErr>>
world    == <<materialized, read>>
vars     == <<jobs, fed, feeding, wpc, wjob, results, resultsOpen, cancelled,
              parentGone, caller, candidates, received, firstErr, materialized, read>>

Outcomes  == {"ok", "listError", "jobFailed", "jobAborted", "cancelled",
              "incomplete", "markError"}
Returned  == caller \in Outcomes

(* The map `seen`: each entry becomes one job, at its first place.          *)
Dedup(list) ==
  LET first == {i \in DOMAIN list : \A j \in 1 .. i - 1 : list[j] # list[i]}
  IN  [k \in 1 .. Cardinality(first) |->
         list[CHOOSE i \in first : Cardinality(first \cap 1 .. i) = k]]

NoEntry == 0
Min2(a, b) == IF a < b THEN a ELSE b

-----------------------------------------------------------------------------
Init ==
  /\ jobs = <<>> /\ candidates = <<>> /\ received = <<>> /\ firstErr = "none"
  /\ fed = 0 /\ feeding = FALSE /\ results = <<>> /\ resultsOpen = FALSE
  /\ wpc = [w \in Workers |-> "done"] /\ wjob = [w \in Workers |-> 0]
  /\ cancelled = FALSE /\ parentGone = FALSE
  /\ caller = "list"
  /\ materialized = {} /\ read = {}

(* ListEntries, the jobs, and the start of the goroutines.                  *)
ListAndSpawn ==
  /\ caller = "list"
  /\ \E list \in Listings :
       LET todo == Dedup(list) IN
       /\ jobs' = todo
       /\ candidates' = [i \in DOMAIN todo |-> NoEntry]
       /\ IF todo = <<>>
          THEN /\ caller' = "ok"
               /\ UNCHANGED <<feeding, resultsOpen, wpc>>
          ELSE /\ caller' = "collect" /\ feeding' = TRUE /\ resultsOpen' = TRUE
               /\ \E pool \in SUBSET Workers :
                    /\ Cardinality(pool) = Min2(Cardinality(Workers), Len(todo))
                    /\ wpc' = [w \in Workers |->
                                 IF w \in pool THEN "receive" ELSE "done"]
  /\ UNCHANGED <<fed, results, wjob, cancelled, parentGone, received, firstErr, world>>

ListFails ==
  /\ caller = "list"
  /\ caller' = "listError"
  /\ UNCHANGED <<channels, workers, cancelled, parentGone, local, world>>

ParentCancel ==
  /\ ~Returned /\ ~parentGone
  /\ parentGone' = TRUE /\ cancelled' = TRUE
  /\ UNCHANGED <<channels, workers, caller, local, world>>

-----------------------------------------------------------------------------
(* The feeder goroutine.                                                    *)

Hand(w) ==
  /\ feeding /\ fed < Len(jobs)
  /\ wpc[w] = "receive"
  /\ fed'  = fed + 1
  /\ wjob' = [wjob EXCEPT ![w] = fed + 1]
  /\ wpc'  = [wpc EXCEPT ![w] = "run"]
  /\ UNCHANGED <<feeding, results, resultsOpen, cancelled, parentGone, caller, local,
                 world>>

(* Mutant: the feeder does not watch the context.                           *)
CloseJobsAtEnd ==
  /\ feeding /\ fed = Len(jobs)
  /\ feeding' = FALSE
  /\ UNCHANGED <<fed, results, resultsOpen, workers, cancelled, parentGone, caller,
                 local, world>>

CloseJobs ==
  /\ feeding
  /\ fed = Len(jobs) \/ cancelled
  /\ feeding' = FALSE
  /\ UNCHANGED <<fed, results, resultsOpen, workers, cancelled, parentGone, caller,
                 local, world>>

-----------------------------------------------------------------------------
(* A worker goroutine.                                                      *)

Become(w, step) == wpc' = [wpc EXCEPT ![w] = step]

NoMoreJobs(w) ==
  /\ wpc[w] = "receive" /\ ~feeding
  /\ Become(w, "done")
  /\ UNCHANGED <<channels, wjob, cancelled, parentGone, caller, local, world>>

(* Mutant: the result is sent while saving and materializing may yet fail.  *)
RunJobUnsaved(w) ==
  /\ wpc[w] = "run"
  /\ \/ Become(w, "sendResult") /\ materialized' \in
             {materialized, materialized \cup {jobs[wjob[w]]}}
     \/ Become(w, "sendFailed") /\ UNCHANGED materialized
  /\ UNCHANGED <<channels, wjob, cancelled, parentGone, caller, local, read>>

(* runProcessingJob.  It saves and materializes before it returns a         *)
(* candidate; a failure, or a context it finds cancelled, may come before   *)
(* or after.                                                                *)
RunJob(w) ==
  /\ wpc[w] = "run"
  /\ LET kept == materialized \cup {jobs[wjob[w]]} IN
     \/ Become(w, "sendResult") /\ materialized' = kept
     \/ /\ Become(w, "sendFailed") \/ (cancelled /\ Become(w, "sendAborted"))
        /\ materialized' \in {materialized, kept}
     \/ cancelled /\ Become(w, "done") /\ UNCHANGED materialized
  /\ UNCHANGED <<channels, wjob, cancelled, parentGone, caller, local, read>>

Send(w, kind) ==
  results' = Append(results, [kind |-> kind, order |-> wjob[w]])

SendResult(w) ==
  /\ wpc[w] = "sendResult"
  /\ \/ Send(w, "ok") /\ Become(w, "receive")
     \/ cancelled /\ UNCHANGED results /\ Become(w, "done")
  /\ UNCHANGED <<fed, feeding, resultsOpen, wjob, cancelled, parentGone, caller,
                 local, world>>

(* Mutant: the worker cancels before it sends.                              *)
SendErrorAfterCancel(w) ==
  /\ \/ wpc[w] = "sendFailed" /\ Send(w, "jobFailed")
     \/ wpc[w] = "sendAborted" /\ Send(w, "jobAborted")
     \/ wpc[w] \in {"sendFailed", "sendAborted"} /\ UNCHANGED results
  /\ cancelled' = TRUE /\ Become(w, "done")
  /\ UNCHANGED <<fed, feeding, resultsOpen, wjob, parentGone, caller, local, world>>

SendError(w) ==
  /\ \/ wpc[w] = "sendFailed" /\ Send(w, "jobFailed")
     \/ wpc[w] = "sendAborted" /\ Send(w, "jobAborted")
     \/ wpc[w] \in {"sendFailed", "sendAborted"} /\ cancelled /\ UNCHANGED results
  /\ Become(w, "cancel")
  /\ UNCHANGED <<fed, feeding, resultsOpen, wjob, cancelled, parentGone, caller,
                 local, world>>

CancelAll(w) ==
  /\ wpc[w] = "cancel"
  /\ cancelled' = TRUE
  /\ Become(w, "done")
  /\ UNCHANGED <<channels, wjob, parentGone, caller, local, world>>

-----------------------------------------------------------------------------
(* wg.Wait and close(resultCh).                                             *)
CloseResults ==
  /\ resultsOpen
  /\ \A w \in Workers : wpc[w] = "done"
  /\ resultsOpen' = FALSE
  /\ UNCHANGED <<fed, feeding, results, workers, cancelled, parentGone, caller, local,
                 world>>

(* Mutant: candidates in the order the workers finish.                      *)
CollectByArrival ==
  /\ caller = "collect" /\ results # <<>>
  /\ LET res == Head(results) IN
     IF res.kind = "ok"
     THEN /\ candidates' = [candidates EXCEPT ![Len(received) + 1] = jobs[res.order]]
          /\ received' = Append(received, res.order)
          /\ UNCHANGED firstErr
     ELSE /\ firstErr' = IF firstErr = "none" THEN res.kind ELSE firstErr
          /\ UNCHANGED <<candidates, received>>
  /\ results' = Tail(results)
  /\ UNCHANGED <<jobs, fed, feeding, resultsOpen, workers, cancelled, parentGone,
                 caller, world>>

(* The caller's loop over resultCh.                                         *)
Collect ==
  /\ caller = "collect" /\ results # <<>>
  /\ LET res == Head(results) IN
     IF res.kind = "ok"
     THEN /\ candidates' = [candidates EXCEPT ![res.order] = jobs[res.order]]
          /\ received' = Append(received, res.order)
          /\ UNCHANGED firstErr
     ELSE /\ firstErr' = IF firstErr = "none" THEN res.kind ELSE firstErr
          /\ UNCHANGED <<candidates, received>>
  /\ results' = Tail(results)
  /\ UNCHANGED <<jobs, fed, feeding, resultsOpen, workers, cancelled, parentGone,
                 caller, world>>

(* What ProcessPending returns once resultCh is drained and closed; the     *)
(* deferred cancel runs with every return.                                  *)
Verdict ==
  IF firstErr # "none" THEN firstErr
  ELSE IF cancelled THEN "cancelled"
  ELSE IF Len(received) # Len(jobs) THEN "incomplete"
  ELSE "markRead"

Conclude ==
  /\ caller = "collect" /\ results = <<>> /\ ~resultsOpen
  /\ caller' = Verdict
  /\ cancelled' = (cancelled \/ Verdict # "markRead")
  /\ UNCHANGED <<channels, workers, parentGone, local, world>>

(* markProcessedEntriesRead: one request to Miniflux for all the entries;   *)
(* the answer may be lost after it was served.                              *)
MarkRead ==
  /\ caller = "markRead"
  /\ \/ caller' = "ok" /\ read' = {jobs[i] : i \in ToSet(received)}
     \/ /\ caller' = "markError"
        /\ read' \in {read, {jobs[i] : i \in ToSet(received)}}
  /\ cancelled' = TRUE
  /\ UNCHANGED <<channels, workers, parentGone, local, materialized>>

-----------------------------------------------------------------------------
WorkerStep(w) ==
  Hand(w) \/ NoMoreJobs(w) \/ RunJob(w) \/ SendResult(w) \/ SendError(w) \/ CancelAll(w)

CallerStep == ListAndSpawn \/ ListFails \/ Collect \/ Conclude \/ MarkRead

Next ==
  \/ CallerStep \/ ParentCancel \/ CloseJobs \/ CloseResults
  \/ \E w \in Workers : WorkerStep(w)

Spec == Init /\ [][Next]_vars

(* Every goroutine is scheduled; a select with a ready case is taken.       *)
FairSpec ==
  /\ Spec
  /\ WF_vars(CallerStep) /\ WF_vars(CloseJobs) /\ WF_vars(CloseResults)
  /\ \A w \in Workers : WF_vars(WorkerStep(w))

-----------------------------------------------------------------------------
(* Properties.                                                              *)

TypeOK ==
  /\ jobs \in Seq(Nat \ {NoEntry}) /\ fed \in 0 .. Len(jobs)
  /\ wpc \in [Workers -> {"receive", "run", "sendResult", "sendFailed", "sendAborted",
                          "cancel", "done"}]
  /\ wjob \in [Workers -> 0 .. Len(jobs)]
  /\ results \in Seq([kind : {"ok", "jobFailed", "jobAborted"}, order : 1 .. Len(jobs)])
  /\ received \in Seq(1 .. Len(jobs)) /\ candidates \in [1 .. Len(jobs) -> Nat]
  /\ {feeding, resultsOpen, cancelled, parentGone} \subseteq BOOLEAN
  /\ caller \in {"list", "collect", "markRead"} \cup Outcomes
  /\ firstErr \in {"none", "jobFailed", "jobAborted"}
  /\ read \subseteq ToSet(jobs) /\ materialized \subseteq ToSet(jobs)

(* A call that succeeds returns one candidate per listed entry, in the      *)
(* order of the listing, whatever order the workers finished in.            *)
CandidatesInOrder == caller = "ok" => candidates = jobs

(* The error reported is the cause: unless the caller's own context ended,  *)
(* a call never returns the cancellation that a failed job set off instead  *)
(* of that job's error, and the incomplete-results branch is dead code.     *)
ErrorIsTheCause ==
  /\ caller \in {"cancelled", "jobAborted"} => parentGone
  /\ caller # "incomplete"

(* The call keeps the contract of PendingBatch: one batch, nothing read     *)
(* before all of it is materialized, and no work behind the caller's back   *)
(* after ProcessPending has returned.                                       *)
Batch == INSTANCE PendingBatch WITH
  Entries <- UNION {ToSet(list) : list \in Listings},
  batch   <- ToSet(jobs),
  verdict <- IF ~Returned THEN "open" ELSE IF caller = "ok" THEN "ok" ELSE "error"

ImplementsBatch == Batch!Spec

(* ProcessPending returns and leaves no goroutine behind, even when workers *)
(* stop early and nobody receives from the feeder any more.                 *)
AllStop ==
  <>[](Returned /\ ~feeding /\ ~resultsOpen /\ \A w \in Workers : wpc[w] = "done")
=============================================================================
