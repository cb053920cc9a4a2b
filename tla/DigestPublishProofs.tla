------------------------ MODULE DigestPublishProofs ------------------------
(***************************************************************************)
(* Theorems about DigestPublish for any number of workers and executions.  *)
(* Layers: TypeInv bounds the state, TraceInv says what a known remote     *)
(* post is worth (forced runs allowed), LockInv says what the row protects *)
(* as long as no run is forced.                                            *)
(***************************************************************************)
EXTENDS DigestPublish, TLAPS

(* A running execution has its number; its failed attempts are counted from *)
(* zero and the loop of markPublishedWithRetry stops at the limit.          *)
ActiveInv ==
  \A w \in Workers :
    /\ pc[w] \notin Returned => job[w] \in Runs
    /\ pc[w] = "mark" => tries[w] < RetryLimit
    /\ pc[w] \notin Returned \cup {"mark", "recoverKnown"} => tries[w] = 0

TypeInv == TypeOK /\ ActiveInv

LEMMA TypeInvInit == Init => TypeInv
BY MaxRunsAssumption, RetryLimitAssumption
   DEF Init, TypeInv, TypeOK, ActiveInv, RowStates, Runs, None, Steps, Returned,
       Owning, Requests

LEMMA TypeInvStep == TypeInv /\ [Next]_vars => TypeInv'
<1> SUFFICES ASSUME TypeInv, [Next]_vars PROVE TypeInv'
  OBVIOUS
<1> USE MaxRunsAssumption, RetryLimitAssumption, ForceModesAssumption
    DEF TypeInv, TypeOK, ActiveInv, RowStates, Runs, None, Steps, Returned, Owning,
        Goto, Claim, Claimable, SetState, SavePublished, SaveFailed, SaveRecovery,
        row, halo, tasks
<1>1. ASSUME NEW w \in Workers, NEW f \in ForceModes, Start(w, f) PROVE TypeInv'
  BY <1>1 DEF Start
<1>2. ASSUME NEW w \in Workers, Step(w) PROVE TypeInv'
  <2>1. CASE CheckState(w)
    BY <2>1 DEF CheckState, Report
  <2>2. CASE Prepare(w)
    BY <2>2 DEF Prepare
  <2>3. CASE BeginPublish(w)
    BY <2>3 DEF BeginPublish
  <2>4. CASE ForceCheck(w)
    BY <2>4 DEF ForceCheck
  <2>5. CASE ForceMarkFailed(w)
    BY <2>5 DEF ForceMarkFailed
  <2>6. CASE Recheck(w)
    BY <2>6 DEF Recheck, Report
  <2>7. CASE SendDraft(w)
    BY <2>7 DEF SendDraft, Requests
  <2>8. CASE DraftAccepted(w)
    BY <2>8 DEF DraftAccepted, Requests
  <2>9. CASE DraftRefused(w)
    BY <2>9 DEF DraftRefused
  <2>10. CASE PublishAccepted(w)
    BY <2>10 DEF PublishAccepted
  <2>11. CASE AnswerLost(w)
    BY <2>11 DEF AnswerLost
  <2>12. CASE MarkPublished(w)
    BY <2>12 DEF MarkPublished
  <2>13. CASE MarkRecoveryRequired(w)
    BY <2>13 DEF MarkRecoveryRequired
  <2>14. CASE MarkFailed(w)
    BY <2>14 DEF MarkFailed
  <2>15. QED
    BY <1>2, <2>1, <2>2, <2>3, <2>4, <2>5, <2>6, <2>7, <2>8, <2>9, <2>10, <2>11,
       <2>12, <2>13, <2>14 DEF Step
<1>3. ASSUME NEW w \in Workers, Crash(w) PROVE TypeInv'
  BY <1>3 DEF Crash
<1>4. ASSUME NEW r \in requests, Serve(r) \/ Lose(r) PROVE TypeInv'
  BY <1>4 DEF Serve, Lose, Requests
<1>5. CASE UNCHANGED vars
  BY <1>5 DEF vars
<1>6. QED
  BY <1>1, <1>2, <1>3, <1>4, <1>5 DEF Next

(* The types hold and no retry of MarkPublished goes beyond the limit.      *)
THEOREM TypeCorrect == Spec => []TypeOK
<1>1. TypeInv => TypeOK
  BY DEF TypeInv
<1>2. QED
  BY <1>1, TypeInvInit, TypeInvStep, PTL DEF Spec

-----------------------------------------------------------------------------
(* With forced runs.                                                        *)

(* What the remote trace is worth: an execution about to write its post has *)
(* seen it published, and a published row has a trace.                      *)
TraceInv ==
  /\ RemoteIsVisible
  /\ OkMeansTraced
  /\ rowState = "published" => rowRemote # None
  /\ \A w \in Workers : pc[w] \in {"mark", "recoverKnown"} => job[w] \in live

LEMMA TraceInvInit == Init => TraceInv
BY DEF Init, TraceInv, RemoteIsVisible, OkMeansTraced, None

LEMMA TraceInvStep == TypeInv /\ TraceInv /\ [Next]_vars => TraceInv'
<1> SUFFICES ASSUME TypeInv, TraceInv, [Next]_vars PROVE TraceInv'
  OBVIOUS
<1> USE DEF TypeInv, TypeOK, ActiveInv, TraceInv, RemoteIsVisible, OkMeansTraced, Runs,
        None, Returned, Goto, row, halo, tasks
<1>1. ASSUME NEW w \in Workers, NEW f \in ForceModes, Start(w, f) PROVE TraceInv'
  BY <1>1 DEF Start
<1>2. ASSUME NEW w \in Workers, Step(w) PROVE TraceInv'
  <2>1. CASE CheckState(w)
    BY <2>1 DEF CheckState, Report
  <2>2. CASE Prepare(w)
    BY <2>2 DEF Prepare
  <2>3. CASE BeginPublish(w)
    BY <2>3 DEF BeginPublish, Claim, Claimable
  <2>4. CASE ForceCheck(w)
    BY <2>4 DEF ForceCheck
  <2>5. CASE ForceMarkFailed(w)
    BY <2>5 DEF ForceMarkFailed, SaveFailed, SetState
  <2>6. CASE Recheck(w)
    BY <2>6 DEF Recheck, Report
  <2>7. CASE SendDraft(w)
    BY <2>7 DEF SendDraft
  <2>8. CASE DraftAccepted(w)
    BY <2>8 DEF DraftAccepted
  <2>9. CASE DraftRefused(w)
    BY <2>9 DEF DraftRefused
  <2>10. CASE PublishAccepted(w)
    BY <2>10 DEF PublishAccepted
  <2>11. CASE AnswerLost(w)
    BY <2>11 DEF AnswerLost
  <2>12. CASE MarkPublished(w)
    BY <2>12 DEF MarkPublished, SavePublished, SetState
  <2>13. CASE MarkRecoveryRequired(w)
    BY <2>13 DEF MarkRecoveryRequired, SaveRecovery, SetState
  <2>14. CASE MarkFailed(w)
    BY <2>14 DEF MarkFailed, SaveFailed, SetState
  <2>15. QED
    BY <1>2, <2>1, <2>2, <2>3, <2>4, <2>5, <2>6, <2>7, <2>8, <2>9, <2>10, <2>11,
       <2>12, <2>13, <2>14 DEF Step
<1>3. ASSUME NEW w \in Workers, Crash(w) PROVE TraceInv'
  BY <1>3 DEF Crash
<1>4. ASSUME NEW r \in requests, Serve(r) \/ Lose(r) PROVE TraceInv'
  BY <1>4 DEF Serve, Lose
<1>5. CASE UNCHANGED vars
  BY <1>5 DEF vars
<1>6. QED
  BY <1>1, <1>2, <1>3, <1>4, <1>5 DEF Next

(* Forced or not, crashes, lost answers and database errors included: the   *)
(* remote trace in a row is a post Halo has published.                      *)
THEOREM RemoteAlwaysVisible == Spec => []RemoteIsVisible
<1>1. TypeInv /\ TraceInv => RemoteIsVisible
  BY DEF TraceInv
<1>2. QED
  BY <1>1, TypeInvInit, TypeInvStep, TraceInvInit, TraceInvStep, PTL DEF Spec

(* Forced or not, an execution that returned without error has left a trace *)
(* that nothing erases while it stands.                                     *)
THEOREM OkAlwaysTraced == Spec => []OkMeansTraced
<1>1. TypeInv /\ TraceInv => OkMeansTraced
  BY DEF TraceInv
<1>2. QED
  BY <1>1, TypeInvInit, TypeInvStep, TraceInvInit, TraceInvStep, PTL DEF Spec

-----------------------------------------------------------------------------
(* Without forced runs.                                                     *)

(* Executions have different numbers, none is forced.                       *)
JobInv ==
  /\ \A w \in Workers : /\ ~force[w] /\ job[w] <= started
                        /\ pc[w] \notin {"forceCheck", "forceFail", "rebegin"}
  /\ \A v, w \in Workers : job[v] = job[w] /\ job[w] # None => v = w

(* What an execution that holds the row knows of it: the content is its     *)
(* own, and nothing is visible or on its way until its draft was accepted.  *)
OwnerInv ==
  \A w \in Workers :
    /\ pc[w] \in Owning => rowDigest = job[w]
    /\ pc[w] \in Owning \ {"mark", "recoverKnown"} => rowState = "publishing"
    /\ pc[w] \in {"mark", "recoverKnown"} => rowState \in {"publishing", "published"}

Unsent == live = {} /\ \A r \in requests : r.kind = "draft"

(* What the row knows of Halo: nothing is visible or on its way while the   *)
(* row can be claimed, and later only the post of the row's own content.    *)
SentInv ==
  /\ Claimable => Unsent
  /\ \A w \in Workers : pc[w] \in {"draft", "draftWait", "fail"} => Unsent
  /\ \A p \in live : p = rowDigest
  /\ \A r \in requests : r.kind = "publish" => r.post = rowDigest
  /\ PublishedMatchesContent

LockInv == JobInv /\ OwnerInv /\ SentInv

LEMMA LockInvInit == Init => LockInv
BY DEF Init, LockInv, JobInv, OwnerInv, SentInv, Unsent, PublishedMatchesContent,
       Owning, None

LEMMA LockInvStep ==
  ASSUME ForceModes = {FALSE}
  PROVE  TypeInv /\ LockInv /\ [Next]_vars => LockInv'
<1> SUFFICES ASSUME TypeInv, LockInv, [Next]_vars PROVE LockInv'
  OBVIOUS
<1> USE DEF TypeInv, TypeOK, ActiveInv, LockInv, JobInv, OwnerInv, SentInv, Unsent,
        PublishedMatchesContent, Requests, Runs, None, Returned, Owning, Claimable,
        Goto, row, halo, tasks
<1>1. ASSUME NEW w \in Workers, NEW f \in ForceModes, Start(w, f) PROVE LockInv'
  BY <1>1 DEF Start
<1>2. ASSUME NEW w \in Workers, Step(w) PROVE LockInv'
  <2>1. CASE CheckState(w)
    BY <2>1 DEF CheckState, Report
  <2>2. CASE Prepare(w)
    BY <2>2 DEF Prepare
  <2>3. CASE BeginPublish(w)
    BY <2>3 DEF BeginPublish, Claim, Claimable
  <2>4. CASE ForceCheck(w)
    BY <2>4 DEF ForceCheck
  <2>5. CASE ForceMarkFailed(w)
    BY <2>5 DEF ForceMarkFailed, SaveFailed, SetState
  <2>6. CASE Recheck(w)
    BY <2>6 DEF Recheck, Report
  <2>7. CASE SendDraft(w)
    BY <2>7 DEF SendDraft
  <2>8. CASE DraftAccepted(w)
    BY <2>8 DEF DraftAccepted
  <2>9. CASE DraftRefused(w)
    BY <2>9 DEF DraftRefused
  <2>10. CASE PublishAccepted(w)
    BY <2>10 DEF PublishAccepted
  <2>11. CASE AnswerLost(w)
    BY <2>11 DEF AnswerLost
  <2>12. CASE MarkPublished(w)
    BY <2>12 DEF MarkPublished, SavePublished, SetState
  <2>13. CASE MarkRecoveryRequired(w)
    BY <2>13 DEF MarkRecoveryRequired, SaveRecovery, SetState
  <2>14. CASE MarkFailed(w)
    BY <2>14 DEF MarkFailed, SaveFailed, SetState
  <2>15. QED
    BY <1>2, <2>1, <2>2, <2>3, <2>4, <2>5, <2>6, <2>7, <2>8, <2>9, <2>10, <2>11,
       <2>12, <2>13, <2>14 DEF Step
<1>3. ASSUME NEW w \in Workers, Crash(w) PROVE LockInv'
  BY <1>3 DEF Crash
<1>4. ASSUME NEW r \in requests, Serve(r) \/ Lose(r) PROVE LockInv'
  <2>1. requests' \subseteq requests
    BY <1>4 DEF Serve, Lose
  <2>2. UNCHANGED <<row, pc, force, job, started>>
    BY <1>4 DEF Serve, Lose
  <2>3. live' = live \/ (r.kind = "publish" /\ live' = live \cup {r.post})
    BY <1>4 DEF Serve, Lose
  <2>4. JobInv' /\ OwnerInv'
    BY <2>2
  <2>5. ~Unsent \/ Unsent'
    BY <2>1, <2>3
  <2>6. QED
    BY <2>1, <2>2, <2>3, <2>4, <2>5
<1>5. CASE UNCHANGED vars
  BY <1>5 DEF vars
<1>6. QED
  BY <1>1, <1>2, <1>3, <1>4, <1>5 DEF Next

(* Without forced runs the row is a lock: no two executions publish at once. *)
THEOREM OnePublisherAtATime ==
  ASSUME ForceModes = {FALSE}
  PROVE  Spec => []OnePublisher
<1>1. TypeInv /\ LockInv => OnePublisher
  BY DEF LockInv, JobInv, OwnerInv, OnePublisher, TypeInv, TypeOK, ActiveInv, Owning,
         Returned, Runs, None
<1>2. QED
  BY <1>1, TypeInvInit, TypeInvStep, LockInvInit, LockInvStep, PTL DEF Spec

(* Without forced runs no date ever shows two posts.                        *)
THEOREM NeverTwoVisible ==
  ASSUME ForceModes = {FALSE}
  PROVE  Spec => []AtMostOneVisible
<1>1. LockInv => AtMostOneVisible
  BY DEF LockInv, SentInv, AtMostOneVisible
<1>2. QED
  BY <1>1, TypeInvInit, TypeInvStep, LockInvInit, LockInvStep, PTL DEF Spec

(* Without forced runs a published row and the post it names have the same  *)
(* content.                                                                 *)
THEOREM PublishedContentMatches ==
  ASSUME ForceModes = {FALSE}
  PROVE  Spec => []PublishedMatchesContent
<1>1. LockInv => PublishedMatchesContent
  BY DEF LockInv, SentInv
<1>2. QED
  BY <1>1, TypeInvInit, TypeInvStep, LockInvInit, LockInvStep, PTL DEF Spec

(* Without forced runs publishing a date implements the ledger: every step  *)
(* claims, releases, confirms or suspends it, makes its post appear, or     *)
(* leaves phase and visible posts alone.                                    *)
LEMMA LedgerInit == Init => Ledger!Init
BY DEF Init, Ledger!Init, Phase

LEMMA LedgerStep ==
  ASSUME ForceModes = {FALSE}
  PROVE  TypeInv /\ TraceInv /\ LockInv /\ [Next]_vars
           => [Ledger!Next]_<<Phase, live>>
<1> SUFFICES ASSUME TypeInv, TraceInv, LockInv, [Next]_vars
             PROVE  [Ledger!Next]_<<Phase, live>>
  OBVIOUS
<1> USE DEF Ledger!Next, Ledger!Claim, Ledger!Release, Ledger!Appear, Ledger!Confirm,
        Ledger!Suspend, Phase
<1>1. ASSUME UNCHANGED <<rowState, live>> PROVE UNCHANGED <<Phase, live>>
  BY <1>1
<1>2. ASSUME NEW w \in Workers, BeginPublish(w), rowState' # rowState
      PROVE  Ledger!Claim
  BY <1>2 DEF BeginPublish, Claim, Claimable, row, halo
<1>3. ASSUME NEW w \in Workers, MarkPublished(w), rowState' # rowState
      PROVE  Ledger!Confirm
  BY <1>3 DEF MarkPublished, SavePublished, SetState, Goto, row, halo, TraceInv,
              LockInv, OwnerInv, Owning
<1>4. ASSUME NEW w \in Workers, MarkRecoveryRequired(w), rowState' # rowState
      PROVE  Ledger!Suspend
  BY <1>4 DEF MarkRecoveryRequired, SaveRecovery, SetState, Goto, row, halo, LockInv,
              OwnerInv, Owning
<1>5. ASSUME NEW w \in Workers, MarkFailed(w), rowState' # rowState
      PROVE  Ledger!Release
  BY <1>5 DEF MarkFailed, SaveFailed, SetState, Goto, row, halo, LockInv, OwnerInv,
              SentInv, Unsent, Owning
<1>6. ASSUME NEW r \in requests, Serve(r), live' # live
      PROVE  \E p \in Runs : Ledger!Appear(p)
  <2>1. r.kind = "publish" /\ live' = live \cup {r.post} /\ UNCHANGED rowState
    BY <1>6 DEF Serve, row
  <2>2. ~Unsent /\ r.post = rowDigest /\ r.post \in Runs /\ rowState \in RowStates
    BY <2>1 DEF LockInv, SentInv, Unsent, TypeInv, TypeOK, Requests
  <2>3. ~Claimable /\ live = {} /\ live' = {r.post}
    BY <1>6, <2>1, <2>2 DEF LockInv, SentInv
  <2>4. rowState # "published"
    BY <2>3 DEF TraceInv, RemoteIsVisible
  <2>5. Ledger!Appear(r.post)
    BY <2>1, <2>2, <2>3, <2>4 DEF Claimable, RowStates
  <2>6. QED
    BY <2>2, <2>5
<1>7. ASSUME NEW w \in Workers, Step(w) PROVE [Ledger!Next]_<<Phase, live>>
  <2>1. CASE BeginPublish(w) \/ MarkPublished(w) \/ MarkRecoveryRequired(w)
              \/ MarkFailed(w)
    <3>1. UNCHANGED live
      BY <2>1 DEF BeginPublish, MarkPublished, MarkRecoveryRequired, MarkFailed, halo
    <3>2. QED
      BY <2>1, <3>1, <1>1, <1>2, <1>3, <1>4, <1>5
  <2>2. CASE \/ CheckState(w) \/ Prepare(w) \/ ForceCheck(w) \/ Recheck(w)
             \/ SendDraft(w) \/ DraftAccepted(w) \/ DraftRefused(w)
             \/ PublishAccepted(w) \/ AnswerLost(w)
    BY <2>2, <1>1 DEF CheckState, Prepare, ForceCheck, Recheck, SendDraft,
       DraftAccepted, DraftRefused, PublishAccepted, AnswerLost, row, halo
  <2>3. ~ForceMarkFailed(w)
    BY DEF ForceMarkFailed, Goto, LockInv, JobInv
  <2>4. QED
    BY <1>7, <2>1, <2>2, <2>3 DEF Step
<1>8. ASSUME NEW w \in Workers, NEW f \in ForceModes, Start(w, f) \/ Crash(w)
      PROVE  UNCHANGED <<Phase, live>>
  BY <1>8 DEF Start, Crash, row, halo
<1>9. ASSUME NEW r \in requests, Serve(r) \/ Lose(r)
      PROVE  [Ledger!Next]_<<Phase, live>>
  BY <1>1, <1>6, <1>9 DEF Serve, Lose, row
<1>10. CASE UNCHANGED vars
  BY <1>10 DEF vars
<1>11. QED
  BY <1>7, <1>8, <1>9, <1>10 DEF Next, Crash

THEOREM LedgerImplemented ==
  ASSUME ForceModes = {FALSE}
  PROVE  Spec => ImplementsLedger
BY LedgerInit, LedgerStep, TypeInvInit, TypeInvStep, TraceInvInit, TraceInvStep,
   LockInvInit, LockInvStep, PTL DEF Spec, ImplementsLedger, Ledger!Spec
=============================================================================
