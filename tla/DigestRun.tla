----------------------------- MODULE DigestRun -----------------------------
(***************************************************************************)
(* The whole of DailyDigestRuntimeService.Run for one date: fetch, process,*)
(* generate, claim, publish, with the state each stage leaves behind in    *)
(* Miniflux, in source_articles, in the dossiers and in daily_digests.     *)
(* Executions follow one another (the queue's retries, then perhaps forced *)
(* reruns); what overlapping ones do to the row is module DigestPublish,   *)
(* what happens inside ProcessPending is module ProcessPending, of which   *)
(* this module uses the contract (PendingBatch).                           *)
(***************************************************************************)
EXTENDS Naturals

CONSTANTS
  Entries,      (* entries of the date's window                            *)
  Fingerprint,  (* hash of an entry's URL, title and content               *)
  ForceModes,   (* values of RunOptions.Force                              *)
  MaxFailures   (* bound: failures of calls and crashes                    *)

ASSUME FingerprintAssumption == DOMAIN Fingerprint = Entries
ASSUME ForceModesAssumption  == ForceModes \subseteq BOOLEAN
ASSUME MaxFailuresAssumption == MaxFailures \in Nat

VARIABLES
  arrived,      (* entries Miniflux has polled                             *)
  unread,       (* of those, the unread ones                               *)
  marked,       (* entries a run has marked read                           *)
  articles,     (* entries in source_articles                              *)
  dossiers,     (* entries with an active dossier of this date             *)
  rowState,     (* daily_digests.publish_state, "absent" without a row     *)
  items,        (* the entries behind daily_digest_items of the row        *)
  step,         (* where the current execution is                          *)
  force,        (* its RunOptions.Force                                    *)
  listed,       (* entries of ProcessPending's own listing                 *)
  candidates,   (* what ProcessPending returned                            *)
  plan,         (* entries of the generated digest                         *)
  failed        (* failures so far                                         *)

miniflux == <<arrived, unread, marked>>
assets   == <<articles, dossiers>>
digest   == <<rowState, items>>
local    == <<force, listed, candidates, plan>>
runVars  == <<arrived, unread, marked, articles, dossiers, rowState, items, step,
              force, listed, candidates, plan, failed>>

RowStates == {"absent", "publishing", "published", "failed", "recovery_required"}
Claimable == rowState \in {"absent", "failed"}

Goto(from, to) == step = from /\ step' = to

(* A call of the execution fails: Run returns the error, the queue retries. *)
FailAt(from) ==
  /\ failed < MaxFailures /\ failed' = failed + 1
  /\ Goto(from, "idle")

-----------------------------------------------------------------------------
RunInit ==
  /\ arrived = {} /\ unread = {} /\ marked = {} /\ articles = {} /\ dossiers = {}
  /\ rowState = "absent" /\ items = {}
  /\ step = "idle" /\ force = FALSE /\ listed = {} /\ candidates = {} /\ plan = {}
  /\ failed = 0

(* Miniflux polls a feed; its user reads an entry there.  External.         *)
Arrive(e) ==
  /\ e \notin arrived
  /\ arrived' = arrived \cup {e} /\ unread' = unread \cup {e}
  /\ UNCHANGED <<marked, assets, digest, step, local, failed>>

UserReads(e) ==
  /\ e \in unread
  /\ unread' = unread \ {e}
  /\ UNCHANGED <<arrived, marked, assets, digest, step, local, failed>>

(* A delivery whose first GetState lets it go on; any other returns without *)
(* changing anything.                                                       *)
Start(f) ==
  /\ IF f THEN rowState # "recovery_required" ELSE Claimable
  /\ Goto("idle", "fetch") /\ force' = f
  /\ UNCHANGED <<miniflux, assets, digest, listed, candidates, plan, failed>>

(* source_articles has unique indexes on the entry and on the fingerprint;  *)
(* Upsert resolves conflicts on the entry only, so the same text delivered  *)
(* by two feeds is an error.                                                *)
NoTwins(es) == \A a, b \in es : Fingerprint[a] = Fingerprint[b] => a = b

(* Mutant: entries are persisted by the first fetch only.                   *)
FetchOnce ==
  /\ Goto("fetch", "list")
  /\ articles' = IF articles = {} THEN unread ELSE articles
  /\ UNCHANGED <<miniflux, dossiers, digest, local, failed>>

(* ListEntries and one Upsert per listed entry.                             *)
FetchAndPersist ==
  /\ \/ /\ NoTwins(articles \cup unread)
        /\ Goto("fetch", "list") /\ articles' = articles \cup unread
        /\ UNCHANGED failed
     \/ /\ \/ ~NoTwins(articles \cup unread)
              /\ Goto("fetch", "idle") /\ UNCHANGED failed
           \/ FailAt("fetch")
        /\ \E done \in SUBSET unread :
             /\ NoTwins(articles \cup done)
             /\ articles' = articles \cup done
  /\ UNCHANGED <<miniflux, dossiers, digest, local>>

(* ProcessPending lists the unread entries a second time.                   *)
ListPending ==
  /\ Goto("list", "process")
  /\ listed' = unread
  /\ UNCHANGED <<miniflux, assets, digest, force, candidates, plan, failed>>

(* Mutant: whatever is unread by now is marked.                             *)
MarkAllRead == unread' = {} /\ marked' = marked \cup unread

MarkEntriesRead == unread' = unread \ listed /\ marked' = marked \cup listed

(* ProcessPending succeeds: every listed entry was found in source_articles,*)
(* has a dossier and is marked read.                                        *)
ProcessPending ==
  /\ Goto("process", "generate")
  /\ listed \subseteq articles
  /\ dossiers' = dossiers \cup listed
  /\ MarkEntriesRead
  /\ candidates' = listed
  /\ UNCHANGED <<arrived, articles, digest, force, listed, plan, failed>>

(* It fails: an entry that arrived after the fetch is not found, which is   *)
(* no failure of a call; or a call fails, at worst the answer of the final  *)
(* request to Miniflux.                                                     *)
ProcessPendingFails ==
  /\ \/ /\ ~(listed \subseteq articles)
        /\ Goto("process", "idle") /\ UNCHANGED failed
     \/ FailAt("process")
  /\ \/ \E done \in SUBSET (listed \cap articles) :
          dossiers' = dossiers \cup done /\ UNCHANGED <<unread, marked>>
     \/ /\ listed \subseteq articles
        /\ dossiers' = dossiers \cup listed /\ MarkEntriesRead
  /\ UNCHANGED <<arrived, articles, digest, local>>

(* Mutant: an empty plan is accepted.                                       *)
GenerateEmpty ==
  /\ Goto("generate", "begin")
  /\ plan' \in SUBSET candidates
  /\ UNCHANGED <<miniflux, assets, digest, force, listed, candidates, failed>>

(* Planner, trace check and renderer.  Items that name no candidate are     *)
(* refused and a plan has at least one item, so nothing can be generated    *)
(* from an empty candidate list.                                            *)
Generate ==
  /\ Goto("generate", "begin")
  /\ plan' \in (SUBSET candidates) \ {{}}
  /\ UNCHANGED <<miniflux, assets, digest, force, listed, candidates, failed>>

GenerateFails ==
  /\ \/ candidates = {} /\ Goto("generate", "idle") /\ UNCHANGED failed
     \/ FailAt("generate")
  /\ UNCHANGED <<miniflux, assets, digest, local>>

(* The row is claimed with the new content; a forced run first turns any    *)
(* other state but recovery_required into failed.  A failure may come       *)
(* between the two statements or after the second.                          *)
Claim == rowState' = "publishing" /\ items' = plan

BeginPublish ==
  /\ Claimable \/ (force /\ rowState # "recovery_required")
  /\ \/ Goto("begin", "publish") /\ Claim /\ UNCHANGED failed
     \/ /\ FailAt("begin")
        /\ \/ UNCHANGED digest
           \/ force /\ ~Claimable /\ rowState' = "failed" /\ UNCHANGED items
           \/ Claim
  /\ UNCHANGED <<miniflux, assets, local>>

(* PublishDigest and the mark that follows its outcome.                     *)
Publish ==
  /\ \/ Goto("publish", "idle") /\ rowState' = "published" /\ UNCHANGED failed
     \/ /\ FailAt("publish")
        /\ rowState' \in {"published", "failed", "recovery_required"}
  /\ UNCHANGED <<miniflux, assets, items, local>>

(* The worker dies, or the mark itself cannot be written.                   *)
Crash ==
  /\ step # "idle" /\ FailAt(step)
  /\ UNCHANGED <<miniflux, assets, digest, local>>

-----------------------------------------------------------------------------
Step ==
  \/ FetchAndPersist \/ ListPending \/ ProcessPending \/ ProcessPendingFails
  \/ Generate \/ GenerateFails \/ BeginPublish \/ Publish

RunNext ==
  \/ Step \/ Crash
  \/ \E f \in ForceModes : Start(f)
  \/ \E e \in Entries : Arrive(e) \/ UserReads(e)

RunSpec == RunInit /\ [][RunNext]_runVars

(* The queue keeps delivering the task while it fails, and a delivered      *)
(* execution runs on.  Failures are finite (MaxFailures).                   *)
FairRunSpec == RunSpec /\ WF_runVars(Step) /\ WF_runVars(\E f \in ForceModes : Start(f))

-----------------------------------------------------------------------------
(* Properties.                                                              *)

RunTypeOK ==
  /\ arrived \subseteq Entries /\ unread \subseteq arrived /\ marked \subseteq arrived
  /\ articles \subseteq arrived /\ NoTwins(articles) /\ dossiers \subseteq articles
  /\ rowState \in RowStates /\ items \subseteq Entries
  /\ step \in {"idle", "fetch", "list", "process", "generate", "begin", "publish"}
  /\ force \in BOOLEAN /\ failed \in 0 .. MaxFailures
  /\ listed \subseteq Entries /\ candidates \subseteq Entries /\ plan \subseteq Entries

(* An entry the worker has taken out of the unread list has left its        *)
(* article and its dossier behind: whatever fails or crashes, and whenever  *)
(* an entry arrives between the two listings, nothing is consumed unseen.   *)
MarkedHasDossier == marked \subseteq articles \cap dossiers

(* A row that was published names at least one article and each of them has *)
(* a dossier, so an empty retry never publishes an empty digest.            *)
PublishedIsTraced == rowState = "published" => items # {} /\ items \subseteq dossiers

(* While the date can still be claimed every unread entry is taken up by    *)
(* one of the retries, although an entry may keep arriving between the two  *)
(* listings of a run, unless two entries have the same text.                *)
UnreadTakenUp ==
  \A e \in Entries :
    e \in unread ~> (e \notin unread \/ ~Claimable \/ ~NoTwins(articles \cup unread))

(* The design lets a failed publication be repeated on its own; the code's  *)
(* retry runs the whole chain, and the entries are already marked read.     *)
FailedIsRetried == rowState = "failed" ~> rowState # "failed"
=============================================================================
