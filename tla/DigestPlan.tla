----------------------------- MODULE DigestPlan -----------------------------
(***************************************************************************)
(* The plan of a digest: what internal/agent/digest_planning makes of the  *)
(* model's answer or, without a usable one, of the candidates alone, and   *)
(* what internal/workflow/daily_digest_workflow lets through.              *)
(*                                                                         *)
(* A plan is a sequence of sections; candidates come in the order of their *)
(* entries.                                                                *)
(***************************************************************************)
EXTENDS Naturals, FiniteSets, SequencesExt

CONSTANTS
  Blank,        (* a field that was left empty                             *)
  Featured      (* how many items the fallback plan puts first             *)

ASSUME FeaturedAssumption == Featured \in Nat \ {0}

(* validatePlan, after normalizePlan has given the plan a title.            *)
Valid(plan) ==
  /\ plan # <<>>
  /\ \A s \in DOMAIN plan :
       /\ plan[s].name # Blank /\ plan[s].items # <<>>
       /\ \A i \in DOMAIN plan[s].items :
            plan[s].items[i].article # Blank /\ plan[s].items[i].title # Blank

(* Candidates an item may mean: by its article, else by its dossier.        *)
ByArticle(item, candidates) ==
  {c \in DOMAIN candidates : candidates[c].article = item.article /\ item.article # Blank}
ByDossier(item, candidates) ==
  {c \in DOMAIN candidates : candidates[c].dossier = item.dossier /\ item.dossier # Blank}

Resolved(item, candidates) ==
  IF ByArticle(item, candidates) # {} THEN ByArticle(item, candidates)
  ELSE ByDossier(item, candidates)

Traceable(plan, candidates) ==
  \A s \in DOMAIN plan : \A i \in DOMAIN plan[s].items :
    \E c \in Resolved(plan[s].items[i], candidates) : candidates[c].dossier # Blank

Normal(bucket) == IF bucket = Blank THEN "normal" ELSE bucket

(* Mutant: only an item without an article is resolved.                     *)
TraceMissing(item, candidates) ==
  IF item.dossier # Blank THEN item
  ELSE LET c == CHOOSE c \in Resolved(item, candidates) : TRUE
       IN  [item EXCEPT !.dossier = candidates[c].dossier]

(* An item takes both ids from its candidate.                               *)
TraceItem(item, candidates) ==
  LET c == CHOOSE c \in Resolved(item, candidates) : TRUE
  IN  [item EXCEPT !.article = candidates[c].article, !.dossier = candidates[c].dossier,
                   !.bucket = Normal(@)]

(* preserveCandidateTrace of a traceable plan.                              *)
Traced(plan, candidates) ==
  [s \in DOMAIN plan |->
     [plan[s] EXCEPT !.items = [i \in DOMAIN @ |-> TraceItem(@[i], candidates)]]]

-----------------------------------------------------------------------------
(* The fallback plan.                                                       *)

(* The more important, then the later in the alphabet by its priority, then *)
(* the earlier by its title; priorities and titles are their ranks in it.   *)
Before(c, d) ==
  IF c.score # d.score THEN c.score > d.score
  ELSE IF c.priority # d.priority THEN c.priority > d.priority
  ELSE c.title < d.title

(* Mutant: the order of the entries does not matter, only that of titles.   *)
SortedByTitle(candidates) ==
  SortSeq(candidates, LAMBDA c, d : c.title < d.title)

(* The sort of fallbackPlan, which is stable: an entry is a candidate with  *)
(* its position.                                                            *)
Precedes(e, f) == Before(e[2], f[2]) \/ (~Before(f[2], e[2]) /\ e[1] < f[1])

Sorted(candidates) ==
  LET entries  == {<<i, candidates[i]>> : i \in DOMAIN candidates}
      Place(e) == Cardinality({f \in entries : Precedes(f, e)}) + 1
  IN  [k \in DOMAIN candidates |-> (CHOOSE e \in entries : Place(e) = k)[2]]

FallbackItem(c, first) ==
  [article |-> c.article, dossier |-> c.dossier, title |-> c.title, featured |-> first,
   bucket |-> IF first THEN "featured" ELSE "normal"]

(* fallbackPlan: the first ones in a section of their own.                  *)
Fallback(candidates) ==
  LET sorted == Sorted(candidates)
      items  == [k \in DOMAIN sorted |-> FallbackItem(sorted[k], k = 1)]
  IN  IF Len(items) <= Featured THEN <<[name |-> "first", items |-> items]>>
      ELSE <<[name |-> "first", items |-> SubSeq(items, 1, Featured)],
             [name |-> "more",  items |-> SubSeq(items, Featured + 1, Len(items))]>>

-----------------------------------------------------------------------------
(* The items in the order they are rendered, which is that of the positions *)
(* they are stored with.                                                    *)
Shown(plan) == FlattenSeq([s \in DOMAIN plan |-> plan[s].items])
=============================================================================
