----------------------------- MODULE Generation -----------------------------
(***************************************************************************)
(* What one task of the worker makes of the answers of the models: the     *)
(* translation, the analysis and the dossier of an article, then the plan  *)
(* of the digest from it and the candidates of the other articles.         *)
(* DigestRun and Dossier say when this runs and how it is stored; here are *)
(* the contents.                                                           *)
(*                                                                         *)
(* Scores are in hundredths; priorities and titles are their ranks in the  *)
(* alphabet (high, low, normal).                                           *)
(***************************************************************************)
EXTENDS ModelChain, DigestPlan, Integers

CONSTANTS
  None,         (* what is not there yet                                   *)
  Policies,     (* article publish and review modes of the settings        *)
  Analyses,     (* decoded answers to the analysis prompt                  *)
  Dossiers,     (* decoded answers to the dossier prompt                   *)
  Plans,        (* decoded answers to the digest prompt                    *)
  Others,       (* sequences of candidates of the other articles           *)
  PlanAttempts  (* planStructuredOutputAttempts                            *)

Modes   == {"digest_only", "suggested", "partial", "all", "other"}
Reviews == {"manual_review", "auto_publish", "auto", "other"}
States  == {"draft", "queued", "pending_review"}

ASSUME PoliciesAssumption == Policies \subseteq [mode : Modes, review : Reviews]
ASSUME PlanAttemptsAssumption == PlanAttempts \in Nat \ {0}
ASSUME BlankAssumption == Blank \notin Int \cup {"normal", "featured"}
ASSUME NoneAssumption == None \notin States \cup Plans

ASSUME DossiersAssumption ==
  \A d \in Dossiers : d.score \in Int /\ d.priority \in Int \cup {Blank}

(* Every candidate has a dossier of its own, that of the task d.            *)
ASSUME OthersAssumption ==
  \A o \in Others :
    /\ o \in Seq(ToSet(o))
    /\ \A i \in DOMAIN o : /\ {o[i].score, o[i].priority, o[i].title} \subseteq Int
                          /\ o[i].dossier # "d"
    /\ \A i, j \in DOMAIN o : o[i].dossier = o[j].dossier => i = j

(* SectionItem, as far as it matters.                                       *)
ItemFields == {"article", "dossier", "title", "bucket", "featured"}

(* What a plan lacks is blank, its fields are there.                        *)
ASSUME PlansAssumption ==
  \A p \in Plans :
    /\ p \in Seq(ToSet(p))
    /\ \A s \in DOMAIN p :
         /\ DOMAIN p[s] = {"name", "items"} /\ p[s].items \in Seq(ToSet(p[s].items))
         /\ \A i \in DOMAIN p[s].items : DOMAIN p[s].items[i] = ItemFields

VARIABLES
  policy,       (* the one of them in effect                               *)
  others,       (* candidates of the other articles                        *)
  stage,        (* what the task is at                                     *)
  processed,    (* the stored processing of the article                    *)
  advice,       (* the answer the dossier was made from                    *)
  dossier,      (* the active dossier                                      *)
  state,        (* article_publish_states of the dossier                   *)
  round,        (* attempts at a plan                                      *)
  draft,        (* the valid plan the model gave                           *)
  plan          (* the plan of the digest                                  *)

taskVars == <<policy, others, stage, processed, advice, dossier, state, round, draft, plan>>
vars     == <<chainVars, ended, taskVars>>

Stages  == {"start", "translate", "analyze", "dossier", "plan", "digest", "failed"}
Ended   == {"digest", "failed"}

-----------------------------------------------------------------------------
(* The article.                                                             *)

(* normalizeImportanceScore: scores above one are taken for out of ten.     *)
Scaled(s) == IF s > 100 /\ s <= 1000 THEN s \div 10 ELSE s

(* validateAnalysis.                                                        *)
Acceptable(a) == a.core # Blank /\ a.topic # Blank /\ Scaled(a.score) \in 0 .. 100

Processed(a) == [core |-> a.core, topic |-> a.topic, score |-> Scaled(a.score)]

(* Advice is free text, by what it means and how it reads.  It advises      *)
(* publication in listed words ("for"), or advises against it: in words     *)
(* listed for and against, "not ready to publish" ("both"), in words listed *)
(* against only, "keep as draft" ("against"), or in words listed for only,  *)
(* "not worth publishing" ("missed").  "true" is a boolean, "suggested" the *)
(* word itself, and anything else has no listed words.                      *)
ListedFor     == {"for", "both", "missed"}
ListedAgainst == {"both", "against"}

(* Mutant: advice for publication is looked for first.                      *)
SuggestionHopeful(text) ==
  IF text \in {"suggested", "true"} \cup ListedFor THEN "suggested" ELSE "draft"

(* normalizePublishSuggestionValue.                                         *)
Suggestion(text) ==
  IF text \in {"suggested", "true"} \cup (ListedFor \ ListedAgainst) THEN "suggested" ELSE "draft"

Or(x, default) == IF x = Blank THEN default ELSE x

(* fillDossierDefaults: what the answer lacks comes from the processing.    *)
Filled(d, p) ==
  [core |-> Or(d.core, p.core), topic |-> Or(d.topic, p.topic),
   score |-> IF Scaled(d.score) = 0 THEN p.score ELSE Scaled(d.score),
   priority |-> Or(d.priority, 3),
   suggestion |-> Suggestion(d.suggestion)]

Mode(m) ==
  CASE m = "all" -> "all" [] m \in {"suggested", "partial"} -> "suggested"
    [] OTHER     -> "digest_only"

Review(r) == IF r \in {"auto_publish", "auto"} THEN "auto_publish" ELSE "manual_review"

(* initialArticlePublishState.                                              *)
InitialState(suggestion) ==
  IF \/ Mode(policy.mode) = "digest_only"
     \/ Mode(policy.mode) = "suggested" /\ suggestion # "suggested"
  THEN "draft"
  ELSE IF Review(policy.review) = "auto_publish" THEN "queued" ELSE "pending_review"

(* candidateFromDossier.                                                    *)
CandidateOf(d) ==
  [article |-> "a", dossier |-> "d", score |-> IF d.score = 0 THEN processed.score ELSE d.score,
   priority |-> d.priority, title |-> 1]

Candidates == <<CandidateOf(dossier)>> \o others

-----------------------------------------------------------------------------
Init ==
  /\ ChainInit
  /\ policy \in Policies
  /\ others \in Others
  /\ stage = "start"
  /\ processed \in {None} \cup {Processed(a) : a \in {b \in Analyses : Acceptable(b)}}
  /\ advice = None /\ dossier = None /\ state = None
  /\ round = 1 /\ draft = None /\ plan = None

(* runProcessingJob: an article that was processed before is not again.     *)
Begin ==
  /\ stage = "start" /\ phase = "idle"
  /\ stage' = IF ended THEN "failed" ELSE IF processed = None THEN "translate" ELSE "dossier"
  /\ UNCHANGED <<chainVars, ended, policy, others, processed, advice, dossier, state, round,
                 draft, plan>>

AskModel == stage \in {"translate", "analyze", "dossier", "plan"} /\ Ask /\ UNCHANGED taskVars

(* A call of an article fails, its answer cannot be decoded or is refused,  *)
(* the database fails or the context has ended: there is no second attempt. *)
ArticleFails ==
  /\ stage \in {"translate", "analyze", "dossier"} /\ phase \in {"answered", "failed"}
  /\ Return
  /\ stage' = "failed"
  /\ UNCHANGED <<policy, others, processed, advice, dossier, state, round, draft, plan>>

(* Any JSON object will do.                                                 *)
Translated ==
  /\ stage = "translate" /\ phase = "answered"
  /\ Return
  /\ stage' = "analyze"
  /\ UNCHANGED <<policy, others, processed, advice, dossier, state, round, draft, plan>>

(* The processing is stored; the context may end, or the answer be lost,    *)
(* after that.                                                              *)
Analyzed ==
  /\ stage = "analyze" /\ phase = "answered" /\ ~ended
  /\ Return
  /\ \E a \in Analyses : Acceptable(a) /\ processed' = Processed(a)
  /\ stage' \in {"dossier", "failed"}
  /\ UNCHANGED <<policy, others, advice, dossier, state, round, draft, plan>>

(* Materialize: the dossier is stored, then its state; either may be the    *)
(* last thing that happens.                                                 *)
Materialized ==
  /\ stage = "dossier" /\ phase = "answered" /\ ~ended
  /\ Return
  /\ \E d \in Dossiers : advice' = d.suggestion /\ dossier' = Filled(d, processed)
  /\ \/ state' = InitialState(dossier'.suggestion) /\ stage' \in {"plan", "failed"}
     \/ UNCHANGED state /\ stage' = "failed"
  /\ UNCHANGED <<policy, others, processed, round, draft, plan>>

-----------------------------------------------------------------------------
(* The digest.                                                              *)

(* Mutant: a plan is not taken from a context that has ended.               *)
FallBackAlive ==
  /\ IF ended THEN stage' = "failed" /\ UNCHANGED plan
     ELSE stage' = "digest" /\ plan' = Fallback(Candidates)
  /\ Return
  /\ UNCHANGED <<policy, others, processed, advice, dossier, state, round, draft>>

(* Plan of the agent, whatever the error: it does not look at the context.  *)
FallBack ==
  /\ stage' = "digest" /\ plan' = Fallback(Candidates)
  /\ Return
  /\ UNCHANGED <<policy, others, processed, advice, dossier, state, round, draft>>

PlanFails == stage = "plan" /\ phase = "failed" /\ FallBack

(* An answer that is no plan is asked for once more.                        *)
PlanUnusable ==
  /\ stage = "plan" /\ phase = "answered"
  /\ \/ round = PlanAttempts /\ FallBack
     \/ /\ round < PlanAttempts /\ round' = round + 1
        /\ Return
        /\ UNCHANGED <<policy, others, stage, processed, advice, dossier, state, draft, plan>>

(* A valid plan must name candidates only: no fallback any more.            *)
Planned ==
  /\ stage = "plan" /\ phase = "answered"
  /\ \E p \in Plans :
       /\ Valid(p) /\ draft' = p
       /\ IF Traceable(p, Candidates)
          THEN stage' = "digest" /\ plan' = Traced(p, Candidates)
          ELSE stage' = "failed" /\ UNCHANGED plan
  /\ Return
  /\ UNCHANGED <<policy, others, processed, advice, dossier, state, round>>

-----------------------------------------------------------------------------
Respond == Answer \/ \E e \in Errors : NoAnswer(e)

Work ==
  \/ Begin \/ AskModel
  \/ Respond /\ UNCHANGED taskVars
  \/ ArticleFails \/ Translated \/ Analyzed \/ Materialized
  \/ PlanFails \/ PlanUnusable \/ Planned

Next ==
  \/ Work
  \/ stage \notin Ended /\ End /\ UNCHANGED taskVars

Spec == Init /\ [][Next]_vars

(* Requests end: the client of the models has a timeout, the task another.  *)
FairSpec == Spec /\ WF_vars(Work)

-----------------------------------------------------------------------------
(* Properties.                                                              *)

TypeOK ==
  /\ chain \in Seq(Models) /\ chain # <<>>
  /\ ended \in BOOLEAN /\ phase \in Phases /\ at \in 1 .. Len(chain)
  /\ attempt \in 1 .. MaxTry /\ error \in Errors \cup {"none"}
  /\ late \in 0 .. 1 /\ asked \in [Models -> 0 .. MaxTry]
  /\ policy \in Policies /\ others \in Others
  /\ stage \in Stages /\ round \in 1 .. PlanAttempts
  /\ processed # None =>
       processed.core # Blank /\ processed.topic # Blank /\ processed.score \in 0 .. 100
  /\ dossier # None =>
       dossier.core # Blank /\ dossier.topic # Blank /\ dossier.priority # Blank
  /\ state \in {None} \cup States

(* What the model says for publication.                                     *)
Positive == {"suggested", "true", "for"}

(* An article waits for publication without a review only if the settings   *)
(* say so in words they know and, unless all articles are to be published,  *)
(* the model advised it.  The exception is what openapi.yaml, line 415,     *)
(* does not know of: advice against it in words that are listed as advice   *)
(* for it only.  Advice that reads both ways never queues an article.       *)
QueuedReadAsAdvised ==
  state = "queued" =>
    /\ policy.review \in {"auto_publish", "auto"}
    /\ \/ policy.mode = "all"
       \/ policy.mode \in {"suggested", "partial"} /\ advice \in Positive \cup {"missed"}

(* Whatever ids the model mixed up, every item of a digest names the        *)
(* article and the dossier of one candidate, under a title.                 *)
ItemsTraced ==
  stage = "digest" =>
    \A item \in ToSet(Shown(plan)) :
      /\ item.title # Blank /\ item.bucket # Blank
      /\ \E c \in ToSet(Candidates) : item.article = c.article /\ item.dossier = c.dossier

(* Without a usable answer of the model the digest shows every candidate    *)
(* once, none before a more important one, and features exactly the first.  *)
FallbackComplete ==
  stage = "digest" /\ draft = None =>
    LET items    == Shown(plan)
        Score(i) == (CHOOSE c \in ToSet(Candidates) : c.dossier = items[i].dossier).score
    IN  /\ Len(items) = Len(Candidates)
        /\ {item.dossier : item \in ToSet(items)} = {c.dossier : c \in ToSet(Candidates)}
        /\ \A i, j \in DOMAIN items : i < j => Score(i) >= Score(j)
        /\ \A i \in DOMAIN items : items[i].featured <=> i = 1

(* Once every article has its dossier the digest is made, whatever the      *)
(* models answer and whenever the context ends; only a valid plan that      *)
(* names something else than the candidates keeps it from being made.       *)
DigestIsMade ==
  stage = "plan" ~> stage = "digest" \/ (draft # None /\ ~Traceable(draft, Candidates))
=============================================================================
