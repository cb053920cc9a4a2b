-------------------------- MODULE GenerationProofs --------------------------
(***************************************************************************)
(* Proofs about modules ModelChain, DigestPlan and Generation, for chains  *)
(* of any length, any number of tries, candidates, sections and items.     *)
(*                                                                         *)
(* What a call may still ask for depends on the chain naming no model      *)
(* twice, which is how normalizeLLMModelChain makes it.                    *)
(*                                                                         *)
(* What a digest shows depends on FlattenSeq, whose recursion is unfolded  *)
(* through the least section it could fail at, and on the sort: PlacesFill *)
(* says that a finite order has one element at every place.                *)
(***************************************************************************)
EXTENDS Generation, FiniteSetTheorems, FunctionTheorems, SequenceTheorems, WellFoundedInduction,
        TLAPS

-----------------------------------------------------------------------------
(* A set of positions has one of every rank.                                *)
LEMMA Least ==
  ASSUME NEW T, T \subseteq Nat, T # {}
  PROVE  \E x \in T : \A y \in T : x <= y
<1>1. PICK x \in T : \A y \in T : ~(<<y, x>> \in OpToRel(<, Nat))
  BY NatLessThanWellFounded, WFMin
<1>2. ASSUME NEW y \in T PROVE x <= y
  <2>1. x \in Nat /\ y \in Nat
    BY <1>1
  <2>2. ~(y < x)
    BY <1>1, <2>1 DEF OpToRel
  <2> QED
    BY <2>1, <2>2
<1> QED
  BY <1>1, <1>2

LEMMA Ranked ==
  ASSUME NEW n \in Nat, NEW S \in SUBSET (1 .. n), NEW k \in 1 .. Cardinality(S)
  PROVE  \E i \in S : Cardinality(S \cap 1 .. i) = k
<1> DEFINE Rank(i) == Cardinality(S \cap 1 .. i)
           Reached == {i \in 1 .. n : Rank(i) >= k}
<1>1. ASSUME NEW i \in Int PROVE IsFiniteSet(S \cap 1 .. i) /\ Rank(i) \in Nat
  <2>1. IsFiniteSet(1 .. i)
    BY <1>1, FS_Interval
  <2>2. IsFiniteSet(S \cap 1 .. i)
    BY <2>1, FS_Intersection
  <2> QED
    BY <2>2, FS_CardinalityType
<1>2. IsFiniteSet(S) /\ Cardinality(S) \in Nat
  <2>1. IsFiniteSet(1 .. n)
    BY FS_Interval
  <2>2. IsFiniteSet(S)
    BY <2>1, FS_Subset
  <2> QED
    BY <2>2, FS_CardinalityType
<1>3. ASSUME NEW i \in 1 .. n
      PROVE  Rank(i) = IF i \in S THEN Rank(i - 1) + 1 ELSE Rank(i - 1)
  <2>1. CASE i \in S
    <3>1. S \cap 1 .. i = (S \cap 1 .. i - 1) \cup {i}
      BY <2>1
    <3>2. i \notin S \cap 1 .. i - 1
      OBVIOUS
    <3>3. IsFiniteSet(S \cap 1 .. i - 1)
      BY <1>1
    <3> QED
      BY <2>1, <3>1, <3>2, <3>3, FS_AddElement
  <2>2. CASE i \notin S
    <3>1. S \cap 1 .. i = S \cap 1 .. i - 1
      BY <2>2
    <3> QED
      BY <2>2, <3>1
  <2> QED
    BY <2>1, <2>2
<1>4. n \in Reached
  <2>1. S \cap 1 .. n = S
    OBVIOUS
  <2>2. n >= 1
    <3>1. S # {}
      BY FS_EmptySet
    <3>2. PICK i \in S : TRUE
      BY <3>1
    <3>3. i \in 1 .. n
      BY <3>2
    <3> QED
      BY <3>3
  <2> QED
    BY <1>2, <2>1, <2>2
<1>5. PICK i \in Reached : \A j \in Reached : i <= j
  <2>1. Reached \subseteq Nat
    OBVIOUS
  <2>2. Reached # {}
    BY <1>4
  <2> HIDE DEF Reached
  <2> QED
    BY <2>1, <2>2, Least
<1>6. Rank(i - 1) < k
  <2>1. CASE i = 1
    <3>1. S \cap 1 .. i - 1 = {}
      BY <2>1
    <3>2. Rank(i - 1) = 0
      BY <3>1, FS_EmptySet
    <3> QED
      BY <3>2
  <2>2. CASE i # 1
    <3>1. i - 1 \in 1 .. n /\ i - 1 \notin Reached
      BY <1>5, <2>2
    <3> QED
      BY <1>1, <3>1
  <2> QED
    BY <2>1, <2>2
<1>7. i \in 1 .. n /\ Rank(i) >= k /\ Rank(i) \in Nat /\ Rank(i - 1) \in Nat
  BY <1>1
<1> HIDE DEF Rank, Reached
<1>8. i \in S /\ Rank(i) = k
  BY <1>3, <1>6, <1>7
<1> QED
  BY <1>8 DEF Rank

(* normalizeLLMModelChain: a chain names the configured model and no model  *)
(* twice.                                                                   *)
LEMMA ChainDistinct ==
  ASSUME NEW s \in Settings
  PROVE  /\ ChainOf(s) \in Seq(Models) /\ Len(ChainOf(s)) \in Nat \ {0}
         /\ \A i, j \in 1 .. Len(ChainOf(s)) : ChainOf(s)[i] = ChainOf(s)[j] => i = j
<1> DEFINE names == <<s.model>> \o s.fallbacks
           first == {i \in DOMAIN names :
                       names[i] # NoName /\ \A j \in 1 .. i - 1 : names[j] # names[i]}
           Place(k) == CHOOSE i \in first : Cardinality(first \cap 1 .. i) = k
           n == Cardinality(first)
<1>1. s.model \in Models /\ s.fallbacks \in Seq(Models \cup {NoName})
  BY SettingsAssumption
<1>2. names \in Seq(Models \cup {NoName}) /\ Len(names) \in Nat /\ Len(names) >= 1
      /\ names[1] = s.model /\ DOMAIN names = 1 .. Len(names)
  BY <1>1
<1>3. first \in SUBSET (1 .. Len(names)) /\ 1 \in first
  BY <1>1, <1>2, ModelsAssumption
<1>4. \A i \in first : names[i] \in Models
  BY <1>2, <1>3
<1>5. \A i, j \in first : names[i] = names[j] => i = j
  BY <1>2, <1>3
<1>6. ChainOf(s) = [k \in 1 .. n |-> names[Place(k)]]
  BY DEF ChainOf
<1> HIDE DEF names, first
<1>7. n \in Nat \ {0}
  <2>1. IsFiniteSet(1 .. Len(names))
    BY <1>2, FS_Interval
  <2>2. IsFiniteSet(first)
    BY <1>3, <2>1, FS_Subset
  <2> QED
    BY <1>3, <2>2, FS_CardinalityType, FS_EmptySet
<1>8. ASSUME NEW k \in 1 .. n PROVE Place(k) \in first /\ Cardinality(first \cap 1 .. Place(k)) = k
  <2>1. \E i \in first : Cardinality(first \cap 1 .. i) = k
    BY <1>2, <1>3, Ranked
  <2> QED
    BY <2>1
<1> HIDE DEF Place, n
<1>9. \A k \in 1 .. n : names[Place(k)] \in Models
  BY <1>4, <1>8
<1>10. ChainOf(s) \in Seq(Models) /\ Len(ChainOf(s)) = n
  BY <1>6, <1>7, <1>9
<1>11. ASSUME NEW i \in 1 .. n, NEW j \in 1 .. n, names[Place(i)] = names[Place(j)] PROVE i = j
  BY <1>5, <1>8, <1>11
<1> QED
  BY <1>6, <1>7, <1>10, <1>11

-----------------------------------------------------------------------------
(* The chain names a model once, so what counts for a position counts for a *)
(* model.                                                                   *)
Distinct == \A i, j \in 1 .. Len(chain) : chain[i] = chain[j] => i = j

Tries ==
  /\ phase = "idle" => asked = NotAsked
  /\ phase # "idle" => asked[chain[at]] = attempt
  /\ phase # "idle" => \A i \in 1 .. Len(chain) : i > at => asked[chain[i]] = 0

(* A request that began too late ends its call, and that call its task.     *)
LateEndsTask ==
  /\ late > 0 => ended
  /\ late > 0 /\ phase \in {"idle", "answered"} => stage \in Ended

Usable(p) == p.core # Blank /\ p.topic # Blank /\ p.score \in 0 .. 100

HasProcessing == stage = "dossier" => Usable(processed)

StateIsNew == stage \in {"start", "translate", "analyze", "dossier"} => state = None

(* TypeOK in its two halves.                                                *)
ChainType ==
  /\ chain \in Seq(Models) /\ chain # <<>>
  /\ ended \in BOOLEAN /\ phase \in Phases /\ at \in 1 .. Len(chain)
  /\ attempt \in 1 .. MaxTry /\ error \in Errors \cup {"none"}
  /\ late \in 0 .. 1 /\ asked \in [Models -> 0 .. MaxTry]

TaskType ==
  /\ policy \in Policies /\ others \in Others
  /\ stage \in Stages /\ round \in 1 .. PlanAttempts
  /\ processed # None =>
       processed.core # Blank /\ processed.topic # Blank /\ processed.score \in 0 .. 100
  /\ dossier # None =>
       dossier.core # Blank /\ dossier.topic # Blank /\ dossier.priority # Blank
  /\ state \in {None} \cup States

ChainInv == ChainType /\ Distinct /\ Tries /\ NothingUntried
TaskInv  == TaskType /\ HasProcessing /\ StateIsNew /\ QueuedReadAsAdvised

GenInv == ChainInv /\ LateEndsTask /\ TaskInv

-----------------------------------------------------------------------------
LEMMA ChainInitInv == ChainInit => ChainInv /\ late = 0 /\ phase = "idle"
<1> SUFFICES ASSUME ChainInit PROVE ChainInv /\ late = 0 /\ phase = "idle"
  OBVIOUS
<1> USE MaxTryAssumption DEF ChainInit
<1>1. PICK s \in Settings : chain = ChainOf(s)
  OBVIOUS
<1>2. chain \in Seq(Models) /\ Len(chain) \in Nat \ {0} /\ Distinct
  BY <1>1, ChainDistinct DEF Distinct
<1>3. chain # <<>>
  BY <1>2
<1>4. NotAsked \in [Models -> 0 .. MaxTry]
  BY DEF NotAsked
<1>5. ChainType
  <2>1. at \in 1 .. Len(chain) /\ attempt \in 1 .. MaxTry
    BY <1>2
  <2>2. ended \in BOOLEAN /\ phase \in Phases
    BY Zenon DEF Phases
  <2>3. late \in 0 .. 1 /\ error \in Errors \cup {"none"}
    OBVIOUS
  <2> QED
    BY <1>2, <1>3, <1>4, <2>1, <2>2, <2>3 DEF ChainType
<1> QED
  BY <1>2, <1>5 DEF ChainInv, Tries, NothingUntried

(* A request that is due keeps the count of the tries.                      *)
LEMMA RequestKeeps ==
  ASSUME ChainInv, late = 0, NEW i \in 1 .. Len(chain), NEW n \in 1 .. MaxTry,
         NEW before \in [Models -> 0 .. MaxTry], before[chain[i]] = n - 1,
         \A j \in 1 .. Len(chain) : j > i => before[chain[j]] = 0,
         Request(i, n, before)
  PROVE  /\ ChainInv' /\ phase' = "calling" /\ ended' = ended
         /\ late' > 0 => ended
<1> USE MaxTryAssumption DEF Request
<1>1. /\ chain \in Seq(Models) /\ chain # <<>> /\ Len(chain) \in Nat /\ Distinct
      /\ ended \in BOOLEAN /\ error \in Errors \cup {"none"}
  BY DEF ChainInv, ChainType
<1>2. \A j \in 1 .. Len(chain) : chain[j] \in Models
  BY <1>1
<1>3. asked' \in [Models -> 0 .. MaxTry] /\ asked'[chain[i]] = n
  BY <1>2
<1>4. \A j \in 1 .. Len(chain) : j > i => asked'[chain[j]] = 0
  BY <1>1, <1>2 DEF Distinct
<1>5. late' \in 0 .. 1 /\ (late' > 0 => ended)
  OBVIOUS
<1>6. ChainType'
  BY <1>1, <1>3, <1>5 DEF ChainType, Phases
<1>7. Distinct' /\ Tries' /\ NothingUntried'
  BY <1>1, <1>3, <1>4 DEF Distinct, Tries, NothingUntried
<1> QED
  BY <1>5, <1>6, <1>7 DEF ChainInv

LEMMA AskKeeps ==
  ASSUME ChainInv, late = 0, Ask
  PROVE  ChainInv' /\ phase' = "calling" /\ ended' = ended /\ (late' > 0 => ended)
<1> USE MaxTryAssumption
<1>1. chain \in Seq(Models) /\ chain # <<>> /\ Len(chain) \in Nat
  BY DEF ChainInv, ChainType
<1>2. 1 \in 1 .. Len(chain) /\ \A j \in 1 .. Len(chain) : chain[j] \in Models
  BY <1>1
<1>3. NotAsked \in [Models -> 0 .. MaxTry] /\ \A m \in Models : NotAsked[m] = 0
  BY DEF NotAsked
<1>4. NotAsked[chain[1]] = 1 - 1 /\ \A j \in 1 .. Len(chain) : j > 1 => NotAsked[chain[j]] = 0
  BY <1>2, <1>3
<1>5. Request(1, 1, NotAsked) /\ 1 \in 1 .. MaxTry
  BY DEF Ask
<1> QED
  BY <1>2, <1>3, <1>4, <1>5, RequestKeeps

(* What follows a request that failed.                                      *)
LEMMA NoAnswerKeeps ==
  ASSUME ChainInv, late > 0 => ended, NEW e \in Errors, NoAnswer(e)
  PROVE  /\ ChainInv' /\ ended' = ended /\ (late' > 0 => ended)
         /\ phase' \in {"calling", "failed"}
<1> USE MaxTryAssumption DEF ChainInv
<1>1. /\ chain \in Seq(Models) /\ Len(chain) \in Nat /\ at \in 1 .. Len(chain)
      /\ attempt \in 1 .. MaxTry /\ asked \in [Models -> 0 .. MaxTry]
      /\ ended \in BOOLEAN /\ late \in 0 .. 1
  BY DEF ChainType
<1>2. /\ phase = "calling" /\ asked[chain[at]] = attempt
      /\ \A i \in 1 .. Len(chain) : i > at => asked[chain[i]] = 0
  BY DEF NoAnswer, Tries
<1>3. Retried(e) \/ ShouldFallback(e) => late = 0 \/ attempt = MaxTry + 1
  BY <1>1 DEF NoAnswer, Retried, ShouldFallback, ShouldRetry, Unusable
<1>4. CASE Retry(e)
  <2>1. attempt + 1 \in 1 .. MaxTry /\ late = 0 /\ Request(at, attempt + 1, asked)
    BY <1>1, <1>3, <1>4 DEF Retry, Retried
  <2>2. asked[chain[at]] = (attempt + 1) - 1
    BY <1>1, <1>2
  <2> QED
    BY <1>1, <1>2, <2>1, <2>2, RequestKeeps
<1>5. CASE NextModel(e)
  <2>1. at + 1 \in 1 .. Len(chain) /\ late = 0 /\ Request(at + 1, 1, asked)
    BY <1>1, <1>3, <1>5 DEF NextModel
  <2>2. asked[chain[at + 1]] = 1 - 1
    BY <1>1, <1>2, <2>1
  <2>3. \A i \in 1 .. Len(chain) : i > at + 1 => asked[chain[i]] = 0
    BY <1>1, <1>2
  <2> QED
    BY <1>1, <2>1, <2>2, <2>3, RequestKeeps
<1>6. CASE GiveUp(e)
  <2>1. UNCHANGED <<chain, ended, at, attempt, asked, late>> /\ phase' = "failed" /\ error' = e
    BY <1>6 DEF GiveUp
  <2>2. ChainType'
    BY <2>1 DEF ChainType, Phases
  <2>3. Distinct' /\ Tries'
    BY <1>2, <2>1 DEF Distinct, Tries
  <2>4. NothingUntried'
    BY <1>1, <1>6, <2>1
    DEF GiveUp, NoAnswer, NothingUntried, Retried, ShouldFallback, ShouldRetry, Unusable, Errors
  <2> QED
    BY <2>1, <2>2, <2>3, <2>4
<1> QED
  BY <1>4, <1>5, <1>6 DEF NoAnswer

LEMMA OtherChainSteps ==
  ASSUME ChainInv
  PROVE  /\ Answer => ChainInv' /\ late = 0 /\ UNCHANGED <<late, ended>>
         /\ End => ChainInv' /\ ended' = TRUE /\ UNCHANGED <<phase, late>>
         /\ Return => ChainInv' /\ phase' = "idle" /\ UNCHANGED <<late, ended>>
<1> USE MaxTryAssumption DEF ChainInv, ChainType, Phases
<1>1. ASSUME Answer PROVE ChainInv' /\ late = 0 /\ UNCHANGED <<late, ended>>
  BY <1>1 DEF Answer, Distinct, Tries, NothingUntried
<1>2. ASSUME End PROVE ChainInv' /\ ended' = TRUE /\ UNCHANGED <<phase, late>>
  BY <1>2 DEF End, chainVars, Distinct, Tries, NothingUntried
<1>3. ASSUME Return PROVE ChainInv' /\ phase' = "idle" /\ UNCHANGED <<late, ended>>
  <2>1. NotAsked \in [Models -> 0 .. MaxTry] /\ 1 \in 1 .. Len(chain)
    BY DEF NotAsked
  <2> QED
    BY <1>3, <2>1 DEF Return, Distinct, Tries, NothingUntried
<1> QED
  BY <1>1, <1>2, <1>3

-----------------------------------------------------------------------------
(* A queued state comes from an answer whose listed words, if it has any    *)
(* that count, all speak for publication.                                   *)
LEMMA SuggestedFrom ==
  ASSUME NEW text, Suggestion(text) = "suggested"
  PROVE  text \in Positive \cup {"missed"} /\ text \notin ListedAgainst
BY DEF Suggestion, ListedFor, ListedAgainst, Positive

LEMMA QueuedFrom ==
  ASSUME NEW text, InitialState(Suggestion(text)) = "queued", policy \in Policies
  PROVE  /\ policy.review \in {"auto_publish", "auto"}
         /\ \/ policy.mode = "all"
            \/ policy.mode \in {"suggested", "partial"} /\ text \in Positive \cup {"missed"}
BY PoliciesAssumption, SuggestedFrom DEF InitialState, Mode, Review, Modes, Reviews

LEMMA StateTypes ==
  ASSUME NEW suggestion
  PROVE  InitialState(suggestion) \in States
BY DEF InitialState, States

LEMMA TaskStutters == TaskInv /\ UNCHANGED taskVars => TaskInv'
BY DEF taskVars, TaskInv, TaskType, HasProcessing, Usable, StateIsNew, QueuedReadAsAdvised

LEMMA BeginKeeps == TaskInv /\ Begin => TaskInv'
BY DEF Begin, TaskInv, TaskType, HasProcessing, Usable, StateIsNew, QueuedReadAsAdvised, Stages

LEMMA AnalyzedKeeps == TaskInv /\ Analyzed => TaskInv'
<1> SUFFICES ASSUME TaskInv, Analyzed PROVE TaskInv'
  OBVIOUS
<1>1. PICK a \in Analyses : Acceptable(a) /\ processed' = Processed(a)
  BY DEF Analyzed
<1>2. Usable(processed')
  BY <1>1 DEF Acceptable, Processed, Usable
<1> QED
  BY <1>2
  DEF Analyzed, TaskInv, TaskType, HasProcessing, Usable, StateIsNew, QueuedReadAsAdvised, Stages

LEMMA MaterializedKeeps == TaskInv /\ Materialized => TaskInv'
<1> SUFFICES ASSUME TaskInv, Materialized PROVE TaskInv'
  OBVIOUS
<1>1. PICK d \in Dossiers : advice' = d.suggestion /\ dossier' = Filled(d, processed)
  BY DEF Materialized
<1>2. Usable(processed) /\ state = None
  BY DEF Materialized, TaskInv, HasProcessing, StateIsNew
<1>3. dossier'.core # Blank /\ dossier'.topic # Blank /\ dossier'.priority # Blank
  BY <1>1, <1>2, BlankAssumption DEF Filled, Or, Usable
<1>4. dossier'.suggestion = Suggestion(advice')
  BY <1>1 DEF Filled
<1>5. /\ UNCHANGED <<policy, others, processed, round>> /\ stage' \in {"plan", "failed"}
      /\ \/ state' = InitialState(dossier'.suggestion)
         \/ state' = state
  BY DEF Materialized
<1>6. policy \in Policies
  BY DEF TaskInv, TaskType
<1>7. TaskType'
  BY <1>2, <1>3, <1>5, StateTypes DEF TaskInv, TaskType, Stages
<1>8. HasProcessing' /\ StateIsNew'
  BY <1>5 DEF HasProcessing, StateIsNew
<1>9. QueuedReadAsAdvised'
  <2>1. CASE state' = InitialState(Suggestion(advice'))
    BY <1>5, <1>6, <2>1, QueuedFrom DEF QueuedReadAsAdvised
  <2>2. CASE state' = state
    BY <1>2, <1>5, <2>2, NoneAssumption DEF QueuedReadAsAdvised, States
  <2> QED
    BY <1>4, <1>5, <2>1, <2>2
<1> QED
  BY <1>7, <1>8, <1>9 DEF TaskInv

LEMMA OtherTaskSteps ==
  TaskInv /\ (ArticleFails \/ Translated \/ PlanFails \/ PlanUnusable \/ Planned) => TaskInv'
<1> USE PlanAttemptsAssumption
    DEF TaskInv, TaskType, HasProcessing, Usable, StateIsNew, QueuedReadAsAdvised, Stages
<1>1. TaskInv /\ (ArticleFails \/ Translated) => TaskInv'
  BY DEF ArticleFails, Translated
<1>2. TaskInv /\ (PlanFails \/ PlanUnusable) => TaskInv'
  BY DEF PlanFails, PlanUnusable, FallBack
<1>3. TaskInv /\ Planned => TaskInv'
  BY DEF Planned
<1> QED
  BY <1>1, <1>2, <1>3

-----------------------------------------------------------------------------
LEMMA InitInv == Init => GenInv
<1> SUFFICES ASSUME Init PROVE GenInv
  OBVIOUS
<1>1. ChainInv /\ LateEndsTask
  BY ChainInitInv DEF Init, LateEndsTask
<1>2. processed # None => Usable(processed)
  BY DEF Init, Acceptable, Processed, Usable
<1>3. TaskInv
  BY <1>2, PlanAttemptsAssumption, NoneAssumption
  DEF Init, TaskInv, TaskType, HasProcessing, Usable, StateIsNew, QueuedReadAsAdvised, Stages, States
<1> QED
  BY <1>1, <1>3 DEF GenInv

LEMMA RespondKeeps == GenInv /\ Respond /\ UNCHANGED taskVars => GenInv'
<1> SUFFICES ASSUME GenInv, Respond, UNCHANGED taskVars PROVE GenInv'
  OBVIOUS
<1> USE DEF GenInv, LateEndsTask
<1>1. late \in 0 .. 1
  BY DEF ChainInv, ChainType
<1>2. ChainInv' /\ LateEndsTask'
  <2>1. CASE Answer
    BY <1>1, <2>1, OtherChainSteps
  <2>2. ASSUME NEW e \in Errors, NoAnswer(e) PROVE ChainInv' /\ LateEndsTask'
    BY <2>2, NoAnswerKeeps
  <2> QED
    BY <2>1, <2>2 DEF Respond
<1> QED
  BY <1>2, TaskStutters

(* The steps of the task that end a call.                                   *)
LEMMA ReturnKeeps ==
  GenInv /\ (\/ ArticleFails \/ Translated \/ Analyzed \/ Materialized
             \/ PlanFails \/ PlanUnusable \/ Planned)
    => ChainInv' /\ LateEndsTask'
<1> SUFFICES ASSUME GenInv, \/ ArticleFails \/ Translated \/ Analyzed \/ Materialized
                            \/ PlanFails \/ PlanUnusable \/ Planned
             PROVE  ChainInv' /\ LateEndsTask'
  OBVIOUS
<1>1. Return
  BY DEF ArticleFails, Translated, Analyzed, Materialized, PlanFails, PlanUnusable, Planned, FallBack
<1>2. ChainInv' /\ UNCHANGED <<late, ended>>
  BY <1>1, OtherChainSteps DEF GenInv
<1>3. phase = "answered" \/ stage' \in Ended
  BY DEF ArticleFails, Translated, Analyzed, Materialized, PlanFails, PlanUnusable, Planned, FallBack, Ended
<1>4. stage \notin Ended
  BY DEF ArticleFails, Translated, Analyzed, Materialized, PlanFails, PlanUnusable, Planned, Ended
<1> QED
  BY <1>2, <1>3, <1>4 DEF GenInv, LateEndsTask

LEMMA StepKeeps == GenInv /\ [Next]_vars => GenInv'
<1> SUFFICES ASSUME GenInv, [Next]_vars PROVE GenInv'
  OBVIOUS
<1>1. late \in 0 .. 1
  BY DEF GenInv, ChainInv, ChainType
<1>2. CASE UNCHANGED vars
  <2>1. ChainInv' /\ LateEndsTask'
    BY <1>2
    DEF vars, chainVars, taskVars, GenInv, ChainInv, ChainType, Distinct, Tries, NothingUntried, LateEndsTask
  <2> QED
    BY <1>2, <2>1, TaskStutters DEF GenInv, vars
<1>3. CASE Begin
  <2>1. ChainInv' /\ LateEndsTask'
    BY <1>1, <1>3
    DEF Begin, chainVars, GenInv, ChainInv, ChainType, Distinct, Tries, NothingUntried, LateEndsTask, Ended
  <2> QED
    BY <1>3, <2>1, BeginKeeps DEF GenInv
<1>4. CASE AskModel
  <2>1. late = 0
    BY <1>1, <1>4 DEF AskModel, Ask, GenInv, LateEndsTask, Ended
  <2>2. ChainInv' /\ LateEndsTask'
    BY <1>4, <2>1, AskKeeps DEF AskModel, GenInv, LateEndsTask
  <2> QED
    BY <1>4, <2>2, TaskStutters DEF AskModel, GenInv
<1>5. CASE stage \notin Ended /\ End /\ UNCHANGED taskVars
  <2>1. ChainInv' /\ LateEndsTask'
    BY <1>5, OtherChainSteps DEF GenInv, LateEndsTask, taskVars
  <2> QED
    BY <1>5, <2>1, TaskStutters DEF GenInv
<1>6. CASE ArticleFails \/ Translated \/ Analyzed \/ Materialized \/ PlanFails \/ PlanUnusable \/ Planned
  <2>1. TaskInv'
    BY <1>6, AnalyzedKeeps, MaterializedKeeps, OtherTaskSteps DEF GenInv
  <2> QED
    BY <1>6, <2>1, ReturnKeeps DEF GenInv
<1> QED
  BY <1>2, <1>3, <1>4, <1>5, <1>6, RespondKeeps, Zenon DEF Next, Work

(* The inductive invariant of a task and its calls.                         *)
THEOREM GenInvAlways == Spec => []GenInv
BY InitInv, StepKeeps, PTL DEF Spec

(* The state of a task stays in its types.                                  *)
THEOREM TypeCorrect == Spec => []TypeOK
<1>1. GenInv => TypeOK
  BY DEF GenInv, ChainInv, TaskInv, ChainType, TaskType, TypeOK
<1> QED
  BY <1>1, GenInvAlways, PTL

(* generate of chatModelInvoker: whatever the chain, a call makes every     *)
(* request it may and none it may not.                                      *)
THEOREM TriedExactly == Spec => []TriesExactly
<1>1. GenInv => TriesExactly
  BY MaxTryAssumption
  DEF GenInv, ChainInv, ChainType, TriesExactly, TriesBounded, OneLateRequest
<1> QED
  BY <1>1, GenInvAlways, PTL

(* initialArticlePublishState after normalizePublishSuggestionValue: nothing *)
(* is queued without a review unless the settings say so, for all articles  *)
(* or for those whose advice has no listed word against publication.        *)
THEOREM OnlyReadAsAdvisedIsQueued == Spec => []QueuedReadAsAdvised
<1>1. GenInv => QueuedReadAsAdvised
  BY DEF GenInv, TaskInv
<1> QED
  BY <1>1, GenInvAlways, PTL

-----------------------------------------------------------------------------
(* The sections of a plan one after the other, and what they hold.          *)
IsFlat(f, ss) == f = [i \in 1 .. Len(ss) |-> IF i = 1 THEN ss[i] ELSE f[i - 1] \o ss[i]]

LEMMA FlatExists ==
  ASSUME NEW S, NEW ss \in Seq(Seq(S)), ss # <<>>
  PROVE  \E f : IsFlat(f, ss)
<1> DEFINE n == Len(ss)
<1>0. n \in Nat \ {0} /\ ss \in [1 .. n -> Seq(S)]
  OBVIOUS
<1> HIDE DEF n
<1> DEFINE Step(f, k) == \A i \in 1 .. k : f[i] = IF i = 1 THEN ss[i] ELSE f[i - 1] \o ss[i]
           Stuck == {k \in 1 .. n : ~ \E f \in [1 .. k -> Seq(S)] : Step(f, k)}
<1>1. ASSUME NEW k \in 1 .. n, \A m \in 1 .. k - 1 : m \notin Stuck
      PROVE  k \notin Stuck
  <2>1. CASE k = 1
    <3>1. [i \in 1 .. 1 |-> ss[1]] \in [1 .. 1 -> Seq(S)]
      OBVIOUS
    <3>2. Step([i \in 1 .. 1 |-> ss[1]], 1)
      OBVIOUS
    <3> HIDE DEF Step
    <3> QED
      BY <2>1, <3>1, <3>2
  <2>2. CASE k # 1
    <3>1. k - 1 \in 1 .. k - 1 /\ k - 1 \in 1 .. n
      BY <1>0, <2>2
    <3>2. PICK f \in [1 .. k - 1 -> Seq(S)] : Step(f, k - 1)
      BY <1>1, <3>1, Zenon
    <3> DEFINE g == [i \in 1 .. k |-> IF i = k THEN f[k - 1] \o ss[k] ELSE f[i]]
    <3>3. f[k - 1] \in Seq(S) /\ ss[k] \in Seq(S)
      BY <1>0, <3>1
    <3>4. f[k - 1] \o ss[k] \in Seq(S)
      BY <3>3
    <3>5. g \in [1 .. k -> Seq(S)]
      BY <3>4
    <3>6. Step(g, k)
      <4> SUFFICES ASSUME NEW i \in 1 .. k
                   PROVE  g[i] = IF i = 1 THEN ss[i] ELSE g[i - 1] \o ss[i]
        OBVIOUS
      <4>1. CASE i = k
        <5>1. g[i] = f[k - 1] \o ss[k] /\ g[k - 1] = f[k - 1]
          BY <1>0, <3>1, <4>1
        <5> HIDE DEF g
        <5> QED
          BY <2>2, <4>1, <5>1
      <4>2. CASE i # k
        <5>1. i \in 1 .. k - 1 /\ g[i] = f[i] /\ (i # 1 => g[i - 1] = f[i - 1])
          BY <4>2
        <5> HIDE DEF g
        <5> QED
          BY <3>2, <5>1
      <4> QED
        BY <4>1, <4>2
    <3> HIDE DEF g, Step
    <3> QED
      BY <3>5, <3>6
  <2> QED
    BY <2>1, <2>2
<1>2. Stuck = {}
  <2>1. SUFFICES ASSUME Stuck # {} PROVE FALSE
    OBVIOUS
  <2>2. Stuck \subseteq 1 .. n /\ Stuck \subseteq Nat
    BY <1>0
  <2> HIDE DEF Stuck
  <2>3. PICK k \in Stuck : \A m \in Stuck : k <= m
    BY <2>1, <2>2, Least
  <2> QED
    BY <1>1, <2>2, <2>3
<1>3. n \in 1 .. n
  BY <1>0
<1>4. PICK f \in [1 .. n -> Seq(S)] : Step(f, n)
  <2> HIDE DEF Step
  <2> QED
    BY <1>0, <1>2, <1>3
<1>5. f = [i \in 1 .. n |-> IF i = 1 THEN ss[i] ELSE f[i - 1] \o ss[i]]
  BY <1>4
<1> QED
  BY <1>5 DEF n, IsFlat

LEMMA FlattenIs ==
  ASSUME NEW S, NEW ss \in Seq(Seq(S)), ss # <<>>
  PROVE  \E f : IsFlat(f, ss) /\ FlattenSeq(ss) = f[Len(ss)]
<1> DEFINE f == CHOOSE f : IsFlat(f, ss)
<1>1. IsFlat(f, ss)
  BY FlatExists, Zenon
<1>2. Len(ss) # 0
  OBVIOUS
<1>3. FlattenSeq(ss) = f[Len(ss)]
  BY <1>2, Zenon DEF FlattenSeq, IsFlat
<1> HIDE DEF f
<1> QED
  BY <1>1, <1>3

LEMMA FlattenType ==
  ASSUME NEW S, NEW ss \in Seq(Seq(S)), ss # <<>>
  PROVE  FlattenSeq(ss) \in Seq(S)
<1>1. Len(ss) \in Nat \ {0} /\ ss \in [1 .. Len(ss) -> Seq(S)]
  OBVIOUS
<1>2. PICK f : IsFlat(f, ss) /\ FlattenSeq(ss) = f[Len(ss)]
  BY FlattenIs
<1> DEFINE Bad == {i \in 1 .. Len(ss) : f[i] \notin Seq(S)}
<1>3. ASSUME NEW i \in 1 .. Len(ss), i # 1 => f[i - 1] \in Seq(S) PROVE f[i] \in Seq(S)
  <2>1. CASE i = 1
    BY <1>1, <1>2, <2>1 DEF IsFlat
  <2>2. CASE i # 1
    <3>1. f[i] = f[i - 1] \o ss[i] /\ ss[i] \in Seq(S)
      BY <1>1, <1>2, <2>2 DEF IsFlat
    <3>2. f[i - 1] \in Seq(S)
      BY <1>3, <2>2
    <3> QED
      BY <3>1, <3>2
  <2> QED
    BY <2>1, <2>2
<1>4. Bad = {}
  <2>1. SUFFICES ASSUME Bad # {} PROVE FALSE
    OBVIOUS
  <2>2. Bad \subseteq 1 .. Len(ss) /\ Bad \subseteq Nat
    BY <1>1
  <2>3. \A i \in 1 .. Len(ss) : i \in Bad <=> f[i] \notin Seq(S)
    OBVIOUS
  <2> HIDE DEF Bad
  <2>4. PICK i \in Bad : \A m \in Bad : i <= m
    BY <2>1, <2>2, Least
  <2>5. i \in 1 .. Len(ss) /\ (i # 1 => i - 1 \in 1 .. Len(ss) /\ i - 1 \notin Bad)
    BY <1>1, <2>2, <2>4
  <2> QED
    BY <1>3, <2>3, <2>4, <2>5
<1> QED
  BY <1>1, <1>2, <1>4

(* One section, or two.                                                     *)
LEMMA FlattenFew ==
  ASSUME NEW S, NEW a \in Seq(S), NEW b \in Seq(S)
  PROVE  FlattenSeq(<<a>>) = a /\ FlattenSeq(<<a, b>>) = a \o b
<1>2. FlattenSeq(<<a>>) = a
  <2> DEFINE ss == <<a>>
  <2>1. ss \in Seq(Seq(S)) /\ ss # <<>> /\ Len(ss) = 1 /\ ss[1] = a
    OBVIOUS
  <2> HIDE DEF ss
  <2>2. PICK f : IsFlat(f, ss) /\ FlattenSeq(ss) = f[Len(ss)]
    BY <2>1, FlattenIs
  <2>3. FlattenSeq(ss) = a
    BY <2>1, <2>2 DEF IsFlat
  <2> QED
    BY <2>3 DEF ss
<1>3. FlattenSeq(<<a, b>>) = a \o b
  <2> DEFINE ss == <<a, b>>
  <2>1. ss \in Seq(Seq(S)) /\ ss # <<>> /\ Len(ss) = 2 /\ ss[1] = a /\ ss[2] = b
    OBVIOUS
  <2> HIDE DEF ss
  <2>2. PICK f : IsFlat(f, ss) /\ FlattenSeq(ss) = f[Len(ss)]
    BY <2>1, FlattenIs
  <2>3. f = [i \in 1 .. 2 |-> IF i = 1 THEN ss[i] ELSE f[i - 1] \o ss[i]]
    BY <2>1, <2>2 DEF IsFlat
  <2>5. f[1] = a /\ f[2] = f[1] \o b
    <3>1. \A i \in 1 .. 2 : f[i] = IF i = 1 THEN ss[i] ELSE f[i - 1] \o ss[i]
      BY <2>3, Zenon
    <3>2. 1 \in 1 .. 2 /\ 2 \in 1 .. 2 /\ 2 # 1 /\ 2 - 1 = 1
      OBVIOUS
    <3>3. f[1] = IF 1 = 1 THEN ss[1] ELSE f[1 - 1] \o ss[1]
      BY <3>1, <3>2, Zenon
    <3>4. f[2] = IF 2 = 1 THEN ss[2] ELSE f[2 - 1] \o ss[2]
      BY <3>1, <3>2, Zenon
    <3>5. f[1] = ss[1] /\ f[2] = f[1] \o ss[2]
      BY <3>2, <3>3, <3>4, Zenon
    <3> QED
      BY <2>1, <3>5, Zenon
  <2>4. FlattenSeq(ss) = a \o b
    BY <2>1, <2>2, <2>5
  <2> QED
    BY <2>4 DEF ss
<1> QED
  BY <1>2, <1>3

(* In a finite set in total order every place has one element.              *)
PlaceIn(E, R, e) == Cardinality({f \in E : <<f, e>> \in R}) + 1

LEMMA PlacesFill ==
  ASSUME NEW E, IsFiniteSet(E), NEW R,
         \A e \in E : <<e, e>> \notin R,
         \A e, f, g \in E : <<e, f>> \in R /\ <<f, g>> \in R => <<e, g>> \in R,
         \A e, f \in E : e # f => <<e, f>> \in R \/ <<f, e>> \in R
  PROVE  /\ \A e \in E : PlaceIn(E, R, e) \in 1 .. Cardinality(E)
         /\ \A e, f \in E : <<e, f>> \in R => PlaceIn(E, R, e) < PlaceIn(E, R, f)
         /\ \A k \in 1 .. Cardinality(E) : \E e \in E : PlaceIn(E, R, e) = k
<1> DEFINE Under(e) == {f \in E : <<f, e>> \in R}
           n == Cardinality(E)
           place == [e \in E |-> PlaceIn(E, R, e)]
<1>1. n \in Nat
  BY FS_CardinalityType
<1>2. ASSUME NEW e \in E PROVE IsFiniteSet(Under(e)) /\ Cardinality(Under(e)) \in Nat
  BY FS_Subset, FS_CardinalityType
<1>3. ASSUME NEW e \in E PROVE PlaceIn(E, R, e) \in 1 .. n
  <2>1. Under(e) \subseteq E /\ Under(e) # E
    OBVIOUS
  <2>2. Cardinality(Under(e)) <= n /\ (Cardinality(Under(e)) = n => Under(e) = E)
    BY <2>1, FS_Subset
  <2>3. PlaceIn(E, R, e) = Cardinality(Under(e)) + 1
    BY DEF PlaceIn
  <2> HIDE DEF Under
  <2> QED
    BY <1>1, <1>2, <2>1, <2>2, <2>3
<1>4. ASSUME NEW e \in E, NEW f \in E, <<e, f>> \in R
      PROVE  PlaceIn(E, R, e) < PlaceIn(E, R, f)
  <2>1. Under(e) \subseteq Under(f) /\ e \in Under(f) /\ e \notin Under(e)
    BY <1>4
  <2>2. IsFiniteSet(Under(f))
    BY <1>2
  <2>3. /\ Cardinality(Under(e)) <= Cardinality(Under(f))
        /\ Cardinality(Under(e)) # Cardinality(Under(f))
    BY <2>1, <2>2, FS_Subset
  <2>4. Cardinality(Under(e)) \in Nat /\ Cardinality(Under(f)) \in Nat
    BY <1>2
  <2> QED
    BY <2>3, <2>4 DEF PlaceIn
<1>5. place \in Injection(E, 1 .. n)
  <2>1. place \in [E -> 1 .. n]
    BY <1>3
  <2>2. ASSUME NEW e \in E, NEW f \in E, place[e] = place[f] PROVE e = f
    <3>1. PlaceIn(E, R, e) \in Nat /\ PlaceIn(E, R, f) \in Nat
      BY <1>3
    <3>2. ~(PlaceIn(E, R, e) < PlaceIn(E, R, f)) /\ ~(PlaceIn(E, R, f) < PlaceIn(E, R, e))
      BY <2>2, <3>1
    <3> QED
      BY <1>4, <3>2
  <2> HIDE DEF place
  <2> QED
    BY <2>1, <2>2 DEF Injection, IsInjective
<1>6. IsFiniteSet(1 .. n) /\ Cardinality(1 .. n) = n
  BY <1>1, FS_Interval
<1>7. place \in Surjection(E, 1 .. n)
  BY <1>5, <1>6, FS_Injection
<1>8. ASSUME NEW k \in 1 .. n PROVE \E e \in E : PlaceIn(E, R, e) = k
  BY <1>7 DEF Surjection
<1> QED
  BY <1>3, <1>4, <1>8

(* A candidate has numbers to be compared by.                               *)
Comparable(c) == c.score \in Int /\ c.priority \in Int /\ c.title \in Int

(* Precedes orders the entries, the score first of all.                     *)
LEMMA InOrder ==
  /\ \A e : ~Precedes(e, e) \/ ~Comparable(e[2]) \/ e[1] \notin Int
  /\ \A e, f : /\ e[1] \in Int /\ f[1] \in Int /\ Comparable(e[2]) /\ Comparable(f[2])
             => /\ Precedes(e, f) => e[2].score >= f[2].score
                /\ e[1] # f[1] => Precedes(e, f) \/ Precedes(f, e)
  /\ \A e, f, g : /\ e[1] \in Int /\ f[1] \in Int /\ g[1] \in Int
                 /\ Comparable(e[2]) /\ Comparable(f[2]) /\ Comparable(g[2])
                => (Precedes(e, f) /\ Precedes(f, g) => Precedes(e, g))
<1> DEFINE Lex(e, f) ==
      \/ e[2].score > f[2].score
      \/ e[2].score = f[2].score /\ e[2].priority > f[2].priority
      \/ e[2].score = f[2].score /\ e[2].priority = f[2].priority /\ e[2].title < f[2].title
      \/ /\ e[2].score = f[2].score /\ e[2].priority = f[2].priority /\ e[2].title = f[2].title
         /\ e[1] < f[1]
<1>1. ASSUME NEW e, NEW f, e[1] \in Int, f[1] \in Int, Comparable(e[2]), Comparable(f[2])
      PROVE  Precedes(e, f) <=> Lex(e, f)
  BY <1>1 DEF Precedes, Before, Comparable
<1>2. ASSUME NEW e, NEW f, NEW g, e[1] \in Int, f[1] \in Int, g[1] \in Int,
             Comparable(e[2]), Comparable(f[2]), Comparable(g[2]), Lex(e, f), Lex(f, g)
      PROVE  Lex(e, g)
  BY <1>2 DEF Comparable
<1>3. ASSUME NEW e, NEW f, e[1] \in Int, f[1] \in Int, Comparable(e[2]), Comparable(f[2])
      PROVE  /\ ~Lex(e, e)
             /\ Lex(e, f) => e[2].score >= f[2].score
             /\ e[1] # f[1] => Lex(e, f) \/ Lex(f, e)
  BY <1>3 DEF Comparable
<1> HIDE DEF Lex
<1> QED
  BY <1>1, <1>2, <1>3

LEMMA SortedIs ==
  ASSUME NEW n \in Nat, NEW cs, DOMAIN cs = 1 .. n, \A i \in 1 .. n : Comparable(cs[i])
  PROVE  /\ DOMAIN Sorted(cs) = 1 .. n
         /\ \E p \in [1 .. n -> 1 .. n] :
              /\ \A k \in 1 .. n : Sorted(cs)[k] = cs[p[k]]
              /\ \A i \in 1 .. n : \E k \in 1 .. n : p[k] = i
              /\ \A j, k \in 1 .. n : j < k => cs[p[j]].score >= cs[p[k]].score
<1> DEFINE E == {<<i, cs[i]>> : i \in DOMAIN cs}
           R == {q \in E \X E : Precedes(q[1], q[2])}
           Place(e) == Cardinality({f \in E : Precedes(f, e)}) + 1
           At(k) == CHOOSE e \in E : Place(e) = k
           p == [k \in 1 .. n |-> At(k)[1]]
<1>1. Sorted(cs) = [k \in 1 .. n |-> At(k)[2]]
  <2>1. Sorted(cs) = [k \in DOMAIN cs |-> At(k)[2]]
    BY DEF Sorted
  <2> HIDE DEF At
  <2> QED
    BY <2>1
<1>2. \A e \in E : e[1] \in 1 .. n /\ e[2] = cs[e[1]] /\ Comparable(e[2]) /\ e = <<e[1], e[2]>>
  OBVIOUS
<1>3. IsFiniteSet(E) /\ Cardinality(E) = n
  <2> DEFINE g == [i \in 1 .. n |-> <<i, cs[i]>>]
  <2>1. IsFiniteSet(1 .. n) /\ Cardinality(1 .. n) = n
    BY FS_Interval
  <2>2. g \in Bijection(1 .. n, E)
    BY DEF Bijection, Injection, Surjection, IsInjective
  <2>3. ExistsBijection(1 .. n, E)
    BY <2>2 DEF ExistsBijection
  <2> QED
    BY <2>1, <2>3, FS_Bijection
<1>4. \A e, f \in E : <<e, f>> \in R <=> Precedes(e, f)
  OBVIOUS
<1>5. ASSUME NEW e \in E PROVE Place(e) = PlaceIn(E, R, e)
  <2>1. {f \in E : Precedes(f, e)} = {f \in E : <<f, e>> \in R}
    BY <1>4
  <2> QED
    BY <2>1 DEF PlaceIn
<1> HIDE DEF E, R
<1>6. /\ \A e \in E : ~Precedes(e, e)
      /\ \A e, f, g \in E : Precedes(e, f) /\ Precedes(f, g) => Precedes(e, g)
      /\ \A e, f \in E : Precedes(e, f) => e[2].score >= f[2].score
  BY <1>2, InOrder
<1>8. ASSUME NEW e \in E, NEW f \in E, e # f PROVE Precedes(e, f) \/ Precedes(f, e)
  <2>1. e[1] # f[1]
    BY <1>2, <1>8
  <2> QED
    BY <1>2, <2>1, InOrder
<1>9. /\ \A e, f \in E : <<e, f>> \in R => PlaceIn(E, R, e) < PlaceIn(E, R, f)
      /\ \A e \in E : PlaceIn(E, R, e) \in 1 .. n
      /\ \A k \in 1 .. n : \E e \in E : PlaceIn(E, R, e) = k
  BY <1>3, <1>4, <1>6, <1>8, PlacesFill
<1>14. /\ \A e, f \in E : Precedes(e, f) => Place(e) < Place(f)
       /\ \A e \in E : Place(e) \in 1 .. n
  BY <1>4, <1>5, <1>9
<1> HIDE DEF Place
<1>10. ASSUME NEW k \in 1 .. n PROVE At(k) \in E /\ Place(At(k)) = k
  BY <1>5, <1>9
<1> HIDE DEF At
<1>11. p \in [1 .. n -> 1 .. n] /\ \A k \in 1 .. n : Sorted(cs)[k] = cs[p[k]]
  BY <1>1, <1>2, <1>10
<1>12. ASSUME NEW i \in 1 .. n PROVE \E k \in 1 .. n : p[k] = i
  <2>1. <<i, cs[i]>> \in E
    BY DEF E
  <2>2. Place(<<i, cs[i]>>) \in 1 .. n
    BY <1>5, <1>9, <2>1
  <2>3. PICK k \in 1 .. n : k = Place(<<i, cs[i]>>)
    BY <2>2
  <2>4. ~Precedes(At(k), <<i, cs[i]>>) /\ ~Precedes(<<i, cs[i]>>, At(k))
    BY <1>10, <1>14, <2>1, <2>3
  <2>5. At(k) = <<i, cs[i]>>
    BY <1>8, <1>10, <2>1, <2>4
  <2> QED
    BY <2>5
<1>13. ASSUME NEW j \in 1 .. n, NEW k \in 1 .. n, j < k
       PROVE  cs[p[j]].score >= cs[p[k]].score
  <2>1. ~Precedes(At(k), At(j)) /\ At(j) # At(k)
    BY <1>10, <1>13, <1>14
  <2>2. Precedes(At(j), At(k))
    BY <1>8, <1>10, <2>1
  <2>3. At(j)[2].score >= At(k)[2].score
    BY <1>6, <1>10, <2>2
  <2> QED
    BY <1>2, <1>10, <2>3
<1> QED
  <2>1. DOMAIN Sorted(cs) = 1 .. n
    BY <1>1
  <2> HIDE DEF p
  <2> QED
    BY <1>11, <1>12, <1>13, <2>1

-----------------------------------------------------------------------------
(* fallbackPlan renders the candidates in their order, wherever it cuts.    *)
LEMMA FallbackShown ==
  ASSUME NEW n \in Nat \ {0}, NEW cs, DOMAIN cs = 1 .. n, \A i \in 1 .. n : Comparable(cs[i])
  PROVE  Shown(Fallback(cs)) = [k \in 1 .. n |-> FallbackItem(Sorted(cs)[k], k = 1)]
<1> DEFINE sorted == Sorted(cs)
           items  == [k \in DOMAIN sorted |-> FallbackItem(sorted[k], k = 1)]
           S      == {items[k] : k \in 1 .. n}
<1>1. DOMAIN sorted = 1 .. n
  BY SortedIs
<1>2. items = [k \in 1 .. n |-> FallbackItem(Sorted(cs)[k], k = 1)]
  BY <1>1
<1>3. items \in Seq(S) /\ Len(items) = n
  BY <1>1
<1>4. Fallback(cs) =
        IF Len(items) <= Featured THEN <<[name |-> "first", items |-> items]>>
        ELSE <<[name |-> "first", items |-> SubSeq(items, 1, Featured)],
               [name |-> "more",  items |-> SubSeq(items, Featured + 1, Len(items))]>>
  BY DEF Fallback
<1> HIDE DEF items, S
<1>5. CASE n <= Featured
  <2>1. Shown(Fallback(cs)) = FlattenSeq(<<items>>)
    <3> DEFINE plan0 == <<[name |-> "first", items |-> items]>>
    <3>1. Fallback(cs) = plan0
      BY <1>3, <1>4, <1>5
    <3>2. [s \in DOMAIN plan0 |-> plan0[s].items] = <<items>>
      OBVIOUS
    <3> HIDE DEF plan0
    <3> QED
      BY <3>1, <3>2 DEF Shown
  <2> QED
    BY <1>2, <1>3, <2>1, FlattenFew
<1>6. CASE ~(n <= Featured)
  <2> DEFINE a == SubSeq(items, 1, Featured)
             b == SubSeq(items, Featured + 1, n)
  <2>1. a \in Seq(S) /\ b \in Seq(S) /\ a \o b = items
    BY <1>3, <1>6, FeaturedAssumption
  <2> HIDE DEF a, b
  <2>2. Shown(Fallback(cs)) = FlattenSeq(<<a, b>>)
    <3> DEFINE plan0 == <<[name |-> "first", items |-> a], [name |-> "more", items |-> b]>>
    <3>1. Fallback(cs) = plan0
      BY <1>3, <1>4, <1>6 DEF a, b
    <3>2. [s \in DOMAIN plan0 |-> plan0[s].items] = <<a, b>>
      OBVIOUS
    <3> HIDE DEF plan0
    <3> QED
      BY <3>1, <3>2 DEF Shown
  <2>3. FlattenSeq(<<a, b>>) = a \o b
    BY <2>1, FlattenFew
  <2> QED
    BY <1>2, <2>1, <2>2, <2>3
<1> QED
  BY <1>5, <1>6

(* preserveCandidateTrace: every item names a candidate by both its ids.    *)
Traces(item, cs) ==
  /\ item.title # Blank /\ item.bucket # Blank
  /\ \E c \in ToSet(cs) : item.article = c.article /\ item.dossier = c.dossier

LEMMA TracedItem ==
  ASSUME NEW item, NEW cs, DOMAIN item = ItemFields, item.title # Blank, Resolved(item, cs) # {}
  PROVE  Traces(TraceItem(item, cs), cs)
<1> DEFINE c == CHOOSE c \in Resolved(item, cs) : TRUE
<1>1. c \in Resolved(item, cs)
  OBVIOUS
<1>2. c \in DOMAIN cs
  BY <1>1 DEF Resolved, ByArticle, ByDossier
<1>3. TraceItem(item, cs) =
        [item EXCEPT !.article = cs[c].article, !.dossier = cs[c].dossier, !.bucket = Normal(@)]
  BY DEF TraceItem
<1> HIDE DEF c
<1>4. Normal(item.bucket) # Blank
  BY BlankAssumption DEF Normal
<1>5. cs[c] \in ToSet(cs)
  BY <1>2 DEF ToSet
<1> QED
  BY <1>3, <1>4, <1>5 DEF Traces, ItemFields

LEMMA TracedShown ==
  ASSUME NEW p \in Plans, NEW cs, Valid(p), Traceable(p, cs)
  PROVE  \A item \in ToSet(Shown(Traced(p, cs))) : Traces(item, cs)
<1> DEFINE Of(s) == {TraceItem(p[s].items[i], cs) : i \in DOMAIN p[s].items}
           S  == UNION {Of(s) : s \in DOMAIN p}
           ss == [s \in DOMAIN Traced(p, cs) |-> Traced(p, cs)[s].items]
<1>1. p \in Seq(ToSet(p)) /\ p # <<>> /\ Len(p) \in Nat /\ DOMAIN p = 1 .. Len(p)
  BY PlansAssumption DEF Valid
<1>2. ASSUME NEW s \in DOMAIN p
      PROVE  /\ DOMAIN p[s] = {"name", "items"}
             /\ p[s].items \in Seq(ToSet(p[s].items))
             /\ Len(p[s].items) \in Nat /\ DOMAIN p[s].items = 1 .. Len(p[s].items)
  BY PlansAssumption
<1>3. ASSUME NEW s \in DOMAIN p, NEW i \in DOMAIN p[s].items
      PROVE  /\ Traces(TraceItem(p[s].items[i], cs), cs)
             /\ TraceItem(p[s].items[i], cs) \in S
  <2>1. DOMAIN p[s].items[i] = ItemFields
    BY PlansAssumption
  <2>2. p[s].items[i].title # Blank /\ Resolved(p[s].items[i], cs) # {}
    BY DEF Valid, Traceable
  <2>3. TraceItem(p[s].items[i], cs) \in Of(s)
    OBVIOUS
  <2>4. Of(s) \in {Of(t) : t \in DOMAIN p}
    OBVIOUS
  <2> HIDE DEF Of
  <2> QED
    BY <2>1, <2>2, <2>3, <2>4, TracedItem
<1>4. \A item \in S : Traces(item, cs)
  <2>1. \A item \in S : \E s \in DOMAIN p : item \in Of(s)
    <3> HIDE DEF Of
    <3> QED
      OBVIOUS
  <2> HIDE DEF S
  <2> QED
    BY <1>3, <2>1
<1> HIDE DEF S
<1>5. DOMAIN Traced(p, cs) = 1 .. Len(p)
  BY <1>1 DEF Traced
<1>6. ASSUME NEW s \in 1 .. Len(p) PROVE ss[s] \in Seq(S)
  <2>1. s \in DOMAIN p /\ ss[s] = Traced(p, cs)[s].items
    BY <1>1, <1>5
  <2>2. Traced(p, cs)[s].items = [i \in DOMAIN p[s].items |-> TraceItem(p[s].items[i], cs)]
    BY <1>2, <2>1 DEF Traced
  <2> HIDE DEF ss
  <2> QED
    BY <1>2, <1>3, <2>1, <2>2
<1>7. ss \in Seq(Seq(S)) /\ ss # <<>>
  BY <1>1, <1>5, <1>6
<1>8. Shown(Traced(p, cs)) = FlattenSeq(ss)
  BY DEF Shown
<1> HIDE DEF ss
<1>9. Shown(Traced(p, cs)) \in Seq(S)
  BY <1>7, <1>8, FlattenType
<1> QED
  BY <1>4, <1>9 DEF ToSet

-----------------------------------------------------------------------------
(* What the digest is made of.                                              *)
HasDossier ==
  stage \in {"plan", "digest"} =>
    Usable(processed) /\ dossier.score \in Int /\ dossier.priority \in Int

NoDraftYet == stage \notin Ended => draft = None

PlanMade ==
  stage = "digest" =>
    \/ draft = None /\ plan = Fallback(Candidates)
    \/ /\ draft \in Plans /\ Valid(draft) /\ Traceable(draft, Candidates)
       /\ plan = Traced(draft, Candidates)

PlanInv == others \in Others /\ HasDossier /\ NoDraftYet /\ PlanMade

LEMMA CandidatesAre ==
  ASSUME PlanInv, stage = "digest"
  PROVE  /\ Len(Candidates) \in Nat \ {0} /\ DOMAIN Candidates = 1 .. Len(Candidates)
         /\ \A i \in 1 .. Len(Candidates) : Comparable(Candidates[i])
         /\ \A i, j \in 1 .. Len(Candidates) :
              Candidates[i].dossier = Candidates[j].dossier => i = j
<1>0. /\ others \in Others /\ processed.score \in Int
      /\ dossier.score \in Int /\ dossier.priority \in Int
  BY DEF PlanInv, HasDossier, Usable
<1> DEFINE c == CandidateOf(dossier)
<1>1. Comparable(c) /\ c.dossier = "d"
  BY <1>0 DEF CandidateOf, Comparable
<1> HIDE DEF c
<1>2. others \in Seq(ToSet(others)) /\ Len(others) \in Nat /\ DOMAIN others = 1 .. Len(others)
  BY <1>0, OthersAssumption
<1>3. \A i \in 1 .. Len(others) : Comparable(others[i]) /\ others[i].dossier # "d"
  BY <1>0, <1>2, OthersAssumption DEF Comparable
<1>4. \A i, j \in 1 .. Len(others) : others[i].dossier = others[j].dossier => i = j
  BY <1>0, <1>2, OthersAssumption
<1>5. Candidates = <<c>> \o others
  BY DEF Candidates, c
<1>6. /\ Len(Candidates) = Len(others) + 1 /\ DOMAIN Candidates = 1 .. Len(others) + 1
      /\ Candidates[1] = c
      /\ \A i \in 2 .. Len(others) + 1 : Candidates[i] = others[i - 1]
  <2> DEFINE S == {c} \cup ToSet(others)
  <2>1. <<c>> \in Seq(S) /\ others \in Seq(S)
    BY <1>2
  <2> HIDE DEF S
  <2> QED
    BY <1>2, <1>5, <2>1
<1>7. \A i \in 2 .. Len(others) + 1 : i - 1 \in 1 .. Len(others)
  BY <1>2
<1> HIDE <1>5
<1>8. \A i \in 1 .. Len(others) + 1 : Comparable(Candidates[i])
  BY <1>1, <1>2, <1>3, <1>6
<1>9. ASSUME NEW i \in 1 .. Len(others) + 1, NEW j \in 1 .. Len(others) + 1,
             Candidates[i].dossier = Candidates[j].dossier
      PROVE  i = j
  <2>1. CASE i = 1 /\ j = 1
    BY <2>1
  <2>2. CASE i # 1 /\ j # 1
    BY <1>2, <1>4, <1>6, <1>7, <1>9, <2>2
  <2>3. CASE i = 1 /\ j # 1
    BY <1>1, <1>2, <1>3, <1>6, <1>7, <1>9, <2>3
  <2>4. CASE i # 1 /\ j = 1
    BY <1>1, <1>2, <1>3, <1>6, <1>7, <1>9, <2>4
  <2> QED
    BY <2>1, <2>2, <2>3, <2>4
<1> QED
  BY <1>2, <1>6, <1>8, <1>9

LEMMA InitPlanInv == Init => PlanInv
BY DEF Init, PlanInv, HasDossier, NoDraftYet, PlanMade

LEMMA PlanInvStep == GenInv /\ PlanInv /\ [Next]_vars => PlanInv'
<1> SUFFICES ASSUME GenInv, PlanInv, [Next]_vars PROVE PlanInv'
  OBVIOUS
<1> USE DEF PlanInv
<1>1. CASE UNCHANGED taskVars
  BY <1>1 DEF taskVars, HasDossier, Usable, NoDraftYet, PlanMade, Candidates, CandidateOf
<1>2. CASE Begin \/ ArticleFails \/ Translated
  BY <1>2 DEF Begin, ArticleFails, Translated, HasDossier, NoDraftYet, PlanMade, Ended
<1>3. CASE Analyzed
  BY <1>3 DEF Analyzed, HasDossier, NoDraftYet, PlanMade, Ended
<1>4. CASE Materialized
  <2>1. PICK d \in Dossiers : dossier' = Filled(d, processed)
    BY <1>4 DEF Materialized
  <2>2. Usable(processed)
    BY <1>4 DEF Materialized, GenInv, TaskInv, HasProcessing
  <2>3. dossier'.score \in Int /\ dossier'.priority \in Int
    BY <2>1, <2>2, DossiersAssumption DEF Filled, Or, Scaled, Usable
  <2>4. /\ UNCHANGED <<others, processed, draft>> /\ stage' \in {"plan", "failed"}
        /\ stage = "dossier"
    BY <1>4 DEF Materialized
  <2> QED
    BY <2>2, <2>3, <2>4 DEF HasDossier, Usable, NoDraftYet, PlanMade, Ended
<1>5. CASE PlanFails \/ PlanUnusable
  <2>1. UNCHANGED <<others, processed, dossier, draft>> /\ stage = "plan" /\ Candidates' = Candidates
    BY <1>5 DEF PlanFails, PlanUnusable, FallBack, Candidates, CandidateOf
  <2>2. (stage' = "digest" /\ plan' = Fallback(Candidates)) \/ stage' = "plan"
    BY <1>5 DEF PlanFails, PlanUnusable, FallBack
  <2> QED
    BY <2>1, <2>2 DEF HasDossier, Usable, NoDraftYet, PlanMade, Ended
<1>6. CASE Planned
  <2>1. UNCHANGED <<others, processed, dossier>> /\ stage = "plan" /\ Candidates' = Candidates
    BY <1>6 DEF Planned, Candidates, CandidateOf
  <2>2. PICK p \in Plans :
          /\ Valid(p) /\ draft' = p
          /\ IF Traceable(p, Candidates)
             THEN stage' = "digest" /\ plan' = Traced(p, Candidates)
             ELSE stage' = "failed" /\ UNCHANGED plan
    BY <1>6 DEF Planned
  <2> QED
    BY <2>1, <2>2 DEF HasDossier, Usable, NoDraftYet, PlanMade, Ended
<1>7. [Next]_vars =>
        \/ UNCHANGED taskVars \/ Begin \/ ArticleFails \/ Translated \/ Analyzed \/ Materialized
        \/ PlanFails \/ PlanUnusable \/ Planned
  BY DEF Next, Work, AskModel, vars
<1> QED
  BY <1>1, <1>2, <1>3, <1>4, <1>5, <1>6, <1>7

THEOREM PlanInvAlways == Spec => [](GenInv /\ PlanInv)
BY InitPlanInv, PlanInvStep, GenInvAlways, PTL DEF Spec

(* What the fallback shows of the candidates.                               *)
LEMMA FallbackShows ==
  ASSUME PlanInv, stage = "digest"
  PROVE  LET n == Len(Candidates)
             items == Shown(Fallback(Candidates))
         IN  /\ items = [k \in 1 .. n |-> FallbackItem(Sorted(Candidates)[k], k = 1)]
             /\ \E p \in [1 .. n -> 1 .. n] :
                  /\ \A k \in 1 .. n : Sorted(Candidates)[k] = Candidates[p[k]]
                  /\ \A i \in 1 .. n : \E k \in 1 .. n : p[k] = i
                  /\ \A j, k \in 1 .. n : j < k => Candidates[p[j]].score >= Candidates[p[k]].score
<1>2. /\ Len(Candidates) \in Nat \ {0} /\ DOMAIN Candidates = 1 .. Len(Candidates)
      /\ \A i \in 1 .. Len(Candidates) : Comparable(Candidates[i])
  BY CandidatesAre
<1> QED
  BY <1>2, FallbackShown, SortedIs, Zenon

(* toDigestPlan and preserveCandidateTrace: whatever the models answered,   *)
(* every item of the digest has a title and names one of its candidates by  *)
(* both ids.                                                                *)
THEOREM OnlyCandidatesShown == Spec => []ItemsTraced
<1>1. PlanInv => ItemsTraced
  <2> SUFFICES ASSUME PlanInv, stage = "digest"
               PROVE  \A item \in ToSet(Shown(plan)) : Traces(item, Candidates)
    BY DEF ItemsTraced, Traces
  <2>1. CASE draft \in Plans /\ Valid(draft) /\ Traceable(draft, Candidates)
             /\ plan = Traced(draft, Candidates)
    BY <2>1, TracedShown
  <2>2. CASE plan = Fallback(Candidates)
    <3> DEFINE n == Len(Candidates)
               items == Shown(Fallback(Candidates))
    <3>1. /\ items = [k \in 1 .. n |-> FallbackItem(Sorted(Candidates)[k], k = 1)]
          /\ \E p \in [1 .. n -> 1 .. n] :
               \A k \in 1 .. n : Sorted(Candidates)[k] = Candidates[p[k]]
      BY FallbackShows
    <3>2. DOMAIN Candidates = 1 .. n /\ \A i \in 1 .. n : Comparable(Candidates[i])
      BY CandidatesAre
    <3>3. PICK p \in [1 .. n -> 1 .. n] :
            \A k \in 1 .. n : Sorted(Candidates)[k] = Candidates[p[k]]
      BY <3>1
    <3>4. plan = Fallback(Candidates) /\ Shown(plan) = items
      BY <2>2
    <3> HIDE DEF items, n
    <3>5. ASSUME NEW k \in 1 .. n PROVE Traces(items[k], Candidates)
      <4>1. items[k] = FallbackItem(Candidates[p[k]], k = 1)
        BY <3>1, <3>3
      <4>2. Candidates[p[k]] \in ToSet(Candidates) /\ Comparable(Candidates[p[k]])
        BY <3>2, <3>3 DEF ToSet
      <4>3. "normal" # Blank /\ "featured" # Blank /\ Candidates[p[k]].title # Blank
        BY <4>2, BlankAssumption DEF Comparable
      <4> QED
        BY <4>1, <4>2, <4>3 DEF Traces, FallbackItem
    <3>6. DOMAIN items = 1 .. n
      BY <3>1
    <3> QED
      BY <3>4, <3>5, <3>6 DEF ToSet
  <2> QED
    BY <2>1, <2>2 DEF PlanInv, PlanMade
<1> QED
  BY <1>1, PlanInvAlways, PTL

(* fallbackPlan: the digest made without the model shows every candidate    *)
(* once, the more important ones first, and features exactly the first.     *)
THEOREM FallbackShowsAll == Spec => []FallbackComplete
<1>1. PlanInv => FallbackComplete
  <2> SUFFICES ASSUME PlanInv, stage = "digest", draft = None PROVE FallbackComplete
    BY DEF FallbackComplete
  <2> DEFINE n == Len(Candidates)
             items == Shown(plan)
             Score(i) == (CHOOSE c \in ToSet(Candidates) : c.dossier = items[i].dossier).score
  <2>1. plan = Fallback(Candidates)
    BY NoneAssumption DEF PlanInv, PlanMade
  <2>2. items = [k \in 1 .. n |-> FallbackItem(Sorted(Candidates)[k], k = 1)]
    BY <2>1, FallbackShows
  <2>3. PICK p \in [1 .. n -> 1 .. n] :
          /\ \A k \in 1 .. n : Sorted(Candidates)[k] = Candidates[p[k]]
          /\ \A i \in 1 .. n : \E k \in 1 .. n : p[k] = i
          /\ \A j, k \in 1 .. n : j < k => Candidates[p[j]].score >= Candidates[p[k]].score
    BY FallbackShows
  <2>4. /\ n \in Nat \ {0} /\ DOMAIN Candidates = 1 .. n
        /\ \A i, j \in 1 .. n : Candidates[i].dossier = Candidates[j].dossier => i = j
    BY CandidatesAre
  <2>5. ToSet(Candidates) = {Candidates[i] : i \in 1 .. n}
    BY <2>4 DEF ToSet
  <2> HIDE DEF n, items
  <2>6. Len(items) = n /\ DOMAIN items = 1 .. n
    BY <2>2, <2>4
  <2>7. ASSUME NEW k \in 1 .. n
        PROVE  /\ items[k].dossier = Candidates[p[k]].dossier
               /\ items[k].featured = (k = 1)
    BY <2>2, <2>3 DEF FallbackItem
  <2>8. {item.dossier : item \in ToSet(items)} = {c.dossier : c \in ToSet(Candidates)}
    <3>1. ToSet(items) = {items[k] : k \in 1 .. n}
      BY <2>6 DEF ToSet
    <3>2. ASSUME NEW k \in 1 .. n PROVE \E i \in 1 .. n : items[k].dossier = Candidates[i].dossier
      BY <2>3, <2>7
    <3>3. ASSUME NEW i \in 1 .. n PROVE \E k \in 1 .. n : items[k].dossier = Candidates[i].dossier
      BY <2>3, <2>7
    <3>4. {item.dossier : item \in ToSet(items)} = {items[k].dossier : k \in 1 .. n}
      BY <3>1
    <3>5. {c.dossier : c \in ToSet(Candidates)} = {Candidates[i].dossier : i \in 1 .. n}
      BY <2>5
    <3>6. {items[k].dossier : k \in 1 .. n} = {Candidates[i].dossier : i \in 1 .. n}
      <4> DEFINE Shows == {items[k].dossier : k \in 1 .. n}
                 Has   == {Candidates[i].dossier : i \in 1 .. n}
      <4>1. ASSUME NEW x \in Shows PROVE x \in Has
        <5>1. PICK k \in 1 .. n : x = items[k].dossier
          OBVIOUS
        <5>2. PICK i \in 1 .. n : items[k].dossier = Candidates[i].dossier
          BY <3>2
        <5> QED
          BY <5>1, <5>2
      <4>2. ASSUME NEW x \in Has PROVE x \in Shows
        <5>1. PICK i \in 1 .. n : x = Candidates[i].dossier
          OBVIOUS
        <5>2. PICK k \in 1 .. n : items[k].dossier = Candidates[i].dossier
          BY <3>3
        <5> QED
          BY <5>1, <5>2
      <4> QED
        BY <4>1, <4>2
    <3> QED
      BY <3>4, <3>5, <3>6, Zenon
  <2>9. ASSUME NEW k \in 1 .. n PROVE Score(k) = Candidates[p[k]].score
    <3>1. Candidates[p[k]] \in ToSet(Candidates)
      BY <2>3, <2>5
    <3>2. ASSUME NEW c \in ToSet(Candidates), c.dossier = items[k].dossier
          PROVE  c = Candidates[p[k]]
      <4>1. PICK i \in 1 .. n : c = Candidates[i]
        BY <2>5
      <4>2. p[k] \in 1 .. n /\ Candidates[i].dossier = Candidates[p[k]].dossier
        BY <2>3, <2>7, <3>2, <4>1
      <4> QED
        BY <2>4, <4>1, <4>2
    <3> QED
      BY <2>7, <3>1, <3>2
  <2> HIDE DEF Score
  <2>10. \A i, j \in 1 .. n : i < j => Score(i) >= Score(j)
    BY <2>3, <2>9
  <2>11. \A i \in 1 .. n : items[i].featured <=> i = 1
    BY <2>7
  <2> QED
    BY <2>6, <2>8, <2>10, <2>11 DEF FallbackComplete, Score, items, n
<1> QED
  BY <1>1, PlanInvAlways, PTL
=============================================================================
