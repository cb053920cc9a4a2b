----------------------------- MODULE ModelChain -----------------------------
(***************************************************************************)
(* chatModelInvoker of the worker (cmd/rss-worker): a prompt goes to the   *)
(* models of a chain, the configured one and its fallbacks, each of them   *)
(* up to MaxTry times, until one answers with valid JSON.                  *)
(*                                                                         *)
(* The context of the task may end at any time.  A request that begins     *)
(* after that fails with the error of the context; one that is under way   *)
(* may still be answered.                                                  *)
(***************************************************************************)
EXTENDS Naturals, Sequences, FiniteSets

CONSTANTS
  Models,       (* names of models                                         *)
  NoName,       (* a name that was left blank                              *)
  MaxTry,       (* maxChatGenerateTry                                      *)
  Settings      (* model and fallback models of the LLM profiles           *)

ASSUME ModelsAssumption == NoName \notin Models
ASSUME MaxTryAssumption == MaxTry \in Nat \ {0}
ASSUME SettingsAssumption ==
  Settings \subseteq [model : Models, fallbacks : Seq(Models \cup {NoName})]

VARIABLES
  chain,        (* models of the invoker                                   *)
  ended,        (* the context of the task is done                         *)
  phase,        (* idle, calling, answered or failed                       *)
  at,           (* position in the chain of the model that is asked        *)
  attempt,      (* how many times it was asked                             *)
  error,        (* class of the error returned                             *)
  asked,        (* requests of this call, by model                         *)
  late          (* requests of this task that began after its context ended *)

chainVars == <<chain, phase, at, attempt, error, asked, late>>

(* What a request can end in, by what the classifiers tell apart:           *)
(*   retriable  a 5xx, a reset, or a timeout of the client                  *)
(*   garbled    the response of the API is not the JSON it should be        *)
(*   empty      there is no message, or one without content                 *)
(*   invalid    the content is not valid JSON                               *)
(*   ended      the context was done                                        *)
(*   refused    anything else, such as a wrong key                          *)
Unusable == {"empty", "invalid"}
Errors   == {"retriable", "garbled", "ended", "refused"} \cup Unusable
Phases   == {"idle", "calling", "answered", "failed"}

(* normalizeLLMModelChain: the names in order, each of them once.           *)
ChainOf(s) ==
  LET names == <<s.model>> \o s.fallbacks
      first == {i \in DOMAIN names :
                  names[i] # NoName /\ \A j \in 1 .. i - 1 : names[j] # names[i]}
  IN  [k \in 1 .. Cardinality(first) |->
         names[CHOOSE i \in first : Cardinality(first \cap 1 .. i) = k]]

NotAsked == [m \in Models |-> 0]

ChainInit ==
  /\ \E s \in Settings : chain = ChainOf(s)
  /\ ended = FALSE
  /\ phase = "idle" /\ at = 1 /\ attempt = 1 /\ error = "none" /\ asked = NotAsked
  /\ late = 0

ShouldRetry(e) == e = "retriable" /\ ~ended

(* Mutant: only what can be retried falls back.                             *)
FallbackAsRetry(e) == ShouldRetry(e)

(* shouldFallbackChatGenerateError does not look at the context for errors  *)
(* in the content.                                                          *)
ShouldFallback(e) == ShouldRetry(e) \/ e \in {"garbled"} \cup Unusable

(* A request to the i-th model of the chain, its n-th.                      *)
Request(i, n, before) ==
  /\ phase' = "calling" /\ at' = i /\ attempt' = n
  /\ asked' = [before EXCEPT ![chain[i]] = @ + 1]
  /\ late' = IF ended THEN late + 1 ELSE late
  /\ UNCHANGED <<chain, ended, error>>

(* generate, called by the task.                                            *)
Ask == phase = "idle" /\ Request(1, 1, NotAsked)

(* A model answers with JSON.                                               *)
Answer ==
  /\ phase = "calling" /\ late = 0
  /\ phase' = "answered"
  /\ UNCHANGED <<chain, ended, at, attempt, error, asked, late>>

Retried(e) == attempt < MaxTry /\ (ShouldRetry(e) \/ e \in Unusable)

Retry(e) == Retried(e) /\ Request(at, attempt + 1, asked)

NextModel(e) ==
  /\ ~Retried(e) /\ at < Len(chain) /\ ShouldFallback(e)
  /\ Request(at + 1, 1, asked)

GiveUp(e) ==
  /\ ~Retried(e) /\ ~(at < Len(chain) /\ ShouldFallback(e))
  /\ phase' = "failed" /\ error' = e
  /\ UNCHANGED <<chain, ended, at, attempt, asked, late>>

(* A request ends without a usable answer.                                  *)
NoAnswer(e) ==
  /\ phase = "calling"
  /\ late > 0 => e = "ended"
  /\ e = "ended" => ended
  /\ Retry(e) \/ NextModel(e) \/ GiveUp(e)

(* The deadline of the task, or its cancellation.                           *)
End == ~ended /\ ended' = TRUE /\ UNCHANGED chainVars

(* The task goes on with the answer or the error.                           *)
Return ==
  /\ phase' = "idle" /\ at' = 1 /\ attempt' = 1 /\ error' = "none" /\ asked' = NotAsked
  /\ UNCHANGED <<chain, ended, late>>

-----------------------------------------------------------------------------
(* A request that may be repeated, or made to another model, is: while the  *)
(* context lives a call fails only with an error that forbids both, or      *)
(* after the last model was given all its tries.  A busy provider is never  *)
(* given up early.                                                          *)
NothingUntried ==
  phase = "failed" /\ ~ended =>
    \/ error = "refused"
    \/ at = Len(chain) /\ (error = "garbled" \/ attempt = MaxTry)

(* No model is asked more often than its tries within one call, however the *)
(* settings repeat its name.                                                *)
TriesBounded == \A m \in Models : asked[m] <= MaxTry

(* After the context of a task has ended at most one more request goes out, *)
(* over all calls of the task.                                              *)
OneLateRequest == late <= 1

(* A call makes every request it may, and none it may not: what can be      *)
(* tried again is, within bounds, until the context ends.                   *)
TriesExactly == NothingUntried /\ TriesBounded /\ OneLateRequest
=============================================================================
