---------------------------- MODULE DailyTrigger ----------------------------
(***************************************************************************)
(* When the digest of a date is asked for, and until when it reaches.      *)
(*                                                                         *)
(* The scheduler process looks at the clock once a minute and enqueues a   *)
(* task named after the digest date; the API enqueues tasks for any date,  *)
(* forced ones under a name of their own; the queue refuses a name it      *)
(* still holds, redelivers failed tasks and finally archives them; the     *)
(* worker computes the window of the digest when an execution starts.      *)
(*                                                                         *)
(* Time is counted in slots, H of them to a day, from midnight of date 0   *)
(* in Shanghai.  Digest dates are dates of Shanghai, the schedule and the  *)
(* scheduler's lastDigestDate are in the configured time zone.             *)
(***************************************************************************)
EXTENDS Integers

CONSTANTS
  H,            (* slots per day                                           *)
  MaxDate,      (* bound: the last digest date                             *)
  Configs,      (* the settings an administrator may save                  *)
  ManualIds,    (* the tasks the API is asked for, forced ones or plain    *)
  MaxRetry,     (* redeliveries before the queue archives a task           *)
  MaxFaults     (* bound: failed calls and restarts of the scheduler       *)

ASSUME HAssumption == H \in Nat \ {0}
ASSUME BoundsAssumption == {MaxDate, MaxRetry, MaxFaults} \subseteq Nat
ASSUME ConfigsAssumption ==
  Configs \subseteq [enabled : BOOLEAN, zone : -H .. H, at : 0 .. H - 1]

VARIABLES
  clock,          (* now                                                   *)
  config,         (* the saved scheduler settings                          *)
  tick,           (* time in the ticker's channel, or Never                *)
  loop,           (* where the scheduler's loop is: wait or trigger        *)
  now,            (* the time its runOnce works with                       *)
  today,          (* digestDate of runOnce, a date of the configured zone  *)
  lastDigestDate, (* the same of the last trigger, lost by a restart       *)
  asked,          (* per date: triggers of the scheduler that succeeded    *)
  failures,       (* failed calls so far                                   *)
  restarts,       (* restarts so far                                       *)
  tasks,          (* per task id its state in the queue                    *)
  retried,        (* per task id its redeliveries                          *)
  published       (* the dates whose digest is published                   *)

time      == <<clock, config>>
scheduler == <<tick, loop, now, today, lastDigestDate, asked, failures, restarts>>
queue     == <<tasks, retried>>
vars      == <<clock, config, tick, loop, now, today, lastDigestDate, asked, failures,
               restarts, tasks, retried, published>>

Never   == -2 * H
Dates   == 0 .. MaxDate
EndTime == H * (MaxDate + 1) - 1
Times   == 0 .. EndTime + 1
Ids     == {"plain", "forced"} \X Dates

(* localNow, the schedule and the date, in a zone ahead of Shanghai by      *)
(* `zone` slots.                                                            *)
LocalDate(t, zone) == (t + zone) \div H
LocalSlot(t, zone) == (t + zone) % H
DigestDate(t)      == t \div H

(* digestWindow: from the date's midnight to now, within the date.          *)
WindowEnd(date, t) ==
  CASE t < H * date       -> H * date
    [] t > H * (date + 1) -> H * (date + 1)
    [] OTHER              -> t

-----------------------------------------------------------------------------
(* The queue, external: a name in use is refused, whatever the state of the *)
(* task that has it.                                                        *)
Free(id)   == tasks[id] = "none"
EnqueueTask(id) ==
  /\ tasks' = [tasks EXCEPT ![id] = IF Free(id) THEN "waiting" ELSE @]
  /\ UNCHANGED retried

-----------------------------------------------------------------------------
Init ==
  /\ clock = 0 /\ config \in Configs
  /\ tick = 0 /\ loop = "wait" /\ now = Never /\ today = Never /\ lastDigestDate = Never
  /\ asked = [d \in Dates |-> 0] /\ failures = 0 /\ restarts = 0
  /\ tasks   = [id \in Ids |-> "none"]
  /\ retried = [id \in Ids |-> 0]
  /\ published = {}

(* The clock moves and the ticker fires.  A slot is many ticks long: the    *)
(* scheduler takes one of them in every slot, although a slow call may end  *)
(* in the next one.                                                         *)
Advance ==
  /\ clock < EndTime /\ tick = Never
  /\ clock' = clock + 1 /\ tick' = clock'
  /\ UNCHANGED <<config, loop, now, today, lastDigestDate, asked, failures, restarts,
                 queue, published>>

(* An administrator saves other settings.                                   *)
Configure ==
  /\ config' \in Configs
  /\ UNCHANGED <<clock, scheduler, queue, published>>

-----------------------------------------------------------------------------
(* runOnce of the scheduler.                                                *)

(* Mutant: the hour is not looked at.                                       *)
DueAtAnyHour(t) == config.enabled /\ LocalDate(t, config.zone) # lastDigestDate

Due(t) ==
  /\ config.enabled
  /\ LocalSlot(t, config.zone) >= config.at
  /\ LocalDate(t, config.zone) # lastDigestDate

(* It takes a tick, reads the settings and decides.                         *)
Look ==
  /\ loop = "wait" /\ tick # Never
  /\ tick' = Never
  /\ \/ /\ Due(tick)
        /\ loop' = "trigger" /\ now' = tick /\ today' = LocalDate(tick, config.zone)
        /\ UNCHANGED failures
     \/ /\ ~Due(tick)
        /\ UNCHANGED <<loop, now, today, failures>>
     \/ /\ failures + restarts < MaxFaults /\ failures' = failures + 1
        /\ UNCHANGED <<loop, now, today>>
  /\ UNCHANGED <<time, lastDigestDate, asked, restarts, queue, published>>

(* Mutants: lastDigestDate is set before the call, never, or together with  *)
(* a call whose error is swallowed.                                         *)
TriggerMarksFirst ==
  /\ loop = "trigger" /\ loop' = "wait" /\ now' = Never /\ today' = Never
  /\ lastDigestDate' = today
  /\ \/ /\ EnqueueTask(<<"plain", DigestDate(now)>>)
        /\ asked' = [asked EXCEPT ![DigestDate(now)] = @ + 1]
        /\ UNCHANGED failures
     \/ /\ failures + restarts < MaxFaults /\ failures' = failures + 1
        /\ UNCHANGED <<queue, asked>>
  /\ UNCHANGED <<time, tick, restarts, published>>

TriggerForgets ==
  /\ loop = "trigger" /\ loop' = "wait" /\ now' = Never /\ today' = Never
  /\ EnqueueTask(<<"plain", DigestDate(now)>>)
  /\ asked' = [asked EXCEPT ![DigestDate(now)] = @ + 1]
  /\ UNCHANGED <<time, tick, lastDigestDate, failures, restarts, published>>

TriggerSwallowsErrors ==
  /\ loop = "trigger" /\ loop' = "wait" /\ now' = Never /\ today' = Never
  /\ lastDigestDate' = today
  /\ asked' = [asked EXCEPT ![DigestDate(now)] = @ + 1]
  /\ \/ EnqueueTask(<<"plain", DigestDate(now)>>) /\ UNCHANGED failures
     \/ failures + restarts < MaxFaults /\ failures' = failures + 1 /\ UNCHANGED queue
  /\ UNCHANGED <<time, tick, restarts, published>>

(* It enqueues the task of now's date in Shanghai; a refused name counts as *)
(* success, a failed call leaves the trigger to the next tick.              *)
Trigger ==
  /\ loop = "trigger" /\ loop' = "wait" /\ now' = Never /\ today' = Never
  /\ \/ /\ EnqueueTask(<<"plain", DigestDate(now)>>)
        /\ lastDigestDate' = today
        /\ asked' = [asked EXCEPT ![DigestDate(now)] = @ + 1]
        /\ UNCHANGED failures
     \/ /\ failures + restarts < MaxFaults /\ failures' = failures + 1
        /\ EnqueueTask(<<"plain", DigestDate(now)>>) \/ UNCHANGED queue
        /\ UNCHANGED <<lastDigestDate, asked>>
  /\ UNCHANGED <<time, tick, restarts, published>>

(* The scheduler dies and is started again; Run looks at the clock at once. *)
Restart ==
  /\ failures + restarts < MaxFaults /\ restarts' = restarts + 1
  /\ loop' = "wait" /\ lastDigestDate' = Never /\ tick' = clock
  /\ now' = Never /\ today' = Never
  /\ UNCHANGED <<time, asked, failures, queue, published>>

-----------------------------------------------------------------------------
(* The API: a request names a kind and, with trigger_at, any date.  One     *)
(* whose call does not reach the queue changes nothing.                     *)
ManualTrigger(id) ==
  /\ EnqueueTask(id)
  /\ UNCHANGED <<time, scheduler, published>>

-----------------------------------------------------------------------------
(* The worker.  An execution that starts works on the window up to          *)
(* WindowEnd(date, clock).                                                  *)

StartTask(id) ==
  /\ tasks[id] = "waiting"
  /\ tasks' = [tasks EXCEPT ![id] = "active"]
  /\ UNCHANGED <<time, scheduler, retried, published>>

(* Run returns without error: the date is published.  The name of the task  *)
(* becomes free again.                                                      *)
CompleteTask(id) ==
  /\ tasks[id] = "active"
  /\ tasks'   = [tasks EXCEPT ![id] = "none"]
  /\ retried' = [retried EXCEPT ![id] = 0]
  /\ published' = published \cup {id[2]}
  /\ UNCHANGED <<time, scheduler>>

(* Run returns an error, or the worker dies.                                *)
FailTask(id) ==
  /\ tasks[id] = "active"
  /\ IF retried[id] < MaxRetry
     THEN /\ tasks'   = [tasks EXCEPT ![id] = "waiting"]
          /\ retried' = [retried EXCEPT ![id] = @ + 1]
     ELSE /\ tasks'   = [tasks EXCEPT ![id] = "archived"]
          /\ retried' = [retried EXCEPT ![id] = 0]
  /\ UNCHANGED <<time, scheduler, published>>

Work(id) == StartTask(id) \/ CompleteTask(id) \/ FailTask(id)

-----------------------------------------------------------------------------
Next ==
  \/ Advance \/ Configure \/ Look \/ Trigger \/ Restart
  \/ \E id \in ManualIds : ManualTrigger(id)
  \/ \E id \in Ids : Work(id)

Spec == Init /\ [][Next]_vars

(* The queue delivers waiting tasks and their executions end (RunReturns of *)
(* module DigestPublish); the scheduler's calls return.                     *)
FairSpec ==
  /\ Spec /\ WF_vars(Look) /\ WF_vars(Trigger) /\ WF_vars(Advance)
  /\ \A id \in Ids : WF_vars(Work(id))

-----------------------------------------------------------------------------
(* Properties.                                                              *)

TypeOK ==
  /\ clock \in 0 .. EndTime /\ config \in Configs
  /\ tick \in {Never, clock} /\ loop \in {"wait", "trigger"}
  /\ now \in {Never} \cup 0 .. EndTime /\ {today, lastDigestDate} \subseteq Int
  /\ asked \in [Dates -> Nat]
  /\ {failures, restarts} \subseteq Nat /\ failures + restarts <= MaxFaults
  /\ tasks \in [Ids -> {"none", "waiting", "active", "archived"}]
  /\ retried \in [Ids -> 0 .. MaxRetry]
  /\ published \subseteq Dates

(* The settings page: "this decides at what hour of the day the digest is   *)
(* generated".  An execution the scheduler asked for reaches at least to    *)
(* the earliest hour configured for its date, whatever is retried,          *)
(* restarted or reconfigured.  (An unforced request of the API may come     *)
(* before that hour: the runs that check this have forced ones only.)       *)
ReachesSchedule ==
  [][\A d \in Dates : StartTask(<<"plain", d>>) =>
       \E c \in Configs : WindowEnd(d, clock) >= H * d + c.at - c.zone]_vars

(* No date is left out as long as fewer calls fail, and fewer restarts      *)
(* interrupt one, than there are slots between the schedule and midnight.   *)
(* (A scheduler is started again at once; one that stays down until after   *)
(* midnight loses the date.)                                                *)
NoDateMissed == \A d \in Dates : clock > H * (d + 1) => asked[d] > 0

(* A scheduler that is not restarted triggers a date once, over failed      *)
(* calls whose effect it cannot know, slow calls and changes of the hour    *)
(* (TestSchedulerLoopTriggersOncePerDigestDate).                            *)
OncePerDate == \A d \in Dates : asked[d] <= 1 + restarts

(* A date that was asked for, by a trigger the queue took or one it         *)
(* refused, is eventually published, or its task stays in the archive.      *)
AskedIsSettled ==
  \A d \in Dates :
    asked[d] > 0 ~> d \in published \/ tasks[<<"plain", d>>] = "archived"
=============================================================================
