--------------------------- MODULE DailyTaskProofs ---------------------------
(***************************************************************************)
(* Proofs about the task of a digest: when it is asked for, what its run   *)
(* leaves behind, and the settings it runs with.                           *)
(*                                                                         *)
(* DailyTrigger, for days of any length, any number of dates, settings,    *)
(* requests and faults: Ticking is what holds in every zone.  In the zone  *)
(* of Shanghai, OnceInv says that dates are triggered in their order and   *)
(* MissedInv accounts for each slot whose tick was looked at.  ScheduleInv *)
(* says that an hour configured for the date of a task had come when the   *)
(* task was enqueued.                                                      *)
(*                                                                         *)
(* DigestRun, for any set of entries, whatever texts they have, with and   *)
(* without forced runs and any number of failures: RunInv adds to the      *)
(* properties what each stage hands to the next.                           *)
(*                                                                         *)
(* Settings, for any environments, payloads of earlier releases, edits and *)
(* secrets, and any number of tasks and pages: SettingsInv says what       *)
(* payloads look like and that no reader has read an old version.          *)
(***************************************************************************)
EXTENDS DailyTrigger, DigestRun, Settings, TLAPS

-----------------------------------------------------------------------------
(* Dates and slots.                                                         *)
Midnight(d) == H * d

LEMMA Midnights ==
  ASSUME NEW d \in Int
  PROVE  Midnight(d) \in Int /\ Midnight(d + 1) = Midnight(d) + H /\ H \in Nat /\ H > 0
BY HAssumption DEF Midnight

LEMMA DaysInOrder ==
  ASSUME NEW d \in Int, NEW e \in Int, d < e
  PROVE  Midnight(d) + H <= Midnight(e)
BY HAssumption DEF Midnight

LEMMA OfDate ==
  ASSUME NEW t \in Int
  PROVE  /\ DigestDate(t) \in Int
         /\ Midnight(DigestDate(t)) <= t /\ t < Midnight(DigestDate(t)) + H
<1>1. t \div H \in Int /\ t % H \in 0 .. H - 1 /\ t = H * (t \div H) + (t % H)
  BY HAssumption
<1>2. H * (t \div H) \in Int
  BY <1>1, HAssumption
<1> QED
  BY <1>1, <1>2, HAssumption DEF DigestDate, Midnight

LEMMA SlotOf ==
  ASSUME NEW t \in Int
  PROVE  t % H \in Int /\ t % H = t - Midnight(DigestDate(t))
<1>1. t % H \in 0 .. H - 1 /\ t = H * (t \div H) + (t % H)
  BY HAssumption
<1>2. H * (t \div H) \in Int /\ t % H \in Int
  BY <1>1, HAssumption
<1> QED
  BY <1>1, <1>2 DEF DigestDate, Midnight

LEMMA DateIs ==
  ASSUME NEW t \in Int, NEW d \in Int, Midnight(d) <= t, t < Midnight(d) + H
  PROVE  DigestDate(t) = d
<1> DEFINE e == DigestDate(t)
<1>1. e \in Int /\ Midnight(e) <= t /\ t < Midnight(e) + H
  BY OfDate
<1> HIDE DEF e
<1>2. Midnight(d) \in Int /\ Midnight(e) \in Int /\ H \in Nat
  BY <1>1, Midnights
<1>3. e < d => Midnight(e) + H <= Midnight(d)
  BY <1>1, DaysInOrder
<1>4. d < e => Midnight(d) + H <= Midnight(e)
  BY <1>1, DaysInOrder
<1>5. e = d
  BY <1>1, <1>2, <1>3, <1>4
<1> QED
  BY <1>5 DEF e

LEMMA LaterDate ==
  ASSUME NEW t \in Int, NEW u \in Int, t <= u
  PROVE  DigestDate(t) <= DigestDate(u)
<1> DEFINE d == DigestDate(t)
           e == DigestDate(u)
<1>1. /\ d \in Int /\ Midnight(d) <= t /\ t < Midnight(d) + H
      /\ e \in Int /\ Midnight(e) <= u /\ u < Midnight(e) + H
  BY OfDate
<1> HIDE DEF d, e
<1>2. Midnight(d) \in Int /\ Midnight(e) \in Int /\ H \in Nat
  BY <1>1, Midnights
<1>3. e < d => Midnight(e) + H <= Midnight(d)
  BY <1>1, DaysInOrder
<1>4. d <= e
  BY <1>1, <1>2, <1>3
<1> QED
  BY <1>4 DEF d, e

LEMMA DateOfTime ==
  ASSUME NEW t \in 0 .. EndTime
  PROVE  DigestDate(t) \in Dates
<1> DEFINE d == DigestDate(t)
<1>1. Midnight(0) = 0 /\ EndTime = Midnight(MaxDate + 1) - 1 /\ MaxDate \in Nat
  BY HAssumption, BoundsAssumption DEF Midnight, EndTime
<1>2. /\ d \in Int /\ Midnight(d) \in Int /\ Midnight(MaxDate + 1) \in Int /\ H \in Nat /\ H > 0
      /\ Midnight(d) <= t /\ t < Midnight(d) + H /\ t \in Int
  BY <1>1, OfDate, Midnights
<1> HIDE DEF d
<1>3. d < 0 => Midnight(d) + H <= Midnight(0)
  BY <1>2, DaysInOrder
<1>4. MaxDate + 1 < d => Midnight(MaxDate + 1) + H <= Midnight(d)
  BY <1>1, <1>2, DaysInOrder
<1>5. 0 <= t /\ t < Midnight(MaxDate + 1)
  BY <1>1, <1>2
<1>6. d \in 0 .. MaxDate
  BY <1>1, <1>2, <1>3, <1>4, <1>5
<1> QED
  BY <1>6 DEF d, Dates

-----------------------------------------------------------------------------
(* A slow call ends in the slot after the one it began in, before the tick  *)
(* of that slot is looked at.                                               *)
Ticking ==
  loop = "trigger" =>
    /\ now \in 0 .. EndTime
    /\ (now = clock /\ tick = Never) \/ (now = clock - 1 /\ tick = clock)

LEMMA Bounds ==
  H \in Nat /\ H > 0 /\ MaxDate \in Nat /\ MaxRetry \in Nat /\ MaxFaults \in Nat
    /\ EndTime \in Nat /\ Never \in Int /\ Never < -H
<1>1. H \in Nat /\ H > 0 /\ MaxDate \in Nat /\ MaxRetry \in Nat /\ MaxFaults \in Nat
  BY HAssumption, BoundsAssumption
<1>2. H * (MaxDate + 1) \in Nat /\ H * (MaxDate + 1) > 0
  BY <1>1
<1> QED
  BY <1>1, <1>2 DEF EndTime, Never

LEMMA LocalDates == ASSUME NEW t \in Int, NEW c \in Configs PROVE LocalDate(t, c.zone) \in Int
<1>1. c.zone \in Int
  BY HAssumption, ConfigsAssumption
<1> QED
  BY <1>1, HAssumption DEF LocalDate

LEMMA TickingInit == Init => TypeOK /\ Ticking
BY Bounds DEF Init, TypeOK, Ticking, Ids

LEMMA TickingStep == TypeOK /\ Ticking /\ [Next]_vars => TypeOK' /\ Ticking'
<1> SUFFICES ASSUME TypeOK, Ticking, [Next]_vars PROVE TypeOK' /\ Ticking'
  OBVIOUS
<1> USE Bounds DEF TypeOK, Ticking
<1>1. CASE Advance
  BY <1>1 DEF Advance, queue
<1>2. CASE Configure
  BY <1>2 DEF Configure, scheduler, queue
<1>3. CASE Look
  <2>1. LocalDate(tick, config.zone) \in Int
    BY LocalDates
  <2>2. failures' \in Nat /\ failures' + restarts <= MaxFaults
    BY <1>3 DEF Look
  <2>3. \/ loop' = "trigger" /\ now' = tick /\ today' = LocalDate(tick, config.zone)
        \/ loop' = loop /\ now' = now /\ today' = today
    BY <1>3 DEF Look
  <2>4. loop = "wait" /\ tick = clock /\ tick' = Never
    BY <1>3 DEF Look
  <2>5. UNCHANGED <<clock, config, lastDigestDate, asked, restarts, tasks, retried, published>>
    BY <1>3 DEF Look, time, queue
  <2> QED
    BY <2>1, <2>2, <2>3, <2>4, <2>5
<1>4. CASE Trigger
  <2>1. loop = "trigger" /\ loop' = "wait" /\ now' = Never /\ today' = Never
    BY <1>4 DEF Trigger
  <2>2. failures' \in Nat /\ failures' + restarts <= MaxFaults /\ lastDigestDate' \in Int
    BY <1>4 DEF Trigger
  <2>3. UNCHANGED <<clock, config, tick, restarts, retried, published>>
    BY <1>4 DEF Trigger, time, queue, EnqueueTask
  <2>4. asked' \in [Dates -> Nat]
    BY <1>4 DEF Trigger
  <2>5. tasks' \in [Ids -> {"none", "waiting", "active", "archived"}]
    BY <1>4 DEF Trigger, EnqueueTask, queue
  <2> QED
    BY <2>1, <2>2, <2>3, <2>4, <2>5
<1>5. CASE Restart
  BY <1>5 DEF Restart, time, queue
<1>6. ASSUME NEW id \in ManualIds, ManualTrigger(id) PROVE TypeOK' /\ Ticking'
  BY <1>6 DEF ManualTrigger, EnqueueTask, time, scheduler
<1>7. ASSUME NEW id \in Ids, Work(id) PROVE TypeOK' /\ Ticking'
  <2>1. tasks' \in [Ids -> {"none", "waiting", "active", "archived"}]
    BY <1>7 DEF Work, StartTask, CompleteTask, FailTask
  <2>2. retried' \in [Ids -> 0 .. MaxRetry]
    BY <1>7 DEF Work, StartTask, CompleteTask, FailTask
  <2>3. published' \subseteq Dates
    BY <1>7 DEF Work, StartTask, CompleteTask, FailTask, Ids
  <2>4. UNCHANGED <<clock, config, scheduler>>
    BY <1>7 DEF Work, StartTask, CompleteTask, FailTask, time
  <2> QED
    BY <2>1, <2>2, <2>3, <2>4 DEF scheduler
<1>8. CASE UNCHANGED vars
  BY <1>8 DEF vars
<1> QED
  BY <1>1, <1>2, <1>3, <1>4, <1>5, <1>6, <1>7, <1>8 DEF Next

LEMMA TickingAlways == Spec => [](TypeOK /\ Ticking)
BY TickingInit, TickingStep, PTL DEF Spec

(* The variables keep their types, the ticker holds at most the present     *)
(* slot, and the bounds on failures, restarts and redeliveries are kept.    *)
THEOREM TypeCorrect == Spec => []TypeOK
BY TickingAlways, PTL

-----------------------------------------------------------------------------
(* In the zone of Shanghai, where the scheduler's dates are the digests'.   *)
InShanghai == \A c \in Configs : c.zone = 0

LEMMA ShanghaiDate == ASSUME InShanghai, NEW t \in Int, NEW c \in Configs
                      PROVE  LocalDate(t, c.zone) = DigestDate(t)
BY DEF InShanghai, LocalDate, DigestDate

(* Dates are triggered in their order, after the last one.                  *)
Forward ==
  /\ lastDigestDate <= DigestDate(clock)
  /\ loop = "trigger" => today = DigestDate(now) /\ lastDigestDate < today

(* A date that was triggered once more than there were restarts is over.    *)
OnceInv ==
  /\ Forward
  /\ \A d \in Dates :
       asked[d] <= 1 + restarts /\ (asked[d] = 1 + restarts => d <= lastDigestDate)

LEMMA OnceInit == ASSUME InShanghai, Init PROVE OnceInv
<1>1. DigestDate(0) \in Dates /\ 0 \in 0 .. EndTime
  BY Bounds, DateOfTime
<1> QED
  BY <1>1, Bounds DEF Init, OnceInv, Forward, Dates

LEMMA OnceStep ==
  ASSUME InShanghai, TypeOK, Ticking, OnceInv, [Next]_vars
  PROVE  OnceInv'
<1> USE Bounds DEF TypeOK, OnceInv, Forward
<1>0. DigestDate(clock) \in Dates
  BY DateOfTime
<1>1. CASE Advance
  <2>1. DigestDate(clock) <= DigestDate(clock')
    BY <1>1, LaterDate DEF Advance
  <2>2. DigestDate(clock') \in Int
    BY <1>1, OfDate DEF Advance
  <2> QED
    BY <1>0, <1>1, <2>1, <2>2 DEF Advance, Dates
<1>2. CASE Look
  <2>1. UNCHANGED <<clock, lastDigestDate, asked, restarts>>
    BY <1>2 DEF Look, time
  <2>2. CASE Due(tick) /\ loop' = "trigger" /\ now' = tick /\ today' = LocalDate(tick, config.zone)
    <3>1. tick = clock /\ today' = DigestDate(clock)
      BY <1>2, <2>2, ShanghaiDate DEF Look
    <3>2. lastDigestDate # DigestDate(clock)
      BY <2>2, <3>1 DEF Due
    <3> QED
      BY <1>0, <2>1, <2>2, <3>1, <3>2 DEF Dates
  <2>3. CASE UNCHANGED <<loop, now, today>>
    BY <2>1, <2>3
  <2> QED
    BY <1>2, <2>2, <2>3 DEF Look
<1>3. CASE Trigger
  <2> DEFINE d == DigestDate(now)
  <2>1. d \in Dates /\ today = d /\ lastDigestDate < d /\ now <= clock
    BY <1>3, DateOfTime DEF Trigger, Ticking
  <2>2. d <= DigestDate(clock)
    BY <2>1, LaterDate DEF Ticking
  <2>3. loop' = "wait" /\ UNCHANGED <<clock, restarts>>
    BY <1>3 DEF Trigger, time
  <2>4. CASE lastDigestDate' = today /\ asked' = [asked EXCEPT ![d] = @ + 1]
    <3> HIDE DEF d
    <3>1. asked[d] <= restarts
      BY <2>1 DEF Dates
    <3>2. ASSUME NEW e \in Dates
          PROVE  asked'[e] <= 1 + restarts' /\ (asked'[e] = 1 + restarts' => e <= lastDigestDate')
      <4>1. CASE e = d
        BY <2>1, <2>3, <2>4, <3>1, <4>1 DEF Dates
      <4>2. CASE e # d
        BY <2>1, <2>3, <2>4, <4>2 DEF Dates
      <4> QED
        BY <4>1, <4>2
    <3> QED
      BY <2>1, <2>2, <2>3, <2>4, <3>2
  <2>5. CASE UNCHANGED <<lastDigestDate, asked>>
    BY <2>3, <2>5
  <2> QED
    BY <1>3, <2>4, <2>5 DEF Trigger
<1>4. CASE Restart
  <2>1. /\ loop' = "wait" /\ lastDigestDate' = Never /\ restarts' = restarts + 1
        /\ UNCHANGED <<clock, asked>>
    BY <1>4 DEF Restart, time
  <2>2. \A d \in Dates : asked[d] <= 1 + restarts /\ asked[d] \in Nat
    OBVIOUS
  <2>3. \A d \in Dates : asked'[d] <= restarts' /\ asked'[d] # 1 + restarts'
    BY <2>1, <2>2
  <2>4. Never <= DigestDate(clock)
    BY <1>0 DEF Dates
  <2>5. DigestDate(clock)' = DigestDate(clock)
    BY <2>1 DEF DigestDate
  <2> QED
    BY <2>1, <2>3, <2>4, <2>5
<1>5. CASE UNCHANGED <<clock, loop, now, today, lastDigestDate, asked, restarts>>
  BY <1>5
<1>6. Configure \/ (\E id \in ManualIds : ManualTrigger(id)) \/ (\E id \in Ids : Work(id))
        \/ UNCHANGED vars
      => UNCHANGED <<clock, loop, now, today, lastDigestDate, asked, restarts>>
  BY DEF Configure, ManualTrigger, Work, StartTask, CompleteTask, FailTask, vars, time, scheduler
<1> QED
  BY <1>1, <1>2, <1>3, <1>4, <1>5, <1>6 DEF Next

(* A scheduler that runs on triggers a date once, with every restart at     *)
(* most once more, however slow its calls are and whichever of them fail.   *)
THEOREM AskedOnce == ASSUME InShanghai PROVE Spec => []OncePerDate
<1>1. Init => OnceInv
  BY OnceInit
<1>2. TypeOK /\ Ticking /\ OnceInv /\ [Next]_vars => OnceInv'
  BY OnceStep
<1>3. OnceInv => OncePerDate
  BY DEF OnceInv, OncePerDate
<1> QED
  BY <1>1, <1>2, <1>3, TickingAlways, PTL DEF Spec

-----------------------------------------------------------------------------
(* Dates are not missed in a zone that is Shanghai's, with a schedule that  *)
(* leaves more slots before midnight than calls fail or are interrupted.    *)
EnoughSlots == \A c \in Configs : c.enabled /\ c.at + MaxFaults < H

(* From the slot Latest(d) on a look at the clock finds date d due.         *)
Latest(d) == Midnight(d) + H - 1 - MaxFaults

(* The slots from Latest(d) on whose tick was looked at, up to midnight.    *)
Looked(d) ==
  IF clock >= Midnight(d) + H THEN MaxFaults + 1
  ELSE clock - Latest(d) + (IF tick = Never THEN 1 ELSE 0)

(* Each of them led to a trigger, which may still be in progress, or to a   *)
(* failure or a restart.                                                    *)
Pending(d) == IF loop = "trigger" /\ DigestDate(now) = d THEN 1 ELSE 0

MissedInv ==
  /\ lastDigestDate \in Dates => asked[lastDigestDate] > 0
  /\ loop = "trigger" => today = DigestDate(now)
  /\ \A d \in Dates : asked[d] = 0 => Looked(d) <= failures + restarts + Pending(d)

LEMMA FaultsFit == ASSUME EnoughSlots, config \in Configs PROVE MaxFaults < H
<1>1. config.at \in 0 .. H - 1 /\ config.at + MaxFaults < H
  BY ConfigsAssumption DEF EnoughSlots
<1> QED
  BY <1>1, Bounds

LEMMA MissedInit == ASSUME EnoughSlots, Init PROVE MissedInv
<1>1. ASSUME NEW d \in Dates PROVE Looked(d) <= 0
  <2>1. Midnight(0) = 0 /\ Midnight(d) \in Int
    BY HAssumption, Midnights DEF Dates, Midnight
  <2>2. Midnight(d) >= 0
    <3>1. d = 0 \/ Midnight(0) + H <= Midnight(d)
      BY DaysInOrder DEF Dates
    <3> QED
      BY <2>1, <3>1, Bounds
  <2>3. clock = 0 /\ tick = 0 /\ Never # 0
    BY Bounds DEF Init
  <2>4. MaxFaults < H
    BY FaultsFit DEF Init
  <2> QED
    BY <2>1, <2>2, <2>3, <2>4, Bounds DEF Looked, Latest
<1> QED
  BY <1>1, Bounds DEF Init, MissedInv, Pending, Dates

LEMMA MissedStep ==
  ASSUME InShanghai, EnoughSlots, TypeOK, Ticking, MissedInv, [Next]_vars
  PROVE  MissedInv'
<1> USE Bounds DEF TypeOK, MissedInv
<1> DEFINE Covered(d) == asked[d] = 0 => Looked(d) <= failures + restarts + Pending(d)
<1>0. DigestDate(clock) \in Dates /\ MaxFaults < H
  BY DateOfTime, FaultsFit
<1>01. ASSUME NEW d \in Dates
      PROVE  /\ d \in Int /\ Midnight(d) \in Int /\ Latest(d) \in Int /\ Latest(d) <= Midnight(d) + H
             /\ Looked(d) \in Int /\ Pending(d) \in 0 .. 1
  <2>1. d \in Int /\ Midnight(d) \in Int
    BY Midnights DEF Dates
  <2>2. Latest(d) \in Int /\ Latest(d) <= Midnight(d) + H
    BY <2>1 DEF Latest
  <2>3. Looked(d) \in Int
    BY <2>1, <2>2 DEF Looked
  <2>4. Pending(d) \in 0 .. 1
    BY DEF Pending
  <2> QED
    BY <2>1, <2>2, <2>3, <2>4
<1>1. CASE Advance
  <2>1. /\ clock' = clock + 1 /\ tick = Never /\ tick' = clock + 1
        /\ UNCHANGED <<loop, now, today, lastDigestDate, asked, failures, restarts>>
    BY <1>1 DEF Advance
  <2>2. ASSUME NEW d \in Dates PROVE Looked(d)' = Looked(d)
    <3>1. Midnight(d)' = Midnight(d) /\ Midnight(d) \in Int
      BY <1>01 DEF Midnight
    <3>2. clock \in Int /\ clock + 1 # Never /\ clock' = clock + 1 /\ tick = Never /\ tick' # Never
      BY <2>1
    <3> QED
      BY <3>1, <3>2 DEF Looked, Latest
  <2> QED
    BY <2>1, <2>2 DEF Pending
<1>2. CASE Look
  <2>1. /\ loop = "wait" /\ tick = clock /\ tick' = Never
        /\ UNCHANGED <<clock, lastDigestDate, asked, restarts>>
    BY <1>2 DEF Look, time
  <2>2. ASSUME NEW d \in Dates
        PROVE  /\ Looked(d)' <= Looked(d) + 1 /\ Pending(d) = 0 /\ Looked(d)' \in Int
               /\ clock >= Midnight(d) + H => Looked(d)' = Looked(d)
               /\ clock < Latest(d) => Looked(d)' <= 0
    BY <1>01, <2>1 DEF Looked, Pending, Latest, Midnight
  <2>3. \/ Due(tick) /\ loop' = "trigger" /\ now' = tick /\ today' = LocalDate(tick, config.zone)
           /\ failures' = failures
        \/ ~Due(tick) /\ UNCHANGED <<loop, now, today, failures>>
        \/ failures' = failures + 1 /\ UNCHANGED <<loop, now, today>>
    BY <1>2 DEF Look
  <2>4. LocalDate(tick, config.zone) = DigestDate(clock) /\ DigestDate(clock) \in Int
    BY <1>0, <2>1, ShanghaiDate DEF Dates
  <2>5. ASSUME NEW d \in Dates, asked[d] = 0
        PROVE  Looked(d)' <= failures' + restarts' + Pending(d)'
    <3>1. Looked(d) <= failures + restarts
      BY <2>2, <2>5
    <3>2. Pending(d)' \in 0 .. 1
      BY DEF Pending
    <3>3. CASE clock >= Midnight(d) + H
      BY <1>01, <2>1, <2>2, <2>3, <3>1, <3>2, <3>3
    <3>4. CASE clock < Latest(d)
      BY <1>01, <2>1, <2>2, <2>3, <3>1, <3>2, <3>4
    <3>5. CASE Latest(d) <= clock /\ clock < Midnight(d) + H
      <4>1. DigestDate(clock) = d
        BY <1>0, <1>01, <3>5, DateIs DEF Latest
      <4>2. LocalSlot(tick, config.zone) >= config.at
        <5>1. config.zone = 0 /\ config.at + MaxFaults < H /\ config.at \in Int
          BY ConfigsAssumption DEF InShanghai, EnoughSlots
        <5>2. clock % H = clock - Midnight(d)
          BY <4>1, SlotOf
        <5>3. LocalSlot(tick, config.zone) = clock - Midnight(d)
          BY <2>1, <5>1, <5>2 DEF LocalSlot
        <5> QED
          BY <1>01, <3>5, <5>1, <5>3 DEF Latest
      <4>3. lastDigestDate # d
        BY <2>5
      <4>4. Due(tick)
        BY <2>4, <4>1, <4>2, <4>3 DEF Due, EnoughSlots
      <4>5. (loop' = "trigger" /\ now' = clock /\ failures' = failures) \/ failures' = failures + 1
        BY <2>1, <2>3, <4>4
      <4> QED
        BY <1>01, <2>1, <2>2, <3>1, <3>2, <4>1, <4>5 DEF Pending
    <3> QED
      BY <1>01, <3>3, <3>4, <3>5
  <2> QED
    BY <2>1, <2>3, <2>4, <2>5
<1>3. CASE Trigger
  <2> DEFINE d == DigestDate(now)
  <2>1. /\ d \in Dates /\ today = d /\ loop = "trigger" /\ loop' = "wait"
        /\ UNCHANGED <<clock, tick, restarts>>
    BY <1>3, DateOfTime DEF Trigger, Ticking, time
  <2>2. ASSUME NEW e \in Dates
        PROVE  Looked(e)' = Looked(e) /\ Pending(e)' = 0 /\ (e # d => Pending(e) = 0)
    BY <2>1 DEF Looked, Latest, Midnight, Pending
  <2>3. \/ /\ lastDigestDate' = d /\ asked' = [asked EXCEPT ![d] = @ + 1]
           /\ failures' = failures
        \/ failures' = failures + 1 /\ UNCHANGED <<lastDigestDate, asked>>
    BY <1>3, <2>1 DEF Trigger
  <2> HIDE DEF d
  <2>4. ASSUME NEW e \in Dates, asked'[e] = 0
        PROVE  Looked(e)' <= failures' + restarts' + Pending(e)'
    <3>1. asked[e] = 0 /\ (e # d \/ failures' = failures + 1)
      BY <2>1, <2>3, <2>4
    <3> QED
      BY <1>01, <2>1, <2>2, <2>3, <3>1
  <2>5. lastDigestDate' \in Dates => asked'[lastDigestDate'] > 0
    BY <2>1, <2>3
  <2> QED
    BY <2>1, <2>4, <2>5
<1>4. CASE Restart
  <2>1. /\ loop' = "wait" /\ lastDigestDate' = Never /\ tick' = clock /\ restarts' = restarts + 1
        /\ UNCHANGED <<clock, asked, failures>>
    BY <1>4 DEF Restart, time
  <2>2. Never \notin Dates
    BY DEF Dates
  <2>3. ASSUME NEW d \in Dates
        PROVE  Looked(d)' <= Looked(d) /\ Pending(d)' = 0 /\ Looked(d)' \in Int
    BY <1>01, <2>1 DEF Looked, Latest, Midnight, Pending
  <2> QED
    BY <1>01, <2>1, <2>2, <2>3
<1>5. CASE UNCHANGED <<clock, tick, loop, now, today, lastDigestDate, asked, failures, restarts>>
  <2>1. \A d \in Dates : Looked(d)' = Looked(d) /\ Pending(d)' = Pending(d)
    BY <1>5 DEF Looked, Latest, Midnight, Pending
  <2> QED
    BY <1>5, <2>1
<1>6. Configure \/ (\E id \in ManualIds : ManualTrigger(id)) \/ (\E id \in Ids : Work(id))
        \/ UNCHANGED vars
      => UNCHANGED <<clock, tick, loop, now, today, lastDigestDate, asked, failures, restarts>>
  BY DEF Configure, ManualTrigger, Work, StartTask, CompleteTask, FailTask, vars, time, scheduler
<1> QED
  BY <1>1, <1>2, <1>3, <1>4, <1>5, <1>6 DEF Next

(* No date is left out, whatever hours are configured in between, as long   *)
(* as fewer calls fail, and fewer restarts interrupt one, than there are    *)
(* slots between the latest of those hours and midnight.                    *)
THEOREM NoneMissed == ASSUME InShanghai, EnoughSlots PROVE Spec => []NoDateMissed
<1>1. Init => MissedInv
  BY MissedInit
<1>2. TypeOK /\ Ticking /\ MissedInv /\ [Next]_vars => MissedInv'
  BY MissedStep
<1>3. TypeOK /\ Ticking /\ MissedInv => NoDateMissed
  <2> SUFFICES ASSUME TypeOK, Ticking, MissedInv,
                      NEW d \in Dates, clock > H * (d + 1), ~(asked[d] > 0)
               PROVE  FALSE
    BY DEF NoDateMissed
  <2>1. clock > Midnight(d) + H /\ Midnight(d) \in Int /\ d \in Int
    BY Midnights DEF Midnight, Dates
  <2>2. Looked(d) = MaxFaults + 1
    BY <2>1, Bounds DEF Looked, TypeOK
  <2>3. Pending(d) = 0
    <3>1. ASSUME loop = "trigger" PROVE DigestDate(now) # d
      <4>1. now >= Midnight(d) + H /\ now \in Int
        BY <2>1, <3>1, Bounds DEF Ticking, TypeOK
      <4>2. now < Midnight(DigestDate(now)) + H
        BY <4>1, OfDate
      <4> QED
        BY <2>1, <4>1, <4>2, Bounds
    <3> QED
      BY <3>1 DEF Pending
  <2>4. asked[d] = 0
    BY Bounds DEF TypeOK
  <2> QED
    BY <2>2, <2>3, <2>4, Bounds DEF MissedInv, TypeOK
<1> QED
  BY <1>1, <1>2, <1>3, TickingAlways, PTL DEF Spec

-----------------------------------------------------------------------------
(* Executions do not start early in zones that are not behind Shanghai,     *)
(* when the API is asked for forced runs only.                              *)
NotBehind  == \A c \in Configs : c.zone >= 0
ForcedOnly == \A id \in ManualIds : id[1] = "forced"

(* At time t an hour configured for date d has come.                        *)
HourHasCome(d, t) == Midnight(d) <= t /\ \E c \in Configs : Midnight(d) + c.at - c.zone <= t

ScheduleInv ==
  /\ loop = "trigger" => HourHasCome(DigestDate(now), now)
  /\ \A d \in Dates : tasks[<<"plain", d>>] # "none" => HourHasCome(d, clock)

LEMMA StillCome ==
  ASSUME NEW d \in Dates, NEW t \in Int, NEW u \in Int, t <= u, HourHasCome(d, t)
  PROVE  HourHasCome(d, u)
<1>1. Midnight(d) \in Int
  BY Midnights DEF Dates
<1>2. PICK c \in Configs : Midnight(d) + c.at - c.zone <= t
  BY DEF HourHasCome
<1>3. c.at \in Int /\ c.zone \in Int
  BY ConfigsAssumption, HAssumption
<1>4. Midnight(d) <= t
  BY DEF HourHasCome
<1>5. Midnight(d) + c.at - c.zone <= u /\ Midnight(d) <= u
  BY <1>1, <1>2, <1>3, <1>4
<1> QED
  BY <1>5 DEF HourHasCome

(* A look that finds a date due does so at the hour of that date or later.  *)
LEMMA DueHasCome ==
  ASSUME NotBehind, TypeOK, tick = clock, Due(tick)
  PROVE  HourHasCome(DigestDate(tick), tick)
<1> DEFINE d == DigestDate(tick)
           z == config.zone
           e == DigestDate(tick + z)
<1>1. z \in Nat /\ config.at \in 0 .. H - 1 /\ tick \in Int /\ config \in Configs /\ H \in Nat
  BY ConfigsAssumption, HAssumption, Bounds DEF NotBehind, TypeOK
<1>2. d \in Int /\ e \in Int /\ d <= e
  BY <1>1, OfDate, LaterDate
<1>3. Midnight(d) \in Int /\ Midnight(e) \in Int /\ Midnight(d) <= tick /\ Midnight(d) <= Midnight(e)
  <2>1. Midnight(d) \in Int /\ Midnight(e) \in Int /\ Midnight(d) <= tick
    BY <1>1, <1>2, OfDate, Midnights
  <2>2. d = e \/ Midnight(d) + H <= Midnight(e)
    BY <1>2, DaysInOrder
  <2> QED
    BY <1>1, <2>1, <2>2
<1>4. tick + z = Midnight(e) + LocalSlot(tick, z) /\ LocalSlot(tick, z) \in Int
  <2>1. LocalSlot(tick, z) = (tick + z) % H /\ tick + z \in Int
    BY <1>1 DEF LocalSlot
  <2>2. (tick + z) % H \in Int /\ (tick + z) % H = (tick + z) - Midnight(e)
    BY <2>1, SlotOf
  <2> QED
    BY <1>1, <1>2, <2>1, <2>2, Midnights
<1>5. LocalSlot(tick, z) >= config.at
  BY DEF Due
<1> HIDE DEF d, e, z
<1>6. Midnight(d) + config.at - z <= tick
  BY <1>1, <1>3, <1>4, <1>5
<1>7. HourHasCome(d, tick)
  BY <1>1, <1>3, <1>6 DEF HourHasCome, z
<1> QED
  BY <1>7 DEF d

LEMMA ScheduleInit == ASSUME Init PROVE ScheduleInv
BY DEF Init, ScheduleInv, Ids

LEMMA ScheduleStep ==
  ASSUME NotBehind, ForcedOnly, TypeOK, Ticking, ScheduleInv, [Next]_vars
  PROVE  ScheduleInv'
<1> USE Bounds DEF TypeOK, ScheduleInv
<1>0. \A d \in Dates : <<"plain", d>> \in Ids /\ HourHasCome(d, clock)' = HourHasCome(d, clock')
  BY DEF Ids, HourHasCome, Midnight
<1>01. /\ clock \in Int
       /\ loop = "trigger" => now \in Int /\ now <= clock /\ DigestDate(now) \in Dates
  BY DateOfTime DEF Ticking
<1>1. CASE Advance
  <2>1. clock' = clock + 1 /\ UNCHANGED <<loop, now, tasks>>
    BY <1>1 DEF Advance, queue
  <2>2. \A d \in Dates : HourHasCome(d, clock) => HourHasCome(d, clock')
    BY <1>01, <2>1, StillCome
  <2>3. loop' = "trigger" => HourHasCome(DigestDate(now), now)'
    BY <2>1 DEF HourHasCome, DigestDate, Midnight
  <2> QED
    BY <1>0, <2>1, <2>2, <2>3
<1>2. CASE Look
  <2>1. loop = "wait" /\ tick = clock /\ UNCHANGED <<clock, tasks>>
    BY <1>2 DEF Look, time, queue
  <2>2. \/ Due(tick) /\ now' = tick
        \/ UNCHANGED loop
    BY <1>2 DEF Look
  <2>3. loop' = "trigger" => HourHasCome(DigestDate(now'), now')
    BY <2>1, <2>2, DueHasCome
  <2> QED
    BY <1>0, <2>1, <2>3 DEF HourHasCome, DigestDate, Midnight
<1>3. CASE Trigger
  <2> DEFINE d == DigestDate(now)
  <2>1. d \in Dates /\ HourHasCome(d, clock)
    BY <1>3, <1>01, StillCome DEF Trigger
  <2>2. loop' = "wait" /\ UNCHANGED clock
    BY <1>3 DEF Trigger, time
  <2>3. \A e \in Dates : e # d => tasks'[<<"plain", e>>] = tasks[<<"plain", e>>]
    BY <1>0, <1>3 DEF Trigger, EnqueueTask, queue
  <2> HIDE DEF d
  <2> QED
    BY <1>0, <2>1, <2>2, <2>3
<1>4. CASE Restart
  BY <1>0, <1>4 DEF Restart, time, queue
<1>5. ASSUME NEW id \in ManualIds, ManualTrigger(id) PROVE ScheduleInv'
  <2>1. UNCHANGED <<clock, loop, now>> /\ \A d \in Dates : id # <<"plain", d>>
    BY <1>5 DEF ManualTrigger, time, scheduler, ForcedOnly
  <2>2. \A d \in Dates : tasks'[<<"plain", d>>] = tasks[<<"plain", d>>]
    BY <1>0, <1>5, <2>1 DEF ManualTrigger, EnqueueTask
  <2> QED
    BY <1>0, <2>1, <2>2 DEF HourHasCome, DigestDate, Midnight
<1>6. ASSUME NEW id \in Ids, Work(id) PROVE ScheduleInv'
  <2>1. UNCHANGED <<clock, loop, now>>
    BY <1>6 DEF Work, StartTask, CompleteTask, FailTask, time, scheduler
  <2>2. \A d \in Dates : tasks'[<<"plain", d>>] # "none" => tasks[<<"plain", d>>] # "none"
    BY <1>0, <1>6 DEF Work, StartTask, CompleteTask, FailTask
  <2> QED
    BY <1>0, <2>1, <2>2 DEF HourHasCome, DigestDate, Midnight
<1>7. CASE Configure \/ UNCHANGED vars
  BY <1>0, <1>7 DEF Configure, vars, time, scheduler, queue, HourHasCome, DigestDate, Midnight
<1> QED
  BY <1>1, <1>2, <1>3, <1>4, <1>5, <1>6, <1>7 DEF Next

(* However often a task is redelivered and whatever is restarted or         *)
(* reconfigured, its window reaches at least to the earliest hour that is   *)
(* configured for its date.                                                 *)
THEOREM ScheduleReached == ASSUME NotBehind, ForcedOnly PROVE Spec => ReachesSchedule
<1>1. Init => ScheduleInv
  BY ScheduleInit
<1>2. TypeOK /\ Ticking /\ ScheduleInv /\ [Next]_vars => ScheduleInv'
  BY ScheduleStep
<1>3. TypeOK /\ ScheduleInv /\ [Next]_vars =>
        [\A d \in Dates : StartTask(<<"plain", d>>) =>
           \E c \in Configs : WindowEnd(d, clock) >= H * d + c.at - c.zone]_vars
  <2> SUFFICES ASSUME TypeOK, ScheduleInv, NEW d \in Dates, StartTask(<<"plain", d>>)
               PROVE  \E c \in Configs : WindowEnd(d, clock) >= H * d + c.at - c.zone
    OBVIOUS
  <2>1. HourHasCome(d, clock)
    BY DEF StartTask, ScheduleInv
  <2>2. PICK c \in Configs : Midnight(d) + c.at - c.zone <= clock
    BY <2>1 DEF HourHasCome
  <2>3. c.at \in 0 .. H - 1 /\ c.zone \in Nat
    BY ConfigsAssumption, HAssumption DEF NotBehind
  <2>4. Midnight(d) \in Int /\ Midnight(d) <= clock /\ clock \in Int /\ d \in Int /\ H \in Nat
    BY <2>1, Midnights, Bounds DEF HourHasCome, Dates, TypeOK
  <2>5. Midnight(d + 1) = Midnight(d) + H
    BY <2>4, Midnights
  <2>6. WindowEnd(d, clock) = IF clock > Midnight(d + 1) THEN Midnight(d + 1) ELSE clock
    BY <2>4, <2>5 DEF WindowEnd, Midnight
  <2>7. WindowEnd(d, clock) >= Midnight(d) + c.at - c.zone
    BY <2>2, <2>3, <2>4, <2>5, <2>6
  <2> QED
    BY <2>7 DEF Midnight
<1> QED
  BY <1>1, <1>2, <1>3, TickingAlways, PTL DEF Spec, ReachesSchedule

-----------------------------------------------------------------------------
(* The run of a date.                                                       *)

(* Candidates and plan are entries with a dossier, the plan is not empty    *)
(* once it is to be claimed, a claimed row exists while it is published.    *)
Handed ==
  /\ candidates \subseteq dossiers /\ plan \subseteq dossiers
  /\ step \in {"begin", "publish"} => plan # {}
  /\ step = "publish" => rowState # "absent"

RowTraced == rowState # "absent" => items # {} /\ items \subseteq dossiers

RunInv ==
  /\ RunTypeOK
  /\ marked \subseteq dossiers
  /\ Handed
  /\ RowTraced

-----------------------------------------------------------------------------
LEMMA RunInvInit == RunInit => RunInv
<1> SUFFICES ASSUME RunInit PROVE RunInv
  OBVIOUS
<1>1. NoTwins(articles)
  BY DEF RunInit, NoTwins
<1>2. failed \in 0 .. MaxFailures
  BY MaxFailuresAssumption DEF RunInit
<1>3. force \in BOOLEAN
  BY DEF RunInit
<1>4. RunTypeOK
  BY <1>1, <1>2, <1>3 DEF RunInit, RunTypeOK, RowStates
<1> QED
  BY <1>4 DEF RunInit, RunInv, Handed, RowTraced

(* A failing stage counts the failure within its bound.                     *)
LEMMA FailAtBounded ==
  ASSUME NEW from, FailAt(from), failed \in 0 .. MaxFailures
  PROVE  failed' \in 0 .. MaxFailures /\ step = from /\ step' = "idle"
BY MaxFailuresAssumption DEF FailAt, Goto

LEMMA RunInvStep == RunInv /\ [RunNext]_runVars => RunInv'
<1> SUFFICES ASSUME RunInv, [RunNext]_runVars PROVE RunInv'
  OBVIOUS
<1> USE DEF RunInv, RunTypeOK, Handed, RowTraced
<1>1. ASSUME NEW e \in Entries, Arrive(e) PROVE RunInv'
  BY <1>1 DEF Arrive, assets, digest, local, NoTwins
<1>2. ASSUME NEW e \in Entries, UserReads(e) PROVE RunInv'
  BY <1>2 DEF UserReads, assets, digest, local, NoTwins
<1>3. ASSUME NEW f \in ForceModes, Start(f) PROVE RunInv'
  <2>1. f \in BOOLEAN
    BY ForceModesAssumption
  <2> QED
    BY <1>3, <2>1 DEF Start, Goto, miniflux, assets, digest, NoTwins
<1>4. CASE FetchAndPersist
  <2>1. articles \subseteq articles' /\ articles' \subseteq arrived /\ NoTwins(articles)'
    BY <1>4 DEF FetchAndPersist, NoTwins
  <2>2. failed' \in 0 .. MaxFailures
    BY <1>4, FailAtBounded DEF FetchAndPersist
  <2>3. step' \in {"list", "idle"}
    BY <1>4, FailAtBounded DEF FetchAndPersist, Goto
  <2> QED
    BY <1>4, <2>1, <2>2, <2>3 DEF FetchAndPersist, miniflux, digest, local
<1>5. CASE ListPending
  BY <1>5 DEF ListPending, Goto, miniflux, assets, digest, NoTwins
<1>6. CASE ProcessPending
  BY <1>6 DEF ProcessPending, MarkEntriesRead, Goto, digest, NoTwins
<1>7. CASE ProcessPendingFails
  <2>1. failed' \in 0 .. MaxFailures /\ step' = "idle"
    BY <1>7, FailAtBounded DEF ProcessPendingFails, Goto
  <2>2. /\ dossiers \subseteq dossiers' /\ dossiers' \subseteq articles
        /\ marked' \subseteq dossiers' /\ unread' \subseteq arrived
    BY <1>7 DEF ProcessPendingFails, MarkEntriesRead
  <2>3. /\ UNCHANGED <<arrived, articles, rowState, items>>
        /\ UNCHANGED <<force, listed, candidates, plan>>
    BY <1>7 DEF ProcessPendingFails, digest, local
  <2>4. NoTwins(articles)'
    BY <2>3 DEF NoTwins
  <2>5. RunTypeOK'
    BY <2>1, <2>2, <2>3, <2>4
  <2>6. Handed' /\ RowTraced'
    BY <2>1, <2>2, <2>3
  <2> QED
    BY <2>2, <2>5, <2>6
<1>8. CASE Generate
  BY <1>8 DEF Generate, Goto, miniflux, assets, digest, NoTwins
<1>9. CASE GenerateFails
  <2>1. failed' \in 0 .. MaxFailures /\ step' = "idle"
    BY <1>9, FailAtBounded DEF GenerateFails, Goto
  <2> QED
    BY <1>9, <2>1 DEF GenerateFails, miniflux, assets, digest, local, NoTwins
<1>10. CASE BeginPublish
  <2>1. step = "begin" /\ step' \in {"publish", "idle"}
    BY <1>10, FailAtBounded DEF BeginPublish, Goto
  <2>2. failed' \in 0 .. MaxFailures
    BY <1>10, FailAtBounded DEF BeginPublish
  <2>3. \/ rowState' = "publishing" /\ items' = plan
        \/ step' = "idle" /\ UNCHANGED digest
        \/ /\ step' = "idle" /\ rowState \notin {"absent", "failed"}
           /\ rowState' = "failed" /\ items' = items
    BY <1>10, FailAtBounded DEF BeginPublish, Claim, Claimable
  <2> QED
    BY <1>10, <2>1, <2>2, <2>3
       DEF BeginPublish, miniflux, assets, digest, local, NoTwins, RowStates
<1>11. CASE Publish
  <2>1. step = "publish" /\ step' = "idle" /\ failed' \in 0 .. MaxFailures
    BY <1>11, FailAtBounded DEF Publish, Goto
  <2>2. rowState' \in RowStates \ {"absent"} /\ items' = items
    BY <1>11 DEF Publish, RowStates
  <2> QED
    BY <1>11, <2>1, <2>2 DEF Publish, miniflux, assets, local, NoTwins
<1>12. CASE Crash
  <2>1. failed' \in 0 .. MaxFailures /\ step' = "idle"
    BY <1>12, FailAtBounded DEF Crash
  <2> QED
    BY <1>12, <2>1 DEF Crash, miniflux, assets, digest, local, NoTwins
<1>13. CASE UNCHANGED runVars
  BY <1>13 DEF runVars, NoTwins
<1> QED
  BY <1>1, <1>2, <1>3, <1>4, <1>5, <1>6, <1>7, <1>8, <1>9, <1>10, <1>11, <1>12, <1>13
     DEF RunNext, Step

LEMMA RunInvAlways == RunSpec => []RunInv
BY RunInvInit, RunInvStep, PTL DEF RunSpec

-----------------------------------------------------------------------------
(* The variables keep their types, an entry is persisted at most once per   *)
(* text, and only persisted entries get a dossier.                          *)
THEOREM RunTypeCorrect == RunSpec => []RunTypeOK
<1>1. RunInv => RunTypeOK
  BY DEF RunInv
<1> QED
  BY <1>1, RunInvAlways, PTL

(* Nothing that the worker takes out of the unread list is lost, however    *)
(* many calls fail, whenever the worker dies and whatever arrives meanwhile.*)
THEOREM NothingConsumedUnseen == RunSpec => []MarkedHasDossier
<1>1. RunInv => MarkedHasDossier
  BY DEF RunInv, RunTypeOK, MarkedHasDossier
<1> QED
  BY <1>1, RunInvAlways, PTL

(* A published row always names articles and their dossiers exist.          *)
THEOREM NothingUntracedPublished == RunSpec => []PublishedIsTraced
<1>1. RunInv => PublishedIsTraced
  BY DEF RunInv, RowTraced, PublishedIsTraced
<1> QED
  BY <1>1, RunInvAlways, PTL

-----------------------------------------------------------------------------
(* The settings of a task: secrets.                                         *)
LEMMA Keys ==
  /\ SecretKey["llm"] = "api_key" /\ OldKey["llm"] = "api_key"
  /\ SecretKey["miniflux"] = "api_token" /\ OldKey["miniflux"] = "api_token"
  /\ SecretKey["publish"] = "halo_token" /\ OldKey["publish"] = "auth_token"
BY DEF SecretKey, OldKey

LEMMA DecryptedText ==
  ASSUME NEW t \in Secrets \cup SealedTexts \cup {""}, NEW cipher
  PROVE  /\ Decrypted(t, cipher) = "" <=> t = ""
         /\ Decrypted(t, cipher) \in Secrets \cup {"", Unreadable}
         /\ t \notin SealedTexts => Decrypted(t, cipher) = t
<1> DEFINE Mine(k) == Sealed[k] = t
<1>1. CASE t \notin SealedTexts
  BY <1>1 DEF Decrypted
<1>2. CASE t \in SealedTexts /\ cipher /\ \E k \in Secrets : Mine(k)
  <2>1. Decrypted(t, cipher) = CHOOSE k \in Secrets : Mine(k)
    BY <1>2 DEF Decrypted
  <2>2. (CHOOSE k \in Secrets : Mine(k)) \in Secrets
    BY <1>2
  <2> QED
    BY <1>2, <2>1, <2>2, TextsAssumption
<1>3. CASE t \in SealedTexts /\ ~(cipher /\ \E k \in Secrets : Mine(k))
  BY <1>3, TextsAssumption DEF Decrypted
<1> QED
  BY <1>1, <1>2, <1>3

(* What is encrypted, if it was not, reads as before.                       *)
LEMMA EncryptedText ==
  ASSUME NEW t \in Secrets \cup SealedTexts, NEW cipher
  PROVE  /\ Encrypted(t) \in SealedTexts
         /\ cipher \/ t \in SealedTexts =>
              Decrypted(Encrypted(t), cipher) = Decrypted(t, cipher)
<1> DEFINE Mine(k) == Sealed[k] = Sealed[t]
<1>1. CASE t \in SealedTexts
  BY <1>1 DEF Encrypted
<1>2. CASE t \in Secrets
  <2>1. t \notin SealedTexts /\ Encrypted(t) = Sealed[t] /\ Sealed[t] \in SealedTexts
    BY <1>2, SealedAssumption, TextsAssumption DEF Encrypted
  <2>2. Decrypted(t, cipher) = t
    BY <2>1 DEF Decrypted
  <2>3. ASSUME cipher PROVE Decrypted(Sealed[t], cipher) = t
    <3>1. Decrypted(Sealed[t], cipher) = CHOOSE k \in Secrets : Mine(k)
      BY <1>2, <2>1, <2>3 DEF Decrypted
    <3>2. \A k \in Secrets : Mine(k) <=> k = t
      BY <1>2, SealedAssumption
    <3> QED
      BY <1>2, <3>1, <3>2
  <2> QED
    BY <2>1, <2>2, <2>3
<1> QED
  BY <1>1, <1>2

LEMMA StoredSecret ==
  ASSUME NEW t \in Types, NEW p, Payload(t, p)
  PROVE  /\ Existing(t, p) \in Secrets \cup SealedTexts \cup {""}
         /\ p[SecretKey[t]] # Missing => Existing(t, p) = Value(p[SecretKey[t]])
         /\ Trim(Existing(t, p)) = Existing(t, p)
<1> DEFINE k == p[SecretKey[t]]
           o == p[OldKey[t]]
<1>1. /\ k \in Secrets \cup SealedTexts \cup {"", Missing}
      /\ o \in Secrets \cup SealedTexts \cup {"", Missing}
      /\ k = "" => o \in {"", Missing}
  BY DEF Payload
<1>2. Existing(t, p) = IF Value(k) # "" THEN k ELSE Value(o)
  BY DEF Existing, First
<1> HIDE DEF k, o
<1>3. Existing(t, p) \in Secrets \cup SealedTexts \cup {""}
  BY <1>1, <1>2 DEF Value
<1>4. k # Missing => Existing(t, p) = Value(k)
  BY <1>1, <1>2 DEF Value
<1> QED
  BY <1>3, <1>4, TextsAssumption DEF Trim, k

LEMMA EnvironmentSecret ==
  ASSUME NEW t \in Types, NEW e \in Environments
  PROVE  EnvSecret(t, e) \in Secrets \cup {""}
BY EnvironmentsAssumption DEF EnvSecret, Types

(* The secret of a task: that of the profile if it has one, or an           *)
(* administrator saved it empty, else the environment's.                    *)
Own(t, v) == Explicit(v, SecretKey[t]) \/ Existing(t, v.payload) # ""

LEMMA SecretOfTask ==
  ASSUME NEW t \in Types, NEW v, Payload(t, v.payload), NEW e \in Environments
  PROVE  Runtime(t, v, e).secret =
           IF Own(t, v) THEN Decrypted(Existing(t, v.payload), e.cipher) ELSE EnvSecret(t, e)
<1>1. Runtime(t, v, e).secret = Secret(v, SecretKey[t], OldKey[t], EnvSecret(t, e), e.cipher)
  BY Keys DEF Types, Runtime, Publishing, EnvSecret
<1>2. Trim(Existing(t, v.payload)) = Existing(t, v.payload)
  BY StoredSecret
<1> QED
  BY <1>1, <1>2 DEF Secret, Own, Existing

LEMMA SecretOfPage ==
  ASSUME NEW t \in Types, NEW v, Payload(t, v.payload), NEW e \in Environments
  PROVE  Shown(t, v, e).secret <=> Runtime(t, v, e).secret # ""
<1> DEFINE s == Existing(t, v.payload)
<1>1. Shown(t, v, e).secret = IsSet(v, SecretKey[t], OldKey[t], EnvSecret(t, e))
  BY Keys DEF Types, Shown, Publishing, EnvSecret
<1>2. /\ s \in Secrets \cup SealedTexts \cup {""} /\ Trim(s) = s
      /\ v.payload[SecretKey[t]] # Missing => s = Value(v.payload[SecretKey[t]])
  BY StoredSecret
<1>3. Decrypted(s, e.cipher) = "" <=> s = ""
  BY <1>2, DecryptedText
<1>4. Runtime(t, v, e).secret =
        IF Own(t, v) THEN Decrypted(s, e.cipher) ELSE EnvSecret(t, e)
  BY SecretOfTask
<1>5. IsSet(v, SecretKey[t], OldKey[t], EnvSecret(t, e)) <=>
        IF Own(t, v) THEN s # "" ELSE EnvSecret(t, e) # ""
  <2>1. CASE Explicit(v, SecretKey[t])
    BY <1>2, <2>1 DEF IsSet, Own, Explicit
  <2>2. CASE ~Explicit(v, SecretKey[t])
    BY <1>2, <2>2 DEF IsSet, Own, Existing
  <2> QED
    BY <2>1, <2>2
<1> QED
  BY <1>1, <1>3, <1>4, <1>5

(* No secret is white space.                                                *)
LEMMA SecretIsText ==
  ASSUME NEW t \in Types, NEW v, Payload(t, v.payload), NEW e \in Environments
  PROVE  Runtime(t, v, e).secret \in Secrets \cup {"", Unreadable}
<1>1. Existing(t, v.payload) \in Secrets \cup SealedTexts \cup {""}
  BY StoredSecret
<1>2. Decrypted(Existing(t, v.payload), e.cipher) \in Secrets \cup {"", Unreadable}
  BY <1>1, DecryptedText
<1>3. EnvSecret(t, e) \in Secrets \cup {""}
  BY EnvironmentSecret
<1>4. Runtime(t, v, e).secret =
        IF Own(t, v) THEN Decrypted(Existing(t, v.payload), e.cipher) ELSE EnvSecret(t, e)
  BY SecretOfTask
<1> QED
  BY <1>2, <1>3, <1>4

-----------------------------------------------------------------------------
(* Every payload is one that a save may leave.                              *)
LEMMA KeptSecret ==
  ASSUME NEW t \in Types, NEW p, Payload(t, p), NEW e \in Environments, NEW how
  PROVE  NewSecret(t, p, how, e) \in SealedTexts \cup {"", Missing}
<1>1. Existing(t, p) # "" => Encrypted(Existing(t, p)) \in SealedTexts
  BY StoredSecret, EncryptedText
<1>2. EnvSecret(t, e) # "" => Encrypted(EnvSecret(t, e)) \in SealedTexts
  BY EnvironmentSecret, EncryptedText
<1>3. Sealed["new"] \in SealedTexts
  BY SealedAssumption
<1> QED
  BY <1>1, <1>2, <1>3 DEF NewSecret, Kept

LEMMA Numbers ==
  ASSUME NEW m \in Int, NEW n \in Int
  PROVE  Number(m, n) \in Int /\ Capped(m) \in Int
BY CapAssumption DEF Number, Capped, DefaultTimeout

LEMMA SavedPayload ==
  ASSUME NEW t \in Types, NEW p, Payload(t, p), NEW in, NEW how, NEW e \in Environments,
         t = "llm" => in.timeout \in Int, t = "miniflux" => in.limit \in Int
  PROVE  Payload(t, NewPayload(t, p, in, how, e))
<1> DEFINE s == NewSecret(t, p, how, e)
           q == NewPayload(t, p, in, how, e)
<1>1. s \in SealedTexts \cup {"", Missing}
  BY KeptSecret
<1>2. q[SecretKey[t]] = s /\ q[OldKey[t]] \in {s, Missing}
  BY Keys DEF Types, NewPayload
<1>3. t # "publish" => q[OldKey[t]] = s
  BY Keys DEF Types, NewPayload
<1>4. t = "publish" => q[OldKey[t]] = Missing
  BY Keys DEF Types, NewPayload
<1>5. t = "llm" => q.timeout \in Int
  <2> SUFFICES ASSUME t = "llm" PROVE q.timeout \in Int
    OBVIOUS
  <2>1. p.timeout \in Int /\ in.timeout \in Int
    BY DEF Payload
  <2>2. q.timeout = Capped(Number(in.timeout, p.timeout))
    BY DEF NewPayload
  <2> QED
    BY <2>1, <2>2, Numbers
<1>6. t = "miniflux" => q.limit \in Int
  <2> SUFFICES ASSUME t = "miniflux" PROVE q.limit \in Int
    OBVIOUS
  <2>1. p.limit \in Int /\ in.limit \in Int
    BY DEF Payload
  <2>2. q.limit = Number(in.limit, p.limit)
    BY DEF NewPayload
  <2> QED
    BY <2>1, <2>2, Numbers
<1> HIDE DEF q, s
<1>7. Payload(t, q)
  BY <1>1, <1>2, <1>3, <1>4, <1>5, <1>6 DEF Payload
<1> QED
  BY <1>7 DEF q

LEMMA ShownNumbers ==
  ASSUME NEW t \in Types, NEW v, Payload(t, v.payload), NEW e \in Environments
  PROVE  /\ t = "llm" => Shown(t, v, e).timeout \in Int
         /\ t = "miniflux" => Shown(t, v, e).limit \in Int
<1>1. t = "llm" => Shown(t, v, e).timeout = Capped(Number(v.payload.timeout, e.timeout))
  BY DEF Shown
<1>2. t = "llm" => v.payload.timeout \in Int /\ e.timeout \in Int
  BY EnvironmentsAssumption DEF Payload
<1>3. t = "miniflux" => Shown(t, v, e).limit = Number(v.payload.limit, DefaultLimit)
  BY DEF Shown
<1>4. t = "miniflux" => v.payload.limit \in Int
  BY DEF Payload
<1>5. DefaultLimit \in Int
  BY DEF DefaultLimit
<1> QED
  BY <1>1, <1>2, <1>3, <1>4, <1>5, Numbers

-----------------------------------------------------------------------------
(* Complete settings.                                                       *)
LEMMA AliasNames ==
  /\ DOMAIN Aliases = {"halo", "markdown", "markdown_export"}
  /\ Aliases["halo"] = "halo" /\ Aliases["markdown"] = "markdown_export"
  /\ Aliases["markdown_export"] = "markdown_export"
BY DEF Aliases

LEMMA ResolvedAgain ==
  ASSUME NEW x, NEW u, NEW w
  PROVE  /\ Resolved(Resolved(x, u), w) = Resolved(x, u)
         /\ Trim(Resolved(x, u)) = Resolved(x, u) /\ Resolved(x, u) # ""
         /\ Resolved(x, u) \in DOMAIN Aliases => Aliases[Resolved(x, u)] = Resolved(x, u)
<1>1. \/ Resolved(x, u) \in {"halo", "markdown_export"}
      \/ Resolved(x, u) = x /\ x \notin DOMAIN Aliases /\ Trim(x) # ""
  BY AliasNames DEF Resolved
<1>2. CASE Resolved(x, u) \in {"halo", "markdown_export"}
  BY <1>2, AliasNames DEF Resolved, Trim
<1>3. CASE Resolved(x, u) = x /\ x \notin DOMAIN Aliases /\ Trim(x) # ""
  BY <1>3 DEF Resolved, Trim
<1> QED
  BY <1>1, <1>2, <1>3

(* Apart from the secret the page of a publisher shows what tasks use.      *)
LEMMA PublisherShown ==
  ASSUME NEW v, NEW e
  PROVE  LET c == Runtime("publish", v, e)
             s == Shown("publish", v, e)
         IN  /\ s.provider = c.provider /\ s.halo_base_url = c.halo_base_url
             /\ s.output_dir = c.output_dir /\ s.mode = c.mode
             /\ Resolved(c.provider, c.halo_base_url) = c.provider
             /\ DOMAIN s = {"provider", "halo_base_url", "output_dir", "mode", "secret"}
<1> DEFINE url == Text(v, "halo_base_url", "endpoint", e.halo_base_url)
           provider == Resolved(ProviderOf(v, e), url)
<1>1. /\ Runtime("publish", v, e).provider = provider
      /\ Runtime("publish", v, e).halo_base_url = url
  BY DEF Runtime, Publishing
<1>2. Resolved(provider, url) = provider
  BY ResolvedAgain
<1>3. LET c == Runtime("publish", v, e)
          s == Shown("publish", v, e)
      IN  /\ s.provider = c.provider /\ s.halo_base_url = c.halo_base_url
          /\ s.output_dir = c.output_dir /\ s.mode = c.mode
          /\ DOMAIN s = {"provider", "halo_base_url", "output_dir", "mode", "secret"}
  BY DEF Runtime, Shown, Publishing
<1> HIDE DEF url, provider
<1> QED
  BY <1>1, <1>2, <1>3

LEMMA MinifluxComplete ==
  ASSUME NEW v, Payload("miniflux", v.payload), NEW e \in Environments,
         Runtime("miniflux", v, e).secret # Unreadable
  PROVE  LET c == Runtime("miniflux", v, e)
             s == Shown("miniflux", v, e)
         IN  /\ Testable("miniflux", c) <=> Accepts("miniflux", c)
             /\ Accepts("miniflux", c) => Configured("miniflux", s)
             /\ Configured("miniflux", s) =>
                  Accepts("miniflux", c) \/ " " \in {s[f] : f \in DOMAIN s \ {"secret"}}
<1> DEFINE c == Runtime("miniflux", v, e)
           s == Shown("miniflux", v, e)
<1>1. c.base_url = s.base_url /\ "base_url" \in DOMAIN s \ {"secret"}
  BY DEF Runtime, Shown
<1>2. c.secret \in Secrets \cup {""} /\ (s.secret <=> c.secret # "")
  BY SecretIsText, SecretOfPage DEF Types
<1>3. Trim(c.secret) = c.secret
  BY <1>2, TextsAssumption DEF Trim
<1> HIDE DEF c, s
<1>4. Accepts("miniflux", c) <=> Trim(c.base_url) # "" /\ c.secret # ""
  BY <1>3 DEF Accepts
<1>5. Testable("miniflux", c) <=> Trim(c.base_url) # "" /\ c.secret # ""
  BY <1>3 DEF Testable
<1>6. Configured("miniflux", s) <=> c.base_url # "" /\ c.secret # ""
  BY <1>1, <1>2 DEF Configured
<1>7. c.base_url # "" => Trim(c.base_url) # "" \/ s["base_url"] = " "
  BY <1>1 DEF Trim
<1>8. Trim(c.base_url) # "" => c.base_url # ""
  BY DEF Trim
<1> QED
  BY <1>1, <1>4, <1>5, <1>6, <1>7, <1>8 DEF c, s

LEMMA PublisherComplete ==
  ASSUME NEW v, Payload("publish", v.payload), NEW e \in Environments,
         Runtime("publish", v, e).secret # Unreadable
  PROVE  LET c == Runtime("publish", v, e)
             s == Shown("publish", v, e)
         IN  /\ Testable("publish", c) <=> Accepts("publish", c)
             /\ Accepts("publish", c) => Configured("publish", s)
             /\ Configured("publish", s) =>
                  Accepts("publish", c) \/ " " \in {s[f] : f \in DOMAIN s \ {"secret"}}
<1> DEFINE c == Runtime("publish", v, e)
           s == Shown("publish", v, e)

<1>1. /\ s.provider = c.provider /\ s.halo_base_url = c.halo_base_url
      /\ s.output_dir = c.output_dir
      /\ Resolved(c.provider, c.halo_base_url) = c.provider
      /\ {"halo_base_url", "output_dir"} \subseteq DOMAIN s \ {"secret"}
  BY PublisherShown
<1>2. c.secret \in Secrets \cup {""} /\ (s.secret <=> c.secret # "")
  BY SecretIsText, SecretOfPage DEF Types
<1>3. Trim(c.secret) = c.secret
  BY <1>2, TextsAssumption DEF Trim
<1> HIDE DEF c, s
<1>4. Accepts("publish", c) <=>
        \/ c.provider = "halo" /\ Trim(c.halo_base_url) # "" /\ c.secret # ""
        \/ c.provider = "markdown_export" /\ Trim(c.output_dir) # ""
  BY <1>3 DEF Accepts
<1>5. Testable("publish", c) <=>
        \/ c.provider = "halo" /\ Trim(c.halo_base_url) # "" /\ c.secret # ""
        \/ c.provider = "markdown_export" /\ Trim(c.output_dir) # ""
  <2>1. CASE c.provider = "halo"
    BY <1>1, <1>3, <2>1 DEF Testable
  <2>2. CASE c.provider = "markdown_export"
    BY <1>1, <2>2 DEF Testable
  <2>3. CASE c.provider \notin {"halo", "markdown_export"}
    BY <1>1, <2>3 DEF Testable
  <2> QED
    BY <2>1, <2>2, <2>3
<1>6. Configured("publish", s) <=>
        \/ c.provider = "halo" /\ c.halo_base_url # "" /\ c.secret # ""
        \/ c.provider = "markdown_export" /\ c.output_dir # ""
  BY <1>1, <1>2 DEF Configured
<1>7. /\ c.halo_base_url # "" => Trim(c.halo_base_url) # "" \/ s["halo_base_url"] = " "
      /\ c.output_dir # "" => Trim(c.output_dir) # "" \/ s["output_dir"] = " "
  BY <1>1 DEF Trim
<1>8. /\ Trim(c.halo_base_url) # "" => c.halo_base_url # ""
      /\ Trim(c.output_dir) # "" => c.output_dir # ""
  BY DEF Trim
<1>9. Accepts("publish", c) => Configured("publish", s)
  BY <1>4, <1>6, <1>8
<1>10. Configured("publish", s) =>
         Accepts("publish", c) \/ " " \in {s[f] : f \in DOMAIN s \ {"secret"}}
  BY <1>1, <1>4, <1>6, <1>7
<1> QED
  BY <1>4, <1>5, <1>9, <1>10 DEF c, s

-----------------------------------------------------------------------------
(* Saving what is shown.                                                    *)
Resaved(t, v, e, n) ==
  Version(n, FALSE, NewPayload(t, v.payload, Shown(t, v, e), "keep", e))

LEMMA ResavedPayload ==
  ASSUME NEW t \in Types, NEW v, Payload(t, v.payload), NEW e \in Environments, NEW n
  PROVE  Payload(t, Resaved(t, v, e, n).payload)
<1>1. Payload(t, NewPayload(t, v.payload, Shown(t, v, e), "keep", e))
  BY ShownNumbers, SavedPayload
<1> QED
  BY <1>1 DEF Resaved, Version

LEMMA ResavedSecret ==
  ASSUME NEW t \in Types, NEW v, Payload(t, v.payload), NEW e \in Environments, NEW n,
         CanSave(t, v.payload, Shown(t, v, e), "keep", e)
  PROVE  \/ Runtime(t, v, e).secret = ""
         \/ Runtime(t, Resaved(t, v, e, n), e).secret = Runtime(t, v, e).secret
<1> DEFINE p == v.payload
           w == Resaved(t, v, e, n)
           a == Runtime(t, v, e).secret
           b == Runtime(t, w, e).secret
           kept == Kept(t, p, e)
<1>1. /\ a = IF Own(t, v) THEN Decrypted(Existing(t, p), e.cipher) ELSE EnvSecret(t, e)
      /\ b = IF Own(t, w) THEN Decrypted(Existing(t, w.payload), e.cipher) ELSE EnvSecret(t, e)
  BY ResavedPayload, SecretOfTask
<1>2. Payload(t, w.payload)
  BY ResavedPayload
<1>3. w.payload[SecretKey[t]] = kept
  BY Keys DEF Types, Resaved, Version, NewPayload, NewSecret
<1>4. \/ e.cipher \/ Existing(t, p) \in SealedTexts \/ kept = Missing
  BY DEF CanSave
<1>5. Existing(t, p) \in Secrets \cup SealedTexts \cup {""}
  BY StoredSecret
<1>6. EnvSecret(t, e) \in Secrets \cup {""}
  BY EnvironmentSecret
<1> HIDE DEF w, a, b
<1>7. ASSUME kept \in SealedTexts PROVE b = Decrypted(kept, e.cipher)
  <2>1. kept # Missing /\ kept # "" /\ Value(kept) = kept
    BY <1>7, TextsAssumption DEF Value
  <2>2. Existing(t, w.payload) = kept
    BY <1>2, <1>3, <2>1, StoredSecret
  <2> QED
    BY <1>1, <2>1, <2>2 DEF Own
<1>8. CASE Existing(t, p) # ""
  <2>1. kept = Encrypted(Existing(t, p)) /\ kept \in SealedTexts
    BY <1>5, <1>8, EncryptedText DEF Kept
  <2>2. e.cipher \/ Existing(t, p) \in SealedTexts
    BY <1>4, <2>1, TextsAssumption
  <2>3. Decrypted(kept, e.cipher) = Decrypted(Existing(t, p), e.cipher)
    BY <1>5, <1>8, <2>1, <2>2, EncryptedText
  <2> QED
    BY <1>1, <1>7, <1>8, <2>1, <2>3 DEF Own, a, b, w
<1>9. CASE Existing(t, p) = "" /\ Own(t, v)
  <2>1. Decrypted("", e.cipher) = ""
    BY TextsAssumption DEF Decrypted
  <2> QED
    BY <1>1, <1>9, <2>1 DEF a
<1>10. CASE Existing(t, p) = "" /\ ~Own(t, v)
  <2>1. CASE EnvSecret(t, e) # ""
    <3>1. kept = Encrypted(EnvSecret(t, e)) /\ kept \in SealedTexts
      BY <1>6, <1>10, <2>1, EncryptedText DEF Kept
    <3>2. e.cipher
      BY <1>4, <1>10, <3>1, TextsAssumption
    <3>3. Decrypted(kept, e.cipher) = Decrypted(EnvSecret(t, e), e.cipher)
      BY <1>6, <2>1, <3>1, <3>2, EncryptedText
    <3>4. Decrypted(EnvSecret(t, e), e.cipher) = EnvSecret(t, e)
      BY <1>6, TextsAssumption DEF Decrypted
    <3> QED
      BY <1>1, <1>7, <1>10, <3>1, <3>3, <3>4 DEF a, b, w
  <2>2. CASE EnvSecret(t, e) = ""
    BY <1>1, <1>10, <2>2 DEF a
  <2> QED
    BY <2>1, <2>2
<1> QED
  BY <1>8, <1>9, <1>10 DEF a, b, w

(* Texts.                                                                   *)
LEMMA TextShown ==
  ASSUME NEW v, NEW key, NEW old, NEW default, default # Missing
  PROVE  Text(v, key, old, default) # Missing
BY TextsAssumption DEF Text, Value, First, Trim

LEMMA TextResaved ==
  ASSUME NEW w, ~w.seeded, NEW key, NEW old, NEW default, w.payload[key] # Missing
  PROVE  Text(w, key, old, default) = w.payload[key]
BY DEF Text, Explicit, Value

LEMMA EnvironmentTexts ==
  ASSUME NEW e \in Environments
  PROVE  /\ e.base_url # Missing /\ e.model # Missing /\ e.mf_url # Missing
         /\ e.halo_base_url # Missing /\ e.output_dir # Missing
BY EnvironmentsAssumption

LEMMA TimeoutResaved ==
  ASSUME NEW m \in Int, NEW n \in Int
  PROVE  LET shown == Capped(Number(m, n))
             a == Number(m, Number(n, DefaultTimeout))
             b == Number(Capped(Number(shown, m)), Number(n, DefaultTimeout))
         IN  a = b \/ a > Cap
BY CapAssumption DEF Number, Capped, DefaultTimeout

LEMMA LLMResaved ==
  ASSUME NEW v, Payload("llm", v.payload), NEW e \in Environments, NEW n,
         CanSave("llm", v.payload, Shown("llm", v, e), "keep", e)
  PROVE  Same("llm", Runtime("llm", v, e), Runtime("llm", Resaved("llm", v, e, n), e))
<1> DEFINE w == Resaved("llm", v, e, n)
           a == Runtime("llm", v, e)
           b == Runtime("llm", w, e)
<1>1. /\ a.base_url = Text(v, "base_url", "base_url", e.base_url)
      /\ a.model = Text(v, "model", "model", e.model)
      /\ b.base_url = Text(w, "base_url", "base_url", e.base_url)
      /\ b.model = Text(w, "model", "model", e.model)
      /\ a.timeout = Number(v.payload.timeout, Number(e.timeout, DefaultTimeout))
      /\ b.timeout = Number(w.payload.timeout, Number(e.timeout, DefaultTimeout))
      /\ DOMAIN a = {"base_url", "model", "timeout", "secret"}
  BY DEF Runtime
<1>2. /\ Shown("llm", v, e).base_url = a.base_url
      /\ Shown("llm", v, e).model = a.model
      /\ Shown("llm", v, e).timeout = Capped(Number(v.payload.timeout, e.timeout))
  BY <1>1 DEF Shown
<1>3. /\ w.payload["base_url"] = a.base_url /\ w.payload["model"] = a.model /\ ~w.seeded
      /\ w.payload.timeout = Capped(Number(Shown("llm", v, e).timeout, v.payload.timeout))
  BY <1>2 DEF Resaved, Version, NewPayload
<1>4. v.payload.timeout \in Int /\ e.timeout \in Int
  BY EnvironmentsAssumption DEF Payload
<1>5. a.secret = "" \/ b.secret = a.secret
  BY ResavedSecret DEF Types
<1> HIDE DEF w, a, b
<1>6. a.base_url # Missing /\ a.model # Missing
  BY <1>1, EnvironmentTexts, TextShown
<1>7. b.base_url = a.base_url /\ b.model = a.model
  BY <1>1, <1>3, <1>6, TextResaved
<1>8. a.timeout = b.timeout \/ a.timeout > Cap
  BY <1>1, <1>2, <1>3, <1>4, TimeoutResaved
<1>9. Same("llm", a, b)
  BY <1>1, <1>5, <1>7, <1>8 DEF Same
<1> QED
  BY <1>9 DEF a, b, w

LEMMA MinifluxResaved ==
  ASSUME NEW v, Payload("miniflux", v.payload), NEW e \in Environments, NEW n,
         CanSave("miniflux", v.payload, Shown("miniflux", v, e), "keep", e)
  PROVE  Same("miniflux", Runtime("miniflux", v, e),
              Runtime("miniflux", Resaved("miniflux", v, e, n), e))
<1> DEFINE w == Resaved("miniflux", v, e, n)
           a == Runtime("miniflux", v, e)
           b == Runtime("miniflux", w, e)
<1>1. /\ a.base_url = Text(v, "base_url", "base_url", e.mf_url)
      /\ b.base_url = Text(w, "base_url", "base_url", e.mf_url)
      /\ a.limit = Number(v.payload.limit, DefaultLimit)
      /\ b.limit = Number(w.payload.limit, DefaultLimit)
      /\ DOMAIN a = {"base_url", "limit", "secret"}
  BY DEF Runtime
<1>2. Shown("miniflux", v, e).base_url = a.base_url /\ Shown("miniflux", v, e).limit = a.limit
  BY <1>1 DEF Shown
<1>3. /\ w.payload["base_url"] = a.base_url /\ ~w.seeded
      /\ w.payload.limit = Number(a.limit, v.payload.limit)
  BY <1>2 DEF Resaved, Version, NewPayload
<1>4. v.payload.limit \in Int
  BY DEF Payload
<1>5. a.secret = "" \/ b.secret = a.secret
  BY ResavedSecret DEF Types
<1> HIDE DEF w, a, b
<1>6. a.base_url # Missing
  BY <1>1, EnvironmentTexts, TextShown
<1>7. b.base_url = a.base_url
  BY <1>1, <1>3, <1>6, TextResaved
<1>8. b.limit = a.limit
  BY <1>1, <1>3, <1>4 DEF Number, DefaultLimit
<1>9. Same("miniflux", a, b)
  BY <1>1, <1>5, <1>7, <1>8 DEF Same
<1> QED
  BY <1>9 DEF a, b, w

LEMMA PublisherResaved ==
  ASSUME NEW v, Payload("publish", v.payload), NEW e \in Environments, NEW n,
         CanSave("publish", v.payload, Shown("publish", v, e), "keep", e)
  PROVE  Same("publish", Runtime("publish", v, e),
              Runtime("publish", Resaved("publish", v, e, n), e))
<1> DEFINE w == Resaved("publish", v, e, n)
           a == Runtime("publish", v, e)
           b == Runtime("publish", w, e)
           s == Shown("publish", v, e)
<1>1. /\ a.halo_base_url = Text(v, "halo_base_url", "endpoint", e.halo_base_url)
      /\ b.halo_base_url = Text(w, "halo_base_url", "endpoint", e.halo_base_url)
      /\ a.output_dir = Text(v, "output_dir", "output_dir", e.output_dir)
      /\ b.output_dir = Text(w, "output_dir", "output_dir", e.output_dir)
      /\ a.provider = Resolved(ProviderOf(v, e), a.halo_base_url)
      /\ b.provider = Resolved(ProviderOf(w, e), b.halo_base_url)
      /\ a.mode = Mode(v.payload.mode) /\ b.mode = Mode(w.payload.mode)
      /\ DOMAIN a = {"provider", "halo_base_url", "output_dir", "mode", "secret"}
  BY DEF Runtime, Publishing
<1>2. /\ s.provider = a.provider /\ s.halo_base_url = a.halo_base_url
      /\ s.output_dir = a.output_dir /\ s.mode = a.mode
  BY PublisherShown
<1>3. /\ Trim(a.provider) = a.provider /\ a.provider # ""
      /\ a.provider \in DOMAIN Aliases => Aliases[a.provider] = a.provider
  <2> DEFINE x == ProviderOf(v, e)
             u == a.halo_base_url
  <2>1. a.provider = Resolved(x, u)
    BY <1>1
  <2> HIDE DEF x, u, a
  <2> QED
    BY <2>1, ResolvedAgain
<1>4. Asked("publish", v.payload, s) = a.provider
  BY <1>2, <1>3 DEF Asked
<1>5. a.provider \in DOMAIN Aliases
  BY <1>4 DEF CanSave
<1>6. /\ w.payload["provider"] = a.provider /\ w.payload["halo_base_url"] = a.halo_base_url
      /\ w.payload["output_dir"] = a.output_dir /\ w.payload["mode"] = Mode(a.mode)
      /\ ~w.seeded
  BY <1>2, <1>3, <1>4, <1>5 DEF Resaved, Version, NewPayload
<1>7. a.secret = "" \/ b.secret = a.secret
  BY ResavedSecret DEF Types
<1> HIDE DEF w, a, b, s
<1>8. a.halo_base_url # Missing /\ a.output_dir # Missing
  BY <1>1, EnvironmentTexts, TextShown
<1>9. b.halo_base_url = a.halo_base_url /\ b.output_dir = a.output_dir
  BY <1>1, <1>6, <1>8, TextResaved
<1>10. b.provider = a.provider
  <2>1. ProviderOf(w, e) = Value(a.provider) \/ a.provider = Missing
    BY <1>6 DEF ProviderOf, Explicit
  <2>2. a.provider # Missing
    BY <1>3, <1>5, AliasNames, TextsAssumption
  <2> QED
    BY <1>1, <1>3, <1>5, <2>1, <2>2 DEF Value, Resolved
<1>11. b.mode = a.mode
  BY <1>1, <1>6 DEF Mode
<1>12. Same("publish", a, b)
  BY <1>1, <1>7, <1>9, <1>10, <1>11 DEF Same
<1> QED
  BY <1>12 DEF a, b, w

-----------------------------------------------------------------------------
(* What a reader has read was active when it began or became so since.      *)
Current ==
  \A r \in Readers, t \in Types :
    /\ since[r][t] <= active[t].version
    /\ HasRead(r, t) => seen[r][t].version \in since[r][t] .. active[t].version

SettingsInv == SettingsTypeOK /\ Current

LEMMA NoSecret ==
  ASSUME NEW t \in Types, NEW p, {p[SecretKey[t]], p[OldKey[t]]} \subseteq {"", Missing},
         t = "llm" => p.timeout \in Int, t = "miniflux" => p.limit \in Int
  PROVE  Payload(t, p)
BY DEF Payload

LEMMA FirstPayloads ==
  ASSUME NEW t \in Types
  PROVE  Payload(t, Nothing[t]) /\ Payload(t, Seeded[t])
<1>1. CASE t = "llm"
  <2> DEFINE none == Nothing.llm
             first == Seeded.llm
  <2>1. none["api_key"] = Missing /\ first["api_key"] = Missing
    BY DEF Nothing, Seeded
  <2>2. none.timeout = 0 /\ first.timeout = 1
    BY DEF Nothing, Seeded, DefaultTimeout
  <2> HIDE DEF none, first
  <2>3. none.timeout \in Int /\ first.timeout \in Int
    BY <2>2
  <2>4. /\ {none[SecretKey[t]], none[OldKey[t]]} \subseteq {"", Missing}
        /\ {first[SecretKey[t]], first[OldKey[t]]} \subseteq {"", Missing}
    BY <1>1, <2>1, Keys
  <2>5. Payload(t, none) /\ Payload(t, first)
    BY <1>1, <2>3, <2>4, NoSecret
  <2> QED
    BY <1>1, <2>5 DEF none, first
<1>2. CASE t = "miniflux"
  <2> DEFINE none == Nothing.miniflux
             first == Seeded.miniflux
  <2>1. none["api_token"] = Missing /\ first["api_token"] = ""
    BY DEF Nothing, Seeded
  <2>2. none.limit = 0 /\ first.limit = 1
    BY DEF Nothing, Seeded, DefaultLimit
  <2> HIDE DEF none, first
  <2>3. none.limit \in Int /\ first.limit \in Int
    BY <2>2
  <2>4. /\ {none[SecretKey[t]], none[OldKey[t]]} \subseteq {"", Missing}
        /\ {first[SecretKey[t]], first[OldKey[t]]} \subseteq {"", Missing}
    BY <1>2, <2>1, Keys
  <2>5. Payload(t, none) /\ Payload(t, first)
    BY <1>2, <2>3, <2>4, NoSecret
  <2> QED
    BY <1>2, <2>5 DEF none, first
<1>3. CASE t = "publish"
  <2>1. /\ Seeded.publish["halo_token"] = "" /\ Seeded.publish["auth_token"] = Missing
        /\ {"halo_token", "auth_token"} \subseteq DOMAIN Seeded.publish
    BY DEF Seeded
  <2>2. Nothing.publish["halo_token"] = Missing /\ Nothing.publish["auth_token"] = Missing
    BY <2>1 DEF Nothing
  <2> QED
    BY <1>3, <2>1, <2>2, Keys DEF Payload
<1> QED
  BY <1>1, <1>2, <1>3 DEF Types

LEMMA SettingsInvInit == SettingsInit => SettingsInv
<1> SUFFICES ASSUME SettingsInit PROVE SettingsInv
  OBVIOUS
<1> DEFINE Past(p) ==
             /\ \A t \in Types : Payload(t, p[t])
             /\ \E n \in {0, 1}, b \in BOOLEAN : active = [t \in Types |-> Version(n, b, p[t])]
<1>1. \E p : Past(p)
  <2>1. ASSUME active = [t \in Types |-> Version(0, FALSE, Nothing[t])] PROVE Past(Nothing)
    BY <2>1, FirstPayloads
  <2>2. ASSUME active = [t \in Types |-> Version(1, TRUE, Seeded[t])] PROVE Past(Seeded)
    BY <2>2, FirstPayloads
  <2>3. ASSUME NEW h \in Histories, active = [t \in Types |-> Version(1, FALSE, h[t])]
        PROVE  Past(h)
    BY <2>3, HistoriesAssumption
  <2> HIDE DEF Past
  <2> QED
    BY <2>1, <2>2, <2>3 DEF SettingsInit
<1>2. /\ DOMAIN active = Types
      /\ \A t \in Types : active[t].version \in Nat /\ Payload(t, active[t].payload)
  BY <1>1 DEF Version
<1>3. \A r \in Readers, t \in Types : ~HasRead(r, t)
  BY DEF SettingsInit, HasRead, Types
<1>4. /\ env \in Environments /\ DOMAIN seen = Readers
      /\ \A r \in Readers : DOMAIN seen[r] = Types
      /\ pc \in [Readers -> Types \cup {"idle", "build", "running", "refused", "shown"}]
      /\ since \in [Readers -> [Types -> Nat]]
      /\ \A r \in Readers, t \in Types : since[r][t] = 0
  BY DEF SettingsInit
<1> QED
  BY <1>2, <1>3, <1>4 DEF SettingsInv, SettingsTypeOK, Current

(* A profile gets a later version.                                          *)
LEMMA Advanced ==
  ASSUME SettingsInv, NEW t \in Types, NEW v, v.version \in Nat, Payload(t, v.payload),
         active[t].version <= v.version,
         active' = [active EXCEPT ![t] = v], UNCHANGED <<env, pc, seen, since>>
  PROVE  SettingsInv'
<1>1. /\ DOMAIN active' = Types
      /\ \A u \in Types : /\ active'[u].version \in Nat /\ Payload(u, active'[u].payload)
                          /\ active[u].version \in Nat
                          /\ active[u].version <= active'[u].version
  BY DEF SettingsInv, SettingsTypeOK
<1>2. \A r \in Readers, u \in Types : HasRead(r, u)' <=> HasRead(r, u)
  BY DEF HasRead
<1>3. SettingsTypeOK'
  BY <1>1, <1>2 DEF SettingsInv, SettingsTypeOK
<1>4. Current'
  <2> SUFFICES ASSUME NEW r \in Readers, NEW u \in Types
               PROVE  /\ since[r][u] <= active'[u].version
                      /\ HasRead(r, u) =>
                           seen[r][u].version \in since[r][u] .. active'[u].version
    BY <1>2 DEF Current
  <2>1. since[r][u] \in Nat
    BY DEF SettingsInv, SettingsTypeOK
  <2>2. /\ since[r][u] <= active[u].version
        /\ HasRead(r, u) => seen[r][u].version \in since[r][u] .. active[u].version
    BY DEF SettingsInv, Current
  <2> QED
    BY <1>1, <2>1, <2>2
<1> QED
  BY <1>3, <1>4 DEF SettingsInv

LEMMA SavedStep ==
  ASSUME SettingsInv, NEW t \in Types, NEW in, NEW how, Saved(t, in, how),
         t = "llm" => in.timeout \in Int, t = "miniflux" => in.limit \in Int
  PROVE  SettingsInv'
<1> DEFINE v == Version(active[t].version + 1, FALSE,
                        NewPayload(t, active[t].payload, in, how, env))
<1>1. DOMAIN active = Types /\ active[t].version \in Nat /\ Payload(t, active[t].payload)
      /\ env \in Environments
  BY DEF SettingsInv, SettingsTypeOK
<1>2. active' = [active EXCEPT ![t] = v] /\ UNCHANGED <<env, pc, seen, since>>
  BY <1>1 DEF Saved
<1>3. v.version \in Nat /\ active[t].version <= v.version
  BY <1>1 DEF Version
<1>4. v.payload = NewPayload(t, active[t].payload, in, how, env)
  BY DEF Version
<1>5. Payload(t, v.payload)
  BY <1>1, <1>4, SavedPayload
<1> HIDE DEF v
<1> QED
  BY <1>2, <1>3, <1>5, Advanced

LEMMA ReadStep ==
  ASSUME SettingsInv, NEW r \in Readers, ReadProfile(r)
  PROVE  SettingsInv'
<1> DEFINE p == pc[r]
<1>1. /\ p \in Types /\ UNCHANGED <<env, active, since>>
      /\ pc' = [pc EXCEPT ![r] = After(p)]
      /\ seen' = [seen EXCEPT ![r] = [seen[r] EXCEPT ![p] = active[p]]]
  BY DEF ReadProfile
<1>2. After(p) \in {"miniflux", "publish", "build"}
  BY DEF After
<1>3. /\ DOMAIN seen' = Readers /\ \A q \in Readers : DOMAIN seen'[q] = Types
      /\ pc' \in [Readers -> Types \cup {"idle", "build", "running", "refused", "shown"}]
      /\ \A q \in Readers, t \in Types :
           seen'[q][t] = IF q = r /\ t = p THEN active[t] ELSE seen[q][t]
  BY <1>1, <1>2 DEF SettingsInv, SettingsTypeOK, Types
<1>4. \A q \in Readers, t \in Types : HasRead(q, t)' => HasRead(q, t) \/ (q = r /\ t = p)
  <2> SUFFICES ASSUME NEW q \in Readers, NEW t \in Types, HasRead(q, t)'
               PROVE  HasRead(q, t) \/ (q = r /\ t = p)
    OBVIOUS
  <2>1. pc'[q] = IF q = r THEN After(p) ELSE pc[q]
    BY <1>1 DEF SettingsInv, SettingsTypeOK
  <2>2. CASE q # r
    BY <2>1, <2>2 DEF HasRead
  <2>3. CASE q = r
    BY <1>1, <2>1, <2>3 DEF HasRead, After, Types
  <2> QED
    BY <2>2, <2>3
<1>5. SettingsTypeOK'
  BY <1>1, <1>3, <1>4 DEF SettingsInv, SettingsTypeOK
<1>6. Current'
  <2> SUFFICES ASSUME NEW q \in Readers, NEW t \in Types
               PROVE  /\ since[q][t] <= active[t].version
                      /\ HasRead(q, t)' =>
                           seen'[q][t].version \in since[q][t] .. active[t].version
    BY <1>1 DEF Current
  <2>1. since[q][t] \in Nat /\ active[t].version \in Nat
    BY DEF SettingsInv, SettingsTypeOK
  <2>2. /\ since[q][t] <= active[t].version
        /\ HasRead(q, t) => seen[q][t].version \in since[q][t] .. active[t].version
    BY DEF SettingsInv, Current
  <2> QED
    BY <1>3, <1>4, <2>1, <2>2
<1> QED
  BY <1>5, <1>6 DEF SettingsInv

LEMMA BeginStep ==
  ASSUME SettingsInv, NEW r \in Readers, Begin(r)
  PROVE  SettingsInv'
<1>1. /\ UNCHANGED <<env, active>> /\ pc' = [pc EXCEPT ![r] = "llm"]
      /\ seen' = [seen EXCEPT ![r] = [t \in Types |-> Unread]]
      /\ since' = [since EXCEPT ![r] = [t \in Types |-> active[t].version]]
  BY DEF Begin
<1>2. /\ DOMAIN seen' = Readers /\ \A q \in Readers : DOMAIN seen'[q] = Types
      /\ pc' \in [Readers -> Types \cup {"idle", "build", "running", "refused", "shown"}]
      /\ since' \in [Readers -> [Types -> Nat]]
      /\ \A q \in Readers \ {r} : seen'[q] = seen[q] /\ pc'[q] = pc[q] /\ since'[q] = since[q]
      /\ pc'[r] = "llm" /\ \A t \in Types : since'[r][t] = active[t].version
  BY <1>1 DEF SettingsInv, SettingsTypeOK, Types
<1>3. /\ \A t \in Types : ~HasRead(r, t)'
      /\ \A q \in Readers \ {r}, t \in Types : HasRead(q, t)' <=> HasRead(q, t)
  BY <1>2 DEF HasRead, Types
<1>4. SettingsTypeOK'
  BY <1>1, <1>2, <1>3 DEF SettingsInv, SettingsTypeOK
<1>5. Current'
  <2> SUFFICES ASSUME NEW q \in Readers, NEW t \in Types
               PROVE  /\ since'[q][t] <= active[t].version
                      /\ HasRead(q, t)' =>
                           seen'[q][t].version \in since'[q][t] .. active[t].version
    BY <1>1 DEF Current
  <2>1. active[t].version \in Nat
    BY DEF SettingsInv, SettingsTypeOK
  <2>2. /\ since[q][t] <= active[t].version
        /\ HasRead(q, t) => seen[q][t].version \in since[q][t] .. active[t].version
    BY DEF SettingsInv, Current
  <2> QED
    BY <1>2, <1>3, <2>1, <2>2
<1> QED
  BY <1>4, <1>5 DEF SettingsInv

(* A task is built or refused, a page is shown.                             *)
LEMMA EndStep ==
  ASSUME SettingsInv, NEW r \in Readers, Build(r) \/ Show(r)
  PROVE  SettingsInv'
<1>1. /\ UNCHANGED <<env, active, seen, since>> /\ pc[r] = "build"
      /\ \E to \in {"running", "refused", "shown"} : pc' = [pc EXCEPT ![r] = to]
  BY DEF Build, Show
<1>2. /\ pc' \in [Readers -> Types \cup {"idle", "build", "running", "refused", "shown"}]
      /\ \A q \in Readers \ {r} : pc'[q] = pc[q]
      /\ pc'[r] \in {"running", "refused", "shown"}
  BY <1>1 DEF SettingsInv, SettingsTypeOK
<1>3. \A q \in Readers, t \in Types : HasRead(q, t)' <=> HasRead(q, t)
  BY <1>1, <1>2 DEF HasRead, Types
<1> QED
  BY <1>1, <1>2, <1>3 DEF SettingsInv, SettingsTypeOK, Current

LEMMA SettingsInvStep == SettingsInv /\ [SettingsNext]_settingsVars => SettingsInv'
<1> SUFFICES ASSUME SettingsInv, [SettingsNext]_settingsVars PROVE SettingsInv'
  OBVIOUS
<1>1. ASSUME NEW t \in Types, Seed(t) PROVE SettingsInv'
  <2> DEFINE v == Version(1, TRUE, Seeded[t])
  <2>1. /\ active' = [active EXCEPT ![t] = v]
        /\ active[t].version = 0 /\ UNCHANGED <<env, pc, seen, since>>
    BY <1>1 DEF Seed
  <2>2. v.version = 1 /\ v.payload = Seeded[t]
    BY DEF Version
  <2> HIDE DEF v
  <2>3. Payload(t, v.payload) /\ v.version \in Nat /\ active[t].version <= v.version
    BY <2>1, <2>2, FirstPayloads
  <2> QED
    BY <2>1, <2>3, Advanced
<1>2. ASSUME NEW r \in Readers, Begin(r) PROVE SettingsInv'
  BY <1>2, BeginStep
<1>3. ASSUME NEW r \in Readers, ReadProfile(r) PROVE SettingsInv'
  BY <1>3, ReadStep
<1>4. ASSUME NEW r \in Readers, Build(r) \/ Show(r) PROVE SettingsInv'
  BY <1>4, EndStep
<1>5. ASSUME NEW r \in Readers, NEW t \in Types, Resave(r, t) PROVE SettingsInv'
  <2>1. Saved(t, Shown(t, seen[r][t], env), "keep") /\ pc[r] = "shown"
    BY <1>5 DEF Resave
  <2>2. Payload(t, seen[r][t].payload) /\ env \in Environments
    BY <2>1 DEF SettingsInv, SettingsTypeOK, HasRead, Types
  <2> QED
    BY <2>1, <2>2, ShownNumbers, SavedStep
<1>6. ASSUME NEW r \in Readers, NEW t \in Types, NEW how \in Hows, SaveEdited(r, t, how)
      PROVE  SettingsInv'
  <2> DEFINE shown == Shown(t, seen[r][t], env)
             in(e) == [f \in DOMAIN shown |-> IF f \in DOMAIN e THEN e[f] ELSE shown[f]]
  <2>1. PICK e \in Edits[t] : Saved(t, in(e), how)
    BY <1>6 DEF SaveEdited
  <2>2. Payload(t, seen[r][t].payload) /\ env \in Environments
    BY <1>6 DEF SaveEdited, SettingsInv, SettingsTypeOK, HasRead, Types
  <2>3. /\ t = "llm" => shown.timeout \in Int /\ "timeout" \in DOMAIN shown
        /\ t = "miniflux" => shown.limit \in Int /\ "limit" \in DOMAIN shown
    <3>1. /\ t = "llm" => shown.timeout \in Int
          /\ t = "miniflux" => shown.limit \in Int
      BY <2>2, ShownNumbers
    <3>2. /\ t = "llm" => "timeout" \in DOMAIN shown
          /\ t = "miniflux" => "limit" \in DOMAIN shown
      BY DEF Shown
    <3> QED
      BY <3>1, <3>2
  <2> HIDE DEF shown
  <2>4. /\ t = "llm" => in(e).timeout \in Int
        /\ t = "miniflux" => in(e).limit \in Int
    BY <2>3, EditsAssumption
  <2> HIDE DEF in
  <2> QED
    BY <2>1, <2>4, SavedStep
<1>7. CASE UNCHANGED settingsVars
  BY <1>7 DEF settingsVars, SettingsInv, SettingsTypeOK, Current, HasRead
<1> QED
  BY <1>1, <1>2, <1>3, <1>4, <1>5, <1>6, <1>7 DEF SettingsNext

LEMMA SettingsInvAlways == SettingsSpec => []SettingsInv
BY SettingsInvInit, SettingsInvStep, PTL DEF SettingsSpec

(* Whatever is saved over whatever an earlier release left, secrets stay    *)
(* texts that can be kept and numbers stay numbers.                         *)
THEOREM SettingsTypeCorrect == SettingsSpec => []SettingsTypeOK
<1>1. SettingsInv => SettingsTypeOK
  BY DEF SettingsInv
<1> QED
  BY <1>1, SettingsInvAlways, PTL

(* However long a worker runs and however many profiles are saved while it  *)
(* reads them, a task never runs with a version that was replaced before it *)
(* began.                                                                   *)
THEOREM CurrentIsUsed == SettingsSpec => []UsesCurrent
<1>1. SettingsInv => UsesCurrent
  BY DEF SettingsInv, Current, UsesCurrent, HasRead, Readers, Types
<1> QED
  BY <1>1, SettingsInvAlways, PTL

(* For any environment, any past and any edits, the console tells of every  *)
(* secret whether tasks have it.                                            *)
THEOREM ShownIsUsed == SettingsSpec => []SecretShownIsUsed
<1>1. SettingsInv => SecretShownIsUsed
  BY SecretOfPage DEF SettingsInv, SettingsTypeOK, SecretShownIsUsed
<1> QED
  BY <1>1, SettingsInvAlways, PTL

(* The three notions of a complete configuration agree whatever is stored.  *)
THEOREM OneNotion == SettingsSpec => []OneNotionOfComplete
<1>1. SettingsInv => OneNotionOfComplete
  <2> SUFFICES ASSUME SettingsInv, NEW t \in {"miniflux", "publish"}, Readable(t)
               PROVE  LET c == Runtime(t, active[t], env)
                          s == Shown(t, active[t], env)
                      IN  /\ Testable(t, c) <=> Accepts(t, c)
                          /\ Accepts(t, c) => Configured(t, s)
                          /\ Configured(t, s) =>
                               Accepts(t, c) \/ " " \in {s[f] : f \in DOMAIN s \ {"secret"}}
    BY DEF OneNotionOfComplete
  <2>1. Payload(t, active[t].payload) /\ env \in Environments
    BY DEF SettingsInv, SettingsTypeOK, Types
  <2>2. CASE t = "miniflux"
    BY <2>1, <2>2, MinifluxComplete DEF Readable
  <2>3. CASE t = "publish"
    BY <2>1, <2>3, PublisherComplete DEF Readable
  <2> QED
    BY <2>2, <2>3
<1> QED
  BY <1>1, SettingsInvAlways, PTL

(* Saving what a page shows leaves every setting of the tasks as it was,    *)
(* for each form a secret, a text or a number may be stored in.             *)
THEOREM ResavedIsSame == SettingsSpec => ResaveChangesNothing
<1>1. ASSUME SettingsInv, NEW r \in Pages, NEW t \in Types,
             seen[r][t] = active[t], Resave(r, t)
      PROVE  Same(t, Runtime(t, active[t], env), Runtime(t, active'[t], env))
  <2> DEFINE v == active[t]
             n == active[t].version + 1
  <2>1. /\ CanSave(t, v.payload, Shown(t, v, env), "keep", env)
        /\ active' = [active EXCEPT ![t] = Resaved(t, v, env, n)]
    BY <1>1 DEF Resave, Saved, Resaved
  <2>2. Payload(t, v.payload) /\ env \in Environments /\ DOMAIN active = Types
    BY <1>1 DEF SettingsInv, SettingsTypeOK
  <2>3. active'[t] = Resaved(t, v, env, n)
    BY <2>1, <2>2
  <2> HIDE DEF v, n
  <2>4. Same(t, Runtime(t, v, env), Runtime(t, Resaved(t, v, env, n), env))
    BY <2>1, <2>2, LLMResaved, MinifluxResaved, PublisherResaved DEF Types
  <2> QED
    BY <2>3, <2>4 DEF v
<1>2. SettingsInv /\ [SettingsNext]_settingsVars =>
        [\A r \in Pages, t \in Types :
           active' # active /\ seen[r][t] = active[t] /\ Resave(r, t)
           => Same(t, Runtime(t, active[t], env), Runtime(t, active'[t], env))]_settingsVars
  BY <1>1
<1> QED
  BY <1>2, SettingsInvAlways, PTL DEF SettingsSpec, ResaveChangesNothing
=============================================================================
