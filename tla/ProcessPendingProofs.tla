------------------------ MODULE ProcessPendingProofs ------------------------
(***************************************************************************)
(* Proofs about module ProcessPending, for any number of entries and of    *)
(* workers.                                                                *)
(*                                                                         *)
(* PendingInv follows each job through the goroutines: it is in one place, *)
(* it is somewhere unless something went wrong, and what went wrong is     *)
(* known to the caller before the workers learn of it.  Stocked adds that  *)
(* results are sent only of entries already materialized, which is what    *)
(* the contract of PendingBatch rests on.                                  *)
(***************************************************************************)
EXTENDS ProcessPending, FiniteSetTheorems, FunctionTheorems, SequenceTheorems, WellFoundedInduction, TLAPS

Busy == {"run", "sendResult", "sendFailed", "sendAborted"}

(* A job that was handed out is in one place: with a worker that is busy    *)
(* with it, in the channel of the results, or collected.                    *)
OnePlace ==
  /\ \A w, u \in Workers :
       wpc[w] \in Busy /\ wpc[u] \in Busy /\ wjob[w] = wjob[u] => w = u
  /\ \A w \in Workers : wpc[w] \in Busy =>
       /\ wjob[w] \in 1 .. fed
       /\ \A k \in 1 .. Len(results) : results[k].order # wjob[w]
       /\ \A k \in 1 .. Len(received) : received[k] # wjob[w]
  /\ \A k \in 1 .. Len(results) :
       /\ results[k].order <= fed
       /\ \A l \in 1 .. Len(results) : results[k].order = results[l].order => k = l
       /\ \A l \in 1 .. Len(received) : results[k].order # received[l]
  /\ \A k \in 1 .. Len(received) :
       /\ received[k] <= fed
       /\ \A l \in 1 .. Len(received) : received[k] = received[l] => k = l

InPlace == \A k \in 1 .. Len(received) : candidates[received[k]] = jobs[received[k]]

Trouble == cancelled \/ \E w \in Workers : wpc[w] = "cancel"

(* Nothing gets lost as long as nothing goes wrong.                         *)
Accounted ==
  ~Trouble => \A i \in 1 .. fed :
    \/ \E w \in Workers : wpc[w] \in Busy /\ wjob[w] = i
    \/ \E k \in 1 .. Len(results) : results[k].order = i
    \/ \E k \in 1 .. Len(received) : received[k] = i

ErrorKnown == firstErr # "none" \/ \E k \in 1 .. Len(results) : results[k].kind # "ok"

Alarm == ErrorKnown => Trouble

(* Without the caller's doing, a failed job comes before its consequences.  *)
Caused ==
  /\ \A w \in Workers : wpc[w] = "sendAborted" => cancelled
  /\ ~Returned /\ ~parentGone /\ Trouble => ErrorKnown
  /\ ~parentGone =>
       /\ firstErr # "jobAborted"
       /\ \A k \in 1 .. Len(results) : results[k].kind = "jobAborted" =>
            firstErr # "none" \/ \E l \in 1 .. k - 1 : results[l].kind = "jobFailed"

AllDone == \A w \in Workers : wpc[w] = "done"

Running ==
  /\ caller # "collect" => AllDone
  /\ caller = "list" => fed = 0 /\ received = <<>> /\ results = <<>> /\ ~feeding /\ ~resultsOpen
                        /\ firstErr = "none" /\ jobs = <<>>
  /\ caller = "collect" =>
       /\ ~resultsOpen => AllDone
       /\ AllDone /\ ~cancelled => ~feeding
       /\ ~feeding /\ ~cancelled => fed = Len(jobs)
  /\ caller = "markRead" => Len(received) = Len(jobs)

PendingInv ==
  /\ TypeOK /\ OnePlace /\ InPlace /\ Accounted /\ Alarm /\ Caused /\ Running
  /\ CandidatesInOrder /\ ErrorIsTheCause

-----------------------------------------------------------------------------
(* A set of positions has one of every rank.                                *)
LEMMA Least ==
  ASSUME NEW T, T \subseteq Nat, T # {}
  PROVE  \E x \in T : \A y \in T : x <= y
<1>1. PICK x \in T : \A y \in T : ~(<<y, x>> \in OpToRel(<, Nat))
  BY NatLessThanWellFounded, WFMin
<1>2. ASSUME NEW y \in T PROVE x <= y
  <2>1. x \in Nat /\ y \in Nat
    BY <1>1
  <2>2. ~(y < x)
    BY <1>1, <2>1 DEF OpToRel
  <2> QED
    BY <2>1, <2>2
<1> QED
  BY <1>1, <1>2

LEMMA Ranked ==
  ASSUME NEW n \in Nat, NEW S \in SUBSET (1 .. n), NEW k \in 1 .. Cardinality(S)
  PROVE  \E i \in S : Cardinality(S \cap 1 .. i) = k
<1> DEFINE Rank(i) == Cardinality(S \cap 1 .. i)
           Reached == {i \in 1 .. n : Rank(i) >= k}
<1>1. ASSUME NEW i \in Int PROVE IsFiniteSet(S \cap 1 .. i) /\ Rank(i) \in Nat
  <2>1. IsFiniteSet(1 .. i)
    BY <1>1, FS_Interval
  <2>2. IsFiniteSet(S \cap 1 .. i)
    BY <2>1, FS_Intersection
  <2> QED
    BY <2>2, FS_CardinalityType
<1>2. IsFiniteSet(S) /\ Cardinality(S) \in Nat
  <2>1. IsFiniteSet(1 .. n)
    BY FS_Interval
  <2>2. IsFiniteSet(S)
    BY <2>1, FS_Subset
  <2> QED
    BY <2>2, FS_CardinalityType
<1>3. ASSUME NEW i \in 1 .. n
      PROVE  Rank(i) = IF i \in S THEN Rank(i - 1) + 1 ELSE Rank(i - 1)
  <2>1. CASE i \in S
    <3>1. S \cap 1 .. i = (S \cap 1 .. i - 1) \cup {i}
      BY <2>1
    <3>2. i \notin S \cap 1 .. i - 1
      OBVIOUS
    <3>3. IsFiniteSet(S \cap 1 .. i - 1)
      BY <1>1
    <3> QED
      BY <2>1, <3>1, <3>2, <3>3, FS_AddElement
  <2>2. CASE i \notin S
    <3>1. S \cap 1 .. i = S \cap 1 .. i - 1
      BY <2>2
    <3> QED
      BY <2>2, <3>1
  <2> QED
    BY <2>1, <2>2
<1>4. n \in Reached
  <2>1. S \cap 1 .. n = S
    OBVIOUS
  <2>2. n >= 1
    <3>1. S # {}
      BY FS_EmptySet
    <3>2. PICK i \in S : TRUE
      BY <3>1
    <3>3. i \in 1 .. n
      BY <3>2
    <3> QED
      BY <3>3
  <2> QED
    BY <1>2, <2>1, <2>2
<1>5. PICK i \in Reached : \A j \in Reached : i <= j
  <2>1. Reached \subseteq Nat
    OBVIOUS
  <2>2. Reached # {}
    BY <1>4
  <2> HIDE DEF Reached
  <2> QED
    BY <2>1, <2>2, Least
<1>6. Rank(i - 1) < k
  <2>1. CASE i = 1
    <3>1. S \cap 1 .. i - 1 = {}
      BY <2>1
    <3>2. Rank(i - 1) = 0
      BY <3>1, FS_EmptySet
    <3> QED
      BY <3>2
  <2>2. CASE i # 1
    <3>1. i - 1 \in 1 .. n /\ i - 1 \notin Reached
      BY <1>5, <2>2
    <3> QED
      BY <1>1, <3>1
  <2> QED
    BY <2>1, <2>2
<1>7. i \in 1 .. n /\ Rank(i) >= k /\ Rank(i) \in Nat /\ Rank(i - 1) \in Nat
  BY <1>1
<1> HIDE DEF Rank, Reached
<1>8. i \in S /\ Rank(i) = k
  BY <1>3, <1>6, <1>7
<1> QED
  BY <1>8 DEF Rank

LEMMA DedupType == ASSUME NEW list \in Listings PROVE Dedup(list) \in Seq(Nat \ {NoEntry})
<1> DEFINE first == {i \in DOMAIN list : \A j \in 1 .. i - 1 : list[j] # list[i]}
           Place(k) == CHOOSE i \in first : Cardinality(first \cap 1 .. i) = k
           n == Cardinality(first)
<1>1. list \in Seq(Nat \ {NoEntry}) /\ Len(list) \in Nat
  BY ListingsAssumption DEF NoEntry
<1>2. first \in SUBSET (1 .. Len(list)) /\ \A i \in first : list[i] \in Nat \ {NoEntry}
  BY <1>1
<1>3. Dedup(list) = [k \in 1 .. n |-> list[Place(k)]]
  BY DEF Dedup
<1> HIDE DEF first
<1>4. n \in Nat
  <2>1. IsFiniteSet(1 .. Len(list))
    BY <1>1, FS_Interval
  <2>2. IsFiniteSet(first)
    BY <1>2, <2>1, FS_Subset
  <2> QED
    BY <2>2, FS_CardinalityType
<1>5. ASSUME NEW k \in 1 .. n PROVE Place(k) \in first
  <2>1. \E i \in first : Cardinality(first \cap 1 .. i) = k
    BY <1>1, <1>2, Ranked
  <2> QED
    BY <2>1
<1> HIDE DEF Place, n
<1>6. \A k \in 1 .. n : list[Place(k)] \in Nat \ {NoEntry}
  BY <1>2, <1>5
<1> QED
  BY <1>3, <1>4, <1>6

LEMMA InitInv == Init => PendingInv
<1> SUFFICES ASSUME Init PROVE PendingInv
  OBVIOUS
<1> USE DEF Init
<1>1. TypeOK
  <2>1. Len(jobs) = 0 /\ jobs \in Seq(Nat \ {NoEntry}) /\ received \in Seq(1 .. Len(jobs))
    OBVIOUS
  <2>2. results \in Seq([kind : {"ok", "jobFailed", "jobAborted"}, order : 1 .. Len(jobs)])
    OBVIOUS
  <2>3. candidates \in [1 .. Len(jobs) -> Nat] /\ fed \in 0 .. Len(jobs)
    BY <2>1
  <2>4. wjob \in [Workers -> 0 .. Len(jobs)]
    BY <2>1
  <2>5. {feeding, resultsOpen, cancelled, parentGone} \subseteq BOOLEAN
    OBVIOUS
  <2> QED
    BY <2>1, <2>2, <2>3, <2>4, <2>5 DEF TypeOK
<1>2. OnePlace /\ InPlace /\ Accounted /\ Alarm /\ Caused
  BY DEF OnePlace, InPlace, Accounted, Alarm, ErrorKnown, Caused, Busy, Trouble, Returned, Outcomes
<1>3. Running /\ CandidatesInOrder /\ ErrorIsTheCause
  BY DEF Running, AllDone, CandidatesInOrder, ErrorIsTheCause
<1> QED
  BY <1>1, <1>2, <1>3 DEF PendingInv

-----------------------------------------------------------------------------
(* Sequences, and what is sent and collected.                               *)
LEMMA Appended ==
  ASSUME NEW S, NEW s \in Seq(S), NEW x \in S
  PROVE  /\ Append(s, x) \in Seq(S) /\ Len(Append(s, x)) = Len(s) + 1 /\ Len(s) \in Nat
         /\ Append(s, x)[Len(s) + 1] = x
         /\ \A k \in 1 .. Len(s) : Append(s, x)[k] = s[k]
OBVIOUS

LEMMA Tailed ==
  ASSUME NEW S, NEW s \in Seq(S), s # <<>>
  PROVE  /\ Tail(s) \in Seq(S) /\ Len(Tail(s)) = Len(s) - 1 /\ Len(s) \in Nat /\ Len(s) >= 1
         /\ Head(s) = s[1] /\ Head(s) \in S
         /\ \A k \in 1 .. Len(s) - 1 : Tail(s)[k] = s[k + 1]
OBVIOUS

Results == [kind : {"ok", "jobFailed", "jobAborted"}, order : 1 .. Len(jobs)]

LEMMA Types ==
  ASSUME TypeOK
  PROVE  /\ jobs \in Seq(Nat \ {NoEntry}) /\ Len(jobs) \in Nat /\ fed \in 0 .. Len(jobs)
         /\ results \in Seq(Results) /\ Len(results) \in Nat
         /\ received \in Seq(1 .. Len(jobs)) /\ Len(received) \in Nat
         /\ candidates \in [1 .. Len(jobs) -> Nat]
         /\ \A k \in 1 .. Len(results) : results[k] \in Results
         /\ \A k \in 1 .. Len(received) : received[k] \in 1 .. Len(jobs)
         /\ wjob \in [Workers -> 0 .. Len(jobs)]
<1>1. /\ jobs \in Seq(Nat \ {NoEntry}) /\ fed \in 0 .. Len(jobs) /\ results \in Seq(Results)
      /\ received \in Seq(1 .. Len(jobs)) /\ candidates \in [1 .. Len(jobs) -> Nat]
      /\ wjob \in [Workers -> 0 .. Len(jobs)]
  BY DEF TypeOK, Results
<1>2. Len(jobs) \in Nat /\ Len(results) \in Nat /\ Len(received) \in Nat
  BY <1>1
<1>3. \A k \in 1 .. Len(results) : results[k] \in Results
  BY <1>1
<1>4. \A k \in 1 .. Len(received) : received[k] \in 1 .. Len(jobs)
  BY <1>1, SMTT(30)
<1> QED
  BY <1>1, <1>2, <1>3, <1>4

(* Who does not take a job leaves the jobs where they are.                  *)
LEMMA PlaceKept ==
  ASSUME OnePlace, UNCHANGED <<wjob, results, received, fed>>,
         \A u \in Workers : wpc'[u] \in Busy => wpc[u] \in Busy
  PROVE  OnePlace'
BY DEF OnePlace

(* What worker w sends.                                                     *)
Sent(w, kind) ==
  /\ wpc[w] \in Busy /\ wpc'[w] \notin Busy
  /\ \A u \in Workers \ {w} : wpc'[u] = wpc[u]
  /\ results' = Append(results, [kind |-> kind, order |-> wjob[w]])
  /\ UNCHANGED <<wjob, received, fed, jobs>>

LEMMA SentFacts ==
  ASSUME TypeOK, OnePlace, NEW w \in Workers, NEW kind \in {"ok", "jobFailed", "jobAborted"},
         Sent(w, kind)
  PROVE  /\ wjob[w] \in 1 .. fed /\ [kind |-> kind, order |-> wjob[w]] \in Results
         /\ results' \in Seq(Results) /\ Len(results') = Len(results) + 1 /\ Len(results) \in Nat
         /\ results'[Len(results) + 1].order = wjob[w] /\ results'[Len(results) + 1].kind = kind
         /\ \A k \in 1 .. Len(results) : results'[k] = results[k]
<1> DEFINE x == [kind |-> kind, order |-> wjob[w]]
<1>1. wjob[w] \in 1 .. fed
  BY DEF Sent, OnePlace
<1>2. x \in Results
  BY <1>1, Types DEF Results
<1>3. x.order = wjob[w] /\ x.kind = kind /\ results' = Append(results, x) /\ results \in Seq(Results)
  BY Types DEF Sent
<1> HIDE DEF x
<1>4. /\ results' \in Seq(Results) /\ Len(results') = Len(results) + 1 /\ Len(results) \in Nat
      /\ results'[Len(results) + 1] = x
      /\ \A k \in 1 .. Len(results) : results'[k] = results[k]
  BY <1>2, <1>3, Appended
<1> QED
  BY <1>1, <1>2, <1>3, <1>4 DEF x

LEMMA PlaceSent ==
  ASSUME TypeOK, OnePlace, NEW w \in Workers, NEW kind \in {"ok", "jobFailed", "jobAborted"},
         Sent(w, kind)
  PROVE  OnePlace'
<1> DEFINE n == Len(results)
<1>1. /\ wjob[w] \in 1 .. fed /\ n \in Nat /\ Len(results') = n + 1
      /\ results'[n + 1].order = wjob[w]
      /\ \A k \in 1 .. n : results'[k].order = results[k].order
      /\ fed \in Nat
  <2>1. fed \in Nat
    BY Types
  <2>2. /\ wjob[w] \in 1 .. fed /\ n \in Nat /\ Len(results') = n + 1
        /\ results'[n + 1].order = wjob[w]
        /\ \A k \in 1 .. n : results'[k] = results[k]
    BY SentFacts
  <2> QED
    BY <2>1, <2>2
<1>2. /\ \A u \in Workers : wpc'[u] \in Busy => wpc[u] \in Busy /\ u # w
      /\ UNCHANGED <<wjob, received, fed>> /\ wpc[w] \in Busy
  BY DEF Sent
<1> HIDE DEF n
<1>3. \A k \in 1 .. Len(results') : k \in 1 .. n \/ k = n + 1
  BY <1>1
<1>4. /\ \A k \in 1 .. n : results[k].order # wjob[w] /\ results[k].order <= fed
      /\ \A k \in 1 .. Len(received) : received[k] # wjob[w]
  BY <1>2 DEF OnePlace, n
<1>5. ASSUME NEW u \in Workers, wpc'[u] \in Busy
      PROVE  /\ wjob'[u] \in 1 .. fed'
             /\ \A k \in 1 .. Len(results') : results'[k].order # wjob'[u]
             /\ \A k \in 1 .. Len(received') : received'[k] # wjob'[u]
  <2>1. wpc[u] \in Busy /\ u # w /\ wjob[u] # wjob[w]
    BY <1>2, <1>5 DEF OnePlace
  <2>2. \A k \in 1 .. n : results[k].order # wjob[u]
    BY <2>1 DEF OnePlace, n
  <2>3. \A k \in 1 .. Len(results') : results'[k].order # wjob[u]
    BY <1>1, <1>3, <2>1, <2>2
  <2>4. wjob[u] \in 1 .. fed /\ \A k \in 1 .. Len(received) : received[k] # wjob[u]
    BY <2>1 DEF OnePlace
  <2> QED
    BY <1>2, <2>3, <2>4
<1>6. ASSUME NEW k \in 1 .. Len(results')
      PROVE  /\ results'[k].order <= fed'
             /\ \A l \in 1 .. Len(results') : results'[k].order = results'[l].order => k = l
             /\ \A l \in 1 .. Len(received') : results'[k].order # received'[l]
  <2>1. results'[k].order <= fed'
    BY <1>1, <1>2, <1>3, <1>4
  <2>2. ASSUME NEW l \in 1 .. Len(results'), results'[k].order = results'[l].order PROVE k = l
    <3>1. \A i, j \in 1 .. n : results[i].order = results[j].order => i = j
      BY DEF OnePlace, n
    <3> QED
      BY <1>1, <1>3, <1>4, <2>2, <3>1
  <2>3. \A l \in 1 .. Len(received') : results'[k].order # received'[l]
    <3>1. \A i \in 1 .. n : \A l \in 1 .. Len(received) : results[i].order # received[l]
      BY DEF OnePlace, n
    <3> QED
      BY <1>1, <1>2, <1>3, <1>4, <3>1
  <2> QED
    BY <2>1, <2>2, <2>3
<1>7. \A u, v \in Workers :
        wpc'[u] \in Busy /\ wpc'[v] \in Busy /\ wjob'[u] = wjob'[v] => u = v
  BY <1>2 DEF OnePlace
<1>8. \A k \in 1 .. Len(received') :
        /\ received'[k] <= fed'
        /\ \A l \in 1 .. Len(received') : received'[k] = received'[l] => k = l
  BY <1>2 DEF OnePlace
<1> QED
  BY <1>5, <1>6, <1>7, <1>8 DEF OnePlace

(* What the caller collects.                                                *)
LEMMA CollectFacts ==
  ASSUME TypeOK, Collect
  PROVE  /\ Len(results) \in Nat /\ Len(results) >= 1 /\ results[1] \in Results
         /\ results' \in Seq(Results) /\ Len(results') = Len(results) - 1
         /\ \A k \in 1 .. Len(results') : k + 1 \in 1 .. Len(results) /\ results'[k] = results[k + 1]
         /\ results[1].kind = "ok" =>
              /\ received' \in Seq(1 .. Len(jobs)) /\ Len(received') = Len(received) + 1
              /\ received'[Len(received) + 1] = results[1].order
              /\ \A k \in 1 .. Len(received) : received'[k] = received[k]
              /\ candidates' = [candidates EXCEPT ![results[1].order] = jobs[results[1].order]]
              /\ firstErr' = firstErr
         /\ results[1].kind # "ok" =>
              /\ received' = received /\ candidates' = candidates
              /\ firstErr' = IF firstErr = "none" THEN results[1].kind ELSE firstErr
<1>1. results \in Seq(Results) /\ results # <<>> /\ received \in Seq(1 .. Len(jobs))
  BY Types DEF Collect
<1>2. /\ Len(results) \in Nat /\ Len(results) >= 1 /\ Head(results) = results[1]
      /\ results[1] \in Results
      /\ results' \in Seq(Results) /\ Len(results') = Len(results) - 1
      /\ \A k \in 1 .. Len(results) - 1 : results'[k] = results[k + 1]
  BY <1>1, Tailed DEF Collect
<1>3. \A k \in 1 .. Len(results') : k + 1 \in 1 .. Len(results) /\ results'[k] = results[k + 1]
  BY <1>2
<1>4. results[1].order \in 1 .. Len(jobs)
  BY <1>2 DEF Results
<1>5. CASE results[1].kind = "ok"
  <2>1. received' = Append(received, results[1].order)
    BY <1>2, <1>5 DEF Collect
  <2>2. /\ received' \in Seq(1 .. Len(jobs)) /\ Len(received') = Len(received) + 1
        /\ received'[Len(received) + 1] = results[1].order
        /\ \A k \in 1 .. Len(received) : received'[k] = received[k]
    BY <1>1, <1>4, <2>1, Appended
  <2>3. /\ candidates' = [candidates EXCEPT ![results[1].order] = jobs[results[1].order]]
        /\ firstErr' = firstErr
    BY <1>2, <1>5 DEF Collect
  <2> QED
    BY <1>2, <1>3, <1>5, <2>2, <2>3
<1>6. CASE results[1].kind # "ok"
  <2>1. /\ received' = received /\ candidates' = candidates
        /\ firstErr' = IF firstErr = "none" THEN results[1].kind ELSE firstErr
    BY <1>2, <1>6 DEF Collect
  <2> QED
    BY <1>2, <1>3, <1>6, <2>1
<1> QED
  BY <1>5, <1>6

LEMMA PlaceCollected ==
  ASSUME TypeOK, OnePlace, Collect
  PROVE  OnePlace'
<1> DEFINE n == Len(results)
           m == Len(received)
           r == results[1].order
<1>1. /\ n \in Nat /\ n >= 1 /\ m \in Nat /\ fed \in Nat /\ Len(results') = n - 1
      /\ \A k \in 1 .. Len(results') : k + 1 \in 1 .. n /\ results'[k].order = results[k + 1].order
      /\ UNCHANGED <<wpc, wjob, fed>>
  <2>1. m \in Nat /\ fed \in Nat
    BY Types
  <2>2. UNCHANGED <<wpc, wjob, fed>>
    BY DEF Collect, workers
  <2>3. /\ n \in Nat /\ n >= 1 /\ Len(results') = n - 1
        /\ \A k \in 1 .. Len(results') : k + 1 \in 1 .. n /\ results'[k] = results[k + 1]
    BY CollectFacts
  <2> QED
    BY <2>1, <2>2, <2>3
<1>2. \A k \in 1 .. Len(received') :
        \/ k \in 1 .. m /\ received'[k] = received[k]
        \/ k = m + 1 /\ received'[k] = r
  <2>1. CASE results[1].kind = "ok"
    <3>1. /\ Len(received') = m + 1 /\ received'[m + 1] = r
          /\ \A k \in 1 .. m : received'[k] = received[k]
      BY <2>1, CollectFacts
    <3> QED
      BY <1>1, <3>1
  <2>2. CASE results[1].kind # "ok"
    <3>1. received' = received
      BY <2>2, CollectFacts
    <3> QED
      BY <3>1
  <2> QED
    BY <2>1, <2>2
<1>3. 1 \in 1 .. n
  BY <1>1
<1>4. /\ r <= fed
      /\ \A l \in 1 .. n : results[l].order = r => l = 1
      /\ \A l \in 1 .. m : received[l] # r
      /\ \A w \in Workers : wpc[w] \in Busy => wjob[w] # r
  BY <1>3 DEF OnePlace
<1>5. /\ \A k \in 1 .. n : results[k].order <= fed
      /\ \A k, l \in 1 .. n : results[k].order = results[l].order => k = l
      /\ \A k \in 1 .. n : \A l \in 1 .. m : results[k].order # received[l]
      /\ \A k \in 1 .. m : received[k] <= fed
      /\ \A k, l \in 1 .. m : received[k] = received[l] => k = l
  BY DEF OnePlace
<1>6. \A w \in Workers : wpc[w] \in Busy =>
        /\ wjob[w] \in 1 .. fed
        /\ \A k \in 1 .. n : results[k].order # wjob[w]
        /\ \A k \in 1 .. m : received[k] # wjob[w]
  BY DEF OnePlace
<1>7. \A w, u \in Workers :
        wpc[w] \in Busy /\ wpc[u] \in Busy /\ wjob[w] = wjob[u] => w = u
  BY DEF OnePlace
<1> HIDE DEF n, m, r
<1>8. ASSUME NEW w \in Workers, wpc'[w] \in Busy
      PROVE  /\ wjob'[w] \in 1 .. fed'
             /\ \A k \in 1 .. Len(results') : results'[k].order # wjob'[w]
             /\ \A k \in 1 .. Len(received') : received'[k] # wjob'[w]
  BY <1>1, <1>2, <1>4, <1>6, <1>8
<1>9. ASSUME NEW k \in 1 .. Len(results')
      PROVE  /\ results'[k].order <= fed'
             /\ \A l \in 1 .. Len(results') : results'[k].order = results'[l].order => k = l
             /\ \A l \in 1 .. Len(received') : results'[k].order # received'[l]
  <2>1. results'[k].order <= fed'
    BY <1>1, <1>5
  <2>2. ASSUME NEW l \in 1 .. Len(results'), results'[k].order = results'[l].order PROVE k = l
    <3>1. k + 1 = l + 1
      BY <1>1, <1>5, <2>2
    <3> QED
      BY <1>1, <3>1
  <2>3. \A l \in 1 .. Len(received') : results'[k].order # received'[l]
    <3>1. k + 1 \in 1 .. n /\ k + 1 # 1 /\ results'[k].order = results[k + 1].order
      BY <1>1
    <3> QED
      BY <1>2, <1>4, <1>5, <3>1
  <2> QED
    BY <2>1, <2>2, <2>3
<1>10. ASSUME NEW k \in 1 .. Len(received')
       PROVE  /\ received'[k] <= fed'
              /\ \A l \in 1 .. Len(received') : received'[k] = received'[l] => k = l
  BY <1>1, <1>2, <1>4, <1>5
<1>11. \A w, u \in Workers :
         wpc'[w] \in Busy /\ wpc'[u] \in Busy /\ wjob'[w] = wjob'[u] => w = u
  BY <1>1, <1>7
<1> QED
  BY <1>8, <1>9, <1>10, <1>11 DEF OnePlace

(* Every result has been collected when there are as many as jobs, and only *)
(* then.                                                                    *)
LEMMA AllReceived ==
  ASSUME TypeOK, OnePlace
  PROVE  Len(received) = Len(jobs)
           <=> \A i \in 1 .. Len(jobs) : \E k \in 1 .. Len(received) : received[k] = i
<1> DEFINE S == 1 .. Len(received)
           T == 1 .. Len(jobs)
<1>1. received \in [S -> T] /\ Len(received) \in Nat /\ Len(jobs) \in Nat
  BY Types
<1>2. received \in Injection(S, T)
  BY <1>1, Fun_IsInj DEF OnePlace
<1>3. /\ IsFiniteSet(T) /\ Cardinality(T) = Len(jobs) /\ Cardinality(S) = Len(received)
  <2>1. ASSUME NEW n \in Nat PROVE IsFiniteSet(1 .. n) /\ Cardinality(1 .. n) = n
    <3>1. IsFiniteSet(1 .. n) /\ Cardinality(1 .. n) = IF 1 > n THEN 0 ELSE n - 1 + 1
      BY FS_Interval
    <3> QED
      BY <3>1
  <2> QED
    BY <1>1, <2>1
<1>4. Cardinality(S) = Cardinality(T) <=> received \in Surjection(S, T)
  BY <1>2, <1>3, FS_Injection
<1>5. received \in Surjection(S, T) <=> \A i \in T : \E k \in S : received[k] = i
  BY <1>1 DEF Surjection
<1> QED
  BY <1>3, <1>4, <1>5

(* The start of the goroutines.                                             *)
LEMMA SpawnFacts ==
  ASSUME ListAndSpawn
  PROVE  /\ caller = "list" /\ jobs' \in Seq(Nat \ {NoEntry}) /\ Len(jobs') \in Nat
         /\ candidates' = [i \in 1 .. Len(jobs') |-> NoEntry]
         /\ \E list \in Listings : jobs' = Dedup(list)
         /\ UNCHANGED <<fed, results, wjob, cancelled, parentGone, received, firstErr, materialized, read>>
         /\ \/ caller' = "ok" /\ jobs' = <<>> /\ UNCHANGED <<feeding, resultsOpen, wpc>>
            \/ /\ caller' = "collect" /\ jobs' # <<>> /\ feeding' = TRUE /\ resultsOpen' = TRUE
               /\ wpc' \in [Workers -> {"receive", "done"}]
               /\ \E w \in Workers : wpc'[w] = "receive"
<1>1. PICK list \in Listings :
        /\ jobs' = Dedup(list)
        /\ candidates' = [i \in DOMAIN Dedup(list) |-> NoEntry]
        /\ \/ caller' = "ok" /\ Dedup(list) = <<>> /\ UNCHANGED <<feeding, resultsOpen, wpc>>
           \/ /\ Dedup(list) # <<>>
              /\ caller' = "collect" /\ feeding' = TRUE /\ resultsOpen' = TRUE
              /\ \E pool \in SUBSET Workers :
                   /\ Cardinality(pool) = Min2(Cardinality(Workers), Len(Dedup(list)))
                   /\ wpc' = [w \in Workers |-> IF w \in pool THEN "receive" ELSE "done"]
  BY DEF ListAndSpawn
<1>2. jobs' \in Seq(Nat \ {NoEntry}) /\ DOMAIN jobs' = 1 .. Len(jobs') /\ Len(jobs') \in Nat
  BY <1>1, DedupType
<1>3. ASSUME jobs' # <<>>, NEW pool \in SUBSET Workers,
             Cardinality(pool) = Min2(Cardinality(Workers), Len(jobs')),
             wpc' = [w \in Workers |-> IF w \in pool THEN "receive" ELSE "done"]
      PROVE  \E w \in Workers : wpc'[w] = "receive"
  <2>1. Len(jobs') >= 1
    BY <1>2, <1>3
  <2>2. Cardinality(Workers) \in Nat /\ Cardinality(Workers) # 0
    BY WorkersAssumption, FS_CardinalityType, FS_EmptySet
  <2>3. Cardinality(pool) # 0
    BY <1>2, <1>3, <2>1, <2>2 DEF Min2
  <2>4. pool # {}
    BY <2>3, FS_EmptySet
  <2> QED
    BY <1>3, <2>4
<1>4. /\ caller = "list"
      /\ UNCHANGED <<fed, results, wjob, cancelled, parentGone, received, firstErr, materialized, read>>
  BY DEF ListAndSpawn, world
<1>5. CASE caller' = "ok" /\ Dedup(list) = <<>> /\ UNCHANGED <<feeding, resultsOpen, wpc>>
  BY <1>1, <1>2, <1>4, <1>5
<1>6. CASE /\ Dedup(list) # <<>>
           /\ caller' = "collect" /\ feeding' = TRUE /\ resultsOpen' = TRUE
           /\ \E pool \in SUBSET Workers :
                /\ Cardinality(pool) = Min2(Cardinality(Workers), Len(Dedup(list)))
                /\ wpc' = [w \in Workers |-> IF w \in pool THEN "receive" ELSE "done"]
  <2>1. wpc' \in [Workers -> {"receive", "done"}]
    BY <1>6
  <2>2. \E w \in Workers : wpc'[w] = "receive"
    BY <1>1, <1>3, <1>6
  <2> QED
    BY <1>1, <1>2, <1>4, <1>6, <2>1, <2>2
<1> QED
  BY <1>1, <1>5, <1>6

(* Conclude finds every result collected unless something went wrong.       *)
LEMMA CompleteOrTrouble ==
  ASSUME PendingInv, Conclude, ~cancelled
  PROVE  Len(received) = Len(jobs)
<1> USE DEF PendingInv
<1>1. AllDone /\ fed = Len(jobs)
  BY DEF Conclude, Running
<1>2. ~Trouble /\ \A w \in Workers : wpc[w] \notin Busy
  BY <1>1 DEF AllDone, Trouble, Busy
<1>3. Len(results) = 0
  BY DEF Conclude
<1>4. \A i \in 1 .. Len(jobs) : \E k \in 1 .. Len(received) : received[k] = i
  BY <1>1, <1>2, <1>3 DEF Accounted
<1> QED
  BY <1>4, AllReceived

-----------------------------------------------------------------------------
(* One lemma per action.                                                    *)
LEMMA ListAndSpawnKeeps ==
  ASSUME PendingInv, ListAndSpawn
  PROVE  PendingInv'
<1> USE DEF PendingInv, TypeOK, channels, workers, local, world, Busy, ListAndSpawn, Min2
<1>1. TypeOK'
  <2>0. jobs = <<>> /\ received = <<>> /\ results = <<>> /\ fed = 0
    BY SpawnFacts DEF Running
  <2>00. ListAndSpawn
    OBVIOUS
  <2>1. jobs' \in Seq(Nat \ {NoEntry}) /\ Len(jobs') \in Nat
    BY <2>00, SpawnFacts
  <2>2. candidates' \in [1 .. Len(jobs') -> Nat]
    BY SpawnFacts DEF NoEntry
  <2>3. wjob' \in [Workers -> 0 .. Len(jobs')]
    <3>1. wjob \in [Workers -> 0 .. 0]
      BY <2>0
    <3>2. 0 .. 0 \subseteq 0 .. Len(jobs') /\ wjob' = wjob
      BY <2>1, SpawnFacts
    <3> QED
      BY <3>1, <3>2
  <2>4. results' = <<>> /\ received' = <<>> /\ fed' = 0
    BY <2>0, SpawnFacts
  <2>5. materialized' = {} /\ read' = {}
    BY <2>0, SpawnFacts DEF ToSet
  <2>6. /\ {feeding', resultsOpen', cancelled', parentGone'} \subseteq BOOLEAN
        /\ caller' \in {"ok", "collect"} /\ firstErr' \in {"none", "jobFailed", "jobAborted"}
        /\ wpc' \in [Workers -> {"receive", "done"}] \/ wpc' = wpc
    BY SpawnFacts
  <2>7. results' \in Seq([kind : {"ok", "jobFailed", "jobAborted"}, order : 1 .. Len(jobs')])
        /\ received' \in Seq(1 .. Len(jobs')) /\ fed' \in 0 .. Len(jobs')
    BY <2>1, <2>4
  <2>8. wpc' \in [Workers -> {"receive", "run", "sendResult", "sendFailed", "sendAborted", "cancel", "done"}]
    BY <2>6
  <2> HIDE DEF PendingInv, ListAndSpawn, Min2
  <2> QED
    BY <2>1, <2>2, <2>3, <2>5, <2>6, <2>7, <2>8 DEF Outcomes
<1>2. OnePlace'
  BY ZenonT(40) DEF OnePlace
<1>3. InPlace'
  <2>1. received' = <<>>
    BY SpawnFacts DEF Running
  <2> QED
    BY <2>1 DEF InPlace
<1>4. Accounted'
  <2>1. fed' = 0
    BY SpawnFacts DEF Running
  <2> QED
    BY <2>1 DEF Accounted
<1>5. Alarm'
  <2>1. firstErr' = "none" /\ Len(results') = 0
    BY SpawnFacts DEF Running
  <2> QED
    BY <2>1 DEF Alarm, ErrorKnown
<1>6. Caused'
  BY DEF Caused, Trouble, ErrorKnown, Returned, Outcomes
<1>7. Running'
  <2>1. AllDone /\ received = <<>>
    BY SpawnFacts DEF Running
  <2>2. CASE caller' = "ok" /\ UNCHANGED <<feeding, resultsOpen, wpc>>
    BY <2>1, <2>2 DEF Running, AllDone
  <2>3. CASE caller' = "collect" /\ feeding' = TRUE /\ resultsOpen' = TRUE
             /\ \E w \in Workers : wpc'[w] = "receive"
    BY <2>3 DEF Running, AllDone
  <2> QED
    BY <2>2, <2>3, SpawnFacts
<1>8. CandidatesInOrder'
  BY DEF CandidatesInOrder, Running, InPlace
<1>9. ErrorIsTheCause'
  BY DEF ErrorIsTheCause, Caused, Running, Returned, Outcomes, Trouble, ErrorKnown
<1> QED
  BY <1>1, <1>2, <1>3, <1>4, <1>5, <1>6, <1>7, <1>8, <1>9 DEF PendingInv

LEMMA ListFailsKeeps ==
  ASSUME PendingInv, ListFails
  PROVE  PendingInv'
<1> USE DEF PendingInv, TypeOK, channels, workers, local, world, Busy, ListFails
<1>1. TypeOK'
  BY DEF Outcomes
<1>2. OnePlace'
  BY DEF OnePlace
<1>3. InPlace'
  BY DEF InPlace, OnePlace
<1>4. Accounted'
  BY DEF Accounted, Trouble
<1>5. Alarm'
  BY DEF Alarm, Trouble, ErrorKnown
<1>6. Caused'
  BY DEF Caused, Trouble, ErrorKnown, Returned, Outcomes
<1>7. Running'
  BY DEF Running, AllDone, OnePlace
<1>8. CandidatesInOrder'
  BY DEF CandidatesInOrder, Running, InPlace
<1>9. ErrorIsTheCause'
  BY DEF ErrorIsTheCause, Caused, Running, Returned, Outcomes, Trouble, ErrorKnown
<1> QED
  BY <1>1, <1>2, <1>3, <1>4, <1>5, <1>6, <1>7, <1>8, <1>9 DEF PendingInv

LEMMA ParentCancelKeeps ==
  ASSUME PendingInv, ParentCancel
  PROVE  PendingInv'
<1> USE DEF PendingInv, TypeOK, channels, workers, local, world, Busy, ParentCancel
<1>1. TypeOK'
  BY DEF Outcomes
<1>2. OnePlace'
  BY DEF OnePlace
<1>3. InPlace'
  BY DEF InPlace, OnePlace
<1>4. Accounted'
  BY DEF Accounted, Trouble
<1>5. Alarm'
  BY DEF Alarm, Trouble, ErrorKnown
<1>6. Caused'
  BY DEF Caused, Trouble, ErrorKnown, Returned, Outcomes
<1>7. Running'
  BY DEF Running, AllDone, OnePlace
<1>8. CandidatesInOrder'
  BY DEF CandidatesInOrder, Running, InPlace
<1>9. ErrorIsTheCause'
  BY DEF ErrorIsTheCause, Caused, Running, Returned, Outcomes, Trouble, ErrorKnown
<1> QED
  BY <1>1, <1>2, <1>3, <1>4, <1>5, <1>6, <1>7, <1>8, <1>9 DEF PendingInv

LEMMA HandKeeps ==
  ASSUME PendingInv, NEW w \in Workers, Hand(w)
  PROVE  PendingInv'
<1> USE DEF PendingInv, TypeOK, channels, workers, local, world, Busy, Hand
<1>1. TypeOK'
  BY DEF Outcomes
<1>2. OnePlace'
  <2>1. /\ wjob' = [wjob EXCEPT ![w] = fed + 1] /\ wpc' = [wpc EXCEPT ![w] = "run"]
        /\ fed' = fed + 1 /\ wpc[w] = "receive" /\ UNCHANGED <<results, received>>
        /\ fed \in Nat /\ Len(results) \in Nat /\ Len(received) \in Nat
    BY Types
  <2>2. /\ wjob'[w] = fed + 1 /\ wpc'[w] = "run"
        /\ \A u \in Workers \ {w} : wjob'[u] = wjob[u] /\ wpc'[u] = wpc[u]
    BY <2>1
  <2>3. \A k \in 1 .. Len(results) : results[k].order \in Nat
    <3>1. \A k \in 1 .. Len(results) : results[k] \in Results
      BY Types
    <3> HIDE DEF PendingInv, TypeOK, Hand
    <3> QED
      BY <3>1 DEF Results
  <2>4. \A k \in 1 .. Len(received) : received[k] \in Nat
    BY Types, SMTT(30)
  <2>5. \A k \in 1 .. Len(results) : results[k].order <= fed
    BY DEF OnePlace
  <2>6. \A k \in 1 .. Len(received) : received[k] <= fed
    BY DEF OnePlace
  <2>7. \A u \in Workers : wpc[u] \in Busy => wjob[u] \in 1 .. fed
    BY DEF OnePlace
  <2> HIDE DEF PendingInv, TypeOK, Hand
  <2>8. \A u, v \in Workers :
          wpc'[u] \in Busy /\ wpc'[v] \in Busy /\ wjob'[u] = wjob'[v] => u = v
    <3>1. \A u \in Workers \ {w} : wpc'[u] \in Busy => wjob'[u] # fed + 1
      BY <2>1, <2>2, <2>7
    <3>2. \A u, v \in Workers :
            wpc[u] \in Busy /\ wpc[v] \in Busy /\ wjob[u] = wjob[v] => u = v
      BY DEF OnePlace, PendingInv
    <3> QED
      BY <2>2, <3>1, <3>2
  <2>9. ASSUME NEW u \in Workers, wpc'[u] \in Busy
        PROVE  /\ wjob'[u] \in 1 .. fed'
               /\ \A k \in 1 .. Len(results') : results'[k].order # wjob'[u]
               /\ \A k \in 1 .. Len(received') : received'[k] # wjob'[u]
    <3>1. CASE u = w
      <4>1. wjob'[u] = fed + 1 /\ fed' = fed + 1 /\ fed \in Nat
        BY <2>1, <2>2, <3>1
      <4>2. \A k \in 1 .. Len(results') : results'[k].order # fed + 1
        BY <2>1, <2>3, <2>5
      <4>3. \A k \in 1 .. Len(received') : received'[k] # fed + 1
        BY <2>1, <2>4, <2>6
      <4> QED
        BY <4>1, <4>2, <4>3
    <3>2. CASE u # w
      <4>1. wpc[u] \in Busy /\ wjob'[u] = wjob[u]
        BY <2>2, <2>9, <3>2
      <4>2. /\ wjob[u] \in 1 .. fed
            /\ \A k \in 1 .. Len(results) : results[k].order # wjob[u]
            /\ \A k \in 1 .. Len(received) : received[k] # wjob[u]
        BY <4>1 DEF OnePlace, PendingInv
      <4> QED
        BY <2>1, <4>1, <4>2
    <3> QED
      BY <3>1, <3>2
  <2>10. \A k \in 1 .. Len(results') :
           /\ results'[k].order <= fed'
           /\ \A l \in 1 .. Len(results') : results'[k].order = results'[l].order => k = l
           /\ \A l \in 1 .. Len(received') : results'[k].order # received'[l]
    <3>1. \A k \in 1 .. Len(results) :
            /\ \A l \in 1 .. Len(results) : results[k].order = results[l].order => k = l
            /\ \A l \in 1 .. Len(received) : results[k].order # received[l]
      BY DEF OnePlace, PendingInv
    <3>2. \A k \in 1 .. Len(results) : results[k].order <= fed + 1
      BY <2>1, <2>3, <2>5
    <3> QED
      BY <2>1, <3>1, <3>2
  <2>11. \A k \in 1 .. Len(received') :
           /\ received'[k] <= fed'
           /\ \A l \in 1 .. Len(received') : received'[k] = received'[l] => k = l
    BY <2>1, <2>4, <2>6 DEF OnePlace, PendingInv
  <2> QED
    BY <2>8, <2>9, <2>10, <2>11 DEF OnePlace
<1>3. InPlace'
  BY DEF InPlace, OnePlace
<1>4. Accounted'
  <2> SUFFICES ASSUME ~Trouble', NEW i \in 1 .. fed'
               PROVE  \/ \E u \in Workers : wpc'[u] \in Busy /\ wjob'[u] = i
                      \/ \E k \in 1 .. Len(results') : results'[k].order = i
                      \/ \E k \in 1 .. Len(received') : received'[k] = i
    BY DEF Accounted
  <2>1. /\ wjob'[w] = fed + 1 /\ wpc'[w] \in Busy /\ fed' = fed + 1 /\ fed \in Nat
        /\ \A u \in Workers \ {w} : wjob'[u] = wjob[u] /\ wpc'[u] = wpc[u]
        /\ wpc[w] \notin Busy /\ UNCHANGED <<results, received>>
    BY Types
  <2>2. ~Trouble
    BY DEF Trouble
  <2>3. CASE i = fed + 1
    BY <2>1, <2>3
  <2>4. CASE i \in 1 .. fed
    <3>1. \/ \E u \in Workers : wpc[u] \in Busy /\ wjob[u] = i
          \/ \E k \in 1 .. Len(results) : results[k].order = i
          \/ \E k \in 1 .. Len(received) : received[k] = i
      BY <2>2, <2>4 DEF Accounted
    <3>2. \A u \in Workers : wpc[u] \in Busy => u # w
      BY <2>1
    <3> HIDE DEF PendingInv, TypeOK, Hand, Busy
    <3> QED
      BY <2>1, <3>1, <3>2
  <2> QED
    BY <2>1, <2>3, <2>4
<1>5. Alarm'
  BY DEF Alarm, Trouble, ErrorKnown
<1>6. Caused'
  BY DEF Caused, Trouble, ErrorKnown, Returned, Outcomes
<1>7. Running'
  BY DEF Running, AllDone, OnePlace
<1>8. CandidatesInOrder'
  BY DEF CandidatesInOrder, Running, InPlace
<1>9. ErrorIsTheCause'
  BY DEF ErrorIsTheCause, Caused, Running, Returned, Outcomes, Trouble, ErrorKnown
<1> QED
  BY <1>1, <1>2, <1>3, <1>4, <1>5, <1>6, <1>7, <1>8, <1>9 DEF PendingInv

LEMMA CloseJobsKeeps ==
  ASSUME PendingInv, CloseJobs
  PROVE  PendingInv'
<1> USE DEF PendingInv, TypeOK, channels, workers, local, world, Busy, CloseJobs
<1>1. TypeOK'
  BY DEF Outcomes
<1>2. OnePlace'
  BY DEF OnePlace
<1>3. InPlace'
  BY DEF InPlace, OnePlace
<1>4. Accounted'
  BY DEF Accounted, Trouble
<1>5. Alarm'
  BY DEF Alarm, Trouble, ErrorKnown
<1>6. Caused'
  BY DEF Caused, Trouble, ErrorKnown, Returned, Outcomes
<1>7. Running'
  BY DEF Running, AllDone, OnePlace
<1>8. CandidatesInOrder'
  BY DEF CandidatesInOrder, Running, InPlace
<1>9. ErrorIsTheCause'
  BY DEF ErrorIsTheCause, Caused, Running, Returned, Outcomes, Trouble, ErrorKnown
<1> QED
  BY <1>1, <1>2, <1>3, <1>4, <1>5, <1>6, <1>7, <1>8, <1>9 DEF PendingInv

LEMMA NoMoreJobsKeeps ==
  ASSUME PendingInv, NEW w \in Workers, NoMoreJobs(w)
  PROVE  PendingInv'
<1> USE DEF PendingInv, TypeOK, channels, workers, local, world, Busy, NoMoreJobs, Become
<1>1. TypeOK'
  BY DEF Outcomes
<1>2. OnePlace'
  BY DEF OnePlace
<1>3. InPlace'
  BY DEF InPlace, OnePlace
<1>4. Accounted'
  BY DEF Accounted, Trouble
<1>5. Alarm'
  BY DEF Alarm, Trouble, ErrorKnown
<1>6. Caused'
  BY DEF Caused, Trouble, ErrorKnown, Returned, Outcomes
<1>7. Running'
  BY DEF Running, AllDone, OnePlace
<1>8. CandidatesInOrder'
  BY DEF CandidatesInOrder, Running, InPlace
<1>9. ErrorIsTheCause'
  BY DEF ErrorIsTheCause, Caused, Running, Returned, Outcomes, Trouble, ErrorKnown
<1> QED
  BY <1>1, <1>2, <1>3, <1>4, <1>5, <1>6, <1>7, <1>8, <1>9 DEF PendingInv

LEMMA RunJobKeeps ==
  ASSUME PendingInv, NEW w \in Workers, RunJob(w)
  PROVE  PendingInv'
<1> USE DEF PendingInv, TypeOK, channels, workers, local, world, Busy, RunJob, Become
<1>1. TypeOK'
  <2>1. wjob[w] \in DOMAIN jobs
    BY DEF OnePlace
  <2>2. materialized' \subseteq ToSet(jobs)
    BY <2>1 DEF ToSet
  <2> QED
    BY <2>2 DEF Outcomes
<1>2. OnePlace'
  BY PlaceKept
<1>3. InPlace'
  BY DEF InPlace, OnePlace
<1>4. Accounted'
  BY DEF Accounted, Trouble
<1>5. Alarm'
  BY DEF Alarm, Trouble, ErrorKnown
<1>6. Caused'
  BY DEF Caused, Trouble, ErrorKnown, Returned, Outcomes
<1>7. Running'
  BY DEF Running, AllDone, OnePlace
<1>8. CandidatesInOrder'
  BY DEF CandidatesInOrder, Running, InPlace
<1>9. ErrorIsTheCause'
  BY DEF ErrorIsTheCause, Caused, Running, Returned, Outcomes, Trouble, ErrorKnown
<1> QED
  BY <1>1, <1>2, <1>3, <1>4, <1>5, <1>6, <1>7, <1>8, <1>9 DEF PendingInv

LEMMA SendResultKeeps ==
  ASSUME PendingInv, NEW w \in Workers, SendResult(w)
  PROVE  PendingInv'
<1> USE DEF PendingInv, TypeOK, channels, workers, local, world, Busy, SendResult, Become, Send
<1>1. TypeOK'
  <2>1. results' \in Seq(Results)
    <3>1. CASE results' = results
      BY <3>1, Types
    <3>2. CASE Send(w, "ok") /\ Become(w, "receive")
      <4>1. Sent(w, "ok")
        BY <3>2 DEF Sent
      <4> QED
        BY <4>1, SentFacts
    <3> QED
      BY <3>1, <3>2
  <2> QED
    BY <2>1 DEF Outcomes, Results
<1>2. OnePlace'
  <2>1. CASE results' = results
    BY <2>1, PlaceKept
  <2>2. CASE Send(w, "ok") /\ Become(w, "receive")
    <3>1. Sent(w, "ok")
      BY <2>2 DEF Sent
    <3> QED
      BY <3>1, PlaceSent
  <2> QED
    BY <2>1, <2>2
<1>3. InPlace'
  BY DEF InPlace, OnePlace
<1>4. Accounted'
  <2>1. CASE results' = results
    BY <2>1 DEF Accounted, Trouble
  <2>2. CASE Send(w, "ok") /\ Become(w, "receive")
    <3>1. Sent(w, "ok")
      BY <2>2 DEF Sent
    <3>2. /\ Len(results') = Len(results) + 1 /\ Len(results) \in Nat
          /\ results'[Len(results) + 1].order = wjob[w]
          /\ \A k \in 1 .. Len(results) : results'[k] = results[k]
      BY <3>1, SentFacts
    <3>3. \A i : (\E k \in 1 .. Len(results) : results[k].order = i) \/ i = wjob[w]
             => \E k \in 1 .. Len(results') : results'[k].order = i
      BY <3>2, SMTT(30)
    <3>4. Trouble' <=> Trouble
      BY <2>2 DEF Trouble
    <3>5. \A u \in Workers : wpc[u] \in Busy => u = w \/ wpc'[u] \in Busy
      BY <3>1 DEF Sent
    <3> QED
      BY <3>3, <3>4, <3>5 DEF Accounted
  <2> QED
    BY <2>1, <2>2
<1>5. Alarm'
  <2>1. CASE results' = results
    BY <2>1 DEF Alarm, Trouble, ErrorKnown
  <2>2. CASE Send(w, "ok") /\ Become(w, "receive")
    <3>1. Sent(w, "ok")
      BY <2>2 DEF Sent
    <3>2. \A k \in 1 .. Len(results') : results'[k].kind # "ok" =>
            k \in 1 .. Len(results) /\ results[k].kind # "ok"
      <4>1. /\ Len(results') = Len(results) + 1 /\ Len(results) \in Nat
            /\ results'[Len(results) + 1].kind = "ok"
            /\ \A k \in 1 .. Len(results) : results'[k] = results[k]
        BY <3>1, SentFacts
      <4>2. \A k \in 1 .. Len(results') : k \in 1 .. Len(results) \/ k = Len(results) + 1
        BY <4>1, SMTT(30)
      <4> QED
        BY <4>1, <4>2
    <3> QED
      BY <2>2, <3>2 DEF Alarm, Trouble, ErrorKnown
  <2> QED
    BY <2>1, <2>2
<1>6. Caused'
  <2>1. CASE results' = results
    BY <2>1 DEF Caused, Trouble, ErrorKnown, Returned, Outcomes
  <2>2. CASE Send(w, "ok") /\ Become(w, "receive")
    <3>1. Sent(w, "ok")
      BY <2>2 DEF Sent
    <3>2. /\ Len(results') = Len(results) + 1 /\ Len(results) \in Nat
          /\ results'[Len(results) + 1].kind = "ok"
          /\ \A k \in 1 .. Len(results) : results'[k] = results[k]
      BY <3>1, SentFacts
    <3>3. ErrorKnown => ErrorKnown'
      BY <3>2, SMTT(30) DEF ErrorKnown
    <3>4. Trouble' => Trouble
      BY <2>2 DEF Trouble
    <3> QED
      BY <2>2, <3>2, <3>3, <3>4 DEF Caused, Returned, Outcomes
  <2> QED
    BY <2>1, <2>2
<1>7. Running'
  BY DEF Running, AllDone, OnePlace
<1>8. CandidatesInOrder'
  BY DEF CandidatesInOrder, Running, InPlace
<1>9. ErrorIsTheCause'
  BY DEF ErrorIsTheCause, Caused, Running, Returned, Outcomes, Trouble, ErrorKnown
<1> QED
  BY <1>1, <1>2, <1>3, <1>4, <1>5, <1>6, <1>7, <1>8, <1>9 DEF PendingInv

LEMMA SendErrorKeeps ==
  ASSUME PendingInv, NEW w \in Workers, SendError(w)
  PROVE  PendingInv'
<1> USE DEF PendingInv, TypeOK, channels, workers, local, world, Busy, SendError, Become, Send
<1>1. TypeOK'
  <2>1. ASSUME results' = results PROVE results' \in Seq(Results)
    BY <2>1, Types
  <2>2. ASSUME NEW kind \in {"jobFailed", "jobAborted"}, Send(w, kind),
               wpc[w] = IF kind = "jobFailed" THEN "sendFailed" ELSE "sendAborted"
        PROVE  results' \in Seq(Results)
    <3>1. Sent(w, kind)
      BY <2>2 DEF Sent
    <3> QED
      BY <3>1, SentFacts
  <2>3. results' \in Seq(Results)
    BY <2>1, <2>2
  <2> QED
    BY <2>3 DEF Outcomes, Results
<1>2. OnePlace'
  <2>1. CASE results' = results
    BY <2>1, PlaceKept
  <2>2. ASSUME NEW kind \in {"jobFailed", "jobAborted"}, Send(w, kind),
               wpc[w] = IF kind = "jobFailed" THEN "sendFailed" ELSE "sendAborted"
        PROVE  OnePlace'
    <3>1. Sent(w, kind)
      BY <2>2 DEF Sent
    <3> QED
      BY <3>1, PlaceSent
  <2> QED
    BY <2>1, <2>2
<1>3. InPlace'
  BY DEF InPlace, OnePlace
<1>4. Accounted'
  BY DEF Accounted, Trouble
<1>5. Alarm'
  BY DEF Alarm, Trouble, ErrorKnown
<1>6. Caused'
  <2>1. ASSUME NEW kind \in {"jobFailed", "jobAborted"}, Send(w, kind),
               wpc[w] = IF kind = "jobFailed" THEN "sendFailed" ELSE "sendAborted"
        PROVE  Caused'
    <3>1. Sent(w, kind)
      BY <2>1 DEF Sent
    <3>2. /\ Len(results') = Len(results) + 1 /\ Len(results) \in Nat
          /\ results'[Len(results) + 1].kind = kind
          /\ \A k \in 1 .. Len(results) : results'[k] = results[k]
      BY <3>1, SentFacts
    <3>3. ErrorKnown'
      <4>1. Len(results') \in 1 .. Len(results') /\ results'[Len(results')].kind # "ok"
        BY <3>2
      <4> QED
        BY <4>1 DEF ErrorKnown
    <3>4. ASSUME ~parentGone, kind = "jobAborted"
          PROVE  firstErr # "none" \/ \E l \in 1 .. Len(results) : results[l].kind = "jobFailed"
      <4>1. cancelled /\ ~Returned
        BY <2>1, <3>4 DEF Caused, Running, AllDone, Returned, Outcomes
      <4>2. ErrorKnown
        BY <3>4, <4>1 DEF Caused, Trouble
      <4>3. CASE firstErr = "none"
        <5>1. PICK k \in 1 .. Len(results) : results[k].kind # "ok"
          BY <4>2, <4>3 DEF ErrorKnown
        <5>2. results[k].kind \in {"jobFailed", "jobAborted"}
          BY <5>1, Types DEF Results
        <5>3. results[k].kind = "jobAborted" =>
                \E l \in 1 .. k - 1 : results[l].kind = "jobFailed"
          BY <3>4, <4>3 DEF Caused
        <5> QED
          BY <5>1, <5>2, <5>3, SMTT(30)
      <4> QED
        BY <4>3
    <3>5. ASSUME ~parentGone, NEW k \in 1 .. Len(results'), results'[k].kind = "jobAborted"
          PROVE  firstErr # "none" \/ \E l \in 1 .. k - 1 : results'[l].kind = "jobFailed"
      <4>1. CASE k \in 1 .. Len(results)
        <5>1. firstErr # "none" \/ \E l \in 1 .. k - 1 : results[l].kind = "jobFailed"
          BY <3>2, <3>5, <4>1 DEF Caused
        <5>2. \A l \in 1 .. k - 1 : results'[l] = results[l]
          BY <3>2, <4>1
        <5> QED
          BY <5>1, <5>2
      <4>2. CASE k = Len(results) + 1
        <5>1. kind = "jobAborted" /\ k - 1 = Len(results)
          BY <3>2, <3>5, <4>2
        <5>2. firstErr # "none" \/ \E l \in 1 .. Len(results) : results[l].kind = "jobFailed"
          BY <3>4, <3>5, <5>1
        <5> QED
          BY <3>2, <5>1, <5>2
      <4>3. k \in 1 .. Len(results) + 1 /\ Len(results) \in Nat
        BY <3>2
      <4> HIDE DEF PendingInv, TypeOK, SendError
      <4>4. k \in 1 .. Len(results) \/ k = Len(results) + 1
        BY <4>3
      <4> QED
        BY <4>1, <4>2, <4>4
    <3>6. \A u \in Workers : wpc'[u] = "sendAborted" => cancelled
      BY DEF Caused
    <3> QED
      BY <3>3, <3>5, <3>6 DEF Caused
  <2>2. CASE results' = results /\ cancelled
    BY <2>2 DEF Caused, Trouble, ErrorKnown, Returned, Outcomes
  <2> QED
    BY <2>1, <2>2
<1>7. Running'
  BY DEF Running, AllDone, OnePlace
<1>8. CandidatesInOrder'
  BY DEF CandidatesInOrder, Running, InPlace
<1>9. ErrorIsTheCause'
  BY DEF ErrorIsTheCause, Caused, Running, Returned, Outcomes, Trouble, ErrorKnown
<1> QED
  BY <1>1, <1>2, <1>3, <1>4, <1>5, <1>6, <1>7, <1>8, <1>9 DEF PendingInv

LEMMA CancelAllKeeps ==
  ASSUME PendingInv, NEW w \in Workers, CancelAll(w)
  PROVE  PendingInv'
<1> USE DEF PendingInv, TypeOK, channels, workers, local, world, Busy, CancelAll, Become
<1>1. TypeOK'
  BY DEF Outcomes
<1>2. OnePlace'
  BY DEF OnePlace
<1>3. InPlace'
  BY DEF InPlace, OnePlace
<1>4. Accounted'
  BY DEF Accounted, Trouble
<1>5. Alarm'
  BY DEF Alarm, Trouble, ErrorKnown
<1>6. Caused'
  BY DEF Caused, Trouble, ErrorKnown, Returned, Outcomes
<1>7. Running'
  BY DEF Running, AllDone, OnePlace
<1>8. CandidatesInOrder'
  BY DEF CandidatesInOrder, Running, InPlace
<1>9. ErrorIsTheCause'
  BY DEF ErrorIsTheCause, Caused, Running, Returned, Outcomes, Trouble, ErrorKnown
<1> QED
  BY <1>1, <1>2, <1>3, <1>4, <1>5, <1>6, <1>7, <1>8, <1>9 DEF PendingInv

LEMMA CloseResultsKeeps ==
  ASSUME PendingInv, CloseResults
  PROVE  PendingInv'
<1> USE DEF PendingInv, TypeOK, channels, workers, local, world, Busy, CloseResults
<1>1. TypeOK'
  BY DEF Outcomes
<1>2. OnePlace'
  BY DEF OnePlace
<1>3. InPlace'
  BY DEF InPlace, OnePlace
<1>4. Accounted'
  BY DEF Accounted, Trouble
<1>5. Alarm'
  BY DEF Alarm, Trouble, ErrorKnown
<1>6. Caused'
  BY DEF Caused, Trouble, ErrorKnown, Returned, Outcomes
<1>7. Running'
  BY DEF Running, AllDone, OnePlace
<1>8. CandidatesInOrder'
  BY DEF CandidatesInOrder, Running, InPlace
<1>9. ErrorIsTheCause'
  BY DEF ErrorIsTheCause, Caused, Running, Returned, Outcomes, Trouble, ErrorKnown
<1> QED
  BY <1>1, <1>2, <1>3, <1>4, <1>5, <1>6, <1>7, <1>8, <1>9 DEF PendingInv

LEMMA CollectKeeps ==
  ASSUME PendingInv, Collect
  PROVE  PendingInv'
<1> USE DEF PendingInv, TypeOK, channels, workers, local, world, Busy, Collect
<1>1. TypeOK'
  <2>1. /\ results' \in Seq(Results) /\ received' \in Seq(1 .. Len(jobs))
        /\ firstErr' \in {"none", "jobFailed", "jobAborted"}
    BY CollectFacts, Types DEF Results
  <2>2. candidates' \in [1 .. Len(jobs) -> Nat]
    <3>1. results[1].order \in 1 .. Len(jobs)
      BY CollectFacts DEF Results
    <3>2. jobs[results[1].order] \in Nat
      <4>1. jobs \in Seq(Nat \ {NoEntry})
        OBVIOUS
      <4> HIDE DEF PendingInv, TypeOK, Collect
      <4> QED
        BY <3>1, <4>1
    <3>3. \/ candidates' = [candidates EXCEPT ![results[1].order] = jobs[results[1].order]]
          \/ candidates' = candidates
      BY CollectFacts
    <3> QED
      BY <3>1, <3>2, <3>3, Types
  <2> QED
    BY <2>1, <2>2 DEF Results
<1>2. OnePlace'
  BY PlaceCollected
<1>3. InPlace'
  <2>1. CASE results[1].kind # "ok"
    BY <2>1, CollectFacts DEF InPlace
  <2>2. CASE results[1].kind = "ok"
    <3> DEFINE r == results[1].order
               m == Len(received)
    <3>1. /\ Len(received') = m + 1 /\ received'[m + 1] = r
          /\ \A k \in 1 .. m : received'[k] = received[k]
          /\ candidates' = [candidates EXCEPT ![r] = jobs[r]]
      BY <2>2, CollectFacts
    <3>2. r \in 1 .. Len(jobs) /\ m \in Nat /\ candidates \in [1 .. Len(jobs) -> Nat]
      BY CollectFacts, Types DEF Results
    <3>3. \A k \in 1 .. m : received[k] \in 1 .. Len(jobs) /\ candidates[received[k]] = jobs[received[k]]
      BY Types DEF InPlace
    <3>4. jobs' = jobs
      OBVIOUS
    <3> HIDE DEF r, m, PendingInv, Collect, TypeOK
    <3>5. candidates'[r] = jobs[r] /\ \A i \in 1 .. Len(jobs) : i # r => candidates'[i] = candidates[i]
      BY <3>1, <3>2
    <3>6. ASSUME NEW k \in 1 .. Len(received') PROVE candidates'[received'[k]] = jobs'[received'[k]]
      <4>1. k \in 1 .. m \/ k = m + 1
        BY <3>1, <3>2
      <4> QED
        BY <3>1, <3>3, <3>4, <3>5, <4>1
    <3> QED
      BY <3>6 DEF InPlace
  <2> QED
    BY <2>1, <2>2
<1>4. Accounted'
  <2> SUFFICES ASSUME ~Trouble', NEW i \in 1 .. fed'
               PROVE  \/ \E w \in Workers : wpc'[w] \in Busy /\ wjob'[w] = i
                      \/ \E k \in 1 .. Len(results') : results'[k].order = i
                      \/ \E k \in 1 .. Len(received') : received'[k] = i
    BY DEF Accounted
  <2>0. ~Trouble /\ ~Returned /\ UNCHANGED <<wpc, wjob, fed>>
    BY DEF Trouble, Returned, Outcomes
  <2>00. TypeOK /\ Collect /\ Alarm /\ Accounted
    OBVIOUS
  <2> HIDE DEF PendingInv, TypeOK, Collect
  <2>01. Len(received) \in Nat /\ Len(results) \in Nat /\ Len(results) >= 1
    BY <2>00, Types, CollectFacts
  <2>1. \/ \E w \in Workers : wpc[w] \in Busy /\ wjob[w] = i
        \/ \E k \in 1 .. Len(results) : results[k].order = i
        \/ \E k \in 1 .. Len(received) : received[k] = i
    BY <2>0, <2>00 DEF Accounted
  <2>2. CASE \E w \in Workers : wpc[w] \in Busy /\ wjob[w] = i
    BY <2>0, <2>2
  <2>3. ASSUME NEW k \in 1 .. Len(received), received[k] = i
        PROVE  \E l \in 1 .. Len(received') : received'[l] = i
    <3>1. k \in 1 .. Len(received') /\ received'[k] = received[k]
      <4>1. CASE results[1].kind = "ok"
        BY <2>00, <2>01, <4>1, CollectFacts
      <4>2. CASE results[1].kind # "ok"
        <5>1. received' = received
          BY <2>00, <4>2, CollectFacts
        <5> QED
          BY <5>1
      <4> QED
        BY <4>1, <4>2
    <3> QED
      BY <2>3, <3>1
  <2>4. ASSUME NEW k \in 1 .. Len(results), results[k].order = i
        PROVE  \/ \E l \in 1 .. Len(results') : results'[l].order = i
               \/ \E l \in 1 .. Len(received') : received'[l] = i
    <3>1. CASE k = 1
      <4>1. results[1].kind = "ok"
        BY <2>0, <2>00, <2>01 DEF Alarm, ErrorKnown
      <4>2. Len(received) + 1 \in 1 .. Len(received') /\ received'[Len(received) + 1] = i
        BY <2>00, <2>01, <2>4, <3>1, <4>1, CollectFacts
      <4> QED
        BY <4>2
    <3>2. CASE k # 1
      <4>1. k - 1 \in 1 .. Len(results') /\ (k - 1) + 1 = k
        BY <2>00, <2>01, <3>2, CollectFacts
      <4>2. results'[k - 1] = results[k]
        BY <2>00, <4>1, CollectFacts
      <4> QED
        BY <2>4, <4>1, <4>2
    <3> QED
      BY <3>1, <3>2
  <2> QED
    BY <2>1, <2>2, <2>3, <2>4
<1>5. Alarm'
  <2>1. ErrorKnown' => ErrorKnown
    BY CollectFacts, SMTT(30) DEF ErrorKnown
  <2>2. Trouble => Trouble'
    BY DEF Trouble
  <2> QED
    BY <2>1, <2>2 DEF Alarm
<1>6. Caused'
  <2>1. ErrorKnown => ErrorKnown'
    <3>1. CASE firstErr # "none"
      BY <3>1, CollectFacts DEF ErrorKnown, Results
    <3>2. ASSUME NEW k \in 1 .. Len(results), results[k].kind # "ok" PROVE ErrorKnown'
      <4>1. CASE k = 1
        <5>1. firstErr' # "none"
          BY <3>2, <4>1, CollectFacts DEF Results
        <5> QED
          BY <5>1 DEF ErrorKnown
      <4>2. CASE k # 1
        <5>1. k - 1 \in 1 .. Len(results') /\ (k - 1) + 1 = k
          BY <4>2, CollectFacts
        <5>2. results'[k - 1] = results[k]
          BY <5>1, CollectFacts
        <5> QED
          BY <3>2, <5>1, <5>2 DEF ErrorKnown
      <4> QED
        BY <4>1, <4>2
    <3> QED
      BY <3>1, <3>2 DEF ErrorKnown
  <2>2. firstErr # "none" => firstErr' = firstErr
    BY CollectFacts
  <2>3. ASSUME ~parentGone PROVE firstErr' # "jobAborted"
    <3>1. 1 \in 1 .. Len(results)
      BY CollectFacts
    <3>2. results[1].kind = "jobAborted" => firstErr # "none"
      BY <2>3, <3>1 DEF Caused
    <3> QED
      BY <2>2, <2>3, <3>2, CollectFacts DEF Caused, Results
  <2>4. ASSUME ~parentGone, NEW k \in 1 .. Len(results'), results'[k].kind = "jobAborted"
        PROVE  firstErr' # "none" \/ \E l \in 1 .. k - 1 : results'[l].kind = "jobFailed"
    <3>1. k + 1 \in 1 .. Len(results) /\ results[k + 1].kind = "jobAborted"
      BY <2>4, CollectFacts
    <3>2. firstErr # "none" \/ \E l \in 1 .. (k + 1) - 1 : results[l].kind = "jobFailed"
      BY <2>4, <3>1, Zenon DEF Caused
    <3>4. (k + 1) - 1 = k
      BY <3>1
    <3>3. ASSUME NEW l \in 1 .. k, results[l].kind = "jobFailed"
          PROVE  firstErr' # "none" \/ \E j \in 1 .. k - 1 : results'[j].kind = "jobFailed"
      <4>1. CASE l = 1
        BY <3>3, <4>1, CollectFacts
      <4>2. CASE l # 1
        <5>1. l - 1 \in 1 .. Len(results') /\ l - 1 \in 1 .. k - 1 /\ (l - 1) + 1 = l
          BY <4>2, CollectFacts
        <5>2. results'[l - 1] = results[l]
          BY <5>1, CollectFacts
        <5> QED
          BY <3>3, <5>1, <5>2
      <4> QED
        BY <4>1, <4>2
    <3> QED
      BY <2>2, <3>2, <3>3, <3>4
  <2>5. Trouble' => Trouble
    BY DEF Trouble
  <2> QED
    BY <2>1, <2>3, <2>4, <2>5 DEF Caused, Returned, Outcomes
<1>7. Running'
  BY DEF Running, AllDone, OnePlace
<1>8. CandidatesInOrder'
  BY DEF CandidatesInOrder, Running, InPlace
<1>9. ErrorIsTheCause'
  BY DEF ErrorIsTheCause, Caused, Running, Returned, Outcomes, Trouble, ErrorKnown
<1> QED
  BY <1>1, <1>2, <1>3, <1>4, <1>5, <1>6, <1>7, <1>8, <1>9 DEF PendingInv

LEMMA ConcludeKeeps ==
  ASSUME PendingInv, Conclude
  PROVE  PendingInv'
<1> USE DEF PendingInv, TypeOK, channels, workers, local, world, Busy, Conclude, Verdict
<1>1. TypeOK'
  BY DEF Outcomes
<1>2. OnePlace'
  BY DEF OnePlace
<1>3. InPlace'
  BY DEF InPlace, OnePlace
<1>4. Accounted'
  BY DEF Accounted, Trouble
<1>5. Alarm'
  BY DEF Alarm, Trouble, ErrorKnown
<1>6. Caused'
  BY DEF Caused, Trouble, ErrorKnown, Returned, Outcomes
<1>7. Running'
  BY DEF Running, AllDone, OnePlace
<1>8. CandidatesInOrder'
  BY DEF CandidatesInOrder, Running, InPlace
<1>9. ErrorIsTheCause'
  <2>1. CASE firstErr # "none"
    <3>1. caller' = firstErr /\ firstErr \in {"jobFailed", "jobAborted"}
      <4>1. firstErr \in {"none", "jobFailed", "jobAborted"} /\ caller' = Verdict
        OBVIOUS
      <4> HIDE DEF PendingInv, TypeOK, Conclude
      <4> QED
        BY <2>1, <4>1
    <3> QED
      BY <3>1 DEF ErrorIsTheCause, Caused
  <2>2. CASE firstErr = "none" /\ cancelled
    <3>1. caller' = "cancelled" /\ ~ErrorKnown /\ ~Returned
      <4>1. caller = "collect" /\ results = <<>> /\ caller' = Verdict
        OBVIOUS
      <4> HIDE DEF PendingInv, TypeOK, Conclude
      <4> QED
        BY <2>2, <4>1 DEF ErrorKnown, Returned, Outcomes
    <3>2. parentGone
      BY <2>2, <3>1 DEF Caused, Trouble
    <3> QED
      BY <3>1, <3>2 DEF ErrorIsTheCause
  <2>3. CASE firstErr = "none" /\ ~cancelled
    <3>1. Len(received) = Len(jobs)
      BY <2>3, CompleteOrTrouble
    <3>2. caller' = "markRead"
      BY <2>3, <3>1
    <3> QED
      BY <3>2 DEF ErrorIsTheCause
  <2> QED
    BY <2>1, <2>2, <2>3
<1> QED
  BY <1>1, <1>2, <1>3, <1>4, <1>5, <1>6, <1>7, <1>8, <1>9 DEF PendingInv

LEMMA MarkReadKeeps ==
  ASSUME PendingInv, MarkRead
  PROVE  PendingInv'
<1> USE DEF PendingInv, TypeOK, channels, workers, local, world, Busy, MarkRead
<1>1. TypeOK'
  <2>1. {jobs[i] : i \in ToSet(received)} \subseteq ToSet(jobs)
    BY Types DEF ToSet
  <2>2. read' \subseteq ToSet(jobs)
    BY <2>1
  <2> QED
    BY <2>2 DEF Outcomes
<1>2. OnePlace'
  BY DEF OnePlace
<1>3. InPlace'
  BY DEF InPlace, OnePlace
<1>4. Accounted'
  BY DEF Accounted, Trouble
<1>5. Alarm'
  BY DEF Alarm, Trouble, ErrorKnown
<1>6. Caused'
  BY DEF Caused, Trouble, ErrorKnown, Returned, Outcomes
<1>7. Running'
  BY DEF Running, AllDone, OnePlace
<1>8. CandidatesInOrder'
  <2>1. \A i \in 1 .. Len(jobs) : \E k \in 1 .. Len(received) : received[k] = i
    BY AllReceived DEF Running
  <2>2. \A i \in 1 .. Len(jobs) : candidates[i] = jobs[i]
    BY <2>1 DEF InPlace
  <2>3. candidates = jobs
    BY <2>2, Types
  <2> QED
    BY <2>3 DEF CandidatesInOrder
<1>9. ErrorIsTheCause'
  BY DEF ErrorIsTheCause, Caused, Running, Returned, Outcomes, Trouble, ErrorKnown
<1> QED
  BY <1>1, <1>2, <1>3, <1>4, <1>5, <1>6, <1>7, <1>8, <1>9 DEF PendingInv

-----------------------------------------------------------------------------
LEMMA StutterKeeps ==
  ASSUME PendingInv, UNCHANGED vars
  PROVE  PendingInv'
<1> USE DEF PendingInv, vars
<1>1. TypeOK'
  BY DEF TypeOK
<1>2. OnePlace' /\ InPlace' /\ Accounted' /\ Alarm'
  BY DEF OnePlace, InPlace, Accounted, Alarm, Trouble, ErrorKnown
<1>3. Caused' /\ Running'
  BY DEF Caused, Running, AllDone, Trouble, ErrorKnown, Returned
<1>4. CandidatesInOrder' /\ ErrorIsTheCause'
  BY DEF CandidatesInOrder, ErrorIsTheCause
<1> QED
  BY <1>1, <1>2, <1>3, <1>4

LEMMA StepKeeps == PendingInv /\ [Next]_vars => PendingInv'
<1> SUFFICES ASSUME PendingInv, [Next]_vars PROVE PendingInv'
  OBVIOUS
<1>1. CASE CallerStep
  BY <1>1, ListAndSpawnKeeps, ListFailsKeeps, CollectKeeps, ConcludeKeeps, MarkReadKeeps,
     Zenon DEF CallerStep
<1>2. CASE ParentCancel \/ CloseJobs \/ CloseResults
  BY <1>2, ParentCancelKeeps, CloseJobsKeeps, CloseResultsKeeps, Zenon
<1>3. ASSUME NEW w \in Workers, WorkerStep(w) PROVE PendingInv'
  BY <1>3, HandKeeps, NoMoreJobsKeeps, RunJobKeeps, SendResultKeeps, SendErrorKeeps,
     CancelAllKeeps, Zenon DEF WorkerStep
<1>4. CASE UNCHANGED vars
  BY <1>4, StutterKeeps
<1> QED
  BY <1>1, <1>2, <1>3, <1>4, Zenon DEF Next

(* The invariant the rest follows from.                                     *)
THEOREM PendingInvAlways == Spec => []PendingInv
<1>1. Init => PendingInv
  BY InitInv
<1>2. PendingInv /\ [Next]_vars => PendingInv'
  BY StepKeeps
<1> QED
  BY <1>1, <1>2, PTL DEF Spec

(* Every state is of its type: no worker indexes beyond the jobs, and only  *)
(* listed entries are materialized or marked read.                          *)
THEOREM TypeCorrect == Spec => []TypeOK
<1>1. PendingInv => TypeOK
  BY DEF PendingInv
<1> QED
  BY <1>1, PendingInvAlways, PTL

(* However many workers finish in whatever order, a call that succeeds      *)
(* returns the candidates of all listed entries in the listing's order.     *)
THEOREM InOrder == Spec => []CandidatesInOrder
<1>1. PendingInv => CandidatesInOrder
  BY DEF PendingInv
<1> QED
  BY <1>1, PendingInvAlways, PTL

(* However many jobs fail, a call whose own context lives returns the error *)
(* of a failed job, never the cancellation that followed from it.           *)
THEOREM CauseReported == Spec => []ErrorIsTheCause
<1>1. PendingInv => ErrorIsTheCause
  BY DEF PendingInv
<1> QED
  BY <1>1, PendingInvAlways, PTL

-----------------------------------------------------------------------------
(* The steps of the batch.  Only what was listed is taken; and what         *)
(* PendingBatch says of the batch holds for results on their way: a         *)
(* candidate is sent and collected only of an entry that is materialized.   *)
Offered == UNION {ToSet(list) : list \in Listings}

Stocked ==
  /\ \A w \in Workers : wpc[w] = "sendResult" => jobs[wjob[w]] \in materialized
  /\ \A k \in 1 .. Len(results) :
       results[k].kind = "ok" => jobs[results[k].order] \in materialized
  /\ \A k \in 1 .. Len(received) : jobs[received[k]] \in materialized
  /\ caller \in {"collect", "markRead"} => jobs # <<>>
  /\ ToSet(jobs) \subseteq Offered

LEMMA StockedInit == Init => Stocked
BY DEF Init, Stocked, ToSet

(* Whoever sends and collects nothing leaves it so.                         *)
LEMMA StockKept ==
  ASSUME Stocked, UNCHANGED <<jobs, results, received>>, materialized \subseteq materialized',
         \A w \in Workers : wpc'[w] = "sendResult" => wpc[w] = "sendResult" /\ wjob'[w] = wjob[w],
         caller' \in {"collect", "markRead"} => caller \in {"collect", "markRead"}
  PROVE  Stocked'
BY DEF Stocked

LEMMA DedupWithin ==
  ASSUME NEW list \in Listings
  PROVE  ToSet(Dedup(list)) \subseteq ToSet(list)
<1> DEFINE first == {i \in DOMAIN list : \A j \in 1 .. i - 1 : list[j] # list[i]}
           Place(k) == CHOOSE i \in first : Cardinality(first \cap 1 .. i) = k
           n == Cardinality(first)
<1>1. list \in Seq(Nat \ {NoEntry}) /\ Len(list) \in Nat
  BY ListingsAssumption DEF NoEntry
<1>2. first \in SUBSET (1 .. Len(list)) /\ \A i \in first : list[i] \in ToSet(list)
  BY <1>1 DEF ToSet
<1>3. Dedup(list) = [k \in 1 .. n |-> list[Place(k)]]
  BY DEF Dedup
<1> HIDE DEF first
<1>4. ASSUME NEW k \in 1 .. n PROVE list[Place(k)] \in ToSet(list)
  <2>1. \E i \in first : Cardinality(first \cap 1 .. i) = k
    BY <1>1, <1>2, Ranked
  <2>2. Place(k) \in first
    BY <2>1
  <2> HIDE DEF Place
  <2> QED
    BY <1>2, <2>2
<1> HIDE DEF Place, n
<1> QED
  BY <1>3, <1>4 DEF ToSet

LEMMA SpawnStocked == ASSUME PendingInv, ListAndSpawn PROVE Stocked'
<1>1. caller = "list" /\ TypeOK /\ Running
  BY SpawnFacts DEF PendingInv
<1>2. results' = <<>> /\ received' = <<>> /\ AllDone
  BY <1>1, SpawnFacts DEF Running
<1>3. \A w \in Workers : wpc'[w] # "sendResult"
  BY <1>2, SpawnFacts DEF AllDone
<1>4. caller' \in {"collect", "markRead"} => jobs' # <<>>
  BY SpawnFacts
<1>5. Len(results') = 0 /\ Len(received') = 0
  BY <1>2
<1>6. ToSet(jobs') \subseteq Offered
  <2>1. PICK list \in Listings : jobs' = Dedup(list)
    BY SpawnFacts
  <2> QED
    BY <2>1, DedupWithin DEF Offered
<1> QED
  BY <1>3, <1>4, <1>5, <1>6 DEF Stocked

LEMMA RunStocked == ASSUME TypeOK, Stocked, NEW w \in Workers, RunJob(w) PROVE Stocked'
<1>1. /\ materialized \subseteq materialized'
      /\ UNCHANGED <<jobs, wjob, results, received, caller>>
      /\ \A u \in Workers : u # w => wpc'[u] = wpc[u]
      /\ wpc'[w] = "sendResult" => jobs[wjob[w]] \in materialized'
  BY DEF RunJob, Become, TypeOK, channels, local
<1> QED
  BY <1>1 DEF Stocked

LEMMA SendStocked ==
  ASSUME TypeOK, OnePlace, Stocked, NEW w \in Workers, SendResult(w) \/ SendError(w)
  PROVE  Stocked'
<1>1. /\ UNCHANGED <<jobs, wjob, received, caller, materialized>>
      /\ \A u \in Workers : wpc'[u] = "sendResult" => wpc[u] = "sendResult"
      /\ wpc[w] \in {"sendResult", "sendFailed", "sendAborted"}
  BY DEF SendResult, SendError, Become, TypeOK, channels, local, world
<1>2. CASE results' = results
  BY <1>1, <1>2, StockKept
<1>3. ASSUME NEW kind \in {"ok", "jobFailed", "jobAborted"}, Sent(w, kind),
             kind = "ok" => wpc[w] = "sendResult"
      PROVE  Stocked'
  <2>1. /\ Len(results') = Len(results) + 1 /\ Len(results) \in Nat
        /\ results'[Len(results) + 1].order = wjob[w] /\ results'[Len(results) + 1].kind = kind
        /\ \A k \in 1 .. Len(results) : results'[k] = results[k]
    BY <1>3, SentFacts
  <2>2. ASSUME NEW k \in 1 .. Len(results'), results'[k].kind = "ok"
        PROVE  jobs[results'[k].order] \in materialized
    <3>1. k \in 1 .. Len(results) \/ k = Len(results) + 1
      BY <2>1
    <3> QED
      BY <1>3, <2>1, <2>2, <3>1 DEF Stocked
  <2> QED
    BY <1>1, <2>2 DEF Stocked
<1>4. \/ results' = results
      \/ \E kind \in {"ok", "jobFailed", "jobAborted"} :
           Sent(w, kind) /\ (kind = "ok" => wpc[w] = "sendResult")
  <2>1. CASE SendResult(w)
    BY <1>1, <2>1 DEF SendResult, Sent, Send, Become, TypeOK, Busy, local
  <2>2. CASE SendError(w)
    BY <1>1, <2>2 DEF SendError, Sent, Send, Become, TypeOK, Busy, local
  <2> QED
    BY <2>1, <2>2
<1> QED
  BY <1>2, <1>3, <1>4

LEMMA CollectStocked == ASSUME TypeOK, Stocked, Collect PROVE Stocked'
<1>1. UNCHANGED <<jobs, wpc, wjob, caller, materialized>>
  BY DEF Collect, workers, world
<1>2. /\ Len(results) \in Nat /\ Len(results) >= 1 /\ Len(received) \in Nat
      /\ \A k \in 1 .. Len(results') : k + 1 \in 1 .. Len(results) /\ results'[k] = results[k + 1]
  BY Types, CollectFacts
<1>3. \A k \in 1 .. Len(results') :
        results'[k].kind = "ok" => jobs[results'[k].order] \in materialized
  BY <1>2 DEF Stocked
<1>4. ASSUME NEW k \in 1 .. Len(received') PROVE jobs[received'[k]] \in materialized
  <2>1. CASE results[1].kind = "ok"
    <3>1. jobs[results[1].order] \in materialized
      BY <1>2, <2>1 DEF Stocked
    <3>2. /\ Len(received') = Len(received) + 1
          /\ received'[Len(received) + 1] = results[1].order
          /\ \A l \in 1 .. Len(received) : received'[l] = received[l]
      BY <2>1, CollectFacts
    <3>3. k \in 1 .. Len(received) \/ k = Len(received) + 1
      BY <1>2, <3>2
    <3> QED
      BY <3>1, <3>2, <3>3 DEF Stocked
  <2>2. CASE results[1].kind # "ok"
    <3>1. received' = received
      BY <2>2, CollectFacts
    <3> QED
      BY <3>1 DEF Stocked
  <2> QED
    BY <2>1, <2>2
<1> QED
  BY <1>1, <1>3, <1>4 DEF Stocked

LEMMA StockedStep == PendingInv /\ Stocked /\ [Next]_vars => Stocked'
<1> SUFFICES ASSUME PendingInv, Stocked, [Next]_vars PROVE Stocked'
  OBVIOUS
<1>1. TypeOK /\ OnePlace
  BY DEF PendingInv
<1>2. CASE \/ ListFails \/ ParentCancel \/ CloseJobs \/ CloseResults \/ Conclude \/ MarkRead
           \/ UNCHANGED vars
  <2>1. /\ UNCHANGED <<jobs, results, received, wpc, wjob, materialized>>
        /\ caller' \in {"collect", "markRead"} => caller \in {"collect", "markRead"}
    BY <1>2 DEF ListFails, ParentCancel, CloseJobs, CloseResults, Conclude, MarkRead, vars,
                channels, workers, local, world
  <2> QED
    BY <2>1, StockKept
<1>3. ASSUME NEW w \in Workers, Hand(w) \/ NoMoreJobs(w) \/ CancelAll(w) PROVE Stocked'
  <2>1. /\ UNCHANGED <<jobs, results, received, materialized, caller>>
        /\ \A u \in Workers : wpc'[u] = "sendResult" => wpc[u] = "sendResult" /\ wjob'[u] = wjob[u]
    BY <1>1, <1>3 DEF Hand, NoMoreJobs, CancelAll, Become, TypeOK, channels, local, world
  <2> QED
    BY <2>1, StockKept
<1>4. ASSUME NEW w \in Workers, RunJob(w) PROVE Stocked'
  BY <1>1, <1>4, RunStocked
<1>5. ASSUME NEW w \in Workers, SendResult(w) \/ SendError(w) PROVE Stocked'
  BY <1>1, <1>5, SendStocked
<1>6. CASE ListAndSpawn
  BY <1>6, SpawnStocked
<1>7. CASE Collect
  BY <1>1, <1>7, CollectStocked
<1> QED
  BY <1>2, <1>3, <1>4, <1>5, <1>6, <1>7, Zenon DEF Next, CallerStep, WorkerStep

-----------------------------------------------------------------------------
(* The batch and the verdict as PendingBatch sees them.                     *)
BatchOf == ToSet(jobs)

VerdictOf == IF ~Returned THEN "open" ELSE IF caller = "ok" THEN "ok" ELSE "error"

LEMMA InitBatch == Init => Batch!Init
BY DEF Init, Batch!Init, Returned, Outcomes, ToSet

LEMMA SpawnBatch ==
  ASSUME PendingInv, ListAndSpawn
  PROVE  Batch!Take
<1>1. caller = "list" /\ Running
  BY SpawnFacts DEF PendingInv
<1>2. BatchOf = {} /\ VerdictOf = "open"
  BY <1>1 DEF BatchOf, VerdictOf, Running, Returned, Outcomes, ToSet
<1>3. BatchOf' \in SUBSET Offered
  <2>1. PICK list \in Listings : jobs' = Dedup(list)
    BY SpawnFacts
  <2>2. BatchOf' \subseteq ToSet(list)
    BY <2>1, DedupWithin DEF BatchOf
  <2> QED
    BY <2>2 DEF Offered
<1>4. jobs' \in Seq(Nat \ {NoEntry}) /\ UNCHANGED <<materialized, read>>
  BY SpawnFacts
<1>5. BatchOf' = {} <=> jobs' = <<>>
  <2>1. BatchOf' = {jobs'[i] : i \in DOMAIN jobs'}
    BY DEF BatchOf, ToSet
  <2>2. jobs' = <<>> <=> 1 \notin DOMAIN jobs'
    BY <1>4
  <2>3. jobs' = <<>> => DOMAIN jobs' = {}
    OBVIOUS
  <2> QED
    BY <2>1, <2>2, <2>3
<1>6. VerdictOf' = IF BatchOf' = {} THEN "ok" ELSE "open"
  BY <1>5, SpawnFacts DEF VerdictOf, Returned, Outcomes
<1> QED
  BY <1>2, <1>3, <1>4, <1>6 DEF Batch!Take, BatchOf, VerdictOf, Offered

LEMMA RunBatch ==
  ASSUME PendingInv, NEW w \in Workers, RunJob(w)
  PROVE  UNCHANGED Batch!vars \/ \E e \in BatchOf : Batch!Materialize(e)
<1>1. TypeOK /\ OnePlace /\ Running
  BY DEF PendingInv
<1>2. caller = "collect" /\ wjob[w] \in 1 .. fed
  BY <1>1 DEF RunJob, Running, AllDone, OnePlace, Busy
<1>3. jobs[wjob[w]] \in BatchOf
  <2>1. wjob[w] \in 1 .. Len(jobs) /\ jobs \in Seq(Nat \ {NoEntry})
    BY <1>1, <1>2, Types
  <2> QED
    BY <2>1 DEF BatchOf, ToSet
<1>4. /\ UNCHANGED <<jobs, caller, read>>
      /\ materialized' = materialized \/ materialized' = materialized \cup {jobs[wjob[w]]}
  BY DEF RunJob, local, channels
<1>5. VerdictOf = "open" /\ UNCHANGED <<BatchOf, VerdictOf>>
  BY <1>2, <1>4 DEF VerdictOf, BatchOf, Returned, Outcomes
<1> QED
  BY <1>3, <1>4, <1>5 DEF Batch!vars, Batch!Materialize, BatchOf, VerdictOf

LEMMA ReadBatch ==
  ASSUME PendingInv, Stocked, MarkRead
  PROVE  Batch!Succeed \/ Batch!Fail
<1>1. TypeOK /\ OnePlace /\ Len(received) = Len(jobs) /\ jobs # <<>>
  BY DEF PendingInv, Running, Stocked, MarkRead
<1>2. /\ jobs \in Seq(Nat \ {NoEntry}) /\ received \in Seq(1 .. Len(jobs))
      /\ \A k \in 1 .. Len(received) : received[k] \in 1 .. Len(jobs)
  BY <1>1, Types
<1>3. ToSet(received) = 1 .. Len(jobs)
  <2>1. \A i \in 1 .. Len(jobs) : \E k \in 1 .. Len(received) : received[k] = i
    BY <1>1, AllReceived
  <2>2. ToSet(received) = {received[k] : k \in 1 .. Len(received)}
    BY <1>2 DEF ToSet
  <2> QED
    BY <1>2, <2>1, <2>2
<1>4. BatchOf = {jobs[i] : i \in 1 .. Len(jobs)}
  BY <1>2 DEF BatchOf, ToSet
<1>5. BatchOf \subseteq materialized
  <2>1. \A i \in 1 .. Len(jobs) : \E k \in 1 .. Len(received) : received[k] = i
    BY <1>1, AllReceived
  <2> QED
    BY <1>4, <2>1 DEF Stocked
<1>6. BatchOf # {}
  BY <1>1, <1>2 DEF BatchOf, ToSet
<1>7. /\ VerdictOf = "open" /\ UNCHANGED <<BatchOf, materialized>>
      /\ \/ VerdictOf' = "ok" /\ read' = BatchOf
         \/ VerdictOf' = "error" /\ (read' = read \/ read' = BatchOf)
  BY <1>3, <1>4 DEF MarkRead, VerdictOf, BatchOf, Returned, Outcomes, local
<1> QED
  BY <1>5, <1>6, <1>7 DEF Batch!Succeed, Batch!Fail, BatchOf, VerdictOf

LEMMA StepBatch ==
  ASSUME PendingInv, Stocked, [Next]_vars
  PROVE  [Batch!Next]_(Batch!vars)
<1>1. CASE ListAndSpawn
  BY <1>1, SpawnBatch DEF Batch!Next
<1>2. CASE MarkRead
  BY <1>2, ReadBatch DEF Batch!Next
<1>3. ASSUME NEW w \in Workers, RunJob(w) PROVE [Batch!Next]_(Batch!vars)
  <2>1. BatchOf \subseteq Offered
    BY DEF Stocked, BatchOf
  <2> QED
    BY <1>3, <2>1, RunBatch DEF Batch!Next, Offered
<1>4. CASE ListFails \/ Conclude
  <2>1. UNCHANGED <<jobs, materialized, read>> /\ ~Returned
    BY <1>4 DEF ListFails, Conclude, local, world, Returned, Outcomes
  <2>2. caller' = "markRead" \/ caller' \in Outcomes \ {"ok"}
    BY <1>4 DEF ListFails, Conclude, Verdict, Outcomes, PendingInv, TypeOK
  <2>3. VerdictOf = "open" /\ BatchOf' = BatchOf /\ VerdictOf' \in {"open", "error"}
    BY <2>1, <2>2 DEF VerdictOf, BatchOf, Returned, Outcomes
  <2> QED
    BY <2>1, <2>3 DEF Batch!Next, Batch!Fail, Batch!vars, BatchOf, VerdictOf
<1>5. CASE ParentCancel \/ CloseJobs \/ CloseResults \/ Collect \/ UNCHANGED vars
  BY <1>5 DEF ParentCancel, CloseJobs, CloseResults, Collect, vars, workers, channels, local,
              world, Batch!vars, Returned
<1>6. ASSUME NEW w \in Workers,
             Hand(w) \/ NoMoreJobs(w) \/ SendResult(w) \/ SendError(w) \/ CancelAll(w)
      PROVE  UNCHANGED Batch!vars
  BY <1>6 DEF Hand, NoMoreJobs, SendResult, SendError, CancelAll, channels, local, world,
              Batch!vars, Returned
<1> QED
  BY <1>1, <1>2, <1>3, <1>4, <1>5, <1>6, Zenon DEF Next, CallerStep, WorkerStep

(* However the goroutines interleave, whatever fails and whoever cancels, a *)
(* call keeps the contract of PendingBatch: it marks its batch read as a    *)
(* whole, not before every entry of it is materialized, and nothing changes *)
(* once ProcessPending has returned.                                        *)
THEOREM BatchImplemented == Spec => ImplementsBatch
<1>1. Init => Batch!Init /\ Stocked
  BY InitBatch, StockedInit
<1>2. PendingInv /\ Stocked /\ [Next]_vars => Stocked'
  BY StockedStep
<1>3. PendingInv /\ Stocked /\ [Next]_vars => [Batch!Next]_(Batch!vars)
  BY StepBatch
<1> QED
  BY <1>1, <1>2, <1>3, PendingInvAlways, PTL DEF Spec, ImplementsBatch, Batch!Spec
=============================================================================
