------------------------- MODULE AdminSessionProofs -------------------------
(***************************************************************************)
(* Proofs about module AdminSession, for any browsers, users, sessions and *)
(* requests, either store, and any number of faults.                       *)
(*                                                                         *)
(* What makes the store keep its promise is that an id is drawn once: from *)
(* its draw to its save nobody else knows it (Fresh), and what is ever     *)
(* stored under it belongs to one user and expires at one time (Owners,    *)
(* Timely), so that a request may compare what it read earlier.            *)
(***************************************************************************)
EXTENDS AdminSession, TLAPS

Known ==
  /\ \A b \in Browsers : jar[b] \in drawn \cup {NoCookie}
  /\ \A r \in Requests : req[r].cookie \in drawn \cup {NoCookie}
  /\ \A s \in Sessions : store[s] # Absent => s \in drawn /\ s \notin ended
  /\ ended \subseteq drawn

Fresh ==
  \A r \in Requests : req[r].pc = "save" =>
    /\ req[r].cookie \in drawn /\ req[r].cookie \notin ended
    /\ store[req[r].cookie] = Absent
    /\ \A b \in Browsers : jar[b] # req[r].cookie
    /\ \A q \in Requests : q # r => req[q].cookie # req[r].cookie

Logins ==
  \A r \in Requests :
    /\ req[r].op = "login" => req[r].user \in Users
    /\ req[r].pc = "save" => req[r].op = "login" /\ req[r].right
    /\ req[r].pc = "ok" /\ req[r].op = "login" => req[r].right
    /\ req[r].pc \in {"check", "expired", "admitted"} =>
         req[r].op # "login" /\ req[r].cookie \in Sessions

Owned(s, u) == Stored(s) => store[s].user = u

Owners ==
  /\ \A b \in Browsers : Owned(jar[b], self[b])
  /\ \A r \in Requests :
       /\ req[r].pc = "sent" /\ req[r].op # "login" => Owned(req[r].cookie, req[r].self)
       /\ req[r].pc = "ok" /\ req[r].op = "login" => Owned(req[r].cookie, req[r].user)

Timely ==
  \A r \in Requests :
    /\ req[r].pc \in {"check", "expired"} /\ Stored(req[r].cookie) =>
         store[req[r].cookie].expires = req[r].expires
    /\ req[r].pc = "check" => (now <= req[r].expires => req[r].was)
    /\ req[r].pc = "expired" => ~(now <= req[r].expires)

SessionInv ==
  TypeOK /\ Known /\ Fresh /\ Logins /\ Owners /\ Timely /\ ActsAsItself

-----------------------------------------------------------------------------
LEMMA SessionInvInit == Init => SessionInv
<1> SUFFICES ASSUME Init PROVE SessionInv
  OBVIOUS
<1>1. TypeOK
  BY TimeAssumption DEF Init, TypeOK, RequestType, Idle, Stages, Operations
<1> QED
  BY <1>1, NoCookieAssumption
  DEF Init, SessionInv, Known, Fresh, Logins, Owners, Owned, Stored, Timely, ActsAsItself, Idle

(* What a step of the handler changes of the requests.                      *)
Moved(r, p) ==
  /\ req' \in [Requests -> RequestType]
  /\ \A q \in Requests : q # r => req'[q] = req[q]
  /\ req'[r].pc = p /\ req'[r].op = req[r].op /\ req'[r].cookie = req[r].cookie
  /\ req'[r].user = req[r].user /\ req'[r].self = req[r].self
  /\ req'[r].right = req[r].right /\ req'[r].expires = req[r].expires
  /\ req'[r].was = req[r].was

LEMMA OnlyStage ==
  ASSUME req \in [Requests -> RequestType], NEW r \in Requests, NEW p \in Stages, To(r, p)
  PROVE  Moved(r, p)
BY DEF To, RequestType, Moved

(* A request goes on and nothing else changes.                              *)
LEMMA StageKeeps ==
  ASSUME SessionInv, NEW r \in Requests, NEW p \in Stages, To(r, p),
         UNCHANGED <<kind, now, store, drawn, jar, self, ended>>, faults' \in 0 .. MaxFaults,
         \/ p \in {"unauthorized", "unavailable"}
         \/ p = "ok" /\ req[r].op # "login"
         \/ p = "admitted" /\ req[r].pc = "check"
         \/ p = "expired" /\ req[r].pc = "check" /\ ~(now <= req[r].expires)
  PROVE  SessionInv'
<1>1. TypeOK /\ Known /\ Fresh /\ Logins /\ Owners /\ Timely /\ ActsAsItself
  BY DEF SessionInv
<1>2. Moved(r, p)
  BY <1>1, OnlyStage DEF TypeOK
<1>3. TypeOK'
  BY <1>1, <1>2 DEF Moved, TypeOK
<1>4. Known'
  BY <1>1, <1>2 DEF Moved, Known
<1>5. Fresh'
  BY <1>1, <1>2 DEF Moved, Fresh
<1>6. Logins'
  BY <1>1, <1>2 DEF Moved, Logins
<1>7. Owners'
  BY <1>1, <1>2 DEF Moved, Owners, Owned, Stored
<1>8. Timely'
  BY <1>1, <1>2 DEF Moved, Timely, Stored
<1>9. ActsAsItself'
  BY <1>1, <1>2 DEF Moved, ActsAsItself
<1> QED
  BY <1>3, <1>4, <1>5, <1>6, <1>7, <1>8, <1>9 DEF SessionInv

(* A request saves a session under the id it has drawn.                     *)
LEMMA SavedKeeps ==
  ASSUME SessionInv, NEW r \in Requests, req[r].pc = "save", Saved(r),
         NEW p \in {"ok", "unavailable"}, To(r, p),
         UNCHANGED <<kind, now, drawn, jar, self, ended>>, faults' \in 0 .. MaxFaults
  PROVE  SessionInv'
<1> DEFINE c == req[r].cookie
<1>1. TypeOK /\ Known /\ Fresh /\ Logins /\ Owners /\ Timely /\ ActsAsItself
  BY DEF SessionInv
<1>2. Moved(r, p)
  BY <1>1, OnlyStage DEF TypeOK, Stages, Answers
<1>3. c \in drawn /\ c \in Sessions /\ c \notin ended /\ req[r].user \in Users /\ req[r].right
      /\ req[r].op = "login"
  BY <1>1 DEF Fresh, Logins, TypeOK
<1>4. store' = [store EXCEPT ![c] = [user |-> req[r].user, expires |-> now + TTL]]
  BY DEF Saved, Entry
<1>5. /\ store'[c] = [user |-> req[r].user, expires |-> now + TTL]
      /\ store'[c] # Absent /\ store'[c].user = req[r].user
      /\ \A s \in Sessions : s # c => store'[s] = store[s]
  BY <1>1, <1>3, <1>4, AbsentAssumption, TimeAssumption DEF TypeOK
<1>6. \A b \in Browsers : jar[b] # c
  BY <1>1 DEF Fresh
<1>7. \A q \in Requests : q # r => req[q].cookie # c
  BY <1>1 DEF Fresh
<1> HIDE DEF c
<1>8. TypeOK'
  <2>1. store'[c] \in [user : Users, expires : 0 .. MaxTime + TTL]
    BY <1>1, <1>3, <1>5, TimeAssumption DEF TypeOK
  <2> QED BY <1>1, <1>2, <1>4, <2>1, <1>5 DEF Moved, TypeOK
<1>9. Known'
  BY <1>1, <1>2, <1>3, <1>5 DEF Moved, Known
<1>10. Fresh'
  BY <1>1, <1>2, <1>5, <1>7 DEF Moved, Fresh, c, TypeOK
<1>11. Logins'
  BY <1>1, <1>2, <1>3, ZenonT(40) DEF Moved, Logins
<1>12. Owners'
  BY <1>1, <1>2, <1>3, <1>5, <1>6, <1>7 DEF Moved, Owners, Owned, Stored, c
<1>13. Timely'
  BY <1>1, <1>2, <1>5, <1>7 DEF Moved, Timely, Stored, c
<1>14. ActsAsItself'
  BY <1>1, <1>2 DEF Moved, ActsAsItself
<1> QED
  BY <1>8, <1>9, <1>10, <1>11, <1>12, <1>13, <1>14 DEF SessionInv

(* A request deletes the session of its cookie; a logout that succeeds ends *)
(* it.                                                                      *)
LEMMA DeletedKeeps ==
  ASSUME SessionInv, NEW r \in Requests, req[r].op # "login", req[r].pc # "save", Deleted(r),
         NEW p \in Answers, To(r, p),
         \/ ended' = ended
         \/ ended' = ended \cup {req[r].cookie} /\ req[r].cookie \in Sessions,
         UNCHANGED <<kind, now, drawn, jar, self>>, faults' \in 0 .. MaxFaults
  PROVE  SessionInv'
<1>1. TypeOK /\ Known /\ Fresh /\ Logins /\ Owners /\ Timely /\ ActsAsItself
  BY DEF SessionInv
<1>2. Moved(r, p)
  BY <1>1, OnlyStage DEF TypeOK, Stages, Answers
<1>3. /\ store' \in [Sessions -> [user : Users, expires : 0 .. MaxTime + TTL] \cup {Absent}]
      /\ \A s \in Sessions : store'[s] = IF s = req[r].cookie THEN Absent ELSE store[s]
  BY <1>1 DEF Deleted, TypeOK
<1>4. p # "save" /\ p # "sent" /\ p # "check" /\ p # "expired" /\ p # "admitted"
  BY DEF Answers
<1>5. \A s \in Sessions : store'[s] # Absent => store'[s] = store[s] /\ s # req[r].cookie
  BY <1>3
<1>6. TypeOK'
  BY <1>1, <1>2, <1>3 DEF Moved, TypeOK
<1>7. Known'
  BY <1>1, <1>2, <1>5, NoCookieAssumption DEF Moved, Known, TypeOK
<1>8. Fresh'
  <2> SUFFICES ASSUME NEW s \in Requests, req'[s].pc = "save"
               PROVE  /\ req'[s].cookie \in drawn' /\ req'[s].cookie \notin ended'
                      /\ store'[req'[s].cookie] = Absent
                      /\ \A b \in Browsers : jar'[b] # req'[s].cookie
                      /\ \A q \in Requests : q # s => req'[q].cookie # req'[s].cookie
    BY DEF Fresh
  <2>1. s # r /\ req'[s] = req[s] /\ req[s].pc = "save"
    BY <1>2, <1>4 DEF Moved
  <2>2. req[s].cookie # req[r].cookie /\ req[s].cookie \in Sessions
    BY <1>1, <2>1 DEF Fresh, TypeOK
  <2>3. store[req[s].cookie] = Absent
    BY <1>1, <2>1 DEF Fresh
  <2>4. store'[req[s].cookie] = Absent
    BY <2>2, <2>3, <1>3
  <2> QED BY <1>1, <1>2, <2>1, <2>2, <2>4 DEF Moved, Fresh
<1>9. Logins'
  BY <1>1, <1>2, <1>4 DEF Moved, Logins
<1>10. Owners'
  BY <1>1, <1>2, <1>4, <1>5 DEF Moved, Owners, Owned, Stored
<1>11. Timely'
  BY <1>1, <1>2, <1>4, <1>5 DEF Moved, Timely, Stored
<1>12. ActsAsItself'
  BY <1>1, <1>2, <1>4 DEF Moved, ActsAsItself
<1> QED
  BY <1>6, <1>7, <1>8, <1>9, <1>10, <1>11, <1>12 DEF SessionInv

-----------------------------------------------------------------------------
LEMMA DrawKeeps ==
  ASSUME SessionInv, NEW r \in Requests, Draw(r)
  PROVE  SessionInv'
<1>1. TypeOK /\ Known /\ Fresh /\ Logins /\ Owners /\ Timely /\ ActsAsItself
  BY DEF SessionInv
<1>2. PICK s \in Sessions \ drawn :
        /\ drawn' = drawn \cup {s}
        /\ req' = [req EXCEPT ![r].pc = "save", ![r].cookie = s]
  BY DEF Draw
<1>0. req[r] \in RequestType /\ req[r].op = "login" /\ req[r].right
  BY <1>1 DEF Draw, LoginSent, TypeOK
<1>r. [req[r] EXCEPT !.pc = "save", !.cookie = s] \in RequestType
  BY <1>0, <1>2 DEF RequestType, Stages
<1>e. req' = [req EXCEPT ![r] = [req[r] EXCEPT !.pc = "save", !.cookie = s]]
  BY <1>1, <1>2 DEF TypeOK
<1>3. /\ req' \in [Requests -> RequestType]
      /\ \A q \in Requests : q # r => req'[q] = req[q]
      /\ req'[r].pc = "save" /\ req'[r].cookie = s /\ req'[r].op = "login"
      /\ req'[r].right /\ req'[r].user = req[r].user
  BY <1>0, <1>1, <1>r, <1>e DEF TypeOK, RequestType
<1>4. UNCHANGED <<kind, now, store, jar, self, ended, faults>>
  BY DEF Draw
<1>5. /\ store[s] = Absent /\ s \notin ended
      /\ \A b \in Browsers : jar[b] # s
      /\ \A q \in Requests : req[q].cookie # s
  BY <1>1, <1>2, NoCookieAssumption DEF Known
<1>6. TypeOK'
  BY <1>1, <1>2, <1>3, <1>4 DEF TypeOK
<1>7. Known'
  BY <1>1, <1>2, <1>3, <1>4 DEF Known
<1>8. Fresh'
  BY <1>1, <1>2, <1>3, <1>4, <1>5 DEF Fresh
<1>9. Logins'
  BY <1>1, <1>3 DEF Logins, Draw, LoginSent
<1>10. Owners'
  BY <1>1, <1>3, <1>4 DEF Owners, Owned, Stored
<1>11. Timely'
  BY <1>1, <1>3, <1>4 DEF Timely, Stored
<1>12. ActsAsItself'
  BY <1>1, <1>3 DEF ActsAsItself
<1> QED
  BY <1>6, <1>7, <1>8, <1>9, <1>10, <1>11, <1>12 DEF SessionInv

(* Reading copies what is stored, of a session that is its owner's.         *)
LEMMA ReadKeeps ==
  ASSUME SessionInv, NEW r \in Requests, Read(r)
  PROVE  SessionInv'
<1> DEFINE s == req[r].cookie
<1>1. TypeOK /\ Known /\ Fresh /\ Logins /\ Owners /\ Timely /\ ActsAsItself
  BY DEF SessionInv
<1>2. /\ UNCHANGED <<kind, now, store, drawn, jar, self, ended, faults>>
      /\ req[r].pc = "sent" /\ req[r].op # "login"
  BY DEF Read
<1>3. CASE ~Stored(s) \/ (kind = "redis" /\ ~Valid(s))
  <2>1. To(r, "unauthorized") /\ "unauthorized" \in Stages
    BY <1>3 DEF Read, Stages, Answers
  <2> QED BY <1>1, <1>2, <2>1, StageKeeps DEF TypeOK
<1>4. CASE ~(~Stored(s) \/ (kind = "redis" /\ ~Valid(s)))
  <2>1. req' = [req EXCEPT ![r].pc = IF kind = "redis" THEN "admitted" ELSE "check",
                           ![r].user = store[s].user,
                           ![r].expires = store[s].expires,
                           ![r].was = Valid(s)]
    BY <1>4 DEF Read
  <2>2. /\ s \in Sessions /\ store[s] # Absent
        /\ store[s].user \in Users /\ store[s].expires \in 0 .. MaxTime + TTL
        /\ store[s].user = req[r].self
    BY <1>1, <1>2, <1>4 DEF Stored, TypeOK, Owners, Owned
  <2>3. Valid(s) \in BOOLEAN /\ (now <= store[s].expires => Valid(s))
    BY <2>2 DEF Valid, Stored
  <2> HIDE DEF s
  <2> DEFINE new == [req[r] EXCEPT !.pc = IF kind = "redis" THEN "admitted" ELSE "check",
                                   !.user = store[s].user,
                                   !.expires = store[s].expires,
                                   !.was = Valid(s)]
  <2>r. req[r] \in RequestType
    BY <1>1 DEF TypeOK
  <2>n. /\ new \in RequestType /\ new.pc \in {"admitted", "check"}
        /\ new.op = req[r].op /\ new.cookie = req[r].cookie /\ new.self = req[r].self
        /\ new.user = store[s].user /\ new.expires = store[s].expires /\ new.was = Valid(s)
    BY <2>r, <2>2, <2>3, ZenonT(40) DEF RequestType, Stages
  <2>e. req' = [req EXCEPT ![r] = new]
    BY <1>1, <2>1 DEF TypeOK
  <2> HIDE DEF new
  <2>4. /\ req' \in [Requests -> RequestType]
        /\ \A q \in Requests : q # r => req'[q] = req[q]
        /\ req'[r].pc \in {"admitted", "check"}
        /\ req'[r].op = req[r].op /\ req'[r].cookie = req[r].cookie
        /\ req'[r].self = req[r].self /\ req'[r].user = store[s].user
        /\ req'[r].expires = store[s].expires /\ req'[r].was = Valid(s)
    BY <1>1, <2>n, <2>e DEF TypeOK
  <2>5. TypeOK'
    BY <1>1, <1>2, <2>4 DEF TypeOK
  <2>6. Known'
    BY <1>1, <1>2, <2>4 DEF Known
  <2>7. Fresh'
    BY <1>1, <1>2, <2>4 DEF Fresh
  <2>8. Logins'
    BY <1>1, <1>2, <2>2, <2>4 DEF Logins, s
  <2>9. Owners'
    BY <1>1, <1>2, <2>4 DEF Owners, Owned, Stored
  <2>10. Timely'
    BY <1>1, <1>2, <2>2, <2>3, <2>4 DEF Timely, Stored, s
  <2>11. ActsAsItself'
    BY <1>1, <2>2, <2>4 DEF ActsAsItself
  <2> QED
    BY <2>5, <2>6, <2>7, <2>8, <2>9, <2>10, <2>11 DEF SessionInv
<1> QED
  BY <1>3, <1>4

LEMMA ServeKeeps ==
  ASSUME SessionInv, NEW r \in Requests, Serve(r)
  PROVE  SessionInv'
<1>1. faults \in 0 .. MaxFaults
  BY DEF SessionInv, TypeOK
<1>2. {"unauthorized", "ok", "expired", "admitted"} \subseteq Stages
  BY DEF Stages, Answers
<1>3. CASE Refuse(r)
  BY <1>1, <1>2, <1>3, StageKeeps DEF Refuse
<1>4. CASE Draw(r)
  BY <1>4, DrawKeeps
<1>5. CASE Save(r)
  BY <1>1, <1>5, SavedKeeps DEF Save
<1>6. CASE Read(r)
  BY <1>6, ReadKeeps
<1>7. CASE Check(r)
  <2>1. CASE now <= req[r].expires
    BY <1>1, <1>2, <1>7, <2>1, StageKeeps DEF Check
  <2>2. CASE ~(now <= req[r].expires)
    BY <1>1, <1>2, <1>7, <2>2, StageKeeps DEF Check
  <2> QED BY <2>1, <2>2
<1>8. CASE Remove(r)
  <2>1. req[r].op # "login"
    BY <1>8 DEF SessionInv, Logins, Remove
  <2> QED BY <1>1, <1>8, <2>1, DeletedKeeps DEF Remove, Answers
<1>9. CASE Handle(r)
  BY <1>1, <1>2, <1>9, StageKeeps DEF Handle
<1>10. CASE Logout(r)
  <2>1. req[r].op # "login" /\ req[r].cookie \in Sessions
    BY <1>10 DEF SessionInv, Logins, Logout
  <2> QED BY <1>1, <1>10, <2>1, DeletedKeeps DEF Logout, Answers
<1> QED
  BY <1>3, <1>4, <1>5, <1>6, <1>7, <1>8, <1>9, <1>10, Zenon DEF Serve, vars

LEMMA FailKeeps ==
  ASSUME SessionInv, NEW r \in Requests, Fail(r)
  PROVE  SessionInv'
<1>1. /\ faults' \in 0 .. MaxFaults /\ To(r, "unavailable")
      /\ UNCHANGED <<kind, now, drawn, jar, self, ended>>
  BY TimeAssumption DEF Fail, Fault, SessionInv, TypeOK
<1>2. CASE UNCHANGED store
  BY <1>1, <1>2, StageKeeps DEF Stages, Answers
<1>3. CASE req[r].pc = "save" /\ Saved(r)
  BY <1>1, <1>3, SavedKeeps
<1>4. CASE req[r].pc = "admitted" /\ req[r].op = "logout" /\ Deleted(r)
  BY <1>1, <1>4, DeletedKeeps DEF Answers
<1> QED
  BY <1>2, <1>3, <1>4 DEF Fail

(* A connection is free again, and its browser may have a new cookie.       *)
LEMMA IdleKeeps ==
  ASSUME SessionInv, NEW r \in Requests, req[r].pc \in Answers,
         req' = [req EXCEPT ![r] = Idle],
         \/ UNCHANGED <<jar, self>>
         \/ \E b \in Browsers \cup {Nobody} :
              /\ req[r].pc = "ok" /\ req[r].op = "login"
              /\ jar'  = [jar EXCEPT ![b] = req[r].cookie]
              /\ self' = [self EXCEPT ![b] = IF req[r].right THEN req[r].user ELSE Nobody]
         \/ \E b \in Browsers \cup {Nobody} :
              /\ jar'  = [jar EXCEPT ![b] = NoCookie]
              /\ self' = [self EXCEPT ![b] = Nobody],
         UNCHANGED <<kind, now, store, drawn, ended>>, faults' \in 0 .. MaxFaults
  PROVE  SessionInv'
<1>1. TypeOK /\ Known /\ Fresh /\ Logins /\ Owners /\ Timely /\ ActsAsItself
  BY DEF SessionInv
<1>2. /\ req' \in [Requests -> RequestType]
      /\ \A q \in Requests : q # r => req'[q] = req[q]
      /\ req'[r].pc = "idle" /\ req'[r].op = "admin" /\ req'[r].cookie = NoCookie
  BY <1>1, TimeAssumption DEF TypeOK, RequestType, Idle, Stages, Operations
<1>3. /\ jar' \in [Browsers -> Sessions \cup {NoCookie}]
      /\ self' \in [Browsers -> Users \cup {Nobody}]
      /\ \A b \in Browsers : \/ jar'[b] = jar[b] /\ self'[b] = self[b]
                             \/ jar'[b] = NoCookie
                             \/ /\ jar'[b] = req[r].cookie /\ self'[b] = req[r].user
                                /\ req[r].pc = "ok" /\ req[r].op = "login"
  BY <1>1 DEF TypeOK, RequestType, Logins
<1>4. TypeOK'
  BY <1>1, <1>2, <1>3 DEF TypeOK
<1>5. Known'
  BY <1>1, <1>2, <1>3 DEF Known
<1>6. Fresh'
  BY <1>1, <1>2, <1>3, NoCookieAssumption DEF Fresh, Answers, TypeOK
<1>7. Logins'
  BY <1>1, <1>2 DEF Logins
<1>8. Owners'
  BY <1>1, <1>2, <1>3, NoCookieAssumption DEF Owners, Owned, Stored
<1>9. Timely'
  BY <1>1, <1>2 DEF Timely, Stored
<1>10. ActsAsItself'
  BY <1>1, <1>2 DEF ActsAsItself
<1> QED
  BY <1>4, <1>5, <1>6, <1>7, <1>8, <1>9, <1>10 DEF SessionInv

LEMMA ReceiveKeeps ==
  ASSUME SessionInv, NEW r \in Requests, Receive(r) \/ Lose(r)
  PROVE  SessionInv'
<1>1. faults \in 0 .. MaxFaults
  BY DEF SessionInv, TypeOK
<1>2. CASE Lose(r)
  <2>1. faults' \in 0 .. MaxFaults
    BY <1>1, <1>2, TimeAssumption DEF Lose, Fault
  <2> QED BY <1>2, <2>1, IdleKeeps DEF Lose
<1>3. CASE Receive(r)
  <2>1. CASE req[r].pc = "ok"
    <3>1. req[r].browser \in Browsers \cup {Nobody}
      BY DEF SessionInv, TypeOK, RequestType
    <3> QED BY <1>1, <1>3, <2>1, <3>1, IdleKeeps DEF Receive
  <2>2. CASE req[r].pc # "ok"
    BY <1>1, <1>3, <2>2, IdleKeeps DEF Receive
  <2> QED BY <2>1, <2>2
<1> QED
  BY <1>2, <1>3

LEMMA RestartKeeps ==
  ASSUME SessionInv, Restart
  PROVE  SessionInv'
<1>1. TypeOK /\ Known /\ Fresh /\ Logins /\ Owners /\ Timely /\ ActsAsItself
  BY DEF SessionInv
<1>2. /\ req' \in [Requests -> RequestType]
      /\ \A q \in Requests : req'[q].pc = "idle" /\ req'[q].op = "admin"
                             /\ req'[q].cookie = NoCookie
  BY <1>1, TimeAssumption DEF Restart, RequestType, Idle, Stages, Operations
<1>3. /\ store' \in [Sessions -> [user : Users, expires : 0 .. MaxTime + TTL] \cup {Absent}]
      /\ \A s \in Sessions : store'[s] # Absent => store'[s] = store[s]
  BY <1>1 DEF Restart, TypeOK
<1>4. UNCHANGED <<kind, now, drawn, jar, self, ended>> /\ faults' \in 0 .. MaxFaults
  BY <1>1, TimeAssumption DEF Restart, Fault, TypeOK
<1>5. TypeOK'
  BY <1>1, <1>2, <1>3, <1>4 DEF TypeOK
<1>6. Known'
  BY <1>1, <1>2, <1>3, <1>4 DEF Known
<1>7. Fresh' /\ Logins' /\ Timely' /\ ActsAsItself'
  BY <1>2 DEF Fresh, Logins, Timely, ActsAsItself
<1>8. Owners'
  BY <1>1, <1>2, <1>3, <1>4 DEF Owners, Owned, Stored
<1> QED
  BY <1>5, <1>6, <1>7, <1>8 DEF SessionInv

LEMMA TickKeeps ==
  ASSUME SessionInv, Tick
  PROVE  SessionInv'
<1>1. TypeOK /\ Known /\ Fresh /\ Logins /\ Owners /\ Timely /\ ActsAsItself
  BY DEF SessionInv
<1>2. now' = now + 1 /\ now' \in 0 .. MaxTime
      /\ UNCHANGED <<kind, store, drawn, jar, self, req, ended, faults>>
  BY <1>1, TimeAssumption DEF Tick, TypeOK
<1>3. TypeOK'
  BY <1>1, <1>2 DEF TypeOK
<1>4. Known' /\ Fresh' /\ Logins' /\ Owners' /\ ActsAsItself'
  BY <1>1, <1>2 DEF Known, Fresh, Logins, Owners, Owned, Stored, ActsAsItself
<1>5. \A r \in Requests : req[r].expires \in Nat /\ now \in Nat
  BY <1>1, TimeAssumption DEF TypeOK, RequestType
<1>6. Timely'
  BY <1>1, <1>2, <1>5 DEF Timely, Stored
<1> QED
  BY <1>3, <1>4, <1>6 DEF SessionInv

LEMMA SendKeeps ==
  ASSUME SessionInv, NEW r \in Requests, NEW b \in Browsers, NEW op \in Operations,
         NEW u \in Users, NEW right \in BOOLEAN, Send(r, b, op, u, right)
  PROVE  SessionInv'
<1>1. TypeOK /\ Known /\ Fresh /\ Logins /\ Owners /\ Timely /\ ActsAsItself
  BY DEF SessionInv
<1>2. UNCHANGED <<kind, now, store, drawn, jar, self, ended, faults>> /\ req[r].pc = "idle"
  BY DEF Send
<1> DEFINE new == [Idle EXCEPT !.pc = "sent", !.op = op, !.browser = b, !.cookie = jar[b],
                               !.self = self[b],
                               !.user = IF op = "login" THEN u ELSE Nobody,
                               !.right = op = "login" /\ right]
<1>n. /\ new \in RequestType /\ new.pc = "sent" /\ new.op = op /\ new.cookie = jar[b]
      /\ new.self = self[b] /\ (op = "login" => new.user = u)
  <2>1. jar[b] \in Sessions \cup {NoCookie} /\ self[b] \in Users \cup {Nobody}
    BY <1>1 DEF TypeOK
  <2>2. 0 \in 0 .. MaxTime + TTL /\ "admin" \in Operations /\ "sent" \in Stages
    BY TimeAssumption DEF Operations, Stages
  <2>3. (op = "login" /\ right) \in BOOLEAN
    OBVIOUS
  <2>4. (IF op = "login" THEN u ELSE Nobody) \in Users \cup {Nobody}
    OBVIOUS
  <2>5. Idle \in RequestType
    BY <2>2, TimeAssumption DEF Idle, RequestType, Stages
  <2> DEFINE known == op = "login" /\ right
             name  == IF op = "login" THEN u ELSE Nobody
  <2>6. known \in BOOLEAN /\ name \in Users \cup {Nobody} /\ (op = "login" => name = u)
    BY <2>3
  <2> HIDE DEF known, name
  <2>7. LET mid == [Idle EXCEPT !.pc = "sent", !.op = op, !.browser = b, !.cookie = jar[b]]
        IN  /\ mid \in RequestType
            /\ mid.pc = "sent" /\ mid.op = op /\ mid.cookie = jar[b]
            /\ new = [mid EXCEPT !.self = self[b], !.user = name, !.right = known]
    BY <2>1, <2>2, <2>5 DEF RequestType, known, name
  <2> QED BY <2>1, <2>6, <2>7, ZenonT(40) DEF RequestType
<1>e. req' = [req EXCEPT ![r] = new]
  BY DEF Send
<1> HIDE DEF new
<1>3. /\ req' \in [Requests -> RequestType]
      /\ \A q \in Requests : q # r => req'[q] = req[q]
      /\ req'[r].pc = "sent" /\ req'[r].op = op /\ req'[r].cookie = jar[b]
      /\ req'[r].self = self[b] /\ (op = "login" => req'[r].user = u)
  BY <1>1, <1>n, <1>e DEF TypeOK
<1>4. TypeOK'
  BY <1>1, <1>2, <1>3 DEF TypeOK
<1>5. Known'
  BY <1>1, <1>2, <1>3 DEF Known
<1>6. Fresh'
  BY <1>1, <1>2, <1>3 DEF Fresh
<1>7. Logins'
  BY <1>1, <1>3 DEF Logins
<1>8. Owners'
  BY <1>1, <1>2, <1>3 DEF Owners, Owned, Stored
<1>9. Timely'
  BY <1>1, <1>2, <1>3 DEF Timely, Stored
<1>10. ActsAsItself'
  BY <1>1, <1>3 DEF ActsAsItself
<1> QED
  BY <1>4, <1>5, <1>6, <1>7, <1>8, <1>9, <1>10 DEF SessionInv

LEMMA SessionInvStep == SessionInv /\ [Next]_vars => SessionInv'
<1> SUFFICES ASSUME SessionInv, [Next]_vars PROVE SessionInv'
  OBVIOUS
<1>1. CASE UNCHANGED vars
  BY <1>1 DEF vars, SessionInv, TypeOK, Known, Fresh, Logins, Owners, Owned, Stored, Timely,
              ActsAsItself
<1>2. CASE Next
  BY <1>2, TickKeeps, RestartKeeps, ServeKeeps, ReceiveKeeps, FailKeeps, SendKeeps, Zenon DEF Next
<1> QED
  BY <1>1, <1>2

LEMMA SessionInvAlways == Spec => []SessionInv
  BY SessionInvInit, SessionInvStep, PTL DEF Spec

(* Type correctness.                                                        *)
THEOREM TypeCorrect == Spec => []TypeOK
<1>1. SessionInv => TypeOK
  BY DEF SessionInv
<1> QED
  BY <1>1, SessionInvAlways, PTL

(* No admitted request acts as somebody else than the user who gave the     *)
(* password for its cookie, however logins, logouts, expiry, restarts and   *)
(* failures of the store overlap.                                           *)
THEOREM NobodyElse == Spec => []ActsAsItself
<1>1. SessionInv => ActsAsItself
  BY DEF SessionInv
<1> QED
  BY <1>1, SessionInvAlways, PTL

-----------------------------------------------------------------------------
(* The refinement.  Pending is what was drawn and not yet saved.            *)

Pending == {req[r].cookie : r \in {q \in Requests : req[q].pc = "save"}}
Issued  == drawn \ Pending
Live    == {s \in Sessions : Valid(s)}

LEMMA LedgerInit == Init => Ledger!Init
<1> SUFFICES ASSUME Init PROVE Ledger!Init
  OBVIOUS
<1>1. \A r \in Requests : Asked(req[r]) = Ledger!Nothing
  BY DEF Init, Idle, Asked, Ledger!Nothing
<1> QED
  BY <1>1 DEF Init, Ledger!Init, Valid, Stored

(* A step that neither stores a session nor draws an id leaves the sessions *)
(* in order.                                                                *)
LEMMA SessionsRest ==
  ASSUME SessionInv, SessionInv', drawn' = drawn, ended \subseteq ended',
         Pending' \subseteq Pending, now \in Nat, now' \in Nat, now <= now',
         \A s \in Sessions : store'[s] # Absent => store'[s] = store[s]
  PROVE  Ledger!SessionsMove
<1>1. Live' \subseteq Live
  <2> SUFFICES ASSUME NEW s \in Sessions, Valid(s)' PROVE Valid(s)
    BY DEF Live
  <2>1. store'[s] # Absent /\ store'[s] = store[s] /\ now' <= store[s].expires
    BY DEF Valid, Stored
  <2>2. store[s].expires \in Nat
    BY <2>1, TimeAssumption DEF SessionInv, TypeOK
  <2> QED BY <2>1, <2>2 DEF Valid, Stored
<1>2. Live' \cap ended' = {}
  BY DEF Live, Valid, Stored, SessionInv, Known
<1>3. Issued \subseteq Issued'
  BY DEF Issued
<1> QED
  BY <1>1, <1>2, <1>3 DEF Ledger!SessionsMove, Live, Issued, Pending

(* A step of one request that draws and saves nothing.                      *)
LEMMA RestRefines ==
  ASSUME SessionInv, SessionInv', NEW r \in Requests, drawn' = drawn, now' = now,
         ended \subseteq ended',
         \A s \in Sessions : store'[s] # Absent => store'[s] = store[s],
         \A q \in Requests : q # r => req'[q] = req[q], req'[r].pc # "save",
         Ledger!RequestMoves(Asked(req[r]), Asked(req'[r]))
  PROVE  Ledger!Next
<1>1. now \in Nat
  BY TimeAssumption DEF SessionInv, TypeOK
<1>2. Pending' \subseteq Pending
  BY DEF Pending
<1>3. Ledger!SessionsMove
  BY <1>1, <1>2, SessionsRest
<1>4. \A q \in Requests : Ledger!RequestMoves(Asked(req[q]), Asked(req'[q]))
  BY DEF Ledger!RequestMoves
<1> QED
  BY <1>3, <1>4 DEF Ledger!Next

(* A login, and a connection that is free, ask nothing of the store.        *)
LEMMA AskNothing ==
  ASSUME NEW q, q.op = "login" \/ q.pc \in {"idle", "ok", "unavailable"}
  PROVE  Asked(q) = Ledger!Nothing
BY DEF Asked, Ledger!Nothing

LEMMA AskSomething ==
  ASSUME NEW q, q.op # "login", q.pc \in Stages \ {"idle", "ok", "unavailable"}
  PROVE  Asked(q) = [session |-> q.cookie, was |-> q.was, verdict |-> Verdict(q.pc)]
BY DEF Asked

LEMMA DrawRefines ==
  ASSUME SessionInv, SessionInv', NEW r \in Requests, Draw(r)
  PROVE  Ledger!Next
<1>1. PICK s \in Sessions \ drawn :
        /\ drawn' = drawn \cup {s}
        /\ req' = [req EXCEPT ![r].pc = "save", ![r].cookie = s]
  BY DEF Draw
<1>2. req \in [Requests -> RequestType] /\ req[r].op = "login" /\ req[r].pc = "sent"
  BY DEF SessionInv, TypeOK, Draw, LoginSent
<1>3. /\ req'[r].pc = "save" /\ req'[r].cookie = s /\ req'[r].op = "login"
      /\ \A q \in Requests : q # r => req'[q] = req[q]
  BY <1>1, <1>2 DEF RequestType
<1>4. Pending' = Pending \cup {s} /\ Pending \subseteq drawn
  BY <1>2, <1>3 DEF Pending, SessionInv, Fresh
<1>5. Issued' = Issued
  BY <1>1, <1>4 DEF Issued
<1>6. Live' = Live /\ ended' = ended
  BY DEF Draw, Live, Valid, Stored
<1>7. Live' \cap ended' = {}
  BY DEF Live, Valid, Stored, SessionInv, Known
<1>8. Ledger!SessionsMove
  BY <1>5, <1>6, <1>7 DEF Ledger!SessionsMove, Live, Issued, Pending
<1>9. \A q \in Requests : Asked(req'[q]) = Asked(req[q])
  BY <1>2, <1>3, AskNothing
<1> QED
  BY <1>8, <1>9 DEF Ledger!Next, Ledger!RequestMoves

LEMMA SavedRefines ==
  ASSUME SessionInv, SessionInv', NEW r \in Requests, req[r].pc = "save", Saved(r),
         NEW p \in {"ok", "unavailable"}, To(r, p), UNCHANGED <<now, drawn, ended>>
  PROVE  Ledger!Next
<1> DEFINE c == req[r].cookie
<1>1. Moved(r, p) /\ req[r].op = "login"
  BY OnlyStage DEF SessionInv, TypeOK, Stages, Answers, Logins
<1>2. c \in drawn /\ \A q \in Requests : q # r => req[q].cookie # c
  BY DEF SessionInv, Fresh
<1>3. c \notin Pending' /\ c \in Pending /\ Pending' \subseteq Pending
  BY <1>1, <1>2 DEF Pending, Moved
<1>4. Issued \subseteq Issued' /\ c \in Issued' \ Issued
  BY <1>2, <1>3 DEF Issued
<1>5. \A s \in Sessions : s # c => store'[s] = store[s]
  BY DEF Saved, SessionInv, TypeOK
<1>6. Live' \subseteq Live \cup {c}
  BY <1>5 DEF Live, Valid, Stored
<1>7. Live' \cap ended' = {}
  BY DEF Live, Valid, Stored, SessionInv, Known
<1> HIDE DEF c
<1>8. Ledger!SessionsMove
  BY <1>4, <1>6, <1>7 DEF Ledger!SessionsMove, Live, Issued, Pending
<1>9. \A q \in Requests : Asked(req'[q]) = Asked(req[q])
  BY <1>1, AskNothing DEF Moved
<1> QED
  BY <1>8, <1>9 DEF Ledger!Next, Ledger!RequestMoves

LEMMA ReadRefines ==
  ASSUME SessionInv, SessionInv', NEW r \in Requests, Read(r)
  PROVE  Ledger!Next
<1> DEFINE s == req[r].cookie
<1>1. /\ req[r].pc = "sent" /\ req[r].op # "login"
      /\ UNCHANGED <<kind, now, store, drawn, jar, self, ended, faults>>
      /\ req \in [Requests -> RequestType]
  BY DEF Read, SessionInv, TypeOK
<1>2. Asked(req[r]) = [session |-> s, was |-> req[r].was, verdict |-> "open"]
  BY <1>1, AskSomething DEF Stages, Verdict
<1>3. CASE ~Stored(s) \/ (kind = "redis" /\ ~Valid(s))
  <2>1. Moved(r, "unauthorized")
    BY <1>1, <1>3, OnlyStage DEF Read, Stages, Answers
  <2>2. Asked(req'[r]) = [session |-> s, was |-> req[r].was, verdict |-> "denied"]
    BY <1>1, <2>1, AskSomething DEF Moved, Stages, Answers, Verdict
  <2>3. s \notin Live
    BY <1>3 DEF Live, Valid, Stored
  <2>4. Ledger!Deny(Asked(req[r]), Asked(req'[r]))
    BY <1>2, <2>2, <2>3 DEF Ledger!Deny, Live
  <2> QED BY <1>1, <2>1, <2>4, RestRefines DEF Moved, Ledger!RequestMoves
<1>4. CASE ~(~Stored(s) \/ (kind = "redis" /\ ~Valid(s)))
  <2> DEFINE new == [req[r] EXCEPT !.pc = IF kind = "redis" THEN "admitted" ELSE "check",
                                   !.user = store[s].user,
                                   !.expires = store[s].expires,
                                   !.was = Valid(s)]
  <2>1. req' = [req EXCEPT ![r] = new]
    BY <1>1, <1>4 DEF Read
  <2>2. /\ new.op = req[r].op /\ new.cookie = s /\ new.was = Valid(s)
        /\ new.pc = IF kind = "redis" THEN "admitted" ELSE "check"
    BY <1>1 DEF RequestType
  <2>3. s \in Live <=> Valid(s)
    BY <1>4 DEF Live, Valid, Stored
  <2> HIDE DEF new
  <2>4. req'[r] = new /\ \A q \in Requests : q # r => req'[q] = req[q]
    BY <1>1, <2>1
  <2>5. CASE kind = "redis"
    <3>1. Asked(new) = [session |-> s, was |-> Valid(s), verdict |-> "granted"]
      BY <1>1, <2>2, <2>5, AskSomething DEF Stages, Verdict
    <3>2. Ledger!Grant(Asked(req[r]), Asked(new))
      BY <1>2, <1>4, <2>3, <2>5, <3>1 DEF Ledger!Grant, Live
    <3> QED BY <1>1, <2>2, <2>4, <2>5, <3>2, RestRefines DEF Ledger!RequestMoves
  <2>6. CASE kind # "redis"
    <3>1. Asked(new) = [session |-> s, was |-> Valid(s), verdict |-> "open"]
      BY <1>1, <2>2, <2>6, AskSomething DEF Stages, Verdict
    <3>2. Valid(s) = (s \in Live)
      BY <2>3 DEF Valid
    <3>3. Ledger!Look(Asked(req[r]), Asked(new))
      BY <1>2, <3>1, <3>2 DEF Ledger!Look, Live
    <3> QED BY <1>1, <2>2, <2>4, <2>6, <3>3, RestRefines DEF Ledger!RequestMoves
  <2> QED BY <2>5, <2>6
<1> QED
  BY <1>3, <1>4

(* What was read is still what is stored, if anything is.                   *)
LEMMA CheckRefines ==
  ASSUME SessionInv, SessionInv', NEW r \in Requests, Check(r)
  PROVE  Ledger!Next
<1> DEFINE s == req[r].cookie
           p == IF now <= req[r].expires THEN "admitted" ELSE "expired"
<1>1. /\ req[r].pc = "check" /\ req[r].op # "login"
      /\ UNCHANGED <<kind, now, store, drawn, jar, self, ended, faults>>
      /\ now <= req[r].expires => req[r].was
  BY DEF Check, SessionInv, Logins, Timely
<1>2. p \in Stages /\ Moved(r, p)
  BY OnlyStage DEF Check, Stages, SessionInv, TypeOK
<1>3. Asked(req[r]) = [session |-> s, was |-> req[r].was, verdict |-> "open"]
  BY <1>1, AskSomething DEF Stages, Verdict
<1>4. Asked(req'[r]) = [session |-> s, was |-> req[r].was,
                        verdict |-> IF now <= req[r].expires THEN "granted" ELSE "open"]
  BY <1>1, <1>2, AskSomething DEF Moved, Stages, Verdict
<1>5. Ledger!RequestMoves(Asked(req[r]), Asked(req'[r]))
  BY <1>1, <1>3, <1>4 DEF Ledger!RequestMoves, Ledger!Grant
<1> QED
  BY <1>1, <1>2, <1>5, RestRefines DEF Moved

LEMMA RemoveRefines ==
  ASSUME SessionInv, SessionInv', NEW r \in Requests, Remove(r)
  PROVE  Ledger!Next
<1> DEFINE s == req[r].cookie
<1>1. /\ req[r].pc = "expired" /\ req[r].op # "login" /\ s \in Sessions
      /\ UNCHANGED <<kind, now, drawn, jar, self, ended, faults>>
      /\ ~(now <= req[r].expires)
      /\ Stored(s) => store[s].expires = req[r].expires
  BY DEF Remove, SessionInv, Logins, Timely
<1>2. Moved(r, "unauthorized")
  BY OnlyStage DEF Remove, Stages, Answers, SessionInv, TypeOK
<1>3. Asked(req[r]) = [session |-> s, was |-> req[r].was, verdict |-> "open"]
  BY <1>1, AskSomething DEF Stages, Verdict
<1>4. Asked(req'[r]) = [session |-> s, was |-> req[r].was, verdict |-> "denied"]
  BY <1>1, <1>2, AskSomething DEF Moved, Stages, Answers, Verdict
<1>5. s \notin Live
  BY <1>1 DEF Live, Valid
<1>6. Ledger!Deny(Asked(req[r]), Asked(req'[r]))
  BY <1>3, <1>4, <1>5 DEF Ledger!Deny, Live
<1>7. \A x \in Sessions : store'[x] # Absent => store'[x] = store[x]
  BY DEF Remove, Deleted
<1> QED
  BY <1>1, <1>2, <1>6, <1>7, RestRefines DEF Moved, Ledger!RequestMoves

(* A request that ends without a verdict.                                   *)
LEMMA EndRefines ==
  ASSUME SessionInv, SessionInv', NEW r \in Requests, drawn' = drawn, now' = now,
         ended \subseteq ended',
         \A s \in Sessions : store'[s] # Absent => store'[s] = store[s],
         \A q \in Requests : q # r => req'[q] = req[q],
         req'[r].pc # "save",
         req'[r].op = "login" \/ req'[r].pc \in {"idle", "ok", "unavailable"}
  PROVE  Ledger!Next
<1>1. Asked(req'[r]) = Ledger!Nothing
  BY AskNothing
<1> QED
  BY <1>1, RestRefines DEF Ledger!RequestMoves

LEMMA ServeRefines ==
  ASSUME SessionInv, SessionInv', NEW r \in Requests, Serve(r)
  PROVE  Ledger!Next
<1>1. {"unauthorized", "ok"} \subseteq Stages /\ req \in [Requests -> RequestType]
  BY DEF Stages, Answers, SessionInv, TypeOK
<1>2. CASE Refuse(r)
  <2>1. Moved(r, "unauthorized") /\ req[r].op = "login"
    BY <1>1, <1>2, OnlyStage DEF Refuse, LoginSent
  <2> QED BY <1>2, <2>1, EndRefines DEF Refuse, Moved
<1>3. CASE Draw(r)
  BY <1>3, DrawRefines
<1>4. CASE Save(r)
  BY <1>4, SavedRefines DEF Save
<1>5. CASE Read(r)
  BY <1>5, ReadRefines
<1>6. CASE Check(r)
  BY <1>6, CheckRefines
<1>7. CASE Remove(r)
  BY <1>7, RemoveRefines
<1>8. CASE Handle(r)
  <2>1. Moved(r, "ok")
    BY <1>1, <1>8, OnlyStage DEF Handle
  <2> QED BY <1>8, <2>1, EndRefines DEF Handle, Moved
<1>9. CASE Logout(r)
  <2>1. Moved(r, "ok")
    BY <1>1, <1>9, OnlyStage DEF Logout
  <2>2. \A x \in Sessions : store'[x] # Absent => store'[x] = store[x]
    BY <1>9 DEF Logout, Deleted
  <2> QED BY <1>9, <2>1, <2>2, EndRefines DEF Logout, Moved
<1> QED
  BY <1>2, <1>3, <1>4, <1>5, <1>6, <1>7, <1>8, <1>9, Zenon DEF Serve

LEMMA FailRefines ==
  ASSUME SessionInv, SessionInv', NEW r \in Requests, Fail(r)
  PROVE  Ledger!Next
<1>1. /\ To(r, "unavailable") /\ UNCHANGED <<kind, now, drawn, jar, self, ended>>
      /\ Moved(r, "unavailable")
  BY OnlyStage DEF Fail, Stages, Answers, SessionInv, TypeOK
<1>2. CASE UNCHANGED store
  BY <1>1, <1>2, EndRefines DEF Moved
<1>3. CASE req[r].pc = "save" /\ Saved(r)
  BY <1>1, <1>3, SavedRefines
<1>4. CASE Deleted(r)
  <2>1. \A x \in Sessions : store'[x] # Absent => store'[x] = store[x]
    BY <1>4 DEF Deleted
  <2> QED BY <1>1, <2>1, EndRefines DEF Moved
<1> QED
  BY <1>2, <1>3, <1>4 DEF Fail

LEMMA BrowserRefines ==
  ASSUME SessionInv, SessionInv', NEW r \in Requests, Receive(r) \/ Lose(r)
  PROVE  Ledger!Next
<1>1. /\ UNCHANGED <<now, store, drawn, ended>> /\ req' = [req EXCEPT ![r] = Idle]
      /\ req \in [Requests -> RequestType]
  BY DEF Receive, Lose, SessionInv, TypeOK
<1>2. req'[r].pc = "idle" /\ \A q \in Requests : q # r => req'[q] = req[q]
  BY <1>1 DEF Idle
<1> QED
  BY <1>1, <1>2, EndRefines

LEMMA SendRefines ==
  ASSUME SessionInv, SessionInv', NEW r \in Requests, NEW b \in Browsers, NEW op \in Operations,
         NEW u \in Users, NEW right \in BOOLEAN, Send(r, b, op, u, right)
  PROVE  Ledger!Next
<1>1. /\ UNCHANGED <<now, store, drawn, ended>> /\ req[r].pc = "idle"
      /\ req \in [Requests -> RequestType]
  BY DEF Send, SessionInv, TypeOK
<1>2. /\ \A q \in Requests : q # r => req'[q] = req[q]
      /\ req'[r].pc = "sent" /\ req'[r].op = op /\ req'[r].was = FALSE
  BY <1>1 DEF Send, Idle
<1>3. CASE op = "login"
  BY <1>1, <1>2, <1>3, EndRefines
<1>4. CASE op # "login"
  <2>1. Asked(req'[r]) = [session |-> req'[r].cookie, was |-> FALSE, verdict |-> "open"]
    BY <1>2, <1>4, AskSomething DEF Stages, Verdict
  <2>2. Asked(req[r]) = Ledger!Nothing
    BY <1>1, AskNothing
  <2>3. Ledger!Ask(Asked(req[r]), Asked(req'[r]))
    BY <2>1, <2>2 DEF Ledger!Ask
  <2> QED BY <1>1, <1>2, <2>3, RestRefines DEF Ledger!RequestMoves
<1> QED
  BY <1>3, <1>4

LEMMA ClockRefines ==
  ASSUME SessionInv, SessionInv', Tick \/ Restart
  PROVE  Ledger!Next
<1>1. /\ drawn' = drawn /\ ended' = ended /\ now \in Nat /\ now' \in Nat /\ now <= now'
      /\ \A s \in Sessions : store'[s] # Absent => store'[s] = store[s]
  BY TimeAssumption DEF Tick, Restart, SessionInv, TypeOK
<1>2. \A r \in Requests : req'[r] = req[r] \/ req'[r] = Idle
  BY DEF Tick, Restart
<1>3. Pending' \subseteq Pending
  BY <1>2 DEF Pending, Idle
<1>4. Ledger!SessionsMove
  BY <1>1, <1>3, SessionsRest
<1>5. Asked(Idle) = Ledger!Nothing
  BY AskNothing DEF Idle
<1>6. \A r \in Requests : Ledger!RequestMoves(Asked(req[r]), Asked(req'[r]))
  BY <1>2, <1>5 DEF Ledger!RequestMoves
<1> QED
  BY <1>4, <1>6 DEF Ledger!Next

(* The store keeps its promise.                                             *)
THEOREM LedgerKept == Spec => KeepsLedger
<1>1. SessionInv /\ SessionInv' /\ [Next]_vars => [Ledger!Next]_(Ledger!vars)
  <2> SUFFICES ASSUME SessionInv, SessionInv', [Next]_vars
               PROVE  Ledger!Next \/ UNCHANGED Ledger!vars
    OBVIOUS
  <2>1. CASE UNCHANGED vars
    BY <2>1 DEF vars, Ledger!vars, Valid, Stored
  <2>2. CASE Next
    BY <2>2, ClockRefines, ServeRefines, BrowserRefines, FailRefines, SendRefines, Zenon DEF Next
  <2> QED BY <2>1, <2>2
<1> QED
  BY <1>1, LedgerInit, SessionInvAlways, PTL DEF Spec, KeepsLedger, Ledger!Spec
=============================================================================
