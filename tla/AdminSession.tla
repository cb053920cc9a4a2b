---------------------------- MODULE AdminSession ----------------------------
(***************************************************************************)
(* Sessions of the admin console: login draws an id, stores a session under*)
(* it for some time and gives the browser a cookie; a request is admitted  *)
(* when the store knows its cookie; logout deletes the session.            *)
(*                                                                         *)
(* The store is Redis, whose keys expire by themselves, or, without an     *)
(* address, a map in memory behind a lock that is released between reading *)
(* an entry and deleting one that has expired.                             *)
(***************************************************************************)
EXTENDS Naturals

CONSTANTS
  Browsers,   (* each with one cookie jar                                  *)
  Users,      (* accounts in admin_users                                   *)
  Sessions,   (* ids that newSessionID may draw                            *)
  Requests,   (* requests under way at once                                *)
  NoCookie,   (* the jar is empty                                          *)
  Nobody,     (* no user                                                   *)
  Absent,     (* no session under this id                                  *)
  TTL,        (* how long a session is valid                               *)
  MaxTime,    (* bound on the clock                                        *)
  MaxFaults   (* bound on faults                                           *)

ASSUME NoCookieAssumption == NoCookie \notin Sessions
ASSUME NobodyAssumption == Nobody \notin Users
ASSUME TimeAssumption == TTL \in Nat /\ MaxTime \in Nat /\ MaxFaults \in Nat
ASSUME AbsentAssumption == Absent \notin [user : Users, expires : Nat]

VARIABLES
  kind,    (* redis or memory                                              *)
  now,
  store,   (* the session under each id                                    *)
  drawn,   (* ids drawn so far                                             *)
  jar,     (* the cookie of each browser                                   *)
  self,    (* who gave the password for that cookie                        *)
  req,     (* where each request is, and what it has read                  *)
  ended,   (* sessions whose logout succeeded                              *)
  faults

vars == <<kind, now, store, drawn, jar, self, req, ended, faults>>

Operations == {"login", "admin", "logout"}
Answers    == {"ok", "unauthorized", "unavailable"}
Stages     == {"idle", "sent", "save", "check", "expired", "admitted"} \cup Answers

Entry(u)     == [user |-> u, expires |-> now + TTL]

Stored(s) == s \in Sessions /\ store[s] # Absent
Valid(s)  == Stored(s) /\ now <= store[s].expires

Idle == [pc |-> "idle", op |-> "admin", browser |-> Nobody,
         cookie |-> NoCookie, user |-> Nobody, self |-> Nobody,
         right |-> FALSE, expires |-> 0, was |-> FALSE]

To(r, pc) == req' = [req EXCEPT ![r].pc = pc]

Init ==
  /\ kind \in {"redis", "memory"}
  /\ now = 0
  /\ store = [s \in Sessions |-> Absent]
  /\ drawn = {} /\ ended = {} /\ faults = 0
  /\ jar  = [b \in Browsers |-> NoCookie]
  /\ self = [b \in Browsers |-> Nobody]
  /\ req  = [r \in Requests |-> Idle]

(* A browser sends a request with its cookie; one that logs in names a user *)
(* and knows the password or does not.                                      *)
Send(r, b, op, u, right) ==
  /\ req[r].pc = "idle"
  /\ req' = [req EXCEPT ![r] =
       [Idle EXCEPT !.pc = "sent", !.op = op, !.browser = b, !.cookie = jar[b],
                    !.self = self[b],
                    !.user = IF op = "login" THEN u ELSE Nobody,
                    !.right = op = "login" /\ right]]
  /\ UNCHANGED <<kind, now, store, drawn, jar, self, ended, faults>>

-----------------------------------------------------------------------------
(* POST /admin/auth/login.                                                  *)

LoginSent(r) == req[r].pc = "sent" /\ req[r].op = "login"

(* No such user, or another password.                                       *)
Refuse(r) ==
  /\ LoginSent(r) /\ ~req[r].right
  /\ To(r, "unauthorized")
  /\ UNCHANGED <<kind, now, store, drawn, jar, self, ended, faults>>

(* Mutant: ids repeat.                                                      *)
DrawAny(r) ==
  /\ LoginSent(r) /\ req[r].right
  /\ \E s \in Sessions :
       /\ drawn' = drawn \cup {s}
       /\ req' = [req EXCEPT ![r].pc = "save", ![r].cookie = s]
  /\ UNCHANGED <<kind, now, store, jar, self, ended, faults>>

(* 32 random bytes: an id that was never drawn.                             *)
Draw(r) ==
  /\ LoginSent(r) /\ req[r].right
  /\ \E s \in Sessions \ drawn :
       /\ drawn' = drawn \cup {s}
       /\ req' = [req EXCEPT ![r].pc = "save", ![r].cookie = s]
  /\ UNCHANGED <<kind, now, store, jar, self, ended, faults>>

Saved(r)   == store' = [store EXCEPT ![req[r].cookie] = Entry(req[r].user)]
Deleted(r) == store' = [s \in Sessions |-> IF s = req[r].cookie THEN Absent ELSE store[s]]

Save(r) ==
  /\ req[r].pc = "save"
  /\ Saved(r) /\ To(r, "ok")
  /\ UNCHANGED <<kind, now, drawn, jar, self, ended, faults>>

-----------------------------------------------------------------------------
(* Every other route of the console.                                        *)

(* CurrentUser asks the store.  Redis does not return what has expired; an  *)
(* entry of the map is looked at after its lock was released.               *)
Read(r) ==
  /\ req[r].pc = "sent" /\ req[r].op # "login"
  /\ LET s == req[r].cookie
     IN  IF ~Stored(s) \/ (kind = "redis" /\ ~Valid(s))
         THEN To(r, "unauthorized")
         ELSE req' = [req EXCEPT ![r].pc = IF kind = "redis" THEN "admitted" ELSE "check",
                                 ![r].user = store[s].user,
                                 ![r].expires = store[s].expires,
                                 ![r].was = Valid(s)]
  /\ UNCHANGED <<kind, now, store, drawn, jar, self, ended, faults>>

(* Mutant: a session in use is renewed.                                     *)
CheckRenews(r) ==
  /\ req[r].pc = "check"
  /\ IF now <= req[r].expires
     THEN To(r, "admitted") /\ Saved(r)
     ELSE To(r, "expired") /\ UNCHANGED store
  /\ UNCHANGED <<kind, now, drawn, jar, self, ended, faults>>

Check(r) ==
  /\ req[r].pc = "check"
  /\ To(r, IF now <= req[r].expires THEN "admitted" ELSE "expired")
  /\ UNCHANGED <<kind, now, store, drawn, jar, self, ended, faults>>

Remove(r) ==
  /\ req[r].pc = "expired"
  /\ Deleted(r) /\ To(r, "unauthorized")
  /\ UNCHANGED <<kind, now, drawn, jar, self, ended, faults>>

(* The handler of an admin route.                                           *)
Handle(r) ==
  /\ req[r].pc = "admitted" /\ req[r].op = "admin"
  /\ To(r, "ok")
  /\ UNCHANGED <<kind, now, store, drawn, jar, self, ended, faults>>

Logout(r) ==
  /\ req[r].pc = "admitted" /\ req[r].op = "logout"
  /\ Deleted(r) /\ To(r, "ok")
  /\ ended' = ended \cup {req[r].cookie}
  /\ UNCHANGED <<kind, now, drawn, jar, self, faults>>

-----------------------------------------------------------------------------
(* The answer: a login sets the cookie, a logout clears whichever it is.    *)
Receive(r) ==
  /\ req[r].pc \in Answers
  /\ LET b == req[r].browser  done == req[r].pc = "ok"
     IN  CASE done /\ req[r].op = "login" ->
                /\ jar'  = [jar EXCEPT ![b] = req[r].cookie]
                /\ self' = [self EXCEPT ![b] = IF req[r].right THEN req[r].user ELSE Nobody]
           [] done /\ req[r].op = "logout" ->
                /\ jar'  = [jar EXCEPT ![b] = NoCookie]
                /\ self' = [self EXCEPT ![b] = Nobody]
           [] OTHER -> UNCHANGED <<jar, self>>
  /\ req' = [req EXCEPT ![r] = Idle]
  /\ UNCHANGED <<kind, now, store, drawn, ended, faults>>

Fault == faults < MaxFaults /\ faults' = faults + 1

(* The answer does not reach the browser.                                   *)
Lose(r) ==
  /\ Fault /\ req[r].pc \in Answers
  /\ req' = [req EXCEPT ![r] = Idle]
  /\ UNCHANGED <<kind, now, store, drawn, jar, self, ended>>

(* The database or Redis fails; what Redis was told is done or not.         *)
Fail(r) ==
  /\ Fault
  /\ To(r, "unavailable")
  /\ \/ LoginSent(r) /\ UNCHANGED store
     \/ /\ kind = "redis"
        /\ \/ req[r].pc = "sent" /\ UNCHANGED store
           \/ req[r].pc = "save" /\ (UNCHANGED store \/ Saved(r))
           \/ req[r].pc = "admitted" /\ req[r].op = "logout" /\ (UNCHANGED store \/ Deleted(r))
  /\ UNCHANGED <<kind, now, drawn, jar, self, ended>>

(* The API dies and starts again: a map in memory starts empty.             *)
Restart ==
  /\ Fault
  /\ req' = [r \in Requests |-> Idle]
  /\ store' = IF kind = "memory" THEN [s \in Sessions |-> Absent] ELSE store
  /\ UNCHANGED <<kind, now, drawn, jar, self, ended>>

Tick ==
  /\ now < MaxTime /\ now' = now + 1
  /\ UNCHANGED <<kind, store, drawn, jar, self, req, ended, faults>>

-----------------------------------------------------------------------------
Serve(r) ==
  \/ Refuse(r) \/ Draw(r) \/ Save(r) \/ Read(r) \/ Check(r) \/ Remove(r)
  \/ Handle(r) \/ Logout(r)

Next ==
  \/ Tick \/ Restart
  \/ \E r \in Requests :
       \/ Serve(r) \/ Receive(r) \/ Lose(r) \/ Fail(r)
       \/ \E b \in Browsers, op \in Operations, u \in Users, right \in BOOLEAN :
            Send(r, b, op, u, right)

Spec == Init /\ [][Next]_vars

-----------------------------------------------------------------------------
(* Properties.                                                              *)

RequestType ==
  [pc : Stages, op : Operations, browser : Browsers \cup {Nobody},
   cookie : Sessions \cup {NoCookie}, user : Users \cup {Nobody},
   self : Users \cup {Nobody}, right : BOOLEAN,
   expires : 0 .. MaxTime + TTL, was : BOOLEAN]

TypeOK ==
  /\ kind \in {"redis", "memory"} /\ now \in 0 .. MaxTime
  /\ store \in [Sessions -> [user : Users, expires : 0 .. MaxTime + TTL] \cup {Absent}]
  /\ drawn \subseteq Sessions /\ ended \subseteq Sessions
  /\ jar \in [Browsers -> Sessions \cup {NoCookie}]
  /\ self \in [Browsers -> Users \cup {Nobody}]
  /\ req \in [Requests -> RequestType]
  /\ faults \in 0 .. MaxFaults

(* A request that is admitted acts as the user whose password its browser   *)
(* gave when it got the cookie the request came with, whatever other logins *)
(* and logouts ran in between.                                              *)
ActsAsItself ==
  \A r \in Requests :
    req[r].pc \in {"check", "admitted"} => req[r].user = req[r].self

(* The store implements the promise of SessionLedger, though it reads,      *)
(* compares with the clock and deletes in three steps.                      *)
Verdict(pc) ==
  CASE pc \in {"sent", "check", "expired"} -> "open"
    [] pc = "admitted" -> "granted"
    [] OTHER -> "denied"

Asked(q) ==
  IF q.op = "login" \/ q.pc \in {"idle", "ok", "unavailable"}
  THEN [session |-> NoCookie, was |-> FALSE, verdict |-> "none"]
  ELSE [session |-> q.cookie, was |-> q.was, verdict |-> Verdict(q.pc)]

Ledger == INSTANCE SessionLedger WITH
  issued <- drawn \ {req[r].cookie : r \in {q \in Requests : req[q].pc = "save"}},
  live   <- {s \in Sessions : Valid(s)},
  over   <- ended,
  asked  <- [r \in Requests |-> Asked(req[r])]

KeepsLedger == Ledger!Spec
=============================================================================
