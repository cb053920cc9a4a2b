--------------------------- MODULE SessionLedger ----------------------------
(***************************************************************************)
(* What a store of sessions promises to those who ask it: a session is     *)
(* opened once and, once it has expired or was closed, never grants access *)
(* again; a request is granted only under a session that was live at some  *)
(* moment of the request, and denied only under one that is not any more   *)
(* or never was.                                                           *)
(***************************************************************************)
CONSTANTS Sessions, Requests, NoCookie

VARIABLES issued, (* sessions that were opened, or failed to be            *)
          live,   (* those that grant access                               *)
          over,   (* those that were closed: a logout succeeded            *)
          asked   (* what each request asks and was told                   *)

vars == <<issued, live, over, asked>>

Nothing == [session |-> NoCookie, was |-> FALSE, verdict |-> "none"]

Init ==
  /\ issued = {} /\ live = {} /\ over = {}
  /\ asked = [r \in Requests |-> Nothing]

SessionsMove ==
  /\ issued \subseteq issued'
  /\ over \subseteq over'
  /\ live' \subseteq (live \cup (issued' \ issued)) \ over'

Ask(a, b)   == a = Nothing /\ b.verdict = "open" /\ ~b.was
Look(a, b)  == a.verdict = "open" /\ b = [a EXCEPT !.was = a.session \in live]
Grant(a, b) == /\ a.verdict = "open" /\ (a.was \/ a.session \in live)
               /\ b.verdict = "granted" /\ b.session = a.session
Deny(a, b)  == /\ a.verdict = "open" /\ a.session \notin live
               /\ b.verdict = "denied" /\ b.session = a.session

RequestMoves(a, b) ==
  \/ b = a \/ b = Nothing
  \/ Ask(a, b) \/ Look(a, b) \/ Grant(a, b) \/ Deny(a, b)

Next == SessionsMove /\ \A r \in Requests : RequestMoves(asked[r], asked'[r])

Spec == Init /\ [][Next]_vars
=============================================================================
