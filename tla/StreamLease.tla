---------------------------- MODULE StreamLease ----------------------------
(***************************************************************************)
(* What the short-lived media tokens of internal/stream promise: from the  *)
(* moment it is handed out until TTL later a token yields what was stored  *)
(* under it, and from then on nothing, ever.  There is no map, no cleaning *)
(* up and no lock here: a lease ends by itself.                            *)
(***************************************************************************)
EXTENDS Integers

CONSTANTS Tokens, Media, Cookies, TTL, None

VARIABLES
  lease,   \* token -> what it yields now, or None
  spent,   \* tokens handed out so far
  answer,  \* what the last redemption yielded
  now

vars == <<lease, spent, answer, now>>

Init ==
  /\ lease = [t \in Tokens |-> None]
  /\ spent = {}
  /\ answer = None
  /\ now = 0

Grant(t, url, cookie) ==
  /\ t \notin spent
  /\ lease' = [lease EXCEPT ![t] = [url |-> url, cookie |-> cookie, expires |-> now + TTL]]
  /\ spent' = spent \cup {t}
  /\ UNCHANGED <<answer, now>>

Redeem(t) ==
  /\ answer' = [token |-> t, entry |-> lease[t]]
  /\ UNCHANGED <<lease, spent, now>>

Tick ==
  /\ now' = now + 1
  /\ lease' = [t \in Tokens |->
                 IF lease[t] # None /\ lease[t].expires < now + 1 THEN None ELSE lease[t]]
  /\ UNCHANGED <<spent, answer>>

Next ==
  \/ \E t \in Tokens, url \in Media, cookie \in Cookies : Grant(t, url, cookie)
  \/ \E t \in Tokens : Redeem(t)
  \/ Tick

Spec == Init /\ [][Next]_vars
=============================================================================
