-------------------------- MODULE NeteaseRequests --------------------------
(***************************************************************************)
(* A request in progress that calls Netease: through DirectClient, which   *)
(* gives every call one retry (clientForCookie), or through the compatible *)
(* upstream, which is asked once (providerGet).  A call may take effect    *)
(* and lose its answer; it takes effect before it fails or never.          *)
(***************************************************************************)
EXTENDS Integers, FiniteSets

CONSTANTS
  Handlers, Accounts, Songs,
  MaxPlaylists, MaxKeys,   \* bounds: what Netease issues ids for
  Modes,                   \* the values direct may have
  Flaky,                   \* whether calls may fail
  None

ASSUME NeteaseAssumption ==
  /\ MaxPlaylists \in Nat /\ MaxKeys \in Nat
  /\ Modes \subseteq BOOLEAN /\ Flaky \in BOOLEAN
  /\ None \notin Accounts \cup Songs \cup Nat \cup BOOLEAN

VARIABLES
  direct,    \* directNetease # nil, fixed when the server starts
  pc,        \* the call each request waits for, or "idle"
  req        \* its local variables

requestVars == <<direct, pc, req>>

Ops == {"toggle", "create", "delete", "qr", "poll"}
ToggleCalls == {"playlists", "make", "update"}
QRCalls == {"key1", "key3", "key", "image", "check1", "check3", "check"}

NoReq == [op |-> None, account |-> None, song |-> None, remove |-> FALSE,
          playlist |-> None, name |-> None, key |-> None, tries |-> 0,
          crossed |-> FALSE, failed |-> FALSE, confirmed |-> FALSE]

(* Types of the requests.  crossed, failed and confirmed are history.      *)
RequestTypeOK ==
  /\ direct \in Modes
  /\ pc \in [Handlers -> {"idle", "new", "drop"} \cup ToggleCalls \cup QRCalls]
  /\ \A h \in Handlers :
       /\ req[h].op \in Ops \cup {None}
       /\ req[h].account \in Accounts \cup {None} /\ req[h].song \in Songs \cup {None}
       /\ req[h].playlist \in 1..MaxPlaylists \cup {None} /\ req[h].key \in 1..MaxKeys \cup {None}
       /\ req[h].tries \in {0, 1}
       /\ pc[h] = "idle" => req[h] = NoReq

RequestsInit ==
  /\ direct \in Modes
  /\ pc = [h \in Handlers |-> "idle"]
  /\ req = [h \in Handlers |-> NoReq]

Busy(h) == pc[h] # "idle"

\* Mutant: the retries are counted without the first try.
TriesOneMore == IF direct THEN 3 ELSE 2

\* Retry: 1 of the direct client.
Tries == IF direct THEN 2 ELSE 1

Arrives(h) == ~Busy(h) /\ UNCHANGED direct

\* The call is over, r is the request as the next one finds it.
Goto(h, call, r) ==
  /\ pc' = [pc EXCEPT ![h] = call]
  /\ req' = [req EXCEPT ![h] = [r EXCEPT !.tries = 0]]
  /\ UNCHANGED direct

\* What the app is told is in the history variables.
Reply(h) == Goto(h, "idle", NoReq)

\* Mutant: a call is tried until it is answered, the parity of the tries told.
NoAnswerTryOn(h) ==
  /\ Flaky
  /\ req' = [req EXCEPT ![h].tries = 1 - @]
  /\ UNCHANGED <<direct, pc>>

\* No answer to this try: the call is tried again or the handler gives up,
\* providerError.
NoAnswer(h) ==
  /\ Flaky
  /\ \/ /\ req[h].tries + 1 < Tries
        /\ req' = [req EXCEPT ![h].tries = @ + 1]
        /\ UNCHANGED <<direct, pc>>
     \/ /\ req[h].tries + 1 = Tries
        /\ Reply(h)
=============================================================================
