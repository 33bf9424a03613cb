------------------------------ MODULE QRLogin ------------------------------
(***************************************************************************)
(* neteaseQR and neteaseQRPoll: a key for the phone to scan, of type 1 or, *)
(* if Netease gives none, of type 3, and polls that ask about a key as one *)
(* type and then as the other, since the server does not remember which.   *)
(***************************************************************************)
EXTENDS NeteaseRequests

VARIABLES
  keys,      \* key -> [type, state], kept by Netease
  lastKey,
  told       \* history: the answer this step gave to a poll; due: the key was
             \* confirmed when the poll came, no call of it failed and the
             \* answer of Netease had the cookie of the login

keyVars == <<keys, lastKey, told>>
netKeys == <<keys, lastKey>>

KeysStay == UNCHANGED netKeys /\ told' = None

KeyTypes == {"type1", "type3", "any"}   \* "any": the compatible upstream knows its own
KeyStates == {"waiting", "confirmed", "expired"}

(* Types of the keys and of the last answer. *)
KeysTypeOK ==
  /\ lastKey \in 0..MaxKeys
  /\ DOMAIN keys = 1..lastKey
  /\ \A k \in DOMAIN keys : keys[k] \in [type : KeyTypes, state : KeyStates]
  /\ \/ told = None
     \/ told \in [key : DOMAIN keys, due : BOOLEAN,
                  answer : {"confirmed", "expired", "pending", "error"}]

KeysInit == keys = << >> /\ lastKey = 0 /\ told = None

-----------------------------------------------------------------------------
(* Netease and the phone (external) *)

IssueKey(type) ==
  /\ lastKey < MaxKeys
  /\ lastKey' = lastKey + 1
  /\ keys' = [k \in 1..lastKey + 1 |->
       IF k <= lastKey THEN keys[k] ELSE [type |-> type, state |-> "waiting"]]

\* The user confirms, and Netease lets keys expire, confirmed ones included.
Phone ==
  /\ \E k \in DOMAIN keys :
       \/ keys[k].state = "waiting" /\ keys' = [keys EXCEPT ![k].state = "confirmed"]
       \/ keys[k].state # "expired" /\ keys' = [keys EXCEPT ![k].state = "expired"]
  /\ told' = None /\ UNCHANGED <<lastKey, requestVars>>

\* The code for a key asked about as one of a type, another one (0) if the
\* key is not of that type.  A key that waits may have been scanned, 802.
Code(k, type) ==
  IF type \notin {keys[k].type, "any"} THEN 0
  ELSE [waiting |-> 801, confirmed |-> 803, expired |-> 800][keys[k].state]

-----------------------------------------------------------------------------
(* CreateQR *)

NewQR(h) ==
  /\ Arrives(h)
  /\ pc' = [pc EXCEPT ![h] = IF direct THEN "key1" ELSE "key"]
  /\ req' = [req EXCEPT ![h] = [NoReq EXCEPT !.op = "qr"]]
  /\ KeysStay

\* An error and an answer without a key lead to the next type.  The second
\* try of a call is part of it: a key whose answer is lost is nobody's.
DirectKey(h, type) ==
  \/ IssueKey(type) /\ Reply(h)
  \/ /\ Flaky
     /\ IF type = "type1" THEN Goto(h, "key3", req[h]) ELSE Reply(h)
     /\ UNCHANGED netKeys

CreateQR(h) ==
  /\ \/ pc[h] = "key1" /\ DirectKey(h, "type1")
     \/ pc[h] = "key3" /\ DirectKey(h, "type3")
  /\ told' = None

\* /login/qr/key of the upstream.
UpstreamKey(h) ==
  /\ pc[h] = "key"
  /\ \/ IssueKey("any") /\ Goto(h, "image", [req[h] EXCEPT !.key = lastKey + 1])
     \/ Flaky /\ Reply(h) /\ UNCHANGED netKeys
  /\ told' = None

\* /login/qr/create: the answer is the key, or an error.
UpstreamImage(h) == pc[h] = "image" /\ Reply(h) /\ KeysStay

-----------------------------------------------------------------------------
(* CheckQR *)

Poll(h) ==
  /\ Arrives(h)
  /\ \E k \in DOMAIN keys :
       req' = [req EXCEPT ![h] = [NoReq EXCEPT !.op = "poll", !.key = k,
                                               !.confirmed = keys[k].state = "confirmed"]]
  /\ pc' = [pc EXCEPT ![h] = IF direct THEN "check1" ELSE "check"]
  /\ KeysStay

\* An 803 of the compatible upstream counts only with the cookie of the login; the
\* direct client passes on what cookies it got, if any.
AnswerFor(code, cookie) ==
  IF code = 803 /\ (direct \/ cookie) THEN "confirmed"
  ELSE IF code = 800 THEN "expired" ELSE "pending"

Tell(h, answer, cookie) ==
  /\ Reply(h)
  /\ told' = [key |-> req[h].key, answer |-> answer,
              due |-> req[h].confirmed /\ ~req[h].failed /\ cookie]

\* Whether an answer has a cookie is up to Netease.
TellCode(h, type) ==
  \E cookie \in BOOLEAN : Tell(h, AnswerFor(Code(req[h].key, type), cookie), cookie)

\* Mutant: only the web flow is asked about.
CheckQRWebOnly(h) ==
  /\ pc[h] = "check1"
  /\ TellCode(h, "type1") \/ (Flaky /\ Tell(h, "pending", FALSE))
  /\ UNCHANGED netKeys

\* A failed call and an unknown code lead to type 3, and after that to
\* "pending"; errors are never reported.
CheckQR(h) ==
  /\ \/ /\ pc[h] = "check1" /\ Code(req[h].key, "type1") # 0
        /\ TellCode(h, "type1")
     \/ /\ pc[h] = "check1" /\ Code(req[h].key, "type1") = 0
        /\ Goto(h, "check3", req[h])
        /\ told' = None
     \/ /\ pc[h] = "check1" /\ Flaky
        /\ Goto(h, "check3", [req[h] EXCEPT !.failed = TRUE])
        /\ told' = None
     \/ pc[h] = "check3" /\ TellCode(h, "type3")
     \/ pc[h] = "check3" /\ Flaky /\ Tell(h, "pending", FALSE)
  /\ UNCHANGED netKeys

UpstreamCheck(h) ==
  /\ pc[h] = "check"
  /\ TellCode(h, "any") \/ (Flaky /\ Tell(h, "error", FALSE))
  /\ UNCHANGED netKeys

QRRequest(h) == NewQR(h) \/ Poll(h)

QRStep(h) ==
  CreateQR(h) \/ UpstreamKey(h) \/ UpstreamImage(h) \/ CheckQR(h) \/ UpstreamCheck(h)

-----------------------------------------------------------------------------
(* Properties *)

(* CheckQR, direct_chaunsin.go:364-388, and neteaseQRPoll.  A login the     *)
(* user confirmed on the phone before a poll came, and whose cookie        *)
(* Netease sends, is what the poll reports, whichever type the key has,    *)
(* unless a call failed or the key expired meanwhile.                      *)
ConfirmationIsReported ==
  told # None /\ told.due =>
    told.answer = "confirmed" \/ keys[told.key].state = "expired"
=============================================================================
