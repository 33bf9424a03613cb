---------------------------- MODULE AuthHandlers ----------------------------
(***************************************************************************)
(* The AuthHandler of internal/httpapi/auth.go: SendCode, Register and     *)
(* Login, statement by statement.  Me and LoginHistory only read.  Where a *)
(* statement may fail (StoreFails) the handler answers 500 or, where the   *)
(* code drops the error, goes on.                                          *)
(***************************************************************************)
EXTENDS Requests

CONSTANTS
  DayLimit,      \* codes per address in DayWindow; 10 in the code
  DayWindow,     \* 24 hours in the code
  ShortWindow,   \* 60 seconds in the code: one code per address
  MailOutcomes,  \* what may come of a mail: "delivered", "refused", or
                 \* "lost_ack", accepted by the server but reported as failed
  CodesCollide   \* whether GenerateCode may return a code still in the table

ASSUME AuthAssumption ==
  /\ DayLimit \in Nat /\ DayWindow \in Nat /\ ShortWindow \in Nat
  /\ MailOutcomes \subseteq {"delivered", "refused", "lost_ack"}
  /\ CodesCollide \in BOOLEAN

-----------------------------------------------------------------------------
(* SendCode *)

SendCode(h) ==
  /\ "send_code" \in Ops
  /\ \E email \in Emails :
       Begin(h, "count_day", [NoReq EXCEPT !.op = "send_code", !.email = email])
  /\ UNCHANGED <<storeVars, now, tokens, history>>

\* Mutant: the limit is off by one.
CountDayOneMore(h) ==
  /\ pc[h] = "count_day"
  /\ \/ /\ CountRecentEmailCodes(req[h].email, DayWindow) <= DayLimit
        /\ Goto(h, "count_minute")
        /\ UNCHANGED req
     \/ /\ CountRecentEmailCodes(req[h].email, DayWindow) > DayLimit
        /\ Reply(h)
  /\ UNCHANGED <<storeVars, now, tokens, history>>

\* 429 "please try again tomorrow", or 500 when the count fails.
CountDay(h) ==
  /\ pc[h] = "count_day"
  /\ \/ /\ CountRecentEmailCodes(req[h].email, DayWindow) < DayLimit
        /\ Goto(h, "count_minute")
        /\ UNCHANGED req
     \/ /\ StoreFails \/ CountRecentEmailCodes(req[h].email, DayWindow) >= DayLimit
        /\ Reply(h)
  /\ UNCHANGED <<storeVars, now, tokens, history>>

\* Mutant: the count is read and not looked at unless there are two.
CountMinuteTwo(h) ==
  /\ pc[h] = "count_minute"
  /\ \/ /\ CountRecentEmailCodes(req[h].email, ShortWindow) <= 1
        /\ Goto(h, "store_code")
        /\ req' = [req EXCEPT ![h].seen = lastCodeId]
     \/ /\ CountRecentEmailCodes(req[h].email, ShortWindow) > 1
        /\ Reply(h)
  /\ UNCHANGED <<storeVars, now, tokens, history>>

\* 429 "please wait 60 seconds", or 500 when the count fails.
CountMinute(h) ==
  /\ pc[h] = "count_minute"
  /\ \/ /\ CountRecentEmailCodes(req[h].email, ShortWindow) < 1
        /\ Goto(h, "store_code")
        /\ req' = [req EXCEPT ![h].seen = lastCodeId]
     \/ /\ StoreFails \/ CountRecentEmailCodes(req[h].email, ShortWindow) >= 1
        /\ Reply(h)
  /\ UNCHANGED <<storeVars, now, tokens, history>>

\* Six random digits.
GenerateCode ==
  IF CodesCollide THEN Codes
  ELSE {code \in Codes : \A c \in LiveCodes : emailCodes[c].code # code}

StoreCode(h) ==
  /\ pc[h] = "store_code"
  /\ \/ \E code \in GenerateCode :
          /\ Goto(h, "send_mail")
          /\ CreateEmailCode(req[h].email, code)
          /\ req' = [req EXCEPT ![h].code = code, ![h].codeId = lastCodeId + 1,
                                ![h].expires = now + CodeTTL]
          /\ seen' = [seen EXCEPT ![lastCodeId + 1] = req[h].seen]
     \/ /\ StoreFails \/ lastCodeId = MaxCodes \/ GenerateCode = {}
        /\ Reply(h)
        /\ UNCHANGED <<emailCodes, lastCodeId, seen>>
  /\ UNCHANGED <<users, lastUserId, loginLogs, now, tokens, founders, mailed, origin>>

Deliver(h) == mailed' = mailed \cup {[id |-> req[h].codeId, expires |-> req[h].expires]}

\* 200 when the mail server confirms; any error leads to the rollback.
SendMail(h) ==
  /\ pc[h] = "send_mail"
  /\ \/ /\ "delivered" \in MailOutcomes
        /\ Reply(h)
        /\ Deliver(h)
     \/ /\ "refused" \in MailOutcomes
        /\ Goto(h, "rollback_code")
        /\ UNCHANGED <<req, mailed>>
     \/ /\ "lost_ack" \in MailOutcomes
        /\ Goto(h, "rollback_code")
        /\ Deliver(h)
        /\ UNCHANGED req
  /\ UNCHANGED <<storeVars, now, tokens, founders, seen, origin>>

\* 500 "failed to send email"; an error of the DELETE is only logged.
RollbackCode(h) ==
  /\ pc[h] = "rollback_code"
  /\ Reply(h)
  /\ \/ DeleteEmailCode(req[h].email, req[h].code)
     \/ StoreFails /\ UNCHANGED emailCodes
  /\ UNCHANGED <<users, lastUserId, lastCodeId, loginLogs, now, tokens, history>>

SendCodeStep(h) ==
  CountDay(h) \/ CountMinute(h) \/ StoreCode(h) \/ SendMail(h) \/ RollbackCode(h)

-----------------------------------------------------------------------------
(* Register *)

Register(h) ==
  /\ "register" \in Ops
  /\ \E name \in Names, email \in Emails, password \in Passwords, code \in Codes :
       Begin(h, "check_code",
             [NoReq EXCEPT !.op = "register", !.name = name, !.email = email,
                           !.password = password, !.code = code])
  /\ UNCHANGED <<storeVars, now, tokens, history>>

\* 400 "invalid or expired verification code".
CheckCode(h) ==
  /\ pc[h] = "check_code"
  /\ \/ \E c \in ValidEmailCodes(req[h].email, req[h].code) :
          /\ Goto(h, "check_email")
          /\ req' = [req EXCEPT ![h].codeId = c]
     \/ /\ StoreFails \/ ValidEmailCodes(req[h].email, req[h].code) = {}
        /\ Reply(h)
  /\ UNCHANGED <<storeVars, now, tokens, history>>

\* 409 "email already registered"; a failed query counts as not registered.
CheckEmail(h) ==
  /\ pc[h] = "check_email"
  /\ \/ /\ StoreFails \/ UsersByEmail(req[h].email) = {}
        /\ Goto(h, "check_name")
        /\ UNCHANGED req
     \/ /\ UsersByEmail(req[h].email) # {}
        /\ Reply(h)
  /\ UNCHANGED <<storeVars, now, tokens, history>>

\* 409 "username already taken".
CheckName(h) ==
  /\ pc[h] = "check_name"
  /\ \/ /\ StoreFails \/ UsersByUsername(req[h].name) = {}
        /\ Goto(h, "insert_user")
        /\ UNCHANGED req
     \/ /\ UsersByUsername(req[h].name) # {}
        /\ Reply(h)
  /\ UNCHANGED <<storeVars, now, tokens, history>>

\* The INSERT of CreateUser; HashPassword before it changes nothing.
InsertNewUser(h) ==
  /\ pc[h] = "insert_user"
  /\ \/ /\ Goto(h, "reread_user")
        /\ InsertUser(req[h].name, req[h].email, req[h].password)
        /\ req' = [req EXCEPT ![h].uid = NewUserId]
        /\ origin' = [origin EXCEPT ![NewUserId] = req[h].codeId]
     \/ /\ StoreFails \/ ~Insertable(req[h].name, req[h].email)
        /\ Goto(h, "create_failed")
        /\ UNCHANGED <<users, lastUserId, req, origin>>
  /\ UNCHANGED <<emailCodes, lastCodeId, loginLogs, now, tokens, founders, seen, mailed>>

\* The GetUserByID that ends CreateUser.
RereadUser(h) ==
  /\ pc[h] = "reread_user"
  /\ \/ /\ users[req[h].uid] # Nil
        /\ Goto(h, "count_users")
        /\ req' = [req EXCEPT ![h].role = users[req[h].uid].role]
     \/ /\ StoreFails \/ users[req[h].uid] = Nil
        /\ Goto(h, "create_failed")
        /\ UNCHANGED req
  /\ UNCHANGED <<storeVars, now, tokens, history>>

\* Mutant: a registration that failed is tried again.
CreateFailedTryAgain(h) ==
  /\ pc[h] = "create_failed"
  /\ Goto(h, "check_email")
  /\ UNCHANGED <<storeVars, now, req, tokens, history>>

\* 500 "failed to create user".
CreateFailed(h) ==
  /\ pc[h] = "create_failed"
  /\ Reply(h)
  /\ UNCHANGED <<storeVars, now, tokens, history>>

\* Mutants: any account will do; the new account does not count.
CountUsersWhen(h, first) ==
  /\ pc[h] = "count_users"
  /\ Goto(h, IF first THEN "promote_first" ELSE "mark_used")
  /\ UNCHANGED <<storeVars, now, req, tokens, history>>

CountUsersAny(h) == CountUsersWhen(h, Cardinality(LiveUsers) >= 1)
CountUsersBefore(h) == CountUsersWhen(h, LiveUsers = {})

\* ListUsers(0, 1), for its COUNT; on an error the count is 0.
CountUsers(h) ==
  /\ pc[h] = "count_users"
  /\ \/ /\ Cardinality(LiveUsers) = 1
        /\ Goto(h, "promote_first")
     \/ /\ StoreFails \/ Cardinality(LiveUsers) # 1
        /\ Goto(h, "mark_used")
  /\ UNCHANGED <<storeVars, now, req, tokens, history>>

\* The copy in hand becomes an admin whether or not the UPDATE fails.
PromoteFirst(h) ==
  /\ pc[h] = "promote_first"
  /\ Goto(h, "mark_used")
  /\ \/ /\ UpdateUserRole(req[h].uid, "admin")
        /\ founders' = founders \cup {req[h].uid}
     \/ StoreFails /\ UNCHANGED <<users, founders>>
  /\ req' = [req EXCEPT ![h].role = "admin"]
  /\ UNCHANGED <<lastUserId, emailCodes, lastCodeId, loginLogs, now, tokens, seen, mailed,
                 origin>>

MarkUsed(h) ==
  /\ pc[h] = "mark_used"
  /\ Goto(h, "issue_token")
  /\ \/ MarkEmailCodeUsed(req[h].codeId)
     \/ StoreFails /\ UNCHANGED emailCodes
  /\ UNCHANGED <<users, lastUserId, lastCodeId, loginLogs, now, req, tokens, history>>

\* GenerateAccessToken and the answer, 201 of Register and 200 of Login.
IssueToken(h) ==
  /\ pc[h] = "issue_token"
  /\ Reply(h)
  /\ tokens' = tokens \cup
       {[uid |-> req[h].uid, name |-> req[h].name, role |-> req[h].role]}
  /\ UNCHANGED <<storeVars, now, history>>

RegisterStep(h) ==
  \/ CheckCode(h) \/ CheckEmail(h) \/ CheckName(h) \/ InsertNewUser(h)
  \/ RereadUser(h) \/ CreateFailed(h) \/ CountUsers(h) \/ PromoteFirst(h)
  \/ MarkUsed(h) \/ IssueToken(h)

-----------------------------------------------------------------------------
(* Login *)

Login(h) ==
  /\ "login" \in Ops
  /\ \E email \in Emails, password \in Passwords :
       Begin(h, "login_read",
             [NoReq EXCEPT !.op = "login", !.email = email, !.password = password])
  /\ UNCHANGED <<storeVars, now, tokens, history>>

MayLogIn(u, password) == ~users[u].banned /\ users[u].password = password

\* 401 for an unknown address or a wrong password, 403 for a banned account.
LoginRead(h) ==
  /\ pc[h] = "login_read"
  /\ \/ \E u \in UsersByEmail(req[h].email) :
          /\ MayLogIn(u, req[h].password)
          /\ Goto(h, "login_log")
          /\ req' = [req EXCEPT ![h].uid = u, ![h].name = users[u].username,
                                ![h].role = users[u].role]
     \/ /\ StoreFails \/ \A u \in UsersByEmail(req[h].email) : ~MayLogIn(u, req[h].password)
        /\ Reply(h)
  /\ UNCHANGED <<storeVars, now, tokens, history>>

\* CreateLoginLog, its error dropped; UpdateUserLastLogin writes no column kept here.
LoginLog(h) ==
  /\ pc[h] = "login_log"
  /\ Goto(h, "issue_token")
  /\ CreateLoginLog(req[h].uid, req[h].name) \/ (StoreFails /\ UNCHANGED loginLogs)
  /\ UNCHANGED <<users, lastUserId, emailCodes, lastCodeId, now, req, tokens, history>>

LoginStep(h) == LoginRead(h) \/ LoginLog(h)
=============================================================================
