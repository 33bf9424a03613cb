------------------------ MODULE AccountServerProofs ------------------------
(***************************************************************************)
(* Theorems about AccountServer for every value of its constants.          *)
(*                                                                         *)
(* TypeInv strengthens AccountTypeOK with what a request must know at each *)
(* label, which is what makes it inductive: the row InsertNewUser writes   *)
(* has the type of a row because the request got to insert_user with a     *)
(* name, an address and a password in its local variables.                 *)
(***************************************************************************)
EXTENDS AccountServer, FiniteSetTheorems, TLAPS

Labels == {"idle"} \cup HandlerLabels \cup CliLabels

NewAccountLabels == {"check_code", "check_email", "check_name", "insert_user",
                     "cli_email", "cli_name", "cli_insert"}
AccountLabels == {"reread_user", "count_users", "promote_first", "mark_used",
                  "login_log", "issue_token"}
TargetLabels == {"require_admin", "read_target", "write_target"}

\* What a request holds in its local variables when it is at a label.
KnowsAt(label, r) ==
  /\ label \in SendCodeLabels \cup NewAccountLabels => r.email \in Emails
  /\ label \in NewAccountLabels => r.name \in Names /\ r.password \in Passwords
  /\ label = "send_mail" => r.codeId \in CodeId
  /\ label \in AccountLabels => r.uid \in UserId /\ r.name \in Names
  /\ label \in AccountLabels \ {"reread_user"} => r.role \in Roles
  /\ label \in TargetLabels /\ r.op = "promote" => r.role \in Roles

LocalInv ==
  /\ pc \in [Procs -> Labels]
  /\ req \in [Procs -> ReqType]
  /\ \A p \in Procs : KnowsAt(pc[p], req[p])

LogInv ==
  /\ tokens \subseteq Token
  /\ founders \subseteq UserId
  /\ seen \in [CodeId -> 0..MaxCodes]
  /\ mailed \subseteq Mail
  /\ origin \in [UserId -> CodeId \cup {Nil}]

TypeInv == StoreTypeOK /\ LocalInv /\ LogInv

-----------------------------------------------------------------------------
(* The local variables of one request change, the others' do not. *)

LEMMA NoReqType == NoReq \in ReqType
  BY StoreAssumption DEF NoReq, ReqType

LEMMA MoveTyped ==
  ASSUME LocalInv, NEW p \in Procs, NEW label \in Labels, NEW r \in ReqType,
         KnowsAt(label, r),
         pc' = [pc EXCEPT ![p] = label], req' = [req EXCEPT ![p] = r]
  PROVE  LocalInv'
<1>1. pc' \in [Procs -> Labels] /\ req' \in [Procs -> ReqType]
  BY DEF LocalInv
<1>2. ASSUME NEW q \in Procs PROVE KnowsAt(pc'[q], req'[q])
  <2>1. CASE q = p
    BY <2>1 DEF LocalInv
  <2>2. CASE q # p
    <3>1. pc'[q] = pc[q] /\ req'[q] = req[q]
      BY <2>2 DEF LocalInv
    <3>. QED BY <3>1 DEF LocalInv
  <2>. QED BY <2>1, <2>2
<1>3. (\A q \in Procs : KnowsAt(pc[q], req[q]))'
  BY <1>2
<1>. QED BY <1>1, <1>3 DEF LocalInv

LEMMA StayTyped ==
  ASSUME LocalInv, NEW p \in Procs, NEW label \in Labels,
         KnowsAt(label, req[p]), Goto(p, label), UNCHANGED req
  PROVE  LocalInv'
<1>1. req' = [req EXCEPT ![p] = req[p]] /\ req[p] \in ReqType
  BY DEF LocalInv
<1>. QED BY <1>1, MoveTyped DEF Goto

LEMMA ReplyTyped ==
  ASSUME LocalInv, NEW p \in Procs, Reply(p)
  PROVE  LocalInv'
<1>1. KnowsAt("idle", NoReq) /\ "idle" \in Labels
  BY DEF KnowsAt, Labels, SendCodeLabels, NewAccountLabels, AccountLabels, TargetLabels
<1>. QED BY <1>1, NoReqType, MoveTyped DEF Reply

LEMMA BeginTyped ==
  ASSUME LocalInv, NEW p \in Procs, NEW label \in Labels, NEW r \in ReqType,
         KnowsAt(label, r), Begin(p, label, r)
  PROVE  LocalInv'
  BY MoveTyped DEF Begin

\* Most statements are queries.
LEMMA QueryTyped ==
  ASSUME StoreTypeOK, LogInv, UNCHANGED <<storeVars, now, tokens, history>>
  PROVE  StoreTypeOK' /\ LogInv'
  BY DEF StoreTypeOK, LogInv, storeVars, history

\* A statement that only writes the table users.
LEMMA UserStatementTyped ==
  ASSUME StoreTypeOK, LogInv, users' \in [UserId -> UserRow \cup {Nil}],
         UNCHANGED <<accountOthers, now, tokens, seen, mailed, origin>>,
         founders' \subseteq UserId
  PROVE  StoreTypeOK' /\ LogInv'
  BY DEF StoreTypeOK, LogInv, accountOthers

LEMMA UpdatesTyped ==
  ASSUME StoreTypeOK, NEW id, NEW role \in Roles,
         \/ UpdateUserRole(id, role) \/ BanUser(id) \/ UnbanUser(id) \/ DeleteUser(id)
  PROVE  users' \in [UserId -> UserRow \cup {Nil}]
<1>1. \A row \in UserRow : /\ [row EXCEPT !.role = role] \in UserRow
                           /\ [row EXCEPT !.banned = TRUE] \in UserRow
                           /\ [row EXCEPT !.banned = FALSE] \in UserRow
  BY DEF UserRow
<1>2. CASE UpdateUserRole(id, role)
  BY <1>1, <1>2 DEF UpdateUserRole, StoreTypeOK
<1>3. CASE BanUser(id)
  BY <1>1, <1>3 DEF BanUser, StoreTypeOK
<1>4. CASE UnbanUser(id)
  BY <1>1, <1>4 DEF UnbanUser, StoreTypeOK
<1>5. CASE DeleteUser(id)
  BY <1>5 DEF DeleteUser, StoreTypeOK
<1>. QED BY <1>2, <1>3, <1>4, <1>5

LEMMA InsertTyped ==
  ASSUME StoreTypeOK, NEW name \in Names, NEW email \in Emails,
         NEW password \in Passwords, InsertUser(name, email, password)
  PROVE  /\ users' \in [UserId -> UserRow \cup {Nil}]
         /\ NewUserId \in UserId /\ lastUserId' = NewUserId /\ lastUserId' \in 0..MaxUsers
<1>1. NewUserId \in UserId /\ lastUserId' = NewUserId
  BY StoreAssumption DEF InsertUser, Insertable, NewUserId, StoreTypeOK, UserId
<1>2. [username |-> name, email |-> email, password |-> password,
       role |-> "user", banned |-> FALSE] \in UserRow
  BY DEF UserRow, Roles
<1>3. users' \in [UserId -> UserRow \cup {Nil}]
  BY <1>2 DEF InsertUser, StoreTypeOK
<1>. QED BY <1>1, <1>3, StoreAssumption DEF UserId

-----------------------------------------------------------------------------
(* SendCode *)

LEMMA SendCodeTyped ==
  ASSUME TypeInv, NEW h \in Handlers, SendCode(h) \/ SendCodeStep(h)
  PROVE  TypeInv'
<1>. USE DEF SendCodeLabels
<1>0. /\ StoreTypeOK /\ LocalInv /\ LogInv
      /\ h \in Procs /\ req[h] \in ReqType /\ pc[h] \in Labels /\ KnowsAt(pc[h], req[h])
      /\ SendCodeLabels \subseteq Labels
  BY DEF TypeInv, LocalInv, Procs, Labels, HandlerLabels
<1>. SUFFICES LocalInv' /\ StoreTypeOK' /\ LogInv'
  BY DEF TypeInv
<1>1. CASE SendCode(h)
  <2>1. PICK email \in Emails :
          Begin(h, "count_day", [NoReq EXCEPT !.op = "send_code", !.email = email])
    BY <1>1 DEF SendCode
  <2>2. [NoReq EXCEPT !.op = "send_code", !.email = email] \in ReqType
    BY NoReqType DEF ReqType, AllOps
  <2>3. KnowsAt("count_day", [NoReq EXCEPT !.op = "send_code", !.email = email])
    BY DEF KnowsAt, NoReq, NewAccountLabels, AccountLabels, TargetLabels
  <2>. QED BY <1>0, <1>1, <2>1, <2>2, <2>3, BeginTyped, QueryTyped DEF SendCode
<1>2. CASE CountDay(h)
  <2>1. KnowsAt("count_minute", req[h])
    BY <1>0, <1>2 DEF CountDay, KnowsAt, NewAccountLabels, AccountLabels, TargetLabels
  <2>. QED BY <1>0, <1>2, <2>1, StayTyped, ReplyTyped, QueryTyped DEF CountDay
<1>3. CASE CountMinute(h)
  <2> DEFINE r == [req[h] EXCEPT !.seen = lastCodeId]
  <2>1. r \in ReqType /\ r.email = req[h].email
    BY <1>0, StoreAssumption DEF StoreTypeOK, ReqType
  <2>2. KnowsAt("store_code", r)
    BY <1>0, <1>3, <2>1 DEF CountMinute, KnowsAt, NewAccountLabels, AccountLabels, TargetLabels
  <2>3. req' = [req EXCEPT ![h].seen = lastCodeId] => req' = [req EXCEPT ![h] = r]
    BY <1>0 DEF LocalInv
  <2>. QED BY <1>0, <1>3, <2>1, <2>2, <2>3, MoveTyped, ReplyTyped, QueryTyped
           DEF CountMinute, Goto
<1>4. CASE StoreCode(h)
  <2>0. req[h].email \in Emails /\ req[h].seen \in 0..MaxCodes
    BY <1>0, <1>4 DEF StoreCode, KnowsAt, ReqType
  <2>1. ASSUME NEW code \in GenerateCode, Goto(h, "send_mail"),
               CreateEmailCode(req[h].email, code),
               req' = [req EXCEPT ![h].code = code, ![h].codeId = lastCodeId + 1,
                                  ![h].expires = now + CodeTTL],
               seen' = [seen EXCEPT ![lastCodeId + 1] = req[h].seen],
               UNCHANGED <<users, lastUserId, loginLogs, now, tokens, founders, mailed, origin>>
        PROVE  LocalInv' /\ StoreTypeOK' /\ LogInv'
    <3> DEFINE r == [req[h] EXCEPT !.code = code, !.codeId = lastCodeId + 1,
                                   !.expires = now + CodeTTL]
    <3>1. code \in Codes
      BY DEF GenerateCode
    <3>2. lastCodeId + 1 \in CodeId /\ lastCodeId' \in 0..MaxCodes
      BY <1>0, <2>1, StoreAssumption DEF CreateEmailCode, CodeId, StoreTypeOK
    <3>3. now \in Nat /\ now + CodeTTL \in Nat
      BY <1>0, StoreAssumption DEF StoreTypeOK
    <3>4. r \in ReqType /\ r.codeId = lastCodeId + 1 /\ r.email = req[h].email
      BY <1>0, <3>1, <3>2, <3>3 DEF ReqType
    <3>5. KnowsAt("send_mail", r)
      BY <2>0, <3>2, <3>4 DEF KnowsAt, NewAccountLabels, AccountLabels, TargetLabels
    <3>6. req' = [req EXCEPT ![h] = r]
      BY <1>0, <2>1 DEF LocalInv
    <3>7. LocalInv'
      BY <1>0, <2>1, <3>4, <3>5, <3>6, MoveTyped DEF Goto
    <3>8. [email |-> req[h].email, code |-> code, created |-> now,
           expires |-> now + CodeTTL, used |-> FALSE] \in CodeRow
      BY <2>0, <3>1, <3>3 DEF CodeRow
    <3>9. emailCodes' \in [CodeId -> CodeRow \cup {Nil}]
      BY <1>0, <2>1, <3>8 DEF CreateEmailCode, StoreTypeOK
    <3>10. StoreTypeOK' /\ LogInv'
      BY <1>0, <2>0, <2>1, <3>2, <3>9 DEF StoreTypeOK, LogInv
    <3>. QED BY <3>7, <3>10
  <2>2. ASSUME Reply(h), UNCHANGED <<emailCodes, lastCodeId, seen>>,
               UNCHANGED <<users, lastUserId, loginLogs, now, tokens, founders, mailed, origin>>
        PROVE  LocalInv' /\ StoreTypeOK' /\ LogInv'
    BY <1>0, <2>2, ReplyTyped, QueryTyped DEF storeVars, history
  <2>. QED BY <1>4, <2>1, <2>2 DEF StoreCode
<1>5. CASE SendMail(h)
  <2>1. KnowsAt("rollback_code", req[h]) /\ req[h].codeId \in CodeId /\ req[h].expires \in Nat
    BY <1>0, <1>5 DEF SendMail, KnowsAt, NewAccountLabels, AccountLabels, TargetLabels, ReqType
  <2>2. LocalInv'
    BY <1>0, <1>5, <2>1, StayTyped, ReplyTyped DEF SendMail
  <2>3. mailed' \subseteq Mail
    BY <1>0, <1>5, <2>1 DEF SendMail, Deliver, LogInv, Mail
  <2>. QED BY <1>0, <1>5, <2>2, <2>3 DEF SendMail, StoreTypeOK, LogInv, storeVars
<1>6. CASE RollbackCode(h)
  <2>1. LocalInv'
    BY <1>0, <1>6, ReplyTyped DEF RollbackCode
  <2>2. emailCodes' \in [CodeId -> CodeRow \cup {Nil}]
    BY <1>0, <1>6 DEF RollbackCode, DeleteEmailCode, StoreTypeOK
  <2>. QED BY <1>0, <1>6, <2>1, <2>2 DEF RollbackCode, StoreTypeOK, LogInv, history
<1>. QED BY <1>1, <1>2, <1>3, <1>4, <1>5, <1>6 DEF SendCodeStep

-----------------------------------------------------------------------------
(* Register and Login *)

LEMMA RegisterTyped ==
  ASSUME TypeInv, NEW h \in Handlers, Register(h) \/ RegisterStep(h)
  PROVE  TypeInv'
<1>. USE DEF RegisterLabels, NewAccountLabels, AccountLabels
<1>0. /\ StoreTypeOK /\ LocalInv /\ LogInv
      /\ h \in Procs /\ req[h] \in ReqType /\ pc[h] \in Labels /\ KnowsAt(pc[h], req[h])
      /\ RegisterLabels \subseteq Labels
  BY DEF TypeInv, LocalInv, Procs, Labels, HandlerLabels
<1>. SUFFICES LocalInv' /\ StoreTypeOK' /\ LogInv'
  BY DEF TypeInv
<1>1. CASE Register(h)
  <2>1. PICK name \in Names, email \in Emails, password \in Passwords, code \in Codes :
          Begin(h, "check_code",
                [NoReq EXCEPT !.op = "register", !.name = name, !.email = email,
                              !.password = password, !.code = code])
    BY <1>1 DEF Register
  <2> DEFINE r == [NoReq EXCEPT !.op = "register", !.name = name, !.email = email,
                                !.password = password, !.code = code]
  <2>2. r \in ReqType /\ r.name = name /\ r.email = email /\ r.password = password
    BY NoReqType DEF ReqType, AllOps
  <2>3. KnowsAt("check_code", r)
    BY <2>2 DEF KnowsAt, SendCodeLabels, TargetLabels
  <2>. QED BY <1>0, <1>1, <2>1, <2>2, <2>3, BeginTyped, QueryTyped DEF Register
<1>2. CASE CheckCode(h)
  <2>1. ASSUME NEW c \in ValidEmailCodes(req[h].email, req[h].code),
               Goto(h, "check_email"), req' = [req EXCEPT ![h].codeId = c]
        PROVE  LocalInv'
    <3> DEFINE r == [req[h] EXCEPT !.codeId = c]
    <3>1. c \in CodeId
      BY DEF ValidEmailCodes, LiveCodes
    <3>2. r \in ReqType /\ r.name = req[h].name /\ r.email = req[h].email
          /\ r.password = req[h].password
      BY <1>0, <3>1 DEF ReqType
    <3>3. KnowsAt("check_email", r)
      BY <1>0, <1>2, <3>2 DEF CheckCode, KnowsAt, SendCodeLabels, TargetLabels
    <3>4. req' = [req EXCEPT ![h] = r]
      BY <1>0, <2>1 DEF LocalInv
    <3>. QED BY <1>0, <2>1, <3>2, <3>3, <3>4, MoveTyped DEF Goto
  <2>. QED BY <1>0, <1>2, <2>1, ReplyTyped, QueryTyped DEF CheckCode
<1>3. CASE CheckEmail(h)
  <2>1. KnowsAt("check_name", req[h])
    BY <1>0, <1>3 DEF CheckEmail, KnowsAt, SendCodeLabels, TargetLabels
  <2>. QED BY <1>0, <1>3, <2>1, StayTyped, ReplyTyped, QueryTyped DEF CheckEmail
<1>4. CASE CheckName(h)
  <2>1. KnowsAt("insert_user", req[h])
    BY <1>0, <1>4 DEF CheckName, KnowsAt, SendCodeLabels, TargetLabels
  <2>. QED BY <1>0, <1>4, <2>1, StayTyped, ReplyTyped, QueryTyped DEF CheckName
<1>5. CASE InsertNewUser(h)
  <2>0. req[h].name \in Names /\ req[h].email \in Emails /\ req[h].password \in Passwords
    BY <1>0, <1>5 DEF InsertNewUser, KnowsAt
  <2>1. ASSUME Goto(h, "reread_user"), InsertUser(req[h].name, req[h].email, req[h].password),
               req' = [req EXCEPT ![h].uid = NewUserId],
               origin' = [origin EXCEPT ![NewUserId] = req[h].codeId],
               UNCHANGED <<emailCodes, lastCodeId, loginLogs, now, tokens, founders, seen, mailed>>
        PROVE  LocalInv' /\ StoreTypeOK' /\ LogInv'
    <3> DEFINE r == [req[h] EXCEPT !.uid = NewUserId]
    <3>1. /\ users' \in [UserId -> UserRow \cup {Nil}] /\ NewUserId \in UserId
          /\ lastUserId' \in 0..MaxUsers
      BY <1>0, <2>0, <2>1, InsertTyped
    <3>2. r \in ReqType /\ r.name = req[h].name /\ r.uid \in UserId
      BY <1>0, <3>1 DEF ReqType
    <3>3. KnowsAt("reread_user", r)
      BY <2>0, <3>2 DEF KnowsAt, SendCodeLabels, TargetLabels
    <3>4. req' = [req EXCEPT ![h] = r]
      BY <1>0, <2>1 DEF LocalInv
    <3>5. LocalInv'
      BY <1>0, <2>1, <3>2, <3>3, <3>4, MoveTyped DEF Goto
    <3>6. StoreTypeOK' /\ LogInv'
      <4>1. req[h].codeId \in CodeId \cup {Nil}
        BY <1>0 DEF ReqType
      <4>2. origin' \in [UserId -> CodeId \cup {Nil}]
        BY <1>0, <2>1, <4>1 DEF LogInv
      <4>. QED BY <1>0, <2>1, <3>1, <4>2 DEF StoreTypeOK, LogInv
    <3>. QED BY <3>5, <3>6
  <2>2. KnowsAt("create_failed", req[h])
    BY DEF KnowsAt, SendCodeLabels, TargetLabels
  <2>3. ASSUME Goto(h, "create_failed"), UNCHANGED <<users, lastUserId, req, origin>>,
               UNCHANGED <<emailCodes, lastCodeId, loginLogs, now, tokens, founders, seen, mailed>>
        PROVE  LocalInv' /\ StoreTypeOK' /\ LogInv'
    BY <1>0, <2>2, <2>3, StayTyped, QueryTyped DEF storeVars, history
  <2>. QED BY <1>5, <2>1, <2>3 DEF InsertNewUser
<1>6. CASE RereadUser(h)
  <2>0. req[h].uid \in UserId /\ req[h].name \in Names
    BY <1>0, <1>6 DEF RereadUser, KnowsAt
  <2>1. ASSUME users[req[h].uid] # Nil, Goto(h, "count_users"),
               req' = [req EXCEPT ![h].role = users[req[h].uid].role]
        PROVE  LocalInv'
    <3> DEFINE r == [req[h] EXCEPT !.role = users[req[h].uid].role]
    <3>1. users[req[h].uid].role \in Roles
      BY <1>0, <2>0, <2>1 DEF StoreTypeOK, UserRow
    <3>2. r \in ReqType /\ r.name = req[h].name /\ r.uid = req[h].uid /\ r.role \in Roles
      BY <1>0, <3>1 DEF ReqType
    <3>3. KnowsAt("count_users", r)
      BY <2>0, <3>2 DEF KnowsAt, SendCodeLabels, TargetLabels
    <3>4. req' = [req EXCEPT ![h] = r]
      BY <1>0, <2>1 DEF LocalInv
    <3>. QED BY <1>0, <2>1, <3>2, <3>3, <3>4, MoveTyped DEF Goto
  <2>2. KnowsAt("create_failed", req[h])
    BY DEF KnowsAt, SendCodeLabels, TargetLabels
  <2>. QED BY <1>0, <1>6, <2>1, <2>2, StayTyped, QueryTyped DEF RereadUser
<1>7. CASE CreateFailed(h)
  BY <1>0, <1>7, ReplyTyped, QueryTyped DEF CreateFailed
<1>8. CASE CountUsers(h)
  <2>1. KnowsAt("promote_first", req[h]) /\ KnowsAt("mark_used", req[h])
    BY <1>0, <1>8 DEF CountUsers, KnowsAt, SendCodeLabels, TargetLabels
  <2>. QED BY <1>0, <1>8, <2>1, StayTyped, QueryTyped DEF CountUsers
<1>9. CASE PromoteFirst(h)
  <2> DEFINE r == [req[h] EXCEPT !.role = "admin"]
  <2>0. req[h].uid \in UserId /\ req[h].name \in Names /\ "admin" \in Roles
    BY <1>0, <1>9 DEF PromoteFirst, KnowsAt, Roles
  <2>1. r \in ReqType /\ r.name = req[h].name /\ r.uid = req[h].uid /\ r.role \in Roles
    BY <1>0, <2>0 DEF ReqType
  <2>2. KnowsAt("mark_used", r)
    BY <2>0, <2>1 DEF KnowsAt, SendCodeLabels, TargetLabels
  <2>3. LocalInv'
    <3>1. req' = [req EXCEPT ![h] = r]
      BY <1>0, <1>9 DEF PromoteFirst, LocalInv
    <3>. QED BY <1>0, <1>9, <2>1, <2>2, <3>1, MoveTyped DEF PromoteFirst, Goto
  <2>4. users' \in [UserId -> UserRow \cup {Nil}] /\ founders' \subseteq UserId
    <3>1. CASE UpdateUserRole(req[h].uid, "admin") /\ founders' = founders \cup {req[h].uid}
      BY <1>0, <2>0, <3>1, UpdatesTyped DEF LogInv
    <3>2. CASE UNCHANGED <<users, founders>>
      BY <1>0, <3>2 DEF StoreTypeOK, LogInv
    <3>. QED BY <1>9, <3>1, <3>2 DEF PromoteFirst
  <2>. QED BY <1>0, <1>9, <2>3, <2>4, UserStatementTyped DEF PromoteFirst, accountOthers
<1>10. CASE MarkUsed(h)
  <2>1. KnowsAt("issue_token", req[h])
    BY <1>0, <1>10 DEF MarkUsed, KnowsAt, SendCodeLabels, TargetLabels
  <2>2. LocalInv'
    BY <1>0, <1>10, <2>1, StayTyped DEF MarkUsed
  <2>3. \A row \in CodeRow : [row EXCEPT !.used = TRUE] \in CodeRow
    BY DEF CodeRow
  <2>4. emailCodes' \in [CodeId -> CodeRow \cup {Nil}]
    BY <1>0, <1>10, <2>3 DEF MarkUsed, MarkEmailCodeUsed, StoreTypeOK
  <2>. QED BY <1>0, <1>10, <2>2, <2>4 DEF MarkUsed, StoreTypeOK, LogInv, history
<1>11. CASE IssueToken(h)
  <2>1. req[h].uid \in UserId /\ req[h].name \in Names /\ req[h].role \in Roles
    BY <1>0, <1>11 DEF IssueToken, KnowsAt
  <2>2. LocalInv'
    BY <1>0, <1>11, ReplyTyped DEF IssueToken
  <2>3. tokens' \subseteq Token
    BY <1>0, <1>11, <2>1 DEF IssueToken, LogInv, Token
  <2>. QED BY <1>0, <1>11, <2>2, <2>3 DEF IssueToken, StoreTypeOK, LogInv, storeVars, history
<1>. QED BY <1>1, <1>2, <1>3, <1>4, <1>5, <1>6, <1>7, <1>8, <1>9, <1>10, <1>11
         DEF RegisterStep

LEMMA LoginTyped ==
  ASSUME TypeInv, NEW h \in Handlers, Login(h) \/ LoginStep(h)
  PROVE  TypeInv'
<1>. USE DEF LoginLabels, NewAccountLabels, AccountLabels
<1>0. /\ StoreTypeOK /\ LocalInv /\ LogInv
      /\ h \in Procs /\ req[h] \in ReqType /\ pc[h] \in Labels /\ KnowsAt(pc[h], req[h])
      /\ LoginLabels \subseteq Labels
  BY DEF TypeInv, LocalInv, Procs, Labels, HandlerLabels
<1>. SUFFICES LocalInv' /\ StoreTypeOK' /\ LogInv'
  BY DEF TypeInv
<1>1. CASE Login(h)
  <2>1. PICK email \in Emails, password \in Passwords :
          Begin(h, "login_read",
                [NoReq EXCEPT !.op = "login", !.email = email, !.password = password])
    BY <1>1 DEF Login
  <2> DEFINE r == [NoReq EXCEPT !.op = "login", !.email = email, !.password = password]
  <2>2. r \in ReqType /\ KnowsAt("login_read", r)
    BY NoReqType DEF ReqType, AllOps, KnowsAt, SendCodeLabels, TargetLabels
  <2>. QED BY <1>0, <1>1, <2>1, <2>2, BeginTyped, QueryTyped DEF Login
<1>2. CASE LoginRead(h)
  <2>1. ASSUME NEW u \in UsersByEmail(req[h].email), Goto(h, "login_log"),
               req' = [req EXCEPT ![h].uid = u, ![h].name = users[u].username,
                                  ![h].role = users[u].role]
        PROVE  LocalInv'
    <3> DEFINE r == [req[h] EXCEPT !.uid = u, !.name = users[u].username,
                                   !.role = users[u].role]
    <3>1. u \in UserId /\ users[u] \in UserRow
      BY <1>0 DEF UsersByEmail, LiveUsers, StoreTypeOK
    <3>2. r \in ReqType /\ r.uid \in UserId /\ r.name \in Names /\ r.role \in Roles
      BY <1>0, <3>1 DEF ReqType, UserRow
    <3>3. KnowsAt("login_log", r)
      BY <3>2 DEF KnowsAt, SendCodeLabels, TargetLabels
    <3>4. req' = [req EXCEPT ![h] = r]
      BY <1>0, <2>1 DEF LocalInv
    <3>. QED BY <1>0, <2>1, <3>2, <3>3, <3>4, MoveTyped DEF Goto
  <2>. QED BY <1>0, <1>2, <2>1, ReplyTyped, QueryTyped DEF LoginRead
<1>3. CASE LoginLog(h)
  <2>1. KnowsAt("issue_token", req[h]) /\ req[h].uid \in UserId /\ req[h].name \in Names
        /\ "issue_token" \in Labels
    BY <1>0, <1>3 DEF LoginLog, KnowsAt, SendCodeLabels, TargetLabels
  <2>2. LocalInv'
    BY <1>0, <1>3, <2>1, StayTyped DEF LoginLog
  <2>3. loginLogs' \subseteq LoginRow
    BY <1>0, <1>3, <2>1 DEF LoginLog, CreateLoginLog, StoreTypeOK, LoginRow
  <2>. QED BY <1>0, <1>3, <2>2, <2>3 DEF LoginLog, StoreTypeOK, LogInv, history
<1>. QED BY <1>1, <1>2, <1>3 DEF LoginStep

-----------------------------------------------------------------------------
(* The admin endpoints and the command line *)

LEMMA AdminTyped ==
  ASSUME TypeInv, NEW h \in Handlers, AdminRequest(h) \/ AdminStep(h)
  PROVE  TypeInv'
<1>. USE DEF AdminLabels, TargetLabels
<1>0. /\ StoreTypeOK /\ LocalInv /\ LogInv
      /\ h \in Procs /\ req[h] \in ReqType /\ pc[h] \in Labels /\ KnowsAt(pc[h], req[h])
      /\ AdminLabels \subseteq Labels
  BY DEF TypeInv, LocalInv, Procs, Labels, HandlerLabels
<1>a. KnowsAt("notify", req[h])
  BY DEF KnowsAt, SendCodeLabels, NewAccountLabels, AccountLabels
<1>b. founders \subseteq UserId
  BY <1>0 DEF LogInv
<1>. SUFFICES LocalInv' /\ StoreTypeOK' /\ LogInv'
  BY DEF TypeInv
<1>1. CASE AdminRequest(h)
  <2>1. PICK op \in AdminOps, t \in tokens, target \in UserId, role \in Roles :
          Begin(h, "require_admin",
                [NoReq EXCEPT !.op = op, !.uid = t.uid, !.target = target,
                              !.role = IF op = "promote" THEN role ELSE Nil])
    BY <1>1 DEF AdminRequest
  <2> DEFINE x == IF op = "promote" THEN role ELSE Nil
             r == [NoReq EXCEPT !.op = op, !.uid = t.uid, !.target = target, !.role = x]
  <2>2. t.uid \in UserId /\ x \in Roles \cup {Nil} /\ (op = "promote" => x \in Roles)
    BY <1>0 DEF LogInv, Token
  <2>3. r \in ReqType /\ (r.op = "promote" => r.role \in Roles)
    <3> HIDE DEF x
    <3>1. r \in ReqType /\ r.op = op /\ r.role = x
      BY <2>2, NoReqType DEF ReqType, AllOps
    <3>. QED BY <2>2, <3>1
  <2>4. KnowsAt("require_admin", r)
    BY <2>3 DEF KnowsAt, SendCodeLabels, NewAccountLabels, AccountLabels
  <2>. QED BY <1>0, <1>1, <2>1, <2>3, <2>4, BeginTyped, QueryTyped DEF AdminRequest
<1>2. CASE RequireAdmin(h)
  <2>1. KnowsAt("read_target", req[h])
    BY <1>0, <1>2 DEF RequireAdmin, KnowsAt, SendCodeLabels, NewAccountLabels, AccountLabels
  <2>. QED BY <1>0, <1>2, <2>1, StayTyped, ReplyTyped, QueryTyped DEF RequireAdmin
<1>3. CASE ReadTarget(h)
  <2>1. KnowsAt("write_target", req[h])
    BY <1>0, <1>3 DEF ReadTarget, KnowsAt, SendCodeLabels, NewAccountLabels, AccountLabels
  <2>. QED BY <1>0, <1>3, <2>1, StayTyped, ReplyTyped, QueryTyped DEF ReadTarget
<1>4. CASE BanTarget(h) \/ UnbanTarget(h)
  <2>1. users' \in [UserId -> UserRow \cup {Nil}]
    BY <1>0, <1>4, UpdatesTyped DEF BanTarget, UnbanTarget, Roles
  <2>2. LocalInv'
    BY <1>0, <1>a, <1>4, StayTyped DEF BanTarget, UnbanTarget
  <2>. QED BY <1>0, <1>b, <1>4, <2>1, <2>2, UserStatementTyped
           DEF BanTarget, UnbanTarget, history
<1>5. CASE DeleteTarget(h)
  <2>1. users' \in [UserId -> UserRow \cup {Nil}]
    BY <1>0, <1>5, UpdatesTyped DEF DeleteTarget, Roles
  <2>. QED BY <1>0, <1>b, <1>5, <2>1, ReplyTyped, UserStatementTyped
           DEF DeleteTarget, history
<1>6. CASE PromoteTarget(h)
  <2>1. req[h].role \in Roles
    BY <1>0, <1>6 DEF PromoteTarget, KnowsAt
  <2>2. users' \in [UserId -> UserRow \cup {Nil}]
    BY <1>0, <1>6, <2>1, UpdatesTyped DEF PromoteTarget
  <2>. QED BY <1>0, <1>b, <1>6, <2>2, ReplyTyped, UserStatementTyped
           DEF PromoteTarget, history
<1>7. CASE WriteFails(h) \/ Notify(h)
  BY <1>0, <1>7, ReplyTyped, QueryTyped DEF WriteFails, Notify
<1>. QED BY <1>1, <1>2, <1>3, <1>4, <1>5, <1>6, <1>7 DEF AdminStep

LEMMA CliTyped ==
  ASSUME TypeInv, NEW c \in Clis, Command(c) \/ CreateAdmin(c) \/ CliStep(c) \/ CliKill(c)
  PROVE  TypeInv'
<1>. USE DEF CliLabels, NewAccountLabels
<1>0. /\ StoreTypeOK /\ LocalInv /\ LogInv
      /\ c \in Procs /\ req[c] \in ReqType /\ pc[c] \in Labels /\ KnowsAt(pc[c], req[c])
      /\ CliLabels \subseteq Labels
  BY DEF TypeInv, LocalInv, Procs, Labels
<1>a. \A r : /\ KnowsAt("cli_read", r) /\ KnowsAt("cli_write", r)
             /\ KnowsAt("cli_reread", r) /\ KnowsAt("cli_promote", r)
  BY DEF KnowsAt, SendCodeLabels, AccountLabels, TargetLabels
<1>b. founders \subseteq UserId /\ "admin" \in Roles
  BY <1>0 DEF LogInv, Roles
<1>. SUFFICES LocalInv' /\ StoreTypeOK' /\ LogInv'
  BY DEF TypeInv
<1>1. CASE Command(c)
  <2>1. PICK op \in AdminOps, target \in UserId :
          Begin(c, "cli_read", [NoReq EXCEPT !.op = op, !.target = target])
    BY <1>1 DEF Command
  <2>2. [NoReq EXCEPT !.op = op, !.target = target] \in ReqType
    BY NoReqType DEF ReqType, AllOps
  <2>. QED BY <1>0, <1>a, <1>1, <2>1, <2>2, BeginTyped, QueryTyped DEF Command
<1>2. CASE CliRead(c)
  BY <1>0, <1>a, <1>2, StayTyped, ReplyTyped, QueryTyped DEF CliRead
<1>3. CASE CliWrite(c)
  <2>1. users' \in [UserId -> UserRow \cup {Nil}]
    BY <1>0, <1>b, <1>3, UpdatesTyped DEF CliWrite, StoreTypeOK
  <2>. QED BY <1>0, <1>b, <1>3, <2>1, ReplyTyped, UserStatementTyped DEF CliWrite, history
<1>4. CASE CreateAdmin(c)
  <2>1. PICK name \in Names, email \in Emails, password \in Passwords :
          Begin(c, "cli_email",
                [NoReq EXCEPT !.op = "create_admin", !.name = name, !.email = email,
                              !.password = password])
    BY <1>4 DEF CreateAdmin
  <2> DEFINE r == [NoReq EXCEPT !.op = "create_admin", !.name = name, !.email = email,
                                !.password = password]
  <2>2. r \in ReqType /\ r.name = name /\ r.email = email /\ r.password = password
    BY NoReqType DEF ReqType, AllOps
  <2>3. KnowsAt("cli_email", r)
    BY <2>2 DEF KnowsAt, SendCodeLabels, AccountLabels, TargetLabels
  <2>. QED BY <1>0, <1>4, <2>1, <2>2, <2>3, BeginTyped, QueryTyped DEF CreateAdmin
<1>5. CASE CliEmail(c)
  <2>1. KnowsAt("cli_name", req[c])
    BY <1>0, <1>5 DEF CliEmail, KnowsAt, SendCodeLabels, AccountLabels, TargetLabels
  <2>. QED BY <1>0, <1>5, <2>1, StayTyped, ReplyTyped, QueryTyped DEF CliEmail
<1>6. CASE CliName(c)
  <2>1. KnowsAt("cli_insert", req[c])
    BY <1>0, <1>6 DEF CliName, KnowsAt, SendCodeLabels, AccountLabels, TargetLabels
  <2>. QED BY <1>0, <1>6, <2>1, StayTyped, ReplyTyped, QueryTyped DEF CliName
<1>7. CASE CliInsert(c)
  <2>0. req[c].name \in Names /\ req[c].email \in Emails /\ req[c].password \in Passwords
    BY <1>0, <1>7 DEF CliInsert, KnowsAt
  <2>1. ASSUME Goto(c, "cli_reread"), InsertUser(req[c].name, req[c].email, req[c].password),
               req' = [req EXCEPT ![c].uid = NewUserId],
               UNCHANGED <<emailCodes, lastCodeId, loginLogs, now, tokens, history>>
        PROVE  LocalInv' /\ StoreTypeOK' /\ LogInv'
    <3> DEFINE r == [req[c] EXCEPT !.uid = NewUserId]
    <3>1. /\ users' \in [UserId -> UserRow \cup {Nil}] /\ NewUserId \in UserId
          /\ lastUserId' \in 0..MaxUsers
      BY <1>0, <2>0, <2>1, InsertTyped
    <3>2. r \in ReqType
      BY <1>0, <3>1 DEF ReqType
    <3>3. req' = [req EXCEPT ![c] = r]
      BY <1>0, <2>1 DEF LocalInv
    <3>4. LocalInv'
      BY <1>0, <1>a, <2>1, <3>2, <3>3, MoveTyped DEF Goto
    <3>5. StoreTypeOK' /\ LogInv'
      BY <1>0, <2>1, <3>1 DEF StoreTypeOK, LogInv, history
    <3>. QED BY <3>4, <3>5
  <2>2. ASSUME Reply(c), UNCHANGED <<users, lastUserId>>,
               UNCHANGED <<emailCodes, lastCodeId, loginLogs, now, tokens, history>>
        PROVE  LocalInv' /\ StoreTypeOK' /\ LogInv'
    BY <1>0, <2>2, ReplyTyped, QueryTyped DEF storeVars
  <2>. QED BY <1>7, <2>1, <2>2 DEF CliInsert
<1>8. CASE CliReread(c)
  BY <1>0, <1>a, <1>8, StayTyped, ReplyTyped, QueryTyped DEF CliReread
<1>9. CASE CliPromote(c)
  <2>1. users' \in [UserId -> UserRow \cup {Nil}]
    BY <1>0, <1>b, <1>9, UpdatesTyped DEF CliPromote, StoreTypeOK
  <2>. QED BY <1>0, <1>b, <1>9, <2>1, ReplyTyped, UserStatementTyped DEF CliPromote, history
<1>10. CASE CliKill(c)
  BY <1>0, <1>10, ReplyTyped, QueryTyped DEF CliKill, Reply
<1>. QED BY <1>1, <1>2, <1>3, <1>4, <1>5, <1>6, <1>7, <1>8, <1>9, <1>10 DEF CliStep

-----------------------------------------------------------------------------
(* The clock, the crash, and the theorem *)

LEMMA OtherTyped ==
  ASSUME TypeInv, TimePasses \/ ServerCrash
  PROVE  TypeInv'
<1>0. StoreTypeOK /\ LocalInv /\ LogInv
  BY DEF TypeInv
<1>1. CASE TimePasses
  <2>1. now' \in 0..MaxTime
    BY <1>0, <1>1, StoreAssumption DEF TimePasses, Tick, StoreTypeOK
  <2>2. LocalInv'
    BY <1>0, <1>1 DEF TimePasses, LocalInv
  <2>. QED BY <1>0, <1>1, <2>1, <2>2
           DEF TimePasses, Tick, TypeInv, StoreTypeOK, LogInv, storeVars, history
<1>2. CASE ServerCrash
  <2>1. KnowsAt("idle", NoReq) /\ "idle" \in Labels
    BY DEF KnowsAt, Labels, SendCodeLabels, NewAccountLabels, AccountLabels, TargetLabels
  <2>2. pc' \in [Procs -> Labels] /\ req' \in [Procs -> ReqType]
    BY <1>0, <1>2, <2>1, NoReqType DEF ServerCrash, LocalInv
  <2>3. ASSUME NEW p \in Procs PROVE KnowsAt(pc'[p], req'[p])
    BY <1>0, <1>2, <2>1 DEF ServerCrash, LocalInv
  <2>4. (\A p \in Procs : KnowsAt(pc[p], req[p]))'
    BY <2>3
  <2>5. LocalInv'
    BY <2>2, <2>4 DEF LocalInv
  <2>. QED BY <1>0, <1>2, <2>5, QueryTyped DEF ServerCrash, TypeInv
<1>. QED BY <1>1, <1>2

LEMMA StutterTyped == ASSUME TypeInv, UNCHANGED vars PROVE TypeInv'
  BY DEF TypeInv, StoreTypeOK, LocalInv, LogInv, vars

LEMMA TypeInit == Init => TypeInv
<1>. SUFFICES ASSUME Init PROVE TypeInv
  OBVIOUS
<1>1. StoreTypeOK
  BY StoreAssumption DEF Init, StoreInit, StoreTypeOK
<1>2. KnowsAt("idle", NoReq) /\ "idle" \in Labels
  BY DEF KnowsAt, Labels, SendCodeLabels, NewAccountLabels, AccountLabels, TargetLabels
<1>3. LocalInv
  BY <1>2, NoReqType DEF Init, RequestsInit, LocalInv
<1>4. LogInv
  BY StoreAssumption DEF Init, RequestsInit, LogInv
<1>. QED BY <1>1, <1>3, <1>4 DEF TypeInv

LEMMA TypeStep == TypeInv /\ [Next]_vars => TypeInv'
  BY StutterTyped, OtherTyped, SendCodeTyped, RegisterTyped, LoginTyped, AdminTyped, CliTyped
     DEF Next, Arrive, HandlerStep

\* Every table row, local variable, token and log entry keeps its type whatever
\* statements interleave, fail or are cut off: no INSERT ever writes a missing
\* field, no answer carries a value the request never read. (the columns of
\* migrate, the struct fields the handlers copy)
THEOREM TypeCorrect == Spec => []AccountTypeOK
<1>1. TypeInv => AccountTypeOK
  BY DEF TypeInv, LocalInv, LogInv, AccountTypeOK, RequestsTypeOK, Labels
<1>. QED BY <1>1, TypeInit, TypeStep, PTL DEF Spec

-----------------------------------------------------------------------------
(***************************************************************************)
(* Ids.  A rowid is given once (AUTOINCREMENT) and a username is written   *)
(* once, so what ties an id to a name, once true, stays true: UsersStep    *)
(* says so of every step (and of the address, which is as fixed), and the  *)
(* rest is about who learns an id when.                                    *)
(***************************************************************************)

\* The id was given out, and its row, if it is still there, carries the name.
Tied(uid, name) ==
  /\ uid <= lastUserId
  /\ uid \in LiveUsers => users[uid].username = name

TiedNext(uid, name) ==
  /\ uid <= lastUserId'
  /\ uid \in LiveUsers' => users'[uid].username = name

IdInv ==
  /\ \A u \in LiveUsers \cup founders : u <= lastUserId
  /\ \A p \in Procs : pc[p] \in AccountLabels => Tied(req[p].uid, req[p].name)
  /\ \A t \in tokens \cup loginLogs : Tied(t.uid, t.name)

UsersStep ==
  /\ lastUserId' \in Nat /\ lastUserId' >= lastUserId
  /\ \A u \in LiveUsers' :
       /\ u <= lastUserId'
       /\ u <= lastUserId => /\ u \in LiveUsers
                             /\ users'[u].username = users[u].username
                             /\ users'[u].email = users[u].email

LEMMA SameUsers ==
  ASSUME StoreTypeOK, IdInv, UNCHANGED <<users, lastUserId>>
  PROVE  UsersStep
  BY StoreAssumption DEF UsersStep, LiveUsers, IdInv, StoreTypeOK

LEMMA UpdateUsersStep ==
  ASSUME StoreTypeOK, IdInv, NEW id, NEW role, UNCHANGED lastUserId,
         \/ UpdateUserRole(id, role) \/ BanUser(id) \/ UnbanUser(id) \/ DeleteUser(id)
  PROVE  UsersStep
<1>1. ASSUME NEW u \in LiveUsers'
      PROVE  /\ u \in LiveUsers /\ users'[u].username = users[u].username
             /\ users'[u].email = users[u].email
  <2>1. u \in UserId /\ users'[u] # Nil
    BY DEF LiveUsers
  <2>2. users \in [UserId -> UserRow \cup {Nil}]
    BY DEF StoreTypeOK
  <2>3. CASE users[u] = Nil
    BY <2>1, <2>2, <2>3 DEF UpdateUserRole, BanUser, UnbanUser, DeleteUser
  <2>4. CASE users[u] # Nil
    <3>1. users[u] \in UserRow
      BY <2>1, <2>2, <2>4
    <3>2. /\ [users[u] EXCEPT !.role = role].username = users[u].username
          /\ [users[u] EXCEPT !.banned = TRUE].username = users[u].username
          /\ [users[u] EXCEPT !.banned = FALSE].username = users[u].username
          /\ [users[u] EXCEPT !.role = role].email = users[u].email
          /\ [users[u] EXCEPT !.banned = TRUE].email = users[u].email
          /\ [users[u] EXCEPT !.banned = FALSE].email = users[u].email
      BY <3>1 DEF UserRow
    <3>3. users'[u].username = users[u].username /\ users'[u].email = users[u].email
      BY <2>1, <2>2, <2>4, <3>2 DEF UpdateUserRole, BanUser, UnbanUser, DeleteUser
    <3>. QED BY <2>1, <2>4, <3>3 DEF LiveUsers
  <2>. QED BY <2>3, <2>4
<1>. QED BY <1>1, StoreAssumption DEF UsersStep, IdInv, StoreTypeOK

LEMMA InsertUsersStep ==
  ASSUME StoreTypeOK, IdInv, NEW name, NEW email, NEW password,
         InsertUser(name, email, password)
  PROVE  UsersStep /\ TiedNext(NewUserId, name)
<1>1. lastUserId \in Nat /\ NewUserId = lastUserId + 1 /\ lastUserId' = NewUserId
  BY StoreAssumption DEF StoreTypeOK, InsertUser, NewUserId
<1>2. NewUserId \in UserId
  BY <1>1, StoreAssumption DEF InsertUser, Insertable, UserId, StoreTypeOK
<1>3. users' = [users EXCEPT ![NewUserId] =
                  [username |-> name, email |-> email, password |-> password,
                   role |-> "user", banned |-> FALSE]]
  BY DEF InsertUser
<1>4. ASSUME NEW u \in LiveUsers'
      PROVE  /\ u <= lastUserId'
             /\ u <= lastUserId => /\ u \in LiveUsers
                                   /\ users'[u].username = users[u].username
                                   /\ users'[u].email = users[u].email
  <2>1. CASE u = NewUserId
    BY <1>1, <2>1
  <2>2. CASE u # NewUserId
    <3>1. users'[u] = users[u] /\ u \in UserId
      BY <1>3, <2>2 DEF LiveUsers, StoreTypeOK
    <3>2. u \in LiveUsers /\ u <= lastUserId /\ u \in Nat
      BY <3>1, StoreAssumption DEF LiveUsers, IdInv, UserId
    <3>. QED BY <1>1, <3>1, <3>2
  <2>. QED BY <2>1, <2>2
<1>5. users'[NewUserId].username = name
  BY <1>2, <1>3 DEF StoreTypeOK
<1>. QED BY <1>1, <1>4, <1>5 DEF UsersStep, TiedNext

LEMMA StepUsers ==
  ASSUME TypeInv, IdInv, [Next]_vars
  PROVE  UsersStep
<1>0. StoreTypeOK /\ LocalInv
  BY DEF TypeInv
<1>1. CASE UNCHANGED vars \/ TimePasses \/ ServerCrash
  BY <1>0, <1>1, SameUsers DEF vars, TimePasses, Tick, ServerCrash, storeVars
<1>2. ASSUME NEW h \in Handlers, Arrive(h) \/ SendCodeStep(h) \/ LoginStep(h)
      PROVE  UsersStep
  BY <1>0, <1>2, SameUsers
     DEF Arrive, SendCode, Register, Login, AdminRequest, SendCodeStep, CountDay, CountMinute,
         StoreCode, SendMail, RollbackCode, LoginStep, LoginRead, LoginLog, storeVars
<1>3. ASSUME NEW h \in Handlers, RegisterStep(h)
      PROVE  UsersStep
  <2>1. CASE InsertNewUser(h)
    BY <1>0, <2>1, SameUsers, InsertUsersStep DEF InsertNewUser
  <2>2. CASE PromoteFirst(h)
    BY <1>0, <2>2, SameUsers, UpdateUsersStep DEF PromoteFirst
  <2>3. CASE \/ CheckCode(h) \/ CheckEmail(h) \/ CheckName(h) \/ RereadUser(h)
             \/ CreateFailed(h) \/ CountUsers(h) \/ MarkUsed(h) \/ IssueToken(h)
    BY <1>0, <2>3, SameUsers
       DEF CheckCode, CheckEmail, CheckName, RereadUser, CreateFailed, CountUsers, MarkUsed,
           IssueToken, storeVars
  <2>. QED BY <1>3, <2>1, <2>2, <2>3 DEF RegisterStep
<1>4. ASSUME NEW h \in Handlers, AdminStep(h)
      PROVE  UsersStep
  <2>1. CASE RequireAdmin(h) \/ ReadTarget(h) \/ WriteFails(h) \/ Notify(h)
    BY <1>0, <2>1, SameUsers DEF RequireAdmin, ReadTarget, WriteFails, Notify, storeVars
  <2>2. CASE BanTarget(h) \/ UnbanTarget(h) \/ DeleteTarget(h) \/ PromoteTarget(h)
    BY <1>0, <2>2, UpdateUsersStep
       DEF BanTarget, UnbanTarget, DeleteTarget, PromoteTarget, accountOthers
  <2>. QED BY <1>4, <2>1, <2>2 DEF AdminStep
<1>5. ASSUME NEW c \in Clis, Command(c) \/ CreateAdmin(c) \/ CliStep(c) \/ CliKill(c)
      PROVE  UsersStep
  <2>1. CASE \/ Command(c) \/ CreateAdmin(c) \/ CliKill(c) \/ CliRead(c) \/ CliEmail(c)
             \/ CliName(c) \/ CliReread(c)
    BY <1>0, <2>1, SameUsers
       DEF Command, CreateAdmin, CliKill, CliRead, CliEmail, CliName, CliReread, storeVars
  <2>2. CASE CliInsert(c)
    BY <1>0, <2>2, SameUsers, InsertUsersStep DEF CliInsert
  <2>3. CASE CliWrite(c) \/ CliPromote(c)
    BY <1>0, <2>3, SameUsers, UpdateUsersStep DEF CliWrite, CliPromote, accountOthers
  <2>. QED BY <1>5, <2>1, <2>2, <2>3 DEF CliStep
<1>. QED BY <1>1, <1>2, <1>3, <1>4, <1>5 DEF Next, HandlerStep

LEMMA TiedStays ==
  ASSUME StoreTypeOK, UsersStep, NEW uid \in UserId, NEW name, Tied(uid, name)
  PROVE  TiedNext(uid, name)
<1>1. uid \in Nat /\ lastUserId \in Nat
  BY StoreAssumption DEF UserId, StoreTypeOK
<1>. QED BY <1>1 DEF Tied, TiedNext, UsersStep

\* What a step of p owes: nothing of the others', and an id it now holds is tied.
Keeps(p) ==
  /\ \A q \in Procs \ {p} : pc'[q] = pc[q] /\ req'[q] = req[q]
  /\ pc'[p] \in AccountLabels => TiedNext(req'[p].uid, req'[p].name)

LEMMA KeepsElsewhere ==
  ASSUME LocalInv, NEW p \in Procs, NEW label \in Labels \ AccountLabels,
         pc' = [pc EXCEPT ![p] = label],
         \/ UNCHANGED req \/ \E r : req' = [req EXCEPT ![p] = r]
  PROVE  Keeps(p)
  BY DEF LocalInv, Keeps

LEMMA KeepsOn ==
  ASSUME LocalInv, StoreTypeOK, IdInv, UsersStep, NEW p \in Procs, NEW label,
         pc[p] \in AccountLabels, Goto(p, label),
         \/ UNCHANGED req
         \/ \E role \in Roles : req' = [req EXCEPT ![p].role = role]
  PROVE  Keeps(p)
<1>1. /\ req[p].uid \in UserId /\ Tied(req[p].uid, req[p].name) /\ req[p] \in ReqType
      /\ \A role \in Roles : /\ [req[p] EXCEPT !.role = role].uid = req[p].uid
                             /\ [req[p] EXCEPT !.role = role].name = req[p].name
  BY DEF LocalInv, IdInv, KnowsAt, ReqType
<1>2. req'[p].uid = req[p].uid /\ req'[p].name = req[p].name
  BY <1>1 DEF LocalInv
<1>3. TiedNext(req'[p].uid, req'[p].name)
  BY <1>1, <1>2, TiedStays
<1>4. \A q \in Procs \ {p} : pc'[q] = pc[q] /\ req'[q] = req[q]
  BY DEF LocalInv, Goto
<1>. QED BY <1>3, <1>4 DEF Keeps

LEMMA HandlerKeeps ==
  ASSUME TypeInv, IdInv, UsersStep, NEW h \in Handlers, Arrive(h) \/ HandlerStep(h)
  PROVE  Keeps(h)
<1>. USE DEF AccountLabels
<1>0. StoreTypeOK /\ LocalInv /\ h \in Procs /\ req[h] \in ReqType
  BY DEF TypeInv, LocalInv, Procs
<1>a. "idle" \in Labels \ AccountLabels
  BY DEF Labels
<1>1. CASE Arrive(h)
  <2>1. {"count_day", "check_code", "login_read", "require_admin"} \subseteq Labels
    BY DEF Labels, HandlerLabels, SendCodeLabels, RegisterLabels, LoginLabels, AdminLabels
  <2>. QED BY <1>0, <1>1, <2>1, KeepsElsewhere
           DEF Arrive, SendCode, Register, Login, AdminRequest, Begin
<1>2. CASE SendCodeStep(h)
  <2>1. SendCodeLabels \subseteq Labels
    BY DEF Labels, HandlerLabels
  <2>2. CASE CountDay(h) \/ SendMail(h) \/ RollbackCode(h)
    BY <1>0, <1>a, <2>1, <2>2, KeepsElsewhere
       DEF CountDay, SendMail, RollbackCode, Goto, Reply, SendCodeLabels
  <2>3. CASE CountMinute(h)
    BY <1>0, <1>a, <2>1, <2>3, KeepsElsewhere
       DEF CountMinute, Goto, Reply, SendCodeLabels
  <2>4. CASE StoreCode(h)
    BY <1>0, <1>a, <2>1, <2>4, KeepsElsewhere
       DEF StoreCode, Goto, Reply, SendCodeLabels
  <2>. QED BY <1>2, <2>2, <2>3, <2>4 DEF SendCodeStep
<1>3. CASE RegisterStep(h)
  <2>1. {"check_email", "check_name", "insert_user", "create_failed"} \subseteq Labels
    BY DEF Labels, HandlerLabels, RegisterLabels
  <2>2. CASE CheckCode(h)
    BY <1>0, <1>a, <2>1, <2>2, KeepsElsewhere DEF CheckCode, Goto, Reply
  <2>3. CASE CheckEmail(h) \/ CheckName(h) \/ CreateFailed(h)
    BY <1>0, <1>a, <2>1, <2>3, KeepsElsewhere
       DEF CheckEmail, CheckName, CreateFailed, Goto, Reply
  <2>4. CASE InsertNewUser(h)
    <3>1. CASE Goto(h, "create_failed") /\ UNCHANGED req
      BY <1>0, <2>1, <3>1, KeepsElsewhere DEF Goto
    <3>2. CASE /\ InsertUser(req[h].name, req[h].email, req[h].password)
               /\ Goto(h, "reread_user")
               /\ req' = [req EXCEPT ![h].uid = NewUserId]
      <4>1. TiedNext(NewUserId, req[h].name)
        BY <1>0, <3>2, InsertUsersStep
      <4>2. req'[h].uid = NewUserId /\ req'[h].name = req[h].name
        BY <1>0, <3>2 DEF LocalInv, ReqType
      <4>. QED BY <1>0, <3>2, <4>1, <4>2 DEF Keeps, Goto, LocalInv
    <3>. QED BY <2>4, <3>1, <3>2 DEF InsertNewUser
  <2>5. CASE RereadUser(h)
    <3>1. CASE Goto(h, "create_failed") /\ UNCHANGED req
      BY <1>0, <2>1, <3>1, KeepsElsewhere DEF Goto
    <3>2. CASE /\ users[req[h].uid] # Nil
               /\ Goto(h, "count_users")
               /\ req' = [req EXCEPT ![h].role = users[req[h].uid].role]
      <4>1. users[req[h].uid].role \in Roles
        BY <1>0, <2>5, <3>2 DEF RereadUser, LocalInv, KnowsAt, StoreTypeOK, UserRow
      <4>. QED BY <1>0, <2>5, <3>2, <4>1, KeepsOn DEF RereadUser
    <3>. QED BY <2>5, <3>1, <3>2 DEF RereadUser
  <2>6. CASE CountUsers(h) \/ PromoteFirst(h) \/ MarkUsed(h)
    <3>1. "admin" \in Roles
      BY DEF Roles
    <3>. QED BY <1>0, <2>6, <3>1, KeepsOn DEF CountUsers, PromoteFirst, MarkUsed
  <2>7. CASE IssueToken(h)
    BY <1>0, <1>a, <2>7, KeepsElsewhere DEF IssueToken, Reply
  <2>. QED BY <1>3, <2>2, <2>3, <2>4, <2>5, <2>6, <2>7 DEF RegisterStep
<1>4. CASE LoginStep(h)
  <2>1. CASE LoginRead(h)
    <3>1. CASE Reply(h)
      BY <1>0, <1>a, <3>1, KeepsElsewhere DEF Reply
    <3>2. ASSUME NEW u \in UsersByEmail(req[h].email), Goto(h, "login_log"),
                 req' = [req EXCEPT ![h].uid = u, ![h].name = users[u].username,
                                    ![h].role = users[u].role]
          PROVE  Keeps(h)
      <4>1. u \in UserId /\ Tied(u, users[u].username)
        BY DEF UsersByEmail, LiveUsers, IdInv, Tied
      <4>2. TiedNext(u, users[u].username)
        BY <1>0, <4>1, TiedStays
      <4>3. req'[h].uid = u /\ req'[h].name = users[u].username
        BY <1>0, <3>2 DEF LocalInv, ReqType
      <4>. QED BY <1>0, <3>2, <4>2, <4>3 DEF Keeps, Goto, LocalInv
    <3>. QED BY <2>1, <3>1, <3>2 DEF LoginRead
  <2>2. CASE LoginLog(h)
    BY <1>0, <2>2, KeepsOn DEF LoginLog
  <2>. QED BY <1>4, <2>1, <2>2 DEF LoginStep
<1>5. CASE AdminStep(h)
  <2>1. {"read_target", "write_target", "notify"} \subseteq Labels
    BY DEF Labels, HandlerLabels, AdminLabels
  <2>2. CASE RequireAdmin(h) \/ ReadTarget(h) \/ WriteFails(h) \/ Notify(h)
    BY <1>0, <1>a, <2>1, <2>2, KeepsElsewhere
       DEF RequireAdmin, ReadTarget, WriteFails, Notify, Goto, Reply
  <2>3. CASE BanTarget(h) \/ UnbanTarget(h) \/ DeleteTarget(h) \/ PromoteTarget(h)
    BY <1>0, <1>a, <2>1, <2>3, KeepsElsewhere
       DEF BanTarget, UnbanTarget, DeleteTarget, PromoteTarget, Goto, Reply
  <2>. QED BY <1>5, <2>2, <2>3 DEF AdminStep
<1>. QED BY <1>1, <1>2, <1>3, <1>4, <1>5 DEF HandlerStep

LEMMA CliKeeps ==
  ASSUME TypeInv, NEW c \in Clis, Command(c) \/ CreateAdmin(c) \/ CliStep(c) \/ CliKill(c)
  PROVE  Keeps(c)
<1>0. LocalInv /\ c \in Procs /\ {"idle"} \cup CliLabels \subseteq Labels \ AccountLabels
  BY DEF TypeInv, Procs, Labels, CliLabels, AccountLabels
<1>. USE DEF CliLabels
<1>1. CASE Command(c) \/ CreateAdmin(c)
  BY <1>0, <1>1, KeepsElsewhere DEF Command, CreateAdmin, Begin
<1>2. CASE CliKill(c) \/ CliRead(c) \/ CliWrite(c)
  BY <1>0, <1>2, KeepsElsewhere DEF CliKill, CliRead, CliWrite, Goto, Reply
<1>3. CASE CliEmail(c) \/ CliName(c) \/ CliReread(c) \/ CliPromote(c)
  BY <1>0, <1>3, KeepsElsewhere DEF CliEmail, CliName, CliReread, CliPromote, Goto, Reply
<1>4. CASE CliInsert(c)
  BY <1>0, <1>4, KeepsElsewhere DEF CliInsert, Goto, Reply
<1>. QED BY <1>1, <1>2, <1>3, <1>4 DEF CliStep

\* The only steps that hand an id on, and the one that makes a founder.
LEMMA HandedOn ==
  ASSUME TypeInv, [Next]_vars
  PROVE  \/ UNCHANGED <<tokens, loginLogs, founders>>
         \/ \E h \in Handlers :
              /\ pc[h] \in AccountLabels
              /\ tokens' = tokens \/ tokens' = tokens \cup
                   {[uid |-> req[h].uid, name |-> req[h].name, role |-> req[h].role]}
              /\ loginLogs' = loginLogs \/ loginLogs' = loginLogs \cup
                   {[uid |-> req[h].uid, name |-> req[h].name]}
              /\ founders' = founders \/ (pc[h] = "promote_first" /\ founders' = founders \cup {req[h].uid})
<1>1. CASE UNCHANGED vars \/ TimePasses \/ ServerCrash
  BY <1>1 DEF vars, TimePasses, Tick, ServerCrash, storeVars, history
<1>2. ASSUME NEW h \in Handlers, Arrive(h) \/ SendCodeStep(h)
      PROVE  UNCHANGED <<tokens, loginLogs, founders>>
  BY <1>2
     DEF Arrive, SendCode, Register, Login, AdminRequest, SendCodeStep, CountDay, CountMinute,
         StoreCode, SendMail, RollbackCode, storeVars, history
<1>3. ASSUME NEW h \in Handlers,
             \/ CheckCode(h) \/ CheckEmail(h) \/ CheckName(h) \/ InsertNewUser(h)
             \/ RereadUser(h) \/ CreateFailed(h) \/ CountUsers(h) \/ MarkUsed(h) \/ LoginRead(h)
      PROVE  UNCHANGED <<tokens, loginLogs, founders>>
  BY <1>3
     DEF CheckCode, CheckEmail, CheckName, InsertNewUser, RereadUser, CreateFailed, CountUsers,
         MarkUsed, LoginRead, storeVars, history
<1>4. ASSUME NEW h \in Handlers, PromoteFirst(h) \/ IssueToken(h) \/ LoginLog(h)
      PROVE  /\ pc[h] \in AccountLabels
             /\ tokens' = tokens \/ tokens' = tokens \cup
                  {[uid |-> req[h].uid, name |-> req[h].name, role |-> req[h].role]}
             /\ loginLogs' = loginLogs \/ loginLogs' = loginLogs \cup
                  {[uid |-> req[h].uid, name |-> req[h].name]}
             /\ founders' = founders \/ (pc[h] = "promote_first" /\ founders' = founders \cup {req[h].uid})
  BY <1>4
     DEF PromoteFirst, IssueToken, LoginLog, CreateLoginLog, AccountLabels, storeVars, history
<1>5. ASSUME NEW h \in Handlers, AdminStep(h)
      PROVE  UNCHANGED <<tokens, loginLogs, founders>>
  BY <1>5
     DEF AdminStep, RequireAdmin, ReadTarget, BanTarget, UnbanTarget, DeleteTarget,
         PromoteTarget, WriteFails, Notify, accountOthers, storeVars, history
<1>6. ASSUME NEW c \in Clis, Command(c) \/ CreateAdmin(c) \/ CliStep(c) \/ CliKill(c)
      PROVE  UNCHANGED <<tokens, loginLogs, founders>>
  BY <1>6
     DEF Command, CreateAdmin, CliStep, CliRead, CliWrite, CliEmail, CliName, CliInsert,
         CliReread, CliPromote, CliKill, accountOthers, storeVars, history
<1>. QED BY <1>1, <1>2, <1>3, <1>4, <1>5, <1>6 DEF Next, HandlerStep, RegisterStep, LoginStep

LEMMA StepIdInv ==
  ASSUME TypeInv, IdInv, [Next]_vars
  PROVE  IdInv'
<1>0. StoreTypeOK /\ LocalInv /\ LogInv /\ UsersStep
  BY StepUsers DEF TypeInv
<1>1. ASSUME NEW p \in Procs, pc'[p] \in AccountLabels
      PROVE  TiedNext(req'[p].uid, req'[p].name)
  <2>1. ASSUME pc'[p] = pc[p], req'[p] = req[p]
        PROVE  TiedNext(req'[p].uid, req'[p].name)
    <3>1. Tied(req[p].uid, req[p].name) /\ req[p].uid \in UserId
      BY <1>0, <1>1, <2>1 DEF IdInv, LocalInv, KnowsAt
    <3>. QED BY <1>0, <2>1, <3>1, TiedStays
  <2>2. CASE \E q \in Procs : Keeps(q)
    BY <1>1, <2>1, <2>2 DEF Keeps
  <2>3. CASE UNCHANGED vars \/ TimePasses
    BY <2>1, <2>3 DEF vars, TimePasses
  <2>4. CASE ServerCrash
    <3>1. "idle" \notin AccountLabels
      BY DEF AccountLabels
    <3>. QED BY <1>1, <2>1, <2>4, <3>1 DEF ServerCrash
  <2>. QED BY <1>0, <2>2, <2>3, <2>4, HandlerKeeps, CliKeeps DEF Next, Procs
<1>2. ASSUME NEW h \in Handlers, pc[h] \in AccountLabels
      PROVE  TiedNext(req[h].uid, req[h].name) /\ req[h].uid \in UserId
    <2>1. Tied(req[h].uid, req[h].name) /\ req[h].uid \in UserId
      BY <1>0, <1>2 DEF IdInv, LocalInv, KnowsAt, Procs
    <2>. QED BY <1>0, <2>1, TiedStays
<1>3. ASSUME NEW t \in tokens' \cup loginLogs' PROVE TiedNext(t.uid, t.name)
  <2>1. CASE t \in tokens \cup loginLogs
    <3>1. t.uid \in UserId /\ Tied(t.uid, t.name)
      BY <1>0, <2>1 DEF IdInv, LogInv, StoreTypeOK, Token, LoginRow
    <3>. QED BY <1>0, <3>1, TiedStays
  <2>2. CASE \E h \in Handlers : /\ pc[h] \in AccountLabels
                                 /\ t.uid = req[h].uid /\ t.name = req[h].name
    BY <1>2, <2>2
  <2>3. t \in tokens \cup loginLogs \/
        \E h \in Handlers : /\ pc[h] \in AccountLabels
                            /\ t.uid = req[h].uid /\ t.name = req[h].name
    BY <1>3, HandedOn
  <2>. QED BY <2>1, <2>2, <2>3
<1>4. ASSUME NEW u \in LiveUsers' \cup founders' PROVE u <= lastUserId'
  <2>1. CASE u \in LiveUsers'
    BY <1>0, <2>1 DEF UsersStep
  <2>2. CASE u \in founders
    <3>1. u \in Nat /\ lastUserId \in Nat /\ u <= lastUserId
      BY <1>0, <2>2, StoreAssumption DEF IdInv, LogInv, UserId, StoreTypeOK
    <3>. QED BY <1>0, <3>1 DEF UsersStep
  <2>3. CASE \E h \in Handlers : pc[h] = "promote_first" /\ u = req[h].uid
    BY <1>2, <2>3 DEF AccountLabels, TiedNext
  <2>. QED BY <1>4, <2>1, <2>2, <2>3, HandedOn
<1>. QED BY <1>1, <1>3, <1>4 DEF IdInv, Tied, TiedNext

LEMMA InitIdInv == Init => IdInv
  BY DEF Init, StoreInit, RequestsInit, IdInv, LiveUsers, AccountLabels

\* No token and no line of the login history ever comes to name the account of
\* somebody else, for any number of requests, commands, deletions and crashes:
\* what getUserFromRequest and requireAdmin rest on when they look up the id a
\* week-old token claims. (store.go users AUTOINCREMENT)
THEOREM IdentityStableHolds == Spec => []IdentityStable
<1>1. Init => TypeInv /\ IdInv
  BY TypeInit, InitIdInv
<1>2. TypeInv /\ IdInv /\ [Next]_vars => (TypeInv /\ IdInv)'
  BY StepIdInv, TypeStep
<1>3. TypeInv /\ IdInv => IdentityStable
  BY DEF IdInv, Tied, IdentityStable
<1>. QED BY <1>1, <1>2, <1>3, PTL DEF Spec

-----------------------------------------------------------------------------
(***************************************************************************)
(* The first-account rule.  An account claims to be the first when it was  *)
(* promoted for it or its request is about to promote it; a claim is only  *)
(* made when the table holds that one account, or none but a stranger's,   *)
(* and an id whose row is gone never has one again.                        *)
(***************************************************************************)

Claims(u) ==
  u \in founders \/ \E p \in Procs : pc[p] = "promote_first" /\ req[p].uid = u

FounderInv == \A u, v \in LiveUsers : Claims(u) /\ Claims(v) => u = v

\* No request goes to the label in this step.
NoneEnters(label) ==
  \A p \in Procs : pc'[p] = label => pc[p] = label /\ req'[p] = req[p]

NoNewClaim == NoneEnters("promote_first")
NoNewCount == NoneEnters("store_code")

LEMMA MoveEntersNeither ==
  ASSUME LocalInv, NEW p \in Procs, NEW label, label \notin {"promote_first", "store_code"},
         pc' = [pc EXCEPT ![p] = label],
         \/ UNCHANGED req \/ \E r : req' = [req EXCEPT ![p] = r]
  PROVE  NoNewClaim /\ NoNewCount
  BY DEF LocalInv, NoNewClaim, NoNewCount, NoneEnters

LEMMA OneUser ==
  ASSUME StoreTypeOK, Cardinality(LiveUsers) = 1
  PROVE  \A u, v \in LiveUsers : u = v
<1>1. IsFiniteSet(UserId)
  BY StoreAssumption, FS_Interval DEF UserId
<1>2. IsFiniteSet(LiveUsers)
  BY <1>1, FS_Subset DEF LiveUsers
<1>. QED BY <1>2, FS_Singleton

\* The count of the accounts and the 60-second count are the only ways there.
LEMMA Entering ==
  ASSUME TypeInv, [Next]_vars
  PROVE  /\ NoNewClaim \/ \E h \in Handlers : CountUsers(h)
         /\ NoNewCount \/ \E h \in Handlers : CountMinute(h)
<1>0. StoreTypeOK /\ LocalInv /\ \A h \in Handlers : h \in Procs
  BY DEF TypeInv, Procs
<1>1. CASE UNCHANGED vars \/ TimePasses \/ ServerCrash
  BY <1>0, <1>1 DEF vars, TimePasses, ServerCrash, NoNewClaim, NoNewCount, NoneEnters
<1>2. ASSUME NEW h \in Handlers, Arrive(h) PROVE NoNewClaim /\ NoNewCount
  BY <1>0, <1>2, MoveEntersNeither
     DEF Arrive, SendCode, Register, Login, AdminRequest, Begin
<1>3. ASSUME NEW h \in Handlers, SendCodeStep(h)
      PROVE  NoNewClaim /\ (NoNewCount \/ CountMinute(h))
  <2>0. CASE CountDay(h)
    BY <1>0, <2>0, MoveEntersNeither DEF CountDay, Goto, Reply
  <2>1. CASE CountMinute(h)
    <3>1. NoNewClaim
      BY <1>0, <2>1 DEF CountMinute, Goto, Reply, NoNewClaim, NoneEnters, LocalInv
    <3>. QED BY <2>1, <3>1
  <2>2. CASE StoreCode(h)
    <3>1. ASSUME NEW code, Goto(h, "send_mail"),
                 req' = [req EXCEPT ![h].code = code, ![h].codeId = lastCodeId + 1,
                                    ![h].expires = now + CodeTTL]
          PROVE  NoNewClaim /\ NoNewCount
      <4>1. pc' = [pc EXCEPT ![h] = "send_mail"]
        BY <3>1 DEF Goto
      <4>2. \E r : req' = [req EXCEPT ![h] = r]
        BY <3>1
      <4>. QED BY <1>0, <4>1, <4>2, MoveEntersNeither
    <3>2. CASE Reply(h)
      BY <1>0, <3>2, MoveEntersNeither DEF Reply
    <3>. QED BY <2>2, <3>1, <3>2 DEF StoreCode
  <2>3. CASE SendMail(h) \/ RollbackCode(h)
    BY <1>0, <2>3, MoveEntersNeither DEF SendMail, RollbackCode, Goto, Reply
  <2>. QED BY <1>3, <2>0, <2>1, <2>2, <2>3 DEF SendCodeStep
<1>4. ASSUME NEW h \in Handlers, LoginStep(h) PROVE NoNewClaim /\ NoNewCount
  <2>1. CASE LoginRead(h)
    BY <1>0, <2>1, MoveEntersNeither DEF LoginRead, Goto, Reply
  <2>2. CASE LoginLog(h)
    BY <1>0, <2>2, MoveEntersNeither DEF LoginLog, Goto
  <2>. QED BY <1>4, <2>1, <2>2 DEF LoginStep
<1>5. ASSUME NEW h \in Handlers, RegisterStep(h)
      PROVE  (NoNewClaim \/ CountUsers(h)) /\ NoNewCount
  <2>1. CASE CheckCode(h) \/ CheckEmail(h) \/ CheckName(h) \/ InsertNewUser(h)
    BY <1>0, <2>1, MoveEntersNeither
       DEF CheckCode, CheckEmail, CheckName, InsertNewUser, Goto, Reply
  <2>2. CASE RereadUser(h) \/ CreateFailed(h) \/ PromoteFirst(h) \/ MarkUsed(h) \/ IssueToken(h)
    BY <1>0, <2>2, MoveEntersNeither
       DEF RereadUser, CreateFailed, PromoteFirst, MarkUsed, IssueToken, Goto, Reply
  <2>3. CASE CountUsers(h)
    <3>1. NoNewCount
      BY <1>0, <2>3 DEF CountUsers, Goto, NoNewCount, NoneEnters, LocalInv
    <3>. QED BY <2>3, <3>1
  <2>. QED BY <1>5, <2>1, <2>2, <2>3 DEF RegisterStep
<1>6. ASSUME NEW h \in Handlers, AdminStep(h) PROVE NoNewClaim /\ NoNewCount
  BY <1>0, <1>6, MoveEntersNeither
     DEF AdminStep, RequireAdmin, ReadTarget, BanTarget, UnbanTarget, DeleteTarget,
         PromoteTarget, WriteFails, Notify, Goto, Reply
<1>7. ASSUME NEW c \in Clis, Command(c) \/ CreateAdmin(c) \/ CliStep(c) \/ CliKill(c)
      PROVE  NoNewClaim /\ NoNewCount
  <2>0. c \in Procs
    BY DEF Procs
  <2>1. CASE Command(c) \/ CreateAdmin(c) \/ CliKill(c)
    BY <1>0, <2>0, <2>1, MoveEntersNeither DEF Command, CreateAdmin, CliKill, Begin
  <2>2. CASE CliRead(c) \/ CliWrite(c) \/ CliEmail(c) \/ CliName(c)
    BY <1>0, <2>0, <2>2, MoveEntersNeither DEF CliRead, CliWrite, CliEmail, CliName, Goto, Reply
  <2>3. CASE CliInsert(c) \/ CliReread(c) \/ CliPromote(c)
    BY <1>0, <2>0, <2>3, MoveEntersNeither DEF CliInsert, CliReread, CliPromote, Goto, Reply
  <2>. QED BY <1>7, <2>1, <2>2, <2>3 DEF CliStep
<1>. QED BY <1>1, <1>2, <1>3, <1>4, <1>5, <1>6, <1>7 DEF Next, HandlerStep

LEMMA StepFounderInv ==
  ASSUME TypeInv, IdInv, FounderInv, [Next]_vars
  PROVE  FounderInv'
<1>0. StoreTypeOK /\ LocalInv /\ LogInv /\ UsersStep
  BY StepUsers DEF TypeInv
<1>1. ASSUME NEW h \in Handlers, CountUsers(h), ~NoNewClaim PROVE FounderInv'
  <2>1. Cardinality(LiveUsers) = 1
    BY <1>0, <1>1, MoveEntersNeither DEF CountUsers, Goto, Procs
  <2>2. \A u, v \in LiveUsers : u = v
    BY <1>0, <2>1, OneUser
  <2>. QED BY <1>1, <2>2 DEF CountUsers, FounderInv, LiveUsers, storeVars
<1>2. CASE NoNewClaim
  <2>1. ASSUME NEW u \in LiveUsers', Claims(u)' PROVE u \in LiveUsers /\ Claims(u)
    <3>1. Claims(u)
      <4>1. CASE u \in founders'
        BY <4>1, HandedOn DEF Claims, Procs
      <4>2. CASE \E p \in Procs : pc'[p] = "promote_first" /\ req'[p].uid = u
        BY <1>2, <4>2 DEF Claims, NoNewClaim, NoneEnters
      <4>. QED BY <2>1, <4>1, <4>2 DEF Claims
    <3>2. u <= lastUserId
      BY <1>0, <3>1 DEF Claims, IdInv, Tied, AccountLabels
    <3>. QED BY <1>0, <3>1, <3>2 DEF UsersStep
  <2>. QED BY <2>1 DEF FounderInv
<1>. QED BY <1>1, <1>2, Entering

\* At most one account in the table was ever made an admin for being the first,
\* for any number of registrations racing through ListUsers and UpdateUserRole
\* with deletions, commands, crashes and failed statements. (auth.go Register)
THEOREM FounderUniqueHolds == Spec => []FounderUnique
<1>1. Init => TypeInv /\ IdInv /\ FounderInv
  <2>1. Init => FounderInv
    BY DEF Init, StoreInit, FounderInv, LiveUsers
  <2>. QED BY <2>1, TypeInit, InitIdInv
<1>2. TypeInv /\ IdInv /\ FounderInv /\ [Next]_vars => (TypeInv /\ IdInv /\ FounderInv)'
  BY TypeStep, StepIdInv, StepFounderInv
<1>3. TypeInv /\ FounderInv => FounderUnique
  BY DEF TypeInv, LogInv, FounderInv, Claims, FounderUnique
<1>. QED BY <1>1, <1>2, <1>3, PTL DEF Spec

-----------------------------------------------------------------------------
(***************************************************************************)
(* The 60-second limit.  A request at store_code has seen that every code  *)
(* of its address that was there when it counted is old enough; ages only  *)
(* grow and rowids are not given twice, so that is still so when it writes *)
(* its own.  It says nothing of codes stored after the count: those are    *)
(* the overlap the limit does not cover.                                   *)
(***************************************************************************)

OldEnough(c) == emailCodes[c].created + ShortWindow <= now

CodeInv ==
  /\ \A c \in LiveCodes : c <= lastCodeId /\ seen[c] <= lastCodeId
  /\ \A p \in Procs : pc[p] = "store_code" =>
       /\ req[p].seen <= lastCodeId
       /\ \A c \in LiveCodes :
            c <= req[p].seen /\ emailCodes[c].email = req[p].email => OldEnough(c)

SpacingInv == CodeInv /\ SpacedUnlessOverlapping

\* A step that stores no code: rows go or stay, and time does not run back.
CodesKept ==
  /\ lastCodeId' = lastCodeId /\ now' \in Nat /\ now <= now' /\ seen' = seen
  /\ \A c \in LiveCodes' :
       /\ c \in LiveCodes
       /\ emailCodes'[c].email = emailCodes[c].email
       /\ emailCodes'[c].created = emailCodes[c].created

LEMMA SameCodes ==
  ASSUME StoreTypeOK, UNCHANGED <<emailCodes, lastCodeId, now, seen>>
  PROVE  CodesKept
  BY StoreAssumption DEF CodesKept, LiveCodes, StoreTypeOK

LEMMA FewerCodes ==
  ASSUME StoreTypeOK, UNCHANGED <<lastCodeId, now, seen>>, NEW email, NEW code, NEW id,
         DeleteEmailCode(email, code) \/ MarkEmailCodeUsed(id)
  PROVE  CodesKept
<1>1. ASSUME NEW c \in LiveCodes'
      PROVE  /\ c \in LiveCodes
             /\ emailCodes'[c].email = emailCodes[c].email
             /\ emailCodes'[c].created = emailCodes[c].created
  <2>1. c \in CodeId /\ emailCodes'[c] # Nil
    BY DEF LiveCodes
  <2>2. CASE DeleteEmailCode(email, code)
    BY <2>1, <2>2 DEF DeleteEmailCode, LiveCodes
  <2>3. CASE MarkEmailCodeUsed(id)
    <3>1. emailCodes[c] # Nil
      BY <2>1, <2>3 DEF MarkEmailCodeUsed, StoreTypeOK
    <3>2. emailCodes[c] \in CodeRow
      BY <2>1, <3>1 DEF StoreTypeOK
    <3>3. /\ [emailCodes[c] EXCEPT !.used = TRUE].email = emailCodes[c].email
          /\ [emailCodes[c] EXCEPT !.used = TRUE].created = emailCodes[c].created
      BY <3>2 DEF CodeRow
    <3>4. emailCodes'[c] = emailCodes[c] \/ emailCodes'[c] = [emailCodes[c] EXCEPT !.used = TRUE]
      BY <2>1, <2>3, <3>1 DEF MarkEmailCodeUsed, StoreTypeOK
    <3>. QED BY <2>1, <3>1, <3>3, <3>4 DEF LiveCodes
  <2>. QED BY <2>2, <2>3
<1>. QED BY <1>1, StoreAssumption DEF CodesKept, StoreTypeOK

LEMMA StepCodes ==
  ASSUME TypeInv, [Next]_vars
  PROVE  CodesKept \/ \E h \in Handlers : StoreCode(h)
<1>0. StoreTypeOK
  BY DEF TypeInv
<1>1. CASE UNCHANGED vars \/ ServerCrash
  BY <1>0, <1>1, SameCodes DEF vars, ServerCrash, storeVars, history
<1>2. CASE TimePasses
  BY <1>0, <1>2, StoreAssumption
     DEF TimePasses, Tick, CodesKept, LiveCodes, StoreTypeOK, storeVars, history
<1>3. ASSUME NEW h \in Handlers, Arrive(h) PROVE CodesKept
  BY <1>0, <1>3, SameCodes
     DEF Arrive, SendCode, Register, Login, AdminRequest, storeVars, history
<1>4. ASSUME NEW h \in Handlers, SendCodeStep(h), ~StoreCode(h) PROVE CodesKept
  <2>1. CASE CountDay(h) \/ CountMinute(h) \/ SendMail(h)
    BY <1>0, <2>1, SameCodes DEF CountDay, CountMinute, SendMail, storeVars, history
  <2>2. CASE RollbackCode(h)
    BY <1>0, <2>2, SameCodes, FewerCodes DEF RollbackCode, history
  <2>. QED BY <1>4, <2>1, <2>2 DEF SendCodeStep
<1>5. ASSUME NEW h \in Handlers, RegisterStep(h) PROVE CodesKept
  <2>1. CASE MarkUsed(h)
    BY <1>0, <2>1, SameCodes, FewerCodes DEF MarkUsed, history
  <2>2. CASE \/ CheckCode(h) \/ CheckEmail(h) \/ CheckName(h) \/ InsertNewUser(h)
             \/ RereadUser(h) \/ CreateFailed(h) \/ CountUsers(h) \/ PromoteFirst(h)
             \/ IssueToken(h)
    BY <1>0, <2>2, SameCodes
       DEF CheckCode, CheckEmail, CheckName, InsertNewUser, RereadUser, CreateFailed,
           CountUsers, PromoteFirst, IssueToken, storeVars, history
  <2>. QED BY <1>5, <2>1, <2>2 DEF RegisterStep
<1>6. ASSUME NEW h \in Handlers, LoginStep(h) PROVE CodesKept
  BY <1>0, <1>6, SameCodes DEF LoginStep, LoginRead, LoginLog, storeVars, history
<1>7. ASSUME NEW h \in Handlers, AdminStep(h) PROVE CodesKept
  BY <1>0, <1>7, SameCodes
     DEF AdminStep, RequireAdmin, ReadTarget, BanTarget, UnbanTarget, DeleteTarget,
         PromoteTarget, WriteFails, Notify, accountOthers, storeVars, history
<1>8. ASSUME NEW c \in Clis, Command(c) \/ CreateAdmin(c) \/ CliStep(c) \/ CliKill(c)
      PROVE  CodesKept
  BY <1>0, <1>8, SameCodes
     DEF Command, CreateAdmin, CliStep, CliRead, CliWrite, CliEmail, CliName, CliInsert,
         CliReread, CliPromote, CliKill, accountOthers, storeVars, history
<1>. QED BY <1>1, <1>2, <1>3, <1>4, <1>5, <1>6, <1>7, <1>8 DEF Next, HandlerStep

\* With the clock of the process not ahead of UTC, a count of 0 means what it says.
LEMMA NoneRecent ==
  ASSUME StoreTypeOK, ZoneOffset <= 0, NEW email,
         CountRecentEmailCodes(email, ShortWindow) < 1
  PROVE  \A c \in LiveCodes : emailCodes[c].email = email => OldEnough(c)
<1> DEFINE R == RecentEmailCodes(email, ShortWindow)
<1>1. IsFiniteSet(CodeId) /\ R \in SUBSET CodeId
  BY StoreAssumption, FS_Interval DEF CodeId, RecentEmailCodes, LiveCodes
<1>2. IsFiniteSet(R)
  BY <1>1, FS_Subset
<1>3. Cardinality(R) \in Nat /\ Cardinality(R) < 1
  BY <1>2, FS_CardinalityType DEF CountRecentEmailCodes
<1>4. R = {}
  BY <1>2, <1>3, FS_EmptySet
<1>5. ASSUME NEW c \in LiveCodes, emailCodes[c].email = email PROVE OldEnough(c)
  <2>1. emailCodes[c].created \in Nat /\ now \in Nat
    BY StoreAssumption DEF LiveCodes, StoreTypeOK, CodeRow
  <2>2. ~(emailCodes[c].created > (now + ZoneOffset) - ShortWindow)
    BY <1>4, <1>5 DEF RecentEmailCodes
  <2>. QED BY <2>1, <2>2, StoreAssumption, AuthAssumption DEF OldEnough
<1>. QED BY <1>5


LEMMA KeptSpacing ==
  ASSUME StoreTypeOK, LocalInv, SpacingInv, CodesKept, NoNewCount
  PROVE  SpacingInv'
<1>0. now \in Nat /\ \A c \in LiveCodes : emailCodes[c].created \in Nat
  BY StoreAssumption DEF StoreTypeOK, LiveCodes, CodeRow
<1>1. ASSUME NEW c \in LiveCodes' PROVE c <= lastCodeId' /\ seen'[c] <= lastCodeId'
  BY <1>1 DEF CodesKept, SpacingInv, CodeInv
<1>2. ASSUME NEW p \in Procs, pc'[p] = "store_code"
      PROVE  /\ req'[p].seen <= lastCodeId'
             /\ \A c \in LiveCodes' :
                  c <= req'[p].seen /\ emailCodes'[c].email = req'[p].email => OldEnough(c)'
  <2>1. pc[p] = "store_code" /\ req'[p] = req[p]
    BY <1>2 DEF NoNewCount, NoneEnters
  <2>2. ASSUME NEW c \in LiveCodes', c <= req'[p].seen, emailCodes'[c].email = req'[p].email
        PROVE  OldEnough(c)'
    <3>1. OldEnough(c) /\ c \in LiveCodes
      BY <2>1, <2>2 DEF CodesKept, SpacingInv, CodeInv
    <3>2. emailCodes'[c].created = emailCodes[c].created
      BY <2>2 DEF CodesKept
    <3>. QED BY <1>0, <3>1, <3>2, AuthAssumption DEF OldEnough, CodesKept
  <2>. QED BY <2>1, <2>2 DEF SpacingInv, CodeInv, CodesKept
<1>3. SpacedUnlessOverlapping'
  BY DEF SpacingInv, SpacedUnlessOverlapping, OneAddress, CodesKept
<1>. QED BY <1>1, <1>2, <1>3 DEF SpacingInv, CodeInv

LEMMA CountSpacing ==
  ASSUME TypeInv, ZoneOffset <= 0, SpacingInv, NEW h \in Handlers, CountMinute(h), ~NoNewCount
  PROVE  SpacingInv'
<1>0. StoreTypeOK /\ LocalInv /\ h \in Procs
  BY DEF TypeInv, Procs
<1>1. UNCHANGED <<emailCodes, lastCodeId, now, seen>>
  BY DEF CountMinute, storeVars, history
<1>2. /\ CountRecentEmailCodes(req[h].email, ShortWindow) < 1
      /\ req' = [req EXCEPT ![h].seen = lastCodeId]
      /\ pc' = [pc EXCEPT ![h] = "store_code"]
  <2>1. CASE Reply(h)
    BY <1>0, <2>1, MoveEntersNeither DEF Reply
  <2>. QED BY <2>1 DEF CountMinute, Goto
<1>3. \A c \in LiveCodes : emailCodes[c].email = req[h].email => OldEnough(c)
  BY <1>0, <1>2, NoneRecent
<1>4. req[h] \in ReqType /\ req'[h].seen = lastCodeId /\ req'[h].email = req[h].email
  BY <1>0, <1>2 DEF LocalInv, ReqType
<1>5. lastCodeId <= lastCodeId
  BY <1>0, StoreAssumption DEF StoreTypeOK
<1>6. \A p \in Procs : pc'[p] = "store_code" /\ p # h => pc[p] = "store_code" /\ req'[p] = req[p]
  BY <1>0, <1>2 DEF LocalInv
<1>7. LiveCodes' = LiveCodes /\ \A c \in LiveCodes : OldEnough(c)' <=> OldEnough(c)
  BY <1>1 DEF LiveCodes, OldEnough
<1>8. CodeInv'
  <2>1. ASSUME NEW p \in Procs, pc'[p] = "store_code"
        PROVE  /\ req'[p].seen <= lastCodeId'
               /\ \A c \in LiveCodes' :
                    c <= req'[p].seen /\ emailCodes'[c].email = req'[p].email => OldEnough(c)'
    <3>1. CASE p = h
      BY <1>1, <1>3, <1>4, <1>5, <1>7, <3>1
    <3>2. CASE p # h
      BY <1>1, <1>6, <1>7, <2>1, <3>2 DEF SpacingInv, CodeInv
    <3>. QED BY <3>1, <3>2
  <2>2. \A c \in LiveCodes' : c <= lastCodeId' /\ seen'[c] <= lastCodeId'
    BY <1>1, <1>7 DEF SpacingInv, CodeInv
  <2>. QED BY <2>1, <2>2 DEF CodeInv
<1>9. SpacedUnlessOverlapping'
  BY <1>1, <1>7 DEF SpacingInv, SpacedUnlessOverlapping, OneAddress
<1>. QED BY <1>8, <1>9 DEF SpacingInv

LEMMA StoreSpacing ==
  ASSUME TypeInv, SpacingInv, NEW h \in Handlers, StoreCode(h)
  PROVE  SpacingInv'
<1>0. StoreTypeOK /\ LocalInv /\ LogInv /\ h \in Procs
  BY DEF TypeInv, Procs
<1>1. CASE Reply(h) /\ UNCHANGED <<emailCodes, lastCodeId, seen>>
  <2>1. NoNewCount
    BY <1>0, <1>1, MoveEntersNeither DEF Reply
  <2>2. CodesKept
    BY <1>0, <1>1, SameCodes DEF StoreCode
  <2>. QED BY <1>0, <2>1, <2>2, KeptSpacing
<1> DEFINE new == lastCodeId + 1
<1>2. ASSUME NEW code \in GenerateCode, Goto(h, "send_mail"), CreateEmailCode(req[h].email, code),
             req' = [req EXCEPT ![h].code = code, ![h].codeId = lastCodeId + 1,
                                ![h].expires = now + CodeTTL],
             seen' = [seen EXCEPT ![lastCodeId + 1] = req[h].seen]
      PROVE  SpacingInv'
  <2>1. /\ lastCodeId \in Nat /\ new \in CodeId /\ lastCodeId' = new /\ now' = now /\ now \in Nat
        /\ req[h].seen \in Nat /\ \A c \in CodeId : seen[c] \in Nat
    <3>1. lastCodeId \in Nat /\ now \in Nat /\ lastCodeId < MaxCodes /\ lastCodeId' = new
      BY <1>0, <1>2, StoreAssumption DEF CreateEmailCode, StoreTypeOK
    <3>2. new \in CodeId
      BY <3>1, StoreAssumption DEF CodeId
    <3>3. now' = now
      BY DEF StoreCode
    <3>4. req[h].seen \in Nat /\ \A c \in CodeId : seen[c] \in Nat
      BY <1>0, StoreAssumption DEF LocalInv, ReqType, LogInv
    <3>. QED BY <3>1, <3>2, <3>3, <3>4
  <2>2. \A c \in CodeId \ {new} : emailCodes'[c] = emailCodes[c] /\ seen'[c] = seen[c]
    BY <1>0, <1>2, <2>1 DEF CreateEmailCode, StoreTypeOK, LogInv
  <2>3. /\ emailCodes'[new].email = req[h].email /\ emailCodes'[new].created = now
        /\ seen'[new] = req[h].seen
    BY <1>0, <1>2, <2>1 DEF CreateEmailCode, StoreTypeOK, LogInv
  <2>4. \A c \in LiveCodes' : c = new \/ c \in LiveCodes
    BY <2>2 DEF LiveCodes
  <2>5. /\ req[h].seen <= lastCodeId
        /\ \A c \in LiveCodes :
             c <= req[h].seen /\ emailCodes[c].email = req[h].email => OldEnough(c)
    BY <1>0 DEF StoreCode, SpacingInv, CodeInv
  <2>6. \A p \in Procs : pc'[p] = "store_code" => pc[p] = "store_code" /\ req'[p] = req[p]
    BY <1>0, <1>2 DEF Goto, LocalInv
  <2>7. \A c \in LiveCodes : /\ c \in CodeId /\ c # new /\ c <= lastCodeId /\ seen[c] <= lastCodeId
                             /\ c \in Nat
    BY <2>1 DEF LiveCodes, SpacingInv, CodeInv, CodeId
  <2>8. ASSUME NEW c \in LiveCodes' PROVE c <= lastCodeId' /\ seen'[c] <= lastCodeId'
    <3>1. CASE c = new
      BY <2>1, <2>3, <2>5, <3>1
    <3>2. CASE c \in LiveCodes
      <4>1. seen'[c] = seen[c] /\ c <= lastCodeId /\ seen[c] <= lastCodeId /\ c \in Nat /\ seen[c] \in Nat
        BY <2>1, <2>2, <2>7, <3>2
      <4>. QED BY <2>1, <4>1
    <3>. QED BY <2>4, <3>1, <3>2
  <2>9. ASSUME NEW p \in Procs, pc'[p] = "store_code"
        PROVE  /\ req'[p].seen <= lastCodeId'
               /\ \A c \in LiveCodes' :
                    c <= req'[p].seen /\ emailCodes'[c].email = req'[p].email => OldEnough(c)'
    <3>1. pc[p] = "store_code" /\ req'[p] = req[p] /\ req[p].seen <= lastCodeId /\ req[p].seen \in Nat
      BY <1>0, <2>6, <2>9, StoreAssumption DEF SpacingInv, CodeInv, LocalInv, ReqType
    <3>2. ASSUME NEW c \in LiveCodes', c <= req[p].seen, emailCodes'[c].email = req[p].email
          PROVE  OldEnough(c)'
      <4>1. c \in LiveCodes
        BY <2>1, <2>4, <3>1, <3>2
      <4>2. emailCodes'[c] = emailCodes[c]
        BY <2>2, <2>7, <4>1
      <4>. QED BY <2>1, <3>1, <3>2, <4>1, <4>2 DEF SpacingInv, CodeInv, OldEnough
    <3>. QED BY <2>1, <3>1, <3>2
  <2>10. ASSUME NEW c \in LiveCodes', NEW d \in LiveCodes', OneAddress(c, d)', c <= seen'[d]
         PROVE  emailCodes'[d].created >= emailCodes'[c].created + ShortWindow
    <3>1. c # d /\ emailCodes'[c].email = emailCodes'[d].email
      BY <2>10 DEF OneAddress
    <3>2. c \in LiveCodes
      <4>1. seen'[d] <= lastCodeId
        BY <2>2, <2>3, <2>4, <2>5, <2>7
      <4>. QED BY <2>1, <2>2, <2>3, <2>4, <2>5, <2>7, <2>10, <4>1
    <3>3. emailCodes'[c] = emailCodes[c]
      BY <2>2, <2>7, <3>2
    <3>4. CASE d = new
      <4>1. OldEnough(c)
        BY <2>3, <2>5, <2>10, <3>1, <3>2, <3>3, <3>4
      <4>2. emailCodes[c].created \in Nat
        BY <1>0, <2>7, <3>2 DEF StoreTypeOK, LiveCodes, CodeRow
      <4>. QED BY <2>1, <2>3, <3>3, <3>4, <4>1, <4>2, AuthAssumption DEF OldEnough
    <3>5. CASE d \in LiveCodes
      <4>1. emailCodes'[d] = emailCodes[d] /\ seen'[d] = seen[d]
        BY <2>2, <2>7, <3>5
      <4>. QED BY <2>10, <3>1, <3>2, <3>3, <3>5, <4>1
            DEF SpacingInv, SpacedUnlessOverlapping, OneAddress
    <3>. QED BY <2>4, <3>4, <3>5
  <2>11. CodeInv'
    BY <2>8, <2>9 DEF CodeInv
  <2>12. SpacedUnlessOverlapping'
    BY <2>10 DEF SpacedUnlessOverlapping
  <2>. QED BY <2>11, <2>12 DEF SpacingInv
<1>. QED BY <1>1, <1>2 DEF StoreCode

LEMMA StepSpacing ==
  ASSUME TypeInv, ZoneOffset <= 0, SpacingInv, [Next]_vars
  PROVE  SpacingInv'
<1>0. StoreTypeOK /\ LocalInv
  BY DEF TypeInv
<1>1. CASE \E h \in Handlers : StoreCode(h)
  BY <1>1, StoreSpacing
<1>2. CASE CodesKept /\ NoNewCount
  BY <1>0, <1>2, KeptSpacing
<1>3. CASE ~NoNewCount /\ \E h \in Handlers : CountMinute(h)
  BY <1>3, CountSpacing
<1>. QED BY <1>1, <1>2, <1>3, StepCodes, Entering

\* On a server whose clock is not ahead of UTC, a code that was in the table when
\* the 60-second count of a later code of its address ran is at least 60 seconds
\* older than it, for any number of requests, rollbacks, faults and crashes.
\* (auth.go SendCode)
THEOREM SpacedHolds ==
  ASSUME ZoneOffset <= 0
  PROVE  Spec => []SpacedUnlessOverlapping
<1>1. Init => TypeInv /\ SpacingInv
  <2>1. Init => SpacingInv
    BY DEF Init, StoreInit, RequestsInit, SpacingInv, CodeInv, SpacedUnlessOverlapping, LiveCodes
  <2>. QED BY <2>1, TypeInit
<1>2. TypeInv /\ SpacingInv /\ [Next]_vars => (TypeInv /\ SpacingInv)'
  BY TypeStep, StepSpacing
<1>3. SpacingInv => SpacedUnlessOverlapping
  BY DEF SpacingInv
<1>. QED BY <1>1, <1>2, <1>3, PTL DEF Spec
=============================================================================
