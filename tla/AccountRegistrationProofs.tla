--------------------- MODULE AccountRegistrationProofs ---------------------
(***************************************************************************)
(* Theorems about registration and the first-account rule of AccountServer *)
(* beyond FounderUnique: who the first account is, and that an admin lost  *)
(* for good stays lost.  Each is a promise the code keeps only while some  *)
(* fault does not happen or no command runs, and the hypotheses of the     *)
(* theorem say which; the run that checks it meets them.                   *)
(***************************************************************************)
EXTENDS AccountServerProofs

-----------------------------------------------------------------------------
(* What a step does to one request, and what it does to the accounts. *)

Stays(h) == pc'[h] = pc[h] /\ req'[h] = req[h]

\* A request changes by its own steps and by the end of its process.
LEMMA OwnStep ==
  ASSUME TypeInv, IdInv, [Next]_vars, NEW h \in Handlers
  PROVE  Stays(h) \/ (ServerCrash /\ pc'[h] = "idle") \/ Arrive(h) \/ HandlerStep(h)
<1>0. UsersStep /\ h \in Procs
  BY StepUsers DEF Procs
<1>1. CASE UNCHANGED vars \/ TimePasses
  BY <1>1 DEF vars, TimePasses, Stays
<1>2. CASE ServerCrash
  BY <1>0, <1>2 DEF ServerCrash
<1>3. ASSUME NEW g \in Handlers, Arrive(g) \/ HandlerStep(g), g # h PROVE Stays(h)
  BY <1>0, <1>3, HandlerKeeps DEF Keeps, Stays
<1>4. ASSUME NEW c \in Clis, Command(c) \/ CreateAdmin(c) \/ CliStep(c) \/ CliKill(c)
      PROVE  Stays(h)
  <2>1. c # h
    BY RequestsAssumption
  <2>. QED BY <1>0, <1>4, <2>1, CliKeeps DEF Keeps, Stays
<1>. QED BY <1>1, <1>2, <1>3, <1>4 DEF Next

\* The labels of a registration before its answer is certain.
Registering == RegisterLabels \ {"issue_token"}

\* How a request comes to a label of a registration, and with what in its hands.
RegistrationMove(h) ==
  \/ pc'[h] \notin Registering
  \/ Stays(h)
  \/ /\ pc[h] = "idle" /\ pc'[h] = "check_code"
     /\ req'[h].uid = Nil /\ req'[h].op = "register"
  \/ /\ pc[h] = "check_code" /\ pc'[h] = "check_email"
     /\ \E c \in ValidEmailCodes(req[h].email, req[h].code) :
          req'[h] = [req[h] EXCEPT !.codeId = c]
  \/ pc[h] = "check_email" /\ pc'[h] = "check_name" /\ req'[h] = req[h]
  \/ pc[h] = "check_name" /\ pc'[h] = "insert_user" /\ req'[h] = req[h]
  \/ /\ pc[h] = "insert_user" /\ pc'[h] = "reread_user"
     /\ InsertUser(req[h].name, req[h].email, req[h].password)
     /\ req'[h] = [req[h] EXCEPT !.uid = NewUserId]
  \/ pc[h] = "insert_user" /\ pc'[h] = "create_failed" /\ req'[h] = req[h]
  \/ /\ pc[h] = "reread_user" /\ pc'[h] = "count_users"
     /\ users[req[h].uid] # Nil /\ users' = users
     /\ \E role \in Roles : req'[h] = [req[h] EXCEPT !.role = role]
  \/ /\ pc[h] = "reread_user" /\ pc'[h] = "create_failed"
     /\ StoreFails \/ users[req[h].uid] = Nil
     /\ req'[h] = req[h] /\ users' = users
  \/ /\ pc[h] = "count_users" /\ pc'[h] = "promote_first"
     /\ Cardinality(LiveUsers) = 1
     /\ req'[h] = req[h]
  \/ /\ pc[h] = "count_users" /\ pc'[h] = "mark_used"
     /\ StoreFails \/ Cardinality(LiveUsers) # 1
     /\ req'[h] = req[h]
  \/ /\ pc[h] = "promote_first" /\ pc'[h] = "mark_used"
     /\ StoreFails \/ req[h].uid \in founders'
     /\ req'[h] = [req[h] EXCEPT !.role = "admin"]

LEMMA Registers ==
  ASSUME TypeInv, IdInv, [Next]_vars, NEW h \in Handlers
  PROVE  RegistrationMove(h)
<1>. USE DEF Registering, RegisterLabels
<1>0. /\ StoreTypeOK /\ LocalInv /\ h \in Procs /\ req[h] \in ReqType /\ pc[h] \in Labels
      /\ pc \in [Procs -> Labels] /\ req \in [Procs -> ReqType]
  BY DEF TypeInv, LocalInv, Procs
<1>1. CASE Arrive(h)
  <2>1. CASE Register(h)
    <3>1. PICK name \in Names, email \in Emails, password \in Passwords, code \in Codes :
            Begin(h, "check_code",
                  [NoReq EXCEPT !.op = "register", !.name = name, !.email = email,
                                !.password = password, !.code = code])
      BY <2>1 DEF Register
    <3>. QED BY <1>0, <3>1 DEF Begin, NoReq, RegistrationMove
  <2>2. CASE SendCode(h) \/ Login(h) \/ AdminRequest(h)
    <3>1. pc'[h] \in {"count_day", "login_read", "require_admin"}
      BY <1>0, <2>2 DEF SendCode, Login, AdminRequest, Begin
    <3>. QED BY <3>1 DEF RegistrationMove
  <2>. QED BY <1>1, <2>1, <2>2 DEF Arrive
<1>2. CASE SendCodeStep(h)
  <2>1. pc'[h] \in {"count_minute", "store_code", "send_mail", "rollback_code", "idle"}
    BY <1>0, <1>2 DEF SendCodeStep, CountDay, CountMinute, StoreCode, SendMail, RollbackCode,
                      Goto, Reply
  <2>. QED BY <2>1 DEF RegistrationMove
<1>3. CASE LoginStep(h) \/ AdminStep(h)
  <2>1. pc'[h] \in {"login_log", "issue_token", "read_target", "write_target", "notify", "idle"}
    BY <1>0, <1>3 DEF LoginStep, LoginRead, LoginLog, AdminStep, RequireAdmin, ReadTarget,
                      BanTarget, UnbanTarget, DeleteTarget, PromoteTarget, WriteFails, Notify,
                      Goto, Reply
  <2>. QED BY <2>1 DEF RegistrationMove
<1>4. CASE RegisterStep(h)
  <2>0. CASE pc'[h] = "idle" \/ pc'[h] = "issue_token"
    BY <2>0 DEF RegistrationMove
  <2>1. CASE CheckCode(h)
    BY <1>0, <2>0, <2>1 DEF CheckCode, Goto, Reply, RegistrationMove
  <2>2. CASE CheckEmail(h)
    BY <1>0, <2>0, <2>2 DEF CheckEmail, Goto, Reply, RegistrationMove
  <2>3. CASE CheckName(h)
    BY <1>0, <2>0, <2>3 DEF CheckName, Goto, Reply, RegistrationMove
  <2>4. CASE InsertNewUser(h)
    BY <1>0, <2>4 DEF InsertNewUser, Goto, RegistrationMove
  <2>5. CASE RereadUser(h)
    <3>1. CASE Goto(h, "create_failed") /\ UNCHANGED req
      BY <1>0, <2>5, <3>1 DEF RereadUser, Goto, RegistrationMove, storeVars
    <3>2. CASE /\ users[req[h].uid] # Nil
               /\ Goto(h, "count_users")
               /\ req' = [req EXCEPT ![h].role = users[req[h].uid].role]
      <4>1. users[req[h].uid].role \in Roles
        BY <1>0, <2>5, <3>2 DEF RereadUser, LocalInv, KnowsAt, AccountLabels, StoreTypeOK, UserRow
      <4>2. req'[h] = [req[h] EXCEPT !.role = users[req[h].uid].role]
        BY <1>0, <3>2
      <4>. QED BY <1>0, <2>5, <3>2, <4>1, <4>2 DEF RereadUser, Goto, RegistrationMove, storeVars
    <3>. QED BY <2>5, <3>1, <3>2 DEF RereadUser
  <2>6. CASE CountUsers(h)
    BY <1>0, <2>6 DEF CountUsers, Goto, RegistrationMove
  <2>7. CASE PromoteFirst(h)
    BY <1>0, <2>7 DEF PromoteFirst, Goto, RegistrationMove
  <2>8. CASE CreateFailed(h) \/ MarkUsed(h) \/ IssueToken(h)
    BY <1>0, <2>0, <2>8 DEF CreateFailed, MarkUsed, IssueToken, Goto, Reply
  <2>. QED BY <1>4, <2>1, <2>2, <2>3, <2>4, <2>5, <2>6, <2>7, <2>8 DEF RegisterStep
<1>. QED BY <1>1, <1>2, <1>3, <1>4, OwnStep DEF HandlerStep, RegistrationMove

-----------------------------------------------------------------------------
(***************************************************************************)
(* Admins.  Where no command runs, an account becomes an admin through the *)
(* first-account rule or through a request of an admin.                    *)
(***************************************************************************)

\* How a request comes to the labels at which it may change an account.
LEMMA AdminMoves ==
  ASSUME TypeInv, IdInv, [Next]_vars, NEW h \in Handlers
  PROVE  /\ pc'[h] = "require_admin" => Stays(h) \/ req'[h].uid \in UserId
         /\ pc'[h] = "read_target" => Stays(h) \/ (pc[h] = "require_admin" /\ IsAdmin(req[h].uid))
         /\ pc'[h] = "write_target" => Stays(h) \/ pc[h] = "read_target"
<1>0. /\ h \in Procs /\ pc \in [Procs -> Labels] /\ req \in [Procs -> ReqType]
  BY DEF TypeInv, LocalInv, Procs
<1>1. CASE Arrive(h)
  <2>1. CASE SendCode(h) \/ Register(h) \/ Login(h)
    <3>1. pc'[h] \in {"count_day", "check_code", "login_read"}
      BY <1>0, <2>1 DEF SendCode, Register, Login, Begin
    <3>. QED BY <3>1
  <2>2. CASE AdminRequest(h)
    <3>1. PICK op \in AdminOps \cap Ops, t \in tokens, target \in UserId, role \in Roles :
            Begin(h, "require_admin",
                  [NoReq EXCEPT !.op = op, !.uid = t.uid, !.target = target,
                                !.role = IF op = "promote" THEN role ELSE Nil])
      BY <2>2 DEF AdminRequest
    <3>2. req'[h].uid = t.uid /\ pc'[h] = "require_admin"
      BY <1>0, <3>1 DEF Begin, NoReq
    <3>3. t.uid \in UserId
      BY DEF TypeInv, LogInv, Token
    <3>. QED BY <3>2, <3>3
  <2>. QED BY <1>1, <2>1, <2>2 DEF Arrive
<1>2. CASE SendCodeStep(h)
  <2>1. pc'[h] \in SendCodeLabels \cup {"idle"}
    BY <1>0, <1>2 DEF SendCodeStep, CountDay, CountMinute, StoreCode, SendMail, RollbackCode,
                      Goto, Reply, SendCodeLabels
  <2>. QED BY <2>1 DEF SendCodeLabels
<1>3. CASE RegisterStep(h)
  <2>1. pc'[h] \in RegisterLabels \cup {"idle"}
    BY <1>0, <1>3 DEF RegisterStep, CheckCode, CheckEmail, CheckName, InsertNewUser, RereadUser,
                      CreateFailed, CountUsers, PromoteFirst, MarkUsed, IssueToken, Goto, Reply,
                      RegisterLabels
  <2>. QED BY <2>1 DEF RegisterLabels
<1>4. CASE LoginStep(h)
  BY <1>0, <1>4 DEF LoginStep, LoginRead, LoginLog, Goto, Reply
<1>5. CASE RequireAdmin(h)
  BY <1>0, <1>5 DEF RequireAdmin, Goto, Reply
<1>6. CASE ReadTarget(h)
  BY <1>0, <1>6 DEF ReadTarget, Goto, Reply
<1>7. CASE BanTarget(h) \/ UnbanTarget(h) \/ DeleteTarget(h) \/ PromoteTarget(h)
           \/ WriteFails(h) \/ Notify(h)
  BY <1>0, <1>7 DEF BanTarget, UnbanTarget, DeleteTarget, PromoteTarget, WriteFails, Notify,
                    Goto, Reply
<1>. QED BY <1>1, <1>2, <1>3, <1>4, <1>5, <1>6, <1>7, OwnStep DEF HandlerStep, AdminStep

\* Who writes the table users.
LEMMA UserMoves ==
  ASSUME [Next]_vars
  PROVE  \/ UNCHANGED <<users, lastUserId>>
         \/ \E h \in Handlers :
              /\ pc[h] = "insert_user" /\ pc' = [pc EXCEPT ![h] = "reread_user"]
              /\ req' = [req EXCEPT ![h].uid = NewUserId]
              /\ InsertUser(req[h].name, req[h].email, req[h].password)
              /\ founders' = founders
         \/ \E h \in Handlers :
              /\ pc[h] = "promote_first" /\ founders' = founders \cup {req[h].uid}
              /\ UNCHANGED lastUserId
         \/ \E h \in Handlers : pc[h] = "write_target" /\ UNCHANGED lastUserId
         \/ \E c \in Clis : Command(c) \/ CreateAdmin(c) \/ CliStep(c) \/ CliKill(c)
<1>1. CASE UNCHANGED vars \/ TimePasses \/ ServerCrash
  BY <1>1 DEF vars, TimePasses, Tick, ServerCrash, storeVars
<1>2. ASSUME NEW h \in Handlers, Arrive(h) \/ SendCodeStep(h) \/ LoginStep(h)
      PROVE  UNCHANGED <<users, lastUserId>>
  BY <1>2
     DEF Arrive, SendCode, Register, Login, AdminRequest, SendCodeStep, CountDay, CountMinute,
         StoreCode, SendMail, RollbackCode, LoginStep, LoginRead, LoginLog, storeVars
<1>3. ASSUME NEW h \in Handlers,
             \/ CheckCode(h) \/ CheckEmail(h) \/ CheckName(h) \/ RereadUser(h)
             \/ CreateFailed(h) \/ CountUsers(h) \/ MarkUsed(h) \/ IssueToken(h)
             \/ RequireAdmin(h) \/ ReadTarget(h) \/ WriteFails(h) \/ Notify(h)
      PROVE  UNCHANGED <<users, lastUserId>>
  BY <1>3
     DEF CheckCode, CheckEmail, CheckName, RereadUser, CreateFailed, CountUsers, MarkUsed,
         IssueToken, RequireAdmin, ReadTarget, WriteFails, Notify, storeVars
<1>4. ASSUME NEW h \in Handlers, InsertNewUser(h)
      PROVE  \/ UNCHANGED <<users, lastUserId>>
             \/ /\ pc[h] = "insert_user" /\ pc' = [pc EXCEPT ![h] = "reread_user"]
                /\ req' = [req EXCEPT ![h].uid = NewUserId]
                /\ InsertUser(req[h].name, req[h].email, req[h].password)
                /\ founders' = founders
  BY <1>4 DEF InsertNewUser, Goto, history
<1>5. ASSUME NEW h \in Handlers, PromoteFirst(h)
      PROVE  \/ UNCHANGED <<users, lastUserId>>
             \/ /\ pc[h] = "promote_first" /\ founders' = founders \cup {req[h].uid}
                /\ UNCHANGED lastUserId
  BY <1>5 DEF PromoteFirst
<1>6. ASSUME NEW h \in Handlers,
             BanTarget(h) \/ UnbanTarget(h) \/ DeleteTarget(h) \/ PromoteTarget(h)
      PROVE  pc[h] = "write_target" /\ UNCHANGED lastUserId
  BY <1>6 DEF BanTarget, UnbanTarget, DeleteTarget, PromoteTarget, accountOthers
<1>. QED BY <1>1, <1>2, <1>3, <1>4, <1>5, <1>6 DEF Next, HandlerStep, RegisterStep, AdminStep

LEMMA UsersFinite ==
  IsFiniteSet(LiveUsers) /\ Cardinality(LiveUsers) \in Nat
<1>1. IsFiniteSet(UserId)
  BY StoreAssumption, FS_Interval DEF UserId
<1>. QED BY <1>1, FS_Subset, FS_CardinalityType DEF LiveUsers

\* An INSERT adds one row, and it is no admin.
LEMMA InsertedUser ==
  ASSUME TypeInv, IdInv, NEW h \in Handlers, pc[h] = "insert_user",
         InsertUser(req[h].name, req[h].email, req[h].password)
  PROVE  /\ NewUserId \in UserId \ LiveUsers /\ LiveUsers' = LiveUsers \cup {NewUserId}
         /\ users'[NewUserId].role = "user"
         /\ \A u \in LiveUsers : users'[u] = users[u]
         /\ Cardinality(LiveUsers') = Cardinality(LiveUsers) + 1
<1>1. users \in [UserId -> UserRow \cup {Nil}] /\ lastUserId \in Nat /\ lastUserId < MaxUsers
  BY StoreAssumption DEF TypeInv, StoreTypeOK, InsertUser, Insertable
<1>2. NewUserId \in UserId /\ NewUserId \notin LiveUsers
  <2>1. NewUserId \in UserId
    BY <1>1, StoreAssumption DEF NewUserId, UserId
  <2>2. ~(NewUserId <= lastUserId)
    BY <1>1 DEF NewUserId
  <2>. QED BY <2>1, <2>2 DEF IdInv
<1> DEFINE row == [username |-> req[h].name, email |-> req[h].email,
                   password |-> req[h].password, role |-> "user", banned |-> FALSE]
<1>3. users' = [users EXCEPT ![NewUserId] = row]
  BY DEF InsertUser
<1>4. row # Nil
  <2>1. req[h].name \in Names /\ req[h].email \in Emails /\ req[h].password \in Passwords
    BY DEF TypeInv, LocalInv, KnowsAt, NewAccountLabels, Procs
  <2>2. row \in UserRow
    BY <2>1 DEF UserRow, Roles
  <2>. QED BY <2>2, NilAssumption
<1>5. LiveUsers' = LiveUsers \cup {NewUserId}
  BY <1>1, <1>2, <1>3, <1>4 DEF LiveUsers
<1>6. Cardinality(LiveUsers \cup {NewUserId}) = Cardinality(LiveUsers) + 1
  BY <1>2, UsersFinite, FS_AddElement
<1>7. users'[NewUserId].role = "user" /\ \A u \in LiveUsers : users'[u] = users[u]
  BY <1>1, <1>2, <1>3 DEF LiveUsers
<1>. QED BY <1>2, <1>5, <1>6, <1>7

\* Who asks to be let in as an admin is an account.
AskerInv == \A h \in Handlers : pc[h] = "require_admin" => req[h].uid \in UserId

LEMMA StepAskerInv ==
  ASSUME TypeInv, IdInv, AskerInv, [Next]_vars
  PROVE  AskerInv'
  BY AdminMoves DEF AskerInv, Stays

\* Without commands a locked-out server stays so: nobody is at a label from which
\* an admin is made, and a registration's count only grows.
LEMMA StepLockout ==
  ASSUME Clis = {}, TypeInv, IdInv, AskerInv, [Next]_vars, LockedOut
  PROVE  LockedOut'
<1>0. /\ LiveUsers # {}
      /\ \A u \in LiveUsers : users[u].role = "user"
      /\ \A h \in Handlers : pc[h] \notin {"read_target", "write_target", "promote_first"}
      /\ \A h \in Handlers :
           pc[h] \in {"reread_user", "count_users"} => Cardinality(LiveUsers) > 1
  BY DEF LockedOut
<1>1. Cardinality(LiveUsers) \in Nat /\ Cardinality(LiveUsers) > 0
  BY <1>0, UsersFinite, FS_EmptySet
<1>2. \A h \in Handlers : pc'[h] \notin {"read_target", "write_target"}
  <2>1. \A h \in Handlers : pc[h] = "require_admin" => ~IsAdmin(req[h].uid)
    BY <1>0 DEF IsAdmin, LiveUsers, AskerInv
  <2>. QED BY <1>0, <2>1, AdminMoves DEF Stays
<1>3. ASSUME NEW h \in Handlers
      PROVE  /\ pc'[h] # "promote_first"
             /\ pc'[h] = "count_users" => pc[h] \in {"reread_user", "count_users"}
             /\ pc'[h] = "reread_user" =>
                  \/ pc[h] = "reread_user"
                  \/ /\ pc[h] = "insert_user"
                     /\ InsertUser(req[h].name, req[h].email, req[h].password)
  <2>0. RegistrationMove(h)
    BY Registers
  <2>1. CASE pc[h] = "count_users" /\ Cardinality(LiveUsers) = 1
    BY <1>0, <1>1, <2>1
  <2>2. CASE pc'[h] \notin Registering \/ Stays(h)
    BY <1>0, <2>2 DEF Registering, RegisterLabels, Stays
  <2>. QED BY <2>0, <2>1, <2>2 DEF RegistrationMove
<1>4. \/ UNCHANGED users
      \/ \E h \in Handlers : pc[h] = "insert_user" /\ InsertUser(req[h].name, req[h].email, req[h].password)
  BY <1>0, UserMoves
<1>5. CASE UNCHANGED users
  <2>1. LiveUsers' = LiveUsers
    BY <1>5 DEF LiveUsers
  <2>2. ASSUME NEW h \in Handlers, pc'[h] \in {"reread_user", "count_users"}
        PROVE  Cardinality(LiveUsers) > 1
    <3>1. ~InsertUser(req[h].name, req[h].email, req[h].password) \/ pc[h] # "insert_user"
      BY <1>5, <2>1, InsertedUser
    <3>. QED BY <1>0, <1>3, <2>2, <3>1
  <2>. QED BY <1>0, <1>2, <1>3, <1>5, <2>1, <2>2 DEF LockedOut
<1>6. CASE \E h \in Handlers :
             pc[h] = "insert_user" /\ InsertUser(req[h].name, req[h].email, req[h].password)
  <2>1. /\ NewUserId \in UserId \ LiveUsers /\ LiveUsers' = LiveUsers \cup {NewUserId}
        /\ users'[NewUserId].role = "user"
        /\ \A u \in LiveUsers : users'[u] = users[u]
        /\ Cardinality(LiveUsers') = Cardinality(LiveUsers) + 1
    BY <1>6, InsertedUser
  <2>2. Cardinality(LiveUsers') > 1
    BY <1>1, <2>1
  <2>. QED BY <1>0, <1>2, <1>3, <2>1, <2>2 DEF LockedOut
<1>. QED BY <1>4, <1>5, <1>6

\* Once a server without the command line has accounts and no admin, and no request
\* that could still make one, it never has an admin again, for any number of
\* requests, failing statements and crashes. (admin.go PromoteUser, auth.go Register)
THEOREM LockoutsArePermanent ==
  ASSUME Clis = {}
  PROVE  Spec => LockoutIsPermanent
<1>1. Init => TypeInv /\ IdInv /\ AskerInv
  <2>1. Init => AskerInv
    BY DEF Init, RequestsInit, AskerInv, Procs
  <2>. QED BY <2>1, TypeInit, InitIdInv
<1>2. TypeInv /\ IdInv /\ AskerInv /\ [Next]_vars => (TypeInv /\ IdInv /\ AskerInv)'
  BY TypeStep, StepIdInv, StepAskerInv
<1>3. TypeInv /\ IdInv /\ AskerInv /\ [Next]_vars => [LockedOut => LockedOut']_vars
  BY StepLockout
<1>. QED BY <1>1, <1>2, <1>3, PTL DEF Spec, LockoutIsPermanent

-----------------------------------------------------------------------------
(***************************************************************************)
(* The first account.  As long as no id but 1 was given out and 1 is not   *)
(* promoted, its registration is still on the way to promote it, and there *)
(* is no admin who could delete it or make another one.                    *)
(***************************************************************************)

\* What a registration does next, while its process lives.
LEMMA GoesOn ==
  ASSUME ~Crashes, TypeInv, IdInv, [Next]_vars, NEW h \in Handlers
  PROVE  /\ pc[h] = "reread_user" => Stays(h) \/ pc'[h] \in {"count_users", "create_failed"}
         /\ pc[h] = "count_users" => Stays(h) \/ pc'[h] \in {"promote_first", "mark_used"}
         /\ pc[h] = "promote_first" => Stays(h) \/ pc'[h] = "mark_used"
<1>0. h \in Procs /\ pc \in [Procs -> Labels]
  BY DEF TypeInv, LocalInv, Procs
<1>1. CASE ServerCrash
  BY <1>1 DEF ServerCrash
<1>2. CASE Arrive(h)
  BY <1>2 DEF Arrive, SendCode, Register, Login, AdminRequest, Begin
<1>3. CASE SendCodeStep(h) \/ LoginStep(h) \/ AdminStep(h)
  BY <1>3 DEF SendCodeStep, CountDay, CountMinute, StoreCode, SendMail, RollbackCode, LoginStep,
              LoginRead, LoginLog, AdminStep, RequireAdmin, ReadTarget, BanTarget, UnbanTarget,
              DeleteTarget, PromoteTarget, WriteFails, Notify
<1>4. CASE RegisterStep(h)
  BY <1>0, <1>4 DEF RegisterStep, CheckCode, CheckEmail, CheckName, InsertNewUser, RereadUser,
                    CreateFailed, CountUsers, PromoteFirst, MarkUsed, IssueToken, Goto
<1>. QED BY <1>1, <1>2, <1>3, <1>4, OwnStep DEF HandlerStep

\* The request that is about to make account 1 an admin.
Promoting(h) == pc[h] \in {"reread_user", "count_users", "promote_first"} /\ req[h].uid = 1

FirstInv ==
  lastUserId <= 1 /\ 1 \notin founders =>
    /\ \A h \in Handlers : pc[h] \notin {"read_target", "write_target"}
    /\ \A u \in LiveUsers : users[u].role = "user"
    /\ lastUserId = 1 => 1 \in LiveUsers /\ \E h \in Handlers : Promoting(h)

LEMMA PromotingGoesOn ==
  ASSUME ~StoreFails, ~Crashes, TypeInv, IdInv, [Next]_vars, UNCHANGED users,
         lastUserId = 1, 1 \in LiveUsers, 1 \notin founders',
         NEW h \in Handlers, Promoting(h)
  PROVE  Promoting(h)'
<1>0. req[h] \in ReqType /\ RegistrationMove(h)
  BY Registers DEF TypeInv, LocalInv, Procs
<1>1. LiveUsers = {1}
  <2>1. ASSUME NEW u \in LiveUsers PROVE u = 1
    <3>1. u \in 1..MaxUsers /\ u <= 1
      BY DEF IdInv, LiveUsers, UserId
    <3>. QED BY <3>1, StoreAssumption
  <2>. QED BY <2>1
<1>2. Cardinality(LiveUsers) = 1
  BY <1>1, FS_Singleton
<1>3. CASE Stays(h)
  BY <1>3 DEF Stays, Promoting
<1>4. CASE pc[h] = "reread_user" /\ ~Stays(h)
  <2>1. pc'[h] \in {"count_users", "create_failed"}
    BY <1>4, GoesOn
  <2>2. users[req[h].uid] # Nil
    BY DEF LiveUsers, Promoting
  <2>3. pc'[h] = "count_users" /\ \E role \in Roles : req'[h] = [req[h] EXCEPT !.role = role]
    BY <1>0, <1>4, <2>1, <2>2 DEF RegistrationMove, Registering, RegisterLabels
  <2>. QED BY <1>0, <2>3 DEF Promoting, ReqType
<1>5. CASE pc[h] = "count_users" /\ ~Stays(h)
  <2>1. pc'[h] \in {"promote_first", "mark_used"}
    BY <1>5, GoesOn
  <2>2. pc'[h] = "promote_first" /\ req'[h] = req[h]
    BY <1>0, <1>2, <1>5, <2>1 DEF RegistrationMove, Registering, RegisterLabels
  <2>. QED BY <2>2 DEF Promoting
<1>6. CASE pc[h] = "promote_first" /\ ~Stays(h)
  <2>1. pc'[h] = "mark_used"
    BY <1>6, GoesOn
  <2>2. req[h].uid \in founders'
    BY <1>0, <1>6, <2>1 DEF RegistrationMove, Registering, RegisterLabels
  <2>. QED BY <2>2 DEF Promoting
<1>. QED BY <1>3, <1>4, <1>5, <1>6 DEF Promoting

LEMMA StepFirstInv ==
  ASSUME ~StoreFails, ~Crashes, Clis = {}, TypeInv, IdInv, AskerInv, FirstInv, [Next]_vars
  PROVE  FirstInv'
<1>. SUFFICES ASSUME lastUserId' <= 1, 1 \notin founders'
              PROVE  /\ \A h \in Handlers : pc'[h] \notin {"read_target", "write_target"}
                     /\ \A u \in LiveUsers' : users'[u].role = "user"
                     /\ lastUserId' = 1 => 1 \in LiveUsers' /\ \E h \in Handlers : Promoting(h)'
  BY DEF FirstInv
<1>0. /\ lastUserId \in Nat /\ lastUserId' \in Nat /\ lastUserId <= lastUserId'
      /\ lastUserId <= 1 /\ 1 \notin founders
  <2>1. lastUserId \in Nat /\ UsersStep
    BY StepUsers, StoreAssumption DEF TypeInv, StoreTypeOK
  <2>2. founders \subseteq founders'
    BY HandedOn
  <2>. QED BY <2>1, <2>2 DEF UsersStep
<1>1. /\ \A h \in Handlers : pc[h] \notin {"read_target", "write_target"}
      /\ \A u \in LiveUsers : users[u].role = "user"
      /\ lastUserId = 1 => 1 \in LiveUsers /\ \E h \in Handlers : Promoting(h)
  BY <1>0 DEF FirstInv
<1>2. \A h \in Handlers : pc'[h] \notin {"read_target", "write_target"}
  <2>1. \A h \in Handlers : pc[h] = "require_admin" => ~IsAdmin(req[h].uid)
    BY <1>1 DEF IsAdmin, LiveUsers, AskerInv
  <2>. QED BY <1>1, <2>1, AdminMoves DEF Stays
<1>3. CASE UNCHANGED <<users, lastUserId>>
  <2>1. LiveUsers' = LiveUsers
    BY <1>3 DEF LiveUsers
  <2>. QED BY <1>1, <1>2, <1>3, <2>1, PromotingGoesOn
<1>4. ASSUME NEW h \in Handlers, pc[h] = "insert_user", pc' = [pc EXCEPT ![h] = "reread_user"],
             req' = [req EXCEPT ![h].uid = NewUserId],
             InsertUser(req[h].name, req[h].email, req[h].password)
      PROVE  /\ \A u \in LiveUsers' : users'[u].role = "user"
             /\ 1 \in LiveUsers' /\ Promoting(h)'
  <2>1. /\ LiveUsers' = LiveUsers \cup {NewUserId}
        /\ users'[NewUserId].role = "user"
        /\ \A u \in LiveUsers : users'[u] = users[u]
    BY <1>4, InsertedUser
  <2>2. NewUserId = 1
    BY <1>0, <1>4 DEF InsertUser, NewUserId
  <2>3. pc'[h] = "reread_user" /\ req'[h].uid = NewUserId
    BY <1>4 DEF TypeInv, LocalInv, ReqType, Procs
  <2>. QED BY <1>1, <2>1, <2>2, <2>3 DEF Promoting
<1>5. ASSUME NEW h \in Handlers, pc[h] = "promote_first", founders' = founders \cup {req[h].uid}
      PROVE  FALSE
  <2>1. req[h].uid \in UserId /\ req[h].uid <= lastUserId
    BY <1>5 DEF TypeInv, LocalInv, KnowsAt, IdInv, Tied, AccountLabels, Procs
  <2>2. req[h].uid = 1
    BY <1>0, <2>1, StoreAssumption DEF UserId
  <2>. QED BY <1>5, <2>2
<1>. QED BY <1>1, <1>2, <1>3, <1>4, <1>5, UserMoves

\* On a server of its own, where no statement fails and nothing is killed, the first
\* registration makes its account an admin: when no request is left and one id was
\* given out, account 1 was made admin for being the first. A failed statement or a
\* crash in between leaves the role to nobody. (auth.go Register)
THEOREM FirstAccountsAreAdmins ==
  ASSUME ~StoreFails, ~Crashes, Clis = {}
  PROVE  Spec => []FirstAccountIsAdmin
<1> DEFINE Inv == TypeInv /\ IdInv /\ AskerInv /\ FirstInv
<1>1. Init => Inv
  <2>1. Init => AskerInv /\ FirstInv
    BY DEF Init, StoreInit, RequestsInit, AskerInv, FirstInv, LiveUsers, Procs
  <2>. QED BY <2>1, TypeInit, InitIdInv
<1>2. Inv /\ [Next]_vars => Inv'
  BY TypeStep, StepIdInv, StepAskerInv, StepFirstInv
<1>3. Inv => FirstAccountIsAdmin
  BY DEF FirstInv, FirstAccountIsAdmin, Promoting, Quiet, Procs
<1>. QED BY <1>1, <1>2, <1>3, PTL DEF Spec
=============================================================================
