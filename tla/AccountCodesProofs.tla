------------------------- MODULE AccountCodesProofs -------------------------
(***************************************************************************)
(* Theorems about the verification codes of AccountServer: how many one    *)
(* address gets, and that no code is spent on two accounts.                *)
(***************************************************************************)
EXTENDS AccountRegistrationProofs

-----------------------------------------------------------------------------
(* What a step does to the codes, and to a request that sends one. *)

\* The statement of StoreCode when it succeeds.
Stores(h, code) ==
  /\ pc[h] = "store_code" /\ pc' = [pc EXCEPT ![h] = "send_mail"]
  /\ code \in GenerateCode
  /\ CreateEmailCode(req[h].email, code)
  /\ req' = [req EXCEPT ![h].code = code, ![h].codeId = lastCodeId + 1,
                        ![h].expires = now + CodeTTL]
  /\ UNCHANGED <<users, now, mailed>>

\* The DELETE of RollbackCode when it succeeds.
RollsBack(h) ==
  /\ pc[h] = "rollback_code" /\ pc' = [pc EXCEPT ![h] = "idle"]
  /\ DeleteEmailCode(req[h].email, req[h].code)
  /\ UNCHANGED <<users, lastCodeId, now, mailed>>

\* The UPDATE of MarkUsed when it succeeds.
Marks(h) ==
  /\ pc[h] = "mark_used" /\ pc' = [pc EXCEPT ![h] = "issue_token"]
  /\ MarkEmailCodeUsed(req[h].codeId)
  /\ UNCHANGED <<users, lastCodeId, now, mailed, req>>

LEMMA CodeMoves ==
  ASSUME [Next]_vars
  PROVE  \/ UNCHANGED <<emailCodes, lastCodeId>>
         \/ \E h \in Handlers : \/ \E code \in Codes : Stores(h, code)
                                \/ RollsBack(h) \/ Marks(h)
<1>1. CASE UNCHANGED vars \/ TimePasses \/ ServerCrash
  BY <1>1 DEF vars, TimePasses, Tick, ServerCrash, storeVars
<1>2. ASSUME NEW h \in Handlers,
             \/ Arrive(h) \/ CountDay(h) \/ CountMinute(h) \/ SendMail(h) \/ LoginStep(h)
             \/ CheckCode(h) \/ CheckEmail(h) \/ CheckName(h) \/ InsertNewUser(h)
             \/ RereadUser(h) \/ CreateFailed(h) \/ CountUsers(h) \/ PromoteFirst(h)
             \/ IssueToken(h) \/ AdminStep(h)
      PROVE  UNCHANGED <<emailCodes, lastCodeId>>
  BY <1>2
     DEF Arrive, SendCode, Register, Login, AdminRequest, CountDay, CountMinute, SendMail,
         LoginStep, LoginRead, LoginLog, CheckCode, CheckEmail, CheckName, InsertNewUser,
         RereadUser, CreateFailed, CountUsers, PromoteFirst, IssueToken, AdminStep,
         RequireAdmin, ReadTarget, BanTarget, UnbanTarget, DeleteTarget, PromoteTarget,
         WriteFails, Notify, accountOthers, storeVars
<1>3. ASSUME NEW h \in Handlers, StoreCode(h)
      PROVE  UNCHANGED <<emailCodes, lastCodeId>> \/ \E code \in Codes : Stores(h, code)
  <2>1. \A code \in GenerateCode : code \in Codes
    BY DEF GenerateCode
  <2>. QED BY <1>3, <2>1 DEF StoreCode, Stores, Goto
<1>4. ASSUME NEW h \in Handlers, RollbackCode(h)
      PROVE  UNCHANGED <<emailCodes, lastCodeId>> \/ RollsBack(h)
  BY <1>4 DEF RollbackCode, RollsBack, Reply, history
<1>5. ASSUME NEW h \in Handlers, MarkUsed(h)
      PROVE  UNCHANGED <<emailCodes, lastCodeId>> \/ Marks(h)
  BY <1>5 DEF MarkUsed, Marks, Goto, history
<1>6. ASSUME NEW c \in Clis, Command(c) \/ CreateAdmin(c) \/ CliStep(c) \/ CliKill(c)
      PROVE  UNCHANGED <<emailCodes, lastCodeId>>
  BY <1>6
     DEF Command, CreateAdmin, CliStep, CliRead, CliWrite, CliEmail, CliName, CliInsert,
         CliReread, CliPromote, CliKill, accountOthers, storeVars
<1>. QED BY <1>1, <1>2, <1>3, <1>4, <1>5, <1>6
         DEF Next, HandlerStep, SendCodeStep, RegisterStep

\* How a request for a code comes to its labels.
LEMMA SendMoves ==
  ASSUME TypeInv, IdInv, [Next]_vars, NEW h \in Handlers
  PROVE  /\ pc'[h] = "count_minute" =>
              \/ Stays(h)
              \/ /\ CountRecentEmailCodes(req[h].email, DayWindow) < DayLimit
                 /\ req'[h] = req[h] /\ UNCHANGED <<emailCodes, now>>
         /\ pc'[h] = "store_code" =>
              \/ Stays(h)
              \/ pc[h] = "count_minute" /\ req'[h].email = req[h].email
         /\ pc'[h] = "send_mail" =>
              Stays(h) \/ \E code \in Codes : Stores(h, code)
<1>0. /\ h \in Procs /\ pc \in [Procs -> Labels] /\ req \in [Procs -> ReqType]
      /\ pc[h] \in Labels /\ req[h] \in ReqType
  BY DEF TypeInv, LocalInv, Procs
<1> DEFINE L == {"count_minute", "store_code", "send_mail"}
<1>1. CASE pc'[h] \notin L
  BY <1>1
<1>2. CASE Arrive(h)
  <2>1. pc'[h] \in {"count_day", "check_code", "login_read", "require_admin"}
    BY <1>0, <1>2 DEF Arrive, SendCode, Register, Login, AdminRequest, Begin
  <2>. QED BY <1>1, <2>1
<1>3. CASE CountDay(h)
  BY <1>0, <1>1, <1>3 DEF CountDay, Goto, Reply, storeVars
<1>4. CASE CountMinute(h)
  BY <1>0, <1>1, <1>4 DEF CountMinute, Goto, Reply, ReqType
<1>5. CASE StoreCode(h)
  <2>1. \A code \in GenerateCode : code \in Codes
    BY DEF GenerateCode
  <2>2. pc'[h] # "idle" => \E code \in Codes : Stores(h, code)
    BY <1>0, <1>5, <2>1 DEF StoreCode, Stores, Goto, Reply
  <2>3. pc'[h] \in {"send_mail", "idle"}
    BY <1>0, <1>5 DEF StoreCode, Goto, Reply
  <2>. QED BY <2>2, <2>3
<1>6. CASE SendMail(h)
  BY <1>0, <1>1, <1>6 DEF SendMail, Goto, Reply
<1>7. CASE RollbackCode(h)
  BY <1>0, <1>1, <1>7 DEF RollbackCode, Reply
<1>8. CASE RegisterStep(h)
  <2>1. pc'[h] \in RegisterLabels \cup {"idle"}
    BY <1>0, <1>8 DEF RegisterStep, CheckCode, CheckEmail, CheckName, InsertNewUser, RereadUser,
                      CreateFailed, CountUsers, PromoteFirst, MarkUsed, IssueToken, Goto, Reply,
                      RegisterLabels
  <2>. QED BY <1>1, <2>1 DEF RegisterLabels
<1>9. CASE LoginStep(h) \/ AdminStep(h)
  <2>1. pc'[h] \in {"login_log", "issue_token", "read_target", "write_target", "notify", "idle"}
    BY <1>0, <1>9 DEF LoginStep, LoginRead, LoginLog, AdminStep, RequireAdmin, ReadTarget,
                      BanTarget, UnbanTarget, DeleteTarget, PromoteTarget, WriteFails, Notify,
                      Goto, Reply
  <2>. QED BY <1>1, <2>1
<1>. QED BY <1>1, <1>2, <1>3, <1>4, <1>5, <1>6, <1>7, <1>8, <1>9, OwnStep
         DEF HandlerStep, SendCodeStep

-----------------------------------------------------------------------------
(***************************************************************************)
(* The daily limit.  A request past the count of the day may each store    *)
(* one more code, so the codes of a day and those requests are bounded     *)
(* together.  The window that ends now holds the most: an older one has    *)
(* only lost rows since it ended.                                          *)
(***************************************************************************)

Window(email, t) ==
  {c \in LiveCodes : /\ emailCodes[c].email = email
                     /\ emailCodes[c].created \in (t - DayWindow + 1)..t}

\* The requests for a code of email that the daily limit let pass.
Counted(email) ==
  {h \in Handlers : pc[h] \in {"count_minute", "store_code"} /\ req[h].email = email}

DayMost == DayLimit - 1 + Cardinality(Handlers)

DayInv ==
  /\ \A c \in LiveCodes : emailCodes[c].created <= now /\ c <= lastCodeId
  /\ \A email \in Emails :
       Cardinality(Window(email, now)) + Cardinality(Counted(email)) <= DayMost
  /\ \A email \in Emails, t \in 0..now : Cardinality(Window(email, t)) <= DayMost

LEMMA CodesFinite ==
  ASSUME NEW S, S \subseteq CodeId
  PROVE  IsFiniteSet(S) /\ Cardinality(S) \in Nat
<1>1. IsFiniteSet(CodeId)
  BY StoreAssumption, FS_Interval DEF CodeId
<1>. QED BY <1>1, FS_Subset, FS_CardinalityType

LEMMA FewerOf ==
  ASSUME NEW S, NEW T, S \subseteq T, IsFiniteSet(T)
  PROVE  /\ IsFiniteSet(S) /\ Cardinality(S) \in Nat /\ Cardinality(T) \in Nat
         /\ Cardinality(S) <= Cardinality(T)
  BY FS_Subset, FS_CardinalityType

\* Who passes the daily limit has counted fewer codes than it allows.
LEMMA CountedMoves ==
  ASSUME TypeInv, IdInv, [Next]_vars, NEW email \in Emails
  PROVE  \/ Counted(email)' \subseteq Counted(email)
         \/ /\ CountRecentEmailCodes(email, DayWindow) < DayLimit
            /\ UNCHANGED <<emailCodes, now>>
  BY SendMoves DEF Counted, Stays

LEMMA WindowRecent ==
  ASSUME StoreTypeOK, ZoneOffset <= 0, NEW email,
         CountRecentEmailCodes(email, DayWindow) < DayLimit
  PROVE  Cardinality(Window(email, now)) <= DayLimit - 1
<1> DEFINE R == RecentEmailCodes(email, DayWindow)
<1>1. Window(email, now) \subseteq R
  <2>1. ASSUME NEW c \in Window(email, now) PROVE c \in R
    <3>1. c \in LiveCodes /\ emailCodes[c].email = email
      BY DEF Window
    <3>2. emailCodes[c].created \in Int /\ now \in Int /\ now - DayWindow + 1 <= emailCodes[c].created
      BY StoreAssumption, AuthAssumption DEF Window, StoreTypeOK
    <3>3. emailCodes[c].created > (now + ZoneOffset) - DayWindow
      BY <3>2, StoreAssumption, AuthAssumption
    <3>. QED BY <3>1, <3>3 DEF RecentEmailCodes
  <2>. QED BY <2>1
<1>2. IsFiniteSet(R)
  BY CodesFinite DEF RecentEmailCodes, LiveCodes
<1>. QED BY <1>1, <1>2, FewerOf, AuthAssumption DEF CountRecentEmailCodes

\* A step that stores nothing adds nothing to any window.
LEMMA KeptWindows ==
  ASSUME StoreTypeOK, DayInv, CodesKept, NEW email, NEW t \in Nat
  PROVE  /\ Window(email, t)' \subseteq Window(email, t)
         /\ t >= now => Window(email, t)' \subseteq Window(email, now)
<1>1. ASSUME NEW c \in Window(email, t)'
      PROVE  /\ c \in Window(email, t)
             /\ t >= now => c \in Window(email, now)
  <2>1. /\ c \in LiveCodes /\ emailCodes[c].email = email
        /\ emailCodes[c].created \in (t - DayWindow + 1)..t
        /\ emailCodes[c].created <= now
    BY DEF Window, CodesKept, DayInv
  <2>2. now \in Nat
    BY StoreAssumption DEF StoreTypeOK
  <2>3. t >= now => emailCodes[c].created \in (now - DayWindow + 1)..now
    BY <2>1, <2>2, AuthAssumption
  <2>. QED BY <2>1, <2>3 DEF Window
<1>. QED BY <1>1

LEMMA KeptDay ==
  ASSUME ZoneOffset <= 0, IsFiniteSet(Handlers),
         TypeInv, IdInv, DayInv, CodesKept, [Next]_vars
  PROVE  DayInv'
<1>0. StoreTypeOK /\ now \in Nat /\ now' \in Nat /\ now <= now' /\ DayMost \in Int
  BY StoreAssumption, AuthAssumption, FS_CardinalityType
     DEF TypeInv, StoreTypeOK, CodesKept, DayMost
<1>1. \A c \in LiveCodes' : emailCodes'[c].created <= now' /\ c <= lastCodeId'
  <2>1. \A c \in LiveCodes : emailCodes[c].created \in Nat
    BY <1>0 DEF StoreTypeOK, LiveCodes, CodeRow
  <2>. QED BY <1>0, <2>1 DEF CodesKept, DayInv
<1>2. ASSUME NEW email \in Emails, NEW t \in 0..now'
      PROVE  /\ Window(email, t)' \subseteq Window(email, t)
             /\ t >= now => Window(email, t)' \subseteq Window(email, now)
             /\ t \in Nat
             /\ IsFiniteSet(Window(email, t)) /\ IsFiniteSet(Window(email, now))
  BY <1>0, <1>2, KeptWindows, CodesFinite DEF Window, LiveCodes
<1>3. ASSUME NEW email \in Emails, NEW t \in 0..now'
      PROVE  Cardinality(Window(email, t)') <= DayMost
  <2>1. CASE t >= now
    <3>1. Cardinality(Window(email, t)') <= Cardinality(Window(email, now))
      BY <1>2, <2>1, FewerOf
    <3>2. /\ Cardinality(Window(email, now)) <= DayMost
          /\ Cardinality(Window(email, now)) \in Nat /\ Cardinality(Window(email, t)') \in Nat
      BY <1>0, <1>2, <2>1, FewerOf DEF DayInv
    <3>. QED BY <1>0, <3>1, <3>2
  <2>2. CASE t < now
    <3>1. Cardinality(Window(email, t)') <= Cardinality(Window(email, t))
      BY <1>2, FewerOf
    <3>2. /\ Cardinality(Window(email, t)) <= DayMost
          /\ Cardinality(Window(email, t)) \in Nat /\ Cardinality(Window(email, t)') \in Nat
      BY <1>0, <1>2, <2>2, FewerOf DEF DayInv
    <3>. QED BY <1>0, <3>1, <3>2
  <2>. QED BY <1>0, <1>2, <2>1, <2>2
<1>4. ASSUME NEW email \in Emails
      PROVE  Cardinality(Window(email, now)') + Cardinality(Counted(email)') <= DayMost
  <2>1. /\ IsFiniteSet(Counted(email)) /\ Cardinality(Counted(email)) \in Nat
        /\ Cardinality(Counted(email)') \in Nat
        /\ Cardinality(Counted(email)') <= Cardinality(Handlers)
    <3>1. Counted(email) \subseteq Handlers /\ Counted(email)' \subseteq Handlers
      BY DEF Counted
    <3>. QED BY <3>1, FewerOf
  <2>2. /\ Window(email, now)' \subseteq Window(email, now)
        /\ IsFiniteSet(Window(email, now))
        /\ Cardinality(Window(email, now)) \in Nat /\ Cardinality(Window(email, now)') \in Nat
        /\ Cardinality(Window(email, now)') <= Cardinality(Window(email, now))
    <3>1. Window(email, now)' \subseteq Window(email, now)
      <4>1. ASSUME NEW c \in Window(email, now)' PROVE c \in Window(email, now)
        <5>1. /\ c \in LiveCodes /\ emailCodes[c].email = email
              /\ emailCodes[c].created \in (now' - DayWindow + 1)..now'
              /\ emailCodes[c].created <= now
          BY DEF Window, CodesKept, DayInv
        <5>2. emailCodes[c].created \in (now - DayWindow + 1)..now
          BY <1>0, <5>1, AuthAssumption
        <5>. QED BY <5>1, <5>2 DEF Window
      <4>. QED BY <4>1
    <3>2. IsFiniteSet(Window(email, now))
      BY CodesFinite DEF Window, LiveCodes
    <3>. QED BY <3>1, <3>2, FewerOf
  <2>3. CASE Counted(email)' \subseteq Counted(email)
    <3>1. Cardinality(Counted(email)') <= Cardinality(Counted(email))
      BY <2>1, <2>3, FewerOf
    <3>2. Cardinality(Window(email, now)) + Cardinality(Counted(email)) <= DayMost
      BY DEF DayInv
    <3>. QED BY <1>0, <2>1, <2>2, <3>1, <3>2
  <2>4. CASE CountRecentEmailCodes(email, DayWindow) < DayLimit
    <3>1. Cardinality(Window(email, now)) <= DayLimit - 1
      BY <1>0, <2>4, WindowRecent
    <3>. QED BY <2>1, <2>2, <3>1, AuthAssumption, FS_CardinalityType DEF DayMost
  <2>. QED BY <2>3, <2>4, CountedMoves
<1>5. \A email \in Emails, t \in 0..now' : Cardinality(Window(email, t)') <= DayMost
  BY <1>3
<1>. QED BY <1>1, <1>4, <1>5 DEF DayInv, DayMost
LEMMA StoreDay ==
  ASSUME IsFiniteSet(Handlers), TypeInv, IdInv, DayInv,
         NEW h \in Handlers, NEW code \in Codes, Stores(h, code)
  PROVE  DayInv'
<1> DEFINE new == lastCodeId + 1
<1>0. /\ StoreTypeOK /\ LocalInv /\ h \in Procs /\ lastCodeId \in Nat /\ now \in Nat
      /\ lastCodeId' = new /\ new \in CodeId /\ now' = now
      /\ DayMost \in Int /\ req[h].email \in Emails
  BY StoreAssumption, AuthAssumption, FS_CardinalityType
     DEF TypeInv, StoreTypeOK, LocalInv, KnowsAt, SendCodeLabels, Procs, Stores,
         CreateEmailCode, CodeId, DayMost
<1>1. /\ \A c \in CodeId \ {new} : emailCodes'[c] = emailCodes[c]
      /\ emailCodes'[new].email = req[h].email /\ emailCodes'[new].created = now
  BY <1>0 DEF Stores, CreateEmailCode, StoreTypeOK
<1>2. /\ new \notin LiveCodes
      /\ \A c \in LiveCodes' : c = new \/ (c \in LiveCodes /\ emailCodes'[c] = emailCodes[c])
  <2>1. ~(new <= lastCodeId)
    BY <1>0
  <2>2. new \notin LiveCodes
    BY <2>1 DEF DayInv
  <2>. QED BY <1>0, <1>1, <2>2 DEF LiveCodes
<1>3. \A c \in LiveCodes' : emailCodes'[c].created <= now' /\ c <= lastCodeId'
  <2>1. \A c \in LiveCodes : c \in Nat /\ c <= lastCodeId /\ emailCodes[c].created <= now
    BY StoreAssumption DEF DayInv, LiveCodes, CodeId
  <2>. QED BY <1>0, <1>1, <1>2, <2>1
<1>4. ASSUME NEW email \in Emails, NEW t \in 0..now
      PROVE  /\ Window(email, t)' \subseteq Window(email, t) \cup {new}
             /\ t # now \/ email # req[h].email => Window(email, t)' \subseteq Window(email, t)
             /\ IsFiniteSet(Window(email, t)) /\ new \notin Window(email, t)
  <2>1. ASSUME NEW c \in Window(email, t)', c # new PROVE c \in Window(email, t)
    BY <1>2, <2>1 DEF Window
  <2>2. t # now \/ email # req[h].email => new \notin Window(email, t)'
    BY <1>0, <1>1, <1>4 DEF Window
  <2>3. new \notin Window(email, t)
    BY <1>2 DEF Window
  <2>4. IsFiniteSet(Window(email, t))
    BY CodesFinite DEF Window, LiveCodes
  <2>. QED BY <2>1, <2>2, <2>3, <2>4
<1>5. ASSUME NEW email \in Emails
      PROVE  /\ Counted(email)' \subseteq Counted(email)
             /\ email = req[h].email => h \in Counted(email) /\ h \notin Counted(email)'
             /\ IsFiniteSet(Counted(email)) /\ Cardinality(Counted(email)) \in Nat
             /\ Cardinality(Counted(email)') \in Nat
  <2>1. pc'[h] = "send_mail"
    BY <1>0 DEF Stores, LocalInv
  <2>2. \A g \in Handlers \ {h} : pc'[g] = pc[g] /\ req'[g] = req[g]
    BY <1>0 DEF Stores, LocalInv, Procs
  <2>3. Counted(email)' \subseteq Counted(email) /\ Counted(email) \subseteq Handlers
    BY <2>1, <2>2 DEF Counted
  <2>4. email = req[h].email => h \in Counted(email) /\ h \notin Counted(email)'
    BY <2>1 DEF Counted, Stores
  <2>. QED BY <2>3, <2>4, FewerOf, FS_Subset
<1>6. ASSUME NEW email \in Emails
      PROVE  Cardinality(Window(email, now)') + Cardinality(Counted(email)') <= DayMost
  <2> DEFINE W == Window(email, now)
             C == Counted(email)
  <2>1. /\ IsFiniteSet(W) /\ Cardinality(W) \in Nat /\ IsFiniteSet(C) /\ Cardinality(C) \in Nat
        /\ Cardinality(W) + Cardinality(C) <= DayMost
    BY <1>0, <1>4, <1>5, FS_CardinalityType DEF DayInv
  <2>2. W' \subseteq W \cup {new} /\ (email # req[h].email => W' \subseteq W)
    <3>1. ASSUME NEW t \in 0..now, t = now PROVE W' = Window(email, t)'
      BY <1>0, <3>1 DEF Window
    <3>2. now \in 0..now
      BY <1>0
    <3>3. PICK t \in 0..now : t = now
      BY <3>2
    <3>. QED BY <1>4, <3>1, <3>3
  <2>3. CASE email # req[h].email
    <3>1. /\ Cardinality(W') <= Cardinality(W) /\ Cardinality(C') <= Cardinality(C)
          /\ Cardinality(W') \in Nat /\ Cardinality(C') \in Nat
      BY <1>5, <2>1, <2>2, <2>3, FewerOf
    <3>. QED BY <1>0, <2>1, <3>1
  <2>4. CASE email = req[h].email
    <3>1. IsFiniteSet(W \cup {new}) /\ Cardinality(W \cup {new}) = Cardinality(W) + 1
      BY <1>0, <1>4, <2>1, FS_AddElement
    <3>2. Cardinality(W') <= Cardinality(W) + 1 /\ Cardinality(W') \in Nat
      BY <2>2, <3>1, FewerOf
    <3>3. IsFiniteSet(C \ {h}) /\ Cardinality(C \ {h}) = Cardinality(C) - 1
      BY <1>5, <2>1, <2>4, FS_RemoveElement
    <3>4. C' \subseteq C \ {h}
      BY <1>5, <2>4
    <3>5. Cardinality(C') <= Cardinality(C) - 1 /\ Cardinality(C') \in Nat
      BY <3>3, <3>4, FewerOf
    <3>. QED BY <1>0, <2>1, <3>2, <3>5
  <2>. QED BY <2>3, <2>4
<1>7. ASSUME NEW email \in Emails, NEW t \in 0..now
      PROVE  Cardinality(Window(email, t)') <= DayMost
  <2>1. CASE t = now
    <3>1. Window(email, t)' = Window(email, now)'
      BY <1>0, <2>1 DEF Window
    <3>2. /\ Cardinality(Window(email, t)') \in Nat /\ Cardinality(Counted(email)') \in Nat
      BY <1>5, CodesFinite DEF Window, LiveCodes
    <3>. QED BY <1>0, <1>6, <3>1, <3>2
  <2>2. CASE t # now
    <3>1. /\ Cardinality(Window(email, t)') <= Cardinality(Window(email, t))
          /\ Cardinality(Window(email, t)') \in Nat /\ Cardinality(Window(email, t)) \in Nat
      BY <1>4, <2>2, FewerOf
    <3>2. Cardinality(Window(email, t)) <= DayMost
      BY DEF DayInv
    <3>. QED BY <1>0, <3>1, <3>2
  <2>. QED BY <2>1, <2>2
<1>8. \A email \in Emails, t \in 0..now' : Cardinality(Window(email, t)') <= DayMost
  BY <1>0, <1>7
<1>. QED BY <1>3, <1>6, <1>8 DEF DayInv, DayMost

LEMMA StepDay ==
  ASSUME ZoneOffset <= 0, IsFiniteSet(Handlers), TypeInv, IdInv, DayInv, [Next]_vars
  PROVE  DayInv'
<1>1. ASSUME NEW h \in Handlers, StoreCode(h)
      PROVE  CodesKept \/ \E code \in Codes : Stores(h, code)
  <2>1. \A code \in GenerateCode : code \in Codes
    BY DEF GenerateCode
  <2>2. CASE UNCHANGED <<emailCodes, lastCodeId, seen>>
    BY <1>1, <2>2, SameCodes DEF TypeInv, StoreCode
  <2>. QED BY <1>1, <2>1, <2>2 DEF StoreCode, Stores, Goto
<1>. QED BY <1>1, StepCodes, KeptDay, StoreDay

\* On a server whose clock is not ahead of UTC no address gets more codes in any
\* twenty-four hours than the daily limit and, beyond it, one for every other request
\* in progress: the count and the INSERT are two statements, so requests that overlap
\* the last one within the limit may all be counted as within it. (auth.go SendCode)
THEOREM DayBoundHolds ==
  ASSUME ZoneOffset <= 0, IsFiniteSet(Handlers), DayLimit > 0
  PROVE  Spec => []DayBound
<1>1. Init => TypeInv /\ IdInv /\ DayInv
  <2>1. Init => DayInv
    <3>. SUFFICES ASSUME Init PROVE DayInv
      OBVIOUS
    <3>1. LiveCodes = {} /\ now = 0
      BY DEF Init, StoreInit, LiveCodes
    <3>2. /\ Cardinality({}) = 0 /\ Cardinality(Handlers) \in Nat
          /\ DayMost \in Int /\ DayMost >= 0
      BY FS_EmptySet, FS_CardinalityType, AuthAssumption DEF DayMost
    <3>3. \A email, t : Window(email, t) = {}
      BY <3>1 DEF Window
    <3>4. \A email : Counted(email) = {}
      BY DEF Init, RequestsInit, Counted, Procs
    <3>. QED BY <3>1, <3>2, <3>3, <3>4 DEF DayInv
  <2>. QED BY <2>1, TypeInit, InitIdInv
<1>2. TypeInv /\ IdInv /\ DayInv /\ [Next]_vars => (TypeInv /\ IdInv /\ DayInv)'
  BY TypeStep, StepIdInv, StepDay
<1>3. DayInv => DayBound
  BY DEF DayInv, DayBound, Window, DayMost
<1>. QED BY <1>1, <1>2, <1>3, PTL DEF Spec

-----------------------------------------------------------------------------
(***************************************************************************)
(* Codes and the accounts made with them.  A code is bound to an address   *)
(* by its row, by a registration past CheckCode that goes by it, and by an *)
(* account made with it; all of them name one address, and one address has *)
(* one account.  The first outlives the row: rowids are not given twice.   *)
(***************************************************************************)

PastCheckCode == {"check_email", "check_name", "insert_user"}

Bound(c, email) ==
  \/ c \in LiveCodes /\ emailCodes[c].email = email
  \/ \E h \in Handlers :
       pc[h] \in PastCheckCode /\ req[h].codeId = c /\ req[h].email = email
  \/ \E u \in LiveUsers : origin[u] = c /\ users[u].email = email

OriginInv ==
  /\ \A c \in CodeId, e \in Emails : Bound(c, e) => c <= lastCodeId
  /\ \A c \in CodeId : \A e, f \in Emails : Bound(c, e) /\ Bound(c, f) => e = f
  /\ \A u, v \in LiveUsers : users[u].email = users[v].email => u = v
  /\ \A u \in UserId : u > lastUserId => origin[u] = Nil

\* Ids are given out, and origins written, by the two INSERTs only.
LEMMA WhoInserts ==
  ASSUME [Next]_vars, lastUserId' # lastUserId \/ origin' # origin
  PROVE  (\E h \in Handlers : InsertNewUser(h)) \/ (\E c \in Clis : CliInsert(c))
<1>1. CASE UNCHANGED vars \/ TimePasses \/ ServerCrash
  BY <1>1 DEF vars, TimePasses, Tick, ServerCrash, storeVars, history
<1>2. ASSUME NEW h \in Handlers, Arrive(h) \/ SendCodeStep(h) \/ LoginStep(h)
      PROVE  UNCHANGED <<lastUserId, origin>>
  BY <1>2
     DEF Arrive, SendCode, Register, Login, AdminRequest, SendCodeStep, CountDay, CountMinute,
         StoreCode, SendMail, RollbackCode, LoginStep, LoginRead, LoginLog, storeVars, history
<1>3. ASSUME NEW h \in Handlers, RegisterStep(h), ~InsertNewUser(h)
      PROVE  UNCHANGED <<lastUserId, origin>>
  BY <1>3
     DEF RegisterStep, CheckCode, CheckEmail, CheckName, RereadUser, CreateFailed, CountUsers,
         PromoteFirst, MarkUsed, IssueToken, storeVars, history
<1>4. ASSUME NEW h \in Handlers, AdminStep(h)
      PROVE  UNCHANGED <<lastUserId, origin>>
  BY <1>4
     DEF AdminStep, RequireAdmin, ReadTarget, BanTarget, UnbanTarget, DeleteTarget,
         PromoteTarget, WriteFails, Notify, accountOthers, storeVars, history
<1>5. ASSUME NEW c \in Clis, ~CliInsert(c),
             Command(c) \/ CreateAdmin(c) \/ CliStep(c) \/ CliKill(c)
      PROVE  UNCHANGED <<lastUserId, origin>>
  BY <1>5
     DEF Command, CreateAdmin, CliStep, CliRead, CliWrite, CliEmail, CliName, CliReread,
         CliPromote, CliKill, accountOthers, storeVars, history
<1>. QED BY <1>1, <1>2, <1>3, <1>4, <1>5 DEF Next, HandlerStep

\* The account an INSERT makes has the address of its request, which had none, and
\* the code of its request when it is a registration.
LEMMA NewAccount ==
  ASSUME TypeInv, IdInv, OriginInv, [Next]_vars, NEW u \in LiveUsers', u > lastUserId
  PROVE  /\ u = lastUserId + 1
         /\ \A v \in LiveUsers : users[v].email # users'[u].email
         /\ \/ origin'[u] = Nil
            \/ \E h \in Handlers : /\ pc[h] = "insert_user" /\ req[h].codeId = origin'[u]
                                   /\ req[h].email = users'[u].email
<1>0. /\ StoreTypeOK /\ LogInv /\ UsersStep /\ lastUserId \in Nat /\ u \in UserId /\ u \in Nat
      /\ lastUserId' \in Nat /\ u <= lastUserId'
  BY StepUsers, StoreAssumption DEF TypeInv, StoreTypeOK, UsersStep, LiveUsers, UserId
<1>1. lastUserId' # lastUserId
  BY <1>0
<1>2. ASSUME NEW p, InsertUser(req[p].name, req[p].email, req[p].password)
      PROVE  /\ u = NewUserId /\ NewUserId = lastUserId + 1
             /\ users'[u].email = req[p].email
             /\ \A v \in LiveUsers : users[v].email # users'[u].email
  <2>1. NewUserId = lastUserId + 1 /\ lastUserId' = NewUserId
    BY <1>0, <1>2 DEF InsertUser, NewUserId
  <2>2. u = NewUserId
    BY <1>0, <2>1
  <2>3. users'[u].email = req[p].email
    BY <1>0, <1>2, <2>2 DEF InsertUser, StoreTypeOK
  <2>4. \A v \in LiveUsers : users[v].email # req[p].email
    BY <1>2 DEF InsertUser, Insertable, UsersByEmail
  <2>. QED BY <2>1, <2>2, <2>3, <2>4
<1>3. ASSUME NEW h \in Handlers, InsertNewUser(h)
      PROVE  /\ pc[h] = "insert_user"
             /\ InsertUser(req[h].name, req[h].email, req[h].password)
             /\ origin' = [origin EXCEPT ![NewUserId] = req[h].codeId]
  BY <1>1, <1>3 DEF InsertNewUser
<1>4. ASSUME NEW c \in Clis, CliInsert(c)
      PROVE  /\ InsertUser(req[c].name, req[c].email, req[c].password)
             /\ origin' = origin
  BY <1>1, <1>4 DEF CliInsert, history
<1>5. CASE \E h \in Handlers : InsertNewUser(h)
  <2>1. PICK h \in Handlers : InsertNewUser(h)
    BY <1>5
  <2>2. origin'[u] = req[h].codeId
    BY <1>0, <1>2, <1>3, <2>1 DEF LogInv
  <2>. QED BY <1>2, <1>3, <2>1, <2>2
<1>6. CASE \E c \in Clis : CliInsert(c)
  <2>1. PICK c \in Clis : CliInsert(c)
    BY <1>6
  <2>2. origin'[u] = Nil
    BY <1>0, <1>4, <2>1 DEF OriginInv
  <2>. QED BY <1>2, <1>4, <2>1, <2>2
<1>. QED BY <1>1, <1>5, <1>6, WhoInserts

\* The account of an id given out keeps its origin.
LEMMA OriginKept ==
  ASSUME TypeInv, IdInv, [Next]_vars
  PROVE  /\ \A u \in UserId : u <= lastUserId => origin'[u] = origin[u]
         /\ \A u \in UserId : u > lastUserId' => origin'[u] = origin[u]
<1>0. LogInv /\ lastUserId \in Nat /\ lastUserId' \in Nat /\ \A u \in UserId : u \in Nat
  BY StepUsers, StoreAssumption DEF TypeInv, StoreTypeOK, UsersStep, UserId
<1>1. CASE origin' = origin
  BY <1>1
<1>2. ASSUME NEW h \in Handlers, InsertNewUser(h), origin' # origin
      PROVE  /\ NewUserId = lastUserId + 1 /\ lastUserId' = NewUserId
             /\ origin' = [origin EXCEPT ![NewUserId] = req[h].codeId]
  BY <1>0, <1>2 DEF InsertNewUser, InsertUser, NewUserId
<1>3. ASSUME NEW c \in Clis, CliInsert(c)
      PROVE  origin' = origin
  BY <1>3 DEF CliInsert, history
<1>4. CASE /\ origin' # origin
           /\ \E h \in Handlers : InsertNewUser(h)
  <2>1. PICK h \in Handlers : InsertNewUser(h)
    BY <1>4
  <2>2. \A u \in UserId : u # lastUserId + 1 => origin'[u] = origin[u]
    BY <1>0, <1>2, <1>4, <2>1 DEF LogInv
  <2>3. \A u \in UserId : u <= lastUserId \/ u > lastUserId' => u # lastUserId + 1
    BY <1>0, <1>2, <1>4, <2>1
  <2>. QED BY <2>2, <2>3
<1>. QED BY <1>1, <1>3, <1>4, WhoInserts

\* A step binds no code to an address, but StoreCode its new row.
LEMMA BoundMoves ==
  ASSUME TypeInv, IdInv, OriginInv, [Next]_vars,
         NEW c \in CodeId, NEW e \in Emails, Bound(c, e)'
  PROVE  \/ Bound(c, e)
         \/ \E h \in Handlers : \E code \in Codes :
              Stores(h, code) /\ c = lastCodeId + 1 /\ e = req[h].email
<1>. USE DEF PastCheckCode
<1>0. StoreTypeOK /\ LocalInv /\ UsersStep
  BY StepUsers DEF TypeInv
<1>1. CASE c \in LiveCodes' /\ emailCodes'[c].email = e
  <2>1. CASE CodesKept
    BY <1>1, <2>1 DEF CodesKept, Bound
  <2>2. CASE UNCHANGED emailCodes
    BY <1>1, <2>2 DEF LiveCodes, Bound
  <2>3. ASSUME NEW h \in Handlers, NEW code \in Codes, Stores(h, code)
        PROVE  Bound(c, e) \/ (c = lastCodeId + 1 /\ e = req[h].email)
    <3>1. CASE c = lastCodeId + 1
      BY <1>0, <1>1, <2>3, <3>1 DEF Stores, CreateEmailCode, StoreTypeOK
    <3>2. CASE c # lastCodeId + 1
      <4>1. emailCodes'[c] = emailCodes[c]
        BY <1>0, <2>3, <3>2 DEF Stores, CreateEmailCode, StoreTypeOK
      <4>. QED BY <1>1, <4>1 DEF LiveCodes, Bound
    <3>. QED BY <3>1, <3>2
  <2>4. CASE \E h \in Handlers : RollsBack(h) \/ Marks(h)
    <3>1. \A h \in Handlers : pc[h] \in {"rollback_code", "mark_used"} => ~StoreCode(h)
      BY DEF StoreCode
    <3>2. PICK h \in Handlers : RollsBack(h) \/ Marks(h)
      BY <2>4
    <3>3. ~\E g \in Handlers : StoreCode(g)
      <4>1. pc[h] \in {"rollback_code", "mark_used"} /\ pc'[h] # pc[h]
        BY <1>0, <3>2 DEF RollsBack, Marks, LocalInv, Procs
      <4>2. ASSUME NEW g \in Handlers, StoreCode(g), g # h PROVE pc'[h] = pc[h]
        BY <1>0, <4>2 DEF StoreCode, Goto, Reply, LocalInv, Procs
      <4>. QED BY <3>1, <4>1, <4>2
    <3>. QED BY <2>1, <3>3, StepCodes
  <2>. QED BY <2>2, <2>3, <2>4, CodeMoves
<1>2. ASSUME NEW h \in Handlers,
             pc'[h] \in PastCheckCode, req'[h].codeId = c, req'[h].email = e
      PROVE  Bound(c, e)
  <2>0. req[h] \in ReqType /\ RegistrationMove(h)
    BY Registers DEF TypeInv, LocalInv, Procs
  <2>1. CASE pc[h] \in PastCheckCode /\ req'[h] = req[h]
    BY <1>2, <2>1 DEF Bound
  <2>2. CASE \E d \in ValidEmailCodes(req[h].email, req[h].code) :
               req'[h] = [req[h] EXCEPT !.codeId = d]
    <3>1. PICK d \in ValidEmailCodes(req[h].email, req[h].code) :
            req'[h] = [req[h] EXCEPT !.codeId = d]
      BY <2>2
    <3>2. d = c /\ req[h].email = e
      BY <1>2, <2>0, <3>1 DEF ReqType
    <3>3. d \in LiveCodes /\ emailCodes[d].email = req[h].email
      BY DEF ValidEmailCodes
    <3>. QED BY <3>2, <3>3 DEF Bound
  <2>. QED BY <1>2, <2>0, <2>1, <2>2
           DEF RegistrationMove, Registering, RegisterLabels, Stays
<1>3. ASSUME NEW u \in LiveUsers', origin'[u] = c, users'[u].email = e
      PROVE  Bound(c, e)
  <2>0. u \in UserId /\ u \in Nat /\ lastUserId \in Nat
    BY <1>0, StoreAssumption DEF LiveUsers, UserId, StoreTypeOK
  <2>1. CASE u <= lastUserId
    <3>1. u \in LiveUsers /\ users[u].email = e /\ origin[u] = c
      BY <1>0, <1>3, <2>0, <2>1, OriginKept DEF UsersStep
    <3>. QED BY <3>1 DEF Bound
  <2>2. CASE u > lastUserId
    <3>1. c # Nil
      BY RequestsAssumption
    <3>2. \E h \in Handlers : /\ pc[h] = "insert_user" /\ req[h].codeId = c
                              /\ req[h].email = e
      BY <1>3, <2>2, <3>1, NewAccount
    <3>. QED BY <3>2 DEF Bound
  <2>. QED BY <2>0, <2>1, <2>2
<1>4. \/ c \in LiveCodes' /\ emailCodes'[c].email = e
      \/ \E h \in Handlers :
           pc'[h] \in PastCheckCode /\ req'[h].codeId = c /\ req'[h].email = e
      \/ \E u \in LiveUsers' : origin'[u] = c /\ users'[u].email = e
  BY DEF Bound
<1>. QED BY <1>1, <1>2, <1>3, <1>4

LEMMA StepOrigin ==
  ASSUME TypeInv, IdInv, OriginInv, [Next]_vars
  PROVE  OriginInv'
<1>0. /\ StoreTypeOK /\ UsersStep /\ lastCodeId \in Nat /\ lastUserId \in Nat
      /\ lastUserId' \in Nat /\ lastUserId <= lastUserId'
      /\ CodeId \subseteq Nat /\ \A u \in UserId : u \in Nat
  BY StepUsers, StoreAssumption DEF TypeInv, StoreTypeOK, UsersStep, UserId, CodeId
<1>1. lastCodeId' \in Nat /\ lastCodeId <= lastCodeId'
  <2>1. TypeInv'
    BY TypeStep
  <2>2. lastCodeId' \in Nat
    BY <2>1, StoreAssumption DEF TypeInv, StoreTypeOK
  <2>3. lastCodeId' = lastCodeId \/ lastCodeId' = lastCodeId + 1
    BY CodeMoves DEF Stores, CreateEmailCode, RollsBack, Marks
  <2>. QED BY <1>0, <2>2, <2>3
<1>2. ASSUME NEW h \in Handlers, NEW code \in Codes, Stores(h, code)
      PROVE  lastCodeId' = lastCodeId + 1
  BY <1>2 DEF Stores, CreateEmailCode
<1>3. \A e \in Emails : lastCodeId + 1 \in CodeId => ~Bound(lastCodeId + 1, e)
  BY <1>0 DEF OriginInv
<1>4. ASSUME NEW c \in CodeId, NEW e \in Emails, Bound(c, e)'
      PROVE  c <= lastCodeId'
  <2>1. CASE Bound(c, e)
    <3>1. c <= lastCodeId /\ c \in Nat
      BY <1>0, <2>1 DEF OriginInv
    <3>. QED BY <1>0, <1>1, <3>1
  <2>2. CASE \E h \in Handlers : \E code \in Codes : Stores(h, code) /\ c = lastCodeId + 1
    BY <1>0, <1>2, <2>2
  <2>. QED BY <1>4, <2>1, <2>2, BoundMoves
<1>5. ASSUME NEW c \in CodeId, NEW e \in Emails, NEW f \in Emails, Bound(c, e)', Bound(c, f)'
      PROVE  e = f
  <2>1. CASE Bound(c, e) /\ Bound(c, f)
    BY <2>1 DEF OriginInv
  <2>2. CASE c = lastCodeId + 1
    <3>1. ~Bound(c, e) /\ ~Bound(c, f)
      BY <1>3, <2>2
    <3>2. PICK h \in Handlers : \E code \in Codes : Stores(h, code) /\ e = req[h].email
      BY <1>5, <3>1, BoundMoves
    <3>3. PICK g \in Handlers : \E code \in Codes : Stores(g, code) /\ f = req[g].email
      BY <1>5, <3>1, BoundMoves
    <3>4. g = h
      BY <3>2, <3>3 DEF Stores, TypeInv, LocalInv, Procs
    <3>. QED BY <3>2, <3>3, <3>4
  <2>3. (Bound(c, e) /\ Bound(c, f)) \/ c = lastCodeId + 1
    BY <1>5, BoundMoves
  <2>. QED BY <2>1, <2>2, <2>3
<1>6. ASSUME NEW u \in LiveUsers', NEW v \in LiveUsers', users'[u].email = users'[v].email
      PROVE  u = v
  <2>0. u \in Nat /\ v \in Nat
    BY <1>0 DEF LiveUsers
  <2>1. \A w \in LiveUsers' : w <= lastUserId =>
          w \in LiveUsers /\ users'[w].email = users[w].email
    BY <1>0 DEF UsersStep
  <2>2. CASE u <= lastUserId /\ v <= lastUserId
    BY <1>6, <2>1, <2>2 DEF OriginInv
  <2>3. CASE u > lastUserId
    <3>1. u = lastUserId + 1 /\ \A w \in LiveUsers : users[w].email # users'[u].email
      BY <2>3, NewAccount
    <3>2. CASE v <= lastUserId
      BY <1>6, <2>1, <3>1, <3>2
    <3>3. CASE v > lastUserId
      BY <3>1, <3>3, NewAccount
    <3>. QED BY <1>0, <2>0, <3>2, <3>3
  <2>4. CASE u <= lastUserId /\ v > lastUserId
    <3>1. \A w \in LiveUsers : users[w].email # users'[v].email
      BY <2>4, NewAccount
    <3>. QED BY <1>6, <2>1, <2>4, <3>1
  <2>. QED BY <1>0, <2>0, <2>2, <2>3, <2>4
<1>7. ASSUME NEW u \in UserId, u > lastUserId'
      PROVE  origin'[u] = Nil
  <2>1. u > lastUserId
    BY <1>0, <1>7
  <2>. QED BY <1>7, <2>1, OriginKept DEF OriginInv
<1>8. \A c \in CodeId, e \in Emails : Bound(c, e)' => c <= lastCodeId'
  BY <1>4
<1>9. \A c \in CodeId : \A e, f \in Emails : Bound(c, e)' /\ Bound(c, f)' => e = f
  BY <1>5
<1>. QED BY <1>6, <1>7, <1>8, <1>9 DEF OriginInv

\* At most one account in the table was registered with a given code, for any number
\* of registrations that pass CheckCode before one of them marks the code used, and
\* whatever statements fail, marks are lost, rows are rolled back, processes are killed,
\* accounts are deleted and commands run: the code is bound to one address, and the
\* address to one account. (auth.go Register, methods.go GetValidEmailCode)
THEOREM OneAccountPerCodeHolds == Spec => []OneAccountPerCode
<1>1. Init => TypeInv /\ IdInv /\ OriginInv
  <2>1. Init => OriginInv
    BY StoreAssumption
       DEF Init, StoreInit, RequestsInit, OriginInv, Bound, PastCheckCode, LiveCodes, LiveUsers,
           Procs
  <2>. QED BY <2>1, TypeInit, InitIdInv
<1>2. TypeInv /\ IdInv /\ OriginInv /\ [Next]_vars => (TypeInv /\ IdInv /\ OriginInv)'
  BY TypeStep, StepIdInv, StepOrigin
<1>3. TypeInv /\ OriginInv => OneAccountPerCode
  <2>1. ASSUME TypeInv, OriginInv, NEW u \in LiveUsers, NEW v \in LiveUsers,
               origin[u] # Nil, origin[u] = origin[v]
        PROVE  u = v
    <3>1. /\ u \in UserId /\ users[u].email \in Emails /\ users[v].email \in Emails
      BY <2>1 DEF TypeInv, StoreTypeOK, LiveUsers, UserRow
    <3>2. origin[u] \in CodeId
      BY <2>1, <3>1 DEF TypeInv, LogInv
    <3>3. Bound(origin[u], users[u].email) /\ Bound(origin[u], users[v].email)
      BY <2>1 DEF Bound
    <3>. QED BY <2>1, <3>1, <3>2, <3>3 DEF OriginInv
  <2>. QED BY <2>1 DEF OneAccountPerCode
<1>. QED BY <1>1, <1>2, <1>3, PTL DEF Spec
=============================================================================
