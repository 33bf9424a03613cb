--------------------------- MODULE AccountServer ---------------------------
(***************************************************************************)
(* The account side of a hyacine-server: concurrent requests to SendCode,  *)
(* Register, Login and the admin endpoints, administration commands run    *)
(* beside them, the clock, and crashes of either process, all on the       *)
(* tables of one data directory.                                           *)
(***************************************************************************)
EXTENDS AuthHandlers, AdminHandlers, AdminCLI

CONSTANT Crashes  \* whether the processes may be killed

ASSUME CrashAssumption == Crashes \in BOOLEAN

Init == StoreInit /\ RequestsInit

\* A request arrives while fewer than Handlers are in progress.
Arrive(h) == SendCode(h) \/ Register(h) \/ Login(h) \/ AdminRequest(h)

HandlerStep(h) == SendCodeStep(h) \/ RegisterStep(h) \/ LoginStep(h) \/ AdminStep(h)

TimePasses == Tick /\ UNCHANGED <<pc, req, tokens, history>>

\* The process dies with every request in progress; the tables stay, and so
\* does the secret in config.json, so tokens stay good.
ServerCrash ==
  /\ Crashes
  /\ \E h \in Handlers : pc[h] # "idle"
  /\ pc' = [p \in Procs |-> IF p \in Handlers THEN "idle" ELSE pc[p]]
  /\ req' = [p \in Procs |-> IF p \in Handlers THEN NoReq ELSE req[p]]
  /\ UNCHANGED <<storeVars, now, tokens, history>>

CliKill(c) ==
  /\ Crashes
  /\ pc[c] # "idle"
  /\ pc' = [pc EXCEPT ![c] = "idle"]
  /\ req' = [req EXCEPT ![c] = NoReq]
  /\ UNCHANGED <<storeVars, now, tokens, history>>

Next ==
  \/ TimePasses
  \/ \E h \in Handlers : Arrive(h) \/ HandlerStep(h)
  \/ \E c \in Clis : Command(c) \/ CreateAdmin(c) \/ CliStep(c) \/ CliKill(c)
  \/ ServerCrash

Spec == Init /\ [][Next]_vars

\* The mail client sets no deadline: a request may wait for the mail server for good.
AtMailServer == {"send_mail", "notify"}

\* The runtime schedules every goroutine and every statement returns; mail may not.
FairSpec ==
  Spec /\ \A h \in Handlers : WF_vars(pc[h] \notin AtMailServer /\ HandlerStep(h))

-----------------------------------------------------------------------------
(* Types *)

\* Every table, local variable and history variable has its type.
AccountTypeOK == StoreTypeOK /\ RequestsTypeOK

-----------------------------------------------------------------------------
(* The rate limit of SendCode *)

OneAddress(c, d) == c # d /\ emailCodes[c].email = emailCodes[d].email

\* A code that was in the table when the 60-second count of a later code ran is
\* at least that much older: the limiter fails only between overlapping requests.
\* (auth.go SendCode, with the server's clock not ahead of UTC)
SpacedUnlessOverlapping ==
  \A c, d \in LiveCodes :
    OneAddress(c, d) /\ c <= seen[d] =>
      emailCodes[d].created >= emailCodes[c].created + ShortWindow

\* Overlap is bounded by the requests in progress: at most one code beyond the
\* daily limit per request that may overlap the last one counted.
DayBound ==
  \A email \in Emails, t \in 0..now :
    Cardinality({c \in LiveCodes : /\ emailCodes[c].email = email
                                   /\ emailCodes[c].created \in (t - DayWindow + 1)..t})
      <= DayLimit - 1 + Cardinality(Handlers)

\* What the 429 answer says: another code only after 60 seconds.
OneCodePerMinute ==
  \A c, d \in LiveCodes :
    OneAddress(c, d) /\ c < d =>
      emailCodes[d].created >= emailCodes[c].created + ShortWindow

\* A code that reached a mailbox registers its address until the mail's five
\* minutes are over or it is used: no rollback takes its row away.
MailedCodeIsValid ==
  \A m \in mailed : m.expires > now => emailCodes[m.id] # Nil

-----------------------------------------------------------------------------
(* Accounts and tokens *)

\* At most one account in the table owes its role to being the first one, however
\* registrations, commands, deletions and crashes interleave. (auth.go Register)
FounderUnique ==
  \A u, v \in founders : u \in LiveUsers /\ v \in LiveUsers => u = v

\* A token, or a row of the login history, never comes to name another person's
\* account: the account of its id is the one it was made for, or is gone.
\* (store.go users AUTOINCREMENT; auth.go getUserFromRequest, admin.go requireAdmin)
IdentityStable ==
  \A t \in tokens \cup loginLogs : t.uid \in LiveUsers => users[t.uid].username = t.name

\* Accounts, none of them an admin, and no request that could still make one: a
\* registration yet to count the accounts will count two or more.
LockedOut ==
  /\ LiveUsers # {}
  /\ \A u \in LiveUsers : users[u].role = "user"
  /\ \A h \in Handlers : pc[h] \notin {"read_target", "write_target", "promote_first"}
  /\ \A h \in Handlers :
       pc[h] \in {"reread_user", "count_users"} => Cardinality(LiveUsers) > 1

\* Without the command line, a server that lost its last admin never has one
\* again: the first-account rule does not come back. (admin.go PromoteUser)
LockoutIsPermanent == [][LockedOut => LockedOut']_vars

\* "cannot delete admin users": no step deletes an account that is an admin at that
\* moment. (admin.go)
DeleteSparesAdmins == [][\A u \in UserId : IsAdmin(u) => users'[u] # Nil]_vars

Quiet == \A p \in Procs : pc[p] = "idle"

\* A server whose only registration ever is over has made it an admin; that the role
\* can go to nobody takes a second registration. (auth.go Register)
FirstAccountIsAdmin == Quiet /\ lastUserId = 1 => 1 \in founders

\* No code is spent twice: of all accounts in the table at most one was registered with
\* it, though any number of requests may have passed CheckCode before one of them marks
\* it used, and the mark may fail, find the row rolled back, or never be made. Deleting
\* the account frees its code again where it was not marked. (auth.go Register)
OneAccountPerCode ==
  \A u, v \in LiveUsers : origin[u] # Nil /\ origin[u] = origin[v] => u = v

-----------------------------------------------------------------------------
(* Liveness *)

\* Every request is answered, waits for the mail server, or dies with its process,
\* whatever statements fail on the way. (auth.go, admin.go)
AnsweredUnlessMailing ==
  \A h \in Handlers : pc[h] # "idle" ~> pc[h] \in {"idle"} \cup AtMailServer
=============================================================================
