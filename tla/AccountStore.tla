---------------------------- MODULE AccountStore ----------------------------
(***************************************************************************)
(* The SQLite tables of internal/store and the statements its methods run. *)
(*                                                                         *)
(* Every method of the store is one SQL statement in autocommit mode (the  *)
(* two exceptions, CreateUser and ListUsers, are two), so a statement is   *)
(* the unit of atomicity: handlers interleave between statements, never    *)
(* inside one.  A query is a state function here; an update is an action   *)
(* on the table it writes.  The columns no property needs (ban_reason,     *)
(* created_at and updated_at of users, ip and user_agent of login_logs)    *)
(* are left out.                                                           *)
(***************************************************************************)
EXTENDS Integers, FiniteSets

CONSTANTS
  Names, Emails, Passwords, \* values of the columns username, email, password
  Codes,                    \* verification codes GenerateCode may return
  MaxUsers, MaxCodes,       \* largest rowid of either table; an INSERT beyond it fails
  MaxTime,                  \* bound on the clock
  CodeTTL,                  \* time.Now().Add(5*time.Minute) in SendCode
  ZoneOffset,               \* local time minus UTC of the server process
  StoreFails,               \* whether a statement may return an error (SQLITE_BUSY, I/O)
  Nil                       \* no row, no value

VARIABLES
  users,       \* table users: rowid -> row or Nil
  lastUserId,  \* sqlite_sequence of users
  emailCodes,  \* table email_codes: rowid -> row or Nil
  lastCodeId,  \* sqlite_sequence of email_codes
  loginLogs,   \* table login_logs, as a set of rows
  now          \* the clock all the processes of the machine read

storeVars == <<users, lastUserId, emailCodes, lastCodeId, loginLogs>>

UserId == 1..MaxUsers
CodeId == 1..MaxCodes
Roles == {"user", "admin"}

UserRow == [username : Names, email : Emails, password : Passwords,
            role : Roles, banned : BOOLEAN]
CodeRow == [email : Emails, code : Codes, created : Nat, expires : Nat,
            used : BOOLEAN]
LoginRow == [uid : UserId, name : Names]

ASSUME StoreAssumption ==
  /\ MaxUsers \in Nat /\ MaxCodes \in Nat /\ MaxTime \in Nat
  /\ CodeTTL \in Nat \ {0}
  /\ ZoneOffset \in Int
  /\ StoreFails \in BOOLEAN

ASSUME NilAssumption ==
  /\ Nil \notin UserRow
  /\ Nil \notin CodeRow

StoreTypeOK ==
  /\ users \in [UserId -> UserRow \cup {Nil}]
  /\ lastUserId \in 0..MaxUsers
  /\ emailCodes \in [CodeId -> CodeRow \cup {Nil}]
  /\ lastCodeId \in 0..MaxCodes
  /\ loginLogs \subseteq LoginRow
  /\ now \in 0..MaxTime

\* The tables as migrate leaves them in a new data directory.
StoreInit ==
  /\ users = [u \in UserId |-> Nil]
  /\ lastUserId = 0
  /\ emailCodes = [c \in CodeId |-> Nil]
  /\ lastCodeId = 0
  /\ loginLogs = {}
  /\ now = 0

-----------------------------------------------------------------------------
(* The table users *)

LiveUsers == {u \in UserId : users[u] # Nil}

UsersByEmail(email) == {u \in LiveUsers : users[u].email = email}
UsersByUsername(name) == {u \in LiveUsers : users[u].username = name}

\* What INSERT INTO users needs: a rowid left, and both UNIQUE columns free.
Insertable(name, email) ==
  /\ lastUserId < MaxUsers
  /\ UsersByEmail(email) = {}
  /\ UsersByUsername(name) = {}

\* Mutant: without AUTOINCREMENT SQLite takes one above the largest rowid in use.
LargestRowidPlusOne ==
  CHOOSE n \in 1..MaxUsers + 1 :
    /\ \A u \in LiveUsers : u < n
    /\ n > 1 => n - 1 \in LiveUsers

\* INTEGER PRIMARY KEY AUTOINCREMENT: the new rowid is above every rowid the
\* table ever held, whether or not that row is still there.
NewUserId == lastUserId + 1

\* The INSERT of CreateUser: role and banned take their DEFAULTs.
InsertUser(name, email, password) ==
  /\ Insertable(name, email)
  /\ users' = [users EXCEPT ![NewUserId] =
                 [username |-> name, email |-> email, password |-> password,
                  role |-> "user", banned |-> FALSE]]
  /\ lastUserId' = IF NewUserId > lastUserId THEN NewUserId ELSE lastUserId

\* An UPDATE or DELETE of an id that is gone matches no row and is no error.
UpdateUserRole(id, role) ==
  users' = [users EXCEPT ![id] = IF @ = Nil THEN Nil ELSE [@ EXCEPT !.role = role]]

BanUser(id) ==
  users' = [users EXCEPT ![id] = IF @ = Nil THEN Nil ELSE [@ EXCEPT !.banned = TRUE]]

UnbanUser(id) ==
  users' = [users EXCEPT ![id] = IF @ = Nil THEN Nil ELSE [@ EXCEPT !.banned = FALSE]]

DeleteUser(id) == users' = [users EXCEPT ![id] = Nil]

-----------------------------------------------------------------------------
(* The table email_codes *)

LiveCodes == {c \in CodeId : emailCodes[c] # Nil}

\* Mutant: the lifetime is subtracted.
CreateEmailCodeBackdated(email, code) ==
  /\ lastCodeId < MaxCodes
  /\ lastCodeId' = lastCodeId + 1
  /\ emailCodes' = [emailCodes EXCEPT ![lastCodeId + 1] =
                      [email |-> email, code |-> code, created |-> now,
                       expires |-> now - CodeTTL, used |-> FALSE]]

CreateEmailCode(email, code) ==
  /\ lastCodeId < MaxCodes
  /\ lastCodeId' = lastCodeId + 1
  /\ emailCodes' = [emailCodes EXCEPT ![lastCodeId + 1] =
                      [email |-> email, code |-> code, created |-> now,
                       expires |-> now + CodeTTL, used |-> FALSE]]

\* Mutant: the query compares the value of the code and not the address.
ValidCodesOfAnyone(email, code) ==
  {c \in LiveCodes : /\ emailCodes[c].code = code
                     /\ ~emailCodes[c].used
                     /\ emailCodes[c].expires > now}

\* Both sides of expires_at > ? are written by the Go process in its own zone.
ValidEmailCodes(email, code) ==
  {c \in LiveCodes : /\ emailCodes[c].email = email
                     /\ emailCodes[c].code = code
                     /\ ~emailCodes[c].used
                     /\ emailCodes[c].expires > now}

\* created_at is CURRENT_TIMESTAMP, which SQLite writes in UTC; the bound of
\* created_at > ? is time.Now().Add(-window), which the driver writes as the
\* local wall clock, and the two are compared as text.
RecentEmailCodes(email, window) ==
  {c \in LiveCodes : /\ emailCodes[c].email = email
                     /\ emailCodes[c].created > (now + ZoneOffset) - window}

CountRecentEmailCodes(email, window) == Cardinality(RecentEmailCodes(email, window))

MarkEmailCodeUsed(id) ==
  emailCodes' = [emailCodes EXCEPT ![id] =
                   IF @ = Nil THEN Nil ELSE [@ EXCEPT !.used = TRUE]]

\* Mutant: the rollback deletes every unused code of the address.
DeleteEmailCodesOfAddress(email, code) ==
  emailCodes' = [c \in CodeId |->
                   IF emailCodes[c] # Nil /\ emailCodes[c].email = email /\ ~emailCodes[c].used
                   THEN Nil
                   ELSE emailCodes[c]]

\* The rollback names the row by its address and value, not by its rowid.
DeleteEmailCode(email, code) ==
  emailCodes' = [c \in CodeId |->
                   IF /\ emailCodes[c] # Nil
                      /\ emailCodes[c].email = email
                      /\ emailCodes[c].code = code
                      /\ ~emailCodes[c].used
                   THEN Nil
                   ELSE emailCodes[c]]

-----------------------------------------------------------------------------
(* The table login_logs and the clock *)

\* The ip and user agent of the row stand for the person who logged in.
CreateLoginLog(id, name) == loginLogs' = loginLogs \cup {[uid |-> id, name |-> name]}

Tick ==
  /\ now < MaxTime
  /\ now' = now + 1
  /\ UNCHANGED storeVars
=============================================================================
