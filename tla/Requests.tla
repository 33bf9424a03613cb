------------------------------ MODULE Requests ------------------------------
(***************************************************************************)
(* What a request in progress knows, for the handlers of internal/httpapi  *)
(* and for the administration commands, which run the same store methods   *)
(* from a process of their own.                                            *)
(*                                                                         *)
(* net/http runs every request in a goroutine of its own; Handlers is the  *)
(* set of requests that may be in progress at once, and pc names the       *)
(* statement a request executes next.  The fields of req are the handler's *)
(* local variables, copies of what it read, which may be stale when used.  *)
(* An answer ends the request: a rejected input changes nothing and is no  *)
(* action, and the status and text of an answer are named in comments.     *)
(***************************************************************************)
EXTENDS AccountStore

CONSTANTS
  Handlers,      \* requests the server may be executing at once
  Clis,          \* administration commands that may be running at once
  Ops            \* the requests and commands the clients of this instance issue

VARIABLES
  pc,      \* Handlers \cup Clis -> label of the next statement
  req,     \* Handlers \cup Clis -> local variables
  tokens,  \* access tokens issued so far, as their claims
  \* history variables: nothing reads them but properties
  founders,   \* users made admin for being the first to register
  seen,       \* code row -> newest code row there was at its request's 60-second count
  mailed,     \* codes that reached a mailbox, with the expiry the mail promises
  origin      \* user id -> code row its registration was let in with, or Nil

vars == <<users, lastUserId, emailCodes, lastCodeId, loginLogs, now,
          pc, req, tokens, founders, seen, mailed, origin>>

history == <<founders, seen, mailed, origin>>

\* What an operation on accounts never touches.
accountOthers == <<lastUserId, emailCodes, lastCodeId, loginLogs>>

Procs == Handlers \cup Clis

AdminOps == {"ban", "unban", "delete", "promote"}
AllOps == {"send_code", "register", "login", "create_admin"} \cup AdminOps

SendCodeLabels == {"count_day", "count_minute", "store_code", "send_mail",
                   "rollback_code"}
RegisterLabels == {"check_code", "check_email", "check_name", "insert_user",
                   "create_failed", "reread_user", "count_users",
                   "promote_first", "mark_used", "issue_token"}
LoginLabels == {"login_read", "login_log", "issue_token"}
AdminLabels == {"require_admin", "read_target", "write_target", "notify"}
CliLabels == {"cli_read", "cli_write", "cli_email", "cli_name", "cli_insert",
              "cli_reread", "cli_promote"}

HandlerLabels == SendCodeLabels \cup RegisterLabels \cup LoginLabels \cup AdminLabels

Token == [uid : UserId, name : Names, role : Roles]
Mail == [id : CodeId, expires : Nat]

ReqType == [op : AllOps \cup {Nil}, email : Emails \cup {Nil},
            name : Names \cup {Nil}, password : Passwords \cup {Nil},
            code : Codes \cup {Nil}, codeId : CodeId \cup {Nil},
            expires : Nat, seen : 0..MaxCodes,
            uid : UserId \cup {Nil}, target : UserId \cup {Nil},
            role : Roles \cup {Nil}]

NoReq == [op |-> Nil, email |-> Nil, name |-> Nil, password |-> Nil,
          code |-> Nil, codeId |-> Nil, expires |-> 0, seen |-> 0,
          uid |-> Nil, target |-> Nil, role |-> Nil]

ASSUME RequestsAssumption ==
  /\ Handlers \cap Clis = {}
  /\ Ops \subseteq AllOps
  /\ Nil \notin UserId /\ Nil \notin CodeId

RequestsTypeOK ==
  /\ pc \in [Procs -> {"idle"} \cup HandlerLabels \cup CliLabels]
  /\ req \in [Procs -> ReqType]
  /\ tokens \subseteq Token
  /\ founders \subseteq UserId
  /\ seen \in [CodeId -> 0..MaxCodes]
  /\ mailed \subseteq Mail
  /\ origin \in [UserId -> CodeId \cup {Nil}]

RequestsInit ==
  /\ pc = [p \in Procs |-> "idle"]
  /\ req = [p \in Procs |-> NoReq]
  /\ tokens = {}
  /\ founders = {}
  /\ seen = [c \in CodeId |-> 0]
  /\ mailed = {}
  /\ origin = [u \in UserId |-> Nil]

\* p takes a request or a command and goes to its first statement.
Begin(p, label, r) ==
  /\ pc[p] = "idle"
  /\ pc' = [pc EXCEPT ![p] = label]
  /\ req' = [req EXCEPT ![p] = r]

\* p goes on to the statement at another label.
Goto(p, label) == pc' = [pc EXCEPT ![p] = label]

\* p answers; its local variables are gone.
Reply(p) ==
  /\ pc' = [pc EXCEPT ![p] = "idle"]
  /\ req' = [req EXCEPT ![p] = NoReq]
=============================================================================
