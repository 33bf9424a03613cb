------------------------------ MODULE AdminCLI ------------------------------
(***************************************************************************)
(* The commands of cmd/hyacine-cli, and the create-admin and promote of    *)
(* cmd/hyacine-server, which are the same code: a process of its own that  *)
(* opens the data directory of a server that may be running and executes   *)
(* store methods on it.  list and status only read.                        *)
(***************************************************************************)
EXTENDS Requests

\* promote, ban, unban and delete, started on an account id.
Command(c) ==
  /\ \E op \in AdminOps \cap Ops, target \in UserId :
       Begin(c, "cli_read", [NoReq EXCEPT !.op = op, !.target = target])
  /\ UNCHANGED <<storeVars, now, tokens, history>>

\* promote has nothing to do for an admin; ban and delete refuse one.
MayCommand(op, u) ==
  /\ users[u] # Nil
  /\ op # "unban" => users[u].role # "admin"

CliRead(c) ==
  /\ pc[c] = "cli_read"
  /\ \/ /\ MayCommand(req[c].op, req[c].target)
        /\ Goto(c, "cli_write")
        /\ UNCHANGED req
     \/ /\ StoreFails \/ ~MayCommand(req[c].op, req[c].target)
        /\ Reply(c)
  /\ UNCHANGED <<storeVars, now, tokens, history>>

CliWrite(c) ==
  /\ pc[c] = "cli_write"
  /\ Reply(c)
  /\ \/ req[c].op = "promote" /\ UpdateUserRole(req[c].target, "admin")
     \/ req[c].op = "ban" /\ BanUser(req[c].target)
     \/ req[c].op = "unban" /\ UnbanUser(req[c].target)
     \/ req[c].op = "delete" /\ DeleteUser(req[c].target)
     \/ StoreFails /\ UNCHANGED users
  /\ UNCHANGED <<accountOthers, now, tokens, history>>

-----------------------------------------------------------------------------
(* create-admin *)

CreateAdmin(c) ==
  /\ "create_admin" \in Ops
  /\ \E name \in Names, email \in Emails, password \in Passwords :
       Begin(c, "cli_email",
             [NoReq EXCEPT !.op = "create_admin", !.name = name, !.email = email,
                           !.password = password])
  /\ UNCHANGED <<storeVars, now, tokens, history>>

\* A failed query counts as not registered, here and in cli_name.
CliEmail(c) ==
  /\ pc[c] = "cli_email"
  /\ \/ /\ StoreFails \/ UsersByEmail(req[c].email) = {}
        /\ Goto(c, "cli_name")
        /\ UNCHANGED req
     \/ /\ UsersByEmail(req[c].email) # {}
        /\ Reply(c)
  /\ UNCHANGED <<storeVars, now, tokens, history>>

CliName(c) ==
  /\ pc[c] = "cli_name"
  /\ \/ /\ StoreFails \/ UsersByUsername(req[c].name) = {}
        /\ Goto(c, "cli_insert")
        /\ UNCHANGED req
     \/ /\ UsersByUsername(req[c].name) # {}
        /\ Reply(c)
  /\ UNCHANGED <<storeVars, now, tokens, history>>

\* The two statements of CreateUser.
CliInsert(c) ==
  /\ pc[c] = "cli_insert"
  /\ \/ /\ Goto(c, "cli_reread")
        /\ InsertUser(req[c].name, req[c].email, req[c].password)
        /\ req' = [req EXCEPT ![c].uid = NewUserId]
     \/ /\ StoreFails \/ ~Insertable(req[c].name, req[c].email)
        /\ Reply(c)
        /\ UNCHANGED <<users, lastUserId>>
  /\ UNCHANGED <<emailCodes, lastCodeId, loginLogs, now, tokens, history>>

CliReread(c) ==
  /\ pc[c] = "cli_reread"
  /\ \/ /\ users[req[c].uid] # Nil
        /\ Goto(c, "cli_promote")
        /\ UNCHANGED req
     \/ /\ StoreFails \/ users[req[c].uid] = Nil
        /\ Reply(c)
  /\ UNCHANGED <<storeVars, now, tokens, history>>

CliPromote(c) ==
  /\ pc[c] = "cli_promote"
  /\ Reply(c)
  /\ UpdateUserRole(req[c].uid, "admin") \/ (StoreFails /\ UNCHANGED users)
  /\ UNCHANGED <<accountOthers, now, tokens, history>>

CliStep(c) ==
  \/ CliRead(c) \/ CliWrite(c)
  \/ CliEmail(c) \/ CliName(c) \/ CliInsert(c) \/ CliReread(c) \/ CliPromote(c)
=============================================================================
