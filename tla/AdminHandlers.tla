--------------------------- MODULE AdminHandlers ---------------------------
(***************************************************************************)
(* The AdminHandler of internal/httpapi/admin.go: requireAdmin, then a     *)
(* read of the account the request names, then one UPDATE or DELETE of it. *)
(* The decision rests on two rows read in earlier statements; the write    *)
(* looks at neither.  ListUsers and Stats only read.                       *)
(***************************************************************************)
EXTENDS Requests

\* A request that carries a token the server issued; any other is answered
\* 401 before the store is asked.  Only PromoteUser has a role in its body.
AdminRequest(h) ==
  /\ \E op \in AdminOps \cap Ops, t \in tokens, target \in UserId, role \in Roles :
       /\ op # "promote" => role = "user"
       /\ Begin(h, "require_admin",
                [NoReq EXCEPT !.op = op, !.uid = t.uid, !.target = target,
                              !.role = IF op = "promote" THEN role ELSE Nil])
  /\ UNCHANGED <<storeVars, now, tokens, history>>

IsAdmin(u) == users[u] # Nil /\ users[u].role = "admin"

\* Mutant: the role the token claims decides.
RequireAdminClaim(h) ==
  /\ pc[h] = "require_admin"
  /\ \/ /\ \E t \in tokens : t.uid = req[h].uid /\ t.role = "admin"
        /\ Goto(h, "read_target")
        /\ UNCHANGED req
     \/ /\ \A t \in tokens : t.uid = req[h].uid => t.role # "admin"
        /\ Reply(h)
  /\ UNCHANGED <<storeVars, now, tokens, history>>

\* The row of the token's account decides, not the role the token claims, and
\* its banned column is not looked at.  401 "user not found", 403 otherwise.
RequireAdmin(h) ==
  /\ pc[h] = "require_admin"
  /\ \/ /\ IsAdmin(req[h].uid)
        /\ Goto(h, "read_target")
        /\ UNCHANGED req
     \/ /\ StoreFails \/ ~IsAdmin(req[h].uid)
        /\ Reply(h)
  /\ UNCHANGED <<storeVars, now, tokens, history>>

\* BanUser and DeleteUser refuse an admin (403); UnbanUser and PromoteUser do not.
MayTarget(op, u) ==
  /\ users[u] # Nil
  /\ op \in {"ban", "delete"} => users[u].role # "admin"

ReadTarget(h) ==
  /\ pc[h] = "read_target"
  /\ \/ /\ MayTarget(req[h].op, req[h].target)
        /\ Goto(h, "write_target")
        /\ UNCHANGED req
     \/ /\ StoreFails \/ ~MayTarget(req[h].op, req[h].target)
        /\ Reply(h)
  /\ UNCHANGED <<storeVars, now, tokens, history>>

\* What each of the four does to the target; a failed write is answered 500.
BanTarget(h) ==
  /\ pc[h] = "write_target"
  /\ req[h].op = "ban"
  /\ Goto(h, "notify")
  /\ BanUser(req[h].target)
  /\ UNCHANGED <<accountOthers, now, req, tokens, history>>

UnbanTarget(h) ==
  /\ pc[h] = "write_target"
  /\ req[h].op = "unban"
  /\ Goto(h, "notify")
  /\ UnbanUser(req[h].target)
  /\ UNCHANGED <<accountOthers, now, req, tokens, history>>

DeleteTarget(h) ==
  /\ pc[h] = "write_target"
  /\ req[h].op = "delete"
  /\ Reply(h)
  /\ DeleteUser(req[h].target)
  /\ UNCHANGED <<accountOthers, now, tokens, history>>

PromoteTarget(h) ==
  /\ pc[h] = "write_target"
  /\ req[h].op = "promote"
  /\ Reply(h)
  /\ UpdateUserRole(req[h].target, req[h].role)
  /\ UNCHANGED <<accountOthers, now, tokens, history>>

WriteFails(h) ==
  /\ pc[h] = "write_target"
  /\ StoreFails
  /\ Reply(h)
  /\ UNCHANGED <<storeVars, now, tokens, history>>

\* The mail to the banned or unbanned account; its result is dropped.
Notify(h) ==
  /\ pc[h] = "notify"
  /\ Reply(h)
  /\ UNCHANGED <<storeVars, now, tokens, history>>

AdminStep(h) ==
  \/ RequireAdmin(h) \/ ReadTarget(h)
  \/ BanTarget(h) \/ UnbanTarget(h) \/ DeleteTarget(h) \/ PromoteTarget(h)
  \/ WriteFails(h) \/ Notify(h)
=============================================================================
