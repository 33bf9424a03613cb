----------------------------- MODULE MCAccounts -----------------------------
(***************************************************************************)
(* AccountServer for TLC: the symmetry sets the .cfg files name, and a     *)
(* later starting point for the runs that are not about SendCode.  Values  *)
(* of each kind, and requests, are only compared for equality, so          *)
(* permuting them maps behaviours to behaviours.                           *)
(***************************************************************************)
EXTENDS AccountServer, SequencesExt

CodeSymmetry == Permutations(Handlers) \cup Permutations(Emails) \cup Permutations(Codes)
NameSymmetry == Permutations(Handlers) \cup Permutations(Names)

\* Every address has asked for a code and received it: the state of Init after
\* one SendCode per address, run to its answer.  Needs MaxCodes >= |Emails|.
CodesSent ==
  LET owner == SetToSeq(Emails) IN
  /\ users = [u \in UserId |-> Nil] /\ lastUserId = 0
  /\ lastCodeId = Len(owner)
  /\ emailCodes = [c \in CodeId |->
       IF c > Len(owner) THEN Nil
       ELSE [email |-> owner[c], code |-> CHOOSE code \in Codes : TRUE,
             created |-> 0, expires |-> CodeTTL, used |-> FALSE]]
  /\ loginLogs = {} /\ now = 0
  /\ pc = [p \in Procs |-> "idle"] /\ req = [p \in Procs |-> NoReq]
  /\ tokens = {} /\ founders = {}
  /\ seen = [c \in CodeId |-> IF c > Len(owner) THEN 0 ELSE c - 1]
  /\ mailed = {[id |-> c, expires |-> CodeTTL] : c \in 1..Len(owner)}
  /\ origin = [u \in UserId |-> Nil]

SpecCodesSent == CodesSent /\ [][Next]_vars
=============================================================================
