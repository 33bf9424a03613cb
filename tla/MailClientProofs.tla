-------------------------- MODULE MailClientProofs --------------------------
(***************************************************************************)
(* What a send promises, for every server, setting and sequence of         *)
(* failures.  MailInv says what an attempt knows of the one before it.     *)
(***************************************************************************)
EXTENDS MailClient, TLAPS

\* What is behind a failure that is nobody's hitch.
Misfit ==
  \/ ~server.trusted
  \/ (config.encryption \in {"ssl", "tls"}) # server.implicit
  \/ ~server.implicit /\ ~server.starttls
  \/ "PLAIN" \notin server.mechs
  \/ ~(server.lax \/ server.right)

Reason == hitches # {} \/ Misfit

Attempting == {"connect", "authenticate", "envelope", "transfer"}

\* A first attempt has put nothing into the mailbox before its body is
\* accepted, a second one at most the copy of the first.
CopiesInv ==
  /\ pc = "idle" => copies = 0 /\ mech = "PLAIN"
  /\ pc \in Attempting /\ mech = "PLAIN" => copies = 0
  /\ pc \in Attempting /\ mech = "LOGIN" => copies \in {0, 1}
  /\ pc = "quit" => copies \in 1..2 /\ (mech = "PLAIN" => copies = 1)
  /\ result = "ok" => copies > 0

\* LOGIN gets past authentication only at a server that takes anything.
LoginInv ==
  /\ pc \in {"envelope", "transfer", "quit"} /\ mech = "LOGIN" => server.lax
  /\ AtMostOneCopy

\* What a failed attempt leaves behind when its mail is in the mailbox.
Doubtful == "unconfirmed" \in hitches \/ (~TLS /\ "farewell" \in hitches)

\* A copy of an attempt that is over was not confirmed, or was before a QUIT
\* that failed; only STARTTLS gets to QUIT.
ConfirmInv ==
  /\ pc \in Attempting /\ copies > 0 => Doubtful
  /\ pc = "quit" => ~TLS
  /\ DeliveredButFailed

\* A second attempt has the reason of the failure of the first.
ReasonInv ==
  /\ pc \in {"authenticate", "envelope", "transfer", "quit"} => TLS = server.implicit
  /\ mech = "LOGIN" => Reason
  /\ result = "error" => Reason \/ ~config.host

MailInv == MailTypeOK /\ CopiesInv /\ LoginInv /\ ConfirmInv /\ ReasonInv

-----------------------------------------------------------------------------
(* What one step does *)

\* A failure starts the one further attempt or ends the send.
LEMMA FailsCases ==
  ASSUME NEW error, Fails(error), MailTypeOK
  PROVE  \/ mech = "PLAIN" /\ pc' = "connect" /\ mech' = "LOGIN" /\ result' = result
         \/ pc' = "done" /\ result' = "error" /\ mech' = mech
BY DEF Fails, Return, MailTypeOK

\* An obstacle to authentication is the server's or the setting's.
LEMMA ObstacleReason ==
  ASSUME MailTypeOK, TLS = server.implicit, mech = "PLAIN", Obstacle # None
  PROVE  Misfit
BY DEF MailTypeOK, Servers, Configs, Obstacle, Misfit, TLS, Encrypted, Admits, Layers, Mechanisms

LEMMA MailInvInit ==
  ASSUME MailAssumption, Init
  PROVE  MailInv
<1> USE DEF MailAssumption, Init
<1>1. MailTypeOK
  BY DEF MailTypeOK, Exchanges, Mechanisms
<1>2. CopiesInv /\ LoginInv
  BY DEF CopiesInv, LoginInv, AtMostOneCopy, Attempting
<1>3. ConfirmInv /\ ReasonInv
  BY DEF ConfirmInv, DeliveredButFailed, Doubtful, TLS, ReasonInv, Attempting
<1> QED BY <1>1, <1>2, <1>3 DEF MailInv

LEMMA MailInvNext ==
  ASSUME MailAssumption, MailInv, [Next]_vars
  PROVE  MailInv'
<1> USE DEF MailInv
<1> DEFINE Same == config' = config /\ server' = server
<1>1. ASSUME UNCHANGED vars
      PROVE  MailInv'
  BY <1>1 DEF vars, MailTypeOK, CopiesInv, LoginInv, ConfirmInv, ReasonInv, AtMostOneCopy,
              DeliveredButFailed, Doubtful, Reason, Misfit, TLS
\* Every failure of an attempt whose copy, if any, goes unconfirmed.
<1>2. ASSUME NEW error, Fails(error), Same,
             pc \in Attempting \cup {"quit"},
             copies' = copies \/ (pc = "transfer" /\ copies' = copies + 1),
             hitches' \in SUBSET {"broken", "unconfirmed", "rejected", "farewell"},
             hitches \subseteq hitches',
             copies' > 0 =>
               "unconfirmed" \in hitches' \/ (~TLS /\ "farewell" \in hitches'),
             hitches' # {} \/ Misfit \/ mech = "LOGIN"
      PROVE  MailInv'
  <2> USE <1>2
  <2>1. \/ mech = "PLAIN" /\ pc' = "connect" /\ mech' = "LOGIN" /\ result' = result
        \/ pc' = "done" /\ result' = "error" /\ mech' = mech
    BY FailsCases
  <2>2. result = None
    BY DEF MailTypeOK, Attempting
  <2>3. copies' \in 0..2 /\ (mech = "PLAIN" => copies' \in {0, 1})
    <3>1. copies \in 0..2 /\ mech \in {"PLAIN", "LOGIN"}
      BY DEF MailTypeOK, Mechanisms
    <3>2. CASE pc = "quit"
      BY <3>1, <3>2 DEF CopiesInv
    <3>3. CASE pc \in Attempting
      BY <3>1, <3>3 DEF CopiesInv
    <3> QED BY <3>2, <3>3
  <2>4. MailTypeOK'
    BY <2>1, <2>2, <2>3 DEF MailTypeOK, MailAssumption, Exchanges, Mechanisms
  <2>5. CopiesInv'
    BY <2>1, <2>2, <2>3 DEF CopiesInv, MailAssumption, Attempting, Mechanisms
  <2>6. copies' > 1 => server.lax
    <3>1. CASE copies' = copies
      BY <3>1 DEF LoginInv, AtMostOneCopy
    <3>2. CASE copies' # copies
      <4>1. mech = "LOGIN" \/ copies' \in {0, 1}
        BY <2>3 DEF MailTypeOK, Mechanisms
      <4>2. pc = "transfer"
        BY <3>2
      <4>3. mech = "LOGIN" => server.lax
        BY <4>2 DEF LoginInv
      <4> QED BY <4>1, <4>3
    <3> QED BY <3>1, <3>2
  <2>7. LoginInv'
    BY <2>1, <2>6 DEF LoginInv, AtMostOneCopy
  <2>8. ConfirmInv'
    BY <2>1 DEF ConfirmInv, DeliveredButFailed, Doubtful, TLS, Attempting
  <2>9. ReasonInv'
    <3>1. Reason'
      BY DEF Reason, Misfit, ReasonInv
    <3> QED BY <3>1, <2>1 DEF ReasonInv
  <2> QED BY <2>4, <2>5, <2>7, <2>8, <2>9
\* Every exchange that goes well and leads to the next.
<1>3. ASSUME NEW step \in Exchanges, Goto(step), Same, UNCHANGED <<copies, hitches>>,
             pc \in Attempting, step \in Attempting,
             step # "connect" => TLS = server.implicit,
             step \in {"envelope", "transfer"} /\ mech = "LOGIN" => server.lax
      PROVE  MailInv'
  <2> USE <1>3 DEF Goto
  <2>1. MailTypeOK'
    BY DEF MailTypeOK, Attempting
  <2>2. CopiesInv' /\ LoginInv' /\ ConfirmInv'
    BY DEF CopiesInv, LoginInv, ConfirmInv, AtMostOneCopy, DeliveredButFailed, Doubtful, TLS, Attempting, MailTypeOK
  <2>3. ReasonInv'
    BY DEF ReasonInv, Reason, Misfit, TLS
  <2> QED BY <2>1, <2>2, <2>3
<1>4. CASE Submit
  <2> USE <1>4 DEF Submit
  <2>1. CASE config.host /\ Goto("connect")
    <3> USE <2>1 DEF Goto, MailTypeOK
    <3>1. MailTypeOK'
      BY DEF Exchanges
    <3>2. CopiesInv' /\ LoginInv'
      BY DEF CopiesInv, LoginInv, AtMostOneCopy, Attempting
    <3>3. ConfirmInv' /\ ReasonInv'
      BY DEF CopiesInv, ConfirmInv, DeliveredButFailed, Doubtful, TLS, ReasonInv, Attempting
    <3> QED BY <3>1, <3>2, <3>3
  <2>2. CASE ~config.host /\ Return("error")
    <3> USE <2>2 DEF Return, MailTypeOK
    <3>1. MailTypeOK'
      BY DEF MailAssumption
    <3>2. CopiesInv' /\ LoginInv'
      BY DEF CopiesInv, LoginInv, AtMostOneCopy, Attempting
    <3>3. ConfirmInv' /\ ReasonInv'
      BY DEF CopiesInv, ConfirmInv, DeliveredButFailed, Doubtful, TLS, ReasonInv, Attempting
    <3> QED BY <3>1, <3>2, <3>3
  <2> QED BY <2>1, <2>2
<1>5. CASE Connect
  <2> USE <1>5 DEF Connect
  <2>1. CASE Handshake /\ Goto("authenticate") /\ UNCHANGED hitches
    BY <2>1, <1>3 DEF Attempting, Exchanges, Handshake
  <2>2. CASE ~Handshake /\ Fails("handshake") /\ UNCHANGED hitches
    <3>1. Misfit
      BY <2>2 DEF Handshake, Misfit, TLS
    <3> QED BY <2>2, <3>1, <1>2 DEF Attempting, MailTypeOK, ConfirmInv, Doubtful
  <2>3. CASE Breaks
    BY <2>3, <1>2 DEF Breaks, Attempting, MailTypeOK, ConfirmInv, Doubtful
  <2> QED BY <2>1, <2>2, <2>3
<1>6. CASE Authenticate
  <2> USE <1>6 DEF Authenticate
  <2>1. CASE Obstacle = None /\ Goto("envelope") /\ UNCHANGED hitches
    <3>1. mech = "LOGIN" => server.lax
      <4>1. ~(~TLS /\ server.mechs = {}) /\ ~(mech = "PLAIN" /\ ~Encrypted) /\ mech \in server.mechs /\ Admits
        BY <2>1 DEF Obstacle, MailAssumption
      <4> QED BY <4>1 DEF Admits, Layers
    <3>2. TLS = server.implicit
      BY DEF ReasonInv
    <3> QED BY <2>1, <3>1, <3>2, <1>3 DEF Attempting, Exchanges
  <2>2. CASE Obstacle # None /\ Fails(Obstacle) /\ UNCHANGED hitches
    <3>1. Misfit \/ mech = "LOGIN"
      BY <2>2, ObstacleReason DEF ReasonInv, MailTypeOK, Mechanisms
    <3> QED BY <2>2, <3>1, <1>2 DEF Attempting, MailTypeOK, ConfirmInv, Doubtful
  <2>3. CASE Breaks
    BY <2>3, <1>2 DEF Breaks, Attempting, MailTypeOK, ConfirmInv, Doubtful
  <2> QED BY <2>1, <2>2, <2>3
<1>7. CASE Envelope
  <2> USE <1>7 DEF Envelope
  <2>1. CASE Goto("transfer") /\ UNCHANGED hitches
    <3>1. TLS = server.implicit /\ (mech = "LOGIN" => server.lax)
      BY DEF ReasonInv, LoginInv
    <3> QED BY <2>1, <3>1, <1>3 DEF Attempting, Exchanges
  <2>2. CASE Rejected
    BY <2>2, <1>2 DEF Rejected, Attempting, MailTypeOK, ConfirmInv, Doubtful
  <2>3. CASE Breaks
    BY <2>3, <1>2 DEF Breaks, Attempting, MailTypeOK, ConfirmInv, Doubtful
  <2> QED BY <2>1, <2>2, <2>3
<1>8. CASE Transfer
  <2> USE <1>8 DEF Transfer
  <2>1. CASE copies' = copies + 1 /\ UNCHANGED hitches /\ TLS /\ Return("ok")
    <3> USE <2>1 DEF Return, MailTypeOK
    <3>1. MailTypeOK'
      BY DEF CopiesInv, Attempting, Mechanisms, MailAssumption
    <3>2. CopiesInv' /\ LoginInv'
      BY DEF CopiesInv, LoginInv, AtMostOneCopy, Attempting, Mechanisms
    <3>3. ConfirmInv'
      BY DEF CopiesInv, ConfirmInv, DeliveredButFailed, Doubtful, TLS, Attempting
    <3>4. ReasonInv'
      BY DEF ReasonInv, Reason, Misfit, TLS
    <3> QED BY <3>1, <3>2, <3>3, <3>4
  <2>2. CASE copies' = copies + 1 /\ UNCHANGED hitches /\ ~TLS /\ Goto("quit")
    <3> USE <2>2 DEF Goto, MailTypeOK
    <3>1. MailTypeOK'
      BY DEF CopiesInv, Attempting, Mechanisms, Exchanges
    <3>2. CopiesInv' /\ LoginInv'
      BY DEF CopiesInv, LoginInv, AtMostOneCopy, Attempting, Mechanisms
    <3>3. ConfirmInv'
      BY DEF CopiesInv, ConfirmInv, DeliveredButFailed, Doubtful, TLS, Attempting
    <3>4. ReasonInv'
      BY DEF ReasonInv, Reason, Misfit, TLS
    <3> QED BY <3>1, <3>2, <3>3, <3>4
  <2>3. CASE copies' = copies + 1 /\ Fails("broken") /\ hitches' = hitches \cup {"broken", "unconfirmed"}
    BY <2>3, <1>2 DEF Attempting, MailTypeOK
  <2>4. CASE Rejected /\ UNCHANGED copies
    BY <2>4, <1>2 DEF Rejected, Attempting, MailTypeOK, ConfirmInv, Doubtful
  <2>5. CASE Breaks /\ UNCHANGED copies
    BY <2>5, <1>2 DEF Breaks, Attempting, MailTypeOK, ConfirmInv, Doubtful
  <2> QED BY <2>1, <2>2, <2>3, <2>4, <2>5
<1>9. CASE Quit
  <2> USE <1>9 DEF Quit
  <2>1. CASE Return("ok") /\ UNCHANGED hitches
    <3> USE <2>1 DEF Return, MailTypeOK
    <3>1. MailTypeOK'
      BY DEF CopiesInv, Attempting, Mechanisms, MailAssumption
    <3>2. CopiesInv' /\ LoginInv'
      BY DEF CopiesInv, LoginInv, AtMostOneCopy, Attempting, Mechanisms
    <3>3. ConfirmInv'
      BY DEF CopiesInv, ConfirmInv, DeliveredButFailed, Doubtful, TLS, Attempting
    <3>4. ReasonInv'
      BY DEF ReasonInv, Reason, Misfit, TLS
    <3> QED BY <3>1, <3>2, <3>3, <3>4
  <2>2. CASE Fails("rejected") /\ hitches' = hitches \cup {"rejected", "farewell"}
    BY <2>2, <1>2 DEF MailTypeOK, ConfirmInv, Doubtful
  <2>3. CASE Fails("broken") /\ hitches' = hitches \cup {"broken", "farewell"}
    BY <2>3, <1>2 DEF MailTypeOK, ConfirmInv, Doubtful
  <2> QED BY <2>1, <2>2, <2>3
<1> QED BY <1>1, <1>4, <1>5, <1>6, <1>7, <1>8, <1>9 DEF Next, Finished

\* MailInv holds throughout.
LEMMA MailInvHolds == Spec => []MailInv
<1>1. Init => MailInv
  BY MailAssumption, MailInvInit
<1>2. MailInv /\ [Next]_vars => MailInv'
  BY MailAssumption, MailInvNext
<1> QED BY <1>1, <1>2, PTL DEF Spec

-----------------------------------------------------------------------------
(* Theorems *)

(* Whatever the server answers, the exchange is at one of its steps, has a *)
(* result when it is done and not before, and leaves at most two copies.   *)
THEOREM MailTypes == Spec => []MailTypeOK
<1>1. MailInv => MailTypeOK
  BY DEF MailInv
<1> QED BY <1>1, MailInvHolds, PTL

(* A send puts the mail into a mailbox once, whatever the errors look      *)
(* like, unless the server does not check credentials at all.              *)
THEOREM OneCopy == Spec => []AtMostOneCopy
<1>1. MailInv => AtMostOneCopy
  BY DEF MailInv, LoginInv
<1> QED BY <1>1, MailInvHolds, PTL

(* Over TLS only a connection that breaks after the server has the mail    *)
(* makes Send report an error for a mail that arrives; over STARTTLS a     *)
(* QUIT that fails does too.                                               *)
THEOREM ErrorsOfDelivered == Spec => []DeliveredButFailed
<1>1. MailInv => DeliveredButFailed
  BY DEF MailInv, ConfirmInv
<1> QED BY <1>1, MailInvHolds, PTL

(* A right configuration fails only by a hitch.                            *)
THEOREM FailuresHaveReasons == Spec => []FailsForAReason
<1>1. MailInv => FailsForAReason
  BY DEF MailInv, ReasonInv, Reason, Misfit, FailsForAReason
<1> QED BY <1>1, MailInvHolds, PTL

(* The dialogue with its retry implements the service: what Send calls     *)
(* sent is in the mailbox.                                                 *)
THEOREM ClientImplementsService == Spec => MailServiceSpec
<1>1. Init => Service!Init
  BY DEF Init, Service!Init, Status
<1>2. ASSUME MailInv, MailInv', [Next]_vars
      PROVE  [Service!Next]_(Service!vars)
  <2> USE <1>2 DEF MailInv, MailTypeOK
  <2> USE MailAssumption DEF MailAssumption
  <2>1. CASE UNCHANGED vars
    BY <2>1 DEF vars, Service!vars, Status
  <2>2. CASE Submit
    BY <2>2 DEF Submit, Goto, Return, Service!Next, Service!Submit, Service!Decline, Status, Exchanges
  <2>3. ASSUME NEW error, Fails(error), pc \in Exchanges,
               copies' > 0 \/ copies' = copies
        PROVE  [Service!Next]_(Service!vars)
    <3>1. CASE pc' = "connect" /\ result' = result
      BY <3>1, <2>3 DEF Service!vars, Service!Next, Service!Arrive, Status, Exchanges
    <3>2. CASE pc' = "done" /\ result' = "error"
      BY <3>2, <2>3 DEF Service!Next, Service!Fail, Status, Exchanges
    <3> QED BY <3>1, <3>2, <2>3, FailsCases
  <2>4. ASSUME NEW step \in Exchanges, Goto(step), pc \in Exchanges,
               copies' > 0 \/ copies' = copies
        PROVE  [Service!Next]_(Service!vars)
    BY <2>4 DEF Goto, Service!vars, Service!Next, Service!Arrive, Status, Exchanges
  <2>5. ASSUME Return("ok"), pc \in Exchanges, copies' > 0
        PROVE  [Service!Next]_(Service!vars)
    BY <2>5 DEF Return, Service!Next, Service!Confirm, Status, Exchanges
  <2>6. CASE Connect \/ Authenticate \/ Envelope
    BY <2>6, <2>3, <2>4 DEF Connect, Authenticate, Envelope, Breaks, Rejected, Exchanges
  <2>7. CASE Transfer
    <3>1. copies \in 0..2
      BY DEF MailTypeOK
    <3>2. copies + 1 > 0
      BY <3>1
    <3> QED BY <2>7, <3>2, <2>3, <2>4, <2>5 DEF Transfer, Breaks, Rejected, Exchanges
  <2>8. CASE Quit
    <3>1. copies > 0 /\ copies' = copies /\ pc \in Exchanges
      BY <2>8 DEF Quit, CopiesInv, Exchanges
    <3> QED BY <2>8, <3>1, <2>3, <2>5 DEF Quit
  <2> QED BY <2>1, <2>2, <2>6, <2>7, <2>8 DEF Next, Finished
<1> QED BY <1>1, <1>2, MailInvHolds, PTL DEF Spec, MailServiceSpec, Service!Spec
=============================================================================
