---------------------------- MODULE MailClient ----------------------------
(***************************************************************************)
(* One mail through internal/email: Sender.Send, the two transports of     *)
(* Client.Send and the retry with LOGIN that an error gets which looks     *)
(* like one of the credentials.  A step is an exchange with the mail       *)
(* server; net/smtp (external) is modelled from how client.go uses it.     *)
(* Nothing is shared between sends, so one of them is the whole component. *)
(***************************************************************************)
EXTENDS Integers

CONSTANTS
  Lossy,   \* whether connections may break
  None

ASSUME MailAssumption ==
  /\ Lossy \in BOOLEAN
  /\ None \notin {"ok", "error", "no_auth", "unencrypted", "mechanism", "credentials"}

VARIABLES
  config,   \* host: one is configured; encryption: the setting
  server,   \* implicit: its port speaks TLS from the start; starttls: it has
            \* STARTTLS; trusted: its certificate is good, for the host, and
            \* it has TLS 1.2; mechs: the AUTH it has; right: the
            \* credentials are good; lax: it takes any
  pc,       \* the next exchange, "idle" or "done"
  mech,     \* the mechanism of this attempt
  result,   \* what Send returned
  copies,   \* of the mail in the mailbox
  hitches   \* history: connections that broke, replies that were no success,
            \* mails whose acceptance was not heard of, QUITs that failed

vars == <<config, server, pc, mech, result, copies, hitches>>

Mechanisms == {"PLAIN", "LOGIN"}
Configs == [host : BOOLEAN, encryption : {"", "ssl", "tls", "starttls"}]
Servers == [implicit : BOOLEAN, starttls : BOOLEAN, trusted : BOOLEAN,
            mechs : SUBSET Mechanisms, right : BOOLEAN, lax : BOOLEAN]
Exchanges == {"connect", "authenticate", "envelope", "transfer", "quit"}

(* Types of the client, of both sides and of the history. *)
MailTypeOK ==
  /\ config \in Configs /\ server \in Servers
  /\ pc \in Exchanges \cup {"idle", "done"}
  /\ mech \in Mechanisms
  /\ result \in {None, "ok", "error"} /\ (result = None <=> pc # "done")
  /\ copies \in 0..2
  /\ hitches \subseteq {"broken", "unconfirmed", "rejected", "farewell"}

Init ==
  /\ config \in Configs /\ server \in Servers
  /\ pc = "idle" /\ mech = "PLAIN" /\ result = None
  /\ copies = 0 /\ hitches = {}

-----------------------------------------------------------------------------
(* Helpers *)

Goto(step) == pc' = step /\ UNCHANGED <<mech, result>>

Return(value) == pc' = "done" /\ result' = value /\ UNCHANGED mech

\* What isAuthError says of an error.  A 535 is one of the credentials; the
\* client's own two complaints are not.  Other texts may have the digits or
\* the word in them: an address with its port, or "504 5.7.4 Unrecognized
\* authentication type".
LooksLikeAuth(error) ==
  IF error = "credentials" THEN {TRUE}
  ELSE IF error \in {"unencrypted", "no_auth"} THEN {FALSE} ELSE BOOLEAN

\* Mutant: any attempt may be followed by another one.
FailsEachTime(error) ==
  \/ /\ TRUE \in LooksLikeAuth(error)
     /\ pc' = "connect" /\ mech' = "LOGIN"
     /\ UNCHANGED result
  \/ /\ FALSE \in LooksLikeAuth(error)
     /\ Return("error")

\* The attempt failed: once more from the start with LOGIN, or an error.
Fails(error) ==
  \/ /\ TRUE \in LooksLikeAuth(error) /\ mech = "PLAIN"
     /\ pc' = "connect" /\ mech' = "LOGIN"
     /\ UNCHANGED result
  \/ /\ FALSE \in LooksLikeAuth(error) \/ mech = "LOGIN"
     /\ Return("error")

Breaks == Lossy /\ Fails("broken") /\ hitches' = hitches \cup {"broken"}

Rejected == Fails("rejected") /\ hitches' = hitches \cup {"rejected"}

\* Mutant: "ssl" is not a spelling of TLS.
TLSByName == config.encryption = "tls"

\* resolveEncryption: sendTLS for "ssl" and "tls", sendStartTLS for the rest.
TLS == config.encryption \in {"ssl", "tls"}

\* net/smtp upgrades to TLS whenever the server has STARTTLS.
Encrypted == TLS \/ server.starttls

\* Mutant: loginAuth leaves the encoding to net/smtp.
LayersOnce == 1

\* How often base64 is put around what the server is to read: net/smtp does
\* it to every answer, and loginAuth.Next has done it before.
Layers == IF mech = "LOGIN" THEN 2 ELSE 1

\* The server takes one layer off.
Admits == server.lax \/ (server.right /\ Layers = 1)

-----------------------------------------------------------------------------
(* The steps of a send *)

\* "SMTP not configured" without a host.
Submit ==
  /\ pc = "idle"
  /\ \/ config.host /\ Goto("connect")
     \/ ~config.host /\ Return("error")
  /\ UNCHANGED <<config, server, copies, hitches>>

\* A TLS handshake with a plain port fails, waiting in the plain for the
\* greeting of a port that expects one does, and so does a handshake, the one
\* of STARTTLS included, whose certificate, host name or version is refused.
Handshake == TLS = server.implicit /\ (Encrypted => server.trusted)

Connect ==
  /\ pc = "connect"
  /\ \/ Handshake /\ Goto("authenticate") /\ UNCHANGED hitches
     \/ ~Handshake /\ Fails("handshake") /\ UNCHANGED hitches
     \/ Breaks
  /\ UNCHANGED <<config, server, copies>>

\* What stands in the way of authentication: smtp.SendMail looks for AUTH,
\* PlainAuth for encryption, the server at the mechanism and the answers.
Obstacle ==
  IF ~TLS /\ server.mechs = {} THEN "no_auth"
  ELSE IF mech = "PLAIN" /\ ~Encrypted THEN "unencrypted"
  ELSE IF mech \notin server.mechs THEN "mechanism"
  ELSE IF ~Admits THEN "credentials"
  ELSE None

Authenticate ==
  /\ pc = "authenticate"
  /\ \/ Obstacle = None /\ Goto("envelope") /\ UNCHANGED hitches
     \/ Obstacle # None /\ Fails(Obstacle) /\ UNCHANGED hitches
     \/ Breaks
  /\ UNCHANGED <<config, server, copies>>

\* MAIL, RCPT and DATA.
Envelope ==
  /\ pc = "envelope"
  /\ \/ Goto("transfer") /\ UNCHANGED hitches
     \/ Rejected
     \/ Breaks
  /\ UNCHANGED <<config, server, copies>>

\* Mutant: the Close of the writer is deferred and its error dropped.
TransferUnchecked ==
  /\ pc = "transfer"
  /\ copies' \in {copies, copies + 1}
  /\ Return("ok")
  /\ UNCHANGED <<config, server, hitches>>

\* Mutant: sendMailWithTLS takes leave too, and returns its error.
TransferThenQuit ==
  /\ pc = "transfer"
  /\ \/ copies' = copies + 1 /\ Goto("quit") /\ UNCHANGED hitches
     \/ /\ copies' = copies + 1
        /\ Lossy /\ Fails("broken")
        /\ hitches' = hitches \cup {"broken", "unconfirmed"}
     \/ (Rejected \/ Breaks) /\ UNCHANGED copies
  /\ UNCHANGED <<config, server>>

\* The body, and the server's word on it, which may be lost.  sendMailWithTLS
\* returns with it, smtp.SendMail goes on to QUIT.
Transfer ==
  /\ pc = "transfer"
  /\ \/ /\ copies' = copies + 1
        /\ IF TLS THEN Return("ok") ELSE Goto("quit")
        /\ UNCHANGED hitches
     \/ /\ copies' = copies + 1
        /\ Lossy /\ Fails("broken")
        /\ hitches' = hitches \cup {"broken", "unconfirmed"}
     \/ (Rejected \/ Breaks) /\ UNCHANGED copies
  /\ UNCHANGED <<config, server>>

\* The mail is accepted; SendMail still returns the error of QUIT: a reply
\* other than 221, or none.
Quit ==
  /\ pc = "quit"
  /\ \/ Return("ok") /\ UNCHANGED hitches
     \/ /\ Fails("rejected")
        /\ hitches' = hitches \cup {"rejected", "farewell"}
     \/ /\ Lossy /\ Fails("broken")
        /\ hitches' = hitches \cup {"broken", "farewell"}
  /\ UNCHANGED <<config, server, copies>>

Finished == pc = "done" /\ UNCHANGED vars

Next == Submit \/ Connect \/ Authenticate \/ Envelope \/ Transfer \/ Quit \/ Finished

Spec == Init /\ [][Next]_vars

-----------------------------------------------------------------------------
(* Properties *)

Status ==
  IF pc = "idle" THEN "idle"
  ELSE IF pc # "done" THEN "sending"
  ELSE IF result = "ok" THEN "sent" ELSE "failed"

Service == INSTANCE MailService WITH status <- Status, inbox <- copies > 0

(* Send keeps the promise of MailService over both transports and both     *)
(* attempts: no success without a mail, whatever breaks or is rejected     *)
(* (client.go:79-135).                                                     *)
MailServiceSpec == Service!Spec

(* The attempt with LOGIN does not put a second copy into the mailbox: it  *)
(* may follow an accepted mail whose confirmation was lost or whose QUIT   *)
(* failed, with a 535 in the text of the error (client.go:63 and 122), but *)
(* no server reads credentials encoded twice, except one that takes any.   *)
AtMostOneCopy == copies > 1 => server.lax

(* An error for a mail that is in the mailbox is what makes the rollback   *)
(* of auth.go:94 take back a good code.  Over TLS it needs a connection    *)
(* that broke before the server's word on the body was read                *)
(* (client.go:112); over STARTTLS, the default, a QUIT that was answered   *)
(* with other than 221, or not at all, does it too (client.go:121 and 129) *)
(* although the server had confirmed the mail.                             *)
DeliveredButFailed ==
  result = "error" /\ copies > 0 =>
    \/ "unconfirmed" \in hitches
    \/ config.encryption \notin {"ssl", "tls"} /\ "farewell" \in hitches

(* Without a hitch a send fails only where no host is configured, where    *)
(* the server's certificate is not accepted, where the setting is not that *)
(* of the port, or where the server does not let PLAIN with these          *)
(* credentials in over an encrypted connection (main.go:107, client.go).   *)
(* What the setting has to be is the code's: "ssl" and "tls" for a port    *)
(* with TLS from the start, anything else, the empty default included, for *)
(* one with STARTTLS.  The table of README.zh-CN.md:59-64 has 465 as "SSL" *)
(* beside an smtp block without the setting, and 587 as "TLS": the first   *)
(* without the setting, and the second with "tls" for it, both fail.       *)
FailsForAReason ==
  result = "error" =>
    \/ hitches # {} \/ ~config.host \/ ~server.trusted
    \/ (config.encryption \in {"ssl", "tls"}) # server.implicit
    \/ ~server.implicit /\ ~server.starttls
    \/ "PLAIN" \notin server.mechs
    \/ ~(server.lax \/ server.right)

(* "PlainAuth failed, retrying with LOGIN auth" (client.go:65): the retry  *)
(* gets through to a server that has LOGIN and knows the credentials,      *)
(* over the transport it speaks and with a certificate that is accepted.   *)
FallbackDelivers ==
  result = "error" /\ mech = "LOGIN" =>
    \/ hitches # {} \/ "LOGIN" \notin server.mechs \/ ~server.right
    \/ ~server.trusted
    \/ (config.encryption \in {"ssl", "tls"}) # server.implicit
=============================================================================
