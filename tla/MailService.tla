---------------------------- MODULE MailService ----------------------------
(***************************************************************************)
(* What a caller of Sender.Send may count on: "sent" is said of a mail     *)
(* that is in the mailbox, "failed" of one that may or may not be.  The    *)
(* ends of a send are the outcomes SendMail of AuthHandlers acts on:       *)
(* Confirm is "delivered", Fail and Decline without the mail in the box    *)
(* "refused", Fail with it "lost_ack".                                     *)
(***************************************************************************)
VARIABLES
  status,   \* of the call: "idle", "sending", "sent" or "failed"
  inbox     \* whether the mail is in the mailbox

vars == <<status, inbox>>

Init == status = "idle" /\ inbox = FALSE

Submit == status = "idle" /\ status' = "sending" /\ UNCHANGED inbox

Decline == status = "idle" /\ status' = "failed" /\ UNCHANGED inbox

Arrive == status = "sending" /\ inbox' = TRUE /\ UNCHANGED status

Confirm == status = "sending" /\ status' = "sent" /\ inbox' = TRUE

Fail == status = "sending" /\ status' = "failed" /\ inbox' \in {inbox, TRUE}

Next == Submit \/ Decline \/ Arrive \/ Confirm \/ Fail

Spec == Init /\ [][Next]_vars
=============================================================================
