----------------------------- MODULE MailTransport -----------------------------
(***************************************************************************)
(* What mailer.Mailer promises the services: Send hands a message over to  *)
(* the mail system at most once, and reports success only if it has.  An   *)
(* error leaves open whether the message is on its way.                    *)
(***************************************************************************)
VARIABLES
  sending,   \* a Send is in progress
  accepted,  \* its message has been handed over
  report     \* what the last Send returned: none, ok, error

transportVars == <<sending, accepted, report>>

Init == sending = FALSE /\ accepted = FALSE /\ report = "none"

Begin ==
  /\ ~sending
  /\ sending' = TRUE /\ accepted' = FALSE /\ report' = "none"

Accept ==
  /\ sending /\ ~accepted
  /\ accepted' = TRUE
  /\ UNCHANGED <<sending, report>>

Succeed ==
  /\ sending /\ accepted
  /\ sending' = FALSE /\ report' = "ok"
  /\ UNCHANGED accepted

Fail ==
  /\ sending
  /\ sending' = FALSE /\ report' = "error"
  /\ UNCHANGED accepted

Next == Begin \/ Accept \/ Succeed \/ Fail

Spec == Init /\ [][Next]_transportVars
=============================================================================
