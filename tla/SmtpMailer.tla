------------------------------ MODULE SmtpMailer ------------------------------
(***************************************************************************)
(* internal/mailer: SMTPMailer.Send, one command after the other, against  *)
(* a mail server that accepts, refuses or says nothing.  A read or write   *)
(* on the connection returns an error once its deadline has passed; time   *)
(* passes between any two steps.  LogMailer is the mailer of development.  *)
(***************************************************************************)
EXTENDS Naturals

CONSTANTS
  Timeouts,  \* what SMTP_TIMEOUT may be (a negative one ends the dial like an expired context)
  Budgets,   \* how much time the requests' contexts may have left at Send
  MaxTime    \* bound: no clock runs further

ASSUME SmtpAssumption ==
  /\ Timeouts \subseteq Nat /\ MaxTime \in Nat
  /\ Budgets \subseteq 0..MaxTime

Providers == {"log", "smtp"}
Commands == {"hello", "starttls", "auth", "login", "mail", "rcpt", "data", "body", "quit"}
Steps == {"idle", "dial", "abandoned"} \cup Commands

VARIABLES
  provider,  \* MAIL_PROVIDER
  username,  \* "set" or "empty": SMTP_USERNAME
  host,      \* "localhost" or "remote": SMTP_HOST
  timeout,   \* SMTP_TIMEOUT
  step,      \* the command Send is waiting for
  channel,   \* of the connection: none, plain, tls
  password,  \* the channel that carried the password: none, plain, tls
  accepted,  \* "yes" when the server has taken the message over
  report,    \* what the last Send returned
  clock,     \* the time since Send was called
  ctxEnd,    \* the deadline of the request's context
  deadline   \* of the dial, then of the connection

config == <<provider, username, host, timeout>>
vars == <<config, step, channel, password, accepted, report, clock, ctxEnd, deadline>>

\* Every variable has its type, and the deadline in force is not after the context's.
TypeOK ==
  /\ provider \in Providers /\ username \in {"set", "empty"}
  /\ host \in {"localhost", "remote"} /\ timeout \in Timeouts
  /\ step \in Steps
  /\ channel \in {"none", "plain", "tls"} /\ password \in {"none", "plain", "tls"}
  /\ accepted \in {"yes", "no"} /\ report \in {"none", "ok", "error"}
  /\ clock \in Nat /\ ctxEnd \in Nat /\ deadline \in Nat /\ deadline <= ctxEnd

Init ==
  /\ provider \in Providers /\ username \in {"set", "empty"}
  /\ host \in {"localhost", "remote"} /\ timeout \in Timeouts
  /\ step = "idle" /\ channel = "none" /\ password = "none"
  /\ accepted = "no" /\ report = "none"
  /\ clock = 0 /\ ctxEnd = 0 /\ deadline = 0

-----------------------------------------------------------------------------
(* Deadlines *)

Earlier(t, u) == IF t <= u THEN t ELSE u

\* net.Dialer takes a Timeout of 0 for none: the context alone ends the dial.
DialDeadline(budget) == IF timeout = 0 THEN budget ELSE Earlier(timeout, budget)

\* Mutant: the deadline of the context does not count.
ConnDeadline_OwnOnly == clock + timeout
\* SetDeadline knows no such exception: with a timeout of 0 the connection is over at once.
ConnDeadline == Earlier(clock + timeout, ctxEnd)

Waiting == step # "idle"
\* Mutant: conn.SetDeadline is forgotten.
InTime_Always == TRUE
InTime == clock < deadline

Return(outcome) ==
  /\ step' = "idle" /\ report' = outcome
  /\ UNCHANGED <<config, channel, password, accepted, clock, ctxEnd, deadline>>

\* The next command is sent.
Goto(next) ==
  /\ step' = next
  /\ UNCHANGED <<config, report, clock, ctxEnd, deadline>>

\* Send is called; the dialer gives up after the timeout or with the context.
Begin(budget) ==
  /\ step = "idle"
  /\ step' = "dial" /\ channel' = "none" /\ password' = "none"
  /\ accepted' = "no" /\ report' = "none"
  /\ clock' = 0 /\ ctxEnd' = budget /\ deadline' = DialDeadline(budget)
  /\ UNCHANGED config

\* LogMailer writes the message to the log.
Log ==
  /\ provider = "log" /\ step = "dial"
  /\ accepted' = "yes"
  /\ Goto("quit") /\ UNCHANGED <<channel, password>>

LogReturns == provider = "log" /\ step = "quit" /\ Return("ok")

-----------------------------------------------------------------------------
(* The conversation: the server's answer comes in time *)

Answered(command) == provider = "smtp" /\ step = command /\ InTime

Dialed ==
  /\ Answered("dial")
  /\ step' = "hello" /\ channel' = "plain" /\ deadline' = ConnDeadline
  /\ UNCHANGED <<config, password, accepted, report, clock, ctxEnd>>

\* Mutant: without STARTTLS the mailer logs in all the same.
WithoutTLS_LogIn ==
  /\ Answered("hello")
  /\ Goto(IF username = "set" THEN "auth" ELSE "mail")
  /\ UNCHANGED <<channel, password, accepted>>
\* The server does not offer STARTTLS (or refuses EHLO): only a mailer without
\* credentials goes on.
WithoutTLS ==
  /\ Answered("hello") /\ username = "empty"
  /\ Goto("mail") /\ UNCHANGED <<channel, password, accepted>>

Hello ==
  /\ Answered("hello")
  /\ Goto("starttls") /\ UNCHANGED <<channel, password, accepted>>

StartTLS ==
  /\ Answered("starttls")
  /\ channel' = "tls"
  /\ Goto(IF username = "set" THEN "auth" ELSE "mail")
  /\ UNCHANGED <<password, accepted>>

\* AUTH PLAIN sends the password with the command; net/smtp does so over TLS, or
\* to localhost.
Auth ==
  /\ Answered("auth") /\ (channel = "tls" \/ host = "localhost")
  /\ password' = channel
  /\ Goto("login") /\ UNCHANGED <<channel, accepted>>

Login == Answered("login") /\ Goto("mail") /\ UNCHANGED <<channel, password, accepted>>
Mail == Answered("mail") /\ Goto("rcpt") /\ UNCHANGED <<channel, password, accepted>>
Rcpt == Answered("rcpt") /\ Goto("data") /\ UNCHANGED <<channel, password, accepted>>
Data == Answered("data") /\ Goto("body") /\ UNCHANGED <<channel, password, accepted>>

\* The message arrives in full and the server takes it over: its 250 is on the way.
Take ==
  /\ Answered("body") /\ accepted = "no"
  /\ accepted' = "yes"
  /\ Goto("body") /\ UNCHANGED <<channel, password>>

\* Mutant: the answer to the message is not waited for.
Body_Unchecked ==
  /\ Answered("body")
  /\ Goto("quit") /\ UNCHANGED <<channel, password, accepted>>
\* writer.Close has read the 250.
Body ==
  /\ Answered("body") /\ accepted = "yes"
  /\ Goto("quit") /\ UNCHANGED <<channel, password, accepted>>

Quit == Answered("quit") /\ Return("ok")

\* The server refuses a command, or the connection breaks.
Refused == provider = "smtp" /\ Waiting /\ Return("error")

\* A broken write: writer.Close still waits for an answer.
WriteFails ==
  /\ provider = "smtp" /\ step = "body" /\ accepted = "no"
  /\ Goto("abandoned") /\ UNCHANGED <<channel, password, accepted>>

\* The deadline passes.
Expire == provider = "smtp" /\ Waiting /\ ~InTime /\ Return("error")

\* While Send waits, it does not wait longer than to the deadline.
Tick ==
  /\ provider = "smtp" /\ Waiting /\ InTime /\ clock < MaxTime
  /\ clock' = clock + 1
  /\ UNCHANGED <<config, step, channel, password, accepted, report, ctxEnd, deadline>>

Next ==
  \/ \E budget \in Budgets : Begin(budget)
  \/ Log \/ LogReturns
  \/ Dialed \/ WithoutTLS \/ Hello \/ StartTLS \/ Auth \/ Login
  \/ Mail \/ Rcpt \/ Data \/ Take \/ Body \/ Quit
  \/ Refused \/ WriteFails
  \/ Expire \/ Tick

Spec == Init /\ [][Next]_vars

\* Time passes, and the runtime wakes a goroutine whose deadline has passed.
\* Nothing is assumed about the mail server.
FairSpec == Spec /\ WF_vars(Tick) /\ WF_vars(Expire) /\ WF_vars(Log) /\ WF_vars(LogReturns)

-----------------------------------------------------------------------------
(* Properties *)

\* "refusing to send credentials over plaintext": whatever the server offers, and also
\* where net/smtp itself would allow it, the password only travels over TLS.
NoPlainPassword == password # "plain"

\* Send does not outlast the deadline of the request, nor twice SMTP_TIMEOUT (the dial and
\* the conversation each have their own).  A timeout of 0 leaves the dial to the request's
\* deadline, and no time for the conversation.
ReturnsInTime ==
  Waiting =>
    /\ clock <= ctxEnd
    /\ timeout # 0 => clock <= 2 * timeout
    /\ timeout = 0 /\ provider = "smtp" => step \in {"dial", "hello"}

\* Success means that the message is on its way; every step implements the transport.
Transport == INSTANCE MailTransport WITH sending <- Waiting, accepted <- accepted = "yes"
ImplementsTransport == Transport!Spec

\* A mail server that says nothing does not hold a request for ever.
SendReturns == Waiting ~> ~Waiting
=============================================================================
