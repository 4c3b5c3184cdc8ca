------------------------------ MODULE SmtpProofs ------------------------------
(***************************************************************************)
(* For every timeout and every context: the mail server cannot hold Send   *)
(* past its deadline, the password stays off plaintext connections, and    *)
(* Send implements the transport the services rely on.                     *)
(***************************************************************************)
EXTENDS SmtpMailer, TLAPS

\* The parts of the inductive invariant: who logs in does so over TLS; a message that is
\* confirmed was accepted; the clock stays behind a deadline that is soon enough; without a
\* timeout the connection has no time.
LogsInOverTLS == step = "auth" => channel = "tls"
NotYetTaken == step = "dial" => accepted = "no"
TakenAtQuit == step = "quit" => accepted = "yes"
SoonEnough == timeout # 0 => deadline <= 2 * timeout
InBounds == Waiting => clock <= deadline
DialedFirst == step = "dial" /\ timeout # 0 => deadline <= timeout
NoConversation ==
  /\ provider = "smtp" /\ timeout = 0 => step \in {"idle", "dial", "hello"}
  /\ step = "hello" /\ timeout = 0 => deadline <= clock

SmtpInv ==
  /\ TypeOK /\ NoPlainPassword
  /\ LogsInOverTLS /\ NotYetTaken /\ TakenAtQuit
  /\ SoonEnough /\ InBounds /\ DialedFirst /\ NoConversation

LEMMA EarlierIs ==
  ASSUME NEW t \in Nat, NEW u \in Nat
  PROVE  Earlier(t, u) \in Nat /\ Earlier(t, u) <= t /\ Earlier(t, u) <= u
  BY DEF Earlier

LEMMA InitSmtpInv == Init => SmtpInv
  BY SmtpAssumption DEF Init, SmtpInv, TypeOK, NoPlainPassword, LogsInOverTLS, NotYetTaken,
     TakenAtQuit, SoonEnough, InBounds, DialedFirst, NoConversation, Steps, Waiting

\* Steps that end Send.
LEMMA ReturnKeeps ==
  ASSUME SmtpInv, NEW outcome \in {"ok", "error"}, Return(outcome)
  PROVE  SmtpInv'
  BY DEF Return, SmtpInv, TypeOK, NoPlainPassword, LogsInOverTLS, NotYetTaken, TakenAtQuit,
     SoonEnough, InBounds, DialedFirst, NoConversation, Steps, Waiting, config

\* Steps of the conversation that go from one command to the next.
LEMMA GotoKeeps ==
  ASSUME SmtpInv, Waiting, NEW next \in Commands \cup {"abandoned"}, Goto(next),
         channel' \in {channel, "tls"}, password' \in {password, "tls"},
         accepted' \in {"yes", "no"},
         next = "auth" => channel' = "tls",
         next = "quit" => accepted' = "yes",
         next # "hello", provider = "smtp" => timeout # 0
  PROVE  SmtpInv'
  BY DEF Goto, SmtpInv, TypeOK, NoPlainPassword, LogsInOverTLS, NotYetTaken, TakenAtQuit,
     SoonEnough, InBounds, DialedFirst, NoConversation, Steps, Commands, Waiting, config

\* Only a mailer with a timeout gets an answer on its connection.
LEMMA AnsweredHasTime ==
  ASSUME SmtpInv, NEW command \in Commands, Answered(command)
  PROVE  step = command /\ (timeout # 0)
<1>1. clock \in Nat /\ deadline \in Nat /\ clock < deadline /\ provider = "smtp" /\ step = command
  BY DEF SmtpInv, TypeOK, Answered, InTime
<1>2. timeout = 0 => step = "hello"
  BY <1>1 DEF SmtpInv, NoConversation, Commands
<1>3. step = "hello" /\ timeout = 0 => deadline <= clock
  BY DEF SmtpInv, NoConversation
<1> QED
  BY <1>1, <1>2, <1>3

LEMMA BeginKeeps ==
  ASSUME SmtpInv, NEW budget \in Budgets, Begin(budget)
  PROVE  SmtpInv'
<1>1. budget \in Nat /\ timeout \in Nat
  BY SmtpAssumption DEF SmtpInv, TypeOK
<1>2. /\ deadline' \in Nat /\ deadline' <= budget
      /\ timeout # 0 => deadline' <= timeout
  BY <1>1, EarlierIs DEF Begin, DialDeadline
<1> QED
  BY <1>1, <1>2 DEF Begin, SmtpInv, TypeOK, NoPlainPassword, LogsInOverTLS, NotYetTaken,
     TakenAtQuit, SoonEnough, InBounds, DialedFirst, NoConversation, Steps, Waiting, config

LEMMA DialedKeeps ==
  ASSUME SmtpInv, Dialed
  PROVE  SmtpInv'
<1>1. /\ clock \in Nat /\ ctxEnd \in Nat /\ timeout \in Nat
      /\ timeout # 0 => clock < timeout
      /\ clock < ctxEnd
  BY SmtpAssumption DEF Dialed, Answered, InTime, SmtpInv, TypeOK, DialedFirst
<1>2. /\ ConnDeadline \in Nat /\ ConnDeadline <= ctxEnd /\ clock <= ConnDeadline
      /\ ConnDeadline <= clock + timeout
  BY <1>1 DEF ConnDeadline, Earlier
<1> QED
  BY <1>1, <1>2 DEF Dialed, SmtpInv, TypeOK, NoPlainPassword, LogsInOverTLS, NotYetTaken,
     TakenAtQuit, SoonEnough, InBounds, DialedFirst, NoConversation, Steps, Commands, Waiting, config

LEMMA TickKeeps ==
  ASSUME SmtpInv, Tick
  PROVE  SmtpInv'
<1>1. clock' \in Nat /\ clock' <= deadline
  BY DEF Tick, InTime, SmtpInv, TypeOK
<1> QED
  BY <1>1 DEF Tick, SmtpInv, TypeOK, NoPlainPassword, LogsInOverTLS, NotYetTaken,
     TakenAtQuit, SoonEnough, InBounds, DialedFirst, NoConversation, Waiting, config

\* One case per action.
LEMMA NextSmtpInv ==
  ASSUME SmtpInv, [Next]_vars
  PROVE  SmtpInv'
<1> USE DEF Waiting, Commands
<1>types. accepted \in {"yes", "no"}
  BY DEF SmtpInv, TypeOK
<1>1. CASE UNCHANGED vars
  BY <1>1 DEF vars, config, SmtpInv, TypeOK, NoPlainPassword, LogsInOverTLS, NotYetTaken,
     TakenAtQuit, SoonEnough, InBounds, DialedFirst, NoConversation
<1>2. ASSUME NEW budget \in Budgets, Begin(budget) PROVE SmtpInv'
  BY <1>2, BeginKeeps
<1>answered. ASSUME NEW command \in Commands, Answered(command)
             PROVE  step = command /\ timeout # 0
  BY <1>answered, AnsweredHasTime
<1>3. CASE Log
  BY <1>3, <1>types, GotoKeeps DEF Log
<1>4. CASE LogReturns
  BY <1>4, ReturnKeeps DEF LogReturns
<1>5. CASE Dialed
  BY <1>5, DialedKeeps
<1>6. CASE WithoutTLS \/ Hello
  BY <1>6, <1>types, <1>answered, GotoKeeps DEF WithoutTLS, Hello
<1>7. CASE StartTLS
  BY <1>7, <1>types, <1>answered, GotoKeeps DEF StartTLS
<1>8. CASE Auth
  <2>1. channel = "tls"
    BY <1>8, <1>answered DEF Auth, SmtpInv, LogsInOverTLS
  <2> QED
    BY <1>8, <2>1, <1>types, <1>answered, GotoKeeps DEF Auth
<1>9. CASE Login \/ Mail \/ Rcpt \/ Data
  BY <1>9, <1>types, <1>answered, GotoKeeps DEF Login, Mail, Rcpt, Data
<1>10. CASE Take \/ Body \/ WriteFails
  <2>1. step = "body" /\ (provider = "smtp" => timeout # 0)
    BY <1>10, <1>answered DEF Take, Body, WriteFails, SmtpInv, NoConversation
  <2> QED
    BY <1>10, <2>1, <1>types, GotoKeeps DEF Take, Body, WriteFails
<1>11. CASE Quit
  BY <1>11, <1>answered, ReturnKeeps DEF Quit
<1>12. CASE Refused \/ Expire
  BY <1>12, ReturnKeeps DEF Refused, Expire
<1>13. CASE Tick
  BY <1>13, TickKeeps
<1> QED
  BY <1>1, <1>2, <1>3, <1>4, <1>5, <1>6, <1>7, <1>8, <1>9, <1>10, <1>11, <1>12, <1>13 DEF Next

-----------------------------------------------------------------------------
(* Theorems *)

\* The inductive invariant holds for every timeout and context.
THEOREM SmtpInvariance == Spec => []SmtpInv
  BY InitSmtpInv, NextSmtpInv, PTL DEF Spec

\* The password only travels over TLS, whatever the server offers.
THEOREM NoPlainPasswordAlways == Spec => []NoPlainPassword
<1>1. SmtpInv => NoPlainPassword
  BY DEF SmtpInv
<1> QED
  BY <1>1, SmtpInvariance, PTL

\* Send is never in progress past the context's deadline, or longer than twice the timeout;
\* with a timeout of 0 it does not get beyond the greeting.
THEOREM ReturnsInTimeAlways == Spec => []ReturnsInTime
<1>1. SmtpInv => ReturnsInTime
  BY SmtpAssumption DEF SmtpInv, TypeOK, SoonEnough, InBounds, NoConversation, ReturnsInTime,
     Waiting
<1> QED
  BY <1>1, SmtpInvariance, PTL

\* A step of Send is a step of the transport or leaves it alone.
LEMMA StepImplements ==
  ASSUME SmtpInv, [Next]_vars
  PROVE  [Transport!Next]_(Transport!transportVars)
<1> USE DEF Transport!Next, Transport!transportVars, Waiting, Answered, Goto, Return, Commands
<1>1. CASE UNCHANGED vars
  BY <1>1 DEF vars
<1>2. ASSUME NEW budget \in Budgets, Begin(budget) PROVE Transport!Begin
  BY <1>2 DEF Begin, Transport!Begin
<1>3. CASE Log
  <2>1. accepted = "no"
    BY <1>3 DEF Log, SmtpInv, NotYetTaken
  <2>2. Transport!Accept
    BY <1>3, <2>1 DEF Log, Transport!Accept
  <2> QED
    BY <2>2
<1>4. CASE LogReturns \/ Quit
  <2>1. accepted = "yes"
    BY <1>4 DEF LogReturns, Quit, SmtpInv, TakenAtQuit
  <2>2. Transport!Succeed
    BY <1>4, <2>1 DEF LogReturns, Quit, Transport!Succeed
  <2> QED
    BY <2>2
<1>5. CASE Dialed \/ WithoutTLS \/ Hello \/ StartTLS \/ Auth \/ Login \/ Mail \/ Rcpt \/ Data
           \/ Body \/ WriteFails \/ Tick
  BY <1>5 DEF Dialed, WithoutTLS, Hello, StartTLS, Auth, Login, Mail, Rcpt, Data, Body,
     WriteFails, Tick
<1>6. CASE Take
  <2>1. Transport!Accept
    BY <1>6 DEF Take, Transport!Accept
  <2> QED
    BY <2>1
<1>7. CASE Refused \/ Expire
  <2>1. Transport!Fail
    BY <1>7 DEF Refused, Expire, Transport!Fail
  <2> QED
    BY <2>1
<1> QED
  BY <1>1, <1>2, <1>3, <1>4, <1>5, <1>6, <1>7 DEF Next

\* Send hands the message over at most once, and success means that it has.
THEOREM SmtpImplementsTransport == Spec => ImplementsTransport
<1>1. Init => Transport!Init
  BY DEF Init, Transport!Init, Waiting
<1> QED
  BY <1>1, SmtpInvariance, StepImplements, PTL DEF Spec, ImplementsTransport, Transport!Spec
=============================================================================
