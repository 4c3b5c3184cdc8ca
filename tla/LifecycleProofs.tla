---------------------------- MODULE LifecycleProofs ----------------------------
(***************************************************************************)
(* For every environment and any number of connections: a server listens   *)
(* only on a configuration that was checked, and exit status 0 is the      *)
(* truth.                                                                  *)
(***************************************************************************)
EXTENDS Lifecycle, TLAPS

\* From Shutdown on the listener is closed, so that a drained server stays drained
\* until main returns.
ConnStates == {"none", "active", "idle", "closed"}
ClosedFirst == main \in {"shutdown", "return"} => listener = "closed"
StaysDrained == main = "return" => Drained
EndsOnce == code # Running => main = "exited"

\* What main has passed was checked.
Checked ==
  /\ main \notin {"load", "exited"} => Acceptable(env)
  /\ listener # "none" => Acceptable(env) /\ Built(env)
  /\ main \in {"run", "select", "shutdown", "return"} => Built(env)

\* The inductive invariant.
LcInv ==
  /\ env \in Settings
  /\ conns \in [Conns -> ConnStates]
  /\ ClosedFirst /\ StaysDrained /\ EndsOnce
  /\ Checked
  /\ CleanExit

USE DEF Alive, Running

LEMMA InitLcInv == Init => LcInv
<1> SUFFICES ASSUME Init PROVE LcInv
  OBVIOUS
<1>1. /\ env \in Settings /\ conns \in [Conns -> ConnStates]
      /\ main = "load" /\ listener = "none" /\ code = -1
  BY DEF Init, ConnStates
<1> QED
  BY <1>1 DEF LcInv, ClosedFirst, StaysDrained, EndsOnce, Checked, CleanExit

\* Whoever does not exit with 0 promises nothing.
LEMMA OtherStatus == ASSUME code' # 0 PROVE CleanExit'
  BY DEF CleanExit

LEMMA ExitStatus ==
  ASSUME NEW status, Exit(status) PROVE main' = "exited" /\ code' = status
  BY DEF Exit

\* A process that goes on has no status yet.
LEMMA GoesOn ==
  ASSUME LcInv, Alive, UNCHANGED code PROVE code' = Running /\ CleanExit'
<1>1. code' = -1
  BY DEF LcInv, EndsOnce
<1> QED
  BY <1>1, OtherStatus

\* An exit with an error.
LEMMA ExitKeeps ==
  ASSUME LcInv, NEW status \in {1, 2}, Exit(status), UNCHANGED <<env, conns>>,
         listener' = listener
  PROVE  LcInv'
<1>1. main' = "exited" /\ code' = status
  BY ExitStatus
<1>2. CleanExit'
  BY <1>1, OtherStatus
<1> QED
  BY <1>1, <1>2 DEF LcInv, ClosedFirst, StaysDrained, EndsOnce, Checked

\* main goes on to its next place.
LEMMA MainKeeps ==
  ASSUME LcInv, Alive, UNCHANGED <<env, conns, code>>,
         Acceptable(env),
         main' \notin {"load", "connect", "setup", "exited"} => Built(env),
         listener' # "none" => Built(env),
         main' \in {"shutdown", "return"} => listener' = "closed",
         main' = "return" => Drained
  PROVE  LcInv'
<1>1. code' = Running /\ CleanExit'
  BY GoesOn
<1>2. Checked'
  BY DEF Checked
<1>3. StaysDrained'
  BY DEF StaysDrained, Drained
<1> QED
  BY <1>1, <1>2, <1>3 DEF LcInv, ClosedFirst, EndsOnce

LEMMA StartKeeps == ASSUME LcInv, MustLoad \/ Connect \/ Setup \/ Notify PROVE LcInv'
<1>1. CASE MustLoad
  <2>1. CASE Acceptable(env) /\ main' = "connect" /\ UNCHANGED code
    <3>1. listener' # "none" => Built(env)
      BY <1>1 DEF MustLoad, LcInv, Checked
    <3> QED
      BY <1>1, <2>1, <3>1, MainKeeps DEF MustLoad
  <2>2. CASE Exit(2)
    BY <1>1, <2>2, ExitKeeps DEF MustLoad
  <2> QED
    BY <1>1, <2>1, <2>2 DEF MustLoad
<1>2. CASE Connect
  <2>1. CASE main' = "setup" /\ UNCHANGED code
    <3>1. Acceptable(env) /\ (listener' # "none" => Built(env))
      BY <1>2 DEF Connect, LcInv, Checked
    <3> QED
      BY <1>2, <2>1, <3>1, MainKeeps DEF Connect
  <2>2. CASE Exit(1)
    BY <1>2, <2>2, ExitKeeps DEF Connect
  <2> QED
    BY <1>2, <2>1, <2>2 DEF Connect
<1>3. CASE Setup
  <2>1. CASE Built(env) /\ main' = "run" /\ listener' = "starting" /\ UNCHANGED code
    <3>1. Acceptable(env)
      BY <1>3 DEF Setup, LcInv, Checked
    <3> QED
      BY <1>3, <2>1, <3>1, MainKeeps DEF Setup
  <2>2. CASE Exit(1) /\ UNCHANGED listener
    BY <1>3, <2>2, ExitKeeps DEF Setup
  <2> QED
    BY <1>3, <2>1, <2>2 DEF Setup
<1>4. CASE Notify
  <2>1. Acceptable(env) /\ Built(env)
    BY <1>4 DEF Notify, LcInv, Checked
  <2> QED
    BY <1>4, <2>1, MainKeeps DEF Notify
<1> QED
  BY <1>1, <1>2, <1>3, <1>4

\* Once drained there is no active connection: nobody is cut off.
LEMMA DrainedQuiet == ASSUME Drained PROVE Active = {}
  BY DEF Drained, Active

LEMMA StopKeeps ==
  ASSUME LcInv, ServerFailed \/ ShutDown \/ ShutDownDone \/ ShutDownTimeout \/ Return
  PROVE  LcInv'
<1>0. main \in {"select", "shutdown", "return"} /\ Acceptable(env) /\ Built(env)
  BY DEF ServerFailed, ShutDown, ShutDownDone, ShutDownTimeout, Return, LcInv, Checked
<1>1. CASE ServerFailed
  BY <1>1, ExitKeeps DEF ServerFailed
<1>2. CASE ShutDown
  BY <1>0, <1>2, MainKeeps DEF ShutDown
<1>3. CASE ShutDownDone
  <2>1. listener' = "closed"
    BY <1>3 DEF ShutDownDone, LcInv, ClosedFirst
  <2> QED
    BY <1>0, <1>3, <2>1, MainKeeps DEF ShutDownDone
<1>4. CASE ShutDownTimeout
  BY <1>4, ExitKeeps DEF ShutDownTimeout
<1>5. CASE Return
  <2>1. Active = {}
    BY <1>5, DrainedQuiet DEF Return, LcInv, StaysDrained
  <2>2. ~cut' /\ db' = "closed"
    BY <1>5, <2>1 DEF Return, Exit
  <2>3. CleanExit'
    BY <2>2 DEF CleanExit
  <2>4. main' = "exited" /\ UNCHANGED <<env, listener, conns>>
    BY <1>5, ExitStatus DEF Return
  <2> QED
    BY <2>3, <2>4 DEF LcInv, ClosedFirst, StaysDrained, EndsOnce, Checked
<1> QED
  BY <1>1, <1>2, <1>3, <1>4, <1>5

LEMMA ListenerKeeps == ASSUME LcInv, Listen \/ AcceptFails PROVE LcInv'
<1>1. /\ Alive /\ UNCHANGED <<env, main, code, conns>>
      /\ listener \notin {"none", "closed"} /\ listener' # "none"
  BY DEF Listen, AcceptFails
<1>2. CleanExit' /\ code' = Running
  BY <1>1, GoesOn
<1>3. Checked' /\ ClosedFirst'
  BY <1>1 DEF LcInv, Checked, ClosedFirst
<1>4. StaysDrained'
  BY <1>1 DEF LcInv, StaysDrained, Drained
<1> QED
  BY <1>1, <1>2, <1>3, <1>4 DEF LcInv, EndsOnce

LEMMA SignalKeeps == ASSUME LcInv, Signal PROVE LcInv'
<1>1. CASE main \in {"load", "connect", "setup", "run"}
  BY <1>1, ExitKeeps DEF Signal
<1>2. CASE main \notin {"load", "connect", "setup", "run"}
  <2>1. Alive /\ UNCHANGED <<env, main, code, listener, conns>>
    BY <1>2 DEF Signal
  <2>2. CleanExit' /\ code' = Running
    BY <2>1, GoesOn
  <2> QED
    BY <2>1, <2>2 DEF LcInv, ClosedFirst, StaysDrained, Drained, EndsOnce, Checked
<1> QED
  BY <1>1, <1>2

\* A drained server has neither a connection that moves nor a listener that accepts.
LEMMA ConnKeeps ==
  ASSUME LcInv, NEW c \in Conns,
         CloseIdle(c) \/ Accept(c) \/ Respond(c) \/ NextRequest(c) \/ HangUp(c)
  PROVE  LcInv'
<1>1. Alive /\ UNCHANGED <<env, main, code, listener>>
  BY DEF CloseIdle, Accept, Respond, NextRequest, HangUp
<1>2. conns' \in [Conns -> ConnStates]
  BY DEF LcInv, CloseIdle, Accept, Respond, NextRequest, HangUp, ConnStates
<1>3. main # "return"
  BY DEF LcInv, ClosedFirst, StaysDrained, Drained, CloseIdle, Accept, Respond, NextRequest, HangUp
<1>4. CleanExit' /\ code' = Running
  BY <1>1, GoesOn
<1> QED
  BY <1>1, <1>2, <1>3, <1>4 DEF LcInv, ClosedFirst, StaysDrained, EndsOnce, Checked

LEMMA NextLcInv == LcInv /\ [Next]_vars => LcInv'
<1> SUFFICES ASSUME LcInv, [Next]_vars PROVE LcInv'
  OBVIOUS
<1>1. CASE UNCHANGED vars
  <2>1. CleanExit'
    BY <1>1 DEF vars, LcInv, CleanExit
  <2> QED
    BY <1>1, <2>1 DEF vars, LcInv, ClosedFirst, StaysDrained, Drained, EndsOnce, Checked
<1>2. CASE Next
  BY <1>2, StartKeeps, StopKeeps, ListenerKeeps, SignalKeeps, ConnKeeps DEF Next
<1> QED
  BY <1>1, <1>2

\* From the first statement of main to its last: what was checked stays so, and a
\* drained server stays drained.
THEOREM LifecycleInvariance == Spec => []LcInv
<1> QED
  BY InitLcInv, NextLcInv, PTL DEF Spec

\* The process exits with status 0 only if no request was cut off and the pool is
\* closed, whatever clients, listener and signals do.
THEOREM CleanExitAlways == Spec => []CleanExit
<1>1. LcInv => CleanExit
  BY DEF LcInv
<1> QED
  BY <1>1, LifecycleInvariance, PTL

-----------------------------------------------------------------------------
(* What the checks are worth *)

\* Trimming and lowering change the form of a variable only.
LEMMA Reading ==
  ASSUME NEW v, Written(v)
  PROVE  /\ Written(TrimSpace(v)) /\ Written(ToLower(v))
         /\ ToLower(v).word = v.word
         /\ TrimSpace(v) = Unset \/ TrimSpace(v).word = v.word
<1> DEFINE Plain == [v EXCEPT !.form = "plain"]
<1>1. /\ v.form \in {"plain", "padded", "upper", "blank"}
      /\ v = [word |-> v.word, form |-> v.form]
  BY DEF Written
<1>2. Plain = [word |-> v.word, form |-> "plain"]
  BY <1>1
<1>3. Written(Plain) /\ Plain.word = v.word
  BY <1>1, <1>2 DEF Written
<1>4. Written(Unset)
  BY DEF Written, Unset
<1>5. TrimSpace(v) \in {v, Plain, Unset} /\ ToLower(v) \in {v, Plain}
  BY DEF TrimSpace, ToLower
<1> HIDE DEF Plain
<1> QED
  BY <1>3, <1>4, <1>5

LEMMA Words ==
  /\ Word("production") # Unset
  /\ \A w : Word(w).word = w /\ Word(w).form = "plain"
  /\ Unset.word = ""
  BY DEF Word, Unset

LEMMA EnvWritten ==
  ASSUME LcInv
  PROVE  /\ Written(env.environment) /\ Written(env.cookieSecure)
         /\ Written(env.mail) /\ Written(env.storage)
         /\ Written(env.publicURL) /\ Written(env.frontendURL)
  BY ConfigurationAssumption DEF LcInv, Texts

\* A variable whose word is not the default's was set to it.
LEMMA SetTo ==
  ASSUME NEW v, Written(v), NEW d, NEW w, d # w
  PROVE  /\ GetEnv(v, Word(d)) = Word(w) => TrimSpace(v) = Word(w)
         /\ GetEnv(v, Word(d)).word = w => TrimSpace(v).word = w
         /\ ToLower(GetEnv(v, Word(d))) = Word(w) => TrimSpace(v).word = w
<1>1. Written(Word(d)) /\ Word(d).word = d /\ Word(w).word = w
  BY Words DEF Written, Word
<1>2. Written(GetEnv(v, Word(d)))
  BY <1>1, Reading DEF GetEnv
<1>3. ToLower(GetEnv(v, Word(d))).word = GetEnv(v, Word(d)).word
  BY <1>2, Reading
<1> QED
  BY <1>1, <1>3 DEF GetEnv

\* A server that listens in production has a secure cookie, a mail server and HTTPS
\* addresses, however the variables are written.
THEOREM ProductionIsStrictAlways == Spec => []ProductionIsStrict
<1>1. LcInv => ProductionIsStrict
  <2> SUFFICES ASSUME LcInv, Listening, TrimSpace(env.environment) = Word("production")
               PROVE  /\ TrimSpace(env.cookieSecure).word # "false" /\ CookieSecure(env)
                      /\ TrimSpace(env.mail).word = "smtp" /\ env.host # Unset
                      /\ {TrimSpace(env.publicURL), TrimSpace(env.frontendURL)}
                           \subseteq {Word("https://")}
    BY DEF ProductionIsStrict
  <2>1. Acceptable(env) /\ MailerBuilt(env)
    BY DEF LcInv, Checked, Listening, Built
  <2>2. Production(env)
    BY Words DEF Production, Environment, GetEnv
  <2>3. ProductionRules(env) /\ Required(env)
    BY <2>1, <2>2 DEF Acceptable
  <2>4. CookieSecure(env) /\ TrimSpace(env.cookieSecure).word # "false"
    BY <2>3, Words DEF ProductionRules, CookieSecure, Boolean
  <2>5. MailProvider(env) = Word("smtp") /\ env.host # Unset
    BY <2>1, <2>3 DEF ProductionRules, MailerBuilt
  <2>6. TrimSpace(env.mail).word = "smtp"
    <3>1. ToLower(GetEnv(env.mail, Word("log"))) = Word("smtp")
      BY <2>5 DEF MailProvider
    <3>2. Written(env.mail) /\ "log" # "smtp"
      BY EnvWritten
    <3> QED
      BY <3>1, <3>2, SetTo
  <2>7. ASSUME NEW v \in {env.publicURL, env.frontendURL} PROVE TrimSpace(v) = Word("https://")
    <3>1. Written(v) /\ GetEnv(v, Word("http://")) = Word("https://")
      BY <2>3, EnvWritten DEF ProductionRules, HTTPS
    <3>2. "http://" # "https://"
      OBVIOUS
    <3>3. TrimSpace(v) = Word("https://")
      BY <3>1, <3>2, SetTo
    <3> QED
      BY <3>3
  <2> QED
    BY <2>4, <2>5, <2>6, <2>7
<1> QED
  BY <1>1, LifecycleInvariance, PTL

\* A variable that is set is what a reader that lowers the case works with.
LEMMA ReadAsSet ==
  ASSUME NEW v, Written(v), NEW d, NEW w, w # "", TrimSpace(v).word = w
  PROVE  ToLower(GetEnv(v, d)).word = w
<1>1. TrimSpace(v) # Unset /\ Written(TrimSpace(v))
  BY Words, Reading
<1>2. GetEnv(v, d) = TrimSpace(v)
  BY <1>1 DEF GetEnv
<1> QED
  BY <1>1, <1>2, Reading

\* Arithmetic of int64 changes nothing that fits.
LEMMA WrapFits ==
  ASSUME NEW n \in Int, MinInt64 <= n, n <= 0
  PROVE  Wrap(n) = n
<1> DEFINE m == n - MinInt64  whole == 2 * (MaxInt64 + 1)
<1>1. Wrap(n) = (m % whole) + MinInt64 /\ MinInt64 \in Int
  BY ConfigurationAssumption DEF Wrap, MinInt64
<1>2. m \in Nat /\ whole \in Nat \ {0} /\ m < whole /\ m + MinInt64 = n
  BY ConfigurationAssumption DEF MinInt64
<1> HIDE DEF m, whole
<1>3. m % whole = m
  BY <1>2
<1> QED
  BY <1>1, <1>2, <1>3

\* What the components of a server rely on is there once it listens.
THEOREM ServersAreCompleteAlways == Spec => []ServersAreComplete
<1>1. LcInv => ServersAreComplete
  <2> SUFFICES ASSUME LcInv, Listening PROVE ServersAreComplete
    BY DEF ServersAreComplete
  <2>1. Acceptable(env) /\ StorageBuilt(env) /\ MailerBuilt(env)
    BY DEF LcInv, Checked, Listening, Built
  <2>2. SameSite(env) = Word("none") => CookieSecure(env)
    BY <2>1 DEF Acceptable, CookieRules
  <2>3. /\ env.limit >= 1 /\ env.authLimit >= 1 /\ env.port >= 1 /\ env.port <= 65535
       /\ PoolSizes(env)
    BY <2>1 DEF Acceptable, Numbers
  <2>4. env.pool[1] >= 1 /\ env.pool[2] \in 0..env.pool[1]
    <3>1. env.pool \in Int \X Int
      BY ConfigurationAssumption DEF LcInv
    <3> QED
      BY <2>3, <3>1 DEF PoolSizes
  <2>5. ASSUME TrimSpace(env.mail).word = "smtp" PROVE env.host # Unset
    <3>1. MailProvider(env).word = "smtp"
      <4>1. Written(env.mail) /\ "smtp" # ""
        BY EnvWritten
      <4> QED
        BY <2>5, <4>1, ReadAsSet DEF MailProvider
    <3>2. Word("log").word = "log" /\ "log" # "smtp"
      BY Words
    <3> QED
      BY <2>1, <3>1, <3>2 DEF MailerBuilt
  <2>6. ASSUME TrimSpace(env.storage).word = "cloudinary" PROVE env.account # Unset
    <3>1. StorageProvider(env).word = "cloudinary"
      <4>1. Written(env.storage) /\ "cloudinary" # ""
        BY EnvWritten
      <4> QED
        BY <2>6, <4>1, ReadAsSet DEF StorageProvider
    <3>2. Word("local").word = "local" /\ "local" # "cloudinary"
      BY Words
    <3> QED
      BY <2>1, <3>1, <3>2 DEF StorageBuilt
  <2>7. MaxImageBytes(env) >= 1
    BY <2>1 DEF Acceptable, Numbers
  <2>8. env.imageMB >= 1 \/ env.imageMB * Megabyte < MinInt64
    <3> DEFINE product == env.imageMB * Megabyte
    <3>1. env.imageMB \in Int /\ Megabyte \in Nat \ {0}
      BY ConfigurationAssumption DEF LcInv
    <3>. SUFFICES ASSUME env.imageMB <= 0, MinInt64 <= product PROVE FALSE
      BY <3>1, ConfigurationAssumption DEF MinInt64
    <3>3. product \in Int /\ product <= 0
      BY <3>1
    <3>4. MaxImageBytes(env) = product
      BY <3>3, WrapFits DEF MaxImageBytes
    <3> QED
      BY <2>7, <3>3, <3>4
  <2> QED
    BY <2>2, <2>3, <2>4, <2>5, <2>6, <2>7, <2>8 DEF ServersAreComplete
<1> QED
  BY <1>1, LifecycleInvariance, PTL
=============================================================================
