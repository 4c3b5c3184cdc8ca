------------------------------- MODULE Lifecycle -------------------------------
(***************************************************************************)
(* The life of the API process: cmd/api/main.go and App.Run.  main loads    *)
(* the configuration and opens the pool, Run serves until the listener     *)
(* fails or a signal arrives, and then drains the connections for at most  *)
(* HTTP_SHUTDOWN_TIMEOUT.  Handlers are not interrupted: middleware.Timeout *)
(* only cancels their contexts.                                            *)
(***************************************************************************)
EXTENDS Configuration

CONSTANTS Conns  \* client connections

VARIABLES
  env,       \* what os.Getenv returns
  main,      \* where main is: load, connect, setup, run, select, shutdown, return, exited
  code,      \* the exit status, once there is one
  db,        \* the *sql.DB: none, open, closed
  listener,  \* the goroutine that calls ListenAndServe: none, starting, up, closed
  errCh,     \* whether its error waits in the channel
  signal,    \* whether SIGINT or SIGTERM was received
  conns,     \* the connections of http.Server: none, active, idle, closed
  cut        \* history: a request was in progress when the process ended

vars == <<env, main, code, db, listener, errCh, signal, conns, cut>>

Running == -1  \* no exit status yet

Init ==
  /\ env \in Settings
  /\ main = "load" /\ code = Running /\ db = "none"
  /\ listener = "none" /\ errCh = FALSE /\ signal = FALSE
  /\ conns = [c \in Conns |-> "none"]
  /\ cut = FALSE

Active == {c \in Conns : conns[c] = "active"}
Alive == main # "exited"

\* The process ends.  os.Exit runs no deferred call, so db is left as it is.
Exit(status) ==
  /\ main' = "exited" /\ code' = status
  /\ cut' = (Active # {})

-----------------------------------------------------------------------------
(* main *)

\* config.MustLoad returns or panics: the runtime exits with status 2.
MustLoad ==
  /\ main = "load"
  /\ \/ Acceptable(env) /\ main' = "connect" /\ UNCHANGED <<code, cut>>
     \/ ~Acceptable(env) /\ Exit(2)
  /\ UNCHANGED <<env, db, listener, errCh, signal, conns>>

Connect ==
  /\ main = "connect"
  /\ \/ main' = "setup" /\ db' = "open" /\ UNCHANGED <<code, cut>>
     \/ Exit(1) /\ db' = "closed"  \* the ping failed: Connect closes the pool
  /\ UNCHANGED <<env, listener, errCh, signal, conns>>

\* app.New: the storage and the mailer; then Run starts the listener.
Setup ==
  /\ main = "setup"
  /\ \/ Built(env) /\ main' = "run" /\ listener' = "starting" /\ UNCHANGED <<code, cut>>
     \/ ~Built(env) /\ Exit(1) /\ UNCHANGED listener
  /\ UNCHANGED <<env, db, errCh, signal, conns>>

\* signal.NotifyContext.
Notify ==
  /\ main = "run"
  /\ main' = "select"
  /\ UNCHANGED <<env, code, db, listener, errCh, signal, conns, cut>>

\* The select of Run, first branch: main exits with status 1.
ServerFailed ==
  /\ main = "select" /\ errCh
  /\ Exit(1)
  /\ UNCHANGED <<env, db, listener, errCh, signal, conns>>

\* Second branch: Shutdown closes the listener.
ShutDown ==
  /\ main = "select" /\ signal
  /\ main' = "shutdown"
  /\ listener' = "closed"
  /\ UNCHANGED <<env, code, db, errCh, signal, conns, cut>>

\* Shutdown closes idle connections while it waits for the others.
CloseIdle(c) ==
  /\ main = "shutdown" /\ conns[c] = "idle"
  /\ conns' = [conns EXCEPT ![c] = "closed"]
  /\ UNCHANGED <<env, main, code, db, listener, errCh, signal, cut>>

Drained == \A c \in Conns : conns[c] \in {"none", "closed"}

ShutDownDone ==
  /\ main = "shutdown" /\ Drained
  /\ main' = "return"
  /\ UNCHANGED <<env, code, db, listener, errCh, signal, conns, cut>>

\* Mutant: Shutdown gets a context without a timeout.
ShutDownTimeout_Never == FALSE /\ UNCHANGED vars
\* Mutant: Run does not look at Shutdown's error.
ShutDownTimeout_Ignored ==
  /\ main = "shutdown" /\ ~Drained
  /\ main' = "return"
  /\ UNCHANGED <<env, code, db, listener, errCh, signal, conns, cut>>
\* Shutdown returns the context's error; main exits with status 1.
ShutDownTimeout ==
  /\ main = "shutdown" /\ ~Drained
  /\ Exit(1)
  /\ UNCHANGED <<env, db, listener, errCh, signal, conns>>

\* main returns: the deferred db.Close.
Return ==
  /\ main = "return"
  /\ Exit(0)
  /\ db' = "closed"
  /\ UNCHANGED <<env, listener, errCh, signal, conns>>

-----------------------------------------------------------------------------
(* The listener's goroutine *)

Listen ==
  /\ Alive /\ listener = "starting"
  /\ \/ listener' = "up" /\ UNCHANGED errCh
     \/ listener' = "closed" /\ errCh' = TRUE  \* the port is taken
  /\ UNCHANGED <<env, main, code, db, signal, conns, cut>>

AcceptFails ==
  /\ Alive /\ listener = "up"
  /\ listener' = "closed" /\ errCh' = TRUE
  /\ UNCHANGED <<env, main, code, db, signal, conns, cut>>

-----------------------------------------------------------------------------
(* Clients, and the operator *)

Accept(c) ==
  /\ Alive /\ listener = "up" /\ conns[c] = "none"
  /\ conns' = [conns EXCEPT ![c] = "active"]
  /\ UNCHANGED <<env, main, code, db, listener, errCh, signal, cut>>

\* The handler is done; a server that shuts down keeps no connection alive.
Respond(c) ==
  /\ Alive /\ conns[c] = "active"
  /\ conns' = [conns EXCEPT ![c] = IF main = "shutdown" THEN "closed" ELSE "idle"]
  /\ UNCHANGED <<env, main, code, db, listener, errCh, signal, cut>>

NextRequest(c) ==
  /\ Alive /\ conns[c] = "idle"
  /\ conns' = [conns EXCEPT ![c] = "active"]
  /\ UNCHANGED <<env, main, code, db, listener, errCh, signal, cut>>

HangUp(c) ==
  /\ Alive /\ conns[c] = "idle"
  /\ conns' = [conns EXCEPT ![c] = "none"]
  /\ UNCHANGED <<env, main, code, db, listener, errCh, signal, cut>>

\* Before NotifyContext a signal kills the process; after it, it is noted,
\* and later ones are swallowed.
Signal ==
  /\ ~signal /\ Alive
  /\ signal' = TRUE
  /\ IF main \in {"load", "connect", "setup", "run"} THEN Exit(2) ELSE UNCHANGED <<main, code, cut>>
  /\ UNCHANGED <<env, db, listener, errCh, conns>>

Next ==
  \/ MustLoad \/ Connect \/ Setup \/ Notify \/ ServerFailed \/ ShutDown \/ ShutDownDone
  \/ ShutDownTimeout \/ Return \/ Listen \/ AcceptFails \/ Signal
  \/ \E c \in Conns : CloseIdle(c) \/ Accept(c) \/ Respond(c) \/ NextRequest(c) \/ HangUp(c)

Spec == Init /\ [][Next]_vars

\* main runs, Shutdown polls, and its timer fires.  No handler has to return.
Fairness ==
  /\ WF_vars(MustLoad) /\ WF_vars(Connect) /\ WF_vars(Setup) /\ WF_vars(Notify)
  /\ WF_vars(ServerFailed) /\ WF_vars(ShutDown) /\ WF_vars(ShutDownDone)
  /\ WF_vars(ShutDownTimeout) /\ WF_vars(Return)

FairSpec == Spec /\ Fairness

-----------------------------------------------------------------------------
\* Status 0 is the truth: nobody's request was cut off and the pool is closed.
CleanExit == code = 0 => ~cut /\ db = "closed"

\* A signal ends the process, even if some handler never returns.
SignalEnds == signal ~> main = "exited"

\* The server takes connections: everything below holds however the variables are
\* written and whichever are left out.
Listening == Alive /\ listener = "up"

\* "APP_ENV=production intentionally refuses insecure refresh cookies, the development
\* log-mailer ... and non-HTTPS public/frontend URLs".
ProductionIsStrict ==
  Listening /\ TrimSpace(env.environment) = Word("production") =>
    /\ TrimSpace(env.cookieSecure).word # "false"
    /\ CookieSecure(env)
    /\ TrimSpace(env.mail).word = "smtp" /\ env.host # Unset
    /\ {TrimSpace(env.publicURL), TrimSpace(env.frontendURL)} \subseteq {Word("https://")}

\* What the other modules assume of the configuration holds while a server listens, and
\* a provider that cannot work is noticed before: ConnPool, Pipeline and the limiters.
\* BrowserSession takes it that browsers keep the cookie: they drop one that is
\* SameSite=None and not Secure.  An image limit of less than a megabyte is refused,
\* unless it is so far below zero that the product wraps.
ServersAreComplete ==
  Listening =>
    /\ SameSite(env) = Word("none") => CookieSecure(env)
    /\ env.pool[1] >= 1 /\ env.pool[2] \in 0..env.pool[1]
    /\ env.limit >= 1 /\ env.authLimit >= 1
    /\ TrimSpace(env.mail).word = "smtp" => env.host # Unset
    /\ env.port >= 1 /\ env.port <= 65535
    /\ TrimSpace(env.storage).word = "cloudinary" => env.account # Unset
    /\ MaxImageBytes(env) >= 1
    /\ env.imageMB >= 1 \/ env.imageMB * Megabyte < MinInt64
=============================================================================
