------------------------------- MODULE Pipeline -------------------------------
(***************************************************************************)
(* A request on its way through the middleware of app.New and              *)
(* registerRoutes and back: calls go down the chain, returns and panics    *)
(* come up, and what is written on the way is what the client and the log  *)
(* get.  Requests of one client address share the two limiters' counters.  *)
(* What the handlers do is Api; when the counters start again RateLimiter. *)
(***************************************************************************)
EXTENDS Naturals, Sequences

CONSTANTS
  Reqs,                    \* bound: so many requests at a time
  GlobalLimit, AuthLimit,  \* RATE_LIMIT_REQUESTS, AUTH_RATE_LIMIT_REQUESTS
  AppStatuses              \* the statuses of the AppErrors the handlers pass on

ASSUME PipelineAssumption ==
  /\ GlobalLimit \in Nat \ {0} /\ AuthLimit \in Nat \ {0}
  /\ AppStatuses \subseteq 400..500

VARIABLES
  req,          \* the request in each slot
  globalSpent,  \* the global limiter's counter
  authSpent     \* the counter of the limiter of the sensitive routes

pipelineVars == <<req, globalSpent, authSpent>>

-----------------------------------------------------------------------------
(* The chain *)

Kinds == {"preflight", "probe", "public", "sensitive", "user", "admin", "unknown"}

\* Mutant: the limiter is outside of CORS.
Root_LimiterFirst ==
  <<"requestID", "recover", "logger", "securityHeaders", "rateLimit", "cors", "timeout">>
\* Mutant: a panic is recovered below the logger.
Root_LoggerFirst ==
  <<"requestID", "logger", "recover", "securityHeaders", "cors", "rateLimit", "timeout">>
\* Mutant: no deadline.
Root_NoTimeout ==
  <<"requestID", "recover", "logger", "securityHeaders", "cors", "rateLimit">>
Root ==
  <<"requestID", "recover", "logger", "securityHeaders", "cors", "rateLimit", "timeout">>

\* Chain wraps from the last middleware to the first: the first is the outermost frame.
Chain(middlewares, handler) == middlewares \o handler

\* Mutant: an admin route is only protected.
AdminOnly_Protected(handler) == Chain(<<"requireAuth">>, handler)
\* Mutant: the role is asked for before there is a user.
AdminOnly_RoleFirst(handler) == Chain(<<"requireRole", "requireAuth">>, handler)
AdminOnly(handler) == Chain(<<"requireAuth", "requireRole">>, handler)

\* What the mux finds for a request.
Route(kind) ==
  CASE kind = "probe" -> <<"readiness">>
    [] kind \in {"public", "preflight"} -> <<"handler">>
    [] kind = "sensitive" -> <<"authRateLimit", "handler">>
    [] kind = "user" -> Chain(<<"requireAuth">>, <<"handler">>)
    [] kind = "admin" -> AdminOnly(<<"handler">>)
    [] kind = "unknown" -> <<"notFound">>

Server(kind) == Chain(Root, Route(kind))

-----------------------------------------------------------------------------
(* Requests *)

CallerKinds == {"none", "invalid", "disabled", "user", "admin"}
NotSent == [status |-> 0, headers |-> {}, body |-> "none"]

NoReq ==
  [kind |-> "public", origin |-> "other", caller |-> "none",
   mode |-> "idle", depth |-> 0,          \* calling, returning, panicking; frames entered
   headers |-> {}, sent |-> NotSent,      \* w.Header(), and what has gone to the client
   recorded |-> 0,                        \* statusWriter.status
   deadline |-> FALSE, user |-> "none",   \* the context
   log |-> <<>>,                          \* of Logger and Recover; not httpx.Error's of its cause
   counted |-> {}, ran |-> FALSE, panicked |-> FALSE]  \* history

PipelineInit == req = [r \in Reqs |-> NoReq] /\ globalSpent = 0 /\ authSpent = 0

At(r, name) ==
  /\ req[r].mode = "calling"
  /\ Server(req[r].kind)[req[r].depth + 1] = name

Innermost(r) == Server(req[r].kind)[req[r].depth]
Within(q, name) == \E i \in 1..q.depth : Server(q.kind)[i] = name

Become(r, q) == req' = [req EXCEPT ![r] = q]

\* The frame of the handler, entered.
Entered(r) == [req[r] EXCEPT !.depth = @ + 1]

\* WriteHeader and Write.  net/http sends the first status with the headers of that
\* moment, ignores later ones, and appends every body; statusWriter notes the last.
Written(q, status, body) ==
  [q EXCEPT
     !.recorded = IF Within(q, "logger") THEN status ELSE @,
     !.sent = IF @.status = 0
              THEN [status |-> status, headers |-> q.headers, body |-> body]
              ELSE [@ EXCEPT !.body = "mixed"]]

Refused(q, status) == [Written(q, status, "failure") EXCEPT !.mode = "returning"]

\* httpx.Error: the status of an AppError, 500 for any other error.
Raw == 0  \* an error without a status
ErrorStatus(err) == IF err \in AppStatuses THEN err ELSE 500

-----------------------------------------------------------------------------
(* Calls *)

Arrive(r, kind, origin, caller) ==
  /\ req[r].mode \in {"idle", "done"}
  /\ kind \notin {"user", "admin"} => caller = "none"
  /\ Become(r, [NoReq EXCEPT !.kind = kind, !.origin = origin, !.caller = caller,
                             !.mode = "calling"])
  /\ UNCHANGED <<globalSpent, authSpent>>

RequestID(r) ==
  /\ At(r, "requestID")
  /\ Become(r, [Entered(r) EXCEPT !.headers = @ \cup {"requestID"}])
  /\ UNCHANGED <<globalSpent, authSpent>>

\* Recover and Logger only act on the way back.
Deferring(r) ==
  /\ At(r, "recover") \/ At(r, "logger")
  /\ Become(r, Entered(r))
  /\ UNCHANGED <<globalSpent, authSpent>>

SecurityHeaders(r) ==
  /\ At(r, "securityHeaders")
  /\ Become(r, [Entered(r) EXCEPT !.headers = @ \cup {"security"}])
  /\ UNCHANGED <<globalSpent, authSpent>>

CORS(r) ==
  LET q == [Entered(r) EXCEPT
              !.headers = IF req[r].origin = "allowed" THEN @ \cup {"cors"} ELSE @] IN
  /\ At(r, "cors")
  /\ Become(r, IF req[r].kind = "preflight"
               THEN [Written(q, 204, "none") EXCEPT !.mode = "returning"]
               ELSE q)
  /\ UNCHANGED <<globalSpent, authSpent>>

Admit(r, name) == Become(r, [Entered(r) EXCEPT !.counted = @ \cup {name}])
TooMany(r) == Become(r, Refused([Entered(r) EXCEPT !.headers = @ \cup {"retryAfter"}], 429))

RateLimit(r) ==
  /\ At(r, "rateLimit")
  /\ IF globalSpent < GlobalLimit THEN Admit(r, "global") /\ globalSpent' = globalSpent + 1
                                  ELSE TooMany(r) /\ UNCHANGED globalSpent
  /\ UNCHANGED authSpent

AuthRateLimit(r) ==
  /\ At(r, "authRateLimit")
  /\ IF authSpent < AuthLimit THEN Admit(r, "auth") /\ authSpent' = authSpent + 1
                              ELSE TooMany(r) /\ UNCHANGED authSpent
  /\ UNCHANGED globalSpent

Timeout(r) ==
  /\ At(r, "timeout")
  /\ Become(r, [Entered(r) EXCEPT !.deadline = TRUE])
  /\ UNCHANGED <<globalSpent, authSpent>>

\* The mux has no such path or method.
NotFound(r) ==
  /\ At(r, "notFound")
  /\ Become(r, [Written(Entered(r), 404, "plain") EXCEPT !.mode = "returning"])
  /\ UNCHANGED <<globalSpent, authSpent>>

\* The read of the user's row may fail.
RequireAuth(r) ==
  /\ At(r, "requireAuth")
  /\ \/ req[r].caller \in {"none", "invalid"} /\ Become(r, Refused(Entered(r), 401))
     \/ req[r].caller = "disabled" /\ Become(r, Refused(Entered(r), 403))
     \/ req[r].caller \in {"user", "admin"} /\ Become(r, [Entered(r) EXCEPT !.user = req[r].caller])
     \/ req[r].caller # "none" /\ Become(r, Refused(Entered(r), 500))
  /\ UNCHANGED <<globalSpent, authSpent>>

RequireRole(r) ==
  /\ At(r, "requireRole")
  /\ \/ req[r].user = "none" /\ Become(r, Refused(Entered(r), 401))
     \/ req[r].user = "user" /\ Become(r, Refused(Entered(r), 403))
     \/ req[r].user = "admin" /\ Become(r, Entered(r))
  /\ UNCHANGED <<globalSpent, authSpent>>

Running(r) == [Entered(r) EXCEPT !.ran = TRUE]

HandlerAnswers(r) ==
  /\ At(r, "handler")
  /\ Become(r, [Written(Running(r), 200, "success") EXCEPT !.mode = "returning"])
  /\ UNCHANGED <<globalSpent, authSpent>>

\* Mutant: no return after httpx.Error.
HandlerFails_GoesOn(r, err) ==
  /\ At(r, "handler")
  /\ Become(r, Written(Refused(Running(r), ErrorStatus(err)), 200, "success"))
  /\ UNCHANGED <<globalSpent, authSpent>>
HandlerFails(r, err) ==
  /\ At(r, "handler")
  /\ Become(r, Refused(Running(r), ErrorStatus(err)))
  /\ UNCHANGED <<globalSpent, authSpent>>

\* Readiness answers the database's state; both answers are written by httpx.JSON.
Readiness(r) ==
  /\ At(r, "readiness")
  /\ \E status \in {200, 503} :
       Become(r, [Written(Running(r), status, "success") EXCEPT !.mode = "returning"])
  /\ UNCHANGED <<globalSpent, authSpent>>

\* A handler panics before it has written anything, or after it.
Panic(r) ==
  /\ \/ At(r, "handler")
        /\ Become(r, [Running(r) EXCEPT !.mode = "panicking", !.panicked = TRUE])
     \/ req[r].mode = "returning" /\ req[r].depth > 0 /\ Innermost(r) = "handler"
        /\ Become(r, [req[r] EXCEPT !.mode = "panicking", !.panicked = TRUE])
  /\ UNCHANGED <<globalSpent, authSpent>>

-----------------------------------------------------------------------------
(* Returns *)

Popped(q) == [q EXCEPT !.depth = @ - 1]

Return(r) ==
  /\ req[r].mode = "returning" /\ req[r].depth > 0
  /\ Become(r, IF Innermost(r) = "logger"
               THEN Popped([req[r] EXCEPT !.log = Append(@, [kind |-> "access",
                              status |-> IF req[r].recorded = 0 THEN 200 ELSE req[r].recorded])])
               ELSE Popped(req[r]))
  /\ UNCHANGED <<globalSpent, authSpent>>

\* A panic passes every frame by but Recover's, which logs it and writes to its own w.
Unwind(r) ==
  /\ req[r].mode = "panicking" /\ req[r].depth > 0
  /\ Become(r, IF Innermost(r) = "recover"
               THEN Popped(Refused([req[r] EXCEPT !.log = Append(@, [kind |-> "panic", status |-> 500])],
                                   500))
               ELSE Popped(req[r]))
  /\ UNCHANGED <<globalSpent, authSpent>>

\* net/http: a handler that has written nothing answers 200; a panic that nobody
\* recovers closes the connection.
Finish(r) ==
  /\ req[r].mode \in {"returning", "panicking"} /\ req[r].depth = 0
  /\ Become(r, [(IF req[r].mode = "returning" /\ req[r].sent.status = 0
                 THEN Written(req[r], 200, "none") ELSE req[r]) EXCEPT !.mode = "done"])
  /\ UNCHANGED <<globalSpent, authSpent>>

\* A window is over.
NewWindow ==
  /\ \/ globalSpent > 0 /\ globalSpent' = 0 /\ UNCHANGED authSpent
     \/ authSpent > 0 /\ authSpent' = 0 /\ UNCHANGED globalSpent
  /\ UNCHANGED req

\* Steps that never wait.
Pass(r) ==
  \/ RequestID(r) \/ Deferring(r) \/ SecurityHeaders(r) \/ CORS(r)
  \/ RateLimit(r) \/ AuthRateLimit(r) \/ Timeout(r) \/ NotFound(r) \/ RequireRole(r)
  \/ Return(r) \/ Unwind(r) \/ Finish(r)

\* Steps that wait for the database, the mail server or the storage.
Work(r) ==
  \/ RequireAuth(r) \/ HandlerAnswers(r) \/ Readiness(r) \/ Panic(r)
  \/ \E err \in AppStatuses \cup {Raw} : HandlerFails(r, err)

PipelineNext ==
  \/ \E r \in Reqs : Pass(r) \/ Work(r)
       \/ \E kind \in Kinds, origin \in {"allowed", "other"}, caller \in CallerKinds :
            Arrive(r, kind, origin, caller)
  \/ NewWindow

PipelineSpec == PipelineInit /\ [][PipelineNext]_pipelineVars

\* The runtime goes on with a goroutine; one that waits comes back because its
\* context has a deadline.
PipelineFairness ==
  \A r \in Reqs : WF_pipelineVars(Pass(r)) /\ WF_pipelineVars(Work(r) /\ req[r].deadline)

PipelineFairSpec == PipelineSpec /\ PipelineFairness

-----------------------------------------------------------------------------
(* Properties *)

Done(r) == req[r].mode = "done"

\* The access log records the status the client got, whatever was written on the way;
\* a panic after the answer does not reach the access log at all.
LogTellsAnswer ==
  \A r \in Reqs : Done(r) =>
    \A i \in DOMAIN req[r].log :
      req[r].log[i].kind = "access" => req[r].log[i].status = req[r].sent.status

\* Every request leaves one record: in the access log, or as a recovered panic.  A panic
\* before the answer is answered with the JSON of an internal error.
OneRecord ==
  \A r \in Reqs : Done(r) =>
    /\ Len(req[r].log) = 1
    /\ req[r].log[1].kind = "panic" <=> req[r].panicked
    /\ req[r].panicked => \/ req[r].sent.status = 500 /\ req[r].sent.body = "failure"
                          \/ req[r].sent.body = "mixed"

\* Refusals, preflights, unknown paths and recovered panics carry the request id, the
\* security headers and, for an allowed origin, the CORS headers: a browser can read them.
AnswersDressed ==
  \A r \in Reqs : Done(r) =>
    /\ {"requestID", "security"} \subseteq req[r].sent.headers
    /\ req[r].origin = "allowed" => "cors" \in req[r].sent.headers

\* A handler runs only for a request that was counted (twice on a sensitive route), has
\* a deadline and, on a protected route, the user and the role it needs.
HandlersGuarded ==
  \A r \in Reqs : req[r].ran =>
    /\ "global" \in req[r].counted /\ req[r].deadline
    /\ req[r].kind = "sensitive" => "auth" \in req[r].counted
    /\ req[r].kind \in {"user", "admin"} => req[r].user = req[r].caller
    /\ req[r].kind = "admin" => req[r].user = "admin"

\* Nobody is turned away without cause: 401 and 403 before the handler only for a caller
\* who is not who the route asks for, 429 never for a preflight.
RefusedForCause ==
  \A r \in Reqs : Done(r) /\ ~req[r].ran =>
    /\ req[r].sent.status = 401 => req[r].caller \in {"none", "invalid"}
    /\ req[r].sent.status = 403 =>
         req[r].caller = "disabled" \/ (req[r].kind = "admin" /\ req[r].caller = "user")
    /\ req[r].kind = "preflight" => req[r].sent.status = 204 /\ req[r].counted = {}

\* Every request that has arrived is answered.
AllAnswered ==
  \A r \in Reqs : req[r].mode = "calling" ~> Done(r) /\ req[r].sent.status # 0
=============================================================================
