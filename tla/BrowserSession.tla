---------------------------- MODULE BrowserSession ----------------------------
(***************************************************************************)
(* One browser and its refresh cookie, against the session table.          *)
(*                                                                         *)
(* internal/handler/auth.go turns what the services answer into Set-Cookie *)
(* headers.  The tabs of a browser share the cookie jar: a request carries *)
(* the cookie that is in the jar when it is sent, the jar takes the cookie *)
(* of an answer when it arrives, and requests of different tabs overlap,   *)
(* are answered in any order, or lose their answer.  The server is the     *)
(* module SessionTable, which Api implements.                              *)
(***************************************************************************)
EXTENDS Naturals

CONSTANTS
  Tabs, Tokens, User,
  None,  \* no token; as a Set-Cookie: the cleared cookie
  Keep   \* an answer without Set-Cookie

\* A reset of the password does to sessions and jar what logoutAll does.
Kinds == {"login", "refresh", "logout", "logoutAll", "changePassword"}
Cookies == Tokens \cup {None}
Stages == {"idle", "sent", "proved", "rotated", "granted", "refused"}

ASSUME BrowserAssumption ==
  None \notin Tokens \cup Tabs \cup {User, Keep} /\ Keep \notin Tokens

VARIABLES
  live, dead, pending,  \* the session table
  active,     \* users.is_active
  overtaken,  \* the tabs with a rotation whose token_version is no longer the user's
  jar,        \* the browser's refresh cookie
  tab,        \* the request of each tab
  parted,     \* history: tokens presented by logouts that succeeded
  out,        \* history: in, out since a logout was answered, or undone by a late answer
  late,       \* history: the tabs whose requests were under way when that answer arrived
  signedIn,   \* history: a login was answered, and nobody has asked to leave since
  calm        \* history: no overlap, no failed or lost refresh, no interference so far

table == <<live, dead, pending>>
account == <<active, overtaken>>
server == <<table, account>>
vars == <<server, jar, tab, parted, out, late, signedIn, calm>>

Server == INSTANCE SessionTable WITH Users <- {User}, Reqs <- Tabs

Live == live[User]

Idle == [pc |-> "idle", kind |-> "refresh", cookie |-> None, new |-> None,
         set |-> Keep]

\* Every variable has its type; only tokens that were handed out are in use.
TypeOK ==
  /\ Server!SessionTypeOK
  /\ active \in BOOLEAN /\ overtaken \subseteq Tabs
  /\ jar \in Cookies \ Server!Unissued
  /\ tab \in [Tabs -> [pc : Stages, kind : Kinds,
                       cookie : Cookies \ Server!Unissued, new : Cookies \ Server!Unissued,
                       set : (Cookies \cup {Keep}) \ Server!Unissued]]
  /\ parted \subseteq Tokens
  /\ out \in {"in", "out", "undone"} /\ late \subseteq Tabs
  /\ signedIn \in BOOLEAN /\ calm \in BOOLEAN

Init ==
  /\ Server!Init /\ active = TRUE /\ overtaken = {}
  /\ jar = None
  /\ tab = [b \in Tabs |-> Idle]
  /\ parted = {} /\ out = "in" /\ late = {} /\ signedIn = FALSE /\ calm = TRUE

-----------------------------------------------------------------------------
(* The browser *)

InProgress == {b \in Tabs : tab[b].pc # "idle"}

Send(b, kind) ==
  /\ tab[b].pc = "idle"
  /\ tab' = [tab EXCEPT ![b] = [pc |-> "sent", kind |-> kind, cookie |-> jar,
                                new |-> None, set |-> Keep]]
  /\ calm' = (calm /\ InProgress = {})
  /\ out' = IF kind = "login" THEN "in" ELSE out
  /\ signedIn' = (signedIn /\ kind \in {"login", "refresh"})
  /\ UNCHANGED <<server, jar, parted, late>>

LoggedOut(b) ==
  tab[b].kind \in {"logout", "logoutAll"} /\ tab[b].pc = "granted"

\* The answer arrives, and the jar obeys its Set-Cookie.
Deliver(b) ==
  /\ tab[b].pc \in {"granted", "refused"}
  /\ jar' = IF tab[b].set = Keep THEN jar ELSE tab[b].set
  /\ tab' = [tab EXCEPT ![b] = Idle]
  /\ IF LoggedOut(b) /\ out # "out"
     THEN out' = "out" /\ late' = InProgress \ {b}
     ELSE /\ out' = IF out = "out" /\ b \in late /\ tab[b].set \in Tokens THEN "undone" ELSE out
          /\ late' = late \ {b}
  /\ signedIn' = (signedIn \/ (tab[b].kind = "login" /\ tab[b].pc = "granted"))
  /\ UNCHANGED <<server, parted, calm>>

\* The request, or its answer, is lost on the way.
Lose(b) ==
  /\ tab[b].pc \in {"sent", "granted", "refused"}
  /\ tab' = [tab EXCEPT ![b] = Idle]
  /\ late' = late \ {b}
  /\ calm' = (calm /\ (tab[b].kind = "refresh" => tab[b].pc = "sent"))
  /\ UNCHANGED <<server, jar, parted, out, signedIn>>

-----------------------------------------------------------------------------
(* The handlers of AuthHandler *)

Asks(b, kind) == tab[b].pc = "sent" /\ tab[b].kind = kind

\* The handler answers, with this Set-Cookie.
Respond(b, verdict, set) ==
  /\ tab' = [tab EXCEPT ![b] = [pc |-> verdict, kind |-> tab[b].kind, cookie |-> None,
                                new |-> None, set |-> set]]
  /\ UNCHANGED <<jar, out, late, signedIn>>

Answer(b, set) == Respond(b, "granted", set)
Refuse(b, set) == Respond(b, "refused", set)

Quietly == UNCHANGED <<parted, calm>>

\* Requests that move the user's token_version: no token of before is good for anything.
MoveVersion ==
  /\ Server!KillAll(User)
  /\ overtaken' = overtaken \cup {b \in Tabs : tab[b].pc = "rotated"}
  /\ UNCHANGED active

\* Login: the password is right, and the account active ...
LoginProve(b) ==
  /\ Asks(b, "login") /\ active
  /\ Server!Authenticate(b, User)
  /\ tab' = [tab EXCEPT ![b].pc = "proved"]
  /\ UNCHANGED <<account, jar, out, late, signedIn>> /\ Quietly

\* ... and the session is created; a move of the version in between has made it worthless.
Login(b, t) ==
  /\ tab[b].pc = "proved"
  /\ \/ pending[b] = User /\ Server!Grant(b, t)
     \/ pending[b] = None /\ Server!GrantDead(t)
  /\ Answer(b, t) /\ Quietly /\ UNCHANGED account

LoginFails(b) ==
  /\ \/ Asks(b, "login") /\ UNCHANGED table
     \/ tab[b].pc = "proved" /\ Server!Drop(b)
  /\ Refuse(b, Keep) /\ Quietly /\ UNCHANGED account

\* Mutant: an error of Refresh leaves the cookie where it is.
RefreshCookie_Kept == Keep
\* Refresh clears the cookie whatever the error is.
RefreshCookie == None

\* Refresh without a cookie, or with one that is not live: 401.
RefreshRefused(b) ==
  /\ Asks(b, "refresh") /\ tab[b].cookie \notin Live
  /\ Refuse(b, RefreshCookie) /\ Quietly /\ UNCHANGED server

\* Rotate commits.
RefreshRotate(b, n) ==
  /\ Asks(b, "refresh")
  /\ Server!Rotate(User, tab[b].cookie, n)
  /\ tab' = [tab EXCEPT ![b].pc = "rotated", ![b].new = n]
  /\ UNCHANGED <<account, jar, out, late, signedIn>> /\ Quietly

\* Mutant: the old cookie is set again.
RefreshDone_OldCookie(b) ==
  /\ tab[b].pc = "rotated" /\ active /\ b \notin overtaken
  /\ Answer(b, tab[b].cookie) /\ Quietly /\ UNCHANGED server
\* The user is read again: active, and the version is still that of the rotation.  Whether
\* the new token has been revoked meanwhile is not looked at ...
RefreshDone(b) ==
  /\ tab[b].pc = "rotated" /\ active /\ b \notin overtaken
  /\ Answer(b, tab[b].new) /\ Quietly /\ UNCHANGED server

\* RevokeAllForUser: those tokens that its snapshot has; none if it fails.
RevokeSome == \E S \in SUBSET Live : Server!Revoke(S)

\* ... the account is disabled: 403 ...
RefreshDisabled(b) ==
  /\ tab[b].pc = "rotated" /\ ~active
  /\ RevokeSome
  /\ overtaken' = overtaken \ {b} /\ UNCHANGED active
  /\ Refuse(b, RefreshCookie) /\ Quietly

\* ... or the version has moved: the new token is revoked, 401.
RefreshOvertaken(b) ==
  /\ tab[b].pc = "rotated" /\ active /\ b \in overtaken
  /\ Server!Revoke({tab[b].new})
  /\ overtaken' = overtaken \ {b} /\ UNCHANGED active
  /\ Refuse(b, RefreshCookie) /\ Quietly

\* Rotate or the read after it fails, or the request's time is up.
RefreshFails(b) ==
  /\ Asks(b, "refresh") \/ tab[b].pc = "rotated"
  /\ overtaken' = overtaken \ {b} /\ UNCHANGED <<table, active>>
  /\ Refuse(b, RefreshCookie) /\ calm' = FALSE /\ UNCHANGED parted

\* Mutant: Logout revokes the token and leaves the cookie.
LogoutCookie_Kept == Keep
LogoutCookie == None

\* Mutant: Logout only clears the cookie.
Logout_CookieOnly(b) ==
  /\ Asks(b, "logout")
  /\ parted' = parted \cup ({tab[b].cookie} \ {None})
  /\ Answer(b, LogoutCookie) /\ UNCHANGED <<server, calm>>
Logout(b) ==
  /\ Asks(b, "logout")
  /\ Server!Revoke({tab[b].cookie} \ {None})
  /\ parted' = parted \cup ({tab[b].cookie} \ {None})
  /\ Answer(b, LogoutCookie) /\ UNCHANGED <<account, calm>>

LogoutFails(b) == Asks(b, "logout") /\ Refuse(b, Keep) /\ Quietly /\ UNCHANGED server

\* LogoutAll, and ResetPassword.
KillAll(b) ==
  /\ Asks(b, "logoutAll")
  /\ MoveVersion
  /\ Answer(b, None) /\ Quietly

\* They fail, perhaps after they have moved the version on.
KillAllFails(b) ==
  /\ Asks(b, "logoutAll")
  /\ MoveVersion \/ UNCHANGED server
  /\ Refuse(b, Keep) /\ Quietly

\* ChangePassword, which answers without Set-Cookie.
ChangePassword(b) ==
  /\ Asks(b, "changePassword")
  /\ MoveVersion \/ UNCHANGED server
  /\ Answer(b, Keep) /\ Quietly

-----------------------------------------------------------------------------
(* Interference *)

FromElsewhere == calm' = FALSE /\ UNCHANGED <<jar, tab, parted, out, late, signedIn>>

\* Another device ends all sessions or changes the password, or the user is deleted.
SessionsEndElsewhere == MoveVersion /\ FromElsewhere

\* SetRole and SetStatus revoke what there is and leave the version alone; so does the second
\* statement of a LogoutAll.
RevokedElsewhere == RevokeSome /\ FromElsewhere /\ UNCHANGED account

\* SetStatus.
StatusElsewhere == active' = ~active /\ FromElsewhere /\ UNCHANGED <<table, overtaken>>

Elsewhere == SessionsEndElsewhere \/ RevokedElsewhere \/ StatusElsewhere

Serve(b) ==
  \/ LoginProve(b) \/ LoginFails(b)
  \/ RefreshRefused(b) \/ RefreshDone(b) \/ RefreshDisabled(b)
  \/ RefreshOvertaken(b) \/ RefreshFails(b)
  \/ Logout(b) \/ LogoutFails(b)
  \/ KillAll(b) \/ KillAllFails(b) \/ ChangePassword(b)
  \/ \E t \in Tokens : Login(b, t) \/ RefreshRotate(b, t)

Next ==
  \/ \E b \in Tabs : Deliver(b) \/ Lose(b) \/ Serve(b) \/ \E kind \in Kinds : Send(b, kind)
  \/ Elsewhere

Spec == Init /\ [][Next]_vars

\* One tab keeps refreshing: its requests come to an end, and of its refreshes not
\* every one is lost on the way to the server or back.  Nothing is assumed about the
\* other tabs.
Fairness(b) ==
  /\ WF_vars(Serve(b) \/ Deliver(b) \/ Lose(b))
  /\ SF_vars(Send(b, "refresh"))
  /\ SF_vars(tab[b].kind = "refresh" /\ Serve(b))
  /\ SF_vars(tab[b].kind = "refresh" /\ Deliver(b))

FairSpec == Spec /\ \E b \in Tabs : Fairness(b)

-----------------------------------------------------------------------------
(* Properties *)

\* The answer to a logout leaves the jar empty until the next login, whatever is sent, lost
\* or answered after it: only the answer to a request that was under way at that moment can
\* bring a session back.
LogoutSticks == out = "out" => jar = None

\* A token that was presented to a logout that succeeded is never live again.
LoggedOutTokensDie == parted \cap Live = {}

\* A browser keeps its session through any number of refreshes until it asks to leave, failed
\* logins and lost requests in between: whoever is thrown out without asking had two requests
\* at a time, a refresh that failed or whose answer was lost, or an intervention.
SessionSurvives ==
  calm /\ signedIn /\ InProgress = {} => jar \in Live

\* A browser that keeps refreshing does not keep a dead cookie.
DeadCookieGoes == jar \in dead ~> jar \notin dead
=============================================================================
