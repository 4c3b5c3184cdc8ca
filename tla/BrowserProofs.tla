----------------------------- MODULE BrowserProofs -----------------------------
(***************************************************************************)
(* For any number of tabs and tokens: after a logout was answered only a   *)
(* late answer brings a session back, the tokens presented to logouts stay *)
(* dead, and a browser that met no trouble keeps its session.              *)
(***************************************************************************)
EXTENDS BrowserSession, TLAPS

Answered == {"granted", "refused"}

\* The fields of a request have their types, and what a stage says of them.
TabType == [pc : Stages, kind : Kinds, cookie : Cookies, new : Cookies,
            set : Cookies \cup {Keep}]

TabsOK ==
  /\ tab \in [Tabs -> TabType]
  /\ \A b \in Tabs : tab[b].pc = "idle" => tab[b].cookie = None /\ tab[b].new = None
  /\ \A b \in Tabs : tab[b].pc = "proved" => tab[b].kind = "login"
  /\ \A b \in Tabs : tab[b].pc = "rotated" => tab[b].kind = "refresh"
  /\ \A b \in Tabs : tab[b].pc \notin Answered => tab[b].set = Keep
  /\ \A b \in Tabs : LoggedOut(b) => tab[b].set = None

\* The session table: what was handed out is live or dead, and never both.
Handed == live[User] \cup dead

TableOK ==
  /\ live \in [{User} -> SUBSET Tokens] /\ dead \subseteq Tokens
  /\ pending \in [Tabs -> {User, None}]
  /\ live[User] \cap dead = {}

\* Only tokens that were handed out are in the jar and in requests.
IssuedOK ==
  /\ jar \in {None} \cup Handed
  /\ \A b \in Tabs : tab[b].cookie \in {None} \cup Handed
  /\ \A b \in Tabs : tab[b].new \in {None} \cup Handed
  /\ \A b \in Tabs : tab[b].set \in {None, Keep} \cup Handed
  /\ parted \subseteq dead

\* A request that is late has not come to its end.
LateOK == late \subseteq Tabs /\ \A b \in late : tab[b].pc # "idle"

\* After a logout was answered there is no token in the jar, or with a request that was sent
\* since.
Parted(b) == out = "out" /\ b \notin late
StickOK ==
  /\ out = "out" => jar = None
  /\ \A b \in Tabs :
       Parted(b) => /\ tab[b].cookie = None /\ tab[b].new = None
                    /\ tab[b].set \in {None, Keep}
                    /\ tab[b].pc # "idle" => tab[b].kind # "login"

\* Without trouble there is one request at a time, the account is as it was, and what the jar
\* holds, or will hold when the answer arrives, is live.
OneAtATime == \A b, c \in Tabs : tab[b].pc # "idle" /\ tab[c].pc # "idle" => b = c
Undisturbed == active = TRUE /\ overtaken = {}
Carries == \A b \in Tabs :
  /\ tab[b].pc = "sent" => tab[b].cookie = jar
  /\ tab[b].pc = "proved" => pending[b] = User
  /\ tab[b].pc = "rotated" => tab[b].new \in live[User]
Brings == \A b \in Tabs :
  /\ tab[b].pc = "granted" /\ tab[b].kind = "login" => tab[b].set \in live[User]
  /\ tab[b].pc = "refused" /\ tab[b].kind = "login" => tab[b].set = Keep
SignedIn == signedIn =>
  /\ \A b \in Tabs :
       /\ tab[b].pc # "idle" => tab[b].kind \in {"login", "refresh"}
       /\ tab[b].kind = "refresh" /\ tab[b].pc \in Answered => tab[b].set \in live[User]
  /\ jar \notin live[User] =>
       \E b \in Tabs : tab[b].kind = "refresh" /\ tab[b].pc \in {"rotated"} \cup Answered

CalmOK == calm => OneAtATime /\ Undisturbed /\ Carries /\ Brings /\ SignedIn

BInv == TabsOK /\ TableOK /\ IssuedOK /\ LateOK /\ StickOK /\ CalmOK

-----------------------------------------------------------------------------
(* The session table of one user *)

\* What has not been handed out.
LEMMA UnissuedIs == TableOK => Server!Unissued = Tokens \ Handed
  BY DEF TableOK, Server!Unissued, Handed

LEMMA GrantTable ==
  ASSUME TableOK, NEW b \in Tabs, NEW t \in Tokens, pending[b] = User, Server!Grant(b, t)
  PROVE  /\ TableOK' /\ t \notin Handed /\ Handed' = Handed \cup {t}
         /\ live'[User] = live[User] \cup {t} /\ dead' = dead
  BY UnissuedIs, BrowserAssumption DEF TableOK, Server!Grant, Handed

LEMMA GrantDeadTable ==
  ASSUME TableOK, NEW t \in Tokens, Server!GrantDead(t)
  PROVE  /\ TableOK' /\ t \notin Handed /\ Handed' = Handed \cup {t}
         /\ live'[User] = live[User] /\ dead' = dead \cup {t} /\ pending' = pending
  BY UnissuedIs DEF TableOK, Server!GrantDead, Handed

LEMMA RotateTable ==
  ASSUME TableOK, NEW t, NEW n \in Tokens, Server!Rotate(User, t, n)
  PROVE  /\ TableOK' /\ t \in live[User] /\ n \notin Handed /\ Handed' = Handed \cup {n}
         /\ live'[User] = (live[User] \ {t}) \cup {n} /\ dead' = dead \cup {t}
         /\ pending' = pending
  BY UnissuedIs DEF TableOK, Server!Rotate, Handed

LEMMA RevokeTable ==
  ASSUME TableOK, NEW S, Server!Revoke(S)
  PROVE  /\ TableOK' /\ Handed' = Handed
         /\ live'[User] = live[User] \ S /\ dead' = dead \cup (S \cap live[User])
         /\ pending' = pending
<1>1. UNION {live[u] : u \in {User}} = live[User]
  OBVIOUS
<1>2. /\ live' = [u \in {User} |-> live[u] \ S] /\ dead' = dead \cup (S \cap live[User])
      /\ pending' = pending
  BY <1>1 DEF Server!Revoke
<1> QED
  BY <1>2 DEF TableOK, Handed

LEMMA KillAllTable ==
  ASSUME TableOK, Server!KillAll(User)
  PROVE  TableOK' /\ Handed' = Handed /\ live'[User] = {} /\ dead' = dead \cup live[User]
  BY DEF TableOK, Server!KillAll, Handed

LEMMA AuthenticateTable ==
  ASSUME TableOK, NEW b \in Tabs, Server!Authenticate(b, User)
  PROVE  TableOK' /\ live' = live /\ dead' = dead /\ pending'[b] = User /\ Handed' = Handed
  BY DEF TableOK, Server!Authenticate, Handed

LEMMA DropTable ==
  ASSUME TableOK, NEW b \in Tabs, Server!Drop(b)
  PROVE  TableOK' /\ live' = live /\ dead' = dead /\ Handed' = Handed
  BY DEF TableOK, Server!Drop, Handed

LEMMA ServerStays ==
  ASSUME TableOK, UNCHANGED table
  PROVE  TableOK' /\ live' = live /\ dead' = dead /\ pending' = pending /\ Handed' = Handed
  BY DEF TableOK, table, Handed

LEMMA RevokeSomeTable ==
  ASSUME TableOK, RevokeSome
  PROVE  TableOK' /\ Handed' = Handed /\ dead \subseteq dead'
<1>1. PICK S \in SUBSET Live : Server!Revoke(S)
  BY DEF RevokeSome
<1> QED
  BY <1>1, RevokeTable

-----------------------------------------------------------------------------
(* A step of the server on behalf of one tab *)

\* Tab b moves to stage pc with these fields, and the others stay.
Moves(b, pc, kind, cookie, new, set) ==
  /\ tab' \in [Tabs -> TabType]
  /\ \A c \in Tabs \ {b} : tab'[c] = tab[c]
  /\ tab'[b].pc = pc /\ tab'[b].kind = kind /\ tab'[b].cookie = cookie
  /\ tab'[b].new = new /\ tab'[b].set = set

LEMMA MovesTo ==
  ASSUME tab \in [Tabs -> TabType], NEW b \in Tabs,
         NEW pc \in Stages, NEW kind \in Kinds, NEW cookie \in Cookies, NEW new \in Cookies,
         NEW set \in Cookies \cup {Keep},
         tab' = [tab EXCEPT ![b] = [pc |-> pc, kind |-> kind, cookie |-> cookie,
                                    new |-> new, set |-> set]]
  PROVE  Moves(b, pc, kind, cookie, new, set)
  BY DEF Moves, TabType

LEMMA FieldTypes ==
  ASSUME tab \in [Tabs -> TabType], NEW b \in Tabs
  PROVE  /\ tab[b].pc \in Stages /\ tab[b].kind \in Kinds /\ tab[b].cookie \in Cookies
         /\ tab[b].new \in Cookies /\ tab[b].set \in Cookies \cup {Keep}
  BY DEF TabType

LEMMA RespondMoves ==
  ASSUME tab \in [Tabs -> TabType], NEW b \in Tabs, NEW verdict \in Stages,
         NEW set \in Cookies \cup {Keep}, Respond(b, verdict, set)
  PROVE  Moves(b, verdict, tab[b].kind, None, None, set)
<1>1. tab[b].kind \in Kinds /\ None \in Cookies
  BY FieldTypes DEF Cookies
<1> QED
  BY <1>1, MovesTo DEF Respond

\* Whatever a handler does for tab b, it keeps the invariant if it keeps this contract.
LEMMA ServeStep ==
  ASSUME BInv, NEW b \in Tabs, tab[b].pc # "idle",
         NEW pc \in {"proved", "rotated", "granted", "refused"},
         NEW cookie \in {None, tab[b].cookie}, NEW new, NEW set,
         Moves(b, pc, tab[b].kind, cookie, new, set),
         jar' = jar, late' = late, out' = out, signedIn' = signedIn,
         TableOK', Handed \subseteq Handed', parted' \subseteq dead',
         new \in {None} \cup Handed', set \in {None, Keep} \cup Handed',
         Parted(b) => new = None /\ set \in {None, Keep},
         pc = "proved" => tab[b].kind = "login",
         pc = "rotated" => tab[b].kind = "refresh",
         pc \notin Answered => set = Keep,
         pc = "granted" /\ tab[b].kind \in {"logout", "logoutAll"} => set = None,
         calm' => calm /\ Undisturbed',
         calm' => (pc = "proved" => pending'[b] = User),
         calm' => (pc = "rotated" => new \in live'[User]),
         calm' => (pc = "granted" /\ tab[b].kind = "login" => set \in live'[User]),
         calm' => (pc = "refused" /\ tab[b].kind = "login" => set = Keep),
         calm' /\ signedIn => (tab[b].kind = "refresh" /\ pc \in Answered => set \in live'[User]),
         calm' /\ signedIn => (tab[b].kind = "login" => live[User] \subseteq live'[User])
  PROVE  BInv'
<1> USE DEF Moves
<1>a. TabsOK /\ IssuedOK /\ LateOK /\ StickOK /\ CalmOK
  BY DEF BInv
<1>1. TabsOK'
  BY <1>a DEF TabsOK, LoggedOut, Answered
<1>2. IssuedOK'
  BY <1>a DEF IssuedOK
<1>3. LateOK'
  BY <1>a DEF LateOK
<1>4. StickOK'
  BY <1>a DEF StickOK, Parted
<1>5. ASSUME calm' PROVE OneAtATime' /\ Undisturbed' /\ Carries' /\ Brings' /\ SignedIn'
  <2>1. OneAtATime /\ Carries /\ Brings /\ SignedIn
    BY <1>5, <1>a DEF CalmOK
  <2>2. \A c \in Tabs \ {b} : tab[c].pc = "idle" /\ tab'[c].pc = "idle"
    BY <2>1 DEF OneAtATime
  <2>3. OneAtATime'
    BY <2>1, <2>2 DEF OneAtATime
  <2>4. Carries'
    BY <1>5, <2>2 DEF Carries
  <2>5. Brings'
    BY <1>5, <2>2 DEF Brings
  <2>6. SignedIn'
    BY <1>5, <2>1, <2>2 DEF SignedIn, Answered
  <2> QED
    BY <1>5, <2>3, <2>4, <2>5, <2>6
<1>6. CalmOK'
  BY <1>5 DEF CalmOK
<1> QED
  BY <1>1, <1>2, <1>3, <1>4, <1>6 DEF BInv

-----------------------------------------------------------------------------
(* The handlers keep the contract *)

\* The facts of a request that a handler works on.
LEMMA InService ==
  ASSUME BInv, NEW b \in Tabs
  PROVE  /\ tab \in [Tabs -> TabType] /\ TableOK
         /\ tab[b].pc = "proved" => tab[b].kind = "login"
         /\ tab[b].pc = "rotated" => tab[b].kind = "refresh"
         /\ tab[b].new \in {None} \cup Handed /\ tab[b].cookie \in {None} \cup Handed
         /\ parted \subseteq dead
         /\ Parted(b) => tab[b].new = None /\ tab[b].cookie = None
         /\ Parted(b) /\ tab[b].pc # "idle" => tab[b].kind # "login"
         /\ calm => Undisturbed
         /\ calm /\ tab[b].pc # "idle" => \A c \in Tabs \ {b} : tab[c].pc = "idle"
         /\ calm /\ tab[b].pc = "rotated" => tab[b].new \in live[User]
         /\ calm /\ tab[b].pc = "proved" => pending[b] = User
  BY DEF BInv, TabsOK, IssuedOK, StickOK, CalmOK, Carries, OneAtATime

\* A request that was sent has no new token and no Set-Cookie yet.
LEMMA LoginProveStep ==
  ASSUME BInv, NEW b \in Tabs, LoginProve(b)
  PROVE  BInv'
<1>1. /\ tab[b].pc = "sent" /\ tab[b].kind = "login" /\ tab \in [Tabs -> TabType]
      /\ TableOK /\ tab[b].set = Keep /\ IssuedOK /\ TabsOK
  BY DEF LoginProve, Asks, BInv, TabsOK, Answered
<1>2. TableOK' /\ live' = live /\ dead' = dead /\ pending'[b] = User /\ Handed' = Handed
  BY <1>1, AuthenticateTable DEF LoginProve
<1>3. Moves(b, "proved", tab[b].kind, tab[b].cookie, tab[b].new, tab[b].set)
  <2>1. tab' = [tab EXCEPT ![b].pc = "proved"]
    BY DEF LoginProve
  <2>2. tab' \in [Tabs -> TabType]
    BY <1>1, <2>1 DEF TabType, Stages
  <2>3. \A c \in Tabs \ {b} : tab'[c] = tab[c]
    BY <2>1, InService
  <2>4. /\ tab'[b].pc = "proved" /\ tab'[b].set = tab[b].set /\ tab'[b].kind = tab[b].kind
        /\ tab'[b].cookie = tab[b].cookie /\ tab'[b].new = tab[b].new
    BY <1>1, <2>1 DEF TabType
  <2> QED
    BY <2>2, <2>3, <2>4 DEF Moves
<1>4. /\ jar' = jar /\ late' = late /\ out' = out /\ signedIn' = signedIn
      /\ parted' = parted /\ calm' = calm /\ UNCHANGED account
  BY DEF LoginProve, Quietly
<1>5. tab[b].new \in {None} \cup Handed /\ parted \subseteq dead
  BY <1>1 DEF IssuedOK
<1>6. (Parted(b) => tab[b].new = None) /\ (calm => Undisturbed')
  BY <1>4, InService DEF account, Undisturbed
<1> QED
  BY <1>1, <1>2, <1>3, <1>4, <1>5, <1>6, ServeStep DEF Answered

\* Requests that are refused without a new cookie.
LEMMA RefuseStep ==
  ASSUME BInv, NEW b \in Tabs, tab[b].pc \in {"sent", "proved", "rotated"},
         NEW set \in {None, Keep}, Refuse(b, set), parted' = parted,
         TableOK', Handed \subseteq Handed', dead \subseteq dead',
         calm' => calm /\ Undisturbed',
         calm' /\ tab[b].kind = "login" => set = Keep /\ live[User] \subseteq live'[User],
         calm' /\ signedIn => tab[b].kind # "refresh"
  PROVE  BInv'
<1>1. Moves(b, "refused", tab[b].kind, None, None, set)
  BY InService, RespondMoves DEF Refuse, Stages, Cookies
<1>2. jar' = jar /\ late' = late /\ out' = out /\ signedIn' = signedIn
  BY DEF Refuse, Respond
<1>3. parted' \subseteq dead'
  BY InService
<1> QED
  BY <1>1, <1>2, <1>3, ServeStep DEF Answered

LEMMA LoginFailsStep ==
  ASSUME BInv, NEW b \in Tabs, LoginFails(b)
  PROVE  BInv'
<1>1. /\ tab[b].pc \in {"sent", "proved"} /\ tab[b].kind = "login" /\ Refuse(b, Keep)
      /\ UNCHANGED table \/ Server!Drop(b)
      /\ parted' = parted /\ calm' = calm /\ UNCHANGED account
  BY InService DEF LoginFails, Asks, Quietly
<1>2. TableOK' /\ live' = live /\ dead' = dead /\ Handed' = Handed
  BY <1>1, InService, ServerStays, DropTable
<1>3. calm => Undisturbed'
  BY <1>1, InService DEF account, Undisturbed
<1> QED
  BY <1>1, <1>2, <1>3, RefuseStep

LEMMA LoginStep ==
  ASSUME BInv, NEW b \in Tabs, NEW t \in Tokens, Login(b, t)
  PROVE  BInv'
<1>1. /\ tab[b].pc = "proved" /\ Answer(b, t) /\ parted' = parted /\ calm' = calm
      /\ UNCHANGED account
  BY DEF Login, Quietly
<1>2. Moves(b, "granted", tab[b].kind, None, None, t)
  BY <1>1, InService, RespondMoves DEF Answer, Stages, Cookies
<1>3. /\ TableOK' /\ Handed' = Handed \cup {t} /\ live[User] \subseteq live'[User]
      /\ dead \subseteq dead'
      /\ pending[b] = User => t \in live'[User]
  <2>1. CASE pending[b] = User /\ Server!Grant(b, t)
    BY <2>1, InService, GrantTable
  <2>2. CASE pending[b] = None /\ Server!GrantDead(t)
    BY <2>2, InService, GrantDeadTable, BrowserAssumption
  <2> QED
    BY <2>1, <2>2 DEF Login
<1>4. jar' = jar /\ late' = late /\ out' = out /\ signedIn' = signedIn
  BY <1>1 DEF Answer, Respond
<1>5. /\ Handed \subseteq Handed'
      /\ tab[b].kind = "login" /\ tab[b].kind # "refresh" /\ ~Parted(b) /\ t \in Handed'
      /\ calm => t \in live'[User]
  BY <1>1, <1>3, InService
<1>6. /\ parted' \subseteq dead' /\ calm' = calm /\ tab[b].pc # "idle"
      /\ tab[b].kind \notin {"logout", "logoutAll"}
      /\ calm => Undisturbed'
  BY <1>1, <1>3, <1>5, InService DEF account, Undisturbed
<1> QED
  BY <1>2, <1>3, <1>4, <1>5, <1>6, ServeStep, SMTT(30) DEF Answered

LEMMA RefreshRefusedStep ==
  ASSUME BInv, NEW b \in Tabs, RefreshRefused(b)
  PROVE  BInv'
<1>1. /\ tab[b].pc = "sent" /\ tab[b].kind = "refresh" /\ tab[b].cookie \notin live[User]
      /\ Refuse(b, None) /\ parted' = parted /\ calm' = calm /\ UNCHANGED server
  BY DEF RefreshRefused, Asks, Quietly, RefreshCookie, Live
<1>3. TableOK' /\ Handed' = Handed /\ dead' = dead
  BY <1>1, InService, ServerStays DEF server
<1>4. calm => ~signedIn
  <2> SUFFICES ASSUME calm, signedIn PROVE FALSE
    OBVIOUS
  <2>1. jar \notin live[User]
    BY <1>1 DEF BInv, CalmOK, Carries
  <2>2. PICK c \in Tabs : tab[c].pc \in {"rotated"} \cup Answered
    BY <2>1 DEF BInv, CalmOK, SignedIn
  <2>3. b = c
    BY <1>1, <2>2 DEF BInv, CalmOK, OneAtATime, Answered
  <2> QED
    BY <1>1, <2>2, <2>3 DEF Answered
<1>5. calm => Undisturbed'
  BY <1>1, InService DEF server, account, Undisturbed
<1>6. tab[b].kind # "login"
  BY <1>1
<1> QED
  BY <1>1, <1>3, <1>4, <1>5, <1>6, RefuseStep

LEMMA RefreshRotateStep ==
  ASSUME BInv, NEW b \in Tabs, NEW n \in Tokens, RefreshRotate(b, n)
  PROVE  BInv'
<1>1. /\ tab[b].pc = "sent" /\ tab[b].kind = "refresh"
      /\ Server!Rotate(User, tab[b].cookie, n)
      /\ tab' = [tab EXCEPT ![b].pc = "rotated", ![b].new = n]
      /\ jar' = jar /\ late' = late /\ out' = out /\ signedIn' = signedIn
      /\ parted' = parted /\ calm' = calm /\ UNCHANGED account
  BY DEF RefreshRotate, Asks, Quietly
<1>2. /\ TableOK' /\ Handed' = Handed \cup {n} /\ live'[User] = (live[User] \ {tab[b].cookie}) \cup {n}
      /\ dead \subseteq dead' /\ tab[b].cookie \in live[User]
  BY <1>1, InService, RotateTable
<1>4. tab[b].set = Keep
  BY <1>1 DEF BInv, TabsOK, Answered
<1>3. Moves(b, "rotated", tab[b].kind, tab[b].cookie, n, Keep)
  <2>1. tab' = [tab EXCEPT ![b].pc = "rotated", ![b].new = n]
    BY <1>1
  <2>2. tab' \in [Tabs -> TabType]
    BY <2>1, InService DEF TabType, Stages, Cookies
  <2>3. \A c \in Tabs \ {b} : tab'[c] = tab[c]
    BY <2>1, InService
  <2>4. /\ tab'[b].pc = "rotated" /\ tab'[b].set = tab[b].set /\ tab'[b].kind = tab[b].kind
        /\ tab'[b].cookie = tab[b].cookie /\ tab'[b].new = n
    BY <2>1, InService DEF TabType
  <2> QED
    BY <2>2, <2>3, <2>4, <1>4 DEF Moves
<1>5. ~Parted(b)
  BY <1>2, InService, BrowserAssumption DEF TableOK
<1>6. parted \subseteq dead' /\ Handed \subseteq Handed' /\ n \in live'[User] /\ n \in Handed'
  BY <1>2, InService
<1>7. calm => Undisturbed'
  BY <1>1, InService DEF account, Undisturbed
<1> QED
  BY <1>1, <1>2, <1>3, <1>5, <1>6, <1>7, ServeStep DEF Answered

LEMMA RefreshDoneStep ==
  ASSUME BInv, NEW b \in Tabs, RefreshDone(b)
  PROVE  BInv'
<1>1. /\ tab[b].pc = "rotated" /\ tab[b].kind = "refresh"
      /\ Respond(b, "granted", tab[b].new) /\ parted' = parted /\ calm' = calm
      /\ UNCHANGED <<table, account>>
  BY InService DEF RefreshDone, Answer, Quietly, server
<1>2. tab[b].new \in Cookies /\ tab[b].new \in {None} \cup Handed
  BY InService, FieldTypes
<1>3. Moves(b, "granted", tab[b].kind, None, None, tab[b].new)
  BY <1>1, <1>2, InService, RespondMoves DEF Stages
<1>4. TableOK' /\ Handed' = Handed /\ dead' = dead /\ live' = live
  BY <1>1, InService, ServerStays
<1>5. jar' = jar /\ late' = late /\ out' = out /\ signedIn' = signedIn
  BY <1>1 DEF Respond
<1>6. /\ calm => Undisturbed'
      /\ calm => tab[b].new \in live'[User]
      /\ Parted(b) => tab[b].new = None
      /\ parted' \subseteq dead'
  BY <1>1, <1>4, InService DEF account, Undisturbed
<1> QED
  BY <1>1, <1>2, <1>3, <1>4, <1>5, <1>6, ServeStep DEF Answered

\* A refusal after the rotation: the browser was disturbed.
LEMMA RefreshDisabledStep ==
  ASSUME BInv, NEW b \in Tabs, RefreshDisabled(b)
  PROVE  BInv'
<1>1. /\ tab[b].pc = "rotated" /\ active # TRUE /\ RevokeSome
      /\ Refuse(b, None) /\ parted' = parted /\ calm' = calm
  BY DEF RefreshDisabled, Quietly, RefreshCookie
<1>2. TableOK' /\ Handed' = Handed /\ dead \subseteq dead'
  BY <1>1, InService, RevokeSomeTable
<1>3. ~calm
  BY <1>1, InService DEF Undisturbed
<1> QED
  BY <1>1, <1>2, <1>3, RefuseStep

LEMMA RefreshOvertakenStep ==
  ASSUME BInv, NEW b \in Tabs, RefreshOvertaken(b)
  PROVE  BInv'
<1>1. /\ tab[b].pc = "rotated" /\ overtaken # {}
      /\ Refuse(b, None) /\ parted' = parted /\ calm' = calm
      /\ Server!Revoke({tab[b].new})
  BY DEF RefreshOvertaken, Quietly, RefreshCookie
<1>2. TableOK' /\ Handed' = Handed /\ dead \subseteq dead'
  BY <1>1, InService, RevokeTable
<1>3. ~calm
  BY <1>1, InService DEF Undisturbed
<1> QED
  BY <1>1, <1>2, <1>3, RefuseStep

LEMMA RefreshFailsStep ==
  ASSUME BInv, NEW b \in Tabs, RefreshFails(b)
  PROVE  BInv'
<1>1. /\ tab[b].pc \in {"sent", "rotated"} /\ Refuse(b, None) /\ UNCHANGED table
      /\ parted' = parted /\ calm' = FALSE
  BY DEF RefreshFails, Asks, RefreshCookie
<1>2. TableOK' /\ Handed' = Handed /\ dead' = dead
  BY <1>1, InService, ServerStays
<1> QED
  BY <1>1, <1>2, RefuseStep

LEMMA LogoutStep ==
  ASSUME BInv, NEW b \in Tabs, Logout(b)
  PROVE  BInv'
<1> DEFINE S == {tab[b].cookie} \ {None}
<1>1. /\ tab[b].pc = "sent" /\ tab[b].kind = "logout" /\ Server!Revoke(S)
      /\ parted' = parted \cup S /\ Respond(b, "granted", None) /\ calm' = calm
      /\ UNCHANGED account
  BY DEF Logout, Asks, Answer, LogoutCookie
<1>2. Moves(b, "granted", tab[b].kind, None, None, None)
  BY <1>1, InService, RespondMoves DEF Stages, Cookies
<1>3. TableOK' /\ Handed' = Handed /\ dead' = dead \cup (S \cap live[User])
  <2> HIDE DEF S
  <2> QED
    BY <1>1, InService, RevokeTable
<1>4. parted' \subseteq dead'
  BY <1>1, <1>3, InService DEF Handed
<1>5. jar' = jar /\ late' = late /\ out' = out /\ signedIn' = signedIn
  BY <1>1 DEF Respond
<1>6. /\ parted' \subseteq dead' /\ Handed \subseteq Handed'
      /\ calm => Undisturbed'
  BY <1>1, <1>3, <1>4, InService DEF account, Undisturbed
<1> QED
  BY <1>1, <1>2, <1>3, <1>5, <1>6, ServeStep DEF Answered

LEMMA LogoutFailsStep ==
  ASSUME BInv, NEW b \in Tabs, LogoutFails(b)
  PROVE  BInv'
<1>1. /\ tab[b].pc = "sent" /\ tab[b].kind = "logout" /\ Refuse(b, Keep)
      /\ UNCHANGED <<table, account>> /\ parted' = parted /\ calm' = calm
  BY DEF LogoutFails, Asks, Quietly, server
<1>2. TableOK' /\ Handed' = Handed /\ dead' = dead
  BY <1>1, InService, ServerStays
<1>3. (calm => Undisturbed') /\ tab[b].kind # "login" /\ tab[b].kind # "refresh"
  BY <1>1, InService DEF account, Undisturbed
<1> QED
  BY <1>1, <1>2, <1>3, RefuseStep

\* When the version moves on behalf of the only request there is, no rotation is overtaken.
LEMMA MoveVersionTable ==
  ASSUME TableOK, MoveVersion
  PROVE  TableOK' /\ Handed' = Handed /\ dead \subseteq dead'
  BY KillAllTable DEF MoveVersion

LEMMA MoveVersionCalm ==
  ASSUME BInv, calm, NEW b \in Tabs, tab[b].pc = "sent",
         MoveVersion \/ UNCHANGED server
  PROVE  Undisturbed'
<1>1. Undisturbed /\ \A c \in Tabs : tab[c].pc # "rotated"
  BY InService
<1> QED
  BY <1>1 DEF MoveVersion, server, account, Undisturbed

\* LogoutAll clears the cookie, ChangePassword leaves it.
LEMMA KillAllStep ==
  ASSUME BInv, NEW b \in Tabs, KillAll(b)
  PROVE  BInv'
<1>1. /\ tab[b].pc = "sent" /\ tab[b].kind = "logoutAll"
      /\ MoveVersion /\ Respond(b, "granted", None)
      /\ parted' = parted /\ calm' = calm
  BY DEF KillAll, Asks, Answer, Quietly
<1>2. Moves(b, "granted", tab[b].kind, None, None, None)
  BY <1>1, InService, RespondMoves DEF Stages, Cookies
<1>3. TableOK' /\ Handed' = Handed /\ dead \subseteq dead'
  BY <1>1, InService, MoveVersionTable
<1>4. jar' = jar /\ late' = late /\ out' = out /\ signedIn' = signedIn
  BY <1>1 DEF Respond
<1>5. /\ tab[b].kind # "login" /\ tab[b].kind # "refresh" /\ parted' \subseteq dead'
      /\ Handed \subseteq Handed'
      /\ calm => Undisturbed'
  BY <1>1, <1>3, InService, MoveVersionCalm
<1> QED
  BY <1>1, <1>2, <1>3, <1>4, <1>5, ServeStep DEF Answered

LEMMA KillAllFailsStep ==
  ASSUME BInv, NEW b \in Tabs, KillAllFails(b)
  PROVE  BInv'
<1>1. /\ tab[b].pc = "sent" /\ tab[b].kind = "logoutAll" /\ Refuse(b, Keep)
      /\ MoveVersion \/ UNCHANGED server
      /\ parted' = parted /\ calm' = calm
  BY DEF KillAllFails, Asks, Quietly
<1>2. TableOK' /\ Handed' = Handed /\ dead \subseteq dead'
  BY <1>1, InService, MoveVersionTable, ServerStays DEF server
<1>3. (calm => Undisturbed') /\ tab[b].kind # "login" /\ tab[b].kind # "refresh"
  BY <1>1, MoveVersionCalm
<1> QED
  BY <1>1, <1>2, <1>3, RefuseStep

LEMMA ChangePasswordStep ==
  ASSUME BInv, NEW b \in Tabs, ChangePassword(b)
  PROVE  BInv'
<1>1. /\ tab[b].pc = "sent" /\ tab[b].kind = "changePassword"
      /\ MoveVersion \/ UNCHANGED server
      /\ Respond(b, "granted", Keep) /\ parted' = parted /\ calm' = calm
  BY DEF ChangePassword, Asks, Answer, Quietly
<1>2. Moves(b, "granted", tab[b].kind, None, None, Keep)
  BY <1>1, InService, RespondMoves DEF Stages, Cookies
<1>3. TableOK' /\ Handed' = Handed /\ dead \subseteq dead'
  BY <1>1, InService, MoveVersionTable, ServerStays DEF server
<1>4. jar' = jar /\ late' = late /\ out' = out /\ signedIn' = signedIn
  BY <1>1 DEF Respond
<1>5. /\ parted' \subseteq dead' /\ Handed \subseteq Handed'
      /\ tab[b].kind # "login" /\ tab[b].kind # "refresh"
      /\ tab[b].kind \notin {"logout", "logoutAll"}
      /\ calm => Undisturbed'
  BY <1>1, <1>3, InService, MoveVersionCalm
<1> QED
  BY <1>1, <1>2, <1>3, <1>4, <1>5, ServeStep DEF Answered

\* Every step of the server for a tab keeps the invariant.
LEMMA ServePreserves ==
  ASSUME BInv, NEW b \in Tabs, Serve(b)
  PROVE  BInv'
  BY LoginProveStep, LoginFailsStep, LoginStep, RefreshRefusedStep, RefreshRotateStep,
     RefreshDoneStep, RefreshDisabledStep, RefreshOvertakenStep, RefreshFailsStep, LogoutStep, LogoutFailsStep,
     KillAllStep, KillAllFailsStep, ChangePasswordStep DEF Serve

-----------------------------------------------------------------------------
(* The steps of the browser, and interference from elsewhere *)

LEMMA SendStep ==
  ASSUME BInv, NEW b \in Tabs, NEW kind \in Kinds, Send(b, kind)
  PROVE  BInv'
<1>1. /\ tab[b].pc = "idle" /\ UNCHANGED server /\ jar' = jar /\ parted' = parted
      /\ late' = late
      /\ out' = (IF kind = "login" THEN "in" ELSE out)
  BY DEF Send
<1>2. Moves(b, "sent", kind, jar, None, Keep)
  <2>1. jar \in Cookies
    BY DEF BInv, IssuedOK, TableOK, Handed, Cookies
  <2>2. tab \in [Tabs -> TabType]
    BY DEF BInv, TabsOK
  <2> QED
    BY <2>1, <2>2, MovesTo DEF Send, Cookies, Stages
<1>3. /\ TableOK' /\ Handed' = Handed /\ live' = live /\ dead' = dead /\ pending' = pending
      /\ UNCHANGED account
  BY <1>1, ServerStays DEF BInv, server
<1>4. calm' => calm /\ InProgress = {}
  BY DEF Send
<1>5. signedIn' => signedIn /\ kind \in {"login", "refresh"}
  BY DEF Send
<1>6. InProgress = {} => \A c \in Tabs : tab[c].pc = "idle"
  BY DEF InProgress
<1> USE DEF Moves
<1>11. TabsOK'
  BY <1>1, <1>2 DEF BInv, TabsOK, LoggedOut, Answered
<1>12. IssuedOK'
  BY <1>1, <1>2, <1>3 DEF BInv, IssuedOK
<1>13. LateOK'
  BY <1>1, <1>2 DEF BInv, LateOK
<1>14. StickOK'
  BY <1>1, <1>2 DEF BInv, StickOK, Parted
<1>15. ASSUME calm' PROVE OneAtATime' /\ Undisturbed' /\ Carries' /\ Brings' /\ SignedIn'
  <2>1. /\ calm
        /\ \A c \in Tabs : tab[c].pc = "idle"
        /\ \A c \in Tabs \ {b} : tab'[c].pc = "idle"
    BY <1>1, <1>2, <1>4, <1>6, <1>15
  <2>2. OneAtATime'
    BY <1>2, <2>1 DEF OneAtATime
  <2>3. Carries' /\ Brings'
    BY <1>1, <1>2, <2>1 DEF Carries, Brings
  <2>4. SignedIn
    BY <2>1 DEF BInv, CalmOK
  <2>5. signedIn => jar \in live[User]
    BY <2>1, <2>4 DEF SignedIn, Answered
  <2>6. SignedIn'
    BY <1>1, <1>2, <1>3, <1>5, <2>1, <2>5 DEF SignedIn, Answered
  <2>7. Undisturbed'
    BY <1>3, <2>1 DEF BInv, CalmOK, Undisturbed, account
  <2> QED
    BY <2>2, <2>3, <2>6, <2>7
<1>16. CalmOK'
  BY <1>15 DEF CalmOK
<1> QED
  BY <1>3, <1>11, <1>12, <1>13, <1>14, <1>16 DEF BInv

\* Tab b becomes idle.
LEMMA IdleMoves ==
  ASSUME BInv, NEW b \in Tabs, tab' = [tab EXCEPT ![b] = Idle]
  PROVE  Moves(b, "idle", "refresh", None, None, Keep)
  BY MovesTo DEF Idle, BInv, TabsOK, Cookies, Stages, Kinds

LEMMA LoseStep ==
  ASSUME BInv, NEW b \in Tabs, Lose(b)
  PROVE  BInv'
<1>1. /\ Moves(b, "idle", "refresh", None, None, Keep)
      /\ UNCHANGED <<table, account>> /\ jar' = jar /\ late' = late \ {b}
      /\ parted' = parted /\ out' = out /\ signedIn' = signedIn
  BY IdleMoves DEF Lose, server
<1>2. calm' => calm /\ tab[b].pc # "idle" /\ (tab[b].kind = "refresh" => tab[b].pc = "sent")
  BY DEF Lose
<1>3. /\ TableOK' /\ Handed' = Handed /\ dead' = dead /\ live' = live
      /\ pending' = pending
  BY <1>1, ServerStays DEF BInv
<1> USE DEF Moves
<1>4. TabsOK'
  BY <1>1 DEF BInv, TabsOK, LoggedOut, Answered
<1>5. IssuedOK'
  BY <1>1, <1>3 DEF BInv, IssuedOK
<1>6. LateOK'
  BY <1>1 DEF BInv, LateOK
<1>7. StickOK'
  BY <1>1 DEF BInv, StickOK, Parted
<1>8. ASSUME calm' PROVE OneAtATime' /\ Undisturbed' /\ Carries' /\ Brings' /\ SignedIn'
  <2>1. calm /\ OneAtATime /\ Undisturbed /\ SignedIn
    BY <1>2, <1>8 DEF BInv, CalmOK
  <2>2. \A c \in Tabs \ {b} : tab[c].pc = "idle"
    BY <1>2, <1>8, <2>1 DEF OneAtATime
  <2>3. \A c \in Tabs : tab'[c].pc = "idle"
    BY <1>1, <2>2
  <2>4. OneAtATime' /\ Carries' /\ Brings' /\ Undisturbed'
    BY <1>1, <2>1, <2>3 DEF OneAtATime, Carries, Brings, Undisturbed, account
  <2>5. signedIn => jar \in live[User]
    BY <1>2, <1>8, <2>1, <2>2 DEF SignedIn, Answered
  <2>6. SignedIn'
    BY <1>1, <1>3, <2>3, <2>5 DEF SignedIn, Answered
  <2> QED
    BY <2>4, <2>6
<1>9. CalmOK'
  BY <1>8 DEF CalmOK
<1> QED
  BY <1>3, <1>4, <1>5, <1>6, <1>7, <1>9 DEF BInv

LEMMA DeliverStep ==
  ASSUME BInv, NEW b \in Tabs, Deliver(b)
  PROVE  BInv'
<1>1. /\ Moves(b, "idle", "refresh", None, None, Keep)
      /\ UNCHANGED <<table, account>> /\ parted' = parted
      /\ tab[b].pc \in Answered
      /\ jar' = (IF tab[b].set = Keep THEN jar ELSE tab[b].set)
  BY IdleMoves DEF Deliver, Answered, server
<1>2. \/ /\ LoggedOut(b) /\ out # "out"
         /\ out' = "out" /\ late' = InProgress \ {b}
      \/ /\ out' \in {out, "undone"} /\ late' = late \ {b}
         /\ out' = "out" => out = "out" /\ ~(b \in late /\ tab[b].set \in Tokens)
  BY DEF Deliver
<1>3. TableOK' /\ Handed' = Handed /\ dead' = dead /\ live' = live /\ pending' = pending
  BY <1>1, ServerStays DEF BInv
<1>4. calm' = calm /\ signedIn' = (signedIn \/ (tab[b].kind = "login" /\ tab[b].pc = "granted"))
  BY DEF Deliver
<1> USE DEF Moves
<1>5. TabsOK'
  BY <1>1 DEF BInv, TabsOK, LoggedOut, Answered
<1>6. IssuedOK'
  BY <1>1, <1>3 DEF BInv, IssuedOK
<1>7. LateOK'
  BY <1>1, <1>2 DEF BInv, LateOK, InProgress
<1>8. StickOK'
  <2>1. CASE LoggedOut(b) /\ out # "out" /\ out' = "out" /\ late' = InProgress \ {b}
    <3>1. jar' = None
      BY <1>1, <2>1, BrowserAssumption DEF BInv, TabsOK
    <3>2. \A c \in Tabs : c \notin late' => /\ tab'[c].pc = "idle" /\ tab'[c].cookie = None
                                             /\ tab'[c].new = None /\ tab'[c].set = Keep
      BY <1>1, <2>1 DEF BInv, TabsOK, Answered, InProgress
    <3> QED
      BY <3>1, <3>2 DEF StickOK, Parted
  <2>2. CASE out' = "out" /\ out = "out" /\ late' = late \ {b} /\ ~(b \in late /\ tab[b].set \in Tokens)
    <3>1. jar = None /\ tab[b].set \in {None, Keep}
      BY <2>2 DEF BInv, StickOK, Parted, IssuedOK, TableOK, Handed
    <3>2. jar' = None
      BY <1>1, <3>1
    <3> QED
      BY <1>1, <2>2, <3>2 DEF BInv, StickOK, Parted
  <2>3. CASE out' # "out"
    BY <2>3 DEF StickOK, Parted
  <2> QED
    BY <1>2, <2>1, <2>2, <2>3
<1>9. ASSUME calm' PROVE OneAtATime' /\ Undisturbed' /\ Carries' /\ Brings' /\ SignedIn'
  <2>1. calm /\ OneAtATime /\ Undisturbed /\ Brings /\ SignedIn
    BY <1>4, <1>9 DEF BInv, CalmOK
  <2>2. \A c \in Tabs : tab'[c].pc = "idle" /\ (c # b => tab[c].pc = "idle")
    BY <1>1, <2>1 DEF OneAtATime, Answered
  <2>3. OneAtATime' /\ Undisturbed' /\ Carries' /\ Brings'
    BY <1>1, <2>1, <2>2 DEF OneAtATime, Carries, Brings, Undisturbed, account
  <2>4. ASSUME signedIn' PROVE jar' \in live[User]
    <3>1. CASE tab[b].kind = "login" /\ tab[b].pc = "granted"
      <4>1. tab[b].set \in live[User] /\ live[User] \subseteq Tokens
        BY <2>1, <3>1 DEF Brings, BInv, TableOK
      <4> QED
        BY <1>1, <4>1, BrowserAssumption
    <3>2. CASE signedIn /\ ~(tab[b].kind = "login" /\ tab[b].pc = "granted")
      <4>1. tab[b].kind \in {"login", "refresh"}
        BY <1>1, <2>1, <3>2 DEF SignedIn, Answered
      <4>2. CASE tab[b].kind = "login"
        <5>1. tab[b].set = Keep
          BY <1>1, <2>1, <3>2, <4>2 DEF Brings, Answered
        <5>2. jar \in live[User]
          <6>1. \A c \in Tabs : ~(tab[c].kind = "refresh" /\ tab[c].pc \in {"rotated"} \cup Answered)
            BY <2>1, <2>2, <4>2 DEF OneAtATime, Answered
          <6> QED
            BY <2>1, <3>2, <6>1 DEF SignedIn
        <5> QED
          BY <1>1, <5>1, <5>2
      <4>3. CASE tab[b].kind = "refresh"
        <5>1. tab[b].set \in live[User] /\ live[User] \subseteq Tokens
          BY <1>1, <2>1, <3>2, <4>3 DEF SignedIn, BInv, TableOK
        <5> QED
          BY <1>1, <5>1, BrowserAssumption
      <4> QED
        BY <4>1, <4>2, <4>3
    <3> QED
      BY <1>4, <2>4, <3>1, <3>2
  <2>5. SignedIn'
    BY <1>3, <2>2, <2>4 DEF SignedIn, Answered
  <2> QED
    BY <2>3, <2>5
<1>10. CalmOK'
  BY <1>9 DEF CalmOK
<1> QED
  BY <1>3, <1>5, <1>6, <1>7, <1>8, <1>10 DEF BInv

LEMMA ElsewhereStep ==
  ASSUME BInv, Elsewhere
  PROVE  BInv'
<1>1. /\ MoveVersion \/ RevokeSome \/ UNCHANGED table
      /\ jar' = jar /\ tab' = tab /\ late' = late
      /\ parted' = parted /\ out' = out
  BY DEF Elsewhere, SessionsEndElsewhere, RevokedElsewhere, StatusElsewhere, FromElsewhere
<1>2. calm' = FALSE
  BY DEF Elsewhere, SessionsEndElsewhere, RevokedElsewhere, StatusElsewhere, FromElsewhere
<1>3. TableOK' /\ Handed' = Handed /\ dead \subseteq dead'
  BY <1>1, MoveVersionTable, RevokeSomeTable, ServerStays DEF BInv
<1>4. TabsOK' /\ LateOK' /\ StickOK'
  BY <1>1 DEF BInv, TabsOK, LateOK, StickOK, Parted, LoggedOut
<1>5. IssuedOK'
  BY <1>1, <1>3 DEF BInv, IssuedOK
<1> QED
  BY <1>2, <1>3, <1>4, <1>5 DEF BInv, CalmOK

-----------------------------------------------------------------------------
(* Theorems *)

\* A browser that has just been opened.
LEMMA InitBInv == Init => BInv
<1> SUFFICES ASSUME Init PROVE BInv
  OBVIOUS
<1>1. /\ live = [u \in {User} |-> {}] /\ dead = {} /\ pending = [r \in Tabs |-> None]
      /\ jar = None /\ tab = [b \in Tabs |-> Idle] /\ late = {} /\ parted = {}
      /\ out = "in" /\ signedIn = FALSE /\ active = TRUE /\ overtaken = {}
  BY DEF Init, Server!Init
<1>2. Idle \in TabType
  BY DEF Idle, TabType, Stages, Kinds, Cookies
<1>3. \A b \in Tabs : /\ tab[b].pc = "idle" /\ tab[b].cookie = None /\ tab[b].new = None
                      /\ tab[b].set = Keep
  BY <1>1 DEF Idle
<1>4. TabsOK
  BY <1>1, <1>2, <1>3 DEF TabsOK, LoggedOut
<1>5. TableOK
  BY <1>1 DEF TableOK
<1>6. IssuedOK /\ LateOK /\ StickOK
  BY <1>1, <1>3 DEF IssuedOK, LateOK, StickOK, Parted
<1>7. CalmOK
  BY <1>1, <1>3 DEF CalmOK, OneAtATime, Undisturbed, Carries, Brings, SignedIn
<1> QED
  BY <1>4, <1>5, <1>6, <1>7 DEF BInv

LEMMA NextBInv ==
  ASSUME BInv, [Next]_vars
  PROVE  BInv'
<1>1. CASE UNCHANGED vars
  BY <1>1 DEF vars, server, table, account, BInv, TabsOK, TableOK, Handed, IssuedOK, LateOK,
     StickOK, Parted, CalmOK, OneAtATime, Undisturbed, Carries, Brings, SignedIn, LoggedOut
<1>2. CASE Next
  <2>1. ASSUME NEW b \in Tabs, Deliver(b) \/ Lose(b) \/ Serve(b) \/ \E kind \in Kinds : Send(b, kind)
        PROVE  BInv'
    BY <2>1, DeliverStep, LoseStep, ServePreserves, SendStep
  <2> QED
    BY <1>2, <2>1, ElsewhereStep DEF Next
<1> QED
  BY <1>1, <1>2

\* The inductive invariant holds with any number of tabs and tokens.
THEOREM BrowserInvariance == Spec => []BInv
  BY InitBInv, NextBInv, PTL DEF Spec

\* After a logout was answered, only the answer to a request that was under way then, or a new
\* login, puts a cookie into the jar.
THEOREM LogoutSticksAlways == Spec => []LogoutSticks
<1>1. BInv => LogoutSticks
  BY DEF BInv, StickOK, LogoutSticks
<1> QED
  BY <1>1, BrowserInvariance, PTL

\* A token presented to a logout that succeeded is never live again.
THEOREM LoggedOutTokensDieAlways == Spec => []LoggedOutTokensDie
<1>1. BInv => LoggedOutTokensDie
  BY DEF BInv, TableOK, IssuedOK, LoggedOutTokensDie, Live
<1> QED
  BY <1>1, BrowserInvariance, PTL

\* A browser whose requests come one at a time keeps its session until it asks to leave, as long
\* as no refresh fails or loses its answer, and nobody intervenes.
THEOREM SessionSurvivesAlways == Spec => []SessionSurvives
<1>1. BInv => SessionSurvives
  <2> SUFFICES ASSUME BInv, calm, signedIn, InProgress = {} PROVE jar \in live[User]
    BY DEF SessionSurvives, Live
  <2>1. \A b \in Tabs : tab[b].pc = "idle"
    BY DEF InProgress
  <2> QED
    BY <2>1 DEF BInv, CalmOK, SignedIn, Answered
<1> QED
  BY <1>1, BrowserInvariance, PTL
=============================================================================
