------------------------------ MODULE Session -------------------------------
(***************************************************************************)
(* The browser's side of signing in: AuthContext keeps the token and the   *)
(* user twice, in the state of each tab and in the localStorage that all   *)
(* tabs share; the axios interceptors attach the stored token to every     *)
(* request and throw the session away on a 401.  Answers come late, in any *)
(* order, or not at all; the tab may have moved on when they do.           *)
(*                                                                         *)
(* A stored user is cut down to `id` (whose account it is) and `face` (the *)
(* account whose username and role it shows): login writes both from one   *)
(* account, /auth/me overwrites the face only.                             *)
(***************************************************************************)
EXTENDS Naturals

CONSTANTS Tabs, Accounts, Tokens, Calls, Routes, Role, Seeded, None

AppRoutes == {"login", "register", "home", "projects", "project", "profile",
              "ranking", "create-project", "create-update", "admin"}

ASSUME RoutesAssumption == {"home", "login"} \subseteq Routes /\ Routes \subseteq AppRoutes
ASSUME AccountsAssumption ==
  /\ Role \in [Accounts -> {"user", "org", "admin"}]
  /\ Seeded \subseteq Accounts
  /\ None \notin Accounts \cup Tokens \cup Routes

VARIABLES
  storedToken, storedUser, \* localStorage, one for all tabs
  at,                      \* at[t]: the route tab t shows, None while it is closed
  token, user,             \* React state of AuthProvider in each tab
  submitting,              \* `loading` of the login or register form of the tab
  calls,                   \* requests on their way or being answered
  issued,                  \* server: the account a token was issued to, or None
  expired, known,          \* server: tokens past their time, accounts that exist
  drifted,                 \* history: tabs whose storage another tab has changed since
  blended                  \* history: a late /auth/me met another session than its own

storage == <<storedToken, storedUser>>
server == <<issued, expired, known>>
vars == <<storage, at, token, user, submitting, calls, server, drifted, blended>>

Profile == [id : Accounts, face : Accounts]
FormKinds == {"login", "register"}
Call == [tab : Tabs, kind : FormKinds \cup {"me", "data"}, token : Tokens \cup {None},
         account : Accounts \cup {None}, grant : Tokens \cup {None}, live : BOOLEAN]

ASSUME NoneAssumption == None \notin AppRoutes \cup Profile \cup Call

Opened(t) == at[t] # None
InFlight(c) == calls[c] # None
Own(a) == [id |-> a, face |-> a]
HasRole(who, role) == who # None /\ Role[who.face] = role

(*** Routes and what the pages do with a visitor they are not for **********)

(* Mutant: a visitor is sent to a route the application does not have.     *)
Landing_Unrouted(route, who) ==
  CASE route \in {"profile", "admin"} /\ who = None -> "dashboard"
    [] OTHER -> route

Landing(route, who) ==
  CASE route = "profile" /\ who = None -> "login"
    [] route = "admin" /\ ~ HasRole(who, "admin") -> "home"
    [] route \in {"create-project", "create-update"} /\ ~ HasRole(who, "org") -> "home"
    [] OTHER -> route

(* The links of the frame around a page, and those of the two forms, which *)
(* have no frame.                                                          *)
Links(t) ==
  CASE at[t] = "login" -> {"register"}
    [] at[t] = "register" -> {"login"}
    [] OTHER -> {"home", "projects", "ranking"}
         \cup (IF user[t] = None THEN {"login", "register"} ELSE {"profile"})
         \cup (IF HasRole(user[t], "org") THEN {"create-project", "create-update"} ELSE {})
         \cup (IF HasRole(user[t], "admin") THEN {"admin"} ELSE {})

(* The browser's own back button leads to these, whoever is signed in.     *)
History == {"home", "login", "register"}

(*** Requests **************************************************************)

(* The request interceptor reads the token when the request is sent; login *)
(* and registration do not look at it.                                     *)
Send(kept, c, t, kind, account) ==
  [kept EXCEPT ![c] = [tab |-> t, kind |-> kind, account |-> account,
                       token |-> IF kind \in FormKinds THEN None ELSE storedToken,
                       grant |-> None, live |-> TRUE]]

Freed(c) == [calls EXCEPT ![c] = None]

(* Leaving a form leaves its request on its way: the promise stays pending *)
(* and its continuation will run.                                          *)
Orphaned(t, kept) ==
  [c \in Calls |-> IF kept[c] # None /\ kept[c].tab = t /\ kept[c].kind \in FormKinds
                   THEN [kept[c] EXCEPT !.live = FALSE] ELSE kept[c]]

(* Loading the document anew ends every script of the tab.                 *)
Dropped(t, kept) ==
  [c \in Calls |-> IF kept[c] # None /\ kept[c].tab = t THEN None ELSE kept[c]]

Go(t, route, kept) ==
  /\ at' = [at EXCEPT ![t] = route]
  /\ submitting' = [submitting EXCEPT ![t] = @ /\ route = at[t]]
  /\ calls' = IF route = at[t] THEN kept ELSE Orphaned(t, kept)

(* The document is loaded: AuthProvider takes over a stored session and    *)
(* asks the server about it.  Nothing else is asked when one half of it is *)
(* missing.                                                                *)
LoadWith(t, route, tok, who) ==
  LET found == tok # None /\ who # None
      me == IF found THEN who ELSE None
  IN  /\ token' = [token EXCEPT ![t] = IF found THEN tok ELSE None]
      /\ user' = [user EXCEPT ![t] = me]
      /\ at' = [at EXCEPT ![t] = Landing(route, me)]
      /\ submitting' = [submitting EXCEPT ![t] = FALSE]
      /\ IF found
         THEN \E c \in Calls : /\ Dropped(t, calls)[c] = None
                               /\ calls' = Send(Dropped(t, calls), c, t, "me", None)
         ELSE calls' = Dropped(t, calls)

(* Storage written by tab t is news to the others.                         *)
Store(t, tok, who) ==
  /\ storedToken' = tok
  /\ storedUser' = who
  /\ drifted' = (drifted \cup (IF <<tok, who>> = storage THEN {} ELSE Tabs)) \ {t}

(*** AuthProvider's operations *********************************************)

(* Mutant: a user who is already there is kept.                            *)
login_KeepsUser(t, tok, a) ==
  LET who == IF user[t] = None THEN Own(a) ELSE user[t] IN
  /\ token' = [token EXCEPT ![t] = tok]
  /\ user' = [user EXCEPT ![t] = who]
  /\ Store(t, tok, who)

login(t, tok, a) ==
  /\ token' = [token EXCEPT ![t] = tok]
  /\ user' = [user EXCEPT ![t] = Own(a)]
  /\ Store(t, tok, Own(a))

logout(t) ==
  /\ token' = [token EXCEPT ![t] = None]
  /\ user' = [user EXCEPT ![t] = None]
  /\ Store(t, None, None)

(*** What a visitor does ***************************************************)

(* Opening the site, following a link from outside, reloading.             *)
Load(t, route) ==
  /\ LoadWith(t, route, storedToken, storedUser)
  /\ drifted' = drifted \ {t}
  /\ UNCHANGED <<storage, server, blended>>

Visit(t, route) ==
  /\ Opened(t)
  /\ route \in (Links(t) \cup History) \cap Routes
  /\ Go(t, Landing(route, user[t]), calls)
  /\ UNCHANGED <<storage, token, user, server, drifted, blended>>

(* The buttons of the frame and of the profile page: both end on /login.   *)
Leave(t) ==
  /\ Opened(t)
  /\ at[t] \notin FormKinds
  /\ user[t] # None
  /\ logout(t)
  /\ Go(t, "login", calls)
  /\ UNCHANGED <<server, blended>>

(* Mutant: the button stays enabled while a request is on its way.         *)
Submit_Enabled(t, kind, a, c) ==
  /\ at[t] = kind
  /\ ~ InFlight(c)
  /\ submitting' = [submitting EXCEPT ![t] = TRUE]
  /\ calls' = Send(calls, c, t, kind, a)
  /\ UNCHANGED <<storage, at, token, user, server, drifted, blended>>

(* The form of a page is sent; its button is disabled until the answer.    *)
Submit(t, kind, a, c) ==
  /\ at[t] = kind
  /\ ~ submitting[t]
  /\ ~ InFlight(c)
  /\ submitting' = [submitting EXCEPT ![t] = TRUE]
  /\ calls' = Send(calls, c, t, kind, a)
  /\ UNCHANGED <<storage, at, token, user, server, drifted, blended>>

SignIn(t, a, c) == Submit(t, "login", a, c)

(* The form is filled in for an account, taken or new, and its two         *)
(* passwords agree; with others nothing happens but an alert.              *)
SignUp(t, a, c) == Submit(t, "register", a, c)

(* A page that needs an account asks for or sends data.                    *)
Ask(t, c) ==
  /\ at[t] \in {"project", "profile", "create-project", "create-update", "admin"}
  /\ user[t] # None
  /\ ~ InFlight(c)
  /\ calls' = Send(calls, c, t, "data", None)
  /\ UNCHANGED <<storage, at, token, user, submitting, server, drifted, blended>>

(*** What the server does **************************************************)

Accepts(tok) == tok # None /\ tok \notin expired

(* Login of a known account, or registration of a new one.                 *)
Grant(c, tok) ==
  /\ InFlight(c)
  /\ calls[c].grant = None
  /\ issued[tok] = None
  /\ \/ calls[c].kind = "login" /\ calls[c].account \in known
     \/ calls[c].kind = "register" /\ calls[c].account \notin known
  /\ known' = known \cup {calls[c].account}
  /\ issued' = [issued EXCEPT ![tok] = calls[c].account]
  /\ calls' = [calls EXCEPT ![c].grant = tok]
  /\ UNCHANGED <<storage, at, token, user, submitting, expired, drifted, blended>>

Expire(tok) ==
  /\ issued[tok] # None
  /\ expired' = expired \cup {tok}
  /\ UNCHANGED <<storage, at, token, user, submitting, calls, issued, known, drifted, blended>>

(*** How requests end ******************************************************)

(* login() and navigate('/') run also when the form is long gone.          *)
SignedIn(c) ==
  LET t == calls[c].tab IN
  /\ InFlight(c)
  /\ calls[c].grant # None
  /\ login(t, calls[c].grant, calls[c].account)
  /\ Go(t, "home", Freed(c))
  /\ UNCHANGED <<server, blended>>

Refreshed(who, a) == [who EXCEPT !.face = a]

(* /auth/me answers for the token it was sent with; whoever is signed in   *)
(* now gets that name and role.                                            *)
Confirmed(c) ==
  LET t == calls[c].tab
      who == Refreshed(user[t], issued[calls[c].token])
  IN
  /\ InFlight(c)
  /\ calls[c].kind = "me"
  /\ Accepts(calls[c].token)
  /\ calls' = Freed(c)
  /\ IF user[t] = None
     THEN UNCHANGED <<storage, at, user, submitting, drifted, blended>>
     ELSE /\ user' = [user EXCEPT ![t] = who]
          /\ storedUser' = who
          /\ at' = [at EXCEPT ![t] = Landing(@, who)]
          /\ blended' = (blended \/ calls[c].token # token[t] \/ calls[c].token # storedToken)
          /\ drifted' = IF who = storedUser THEN drifted ELSE drifted \cup (Tabs \ {t})
          /\ UNCHANGED <<storedToken, submitting>>
  /\ UNCHANGED <<token, server>>

Served(c) ==
  /\ InFlight(c)
  /\ calls[c].kind = "data"
  /\ Accepts(calls[c].token)
  /\ calls' = Freed(c)
  /\ UNCHANGED <<storage, at, token, user, submitting, server, drifted, blended>>

(* The ten seconds are over, the connection is lost, or the answer is an   *)
(* error other than 401.                                                   *)
Failed(c) ==
  LET t == calls[c].tab IN
  /\ InFlight(c)
  /\ IF calls[c].kind = "me"
     THEN logout(t) /\ Go(t, Landing(at[t], None), Freed(c))
     ELSE /\ submitting' = [submitting EXCEPT ![t] =
               @ /\ ~ (calls[c].kind \in FormKinds /\ calls[c].live)]
          /\ calls' = Freed(c)
          /\ UNCHANGED <<storage, at, token, user, drifted>>
  /\ UNCHANGED <<server, blended>>

(* Mutant: the interceptor forgets that the page must be loaded anew.      *)
Rejected_NoReload(c) ==
  /\ InFlight(c)
  /\ IF calls[c].kind \in {"me", "data"} THEN ~ Accepts(calls[c].token)
     ELSE calls[c].kind = "login" /\ calls[c].grant = None
  /\ Store(calls[c].tab, None, None)
  /\ calls' = Freed(c)
  /\ UNCHANGED <<at, token, user, submitting, server, blended>>

(* A 401: a token that is missing, old or of another server, or the wrong  *)
(* password.  The session in store goes, whichever token was refused.      *)
Rejected(c) ==
  LET t == calls[c].tab IN
  /\ InFlight(c)
  /\ IF calls[c].kind \in {"me", "data"} THEN ~ Accepts(calls[c].token)
     ELSE calls[c].kind = "login" /\ calls[c].grant = None
  /\ Store(t, None, None)
  /\ LoadWith(t, "login", None, None)
  /\ UNCHANGED <<server, blended>>

Answered(c) == SignedIn(c) \/ Confirmed(c) \/ Served(c) \/ Failed(c) \/ Rejected(c)

(***************************************************************************)

Init ==
  /\ storedToken = None /\ storedUser = None
  /\ at = [t \in Tabs |-> None]
  /\ token = [t \in Tabs |-> None]
  /\ user = [t \in Tabs |-> None]
  /\ submitting = [t \in Tabs |-> FALSE]
  /\ calls = [c \in Calls |-> None]
  /\ issued = [k \in Tokens |-> None]
  /\ expired = {}
  /\ known = Seeded
  /\ drifted = {}
  /\ blended = FALSE

Visitor ==
  \E t \in Tabs :
     \/ \E route \in Routes : Load(t, route) \/ Visit(t, route)
     \/ Leave(t)
     \/ \E c \in Calls : Ask(t, c) \/ \E a \in Accounts : SignIn(t, a, c) \/ SignUp(t, a, c)

Server == \E tok \in Tokens : Expire(tok) \/ \E c \in Calls : Grant(c, tok)

Next == Visitor \/ Server \/ \E c \in Calls : Answered(c)

Spec == Init /\ [][Next]_vars

(*** Properties ************************************************************)

TypeOK ==
  /\ storedToken \in Tokens \cup {None} /\ storedUser \in Profile \cup {None}
  /\ at \in [Tabs -> Routes \cup {None}]
  /\ token \in [Tabs -> Tokens \cup {None}]
  /\ user \in [Tabs -> Profile \cup {None}]
  /\ submitting \in [Tabs -> BOOLEAN]
  /\ calls \in [Calls -> Call \cup {None}]
  /\ issued \in [Tokens -> Accounts \cup {None}]
  /\ expired \subseteq Tokens /\ known \subseteq Accounts
  /\ drifted \subseteq Tabs /\ blended \in BOOLEAN

(* The session a tab shows is the session in store, through late answers,  *)
(* logins that end after their form was left and sessions thrown away by a *)
(* 401, unless another tab has written the store since (AuthContext and    *)
(* the interceptors keep the two copies by hand).                          *)
TabInStep ==
  \A t \in Tabs : Opened(t) /\ t \notin drifted =>
     /\ token[t] = storedToken
     /\ token[t] # None => user[t] = storedUser

(* The account whose name and role a tab shows is the account its next     *)
(* request acts for: the one the stored token was issued to.  It fails     *)
(* only after another tab wrote the store, or after an answer of /auth/me  *)
(* arrived in a session later than the one it was asked in.                *)
ActsAsShown ==
  ~ blended =>
    \A t \in Tabs : Opened(t) /\ t \notin drifted /\ user[t] # None =>
       storedToken # None /\ user[t] = Own(issued[storedToken])

(* A form whose button is disabled waits for one request of its own, and a *)
(* form whose button is enabled for none: the button neither stays dead    *)
(* nor sends a second request before the first has ended.                  *)
Waited(t) == {c \in Calls : InFlight(c) /\ calls[c].tab = t
                            /\ calls[c].kind \in FormKinds /\ calls[c].live}
ButtonWaits ==
  \A t \in Tabs :
     /\ submitting[t] <=> Waited(t) # {}
     /\ \A c, d \in Waited(t) : c = d
=============================================================================
