--------------------------- MODULE SessionProofs ----------------------------
(***************************************************************************)
(* Proofs about Session for every set of tabs, accounts, tokens, requests  *)
(* and routes.                                                             *)
(***************************************************************************)
EXTENDS Session, TLAPS

(* What a request carries: a form names an account, /auth/me has a token,  *)
(* tokens that travel were issued, and a grant belongs to who asked for it. *)
CallOK(k) ==
  /\ k.kind \in FormKinds => k.account # None
  /\ k.kind = "me" => k.token # None
  /\ k.token # None => issued[k.token] # None
  /\ k.grant # None => k.account # None /\ issued[k.grant] = k.account

(* Both copies of the session have a user with every token, and only       *)
(* tokens the server has issued.                                           *)
Backed ==
  /\ storedToken # None => storedUser # None /\ issued[storedToken] # None
  /\ \A t \in Tabs : /\ token[t] # None <=> user[t] # None
                     /\ token[t] # None => issued[token[t]] # None
  /\ \A c \in Calls : InFlight(c) => CallOK(calls[c])

(* Unless sessions were blended both copies show the token's own account.  *)
Genuine ==
  ~ blended =>
    /\ storedToken # None => storedUser = Own(issued[storedToken])
    /\ \A t \in Tabs : token[t] # None => user[t] = Own(issued[token[t]])

(* Only the page of a form can be submitting.                              *)
Placed == \A t \in Tabs : submitting[t] => at[t] \in FormKinds

-----------------------------------------------------------------------------
(* Helpers *)

LEMMA LandingTyping ==
  ASSUME NEW route, NEW who
  PROVE  /\ Landing(route, who) \in {"home", "login", route}
         /\ route \in Routes => Landing(route, who) \in Routes
         /\ route \in FormKinds \cup {"home"} => Landing(route, who) = route
         /\ Landing(route, who) # route => route \notin FormKinds
         /\ Landing(None, who) = None
  <1>1. /\ Landing(route, who) \in {"home", "login", route}
        /\ route \in FormKinds \cup {"home"} => Landing(route, who) = route
    BY DEF Landing, FormKinds
  <1>2. Landing(None, who) = None
    BY NoneAssumption DEF Landing, AppRoutes
  <1> QED
    BY <1>1, <1>2, RoutesAssumption

LEMMA ProfileTyping ==
  ASSUME NEW a \in Accounts
  PROVE  /\ Own(a) \in Profile /\ Own(a) # None
         /\ \A who \in Profile : /\ Refreshed(who, a) \in Profile /\ Refreshed(who, a) # None
                                 /\ who = Own(a) => Refreshed(who, a) = Own(a)
  <1>1. Own(a) \in Profile
    BY DEF Own, Profile
  <1>2. ASSUME NEW who \in Profile
        PROVE  Refreshed(who, a) \in Profile /\ (who = Own(a) => Refreshed(who, a) = Own(a))
    BY DEF Refreshed, Profile, Own
  <1> QED
    BY <1>1, <1>2, NoneAssumption

NewCall(t, kind, account) ==
  [tab |-> t, kind |-> kind, account |-> account,
   token |-> IF kind \in FormKinds THEN None ELSE storedToken, grant |-> None, live |-> TRUE]

LEMMA SendTyping ==
  ASSUME TypeOK, NEW t \in Tabs, NEW kind \in FormKinds \cup {"me", "data"},
         NEW account \in Accounts \cup {None}, NEW c \in Calls,
         NEW kept \in [Calls -> Call \cup {None}]
  PROVE  /\ NewCall(t, kind, account) \in Call /\ NewCall(t, kind, account) # None
         /\ Send(kept, c, t, kind, account) = [kept EXCEPT ![c] = NewCall(t, kind, account)]
         /\ Send(kept, c, t, kind, account) \in [Calls -> Call \cup {None}]
  <1>1. NewCall(t, kind, account) \in Call
    BY DEF NewCall, Call, TypeOK
  <1>2. Send(kept, c, t, kind, account) = [kept EXCEPT ![c] = NewCall(t, kind, account)]
    BY DEF Send, NewCall
  <1> QED
    BY <1>1, <1>2, NoneAssumption

LEMMA FreedTyping ==
  ASSUME TypeOK, NEW c \in Calls
  PROVE  /\ Freed(c) \in [Calls -> Call \cup {None}]
         /\ Freed(c)[c] = None
         /\ \A d \in Calls : d # c => Freed(c)[d] = calls[d]
  BY DEF TypeOK, Freed

(* What is left of a request when its tab leaves the form.                 *)
SameCall(new, old) ==
  /\ new # None /\ old # None
  /\ new.tab = old.tab /\ new.kind = old.kind /\ new.token = old.token
  /\ new.account = old.account /\ new.grant = old.grant

LEMMA OrphanedTyping ==
  ASSUME NEW t \in Tabs, NEW kept \in [Calls -> Call \cup {None}]
  PROVE  /\ Orphaned(t, kept) \in [Calls -> Call \cup {None}]
         /\ \A c \in Calls :
              /\ Orphaned(t, kept)[c] # None => SameCall(Orphaned(t, kept)[c], kept[c])
              /\ kept[c] # None /\ kept[c].tab # t => Orphaned(t, kept)[c] = kept[c]
              /\ kept[c] = None => Orphaned(t, kept)[c] = None
              /\ kept[c] # None /\ kept[c].tab = t /\ kept[c].kind \in FormKinds
                   => ~ Orphaned(t, kept)[c].live
  <1>1. ASSUME NEW c \in Calls, kept[c] # None, kept[c].tab = t, kept[c].kind \in FormKinds
        PROVE  /\ Orphaned(t, kept)[c] \in Call
               /\ ~ Orphaned(t, kept)[c].live
               /\ SameCall(Orphaned(t, kept)[c], kept[c])
    <2>1. kept[c] \in Call /\ Orphaned(t, kept)[c] = [kept[c] EXCEPT !.live = FALSE]
      BY <1>1 DEF Orphaned
    <2>2. [kept[c] EXCEPT !.live = FALSE] \in Call
      BY <2>1 DEF Call
    <2>3. /\ [kept[c] EXCEPT !.live = FALSE].tab = kept[c].tab
          /\ [kept[c] EXCEPT !.live = FALSE].kind = kept[c].kind
          /\ [kept[c] EXCEPT !.live = FALSE].token = kept[c].token
          /\ [kept[c] EXCEPT !.live = FALSE].account = kept[c].account
          /\ [kept[c] EXCEPT !.live = FALSE].grant = kept[c].grant
          /\ [kept[c] EXCEPT !.live = FALSE].live = FALSE
      BY <2>1 DEF Call
    <2> QED
      BY <1>1, <2>1, <2>2, <2>3, NoneAssumption DEF SameCall
  <1>2. ASSUME NEW c \in Calls,
               ~ (kept[c] # None /\ kept[c].tab = t /\ kept[c].kind \in FormKinds)
        PROVE  Orphaned(t, kept)[c] = kept[c]
    BY <1>2 DEF Orphaned
  <1>3. Orphaned(t, kept) = [c \in Calls |-> Orphaned(t, kept)[c]]
    BY DEF Orphaned
  <1>4. \A c \in Calls : Orphaned(t, kept)[c] \in Call \cup {None}
    BY <1>1, <1>2
  <1> QED
    BY <1>1, <1>2, <1>3, <1>4 DEF SameCall

LEMMA GoTyping ==
  ASSUME TypeOK, NEW t \in Tabs, NEW route \in Routes \cup {None},
         NEW kept \in [Calls -> Call \cup {None}], Go(t, route, kept)
  PROVE  /\ at' \in [Tabs -> Routes \cup {None}] /\ submitting' \in [Tabs -> BOOLEAN]
         /\ calls' \in [Calls -> Call \cup {None}]
         /\ \A c \in Calls : calls'[c] # None => SameCall(calls'[c], kept[c])
         /\ at'[t] = route /\ \A u \in Tabs : u # t => at'[u] = at[u]
  <1>1. /\ calls' \in [Calls -> Call \cup {None}]
        /\ \A c \in Calls : calls'[c] # None => SameCall(calls'[c], kept[c])
    BY OrphanedTyping DEF Go, SameCall
  <1>2. submitting' \in [Tabs -> BOOLEAN]
    BY DEF Go, TypeOK
  <1> QED
    BY <1>1, <1>2 DEF Go, TypeOK

LEMMA DroppedTyping ==
  ASSUME TypeOK, NEW t \in Tabs
  PROVE  /\ Dropped(t, calls) \in [Calls -> Call \cup {None}]
         /\ \A c \in Calls :
              /\ Dropped(t, calls)[c] # None
                   => Dropped(t, calls)[c] = calls[c] /\ calls[c].tab # t
              /\ calls[c] # None /\ calls[c].tab # t => Dropped(t, calls)[c] = calls[c]
  BY DEF TypeOK, Dropped

LEMMA LoadTyping ==
  ASSUME TypeOK, NEW t \in Tabs, NEW route \in Routes, NEW tok \in Tokens \cup {None},
         NEW who \in Profile \cup {None}, LoadWith(t, route, tok, who)
  PROVE  /\ token' \in [Tabs -> Tokens \cup {None}] /\ user' \in [Tabs -> Profile \cup {None}]
         /\ at' \in [Tabs -> Routes \cup {None}] /\ submitting' \in [Tabs -> BOOLEAN]
         /\ calls' \in [Calls -> Call \cup {None}]
         /\ IF tok # None /\ who # None
            THEN token'[t] = tok /\ user'[t] = who
            ELSE token'[t] = None /\ user'[t] = None
         /\ \A u \in Tabs : u # t => /\ token'[u] = token[u] /\ user'[u] = user[u]
                                     /\ at'[u] = at[u] /\ submitting'[u] = submitting[u]
         /\ ~ submitting'[t]
         /\ \A c \in Calls :
              /\ calls'[c] # None => \/ calls'[c] = calls[c] /\ calls[c].tab # t
                                     \/ /\ calls'[c] = NewCall(t, "me", None)
                                        /\ tok # None /\ who # None
              /\ calls[c] # None /\ calls[c].tab # t => calls'[c] = calls[c]
  <1>1. /\ token' \in [Tabs -> Tokens \cup {None}] /\ user' \in [Tabs -> Profile \cup {None}]
        /\ IF tok # None /\ who # None
           THEN token'[t] = tok /\ user'[t] = who
           ELSE token'[t] = None /\ user'[t] = None
        /\ \A u \in Tabs : u # t => token'[u] = token[u] /\ user'[u] = user[u]
    BY DEF TypeOK, LoadWith
  <1>2. /\ at' \in [Tabs -> Routes \cup {None}]
        /\ \A u \in Tabs : u # t => at'[u] = at[u]
    BY LandingTyping DEF TypeOK, LoadWith
  <1>3. /\ submitting' \in [Tabs -> BOOLEAN] /\ ~ submitting'[t]
        /\ \A u \in Tabs : u # t => submitting'[u] = submitting[u]
    BY DEF TypeOK, LoadWith
  <1>4. CASE tok # None /\ who # None
    <2>1. PICK c \in Calls : /\ Dropped(t, calls)[c] = None
                             /\ calls' = Send(Dropped(t, calls), c, t, "me", None)
      BY <1>4 DEF LoadWith
    <2>2. /\ calls' = [Dropped(t, calls) EXCEPT ![c] = NewCall(t, "me", None)]
          /\ calls' \in [Calls -> Call \cup {None}]
      BY <2>1, SendTyping, DroppedTyping
    <2>3. calls'[c] = NewCall(t, "me", None)
          /\ \A d \in Calls : d # c => calls'[d] = Dropped(t, calls)[d]
      BY <2>2, DroppedTyping
    <2> QED
      BY <1>1, <1>2, <1>3, <1>4, <2>1, <2>2, <2>3, DroppedTyping
  <1>5. CASE ~ (tok # None /\ who # None)
    <2>1. calls' = Dropped(t, calls)
      BY <1>5 DEF LoadWith
    <2> QED
      BY <1>1, <1>2, <1>3, <1>5, <2>1, DroppedTyping
  <1> QED
    BY <1>4, <1>5

LEMMA StoreTyping ==
  ASSUME TypeOK, NEW t \in Tabs, NEW tok, NEW who, Store(t, tok, who)
  PROVE  /\ storedToken' = tok /\ storedUser' = who
         /\ drifted' \subseteq Tabs /\ t \notin drifted'
         /\ \A u \in Tabs : u # t /\ u \notin drifted'
              => u \notin drifted /\ tok = storedToken /\ who = storedUser
  BY DEF TypeOK, Store, storage

LEMMA LoginTyping ==
  ASSUME TypeOK, NEW t \in Tabs, NEW tok \in Tokens, NEW a \in Accounts, login(t, tok, a)
  PROVE  /\ token' \in [Tabs -> Tokens \cup {None}] /\ user' \in [Tabs -> Profile \cup {None}]
         /\ storedToken' = tok /\ storedUser' = Own(a) /\ drifted' \subseteq Tabs
         /\ token'[t] = tok /\ user'[t] = Own(a)
         /\ \A u \in Tabs : u # t => token'[u] = token[u] /\ user'[u] = user[u]
  BY ProfileTyping, StoreTyping DEF TypeOK, login

LEMMA LogoutTyping ==
  ASSUME TypeOK, NEW t \in Tabs, logout(t)
  PROVE  /\ token' \in [Tabs -> Tokens \cup {None}] /\ user' \in [Tabs -> Profile \cup {None}]
         /\ storedToken' = None /\ storedUser' = None /\ drifted' \subseteq Tabs
         /\ token'[t] = None /\ user'[t] = None
         /\ \A u \in Tabs : u # t => token'[u] = token[u] /\ user'[u] = user[u]
  BY StoreTyping DEF TypeOK, logout

-----------------------------------------------------------------------------
(* Type correctness *)

LEMMA InitTyping == Init => TypeOK
  BY AccountsAssumption DEF Init, TypeOK

LEMMA CallsTyping ==
  ASSUME TypeOK, Backed, NEW c \in Calls, InFlight(c)
  PROVE  /\ calls[c] \in Call /\ calls[c] # None /\ CallOK(calls[c]) /\ calls[c].tab \in Tabs
         /\ calls[c].kind \in FormKinds => calls[c].account \in Accounts
         /\ calls[c].token # None
              => calls[c].token \in Tokens /\ issued[calls[c].token] \in Accounts
         /\ calls[c].grant # None
              => /\ calls[c].grant \in Tokens /\ calls[c].account \in Accounts
                 /\ issued[calls[c].grant] = calls[c].account
  <1>1. calls[c] \in Call /\ calls[c] # None /\ CallOK(calls[c])
    BY DEF TypeOK, InFlight, Backed
  <1> QED
    BY <1>1 DEF TypeOK, Call, CallOK

LEMMA HomeRoutes == {"home", "login"} \subseteq Routes
  BY RoutesAssumption

LEMMA StepTyping ==
  ASSUME TypeOK, Backed, [Next]_vars
  PROVE  TypeOK'
  <1>1. ASSUME NEW t \in Tabs, NEW route \in Routes, Load(t, route) PROVE TypeOK'
    <2>1. storedToken \in Tokens \cup {None} /\ storedUser \in Profile \cup {None}
      BY DEF TypeOK
    <2>2. /\ LoadWith(t, route, storedToken, storedUser) /\ drifted' = drifted \ {t}
          /\ UNCHANGED <<storedToken, storedUser, issued, expired, known, blended>>
      BY <1>1 DEF Load, storage, server
    <2>3. /\ token' \in [Tabs -> Tokens \cup {None}] /\ user' \in [Tabs -> Profile \cup {None}]
          /\ at' \in [Tabs -> Routes \cup {None}] /\ submitting' \in [Tabs -> BOOLEAN]
          /\ calls' \in [Calls -> Call \cup {None}]
      BY <2>1, <2>2, LoadTyping
    <2> QED
      BY <2>2, <2>3 DEF TypeOK
  <1>2. ASSUME NEW t \in Tabs, NEW route \in Routes, Visit(t, route) PROVE TypeOK'
    <2>1. Landing(route, user[t]) \in Routes \cup {None} /\ calls \in [Calls -> Call \cup {None}]
      BY LandingTyping DEF TypeOK
    <2>2. /\ Go(t, Landing(route, user[t]), calls)
          /\ UNCHANGED <<storedToken, storedUser, token, user, issued, expired, known,
                         drifted, blended>>
      BY <1>2 DEF Visit, storage, server
    <2>3. /\ at' \in [Tabs -> Routes \cup {None}] /\ submitting' \in [Tabs -> BOOLEAN]
          /\ calls' \in [Calls -> Call \cup {None}]
      BY <2>1, <2>2, GoTyping
    <2> QED
      BY <2>2, <2>3 DEF TypeOK
  <1>3. ASSUME NEW t \in Tabs, Leave(t) PROVE TypeOK'
    <2>1. /\ Go(t, "login", calls) /\ logout(t)
          /\ UNCHANGED <<issued, expired, known, blended>>
      BY <1>3 DEF Leave, server
    <2>2. /\ at' \in [Tabs -> Routes \cup {None}] /\ submitting' \in [Tabs -> BOOLEAN]
          /\ calls' \in [Calls -> Call \cup {None}]
      BY <2>1, GoTyping, HomeRoutes DEF TypeOK
    <2> QED
      BY <2>1, <2>2, LogoutTyping DEF TypeOK
  <1>4. ASSUME NEW t \in Tabs, NEW kind \in FormKinds, NEW a \in Accounts, NEW c \in Calls,
               Submit(t, kind, a, c)
        PROVE  TypeOK'
    <2>1. /\ calls' = Send(calls, c, t, kind, a) /\ submitting' \in [Tabs -> BOOLEAN]
          /\ UNCHANGED <<storedToken, storedUser, at, token, user, issued, expired, known,
                         drifted, blended>>
      BY <1>4 DEF TypeOK, Submit, storage, server
    <2>2. calls' \in [Calls -> Call \cup {None}]
      BY <2>1, SendTyping DEF TypeOK
    <2> QED
      BY <2>1, <2>2 DEF TypeOK
  <1>5. ASSUME NEW t \in Tabs, NEW c \in Calls, Ask(t, c) PROVE TypeOK'
    <2>1. /\ calls' = Send(calls, c, t, "data", None)
          /\ UNCHANGED <<storedToken, storedUser, at, token, user, submitting, issued, expired,
                         known, drifted, blended>>
      BY <1>5 DEF Ask, storage, server
    <2>2. calls' \in [Calls -> Call \cup {None}]
      BY <2>1, SendTyping DEF TypeOK
    <2> QED
      BY <2>1, <2>2 DEF TypeOK
  <1>6. ASSUME NEW tok \in Tokens, Expire(tok) PROVE TypeOK'
    BY <1>6 DEF Expire, TypeOK, storage
  <1>7. ASSUME NEW tok \in Tokens, NEW c \in Calls, Grant(c, tok) PROVE TypeOK'
    <2>1. calls[c] \in Call /\ calls[c].account \in Accounts
      BY <1>7, CallsTyping DEF Grant, FormKinds
    <2>2. [calls[c] EXCEPT !.grant = tok] \in Call
      BY <2>1 DEF Call
    <2>3. calls' \in [Calls -> Call \cup {None}]
      BY <1>7, <2>2 DEF Grant, TypeOK
    <2> QED
      BY <1>7, <2>1, <2>3 DEF Grant, TypeOK, storage
  <1>8. ASSUME NEW c \in Calls, SignedIn(c) PROVE TypeOK'
    <2> DEFINE t == calls[c].tab
    <2>1. /\ t \in Tabs /\ calls[c].grant \in Tokens /\ calls[c].account \in Accounts
          /\ login(t, calls[c].grant, calls[c].account) /\ Go(t, "home", Freed(c))
          /\ UNCHANGED <<issued, expired, known, blended>>
      BY <1>8, CallsTyping DEF SignedIn, server
    <2> HIDE DEF t
    <2>2. /\ at' \in [Tabs -> Routes \cup {None}] /\ submitting' \in [Tabs -> BOOLEAN]
          /\ calls' \in [Calls -> Call \cup {None}]
      BY <2>1, GoTyping, FreedTyping, HomeRoutes
    <2> QED
      BY <2>1, <2>2, LoginTyping, ProfileTyping DEF TypeOK
  <1>9. ASSUME NEW c \in Calls, Confirmed(c) PROVE TypeOK'
    <2> DEFINE t == calls[c].tab
               who == Refreshed(user[t], issued[calls[c].token])
    <2>1. t \in Tabs /\ issued[calls[c].token] \in Accounts
      BY <1>9, CallsTyping DEF Confirmed, CallOK
    <2>2. calls' \in [Calls -> Call \cup {None}]
          /\ UNCHANGED <<token, submitting, issued, expired, known>>
      BY <1>9, FreedTyping DEF Confirmed, server
    <2>3. CASE user[t] = None
      BY <1>9, <2>2, <2>3 DEF Confirmed, TypeOK, storage
    <2>4. CASE user[t] # None
      <3>1. /\ user' = [user EXCEPT ![t] = who] /\ storedUser' = who
            /\ at' = [at EXCEPT ![t] = Landing(at[t], who)]
            /\ storedToken' = storedToken
            /\ blended' \in BOOLEAN /\ drifted' \subseteq Tabs
        BY <1>9, <2>4 DEF Confirmed, TypeOK
      <3>2. who \in Profile
        BY <2>1, <2>4, ProfileTyping DEF TypeOK
      <3>3. at[t] \in Routes \cup {None} => Landing(at[t], who) \in Routes \cup {None}
        BY LandingTyping
      <3> HIDE DEF who, t
      <3> QED
        BY <2>1, <2>2, <3>1, <3>2, <3>3 DEF TypeOK
    <2> QED
      BY <2>3, <2>4
  <1>10. ASSUME NEW c \in Calls, Served(c) PROVE TypeOK'
    BY <1>10, FreedTyping DEF Served, TypeOK, storage, server
  <1>11. ASSUME NEW c \in Calls, Failed(c) PROVE TypeOK'
    <2> DEFINE t == calls[c].tab
    <2>1. t \in Tabs /\ UNCHANGED <<issued, expired, known, blended>>
      BY <1>11, CallsTyping DEF Failed, server
    <2>2. CASE calls[c].kind = "me"
      <3>1. logout(t) /\ Go(t, Landing(at[t], None), Freed(c))
        BY <1>11, <2>2 DEF Failed
      <3>2. Landing(at[t], None) \in Routes \cup {None}
        BY <2>1, LandingTyping DEF TypeOK
      <3> HIDE DEF t
      <3>3. /\ at' \in [Tabs -> Routes \cup {None}] /\ submitting' \in [Tabs -> BOOLEAN]
            /\ calls' \in [Calls -> Call \cup {None}]
        BY <2>1, <3>1, <3>2, GoTyping, FreedTyping
      <3> QED
        BY <2>1, <3>1, <3>3, LogoutTyping DEF TypeOK
    <2>3. CASE calls[c].kind # "me"
      <3>1. /\ submitting' \in [Tabs -> BOOLEAN] /\ calls' = Freed(c)
            /\ UNCHANGED <<storedToken, storedUser, at, token, user, drifted>>
        BY <1>11, <2>3 DEF Failed, TypeOK, storage
      <3> QED
        BY <2>1, <3>1, FreedTyping DEF TypeOK
    <2> QED
      BY <2>2, <2>3
  <1>12. ASSUME NEW c \in Calls, Rejected(c) PROVE TypeOK'
    <2> DEFINE t == calls[c].tab
    <2>1. /\ t \in Tabs /\ Store(t, None, None) /\ LoadWith(t, "login", None, None)
          /\ UNCHANGED <<issued, expired, known, blended>>
      BY <1>12, CallsTyping DEF Rejected, server
    <2> HIDE DEF t
    <2>2. /\ token' \in [Tabs -> Tokens \cup {None}] /\ user' \in [Tabs -> Profile \cup {None}]
          /\ at' \in [Tabs -> Routes \cup {None}] /\ submitting' \in [Tabs -> BOOLEAN]
          /\ calls' \in [Calls -> Call \cup {None}]
      BY <2>1, LoadTyping, HomeRoutes
    <2> QED
      BY <2>1, <2>2, StoreTyping DEF TypeOK
  <1>13. CASE UNCHANGED vars
    BY <1>13 DEF TypeOK, vars, storage, server
  <1> QED
    BY <1>1, <1>2, <1>3, <1>4, <1>5, <1>6, <1>7, <1>8, <1>9, <1>10, <1>11, <1>12, <1>13
    DEF Next, Visitor, Server, Answered, SignIn, SignUp, FormKinds

-----------------------------------------------------------------------------
(* What is in flight *)

Follows(c) ==
  calls'[c] # None =>
    \/ SameCall(calls'[c], calls[c])
    \/ \E t \in Tabs, kind \in FormKinds \cup {"me", "data"}, account \in Accounts \cup {None} :
         /\ calls'[c] = NewCall(t, kind, account)
         /\ kind \in FormKinds => account # None
         /\ kind = "me" => storedToken # None

LEMMA StepCalls ==
  ASSUME TypeOK, Backed, [Next]_vars, ~ (\E tok \in Tokens, c \in Calls : Grant(c, tok))
  PROVE  \A c \in Calls : Follows(c)
  <1>1. \A c \in Calls : calls[c] # None => SameCall(calls[c], calls[c])
    BY DEF SameCall
  <1>2. CASE UNCHANGED calls
    BY <1>1, <1>2 DEF Follows
  <1>3. ASSUME NEW d \in Calls, calls' = Freed(d) PROVE \A c \in Calls : Follows(c)
    BY <1>1, <1>3, FreedTyping DEF Follows
  <1>4. ASSUME NEW d \in Calls, NEW t \in Tabs, NEW kind \in FormKinds \cup {"data"},
               NEW account \in Accounts \cup {None}, kind \in FormKinds => account # None,
               calls' = Send(calls, d, t, kind, account)
        PROVE  \A c \in Calls : Follows(c)
    <2>1. calls' = [calls EXCEPT ![d] = NewCall(t, kind, account)]
      BY <1>4, SendTyping DEF TypeOK
    <2>2. calls'[d] = NewCall(t, kind, account)
          /\ \A c \in Calls : c # d => calls'[c] = calls[c]
      BY <2>1 DEF TypeOK
    <2>3. kind # "me"
      BY DEF FormKinds
    <2> QED
      BY <1>1, <1>4, <2>2, <2>3 DEF Follows
  <1>5. ASSUME NEW t \in Tabs, NEW route \in Routes \cup {None},
               Go(t, route, calls) \/ \E d \in Calls : Go(t, route, Freed(d))
        PROVE  \A c \in Calls : Follows(c)
    <2>1. PICK kept \in [Calls -> Call \cup {None}] :
            /\ Go(t, route, kept)
            /\ \A c \in Calls : kept[c] # None => kept[c] = calls[c]
      BY <1>5, FreedTyping DEF TypeOK
    <2>2. \A c \in Calls : calls'[c] # None => SameCall(calls'[c], kept[c])
      BY <2>1, GoTyping
    <2>3. \A c \in Calls : calls'[c] # None => kept[c] = calls[c]
      BY <2>1, <2>2 DEF SameCall
    <2> QED
      BY <2>2, <2>3 DEF Follows
  <1>6. ASSUME NEW t \in Tabs, NEW route \in Routes, NEW tok \in Tokens \cup {None},
               NEW who \in Profile \cup {None}, LoadWith(t, route, tok, who),
               tok = storedToken \/ tok = None
        PROVE  \A c \in Calls : Follows(c)
    <2>1. \A c \in Calls : calls'[c] # None => \/ calls'[c] = calls[c]
                                               \/ /\ calls'[c] = NewCall(t, "me", None)
                                                  /\ tok # None
      BY <1>6, LoadTyping
    <2>2. "me" \notin FormKinds
      BY DEF FormKinds
    <2> QED
      BY <1>1, <1>6, <2>1, <2>2 DEF Follows
  <1>7. ASSUME NEW t \in Tabs, NEW route \in Routes, Load(t, route) PROVE \A c \in Calls : Follows(c)
    BY <1>6, <1>7 DEF Load, TypeOK
  <1>8. ASSUME NEW t \in Tabs, NEW route \in Routes, Visit(t, route)
        PROVE  \A c \in Calls : Follows(c)
    BY <1>5, <1>8, LandingTyping DEF Visit
  <1>9. ASSUME NEW t \in Tabs, Leave(t) PROVE \A c \in Calls : Follows(c)
    BY <1>5, <1>9, HomeRoutes DEF Leave
  <1>10. ASSUME NEW t \in Tabs, NEW kind \in FormKinds, NEW a \in Accounts, NEW c \in Calls,
                Submit(t, kind, a, c)
         PROVE  \A d \in Calls : Follows(d)
    <2>1. a # None
      BY AccountsAssumption
    <2> QED
      BY <1>4, <1>10, <2>1 DEF Submit
  <1>11. ASSUME NEW t \in Tabs, NEW c \in Calls, Ask(t, c) PROVE \A d \in Calls : Follows(d)
    <2>1. "data" \notin FormKinds
      BY DEF FormKinds
    <2> QED
      BY <1>4, <1>11, <2>1 DEF Ask
  <1>12. ASSUME NEW c \in Calls, Answered(c) PROVE \A d \in Calls : Follows(d)
    <2>1. calls[c].tab \in Tabs
      BY <1>12, CallsTyping DEF Answered, SignedIn, Confirmed, Served, Failed, Rejected
    <2>2. CASE SignedIn(c)
      BY <1>5, <2>1, <2>2, HomeRoutes DEF SignedIn
    <2>3. CASE Confirmed(c) \/ Served(c)
      BY <1>3, <2>3 DEF Confirmed, Served
    <2>4. CASE Failed(c)
      <3>1. Landing(at[calls[c].tab], None) \in Routes \cup {None}
        BY <2>1, LandingTyping DEF TypeOK
      <3> QED
        BY <1>3, <1>5, <2>1, <2>4, <3>1 DEF Failed
    <2>5. CASE Rejected(c)
      BY <1>6, <2>1, <2>5, HomeRoutes DEF Rejected
    <2> QED
      BY <1>12, <2>2, <2>3, <2>4, <2>5 DEF Answered
  <1>13. CASE UNCHANGED vars \/ \E tok \in Tokens : Expire(tok)
    BY <1>2, <1>13 DEF vars, Expire
  <1> QED
    BY <1>7, <1>8, <1>9, <1>10, <1>11, <1>12, <1>13
    DEF Next, Visitor, Server, SignIn, SignUp, FormKinds

-----------------------------------------------------------------------------
(* The session and the account behind it *)

LEMMA CallsBacked ==
  ASSUME TypeOK, Backed, \A c \in Calls : Follows(c), issued' = issued
  PROVE  \A c \in Calls : InFlight(c)' => CallOK(calls[c])'
  <1> SUFFICES ASSUME NEW c \in Calls, calls'[c] # None PROVE CallOK(calls[c])'
    BY DEF InFlight
  <1>1. CASE SameCall(calls'[c], calls[c])
    <2>1. CallOK(calls[c])
      BY <1>1 DEF SameCall, Backed, InFlight
    <2> QED
      BY <1>1, <2>1 DEF SameCall, CallOK
  <1>2. ASSUME NEW t \in Tabs, NEW kind \in FormKinds \cup {"me", "data"},
               NEW account \in Accounts \cup {None},
               calls'[c] = NewCall(t, kind, account),
               kind \in FormKinds => account # None, kind = "me" => storedToken # None
        PROVE  CallOK(calls[c])'
    <2>1. /\ calls'[c].kind = kind /\ calls'[c].account = account /\ calls'[c].grant = None
          /\ calls'[c].token = IF kind \in FormKinds THEN None ELSE storedToken
      BY <1>2 DEF NewCall
    <2>2. "me" \notin FormKinds
      BY DEF FormKinds
    <2> QED
      BY <1>2, <2>1, <2>2 DEF CallOK, Backed
  <1> QED
    BY <1>1, <1>2 DEF Follows

LEMMA StepBacked ==
  ASSUME TypeOK, Backed, Genuine, [Next]_vars
  PROVE  Backed' /\ Genuine'
  <1> DEFINE Carried == \A c \in Calls : InFlight(c)' => CallOK(calls[c])'
  <1>1. ASSUME Carried, UNCHANGED <<storedToken, storedUser, token, user, blended, issued>>
        PROVE  Backed' /\ Genuine'
    BY <1>1 DEF Backed, Genuine
  <1>2. ASSUME issued' = issued PROVE Carried
    <2>1. ASSUME NEW tok \in Tokens, NEW c \in Calls PROVE ~ Grant(c, tok)
      <3> SUFFICES ASSUME Grant(c, tok) PROVE FALSE
        OBVIOUS
      <3>1. calls[c].account \in Accounts /\ issued[tok] = None
        BY CallsTyping DEF Grant, FormKinds
      <3>2. issued'[tok] = calls[c].account
        BY DEF Grant, TypeOK
      <3> QED
        BY <1>2, <3>1, <3>2, AccountsAssumption
    <2> QED
      BY <1>2, <2>1, StepCalls, CallsBacked
  <1> HIDE DEF Carried
  <1>3. ASSUME NEW t \in Tabs, NEW route \in Routes, Load(t, route)
        PROVE  Backed' /\ Genuine'
    <2>1. /\ storedToken \in Tokens \cup {None} /\ storedUser \in Profile \cup {None}
          /\ LoadWith(t, route, storedToken, storedUser)
          /\ UNCHANGED <<storedToken, storedUser, blended, issued>>
      BY <1>3 DEF Load, storage, server, TypeOK
    <2>2. /\ IF storedToken # None /\ storedUser # None
             THEN token'[t] = storedToken /\ user'[t] = storedUser
             ELSE token'[t] = None /\ user'[t] = None
          /\ \A u \in Tabs : u # t => token'[u] = token[u] /\ user'[u] = user[u]
      BY <2>1, LoadTyping
    <2> QED
      BY <1>2, <2>1, <2>2 DEF Backed, Genuine, Carried
  <1>4. ASSUME NEW t \in Tabs, Leave(t) PROVE Backed' /\ Genuine'
    <2>1. logout(t) /\ UNCHANGED <<blended, issued>>
      BY <1>4 DEF Leave, server
    <2> QED
      BY <1>2, <2>1, LogoutTyping DEF Backed, Genuine, Carried
  <1>5. ASSUME NEW tok \in Tokens, NEW c \in Calls, Grant(c, tok) PROVE Backed' /\ Genuine'
    <2>1. /\ calls[c] \in Call /\ calls[c] # None /\ calls[c].account \in Accounts
          /\ CallOK(calls[c]) /\ issued[tok] = None /\ calls[c].account # None
      BY <1>5, CallsTyping, AccountsAssumption DEF Grant, FormKinds
    <2>2. /\ issued'[tok] = calls[c].account
          /\ \A k \in Tokens : issued[k] # None => issued'[k] = issued[k]
      BY <1>5, <2>1 DEF Grant, TypeOK
    <2>3. UNCHANGED <<storedToken, storedUser, token, user, blended>>
      BY <1>5 DEF Grant, storage
    <2>4. /\ storedToken # None => storedToken \in Tokens
          /\ \A t \in Tabs : token[t] # None => token[t] \in Tokens
          /\ \A d \in Calls : /\ InFlight(d) /\ calls[d].token # None => calls[d].token \in Tokens
                              /\ InFlight(d) /\ calls[d].grant # None => calls[d].grant \in Tokens
      BY CallsTyping DEF TypeOK
    <2>5. ASSUME NEW d \in Calls, InFlight(d)' PROVE CallOK(calls[d])'
      <3>1. CASE d = c
        <4>1. calls'[c] = [calls[c] EXCEPT !.grant = tok]
          BY <1>5 DEF Grant, TypeOK
        <4>2. /\ calls'[c].kind = calls[c].kind /\ calls'[c].token = calls[c].token
              /\ calls'[c].account = calls[c].account /\ calls'[c].grant = tok
          BY <2>1, <4>1 DEF Call
        <4>3. InFlight(c)
          BY <2>1 DEF InFlight
        <4> QED
          BY <2>1, <2>2, <2>4, <3>1, <4>2, <4>3 DEF CallOK
      <3>2. CASE d # c
        <4>1. calls'[d] = calls[d] /\ InFlight(d)
          BY <1>5, <2>5, <3>2 DEF Grant, TypeOK, InFlight
        <4>2. CallOK(calls[d])
          BY <4>1 DEF Backed
        <4>3. /\ calls[d].token # None => issued'[calls[d].token] = issued[calls[d].token]
              /\ calls[d].grant # None /\ calls[d].account # None
                   => issued'[calls[d].grant] = issued[calls[d].grant]
          BY <2>2, <2>4, <4>1, <4>2 DEF CallOK
        <4> QED
          BY <4>1, <4>2, <4>3 DEF CallOK
      <3> QED
        BY <3>1, <3>2
    <2> QED
      BY <2>2, <2>3, <2>4, <2>5 DEF Backed, Genuine
  <1>6. ASSUME NEW c \in Calls, SignedIn(c) PROVE Backed' /\ Genuine'
    <2> DEFINE t == calls[c].tab
               a == calls[c].account
    <2>1. /\ t \in Tabs /\ calls[c].grant \in Tokens /\ a \in Accounts
          /\ issued[calls[c].grant] = a /\ a # None
          /\ login(t, calls[c].grant, a) /\ UNCHANGED <<blended, issued>>
      BY <1>6, CallsTyping, AccountsAssumption DEF SignedIn, server
    <2> HIDE DEF t, a
    <2>2. /\ storedToken' = calls[c].grant /\ storedUser' = Own(a)
          /\ token'[t] = calls[c].grant /\ user'[t] = Own(a) /\ Own(a) # None
          /\ \A u \in Tabs : u # t => token'[u] = token[u] /\ user'[u] = user[u]
      BY <2>1, LoginTyping, ProfileTyping
    <2>3. calls[c].grant # None
      BY <2>1, AccountsAssumption
    <2> QED
      BY <1>2, <2>1, <2>2, <2>3 DEF Backed, Genuine, Carried
  <1>7. ASSUME NEW c \in Calls, Confirmed(c) PROVE Backed' /\ Genuine'
    <2> DEFINE t == calls[c].tab
               k == calls[c].token
               who == Refreshed(user[t], issued[k])
    <2>1. t \in Tabs /\ issued[k] \in Accounts /\ UNCHANGED <<token, issued>>
      BY <1>7, CallsTyping DEF Confirmed, CallOK, server
    <2>2. CASE user[t] = None
      BY <1>1, <1>2, <1>7, <2>1, <2>2 DEF Confirmed, storage
    <2>3. CASE user[t] # None
      <3>1. /\ user' = [user EXCEPT ![t] = who] /\ storedUser' = who
            /\ storedToken' = storedToken
            /\ blended' = (blended \/ k # token[t] \/ k # storedToken)
        BY <1>7, <2>3 DEF Confirmed
      <3>2. /\ user[t] \in Profile /\ who # None
            /\ user[t] = Own(issued[k]) => who = Own(issued[k])
        BY <2>1, <2>3, ProfileTyping DEF TypeOK
      <3> HIDE DEF who, t, k
      <3>3. user'[t] = who /\ \A u \in Tabs : u # t => user'[u] = user[u]
        BY <2>1, <3>1 DEF TypeOK
      <3>4. token[t] # None
        BY <2>1, <2>3 DEF Backed
      <3> QED
        BY <1>2, <2>1, <2>3, <3>1, <3>2, <3>3, <3>4 DEF Backed, Genuine, Carried
    <2> QED
      BY <2>2, <2>3
  <1>8. ASSUME NEW c \in Calls, Failed(c) PROVE Backed' /\ Genuine'
    <2>1. calls[c].tab \in Tabs /\ UNCHANGED <<blended, issued>>
      BY <1>8, CallsTyping DEF Failed, server
    <2>2. CASE calls[c].kind = "me"
      <3>1. logout(calls[c].tab)
        BY <1>8, <2>2 DEF Failed
      <3> QED
        BY <1>2, <2>1, <3>1, LogoutTyping DEF Backed, Genuine, Carried
    <2>3. CASE calls[c].kind # "me"
      BY <1>1, <1>2, <1>8, <2>1, <2>3 DEF Failed, storage
    <2> QED
      BY <2>2, <2>3
  <1>9. ASSUME NEW c \in Calls, Rejected(c) PROVE Backed' /\ Genuine'
    <2> DEFINE t == calls[c].tab
    <2>1. /\ t \in Tabs /\ Store(t, None, None) /\ LoadWith(t, "login", None, None)
          /\ UNCHANGED <<blended, issued>>
      BY <1>9, CallsTyping DEF Rejected, server
    <2> HIDE DEF t
    <2>2. /\ token'[t] = None /\ user'[t] = None /\ storedToken' = None /\ storedUser' = None
          /\ \A u \in Tabs : u # t => token'[u] = token[u] /\ user'[u] = user[u]
      BY <2>1, LoadTyping, StoreTyping, HomeRoutes
    <2> QED
      BY <1>2, <2>1, <2>2 DEF Backed, Genuine, Carried
  <1>10. CASE \/ UNCHANGED vars
              \/ \E tok \in Tokens : Expire(tok)
              \/ \E c \in Calls : Served(c)
              \/ \E t \in Tabs, route \in Routes : Visit(t, route)
              \/ \E t \in Tabs, c \in Calls, a \in Accounts :
                    SignIn(t, a, c) \/ SignUp(t, a, c)
              \/ \E t \in Tabs, c \in Calls : Ask(t, c)
    <2>1. UNCHANGED <<storedToken, storedUser, token, user, blended, issued>>
      BY <1>10 DEF Expire, Served, Visit, Ask, SignIn, SignUp, Submit, vars, storage, server
    <2> QED
      BY <1>1, <1>2, <2>1
  <1>11. CASE Visitor
    BY <1>3, <1>4, <1>10, <1>11 DEF Visitor
  <1>12. CASE Server
    BY <1>5, <1>10, <1>12 DEF Server
  <1>13. CASE \E c \in Calls : Answered(c)
    BY <1>6, <1>7, <1>8, <1>9, <1>10, <1>13 DEF Answered
  <1> QED
    BY <1>10, <1>11, <1>12, <1>13 DEF Next

-----------------------------------------------------------------------------
(* Tabs and store *)

LEMMA StepInStep ==
  ASSUME TypeOK, Backed, TabInStep, [Next]_vars
  PROVE  TabInStep'
  <1>1. ASSUME UNCHANGED <<storedToken, storedUser, token, user, drifted>>,
               \A t \in Tabs : Opened(t)' => Opened(t)
        PROVE  TabInStep'
    BY <1>1 DEF TabInStep
  <1>2. ASSUME NEW t \in Tabs, NEW tok, NEW who, Store(t, tok, who),
               token'[t] = tok, tok # None => user'[t] = who,
               \A u \in Tabs : u # t => /\ token'[u] = token[u] /\ user'[u] = user[u]
                                        /\ at'[u] = at[u]
        PROVE  TabInStep'
    <2>1. /\ storedToken' = tok /\ storedUser' = who
          /\ \A u \in Tabs : u # t /\ u \notin drifted'
               => u \notin drifted /\ tok = storedToken /\ who = storedUser
      BY <1>2, StoreTyping
    <2> QED
      BY <1>2, <2>1 DEF TabInStep, Opened
  <1>3. ASSUME NEW t \in Tabs, NEW route \in Routes, Load(t, route) PROVE TabInStep'
    <2>1. /\ storedToken \in Tokens \cup {None} /\ storedUser \in Profile \cup {None}
          /\ LoadWith(t, route, storedToken, storedUser) /\ drifted' = drifted \ {t}
          /\ UNCHANGED <<storedToken, storedUser>>
      BY <1>3 DEF Load, storage, TypeOK
    <2>2. /\ IF storedToken # None /\ storedUser # None
             THEN token'[t] = storedToken /\ user'[t] = storedUser
             ELSE token'[t] = None /\ user'[t] = None
          /\ \A u \in Tabs : u # t => /\ token'[u] = token[u] /\ user'[u] = user[u]
                                      /\ at'[u] = at[u]
      BY <2>1, LoadTyping
    <2> QED
      BY <2>1, <2>2 DEF Backed, TabInStep, Opened
  <1>4. ASSUME NEW t \in Tabs, NEW route \in Routes, Visit(t, route) PROVE TabInStep'
    <2>1. /\ Go(t, Landing(route, user[t]), calls) /\ Opened(t)
          /\ UNCHANGED <<storedToken, storedUser, token, user, drifted>>
      BY <1>4 DEF Visit, storage
    <2>2. \A u \in Tabs : u # t => at'[u] = at[u]
      BY <2>1 DEF Go, TypeOK
    <2> QED
      BY <1>1, <2>1, <2>2 DEF Opened
  <1>5. ASSUME NEW t \in Tabs, Leave(t) PROVE TabInStep'
    <2>1. logout(t) /\ Go(t, "login", calls)
      BY <1>5 DEF Leave
    <2>2. /\ Store(t, None, None) /\ token'[t] = None
          /\ \A u \in Tabs : u # t => /\ token'[u] = token[u] /\ user'[u] = user[u]
                                      /\ at'[u] = at[u]
      BY <2>1, LogoutTyping DEF logout, Go, TypeOK
    <2> QED
      BY <1>2, <2>2
  <1>6. ASSUME NEW c \in Calls, SignedIn(c) PROVE TabInStep'
    <2> DEFINE t == calls[c].tab
               a == calls[c].account
               k == calls[c].grant
    <2>1. t \in Tabs /\ k \in Tokens /\ a \in Accounts /\ login(t, k, a) /\ Go(t, "home", Freed(c))
      BY <1>6, CallsTyping DEF SignedIn
    <2> HIDE DEF t, a, k
    <2>2. /\ Store(t, k, Own(a)) /\ token'[t] = k /\ user'[t] = Own(a)
          /\ \A u \in Tabs : u # t => /\ token'[u] = token[u] /\ user'[u] = user[u]
                                      /\ at'[u] = at[u]
      BY <2>1, LoginTyping DEF login, Go, TypeOK
    <2> QED
      BY <1>2, <2>1, <2>2
  <1>7. ASSUME NEW c \in Calls, Confirmed(c) PROVE TabInStep'
    <2> DEFINE t == calls[c].tab
               who == Refreshed(user[t], issued[calls[c].token])
    <2>1. t \in Tabs
      BY <1>7, CallsTyping DEF Confirmed
    <2>2. CASE user[t] = None
      BY <1>1, <1>7, <2>2 DEF Confirmed, storage, Opened
    <2>3. CASE user[t] # None
      <3>1. /\ user' = [user EXCEPT ![t] = who] /\ storedUser' = who
            /\ UNCHANGED <<storedToken, token>>
            /\ at' = [at EXCEPT ![t] = Landing(at[t], who)]
            /\ drifted' = IF who = storedUser THEN drifted ELSE drifted \cup (Tabs \ {t})
        BY <1>7, <2>3 DEF Confirmed
      <3>2. at[t] = None => Landing(at[t], who) = None
        BY LandingTyping
      <3> HIDE DEF who, t
      <3>3. ASSUME NEW u \in Tabs, Opened(u)', u \notin drifted'
            PROVE  Opened(u) /\ token[u] = storedToken /\ (token[u] # None => user'[u] = who)
        <4>1. Opened(u) /\ u \notin drifted /\ (u # t => who = storedUser)
          BY <2>1, <3>1, <3>2, <3>3 DEF Opened, TypeOK
        <4> QED
          BY <2>1, <3>1, <4>1 DEF TabInStep, TypeOK
      <3> QED
        BY <3>1, <3>3 DEF TabInStep
    <2> QED
      BY <2>2, <2>3
  <1>8. ASSUME NEW c \in Calls, Failed(c) PROVE TabInStep'
    <2> DEFINE t == calls[c].tab
    <2>1. t \in Tabs
      BY <1>8, CallsTyping DEF Failed
    <2>2. CASE calls[c].kind = "me"
      <3>1. logout(t) /\ Go(t, Landing(at[t], None), Freed(c))
        BY <1>8, <2>2 DEF Failed
      <3> HIDE DEF t
      <3>2. /\ Store(t, None, None) /\ token'[t] = None
            /\ \A u \in Tabs : u # t => /\ token'[u] = token[u] /\ user'[u] = user[u]
                                        /\ at'[u] = at[u]
        BY <2>1, <3>1, LogoutTyping DEF logout, Go, TypeOK
      <3> QED
        BY <1>2, <2>1, <3>2
    <2>3. CASE calls[c].kind # "me"
      BY <1>1, <1>8, <2>3 DEF Failed, storage, Opened
    <2> QED
      BY <2>2, <2>3
  <1>9. ASSUME NEW c \in Calls, Rejected(c) PROVE TabInStep'
    <2> DEFINE t == calls[c].tab
    <2>1. t \in Tabs /\ Store(t, None, None) /\ LoadWith(t, "login", None, None)
      BY <1>9, CallsTyping DEF Rejected
    <2> HIDE DEF t
    <2>2. /\ token'[t] = None
          /\ \A u \in Tabs : u # t => /\ token'[u] = token[u] /\ user'[u] = user[u]
                                      /\ at'[u] = at[u]
      BY <2>1, LoadTyping, HomeRoutes
    <2> QED
      BY <1>2, <2>1, <2>2
  <1>10. CASE \/ UNCHANGED vars
              \/ \E tok \in Tokens : Expire(tok) \/ \E c \in Calls : Grant(c, tok)
              \/ \E c \in Calls : Served(c)
              \/ \E t \in Tabs, c \in Calls, a \in Accounts :
                    SignIn(t, a, c) \/ SignUp(t, a, c)
              \/ \E t \in Tabs, c \in Calls : Ask(t, c)
    <2>1. UNCHANGED <<storedToken, storedUser, token, user, drifted, at>>
      BY <1>10 DEF Expire, Grant, Served, Ask, SignIn, SignUp, Submit, vars, storage
    <2> QED
      BY <1>1, <2>1 DEF Opened
  <1>11. CASE Visitor
    BY <1>3, <1>4, <1>5, <1>10, <1>11 DEF Visitor
  <1>12. CASE Server
    BY <1>10, <1>12 DEF Server
  <1>13. CASE \E c \in Calls : Answered(c)
    BY <1>6, <1>7, <1>8, <1>9, <1>10, <1>13 DEF Answered
  <1> QED
    BY <1>10, <1>11, <1>12, <1>13 DEF Next

(* The account shown is the account acted for, by way of the token.        *)
LEMMA Shown ==
  ASSUME TypeOK, Backed, Genuine, TabInStep
  PROVE  ActsAsShown
  BY DEF Backed, Genuine, TabInStep, ActsAsShown

-----------------------------------------------------------------------------
(* Buttons of the forms *)

LEMMA GoButtons ==
  ASSUME TypeOK, ButtonWaits, Placed, NEW t \in Tabs, NEW route \in Routes \cup {None},
         NEW kept \in [Calls -> Call \cup {None}], Go(t, route, kept),
         \A c \in Calls : \/ kept[c] = calls[c]
                          \/ /\ kept[c] = None /\ calls[c].tab = t
                             /\ route = at[t] => c \notin Waited(t)
  PROVE  ButtonWaits' /\ Placed'
  <1>1. /\ at'[t] = route /\ submitting'[t] = (submitting[t] /\ route = at[t])
        /\ \A u \in Tabs : u # t => at'[u] = at[u] /\ submitting'[u] = submitting[u]
        /\ calls' = IF route = at[t] THEN kept ELSE Orphaned(t, kept)
    BY DEF Go, TypeOK
  <1>2. Placed'
    BY <1>1 DEF Placed
  <1>3. ASSUME NEW u \in Tabs, u # t PROVE Waited(u)' = Waited(u)
    <2>1. ASSUME NEW c \in Calls PROVE c \in Waited(u)' <=> c \in Waited(u)
      <3>1. kept[c] # calls[c] => kept[c] = None /\ calls[c].tab # u
        BY <1>3
      <3>2. kept[c] # None /\ kept[c].tab # t => calls'[c] = kept[c]
        BY <1>1, OrphanedTyping
      <3>3. calls'[c] # None => kept[c] # None /\ calls'[c].tab = kept[c].tab
        BY <1>1, OrphanedTyping DEF SameCall
      <3> QED
        BY <1>3, <3>1, <3>2, <3>3 DEF Waited, InFlight
    <2> QED
      BY <2>1 DEF Waited
  <1>4. CASE route = at[t]
    <2>1. ASSUME NEW c \in Calls PROVE c \in Waited(t)' <=> c \in Waited(t)
      BY <1>1, <1>4 DEF Waited, InFlight
    <2>2. Waited(t)' = Waited(t) /\ (submitting'[t] <=> submitting[t])
      BY <1>1, <1>4, <2>1 DEF Waited
    <2> QED
      BY <1>1, <1>2, <1>3, <2>2 DEF ButtonWaits
  <1>5. CASE route # at[t]
    <2>1. ASSUME NEW c \in Calls PROVE c \notin Waited(t)'
      <3>1. calls' = Orphaned(t, kept)
        BY <1>1, <1>5
      <3> QED
        BY <3>1, OrphanedTyping DEF Waited, InFlight, SameCall
    <2>2. Waited(t)' = {} /\ ~ submitting'[t]
      BY <1>1, <1>5, <2>1 DEF Waited
    <2> QED
      BY <1>1, <1>2, <1>3, <2>2 DEF ButtonWaits
  <1> QED
    BY <1>4, <1>5

LEMMA LoadButtons ==
  ASSUME TypeOK, ButtonWaits, Placed, NEW t \in Tabs, NEW route \in Routes,
         NEW tok \in Tokens \cup {None}, NEW who \in Profile \cup {None},
         LoadWith(t, route, tok, who)
  PROVE  ButtonWaits' /\ Placed'
  <1>1. /\ ~ submitting'[t]
        /\ \A u \in Tabs : u # t => at'[u] = at[u] /\ submitting'[u] = submitting[u]
        /\ \A c \in Calls :
             /\ calls'[c] # None => \/ calls'[c] = calls[c] /\ calls[c].tab # t
                                    \/ calls'[c] = NewCall(t, "me", None)
             /\ calls[c] # None /\ calls[c].tab # t => calls'[c] = calls[c]
    BY LoadTyping
  <1>2. /\ NewCall(t, "me", None).tab = t /\ NewCall(t, "me", None).kind = "me"
        /\ "me" \notin FormKinds
    BY DEF NewCall, FormKinds
  <1>3. Waited(t)' = {}
    BY <1>1, <1>2 DEF Waited, InFlight
  <1>4. ASSUME NEW u \in Tabs, u # t PROVE Waited(u)' = Waited(u)
    <2>1. ASSUME NEW c \in Calls PROVE c \in Waited(u)' <=> c \in Waited(u)
      BY <1>1, <1>2, <1>4 DEF Waited, InFlight
    <2> QED
      BY <2>1 DEF Waited
  <1> QED
    BY <1>1, <1>3, <1>4 DEF ButtonWaits, Placed

LEMMA StepButtons ==
  ASSUME TypeOK, Backed, ButtonWaits, Placed, [Next]_vars
  PROVE  ButtonWaits' /\ Placed'
  <1>1. ASSUME UNCHANGED submitting, \A t \in Tabs : Waited(t)' = Waited(t),
               \A t \in Tabs : at[t] \in FormKinds => at'[t] = at[t]
        PROVE  ButtonWaits' /\ Placed'
    BY <1>1 DEF ButtonWaits, Placed
  <1>2. ASSUME NEW c \in Calls, calls' = Freed(c), calls[c].kind \notin FormKinds
        PROVE  \A t \in Tabs : Waited(t)' = Waited(t)
    <2>1. ASSUME NEW t \in Tabs, NEW d \in Calls PROVE d \in Waited(t)' <=> d \in Waited(t)
      BY <1>2, FreedTyping DEF Waited, InFlight
    <2> QED
      BY <2>1 DEF Waited
  <1>3. ASSUME NEW t \in Tabs, NEW route \in Routes, Load(t, route)
        PROVE  ButtonWaits' /\ Placed'
    BY <1>3, LoadButtons DEF Load, TypeOK
  <1>4. ASSUME NEW t \in Tabs, NEW route \in Routes, Visit(t, route)
        PROVE  ButtonWaits' /\ Placed'
    <2>1. Landing(route, user[t]) \in Routes \cup {None} /\ calls \in [Calls -> Call \cup {None}]
      BY LandingTyping DEF TypeOK
    <2> QED
      BY <1>4, <2>1, GoButtons DEF Visit
  <1>5. ASSUME NEW t \in Tabs, Leave(t) PROVE ButtonWaits' /\ Placed'
    <2>1. "login" \in Routes \cup {None} /\ calls \in [Calls -> Call \cup {None}]
      BY HomeRoutes DEF TypeOK
    <2> QED
      BY <1>5, <2>1, GoButtons DEF Leave
  <1>6. ASSUME NEW t \in Tabs, NEW kind \in FormKinds, NEW a \in Accounts, NEW c \in Calls,
               Submit(t, kind, a, c)
        PROVE  ButtonWaits' /\ Placed'
    <2>1. /\ calls' = [calls EXCEPT ![c] = NewCall(t, kind, a)] /\ NewCall(t, kind, a) # None
          /\ calls[c] = None
      BY <1>6, SendTyping DEF Submit, InFlight, TypeOK
    <2>2. /\ calls'[c] = NewCall(t, kind, a)
          /\ \A d \in Calls : d # c => calls'[d] = calls[d]
          /\ NewCall(t, kind, a).tab = t /\ NewCall(t, kind, a).kind \in FormKinds
          /\ NewCall(t, kind, a).live
      BY <2>1 DEF NewCall, TypeOK
    <2>3. /\ at' = at /\ at[t] \in FormKinds /\ ~ submitting[t] /\ submitting'[t]
          /\ \A u \in Tabs : u # t => submitting'[u] = submitting[u]
      BY <1>6 DEF Submit, TypeOK
    <2>4. ASSUME NEW u \in Tabs, u # t PROVE Waited(u)' = Waited(u)
      <3>1. ASSUME NEW d \in Calls PROVE d \in Waited(u)' <=> d \in Waited(u)
        BY <2>1, <2>2, <2>4 DEF Waited, InFlight
      <3> QED
        BY <3>1 DEF Waited
    <2>5. Waited(t)' = {c}
      <3>1. Waited(t) = {}
        BY <2>3 DEF ButtonWaits
      <3>2. ASSUME NEW d \in Calls PROVE d \in Waited(t)' <=> d = c
        BY <2>1, <2>2, <3>1 DEF Waited, InFlight
      <3> QED
        BY <3>2 DEF Waited
    <2> QED
      BY <2>3, <2>4, <2>5 DEF ButtonWaits, Placed
  <1>7. ASSUME NEW t \in Tabs, NEW c \in Calls, Ask(t, c) PROVE ButtonWaits' /\ Placed'
    <2>0. /\ calls' = Send(calls, c, t, "data", None) /\ calls[c] = None
          /\ UNCHANGED <<at, submitting>>
      BY <1>7 DEF Ask, InFlight
    <2>1. /\ calls' = [calls EXCEPT ![c] = NewCall(t, "data", None)] /\ calls[c] = None
          /\ UNCHANGED <<at, submitting>>
      BY <2>0 DEF Send, NewCall
    <2>2. /\ calls'[c].kind \notin FormKinds
          /\ \A d \in Calls : d # c => calls'[d] = calls[d]
      BY <2>1 DEF NewCall, FormKinds, TypeOK
    <2>3. ASSUME NEW u \in Tabs PROVE Waited(u)' = Waited(u)
      <3>1. ASSUME NEW d \in Calls PROVE d \in Waited(u)' <=> d \in Waited(u)
        BY <2>1, <2>2 DEF Waited, InFlight
      <3> QED
        BY <3>1 DEF Waited
    <2> QED
      BY <1>1, <2>1, <2>3
  <1>8. ASSUME NEW tok \in Tokens, NEW c \in Calls, Grant(c, tok) PROVE ButtonWaits' /\ Placed'
    <2>1. /\ calls[c] \in Call /\ calls[c] # None /\ UNCHANGED <<at, submitting>>
          /\ calls' = [calls EXCEPT ![c] = [calls[c] EXCEPT !.grant = tok]]
      BY <1>8, CallsTyping DEF Grant
    <2>2. [calls[c] EXCEPT !.grant = tok] \in Call
      BY <2>1 DEF Call
    <2>3. /\ calls'[c] # None /\ calls'[c].tab = calls[c].tab /\ calls'[c].kind = calls[c].kind
          /\ calls'[c].live = calls[c].live
          /\ \A d \in Calls : d # c => calls'[d] = calls[d]
      BY <2>1, <2>2, NoneAssumption DEF Call, TypeOK
    <2>4. ASSUME NEW u \in Tabs PROVE Waited(u)' = Waited(u)
      <3>1. ASSUME NEW d \in Calls PROVE d \in Waited(u)' <=> d \in Waited(u)
        BY <2>1, <2>3 DEF Waited, InFlight
      <3> QED
        BY <3>1 DEF Waited
    <2> QED
      BY <1>1, <2>1, <2>4
  <1>9. ASSUME NEW c \in Calls, SignedIn(c) PROVE ButtonWaits' /\ Placed'
    <2> DEFINE t == calls[c].tab
    <2>1. t \in Tabs /\ Go(t, "home", Freed(c)) /\ "home" \in Routes \cup {None}
      BY <1>9, CallsTyping, HomeRoutes DEF SignedIn
    <2>2. "home" = at[t] => c \notin Waited(t)
      BY <2>1 DEF Placed, ButtonWaits, FormKinds
    <2>3. \A d \in Calls : Freed(c)[d] = calls[d] \/ (Freed(c)[d] = None /\ d = c)
      BY FreedTyping
    <2>4. Freed(c) \in [Calls -> Call \cup {None}]
      BY FreedTyping
    <2> QED
      BY <2>1, <2>2, <2>3, <2>4, GoButtons
  <1>10. ASSUME NEW c \in Calls, Confirmed(c) PROVE ButtonWaits' /\ Placed'
    <2>1. calls' = Freed(c) /\ calls[c].kind \notin FormKinds /\ UNCHANGED submitting
      BY <1>10 DEF Confirmed, FormKinds
    <2>2. \A t \in Tabs : at[t] \in FormKinds => at'[t] = at[t]
      BY <1>10, LandingTyping DEF Confirmed, TypeOK
    <2> QED
      BY <1>1, <1>2, <2>1, <2>2
  <1>11. ASSUME NEW c \in Calls, Served(c) PROVE ButtonWaits' /\ Placed'
    <2>1. /\ calls' = Freed(c) /\ calls[c].kind \notin FormKinds
          /\ UNCHANGED <<at, submitting>>
      BY <1>11 DEF Served, FormKinds
    <2> QED
      BY <1>1, <1>2, <2>1
  <1>12. ASSUME NEW c \in Calls, Failed(c) PROVE ButtonWaits' /\ Placed'
    <2>0. PICK t \in Tabs : t = calls[c].tab
      BY <1>12, CallsTyping DEF Failed
    <2>1. t = calls[c].tab /\ Freed(c) \in [Calls -> Call \cup {None}]
      BY <2>0, FreedTyping
    <2>2. CASE calls[c].kind = "me"
      <3>1. Go(t, Landing(at[t], None), Freed(c))
            /\ Landing(at[t], None) \in Routes \cup {None}
        BY <1>12, <2>1, <2>2, LandingTyping DEF Failed, TypeOK
      <3>2. c \notin Waited(t)
        BY <2>2 DEF Waited, FormKinds
      <3>3. \A d \in Calls : Freed(c)[d] = calls[d] \/ (Freed(c)[d] = None /\ d = c)
        BY FreedTyping
      <3> QED
        BY <2>1, <3>1, <3>2, <3>3, GoButtons
    <2>3. CASE calls[c].kind # "me" /\ c \notin Waited(t)
      <3>1. /\ calls' = Freed(c) /\ at' = at /\ calls[c] # None
            /\ ~ (calls[c].kind \in FormKinds /\ calls[c].live)
            /\ \A u \in Tabs : submitting'[u] <=> submitting[u]
        BY <1>12, <2>1, <2>3 DEF Failed, Waited, InFlight, TypeOK
      <3>2. ASSUME NEW u \in Tabs PROVE Waited(u)' = Waited(u)
        <4>1. ASSUME NEW d \in Calls PROVE d \in Waited(u)' <=> d \in Waited(u)
          BY <3>1, FreedTyping DEF Waited, InFlight
        <4> QED
          BY <4>1 DEF Waited
      <3> QED
        BY <3>1, <3>2 DEF ButtonWaits, Placed
    <2>4. CASE calls[c].kind # "me" /\ c \in Waited(t)
      <3>1. /\ calls' = Freed(c) /\ at' = at /\ ~ submitting'[t]
            /\ \A u \in Tabs : u # t => submitting'[u] = submitting[u]
        BY <1>12, <2>1, <2>4 DEF Failed, Waited, TypeOK
      <3>2. Waited(t)' = {}
        <4>1. Waited(t) = {c}
          BY <2>1, <2>4 DEF ButtonWaits
        <4>2. ASSUME NEW d \in Calls PROVE d \notin Waited(t)'
          BY <3>1, <4>1, FreedTyping DEF Waited, InFlight
        <4> QED
          BY <4>2 DEF Waited
      <3>3. ASSUME NEW u \in Tabs, u # t PROVE Waited(u)' = Waited(u)
        <4>1. ASSUME NEW d \in Calls PROVE d \in Waited(u)' <=> d \in Waited(u)
          BY <2>1, <3>1, <3>3, FreedTyping DEF Waited, InFlight
        <4> QED
          BY <4>1 DEF Waited
      <3> QED
        BY <3>1, <3>2, <3>3 DEF ButtonWaits, Placed
    <2> QED
      BY <2>2, <2>3, <2>4
  <1>13. ASSUME NEW c \in Calls, Rejected(c) PROVE ButtonWaits' /\ Placed'
    <2>1. calls[c].tab \in Tabs
      BY <1>13, CallsTyping DEF Rejected
    <2> QED
      BY <1>13, <2>1, LoadButtons, HomeRoutes DEF Rejected
  <1>14. CASE UNCHANGED vars \/ \E tok \in Tokens : Expire(tok)
    <2>1. UNCHANGED <<at, submitting, calls>>
      BY <1>14 DEF Expire, vars
    <2> QED
      BY <2>1 DEF ButtonWaits, Placed, Waited, InFlight
  <1>15. CASE Visitor
    BY <1>3, <1>4, <1>5, <1>6, <1>7, <1>15 DEF Visitor, SignIn, SignUp, FormKinds
  <1>16. CASE Server
    BY <1>8, <1>14, <1>16 DEF Server
  <1>17. CASE \E c \in Calls : Answered(c)
    BY <1>9, <1>10, <1>11, <1>12, <1>13, <1>17 DEF Answered
  <1> QED
    BY <1>14, <1>15, <1>16, <1>17 DEF Next

-----------------------------------------------------------------------------
(* The inductive invariant *)

IInv == TypeOK /\ Backed /\ Genuine /\ TabInStep /\ ButtonWaits /\ Placed

LEMMA InitIInv == Init => IInv
  <1> SUFFICES ASSUME Init PROVE IInv
    OBVIOUS
  <1>1. TypeOK
    BY InitTyping
  <1>2. Backed /\ Genuine
    BY DEF Init, Backed, Genuine, InFlight
  <1>3. TabInStep
    BY DEF Init, TabInStep
  <1>4. ButtonWaits /\ Placed
    BY DEF Init, ButtonWaits, Placed, Waited, InFlight
  <1> QED
    BY <1>1, <1>2, <1>3, <1>4 DEF IInv

LEMMA Invariance == Spec => []IInv
  <1>1. Init => IInv
    BY InitIInv
  <1>2. IInv /\ [Next]_vars => IInv'
    BY StepTyping, StepBacked, StepInStep, StepButtons DEF IInv
  <1> QED
    BY <1>1, <1>2, PTL DEF Spec

(* Tabs only ever show routes the application has, and store and tabs hold *)
(* whole sessions, for any number of tabs, accounts, tokens and requests.  *)
THEOREM Typing == Spec => []TypeOK
  <1>1. IInv => TypeOK
    BY DEF IInv
  <1> QED
    BY <1>1, Invariance, PTL

(* What AuthProvider and the interceptors write by hand into state and     *)
(* localStorage stays the same session until another tab writes the store. *)
THEOREM TabsInStep == Spec => []TabInStep
  <1>1. IInv => TabInStep
    BY DEF IInv
  <1> QED
    BY <1>1, Invariance, PTL

(* Unless /auth/me answered in a session later than the one it was asked   *)
(* in, a tab in step with the store acts for the account it shows.         *)
THEOREM ActingAsShown == Spec => []ActsAsShown
  <1>1. IInv => ActsAsShown
    BY Shown DEF IInv
  <1> QED
    BY <1>1, Invariance, PTL

(* The button of a login or registration form is disabled exactly while    *)
(* one request of that form is awaited.                                    *)
THEOREM ButtonsWait == Spec => []ButtonWaits
  <1>1. IInv => ButtonWaits
    BY DEF IInv
  <1> QED
    BY <1>1, Invariance, PTL
=============================================================================
