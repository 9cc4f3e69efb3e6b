------------------------------- MODULE Views --------------------------------
(***************************************************************************)
(* What the pages of the client have in common: one of them is mounted at  *)
(* a time, its effects send requests for data (one, or several that        *)
(* Promise.all waits for), the answers arrive in any order or not at all,  *)
(* and whichever comes last is what the page shows.  Requests that change  *)
(* something are posts; they outlive the page that sent them.              *)
(***************************************************************************)
EXTENDS Paging, FiniteSets

CONSTANTS Items, Kind,           \* what administrators review: projects, organizations
          Categories, Matches,   \* how many projects of a category are listed
          Limit,                 \* projects the list asks for per page
          Posts, MaxLoads, None

ASSUME ViewsAssumption ==
  /\ Kind \in [Items -> {"projects", "organizations"}]
  /\ Matches \in [Categories -> Nat]
  /\ Limit \in Nat \ {0}
  /\ "all" \in Categories
  /\ MaxLoads \in Nat
  /\ None \notin Categories \cup Items

VARIABLES
  page,       \* the mounted page, None while another one is
  loading,    \* its spinner
  query,      \* the category and the page number chosen on the list
  totalPages, \* what the list believes there is
  shown,      \* the answer on the screen, None before the first
  loads,      \* loads[n]: the n-th request for data, while it is awaited
  lastLoad,   \* the number of the last one sent
  busy,       \* `loading` of the publishing forms
  posts,      \* requests that change something, while they are awaited
  status,     \* server: what administrators decided on an item
  done,       \* history: items the mounted page was told are decided
  straight    \* history: no answer was lost, and none came for a category left behind

list == <<query, totalPages, straight>>
form == <<busy, posts>>
desk == <<status, done>>
data == <<loading, shown, loads, lastLoad>>
vars == <<page, list, form, desk, data>>

Query == [category : Categories, no : Nat \ {0}]
Start == [category |-> "all", no |-> 1]
Parts == {"projects", "organizations", "ranking", "service", "stats", "donations"}
LoadCall == [query : Query, answered : SUBSET Parts, items : SUBSET Items]
View == [load : 1..MaxLoads, query : Query, items : SUBSET Items]
PageNames == {"home", "ranking", "profile", "projects", "admin", "create-project", "create-update"}
Post == [kind : {"review", "project", "update"}, item : Items \cup {None},
         decision : {"approved", "rejected"}, live : BOOLEAN, settled : {"no", "done", "refused"}]

ASSUME NoneAssumption == None \notin LoadCall \cup Post \cup PageNames

Pending == {i \in Items : status[i] = "pending"}

(* What the server answers to the list: the number of pages of a category,  *)
(* and the projects on one of them.                                        *)
PagesOf(category) == TotalPages(Matches[category], Limit)
RowsOf(q) == PageRows(NormalPage(q.no), Limit, Matches[q.category])

(*** Requests for data *****************************************************)

HomeParts == {"projects", "ranking", "stats"}
RankingParts == {"ranking", "service"}
ProfileParts == {"donations"}
ListParts == {"projects"}
DeskParts == {"projects", "organizations"}
AuthorParts == {"projects"}

PartsOf(name) ==
  CASE name = "home" -> HomeParts
    [] name = "ranking" -> RankingParts
    [] name = "profile" -> ProfileParts
    [] name = "projects" -> ListParts
    [] name = "admin" -> DeskParts
    [] name = "create-update" -> AuthorParts
    [] OTHER -> {}

NewLoad(q) == [query |-> q, answered |-> {}, items |-> {}]

Reload(q) ==
  /\ lastLoad < MaxLoads
  /\ lastLoad' = lastLoad + 1
  /\ loads' = [loads EXCEPT ![lastLoad + 1] = NewLoad(q)]

(* Leaving a page drops its state and its interest in answers, but not the *)
(* posts it has sent.                                                      *)
Forget(kept) ==
  /\ shown' = None
  /\ query' = Start /\ totalPages' = 0 /\ straight' = TRUE
  /\ done' = {}
  /\ busy' = FALSE
  /\ posts' = [s \in Posts |-> IF kept[s] = None THEN None ELSE [kept[s] EXCEPT !.live = FALSE]]

(* A page is mounted with its initial state and loads its data; the form   *)
(* for new projects has nothing to load.                                   *)
Show(name, kept) ==
  /\ page' = name
  /\ Forget(kept)
  /\ loading' = (PartsOf(name) # {})
  /\ IF PartsOf(name) = {}
     THEN loads' = [n \in 1..MaxLoads |-> None] /\ UNCHANGED lastLoad
     ELSE /\ lastLoad < MaxLoads
          /\ lastLoad' = lastLoad + 1
          /\ loads' = [n \in 1..MaxLoads |-> IF n = lastLoad + 1 THEN NewLoad(Start) ELSE None]

Mount(name) ==
  /\ page # name
  /\ Show(name, posts)
  /\ UNCHANGED status

Leave ==
  /\ page # None
  /\ page' = None
  /\ Forget(posts)
  /\ loading' = FALSE
  /\ loads' = [n \in 1..MaxLoads |-> None]
  /\ UNCHANGED <<lastLoad, status>>

(* /auth/me has answered: the user is a new object, and the effects that   *)
(* depend on it run again.                                                 *)
UserRefreshed ==
  /\ page \in {"profile", "admin", "create-update"}
  /\ Reload(Start)
  /\ UNCHANGED <<page, list, form, desk, loading, shown>>

(* The server answers one of the requests Promise.all waits for.           *)
ServePart(n, part) ==
  /\ loads[n] # None
  /\ part \in PartsOf(page) \ loads[n].answered
  /\ loads' = [loads EXCEPT
       ![n].answered = @ \cup {part},
       ![n].items = @ \cup IF page = "admin" THEN {i \in Pending : Kind[i] = part} ELSE {}]
  /\ UNCHANGED <<page, list, form, desk, loading, shown, lastLoad>>

(* All parts are there; the page takes them over.                          *)
ShowLoad(n) ==
  /\ loads[n] # None
  /\ loads[n].answered = PartsOf(page)
  /\ shown' = [load |-> n, query |-> loads[n].query, items |-> loads[n].items]
  /\ totalPages' = IF page = "projects" THEN PagesOf(loads[n].query.category) ELSE totalPages
  /\ straight' = (straight /\ loads[n].query.category = query.category)
  /\ loading' = FALSE
  /\ loads' = [loads EXCEPT ![n] = None]
  /\ UNCHANGED <<page, query, form, desk, lastLoad>>

(* Mutant: the spinner stays when a request fails.                         *)
FailLoad_Spinning(n) ==
  /\ loads[n] # None
  /\ straight' = FALSE
  /\ loads' = [loads EXCEPT ![n] = None]
  /\ UNCHANGED <<page, query, totalPages, form, desk, shown, loading, lastLoad>>

(* One of the parts failed or took more than ten seconds: nothing of the   *)
(* load is taken over.                                                     *)
FailLoad(n) ==
  /\ loads[n] # None
  /\ straight' = FALSE
  /\ loading' = FALSE
  /\ loads' = [loads EXCEPT ![n] = None]
  /\ UNCHANGED <<page, query, totalPages, form, desk, shown, lastLoad>>

Arrives(n) == ShowLoad(n) \/ FailLoad(n)

(*** Posts *****************************************************************)

Send(s, kind, item, decision) ==
  /\ posts[s] = None
  /\ posts' = [posts EXCEPT ![s] = [kind |-> kind, item |-> item, decision |-> decision,
                                    live |-> TRUE, settled |-> "no"]]

Refuse(s) ==
  /\ posts[s] # None /\ posts[s].settled = "no"
  /\ posts' = [posts EXCEPT ![s].settled = "refused"]
  /\ UNCHANGED <<page, list, data, busy, desk>>

(* Mutant: the button of the form is not enabled again.                    *)
HearFailed_Busy(s) ==
  /\ posts[s] # None
  /\ posts' = [posts EXCEPT ![s] = None]
  /\ UNCHANGED <<page, list, data, busy, desk>>

(* An error, a lost answer, or ten seconds without one: an alert, and the  *)
(* form can be sent again.                                                 *)
HearFailed(s) ==
  /\ posts[s] # None
  /\ busy' = (busy /\ ~ (posts[s].live /\ posts[s].kind # "review"))
  /\ posts' = [posts EXCEPT ![s] = None]
  /\ UNCHANGED <<page, list, data, desk>>

Init ==
  /\ page = None /\ loading = FALSE
  /\ query = Start /\ totalPages = 0 /\ straight = TRUE
  /\ shown = None
  /\ loads = [n \in 1..MaxLoads |-> None] /\ lastLoad = 0
  /\ busy = FALSE
  /\ posts = [s \in Posts |-> None]
  /\ status = [i \in Items |-> "pending"]
  /\ done = {}
=============================================================================
