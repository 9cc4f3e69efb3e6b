---------------------------- MODULE PagesProofs -----------------------------
(***************************************************************************)
(* Proofs about Pages for every set of items, categories and posts, every  *)
(* number of pages and of loads.                                           *)
(***************************************************************************)
EXTENDS Pages, PagingProofs

(* Requests are numbered in the order in which they are sent.              *)
Numbered ==
  /\ \A n \in 1..MaxLoads : loads[n] # None => n <= lastLoad
  /\ shown # None => shown.load <= lastLoad
  /\ page = "projects" => lastLoad >= 1

(* A post that its page still awaits was sent by the page mounted now, and *)
(* a review that succeeded left its item decided.                          *)
Posted ==
  \A s \in Posts : posts[s] # None =>
    /\ posts[s].live =>
         /\ posts[s].kind = "review" => page = "admin"
         /\ posts[s].kind = "project" => page = "create-project"
         /\ posts[s].kind = "update" => page = "create-update"
    /\ posts[s].kind = "review" =>
         /\ posts[s].item \in Items
         /\ posts[s].settled = "done" => status[posts[s].item] # "pending"

(* When the pager is there its total is that of the chosen category.       *)
TotalsFit ==
  page = "projects" /\ straight /\ ~ loading => totalPages = PagesOf(query.category)

(* Announced decisions are decisions, and the latest load has none of them *)
(* among its pending items.                                                *)
Fresh ==
  /\ \A i \in done : status[i] # "pending"
  /\ \A n \in 1..MaxLoads :
       n = lastLoad /\ loads[n] # None => loads[n].items \cap done = {}

-----------------------------------------------------------------------------
(* Mounting a page, loading and posting *)

LEMMA ConstantTypes ==
  /\ MaxLoads \in Nat /\ Start \in Query
  /\ \A q \in Query : NewLoad(q) \in LoadCall /\ NewLoad(q) # None
  <1>1. MaxLoads \in Nat /\ Start \in Query
    BY ViewsAssumption DEF Start, Query
  <1>2. ASSUME NEW q \in Query PROVE NewLoad(q) \in LoadCall
    BY DEF NewLoad, LoadCall
  <1> QED
    BY <1>1, <1>2, NoneAssumption

(* The arithmetic of pages, for the categories and pages of the list.      *)
LEMMA PagesOfCategories ==
  ASSUME NEW category \in Categories
  PROVE  PagesOf(category) \in Nat
  BY ViewsAssumption, TotalPagesBounds DEF PagesOf

LEMMA PagesWithRows ==
  ASSUME NEW q \in Query
  PROVE  RowsOf(q) # {} <=> q.no <= PagesOf(q.category)
  <1>1. q.no \in Nat \ {0} /\ q.category \in Categories /\ NormalPage(q.no) = q.no
    BY DEF Query, NormalPage
  <1>2. Matches[q.category] \in Nat /\ Limit \in Nat \ {0}
    BY <1>1, ViewsAssumption
  <1> QED
    BY <1>1, <1>2, AnnouncedPagesHaveRows DEF PagesHaveRows, RowsOf, PagesOf

LEMMA ReloadTyping ==
  ASSUME TypeOK, NEW q \in Query, Reload(q)
  PROVE  /\ loads' \in [1..MaxLoads -> LoadCall \cup {None}] /\ lastLoad' \in 0..MaxLoads
         /\ lastLoad \in Nat /\ lastLoad' = lastLoad + 1 /\ lastLoad' \in 1..MaxLoads
         /\ loads'[lastLoad'] = NewLoad(q) /\ loads'[lastLoad'] # None
         /\ \A n \in 1..MaxLoads : n # lastLoad' => loads'[n] = loads[n]
  BY ConstantTypes DEF TypeOK, Reload

LEMMA ShowTyping ==
  ASSUME TypeOK, NEW name \in PageNames, NEW kept \in [Posts -> Post \cup {None}],
         Show(name, kept), status' = status
  PROVE  TypeOK'
  <1>1. /\ loads' \in [1..MaxLoads -> LoadCall \cup {None}] /\ lastLoad' \in 0..MaxLoads
    BY ConstantTypes DEF TypeOK, Show
  <1>2. posts' \in [Posts -> Post \cup {None}]
    BY DEF Show, Forget, Post
  <1> QED
    BY <1>1, <1>2, ConstantTypes DEF TypeOK, Show, Forget

LEMMA SendTyping ==
  ASSUME TypeOK, NEW s \in Posts, NEW kind \in {"review", "project", "update"},
         NEW item \in Items \cup {None}, NEW decision \in {"approved", "rejected"},
         Send(s, kind, item, decision)
  PROVE  /\ posts' \in [Posts -> Post \cup {None}]
         /\ posts[s] = None /\ posts'[s] # None
         /\ posts'[s].kind = kind /\ posts'[s].item = item /\ posts'[s].live
         /\ posts'[s].settled = "no"
         /\ \A r \in Posts : r # s => posts'[r] = posts[r]
  <1> DEFINE P == [kind |-> kind, item |-> item, decision |-> decision, live |-> TRUE,
                   settled |-> "no"]
  <1>1. P \in Post
    BY DEF Post
  <1>2. P # None /\ posts' = [posts EXCEPT ![s] = P] /\ posts[s] = None
    BY <1>1, NoneAssumption DEF Send
  <1>3. P.kind = kind /\ P.item = item /\ P.live /\ P.settled = "no"
    OBVIOUS
  <1> HIDE DEF P
  <1> QED
    BY <1>1, <1>2, <1>3 DEF TypeOK

(* What the server's answer to a post leaves as it was.                    *)
LEMMA SettleTyping ==
  ASSUME TypeOK, NEW s \in Posts, posts[s] # None, NEW word \in {"done", "refused"},
         posts' = [posts EXCEPT ![s].settled = word]
  PROVE  /\ posts' \in [Posts -> Post \cup {None}]
         /\ posts'[s] # None /\ posts'[s].kind = posts[s].kind /\ posts'[s].item = posts[s].item
         /\ posts'[s].live = posts[s].live /\ posts'[s].settled = word
         /\ \A r \in Posts : r # s => posts'[r] = posts[r]
  <1>1. posts[s] \in Post /\ [posts[s] EXCEPT !.settled = word] \in Post
    BY DEF TypeOK, Post
  <1>2. posts' = [posts EXCEPT ![s] = [posts[s] EXCEPT !.settled = word]]
    OBVIOUS
  <1>3. /\ [posts[s] EXCEPT !.settled = word].kind = posts[s].kind
        /\ [posts[s] EXCEPT !.settled = word].item = posts[s].item
        /\ [posts[s] EXCEPT !.settled = word].live = posts[s].live
        /\ [posts[s] EXCEPT !.settled = word].settled = word
    BY <1>1 DEF Post
  <1> QED
    BY <1>1, <1>2, <1>3, NoneAssumption DEF TypeOK

LEMMA ChooseCases ==
  ASSUME TypeOK, ListStep
  PROVE  \E q \in Query :
           /\ Choose(q)
           /\ \/ q.no = 1
              \/ q.category = query.category /\ q.no <= query.no /\ PagerIsShown
              \/ q.category = query.category /\ q.no <= totalPages /\ PagerIsShown
  <1>1. query.no \in Nat \ {0} /\ query.category \in Categories /\ totalPages \in Nat
    BY DEF TypeOK, Query
  <1>2. ASSUME NEW category \in Categories, PickCategory(category)
        PROVE  \E q \in Query : Choose(q) /\ q.no = 1
    BY <1>2 DEF PickCategory, FirstPageOf, Query
  <1>3. ASSUME NEW no \in Nat \ {0}, Turn(no)
        PROVE  \E q \in Query : /\ Choose(q) /\ q.category = query.category /\ q.no = no
                                /\ PagerIsShown
    <2>1. [query EXCEPT !.no = no] \in Query
      BY <1>1 DEF TypeOK, Query
    <2>2. /\ [query EXCEPT !.no = no].category = query.category
          /\ [query EXCEPT !.no = no].no = no
      BY DEF TypeOK, Query
    <2> QED
      BY <1>3, <2>1, <2>2 DEF Turn
  <1>4. CASE PreviousPage
    <2>1. PICK no \in Nat \ {0} : Turn(no) /\ no <= query.no
      BY <1>1, <1>4 DEF PreviousPage
    <2> QED
      BY <1>1, <1>3, <2>1
  <1>5. CASE NextPage
    <2>1. totalPages > 1
      BY <1>5 DEF NextPage, Turn, PagerIsShown
    <2>2. NextNo \in Nat \ {0} /\ NextNo <= totalPages
      BY <1>1, <2>1 DEF NextNo
    <2>3. PICK no \in Nat \ {0} : Turn(no) /\ no <= totalPages
      BY <1>5, <2>2 DEF NextPage
    <2> QED
      BY <1>1, <1>3, <2>3
  <1>6. ASSUME NEW no \in 1..totalPages, PickPage(no)
        PROVE  \E q \in Query : /\ Choose(q) /\ q.category = query.category
                                /\ q.no <= totalPages /\ PagerIsShown
    <2>1. no \in Nat \ {0} /\ no <= totalPages /\ Turn(no)
      BY <1>1, <1>6 DEF PickPage
    <2> QED
      BY <1>1, <1>3, <2>1
  <1> QED
    BY <1>2, <1>4, <1>5, <1>6 DEF ListStep

-----------------------------------------------------------------------------
(* Type correctness *)

LEMMA InitTyping == Init => TypeOK
  <1> SUFFICES ASSUME Init PROVE TypeOK
    OBVIOUS
  <1>1. /\ loads \in [1..MaxLoads -> LoadCall \cup {None}] /\ lastLoad \in 0..MaxLoads
        /\ posts \in [Posts -> Post \cup {None}]
        /\ status \in [Items -> {"pending", "approved", "rejected"}]
    BY ConstantTypes DEF Init
  <1> QED
    BY <1>1, ConstantTypes DEF Init, TypeOK

LEMMA KeptTyping ==
  ASSUME TypeOK, NEW s \in Posts
  PROVE  [posts EXCEPT ![s] = None] \in [Posts -> Post \cup {None}]
  BY DEF TypeOK

LEMMA StepTyping ==
  ASSUME TypeOK, Posted, [Next]_vars
  PROVE  TypeOK'
  <1>1. ASSUME NEW name \in PageNames, Mount(name) PROVE TypeOK'
    <2>1. posts \in [Posts -> Post \cup {None}]
      BY DEF TypeOK
    <2> QED
      BY <1>1, <2>1, ShowTyping DEF Mount
  <1>2. CASE Leave
    <2>1. posts' \in [Posts -> Post \cup {None}]
      BY <1>2 DEF TypeOK, Leave, Forget, Post
    <2> QED
      BY <1>2, <2>1, ConstantTypes DEF TypeOK, Leave, Forget
  <1>3. CASE UserRefreshed
    BY <1>3, ReloadTyping, ConstantTypes DEF TypeOK, UserRefreshed, list, form, desk
  <1>4. ASSUME NEW n \in 1..MaxLoads, NEW part \in Parts, ServePart(n, part) PROVE TypeOK'
    <2> DEFINE I == IF page = "admin" THEN {i \in Pending : Kind[i] = part} ELSE {}
    <2>1. loads[n] \in LoadCall /\ I \subseteq Items
      BY <1>4 DEF TypeOK, ServePart, Pending
    <2>2. [loads[n] EXCEPT !.answered = @ \cup {part}, !.items = @ \cup I] \in LoadCall
      BY <2>1 DEF LoadCall
    <2>3. loads' \in [1..MaxLoads -> LoadCall \cup {None}]
      BY <1>4, <2>2 DEF TypeOK, ServePart
    <2> QED
      BY <1>4, <2>3 DEF TypeOK, ServePart, list, form, desk
  <1>5. ASSUME NEW n \in 1..MaxLoads, ShowLoad(n) PROVE TypeOK'
    <2>1. loads[n] \in LoadCall
      BY <1>5 DEF TypeOK, ShowLoad
    <2>2. shown' \in View /\ PagesOf(loads[n].query.category) \in Nat
      BY <1>5, <2>1, PagesOfCategories DEF ShowLoad, View, LoadCall, Query
    <2> QED
      BY <1>5, <2>2 DEF TypeOK, ShowLoad, form, desk
  <1>6. ASSUME NEW n \in 1..MaxLoads, FailLoad(n) PROVE TypeOK'
    BY <1>6 DEF TypeOK, FailLoad, form, desk
  <1>7. CASE ListStep
    <2>1. PICK q \in Query : Choose(q)
      BY <1>7, ChooseCases
    <2> QED
      BY <2>1, ReloadTyping DEF TypeOK, Choose, form, desk
  <1>8. ASSUME NEW s \in Posts, NEW item \in Items, NEW decision \in {"approved", "rejected"},
               Review(s, item, decision)
        PROVE  TypeOK'
    BY <1>8, SendTyping DEF TypeOK, Review, list, data, desk
  <1>9. ASSUME NEW s \in Posts, Decide(s) PROVE TypeOK'
    <2>1. posts[s] \in Post
      BY <1>9 DEF TypeOK, Decide
    <2>2. posts[s].decision \in {"approved", "rejected"}
      BY <2>1 DEF Post
    <2> QED
      BY <1>9, <2>2, SettleTyping DEF TypeOK, Decide, list, data
  <1>10. ASSUME NEW item \in Items, NEW decision \in {"approved", "rejected"},
                DecidedElsewhere(item, decision)
         PROVE  TypeOK'
    BY <1>10 DEF TypeOK, DecidedElsewhere, list, data, form
  <1>11. ASSUME NEW s \in Posts, SubmitProject(s) \/ SubmitUpdate(s) PROVE TypeOK'
    <2>1. PICK kind \in {"project", "update"} : Submit(s, kind)
      BY <1>11 DEF SubmitProject, SubmitUpdate
    <2> QED
      BY <2>1, SendTyping DEF TypeOK, Submit, list, data, desk
  <1>12. ASSUME NEW s \in Posts, Publish(s) \/ Refuse(s) PROVE TypeOK'
    BY <1>12, SettleTyping DEF TypeOK, Publish, Refuse, list, data, desk
  <1>13. ASSUME NEW s \in Posts, HearDecided(s) PROVE TypeOK'
    <2>1. posts[s].item \in Items
      BY <1>13 DEF HearDecided, Posted
    <2> QED
      BY <1>13, <2>1, KeptTyping, ReloadTyping, ConstantTypes DEF TypeOK, HearDecided, list
  <1>14. ASSUME NEW s \in Posts, HearPublished(s) PROVE TypeOK'
    <2> DEFINE rest == [posts EXCEPT ![s] = None]
    <2>0. rest \in [Posts -> Post \cup {None}] /\ "projects" \in PageNames
      BY KeptTyping DEF PageNames
    <2>1. CASE page = "projects"
      BY <1>14, <2>0, <2>1 DEF TypeOK, HearPublished, list, data
    <2>2. CASE page # "projects"
      <3>1. Show("projects", rest) /\ status' = status
        BY <1>14, <2>2 DEF HearPublished
      <3> HIDE DEF rest
      <3> QED
        BY <2>0, <3>1, ShowTyping
    <2> QED
      BY <2>1, <2>2
  <1>15. ASSUME NEW s \in Posts, HearFailed(s) PROVE TypeOK'
    <2>1. busy' \in BOOLEAN
      BY <1>15, Zenon DEF HearFailed
    <2> QED
      BY <1>15, <2>1, KeptTyping DEF TypeOK, HearFailed, list, data, desk
  <1>16. CASE UNCHANGED vars
    BY <1>16 DEF TypeOK, vars, list, form, desk, data
  <1> QED
    BY <1>1, <1>2, <1>3, <1>4, <1>5, <1>6, <1>7, <1>8, <1>9, <1>10, <1>11, <1>12, <1>13,
       <1>14, <1>15, <1>16
    DEF Next, LoadStep, Arrives, DeskStep, FormStep, Heard

-----------------------------------------------------------------------------
(* The numbering of loads, and the spinner *)

LEMMA StepNumbered ==
  ASSUME TypeOK, Posted, Numbered, SpinnerIsJustified, [Next]_vars
  PROVE  Numbered' /\ SpinnerIsJustified'
  <1>1. lastLoad \in Nat /\ (shown # None => shown.load \in Nat)
    BY DEF TypeOK, View
  <1>2. CASE UNCHANGED <<page, loading, shown, loads, lastLoad>>
    BY <1>2 DEF Numbered, SpinnerIsJustified
  <1>3. ASSUME NEW q \in Query, Reload(q), UNCHANGED <<page, shown>>
        PROVE  Numbered' /\ SpinnerIsJustified'
    BY <1>1, <1>3, ReloadTyping DEF Numbered, SpinnerIsJustified
  <1>4. ASSUME NEW name \in PageNames, NEW kept, Show(name, kept)
        PROVE  Numbered' /\ SpinnerIsJustified'
    <2>1. PartsOf("projects") # {}
      BY DEF PartsOf, ListParts
    <2>2. CASE PartsOf(name) = {}
      BY <1>4, <2>1, <2>2 DEF Show, Forget, Numbered, SpinnerIsJustified
    <2>3. CASE PartsOf(name) # {}
      <3>1. /\ lastLoad < MaxLoads /\ lastLoad' = lastLoad + 1 /\ shown' = None
            /\ loads' = [n \in 1..MaxLoads |-> IF n = lastLoad + 1 THEN NewLoad(Start) ELSE None]
        BY <1>4, <2>3 DEF Show, Forget
      <3>2. lastLoad' \in 1..MaxLoads /\ loads'[lastLoad'] # None
        BY <1>1, <3>1, ConstantTypes
      <3>3. \A n \in 1..MaxLoads : loads'[n] # None => n = lastLoad'
        BY <3>1
      <3> QED
        BY <3>1, <3>2, <3>3 DEF Numbered, SpinnerIsJustified
    <2> QED
      BY <2>2, <2>3
  <1>5. CASE Leave
    BY <1>5, NoneAssumption DEF Leave, Forget, Numbered, SpinnerIsJustified, PageNames
  <1>6. ASSUME NEW n \in 1..MaxLoads, NEW part \in Parts, ServePart(n, part)
        PROVE  Numbered' /\ SpinnerIsJustified'
    <2> DEFINE I == IF page = "admin" THEN {i \in Pending : Kind[i] = part} ELSE {}
    <2>1. loads[n] \in LoadCall /\ I \subseteq Items
      BY <1>6 DEF TypeOK, ServePart, Pending
    <2>2. [loads[n] EXCEPT !.answered = @ \cup {part}, !.items = @ \cup I] \in LoadCall
      BY <2>1 DEF LoadCall
    <2>3. /\ loads' = [loads EXCEPT ![n] = loads'[n]] /\ loads'[n] # None
          /\ UNCHANGED <<page, loading, shown, lastLoad>> /\ loads[n] # None
      BY <1>6, <2>2, NoneAssumption DEF TypeOK, ServePart
    <2> QED
      BY <2>3 DEF TypeOK, Numbered, SpinnerIsJustified
  <1>7. ASSUME NEW n \in 1..MaxLoads, ShowLoad(n) PROVE Numbered' /\ SpinnerIsJustified'
    BY <1>7 DEF TypeOK, ShowLoad, Numbered, SpinnerIsJustified
  <1>8. ASSUME NEW n \in 1..MaxLoads, FailLoad(n) PROVE Numbered' /\ SpinnerIsJustified'
    BY <1>8 DEF TypeOK, FailLoad, Numbered, SpinnerIsJustified
  <1>9. CASE ListStep
    BY <1>2, <1>3, <1>9, ChooseCases DEF Choose, Numbered, SpinnerIsJustified
  <1>10. ASSUME NEW s \in Posts, HearDecided(s) PROVE Numbered' /\ SpinnerIsJustified'
    BY <1>2, <1>3, <1>10, ConstantTypes DEF HearDecided
  <1>11. ASSUME NEW s \in Posts, HearPublished(s) PROVE Numbered' /\ SpinnerIsJustified'
    BY <1>2, <1>4, <1>11 DEF HearPublished, PageNames, data
  <1>12. CASE UserRefreshed
    BY <1>3, <1>12, ConstantTypes DEF UserRefreshed
  <1>13. CASE \E name \in PageNames : Mount(name)
    BY <1>4, <1>13 DEF Mount
  <1>14. CASE \/ DeskStep \/ FormStep \/ UNCHANGED vars
              \/ \E s \in Posts : Refuse(s) \/ HearFailed(s)
    BY <1>2, <1>14 DEF DeskStep, FormStep, DecidedElsewhere, Review, Decide, SubmitProject,
      SubmitUpdate, Submit, Publish, Refuse, HearFailed, vars, data
  <1> QED
    BY <1>5, <1>6, <1>7, <1>8, <1>9, <1>10, <1>11, <1>12, <1>13, <1>14
    DEF Next, LoadStep, Arrives, Heard

-----------------------------------------------------------------------------
(* Posts, and the forms that await them *)

LEMMA PostedUnchanged ==
  ASSUME Posted, FormWaits, UNCHANGED <<page, posts, busy, status>>
  PROVE  Posted' /\ FormWaits'
  BY DEF Posted, FormWaits, Awaited

LEMMA ForgetPosted ==
  ASSUME TypeOK, Posted, NEW kept \in [Posts -> Post \cup {None}],
         \A s \in Posts : kept[s] # None => kept[s] = posts[s],
         Forget(kept), status' = status
  PROVE  Posted' /\ FormWaits'
  <1>1. ASSUME NEW s \in Posts, posts'[s] # None
        PROVE  /\ posts'[s].live = FALSE /\ posts[s] # None
               /\ posts'[s].kind = posts[s].kind /\ posts'[s].item = posts[s].item
               /\ posts'[s].settled = posts[s].settled
    <2>1. kept[s] # None /\ posts'[s] = [kept[s] EXCEPT !.live = FALSE]
      BY <1>1 DEF Forget
    <2>2. kept[s] \in Post /\ kept[s] = posts[s]
      BY <2>1
    <2> QED
      BY <2>1, <2>2 DEF Post
  <1>2. Posted'
    BY <1>1 DEF Posted
  <1>3. Awaited' = {} /\ busy' = FALSE
    BY <1>1 DEF Awaited, Forget
  <1> QED
    BY <1>2, <1>3 DEF FormWaits

LEMMA StepPosted ==
  ASSUME TypeOK, Posted, FormWaits, [Next]_vars
  PROVE  Posted' /\ FormWaits'
  <1>1. ASSUME NEW name, NEW s \in Posts,
               Show(name, posts) \/ Show(name, [posts EXCEPT ![s] = None]), status' = status
        PROVE  Posted' /\ FormWaits'
    <2>1. posts \in [Posts -> Post \cup {None}]
      BY DEF TypeOK
    <2>2. \A r \in Posts : [posts EXCEPT ![s] = None][r] # None
                             => [posts EXCEPT ![s] = None][r] = posts[r]
      BY <2>1
    <2> QED
      BY <1>1, <2>1, <2>2, KeptTyping, ForgetPosted DEF Show
  <1>2. ASSUME NEW s \in Posts, posts' = [posts EXCEPT ![s] = None],
               UNCHANGED <<page, status>>, busy' = (busy /\ s \notin Awaited)
        PROVE  Posted' /\ FormWaits'
    <2>1. Awaited' = Awaited \ {s}
      BY <1>2 DEF TypeOK, Awaited
    <2>2. Posted'
      BY <1>2 DEF TypeOK, Posted
    <2>3. CASE s \in Awaited
      <3>1. Awaited' = {} /\ busy' = FALSE
        BY <1>2, <2>1, <2>3 DEF FormWaits
      <3> QED
        BY <2>2, <3>1 DEF FormWaits
    <2>4. CASE s \notin Awaited
      <3>1. Awaited' = Awaited /\ busy' = busy
        BY <1>2, <2>1, <2>4 DEF TypeOK
      <3> QED
        BY <2>2, <3>1 DEF FormWaits
    <2> QED
      BY <2>3, <2>4
  <1>3. ASSUME NEW s \in Posts, NEW item \in Items, NEW decision \in {"approved", "rejected"},
               Review(s, item, decision)
        PROVE  Posted' /\ FormWaits'
    <2>1. Send(s, "review", item, decision) /\ page = "admin" /\ UNCHANGED <<page, busy, status>>
      BY <1>3 DEF Review, Offered, desk
    <2>2. /\ posts[s] = None /\ posts'[s].kind = "review" /\ posts'[s].item = item
          /\ posts'[s].settled = "no"
          /\ \A r \in Posts : r # s => posts'[r] = posts[r]
      BY <2>1, SendTyping
    <2>3. Posted'
      BY <2>1, <2>2 DEF Posted
    <2>4. Awaited' = Awaited
      BY <2>2 DEF Awaited
    <2> QED
      BY <2>1, <2>3, <2>4 DEF FormWaits
  <1>4. ASSUME NEW s \in Posts, NEW kind \in {"project", "update"}, Submit(s, kind),
               page = (IF kind = "project" THEN "create-project" ELSE "create-update")
        PROVE  Posted' /\ FormWaits'
    <2>1. Send(s, kind, None, "approved") /\ UNCHANGED <<page, status>>
          /\ ~ busy /\ busy' = TRUE
      BY <1>4 DEF Submit, desk
    <2>2. /\ posts[s] = None /\ posts'[s].kind = kind /\ posts'[s].live /\ posts'[s] # None
          /\ \A r \in Posts : r # s => posts'[r] = posts[r]
      BY <2>1, SendTyping
    <2>3. Posted'
      BY <1>4, <2>1, <2>2 DEF Posted
    <2>4. Awaited' = {s}
      BY <2>1, <2>2 DEF Awaited, FormWaits
    <2> QED
      BY <2>1, <2>3, <2>4 DEF FormWaits
  <1>5. ASSUME NEW s \in Posts, NEW word \in {"done", "refused"}, posts[s] # None,
               posts' = [posts EXCEPT ![s].settled = word],
               UNCHANGED <<page, busy>>,
               \A i \in Items : status[i] # "pending" => status'[i] # "pending",
               posts[s].kind = "review" /\ word = "done" => status'[posts[s].item] # "pending"
        PROVE  Posted' /\ FormWaits'
    <2>1. /\ posts'[s] # None /\ posts'[s].kind = posts[s].kind
          /\ posts'[s].item = posts[s].item
          /\ posts'[s].live = posts[s].live /\ posts'[s].settled = word
          /\ \A r \in Posts : r # s => posts'[r] = posts[r]
      BY <1>5, SettleTyping
    <2>2. Posted'
      BY <1>5, <2>1 DEF Posted
    <2>3. Awaited' = Awaited
      BY <1>5, <2>1 DEF Awaited
    <2> QED
      BY <1>5, <2>2, <2>3 DEF FormWaits
  <1>6. ASSUME NEW s \in Posts, Decide(s) PROVE Posted' /\ FormWaits'
    <2>1. posts[s].item \in Items /\ posts[s].decision \in {"approved", "rejected"}
      BY <1>6 DEF TypeOK, Decide, Posted, Post
    <2>2. /\ \A i \in Items : status[i] # "pending" => status'[i] # "pending"
          /\ status'[posts[s].item] # "pending"
      BY <1>6, <2>1 DEF TypeOK, Decide
    <2> QED
      BY <1>5, <1>6, <2>2 DEF Decide
  <1>7. ASSUME NEW item \in Items, NEW decision \in {"approved", "rejected"},
               DecidedElsewhere(item, decision)
        PROVE  Posted' /\ FormWaits'
    <2>1. /\ \A i \in Items : status[i] # "pending" => status'[i] # "pending"
          /\ UNCHANGED <<page, posts, busy>>
      BY <1>7 DEF TypeOK, DecidedElsewhere, form
    <2> QED
      BY <2>1 DEF Posted, FormWaits, Awaited
  <1>8. ASSUME NEW s \in Posts, Publish(s) \/ Refuse(s) PROVE Posted' /\ FormWaits'
    <2>1. \/ posts' = [posts EXCEPT ![s].settled = "done"] /\ posts[s].kind = "project"
          \/ posts' = [posts EXCEPT ![s].settled = "refused"]
      BY <1>8 DEF Publish, Refuse
    <2>2. posts[s] # None /\ UNCHANGED <<page, busy, status>>
      BY <1>8 DEF Publish, Refuse, desk
    <2> QED
      BY <1>5, <2>1, <2>2
  <1>9. ASSUME NEW s \in Posts, HearDecided(s) PROVE Posted' /\ FormWaits'
    BY <1>2, <1>9 DEF TypeOK, HearDecided, Awaited
  <1>10. ASSUME NEW s \in Posts, HearPublished(s) PROVE Posted' /\ FormWaits'
    BY <1>1, <1>2, <1>10 DEF TypeOK, HearPublished, Posted, Awaited
  <1>11. ASSUME NEW s \in Posts, HearFailed(s) PROVE Posted' /\ FormWaits'
    BY <1>2, <1>11 DEF TypeOK, HearFailed, Awaited, desk
  <1>12. ASSUME NEW name \in PageNames, Mount(name) PROVE Posted' /\ FormWaits'
    <2>1. Forget(posts) /\ status' = status
      BY <1>12 DEF Mount, Show
    <2> QED
      BY <2>1, ForgetPosted DEF TypeOK
  <1>13. CASE Leave
    BY <1>13, ForgetPosted DEF TypeOK, Leave
  <1>14. CASE UserRefreshed \/ ListStep \/ UNCHANGED vars
              \/ \E n \in 1..MaxLoads : Arrives(n) \/ \E part \in Parts : ServePart(n, part)
    BY <1>14, ChooseCases, PostedUnchanged DEF UserRefreshed, Choose, Arrives, ShowLoad,
      FailLoad, ServePart, vars, form, desk
  <1> QED
    BY <1>3, <1>4, <1>6, <1>7, <1>8, <1>9, <1>10, <1>11, <1>12, <1>13, <1>14
    DEF Next, LoadStep, DeskStep, FormStep, SubmitProject, SubmitUpdate, Heard

-----------------------------------------------------------------------------
(* The list and its pager *)

LEMMA StepTotals ==
  ASSUME TypeOK, Posted, TotalsFit, PageExists, [Next]_vars
  PROVE  TotalsFit' /\ PageExists'
  <1>1. CASE UNCHANGED <<page, query, totalPages, straight, loading>>
    BY <1>1 DEF TotalsFit, PageExists
  <1>2. ASSUME NEW name \in PageNames, NEW kept, Show(name, kept)
        PROVE  TotalsFit' /\ PageExists'
    <2>1. page' = name /\ query' = Start /\ loading' = (PartsOf(name) # {})
      BY <1>2 DEF Show, Forget
    <2>2. PartsOf("projects") # {}
      BY DEF PartsOf, ListParts
    <2> QED
      BY <2>1, <2>2 DEF TotalsFit, PageExists, Start
  <1>3. CASE Leave
    BY <1>3, NoneAssumption DEF Leave, TotalsFit, PageExists, PageNames
  <1>4. CASE ListStep
    <2>1. PICK q \in Query :
            /\ Choose(q)
            /\ \/ q.no = 1
               \/ q.category = query.category /\ q.no <= query.no /\ PagerIsShown
               \/ q.category = query.category /\ q.no <= totalPages /\ PagerIsShown
      BY <1>4, ChooseCases
    <2>2. CASE q = query
      BY <1>1, <2>1, <2>2 DEF Choose
    <2>3. CASE q # query
      <3>1. page = "projects" /\ query' = q /\ loading' = TRUE
            /\ UNCHANGED <<page, totalPages, straight>>
        BY <2>1, <2>3 DEF Choose
      <3>2. /\ q.no \in Nat \ {0} /\ query.no \in Nat \ {0} /\ totalPages \in Nat
            /\ PagesOf(query.category) \in Nat
        BY PagesOfCategories DEF TypeOK, Query
      <3>3. straight => q.no = 1 \/ RowsOf(q) # {}
        BY <2>1, <3>1, <3>2, PagesWithRows DEF PageExists, TotalsFit, PagerIsShown, TypeOK, Query
      <3> QED
        BY <3>1, <3>3 DEF TotalsFit, PageExists
    <2> QED
      BY <2>2, <2>3
  <1>5. ASSUME NEW n \in 1..MaxLoads, ShowLoad(n) PROVE TotalsFit' /\ PageExists'
    BY <1>5 DEF ShowLoad, TotalsFit, PageExists
  <1>6. ASSUME NEW n \in 1..MaxLoads, FailLoad(n) PROVE TotalsFit' /\ PageExists'
    BY <1>6 DEF FailLoad, TotalsFit, PageExists
  <1>7. ASSUME NEW s \in Posts, HearPublished(s) PROVE TotalsFit' /\ PageExists'
    BY <1>1, <1>2, <1>7 DEF HearPublished, PageNames, list, data
  <1>8. CASE \E name \in PageNames : Mount(name)
    BY <1>2, <1>8 DEF Mount
  <1>9. CASE \/ UserRefreshed \/ DeskStep \/ FormStep \/ UNCHANGED vars
             \/ \E s \in Posts : Refuse(s) \/ HearDecided(s) \/ HearFailed(s)
             \/ \E n \in 1..MaxLoads, part \in Parts : ServePart(n, part)
    BY <1>1, <1>9 DEF UserRefreshed, DeskStep, FormStep, DecidedElsewhere, Review, Decide,
      SubmitProject, SubmitUpdate, Submit, Publish, Refuse, HearDecided, HearFailed, ServePart,
      vars, list, data
  <1> QED
    BY <1>3, <1>4, <1>5, <1>6, <1>7, <1>8, <1>9 DEF Next, LoadStep, Arrives, Heard

LEMMA StepListChosen ==
  ASSUME TypeOK, Posted, Numbered, ListIsTheOneChosen, [Next]_vars
  PROVE  ListIsTheOneChosen'
  <1>1. /\ lastLoad \in Nat /\ lastLoad <= MaxLoads /\ MaxLoads \in Nat
        /\ page = "projects" => lastLoad \in 1..MaxLoads
        /\ shown # None => shown.load \in Nat /\ shown.load <= lastLoad
    BY ViewsAssumption DEF TypeOK, Numbered, View
  <1>2. CASE UNCHANGED <<page, query, shown, loads, lastLoad>>
    BY <1>2 DEF ListIsTheOneChosen
  <1>3. ASSUME page' # "projects" PROVE ListIsTheOneChosen'
    BY <1>3 DEF ListIsTheOneChosen
  <1>4. ASSUME NEW q \in Query, Reload(q), shown' = shown, query' = q
        PROVE  ListIsTheOneChosen'
    <2>1. lastLoad' = lastLoad + 1 /\ loads'[lastLoad'] = NewLoad(q)
      BY <1>4, ReloadTyping
    <2>2. NewLoad(q).query = q
      BY DEF NewLoad
    <2>3. shown' # None => shown'.load # lastLoad'
      BY <1>1, <1>4, <2>1
    <2> QED
      BY <1>4, <2>1, <2>2, <2>3 DEF ListIsTheOneChosen
  <1>5. ASSUME NEW name \in PageNames, NEW kept, Show(name, kept)
        PROVE  ListIsTheOneChosen'
    <2>1. CASE name = "projects"
      <3>1. PartsOf(name) # {}
        BY <2>1 DEF PartsOf, ListParts
      <3>2. /\ lastLoad < MaxLoads /\ lastLoad' = lastLoad + 1
            /\ loads' = [n \in 1..MaxLoads |-> IF n = lastLoad + 1 THEN NewLoad(Start) ELSE None]
            /\ shown' = None /\ query' = Start
        BY <1>5, <3>1 DEF Show, Forget
      <3>3. loads'[lastLoad'] = NewLoad(Start) /\ NewLoad(Start).query = Start
        BY <1>1, <3>2 DEF NewLoad
      <3> QED
        BY <3>2, <3>3 DEF ListIsTheOneChosen
    <2>2. CASE name # "projects"
      BY <1>3, <1>5, <2>2 DEF Show
    <2> QED
      BY <2>1, <2>2
  <1>6. CASE Leave
    BY <1>3, <1>6, NoneAssumption DEF Leave, PageNames
  <1>7. CASE ListStep
    <2>1. PICK q \in Query : Choose(q)
      BY <1>7, ChooseCases
    <2> QED
      BY <1>2, <1>4, <2>1 DEF Choose
  <1>8. ASSUME NEW n \in 1..MaxLoads, NEW part \in Parts, ServePart(n, part)
        PROVE  ListIsTheOneChosen'
    <2> DEFINE I == IF page = "admin" THEN {i \in Pending : Kind[i] = part} ELSE {}
    <2>1. loads[n] \in LoadCall
      BY <1>8 DEF TypeOK, ServePart
    <2>2. loads' = [loads EXCEPT ![n] = [loads[n] EXCEPT !.answered = @ \cup {part},
                                                         !.items = @ \cup I]]
      BY <1>8 DEF ServePart
    <2>3. [loads[n] EXCEPT !.answered = @ \cup {part}, !.items = @ \cup I].query
            = loads[n].query
      BY <2>1 DEF LoadCall
    <2>4. /\ loads'[n].query = loads[n].query
          /\ \A m \in 1..MaxLoads : m # n => loads'[m] = loads[m]
      BY <2>2, <2>3 DEF TypeOK
    <2>5. loads[n] # None /\ UNCHANGED <<page, query, shown, lastLoad>>
      BY <1>8 DEF ServePart, list
    <2> QED
      BY <1>1, <2>4, <2>5 DEF ListIsTheOneChosen
  <1>9. ASSUME NEW n \in 1..MaxLoads, ShowLoad(n) PROVE ListIsTheOneChosen'
    BY <1>1, <1>9 DEF TypeOK, ShowLoad, ListIsTheOneChosen
  <1>10. ASSUME NEW n \in 1..MaxLoads, FailLoad(n) PROVE ListIsTheOneChosen'
    BY <1>1, <1>10 DEF TypeOK, FailLoad, ListIsTheOneChosen
  <1>11. ASSUME NEW s \in Posts, HearDecided(s) PROVE ListIsTheOneChosen'
    <2>1. posts[s].live => page' # "projects"
      BY <1>11 DEF HearDecided, Posted
    <2>2. ~ posts[s].live => UNCHANGED <<page, query, shown, loads, lastLoad>>
      BY <1>11 DEF HearDecided, list
    <2> QED
      BY <1>2, <1>3, <2>1, <2>2
  <1>12. ASSUME NEW s \in Posts, HearPublished(s) PROVE ListIsTheOneChosen'
    BY <1>2, <1>5, <1>12 DEF HearPublished, PageNames, list, data
  <1>13. CASE UserRefreshed
    BY <1>3, <1>13 DEF UserRefreshed
  <1>14. CASE \E name \in PageNames : Mount(name)
    BY <1>5, <1>14 DEF Mount
  <1>15. CASE \/ DeskStep \/ FormStep \/ UNCHANGED vars
              \/ \E s \in Posts : Refuse(s) \/ HearFailed(s)
    BY <1>2, <1>15 DEF DeskStep, FormStep, DecidedElsewhere, Review, Decide, SubmitProject,
      SubmitUpdate, Submit, Publish, Refuse, HearFailed, vars, list, data
  <1> QED
    BY <1>6, <1>7, <1>8, <1>9, <1>10, <1>11, <1>12, <1>13, <1>14, <1>15
    DEF Next, LoadStep, Arrives, Heard

-----------------------------------------------------------------------------
(* Announced decisions *)

LEMMA StepFresh ==
  ASSUME TypeOK, Posted, Numbered, Fresh, DecidedIsNotOffered, [Next]_vars
  PROVE  Fresh' /\ DecidedIsNotOffered'
  <1>1. /\ lastLoad \in Nat /\ lastLoad <= MaxLoads /\ MaxLoads \in Nat
        /\ shown # None => shown.load \in Nat /\ shown.load <= lastLoad
    BY ViewsAssumption DEF TypeOK, Numbered, View
  <1>2. ASSUME UNCHANGED <<page, shown, loads, lastLoad, done>>,
               \A i \in done : status'[i] # "pending"
        PROVE  Fresh' /\ DecidedIsNotOffered'
    BY <1>2 DEF Fresh, DecidedIsNotOffered
  <1>3. ASSUME NEW q \in Query, Reload(q), UNCHANGED <<shown, status>>,
               \A i \in done' : status[i] # "pending"
        PROVE  Fresh' /\ DecidedIsNotOffered'
    <2>1. lastLoad' = lastLoad + 1 /\ loads'[lastLoad'] = NewLoad(q)
      BY <1>3, ReloadTyping
    <2>2. NewLoad(q).items = {}
      BY DEF NewLoad
    <2>3. shown' # None => shown'.load # lastLoad'
      BY <1>1, <1>3, <2>1
    <2> QED
      BY <1>3, <2>1, <2>2, <2>3 DEF Fresh, DecidedIsNotOffered
  <1>4. ASSUME shown' = None, done' = {} PROVE Fresh' /\ DecidedIsNotOffered'
    BY <1>4 DEF Fresh, DecidedIsNotOffered
  <1>5. ASSUME NEW n \in 1..MaxLoads, NEW part \in Parts, ServePart(n, part)
        PROVE  Fresh' /\ DecidedIsNotOffered'
    <2> DEFINE I == IF page = "admin" THEN {i \in Pending : Kind[i] = part} ELSE {}
    <2>1. loads[n] \in LoadCall /\ loads[n] # None
      BY <1>5 DEF TypeOK, ServePart
    <2>2. loads' = [loads EXCEPT ![n] = [loads[n] EXCEPT !.answered = @ \cup {part},
                                                         !.items = @ \cup I]]
      BY <1>5 DEF ServePart
    <2>3. [loads[n] EXCEPT !.answered = @ \cup {part}, !.items = @ \cup I].items
            = loads[n].items \cup I
      BY <2>1 DEF LoadCall
    <2>4. I \cap done = {}
      BY DEF Pending, Fresh
    <2>5. /\ loads'[n].items = loads[n].items \cup I
          /\ \A m \in 1..MaxLoads : m # n => loads'[m] = loads[m]
      BY <2>2, <2>3 DEF TypeOK
    <2>6. UNCHANGED <<page, shown, lastLoad, done, status>>
      BY <1>5 DEF ServePart, desk
    <2> HIDE DEF I
    <2>7. \A m \in 1..MaxLoads : m = lastLoad /\ loads'[m] # None
                                   => loads'[m].items \cap done = {}
      BY <2>1, <2>4, <2>5 DEF Fresh
    <2> QED
      BY <2>6, <2>7 DEF Fresh, DecidedIsNotOffered
  <1>6. ASSUME NEW n \in 1..MaxLoads, ShowLoad(n) PROVE Fresh' /\ DecidedIsNotOffered'
    <2>1. /\ shown'.load = n /\ shown'.items = loads[n].items /\ loads[n] # None
          /\ loads' = [loads EXCEPT ![n] = None]
          /\ UNCHANGED <<page, lastLoad, status, done>>
      BY <1>6 DEF ShowLoad, desk
    <2>2. \A m \in 1..MaxLoads : loads'[m] # None => loads'[m] = loads[m]
      BY <2>1 DEF TypeOK
    <2> QED
      BY <2>1, <2>2 DEF Fresh, DecidedIsNotOffered
  <1>7. ASSUME NEW n \in 1..MaxLoads, FailLoad(n) PROVE Fresh' /\ DecidedIsNotOffered'
    <2>1. \A m \in 1..MaxLoads : loads'[m] # None => loads'[m] = loads[m]
      BY <1>7 DEF TypeOK, FailLoad
    <2> QED
      BY <1>7, <2>1 DEF FailLoad, desk, Fresh, DecidedIsNotOffered
  <1>8. CASE ListStep
    <2>1. PICK q \in Query : Choose(q)
      BY <1>8, ChooseCases
    <2> QED
      BY <1>2, <1>3, <2>1 DEF Choose, desk, Fresh
  <1>9. ASSUME NEW s \in Posts, Decide(s) PROVE Fresh' /\ DecidedIsNotOffered'
    <2>1. posts[s].decision \in {"approved", "rejected"}
      BY <1>9 DEF TypeOK, Decide, Post
    <2>2. \A i \in done : status'[i] # "pending"
      BY <1>9, <2>1 DEF TypeOK, Decide, Fresh
    <2> QED
      BY <1>2, <1>9, <2>2 DEF Decide, data
  <1>10. ASSUME NEW item \in Items, NEW decision \in {"approved", "rejected"},
                DecidedElsewhere(item, decision)
         PROVE  Fresh' /\ DecidedIsNotOffered'
    <2>1. \A i \in done : status'[i] # "pending"
      BY <1>10 DEF TypeOK, DecidedElsewhere, Fresh
    <2> QED
      BY <1>2, <1>10, <2>1 DEF DecidedElsewhere, data
  <1>11. ASSUME NEW s \in Posts, HearDecided(s) PROVE Fresh' /\ DecidedIsNotOffered'
    <2>1. status[posts[s].item] # "pending"
      BY <1>11 DEF HearDecided, Posted
    <2>2. \A i \in done' : status[i] # "pending"
      BY <1>11, <2>1 DEF HearDecided, Fresh
    <2> QED
      BY <1>2, <1>3, <1>11, <2>2, ConstantTypes DEF HearDecided
  <1>12. ASSUME NEW s \in Posts, HearPublished(s) PROVE Fresh' /\ DecidedIsNotOffered'
    BY <1>2, <1>4, <1>12 DEF HearPublished, Show, Forget, data, Fresh
  <1>13. CASE UserRefreshed
    BY <1>3, <1>13, ConstantTypes DEF UserRefreshed, desk, Fresh
  <1>14. CASE Leave \/ \E name \in PageNames : Mount(name)
    BY <1>4, <1>14 DEF Leave, Mount, Show, Forget
  <1>15. CASE \/ FormStep \/ UNCHANGED vars
              \/ \E s \in Posts : Refuse(s) \/ HearFailed(s)
              \/ \E item \in Items, decision \in {"approved", "rejected"}, s \in Posts :
                    Review(s, item, decision)
    BY <1>2, <1>15 DEF FormStep, Review, SubmitProject, SubmitUpdate, Submit, Publish, Refuse,
      HearFailed, vars, desk, data, Fresh
  <1> QED
    BY <1>5, <1>6, <1>7, <1>8, <1>9, <1>10, <1>11, <1>12, <1>13, <1>14, <1>15
    DEF Next, LoadStep, DeskStep, Arrives, Heard

-----------------------------------------------------------------------------
(* The inductive invariant *)

IInv ==
  /\ TypeOK
  /\ Posted /\ FormWaits
  /\ Numbered /\ SpinnerIsJustified
  /\ TotalsFit /\ PageExists
  /\ ListIsTheOneChosen
  /\ Fresh /\ DecidedIsNotOffered

LEMMA InitIInv == Init => IInv
  <1> SUFFICES ASSUME Init PROVE IInv
    OBVIOUS
  <1>1. TypeOK
    BY InitTyping
  <1>2. /\ page = None /\ page # "projects" /\ page # "admin" /\ shown = None /\ ~ loading
        /\ ~ busy /\ done = {}
        /\ \A n \in 1..MaxLoads : loads[n] = None
        /\ \A s \in Posts : posts[s] = None
    BY NoneAssumption DEF Init, PageNames
  <1>3. Posted /\ FormWaits
    BY <1>2 DEF Posted, FormWaits, Awaited
  <1>4. Numbered /\ SpinnerIsJustified /\ TotalsFit /\ PageExists /\ ListIsTheOneChosen
    BY <1>2 DEF Numbered, SpinnerIsJustified, TotalsFit, PageExists, ListIsTheOneChosen
  <1>5. Fresh /\ DecidedIsNotOffered
    BY <1>2 DEF Fresh, DecidedIsNotOffered
  <1> QED
    BY <1>1, <1>3, <1>4, <1>5 DEF IInv

LEMMA Invariance == Spec => []IInv
  <1>1. Init => IInv
    BY InitIInv
  <1>2. IInv /\ [Next]_vars => IInv'
    BY StepTyping, StepPosted, StepNumbered, StepTotals, StepListChosen, StepFresh DEF IInv
  <1> QED
    BY <1>1, <1>2, PTL DEF Spec

(* Every variable of the mounted page keeps its type, whatever the order   *)
(* of answers, failures and navigation.                                    *)
THEOREM Typing == Spec => []TypeOK
  <1>1. IInv => TypeOK
    BY DEF IInv
  <1> QED
    BY <1>1, Invariance, PTL

(* setLoading(false) of any answer, and nothing else, ends the spinner: it *)
(* is never left on without a request that will end it.                    *)
THEOREM SpinnersAreJustified == Spec => []SpinnerIsJustified
  <1>1. IInv => SpinnerIsJustified
    BY DEF IInv
  <1> QED
    BY <1>1, Invariance, PTL

(* With any number of categories, pages and requests under way, the answer *)
(* to the list's latest request is for the category and page highlighted.  *)
THEOREM ListIsChosen == Spec => []ListIsTheOneChosen
  <1>1. IInv => ListIsTheOneChosen
    BY DEF IInv
  <1> QED
    BY <1>1, Invariance, PTL

(* The pager leads to existing pages as long as no answer was lost or came *)
(* for a category left behind.                                             *)
THEOREM PagesExist == Spec => []PageExists
  <1>1. IInv => PageExists
    BY DEF IInv
  <1> QED
    BY <1>1, Invariance, PTL

(* An item announced as approved or rejected is not offered for review by  *)
(* the page's latest load, however many loads and decisions overlap.       *)
THEOREM DecidedAreGone == Spec => []DecidedIsNotOffered
  <1>1. IInv => DecidedIsNotOffered
    BY DEF IInv
  <1> QED
    BY <1>1, Invariance, PTL

(* The button of a publishing form is dead exactly while one request of    *)
(* the form is awaited.                                                    *)
THEOREM FormsWait == Spec => []FormWaits
  <1>1. IInv => FormWaits
    BY DEF IInv
  <1> QED
    BY <1>1, Invariance, PTL
=============================================================================
