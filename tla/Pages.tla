------------------------------- MODULE Pages --------------------------------
(***************************************************************************)
(* The pages of the client that read lists and send forms, one mounted at  *)
(* a time, in front of a server whose answers may be late, lost or out of  *)
(* order.                                                                  *)
(***************************************************************************)
EXTENDS ProjectList, ReviewDesk, PublishForms

LoadStep ==
  \/ \E name \in PageNames : Mount(name)
  \/ Leave
  \/ UserRefreshed
  \/ \E n \in 1..MaxLoads : Arrives(n) \/ \E part \in Parts : ServePart(n, part)

Heard(s) == HearDecided(s) \/ HearPublished(s) \/ HearFailed(s)

Next ==
  \/ LoadStep
  \/ ListStep
  \/ DeskStep
  \/ FormStep
  \/ \E s \in Posts : Refuse(s) \/ Heard(s)

(* axios gives up after ten seconds, so every request ends.                *)
Fairness ==
  /\ \A n \in 1..MaxLoads : WF_vars(Arrives(n))
  /\ \A s \in Posts : WF_vars(Heard(s))

Spec == Init /\ [][Next]_vars /\ Fairness

(*** Properties ************************************************************)

TypeOK ==
  /\ page \in PageNames \cup {None} /\ loading \in BOOLEAN
  /\ query \in Query /\ totalPages \in Nat /\ straight \in BOOLEAN
  /\ shown \in View \cup {None}
  /\ loads \in [1..MaxLoads -> LoadCall \cup {None}] /\ lastLoad \in 0..MaxLoads
  /\ busy \in BOOLEAN /\ posts \in [Posts -> Post \cup {None}]
  /\ status \in [Items -> {"pending", "approved", "rejected"}] /\ done \subseteq Items

(* A page shows its spinner only while an answer it waits for is still to  *)
(* come, whichever of several requests is answered first or fails.         *)
SpinnerIsJustified == loading => \E n \in 1..MaxLoads : loads[n] # None

(* The list's latest request always asks for the category and page that    *)
(* are highlighted: once its answer is on the screen, late answers to      *)
(* earlier ones having been replaced, the list is the one chosen.          *)
ListIsTheOneChosen ==
  page = "projects" =>
    /\ shown # None /\ shown.load = lastLoad => shown.query = query
    /\ loads[lastLoad] # None => loads[lastLoad].query = query

(* The pager leads to pages that have projects to show, unless an answer   *)
(* was lost or came for a category left behind: the server announces no    *)
(* page that would be empty, and the totals of one category are never used *)
(* to turn the pages of another.                                           *)
PageExists ==
  page = "projects" /\ straight =>
    query.no = 1 \/ RowsOf(query) # {}

(* Once the answer to its latest request is on the screen, the page of the *)
(* administrators offers no item that it has announced as decided, though  *)
(* loads overtake each other and buttons can be pressed twice.             *)
DecidedIsNotOffered ==
  page = "admin" /\ shown # None /\ shown.load = lastLoad => shown.items \cap done = {}

(* A publishing form whose button is dead awaits one request of its own,   *)
(* one whose button works awaits none.                                     *)
Awaited == {s \in Posts : posts[s] # None /\ posts[s].live /\ posts[s].kind # "review"}
FormWaits ==
  /\ busy <=> Awaited # {}
  /\ \A r, s \in Awaited : r = s

(* Every spinner stops and every form can be used again, with the ten      *)
(* seconds of axios if need be.                                            *)
SpinnersStop == loading ~> ~ loading
FormsReturn == busy ~> ~ busy
=============================================================================
