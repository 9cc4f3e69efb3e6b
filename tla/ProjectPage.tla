---------------------------- MODULE ProjectPage -----------------------------
(***************************************************************************)
(* The page of a project with its donation dialog, in one tab, in front of *)
(* a server that may record or refuse a donation and whose answers may be  *)
(* late, lost or out of order.  The page stays mounted when the route goes *)
(* from one project to another; the dialog stays mounted while it is       *)
(* closed; requests outlive both.                                          *)
(***************************************************************************)
EXTENDS Naturals, FiniteSets

CONSTANTS Projects, Gifts, Amounts, MaxLoads, None,
          ListLimit  \* donations the answer for a project lists, the newest ones

ASSUME PageAssumption ==
  /\ Amounts \subseteq Nat /\ MaxLoads \in Nat
  /\ ListLimit \in Nat \ {0}
  /\ IsFiniteSet(Gifts)
  /\ None \notin Projects

VARIABLES
  route,      \* the project in the address, None on another page
  signedIn,   \* AuthContext has a user
  shown,      \* project, donations and updates of the page, or None
  loading, dialog, amount, submitting,  \* React state of page and dialog
  loads,      \* loads[n]: the n-th request for a project, while it is awaited
  lastLoad,   \* the number of the last one sent
  asked,      \* asked[g]: the request of gift g and what the dialog showed
  waiting,    \* gifts whose answer the client still awaits
  live,       \* gifts confirmed on the page that is mounted now
  told,       \* what the donor was told
  recorded, refused,  \* server: gifts it has settled
  above       \* server: newer donations to the project of a recorded gift,
              \* counted up to ListLimit

page == <<route, signedIn, shown, loading, dialog, amount, submitting>>
dealings == <<asked, waiting, live, told>>
server == <<recorded, refused, above>>
vars == <<page, loads, lastLoad, dealings, server>>

Valid == Amounts \ {0}
Request == [project : Projects, amount : Valid, seen : Projects, reload : Projects]
Wishes == [project : Projects, amount : Valid]
ASSUME NoneAssumption == None \notin Request \cup Wishes

Content == [gifts : SUBSET Gifts]
LoadCall == [project : Projects, content : Content \cup {None}]
View == [project : Projects, gifts : SUBSET Gifts, closed : BOOLEAN, load : 1..MaxLoads]

(*** The page **************************************************************)

AskFor(n, p) == [loads EXCEPT ![n] = [project |-> p, content |-> None]]

loadProject(p) ==
  /\ lastLoad < MaxLoads
  /\ lastLoad' = lastLoad + 1
  /\ loads' = AskFor(lastLoad + 1, p)

(* What is not on the screen cannot be clicked: a spinner until the first  *)
(* answer, a notice when there is nothing to show.                         *)
Rendered == route # None /\ ~ loading /\ shown # None

Enter(p) ==
  /\ route = None
  /\ route' = p
  /\ loadProject(p)
  /\ UNCHANGED <<signedIn, shown, loading, dialog, amount, submitting, dealings, server>>

(* The browser's history leads from one project to another: the effect on  *)
(* [id] loads, everything else stays as it is.                             *)
Switch(p) ==
  /\ route # None /\ route # p
  /\ route' = p
  /\ loadProject(p)
  /\ UNCHANGED <<signedIn, shown, loading, dialog, amount, submitting, dealings, server>>

(* The next mount starts from the initial state; answers to requests for   *)
(* the project reach nobody, answers to donations still alert.             *)
Unmount ==
  /\ route' = None
  /\ shown' = None
  /\ loading' = TRUE
  /\ dialog' = FALSE
  /\ amount' = 0
  /\ submitting' = FALSE
  /\ loads' = [n \in 1..MaxLoads |-> None]
  /\ live' = {}

Exit ==
  /\ route # None
  /\ Unmount
  /\ UNCHANGED <<signedIn, lastLoad, asked, waiting, told, server>>

SignIn ==
  /\ route = None /\ ~ signedIn
  /\ signedIn' = TRUE
  /\ UNCHANGED <<route, shown, loading, dialog, amount, submitting,
                 loads, lastLoad, dealings, server>>

(* GetDetail lists the newest donations of a project, up to a limit.       *)
Rows(p) == {g \in recorded : asked[g].project = p}
Listed(p) == {g \in Rows(p) : above[g] < ListLimit}

ServeLoad(n) ==
  /\ loads[n] # None /\ loads[n].content = None
  /\ loads' = [loads EXCEPT ![n].content = [gifts |-> Listed(loads[n].project)]]
  /\ UNCHANGED <<page, lastLoad, dealings, server>>

(* Whether the answer calls the project completed is up to all donors and  *)
(* to the reviews.                                                         *)
ShowLoad(n) ==
  /\ loads[n] # None /\ loads[n].content # None
  /\ \E closed \in BOOLEAN :
       shown' = [project |-> loads[n].project, gifts |-> loads[n].content.gifts,
                 closed |-> closed, load |-> n]
  /\ loading' = FALSE
  /\ loads' = [loads EXCEPT ![n] = None]
  /\ UNCHANGED <<route, signedIn, dialog, amount, submitting, lastLoad, dealings, server>>

(* Mutant: the spinner stays when the request fails.                       *)
FailLoad_Spinning(n) ==
  /\ loads[n] # None
  /\ loads' = [loads EXCEPT ![n] = None]
  /\ UNCHANGED <<page, lastLoad, dealings, server>>

FailLoad(n) ==
  /\ loads[n] # None
  /\ loading' = FALSE
  /\ loads' = [loads EXCEPT ![n] = None]
  /\ UNCHANGED <<route, signedIn, shown, dialog, amount, submitting, lastLoad, dealings, server>>

(* The donate button is dead on completed projects only.                   *)
DonateIsOffered == Rendered /\ ~ shown.closed

(* A visitor is sent to /login.                                            *)
handleDonateClick ==
  /\ DonateIsOffered
  /\ IF signedIn
     THEN /\ dialog' = TRUE
          /\ UNCHANGED <<route, shown, loading, amount, submitting, loads, live>>
     ELSE Unmount
  /\ UNCHANGED <<signedIn, lastLoad, asked, waiting, told, server>>

(*** The dialog ************************************************************)

(* Mutant: closing the dialog clears its state.                            *)
Close_Cleared ==
  /\ Rendered /\ dialog
  /\ dialog' = FALSE
  /\ submitting' = FALSE
  /\ UNCHANGED <<route, signedIn, shown, loading, amount, loads, lastLoad, dealings, server>>

(* The dialog can be closed while its request is on its way.               *)
Close ==
  /\ Rendered /\ dialog
  /\ dialog' = FALSE
  /\ UNCHANGED <<route, signedIn, shown, loading, amount, submitting,
                 loads, lastLoad, dealings, server>>

(* A quick amount or a typed one, at any time; 0 stands for an empty field *)
(* and for everything parseFloat does not find above zero.                 *)
EnterAmount(a) ==
  /\ Rendered /\ dialog
  /\ amount' = a
  /\ UNCHANGED <<route, signedIn, shown, loading, dialog, submitting,
                 loads, lastLoad, dealings, server>>

(* Mutant: an empty field counts as an amount.                             *)
Amount_Unchecked == TRUE

AmountIsValid == amount # 0

(* Mutant: the request names the project in the address.                   *)
Donated_Route == route

(* The request names the project the dialog was rendered with.             *)
Donated == shown.project

(* handleSubmit up to its await.  The continuation keeps loadProject as it *)
(* was at this render: for the route of now.                               *)
Confirm(g) ==
  /\ Rendered /\ dialog
  /\ ~ submitting
  /\ AmountIsValid
  /\ asked[g] = None
  /\ asked' = [asked EXCEPT ![g] = [project |-> Donated, amount |-> amount,
                                    seen |-> shown.project, reload |-> route]]
  /\ submitting' = TRUE
  /\ waiting' = waiting \cup {g}
  /\ live' = live \cup {g}
  /\ UNCHANGED <<route, signedIn, shown, loading, dialog, amount, loads, lastLoad, told, server>>

(*** The server ************************************************************)

(* A donation comes above those with an earlier created_at.  That time is  *)
(* taken some statements before the donation is recorded, so the gifts it  *)
(* comes above need not be all that are recorded, and newer ones may be    *)
(* there when a gift is recorded.                                          *)
Above(older) ==
  [g \in Gifts |-> IF g \in older /\ above[g] < ListLimit THEN above[g] + 1 ELSE above[g]]

(* The server may record a donation it receives, or refuse it: that is up  *)
(* to the status of the project, and to failures.                          *)
Record(g) ==
  /\ asked[g] # None
  /\ g \notin recorded \cup refused
  /\ recorded' = recorded \cup {g}
  /\ \E older \in SUBSET Rows(asked[g].project), newer \in 0..ListLimit :
       above' = [Above(older) EXCEPT ![g] = newer]
  /\ UNCHANGED <<page, loads, lastLoad, dealings, refused>>

(* Another donor's gift is recorded.                                       *)
OthersDonate(p) ==
  /\ \E older \in SUBSET Rows(p) : above' = Above(older)
  /\ UNCHANGED <<page, loads, lastLoad, dealings, recorded, refused>>

Refuse(g) ==
  /\ asked[g] # None
  /\ g \notin recorded \cup refused
  /\ refused' = refused \cup {g}
  /\ UNCHANGED <<page, loads, lastLoad, dealings, recorded, above>>

(*** How a donation ends for the donor *************************************)

Tell(g, word) ==
  /\ told' = [told EXCEPT ![g] = word]
  /\ waiting' = waiting \ {g}

(* Mutant: the page is not loaded again after a donation.                  *)
HearSuccess_NoReload(g) ==
  /\ g \in waiting \cap recorded
  /\ Tell(g, "success")
  /\ dialog' = (dialog /\ g \notin live)
  /\ submitting' = (submitting /\ g \notin live)
  /\ UNCHANGED <<route, signedIn, shown, loading, amount, loads, lastLoad, asked, live, server>>

HearSuccess(g) ==
  /\ g \in waiting \cap recorded
  /\ Tell(g, "success")
  /\ IF g \in live
     THEN /\ loadProject(asked[g].reload)
          /\ dialog' = FALSE
          /\ submitting' = FALSE
     ELSE UNCHANGED <<loads, lastLoad, dialog, submitting>>
  /\ UNCHANGED <<route, signedIn, shown, loading, amount, asked, live, server>>

(* Mutant: no time limit is set on requests.                               *)
HearFailure_Untimed(g) ==
  /\ g \in waiting \cap refused
  /\ Tell(g, "failure")
  /\ submitting' = (submitting /\ g \notin live)
  /\ UNCHANGED <<route, signedIn, shown, loading, dialog, amount, loads, lastLoad, asked, live, server>>

(* An error answer, a lost one, or ten seconds without one: "failed, try   *)
(* again", whatever the server did or will do with the request.            *)
HearFailure(g) ==
  /\ g \in waiting
  /\ Tell(g, "failure")
  /\ submitting' = (submitting /\ g \notin live)
  /\ UNCHANGED <<route, signedIn, shown, loading, dialog, amount, loads, lastLoad, asked, live, server>>

(* A 401 loads the document anew at /login; other donations that are still *)
(* awaited then end without a word.                                        *)
Rejected(g) ==
  /\ g \in waiting
  /\ g \notin recorded \cup refused
  /\ refused' = refused \cup {g}
  /\ told' = [told EXCEPT ![g] = "failure"]
  /\ waiting' = {}
  /\ signedIn' = FALSE
  /\ Unmount
  /\ UNCHANGED <<lastLoad, asked, recorded, above>>

(***************************************************************************)

Init ==
  /\ route = None
  /\ signedIn \in BOOLEAN
  /\ shown = None
  /\ loading = TRUE /\ dialog = FALSE /\ amount = 0 /\ submitting = FALSE
  /\ loads = [n \in 1..MaxLoads |-> None] /\ lastLoad = 0
  /\ asked = [g \in Gifts |-> None]
  /\ waiting = {} /\ live = {}
  /\ told = [g \in Gifts |-> "nothing"]
  /\ recorded = {} /\ refused = {}
  /\ above = [g \in Gifts |-> 0]

PageStep ==
  \/ \E p \in Projects : Enter(p) \/ Switch(p)
  \/ Exit \/ SignIn \/ handleDonateClick
  \/ \E n \in 1..MaxLoads : ServeLoad(n) \/ ShowLoad(n) \/ FailLoad(n)

DialogStep ==
  \/ Close
  \/ \E a \in Amounts : EnterAmount(a)
  \/ \E g \in Gifts : Confirm(g)

Answer(g) == HearSuccess(g) \/ HearFailure(g)

Next ==
  \/ PageStep
  \/ DialogStep
  \/ \E p \in Projects : OthersDonate(p)
  \/ \E g \in Gifts : Record(g) \/ Refuse(g) \/ Answer(g) \/ Rejected(g)

(* axios gives up after ten seconds; nothing else has to happen.           *)
Fairness ==
  /\ \A g \in Gifts : WF_vars(Answer(g))
  /\ \A n \in 1..MaxLoads : WF_vars(ShowLoad(n) \/ FailLoad(n))

Spec == Init /\ [][Next]_vars /\ Fairness

(*** Properties ************************************************************)

TypeOK ==
  /\ route \in Projects \cup {None} /\ signedIn \in BOOLEAN
  /\ shown \in View \cup {None}
  /\ loading \in BOOLEAN /\ dialog \in BOOLEAN /\ submitting \in BOOLEAN
  /\ amount \in Amounts \cup {0}
  /\ loads \in [1..MaxLoads -> LoadCall \cup {None}] /\ lastLoad \in 0..MaxLoads
  /\ asked \in [Gifts -> Request \cup {None}]
  /\ waiting \subseteq Gifts /\ live \subseteq Gifts
  /\ told \in [Gifts -> {"nothing", "success", "failure"}]
  /\ recorded \subseteq Gifts /\ refused \subseteq Gifts
  /\ above \in [Gifts -> 0..ListLimit]

(* A dialog whose button is dead awaits exactly one gift, and one whose    *)
(* button works awaits none, however often the dialog was closed, opened   *)
(* again, or handed another project in the meantime: a second click never  *)
(* sends a second donation while the first is undecided.                   *)
OneGiftAtATime ==
  /\ submitting <=> live \cap waiting # {}
  /\ \A g, h \in live \cap waiting : g = h

(* Once the page shows the answer to its latest request, whatever order    *)
(* the answers came in, every donation it has thanked the donor for is in  *)
(* the list it shows for that project, unless ListLimit newer donations    *)
(* have pushed it off that list by now.                                    *)
DonorSeesGift ==
  shown # None /\ shown.load = lastLoad =>
    \A g \in live : told[g] = "success" /\ asked[g].project = shown.project
                      => g \in shown.gifts \/ above[g] = ListLimit

(* A donor who confirms is answered while they stay on the page, and the   *)
(* spinner of a page ends.                                                 *)
DonorsAreAnswered ==
  \A g \in Gifts : g \in live \cap waiting ~> g \notin live \cap waiting
SpinnerEnds == route # None /\ loading ~> ~ loading \/ route = None

(* Page, dialog, network and server together keep the promise of Giving:   *)
(* what is booked for a gift is what the donor had before them.            *)
Promise == INSTANCE Giving WITH
  wish <- [g \in Gifts |-> IF asked[g] = None THEN None
             ELSE [project |-> asked[g].seen, amount |-> asked[g].amount]],
  booked <- {[gift |-> g, wish |-> [project |-> asked[g].project, amount |-> asked[g].amount]]
               : g \in recorded}
KeepsPromise == Promise!GivingSpec
=============================================================================
