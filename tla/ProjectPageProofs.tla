------------------------- MODULE ProjectPageProofs --------------------------
(***************************************************************************)
(* Proofs about ProjectPage for every set of projects and gifts, every     *)
(* amount and any number of loads.                                         *)
(***************************************************************************)
EXTENDS ProjectPage, TLAPS

(* Requests are numbered in the order in which they are sent.              *)
Numbered ==
  /\ \A n \in 1..MaxLoads : loads[n] # None => n <= lastLoad
  /\ shown # None => shown.load <= lastLoad

(* What is known of a gift follows from how far it has come.               *)
Dealt ==
  \A g \in Gifts :
    /\ asked[g] = None => /\ g \notin waiting \cup live \cup recorded \cup refused
                          /\ told[g] = "nothing"
    /\ asked[g] # None => asked[g].project = asked[g].seen
    /\ g \in waiting => told[g] = "nothing"
    /\ told[g] = "success" => g \in recorded

(* The answer to the latest request, when it is there but not yet shown,   *)
(* has every donation that the donor was thanked for and that newer ones   *)
(* have not pushed off the list.                                           *)
Fresh ==
  \A n \in 1..MaxLoads :
    n = lastLoad /\ loads[n] # None /\ loads[n].content # None =>
      \A g \in live : told[g] = "success" /\ asked[g].project = loads[n].project
                        => g \in loads[n].content.gifts \/ above[g] = ListLimit

-----------------------------------------------------------------------------
(* The list of donations *)

(* Others only move down, and whoever has left the list does not return.   *)
LEMMA MovedDown ==
  ASSUME above \in [Gifts -> 0..ListLimit], NEW S
  PROVE  /\ Above(S) \in [Gifts -> 0..ListLimit]
         /\ \A g \in Gifts : above[g] = ListLimit => Above(S)[g] = ListLimit
  BY PageAssumption DEF Above

LEMMA RecordMoves ==
  ASSUME above \in [Gifts -> 0..ListLimit], NEW g \in Gifts, Record(g)
  PROVE  /\ above' \in [Gifts -> 0..ListLimit]
         /\ \A h \in Gifts \ {g} : above[h] = ListLimit => above'[h] = ListLimit
  <1>1. PICK S \in SUBSET Rows(asked[g].project), k \in 0..ListLimit :
          above' = [Above(S) EXCEPT ![g] = k]
    BY DEF Record
  <1>2. /\ Above(S) \in [Gifts -> 0..ListLimit]
        /\ \A h \in Gifts : above[h] = ListLimit => Above(S)[h] = ListLimit
    BY MovedDown
  <1> QED
    BY <1>1, <1>2

LEMMA OthersMove ==
  ASSUME above \in [Gifts -> 0..ListLimit], NEW p, OthersDonate(p)
  PROVE  /\ above' \in [Gifts -> 0..ListLimit]
         /\ \A h \in Gifts : above[h] = ListLimit => above'[h] = ListLimit
  <1>1. PICK S \in SUBSET Rows(p) : above' = Above(S)
    BY DEF OthersDonate
  <1> QED
    BY <1>1, MovedDown

-----------------------------------------------------------------------------
(* Type correctness *)

LEMMA InitTyping == Init => TypeOK
  <1> SUFFICES ASSUME Init PROVE TypeOK
    OBVIOUS
  <1>1. /\ loads \in [1..MaxLoads -> LoadCall \cup {None}] /\ lastLoad \in 0..MaxLoads
        /\ asked \in [Gifts -> Request \cup {None}]
        /\ told \in [Gifts -> {"nothing", "success", "failure"}]
        /\ above \in [Gifts -> 0..ListLimit]
    BY PageAssumption DEF Init
  <1>2. /\ route \in Projects \cup {None} /\ signedIn \in BOOLEAN
        /\ shown \in View \cup {None}
        /\ loading \in BOOLEAN /\ dialog \in BOOLEAN /\ submitting \in BOOLEAN
        /\ amount \in Amounts \cup {0}
    BY DEF Init
  <1> QED
    BY <1>1, <1>2 DEF Init, TypeOK

LEMMA UnmountTyping ==
  ASSUME TypeOK, Unmount
  PROVE  /\ route' \in Projects \cup {None} /\ shown' \in View \cup {None}
         /\ loading' \in BOOLEAN /\ dialog' \in BOOLEAN /\ submitting' \in BOOLEAN
         /\ amount' \in Amounts \cup {0}
         /\ loads' \in [1..MaxLoads -> LoadCall \cup {None}]
         /\ live' \subseteq Gifts
  BY DEF TypeOK, Unmount

LEMMA LoadTyping ==
  ASSUME TypeOK, NEW p \in Projects, loadProject(p)
  PROVE  loads' \in [1..MaxLoads -> LoadCall \cup {None}] /\ lastLoad' \in 0..MaxLoads
  <1>1. [project |-> p, content |-> None] \in LoadCall
    BY DEF LoadCall
  <1>2. lastLoad \in 0..MaxLoads /\ MaxLoads \in Nat /\ lastLoad < MaxLoads
    BY PageAssumption DEF TypeOK, loadProject
  <1>3. loads' = [loads EXCEPT ![lastLoad + 1] = [project |-> p, content |-> None]]
    BY DEF loadProject, AskFor
  <1> QED
    BY <1>1, <1>2, <1>3 DEF TypeOK, loadProject

LEMMA StepTyping ==
  ASSUME TypeOK, Dealt, [Next]_vars
  PROVE  TypeOK'
  <1> USE PageAssumption
  <1>1. ASSUME NEW p \in Projects, Enter(p) \/ Switch(p) PROVE TypeOK'
    <2>1. loadProject(p)
      BY <1>1 DEF Enter, Switch
    <2> QED
      BY <1>1, <2>1, LoadTyping DEF TypeOK, Enter, Switch, dealings, server
  <1>2. CASE Exit
    BY <1>2, UnmountTyping DEF TypeOK, Exit, server
  <1>3. CASE SignIn
    BY <1>3 DEF TypeOK, SignIn, dealings, server
  <1>4. CASE handleDonateClick
    BY <1>4, UnmountTyping DEF TypeOK, handleDonateClick, server
  <1>5. ASSUME NEW n \in 1..MaxLoads, ServeLoad(n) PROVE TypeOK'
    <2> DEFINE C == [gifts |-> Listed(loads[n].project)]
    <2>1. loads[n] \in LoadCall /\ C \in Content
      BY <1>5 DEF TypeOK, ServeLoad, Content, Listed, Rows
    <2>2. [loads[n] EXCEPT !.content = C] \in LoadCall
      BY <2>1 DEF LoadCall
    <2>3. loads' \in [1..MaxLoads -> LoadCall \cup {None}]
      BY <1>5, <2>2 DEF TypeOK, ServeLoad
    <2> QED
      BY <1>5, <2>3 DEF TypeOK, ServeLoad, page, dealings, server
  <1>6. ASSUME NEW n \in 1..MaxLoads, ShowLoad(n) PROVE TypeOK'
    <2>1. loads[n] \in LoadCall /\ loads[n].content \in Content
      BY <1>6 DEF TypeOK, ShowLoad, LoadCall
    <2>2. shown' \in View
      BY <1>6, <2>1 DEF ShowLoad, View, LoadCall, Content
    <2> QED
      BY <1>6, <2>2 DEF TypeOK, ShowLoad, dealings, server
  <1>7. ASSUME NEW n \in 1..MaxLoads, FailLoad(n) PROVE TypeOK'
    BY <1>7 DEF TypeOK, FailLoad, dealings, server
  <1>8. CASE Close
    BY <1>8 DEF TypeOK, Close, dealings, server
  <1>9. ASSUME NEW a \in Amounts, EnterAmount(a) PROVE TypeOK'
    BY <1>9 DEF TypeOK, EnterAmount, dealings, server
  <1>10. ASSUME NEW g \in Gifts, Confirm(g) PROVE TypeOK'
    <2>1. shown \in View /\ route \in Projects /\ amount \in Valid
      BY <1>10 DEF TypeOK, Confirm, Rendered, AmountIsValid, Valid
    <2>2. [project |-> Donated, amount |-> amount, seen |-> shown.project, reload |-> route]
            \in Request
      BY <2>1 DEF Request, View, Donated
    <2> QED
      BY <1>10, <2>2 DEF TypeOK, Confirm, server
  <1>11. ASSUME NEW g \in Gifts, Record(g) PROVE TypeOK'
    <2>1. above' \in [Gifts -> 0..ListLimit]
      BY <1>11, RecordMoves DEF TypeOK
    <2> QED
      BY <1>11, <2>1 DEF TypeOK, Record, page, dealings
  <1>12. ASSUME NEW g \in Gifts, Refuse(g) PROVE TypeOK'
    BY <1>12 DEF TypeOK, Refuse, page, dealings
  <1>13. ASSUME NEW g \in Gifts, HearSuccess(g) PROVE TypeOK'
    <2>1. asked[g] \in Request
      BY <1>13 DEF TypeOK, HearSuccess, Dealt
    <2>2. asked[g].reload \in Projects
      BY <2>1 DEF Request
    <2>3. /\ loads' \in [1..MaxLoads -> LoadCall \cup {None}] /\ lastLoad' \in 0..MaxLoads
          /\ dialog' \in BOOLEAN /\ submitting' \in BOOLEAN
      BY <1>13, <2>2, LoadTyping DEF TypeOK, HearSuccess
    <2> QED
      BY <1>13, <2>3 DEF TypeOK, HearSuccess, Tell, server
  <1>14. ASSUME NEW g \in Gifts, HearFailure(g) PROVE TypeOK'
    BY <1>14 DEF TypeOK, HearFailure, Tell, server
  <1>15. ASSUME NEW g \in Gifts, Rejected(g) PROVE TypeOK'
    BY <1>15, UnmountTyping DEF TypeOK, Rejected
  <1>16. ASSUME NEW p \in Projects, OthersDonate(p) PROVE TypeOK'
    <2>1. above' \in [Gifts -> 0..ListLimit]
      BY <1>16, OthersMove DEF TypeOK
    <2> QED
      BY <1>16, <2>1 DEF TypeOK, OthersDonate, page, dealings
  <1>17. CASE UNCHANGED vars
    BY <1>17 DEF TypeOK, vars, page, dealings, server
  <1> QED
    BY <1>1, <1>2, <1>3, <1>4, <1>5, <1>6, <1>7, <1>8, <1>9, <1>10, <1>11, <1>12, <1>13,
       <1>14, <1>15, <1>16, <1>17
    DEF Next, PageStep, DialogStep, Answer

-----------------------------------------------------------------------------
(* The numbering of loads *)

LEMMA StepNumbered ==
  ASSUME TypeOK, Numbered, [Next]_vars
  PROVE  Numbered'
  <1> USE DEF Numbered
  <1>types. /\ MaxLoads \in Nat /\ lastLoad \in 0..MaxLoads
            /\ DOMAIN loads = 1..MaxLoads
            /\ loads = [k \in 1..MaxLoads |-> loads[k]]
            /\ shown # None => shown.load \in Nat
    BY PageAssumption DEF TypeOK, View
  <1>1. ASSUME NEW p, loadProject(p), shown' = shown PROVE Numbered'
    BY <1>types, <1>1 DEF loadProject, AskFor
  <1>2. CASE Unmount /\ lastLoad' = lastLoad
    BY <1>2 DEF Unmount
  <1>3. ASSUME NEW n \in 1..MaxLoads, ServeLoad(n) PROVE Numbered'
    <2>1. UNCHANGED <<shown, lastLoad>> /\ \E c : loads' = [loads EXCEPT ![n] = c]
      BY <1>3 DEF ServeLoad, page
    <2>2. loads[n] # None
      BY <1>3 DEF ServeLoad
    <2> QED
      BY <1>types, <2>1, <2>2
  <1>4. ASSUME NEW n \in 1..MaxLoads, ShowLoad(n) PROVE Numbered'
    <2>1. /\ lastLoad' = lastLoad /\ loads' = [loads EXCEPT ![n] = None]
          /\ shown'.load = n /\ loads[n] # None
      BY <1>4 DEF ShowLoad
    <2> QED
      BY <1>types, <2>1
  <1>5. ASSUME NEW n \in 1..MaxLoads, FailLoad(n) PROVE Numbered'
    BY <1>types, <1>5 DEF FailLoad
  <1>6. CASE UNCHANGED <<shown, loads, lastLoad>>
    BY <1>6
  <1>7. ASSUME NEW g \in Gifts, HearSuccess(g) PROVE Numbered'
    BY <1>1, <1>6, <1>7 DEF HearSuccess
  <1>8. CASE \E p \in Projects : Enter(p) \/ Switch(p)
    BY <1>1, <1>8 DEF Enter, Switch
  <1>9. CASE Exit \/ handleDonateClick \/ \E g \in Gifts : Rejected(g)
    BY <1>2, <1>6, <1>9 DEF Exit, handleDonateClick, Rejected
  <1>10. CASE \/ SignIn \/ Close \/ \E a \in Amounts : EnterAmount(a)
              \/ \E g \in Gifts : \/ Confirm(g) \/ Record(g) \/ Refuse(g)
                                  \/ HearFailure(g)
              \/ \E p \in Projects : OthersDonate(p)
              \/ UNCHANGED vars
    BY <1>6, <1>10 DEF SignIn, Close, EnterAmount, Confirm, Record, Refuse, HearFailure,
      OthersDonate, vars, page
  <1> QED
    BY <1>3, <1>4, <1>5, <1>7, <1>8, <1>9, <1>10 DEF Next, PageStep, DialogStep, Answer

-----------------------------------------------------------------------------
(* How far a gift has come *)

LEMMA StepDealt ==
  ASSUME TypeOK, Dealt, [Next]_vars
  PROVE  Dealt'
  <1>1. CASE UNCHANGED <<asked, waiting, told, recorded, refused>> /\ live' \subseteq live
    BY <1>1 DEF Dealt
  <1>2. ASSUME NEW g \in Gifts, Confirm(g) PROVE Dealt'
    <2>1. shown \in View /\ route \in Projects /\ amount \in Valid
      BY <1>2 DEF TypeOK, Confirm, Rendered, AmountIsValid, Valid
    <2> DEFINE Q == [project |-> Donated, amount |-> amount, seen |-> shown.project,
                     reload |-> route]
    <2>2. Q \in Request
      BY <2>1 DEF Request, View, Donated
    <2>3. Q # None /\ Q.project = Q.seen
      BY <2>2, NoneAssumption DEF Donated
    <2>4. asked' = [asked EXCEPT ![g] = Q]
      BY <1>2 DEF Confirm
    <2> HIDE DEF Q
    <2> QED
      BY <1>2, <2>3, <2>4 DEF TypeOK, Dealt, Confirm, server
  <1>3. ASSUME NEW g \in Gifts, Record(g) \/ Refuse(g) PROVE Dealt'
    BY <1>3 DEF TypeOK, Dealt, Record, Refuse, dealings
  <1>4. ASSUME NEW g \in Gifts, HearSuccess(g) PROVE Dealt'
    BY <1>4 DEF TypeOK, Dealt, HearSuccess, Tell, server
  <1>5. ASSUME NEW g \in Gifts, HearFailure(g) PROVE Dealt'
    BY <1>5 DEF TypeOK, Dealt, HearFailure, Tell, server
  <1>6. ASSUME NEW g \in Gifts, Rejected(g) PROVE Dealt'
    BY <1>6 DEF TypeOK, Dealt, Rejected, Unmount
  <1>7. CASE PageStep \/ Close \/ (\E a \in Amounts : EnterAmount(a))
               \/ \E p \in Projects : OthersDonate(p)
    BY <1>1, <1>7 DEF PageStep, Enter, Switch, Exit, SignIn, handleDonateClick, ServeLoad,
      ShowLoad, FailLoad, Close, EnterAmount, OthersDonate, Unmount, dealings, server
  <1>8. CASE UNCHANGED vars
    BY <1>1, <1>8 DEF vars, dealings, server
  <1> QED
    BY <1>2, <1>3, <1>4, <1>5, <1>6, <1>7, <1>8 DEF Next, DialogStep, Answer

-----------------------------------------------------------------------------
(* One gift at a time *)

LEMMA StepOneGift ==
  ASSUME TypeOK, Dealt, OneGiftAtATime, [Next]_vars
  PROVE  OneGiftAtATime'
  <1>1. CASE UNCHANGED <<submitting, live, waiting>>
    BY <1>1 DEF OneGiftAtATime
  <1>2. CASE Unmount
    BY <1>2 DEF OneGiftAtATime, Unmount
  <1>3. ASSUME NEW g \in Gifts, Confirm(g) PROVE OneGiftAtATime'
    <2>1. live \cap waiting = {}
      BY <1>3 DEF OneGiftAtATime, Confirm
    <2>2. live' \cap waiting' = {g}
      BY <1>3, <2>1 DEF Confirm, Dealt
    <2> QED
      BY <1>3, <2>2 DEF OneGiftAtATime, Confirm
  <1>4. ASSUME NEW g \in Gifts, HearSuccess(g) \/ HearFailure(g) PROVE OneGiftAtATime'
    <2>1. live' = live /\ waiting' = waiting \ {g} /\ g \in waiting
      BY <1>4 DEF HearSuccess, HearFailure, Tell
    <2>2. CASE g \in live
      <3>1. live' \cap waiting' = {} /\ submitting' = FALSE
        BY <1>4, <2>1, <2>2 DEF OneGiftAtATime, HearSuccess, HearFailure
      <3> QED
        BY <3>1 DEF OneGiftAtATime
    <2>3. CASE g \notin live
      <3>1. live' \cap waiting' = live \cap waiting /\ submitting' = submitting
        BY <1>4, <2>1, <2>3 DEF TypeOK, HearSuccess, HearFailure
      <3> QED
        BY <3>1 DEF OneGiftAtATime
    <2> QED
      BY <2>2, <2>3
  <1>5. CASE \/ \E g \in Gifts : Record(g) \/ Refuse(g) \/ Rejected(g)
             \/ \E p \in Projects : OthersDonate(p)
    BY <1>1, <1>2, <1>5 DEF Record, Refuse, Rejected, OthersDonate, page, dealings
  <1>6. CASE PageStep \/ Close \/ \E a \in Amounts : EnterAmount(a)
    BY <1>1, <1>2, <1>6 DEF PageStep, Enter, Switch, Exit, SignIn, handleDonateClick,
      ServeLoad, ShowLoad, FailLoad, Close, EnterAmount, page, dealings
  <1>7. CASE UNCHANGED vars
    BY <1>1, <1>7 DEF vars, page, dealings
  <1> QED
    BY <1>3, <1>4, <1>5, <1>6, <1>7 DEF Next, DialogStep, Answer

-----------------------------------------------------------------------------
(* Donors see their gifts *)

LEMMA NewLoadSees ==
  ASSUME TypeOK, Numbered, NEW p, loadProject(p), shown' = shown
  PROVE  Fresh' /\ DonorSeesGift'
  <1>1. lastLoad \in Nat /\ MaxLoads \in Nat /\ lastLoad + 1 \in 1..MaxLoads
    BY PageAssumption DEF TypeOK, loadProject
  <1>2. lastLoad' = lastLoad + 1 /\ loads'[lastLoad + 1].content = None
    BY <1>1 DEF TypeOK, loadProject, AskFor
  <1>3. shown' # None => shown'.load # lastLoad'
    BY <1>1, <1>2 DEF TypeOK, Numbered, View
  <1> QED
    BY <1>2, <1>3 DEF Fresh, DonorSeesGift

LEMMA StepSees ==
  ASSUME TypeOK, Numbered, Dealt, Fresh, DonorSeesGift, [Next]_vars
  PROVE  Fresh' /\ DonorSeesGift'
  <1>1. ASSUME UNCHANGED <<shown, loads, lastLoad, live, told, asked>>,
               \A g \in live : told[g] = "success" /\ above[g] = ListLimit
                                => above'[g] = ListLimit
        PROVE  Fresh' /\ DonorSeesGift'
    BY <1>1 DEF Fresh, DonorSeesGift
  <1>2. CASE Unmount
    BY <1>2 DEF Unmount, Fresh, DonorSeesGift
  <1>3. ASSUME NEW n \in 1..MaxLoads, ServeLoad(n) PROVE Fresh' /\ DonorSeesGift'
    <2>1. UNCHANGED <<shown, lastLoad, live, told, asked, above>>
      BY <1>3 DEF ServeLoad, page, dealings, server
    <2>2. /\ loads' = [loads EXCEPT ![n] = loads'[n]]
          /\ loads'[n].project = loads[n].project
          /\ loads'[n].content.gifts = Listed(loads[n].project)
      <3>1. loads[n] \in LoadCall
        BY <1>3 DEF TypeOK, ServeLoad
      <3> QED
        BY <1>3, <3>1 DEF TypeOK, ServeLoad, LoadCall
    <2>3. \A g \in live : told[g] = "success" /\ asked[g].project = loads[n].project
                           => g \in Listed(loads[n].project) \/ above[g] = ListLimit
      BY PageAssumption DEF TypeOK, Dealt, Listed, Rows
    <2>4. \A k \in 1..MaxLoads \ {n} : loads'[k] = loads[k]
      BY <2>2 DEF TypeOK
    <2>5. \A g \in live : told[g] = "success" /\ asked[g].project = loads'[n].project
                           => g \in loads'[n].content.gifts \/ above[g] = ListLimit
      BY <2>2, <2>3
    <2>6. Fresh'
      BY <2>1, <2>4, <2>5 DEF Fresh
    <2> QED
      BY <2>1, <2>6 DEF DonorSeesGift
  <1>4. ASSUME NEW n \in 1..MaxLoads, ShowLoad(n) PROVE Fresh' /\ DonorSeesGift'
    <2>1. /\ UNCHANGED <<lastLoad, live, told, asked, above>>
          /\ loads' = [loads EXCEPT ![n] = None]
      BY <1>4 DEF ShowLoad, dealings, server
    <2>2. Fresh'
      BY <2>1 DEF TypeOK, Fresh
    <2>3. /\ shown'.load = n /\ shown'.project = loads[n].project
          /\ shown'.gifts = loads[n].content.gifts
          /\ loads[n] # None /\ loads[n].content # None
      BY <1>4 DEF ShowLoad
    <2> QED
      BY <2>1, <2>2, <2>3 DEF Fresh, DonorSeesGift
  <1>5. ASSUME NEW n \in 1..MaxLoads, FailLoad(n) PROVE Fresh' /\ DonorSeesGift'
    BY <1>5 DEF FailLoad, TypeOK, Fresh, DonorSeesGift, dealings, server
  <1>6. ASSUME NEW g \in Gifts, Confirm(g) PROVE Fresh' /\ DonorSeesGift'
    <2>1. /\ told[g] = "nothing" /\ live' = live \cup {g}
          /\ \A h \in Gifts \ {g} : asked'[h] = asked[h]
          /\ UNCHANGED <<shown, loads, lastLoad, told, above>>
      BY <1>6 DEF Confirm, TypeOK, Dealt, server
    <2>2. \A h \in live' : told'[h] = "success" => h \in live /\ asked'[h] = asked[h]
      BY <2>1 DEF TypeOK
    <2>3. Fresh'
      BY <2>1, <2>2 DEF Fresh
    <2>4. DonorSeesGift'
      BY <2>1, <2>2 DEF DonorSeesGift
    <2> QED
      BY <2>3, <2>4
  <1>7. ASSUME NEW g \in Gifts, HearSuccess(g) PROVE Fresh' /\ DonorSeesGift'
    <2>1. CASE g \in live
      BY <1>7, <2>1, NewLoadSees DEF HearSuccess
    <2>2. CASE g \notin live
      <3>1. /\ \A h \in live : told'[h] = told[h]
            /\ UNCHANGED <<shown, loads, lastLoad, live, asked, above>>
        BY <1>7, <2>2 DEF TypeOK, HearSuccess, Tell, server
      <3> QED
        BY <3>1 DEF Fresh, DonorSeesGift
    <2> QED
      BY <2>1, <2>2
  <1>8. ASSUME NEW g \in Gifts, HearFailure(g) PROVE Fresh' /\ DonorSeesGift'
    <2>1. /\ \A h \in Gifts : told'[h] = "success" => told[h] = "success"
          /\ UNCHANGED <<shown, loads, lastLoad, live, asked, above>>
      BY <1>8 DEF TypeOK, HearFailure, Tell, server
    <2> QED
      BY <2>1 DEF TypeOK, Fresh, DonorSeesGift
  <1>9. CASE \E p \in Projects : Enter(p) \/ Switch(p)
    BY <1>9, NewLoadSees DEF Enter, Switch
  <1>10. CASE Exit \/ handleDonateClick \/ \E g \in Gifts : Rejected(g)
    BY <1>1, <1>2, <1>10 DEF Exit, handleDonateClick, Rejected, server
  <1>11. CASE \/ SignIn \/ Close \/ \E a \in Amounts : EnterAmount(a)
              \/ \E g \in Gifts : Refuse(g)
              \/ UNCHANGED vars
    BY <1>1, <1>11 DEF SignIn, Close, EnterAmount, Refuse, vars, page, dealings, server
  <1>12. ASSUME NEW g \in Gifts, Record(g) PROVE Fresh' /\ DonorSeesGift'
    <2>1. UNCHANGED <<shown, loads, lastLoad, live, told, asked>>
      BY <1>12 DEF Record, page, dealings
    <2>2. told[g] # "success"
      BY <1>12 DEF Record, Dealt
    <2> QED
      BY <1>1, <1>12, <2>1, <2>2, RecordMoves DEF TypeOK
  <1>13. CASE \E p \in Projects : OthersDonate(p)
    <2>1. UNCHANGED <<shown, loads, lastLoad, live, told, asked>>
      BY <1>13 DEF OthersDonate, page, dealings
    <2> QED
      BY <1>1, <1>13, <2>1, OthersMove DEF TypeOK
  <1> QED
    BY <1>3, <1>4, <1>5, <1>6, <1>7, <1>8, <1>9, <1>10, <1>11, <1>12, <1>13
    DEF Next, PageStep, DialogStep, Answer

-----------------------------------------------------------------------------
(* The inductive invariant, and what follows from it *)

IInv == TypeOK /\ Numbered /\ Dealt /\ OneGiftAtATime /\ Fresh /\ DonorSeesGift

LEMMA InitIInv == Init => IInv
  <1> SUFFICES ASSUME Init PROVE IInv
    OBVIOUS
  <1>1. Numbered /\ Dealt /\ OneGiftAtATime
    BY DEF Init, Numbered, Dealt, OneGiftAtATime
  <1>2. Fresh /\ DonorSeesGift
    BY DEF Init, Fresh, DonorSeesGift
  <1> QED
    BY <1>1, <1>2, InitTyping DEF IInv

LEMMA Invariance == Spec => []IInv
  <1>1. IInv /\ [Next]_vars => IInv'
    BY StepTyping, StepNumbered, StepDealt, StepOneGift, StepSees DEF IInv
  <1> QED
    BY InitIInv, <1>1, PTL DEF Spec

(* Page and dialog keep their types, and every confirmed donation names a  *)
(* project and an amount above zero (DonationModal's handleSubmit).        *)
THEOREM Typing == Spec => []TypeOK
  <1>1. IInv => TypeOK
    BY DEF IInv
  <1> QED
    BY Invariance, <1>1, PTL

(* A dialog awaits at most one donation, and exactly one while its button  *)
(* is dead, through closing, opening again and changes of the route.       *)
THEOREM OneGift == Spec => []OneGiftAtATime
  <1>1. IInv => OneGiftAtATime
    BY DEF IInv
  <1> QED
    BY Invariance, <1>1, PTL

(* However answers overtake each other, the page that shows the latest one *)
(* shows every donation it has thanked for (loadProject after onSuccess),  *)
(* whatever the length of the list (20 in GetDetail): one that is missing  *)
(* has that many newer ones above it.                                      *)
THEOREM GiftsAreSeen == Spec => []DonorSeesGift
  <1>1. IInv => DonorSeesGift
    BY DEF IInv
  <1> QED
    BY Invariance, <1>1, PTL

-----------------------------------------------------------------------------
(* Refinement of Giving *)

LEMMA InitMaps == Init => Promise!GivingInit
  BY DEF Init, Promise!GivingInit

LEMMA ConfirmMaps ==
  ASSUME TypeOK, Dealt, NEW g \in Gifts, Confirm(g)
  PROVE  Promise!GivingNext
  <1> DEFINE w == [project |-> shown.project, amount |-> amount]
             Q == [project |-> Donated, amount |-> amount, seen |-> shown.project,
                   reload |-> route]
  <1>1. shown \in View /\ route \in Projects /\ amount \in Valid
    BY DEF TypeOK, Confirm, Rendered, AmountIsValid, Valid
  <1>2. w \in [project : Projects, amount : Amounts]
    BY <1>1 DEF View, Valid
  <1>3. Q # None /\ Q.seen = w.project /\ Q.amount = w.amount
    BY <1>1, NoneAssumption DEF Request, View, Donated
  <1>4. asked[g] = None /\ asked' = [asked EXCEPT ![g] = Q] /\ g \notin recorded
        /\ UNCHANGED <<recorded, told>>
    BY DEF TypeOK, Dealt, Confirm, server
  <1>5. \A h \in Gifts \ {g} : asked'[h] = asked[h]
    BY <1>4 DEF TypeOK
  <1>6. asked'[g] = Q
    BY <1>4 DEF TypeOK
  <1> HIDE DEF Q
  <1>7. [h \in Gifts |-> IF asked'[h] = None THEN None
           ELSE [project |-> asked'[h].seen, amount |-> asked'[h].amount]]
        = [[h \in Gifts |-> IF asked[h] = None THEN None
           ELSE [project |-> asked[h].seen, amount |-> asked[h].amount]] EXCEPT ![g] = w]
    BY <1>3, <1>5, <1>6
  <1>8. {[gift |-> h, wish |-> [project |-> asked'[h].project, amount |-> asked'[h].amount]]
           : h \in recorded'}
        = {[gift |-> h, wish |-> [project |-> asked[h].project, amount |-> asked[h].amount]]
           : h \in recorded}
    BY <1>4, <1>5 DEF TypeOK
  <1>9. PICK v \in [project : Projects, amount : Amounts] : v = w
    BY <1>2
  <1>10. Promise!Wish(g, v)
    BY <1>4, <1>7, <1>8, <1>9 DEF Promise!Wish
  <1> QED
    BY <1>10 DEF Promise!GivingNext

LEMMA RecordMaps ==
  ASSUME TypeOK, Dealt, NEW g \in Gifts, Record(g)
  PROVE  Promise!GivingNext
  <1> DEFINE b(h) == [gift |-> h, wish |-> [project |-> asked[h].project,
                                            amount |-> asked[h].amount]]
  <1>1. /\ asked[g] # None /\ asked[g].project = asked[g].seen
        /\ asked[g] \in Request
        /\ g \notin recorded /\ recorded' = recorded \cup {g}
        /\ UNCHANGED <<asked, told>>
    BY DEF TypeOK, Dealt, Record, dealings
  <1>2. [project |-> asked[g].seen, amount |-> asked[g].amount] # None
    BY <1>1, NoneAssumption DEF Request, Wishes
  <1>3. \A x \in {b(h) : h \in recorded} : x.gift # g
    BY <1>1
  <1>4. {b(h) : h \in recorded'} = {b(h) : h \in recorded} \cup {b(g)}
    BY <1>1
  <1>5. Promise!Book(g)
    BY <1>1, <1>2, <1>3, <1>4 DEF Promise!Book
  <1> QED
    BY <1>5 DEF Promise!GivingNext

LEMMA AnswerMaps ==
  ASSUME TypeOK, Dealt, NEW g \in Gifts, HearSuccess(g) \/ HearFailure(g) \/ Rejected(g)
  PROVE  Promise!GivingNext
  <1>1. asked[g] # None /\ asked[g] \in Request /\ told[g] = "nothing"
    BY DEF TypeOK, Dealt, HearSuccess, HearFailure, Rejected
  <1>2. UNCHANGED <<asked, recorded>>
    BY DEF HearSuccess, HearFailure, Rejected, server
  <1>3. [project |-> asked[g].seen, amount |-> asked[g].amount] # None
    BY <1>1, NoneAssumption DEF Request, Wishes
  <1>4. CASE HearSuccess(g)
    <2>1. g \in recorded /\ told' = [told EXCEPT ![g] = "success"]
      BY <1>4 DEF HearSuccess, Tell
    <2> DEFINE booked == {[gift |-> h, wish |-> [project |-> asked[h].project,
                                                 amount |-> asked[h].amount]] : h \in recorded}
    <2>2. \E b \in booked : b.gift = g
      <3>1. [gift |-> g, wish |-> [project |-> asked[g].project, amount |-> asked[g].amount]]
              \in booked
        BY <2>1
      <3> HIDE DEF booked
      <3> QED
        BY <3>1
    <2>3. UNCHANGED booked
      BY <1>2
    <2>4. Promise!Thank(g)
      BY <1>1, <1>2, <2>1, <2>2, <2>3 DEF Promise!Thank
    <2> QED
      BY <2>4 DEF Promise!GivingNext
  <1>5. CASE HearFailure(g) \/ Rejected(g)
    <2>1. told' = [told EXCEPT ![g] = "failure"]
      BY <1>5 DEF HearFailure, Rejected, Tell
    <2>2. Promise!Regret(g)
      BY <1>1, <1>2, <1>3, <2>1 DEF Promise!Regret
    <2> QED
      BY <2>2 DEF Promise!GivingNext
  <1> QED
    BY <1>4, <1>5

LEMMA StepMaps ==
  ASSUME TypeOK, Dealt, [Next]_vars
  PROVE  [Promise!GivingNext]_(Promise!givingVars)
  <1>1. CASE UNCHANGED <<asked, recorded, told>>
    BY <1>1 DEF Promise!givingVars
  <1>2. CASE (\E g \in Gifts : Refuse(g)) \/ \E p \in Projects : OthersDonate(p)
    BY <1>1, <1>2 DEF Refuse, OthersDonate, dealings
  <1>3. CASE PageStep \/ Close \/ \E a \in Amounts : EnterAmount(a)
    BY <1>1, <1>3 DEF PageStep, Enter, Switch, Exit, SignIn, handleDonateClick, ServeLoad,
      ShowLoad, FailLoad, Close, EnterAmount, dealings, server
  <1>4. CASE UNCHANGED vars
    BY <1>1, <1>4 DEF vars, dealings, server
  <1> QED
    BY <1>2, <1>3, <1>4, ConfirmMaps, RecordMaps, AnswerMaps DEF Next, DialogStep, Answer

(* Page, dialog, network and server implement Giving: a gift is booked at  *)
(* most once, for the project and the amount the donor had before them,    *)
(* and thanks are given only for gifts that are booked.                    *)
THEOREM PageKeepsPromise == Spec => KeepsPromise
  <1>1. IInv /\ [Next]_vars => [Promise!GivingNext]_(Promise!givingVars)
    BY StepMaps DEF IInv
  <1> QED
    BY InitMaps, Invariance, <1>1, PTL DEF Spec, KeepsPromise, Promise!GivingSpec
=============================================================================
