------------------------------- MODULE Giving -------------------------------
(***************************************************************************)
(* What the donation dialog owes a donor.  A confirmed gift is recorded    *)
(* at most once, for the project and the amount the donor had before them; *)
(* thanks are given only for gifts that are recorded, and each gift is     *)
(* answered at most once.  "failure" promises nothing: the gift may have   *)
(* been recorded, or may still be.                                         *)
(***************************************************************************)
CONSTANTS Gifts, Projects, Amounts, None

VARIABLES wish, booked, told

givingVars == <<wish, booked, told>>

GivingInit ==
  /\ wish = [g \in Gifts |-> None]
  /\ booked = {}
  /\ told = [g \in Gifts |-> "nothing"]

Wish(g, w) ==
  /\ wish[g] = None
  /\ wish' = [wish EXCEPT ![g] = w]
  /\ UNCHANGED <<booked, told>>

Book(g) ==
  /\ wish[g] # None
  /\ \A b \in booked : b.gift # g
  /\ booked' = booked \cup {[gift |-> g, wish |-> wish[g]]}
  /\ UNCHANGED <<wish, told>>

Thank(g) ==
  /\ told[g] = "nothing"
  /\ \E b \in booked : b.gift = g
  /\ told' = [told EXCEPT ![g] = "success"]
  /\ UNCHANGED <<wish, booked>>

Regret(g) ==
  /\ wish[g] # None
  /\ told[g] = "nothing"
  /\ told' = [told EXCEPT ![g] = "failure"]
  /\ UNCHANGED <<wish, booked>>

GivingNext ==
  \E g \in Gifts :
     \/ \E w \in [project : Projects, amount : Amounts] : Wish(g, w)
     \/ Book(g) \/ Thank(g) \/ Regret(g)

GivingSpec == GivingInit /\ [][GivingNext]_givingVars
=============================================================================
