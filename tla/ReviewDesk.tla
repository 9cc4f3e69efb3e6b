----------------------------- MODULE ReviewDesk -----------------------------
(***************************************************************************)
(* The administrators' page (Admin.tsx).  Its buttons are never disabled:  *)
(* an item can be decided twice, both ways, before the first answer.       *)
(***************************************************************************)
EXTENDS Views

(* The two tabs offer the pending projects and organizations.              *)
Offered == IF page = "admin" /\ ~ loading /\ shown # None THEN shown.items ELSE {}

Review(s, item, decision) ==
  /\ item \in Offered
  /\ Send(s, "review", item, decision)
  /\ UNCHANGED <<page, list, data, busy, desk>>

(* ReviewProject and ReviewOrganization accept decided items as well.      *)
Decide(s) ==
  /\ posts[s] # None /\ posts[s].kind = "review" /\ posts[s].settled = "no"
  /\ status' = [status EXCEPT ![posts[s].item] = posts[s].decision]
  /\ posts' = [posts EXCEPT ![s].settled = "done"]
  /\ UNCHANGED <<page, list, data, busy, done>>

(* Another administrator, or a request of this page that nobody awaits.    *)
DecidedElsewhere(item, decision) ==
  /\ status' = [status EXCEPT ![item] = decision]
  /\ UNCHANGED <<page, list, data, form, done>>

(* Mutant: the page is not loaded again after a decision.                  *)
HearDecided_NoReload(s) ==
  /\ posts[s] # None /\ posts[s].kind = "review" /\ posts[s].settled = "done"
  /\ posts' = [posts EXCEPT ![s] = None]
  /\ done' = IF posts[s].live THEN done \cup {posts[s].item} ELSE done
  /\ UNCHANGED <<page, list, data, busy, status>>

(* "Approved" or "rejected" is announced and the page loads its items.     *)
HearDecided(s) ==
  /\ posts[s] # None /\ posts[s].kind = "review" /\ posts[s].settled = "done"
  /\ posts' = [posts EXCEPT ![s] = None]
  /\ IF posts[s].live
     THEN done' = done \cup {posts[s].item} /\ Reload(Start)
     ELSE UNCHANGED <<done, loads, lastLoad>>
  /\ UNCHANGED <<page, list, loading, shown, busy, status>>

DeskStep ==
  \/ \E item \in Items, decision \in {"approved", "rejected"} :
        DecidedElsewhere(item, decision) \/ \E s \in Posts : Review(s, item, decision)
  \/ \E s \in Posts : Decide(s)
=============================================================================
