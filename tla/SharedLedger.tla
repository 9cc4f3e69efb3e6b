---------------------------- MODULE SharedLedger ----------------------------
(***************************************************************************)
(* What the services keep of that promise when requests overlap.  A row is *)
(* contested once a request reads it while another holds it between its    *)
(* read and its write.  Every other row is written as if its writer were   *)
(* alone.  A contested row may lose money that was donated, but it never   *)
(* shows less than it started with or more than was donated.               *)
(***************************************************************************)
EXTENDS AtomicLedger

CONSTANT Profiles

VARIABLES contestedProjects, contestedUsers

sharedVars == <<projects, users, raised, given, contestedProjects, contestedUsers>>

SharedInit == AtomicInit /\ contestedProjects = {} /\ contestedUsers = {}

(* The amounts, and the user rows, a writer may go by. *)
AmountsFor(p) ==
  IF p \in contestedProjects
    THEN SeedProjects[p].current .. SeedProjects[p].current + raised[p]
    ELSE {projects[p].current}
RowsFor(u) ==
  IF u \in contestedUsers
    THEN [total : SeedUsers[u].total .. SeedUsers[u].total + given[u], profile : Profiles]
    ELSE {users[u]}

Give(u, p, amount) ==
  /\ amount > 0
  /\ p \in contestedProjects \/ projects[p].status = "approved"
  /\ \E current \in AmountsFor(p) :
       projects' = [projects EXCEPT ![p] = Funded(p, current, amount)]
  /\ \E row \in RowsFor(u) :
       users' = [users EXCEPT ![u] = [row EXCEPT !.total = @ + amount]]
  /\ raised' = [raised EXCEPT ![p] = @ + amount]
  /\ given' = [given EXCEPT ![u] = @ + amount]
  /\ UNCHANGED <<contestedProjects, contestedUsers>>

Decide(p, verdict) ==
  /\ \E current \in AmountsFor(p) :
       projects' = [projects EXCEPT ![p] = [current |-> current, status |-> verdict]]
  /\ UNCHANGED <<users, raised, given, contestedProjects, contestedUsers>>

Edit(u, profile) ==
  /\ \E row \in RowsFor(u) :
       users' = [users EXCEPT ![u] = [row EXCEPT !.profile = profile]]
  /\ UNCHANGED <<projects, raised, given, contestedProjects, contestedUsers>>

Contest ==
  /\ contestedProjects \subseteq contestedProjects'
  /\ contestedUsers \subseteq contestedUsers'
  /\ UNCHANGED atomicVars

SharedNext ==
  \/ \E u \in Users, p \in Projects, amount \in Amounts : Give(u, p, amount)
  \/ \E p \in Projects, verdict \in {"approved", "rejected"} : Decide(p, verdict)
  \/ \E u \in Users, profile \in Profiles : Edit(u, profile)
  \/ Contest

SharedSpec == SharedInit /\ [][SharedNext]_sharedVars
=============================================================================
