------------------------------ MODULE Registry ------------------------------
(***************************************************************************)
(* What the statements of Onboarding amount to when none of them can be    *)
(* told from a single step: who is a member, which organizations there are *)
(* and what was decided on them, who may still publish, and what has been  *)
(* published.  Answers, checks that decide nothing and records of reviews  *)
(* do not show here.                                                       *)
(***************************************************************************)
CONSTANTS Ids, Usernames, Emails, Roles

VARIABLES members,   \* [id, username, email, role] of every account
          status,    \* function on the organizations, each named by its account
          permits,   \* [project, org]: found approved, not published yet
          projects,  \* [project, org]
          updates    \* [update, project]

registryVars == <<members, status, permits, projects, updates>>

RegistryInit ==
  /\ members = {} /\ status = [o \in {} |-> "pending"]
  /\ permits = {} /\ projects = {} /\ updates = {}

(* Two members share neither their username nor their email. *)
Join(m) ==
  /\ \A other \in members : m.username # other.username /\ m.email # other.email
  /\ members' = members \cup {m}
  /\ UNCHANGED <<status, permits, projects, updates>>

Found(m) ==
  /\ m \in members /\ m.role = "org" /\ m.id \notin DOMAIN status
  /\ status' = [o \in DOMAIN status \cup {m.id} |->
                  IF o = m.id THEN "pending" ELSE status[o]]
  /\ UNCHANGED <<members, permits, projects, updates>>

Decide(o, verdict) ==
  /\ o \in DOMAIN status
  /\ status' = [status EXCEPT ![o] = verdict]
  /\ UNCHANGED <<members, permits, projects, updates>>

(* Only an approved organization obtains a permit; a decision that comes   *)
(* after it does not take the permit back.                                 *)
Permit(o, p) ==
  /\ o \in DOMAIN status /\ status[o] = "approved"
  /\ permits' = permits \cup {[project |-> p, org |-> o]}
  /\ UNCHANGED <<members, status, projects, updates>>

(* A permit ends with its request, used or not. *)
Lapse ==
  /\ permits' \subseteq permits
  /\ UNCHANGED <<members, status, projects, updates>>

Publish(permit) ==
  /\ permit \in permits
  /\ permits' = permits \ {permit}
  /\ projects' = projects \cup {permit}
  /\ UNCHANGED <<members, status, updates>>

(* An organization reports on its own projects, approved still or not. *)
Announce(o, p, u) ==
  /\ [project |-> p, org |-> o] \in projects
  /\ updates' = updates \cup {[update |-> u, project |-> p]}
  /\ UNCHANGED <<members, status, permits, projects>>

Cards == [id : Ids, username : Usernames, email : Emails, role : Roles]

RegistryNext ==
  \/ \E m \in Cards : Join(m) \/ Found(m)
  \/ \E o \in Ids, verdict \in {"approved", "rejected"} : Decide(o, verdict)
  \/ \E o, p \in Ids : Permit(o, p)
  \/ \E permit \in permits : Publish(permit)
  \/ \E o, p, u \in Ids : Announce(o, p, u)
  \/ Lapse

RegistrySpec == RegistryInit /\ [][RegistryNext]_registryVars
=============================================================================
