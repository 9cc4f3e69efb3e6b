----------------------------- MODULE Onboarding -----------------------------
(***************************************************************************)
(* How organizations come to publish: registration of accounts, review of  *)
(* organizations by administrators, publication of projects and of         *)
(* progress updates.  Every statement runs on its own: none of these       *)
(* operations opens a transaction.                                         *)
(*                                                                         *)
(* A row is named by the request that inserted it: an account and its      *)
(* organization by the registration, a project by its publication.  The    *)
(* seeded accounts are left out; no name used here is one of theirs.  The  *)
(* reviewing administrator is whoever holds a token with role admin: the   *)
(* seeded account, which is always there, or one registered in that role.  *)
(***************************************************************************)
EXTENDS FiniteSets

CONSTANTS Requests,   \* the HTTP requests of a behaviour, each sent once
          Usernames,  \* users.username
          Emails,     \* users.email
          Roles       \* users.role: any string a registration names

OrgStatuses == {"pending", "approved", "rejected"}

VARIABLES accounts,    \* rows of users
          orgs,        \* rows of organizations
          orgStatus,   \* their status, "pending" until reviewed
          orgReviews,  \* rows of admin_reviews
          projects,    \* rows of projects
          updates,     \* rows of project_updates
          call,        \* what a request asks for
          pc,          \* the last stage a request has reached
          reply        \* "none" while unanswered, then "ok" or "error"

tables == <<accounts, orgs, orgStatus, orgReviews, projects, updates>>
vars == <<tables, call, pc, reply>>

Registrations == [op : {"register"}, username : Usernames, email : Emails,
                  role : Roles]
OrgReviews == [op : {"reviewOrg"}, account : Requests, verdict : OrgStatuses]
Publications == [op : {"publish"}, account : Requests]
UpdatePosts == [op : {"postUpdate"}, account : Requests, project : Requests]
NoCall == [op |-> "none"]

Active == {r \in Requests : pc[r] # "idle" /\ reply[r] = "none"}
At(r, stage) == r \in Active /\ pc[r] = stage
Goto(r, stage) == pc' = [pc EXCEPT ![r] = stage] /\ UNCHANGED <<call, reply>>

End(S, answer) ==
  /\ reply' = [r \in Requests |-> IF r \in S THEN answer ELSE reply[r]]
  /\ UNCHANGED <<tables, call, pc>>
Answer(r) == End({r}, "ok")
Refuse(r) == End({r}, "error")

(* Request c arrives as r and is refused at once unless it is valid. *)
Arrive(r, c, valid) ==
  /\ pc[r] = "idle"
  /\ call' = [call EXCEPT ![r] = c]
  /\ pc' = [pc EXCEPT ![r] = c.op]
  /\ reply' = IF valid THEN reply ELSE [reply EXCEPT ![r] = "error"]
  /\ UNCHANGED tables

-----------------------------------------------------------------------------
(* Register *)

(* The account has the username or the email of registration r. *)
SameName(a, r) ==
  call[a].username = call[r].username \/ call[a].email = call[r].email

(* FindByUsernameOrEmail, and the unique indexes of users. *)
Taken(r) == \E a \in accounts : SameName(a, r)

ReceiveRegistration(r) == \E c \in Registrations : Arrive(r, c, TRUE)

CheckTaken(r) ==
  /\ At(r, "register")
  /\ \/ Taken(r) /\ Refuse(r)
     \/ ~Taken(r) /\ Goto(r, "nameFree") /\ UNCHANGED tables

(* Mutant: users has no unique indexes. *)
InsertUser_Unindexed(r) ==
  /\ At(r, "nameFree")
  /\ accounts' = accounts \cup {r}
  /\ Goto(r, "userInserted")
  /\ UNCHANGED <<orgs, orgStatus, orgReviews, projects, updates>>

InsertUser(r) ==
  /\ At(r, "nameFree")
  /\ \/ Taken(r) /\ Refuse(r)
     \/ /\ ~Taken(r)
        /\ accounts' = accounts \cup {r}
        /\ Goto(r, "userInserted")
        /\ UNCHANGED <<orgs, orgStatus, orgReviews, projects, updates>>

(* Mutant: organizations begin approved. *)
InsertOrg_Approved(r) ==
  /\ At(r, "userInserted") /\ call[r].role = "org"
  /\ orgs' = orgs \cup {r}
  /\ orgStatus' = [orgStatus EXCEPT ![r] = "approved"]
  /\ Goto(r, "orgInserted")
  /\ UNCHANGED <<accounts, orgReviews, projects, updates>>

InsertOrg(r) ==
  /\ At(r, "userInserted") /\ call[r].role = "org"
  /\ orgs' = orgs \cup {r}
  /\ orgStatus' = [orgStatus EXCEPT ![r] = "pending"]
  /\ Goto(r, "orgInserted")
  /\ UNCHANGED <<accounts, orgReviews, projects, updates>>

(* Mutant: the answer does not wait for the organization. *)
AnswerRegistration_Early(r) ==
  At(r, "userInserted") /\ Answer(r)

AnswerRegistration(r) ==
  /\ \/ At(r, "userInserted") /\ call[r].role # "org"
     \/ At(r, "orgInserted")
  /\ Answer(r)

Register(r) ==
  \/ ReceiveRegistration(r) \/ CheckTaken(r) \/ InsertUser(r) \/ InsertOrg(r)
  \/ AnswerRegistration(r)

-----------------------------------------------------------------------------
(* ReviewOrganization *)

ReceiveOrgReview(r) ==
  \E c \in OrgReviews : Arrive(r, c, c.verdict \in {"approved", "rejected"})

(* Mutant: a missing organization is not noticed. *)
ReadOrg_Unchecked(r) ==
  At(r, "reviewOrg") /\ Goto(r, "orgRead") /\ UNCHANGED tables

ReadOrg(r) ==
  /\ At(r, "reviewOrg")
  /\ \/ call[r].account \notin orgs /\ Refuse(r)
     \/ call[r].account \in orgs /\ Goto(r, "orgRead") /\ UNCHANGED tables

SaveOrg(r) ==
  /\ At(r, "orgRead")
  /\ orgStatus' = [orgStatus EXCEPT ![call[r].account] = call[r].verdict]
  /\ Goto(r, "orgSaved")
  /\ UNCHANGED <<accounts, orgs, orgReviews, projects, updates>>

RecordOrgReview(r) ==
  /\ At(r, "orgSaved")
  /\ orgReviews' = orgReviews \cup {r}
  /\ Goto(r, "orgReviewRecorded")
  /\ UNCHANGED <<accounts, orgs, orgStatus, projects, updates>>

ReviewOrganization(r) ==
  \/ ReceiveOrgReview(r) \/ ReadOrg(r) \/ SaveOrg(r) \/ RecordOrgReview(r)
  \/ At(r, "orgReviewRecorded") /\ Answer(r)

-----------------------------------------------------------------------------
(* Create and CreateUpdate of the project service *)

(* Who holds a token with role org. *)
OrgTokens == {a \in accounts : call[a].role = "org"}

ReceivePublication(r) ==
  \E c \in Publications : c.account \in OrgTokens /\ Arrive(r, c, TRUE)

(* Mutant: any organization may publish, whatever its status. *)
MayPublish_AnyOrg(a) == a \in orgs

MayPublish(a) == a \in orgs /\ orgStatus[a] = "approved"

ReadOwnOrg(r) ==
  /\ At(r, "publish")
  /\ \/ ~MayPublish(call[r].account) /\ Refuse(r)
     \/ MayPublish(call[r].account) /\ Goto(r, "orgApproved") /\ UNCHANGED tables

InsertProject(r) ==
  /\ At(r, "orgApproved")
  /\ projects' = projects \cup {r}
  /\ Goto(r, "projectInserted")
  /\ UNCHANGED <<accounts, orgs, orgStatus, orgReviews, updates>>

Publish(r) ==
  \/ ReceivePublication(r) \/ ReadOwnOrg(r) \/ InsertProject(r)
  \/ At(r, "projectInserted") /\ Answer(r)

ReceiveUpdate(r) ==
  \E c \in UpdatePosts : c.account \in OrgTokens /\ Arrive(r, c, TRUE)

ReadUpdatedProject(r) ==
  /\ At(r, "postUpdate")
  /\ \/ call[r].project \notin projects /\ Refuse(r)
     \/ call[r].project \in projects /\ Goto(r, "projectFound") /\ UNCHANGED tables

Owns(a, p) == a \in orgs /\ call[p].account = a

ReadAuthorOrg(r) ==
  /\ At(r, "projectFound")
  /\ \/ ~Owns(call[r].account, call[r].project) /\ Refuse(r)
     \/ /\ Owns(call[r].account, call[r].project)
        /\ Goto(r, "ownerChecked")
        /\ UNCHANGED tables

InsertUpdate(r) ==
  /\ At(r, "ownerChecked")
  /\ updates' = updates \cup {r}
  /\ Goto(r, "updateInserted")
  /\ UNCHANGED <<accounts, orgs, orgStatus, orgReviews, projects>>

PostUpdate(r) ==
  \/ ReceiveUpdate(r) \/ ReadUpdatedProject(r) \/ ReadAuthorOrg(r) \/ InsertUpdate(r)
  \/ At(r, "updateInserted") /\ Answer(r)

-----------------------------------------------------------------------------
(* Any statement can fail, and the process can die; no statement is undone. *)
Fail(r) == r \in Active /\ Refuse(r)
Crash == Active # {} /\ End(Active, "error")

Init ==
  /\ accounts = {} /\ orgs = {} /\ orgReviews = {} /\ projects = {} /\ updates = {}
  /\ orgStatus = [r \in Requests |-> "pending"]
  /\ call = [r \in Requests |-> NoCall]
  /\ pc = [r \in Requests |-> "idle"]
  /\ reply = [r \in Requests |-> "none"]

Next ==
  \/ Crash
  \/ \E r \in Requests :
       Register(r) \/ ReviewOrganization(r) \/ Publish(r) \/ PostUpdate(r) \/ Fail(r)

Spec == Init /\ [][Next]_vars

-----------------------------------------------------------------------------
(* Properties *)

Stages == {"idle", "register", "nameFree", "userInserted", "orgInserted",
           "reviewOrg", "orgRead", "orgSaved", "orgReviewRecorded",
           "publish", "orgApproved", "projectInserted",
           "postUpdate", "projectFound", "ownerChecked", "updateInserted"}

(* Variables have their types; organizations belong to accounts that       *)
(* registered as one, projects and reviews to organizations, updates to    *)
(* projects, although no transaction ties a row to the one it names.       *)
TypeOK ==
  /\ pc \in [Requests -> Stages]
  /\ reply \in [Requests -> {"none", "ok", "error"}]
  /\ \A r \in Requests :
       call[r] \in Registrations \cup OrgReviews \cup Publications
                     \cup UpdatePosts \cup {NoCall}
  /\ orgStatus \in [Requests -> OrgStatuses]
  /\ \A a \in accounts : a \in Requests /\ call[a] \in Registrations
  /\ \A o \in orgs : o \in accounts /\ call[o].role = "org"
  /\ \A v \in orgReviews : call[v] \in OrgReviews /\ call[v].account \in orgs
  /\ \A p \in projects : call[p] \in Publications /\ call[p].account \in orgs
  /\ \A u \in updates : call[u] \in UpdatePosts /\ call[u].project \in projects

(* No two accounts share a username or an email, although two              *)
(* registrations may both have found the name free before either inserted  *)
(* it (existing != nil, then userRepo.Create).                             *)
OneAccountPerName ==
  \A a, b \in accounts : SameName(a, b) => a = b

(* A success that was answered has happened in full and for good: the      *)
(* account exists, with its organization if it is one, the review is       *)
(* recorded, the project or update is published.                           *)
SuccessMeansDone ==
  \A r \in Requests : reply[r] = "ok" =>
    CASE call[r].op = "register" -> r \in accounts /\ (call[r].role = "org" => r \in orgs)
      [] call[r].op = "reviewOrg" -> r \in orgReviews
      [] call[r].op = "publish" -> r \in projects
      [] OTHER -> r \in updates

(* The decisions of administrators on organization a that took effect. *)
DecisionStages == {"orgSaved", "orgReviewRecorded"}
Decisions(a) == {q \in Requests : pc[q] \in DecisionStages /\ call[q].account = a}

(* A project was published only for an organization that an administrator  *)
(* had approved, and whose status still is what one of them decided        *)
(* (org.Status != OrgApproved in Create).                                  *)
PublishedByApprovedOrg ==
  \A p \in projects :
    /\ \E q \in Decisions(call[p].account) : call[q].verdict = "approved"
    /\ \E q \in Decisions(call[p].account) :
         call[q].verdict = orgStatus[call[p].account]

(* The statements of all requests together keep the registry they are      *)
(* meant to keep, without a transaction and with failures and crashes      *)
(* between any two of them: each that matters is one of its steps, with    *)
(* what an earlier statement checked still good where the registry asks    *)
(* for it (Register, ReviewOrganization, Create and CreateUpdate).         *)
Card(a) == [id |-> a, username |-> call[a].username, email |-> call[a].email,
            role |-> call[a].role]
Publication(p) == [project |-> p, org |-> call[p].account]
Official ==
  INSTANCE Registry WITH
    Ids <- Requests,
    members <- {Card(a) : a \in accounts},
    status <- [o \in orgs |-> orgStatus[o]],
    permits <- {Publication(r) : r \in {q \in Active : pc[q] = "orgApproved"}},
    projects <- {Publication(p) : p \in projects},
    updates <- {[update |-> u, project |-> call[u].project] : u \in updates}
KeepsRegistry == Official!RegistrySpec
=============================================================================
