------------------------------ MODULE Database ------------------------------
(***************************************************************************)
(* The MySQL tables that GiveTrack's services share, and the life cycle of *)
(* the HTTP requests that work on them.  Every request is one goroutine of *)
(* the gin server; it moves from statement to statement and is answered    *)
(* once.  A transaction keeps one connection of the pool until it ends; a  *)
(* statement outside a transaction needs a connection only while it runs.  *)
(*                                                                         *)
(* Rows carry only the columns the money and the review status depend on.  *)
(* The donations table is kept as its two sums, raised and given.  Row     *)
(* locks need no variable: a stage of a request tells which ones it holds. *)
(***************************************************************************)
EXTENDS Integers, FiniteSets

CONSTANTS Requests,      \* the HTTP requests of a behaviour, each sent once
          Users,         \* rows of the users table
          Projects,      \* rows of the projects table
          Target,        \* target_amount of each project
          Owner,         \* the user behind the organization of each project
          SeedProjects,  \* the projects rows at the start
          SeedUsers,     \* the users rows at the start
          Amounts,       \* the amounts donors send
          Verdicts,      \* the decisions administrators send
          Profiles,      \* the profile fields of a user, as one value
          PoolSize       \* DB_MAX_OPEN_CONNS

Statuses == {"pending", "approved", "rejected", "completed"}
ProjectRow == [status : Statuses, current : Nat]
UserRow == [total : Nat, profile : Profiles]

DonationCalls ==
  [op : {"donate"}, user : Users, project : Projects, amount : Amounts]
ReviewCalls == [op : {"review"}, project : Projects, verdict : Verdicts]
ProfileCalls == [op : {"profile"}, user : Users, profile : Profiles]
NoCall == [op |-> "none"]

ASSUME RequestsAssumption == IsFiniteSet(Requests)
ASSUME MoneyAssumption ==
  /\ Amounts \subseteq Int
  /\ Target \in [Projects -> Nat \ {0}]
ASSUME SeedAssumption ==
  /\ Profiles # {}
  /\ Owner \in [Projects -> Users]
  /\ SeedUsers \in [Users -> UserRow]
  /\ SeedProjects \in [Projects -> ProjectRow]
  /\ \A p \in Projects : SeedProjects[p].status = "completed"
                           => SeedProjects[p].current >= Target[p]
ASSUME PoolAssumption == PoolSize \in Nat \ {0}

VARIABLES projects,     \* the projects table
          users,        \* the users table
          raised,       \* sum of the donation rows of a project
          given,        \* sum of the donation rows of a user
          call,         \* what a request asks for
          pc,           \* the last stage a request has reached
          reply,        \* "none" while a request is unanswered; what its
                        \* client sees then, a broken connection as "error"
          seenProject,  \* the projects row a request has read
          seenUser,     \* the users row a request has read
          contestedProjects,  \* history: rows read by a request while another
          contestedUsers      \* one was between reading and writing them

tables == <<projects, users, raised, given>>
seen == <<seenProject, seenUser>>
contested == <<contestedProjects, contestedUsers>>
vars == <<tables, call, pc, reply, seen, contested>>

-----------------------------------------------------------------------------
(* Requests *)

Active == {r \in Requests : pc[r] # "idle" /\ reply[r] = "none"}

At(r, stage) == r \in Active /\ pc[r] = stage
Goto(r, stage) == pc' = [pc EXCEPT ![r] = stage]

(* A statement of r succeeds that changes nothing others can see. *)
Move(r, from, to) ==
  /\ At(r, from)
  /\ Goto(r, to)
  /\ UNCHANGED <<tables, call, reply, seen, contested>>

(* Request c arrives as r and is refused at once unless it is valid. *)
Arrive(r, c, valid) ==
  /\ pc[r] = "idle"
  /\ call' = [call EXCEPT ![r] = c]
  /\ \/ valid /\ Goto(r, c.op) /\ UNCHANGED reply
     \/ ~valid /\ Goto(r, "failed") /\ reply' = [reply EXCEPT ![r] = "error"]
  /\ UNCHANGED <<tables, seen, contested>>

-----------------------------------------------------------------------------
(* Connections and row locks *)

OpenStages == {"projectRead", "donationInserted", "projectSaved", "userSaved"}
InsertedStages == OpenStages \ {"projectRead"}
SavedStages == {"projectSaved", "userSaved"}

OpenTx == {r \in Active : pc[r] \in OpenStages}
FreeConnection == Cardinality(OpenTx) < PoolSize

(* Inserting a donation locks its two parent rows in shared mode, through  *)
(* the foreign keys; saving a row locks it exclusively; saving a project   *)
(* also locks its owner's row, which gorm upserts with the association.    *)
ProjectLockers(p) ==
  {q \in OpenTx : pc[q] \in InsertedStages /\ call[q].project = p}
ProjectWriters(p) ==
  {q \in OpenTx : pc[q] \in SavedStages /\ call[q].project = p}
UserWriters(u) ==
  {q \in OpenTx : \/ pc[q] \in SavedStages /\ Owner[call[q].project] = u
                  \/ pc[q] = "userSaved" /\ call[q].user = u}
UserLockers(u) ==
  {q \in OpenTx : pc[q] \in InsertedStages /\ call[q].user = u} \cup UserWriters(u)

MayInsertDonation(r) ==
  ProjectWriters(call[r].project) \cup UserWriters(call[r].user) \subseteq {r}
MayWriteProject(r) ==
  ProjectLockers(call[r].project) \cup UserLockers(Owner[call[r].project]) \subseteq {r}
MayWriteUser(r) == UserLockers(call[r].user) \subseteq {r}

(* r waits for a row lock. *)
Blocked(r) ==
  \/ At(r, "projectRead") /\ ~MayInsertDonation(r)
  \/ At(r, "donationInserted") /\ ~MayWriteProject(r)
  \/ At(r, "projectSaved") /\ ~MayWriteUser(r)
  \/ At(r, "reviewRead") /\ ~MayWriteProject(r)
  \/ At(r, "profileRead") /\ ~MayWriteUser(r)

-----------------------------------------------------------------------------
(* Requests that have read a row and may still write it back. *)

ProjectHolders(p) ==
  {q \in Active : pc[q] \in OpenStages \cup {"reviewRead"} /\ call[q].project = p}
UserHolders(u) ==
  {q \in Active : pc[q] \in OpenStages \cup {"profileRead"} /\ call[q].user = u}

ReadProjectRow(r, p) ==
  /\ seenProject' = [seenProject EXCEPT ![r] = projects[p]]
  /\ contestedProjects' =
       contestedProjects \cup {q \in {p} : ProjectHolders(q) # {}}
ReadUserRow(r, u) ==
  /\ seenUser' = [seenUser EXCEPT ![r] = users[u]]
  /\ contestedUsers' = contestedUsers \cup {v \in {u} : UserHolders(v) # {}}

-----------------------------------------------------------------------------
(* The end of requests *)

UnreadProject == [status |-> "pending", current |-> 0]
UnreadUser == [total |-> 0, profile |-> CHOOSE x \in Profiles : TRUE]

(* The stages of a request that has changed a table. *)
LastingStages == {"committed", "reviewSaved", "reviewRecorded", "profileSaved"}

(* The requests of S end: what they read is forgotten, what they left      *)
(* uncommitted is rolled back and what they committed stays.               *)
End(S, answer) ==
  /\ reply' = [r \in Requests |-> IF r \in S THEN answer ELSE reply[r]]
  /\ pc' = [r \in Requests |->
             IF r \in S /\ pc[r] \notin LastingStages THEN "failed" ELSE pc[r]]
  /\ seenProject' = [r \in Requests |-> IF r \in S THEN UnreadProject ELSE seenProject[r]]
  /\ seenUser' = [r \in Requests |-> IF r \in S THEN UnreadUser ELSE seenUser[r]]
  /\ UNCHANGED <<tables, call, contested>>

Reply(r, answer) == End({r}, answer)

(* Any statement can fail: lost connection, deadlock victim, lost          *)
(* acknowledgement of a COMMIT.  The handler answers with an error.        *)
Fail(r) == r \in Active /\ Reply(r, "error")

(* The server process dies, MySQL rolls back its open transactions, and    *)
(* the container is restarted (docker-compose.yml: unless-stopped).        *)
Crash == Active # {} /\ End(Active, "error")

Init ==
  /\ projects = SeedProjects
  /\ users = SeedUsers
  /\ raised = [p \in Projects |-> 0]
  /\ given = [u \in Users |-> 0]
  /\ call = [r \in Requests |-> NoCall]
  /\ pc = [r \in Requests |-> "idle"]
  /\ reply = [r \in Requests |-> "none"]
  /\ seenProject = [r \in Requests |-> UnreadProject]
  /\ seenUser = [r \in Requests |-> UnreadUser]
  /\ contestedProjects = {}
  /\ contestedUsers = {}
=============================================================================
