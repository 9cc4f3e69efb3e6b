--------------------------- MODULE OnboardingProofs ---------------------------
(***************************************************************************)
(* Proofs about Onboarding for every set of requests, usernames and        *)
(* emails.                                                                 *)
(***************************************************************************)
EXTENDS Onboarding, TLAPS

UserStages == {"userInserted", "orgInserted"}
ReadOrgStages == {"orgRead", "orgSaved", "orgReviewRecorded"}
ApprovedStages == {"orgApproved", "projectInserted"}
FoundStages == {"projectFound", "ownerChecked", "updateInserted"}

Typed ==
  /\ pc \in [Requests -> Stages]
  /\ reply \in [Requests -> {"none", "ok", "error"}]
  /\ orgStatus \in [Requests -> OrgStatuses]
  /\ DOMAIN call = Requests

(* What the stage of a request tells of what it asks for. *)
CallsByStage ==
  \A r \in Requests :
    /\ pc[r] = "idle" => call[r] = NoCall
    /\ pc[r] \in {"register", "nameFree"} \cup UserStages => call[r] \in Registrations
    /\ pc[r] = "orgInserted" => call[r].role = "org"
    /\ pc[r] \in {"reviewOrg"} \cup ReadOrgStages => call[r] \in OrgReviews
    /\ (pc[r] = "reviewOrg" /\ reply[r] = "none") \/ pc[r] \in ReadOrgStages
         => call[r].verdict \in {"approved", "rejected"}
    /\ pc[r] \in {"publish"} \cup ApprovedStages => call[r] \in Publications
    /\ pc[r] \in {"postUpdate"} \cup FoundStages => call[r] \in UpdatePosts

(* The row a request has inserted is there, and only that one. *)
RowsByStage ==
  /\ accounts = {r \in Requests : pc[r] \in UserStages}
  /\ orgs = {r \in Requests : pc[r] = "orgInserted"}
  /\ orgReviews = {r \in Requests : pc[r] = "orgReviewRecorded"}
  /\ projects = {r \in Requests : pc[r] = "projectInserted"}
  /\ updates = {r \in Requests : pc[r] = "updateInserted"}

(* The rows a request has found are there to stay. *)
FoundRows ==
  \A r \in Requests :
    /\ pc[r] \in ReadOrgStages \cup ApprovedStages => call[r].account \in orgs
    /\ pc[r] \in FoundStages => call[r].project \in projects

(* A status other than pending is the decision of a review, and a decision *)
(* leaves no organization pending.                                         *)
DecidedStatus ==
  /\ \A a \in Requests : orgStatus[a] # "pending" =>
       \E q \in Decisions(a) : call[q].verdict = orgStatus[a]
  /\ \A q \in Requests : pc[q] \in DecisionStages =>
       orgStatus[call[q].account] # "pending"

(* Who found an organization approved was preceded by its approval. *)
ApprovedBefore ==
  \A r \in Requests : pc[r] \in ApprovedStages =>
    \E q \in Decisions(call[r].account) : call[q].verdict = "approved"

(* Only requests at their last stage are answered with success. *)
AnsweredStages ==
  \A r \in Requests : reply[r] = "ok" =>
    \/ pc[r] = "userInserted" /\ call[r].role # "org"
    \/ pc[r] \in {"orgInserted", "orgReviewRecorded", "projectInserted", "updateInserted"}

IInv ==
  /\ Typed /\ CallsByStage /\ RowsByStage /\ FoundRows
  /\ DecidedStatus /\ ApprovedBefore /\ AnsweredStages
  /\ OneAccountPerName

LEMMA InitInv == Init => IInv
BY DEF Init, IInv, Typed, CallsByStage, RowsByStage, FoundRows, DecidedStatus,
       ApprovedBefore, AnsweredStages, OneAccountPerName, NoCall, Stages, OrgStatuses,
       UserStages, ReadOrgStages, ApprovedStages, FoundStages, DecisionStages, Decisions

-----------------------------------------------------------------------------
(* Steps *)

Receive(r) ==
  ReceiveRegistration(r) \/ ReceiveOrgReview(r) \/ ReceivePublication(r) \/ ReceiveUpdate(r)

(* The stages at which an operation is done. *)
Finished(r) ==
  \/ pc[r] = "userInserted" /\ call[r].role # "org"
  \/ pc[r] \in {"orgInserted", "orgReviewRecorded", "projectInserted", "updateInserted"}

Ending ==
  \/ \E S \in SUBSET Active : End(S, "error")
  \/ \E r \in Active : Finished(r) /\ End({r}, "ok")

(* A statement that reads lets its request pass. *)
Reading(r) ==
  /\ UNCHANGED tables
  /\ \/ At(r, "register") /\ Goto(r, "nameFree")
     \/ At(r, "reviewOrg") /\ call[r].account \in orgs /\ Goto(r, "orgRead")
     \/ At(r, "publish") /\ MayPublish(call[r].account) /\ Goto(r, "orgApproved")
     \/ At(r, "postUpdate") /\ call[r].project \in projects /\ Goto(r, "projectFound")
     \/ /\ At(r, "projectFound") /\ Owns(call[r].account, call[r].project)
        /\ Goto(r, "ownerChecked")

InsertFreshUser(r) == InsertUser(r) /\ ~Taken(r)

Writing(r) ==
  \/ InsertFreshUser(r) \/ InsertOrg(r) \/ SaveOrg(r) \/ RecordOrgReview(r)
  \/ InsertProject(r) \/ InsertUpdate(r)

LEMMA StepKinds ==
  ASSUME Next
  PROVE  Ending \/ \E r \in Requests : Receive(r) \/ Reading(r) \/ Writing(r)
<1>1. CASE Crash
  BY <1>1 DEF Crash, Ending
<1>2. ASSUME NEW r \in Requests,
             Register(r) \/ ReviewOrganization(r) \/ Publish(r) \/ PostUpdate(r) \/ Fail(r)
      PROVE  Ending \/ Receive(r) \/ Reading(r) \/ Writing(r)
  <2>1. CASE r \in Active /\ Refuse(r)
    BY <2>1 DEF Refuse, Ending
  <2>2. CASE r \in Active /\ Finished(r) /\ Answer(r)
    BY <2>2 DEF Answer, Ending
  <2>3. CASE Register(r)
    BY <2>1, <2>2, <2>3
       DEF Register, CheckTaken, InsertUser, AnswerRegistration, At, Finished,
           Receive, Reading, Writing, InsertFreshUser
  <2>4. CASE ReviewOrganization(r)
    BY <2>1, <2>2, <2>4
       DEF ReviewOrganization, ReadOrg, At, Finished, Receive, Reading, Writing
  <2>5. CASE Publish(r)
    BY <2>1, <2>2, <2>5
       DEF Publish, ReadOwnOrg, At, Finished, Receive, Reading, Writing
  <2>6. CASE PostUpdate(r)
    BY <2>1, <2>2, <2>6
       DEF PostUpdate, ReadUpdatedProject, ReadAuthorOrg, At, Finished,
           Receive, Reading, Writing
  <2> QED BY <1>2, <2>1, <2>3, <2>4, <2>5, <2>6 DEF Fail
<1> QED BY <1>1, <1>2 DEF Next

-----------------------------------------------------------------------------
(* The invariant is inductive *)

LEMMA EndStep ==
  ASSUME IInv, NEW S, NEW answer \in {"ok", "error"}, S \subseteq Active, End(S, answer),
         answer = "ok" => \A r \in S : Finished(r)
  PROVE  IInv'
<1>2. /\ pc' = pc /\ call' = call /\ accounts' = accounts /\ orgs' = orgs
      /\ orgStatus' = orgStatus /\ orgReviews' = orgReviews /\ projects' = projects
      /\ updates' = updates
      /\ reply' = [r \in Requests |-> IF r \in S THEN answer ELSE reply[r]]
  BY DEF End, tables
<1>3. Typed' /\ RowsByStage' /\ FoundRows'
  BY <1>2 DEF IInv, Typed, RowsByStage, FoundRows
<1>4. CallsByStage'
  BY <1>2 DEF IInv, CallsByStage, Active
<1>5. DecidedStatus' /\ ApprovedBefore' /\ OneAccountPerName'
  BY <1>2 DEF IInv, DecidedStatus, ApprovedBefore, OneAccountPerName, Decisions, SameName
<1>6. AnsweredStages'
  BY <1>2 DEF IInv, AnsweredStages, Finished, Typed
<1> QED BY <1>3, <1>4, <1>5, <1>6 DEF IInv

LEMMA EndingStep ==
  ASSUME IInv, Ending
  PROVE  IInv'
<1>1. ASSUME NEW S \in SUBSET Active, End(S, "error")
      PROVE  IInv'
  BY <1>1, EndStep
<1>2. ASSUME NEW r \in Active, Finished(r), End({r}, "ok")
      PROVE  IInv'
  <2>1. {r} \subseteq Active /\ \A q \in {r} : Finished(q)
    BY <1>2
  <2> QED BY <1>2, <2>1, EndStep
<1> QED BY <1>1, <1>2 DEF Ending

(* A request that arrives has done nothing yet. *)
LEMMA ArriveStep ==
  ASSUME IInv, NEW r \in Requests, NEW c, NEW valid \in BOOLEAN, Arrive(r, c, valid),
         c \in Registrations \cup OrgReviews \cup Publications \cup UpdatePosts,
         valid /\ c \in OrgReviews => c.verdict \in {"approved", "rejected"}
  PROVE  IInv'
<1>2. /\ pc[r] = "idle"
      /\ c.op \in {"register", "reviewOrg", "publish", "postUpdate"}
      /\ c \in OrgReviews \/ c \in Registrations \/ c \in Publications \/ c \in UpdatePosts
      /\ c.op = "register" => c \in Registrations
      /\ c.op = "reviewOrg" => c \in OrgReviews
      /\ c.op = "publish" => c \in Publications
      /\ c.op = "postUpdate" => c \in UpdatePosts
  BY DEF Arrive, Registrations, OrgReviews, Publications, UpdatePosts
<1>3. /\ pc' = [pc EXCEPT ![r] = c.op] /\ call' = [call EXCEPT ![r] = c]
      /\ reply' = IF valid THEN reply ELSE [reply EXCEPT ![r] = "error"]
      /\ accounts' = accounts /\ orgs' = orgs
      /\ orgStatus' = orgStatus /\ orgReviews' = orgReviews /\ projects' = projects
      /\ updates' = updates
  BY DEF Arrive, tables
<1>4. Typed'
  BY <1>2, <1>3 DEF IInv, Typed, Stages
<1>5. \A q \in Requests : q # r => pc'[q] = pc[q] /\ call'[q] = call[q] /\ reply'[q] = reply[q]
  BY <1>3 DEF IInv, Typed
<1>6. pc'[r] = c.op /\ call'[r] = c
  BY <1>3 DEF IInv, Typed
<1>7. CallsByStage'
  <2>1. pc'[r] = "reviewOrg" /\ reply'[r] = "none" => c.verdict \in {"approved", "rejected"}
    BY <1>2, <1>3, <1>6 DEF IInv, Typed, Registrations, OrgReviews, Publications, UpdatePosts
  <2> QED
    BY <1>2, <1>5, <1>6, <2>1
       DEF IInv, CallsByStage, UserStages, ReadOrgStages, ApprovedStages, FoundStages
<1>8. RowsByStage'
  BY <1>2, <1>3, <1>5, <1>6 DEF IInv, RowsByStage, UserStages
<1>9. FoundRows' /\ AnsweredStages'
  BY <1>2, <1>3, <1>5, <1>6
     DEF IInv, FoundRows, AnsweredStages, ReadOrgStages, ApprovedStages, FoundStages, Typed
<1>10. \A a : Decisions(a)' = Decisions(a)
  BY <1>2, <1>5, <1>6 DEF Decisions, DecisionStages
<1>11. \A a : \A q \in Decisions(a) : call'[q] = call[q]
  BY <1>2, <1>5 DEF Decisions, DecisionStages
<1>12. DecidedStatus' /\ ApprovedBefore'
  BY <1>2, <1>3, <1>5, <1>6, <1>10, <1>11
     DEF IInv, DecidedStatus, ApprovedBefore, DecisionStages, ApprovedStages
<1>13. OneAccountPerName'
  BY <1>2, <1>3, <1>5 DEF IInv, OneAccountPerName, SameName, RowsByStage, UserStages
<1> QED BY <1>4, <1>7, <1>8, <1>9, <1>12, <1>13 DEF IInv

LEMMA ReceiveStep ==
  ASSUME IInv, NEW r \in Requests, Receive(r)
  PROVE  IInv'
<1>1. CASE ReceiveRegistration(r) \/ ReceivePublication(r) \/ ReceiveUpdate(r)
  <2>1. PICK c \in Registrations \cup Publications \cup UpdatePosts : Arrive(r, c, TRUE)
    BY <1>1 DEF ReceiveRegistration, ReceivePublication, ReceiveUpdate
  <2>2. c \notin OrgReviews
    BY DEF Registrations, OrgReviews, Publications, UpdatePosts
  <2> QED BY <2>1, <2>2, ArriveStep
<1>2. CASE ReceiveOrgReview(r)
  <2>1. PICK c \in OrgReviews : Arrive(r, c, c.verdict \in {"approved", "rejected"})
    BY <1>2 DEF ReceiveOrgReview
  <2>2. CASE c.verdict \in {"approved", "rejected"}
    <3>1. Arrive(r, c, TRUE)
      BY <2>1, <2>2 DEF Arrive
    <3> QED BY <2>2, <3>1, ArriveStep
  <2>3. CASE c.verdict \notin {"approved", "rejected"}
    <3>1. Arrive(r, c, FALSE)
      BY <2>1, <2>3 DEF Arrive
    <3> QED BY <2>3, <3>1, ArriveStep
  <2> QED BY <2>2, <2>3
<1> QED BY <1>1, <1>2 DEF Receive

LEMMA ReadingStep ==
  ASSUME IInv, NEW r \in Requests, Reading(r)
  PROVE  IInv'
<1>1. /\ call' = call /\ reply' = reply /\ accounts' = accounts /\ orgs' = orgs
      /\ orgStatus' = orgStatus /\ orgReviews' = orgReviews /\ projects' = projects
      /\ updates' = updates
  BY DEF Reading, Goto, tables
<1>2. PICK from, to :
        /\ reply[r] = "none" /\ pc[r] = from /\ pc' = [pc EXCEPT ![r] = to]
        /\ \/ from = "register" /\ to = "nameFree"
           \/ from = "reviewOrg" /\ to = "orgRead" /\ call[r].account \in orgs
           \/ from = "publish" /\ to = "orgApproved" /\ MayPublish(call[r].account)
           \/ from = "postUpdate" /\ to = "projectFound" /\ call[r].project \in projects
           \/ from = "projectFound" /\ to = "ownerChecked"
  BY DEF Reading, Goto, At, Active
<1>3. pc'[r] = to /\ \A q \in Requests : q # r => pc'[q] = pc[q]
  BY <1>2 DEF IInv, Typed
<1>4. Typed' /\ RowsByStage'
  BY <1>1, <1>2, <1>3 DEF IInv, Typed, Stages, RowsByStage, UserStages
<1>5. CallsByStage'
  BY <1>1, <1>2, <1>3
     DEF IInv, CallsByStage, UserStages, ReadOrgStages, ApprovedStages, FoundStages
<1>6. FoundRows' /\ AnsweredStages'
  BY <1>1, <1>2, <1>3
     DEF IInv, FoundRows, AnsweredStages, MayPublish, ReadOrgStages, ApprovedStages, FoundStages
<1>7. \A a : Decisions(a)' = Decisions(a)
  BY <1>1, <1>2, <1>3 DEF Decisions, DecisionStages
<1>8. DecidedStatus'
  BY <1>1, <1>2, <1>3, <1>7 DEF IInv, DecidedStatus, DecisionStages
<1>9. ApprovedBefore'
  <2>1. to = "orgApproved" => \E q \in Decisions(call[r].account) : call[q].verdict = "approved"
    <3>1. CASE to = "orgApproved"
      <4>1. /\ call[r].account \in Requests
            /\ orgStatus[call[r].account] = "approved"
        BY <1>2, <3>1 DEF IInv, RowsByStage, MayPublish
      <4> QED BY <4>1 DEF IInv, DecidedStatus
    <3> QED BY <3>1
  <2> QED BY <1>1, <1>2, <1>3, <1>7, <2>1 DEF IInv, ApprovedBefore, ApprovedStages
<1>10. OneAccountPerName'
  BY <1>1 DEF IInv, OneAccountPerName, SameName
<1> QED BY <1>4, <1>5, <1>6, <1>8, <1>9, <1>10 DEF IInv

(* A write adds at most the row of its request, and one review decides one *)
(* status.                                                                 *)
LEMMA WritingStep ==
  ASSUME IInv, NEW r \in Requests, Writing(r)
  PROVE  IInv'
<1>1. PICK from, to :
        /\ call' = call /\ reply' = reply /\ reply[r] = "none"
        /\ pc[r] = from /\ pc' = [pc EXCEPT ![r] = to]
        /\ \/ from = "nameFree" /\ to = "userInserted" /\ InsertFreshUser(r)
           \/ from = "userInserted" /\ to = "orgInserted" /\ InsertOrg(r)
           \/ from = "orgRead" /\ to = "orgSaved" /\ SaveOrg(r)
           \/ from = "orgSaved" /\ to = "orgReviewRecorded" /\ RecordOrgReview(r)
           \/ from = "orgApproved" /\ to = "projectInserted" /\ InsertProject(r)
           \/ from = "ownerChecked" /\ to = "updateInserted" /\ InsertUpdate(r)
  BY DEF Writing, InsertFreshUser, InsertUser, InsertOrg, SaveOrg, RecordOrgReview,
         InsertProject, InsertUpdate, At, Active, Goto, Refuse, End
<1>2. pc'[r] = to /\ \A q \in Requests : q # r => pc'[q] = pc[q]
  BY <1>1 DEF IInv, Typed
<1>3. /\ accounts' = accounts \cup {q \in {r} : to = "userInserted"}
      /\ orgs' = orgs \cup {q \in {r} : to = "orgInserted"}
      /\ orgReviews' = orgReviews \cup {q \in {r} : to = "orgReviewRecorded"}
      /\ projects' = projects \cup {q \in {r} : to = "projectInserted"}
      /\ updates' = updates \cup {q \in {r} : to = "updateInserted"}
  BY <1>1 DEF InsertFreshUser, InsertUser, InsertOrg, SaveOrg, RecordOrgReview,
              InsertProject, InsertUpdate, Refuse, End, tables, Goto
<1>4. orgStatus' = IF to = "orgInserted" THEN [orgStatus EXCEPT ![r] = "pending"]
                   ELSE IF to = "orgSaved"
                        THEN [orgStatus EXCEPT ![call[r].account] = call[r].verdict]
                        ELSE orgStatus
  BY <1>1 DEF InsertFreshUser, InsertUser, InsertOrg, SaveOrg, RecordOrgReview,
              InsertProject, InsertUpdate, Refuse, End, tables
<1>5. Typed'
  <2>1. to = "orgSaved" => call[r].verdict \in OrgStatuses
    BY <1>1 DEF IInv, CallsByStage, ReadOrgStages, OrgStatuses
  <2> QED BY <1>1, <1>4, <2>1 DEF IInv, Typed, Stages, OrgStatuses
<1>6. CallsByStage'
  <2>1. to = "orgInserted" => call[r].role = "org"
    BY <1>1 DEF InsertOrg
  <2> QED
    BY <1>1, <1>2, <2>1
       DEF IInv, CallsByStage, UserStages, ReadOrgStages, ApprovedStages, FoundStages
<1>7. RowsByStage'
  BY <1>1, <1>2, <1>3 DEF IInv, RowsByStage, UserStages
<1>8. FoundRows' /\ AnsweredStages'
  BY <1>1, <1>2, <1>3
     DEF IInv, FoundRows, AnsweredStages, ReadOrgStages, ApprovedStages, FoundStages
<1>9. \A a : /\ Decisions(a) \subseteq Decisions(a)'
             /\ to \notin DecisionStages => Decisions(a)' = Decisions(a)
  BY <1>1, <1>2 DEF Decisions, DecisionStages
<1>10. ApprovedBefore'
  <2>1. to \in ApprovedStages => from \in ApprovedStages
    BY <1>1 DEF ApprovedStages
  <2> QED BY <1>1, <1>2, <1>9, <2>1 DEF IInv, ApprovedBefore
<1>11. DecidedStatus'
  <2>1. CASE to = "orgInserted"
    <3>1. \A q \in Requests : pc'[q] \in DecisionStages => pc[q] \in DecisionStages
      BY <1>2, <2>1 DEF DecisionStages
    <3>2. \A q \in Requests : pc[q] \in DecisionStages => call[q].account # r
      BY <1>1, <2>1 DEF IInv, FoundRows, RowsByStage, DecisionStages, ReadOrgStages
    <3>3. orgStatus' = [orgStatus EXCEPT ![r] = "pending"]
      BY <1>4, <2>1
    <3>4. \A a : Decisions(a)' = Decisions(a)
      BY <1>9, <2>1 DEF DecisionStages
    <3> QED BY <1>1, <3>1, <3>2, <3>3, <3>4 DEF IInv, DecidedStatus, Typed
  <2>2. CASE to = "orgSaved"
    <3> DEFINE o == call[r].account
    <3>1. /\ o \in Requests /\ call[r].verdict \in {"approved", "rejected"}
          /\ orgStatus' = [orgStatus EXCEPT ![o] = call[r].verdict]
      BY <1>1, <1>4, <2>2
         DEF IInv, CallsByStage, FoundRows, RowsByStage, ReadOrgStages
    <3>2. orgStatus'[o] = call[r].verdict /\ \A a \in Requests : a # o => orgStatus'[a] = orgStatus[a]
      BY <3>1 DEF IInv, Typed
    <3>3. \A a \in Requests : orgStatus'[a] # "pending" =>
             \E q \in Decisions(a)' : call[q].verdict = orgStatus'[a]
      <4> SUFFICES ASSUME NEW a \in Requests, orgStatus'[a] # "pending"
                   PROVE  \E q \in Decisions(a)' : call[q].verdict = orgStatus'[a]
        OBVIOUS
      <4>1. CASE a = o
        <5>1. r \in Decisions(a)'
          BY <1>1, <1>2, <2>2, <4>1 DEF Decisions, DecisionStages
        <5> QED BY <3>2, <4>1, <5>1
      <4>2. CASE a # o
        <5>1. PICK q \in Decisions(a) : call[q].verdict = orgStatus[a]
          BY <3>2, <4>2 DEF IInv, DecidedStatus
        <5>2. q \in Decisions(a)'
          BY <1>9
        <5> QED BY <3>2, <4>2, <5>1, <5>2
      <4> QED BY <4>1, <4>2
    <3>4. \A q \in Requests : pc'[q] \in DecisionStages =>
            orgStatus'[call[q].account] # "pending"
      <4> SUFFICES ASSUME NEW q \in Requests, pc'[q] \in DecisionStages
                   PROVE  orgStatus'[call[q].account] # "pending"
        OBVIOUS
      <4>1. CASE call[q].account = o
        BY <3>1, <3>2, <4>1
      <4>2. CASE call[q].account # o
        <5>1. q # r /\ pc[q] \in DecisionStages
          BY <1>2, <4>2
        <5>2. call[q].account \in Requests
          BY <5>1 DEF IInv, FoundRows, RowsByStage, DecisionStages, ReadOrgStages
        <5> QED BY <3>2, <4>2, <5>1, <5>2 DEF IInv, DecidedStatus
      <4> QED BY <4>1, <4>2
    <3> QED BY <1>1, <3>3, <3>4 DEF DecidedStatus
  <2>3. CASE to \notin {"orgInserted", "orgSaved"}
    <3>1. orgStatus' = orgStatus
      BY <1>4, <2>3
    <3>2. \A q \in Requests : pc'[q] \in DecisionStages => pc[q] \in DecisionStages
      BY <1>1, <1>2, <2>3 DEF DecisionStages
    <3> QED BY <1>1, <1>9, <3>1, <3>2 DEF IInv, DecidedStatus
  <2> QED BY <2>1, <2>2, <2>3
<1>12. OneAccountPerName'
  <2>1. CASE to = "userInserted"
    <3>1. \A a \in accounts : ~SameName(a, r) /\ ~SameName(r, a)
      BY <1>1, <2>1 DEF InsertFreshUser, Taken, SameName
    <3>2. accounts' = accounts \cup {r}
      BY <1>3, <2>1
    <3> QED BY <1>1, <3>1, <3>2 DEF IInv, OneAccountPerName, SameName
  <2>2. CASE to # "userInserted"
    BY <1>1, <1>3, <2>2 DEF IInv, OneAccountPerName, SameName
  <2> QED BY <2>1, <2>2
<1> QED BY <1>5, <1>6, <1>7, <1>8, <1>10, <1>11, <1>12 DEF IInv

LEMMA Invariant == Spec => []IInv
<1>1. IInv /\ UNCHANGED vars => IInv'
  BY DEF IInv, vars, tables, Typed, CallsByStage, RowsByStage, FoundRows, DecidedStatus,
         ApprovedBefore, AnsweredStages, OneAccountPerName, SameName, Decisions
<1>2. IInv /\ [Next]_vars => IInv'
  BY <1>1, StepKinds, EndingStep, ReceiveStep, ReadingStep, WritingStep
<1> QED BY <1>2, InitInv, PTL DEF Spec

-----------------------------------------------------------------------------
(* Theorems *)

(* Variables have their types and every row names rows that exist.         *)
THEOREM Typing == Spec => []TypeOK
<1>1. ASSUME IInv
      PROVE  TypeOK
  <2>1. pc \in [Requests -> Stages] /\ reply \in [Requests -> {"none", "ok", "error"}]
          /\ orgStatus \in [Requests -> OrgStatuses]
    BY <1>1 DEF IInv, Typed
  <2>2. \A r \in Requests :
          call[r] \in Registrations \cup OrgReviews \cup Publications
                        \cup UpdatePosts \cup {NoCall}
    BY <1>1, <2>1 DEF IInv, CallsByStage, Stages, UserStages, ReadOrgStages,
                      ApprovedStages, FoundStages
  <2>3. \A a \in accounts : a \in Requests /\ call[a] \in Registrations
    BY <1>1 DEF IInv, CallsByStage, RowsByStage
  <2>4. \A o \in orgs : o \in accounts /\ call[o].role = "org"
    BY <1>1 DEF IInv, CallsByStage, RowsByStage, UserStages
  <2>5. /\ \A v \in orgReviews : call[v] \in OrgReviews /\ call[v].account \in orgs
        /\ \A p \in projects : call[p] \in Publications /\ call[p].account \in orgs
        /\ \A u \in updates : call[u] \in UpdatePosts /\ call[u].project \in projects
    BY <1>1 DEF IInv, CallsByStage, RowsByStage, FoundRows, ReadOrgStages,
                ApprovedStages, FoundStages
  <2> QED BY <2>1, <2>2, <2>3, <2>4, <2>5 DEF TypeOK
<1> QED BY <1>1, Invariant, PTL

(* However many registrations race for a name, one account has it.         *)
THEOREM UniqueNames == Spec => []OneAccountPerName
<1>1. IInv => OneAccountPerName
  BY DEF IInv
<1> QED BY <1>1, Invariant, PTL

(* Every success that was answered has happened in full and stays.         *)
THEOREM HonestAnswers == Spec => []SuccessMeansDone
<1>1. ASSUME IInv, NEW r \in Requests, reply[r] = "ok"
      PROVE  CASE call[r].op = "register" ->
                    r \in accounts /\ (call[r].role = "org" => r \in orgs)
               [] call[r].op = "reviewOrg" -> r \in orgReviews
               [] call[r].op = "publish" -> r \in projects
               [] OTHER -> r \in updates
  BY <1>1 DEF IInv, AnsweredStages, CallsByStage, RowsByStage, UserStages, ReadOrgStages,
              ApprovedStages, FoundStages, Registrations, OrgReviews, Publications, UpdatePosts
<1>2. IInv => SuccessMeansDone
  BY <1>1 DEF SuccessMeansDone
<1> QED BY <1>2, Invariant, PTL

(* Every project was published for an organization approved by an          *)
(* administrator, whose status is still one that an administrator decided. *)
THEOREM ApprovedPublishers == Spec => []PublishedByApprovedOrg
<1>1. ASSUME IInv, NEW p \in projects
      PROVE  /\ \E q \in Decisions(call[p].account) : call[q].verdict = "approved"
             /\ \E q \in Decisions(call[p].account) :
                  call[q].verdict = orgStatus[call[p].account]
  <2>1. p \in Requests /\ pc[p] = "projectInserted" /\ call[p].account \in Requests
    BY <1>1 DEF IInv, RowsByStage, FoundRows, ApprovedStages
  <2>2. PICK q \in Decisions(call[p].account) : call[q].verdict = "approved"
    BY <1>1, <2>1 DEF IInv, ApprovedBefore, ApprovedStages
  <2>3. orgStatus[call[p].account] # "pending"
    BY <1>1, <2>2 DEF IInv, DecidedStatus, Decisions
  <2> QED BY <1>1, <2>1, <2>2, <2>3 DEF IInv, DecidedStatus
<1>2. IInv => PublishedByApprovedOrg
  BY <1>1 DEF PublishedByApprovedOrg
<1> QED BY <1>2, Invariant, PTL

-----------------------------------------------------------------------------
(* The registry.  The call of a request is fixed once it has arrived, so   *)
(* the owner an author was compared with is still the owner when the       *)
(* update is inserted.                                                     *)
OwnersPost ==
  \A r \in Requests : pc[r] = "ownerChecked" =>
    call[call[r].project].account = call[r].account

LEMMA CallsStay ==
  ASSUME IInv, [Next]_vars
  PROVE  \A q \in Requests : pc[q] # "idle" => call'[q] = call[q]
<1>1. CASE Ending
  BY <1>1 DEF Ending, End
<1>2. ASSUME NEW r \in Requests, Receive(r)
      PROVE  \A q \in Requests : pc[q] # "idle" => call'[q] = call[q]
  <2>1. PICK c : pc[r] = "idle" /\ call' = [call EXCEPT ![r] = c]
    BY <1>2 DEF Receive, ReceiveRegistration, ReceiveOrgReview, ReceivePublication,
                ReceiveUpdate, Arrive
  <2> QED BY <2>1
<1>3. ASSUME NEW r \in Requests, Reading(r) \/ Writing(r)
      PROVE  call' = call
  BY <1>3 DEF Reading, Writing, InsertFreshUser, InsertUser, InsertOrg, SaveOrg,
              RecordOrgReview, InsertProject, InsertUpdate, Goto, Refuse, End
<1>4. CASE UNCHANGED vars
  BY <1>4 DEF vars
<1> QED BY <1>1, <1>2, <1>3, <1>4, StepKinds

LEMMA OwnersStep ==
  ASSUME IInv, OwnersPost, [Next]_vars
  PROVE  OwnersPost'
<1> SUFFICES ASSUME NEW q \in Requests, pc'[q] = "ownerChecked"
             PROVE  call'[call'[q].project].account = call'[q].account
  BY DEF OwnersPost
<1>1. ASSUME pc[q] \in FoundStages, call[call[q].project].account = call[q].account
      PROVE  call'[call'[q].project].account = call'[q].account
  <2>1. call[q].project \in projects
    BY <1>1 DEF IInv, FoundRows
  <2>2. call[q].project \in Requests /\ pc[call[q].project] # "idle"
    BY <2>1 DEF IInv, RowsByStage
  <2>3. pc[q] # "idle"
    BY <1>1 DEF FoundStages
  <2> QED BY <1>1, <2>2, <2>3, CallsStay
<1>2. CASE pc[q] = "ownerChecked"
  BY <1>1, <1>2 DEF OwnersPost, FoundStages
<1>3. CASE pc[q] # "ownerChecked"
  <2>1. ~Ending /\ ~UNCHANGED vars
    BY <1>3 DEF Ending, End, vars
  <2>2. ASSUME NEW r \in Requests, Receive(r)
        PROVE  FALSE
    <3>1. PICK c \in Registrations \cup OrgReviews \cup Publications \cup UpdatePosts :
            pc' = [pc EXCEPT ![r] = c.op]
      BY <2>2 DEF Receive, ReceiveRegistration, ReceiveOrgReview, ReceivePublication,
                  ReceiveUpdate, Arrive
    <3>2. c.op # "ownerChecked"
      BY DEF Registrations, OrgReviews, Publications, UpdatePosts
    <3> QED BY <1>3, <3>1, <3>2 DEF IInv, Typed
  <2>3. ASSUME NEW r \in Requests, Writing(r)
        PROVE  FALSE
    <3>1. PICK s : pc' = [pc EXCEPT ![r] = s] /\ s # "ownerChecked"
      BY <2>3 DEF Writing, InsertFreshUser, InsertUser, InsertOrg, SaveOrg,
                  RecordOrgReview, InsertProject, InsertUpdate, Goto, Refuse, End
    <3> QED BY <1>3, <3>1 DEF IInv, Typed
  <2>4. PICK r \in Requests : Reading(r)
    BY <2>1, <2>2, <2>3, StepKinds
  <2>5. q = r /\ pc[r] = "projectFound" /\ Owns(call[r].account, call[r].project)
    BY <1>3, <2>4 DEF Reading, Goto, At, IInv, Typed
  <2> QED BY <1>1, <2>5 DEF Owns, FoundStages
<1> QED BY <1>2, <1>3

LEMMA OwnersAlways == Spec => []OwnersPost
<1>1. Init => OwnersPost
  BY DEF Init, OwnersPost
<1> QED BY <1>1, OwnersStep, Invariant, PTL DEF Spec

(* What the registry sees of a state. *)
Members == {Card(a) : a \in accounts}
StatusTable == [o \in orgs |-> orgStatus[o]]
Permitted == {q \in Active : pc[q] = "orgApproved"}
Permits == {Publication(r) : r \in Permitted}
Published == {Publication(p) : p \in projects}
Announced == {[update |-> u, project |-> call[u].project] : u \in updates}

(* It does not change with calls that arrive: rows are of older requests.  *)
LEMMA RowsAreOld ==
  ASSUME IInv, NEW q \in accounts \cup projects \cup updates \cup Permitted
  PROVE  q \in Requests /\ pc[q] # "idle"
BY DEF IInv, RowsByStage, UserStages, Permitted, Active

LEMMA ViewStays ==
  ASSUME IInv, [Next]_vars
  PROVE  /\ accounts' = accounts => Members' = Members
         /\ orgs' = orgs /\ orgStatus' = orgStatus => StatusTable' = StatusTable
         /\ Permitted' = Permitted => Permits' = Permits
         /\ projects' = projects => Published' = Published
         /\ updates' = updates => Announced' = Announced
<1>1. \A q \in accounts \cup projects \cup updates \cup Permitted : call'[q] = call[q]
  BY RowsAreOld, CallsStay
<1>2. accounts' = accounts => Members' = Members
  BY <1>1 DEF Members, Card
<1>3. orgs' = orgs /\ orgStatus' = orgStatus => StatusTable' = StatusTable
  BY DEF StatusTable
<1>4. Permitted' = Permitted => Permits' = Permits
  BY <1>1 DEF Permits, Publication
<1>5. projects' = projects => Published' = Published
  BY <1>1 DEF Published, Publication
<1>6. updates' = updates => Announced' = Announced
  BY <1>1 DEF Announced
<1> QED BY <1>2, <1>3, <1>4, <1>5, <1>6

LEMMA PermittedMove ==
  ASSUME IInv, NEW r \in Active, NEW s, Goto(r, s)
  PROVE  Permitted' = IF s = "orgApproved" THEN Permitted \cup {r} ELSE Permitted \ {r}
BY DEF IInv, Typed, Goto, Permitted, Active

(* A request that arrives or ends, or reads a row, shows at most in the    *)
(* permits.                                                                *)
LEMMA EndingView ==
  ASSUME IInv, Ending
  PROVE  Official!RegistryNext
<1>1. PICK S \in SUBSET Active, answer \in {"ok", "error"} : End(S, answer)
  BY DEF Ending
<1>2. UNCHANGED <<tables, call, pc>> /\ Permitted' \subseteq Permitted
  BY <1>1 DEF End, Permitted, Active
<1>3. /\ Permits' \subseteq Permits
      /\ UNCHANGED <<Members, StatusTable, Published, Announced>>
  BY <1>2 DEF tables, Permits, Publication, Members, Card, StatusTable, Published, Announced
<1>4. Official!Lapse
  BY <1>3 DEF Official!Lapse, Members, StatusTable, Permits, Permitted, Published, Announced
<1> QED BY <1>4 DEF Official!RegistryNext

LEMMA ReceiveView ==
  ASSUME IInv, [Next]_vars, NEW r \in Requests, Receive(r)
  PROVE  UNCHANGED <<Members, StatusTable, Permits, Published, Announced>>
<1>1. PICK c \in Registrations \cup OrgReviews \cup Publications \cup UpdatePosts :
        /\ pc[r] = "idle" /\ pc' = [pc EXCEPT ![r] = c.op]
        /\ reply' \in {reply, [reply EXCEPT ![r] = "error"]}
        /\ UNCHANGED tables
  BY DEF Receive, ReceiveRegistration, ReceiveOrgReview, ReceivePublication, ReceiveUpdate,
         Arrive
<1>2. c.op # "orgApproved"
  BY DEF Registrations, OrgReviews, Publications, UpdatePosts
<1>3. Permitted' = Permitted
  BY <1>1, <1>2 DEF IInv, Typed, Permitted, Active
<1> QED BY <1>1, <1>3, ViewStays DEF tables

LEMMA ReadingView ==
  ASSUME IInv, [Next]_vars, NEW r \in Requests, Reading(r)
  PROVE  \/ UNCHANGED <<Members, StatusTable, Permits, Published, Announced>>
         \/ Official!RegistryNext
<1>1. UNCHANGED tables /\ call' = call /\ r \in Active
  BY DEF Reading, Goto, At
<1>2. UNCHANGED <<Members, StatusTable, Published, Announced>>
  BY <1>1, ViewStays DEF tables
<1>3. CASE At(r, "publish") /\ MayPublish(call[r].account) /\ Goto(r, "orgApproved")
  <2> DEFINE o == call[r].account
  <2>1. o \in orgs /\ o \in Requests /\ orgStatus[o] = "approved"
    BY <1>3 DEF MayPublish, IInv, RowsByStage
  <2>2. o \in DOMAIN StatusTable /\ StatusTable[o] = "approved"
    BY <2>1 DEF StatusTable
  <2>3. Permitted' = Permitted \cup {r}
    BY <1>1, <1>3, PermittedMove
  <2>4. Permits' = Permits \cup {[project |-> r, org |-> o]}
    BY <1>1, <2>3 DEF Permits, Publication
  <2>5. Official!Permit(o, r)
    BY <1>2, <2>2, <2>4
       DEF Official!Permit, Members, StatusTable, Permits, Permitted, Published, Announced
  <2> QED BY <2>1, <2>5 DEF Official!RegistryNext
<1>4. CASE \E s : s # "orgApproved" /\ pc[r] # "orgApproved" /\ Goto(r, s)
  <2>1. Permitted' = Permitted
    BY <1>1, <1>4, PermittedMove DEF Permitted
  <2> QED BY <1>1, <1>2, <2>1, ViewStays DEF tables
<1> QED BY <1>3, <1>4 DEF Reading, At

(* Each statement that writes is the step the registry has for it.         *)
LEMMA JoinView ==
  ASSUME IInv, [Next]_vars, NEW r \in Requests, InsertFreshUser(r)
  PROVE  Official!RegistryNext
<1>1. /\ r \in Active /\ pc[r] = "nameFree" /\ Goto(r, "userInserted")
      /\ accounts' = accounts \cup {r}
      /\ UNCHANGED <<orgs, orgStatus, orgReviews, projects, updates>>
  BY DEF InsertFreshUser, InsertUser, At
<1>2. call' = call /\ Permitted' = Permitted
  BY <1>1, PermittedMove DEF Goto, Permitted
<1>3. /\ Members' = Members \cup {Card(r)}
      /\ UNCHANGED <<StatusTable, Permits, Published, Announced>>
  BY <1>1, <1>2, ViewStays DEF Members, Card
<1>4. \A other \in Members :
        Card(r).username # other.username /\ Card(r).email # other.email
  BY DEF InsertFreshUser, Taken, SameName, Members, Card
<1>5. Card(r) \in Official!Cards
  <2>1. call[r] \in Registrations
    BY <1>1 DEF IInv, CallsByStage
  <2> QED BY <2>1 DEF Official!Cards, Card, Registrations
<1>6. Official!Join(Card(r))
  BY <1>3, <1>4
     DEF Official!Join, Members, StatusTable, Permits, Permitted, Published, Announced
<1>7. \E m \in Official!Cards : Official!Join(m) \/ Official!Found(m)
  BY <1>5, <1>6, Zenon
<1> QED BY <1>7, Zenon DEF Official!RegistryNext

LEMMA FoundView ==
  ASSUME IInv, [Next]_vars, NEW r \in Requests, InsertOrg(r)
  PROVE  Official!RegistryNext
<1>1. /\ r \in Active /\ pc[r] = "userInserted" /\ Goto(r, "orgInserted")
      /\ call[r].role = "org"
      /\ orgs' = orgs \cup {r} /\ orgStatus' = [orgStatus EXCEPT ![r] = "pending"]
      /\ UNCHANGED <<accounts, orgReviews, projects, updates>>
  BY DEF InsertOrg, At
<1>2. call' = call /\ Permitted' = Permitted
  BY <1>1, PermittedMove DEF Goto, Permitted
<1>3. UNCHANGED <<Members, Permits, Published, Announced>>
  BY <1>1, <1>2, ViewStays
<1>4. Card(r) \in Members /\ r \notin DOMAIN StatusTable
  BY <1>1 DEF IInv, RowsByStage, UserStages, Members, StatusTable
<1>5. StatusTable' = [o \in DOMAIN StatusTable \cup {r} |->
                        IF o = r THEN "pending" ELSE StatusTable[o]]
  BY <1>1 DEF StatusTable, IInv, Typed, RowsByStage
<1>6. Card(r) \in Official!Cards /\ Card(r).role = "org" /\ Card(r).id = r
  <2>1. call[r] \in Registrations
    BY <1>1 DEF IInv, CallsByStage, UserStages
  <2> QED BY <1>1, <2>1 DEF Official!Cards, Card, Registrations
<1>7. PICK m \in Official!Cards : m = Card(r)
  BY <1>6
<1>8. Official!Found(m)
  BY <1>3, <1>4, <1>5, <1>6, <1>7
     DEF Official!Found, Members, StatusTable, Permits, Permitted, Published, Announced
<1> QED BY <1>7, <1>8, Zenon DEF Official!RegistryNext

LEMMA DecideView ==
  ASSUME IInv, [Next]_vars, NEW r \in Requests, SaveOrg(r)
  PROVE  Official!RegistryNext
<1>0. PICK o, v : o = call[r].account /\ v = call[r].verdict
  OBVIOUS
<1>1. /\ r \in Active /\ pc[r] = "orgRead" /\ Goto(r, "orgSaved")
      /\ orgStatus' = [orgStatus EXCEPT ![o] = v]
      /\ UNCHANGED <<accounts, orgs, orgReviews, projects, updates>>
  BY <1>0 DEF SaveOrg, At
<1>2. call' = call /\ Permitted' = Permitted
  BY <1>1, PermittedMove DEF Goto, Permitted
<1>3. UNCHANGED <<Members, Permits, Published, Announced>>
  BY <1>1, <1>2, ViewStays
<1>4. o \in orgs /\ o \in Requests /\ v \in {"approved", "rejected"}
  BY <1>0, <1>1 DEF IInv, FoundRows, CallsByStage, RowsByStage, ReadOrgStages
<1>5. o \in DOMAIN StatusTable /\ StatusTable' = [StatusTable EXCEPT ![o] = v]
  BY <1>1, <1>4 DEF StatusTable, IInv, Typed, RowsByStage
<1>6. Official!Decide(o, v)
  BY <1>3, <1>5
     DEF Official!Decide, Members, StatusTable, Permits, Permitted, Published, Announced
<1> QED BY <1>4, <1>6, Zenon DEF Official!RegistryNext

LEMMA PublishView ==
  ASSUME IInv, [Next]_vars, NEW r \in Requests, InsertProject(r)
  PROVE  Official!RegistryNext
<1>1. /\ r \in Active /\ pc[r] = "orgApproved" /\ Goto(r, "projectInserted")
      /\ projects' = projects \cup {r}
      /\ UNCHANGED <<accounts, orgs, orgStatus, orgReviews, updates>>
  BY DEF InsertProject, At
<1>2. call' = call /\ r \in Permitted /\ Permitted' = Permitted \ {r}
  <2>1. r \in Permitted
    BY <1>1 DEF Permitted
  <2>2. Permitted' = Permitted \ {r}
    BY <1>1, PermittedMove
  <2> QED BY <1>1, <2>1, <2>2 DEF Goto
<1>3. UNCHANGED <<Members, StatusTable, Announced>>
  BY <1>1, ViewStays
<1>4. \A q : Publication(q)' = Publication(q) /\ (Publication(q) = Publication(r) => q = r)
  BY <1>2 DEF Publication
<1>5. Publication(r) \in Permits /\ Permits' = Permits \ {Publication(r)}
  BY <1>2, <1>4 DEF Permits
<1>6. Published' = Published \cup {Publication(r)}
  BY <1>1, <1>4 DEF Published
<1>7. PICK permit \in Permits : permit = Publication(r)
  BY <1>5
<1>8. Official!Publish(permit)
  BY <1>3, <1>5, <1>6, <1>7
     DEF Official!Publish, Members, StatusTable, Permits, Permitted, Published, Announced
<1> QED BY <1>7, <1>8, Zenon DEF Official!RegistryNext, Permits, Permitted

LEMMA AnnounceView ==
  ASSUME IInv, OwnersPost, [Next]_vars, NEW r \in Requests, InsertUpdate(r)
  PROVE  Official!RegistryNext
<1> DEFINE o == call[r].account
           p == call[r].project
<1>1. /\ r \in Active /\ pc[r] = "ownerChecked" /\ Goto(r, "updateInserted")
      /\ updates' = updates \cup {r}
      /\ UNCHANGED <<accounts, orgs, orgStatus, orgReviews, projects>>
  BY DEF InsertUpdate, At
<1>2. call' = call /\ Permitted' = Permitted
  BY <1>1, PermittedMove DEF Goto, Permitted
<1>3. UNCHANGED <<Members, StatusTable, Permits, Published>>
  BY <1>1, <1>2, ViewStays
<1>4. p \in projects /\ p \in Requests /\ pc[p] = "projectInserted" /\ call[p].account = o
  BY <1>1 DEF IInv, FoundRows, FoundStages, RowsByStage, OwnersPost
<1>5. o \in Requests
  BY <1>4 DEF IInv, FoundRows, ApprovedStages, RowsByStage
<1>6. [project |-> p, org |-> o] \in Published
  BY <1>4 DEF Published, Publication
<1>7. Announced' = Announced \cup {[update |-> r, project |-> p]}
  BY <1>1, <1>2 DEF Announced
<1>8. Official!Announce(o, p, r)
  BY <1>3, <1>6, <1>7
     DEF Official!Announce, Members, StatusTable, Permits, Permitted, Published, Announced
<1> QED BY <1>4, <1>5, <1>8 DEF Official!RegistryNext

LEMMA RecordView ==
  ASSUME IInv, [Next]_vars, NEW r \in Requests, RecordOrgReview(r)
  PROVE  UNCHANGED <<Members, StatusTable, Permits, Published, Announced>>
<1>1. /\ r \in Active /\ pc[r] = "orgSaved" /\ Goto(r, "orgReviewRecorded")
      /\ UNCHANGED <<accounts, orgs, orgStatus, projects, updates>>
  BY DEF RecordOrgReview, At
<1>2. Permitted' = Permitted
  BY <1>1, PermittedMove DEF Permitted
<1> QED BY <1>1, <1>2, ViewStays

(* All requests together keep the registry: one account per name, permits  *)
(* only from an approval in force, projects only from permits, updates     *)
(* only from the organization that owns the project.                       *)
THEOREM RegistryKept == Spec => KeepsRegistry
<1>1. Init => Official!RegistryInit
  <2> SUFFICES ASSUME Init
               PROVE  Official!RegistryInit
    OBVIOUS
  <2>1. /\ accounts = {} /\ orgs = {} /\ projects = {} /\ updates = {}
        /\ \A r \in Requests : pc[r] = "idle"
    BY DEF Init
  <2> QED BY <2>1 DEF Official!RegistryInit, Active
<1>2. IInv /\ OwnersPost /\ [Next]_vars => [Official!RegistryNext]_(Official!registryVars)
  <2> SUFFICES ASSUME IInv, OwnersPost, [Next]_vars
               PROVE  Official!RegistryNext \/ UNCHANGED Official!registryVars
    OBVIOUS
  <2>1. CASE UNCHANGED <<Members, StatusTable, Permits, Published, Announced>>
    BY <2>1 DEF Official!registryVars, Members, StatusTable, Permits, Permitted,
                Published, Announced
  <2>2. CASE UNCHANGED vars
    <3>1. Permitted' = Permitted
      BY <2>2 DEF vars, Permitted, Active
    <3> QED BY <2>1, <2>2, <3>1, ViewStays DEF vars, tables
  <2>3. CASE Ending
    BY <2>3, EndingView
  <2>4. ASSUME NEW r \in Requests, Receive(r) \/ Reading(r) \/ Writing(r)
        PROVE  Official!RegistryNext \/ UNCHANGED Official!registryVars
    BY <2>1, <2>4, ReceiveView, ReadingView, JoinView, FoundView, DecideView, RecordView,
       PublishView, AnnounceView DEF Writing
  <2> QED BY <2>2, <2>3, <2>4, StepKinds
<1> QED
  BY <1>1, <1>2, Invariant, OwnersAlways, PTL
     DEF Spec, KeepsRegistry, Official!RegistrySpec
=============================================================================
