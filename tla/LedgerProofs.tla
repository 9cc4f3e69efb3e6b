---------------------------- MODULE LedgerProofs ----------------------------
(***************************************************************************)
(* Proofs about Ledger for every set of requests, users and projects, any  *)
(* amounts and any pool size.                                              *)
(***************************************************************************)
EXTENDS Ledger, FiniteSetTheorems, TLAPS

(* The nineteen actions of Next fall into nine kinds of step. *)
SomeEnd == \E S \in SUBSET Active, answer \in {"ok", "error"} : End(S, answer)

Arrival(r) == ReceiveDonation(r) \/ ReceiveReview(r) \/ ReceiveProfile(r)

Advance(r) ==
  /\ r \in Active
  /\ \/ pc[r] \in OpenStages /\ \E s \in InsertedStages : Goto(r, s)
     \/ pc[r] = "reviewSaved" /\ Goto(r, "reviewRecorded")
  /\ UNCHANGED <<tables, call, reply, seen, contested>>

Kind(r) ==
  \/ Arrival(r) \/ Advance(r)
  \/ ReadProject(r) \/ Commit(r)
  \/ ReadReviewed(r) \/ SaveReviewed(r)
  \/ ReadUser(r) \/ SaveProfile(r)

LEMMA StepKinds ==
  ASSUME Next
  PROVE  SomeEnd \/ \E r \in Requests : Kind(r)
<1>1. CASE Crash
  BY <1>1 DEF Crash, SomeEnd
<1>2. ASSUME NEW r \in Requests, AnyRequest(r)
      PROVE  SomeEnd \/ Kind(r)
  <2>1. CASE ReceiveDonation(r) \/ ReceiveReview(r) \/ ReceiveProfile(r)
    BY <2>1 DEF Kind, Arrival
  <2>2. CASE \/ RefuseDonation(r) \/ AnswerDonation(r) \/ Fail(r)
             \/ AnswerReview(r) \/ AnswerProfile(r)
    <3>1. r \in Active /\ \E a \in {"ok", "error"} : End({r}, a)
      BY <2>2 DEF RefuseDonation, AnswerDonation, Fail, AnswerReview, AnswerProfile, At, Reply
    <3> QED BY <3>1 DEF SomeEnd
  <2>3. CASE InsertDonation(r) \/ SaveProject(r) \/ SaveUser(r) \/ RecordReview(r)
    BY <2>3 DEF InsertDonation, SaveProject, SaveUser, RecordReview, Move, Kind, Advance,
                At, OpenStages, InsertedStages
  <2> QED
    BY <1>2, <2>1, <2>2, <2>3
       DEF AnyRequest, DonationRequest, Donate, Review, UpdateProfile, Kind
<1> QED BY <1>1, <1>2 DEF Next

-----------------------------------------------------------------------------
(* Typing *)

(* What a request at a given stage is known to ask for. *)
LEMMA CallsByStage ==
  ASSUME TypeOK, NEW r \in Requests
  PROVE  /\ pc[r] \in DonationStages => /\ call[r].user \in Users
                                        /\ call[r].project \in Projects
                                        /\ call[r].amount \in Amounts
                                        /\ call[r].amount \in Nat \ {0}
         /\ pc[r] \in ReviewStages => /\ call[r].project \in Projects
                                      /\ call[r].verdict \in {"approved", "rejected"}
         /\ pc[r] \in ProfileStages => /\ call[r].user \in Users
                                       /\ call[r].profile \in Profiles
<1>1. \A c \in ValidDonations : /\ c.user \in Users /\ c.project \in Projects
                                /\ c.amount \in Amounts /\ c.amount > 0
  BY DEF ValidDonations, DonationCalls
<1>2. \A c \in ValidDonations : c.amount \in Int
  BY <1>1, MoneyAssumption
<1>3. \A c \in ValidDonations : c.amount \in Nat \ {0}
  BY <1>1, <1>2
<1>4. \A c \in ValidReviews :
        c.project \in Projects /\ c.verdict \in {"approved", "rejected"}
  BY DEF ValidReviews, ReviewCalls
<1>5. \A c \in ProfileCalls : c.user \in Users /\ c.profile \in Profiles
  BY DEF ProfileCalls
<1> QED BY <1>1, <1>3, <1>4, <1>5 DEF TypeOK

LEMMA CreditTyping ==
  ASSUME TypeOK, NEW r \in Requests, pc[r] \in OpenStages
  PROVE  CreditedProject(r) \in ProjectRow /\ CreditedUser(r) \in UserRow
<1>1. /\ call[r].amount \in Nat /\ call[r].project \in Projects
      /\ seenProject[r] \in ProjectRow /\ seenUser[r] \in UserRow
  BY CallsByStage DEF TypeOK, DonationStages
<1>2. Target[call[r].project] \in Nat
  BY <1>1, MoneyAssumption
<1>3. CreditedProject(r) \in ProjectRow
  BY <1>1, <1>2 DEF CreditedProject, ProjectRow, Statuses
<1>4. CreditedUser(r) \in UserRow
  BY <1>1 DEF CreditedUser, UserRow
<1> QED BY <1>3, <1>4

(* The part of TypeOK about stages, for a step of one request. *)
StagesMatchCalls(q) ==
  /\ pc[q] \in DonationStages => call[q] \in ValidDonations
  /\ pc[q] \in ReviewStages => call[q] \in ValidReviews
  /\ pc[q] \in ProfileStages => call[q] \in ProfileCalls

LEMMA StageTyping ==
  ASSUME TypeOK, NEW r \in Requests, NEW s, Goto(r, s), call' = call,
         \/ pc[r] \in DonationStages /\ s \in DonationStages
         \/ pc[r] \in ReviewStages /\ s \in ReviewStages
         \/ pc[r] \in ProfileStages /\ s \in ProfileStages
  PROVE  pc' \in [Requests -> Stages] /\ \A q \in Requests : StagesMatchCalls(q)'
<1>1. pc' \in [Requests -> Stages]
  BY DEF TypeOK, Goto, Stages
<1>2. ASSUME NEW q \in Requests
      PROVE  StagesMatchCalls(q)'
  <2>1. CASE q = r
    <3>1. pc'[q] = s /\ call'[q] = call[r]
      BY <2>1 DEF Goto, TypeOK
    <3> QED BY <3>1 DEF TypeOK, StagesMatchCalls, DonationStages, ReviewStages,
                        ProfileStages, OpenStages
  <2>2. CASE q # r
    <3>1. pc'[q] = pc[q] /\ call'[q] = call[q]
      BY <2>2 DEF Goto, TypeOK
    <3> QED BY <3>1 DEF TypeOK, StagesMatchCalls
  <2> QED BY <2>1, <2>2
<1> QED BY <1>1, <1>2

LEMMA ArrivalTyping ==
  ASSUME TypeOK, NEW r \in Requests, Arrival(r)
  PROVE  TypeOK'
<1>1. PICK c \in DonationCalls \cup ReviewCalls \cup ProfileCalls, valid \in BOOLEAN :
        /\ Arrive(r, c, valid)
        /\ valid => \/ c \in ValidDonations /\ c.op = "donate"
                    \/ c \in ValidReviews /\ c.op = "review"
                    \/ c \in ProfileCalls /\ c.op = "profile"
  <2>1. CASE ReceiveDonation(r)
    <3>1. PICK c \in DonationCalls : Arrive(r, c, c \in ValidDonations)
      BY <2>1 DEF ReceiveDonation
    <3>2. c.op = "donate" /\ (c \in ValidDonations) \in BOOLEAN
      BY DEF DonationCalls
    <3> QED BY <3>1, <3>2
  <2>2. CASE ReceiveReview(r)
    <3>1. PICK c \in ReviewCalls : Arrive(r, c, c \in ValidReviews)
      BY <2>2 DEF ReceiveReview
    <3>2. c.op = "review" /\ (c \in ValidReviews) \in BOOLEAN
      BY DEF ReviewCalls
    <3> QED BY <3>1, <3>2
  <2>3. CASE ReceiveProfile(r)
    BY <2>3 DEF ReceiveProfile, ProfileCalls
  <2> QED BY <2>1, <2>2, <2>3 DEF Arrival
<1>2. PICK s : /\ Goto(r, s)
               /\ \/ s = "donate" /\ c \in ValidDonations
                  \/ s = "review" /\ c \in ValidReviews
                  \/ s = "profile" /\ c \in ProfileCalls
                  \/ s = "failed"
  BY <1>1 DEF Arrive
<1>3. /\ call' = [call EXCEPT ![r] = c]
      /\ reply' \in [Requests -> {"none", "ok", "error"}]
      /\ UNCHANGED <<tables, seen, contested>>
  BY <1>1 DEF Arrive, TypeOK
<1>4. pc' \in [Requests -> Stages]
  BY <1>2 DEF Goto, TypeOK, Stages, DonationStages, ReviewStages, ProfileStages
<1>5. ASSUME NEW q \in Requests
      PROVE  StagesMatchCalls(q)'
  <2>1. CASE q = r
    <3>1. pc'[q] = s /\ call'[q] = c
      BY <2>1, <1>2, <1>3 DEF Goto, TypeOK
    <3> QED BY <3>1, <1>2 DEF StagesMatchCalls, DonationStages, ReviewStages,
                              ProfileStages, OpenStages
  <2>2. CASE q # r
    <3>1. pc'[q] = pc[q] /\ call'[q] = call[q]
      BY <2>2, <1>2, <1>3 DEF Goto, TypeOK
    <3> QED BY <3>1 DEF TypeOK, StagesMatchCalls
  <2> QED BY <2>1, <2>2
<1> QED
  BY <1>3, <1>4, <1>5 DEF TypeOK, StagesMatchCalls, tables, seen, contested

LEMMA EndTyping ==
  ASSUME TypeOK, NEW S \in SUBSET Requests, NEW answer \in {"ok", "error"}, End(S, answer)
  PROVE  TypeOK'
<1>1. UnreadProject \in ProjectRow /\ UnreadUser \in UserRow
  BY SeedAssumption DEF UnreadProject, UnreadUser, ProjectRow, UserRow, Statuses
<1>2. /\ pc' \in [Requests -> Stages]
      /\ reply' \in [Requests -> {"none", "ok", "error"}]
      /\ seenProject' \in [Requests -> ProjectRow]
      /\ seenUser' \in [Requests -> UserRow]
  BY <1>1 DEF TypeOK, End, Stages
<1>3. \A r \in Requests : pc'[r] \in {pc[r], "failed"}
  BY DEF TypeOK, End
<1> QED
  BY <1>2, <1>3 DEF TypeOK, End, tables, contested, DonationStages, ReviewStages,
                    ProfileStages, OpenStages

LEMMA KindTyping ==
  ASSUME TypeOK, NEW r \in Requests, Kind(r)
  PROVE  TypeOK'
<1>1. CASE Arrival(r)
  BY <1>1, ArrivalTyping
<1>2. CASE Advance(r)
  <2>1. PICK s : /\ Goto(r, s)
                 /\ \/ pc[r] \in DonationStages /\ s \in DonationStages
                    \/ pc[r] \in ReviewStages /\ s \in ReviewStages
    BY <1>2 DEF Advance, InsertedStages, DonationStages, ReviewStages
  <2>2. UNCHANGED <<tables, call, reply, seen, contested>>
    BY <1>2 DEF Advance
  <2> QED BY <2>1, <2>2, StageTyping DEF TypeOK, StagesMatchCalls, tables, seen, contested
<1>3. CASE ReadProject(r)
  <2>1. pc[r] = "donate" /\ Goto(r, "projectRead")
    BY <1>3 DEF ReadProject, BeginDonation, At
  <2>2. /\ call[r].project \in Projects /\ call[r].user \in Users
    BY <2>1, CallsByStage DEF DonationStages
  <2>3. /\ seenProject' \in [Requests -> ProjectRow]
        /\ seenUser' \in [Requests -> UserRow]
        /\ contestedProjects' \subseteq Projects
        /\ contestedUsers' \subseteq Users
    BY <1>3, <2>2 DEF ReadProject, BeginDonation, ReadProjectRow, ReadUserRow, TypeOK
  <2>4. UNCHANGED <<tables, call, reply>>
    BY <1>3 DEF ReadProject, BeginDonation
  <2> QED
    BY <2>1, <2>3, <2>4, StageTyping DEF TypeOK, StagesMatchCalls, tables,
                                         DonationStages, OpenStages
<1>4. CASE Commit(r)
  <2>1. pc[r] = "userSaved" /\ Goto(r, "committed")
    BY <1>4 DEF Commit, At
  <2>2. /\ call[r].project \in Projects /\ call[r].user \in Users
        /\ call[r].amount \in Nat
    BY <2>1, CallsByStage DEF DonationStages, OpenStages
  <2>3. CreditedProject(r) \in ProjectRow /\ CreditedUser(r) \in UserRow
    BY <2>1, CreditTyping DEF OpenStages
  <2>4. /\ projects' \in [Projects -> ProjectRow] /\ users' \in [Users -> UserRow]
        /\ raised' \in [Projects -> Nat] /\ given' \in [Users -> Nat]
    BY <1>4, <2>2, <2>3 DEF Commit, TypeOK
  <2>5. UNCHANGED <<call, reply, seen, contested>>
    BY <1>4 DEF Commit
  <2> QED
    BY <2>1, <2>4, <2>5, StageTyping DEF TypeOK, StagesMatchCalls, seen, contested,
                                         DonationStages, OpenStages
<1>5. CASE ReadReviewed(r)
  <2>1. pc[r] = "review" /\ Goto(r, "reviewRead")
    BY <1>5 DEF ReadReviewed, At
  <2>2. call[r].project \in Projects
    BY <2>1, CallsByStage DEF ReviewStages
  <2>3. /\ seenProject' \in [Requests -> ProjectRow]
        /\ contestedProjects' \subseteq Projects
        /\ UNCHANGED <<tables, call, reply, seenUser, contestedUsers>>
    BY <1>5, <2>2 DEF ReadReviewed, ReadProjectRow, TypeOK
  <2> QED
    BY <2>1, <2>3, StageTyping DEF TypeOK, StagesMatchCalls, tables, ReviewStages
<1>6. CASE SaveReviewed(r)
  <2>1. pc[r] = "reviewRead" /\ Goto(r, "reviewSaved")
    BY <1>6 DEF SaveReviewed, At
  <2>2. call[r].project \in Projects /\ call[r].verdict \in Statuses
    BY <2>1, CallsByStage DEF ReviewStages, Statuses
  <2>3. [seenProject[r] EXCEPT !.status = call[r].verdict] \in ProjectRow
    BY <2>2 DEF TypeOK, ProjectRow
  <2>4. /\ projects' \in [Projects -> ProjectRow]
        /\ UNCHANGED <<users, raised, given, call, reply, seen, contested>>
    BY <1>6, <2>2, <2>3 DEF SaveReviewed, TypeOK
  <2> QED
    BY <2>1, <2>4, StageTyping DEF TypeOK, StagesMatchCalls, seen, contested, ReviewStages
<1>7. CASE ReadUser(r)
  <2>1. pc[r] = "profile" /\ Goto(r, "profileRead")
    BY <1>7 DEF ReadUser, At
  <2>2. call[r].user \in Users
    BY <2>1, CallsByStage DEF ProfileStages
  <2>3. /\ seenUser' \in [Requests -> UserRow]
        /\ contestedUsers' \subseteq Users
        /\ UNCHANGED <<tables, call, reply, seenProject, contestedProjects>>
    BY <1>7, <2>2 DEF ReadUser, ReadUserRow, TypeOK
  <2> QED
    BY <2>1, <2>3, StageTyping DEF TypeOK, StagesMatchCalls, tables, ProfileStages
<1>8. CASE SaveProfile(r)
  <2>1. pc[r] = "profileRead" /\ Goto(r, "profileSaved")
    BY <1>8 DEF SaveProfile, At
  <2>2. call[r].user \in Users /\ call[r].profile \in Profiles
    BY <2>1, CallsByStage DEF ProfileStages
  <2>3. [seenUser[r] EXCEPT !.profile = call[r].profile] \in UserRow
    BY <2>2 DEF TypeOK, UserRow
  <2>4. /\ users' \in [Users -> UserRow]
        /\ UNCHANGED <<projects, raised, given, call, reply, seen, contested>>
    BY <1>8, <2>2, <2>3 DEF SaveProfile, TypeOK
  <2> QED
    BY <2>1, <2>4, StageTyping DEF TypeOK, StagesMatchCalls, seen, contested, ProfileStages
<1> QED
  BY <1>1, <1>2, <1>3, <1>4, <1>5, <1>6, <1>7, <1>8 DEF Kind

(* Every reachable state is well typed, and every request is at a stage of *)
(* the operation it asked for.                                             *)
THEOREM Typing == Spec => []TypeOK
<1>1. Init => TypeOK
  BY SeedAssumption
     DEF Init, TypeOK, UnreadProject, UnreadUser, ProjectRow, UserRow, Statuses, Stages,
         DonationStages, ReviewStages, ProfileStages, OpenStages
<1>2. TypeOK /\ [Next]_vars => TypeOK'
  <2> SUFFICES ASSUME TypeOK, [Next]_vars PROVE TypeOK'
    OBVIOUS
  <2>1. CASE SomeEnd
    BY <2>1, EndTyping DEF SomeEnd, Active
  <2>2. ASSUME NEW r \in Requests, Kind(r) PROVE TypeOK'
    BY <2>2, KindTyping
  <2>3. CASE UNCHANGED vars
    BY <2>3 DEF vars, tables, seen, contested, TypeOK
  <2> QED BY <2>1, <2>2, <2>3, StepKinds
<1> QED BY <1>1, <1>2, PTL DEF Spec

-----------------------------------------------------------------------------
(* Requests that have read a row they may write back, and the steps that   *)
(* neither read nor write a row.                                           *)
HoldsProject(q) == pc[q] \in OpenStages \cup {"reviewRead"}
HoldsUser(q) == pc[q] \in OpenStages \cup {"profileRead"}

Quiet ==
  /\ UNCHANGED <<tables, contested>>
  /\ \A q \in Requests :
       /\ pc'[q] \in OpenStages => pc[q] \in OpenStages
       /\ pc'[q] = "reviewRead" => pc[q] = "reviewRead"
       /\ pc'[q] = "profileRead" => pc[q] = "profileRead"
       /\ pc'[q] \in OpenStages \cup {"reviewRead", "profileRead"} =>
            /\ call'[q] = call[q] /\ reply'[q] = reply[q]
            /\ seenProject'[q] = seenProject[q] /\ seenUser'[q] = seenUser[q]
       /\ pc[q] \in {"reviewSaved", "reviewRecorded"} =>
            pc'[q] \in {"reviewSaved", "reviewRecorded"} /\ call'[q] = call[q]

(* The steps that matter to an invariant about rows. *)
RowStep(r) ==
  \/ ReadProject(r) \/ Commit(r)
  \/ ReadReviewed(r) \/ SaveReviewed(r)
  \/ ReadUser(r) \/ SaveProfile(r)

LEMMA RowSteps ==
  ASSUME TypeOK, [Next]_vars
  PROVE  Quiet \/ \E r \in Requests : RowStep(r)
<1>1. CASE SomeEnd
  <2>1. PICK S \in SUBSET Active, answer \in {"ok", "error"} : End(S, answer)
    BY <1>1 DEF SomeEnd
  <2>2. UNCHANGED <<tables, call, contested>>
    BY <2>1 DEF End
  <2>3. ASSUME NEW q \in Requests
        PROVE  /\ q \in S /\ pc[q] \notin LastingStages => pc'[q] = "failed"
               /\ q \notin S \/ pc[q] \in LastingStages => pc'[q] = pc[q]
               /\ q \notin S => /\ reply'[q] = reply[q]
                                /\ seenProject'[q] = seenProject[q]
                                /\ seenUser'[q] = seenUser[q]
    BY <2>1 DEF End
  <2> QED BY <2>2, <2>3 DEF Quiet, LastingStages, OpenStages
<1>2. ASSUME NEW r \in Requests, Arrival(r)
      PROVE  Quiet
  <2>1. PICK c, valid : Arrive(r, c, valid) /\ c.op \in {"donate", "review", "profile"}
    BY <1>2 DEF Arrival, ReceiveDonation, ReceiveReview, ReceiveProfile,
                DonationCalls, ReviewCalls, ProfileCalls
  <2>2. /\ pc[r] = "idle" /\ call' = [call EXCEPT ![r] = c]
        /\ \E s \in {"donate", "review", "profile", "failed"} : pc' = [pc EXCEPT ![r] = s]
        /\ reply' \in {reply, [reply EXCEPT ![r] = "error"]}
        /\ UNCHANGED <<tables, seen, contested>>
    BY <2>1 DEF Arrive, Goto
  <2>3. pc'[r] \in {"donate", "review", "profile", "failed"}
    BY <2>2 DEF TypeOK
  <2>4. \A q \in Requests \ {r} :
          pc'[q] = pc[q] /\ call'[q] = call[q] /\ reply'[q] = reply[q]
    BY <2>2 DEF TypeOK
  <2> QED BY <2>2, <2>3, <2>4 DEF Quiet, OpenStages, seen
<1>3. ASSUME NEW r \in Requests, Advance(r)
      PROVE  Quiet
  <2>1. PICK s : /\ pc' = [pc EXCEPT ![r] = s]
                 /\ \/ pc[r] \in OpenStages /\ s \in OpenStages
                    \/ pc[r] = "reviewSaved" /\ s = "reviewRecorded"
    BY <1>3 DEF Advance, InsertedStages, Goto
  <2>2. pc'[r] = s /\ \A q \in Requests \ {r} : pc'[q] = pc[q]
    BY <2>1 DEF TypeOK
  <2>3. UNCHANGED <<tables, call, reply, seen, contested>>
    BY <1>3 DEF Advance
  <2> QED BY <2>1, <2>2, <2>3 DEF Quiet, OpenStages, seen
<1>4. CASE UNCHANGED vars
  BY <1>4 DEF vars, Quiet, seen
<1> QED BY <1>1, <1>2, <1>3, <1>4, StepKinds DEF Kind, RowStep

(* What a step of request r leaves alone: the other requests. *)
Alone(r) ==
  \A q \in Requests \ {r} : /\ pc'[q] = pc[q] /\ call'[q] = call[q]
                            /\ reply'[q] = reply[q]
                            /\ seenProject'[q] = seenProject[q]
                            /\ seenUser'[q] = seenUser[q]

LEMMA OneRequestSteps ==
  ASSUME TypeOK, NEW r \in Requests, RowStep(r)
  PROVE  Alone(r) /\ call' = call /\ reply' = reply /\ reply[r] = "none"
<1> USE DEF Alone, TypeOK, At, Active, Goto, tables, seen
<1>1. CASE ReadProject(r) BY <1>1 DEF ReadProject, BeginDonation, ReadProjectRow, ReadUserRow
<1>2. CASE Commit(r) BY <1>2 DEF Commit
<1>3. CASE ReadReviewed(r) BY <1>3 DEF ReadReviewed, ReadProjectRow
<1>4. CASE SaveReviewed(r) BY <1>4 DEF SaveReviewed
<1>5. CASE ReadUser(r) BY <1>5 DEF ReadUser, ReadUserRow
<1>6. CASE SaveProfile(r) BY <1>6 DEF SaveProfile
<1> QED BY <1>1, <1>2, <1>3, <1>4, <1>5, <1>6 DEF RowStep

(* What each of them does to its own request and to the tables, in terms   *)
(* of the row of its project and the row of its user.                      *)
LEMMA ReadProjectEffect ==
  ASSUME TypeOK, NEW r \in Requests, ReadProject(r)
  PROVE  /\ call[r].project \in Projects /\ call[r].user \in Users
         /\ pc[r] = "donate" /\ pc'[r] = "projectRead"
         /\ projects[call[r].project].status = "approved"
         /\ seenProject'[r] = projects[call[r].project]
         /\ seenUser'[r] = users[call[r].user]
         /\ contestedProjects' = contestedProjects \cup
              {p \in {call[r].project} : ProjectHolders(p) # {}}
         /\ contestedUsers' = contestedUsers \cup
              {u \in {call[r].user} : UserHolders(u) # {}}
         /\ UNCHANGED tables
<1>1. pc[r] = "donate"
  BY DEF ReadProject, BeginDonation, At
<1>2. call[r].project \in Projects /\ call[r].user \in Users
  BY <1>1, CallsByStage DEF DonationStages
<1> QED
  BY <1>1, <1>2 DEF ReadProject, BeginDonation, ReadProjectRow, ReadUserRow, Goto, TypeOK

LEMMA ReadReviewedEffect ==
  ASSUME TypeOK, NEW r \in Requests, ReadReviewed(r)
  PROVE  /\ call[r].project \in Projects
         /\ pc[r] = "review" /\ pc'[r] = "reviewRead"
         /\ seenProject'[r] = projects[call[r].project]
         /\ contestedProjects' = contestedProjects \cup
              {p \in {call[r].project} : ProjectHolders(p) # {}}
         /\ UNCHANGED <<tables, seenUser, contestedUsers>>
<1>1. pc[r] = "review"
  BY DEF ReadReviewed, At
<1>2. call[r].project \in Projects
  BY <1>1, CallsByStage DEF ReviewStages
<1> QED
  BY <1>1, <1>2 DEF ReadReviewed, ReadProjectRow, Goto, TypeOK

LEMMA ReadUserEffect ==
  ASSUME TypeOK, NEW r \in Requests, ReadUser(r)
  PROVE  /\ call[r].user \in Users
         /\ pc[r] = "profile" /\ pc'[r] = "profileRead"
         /\ seenUser'[r] = users[call[r].user]
         /\ contestedUsers' = contestedUsers \cup
              {u \in {call[r].user} : UserHolders(u) # {}}
         /\ UNCHANGED <<tables, seenProject, contestedProjects>>
<1>1. pc[r] = "profile"
  BY DEF ReadUser, At
<1>2. call[r].user \in Users
  BY <1>1, CallsByStage DEF ProfileStages
<1> QED
  BY <1>1, <1>2 DEF ReadUser, ReadUserRow, Goto, TypeOK

LEMMA CommitEffect ==
  ASSUME TypeOK, NEW r \in Requests, Commit(r)
  PROVE  /\ call[r].project \in Projects /\ call[r].user \in Users
         /\ call[r].amount \in Amounts /\ call[r].amount \in Nat \ {0}
         /\ pc[r] = "userSaved" /\ pc'[r] = "committed"
         /\ \A p \in Projects \ {call[r].project} :
              projects'[p] = projects[p] /\ raised'[p] = raised[p]
         /\ \A u \in Users \ {call[r].user} :
              users'[u] = users[u] /\ given'[u] = given[u]
         /\ projects'[call[r].project] = CreditedProject(r)
         /\ users'[call[r].user] = CreditedUser(r)
         /\ raised'[call[r].project] = raised[call[r].project] + call[r].amount
         /\ given'[call[r].user] = given[call[r].user] + call[r].amount
         /\ UNCHANGED <<seen, contested>>
<1>1. pc[r] = "userSaved"
  BY DEF Commit, At
<1>2. /\ call[r].project \in Projects /\ call[r].user \in Users
      /\ call[r].amount \in Amounts /\ call[r].amount \in Nat \ {0}
  BY <1>1, CallsByStage DEF DonationStages, OpenStages
<1> QED
  BY <1>1, <1>2 DEF Commit, Goto, TypeOK

LEMMA SaveReviewedEffect ==
  ASSUME TypeOK, NEW r \in Requests, SaveReviewed(r)
  PROVE  /\ call[r].project \in Projects /\ call[r].verdict \in {"approved", "rejected"}
         /\ pc[r] = "reviewRead" /\ pc'[r] = "reviewSaved"
         /\ \A p \in Projects \ {call[r].project} : projects'[p] = projects[p]
         /\ projects'[call[r].project].status = call[r].verdict
         /\ projects'[call[r].project].current = seenProject[r].current
         /\ UNCHANGED <<users, raised, given, seen, contested>>
<1>1. pc[r] = "reviewRead"
  BY DEF SaveReviewed, At
<1>2. call[r].project \in Projects /\ call[r].verdict \in {"approved", "rejected"}
  BY <1>1, CallsByStage DEF ReviewStages
<1>3. projects'[call[r].project] = [seenProject[r] EXCEPT !.status = call[r].verdict]
  BY <1>2 DEF SaveReviewed, TypeOK
<1>4. seenProject[r] \in ProjectRow
  BY DEF TypeOK
<1>5. /\ projects'[call[r].project].status = call[r].verdict
      /\ projects'[call[r].project].current = seenProject[r].current
  BY <1>3, <1>4 DEF ProjectRow
<1> QED
  BY <1>1, <1>2, <1>5 DEF SaveReviewed, Goto, TypeOK

LEMMA SaveProfileEffect ==
  ASSUME TypeOK, NEW r \in Requests, SaveProfile(r)
  PROVE  /\ call[r].user \in Users
         /\ pc[r] = "profileRead" /\ pc'[r] = "profileSaved"
         /\ \A u \in Users \ {call[r].user} : users'[u] = users[u]
         /\ users'[call[r].user].total = seenUser[r].total
         /\ UNCHANGED <<projects, raised, given, seen, contested>>
<1>1. pc[r] = "profileRead"
  BY DEF SaveProfile, At
<1>2. call[r].user \in Users
  BY <1>1, CallsByStage DEF ProfileStages
<1>3. users'[call[r].user] = [seenUser[r] EXCEPT !.profile = call[r].profile]
  BY <1>2 DEF SaveProfile, TypeOK
<1>4. seenUser[r] \in UserRow
  BY DEF TypeOK
<1>5. users'[call[r].user].total = seenUser[r].total
  BY <1>3, <1>4 DEF UserRow
<1> QED
  BY <1>1, <1>2, <1>5 DEF SaveProfile, Goto, TypeOK

LEMMA CreditedRows ==
  ASSUME TypeOK, NEW r \in Requests
  PROVE  /\ CreditedProject(r).current = seenProject[r].current + call[r].amount
         /\ CreditedProject(r).status =
              IF CreditedProject(r).current >= Target[call[r].project]
                THEN "completed" ELSE seenProject[r].status
         /\ CreditedUser(r).total = seenUser[r].total + call[r].amount
<1>1. seenUser[r] \in UserRow
  BY DEF TypeOK
<1>2. CreditedUser(r).total = seenUser[r].total + call[r].amount
  BY <1>1 DEF CreditedUser, UserRow
<1> QED BY <1>2 DEF CreditedProject

-----------------------------------------------------------------------------
(* No phantom money.  The rows in the hands of requests lie between the    *)
(* rows of the start and what the donation rows account for, as the tables *)
(* do, and donation rows are never taken back, so writing an old row       *)
(* cannot leave these bounds.                                              *)
ProjectBound(p) == SeedProjects[p].current + raised[p]
UserBound(u) == SeedUsers[u].total + given[u]

ProjectWithin(p, row) == SeedProjects[p].current <= row.current /\ row.current <= ProjectBound(p)
UserWithin(u, row) == SeedUsers[u].total <= row.total /\ row.total <= UserBound(u)

TablesWithin ==
  /\ \A p \in Projects : ProjectWithin(p, projects[p])
  /\ \A u \in Users : UserWithin(u, users[u])

ReadsWithin ==
  \A r \in Requests :
    /\ HoldsProject(r) => ProjectWithin(call[r].project, seenProject[r])
    /\ HoldsUser(r) => UserWithin(call[r].user, seenUser[r])

PhantomInv == TablesWithin /\ ReadsWithin

LEMMA BoundsAreNumbers ==
  ASSUME TypeOK
  PROVE  /\ \A p \in Projects : /\ ProjectBound(p) \in Nat /\ projects[p].current \in Nat
                                /\ raised[p] \in Nat /\ SeedProjects[p].current \in Nat
         /\ \A u \in Users : /\ UserBound(u) \in Nat /\ users[u].total \in Nat
                             /\ given[u] \in Nat /\ SeedUsers[u].total \in Nat
         /\ \A r \in Requests : seenProject[r].current \in Nat /\ seenUser[r].total \in Nat
<1>1. /\ \A x \in ProjectRow : x.current \in Nat
      /\ \A x \in UserRow : x.total \in Nat
  BY DEF ProjectRow, UserRow
<1> QED BY <1>1, SeedAssumption DEF TypeOK, ProjectBound, UserBound

LEMMA HeldCalls ==
  ASSUME TypeOK, NEW q \in Requests
  PROVE  /\ HoldsProject(q) => call[q].project \in Projects
         /\ HoldsUser(q) => call[q].user \in Users
  BY CallsByStage DEF HoldsProject, HoldsUser, DonationStages, ReviewStages, ProfileStages

LEMMA PhantomStep ==
  ASSUME TypeOK, TypeOK', PhantomInv, [Next]_vars
  PROVE  PhantomInv'
<1> USE BoundsAreNumbers
<1>1. CASE Quiet
  <2>1. TablesWithin'
    BY <1>1 DEF Quiet, tables, PhantomInv, TablesWithin, ProjectWithin, UserWithin,
                ProjectBound, UserBound
  <2>2. ReadsWithin'
    BY <1>1 DEF Quiet, tables, PhantomInv, ReadsWithin, HoldsProject, HoldsUser,
                ProjectBound, UserBound, ProjectWithin, UserWithin
  <2> QED BY <2>1, <2>2 DEF PhantomInv
<1>2. ASSUME NEW r \in Requests, RowStep(r)
      PROVE  PhantomInv'
  <2>1. Alone(r) /\ call' = call
    BY <1>2, OneRequestSteps
  <2>2. CASE ReadProject(r)
    <3>1. TablesWithin'
      BY <2>2, ReadProjectEffect DEF PhantomInv, TablesWithin, ProjectWithin, UserWithin,
         ProjectBound, UserBound, tables
    <3>2. ReadsWithin'
      BY <2>1, <2>2, ReadProjectEffect DEF PhantomInv, TablesWithin, ReadsWithin,
         Alone, HoldsProject, HoldsUser, ProjectBound, UserBound, ProjectWithin, UserWithin, tables
    <3> QED BY <3>1, <3>2 DEF PhantomInv
  <2>3. CASE ReadReviewed(r)
    <3>1. TablesWithin'
      BY <2>3, ReadReviewedEffect DEF PhantomInv, TablesWithin, ProjectWithin, UserWithin,
         ProjectBound, UserBound, tables
    <3>2. ReadsWithin'
      BY <2>1, <2>3, ReadReviewedEffect DEF PhantomInv, TablesWithin, ReadsWithin,
         Alone, HoldsProject, HoldsUser, ProjectBound, UserBound, ProjectWithin, UserWithin, tables, OpenStages
    <3> QED BY <3>1, <3>2 DEF PhantomInv
  <2>4. CASE ReadUser(r)
    <3>1. TablesWithin'
      BY <2>4, ReadUserEffect DEF PhantomInv, TablesWithin, ProjectWithin, UserWithin,
         ProjectBound, UserBound, tables
    <3>2. ReadsWithin'
      BY <2>1, <2>4, ReadUserEffect DEF PhantomInv, TablesWithin, ReadsWithin,
         Alone, HoldsProject, HoldsUser, ProjectBound, UserBound, ProjectWithin, UserWithin, tables, OpenStages
    <3> QED BY <3>1, <3>2 DEF PhantomInv
  <2>5. CASE SaveReviewed(r)
    <3>1. HoldsProject(r)
      BY <2>5, SaveReviewedEffect DEF HoldsProject
    <3>2. TablesWithin'
      BY <2>5, <3>1, SaveReviewedEffect
         DEF PhantomInv, TablesWithin, ReadsWithin, ProjectBound, UserBound,
             ProjectWithin, UserWithin
    <3>3. ReadsWithin'
      BY <2>1, <2>5, SaveReviewedEffect DEF PhantomInv, ReadsWithin, seen,
         Alone, HoldsProject, HoldsUser, ProjectBound, UserBound, ProjectWithin, UserWithin, OpenStages
    <3> QED BY <3>2, <3>3 DEF PhantomInv
  <2>6. CASE SaveProfile(r)
    <3>1. HoldsUser(r)
      BY <2>6, SaveProfileEffect DEF HoldsUser
    <3>2. TablesWithin'
      BY <2>6, <3>1, SaveProfileEffect
         DEF PhantomInv, TablesWithin, ReadsWithin, ProjectBound, UserBound,
             ProjectWithin, UserWithin
    <3>3. ReadsWithin'
      BY <2>1, <2>6, SaveProfileEffect DEF PhantomInv, ReadsWithin, seen,
         Alone, HoldsProject, HoldsUser, ProjectBound, UserBound, ProjectWithin, UserWithin, OpenStages
    <3> QED BY <3>2, <3>3 DEF PhantomInv
  <2>7. CASE Commit(r)
    <3>1. HoldsProject(r) /\ HoldsUser(r)
      BY <2>7, CommitEffect DEF HoldsProject, HoldsUser, OpenStages
    <3>2. \A p \in Projects : ProjectBound(p)' \in Nat /\ ProjectBound(p)' >= ProjectBound(p)
      BY <2>7, CommitEffect DEF ProjectBound
    <3>3. \A u \in Users : UserBound(u)' \in Nat /\ UserBound(u)' >= UserBound(u)
      BY <2>7, CommitEffect DEF UserBound
    <3>4. TablesWithin'
      BY <2>7, <3>1, CommitEffect, CreditedRows
         DEF PhantomInv, TablesWithin, ReadsWithin, ProjectBound, UserBound, ProjectWithin, UserWithin
    <3>5. ReadsWithin'
      <4> SUFFICES ASSUME NEW q \in Requests
                   PROVE  /\ HoldsProject(q)' =>
                               ProjectWithin(call[q].project, seenProject[q])'
                          /\ HoldsUser(q)' => UserWithin(call[q].user, seenUser[q])'
        BY <2>1, <2>7, CommitEffect DEF ReadsWithin, seen
      <4>1. /\ HoldsProject(q)' => HoldsProject(q)
            /\ HoldsUser(q)' => HoldsUser(q)
        BY <2>1, <2>7, CommitEffect DEF Alone, HoldsProject, HoldsUser, OpenStages
      <4>2. ASSUME HoldsProject(q)
            PROVE  ProjectWithin(call[q].project, seenProject[q])'
        <5>1. call'[q].project \in Projects /\ call'[q] = call[q]
          BY <2>1, <4>2, HeldCalls
        <5>2. ProjectWithin(call[q].project, seenProject[q])
          BY <4>2 DEF PhantomInv, ReadsWithin
        <5>3. seenProject'[q] = seenProject[q] /\ seenProject[q].current \in Nat
          BY <2>7, CommitEffect DEF seen
        <5> QED BY <3>2, <5>1, <5>2, <5>3 DEF ProjectWithin
      <4>3. ASSUME HoldsUser(q)
            PROVE  UserWithin(call[q].user, seenUser[q])'
        <5>1. call'[q].user \in Users /\ call'[q] = call[q]
          BY <2>1, <4>3, HeldCalls
        <5>2. UserWithin(call[q].user, seenUser[q])
          BY <4>3 DEF PhantomInv, ReadsWithin
        <5>3. seenUser'[q] = seenUser[q] /\ seenUser[q].total \in Nat
          BY <2>7, CommitEffect DEF seen
        <5> QED BY <3>3, <5>1, <5>2, <5>3 DEF UserWithin
      <4> QED BY <4>1, <4>2, <4>3
    <3> QED BY <3>4, <3>5 DEF PhantomInv
  <2> QED BY <1>2, <2>2, <2>3, <2>4, <2>5, <2>6, <2>7 DEF RowStep
<1> QED BY <1>1, <1>2, RowSteps

LEMMA PhantomAlways == Spec => []PhantomInv
<1>1. Init => PhantomInv
  BY SeedAssumption DEF Init, PhantomInv, TablesWithin, ReadsWithin, ProjectWithin, UserWithin,
     ProjectBound, UserBound, HoldsProject, HoldsUser, OpenStages, ProjectRow, UserRow
<1>2. TypeOK /\ TypeOK' /\ PhantomInv /\ [Next]_vars => PhantomInv'
  BY PhantomStep
<1> QED BY <1>1, <1>2, Typing, PTL DEF Spec

(* Whatever overlaps, fails or crashes, no project and no user is ever     *)
(* credited with more than the committed donation rows.                    *)
THEOREM PhantomFree == Spec => []NoPhantomMoney
<1>1. PhantomInv => NoPhantomMoney
  BY DEF PhantomInv, TablesWithin, ProjectWithin, UserWithin, ProjectBound, UserBound,
         NoPhantomMoney
<1> QED BY <1>1, PhantomAlways, PTL

-----------------------------------------------------------------------------
(* Status.  A transaction works on a row it has read as approved, so a     *)
(* project is completed only by the donation that reaches the target, and  *)
(* a row was read as approved only if it has been approved.                *)
ReadsAreApproved ==
  \A r \in Requests : pc[r] \in OpenStages =>
    seenProject[r].status = "approved" /\ EverApproved(call[r].project)

ApprovedOnce == \A p \in Projects : projects[p].status = "approved" => EverApproved(p)

StatusInv ==
  CompletedIsFunded /\ NoMoneyBeforeApproval /\ ReadsAreApproved /\ ApprovedOnce

LEMMA EverApprovedStays ==
  ASSUME TypeOK, NEW p \in Projects, EverApproved(p),
         Quiet \/ \E r \in Requests : RowStep(r)
  PROVE  EverApproved(p)'
<1>1. CASE SeedProjects[p].status = "approved"
  BY <1>1 DEF EverApproved
<1>2. ASSUME NEW q \in Requests, pc[q] \in {"reviewSaved", "reviewRecorded"}
      PROVE  pc'[q] \in {"reviewSaved", "reviewRecorded"} /\ call'[q] = call[q]
  <2>1. CASE Quiet
    BY <1>2, <2>1 DEF Quiet
  <2>2. ASSUME NEW r \in Requests, RowStep(r)
        PROVE  pc'[q] = pc[q] /\ call'[q] = call[q]
    <3>1. q # r
      BY <1>2, <2>2, ReadProjectEffect, CommitEffect, ReadReviewedEffect,
         SaveReviewedEffect, ReadUserEffect, SaveProfileEffect DEF RowStep
    <3> QED BY <2>2, <3>1, OneRequestSteps DEF Alone
  <2> QED BY <1>2, <2>1, <2>2
<1> QED BY <1>1, <1>2 DEF EverApproved

LEMMA StatusStep ==
  ASSUME TypeOK, TypeOK', StatusInv, [Next]_vars
  PROVE  StatusInv'
<1>n. \A p \in Projects : /\ projects[p].current \in Nat /\ projects'[p].current \in Nat
                       /\ raised[p] \in Nat /\ raised'[p] \in Nat /\ Target[p] \in Nat
  BY BoundsAreNumbers, MoneyAssumption DEF TypeOK, ProjectRow
<1>0. \A p \in Projects : EverApproved(p) => EverApproved(p)'
  BY EverApprovedStays, RowSteps
<1>1. CASE Quiet
  <2>1. CompletedIsFunded' /\ NoMoneyBeforeApproval' /\ ApprovedOnce'
    BY <1>0, <1>1 DEF Quiet, tables, StatusInv, CompletedIsFunded, NoMoneyBeforeApproval,
                      ApprovedOnce
  <2>2. \A q \in Requests : pc[q] \in OpenStages => call[q].project \in Projects
    BY HeldCalls DEF HoldsProject
  <2>3. ReadsAreApproved'
    BY <1>0, <1>1, <2>2 DEF Quiet, StatusInv, ReadsAreApproved
  <2> QED BY <2>1, <2>3 DEF StatusInv
<1>2. ASSUME NEW r \in Requests, RowStep(r)
      PROVE  StatusInv'
  <2>1. Alone(r) /\ call' = call
    BY <1>2, OneRequestSteps
  <2>2. ASSUME NEW q \in Requests, q # r, pc'[q] \in OpenStages
        PROVE  seenProject'[q].status = "approved" /\ EverApproved(call[q].project)'
    <3>1. pc[q] \in OpenStages /\ call[q].project \in Projects
      BY <2>1, <2>2, HeldCalls DEF Alone, HoldsProject
    <3> QED BY <1>0, <2>1, <2>2, <3>1 DEF Alone, StatusInv, ReadsAreApproved
  <2>3. CASE UNCHANGED tables /\ pc'[r] \notin OpenStages
    BY <1>0, <2>2, <2>3 DEF tables, StatusInv, CompletedIsFunded, NoMoneyBeforeApproval,
                            ApprovedOnce, ReadsAreApproved
  <2>4. CASE ReadProject(r)
    <3>1. CompletedIsFunded' /\ NoMoneyBeforeApproval' /\ ApprovedOnce'
      BY <1>0, <2>4, ReadProjectEffect DEF tables, StatusInv, CompletedIsFunded,
         NoMoneyBeforeApproval, ApprovedOnce
    <3>2. seenProject'[r].status = "approved" /\ EverApproved(call[r].project)'
      BY <1>0, <2>1, <2>4, ReadProjectEffect DEF StatusInv, ApprovedOnce
    <3>3. ReadsAreApproved'
      BY <2>2, <3>2 DEF ReadsAreApproved
    <3> QED BY <3>1, <3>3 DEF StatusInv
  <2>5. CASE ReadReviewed(r) \/ ReadUser(r)
    BY <2>3, <2>5, ReadReviewedEffect, ReadUserEffect DEF OpenStages, tables
  <2>6. CASE SaveReviewed(r)
    <3>1. call[r].verdict = "approved"
            => \A p \in Projects : p = call[r].project => EverApproved(p)'
      BY <2>1, <2>6, SaveReviewedEffect DEF EverApproved
    <3>2. CompletedIsFunded'
      BY <2>6, SaveReviewedEffect DEF StatusInv, CompletedIsFunded
    <3>3. NoMoneyBeforeApproval' /\ ApprovedOnce'
      <4> SUFFICES ASSUME NEW p \in Projects
                   PROVE  /\ raised'[p] > 0 => EverApproved(p)'
                          /\ projects'[p].status = "approved" => EverApproved(p)'
        BY DEF NoMoneyBeforeApproval, ApprovedOnce
      <4>1. CASE p = call[r].project
        BY <1>0, <2>6, <3>1, <4>1, SaveReviewedEffect DEF StatusInv, NoMoneyBeforeApproval
      <4>2. CASE p # call[r].project
        BY <1>0, <2>6, <4>2, SaveReviewedEffect DEF StatusInv, NoMoneyBeforeApproval, ApprovedOnce
      <4> QED BY <4>1, <4>2
    <3>4. ReadsAreApproved'
      BY <2>2, <2>6, SaveReviewedEffect DEF ReadsAreApproved, OpenStages
    <3> QED BY <3>2, <3>3, <3>4 DEF StatusInv
  <2>7. CASE SaveProfile(r)
    <3>1. CompletedIsFunded' /\ NoMoneyBeforeApproval' /\ ApprovedOnce'
      BY <1>0, <2>7, SaveProfileEffect DEF StatusInv, CompletedIsFunded,
         NoMoneyBeforeApproval, ApprovedOnce
    <3>2. ReadsAreApproved'
      BY <2>2, <2>7, SaveProfileEffect DEF ReadsAreApproved, OpenStages
    <3> QED BY <3>1, <3>2 DEF StatusInv
  <2>8. CASE Commit(r)
    <3>1. /\ seenProject[r].status = "approved"
          /\ \A p \in Projects : p = call[r].project => EverApproved(p)'
      <4>1. pc[r] \in OpenStages /\ call[r].project \in Projects
        BY <2>8, CommitEffect DEF OpenStages
      <4>2. seenProject[r].status = "approved" /\ EverApproved(call[r].project)
        BY <4>1 DEF StatusInv, ReadsAreApproved
      <4>3. \A p \in Projects : p = call[r].project => EverApproved(p)
        BY <4>2
      <4> QED BY <1>0, <4>2, <4>3
    <3>2. CompletedIsFunded'
      BY <2>8, <3>1, CommitEffect, CreditedRows DEF StatusInv, CompletedIsFunded
    <3>3. NoMoneyBeforeApproval' /\ ApprovedOnce'
      <4> SUFFICES ASSUME NEW p \in Projects
                   PROVE  /\ raised'[p] > 0 => EverApproved(p)'
                          /\ projects'[p].status = "approved" => EverApproved(p)'
        BY DEF NoMoneyBeforeApproval, ApprovedOnce
      <4>1. CASE p = call[r].project
        BY <3>1, <4>1
      <4>2. CASE p # call[r].project
        BY <1>0, <2>8, <4>2, CommitEffect DEF StatusInv, NoMoneyBeforeApproval, ApprovedOnce
      <4> QED BY <4>1, <4>2
    <3>4. ReadsAreApproved'
      BY <2>2, <2>8, CommitEffect DEF ReadsAreApproved, OpenStages
    <3> QED BY <3>2, <3>3, <3>4 DEF StatusInv
  <2> QED BY <1>2, <2>4, <2>5, <2>6, <2>7, <2>8 DEF RowStep
<1> QED BY <1>1, <1>2, RowSteps

LEMMA StatusAlways == Spec => []StatusInv
<1>1. Init => StatusInv
  BY SeedAssumption DEF Init, StatusInv, CompletedIsFunded, NoMoneyBeforeApproval,
     ReadsAreApproved, ApprovedOnce, EverApproved, OpenStages
<1>2. TypeOK /\ TypeOK' /\ StatusInv /\ [Next]_vars => StatusInv'
  BY StatusStep
<1> QED BY <1>1, <1>2, Typing, PTL DEF Spec

(* A project marked completed shows at least its target amount.            *)
THEOREM CompletedFunded == Spec => []CompletedIsFunded
<1>1. StatusInv => CompletedIsFunded
  BY DEF StatusInv
<1> QED BY <1>1, StatusAlways, PTL

(* Donation rows exist only for a project that has been approved.          *)
THEOREM ApprovalFirst == Spec => []NoMoneyBeforeApproval
<1>1. StatusInv => NoMoneyBeforeApproval
  BY DEF StatusInv
<1> QED BY <1>1, StatusAlways, PTL

-----------------------------------------------------------------------------
(* The books of uncontested rows.  Such a row has at most one holder, and  *)
(* what its holder has read is still the row.                              *)
HoldersAreActive == \A q \in Requests : HoldsProject(q) \/ HoldsUser(q) => reply[q] = "none"

ProjectReadsFresh ==
  \A p \in Projects \ contestedProjects :
    /\ ProjectBooks(p)
    /\ \A q \in Requests :
         HoldsProject(q) /\ call[q].project = p =>
           /\ seenProject[q] = projects[p]
           /\ \A o \in Requests : HoldsProject(o) /\ call[o].project = p => o = q

UserReadsFresh ==
  \A u \in Users \ contestedUsers :
    /\ UserBooks(u)
    /\ \A q \in Requests :
         HoldsUser(q) /\ call[q].user = u =>
           /\ seenUser[q] = users[u]
           /\ \A o \in Requests : HoldsUser(o) /\ call[o].user = u => o = q

BooksInv == HoldersAreActive /\ ProjectReadsFresh /\ UserReadsFresh

LEMMA NoHolder ==
  ASSUME TypeOK, HoldersAreActive
  PROVE  /\ \A p : ProjectHolders(p) = {} =>
              \A q \in Requests : HoldsProject(q) => call[q].project # p
         /\ \A u : UserHolders(u) = {} =>
              \A q \in Requests : HoldsUser(q) => call[q].user # u
  BY DEF HoldersAreActive, ProjectHolders, UserHolders, Active, HoldsProject, HoldsUser, OpenStages

LEMMA ProjectBooksStep ==
  ASSUME TypeOK, TypeOK', HoldersAreActive, ProjectReadsFresh, [Next]_vars
  PROVE  ProjectReadsFresh'
<1>1. CASE Quiet
  BY <1>1 DEF Quiet, ProjectReadsFresh, ProjectBooks, HoldsProject, tables, contested
<1>2. ASSUME NEW r \in Requests, RowStep(r)
      PROVE  ProjectReadsFresh'
  <2> SUFFICES ASSUME NEW p \in Projects, p \notin contestedProjects'
               PROVE  /\ ProjectBooks(p)'
                      /\ \A q \in Requests :
                           HoldsProject(q)' /\ call'[q].project = p =>
                             /\ seenProject'[q] = projects'[p]
                             /\ \A o \in Requests :
                                  HoldsProject(o)' /\ call'[o].project = p => o = q
    BY DEF ProjectReadsFresh
  <2>1. /\ call' = call
        /\ \A q \in Requests \ {r} : /\ HoldsProject(q)' <=> HoldsProject(q)
                                     /\ seenProject'[q] = seenProject[q]
    BY <1>2, OneRequestSteps DEF Alone, HoldsProject
  <2>2. p \notin contestedProjects
    BY <1>2, ReadProjectEffect, ReadReviewedEffect, ReadUserEffect, CommitEffect,
       SaveReviewedEffect, SaveProfileEffect DEF RowStep, contested
  <2>3. ProjectBooks(p) /\ \A q \in Requests :
          HoldsProject(q) /\ call[q].project = p =>
            /\ seenProject[q] = projects[p]
            /\ \A o \in Requests : HoldsProject(o) /\ call[o].project = p => o = q
    BY <2>2 DEF ProjectReadsFresh
  <2>4. CASE ReadProject(r) \/ ReadReviewed(r)
    <3>1. /\ UNCHANGED tables
          /\ seenProject'[r] = projects[call[r].project]
          /\ contestedProjects' = contestedProjects \cup
               {x \in {call[r].project} : ProjectHolders(x) # {}}
      BY <2>4, ReadProjectEffect, ReadReviewedEffect
    <3>2. ProjectBooks(p)'
      BY <2>3, <3>1 DEF ProjectBooks, tables
    <3>3. CASE call[r].project = p
      <4>1. \A q \in Requests : HoldsProject(q) => call[q].project # p
        BY <3>1, <3>3, NoHolder
      <4> QED BY <2>1, <3>1, <3>2, <3>3, <4>1 DEF tables
    <3>4. CASE call[r].project # p
      BY <2>1, <2>3, <3>1, <3>2, <3>4 DEF tables
    <3> QED BY <3>3, <3>4
  <2>5. CASE ReadUser(r) \/ SaveProfile(r)
    <3>1. /\ UNCHANGED <<projects, raised>>
          /\ ~HoldsProject(r)'
      BY <2>5, ReadUserEffect, SaveProfileEffect DEF tables, HoldsProject, OpenStages
    <3> QED BY <2>1, <2>3, <3>1 DEF ProjectBooks
  <2>6. CASE Commit(r) \/ SaveReviewed(r)
    <3>1. HoldsProject(r) /\ ~HoldsProject(r)' /\ call[r].project \in Projects
      BY <2>6, CommitEffect, SaveReviewedEffect DEF HoldsProject, OpenStages
    <3>2. CASE call[r].project # p
      <4>1. projects'[p] = projects[p] /\ raised'[p] = raised[p]
        BY <2>6, <3>2, CommitEffect, SaveReviewedEffect
      <4> QED BY <2>1, <2>3, <3>1, <4>1 DEF ProjectBooks
    <3>3. CASE call[r].project = p
      <4>1. \A q \in Requests : HoldsProject(q)' => call[q].project # p
        BY <2>1, <2>3, <3>1, <3>3
      <4>2. seenProject[r].current = SeedProjects[p].current + raised[p]
        BY <2>3, <3>1, <3>3 DEF ProjectBooks
      <4>3. CASE Commit(r)
        BY <2>1, <3>3, <4>1, <4>2, <4>3, CommitEffect, CreditedRows, BoundsAreNumbers
           DEF ProjectBooks
      <4>4. CASE SaveReviewed(r)
        BY <2>1, <3>3, <4>1, <4>2, <4>4, SaveReviewedEffect DEF ProjectBooks
      <4> QED BY <2>6, <4>3, <4>4
    <3> QED BY <3>2, <3>3
  <2> QED BY <1>2, <2>4, <2>5, <2>6 DEF RowStep
<1> QED BY <1>1, <1>2, RowSteps

LEMMA UserBooksStep ==
  ASSUME TypeOK, TypeOK', HoldersAreActive, UserReadsFresh, [Next]_vars
  PROVE  UserReadsFresh'
<1>1. CASE Quiet
  BY <1>1 DEF Quiet, UserReadsFresh, UserBooks, HoldsUser, tables, contested
<1>2. ASSUME NEW r \in Requests, RowStep(r)
      PROVE  UserReadsFresh'
  <2> SUFFICES ASSUME NEW u \in Users, u \notin contestedUsers'
               PROVE  /\ UserBooks(u)'
                      /\ \A q \in Requests :
                           HoldsUser(q)' /\ call'[q].user = u =>
                             /\ seenUser'[q] = users'[u]
                             /\ \A o \in Requests :
                                  HoldsUser(o)' /\ call'[o].user = u => o = q
    BY DEF UserReadsFresh
  <2>1. /\ call' = call
        /\ \A q \in Requests \ {r} : /\ HoldsUser(q)' <=> HoldsUser(q)
                                     /\ seenUser'[q] = seenUser[q]
    BY <1>2, OneRequestSteps DEF Alone, HoldsUser
  <2>2. u \notin contestedUsers
    BY <1>2, ReadProjectEffect, ReadReviewedEffect, ReadUserEffect, CommitEffect,
       SaveReviewedEffect, SaveProfileEffect DEF RowStep, contested
  <2>3. UserBooks(u) /\ \A q \in Requests :
          HoldsUser(q) /\ call[q].user = u =>
            /\ seenUser[q] = users[u]
            /\ \A o \in Requests : HoldsUser(o) /\ call[o].user = u => o = q
    BY <2>2 DEF UserReadsFresh
  <2>4. CASE ReadProject(r) \/ ReadUser(r)
    <3>1. /\ UNCHANGED tables
          /\ seenUser'[r] = users[call[r].user]
          /\ contestedUsers' = contestedUsers \cup
               {x \in {call[r].user} : UserHolders(x) # {}}
      BY <2>4, ReadProjectEffect, ReadUserEffect
    <3>2. UserBooks(u)'
      BY <2>3, <3>1 DEF UserBooks, tables
    <3>3. CASE call[r].user = u
      <4>1. \A q \in Requests : HoldsUser(q) => call[q].user # u
        BY <3>1, <3>3, NoHolder
      <4> QED BY <2>1, <3>1, <3>2, <3>3, <4>1 DEF tables
    <3>4. CASE call[r].user # u
      BY <2>1, <2>3, <3>1, <3>2, <3>4 DEF tables
    <3> QED BY <3>3, <3>4
  <2>5. CASE ReadReviewed(r) \/ SaveReviewed(r)
    <3>1. /\ UNCHANGED <<users, given>>
          /\ ~HoldsUser(r)'
      BY <2>5, ReadReviewedEffect, SaveReviewedEffect DEF tables, HoldsUser, OpenStages
    <3> QED BY <2>1, <2>3, <3>1 DEF UserBooks
  <2>6. CASE Commit(r) \/ SaveProfile(r)
    <3>1. HoldsUser(r) /\ ~HoldsUser(r)' /\ call[r].user \in Users
      BY <2>6, CommitEffect, SaveProfileEffect DEF HoldsUser, OpenStages
    <3>2. CASE call[r].user # u
      <4>1. users'[u] = users[u] /\ given'[u] = given[u]
        BY <2>6, <3>2, CommitEffect, SaveProfileEffect
      <4> QED BY <2>1, <2>3, <3>1, <4>1 DEF UserBooks
    <3>3. CASE call[r].user = u
      <4>1. \A q \in Requests : HoldsUser(q)' => call[q].user # u
        BY <2>1, <2>3, <3>1, <3>3
      <4>2. seenUser[r].total = SeedUsers[u].total + given[u]
        BY <2>3, <3>1, <3>3 DEF UserBooks
      <4>3. CASE Commit(r)
        BY <2>1, <3>3, <4>1, <4>2, <4>3, CommitEffect, CreditedRows, BoundsAreNumbers
           DEF UserBooks
      <4>4. CASE SaveProfile(r)
        BY <2>1, <3>3, <4>1, <4>2, <4>4, SaveProfileEffect DEF UserBooks
      <4> QED BY <2>6, <4>3, <4>4
    <3> QED BY <3>2, <3>3
  <2> QED BY <1>2, <2>4, <2>5, <2>6 DEF RowStep
<1> QED BY <1>1, <1>2, RowSteps

LEMMA BooksStep ==
  ASSUME TypeOK, TypeOK', BooksInv, [Next]_vars
  PROVE  BooksInv'
<1>1. HoldersAreActive'
  <2>1. CASE Quiet
    BY <2>1 DEF Quiet, BooksInv, HoldersAreActive, HoldsProject, HoldsUser
  <2>2. ASSUME NEW r \in Requests, RowStep(r)
        PROVE  HoldersAreActive'
    BY <2>2, OneRequestSteps DEF Alone, BooksInv, HoldersAreActive, HoldsProject, HoldsUser
  <2> QED BY <2>1, <2>2, RowSteps
<1> QED BY <1>1, ProjectBooksStep, UserBooksStep DEF BooksInv

LEMMA BooksAlways == Spec => []BooksInv
<1>1. Init => BooksInv
  <2> SUFFICES ASSUME Init PROVE BooksInv
    OBVIOUS
  <2>1. \A p \in Projects : ProjectBooks(p)
    BY SeedAssumption DEF Init, ProjectBooks, ProjectRow
  <2>2. \A u \in Users : UserBooks(u)
    BY SeedAssumption DEF Init, UserBooks, UserRow
  <2>3. \A q \in Requests : ~HoldsProject(q) /\ ~HoldsUser(q)
    BY DEF Init, HoldsProject, HoldsUser, OpenStages
  <2> QED BY <2>1, <2>2, <2>3 DEF BooksInv, HoldersAreActive, ProjectReadsFresh, UserReadsFresh
<1>2. TypeOK /\ TypeOK' /\ BooksInv /\ [Next]_vars => BooksInv'
  BY BooksStep
<1> QED BY <1>1, <1>2, Typing, PTL DEF Spec

(* The collected amount of a project, and the total of a user, is exactly  *)
(* what the donation rows add up to, unless two requests ever held the row *)
(* at once.                                                                *)
THEOREM UncontestedBooks == Spec => []UncontestedBooksBalance
<1>1. BooksInv => UncontestedBooksBalance
  BY DEF BooksInv, ProjectReadsFresh, UserReadsFresh, UncontestedBooksBalance
<1> QED BY <1>1, BooksAlways, PTL

-----------------------------------------------------------------------------
(* Any number of connections.  What a request has read of a row it may     *)
(* still write is what the shared ledger lets a writer go by: the row      *)
(* itself while it is uncontested, else a row within the bounds above.     *)
LEMMA HeldAmounts ==
  ASSUME TypeOK, PhantomInv, BooksInv, NEW r \in Requests, HoldsProject(r)
  PROVE  /\ call[r].project \in Projects
         /\ seenProject[r].current \in Shared!AmountsFor(call[r].project)
<1> DEFINE p == call[r].project
<1>1. p \in Projects
  BY HeldCalls
<1>2. CASE p \in contestedProjects
  <2>1. ProjectWithin(p, seenProject[r])
    BY DEF PhantomInv, ReadsWithin
  <2>2. /\ SeedProjects[p].current \in Nat /\ raised[p] \in Nat
        /\ seenProject[r].current \in Nat
    BY <1>1, BoundsAreNumbers
  <2> QED BY <1>1, <1>2, <2>1, <2>2 DEF Shared!AmountsFor, ProjectWithin, ProjectBound
<1>3. CASE p \notin contestedProjects
  <2>1. seenProject[r] = projects[p]
    BY <1>1, <1>3 DEF BooksInv, ProjectReadsFresh
  <2> QED BY <1>1, <1>3, <2>1 DEF Shared!AmountsFor
<1> QED BY <1>2, <1>3

LEMMA HeldRows ==
  ASSUME TypeOK, PhantomInv, BooksInv, NEW r \in Requests, HoldsUser(r)
  PROVE  /\ call[r].user \in Users
         /\ seenUser[r] \in Shared!RowsFor(call[r].user)
<1> DEFINE u == call[r].user
<1>1. u \in Users
  BY HeldCalls
<1>2. CASE u \in contestedUsers
  <2>1. UserWithin(u, seenUser[r])
    BY DEF PhantomInv, ReadsWithin
  <2>2. /\ SeedUsers[u].total \in Nat /\ given[u] \in Nat
        /\ seenUser[r].total \in Nat
    BY <1>1, BoundsAreNumbers
  <2>3. seenUser[r].total \in SeedUsers[u].total .. SeedUsers[u].total + given[u]
    BY <2>1, <2>2 DEF UserWithin, UserBound
  <2>4. seenUser[r] \in UserRow
    BY DEF TypeOK
  <2>5. seenUser[r] \in [total : SeedUsers[u].total .. SeedUsers[u].total + given[u],
                         profile : Profiles]
    BY <2>3, <2>4, Zenon DEF UserRow
  <2> QED BY <1>1, <1>2, <2>5, Zenon DEF Shared!RowsFor
<1>3. CASE u \notin contestedUsers
  <2>1. seenUser[r] = users[u]
    BY <1>1, <1>3 DEF BooksInv, UserReadsFresh
  <2> QED BY <1>1, <1>3, <2>1 DEF Shared!RowsFor
<1> QED BY <1>2, <1>3

LEMMA CommitIsGive ==
  ASSUME TypeOK, PhantomInv, BooksInv, StatusInv, NEW r \in Requests, Commit(r)
  PROVE  Shared!SharedNext
<1> DEFINE p == call[r].project
           u == call[r].user
           a == call[r].amount
<1>1. p \in Projects /\ u \in Users /\ a \in Amounts /\ a > 0
  BY CommitEffect
<1>2. pc[r] \in OpenStages /\ HoldsProject(r) /\ HoldsUser(r)
  BY CommitEffect DEF OpenStages, HoldsProject, HoldsUser
<1>3. seenProject[r].status = "approved"
  BY <1>2 DEF StatusInv, ReadsAreApproved
<1>4. p \in contestedProjects \/ projects[p].status = "approved"
  BY <1>1, <1>2, <1>3 DEF BooksInv, ProjectReadsFresh
<1>5. CreditedProject(r) = Shared!Funded(p, seenProject[r].current, a)
  BY <1>3 DEF CreditedProject, Shared!Funded
<1>6. \E current \in Shared!AmountsFor(p) :
        projects' = [projects EXCEPT ![p] = Shared!Funded(p, current, a)]
  <2>1. projects' = [projects EXCEPT ![p] = Shared!Funded(p, seenProject[r].current, a)]
    BY <1>5 DEF Commit
  <2> QED BY <1>2, <2>1, HeldAmounts, Zenon
<1>7. \E row \in Shared!RowsFor(u) :
        users' = [users EXCEPT ![u] = [row EXCEPT !.total = @ + a]]
  <2>1. users' = [users EXCEPT ![u] = [seenUser[r] EXCEPT !.total = @ + a]]
    BY DEF Commit, CreditedUser
  <2> QED BY <1>2, <2>1, HeldRows, Zenon
<1>8. Shared!Give(u, p, a)
  BY <1>1, <1>4, <1>6, <1>7, Zenon DEF Shared!Give, Commit, contested
<1> QED BY <1>1, <1>8, Zenon DEF Shared!SharedNext

LEMMA SaveReviewedIsDecide ==
  ASSUME TypeOK, PhantomInv, BooksInv, NEW r \in Requests, SaveReviewed(r)
  PROVE  Shared!SharedNext
<1> DEFINE p == call[r].project
           v == call[r].verdict
<1>1. p \in Projects /\ v \in {"approved", "rejected"} /\ HoldsProject(r)
  BY SaveReviewedEffect DEF HoldsProject
<1>2. [seenProject[r] EXCEPT !.status = v] = [current |-> seenProject[r].current, status |-> v]
  BY DEF TypeOK, ProjectRow
<1>3. projects' = [projects EXCEPT ![p] = [current |-> seenProject[r].current, status |-> v]]
  BY <1>2 DEF SaveReviewed
<1>4. Shared!Decide(p, v)
  BY <1>1, <1>3, HeldAmounts, Zenon DEF Shared!Decide, SaveReviewed, contested
<1> QED BY <1>1, <1>4, Zenon DEF Shared!SharedNext

LEMMA SaveProfileIsEdit ==
  ASSUME TypeOK, PhantomInv, BooksInv, NEW r \in Requests, SaveProfile(r)
  PROVE  Shared!SharedNext
<1>1. pc[r] = "profileRead"
  BY DEF SaveProfile, At
<1>2. call[r].user \in Users /\ call[r].profile \in Profiles /\ HoldsUser(r)
  BY <1>1, CallsByStage DEF ProfileStages, HoldsUser
<1>3. Shared!Edit(call[r].user, call[r].profile)
  BY <1>2, HeldRows, Zenon DEF Shared!Edit, SaveProfile, contested
<1> QED BY <1>2, <1>3, Zenon DEF Shared!SharedNext

(* However requests overlap, fail or crash, and however many connections   *)
(* the pool has, the services implement the shared ledger: uncontested     *)
(* rows are written as by a writer alone, and a donation credits them only *)
(* while the project is approved.                                          *)
THEOREM ServicesKeepSharedLedger == Spec => KeepsSharedLedger
<1>1. Init => Shared!SharedInit
  BY DEF Init, Shared!SharedInit, Shared!AtomicInit
<1>2. TypeOK /\ PhantomInv /\ BooksInv /\ StatusInv /\ [Next]_vars
        => [Shared!SharedNext]_(Shared!sharedVars)
  <2> SUFFICES ASSUME TypeOK, PhantomInv, BooksInv, StatusInv, [Next]_vars
               PROVE  Shared!SharedNext \/ UNCHANGED Shared!sharedVars
    OBVIOUS
  <2>1. CASE Quiet
    BY <2>1 DEF Quiet, tables, contested, Shared!sharedVars
  <2>2. ASSUME NEW r \in Requests, RowStep(r)
        PROVE  Shared!SharedNext
    <3>1. CASE ReadProject(r) \/ ReadReviewed(r) \/ ReadUser(r)
      <4>1. Shared!Contest
        BY <3>1, ReadProjectEffect, ReadReviewedEffect, ReadUserEffect
           DEF Shared!Contest, Shared!atomicVars, tables
      <4> QED BY <4>1 DEF Shared!SharedNext
    <3> QED
      BY <2>2, <3>1, CommitIsGive, SaveReviewedIsDecide, SaveProfileIsEdit DEF RowStep
  <2> QED BY <2>1, <2>2, RowSteps
<1> QED
  BY <1>1, <1>2, Typing, PhantomAlways, BooksAlways, StatusAlways, PTL
     DEF Spec, KeepsSharedLedger, Shared!SharedSpec

-----------------------------------------------------------------------------
(* One connection.  With PoolSize = 1 a donation holds the only connection *)
(* from its first read to its commit, so what it read is still current     *)
(* when it commits, and its commit is the one step the service promises.   *)
SerialInv ==
  \A r \in OpenTx :
    /\ \A q \in OpenTx : q = r
    /\ seenProject[r] = projects[call[r].project]
    /\ seenUser[r] = users[call[r].user]

LEMMA FreeConnectionAlone ==
  ASSUME PoolSize = 1, FreeConnection
  PROVE  OpenTx = {}
<1>1. IsFiniteSet(OpenTx)
  BY RequestsAssumption, FS_Subset DEF OpenTx, Active
<1>2. Cardinality(OpenTx) \in Nat /\ Cardinality(OpenTx) < 1
  BY <1>1, FS_CardinalityType DEF FreeConnection
<1>3. Cardinality(OpenTx) = 0
  BY <1>2
<1> QED BY <1>1, <1>3, FS_EmptySet

LEMMA SerialStep ==
  ASSUME PoolSize = 1, TypeOK, SerialInv, [Next]_vars
  PROVE  SerialInv'
<1>1. CASE Quiet
  <2>1. \A q \in OpenTx' : /\ q \in OpenTx /\ call'[q] = call[q]
                           /\ seenProject'[q] = seenProject[q] /\ seenUser'[q] = seenUser[q]
    BY <1>1 DEF Quiet, OpenTx, Active, OpenStages
  <2> QED BY <1>1, <2>1 DEF Quiet, SerialInv, tables
<1>2. ASSUME NEW r \in Requests, RowStep(r)
      PROVE  SerialInv'
  <2>1. Alone(r) /\ call' = call /\ reply' = reply /\ reply[r] = "none"
    BY <1>2, OneRequestSteps
  <2>2. \A q \in OpenTx' : q # r => q \in OpenTx
    BY <2>1 DEF Alone, OpenTx, Active
  <2>3. CASE ReadProject(r)
    <3>1. OpenTx = {}
      BY <2>3, FreeConnectionAlone DEF ReadProject, BeginDonation
    <3>2. \A q \in OpenTx' : q = r
      BY <2>2, <3>1
    <3> QED BY <2>1, <2>3, <3>2, ReadProjectEffect DEF SerialInv, tables
  <2>4. CASE Commit(r)
    <3>1. r \in OpenTx /\ r \notin OpenTx'
      BY <2>1, <2>4, CommitEffect DEF OpenTx, Active, OpenStages
    <3>2. OpenTx' = {}
      BY <2>2, <3>1 DEF SerialInv
    <3> QED BY <3>2 DEF SerialInv
  <2>5. CASE ReadReviewed(r) \/ SaveReviewed(r) \/ ReadUser(r) \/ SaveProfile(r)
    <3>1. OpenTx = {}
      BY <2>5, FreeConnectionAlone DEF ReadReviewed, SaveReviewed, ReadUser, SaveProfile
    <3>2. r \notin OpenTx'
      BY <2>5, ReadReviewedEffect, SaveReviewedEffect, ReadUserEffect, SaveProfileEffect
         DEF OpenTx, OpenStages
    <3>3. OpenTx' = {}
      BY <2>2, <3>1, <3>2
    <3> QED BY <3>3 DEF SerialInv
  <2> QED BY <1>2, <2>3, <2>4, <2>5 DEF RowStep
<1> QED BY <1>1, <1>2, RowSteps

LEMMA DonationsAreRequests == DonationSpec => Spec
<1>1. [DonationNext]_vars => [Next]_vars
  BY DEF DonationNext, Next, AnyRequest
<1> QED BY <1>1, PTL DEF DonationSpec, Spec

(* A commit in such a state is one step of the abstract ledger. *)
LEMMA SerialCommit ==
  ASSUME TypeOK, StatusInv, SerialInv, NEW r \in Requests, Commit(r)
  PROVE  Promise!AtomicNext
<1> DEFINE p == call[r].project
           u == call[r].user
           a == call[r].amount
<1>1. p \in Projects /\ u \in Users /\ a \in Amounts /\ a > 0
  BY CommitEffect
<1>2. pc[r] \in OpenStages /\ r \in OpenTx
  BY DEF Commit, At, OpenTx, OpenStages
<1>3. /\ seenProject[r] = projects[p] /\ seenUser[r] = users[u]
      /\ projects[p].status = "approved"
  BY <1>2 DEF SerialInv, StatusInv, ReadsAreApproved
<1>4. Promise!GiveTo(u, p, a)
  BY <1>1, <1>3 DEF Promise!GiveTo, Promise!Funded, Commit, CreditedProject, CreditedUser
<1> QED BY <1>1, <1>4 DEF Promise!AtomicNext

(* With one connection in the pool, donations implement the abstract       *)
(* ledger: each is one atomic step that keeps rows and sums together.      *)
THEOREM OneConnectionKeepsPromise ==
  ASSUME PoolSize = 1
  PROVE  DonationSpec => KeepsPromise
<1>1. Init => SerialInv /\ Promise!AtomicInit
  BY DEF Init, SerialInv, OpenTx, Active, Promise!AtomicInit
<1>2. TypeOK /\ SerialInv /\ [Next]_vars => SerialInv'
  BY SerialStep
<1>3. TypeOK /\ StatusInv /\ SerialInv /\ [DonationNext]_vars
        => [Promise!AtomicNext]_(Promise!atomicVars)
  <2> SUFFICES ASSUME TypeOK, StatusInv, SerialInv, [DonationNext]_vars
               PROVE  Promise!AtomicNext \/ UNCHANGED Promise!atomicVars
    OBVIOUS
  <2>1. CASE \E r \in Requests : Commit(r)
    BY <2>1, SerialCommit
  <2>2. CASE ~\E r \in Requests : Commit(r)
    BY <2>2 DEF DonationNext, Crash, End, DonationRequest, ReceiveDonation, Arrive, Donate,
       ReadProject, BeginDonation, Move, RefuseDonation, InsertDonation, SaveProject, SaveUser, AnswerDonation,
       Fail, Reply, vars, tables, Promise!atomicVars
  <2> QED BY <2>1, <2>2
<1> QED
  BY <1>1, <1>2, <1>3, Typing, StatusAlways, DonationsAreRequests, PTL
     DEF DonationSpec, Spec, KeepsPromise, Promise!AtomicSpec

(* An atomic donation leaves no row without its amounts. *)
LEMMA GiftsBalance ==
  ASSUME TypeOK, TypeOK', BooksBalance, [Promise!AtomicNext]_(Promise!atomicVars)
  PROVE  BooksBalance'
<1>1. CASE UNCHANGED Promise!atomicVars
  BY <1>1 DEF BooksBalance, ProjectBooks, UserBooks, Promise!atomicVars
<1>2. CASE Promise!AtomicNext
  <2>1. PICK u \in Users, p \in Projects, a \in Amounts : Promise!GiveTo(u, p, a)
    BY <1>2 DEF Promise!AtomicNext
  <2>2. /\ a \in Int
        /\ projects \in [Projects -> ProjectRow] /\ users \in [Users -> UserRow]
        /\ raised \in [Projects -> Nat] /\ given \in [Users -> Nat]
    BY MoneyAssumption DEF TypeOK
  <2>3. ASSUME NEW q \in Projects PROVE ProjectBooks(q)'
    <3>1. /\ projects[q].current \in Int /\ SeedProjects[q].current \in Int
          /\ raised[q] \in Int
      BY <2>2, SeedAssumption DEF ProjectRow
    <3>2. projects[q].current = SeedProjects[q].current + raised[q]
      BY DEF BooksBalance, ProjectBooks
    <3>3. CASE q # p
      BY <2>1, <2>2, <3>2, <3>3 DEF Promise!GiveTo, ProjectBooks
    <3>4. CASE q = p
      <4>1. /\ projects'[q].current = projects[q].current + a
            /\ raised'[q] = raised[q] + a
        BY <2>1, <2>2, <3>4 DEF Promise!GiveTo, Promise!Funded
      <4> QED BY <2>2, <3>1, <3>2, <4>1 DEF ProjectBooks
    <3> QED BY <3>3, <3>4
  <2>4. ASSUME NEW v \in Users PROVE UserBooks(v)'
    <3>1. /\ users[v].total \in Int /\ SeedUsers[v].total \in Int
          /\ given[v] \in Int
      BY <2>2, SeedAssumption DEF UserRow
    <3>2. users[v].total = SeedUsers[v].total + given[v]
      BY DEF BooksBalance, UserBooks
    <3>3. CASE v # u
      BY <2>1, <2>2, <3>2, <3>3 DEF Promise!GiveTo, UserBooks
    <3>4. CASE v = u
      <4>1. /\ users'[v].total = users[v].total + a
            /\ given'[v] = given[v] + a
        BY <2>1, <2>2, <3>4 DEF Promise!GiveTo, UserRow
      <4> QED BY <2>2, <3>1, <3>2, <4>1 DEF UserBooks
    <3> QED BY <3>3, <3>4
  <2> QED BY <2>3, <2>4 DEF BooksBalance
<1> QED BY <1>1, <1>2

(* What the comment of Create says of the books, and run books refutes for *)
(* two connections, holds with one: every donation row is in the amount of *)
(* its project and in the total of its donor.                              *)
THEOREM OneConnectionBalances ==
  ASSUME PoolSize = 1
  PROVE  DonationSpec => []BooksBalance
<1>1. Init => BooksBalance
  BY SeedAssumption DEF Init, BooksBalance, ProjectBooks, UserBooks, ProjectRow, UserRow
<1>2. TypeOK /\ TypeOK' /\ BooksBalance /\ [Promise!AtomicNext]_(Promise!atomicVars)
        => BooksBalance'
  BY GiftsBalance
<1> QED
  BY <1>1, <1>2, Typing, DonationsAreRequests, OneConnectionKeepsPromise, PTL
     DEF DonationSpec, Spec, KeepsPromise, Promise!AtomicSpec
=============================================================================
