--------------------------- MODULE ProjectReview ---------------------------
(***************************************************************************)
(* AdminService.ReviewProject: three statements, none of them in a         *)
(* transaction of the service: read the project, save it with the decision *)
(* as its status, insert the review record.  The save writes every column, *)
(* the collected amount too, and the code does not ask what the status was.*)
(***************************************************************************)
EXTENDS Database

ValidReviews == {c \in ReviewCalls : c.verdict \in {"approved", "rejected"}}

(* Mutant: the decision is not validated. *)
ReceiveReview_Unvalidated(r) == \E c \in ReviewCalls : Arrive(r, c, TRUE)

ReceiveReview(r) == \E c \in ReviewCalls : Arrive(r, c, c \in ValidReviews)

ReadReviewed(r) ==
  /\ At(r, "review")
  /\ FreeConnection
  /\ ReadProjectRow(r, call[r].project)
  /\ Goto(r, "reviewRead")
  /\ UNCHANGED <<tables, call, reply, seenUser, contestedUsers>>

(* Mutant: a fresh row with the decision is saved, without its amount. *)
SaveReviewed_Uncounted(r) ==
  /\ At(r, "reviewRead")
  /\ FreeConnection
  /\ MayWriteProject(r)
  /\ projects' = [projects EXCEPT ![call[r].project] =
                    [current |-> 0, status |-> call[r].verdict]]
  /\ Goto(r, "reviewSaved")
  /\ UNCHANGED <<users, raised, given, call, reply, seen, contested>>

SaveReviewed(r) ==
  /\ At(r, "reviewRead")
  /\ FreeConnection
  /\ MayWriteProject(r)
  /\ projects' = [projects EXCEPT ![call[r].project] =
                    [seenProject[r] EXCEPT !.status = call[r].verdict]]
  /\ Goto(r, "reviewSaved")
  /\ UNCHANGED <<users, raised, given, call, reply, seen, contested>>

RecordReview(r) == Move(r, "reviewSaved", "reviewRecorded") /\ FreeConnection

AnswerReview(r) == At(r, "reviewRecorded") /\ Reply(r, "ok")

Review(r) ==
  ReadReviewed(r) \/ SaveReviewed(r) \/ RecordReview(r) \/ AnswerReview(r)
=============================================================================
