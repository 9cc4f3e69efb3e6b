-------------------------- MODULE DonationService --------------------------
(***************************************************************************)
(* DonationService.Create: one transaction that reads the project, inserts *)
(* the donation and saves the project and the donor, each of them as a     *)
(* whole row computed from what was read.  The reads are plain SELECTs of  *)
(* one snapshot (InnoDB REPEATABLE READ), so the donor row it adds to is   *)
(* the one of the moment the project was read.                             *)
(***************************************************************************)
EXTENDS Database

ValidDonations == {c \in DonationCalls : c.amount > 0}

(* Mutant: the amount is not validated. *)
ReceiveDonation_Unvalidated(r) == \E c \in DonationCalls : Arrive(r, c, TRUE)

ReceiveDonation(r) == \E c \in DonationCalls : Arrive(r, c, c \in ValidDonations)

(* The transaction begins; its first SELECT fixes the snapshot. *)
BeginDonation(r) ==
  /\ At(r, "donate")
  /\ FreeConnection
  /\ ReadProjectRow(r, call[r].project)
  /\ ReadUserRow(r, call[r].user)
  /\ Goto(r, "projectRead")
  /\ UNCHANGED <<tables, call, reply>>

(* Mutant: the project's status is not checked. *)
ReadProject_Unchecked(r) == BeginDonation(r)

ReadProject(r) == BeginDonation(r) /\ projects[call[r].project].status = "approved"

RefuseDonation(r) ==
  /\ At(r, "donate")
  /\ FreeConnection
  /\ projects[call[r].project].status # "approved"
  /\ Reply(r, "error")

InsertDonation(r) ==
  Move(r, "projectRead", "donationInserted") /\ MayInsertDonation(r)

(* Mutant: completed only when the target is exceeded. *)
CreditedProject_Strict(r) ==
  LET funded == seenProject[r].current + call[r].amount
      full == funded > Target[call[r].project]
  IN  [current |-> funded,
       status |-> IF full THEN "completed" ELSE seenProject[r].status]

(* Mutant: the donor's total is overwritten, not added to. *)
CreditedUser_Overwritten(r) ==
  [seenUser[r] EXCEPT !.total = call[r].amount]

CreditedProject(r) ==
  LET funded == seenProject[r].current + call[r].amount
      full == funded >= Target[call[r].project]
  IN  [current |-> funded,
       status |-> IF full THEN "completed" ELSE seenProject[r].status]

CreditedUser(r) ==
  [seenUser[r] EXCEPT !.total = @ + call[r].amount]

(* Mutant: the project is saved through the service's own repository, not  *)
(* through that of the transaction.                                        *)
SaveProject_OutsideTx(r) ==
  /\ At(r, "donationInserted")
  /\ MayWriteProject(r)
  /\ projects' = [projects EXCEPT ![call[r].project] = CreditedProject(r)]
  /\ Goto(r, "projectSaved")
  /\ UNCHANGED <<users, raised, given, call, reply, seen, contested>>

SaveProject(r) == Move(r, "donationInserted", "projectSaved") /\ MayWriteProject(r)

(* Mutant: the user is saved through the service's own repository, on a    *)
(* second connection.                                                      *)
SaveUser_OutsideTx(r) ==
  Move(r, "projectSaved", "userSaved") /\ FreeConnection /\ MayWriteUser(r)

SaveUser(r) == Move(r, "projectSaved", "userSaved") /\ MayWriteUser(r)

(* The three writes become visible together. *)
Commit(r) ==
  /\ At(r, "userSaved")
  /\ projects' = [projects EXCEPT ![call[r].project] = CreditedProject(r)]
  /\ users' = [users EXCEPT ![call[r].user] = CreditedUser(r)]
  /\ raised' = [raised EXCEPT ![call[r].project] = @ + call[r].amount]
  /\ given' = [given EXCEPT ![call[r].user] = @ + call[r].amount]
  /\ Goto(r, "committed")
  /\ UNCHANGED <<call, reply, seen, contested>>

AnswerDonation(r) == At(r, "committed") /\ Reply(r, "ok")

Donate(r) ==
  \/ ReadProject(r) \/ RefuseDonation(r)
  \/ InsertDonation(r) \/ SaveProject(r) \/ SaveUser(r)
  \/ Commit(r) \/ AnswerDonation(r)
=============================================================================
