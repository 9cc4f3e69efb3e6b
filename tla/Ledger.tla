------------------------------- MODULE Ledger -------------------------------
(***************************************************************************)
(* The services that write the projects and users tables, side by side:    *)
(* donations, project reviews and profile updates of concurrent requests,  *)
(* failing statements and crashes of the server process.                   *)
(***************************************************************************)
EXTENDS DonationService, ProjectReview, ProfileUpdate

DonationRequest(r) == ReceiveDonation(r) \/ Donate(r) \/ Fail(r)
AnyRequest(r) ==
  \/ ReceiveReview(r) \/ Review(r)
  \/ ReceiveProfile(r) \/ UpdateProfile(r)
  \/ DonationRequest(r)

Next == Crash \/ \E r \in Requests : AnyRequest(r)
DonationNext == Crash \/ \E r \in Requests : DonationRequest(r)

(* A goroutine that can run does run, the pool serves its waiters, and a   *)
(* wait for a row lock ends: with the lock, in a deadlock report or at     *)
(* innodb_lock_wait_timeout.  No other failure has to happen.              *)
Proceed(r) ==
  Donate(r) \/ Review(r) \/ UpdateProfile(r) \/ (Blocked(r) /\ Fail(r))
Fairness == \A r \in Requests : WF_vars(Proceed(r))

Spec == Init /\ [][Next]_vars
FairSpec == Spec /\ Fairness
(* Donations only: no administrator reviews, nobody edits a profile. *)
DonationSpec == Init /\ [][DonationNext]_vars
FairDonationSpec == DonationSpec /\ Fairness

-----------------------------------------------------------------------------
DonationStages == {"donate", "committed"} \cup OpenStages
ReviewStages == {"review", "reviewRead", "reviewSaved", "reviewRecorded"}
ProfileStages == {"profile", "profileRead", "profileSaved"}
Stages == {"idle", "failed"} \cup DonationStages \cup ReviewStages \cup ProfileStages

(* The type invariant: rows and requests have their shape, and a stage is  *)
(* reached only by the operation it belongs to, with arguments that passed *)
(* its validation.                                                         *)
TypeOK ==
  /\ projects \in [Projects -> ProjectRow]
  /\ users \in [Users -> UserRow]
  /\ raised \in [Projects -> Nat]
  /\ given \in [Users -> Nat]
  /\ pc \in [Requests -> Stages]
  /\ reply \in [Requests -> {"none", "ok", "error"}]
  /\ seenProject \in [Requests -> ProjectRow]
  /\ seenUser \in [Requests -> UserRow]
  /\ contestedProjects \subseteq Projects
  /\ contestedUsers \subseteq Users
  /\ call \in [Requests -> {NoCall} \cup DonationCalls \cup ReviewCalls \cup ProfileCalls]
  /\ \A r \in Requests :
       /\ pc[r] \in DonationStages => call[r] \in ValidDonations
       /\ pc[r] \in ReviewStages => call[r] \in ValidReviews
       /\ pc[r] \in ProfileStages => call[r] \in ProfileCalls

(* No phantom money (service_donation.go 102 and 114): whatever overlaps,  *)
(* fails or crashes, and whichever whole-row saves write back old amounts, *)
(* a project or a user never shows more than its donation rows account for.*)
NoPhantomMoney ==
  /\ \A p \in Projects : projects[p].current <= SeedProjects[p].current + raised[p]
  /\ \A u \in Users : users[u].total <= SeedUsers[u].total + given[u]

(* A project marked completed shows at least its target amount, although   *)
(* reviews write stale amounts and donations write stale statuses.         *)
CompletedIsFunded ==
  \A p \in Projects : projects[p].status = "completed" => projects[p].current >= Target[p]

(* Donation rows exist only for a project that started out approved or     *)
(* that some administrator's review has approved.                          *)
EverApproved(p) ==
  \/ SeedProjects[p].status = "approved"
  \/ \E q \in Requests : /\ pc[q] \in {"reviewSaved", "reviewRecorded"}
                         /\ call[q].project = p
                         /\ call[q].verdict = "approved"
NoMoneyBeforeApproval == \A p \in Projects : raised[p] > 0 => EverApproved(p)

(* The books balance (service_donation.go 51) for every row no two         *)
(* requests ever held at once between reading it and writing it.           *)
ProjectBooks(p) == projects[p].current = SeedProjects[p].current + raised[p]
UserBooks(u) == users[u].total = SeedUsers[u].total + given[u]
UncontestedBooksBalance ==
  /\ \A p \in Projects \ contestedProjects : ProjectBooks(p)
  /\ \A u \in Users \ contestedUsers : UserBooks(u)

(* However many connections serve overlapping requests, failing statements *)
(* and crashes, every write is one the services may make: one that leaves  *)
(* an uncontested row as a writer alone would (a donation only to a project*)
(* that is approved at its commit, although the check at                   *)
(* service_donation.go 79 is three statements old by then), and that keeps *)
(* a contested row between its start and all that was donated.             *)
Shared == INSTANCE SharedLedger
KeepsSharedLedger == Shared!SharedSpec

(* With one connection in the pool donations run one after the other, and  *)
(* every one of them is the single step the service promises.              *)
Promise == INSTANCE AtomicLedger
KeepsPromise == Promise!AtomicSpec

(* Every request that reaches the server is answered or broken off.         *)
EveryRequestEnds == \A r \in Requests : r \in Active ~> reply[r] # "none"

-----------------------------------------------------------------------------
(* What the documentation says and concurrent requests break. *)

(* service_donation.go 51: donation rows, collected amounts and donors'    *)
(* totals are written consistently.                                        *)
BooksBalance == /\ \A p \in Projects : ProjectBooks(p)
                /\ \A u \in Users : UserBooks(u)

(* The profile endpoint (README.md 93) leaves the donor's total alone.     *)
ProfilesKeepTotals ==
  [][\A r \in Requests :
       SaveProfile(r) => users'[call[r].user].total = users[call[r].user].total]_vars

(* A rejected project is shown again only after an approving review.       *)
RejectedUntilApproved ==
  [][\A p \in Projects :
       projects[p].status = "rejected" /\ projects'[p].status # "rejected"
         => \E r \in Requests : SaveReviewed(r) /\ call[r].project = p]_vars
=============================================================================
