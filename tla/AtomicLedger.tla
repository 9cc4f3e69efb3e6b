---------------------------- MODULE AtomicLedger ----------------------------
(***************************************************************************)
(* What DonationService.Create promises (service_donation.go 50-51): a     *)
(* donation is one step that adds its row, credits the project and credits *)
(* the donor, and that completes the project when the target is reached.   *)
(***************************************************************************)
EXTENDS Integers

CONSTANTS Users, Projects, Target, SeedProjects, SeedUsers, Amounts

VARIABLES projects, users, raised, given

atomicVars == <<projects, users, raised, given>>

AtomicInit ==
  /\ projects = SeedProjects
  /\ users = SeedUsers
  /\ raised = [p \in Projects |-> 0]
  /\ given = [u \in Users |-> 0]

(* A project row after a donation to an open project that showed current. *)
Funded(p, current, amount) ==
  LET sum == current + amount
  IN  [current |-> sum,
       status |-> IF sum >= Target[p] THEN "completed" ELSE "approved"]

GiveTo(u, p, amount) ==
  /\ amount > 0
  /\ projects[p].status = "approved"
  /\ projects' = [projects EXCEPT ![p] = Funded(p, @.current, amount)]
  /\ users' = [users EXCEPT ![u].total = @ + amount]
  /\ raised' = [raised EXCEPT ![p] = @ + amount]
  /\ given' = [given EXCEPT ![u] = @ + amount]

AtomicNext ==
  \E u \in Users, p \in Projects, amount \in Amounts : GiveTo(u, p, amount)

AtomicSpec == AtomicInit /\ [][AtomicNext]_atomicVars
=============================================================================
