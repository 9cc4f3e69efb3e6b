------------------------------ MODULE MCLedger ------------------------------
(* Small instances of Ledger for TLC: two approved projects of different   *)
(* owners, a pending one and a completed one; the owners donate as well.   *)
EXTENDS Ledger, TLC

CONSTANTS r1, r2, r3, u1, u2, approved1, approved2, pending, completed

MCTarget == [p \in Projects |-> 2]
MCOwner == [p \in Projects |-> IF p = approved2 THEN u2 ELSE u1]
MCSeedProjects == [p \in Projects |->
  CASE p = pending -> [status |-> "pending", current |-> 0]
    [] p = completed -> [status |-> "completed", current |-> 2]
    [] OTHER -> [status |-> "approved", current |-> 0]]
MCSeedUsers == [u \in Users |-> [total |-> 1, profile |-> CHOOSE x \in Profiles : TRUE]]
RequestSymmetry == Permutations(Requests)
=============================================================================
