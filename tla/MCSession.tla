----------------------------- MODULE MCSession ------------------------------
(* Small instances of Session for TLC.                                     *)
EXTENDS Session, TLC

CONSTANTS donor, admin

MCRole == [a \in Accounts |-> IF a = admin THEN "admin" ELSE "user"]
SessionSymmetry == Permutations(Tabs) \cup Permutations(Tokens) \cup Permutations(Calls)
=============================================================================
