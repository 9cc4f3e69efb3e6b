------------------------------ MODULE MCPages -------------------------------
(* A small instance of Pages for TLC: one project to review, one category  *)
(* with two pages and one with a full single page; and how lists of up to  *)
(* nine rows are cut into pages of up to four.                             *)
EXTENDS Pages, TLC

CONSTANT project

MCKind == project :> "projects"
MCMatches == "all" :> 3 @@ "other" :> 2

ASSUME SmallListsPaged ==
  \A total \in 0..9, size \in 1..4 :
    /\ EachRowOnce(total, size, -2..12)
    /\ PagesHaveRows(total, size, 1..12)
    /\ PagesAreFull(total, size, 1..12)
=============================================================================
