---------------------------- MODULE ProjectList -----------------------------
(***************************************************************************)
(* The list of projects (Projects.tsx): a category and a page number are   *)
(* chosen; every change of either asks for a list, and any answer replaces *)
(* list and totals.                                                        *)
(***************************************************************************)
EXTENDS Views

(* Mutant: the effect that loads the list does not depend on the number.   *)
Choose_Undepended(q) ==
  /\ page = "projects"
  /\ query' = q
  /\ IF q.category = query.category
     THEN UNCHANGED <<loads, lastLoad, loading>>
     ELSE Reload(q) /\ loading' = TRUE
  /\ UNCHANGED <<page, totalPages, straight, shown, form, desk>>

(* Category and page number are what the effect of the list depends on.    *)
Choose(q) ==
  /\ page = "projects"
  /\ query' = q
  /\ IF q = query
     THEN UNCHANGED <<loads, lastLoad, loading>>
     ELSE Reload(q) /\ loading' = TRUE
  /\ UNCHANGED <<page, totalPages, straight, shown, form, desk>>

(* Mutant: the page number is kept when the category changes.              *)
FirstPageOf_Kept(category) == [query EXCEPT !.category = category]

FirstPageOf(category) == [category |-> category, no |-> 1]

(* The category buttons are there at any time.                             *)
PickCategory(category) == Choose(FirstPageOf(category))

ListIsEmpty == RowsOf(shown.query) = {}

PagerIsShown == ~ loading /\ shown # None /\ ~ ListIsEmpty /\ totalPages > 1

Turn(no) == PagerIsShown /\ Choose([query EXCEPT !.no = no])

(* Mutant: the number may fall below the first page.                       *)
PreviousPage_Unbounded == Turn(query.no - 1)

PreviousPage == query.no # 1 /\ Turn(IF query.no > 1 THEN query.no - 1 ELSE 1)

(* Mutant: the number may pass the last page.                              *)
NextNo_Unbounded == query.no + 1

NextNo == IF query.no + 1 > totalPages THEN totalPages ELSE query.no + 1

NextPage == query.no # totalPages /\ Turn(NextNo)

PickPage(no) == no \in 1..totalPages /\ Turn(no)

ListStep ==
  \/ \E category \in Categories : PickCategory(category)
  \/ PreviousPage \/ NextPage
  \/ \E no \in 1..totalPages : PickPage(no)
=============================================================================
