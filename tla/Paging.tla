------------------------------- MODULE Paging -------------------------------
(***************************************************************************)
(* How the server cuts a list into pages: NormalizePage on the page number *)
(* of a request, OFFSET and LIMIT of the repositories' queries, and the    *)
(* number of pages ProjectService.List announces.  Rows are numbered in    *)
(* the order of the query, as long as the list does not change.  The size  *)
(* of a page is the limit of the request as it is: it takes the place of   *)
(* what NormalizePage makes of page_size.                                  *)
(***************************************************************************)
EXTENDS Integers

PageDefault == 1

NormalPage(p) == IF p <= 0 THEN PageDefault ELSE p

(* (total + size - 1) / size; the rows are counted before they are read.   *)
TotalPages(total, size) == (total + size - 1) \div size

Offset(no, size) == (no - 1) * size

(* The rows that page no shows. *)
PageRows(no, size, total) ==
  {i \in 1..total : Offset(no, size) < i /\ i <= Offset(no, size) + size}

-----------------------------------------------------------------------------
(* Turning all announced pages shows every row once (Projects.tsx turns    *)
(* them, service_project.go 54 counts them): each row is on one of them,   *)
(* on no other page whatsoever, and a page is announced exactly if it has  *)
(* rows to show, every one but the last being full.                        *)
EachRowOnce(total, size, Pages) ==
  \A i \in 1..total :
    \E no \in 1..TotalPages(total, size) :
      i \in PageRows(no, size, total)
        /\ \A m \in Pages : i \in PageRows(m, size, total) => m = no

PagesHaveRows(total, size, Pages) ==
  \A no \in Pages : PageRows(no, size, total) # {} <=> no <= TotalPages(total, size)

PagesAreFull(total, size, Pages) ==
  \A no \in Pages : no < TotalPages(total, size) =>
    PageRows(no, size, total) = Offset(no, size) + 1 .. Offset(no, size) + size
=============================================================================
