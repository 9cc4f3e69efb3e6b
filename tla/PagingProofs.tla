---------------------------- MODULE PagingProofs ----------------------------
(***************************************************************************)
(* Proofs about Paging for lists of any length and pages of any size.      *)
(***************************************************************************)
EXTENDS Paging, TLAPS

(* Integer division by its two bounds, and what they say of products.      *)
LEMMA DivisionBounds ==
  ASSUME NEW n \in Nat, NEW d \in Nat \ {0}
  PROVE  n \div d \in Nat /\ d * (n \div d) <= n /\ n < d * (n \div d) + d
<1>1. n \div d \in Int
  BY Z3
<1>2. d * (n \div d) <= n
  BY Z3
<1>3. n < d * (n \div d) + d
  BY Z3
<1>4. n \div d >= 0
  BY Z3
<1> QED BY <1>1, <1>2, <1>3, <1>4

LEMMA ProductsApart ==
  ASSUME NEW a \in Int, NEW b \in Int, NEW d \in Nat \ {0}, a < b
  PROVE  a * d + d <= b * d
OBVIOUS

LEMMA TotalPagesBounds ==
  ASSUME NEW total \in Nat, NEW size \in Nat \ {0}
  PROVE  /\ TotalPages(total, size) \in Nat
         /\ total <= TotalPages(total, size) * size
         /\ TotalPages(total, size) * size < total + size
<1> DEFINE n == total + size - 1
<1>1. n \in Nat
  OBVIOUS
<1>2. n \div size \in Nat /\ size * (n \div size) <= n /\ n < size * (n \div size) + size
  BY <1>1, DivisionBounds
<1> HIDE DEF n
<1>3. (n \div size) * size = size * (n \div size)
  BY <1>2
<1>4. TotalPages(total, size) = n \div size
  BY DEF TotalPages, n
<1>5. n = total + size - 1
  BY DEF n
<1> DEFINE k == n \div size
           prod == size * k
<1>6. prod \in Int
  BY <1>2
<1>7. total <= prod /\ prod < total + size
  <2> HIDE DEF prod
  <2> QED BY <1>2, <1>5, <1>6 DEF prod
<1> QED BY <1>2, <1>3, <1>4, <1>7

-----------------------------------------------------------------------------
LEMMA OffsetTypes ==
  ASSUME NEW no \in Int, NEW size \in Nat \ {0}
  PROVE  Offset(no, size) \in Int
BY DEF Offset

LEMMA OffsetsApart ==
  ASSUME NEW a \in Int, NEW b \in Int, NEW size \in Nat \ {0}, a < b
  PROVE  Offset(a, size) + size <= Offset(b, size)
<1>1. a - 1 \in Int /\ b - 1 \in Int /\ a - 1 < b - 1
  OBVIOUS
<1> QED BY <1>1, ProductsApart DEF Offset

(* Where the page after the last begins.                                   *)
LEMMA OffsetsAndTotal ==
  ASSUME NEW total \in Nat, NEW size \in Nat \ {0}, NEW no \in Int
  PROVE  /\ no <= TotalPages(total, size) => Offset(no, size) < total
         /\ no > TotalPages(total, size) => Offset(no, size) >= total
         /\ no < TotalPages(total, size) => Offset(no, size) + size <= total
<1>1. PICK k \in Nat : k = TotalPages(total, size)
  BY TotalPagesBounds
<1>2. total <= k * size /\ k * size < total + size
  BY <1>1, TotalPagesBounds
<1>3. PICK last \in Int : last = Offset(k, size)
  BY OffsetTypes
<1>4. PICK after \in Int : after = Offset(k + 1, size)
  BY OffsetTypes
<1>5. last + size = k * size /\ after = k * size
  <2>1. last = (k - 1) * size /\ after = (k + 1 - 1) * size
    BY <1>3, <1>4 DEF Offset
  <2>2. (k - 1) * size = k * size - size
    OBVIOUS
  <2>3. k + 1 - 1 = k
    OBVIOUS
  <2>4. k * size \in Int
    OBVIOUS
  <2> HIDE DEF TotalPages
  <2>5. PICK ks \in Int : ks = k * size
    BY <2>4
  <2>6. last = ks - size /\ after = ks
    BY <2>1, <2>2, <2>3, <2>5
  <2> QED BY <2>5, <2>6
<1>6. PICK here \in Int : here = Offset(no, size)
  BY OffsetTypes
<1>7. last < total /\ total <= after
  <2>1. PICK ks \in Int : ks = k * size
    OBVIOUS
  <2> QED BY <1>2, <1>5, <2>1
<1>8. no < k => here + size <= last
  BY <1>3, <1>6, OffsetsApart
<1>9. no = k => here = last
  BY <1>3, <1>6
<1>10. no = k + 1 => here = after
  BY <1>4, <1>6
<1>11. no > k + 1 => after + size <= here
  BY <1>4, <1>6, OffsetsApart
<1>12. /\ no <= k => here < total
       /\ no > k => here >= total
       /\ no < k => here + size <= total
  BY <1>7, <1>8, <1>9, <1>10, <1>11
<1> QED BY <1>1, <1>6, <1>12

(* The page a row is on.                                                   *)
LEMMA PageOfRow ==
  ASSUME NEW total \in Nat, NEW size \in Nat \ {0}, NEW i \in 1..total
  PROVE  \E no \in 1..TotalPages(total, size) : i \in PageRows(no, size, total)
<1>1. i - 1 \in Nat
  OBVIOUS
<1>2. PICK q \in Nat : q = (i - 1) \div size
  BY <1>1, DivisionBounds
<1>3. size * q <= i - 1 /\ i - 1 < size * q + size
  BY <1>1, <1>2, DivisionBounds
<1>4. PICK off \in Int : off = Offset(q + 1, size)
  BY OffsetTypes
<1>5. off = size * q
  <2>1. q + 1 - 1 = q
    OBVIOUS
  <2> QED BY <1>4, <2>1 DEF Offset
<1>6. off < i /\ i <= off + size
  <2>1. off <= i - 1 /\ i - 1 < off + size
    BY <1>3, <1>5
  <2> QED BY <2>1
<1>7. q + 1 <= TotalPages(total, size)
  <2>1. TotalPages(total, size) \in Nat
    BY TotalPagesBounds
  <2>2. ~(q + 1 > TotalPages(total, size))
    BY <1>4, <1>6, OffsetsAndTotal
  <2> QED BY <2>1, <2>2
<1>8. q + 1 \in 1..TotalPages(total, size)
  BY <1>7, TotalPagesBounds
<1>9. i \in PageRows(q + 1, size, total)
  BY <1>4, <1>6 DEF PageRows
<1> QED BY <1>8, <1>9

(* Every row is on one page, and that is one of the announced pages.       *)
THEOREM RowsAreOnOnePage ==
  ASSUME NEW total \in Nat, NEW size \in Nat \ {0}
  PROVE  EachRowOnce(total, size, Int)
<1> SUFFICES ASSUME NEW i \in 1..total
             PROVE  \E no \in 1..TotalPages(total, size) :
                      i \in PageRows(no, size, total)
                        /\ \A m \in Int : i \in PageRows(m, size, total) => m = no
  BY DEF EachRowOnce
<1>1. PICK no \in 1..TotalPages(total, size) : i \in PageRows(no, size, total)
  BY PageOfRow
<1>2. ASSUME NEW m \in Int, i \in PageRows(m, size, total), m # no
      PROVE  FALSE
  <2>1. /\ Offset(no, size) < i /\ i <= Offset(no, size) + size
        /\ Offset(m, size) < i /\ i <= Offset(m, size) + size
    BY <1>1, <1>2 DEF PageRows
  <2>2. no \in Int
    OBVIOUS
  <2>3. Offset(no, size) \in Int /\ Offset(m, size) \in Int
    BY <2>2, OffsetTypes
  <2>4. CASE m < no
    BY <2>1, <2>2, <2>3, <2>4, OffsetsApart
  <2>5. CASE no < m
    BY <2>1, <2>2, <2>3, <2>5, OffsetsApart
  <2> QED BY <1>2, <2>2, <2>4, <2>5
<1> QED BY <1>1, <1>2

(* A page is announced exactly if it has rows to show.                     *)
THEOREM AnnouncedPagesHaveRows ==
  ASSUME NEW total \in Nat, NEW size \in Nat \ {0}
  PROVE  PagesHaveRows(total, size, Nat \ {0})
<1> SUFFICES ASSUME NEW no \in Nat \ {0}
             PROVE  PageRows(no, size, total) # {} <=> no <= TotalPages(total, size)
  BY DEF PagesHaveRows
<1>1. PICK off \in Int : off = Offset(no, size)
  BY OffsetTypes
<1>2. TotalPages(total, size) \in Nat
  BY TotalPagesBounds
<1>3. off >= 0
  <2>1. 1 < no \/ no = 1
    OBVIOUS
  <2>2. Offset(1, size) = 0
    BY DEF Offset
  <2>3. 1 < no => off >= size
    BY <1>1, <2>2, OffsetsApart
  <2>4. no = 1 => off = 0
    BY <1>1, <2>2
  <2> QED BY <2>1, <2>3, <2>4
<1>4. CASE no <= TotalPages(total, size)
  <2>1. off < total
    BY <1>1, <1>4, OffsetsAndTotal
  <2>2. off + 1 \in PageRows(no, size, total)
    BY <1>1, <1>3, <2>1 DEF PageRows
  <2> QED BY <1>4, <2>2
<1>5. CASE no > TotalPages(total, size)
  <2>1. off >= total
    BY <1>1, <1>5, OffsetsAndTotal
  <2>2. PageRows(no, size, total) = {}
    BY <1>1, <2>1 DEF PageRows
  <2> QED BY <1>2, <1>5, <2>2
<1> QED BY <1>2, <1>4, <1>5

(* Every announced page but the last is full.                              *)
THEOREM AnnouncedPagesAreFull ==
  ASSUME NEW total \in Nat, NEW size \in Nat \ {0}
  PROVE  PagesAreFull(total, size, Nat \ {0})
<1> SUFFICES ASSUME NEW no \in Nat \ {0}, no < TotalPages(total, size)
             PROVE  PageRows(no, size, total) = Offset(no, size) + 1 .. Offset(no, size) + size
  BY DEF PagesAreFull
<1>1. PICK off \in Int : off = Offset(no, size)
  BY OffsetTypes
<1>2. off + size <= total
  BY <1>1, OffsetsAndTotal
<1>3. off >= 0
  <2>1. 1 < no \/ no = 1
    OBVIOUS
  <2>2. Offset(1, size) = 0
    BY DEF Offset
  <2>3. 1 < no => off >= size
    BY <1>1, <2>2, OffsetsApart
  <2>4. no = 1 => off = 0
    BY <1>1, <2>2
  <2> QED BY <2>1, <2>3, <2>4
<1> QED BY <1>1, <1>2, <1>3 DEF PageRows
=============================================================================
