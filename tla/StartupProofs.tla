--------------------------- MODULE StartupProofs ----------------------------
(***************************************************************************)
(* Theorems about Startup: the demo rows refer to the projects they mean,  *)
(* and a server that answers is prepared, whatever fails while seeding.    *)
(***************************************************************************)
EXTENDS Startup, TLAPS

(*** The demo rows *********************************************************)

IsUser(row) == row.table = "users"
IsProject(row) == row.table = "projects"
IsReference(row) == row.table \in {"donations", "updates"}
IsOrg(row) == row.role = "org"
IsAdmin(row) == row.role = "admin"

IsNew(row) == row.name = "new"
Kinded(row) == row.table \in Tables /\ row.role \in Roles \cup {""}
Admin == User("admin", "admin")
CareOrg == User("careorg", "org")

LEMMA DemoNumbers ==
  \A n \in 1..SeedLength :
    n = 1 \/ n = 2 \/ n = 3 \/ n = 4 \/ n = 5 \/ n = 6 \/ n = 7 \/ n = 8 \/ n = 9 \/ n = 10
    \/ n = 11 \/ n = 12 \/ n = 13 \/ n = 14 \/ n = 15 \/ n = 16 \/ n = 17 \/ n = 18 \/ n = 19
  BY DEF SeedLength

(* Of which table row n is, and of which role.                             *)
UserAt(n) == IsUser(SeedRows[n]) /\ ~IsProject(SeedRows[n]) /\ ~IsReference(SeedRows[n])
ProjectAt(n) == ~IsUser(SeedRows[n]) /\ IsProject(SeedRows[n]) /\ ~IsReference(SeedRows[n])
ReferenceAt(n) == ~IsUser(SeedRows[n]) /\ ~IsProject(SeedRows[n]) /\ IsReference(SeedRows[n])
OtherAt(n) == ~IsUser(SeedRows[n]) /\ ~IsProject(SeedRows[n]) /\ ~IsReference(SeedRows[n])
AdminAt(n) == IsAdmin(SeedRows[n]) /\ ~IsOrg(SeedRows[n])
OrgAt(n) == ~IsAdmin(SeedRows[n]) /\ IsOrg(SeedRows[n])
PlainAt(n) == ~IsAdmin(SeedRows[n]) /\ ~IsOrg(SeedRows[n])

LEMMA DemoTables ==
  /\ UserAt(1) /\ UserAt(2) /\ OtherAt(3) /\ UserAt(4) /\ OtherAt(5)
  /\ ProjectAt(6) /\ ProjectAt(7) /\ ProjectAt(8) /\ ProjectAt(9) /\ UserAt(10)
  /\ UserAt(11) /\ UserAt(12) /\ ReferenceAt(13) /\ ReferenceAt(14) /\ ReferenceAt(15)
  /\ ReferenceAt(16) /\ ReferenceAt(17) /\ ReferenceAt(18) /\ ReferenceAt(19)
  BY DEF SeedRows, User, Organization, Project, Donation, Update, Row,
         UserAt, ProjectAt, ReferenceAt, OtherAt, IsUser, IsProject, IsReference

LEMMA DemoRoles ==
  /\ AdminAt(1) /\ OrgAt(2) /\ PlainAt(3) /\ OrgAt(4) /\ PlainAt(5)
  /\ PlainAt(6) /\ PlainAt(7) /\ PlainAt(8) /\ PlainAt(9) /\ PlainAt(10)
  /\ PlainAt(11) /\ PlainAt(12) /\ PlainAt(13) /\ PlainAt(14) /\ PlainAt(15)
  /\ PlainAt(16) /\ PlainAt(17) /\ PlainAt(18) /\ PlainAt(19)
  BY DEF SeedRows, User, Organization, Project, Donation, Update, Row,
         AdminAt, OrgAt, PlainAt, IsAdmin, IsOrg

LEMMA DemoTypes ==
  /\ Kinded(SeedRows[1]) /\ Kinded(SeedRows[2]) /\ Kinded(SeedRows[3]) /\ Kinded(SeedRows[4])
  /\ Kinded(SeedRows[5]) /\ Kinded(SeedRows[6]) /\ Kinded(SeedRows[7]) /\ Kinded(SeedRows[8])
  /\ Kinded(SeedRows[9]) /\ Kinded(SeedRows[10]) /\ Kinded(SeedRows[11]) /\ Kinded(SeedRows[12])
  /\ Kinded(SeedRows[13]) /\ Kinded(SeedRows[14]) /\ Kinded(SeedRows[15]) /\ Kinded(SeedRows[16])
  /\ Kinded(SeedRows[17]) /\ Kinded(SeedRows[18]) /\ Kinded(SeedRows[19])
  BY DEF SeedRows, User, Organization, Project, Donation, Update, Row, Tables, Roles, Kinded

LEMMA DemoIds ==
  /\ SeedRows[1].project = 0 /\ SeedRows[2].project = 0 /\ SeedRows[3].project = 0
  /\ SeedRows[4].project = 0 /\ SeedRows[5].project = 0 /\ SeedRows[6].project = 0
  /\ SeedRows[7].project = 0 /\ SeedRows[8].project = 0 /\ SeedRows[9].project = 0
  /\ SeedRows[10].project = 0 /\ SeedRows[11].project = 0 /\ SeedRows[12].project = 0
  /\ SeedRows[13].project = 1 /\ SeedRows[14].project = 1 /\ SeedRows[15].project = 2
  /\ SeedRows[16].project = 2 /\ SeedRows[17].project = 3 /\ SeedRows[18].project = 1
  /\ SeedRows[19].project = 2
  BY DEF SeedRows, User, Organization, Project, Donation, Update, Row

LEMMA DemoNames ==
  /\ SeedRows[6].name = DemoProjects[1] /\ SeedRows[7].name = DemoProjects[2]
  /\ SeedRows[8].name = DemoProjects[3] /\ SeedRows[9].name = DemoProjects[4]
  BY DEF SeedRows, User, Organization, Project, Donation, Update, Row, DemoProjects

LEMMA DemoNamesDiffer ==
  /\ DemoProjects[1] # DemoProjects[2] /\ DemoProjects[1] # DemoProjects[3]
  /\ DemoProjects[1] # DemoProjects[4] /\ DemoProjects[2] # DemoProjects[3]
  /\ DemoProjects[2] # DemoProjects[4] /\ DemoProjects[3] # DemoProjects[4]
  BY DEF DemoProjects

LEMMA DemoAccounts == SeedRows[1] = Admin /\ SeedRows[2] = CareOrg
  BY DEF SeedRows, Admin, CareOrg

LEMMA DemoDistinct ==
  \A i, j \in 1..4 : i # j => DemoProjects[i] # DemoProjects[j]
  BY DemoNamesDiffer

LEMMA DemoFacts ==
  ASSUME NEW n \in 1..SeedLength
  PROVE  /\ Kinded(SeedRows[n]) /\ SeedRows[n].project \in Nat
         /\ IsProject(SeedRows[n]) <=> n \in 6..9
         /\ IsAdmin(SeedRows[n]) <=> n = 1
         /\ IsOrg(SeedRows[n]) <=> n = 2 \/ n = 4
         /\ n = 1 \/ n = 2 => IsUser(SeedRows[n])
         /\ IsReference(SeedRows[n]) => n \in 13..19 /\ SeedRows[n].project \in 1..3
         /\ n \in 6..9 => SeedRows[n].name = DemoProjects[n - 5]
<1>1. Kinded(SeedRows[n])
  BY DemoNumbers, DemoTypes, Zenon
<1>2. SeedRows[n].project \in Nat
  BY DemoIds DEF SeedLength
<1>3. IsProject(SeedRows[n]) <=> n \in 6..9
  BY DemoTables DEF SeedLength, UserAt, ProjectAt, ReferenceAt, OtherAt
<1>4. IsAdmin(SeedRows[n]) <=> n = 1
  BY DemoRoles DEF SeedLength, AdminAt, OrgAt, PlainAt
<1>5. IsOrg(SeedRows[n]) <=> n = 2 \/ n = 4
  BY DemoRoles DEF SeedLength, AdminAt, OrgAt, PlainAt
<1>6. n = 1 \/ n = 2 => IsUser(SeedRows[n])
  BY DemoTables DEF UserAt
<1>7. IsReference(SeedRows[n]) => n \in 13..19
  BY DemoTables DEF SeedLength, UserAt, ProjectAt, ReferenceAt, OtherAt
<1>8. n \in 13..19 => SeedRows[n].project \in 1..3
  BY DemoIds
<1>9. n \in 6..9 => SeedRows[n].name = DemoProjects[n - 5]
  BY DemoNames
<1> QED BY <1>1, <1>2, <1>3, <1>4, <1>5, <1>6, <1>7, <1>8, <1>9

LEMMA ProjectRow ==
  ASSUME NEW row, NEW name, NEW id, row = Row("projects", name, "", id)
  PROVE  /\ row.name = name /\ row.project = id
         /\ IsProject(row) /\ ~IsReference(row) /\ ~IsUser(row)
         /\ ~IsOrg(row) /\ ~IsAdmin(row) /\ Kinded(row)
<1>1. row.name = name /\ row.project = id
  BY DEF Row
<1>2. row.table = "projects" /\ row.role = ""
  BY DEF Row
<1> QED
  BY <1>1, <1>2
  DEF IsProject, IsReference, IsUser, IsOrg, IsAdmin, Kinded, Tables, Roles

LEMMA StoredProject ==
  ASSUME NEW n, IsProject(SeedRows[n])
  PROVE  /\ Stored(n).name = SeedRows[n].name /\ Stored(n).project = nextProject
         /\ IsProject(Stored(n)) /\ ~IsReference(Stored(n)) /\ ~IsUser(Stored(n))
         /\ ~IsOrg(Stored(n)) /\ ~IsAdmin(Stored(n)) /\ Kinded(Stored(n))
         /\ ~IsReference(SeedRows[n]) /\ ~IsUser(SeedRows[n])
<1>1. Stored(n) = Row("projects", SeedRows[n].name, "", nextProject)
  BY Zenon DEF Stored, IsProject
<1>2. /\ Stored(n).name = SeedRows[n].name /\ Stored(n).project = nextProject
      /\ IsProject(Stored(n)) /\ ~IsReference(Stored(n)) /\ ~IsUser(Stored(n))
      /\ ~IsOrg(Stored(n)) /\ ~IsAdmin(Stored(n)) /\ Kinded(Stored(n))
  BY <1>1, ProjectRow, Zenon
<1>3. ~IsReference(SeedRows[n]) /\ ~IsUser(SeedRows[n])
  BY DEF IsProject, IsReference, IsUser
<1> QED BY <1>2, <1>3

(* The row of the list and the row in the database.                        *)
LEMMA StoredFacts ==
  ASSUME NEW n \in 1..SeedLength
  PROVE  /\ IsProject(Stored(n)) <=> IsProject(SeedRows[n])
         /\ IsReference(Stored(n)) <=> IsReference(SeedRows[n])
         /\ IsUser(Stored(n)) <=> IsUser(SeedRows[n])
         /\ IsOrg(Stored(n)) <=> IsOrg(SeedRows[n])
         /\ IsAdmin(Stored(n)) <=> IsAdmin(SeedRows[n])
         /\ Kinded(Stored(n))
         /\ Stored(n).name = SeedRows[n].name
         /\ IsProject(SeedRows[n]) => Stored(n).project = nextProject
         /\ ~IsProject(SeedRows[n]) => Stored(n) = SeedRows[n]
         /\ IdAfter(n) = IF IsProject(SeedRows[n]) THEN nextProject + 1 ELSE nextProject
<1>1. IdAfter(n) = IF IsProject(SeedRows[n]) THEN nextProject + 1 ELSE nextProject
  BY Zenon DEF IdAfter, IsProject
<1>2. CASE ~IsProject(SeedRows[n])
  <2>1. Stored(n) = SeedRows[n]
    BY <1>2, Zenon DEF Stored, IsProject
  <2> QED BY <1>1, <1>2, <2>1, DemoFacts
<1>3. CASE IsProject(SeedRows[n])
  <2>1. ~IsOrg(SeedRows[n]) /\ ~IsAdmin(SeedRows[n]) 
    BY <1>3, DemoFacts
  <2> QED BY <1>1, <1>3, <2>1, StoredProject
<1> QED BY <1>2, <1>3

(*** The invariant *********************************************************)

Seeding == phase = "seeding"
Opening == phase \in {"connecting", "migrating"}
OrgStored == \E row \in rows : IsOrg(row)
Inside == Seeding /\ next \in 3..SeedLength

(* The rows, whatever main is doing.                                       *)
RowsTyped == \A row \in rows : Kinded(row) /\ row.project \in Nat
Numbered ==
  /\ nextProject \in Nat \ {0}
  /\ \A p \in rows : IsProject(p) => p.project \in 1..nextProject - 1
NoProjectTwice ==
  \A p, q \in rows : IsProject(p) /\ IsProject(q) =>
    p = q \/ (p.project # q.project /\ (IsNew(p) \/ p.name # q.name))
ReferencesMeet ==
  \A row \in rows : IsReference(row) =>
    \E p \in rows : /\ IsProject(p) /\ p.project = row.project
                    /\ p.name = DemoProjects[row.project]
Untouched == ~OrgStored => nextProject = 1 /\ \A row \in rows : IsUser(row)
AdminFirst == \A row \in rows : IsAdmin(row) => Admin \in rows
FirstOrg == OrgStored => Admin \in rows /\ CareOrg \in rows
RowsInv ==
  /\ RowsTyped /\ Numbered /\ NoProjectTwice /\ ReferencesMeet
  /\ Untouched /\ AdminFirst /\ FirstOrg

(* How far Seed has come.                                                  *)
ReachedId(n) == IF n < 7 THEN 1 ELSE IF n < 10 THEN n - 5 ELSE 5
Halfway ==
  Inside =>
    /\ nextProject = ReachedId(next)
    /\ \A k \in 1..nextProject - 1 : \E p \in rows : IsProject(p) /\ p.project = k
    /\ \A p \in rows : IsProject(p) => p.name = DemoProjects[p.project]
    /\ \A k \in 2..next - 1 : Seeded(k)
Accounts ==
  /\ Opening => next = 1
  /\ (Seeding /\ next > 1) \/ Serving => Admin \in rows
  /\ (Seeding /\ next > 2) \/ Serving => OrgStored
Complete == ~interrupted /\ OrgStored /\ ~Inside => \A k \in 2..SeedLength : Seeded(k)

Inv == TypeOK /\ RowsInv /\ Halfway /\ Accounts /\ Complete

(*** Storing a demo row *****************************************************)

LEMMA PresentRole ==
  /\ Present(2) <=> OrgStored
  /\ Present(1) <=> \E row \in rows : IsAdmin(row)
  BY DemoRoles DEF Present, OrgStored, IsOrg, IsAdmin, AdminAt, OrgAt

LEMMA UserIsNone ==
  ASSUME NEW row
  PROVE  /\ IsUser(row) => ~IsProject(row) /\ ~IsReference(row)
         /\ IsReference(row) => ~IsProject(row)
  BY DEF IsUser, IsProject, IsReference

(* Seed is at row n, which is to be stored.                                *)
At(n) ==
  /\ n \in 1..SeedLength /\ next = n /\ Seeding
  /\ RowsInv /\ Halfway /\ Accounts
  /\ n \in 1..2 => ~Present(n)

LEMMA AtFacts ==
  ASSUME NEW n, At(n)
  PROVE  /\ n > 2 => Inside /\ OrgStored
         /\ n < 3 => /\ ~OrgStored /\ nextProject = 1
                     /\ \A row \in rows : IsUser(row) /\ ~IsProject(row)
         /\ nextProject = ReachedId(n)
         /\ \A k \in 1..nextProject - 1 : \E p \in rows : IsProject(p) /\ p.project = k
         /\ \A p \in rows : IsProject(p) => p.name = DemoProjects[p.project]
<1>1. CASE n > 2
  BY <1>1 DEF At, Inside, Halfway, Accounts, SeedLength
<1>2. CASE n < 3
  <2>1. ~OrgStored
    <3>1. CASE n = 2 BY <3>1, PresentRole DEF At
    <3>2. CASE n = 1
      BY <3>2, PresentRole, DemoRoles, DemoAccounts DEF At, RowsInv, FirstOrg, AdminAt
    <3> QED BY <3>1, <3>2, <1>2 DEF At
  <2> QED BY <1>2, <2>1, UserIsNone DEF At, RowsInv, Untouched, ReachedId
<1> QED BY <1>1, <1>2 DEF At

LEMMA StoreKeepsRows ==
  ASSUME NEW n, At(n), rows' = rows \cup {Stored(n)}, nextProject' = IdAfter(n)
  PROVE  RowsInv'
<1> USE StoredFacts, DemoFacts
<1>n. n \in 1..SeedLength /\ RowsInv
  BY DEF At
<1>1. RowsTyped'
  BY <1>n DEF RowsInv, RowsTyped, Numbered
<1>2. Numbered'
  BY <1>n DEF RowsInv, Numbered
<1>3. NoProjectTwice'
  <2>1. CASE ~IsProject(Stored(n))
    BY <1>n, <2>1 DEF RowsInv, NoProjectTwice
  <2>2. CASE IsProject(Stored(n))
    <3>1. n \in 6..9 /\ nextProject = n - 5 /\ Stored(n).project = nextProject
      BY <1>n, <2>2, AtFacts DEF ReachedId
    <3>2. Stored(n).name = DemoProjects[nextProject]
      BY <1>n, <3>1
    <3>3. ASSUME NEW p \in rows, IsProject(p)
          PROVE  p.project # Stored(n).project /\ p.name # Stored(n).name
      <4>1. p.project \in 1..nextProject - 1 /\ p.name = DemoProjects[p.project]
        BY <1>n, <3>3, AtFacts DEF RowsInv, Numbered
      <4> QED BY <3>1, <3>2, <4>1, DemoDistinct
    <3> QED BY <1>n, <3>3 DEF RowsInv, NoProjectTwice
  <2> QED BY <2>1, <2>2
<1>4. ReferencesMeet'
  <2>1. CASE ~IsReference(Stored(n))
    BY <1>n, <2>1 DEF RowsInv, ReferencesMeet
  <2>2. CASE IsReference(Stored(n))
    <3>1. n \in 13..19 /\ Stored(n).project \in 1..3 /\ nextProject = 5
      BY <1>n, <2>2, AtFacts DEF ReachedId
    <3>2. \E p \in rows : /\ IsProject(p) /\ p.project = Stored(n).project
                          /\ p.name = DemoProjects[Stored(n).project]
      BY <3>1, AtFacts
    <3> QED BY <1>n, <3>2 DEF RowsInv, ReferencesMeet
  <2> QED BY <2>1, <2>2
<1>5. Untouched'
  <2>1. CASE n = 1 \/ n = 2
    BY <1>n, <2>1, AtFacts DEF Untouched, OrgStored
  <2>2. CASE n > 2
    BY <2>2, AtFacts DEF Untouched, OrgStored
  <2> QED BY <1>n, <2>1, <2>2 DEF SeedLength
<1>6. AdminFirst'
  BY <1>n, DemoAccounts DEF RowsInv, AdminFirst
<1>7. FirstOrg'
  <2>1. CASE OrgStored
    BY <1>n, <2>1 DEF RowsInv, FirstOrg
  <2>2. CASE ~OrgStored /\ OrgStored'
    <3>1. IsOrg(Stored(n))
      BY <2>2 DEF OrgStored
    <3>2. n = 2
      BY <1>n, <2>2, <3>1, AtFacts
    <3>3. Admin \in rows
      BY <3>2 DEF At, RowsInv, Accounts
    <3> QED BY <1>n, <3>2, <3>3, DemoAccounts DEF FirstOrg
  <2> QED BY <2>1, <2>2 DEF FirstOrg
<1> QED BY <1>1, <1>2, <1>3, <1>4, <1>5, <1>6, <1>7 DEF RowsInv

LEMMA LostIdKeepsRows ==
  ASSUME NEW n, At(n), rows' = rows, nextProject' = IdAfter(n)
  PROVE  RowsInv'
<1>n. n \in 1..SeedLength /\ RowsInv
  BY DEF At
<1>1. Numbered'
  BY <1>n, StoredFacts DEF RowsInv, Numbered
<1>2. Untouched'
  <2>1. CASE IsProject(SeedRows[n])
    BY <1>n, <2>1, DemoFacts, AtFacts DEF Untouched, OrgStored
  <2>2. CASE ~IsProject(SeedRows[n])
    BY <1>n, <2>2, StoredFacts DEF RowsInv, Untouched, OrgStored
  <2> QED BY <2>1, <2>2
<1> QED
  BY <1>n, <1>1, <1>2
  DEF RowsInv, RowsTyped, NoProjectTwice, ReferencesMeet, AdminFirst, FirstOrg, OrgStored

(*** Storing what visitors send *********************************************)

LEMMA UserRow ==
  ASSUME NEW row, NEW name, NEW role \in Roles, row = User(name, role)
  PROVE  Kinded(row) /\ IsUser(row)
<1>1. row.table = "users" /\ row.role = role
  BY DEF User, Row
<1> QED
  BY <1>1 DEF Kinded, IsUser, Tables

LEMMA UserProject ==
  ASSUME NEW row, NEW name, NEW role, row = User(name, role)
  PROVE  row.project = 0
  BY DEF User, Row

LEMMA NewRow ==
  ASSUME NEW row, NEW id, row = Row("projects", "new", "", id)
  PROVE  IsNew(row)
  BY DEF Row, IsNew

LEMMA NewIsNew ==
  ASSUME NEW p, NEW q, IsNew(q)
  PROVE  IsNew(p) \/ p.name # q.name
  BY DEF IsNew

LEMMA RegisterKeepsRows ==
  ASSUME RowsInv, OrgStored, NEW name, NEW role \in Roles,
         rows' = rows \cup {User(name, role)}, nextProject' = nextProject
  PROVE  RowsInv'
<1> DEFINE row == User(name, role)
<1>1. Kinded(row) /\ IsUser(row) /\ ~IsProject(row) /\ ~IsReference(row)
  BY UserRow, UserIsNone, Zenon
<1>2. row.project = 0
  BY UserProject, Zenon
<1>3. rows' = rows \cup {row}
  OBVIOUS
<1> HIDE DEF row
<1>4. RowsTyped' /\ Numbered' /\ NoProjectTwice' /\ AdminFirst'
  BY <1>1, <1>2, <1>3 DEF RowsInv, RowsTyped, Numbered, NoProjectTwice, AdminFirst, FirstOrg
<1>5. ReferencesMeet'
  BY <1>1, <1>3 DEF RowsInv, ReferencesMeet
<1>6. Untouched' /\ FirstOrg'
  BY <1>3 DEF RowsInv, Untouched, FirstOrg, OrgStored
<1> QED BY <1>4, <1>5, <1>6 DEF RowsInv

LEMMA PublishKeepsRows ==
  ASSUME RowsInv, OrgStored, NEW row, Kinded(row), IsProject(row), IsNew(row), ~IsAdmin(row),
         ~IsReference(row), row.project = nextProject,
         rows' = rows \cup {row}, nextProject' = nextProject + 1
  PROVE  RowsInv'
<1>1. RowsTyped' /\ Numbered' /\ AdminFirst'
  BY DEF RowsInv, RowsTyped, Numbered, AdminFirst
<1>2. NoProjectTwice'
  <2>1. \A p \in rows : IsProject(p) => p.project # row.project
    BY DEF RowsInv, Numbered
  <2>2. \A p \in rows : IsNew(p) \/ p.name # row.name
    BY NewIsNew
  <2> QED BY <2>1, <2>2 DEF RowsInv, NoProjectTwice
<1>3. ReferencesMeet'
  BY DEF RowsInv, ReferencesMeet
<1>4. Untouched' /\ FirstOrg'
  BY DEF RowsInv, Untouched, FirstOrg, OrgStored
<1> QED BY <1>1, <1>2, <1>3, <1>4 DEF RowsInv

(*** How far Seed has come **************************************************)

LEMMA SeededStays ==
  ASSUME NEW n \in 1..SeedLength, Seeded(n), rows \subseteq rows'
  PROVE  Seeded(n)'
  BY Zenon DEF Seeded

LEMMA StoredIsSeeded ==
  ASSUME NEW n \in 1..SeedLength, rows' = rows \cup {Stored(n)}
  PROVE  Seeded(n)'
<1>1. CASE IsProject(SeedRows[n])
  <2>1. Stored(n) \in rows' /\ IsProject(Stored(n)) /\ Stored(n).name = SeedRows[n].name
    BY <1>1, StoredFacts
  <2> QED BY <1>1, <2>1, Zenon DEF Seeded, IsProject
<1>2. CASE ~IsProject(SeedRows[n])
  <2>1. SeedRows[n] \in rows'
    BY <1>2, StoredFacts
  <2> QED BY <1>2, <2>1, Zenon DEF Seeded, IsProject
<1> QED BY <1>1, <1>2

(* Seed goes on after storing row n.                                       *)
LEMMA StoreGoesOn ==
  ASSUME NEW n, At(n), rows' = rows \cup {Stored(n)}, nextProject' = IdAfter(n),
         next' = n + 1, Seeding', ~Opening', ~Serving', interrupted' = interrupted, Complete
  PROVE  Halfway' /\ Accounts' /\ Complete'
<1>n. n \in 1..SeedLength /\ next = n /\ RowsInv /\ Halfway /\ Accounts /\ Seeding
  BY DEF At
<1>1. Stored(n) \in rows' /\ rows \subseteq rows'
  OBVIOUS
<1>2. Halfway'
  <2> SUFFICES ASSUME Inside'
               PROVE  Halfway'
    BY DEF Halfway
  <2>1. n \in 2..18
    BY <1>n DEF Inside, SeedLength
  <2>2. nextProject' = ReachedId(n + 1)
    BY <1>n, <2>1, AtFacts, StoredFacts, DemoFacts DEF ReachedId
  <2>3. ASSUME NEW k \in 1..nextProject' - 1
        PROVE  \E p \in rows' : IsProject(p) /\ p.project = k
    <3>1. CASE k < nextProject
      BY <1>1, <3>1, <2>1, AtFacts DEF ReachedId
    <3>2. CASE ~(k < nextProject)
      <4>1. IsProject(Stored(n)) /\ Stored(n).project = nextProject /\ k = nextProject
        BY <1>n, <2>1, <3>2, AtFacts, StoredFacts DEF ReachedId
      <4> QED BY <1>1, <4>1
    <3> QED BY <3>1, <3>2
  <2>4. ASSUME NEW p \in rows', IsProject(p)
        PROVE  p.name = DemoProjects[p.project]
    <3>1. CASE p \in rows
      BY <3>1, <2>4, AtFacts
    <3>2. CASE p = Stored(n)
      <4>1. n \in 6..9 /\ p.project = nextProject /\ p.name = SeedRows[n].name
        BY <1>n, <2>4, <3>2, StoredFacts, DemoFacts
      <4> QED BY <1>n, <4>1, AtFacts, DemoFacts DEF ReachedId
    <3> QED BY <3>1, <3>2
  <2>5. ASSUME NEW k \in 2..n
        PROVE  Seeded(k)'
    <3>1. CASE k = n
      BY <1>n, <3>1, StoredIsSeeded
    <3>2. CASE k < n
      <4>1. Seeded(k) /\ k \in 1..SeedLength
        BY <1>n, <3>2, <2>1, AtFacts DEF Halfway, SeedLength
      <4> QED BY <1>1, <4>1, SeededStays
    <3> QED BY <2>1, <3>1, <3>2
  <2>6. next' - 1 = n
    BY <1>n
  <2> QED BY <2>2, <2>3, <2>4, <2>5, <2>6 DEF Halfway
<1>3. Accounts'
  <2>1. CASE n = 1
    BY <1>1, <2>1, StoredFacts, DemoFacts, DemoAccounts DEF Accounts, SeedLength
  <2>2. CASE n = 2
    BY <1>n, <1>1, <2>2, StoredFacts, DemoFacts DEF Accounts, OrgStored, SeedLength
  <2>3. CASE n > 2
    BY <1>n, <1>1, <2>3, AtFacts DEF Accounts, OrgStored
  <2> QED BY <1>n, <2>1, <2>2, <2>3 DEF SeedLength
<1>4. Complete'
  <2> SUFFICES ASSUME ~interrupted', OrgStored', ~Inside', NEW k \in 2..SeedLength
               PROVE  Seeded(k)'
    BY DEF Complete
  <2>1. n = 1 \/ n = 19
    BY <1>n DEF Inside, SeedLength
  <2>2. n # 1
    BY <1>n, AtFacts, StoredFacts, DemoFacts DEF OrgStored, SeedLength, RowsInv, Untouched
  <2>3. CASE k = n
    BY <1>n, <2>3, StoredIsSeeded
  <2>4. CASE k < n
    <3>1. Seeded(k) /\ k \in 1..SeedLength
      BY <1>n, <2>4, <2>1, <2>2, AtFacts DEF Halfway, SeedLength
    <3> QED BY <1>1, <3>1, SeededStays
  <2> QED BY <2>1, <2>2, <2>3, <2>4 DEF SeedLength
<1> QED BY <1>2, <1>3, <1>4

LEMMA CompleteStays ==
  ASSUME Complete, rows \subseteq rows',
         ~interrupted' => ~interrupted /\ ~Inside /\ (OrgStored' => OrgStored)
  PROVE  Complete'
<1> SUFFICES ASSUME ~interrupted', OrgStored', NEW k \in 2..SeedLength
             PROVE  Seeded(k)'
  BY DEF Complete
<1>1. Seeded(k) /\ k \in 1..SeedLength
  BY DEF Complete, SeedLength
<1> QED BY <1>1, SeededStays

(* Nothing is stored, before or after Seed's second part.                  *)
LEMMA OutsideKeeps ==
  ASSUME RowsInv, Complete, rows' = rows, nextProject' = nextProject,
         interrupted' = interrupted, ~Inside, ~Inside'
  PROVE  RowsInv' /\ Halfway' /\ Complete'
<1>1. RowsInv'
  BY DEF RowsInv, RowsTyped, Numbered, NoProjectTwice, ReferencesMeet, Untouched,
         AdminFirst, FirstOrg, OrgStored
<1>2. Complete'
  BY CompleteStays DEF OrgStored
<1> QED BY <1>1, <1>2 DEF Halfway

(* The process ends: it is not left inside Seed uninterrupted.             *)
LEMMA EndKeeps ==
  ASSUME Complete, ~Seeding', ~Opening', ~Serving', rows \subseteq rows',
         ~interrupted' => ~interrupted /\ ~Inside /\ (OrgStored' => OrgStored)
  PROVE  Halfway' /\ Accounts' /\ Complete'
  BY CompleteStays DEF Halfway, Inside, Accounts

LEMMA PhasesApart ==
  /\ Serving => ~Seeding /\ ~Opening
  /\ Opening => ~Seeding
  BY DEF Serving, Seeding, Opening

(* Main does not move on; rows are stored only while the server answers.   *)
LEMMA StayKeeps ==
  ASSUME Halfway, Accounts, Complete, rows \subseteq rows',
         Serving \/ (rows' = rows /\ nextProject' = nextProject),
         Seeding' = Seeding, Serving' = Serving, Opening' = Opening,
         next' = next, interrupted' = interrupted
  PROVE  Halfway' /\ Accounts' /\ Complete'
<1>1. Accounts'
  BY DEF Accounts, OrgStored
<1>2. CASE Inside
  <2>1. rows' = rows /\ nextProject' = nextProject
    BY <1>2, PhasesApart DEF Inside
  <2>2. Halfway'
    <3>1. \A k \in 2..next - 1 : k \in 1..SeedLength /\ Seeded(k)
      BY <1>2 DEF Halfway, Inside, SeedLength
    <3>2. \A k \in 2..next - 1 : Seeded(k)'
      BY <2>1, <3>1, SeededStays
    <3> QED BY <1>2, <2>1, <3>2 DEF Halfway
  <2> QED BY <1>1, <1>2, <2>2 DEF Complete, Inside
<1>3. CASE ~Inside
  <2>1. OrgStored' => OrgStored
    BY DEF OrgStored, Accounts
  <2>2. ~Inside'
    BY <1>3 DEF Inside
  <2> QED BY <1>1, <1>3, <2>1, <2>2, CompleteStays DEF Halfway
<1> QED BY <1>2, <1>3

(*** The steps **************************************************************)

CountsOK ==
  /\ attempt \in 0..RetryCount /\ next \in 1..SeedLength + 1
  /\ reachable \in BOOLEAN /\ interrupted \in BOOLEAN /\ faults \in 0..MaxFaults

(* The invariant, in the parts that the steps keep.                        *)
LEMMA TypeParts ==
  TypeOK <=> phase \in Phases /\ CountsOK /\ RowsTyped /\ nextProject \in Nat \ {0}
  BY Zenon DEF TypeOK, CountsOK, RowsTyped, Kinded

LEMMA ExitFacts ==
  ASSUME Exit, interrupted \in BOOLEAN
  PROVE  /\ phase' \in Phases /\ ~Seeding' /\ ~Opening' /\ ~Serving'
         /\ attempt' = attempt /\ next' = next /\ interrupted' \in BOOLEAN
         /\ ~interrupted' =>
              ~interrupted /\ ~Inside /\ (Seeding /\ next = 2 => rows' = rows)
<1>1. phase' \in Phases /\ ~Seeding' /\ ~Opening' /\ ~Serving'
  BY DEF Exit, Phases, Seeding, Opening, Serving
<1>2. attempt' = attempt /\ next' = next
  BY DEF Exit
<1>3. interrupted' = (interrupted \/ Inside \/ (Seeding /\ next = 2 /\ rows' # rows))
  BY Zenon DEF Exit, Inside, Seeding
<1> QED BY <1>1, <1>2, <1>3

LEMMA InvParts ==
  /\ Inv <=> /\ phase \in Phases /\ CountsOK /\ RowsInv
             /\ Halfway /\ Accounts /\ Complete
  /\ Inv' <=> /\ phase' \in Phases /\ CountsOK' /\ RowsInv'
              /\ Halfway' /\ Accounts' /\ Complete'
<1>1. RowsInv => RowsTyped /\ nextProject \in Nat \ {0}
  BY DEF RowsInv, Numbered
<1>2. RowsInv' => RowsTyped' /\ nextProject' \in Nat \ {0}
  BY DEF RowsInv, Numbered
<1>3. TypeOK' <=>
        phase' \in Phases /\ CountsOK' /\ RowsTyped' /\ nextProject' \in Nat \ {0}
  BY Zenon DEF TypeOK, CountsOK, RowsTyped, Kinded
<1> QED
  BY <1>1, <1>2, <1>3, TypeParts, Zenon DEF Inv

LEMMA InitInv == Init => Inv
<1> SUFFICES ASSUME Init
             PROVE  Inv
  OBVIOUS
<1>1. phase \in Phases /\ ~Seeding /\ ~Opening /\ ~Serving
  BY DEF Init, Phases, Seeding, Opening, Serving
<1>2. /\ attempt = 0 /\ next = 1 /\ reachable \in BOOLEAN /\ rows = {}
      /\ nextProject = 1 /\ faults = MaxFaults /\ interrupted = FALSE
  BY Zenon DEF Init
<1>3. CountsOK
  <2>1. attempt \in 0..RetryCount /\ next \in 1..SeedLength + 1 /\ faults \in 0..MaxFaults
    BY <1>2, StartupAssumption DEF SeedLength
  <2> QED BY <1>2, <2>1, Zenon DEF CountsOK
<1>4. RowsInv
  BY <1>2 DEF RowsInv, RowsTyped, Numbered, NoProjectTwice, ReferencesMeet, Untouched,
              AdminFirst, FirstOrg, OrgStored
<1>5. Halfway /\ Accounts /\ Complete
  BY <1>1, <1>2 DEF Halfway, Inside, Accounts, Complete, OrgStored
<1> QED BY <1>1, <1>3, <1>4, <1>5, InvParts

(* Main moves on without storing anything.                                 *)
LEMMA MainStep ==
  ASSUME Inv, rows' = rows, nextProject' = nextProject, interrupted' = interrupted,
         ~Inside, ~Inside', phase' \in Phases, CountsOK', Accounts'
  PROVE  Inv'
<1>1. RowsInv /\ Complete
  BY InvParts, Zenon
<1>2. RowsInv' /\ Halfway' /\ Complete'
  BY <1>1, OutsideKeeps
<1> QED BY <1>2, InvParts, Zenon

(* The process ends, and has stored at most what Seed was at.              *)
LEMMA EndStep ==
  ASSUME Inv, Exit, RowsInv', rows \subseteq rows', reachable' = reachable,
         faults' \in 0..MaxFaults,
         OrgStored' => OrgStored \/ Inside \/ (Seeding /\ next = 2 /\ rows' # rows)
  PROVE  Inv'
<1>1. CountsOK /\ Complete
  BY InvParts, Zenon
<1>2. interrupted \in BOOLEAN
  BY <1>1, Zenon DEF CountsOK
<1>3. CountsOK'
  BY <1>1, <1>2, ExitFacts, Zenon DEF CountsOK
<1>4. Halfway' /\ Accounts' /\ Complete'
  BY <1>1, <1>2, ExitFacts, EndKeeps, Zenon
<1> QED BY <1>2, <1>3, <1>4, ExitFacts, InvParts, Zenon

(* ... and has stored nothing.                                             *)
LEMMA QuietEndStep ==
  ASSUME Inv, Exit, rows' = rows, nextProject' = nextProject, reachable' = reachable,
         faults' \in 0..MaxFaults
  PROVE  Inv'
<1>1. RowsInv
  BY InvParts, Zenon
<1>2. RowsInv' /\ (OrgStored' => OrgStored)
  BY <1>1 DEF RowsInv, RowsTyped, Numbered, NoProjectTwice, ReferencesMeet, Untouched,
         AdminFirst, FirstOrg, OrgStored
<1> QED BY <1>2, EndStep

(* Seed is at a row: main is seeding, and a part's guard has been passed.  *)
LEMMA AtNext ==
  ASSUME Inv, AtInsert
  PROVE  /\ \E n : n = next /\ At(n)
         /\ CountsOK /\ Complete
<1>1. RowsInv /\ Halfway /\ Accounts /\ CountsOK /\ Complete
  BY InvParts, Zenon
<1>2. Seeding
  BY DEF AtInsert, Seeding
<1>3. next <= SeedLength /\ (next \in 1..2 => ~Present(next))
  <2>1. Guarded = 1..2
    BY DEF Guarded
  <2> QED BY <2>1, Zenon DEF AtInsert
<1>4. next \in 1..SeedLength
  BY <1>1, <1>3 DEF CountsOK, SeedLength
<1>5. At(next)
  BY <1>1, <1>2, <1>3, <1>4, Zenon DEF At
<1> QED BY <1>1, <1>5, Zenon

(* What a failed insert leaves behind is known to have been interrupted.   *)
LEMMA EndedAtFacts ==
  ASSUME NEW n, At(n), rows' = rows \/ rows' = rows \cup {Stored(n)}
  PROVE  OrgStored' => OrgStored \/ Inside \/ (Seeding /\ next = 2 /\ rows' # rows)
<1> SUFFICES ASSUME OrgStored', ~OrgStored
             PROVE  Inside \/ (Seeding /\ next = 2 /\ rows' # rows)
  OBVIOUS
<1>1. n \in 1..SeedLength /\ next = n /\ Seeding
  BY DEF At
<1>2. rows' # rows /\ IsOrg(Stored(n))
  BY DEF OrgStored
<1>3. n = 2 \/ n > 2
  BY <1>1, <1>2, StoredFacts, DemoFacts
<1> QED BY <1>1, <1>2, <1>3, AtFacts

LEMMA StartStep == Inv /\ Start => Inv'
<1> SUFFICES ASSUME Inv, Start
             PROVE  Inv'
  OBVIOUS
<1>1. CountsOK
  BY InvParts, Zenon
<1>2. ~Seeding /\ phase' \in Phases /\ ~Seeding' /\ Opening' /\ ~Serving'
  BY DEF Start, Phases, Seeding, Opening, Serving
<1>3. /\ attempt' = 0 /\ next' = 1
      /\ UNCHANGED <<reachable, rows, nextProject, faults, interrupted>>
  BY DEF Start
<1>4. CountsOK'
  <2>1. attempt' \in 0..RetryCount /\ next' \in 1..SeedLength + 1
    BY <1>3, StartupAssumption DEF SeedLength
  <2> QED BY <1>1, <1>3, <2>1, Zenon DEF CountsOK
<1>5. Accounts' /\ ~Inside /\ ~Inside'
  BY <1>2, <1>3 DEF Accounts, Inside
<1> QED BY <1>2, <1>3, <1>4, <1>5, MainStep

LEMMA ConnectStep == Inv /\ Connect => Inv'
<1> SUFFICES ASSUME Inv, Connect
             PROVE  Inv'
  OBVIOUS
<1>1. CountsOK /\ Accounts
  BY InvParts, Zenon
<1>2. Opening /\ phase' \in Phases /\ ~Seeding /\ ~Seeding' /\ ~Serving'
  BY DEF Connect, Phases, Seeding, Opening, Serving
<1>3. UNCHANGED <<attempt, next, reachable, rows, nextProject, faults, interrupted>>
  BY DEF Connect
<1>4. CountsOK'
  BY <1>1, <1>3, Zenon DEF CountsOK
<1>5. Accounts' /\ ~Inside /\ ~Inside'
  BY <1>1, <1>2, <1>3 DEF Accounts, Inside
<1> QED BY <1>2, <1>3, <1>4, <1>5, MainStep

LEMMA RetryStep == Inv /\ Retry => Inv'
<1> SUFFICES ASSUME Inv, Retry
             PROVE  Inv'
  OBVIOUS
<1>1. CountsOK /\ Accounts
  BY InvParts, Zenon
<1>2. Opening /\ ~Seeding /\ ~Serving /\ phase \in Phases
  BY DEF Retry, Phases, Seeding, Opening, Serving
<1>3. UNCHANGED <<reachable, rows, nextProject, faults>>
  BY DEF Retry
<1>4. CASE Exit
  BY <1>1, <1>3, <1>4, QuietEndStep DEF CountsOK
<1>5. CASE attempt # RetryCount /\ attempt' = attempt + 1 /\ UNCHANGED <<phase, next, interrupted>>
  <2>1. phase' \in Phases /\ ~Seeding' /\ ~Serving'
    BY <1>2, <1>5, Zenon DEF Phases, Seeding, Serving
  <2>2. attempt' \in 0..RetryCount
    BY <1>1, <1>5, StartupAssumption DEF CountsOK
  <2>3. CountsOK'
    BY <1>1, <1>3, <1>5, <2>2, Zenon DEF CountsOK
  <2>4. Accounts' /\ ~Inside /\ ~Inside'
    BY <1>1, <1>2, <1>5, <2>1 DEF Accounts, Inside
  <2> QED BY <1>3, <1>5, <2>1, <2>3, <2>4, MainStep
<1> QED BY <1>4, <1>5 DEF Retry

LEMMA MigrateStep == Inv /\ Migrate => Inv'
<1> SUFFICES ASSUME Inv, Migrate
             PROVE  Inv'
  OBVIOUS
<1>1. CountsOK /\ Accounts
  BY InvParts, Zenon
<1>2. Opening /\ ~Seeding /\ phase' \in Phases /\ ~Opening' /\ ~Serving'
  BY DEF Migrate, Phases, Seeding, Opening, Serving
<1>3. UNCHANGED <<attempt, next, reachable, rows, nextProject, faults, interrupted>>
  BY DEF Migrate
<1>4. CountsOK'
  BY <1>1, <1>3, Zenon DEF CountsOK
<1>5. Accounts' /\ ~Inside /\ ~Inside'
  BY <1>1, <1>2, <1>3 DEF Accounts, Inside
<1> QED BY <1>2, <1>3, <1>4, <1>5, MainStep

LEMMA SkipPartStep == Inv /\ SkipPart => Inv'
<1> SUFFICES ASSUME Inv, SkipPart
             PROVE  Inv'
  OBVIOUS
<1>1. CountsOK /\ Accounts /\ RowsInv
  BY InvParts, Zenon
<1>2. Seeding /\ phase' \in Phases /\ ~Opening' /\ ~Serving'
  BY DEF SkipPart, Phases, Seeding, Opening, Serving
<1>3. /\ next \in 1..2 /\ next' = PartEnd(next)
      /\ UNCHANGED <<attempt, reachable, rows, nextProject, faults, interrupted>>
  BY DEF SkipPart, Guarded
<1>4. Present(next)
  BY DEF SkipPart
<1>5. next = 1 \/ next = 2
  BY <1>3
<1>6. CASE next = 1
  <2>1. next' = 2
    BY <1>3, <1>6 DEF PartEnd
  <2>2. Admin \in rows
    BY <1>1, <1>4, <1>6, PresentRole DEF RowsInv, AdminFirst
  <2>3. CountsOK'
    BY <1>1, <1>3, <2>1 DEF CountsOK, SeedLength
  <2>4. Accounts' /\ ~Inside /\ ~Inside'
    BY <1>2, <1>3, <1>6, <2>1, <2>2 DEF Accounts, Inside
  <2> QED BY <1>2, <1>3, <2>3, <2>4, MainStep
<1>7. CASE next = 2
  <2>1. next' = SeedLength + 1
    BY <1>3, <1>7 DEF PartEnd
  <2>2. OrgStored /\ Admin \in rows
    BY <1>1, <1>4, <1>7, PresentRole DEF RowsInv, FirstOrg
  <2>3. CountsOK'
    BY <1>1, <1>3, <2>1 DEF CountsOK, SeedLength
  <2>4. Accounts' /\ ~Inside /\ ~Inside'
    BY <1>2, <1>3, <1>7, <2>1, <2>2 DEF Accounts, Inside, OrgStored, SeedLength
  <2> QED BY <1>2, <1>3, <2>3, <2>4, MainStep
<1> QED BY <1>5, <1>6, <1>7

LEMMA ServeStep == Inv /\ Serve => Inv'
<1> SUFFICES ASSUME Inv, Serve
             PROVE  Inv'
  OBVIOUS
<1>1. CountsOK /\ Accounts
  BY InvParts, Zenon
<1>2. Seeding /\ phase' \in Phases /\ ~Seeding' /\ ~Opening' /\ Serving'
  BY DEF Serve, Phases, Seeding, Opening, Serving
<1>3. /\ next = SeedLength + 1
      /\ UNCHANGED <<attempt, next, reachable, rows, nextProject, faults, interrupted>>
  BY DEF Serve
<1>4. CountsOK'
  BY <1>1, <1>3, Zenon DEF CountsOK
<1>5. Accounts' /\ ~Inside /\ ~Inside'
  BY <1>1, <1>2, <1>3 DEF Accounts, Inside, SeedLength, OrgStored
<1> QED BY <1>2, <1>3, <1>4, <1>5, MainStep

LEMMA StatementFailsStep == Inv /\ StatementFails => Inv'
<1>1. StatementFails => Exit /\ UNCHANGED <<reachable, rows, nextProject, faults>>
  BY DEF StatementFails
<1>2. Inv => faults \in 0..MaxFaults
  BY InvParts, Zenon DEF CountsOK
<1> QED BY <1>1, <1>2, QuietEndStep

LEMMA CloseAndReturnStep == Inv /\ CloseAndReturn => Inv'
<1>1. CloseAndReturn => Exit /\ UNCHANGED <<reachable, rows, nextProject, faults>>
  BY DEF CloseAndReturn
<1>2. Inv => faults \in 0..MaxFaults
  BY InvParts, Zenon DEF CountsOK
<1> QED BY <1>1, <1>2, QuietEndStep

LEMMA OneFaultLess ==
  ASSUME CountsOK, Fault
  PROVE  faults' \in 0..MaxFaults
  BY StartupAssumption DEF CountsOK, Fault

LEMMA CrashStep == Inv /\ Crash => Inv'
<1> SUFFICES ASSUME Inv, Crash
             PROVE  Inv'
  OBVIOUS
<1>1. Exit /\ Fault /\ UNCHANGED <<reachable, rows, nextProject>>
  BY DEF Crash
<1>2. faults' \in 0..MaxFaults
  BY <1>1, InvParts, OneFaultLess
<1> QED BY <1>1, <1>2, QuietEndStep

LEMMA InsertStep == Inv /\ Insert => Inv'
<1> SUFFICES ASSUME Inv, Insert
             PROVE  Inv'
  OBVIOUS
<1>1. AtInsert /\ UNCHANGED <<reachable, faults>>
  BY DEF Insert
<1>2. CountsOK /\ Complete
  BY <1>1, AtNext
<1>3. PICK n : n = next /\ At(n)
  BY <1>1, AtNext
<1>4. CASE UNCHANGED <<rows, nextProject>> /\ Exit
  BY <1>1, <1>2, <1>4, QuietEndStep DEF CountsOK
<1>5. CASE /\ rows' = rows \cup {Stored(next)} /\ nextProject' = IdAfter(next)
           /\ next' = next + 1 /\ UNCHANGED <<phase, attempt, interrupted>>
  <2>1. rows' = rows \cup {Stored(n)} /\ nextProject' = IdAfter(n) /\ next' = n + 1
    BY <1>3, <1>5
  <2>2. phase' \in Phases /\ Seeding' /\ ~Opening' /\ ~Serving'
    BY <1>1, <1>5 DEF AtInsert, Phases, Seeding, Opening, Serving
  <2>3. n \in 1..SeedLength
    BY <1>3 DEF At
  <2>4. next' \in 1..SeedLength + 1
    BY <2>1, <2>3 DEF SeedLength
  <2>5. CountsOK'
    BY <1>1, <1>2, <1>5, <2>4, Zenon DEF CountsOK
  <2>6. RowsInv'
    BY <1>3, <2>1, StoreKeepsRows
  <2>7. Halfway' /\ Accounts' /\ Complete'
    BY <1>2, <1>3, <1>5, <2>1, <2>2, StoreGoesOn
  <2> QED BY <2>2, <2>5, <2>6, <2>7, InvParts, Zenon
<1> QED BY <1>4, <1>5 DEF Insert

LEMMA InsertFailsStep == Inv /\ InsertFails => Inv'
<1> SUFFICES ASSUME Inv, InsertFails
             PROVE  Inv'
  OBVIOUS
<1>1. AtInsert /\ Fault /\ Outcome /\ Exit /\ UNCHANGED reachable
  BY DEF InsertFails
<1>2. CountsOK /\ Complete
  BY <1>1, AtNext
<1>3. PICK n : n = next /\ At(n)
  BY <1>1, AtNext
<1>4. faults' \in 0..MaxFaults
  BY <1>1, <1>2, OneFaultLess
<1>5. CASE UNCHANGED <<rows, nextProject>>
  BY <1>1, <1>4, <1>5, QuietEndStep
<1>6. CASE nextProject' = IdAfter(next) /\ UNCHANGED rows
  <2>1. rows' = rows /\ nextProject' = IdAfter(n)
    BY <1>3, <1>6
  <2>2. RowsInv'
    BY <1>3, <2>1, LostIdKeepsRows
  <2> QED BY <1>1, <1>3, <1>4, <2>1, <2>2, EndedAtFacts, EndStep
<1>7. CASE rows' = rows \cup {Stored(next)} /\ nextProject' = IdAfter(next)
  <2>1. rows' = rows \cup {Stored(n)} /\ nextProject' = IdAfter(n)
    BY <1>3, <1>7
  <2>2. RowsInv'
    BY <1>3, <2>1, StoreKeepsRows
  <2> QED BY <1>1, <1>3, <1>4, <2>1, <2>2, EndedAtFacts, EndStep
<1> QED BY <1>1, <1>5, <1>6, <1>7 DEF Outcome

(* Steps that leave main where it is.                                      *)
LEMMA StayStep ==
  ASSUME Inv, rows' = rows, nextProject' = nextProject, CountsOK', phase' \in Phases,
         Seeding' = Seeding, Serving' = Serving, Opening' = Opening,
         next' = next, interrupted' = interrupted
  PROVE  Inv'
<1>1. RowsInv /\ Halfway /\ Accounts /\ Complete
  BY InvParts, Zenon
<1>2. RowsInv'
  BY <1>1 DEF RowsInv, RowsTyped, Numbered, NoProjectTwice, ReferencesMeet, Untouched,
         AdminFirst, FirstOrg, OrgStored
<1>3. rows \subseteq rows'
  OBVIOUS
<1>4. Halfway' /\ Accounts' /\ Complete'
  BY <1>1, <1>3, StayKeeps, Zenon
<1> QED BY <1>2, <1>4, InvParts, Zenon

LEMMA SamePhase ==
  ASSUME phase' = phase
  PROVE  Seeding' = Seeding /\ Serving' = Serving /\ Opening' = Opening
  BY DEF Seeding, Serving, Opening

LEMMA TerminateStep == Inv /\ Terminate => Inv'
<1> SUFFICES ASSUME Inv, Terminate
             PROVE  Inv'
  OBVIOUS
<1>1. /\ Seeding' = Seeding /\ Serving' = Serving /\ Opening' = Opening
      /\ phase' \in Phases
  BY DEF Terminate, Seeding, Serving, Opening, Phases
<1>2. Fault /\ UNCHANGED <<attempt, next, reachable, rows, nextProject, interrupted>>
  BY DEF Terminate
<1>3. CountsOK
  BY InvParts, Zenon
<1>4. CountsOK'
  BY <1>2, <1>3, OneFaultLess, Zenon DEF CountsOK
<1> QED BY <1>1, <1>2, <1>4, StayStep

LEMMA OutageStep == Inv /\ Outage => Inv'
<1> SUFFICES ASSUME Inv, Outage
             PROVE  Inv'
  OBVIOUS
<1>1. /\ Fault /\ reachable' = FALSE
      /\ UNCHANGED <<phase, attempt, next, rows, nextProject, interrupted>>
  BY DEF Outage
<1>2. CountsOK /\ phase \in Phases
  BY InvParts, Zenon
<1>3. CountsOK' /\ phase' \in Phases
  BY <1>1, <1>2, OneFaultLess, Zenon DEF CountsOK
<1> QED BY <1>1, <1>3, SamePhase, StayStep

LEMMA RecoveryStep == Inv /\ Recovery => Inv'
<1> SUFFICES ASSUME Inv, Recovery
             PROVE  Inv'
  OBVIOUS
<1>1. /\ reachable' = TRUE
      /\ UNCHANGED <<phase, attempt, next, rows, nextProject, faults, interrupted>>
  BY DEF Recovery
<1>2. CountsOK /\ phase \in Phases
  BY InvParts, Zenon
<1>3. CountsOK' /\ phase' \in Phases
  BY <1>1, <1>2, Zenon DEF CountsOK
<1> QED BY <1>1, <1>3, SamePhase, StayStep

(* Steps that store rows while the server answers.                         *)
LEMMA RequestStep ==
  ASSUME Inv, RowsInv', rows \subseteq rows', Serving,
         UNCHANGED <<phase, attempt, next, reachable, faults, interrupted>>
  PROVE  Inv'
<1>1. CountsOK /\ phase \in Phases /\ Halfway /\ Accounts /\ Complete
  BY InvParts, Zenon
<1>2. CountsOK' /\ phase' \in Phases
  BY <1>1, Zenon DEF CountsOK
<1>3. Halfway' /\ Accounts' /\ Complete'
  BY <1>1, SamePhase, StayKeeps
<1> QED BY <1>2, <1>3, InvParts, Zenon

LEMMA RegisterStep ==
  ASSUME Inv, NEW name \in Newcomers, NEW role \in Roles, Register(name, role)
  PROVE  Inv'
<1>1. /\ Serving /\ rows' = rows \cup {User(name, role)} /\ nextProject' = nextProject
      /\ UNCHANGED <<phase, attempt, next, reachable, faults, interrupted>>
  BY Zenon DEF Register
<1>2. RowsInv /\ OrgStored
  BY <1>1, InvParts, Zenon DEF Accounts
<1>3. RowsInv' /\ rows \subseteq rows'
  BY <1>1, <1>2, RegisterKeepsRows, Zenon
<1> QED BY <1>1, <1>3, RequestStep, Zenon

LEMMA PublishStep == Inv /\ Publish => Inv'
<1> SUFFICES ASSUME Inv, Publish
             PROVE  Inv'
  OBVIOUS
<1>1. PICK row : /\ row = Row("projects", "new", "", nextProject)
                 /\ rows' = rows \cup {row}
  BY Zenon DEF Publish
<1>2. /\ Serving /\ nextProject' = nextProject + 1
      /\ UNCHANGED <<phase, attempt, next, reachable, faults, interrupted>>
  BY Zenon DEF Publish
<1>3. /\ Kinded(row) /\ IsProject(row) /\ IsNew(row) /\ ~IsAdmin(row) /\ ~IsReference(row)
      /\ row.project = nextProject
  BY <1>1, ProjectRow, NewRow, Zenon
<1>4. RowsInv /\ OrgStored
  BY <1>2, InvParts, Zenon DEF Accounts
<1>5. RowsInv' /\ rows \subseteq rows'
  BY <1>1, <1>2, <1>3, <1>4, PublishKeepsRows, Zenon
<1> QED BY <1>2, <1>5, RequestStep, Zenon

(*** The theorems ***********************************************************)

LEMMA StutterStep == Inv /\ UNCHANGED vars => Inv'
<1> SUFFICES ASSUME Inv, UNCHANGED vars
             PROVE  Inv'
  OBVIOUS
<1>1. UNCHANGED <<phase, attempt, next, reachable, rows, nextProject, faults, interrupted>>
  BY DEF vars
<1>2. CountsOK /\ phase \in Phases
  BY InvParts, Zenon
<1>3. CountsOK' /\ phase' \in Phases
  BY <1>1, <1>2, Zenon DEF CountsOK
<1> QED BY <1>1, <1>3, SamePhase, StayStep

LEMMA NextInv == Inv /\ [Next]_vars => Inv'
<1> SUFFICES ASSUME Inv, [Next]_vars
             PROVE  Inv'
  OBVIOUS
<1>1. CASE Start BY <1>1, StartStep
<1>2. CASE Connect BY <1>2, ConnectStep
<1>3. CASE Retry BY <1>3, RetryStep
<1>4. CASE Migrate BY <1>4, MigrateStep
<1>5. CASE SeedStep
  BY <1>5, SkipPartStep, InsertStep, InsertFailsStep, StatementFailsStep, ServeStep DEF SeedStep
<1>6. CASE Request
  BY <1>6, PublishStep, RegisterStep, Zenon DEF Request
<1>7. CASE Terminate BY <1>7, TerminateStep
<1>8. CASE CloseAndReturn BY <1>8, CloseAndReturnStep
<1>9. CASE Crash BY <1>9, CrashStep
<1>10. CASE Outage BY <1>10, OutageStep
<1>11. CASE Recovery BY <1>11, RecoveryStep
<1>12. CASE UNCHANGED vars BY <1>12, StutterStep
<1> QED
  BY <1>1, <1>2, <1>3, <1>4, <1>5, <1>6, <1>7, <1>8, <1>9, <1>10, <1>11, <1>12, Zenon DEF Next

(* The invariant: what is stored of Seed's rows, and how far main has come *)
(* with storing them, agree after any number of lives of the process.      *)
THEOREM StartupInvariant == Spec => []Inv
  BY InitInv, NextInv, PTL DEF Spec

(* The variables of the startup keep their types (main.go, seed.go).       *)
THEOREM Typing == Spec => []TypeOK
<1>1. Inv => TypeOK
  BY Zenon DEF Inv
<1> QED BY <1>1, StartupInvariant, PTL

(* Whichever inserts of Seed failed, were lost or were cut short, its      *)
(* literal project ids are those of the projects it meant.                 *)
THEOREM DemoRowsMeet == Spec => []DemoRowsMeetTheirProjects
<1>1. Inv => ReferencesMeet /\ NoProjectTwice
  BY Zenon DEF Inv, RowsInv
<1>2. Inv => DemoRowsMeetTheirProjects
  BY <1>1, Zenon
  DEF ReferencesMeet, NoProjectTwice, DemoRowsMeetTheirProjects, IsProject, IsReference, IsNew
<1> QED BY <1>2, StartupInvariant, PTL

(* A server that answers has its administrator and its first organization; *)
(* it lacks other demo rows only if a process ended inside Seed.           *)
THEOREM ServesWhenPrepared == Spec => []ServesPrepared
<1>1. ASSUME Inv PROVE ServesPrepared
  <2>1. RowsInv /\ Accounts /\ Complete
    BY <1>1, InvParts, Zenon
  <2>2. Serving => OrgStored /\ Admin \in rows /\ CareOrg \in rows /\ ~Inside
    BY <2>1, PhasesApart DEF RowsInv, FirstOrg, Accounts, Inside
  <2>3. Admin \in rows => Seeded(1)
    BY DemoTables, DemoAccounts, Zenon DEF Seeded, IsProject, UserAt
  <2>4. \A n \in 1..SeedLength : n = 1 \/ n \in 2..SeedLength
    BY DEF SeedLength
  <2>5. Serving /\ ~interrupted => \A n \in 1..SeedLength : Seeded(n)
    BY <2>1, <2>2, <2>3, <2>4, Zenon DEF Complete
  <2> QED BY <2>2, <2>5, Zenon DEF ServesPrepared, Admin, CareOrg
<1> QED BY <1>1, StartupInvariant, PTL

=============================================================================
