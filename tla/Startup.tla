------------------------------ MODULE Startup -------------------------------
(***************************************************************************)
(* The life of the server process: main connects to the database with      *)
(* retries, migrates, seeds the demo rows and serves until it is told to   *)
(* stop; the container runtime starts it again whenever it has ended.      *)
(* Seeding is not a transaction: the process may die, or a statement may   *)
(* fail, between any two of its inserts, and the next start finds what is  *)
(* there.  One process runs at a time.                                     *)
(***************************************************************************)
EXTENDS Integers, Sequences, FiniteSets

CONSTANTS RetryCount,  \* DB_CONNECT_RETRY_COUNT
          Newcomers,   \* usernames visitors may register
          MaxProjects, \* bound: projects that are ever inserted, or lost
          MaxFaults    \* bound: crashes, signals, failures and outages

ASSUME StartupAssumption ==
  RetryCount \in Nat /\ MaxProjects \in Nat /\ MaxFaults \in Nat

VARIABLES phase,       \* what main is doing, "down" when there is no process
          attempt,     \* failed attempts to connect, of this process
          next,        \* the demo row that Seed comes to next
          reachable,   \* the database answers
          rows,        \* the rows stored
          nextProject, \* AUTO_INCREMENT of the projects table
          faults,      \* how many are still to come, at most
          interrupted  \* history: a process ended inside Seed's second part

vars == <<phase, attempt, next, reachable, rows, nextProject, faults, interrupted>>

Phases == {"down", "connecting", "migrating", "seeding", "serving", "draining"}
Roles == {"admin", "org", "user"}

-----------------------------------------------------------------------------
(* The rows of Seed *)

(* `project` is the id of a project's row, and the id another row refers   *)
(* to; Seed writes the latter as literals.  Users and organizations are    *)
(* referred to by the ids their own inserts returned, so by name here.     *)
Row(table, name, role, project) ==
  [table |-> table, name |-> name, role |-> role, project |-> project]
User(name, role) == Row("users", name, role, 0)
Organization(user) == Row("organizations", user, "", 0)
Project(name) == Row("projects", name, "", 0)
Donation(user, project) == Row("donations", user, "", project)
Update(name, project) == Row("updates", name, "", project)

DemoProjects == <<"library", "companions", "grants", "supplies">>

SeedRows == <<
  User("admin", "admin"),
  User("careorg", "org"), Organization("careorg"),
  User("neworg", "org"), Organization("neworg"),
  Project("library"), Project("companions"), Project("grants"), Project("supplies"),
  User("donor1", "user"), User("donor2", "user"), User("donor3", "user"),
  Donation("donor1", 1), Donation("donor2", 1), Donation("donor3", 2),
  Donation("donor1", 2), Donation("donor2", 3),
  Update("books bought", 1), Update("visits made", 2)>>

SeedLength == 19

(* Seed has two parts, each guarded by a count of the accounts of a role:  *)
(* the administrator, and everything else.  Counting and the insert after  *)
(* it are one action, for nothing else writes while Seed runs.             *)
Guarded == {1, 2}
PartEnd(n) == IF n = 1 THEN 2 ELSE SeedLength + 1

(* Mutant: the second part is guarded by its donations, which come last.   *)
Present_Donations(n) ==
  IF n = 1 THEN \E row \in rows : row.role = "admin"
  ELSE \E row \in rows : row.table = "donations"

Present(n) == \E row \in rows : row.role = SeedRows[n].role

(* The row as the database stores it: a project gets the next id.          *)
Stored(n) == IF SeedRows[n].table = "projects"
             THEN Row("projects", SeedRows[n].name, "", nextProject) ELSE SeedRows[n]

HasId(id) == \E row \in rows : row.table = "projects" /\ row.project = id

(* Unique usernames and organization accounts; donations have a foreign    *)
(* key to their project, updates have none.                                *)
Accepts(row) ==
  /\ row.table \in {"users", "organizations"} =>
       ~ \E other \in rows : other.table = row.table /\ other.name = row.name
  /\ row.table = "donations" => HasId(row.project)

IdAfter(n) == IF SeedRows[n].table = "projects" THEN nextProject + 1 ELSE nextProject

-----------------------------------------------------------------------------
(* The process *)

Init ==
  /\ phase = "down" /\ attempt = 0 /\ next = 1
  /\ reachable \in BOOLEAN
  /\ rows = {} /\ nextProject = 1
  /\ faults = MaxFaults /\ interrupted = FALSE

(* The process ends, by os.Exit(1), by a crash or because main returns.    *)
Exit ==
  /\ phase' = "down"
  /\ interrupted' = \/ interrupted
                    \/ phase = "seeding" /\ next \in 3..SeedLength
                    \/ phase = "seeding" /\ next = 2 /\ rows' # rows
  /\ UNCHANGED <<attempt, next>>

(* One of the faults still to come.                                        *)
Fault == faults > 0 /\ faults' = faults - 1

Start ==
  /\ phase = "down"
  /\ phase' = "connecting" /\ attempt' = 0 /\ next' = 1
  /\ UNCHANGED <<reachable, rows, nextProject, faults, interrupted>>

Connect ==
  /\ phase = "connecting" /\ reachable
  /\ phase' = "migrating"
  /\ UNCHANGED <<attempt, next, reachable, rows, nextProject, faults, interrupted>>

(* Mutant: one attempt too many.                                           *)
Retry_Late ==
  /\ phase = "connecting" /\ ~reachable
  /\ UNCHANGED <<reachable, rows, nextProject, faults>>
  /\ IF attempt > RetryCount THEN Exit
     ELSE attempt' = attempt + 1 /\ UNCHANGED <<phase, next, interrupted>>

Retry ==
  /\ phase = "connecting" /\ ~reachable
  /\ UNCHANGED <<reachable, rows, nextProject, faults>>
  /\ IF attempt = RetryCount THEN Exit
     ELSE attempt' = attempt + 1 /\ UNCHANGED <<phase, next, interrupted>>

(* AutoMigrate creates what is missing, so it can be repeated.             *)
Migrate ==
  /\ phase = "migrating" /\ reachable
  /\ phase' = "seeding"
  /\ UNCHANGED <<attempt, next, reachable, rows, nextProject, faults, interrupted>>

SkipPart ==
  /\ phase = "seeding" /\ reachable
  /\ next \in Guarded /\ Present(next)
  /\ next' = PartEnd(next)
  /\ UNCHANGED <<phase, attempt, reachable, rows, nextProject, faults, interrupted>>

AtInsert ==
  /\ phase = "seeding" /\ next <= SeedLength
  /\ next \in Guarded => ~Present(next)

(* The statement is executed; when a constraint refuses it, Seed returns   *)
(* the error and main exits.                                               *)
Insert ==
  /\ AtInsert /\ reachable
  /\ IF Accepts(Stored(next))
     THEN /\ rows' = rows \cup {Stored(next)}
          /\ nextProject' = IdAfter(next)
          /\ next' = next + 1
          /\ UNCHANGED <<phase, attempt, interrupted>>
     ELSE UNCHANGED <<rows, nextProject>> /\ Exit
  /\ UNCHANGED <<reachable, faults>>

(* Its answer is an error: nothing was stored, or an id was used up, or    *)
(* the row was stored and its acknowledgement lost.                        *)
Outcome ==
  \/ UNCHANGED <<rows, nextProject>>
  \/ nextProject' = IdAfter(next) /\ UNCHANGED rows
  \/ /\ Accepts(Stored(next))
     /\ rows' = rows \cup {Stored(next)}
     /\ nextProject' = IdAfter(next)

(* Mutant: the error is logged and Seed goes on.                           *)
InsertFails_GoesOn ==
  /\ AtInsert /\ reachable
  /\ Fault /\ Outcome
  /\ next' = next + 1
  /\ UNCHANGED <<phase, attempt, reachable, interrupted>>

InsertFails ==
  /\ AtInsert /\ reachable
  /\ Fault /\ Outcome
  /\ Exit /\ UNCHANGED reachable

(* Mutant: main logs that seeding failed, and serves.                      *)
StatementFails_Serves ==
  /\ phase \in {"migrating", "seeding"} /\ ~reachable
  /\ phase' = "serving"
  /\ UNCHANGED <<attempt, next, reachable, rows, nextProject, faults, interrupted>>

(* Without the database a statement of migrating or seeding fails.         *)
StatementFails ==
  /\ phase \in {"migrating", "seeding"} /\ ~reachable
  /\ UNCHANGED <<reachable, rows, nextProject, faults>>
  /\ Exit

Serve ==
  /\ phase = "seeding" /\ next = SeedLength + 1
  /\ phase' = "serving"
  /\ UNCHANGED <<attempt, next, reachable, rows, nextProject, faults, interrupted>>

(* SIGTERM is caught only once the server runs; before, it ends the        *)
(* process, which is Crash.                                                *)
Terminate ==
  /\ phase = "serving" /\ Fault
  /\ phase' = "draining"
  /\ UNCHANGED <<attempt, next, reachable, rows, nextProject, interrupted>>

(* Shutdown has waited for the requests, or for ten seconds.               *)
CloseAndReturn ==
  /\ phase = "draining"
  /\ UNCHANGED <<reachable, rows, nextProject, faults>>
  /\ Exit

Crash ==
  /\ phase # "down" /\ Fault
  /\ UNCHANGED <<reachable, rows, nextProject>>
  /\ Exit

(* What requests do meanwhile to the rows that Seed looks at; those on     *)
(* their way end while the server drains.                                  *)
Serving == phase \in {"serving", "draining"}

(* Any string a request names is stored as the role; "user" stands for all *)
(* that Seed does not ask for.                                             *)
Register(name, role) ==
  /\ Serving /\ reachable
  /\ Accepts(User(name, role))
  /\ rows' = rows \cup {User(name, role)}
  /\ UNCHANGED <<phase, attempt, next, reachable, nextProject, faults, interrupted>>

Publish ==
  /\ Serving /\ reachable /\ nextProject <= MaxProjects
  /\ rows' = rows \cup {Row("projects", "new", "", nextProject)}
  /\ nextProject' = nextProject + 1
  /\ UNCHANGED <<phase, attempt, next, reachable, faults, interrupted>>

(* The database goes away and comes back.                                  *)
Outage ==
  /\ reachable /\ Fault /\ reachable' = FALSE
  /\ UNCHANGED <<phase, attempt, next, rows, nextProject, interrupted>>

Recovery ==
  /\ ~reachable /\ reachable' = TRUE
  /\ UNCHANGED <<phase, attempt, next, rows, nextProject, faults, interrupted>>

SeedStep == SkipPart \/ Insert \/ InsertFails \/ StatementFails \/ Serve
Request == Publish \/ \E name \in Newcomers, role \in Roles : Register(name, role)

Next ==
  \/ Start \/ Connect \/ Retry \/ Migrate
  \/ SeedStep \/ Request
  \/ Terminate \/ CloseAndReturn \/ Crash
  \/ Outage \/ Recovery

(* `restart: unless-stopped` starts the process again, an operator after a *)
(* stop; a running one takes its steps; the database comes back.           *)
Fairness ==
  /\ WF_vars(Start) /\ WF_vars(Connect) /\ WF_vars(Retry) /\ WF_vars(Migrate)
  /\ WF_vars(SeedStep) /\ WF_vars(CloseAndReturn) /\ WF_vars(Recovery)

Spec == Init /\ [][Next]_vars /\ Fairness

-----------------------------------------------------------------------------
(* Properties *)

Tables == {"users", "organizations", "projects", "donations", "updates"}

(* Variables have their types; no process tries to connect more often than *)
(* it was told to.                                                         *)
TypeOK ==
  /\ phase \in Phases /\ attempt \in 0..RetryCount /\ next \in 1..SeedLength + 1
  /\ reachable \in BOOLEAN /\ interrupted \in BOOLEAN
  /\ \A row \in rows : /\ row.table \in Tables /\ row.role \in Roles \cup {""}
                       /\ row.project \in Nat
  /\ nextProject \in Nat \ {0} /\ faults \in 0..MaxFaults

(* The donations and updates of Seed name their projects by literal ids:   *)
(* whatever failed before, and whatever was published since, the project   *)
(* of that id is the one that was meant, and no demo project is there      *)
(* twice.                                                                  *)
DemoRowsMeetTheirProjects ==
  /\ \A row \in rows : row.table \in {"donations", "updates"} =>
       \E p \in rows : /\ p.table = "projects" /\ p.project = row.project
                       /\ p.name = DemoProjects[row.project]
  /\ \A p, q \in rows : p.table = "projects" /\ q.table = "projects" =>
       p = q \/ (p.project # q.project /\ (p.name = "new" \/ p.name # q.name))

(* Demo row n is there; a project has whichever id it was given.           *)
Seeded(n) ==
  IF SeedRows[n].table = "projects"
  THEN \E row \in rows : row.table = "projects" /\ row.name = SeedRows[n].name
  ELSE SeedRows[n] \in rows

(* A server that answers has its administrator and a first organization,   *)
(* and, unless a process died in the middle of seeding, all demo rows.     *)
ServesPrepared ==
  Serving =>
    /\ User("admin", "admin") \in rows /\ User("careorg", "org") \in rows
    /\ ~interrupted => \A n \in 1..SeedLength : Seeded(n)

(* Faults end, and the service is back: no crash, wherever it hits, leaves *)
(* rows behind that keep the next start from getting through.              *)
ServiceReturns == phase = "down" ~> phase = "serving"
=============================================================================
