# GiveTrack: a verification development

GiveTrack is a donation platform: a Go server (gin, gorm, MySQL) and a React
client. Organizations register, are approved by administrators and publish
projects; users donate to approved projects; a project is completed when its
target amount is collected. This directory holds TLA+ modules of the parts that
carry state, configurations that model-check them with TLC, and proofs checked by
TLAPS. Paths below are relative to `backend/internal/` unless they begin with
`frontend/`.

## 1. Inventory

| component | state | operations | interacts with | what makes it hard |
|---|---|---|---|---|
| donations, `service/service_donation.go` | rows of donations, projects, users | `Create`: one transaction of five statements | shares rows with reviews and profile updates | reads that are not locked, whole-row saves, lock waits, lost commit acknowledgements |
| project review, `service/service_admin.go` | projects, admin_reviews | `ReviewProject`: read, save, insert | shares projects with donations | three statements, no transaction |
| profile update, `service/service_auth.go` | users | `UpdateProfile`: read, save | shares users with donations | whole-row save of a stale row |
| registration and login, `service/service_auth.go` | users, organizations | `Register`, `Login`, tokens | feeds organizations and the browser session | check, then insert; two inserts, no transaction |
| organizations and publishing, `service/service_admin.go`, `service/service_project.go` | organizations, admin_reviews, projects, project_updates | `ReviewOrganization`, `Create`, `CreateUpdate` | needs accounts, feeds projects | status checked, then used |
| rate limiter, `middleware/middleware_rate_limit.go` | buckets in memory | one middleware, around register and login | none | clock read before the mutex, removal of expired buckets |
| database access, `database/`, `repository/`, `model/` | the tables, the connection pool | queries, `Save`, transactions | all services | pool size, row locks, deadlocks |
| queries and ranking, `service/service_project.go`, `service/service_ranking.go` | none | lists, progress, rankings, certificates | reads all tables | page size zero, rounding |
| startup, `database/`, `config/`, `cmd/server/main.go` | seeded rows | connect with retries, migrate, seed, serve, shut down | creates what the others start from | a crash between two statements of seeding, literal ids |
| browser session, `frontend/src/context`, `frontend/src/api`, `Login`, `Register`, `App`, `Layout` | token and user, in each tab and in the storage all tabs share | login, logout, `/auth/me`, interceptors, guarded routes | all pages | late answers, abandoned forms, other tabs |
| donation dialog, `frontend/src/components/DonationModal.tsx`, `pages/ProjectDetail.tsx` | the project shown, form, loading flags | load, open, confirm, close, hear | donations | time limit of ten seconds, answers out of order, a dialog that outlives its project |
| pages, `frontend/src/pages` | lists, pager, review desk, forms | mount, load, turn pages, review, publish | all queries, reviews, publishing | several loads at once, answers out of order, lost totals |
| router, CORS, logging, health, API docs, cards and footers | none | plumbing | | nothing to model |

What makes each component correct:

- *Donations.* No project or user shows more money than its donation rows account
  for; money reaches only projects that were approved; a completed project has its
  target; the three writes of a donation happen together or not at all; every
  request ends.
- *Reviews and profile updates.* They leave amounts alone; a decision stands until
  the next one and has a record.
- *Onboarding.* One account per name, in whatever role; a success that was answered is
  complete; only approved organizations publish; an organization's account has its organization.
- *Rate limiter.* Refusals have a reason, quotas are not exceeded, windows are not
  reopened early.
- *Startup.* Whatever is left behind by a start that died, the next one gets through;
  a server that answers has its administrator; demo rows belong together.
- *Session.* A tab shows the session in storage, and the account it acts for.
- *Dialog.* A gift is recorded once at most, for the project and amount the donor
  had on the screen; thanks are for recorded gifts; every donor is answered.
- *Pages.* Spinners and dead buttons have a reason and end. When the newest answer is the
  one on the screen, it is for what was chosen and offers nothing that was decided; a
  pager whose answers came in order and were not lost leads to pages that exist. An older
  answer that comes last does replace the newer one: nothing in the pages prevents it.

The hazards, each at its line, are in `PROJECT.json`.

## 2. Modules

| module | models | role |
|---|---|---|
| `Database` | tables, connections, row locks, life of a request | shared by the three services |
| `DonationService` | `DonationService.Create` | component |
| `ProjectReview` | `AdminService.ReviewProject` | component |
| `ProfileUpdate` | `AuthService.UpdateProfile` | component |
| `Ledger` | the three services side by side | composition, fairness, properties |
| `AtomicLedger` | what `Create`'s comment promises | abstract specification |
| `SharedLedger` | what is kept of it when requests overlap | abstract specification |
| `LedgerProofs` | | proofs |
| `Onboarding` | `Register`, `ReviewOrganization`, `Create`, `CreateUpdate` | component |
| `Registry` | what all statements of `Onboarding` amount to | abstract specification |
| `OnboardingProofs` | | proofs |
| `RateLimiter` | `RateLimit` | component |
| `RateLimiterProofs` | | proofs |
| `Startup` | `Connect`, `Seed`, `main`, over all lives of the process | component |
| `StartupProofs` | | proofs |
| `Session` | `AuthContext`, the axios interceptors, the two forms, routes and links | component |
| `SessionProofs` | | proofs |
| `Giving` | what the dialog owes a donor | abstract specification |
| `ProjectPage` | `ProjectDetail` with `DonationModal`, the network and the server | composition of page, dialog and server |
| `ProjectPageProofs` | | proofs |
| `Paging` | `NormalizePage` for page numbers, `OFFSET` and `LIMIT`, the number of pages | operators |
| `PagingProofs` | | proofs |
| `Views` | mounting, loads and posts, shared by the pages | component |
| `ProjectList`, `ReviewDesk`, `PublishForms` | `Projects`; `Admin`; `CreateProject` and `CreateUpdate` | components |
| `Pages` | all pages that load lists or send forms | composition, fairness, properties |
| `PagesProofs` | | proofs |
| `MCLedger`, `MCOnboarding`, `MCRateLimiter`, `MCStartup`, `MCSession`, `MCProjectPage`, `MCPages` | | instances for TLC |

### The ledger

A request is a goroutine. `pc[r]` names the last statement it has completed:

    donate -> projectRead -> donationInserted -> projectSaved -> userSaved -> committed
    review -> reviewRead -> reviewSaved -> reviewRecorded
    profile -> profileRead -> profileSaved

`reply[r]` is what its client sees, once; a broken connection counts as an error.
Each statement is one action, because between any two of them other requests run.
What a transaction has written but not committed is visible to itself only, so
`Commit` applies the three writes at once. The donations table is kept as two sums,
`raised` by project and `given` by user; columns the money and the status do not
depend on are left out, a profile is one opaque value, and amounts are integers.

- *Reads.* `Create` runs plain SELECTs under REPEATABLE READ: the first one fixes
  the snapshot, so `BeginDonation` takes the project and the donor row at once.
  gorm's `Save` writes every column back, hence `CreditedProject` and `CreditedUser`
  are computed from the rows that were *seen*.
- *Locks.* Inserting a donation takes shared locks on its parent rows (foreign
  keys), saving a row an exclusive one, and saving a project also locks its
  owner's row, which gorm upserts along with the preloaded association. Which locks
  a request holds follows from its stage. Waits of requests for each other are
  possible and happen (`Blocked`); InnoDB ends them with an error, which is `Fail`.
- *Pool.* An open transaction keeps a connection. A donation needs a free one to
  begin (`FreeConnection`); a statement outside a transaction is one action and
  never keeps one.
- *Failure.* `Fail` may hit any request between any two statements: lost connection,
  deadlock victim, lost acknowledgement. An open transaction is rolled back;
  statements that ran on their own stay. `Crash` does that to all requests at
  once; clients do not repeat requests here (a repeated one is another request).
- `contestedProjects` and `contestedUsers` are history: rows that a request read
  while another one was between reading and writing them back.

There are two abstract ledgers. `AtomicLedger` is the comment of `Create`: a donation is
one step. Overlapping requests do not keep it, one connection restores it.
`SharedLedger` is what they do keep, with reviews and profile updates: a writer goes by
an amount out of `AmountsFor` and a row out of `RowsFor`, which is the row itself as long
as nobody contested it, and else anything between the seeded amount and that plus what
was donated by now. A donation to an uncontested project needs it approved at the commit.

### Onboarding

Every statement is on its own here: nothing is rolled back. A row is named by the request
that inserted it. A token is modelled as the role of an existing account, since login only
reads. `Roles` is any set of strings: the handler takes the role from the request as it is,
nothing evaluates the `oneof=user org` of `RegisterInput` (`service_auth.go` 46), and
`Register` stores what it is given (an empty one as `user`) and adds an organization for
`org` alone. So an administrator, wherever these modules speak of one, is whoever holds the
role `admin`: the seeded account, which is always there, or a registered one. They may
review any organization at any time and any number of times, as the code lets them; reviews
are therefore unconstrained by the accounts of the instance. Passwords, profile fields and
project contents are left out. The seeded rows are left out as well: none of the operations
combines them with the rows of the instance, except for the names, and the usernames of the
instances are not seeded ones. `Register` inserts the user and then the organization,
outside a transaction (`service_auth.go` 86): when the second insert fails the caller gets
an error, and an account of role `org` is left that has no organization and can neither
publish nor register again. `SuccessMeansDone` is about answers of success only, and so
holds in spite of it.

`Registry` forgets requests and answers: who is a member, which organizations there are
and what was decided on them, who may still publish, what has been published. Each
statement is one of its steps or changes nothing it knows. What connects an early
statement with a late one is the `permit`: it is given to an approved organization when
`Create` reads it, outlives a rejection, and is used up by the insert or ends with the
request. Nothing in the registry ever disappears except permits.

### Rate limiter

`Stamp` reads the clock, `Handle` is the whole section under the mutex with the
answer it decides, `Tick` lets time pass. `lastStart` and `handledAt` are history.
The middleware is instantiated twice, for register and for login; the route is
part of the key, so one instance with several keys stands for both. Buckets live
in memory: a restart, or a second replica, starts with full quotas, and the
properties speak of one life of one process.

`MaxDelay` bounds how long a request waits between the clock and the mutex. It is an
assumption about the scheduler, not something the code enforces: `WindowsApart` and
`BurstIsBounded` are stated relative to it and say nothing once it reaches the
window. `RefusalsAreJust` does not depend on it.

### Startup

One process at a time goes through `connecting`, `migrating`, `seeding`, `serving` and
`draining`, and is `down` in between. `SeedRows` are the nineteen rows of `Seed` in
their order, `next` the one it comes to. Its two parts are guarded by the count of
administrators and of organization accounts; nothing but Seed writes while it runs,
so the count and the first insert are one action. A failed insert leaves nothing, or
uses up an id, or has stored the row and lost the acknowledgement (`Outcome`); every
error ends the process, and every end is followed by a `Start`. Donations and updates
name their projects by the literals 1 to 3, so the ids projects get are part of the
model, all others are not. `Register` and `Publish` are what requests do to the rows
that Seed looks at; a registration may have any role, `user` standing for all that Seed
does not count. `StartupAssumption` says that the number of retries is not
negative: with a negative one the loop of `Connect` never runs and the process dies
on a nil handle at every start.

After a crash in the second part of Seed the next start finds an organization account
and skips the rest for good: the server runs without some of the demo accounts that
the README of the repository lists (`interrupted`). What remains true is what
`ServesPrepared` says.

### Browser session

Each tab has React state (`token`, `user`), all share `localStorage` (`storage`),
written together. A user is cut down to whose account it is (`id`) and whose name and
role it shows (`face`), because `/auth/me` overwrites the one and not the other. A
request carries the token that was stored when it was sent; a request of a form lives
on when the form is left, and its `login` and `navigate` run on whatever page the tab
shows then (`SignedIn`, `live`). `Rejected` is the interceptor: storage is emptied and
the document loaded anew, which ends every script of the tab. `Landing` holds the
redirects of pages for visitors they are not for. `drifted` and `blended` are history:
tabs whose storage another tab has changed, and a `/auth/me` answered in another
session than it was sent in. Outside these two cases the two copies agree and belong
to the account that the server will see; inside them the code shows one account and
acts for another, and nothing listens to `storage` events.

### Donation page

`ProjectPage` is the page of a project, its dialog, and a server that records or
refuses: `Record` and `Refuse` stand for the committed and the rejected donation of
`DonationService`, in one step each. An answer for a project lists its newest donations
only, 20 of them (`ListLimit`, `service_project.go` 64), in the order of `created_at`. `above`
counts, up to that limit, the donations that come before a gift in this order; `OthersDonate`
is any other donor's, so a gift can be pushed off the list at any time. `created_at` is set
before the transaction commits, so a gift may find newer ones above it when it is recorded,
and come above some older ones only (`Above`); that rows of the same time keep their order
is assumed. Whether an answer calls the project completed is up to all donors and the
reviews: any answer may (`ShowLoad`). The page stays mounted when the browser's history
leads from one project to another; the dialog stays mounted while closed, and
`onSuccess` is `loadProject` as it was when the dialog was confirmed (`reload`). Answers
to loads are served and shown separately, so that they may overtake each other and be
old when shown. `HearFailure` is also the time limit and the lost answer: the gift may
be recorded before or after it. `KeepsPromise` maps `asked` and `recorded` to the
variables of `Giving`, where `wish` is what the donor *saw*.

### Pages

`Views` numbers the loads of the mounted page; a load of several requests is complete
when all its parts (`PartsOf`) are answered, as with `Promise.all`. `shown` keeps the number of the
load it came from, whichever answer came last. `ProjectList` adds categories and the
pager, `ReviewDesk` the two lists of pending items with buttons that are never
disabled, `PublishForms` the two forms. Leaving a page forgets its state and its
interest in answers, but not its posts: the success of a form that was left still
takes the author to another page. `straight` and `done` are history.

How many pages a category has, and which of its rows a page shows, is what the server
computes: `PagesOf` and `RowsOf` apply the operators of `Paging` to the number of `Matches`
and to the `Limit` that the list sends. The handlers of lists replace the page size that
`NormalizePage` has bounded by the `limit` parameter as it is (`handler_project.go` 24,
`handler_donation.go` 47); the client always sends one (6, 12 or 20), so `Limit` is the
size, whatever its value above zero, and `page_size` is left out. `Paging` numbers the rows
in the order of the query; that the order is the same for each page, and that no project
comes or goes meanwhile, is assumed there (`created_at` alone does not order rows of one
second).

## 3. Runs

| run | instance | shows |
|---|---|---|
| `open` | 3 requests, an approved and a pending project, 2 users, 2 connections | `TypeOK`, `NoMoneyBeforeApproval`, `NoPhantomMoney`, `CompletedIsFunded`, `UncontestedBooksBalance`; `KeepsSharedLedger`: the three services implement `SharedLedger` |
| `serial` | 3 donations by 2 users to 1 project, 1 connection | `KeepsPromise`: the ledger implements `AtomicLedger`; `EveryRequestEnds`, through waits for the pool |
| `live` | 2 requests of any kind, 2 projects of different owners, 2 users, 2 connections | `EveryRequestEnds`, through waits for locks and deadlocks |
| `publish` | 4 requests, 1 username, 2 emails, 3 roles | `TypeOK`, `OneAccountPerName`, `SuccessMeansDone`, `PublishedByApprovedOrg`; `KeepsRegistry`: the statements implement `Registry` |
| `quotas` | 5 requests, 2 keys, limit 1, window 4, cap 2, delay 1 | `TypeOK`, `RefusalsAreJust`, `WindowsApart`, `BurstIsBounded` |
| `startup` | 4 faults, 1 retry, 2 newcomers, 6 project ids | `TypeOK`, `DemoRowsMeetTheirProjects`, `ServesPrepared`, `ServiceReturns` |
| `session` | 2 tabs, 2 accounts, 2 tokens, 2 requests, 4 routes | `TypeOK`, `TabInStep`, `ActsAsShown`, `ButtonWaits` |
| `giving` | 2 projects, 2 gifts, amounts 0 and 10, 3 loads, lists of 1 donation | `TypeOK`, `OneGiftAtATime`, `DonorSeesGift`, `KeepsPromise`: page and server implement `Giving`; `DonorsAreAnswered`, `SpinnerEnds` |
| `pages` | 1 item, categories of 3 and 2 projects with 2 on a page, 2 posts, 3 loads | `TypeOK`, `SpinnerIsJustified`, `ListIsTheOneChosen`, `PageExists`, `DecidedIsNotOffered`, `FormWaits`, `SpinnersStop`, `FormsReturn` |

*Bounds.* Two requests suffice for every overlap of a donation with another operation; the
third lets a stale row be written after two others and lets a review come between. Targets
are 2 and amounts 0 to 2, so a project is completed by one donation or by two, exactly or
with too much, and an invalid amount arrives too. In `publish`, the third role, `admin`,
stands for all that are neither `user` nor `org`, and four requests are the registration,
review, publication and update of one organization, or two registrations that race for a
name and two reviews that contradict each other. An author who reports on the project of
another organization would be a fifth request: that `Owns` stops it is in the theorem
`RegistryKept`, not in the run. In `quotas`, two keys fill the table (cap 2, in place of
4096), so expired buckets are removed while an older stamp waits; with a limit of 1 the
third request of a stretch would exceed two quotas, and five requests leave room for an
earlier window and for another key. The clock stops at 6, a window and a half. In `startup`,
four faults are an outage, a failed insert and two crashes or signals, in any order;
`MaxProjects` leaves room for published projects after those of a partial seeding. In
`session`, a second tab is what makes storage shared, a second token lets a late answer meet
a newer session, and the second request overtakes the first. In `giving`, three loads are
the first one, the reload after a donation and one more that overtakes it, from another
project or not; a success is heard only while a load number is left, for it reloads the
page, while `HearFailure` is always possible, so fairness never relies on the bound. With
lists of one donation any donation made after a gift pushes it off, another donor's or the
second gift. In `pages`, categories of different length, one of them ending in a full page,
make a stale total wrong, and three loads are one page, another one and a reload.
`SmallListsPaged`, an assumption of `MCPages` that TLC evaluates, compares the operators of
`Paging` with what paging is for on lists of up to nine rows. `SYMMETRY` is used in runs of
invariants and action properties only.

*Deadlock checking* is off in all runs: every request is sent once, clocks, loads,
tokens and faults are bounded, so behaviours end.

### What the documentation says and the code does not

Each of these runs checks one statement of a document or a comment, and TLC shows
an interleaving that breaks it; `findings` in `PROJECT.json` quotes the lines.

| run | property | what happens |
|---|---|---|
| `books` | `BooksBalance` | two overlapping donations: one is recorded but missing from the amounts |
| `rejection` | `RejectedUntilApproved` | a donation in flight undoes a rejection |
| `profile` | `ProfilesKeepTotals` | a profile update undoes the total of a donation |

The passing runs say what remains true in spite of them (`KeepsSharedLedger`): money is only ever lost
from the sums, never invented (`NoPhantomMoney`), and only where rows were
contested (`UncontestedBooksBalance`); completed projects have their target; a
pool of one connection restores the promise (`KeepsPromise`).

### Fairness

`Fairness` is weak fairness of each request's own steps and of the end of a blocked
request's wait. A goroutine that can run is run by the Go scheduler; the pool
serves waiters in order; InnoDB reports a deadlock or ends the wait at
`innodb_lock_wait_timeout`. Nobody is obliged to send a request, and no failure
other than the end of a lock wait has to happen. A request that waits for the
pool can be continuously enabled only when connections come free for good, which
holds because requests are finitely many.

In the browser only answers are fair (`ProjectPage`, `Pages`): axios gives up after ten
seconds, so each request ends in success or failure, and the continuation of a promise
runs. No click, no server answer and no navigation has to happen. `DonorsAreAnswered`
speaks of donors who stay on the page; who leaves it is told by an alert or not at all.

In `Startup` a running process takes its next step, `restart: unless-stopped` starts an
ended one (after a stop on purpose, an operator does), and the database comes back.
Faults are finitely many, the number is a bound of the run.

## 4. Proofs

All hold for every set of requests, users, projects, names, roles, keys, tabs, tokens, routes
and items, every amount, target, limit and window, and any number of loads, posts,
retries, faults and lives of the process, and lists of any length above zero.
The only assumptions are those on constants: `RequestsAssumption`, `MoneyAssumption`,
`SeedAssumption` and `PoolAssumption` (`Database`): finitely many requests, targets above
zero, well-formed initial rows with completed projects funded, at least one
connection; `LimiterAssumption` (`RateLimiter`): integer settings; `StartupAssumption`
(`Startup`): counts that are not negative; `RoutesAssumption` and
`AccountsAssumption` (`Session`), `PageAssumption` (`ProjectPage`) and `ViewsAssumption`
(`Views`): constants have their types, finite sets are finite, lists ask for at least one
row; and in the last three
`NoneAssumption`: the value for "nothing" is none of the values it stands in for.

| theorem | states |
|---|---|
| `LedgerProofs!Typing` | `[]TypeOK` |
| `LedgerProofs!PhantomFree` | `[]NoPhantomMoney` |
| `LedgerProofs!CompletedFunded` | `[]CompletedIsFunded` |
| `LedgerProofs!ApprovalFirst` | `[]NoMoneyBeforeApproval` |
| `LedgerProofs!UncontestedBooks` | `[]UncontestedBooksBalance` |
| `LedgerProofs!ServicesKeepSharedLedger` | `KeepsSharedLedger`: the services implement `SharedLedger` |
| `LedgerProofs!OneConnectionKeepsPromise` | `PoolSize = 1`: `DonationSpec => KeepsPromise` |
| `LedgerProofs!OneConnectionBalances` | `PoolSize = 1`: `DonationSpec => []BooksBalance` |
| `OnboardingProofs!Typing` | `[]TypeOK` |
| `OnboardingProofs!UniqueNames` | `[]OneAccountPerName` |
| `OnboardingProofs!HonestAnswers` | `[]SuccessMeansDone` |
| `OnboardingProofs!ApprovedPublishers` | `[]PublishedByApprovedOrg` |
| `OnboardingProofs!RegistryKept` | `KeepsRegistry`: the statements implement `Registry` |
| `RateLimiterProofs!Typing` | `[]TypeOK` |
| `RateLimiterProofs!SpacedWindows` | `WindowsApart` |
| `RateLimiterProofs!JustRefusals` | `[]RefusalsAreJust` |
| `RateLimiterProofs!BoundedBursts` | `[]BurstIsBounded` |
| `ProjectPageProofs!Typing` | `[]TypeOK` |
| `ProjectPageProofs!OneGift` | `[]OneGiftAtATime` |
| `ProjectPageProofs!GiftsAreSeen` | `[]DonorSeesGift` |
| `ProjectPageProofs!PageKeepsPromise` | `KeepsPromise`: the page implements `Giving` |
| `SessionProofs!Typing` | `[]TypeOK` |
| `SessionProofs!TabsInStep` | `[]TabInStep` |
| `SessionProofs!ActingAsShown` | `[]ActsAsShown` |
| `SessionProofs!ButtonsWait` | `[]ButtonWaits` |
| `PagesProofs!Typing` | `[]TypeOK` |
| `PagesProofs!SpinnersAreJustified` | `[]SpinnerIsJustified` |
| `PagesProofs!ListIsChosen` | `[]ListIsTheOneChosen` |
| `PagesProofs!PagesExist` | `[]PageExists` |
| `PagesProofs!DecidedAreGone` | `[]DecidedIsNotOffered` |
| `PagesProofs!FormsWait` | `[]FormWaits` |
| `PagingProofs!RowsAreOnOnePage` | `EachRowOnce`, for every number of rows and every size |
| `PagingProofs!AnnouncedPagesHaveRows` | `PagesHaveRows`: a page is announced exactly if it has rows |
| `PagingProofs!AnnouncedPagesAreFull` | `PagesAreFull`: all but the last |
| `StartupProofs!Typing` | `[]TypeOK` |
| `StartupProofs!DemoRowsMeet` | `[]DemoRowsMeetTheirProjects` |
| `StartupProofs!ServesWhenPrepared` | `[]ServesPrepared` |

*Ledger.* `StepKinds` sorts the actions of `Next` into nine kinds, and `RowSteps`
tells quiet steps from those that write a row, so that each invariant is proved
against few cases. None of the properties is inductive:

- `PhantomInv` adds that no request has *seen* more money than is accounted for now
  (donation rows only grow), nor less than the row was seeded with, which is why
  writing back a stale row invents none.
- `StatusInv` adds that a row seen as completed was funded and that a project seen
  as approved was approved by somebody, so stale statuses do no harm either.
- `BooksInv` adds that the row seen by the only holder of an uncontested row is
  the row itself.
- `ServicesKeepSharedLedger` combines them at the three statements that write: what a
  holder has seen is an amount of `AmountsFor` and a row of `RowsFor`, by `BooksInv` where
  the row is uncontested and by `PhantomInv` where it is not (`HeldAmounts`, `HeldRows`);
  `StatusInv` gives the status. Every other step leaves the tables alone and at most
  contests rows.
- `SerialInv`, for one connection: at most one transaction is open, and what it
  has seen is still the table. Its commit then is the abstract `GiveTo`, and
  every other step a stutter; and since atomic gifts keep the books (`GiftsBalance`),
  so do donations through one connection.

*Onboarding.* `IInv` ties the stage of each request to the rows it has inserted and
found, an organization's status to a review that decided it, and the right to
publish to an earlier approval. For `RegistryKept` that is not enough: an
update is inserted long after its author was found to own the project. `OwnersPost` adds
that a request which has passed the check still passes it, because organizations,
projects and the calls that name them stay (`CallsStay`). The parts of the mapping are
then views (`Members`, `StatusTable`, `Permitted`, ...), and each kind of statement is
shown to move one of them the way the registry does and to leave the others alone.

*Rate limiter.* `WindowInv`: a missing bucket means that its window is over *now*,
so the next window, whose stamp is at most `MaxDelay` old, starts late enough.
`QuotaInv`: a bucket's count, up to the limit, is backed by requests let through
since its start. `SplitInv`, for `BoundedBursts`, divides the requests of a key into those
of the latest window and those before: the former are at most one quota, and a
stretch of time that reaches the opening of the latest window is too short to touch
more than one quota of the latter.

*Donation page.* `Numbered` orders the loads, `Dealt` says how far each gift has come
(what is awaited was asked and not answered, who was thanked was recorded), and
`Fresh` that the answer to the latest load, on its way or still to be given, has every
gift the donor was thanked for, except those that have `ListLimit` newer ones above them:
the reload is sent after the success is heard, and what has left the list does not
return (`MovedDown`).
The steps of the page then are those of `Giving` or stutters.

*Session.* `Backed`: every token, stored, shown or travelling, was issued and has a user
beside it. `Genuine`: unless sessions were blended, that user is the account the token
was issued to, in both copies. `Placed`: only the page of a form is submitting. With
these, `TabInStep` and `ButtonWaits` are preserved by every way a request can end.

*Pages.* How pages are cut rests on two facts about `\div` (`DivisionBounds`) and one
about products (`ProductsApart`): a page ends where the next begins (`OffsetsApart`), and
row `i` lies on page `(i - 1) \div size + 1` (`PageOfRow`). `PagesExist` uses them to know
that a page within the announced ones shows a list, not the empty state.

`Posted` ties a post to the page that sent it and a settled review to its item,
`TotalsFit` the pager's total to the chosen category, `Fresh` the latest load to the
decisions that were announced before it was sent.

*Startup.* The rows of Seed are a constant of nineteen entries, and the facts used of
them (table, role, id, name) are lemmas that expand the list. The properties alone do
not survive an insert: `Untouched` adds that as long as no organization account is
stored no id has been used up, since the second part of Seed begins with one and
visitors come after it; `AdminFirst` that the seeded administrator is there before any
other account of that role; `Halfway` then counts, while the second part runs, exactly
which ids the projects have got, so that the literals 1 to 3 meet them; `Complete`
says that an organization account stored by an uninterrupted Seed comes with all
other rows. TLC finds the invariant `Inv` true of the instance of run `startup`.

*Model-checked only.* Liveness (`EveryRequestEnds`, `DonorsAreAnswered`, `SpinnerEnds`,
`SpinnersStop`, `FormsReturn`, `ServiceReturns`) needs fairness and `ENABLED`, which the
prover does not handle.

## 5. Not modelled

- Password hashing and the contents of tokens; request ids, logging, CORS, recovery,
  health, API docs, cards and footers: no state, or state that nothing else reads.
- Queries, rankings, statistics, certificates: read-only. Of the queries only how lists are
  cut into pages is modelled, and the newest donations of a project. The order of the rows is
  taken as fixed, limits of zero (a division by zero in `List`) or below, which the client
  never sends, are excluded by `ViewsAssumption`, and the progress of a
  project is a product of binary fractions.
- Rounding: amounts are integers, and `decimal(14,2)` of `float64` sums is out of reach.
- In the browser: a write of the two storage keys is one step, as scripts of one
  origin do not interleave within a handler; answers to loads of a page that was left
  are dropped, since nothing shows them; the active tab of a page, the certificate's
  alert, `updateUser` (never called), payment method, anonymity and message of a
  donation, and the images of an update (`CreateUpdate.tsx` 51 sends an array, the handler
  binds a string and refuses it) are left out.
- The record of a project's review may never be inserted when the statement after
  the save fails (`service_admin.go` 46). `ProjectReview` has that failure; no property
  asks for the record, which nothing in the code would restore.
- A statement of a dead process that the database still executes after the next
  start has begun to count; other replicas of the server, whose requests the database
  would treat like those of one server, each with a pool and a limiter of its own.

## 6. Plan

Done, in order of importance: the ledger and its abstract specification, onboarding,
the rate limiter, the browser session, the donation page and its abstract
specification, the pages, startup; the shared ledger, the registry and paging; proofs of
all but the liveness properties. What
could follow:

1. Publication composed with the ledger: projects that come into being, and are
   updated by their organizations, while donations run.
2. The donation page in front of the ledger instead of one atomic step.
3. Abstract specifications of the session and of startup (each account is prepared
   once), and their refinement.
