# Verification project of AI Academy (Go API)

This directory holds TLA+ specifications of the Go API in `src/apps/api-go`, the
TLC runs that check them on small instances and the TLAPS proofs of what holds
for every size.  The specifications are translated from the Go code; comments
and documents are used only as statements of intent that a run may contradict.

## 1. The system

AI Academy sells and serves online courses.  A React client (`src/apps/web`)
talks to a Go server (`src/apps/api-go`), a port of an older NestJS server
(`src/apps/api`), over REST.  The Go server is stateless apart from MySQL: each
HTTP request runs in its own goroutine, calls one service method, and that
method issues one SQL statement after another through `database/sql`.  Only
five operations open a transaction (reset link replacement and consumption,
team creation, two instructor list updates).  The program's concurrency is
therefore between the *statements* of different requests, and a crash or an
error between two statements leaves the first one done.

| Component | State it keeps | Operations that change it | What is hard |
|---|---|---|---|
| Orders, refunds (`internal/orders`) | `orders`, `enrollments` rows | Create (free path, paid path), MockPay, Cancel, RefundOrder | status read first and acted on later; payment, enrollment and revocation are separate statements; unconditional refund UPDATE |
| Free enrollment (`internal/enrollments`), grants (`internal/users`) | `enrollments` | EnrollFreeCourse, GrantCourseAccess, GrantDegreeAccess | same SELECT-then-write upsert on the same rows |
| Sessions (`internal/auth`) | `refresh_tokens`, `password_reset_tokens`, `users.password_hash` | login, refresh with rotation, logout, password change and reset, disable | rotation races, reuse detection, a reset link consumed once, revocation against requests in flight |
| External identities (`internal/auth`) | `user_provider_accounts`, OAuth and SAML state in Redis | register, authenticate, link, unlink | one-shot state, two first logins of one account, a user and its first account inserted by two statements |
| Accounts (`internal/users`) | `users` | Create, Update, Disable, Restore, UnlinkIdentity | last administrator and last identity are counted before the write; whole-row updates; roles in tokens outlive roles in rows |
| Hackathons (`internal/hackathons`) | registrations, teams, members, submissions | Register, CreateTeam, JoinTeam, LeaveTeam, submissions, judging | capacity and one team per user are checks without keys; whole-row submission updates by author and judge |
| Catalog (`internal/courses`, `chapters`, `lessons`, `resources`, `degrees`, `instructors`) | content rows and their order | CRUD, Reorder, link lists | reorderings row by row; order index drawn from a MAX read earlier |
| Certificates | `certificates` | Issue, Revoke | idempotency by SELECT, serial from a lexicographic maximum |
| Progress, practices, badges, points | `progress_records`, `practice_completions`, `user_badges` | CompleteLesson, Start/Complete/Skip, CheckAndAward | upserts, fire-and-forget goroutines |
| Uploads | objects and the owning rows' URL columns | Sign, Put, Complete | completion of something signed earlier |
| Notifications, audit, reviews, notes, events, enterprise, CMS, site, AI, chat, URL import | rows of one table each | one-row CRUD | little: last write wins |
| HTTP layer, configuration, generated code, web client, NestJS API | none of their own | - | not modelled: routing, rendering, generated or superseded |

Components call each other in three ways: through shared tables (orders, free
enrollment and grants all write `enrollments`), through package-level hooks
that `cmd/server/main.go` wires at start (`IssueCertificateOnPaid`,
`NotifyOrderCreated`, `SetRefundNotifier`, the badge hooks), and through the
user's role and `deleted_at` that every component reads.

### What makes each component correct

* Orders: an order is settled once; paid means access; refunded means no
  access; nobody gets access they or an administrator did not pay for or grant;
  the audit log does not contradict the rows.
* Sessions: a refresh token is good for one successor; a reset link changes one
  password; a revocation reaches every session; a user has one live reset link.
* Identities: a user has one primary account and always a way to sign in; an
  authorization state is good for one callback of the flow and user it was made
  for.
* Accounts: there is always an active administrator; an edit never undoes
  another one.
* Hackathons: teams respect their size and a user has one team; a score is not
  lost; what is deleted leaves nothing behind.
* Certificates: one certificate per (user, item), unique serials without gaps,
  a revocation happens once.
* Learning: badges are given when and only when they were earned; work in a
  project needs access and is not lost.
* Catalog: reordering changes the order only.

Where a rule is checked in one statement and written in a later one, "nobody
breaks it" is false in this code, and the properties say exactly when: the rule
holds except for what was written by a request that another one had overtaken
between its check and its write.  `missed`, `raced` and `overtaken` are the
history variables that record it.  A mistake in a guard, in an order of steps or
in a key shows as a violation without an overtaking.

## 2. The modules

| Module | Role |
|---|---|
| `OrderLedger` | what orders promise: `none -> pending -> paid -> refunded`, `pending -> expired` |
| `OrderFlow` | the handlers of orders, free enrollment and grants, statement by statement; refines `OrderLedger` |
| `MCOrderFlow` | a catalog, users and orders for TLC |
| `OrderFlowProofs` | theorems about `OrderFlow` for every value of the constants |
| `AuthSessions` | login, refresh rotation, logout, reset links and the account operations that end sessions |
| `MCAuthSessions` | symmetry of requests and tokens for TLC |
| `AuthSessionsProofs` | theorems about `AuthSessions` |
| `HackathonTeams`, `MCHackathonTeams` | one hackathon: registrations, teams, members, submissions and judging |
| `HackathonTeamsProofs` | theorems about `HackathonTeams` |
| `Identities`, `MCIdentities` | how a person reaches a user row: registration, sign-in, linking, unlinking |
| `IdentitiesProofs` | theorems about `Identities` |
| `UserAdmin`, `MCUserAdmin` | the administration of users, with roles in tokens |
| `UserAdminProofs` | theorems about `UserAdmin` |
| `Certificates`, `MCCertificates` | issuing and revoking certificates |
| `CertificatesProofs` | theorems about `Certificates` |
| `Learning`, `MCLearning` | badges, practice projects and what they take from enrollments |
| `LearningProofs` | theorems about `Learning` |

Each module holds the rows that its own rules relate.  Where two modules meet in
a table (the `users` row, `enrollments`, `certificates`), each one takes from
the other what may happen to the row at any time, as actions of its own:
`Disable` in `AuthSessions` and `Identities`, `EnrollPaid` and `Unenroll` in
`Learning`, the repeated issues in `Certificates`.  That is more than the other
module ever does, so safety carries over and no product of modules is explored.
`OrderFlow` composes the three packages that write `enrollments`.

### OrderFlow

State and code: `status` is `orders.status` (`"none"` before the INSERT, the
soft delete and the unused `failed` are never written); `enrolled` is the
`enrollments` row of a (user, item), its `source` column and whether
`deleted_at` is NULL; `study` abstracts `progress_records` to what `checkRefund`
tells apart; `late` are the orders paid seven days ago or more; `audit`,
`notices` and `certified` are what the handlers emit; `req` are the handlers in
flight and what each of them knows; `faults` bounds failures.

A handler is a record in `req` with a program counter.  Its first action
(`CreateBegin`, `PayBegin`, `CancelBegin`, `RefundBegin`, `EnrollFree`, `Grant`)
is the read that decides, the next ones are its statements in the order of the
code, and the last one (`Finish...`) is its tail: the audit row and the hooks.
A read and the write after it are separate actions exactly when another
handler can make a difference between them: the pending check and MarkPaid, the
paid check and MarkRefunded, the SELECT and the INSERT or UPDATE of an upsert.
`UpsertConflict` is the duplicate-key error that `schema.sql`'s unique keys
raise; `enrollAllDegreeCourses` discards it, every other caller returns it.
`Abort` is a statement that fails or a process that dies, at any point;
`SwallowError` is a failure that the code logs and goes on from.
`CompleteLessons` is the progress service, which asks for no enrollment, and
`RefundWindowCloses` is time.  A grant of several courses is several grants. 
The tail is one action: an audit insert that fails alone (it is logged) is not
told apart from one that succeeds, and a certificate or a notification is
counted as issued when the hook is called.

| Run | Bounds | What it shows |
|---|---|---|
| `order_siblings` | 1 user, 1 course, 2 orders of it, 2 requests, no faults, fair | every interleaving of two handlers on two orders of one item: the ledger refinement, one winning payment, no stale read that matters, a truthful audit log and truthful notices, and that access comes after a payment, also after an earlier refund |
| `order_degree` | a degree with a course, an order of each, 2 requests, 1 fault | upserts and revocations of different sources meet on one row, with a failure at every point of every handler: well-formed rows, access that goes back to a payment, and a settled payment that has its access |
| `order_free` | a free degree and a charity course, 2 requests, 1 fault | the free path, grants and free enrollment |
| `order_refund_race` | violation | `RefundRevokesAccess`: a payment's enrollment after the refund's revocation |

Why the bounds are enough: every race here is between two handlers on one row;
that a third one changes nothing is proved for every safety property (below),
and buyers share no row.  Two orders of
one item are what a repurchase or a double click creates.  `MaxFaults = 1` puts
a fault at every point; a second one only repeats it.  No run of the project
turns deadlock checking off: a request can always arrive.

A refund revokes by (user, item, source) and cannot tell which order paid for
the row.  `PaidOrderHasAccess` therefore excepts users with a refunded order
of the same item or of a degree that contains it (`RefundReaches`): there the
code really takes away access that another paid order stands behind.

Fairness: `WF` on the steps of each request once it has begun, because the Go
runtime keeps scheduling a goroutine and a statement returns or fails.  No
fairness for arrivals, faults, learners or time.

### Proofs about OrderFlow

`OrderFlowProofs` proves, for any sets of users, courses, degrees, orders and
request slots and any number of faults: `TypeCorrect`, `StaleReads`,
`LedgerRefinement`, `OnePayment`, `AuditTruth`, `AccessPaid`, `PaidOpens`.  They
assume only the named assumptions of `OrderFlow` on its constants.

The inductive invariant is `Inv == TypeOK /\ OwnOrders /\ PcFitAll /\
StaleReadsHold`.  `StaleReadsHold` is not inductive alone: that a refund in
flight finds its order paid or refunded needs that its program counter is one a
refund can have (`PcFitAll`), and that a handler's order belongs to its user and
item (`OwnOrders`) is what ties the row it changes to the row it read.  From
`Inv` the ledger refinement is a case analysis of `Next`: the only three
actions that change `status` find it as the ledger demands.  `AuditTruth` adds
`AuditOrders` (audit rows name real orders) and uses that the three endings are
stable; `AccessPaid` adds `Purposes`, what the upsert in hand of each handler is
for, because a row's source is written long after the reason for it was read.

`PaidOpens` (`PaidOrderHasAccess`) rests on a second inductive invariant on top of
`Inv`, `OpenInv == Aims /\ RowsStay /\ PaidIsOpened`.  The property speaks only of
orders that nobody works on; `PaidIsOpened` also says who is going to open the
others: the payment that won and has not yet written its item.  That this payment
may give up when its INSERT meets a row another request wrote is sound because of
`RowsStay`: a row that exists is live, or a refund that reaches it is in the
ledger.  And that only such a refund can have revoked it needs `Aims`: the courses
that a refund goes on to are those of its degree.  The theorem covers the
concurrent first enrollments, grants and sibling payments of any number of
requests; it speaks of histories without a fault, because a fault between MarkPaid
and the upsert really leaves a paid order without access.

The two liveness properties (`PaymentOpensAccess`, `RepurchaseOpensAccess`) are
temporal, need `ENABLED`, and stay with TLC.

### AuthSessions

State and code: `active` is `users.deleted_at IS NULL`; `secret` counts the
passwords a user has had, standing for `password_hash`; `refresh` gives the user
of each row of `refresh_tokens`; `link` is the `password_reset_tokens` row of a
mailed link (`gone` once deleted); `expired` is time; `rowLock` holds the rows
that an open transaction has locked; `req` are the handlers in flight.  The
history variables record what the properties speak of: the login a token
descends from (`family`), the password that login was made with (`under`), the
tokens stored after their user or password had changed (`late`), and how often a
link changed a password (`spent`).

Every autocommitted statement is one action.  Within the two transactions the
points where another transaction can be met are separate actions: locking the
user, deleting (and so locking) the link rows, insert and commit; locking the
link, then everything that follows once the user's row is free.  Everything that
writes or references a locked row waits for it.  `DeadlockVictim` is InnoDB
rolling back one of two transactions that wait for each other; it and the lock
table are external to the Go code.  `Abort` is a failing statement, `Crash` the
end of the process; a fault has no effect of its own (a commit whose answer is
lost is not told apart from one that was answered).  A logout is one statement
and has no request slot.  The OAuth and SSO logins and the registration end in
the same `Issue` and are not repeated; rate limits, cookies and access tokens
(which are not stored) are left out.

| Run | Bounds | What it shows |
|---|---|---|
| `auth_rotation` | 1 user, 2 tokens, 1 link, 2 requests, 1 password change, 1 fault | concurrent refreshes of one token, logouts, expiries, account changes and a mailed reset, with a failure or crash at every point: one valid token per login; revocation leaves only later sessions |
| `auth_links` | 1 user, no tokens, 2 links, 2 requests, 1 fault, fair | reset requests against confirmations with their locks: one row per user, each link spent once, every request ends, deadlocks and faults included |

Why the bounds are enough: a fork of a session needs one token presented twice
and one successor: the second rotation counts as a holder from the moment it has
consumed the token, stored or not.  The races on links are between two
transactions of one user, for one link or for a link and its replacement.  Users
share no row, so one user is enough.  When the tokens or links of a model run
out, `Issue` and `ReplaceInsert` end without a row, as if the statement had
failed.  `MaxChanges` bounds password changes that begin; resets are bounded by
the links.

Fairness: `SF` on the steps of each request.  A goroutine keeps running, and a
statement that waits for a row lock gets it although other transactions take
and release the row meanwhile, because InnoDB queues lock requests; its deadlock
detector acts as long as two transactions wait for each other.

Proofs: `TypeCorrect`, `OneToken`, `Revocation`, `OneRow`, `SpentOnce`, for any
users, tokens, links, request slots, password changes and faults, from the
named assumptions (names do not collide, bounds are numbers).

* `OneToken`: the property counts the request between consuming a token and
  storing its successor as a holder, so the holder of a login's session passes
  from token to request to token; `Rooted` adds that stored and presented
  tokens descend from a login, so that a new login's family is empty.
* `OneRow`: `Holding` says that a reset request holds its user's row until its
  commit and, once it has deleted, the rows of all that user's links.  Two
  insertions for one user would both hold the user's row.
* `SpentOnce`: a link that can still be used has not been (`Unspent`).
* `Revocation` is inductive over the type invariant.

`RequestsEnd` is liveness and stays with TLC.


### HackathonTeams

State and code: `hack` is the `hackathons` row (whether registration is open,
`max_team_size`); `reg` the users with a live row in `hackathon_registrations`;
`team` the `hackathon_teams` rows with name and captain; `role` is
`team_members.role`; `sub` a `hackathon_submissions` row: whose it is, whether it
has a score and a `submitted_at`.  `req` holds the handlers in flight with what
each has read: the size it was admitted under, the copy of the submission it
merges into.  `missed` (in a request), `raced` and `limit` are history variables:
what a request about to write has not seen of others, what was nevertheless
written, and the largest size under which a team admitted anyone.

Only `CreateTeamWithCaptain` is a transaction and therefore one action.
Everything else checks in one statement and writes in another:
`CreateName`/`MemberCheck`/`CreateWrite`, `JoinBegin`/`MemberCheck`/`JoinCount`/
`JoinWrite`, the read and the write of a leave, a submission, a patch and a
judgement.  The keys of `schema.sql` are part of the writes: a join fails when
the team is gone or the user is in it, `DisbandWrite` takes the members along
and detaches the submissions.

| Run | Bounds | What it shows |
|---|---|---|
| `hackathon_races` | 2 users, 2 teams, 1 name, sizes 1 and 2, 2 requests, no submissions | `OneTeamEach`, `TeamFits`, `NamesUnique`: the three rules that have no key hold but for overtaken requests, while registrations come and go and the organizer edits the size |
| `hackathon_entries` | 2 users, 1 team, 1 submission, 2 requests | `TeamsAreWhole`: captains, members and submissions belong to teams that exist; `NothingErased`: a score or a date is lost only to a stale copy |

Bounds: an overtaking takes two requests; two users are two captains of one
name, or a second member for a team of size 1; two teams are what a user can be
in twice.  Submissions meet only their team and each other's writers, so they
have their own run, in which one team that is created, joined and disbanded is
enough: teams have no second life.  Users, teams, names and requests are
interchangeable in both runs (no constant and no `CHOOSE` distinguishes them),
and the properties are quantified over all of them, hence the symmetry.

Proofs (`HackathonTeamsProofs`), for any users, teams, names, submissions,
sizes from 1 to 20 (what the handler accepts) and requests: `TypeCorrect`,
`TeamsStayWhole` (`TeamsAreWhole`), `OneTeam` (`OneTeamEach`), `TeamsFit`
(`TeamFits`), `NamesDiffer` (`NamesUnique`), `ScoresAreKept` (`NothingErased`).
None of the three rules without a key is inductive, since a request checks a rule
in one step and writes in another.  The invariant `Knows` says of each request
between its check and its write that what it has checked still holds, or that it
has missed the change: no team has its name, its user is in no team, its team has
room under the size it was admitted by, the leaver is a plain member, the copy of
the submission has the row's score and date.  A write of the first kind keeps the
rule (`TeamsAgree`, `NamesAgree`, `Admitted`), one of the second kind is what
`raced` records.  `TeamsAreWhole` is inductive with it: the row of a leaver who is
a plain member is not the captain's.  `Admitted` carries the finiteness of teams,
without which their sizes could not be compared.

### Identities

State and code: `user` is the `users` row with an email (which is unique and
never freed); `password` the users with a `password_hash`; `acct` the
`user_provider_accounts` row of a (provider, provider_user_id), where an unlinked
row keeps its key; `state` is what the Redis store knows of an OAuth or SAML
state value.  `via` (what let an account be attached) and `cut` (users whose
first account was never inserted) are history variables.  What a provider
answers - which account, whether it vouches for the email - is chosen freely;
the flow to the provider is external.

`RegisterCheck`, `RegisterUser`, `BindFirst` are the statements of
`handleRegister`; `Lookup`, `Match`, `Link`, `CreateUser`, `BindFirst` those of
`upsertUser`; `Attach` is `LinkIdentity`, also for callbacks; `UnlinkRead`,
`UnlinkCount`, `UnlinkWrite` are `users.UnlinkIdentity`.  `Consume` is the one
script that reads and deletes a state.  `Disable`, `Restore`, `ResetPassword`
and `AdminCreate` are what the other modules do to a user at any time.

The run `identities` has 2 users, one external account that reports the second
user's email, one state value and 2 requests; only the second user may be
disabled (`Banned`), which is the one that accounts are matched with.  It
explores first logins of one account against each other, against registration
with the same email, against linking by the other user, against disabling and
unlinking, with a failure at every statement.  `OnePrimary` and `WayIn` say what
a user is left with, `LinksAreConsented` and `StateSpentOnce` what an
authorization is good for.  A second account of the same email differs from the
first only in its key, and a user has one password account; a state value is
fresh again once nobody holds it, so one value meets every race of two callbacks.

Proofs (`IdentitiesProofs`), for any users, accounts, states and requests:
`TypeCorrect`, `PrimaryIsOne` (`OnePrimary`), `WayStays` (`WayIn`), `Consent`
(`LinksAreConsented`), `StatesAreSpent` (`StateSpentOnce`).

* `PrimaryIsOne`: a primary account is bound only by the request that inserted the
  user's row, which the unique email makes the only one (`FirstBinds`), and that
  user has no primary account yet.  So `UnlinkIdentity`'s count of primaries never
  exceeds one, its guard refuses every primary account, and a primary account is
  never unlinked (`PrimariesHold`).  TLC does not show this: it is what the proof
  needed.
* `WayStays`: hence a user's own first account stays, and `Entrance` names, for each
  user, the password, that account, the request about to bind it, or its loss.
* `Consent` and `StatesAreSpent`: between two statements a request knows its user,
  its account and, at `attach`, that it holds the user's own grant (`Knows`); only
  what is bound was attached (`ViaBound`).

### UserAdmin

State and code: `row` is role and `deleted_at` of a `users` row; `claims` the
roles in the unexpired access tokens of a user, which is all that
`middleware/auth.go` looks at; `req` the operations between their read and
their UPDATE, with the role they have read and what they have missed.
`UpdateRead`/`UpdateWrite`, `DisableRead`/`DisableCount`/`DisableWrite` and
`RestoreRead`/`RestoreWrite` are the statements of `Update`, `Disable` and
`Restore`; `Create`, `Register`, `SignIn`, `Refresh` and `TokenExpires` are one
step each.  A login asks for a row that is not disabled, the rotation of a refresh
token does not: which tokens survive a disable is the matter of `AuthSessions`.

The run `user_admin` has 3 users, 2 roles, 2 requests: two administrators who
can disable, restore, demote or rename each other and a user who is none, with
tokens older than the rows.  `LastAdminStays` and `RolesOnRequest` name the only
ways in which the last administrator or a role is lost.  Users and requests are
interchangeable (`Init` chooses the first administrator).

Proofs (`UserAdminProofs`), for any finite set of users and any roles and
requests: `TypeCorrect`, `AdminRemains` (`LastAdminStays`), `RolesAreAsked`
(`RolesOnRequest`).  The inductive invariant adds to the types what a request
that nobody has overtaken still knows when it writes: an edit's copy is the
row's role (`CopyFresh`), a disable of an administrator leaves another one
(`LastKept`), and only an administrator's edit asks for a role (`AskedByAdmin`).
Finiteness is needed because the guard counts.

### Certificates

State and code: `cert` are the `certificates` rows: the award (user, type, ref),
the number in the serial, `revoked_at`; `trail` counts the `certificate.revoke`
entries of the audit log; `req` the requests in flight.  `overtaken`, in a row
and in a request, is history.  `IssueCheck`, `IssueNumber` and `IssueInsert` (or
`IssueConflict`) are the three statements of `IssueCertificate`; `RevokeRead`,
`RevokeWrite` (whose UPDATE is conditional) and `RevokeAudit` those of
`RevokeCertificate`.  `Before` is the order that MySQL gives the serials: as
strings, so that a number with one digit more than the padding comes before the
largest padded ones.

| Run | Bounds | What it shows |
|---|---|---|
| `certificates` | 3 awards of 2 types, 4 rows, 2 requests, numbers in radix 3 padded to one digit, fair | serials without gaps or repetitions up to the width of the padding, one certificate per award but for overtaken requests, one revocation, and that of requests which draw the same number one succeeds |

Bounds: a duplicate award and a duplicate number take two requests; the awards
are two of one type and one of another.  `Capacity` is 10000 in the code, with
`Radix` 10; 3 and 3 put the end of the padding within four rows, and everything
that is proved is proved for any `Capacity` and `Radix` of that shape
(`CapacityAssumption`).  Issuing really ends there: the largest string is then
"9999", the next number is always 10000, and its key is taken.

Fairness: `WF` on the steps of a request that has begun; no fairness for
arrivals or failures.  `SomeIssueSucceeds` excepts failures, and rows of the
model that have run out.

Proofs (`CertificatesProofs`), for any awards, types, rows, requests, capacity
and radix: `TypeCorrect`, `Numbering` (`SerialsInOrder`), `OneCertificate`
(`OneEach`), `OneRevocation` (`RevokedOnce`).

* `Numbering`: lemma `NextNumber` computes the last serial of `1 .. n` in the
  order of strings: `n` below the capacity and `Capacity - 1` at it.  `Drawn`
  says that a number in hand was the next one when it was drawn, so that it is
  either taken or still the next.
* `OneCertificate`: a request that has not been overtaken still finds no
  certificate of its award (`LooksForMissing`).
* `OneRevocation`: a request that is about to write the audit row is the only
  one, and its certificate is revoked (`AuditsOnce`).

### Learning

State and code: `item` are the `badges` and `practice_projects` rows
(`is_active`, and for a badge its criterion: the type and `criteria_value`);
`enrolled` the active `enrollments`, `points` is `users.points`; `unlocked` is
`user_badges`, `work` is `practice_completions.status`; `req` are handlers and
the background goroutine that a free enrollment starts.  `most`, `owed` and
`missed` are history. `CheckList`, `CheckHas`, `CheckCount`, `CheckInsert` are
the loop of `CheckAndAward` with `Progress` and `Target` for `computeProgress`:
enrollments against at least 1 for `first_enrollment`, points for
`points_reached`, 0 for the five types that the code does not evaluate;
`CheckSkips` is an error that it logs and passes over; `WorkRead`, `WorkAccess`,
`WorkFind` and the three writes are the statements of `StartProject`,
`CompleteProject`, `SkipProject`.  Administrators create, edit by writing back a
whole row, and delete.

The server creates users with 0 points and has no statement that changes them;
the rows are those of the predecessor, whose `PointsService.award` reads the
points and writes the sum back.  `PointsWritten` therefore sets them to
anything.

The run `learning` has one user, a paid and a free course, one badge, values 0
(for all below 1), 1 and 2 of each type of criterion, 0 or 2 points, one project
in the paid course and 2 requests.  Its constraint `OneItem` lets the badge and
the project be there one after the other, requests about the one still running
while the other is made: no handler of projects reads what a badge check writes
or the other way round, and the proofs do without it.  One badge is enough
because the loop treats badges one after the other and a check keeps nothing
from one to the next; one user because no row is shared between users but the
items.  `TypeOK` contains the foreign keys, which deletions under way put to the
test; `EarnedIsUnlocked` is about checks against other checks and against what a
refund or a change of points takes away, `AwardsAreEarned` about criteria that
are edited meanwhile, `WorkNeedsAccess` and `WorkIsKept` about projects that are
closed or deleted and enrollments that are refunded while a handler runs. A
deleted id comes back in the model when a row is created with it, where the code
draws a new UUID: more behaviours, not fewer.

Proofs (`LearningProofs`), for any users, badges, projects, criteria and requests
and any finite set of courses (a check counts enrollments): `TypeCorrect`,
`EarnedUnlocks` (`EarnedIsUnlocked`), `OnlyEarnedAwards` (`AwardsAreEarned`),
`WorkHasAccess` (`WorkNeedsAccess`), `WorkStays` (`WorkIsKept`).

* `EarnedUnlocks`: what a check owes is unlocked already, or earned and still ahead
  of it, on its list or under evaluation (`Owes`); when nothing is ahead, all of it
  is unlocked.
* `OnlyEarnedAwards`: a check that inserts has found as much progress as the
  target asks (`Evaluates`), and the most that a user ever had of that kind of
  progress bounds what can be found (`Counted`); of a criterion that is not
  evaluated it is 0, below every target that gives a badge.
* `WorkHasAccess`: a handler that has missed nothing stands on an open project and
  an access it has seen (`Informed`).
* `TypeCorrect` contains the foreign keys, and `WorkStays` follows from it and the
  single writes.

## 3. What the runs and the proofs do not say

Every safety property of every passing run, invariant or action property, is the
statement of a theorem (35 in 7 modules), for every value of the constants that
the named assumptions allow.  Only model-checked are the liveness properties
(`PaymentOpensAccess`, `RepurchaseOpensAccess`, `RequestsEnd`,
`SomeIssueSucceeds`): they rest on fairness and `ENABLED`, which the prover does
not treat.  `RefundRevokesAccess` is refuted by TLC and has no theorem.

The inductive invariants were themselves checked with TLC on the instances of the
runs before they were proved.  The proofs are about the modules, not the Go code:
that an action is what a handler does is read off the source, definition by
definition.

Differences between the code and what its comments, documents or predecessor
say, met while modelling and without a run of their own (`order_refund_race` has
one).  Paths are under `src/apps/api-go/` unless they begin with `src/`.

* Two refunds that both read `paid` both complete: the UPDATE is unconditional
  (`internal/orders/refund.go:159`), so there are two audit rows and two
  notices.  `OrderFlow` contains the behaviour and `AuditAgrees` allows it.
* `MockPay` is not atomic, as the NestJS `$transaction` it ports was: a failure
  after MarkPaid leaves a paid order without access.
* Enrolling in the courses of a degree stops at the first error, which is
  discarded (`internal/orders/service.go:440`): the order is paid, the degree is
  open and the courses after the failed one are not.  `SwallowError` and
  `UpsertConflict` contain the behaviour; no property asks for those courses.
* A login or a rotation that has read its user before a password reset stores
  its session after "revoke every session"
  (`internal/auth/password_reset.go:259-260`); `RevocationReaches` excepts it.
* The clean-up of an expired refresh token deletes every session of the user
  (`internal/auth/token.go:279`).  A token that was logged out or expired
  between the lookup and the delete is taken for a reused one.  The manual's
  limit of three devices is not in `Issue`.
* After an external sign-in the handlers take the user by the email that the
  provider reported, not the user the account is bound to
  (rule 1 at `internal/auth/service.go:216-217` against `internal/handler/auth.go:435`):
  for an account linked by another user they are two users.
* `internal/users/service.go:470-476` counts the primary accounts to keep the last
  one, as if there could be several; there is never more than one
  (`PrimaryIsOne`), so the guard refuses to unlink any primary account.
* An account that was unlinked cannot be bound again: the unique key counts
  unlinked rows (`db/queries/auth.sql:98-101`).  A failure between `CreateUser`
  and `CreateProviderAccount` leaves a user without an account (`cut`).
* A PATCH of a submission, made from a copy read before the judge's score,
  writes the old score back.  The comment on `DeleteTeam` in
  `db/queries/hackathons.sql` speaks of a cascade; submissions are kept without
  their team (`ON DELETE SET NULL`).
* Serial numbers end at 10000 per type and year.  A degree's certificate is
  issued when it is paid for.
* `internal/progress/service.go:219-221` says that `main.go` wires the badge hooks of
  lessons and practices; it wires only the one of free enrollment, and a paid
  enrollment starts no check.  Nothing in the Go code writes points, so a
  `points_reached` badge is given for points that the predecessor has awarded, at
  the user's next free enrollment.
* Skipping a completed project erases the completion.
* The reorderings of chapters and lessons reuse the full-row UPDATE with empty
  fields: position is written, and title and text are emptied
  (`internal/lessons/service.go:227`).  `SyncCourseLinks` of an instructor does
  not clear the primary flag of the course's other instructors.

## 4. Plan

Done: orders with enrollments, sessions, hackathons, identities, accounts,
certificates, learning; every safety property of their runs is proved.

Next, in this order:

1. Abstract specifications that the detailed modules refine, as `OrderLedger` is
   for `OrderFlow`: what a reset link and a refresh token promise (issued, used
   once, dead) and what a certificate does (issued once, revoked once), with the
   refinements proved from the invariants that are there.
2. A positive counterpart of `RefundRevokesAccess`: access that a refund was to
   revoke remains only if a payment, a grant or an enrollment was under way.
3. The safety halves of the liveness properties: a request that has begun always
   has a statement it can go on with, or waits for a lock that another one holds.

## 5. Not modelled

* Catalog (courses, chapters, lessons, resources, degrees), instructors, CMS,
  site settings, reviews, notes, enterprise inquiries, uploads: operations that
  read one row and write it back whole, last write wins, by one editor as a
  rule.  There is no rule between rows that an interleaving could break but
  those listed in section 3, which fail on every schedule.
* Learning events and notifications: append-only or one-row updates.  The
  notices of orders are in `OrderFlow`.
* URL import, AI assistant, chat: network I/O and parsing; the Go endpoints keep
  no protocol state.
* Dashboard, lists, searches, statistics and other reads change nothing.
* HTTP routing, cookies, rate limits, JWT encoding, configuration, logging,
  metrics: no state of the program's own.
* Generated code (`api/gen`, `internal/repo/db`), proof-of-concept commands, the
  NestJS server, the web client, shared types and deployment: generated,
  superseded, or user interface.  The SQL that the generated data layer runs is
  modelled where a module uses it.
