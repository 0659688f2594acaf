------------------------------ MODULE Learning ------------------------------
(***************************************************************************)
(* What a learner does with an enrollment and is rewarded for: practice    *)
(* projects (internal/practices), and the badge check (internal/badges)    *)
(* that a free enrollment starts in the background                         *)
(* (internal/enrollments/service.go, wired in cmd/server/main.go).         *)
(*                                                                         *)
(* Badges and projects are rows that administrators create, edit by        *)
(* writing back the whole row they have read, and delete, while checks and *)
(* handlers that read them are still running.                              *)
(***************************************************************************)
EXTENDS Naturals, FiniteSets

CONSTANTS
  User, Course,
  Free,        \* the courses whose cost_type is "free" or "charity"
  Badge,       \* ids of badges
  Value,       \* badges.criteria_value; 0 stands for all that is below 1
  Points,      \* users.points; 0 stands for all that is below 1
  Project,     \* ids of practice projects
  CourseOf,    \* practice_projects.course_id
  Request,     \* slots of requests and background checks running
  None

Item == Badge \cup Project

\* What a badge asks for.  "other" are the types of criteria that
\* computeProgress does not evaluate.
Type      == {"first_enrollment", "points_reached", "other"}
Criterion == [type : Type, value : Value]

ASSUME CatalogAssumption == /\ Free \subseteq Course
                            /\ CourseOf \in [Project -> Course]
                            /\ Badge \cap Project = {}
ASSUME ValueAssumption   == /\ Value \subseteq Nat /\ {0, 1} \subseteq Value
                            /\ None \notin Value /\ None \notin Type
                            /\ None \notin Criterion
ASSUME PointsAssumption  == Points \subseteq Nat /\ 0 \in Points
ASSUME UserAssumption    == IsFiniteSet(Course)

VARIABLES
  item,      \* the rows of badges and practice_projects
  enrolled,  \* the courses a user is actively enrolled in
  points,    \* users.points
  most,      \* history: the most progress a user has had, per type of criterion
  unlocked,  \* user_badges: pairs of a user and a badge
  work,      \* practice_completions.status, "none" before the row exists
  req        \* the requests and checks in flight

vars == <<item, enrolled, points, most, unlocked, work, req>>

NoItem == [active |-> FALSE, criterion |-> None]
Row    == [active : BOOLEAN, criterion : Criterion]
Idle   == [op |-> "none", pc |-> "idle"]
\* A badge as it was listed, with its criterion.
Listed == Badge \X Criterion
\* todo are the badges still to evaluate, cur is the one being evaluated.
\* owed are those the user had earned when they were listed and has earned
\* ever since, and that have met no error.
Check  == [op : {"check"}, pc : {"list", "has", "count", "insert"}, user : User,
           todo : SUBSET Listed, cur : Listed \cup {None}, owed : SUBSET Listed]
\* missed tells that the project or the access has gone since it was read.
Work   == [op : {"start", "complete", "skip"}, pc : {"access", "find", "write"},
           user : User, project : Project, missed : BOOLEAN]
Edit   == [op : {"edit"}, pc : {"write"}, item : Item, new : Row]
Delete == [op : {"delete"}, pc : {"write"}, item : Item]

Init ==
  /\ item = [i \in Item |-> NoItem]
  /\ enrolled = [u \in User |-> {}]
  /\ points = [u \in User |-> 0]
  /\ most = [u \in User |-> [t \in Type |-> 0]]
  /\ unlocked = {}
  /\ work = [k \in User \X Project |-> "none"]
  /\ req = [r \in Request |-> Idle]

Exists(i)    == item[i] # NoItem
At(r, op, pc) == req[r].op = op /\ req[r].pc = pc
Goto(r, pc)  == req' = [req EXCEPT ![r].pc = pc]
Proceed(r)   == req' = [req EXCEPT ![r].pc = "has", ![r].cur = None]
End(r)       == req' = [req EXCEPT ![r] = Idle]

(***************************************************************************)
(* computeProgress, and when CheckAndAward gives the badge for it.         *)
(***************************************************************************)
Progress(u, type) == IF type = "first_enrollment" THEN Cardinality(enrolled[u])
                     ELSE IF type = "points_reached" THEN points[u] ELSE 0

Target(c) == IF c.type = "first_enrollment" /\ c.value < 1 THEN 1 ELSE c.value

Earned(u, c) == Target(c) > 0 /\ Progress(u, c.type) >= Target(c)

\* The history follows every change of what progress is made of.
Remember(u) ==
  most' = [most EXCEPT ![u] = [t \in Type |->
    IF Progress(u, t)' > most[u][t] THEN Progress(u, t)' ELSE most[u][t]]]

(***************************************************************************)
(* Administration of badges and projects.                                  *)
(***************************************************************************)
\* What a running request or check loses when an item is written, or deleted.
Working(q) == q.op \in {"start", "complete", "skip"}

ItemWritten(i, q) ==
  IF Working(q) /\ q.project = i THEN [q EXCEPT !.missed = TRUE] ELSE q

ItemDeleted(i, q) ==
  IF q.op = "check" THEN [q EXCEPT !.owed = {t \in @ : t[1] # i}] ELSE ItemWritten(i, q)

\* What a check of u still owes after the user's enrollments or points change.
Reckoned(u, q) ==
  IF q.op = "check" /\ q.user = u
  THEN [q EXCEPT !.owed = {t \in @ : Earned(u, t[2])'}] ELSE q

EnrollmentLost(u, c, q) ==
  IF q.op = "check" THEN Reckoned(u, q)
  ELSE IF Working(q) /\ q.user = u /\ CourseOf[q.project] = c
  THEN [q EXCEPT !.missed = TRUE] ELSE q

Create(i, row) ==
  /\ ~ Exists(i)
  /\ item' = [item EXCEPT ![i] = row]
  /\ UNCHANGED <<enrolled, points, most, unlocked, work, req>>

CreateBadge(b, active, type, value) ==
  Create(b, [active |-> active,
             criterion |-> [type |-> type, value |-> IF value = None THEN 1 ELSE value]])

\* A project asks for nothing.
NoCriterion == [type |-> "other", value |-> 0]

CreateProject(p, active) == Create(p, [active |-> active, criterion |-> NoCriterion])

Begin(r, q) ==
  /\ req[r] = Idle
  /\ req' = [req EXCEPT ![r] = q]
  /\ UNCHANGED <<item, enrolled, points, most, unlocked, work>>

Kept(new, old) == IF new = None THEN old ELSE new

\* A field that the request leaves out keeps the value that was read.
EditRead(r, i, active, type, value) ==
  LET old == item[i].criterion IN
  /\ Exists(i)
  /\ Begin(r, [op |-> "edit", pc |-> "write", item |-> i,
               new |-> [active |-> Kept(active, item[i].active),
                        criterion |-> [type |-> Kept(type, old.type),
                                       value |-> Kept(value, old.value)]]])

BadgeEdit(r, b, active, type, value) == EditRead(r, b, active, type, value)
ProjectEdit(r, p, active)            == EditRead(r, p, active, None, None)

\* UPDATE ... WHERE id = ?: nothing happens when the row is gone.
EditWrite(r) ==
  /\ At(r, "edit", "write")
  /\ item' = IF Exists(req[r].item)
             THEN [item EXCEPT ![req[r].item] = req[r].new] ELSE item
  /\ req' = [q \in Request |-> IF q = r THEN Idle ELSE ItemWritten(req[r].item, req[q])]
  /\ UNCHANGED <<enrolled, points, most, unlocked, work>>

DeleteRead(r, i) ==
  /\ Exists(i)
  /\ Begin(r, [op |-> "delete", pc |-> "write", item |-> i])

\* The foreign keys delete the rows of user_badges and practice_completions.
DeleteWrite(r) ==
  LET i == req[r].item IN
  /\ At(r, "delete", "write")
  /\ item' = [item EXCEPT ![i] = NoItem]
  /\ unlocked' = {k \in unlocked : k[2] # i}
  /\ work' = [k \in User \X Project |-> IF k[2] = i THEN "none" ELSE work[k]]
  /\ req' = [q \in Request |-> IF q = r THEN Idle ELSE ItemDeleted(i, req[q])]
  /\ UNCHANGED <<enrolled, points, most>>

(***************************************************************************)
(* Enrollments and points.  Only the free enrollment starts a badge check; *)
(* a payment and a refund (module OrderFlow) change the same rows, the     *)
(* predecessor of this server writes the points, and they start none.      *)
(***************************************************************************)
Enroll(u, c) ==
  /\ enrolled' = [enrolled EXCEPT ![u] = @ \cup {c}]
  /\ UNCHANGED <<item, points, unlocked, work>>
  /\ Remember(u)

EnrollFree(r, u, c) ==
  /\ c \in Free /\ req[r] = Idle
  /\ Enroll(u, c)
  /\ req' = [req EXCEPT ![r] = [op |-> "check", pc |-> "list", user |-> u,
                               todo |-> {}, cur |-> None, owed |-> {}]]

EnrollPaid(u, c) == c \notin enrolled[u] /\ Enroll(u, c) /\ UNCHANGED req

Unenroll(u, c) ==
  /\ c \in enrolled[u]
  /\ enrolled' = [enrolled EXCEPT ![u] = @ \ {c}]
  /\ UNCHANGED <<item, points, most, unlocked, work>>
  /\ req' = [q \in Request |-> EnrollmentLost(u, c, req[q])]

\* A user is created with 0 points and no statement of this server changes
\* them; the row may come from the predecessor, which awards points by writing
\* back the sum it has computed.
PointsWritten(u, n) ==
  /\ n # points[u]
  /\ points' = [points EXCEPT ![u] = n]
  /\ UNCHANGED <<item, enrolled, unlocked, work>>
  /\ Remember(u)
  /\ req' = [q \in Request |-> Reckoned(u, req[q])]

(***************************************************************************)
(* CheckAndAward, run by the goroutine.                                    *)
(***************************************************************************)
CheckList(r) ==
  LET listed == {<<b, item[b].criterion>> : b \in {b \in Badge : item[b].active}} IN
  /\ At(r, "check", "list")
  /\ req' = [req EXCEPT ![r].pc = "has", ![r].todo = listed,
                        ![r].owed = {t \in listed : Earned(req[r].user, t[2])}]
  /\ UNCHANGED <<item, enrolled, points, most, unlocked, work>>

\* HasUserBadge for the next badge, and the end of the loop.
CheckHas(r) ==
  /\ At(r, "check", "has")
  /\ \/ req[r].todo = {} /\ End(r)
     \/ \E t \in req[r].todo :
          req' = IF <<req[r].user, t[1]>> \in unlocked
                 THEN [req EXCEPT ![r].todo = @ \ {t}]
                 ELSE [req EXCEPT ![r].todo = @ \ {t}, ![r].cur = t, ![r].pc = "count"]
  /\ UNCHANGED <<item, enrolled, points, most, unlocked, work>>

CheckCount_NoTarget(r) ==  \* mutant: without the test target > 0
  /\ At(r, "check", "count")
  /\ IF Progress(req[r].user, req[r].cur[2].type) >= Target(req[r].cur[2])
     THEN Goto(r, "insert") ELSE Proceed(r)
  /\ UNCHANGED <<item, enrolled, points, most, unlocked, work>>

CheckCount_More(r) ==  \* mutant: progress > target
  LET c == req[r].cur[2] IN
  /\ At(r, "check", "count")
  /\ IF Target(c) > 0 /\ Progress(req[r].user, c.type) > Target(c)
     THEN Goto(r, "insert") ELSE Proceed(r)
  /\ UNCHANGED <<item, enrolled, points, most, unlocked, work>>

\* computeProgress and the comparison with the target that was listed.
CheckCount(r) ==
  /\ At(r, "check", "count")
  /\ IF Earned(req[r].user, req[r].cur[2]) THEN Goto(r, "insert") ELSE Proceed(r)
  /\ UNCHANGED <<item, enrolled, points, most, unlocked, work>>

CheckInsert_NoKeys(r) ==  \* mutant: no foreign key on badge_id
  /\ At(r, "check", "insert")
  /\ unlocked' = unlocked \cup {<<req[r].user, req[r].cur[1]>>}
  /\ Proceed(r)
  /\ UNCHANGED <<item, enrolled, points, most, work>>

\* A badge that is gone or unlocked already fails the INSERT, which is logged.
CheckInsert(r) ==
  /\ At(r, "check", "insert")
  /\ unlocked' = IF Exists(req[r].cur[1])
                 THEN unlocked \cup {<<req[r].user, req[r].cur[1]>>} ELSE unlocked
  /\ Proceed(r)
  /\ UNCHANGED <<item, enrolled, points, most, work>>

\* A count that fails reads as no progress, an INSERT that fails is logged:
\* the loop goes on, and no later check is started for it.
CheckSkips(r) ==
  /\ req[r].op = "check" /\ req[r].pc \in {"count", "insert"}
  /\ req' = [req EXCEPT ![r].pc = "has", ![r].cur = None,
                        ![r].owed = @ \ {req[r].cur}]
  /\ UNCHANGED <<item, enrolled, points, most, unlocked, work>>

(***************************************************************************)
(* StartProject, CompleteProject and SkipProject.                          *)
(***************************************************************************)
Access(u, p) == CourseOf[p] \in Free \/ CourseOf[p] \in enrolled[u]
Key(r)       == <<req[r].user, req[r].project>>

WorkRead(r, op, u, p) ==
  /\ item[p].active
  /\ Begin(r, [op |-> op, pc |-> "access", user |-> u, project |-> p,
               missed |-> FALSE])

AtWork(r, pc) == Working(req[r]) /\ req[r].pc = pc

WorkAccess_Unchecked(r) ==  \* mutant: the enrollment is not looked up
  /\ AtWork(r, "access")
  /\ Goto(r, "find")
  /\ UNCHANGED <<item, enrolled, points, most, unlocked, work>>

WorkAccess(r) ==
  /\ AtWork(r, "access")
  /\ IF Access(req[r].user, req[r].project) THEN Goto(r, "find") ELSE End(r)
  /\ UNCHANGED <<item, enrolled, points, most, unlocked, work>>

\* GetCompletion: a start must find no row, the others must find one.
WorkFind(r) ==
  /\ AtWork(r, "find")
  /\ IF (work[Key(r)] = "none") <=> (req[r].op = "start")
     THEN Goto(r, "write") ELSE End(r)
  /\ UNCHANGED <<item, enrolled, points, most, unlocked, work>>

StartInsert_Upserts(r) ==  \* mutant: INSERT ... ON DUPLICATE KEY UPDATE
  /\ At(r, "start", "write")
  /\ work' = IF Exists(req[r].project)
             THEN [work EXCEPT ![Key(r)] = "in_progress"] ELSE work
  /\ End(r)
  /\ UNCHANGED <<item, enrolled, points, most, unlocked>>

\* The unique key on (user_id, project_id) and the foreign key on the project.
StartInsert(r) ==
  /\ At(r, "start", "write")
  /\ work' = IF Exists(req[r].project) /\ work[Key(r)] = "none"
             THEN [work EXCEPT ![Key(r)] = "in_progress"] ELSE work
  /\ End(r)
  /\ UNCHANGED <<item, enrolled, points, most, unlocked>>

\* UpdateCompletionStatus: no condition but the key.
WorkUpdate(r, op, status) ==
  /\ At(r, op, "write")
  /\ work' = IF work[Key(r)] # "none" THEN [work EXCEPT ![Key(r)] = status] ELSE work
  /\ End(r)
  /\ UNCHANGED <<item, enrolled, points, most, unlocked>>

CompleteWrite(r) == WorkUpdate(r, "complete", "completed")
\* Also a completed project can be skipped: the completion is erased.
SkipWrite(r)     == WorkUpdate(r, "skip", "skipped")

Fail(r) ==
  /\ req[r] # Idle
  /\ End(r)
  /\ UNCHANGED <<item, enrolled, points, most, unlocked, work>>

CheckStep(r) == \/ CheckList(r) \/ CheckHas(r) \/ CheckCount(r)
                \/ CheckInsert(r) \/ CheckSkips(r)
WorkStep(r)  == \/ WorkAccess(r) \/ WorkFind(r)
                \/ StartInsert(r) \/ CompleteWrite(r) \/ SkipWrite(r)
Step(r)      == CheckStep(r) \/ WorkStep(r) \/ EditWrite(r) \/ DeleteWrite(r)

Arrive(r) ==
  \/ \E active \in BOOLEAN \cup {None} :
       \/ \E b \in Badge, type \in Type \cup {None}, value \in Value \cup {None} :
            BadgeEdit(r, b, active, type, value)
       \/ \E p \in Project : ProjectEdit(r, p, active)
  \/ \E i \in Item : DeleteRead(r, i)
  \/ \E u \in User, c \in Course : EnrollFree(r, u, c)
  \/ \E op \in {"start", "complete", "skip"}, u \in User, p \in Project :
       WorkRead(r, op, u, p)

Next ==
  \/ \E r \in Request : Arrive(r) \/ Step(r) \/ Fail(r)
  \/ \E active \in BOOLEAN :
       \/ \E b \in Badge, type \in Type, value \in Value \cup {None} :
            CreateBadge(b, active, type, value)
       \/ \E p \in Project : CreateProject(p, active)
  \/ \E u \in User, c \in Course : EnrollPaid(u, c) \/ Unenroll(u, c)
  \/ \E u \in User, n \in Points : PointsWritten(u, n)

Spec == Init /\ [][Next]_vars

-----------------------------------------------------------------------------
(***************************************************************************)
(* Properties.                                                             *)
(***************************************************************************)
\* Rows have their types and foreign keys: nobody holds a badge, and nothing is
\* done in a project, that was deleted while a check or a start was under way.
TypeOK ==
  /\ item \in [Item -> Row \cup {NoItem}]
  /\ enrolled \in [User -> SUBSET Course]
  /\ points \in [User -> Points]
  /\ most \in [User -> [Type -> Nat]]
  /\ unlocked \subseteq User \X Badge
  /\ work \in [User \X Project -> {"none", "in_progress", "completed", "skipped"}]
  /\ \A k \in unlocked : Exists(k[2])
  /\ \A k \in User \X Project : work[k] # "none" => Exists(k[2])
  /\ req \in [Request -> {Idle} \cup Check \cup Work \cup Edit \cup Delete]

\* A check that has gone through its list leaves no badge out that the user
\* had earned when it began, by enrollments or by points, unless the badge or
\* what earned it has gone since or a statement failed, however checks, edits,
\* enrollments, refunds and awards of points interleave.
EarnedIsUnlocked ==
  \A r \in Request :
    At(r, "check", "has") /\ req[r].todo = {} =>
      \A t \in req[r].owed : <<req[r].user, t[1]>> \in unlocked

\* The user has had the enrollments or the points that the badge asked for.
Deserved(r, u, b) ==
  /\ At(r, "check", "insert") /\ req[r].user = u /\ req[r].cur[1] = b
  /\ Target(req[r].cur[2]) \in 1 .. most[u][req[r].cur[2].type]

\* A badge goes only to a user who at some time had the enrollments or the
\* points that the badge asked for when the check listed it; a badge with a
\* criterion of another type, or with no positive target, goes to nobody.
AwardsAreEarned ==
  [][\A k \in unlocked' \ unlocked : \E r \in Request : Deserved(r, k[1], k[2])]_vars

WorkOf(r, u, p) == AtWork(r, "write") /\ req[r].user = u /\ req[r].project = p

\* Work in a project is recorded only while the project is open and the user
\* has access to its course, or for a request that was overtaken by the edit,
\* the deletion or the refund that took them away.
WorkNeedsAccess ==
  [][\A u \in User, p \in Project :
       work'[<<u, p>>] \notin {work[<<u, p>>], "none"} =>
         \/ item[p].active /\ Access(u, p)
         \/ \E r \in Request : WorkOf(r, u, p) /\ req[r].missed]_vars

\* A start that raced another one does not throw the learner back, and only
\* the deletion of the project takes a record away.
WorkIsKept ==
  [][\A u \in User, p \in Project : LET k == <<u, p>> IN
       /\ work'[k] = "in_progress" => work[k] \in {"none", "in_progress"}
       /\ work'[k] = "none" => work[k] = "none" \/ item'[p] = NoItem]_vars
=============================================================================
