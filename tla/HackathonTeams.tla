--------------------------- MODULE HackathonTeams ---------------------------
(***************************************************************************)
(* One hackathon of internal/hackathons: its row, the registrations, the   *)
(* teams with their members, and the submissions (hackathons.go, teams.go, *)
(* submissions.go over db/queries/hackathons.sql).                         *)
(*                                                                         *)
(* Only CreateTeamWithCaptain is a transaction; every other operation is a *)
(* run of autocommitted statements that checks first and writes later.     *)
(* What stands between two requests is the keys of db/schema.sql alone:    *)
(* (hackathon, user) and (team, user) are unique, a member or submission   *)
(* needs its team, members go with a team and submissions lose it.         *)
(*                                                                         *)
(* Reads that only decide an early return, on rows that none of the later  *)
(* statements depend on, are one step with the statement before them.      *)
(***************************************************************************)
EXTENDS Naturals, FiniteSets

CONSTANTS
  User, Team, Name, Submission,
  Sizes,       \* values of max_team_size
  Request,     \* slots of requests being served at the same time
  None

ASSUME NamesAssumption ==
  /\ None \notin User \cup Team \cup Name \cup Submission
  /\ User \cap Team = {} /\ User \cap Name = {} /\ User \cap Submission = {}
  /\ Team \cap Name = {} /\ Team \cap Submission = {} /\ Name \cap Submission = {}

ASSUME SizesAssumption == Sizes \subseteq 1..20

VARIABLES
  hack,     \* the row of hackathons: open for registration, max_team_size
  reg,      \* users with an active row in hackathon_registrations
  team,     \* teams: none yet, live or deleted; name and captain
  role,     \* team_members.role of a user in a team
  sub,      \* submissions: team_id, user_id, has a score, has a submitted_at
  req,      \* the requests in flight
  raced,    \* history: what was written by a request that had been overtaken
  limit     \* history: the largest size under which a team was joined

tables  == <<hack, reg, team, role, sub>>
history == <<raced, limit>>
vars    == <<tables, req, history>>

Op       == {"register", "cancel", "create", "join", "leave", "disband",
             "submit", "patch", "judge"}
Pc       == {"name", "member", "count", "owner", "write"}
SubRow   == [team : Team \cup {None}, user : User \cup {None},
             score : BOOLEAN, dated : BOOLEAN]
NoRow    == [user |-> None]
NoTeam   == [state |-> "none", name |-> None, captain |-> None]
Thing    == User \cup Team \cup Name \cup Submission \cup (Team \X User)
Idle     == [op |-> "none"]

Init ==
  /\ hack \in [open : {TRUE}, size : Sizes]
  /\ reg = {}
  /\ team = [t \in Team |-> NoTeam]
  /\ role = [t \in Team |-> [u \in User |-> "none"]]
  /\ sub = [s \in Submission |-> NoRow]
  /\ req = [r \in Request |-> Idle]
  /\ raced = {}
  /\ limit = [t \in Team |-> 1]

(***************************************************************************)
(* A request: what it is about, what it has read (size, copy), and which   *)
(* of the things it is about another request has written since.            *)
(***************************************************************************)
Blank == [op |-> "none", pc |-> "write", user |-> None, team |-> None,
          name |-> None, entry |-> None, size |-> 0, copy |-> NoRow,
          missed |-> {}]

At(r, op, pc) == req[r] # Idle /\ req[r].op = op /\ req[r].pc = pc
Start(r, q)   == req[r] = Idle /\ req' = [req EXCEPT ![r] = q]

\* A check on the things of X passes: r knows their rows as they are now.
Pass(r, X, pc) == req' = [req EXCEPT ![r].missed = @ \ X, ![r].pc = pc]

End(r) == req' = [req EXCEPT ![r] = Idle]

\* The rows whose change r would not notice.
About(q) ==
  CASE q.op = "create" -> {q.user, q.name}
    [] q.op = "join"   -> {q.user, q.team}
    [] q.op = "leave"  -> {<<q.team, q.user>>}
    [] OTHER           -> {q.entry}

\* The last statement of r, which writes rows of the things of W.
Finish(r, W) ==
  /\ req' = [q \in Request |->
               IF q = r \/ req[q] = Idle THEN IF q = r THEN Idle ELSE req[q]
               ELSE [req[q] EXCEPT !.missed = @ \cup (W \cap About(req[q]))]]
  /\ raced' = raced \cup (W \cap req[r].missed)

Registered(u)  == u \in reg
Live(t)        == team[t].state = "live"
Members(t)     == {u \in User : role[t][u] # "none"}
TeamsOf(u)     == {t \in Team : role[t][u] # "none"}
Named(n)       == {t \in Team : Live(t) /\ team[t].name = n}

(***************************************************************************)
(* The hackathon and the registrations.                                    *)
(***************************************************************************)
\* The deadline passes, or Delete cancels the hackathon (a soft delete).
Close ==
  /\ hack' = [hack EXCEPT !.open = FALSE]
  /\ UNCHANGED <<reg, team, role, sub, req, history>>

\* Update writes every column; any of them may be given, status and deadline
\* included, so the row it was merged with adds no outcome.
EditHackathon ==
  /\ hack' \in [open : BOOLEAN, size : Sizes]
  /\ UNCHANGED <<reg, team, role, sub, req, history>>

RegisterBegin(r, u) ==
  /\ hack.open /\ ~Registered(u)
  /\ Start(r, [Blank EXCEPT !.op = "register", !.user = u])
  /\ UNCHANGED <<tables, history>>

\* INSERT ... ON DUPLICATE KEY UPDATE
RegisterWrite(r) ==
  /\ At(r, "register", "write")
  /\ reg' = reg \cup {req[r].user}
  /\ End(r)
  /\ UNCHANGED <<hack, team, role, sub, history>>

CancelBegin(r, u) ==
  /\ Registered(u)
  /\ Start(r, [Blank EXCEPT !.op = "cancel", !.user = u])
  /\ UNCHANGED <<tables, history>>

\* Teams and submissions of the user are left alone.
CancelWrite(r) ==
  /\ At(r, "cancel", "write")
  /\ reg' = reg \ {req[r].user}
  /\ End(r)
  /\ UNCHANGED <<hack, team, role, sub, history>>

(***************************************************************************)
(* Teams.                                                                  *)
(***************************************************************************)
CreateBegin(r, u, n) ==
  /\ Registered(u)
  /\ Start(r, [Blank EXCEPT !.op = "create", !.pc = "name", !.user = u, !.name = n])
  /\ UNCHANGED <<tables, history>>

CreateName_Skips(r) ==  \* mutant: a taken name is not refused
  /\ At(r, "create", "name")
  /\ Pass(r, {req[r].name}, "member")
  /\ UNCHANGED <<tables, history>>

CreateName(r) ==
  /\ At(r, "create", "name")
  /\ IF Named(req[r].name) = {} THEN Pass(r, {req[r].name}, "member") ELSE End(r)
  /\ UNCHANGED <<tables, history>>

MemberCheck_OtherTeams(r) ==  \* mutant: only the team to be joined is looked at
  /\ At(r, "create", "member") \/ At(r, "join", "member")
  /\ IF req[r].op = "create" \/ req[r].team \notin TeamsOf(req[r].user)
     THEN Pass(r, {req[r].user}, IF req[r].op = "join" THEN "count" ELSE "write")
     ELSE End(r)
  /\ UNCHANGED <<tables, history>>

\* FindMembershipInHackathon, in CreateTeam and in JoinTeam.
MemberCheck(r) ==
  /\ At(r, "create", "member") \/ At(r, "join", "member")
  /\ IF TeamsOf(req[r].user) = {}
     THEN Pass(r, {req[r].user}, IF req[r].op = "join" THEN "count" ELSE "write")
     ELSE End(r)
  /\ UNCHANGED <<tables, history>>

\* CreateTeamWithCaptain.  The last disjunct is the bound on teams.
CreateWrite(r) ==
  /\ At(r, "create", "write")
  /\ \/ \E t \in Team :
          /\ team[t] = NoTeam
          /\ team' = [team EXCEPT ![t] = [state |-> "live", name |-> req[r].name,
                                          captain |-> req[r].user]]
          /\ role' = [role EXCEPT ![t][req[r].user] = "captain"]
          /\ Finish(r, {req[r].user, req[r].name})
     \/ /\ \A t \in Team : team[t] # NoTeam
        /\ End(r)
        /\ UNCHANGED <<team, role, raced>>
  /\ UNCHANGED <<hack, reg, sub, limit>>

JoinBegin_NoSize(r, u, t) ==  \* mutant: max_team_size is not loaded
  /\ Registered(u) /\ Live(t)
  /\ Start(r, [Blank EXCEPT !.op = "join", !.pc = "member", !.user = u, !.team = t])
  /\ UNCHANGED <<tables, history>>

JoinBegin(r, u, t) ==
  /\ Registered(u) /\ Live(t)
  /\ Start(r, [Blank EXCEPT !.op = "join", !.pc = "member", !.user = u, !.team = t,
                            !.size = hack.size])
  /\ UNCHANGED <<tables, history>>

JoinCount_OneMore(r) ==  \* mutant: > for >=
  /\ At(r, "join", "count")
  /\ IF Cardinality(Members(req[r].team)) <= req[r].size
     THEN Pass(r, {req[r].team}, "write") ELSE End(r)
  /\ UNCHANGED <<tables, history>>

JoinCount(r) ==
  /\ At(r, "join", "count")
  /\ IF Cardinality(Members(req[r].team)) < req[r].size
     THEN Pass(r, {req[r].team}, "write") ELSE End(r)
  /\ UNCHANGED <<tables, history>>

JoinWrite_NoKeys(r) ==  \* mutant: the team's row may be gone
  LET t == req[r].team
      u == req[r].user IN
  /\ At(r, "join", "write")
  /\ role' = [role EXCEPT ![t][u] = "member"]
  /\ limit' = [limit EXCEPT ![t] = IF @ < req[r].size THEN req[r].size ELSE @]
  /\ Finish(r, {t, u})
  /\ UNCHANGED <<hack, reg, team, sub>>

\* The foreign key and the unique key are checked by the INSERT.
JoinWrite(r) ==
  LET t == req[r].team
      u == req[r].user IN
  /\ At(r, "join", "write")
  /\ IF Live(t) /\ u \notin Members(t)
     THEN /\ role' = [role EXCEPT ![t][u] = "member"]
          /\ limit' = [limit EXCEPT ![t] = IF @ < req[r].size THEN req[r].size ELSE @]
          /\ Finish(r, {t, u})
     ELSE End(r) /\ UNCHANGED <<role, history>>
  /\ UNCHANGED <<hack, reg, team, sub>>

LeaveBegin(r, u, t) ==
  /\ u \in Members(t)
  /\ Start(r, [Blank EXCEPT !.op = IF role[t][u] = "captain" THEN "disband" ELSE "leave",
                            !.user = u, !.team = t])
  /\ UNCHANGED <<tables, history>>

\* DELETE by the id of the row that was read: a row that the user has got since
\* by joining again is another one.
LeaveWrite(r) ==
  LET t == req[r].team
      u == req[r].user IN
  /\ At(r, "leave", "write")
  /\ IF <<t, u>> \in req[r].missed
     THEN End(r) /\ UNCHANGED <<role, raced>>
     ELSE /\ role' = [role EXCEPT ![t][u] = "none"]
          /\ Finish(r, {<<t, u>>})
  /\ UNCHANGED <<hack, reg, team, sub, limit>>

\* ON DELETE CASCADE for team_members, ON DELETE SET NULL for submissions.
DisbandWrite(r) ==
  LET t == req[r].team IN
  /\ At(r, "disband", "write")
  /\ team' = [team EXCEPT ![t].state = "deleted"]
  /\ role' = [role EXCEPT ![t] = [u \in User |-> "none"]]
  /\ sub' = [s \in Submission |-> IF sub[s] # NoRow /\ sub[s].team = t
                                  THEN [sub[s] EXCEPT !.team = None] ELSE sub[s]]
  /\ Finish(r, {t} \X Members(t))
  /\ UNCHANGED <<hack, reg, limit>>

(***************************************************************************)
(* Submissions, whose status matters only where it dates them: submitted   *)
(* tells that the request gives that status.  The author's PATCH and the   *)
(* judge both read the row, merge and write it; team_id and user_id are    *)
(* not among the columns written.                                          *)
(***************************************************************************)
SubmitBegin(r, u, t) ==
  /\ Registered(u)
  /\ t # None => Live(t) /\ u \in Members(t)
  /\ Start(r, [Blank EXCEPT !.op = "submit", !.user = u, !.team = t])
  /\ UNCHANGED <<tables, history>>

\* The INSERT fails when the team is gone.  The last disjunct is the bound.
SubmitWrite(r) ==
  LET t == req[r].team IN
  /\ At(r, "submit", "write")
  /\ End(r)
  /\ \/ \E s \in Submission, submitted \in BOOLEAN :
          /\ sub[s] = NoRow /\ (t # None => Live(t))
          /\ sub' = [sub EXCEPT ![s] =
                       [team |-> t, user |-> IF t = None THEN req[r].user ELSE None,
                        score |-> FALSE, dated |-> submitted]]
     \/ t # None /\ ~Live(t) /\ UNCHANGED sub
     \/ (\A s \in Submission : sub[s] # NoRow) /\ UNCHANGED sub
  /\ UNCHANGED <<hack, reg, team, role, history>>

PatchBegin(r, u, s) ==
  /\ sub[s] # NoRow
  /\ sub[s].user = u \/ sub[s].team # None
  /\ Start(r, [Blank EXCEPT !.op = "patch", !.entry = s, !.copy = sub[s],
                            !.user = IF sub[s].user = u THEN None ELSE u,
                            !.pc = IF sub[s].user = u THEN "write" ELSE "owner"])
  /\ UNCHANGED <<tables, history>>

PatchOwner(r) ==
  /\ At(r, "patch", "owner")
  /\ IF req[r].user \in Members(req[r].copy.team) THEN Pass(r, {}, "write") ELSE End(r)
  /\ UNCHANGED <<tables, history>>

PatchWrite_Resets(r) ==  \* mutant: submitted_at follows the new status
  LET old == req[r].copy IN
  /\ At(r, "patch", "write")
  /\ \E submitted \in BOOLEAN :
       sub' = [sub EXCEPT ![req[r].entry].score = old.score,
                          ![req[r].entry].dated = submitted]
  /\ Finish(r, {req[r].entry})
  /\ UNCHANGED <<hack, reg, team, role, limit>>

PatchWrite(r) ==
  LET old == req[r].copy IN
  /\ At(r, "patch", "write")
  /\ \E submitted \in BOOLEAN :
       sub' = [sub EXCEPT ![req[r].entry].score = old.score,
                          ![req[r].entry].dated = old.dated \/ submitted]
  /\ Finish(r, {req[r].entry})
  /\ UNCHANGED <<hack, reg, team, role, limit>>

JudgeBegin(r, s) ==
  /\ sub[s] # NoRow
  /\ Start(r, [Blank EXCEPT !.op = "judge", !.entry = s, !.copy = sub[s]])
  /\ UNCHANGED <<tables, history>>

JudgeWrite(r) ==
  /\ At(r, "judge", "write")
  /\ sub' = [sub EXCEPT ![req[r].entry].score = TRUE,
                        ![req[r].entry].dated = req[r].copy.dated]
  /\ Finish(r, {req[r].entry})
  /\ UNCHANGED <<hack, reg, team, role, limit>>

\* A statement fails, the client goes away or the process dies.
Fail(r) ==
  /\ req[r] # Idle
  /\ End(r)
  /\ UNCHANGED <<tables, history>>

Next ==
  \/ Close \/ EditHackathon
  \/ \E r \in Request, u \in User :
       \/ RegisterBegin(r, u) \/ CancelBegin(r, u)
       \/ \E n \in Name : CreateBegin(r, u, n)
       \/ \E t \in Team : JoinBegin(r, u, t) \/ LeaveBegin(r, u, t)
       \/ \E t \in Team \cup {None} : SubmitBegin(r, u, t)
       \/ \E s \in Submission : PatchBegin(r, u, s)
  \/ \E r \in Request :
       \/ RegisterWrite(r) \/ CancelWrite(r)
       \/ CreateName(r) \/ MemberCheck(r) \/ CreateWrite(r)
       \/ JoinCount(r) \/ JoinWrite(r) \/ LeaveWrite(r) \/ DisbandWrite(r)
       \/ SubmitWrite(r) \/ PatchOwner(r) \/ PatchWrite(r)
       \/ (\E s \in Submission : JudgeBegin(r, s)) \/ JudgeWrite(r)
       \/ Fail(r)

Spec == Init /\ [][Next]_vars

-----------------------------------------------------------------------------
(***************************************************************************)
(* Properties.                                                             *)
(***************************************************************************)
Requests ==
  [op : Op, pc : Pc, user : User \cup {None}, team : Team \cup {None},
   name : Name \cup {None}, entry : Submission \cup {None},
   size : Sizes \cup {0}, copy : SubRow \cup {NoRow}, missed : SUBSET Thing]

\* What a request needs to have loaded when it gets to its last statement.
Loaded(q) ==
  /\ q.op \in {"register", "cancel", "create", "join", "leave", "disband"} => q.user \in User
  /\ q.op = "create" => q.name \in Name
  /\ q.op \in {"join", "leave", "disband"} => q.team \in Team
  /\ q.op = "join" => q.size \in Sizes
  /\ q.op \in {"patch", "judge"} => q.entry \in Submission /\ q.copy \in SubRow

\* Rows and requests are what the code and the schema allow.
TypeOK ==
  /\ hack \in [open : BOOLEAN, size : Sizes]
  /\ reg \subseteq User
  /\ team \in [Team -> [state : {"none", "live", "deleted"}, name : Name \cup {None},
                        captain : User \cup {None}]]
  /\ role \in [Team -> [User -> {"none", "captain", "member"}]]
  /\ sub \in [Submission -> SubRow \cup {NoRow}]
  /\ req \in [Request -> Requests \cup {Idle}]
  /\ \A r \in Request : req[r] # Idle => Loaded(req[r])
  /\ raced \subseteq Thing
  /\ limit \in [Team -> Sizes \cup {1}]

\* A live team is led by the member with the role captain, the one its row names;
\* a team that is not live has neither members nor submissions, although joins and
\* submissions that found it alive may still be under way (LeaveTeam, JoinTeam).
TeamsAreWhole ==
  \A t \in Team :
    /\ Live(t) => {u \in User : role[t][u] = "captain"} = {team[t].captain}
    /\ ~Live(t) => Members(t) = {}
    /\ \A s \in Submission : sub[s] # NoRow /\ sub[s].team = t => Live(t)

\* "You can only be in one team per hackathon": unless the user's own requests
\* overtook each other between the check and the insert, it is so.
OneTeamEach == \A u \in User : u \in raced \/ Cardinality(TeamsOf(u)) <= 1

\* Without an overtaken join no team is larger than the largest size under which
\* one of its members was admitted, however often the organizer edits it.
TeamFits == \A t \in Team : t \in raced \/ Cardinality(Members(t)) <= limit[t]

\* Two live teams share a name only if their creations overlapped.
NamesUnique == \A n \in Name : n \in raced \/ Cardinality(Named(n)) <= 1

\* A score or a submission date is erased only by a write whose copy of the row
\* was older than another write.
NothingErased ==
  [][\A s \in Submission : sub[s] # NoRow /\ s \notin raced' =>
       /\ sub[s].score => sub'[s].score
       /\ sub[s].dated => sub'[s].dated]_vars
=============================================================================
