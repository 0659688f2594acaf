----------------------------- MODULE AuthSessions -----------------------------
(***************************************************************************)
(* Sessions and passwords of the Go API: login and refresh-token rotation  *)
(* (internal/auth/token.go, internal/handler/auth.go), the mailed reset    *)
(* links (internal/auth/password_reset.go), and the account operations of  *)
(* internal/users that end sessions.  They share the tables                *)
(* refresh_tokens, password_reset_tokens and users.                        *)
(*                                                                         *)
(* Only the two reset-link operations run in a transaction and lock rows;  *)
(* everything else is one autocommitted statement after another.  A        *)
(* request is a record with a program counter, one step per statement.     *)
(***************************************************************************)
EXTENDS Naturals

CONSTANTS
  User,
  Token,       \* the refresh tokens that Issue may draw
  Link,        \* the reset links that Request may draw
  Request,     \* slots of requests being served at the same time
  MaxChanges,  \* bound on the password changes of a user that begin
  MaxFaults,   \* bound on failing statements and process crashes
  None

ASSUME NamesAssumption ==
  /\ None \notin User \cup Token \cup Link \cup Request
  /\ User \cap Link = {} /\ Token \cap Request = {}

ASSUME BoundAssumption == MaxChanges \in Nat /\ MaxFaults \in Nat

VARIABLES
  active,   \* users.deleted_at IS NULL
  secret,   \* which password users.password_hash is of: a version
  refresh,  \* refresh_tokens: the user of a stored token, None without a row
  expired,  \* tokens and links past their expires_at
  link,     \* password_reset_tokens: user, and whether it is live or used
  mailed,   \* links that have reached the user's mailbox
  rowLock,  \* rows of users and password_reset_tokens locked by a transaction
  req,      \* the requests in flight
  faults,   \* how many faults happened
  family,   \* history: the login's token that a token descends from
  under,    \* history: the version of the password that login was made with
  late,     \* history: tokens whose user, or password, had changed on issue
  spent     \* history: how often a link has changed a password

rows    == <<active, secret, refresh, link, rowLock>>
history == <<family, under, late, spent>>
vars    == <<rows, expired, mailed, req, faults, history>>

Account == {"change", "adminReset", "disable", "restore"}
Op      == {"login", "refresh", "forgot", "confirm"} \cup Account
Pc      == {"resolve", "consume", "cleanup", "reuse", "issue", "write", "revoke",
            "lock", "delete", "insert", "send", "drop", "lockLink", "commit"}

Idle == [op |-> "none", pc |-> "idle", user |-> None, token |-> None,
         link |-> None, seen |-> 0]

\* What a handler knows: the token or link presented, its user, and the
\* version of the password that it has verified or that the session is under.
Serving == [op : Op, pc : Pc, user : User, token : Token \cup {None},
            link : Link \cup {None}, seen : Nat]

Init ==
  /\ active = [u \in User |-> TRUE]
  /\ secret = [u \in User |-> 0]
  /\ refresh = [t \in Token |-> None]
  /\ expired = {}
  /\ link = [l \in Link |-> [user |-> None, state |-> "none"]]
  /\ mailed = {}
  /\ rowLock = [x \in User \cup Link |-> None]
  /\ req = [r \in Request |-> Idle]
  /\ faults = 0
  /\ family = [t \in Token |-> None]
  /\ under = [t \in Token |-> 0]
  /\ late = {}
  /\ spent = [l \in Link |-> 0]

(***************************************************************************)
(* Moving a request on.                                                    *)
(***************************************************************************)
At(r, op, pc) == req[r].op = op /\ req[r].pc = pc
Goto(r, pc)   == req' = [req EXCEPT ![r].pc = pc]
End(r)        == req' = [req EXCEPT ![r] = Idle]

Start(r, op, pc, u, t, l, v) ==
  /\ req[r] = Idle
  /\ req' = [req EXCEPT ![r] = [op |-> op, pc |-> pc, user |-> u, token |-> t,
                               link |-> l, seen |-> v]]

Free(x)    == rowLock[x] = None
Lock(r, X) == rowLock' = [x \in User \cup Link |-> IF x \in X THEN r ELSE rowLock[x]]
Unlock(r)  == rowLock' = [x \in User \cup Link |->
                            IF rowLock[x] = r THEN None ELSE rowLock[x]]

\* DELETE FROM refresh_tokens WHERE user_id = ?
DeleteSessions(u) ==
  refresh' = [t \in Token |-> IF refresh[t] = u THEN None ELSE refresh[t]]

(***************************************************************************)
(* Login: email_password.handleLogin verifies the password, the handler    *)
(* looks the user up again, Issue stores a refresh token.                  *)
(***************************************************************************)
LoginBegin(r, u) ==
  /\ active[u]
  /\ Start(r, "login", "resolve", u, None, None, secret[u])
  /\ UNCHANGED <<rows, expired, mailed, faults, history>>

LoginResolve(r) ==
  /\ At(r, "login", "resolve")
  /\ IF active[req[r].user] THEN Goto(r, "issue") ELSE End(r)
  /\ UNCHANGED <<rows, expired, mailed, faults, history>>

\* The INSERT waits for a transaction that holds the user's row (foreign key).
\* The last disjunct is the bound on tokens: the model has none left.
Issue(r) ==
  LET u == req[r].user
      Fresh == {t \in Token : family[t] = None} IN
  /\ req[r].pc = "issue" /\ Free(u)
  /\ End(r)
  /\ \/ \E t \in Fresh :
          /\ refresh' = [refresh EXCEPT ![t] = u]
          /\ family' = [family EXCEPT ![t] = IF req[r].op = "login" THEN t
                                             ELSE family[req[r].token]]
          /\ under' = [under EXCEPT ![t] = req[r].seen]
          /\ late' = IF active[u] /\ req[r].seen = secret[u]
                     THEN late ELSE late \cup {t}
     \/ Fresh = {} /\ UNCHANGED <<refresh, family, under, late>>
  /\ UNCHANGED <<active, secret, link, rowLock, expired, mailed, faults, spent>>

(***************************************************************************)
(* RotateRefreshToken: look the token up, consume it with a conditional    *)
(* DELETE, load the user (disabled or not) and issue the successor.        *)
(***************************************************************************)
RefreshLookup_AnyToken(r, t) ==  \* mutant: a missing row is not an error
  /\ Start(r, "refresh", IF t \in expired THEN "cleanup" ELSE "consume",
           refresh[t], t, None, under[t])
  /\ UNCHANGED <<rows, expired, mailed, faults, history>>

RefreshLookup(r, t) ==
  /\ refresh[t] # None
  /\ Start(r, "refresh", IF t \in expired THEN "cleanup" ELSE "consume",
           refresh[t], t, None, under[t])
  /\ UNCHANGED <<rows, expired, mailed, faults, history>>

RefreshConsume_IgnoresCount(r) ==  \* mutant: rows affected is not looked at
  LET t == req[r].token IN
  /\ At(r, "refresh", "consume")
  /\ refresh' = [refresh EXCEPT ![t] = None]
  /\ Goto(r, "issue")
  /\ UNCHANGED <<active, secret, link, rowLock, expired, mailed, faults, history>>

RefreshConsume(r) ==
  LET t == req[r].token IN
  /\ At(r, "refresh", "consume")
  /\ IF refresh[t] # None /\ t \notin expired
     THEN /\ refresh' = [refresh EXCEPT ![t] = None]
          /\ Goto(r, "issue")
     ELSE UNCHANGED refresh /\ Goto(r, "reuse")
  /\ UNCHANGED <<active, secret, link, rowLock, expired, mailed, faults, history>>

\* RevokeAllRefreshTokensForUser, after an expired token or a suspected reuse,
\* and revokeAllRefreshTokens, after a password change or a disable.  The
\* callers ignore its error.
RevokeAll(r) ==
  /\ req[r].pc \in {"cleanup", "reuse", "revoke"}
  /\ DeleteSessions(req[r].user)
  /\ End(r)
  /\ UNCHANGED <<active, secret, link, rowLock, expired, mailed, faults, history>>

\* Logout is the same conditional DELETE, whatever it finds.
Logout(t) ==
  /\ refresh[t] # None /\ t \notin expired
  /\ refresh' = [refresh EXCEPT ![t] = None]
  /\ UNCHANGED <<active, secret, link, rowLock, expired, mailed, req, faults, history>>

(***************************************************************************)
(* ChangePassword, ResetPassword by an administrator, Disable and Restore: *)
(* check a row read earlier, write it unconditionally, revoke.             *)
(***************************************************************************)
AccountBegin(r, op, u) ==
  /\ active[u] <=> op # "restore"
  /\ op \in {"change", "adminReset"} => secret[u] < MaxChanges
  /\ Start(r, op, "write", u, None, None, secret[u])
  /\ UNCHANGED <<rows, expired, mailed, faults, history>>

PasswordWrite(r) ==
  LET u == req[r].user IN
  /\ req[r].op \in {"change", "adminReset"} /\ req[r].pc = "write" /\ Free(u)
  /\ secret' = [secret EXCEPT ![u] = @ + 1]
  /\ Goto(r, "revoke")
  /\ UNCHANGED <<active, refresh, link, rowLock, expired, mailed, faults, history>>

DisableWrite(r) ==
  LET u == req[r].user IN
  /\ At(r, "disable", "write") /\ Free(u)
  /\ active' = [active EXCEPT ![u] = FALSE]
  /\ Goto(r, "revoke")
  /\ UNCHANGED <<secret, refresh, link, rowLock, expired, mailed, faults, history>>

RestoreWrite(r) ==
  LET u == req[r].user IN
  /\ At(r, "restore", "write") /\ Free(u)
  /\ active' = [active EXCEPT ![u] = TRUE]
  /\ End(r)
  /\ UNCHANGED <<secret, refresh, link, rowLock, expired, mailed, faults, history>>

(***************************************************************************)
(* PasswordResetService.Request and ReplacePasswordResetToken: lock the    *)
(* user's row, delete the rows of all its links, insert one, commit; then  *)
(* mail the link, and delete its row again when that fails.                *)
(***************************************************************************)
HasRow(l)  == link[l].state \in {"live", "used"}
LinksOf(u) == {l \in Link : HasRow(l) /\ link[l].user = u}

ForgotBegin(r, u) ==
  /\ active[u]
  /\ Start(r, "forgot", "lock", u, None, None, secret[u])
  /\ UNCHANGED <<rows, expired, mailed, faults, history>>

ReplaceLock_None(r) ==  \* mutant: without the SELECT ... FOR UPDATE
  /\ At(r, "forgot", "lock")
  /\ Goto(r, "delete")
  /\ UNCHANGED <<rows, expired, mailed, faults, history>>

ReplaceLock(r) ==
  /\ At(r, "forgot", "lock") /\ Free(req[r].user)
  /\ Lock(r, {req[r].user})
  /\ Goto(r, "delete")
  /\ UNCHANGED <<active, secret, refresh, link, expired, mailed, faults, history>>

\* The DELETE locks the rows it finds; they are gone for others on commit.
ReplaceDelete(r) ==
  /\ At(r, "forgot", "delete")
  /\ \A l \in LinksOf(req[r].user) : Free(l)
  /\ Lock(r, LinksOf(req[r].user))
  /\ Goto(r, "insert")
  /\ UNCHANGED <<active, secret, refresh, link, expired, mailed, faults, history>>

\* INSERT and COMMIT.  The last disjunct is the bound on links.
ReplaceInsert(r) ==
  LET Fresh == {l \in Link : link[l].state = "none"} IN
  /\ At(r, "forgot", "insert")
  /\ Unlock(r)
  /\ \/ \E l \in Fresh :
          /\ link' = [x \in Link |->
                        IF x = l THEN [user |-> req[r].user, state |-> "live"]
                        ELSE IF rowLock[x] = r THEN [link[x] EXCEPT !.state = "gone"]
                        ELSE link[x]]
          /\ req' = [req EXCEPT ![r].link = l, ![r].pc = "send"]
     \/ Fresh = {} /\ link' = link /\ End(r)
  /\ UNCHANGED <<active, secret, refresh, expired, mailed, faults, history>>

\* A delivery can fail, or be reported as failed although it went through.
ForgotSend(r) ==
  /\ At(r, "forgot", "send")
  /\ \/ mailed' = mailed \cup {req[r].link} /\ (End(r) \/ Goto(r, "drop"))
     \/ mailed' = mailed /\ Goto(r, "drop")
  /\ UNCHANGED <<rows, expired, faults, history>>

ForgotDrop(r) ==
  LET l == req[r].link IN
  /\ At(r, "forgot", "drop") /\ Free(l)
  /\ link' = [link EXCEPT ![l].state = "gone"]
  /\ End(r)
  /\ UNCHANGED <<active, secret, refresh, rowLock, expired, mailed, faults, history>>

(***************************************************************************)
(* Confirm: validate the link, hash the password (slow), and consume the   *)
(* link in a transaction that locks its row and then the user's.  Time is  *)
(* read before the validation, so an expiry in between has no effect.      *)
(***************************************************************************)
ConfirmBegin(r, l) ==
  /\ l \in mailed \ expired /\ link[l].state = "live" /\ active[link[l].user]
  /\ Start(r, "confirm", "lockLink", link[l].user, None, l, secret[link[l].user])
  /\ UNCHANGED <<rows, expired, mailed, faults, history>>

ConsumeLock(r) ==
  LET l == req[r].link IN
  /\ At(r, "confirm", "lockLink") /\ Free(l)
  /\ IF HasRow(l) THEN Lock(r, {l}) /\ Goto(r, "commit")
     ELSE rowLock' = rowLock /\ End(r)
  /\ UNCHANGED <<active, secret, refresh, link, expired, mailed, faults, history>>

Usable_AnyRow(l) == active[link[l].user]  \* mutant: used_at is not looked at again
Usable(l) == link[l].state = "live" /\ active[link[l].user]

\* The link is used, the password changed, the user's other links are deleted.
SpendLink(u, l) ==
  /\ link' = [x \in Link |->
                IF x = l THEN [link[x] EXCEPT !.state = "used"]
                ELSE IF x \in LinksOf(u) THEN [link[x] EXCEPT !.state = "gone"]
                ELSE link[x]]
  /\ secret' = [secret EXCEPT ![u] = @ + 1]
  /\ spent' = [spent EXCEPT ![l] = @ + 1]

ConsumeCommit_Retries(r) ==  \* mutant: a refused link is tried again
  LET u == req[r].user
      l == req[r].link IN
  /\ At(r, "confirm", "commit") /\ Free(u)
  /\ \A x \in LinksOf(u) \ {l} : Free(x)
  /\ IF Usable(l)
     THEN /\ SpendLink(u, l)
          /\ DeleteSessions(u)
          /\ Unlock(r)
          /\ End(r)
     ELSE UNCHANGED <<link, secret, spent, refresh, rowLock, req>>
  /\ UNCHANGED <<active, expired, mailed, faults, family, under, late>>

ConsumeCommit_KeepsSessions(r) ==  \* mutant: without DELETE FROM refresh_tokens
  LET u == req[r].user
      l == req[r].link IN
  /\ At(r, "confirm", "commit") /\ Free(u)
  /\ \A x \in LinksOf(u) \ {l} : Free(x)
  /\ IF Usable(l)
     THEN /\ SpendLink(u, l)
     ELSE UNCHANGED <<link, secret, spent>>
  /\ Unlock(r)
  /\ End(r)
  /\ UNCHANGED <<active, refresh, expired, mailed, faults, family, under, late>>

ConsumeCommit(r) ==
  LET u == req[r].user
      l == req[r].link IN
  /\ At(r, "confirm", "commit") /\ Free(u)
  /\ \A x \in LinksOf(u) \ {l} : Free(x)
  /\ IF Usable(l)
     THEN /\ SpendLink(u, l)
          /\ DeleteSessions(u)
     ELSE UNCHANGED <<link, secret, spent, refresh>>
  /\ Unlock(r)
  /\ End(r)
  /\ UNCHANGED <<active, expired, mailed, faults, family, under, late>>

(***************************************************************************)
(* The clock, the lock manager and faults.                                 *)
(***************************************************************************)
TokenExpires(t) ==
  /\ refresh[t] # None
  /\ expired' = expired \cup {t}
  /\ UNCHANGED <<rows, mailed, req, faults, history>>

LinkExpires(l) ==
  /\ link[l].state = "live"
  /\ expired' = expired \cup {l}
  /\ UNCHANGED <<rows, mailed, req, faults, history>>

\* A reset request holds the user and waits for the links, a confirmation
\* holds its link and waits for the user: the server rolls one of them back.
WaitsFor(r, q) ==
  LET held == {x \in User \cup Link : rowLock[x] = q} IN
  \/ At(r, "forgot", "delete") /\ LinksOf(req[r].user) \cap held # {}
  \/ At(r, "confirm", "commit") /\ req[r].user \in held

DeadlockVictim(r) ==
  /\ \E q \in Request : WaitsFor(r, q) /\ WaitsFor(q, r)
  /\ Unlock(r)
  /\ End(r)
  /\ UNCHANGED <<active, secret, refresh, link, expired, mailed, faults, history>>

\* A statement fails, or its context is cancelled: the handler returns and a
\* transaction rolls back.  (The callers of RevokeAll only log the failure.)
Abort(r) ==
  /\ req[r] # Idle /\ faults < MaxFaults
  /\ faults' = faults + 1
  /\ Unlock(r)
  /\ End(r)
  /\ UNCHANGED <<active, secret, refresh, link, expired, mailed, history>>

\* The process dies with everything it was serving.
Crash ==
  /\ faults < MaxFaults
  /\ faults' = faults + 1
  /\ rowLock' = [x \in User \cup Link |-> None]
  /\ req' = [r \in Request |-> Idle]
  /\ UNCHANGED <<active, secret, refresh, link, expired, mailed, history>>

Arrive(r) ==
  \/ \E u \in User :
       \/ LoginBegin(r, u) \/ ForgotBegin(r, u)
       \/ \E op \in Account : AccountBegin(r, op, u)
  \/ \E t \in Token : RefreshLookup(r, t)
  \/ \E l \in Link : ConfirmBegin(r, l)

Step(r) ==
  \/ LoginResolve(r) \/ Issue(r)
  \/ RefreshConsume(r) \/ RevokeAll(r)
  \/ PasswordWrite(r) \/ DisableWrite(r) \/ RestoreWrite(r)
  \/ ReplaceLock(r) \/ ReplaceDelete(r) \/ ReplaceInsert(r)
  \/ ForgotSend(r) \/ ForgotDrop(r)
  \/ ConsumeLock(r) \/ ConsumeCommit(r)
  \/ DeadlockVictim(r)

Next ==
  \/ \E r \in Request : Arrive(r) \/ Step(r) \/ Abort(r)
  \/ \E t \in Token : Logout(t) \/ TokenExpires(t)
  \/ \E l \in Link : LinkExpires(l)
  \/ Crash

Spec == Init /\ [][Next]_vars

\* A handler runs on; a statement that waits for a row gets it when its turn
\* in the lock queue comes, however often others take the row first.
FairSpec == Spec /\ \A r \in Request : SF_vars(Step(r))

(***************************************************************************)
(* Properties.                                                             *)
(***************************************************************************)
\* Every variable has its type (the rows of db/schema.sql and the requests).
TypeOK ==
  /\ active \in [User -> BOOLEAN]
  /\ secret \in [User -> Nat]
  /\ refresh \in [Token -> User \cup {None}]
  /\ expired \subseteq Token \cup Link
  /\ link \in [Link -> [user : User \cup {None}, state : {"none", "live", "used", "gone"}]]
  /\ \A l \in Link : link[l].state \in {"live", "used"} => link[l].user \in User
  /\ mailed \subseteq Link
  /\ rowLock \in [User \cup Link -> Request \cup {None}]
  /\ req \in [Request -> Serving \cup {Idle}]
  /\ faults \in Nat
  /\ family \in [Token -> Token \cup {None}]
  /\ under \in [Token -> Nat]
  /\ late \subseteq Token
  /\ spent \in [Link -> Nat]

\* A session has one valid token.  Of the tokens that descend from one login,
\* by any number of concurrent refreshes with the same or an older token, at
\* most one is stored, and none while a rotation is about to store its
\* successor: what the conditional DELETE in RotateRefreshToken is for.
Rotating(r) == At(r, "refresh", "issue")
Holders(t) == {s \in Token : refresh[s] # None /\ family[s] = t}
                \cup {r \in Request : Rotating(r) /\ family[req[r].token] = t}

OneTokenPerLogin == \A t \in Token : \A x, y \in Holders(t) : x = y

\* A user has at most one row in password_reset_tokens: no key says so, and
\* the code relies on locking the user's row ("two transactions can both
\* observe no token, then insert two live reset links").
OneLinkRow ==
  \A l, m \in Link : HasRow(l) /\ HasRow(m) /\ link[l].user = link[m].user => l = m

\* A mailed link changes a password at most once, whatever was validated
\* before the password was hashed: Consume looks at used_at under its lock.
LinkSpentOnce == \A l \in Link : spent[l] <= 1

\* Revocation reaches every session it can see.  A stored token whose user is
\* disabled, or which goes back to a login with an earlier password, was
\* issued after that change, or the request that made the change has yet to
\* revoke; only a fault leaves it behind.
Outdated(t) == refresh[t] # None /\ (~ active[refresh[t]] \/ under[t] # secret[refresh[t]])

RevocationReaches ==
  faults = 0 => \A t \in Token : Outdated(t) /\ t \notin late =>
    \E r \in Request : req[r].pc = "revoke" /\ req[r].user = refresh[t]

\* Every request ends: two that wait for each other's rows, one is rolled back,
\* and no way out of a transaction keeps its locks.
RequestsEnd == \A r \in Request : req[r] # Idle ~> req[r] = Idle
=============================================================================
