----------------------------- MODULE Identities -----------------------------
(***************************************************************************)
(* How a person reaches a user row (internal/auth: service.go, state.go,   *)
(* email_password.go, repo.go; handler/auth.go; users.UnlinkIdentity):     *)
(* registration, password and external sign-in, linking and unlinking.     *)
(*                                                                         *)
(* A row of users is named by its email, which is unique and never freed.  *)
(* A row of user_provider_accounts is named by its (provider,              *)
(* provider_user_id), which is unique and counts unlinked rows: an account *)
(* of the provider email_password is named by the email itself, one of an  *)
(* external provider by a member of Account.  No operation is a            *)
(* transaction: every step below is one statement, or a read with the      *)
(* early returns that follow it.                                           *)
(***************************************************************************)
EXTENDS Naturals, FiniteSets

CONSTANTS
  Email,     \* one user each
  Account,   \* identities at the external providers
  Mail,      \* the email the provider reports for an account
  State,     \* state values of OAuth and SAML that are in use at a time
  Request,   \* slots of requests being served at the same time
  Banned,    \* bound: the users an administrator may disable
  None

ASSUME NamesAssumption ==
  /\ None \notin Email \cup Account \cup State
  /\ Email \cap Account = {}
  /\ Mail \in [Account -> Email]
  /\ Banned \subseteq Email

VARIABLES
  user,      \* users.deleted_at: no row, active or disabled
  password,  \* users with a password_hash
  acct,      \* user_provider_accounts: owner, is_primary, deleted_at
  state,     \* the state store: flow and user of an authorization under way
  req,       \* the requests in flight
  via,       \* history: the state, or password, that attached an account
  cut        \* history: users whose first account could not be inserted

tables  == <<user, password, acct>>
history == <<via, cut>>
vars    == <<tables, state, req, history>>

Identity  == Email \cup Account
MailOf(a) == IF a \in Email THEN a ELSE Mail[a]
Pc        == {"check", "insert", "bind", "lookup", "match", "link", "create",
              "attach", "count", "unlink", "enter"}
NoAcct    == [user |-> None]
AcctRow   == [user : Email, primary : BOOLEAN, live : BOOLEAN]
NoState   == [flow |-> "none"]
StateRow  == [flow : {"login", "link"}, user : Email \cup {None}]
Idle      == [pc |-> "idle"]
Password  == [flow |-> "password", user |-> None]
Grant     == StateRow \cup {NoState, Password}
\* What a request is about; verified is what the provider says of the email,
\* state and grant are the state value it has taken and what that stood for.
Busy      == [pc : Pc, who : Identity, user : Email \cup {None},
              verified : BOOLEAN, state : State \cup {None}, grant : Grant]

Init ==
  /\ user = [e \in Email |-> "none"]
  /\ password = {}
  /\ acct = [a \in Identity |-> NoAcct]
  /\ state = [s \in State |-> NoState]
  /\ req = [r \in Request |-> Idle]
  /\ via = [a \in Identity |-> NoState]
  /\ cut = {}

At(r, pc) == req[r] # Idle /\ req[r].pc = pc
Who(r)    == req[r].who
Goto(r, pc) == req' = [req EXCEPT ![r].pc = pc]
End(r)      == req' = [req EXCEPT ![r] = Idle]
Begin(r, q) == req[r] = Idle /\ req' = [req EXCEPT ![r] = q]
Serving(pc, a, u) == [pc |-> pc, who |-> a, user |-> u, verified |-> TRUE,
                      state |-> None, grant |-> NoState]

Bound(a)    == acct[a] # NoAcct                  \* the unique key is taken
Found(a)    == Bound(a) /\ acct[a].live          \* GetProviderAccountByProvider
Owned(e)    == {a \in Identity : Bound(a) /\ acct[a].user = e}
Primaries(e) == {a \in Owned(e) : acct[a].primary /\ acct[a].live}

\* INSERT INTO user_provider_accounts; a taken key is an error.
Bind(a, e, primary) ==
  acct' = [acct EXCEPT ![a] = [user |-> e, primary |-> primary, live |-> TRUE]]

(***************************************************************************)
(* Users: registration, the administrator's form, and what the other       *)
(* modules do to a user (disable, restore, a password by reset).           *)
(***************************************************************************)
RegisterCheck(r, e) ==
  /\ user[e] # "active"
  /\ Begin(r, Serving("insert", e, e))
  /\ UNCHANGED <<tables, state, history>>

\* CreateUser of handleRegister: the key on email decides the race.
RegisterUser(r) ==
  /\ At(r, "insert")
  /\ IF user[Who(r)] = "none"
     THEN /\ user' = [user EXCEPT ![Who(r)] = "active"]
          /\ password' = password \cup {Who(r)}
          /\ Goto(r, "bind")
     ELSE End(r) /\ UNCHANGED <<user, password>>
  /\ UNCHANGED <<acct, state, history>>

\* users.Create: no provider account is inserted.  The check on the email
\* only turns the error of the key into a message.
AdminCreate(e) ==
  /\ user[e] = "none"
  /\ user' = [user EXCEPT ![e] = "active"]
  /\ password' = password \cup {e}
  /\ UNCHANGED <<acct, state, req, history>>

Disable(e) ==
  /\ e \in Banned /\ user[e] = "active"
  /\ user' = [user EXCEPT ![e] = "disabled"]
  /\ UNCHANGED <<password, acct, state, req, history>>

Restore(e) ==
  /\ user[e] = "disabled"
  /\ user' = [user EXCEPT ![e] = "active"]
  /\ UNCHANGED <<password, acct, state, req, history>>

ResetPassword_AnyUser(e) ==
  /\ password' = password \cup {e}
  /\ UNCHANGED <<user, acct, state, req, history>>

ResetPassword(e) ==
  /\ user[e] = "active"
  /\ password' = password \cup {e}
  /\ UNCHANGED <<user, acct, state, req, history>>

(***************************************************************************)
(* The state of a browser flow: saved at the start, taken once by a        *)
(* callback, or forgotten by the store when its lifetime is over.  A       *)
(* callback of another flow or user spends the state as Expire does.  A    *)
(* fresh random value is one that no store entry and no request holds.     *)
(***************************************************************************)
Holds(r, s) == req[r] # Idle /\ req[r].state = s
Authorize(s, flow, u) ==
  /\ state[s] = NoState
  /\ \A r \in Request : ~Holds(r, s)
  /\ state' = [state EXCEPT ![s] = [flow |-> flow, user |-> u]]
  /\ UNCHANGED <<tables, req, history>>

StartLogin(s)   == Authorize(s, "login", None)
StartLink(s, e) == user[e] # "none" /\ Authorize(s, "link", e)

Expire(s) ==
  /\ state[s] # NoState
  /\ state' = [state EXCEPT ![s] = NoState]
  /\ UNCHANGED <<tables, req, history>>

\* GET and DEL in one script; then the flow and the user must match.
Consume_Keeps(s, flow, u) ==
  /\ state[s] # NoState
  /\ state[s].flow = flow /\ state[s].user = u
  /\ UNCHANGED state
Consume_AnyFlow(s, flow, u) ==
  /\ state[s] # NoState
  /\ state' = [state EXCEPT ![s] = NoState]
Consume(s, flow, u) ==
  /\ state[s] # NoState
  /\ state[s].flow = flow /\ state[s].user = u
  /\ state' = [state EXCEPT ![s] = NoState]

(***************************************************************************)
(* Signing in: Authenticate, AuthenticateCallback and upsertUser.          *)
(***************************************************************************)
Login(r, e) ==
  /\ user[e] = "active" /\ e \in password
  /\ Begin(r, Serving("lookup", e, e))
  /\ UNCHANGED <<tables, state, history>>

Callback(r, a, s, verified) ==
  /\ Consume(s, "login", None)
  /\ Begin(r, [Serving("lookup", a, None) EXCEPT !.verified = verified,
                                                 !.state = s])
  /\ UNCHANGED <<tables, history>>

\* 1. The account is bound: its user signs in.
Lookup(r) ==
  /\ At(r, "lookup")
  /\ IF ~Found(Who(r))
     THEN req' = [req EXCEPT ![r].pc = "match", ![r].state = None]
     ELSE IF user[acct[Who(r)].user] = "active" THEN Goto(r, "enter")
     ELSE End(r)
  /\ UNCHANGED <<tables, state, history>>

\* 2. A user has the email, which an external provider must have verified.
\* 3. Nobody has it; a password identity without its user is an error.
Match(r) ==
  /\ At(r, "match")
  /\ LET active == user[MailOf(Who(r))] = "active"
         local  == Who(r) \in Email
     IN CASE active /\ (local \/ req[r].verified) -> Goto(r, "link")
          [] ~active /\ ~local                    -> Goto(r, "create")
          [] OTHER                                -> End(r)
  /\ UNCHANGED <<tables, state, history>>

Link_Primary(r) ==
  /\ At(r, "link")
  /\ IF Bound(Who(r))
     THEN End(r) /\ UNCHANGED acct
     ELSE Bind(Who(r), MailOf(Who(r)), TRUE) /\ Goto(r, "enter")
  /\ UNCHANGED <<user, password, state, history>>

Link(r) ==
  /\ At(r, "link")
  /\ IF Bound(Who(r))
     THEN End(r) /\ UNCHANGED acct
     ELSE Bind(Who(r), MailOf(Who(r)), FALSE) /\ Goto(r, "enter")
  /\ UNCHANGED <<user, password, state, history>>

CreateUser(r) ==
  /\ At(r, "create")
  /\ IF user[MailOf(Who(r))] = "none"
     THEN user' = [user EXCEPT ![MailOf(Who(r))] = "active"] /\ Goto(r, "bind")
     ELSE End(r) /\ UNCHANGED user
  /\ UNCHANGED <<password, acct, state, history>>

\* The first account of a new user; when its key is taken the user stays.
BindFirst(r) ==
  /\ At(r, "bind")
  /\ IF Bound(Who(r))
     THEN End(r) /\ cut' = cut \cup {MailOf(Who(r))} /\ UNCHANGED acct
     ELSE /\ Bind(Who(r), MailOf(Who(r)), TRUE)
          /\ Goto(r, IF Who(r) \in Email THEN "lookup" ELSE "enter")
          /\ UNCHANGED cut
  /\ UNCHANGED <<user, password, state, via>>

\* The handler issues the tokens of the active user with the email, if any
\* (GetUserByEmail), whichever user the account is bound to: tables stay.
Enter(r) ==
  /\ At(r, "enter")
  /\ End(r)
  /\ UNCHANGED <<tables, state, history>>

(***************************************************************************)
(* Linking by a signed-in user, and unlinking.  A session outlives the     *)
(* disabling of its user, so the user need not be active.                  *)
(***************************************************************************)
LinkCallback(r, u, a, s) ==
  /\ Consume(s, "link", u)
  /\ Begin(r, [Serving("attach", a, u) EXCEPT !.state = s, !.grant = state[s]])
  /\ UNCHANGED <<tables, history>>

\* LinkIdentity of the provider email_password verifies a password instead.
LinkPassword(r, u, e) ==
  /\ user[u] # "none"
  /\ user[e] = "active" /\ e \in password
  /\ Begin(r, [Serving("attach", e, u) EXCEPT !.grant = Password])
  /\ UNCHANGED <<tables, state, history>>

Attach(r) ==
  /\ At(r, "attach")
  /\ IF Bound(Who(r))
     THEN UNCHANGED <<acct, via>>
     ELSE /\ Bind(Who(r), req[r].user, FALSE)
          /\ via' = [via EXCEPT ![Who(r)] = req[r].grant]
  /\ End(r)
  /\ UNCHANGED <<user, password, state, cut>>

UnlinkRead(r, u, a) ==
  /\ Found(a) /\ acct[a].user = u
  /\ Begin(r, Serving(IF acct[a].primary THEN "count" ELSE "unlink", a, u))
  /\ UNCHANGED <<tables, state, history>>

UnlinkCount_Skips(r) ==
  /\ At(r, "count")
  /\ Goto(r, "unlink")
  /\ UNCHANGED <<tables, state, history>>

UnlinkCount(r) ==
  /\ At(r, "count")
  /\ IF Cardinality(Primaries(req[r].user)) > 1 THEN Goto(r, "unlink") ELSE End(r)
  /\ UNCHANGED <<tables, state, history>>

UnlinkWrite(r) ==
  /\ At(r, "unlink")
  /\ acct' = [acct EXCEPT ![Who(r)].live = FALSE]
  /\ End(r)
  /\ UNCHANGED <<user, password, state, history>>

\* A statement fails, the client goes away or the process ends: what was
\* written stays, and a user may be left without an account.
Fail(r) ==
  /\ req[r] # Idle
  /\ cut' = IF At(r, "bind") THEN cut \cup {MailOf(Who(r))} ELSE cut
  /\ End(r)
  /\ UNCHANGED <<tables, state, via>>

Users  == \E e \in Email : \/ AdminCreate(e) \/ Disable(e) \/ Restore(e)
                           \/ ResetPassword(e)
States == \E s \in State : \/ StartLogin(s) \/ Expire(s)
                           \/ \E e \in Email : StartLink(s, e)
Arrive(r) ==
  \/ \E e \in Email : RegisterCheck(r, e) \/ Login(r, e)
  \/ \E a \in Account, s \in State, v \in BOOLEAN : Callback(r, a, s, v)
  \/ \E u \in Email, a \in Account, s \in State : LinkCallback(r, u, a, s)
  \/ \E u, e \in Email : LinkPassword(r, u, e)
  \/ \E u \in Email, a \in Identity : UnlinkRead(r, u, a)
Serve(r) ==
  \/ RegisterUser(r) \/ Lookup(r) \/ Match(r) \/ Link(r) \/ CreateUser(r)
  \/ BindFirst(r) \/ Enter(r) \/ Attach(r) \/ UnlinkCount(r) \/ UnlinkWrite(r)
  \/ Fail(r)

Next == Users \/ States \/ \E r \in Request : Arrive(r) \/ Serve(r)
Spec == Init /\ [][Next]_vars

-----------------------------------------------------------------------------
(***************************************************************************)
(* Properties.                                                             *)
(***************************************************************************)
TypeOK ==
  /\ user \in [Email -> {"none", "active", "disabled"}]
  /\ password \subseteq {e \in Email : user[e] # "none"}
  /\ acct \in [Identity -> AcctRow \cup {NoAcct}]
  /\ state \in [State -> StateRow \cup {NoState}]
  /\ req \in [Request -> Busy \cup {Idle}]
  /\ via \in [Identity -> Grant]
  /\ cut \subseteq Email

\* Whatever the order of registrations, sign-ins and links, a user has at
\* most one primary account, unlinked ones included: UnlinkIdentity counts the
\* live ones and means to keep the last.
OnePrimary ==
  \A e \in Email : Cardinality({a \in Owned(e) : acct[a].primary}) <= 1

\* No sequence of unlinking, failing sign-ins and retries leaves a user with
\* neither a password nor a live account of the user's own email, unless the
\* insert of the user's first account was lost (CreateUser and
\* CreateProviderAccount are two statements).
WayIn ==
  \A e \in Email : user[e] # "none" =>
    \/ e \in password \cup cut
    \/ \E a \in Owned(e) : acct[a].live /\ MailOf(a) = e
    \/ \E r \in Request : At(r, "bind") /\ MailOf(Who(r)) = e

\* An account attached by a link callback belongs to the user who began that
\* link flow: no login state and no state of another user attaches anything.
LinksAreConsented ==
  \A a \in Account : via[a] # NoState =>
    via[a] = [flow |-> "link", user |-> acct[a].user]

\* A state that a callback has taken is nobody else's: neither the store nor
\* another callback still has it, however the callbacks race.
StateSpentOnce ==
  \A r \in Request, s \in State : Holds(r, s) =>
    state[s] = NoState /\ \A q \in Request \ {r} : ~Holds(q, s)
=============================================================================
