---------------------------- MODULE Certificates ----------------------------
(***************************************************************************)
(* Issuing and revoking certificates (internal/certificates/service.go and *)
(* repo.go).  The orders service asks for a certificate whenever a degree  *)
(* is bought or a free item enrolled in, as often as that happens for the  *)
(* same award; a failure is logged and forgotten.                          *)
(*                                                                         *)
(* IssueCertificate is a SELECT of the award, a SELECT of the last serial  *)
(* number and an INSERT, in no transaction.  The table has a unique key on *)
(* the serial number and none on the award.                                *)
(***************************************************************************)
EXTENDS Naturals, FiniteSets

CONSTANTS
  Award,     \* the (user, type, ref) triples certificates are asked for
  Type,
  TypeOf,    \* the type of an award, with the year the prefix of its serials
  Cert,      \* ids of rows; their number bounds the certificates issued
  Request,   \* slots of requests being served at the same time
  Capacity,  \* the first number that is wider than "%04d" pads: 10000
  Radix,     \* the radix numbers are written in: 10
  None

ASSUME TypeOfAssumption   == TypeOf \in [Award -> Type]
ASSUME NoneAssumption     == None \notin Award \cup Cert
ASSUME CapacityAssumption == /\ Capacity \in Nat /\ Radix \in Nat \ {0}
                             /\ Capacity \div Radix \in 1 .. Capacity - 2

VARIABLES
  cert,      \* certificates: the rows
  trail,     \* audit_logs: the "certificate.revoke" entries of a certificate
  req,       \* the requests in flight
  failed     \* a statement has failed or a request was cut off

vars == <<cert, trail, req, failed>>

NoCert == [award |-> None, serial |-> 0, revoked |-> FALSE, overtaken |-> FALSE]
\* overtaken tells that, when the row was inserted, its award had got another
\* certificate since the request had looked for one.
Row    == [award : Award, serial : Nat \ {0}, revoked : BOOLEAN, overtaken : BOOLEAN]
Idle   == [pc |-> "idle"]
Issue  == [pc : {"number", "insert"}, award : Award, serial : Nat, overtaken : BOOLEAN]
Revoke == [pc : {"revoke", "audit"}, id : Cert]

Init ==
  /\ cert = [c \in Cert |-> NoCert]
  /\ trail = [c \in Cert |-> 0]
  /\ req = [r \in Request |-> Idle]
  /\ failed = FALSE

Issued     == {c \in Cert : cert[c] # NoCert}
Having(a)  == {c \in Issued : cert[c].award = a}
Serials(t) == {cert[c].serial : c \in {d \in Issued : TypeOf[cert[d].award] = t}}

(***************************************************************************)
(* ORDER BY serial_number DESC compares the strings: "10000" is before     *)
(* "9999".  With one digit more, the leading digits decide.                *)
(***************************************************************************)
Wide(n) == n >= Capacity
Before(m, n) ==
  \/ (Wide(m) <=> Wide(n)) /\ m < n
  \/ ~ Wide(m) /\ Wide(n) /\ m <= n \div Radix
  \/ Wide(m) /\ ~ Wide(n) /\ m \div Radix < n

Last(t) == CHOOSE n \in Serials(t) : \A m \in Serials(t) \ {n} : Before(m, n)

NextSerial_Last(t) ==  \* mutant: the last number itself
  IF Serials(t) = {} THEN 1 ELSE Last(t)

NextSerial_FromZero(t) ==  \* mutant: the numbers start at 0000
  IF Serials(t) = {} THEN 0 ELSE Last(t) + 1

NextSerial(t) == IF Serials(t) = {} THEN 1 ELSE Last(t) + 1

(***************************************************************************)
(* IssueCertificate.                                                       *)
(***************************************************************************)
IssueCheck_ValidOnly(r, a) ==  \* mutant: a revoked certificate is issued again
  /\ req[r] = Idle
  /\ {c \in Having(a) : ~ cert[c].revoked} = {}
  /\ req' = [req EXCEPT ![r] =
       [pc |-> "number", award |-> a, serial |-> 0, overtaken |-> FALSE]]
  /\ UNCHANGED <<cert, trail, failed>>

\* The row that is found, also a revoked one, is the answer.
IssueCheck(r, a) ==
  /\ req[r] = Idle
  /\ req' = [req EXCEPT ![r] =
       IF Having(a) # {} THEN Idle
       ELSE [pc |-> "number", award |-> a, serial |-> 0, overtaken |-> FALSE]]
  /\ UNCHANGED <<cert, trail, failed>>

IssueNumber(r) ==
  /\ req[r].pc = "number"
  /\ req' = [req EXCEPT ![r].pc = "insert",
                        ![r].serial = NextSerial(TypeOf[req[r].award])]
  /\ UNCHANGED <<cert, trail, failed>>

\* The other requests that will insert a certificate of award a.
Overtake(r, a) ==
  req' = [q \in Request |->
    IF q = r THEN Idle
    ELSE IF req[q].pc \in {"number", "insert"} /\ req[q].award = a
    THEN [req[q] EXCEPT !.overtaken = TRUE] ELSE req[q]]

\* uuid.NewString: an id that no row has.
NewId == CHOOSE c \in Cert : cert[c] = NoCert

InsertRow(r) ==
  /\ Issued # Cert
  /\ cert' = [cert EXCEPT ![NewId] =
       [award |-> req[r].award, serial |-> req[r].serial, revoked |-> FALSE,
        overtaken |-> req[r].overtaken]]
  /\ Overtake(r, req[r].award)
  /\ UNCHANGED <<trail, failed>>

IssueInsert_NoKey(r) ==  \* mutant: no unique key on serial_number
  req[r].pc = "insert" /\ InsertRow(r)

IssueInsert(r) ==
  /\ req[r].pc = "insert"
  /\ req[r].serial \notin Serials(TypeOf[req[r].award])
  /\ InsertRow(r)

\* Duplicate key: no retry, the caller logs a warning.
IssueConflict(r) ==
  /\ req[r].pc = "insert"
  /\ req[r].serial \in Serials(TypeOf[req[r].award])
  /\ req' = [req EXCEPT ![r] = Idle]
  /\ UNCHANGED <<cert, trail, failed>>

(***************************************************************************)
(* RevokeCertificate.                                                      *)
(***************************************************************************)
RevokeRead(r, c) ==
  /\ req[r] = Idle
  /\ c \in Issued /\ ~ cert[c].revoked
  /\ req' = [req EXCEPT ![r] = [pc |-> "revoke", id |-> c]]
  /\ UNCHANGED <<cert, trail, failed>>

RevokeWrite_Unconditional(r) ==  \* mutant: without AND revoked_at IS NULL
  /\ req[r].pc = "revoke"
  /\ cert' = [cert EXCEPT ![req[r].id].revoked = TRUE]
  /\ req' = [req EXCEPT ![r].pc = "audit"]
  /\ UNCHANGED <<trail, failed>>

\* UPDATE ... WHERE revoked_at IS NULL; no row affected is an error.
RevokeWrite(r) ==
  /\ req[r].pc = "revoke"
  /\ cert' = [cert EXCEPT ![req[r].id].revoked = TRUE]
  /\ req' = [req EXCEPT ![r] =
       IF cert[req[r].id].revoked THEN Idle ELSE [@ EXCEPT !.pc = "audit"]]
  /\ UNCHANGED <<trail, failed>>

RevokeAudit(r) ==
  /\ req[r].pc = "audit"
  /\ trail' = [trail EXCEPT ![req[r].id] = @ + 1]
  /\ req' = [req EXCEPT ![r] = Idle]
  /\ UNCHANGED <<cert, failed>>

Fail(r) ==
  /\ req[r] # Idle
  /\ req' = [req EXCEPT ![r] = Idle]
  /\ failed' = TRUE
  /\ UNCHANGED <<cert, trail>>

Step(r) == \/ IssueNumber(r) \/ IssueInsert(r) \/ IssueConflict(r)
           \/ RevokeWrite(r) \/ RevokeAudit(r)
Arrive(r) == \/ \E a \in Award : IssueCheck(r, a)
             \/ \E c \in Cert : RevokeRead(r, c)

Next == \E r \in Request : Arrive(r) \/ Step(r) \/ Fail(r)
Spec == Init /\ [][Next]_vars

\* A handler that has begun goes on; nothing makes anyone send a request.
FairSpec == Spec /\ \A r \in Request : WF_vars(Step(r))

-----------------------------------------------------------------------------
(***************************************************************************)
(* Properties.                                                             *)
(***************************************************************************)
TypeOK ==
  /\ cert \in [Cert -> Row \cup {NoCert}]
  /\ trail \in [Cert -> Nat]
  /\ req \in [Request -> {Idle} \cup Issue \cup Revoke]
  /\ failed \in BOOLEAN

\* The serials of a type are 1, 2, 3 ... without a gap or a repetition,
\* whatever collides, is revoked or fails; and they end at Capacity, where the
\* last serial in the order of strings stops being the highest number.
SerialsInOrder ==
  /\ \A t \in Type : \E n \in 0 .. Capacity : Serials(t) = 1 .. n
  /\ \A c, d \in Issued :
       TypeOf[cert[c].award] = TypeOf[cert[d].award]
         /\ cert[c].serial = cert[d].serial => c = d

\* An award has two certificates only if one of them was inserted by a request
\* that another one overtook; in particular a revoked one is not replaced.
OneEach ==
  \A c, d \in Issued :
    cert[c].award = cert[d].award /\ ~ cert[c].overtaken /\ ~ cert[d].overtaken
      => c = d

\* Of two administrators who revoke a certificate at the same time one is told
\* that it is revoked already, and the audit log has the revocation once.
RevokedOnce ==
  \A c \in Cert : trail[c] <= IF cert[c].revoked THEN 1 ELSE 0

\* A request of type t that has not drawn yet, or whose number is still free.
InTime(r, t) == \/ req[r].pc = "number" /\ TypeOf[req[r].award] = t
                \/ req[r].pc = "insert" /\ TypeOf[req[r].award] = t
                   /\ req[r].serial \notin Serials(t)

\* Two requests that draw the same number do not both lose: while a type has
\* numbers left, one of the concurrent issues gets its certificate.
SomeIssueSucceeds ==
  \A t \in Type : \A n \in 0 .. Capacity - 1 :
    Cardinality(Serials(t)) = n /\ (\E r \in Request : InTime(r, t))
      ~> Cardinality(Serials(t)) > n \/ failed \/ Issued = Cert
=============================================================================
