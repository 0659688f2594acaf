------------------------- MODULE CertificatesProofs -------------------------
(***************************************************************************)
(* Proofs about Certificates, for any awards, types, rows and requests and *)
(* any width of the serial numbers.                                        *)
(***************************************************************************)
EXTENDS Certificates, TLAPS

Issues(r)  == req[r].pc \in {"number", "insert"}
Revokes(r) == req[r].pc \in {"revoke", "audit"}

\* The fields a request has follow from its pc.
LEMMA Shape ==
  ASSUME TypeOK, NEW r \in Request
  PROVE  /\ req[r] = Idle \/ req[r] \in Issue \/ req[r] \in Revoke
         /\ Issues(r) => req[r] \in Issue
         /\ Revokes(r) => req[r] \in Revoke
BY DEF TypeOK, Issues, Revokes, Idle, Issue, Revoke

\* A row is a certificate or is not there.
LEMMA RowShape ==
  ASSUME TypeOK, NEW c \in Cert
  PROVE  /\ c \in Issued <=> cert[c] \in Row
         /\ NoCert \notin Row
BY NoneAssumption DEF TypeOK, Issued, Row, NoCert

\* A revocation under way names a row that is there.
RevokesIssued == \A r \in Request : Revokes(r) => req[r].id \in Issued

\* The award an issue under way is for has a certificate only if another
\* request has overtaken this one.
LooksForMissing ==
  \A r \in Request, c \in Issued :
    Issues(r) /\ cert[c].award = req[r].award => req[r].overtaken

\* The number an issue has drawn is the first one or the next of one in use.
DrawnBy(r) ==
  req[r].pc = "insert" =>
    /\ req[r].serial \in 1 .. Capacity
    /\ req[r].serial = 1 \/ req[r].serial - 1 \in Serials(TypeOf[req[r].award])
Drawn == \A r \in Request : DrawnBy(r)

\* A revocation that is about to be logged has set revoked_at itself.
AuditsOnce ==
  \A r \in Request : req[r].pc = "audit" =>
    /\ cert[req[r].id].revoked /\ trail[req[r].id] = 0
    /\ \A q \in Request \ {r} : req[q].pc = "audit" => req[q].id # req[r].id

Types == TypeOK /\ RevokesIssued
IInv  == Types /\ SerialsInOrder /\ Drawn /\ OneEach /\ LooksForMissing
         /\ RevokedOnce /\ AuditsOnce

-----------------------------------------------------------------------------
(* The next serial number *)

\* While the numbers of a type run to n, the next one drawn is n + 1, and at
\* Capacity it is Capacity once more: "9999" is still the last string.
LEMMA NextNumber ==
  ASSUME NEW t \in Type, NEW n \in 0 .. Capacity, Serials(t) = 1 .. n
  PROVE  NextSerial(t) = IF n < Capacity THEN n + 1 ELSE Capacity
<1> DEFINE m == IF n < Capacity THEN n ELSE Capacity - 1
           D == Capacity \div Radix
<1>0. n \in Nat /\ Capacity \in Nat /\ D \in 1 .. Capacity - 2
  BY CapacityAssumption
<1>1. CASE n = 0
  BY <1>0, <1>1 DEF NextSerial
<1>2. CASE n # 0
  <2>1. m \in Serials(t)
    BY <1>0, <1>2
  <2>2. \A k \in Serials(t) \ {m} : Before(k, m) /\ ~ Before(m, k)
    <3> SUFFICES ASSUME NEW k \in Serials(t) \ {m} PROVE Before(k, m) /\ ~ Before(m, k)
      OBVIOUS
    <3>1. k \in 1 .. n /\ k # m /\ ~ Wide(m)
      BY <1>0 DEF Wide
    <3>2. CASE ~ Wide(k)
      BY <1>0, <3>1, <3>2 DEF Before, Wide
    <3>3. CASE Wide(k)
      <4>1. k = Capacity /\ m = Capacity - 1
        BY <1>0, <3>1, <3>3 DEF Wide
      <4>2. k \div Radix = D
        BY <4>1
      <4> HIDE DEF D, m
      <4> QED
        BY <1>0, <3>1, <3>3, <4>1, <4>2 DEF Before
    <3> QED
      BY <3>2, <3>3
  <2> HIDE DEF m
  <2>3. Last(t) = m
    BY <2>1, <2>2 DEF Last
  <2> QED
    BY <1>0, <1>2, <2>1, <2>3 DEF NextSerial, m
<1> QED
  BY <1>1, <1>2

-----------------------------------------------------------------------------
(* What the steps do *)

\* Only request r changes.
Alone(r)  == \A q \in Request \ {r} : req'[q] = req[q]

LEMMA SameRows ==
  ASSUME cert' = cert
  PROVE  /\ Issued' = Issued
         /\ \A a \in Award : Having(a)' = Having(a)
         /\ \A t \in Type : Serials(t)' = Serials(t)
BY DEF Issued, Having, Serials

\* An insert adds one row, with the serial and the award of its request.
LEMMA InsertEffect ==
  ASSUME Types, NEW r \in Request, IssueInsert(r)
  PROVE  /\ req[r] \in Issue /\ NewId \in Cert \ Issued
         /\ Issued' = Issued \cup {NewId}
         /\ \A c \in Cert \ {NewId} : cert'[c] = cert[c]
         /\ cert'[NewId] = [award |-> req[r].award, serial |-> req[r].serial,
                            revoked |-> FALSE, overtaken |-> req[r].overtaken]
         /\ req'[r] = Idle
         /\ trail' = trail
         /\ \A q \in Request \ {r} :
              /\ req'[q] = req[q] \/ req'[q] = [req[q] EXCEPT !.overtaken = TRUE]
              /\ Issues(q) /\ req[q].award = req[r].award =>
                   req'[q] = [req[q] EXCEPT !.overtaken = TRUE]
              /\ ~ Issues(q) => req'[q] = req[q]
<1>1. req[r] \in Issue
  BY Shape DEF IssueInsert, Types, Issues
<1>2. NewId \in Cert /\ cert[NewId] = NoCert
  BY DEF IssueInsert, InsertRow, NewId, Issued
<1> DEFINE new == [award |-> req[r].award, serial |-> req[r].serial,
                   revoked |-> FALSE, overtaken |-> req[r].overtaken]
<1>3. cert' = [cert EXCEPT ![NewId] = new] /\ trail' = trail
  BY DEF IssueInsert, InsertRow
<1>4. cert'[NewId] = new /\ \A c \in Cert \ {NewId} : cert'[c] = cert[c]
  BY <1>2, <1>3 DEF Types, TypeOK
<1>5. new # NoCert
  BY <1>1, NoneAssumption DEF Issue, NoCert
<1>6. Issued' = Issued \cup {NewId}
  BY <1>2, <1>4, <1>5 DEF Issued
<1>7. Overtake(r, req[r].award)
  BY DEF IssueInsert, InsertRow
<1> QED
  BY <1>1, <1>2, <1>3, <1>4, <1>6, <1>7 DEF Overtake, Issues, Issued

\* The serials in use and the certificates of an award after an insert.
LEMMA InsertAdds ==
  ASSUME Types, NEW r \in Request, IssueInsert(r)
  PROVE  /\ \A t \in Type : Serials(t)' = IF t = TypeOf[req[r].award]
                                          THEN Serials(t) \cup {req[r].serial}
                                          ELSE Serials(t)
         /\ \A a \in Award : Having(a)' = IF a = req[r].award
                                          THEN Having(a) \cup {NewId} ELSE Having(a)
<1>1. \A c \in Issued : c \in Cert /\ cert'[c] = cert[c]
  BY InsertEffect DEF Issued
<1>0. cert'[NewId] = [award |-> req[r].award, serial |-> req[r].serial,
                      revoked |-> FALSE, overtaken |-> req[r].overtaken]
  BY InsertEffect
<1>2. cert'[NewId].award = req[r].award /\ cert'[NewId].serial = req[r].serial
  BY <1>0
<1>3. Issued' = Issued \cup {NewId} /\ NewId \notin Issued
  BY InsertEffect
<1> QED
  BY <1>1, <1>2, <1>3 DEF Serials, Having

\* A revocation changes no award and no serial number.
LEMMA RevokeEffect ==
  ASSUME Types, NEW r \in Request, RevokeWrite(r)
  PROVE  /\ req[r] \in Revoke /\ req[r].id \in Issued /\ req[r].id \in Cert
         /\ cert'[req[r].id] = [cert[req[r].id] EXCEPT !.revoked = TRUE]
         /\ \A c \in Cert \ {req[r].id} : cert'[c] = cert[c]
         /\ Issued' = Issued /\ trail' = trail
         /\ \A a \in Award : Having(a)' = Having(a)
         /\ \A t \in Type : Serials(t)' = Serials(t)
         /\ Alone(r)
         /\ req'[r] = IF cert[req[r].id].revoked THEN Idle
                      ELSE [req[r] EXCEPT !.pc = "audit"]
<1>1. req[r] \in Revoke /\ req[r].id \in Issued
  BY Shape DEF RevokeWrite, Types, Revokes, RevokesIssued
<1>2. req[r].id \in Cert /\ cert[req[r].id] \in Row
  BY <1>1, RowShape DEF Types, Issued
<1>3. cert' = [cert EXCEPT ![req[r].id].revoked = TRUE]
  BY DEF RevokeWrite
<1>4. /\ cert'[req[r].id] = [cert[req[r].id] EXCEPT !.revoked = TRUE]
      /\ \A c \in Cert \ {req[r].id} : cert'[c] = cert[c]
  BY <1>2, <1>3 DEF Types, TypeOK
<1>5. cert'[req[r].id] \in Row /\ NoCert \notin Row
  BY <1>2, <1>4, RowShape DEF Row, Types
<1>6. Issued' = Issued
  BY <1>1, <1>4, <1>5 DEF Issued
<1>7. \A c \in Issued : cert'[c].award = cert[c].award /\ cert'[c].serial = cert[c].serial
  BY <1>2, <1>4 DEF Issued, Row
<1>8. /\ \A a \in Award : Having(a)' = Having(a)
      /\ \A t \in Type : Serials(t)' = Serials(t)
  BY <1>6, <1>7 DEF Having, Serials
<1>9. /\ Alone(r) /\ trail' = trail
      /\ req'[r] = IF cert[req[r].id].revoked THEN Idle
                   ELSE [req[r] EXCEPT !.pc = "audit"]
  BY DEF RevokeWrite, Types, TypeOK, Alone
<1> QED
  BY <1>1, <1>2, <1>4, <1>6, <1>8, <1>9

\* Every other step changes one request and no row.
Quiet(r) ==
  \/ \E a \in Award : IssueCheck(r, a)
  \/ \E c \in Cert : RevokeRead(r, c)
  \/ IssueNumber(r) \/ IssueConflict(r) \/ RevokeAudit(r) \/ Fail(r)

LEMMA QuietEffect ==
  ASSUME Types, NEW r \in Request, Quiet(r)
  PROVE  cert' = cert /\ Alone(r)
BY DEF Types, TypeOK, Quiet, IssueCheck, RevokeRead, IssueNumber, IssueConflict,
       RevokeAudit, Fail, Alone
\* The three kinds of steps.
LEMMA Steps ==
  ASSUME [Next]_vars
  PROVE  \/ UNCHANGED vars
         \/ \E r \in Request : IssueInsert(r) \/ RevokeWrite(r) \/ Quiet(r)
BY DEF Next, Arrive, Step, Quiet

-----------------------------------------------------------------------------
(* Types *)

LEMMA InitTypes == Init => Types
<1> SUFFICES ASSUME Init PROVE Types
  OBVIOUS
<1>1. TypeOK
  BY DEF Init, TypeOK
<1>2. \A r \in Request : req[r].pc = "idle"
  BY DEF Init, Idle
<1> QED
  BY <1>1, <1>2 DEF Types, RevokesIssued, Revokes

LEMMA SerialNumber ==
  ASSUME TypeOK, NEW t \in Type, SerialsInOrder
  PROVE  NextSerial(t) \in 1 .. Capacity
<1>1. PICK n \in 0 .. Capacity : Serials(t) = 1 .. n
  BY DEF SerialsInOrder
<1> QED
  BY <1>1, NextNumber, CapacityAssumption

LEMMA TypesStep == Types /\ SerialsInOrder /\ Drawn /\ [Next]_vars => Types'
<1> SUFFICES ASSUME Types, SerialsInOrder, Drawn, [Next]_vars PROVE Types'
  OBVIOUS
<1>1. CASE UNCHANGED vars
  BY <1>1 DEF vars, Types, TypeOK, RevokesIssued, Revokes, Issued
<1>2. ASSUME NEW r \in Request, IssueInsert(r) PROVE Types'
  <2>1. cert'[NewId] \in Row
    <3>0. req[r].serial \in 1 .. Capacity
      BY <1>2 DEF Drawn, DrawnBy, IssueInsert
    <3>1. req[r].serial \in Nat \ {0}
      BY <3>0, CapacityAssumption
    <3>2. cert'[NewId] = [award |-> req[r].award, serial |-> req[r].serial,
                          revoked |-> FALSE, overtaken |-> req[r].overtaken]
      BY <1>2, InsertEffect
    <3>3. req[r] \in Issue
      BY <1>2, InsertEffect
    <3> QED
      BY <3>1, <3>2, <3>3 DEF Row, Issue
  <2>2. cert' \in [Cert -> Row \cup {NoCert}]
    <3>1. cert' = [cert EXCEPT ![NewId] = cert'[NewId]]
      BY <1>2, InsertEffect DEF IssueInsert, InsertRow, Types, TypeOK
    <3> QED
      BY <2>1, <3>1 DEF Types, TypeOK
  <2>3. ASSUME NEW q \in Request PROVE req'[q] \in {Idle} \cup Issue \cup Revoke
    <3>1. CASE q = r
      BY <1>2, <3>1, InsertEffect
    <3>2. CASE q # r /\ ~ Issues(q)
      BY <1>2, <3>2, InsertEffect DEF Types, TypeOK
    <3>3. CASE q # r /\ Issues(q)
      <4>1. req[q] \in Issue
        BY <3>3, Shape DEF Types
      <4>2. req'[q] = req[q] \/ req'[q] = [req[q] EXCEPT !.overtaken = TRUE]
        BY <1>2, <3>3, InsertEffect
      <4> QED
        BY <4>1, <4>2 DEF Issue
    <3> QED
      BY <3>1, <3>2, <3>3
  <2>4. req' \in [Request -> {Idle} \cup Issue \cup Revoke]
    BY <1>2, <2>3 DEF IssueInsert, InsertRow, Overtake
  <2>5. TypeOK'
    BY <1>2, <2>2, <2>4, InsertEffect DEF IssueInsert, InsertRow, Types, TypeOK
  <2>6. ASSUME NEW q \in Request, Revokes(q)' PROVE req'[q].id \in Issued'
    <3>1. q # r /\ ~ Issues(q)
      <4>1. CASE q = r
        <5>1. req'[q] = Idle
          BY <1>2, <4>1, InsertEffect
        <5> QED
          BY <2>6, <5>1 DEF Revokes, Idle
      <4>2. CASE q # r /\ Issues(q)
        <5>1. req[q] \in Issue
          BY <4>2, Shape DEF Types
        <5>2. req'[q] = req[q] \/ req'[q] = [req[q] EXCEPT !.overtaken = TRUE]
          BY <1>2, <4>2, InsertEffect
        <5>3. req'[q].pc \in {"number", "insert"}
          BY <5>1, <5>2 DEF Issue
        <5> QED
          BY <2>6, <5>3 DEF Revokes
      <4> QED
        BY <4>1, <4>2
    <3>2. req'[q] = req[q] /\ Issued \subseteq Issued'
      BY <1>2, <3>1, InsertEffect
    <3> QED
      BY <2>6, <3>2 DEF Types, RevokesIssued, Revokes
  <2> QED
    BY <2>5, <2>6 DEF Types, RevokesIssued
<1>3. ASSUME NEW r \in Request, RevokeWrite(r) PROVE Types'
  <2>1. cert'[req[r].id] \in Row
    <3>1. req[r].id \in Issued /\ req[r].id \in Cert
      BY <1>3, RevokeEffect
    <3>2. cert'[req[r].id] = [cert[req[r].id] EXCEPT !.revoked = TRUE]
      BY <1>3, RevokeEffect
    <3>3. cert[req[r].id] \in Row
      BY <3>1, RowShape DEF Types
    <3> QED
      BY <3>2, <3>3 DEF Row
  <2>2. cert' \in [Cert -> Row \cup {NoCert}]
    BY <1>3, <2>1, RevokeEffect DEF RevokeWrite, Types, TypeOK
  <2>3. req'[r] \in {Idle} \cup Revoke /\ (req'[r] # Idle => req'[r].id = req[r].id)
    BY <1>3, RevokeEffect DEF Revoke
  <2>4. TypeOK'
    BY <1>3, <2>2, <2>3 DEF RevokeWrite, Types, TypeOK
  <2>5. RevokesIssued'
    <3>1. Issued' = Issued /\ Alone(r) /\ req[r].id \in Issued /\ Idle.pc = "idle"
      BY <1>3, RevokeEffect DEF Idle
    <3> QED
      BY <2>3, <3>1 DEF Types, RevokesIssued, Revokes, Alone
  <2> QED
    BY <2>4, <2>5 DEF Types
<1>4. ASSUME NEW r \in Request, Quiet(r) PROVE Types'
  <2>1. cert' = cert /\ Alone(r) /\ Issued' = Issued
    BY <1>4, QuietEffect, SameRows
  <2>2. /\ req'[r] \in {Idle} \cup Issue \cup Revoke
        /\ Revokes(r)' => req'[r].id \in Issued
    <3>1. CASE \E a \in Award : IssueCheck(r, a)
      BY <3>1 DEF IssueCheck, Types, TypeOK, Idle, Issue, Revokes
    <3>2. CASE \E c \in Cert : RevokeRead(r, c)
      BY <3>2 DEF RevokeRead, Types, TypeOK, Revoke, Revokes
    <3>3. CASE IssueNumber(r)
      <4>1. req[r] \in Issue
        BY <3>3, Shape DEF IssueNumber, Issues, Types
      <4>2. NextSerial(TypeOf[req[r].award]) \in Nat
        BY <4>1, SerialNumber, TypeOfAssumption, CapacityAssumption DEF Issue, Types
      <4>3. req'[r] = [req[r] EXCEPT !.pc = "insert",
                                     !.serial = NextSerial(TypeOf[req[r].award])]
        BY <3>3 DEF IssueNumber, Types, TypeOK
      <4> QED
        BY <4>1, <4>2, <4>3 DEF Issue, Revokes
    <3>4. CASE IssueConflict(r) \/ RevokeAudit(r) \/ Fail(r)
      BY <3>4 DEF IssueConflict, RevokeAudit, Fail, Types, TypeOK, Idle, Revokes
    <3> QED
      BY <1>4, <3>1, <3>2, <3>3, <3>4 DEF Quiet
  <2>3. req' \in [Request -> {Idle} \cup Issue \cup Revoke]
    BY <1>4, <2>1, <2>2 DEF Types, TypeOK, Alone, Quiet, IssueCheck, RevokeRead,
                            IssueNumber, IssueConflict, RevokeAudit, Fail
  <2>4. trail' \in [Cert -> Nat] /\ failed' \in BOOLEAN
    <3>1. CASE RevokeAudit(r)
      <4>1. req[r].id \in Cert
        BY <3>1, Shape DEF RevokeAudit, Revokes, Types, Revoke
      <4> QED
        BY <3>1, <4>1 DEF RevokeAudit, Types, TypeOK
    <3>2. CASE ~ RevokeAudit(r)
      BY <1>4, <3>2 DEF Types, TypeOK, Quiet, IssueCheck, RevokeRead, IssueNumber,
                        IssueConflict, Fail
    <3> QED
      BY <3>1, <3>2
  <2> QED
    BY <2>1, <2>2, <2>3, <2>4 DEF Types, TypeOK, RevokesIssued, Revokes, Alone
<1> QED
  BY <1>1, <1>2, <1>3, <1>4, Steps
-----------------------------------------------------------------------------
(* Serial numbers *)

\* The two parts of SerialsInOrder.
Gapless == \A t \in Type : \E n \in 0 .. Capacity : Serials(t) = 1 .. n
Unique  == \A c, d \in Issued :
             TypeOf[cert[c].award] = TypeOf[cert[d].award]
               /\ cert[c].serial = cert[d].serial => c = d

\* A drawn number that nobody has taken is the next one of its type.
LEMMA FreeNumber ==
  ASSUME Types, Gapless, Drawn, NEW r \in Request, IssueInsert(r),
         NEW n \in 0 .. Capacity, Serials(TypeOf[req[r].award]) = 1 .. n
  PROVE  n < Capacity /\ req[r].serial = n + 1
<1> DEFINE s == req[r].serial
<1>1. s \in 1 .. Capacity /\ (s = 1 \/ s - 1 \in 1 .. n) /\ s \notin 1 .. n
  BY DEF Drawn, DrawnBy, IssueInsert
<1> HIDE DEF s
<1>2. n < Capacity /\ s = n + 1
  BY <1>1, CapacityAssumption
<1> QED
  BY <1>2 DEF s

LEMMA GaplessStep == Types /\ Gapless /\ Drawn /\ [Next]_vars => Gapless'
<1> SUFFICES ASSUME Types, Gapless, Drawn, [Next]_vars, NEW t \in Type
             PROVE  \E n \in 0 .. Capacity : Serials(t)' = 1 .. n
  BY DEF Gapless
<1>1. PICK n \in 0 .. Capacity : Serials(t) = 1 .. n
  BY DEF Gapless
<1>2. CASE Serials(t)' = Serials(t)
  BY <1>1, <1>2
<1>3. ASSUME NEW r \in Request, IssueInsert(r)
      PROVE  \E k \in 0 .. Capacity : Serials(t)' = 1 .. k
  <2>1. CASE t # TypeOf[req[r].award]
    BY <1>2, <1>3, <2>1, InsertAdds
  <2>2. CASE t = TypeOf[req[r].award]
    <3>1. Serials(t)' = Serials(t) \cup {n + 1} /\ n < Capacity
      BY <1>1, <1>3, <2>2, InsertAdds, FreeNumber
    <3>2. Serials(t)' = 1 .. (n + 1) /\ n + 1 \in 0 .. Capacity
      BY <1>1, <3>1, CapacityAssumption
    <3> QED
      BY <3>2
  <2> QED
    BY <2>1, <2>2
<1> QED
  BY <1>2, <1>3, Steps, SameRows, RevokeEffect, QuietEffect DEF vars

LEMMA UniqueStep == Types /\ Unique /\ [Next]_vars => Unique'
<1> SUFFICES ASSUME Types, Unique, [Next]_vars PROVE Unique'
  OBVIOUS
<1>1. CASE cert' = cert
  BY <1>1, SameRows DEF Unique
<1>2. ASSUME NEW r \in Request, RevokeWrite(r) PROVE Unique'
  <2>1. Issued' = Issued
    BY <1>2, RevokeEffect
  <2>2. \A c \in Issued : cert'[c].award = cert[c].award /\ cert'[c].serial = cert[c].serial
    <3>1. \A c \in Cert \ {req[r].id} : cert'[c] = cert[c]
      BY <1>2, RevokeEffect
    <3>2. /\ cert'[req[r].id] = [cert[req[r].id] EXCEPT !.revoked = TRUE]
          /\ cert[req[r].id] \in Row
      BY <1>2, RevokeEffect, RowShape DEF Types
    <3> QED
      BY <3>1, <3>2 DEF Issued, Row
  <2> QED
    BY <2>1, <2>2 DEF Unique
<1>3. ASSUME NEW r \in Request, IssueInsert(r) PROVE Unique'
  <2>1. Issued' = Issued \cup {NewId} /\ \A c \in Issued : cert'[c] = cert[c]
    BY <1>3, InsertEffect DEF Issued
  <2>2. cert'[NewId] = [award |-> req[r].award, serial |-> req[r].serial,
                        revoked |-> FALSE, overtaken |-> req[r].overtaken]
    BY <1>3, InsertEffect
  <2>3. \A c \in Issued : TypeOf[cert[c].award] = TypeOf[req[r].award]
                            => cert[c].serial # req[r].serial
    BY <1>3 DEF IssueInsert, Serials
  <2>4. cert'[NewId].award = req[r].award /\ cert'[NewId].serial = req[r].serial
    BY <2>2
  <2> QED
    BY <2>1, <2>3, <2>4 DEF Unique
<1> QED
  BY <1>1, <1>2, <1>3, Steps, QuietEffect DEF vars

\* A number drawn in the next state, with its type named.
LEMMA DrawnNext ==
  ASSUME NEW q \in Request, NEW t \in Type, NEW n \in 1 .. Capacity,
         TypeOf[req'[q].award] = t, req'[q].serial = n,
         n = 1 \/ n - 1 \in Serials(t)'
  PROVE  DrawnBy(q)'
BY DEF DrawnBy, Serials

LEMMA DrawnStep == Types /\ Gapless /\ Drawn /\ [Next]_vars => Drawn'
<1> SUFFICES ASSUME Types, Gapless, Drawn, [Next]_vars,
                    NEW q \in Request, req'[q].pc = "insert"
             PROVE  DrawnBy(q)'
  BY DEF Drawn, DrawnBy
<1>0. \A t \in Type : Serials(t) \subseteq Serials(t)'
  BY Steps, SameRows, RevokeEffect, QuietEffect, InsertAdds DEF vars
<1>1. CASE /\ req[q].pc = "insert" /\ req'[q].award = req[q].award
           /\ req'[q].serial = req[q].serial
  <2> DEFINE t == TypeOf[req[q].award]
             n == req[q].serial
  <2>1. t \in Type
    BY <1>1, Shape, TypeOfAssumption DEF Issues, Issue, Types
  <2>2. n \in 1 .. Capacity /\ (n = 1 \/ n - 1 \in Serials(t))
    BY <1>1 DEF Drawn, DrawnBy
  <2>3. TypeOf[req'[q].award] = t /\ req'[q].serial = n
    BY <1>1
  <2> HIDE DEF t, n
  <2> QED
    BY <1>0, <2>1, <2>2, <2>3, DrawnNext
<1>2. CASE IssueNumber(q)
  <2>1. req[q] \in Issue
    BY <1>2, Shape DEF IssueNumber, Issues, Types
  <2>2. req'[q] = [req[q] EXCEPT !.pc = "insert",
                                 !.serial = NextSerial(TypeOf[req[q].award])]
    BY <1>2 DEF IssueNumber, Types, TypeOK
  <2> DEFINE t == TypeOf[req[q].award]
             s == NextSerial(t)
  <2>3. t \in Type /\ TypeOf[req'[q].award] = t /\ req'[q].serial = s
    BY <2>1, <2>2, TypeOfAssumption DEF Issue
  <2> HIDE DEF t
  <2>4. PICK n \in 0 .. Capacity : Serials(t) = 1 .. n
    BY <2>3 DEF Gapless
  <2>5. s = IF n < Capacity THEN n + 1 ELSE Capacity
    BY <2>3, <2>4, NextNumber
  <2> HIDE DEF s
  <2>6. s \in 1 .. Capacity /\ (s = 1 \/ s - 1 \in 1 .. n)
    BY <2>5, CapacityAssumption
  <2> QED
    BY <1>0, <2>3, <2>4, <2>6, DrawnNext
<1>3. ASSUME NEW r \in Request, IssueInsert(r), ~ IssueNumber(q)
      PROVE  /\ req[q].pc = "insert" /\ req'[q].award = req[q].award
             /\ req'[q].serial = req[q].serial
  <2>1. q # r
    <3>1. req'[r] = Idle /\ Idle.pc # "insert"
      BY <1>3, InsertEffect DEF Idle
    <3> QED
      BY <3>1
  <2>2. /\ req'[q] = req[q] \/ req'[q] = [req[q] EXCEPT !.overtaken = TRUE]
        /\ ~ Issues(q) => req'[q] = req[q]
    BY <1>3, <2>1, InsertEffect
  <2>4. Issues(q)
    BY <2>2 DEF Issues
  <2>3. Issues(q) => req[q] \in Issue
    BY Shape DEF Types
  <2> QED
    BY <2>2, <2>3, <2>4 DEF Issue
<1>4. ASSUME NEW r \in Request, RevokeWrite(r) \/ Quiet(r), ~ IssueNumber(q)
      PROVE  req'[q] = req[q]
  <2>1. CASE q # r
    BY <1>4, <2>1, RevokeEffect, QuietEffect DEF Alone
  <2>2. CASE q = r /\ RevokeWrite(r)
    <3>1. \/ req'[q] = Idle
          \/ req'[q] = [req[q] EXCEPT !.pc = "audit"] /\ req[q] \in Revoke
      BY <2>2, RevokeEffect
    <3> QED
      BY <3>1 DEF Idle, Revoke
  <2>3. CASE q = r /\ Quiet(r)
    BY <1>4, <2>3 DEF Quiet, IssueCheck, RevokeRead, IssueConflict, RevokeAudit, Fail,
                      Idle, Types, TypeOK
  <2> QED
    BY <1>4, <2>1, <2>2, <2>3
<1> QED
  BY <1>1, <1>2, <1>3, <1>4, Steps DEF vars
-----------------------------------------------------------------------------
(* Certificates of an award *)

LEMMA AwardsStep ==
  Types /\ OneEach /\ LooksForMissing /\ [Next]_vars => OneEach' /\ LooksForMissing'
<1> SUFFICES ASSUME Types, OneEach, LooksForMissing, [Next]_vars
             PROVE  OneEach' /\ LooksForMissing'
  OBVIOUS
<1>1. CASE UNCHANGED vars
  BY <1>1 DEF vars, OneEach, LooksForMissing, Issues, Issued
<1>2. ASSUME NEW r \in Request, IssueInsert(r) PROVE OneEach' /\ LooksForMissing'
  <2>1. Issued' = Issued \cup {NewId} /\ \A c \in Issued : cert'[c] = cert[c]
    BY <1>2, InsertEffect DEF Issued
  <2>2. cert'[NewId] = [award |-> req[r].award, serial |-> req[r].serial,
                        revoked |-> FALSE, overtaken |-> req[r].overtaken]
    BY <1>2, InsertEffect
  <2>3. cert'[NewId].award = req[r].award /\ cert'[NewId].overtaken = req[r].overtaken
    BY <2>2
  <2>4. \A c \in Issued : cert[c].award = req[r].award => req[r].overtaken
    BY <1>2 DEF IssueInsert, LooksForMissing, Issues
  <2>5. OneEach'
    BY <2>1, <2>3, <2>4 DEF OneEach
  <2>6. ASSUME NEW q \in Request, NEW c \in Issued', Issues(q)',
               cert'[c].award = req'[q].award
        PROVE  req'[q].overtaken
    <3>1. q # r /\ Issues(q)
      <4>1. req'[r] = Idle /\ Idle.pc \notin {"number", "insert"}
        BY <1>2, InsertEffect DEF Idle
      <4>2. q # r
        BY <2>6, <4>1 DEF Issues
      <4>3. ~ Issues(q) => req'[q] = req[q]
        BY <1>2, <4>2, InsertEffect
      <4> QED
        BY <2>6, <4>2, <4>3 DEF Issues
    <3>2. req[q] \in Issue
      BY <3>1, Shape DEF Types
    <3>3. CASE req[q].award = req[r].award
      <4>1. req'[q] = [req[q] EXCEPT !.overtaken = TRUE]
        BY <1>2, <3>1, <3>3, InsertEffect
      <4> QED
        BY <3>2, <4>1 DEF Issue
    <3>4. CASE req[q].award # req[r].award
      <4>1. req'[q] = req[q] \/ req'[q] = [req[q] EXCEPT !.overtaken = TRUE]
        BY <1>2, <3>1, InsertEffect
      <4>2. req'[q].award = req[q].award /\ (req[q].overtaken => req'[q].overtaken)
        BY <3>2, <4>1 DEF Issue
      <4>3. c \in Issued /\ cert[c].award = req[q].award
        BY <2>1, <2>3, <2>6, <3>4, <4>2
      <4>5. req[q].overtaken
        BY <3>1, <4>3 DEF LooksForMissing
      <4> QED
        BY <4>2, <4>5
    <3> QED
      BY <3>3, <3>4
  <2> QED
    BY <2>5, <2>6 DEF LooksForMissing
<1>3. ASSUME NEW r \in Request, RevokeWrite(r) PROVE OneEach' /\ LooksForMissing'
  <2>1. /\ Issued' = Issued
        /\ \A c \in Cert \ {req[r].id} : cert'[c] = cert[c]
    BY <1>3, RevokeEffect
  <2>2. /\ cert'[req[r].id] = [cert[req[r].id] EXCEPT !.revoked = TRUE]
        /\ cert[req[r].id] \in Row
    BY <1>3, RevokeEffect, RowShape DEF Types
  <2>3. \A c \in Issued : /\ cert'[c].award = cert[c].award
                          /\ cert'[c].overtaken = cert[c].overtaken
    BY <2>1, <2>2 DEF Issued, Row
  <2>4. OneEach'
    BY <2>1, <2>3 DEF OneEach
  <2>5. ASSUME NEW q \in Request, Issues(q)' PROVE req'[q] = req[q]
    <3>1. CASE q = r
      <4>1. \/ req'[r] = Idle
            \/ req'[r] = [req[r] EXCEPT !.pc = "audit"] /\ req[r] \in Revoke
        BY <1>3, RevokeEffect
      <4> QED
        BY <2>5, <3>1, <4>1 DEF Issues, Idle, Revoke
    <3> QED
      BY <1>3, <3>1, RevokeEffect DEF Alone
  <2> QED
    BY <2>1, <2>3, <2>4, <2>5 DEF LooksForMissing, Issues
<1>4. ASSUME NEW r \in Request, Quiet(r) PROVE OneEach' /\ LooksForMissing'
  <2>1. cert' = cert /\ Issued' = Issued /\ Alone(r)
    BY <1>4, QuietEffect, SameRows
  <2>2. Issues(r)' => \/ Having(req'[r].award) = {}
                      \/ /\ Issues(r) /\ req'[r].award = req[r].award
                         /\ req'[r].overtaken = req[r].overtaken
    <3>1. CASE \E a \in Award : IssueCheck(r, a)
      BY <3>1 DEF IssueCheck, Types, TypeOK, Issues, Idle
    <3>2. CASE \E c \in Cert : RevokeRead(r, c)
      BY <3>2 DEF RevokeRead, Types, TypeOK, Issues
    <3>3. CASE IssueNumber(r)
      <4>1. req[r] \in Issue
        BY <3>3, Shape DEF IssueNumber, Issues, Types
      <4>2. req'[r] = [req[r] EXCEPT !.pc = "insert",
                                     !.serial = NextSerial(TypeOf[req[r].award])]
        BY <3>3 DEF IssueNumber, Types, TypeOK
      <4>3. Issues(r)
        BY <3>3 DEF IssueNumber, Issues
      <4>4. req'[r].award = req[r].award /\ req'[r].overtaken = req[r].overtaken
        BY <4>1, <4>2 DEF Issue
      <4> QED
        BY <4>3, <4>4
    <3>4. CASE IssueConflict(r) \/ RevokeAudit(r) \/ Fail(r)
      BY <3>4 DEF IssueConflict, RevokeAudit, Fail, Types, TypeOK, Issues, Idle
    <3> QED
      BY <1>4, <3>1, <3>2, <3>3, <3>4 DEF Quiet
  <2>3. OneEach'
    BY <2>1 DEF OneEach
  <2> QED
    BY <2>1, <2>2, <2>3 DEF LooksForMissing, Alone, Issues, Having
<1> QED
  BY <1>1, <1>2, <1>3, <1>4, Steps

-----------------------------------------------------------------------------
(* Revocations *)

LEMMA RevocationsStep ==
  Types /\ RevokedOnce /\ AuditsOnce /\ [Next]_vars => RevokedOnce' /\ AuditsOnce'
<1> SUFFICES ASSUME Types, RevokedOnce, AuditsOnce, [Next]_vars
             PROVE  RevokedOnce' /\ AuditsOnce'
  OBVIOUS
<1>0. \A c \in Cert : trail[c] \in Nat
  BY DEF Types, TypeOK
<1>1. CASE UNCHANGED vars
  BY <1>1 DEF vars, RevokedOnce, AuditsOnce
<1>2. ASSUME NEW r \in Request, IssueInsert(r) PROVE RevokedOnce' /\ AuditsOnce'
  <2>1. /\ trail' = trail /\ \A c \in Cert \ {NewId} : cert'[c] = cert[c]
        /\ NewId \in Cert \ Issued
    BY <1>2, InsertEffect
  <2>2. ~ cert[NewId].revoked
    BY <2>1 DEF Issued, NoCert
  <2>3. RevokedOnce'
    BY <1>0, <2>1, <2>2 DEF RevokedOnce
  <2>4. ASSUME NEW q \in Request, req'[q].pc = "audit"
        PROVE  req[q].pc = "audit" /\ req'[q].id = req[q].id /\ req[q].id \in Issued
    <3>1. q # r
      <4>1. req'[r] = Idle /\ Idle.pc # "audit"
        BY <1>2, InsertEffect DEF Idle
      <4> QED
        BY <2>4, <4>1
    <3>2. ~ Issues(q)
      <4>1. SUFFICES ASSUME Issues(q) PROVE FALSE
        OBVIOUS
      <4>2. req[q] \in Issue
        BY <4>1, Shape DEF Types
      <4>3. req'[q] = req[q] \/ req'[q] = [req[q] EXCEPT !.overtaken = TRUE]
        BY <1>2, <3>1, InsertEffect
      <4> QED
        BY <2>4, <4>2, <4>3 DEF Issue
    <3>3. req'[q] = req[q]
      BY <1>2, <3>1, <3>2, InsertEffect
    <3> QED
      BY <2>4, <3>3 DEF Types, RevokesIssued, Revokes
  <2>5. \A q \in Request : req'[q].pc = "audit" => req[q].id \in Cert \ {NewId}
    BY <2>1, <2>4 DEF Issued
  <2>6. AuditsOnce'
    BY <2>1, <2>4, <2>5 DEF AuditsOnce
  <2> QED
    BY <2>3, <2>6
<1>3. ASSUME NEW r \in Request, RevokeWrite(r) PROVE RevokedOnce' /\ AuditsOnce'
  <2> DEFINE k == req[r].id
  <2>1. /\ k \in Cert /\ trail' = trail /\ Alone(r)
        /\ \A c \in Cert \ {k} : cert'[c] = cert[c]
    BY <1>3, RevokeEffect
  <2>2. /\ cert'[k] = [cert[k] EXCEPT !.revoked = TRUE]
        /\ cert[k] \in Row
    BY <1>3, RevokeEffect, RowShape DEF Types
  <2>3. cert'[k].revoked
    BY <2>2 DEF Row
  <2>4. req'[r].pc = "audit" => ~ cert[k].revoked /\ req'[r].id = k
    <3>1. /\ req[r] \in Revoke
          /\ req'[r] = IF cert[k].revoked THEN Idle ELSE [req[r] EXCEPT !.pc = "audit"]
      BY <1>3, RevokeEffect
    <3> QED
      BY <3>1 DEF Idle, Revoke
  <2> HIDE DEF k
  <2>5. RevokedOnce'
    BY <1>0, <2>1, <2>3 DEF RevokedOnce
  <2>6. ~ cert[k].revoked => /\ trail[k] = 0
                             /\ \A q \in Request : req[q].pc = "audit" => req[q].id # k
    BY <1>0, <2>1 DEF RevokedOnce, AuditsOnce
  <2>7. \A q \in Request : req[q].pc = "audit" => req[q].id \in Cert
    BY Shape DEF Types, Revokes, Revoke
  <2>8. AuditsOnce'
    BY <2>1, <2>3, <2>4, <2>6, <2>7 DEF AuditsOnce, Alone
  <2> QED
    BY <2>5, <2>8
<1>4. ASSUME NEW r \in Request, Quiet(r), ~ RevokeAudit(r)
      PROVE  RevokedOnce' /\ AuditsOnce'
  <2>1. cert' = cert /\ Alone(r)
    BY <1>4, QuietEffect
  <2>2. trail' = trail /\ req'[r].pc # "audit"
    <3>1. CASE IssueNumber(r)
      BY <3>1, Shape DEF IssueNumber, Types, TypeOK, Issues, Issue
    <3>2. CASE ~ IssueNumber(r)
      BY <1>4, <3>2 DEF Quiet, IssueCheck, RevokeRead, IssueConflict, Fail, Types,
                        TypeOK, Idle
    <3> QED
      BY <3>1, <3>2
  <2> QED
    BY <2>1, <2>2 DEF RevokedOnce, AuditsOnce, Alone
<1>5. ASSUME NEW r \in Request, RevokeAudit(r) PROVE RevokedOnce' /\ AuditsOnce'
  <2> DEFINE k == req[r].id
  <2>1. req[r].pc = "audit" /\ k \in Cert /\ cert[k].revoked /\ trail[k] = 0
    BY <1>5, Shape DEF RevokeAudit, AuditsOnce, Revokes, Revoke, Types
  <2>2. /\ cert' = cert /\ trail' = [trail EXCEPT ![k] = trail[k] + 1]
        /\ req'[r] = Idle /\ Alone(r)
    BY <1>5 DEF RevokeAudit, Types, TypeOK, Alone
  <2>3. \A q \in Request \ {r} : req[q].pc = "audit" => req[q].id \in Cert /\ req[q].id # k
    BY <2>1, Shape DEF AuditsOnce, Revokes, Revoke, Types
  <2> HIDE DEF k
  <2>4. trail'[k] = 1 /\ \A c \in Cert \ {k} : trail'[c] = trail[c]
    BY <2>1, <2>2 DEF Types, TypeOK
  <2>5. RevokedOnce'
    BY <2>1, <2>2, <2>4 DEF RevokedOnce
  <2>6. Idle.pc # "audit"
    BY DEF Idle
  <2>7. AuditsOnce'
    BY <2>2, <2>3, <2>4, <2>6 DEF AuditsOnce, Alone
  <2> QED
    BY <2>5, <2>7
<1> QED
  BY <1>1, <1>2, <1>3, <1>4, <1>5, Steps

-----------------------------------------------------------------------------
(* The invariant, and the theorems *)

LEMMA InitInv == Init => IInv
<1> SUFFICES ASSUME Init PROVE IInv
  OBVIOUS
<1>1. Types
  BY InitTypes
<1>2. Issued = {} /\ \A r \in Request : req[r].pc = "idle"
  BY DEF Init, Issued, Idle
<1>3. SerialsInOrder
  <2>1. \A t \in Type : Serials(t) = 1 .. 0 /\ 0 \in 0 .. Capacity
    BY <1>2, CapacityAssumption DEF Serials
  <2> QED
    BY <1>2, <2>1 DEF SerialsInOrder
<1>4. RevokedOnce
  BY DEF Init, RevokedOnce, NoCert
<1> QED
  BY <1>1, <1>2, <1>3, <1>4
     DEF IInv, Drawn, DrawnBy, OneEach, LooksForMissing, Issues, AuditsOnce

LEMMA NextInv == IInv /\ [Next]_vars => IInv'
<1> SUFFICES ASSUME IInv, [Next]_vars PROVE IInv'
  OBVIOUS
<1>1. SerialsInOrder <=> Gapless /\ Unique
  BY DEF SerialsInOrder, Gapless, Unique
<1>2. SerialsInOrder' <=> Gapless' /\ Unique'
  BY DEF SerialsInOrder, Gapless, Unique
<1> QED
  BY <1>1, <1>2, TypesStep, GaplessStep, UniqueStep, DrawnStep, AwardsStep,
     RevocationsStep DEF IInv

LEMMA InvAlways == Spec => []IInv
BY InitInv, NextInv, PTL DEF Spec

\* Rows, the audit log and the requests keep their types, whatever the number
\* of awards, requests and rows and the width of the serial numbers.
THEOREM TypeCorrect == Spec => []TypeOK
<1>1. IInv => TypeOK
  BY DEF IInv, Types
<1> QED
  BY <1>1, InvAlways, PTL

\* The serials of a type are 1 .. n, each used once, and n never passes
\* Capacity: after certificate 10000 of a type and year there is no other.
THEOREM Numbering == Spec => []SerialsInOrder
<1>1. IInv => SerialsInOrder
  BY DEF IInv
<1> QED
  BY <1>1, InvAlways, PTL

\* Of the certificates of an award at most one was inserted by a request that
\* nobody had overtaken.
THEOREM OneCertificate == Spec => []OneEach
<1>1. IInv => OneEach
  BY DEF IInv
<1> QED
  BY <1>1, InvAlways, PTL

\* A revocation is in the audit log at most once, and only of a revoked row.
THEOREM OneRevocation == Spec => []RevokedOnce
<1>1. IInv => RevokedOnce
  BY DEF IInv
<1> QED
  BY <1>1, InvAlways, PTL
=============================================================================
