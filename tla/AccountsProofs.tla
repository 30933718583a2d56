---------------------------- MODULE AccountsProofs ----------------------------
(***************************************************************************)
(* Proofs about Accounts, for any sets of requests, tenants and addresses, *)
(* and any number of (de)activations and faults.                           *)
(***************************************************************************)
EXTENDS Accounts, TLAPS

\* What a request asks for goes with the steps it takes and the credential it has.
KindInv ==
    \A r \in Requests :
        /\ pc[r] = "new" => kind[r] = "none"
        /\ pc[r] = "create" => kind[r] \in {"signup", "register"}
        /\ pc[r] \in {"checkTenant", "checkEmail", "insert"} =>
             kind[r] \in {"signup", "addUser"}
        /\ kind[r] \in {"signup", "addUser"} => email[r] \in Emails
        /\ pc[r] \in AuthorizeSteps => kind[r] \in {"call", "rotate"}
        /\ pc[r] = "rotate" => kind[r] = "rotate"
        /\ pc[r] \in {"readUser", "readTenant"} => kind[r] = "login"
        /\ kind[r] \notin {"call", "rotate"} => key[r] = None /\ token[r] = None

\* Whom a token names.
Named(q) == user[q] \in Requests /\ users[user[q]] # None
            /\ users[user[q]].tenant = tenant[q]

\* A token that was issued names a user and its tenant; who presents one presents
\* an issued one; a login carries the row it found.
TokenInv ==
    \A r \in Requests :
        /\ TokenIssued(r) => Named(r)
        /\ token[r] # None => TokenIssued(token[r]) /\ user[r] = user[token[r]]
        /\ pc[r] = "authorizeUser" => token[r] # None /\ tenant[r] \in Tenants
        /\ pc[r] \in {"readTenant", "reply"} =>
             user[r] \in Requests /\ users[user[r]] # None
        /\ pc[r] = "readTenant" => users[user[r]].email = email[r]

\* Rows refer to rows that are there.
Housed == \A u \in Requests : users[u] # None => Exists(users[u].tenant)
Checked == \A r \in Requests : pc[r] \in {"checkEmail", "insert"} => Exists(tenant[r])
Written == \A r \in Requests : users[r] # None =>
    pc[r] \in {"reply", "done"} \/ (pc[r] = "refused" /\ r \in disturbed)
RowInv == Housed /\ Checked /\ Written

\* A credential that is good now has been good since the request came; one that
\* got past a check was.
Served ==
    /\ \A r \in Requests : pc[r] = "authorizeUser" => r \in valid
    /\ NoneServedStale
ValidInv ==
    /\ \A r \in Requests : pc[r] \in Running /\ CredentialGood(r) => r \in valid
    /\ Served

\* The inductive invariant.
IInv == TypeOK /\ KindInv /\ TokenInv /\ RowInv /\ ValidInv

USE DEF Goto

\* The inductive invariant holds of the empty database.
LEMMA InitInv == Init => IInv
<1> SUFFICES ASSUME Init PROVE IInv
  OBVIOUS
<1>1. TypeOK
  BY AccountsAssumption DEF Init, TypeOK, Kinds, Running, CreateSteps, LoginSteps,
     AuthorizeSteps
<1>2. KindInv /\ TokenInv
  BY DEF Init, KindInv, TokenInv, TokenIssued, AuthorizeSteps
<1>3. RowInv
  BY DEF Init, RowInv, Housed, Checked, Written, Exists
<1>4. ValidInv
  BY DEF Init, ValidInv, Served, NoneServedStale, Running, CreateSteps, LoginSteps,
     AuthorizeSteps
<1> QED
  BY <1>1, <1>2, <1>3, <1>4 DEF IInv

\* The watch only adds requests.
LEMMA WatchGrows ==
    ASSUME Watch
    PROVE  valid \subseteq valid' /\ valid' \subseteq valid \cup Requests
BY DEF Watch

\* What is written is a row.
LEMMA RowTypes ==
    ASSUME TypeOK, NEW r \in Requests, tenant[r] \in Tenants
    PROVE  /\ InsertTenant(r) => tenants' \in [Tenants -> TenantRow \cup {None}]
           /\ Exists(tenant[r]) /\ StoreKey(r) =>
                tenants' \in [Tenants -> TenantRow \cup {None}]
           /\ email[r] \in Emails /\ InsertRow(r) =>
                users' \in [Requests -> UserRow \cup {None}]
<1> USE DEF TypeOK
<1>1. InsertTenant(r) => tenants' \in [Tenants -> TenantRow \cup {None}]
  <2>1. [key |-> r, active |-> TRUE] \in TenantRow
    BY DEF TenantRow
  <2> QED
    BY <2>1 DEF InsertTenant
<1>2. ASSUME Exists(tenant[r]), StoreKey(r)
      PROVE  tenants' \in [Tenants -> TenantRow \cup {None}]
  <2>1. [tenants[tenant[r]] EXCEPT !.key = r] \in TenantRow
    BY <1>2 DEF Exists, TenantRow
  <2> QED
    BY <1>2, <2>1 DEF StoreKey
<1>3. ASSUME email[r] \in Emails, InsertRow(r)
      PROVE  users' \in [Requests -> UserRow \cup {None}]
  <2>1. [tenant |-> tenant[r], email |-> email[r]] \in UserRow
    BY <1>3 DEF UserRow
  <2> QED
    BY <1>3, <2>1 DEF InsertRow
<1> QED
  BY <1>1, <1>2, <1>3

\* Every step keeps the types.
LEMMA TypeStep == IInv /\ [Next]_vars => TypeOK'
<1> SUFFICES ASSUME IInv, [Next]_vars PROVE TypeOK'
  OBVIOUS
<1> USE DEF IInv, TypeOK, Kinds, Running, CreateSteps, LoginSteps, AuthorizeSteps,
            rows, given, bounds
<1>1. ASSUME NEW r \in Requests, CreateTenant(r) PROVE TypeOK'
  BY <1>1, WatchGrows, RowTypes DEF CreateTenant
<1>2. ASSUME NEW r \in Requests, CheckTenant(r) \/ CheckEmail(r) PROVE TypeOK'
  BY <1>2, WatchGrows DEF CheckTenant, CheckEmail
<1>3. ASSUME NEW r \in Requests, InsertUser(r) PROVE TypeOK'
  BY <1>3, WatchGrows, RowTypes DEF InsertUser, KindInv
<1>4. ASSUME NEW r \in Requests, ReadUser(r) PROVE TypeOK'
  BY <1>4, WatchGrows DEF ReadUser, Registered
<1>5. ASSUME NEW r \in Requests, ReadTenant(r) PROVE TypeOK'
  BY <1>5, WatchGrows DEF ReadTenant
<1>6. ASSUME NEW r \in Requests, LoginResponse(r) PROVE TypeOK'
  <2>1. users[user[r]].tenant \in Tenants
    BY <1>6 DEF LoginResponse, TokenInv, UserRow
  <2> QED
    BY <1>6, <2>1, WatchGrows DEF LoginResponse
<1>7. ASSUME NEW r \in Requests, AuthorizeKey(r) PROVE TypeOK'
  BY <1>7, WatchGrows DEF AuthorizeKey, AfterAuthorize
<1>8. ASSUME NEW r \in Requests, AuthorizeToken(r) PROVE TypeOK'
  <2>1. Named(token[r]) /\ token[r] \in Requests
    BY <1>8 DEF AuthorizeToken, TokenInv
  <2>2. tenant[token[r]] \in Tenants /\ user[r] \in Requests
    BY <1>8, <2>1 DEF Named, UserRow, AuthorizeToken, TokenInv
  <2> QED
    BY <1>8, <2>1, <2>2, WatchGrows DEF AuthorizeToken
<1>9. ASSUME NEW r \in Requests, AuthorizeUser(r) PROVE TypeOK'
  BY <1>9, WatchGrows DEF AuthorizeUser, AfterAuthorize, TokenInv
<1>10. ASSUME NEW r \in Requests, RotateKey(r) PROVE TypeOK'
  BY <1>10, WatchGrows, RowTypes DEF RotateKey
<1>11. ASSUME NEW r \in Requests, NEW k \in {"call", "rotate"}, Call(r, k) PROVE TypeOK'
  BY <1>11, WatchGrows DEF Call, Come
<1>12. ASSUME NEW r \in Requests, StatementFails(r) PROVE TypeOK'
  BY <1>12, WatchGrows, AccountsAssumption DEF StatementFails, Fault
<1>13. ASSUME NEW r \in Requests, CommitUnheard(r) PROVE TypeOK'
  <2>1. /\ tenants' \in [Tenants -> TenantRow \cup {None}]
        /\ users' \in [Requests -> UserRow \cup {None}]
    BY <1>13, RowTypes DEF CommitUnheard, KindInv
  <2>2. Fault(r) /\ Watch /\ UNCHANGED <<given, tenant, user, switches>>
    BY <1>13 DEF CommitUnheard
  <2> QED
    BY <2>1, <2>2, WatchGrows, AccountsAssumption DEF Fault
<1>14. ASSUME NEW r \in Requests, NEW t \in Tenants,
              Register(r, t) \/ OperatorRotates(r, t)
       PROVE TypeOK'
  BY <1>14, WatchGrows DEF Register, OperatorRotates, Come
<1>15. ASSUME NEW r \in Requests, NEW e \in Emails, Login(r, e) PROVE TypeOK'
  BY <1>15, WatchGrows DEF Login, Come
<1>16. ASSUME NEW r \in Requests, NEW t \in Tenants, NEW e \in Emails, AddUser(r, t, e)
       PROVE TypeOK'
  BY <1>16, WatchGrows DEF AddUser, Come
<1>17. ASSUME NEW r \in Requests, NEW t \in Tenants, NEW e \in Emails,
              NEW named \in BOOLEAN, SignUp(r, t, e, named)
       PROVE TypeOK'
  BY <1>17, WatchGrows DEF SignUp, Come
<1>18. ASSUME NEW t \in Tenants, NEW active \in BOOLEAN, SetActive(t, active)
       PROVE  TypeOK'
  BY <1>18, WatchGrows, AccountsAssumption DEF SetActive, Exists, TenantRow
<1>19. CASE UNCHANGED vars
  BY <1>19 DEF vars
<1> QED
  BY <1>1, <1>2, <1>3, <1>4, <1>5, <1>6, <1>7, <1>8, <1>9, <1>10, <1>11, <1>12, <1>13,
     <1>14, <1>15, <1>16, <1>17, <1>18, <1>19
  DEF Next, Request, CreateStep, LoginStep, AuthorizeStep

\* Every step keeps what goes with the kind of a request.
LEMMA KindStep == IInv /\ [Next]_vars => KindInv'
<1> SUFFICES ASSUME IInv, [Next]_vars PROVE KindInv'
  OBVIOUS
<1> USE DEF IInv, TypeOK, KindInv, Running, CreateSteps, LoginSteps, AuthorizeSteps,
            rows, given, bounds, AfterAuthorize
<1>1. ASSUME NEW r \in Requests, CreateTenant(r) PROVE KindInv'
  BY <1>1 DEF CreateTenant
<1>2. ASSUME NEW r \in Requests, CheckTenant(r) PROVE KindInv'
  BY <1>2 DEF CheckTenant
<1>3. ASSUME NEW r \in Requests, CheckEmail(r) PROVE KindInv'
  BY <1>3 DEF CheckEmail
<1>4. ASSUME NEW r \in Requests, InsertUser(r) PROVE KindInv'
  BY <1>4 DEF InsertUser
<1>5. ASSUME NEW r \in Requests, ReadUser(r) PROVE KindInv'
  BY <1>5 DEF ReadUser
<1>6. ASSUME NEW r \in Requests, ReadTenant(r) PROVE KindInv'
  BY <1>6 DEF ReadTenant
<1>7. ASSUME NEW r \in Requests, LoginResponse(r) PROVE KindInv'
  BY <1>7 DEF LoginResponse
<1>8. ASSUME NEW r \in Requests, AuthorizeKey(r) PROVE KindInv'
  BY <1>8 DEF AuthorizeKey
<1>9. ASSUME NEW r \in Requests, AuthorizeToken(r) PROVE KindInv'
  BY <1>9 DEF AuthorizeToken
<1>10. ASSUME NEW r \in Requests, AuthorizeUser(r) PROVE KindInv'
  BY <1>10 DEF AuthorizeUser
<1>11. ASSUME NEW r \in Requests, RotateKey(r) PROVE KindInv'
  BY <1>11 DEF RotateKey
<1>12. ASSUME NEW r \in Requests, NEW k \in {"call", "rotate"}, Call(r, k)
       PROVE  KindInv'
  BY <1>12 DEF Call, Come
<1>13. ASSUME NEW r \in Requests, StatementFails(r) PROVE KindInv'
  BY <1>13 DEF StatementFails, Fault
<1>14. ASSUME NEW r \in Requests, CommitUnheard(r) PROVE KindInv'
  BY <1>14 DEF CommitUnheard, Fault
<1>15. ASSUME NEW r \in Requests, NEW t \in Tenants, Register(r, t) PROVE KindInv'
  BY <1>15 DEF Register, Come
<1>16. ASSUME NEW r \in Requests, NEW t \in Tenants, OperatorRotates(r, t)
       PROVE  KindInv'
  BY <1>16 DEF OperatorRotates, Come
<1>17. ASSUME NEW r \in Requests, NEW e \in Emails, Login(r, e) PROVE KindInv'
  BY <1>17 DEF Login, Come
<1>18. ASSUME NEW r \in Requests, NEW t \in Tenants, NEW e \in Emails, AddUser(r, t, e)
       PROVE  KindInv'
  BY <1>18 DEF AddUser, Come
<1>19. ASSUME NEW r \in Requests, NEW t \in Tenants, NEW e \in Emails,
              NEW named \in BOOLEAN, SignUp(r, t, e, named)
       PROVE  KindInv'
  BY <1>19 DEF SignUp, Come
<1>20. ASSUME NEW t \in Tenants, NEW active \in BOOLEAN, SetActive(t, active)
       PROVE  KindInv'
  BY <1>20 DEF SetActive
<1>21. CASE UNCHANGED vars
  BY <1>21 DEF vars
<1> QED
  BY <1>1, <1>2, <1>3, <1>4, <1>5, <1>6, <1>7, <1>8, <1>9, <1>10, <1>11, <1>12, <1>13,
     <1>14, <1>15, <1>16, <1>17, <1>18, <1>19, <1>20, <1>21
  DEF Next, Request, CreateStep, LoginStep, AuthorizeStep

\* Who writes a row, and what.
Writes(r) ==
    \/ pc[r] = "create" /\ TenantFree(r) /\ InsertTenant(r) /\ UNCHANGED users
    \/ pc[r] = "insert" /\ EmailFree(r) /\ InsertRow(r) /\ UNCHANGED tenants
    \/ pc[r] = "rotate" /\ Exists(tenant[r]) /\ StoreKey(r) /\ UNCHANGED users

\* Rows change by these writes and by an activation or deactivation alone.
LEMMA WritesOnly ==
    [Next]_vars =>
        \/ UNCHANGED rows
        \/ \E r \in Requests : Writes(r)
        \/ \E t \in Tenants, active \in BOOLEAN : SetActive(t, active)
BY DEF Next, Request, CreateStep, LoginStep, AuthorizeStep, vars, rows, Writes,
   CreateTenant, CheckTenant, CheckEmail, InsertUser, ReadUser, ReadTenant, LoginResponse,
   AuthorizeKey, AuthorizeToken, AuthorizeUser, RotateKey, Call, StatementFails,
   CommitUnheard, Register, OperatorRotates, Login, AddUser, SignUp

\* No tenant goes, and a user's row stays as it was written.
RowsKept ==
    /\ \A t \in Tenants : Exists(t) => Exists(t)'
    /\ \A u \in Requests : users[u] # None => users'[u] = users[u]

\* Every step keeps the rows.
LEMMA KeepsRows == IInv /\ [Next]_vars => RowsKept
<1> SUFFICES ASSUME IInv, [Next]_vars PROVE RowsKept
  OBVIOUS
<1> USE DEF IInv, TypeOK, RowsKept, Exists
<1>1. CASE UNCHANGED rows
  BY <1>1 DEF rows
<1>2. ASSUME NEW r \in Requests, Writes(r) PROVE RowsKept
  <2>1. tenant[r] \in Tenants \/ pc[r] = "insert"
    BY <1>2 DEF Writes, CreateSteps
  <2>2. CASE TenantFree(r) /\ InsertTenant(r) /\ UNCHANGED users
    <3>1. [key |-> r, active |-> TRUE] \in TenantRow
      BY DEF TenantRow
    <3> QED
      BY <2>2, <3>1, AccountsAssumption DEF InsertTenant
  <2>3. CASE pc[r] = "insert" /\ InsertRow(r) /\ UNCHANGED tenants
    <3>1. users[r] = None
      BY <2>3 DEF RowInv, Written
    <3> QED
      BY <2>3, <3>1 DEF InsertRow
  <2>4. CASE Exists(tenant[r]) /\ StoreKey(r) /\ UNCHANGED users
    <3>1. [tenants[tenant[r]] EXCEPT !.key = r] # None \/ tenant[r] \notin Tenants
      BY <2>4, AccountsAssumption DEF TenantRow
    <3> QED
      BY <2>4, <3>1 DEF StoreKey
  <2> QED
    BY <1>2, <2>2, <2>3, <2>4 DEF Writes
<1>3. ASSUME NEW t \in Tenants, NEW active \in BOOLEAN, SetActive(t, active)
      PROVE  RowsKept
  <2>1. [tenants[t] EXCEPT !.active = active] # None
    BY <1>3, AccountsAssumption DEF SetActive, TenantRow
  <2> QED
    BY <1>3, <2>1 DEF SetActive
<1> QED
  BY <1>1, <1>2, <1>3, WritesOnly

\* A user is written for a tenant that was checked, and no tenant goes.
LEMMA HousedStep == IInv /\ [Next]_vars => Housed'
<1> SUFFICES ASSUME IInv, [Next]_vars PROVE Housed'
  OBVIOUS
<1>1. \A t \in Tenants : tenants[t] # None => tenants'[t] # None
  BY KeepsRows DEF RowsKept, Exists
<1>2. /\ users \in [Requests -> UserRow \cup {None}]
      /\ tenant \in [Requests -> Tenants \cup {None}]
      /\ \A r \in Requests : pc[r] = "insert" => tenant[r] \in Tenants
  BY DEF IInv, TypeOK, CreateSteps
<1>3. Housed /\ Checked
  BY DEF IInv, RowInv
<1>4. \A u \in Requests : users[u] # None =>
        users[u].tenant \in Tenants /\ tenants'[users[u].tenant] # None
  BY <1>1, <1>2, <1>3 DEF Housed, UserRow, Exists
<1>5. CASE UNCHANGED users
  BY <1>4, <1>5 DEF Housed, Exists
<1>6. ASSUME NEW r \in Requests, pc[r] = "insert", InsertRow(r) PROVE Housed'
  <2>1. tenants'[tenant[r]] # None
    BY <1>1, <1>2, <1>3, <1>6 DEF Checked, Exists
  <2> QED
    BY <1>2, <1>4, <1>6, <2>1 DEF Housed, InsertRow, Exists
<1> QED
  BY <1>5, <1>6, WritesOnly DEF Writes, SetActive, rows

\* A tenant that was checked is there when the user is inserted.
LEMMA CheckedStep == IInv /\ [Next]_vars => Checked'
<1> SUFFICES ASSUME IInv, [Next]_vars PROVE Checked'
  OBVIOUS
<1> USE DEF Checked, Exists, Active, CreateSteps, given, bounds, rows, AfterAuthorize
<1>k. \A t \in Tenants : tenants[t] # None => tenants'[t] # None
  BY KeepsRows DEF RowsKept, Exists
<1>t. /\ Checked /\ pc \in [Requests -> Running \cup {"new", "done", "refused"}]
      /\ tenant \in [Requests -> Tenants \cup {None}]
      /\ \A r \in Requests : pc[r] \in CreateSteps => tenant[r] \in Tenants
  BY DEF IInv, RowInv, TypeOK
<1>1. ASSUME NEW r \in Requests, CreateTenant(r) PROVE Checked'
  BY <1>k, <1>t, <1>1 DEF CreateTenant
<1>2. ASSUME NEW r \in Requests, CheckTenant(r) PROVE Checked'
  BY <1>k, <1>t, <1>2 DEF CheckTenant
<1>3. ASSUME NEW r \in Requests, CheckEmail(r) PROVE Checked'
  BY <1>k, <1>t, <1>3 DEF CheckEmail
<1>4. ASSUME NEW r \in Requests, InsertUser(r) PROVE Checked'
  BY <1>k, <1>t, <1>4 DEF InsertUser
<1>5. ASSUME NEW r \in Requests, ReadUser(r) PROVE Checked'
  BY <1>k, <1>t, <1>5 DEF ReadUser
<1>6. ASSUME NEW r \in Requests, ReadTenant(r) PROVE Checked'
  BY <1>k, <1>t, <1>6 DEF ReadTenant
<1>7. ASSUME NEW r \in Requests, LoginResponse(r) PROVE Checked'
  BY <1>k, <1>t, <1>7 DEF LoginResponse
<1>8. ASSUME NEW r \in Requests, AuthorizeKey(r) PROVE Checked'
  BY <1>k, <1>t, <1>8 DEF AuthorizeKey
<1>9. ASSUME NEW r \in Requests, AuthorizeToken(r) PROVE Checked'
  BY <1>k, <1>t, <1>9 DEF AuthorizeToken
<1>10. ASSUME NEW r \in Requests, AuthorizeUser(r) PROVE Checked'
  BY <1>k, <1>t, <1>10 DEF AuthorizeUser
<1>11. ASSUME NEW r \in Requests, RotateKey(r) PROVE Checked'
  BY <1>k, <1>t, <1>11 DEF RotateKey
<1>12. ASSUME NEW r \in Requests, NEW k \in {"call", "rotate"}, Call(r, k)
       PROVE  Checked'
  BY <1>k, <1>t, <1>12 DEF Call, Come
<1>13. ASSUME NEW r \in Requests, StatementFails(r) PROVE Checked'
  BY <1>k, <1>t, <1>13 DEF StatementFails, Fault
<1>14. ASSUME NEW r \in Requests, CommitUnheard(r) PROVE Checked'
  BY <1>k, <1>t, <1>14 DEF CommitUnheard, Fault
<1>15. ASSUME NEW r \in Requests, NEW t \in Tenants, Register(r, t) PROVE Checked'
  BY <1>k, <1>t, <1>15 DEF Register, Come
<1>16. ASSUME NEW r \in Requests, NEW t \in Tenants, OperatorRotates(r, t)
       PROVE  Checked'
  BY <1>k, <1>t, <1>16 DEF OperatorRotates, Come
<1>17. ASSUME NEW r \in Requests, NEW e \in Emails, Login(r, e) PROVE Checked'
  BY <1>k, <1>t, <1>17 DEF Login, Come
<1>18. ASSUME NEW r \in Requests, NEW t \in Tenants, NEW e \in Emails, AddUser(r, t, e)
       PROVE  Checked'
  BY <1>k, <1>t, <1>18 DEF AddUser, Come
<1>19. ASSUME NEW r \in Requests, NEW t \in Tenants, NEW e \in Emails,
              NEW named \in BOOLEAN, SignUp(r, t, e, named)
       PROVE  Checked'
  BY <1>k, <1>t, <1>19 DEF SignUp, Come
<1>20. ASSUME NEW t \in Tenants, NEW active \in BOOLEAN, SetActive(t, active)
       PROVE  Checked'
  BY <1>k, <1>t, <1>20 DEF SetActive
<1>21. CASE UNCHANGED vars
  BY <1>k, <1>t, <1>21 DEF vars
<1> QED
  BY <1>1, <1>2, <1>3, <1>4, <1>5, <1>6, <1>7, <1>8, <1>9, <1>10, <1>11, <1>12, <1>13,
     <1>14, <1>15, <1>16, <1>17, <1>18, <1>19, <1>20, <1>21
  DEF Next, Request, CreateStep, LoginStep, AuthorizeStep

\* A request that wrote its row is answered, unless the database failed on it.
LEMMA WrittenStep == IInv /\ [Next]_vars => Written'
<1> SUFFICES ASSUME IInv, [Next]_vars PROVE Written'
  OBVIOUS
<1> USE DEF Written, InsertRow, given, bounds, rows, AfterAuthorize
<1>t. /\ Written /\ pc \in [Requests -> Running \cup {"new", "done", "refused"}]
      /\ users \in [Requests -> UserRow \cup {None}] /\ disturbed \subseteq Requests
  BY DEF IInv, RowInv, TypeOK
<1>1. ASSUME NEW r \in Requests, CreateTenant(r) PROVE Written'
  BY <1>t, <1>1 DEF CreateTenant
<1>2. ASSUME NEW r \in Requests, CheckTenant(r) PROVE Written'
  BY <1>t, <1>2 DEF CheckTenant
<1>3. ASSUME NEW r \in Requests, CheckEmail(r) PROVE Written'
  BY <1>t, <1>3 DEF CheckEmail
<1>4. ASSUME NEW r \in Requests, InsertUser(r) PROVE Written'
  BY <1>t, <1>4 DEF InsertUser
<1>5. ASSUME NEW r \in Requests, ReadUser(r) PROVE Written'
  BY <1>t, <1>5 DEF ReadUser
<1>6. ASSUME NEW r \in Requests, ReadTenant(r) PROVE Written'
  BY <1>t, <1>6 DEF ReadTenant
<1>7. ASSUME NEW r \in Requests, LoginResponse(r) PROVE Written'
  <2>1. user[r] \in Requests /\ users[user[r]] # None
    BY <1>7 DEF LoginResponse, IInv, TokenInv
  <2>2. Exists(users[user[r]].tenant)
    BY <2>1 DEF IInv, RowInv, Housed
  <2> QED
    BY <1>t, <1>7, <2>2 DEF LoginResponse
<1>8. ASSUME NEW r \in Requests, AuthorizeKey(r) PROVE Written'
  BY <1>t, <1>8 DEF AuthorizeKey
<1>9. ASSUME NEW r \in Requests, AuthorizeToken(r) PROVE Written'
  BY <1>t, <1>9 DEF AuthorizeToken
<1>10. ASSUME NEW r \in Requests, AuthorizeUser(r) PROVE Written'
  BY <1>t, <1>10 DEF AuthorizeUser
<1>11. ASSUME NEW r \in Requests, RotateKey(r) PROVE Written'
  BY <1>t, <1>11 DEF RotateKey
<1>12. ASSUME NEW r \in Requests, NEW k \in {"call", "rotate"}, Call(r, k)
       PROVE  Written'
  BY <1>t, <1>12 DEF Call, Come
<1>13. ASSUME NEW r \in Requests, StatementFails(r) PROVE Written'
  BY <1>t, <1>13 DEF StatementFails, Fault
<1>14. ASSUME NEW r \in Requests, CommitUnheard(r) PROVE Written'
  BY <1>t, <1>14 DEF CommitUnheard, Fault
<1>15. ASSUME NEW r \in Requests, NEW t \in Tenants, Register(r, t) PROVE Written'
  BY <1>t, <1>15 DEF Register, Come
<1>16. ASSUME NEW r \in Requests, NEW t \in Tenants, OperatorRotates(r, t)
       PROVE  Written'
  BY <1>t, <1>16 DEF OperatorRotates, Come
<1>17. ASSUME NEW r \in Requests, NEW e \in Emails, Login(r, e) PROVE Written'
  BY <1>t, <1>17 DEF Login, Come
<1>18. ASSUME NEW r \in Requests, NEW t \in Tenants, NEW e \in Emails, AddUser(r, t, e)
       PROVE  Written'
  BY <1>t, <1>18 DEF AddUser, Come
<1>19. ASSUME NEW r \in Requests, NEW t \in Tenants, NEW e \in Emails,
              NEW named \in BOOLEAN, SignUp(r, t, e, named)
       PROVE  Written'
  BY <1>t, <1>19 DEF SignUp, Come
<1>20. ASSUME NEW t \in Tenants, NEW active \in BOOLEAN, SetActive(t, active)
       PROVE  Written'
  BY <1>t, <1>20 DEF SetActive
<1>21. CASE UNCHANGED vars
  BY <1>t, <1>21 DEF vars
<1> QED
  BY <1>1, <1>2, <1>3, <1>4, <1>5, <1>6, <1>7, <1>8, <1>9, <1>10, <1>11, <1>12, <1>13,
     <1>14, <1>15, <1>16, <1>17, <1>18, <1>19, <1>20, <1>21
  DEF Next, Request, CreateStep, LoginStep, AuthorizeStep

\* What a token names stays, and so does what a login found.
LEMMA TokenStep == IInv /\ [Next]_vars => TokenInv'
<1> SUFFICES ASSUME IInv, [Next]_vars PROVE TokenInv'
  OBVIOUS
<1> USE DEF TokenInv, KindInv, TokenIssued, Named, AuthorizeSteps, given, bounds, rows,
            AfterAuthorize
<1>k. \A u \in Requests : users[u] # None => users'[u] = users[u]
  BY KeepsRows DEF RowsKept
<1>t. /\ TokenInv /\ KindInv
      /\ pc \in [Requests -> Running \cup {"new", "done", "refused"}]
      /\ kind \in [Requests -> Kinds]
      /\ tenant \in [Requests -> Tenants \cup {None}]
      /\ token \in [Requests -> Requests \cup {None}]
      /\ user \in [Requests -> Requests \cup {None}]
      /\ users \in [Requests -> UserRow \cup {None}]
  BY AccountsAssumption DEF IInv, TypeOK
<1>1. ASSUME NEW r \in Requests, CreateTenant(r) PROVE TokenInv'
  BY <1>k, <1>t, <1>1 DEF CreateTenant
<1>2. ASSUME NEW r \in Requests, CheckTenant(r) PROVE TokenInv'
  BY <1>k, <1>t, <1>2 DEF CheckTenant
<1>3. ASSUME NEW r \in Requests, CheckEmail(r) PROVE TokenInv'
  BY <1>k, <1>t, <1>3 DEF CheckEmail
<1>4. ASSUME NEW r \in Requests, InsertUser(r) PROVE TokenInv'
  <2>1. token[r] = None /\ pc[r] = "insert" /\ kind[r] \in {"signup", "addUser"}
    BY <1>t, <1>4 DEF InsertUser
  <2>2. \A q \in Requests \ {r} : pc'[q] = pc[q] /\ user'[q] = user[q]
    BY <1>t, <1>4 DEF InsertUser
  <2>3. UNCHANGED <<kind, tenant, token, email>>
    BY <1>4 DEF InsertUser
  <2>4. CASE pc'[r] = "refused"
    BY <1>k, <1>t, <2>1, <2>2, <2>3, <2>4
  <2>5. CASE /\ InsertRow(r) /\ user'[r] = r
             /\ pc'[r] = (IF kind[r] = "signup" THEN "reply" ELSE "done")
    <3>1. [tenant |-> tenant[r], email |-> email[r]] \in UserRow
      BY <1>t, <2>1 DEF UserRow, IInv, TypeOK, CreateSteps
    <3>2. users'[r] # None
      BY <1>t, <2>5, <3>1, AccountsAssumption DEF InsertRow
    <3> QED
      BY <1>k, <1>t, <2>1, <2>2, <2>3, <2>5, <3>2
  <2> QED
    BY <1>t, <1>4, <2>4, <2>5 DEF InsertUser
<1>5. ASSUME NEW r \in Requests, ReadUser(r) PROVE TokenInv'
  <2>1. token[r] = None /\ pc[r] = "readUser"
    BY <1>t, <1>5 DEF ReadUser
  <2>2. \A q \in Requests \ {r} : pc'[q] = pc[q] /\ user'[q] = user[q]
    BY <1>t, <1>5 DEF ReadUser
  <2>3. UNCHANGED <<users, kind, tenant, token, email>>
    BY <1>5 DEF ReadUser
  <2>4. \/ /\ pc'[r] = "readTenant" /\ user'[r] \in Requests /\ users[user'[r]] # None
           /\ users[user'[r]].email = email[r]
        \/ pc'[r] = "refused"
    BY <1>t, <1>5 DEF ReadUser, Registered
  <2> QED
    BY <1>t, <2>1, <2>2, <2>3, <2>4
<1>6. ASSUME NEW r \in Requests, ReadTenant(r) PROVE TokenInv'
  BY <1>k, <1>t, <1>6 DEF ReadTenant
<1>7. ASSUME NEW r \in Requests, LoginResponse(r) PROVE TokenInv'
  BY <1>k, <1>t, <1>7 DEF LoginResponse
<1>8. ASSUME NEW r \in Requests, AuthorizeKey(r) PROVE TokenInv'
  BY <1>k, <1>t, <1>8 DEF AuthorizeKey
<1>9. ASSUME NEW r \in Requests, AuthorizeToken(r) PROVE TokenInv'
  <2>1. token[r] \in Requests /\ Named(token[r]) /\ user[r] = user[token[r]]
    BY <1>t, <1>9 DEF AuthorizeToken
  <2>2. tenant[token[r]] \in Tenants
    BY <1>t, <2>1 DEF UserRow
  <2> QED
    BY <1>k, <1>t, <1>9, <2>1, <2>2 DEF AuthorizeToken
<1>10. ASSUME NEW r \in Requests, AuthorizeUser(r) PROVE TokenInv'
  BY <1>k, <1>t, <1>10 DEF AuthorizeUser
<1>11. ASSUME NEW r \in Requests, RotateKey(r) PROVE TokenInv'
  BY <1>k, <1>t, <1>11 DEF RotateKey
<1>12. ASSUME NEW r \in Requests, NEW k \in {"call", "rotate"}, Call(r, k)
       PROVE  TokenInv'
  BY <1>k, <1>t, <1>12 DEF Call, Come
<1>13. ASSUME NEW r \in Requests, StatementFails(r) PROVE TokenInv'
  BY <1>k, <1>t, <1>13 DEF StatementFails, Fault, Running, CreateSteps, LoginSteps
<1>14. ASSUME NEW r \in Requests, CommitUnheard(r) PROVE TokenInv'
  BY <1>k, <1>t, <1>14 DEF CommitUnheard, Fault
<1>15. ASSUME NEW r \in Requests, NEW t \in Tenants, Register(r, t) PROVE TokenInv'
  BY <1>k, <1>t, <1>15 DEF Register, Come
<1>16. ASSUME NEW r \in Requests, NEW t \in Tenants, OperatorRotates(r, t)
       PROVE  TokenInv'
  BY <1>k, <1>t, <1>16 DEF OperatorRotates, Come
<1>17. ASSUME NEW r \in Requests, NEW e \in Emails, Login(r, e) PROVE TokenInv'
  BY <1>k, <1>t, <1>17 DEF Login, Come
<1>18. ASSUME NEW r \in Requests, NEW t \in Tenants, NEW e \in Emails, AddUser(r, t, e)
       PROVE  TokenInv'
  BY <1>k, <1>t, <1>18 DEF AddUser, Come
<1>19. ASSUME NEW r \in Requests, NEW t \in Tenants, NEW e \in Emails,
              NEW named \in BOOLEAN, SignUp(r, t, e, named)
       PROVE  TokenInv'
  BY <1>k, <1>t, <1>19 DEF SignUp, Come
<1>20. ASSUME NEW t \in Tenants, NEW active \in BOOLEAN, SetActive(t, active)
       PROVE  TokenInv'
  BY <1>k, <1>t, <1>20 DEF SetActive
<1>21. CASE UNCHANGED vars
  BY <1>k, <1>t, <1>21 DEF vars
<1> QED
  BY <1>1, <1>2, <1>3, <1>4, <1>5, <1>6, <1>7, <1>8, <1>9, <1>10, <1>11, <1>12, <1>13,
     <1>14, <1>15, <1>16, <1>17, <1>18, <1>19, <1>20, <1>21
  DEF Next, Request, CreateStep, LoginStep, AuthorizeStep

\* Every step watches the credentials.
LEMMA WatchStep == [Next]_vars => Watch \/ UNCHANGED vars
BY DEF Next, Request, CreateStep, LoginStep, AuthorizeStep, CreateTenant, CheckTenant,
   CheckEmail, InsertUser, ReadUser, ReadTenant, LoginResponse, AuthorizeKey,
   AuthorizeToken, AuthorizeUser, RotateKey, Call, StatementFails, CommitUnheard,
   Register, OperatorRotates, Login, AddUser, SignUp, SetActive

\* Whoever gets past a check has a credential that is good at that moment.
LEMMA ServedStep == IInv /\ [Next]_vars => Served'
<1> SUFFICES ASSUME IInv, [Next]_vars PROVE Served'
  OBVIOUS
<1> USE DEF Served, NoneServedStale, KindInv, AuthorizeSteps, given, bounds, rows,
            AfterAuthorize
<1>w. valid \subseteq valid'
  BY WatchStep, WatchGrows DEF vars
<1>t. /\ KindInv /\ Served /\ valid \subseteq Requests
      /\ pc \in [Requests -> Running \cup {"new", "done", "refused"}]
      /\ kind \in [Requests -> Kinds]
      /\ key \in [Requests -> Requests \cup {None}]
      /\ token \in [Requests -> Requests \cup {None}]
  BY DEF IInv, TypeOK, ValidInv
<1>g. \A r \in Requests : pc[r] \in Running /\ CredentialGood(r) => r \in valid
  BY DEF IInv, ValidInv
<1>1. ASSUME NEW r \in Requests, CreateTenant(r) PROVE Served'
  BY <1>w, <1>t, <1>1 DEF CreateTenant
<1>2. ASSUME NEW r \in Requests, CheckTenant(r) PROVE Served'
  BY <1>w, <1>t, <1>2 DEF CheckTenant
<1>3. ASSUME NEW r \in Requests, CheckEmail(r) PROVE Served'
  BY <1>w, <1>t, <1>3 DEF CheckEmail
<1>4. ASSUME NEW r \in Requests, InsertUser(r) PROVE Served'
  BY <1>w, <1>t, <1>4 DEF InsertUser
<1>5. ASSUME NEW r \in Requests, ReadUser(r) PROVE Served'
  BY <1>w, <1>t, <1>5 DEF ReadUser
<1>6. ASSUME NEW r \in Requests, ReadTenant(r) PROVE Served'
  <2>1. /\ kind[r] = "login" /\ user[r] \in Requests /\ users[user[r]] # None
        /\ users[user[r]].email = email[r]
    BY <1>t, <1>6 DEF ReadTenant, IInv, TokenInv
  <2>2. Active(users[user[r]].tenant) => r \in valid
    BY <1>g, <1>6, <2>1 DEF ReadTenant, CredentialGood, Registered, Running, LoginSteps
  <2> QED
    BY <1>w, <1>t, <1>6, <2>2 DEF ReadTenant
<1>7. ASSUME NEW r \in Requests, LoginResponse(r) PROVE Served'
  BY <1>w, <1>t, <1>7 DEF LoginResponse
<1>8. ASSUME NEW r \in Requests, AuthorizeKey(r) PROVE Served'
  <2>1. \A t \in Tenants : Active(t) /\ tenants[t].key = key[r] => r \in valid
    BY <1>g, <1>8 DEF AuthorizeKey, CredentialGood, Running
  <2> QED
    BY <1>w, <1>t, <1>8, <2>1 DEF AuthorizeKey
<1>9. ASSUME NEW r \in Requests, AuthorizeToken(r) PROVE Served'
  <2>1. Active(tenant[token[r]]) => r \in valid
    BY <1>g, <1>9 DEF AuthorizeToken, CredentialGood, Running
  <2> QED
    BY <1>w, <1>t, <1>9, <2>1 DEF AuthorizeToken
<1>10. ASSUME NEW r \in Requests, AuthorizeUser(r) PROVE Served'
  BY <1>w, <1>t, <1>10 DEF AuthorizeUser
<1>11. ASSUME NEW r \in Requests, RotateKey(r) PROVE Served'
  BY <1>w, <1>t, <1>11 DEF RotateKey
<1>12. ASSUME NEW r \in Requests, NEW k \in {"call", "rotate"}, Call(r, k) PROVE Served'
  BY <1>w, <1>t, <1>12 DEF Call, Come
<1>13. ASSUME NEW r \in Requests, StatementFails(r) PROVE Served'
  BY <1>w, <1>t, <1>13 DEF StatementFails, Fault
<1>14. ASSUME NEW r \in Requests, CommitUnheard(r) PROVE Served'
  BY <1>w, <1>t, <1>14 DEF CommitUnheard, Fault
<1>15. ASSUME NEW r \in Requests, NEW t \in Tenants, Register(r, t) PROVE Served'
  BY <1>w, <1>t, <1>15 DEF Register, Come
<1>16. ASSUME NEW r \in Requests, NEW t \in Tenants, OperatorRotates(r, t) PROVE Served'
  BY <1>w, <1>t, <1>16 DEF OperatorRotates, Come
<1>17. ASSUME NEW r \in Requests, NEW e \in Emails, Login(r, e) PROVE Served'
  BY <1>w, <1>t, <1>17 DEF Login, Come
<1>18. ASSUME NEW r \in Requests, NEW t \in Tenants, NEW e \in Emails, AddUser(r, t, e)
       PROVE  Served'
  BY <1>w, <1>t, <1>18 DEF AddUser, Come
<1>19. ASSUME NEW r \in Requests, NEW t \in Tenants, NEW e \in Emails,
              NEW named \in BOOLEAN, SignUp(r, t, e, named)
       PROVE  Served'
  BY <1>w, <1>t, <1>19 DEF SignUp, Come
<1>20. ASSUME NEW t \in Tenants, NEW active \in BOOLEAN, SetActive(t, active)
       PROVE  Served'
  BY <1>w, <1>t, <1>20 DEF SetActive
<1>21. CASE UNCHANGED vars
  BY <1>w, <1>t, <1>21 DEF vars
<1> QED
  BY <1>1, <1>2, <1>3, <1>4, <1>5, <1>6, <1>7, <1>8, <1>9, <1>10, <1>11, <1>12, <1>13,
     <1>14, <1>15, <1>16, <1>17, <1>18, <1>19, <1>20, <1>21
  DEF Next, Request, CreateStep, LoginStep, AuthorizeStep

\* The inductive invariant is inductive.
LEMMA InvStep == IInv /\ [Next]_vars => IInv'
<1> SUFFICES ASSUME IInv, [Next]_vars PROVE IInv'
  OBVIOUS
<1>1. \A r \in Requests : (pc[r] \in Running /\ CredentialGood(r) => r \in valid)'
  <2>1. CASE Watch
    BY <2>1 DEF Watch
  <2>2. CASE UNCHANGED vars
    BY <2>2 DEF vars, rows, given, IInv, ValidInv, CredentialGood, Active, Exists,
       Registered
  <2> QED
    BY <2>1, <2>2, WatchStep
<1> QED
  BY <1>1, TypeStep, KindStep, TokenStep, HousedStep, CheckedStep, WrittenStep,
     ServedStep
  DEF IInv, RowInv, ValidInv

\* The inductive invariant holds throughout.
LEMMA Invariance == Spec => []IInv
BY InitInv, InvStep, PTL DEF Spec

-------------------------------------------------------------------------------
(* The theorems.                                                           *)

\* The tables and the requests keep their types, and a request that writes names
\* a tenant.
THEOREM AccountsTypeCorrect == Spec => []TypeOK
<1>1. IInv => TypeOK
  BY DEF IInv
<1> QED
  BY <1>1, Invariance, PTL

\* A request whose key, token or address belonged to no active tenant from its
\* arrival on is never served (_resolve_tenant_context, authenticate_user).
THEOREM StaleNeverServed == Spec => []NoneServedStale
<1>1. IInv => NoneServedStale
  BY DEF IInv, ValidInv, Served
<1> QED
  BY <1>1, Invariance, PTL

\* Users have tenants and tokens have users, without a foreign key in the schema
\* (signup_user, create_user, _login_response).
THEOREM AccountsStayWhole == Spec => []AccountsWhole
<1>1. IInv => AccountsWhole
  BY DEF IInv, RowInv, Housed, TokenInv, Named, AccountsWhole
<1> QED
  BY <1>1, Invariance, PTL

\* A refusal means there is no account, unless the database failed
\* (create_user, _login_response).
THEOREM RefusalsAreClean == Spec => []RefusedLeavesNoAccount
<1>1. IInv => RefusedLeavesNoAccount
  BY DEF IInv, RowInv, Written, RefusedLeavesNoAccount
<1> QED
  BY <1>1, Invariance, PTL

\* Only a rotation asked for a tenant changes its key, and no tenant goes
\* (create_tenant, rotate_api_key).
THEOREM KeysAreRotated == Spec => KeysChangeByRotation
<1> DEFINE Rotated ==
      \A t \in Tenants : Exists(t) =>
        /\ Exists(t)'
        /\ tenants'[t].key # tenants[t].key =>
             \E r \in Requests : /\ tenants'[t].key = r /\ kind[r] = "rotate"
                                 /\ pc[r] = "rotate" /\ tenant[r] = t
<1>1. IInv /\ [Next]_vars => Rotated
  <2> SUFFICES ASSUME IInv, [Next]_vars, NEW t \in Tenants, Exists(t)
               PROVE  tenants'[t].key # tenants[t].key =>
                        \E r \in Requests : /\ tenants'[t].key = r /\ kind[r] = "rotate"
                                            /\ pc[r] = "rotate" /\ tenant[r] = t
    BY KeepsRows DEF RowsKept
  <2>1. tenants \in [Tenants -> TenantRow \cup {None}] /\ tenants[t] \in TenantRow
    BY DEF IInv, TypeOK, Exists
  <2>2. ASSUME NEW r \in Requests, TenantFree(r), InsertTenant(r)
        PROVE  tenants'[t] = tenants[t]
    BY <2>1, <2>2 DEF TenantFree, InsertTenant, Exists
  <2>3. ASSUME NEW r \in Requests, pc[r] = "rotate", StoreKey(r), tenant[r] = t
        PROVE  tenants'[t].key = r /\ kind[r] = "rotate"
    BY <2>1, <2>3 DEF StoreKey, TenantRow, IInv, KindInv
  <2>4. ASSUME NEW r \in Requests, StoreKey(r), tenant[r] # t
        PROVE  tenants'[t] = tenants[t]
    BY <2>1, <2>4 DEF StoreKey
  <2>5. ASSUME NEW s \in Tenants, NEW active \in BOOLEAN, SetActive(s, active)
        PROVE  tenants'[t].key = tenants[t].key
    BY <2>1, <2>5 DEF SetActive, TenantRow
  <2> QED
    BY <2>2, <2>3, <2>4, <2>5, WritesOnly DEF Writes, rows
<1> QED
  BY <1>1, Invariance, PTL DEF Spec, KeysChangeByRotation
===============================================================================
