------------------------------- MODULE Accounts -------------------------------
(***************************************************************************)
(* Tenants, users and their credentials in Postgres: sign-up, login and    *)
(* the administrative operations (src/src/db/user_store.py,                *)
(* src/src/db/tenant_store.py, the /auth and /admin routes of              *)
(* src/src/api/routes.py, src/scripts/manage_tenants.py), and the          *)
(* authorization of every other request (src/src/api/deps.py).             *)
(*                                                                         *)
(* A request runs in a thread of its own and opens a session for each      *)
(* function it calls; under READ COMMITTED each SELECT sees what is        *)
(* committed when it runs.  What it read may therefore have changed when   *)
(* it writes, and only the unique columns stop it.                         *)
(*                                                                         *)
(* A request inserts at most one user and makes at most one API key, so it *)
(* stands for both: the row users[r], the key r.  Nothing deletes a row    *)
(* and nothing clears User.is_active.  Passwords are right or wrong.       *)
(***************************************************************************)
EXTENDS Naturals

CONSTANTS
    Requests,
    Tenants,
    Emails,       \* normalized, as create_user stores them
    MaxSwitches,  \* bound on the (de)activations of a behaviour
    MaxFaults,    \* bound on the failures of the database
    None

TenantRow == [key : Requests, active : BOOLEAN]
UserRow   == [tenant : Tenants, email : Emails]

ASSUME AccountsAssumption ==
    /\ MaxSwitches \in Nat /\ MaxFaults \in Nat
    /\ None \notin Requests \cup Tenants \cup Emails
    /\ None \notin TenantRow \cup UserRow

VARIABLES
    tenants,    \* tenants[t]: its row, or None
    users,      \* users[r]: the row that r inserted, or None
    pc,         \* pc[r]: the next step of request r
    kind,       \* kind[r]: what r asks for
    tenant,     \* tenant[r]: the tenant r names, or acts for once authorized
    email,      \* email[r]: the address r names
    key,        \* key[r]: the API key r presents
    token,      \* token[r]: the request whose reply carried the token r presents
    user,       \* user[r]: the row of the user r found, inserted or was given
    switches,
    faults,
    (* History, read by the properties alone. *)
    valid,      \* requests whose credential was good at some moment since they came
    disturbed   \* requests during which the database failed

rows == <<tenants, users>>
given == <<kind, email, key, token>>
bounds == <<switches, faults, disturbed>>
vars == <<rows, pc, given, tenant, user, bounds, valid>>

Kinds == {"none", "signup", "register", "addUser", "login", "call", "rotate"}

CreateSteps    == {"create", "checkTenant", "checkEmail", "insert"}
LoginSteps     == {"readUser", "readTenant", "reply"}
AuthorizeSteps == {"authorize", "authorizeUser", "rotate"}
Running        == CreateSteps \cup LoginSteps \cup AuthorizeSteps

TypeOK ==
    /\ tenants \in [Tenants -> TenantRow \cup {None}]
    /\ users \in [Requests -> UserRow \cup {None}]
    /\ pc \in [Requests -> Running \cup {"new", "done", "refused"}]
    /\ kind \in [Requests -> Kinds]
    /\ tenant \in [Requests -> Tenants \cup {None}]
    /\ email \in [Requests -> Emails \cup {None}]
    /\ key \in [Requests -> Requests \cup {None}]
    /\ token \in [Requests -> Requests \cup {None}]
    /\ user \in [Requests -> Requests \cup {None}]
    /\ switches \in 0..MaxSwitches
    /\ faults \in 0..MaxFaults
    /\ valid \subseteq Requests
    /\ disturbed \subseteq Requests
    /\ \A r \in Requests :
        /\ pc[r] \in CreateSteps \cup {"rotate"} => tenant[r] \in Tenants
        /\ pc[r] \in {"readTenant", "reply", "authorizeUser"} => user[r] \in Requests

Init ==
    /\ tenants = [t \in Tenants |-> None]
    /\ users = [r \in Requests |-> None]
    /\ pc = [r \in Requests |-> "new"]
    /\ kind = [r \in Requests |-> "none"]
    /\ tenant = [r \in Requests |-> None]
    /\ email = [r \in Requests |-> None]
    /\ key = [r \in Requests |-> None]
    /\ token = [r \in Requests |-> None]
    /\ user = [r \in Requests |-> None]
    /\ switches = 0
    /\ faults = 0
    /\ valid = {}
    /\ disturbed = {}

Goto(r, label) == pc' = [pc EXCEPT ![r] = label]

Exists(t) == tenants[t] # None
Active(t) == Exists(t) /\ tenants[t].active

Registered(e) == {u \in Requests : users[u] # None /\ users[u].email = e}

(***************************************************************************)
(* The rows.                                                               *)
(***************************************************************************)
InsertTenant(r) ==
    tenants' = [tenants EXCEPT ![tenant[r]] = [key |-> r, active |-> TRUE]]

InsertRow(r) ==
    users' = [users EXCEPT ![r] = [tenant |-> tenant[r], email |-> email[r]]]

StoreKey(r) == tenants' = [tenants EXCEPT ![tenant[r]].key = r]

\* The unique columns: Tenant.id and User.email.
TenantFree(r) == ~Exists(tenant[r])
EmailFree(r) == Registered(email[r]) = {}

(***************************************************************************)
(* Which credentials are good, from one step to the next.                  *)
(***************************************************************************)
\* The credential of request r, if it has one, is that of an active tenant.
CredentialGood(r) ==
    \/ \E t \in Tenants : Active(t) /\ tenants[t].key = key[r]
    \/ token[r] # None /\ Active(tenant[token[r]])
    \/ kind[r] = "login" /\ \E u \in Registered(email[r]) : Active(users[u].tenant)

Watch == valid' = valid \cup {r \in Requests : pc'[r] \in Running /\ CredentialGood(r)'}

(***************************************************************************)
(* Requests come.                                                          *)
(***************************************************************************)
Come(r, k, t, e) ==
    /\ pc[r] = "new"
    /\ kind' = [kind EXCEPT ![r] = k]
    /\ tenant' = [tenant EXCEPT ![r] = t]
    /\ email' = [email EXCEPT ![r] = e]

\* POST /auth/signup looks at the tenant first: the caller joins an active one,
\* or registers a new one when it gave the organization a name.
SignUp(r, t, e, named) ==
    /\ Come(r, "signup", t, e)
    /\ Goto(r, CASE ~Exists(t) /\ named  -> "create"
                 [] Active(t)            -> "checkTenant"
                 [] OTHER                -> "refused")
    /\ UNCHANGED <<rows, key, token, user, bounds>>
    /\ Watch

\* POST /auth/register, or `manage_tenants.py create'.
Register(r, t) ==
    /\ Come(r, "register", t, None)
    /\ Goto(r, "create")
    /\ UNCHANGED <<rows, key, token, user, bounds>>
    /\ Watch

\* `manage_tenants.py add-user'.
AddUser(r, t, e) ==
    /\ Come(r, "addUser", t, e)
    /\ Goto(r, "checkTenant")
    /\ UNCHANGED <<rows, key, token, user, bounds>>
    /\ Watch

\* POST /auth/login.
Login(r, e) ==
    /\ Come(r, "login", None, e)
    /\ Goto(r, "readUser")
    /\ UNCHANGED <<rows, key, token, user, bounds>>
    /\ Watch

\* Who was given key k, and who a token.
KeyShown(k) == pc[k] = "done" /\ kind[k] \in {"register", "rotate"}
TokenIssued(q) == pc[q] = "done" /\ kind[q] \in {"signup", "login"}

\* Any route behind authorize, with an API key or a token that was handed out;
\* k is "rotate" for POST /auth/rotate-key.
Call(r, k) ==
    /\ Come(r, k, None, None)
    /\ Goto(r, "authorize")
    /\ \/ \E q \in Requests :
            /\ KeyShown(q)
            /\ key' = [key EXCEPT ![r] = q]
            /\ UNCHANGED <<token, user>>
       \/ \E q \in Requests :
            /\ TokenIssued(q)
            /\ token' = [token EXCEPT ![r] = q]
            /\ user' = [user EXCEPT ![r] = user[q]]
            /\ UNCHANGED key
    /\ UNCHANGED <<rows, bounds>>
    /\ Watch

\* `manage_tenants.py rotate-key' asks for no credential.
OperatorRotates(r, t) ==
    /\ Come(r, "rotate", t, None)
    /\ Goto(r, "rotate")
    /\ UNCHANGED <<rows, key, token, user, bounds>>
    /\ Watch

(***************************************************************************)
(* create_tenant and create_user.                                          *)
(***************************************************************************)
\* Mutant: merge instead of add, so a row that is there is written over.
MergeTenant(r) ==
    /\ pc[r] = "create"
    /\ InsertTenant(r)
    /\ Goto(r, IF kind[r] = "signup" THEN "checkTenant" ELSE "done")
    /\ UNCHANGED <<users, given, tenant, user, bounds>>
    /\ Watch

\* The new key of a sign-up is dropped with the result of create_tenant.
CreateTenant(r) ==
    /\ pc[r] = "create"
    /\ \/ /\ TenantFree(r)
          /\ InsertTenant(r)
          /\ Goto(r, IF kind[r] = "signup" THEN "checkTenant" ELSE "done")
       \/ /\ ~TenantFree(r)
          /\ Goto(r, "refused")
          /\ UNCHANGED tenants
    /\ UNCHANGED <<users, given, tenant, user, bounds>>
    /\ Watch

\* Mutant: only a deactivated tenant is refused.
CheckDeactivated(r) ==
    /\ pc[r] = "checkTenant"
    /\ Goto(r, IF Exists(tenant[r]) => Active(tenant[r]) THEN "checkEmail" ELSE "refused")
    /\ UNCHANGED <<rows, given, tenant, user, bounds>>
    /\ Watch

CheckTenant(r) ==
    /\ pc[r] = "checkTenant"
    /\ Goto(r, IF Active(tenant[r]) THEN "checkEmail" ELSE "refused")
    /\ UNCHANGED <<rows, given, tenant, user, bounds>>
    /\ Watch

CheckEmail(r) ==
    /\ pc[r] = "checkEmail"
    /\ Goto(r, IF EmailFree(r) THEN "insert" ELSE "refused")
    /\ UNCHANGED <<rows, given, tenant, user, bounds>>
    /\ Watch

\* After bcrypt.  The unique column refuses an address taken meanwhile.
InsertUser(r) ==
    /\ pc[r] = "insert"
    /\ \/ /\ EmailFree(r)
          /\ InsertRow(r)
          /\ user' = [user EXCEPT ![r] = r]
          /\ Goto(r, IF kind[r] = "signup" THEN "reply" ELSE "done")
       \/ /\ ~EmailFree(r)
          /\ Goto(r, "refused")
          /\ UNCHANGED <<users, user>>
    /\ UNCHANGED <<tenants, given, tenant, bounds>>
    /\ Watch

(***************************************************************************)
(* authenticate_user and _login_response.                                  *)
(***************************************************************************)
\* Mutant: an address without a row is not refused.
ReadNoUser(r) ==
    /\ pc[r] = "readUser"
    /\ \/ \E u \in Registered(email[r]) : user' = [user EXCEPT ![r] = u]
       \/ Registered(email[r]) = {} /\ UNCHANGED user
    /\ Goto(r, "readTenant")
    /\ UNCHANGED <<rows, given, tenant, bounds>>
    /\ Watch

ReadUser(r) ==
    /\ pc[r] = "readUser"
    /\ \/ \E u \in Registered(email[r]) :
            /\ user' = [user EXCEPT ![r] = u]
            /\ Goto(r, "readTenant")
       \/ (* No such address, or a wrong password. *)
          /\ Goto(r, "refused")
          /\ UNCHANGED user
    /\ UNCHANGED <<rows, given, tenant, bounds>>
    /\ Watch

\* After bcrypt.
ReadTenant(r) ==
    /\ pc[r] = "readTenant"
    /\ Goto(r, IF Active(users[user[r]].tenant) THEN "reply" ELSE "refused")
    /\ UNCHANGED <<rows, given, tenant, user, bounds>>
    /\ Watch

\* Mutant: an inactive tenant is refused here too.
LoginResponseActive(r) ==
    /\ pc[r] = "reply"
    /\ LET t == users[user[r]].tenant
       IN /\ Goto(r, IF Active(t) THEN "done" ELSE "refused")
          /\ tenant' = [tenant EXCEPT ![r] = t]
    /\ UNCHANGED <<rows, given, user, bounds>>
    /\ Watch

\* The token names the user and the tenant of its row.
LoginResponse(r) ==
    /\ pc[r] = "reply"
    /\ LET t == users[user[r]].tenant
       IN /\ Goto(r, IF Exists(t) THEN "done" ELSE "refused")
          /\ tenant' = [tenant EXCEPT ![r] = t]
    /\ UNCHANGED <<rows, given, user, bounds>>
    /\ Watch

(***************************************************************************)
(* authorize, and the rotation of a key.                                   *)
(***************************************************************************)
AfterAuthorize(r) == IF kind[r] = "rotate" THEN "rotate" ELSE "done"

\* Mutant: a tenant is served whether it is active or not.
AuthorizeAnyKey(r) ==
    /\ pc[r] = "authorize" /\ key[r] # None
    /\ \E t \in Tenants :
        /\ Exists(t) /\ tenants[t].key = key[r]
        /\ tenant' = [tenant EXCEPT ![r] = t]
        /\ Goto(r, AfterAuthorize(r))
    /\ UNCHANGED <<rows, given, user, bounds>>
    /\ Watch

\* get_tenant_by_api_key: one SELECT.
AuthorizeKey(r) ==
    /\ pc[r] = "authorize" /\ key[r] # None
    /\ LET found == {t \in Tenants : Exists(t) /\ tenants[t].key = key[r]}
       IN \/ \E t \in found :
               /\ Active(t)
               /\ tenant' = [tenant EXCEPT ![r] = t]
               /\ Goto(r, AfterAuthorize(r))
          \/ /\ ~\E t \in found : Active(t)
             /\ Goto(r, "refused")
             /\ UNCHANGED tenant
    /\ UNCHANGED <<rows, given, user, bounds>>
    /\ Watch

\* _tenant_from_jwt: a token expires, then the tenant is read, then the user.
AuthorizeToken(r) ==
    /\ pc[r] = "authorize" /\ token[r] # None
    /\ LET t == tenant[token[r]]
       IN \/ /\ Active(t)
             /\ tenant' = [tenant EXCEPT ![r] = t]
             /\ Goto(r, "authorizeUser")
          \/ (* The tenant is not active, or the token has expired. *)
             /\ Goto(r, "refused")
             /\ UNCHANGED tenant
    /\ UNCHANGED <<rows, given, user, bounds>>
    /\ Watch

AuthorizeUser(r) ==
    /\ pc[r] = "authorizeUser"
    /\ LET row == users[user[r]]
       IN Goto(r, IF row # None /\ row.tenant = tenant[r] THEN AfterAuthorize(r)
                                                          ELSE "refused")
    /\ UNCHANGED <<rows, given, tenant, user, bounds>>
    /\ Watch

RotateKey(r) ==
    /\ pc[r] = "rotate"
    /\ \/ Exists(tenant[r]) /\ StoreKey(r) /\ Goto(r, "done")
       \/ ~Exists(tenant[r]) /\ Goto(r, "refused") /\ UNCHANGED tenants
    /\ UNCHANGED <<users, given, tenant, user, bounds>>
    /\ Watch

(***************************************************************************)
(* The administrators, and the database.                                   *)
(***************************************************************************)
\* Activation or deactivation, by a route or the script.  When the row already
\* has the value, no UPDATE is sent: the operation took effect at its SELECT.
SetActive(t, active) ==
    /\ Exists(t)
    /\ switches < MaxSwitches /\ switches' = switches + 1
    /\ tenants' = [tenants EXCEPT ![t].active = active]
    /\ UNCHANGED <<users, pc, given, tenant, user, faults, disturbed>>
    /\ Watch

Fault(r) ==
    /\ faults < MaxFaults /\ faults' = faults + 1
    /\ disturbed' = disturbed \cup {r}
    /\ Goto(r, "refused")

\* A statement fails: the session rolls back.
StatementFails(r) ==
    /\ pc[r] \in Running
    /\ Fault(r)
    /\ UNCHANGED <<rows, given, tenant, user, switches>>
    /\ Watch

\* The connection is lost between the commit and its answer, or before the
\* refresh: the row is there, and the request ends with an error.
CommitUnheard(r) ==
    /\ \/ pc[r] = "create" /\ TenantFree(r) /\ InsertTenant(r) /\ UNCHANGED users
       \/ pc[r] = "insert" /\ EmailFree(r) /\ InsertRow(r) /\ UNCHANGED tenants
       \/ pc[r] = "rotate" /\ Exists(tenant[r]) /\ StoreKey(r) /\ UNCHANGED users
    /\ Fault(r)
    /\ UNCHANGED <<given, tenant, user, switches>>
    /\ Watch

-------------------------------------------------------------------------------
CreateStep(r) == CreateTenant(r) \/ CheckTenant(r) \/ CheckEmail(r) \/ InsertUser(r)

LoginStep(r) == ReadUser(r) \/ ReadTenant(r) \/ LoginResponse(r)

AuthorizeStep(r) ==
    AuthorizeKey(r) \/ AuthorizeToken(r) \/ AuthorizeUser(r) \/ RotateKey(r)

Request(r) ==
    \/ CreateStep(r) \/ LoginStep(r) \/ AuthorizeStep(r)
    \/ Call(r, "call") \/ Call(r, "rotate")
    \/ StatementFails(r) \/ CommitUnheard(r)
    \/ \E t \in Tenants : Register(r, t) \/ OperatorRotates(r, t)
    \/ \E e \in Emails : Login(r, e)
    \/ \E t \in Tenants, e \in Emails :
         AddUser(r, t, e) \/ \E named \in BOOLEAN : SignUp(r, t, e, named)

Next ==
    \/ \E r \in Requests : Request(r)
    \/ \E t \in Tenants, active \in BOOLEAN : SetActive(t, active)

Spec == Init /\ [][Next]_vars

-------------------------------------------------------------------------------
(***************************************************************************)
(* Properties.                                                             *)
(***************************************************************************)

\* No request is served on a credential that was dead when it came and stayed
\* dead: after a deactivation or a rotation has been answered, requests that come
\* with the old key or token are rejected, and logins too (_resolve_tenant_context,
\* authenticate_user).
NoneServedStale == \A r \in Requests :
    /\ kind[r] \in {"login", "call"} \/ key[r] # None \/ token[r] # None
    /\ pc[r] \in {"reply", "rotate", "done"}
    => r \in valid

\* A tenant stays, and its key changes only by a rotation that was asked for it:
\* a sign-up or a registration that races another for the same id does not replace
\* the key the other was given (create_tenant, rotate_api_key).
KeysChangeByRotation == [][\A t \in Tenants : Exists(t) =>
    /\ Exists(t)'
    /\ tenants'[t].key # tenants[t].key =>
         \E r \in Requests : /\ tenants'[t].key = r /\ kind[r] = "rotate"
                             /\ pc[r] = "rotate" /\ tenant[r] = t]_vars

\* users.tenant_id has no foreign key: every user is one of a tenant that exists,
\* and every token names a user of the tenant it names (create_user, signup_user,
\* _login_response).
AccountsWhole ==
    /\ \A u \in Requests : users[u] # None => Exists(users[u].tenant)
    /\ \A q \in Requests : TokenIssued(q) =>
         users[user[q]] # None /\ users[user[q]].tenant = tenant[q]

\* A sign-up or add-user that is refused has left no account behind, so that the
\* same address may try again, unless the database failed on it.
RefusedLeavesNoAccount == \A r \in Requests \ disturbed :
    pc[r] = "refused" => users[r] = None
===============================================================================
