-------------------------- MODULE AccountRequests ---------------------------
(* services/auth.service.ts of the API service behind the limiter of the auth *)
(* routes, one step per call that is awaited; and the two pages of the        *)
(* dashboard that use it.  Nobody is logged in yet: all requests of an        *)
(* address are counted in one bucket.  A password is told from others only.   *)
EXTENDS RateLimiter, Faults

CONSTANTS
    Registers, Logins,      \* POST /auth/register and /auth/login
    EmailOf, PasswordOf,    \* what is filled in
    LoginAfter              \* the login the register page sends after its request

NoUser == "nobody"

ASSUME AccountAssumption ==
    /\ Registers \cap Logins = {} /\ Registers \cup Logins \subseteq Requests
    /\ DOMAIN EmailOf = Registers \cup Logins /\ DOMAIN PasswordOf = Registers \cup Logins
    /\ LoginAfter \in [Registers -> Logins]
    /\ \A r \in Registers :
          EmailOf[LoginAfter[r]] = EmailOf[r] /\ PasswordOf[LoginAfter[r]] = PasswordOf[r]
    /\ \A r \in Registers \cup Logins : PasswordOf[r] # NoUser

VARIABLES
    user,                   \* user[e]: password of the User row of an email, or NoUser
    form                    \* form[r]: where request r is, and its answer
accountVars == <<user, form>>

Accounts == Registers \cup Logins
Emails == {EmailOf[r] : r \in Accounts}
Passwords == {PasswordOf[r] : r \in Accounts}
FormState == [at : {"waiting", "hash", "replied", "lost"}, code : {0, 200, 201, 400},
              threw : BOOLEAN]

TypeOKAccounts ==
    /\ user \in [Emails -> Passwords \cup {NoUser}]
    /\ form \in [Accounts -> FormState]

InitAccounts ==
    /\ user = [e \in Emails |-> NoUser]
    /\ form = [r \in Accounts |-> [at |-> "waiting", code |-> 0, threw |-> FALSE]]

Stored(r) == user[EmailOf[r]]
FormGoes(r, at, code) == form' = [form EXCEPT ![r] = [@ EXCEPT !.at = at, !.code = code]]

\* A password that is too short: what registerSchema takes, loginSchema takes too.
RefuseBody(r) ==
    /\ form[r].at = "waiting" /\ LetIn(r)
    /\ FormGoes(r, "replied", 400) /\ UNCHANGED user

\* register: findByEmail, then bcrypt.hash.
FindExisting(r) ==
    /\ form[r].at = "waiting" /\ LetIn(r)
    /\ IF Stored(r) # NoUser THEN FormGoes(r, "replied", 400) ELSE FormGoes(r, "hash", 0)
    /\ UNCHANGED user

\* Mutant: the row of an email that has one is written over.
CreateUserOver(r) ==
    /\ form[r].at = "hash"
    /\ FormGoes(r, "replied", 201) /\ user' = [user EXCEPT ![EmailOf[r]] = PasswordOf[r]]

\* The column is unique: whoever comes second, after both looked, gets an error.
CreateUser(r) ==
    /\ form[r].at = "hash"
    /\ IF Stored(r) # NoUser THEN FormGoes(r, "replied", 400) /\ UNCHANGED user
       ELSE FormGoes(r, "replied", 201) /\ user' = [user EXCEPT ![EmailOf[r]] = PasswordOf[r]]

\* Login: findByEmail, then bcrypt.compare with the hash that was read.
FindUser(r) ==
    /\ form[r].at = "waiting" /\ LetIn(r)
    /\ FormGoes(r, "replied", IF Stored(r) = PasswordOf[r] THEN 200 ELSE 400)
    /\ UNCHANGED user

\* A call of a handler throws, with or without effect: the answer is an error.
AccountThrows(r) ==
    /\ form[r].at = "hash" \/ (form[r].at = "waiting" /\ LetIn(r))
    /\ Fault
    /\ form' = [form EXCEPT ![r] = [at |-> "replied", code |-> 400, threw |-> TRUE]]
    /\ \/ UNCHANGED user
       \/ form[r].at = "hash" /\ Stored(r) = NoUser /\ user' = [user EXCEPT ![EmailOf[r]] = PasswordOf[r]]

\* The API process of these requests dies: no page gets an answer.
FormsDie(dying) ==
    /\ form' = [r \in Accounts |->
                   IF r \in dying /\ LetIn(r) /\ form[r].at # "replied"
                   THEN [form[r] EXCEPT !.at = "lost"] ELSE form[r]]
    /\ UNCHANGED user

\* The register page logs in with what it has registered.
AutoLogin(r) ==
    /\ form[r].code = 201 /\ gate[LoginAfter[r]].at = "absent"
    /\ gate' = [gate EXCEPT ![LoginAfter[r]].at = "new"]
    /\ UNCHANGED counter
=============================================================================
