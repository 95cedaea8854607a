------------------------------ MODULE Accounts ------------------------------
(***************************************************************************)
(* Accounts, login sessions and mailed codes: server/auth.py over          *)
(* repositories/users.py, the routes of server/api.py that reach them and  *)
(* the calls of client_api.py.  Every transaction is one step of the       *)
(* writer, but a request is several: it reads who is asking, or whom a     *)
(* code is for, decides on what it read, and writes later.                 *)
(*                                                                         *)
(* Passwords and codes are not spelt out: a login stands for one with the  *)
(* right password, and who enters a code enters one that was mailed or a   *)
(* wrong one.  Expiry is a step of its own, which may come at any time.    *)
(* Sessions that are revoked or expired, and codes that are consumed or    *)
(* expired, are passed over by every query: their rows are left out.       *)
(***************************************************************************)
EXTENDS Naturals, Sequences, SequencesExt

CONSTANTS
  Users,         \* accounts that may come to be, named by username
  Emails,        \* addresses
  NoEmail,       \* the absent address
  Clients,       \* programs that call the service, one request at a time
  Sessions,      \* rows of auth_sessions, and their tokens
  NoToken,       \* the token of a client that is not logged in
  CodeIds,       \* rows of password_reset_codes that are neither consumed nor expired
  Wrong,         \* a code nobody was sent
  MaxAttempts    \* max_attempts

ASSUME AbsenceAssumption ==
  NoEmail \notin Emails /\ NoToken \notin Sessions /\ Wrong \notin CodeIds
ASSUME AttemptsAssumption == MaxAttempts \in Nat \ {0}

VARIABLES
  users,      \* users: the row of each account that exists
  sessions,   \* auth_sessions: those neither revoked nor expired
  codes,      \* password_reset_codes, the open ones, oldest first
  token,      \* Client.token
  call,       \* the request each client has under way
  overtaken,  \* history: an account was changed by someone no longer an active admin
  clash       \* history: a statement ran into the unique index on addresses

vars == <<users, sessions, codes, token, call, overtaken, clash>>

Roles == {"admin", "member"}
Purposes == {"password_reset", "email_verify"}

Accounts == [role : Roles, active : BOOLEAN, email : Emails \cup {NoEmail}, verified : BOOLEAN]
SessionRows == [user : Users, since : {"current", "stale", "late"}]
Codes == [id : CodeIds, user : Users, purpose : Purposes, email : Emails,
          attempts : 0..MaxAttempts]

Idle == [at |-> "idle"]
Calls ==
  {Idle}
    \cup [at : {"login"}, user : Users, fresh : BOOLEAN]
    \cup [at : {"authed"}, user : Users, admin : BOOLEAN]
    \cup [at : {"issue"}, user : Users, purpose : Purposes, email : Emails]
    \cup [at : {"send", "undelivered"}, code : CodeIds]

TypeOK ==
  /\ DOMAIN users \subseteq Users
  /\ \A u \in DOMAIN users : users[u] \in Accounts
  /\ DOMAIN sessions \subseteq Sessions
  /\ \A s \in DOMAIN sessions : sessions[s] \in SessionRows
  /\ codes \in Seq(Codes)
  /\ token \in [Clients -> Sessions \cup {NoToken}]
  /\ call \in [Clients -> Calls]
  /\ overtaken \in BOOLEAN /\ clash \in BOOLEAN

Goto(c, step) == call' = [call EXCEPT ![c] = step]

ActiveAdmin(u) == u \in DOMAIN users /\ users[u].active /\ users[u].role = "admin"

-----------------------------------------------------------------------------
(* repositories/users.py *)

\* get_by_email() for another account than u.
EmailTaken(u, e) == e # NoEmail /\ \E v \in DOMAIN users \ {u} : users[v].email = e

\* create(), update_fields(): the row, unless the unique index refuses the
\* statement, which rolls the whole transaction back.
StoreRow(u, row) ==
  IF EmailTaken(u, row.email)
    THEN clash' = TRUE /\ UNCHANGED users
    ELSE users' = [v \in DOMAIN users \cup {u} |-> IF v = u THEN row ELSE users[v]]
         /\ UNCHANGED clash

\* Faulty variant: sessions outlive the password they were opened with.
KeepSessions(u, rows) == rows

\* revoke_sessions_for_user()
RevokeSessions(u, rows) ==
  [s \in {t \in DOMAIN rows : rows[t].user # u} |-> rows[s]]

\* The rows that are wanted, in their order: a WHERE clause.
Among(rows, wanted) ==
  LET kept[n \in 0..Len(rows)] ==
        IF n = 0 THEN <<>>
        ELSE IF rows[n] \in wanted THEN Append(kept[n - 1], rows[n]) ELSE kept[n - 1]
  IN kept[Len(rows)]

\* revoke_codes()
RevokeCodes(u, purpose) == Among(codes, {k \in Codes : ~(k.user = u /\ k.purpose = purpose)})

\* consume_recovery_code()
Consume(id) == Among(codes, {k \in Codes : k.id # id})

\* active_recovery_code(): the newest of those mailed to an address, if any.
Matching(e, purpose) == Among(codes, {k \in Codes : k.email = e /\ k.purpose = purpose})

\* History: what was opened before now is out of date for u.
Outdate(u) ==
  sessions' = RevokeSessions(u,
    [s \in DOMAIN sessions |->
      IF sessions[s].user = u THEN [sessions[s] EXCEPT !.since = "stale"] ELSE sessions[s]])

\* History: the logins of u under way, c's own call aside, read the old row.
Overtake(u, c) ==
  call' = [d \in Clients |->
    IF d = c THEN Idle
    ELSE IF call[d].at = "login" THEN
      (IF call[d].user = u THEN [call[d] EXCEPT !.fresh = FALSE] ELSE call[d])
    ELSE call[d]]

-----------------------------------------------------------------------------
(* AuthService: bootstrap, login, logout, authenticate. *)

BootstrapAdmin(u, e) ==
  /\ DOMAIN users = {}
  /\ StoreRow(u, [role |-> "admin", active |-> TRUE, email |-> e, verified |-> FALSE])
  /\ UNCHANGED <<sessions, codes, token, call, overtaken>>

\* login() read the row, found the password right and the account active.
CheckPassword(c, u) ==
  /\ call[c].at = "idle"
  /\ u \in DOMAIN users /\ users[u].active
  /\ Goto(c, [at |-> "login", user |-> u, fresh |-> TRUE])
  /\ UNCHANGED <<users, sessions, codes, token, overtaken, clash>>

\* A token no other client holds and no request carries.
NewToken(c, s) ==
  /\ s \notin DOMAIN sessions
  /\ \A d \in Clients \ {c} : token[d] # s

\* The transaction of login().  (A session whose token is lost on the way is one
\* nobody will use.)
CreateSession(c, s) ==
  /\ call[c].at = "login" /\ NewToken(c, s)
  /\ sessions' = [t \in DOMAIN sessions \cup {s} |->
       IF t = s THEN [user |-> call[c].user,
                      since |-> IF call[c].fresh THEN "current" ELSE "late"]
                ELSE sessions[t]]
  /\ token' = [token EXCEPT ![c] = s]
  /\ Goto(c, Idle)
  /\ UNCHANGED <<users, codes, overtaken, clash>>

Usable(s) ==
  /\ s \in DOMAIN sessions
  /\ users[sessions[s].user].active

\* authenticate(): what the request knows of its actor from now on.
Authenticate(c) ==
  /\ call[c].at = "idle" /\ Usable(token[c])
  /\ LET u == sessions[token[c]].user IN
       Goto(c, [at |-> "authed", user |-> u, admin |-> users[u].role = "admin"])
  /\ UNCHANGED <<users, sessions, codes, token, overtaken, clash>>

\* revoke_session()
Close(s) == [t \in DOMAIN sessions \ {s} |-> sessions[t]]

\* logout() and Client.logout().
Logout(c) ==
  /\ call[c].at = "authed"
  /\ sessions' = Close(token[c])
  /\ token' = [token EXCEPT ![c] = NoToken]
  /\ Goto(c, Idle)
  /\ UNCHANGED <<users, codes, overtaken, clash>>

\* Client.logout() drops its token even when the call fails.
LogoutFails(c) ==
  /\ call[c].at = "idle" /\ token[c] # NoToken
  /\ token' = [token EXCEPT ![c] = NoToken]
  /\ UNCHANGED <<users, sessions, codes, call, overtaken, clash>>

-----------------------------------------------------------------------------
(* AuthService: the accounts, changed by an administrator. *)

AdminCall(c) == call[c].at = "authed" /\ call[c].admin

\* History.
NoteActor(c) == overtaken' = (overtaken \/ ~ActiveAdmin(call[c].user))

CreateUser(c, u, role, e) ==
  /\ AdminCall(c)
  /\ u \notin DOMAIN users /\ ~EmailTaken(u, e)
  /\ StoreRow(u, [role |-> role, active |-> TRUE, email |-> e, verified |-> FALSE])
  /\ Goto(c, Idle)
  /\ UNCHANGED <<sessions, codes, token, overtaken>>

SetActive(c, u, active) ==
  /\ AdminCall(c) /\ u \in DOMAIN users
  /\ ~(u = call[c].user /\ ~active)
  /\ users' = [users EXCEPT ![u].active = active]
  /\ NoteActor(c)
  /\ IF active
       THEN UNCHANGED sessions /\ Goto(c, Idle)
       ELSE Outdate(u) /\ Overtake(u, c)
  /\ UNCHANGED <<codes, token, clash>>

\* Faulty variant: nobody is ever the last.
NeverLast(u) == FALSE

\* _last_admin()
LastAdmin(u) == \A v \in DOMAIN users \ {u} : ~ActiveAdmin(v)

SetRole(c, u, role) ==
  /\ AdminCall(c) /\ u \in DOMAIN users
  /\ ~(u = call[c].user /\ role # "admin" /\ LastAdmin(u))
  /\ users' = [users EXCEPT ![u].role = role]
  /\ NoteActor(c)
  /\ Goto(c, Idle)
  /\ UNCHANGED <<sessions, codes, token, clash>>

\* reset_password(), and change_own_password() for the account itself.
ResetPassword(c, u) ==
  /\ call[c].at = "authed" /\ u \in DOMAIN users
  /\ call[c].admin \/ call[c].user = u
  /\ Outdate(u) /\ Overtake(u, c)
  /\ UNCHANGED <<users, codes, token, overtaken, clash>>

-----------------------------------------------------------------------------
(* AuthService: codes by mail. *)

\* request_password_reset() found an active account that verified the address.
RequestPasswordReset(c, e) ==
  /\ call[c].at = "idle"
  /\ \E u \in DOMAIN users :
       /\ users[u].email = e /\ users[u].active /\ users[u].verified
       /\ Goto(c, [at |-> "issue", user |-> u, purpose |-> "password_reset", email |-> e])
  /\ UNCHANGED <<users, sessions, codes, token, overtaken, clash>>

\* request_email_verification() found the address free.
RequestEmailVerification(c, e) ==
  /\ call[c].at = "authed" /\ ~EmailTaken(call[c].user, e)
  /\ Goto(c, [at |-> "issue", user |-> call[c].user, purpose |-> "email_verify", email |-> e])
  /\ UNCHANGED <<users, sessions, codes, token, overtaken, clash>>

CodesInMail == {call[d].code : d \in {x \in Clients : call[x].at \in {"send", "undelivered"}}}

\* _issue_and_deliver_code(), its transaction.
IssueCode(c, id) ==
  /\ call[c].at = "issue"
  /\ id \notin CodesInMail /\ \A i \in DOMAIN codes : codes[i].id # id
  /\ LET code == [id |-> id, user |-> call[c].user, purpose |-> call[c].purpose,
                  email |-> call[c].email, attempts |-> 0]
     IN  /\ codes' = Append(RevokeCodes(code.user, code.purpose), code)
         /\ Goto(c, [at |-> "send", code |-> id])
  /\ UNCHANGED <<users, sessions, token, overtaken, clash>>

\* MailSettingsService.send() returned: from now on somebody has the code.
SendCode(c) ==
  /\ call[c].at = "send"
  /\ Goto(c, Idle)
  /\ UNCHANGED <<users, sessions, codes, token, overtaken, clash>>

\* It raised: the code is withdrawn in another transaction.
SendFails(c) ==
  /\ call[c].at = "send"
  /\ Goto(c, [call[c] EXCEPT !.at = "undelivered"])
  /\ UNCHANGED <<users, sessions, codes, token, overtaken, clash>>

WithdrawCode(c) ==
  /\ call[c].at = "undelivered"
  /\ codes' = Consume(call[c].code)
  /\ Goto(c, Idle)
  /\ UNCHANGED <<users, sessions, token, overtaken, clash>>

\* A code that is not being sent any more may have reached its reader.
Guesses == ({codes[i].id : i \in DOMAIN codes} \ CodesInMail) \cup {Wrong}

Counted(id) ==
  [i \in DOMAIN codes |-> IF codes[i].id = id
     THEN [codes[i] EXCEPT !.attempts = @ + 1] ELSE codes[i]]

\* Faulty variant: one attempt too many.
AttemptTooLate(id) == Among(Counted(id), {k \in Codes : k.attempts <= MaxAttempts})

\* _record_failed_code_attempt()
FailedAttempt(id) == Among(Counted(id), {k \in Codes : k.attempts < MaxAttempts})

ConfirmPasswordReset(c, e, guess) ==
  LET found == Matching(e, "password_reset") IN
  /\ call[c].at = "idle" /\ found # <<>>
  /\ IF guess = Last(found).id
       THEN /\ codes' = Consume(guess)
            /\ Outdate(Last(found).user) /\ Overtake(Last(found).user, c)
       ELSE /\ codes' = FailedAttempt(Last(found).id)
            /\ UNCHANGED <<sessions, call>>
  /\ UNCHANGED <<users, token, overtaken, clash>>

\* Faulty variant: the address was free when the code was asked for.
FreeWhenAsked(u, e) == TRUE

\* The second look at the address, in the transaction that takes it.
StillFree(u, e) == ~EmailTaken(u, e)

\* Faulty variant: whoever has the code may use it.
AnyonesCode(code, u) == TRUE

OwnCode(code, u) == code.user = u

ConfirmEmailVerification(c, e, guess) ==
  LET found == Matching(e, "email_verify")
      u == call[c].user
  IN
  /\ call[c].at = "authed" /\ found # <<>> /\ OwnCode(Last(found), u)
  /\ IF guess = Last(found).id
       THEN /\ StillFree(u, e)
            /\ StoreRow(u, [users[u] EXCEPT !.email = e, !.verified = TRUE])
            /\ codes' = IF EmailTaken(u, e) THEN codes ELSE Consume(guess)
       ELSE /\ codes' = FailedAttempt(Last(found).id)
            /\ UNCHANGED <<users, clash>>
  /\ Goto(c, Idle)
  /\ UNCHANGED <<sessions, token, overtaken>>

-----------------------------------------------------------------------------
(* Around the service. *)

\* A request that is refused, fails, or dies with the service.
Abandon(c) ==
  /\ call[c].at # "idle"
  /\ Goto(c, Idle)
  /\ UNCHANGED <<users, sessions, codes, token, overtaken, clash>>

\* Its sweep, a week later, is not seen by anyone.
ExpireSession(s) ==
  /\ s \in DOMAIN sessions
  /\ sessions' = Close(s)
  /\ UNCHANGED <<users, codes, token, call, overtaken, clash>>

\* All codes live equally long.
ExpireCode ==
  /\ codes # <<>>
  /\ codes' = Tail(codes)
  /\ UNCHANGED <<users, sessions, token, call, overtaken, clash>>

\* The routes under /auth.
AuthRequest(c) ==
  \/ \E u \in Users, e \in Emails : BootstrapAdmin(u, e)
  \/ \E u \in Users : CheckPassword(c, u)
  \/ \E s \in Sessions : CreateSession(c, s)
  \/ Logout(c)
  \/ \E e \in Emails :
       \/ RequestPasswordReset(c, e)
       \/ RequestEmailVerification(c, e)
       \/ \E guess \in Guesses : ConfirmPasswordReset(c, e, guess)
                                   \/ ConfirmEmailVerification(c, e, guess)
  \/ call[c].at = "authed" /\ ResetPassword(c, call[c].user)

\* The routes under /users.
UserRequest(c) ==
  \E u \in Users :
    \/ \E role \in Roles :
         \/ \E e \in Emails \cup {NoEmail} : CreateUser(c, u, role, e)
         \/ SetRole(c, u, role)
    \/ \E active \in BOOLEAN : SetActive(c, u, active)
    \/ ResetPassword(c, u)

Mailing(c) ==
  \/ \E id \in CodeIds : IssueCode(c, id)
  \/ SendCode(c) \/ SendFails(c) \/ WithdrawCode(c)

\* A new database, or one from before addresses were kept.
Init ==
  /\ \E old \in {{}} \cup {{u} : u \in Users} :
       users = [u \in old |->
         [role |-> "admin", active |-> TRUE, email |-> NoEmail, verified |-> FALSE]]
  /\ sessions = [s \in {} |-> Idle] /\ codes = <<>>
  /\ token = [c \in Clients |-> NoToken]
  /\ call = [c \in Clients |-> Idle]
  /\ overtaken = FALSE /\ clash = FALSE

Next ==
  \/ \E c \in Clients :
       AuthRequest(c) \/ UserRequest(c) \/ Mailing(c) \/ Authenticate(c)
         \/ LogoutFails(c) \/ Abandon(c)
  \/ \E s \in Sessions : ExpireSession(s)
  \/ ExpireCode

Spec == Init /\ [][Next]_vars

-----------------------------------------------------------------------------
(* Properties *)

\* Administrators are spared one at a time: an actor may not disable itself, and
\* may give up its role only when another is left.  That keeps one, as long as
\* every change is made by someone who still is an administrator when it commits.
\* (Two who disable each other at once have both been overtaken.)
FreshActorsKeepAnAdmin ==
  DOMAIN users # {} /\ ~overtaken => \E u \in Users : ActiveAdmin(u)

\* A session that still opens anything was not opened before the last change of
\* its account's password, nor before the account was last disabled; only a login
\* that had already checked the password may slip in after the change.
SessionsFollowAccounts == \A s \in Sessions : Usable(s) => sessions[s].since # "stale"

\* An account comes to hold a verified address only by a code that was mailed to
\* that address for that account and is open at that moment.
VerifiedByOwnCode ==
  [][\A u \in DOMAIN users' :
       users'[u].verified
       /\ (u \notin DOMAIN users \/ ~users[u].verified \/ users[u].email # users'[u].email)
         => \E i \in DOMAIN codes :
              /\ codes[i].user = u /\ codes[i].email = users'[u].email
              /\ codes[i].purpose = "email_verify" /\ codes[i].id \notin CodesInMail]_vars

\* Of a user's codes for one purpose only the newest can be used, and none is
\* open any more once it has been guessed at max_attempts times.
OpenCodesAreFew ==
  \A i, j \in DOMAIN codes :
    /\ codes[i].attempts < MaxAttempts
    /\ codes[i].user = codes[j].user /\ codes[i].purpose = codes[j].purpose => i = j

\* The checks of the service come before those of the database: no request runs
\* into the unique index on addresses, however long ago it found its address free.
AddressesDoNotClash == ~clash

=============================================================================
