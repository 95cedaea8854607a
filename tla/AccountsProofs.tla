--------------------------- MODULE AccountsProofs ---------------------------
(***************************************************************************)
(* Accounts, sessions and mailed codes, for any number of users,           *)
(* addresses, clients and codes.                                           *)
(***************************************************************************)
EXTENDS Accounts, WellFoundedInduction, TLAPS

-----------------------------------------------------------------------------
(* Queries. *)

\* A set of naturals that has 0 and the successor of each member has them all.
LEMMA Induction ==
  ASSUME NEW S \in SUBSET Nat, 0 \in S, \A n \in S : n + 1 \in S
  PROVE  S = Nat
<1> DEFINE R == OpToRel(<, Nat)
           T == Nat \ S
<1>1. IsWellFoundedOn(R, Nat)
  BY NatLessThanWellFounded
<1>2. \A m, n \in Nat : m < n => <<m, n>> \in R
  BY DEF OpToRel
<1> HIDE DEF R
<1>3. SUFFICES ASSUME T # {} PROVE FALSE
  OBVIOUS
<1>4. T \subseteq Nat
  OBVIOUS
<1> HIDE DEF T
<1>5. PICK n \in T : \A m \in T : ~ (<<m, n>> \in R)
  BY <1>1, <1>3, <1>4, WFMin
<1>6. n \in Nat /\ n # 0 /\ n \notin S
  BY <1>4 DEF T
<1>7. n - 1 \in Nat /\ n - 1 < n /\ n = (n - 1) + 1
  BY <1>6
<1>8. n - 1 \notin T
  BY <1>2, <1>5, <1>6, <1>7
<1>9. n - 1 \in S
  BY <1>7, <1>8 DEF T
<1> QED
  BY <1>6, <1>7, <1>9

\* f lists what of the first n rows is wanted, for each n up to m.
Filters(f, rows, wanted, m) ==
  /\ f[0] = <<>>
  /\ \A n \in 1..m :
       f[n] = IF rows[n] \in wanted THEN Append(f[n - 1], rows[n]) ELSE f[n - 1]

\* The recursion of the query is well founded.
LEMMA AmongRecursion ==
  ASSUME NEW S, NEW rows \in Seq(S), NEW wanted
  PROVE  \E f : Filters(f, rows, wanted, Len(rows)) /\ Among(rows, wanted) = f[Len(rows)]
<1> DEFINE Body(f, n) == IF n = 0 THEN <<>>
                         ELSE IF rows[n] \in wanted THEN Append(f[n - 1], rows[n]) ELSE f[n - 1]
           N == {m \in Nat : \E f : f = [n \in 0..m |-> Body(f, n)]}
<1>1. 0 \in N
  <2> DEFINE f == [n \in 0..0 |-> <<>>]
  <2>1. f = [n \in 0..0 |-> Body(f, n)]
    OBVIOUS
  <2> HIDE DEF f, Body
  <2> QED BY <2>1
<1>2. ASSUME NEW m \in N PROVE m + 1 \in N
  <2>1. m \in Nat
    OBVIOUS
  <2>2. PICK f : f = [n \in 0..m |-> Body(f, n)]
    BY <1>2
  <2> DEFINE g == [n \in 0..m + 1 |-> IF n = m + 1 THEN Body(f, n) ELSE f[n]]
  <2>3. ASSUME NEW n \in 0..m + 1 PROVE g[n] = Body(g, n)
    <3>1. CASE n = 0
      <4>1. f[0] = Body(f, 0)
        <5> HIDE DEF Body
        <5> QED BY <2>1, <2>2
      <4> QED BY <2>1, <3>1, <4>1
    <3>2. CASE n # 0
      <4>1. n - 1 \in 0..m + 1 /\ n - 1 # m + 1
        BY <2>1, <3>2
      <4>2. g[n - 1] = f[n - 1]
        BY <4>1
      <4>3. Body(g, n) = Body(f, n)
        <5> HIDE DEF g
        <5> QED BY <3>2, <4>2
      <4>4. n # m + 1 => f[n] = Body(f, n)
        <5>1. n # m + 1 => n \in 0..m
          BY <2>1
        <5> HIDE DEF Body
        <5> QED BY <2>2, <5>1
      <4>5. g[n] = Body(f, n)
        <5> HIDE DEF Body
        <5> QED BY <4>4
      <4> QED BY <4>3, <4>5
    <3> QED BY <3>1, <3>2
  <2>4. g = [n \in 0..m + 1 |-> Body(g, n)]
    <3>1. g = [n \in 0..m + 1 |-> g[n]]
      OBVIOUS
    <3> HIDE DEF g, Body
    <3> QED BY <2>3, <3>1
  <2> HIDE DEF g, Body
  <2> QED BY <2>1, <2>4
<1>3. PICK f : f = [n \in 0..Len(rows) |-> Body(f, n)]
  <2> HIDE DEF N
  <2>1. N \in SUBSET Nat
    BY DEF N
  <2>2. N = Nat
    BY <1>1, <1>2, <2>1, Induction
  <2>3. Len(rows) \in N
    BY <2>2
  <2> HIDE DEF Body
  <2> QED BY <2>3 DEF N
<1> DEFINE kept[n \in 0..Len(rows)] == Body(kept, n)
<1>4. kept = [n \in 0..Len(rows) |-> Body(kept, n)]
  <2> HIDE DEF Body
  <2> QED BY <1>3 DEF kept
<1>5. Among(rows, wanted) = kept[Len(rows)]
  BY DEF Among
<1>6. \A n \in 0..Len(rows) : kept[n] = Body(kept, n)
  <2> HIDE DEF Body, kept
  <2> QED BY <1>4
<1> HIDE DEF kept
<1>7. Len(rows) \in Nat
  OBVIOUS
<1>8. kept[0] = <<>>
  <2>1. kept[0] = Body(kept, 0)
    <3> HIDE DEF Body
    <3> QED BY <1>6, <1>7
  <2> QED BY <2>1
<1>9. ASSUME NEW n \in 1..Len(rows)
      PROVE  kept[n] = IF rows[n] \in wanted THEN Append(kept[n - 1], rows[n]) ELSE kept[n - 1]
  <2>1. n \in 0..Len(rows) /\ n # 0
    BY <1>7
  <2>2. kept[n] = Body(kept, n)
    BY <1>6, <2>1
  <2> QED BY <2>1, <2>2
<1>10. Filters(kept, rows, wanted, Len(rows))
  BY <1>8, <1>9 DEF Filters
<1> QED BY <1>5, <1>10

\* picked lists rows of the first n that are wanted, each where at says.
Picks(picked, at, rows, wanted, n) ==
  /\ at \in [1..Len(picked) -> 1..n]
  /\ \A i \in 1..Len(picked) : picked[i] = rows[at[i]] /\ picked[i] \in wanted
  /\ \A i, j \in 1..Len(picked) : i < j => at[i] < at[j]

\* What a query returns are rows of the table, each once, in their order.
LEMMA AmongPicks ==
  ASSUME NEW S, NEW rows \in Seq(S), NEW wanted
  PROVE  /\ Among(rows, wanted) \in Seq(S)
         /\ \E at : Picks(Among(rows, wanted), at, rows, wanted, Len(rows))
<1>1. PICK f : Filters(f, rows, wanted, Len(rows)) /\ Among(rows, wanted) = f[Len(rows)]
  BY AmongRecursion
<1>2. Len(rows) \in Nat /\ \A n \in 1..Len(rows) : rows[n] \in S
  OBVIOUS
<1> DEFINE Good(n) == f[n] \in Seq(S) /\ \E at : Picks(f[n], at, rows, wanted, n)
           N == {n \in Nat : n <= Len(rows) => Good(n)}
<1>3. 0 \in N
  <2>1. f[0] = <<>>
    BY <1>1 DEF Filters
  <2>2. \E at : Picks(<<>>, at, rows, wanted, 0)
    <3> DEFINE none == [i \in {} |-> 0]
    <3>1. Picks(<<>>, none, rows, wanted, 0)
      BY DEF Picks
    <3> HIDE DEF none
    <3> QED BY <3>1
  <2>3. Good(0)
    BY <2>1, <2>2
  <2> HIDE DEF Good
  <2> QED BY <2>3
<1>4. ASSUME NEW n \in N PROVE n + 1 \in N
  <2> SUFFICES ASSUME n + 1 <= Len(rows) PROVE Good(n + 1)
    OBVIOUS
  <2>1. n \in Nat /\ n <= Len(rows) /\ n + 1 \in 1..Len(rows) /\ (n + 1) - 1 = n
    BY <1>2
  <2>2. Good(n)
    BY <2>1
  <2>3. PICK at : Picks(f[n], at, rows, wanted, n)
    BY <2>2
  <2>4. f[n + 1] = IF rows[n + 1] \in wanted THEN Append(f[n], rows[n + 1]) ELSE f[n]
    BY <1>1, <2>1 DEF Filters
  <2>5. CASE rows[n + 1] \notin wanted
    <3>1. f[n + 1] = f[n]
      BY <2>4, <2>5
    <3>2. Picks(f[n], at, rows, wanted, n + 1)
      BY <2>1, <2>2, <2>3 DEF Picks
    <3> QED BY <2>2, <3>1, <3>2
  <2>6. CASE rows[n + 1] \in wanted
    <3> DEFINE old == f[n]
               new == Append(old, rows[n + 1])
               to == [i \in 1..Len(old) + 1 |-> IF i = Len(old) + 1 THEN n + 1 ELSE at[i]]
    <3>1. f[n + 1] = new
      BY <2>4, <2>6
    <3>2. old \in Seq(S) /\ rows[n + 1] \in S
      BY <1>2, <2>1, <2>2
    <3> HIDE DEF old
    <3>3. /\ new \in Seq(S) /\ Len(new) = Len(old) + 1 /\ Len(old) \in Nat
          /\ new[Len(old) + 1] = rows[n + 1]
          /\ \A i \in 1..Len(old) : new[i] = old[i]
      BY <3>2
    <3> HIDE DEF new
    <3>4. Picks(old, at, rows, wanted, n)
      BY <2>3 DEF old
    <3>5. to \in [1..Len(new) -> 1..n + 1]
      BY <2>1, <3>3, <3>4 DEF Picks
    <3>6. \A i \in 1..Len(new) : new[i] = rows[to[i]] /\ new[i] \in wanted
      BY <2>1, <2>6, <3>3, <3>4 DEF Picks
    <3>7. ASSUME NEW i \in 1..Len(new), NEW j \in 1..Len(new), i < j PROVE to[i] < to[j]
      <4>1. Len(new) = Len(old) + 1 /\ Len(old) \in Nat
        BY <3>3
      <4>2. i \in 1..Len(old) /\ i # Len(old) + 1 /\ i \in 1..Len(old) + 1 /\ j \in 1..Len(old) + 1
        BY <3>7, <4>1
      <4>3. to[i] = at[i] /\ at[i] \in 1..n
        BY <3>4, <4>2 DEF Picks
      <4>4. CASE j = Len(old) + 1
        BY <2>1, <4>2, <4>3, <4>4
      <4>5. CASE j # Len(old) + 1
        <5>1. j \in 1..Len(old)
          BY <4>1, <4>2, <4>5
        <5>2. at[i] < at[j]
          BY <3>4, <3>7, <4>2, <5>1 DEF Picks
        <5> QED BY <4>2, <4>3, <4>5, <5>2
      <4> QED BY <4>4, <4>5
    <3>8. Picks(new, to, rows, wanted, n + 1)
      BY <3>5, <3>6, <3>7 DEF Picks
    <3> HIDE DEF to
    <3> QED BY <3>1, <3>3, <3>8
  <2> QED BY <2>5, <2>6
<1>5. Good(Len(rows))
  <2> HIDE DEF N, Good
  <2>1. N \in SUBSET Nat
    BY DEF N
  <2>2. N = Nat
    BY <1>3, <1>4, <2>1, Induction
  <2> QED BY <1>2, <2>2 DEF N
<1> QED BY <1>1, <1>5

\* The same, said of the single rows.
LEMMA AmongRows ==
  ASSUME NEW S, NEW rows \in Seq(S), NEW wanted
  PROVE  LET picked == Among(rows, wanted) IN
         /\ picked \in Seq(S)
         /\ \A i \in DOMAIN picked : picked[i] \in wanted /\ \E n \in DOMAIN rows : picked[i] = rows[n]
         /\ \A i, j \in DOMAIN picked : i # j =>
              \E m, n \in DOMAIN rows : m # n /\ picked[i] = rows[m] /\ picked[j] = rows[n]
<1> DEFINE picked == Among(rows, wanted)
<1>1. picked \in Seq(S) /\ \E at : Picks(picked, at, rows, wanted, Len(rows))
  BY AmongPicks
<1>2. PICK at : Picks(picked, at, rows, wanted, Len(rows))
  BY <1>1
<1> HIDE DEF picked
<1>3. DOMAIN picked = 1..Len(picked) /\ Len(picked) \in Nat /\ DOMAIN rows = 1..Len(rows) /\ Len(rows) \in Nat
  BY <1>1
<1>4. ASSUME NEW i \in DOMAIN picked, NEW j \in DOMAIN picked, i # j
      PROVE  at[i] # at[j] /\ at[i] \in DOMAIN rows /\ at[j] \in DOMAIN rows
  <2>1. i < j \/ j < i
    BY <1>3, <1>4
  <2>2. at[i] \in 1..Len(rows) /\ at[j] \in 1..Len(rows)
    BY <1>2, <1>3 DEF Picks
  <2> QED BY <1>2, <1>3, <2>1, <2>2 DEF Picks
<1>5. \A i \in DOMAIN picked : picked[i] \in wanted /\ at[i] \in DOMAIN rows /\ picked[i] = rows[at[i]]
  BY <1>2, <1>3 DEF Picks
<1>6. \A i, j \in DOMAIN picked : i # j =>
        \E m, n \in DOMAIN rows : m # n /\ picked[i] = rows[m] /\ picked[j] = rows[n]
  BY <1>4, <1>5
<1> QED BY <1>1, <1>5, <1>6 DEF picked

-----------------------------------------------------------------------------
(* The tables and the requests under way. *)

UsersAreRows ==
  /\ users = [u \in DOMAIN users |-> users[u]]
  /\ DOMAIN users \subseteq Users
  /\ \A u \in DOMAIN users : users[u] \in Accounts

\* A session belongs to an account, and none survived what outdated it.
SessionsAreRows ==
  /\ sessions = [s \in DOMAIN sessions |-> sessions[s]]
  /\ DOMAIN sessions \subseteq Sessions
  /\ \A s \in DOMAIN sessions :
       sessions[s] \in SessionRows /\ sessions[s].user \in DOMAIN users /\ sessions[s].since # "stale"

\* Open codes are told apart by the account and the purpose.
CodesAreFew ==
  /\ codes \in Seq(Codes)
  /\ \A i \in DOMAIN codes : codes[i].attempts < MaxAttempts
  /\ \A i, j \in DOMAIN codes :
       codes[i].user = codes[j].user /\ codes[i].purpose = codes[j].purpose => i = j

\* Who is logging in, or is known to be asking, has an account: none is ever removed.
CallShape(d) == d \in Calls /\ (d.at \in {"login", "authed"} => d.user \in DOMAIN users)

CallsKnowUsers ==
  /\ call = [c \in Clients |-> call[c]]
  /\ \A c \in Clients : CallShape(call[c])

Tables == UsersAreRows /\ SessionsAreRows /\ CodesAreFew /\ CallsKnowUsers

-----------------------------------------------------------------------------
(* Steps that touch the accounts. *)

LEMMA UserSteps ==
  ASSUME [Next]_vars
  PROVE  \/ UNCHANGED <<users, clash, overtaken>>
         \/ \E u \in Users, e \in Emails : BootstrapAdmin(u, e)
         \/ \E c \in Clients, u \in Users, role \in Roles, e \in Emails \cup {NoEmail} :
              CreateUser(c, u, role, e)
         \/ \E c \in Clients, u \in Users, active \in BOOLEAN : SetActive(c, u, active)
         \/ \E c \in Clients, u \in Users, role \in Roles : SetRole(c, u, role)
         \/ \E c \in Clients, e \in Emails, guess \in Guesses : ConfirmEmailVerification(c, e, guess)
<1>1. CASE UNCHANGED vars
  BY <1>1 DEF vars
<1>2. ASSUME NEW c \in Clients, AuthRequest(c)
      PROVE  \/ UNCHANGED <<users, clash, overtaken>>
             \/ \E u \in Users, e \in Emails : BootstrapAdmin(u, e)
             \/ \E e \in Emails, guess \in Guesses : ConfirmEmailVerification(c, e, guess)
  BY <1>2 DEF AuthRequest, CheckPassword, CreateSession, Logout, RequestPasswordReset,
              RequestEmailVerification, ConfirmPasswordReset, ResetPassword
<1>3. ASSUME NEW c \in Clients, UserRequest(c)
      PROVE  \/ UNCHANGED <<users, clash, overtaken>>
             \/ \E u \in Users, role \in Roles, e \in Emails \cup {NoEmail} : CreateUser(c, u, role, e)
             \/ \E u \in Users, active \in BOOLEAN : SetActive(c, u, active)
             \/ \E u \in Users, role \in Roles : SetRole(c, u, role)
  BY <1>3 DEF UserRequest, ResetPassword
<1>4. ASSUME NEW c \in Clients, Mailing(c) \/ Authenticate(c) \/ LogoutFails(c) \/ Abandon(c)
      PROVE  UNCHANGED <<users, clash, overtaken>>
  BY <1>4
     DEF Mailing, IssueCode, SendCode, SendFails, WithdrawCode, Authenticate, LogoutFails, Abandon
<1>5. CASE (\E s \in Sessions : ExpireSession(s)) \/ ExpireCode
  BY <1>5 DEF ExpireSession, ExpireCode
<1> QED BY <1>1, <1>2, <1>3, <1>4, <1>5 DEF Next

\* A row whose address is free is stored.
LEMMA StoreFree ==
  ASSUME UsersAreRows, NEW u \in Users, NEW row \in Accounts, ~EmailTaken(u, row.email), StoreRow(u, row)
  PROVE  /\ users' = [v \in DOMAIN users \cup {u} |-> IF v = u THEN row ELSE users[v]]
         /\ UsersAreRows' /\ DOMAIN users' = DOMAIN users \cup {u} /\ clash' = clash
<1>1. users' = [v \in DOMAIN users \cup {u} |-> IF v = u THEN row ELSE users[v]] /\ clash' = clash
  BY DEF StoreRow
<1> QED BY <1>1 DEF UsersAreRows

\* What a step makes of the accounts: each check of an address still holds when
\* the row is stored (auth.py create_user, confirm_email_verification).
LEMMA UsersNext ==
  ASSUME Tables, [Next]_vars
  PROVE  UsersAreRows' /\ DOMAIN users \subseteq DOMAIN users' /\ clash' = clash
<1> DEFINE Goal == UsersAreRows' /\ DOMAIN users \subseteq DOMAIN users' /\ clash' = clash
<1>0. UsersAreRows
  BY DEF Tables
<1>1. CASE UNCHANGED <<users, clash, overtaken>>
  BY <1>0, <1>1 DEF UsersAreRows
<1>2. ASSUME NEW u \in Users, NEW e \in Emails, BootstrapAdmin(u, e) PROVE Goal
  <2> DEFINE row == [role |-> "admin", active |-> TRUE, email |-> e, verified |-> FALSE]
  <2>1. row \in Accounts /\ StoreRow(u, row) /\ ~EmailTaken(u, row.email)
    BY <1>2 DEF BootstrapAdmin, Accounts, Roles, EmailTaken
  <2> HIDE DEF row
  <2> QED BY <1>0, <2>1, StoreFree
<1>3. ASSUME NEW c \in Clients, NEW u \in Users, NEW role \in Roles, NEW e \in Emails \cup {NoEmail},
             CreateUser(c, u, role, e)
      PROVE  Goal
  <2> DEFINE row == [role |-> role, active |-> TRUE, email |-> e, verified |-> FALSE]
  <2>1. row \in Accounts /\ StoreRow(u, row) /\ ~EmailTaken(u, row.email)
    BY <1>3 DEF CreateUser, Accounts
  <2> HIDE DEF row
  <2> QED BY <1>0, <2>1, StoreFree
<1>4. ASSUME NEW c \in Clients, NEW u \in Users, NEW active \in BOOLEAN, SetActive(c, u, active)
      PROVE  Goal
  <2>1. users' = [users EXCEPT ![u].active = active] /\ clash' = clash /\ u \in DOMAIN users
    BY <1>4 DEF SetActive
  <2> QED BY <1>0, <2>1 DEF UsersAreRows, Accounts
<1>5. ASSUME NEW c \in Clients, NEW u \in Users, NEW role \in Roles, SetRole(c, u, role) PROVE Goal
  <2>1. users' = [users EXCEPT ![u].role = role] /\ clash' = clash /\ u \in DOMAIN users
    BY <1>5 DEF SetRole
  <2> QED BY <1>0, <2>1 DEF UsersAreRows, Accounts
<1>6. ASSUME NEW c \in Clients, NEW e \in Emails, NEW guess, ConfirmEmailVerification(c, e, guess)
      PROVE  Goal
  <2> DEFINE u == call[c].user
             row == [users[u] EXCEPT !.email = e, !.verified = TRUE]
  <2>1. call[c].at = "authed"
    BY <1>6 DEF ConfirmEmailVerification
  <2>2. u \in DOMAIN users /\ u \in Users
    BY <1>0, <2>1 DEF Tables, CallsKnowUsers, CallShape, UsersAreRows
  <2>3. row \in Accounts /\ row.email = e
    BY <1>0, <2>2 DEF UsersAreRows, Accounts
  <2>4. \/ UNCHANGED <<users, clash>>
        \/ StillFree(u, e) /\ StoreRow(u, row)
    BY <1>6 DEF ConfirmEmailVerification
  <2>5. CASE UNCHANGED <<users, clash>>
    BY <1>0, <2>5 DEF UsersAreRows
  <2>6. CASE StillFree(u, e) /\ StoreRow(u, row)
    <3>1. ~EmailTaken(u, row.email)
      BY <2>3, <2>6 DEF StillFree
    <3> HIDE DEF row, u
    <3> QED BY <1>0, <2>2, <2>3, <2>6, <3>1, StoreFree
  <2> QED BY <2>4, <2>5, <2>6
<1> QED BY <1>1, <1>2, <1>3, <1>4, <1>5, <1>6, UserSteps


-----------------------------------------------------------------------------
(* The requests under way. *)

\* How a step may change them.
LEMMA CallSteps ==
  ASSUME Tables, [Next]_vars
  PROVE  \/ UNCHANGED call
         \/ \E c \in Clients, step \in Calls : CallShape(step) /\ Goto(c, step)
         \/ \E c \in Clients, u \in Users : Overtake(u, c)
<1> DEFINE Goal == \/ UNCHANGED call
                   \/ \E c \in Clients, step \in Calls : CallShape(step) /\ Goto(c, step)
                   \/ \E c \in Clients, u \in Users : Overtake(u, c)
<1>1. Idle \in Calls /\ CallShape(Idle)
  BY DEF Calls, Idle, CallShape
<1>2. \A c \in Clients : call[c] \in Calls /\ (call[c].at = "authed" => call[c].user \in DOMAIN users /\ call[c].user \in Users)
  BY DEF Tables, CallsKnowUsers, CallShape, UsersAreRows
<1>3. CASE UNCHANGED vars
  BY <1>3 DEF vars
<1>4. ASSUME NEW c \in Clients, NEW u \in Users, CheckPassword(c, u) PROVE Goal
  <2> DEFINE step == [at |-> "login", user |-> u, fresh |-> TRUE]
  <2>1. step \in Calls /\ CallShape(step) /\ Goto(c, step)
    BY <1>4 DEF CheckPassword, Calls, CallShape
  <2> HIDE DEF step
  <2> QED BY <2>1
<1>5. ASSUME NEW c \in Clients, Authenticate(c) PROVE Goal
  <2> DEFINE u == sessions[token[c]].user
             step == [at |-> "authed", user |-> u, admin |-> users[u].role = "admin"]
  <2>1. u \in DOMAIN users /\ u \in Users /\ Goto(c, step)
    BY <1>5 DEF Authenticate, Usable, Tables, SessionsAreRows, UsersAreRows
  <2>2. step \in Calls /\ CallShape(step)
    BY <2>1 DEF Calls, CallShape
  <2> HIDE DEF step
  <2> QED BY <2>1, <2>2
<1>6. ASSUME NEW c \in Clients, NEW e \in Emails, RequestPasswordReset(c, e) PROVE Goal
  <2>1. PICK u \in DOMAIN users :
          Goto(c, [at |-> "issue", user |-> u, purpose |-> "password_reset", email |-> e])
    BY <1>6 DEF RequestPasswordReset
  <2> DEFINE step == [at |-> "issue", user |-> u, purpose |-> "password_reset", email |-> e]
  <2>2. step \in Calls /\ CallShape(step) /\ Goto(c, step)
    BY <2>1 DEF Calls, CallShape, Purposes, Tables, UsersAreRows
  <2> HIDE DEF step
  <2> QED BY <2>2
<1>7. ASSUME NEW c \in Clients, NEW e \in Emails, RequestEmailVerification(c, e) PROVE Goal
  <2> DEFINE step == [at |-> "issue", user |-> call[c].user, purpose |-> "email_verify", email |-> e]
  <2>1. step \in Calls /\ CallShape(step) /\ Goto(c, step)
    BY <1>2, <1>7 DEF RequestEmailVerification, Calls, CallShape, Purposes
  <2> HIDE DEF step
  <2> QED BY <2>1
<1>8. ASSUME NEW c \in Clients, NEW id \in CodeIds, IssueCode(c, id) PROVE Goal
  <2> DEFINE step == [at |-> "send", code |-> id]
  <2>1. step \in Calls /\ CallShape(step) /\ Goto(c, step)
    BY <1>8 DEF IssueCode, Calls, CallShape
  <2> HIDE DEF step
  <2> QED BY <2>1
<1>9. ASSUME NEW c \in Clients, SendFails(c) PROVE Goal
  <2> DEFINE step == [call[c] EXCEPT !.at = "undelivered"]
  <2>1. call[c] \in [at : {"send", "undelivered"}, code : CodeIds] /\ Goto(c, step)
    BY <1>2, <1>9 DEF SendFails, Calls, Idle
  <2>2. step \in Calls /\ CallShape(step)
    BY <2>1 DEF Calls, CallShape
  <2> HIDE DEF step
  <2> QED BY <2>1, <2>2
<1>10. ASSUME NEW c \in Clients, NEW u \in Users, ResetPassword(c, u) PROVE Goal
  BY <1>10 DEF ResetPassword
<1>11. ASSUME NEW c \in Clients, NEW e \in Emails, NEW guess, ConfirmPasswordReset(c, e, guess)
       PROVE  Goal
  <2> DEFINE found == Matching(e, "password_reset")
  <2>1. found \in Seq(Codes) /\ found # <<>>
    BY <1>11, AmongRows DEF ConfirmPasswordReset, Matching, Tables, CodesAreFew
  <2>2. UNCHANGED call \/ Overtake(Last(found).user, c)
    BY <1>11 DEF ConfirmPasswordReset
  <2>3. Last(found).user \in Users
    <3> HIDE DEF found
    <3>1. Len(found) \in DOMAIN found /\ Last(found) = found[Len(found)]
      BY <2>1 DEF Last
    <3>2. Last(found) \in Codes
      BY <2>1, <3>1
    <3> QED BY <3>2 DEF Codes
  <2> QED BY <2>2, <2>3
<1>12. ASSUME NEW c \in Clients, AuthRequest(c) PROVE Goal
  BY <1>1, <1>2, <1>4, <1>6, <1>7, <1>10, <1>11, <1>12
     DEF AuthRequest, BootstrapAdmin, CreateSession, Logout, ConfirmEmailVerification
<1>13. ASSUME NEW c \in Clients, UserRequest(c) PROVE Goal
  BY <1>1, <1>10, <1>13 DEF UserRequest, CreateUser, SetRole, SetActive
<1>14. ASSUME NEW c \in Clients, Mailing(c) \/ LogoutFails(c) \/ Abandon(c) PROVE Goal
  BY <1>1, <1>8, <1>9, <1>14 DEF Mailing, SendCode, WithdrawCode, LogoutFails, Abandon
<1>15. CASE (\E s \in Sessions : ExpireSession(s)) \/ ExpireCode
  BY <1>15 DEF ExpireSession, ExpireCode
<1> QED BY <1>3, <1>5, <1>12, <1>13, <1>14, <1>15 DEF Next

\* Whoever is asking keeps the account it asks for.
LEMMA CallsNext ==
  ASSUME Tables, [Next]_vars
  PROVE  CallsKnowUsers'
<1>1. DOMAIN users \subseteq DOMAIN users'
  BY UsersNext
<1>2. ASSUME NEW d, CallShape(d) PROVE CallShape(d)'
  BY <1>1, <1>2 DEF CallShape
<1>3. CallsKnowUsers
  BY DEF Tables
<1>4. CASE UNCHANGED call
  BY <1>2, <1>3, <1>4 DEF CallsKnowUsers
<1>5. ASSUME NEW c \in Clients, NEW step \in Calls, CallShape(step), Goto(c, step)
      PROVE  CallsKnowUsers'
  <2>1. call' = [call EXCEPT ![c] = step]
    BY <1>5 DEF Goto
  <2>2. DOMAIN call = Clients
    BY <1>3 DEF CallsKnowUsers
  <2>3. ASSUME NEW d \in Clients PROVE CallShape(call'[d])
    BY <1>3, <1>5, <2>1, <2>2 DEF CallsKnowUsers
  <2> QED BY <1>2, <2>1, <2>2, <2>3 DEF CallsKnowUsers
<1>6. ASSUME NEW c \in Clients, NEW u \in Users, Overtake(u, c) PROVE CallsKnowUsers'
  <2> DEFINE next(d) == IF d = c THEN Idle
                        ELSE IF call[d].at = "login" THEN
                          (IF call[d].user = u THEN [call[d] EXCEPT !.fresh = FALSE] ELSE call[d])
                        ELSE call[d]
  <2>1. call' = [d \in Clients |-> next(d)]
    BY <1>6 DEF Overtake
  <2>2. ASSUME NEW d \in Clients PROVE CallShape(next(d))
    <3>1. CallShape(call[d]) /\ CallShape(Idle)
      BY <1>3 DEF CallsKnowUsers, CallShape, Calls, Idle
    <3>2. ASSUME call[d].at = "login" PROVE CallShape([call[d] EXCEPT !.fresh = FALSE])
      <4>1. call[d] \in [at : {"login"}, user : Users, fresh : BOOLEAN] /\ call[d].user \in DOMAIN users
        BY <3>1, <3>2 DEF CallShape, Calls, Idle
      <4> QED BY <4>1 DEF CallShape, Calls
    <3> QED BY <3>1, <3>2
  <2> HIDE DEF next
  <2>3. \A d \in Clients : CallShape(call'[d])
    BY <2>1, <2>2
  <2> QED BY <1>2, <2>1, <2>3 DEF CallsKnowUsers
<1> QED BY <1>4, <1>5, <1>6, CallSteps

-----------------------------------------------------------------------------
(* Sessions. *)

\* How a step may change them.
LEMMA SessionSteps ==
  ASSUME [Next]_vars
  PROVE  \/ UNCHANGED sessions
         \/ \E s : sessions' = Close(s)
         \/ \E u : Outdate(u)
         \/ \E c \in Clients, s \in Sessions : CreateSession(c, s)
<1> DEFINE Goal == \/ UNCHANGED sessions
                   \/ \E s : sessions' = Close(s)
                   \/ \E u : Outdate(u)
                   \/ \E c \in Clients, s \in Sessions : CreateSession(c, s)
<1>1. CASE UNCHANGED vars
  BY <1>1 DEF vars
<1>2. ASSUME NEW c \in Clients, NEW e \in Emails, NEW guess, ConfirmPasswordReset(c, e, guess)
      PROVE  Goal
  BY <1>2 DEF ConfirmPasswordReset
<1>3. ASSUME NEW c \in Clients, NEW u, ResetPassword(c, u) PROVE Goal
  BY <1>3 DEF ResetPassword
<1>4. ASSUME NEW c \in Clients, Logout(c) PROVE Goal
  BY <1>4 DEF Logout
<1>5. ASSUME NEW c \in Clients, AuthRequest(c) PROVE Goal
  BY <1>2, <1>3, <1>4, <1>5
     DEF AuthRequest, BootstrapAdmin, CheckPassword, RequestPasswordReset,
         RequestEmailVerification, ConfirmEmailVerification
<1>6. ASSUME NEW c \in Clients, UserRequest(c) PROVE Goal
  BY <1>3, <1>6 DEF UserRequest, CreateUser, SetRole, SetActive
<1>7. ASSUME NEW c \in Clients, Mailing(c) \/ Authenticate(c) \/ LogoutFails(c) \/ Abandon(c)
      PROVE  Goal
  BY <1>7
     DEF Mailing, IssueCode, SendCode, SendFails, WithdrawCode, Authenticate, LogoutFails, Abandon
<1>8. CASE (\E s \in Sessions : ExpireSession(s)) \/ ExpireCode
  BY <1>8 DEF ExpireSession, ExpireCode
<1> QED BY <1>1, <1>5, <1>6, <1>7, <1>8 DEF Next

\* What is out of date for an account is revoked in the transaction that makes it so
\* (auth.py set_user_active, reset_password, confirm_password_reset).
LEMMA SessionsNext ==
  ASSUME Tables, [Next]_vars
  PROVE  SessionsAreRows'
<1>1. SessionsAreRows /\ DOMAIN users \subseteq DOMAIN users'
  BY UsersNext DEF Tables
<1>2. CASE UNCHANGED sessions
  BY <1>1, <1>2 DEF SessionsAreRows
<1>3. ASSUME NEW s, sessions' = Close(s) PROVE SessionsAreRows'
  BY <1>1, <1>3 DEF SessionsAreRows, Close
<1>4. ASSUME NEW u, Outdate(u) PROVE SessionsAreRows'
  <2> DEFINE marked == [s \in DOMAIN sessions |->
                IF sessions[s].user = u THEN [sessions[s] EXCEPT !.since = "stale"] ELSE sessions[s]]
             left == {s \in DOMAIN sessions : marked[s].user # u}
  <2>1. sessions' = [s \in left |-> marked[s]]
    <3>1. sessions' = RevokeSessions(u, marked)
      BY <1>4 DEF Outdate
    <3> QED BY <3>1 DEF RevokeSessions
  <2>2. \A s \in DOMAIN sessions : sessions[s].user = u => marked[s].user = u
    BY <1>1 DEF SessionsAreRows, SessionRows
  <2>3. \A s \in left : s \in DOMAIN sessions /\ marked[s] = sessions[s]
    BY <2>2
  <2>4. DOMAIN sessions' = left
    BY <2>1
  <2>5. sessions' = [s \in DOMAIN sessions' |-> sessions'[s]]
    BY <2>1
  <2>6. \A s \in DOMAIN sessions' : s \in DOMAIN sessions /\ sessions'[s] = sessions[s]
    <3> HIDE DEF left, marked
    <3> QED BY <2>1, <2>3, <2>4
  <2> HIDE DEF left, marked
  <2> QED BY <1>1, <2>5, <2>6 DEF SessionsAreRows
<1>5. ASSUME NEW c \in Clients, NEW s \in Sessions, CreateSession(c, s) PROVE SessionsAreRows'
  <2> DEFINE row == [user |-> call[c].user, since |-> IF call[c].fresh THEN "current" ELSE "late"]
  <2>1. /\ call[c].at = "login"
        /\ sessions' = [t \in DOMAIN sessions \cup {s} |-> IF t = s THEN row ELSE sessions[t]]
    BY <1>5 DEF CreateSession
  <2>2. call[c].user \in DOMAIN users /\ DOMAIN users \subseteq Users
    BY <2>1 DEF Tables, CallsKnowUsers, CallShape, UsersAreRows
  <2>3. row \in SessionRows /\ row.user \in DOMAIN users /\ row.since # "stale"
    BY <2>2 DEF SessionRows
  <2> HIDE DEF row
  <2> QED BY <1>1, <2>1, <2>3 DEF SessionsAreRows
<1> QED BY <1>2, <1>3, <1>4, <1>5, SessionSteps

-----------------------------------------------------------------------------
(* Codes. *)

\* How a step may change them.
LEMMA CodeSteps ==
  ASSUME [Next]_vars
  PROVE  \/ UNCHANGED codes
         \/ \E wanted : codes' = Among(codes, wanted)
         \/ \E c \in Clients, id \in CodeIds : IssueCode(c, id)
         \/ \E id : codes' = FailedAttempt(id)
         \/ codes # <<>> /\ codes' = Tail(codes)
<1> DEFINE Goal == \/ UNCHANGED codes
                   \/ \E wanted : codes' = Among(codes, wanted)
                   \/ \E c \in Clients, id \in CodeIds : IssueCode(c, id)
                   \/ \E id : codes' = FailedAttempt(id)
                   \/ codes # <<>> /\ codes' = Tail(codes)
<1>1. CASE UNCHANGED vars
  BY <1>1 DEF vars
<1>2. ASSUME NEW id, codes' = Consume(id) PROVE \E wanted : codes' = Among(codes, wanted)
  BY <1>2 DEF Consume
<1>3. ASSUME NEW c \in Clients, NEW e \in Emails, NEW guess, ConfirmPasswordReset(c, e, guess)
      PROVE  Goal
  BY <1>2, <1>3 DEF ConfirmPasswordReset
<1>4. ASSUME NEW c \in Clients, NEW e \in Emails, NEW guess, ConfirmEmailVerification(c, e, guess)
      PROVE  Goal
  BY <1>2, <1>4 DEF ConfirmEmailVerification
<1>5. ASSUME NEW c \in Clients, AuthRequest(c) PROVE Goal
  BY <1>3, <1>4, <1>5
     DEF AuthRequest, BootstrapAdmin, CheckPassword, CreateSession, Logout, RequestPasswordReset,
         RequestEmailVerification, ResetPassword
<1>6. ASSUME NEW c \in Clients, UserRequest(c) PROVE Goal
  BY <1>6 DEF UserRequest, CreateUser, SetRole, SetActive, ResetPassword
<1>7. ASSUME NEW c \in Clients, Mailing(c) PROVE Goal
  BY <1>2, <1>7 DEF Mailing, SendCode, SendFails, WithdrawCode
<1>8. ASSUME NEW c \in Clients, Authenticate(c) \/ LogoutFails(c) \/ Abandon(c) PROVE Goal
  BY <1>8 DEF Authenticate, LogoutFails, Abandon
<1>9. CASE (\E s \in Sessions : ExpireSession(s)) \/ ExpireCode
  BY <1>9 DEF ExpireSession, ExpireCode
<1> QED BY <1>1, <1>5, <1>6, <1>7, <1>8, <1>9 DEF Next

\* A query of rows that are few returns few.
LEMMA FewAmong ==
  ASSUME NEW rows \in Seq(Codes), NEW wanted,
         \A i, j \in DOMAIN rows :
           rows[i].user = rows[j].user /\ rows[i].purpose = rows[j].purpose => i = j
  PROVE  LET picked == Among(rows, wanted) IN
         \A i, j \in DOMAIN picked :
           picked[i].user = picked[j].user /\ picked[i].purpose = picked[j].purpose => i = j
BY AmongRows

\* Issuing revokes the account's other codes for the purpose, and a wrong guess
\* counts against its code, until max_attempts closes it
\* (auth.py _issue_and_deliver_code, _record_failed_code_attempt).
LEMMA CodesNext ==
  ASSUME Tables, [Next]_vars
  PROVE  CodesAreFew'
<1>1. /\ codes \in Seq(Codes) /\ \A i \in DOMAIN codes : codes[i].attempts < MaxAttempts
      /\ \A i, j \in DOMAIN codes :
           codes[i].user = codes[j].user /\ codes[i].purpose = codes[j].purpose => i = j
  BY DEF Tables, CodesAreFew
<1>2. CASE UNCHANGED codes
  BY <1>1, <1>2 DEF CodesAreFew
<1>3. ASSUME NEW wanted
      PROVE  LET rows == Among(codes, wanted) IN
             /\ rows \in Seq(Codes) /\ \A i \in DOMAIN rows : rows[i].attempts < MaxAttempts
             /\ \A i, j \in DOMAIN rows :
                  rows[i].user = rows[j].user /\ rows[i].purpose = rows[j].purpose => i = j
  BY <1>1, AmongRows, FewAmong
<1>4. ASSUME NEW wanted, codes' = Among(codes, wanted) PROVE CodesAreFew'
  BY <1>3, <1>4 DEF CodesAreFew
<1>5. ASSUME NEW c \in Clients, NEW id \in CodeIds, IssueCode(c, id) PROVE CodesAreFew'
  <2> DEFINE code == [id |-> id, user |-> call[c].user, purpose |-> call[c].purpose,
                      email |-> call[c].email, attempts |-> 0]
             others == {k \in Codes : ~(k.user = code.user /\ k.purpose = code.purpose)}
             rows == Among(codes, others)
  <2>1. call[c].at = "issue" /\ codes' = Append(rows, code)
    BY <1>5 DEF IssueCode, RevokeCodes
  <2>2. code \in Codes /\ code.attempts = 0
    <3>1. call[c] \in [at : {"issue"}, user : Users, purpose : Purposes, email : Emails]
      BY <2>1 DEF Tables, CallsKnowUsers, CallShape, Calls, Idle
    <3> QED BY <3>1, AttemptsAssumption DEF Codes
  <2>3. /\ rows \in Seq(Codes) /\ \A i \in DOMAIN rows : rows[i].attempts < MaxAttempts
        /\ \A i, j \in DOMAIN rows :
             rows[i].user = rows[j].user /\ rows[i].purpose = rows[j].purpose => i = j
    BY <1>3
  <2>4. \A i \in DOMAIN rows : ~(rows[i].user = code.user /\ rows[i].purpose = code.purpose)
    BY <1>1, AmongRows
  <2> HIDE DEF code, rows
  <2>5. /\ codes' \in Seq(Codes) /\ DOMAIN codes' = 1..Len(rows) + 1 /\ Len(rows) \in Nat
        /\ codes'[Len(rows) + 1] = code
        /\ DOMAIN rows = 1..Len(rows) /\ \A i \in DOMAIN rows : codes'[i] = rows[i]
    BY <2>1, <2>2, <2>3
  <2>6. \A i \in DOMAIN codes' : i \in DOMAIN rows \/ i = Len(rows) + 1
    BY <2>5
  <2>7. \A i \in DOMAIN codes' : codes'[i].attempts < MaxAttempts
    BY <2>2, <2>3, <2>5, <2>6, AttemptsAssumption
  <2>8. \A i, j \in DOMAIN codes' :
          codes'[i].user = codes'[j].user /\ codes'[i].purpose = codes'[j].purpose => i = j
    BY <2>3, <2>4, <2>5, <2>6
  <2> QED BY <2>5, <2>7, <2>8 DEF CodesAreFew
<1>6. ASSUME NEW id, codes' = FailedAttempt(id) PROVE CodesAreFew'
  <2> DEFINE rows == Counted(id)
             open == {k \in Codes : k.attempts < MaxAttempts}
             picked == Among(rows, open)
  <2>1. \A i \in DOMAIN codes : codes[i] \in Codes /\ codes[i].attempts \in 0..MaxAttempts
    <3>1. \A i \in DOMAIN codes : codes[i] \in Codes
      BY <1>1
    <3>2. \A k \in Codes : k.attempts \in 0..MaxAttempts
      BY DEF Codes
    <3> QED BY <3>1, <3>2
  <2>2. ASSUME NEW i \in DOMAIN codes
        PROVE  /\ rows[i] \in Codes
               /\ rows[i].user = codes[i].user /\ rows[i].purpose = codes[i].purpose
    <3>1. codes[i].attempts + 1 \in 0..MaxAttempts
      BY <1>1, <2>1, AttemptsAssumption
    <3>2. rows[i] = IF codes[i].id = id THEN [codes[i] EXCEPT !.attempts = codes[i].attempts + 1] ELSE codes[i]
      BY DEF Counted
    <3> HIDE DEF rows
    <3> QED BY <2>1, <3>1, <3>2 DEF Codes
  <2>3. rows = [i \in 1..Len(codes) |-> rows[i]] /\ DOMAIN rows = DOMAIN codes /\ Len(codes) \in Nat
        /\ DOMAIN codes = 1..Len(codes)
    BY <1>1 DEF Counted
  <2>4. rows \in Seq(Codes)
    <3> HIDE DEF rows
    <3> QED BY <2>2, <2>3
  <2>5. \A i, j \in DOMAIN rows :
          rows[i].user = rows[j].user /\ rows[i].purpose = rows[j].purpose => i = j
    <3> HIDE DEF rows
    <3> QED BY <1>1, <2>2, <2>3
  <2>6. codes' = picked
    BY <1>6 DEF FailedAttempt
  <2> HIDE DEF rows
  <2>7. picked \in Seq(Codes) /\ \A i \in DOMAIN picked : picked[i] \in open
    BY <2>4, AmongRows
  <2>8. \A i, j \in DOMAIN picked :
          picked[i].user = picked[j].user /\ picked[i].purpose = picked[j].purpose => i = j
    BY <2>4, <2>5, FewAmong
  <2> HIDE DEF picked
  <2>9. \A i \in DOMAIN picked : picked[i].attempts < MaxAttempts
    BY <2>7
  <2> QED BY <2>6, <2>7, <2>8, <2>9 DEF CodesAreFew
<1>7. CASE codes # <<>> /\ codes' = Tail(codes)
  <2>1. /\ codes' \in Seq(Codes)
        /\ \A i \in DOMAIN codes' : i + 1 \in DOMAIN codes /\ codes'[i] = codes[i + 1] /\ i \in Nat
    BY <1>1, <1>7
  <2>2. \A i \in DOMAIN codes' : codes'[i].attempts < MaxAttempts
    BY <1>1, <2>1
  <2>3. ASSUME NEW i \in DOMAIN codes', NEW j \in DOMAIN codes',
               codes'[i].user = codes'[j].user, codes'[i].purpose = codes'[j].purpose
        PROVE  i = j
    <3>1. i + 1 = j + 1
      BY <1>1, <2>1, <2>3
    <3> QED BY <2>1, <3>1
  <2> QED BY <2>1, <2>2, <2>3 DEF CodesAreFew
<1> QED BY <1>2, <1>4, <1>5, <1>6, <1>7, CodeSteps

-----------------------------------------------------------------------------
(* Always *)

LEMMA TablesAtFirst ==
  ASSUME Init
  PROVE  Tables
<1>1. UsersAreRows
  BY DEF Init, UsersAreRows, Accounts, Roles
<1>2. SessionsAreRows
  BY DEF Init, SessionsAreRows
<1>3. CodesAreFew
  BY DEF Init, CodesAreFew
<1>4. CallsKnowUsers
  BY DEF Init, CallsKnowUsers, CallShape, Calls, Idle
<1> QED BY <1>1, <1>2, <1>3, <1>4 DEF Tables

\* The tables hold together, and whoever is known to be asking has an account.
LEMMA AlwaysTables == Spec => []Tables
<1>1. Init => Tables
  BY TablesAtFirst
<1>2. Tables /\ [Next]_vars => Tables'
  BY UsersNext, CallsNext, SessionsNext, CodesNext DEF Tables
<1> QED BY <1>1, <1>2, PTL DEF Spec

-----------------------------------------------------------------------------
(* What the service promises. *)

\* Every variable keeps its type, whatever the requests do to each other.
THEOREM TypeCorrect == Spec => []TypeOK
<1> DEFINE Rest == token \in [Clients -> Sessions \cup {NoToken}] /\ overtaken \in BOOLEAN /\ clash \in BOOLEAN
<1>1. Init => Rest
  BY DEF Init
<1>2. ASSUME Tables, Rest, [Next]_vars PROVE Rest'
  <2>1. clash' \in BOOLEAN
    BY <1>2, UsersNext
  <2>2. overtaken' \in BOOLEAN
    BY <1>2, UserSteps
       DEF BootstrapAdmin, CreateUser, SetActive, SetRole, NoteActor, ConfirmEmailVerification
  <2>3. \/ UNCHANGED token
        \/ \E c \in Clients, s \in Sessions \cup {NoToken} : token' = [token EXCEPT ![c] = s]
    <3>1. CASE UNCHANGED vars
      BY <3>1 DEF vars
    <3>2. ASSUME NEW c \in Clients, AuthRequest(c) PROVE <2>3!:
      BY <3>2
         DEF AuthRequest, BootstrapAdmin, CheckPassword, CreateSession, Logout, RequestPasswordReset,
                  RequestEmailVerification, ConfirmPasswordReset, ConfirmEmailVerification, ResetPassword
    <3>3. ASSUME NEW c \in Clients, UserRequest(c) PROVE <2>3!:
      BY <3>3 DEF UserRequest, CreateUser, SetRole, SetActive, ResetPassword
    <3>4. ASSUME NEW c \in Clients, Mailing(c) \/ Authenticate(c) \/ LogoutFails(c) \/ Abandon(c)
          PROVE  <2>3!:
      BY <3>4
         DEF Mailing, IssueCode, SendCode, SendFails, WithdrawCode, Authenticate, LogoutFails, Abandon
    <3>5. CASE (\E s \in Sessions : ExpireSession(s)) \/ ExpireCode
      BY <3>5 DEF ExpireSession, ExpireCode
    <3> QED BY <1>2, <3>1, <3>2, <3>3, <3>4, <3>5 DEF Next
  <2>4. token' \in [Clients -> Sessions \cup {NoToken}]
    BY <1>2, <2>3
  <2> QED BY <2>1, <2>2, <2>4
<1>3. Tables /\ Rest => TypeOK
  <2> SUFFICES ASSUME Tables, Rest PROVE TypeOK
    OBVIOUS
  <2>1. call \in [Clients -> Calls]
    BY DEF Tables, CallsKnowUsers, CallShape
  <2> QED BY <2>1 DEF Tables, UsersAreRows, SessionsAreRows, CodesAreFew, TypeOK
<1>4. Tables /\ Rest /\ [Next]_vars => Rest'
  BY <1>2
<1> HIDE DEF Rest
<1> QED BY <1>1, <1>3, <1>4, AlwaysTables, PTL DEF Spec

\* No session that still opens anything was opened before its account last changed
\* its password or was last disabled.
THEOREM SessionsFollow == Spec => []SessionsFollowAccounts
<1>1. Tables => SessionsFollowAccounts
  BY DEF Tables, SessionsAreRows, SessionsFollowAccounts, Usable
<1> QED BY <1>1, AlwaysTables, PTL

\* However requests for codes and guesses interleave, a user has one open code for a
\* purpose, guessed at fewer than max_attempts times.
THEOREM CodesStayFew == Spec => []OpenCodesAreFew
<1>1. Tables => OpenCodesAreFew
  BY DEF Tables, CodesAreFew, OpenCodesAreFew
<1> QED BY <1>1, AlwaysTables, PTL

\* The address of an account is free when its row is stored, however long ago the
\* request found it free: the unique index never refuses a statement.
THEOREM AddressesStayFree == Spec => []AddressesDoNotClash
<1>1. Init => AddressesDoNotClash
  BY DEF Init, AddressesDoNotClash
<1>2. Tables /\ AddressesDoNotClash /\ [Next]_vars => AddressesDoNotClash'
  BY UsersNext DEF AddressesDoNotClash
<1> QED BY <1>1, <1>2, AlwaysTables, PTL DEF Spec

\* An account that keeps its row, its address aside, stays an administrator.
LEMMA StaysAdmin ==
  ASSUME NEW v, ActiveAdmin(v), v \in DOMAIN users',
         users'[v].active = users[v].active, users'[v].role = users[v].role
  PROVE  ActiveAdmin(v)'
BY DEF ActiveAdmin

\* An administrator is left as long as every change is made by someone who still is
\* one when it commits (auth.py set_user_active, set_user_role).
LEMMA AdminNext ==
  ASSUME Tables, FreshActorsKeepAnAdmin, [Next]_vars
  PROVE  FreshActorsKeepAnAdmin'
<1> DEFINE Goal == FreshActorsKeepAnAdmin'
<1>0. UsersAreRows /\ CallsKnowUsers
  BY DEF Tables
<1>1. CASE UNCHANGED <<users, clash, overtaken>>
  BY <1>1 DEF FreshActorsKeepAnAdmin, ActiveAdmin
<1>2. ASSUME NEW u \in Users, NEW e \in Emails, BootstrapAdmin(u, e) PROVE Goal
  <2> DEFINE row == [role |-> "admin", active |-> TRUE, email |-> e, verified |-> FALSE]
  <2>1. row \in Accounts /\ StoreRow(u, row) /\ ~EmailTaken(u, row.email)
    BY <1>2 DEF BootstrapAdmin, Accounts, Roles, EmailTaken
  <2>2. row.active /\ row.role = "admin"
    OBVIOUS
  <2> HIDE DEF row
  <2>3. u \in DOMAIN users' /\ users'[u] = row
    BY <1>0, <2>1, StoreFree
  <2>4. ActiveAdmin(u)'
    BY <2>2, <2>3 DEF ActiveAdmin
  <2> QED BY <2>4 DEF FreshActorsKeepAnAdmin
<1>3. ASSUME NEW c \in Clients, NEW u \in Users, NEW role \in Roles, NEW e \in Emails \cup {NoEmail},
             CreateUser(c, u, role, e)
      PROVE  Goal
  <2> DEFINE row == [role |-> role, active |-> TRUE, email |-> e, verified |-> FALSE]
  <2>1. /\ row \in Accounts /\ StoreRow(u, row) /\ ~EmailTaken(u, row.email)
        /\ u \notin DOMAIN users /\ call[c].at = "authed" /\ overtaken' = overtaken
    BY <1>3 DEF CreateUser, Accounts, AdminCall
  <2> HIDE DEF row
  <2>2. DOMAIN users # {}
    BY <1>0, <2>1 DEF CallsKnowUsers, CallShape
  <2>3. \A v \in DOMAIN users : v \in DOMAIN users' /\ users'[v] = users[v]
    <3>1. users' = [v \in DOMAIN users \cup {u} |-> IF v = u THEN row ELSE users[v]]
      BY <1>0, <2>1, StoreFree
    <3> QED BY <2>1, <3>1
  <2>4. ASSUME NEW v \in Users, ActiveAdmin(v) PROVE ActiveAdmin(v)'
    BY <2>3, <2>4, StaysAdmin DEF ActiveAdmin
  <2> QED BY <2>1, <2>2, <2>4 DEF FreshActorsKeepAnAdmin
<1>4. ASSUME NEW c \in Clients, NEW u \in Users, NEW active \in BOOLEAN, SetActive(c, u, active)
      PROVE  Goal
  <2> DEFINE actor == call[c].user
  <2>1. /\ users' = [users EXCEPT ![u].active = active] /\ u \in DOMAIN users
        /\ ~(u = actor /\ ~active)
        /\ overtaken' = (overtaken \/ ~ActiveAdmin(actor))
    BY <1>4 DEF SetActive, NoteActor
  <2>2. users' = [users EXCEPT ![u] = [users[u] EXCEPT !.active = active]]
    BY <2>1
  <2>3. [users[u] EXCEPT !.active = active].role = users[u].role
        /\ [users[u] EXCEPT !.active = active].active = active
    BY <1>0, <2>1 DEF UsersAreRows, Accounts
  <2> HIDE DEF actor
  <2>4. ASSUME NEW v, v = actor, ActiveAdmin(v) PROVE ActiveAdmin(v)' /\ v \in Users
    <3>1. v \in DOMAIN users /\ v \in Users /\ DOMAIN users' = DOMAIN users
      BY <1>0, <2>2, <2>4 DEF ActiveAdmin, UsersAreRows
    <3>2. CASE u = v
      <4>1. users'[v].active /\ users'[v].role = "admin"
        BY <1>0, <2>1, <2>2, <2>3, <2>4, <3>1, <3>2 DEF ActiveAdmin, UsersAreRows
      <4> QED BY <3>1, <4>1 DEF ActiveAdmin
    <3>3. CASE u # v
      BY <2>2, <2>4, <3>1, <3>3 DEF ActiveAdmin
    <3> QED BY <3>1, <3>2, <3>3
  <2> QED BY <2>1, <2>4 DEF FreshActorsKeepAnAdmin
<1>5. ASSUME NEW c \in Clients, NEW u \in Users, NEW role \in Roles, SetRole(c, u, role) PROVE Goal
  <2> DEFINE actor == call[c].user
  <2>1. /\ users' = [users EXCEPT ![u].role = role] /\ u \in DOMAIN users
        /\ ~(u = actor /\ role # "admin" /\ LastAdmin(u))
        /\ overtaken' = (overtaken \/ ~ActiveAdmin(actor))
    BY <1>5 DEF SetRole, NoteActor
  <2>2. users' = [users EXCEPT ![u] = [users[u] EXCEPT !.role = role]]
    BY <2>1
  <2>3. [users[u] EXCEPT !.role = role].role = role
        /\ [users[u] EXCEPT !.role = role].active = users[u].active
    BY <1>0, <2>1 DEF UsersAreRows, Accounts
  <2> HIDE DEF actor
  <2>4. ASSUME NEW v, ActiveAdmin(v), v # u PROVE ActiveAdmin(v)' /\ v \in Users
    <3>1. v \in DOMAIN users /\ v \in Users /\ DOMAIN users' = DOMAIN users
      BY <1>0, <2>2, <2>4 DEF ActiveAdmin, UsersAreRows
    <3> QED BY <2>2, <2>4, <3>1 DEF ActiveAdmin
  <2>5. ASSUME ActiveAdmin(actor) PROVE \E v \in Users : ActiveAdmin(v)'
    <3>1. CASE u # actor
      BY <2>4, <2>5, <3>1
    <3>2. CASE u = actor /\ role = "admin"
      <4>1. actor \in DOMAIN users /\ actor \in Users /\ DOMAIN users' = DOMAIN users
        BY <1>0, <2>2, <2>5 DEF ActiveAdmin, UsersAreRows
      <4>2. users'[actor].active /\ users'[actor].role = "admin"
        BY <1>0, <2>1, <2>2, <2>3, <2>5, <3>2, <4>1 DEF ActiveAdmin, UsersAreRows
      <4> QED BY <4>1, <4>2 DEF ActiveAdmin
    <3>3. CASE u = actor /\ role # "admin"
      <4>1. PICK v \in DOMAIN users \ {u} : ActiveAdmin(v)
        BY <2>1, <3>3 DEF LastAdmin
      <4> QED BY <2>4, <4>1
    <3> QED BY <3>1, <3>2, <3>3
  <2> QED BY <2>1, <2>5 DEF FreshActorsKeepAnAdmin
<1>6. ASSUME NEW c \in Clients, NEW e \in Emails, NEW guess, ConfirmEmailVerification(c, e, guess)
      PROVE  Goal
  <2> DEFINE u == call[c].user
             row == [users[u] EXCEPT !.email = e, !.verified = TRUE]
  <2>1. call[c].at = "authed" /\ overtaken' = overtaken
    BY <1>6 DEF ConfirmEmailVerification
  <2>2. u \in DOMAIN users /\ u \in Users
    BY <1>0, <2>1 DEF CallsKnowUsers, CallShape, UsersAreRows
  <2>3. row \in Accounts /\ row.email = e /\ row.role = users[u].role /\ row.active = users[u].active
    BY <1>0, <2>2 DEF UsersAreRows, Accounts
  <2>4. \/ UNCHANGED <<users, clash>>
        \/ StillFree(u, e) /\ StoreRow(u, row)
    BY <1>6 DEF ConfirmEmailVerification
  <2>5. CASE UNCHANGED <<users, clash>>
    BY <2>1, <2>5 DEF FreshActorsKeepAnAdmin, ActiveAdmin
  <2>6. CASE StillFree(u, e) /\ StoreRow(u, row)
    <3>1. ~EmailTaken(u, row.email)
      BY <2>3, <2>6 DEF StillFree
    <3> HIDE DEF row, u
    <3>2. /\ users' = [v \in DOMAIN users \cup {u} |-> IF v = u THEN row ELSE users[v]]
          /\ DOMAIN users' = DOMAIN users
      BY <1>0, <2>2, <2>3, <2>6, <3>1, StoreFree
    <3>3. ASSUME NEW v \in Users, ActiveAdmin(v) PROVE ActiveAdmin(v)'
      <4>1. v \in DOMAIN users /\ v \in DOMAIN users'
        BY <3>2, <3>3 DEF ActiveAdmin
      <4>2. users'[v].active = users[v].active /\ users'[v].role = users[v].role
        BY <2>3, <3>2, <4>1
      <4> QED BY <3>3, <4>1, <4>2, StaysAdmin
    <3>4. DOMAIN users # {}
      BY <2>2
    <3> QED BY <2>1, <3>3, <3>4 DEF FreshActorsKeepAnAdmin
  <2> QED BY <2>4, <2>5, <2>6
<1> QED BY <1>1, <1>2, <1>3, <1>4, <1>5, <1>6, UserSteps

\* A deployment keeps an active administrator unless one acts on what it no longer is.
THEOREM AdminsRemain == Spec => []FreshActorsKeepAnAdmin
<1>1. Init => FreshActorsKeepAnAdmin
  BY DEF Init, FreshActorsKeepAnAdmin, ActiveAdmin
<1>2. Tables /\ FreshActorsKeepAnAdmin /\ [Next]_vars => FreshActorsKeepAnAdmin'
  BY AdminNext
<1> QED BY <1>1, <1>2, AlwaysTables, PTL DEF Spec

\* The account v comes to hold a verified address.
Verifies(v) ==
  /\ v \in DOMAIN users' /\ users'[v].verified
  /\ v \notin DOMAIN users \/ ~users[v].verified \/ users[v].email # users'[v].email

\* A code that is open and with its reader, and says that v has the address.
CodeFor(i, v) ==
  /\ codes[i].user = v /\ codes[i].email = users'[v].email
  /\ codes[i].purpose = "email_verify" /\ codes[i].id \notin CodesInMail

\* The newest open code for an address is one of the open codes.
LEMMA LastMatching ==
  ASSUME CodesAreFew, NEW e, NEW purpose, Matching(e, purpose) # <<>>
  PROVE  \E i \in DOMAIN codes :
           /\ Last(Matching(e, purpose)) = codes[i]
           /\ codes[i] \in Codes /\ codes[i].email = e /\ codes[i].purpose = purpose
<1> DEFINE wanted == {k \in Codes : k.email = e /\ k.purpose = purpose}
           found == Among(codes, wanted)
<1>1. Matching(e, purpose) = found
  BY DEF Matching
<1>2. /\ found \in Seq(Codes)
      /\ \A i \in DOMAIN found : found[i] \in wanted /\ \E n \in DOMAIN codes : found[i] = codes[n]
  <2>1. codes \in Seq(Codes)
    BY DEF CodesAreFew
  <2> HIDE DEF wanted
  <2> QED BY <2>1, AmongRows
<1> HIDE DEF found
<1>3. Len(found) \in DOMAIN found /\ Last(found) = found[Len(found)]
  BY <1>1, <1>2 DEF Last
<1>4. PICK n \in DOMAIN codes : Last(found) = codes[n] /\ codes[n] \in wanted
  BY <1>2, <1>3
<1> QED BY <1>1, <1>4

\* Only the confirmation of an address verifies one, and it acts on a code of the
\* account itself (auth.py confirm_email_verification).
LEMMA VerifyingStep ==
  ASSUME Tables, [Next]_vars, NEW v, Verifies(v)
  PROVE  \E i \in DOMAIN codes : CodeFor(i, v)
<1> DEFINE Goal == \E i \in DOMAIN codes : CodeFor(i, v)
<1>0. UsersAreRows /\ CallsKnowUsers /\ CodesAreFew
  BY DEF Tables
<1>1. CASE UNCHANGED <<users, clash, overtaken>>
  BY <1>1 DEF Verifies
<1>2. ASSUME NEW u \in Users, NEW row \in Accounts, ~row.verified, StoreRow(u, row), ~EmailTaken(u, row.email)
      PROVE  Goal
  <2>1. users' = [w \in DOMAIN users \cup {u} |-> IF w = u THEN row ELSE users[w]]
    BY <1>0, <1>2, StoreFree
  <2> QED BY <1>2, <2>1 DEF Verifies
<1>3. ASSUME NEW u \in Users, NEW e \in Emails, BootstrapAdmin(u, e) PROVE Goal
  <2> DEFINE row == [role |-> "admin", active |-> TRUE, email |-> e, verified |-> FALSE]
  <2>1. row \in Accounts /\ ~row.verified /\ StoreRow(u, row) /\ ~EmailTaken(u, row.email)
    BY <1>3 DEF BootstrapAdmin, Accounts, Roles, EmailTaken
  <2> HIDE DEF row
  <2> QED BY <1>2, <2>1
<1>4. ASSUME NEW c \in Clients, NEW u \in Users, NEW role \in Roles, NEW e \in Emails \cup {NoEmail},
             CreateUser(c, u, role, e)
      PROVE  Goal
  <2> DEFINE row == [role |-> role, active |-> TRUE, email |-> e, verified |-> FALSE]
  <2>1. row \in Accounts /\ ~row.verified /\ StoreRow(u, row) /\ ~EmailTaken(u, row.email)
    BY <1>4 DEF CreateUser, Accounts
  <2> HIDE DEF row
  <2> QED BY <1>2, <2>1
<1>5. ASSUME NEW u \in DOMAIN users, NEW row,
             row.verified = users[u].verified, row.email = users[u].email, users' = [users EXCEPT ![u] = row]
      PROVE  FALSE
  BY <1>0, <1>5 DEF Verifies, UsersAreRows
<1>6. ASSUME NEW c \in Clients, NEW u \in Users, NEW active \in BOOLEAN, SetActive(c, u, active)
      PROVE  Goal
  <2> DEFINE row == [users[u] EXCEPT !.active = active]
  <2>1. users' = [users EXCEPT ![u] = row] /\ u \in DOMAIN users
    BY <1>6 DEF SetActive
  <2>2. row.verified = users[u].verified /\ row.email = users[u].email
    BY <1>0, <2>1 DEF UsersAreRows, Accounts
  <2> HIDE DEF row
  <2> QED BY <1>5, <2>1, <2>2
<1>7. ASSUME NEW c \in Clients, NEW u \in Users, NEW role \in Roles, SetRole(c, u, role) PROVE Goal
  <2> DEFINE row == [users[u] EXCEPT !.role = role]
  <2>1. users' = [users EXCEPT ![u] = row] /\ u \in DOMAIN users
    BY <1>7 DEF SetRole
  <2>2. row.verified = users[u].verified /\ row.email = users[u].email
    BY <1>0, <2>1 DEF UsersAreRows, Accounts
  <2> HIDE DEF row
  <2> QED BY <1>5, <2>1, <2>2
<1>8. ASSUME NEW c \in Clients, NEW e \in Emails, NEW guess \in Guesses, ConfirmEmailVerification(c, e, guess)
      PROVE  Goal
  <2> DEFINE u == call[c].user
             row == [users[u] EXCEPT !.email = e, !.verified = TRUE]
             found == Matching(e, "email_verify")
  <2>1. call[c].at = "authed" /\ found # <<>> /\ Last(found).user = u
    BY <1>8 DEF ConfirmEmailVerification, OwnCode
  <2>2. u \in DOMAIN users /\ u \in Users
    BY <1>0, <2>1 DEF CallsKnowUsers, CallShape, UsersAreRows
  <2>3. row \in Accounts /\ row.email = e
    BY <1>0, <2>2 DEF UsersAreRows, Accounts
  <2>4. users' # users
    BY DEF Verifies
  <2>5. guess = Last(found).id /\ StillFree(u, e) /\ StoreRow(u, row)
    BY <1>8, <2>4 DEF ConfirmEmailVerification
  <2>6. PICK i \in DOMAIN codes :
          /\ Last(found) = codes[i]
          /\ codes[i] \in Codes /\ codes[i].email = e /\ codes[i].purpose = "email_verify"
    BY <1>0, <2>1, LastMatching
  <2> HIDE DEF found
  <2>7. codes[i].id \notin CodesInMail
    <3>1. codes[i].id \in CodeIds
      BY <2>6 DEF Codes
    <3>2. guess \in Guesses /\ guess # Wrong
      BY <2>5, <2>6, <3>1, AbsenceAssumption
    <3> QED BY <2>5, <2>6, <3>2 DEF Guesses
  <2>8. ~EmailTaken(u, row.email)
    BY <2>3, <2>5 DEF StillFree
  <2> HIDE DEF row, u
  <2>9. users' = [w \in DOMAIN users \cup {u} |-> IF w = u THEN row ELSE users[w]]
    BY <1>0, <2>2, <2>3, <2>5, <2>8, StoreFree
  <2>10. v = u /\ users'[v].email = e
    BY <2>3, <2>9 DEF Verifies
  <2>11. CodeFor(i, v)
    BY <2>1, <2>6, <2>7, <2>10 DEF CodeFor
  <2> QED BY <2>11
<1> QED BY <1>1, <1>3, <1>4, <1>6, <1>7, <1>8, UserSteps

\* An account comes to hold a verified address only by an open code that was mailed
\* to that address for that account.
THEOREM AddressesVerifiedByOwnCode == Spec => VerifiedByOwnCode
<1> DEFINE Step == \A u \in DOMAIN users' :
             users'[u].verified
             /\ (u \notin DOMAIN users \/ ~users[u].verified \/ users[u].email # users'[u].email)
               => \E i \in DOMAIN codes :
                    /\ codes[i].user = u /\ codes[i].email = users'[u].email
                    /\ codes[i].purpose = "email_verify" /\ codes[i].id \notin CodesInMail
<1>1. ASSUME Tables, [Next]_vars PROVE [Step]_vars
  <2>1. ASSUME NEW u \in DOMAIN users', Verifies(u) PROVE \E i \in DOMAIN codes : CodeFor(i, u)
    BY <1>1, <2>1, VerifyingStep
  <2> QED BY <2>1 DEF Verifies, CodeFor
<1>2. Tables /\ [Next]_vars => [Step]_vars
  BY <1>1
<1>3. VerifiedByOwnCode <=> [][Step]_vars
  BY DEF VerifiedByOwnCode
<1> HIDE DEF Step
<1> QED BY <1>2, <1>3, AlwaysTables, PTL DEF Spec

=============================================================================
