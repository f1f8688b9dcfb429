--------------------------- MODULE AccountsProofs ---------------------------
(***************************************************************************)
(* Accounts for every set of users, addresses, token rows and request      *)
(* slots: the types with the unique addresses, that a logout lasts, and    *)
(* that refreshing never multiplies sessions.                              *)
(***************************************************************************)
EXTENDS Accounts, FiniteSetTheorems, TLAPS

-----------------------------------------------------------------------------
(***************************************************************************)
(* Types                                                                   *)
(***************************************************************************)
\* The operation of a request gives its type.
LEMMA RequestTyped ==
  ASSUME AccountsTypeOK, NEW a \in AuthRequests
  PROVE  LET q == authReq[a]
         IN  /\ q.op = "register" => q.email \in Emails /\ q.role \in Roles
             /\ q.op \in {"verifyEmail", "logout"} => q.user \in UserIds
             /\ q.op = "refresh" => q.user \in UserIds /\ q.stored \in TokenIds
             /\ q.op = "issueTokenPair" =>
                    q.user \in UserIds /\ q.replaces \in TokenIds \cup {Null}
<1>1. authReq[a] \in AuthRequest
  BY DEF AccountsTypeOK
<1> QED
  BY <1>1 DEF AuthRequest, Idle

\* The part of the types about one address, one account.
OneAccount ==
    \A u, v \in UserIds : Exists(u) /\ users[u].email = users[v].email => u = v

LEMMA TypeIsAll ==
  AccountsTypeOK <=>
    /\ users \in [UserIds -> UserRow]
    /\ tokens \in [TokenIds -> TokenRow]
    /\ authReq \in [AuthRequests -> AuthRequest]
    /\ contested \subseteq TokenIds
    /\ quiet \subseteq UserIds
    /\ OneAccount
  BY DEF AccountsTypeOK, OneAccount

LEMMA InitTyped ==
  ASSUME AccountsInit
  PROVE  AccountsTypeOK
<1>1. NoUser \in UserRow
  BY DEF NoUser, UserRow
<1>2. NoToken \in TokenRow
  BY DEF NoToken, TokenRow
<1>3. Idle \in AuthRequest
  BY DEF AuthRequest
<1>4. OneAccount
  BY DEF OneAccount, AccountsInit, Exists, NoUser
<1> QED
  BY <1>1, <1>2, <1>3, <1>4, TypeIsAll DEF AccountsInit

\* Steps that leave the users alone, and put a request of the right type.
LEMMA SlotTyped ==
  ASSUME AccountsTypeOK, NEW a \in AuthRequests, NEW q \in AuthRequest,
         authReq' = [authReq EXCEPT ![a] = q], UNCHANGED users,
         tokens' \in [TokenIds -> TokenRow],
         contested' \subseteq TokenIds, quiet' \subseteq UserIds
  PROVE  AccountsTypeOK'
  BY DEF AccountsTypeOK, Exists

LEMMA ArriveTyped ==
  ASSUME AccountsTypeOK, NEW a \in AuthRequests, AuthArrive(a)
  PROVE  AccountsTypeOK'
<1>1. ASSUME NEW e \in Emails, NEW role \in Roles, ReadForRegister(a, e, role)
      PROVE  AccountsTypeOK'
  <2>1. [op |-> "register", email |-> e, role |-> role] \in AuthRequest
    BY DEF AuthRequest
  <2> QED
    BY <1>1, <2>1, SlotTyped DEF ReadForRegister, Begin, AccountsTypeOK
<1>2. ASSUME NEW u \in UserIds, ReadForVerifyEmail(a, u)
      PROVE  AccountsTypeOK'
  <2>1. [op |-> "verifyEmail", user |-> u] \in AuthRequest
    BY DEF AuthRequest
  <2> QED
    BY <1>2, <2>1, SlotTyped DEF ReadForVerifyEmail, Begin, AccountsTypeOK
<1>3. ASSUME NEW u \in UserIds, ReadForLogin(a, u)
      PROVE  AccountsTypeOK'
  <2>1. [op |-> "issueTokenPair", user |-> u, replaces |-> Null] \in AuthRequest
    BY DEF AuthRequest
  <2> QED
    BY <1>3, <2>1, SlotTyped DEF ReadForLogin, Begin, AccountsTypeOK
<1>4. ASSUME NEW u \in UserIds, NEW t \in TokenIds, ReadForRefresh(a, u, t)
      PROVE  AccountsTypeOK'
  <2>1. [op |-> "refresh", user |-> u, stored |-> t] \in AuthRequest
    BY DEF AuthRequest
  <2>2. contested' \subseteq TokenIds
    BY <1>4 DEF ReadForRefresh, AccountsTypeOK
  <2> QED
    BY <1>4, <2>1, <2>2, SlotTyped DEF ReadForRefresh, Begin, AccountsTypeOK
<1>5. ASSUME NEW u \in UserIds, ReadForLogout(a, u)
      PROVE  AccountsTypeOK'
  <2>1. [op |-> "logout", user |-> u] \in AuthRequest
    BY DEF AuthRequest
  <2> QED
    BY <1>5, <2>1, SlotTyped DEF ReadForLogout, Begin, AccountsTypeOK
<1> QED
  BY <1>1, <1>2, <1>3, <1>4, <1>5 DEF AuthArrive

LEMMA ProceedTyped ==
  ASSUME AccountsTypeOK, NEW a \in AuthRequests, AuthProceed(a)
  PROVE  AccountsTypeOK'
<1>0. Idle \in AuthRequest
  BY DEF AuthRequest
<1>1. ASSUME NEW u \in UserIds, InsertUser(a, u)
      PROVE  AccountsTypeOK'
  <2> DEFINE q == authReq[a]
             row == [email |-> q.email, role |-> q.role,
                     profile |-> ProfileFor(q.role), emailVerifyToken |-> TRUE,
                     isEmailVerified |-> FALSE, isActive |-> TRUE]
  <2>1. q.email \in Emails /\ q.role \in Roles
    BY <1>1, RequestTyped DEF InsertUser
  <2>2. row \in UserRow
    BY <2>1 DEF UserRow, ProfileFor
  <2>3. users' = [users EXCEPT ![u] = row]
    BY <1>1 DEF InsertUser
  <2>4. users' \in [UserIds -> UserRow]
    BY <2>2, <2>3 DEF AccountsTypeOK
  <2>5. \A v \in UserIds : users[v].email # q.email
    BY <1>1 DEF InsertUser, EmailFree
  <2>6. OneAccount'
    <3> SUFFICES ASSUME NEW v \in UserIds, NEW w \in UserIds, Exists(v)',
                        users'[v].email = users'[w].email
                 PROVE  v = w
      BY DEF OneAccount
    <3>1. row.email = q.email
      OBVIOUS
    <3>2. \A x \in UserIds : users'[x] = IF x = u THEN row ELSE users[x]
      BY <2>3 DEF AccountsTypeOK
    <3> HIDE DEF row
    <3>3. CASE v = u \/ w = u
      BY <3>1, <3>2, <3>3, <2>5
    <3>4. CASE v # u /\ w # u
      BY <3>2, <3>4 DEF Exists, AccountsTypeOK
    <3> QED
      BY <3>3, <3>4
  <2> QED
    BY <1>0, <1>1, <2>4, <2>6 DEF AccountsTypeOK, OneAccount, InsertUser, GoTo
<1>2. ASSUME EmailRefused(a)
      PROVE  AccountsTypeOK'
  BY <1>0, <1>2, SlotTyped DEF EmailRefused, GoTo, AccountsTypeOK
<1>3. ASSUME WriteVerified(a)
      PROVE  AccountsTypeOK'
  <2>1. authReq[a].user \in UserIds
    BY <1>3, RequestTyped DEF WriteVerified
  <2>2. users' \in [UserIds -> UserRow]
    BY <1>3, <2>1, ZenonT(60) DEF WriteVerified, AccountsTypeOK, UserRow
  <2>3. \A v \in UserIds : users'[v].email = users[v].email
    BY <1>3, <2>1 DEF WriteVerified, AccountsTypeOK, UserRow
  <2> QED
    BY <1>0, <1>3, <2>2, <2>3 DEF WriteVerified, GoTo, AccountsTypeOK, Exists
<1>4. ASSUME RevokeStored(a)
      PROVE  AccountsTypeOK'
  <2> DEFINE q == authReq[a]
  <2>1. q.user \in UserIds /\ q.stored \in TokenIds
    BY <1>4, RequestTyped DEF RevokeStored
  <2>2. tokens' \in [TokenIds -> TokenRow]
    BY <1>4, <2>1, ZenonT(60) DEF RevokeStored, Rotated, AccountsTypeOK, TokenRow
  <2>3. [op |-> "issueTokenPair", user |-> q.user, replaces |-> q.stored] \in AuthRequest
    BY <2>1 DEF AuthRequest
  <2> QED
    BY <1>4, <2>2, <2>3, SlotTyped DEF RevokeStored, GoTo, AccountsTypeOK
<1>5. ASSUME NEW t \in TokenIds, IssueTokenPair(a, t)
      PROVE  AccountsTypeOK'
  <2> DEFINE q == authReq[a]
  <2>1. q.user \in UserIds /\ q.replaces \in TokenIds \cup {Null}
    BY <1>5, RequestTyped DEF IssueTokenPair
  <2>2. tokens' \in [TokenIds -> TokenRow]
    BY <1>5, <2>1 DEF IssueTokenPair, NoToken, AccountsTypeOK, TokenRow
  <2> QED
    BY <1>0, <1>5, <2>2, SlotTyped DEF IssueTokenPair, GoTo, AccountsTypeOK
<1>6. ASSUME RevokeAll(a)
      PROVE  AccountsTypeOK'
  <2>1. authReq[a].user \in UserIds
    BY <1>6, RequestTyped DEF RevokeAll
  <2>2. tokens' \in [TokenIds -> TokenRow]
    BY <1>6, <2>1 DEF RevokeAll, AccountsTypeOK, TokenRow
  <2>3. quiet' \subseteq UserIds
    BY <1>6, <2>1 DEF RevokeAll, AccountsTypeOK
  <2> QED
    BY <1>0, <1>6, <2>2, <2>3, SlotTyped DEF RevokeAll, GoTo, AccountsTypeOK
<1> QED
  BY <1>1, <1>2, <1>3, <1>4, <1>5, <1>6 DEF AuthProceed

LEMMA StepTyped ==
  ASSUME AccountsTypeOK, [AccountsNext]_accountVars
  PROVE  AccountsTypeOK'
<1>1. ASSUME NEW a \in AuthRequests, AuthFail(a)
      PROVE  AccountsTypeOK'
  <2>1. Idle \in AuthRequest
    BY DEF AuthRequest
  <2> QED
    BY <1>1, <2>1, SlotTyped DEF AuthFail, GoTo, AccountsTypeOK
<1>2. ASSUME NEW u \in UserIds, Deactivate(u)
      PROVE  AccountsTypeOK'
  <2>1. users' \in [UserIds -> UserRow]
    BY <1>2, ZenonT(60) DEF Deactivate, AccountsTypeOK, UserRow
  <2>2. \A v \in UserIds : users'[v].email = users[v].email
    BY <1>2 DEF Deactivate, AccountsTypeOK, UserRow
  <2> QED
    BY <1>2, <2>1, <2>2 DEF Deactivate, AccountsTypeOK, Exists
<1>3. ASSUME NEW t \in TokenIds, Expire(t)
      PROVE  AccountsTypeOK'
  BY <1>3 DEF Expire, AccountsTypeOK, TokenRow, Exists
<1>4. ASSUME UNCHANGED accountVars
      PROVE  AccountsTypeOK'
  BY <1>4 DEF accountVars, AccountsTypeOK, Exists
<1> QED
  BY <1>1, <1>2, <1>3, <1>4, ArriveTyped, ProceedTyped DEF AccountsNext

\* Every reachable state is well typed, and no two accounts have the same
\* address, however many registrations race for it.
THEOREM AccountsTypeCorrect == AccountsSpec => []AccountsTypeOK
<1>1. AccountsInit => AccountsTypeOK
  BY InitTyped
<1>2. AccountsTypeOK /\ [AccountsNext]_accountVars => AccountsTypeOK'
  BY StepTyped
<1> QED
  BY <1>1, <1>2, PTL DEF AccountsSpec

-----------------------------------------------------------------------------
(***************************************************************************)
(* Logout                                                                  *)
(***************************************************************************)
\* A user who was logged out has no session and nothing in flight that makes
\* one: a refresh needs a session to begin with, a login ends the quiet.
NothingComing ==
    \A u \in quiet :
        /\ Sessions(u) = {}
        /\ \A a \in AuthRequests :
              authReq[a].op \in {"refresh", "issueTokenPair"} => authReq[a].user # u

\* A row is a session only if it was one, with the same user.
NoNewSession ==
    \A t \in TokenIds :
        ~tokens'[t].revoked /\ ~tokens'[t].expired =>
            ~tokens[t].revoked /\ ~tokens[t].expired /\ tokens'[t].user = tokens[t].user

\* Steps that open no session, wake no request and quiet nobody.
LEMMA QuietKept ==
  ASSUME AccountsTypeOK, NothingComing, NEW a \in AuthRequests, NEW q,
         authReq' = [authReq EXCEPT ![a] = q], quiet' \subseteq quiet, NoNewSession,
         q.op \in {"refresh", "issueTokenPair"} => q.user \notin quiet'
  PROVE  NothingComing'
  BY DEF NothingComing, Sessions, RowsOf, NoNewSession, AccountsTypeOK

LEMMA Same ==
  ASSUME UNCHANGED tokens
  PROVE  NoNewSession
  BY DEF NoNewSession

LEMMA StepQuiet ==
  ASSUME AccountsTypeOK, NothingComing, [AccountsNext]_accountVars
  PROVE  NothingComing'
<1>0. Idle.op \notin {"refresh", "issueTokenPair"}
  BY DEF Idle
<1>1. ASSUME NEW a \in AuthRequests, AuthArrive(a)
      PROVE  NothingComing'
  <2>1. ASSUME NEW e \in Emails, NEW role \in Roles, ReadForRegister(a, e, role)
        PROVE  NothingComing'
    BY <2>1, QuietKept, Same DEF ReadForRegister, Begin
  <2>2. ASSUME NEW u \in UserIds, ReadForVerifyEmail(a, u)
        PROVE  NothingComing'
    BY <2>2, QuietKept, Same DEF ReadForVerifyEmail, Begin
  <2>3. ASSUME NEW u \in UserIds, ReadForLogin(a, u)
        PROVE  NothingComing'
    BY <2>3, QuietKept, Same DEF ReadForLogin, Begin
  <2>4. ASSUME NEW u \in UserIds, NEW t \in TokenIds, ReadForRefresh(a, u, t)
        PROVE  NothingComing'
    <3>1. t \in Sessions(u)
      BY <2>4 DEF ReadForRefresh, Sessions
    <3>2. u \notin quiet
      BY <3>1 DEF NothingComing
    <3> QED
      BY <2>4, <3>2, QuietKept, Same DEF ReadForRefresh, Begin
  <2>5. ASSUME NEW u \in UserIds, ReadForLogout(a, u)
        PROVE  NothingComing'
    BY <2>5, QuietKept, Same DEF ReadForLogout, Begin
  <2> QED
    BY <1>1, <2>1, <2>2, <2>3, <2>4, <2>5 DEF AuthArrive
<1>2. ASSUME NEW a \in AuthRequests, AuthProceed(a)
      PROVE  NothingComing'
  <2>1. ASSUME NEW u \in UserIds, InsertUser(a, u)
        PROVE  NothingComing'
    BY <1>0, <2>1, QuietKept, Same DEF InsertUser, GoTo
  <2>2. ASSUME EmailRefused(a) \/ WriteVerified(a)
        PROVE  NothingComing'
    BY <1>0, <2>2, QuietKept, Same DEF EmailRefused, WriteVerified, GoTo
  <2>3. ASSUME RevokeStored(a)
        PROVE  NothingComing'
    <3>1. NoNewSession
      BY <2>3 DEF RevokeStored, Rotated, NoNewSession, AccountsTypeOK, TokenRow
    <3>2. authReq[a].user \notin quiet
      BY <2>3 DEF RevokeStored, NothingComing
    <3> QED
      BY <2>3, <3>1, <3>2, QuietKept DEF RevokeStored, GoTo
  <2>4. ASSUME NEW t \in TokenIds, IssueTokenPair(a, t)
        PROVE  NothingComing'
    \* The new session is that of a user who is not quiet.
    <3>1. authReq[a].user \notin quiet
      BY <2>4 DEF IssueTokenPair, NothingComing
    <3>2. \A u \in quiet : Sessions(u)' = Sessions(u)
      BY <2>4, <3>1 DEF IssueTokenPair, Sessions, RowsOf, NoToken, AccountsTypeOK,
                        TokenRow, NothingComing
    <3> QED
      BY <1>0, <2>4, <3>2 DEF IssueTokenPair, GoTo, NothingComing, AccountsTypeOK
  <2>5. ASSUME RevokeAll(a)
        PROVE  NothingComing'
    <3>0. PICK u \in UserIds : u = authReq[a].user
      BY <2>5, RequestTyped DEF RevokeAll
    <3>1. NoNewSession
      BY <2>5 DEF RevokeAll, NoNewSession, AccountsTypeOK, TokenRow
    <3>2. Sessions(u)' = {}
      <4> SUFFICES ASSUME NEW t \in TokenIds, tokens'[t].user = u
                   PROVE  tokens'[t].revoked
        BY DEF Sessions, RowsOf
      <4>1. tokens'[t] = [tokens[t] EXCEPT !.revoked =
                              @ \/ t \in RevokedByLogout(u)]
        BY <2>5, <3>0 DEF RevokeAll
      <4>2. tokens[t] \in TokenRow
        BY DEF AccountsTypeOK
      <4> QED
        BY <4>1, <4>2 DEF TokenRow, RevokedByLogout, RowsOf
    <3>3. \A v \in quiet : Sessions(v)' = {}
      BY <3>1 DEF NothingComing, Sessions, RowsOf, NoNewSession
    <3>4. CASE quiet' = quiet
      BY <1>0, <2>5, <3>1, <3>4, QuietKept DEF RevokeAll, GoTo
    <3>5. CASE quiet' = quiet \cup {u} /\ quiet' # quiet
      <4>1. \A b \in AuthRequests :
                authReq[b].op \in {"refresh", "issueTokenPair"} => authReq[b].user # u
        BY <2>5, <3>0, <3>5 DEF RevokeAll
      <4>2. \A b \in AuthRequests : authReq'[b] = IF b = a THEN Idle ELSE authReq[b]
        BY <2>5 DEF RevokeAll, GoTo, AccountsTypeOK
      <4> QED
        BY <1>0, <3>2, <3>3, <3>5, <4>1, <4>2 DEF NothingComing
    <3> QED
      BY <2>5, <3>0, <3>4, <3>5 DEF RevokeAll
  <2> QED
    BY <1>2, <2>1, <2>2, <2>3, <2>4, <2>5 DEF AuthProceed
<1>3. ASSUME NEW a \in AuthRequests, AuthFail(a)
      PROVE  NothingComing'
  BY <1>0, <1>3, QuietKept, Same DEF AuthFail, GoTo
<1>4. ASSUME NEW u \in UserIds, Deactivate(u)
      PROVE  NothingComing'
  BY <1>4 DEF Deactivate, NothingComing, Sessions, RowsOf
<1>5. ASSUME NEW t \in TokenIds, Expire(t)
      PROVE  NothingComing'
  BY <1>5 DEF Expire, NothingComing, Sessions, RowsOf, AccountsTypeOK, TokenRow
<1>6. ASSUME UNCHANGED accountVars
      PROVE  NothingComing'
  BY <1>6 DEF accountVars, NothingComing, Sessions, RowsOf
<1> QED
  BY <1>1, <1>2, <1>3, <1>4, <1>5, <1>6 DEF AccountsNext

\* A logout ends the sessions of a user for good: refreshes that were not in
\* flight at the time bring none back.
THEOREM LogoutLasts == AccountsSpec => []LogoutEndsSessions
<1>1. AccountsInit => NothingComing
  BY DEF AccountsInit, NothingComing
<1>2. AccountsTypeOK /\ NothingComing /\ [AccountsNext]_accountVars => NothingComing'
  BY StepQuiet
<1>3. NothingComing => LogoutEndsSessions
  BY DEF NothingComing, LogoutEndsSessions
<1> QED
  BY <1>1, <1>2, <1>3, AccountsTypeCorrect, PTL DEF AccountsSpec

-----------------------------------------------------------------------------
(***************************************************************************)
(* Refresh                                                                 *)
(***************************************************************************)
\* The request in slot a is rotating row s.
Rotates(a, s) ==
    \/ authReq[a].op = "refresh" /\ authReq[a].stored = s
    \/ authReq[a].op = "issueTokenPair" /\ authReq[a].replaces = s

\* A row of u that was rotated is revoked, and stays so.
Spent(row, u) == row.revoked /\ row.user = u

\* A row that no two refreshes found is rotated once: by one request, or into
\* one row.
RotatedOnce ==
    \A s \in TokenIds \ contested :
        /\ \A a, b \in AuthRequests : Rotates(a, s) /\ Rotates(b, s) => a = b
        /\ \A a \in AuthRequests, t \in TokenIds :
              Rotates(a, s) => tokens[t].replaces # s
        /\ \A t, v \in TokenIds :
              tokens[t].replaces = s /\ tokens[v].replaces = s => t = v

\* A row in use has a user; what it replaces is spent.
Succession ==
    /\ \A t \in TokenIds :
          tokens[t].replaces # Null =>
              /\ tokens[t].user # Null
              /\ Spent(tokens[tokens[t].replaces], tokens[t].user)
    /\ \A a \in AuthRequests :
          /\ authReq[a].op = "refresh" =>
                tokens[authReq[a].stored].user = authReq[a].user
          /\ authReq[a].op = "issueTokenPair" /\ authReq[a].replaces # Null =>
                Spent(tokens[authReq[a].replaces], authReq[a].user)

Rotation == RotatedOnce /\ Succession

\* Steps that at most revoke or expire rows, and leave slot a with a request
\* that rotates what it rotated before, or nothing.
LEMMA RotationKept ==
  ASSUME AccountsTypeOK, Rotation, NEW a \in AuthRequests, NEW q,
         authReq' = [authReq EXCEPT ![a] = q], contested' = contested,
         tokens' \in [TokenIds -> TokenRow],
         \A t \in TokenIds : /\ tokens'[t].user = tokens[t].user
                             /\ tokens'[t].replaces = tokens[t].replaces
                             /\ tokens[t].revoked => tokens'[t].revoked,
         q.op # "refresh", q.op = "issueTokenPair" => q.replaces = Null
  PROVE  Rotation'
<1>1. \A b \in AuthRequests : authReq'[b] = IF b = a THEN q ELSE authReq[b]
  BY DEF AccountsTypeOK
<1>2. \A b \in AuthRequests, s \in TokenIds : Rotates(b, s)' => Rotates(b, s)
  BY <1>1, TokenIdsAssumption DEF Rotates
<1>3. RotatedOnce'
  BY <1>2 DEF Rotation, RotatedOnce
<1>4. \A t \in TokenIds : tokens[t].replaces # Null => tokens[t].replaces \in TokenIds
  BY DEF AccountsTypeOK, TokenRow
<1>5. \A b \in AuthRequests :
          /\ authReq[b].op = "refresh" => authReq[b].stored \in TokenIds
          /\ authReq[b].op = "issueTokenPair" =>
                 authReq[b].replaces \in TokenIds \cup {Null}
  BY RequestTyped
<1>6. Succession'
  BY <1>1, <1>4, <1>5 DEF Rotation, Succession, Spent
<1> QED
  BY <1>3, <1>6 DEF Rotation

\* The same when the rows are left alone.
LEMMA RotationUntouched ==
  ASSUME AccountsTypeOK, Rotation, NEW a \in AuthRequests, NEW q,
         authReq' = [authReq EXCEPT ![a] = q], UNCHANGED <<tokens, contested>>,
         q.op # "refresh", q.op = "issueTokenPair" => q.replaces = Null
  PROVE  Rotation'
<1>1. tokens' \in [TokenIds -> TokenRow]
  BY DEF AccountsTypeOK
<1>2. \A t \in TokenIds : /\ tokens'[t].user = tokens[t].user
                          /\ tokens'[t].replaces = tokens[t].replaces
                          /\ tokens[t].revoked => tokens'[t].revoked
  OBVIOUS
<1>3. contested' = contested
  OBVIOUS
<1> QED
  BY <1>1, <1>2, <1>3, RotationKept

LEMMA StepRotation ==
  ASSUME AccountsTypeOK, Rotation, [AccountsNext]_accountVars
  PROVE  Rotation'
<1>0. Idle.op \notin {"refresh", "issueTokenPair"}
  BY DEF Idle
<1>1. AccountsTypeOK'
  BY StepTyped
<1>2. tokens' \in [TokenIds -> TokenRow]
  BY <1>1 DEF AccountsTypeOK
<1>3. \A t \in TokenIds : tokens[t] \in TokenRow
  BY DEF AccountsTypeOK
<1>4. ASSUME NEW a \in AuthRequests, AuthArrive(a)
      PROVE  Rotation'
  <2>1. ASSUME NEW e \in Emails, NEW role \in Roles, ReadForRegister(a, e, role)
        PROVE  Rotation'
    <3> DEFINE q == [op |-> "register", email |-> e, role |-> role]
    <3>1. authReq' = [authReq EXCEPT ![a] = q] /\ UNCHANGED <<tokens, contested>>
      BY <2>1 DEF ReadForRegister, Begin
    <3>2. q.op # "refresh" /\ (q.op = "issueTokenPair" => q.replaces = Null)
      OBVIOUS
    <3> HIDE DEF q
    <3> QED
      BY <3>1, <3>2, RotationUntouched
  <2>2. ASSUME NEW u \in UserIds, ReadForVerifyEmail(a, u)
        PROVE  Rotation'
    <3> DEFINE q == [op |-> "verifyEmail", user |-> u]
    <3>1. authReq' = [authReq EXCEPT ![a] = q] /\ UNCHANGED <<tokens, contested>>
      BY <2>2 DEF ReadForVerifyEmail, Begin
    <3>2. q.op # "refresh" /\ (q.op = "issueTokenPair" => q.replaces = Null)
      OBVIOUS
    <3> HIDE DEF q
    <3> QED
      BY <3>1, <3>2, RotationUntouched
  <2>3. ASSUME NEW u \in UserIds, ReadForLogin(a, u)
        PROVE  Rotation'
    <3> DEFINE q == [op |-> "issueTokenPair", user |-> u, replaces |-> Null]
    <3>1. authReq' = [authReq EXCEPT ![a] = q] /\ UNCHANGED <<tokens, contested>>
      BY <2>3 DEF ReadForLogin, Begin
    <3>2. q.op # "refresh" /\ (q.op = "issueTokenPair" => q.replaces = Null)
      OBVIOUS
    <3> HIDE DEF q
    <3> QED
      BY <3>1, <3>2, RotationUntouched
  <2>4. ASSUME NEW u \in UserIds, NEW t \in TokenIds, ReadForRefresh(a, u, t)
        PROVE  Rotation'
    \* The row was not revoked, so nobody has rotated it, and if another
    \* refresh has found it, it is contested.
    <3> DEFINE q == [op |-> "refresh", user |-> u, stored |-> t]
    <3>1. \A b \in AuthRequests : authReq'[b] = IF b = a THEN q ELSE authReq[b]
      BY <2>4 DEF ReadForRefresh, Begin, AccountsTypeOK
    <3>2. tokens' = tokens /\ ~tokens[t].revoked /\ tokens[t].user = u
      BY <2>4 DEF ReadForRefresh, RowsOf
    <3>3. contested \subseteq contested'
      BY <2>4 DEF ReadForRefresh
    <3>4. ASSUME t \notin contested', NEW b \in AuthRequests
          PROVE  ~Rotates(b, t)
      <4>1. ~(authReq[b].op = "refresh" /\ authReq[b].stored = t)
        BY <2>4, <3>4 DEF ReadForRefresh
      <4>2. ~(authReq[b].op = "issueTokenPair" /\ authReq[b].replaces = t)
        BY <3>2, TokenIdsAssumption DEF Rotation, Succession, Spent
      <4> QED
        BY <4>1, <4>2 DEF Rotates
    <3>5. \A v \in TokenIds : tokens[v].replaces # t
      BY <3>2, TokenIdsAssumption DEF Rotation, Succession, Spent
    <3>6. \A b \in AuthRequests, s \in TokenIds :
              Rotates(b, s)' <=> IF b = a THEN s = t ELSE Rotates(b, s)
      BY <3>1 DEF Rotates
    <3>7. RotatedOnce'
      <4> SUFFICES ASSUME NEW s \in TokenIds \ contested'
                   PROVE  /\ \A b, c \in AuthRequests :
                                Rotates(b, s)' /\ Rotates(c, s)' => b = c
                          /\ \A b \in AuthRequests, v \in TokenIds :
                                Rotates(b, s)' => tokens[v].replaces # s
                          /\ \A v, w \in TokenIds :
                                tokens[v].replaces = s /\ tokens[w].replaces = s => v = w
        BY <3>2 DEF RotatedOnce
      <4>1. s \in TokenIds \ contested
        BY <3>3
      <4> QED
        BY <3>4, <3>5, <3>6, <4>1 DEF Rotation, RotatedOnce
    <3>8. Succession'
      BY <3>1, <3>2 DEF Rotation, Succession, Spent
    <3> QED
      BY <3>7, <3>8 DEF Rotation
  <2>5. ASSUME NEW u \in UserIds, ReadForLogout(a, u)
        PROVE  Rotation'
    <3> DEFINE q == [op |-> "logout", user |-> u]
    <3>1. authReq' = [authReq EXCEPT ![a] = q] /\ UNCHANGED <<tokens, contested>>
      BY <2>5 DEF ReadForLogout, Begin
    <3>2. q.op # "refresh" /\ (q.op = "issueTokenPair" => q.replaces = Null)
      OBVIOUS
    <3> HIDE DEF q
    <3> QED
      BY <3>1, <3>2, RotationUntouched
  <2> QED
    BY <1>4, <2>1, <2>2, <2>3, <2>4, <2>5 DEF AuthArrive
<1>5. ASSUME NEW a \in AuthRequests, AuthProceed(a)
      PROVE  Rotation'
  <2>1. ASSUME NEW u \in UserIds, InsertUser(a, u)
        PROVE  Rotation'
    BY <1>0, <2>1, RotationUntouched DEF InsertUser, GoTo
  <2>2. ASSUME EmailRefused(a) \/ WriteVerified(a)
        PROVE  Rotation'
    BY <1>0, <2>2, RotationUntouched DEF EmailRefused, WriteVerified, GoTo
  <2>3. ASSUME RevokeStored(a)
        PROVE  Rotation'
    \* The same request goes on rotating the same row.
    <3>0. PICK s \in TokenIds, u \in UserIds :
              s = authReq[a].stored /\ u = authReq[a].user /\ authReq[a].op = "refresh"
      BY <2>3, RequestTyped DEF RevokeStored
    <3> DEFINE q == [op |-> "issueTokenPair", user |-> u, replaces |-> s]
    <3>1. \A b \in AuthRequests : authReq'[b] = IF b = a THEN q ELSE authReq[b]
      BY <2>3, <3>0 DEF RevokeStored, GoTo, AccountsTypeOK
    <3>2. \A t \in TokenIds : tokens'[t] = IF t = s THEN Rotated(tokens[t]) ELSE tokens[t]
      BY <2>3, <3>0 DEF RevokeStored, AccountsTypeOK
    <3>3. \A t \in TokenIds : /\ tokens'[t].user = tokens[t].user
                              /\ tokens'[t].replaces = tokens[t].replaces
                              /\ tokens[t].revoked => tokens'[t].revoked
      BY <1>3, <3>2 DEF Rotated, TokenRow
    <3>4. tokens'[s].revoked /\ tokens'[s].user = u
      BY <1>3, <3>0, <3>2 DEF Rotated, TokenRow, Rotation, Succession
    <3>5. \A b \in AuthRequests, t \in TokenIds : Rotates(b, t)' <=> Rotates(b, t)
      BY <3>0, <3>1 DEF Rotates
    <3>6. contested' = contested
      BY <2>3 DEF RevokeStored
    <3>7. RotatedOnce'
      BY <3>3, <3>5, <3>6 DEF Rotation, RotatedOnce
    <3>8. \A t \in TokenIds : tokens[t].replaces # Null => tokens[t].replaces \in TokenIds
      BY <1>3 DEF TokenRow
    <3>9. \A b \in AuthRequests :
              /\ authReq[b].op = "refresh" => authReq[b].stored \in TokenIds
              /\ authReq[b].op = "issueTokenPair" =>
                     authReq[b].replaces \in TokenIds \cup {Null}
      BY RequestTyped
    <3>10. Succession'
      BY <3>1, <3>3, <3>4, <3>8, <3>9 DEF Rotation, Succession, Spent
    <3> QED
      BY <3>7, <3>10 DEF Rotation
  <2>4. ASSUME NEW t \in TokenIds, IssueTokenPair(a, t)
        PROVE  Rotation'
    \* What the request was rotating has been rotated into row t.
    <3>0. PICK s \in TokenIds \cup {Null}, u \in UserIds :
              /\ s = authReq[a].replaces /\ u = authReq[a].user
              /\ authReq[a].op = "issueTokenPair"
      BY <2>4, RequestTyped DEF IssueTokenPair
    <3>1. \A b \in AuthRequests : authReq'[b] = IF b = a THEN Idle ELSE authReq[b]
      BY <2>4 DEF IssueTokenPair, GoTo, AccountsTypeOK
    <3> DEFINE row == [NoToken EXCEPT !.user = u, !.replaces = s]
    <3>2. \A v \in TokenIds : tokens'[v] = IF v = t THEN row ELSE tokens[v]
      BY <2>4, <3>0 DEF IssueTokenPair, AccountsTypeOK
    <3>3. row.user = u /\ row.replaces = s
      BY DEF NoToken
    <3>4. tokens[t].user = Null /\ tokens[t].replaces = Null /\ contested' = contested
      BY <2>4 DEF IssueTokenPair, Rotation, Succession
    <3> HIDE DEF row
    <3>5. \A b \in AuthRequests, v \in TokenIds :
              Rotates(b, v)' <=> b # a /\ Rotates(b, v)
      BY <1>0, <3>1 DEF Rotates
    <3>6. s # Null => Rotates(a, s)
      BY <3>0 DEF Rotates
    <3>7. RotatedOnce'
      <4> SUFFICES ASSUME NEW z \in TokenIds \ contested
                   PROVE  /\ \A b, c \in AuthRequests :
                                Rotates(b, z)' /\ Rotates(c, z)' => b = c
                          /\ \A b \in AuthRequests, v \in TokenIds :
                                Rotates(b, z)' => tokens'[v].replaces # z
                          /\ \A v, w \in TokenIds :
                                tokens'[v].replaces = z /\ tokens'[w].replaces = z => v = w
        BY <3>4 DEF RotatedOnce
      <4>1. \A v \in TokenIds :
                tokens'[v].replaces = z =>
                    \/ v = t /\ s = z
                    \/ v # t /\ tokens[v].replaces = z
        BY <3>2, <3>3
      <4>2. s = z => Rotates(a, z)
        BY <3>6, TokenIdsAssumption
      <4> QED
        BY <3>5, <4>1, <4>2 DEF Rotation, RotatedOnce
    <3>8. \A v \in TokenIds : \A x \in UserIds :
              Spent(tokens[v], x) => Spent(tokens'[v], x)
      BY <3>2, <3>4, UserIdsAssumption DEF Spent
    <3>9. s # Null => s \in TokenIds /\ Spent(tokens[s], u)
      BY <3>0 DEF Rotation, Succession
    <3>10. \A v \in TokenIds :
              /\ tokens[v].replaces \in TokenIds \cup {Null}
              /\ tokens[v].user \in UserIds \cup {Null}
      BY <1>3 DEF TokenRow
    <3>11. \A v \in TokenIds : tokens'[v].replaces # Null =>
              /\ tokens'[v].user # Null
              /\ Spent(tokens'[tokens'[v].replaces], tokens'[v].user)
      <4> SUFFICES ASSUME NEW v \in TokenIds, tokens'[v].replaces # Null
                   PROVE  /\ tokens'[v].user # Null
                          /\ Spent(tokens'[tokens'[v].replaces], tokens'[v].user)
        OBVIOUS
      <4>1. CASE v = t
        BY <3>2, <3>3, <3>8, <3>9, <4>1, UserIdsAssumption
      <4>2. CASE v # t
        BY <3>2, <3>8, <3>10, <4>2 DEF Rotation, Succession
      <4> QED
        BY <4>1, <4>2
    <3>12. \A b \in AuthRequests :
              /\ authReq'[b].op = "refresh" =>
                    tokens'[authReq'[b].stored].user = authReq'[b].user
              /\ authReq'[b].op = "issueTokenPair" /\ authReq'[b].replaces # Null =>
                    Spent(tokens'[authReq'[b].replaces], authReq'[b].user)
      <4> SUFFICES ASSUME NEW b \in AuthRequests, b # a
                   PROVE  /\ authReq[b].op = "refresh" =>
                                tokens'[authReq[b].stored].user = authReq[b].user
                          /\ authReq[b].op = "issueTokenPair" /\ authReq[b].replaces # Null =>
                                Spent(tokens'[authReq[b].replaces], authReq[b].user)
        BY <1>0, <3>1
      <4>1. /\ authReq[b].op = "refresh" =>
                   authReq[b].stored \in TokenIds /\ authReq[b].user \in UserIds
            /\ authReq[b].op = "issueTokenPair" /\ authReq[b].replaces # Null =>
                   authReq[b].replaces \in TokenIds /\ authReq[b].user \in UserIds
        BY RequestTyped
      <4> QED
        BY <3>2, <3>4, <3>8, <4>1, UserIdsAssumption DEF Rotation, Succession
    <3>13. Succession'
      BY <3>11, <3>12 DEF Succession
    <3> QED
      BY <3>7, <3>13 DEF Rotation
  <2>5. ASSUME RevokeAll(a)
        PROVE  Rotation'
    <3>1. \A t \in TokenIds : /\ tokens'[t].user = tokens[t].user
                              /\ tokens'[t].replaces = tokens[t].replaces
                              /\ tokens[t].revoked => tokens'[t].revoked
      BY <1>3, <2>5 DEF RevokeAll, TokenRow
    <3> QED
      BY <1>0, <1>2, <2>5, <3>1, RotationKept DEF RevokeAll, GoTo
  <2> QED
    BY <1>5, <2>1, <2>2, <2>3, <2>4, <2>5 DEF AuthProceed
<1>6. ASSUME NEW a \in AuthRequests, AuthFail(a)
      PROVE  Rotation'
  BY <1>0, <1>6, RotationUntouched DEF AuthFail, GoTo
<1>7. ASSUME NEW u \in UserIds, Deactivate(u)
      PROVE  Rotation'
  BY <1>7 DEF Deactivate, Rotation, RotatedOnce, Succession, Rotates, Spent
<1>8. ASSUME NEW t \in TokenIds, Expire(t)
      PROVE  Rotation'
  <2>1. \A v \in TokenIds : /\ tokens'[v].user = tokens[v].user
                            /\ tokens'[v].replaces = tokens[v].replaces
                            /\ tokens'[v].revoked = tokens[v].revoked
    BY <1>8, <1>3 DEF Expire, AccountsTypeOK, TokenRow
  <2>2. \A v \in TokenIds : tokens[v].replaces # Null => tokens[v].replaces \in TokenIds
    BY <1>3 DEF TokenRow
  <2>3. \A b \in AuthRequests :
            /\ authReq[b].op = "refresh" => authReq[b].stored \in TokenIds
            /\ authReq[b].op = "issueTokenPair" =>
                   authReq[b].replaces \in TokenIds \cup {Null}
    BY RequestTyped
  <2>4. authReq' = authReq /\ contested' = contested
    BY <1>8 DEF Expire
  <2>5. RotatedOnce'
    BY <2>1, <2>4 DEF Rotation, RotatedOnce, Rotates
  <2>6. Succession'
    BY <2>1, <2>2, <2>3, <2>4 DEF Rotation, Succession, Spent
  <2> QED
    BY <2>5, <2>6 DEF Rotation
<1>9. ASSUME UNCHANGED accountVars
      PROVE  Rotation'
  BY <1>9 DEF accountVars, Rotation, RotatedOnce, Succession, Rotates, Spent
<1> QED
  BY <1>4, <1>5, <1>6, <1>7, <1>8, <1>9 DEF AccountsNext

\* Counting: every row of a user that was issued by a refresh has a row of its
\* own that is no session, the one it replaced; what is left of the rows are
\* the sessions on one side and the logins on the other.
LEMMA SessionsCounted ==
  ASSUME AccountsTypeOK, Rotation, NEW u \in UserIds, RowsOf(u) \cap contested = {}
  PROVE  Cardinality(Sessions(u)) <=
             Cardinality({t \in RowsOf(u) : tokens[t].replaces = Null})
<1> DEFINE Logins  == {t \in RowsOf(u) : tokens[t].replaces = Null}
           Issued  == {t \in RowsOf(u) : tokens[t].replaces # Null}
           Ended   == RowsOf(u) \ Sessions(u)
           f       == [t \in Issued |-> tokens[t].replaces]
<1>1. IsFiniteSet(RowsOf(u))
  BY TokenIdsFinite, FS_Subset DEF RowsOf
<1>2. /\ IsFiniteSet(Sessions(u)) /\ IsFiniteSet(Logins)
      /\ IsFiniteSet(Issued) /\ IsFiniteSet(Ended)
  BY <1>1, FS_Subset DEF Sessions
<1>3. f \in Injection(Issued, Ended)
  <2>1. ASSUME NEW t \in Issued
        PROVE  tokens[t].replaces \in Ended
    <3>1. tokens[t].replaces \in TokenIds
      BY DEF AccountsTypeOK, TokenRow, RowsOf
    <3> QED
      BY <3>1 DEF Rotation, Succession, Spent, RowsOf, Sessions
  <2>2. ASSUME NEW t \in Issued, NEW v \in Issued, tokens[t].replaces = tokens[v].replaces
        PROVE  t = v
    <3>1. tokens[t].replaces \in TokenIds \ contested
      BY <2>1 DEF RowsOf
    <3> QED
      BY <2>2, <3>1 DEF Rotation, RotatedOnce, RowsOf
  <2> QED
    BY <2>1, <2>2 DEF Injection, IsInjective
<1>4. Cardinality(Issued) <= Cardinality(Ended)
  BY <1>2, <1>3, FS_Injection
<1>5. Cardinality(Ended) = Cardinality(RowsOf(u)) - Cardinality(Sessions(u))
  <2>1. RowsOf(u) \cap Sessions(u) = Sessions(u)
    BY DEF Sessions
  <2>2. Cardinality(RowsOf(u) \ Sessions(u)) =
            Cardinality(RowsOf(u)) - Cardinality(RowsOf(u) \cap Sessions(u))
    BY <1>1, FS_Difference
  <2> QED
    BY <2>1, <2>2
<1>6. Cardinality(Issued) = Cardinality(RowsOf(u)) - Cardinality(Logins)
  <2>1. RowsOf(u) \cap Logins = Logins /\ Issued = RowsOf(u) \ Logins
    OBVIOUS
  <2>2. Cardinality(RowsOf(u) \ Logins) =
            Cardinality(RowsOf(u)) - Cardinality(RowsOf(u) \cap Logins)
    BY <1>1, FS_Difference
  <2> QED
    BY <2>1, <2>2
<1>7. /\ Cardinality(RowsOf(u)) \in Nat /\ Cardinality(Sessions(u)) \in Nat
      /\ Cardinality(Logins) \in Nat
  BY <1>1, <1>2, FS_CardinalityType
<1> QED
  BY <1>4, <1>5, <1>6, <1>7

\* A refresh replaces a session and adds none, however many are in flight, as
\* long as no two of them found the same row.
THEOREM RefreshMultipliesNothing == AccountsSpec => []RefreshAddsNoSession
<1>1. AccountsInit => Rotation
  <2> SUFFICES ASSUME AccountsInit
               PROVE  Rotation
    OBVIOUS
  <2>1. /\ \A a \in AuthRequests : authReq[a].op = "idle"
        /\ \A t \in TokenIds : tokens[t].replaces = Null
    BY DEF AccountsInit, Idle, NoToken
  <2> QED
    BY <2>1, TokenIdsAssumption DEF Rotation, RotatedOnce, Succession, Rotates
<1>2. AccountsTypeOK /\ Rotation /\ [AccountsNext]_accountVars => Rotation'
  BY StepRotation
<1>3. AccountsTypeOK /\ Rotation => RefreshAddsNoSession
  BY SessionsCounted DEF RefreshAddsNoSession
<1> QED
  BY <1>1, <1>2, <1>3, AccountsTypeCorrect, PTL DEF AccountsSpec
=============================================================================
