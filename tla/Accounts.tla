------------------------------ MODULE Accounts ------------------------------
(***************************************************************************)
(* Accounts and sessions: AuthService, JwtStrategy and the deactivation of *)
(* UsersService.                                                           *)
(*                                                                         *)
(* A session is an unrevoked, unexpired RefreshToken row.  Every handler   *)
(* reads, awaits (bcrypt takes a while), then writes: a registration may   *)
(* find its address taken by then, a refresh its row revoked.  Rejected    *)
(* requests change nothing and are not modelled, but for the insert that   *)
(* the unique e-mail column refuses.                                       *)
(***************************************************************************)
EXTENDS Database, Naturals, FiniteSets

CONSTANTS
    UserIds,        \* primary keys of the User table
    Emails,         \* e-mail addresses
    TokenIds,       \* primary keys of the RefreshToken table; bounds a behaviour
    AuthRequests    \* slots: the requests that can be in flight at once

ASSUME EmailsAssumption == Null \notin Emails
ASSUME UserIdsAssumption == Null \notin UserIds
ASSUME TokenIdsAssumption == Null \notin TokenIds
ASSUME TokenIdsFinite == IsFiniteSet(TokenIds)

VARIABLES
    users,      \* the User table; email Null: the row does not exist
    tokens,     \* the RefreshToken table; user Null: the row does not exist
    authReq,    \* the request in each slot
    \* Observations, read by no action:
    contested,  \* rows that two refreshes found before either revoked them
    quiet       \* users logged out while nothing else of theirs was in flight,
                \* and not logging in since

accountVars == <<users, tokens, authReq, contested, quiet>>

\* ADMIN cannot be registered.
Roles == {"BUYER", "PROVIDER"}

UserRow ==
    [email: Emails \cup {Null}, role: Roles \cup {Null},
     profile: {Null, "buyerProfile", "providerProfile"},
     emailVerifyToken: BOOLEAN, isEmailVerified: BOOLEAN, isActive: BOOLEAN]

NoUser == [email |-> Null, role |-> Null, profile |-> Null,
           emailVerifyToken |-> FALSE, isEmailVerified |-> FALSE,
           isActive |-> TRUE]

\* replaces (an observation): the row whose refresh issued this one.
TokenRow ==
    [user: UserIds \cup {Null}, revoked: BOOLEAN, expired: BOOLEAN,
     replaces: TokenIds \cup {Null}]

NoToken == [user |-> Null, revoked |-> FALSE, expired |-> FALSE,
            replaces |-> Null]

Idle == [op |-> "idle"]

AuthRequest ==
    [op: {"register"}, email: Emails, role: Roles]
    \cup [op: {"verifyEmail", "logout"}, user: UserIds]
    \cup [op: {"refresh"}, user: UserIds, stored: TokenIds]
    \cup [op: {"issueTokenPair"}, user: UserIds, replaces: TokenIds \cup {Null}]
    \cup {Idle}

Exists(u) == users[u].email # Null

AccountsTypeOK ==
    /\ users \in [UserIds -> UserRow]
    /\ tokens \in [TokenIds -> TokenRow]
    /\ authReq \in [AuthRequests -> AuthRequest]
    /\ contested \subseteq TokenIds
    /\ quiet \subseteq UserIds
    /\ \A u, v \in UserIds :      \* the unique column
          Exists(u) /\ users[u].email = users[v].email => u = v

AccountsInit ==
    /\ users = [u \in UserIds |-> NoUser]
    /\ tokens = [t \in TokenIds |-> NoToken]
    /\ authReq = [a \in AuthRequests |-> Idle]
    /\ contested = {}
    /\ quiet = {}

-----------------------------------------------------------------------------
RowsOf(u) == {t \in TokenIds : tokens[t].user = u}

Sessions(u) == {t \in RowsOf(u) : ~tokens[t].revoked /\ ~tokens[t].expired}

Begin(a, q) == authReq[a] = Idle /\ authReq' = [authReq EXCEPT ![a] = q]

GoTo(a, q) == authReq' = [authReq EXCEPT ![a] = q]

-----------------------------------------------------------------------------
(***************************************************************************)
(* register: look the address up, hash the password, insert user and       *)
(* profile.                                                                *)
(***************************************************************************)
\* Mutant: the column is not unique.
EmailFree_Unchecked(e) == TRUE

EmailFree(e) == \A u \in UserIds : users[u].email # e

ProfileFor(role) ==
    IF role = "PROVIDER" THEN "providerProfile" ELSE "buyerProfile"

ReadForRegister(a, e, role) ==
    /\ \A u \in UserIds : users[u].email # e
    /\ Begin(a, [op |-> "register", email |-> e, role |-> role])
    /\ UNCHANGED <<users, tokens, contested, quiet>>

InsertUser(a, u) ==
    LET q == authReq[a]
    IN  /\ q.op = "register"
        /\ EmailFree(q.email)
        /\ ~Exists(u)
        /\ users' = [users EXCEPT ![u] =
               [email |-> q.email, role |-> q.role,
                profile |-> ProfileFor(q.role), emailVerifyToken |-> TRUE,
                isEmailVerified |-> FALSE, isActive |-> TRUE]]
        /\ GoTo(a, Idle)
        /\ UNCHANGED <<tokens, contested, quiet>>

EmailRefused(a) ==
    /\ authReq[a].op = "register"
    /\ ~EmailFree(authReq[a].email)
    /\ GoTo(a, Idle)
    /\ UNCHANGED <<users, tokens, contested, quiet>>

\* verifyEmail: the token is unique and cleared by its first use; a second
\* request that found it before that writes the same again.
ReadForVerifyEmail(a, u) ==
    /\ Exists(u)
    /\ users[u].emailVerifyToken
    /\ Begin(a, [op |-> "verifyEmail", user |-> u])
    /\ UNCHANGED <<users, tokens, contested, quiet>>

WriteVerified(a) ==
    LET q == authReq[a]
    IN  /\ q.op = "verifyEmail"
        /\ users' = [users EXCEPT ![q.user] =
               [@ EXCEPT !.isEmailVerified = TRUE, !.emailVerifyToken = FALSE]]
        /\ GoTo(a, Idle)
        /\ UNCHANGED <<tokens, contested, quiet>>

-----------------------------------------------------------------------------
(***************************************************************************)
(* login, refresh and logout.                                              *)
(***************************************************************************)
ReadForLogin(a, u) ==
    /\ Exists(u)
    /\ users[u].isActive
    /\ Begin(a, [op |-> "issueTokenPair", user |-> u, replaces |-> Null])
    /\ quiet' = quiet \ {u}
    /\ UNCHANGED <<users, tokens, contested>>

\* refresh: the presented token proves who the user is; the row it takes is
\* any unrevoked one of that user (findFirst without an order).
ReadForRefresh(a, u, t) ==
    /\ \E s \in RowsOf(u) : ~tokens[s].expired
    /\ t \in RowsOf(u)
    /\ ~tokens[t].revoked
    /\ ~tokens[t].expired
    /\ Begin(a, [op |-> "refresh", user |-> u, stored |-> t])
    /\ contested' = IF \E b \in AuthRequests :
                         authReq[b].op = "refresh" /\ authReq[b].stored = t
                    THEN contested \cup {t} ELSE contested
    /\ UNCHANGED <<users, tokens, quiet>>

\* Mutant: the old row stays.
Rotated_Kept(row) == row

Rotated(row) == [row EXCEPT !.revoked = TRUE]

\* The row is revoked by its id, whatever it is by now; the user is read
\* again but only its id is used, and users are never deleted.
RevokeStored(a) ==
    LET q == authReq[a]
    IN  /\ q.op = "refresh"
        /\ tokens' = [tokens EXCEPT ![q.stored] = Rotated(@)]
        /\ GoTo(a, [op |-> "issueTokenPair", user |-> q.user,
                    replaces |-> q.stored])
        /\ UNCHANGED <<users, contested, quiet>>

IssueTokenPair(a, t) ==
    LET q == authReq[a]
    IN  /\ q.op = "issueTokenPair"
        /\ tokens[t].user = Null
        /\ tokens' = [tokens EXCEPT ![t] =
               [NoToken EXCEPT !.user = q.user, !.replaces = q.replaces]]
        /\ GoTo(a, Idle)
        /\ UNCHANGED <<users, contested, quiet>>

\* The guard of logout (JwtStrategy.validate) reads the user, then the
\* handler runs.  The access token was issued together with some row.
ReadForLogout(a, u) ==
    /\ users[u].isActive
    /\ RowsOf(u) # {}
    /\ Begin(a, [op |-> "logout", user |-> u])
    /\ UNCHANGED <<users, tokens, contested, quiet>>

\* Mutant: one row is revoked, as in refresh.
RevokedByLogout_First(u) ==
    LET live == {t \in RowsOf(u) : ~tokens[t].revoked}
    IN  IF live = {} THEN {} ELSE {CHOOSE t \in live : TRUE}

RevokedByLogout(u) == {t \in RowsOf(u) : ~tokens[t].revoked}

RevokeAll(a) ==
    LET q == authReq[a]
        r == RevokedByLogout(q.user)
    IN  /\ q.op = "logout"
        /\ tokens' = [t \in TokenIds |->
               [tokens[t] EXCEPT !.revoked = @ \/ t \in r]]
        /\ quiet' = IF \E b \in AuthRequests :
                         /\ authReq[b].op \in {"refresh", "issueTokenPair"}
                         /\ authReq[b].user = q.user
                    THEN quiet ELSE quiet \cup {q.user}
        /\ GoTo(a, Idle)
        /\ UNCHANGED <<users, contested>>

-----------------------------------------------------------------------------
\* An admin deactivates an account; sessions are left as they are.
Deactivate(u) ==
    /\ Exists(u)
    /\ users' = [users EXCEPT ![u].isActive = FALSE]
    /\ UNCHANGED <<tokens, authReq, contested, quiet>>

\* Time passes: expiresAt of a row, and of the JWT issued with it, is over.
Expire(t) ==
    /\ tokens[t].user # Null
    /\ tokens' = [tokens EXCEPT ![t].expired = TRUE]
    /\ UNCHANGED <<users, authReq, contested, quiet>>

AuthFail(a) ==
    /\ CanFail
    /\ authReq[a] # Idle
    /\ GoTo(a, Idle)
    /\ UNCHANGED <<users, tokens, contested, quiet>>

AuthArrive(a) ==
    \/ \E e \in Emails, role \in Roles : ReadForRegister(a, e, role)
    \/ \E u \in UserIds :
          \/ ReadForVerifyEmail(a, u)
          \/ ReadForLogin(a, u)
          \/ \E t \in TokenIds : ReadForRefresh(a, u, t)
          \/ ReadForLogout(a, u)

AuthProceed(a) ==
    \/ \E u \in UserIds : InsertUser(a, u)
    \/ EmailRefused(a)
    \/ WriteVerified(a)
    \/ RevokeStored(a)
    \/ \E t \in TokenIds : IssueTokenPair(a, t)
    \/ RevokeAll(a)

AccountsNext ==
    \/ \E a \in AuthRequests : AuthArrive(a) \/ AuthProceed(a) \/ AuthFail(a)
    \/ \E u \in UserIds : Deactivate(u)
    \/ \E t \in TokenIds : Expire(t)

AccountsSpec == AccountsInit /\ [][AccountsNext]_accountVars

-----------------------------------------------------------------------------
\* A refresh replaces a session and never adds one: a user has no more
\* sessions than logins, unless two refreshes found the same row.
RefreshAddsNoSession ==
    \A u \in UserIds :
        RowsOf(u) \cap contested = {} =>
            Cardinality(Sessions(u)) <=
                Cardinality({t \in RowsOf(u) : tokens[t].replaces = Null})

\* A logout ends all sessions of a user, and refreshing brings none back;
\* only a request that was in flight at the time, or a new login, opens one.
LogoutEndsSessions == \A u \in quiet : Sessions(u) = {}
=============================================================================
