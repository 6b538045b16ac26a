------------------------------ MODULE Sessions ------------------------------
(***************************************************************************)
(* Sessions of the accounts app: login, refresh with rotation, logout,     *)
(* password reset, the administrator's changes of an account, deletion.     *)
(*                                                                         *)
(* Tokens are JWTs: the server keeps no session row.  What ends one is its *)
(* expiry, the absolute deadline carried by a temporary session, the       *)
(* account's auth_token_version (each token carries the version its login  *)
(* read), and, for refresh tokens, the blacklist of simplejwt.             *)
(*                                                                         *)
(* Requests run in gunicorn workers without ATOMIC_REQUESTS: a login or a  *)
(* refresh reads the account, then writes and signs the token in a later   *)
(* step.  Handlers that lock the user's row are one step.  The accounts    *)
(* here are verified (Registration has the others); what a deletion erases *)
(* is in Checkout.  The clock counts units of the lifetimes.               *)
(***************************************************************************)
EXTENDS Integers, FiniteSets, SequencesExt, TLC

CONSTANTS
    Users,                          \* accounts
    Requests,                       \* requests that may be in progress at once
    Nobody,                         \* no account: the user of an idle slot
    AccessLife, TempLife,           \* lifetimes: access token, temporary session,
    RememberLife, LibraryLife,      \* remembered session, simplejwt's refresh default
    MaxTime, MaxTokens, MaxSessions, MaxChanges  \* bounds of the model

ASSUME SessionConstants ==
    /\ AccessLife \in Nat /\ TempLife \in Nat /\ RememberLife \in Nat /\ LibraryLife \in Nat
    /\ 0 < AccessLife /\ AccessLife <= TempLife
    /\ TempLife <= RememberLife /\ RememberLife <= LibraryLife
    /\ MaxTime \in Nat /\ MaxTokens \in Nat \ {0} /\ MaxSessions \in Nat /\ MaxChanges \in Nat

Roles == {"client", "representative", "admin"}
Mobile == {"client", "representative"}
Modes == {"persistent", "temporary", "legacy", "admin", "adminRemember", "plain"}
NoDeadline == LibraryLife + MaxTime + 1

VARIABLES
    now,        \* the clock
    account,    \* account[u]: the User row
    courier,    \* courier[u]: CourierProfile, "none" or is_available "off", "on"
    tokens,     \* every pair of refresh and access token handed out, in order
    code,       \* code[u]: is a password reset code of u unused
    job,        \* job[q]: a request between two of its steps
    revoked,    \* ghost, revoked[u]: times the sessions of u were revoked
    raced,      \* ghost: sessions in which a refresh overlapped a refresh or a logout
    left        \* ghost: sessions logged out

vars == <<now, account, courier, tokens, code, job, revoked, raced, left>>

Idle == [at |-> "idle", user |-> Nobody, token |-> 0, mode |-> "plain", version |-> 0,
         epoch |-> 0]
Steps == {"idle", "login", "refresh", "rotate", "reset"}

\* An admin patch may change a version three times, a reset or a deletion once.
Versions == 0..(3 * MaxChanges)

Account == [role: Roles, active: BOOLEAN, deleted: BOOLEAN, version: Versions,
            signedIn: BOOLEAN]
Token == [user: Users, mode: Modes, started: 0..MaxTime, deadline: 0..NoDeadline,
          exp: 0..NoDeadline, access: 0..NoDeadline, version: Versions,
          epoch: 0..MaxChanges, root: 1..MaxTokens, black: BOOLEAN]

TypeOK ==
    /\ now \in 0..MaxTime
    /\ account \in [Users -> Account]
    /\ courier \in [Users -> {"none", "off", "on"}]
    /\ tokens \in Seq(Token) /\ Len(tokens) <= MaxTokens
    /\ code \in [Users -> BOOLEAN]
    /\ job \in [Requests -> [at: Steps, user: Users \cup {Nobody}, token: 0..MaxTokens,
                             mode: Modes, version: Versions, epoch: 0..MaxChanges]]
    /\ revoked \in [Users -> 0..MaxChanges]
    /\ raced \subseteq 1..MaxTokens /\ left \subseteq 1..MaxTokens

\* A session opened before sessions had modes: no claims, the library's lifetime.
LegacyToken(u) ==
    [user |-> u, mode |-> "legacy", started |-> 0, deadline |-> NoDeadline,
     exp |-> LibraryLife, access |-> AccessLife, version |-> 0, epoch |-> 0, root |-> 1,
     black |-> FALSE]

Init ==
    /\ now = 0
    /\ \E role \in [Users -> Roles] :
        /\ account = [u \in Users |->
            [role |-> role[u], active |-> TRUE, deleted |-> FALSE, version |-> 0,
             signedIn |-> FALSE]]
        /\ courier = [u \in Users |->
            IF role[u] = "representative" THEN "off" ELSE "none"]
        /\ tokens \in {<<>>} \cup {<<LegacyToken(u)>> : u \in {v \in Users : role[v] # "admin"}}
    /\ code = [u \in Users |-> FALSE]
    /\ job = [q \in Requests |-> Idle]
    /\ revoked = [u \in Users |-> 0]
    /\ raced = {} /\ left = {}

-----------------------------------------------------------------------------
Earlier(a, b) == IF a < b THEN a ELSE b

\* The deadline a token's claims give its session; a legacy token's counts from its iat.
Deadline(t) == IF t.mode = "legacy" THEN t.started + TempLife ELSE t.deadline

\* May a token with this version and this session deadline act for u?
StateAllows(u, version, deadline) ==
    /\ version = account[u].version
    /\ account[u].role \in Mobile =>
        /\ account[u].active /\ ~account[u].deleted
        /\ deadline > now

\* The access token minted with t authenticates a request.
Authenticates(t) ==
    /\ t.access > now
    /\ account[t.user].active
    /\ StateAllows(t.user, t.version, Deadline(t))

\* The refresh token t is one a refresh starts from.
Refreshable(t) ==
    /\ t.exp > now /\ ~t.black
    /\ StateAllows(t.user, t.version, Deadline(t))
    /\ t.mode \in {"admin", "adminRemember"} => t.deadline > now

\* Session modes an account of this role can log in with; the general login view gives
\* a client or courier a temporary session and an administrator a plain pair.
LoginModes(role) == IF role \in Mobile THEN {"persistent", "temporary"}
                    ELSE {"admin", "adminRemember", "plain"}

\* Lifetime of a new session, and whether it is an absolute one.
Lifetime(mode) == IF mode \in {"temporary", "admin"} THEN TempLife
                  ELSE IF mode = "plain" THEN LibraryLife ELSE RememberLife
Absolute(mode) == mode \notin {"persistent", "plain"}

\* Mutant: the version is read when the token is signed, after the password check.
NewPairVersionAtSigning(u, mode, version, epoch) ==
    LET exp == now + Lifetime(mode) IN
    [user |-> u, mode |-> mode, started |-> now,
     deadline |-> IF Absolute(mode) THEN exp ELSE NoDeadline,
     exp |-> exp, access |-> Earlier(exp, now + AccessLife),
     version |-> account[u].version, epoch |-> epoch, root |-> Len(tokens) + 1,
     black |-> FALSE]

NewPair(u, mode, version, epoch) ==
    LET exp == now + Lifetime(mode) IN
    [user |-> u, mode |-> mode, started |-> now,
     deadline |-> IF Absolute(mode) THEN exp ELSE NoDeadline,
     exp |-> exp, access |-> Earlier(exp, now + AccessLife), version |-> version,
     epoch |-> epoch, root |-> Len(tokens) + 1, black |-> FALSE]

\* Mutant: every rotation starts the session's lifetime again.
RotatedPairRestarted(t) ==
    LET exp == now + Lifetime(t.mode) IN
    [t EXCEPT !.deadline = IF @ = NoDeadline THEN @ ELSE exp, !.exp = exp,
              !.access = Earlier(exp, now + AccessLife), !.black = FALSE]

\* Mutant: a rotation adds the lifetime to the old expiry.
RotatedPairAdded(t) == [t EXCEPT !.exp = @ + Lifetime(t.mode), !.black = FALSE]

\* A rotated pair: the claims of t, with the expiry its kind of session allows.
RotatedPair(t) ==
    LET deadline == Deadline(t)
        exp == IF deadline # NoDeadline THEN deadline ELSE now + Lifetime(t.mode) IN
    [t EXCEPT !.mode = IF @ = "legacy" THEN "temporary" ELSE @,
              !.deadline = deadline, !.exp = exp,
              !.access = Earlier(exp, now + AccessLife), !.black = FALSE]

\* last_login, and for a courier with a profile, available again.
SignIn(u, role) ==
    /\ account' = [account EXCEPT ![u].signedIn = TRUE]
    /\ courier' = IF role = "representative" /\ courier[u] = "off"
                  THEN [courier EXCEPT ![u] = "on"] ELSE courier

Start(q, r) == job[q] = Idle /\ job' = [job EXCEPT ![q] = r]
Finish(q) == job' = [job EXCEPT ![q] = Idle]

-----------------------------------------------------------------------------
(* Login, refresh, logout.                                                 *)

\* Password or linked social identity checked on an active account: the User object is
\* kept for the answer.
LoginCheck(q, u, mode) ==
    /\ account[u].active /\ ~account[u].deleted
    /\ mode \in LoginModes(account[u].role)
    /\ Start(q, [Idle EXCEPT !.at = "login", !.user = u, !.mode = mode,
                             !.version = account[u].version, !.epoch = revoked[u]])
    /\ UNCHANGED <<now, account, courier, tokens, code, revoked, raced, left>>

LoginIssue(q) ==
    /\ job[q].at = "login" /\ Len(tokens) < MaxTokens
    /\ Cardinality({t.root : t \in Range(tokens)}) < MaxSessions
    /\ LET j == job[q]
           role == IF j.mode \in LoginModes("client") THEN account[j.user].role ELSE "admin"
       IN /\ SignIn(j.user, role)
          /\ tokens' = Append(tokens, NewPair(j.user, j.mode, j.version, j.epoch))
    /\ Finish(q)
    /\ UNCHANGED <<now, code, revoked, raced, left>>

RefreshCheck(q, i) ==
    /\ Refreshable(tokens[i])
    /\ Start(q, [Idle EXCEPT !.at = "refresh", !.user = tokens[i].user, !.token = i])
    /\ UNCHANGED <<now, account, courier, tokens, code, revoked, raced, left>>

Rotating(i) == {q \in Requests : job[q].at = "rotate" /\ job[q].token = i}

\* simplejwt decodes the token again and asks that the account is active.
RefreshVerify(q) ==
    /\ job[q].at = "refresh"
    /\ LET i == job[q].token
           t == tokens[i]
           valid == t.exp > now /\ ~t.black /\ account[t.user].active
       IN IF valid
          THEN /\ job' = [job EXCEPT ![q].at = "rotate"]
               /\ raced' = IF Rotating(i) = {} THEN raced ELSE raced \cup {t.root}
          ELSE Finish(q) /\ UNCHANGED raced
    /\ UNCHANGED <<now, account, courier, tokens, code, revoked, left>>

\* Mutant: the rotated token is not blacklisted.
StillGood(i) == tokens

Spent(i) == [tokens EXCEPT ![i].black = TRUE]

\* The old token is blacklisted (get_or_create: a second time is no error) and the new
\* one signed; a session whose deadline came meanwhile gets nothing.
RefreshRotate(q) ==
    /\ job[q].at = "rotate"
    /\ LET i == job[q].token
           new == RotatedPair(tokens[i])
       IN IF new.exp <= now THEN tokens' = Spent(i)
          ELSE Len(tokens) < MaxTokens /\ tokens' = Append(Spent(i), new)
    /\ Finish(q)
    /\ UNCHANGED <<now, account, courier, code, revoked, raced, left>>

\* Any authenticated request may blacklist the refresh token it presents.
Logout(i) ==
    /\ \E k \in DOMAIN tokens : Authenticates(tokens[k])
    /\ tokens[i].exp > now /\ ~tokens[i].black
    /\ tokens' = Spent(i)
    /\ left' = left \cup {tokens[i].root}
    /\ raced' = IF Rotating(i) = {} THEN raced ELSE raced \cup {tokens[i].root}
    /\ UNCHANGED <<now, account, courier, code, job, revoked>>

-----------------------------------------------------------------------------
(* Changes that revoke sessions.                                           *)

Blacklisted(u) ==
    [i \in DOMAIN tokens |->
        IF tokens[i].user = u THEN [tokens[i] EXCEPT !.black = TRUE] ELSE tokens[i]]

ForgotPassword(u) ==
    /\ account[u].active /\ ~account[u].deleted /\ ~code[u]
    /\ code' = [code EXCEPT ![u] = TRUE]
    /\ UNCHANGED <<now, account, courier, tokens, job, revoked, raced, left>>

\* The serializer checks the code without consuming it.
ResetCheck(q, u) ==
    /\ account[u].active /\ ~account[u].deleted /\ code[u]
    /\ Start(q, [Idle EXCEPT !.at = "reset", !.user = u])
    /\ UNCHANGED <<now, account, courier, tokens, code, revoked, raced, left>>

\* The view consumes it, under its row lock, with the new password and the revocation.
ResetCommit(q) ==
    /\ job[q].at = "reset"
    /\ LET u == job[q].user IN
       IF code[u]
       THEN /\ revoked[u] < MaxChanges
            /\ code' = [code EXCEPT ![u] = FALSE]
            /\ account' = [account EXCEPT ![u].version = @ + 1]
            /\ tokens' = Blacklisted(u)
            /\ revoked' = [revoked EXCEPT ![u] = @ + 1]
       ELSE UNCHANGED <<code, account, tokens, revoked>>
    /\ Finish(q)
    /\ UNCHANGED <<now, courier, raced, left>>

\* An administrator's PATCH of role, is_active, password and the courier's availability,
\* on the locked row.  A client that stays one is revoked with the blacklist; a courier
\* only by version; whoever had another role keeps the sessions.
\* That a courier disabled carries no order is a guard of OrderLifecycle; shipping
\* companies' accounts are left out.
AdminPatch(u, role, active, password, profile) ==
    LET a == account[u]
        disabled == a.active /\ ~active
        revokesClient == disabled /\ role = "client"
        revokesCourier == disabled /\ a.role = "representative"
        bumps == Cardinality({k \in 1..3 : \/ k = 1 /\ password
                                           \/ k = 2 /\ revokesClient
                                           \/ k = 3 /\ revokesCourier})
    IN
    /\ ~a.deleted
    /\ (a.role \in Mobile /\ ~a.signedIn) =>
        /\ active = a.active
        /\ a.role = "representative" => profile \in {"keep", courier[u]}
    /\ profile # "keep" => role = "representative"
    /\ bumps > 0 => revoked[u] < MaxChanges
    /\ account' = [account EXCEPT ![u] =
        [a EXCEPT !.version = a.version + bumps, !.role = role, !.active = active]]
    /\ courier' = [courier EXCEPT ![u] = IF role # "representative" THEN "none"
                                         ELSE IF profile = "keep" THEN @ ELSE profile]
    /\ tokens' = IF revokesClient THEN Blacklisted(u) ELSE tokens
    /\ revoked' = IF bumps = 0 THEN revoked ELSE [revoked EXCEPT ![u] = @ + 1]
    /\ UNCHANGED <<now, code, job, raced, left>>

\* The client's own permanent deletion, after its password or social identity was checked
\* again: the row is locked and looked at once more.
DeleteAccount(i) ==
    LET u == tokens[i].user
        a == account[u]
    IN
    /\ Authenticates(tokens[i])
    /\ a.role = "client" /\ ~a.deleted /\ revoked[u] < MaxChanges
    /\ account' = [account EXCEPT ![u] =
        [a EXCEPT !.version = a.version + 1, !.active = FALSE, !.deleted = TRUE]]
    /\ code' = [code EXCEPT ![u] = FALSE]
    /\ tokens' = Blacklisted(u)
    /\ revoked' = [revoked EXCEPT ![u] = @ + 1]
    /\ UNCHANGED <<now, courier, job, raced, left>>

Tick ==
    /\ now < MaxTime /\ now' = now + 1
    /\ UNCHANGED <<account, courier, tokens, code, job, revoked, raced, left>>

-----------------------------------------------------------------------------
RequestNext(q) ==
    \/ \E u \in Users, mode \in Modes : LoginCheck(q, u, mode)
    \/ LoginIssue(q)
    \/ \E i \in DOMAIN tokens : RefreshCheck(q, i)
    \/ RefreshVerify(q) \/ RefreshRotate(q)
    \/ \E u \in Users : ResetCheck(q, u)
    \/ ResetCommit(q)

\* Couriers and clients may be turned into each other.
RoleChoices(u) == IF account[u].role \in Mobile THEN Mobile ELSE {"admin"}

LockedNext ==
    \/ \E i \in DOMAIN tokens : Logout(i) \/ DeleteAccount(i)
    \/ \E u \in Users : ForgotPassword(u)
    \/ \E u \in Users, active \in BOOLEAN, password \in BOOLEAN,
          profile \in {"keep", "on", "off"} :
        \E role \in RoleChoices(u) : AdminPatch(u, role, active, password, profile)
    \/ Tick

Next == LockedNext \/ \E q \in Requests : RequestNext(q)

Spec == Init /\ [][Next]_vars

-----------------------------------------------------------------------------
\* Requests are alike: no property tells one from another.
Symmetry == Permutations(Requests)

Live(t) == Authenticates(t) \/ Refreshable(t)

\* A token that is accepted comes from a login whose credential was checked after the
\* last revocation of its account, however logins, refreshes, resets, deactivations and
\* reactivations overlapped (accounts/deactivation.py revoke_user_sessions).
RevokedStaysOut ==
    \A i \in DOMAIN tokens : Live(tokens[i]) => tokens[i].epoch = revoked[tokens[i].user]

\* No chain of refreshes carries a temporary session, a legacy one or a dashboard login
\* past the lifetime counted from the login that opened it (accounts/client_sessions.py).
AbsoluteEnd ==
    \A i \in DOMAIN tokens :
        LET t == tokens[i]
            first == tokens[t.root]
            life == IF first.mode = "adminRemember" THEN RememberLife ELSE TempLife
        IN (Live(t) /\ first.mode \notin {"persistent", "plain"}) =>
                now < first.started + life

\* A session has one refresh token that works, and none once it is logged out, unless
\* requests raced: rotation reads the blacklist and writes it in two steps.
OneLine ==
    \A root \in DOMAIN tokens \ raced :
        LET usable == {i \in DOMAIN tokens : tokens[i].root = root /\ Refreshable(tokens[i])}
        IN /\ \A i, k \in usable : i = k
           /\ root \in left => usable = {}
=============================================================================
