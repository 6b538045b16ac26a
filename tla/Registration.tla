---------------------------- MODULE Registration ----------------------------
(***************************************************************************)
(* How an e-mail address becomes an account: sign-up with a code mailed to *)
(* it, the resend cooldown, sign-up with a social identity, accounts an    *)
(* administrator creates, and the hourly cleanup (accounts/views.py,       *)
(* services.py, tasks.py).                                                 *)
(*                                                                         *)
(* Three tables meet without constraints between them: PendingRegistration *)
(* (one row per address, username and phone unique), OTPCooldown (one row  *)
(* per address, which outlives the registration) and User.  A view is one  *)
(* transaction and locks the rows it finds; what it does not find may      *)
(* still be inserted before it saves (a sign-up that locked some row is one *)
(* step all the same).  The cleanup reads addresses first and deletes in a *)
(* later transaction.  Time is kept as what is left of each period, so the *)
(* model needs no clock.                                                   *)
(***************************************************************************)
EXTENDS Integers, Sequences, FiniteSets

CONSTANTS
    Emails, Uids,       \* addresses; Firebase identities
    Names,              \* usernames and phones: one value stands for both of a person
    Requests,           \* sign-ups that may be in progress at once
    None, Idle,
    MaxAttempts,        \* OTP_MAX_ATTEMPTS
    Durations,          \* OTP_COOLDOWN_DURATIONS
    CodeLife,           \* AUTH_OTP_EXPIRY_SECONDS
    Retention           \* AUTH_UNVERIFIED_USER_RETENTION_HOURS

ASSUME RegistrationConstants ==
    /\ MaxAttempts \in Nat \ {0} /\ CodeLife \in Nat \ {0} /\ Retention \in Nat \ {0}
    /\ Durations \in Seq(Nat \ {0}) /\ Len(Durations) > 0
    /\ \A k \in DOMAIN Durations : Durations[k] <= Retention

VARIABLES
    pending,    \* pending[e]: the PendingRegistration row of address e
    cooldown,   \* cooldown[e]: its OTPCooldown row
    accounts,   \* User rows with their social identities
    begun,      \* begun[q]: sign-up that found no matching row and is about to insert
    sweep,      \* addresses the cleanup has read as stale, or Idle
    quiet,      \* ghost, quiet[e]: time left in which no further code is due to e
    swept       \* ghost: addresses refreshed between the two steps of the cleanup

vars == <<pending, cooldown, accounts, begun, sweep, quiet, swept>>

\* mail: address the live code was sent to; left: time until it expires; age: since
\* updated_at, kept up to Retention; wrong: ghost, the wrong guesses made at that code.
Registration == [name: Names \cup {None}, uid: Uids \cup {None}, mail: Emails \cup {None},
                 left: 0..CodeLife, attempts: 0..MaxAttempts, age: 0..Retention,
                 wrong: 0..MaxAttempts]
Periods == 0..Retention
Cooldown == [level: 0..(Len(Durations) - 1), left: Periods, since: 0..CodeLife]
ASSUME NoneIsNoRow == None \notin Registration \cup Cooldown \cup Uids

\* via: the address of the code that proved the account's, or "trusted": a social provider
\* or an administrator vouched for it
Account == [email: Emails, name: Names \cup {None}, uids: SUBSET Uids,
            via: Emails \cup {"trusted"}]

TypeOK ==
    /\ pending \in [Emails -> Registration \cup {None}]
    /\ cooldown \in [Emails -> Cooldown \cup {None}]
    /\ accounts \subseteq Account
    /\ begun \in [Requests -> {Idle} \cup [email: Emails, name: Names]]
    /\ sweep \in {Idle} \cup SUBSET Emails
    /\ quiet \in [Emails -> Periods] /\ swept \subseteq Emails

Init ==
    /\ pending = [e \in Emails |-> None] /\ cooldown = [e \in Emails |-> None]
    /\ accounts = {} /\ begun = [q \in Requests |-> Idle] /\ sweep = Idle
    /\ quiet = [e \in Emails |-> 0] /\ swept = {}

-----------------------------------------------------------------------------
Waiting == {e \in Emails : pending[e] # None}

\* A deferred profile has a generated username and no phone: None matches nothing.
Same(n, name) == n # None /\ n = name
TakenByAccount(e, n) == \E a \in accounts : a.email = e \/ Same(n, a.name)
Linked(f) == \E a \in accounts : f \in a.uids

\* Addresses of the registrations that use this address, name or identity.
Matches(e, n) == {o \in Waiting : o = e \/ Same(n, pending[o].name)}

\* The duration of the cooldown a code sent now starts; it begins again at the first
\* when the last code is older than a code lives.
NextLevel(c) ==
    IF c = None \/ (c.left = 0 /\ c.since >= CodeLife) THEN 0 ELSE c.level

CooldownUnstarted(c) == [level |-> 0, left |-> 0, since |-> 0]     \* mutant

CooldownUncapped(c) ==     \* mutant: the level grows past the last duration
    [level |-> NextLevel(c) + 1, left |-> Durations[NextLevel(c) + 1], since |-> 0]

CooldownAfter(c) ==
    LET level == NextLevel(c) IN
    [level |-> IF level + 1 < Len(Durations) THEN level + 1 ELSE level,
     left |-> Durations[level + 1], since |-> 0]

MaySend(c) == c # None => c.left = 0

Without(table, gone) == [e \in Emails |-> IF e \in gone THEN None ELSE table[e]]
Hushed(gone) == [e \in Emails |-> IF e \in gone THEN 0 ELSE quiet[e]]

\* The registration r of address e is saved, those of gone removed, with the cooldowns of
\* cleared; then issue_registration_otp: a new code unless the cooldown of e forbids it,
\* when the caller answers 429 and its transaction commits.
Issue(gone, cleared, e, r) ==
    LET rows == Without(pending, gone)
        cools == Without(cooldown, cleared)
    IN
    IF MaySend(cools[e])
    THEN /\ pending' = [rows EXCEPT ![e] = [r EXCEPT !.mail = e, !.left = CodeLife,
                                                     !.attempts = 0, !.age = 0, !.wrong = 0]]
         /\ cooldown' = [cools EXCEPT ![e] = CooldownAfter(@)]
         /\ quiet' = [Hushed(cleared) EXCEPT ![e] = Durations[NextLevel(cools[e]) + 1]]
    ELSE /\ pending' = [rows EXCEPT ![e] = r]
         /\ cooldown' = cools /\ quiet' = Hushed(cleared)

NewRow(n, f) == [name |-> n, uid |-> f, mail |-> None, left |-> 0, attempts |-> 0, age |-> 0,
                 wrong |-> 0]

\* Mutant: signing up again forgives the guesses made against the code still valid.
DetailsForgiving(r, n, f) == [r EXCEPT !.name = n, !.uid = f, !.age = 0, !.attempts = 0]

Details(r, n, f) == [r EXCEPT !.name = n, !.uid = f, !.age = 0]

-----------------------------------------------------------------------------
(* Sign-up by e-mail.                                                      *)

\* Some registration matches and is locked: that of e is rewritten, the code it has
\* stays, and others with the same name are removed with their cooldowns.
Register(e, n) ==
    /\ ~TakenByAccount(e, n) /\ Matches(e, n) # {}
    /\ LET others == Matches(e, n) \ {e}
           row == IF e \in Waiting THEN Details(pending[e], n, None) ELSE NewRow(n, None)
       IN Issue(others, others, e, row)
    /\ UNCHANGED <<accounts, begun, sweep, swept>>

RegisterBegin(q, e, n) ==
    /\ begun[q] = Idle
    /\ ~TakenByAccount(e, n) /\ Matches(e, n) = {}
    /\ begun' = [begun EXCEPT ![q] = [email |-> e, name |-> n]]
    /\ UNCHANGED <<pending, cooldown, accounts, sweep, quiet, swept>>

\* The insert; on a unique violation the registration that came first keeps its details
\* and is sent the code, unless an account has them or it has another address.
RegisterSave(q) ==
    /\ begun[q] # Idle
    /\ LET e == begun[q].email
           n == begun[q].name
       IN IF Matches(e, n) = {} THEN Issue({}, {}, e, NewRow(n, None))
          ELSE IF e \in Waiting /\ ~TakenByAccount(e, n)
          THEN Issue({}, {}, e, pending[e])
          ELSE UNCHANGED <<pending, cooldown, quiet>>
    /\ begun' = [begun EXCEPT ![q] = Idle]
    /\ UNCHANGED <<accounts, sweep, swept>>

Resend(e) ==
    /\ e \in Waiting /\ MaySend(cooldown[e])
    /\ Issue({}, {}, e, pending[e])
    /\ UNCHANGED <<accounts, begun, sweep, swept>>

\* A wrong code, or any code where there is none to compare: the code goes when it is
\* old or guessed too often, and every save renews updated_at.
VerifyWrong(e) ==
    /\ e \in Waiting /\ pending[e].mail # None
    /\ LET r == pending[e]
           spent == r.left = 0 \/ r.attempts + 1 >= MaxAttempts
           counted == IF r.left = 0 THEN 0 ELSE 1
       IN pending' = [pending EXCEPT ![e] =
            [r EXCEPT !.mail = IF spent THEN None ELSE @, !.age = 0,
                      !.attempts = @ + counted,
                      !.wrong = IF spent THEN 0 ELSE @ + 1]]
    /\ UNCHANGED <<cooldown, accounts, begun, sweep, quiet, swept>>

\* The right code: the account with the registration's details, or, when an account has
\* them by now, a 409 that leaves everything as it was.
VerifyRight(e) ==
    /\ e \in Waiting /\ pending[e].mail # None /\ pending[e].left > 0
    /\ LET r == pending[e]
           uids == IF r.uid = None THEN {} ELSE {r.uid}
       IN /\ ~TakenByAccount(e, r.name) /\ ~\E f \in uids : Linked(f)
          /\ accounts' = accounts \cup
                {[email |-> e, name |-> r.name, uids |-> uids, via |-> r.mail]}
    /\ pending' = Without(pending, {e})
    /\ cooldown' = Without(cooldown, {e})
    /\ quiet' = Hushed({e})
    /\ UNCHANGED <<begun, sweep, swept>>

-----------------------------------------------------------------------------
(* Sign-up with a social identity, and by an administrator.                *)

\* Mutant: the code of the previous address stays valid for the new one.
MovedKeepingCode(r, n, f) == Details(r, n, f)

\* "A code sent to the previous address cannot verify a new address."
Moved(r, n, f) ==
    [Details(r, n, f) EXCEPT !.mail = None, !.left = 0, !.attempts = 0, !.wrong = 0]

\* The provider did not verify the address: a registration of the identity or the
\* address is rewritten, and takes the address the person gave.
SocialSignup(f, e, n) ==
    LET found == {o \in Waiting : o = e \/ pending[o].uid = f}
        others == Matches(e, n) \cup found
    IN
    /\ ~Linked(f) /\ ~TakenByAccount(e, n)
    /\ Cardinality(others) <= 1 /\ others \subseteq found
    /\ IF found = {} THEN Issue({}, {}, e, NewRow(n, f))
       ELSE LET o == CHOOSE x \in found : TRUE
                row == IF o = e THEN Details(pending[o], n, f) ELSE Moved(pending[o], n, f)
            IN Issue(found, {}, e, row)
    /\ UNCHANGED <<accounts, begun, sweep, swept>>

\* The provider verified it: the account is made at once, with the person's details or,
\* from the session view, with a generated username and no phone.
SocialAccount(f, e, n) ==
    /\ ~Linked(f) /\ ~TakenByAccount(e, n)
    /\ accounts' = accounts \cup
            {[email |-> e, name |-> n, uids |-> {f}, via |-> "trusted"]}
    /\ UNCHANGED <<pending, cooldown, begun, sweep, quiet, swept>>

SocialSession(f, e) ==
    /\ ~Linked(f) /\ ~\E a \in accounts : a.email = e
    /\ accounts' = accounts \cup
            {[email |-> e, name |-> None, uids |-> {f}, via |-> "trusted"]}
    /\ UNCHANGED <<pending, cooldown, begun, sweep, quiet, swept>>

\* With the password of an account, an identity no other account has is linked to it.
SocialLink(f, a) ==
    /\ ~Linked(f)
    /\ accounts' = (accounts \ {a}) \cup {[a EXCEPT !.uids = @ \cup {f}]}
    /\ UNCHANGED <<pending, cooldown, begun, sweep, quiet, swept>>

AdminCreate(e, n) ==
    /\ ~TakenByAccount(e, n)
    /\ accounts' = accounts \cup {[email |-> e, name |-> n, uids |-> {}, via |-> "trusted"]}
    /\ pending' = Without(pending, Matches(e, n))
    /\ cooldown' = Without(cooldown, Matches(e, n))
    /\ quiet' = Hushed(Matches(e, n))
    /\ UNCHANGED <<begun, sweep, swept>>

-----------------------------------------------------------------------------
(* The hourly cleanup, and time.                                           *)

\* Mutant: only registrations without a code are stale.
StaleCodeless == {e \in Waiting : pending[e].age = Retention /\ pending[e].mail = None}

Stale == {e \in Waiting : pending[e].age = Retention}

CleanupRead ==
    /\ sweep = Idle
    /\ sweep' = Stale
    /\ UNCHANGED <<pending, cooldown, accounts, begun, quiet, swept>>

RemovedAsRead(read) == Waiting \cap read      \* mutant: the addresses read are deleted

\* The queryset is evaluated again by delete().
Removed(read) == Stale

CleanupDelete ==
    /\ sweep # Idle
    /\ pending' = Without(pending, Removed(sweep))
    /\ cooldown' = Without(cooldown, sweep)
    /\ swept' = swept \cup {e \in sweep : quiet[e] > 0}
    /\ sweep' = Idle
    /\ UNCHANGED <<accounts, begun, quiet>>

\* The worker dies, or the transaction fails: the next run starts from the beginning.
CleanupLost ==
    /\ sweep # Idle /\ sweep' = Idle
    /\ UNCHANGED <<pending, cooldown, accounts, begun, quiet, swept>>

Less(t) == IF t = 0 THEN 0 ELSE t - 1
More(t, limit) == IF t < limit THEN t + 1 ELSE limit

Tick ==
    /\ pending' = [e \in Emails |-> IF pending[e] = None THEN None ELSE
            [pending[e] EXCEPT !.left = Less(@), !.age = More(@, Retention)]]
    /\ cooldown' = [e \in Emails |-> IF cooldown[e] = None THEN None ELSE
            [cooldown[e] EXCEPT !.left = Less(@), !.since = More(@, CodeLife)]]
    /\ quiet' = [e \in Emails |-> Less(quiet[e])]
    /\ swept' = {e \in swept : quiet[e] > 1}
    /\ UNCHANGED <<accounts, begun, sweep>>

-----------------------------------------------------------------------------
SignUpNext ==
    \/ \E e \in Emails, n \in Names :
        \/ Register(e, n) \/ AdminCreate(e, n)
        \/ \E q \in Requests : RegisterBegin(q, e, n)
    \/ \E q \in Requests : RegisterSave(q)
    \/ \E e \in Emails :
        \/ Resend(e) \/ VerifyWrong(e) \/ VerifyRight(e)
        \/ \E f \in Uids : SocialSession(f, e)
        \/ \E f \in Uids, n \in Names \cup {None} :
            SocialSignup(f, e, n) \/ SocialAccount(f, e, n)
    \/ \E f \in Uids, a \in accounts : SocialLink(f, a)

Next == SignUpNext \/ CleanupRead \/ CleanupDelete \/ CleanupLost \/ Tick

\* Time passes, and Celery beat starts a cleanup again and again, of which not every one
\* is lost.
Fairness == WF_vars(Tick) /\ WF_vars(CleanupRead) /\ SF_vars(CleanupDelete)

Spec == Init /\ [][Next]_vars /\ Fairness

-----------------------------------------------------------------------------
\* Whoever has an account by code read that code at the account's own address, however
\* registrations of that person or name were rewritten before (accounts/views.py:690).
VerifiedAddress ==
    \A a \in accounts : a.via \in {a.email, "trusted"}

\* While a code was just sent to an address, its cooldown row says so, whatever removed
\* or moved registrations meanwhile; only a registration refreshed between the two steps
\* of the cleanup loses it (accounts/tasks.py:178).
CooldownKept ==
    \A e \in Emails : (quiet[e] > 0 /\ e \notin swept) =>
        cooldown[e] # None /\ cooldown[e].left >= quiet[e]

\* A code that is still accepted was guessed wrong fewer than OTP_MAX_ATTEMPTS times,
\* over every sign-up that rewrote its registration (accounts/services.py:14).
GuessesBounded ==
    \A e \in Waiting : pending[e].mail # None => pending[e].wrong < MaxAttempts

\* What may take the place of the registration of e: an account made now for its address or
\* name, or a registration of another address for its name or identity.
Replaced(e) ==
    \/ \E a \in accounts' \ accounts : a.email = e \/ Same(pending[e].name, a.name)
    \/ \E o \in Waiting' :
          Same(pending[e].name, pending'[o].name) \/ Same(pending[e].uid, pending'[o].uid)

LosesNone == \A e \in Waiting \ Stale : pending'[e] # None \/ Replaced(e)

\* Sign-ups that rewrite, move and remove rows, and a cleanup that deletes in a later
\* transaction than it reads in, lose no registration that is in date: it goes only when
\* something takes its place (accounts/views.py:233, accounts/tasks.py:187).
NoneLost == [][LosesNone]_vars

Refreshed(e) == e \in Waiting /\ pending'[e] # None /\ pending'[e].age = 0

\* A registration nobody renews or finishes any more is removed in the end.
AbandonedIsRemoved ==
    \A e \in Emails : []<>(pending[e] = None) \/ []<><<Refreshed(e)>>_vars
=============================================================================
