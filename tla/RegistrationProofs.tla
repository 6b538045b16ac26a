------------------------- MODULE RegistrationProofs -------------------------
(***************************************************************************)
(* Theorems about Registration, for any addresses, names, identities,      *)
(* cooldown durations and number of guesses.                               *)
(***************************************************************************)
EXTENDS Registration, TLAPS

\* A registration of address e: its live code was sent to e, and what was guessed at it is
\* counted.
Sound(e, r) ==
    /\ r \in Registration /\ r.mail \in {None, e}
    /\ r.mail # None => r.wrong <= r.attempts /\ r.attempts < MaxAttempts

RowsSound == \A e \in Emails : pending[e] # None => Sound(e, pending[e])

Inv == TypeOK /\ RowsSound /\ VerifiedAddress /\ CooldownKept

-----------------------------------------------------------------------------
LEMMA CooldownTypes ==
    ASSUME RegistrationConstants, NEW c \in Cooldown \cup {None}
    PROVE  /\ CooldownAfter(c) \in Cooldown
           /\ Durations[NextLevel(c) + 1] \in Periods
           /\ CooldownAfter(c).left = Durations[NextLevel(c) + 1]
<1>1. NextLevel(c) \in 0..(Len(Durations) - 1)
    BY DEF RegistrationConstants, NextLevel, Cooldown
<1>2. Len(Durations) \in Nat /\ NextLevel(c) + 1 \in DOMAIN Durations
    BY <1>1 DEF RegistrationConstants
<1>3. Durations[NextLevel(c) + 1] \in Periods
    BY <1>2 DEF RegistrationConstants, Periods
<1>. QED
    BY <1>1, <1>2, <1>3 DEF CooldownAfter, Cooldown, RegistrationConstants

\* What the endpoints save in a row that was sound: the person's new details, ...
LEMMA DetailsSound ==
    ASSUME RegistrationConstants, NEW e \in Emails, NEW r, Sound(e, r),
           NEW n \in Names \cup {None}, NEW f \in Uids \cup {None}
    PROVE  Sound(e, Details(r, n, f))
<1>1. r \in Registration /\ 0 \in 0..Retention
    BY DEF Sound, RegistrationConstants
<1>2. Details(r, n, f) \in Registration
    BY <1>1 DEF Details, Registration
<1>3. Details(r, n, f).mail = r.mail
    BY <1>1 DEF Details, Registration
<1>4. Details(r, n, f).attempts = r.attempts /\ Details(r, n, f).wrong = r.wrong
    BY <1>1 DEF Details, Registration
<1>. QED
    BY <1>2, <1>3, <1>4 DEF Sound

\* ... another address, without the code, ...
LEMMA MovedSound ==
    ASSUME RegistrationConstants, NEW e \in Emails, NEW r, Sound(e, r),
           NEW n \in Names \cup {None}, NEW f \in Uids \cup {None}, NEW o \in Emails
    PROVE  Sound(o, Moved(r, n, f))
<1>. DEFINE d == Details(r, n, f)
<1>1. d \in Registration /\ 0 \in 0..MaxAttempts /\ 0 \in 0..CodeLife
    BY DetailsSound DEF Sound, RegistrationConstants
<1>. HIDE DEF d
<1>2. [d EXCEPT !.mail = None, !.left = 0, !.attempts = 0, !.wrong = 0] \in Registration
    BY <1>1 DEF Registration
<1>3. [d EXCEPT !.mail = None, !.left = 0, !.attempts = 0, !.wrong = 0].mail = None
    BY <1>1 DEF Registration
<1>. QED
    BY <1>2, <1>3 DEF Sound, Moved, d

\* ... and a new code.
Sent(r, e) ==
    [r EXCEPT !.mail = e, !.left = CodeLife, !.attempts = 0, !.age = 0, !.wrong = 0]

LEMMA SentSound ==
    ASSUME RegistrationConstants, NEW e \in Emails, NEW r, Sound(e, r)
    PROVE  Sound(e, Sent(r, e))
<1>1. /\ r \in Registration /\ 0 \in 0..MaxAttempts /\ 0 < MaxAttempts
      /\ CodeLife \in 0..CodeLife /\ 0 \in 0..Retention
    BY DEF Sound, RegistrationConstants
<1>2. Sent(r, e) \in Registration
    BY <1>1 DEF Sent, Registration
<1>3. Sent(r, e).mail = e
    BY <1>1 DEF Sent, Registration
<1>4. Sent(r, e).attempts = 0
    BY <1>1 DEF Sent, Registration
<1>5. Sent(r, e).wrong = 0
    BY <1>1 DEF Sent, Registration
<1>. QED
    BY <1>1, <1>2, <1>3, <1>4, <1>5 DEF Sound

\* What they insert.
LEMMA NewRowSound ==
    ASSUME RegistrationConstants, NEW e \in Emails, NEW n \in Names \cup {None},
           NEW f \in Uids \cup {None}
    PROVE  Sound(e, NewRow(n, f))
BY DEF RegistrationConstants, Sound, Registration, NewRow

\* Removing rows with their cooldowns.
LEMMA WithoutKeeps ==
    ASSUME Inv, NEW gone \in SUBSET Emails, NEW cleared \in SUBSET Emails
    PROVE  /\ Without(pending, gone) \in [Emails -> Registration \cup {None}]
           /\ Without(cooldown, cleared) \in [Emails -> Cooldown \cup {None}]
           /\ Hushed(cleared) \in [Emails -> Periods]
           /\ \A e \in Emails : Without(pending, gone)[e] # None
                => Sound(e, Without(pending, gone)[e])
           /\ \A e \in Emails : (Hushed(cleared)[e] > 0 /\ e \notin swept)
                => /\ Without(cooldown, cleared)[e] # None
                   /\ Without(cooldown, cleared)[e].left >= Hushed(cleared)[e]
<1>1. 0 \in Periods /\ Periods \subseteq Int
    BY RegistrationConstants DEF RegistrationConstants, Periods
<1>. QED
    BY <1>1 DEF Inv, TypeOK, RowsSound, CooldownKept, Without, Hushed

\* A registration is saved, and a code issued if the cooldown allows it.
LEMMA IssueKeeps ==
    ASSUME RegistrationConstants, Inv, NEW gone \in SUBSET Emails,
           NEW cleared \in SUBSET Emails, NEW e \in Emails, NEW r, Sound(e, r),
           Issue(gone, cleared, e, r), swept' = swept
    PROVE  /\ pending' \in [Emails -> Registration \cup {None}]
           /\ cooldown' \in [Emails -> Cooldown \cup {None}]
           /\ quiet' \in [Emails -> Periods]
           /\ RowsSound' /\ CooldownKept'
<1>. DEFINE rows == Without(pending, gone)
            cools == Without(cooldown, cleared)
            sent == Sent(r, e)
            period == Durations[NextLevel(cools[e]) + 1]
<1>1. /\ rows \in [Emails -> Registration \cup {None}]
      /\ cools \in [Emails -> Cooldown \cup {None}]
      /\ Hushed(cleared) \in [Emails -> Periods]
      /\ \A o \in Emails : rows[o] # None => Sound(o, rows[o])
      /\ \A o \in Emails : (Hushed(cleared)[o] > 0 /\ o \notin swept)
            => cools[o] # None /\ cools[o].left >= Hushed(cleared)[o]
    BY WithoutKeeps
<1>2. Sound(e, sent) /\ sent \in Registration /\ r \in Registration
    <2>1. Sound(e, sent)
        BY SentSound
    <2>. QED
        BY <2>1 DEF Sound
<1>3. /\ CooldownAfter(cools[e]) \in Cooldown /\ period \in Periods
      /\ CooldownAfter(cools[e]).left = period
    BY <1>1, CooldownTypes
<1>. HIDE DEF rows, cools, sent, period
<1>4. CASE MaySend(cools[e])
    <2>1. /\ pending' = [rows EXCEPT ![e] = sent]
          /\ cooldown' = [cools EXCEPT ![e] = CooldownAfter(cools[e])]
          /\ quiet' = [Hushed(cleared) EXCEPT ![e] = period]
        BY <1>4 DEF Issue, rows, cools, sent, Sent, period
    <2>2. RowsSound'
        BY <1>1, <1>2, <2>1 DEF RowsSound
    <2>3. Periods \subseteq Int
        BY DEF Periods, RegistrationConstants
    <2>4. CooldownKept'
        BY <1>1, <1>3, <2>1, <2>3, NoneIsNoRow DEF CooldownKept
    <2>. QED
        BY <1>1, <1>2, <1>3, <2>1, <2>2, <2>4
<1>5. CASE ~MaySend(cools[e])
    <2>1. pending' = [rows EXCEPT ![e] = r] /\ cooldown' = cools /\ quiet' = Hushed(cleared)
        BY <1>5 DEF Issue, rows, cools
    <2>. QED
        BY <1>1, <1>2, <2>1 DEF RowsSound, CooldownKept
<1>. QED
    BY <1>4, <1>5

-----------------------------------------------------------------------------
LEMMA InitInv == RegistrationConstants /\ Init => Inv
BY DEF RegistrationConstants, Init, Inv, TypeOK, RowsSound, VerifiedAddress, CooldownKept,
       Periods

-----------------------------------------------------------------------------
(* The actions, one lemma each.                                            *)

LEMMA RegisterKeeps ==
    ASSUME RegistrationConstants, Inv, NEW e \in Emails, NEW n \in Names, Register(e, n)
    PROVE  Inv'
<1>. DEFINE others == Matches(e, n) \ {e}
            row == IF e \in Waiting THEN Details(pending[e], n, None) ELSE NewRow(n, None)
<1>1. others \in SUBSET Emails
    BY DEF Matches, Waiting
<1>2. Sound(e, row)
    <2>1. CASE e \in Waiting
        <3>1. Sound(e, pending[e])
            BY <2>1 DEF Waiting, Inv, RowsSound
        <3>. QED
            BY <2>1, <3>1, DetailsSound
    <2>2. CASE e \notin Waiting
        BY <2>2, NewRowSound
    <2>. QED
        BY <2>1, <2>2
<1>3. Issue(others, others, e, row) /\ UNCHANGED <<accounts, begun, sweep, swept>>
    BY DEF Register
<1>. HIDE DEF others, row
<1>4. /\ pending' \in [Emails -> Registration \cup {None}]
      /\ cooldown' \in [Emails -> Cooldown \cup {None}]
      /\ quiet' \in [Emails -> Periods]
      /\ RowsSound' /\ CooldownKept'
    BY <1>1, <1>2, <1>3, IssueKeeps
<1>. QED
    BY <1>3, <1>4 DEF Inv, TypeOK, VerifiedAddress

LEMMA RegisterBeginKeeps ==
    ASSUME Inv, NEW q \in Requests, NEW e \in Emails, NEW n \in Names,
           RegisterBegin(q, e, n)
    PROVE  Inv'
BY DEF Inv, TypeOK, RowsSound, VerifiedAddress, CooldownKept, RegisterBegin

LEMMA RegisterSaveKeeps ==
    ASSUME RegistrationConstants, Inv, NEW q \in Requests, RegisterSave(q)
    PROVE  Inv'
<1>. DEFINE e == begun[q].email
            n == begun[q].name
<1>1. e \in Emails /\ n \in Names
    BY DEF RegisterSave, Inv, TypeOK
<1>2. begun' = [begun EXCEPT ![q] = Idle] /\ UNCHANGED <<accounts, sweep, swept>>
    BY DEF RegisterSave
<1>3. /\ pending' \in [Emails -> Registration \cup {None}]
      /\ cooldown' \in [Emails -> Cooldown \cup {None}]
      /\ quiet' \in [Emails -> Periods]
      /\ RowsSound' /\ CooldownKept'
    <2>1. CASE Issue({}, {}, e, NewRow(n, None))
        <3>1. Sound(e, NewRow(n, None))
            BY <1>1, NewRowSound
        <3>. QED
            BY <1>1, <1>2, <2>1, <3>1, IssueKeeps
    <2>2. CASE e \in Waiting /\ Issue({}, {}, e, pending[e])
        <3>1. Sound(e, pending[e])
            BY <2>2 DEF Waiting, Inv, RowsSound
        <3>. QED
            BY <1>1, <1>2, <2>2, <3>1, IssueKeeps
    <2>3. CASE UNCHANGED <<pending, cooldown, quiet>>
        BY <1>2, <2>3 DEF Inv, TypeOK, RowsSound, CooldownKept
    <2>. QED
        BY <2>1, <2>2, <2>3 DEF RegisterSave
<1>. QED
    BY <1>2, <1>3 DEF Inv, TypeOK, VerifiedAddress

LEMMA ResendKeeps ==
    ASSUME RegistrationConstants, Inv, NEW e \in Emails, Resend(e)
    PROVE  Inv'
<1>1. Sound(e, pending[e])
    BY DEF Resend, Waiting, Inv, RowsSound
<1>2. Issue({}, {}, e, pending[e]) /\ UNCHANGED <<accounts, begun, sweep, swept>>
    BY DEF Resend
<1>3. /\ pending' \in [Emails -> Registration \cup {None}]
      /\ cooldown' \in [Emails -> Cooldown \cup {None}]
      /\ quiet' \in [Emails -> Periods]
      /\ RowsSound' /\ CooldownKept'
    BY <1>1, <1>2, IssueKeeps
<1>. QED
    BY <1>2, <1>3 DEF Inv, TypeOK, VerifiedAddress

LEMMA GuessSound ==
    ASSUME RegistrationConstants, Inv, NEW e \in Emails, VerifyWrong(e)
    PROVE  \E row : Sound(e, row) /\ pending' = [pending EXCEPT ![e] = row]
<1>. DEFINE r == pending[e]
            spent == r.left = 0 \/ r.attempts + 1 >= MaxAttempts
            counted == IF r.left = 0 THEN 0 ELSE 1
            mail == IF spent THEN None ELSE r.mail
            attempts == r.attempts + counted
            wrong == IF spent THEN 0 ELSE r.wrong + 1
            guessed == [r EXCEPT !.mail = mail, !.age = 0, !.attempts = attempts,
                                 !.wrong = wrong]
<1>1. Sound(e, r) /\ r \in Registration /\ r.mail # None
    BY DEF VerifyWrong, Waiting, Inv, RowsSound, Sound
<1>2. r.attempts \in Nat /\ r.wrong \in Nat /\ r.left \in Nat /\ MaxAttempts \in Nat
    BY <1>1 DEF Registration, RegistrationConstants
<1>3. r.wrong <= r.attempts /\ r.attempts < MaxAttempts
    BY <1>1 DEF Sound
<1>4. /\ attempts \in 0..MaxAttempts /\ wrong \in 0..MaxAttempts
      /\ ~spent => attempts < MaxAttempts /\ wrong <= attempts
    BY <1>2, <1>3
<1>5. mail \in Emails \cup {None} /\ mail \in {None, e} /\ 0 \in 0..Retention
      /\ (mail # None => ~spent)
    BY <1>1 DEF Registration, Sound, RegistrationConstants
<1>6. pending' = [pending EXCEPT ![e] = guessed]
    BY DEF VerifyWrong
<1>. HIDE DEF r, spent, mail, attempts, wrong
<1>7. guessed \in Registration
    BY <1>1, <1>4, <1>5 DEF Registration
<1>8. guessed.mail = mail /\ guessed.attempts = attempts
    BY <1>1 DEF Registration
<1>9. guessed.wrong = wrong
    BY <1>1 DEF Registration
<1>. HIDE DEF guessed
<1>10. Sound(e, guessed)
    BY <1>4, <1>5, <1>7, <1>8, <1>9 DEF Sound
<1>. QED
    BY <1>6, <1>10

LEMMA VerifyWrongKeeps ==
    ASSUME RegistrationConstants, Inv, NEW e \in Emails, VerifyWrong(e)
    PROVE  Inv'
<1>1. PICK row : Sound(e, row) /\ pending' = [pending EXCEPT ![e] = row]
    BY GuessSound
<1>2. row \in Registration /\ UNCHANGED <<cooldown, accounts, begun, sweep, quiet, swept>>
    BY <1>1 DEF VerifyWrong, Sound
<1>. QED
    BY <1>1, <1>2 DEF Inv, TypeOK, RowsSound, VerifiedAddress, CooldownKept

LEMMA VerifyRightKeeps ==
    ASSUME RegistrationConstants, Inv, NEW e \in Emails, VerifyRight(e)
    PROVE  Inv'
<1>. DEFINE r == pending[e]
            uids == IF r.uid = None THEN {} ELSE {r.uid}
            made == [email |-> e, name |-> r.name, uids |-> uids, via |-> r.mail]
<1>1. r \in Registration /\ r.mail = e
    BY DEF VerifyRight, Waiting, Inv, RowsSound, Sound
<1>2. made \in Account /\ made.via = made.email
    BY <1>1 DEF Registration, Account
<1>3. /\ accounts' = accounts \cup {made}
      /\ pending' = Without(pending, {e}) /\ cooldown' = Without(cooldown, {e})
      /\ quiet' = Hushed({e}) /\ UNCHANGED <<begun, sweep, swept>>
    BY DEF VerifyRight
<1>. HIDE DEF made
<1>4. accounts' \subseteq Account /\ VerifiedAddress'
    BY <1>2, <1>3 DEF Inv, TypeOK, VerifiedAddress
<1>. QED
    BY <1>3, <1>4, WithoutKeeps DEF Inv, TypeOK, RowsSound, CooldownKept

\* Accounts of social identities and of administrators are trusted.
LEMMA TrustedKeeps ==
    ASSUME Inv, NEW a \in Account, a.via = "trusted", accounts' = accounts \cup {a}
    PROVE  accounts' \subseteq Account /\ VerifiedAddress'
BY DEF Inv, TypeOK, VerifiedAddress

LEMMA SocialSignupKeeps ==
    ASSUME RegistrationConstants, Inv, NEW f \in Uids, NEW e \in Emails,
           NEW n \in Names \cup {None}, SocialSignup(f, e, n)
    PROVE  Inv'
<1>. DEFINE found == {o \in Waiting : o = e \/ pending[o].uid = f}
            o == CHOOSE x \in found : TRUE
            row == IF o = e THEN Details(pending[o], n, f) ELSE Moved(pending[o], n, f)
<1>1. UNCHANGED <<accounts, begun, sweep, swept>>
    BY DEF SocialSignup
<1>2. /\ pending' \in [Emails -> Registration \cup {None}]
      /\ cooldown' \in [Emails -> Cooldown \cup {None}]
      /\ quiet' \in [Emails -> Periods]
      /\ RowsSound' /\ CooldownKept'
    <2>1. CASE found = {}
        <3>1. Issue({}, {}, e, NewRow(n, f))
            BY <2>1 DEF SocialSignup
        <3>. QED
            BY <1>1, <3>1, NewRowSound, IssueKeeps
    <2>2. CASE found # {}
        <3>1. o \in found
            BY <2>2
        <3>2. o \in Emails /\ Sound(o, pending[o])
            BY <3>1 DEF Waiting, Inv, RowsSound
        <3>. HIDE DEF o
        <3>3. Sound(e, row)
            BY <3>2, DetailsSound, MovedSound
        <3>4. Issue(found, {}, e, row)
            BY <2>2 DEF SocialSignup, o
        <3>5. found \in SUBSET Emails
            BY DEF Waiting
        <3>. HIDE DEF found, row
        <3>. QED
            BY <1>1, <3>3, <3>4, <3>5, IssueKeeps
    <2>. QED
        BY <2>1, <2>2
<1>. QED
    BY <1>1, <1>2 DEF Inv, TypeOK, VerifiedAddress

LEMMA SocialAccountKeeps ==
    ASSUME Inv, NEW f \in Uids, NEW e \in Emails, NEW n \in Names \cup {None},
           SocialAccount(f, e, n) \/ SocialSession(f, e)
    PROVE  Inv'
<1>1. /\ UNCHANGED <<pending, cooldown, begun, sweep, quiet, swept>>
      /\ \E m \in Names \cup {None} :
            accounts' = accounts \cup
                {[email |-> e, name |-> m, uids |-> {f}, via |-> "trusted"]}
    BY DEF SocialAccount, SocialSession
<1>2. accounts' \subseteq Account /\ VerifiedAddress'
    BY <1>1, TrustedKeeps DEF Account
<1>. QED
    BY <1>1, <1>2 DEF Inv, TypeOK, RowsSound, CooldownKept

LEMMA SocialLinkKeeps ==
    ASSUME Inv, NEW f \in Uids, NEW a \in accounts, SocialLink(f, a)
    PROVE  Inv'
<1>. DEFINE linked == [a EXCEPT !.uids = a.uids \cup {f}]
<1>1. /\ accounts' = (accounts \ {a}) \cup {linked}
      /\ UNCHANGED <<pending, cooldown, begun, sweep, quiet, swept>>
    BY DEF SocialLink
<1>2. linked \in Account /\ linked.email = a.email /\ linked.via = a.via
    BY DEF Inv, TypeOK, Account
<1>. HIDE DEF linked
<1>3. accounts' \subseteq Account /\ VerifiedAddress'
    BY <1>1, <1>2 DEF Inv, TypeOK, VerifiedAddress
<1>. QED
    BY <1>1, <1>3 DEF Inv, TypeOK, RowsSound, CooldownKept

LEMMA AdminCreateKeeps ==
    ASSUME RegistrationConstants, Inv, NEW e \in Emails, NEW n \in Names, AdminCreate(e, n)
    PROVE  Inv'
<1>. DEFINE gone == Matches(e, n)
<1>1. /\ accounts' = accounts \cup
                {[email |-> e, name |-> n, uids |-> {}, via |-> "trusted"]}
      /\ pending' = Without(pending, gone) /\ cooldown' = Without(cooldown, gone)
      /\ quiet' = Hushed(gone) /\ UNCHANGED <<begun, sweep, swept>>
    BY DEF AdminCreate
<1>2. gone \in SUBSET Emails
    BY DEF Matches, Waiting
<1>3. accounts' \subseteq Account /\ VerifiedAddress'
    BY <1>1, TrustedKeeps DEF Account
<1>. HIDE DEF gone
<1>. QED
    BY <1>1, <1>2, <1>3, WithoutKeeps DEF Inv, TypeOK, RowsSound, CooldownKept

\* The second step of the cleanup forgets the cooldowns of the addresses it read: those
\* with time left are the ones it records.
LEMMA CleanupKeeps ==
    ASSUME RegistrationConstants, Inv, CleanupRead \/ CleanupDelete \/ CleanupLost
    PROVE  Inv'
<1>1. Stale \in SUBSET Emails
    BY DEF Stale, Waiting
<1>2. CASE CleanupRead \/ CleanupLost
    BY <1>1, <1>2 DEF Inv, TypeOK, RowsSound, VerifiedAddress, CooldownKept, CleanupRead,
                      CleanupLost
<1>3. CASE CleanupDelete
    <2>1. /\ pending' = Without(pending, Stale) /\ cooldown' = Without(cooldown, sweep)
          /\ swept' = swept \cup {e \in sweep : quiet[e] > 0} /\ sweep' = Idle
          /\ UNCHANGED <<accounts, begun, quiet>>
        BY <1>3 DEF CleanupDelete, Removed
    <2>2. sweep \in SUBSET Emails
        BY <1>3 DEF CleanupDelete, Inv, TypeOK
    <2>3. TypeOK' /\ RowsSound' /\ VerifiedAddress'
        BY <1>1, <2>1, <2>2, WithoutKeeps DEF Inv, TypeOK, RowsSound, VerifiedAddress
    <2>4. CooldownKept'
        BY <2>1, <2>2 DEF Inv, TypeOK, CooldownKept, Without
    <2>. QED
        BY <2>3, <2>4 DEF Inv
<1>. QED
    BY <1>2, <1>3

LEMMA LessThan ==
    ASSUME NEW t \in Nat
    PROVE  Less(t) \in Nat /\ Less(t) <= t /\ (Less(t) > 0 => t > 1 /\ Less(t) = t - 1)
BY DEF Less

LEMMA TickSound ==
    ASSUME RegistrationConstants, Inv, Tick, NEW e \in Emails, pending[e] # None
    PROVE  Sound(e, pending'[e])
<1>1. CodeLife \in Nat /\ Retention \in Nat
    BY DEF RegistrationConstants
<1>. DEFINE r == pending[e]
            later == [r EXCEPT !.left = Less(r.left), !.age = More(r.age, Retention)]
<1>2. r \in Registration /\ Sound(e, r)
    BY DEF Inv, RowsSound, Sound
<1>3. Less(r.left) \in 0..CodeLife /\ More(r.age, Retention) \in 0..Retention
    <2>1. r.left \in 0..CodeLife /\ r.age \in 0..Retention
        BY <1>2 DEF Registration
    <2>. HIDE DEF r
    <2>2. Less(r.left) \in 0..CodeLife
        BY <1>1, <2>1 DEF Less
    <2>3. More(r.age, Retention) \in 0..Retention
        BY <1>1, <2>1 DEF More
    <2>. QED
        BY <2>2, <2>3
<1>4. pending'[e] = later
    BY DEF Tick
<1>. HIDE DEF r
<1>5. later \in Registration
    BY <1>2, <1>3 DEF Registration
<1>6. later.mail = r.mail /\ later.attempts = r.attempts /\ later.wrong = r.wrong
    BY <1>2 DEF Registration
<1>. HIDE DEF later
<1>. QED
    BY <1>2, <1>4, <1>5, <1>6 DEF Sound

LEMMA TickKeeps ==
    ASSUME RegistrationConstants, Inv, Tick
    PROVE  Inv'
<1>1. Periods \subseteq Int /\ CodeLife \in Nat /\ Retention \in Nat
    BY DEF Periods, RegistrationConstants
<1>2. ASSUME NEW e \in Emails, pending[e] # None
      PROVE  Sound(e, pending'[e])
    BY <1>2, TickSound
<1>3. ASSUME NEW e \in Emails, cooldown[e] # None
      PROVE  cooldown'[e] \in Cooldown /\ cooldown'[e].left = Less(cooldown[e].left)
    <2>. DEFINE c == cooldown[e]
                later == [c EXCEPT !.left = Less(c.left), !.since = More(c.since, CodeLife)]
    <2>1. c \in Cooldown
        BY <1>3 DEF Inv, TypeOK
    <2>2. Less(c.left) \in Periods /\ More(c.since, CodeLife) \in 0..CodeLife
        <3>1. c.left \in 0..Retention /\ c.since \in 0..CodeLife
            BY <2>1 DEF Cooldown, Periods
        <3>. HIDE DEF c
        <3>2. Less(c.left) \in Periods
            BY <1>1, <3>1 DEF Less, Periods
        <3>3. More(c.since, CodeLife) \in 0..CodeLife
            BY <1>1, <3>1 DEF More
        <3>. QED
            BY <3>2, <3>3
    <2>3. cooldown'[e] = later
        BY <1>3 DEF Tick
    <2>. HIDE DEF c
    <2>4. later \in Cooldown /\ later.left = Less(c.left)
        BY <2>1, <2>2 DEF Cooldown
    <2>. QED
        BY <2>3, <2>4 DEF c
<1>4. \A e \in Emails : /\ pending[e] = None => pending'[e] = None
                        /\ cooldown[e] = None => cooldown'[e] = None
    BY DEF Tick
<1>5. pending' \in [Emails -> Registration \cup {None}] /\ RowsSound'
    <2>1. \A e \in Emails : pending'[e] # None => Sound(e, pending'[e])
        <3>. SUFFICES ASSUME NEW e \in Emails, pending'[e] # None
                      PROVE  Sound(e, pending'[e])
            OBVIOUS
        <3>1. pending[e] # None
            BY <1>4
        <3>. QED
            BY <1>2, <3>1
    <2>2. \A e \in Emails : pending'[e] \in Registration \cup {None}
        BY <2>1 DEF Sound
    <2>3. DOMAIN pending' = Emails /\ pending' = [e \in Emails |-> pending'[e]]
        BY DEF Tick
    <2>. QED
        BY <2>1, <2>2, <2>3 DEF RowsSound
<1>6. cooldown' \in [Emails -> Cooldown \cup {None}]
    <2>1. \A e \in Emails : cooldown'[e] \in Cooldown \cup {None}
        <3>. SUFFICES ASSUME NEW e \in Emails
                      PROVE  cooldown'[e] \in Cooldown \cup {None}
            OBVIOUS
        <3>1. CASE cooldown[e] = None
            BY <1>4, <3>1
        <3>2. CASE cooldown[e] # None
            BY <1>3, <3>2
        <3>. QED
            BY <3>1, <3>2
    <2>2. cooldown' = [e \in Emails |-> cooldown'[e]]
        BY DEF Tick
    <2>. QED
        BY <2>1, <2>2
<1>7. /\ quiet' = [e \in Emails |-> Less(quiet[e])]
      /\ swept' = {e \in swept : quiet[e] > 1}
      /\ UNCHANGED <<accounts, begun, sweep>>
    BY DEF Tick
<1>8. \A e \in Emails : quiet[e] \in Periods /\ Less(quiet[e]) \in Periods
    BY DEF Inv, TypeOK, Periods, Less, RegistrationConstants
<1>9. CooldownKept'
    <2>. SUFFICES ASSUME NEW e \in Emails, quiet'[e] > 0, e \notin swept'
                  PROVE  cooldown'[e] # None /\ cooldown'[e].left >= quiet'[e]
        BY DEF CooldownKept
    <2>1. quiet[e] > 1 /\ quiet'[e] = quiet[e] - 1
        <3>1. quiet[e] \in Nat /\ quiet'[e] = Less(quiet[e])
            BY <1>1, <1>7, <1>8 DEF Periods
        <3>. QED
            BY <3>1, LessThan
    <2>2. e \notin swept
        BY <1>7, <2>1
    <2>3. cooldown[e] # None /\ cooldown[e].left >= quiet[e]
        <3>1. quiet[e] \in Nat
            BY <1>1, <1>8 DEF Periods
        <3>2. quiet[e] > 0
            BY <2>1, <3>1
        <3>. QED
            BY <2>2, <3>2 DEF Inv, CooldownKept
    <2>4. cooldown[e].left \in Int /\ quiet[e] \in Int
        BY <1>1, <1>8, <2>3 DEF Inv, TypeOK, Cooldown
    <2>5. cooldown'[e].left = cooldown[e].left - 1 /\ cooldown'[e] # None
        BY <1>3, <2>1, <2>3, <2>4, NoneIsNoRow DEF Less
    <2>. QED
        BY <2>1, <2>3, <2>4, <2>5
<1>. QED
    BY <1>5, <1>6, <1>7, <1>8, <1>9 DEF Inv, TypeOK, VerifiedAddress

-----------------------------------------------------------------------------
LEMMA StepInv ==
    ASSUME RegistrationConstants, Inv, [Next]_vars
    PROVE  Inv'
<1>1. CASE UNCHANGED vars
    BY <1>1 DEF vars, Inv, TypeOK, RowsSound, VerifiedAddress, CooldownKept
<1>2. CASE SignUpNext
    BY <1>2, RegisterKeeps, RegisterBeginKeeps, RegisterSaveKeeps, ResendKeeps,
       VerifyWrongKeeps, VerifyRightKeeps, SocialSignupKeeps, SocialAccountKeeps,
       SocialLinkKeeps, AdminCreateKeeps
       DEF SignUpNext
<1>3. CASE CleanupRead \/ CleanupDelete \/ CleanupLost
    BY <1>3, CleanupKeeps
<1>4. CASE Tick
    BY <1>4, TickKeeps
<1>. QED
    BY <1>1, <1>2, <1>3, <1>4 DEF Next

LEMMA Invariance == Spec => []Inv
<1>1. Init => Inv
    BY InitInv, RegistrationConstants
<1>2. Inv /\ [Next]_vars => Inv'
    BY StepInv, RegistrationConstants
<1>. QED
    BY <1>1, <1>2, PTL DEF Spec

\* Every row has the form the tables give it.
THEOREM TypeCorrect == Spec => []TypeOK
<1>1. Inv => TypeOK
    BY DEF Inv
<1>. QED
    BY <1>1, Invariance, PTL

\* An account made with a code has the address the code was mailed to
\* (accounts/views.py:690).
THEOREM AddressProved == Spec => []VerifiedAddress
<1>1. Inv => VerifiedAddress
    BY DEF Inv
<1>. QED
    BY <1>1, Invariance, PTL

\* No code is mailed to an address before the time announced with the last one, but for
\* registrations refreshed between the two steps of the cleanup (accounts/tasks.py:178).
THEOREM CooldownHolds == Spec => []CooldownKept
<1>1. Inv => CooldownKept
    BY DEF Inv
<1>. QED
    BY <1>1, Invariance, PTL

\* A live code has been guessed fewer than OTP_MAX_ATTEMPTS times (accounts/services.py:14).
THEOREM GuessesHold == Spec => []GuessesBounded
<1>1. Inv => GuessesBounded
    <2>. SUFFICES ASSUME Inv, NEW e \in Waiting, pending[e].mail # None
                  PROVE  pending[e].wrong < MaxAttempts
        BY DEF GuessesBounded
    <2>1. e \in Emails /\ Sound(e, pending[e])
        BY DEF Waiting, Inv, RowsSound
    <2>2. pending[e].wrong \in Nat /\ pending[e].attempts \in Nat /\ MaxAttempts \in Nat
        BY <2>1, RegistrationConstants DEF Sound, Registration, RegistrationConstants
    <2>. QED
        BY <2>1, <2>2 DEF Sound
<1>. QED
    BY <1>1, Invariance, PTL

-----------------------------------------------------------------------------
(* What becomes of the registrations in date.                              *)

Lost(o) == o \in Emails /\ pending[o] # None /\ pending'[o] = None /\ ~Replaced(o)

LEMMA SoundIsRow ==
    ASSUME NEW e, NEW r, Sound(e, r)
    PROVE  r \in Registration /\ r # None
BY NoneIsNoRow DEF Sound

\* A registration is saved over others: those of its name or its identity are not lost.
LEMMA IssueReplaces ==
    ASSUME RegistrationConstants, NEW gone \in SUBSET Emails, NEW cleared \in SUBSET Emails,
           NEW e \in Emails, NEW r, Sound(e, r), Issue(gone, cleared, e, r), NEW o, Lost(o)
    PROVE  o \in gone \ {e} /\ ~Same(pending[o].name, r.name) /\ ~Same(pending[o].uid, r.uid)
<1>1. PICK row : /\ Sound(e, row) /\ row.name = r.name /\ row.uid = r.uid
                 /\ pending' = [Without(pending, gone) EXCEPT ![e] = row]
    <2>1. Sound(e, Sent(r, e)) /\ r \in Registration
        BY SentSound, SoundIsRow
    <2>2. Sent(r, e).name = r.name
        BY <2>1 DEF Sent, Registration
    <2>3. Sent(r, e).uid = r.uid
        BY <2>1 DEF Sent, Registration
    <2>4. \/ pending' = [Without(pending, gone) EXCEPT ![e] = Sent(r, e)]
          \/ pending' = [Without(pending, gone) EXCEPT ![e] = r]
        BY DEF Issue, Sent
    <2>. QED
        BY <2>1, <2>2, <2>3, <2>4
<1>2. pending'[e] = row /\ row # None
    BY <1>1, SoundIsRow DEF Without
<1>3. e \in Waiting'
    BY <1>2 DEF Waiting
<1>4. o # e /\ o \in Emails /\ pending[o] # None /\ pending'[o] = None
    BY <1>2 DEF Lost
<1>5. pending'[o] = IF o \in gone THEN None ELSE pending[o]
    BY <1>1, <1>4 DEF Without
<1>. QED
    BY <1>1, <1>2, <1>3, <1>4, <1>5 DEF Lost, Replaced

LEMMA RegisterLoses ==
    ASSUME RegistrationConstants, Inv, NEW e \in Emails, NEW n \in Names, Register(e, n),
           NEW o, Lost(o)
    PROVE  FALSE
<1>. DEFINE others == Matches(e, n) \ {e}
            row == IF e \in Waiting THEN Details(pending[e], n, None) ELSE NewRow(n, None)
<1>1. others \in SUBSET Emails /\ Issue(others, others, e, row)
    BY DEF Matches, Waiting, Register
<1>2. Sound(e, row) /\ row.name = n
    <2>1. CASE e \in Waiting
        <3>1. Sound(e, pending[e])
            BY <2>1 DEF Waiting, Inv, RowsSound
        <3>2. Details(pending[e], n, None).name = n
            BY <3>1, SoundIsRow DEF Details, Registration
        <3>. QED
            BY <2>1, <3>1, <3>2, DetailsSound
    <2>2. CASE e \notin Waiting
        BY <2>2, NewRowSound DEF NewRow
    <2>. QED
        BY <2>1, <2>2
<1>. HIDE DEF row
<1>3. o \in others /\ ~Same(pending[o].name, n)
    BY <1>1, <1>2, IssueReplaces
<1>. QED
    BY <1>3 DEF Matches, Same

LEMMA SocialSignupLoses ==
    ASSUME RegistrationConstants, Inv, NEW f \in Uids, NEW e \in Emails,
           NEW n \in Names \cup {None}, SocialSignup(f, e, n), NEW o, Lost(o)
    PROVE  FALSE
<1>. DEFINE found == {x \in Waiting : x = e \/ pending[x].uid = f}
            x == CHOOSE x \in found : TRUE
            row == IF x = e THEN Details(pending[x], n, f) ELSE Moved(pending[x], n, f)
<1>1. CASE found = {}
    <2>1. Issue({}, {}, e, NewRow(n, f)) /\ Sound(e, NewRow(n, f))
        BY <1>1, NewRowSound DEF SocialSignup
    <2>. QED
        BY <2>1, IssueReplaces
<1>2. CASE found # {}
    <2>1. Issue(found, {}, e, row) /\ x \in found /\ found \in SUBSET Emails
        BY <1>2 DEF SocialSignup, Waiting
    <2>2. x \in Emails /\ Sound(x, pending[x])
        BY <2>1 DEF Waiting, Inv, RowsSound
    <2>. HIDE DEF x
    <2>3. Sound(e, row)
        BY <2>2, DetailsSound, MovedSound
    <2>4. row.uid = f
        BY <2>2, SoundIsRow DEF Details, Moved, Registration
    <2>. HIDE DEF row
    <2>5. o \in found \ {e} /\ ~Same(pending[o].uid, f)
        BY <2>1, <2>3, <2>4, IssueReplaces
    <2>. QED
        BY <2>5, NoneIsNoRow DEF Same
<1>. QED
    BY <1>1, <1>2

LEMMA SavedLoses ==
    ASSUME RegistrationConstants, Inv, NEW o, Lost(o),
           (\E q \in Requests : RegisterSave(q)) \/ \E e \in Emails : Resend(e)
    PROVE  FALSE
<1>1. pending' # pending
    BY DEF Lost
<1>2. PICK e \in Emails, r \in Registration : Issue({}, {}, e, r) /\ Sound(e, r)
    <2>1. ASSUME NEW q \in Requests, RegisterSave(q)
          PROVE  \E e \in Emails, r \in Registration : Issue({}, {}, e, r) /\ Sound(e, r)
        <3>1. begun[q].email \in Emails /\ begun[q].name \in Names
            BY <2>1 DEF RegisterSave, Inv, TypeOK
        <3>2. \/ Issue({}, {}, begun[q].email, NewRow(begun[q].name, None))
              \/ /\ begun[q].email \in Waiting
                 /\ Issue({}, {}, begun[q].email, pending[begun[q].email])
            BY <1>1, <2>1 DEF RegisterSave
        <3>3. Sound(begun[q].email, NewRow(begun[q].name, None))
            BY <3>1, NewRowSound
        <3>4. begun[q].email \in Waiting => Sound(begun[q].email, pending[begun[q].email])
            BY DEF Waiting, Inv, RowsSound
        <3>. QED
            BY <3>1, <3>2, <3>3, <3>4, SoundIsRow
    <2>2. ASSUME NEW e \in Emails, Resend(e)
          PROVE  Issue({}, {}, e, pending[e]) /\ Sound(e, pending[e])
        BY <2>2 DEF Resend, Waiting, Inv, RowsSound
    <2>. QED
        BY <2>1, <2>2, SoundIsRow
<1>. QED
    BY <1>2, IssueReplaces

LEMMA VerifyRightLoses ==
    ASSUME NEW e \in Emails, VerifyRight(e), NEW o, Lost(o)
    PROVE  FALSE
<1>1. o = e
    BY DEF VerifyRight, Lost, Without
<1>2. \E a \in accounts' \ accounts : a.email = e
    <2>. DEFINE r == pending[e]
                uids == IF r.uid = None THEN {} ELSE {r.uid}
                made == [email |-> e, name |-> r.name, uids |-> uids, via |-> r.mail]
    <2>1. accounts' = accounts \cup {made} /\ ~TakenByAccount(e, r.name) /\ made.email = e
        BY DEF VerifyRight
    <2>. HIDE DEF made
    <2>2. made \notin accounts
        BY <2>1 DEF TakenByAccount
    <2>. QED
        BY <2>1, <2>2
<1>. QED
    BY <1>1, <1>2 DEF Lost, Replaced

LEMMA AdminCreateLoses ==
    ASSUME NEW e \in Emails, NEW n \in Names, AdminCreate(e, n), NEW o, Lost(o)
    PROVE  FALSE
<1>1. o \in Matches(e, n)
    BY DEF AdminCreate, Lost, Without
<1>. DEFINE made == [email |-> e, name |-> n, uids |-> {}, via |-> "trusted"]
<1>2. accounts' = accounts \cup {made} /\ made.email = e /\ made.name = n
    BY DEF AdminCreate
<1>. HIDE DEF made
<1>3. made \notin accounts
    BY <1>2 DEF AdminCreate, TakenByAccount
<1>4. made.email = o \/ Same(pending[o].name, made.name)
    BY <1>1, <1>2 DEF Matches, Same
<1>. QED
    BY <1>2, <1>3, <1>4 DEF Lost, Replaced

LEMMA StepLosesNone ==
    ASSUME RegistrationConstants, Inv, [Next]_vars, NEW o \in Waiting \ Stale
    PROVE  pending'[o] # None \/ Replaced(o)
<1>. SUFFICES ASSUME Lost(o) PROVE FALSE
    BY DEF Waiting, Lost
<1>1. pending' # pending
    BY DEF Lost
<1>2. ASSUME NEW e \in Emails, VerifyWrong(e) PROVE FALSE
    <2>1. PICK row : Sound(e, row) /\ pending' = [pending EXCEPT ![e] = row]
        BY <1>2, GuessSound
    <2>. QED
        BY <2>1, SoundIsRow DEF Lost, Inv, TypeOK
<1>3. CASE SignUpNext
    BY <1>1, <1>2, <1>3, RegisterLoses, SocialSignupLoses, SavedLoses, VerifyRightLoses,
       AdminCreateLoses DEF SignUpNext, RegisterBegin, SocialAccount, SocialSession, SocialLink
<1>4. CASE CleanupDelete
    BY <1>4 DEF CleanupDelete, Removed, Without, Lost
<1>5. CASE Tick
    BY <1>5, TickSound, SoundIsRow DEF Lost
<1>. QED
    BY <1>1, <1>3, <1>4, <1>5 DEF Next, CleanupRead, CleanupLost, vars

\* A registration in date goes only when an account or another registration takes its
\* place (accounts/views.py:233, accounts/tasks.py:187).
THEOREM RegistrationsAreKept == Spec => NoneLost
<1>1. Inv /\ [Next]_vars => [LosesNone]_vars
    BY StepLosesNone, RegistrationConstants DEF LosesNone
<1>. QED
    BY <1>1, Invariance, PTL DEF Spec, NoneLost
=============================================================================
