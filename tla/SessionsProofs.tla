--------------------------- MODULE SessionsProofs ---------------------------
(***************************************************************************)
(* Theorems about Sessions, for any accounts, requests, lifetimes and      *)
(* bounds.                                                                 *)
(***************************************************************************)
EXTENDS Sessions, SequenceTheorems, FiniteSetTheorems, TLAPS

\* What a token or a login remembers of account u: a version u had, and, if it is still
\* the version of u, the number of revocations that preceded it.
Current(u, version, epoch) ==
    /\ version <= account[u].version
    /\ version = account[u].version => epoch = revoked[u]

TokensTell ==
    \A i \in DOMAIN tokens :
        Current(tokens[i].user, tokens[i].version, tokens[i].epoch)

\* What requests in progress hold.
JobsTell ==
    \A q \in Requests :
        /\ job[q].at = "login" => /\ job[q].user \in Users
                                  /\ Current(job[q].user, job[q].version, job[q].epoch)
        /\ job[q].at \in {"refresh", "rotate"} => job[q].token \in DOMAIN tokens
        /\ job[q].at = "reset" => job[q].user \in Users

Job == [at: Steps, user: Users \cup {Nobody}, token: 0..MaxTokens, mode: Modes,
        version: Versions, epoch: 0..MaxChanges]

VersionsBounded == \A u \in Users : account[u].version <= 3 * revoked[u]

Inv == TypeOK /\ VersionsBounded /\ TokensTell /\ JobsTell

-----------------------------------------------------------------------------
(* Types of what the steps compute.                                        *)

LEMMA Lifetimes ==
    ASSUME SessionConstants, NEW mode \in Modes
    PROVE  Lifetime(mode) \in 0..LibraryLife
BY DEF SessionConstants, Lifetime

LEMMA NewPairType ==
    ASSUME SessionConstants, TypeOK, NEW u \in Users, NEW mode \in Modes,
           NEW version \in Versions, NEW epoch \in 0..MaxChanges, Len(tokens) < MaxTokens
    PROVE  /\ NewPair(u, mode, version, epoch) \in Token
           /\ NewPair(u, mode, version, epoch).user = u
           /\ NewPair(u, mode, version, epoch).version = version
           /\ NewPair(u, mode, version, epoch).epoch = epoch
<1>. DEFINE exp == now + Lifetime(mode)
<1>1. now \in 0..MaxTime /\ exp \in 0..NoDeadline /\ now + AccessLife \in 0..NoDeadline
    BY Lifetimes DEF SessionConstants, TypeOK, NoDeadline
<1>2. Earlier(exp, now + AccessLife) \in 0..NoDeadline /\ NoDeadline \in 0..NoDeadline
    BY <1>1 DEF Earlier, SessionConstants, NoDeadline
<1>3. Len(tokens) + 1 \in 1..MaxTokens
    BY LenProperties DEF TypeOK, SessionConstants
<1>. HIDE DEF exp
<1>. QED
    BY <1>1, <1>2, <1>3 DEF NewPair, Token, exp

LEMMA DeadlineType ==
    ASSUME SessionConstants, NEW t \in Token
    PROVE  Deadline(t) \in 0..NoDeadline
BY DEF SessionConstants, Deadline, Token, NoDeadline

LEMMA RotatedPairType ==
    ASSUME SessionConstants, TypeOK, NEW t \in Token
    PROVE  /\ RotatedPair(t) \in Token
           /\ RotatedPair(t).user = t.user /\ RotatedPair(t).version = t.version
           /\ RotatedPair(t).epoch = t.epoch
<1>. DEFINE deadline == Deadline(t)
            exp == IF deadline # NoDeadline THEN deadline ELSE now + Lifetime(t.mode)
            access == Earlier(exp, now + AccessLife)
            mode == IF t.mode = "legacy" THEN "temporary" ELSE t.mode
            new == [t EXCEPT !.mode = mode, !.deadline = deadline, !.exp = exp,
                             !.access = access, !.black = FALSE]
<1>1. t.mode \in Modes /\ now \in 0..MaxTime
    BY DEF Token, TypeOK
<1>2. deadline \in 0..NoDeadline
    BY DeadlineType
<1>3. now + Lifetime(t.mode) \in 0..NoDeadline /\ now + AccessLife \in 0..NoDeadline
    BY <1>1, Lifetimes DEF SessionConstants, NoDeadline
<1>4. exp \in 0..NoDeadline /\ access \in 0..NoDeadline /\ mode \in Modes
    BY <1>1, <1>2, <1>3 DEF Earlier, Modes
<1>5. RotatedPair(t) = new
    BY DEF RotatedPair
<1>. HIDE DEF deadline, exp, access, mode
<1>6. new \in Token
    BY <1>2, <1>4 DEF Token
<1>7. new.user = t.user /\ new.version = t.version /\ new.epoch = t.epoch
    BY DEF Token
<1>. QED
    BY <1>5, <1>6, <1>7

LEMMA SpentTokens ==
    ASSUME TypeOK, NEW i \in DOMAIN tokens
    PROVE  /\ Spent(i) \in Seq(Token) /\ Len(Spent(i)) = Len(tokens)
           /\ \A k \in DOMAIN tokens :
                /\ Spent(i)[k].user = tokens[k].user
                /\ Spent(i)[k].version = tokens[k].version
                /\ Spent(i)[k].epoch = tokens[k].epoch
<1>. DEFINE spent == [tokens[i] EXCEPT !.black = TRUE]
<1>1. tokens \in Seq(Token) /\ i \in 1..Len(tokens) /\ DOMAIN tokens = 1..Len(tokens)
    BY LenProperties DEF TypeOK
<1>2. tokens[i] \in Token
    BY <1>1, ElementOfSeq
<1>3. /\ spent \in Token /\ spent.user = tokens[i].user
      /\ spent.version = tokens[i].version /\ spent.epoch = tokens[i].epoch
    BY <1>2 DEF Token
<1>4. Spent(i) = [tokens EXCEPT ![i] = spent]
    BY DEF Spent
<1>. HIDE DEF spent
<1>5. /\ [tokens EXCEPT ![i] = spent] \in Seq(Token)
      /\ Len([tokens EXCEPT ![i] = spent]) = Len(tokens)
      /\ \A k \in 1..Len(tokens) :
            [tokens EXCEPT ![i] = spent][k] = IF k = i THEN spent ELSE tokens[k]
    BY <1>1, <1>3, ExceptSeq
<1>. QED
    BY <1>1, <1>3, <1>4, <1>5

LEMMA BlacklistedTokens ==
    ASSUME TypeOK, NEW u \in Users
    PROVE  /\ Blacklisted(u) \in Seq(Token) /\ Len(Blacklisted(u)) = Len(tokens)
           /\ \A k \in DOMAIN tokens :
                /\ Blacklisted(u)[k].user = tokens[k].user
                /\ Blacklisted(u)[k].version = tokens[k].version
                /\ Blacklisted(u)[k].epoch = tokens[k].epoch
<1>1. /\ tokens \in Seq(Token) /\ Len(tokens) \in Nat
      /\ DOMAIN tokens = 1..Len(tokens)
    BY LenProperties DEF TypeOK
<1>2. DOMAIN Blacklisted(u) = DOMAIN tokens
    BY DEF Blacklisted
<1>3. ASSUME NEW k \in DOMAIN tokens
      PROVE  /\ Blacklisted(u)[k] \in Token
             /\ Blacklisted(u)[k].user = tokens[k].user
             /\ Blacklisted(u)[k].version = tokens[k].version
             /\ Blacklisted(u)[k].epoch = tokens[k].epoch
    <2>1. tokens[k] \in Token
        BY <1>1, ElementOfSeq
    <2>2. [tokens[k] EXCEPT !.black = TRUE] \in Token
        BY <2>1 DEF Token
    <2>3. Blacklisted(u)[k] =
             IF tokens[k].user = u THEN [tokens[k] EXCEPT !.black = TRUE] ELSE tokens[k]
        BY DEF Blacklisted
    <2>. QED
        BY <2>1, <2>2, <2>3 DEF Token
<1>4. Blacklisted(u) \in [1..Len(tokens) -> Token]
    BY <1>1, <1>2, <1>3 DEF Blacklisted
<1>5. Blacklisted(u) \in Seq(Token)
    BY <1>1, <1>4, SeqDef
<1>6. Len(Blacklisted(u)) = Len(tokens)
    BY <1>1, <1>2, <1>5, LenProperties
<1>. QED
    BY <1>3, <1>5, <1>6

-----------------------------------------------------------------------------
(* What a step may do to versions, and what follows for what is remembered. *)

\* Sessions of an account are revoked only with a new version.
Advances ==
    \A u \in Users :
        \/ account'[u].version = account[u].version /\ revoked'[u] = revoked[u]
        \/ account'[u].version > account[u].version

LEMMA CurrentKept ==
    ASSUME TypeOK, TypeOK', Advances, NEW u \in Users, NEW v \in Versions, NEW e,
           Current(u, v, e)
    PROVE  Current(u, v, e)'
<1>1. account[u].version \in Int /\ account'[u].version \in Int /\ v \in Int
    BY DEF TypeOK, Account, Versions
<1>. QED
    BY <1>1 DEF Advances, Current

\* t carries the claims of s, a token or a login.
Carries(t, s) == t.user = s.user /\ t.version = s.version /\ t.epoch = s.epoch

LEMMA TokensFollow ==
    ASSUME Inv, TypeOK', Advances,
           \A i \in DOMAIN tokens' :
              \/ \E k \in DOMAIN tokens : Carries(tokens'[i], tokens[k])
              \/ \E q \in Requests : job[q].at = "login" /\ Carries(tokens'[i], job[q])
    PROVE  TokensTell'
<1>. SUFFICES ASSUME NEW i \in DOMAIN tokens'
              PROVE  Current(tokens[i].user, tokens[i].version, tokens[i].epoch)'
    BY DEF TokensTell
<1>. DEFINE remembered(u, v, e) ==
        tokens'[i].user = u /\ tokens'[i].version = v /\ tokens'[i].epoch = e
<1>1. \E u \in Users, v \in Versions, e \in 0..MaxChanges :
            remembered(u, v, e) /\ Current(u, v, e)
    <2>1. CASE \E k \in DOMAIN tokens : Carries(tokens'[i], tokens[k])
        <3>1. PICK k \in DOMAIN tokens : Carries(tokens'[i], tokens[k])
            BY <2>1
        <3>2. tokens[k] \in Token
            BY LenProperties, ElementOfSeq DEF Inv, TypeOK
        <3>3. /\ tokens[k].user \in Users /\ tokens[k].version \in Versions
              /\ tokens[k].epoch \in 0..MaxChanges
            BY <3>2 DEF Token
        <3>4. Current(tokens[k].user, tokens[k].version, tokens[k].epoch)
            BY DEF Inv, TokensTell
        <3>. QED
            BY <3>1, <3>3, <3>4 DEF Carries
    <2>2. CASE \E q \in Requests : job[q].at = "login" /\ Carries(tokens'[i], job[q])
        <3>1. PICK q \in Requests : job[q].at = "login" /\ Carries(tokens'[i], job[q])
            BY <2>2
        <3>2. job[q].version \in Versions /\ job[q].epoch \in 0..MaxChanges
            BY DEF Inv, TypeOK
        <3>3. job[q].user \in Users /\ Current(job[q].user, job[q].version, job[q].epoch)
            BY <3>1 DEF Inv, JobsTell
        <3>. QED
            BY <3>1, <3>2, <3>3 DEF Carries
    <2>. QED
        BY <2>1, <2>2
<1>2. PICK u \in Users, v \in Versions, e \in 0..MaxChanges :
            remembered(u, v, e) /\ Current(u, v, e)
    BY <1>1
<1>3. Current(u, v, e)'
    BY <1>2, CurrentKept DEF Inv
<1>. QED
    BY <1>2, <1>3 DEF Current

\* A request that goes on, and one that ends.
LEMMA JobsFollow ==
    ASSUME Inv, TypeOK', Advances, Len(tokens') >= Len(tokens),
           \A q \in Requests :
              \/ job'[q] = job[q]
              \/ job'[q].at = "idle"
              \/ job'[q].at = "rotate" /\ job[q].at = "refresh" /\ job'[q].token = job[q].token
    PROVE  JobsTell'
<1>. SUFFICES ASSUME NEW q \in Requests
              PROVE  /\ job'[q].at = "login" =>
                            /\ job'[q].user \in Users
                            /\ Current(job[q].user, job[q].version, job[q].epoch)'
                     /\ job'[q].at \in {"refresh", "rotate"} =>
                            job'[q].token \in DOMAIN tokens'
                     /\ job'[q].at = "reset" => job'[q].user \in Users
    BY DEF JobsTell
<1>1. DOMAIN tokens \subseteq DOMAIN tokens'
    BY LenProperties DEF Inv, TypeOK
<1>2. CASE job'[q] = job[q]
    <2>1. ASSUME job[q].at = "login"
          PROVE  Current(job[q].user, job[q].version, job[q].epoch)'
        <3>1. job[q].version \in Versions /\ job[q].epoch \in 0..MaxChanges
            BY DEF Inv, TypeOK
        <3>2. job[q].user \in Users /\ Current(job[q].user, job[q].version, job[q].epoch)
            BY <2>1 DEF Inv, JobsTell
        <3>3. PICK u \in Users, v \in Versions, e \in 0..MaxChanges :
                    /\ job[q].user = u /\ job[q].version = v /\ job[q].epoch = e
                    /\ Current(u, v, e)
            BY <3>1, <3>2
        <3>4. Current(u, v, e)'
            BY <3>3, CurrentKept DEF Inv
        <3>. QED
            BY <1>2, <3>3, <3>4 DEF Current
    <2>. QED
        BY <1>1, <1>2, <2>1 DEF Inv, JobsTell
<1>3. CASE job'[q].at = "idle"
    BY <1>3
<1>4. CASE job'[q].at = "rotate" /\ job[q].at = "refresh" /\ job'[q].token = job[q].token
    BY <1>1, <1>4 DEF Inv, JobsTell
<1>. QED
    BY <1>2, <1>3, <1>4

\* A request that begins, when nothing else changes.
LEMMA JobBegins ==
    ASSUME Inv, NEW q \in Requests, NEW r, job' = [job EXCEPT ![q] = r],
           r \in Job, r.user \in Users,
           r.at = "login" => Current(r.user, r.version, r.epoch),
           r.at \in {"refresh", "rotate"} => r.token \in DOMAIN tokens,
           UNCHANGED <<now, account, courier, tokens, code, revoked, raced, left>>
    PROVE  Inv'
<1>1. TypeOK' /\ VersionsBounded' /\ TokensTell'
    BY DEF Inv, TypeOK, VersionsBounded, TokensTell, Current, Job
<1>2. job'[q] = r /\ \A p \in Requests \ {q} : job'[p] = job[p]
    BY DEF Inv, TypeOK
<1>3. JobsTell'
    BY <1>2 DEF Inv, JobsTell, Current
<1>. QED
    BY <1>1, <1>3 DEF Inv

-----------------------------------------------------------------------------
(* The actions.                                                            *)

LEMMA InitInv == SessionConstants /\ Init => Inv
<1>. SUFFICES ASSUME SessionConstants, Init PROVE Inv
    OBVIOUS
<1>1. now \in 0..MaxTime /\ 0 \in Versions /\ 0 \in 0..MaxChanges /\ 1 \in 1..MaxTokens
    BY DEF Init, SessionConstants, Versions
<1>2. PICK role \in [Users -> Roles] :
        /\ account = [u \in Users |->
            [role |-> role[u], active |-> TRUE, deleted |-> FALSE, version |-> 0,
             signedIn |-> FALSE]]
        /\ courier = [u \in Users |->
            IF role[u] = "representative" THEN "off" ELSE "none"]
        /\ tokens \in {<<>>} \cup {<<LegacyToken(u)>> : u \in {v \in Users : role[v] # "admin"}}
    BY DEF Init
<1>3. account \in [Users -> Account] /\ \A u \in Users : account[u].version = 0
    BY <1>1, <1>2 DEF Account
<1>4. \A u \in Users : revoked[u] = 0
    BY DEF Init
<1>5. ASSUME NEW u \in Users
      PROVE  /\ LegacyToken(u) \in Token /\ LegacyToken(u).user = u
             /\ LegacyToken(u).version = 0 /\ LegacyToken(u).epoch = 0
    <2>1. /\ NoDeadline \in 0..NoDeadline /\ LibraryLife \in 0..NoDeadline
          /\ AccessLife \in 0..NoDeadline /\ 0 \in 0..MaxTime
        BY DEF SessionConstants, NoDeadline
    <2>. QED
        BY <1>1, <2>1 DEF LegacyToken, Token, Modes
<1>6. /\ tokens \in Seq(Token) /\ Len(tokens) <= MaxTokens
      /\ \A i \in DOMAIN tokens :
            /\ tokens[i].user \in Users /\ tokens[i].version = 0 /\ tokens[i].epoch = 0
    <2>1. CASE tokens = <<>>
        BY <2>1, <1>1 DEF SessionConstants
    <2>2. CASE \E u \in Users : tokens = <<LegacyToken(u)>>
        BY <2>2, <1>5 DEF SessionConstants
    <2>. QED
        BY <1>2, <2>1, <2>2
<1>7. TypeOK
    BY <1>1, <1>2, <1>3, <1>6 DEF Init, TypeOK, Idle, Steps, Modes
<1>8. VersionsBounded /\ TokensTell
    BY <1>3, <1>4, <1>6 DEF VersionsBounded, TokensTell, Current
<1>9. JobsTell
    BY DEF Init, JobsTell, Idle
<1>. QED
    BY <1>7, <1>8, <1>9 DEF Inv

LEMMA IdleType ==
    ASSUME SessionConstants
    PROVE  Idle \in Job /\ Idle.at = "idle"
<1>1. 0 \in Versions /\ 0 \in 0..MaxChanges /\ 0 \in 0..MaxTokens
    BY DEF Versions, SessionConstants
<1>. QED
    BY <1>1 DEF Idle, Job, Steps, Modes

LEMMA LoginCheckKeeps ==
    ASSUME SessionConstants, Inv, NEW q \in Requests, NEW u \in Users, NEW mode \in Modes,
           LoginCheck(q, u, mode)
    PROVE  Inv'
<1>. DEFINE r == [Idle EXCEPT !.at = "login", !.user = u, !.mode = mode,
                              !.version = account[u].version, !.epoch = revoked[u]]
<1>1. /\ job' = [job EXCEPT ![q] = r]
      /\ UNCHANGED <<now, account, courier, tokens, code, revoked, raced, left>>
    BY DEF LoginCheck, Start
<1>2. /\ account[u].version \in Versions /\ revoked[u] \in 0..MaxChanges
      /\ "login" \in Steps
    BY DEF Inv, TypeOK, Account, Steps
<1>3. r \in Job
    BY <1>2, IdleType DEF Job
<1>4. r.at = "login" /\ r.user = u
    BY IdleType DEF Job
<1>5. r.version = account[u].version /\ r.epoch = revoked[u]
    BY IdleType DEF Job
<1>6. Current(u, account[u].version, revoked[u])
    BY <1>2 DEF Current, Versions
<1>. HIDE DEF r
<1>. QED
    BY <1>1, <1>3, <1>4, <1>5, <1>6, JobBegins

LEMMA RefreshCheckKeeps ==
    ASSUME SessionConstants, Inv, NEW q \in Requests, NEW i \in DOMAIN tokens,
           RefreshCheck(q, i)
    PROVE  Inv'
<1>. DEFINE r == [Idle EXCEPT !.at = "refresh", !.user = tokens[i].user, !.token = i]
<1>1. /\ job' = [job EXCEPT ![q] = r]
      /\ UNCHANGED <<now, account, courier, tokens, code, revoked, raced, left>>
    BY DEF RefreshCheck, Start
<1>2. i \in 0..MaxTokens /\ tokens[i] \in Token
    BY LenProperties, ElementOfSeq DEF Inv, TypeOK, SessionConstants
<1>3. tokens[i].user \in Users /\ "refresh" \in Steps
    BY <1>2 DEF Token, Steps
<1>4. r \in Job
    BY <1>2, <1>3, IdleType DEF Job
<1>5. r.at = "refresh" /\ r.user = tokens[i].user /\ r.token = i
    BY IdleType DEF Job
<1>. HIDE DEF r
<1>. QED
    BY <1>1, <1>3, <1>4, <1>5, JobBegins

LEMMA ResetCheckKeeps ==
    ASSUME SessionConstants, Inv, NEW q \in Requests, NEW u \in Users, ResetCheck(q, u)
    PROVE  Inv'
<1>. DEFINE r == [Idle EXCEPT !.at = "reset", !.user = u]
<1>1. /\ job' = [job EXCEPT ![q] = r]
      /\ UNCHANGED <<now, account, courier, tokens, code, revoked, raced, left>>
    BY DEF ResetCheck, Start
<1>2. "reset" \in Steps
    BY DEF Steps
<1>3. r \in Job
    BY <1>2, IdleType DEF Job
<1>4. r.at = "reset" /\ r.user = u
    BY IdleType DEF Job
<1>. HIDE DEF r
<1>. QED
    BY <1>1, <1>3, <1>4, JobBegins

LEMMA IdleJob ==
    ASSUME SessionConstants, Inv, NEW q \in Requests, Finish(q)
    PROVE  /\ job' \in [Requests -> Job]
           /\ \A p \in Requests : job'[p] = job[p] \/ job'[p].at = "idle"
<1>1. job \in [Requests -> Job]
    BY DEF Inv, TypeOK, Job
<1>. QED
    BY <1>1, IdleType DEF Finish

LEMMA LoginIssueKeeps ==
    ASSUME SessionConstants, Inv, NEW q \in Requests, LoginIssue(q)
    PROVE  Inv'
<1>. DEFINE j == job[q]
            new == NewPair(j.user, j.mode, j.version, j.epoch)
<1>1. /\ j.at = "login" /\ Len(tokens) < MaxTokens /\ Finish(q)
      /\ tokens' = Append(tokens, new)
      /\ UNCHANGED <<now, code, revoked, raced, left>>
      /\ account' = [account EXCEPT ![j.user] = [account[j.user] EXCEPT !.signedIn = TRUE]]
      /\ courier' = courier \/ courier' = [courier EXCEPT ![j.user] = "on"]
    BY DEF LoginIssue, SignIn
<1>2. /\ j.user \in Users /\ j.version \in Versions /\ j.epoch \in 0..MaxChanges
      /\ j.mode \in Modes
    BY <1>1 DEF Inv, TypeOK, JobsTell
<1>. HIDE DEF j
<1>3. /\ new \in Token
      /\ new.user = j.user /\ new.version = j.version /\ new.epoch = j.epoch
    BY <1>1, <1>2, NewPairType DEF Inv
<1>. HIDE DEF new
<1>4. /\ tokens' \in Seq(Token) /\ Len(tokens') = Len(tokens) + 1
      /\ DOMAIN tokens' = 1..(Len(tokens) + 1)
      /\ \A i \in DOMAIN tokens : tokens'[i] = tokens[i]
      /\ tokens'[Len(tokens) + 1] = new
      /\ Len(tokens) \in Nat /\ DOMAIN tokens = 1..Len(tokens)
    BY <1>1, <1>3, AppendProperties, LenProperties DEF Inv, TypeOK
<1>5. /\ account' \in [Users -> Account]
      /\ \A u \in Users : account'[u].version = account[u].version
    <2>. DEFINE a == [account[j.user] EXCEPT !.signedIn = TRUE]
    <2>1. a \in Account /\ a.version = account[j.user].version
        BY <1>2 DEF Inv, TypeOK, Account
    <2>2. account' = [account EXCEPT ![j.user] = a]
        BY <1>1
    <2>. HIDE DEF a
    <2>. QED
        BY <1>2, <2>1, <2>2 DEF Inv, TypeOK
<1>6. TypeOK'
    <2>1. courier' \in [Users -> {"none", "off", "on"}]
        BY <1>1, <1>2 DEF Inv, TypeOK
    <2>2. job' \in [Requests -> Job]
        BY <1>1, IdleJob
    <2>3. Len(tokens') <= MaxTokens
        BY <1>1, <1>4 DEF SessionConstants
    <2>. QED
        BY <1>1, <1>4, <1>5, <2>1, <2>2, <2>3 DEF Inv, TypeOK, Job
<1>7. Advances
    BY <1>1, <1>5 DEF Advances
<1>8. TokensTell'
    <2>1. ASSUME NEW i \in DOMAIN tokens'
          PROVE  \/ \E k \in DOMAIN tokens : Carries(tokens'[i], tokens[k])
                 \/ \E p \in Requests : job[p].at = "login" /\ Carries(tokens'[i], job[p])
        <3>1. CASE i \in DOMAIN tokens
            BY <1>4, <3>1 DEF Carries
        <3>2. CASE i = Len(tokens) + 1
            BY <1>1, <1>3, <1>4, <3>2 DEF Carries, j
        <3>. QED
            BY <1>4, <3>1, <3>2
    <2>. QED
        BY <1>6, <1>7, <2>1, TokensFollow
<1>9. JobsTell'
    BY <1>1, <1>4, <1>6, <1>7, IdleJob, JobsFollow
<1>10. VersionsBounded'
    BY <1>1, <1>5 DEF Inv, VersionsBounded
<1>. QED
    BY <1>6, <1>8, <1>9, <1>10 DEF Inv

\* A step that leaves the accounts and their revocations.
LEMMA Stays ==
    ASSUME Inv, account' = account, revoked' = revoked
    PROVE  Advances /\ VersionsBounded'
BY DEF Inv, Advances, VersionsBounded

LEMMA RefreshVerifyKeeps ==
    ASSUME SessionConstants, Inv, NEW q \in Requests, RefreshVerify(q)
    PROVE  Inv'
<1>. DEFINE i == job[q].token
            going == [job[q] EXCEPT !.at = "rotate"]
<1>1. /\ job[q].at = "refresh"
      /\ UNCHANGED <<now, account, courier, tokens, code, revoked, left>>
      /\ raced' = raced \/ raced' = raced \cup {tokens[i].root}
      /\ Finish(q) \/ job' = [job EXCEPT ![q] = going]
    BY DEF RefreshVerify
<1>2. i \in DOMAIN tokens /\ tokens[i] \in Token
    BY <1>1, LenProperties, ElementOfSeq DEF Inv, TypeOK, JobsTell
<1>3. tokens[i].root \in 1..MaxTokens
    BY <1>2 DEF Token
<1>. HIDE DEF i
<1>4. job[q] \in Job /\ "rotate" \in Steps /\ job \in [Requests -> Job]
    BY DEF Inv, TypeOK, Job, Steps
<1>5. going \in Job /\ going.at = "rotate" /\ going.token = job[q].token
    BY <1>4 DEF Job
<1>. HIDE DEF going
<1>6. /\ job' \in [Requests -> Job]
      /\ \A p \in Requests :
            \/ job'[p] = job[p]
            \/ job'[p].at = "idle"
            \/ job'[p].at = "rotate" /\ job[p].at = "refresh" /\ job'[p].token = job[p].token
    <2>1. CASE Finish(q)
        BY <2>1, IdleJob
    <2>2. CASE job' = [job EXCEPT ![q] = going]
        BY <1>1, <1>4, <1>5, <2>2
    <2>. QED
        BY <1>1, <2>1, <2>2
<1>7. TypeOK'
    BY <1>1, <1>3, <1>6 DEF Inv, TypeOK, Job
<1>8. TokensTell'
    BY <1>1 DEF Inv, TokensTell, Current
<1>9. Len(tokens') >= Len(tokens)
    BY <1>1, LenProperties DEF Inv, TypeOK
<1>. QED
    BY <1>1, <1>6, <1>7, <1>8, <1>9, Stays, JobsFollow DEF Inv

LEMMA RefreshRotateKeeps ==
    ASSUME SessionConstants, Inv, NEW q \in Requests, RefreshRotate(q)
    PROVE  Inv'
<1>. DEFINE i == job[q].token
            new == RotatedPair(tokens[i])
<1>1. /\ job[q].at = "rotate" /\ Finish(q)
      /\ UNCHANGED <<now, account, courier, code, revoked, raced, left>>
      /\ \/ tokens' = Spent(i)
         \/ Len(tokens) < MaxTokens /\ tokens' = Append(Spent(i), new)
    BY DEF RefreshRotate
<1>2. /\ i \in DOMAIN tokens /\ tokens[i] \in Token
      /\ Len(tokens) \in Nat /\ DOMAIN tokens = 1..Len(tokens)
    BY <1>1, LenProperties, ElementOfSeq DEF Inv, TypeOK, JobsTell
<1>. HIDE DEF i
<1>3. /\ new \in Token /\ new.user = tokens[i].user
      /\ new.version = tokens[i].version /\ new.epoch = tokens[i].epoch
    BY <1>2, RotatedPairType DEF Inv
<1>. HIDE DEF new
<1>4. /\ Spent(i) \in Seq(Token) /\ Len(Spent(i)) = Len(tokens)
      /\ DOMAIN Spent(i) = DOMAIN tokens
      /\ \A k \in DOMAIN tokens : Carries(Spent(i)[k], tokens[k])
    BY <1>2, SpentTokens, LenProperties DEF Inv, Carries
<1>5. /\ tokens' \in Seq(Token) /\ Len(tokens') <= MaxTokens /\ Len(tokens') >= Len(tokens)
      /\ \A j \in DOMAIN tokens' : \E k \in DOMAIN tokens : Carries(tokens'[j], tokens[k])
    <2>1. CASE tokens' = Spent(i)
        BY <1>2, <1>4, <2>1 DEF Inv, TypeOK
    <2>2. CASE Len(tokens) < MaxTokens /\ tokens' = Append(Spent(i), new)
        <3>1. /\ tokens' \in Seq(Token) /\ Len(tokens') = Len(tokens) + 1
              /\ DOMAIN tokens' = 1..(Len(tokens) + 1)
              /\ \A k \in DOMAIN tokens : tokens'[k] = Spent(i)[k]
              /\ tokens'[Len(tokens) + 1] = new
            BY <1>2, <1>3, <1>4, <2>2, AppendProperties, LenProperties
        <3>2. Carries(new, tokens[i])
            BY <1>3 DEF Carries
        <3>3. \A j \in DOMAIN tokens' : \E k \in DOMAIN tokens : Carries(tokens'[j], tokens[k])
            BY <1>2, <1>4, <3>1, <3>2
        <3>. QED
            BY <1>2, <2>2, <3>1, <3>3 DEF SessionConstants
    <2>. QED
        BY <1>1, <2>1, <2>2
<1>6. TypeOK'
    BY <1>1, <1>5, IdleJob DEF Inv, TypeOK, Job
<1>. QED
    BY <1>1, <1>5, <1>6, IdleJob, Stays, JobsFollow, TokensFollow DEF Inv

LEMMA LogoutKeeps ==
    ASSUME SessionConstants, Inv, NEW i \in DOMAIN tokens, Logout(i)
    PROVE  Inv'
<1>1. /\ tokens' = Spent(i) /\ left' = left \cup {tokens[i].root}
      /\ raced' = raced \/ raced' = raced \cup {tokens[i].root}
      /\ UNCHANGED <<now, account, courier, code, job, revoked>>
    BY DEF Logout
<1>2. /\ tokens[i] \in Token /\ Len(tokens) \in Nat
    BY LenProperties, ElementOfSeq DEF Inv, TypeOK
<1>3. tokens[i].root \in 1..MaxTokens
    BY <1>2 DEF Token
<1>4. /\ tokens' \in Seq(Token) /\ Len(tokens') = Len(tokens)
      /\ \A j \in DOMAIN tokens' : \E k \in DOMAIN tokens : Carries(tokens'[j], tokens[k])
    <2>1. /\ Spent(i) \in Seq(Token) /\ Len(Spent(i)) = Len(tokens)
          /\ DOMAIN Spent(i) = DOMAIN tokens
        BY SpentTokens, LenProperties DEF Inv, TypeOK
    <2>. QED
        BY <1>1, <2>1, SpentTokens DEF Inv, Carries
<1>5. TypeOK'
    BY <1>1, <1>3, <1>4 DEF Inv, TypeOK
<1>6. Len(tokens') >= Len(tokens)
    BY <1>2, <1>4
<1>. QED
    BY <1>1, <1>4, <1>5, <1>6, Stays, JobsFollow, TokensFollow DEF Inv

\* Revoking the sessions of u with a new version, and the code and blacklist as they may be.
LEMMA RevocationKeeps ==
    ASSUME SessionConstants, Inv, NEW u \in Users, NEW a, NEW bumps \in 1..3,
           a \in [role: Roles, active: BOOLEAN, deleted: BOOLEAN, version: Nat,
                  signedIn: BOOLEAN],
           a.version = account[u].version + bumps, revoked[u] < MaxChanges,
           account' = [account EXCEPT ![u] = a],
           revoked' = [revoked EXCEPT ![u] = revoked[u] + 1],
           tokens' = tokens \/ tokens' = Blacklisted(u),
           courier' \in [Users -> {"none", "off", "on"}], code' \in [Users -> BOOLEAN],
           \A q \in Requests : job'[q] = job[q] \/ job'[q].at = "idle",
           job' \in [Requests -> Job], UNCHANGED <<now, raced, left>>
    PROVE  Inv'
<1>1. /\ account[u].version \in Nat /\ revoked[u] \in Nat /\ MaxChanges \in Nat
      /\ account[u].version <= 3 * revoked[u]
    BY DEF Inv, TypeOK, Account, Versions, VersionsBounded, SessionConstants
<1>2. a \in Account /\ a.version <= 3 * (revoked[u] + 1)
    <2>1. a.version \in Versions
        BY <1>1 DEF Versions
    <2>2. a.version <= 3 * (revoked[u] + 1)
        BY <1>1
    <2>. QED
        BY <2>1, <2>2 DEF Account
<1>3. account' \in [Users -> Account] /\ revoked' \in [Users -> 0..MaxChanges]
    BY <1>1, <1>2 DEF Inv, TypeOK
<1>4. /\ tokens' \in Seq(Token) /\ Len(tokens') = Len(tokens)
      /\ \A j \in DOMAIN tokens' : \E k \in DOMAIN tokens : Carries(tokens'[j], tokens[k])
    <2>1. CASE tokens' = tokens
        BY <2>1 DEF Inv, TypeOK, Carries
    <2>2. CASE tokens' = Blacklisted(u)
        <3>1. DOMAIN Blacklisted(u) = DOMAIN tokens
            BY DEF Blacklisted
        <3>. QED
            BY <2>2, <3>1, BlacklistedTokens DEF Inv, Carries
    <2>. QED
        BY <2>1, <2>2
<1>5. TypeOK'
    BY <1>3, <1>4 DEF Inv, TypeOK, Job
<1>6. Advances
    BY <1>1, <1>3 DEF Advances, Inv, TypeOK
<1>7. VersionsBounded'
    <2>1. \A w \in Users : w # u =>
            account'[w].version = account[w].version /\ revoked'[w] = revoked[w]
        BY DEF Inv, TypeOK
    <2>2. account'[u] = a /\ revoked'[u] = revoked[u] + 1
        BY DEF Inv, TypeOK
    <2>. QED
        BY <1>2, <2>1, <2>2 DEF Inv, VersionsBounded
<1>8. Len(tokens') >= Len(tokens)
    BY <1>4, LenProperties DEF Inv, TypeOK
<1>. QED
    BY <1>4, <1>5, <1>6, <1>7, <1>8, JobsFollow, TokensFollow DEF Inv

LEMMA ForgotPasswordKeeps ==
    ASSUME Inv, NEW u \in Users, ForgotPassword(u)
    PROVE  Inv'
BY DEF Inv, TypeOK, VersionsBounded, TokensTell, JobsTell, Current, ForgotPassword

LEMMA ResetCommitKeeps ==
    ASSUME SessionConstants, Inv, NEW q \in Requests, ResetCommit(q)
    PROVE  Inv'
<1>. DEFINE u == job[q].user
            a == [account[u] EXCEPT !.version = account[u].version + 1]
<1>1. /\ job[q].at = "reset" /\ Finish(q) /\ UNCHANGED <<now, courier, raced, left>>
      /\ \/ /\ revoked[u] < MaxChanges /\ code' = [code EXCEPT ![u] = FALSE]
            /\ account' = [account EXCEPT ![u] = a]
            /\ tokens' = Blacklisted(u)
            /\ revoked' = [revoked EXCEPT ![u] = revoked[u] + 1]
         \/ UNCHANGED <<code, account, tokens, revoked>>
    BY DEF ResetCommit
<1>2. u \in Users
    BY <1>1 DEF Inv, JobsTell
<1>. HIDE DEF u
<1>3. /\ account[u] \in Account /\ account[u].version \in Nat
      /\ courier \in [Users -> {"none", "off", "on"}]
    BY <1>2 DEF Inv, TypeOK, Account, Versions
<1>4. /\ a \in [role: Roles, active: BOOLEAN, deleted: BOOLEAN, version: Nat,
                signedIn: BOOLEAN]
      /\ a.version = account[u].version + 1
    BY <1>3 DEF Account
<1>. HIDE DEF a
<1>5. CASE UNCHANGED <<code, account, tokens, revoked>>
    <2>1. TypeOK'
        BY <1>1, <1>5, IdleJob DEF Inv, TypeOK, Job
    <2>2. TokensTell'
        BY <1>5 DEF Inv, TokensTell, Current
    <2>3. Len(tokens') >= Len(tokens)
        BY <1>5, LenProperties DEF Inv, TypeOK
    <2>. QED
        BY <1>1, <1>5, <2>1, <2>2, <2>3, IdleJob, Stays, JobsFollow DEF Inv
<1>6. CASE ~UNCHANGED <<code, account, tokens, revoked>>
    <2>1. code' = [code EXCEPT ![u] = FALSE]
        BY <1>1, <1>6
    <2>2. code' \in [Users -> BOOLEAN]
        BY <2>1 DEF Inv, TypeOK
    <2>3. 1 \in 1..3
        OBVIOUS
    <2>. QED
        BY <1>1, <1>2, <1>3, <1>4, <1>6, <2>2, <2>3, IdleJob, RevocationKeeps
<1>. QED
    BY <1>5, <1>6

LEMMA DeletedType ==
    ASSUME NEW a \in Account, NEW active \in BOOLEAN, NEW deleted \in BOOLEAN, NEW n \in Nat
    PROVE  /\ [a EXCEPT !.version = n, !.active = active, !.deleted = deleted]
                \in [role: Roles, active: BOOLEAN, deleted: BOOLEAN, version: Nat,
                     signedIn: BOOLEAN]
           /\ [a EXCEPT !.version = n, !.active = active, !.deleted = deleted].version = n
BY DEF Account

LEMMA DeleteAccountKeeps ==
    ASSUME SessionConstants, Inv, NEW i \in DOMAIN tokens, DeleteAccount(i)
    PROVE  Inv'
<1>. DEFINE u == tokens[i].user
            a == [account[u] EXCEPT !.version = account[u].version + 1, !.active = FALSE,
                                    !.deleted = TRUE]
<1>1. account' = [account EXCEPT ![u] = a]
    BY DEF DeleteAccount
<1>2. /\ revoked[u] < MaxChanges /\ code' = [code EXCEPT ![u] = FALSE]
      /\ tokens' = Blacklisted(u)
      /\ revoked' = [revoked EXCEPT ![u] = revoked[u] + 1]
      /\ UNCHANGED <<now, courier, job, raced, left>>
    BY DEF DeleteAccount
<1>3. tokens[i] \in Token
    BY LenProperties, ElementOfSeq DEF Inv, TypeOK
<1>4. u \in Users
    BY <1>3 DEF Token
<1>. HIDE DEF u
<1>5. account[u] \in Account /\ account[u].version + 1 \in Nat
    BY <1>4 DEF Inv, TypeOK, Account, Versions
<1>6. /\ a \in [role: Roles, active: BOOLEAN, deleted: BOOLEAN, version: Nat,
                signedIn: BOOLEAN]
      /\ a.version = account[u].version + 1
    BY <1>5, DeletedType
<1>. HIDE DEF a
<1>7. code' \in [Users -> BOOLEAN]
    BY <1>2 DEF Inv, TypeOK
<1>8. courier' \in [Users -> {"none", "off", "on"}] /\ job' \in [Requests -> Job]
    BY <1>2 DEF Inv, TypeOK, Job
<1>9. 1 \in 1..3
    OBVIOUS
<1>. QED
    BY <1>1, <1>2, <1>4, <1>6, <1>7, <1>8, <1>9, RevocationKeeps

\* What an administrator's change asks of the version is at most three things.
LEMMA Reasons ==
    ASSUME NEW S, S \subseteq 1..3
    PROVE  IsFiniteSet(S) /\ Cardinality(S) \in 0..3
<1>1. PICK one \in Int, three \in Int : one = 1 /\ three = 3
    OBVIOUS
<1>2. /\ IsFiniteSet(one..three)
      /\ Cardinality(one..three) = IF one > three THEN 0 ELSE three - one + 1
    BY FS_Interval
<1>3. IsFiniteSet(1..3) /\ Cardinality(1..3) = 3
    BY <1>1, <1>2
<1>4. IsFiniteSet(S) /\ Cardinality(S) <= Cardinality(1..3)
    BY <1>3, FS_Subset
<1>5. Cardinality(S) \in Nat
    BY <1>4, FS_CardinalityType
<1>. QED
    BY <1>3, <1>4, <1>5

LEMMA AdminPatchKeeps ==
    ASSUME SessionConstants, Inv, NEW u \in Users, NEW role \in RoleChoices(u),
           NEW active \in BOOLEAN, NEW password \in BOOLEAN,
           NEW profile \in {"keep", "on", "off"},
           AdminPatch(u, role, active, password, profile)
    PROVE  Inv'
<1>. DEFINE disabled == account[u].active /\ ~active
            revokesClient == disabled /\ role = "client"
            revokesCourier == disabled /\ account[u].role = "representative"
            reasons == {k \in 1..3 : \/ k = 1 /\ password
                                     \/ k = 2 /\ revokesClient
                                     \/ k = 3 /\ revokesCourier}
            bumps == Cardinality(reasons)
            a == [account[u] EXCEPT !.version = account[u].version + bumps, !.role = role,
                                    !.active = active]
<1>1. IsFiniteSet(reasons) /\ bumps \in 0..3
    <2>1. reasons \subseteq 1..3
        OBVIOUS
    <2>. HIDE DEF reasons
    <2>. QED
        BY <2>1, Reasons
<1>2. bumps = 0 => ~revokesClient
    <2>1. SUFFICES ASSUME bumps = 0, revokesClient PROVE FALSE
        OBVIOUS
    <2>2. 2 \in reasons
        BY <2>1
    <2>. HIDE DEF reasons
    <2>. QED
        BY <1>1, <2>1, <2>2, FS_EmptySet
<1>3. /\ bumps > 0 => revoked[u] < MaxChanges
      /\ account' = [account EXCEPT ![u] = a]
      /\ courier' = [courier EXCEPT ![u] = IF role # "representative" THEN "none"
                                           ELSE IF profile = "keep" THEN courier[u]
                                           ELSE profile]
      /\ tokens' = IF revokesClient THEN Blacklisted(u) ELSE tokens
      /\ revoked' = IF bumps = 0 THEN revoked ELSE [revoked EXCEPT ![u] = revoked[u] + 1]
      /\ UNCHANGED <<now, code, job, raced, left>>
    BY DEF AdminPatch
<1>. HIDE DEF bumps, revokesClient
<1>4. /\ account[u] \in Account /\ account[u].version \in Nat /\ role \in Roles
      /\ account[u].version \in Versions
    BY DEF Inv, TypeOK, Account, Versions, RoleChoices, Mobile, Roles
<1>5. account[u].version + bumps \in Nat
    BY <1>1, <1>4
<1>6. a \in [role: Roles, active: BOOLEAN, deleted: BOOLEAN, version: Nat,
             signedIn: BOOLEAN]
    BY <1>4, <1>5 DEF Account
<1>7. a.version = account[u].version + bumps
    BY <1>4 DEF Account
<1>8. a.version \in Versions => a \in Account
    BY <1>6 DEF Account
<1>. HIDE DEF a
<1>9. /\ courier' \in [Users -> {"none", "off", "on"}] /\ code' \in [Users -> BOOLEAN]
      /\ job' \in [Requests -> Job]
    BY <1>3 DEF Inv, TypeOK, Job
<1>10. CASE bumps = 0
    <2>1. /\ account' \in [Users -> Account]
          /\ \A w \in Users : account'[w].version = account[w].version
        BY <1>3, <1>4, <1>7, <1>8, <1>10 DEF Inv, TypeOK
    <2>2. tokens' = tokens /\ revoked' = revoked
        BY <1>2, <1>3, <1>10
    <2>. QED
        <3>1. TypeOK'
            BY <1>3, <1>9, <2>1, <2>2 DEF Inv, TypeOK, Job
        <3>2. VersionsBounded'
            BY <2>1, <2>2 DEF Inv, VersionsBounded
        <3>3. Advances
            BY <2>1, <2>2 DEF Advances
        <3>4. TokensTell'
            BY <2>2, <3>1, <3>3, TokensFollow DEF Carries
        <3>5. Len(tokens') >= Len(tokens)
            BY <2>2, LenProperties DEF Inv, TypeOK
        <3>6. JobsTell'
            BY <1>3, <3>1, <3>3, <3>5, JobsFollow
        <3>. QED
            BY <3>1, <3>2, <3>4, <3>6 DEF Inv
<1>11. CASE bumps # 0
    <2>1. bumps \in 1..3 /\ revoked[u] < MaxChanges
        BY <1>1, <1>3, <1>11
    <2>. QED
        BY <1>3, <1>6, <1>7, <1>9, <1>11, <2>1, RevocationKeeps
<1>. QED
    BY <1>10, <1>11

LEMMA TickKeeps ==
    ASSUME SessionConstants, Inv, Tick
    PROVE  Inv'
<1>1. now' \in 0..MaxTime
    BY DEF Inv, TypeOK, Tick, SessionConstants
<1>. QED
    BY <1>1 DEF Inv, TypeOK, VersionsBounded, TokensTell, JobsTell, Current, Tick

-----------------------------------------------------------------------------
LEMMA StepInv ==
    ASSUME SessionConstants, Inv, [Next]_vars
    PROVE  Inv'
<1>1. CASE UNCHANGED vars
    BY <1>1 DEF vars, Inv, TypeOK, VersionsBounded, TokensTell, JobsTell, Current
<1>2. CASE LockedNext
    BY <1>2, LogoutKeeps, DeleteAccountKeeps, ForgotPasswordKeeps, AdminPatchKeeps, TickKeeps
       DEF LockedNext
<1>3. ASSUME NEW q \in Requests, RequestNext(q)
      PROVE  Inv'
    BY <1>3, LoginCheckKeeps, LoginIssueKeeps, RefreshCheckKeeps, RefreshVerifyKeeps,
       RefreshRotateKeeps, ResetCheckKeeps, ResetCommitKeeps
       DEF RequestNext
<1>. QED
    BY <1>1, <1>2, <1>3 DEF Next

LEMMA Invariance == Spec => []Inv
<1>1. Init => Inv
    BY InitInv, SessionConstants
<1>2. Inv /\ [Next]_vars => Inv'
    BY StepInv, SessionConstants
<1>. QED
    BY <1>1, <1>2, PTL DEF Spec

\* Accounts, tokens and requests keep their form, and versions their bound.
THEOREM TypeCorrect == Spec => []TypeOK
<1>1. Inv => TypeOK
    BY DEF Inv
<1>. QED
    BY <1>1, Invariance, PTL

\* A token that authenticates or refreshes was issued on a credential checked after the
\* last revocation of its account (accounts/deactivation.py revoke_user_sessions).
THEOREM RevocationHolds == Spec => []RevokedStaysOut
<1>1. Inv => RevokedStaysOut
    <2>. SUFFICES ASSUME Inv, NEW i \in DOMAIN tokens, Live(tokens[i])
                  PROVE  tokens[i].epoch = revoked[tokens[i].user]
        BY DEF RevokedStaysOut
    <2>1. tokens[i].version = account[tokens[i].user].version
        BY DEF Live, Authenticates, Refreshable, StateAllows
    <2>. QED
        BY <2>1 DEF Inv, TokensTell, Current
<1>. QED
    BY <1>1, Invariance, PTL
-----------------------------------------------------------------------------
(* The tokens of one session.                                              *)

\* The lifetime of an absolute session, counted from the login that opened it.
Life(mode) == IF mode = "adminRemember" THEN RememberLife ELSE TempLife

\* t continues the session that first opened.
Continues(t, first) ==
    /\ t.user = first.user /\ t.version = first.version
    /\ t.mode = first.mode \/ (first.mode = "legacy" /\ t.mode = "temporary")
    /\ first.mode \notin {"persistent", "plain"} =>
          /\ Deadline(t) = first.started + Life(first.mode)
          /\ t.access <= Deadline(t)
          /\ t.exp <= Deadline(t) \/ t.mode = "legacy"

\* Every token continues a session; one without claims is of a client or a courier, whose
\* sessions are looked at again when they are used.
ChainInv ==
    /\ \A i \in DOMAIN tokens :
          /\ tokens[i].root \in 1..i
          /\ Continues(tokens[i], tokens[tokens[i].root])
          /\ tokens[i].mode = "legacy" => account[tokens[i].user].role \in Mobile
    /\ \A q \in Requests : job[q].at = "login" => job[q].mode # "legacy"
    /\ left \subseteq DOMAIN tokens

Stale(i) == tokens[i].version # account[tokens[i].user].version
Ripe(i) == ~tokens[i].black /\ ~Stale(i)
Rotates(q, i) == job[q].at = "rotate" /\ job[q].token = i

\* A session that did not race has at most one ripe token, none once it is logged out,
\* and a rotation under way holds that one, or a token that can only beget stale ones.
LineInv ==
    /\ \A i, k \in DOMAIN tokens :
          tokens[i].root = tokens[k].root /\ tokens[i].root \notin raced
              /\ Ripe(i) /\ Ripe(k) => i = k
    /\ \A i \in DOMAIN tokens :
          tokens[i].root \notin raced =>
              /\ tokens[i].root \in left => ~Ripe(i)
              /\ \A q \in Requests : Rotates(q, i) => ~tokens[i].black \/ Stale(i)
              /\ \A p, q \in Requests : Rotates(p, i) /\ Rotates(q, i) => p = q

LEMMA TokenParts ==
    ASSUME TypeOK
    PROVE  /\ Len(tokens) \in Nat /\ DOMAIN tokens = 1..Len(tokens)
           /\ \A i \in DOMAIN tokens :
                /\ tokens[i] \in Token /\ tokens[i].user \in Users /\ tokens[i].mode \in Modes
                /\ tokens[i].version \in Int /\ tokens[i].started \in 0..MaxTime
                /\ tokens[i].deadline \in Int /\ tokens[i].exp \in Int /\ tokens[i].access \in Int
<1>1. /\ Len(tokens) \in Nat /\ DOMAIN tokens = 1..Len(tokens)
      /\ \A i \in DOMAIN tokens : tokens[i] \in Token
    BY LenProperties, ElementOfSeq DEF TypeOK
<1>. QED
    BY <1>1 DEF Token, Versions

\* s is t, perhaps blacklisted meanwhile.
SameClaims(s, t) ==
    /\ s.user = t.user /\ s.version = t.version /\ s.mode = t.mode /\ s.started = t.started
    /\ s.deadline = t.deadline /\ s.exp = t.exp /\ s.access = t.access /\ s.root = t.root
    /\ t.black => s.black

LEMMA SpentSame ==
    ASSUME TypeOK, NEW i \in DOMAIN tokens
    PROVE  /\ DOMAIN Spent(i) = DOMAIN tokens /\ Spent(i) \in Seq(Token)
           /\ Len(Spent(i)) = Len(tokens)
           /\ Spent(i)[i].black /\ SameClaims(Spent(i)[i], tokens[i])
           /\ \A k \in DOMAIN tokens : k # i => Spent(i)[k] = tokens[k]
<1>. DEFINE spent == [tokens[i] EXCEPT !.black = TRUE]
<1>1. tokens[i] \in Token
    BY TokenParts
<1>2. spent.black /\ SameClaims(spent, tokens[i])
    BY <1>1 DEF Token, SameClaims
<1>3. Spent(i) = [tokens EXCEPT ![i] = spent]
    BY DEF Spent
<1>. HIDE DEF spent
<1>4. Spent(i)[i] = spent /\ \A k \in DOMAIN tokens : k # i => Spent(i)[k] = tokens[k]
    BY <1>3
<1>5. Spent(i) \in Seq(Token) /\ Len(Spent(i)) = Len(tokens) /\ DOMAIN Spent(i) = DOMAIN tokens
    BY <1>3, SpentTokens
<1>. QED
    BY <1>2, <1>4, <1>5

LEMMA BlacklistedSame ==
    ASSUME TypeOK, NEW u \in Users
    PROVE  /\ DOMAIN Blacklisted(u) = DOMAIN tokens
           /\ \A k \in DOMAIN tokens :
                /\ SameClaims(Blacklisted(u)[k], tokens[k])
                /\ tokens[k].user # u => Blacklisted(u)[k] = tokens[k]
<1>1. DOMAIN Blacklisted(u) = DOMAIN tokens
    BY DEF Blacklisted
<1>2. ASSUME NEW k \in DOMAIN tokens
      PROVE  /\ SameClaims(Blacklisted(u)[k], tokens[k])
             /\ tokens[k].user # u => Blacklisted(u)[k] = tokens[k]
    <2>1. tokens[k] \in Token
        BY TokenParts
    <2>2. Blacklisted(u)[k] =
             IF tokens[k].user = u THEN [tokens[k] EXCEPT !.black = TRUE] ELSE tokens[k]
        BY DEF Blacklisted
    <2>3. /\ SameClaims([tokens[k] EXCEPT !.black = TRUE], tokens[k])
          /\ SameClaims(tokens[k], tokens[k])
        BY <2>1 DEF Token, SameClaims
    <2>. QED
        BY <2>2, <2>3
<1>. QED
    BY <1>1, <1>2

\* What every step does to tokens and accounts.
TokensAge ==
    /\ DOMAIN tokens \subseteq DOMAIN tokens'
    /\ \A i \in DOMAIN tokens : SameClaims(tokens'[i], tokens[i])
VersionsGrow == \A u \in Users : account'[u].version >= account[u].version
RolesStay == \A u \in Users : account[u].role \in Mobile => account'[u].role \in Mobile

LEMMA ChainChange ==
    ASSUME TypeOK, ChainInv, TokensAge, RolesStay,
           \A i \in DOMAIN tokens' \ DOMAIN tokens :
               /\ tokens'[i].root \in 1..i /\ tokens'[i].mode # "legacy"
               /\ Continues(tokens'[i], tokens'[tokens'[i].root]),
           \A q \in Requests : job'[q].at = "login" => job'[q].mode # "legacy",
           left' \subseteq DOMAIN tokens'
    PROVE  ChainInv'
<1>. SUFFICES ASSUME NEW i \in DOMAIN tokens
              PROVE  /\ tokens'[i].root \in 1..i
                     /\ Continues(tokens'[i], tokens'[tokens'[i].root])
                     /\ tokens'[i].mode = "legacy" => account'[tokens'[i].user].role \in Mobile
    BY DEF ChainInv
<1>1. /\ tokens[i].root \in 1..i /\ Continues(tokens[i], tokens[tokens[i].root])
      /\ tokens[i].mode = "legacy" => account[tokens[i].user].role \in Mobile
      /\ tokens[i].user \in Users
    BY TokenParts DEF ChainInv
<1>2. tokens[i].root \in DOMAIN tokens
    BY <1>1, TokenParts
<1>3. /\ SameClaims(tokens'[i], tokens[i])
      /\ SameClaims(tokens'[tokens[i].root], tokens[tokens[i].root])
    BY <1>2 DEF TokensAge
<1>4. tokens'[i].root = tokens[i].root /\ tokens'[i].mode = tokens[i].mode
      /\ tokens'[i].user = tokens[i].user
    BY <1>3 DEF SameClaims
<1>5. Continues(tokens'[i], tokens'[tokens[i].root])
    BY <1>1, <1>3 DEF SameClaims, Continues, Deadline
<1>. QED
    BY <1>1, <1>4, <1>5 DEF RolesStay

LEMMA StaleStays ==
    ASSUME Inv, TypeOK', TokensAge, VersionsGrow, NEW i \in DOMAIN tokens, Stale(i)
    PROVE  Stale(i)'
<1>1. PICK u \in Users : u = tokens[i].user
    BY TokenParts DEF Inv
<1>2. /\ tokens[i].version <= account[u].version /\ tokens[i].version # account[u].version
      /\ tokens[i].version \in Int
    BY <1>1, TokenParts DEF Inv, TokensTell, Current, Stale
<1>3. account[u].version \in Int /\ account'[u].version \in Int
    BY DEF Inv, TypeOK, Account, Versions
<1>4. tokens'[i].user = u /\ tokens'[i].version = tokens[i].version
    BY <1>1 DEF TokensAge, SameClaims
<1>5. account'[u].version # tokens[i].version
    BY <1>2, <1>3 DEF VersionsGrow
<1>. QED
    BY <1>4, <1>5 DEF Stale

\* A step that begins no rotation and blacklists only what it makes stale.
LEMMA LineFrame ==
    ASSUME Inv, TypeOK', LineInv, TokensAge, VersionsGrow, DOMAIN tokens' = DOMAIN tokens,
           UNCHANGED <<raced, left>>,
           \A i \in DOMAIN tokens : tokens'[i].black => tokens[i].black \/ Stale(i)',
           \A q \in Requests : job'[q].at = "rotate" => job'[q] = job[q]
    PROVE  LineInv'
<1>1. ASSUME NEW i \in DOMAIN tokens
      PROVE  /\ tokens'[i].root = tokens[i].root /\ (Ripe(i)' => Ripe(i))
             /\ ~tokens[i].black \/ Stale(i) => ~tokens'[i].black \/ Stale(i)'
    BY <1>1, StaleStays DEF TokensAge, SameClaims, Ripe
<1>2. \A i \in DOMAIN tokens, q \in Requests : Rotates(q, i)' => Rotates(q, i)
    BY DEF Rotates
<1>3. \A i, k \in DOMAIN tokens' :
          tokens'[i].root = tokens'[k].root /\ tokens'[i].root \notin raced'
              /\ Ripe(i)' /\ Ripe(k)' => i = k
    BY <1>1 DEF LineInv
<1>4. \A i \in DOMAIN tokens' :
          tokens'[i].root \notin raced' =>
              /\ tokens'[i].root \in left' => ~Ripe(i)'
              /\ \A q \in Requests : Rotates(q, i)' => ~tokens'[i].black \/ Stale(i)'
              /\ \A p, q \in Requests : Rotates(p, i)' /\ Rotates(q, i)' => p = q
    BY <1>1, <1>2 DEF LineInv
<1>. QED
    BY <1>3, <1>4 DEF LineInv

LinesInv == Inv /\ ChainInv /\ LineInv

\* A request that does not go on to issue tokens.
Quiet(q) ==
    \/ job'[q] = job[q]
    \/ job'[q].at \in {"idle", "refresh", "reset"}
    \/ job'[q].at = "login" /\ job'[q].mode # "legacy"

\* A step that only moves requests, the clock or reset codes.
LEMMA QuietStep ==
    ASSUME LinesInv, Inv', UNCHANGED <<account, tokens, raced, left>>,
           \A q \in Requests : Quiet(q)
    PROVE  LinesInv'
<1>1. TokensAge /\ VersionsGrow /\ RolesStay
    <2>1. \A u \in Users : account[u].version \in Int
        BY DEF LinesInv, Inv, TypeOK, Account, Versions
    <2>. QED
        BY <2>1 DEF TokensAge, SameClaims, VersionsGrow, RolesStay
<1>2. ChainInv'
    BY <1>1, ChainChange DEF LinesInv, Inv, ChainInv, Quiet
<1>3. LineInv'
    BY <1>1, LineFrame DEF LinesInv, Inv, Quiet
<1>. QED
    BY <1>2, <1>3 DEF LinesInv

\* A step that changes the account of u, and blacklists its tokens with a new version.
LEMMA AccountStep ==
    ASSUME LinesInv, Inv', NEW u \in Users, NEW a, account' = [account EXCEPT ![u] = a],
           a.version >= account[u].version, account[u].role \in Mobile => a.role \in Mobile,
           \/ tokens' = tokens
           \/ tokens' = Blacklisted(u) /\ a.version > account[u].version,
           UNCHANGED <<raced, left>>, \A q \in Requests : Quiet(q)
    PROVE  LinesInv'
<1>1. /\ account'[u] = a /\ \A w \in Users : w # u => account'[w] = account[w]
      /\ \A w \in Users : account[w].version \in Int
    BY DEF LinesInv, Inv, TypeOK, Account, Versions
<1>2. VersionsGrow /\ RolesStay
    BY <1>1 DEF VersionsGrow, RolesStay
<1>3. /\ DOMAIN tokens' = DOMAIN tokens /\ TokensAge
      /\ \A i \in DOMAIN tokens : tokens'[i].black => tokens[i].black \/ Stale(i)'
    <2>1. CASE tokens' = tokens
        BY <2>1 DEF TokensAge, SameClaims
    <2>2. CASE tokens' = Blacklisted(u) /\ a.version > account[u].version
        <3>1. /\ DOMAIN tokens' = DOMAIN tokens
              /\ \A i \in DOMAIN tokens :
                    /\ SameClaims(tokens'[i], tokens[i])
                    /\ tokens[i].user # u => tokens'[i] = tokens[i]
            BY <2>2, BlacklistedSame DEF LinesInv, Inv
        <3>2. ASSUME NEW i \in DOMAIN tokens, tokens[i].user = u
              PROVE  Stale(i)'
            <4>1. /\ tokens[i].version <= account[u].version /\ tokens[i].version \in Int
                  /\ account[u].version \in Int
                BY <1>1, <3>2, TokenParts DEF LinesInv, Inv, TokensTell, Current
            <4>2. a.version \in Int
                BY <1>1 DEF LinesInv, Inv, TypeOK, Account, Versions
            <4>3. tokens'[i].user = u /\ tokens'[i].version = tokens[i].version
                BY <3>1, <3>2 DEF SameClaims
            <4>4. a.version # tokens[i].version
                BY <2>2, <4>1, <4>2
            <4>. QED
                BY <1>1, <4>3, <4>4 DEF Stale
        <3>. QED
            BY <3>1, <3>2 DEF TokensAge
    <2>. QED
        BY <2>1, <2>2
<1>4. ChainInv'
    <2>1. DOMAIN tokens' \ DOMAIN tokens = {}
        BY <1>3
    <2>2. \A q \in Requests : job'[q].at = "login" => job'[q].mode # "legacy"
        BY DEF Quiet, LinesInv, ChainInv
    <2>3. left' \subseteq DOMAIN tokens'
        BY <1>3 DEF LinesInv, ChainInv
    <2>. QED
        BY <1>2, <1>3, <2>1, <2>2, <2>3, ChainChange DEF LinesInv, Inv
<1>5. LineInv'
    BY <1>2, <1>3, LineFrame DEF LinesInv, Inv, Quiet
<1>. QED
    BY <1>4, <1>5 DEF LinesInv

\* A new pair opens its session.
LEMMA NewPairContinues ==
    ASSUME SessionConstants, TypeOK, NEW u, NEW mode \in Modes \ {"legacy"}, NEW version,
           NEW epoch, NEW first, first = NewPair(u, mode, version, epoch)
    PROVE  /\ Continues(first, first) /\ first.root = Len(tokens) + 1 /\ first.mode # "legacy"
<1>1. now \in Int /\ AccessLife \in Int /\ Lifetime(mode) \in Int
    BY Lifetimes DEF TypeOK, SessionConstants
<1>2. /\ first.mode = mode /\ first.started = now /\ first.root = Len(tokens) + 1
      /\ first.deadline = IF Absolute(mode) THEN now + Lifetime(mode) ELSE NoDeadline
      /\ first.exp = now + Lifetime(mode)
      /\ first.access = Earlier(now + Lifetime(mode), now + AccessLife)
    BY DEF NewPair
<1>3. first.access <= first.exp
    BY <1>1, <1>2 DEF Earlier
<1>4. ASSUME mode \notin {"persistent", "plain"}
      PROVE  /\ Deadline(first) = first.started + Life(first.mode)
             /\ first.access <= Deadline(first) /\ first.exp <= Deadline(first)
    <2>1. Deadline(first) = now + Lifetime(mode) /\ Lifetime(mode) = Life(mode)
        BY <1>2, <1>4 DEF Deadline, Absolute, Lifetime, Life, Modes
    <2>. QED
        BY <1>1, <1>2, <1>3, <2>1
<1>. QED
    BY <1>2, <1>4 DEF Continues

\* A rotated pair continues the session of its token.
LEMMA RotatedPairContinues ==
    ASSUME SessionConstants, TypeOK, NEW t \in Token, NEW first \in Token, Continues(t, first),
           NEW new, new = RotatedPair(t)
    PROVE  /\ Continues(new, first) /\ new.root = t.root /\ new.mode # "legacy"
           /\ new.user = t.user /\ new.version = t.version
<1>. DEFINE exp == IF Deadline(t) # NoDeadline THEN Deadline(t) ELSE now + Lifetime(t.mode)
<1>1. /\ t.mode \in Modes /\ first.mode \in Modes /\ first.started \in 0..MaxTime
      /\ now \in Int /\ AccessLife \in Int
    BY DEF Token, TypeOK, SessionConstants
<1>2. /\ new.mode = (IF t.mode = "legacy" THEN "temporary" ELSE t.mode)
      /\ new.deadline = Deadline(t) /\ new.exp = exp
      /\ new.access = Earlier(exp, now + AccessLife)
      /\ new.root = t.root /\ new.user = t.user /\ new.version = t.version
    BY DEF RotatedPair, Token
<1>3. Lifetime(t.mode) \in Int /\ Deadline(t) \in Int
    BY <1>1, Lifetimes, DeadlineType DEF NoDeadline, SessionConstants
<1>4. exp \in Int /\ new.access <= exp
    BY <1>1, <1>2, <1>3 DEF Earlier
<1>5. ASSUME first.mode \notin {"persistent", "plain"}
      PROVE  /\ Deadline(new) = first.started + Life(first.mode)
             /\ new.access <= Deadline(new) /\ new.exp <= Deadline(new)
    <2>1. Deadline(t) = first.started + Life(first.mode)
        BY <1>5 DEF Continues
    <2>2. Deadline(t) # NoDeadline
        BY <1>1, <2>1 DEF Life, NoDeadline, SessionConstants
    <2>3. Deadline(new) = Deadline(t)
        BY <1>2 DEF Deadline
    <2>. QED
        BY <1>2, <1>3, <1>4, <2>1, <2>2, <2>3
<1>. QED
    BY <1>2, <1>5 DEF Continues

LEMMA LoginIssueLines ==
    ASSUME SessionConstants, LinesInv, Inv', NEW q \in Requests, LoginIssue(q)
    PROVE  LinesInv'
<1>. DEFINE j == job[q]
            new == NewPair(j.user, j.mode, j.version, j.epoch)
            n == Len(tokens) + 1
<1>1. /\ j.at = "login" /\ Finish(q) /\ tokens' = Append(tokens, new)
      /\ UNCHANGED <<now, code, revoked, raced, left>>
      /\ account' = [account EXCEPT ![j.user] = [account[j.user] EXCEPT !.signedIn = TRUE]]
    BY DEF LoginIssue, SignIn
<1>2. /\ j.user \in Users /\ j.version \in Versions /\ j.epoch \in 0..MaxChanges
      /\ j.mode \in Modes /\ j.mode # "legacy"
    BY <1>1 DEF LinesInv, Inv, TypeOK, JobsTell, ChainInv
<1>3. Continues(new, new) /\ new.root = n /\ new.mode # "legacy"
    BY <1>2, NewPairContinues DEF LinesInv, Inv
<1>4. /\ tokens \in Seq(Token) /\ Len(tokens) \in Nat /\ DOMAIN tokens = 1..Len(tokens)
    BY TokenParts DEF LinesInv, Inv, TypeOK
<1>5. tokens' \in Seq(Token) /\ DOMAIN tokens' = 1..Len(tokens')
    BY LenProperties DEF Inv, TypeOK
<1>6. Len(tokens') = n /\ tokens'[n] = new /\ \A i \in DOMAIN tokens : tokens'[i] = tokens[i]
    <2>1. new \in Token
        <3>1. Len(tokens) < MaxTokens
            BY DEF LoginIssue
        <3>. QED
            BY <1>2, <3>1, NewPairType DEF LinesInv, Inv
    <2>. HIDE DEF new
    <2>. QED
        BY <1>1, <1>4, <2>1, AppendProperties
<1>. HIDE DEF new
<1>7. /\ TokensAge /\ DOMAIN tokens' = DOMAIN tokens \cup {n}
    BY <1>4, <1>5, <1>6 DEF TokensAge, SameClaims
<1>8. \A u \in Users : /\ account'[u].version = account[u].version
                       /\ account'[u].role = account[u].role
    <2>. DEFINE a == [account[j.user] EXCEPT !.signedIn = TRUE]
    <2>1. a.version = account[j.user].version /\ a.role = account[j.user].role
        BY <1>2 DEF LinesInv, Inv, TypeOK, Account
    <2>2. account' = [account EXCEPT ![j.user] = a]
        BY <1>1
    <2>. HIDE DEF a
    <2>. QED
        BY <1>2, <2>1, <2>2 DEF LinesInv, Inv, TypeOK
<1>9. \A p \in Requests : job'[p] = job[p] \/ job'[p].at = "idle"
    BY <1>1, IdleJob DEF LinesInv
<1>10. ChainInv'
    <2>1. RolesStay
        BY <1>8 DEF RolesStay
    <2>2. \A i \in DOMAIN tokens' \ DOMAIN tokens :
               /\ tokens'[i].root \in 1..i /\ tokens'[i].mode # "legacy"
               /\ Continues(tokens'[i], tokens'[tokens'[i].root])
        BY <1>3, <1>4, <1>6, <1>7
    <2>3. \A p \in Requests : job'[p].at = "login" => job'[p].mode # "legacy"
        BY <1>9 DEF LinesInv, ChainInv
    <2>4. left' \subseteq DOMAIN tokens'
        BY <1>1, <1>7 DEF LinesInv, ChainInv
    <2>. QED
        BY <1>7, <2>1, <2>2, <2>3, <2>4, ChainChange DEF LinesInv, Inv
<1>11. LineInv'
    <2>1. \A i \in DOMAIN tokens : /\ (Ripe(i)' <=> Ripe(i)) /\ (Stale(i)' <=> Stale(i))
                                   /\ tokens'[i] = tokens[i] /\ tokens[i].root # n
                                   /\ tokens[i].root \in 1..i
        BY <1>4, <1>6, <1>8, TokenParts DEF Ripe, Stale, LinesInv, ChainInv, Inv
    <2>2. \A p \in Requests, i \in DOMAIN tokens' : Rotates(p, i)' =>
              Rotates(p, i) /\ i \in DOMAIN tokens
        BY <1>9 DEF Rotates, LinesInv, Inv, JobsTell
    <2>3. n \notin left
        BY <1>4 DEF LinesInv, ChainInv
    <2>4. \A i, k \in DOMAIN tokens' :
              tokens'[i].root = tokens'[k].root /\ tokens'[i].root \notin raced'
                  /\ Ripe(i)' /\ Ripe(k)' => i = k
        <3>. SUFFICES ASSUME NEW i \in DOMAIN tokens', NEW k \in DOMAIN tokens',
                             tokens'[i].root = tokens'[k].root, tokens'[i].root \notin raced,
                             Ripe(i)', Ripe(k)'
                      PROVE  i = k
            BY <1>1
        <3>1. CASE i \in DOMAIN tokens /\ k \in DOMAIN tokens
            BY <2>1, <3>1 DEF LinesInv, LineInv
        <3>2. CASE i = n \/ k = n
            BY <1>3, <1>6, <1>7, <2>1, <3>2
        <3>. QED
            BY <1>7, <3>1, <3>2
    <2>5. ASSUME NEW i \in DOMAIN tokens', tokens'[i].root \notin raced'
          PROVE  /\ tokens'[i].root \in left' => ~Ripe(i)'
                 /\ \A p \in Requests : Rotates(p, i)' => ~tokens'[i].black \/ Stale(i)'
                 /\ \A p, r \in Requests : Rotates(p, i)' /\ Rotates(r, i)' => p = r
        <3>1. CASE i \in DOMAIN tokens
            BY <1>1, <2>1, <2>2, <2>5, <3>1 DEF LinesInv, LineInv
        <3>2. CASE i = n
            <4>1. i \notin DOMAIN tokens
                BY <1>4, <3>2
            <4>. QED
                BY <1>1, <1>3, <1>6, <2>2, <2>3, <3>2, <4>1
        <3>. QED
            BY <1>7, <3>1, <3>2
    <2>. QED
        BY <2>4, <2>5 DEF LineInv
<1>. QED
    BY <1>10, <1>11 DEF LinesInv

\* The token a rotation is about, once checked, is not blacklisted, or the session raced.
LEMMA RefreshVerifyLines ==
    ASSUME SessionConstants, LinesInv, Inv', NEW q \in Requests, RefreshVerify(q)
    PROVE  LinesInv'
<1>1. PICK i \in DOMAIN tokens : i = job[q].token
    BY DEF RefreshVerify, LinesInv, Inv, JobsTell
<1>2. UNCHANGED <<account, tokens, left>> /\ job[q].at = "refresh"
    BY DEF RefreshVerify
<1>3. CASE Finish(q) /\ UNCHANGED raced
    <2>1. \A p \in Requests : Quiet(p)
        BY <1>3, IdleJob DEF LinesInv, Quiet
    <2>. QED
        BY <1>2, <1>3, <2>1, QuietStep
<1>4. CASE /\ ~tokens[i].black
           /\ job' = [job EXCEPT ![q] = [@ EXCEPT !.at = "rotate"]]
           /\ raced' = IF Rotating(i) = {} THEN raced ELSE raced \cup {tokens[i].root}
    <2>1. /\ job'[q].at = "rotate" /\ job'[q].token = i
          /\ \A p \in Requests : p # q => job'[p] = job[p]
        BY <1>1, <1>4 DEF LinesInv, Inv, TypeOK, Job
    <2>2. /\ TokensAge /\ VersionsGrow /\ RolesStay
          /\ \A k : (Ripe(k)' <=> Ripe(k)) /\ (Stale(k)' <=> Stale(k))
        <3>1. \A u \in Users : account[u].version \in Int
            BY DEF LinesInv, Inv, TypeOK, Account, Versions
        <3>. QED
            BY <1>2, <3>1 DEF TokensAge, SameClaims, VersionsGrow, RolesStay, Ripe, Stale
    <2>3. ChainInv'
        BY <1>2, <2>1, <2>2, ChainChange DEF LinesInv, Inv, ChainInv
    <2>4. \A k \in DOMAIN tokens : tokens'[k].root \notin raced' => tokens[k].root \notin raced
        BY <1>2, <1>4
    <2>5. \A p \in Requests, k \in DOMAIN tokens :
              Rotates(p, k)' => Rotates(p, k) \/ (p = q /\ k = i)
        BY <2>1 DEF Rotates
    <2>6. tokens[i].root \notin raced' => \A p \in Requests : ~Rotates(p, i)
        BY <1>4 DEF Rotating, Rotates
    <2>7. \A k, m \in DOMAIN tokens' :
              tokens'[k].root = tokens'[m].root /\ tokens'[k].root \notin raced'
                  /\ Ripe(k)' /\ Ripe(m)' => k = m
        BY <1>2, <2>2, <2>4 DEF LinesInv, LineInv
    <2>8. \A k \in DOMAIN tokens' :
              tokens'[k].root \notin raced' =>
                  /\ tokens'[k].root \in left' => ~Ripe(k)'
                  /\ \A p \in Requests : Rotates(p, k)' => ~tokens'[k].black \/ Stale(k)'
                  /\ \A p, r \in Requests : Rotates(p, k)' /\ Rotates(r, k)' => p = r
        BY <1>2, <1>4, <2>2, <2>4, <2>5, <2>6 DEF LinesInv, LineInv
    <2>. QED
        BY <2>3, <2>7, <2>8 DEF LinesInv, LineInv
<1>. QED
    BY <1>1, <1>3, <1>4 DEF RefreshVerify

\* Tokens of a session carry the same user and version: all are stale or none is.
LEMMA SessionStale ==
    ASSUME Inv, ChainInv, NEW i \in DOMAIN tokens, NEW k \in DOMAIN tokens,
           tokens[i].root = tokens[k].root
    PROVE  Stale(i) <=> Stale(k)
BY DEF ChainInv, Continues, Stale

\* Blacklisting token i, perhaps for a new pair that continues its session.
LEMMA SpentLines ==
    ASSUME LinesInv, Inv', NEW i \in DOMAIN tokens, UNCHANGED account,
           \A k \in DOMAIN tokens : k # i => tokens'[k] = tokens[k],
           tokens'[i].black, SameClaims(tokens'[i], tokens[i]),
           raced \subseteq raced', left \subseteq left',
           left' \subseteq left \cup {tokens[i].root},
           tokens[i].root \in left' \ raced' => DOMAIN tokens' = DOMAIN tokens \/ Stale(i),
           tokens[i].root \in left' \ raced' => ~tokens[i].black \/ tokens[i].root \in left,
           \A q \in Requests : job'[q] = job[q] \/ job'[q].at = "idle",
           tokens[i].root \notin raced' => \A q \in Requests : ~Rotates(q, i)' \/ Stale(i),
           \/ DOMAIN tokens' = DOMAIN tokens
           \/ \E n \in DOMAIN tokens' \ DOMAIN tokens :
                 /\ DOMAIN tokens' = DOMAIN tokens \cup {n}
                 /\ tokens[i].root \in 1..n /\ tokens'[n].root = tokens[i].root
                 /\ tokens'[n].mode # "legacy"
                 /\ Continues(tokens'[n], tokens[tokens[i].root])
                 /\ tokens'[n].user = tokens[i].user /\ tokens'[n].version = tokens[i].version
                 /\ tokens[i].root \notin raced => ~tokens[i].black \/ Stale(i)
    PROVE  LinesInv'
<1>1. /\ DOMAIN tokens \subseteq DOMAIN tokens'
      /\ \A k \in DOMAIN tokens :
            /\ SameClaims(tokens'[k], tokens[k])
            /\ k # i => tokens'[k].black = tokens[k].black
    BY DEF SameClaims
<1>2. TokensAge /\ VersionsGrow /\ RolesStay
    <2>1. \A u \in Users : account[u].version \in Int
        BY DEF LinesInv, Inv, TypeOK, Account, Versions
    <2>. QED
        BY <1>1, <2>1 DEF TokensAge, VersionsGrow, RolesStay
<1>3. /\ tokens[i].root \in DOMAIN tokens
      /\ \A k \in DOMAIN tokens : tokens'[k].root = tokens[k].root
    BY <1>1, TokenParts DEF LinesInv, ChainInv, Inv, SameClaims
<1>4. \A k \in DOMAIN tokens : (Stale(k)' <=> Stale(k)) /\ (Ripe(k)' <=> Ripe(k) /\ k # i)
    BY <1>1 DEF SameClaims, Stale, Ripe
<1>5. \A n \in DOMAIN tokens' \ DOMAIN tokens :
          /\ tokens'[n].root \in 1..n /\ tokens'[n].mode # "legacy"
          /\ Continues(tokens'[n], tokens'[tokens'[n].root])
          /\ tokens'[n].root = tokens[i].root
          /\ Stale(n)' <=> Stale(i)
          /\ DOMAIN tokens' = DOMAIN tokens \cup {n}
          /\ tokens[i].root \notin raced => ~tokens[i].black \/ Stale(i)
    <2>. SUFFICES ASSUME NEW n \in DOMAIN tokens' \ DOMAIN tokens
                  PROVE  /\ tokens'[n].root \in 1..n /\ tokens'[n].mode # "legacy"
                         /\ Continues(tokens'[n], tokens'[tokens'[n].root])
                         /\ tokens'[n].root = tokens[i].root
                         /\ Stale(n)' <=> Stale(i)
                         /\ DOMAIN tokens' = DOMAIN tokens \cup {n}
                         /\ tokens[i].root \notin raced => ~tokens[i].black \/ Stale(i)
        OBVIOUS
    <2>1. /\ DOMAIN tokens' = DOMAIN tokens \cup {n}
          /\ tokens[i].root \in 1..n /\ tokens'[n].root = tokens[i].root
          /\ tokens'[n].mode # "legacy"
          /\ Continues(tokens'[n], tokens[tokens[i].root])
          /\ tokens'[n].user = tokens[i].user /\ tokens'[n].version = tokens[i].version
          /\ tokens[i].root \notin raced => ~tokens[i].black \/ Stale(i)
        OBVIOUS
    <2>2. SameClaims(tokens'[tokens[i].root], tokens[tokens[i].root])
        BY <1>1, <1>3
    <2>3. Continues(tokens'[n], tokens'[tokens[i].root])
        BY <2>1, <2>2 DEF Continues, SameClaims
    <2>4. Stale(n)' <=> Stale(i)
        BY <2>1 DEF Stale
    <2>. QED
        BY <2>1, <2>3, <2>4
<1>6. ChainInv'
    <2>1. \A q \in Requests : job'[q].at = "login" => job'[q].mode # "legacy"
        BY DEF LinesInv, ChainInv
    <2>2. left' \subseteq DOMAIN tokens'
        BY <1>1, <1>3 DEF LinesInv, ChainInv
    <2>. QED
        BY <1>2, <1>5, <2>1, <2>2, ChainChange DEF LinesInv, Inv
\* A ripe token i is the only one of its session, and a stale one has only stale siblings.
<1>7. \A k \in DOMAIN tokens :
          tokens[k].root = tokens[i].root /\ tokens[i].root \notin raced' /\ Ripe(k)' =>
              tokens[i].black /\ ~Stale(i)
    <2>. SUFFICES ASSUME NEW k \in DOMAIN tokens, tokens[k].root = tokens[i].root,
                         tokens[i].root \notin raced', Ripe(k)'
                  PROVE  tokens[i].black /\ ~Stale(i)
        OBVIOUS
    <2>1. Ripe(k) /\ k # i /\ tokens[i].root \notin raced
        BY <1>4
    <2>2. ~Stale(i)
        BY <2>1, SessionStale DEF Ripe, LinesInv
    <2>3. ~Ripe(i)
        BY <2>1 DEF LinesInv, LineInv
    <2>. QED
        BY <2>2, <2>3 DEF Ripe
<1>8. \A k, m \in DOMAIN tokens' :
          tokens'[k].root = tokens'[m].root /\ tokens'[k].root \notin raced'
              /\ Ripe(k)' /\ Ripe(m)' => k = m
    <2>. SUFFICES ASSUME NEW k \in DOMAIN tokens', NEW m \in DOMAIN tokens',
                         tokens'[k].root = tokens'[m].root, tokens'[k].root \notin raced',
                         Ripe(k)', Ripe(m)'
                  PROVE  k = m
        OBVIOUS
    <2>1. CASE k \in DOMAIN tokens /\ m \in DOMAIN tokens
        BY <1>3, <1>4, <2>1 DEF LinesInv, LineInv
    <2>2. CASE k \notin DOMAIN tokens /\ m \notin DOMAIN tokens
        BY <1>5, <2>2
    <2>3. CASE k \in DOMAIN tokens /\ m \notin DOMAIN tokens
        BY <1>3, <1>5, <1>7, <2>3 DEF Ripe
    <2>4. CASE k \notin DOMAIN tokens /\ m \in DOMAIN tokens
        BY <1>3, <1>5, <1>7, <2>4 DEF Ripe
    <2>. QED
        BY <2>1, <2>2, <2>3, <2>4
<1>9. \A q \in Requests, k \in DOMAIN tokens' :
          Rotates(q, k)' => Rotates(q, k) /\ k \in DOMAIN tokens
    BY DEF Rotates, LinesInv, Inv, JobsTell
<1>10. ASSUME NEW k \in DOMAIN tokens', tokens'[k].root \notin raced'
       PROVE  /\ tokens'[k].root \in left' => ~Ripe(k)'
              /\ \A q \in Requests : Rotates(q, k)' => ~tokens'[k].black \/ Stale(k)'
              /\ \A p, q \in Requests : Rotates(p, k)' /\ Rotates(q, k)' => p = q
    <2>1. CASE k \in DOMAIN tokens
        <3>1. tokens[k].root \notin raced /\ tokens'[k].root = tokens[k].root
            BY <1>3, <1>10, <2>1
        <3>2. ASSUME tokens[k].root \in left', Ripe(k)'
              PROVE  FALSE
            <4>1. Ripe(k) /\ tokens[k].root \notin left
                BY <1>4, <2>1, <3>1, <3>2 DEF LinesInv, LineInv
            <4>2. tokens[k].root = tokens[i].root
                BY <3>2, <4>1
            <4>. QED
                BY <1>7, <1>10, <2>1, <3>1, <3>2, <4>1, <4>2
        <3>3. \A q \in Requests : Rotates(q, k)' => ~tokens'[k].black \/ Stale(k)'
            <4>1. CASE k = i
                BY <1>4, <1>10, <3>1, <4>1
            <4>2. CASE k # i
                BY <1>1, <1>4, <1>9, <2>1, <3>1, <4>2 DEF LinesInv, LineInv
            <4>. QED
                BY <4>1, <4>2
        <3>4. \A p, q \in Requests : Rotates(p, k)' /\ Rotates(q, k)' => p = q
            BY <1>9, <2>1, <3>1 DEF LinesInv, LineInv
        <3>. QED
            BY <3>1, <3>2, <3>3, <3>4
    <2>2. CASE k \notin DOMAIN tokens
        BY <1>5, <1>9, <1>10, <2>2 DEF Ripe
    <2>. QED
        BY <2>1, <2>2
<1>. QED
    BY <1>6, <1>8, <1>10 DEF LinesInv, LineInv

LEMMA RefreshRotateLines ==
    ASSUME SessionConstants, LinesInv, Inv', NEW q \in Requests, RefreshRotate(q)
    PROVE  LinesInv'
<1>1. PICK i \in DOMAIN tokens : i = job[q].token
    BY DEF RefreshRotate, LinesInv, Inv, JobsTell
<1>. DEFINE new == RotatedPair(tokens[i])
            n == Len(tokens) + 1
<1>2. /\ job[q].at = "rotate" /\ Finish(q)
      /\ UNCHANGED <<now, account, courier, code, revoked, raced, left>>
      /\ \/ tokens' = Spent(i)
         \/ Len(tokens) < MaxTokens /\ tokens' = Append(Spent(i), new)
    BY <1>1 DEF RefreshRotate
<1>3. /\ tokens[i] \in Token /\ Len(tokens) \in Nat /\ DOMAIN tokens = 1..Len(tokens)
      /\ tokens[i].root \in 1..i
    BY TokenParts DEF LinesInv, Inv, ChainInv
<1>4. tokens[i].root \in DOMAIN tokens /\ tokens[tokens[i].root] \in Token
    BY <1>3, TokenParts DEF LinesInv, Inv
<1>5. Continues(tokens[i], tokens[tokens[i].root])
    BY DEF LinesInv, ChainInv
<1>6. /\ new \in Token /\ Continues(new, tokens[tokens[i].root]) /\ new.root = tokens[i].root
      /\ new.mode # "legacy" /\ new.user = tokens[i].user /\ new.version = tokens[i].version
    BY <1>3, <1>4, <1>5, RotatedPairContinues, RotatedPairType DEF LinesInv, Inv
<1>. HIDE DEF new
<1>7. /\ DOMAIN Spent(i) = DOMAIN tokens /\ Spent(i) \in Seq(Token)
      /\ Len(Spent(i)) = Len(tokens)
      /\ Spent(i)[i].black /\ SameClaims(Spent(i)[i], tokens[i])
      /\ \A k \in DOMAIN tokens : k # i => Spent(i)[k] = tokens[k]
    BY SpentSame DEF LinesInv, Inv
<1>8. Rotates(q, i)
    BY <1>1, <1>2 DEF Rotates
<1>9. job'[q].at = "idle" /\ \A p \in Requests : job'[p] = job[p] \/ job'[p].at = "idle"
    BY <1>2, IdleJob, IdleType DEF Finish, LinesInv, Inv, TypeOK
<1>10. tokens[i].root \notin raced => ~tokens[i].black \/ Stale(i)
    BY <1>8 DEF LinesInv, LineInv
<1>11. tokens[i].root \in left' \ raced' => Stale(i) /\ tokens[i].root \in left
    BY <1>2, <1>10 DEF LinesInv, LineInv, Ripe
<1>12. tokens[i].root \notin raced' => \A p \in Requests : ~Rotates(p, i)' \/ Stale(i)
    <2>. SUFFICES ASSUME NEW p \in Requests, Rotates(p, i)', tokens[i].root \notin raced
                  PROVE  FALSE
        BY <1>2
    <2>1. Rotates(p, i) /\ p # q
        BY <1>9 DEF Rotates
    <2>. QED
        BY <1>8, <2>1 DEF LinesInv, LineInv
<1>13. \/ tokens' = Spent(i)
       \/ /\ DOMAIN tokens' = DOMAIN tokens \cup {n} /\ tokens'[n] = new
          /\ \A k \in DOMAIN tokens : tokens'[k] = Spent(i)[k]
    <2>. SUFFICES ASSUME tokens' = Append(Spent(i), new)
                  PROVE  /\ DOMAIN tokens' = DOMAIN tokens \cup {n} /\ tokens'[n] = new
                         /\ \A k \in DOMAIN tokens : tokens'[k] = Spent(i)[k]
        BY <1>2
    <2>1. /\ Append(Spent(i), new) \in Seq(Token) /\ Len(tokens') = n /\ tokens'[n] = new
          /\ \A k \in 1..Len(tokens) : tokens'[k] = Spent(i)[k]
        BY <1>6, <1>7, AppendProperties
    <2>2. DOMAIN tokens' = 1..n
        BY <2>1, LenProperties
    <2>. QED
        BY <1>3, <2>1, <2>2
<1>14. n \notin DOMAIN tokens /\ tokens[i].root \in 1..n
    BY <1>3
<1>15. CASE tokens' = Spent(i)
    <2>1. /\ DOMAIN tokens' = DOMAIN tokens
          /\ tokens'[i].black /\ SameClaims(tokens'[i], tokens[i])
          /\ \A k \in DOMAIN tokens : k # i => tokens'[k] = tokens[k]
        BY <1>7, <1>15
    <2>2. /\ raced \subseteq raced'
          /\ left \subseteq left' /\ left' \subseteq left \cup {tokens[i].root}
        BY <1>2
    <2>3. /\ tokens[i].root \in left' \ raced' => DOMAIN tokens' = DOMAIN tokens \/ Stale(i)
          /\ tokens[i].root \in left' \ raced' => ~tokens[i].black \/ tokens[i].root \in left
        BY <1>11
    <2>. QED
        BY <1>2, <1>9, <1>12, <2>1, <2>2, <2>3, SpentLines
<1>16. CASE /\ DOMAIN tokens' = DOMAIN tokens \cup {n} /\ tokens'[n] = new
            /\ \A k \in DOMAIN tokens : tokens'[k] = Spent(i)[k]
    <2>1. /\ tokens'[i].black /\ SameClaims(tokens'[i], tokens[i])
          /\ \A k \in DOMAIN tokens : k # i => tokens'[k] = tokens[k]
        BY <1>7, <1>16
    <2>2. /\ raced \subseteq raced'
          /\ left \subseteq left' /\ left' \subseteq left \cup {tokens[i].root}
        BY <1>2
    <2>3. /\ tokens[i].root \in left' \ raced' => DOMAIN tokens' = DOMAIN tokens \/ Stale(i)
          /\ tokens[i].root \in left' \ raced' => ~tokens[i].black \/ tokens[i].root \in left
        BY <1>11
    <2>4. n \in DOMAIN tokens' \ DOMAIN tokens
        BY <1>14, <1>16
    <2>5. \E m \in DOMAIN tokens' \ DOMAIN tokens :
             /\ DOMAIN tokens' = DOMAIN tokens \cup {m}
             /\ tokens[i].root \in 1..m /\ tokens'[m].root = tokens[i].root
             /\ tokens'[m].mode # "legacy"
             /\ Continues(tokens'[m], tokens[tokens[i].root])
             /\ tokens'[m].user = tokens[i].user /\ tokens'[m].version = tokens[i].version
             /\ tokens[i].root \notin raced => ~tokens[i].black \/ Stale(i)
        BY <1>6, <1>10, <1>14, <1>16, <2>4
    <2>. QED
        BY <1>2, <1>9, <1>12, <2>1, <2>2, <2>3, <2>5, SpentLines
<1>. QED
    BY <1>13, <1>15, <1>16

LEMMA LogoutLines ==
    ASSUME SessionConstants, LinesInv, Inv', NEW i \in DOMAIN tokens, Logout(i)
    PROVE  LinesInv'
<1>1. /\ ~tokens[i].black /\ tokens' = Spent(i) /\ left' = left \cup {tokens[i].root}
      /\ raced' = IF Rotating(i) = {} THEN raced ELSE raced \cup {tokens[i].root}
      /\ UNCHANGED <<now, account, courier, code, job, revoked>>
    BY DEF Logout
<1>2. /\ DOMAIN tokens' = DOMAIN tokens
      /\ tokens'[i].black /\ SameClaims(tokens'[i], tokens[i])
      /\ \A k \in DOMAIN tokens : k # i => tokens'[k] = tokens[k]
    BY <1>1, SpentSame DEF LinesInv, Inv
<1>3. tokens[i].root \notin raced' => \A q \in Requests : ~Rotates(q, i)' \/ Stale(i)
    BY <1>1 DEF Rotating, Rotates
<1>4. raced \subseteq raced' /\ left \subseteq left' /\ left' \subseteq left \cup {tokens[i].root}
    BY <1>1
<1>5. /\ tokens[i].root \in left' \ raced' => DOMAIN tokens' = DOMAIN tokens \/ Stale(i)
      /\ tokens[i].root \in left' \ raced' => ~tokens[i].black \/ tokens[i].root \in left
      /\ \A q \in Requests : job'[q] = job[q] \/ job'[q].at = "idle"
    BY <1>1, <1>2
<1>. QED
    BY <1>1, <1>2, <1>3, <1>4, <1>5, SpentLines

LEMMA ResetCommitLines ==
    ASSUME SessionConstants, LinesInv, Inv', NEW q \in Requests, ResetCommit(q)
    PROVE  LinesInv'
<1>1. PICK u \in Users : u = job[q].user
    BY DEF ResetCommit, LinesInv, Inv, JobsTell
<1>. DEFINE a == [account[u] EXCEPT !.version = account[u].version + 1]
<1>2. /\ Finish(q) /\ UNCHANGED <<raced, left>>
      /\ \/ account' = [account EXCEPT ![u] = a] /\ tokens' = Blacklisted(u)
         \/ UNCHANGED <<account, tokens>>
    BY <1>1 DEF ResetCommit
<1>3. \A p \in Requests : Quiet(p)
    BY <1>2, IdleJob DEF LinesInv, Quiet
<1>4. /\ account[u] \in Account /\ account[u].version \in Int
    BY DEF LinesInv, Inv, TypeOK, Account, Versions
<1>5. a.version > account[u].version /\ a.version >= account[u].version
      /\ a.role = account[u].role
    BY <1>4 DEF Account
<1>. HIDE DEF a
<1>. QED
    BY <1>2, <1>3, <1>5, AccountStep, QuietStep

LEMMA DeleteAccountLines ==
    ASSUME SessionConstants, LinesInv, Inv', NEW i \in DOMAIN tokens, DeleteAccount(i)
    PROVE  LinesInv'
<1>1. PICK u \in Users : u = tokens[i].user
    BY TokenParts DEF LinesInv, Inv
<1>. DEFINE a == [account[u] EXCEPT !.version = account[u].version + 1, !.active = FALSE,
                                    !.deleted = TRUE]
<1>2. /\ account' = [account EXCEPT ![u] = a] /\ tokens' = Blacklisted(u)
      /\ UNCHANGED <<job, raced, left>>
    BY <1>1 DEF DeleteAccount
<1>3. \A p \in Requests : Quiet(p)
    BY <1>2 DEF Quiet
<1>4. /\ account[u] \in Account /\ account[u].version \in Int
    BY DEF LinesInv, Inv, TypeOK, Account, Versions
<1>5. a.version > account[u].version /\ a.version >= account[u].version
      /\ a.role = account[u].role
    BY <1>4 DEF Account
<1>. HIDE DEF a
<1>. QED
    BY <1>2, <1>3, <1>5, AccountStep

LEMMA AdminPatchLines ==
    ASSUME SessionConstants, LinesInv, Inv', NEW u \in Users, NEW role \in RoleChoices(u),
           NEW active \in BOOLEAN, NEW password \in BOOLEAN,
           NEW profile \in {"keep", "on", "off"},
           AdminPatch(u, role, active, password, profile)
    PROVE  LinesInv'
<1>. DEFINE disabled == account[u].active /\ ~active
            revokesClient == disabled /\ role = "client"
            revokesCourier == disabled /\ account[u].role = "representative"
            reasons == {k \in 1..3 : \/ k = 1 /\ password
                                     \/ k = 2 /\ revokesClient
                                     \/ k = 3 /\ revokesCourier}
            bumps == Cardinality(reasons)
            a == [account[u] EXCEPT !.version = account[u].version + bumps, !.role = role,
                                    !.active = active]
<1>1. IsFiniteSet(reasons) /\ bumps \in 0..3
    BY Reasons
<1>2. revokesClient => bumps > 0
    <2>. SUFFICES ASSUME revokesClient PROVE bumps > 0
        OBVIOUS
    <2>1. 2 \in reasons
        OBVIOUS
    <2>2. bumps # 0
        BY <1>1, <2>1, FS_EmptySet
    <2>. QED
        BY <1>1, <2>2
<1>3. /\ account' = [account EXCEPT ![u] = a]
      /\ tokens' = IF revokesClient THEN Blacklisted(u) ELSE tokens
      /\ UNCHANGED <<job, raced, left>>
    BY DEF AdminPatch
<1>. HIDE DEF bumps, revokesClient
<1>4. /\ account[u] \in Account /\ account[u].version \in Int
    BY DEF LinesInv, Inv, TypeOK, Account, Versions
<1>5. a.version = account[u].version + bumps /\ a.role = role
    BY <1>4 DEF Account
<1>6. account[u].role \in Mobile => a.role \in Mobile
    BY <1>5 DEF RoleChoices
<1>. HIDE DEF a
<1>7. /\ a.version >= account[u].version
      /\ revokesClient => a.version > account[u].version
    BY <1>1, <1>2, <1>4, <1>5
<1>8. \A p \in Requests : Quiet(p)
    BY <1>3 DEF Quiet
<1>. QED
    BY <1>3, <1>6, <1>7, <1>8, AccountStep

LEMMA LinesInit ==
    ASSUME SessionConstants, Init
    PROVE  LinesInv
<1>1. Inv
    BY InitInv
<1>2. PICK role \in [Users -> Roles] :
        /\ account = [u \in Users |->
            [role |-> role[u], active |-> TRUE, deleted |-> FALSE, version |-> 0,
             signedIn |-> FALSE]]
        /\ tokens \in {<<>>} \cup {<<LegacyToken(u)>> : u \in {v \in Users : role[v] # "admin"}}
    BY DEF Init
<1>3. \A q \in Requests : job[q].at = "idle"
    BY DEF Init, Idle
<1>4. left = {} /\ raced = {}
    BY DEF Init
<1>5. CASE tokens = <<>>
    BY <1>1, <1>3, <1>4, <1>5 DEF LinesInv, ChainInv, LineInv
<1>6. CASE \E u \in Users : role[u] # "admin" /\ tokens = <<LegacyToken(u)>>
    <2>1. PICK u \in Users : role[u] # "admin" /\ tokens = <<LegacyToken(u)>>
        BY <1>6
    <2>2. DOMAIN tokens = {1} /\ tokens[1] = LegacyToken(u)
        BY <2>1
    <2>3. account[u].role \in Mobile
        BY <1>2, <2>1 DEF Roles, Mobile
    <2>4. Continues(tokens[1], tokens[1])
        BY <2>2 DEF LegacyToken, Continues, Deadline, Life, SessionConstants
    <2>5. tokens[1].root = 1 /\ tokens[1].user = u
        BY <2>2 DEF LegacyToken
    <2>. QED
        BY <1>1, <1>3, <1>4, <2>2, <2>3, <2>4, <2>5 DEF LinesInv, ChainInv, LineInv, Rotates
<1>. QED
    BY <1>2, <1>5, <1>6

LEMMA LinesStep ==
    ASSUME SessionConstants, LinesInv, [Next]_vars
    PROVE  LinesInv'
<1>1. Inv'
    BY StepInv DEF LinesInv
<1>2. CASE UNCHANGED vars
    BY <1>1, <1>2, QuietStep DEF vars, Quiet
<1>3. CASE Tick \/ \E u \in Users : ForgotPassword(u)
    BY <1>1, <1>3, QuietStep DEF Tick, ForgotPassword, Quiet
<1>4. ASSUME NEW q \in Requests,
             \/ \E u \in Users, mode \in Modes : LoginCheck(q, u, mode)
             \/ \E i \in DOMAIN tokens : RefreshCheck(q, i)
             \/ \E u \in Users : ResetCheck(q, u)
      PROVE  LinesInv'
    <2>1. UNCHANGED <<account, tokens, raced, left>>
        BY <1>4 DEF LoginCheck, RefreshCheck, ResetCheck
    <2>2. PICK r : /\ job' = [job EXCEPT ![q] = r]
                   /\ \/ r.at \in {"refresh", "reset"}
                      \/ r.at = "login" /\ r.mode # "legacy"
        <3>1. ASSUME NEW u \in Users, NEW mode \in Modes, LoginCheck(q, u, mode)
              PROVE  \E r : /\ job' = [job EXCEPT ![q] = r]
                            /\ r.at = "login" /\ r.mode # "legacy"
            <4>. DEFINE r == [Idle EXCEPT !.at = "login", !.user = u, !.mode = mode,
                                          !.version = account[u].version, !.epoch = revoked[u]]
            <4>1. job' = [job EXCEPT ![q] = r] /\ mode \in LoginModes(account[u].role)
                BY <3>1 DEF LoginCheck, Start
            <4>2. r.at = "login" /\ r.mode = mode
                BY DEF Idle
            <4>. HIDE DEF r
            <4>. QED
                BY <4>1, <4>2 DEF LoginModes
        <3>2. ASSUME NEW i \in DOMAIN tokens, RefreshCheck(q, i)
              PROVE  \E r : job' = [job EXCEPT ![q] = r] /\ r.at = "refresh"
            <4>. DEFINE r == [Idle EXCEPT !.at = "refresh", !.user = tokens[i].user, !.token = i]
            <4>1. job' = [job EXCEPT ![q] = r]
                BY <3>2 DEF RefreshCheck, Start
            <4>2. r.at = "refresh"
                BY DEF Idle
            <4>. HIDE DEF r
            <4>. QED
                BY <4>1, <4>2
        <3>3. ASSUME NEW u \in Users, ResetCheck(q, u)
              PROVE  \E r : job' = [job EXCEPT ![q] = r] /\ r.at = "reset"
            <4>. DEFINE r == [Idle EXCEPT !.at = "reset", !.user = u]
            <4>1. job' = [job EXCEPT ![q] = r]
                BY <3>3 DEF ResetCheck, Start
            <4>2. r.at = "reset"
                BY DEF Idle
            <4>. HIDE DEF r
            <4>. QED
                BY <4>1, <4>2
        <3>. QED
            BY <1>4, <3>1, <3>2, <3>3
    <2>3. \A p \in Requests : Quiet(p)
        BY <2>2 DEF LinesInv, Inv, TypeOK, Quiet
    <2>. QED
        BY <1>1, <2>1, <2>3, QuietStep
<1>5. CASE LockedNext
    BY <1>1, <1>3, <1>5, LogoutLines, DeleteAccountLines, AdminPatchLines DEF LockedNext
<1>6. ASSUME NEW q \in Requests, RequestNext(q)
      PROVE  LinesInv'
    BY <1>1, <1>4, <1>6, LoginIssueLines, RefreshVerifyLines, RefreshRotateLines,
       ResetCommitLines
       DEF RequestNext
<1>. QED
    BY <1>2, <1>5, <1>6 DEF Next

LEMMA LinesInvariance == Spec => []LinesInv
<1>1. Init => LinesInv
    BY LinesInit, SessionConstants
<1>2. LinesInv /\ [Next]_vars => LinesInv'
    BY LinesStep, SessionConstants
<1>. QED
    BY <1>1, <1>2, PTL DEF Spec

\* A temporary session, one from before sessions had modes and a dashboard login end at the
\* lifetime counted from their login, however often they were refreshed
\* (accounts/client_sessions.py).
THEOREM SessionsEnd == Spec => []AbsoluteEnd
<1>1. LinesInv => AbsoluteEnd
    <2>. SUFFICES ASSUME LinesInv, NEW i \in DOMAIN tokens, Live(tokens[i]),
                         tokens[tokens[i].root].mode \notin {"persistent", "plain"}
                  PROVE  now < tokens[tokens[i].root].started
                                  + Life(tokens[tokens[i].root].mode)
        BY DEF AbsoluteEnd, Life
    <2>. DEFINE end == tokens[tokens[i].root].started + Life(tokens[tokens[i].root].mode)
    <2>1. /\ Deadline(tokens[i]) = end /\ tokens[i].access <= end
          /\ tokens[i].exp <= end \/ tokens[i].mode = "legacy"
          /\ tokens[i].mode = "legacy" => account[tokens[i].user].role \in Mobile
        BY DEF LinesInv, ChainInv, Continues
    <2>2. /\ now \in Int /\ tokens[i].access \in Int /\ tokens[i].exp \in Int /\ end \in Int
        <3>1. tokens[i].root \in DOMAIN tokens
            BY TokenParts DEF LinesInv, ChainInv, Inv
        <3>. QED
            BY <3>1, TokenParts, SessionConstants DEF LinesInv, Inv, TypeOK, Life, SessionConstants
    <2>. HIDE DEF end
    <2>3. ASSUME Authenticates(tokens[i]) PROVE now < end
        BY <2>1, <2>2, <2>3 DEF Authenticates
    <2>4. ASSUME Refreshable(tokens[i]) PROVE now < end
        BY <2>1, <2>2, <2>4 DEF Refreshable, StateAllows
    <2>5. now < end
        BY <2>3, <2>4 DEF Live
    <2>. QED
        BY <2>5 DEF end
<1>. QED
    BY <1>1, LinesInvariance, PTL

\* A session that did not race has one refresh token that works, and none after its logout:
\* rotation spends the token it starts from (accounts/session_views.py).
THEOREM OneTokenPerSession == Spec => []OneLine
<1>1. LinesInv => OneLine
    <2>. SUFFICES ASSUME LinesInv, NEW root \in DOMAIN tokens \ raced
                  PROVE  /\ \A i, k \in DOMAIN tokens :
                               /\ tokens[i].root = root /\ Refreshable(tokens[i])
                               /\ tokens[k].root = root /\ Refreshable(tokens[k])
                               => i = k
                         /\ root \in left => \A i \in DOMAIN tokens :
                               ~(tokens[i].root = root /\ Refreshable(tokens[i]))
        BY DEF OneLine
    <2>1. \A i \in DOMAIN tokens : Refreshable(tokens[i]) => Ripe(i)
        BY DEF Refreshable, StateAllows, Ripe, Stale
    <2>. QED
        BY <2>1 DEF LinesInv, LineInv
<1>. QED
    BY <1>1, LinesInvariance, PTL
=============================================================================
