------------------------- MODULE PushDeliveryProofs -------------------------
(***************************************************************************)
(* Theorems about PushDelivery, for any notices, devices, workers, number  *)
(* of retries and number of faults.                                        *)
(***************************************************************************)
EXTENDS PushDelivery, TLAPS

\* From the claim of the lease to its end.
UnderLease == {"send", "mark", "confirm", "release"}

Running(w, n) == job[w] # NoJob /\ job[w].notice = n
At(w, n, step) == Running(w, n) /\ job[w].at = step

\* A lease is kept exactly through the steps it is for, except where Redis failed.
LeasesMatchSteps ==
    \A w \in Workers : job[w] # NoJob =>
        /\ job[w].leased => job[w].at \in UnderLease
        /\ job[w].at \in UnderLease /\ job[w].notice \notin blind => job[w].leased

\* One lease at a time, and while there is one its key cannot be claimed.
OneLease ==
    \A n \in Notices, v, w \in Workers : Holds(v, n) /\ Holds(w, n) => v = w
LeaseKeepsKey == \A n \in Notices, w \in Workers : Holds(w, n) => key[n] # "free"

\* Before it is stored a notification is nowhere else.
NothingBeforeStored ==
    \A n \in Notices : stage[n] \in {"none", "committed"} =>
        /\ ~dispatched[n]
        /\ \A r \in Retries : queue[n][r] = 0 /\ parked[n][r] = 0
        /\ \A w \in Workers : ~Running(w, n)

OwedAreActive == \A n \in Notices : owed[n] \subseteq devices

\* A worker about to set the marker has reached who is owed the push.
MarkingIsTrue ==
    \A n \in Notices, w \in Workers :
        At(w, n, "mark") => \A d \in owed[n] : received[n][d] > 0

\* Another send would be excused: no device has had more pushes than there were excuses.
Sendable(n) == \A d \in Devices : received[n][d] <= excuses[n]

\* Whoever may come to send n finds it sendable: it is not marked as dispatched and
\* nobody is about to mark it; or a worker is past the check and the key is free; or a
\* worker is at the send; or its attempt has failed.
SendersExcused(n) ==
    /\ ~dispatched[n] /\ (\A w \in Workers : ~At(w, n, "mark")) => Sendable(n)
    /\ \A w \in Workers :
          /\ At(w, n, "claim") /\ key[n] = "free" => Sendable(n)
          /\ At(w, n, "send") => Sendable(n)
          /\ At(w, n, "release") => Sendable(n)

RepeatsExcused(n) == \A d \in Devices : received[n][d] <= 1 + excuses[n]

LeaseInv == LeasesMatchSteps /\ OneLease /\ LeaseKeepsKey
MarkInv == NothingBeforeStored /\ OwedAreActive /\ MarkingIsTrue /\ MarkerMeansReached
RepeatInv == \A n \in Notices \ blind : SendersExcused(n) /\ RepeatsExcused(n)

Inv == TypeOK /\ LeaseInv /\ MarkInv /\ RepeatInv
-----------------------------------------------------------------------------
(* What the helpers of the actions compute.                                *)

LEMMA WorksType ==
    ASSUME PushConstants, TypeOK, NEW up, Works(up)
    PROVE  faults' \in 0..MaxFaults
BY DEF PushConstants, TypeOK, Works

LEMMA ExcusedType ==
    ASSUME TypeOK, NEW n \in Notices, NEW fault, Excused(n, fault)
    PROVE  /\ excuses' \in [Notices -> Nat]
           /\ excuses'[n] = excuses[n] + (IF fault THEN 1 ELSE 0)
           /\ \A m \in Notices : m # n => excuses'[m] = excuses[m]
BY DEF TypeOK, Excused

LEMMA OneMoreType ==
    ASSUME PushConstants, NEW box \in Messages, NEW n \in Notices, NEW r \in Retries
    PROVE  /\ OneMore(box, n, r) \in Messages
           /\ \A m \in Notices : m # n => OneMore(box, n, r)[m] = box[m]
<1>1. CASE r < MaxRetries
    <2>. DEFINE row == [box[n] EXCEPT ![r + 1] = box[n][r + 1] + 1]
    <2>1. r + 1 \in Retries /\ box[n] \in [Retries -> Nat]
        BY <1>1 DEF PushConstants, Retries, Messages
    <2>2. row \in [Retries -> Nat]
        BY <2>1
    <2>3. OneMore(box, n, r) = [box EXCEPT ![n] = row]
        BY <1>1 DEF OneMore
    <2>. HIDE DEF row
    <2>. QED
        BY <2>2, <2>3 DEF Messages
<1>2. CASE ~(r < MaxRetries)
    BY <1>2 DEF OneMore
<1>. QED
    BY <1>1, <1>2

LEMMA KeyBecomesType ==
    ASSUME TypeOK, NEW n \in Notices, NEW value \in {"free", "processing", "completed"},
           KeyBecomes(n, value)
    PROVE  /\ queue' \in Messages /\ parked' \in Messages
           /\ key' \in [Notices -> {"free", "processing", "completed"}]
           /\ key'[n] = value
           /\ \A m \in Notices : m # n => /\ key'[m] = key[m] /\ queue'[m] = queue[m]
                                          /\ parked'[m] = parked[m]
           /\ (\A r \in Retries : queue[n][r] = 0 /\ parked[n][r] = 0) =>
                 \A r \in Retries : queue'[n][r] = 0 /\ parked'[n][r] = 0
<1>. DEFINE sum == [r \in Retries |-> queue[n][r] + parked[n][r]]
            none == [r \in Retries |-> 0]
<1>1. sum \in [Retries -> Nat] /\ none \in [Retries -> Nat]
    BY DEF TypeOK, Messages
<1>2. queue' = [queue EXCEPT ![n] = sum] /\ parked' = [parked EXCEPT ![n] = none]
    BY DEF KeyBecomes
<1>3. /\ \A r \in Retries : none[r] = 0
      /\ (\A r \in Retries : queue[n][r] = 0 /\ parked[n][r] = 0) =>
            \A r \in Retries : sum[r] = 0
    OBVIOUS
<1>. HIDE DEF sum, none
<1>4. queue' \in Messages /\ parked' \in Messages
    BY <1>1, <1>2 DEF TypeOK, Messages
<1>5. queue'[n] = sum /\ parked'[n] = none
    BY <1>2 DEF TypeOK, Messages
<1>6. /\ key' \in [Notices -> {"free", "processing", "completed"}]
      /\ key'[n] = value
      /\ \A m \in Notices : m # n => key'[m] = key[m]
    BY DEF KeyBecomes, TypeOK
<1>7. \A m \in Notices : m # n => queue'[m] = queue[m] /\ parked'[m] = parked[m]
    BY <1>2 DEF TypeOK, Messages
<1>. QED
    BY <1>3, <1>4, <1>5, <1>6, <1>7

\* A worker's job moves to another step, keeping its message.
LEMMA GoesType ==
    ASSUME PushConstants, TypeOK, NEW w \in Workers, job[w] # NoJob, NEW step \in Steps,
           NEW leased \in BOOLEAN,
           \/ Goes(w, step) /\ leased = job[w].leased
           \/ GoesLeased(w, step, leased)
    PROVE  /\ job' \in [Workers -> Job \cup {NoJob}]
           /\ job'[w] \in Job /\ job'[w] # NoJob
           /\ job'[w].at = step /\ job'[w].leased = leased
           /\ job'[w].notice = job[w].notice /\ job'[w].retries = job[w].retries
           /\ \A v \in Workers : v # w => job'[v] = job[v]
<1>. DEFINE moved == [job[w] EXCEPT !.at = step]
            both == [job[w] EXCEPT !.at = step, !.leased = leased]
<1>1. job[w] \in Job /\ job \in [Workers -> Job \cup {NoJob}]
    BY DEF TypeOK
<1>2. /\ moved \in Job /\ moved.at = step /\ moved.leased = job[w].leased
      /\ moved.notice = job[w].notice /\ moved.retries = job[w].retries
    BY <1>1 DEF Job
<1>3. /\ both \in Job /\ both.at = step /\ both.leased = leased
      /\ both.notice = job[w].notice /\ both.retries = job[w].retries
    BY <1>1 DEF Job
<1>4. \/ job' = [job EXCEPT ![w] = moved] /\ leased = job[w].leased
      \/ job' = [job EXCEPT ![w] = both]
    BY DEF Goes, GoesLeased
<1>. HIDE DEF moved, both
<1>5. CASE job' = [job EXCEPT ![w] = moved] /\ leased = job[w].leased
    BY <1>1, <1>2, <1>5 DEF PushConstants
<1>6. CASE job' = [job EXCEPT ![w] = both]
    BY <1>1, <1>3, <1>6 DEF PushConstants
<1>. QED
    BY <1>4, <1>5, <1>6

LEMMA AcknowledgedType ==
    ASSUME TypeOK, NEW w \in Workers, Acknowledged(w)
    PROVE  /\ job' \in [Workers -> Job \cup {NoJob}] /\ job'[w] = NoJob
           /\ \A v \in Workers : v # w => job'[v] = job[v]
BY DEF TypeOK, Acknowledged
-----------------------------------------------------------------------------
(* What leaves a part of the invariant alone.                              *)

LEMMA LeaseFrame ==
    LeaseInv /\ UNCHANGED <<job, key, blind>> => LeaseInv'
BY DEF LeaseInv, LeasesMatchSteps, OneLease, LeaseKeepsKey, Holds

LEMMA RepeatFrame ==
    RepeatInv /\ UNCHANGED <<job, key, blind, dispatched, received, excuses>> => RepeatInv'
BY DEF RepeatInv, SendersExcused, RepeatsExcused, Sendable, At, Running

LEMMA MarkFrame ==
    ASSUME MarkInv, UNCHANGED <<dispatched, queue, parked, job, devices, owed, received>>,
           \A n \in Notices : stage'[n] \in {"none", "committed"} =>
                                 stage[n] \in {"none", "committed"}
    PROVE  MarkInv'
BY DEF MarkInv, NothingBeforeStored, OwedAreActive, MarkingIsTrue, MarkerMeansReached, At,
       Running
-----------------------------------------------------------------------------
(* The web process and the customer.                                       *)

LEMMA CommitStep ==
    ASSUME PushConstants, Inv, NEW n \in Notices, CommitEvent(n)
    PROVE  Inv'
<1>1. TypeOK'
    BY DEF Inv, TypeOK, CommitEvent
<1>2. LeaseInv' /\ RepeatInv'
    BY LeaseFrame, RepeatFrame DEF Inv, CommitEvent
<1>3. MarkInv'
    BY MarkFrame DEF Inv, TypeOK, CommitEvent
<1>. QED
    BY <1>1, <1>2, <1>3 DEF Inv

LEMMA StoreStep ==
    ASSUME PushConstants, Inv, NEW n \in Notices, StoreNotice(n)
    PROVE  Inv'
<1>1. TypeOK'
    BY DEF Inv, TypeOK, StoreNotice
<1>2. LeaseInv' /\ RepeatInv'
    BY LeaseFrame, RepeatFrame DEF Inv, StoreNotice
<1>3. NothingBeforeStored' /\ OwedAreActive'
    BY DEF Inv, TypeOK, MarkInv, NothingBeforeStored, OwedAreActive, Running, StoreNotice
<1>4. ~dispatched[n] /\ \A w \in Workers : ~Running(w, n)
    BY DEF Inv, MarkInv, NothingBeforeStored, StoreNotice
<1>5. MarkingIsTrue' /\ MarkerMeansReached'
    BY <1>4 DEF Inv, TypeOK, MarkInv, MarkingIsTrue, MarkerMeansReached, At, Running, StoreNotice
<1>. QED
    BY <1>1, <1>2, <1>3, <1>5 DEF Inv, MarkInv

LEMMA StageStep ==
    ASSUME PushConstants, Inv, NEW n \in Notices, SkipNotice(n) \/ LoseCallback(n)
    PROVE  Inv'
<1>1. TypeOK'
    <2>1. faults' \in 0..MaxFaults
        BY WorksType DEF Inv, TypeOK, SkipNotice, LoseCallback
    <2>. QED
        BY <2>1 DEF Inv, TypeOK, SkipNotice, LoseCallback
<1>2. LeaseInv' /\ RepeatInv'
    BY LeaseFrame, RepeatFrame DEF Inv, SkipNotice, LoseCallback
<1>3. MarkInv'
    <2>1. \A m \in Notices : stage'[m] \in {"none", "committed"} =>
                                stage[m] \in {"none", "committed"}
        BY DEF Inv, TypeOK, SkipNotice, LoseCallback
    <2>. QED
        BY <2>1, MarkFrame DEF Inv, SkipNotice, LoseCallback
<1>. QED
    BY <1>1, <1>2, <1>3 DEF Inv

\* One message more.
LEMMA OneMessageType ==
    ASSUME PushConstants, TypeOK, NEW n \in Notices, NEW r \in Retries,
           queue' = [queue EXCEPT ![n][r] = @ + 1]
    PROVE  /\ queue' \in Messages
           /\ \A m \in Notices : m # n => queue'[m] = queue[m]
<1>. DEFINE row == [queue[n] EXCEPT ![r] = queue[n][r] + 1]
<1>1. queue[n] \in [Retries -> Nat]
    BY DEF TypeOK, Messages
<1>2. row \in [Retries -> Nat]
    BY <1>1
<1>3. queue' = [queue EXCEPT ![n] = row]
    OBVIOUS
<1>. HIDE DEF row
<1>. QED
    BY <1>2, <1>3 DEF TypeOK, Messages

LEMMA EnqueueStep ==
    ASSUME PushConstants, Inv, NEW n \in Notices, Enqueue(n)
    PROVE  Inv'
<1>0. 0 \in Retries
    BY DEF PushConstants, Retries
<1>1. /\ queue' \in Messages
      /\ \A m \in Notices : m # n => queue'[m] = queue[m]
    BY <1>0, OneMessageType DEF Inv, Enqueue
<1>2. TypeOK'
    BY <1>1 DEF Inv, TypeOK, Enqueue
<1>3. LeaseInv' /\ RepeatInv'
    BY LeaseFrame, RepeatFrame DEF Inv, Enqueue
<1>4. MarkInv'
    BY <1>1 DEF Inv, TypeOK, MarkInv, NothingBeforeStored, OwedAreActive, MarkingIsTrue,
                MarkerMeansReached, At, Running, Enqueue
<1>. QED
    BY <1>2, <1>3, <1>4 DEF Inv

LEMMA DeviceStep ==
    ASSUME PushConstants, Inv, NEW d \in Devices, RegisterDevice(d) \/ UnregisterDevice(d)
    PROVE  Inv'
<1>1. TypeOK'
    BY DEF Inv, TypeOK, RegisterDevice, UnregisterDevice
<1>2. LeaseInv' /\ RepeatInv'
    BY LeaseFrame, RepeatFrame DEF Inv, RegisterDevice, UnregisterDevice
<1>3. \A n \in Notices : owed'[n] \subseteq owed[n] /\ owed'[n] \subseteq devices'
    BY DEF Inv, TypeOK, MarkInv, OwedAreActive, RegisterDevice, UnregisterDevice
<1>4. MarkInv'
    BY <1>3 DEF Inv, MarkInv, NothingBeforeStored, OwedAreActive, MarkingIsTrue,
                MarkerMeansReached, At, Running, RegisterDevice, UnregisterDevice
<1>. QED
    BY <1>1, <1>2, <1>4 DEF Inv
-----------------------------------------------------------------------------
(* The worker.                                                             *)

LEMMA TakeStep ==
    ASSUME PushConstants, Inv, NEW w \in Workers, Take(w)
    PROVE  Inv'
<1>1. PICK n \in Notices, r \in Retries :
        /\ job[w] = NoJob /\ queue[n][r] > 0
        /\ queue' = [queue EXCEPT ![n][r] = @ - 1]
        /\ job' = [job EXCEPT ![w] =
                      [at |-> "check", notice |-> n, retries |-> r, leased |-> FALSE]]
        /\ UNCHANGED <<stage, dispatched, parked, key, devices, received, owed, blind, excuses,
                       faults>>
    BY DEF Take
<1>2. /\ queue' \in Messages
      /\ \A m \in Notices : m # n => queue'[m] = queue[m]
    <2>. DEFINE row == [queue[n] EXCEPT ![r] = queue[n][r] - 1]
    <2>1. queue[n] \in [Retries -> Nat]
        BY DEF Inv, TypeOK, Messages
    <2>2. row \in [Retries -> Nat]
        BY <1>1, <2>1
    <2>3. queue' = [queue EXCEPT ![n] = row]
        BY <1>1
    <2>. HIDE DEF row
    <2>. QED
        BY <2>2, <2>3 DEF Inv, TypeOK, Messages
<1>. DEFINE taken == [at |-> "check", notice |-> n, retries |-> r, leased |-> FALSE]
<1>3. /\ taken \in Job /\ taken.at = "check" /\ taken.notice = n /\ ~taken.leased
    BY DEF Job, Steps
<1>4. job' = [job EXCEPT ![w] = taken]
    BY <1>1
<1>. HIDE DEF taken
<1>5. /\ job' \in [Workers -> Job \cup {NoJob}] /\ job'[w] = taken
      /\ \A v \in Workers : v # w => job'[v] = job[v]
    BY <1>3, <1>4 DEF Inv, TypeOK
<1>6. TypeOK'
    BY <1>1, <1>2, <1>5 DEF Inv, TypeOK
<1>7. LeaseInv'
    BY <1>1, <1>3, <1>5 DEF Inv, TypeOK, LeaseInv, LeasesMatchSteps, OneLease, LeaseKeepsKey,
                            Holds, UnderLease
<1>8. stage[n] \notin {"none", "committed"}
    BY <1>1 DEF Inv, MarkInv, NothingBeforeStored
<1>9. NothingBeforeStored' /\ OwedAreActive'
    BY <1>1, <1>2, <1>3, <1>5, <1>8
    DEF Inv, MarkInv, NothingBeforeStored, OwedAreActive, Running
<1>10. MarkingIsTrue' /\ MarkerMeansReached'
    BY <1>1, <1>3, <1>5 DEF Inv, MarkInv, MarkingIsTrue, MarkerMeansReached, At, Running
<1>11. \A v \in Workers, m \in Notices, step \in {"claim", "send", "mark", "release"} :
          At(v, m, step)' <=> At(v, m, step)
    BY <1>1, <1>3, <1>5 DEF At, Running
<1>12. RepeatInv'
    BY <1>1, <1>11 DEF Inv, RepeatInv, SendersExcused, RepeatsExcused, Sendable
<1>. QED
    BY <1>6, <1>7, <1>9, <1>10, <1>12 DEF Inv, MarkInv

\* From here on worker w is at some step for n, and what changes concerns w and n alone.
OnlyFor(w, n) ==
    /\ Running(w, n)
    /\ job' \in [Workers -> Job \cup {NoJob}]
    /\ job'[w] # NoJob => job'[w].notice = n
    /\ \A v \in Workers : v # w => job'[v] = job[v]
    /\ \A m \in Notices : m # n =>
          /\ dispatched'[m] = dispatched[m] /\ queue'[m] = queue[m] /\ parked'[m] = parked[m]
          /\ key'[m] = key[m] /\ received'[m] = received[m] /\ excuses'[m] = excuses[m]
    /\ blind \subseteq blind' /\ blind' \subseteq blind \cup {n}

\* The lease part: w gets a lease when the key is free, and only a holder frees the key.
LEMMA LeaseChange ==
    ASSUME LeaseInv, NEW w \in Workers, NEW n \in Notices, OnlyFor(w, n),
           job'[w] # NoJob =>
              /\ job'[w].leased => job'[w].at \in UnderLease
              /\ job'[w].at \in UnderLease /\ n \notin blind' => job'[w].leased,
           Holds(w, n)' => (Holds(w, n) \/ key[n] = "free") /\ key'[n] # "free",
           key'[n] = "free" => key[n] = "free" \/ Holds(w, n)
    PROVE  LeaseInv'
<1>1. LeasesMatchSteps'
    BY DEF LeaseInv, LeasesMatchSteps, OnlyFor, Running
<1>2. \A v \in Workers, m \in Notices : v # w => (Holds(v, m)' <=> Holds(v, m))
    BY DEF OnlyFor, Holds
<1>3. \A m \in Notices : m # n => ~Holds(w, m) /\ ~Holds(w, m)'
    BY DEF OnlyFor, Holds, Running
<1>4. OneLease'
    BY <1>2, <1>3 DEF LeaseInv, OneLease, LeaseKeepsKey
<1>5. LeaseKeepsKey'
    BY <1>2, <1>3 DEF LeaseInv, OneLease, LeaseKeepsKey, OnlyFor
<1>. QED
    BY <1>1, <1>4, <1>5 DEF LeaseInv

\* The marker part: w gets to the marker having reached the devices, and sets it there.
LEMMA MarkChange ==
    ASSUME MarkInv, NEW w \in Workers, NEW n \in Notices, OnlyFor(w, n),
           \A m \in Notices : stage'[m] \in {"none", "committed"} =>
                                 stage[m] \in {"none", "committed"},
           \A m \in Notices : owed'[m] \subseteq owed[m] /\ owed'[m] \subseteq devices',
           \A m \in Notices, d \in Devices : received[m][d] > 0 => received'[m][d] > 0,
           \A m \in Notices : owed[m] \subseteq Devices,
           job'[w] # NoJob /\ job'[w].at = "mark" =>
               \A d \in owed'[n] : received'[n][d] > 0,
           dispatched'[n] => dispatched[n] \/ job[w].at = "mark"
    PROVE  MarkInv'
<1>1. /\ \A v \in Workers, m \in Notices : v # w =>
            (Running(v, m)' <=> Running(v, m)) /\ (At(v, m, "mark")' <=> At(v, m, "mark"))
      /\ \A m \in Notices : m # n => ~Running(w, m) /\ ~Running(w, m)' /\ ~At(w, m, "mark")'
    BY DEF OnlyFor, Running, At
<1>2. stage[n] \notin {"none", "committed"}
    BY DEF MarkInv, NothingBeforeStored, OnlyFor
<1>3. NothingBeforeStored'
    BY <1>1, <1>2 DEF MarkInv, NothingBeforeStored, OnlyFor
<1>4. OwedAreActive'
    BY DEF OwedAreActive
<1>5. MarkingIsTrue'
    <2>. SUFFICES ASSUME NEW m \in Notices, NEW v \in Workers, At(v, m, "mark")',
                         NEW d \in owed'[m]
                  PROVE  received'[m][d] > 0
        BY DEF MarkingIsTrue
    <2>1. CASE v = w
        BY <1>1, <2>1 DEF At, Running
    <2>2. CASE v # w
        BY <1>1, <2>2 DEF MarkInv, MarkingIsTrue
    <2>. QED
        BY <2>1, <2>2
<1>6. MarkerMeansReached'
    <2>. SUFFICES ASSUME NEW m \in Notices, dispatched'[m], NEW d \in owed'[m]
                  PROVE  received'[m][d] > 0
        BY DEF MarkerMeansReached
    <2>1. CASE dispatched[m]
        BY <2>1 DEF MarkInv, MarkerMeansReached
    <2>2. CASE m = n /\ job[w].at = "mark"
        BY <2>2 DEF MarkInv, MarkingIsTrue, At, OnlyFor
    <2>. QED
        BY <2>1, <2>2 DEF OnlyFor
<1>. QED
    BY <1>3, <1>4, <1>5, <1>6 DEF MarkInv

\* The repetition part: it is enough to look at n.
LEMMA RepeatChange ==
    ASSUME RepeatInv, NEW w \in Workers, NEW n \in Notices, OnlyFor(w, n),
           n \notin blind' => SendersExcused(n)' /\ RepeatsExcused(n)'
    PROVE  RepeatInv'
<1>. SUFFICES ASSUME NEW m \in Notices \ blind', m # n
              PROVE  SendersExcused(m)' /\ RepeatsExcused(m)'
    BY DEF RepeatInv
<1>1. ASSUME NEW v \in Workers, NEW step \in Steps
      PROVE  At(v, m, step)' <=> At(v, m, step)
    <2>1. CASE v = w
        BY <2>1 DEF OnlyFor, At, Running
    <2>2. CASE v # w
        BY <2>2 DEF OnlyFor, At, Running
    <2>. QED
        BY <2>1, <2>2
<1>2. SendersExcused(m) /\ RepeatsExcused(m)
    BY DEF RepeatInv, OnlyFor
<1>3. Sendable(m)' <=> Sendable(m)
    BY DEF Sendable, OnlyFor
<1>4. SendersExcused(m)'
    <2>1. dispatched'[m] = dispatched[m] /\ key'[m] = key[m]
        BY DEF OnlyFor
    <2>2. {"claim", "send", "mark", "release"} \subseteq Steps
        BY DEF Steps
    <2>3. \A v \in Workers : /\ At(v, m, "mark")' <=> At(v, m, "mark")
                             /\ At(v, m, "claim")' <=> At(v, m, "claim")
                             /\ At(v, m, "send")' <=> At(v, m, "send")
                             /\ At(v, m, "release")' <=> At(v, m, "release")
        BY <1>1, <2>2
    <2>. QED
        BY <1>2, <1>3, <2>1, <2>3 DEF SendersExcused
<1>5. RepeatsExcused(m)'
    BY <1>2 DEF RepeatsExcused, OnlyFor
<1>. QED
    BY <1>4, <1>5

LEMMA JobParts ==
    ASSUME TypeOK, NEW w \in Workers, job[w] # NoJob
    PROVE  /\ job[w].notice \in Notices /\ job[w].retries \in Retries
           /\ job[w].at \in Steps /\ job[w].leased \in BOOLEAN
<1>1. job[w] \in Job
    BY DEF TypeOK
<1>. QED
    BY <1>1 DEF Job

LEMMA KeyChanged ==
    ASSUME TypeOK, NEW n \in Notices, NEW value \in {"free", "processing", "completed"},
           NEW up \in BOOLEAN, IF up THEN KeyBecomes(n, value) ELSE KeyKept
    PROVE  /\ queue' \in Messages /\ parked' \in Messages
           /\ key' \in [Notices -> {"free", "processing", "completed"}]
           /\ up => key'[n] = value
           /\ ~up => key' = key
           /\ \A m \in Notices : m # n => /\ key'[m] = key[m] /\ queue'[m] = queue[m]
                                          /\ parked'[m] = parked[m]
<1>1. CASE up
    BY <1>1, KeyBecomesType
<1>2. CASE ~up
    BY <1>2 DEF KeyKept, TypeOK
<1>. QED
    BY <1>1, <1>2

\* A worker that holds a lease is the only one at a send, a marker or a release of n.
LEMMA Alone ==
    ASSUME TypeOK, LeaseInv, NEW n \in Notices \ blind, NEW w \in Workers, Holds(w, n)
    PROVE  \A v \in Workers, step \in UnderLease : At(v, n, step) => v = w
BY DEF LeaseInv, LeasesMatchSteps, OneLease, Holds, At, Running

\* One excuse more than before makes n sendable.
LEMMA OneExcuseMore ==
    ASSUME TypeOK, NEW n \in Notices, RepeatsExcused(n), received'[n] = received[n],
           excuses'[n] = excuses[n] + 1
    PROVE  Sendable(n)'
<1>. SUFFICES ASSUME NEW d \in Devices PROVE received'[n][d] <= excuses'[n]
    BY DEF Sendable
<1>1. received[n][d] \in Nat /\ excuses[n] \in Nat
    BY DEF TypeOK
<1>2. received[n][d] <= 1 + excuses[n]
    BY DEF RepeatsExcused
<1>. QED
    BY <1>1, <1>2

\* Unless w reaches the send or frees the key, nothing is new for n.
LEMMA RepeatKept ==
    ASSUME TypeOK, RepeatInv, NEW w \in Workers, NEW n \in Notices, OnlyFor(w, n),
           n \notin blind' =>
             /\ received'[n] = received[n]
             /\ excuses'[n] \in {excuses[n], excuses[n] + 1}
             /\ dispatched[n] => dispatched'[n]
             /\ At(w, n, "mark") => At(w, n, "mark")' \/ dispatched'[n] \/ Sendable(n)'
             /\ key'[n] = "free" => key[n] = "free" \/ Sendable(n)'
             /\ job'[w] # NoJob /\ job'[w].at \in {"claim", "send", "release"} =>
                   Sendable(n)' \/ (key'[n] # "free" /\ job'[w].at = "claim")
    PROVE  RepeatInv'
<1>. SUFFICES ASSUME n \notin blind'
              PROVE  SendersExcused(n)' /\ RepeatsExcused(n)'
    BY RepeatChange
<1>1. SendersExcused(n) /\ RepeatsExcused(n)
    BY DEF RepeatInv, OnlyFor
<1>2. excuses[n] \in Nat /\ \A d \in Devices : received[n][d] \in Nat
    BY DEF TypeOK
<1>3. Sendable(n) => Sendable(n)'
    BY <1>2 DEF Sendable
<1>4. RepeatsExcused(n)'
    BY <1>1, <1>2 DEF RepeatsExcused
<1>5. ASSUME NEW v \in Workers, v # w, NEW step \in Steps
      PROVE  At(v, n, step)' <=> At(v, n, step)
    BY <1>5 DEF OnlyFor, At, Running
<1>6. {"claim", "send", "mark", "release"} \subseteq Steps
    BY DEF Steps
<1>7. ~dispatched'[n] /\ (\A v \in Workers : ~At(v, n, "mark")') => Sendable(n)'
    <2>. SUFFICES ASSUME ~dispatched'[n], \A v \in Workers : ~At(v, n, "mark")'
                  PROVE  Sendable(n)'
        OBVIOUS
    <2>1. CASE At(w, n, "mark")
        BY <2>1
    <2>2. CASE ~At(w, n, "mark")
        <3>1. ~dispatched[n]
            OBVIOUS
        <3>2. \A v \in Workers : ~At(v, n, "mark")
            BY <1>5, <1>6, <2>2
        <3>. QED
            BY <1>1, <1>3, <3>1, <3>2 DEF SendersExcused
    <2>. QED
        BY <2>1, <2>2
<1>8. ASSUME NEW v \in Workers
      PROVE  /\ At(v, n, "claim")' /\ key'[n] = "free" => Sendable(n)'
             /\ At(v, n, "send")' => Sendable(n)'
             /\ At(v, n, "release")' => Sendable(n)'
    <2>1. CASE v = w
        BY <2>1 DEF At, Running
    <2>2. CASE v # w
        BY <1>1, <1>3, <1>5, <1>6, <2>2 DEF SendersExcused
    <2>. QED
        BY <2>1, <2>2
<1>9. SendersExcused(n)'
    BY <1>7, <1>8 DEF SendersExcused
<1>. QED
    BY <1>4, <1>9

LEMMA AckStep ==
    ASSUME PushConstants, Inv, NEW w \in Workers, Ack(w)
    PROVE  Inv'
<1>1. PICK n \in Notices : n = job[w].notice
    BY JobParts DEF Inv, Ack, Working
<1>2. /\ job' \in [Workers -> Job \cup {NoJob}] /\ job'[w] = NoJob
      /\ \A v \in Workers : v # w => job'[v] = job[v]
    BY AcknowledgedType DEF Inv, Ack
<1>3. OnlyFor(w, n) /\ job[w].at = "ack"
    BY <1>1, <1>2 DEF OnlyFor, Running, Ack, Working
<1>4. TypeOK'
    BY <1>2 DEF Inv, TypeOK, Ack
<1>5. LeaseInv'
    BY <1>2, <1>3, LeaseChange DEF Inv, Ack, Holds
<1>6. MarkInv'
    BY <1>2, <1>3, MarkChange DEF Inv, TypeOK, MarkInv, OwedAreActive, Ack
<1>7. RepeatInv'
    BY <1>2, <1>3, RepeatKept DEF Inv, Ack, At
<1>. QED
    BY <1>4, <1>5, <1>6, <1>7 DEF Inv

LEMMA RetryStep ==
    ASSUME PushConstants, Inv, NEW w \in Workers, Retry(w)
    PROVE  Inv'
<1>1. PICK n \in Notices, r \in Retries : n = job[w].notice /\ r = job[w].retries
    BY JobParts DEF Inv, Retry, Working
<1>2. /\ job' \in [Workers -> Job \cup {NoJob}] /\ job'[w] # NoJob
      /\ job'[w].at = "ack" /\ job'[w].leased = job[w].leased /\ job'[w].notice = n
      /\ \A v \in Workers : v # w => job'[v] = job[v]
    <2>1. Goes(w, "ack") /\ job[w] # NoJob /\ "ack" \in Steps /\ job[w].leased \in BOOLEAN
        BY JobParts DEF Inv, Retry, Working, Steps
    <2>. QED
        BY <1>1, <2>1, GoesType DEF Inv
<1>3. /\ queue' \in Messages
      /\ \A m \in Notices : m # n => queue'[m] = queue[m]
    <2>1. queue' = OneMore(queue, n, r)
        BY <1>1 DEF Retry
    <2>. QED
        BY <2>1, OneMoreType DEF Inv, TypeOK
<1>4. OnlyFor(w, n) /\ job[w].at = "retry"
    BY <1>1, <1>2, <1>3 DEF OnlyFor, Running, Retry, Working
<1>5. TypeOK'
    BY <1>2, <1>3 DEF Inv, TypeOK, Retry
<1>6. LeaseInv'
    <2>1. ~job[w].leased
        BY <1>4 DEF Inv, LeaseInv, LeasesMatchSteps, UnderLease, OnlyFor, Running
    <2>. QED
        BY <1>2, <1>4, <2>1, LeaseChange DEF Inv, Retry, Holds, UnderLease
<1>7. MarkInv'
    BY <1>2, <1>4, MarkChange DEF Inv, TypeOK, MarkInv, OwedAreActive, Retry
<1>8. RepeatInv'
    BY <1>2, <1>4, RepeatKept DEF Inv, Retry, At
<1>. QED
    BY <1>5, <1>6, <1>7, <1>8 DEF Inv

LEMMA CheckStep ==
    ASSUME PushConstants, Inv, NEW w \in Workers, NEW redis \in BOOLEAN, NEW db \in BOOLEAN,
           CheckDone(w, redis, db)
    PROVE  Inv'
<1>1. job[w] # NoJob /\ job[w].at = "check" /\ Working(w, "check")
    BY DEF CheckDone, Working
<1>2. PICK n \in Notices : n = job[w].notice
    BY <1>1, JobParts DEF Inv
<1>. DEFINE done == AlreadySent(n, redis, db)
<1>3. /\ Works(redis /\ db) /\ Excused(n, ~db)
      /\ UNCHANGED <<stage, dispatched, devices, received, owed, blind>>
      /\ IF done
         THEN /\ Acknowledged(w)
              /\ IF redis THEN KeyBecomes(n, "completed") ELSE KeyKept
         ELSE Goes(w, "claim") /\ KeyKept
    BY <1>2 DEF CheckDone
<1>4. /\ job' \in [Workers -> Job \cup {NoJob}]
      /\ \A v \in Workers : v # w => job'[v] = job[v]
      /\ done => job'[w] = NoJob
      /\ ~done => /\ job'[w].at = "claim" /\ job'[w].leased = job[w].leased
                  /\ job'[w].notice = n
    <2>1. CASE done
        BY <1>3, <2>1, AcknowledgedType DEF Inv
    <2>2. CASE ~done
        <3>1. Goes(w, "claim") /\ "claim" \in Steps /\ job[w].leased \in BOOLEAN
            BY <1>1, <1>3, <2>2, JobParts DEF Inv, Steps
        <3>. QED
            BY <1>1, <1>2, <2>2, <3>1, GoesType DEF Inv
    <2>. QED
        BY <2>1, <2>2
<1>5. /\ queue' \in Messages /\ parked' \in Messages
      /\ key' \in [Notices -> {"free", "processing", "completed"}]
      /\ key'[n] = "completed" \/ key' = key
      /\ \A m \in Notices : m # n => /\ key'[m] = key[m] /\ queue'[m] = queue[m]
                                     /\ parked'[m] = parked[m]
    <2>1. CASE done
        BY <1>3, <2>1, KeyChanged DEF Inv
    <2>2. CASE ~done
        BY <1>3, <2>2 DEF KeyKept, Inv, TypeOK
    <2>. QED
        BY <2>1, <2>2
<1>6. /\ excuses' \in [Notices -> Nat]
      /\ db => excuses'[n] = excuses[n]
      /\ ~db => excuses'[n] = excuses[n] + 1
      /\ \A m \in Notices : m # n => excuses'[m] = excuses[m]
    <2>1. /\ excuses' \in [Notices -> Nat]
          /\ excuses'[n] = excuses[n] + (IF ~db THEN 1 ELSE 0)
          /\ \A m \in Notices : m # n => excuses'[m] = excuses[m]
        BY <1>3, ExcusedType DEF Inv
    <2>2. excuses[n] \in Nat
        BY DEF Inv, TypeOK
    <2>. QED
        BY <2>1, <2>2
<1>7. TypeOK'
    <2>1. faults' \in 0..MaxFaults
        BY <1>3, WorksType DEF Inv
    <2>. QED
        BY <1>3, <1>4, <1>5, <1>6, <2>1 DEF Inv, TypeOK
<1>8. OnlyFor(w, n)
    BY <1>1, <1>2, <1>3, <1>4, <1>5, <1>6 DEF OnlyFor, Running
<1>9. ~job[w].leased
    BY <1>1 DEF Inv, LeaseInv, LeasesMatchSteps, UnderLease
<1>10. LeaseInv'
    <2>1. ~Holds(w, n)'
        BY <1>4, <1>9 DEF Holds
    <2>2. job'[w] # NoJob =>
              /\ job'[w].leased => job'[w].at \in UnderLease
              /\ job'[w].at \in UnderLease /\ n \notin blind' => job'[w].leased
        BY <1>4, <1>9 DEF UnderLease
    <2>. QED
        BY <1>5, <1>8, <2>1, <2>2, LeaseChange DEF Inv
<1>11. MarkInv'
    BY <1>3, <1>4, <1>8, MarkChange DEF Inv, TypeOK, MarkInv, OwedAreActive
\* Past the check n is unmarked, or the look at the marker failed and is an excuse.
<1>12. ASSUME n \notin blind', ~done, key'[n] = "free"
       PROVE  Sendable(n)'
    <2>1. SendersExcused(n) /\ RepeatsExcused(n)
        BY <1>8, <1>12 DEF Inv, RepeatInv, OnlyFor
    <2>2. CASE db
        <3>1. ~dispatched[n]
            BY <1>12, <2>2 DEF AlreadySent
        <3>2. \A v \in Workers : ~At(v, n, "mark")
            <4>. SUFFICES ASSUME NEW v \in Workers, At(v, n, "mark") PROVE FALSE
                OBVIOUS
            <4>1. Holds(v, n)
                BY <1>8, <1>12 DEF Inv, LeaseInv, LeasesMatchSteps, UnderLease, Holds, At,
                                   Running, OnlyFor
            <4>2. key[n] = "free"
                BY <1>5, <1>12
            <4>. QED
                BY <4>1, <4>2 DEF Inv, LeaseInv, LeaseKeepsKey
        <3>3. Sendable(n)
            BY <2>1, <3>1, <3>2 DEF SendersExcused
        <3>. QED
            BY <1>3, <1>6, <2>2, <3>3 DEF Sendable
    <2>3. CASE ~db
        BY <1>3, <1>6, <2>1, <2>3, OneExcuseMore DEF Inv
    <2>. QED
        BY <2>2, <2>3
<1>13. RepeatInv'
    <2>1. ~At(w, n, "mark")
        BY <1>1 DEF At
    <2>2. excuses'[n] \in {excuses[n], excuses[n] + 1}
        BY <1>6
    <2>3. n \notin blind' =>
             (job'[w] # NoJob /\ job'[w].at \in {"claim", "send", "release"} =>
                   Sendable(n)' \/ (key'[n] # "free" /\ job'[w].at = "claim"))
        BY <1>4, <1>12
    <2>4. key'[n] = "free" => key[n] = "free"
        BY <1>5
    <2>5. received'[n] = received[n] /\ (dispatched[n] => dispatched'[n])
        BY <1>3
    <2>. QED
        BY <1>8, <2>1, <2>2, <2>3, <2>4, <2>5, RepeatKept DEF Inv
<1>. QED
    BY <1>7, <1>10, <1>11, <1>13 DEF Inv

LEMMA ClaimStep ==
    ASSUME PushConstants, Inv, NEW w \in Workers, NEW redis \in BOOLEAN, Claim(w, redis)
    PROVE  Inv'
<1>1. job[w] # NoJob /\ job[w].at = "claim"
    BY DEF Claim, Working
<1>2. PICK n \in Notices, r \in Retries : n = job[w].notice /\ r = job[w].retries
    BY <1>1, JobParts DEF Inv
<1>3. /\ Works(redis)
      /\ UNCHANGED <<stage, dispatched, queue, devices, received, owed, excuses>>
    BY DEF Claim
<1>4. \/ /\ redis /\ key[n] = "free"
         /\ key' = [key EXCEPT ![n] = "processing"]
         /\ GoesLeased(w, "send", TRUE)
         /\ UNCHANGED <<parked, blind>>
      \/ /\ redis
         /\ Acknowledged(w)
         /\ UNCHANGED <<key, parked, blind>>
      \/ /\ redis
         /\ parked' = OneMore(parked, n, r)
         /\ Goes(w, "ack")
         /\ UNCHANGED <<key, blind>>
      \/ /\ ~redis
         /\ Goes(w, "send")
         /\ blind' = blind \cup {n}
         /\ \/ UNCHANGED key
            \/ key' = [key EXCEPT ![n] = "processing"]
         /\ UNCHANGED parked
    BY <1>2 DEF Claim, Claimable
<1>5. ~job[w].leased /\ job[w].leased \in BOOLEAN
    BY <1>1, JobParts DEF Inv, LeaseInv, LeasesMatchSteps, UnderLease
<1>6. /\ job' \in [Workers -> Job \cup {NoJob}]
      /\ \A v \in Workers : v # w => job'[v] = job[v]
      /\ job'[w] # NoJob => job'[w].notice = n
      /\ \/ job'[w] = NoJob /\ key' = key
         \/ job'[w].at = "ack" /\ ~job'[w].leased /\ key' = key
         \/ /\ job'[w].at = "send" /\ job'[w].leased /\ key[n] = "free"
            /\ key' = [key EXCEPT ![n] = "processing"]
         \/ /\ job'[w].at = "send" /\ ~job'[w].leased /\ n \in blind'
            /\ key' = key \/ key' = [key EXCEPT ![n] = "processing"]
    <2>1. {"send", "ack"} \subseteq Steps /\ TRUE \in BOOLEAN
        BY DEF Steps
    <2>2. CASE Acknowledged(w) /\ key' = key
        BY <2>2, AcknowledgedType DEF Inv
    <2>3. CASE /\ GoesLeased(w, "send", TRUE) /\ key[n] = "free"
               /\ key' = [key EXCEPT ![n] = "processing"]
        BY <1>1, <1>2, <2>1, <2>3, GoesType DEF Inv
    <2>4. CASE Goes(w, "ack") /\ key' = key
        BY <1>1, <1>2, <1>5, <2>1, <2>4, GoesType DEF Inv
    <2>5. CASE /\ Goes(w, "send") /\ n \in blind'
               /\ key' = key \/ key' = [key EXCEPT ![n] = "processing"]
        BY <1>1, <1>2, <1>5, <2>1, <2>5, GoesType DEF Inv
    <2>. QED
        BY <1>4, <2>2, <2>3, <2>4, <2>5
<1>7. /\ parked' \in Messages
      /\ \A m \in Notices : m # n => parked'[m] = parked[m]
      /\ blind' \in {blind, blind \cup {n}}
      /\ key' \in [Notices -> {"free", "processing", "completed"}]
      /\ key' = key \/ key'[n] = "processing"
      /\ \A m \in Notices : m # n => key'[m] = key[m]
    <2>1. /\ parked' \in Messages
          /\ \A m \in Notices : m # n => parked'[m] = parked[m]
        <3>1. CASE UNCHANGED parked
            BY <3>1 DEF Inv, TypeOK
        <3>2. CASE parked' = OneMore(parked, n, r)
            BY <3>2, OneMoreType DEF Inv, TypeOK
        <3>. QED
            BY <1>4, <3>1, <3>2
    <2>2. key' = key \/ key' = [key EXCEPT ![n] = "processing"]
        BY <1>4
    <2>3. blind' \in {blind, blind \cup {n}}
        BY <1>4
    <2>. QED
        BY <2>1, <2>2, <2>3 DEF Inv, TypeOK
<1>8. TypeOK'
    <2>1. faults' \in 0..MaxFaults
        BY <1>3, WorksType DEF Inv
    <2>2. blind' \subseteq Notices
        BY <1>7 DEF Inv, TypeOK
    <2>. QED
        BY <1>3, <1>6, <1>7, <2>1, <2>2 DEF Inv, TypeOK
<1>9. OnlyFor(w, n)
    BY <1>1, <1>2, <1>3, <1>6, <1>7 DEF OnlyFor, Running
<1>10. LeaseInv'
    <2>1. job'[w] # NoJob =>
              /\ job'[w].leased => job'[w].at \in UnderLease
              /\ job'[w].at \in UnderLease /\ n \notin blind' => job'[w].leased
        BY <1>6 DEF UnderLease
    <2>2. Holds(w, n)' => key[n] = "free" /\ key'[n] # "free"
        BY <1>6 DEF Holds, Inv, TypeOK
    <2>3. key'[n] = "free" => key[n] = "free"
        BY <1>7
    <2>. QED
        BY <1>9, <2>1, <2>2, <2>3, LeaseChange DEF Inv
<1>11. MarkInv'
    <2>1. job'[w] # NoJob => job'[w].at # "mark"
        BY <1>6
    <2>. QED
        BY <1>3, <1>9, <2>1, MarkChange DEF Inv, TypeOK, MarkInv, OwedAreActive
\* Who claimed a free key had found n sendable.
<1>12. ASSUME n \notin blind', job'[w] # NoJob, job'[w].at \in {"claim", "send", "release"}
       PROVE  Sendable(n)'
    <2>1. key[n] = "free"
        BY <1>6, <1>12
    <2>2. SendersExcused(n) /\ At(w, n, "claim")
        BY <1>1, <1>2, <1>9, <1>12 DEF Inv, RepeatInv, OnlyFor, At, Running
    <2>3. Sendable(n)
        BY <2>1, <2>2 DEF SendersExcused
    <2>. QED
        BY <1>3, <2>3 DEF Sendable
<1>13. RepeatInv'
    <2>1. ~At(w, n, "mark")
        BY <1>1 DEF At
    <2>2. received'[n] = received[n] /\ (dispatched[n] => dispatched'[n])
        BY <1>3
    <2>3. excuses'[n] \in {excuses[n], excuses[n] + 1}
        BY <1>3
    <2>4. key'[n] = "free" => key[n] = "free"
        BY <1>7
    <2>5. n \notin blind' =>
             (job'[w] # NoJob /\ job'[w].at \in {"claim", "send", "release"} =>
                   Sendable(n)' \/ (key'[n] # "free" /\ job'[w].at = "claim"))
        BY <1>12
    <2>. QED
        BY <1>9, <2>1, <2>2, <2>3, <2>4, <2>5, RepeatKept DEF Inv
<1>. QED
    BY <1>8, <1>10, <1>11, <1>13 DEF Inv

LEMMA SendStep ==
    ASSUME PushConstants, Inv, NEW w \in Workers, NEW stale \in SUBSET Devices,
           NEW failed \in SUBSET Devices, NEW arrived \in SUBSET Devices,
           Send(w, stale, failed, arrived)
    PROVE  Inv'
<1>1. job[w] # NoJob /\ job[w].at = "send"
    BY DEF Send, Working
<1>2. PICK n \in Notices : n = job[w].notice
    BY <1>1, JobParts DEF Inv
<1>. DEFINE reached == (devices \ (stale \cup failed)) \cup arrived
            row == [d \in Devices |-> IF d \in reached THEN received[n][d] + 1 ELSE received[n][d]]
            step == AfterSend(failed)
<1>3. /\ Works(failed = {}) /\ Excused(n, failed # {}) /\ Goes(w, step)
      /\ received' = [received EXCEPT ![n] = row]
      /\ devices' = devices \ stale
      /\ owed' = [m \in Notices |-> owed[m] \ stale]
      /\ UNCHANGED <<stage, dispatched, queue, parked, key, blind>>
    BY <1>2 DEF Send
<1>4. /\ failed = {} => step = "mark"
      /\ failed # {} => step = "release"
      /\ step \in Steps
    BY DEF AfterSend, Steps
<1>5. received \in [Notices -> [Devices -> Nat]] /\ received[n] \in [Devices -> Nat]
    BY DEF Inv, TypeOK
<1>6. /\ row \in [Devices -> Nat]
      /\ \A d \in Devices : row[d] = received[n][d] \/ row[d] = received[n][d] + 1
      /\ failed = {} => \A d \in devices \ stale : d \in Devices => row[d] = received[n][d] + 1
    BY <1>5
<1>. HIDE DEF row, step
<1>7. /\ received' \in [Notices -> [Devices -> Nat]] /\ received'[n] = row
      /\ \A m \in Notices : m # n => received'[m] = received[m]
    BY <1>3, <1>5, <1>6
<1>8. /\ job' \in [Workers -> Job \cup {NoJob}]
      /\ \A v \in Workers : v # w => job'[v] = job[v]
      /\ job'[w] # NoJob /\ job'[w].at = step /\ job'[w].leased = job[w].leased
      /\ job'[w].notice = n
    <2>1. job[w].leased \in BOOLEAN
        BY <1>1, JobParts DEF Inv
    <2>. QED
        BY <1>1, <1>2, <1>3, <1>4, <2>1, GoesType DEF Inv
<1>9. /\ excuses' \in [Notices -> Nat]
      /\ failed = {} => excuses'[n] = excuses[n]
      /\ failed # {} => excuses'[n] = excuses[n] + 1
      /\ \A m \in Notices : m # n => excuses'[m] = excuses[m]
    <2>1. /\ excuses' \in [Notices -> Nat]
          /\ excuses'[n] = excuses[n] + (IF failed # {} THEN 1 ELSE 0)
          /\ \A m \in Notices : m # n => excuses'[m] = excuses[m]
        BY <1>3, ExcusedType DEF Inv
    <2>2. excuses[n] \in Nat
        BY DEF Inv, TypeOK
    <2>. QED
        BY <2>1, <2>2
<1>10. TypeOK'
    <2>1. faults' \in 0..MaxFaults
        BY <1>3, WorksType DEF Inv
    <2>2. devices' \subseteq Devices /\ owed' \in [Notices -> SUBSET Devices]
        BY <1>3 DEF Inv, TypeOK
    <2>. QED
        BY <1>3, <1>7, <1>8, <1>9, <2>1, <2>2 DEF Inv, TypeOK
<1>11. OnlyFor(w, n)
    BY <1>1, <1>2, <1>3, <1>7, <1>8, <1>9 DEF OnlyFor, Running
<1>12. n \notin blind => Holds(w, n)
    BY <1>1, <1>2 DEF Inv, LeaseInv, LeasesMatchSteps, UnderLease, Holds
<1>13. LeaseInv'
    <2>1. /\ job'[w].leased => job'[w].at \in UnderLease
          /\ job'[w].at \in UnderLease /\ n \notin blind' => job'[w].leased
        BY <1>3, <1>4, <1>8, <1>12 DEF UnderLease, Holds
    <2>2. Holds(w, n)' => Holds(w, n)
        BY <1>1, <1>2, <1>8 DEF Holds
    <2>3. key' = key /\ (Holds(w, n) => key[n] # "free")
        BY <1>3 DEF Inv, LeaseInv, LeaseKeepsKey
    <2>. QED
        BY <1>11, <2>1, <2>2, <2>3, LeaseChange DEF Inv
<1>14. MarkInv'
    <2>1. \A m \in Notices : owed'[m] \subseteq owed[m] /\ owed'[m] \subseteq devices'
        BY <1>3 DEF Inv, TypeOK, MarkInv, OwedAreActive
    <2>2. \A m \in Notices, d \in Devices : received[m][d] > 0 => received'[m][d] > 0
        <3>. SUFFICES ASSUME NEW m \in Notices, NEW d \in Devices, received[m][d] > 0
                      PROVE  received'[m][d] > 0
            OBVIOUS
        <3>1. received[m][d] \in Nat
            BY <1>5
        <3>. QED
            BY <1>6, <1>7, <3>1
    <2>3. \A m \in Notices : owed[m] \subseteq Devices
        BY DEF Inv, TypeOK
    <2>4. job'[w].at = "mark" => \A d \in owed'[n] : received'[n][d] > 0
        <3>. SUFFICES ASSUME failed = {}, NEW d \in owed'[n]
                      PROVE  received'[n][d] > 0
            BY <1>4, <1>8
        <3>1. d \in devices \ stale /\ d \in Devices
            BY <1>3, <2>1, <2>3
        <3>2. received'[n][d] = received[n][d] + 1 /\ received[n][d] \in Nat
            BY <1>5, <1>6, <1>7, <3>1
        <3>. QED
            BY <3>2
    <2>5. stage' = stage /\ (dispatched'[n] => dispatched[n])
        BY <1>3
    <2>. QED
        BY <1>11, <2>1, <2>2, <2>3, <2>4, <2>5, MarkChange DEF Inv
\* The sender is alone, so nobody else is where n has to be sendable.
<1>15. ASSUME n \notin blind'
       PROVE  SendersExcused(n)' /\ RepeatsExcused(n)'
    <2>1. n \notin blind /\ Holds(w, n) /\ key'[n] # "free"
        BY <1>3, <1>12, <1>15 DEF Inv, LeaseInv, LeaseKeepsKey
    <2>2. Sendable(n)
        BY <1>1, <1>2, <2>1 DEF Inv, RepeatInv, SendersExcused, At, Running
    <2>3. \A d \in Devices : /\ received[n][d] \in Nat /\ received[n][d] <= excuses[n]
                             /\ received'[n][d] <= received[n][d] + 1
        BY <1>5, <1>6, <1>7, <2>2 DEF Sendable
    <2>4. excuses[n] \in Nat /\ excuses'[n] \in Nat /\ excuses[n] <= excuses'[n]
        BY <1>9 DEF Inv, TypeOK
    <2>5. RepeatsExcused(n)'
        <3>. SUFFICES ASSUME NEW d \in Devices PROVE received'[n][d] <= 1 + excuses'[n]
            BY DEF RepeatsExcused
        <3>1. received'[n][d] \in Nat
            BY <1>7
        <3>. QED
            BY <2>3, <2>4, <3>1
    <2>6. failed # {} => Sendable(n)'
        <3>. SUFFICES ASSUME failed # {}, NEW d \in Devices PROVE received'[n][d] <= excuses'[n]
            BY DEF Sendable
        <3>1. received'[n][d] \in Nat /\ excuses'[n] = excuses[n] + 1
            BY <1>7, <1>9
        <3>. QED
            BY <2>3, <2>4, <3>1
    <2>7. At(w, n, step)'
        BY <1>8 DEF At, Running
    <2>8. ~dispatched'[n] /\ (\A v \in Workers : ~At(v, n, "mark")') => Sendable(n)'
        BY <1>4, <2>6, <2>7
    <2>9. ASSUME NEW v \in Workers, At(v, n, "send")' \/ At(v, n, "release")'
          PROVE  Sendable(n)'
        <3>1. CASE v = w
            BY <1>4, <1>8, <2>6, <2>9, <3>1 DEF At
        <3>2. CASE v # w
            <4>1. At(v, n, "send") \/ At(v, n, "release")
                BY <1>8, <2>9, <3>2 DEF At, Running
            <4>2. v = w
                BY <2>1, <4>1, Alone DEF UnderLease, Inv
            <4>. QED
                BY <3>2, <4>2
        <3>. QED
            BY <3>1, <3>2
    <2>10. SendersExcused(n)'
        BY <2>1, <2>8, <2>9 DEF SendersExcused
    <2>. QED
        BY <2>5, <2>10
<1>16. RepeatInv'
    BY <1>11, <1>15, RepeatChange DEF Inv
<1>. QED
    BY <1>10, <1>13, <1>14, <1>16 DEF Inv

LEMMA RefuseStep ==
    ASSUME PushConstants, Inv, NEW w \in Workers, NEW redis \in BOOLEAN, Refuse(w, redis)
    PROVE  Inv'
<1>1. job[w] # NoJob /\ job[w].at = "send"
    BY DEF Refuse, Working
<1>2. PICK n \in Notices : n = job[w].notice
    BY <1>1, JobParts DEF Inv
<1>. DEFINE free == job[w].leased /\ redis
<1>3. /\ Works(FALSE) /\ Acknowledged(w)
      /\ stage' = [stage EXCEPT ![n] = "refused"]
      /\ IF free THEN KeyBecomes(n, "free") ELSE KeyKept
      /\ UNCHANGED <<dispatched, devices, received, owed, blind, excuses>>
    BY <1>2 DEF Refuse
<1>4. /\ job' \in [Workers -> Job \cup {NoJob}] /\ job'[w] = NoJob
      /\ \A v \in Workers : v # w => job'[v] = job[v]
    BY <1>3, AcknowledgedType DEF Inv
<1>5. free \in BOOLEAN
    BY <1>1, JobParts DEF Inv
<1>6. free => Holds(w, n)
    BY <1>1, <1>2 DEF Holds
<1>. HIDE DEF free
<1>7. /\ queue' \in Messages /\ parked' \in Messages
      /\ key' \in [Notices -> {"free", "processing", "completed"}]
      /\ ~free => key' = key
      /\ \A m \in Notices : m # n => /\ key'[m] = key[m] /\ queue'[m] = queue[m]
                                     /\ parked'[m] = parked[m]
    BY <1>3, <1>5, KeyChanged DEF Inv
<1>8. TypeOK'
    <2>1. faults' \in 0..MaxFaults
        BY <1>3, WorksType DEF Inv
    <2>. QED
        BY <1>3, <1>4, <1>7, <2>1 DEF Inv, TypeOK
<1>9. OnlyFor(w, n)
    BY <1>1, <1>2, <1>3, <1>4, <1>7 DEF OnlyFor, Running
<1>10. LeaseInv'
    BY <1>4, <1>6, <1>7, <1>9, LeaseChange DEF Inv, Holds
<1>11. MarkInv'
    BY <1>3, <1>4, <1>9, MarkChange DEF Inv, TypeOK, MarkInv, OwedAreActive
<1>12. n \notin blind' => Sendable(n)'
    BY <1>1, <1>2, <1>3 DEF Inv, RepeatInv, SendersExcused, At, Running, Sendable
<1>13. RepeatInv'
    <2>1. received'[n] = received[n] /\ excuses'[n] = excuses[n]
        BY <1>3
    <2>2. dispatched[n] => dispatched'[n]
        BY <1>3
    <2>. QED
        BY <1>4, <1>9, <1>12, <2>1, <2>2, RepeatKept DEF Inv
<1>. QED
    BY <1>8, <1>10, <1>11, <1>13 DEF Inv

LEMMA MarkStep ==
    ASSUME PushConstants, Inv, NEW w \in Workers, NEW db \in BOOLEAN, Mark(w, db)
    PROVE  Inv'
<1>1. job[w] # NoJob /\ job[w].at = "mark"
    BY DEF Mark, Working
<1>2. PICK n \in Notices : n = job[w].notice
    BY <1>1, JobParts DEF Inv
<1>. DEFINE step == IF db THEN "confirm" ELSE "release"
<1>3. /\ Works(db) /\ Excused(n, ~db) /\ Goes(w, step)
      /\ dispatched' = [dispatched EXCEPT ![n] = dispatched[n] \/ db]
      /\ UNCHANGED <<stage, queue, parked, key, devices, received, owed, blind>>
    BY <1>2 DEF Mark
<1>4. /\ dispatched' \in [Notices -> BOOLEAN]
      /\ dispatched'[n] <=> dispatched[n] \/ db
      /\ \A m \in Notices : m # n => dispatched'[m] = dispatched[m]
    BY <1>3 DEF Inv, TypeOK
<1>5. step \in Steps /\ (db => step = "confirm") /\ (~db => step = "release")
    BY DEF Steps
<1>. HIDE DEF step
<1>6. /\ job' \in [Workers -> Job \cup {NoJob}]
      /\ \A v \in Workers : v # w => job'[v] = job[v]
      /\ job'[w] # NoJob /\ job'[w].at = step /\ job'[w].leased = job[w].leased
      /\ job'[w].notice = n
    <2>1. job[w].leased \in BOOLEAN
        BY <1>1, JobParts DEF Inv
    <2>. QED
        BY <1>1, <1>2, <1>3, <1>5, <2>1, GoesType DEF Inv
<1>7. /\ excuses' \in [Notices -> Nat]
      /\ db => excuses'[n] = excuses[n]
      /\ ~db => excuses'[n] = excuses[n] + 1
      /\ \A m \in Notices : m # n => excuses'[m] = excuses[m]
    <2>1. /\ excuses' \in [Notices -> Nat]
          /\ excuses'[n] = excuses[n] + (IF ~db THEN 1 ELSE 0)
          /\ \A m \in Notices : m # n => excuses'[m] = excuses[m]
        BY <1>3, ExcusedType DEF Inv
    <2>2. excuses[n] \in Nat
        BY DEF Inv, TypeOK
    <2>. QED
        BY <2>1, <2>2
<1>8. TypeOK'
    <2>1. faults' \in 0..MaxFaults
        BY <1>3, WorksType DEF Inv
    <2>. QED
        BY <1>3, <1>4, <1>6, <1>7, <2>1 DEF Inv, TypeOK
<1>9. OnlyFor(w, n)
    BY <1>1, <1>2, <1>3, <1>4, <1>6, <1>7 DEF OnlyFor, Running
<1>10. LeaseInv'
    <2>1. /\ job'[w].leased => job'[w].at \in UnderLease
          /\ job'[w].at \in UnderLease /\ n \notin blind' => job'[w].leased
        BY <1>1, <1>2, <1>3, <1>5, <1>6 DEF Inv, LeaseInv, LeasesMatchSteps, UnderLease
    <2>2. Holds(w, n)' => Holds(w, n)
        BY <1>1, <1>2, <1>6 DEF Holds
    <2>3. key' = key /\ (Holds(w, n) => key[n] # "free")
        BY <1>3 DEF Inv, LeaseInv, LeaseKeepsKey
    <2>. QED
        BY <1>9, <2>1, <2>2, <2>3, LeaseChange DEF Inv
<1>11. MarkInv'
    <2>1. job'[w].at # "mark"
        BY <1>5, <1>6
    <2>. QED
        BY <1>1, <1>3, <1>9, <2>1, MarkChange DEF Inv, TypeOK, MarkInv, OwedAreActive
<1>12. RepeatInv'
    <2>1. n \notin blind' /\ ~db => Sendable(n)'
        BY <1>3, <1>7, OneExcuseMore DEF Inv, RepeatInv
    <2>2. db => dispatched'[n] /\ job'[w].at = "confirm"
        BY <1>4, <1>5, <1>6
    <2>3. dispatched[n] => dispatched'[n]
        BY <1>4
    <2>4. received'[n] = received[n] /\ key'[n] = key[n]
        BY <1>3
    <2>5. excuses'[n] \in {excuses[n], excuses[n] + 1}
        BY <1>7
    <2>. QED
        BY <1>9, <2>1, <2>2, <2>3, <2>4, <2>5, RepeatKept DEF Inv
<1>. QED
    BY <1>8, <1>10, <1>11, <1>12 DEF Inv

LEMMA ConfirmStep ==
    ASSUME PushConstants, Inv, NEW w \in Workers, NEW redis \in BOOLEAN, Confirm(w, redis)
    PROVE  Inv'
<1>1. job[w] # NoJob /\ job[w].at = "confirm"
    BY DEF Confirm, Working
<1>2. PICK n \in Notices : n = job[w].notice
    BY <1>1, JobParts DEF Inv
<1>. DEFINE done == job[w].leased /\ redis
<1>3. /\ Works(redis) /\ Acknowledged(w)
      /\ IF done THEN KeyBecomes(n, "completed") ELSE KeyKept
      /\ UNCHANGED <<stage, dispatched, devices, received, owed, blind, excuses>>
    BY <1>2 DEF Confirm
<1>4. /\ job' \in [Workers -> Job \cup {NoJob}] /\ job'[w] = NoJob
      /\ \A v \in Workers : v # w => job'[v] = job[v]
    BY <1>3, AcknowledgedType DEF Inv
<1>5. done \in BOOLEAN
    BY <1>1, JobParts DEF Inv
<1>. HIDE DEF done
<1>6. /\ queue' \in Messages /\ parked' \in Messages
      /\ key' \in [Notices -> {"free", "processing", "completed"}]
      /\ key'[n] = "free" => key[n] = "free"
      /\ \A m \in Notices : m # n => /\ key'[m] = key[m] /\ queue'[m] = queue[m]
                                     /\ parked'[m] = parked[m]
    BY <1>3, <1>5, KeyChanged DEF Inv
<1>7. TypeOK'
    <2>1. faults' \in 0..MaxFaults
        BY <1>3, WorksType DEF Inv
    <2>. QED
        BY <1>3, <1>4, <1>6, <2>1 DEF Inv, TypeOK
<1>8. OnlyFor(w, n)
    BY <1>1, <1>2, <1>3, <1>4, <1>6 DEF OnlyFor, Running
<1>9. LeaseInv'
    BY <1>4, <1>6, <1>8, LeaseChange DEF Inv, Holds
<1>10. MarkInv'
    BY <1>3, <1>4, <1>8, MarkChange DEF Inv, TypeOK, MarkInv, OwedAreActive
<1>11. RepeatInv'
    <2>1. received'[n] = received[n] /\ excuses'[n] = excuses[n]
        BY <1>3
    <2>2. dispatched[n] => dispatched'[n]
        BY <1>3
    <2>3. ~At(w, n, "mark")
        BY <1>1 DEF At
    <2>. QED
        BY <1>4, <1>6, <1>8, <2>1, <2>2, <2>3, RepeatKept DEF Inv
<1>. QED
    BY <1>7, <1>9, <1>10, <1>11 DEF Inv

LEMMA ReleaseStep ==
    ASSUME PushConstants, Inv, NEW w \in Workers, NEW redis \in BOOLEAN, Release(w, redis)
    PROVE  Inv'
<1>1. job[w] # NoJob /\ job[w].at = "release"
    BY DEF Release, Working
<1>2. PICK n \in Notices : n = job[w].notice
    BY <1>1, JobParts DEF Inv
<1>. DEFINE free == job[w].leased /\ redis
<1>3. /\ Works(redis) /\ GoesLeased(w, "retry", FALSE)
      /\ IF free THEN KeyBecomes(n, "free") ELSE KeyKept
      /\ UNCHANGED <<stage, dispatched, devices, received, owed, blind, excuses>>
    BY <1>2 DEF Release
<1>4. /\ job' \in [Workers -> Job \cup {NoJob}]
      /\ \A v \in Workers : v # w => job'[v] = job[v]
      /\ job'[w] # NoJob /\ job'[w].at = "retry" /\ ~job'[w].leased
      /\ job'[w].notice = n
    <2>1. "retry" \in Steps /\ FALSE \in BOOLEAN
        BY DEF Steps
    <2>. QED
        BY <1>1, <1>2, <1>3, <2>1, GoesType DEF Inv
<1>5. free \in BOOLEAN
    BY <1>1, JobParts DEF Inv
<1>6. free => Holds(w, n)
    BY <1>1, <1>2 DEF Holds
<1>. HIDE DEF free
<1>7. /\ queue' \in Messages /\ parked' \in Messages
      /\ key' \in [Notices -> {"free", "processing", "completed"}]
      /\ ~free => key' = key
      /\ \A m \in Notices : m # n => /\ key'[m] = key[m] /\ queue'[m] = queue[m]
                                     /\ parked'[m] = parked[m]
    BY <1>3, <1>5, KeyChanged DEF Inv
<1>8. TypeOK'
    <2>1. faults' \in 0..MaxFaults
        BY <1>3, WorksType DEF Inv
    <2>. QED
        BY <1>3, <1>4, <1>7, <2>1 DEF Inv, TypeOK
<1>9. OnlyFor(w, n)
    BY <1>1, <1>2, <1>3, <1>4, <1>7 DEF OnlyFor, Running
<1>10. LeaseInv'
    BY <1>4, <1>6, <1>7, <1>9, LeaseChange DEF Inv, Holds, UnderLease
<1>11. MarkInv'
    BY <1>3, <1>4, <1>9, MarkChange DEF Inv, TypeOK, MarkInv, OwedAreActive
<1>12. n \notin blind' => Sendable(n)'
    BY <1>1, <1>2, <1>3 DEF Inv, RepeatInv, SendersExcused, At, Running, Sendable
<1>13. RepeatInv'
    <2>1. received'[n] = received[n] /\ excuses'[n] = excuses[n]
        BY <1>3
    <2>2. dispatched[n] => dispatched'[n]
        BY <1>3
    <2>. QED
        BY <1>4, <1>9, <1>12, <2>1, <2>2, RepeatKept DEF Inv
<1>. QED
    BY <1>8, <1>10, <1>11, <1>13 DEF Inv

LEMMA LoseWorkerStep ==
    ASSUME PushConstants, Inv, NEW w \in Workers, LoseWorker(w)
    PROVE  Inv'
<1>1. job[w] # NoJob
    BY DEF LoseWorker
<1>2. PICK n \in Notices, r \in Retries : n = job[w].notice /\ r = job[w].retries
    BY <1>1, JobParts DEF Inv
<1>. DEFINE marking == job[w].at = "mark"
<1>3. /\ Works(FALSE) /\ Excused(n, marking) /\ Acknowledged(w)
      /\ queue' = [queue EXCEPT ![n][r] = @ + 1]
      /\ UNCHANGED <<stage, dispatched, parked, key, devices, received, owed, blind>>
    BY <1>2 DEF LoseWorker
<1>4. /\ job' \in [Workers -> Job \cup {NoJob}] /\ job'[w] = NoJob
      /\ \A v \in Workers : v # w => job'[v] = job[v]
    BY <1>3, AcknowledgedType DEF Inv
<1>5. /\ queue' \in Messages
      /\ \A m \in Notices : m # n => queue'[m] = queue[m]
    BY <1>3, OneMessageType DEF Inv
<1>6. /\ excuses' \in [Notices -> Nat]
      /\ ~marking => excuses'[n] = excuses[n]
      /\ marking => excuses'[n] = excuses[n] + 1
      /\ \A m \in Notices : m # n => excuses'[m] = excuses[m]
    <2>1. /\ excuses' \in [Notices -> Nat]
          /\ excuses'[n] = excuses[n] + (IF marking THEN 1 ELSE 0)
          /\ \A m \in Notices : m # n => excuses'[m] = excuses[m]
        BY <1>3, ExcusedType DEF Inv
    <2>2. excuses[n] \in Nat
        BY DEF Inv, TypeOK
    <2>. QED
        BY <2>1, <2>2
<1>7. TypeOK'
    <2>1. faults' \in 0..MaxFaults
        BY <1>3, WorksType DEF Inv
    <2>. QED
        BY <1>3, <1>4, <1>5, <1>6, <2>1 DEF Inv, TypeOK
<1>8. OnlyFor(w, n)
    BY <1>1, <1>2, <1>3, <1>4, <1>5, <1>6 DEF OnlyFor, Running
<1>9. LeaseInv'
    BY <1>3, <1>4, <1>8, LeaseChange DEF Inv, Holds
<1>10. MarkInv'
    BY <1>3, <1>4, <1>8, MarkChange DEF Inv, TypeOK, MarkInv, OwedAreActive
<1>11. RepeatInv'
    <2>1. n \notin blind' /\ marking => Sendable(n)'
        BY <1>3, <1>6, OneExcuseMore DEF Inv, RepeatInv
    <2>2. ~marking => ~At(w, n, "mark")
        BY DEF At
    <2>3. received'[n] = received[n] /\ key'[n] = key[n]
        BY <1>3
    <2>4. dispatched[n] => dispatched'[n]
        BY <1>3
    <2>5. excuses'[n] \in {excuses[n], excuses[n] + 1}
        BY <1>6
    <2>. QED
        BY <1>4, <1>8, <2>1, <2>2, <2>3, <2>4, <2>5, RepeatKept DEF Inv
<1>. QED
    BY <1>7, <1>9, <1>10, <1>11 DEF Inv

LEMMA ExpiryStep ==
    ASSUME PushConstants, Inv, NEW n \in Notices, KeyExpires(n)
    PROVE  Inv'
<1>1. /\ queue' \in Messages /\ parked' \in Messages
      /\ key' \in [Notices -> {"free", "processing", "completed"}]
      /\ \A m \in Notices : m # n => /\ key'[m] = key[m] /\ queue'[m] = queue[m]
                                     /\ parked'[m] = parked[m]
      /\ (\A r \in Retries : queue[n][r] = 0 /\ parked[n][r] = 0) =>
            \A r \in Retries : queue'[n][r] = 0 /\ parked'[n][r] = 0
    BY KeyBecomesType DEF Inv, KeyExpires
<1>2. UNCHANGED <<stage, dispatched, job, devices, received, owed, blind, excuses, faults>>
    BY DEF KeyExpires
<1>3. \A w \in Workers : ~Holds(w, n) /\ ~At(w, n, "claim")
    BY DEF KeyExpires, Working, At, Running
<1>4. TypeOK'
    BY <1>1, <1>2 DEF Inv, TypeOK
<1>5. LeaseInv'
    BY <1>1, <1>2, <1>3 DEF Inv, LeaseInv, LeasesMatchSteps, OneLease, LeaseKeepsKey, Holds
<1>6. MarkInv'
    BY <1>1, <1>2 DEF Inv, MarkInv, NothingBeforeStored, OwedAreActive, MarkingIsTrue,
                      MarkerMeansReached, At, Running
<1>7. RepeatInv'
    BY <1>1, <1>2, <1>3 DEF Inv, RepeatInv, SendersExcused, RepeatsExcused, Sendable, At, Running
<1>. QED
    BY <1>4, <1>5, <1>6, <1>7 DEF Inv
-----------------------------------------------------------------------------
(* The theorems.                                                           *)

LEMMA InitInv ==
    ASSUME PushConstants, Init
    PROVE  Inv
<1>1. TypeOK
    BY DEF PushConstants, Init, TypeOK, Messages, Retries
<1>2. LeaseInv
    BY DEF Init, LeaseInv, LeasesMatchSteps, OneLease, LeaseKeepsKey, Holds
<1>3. MarkInv
    BY DEF Init, MarkInv, NothingBeforeStored, OwedAreActive, MarkingIsTrue,
           MarkerMeansReached, At, Running
<1>4. RepeatInv
    <2>1. \A n \in Notices, d \in Devices : received[n][d] = 0 /\ excuses[n] = 0
        BY DEF Init
    <2>2. \A n \in Notices, d \in Devices :
              received[n][d] <= excuses[n] /\ received[n][d] <= 1 + excuses[n]
        BY <2>1
    <2>3. \A n \in Notices : Sendable(n) /\ RepeatsExcused(n)
        BY <2>2 DEF Sendable, RepeatsExcused
    <2>. QED
        BY <2>3 DEF RepeatInv, SendersExcused
<1>. QED
    BY <1>1, <1>2, <1>3, <1>4 DEF Inv

LEMMA StepInv ==
    ASSUME PushConstants, Inv, [Next]_vars
    PROVE  Inv'
<1>1. CASE UNCHANGED vars
    <2>1. TypeOK'
        BY <1>1 DEF Inv, TypeOK, vars
    <2>2. LeaseInv' /\ RepeatInv' /\ MarkInv'
        BY <1>1, LeaseFrame, RepeatFrame, MarkFrame DEF Inv, vars
    <2>. QED
        BY <2>1, <2>2 DEF Inv
<1>2. ASSUME NEW n \in Notices,
             \/ CommitEvent(n) \/ StoreNotice(n) \/ SkipNotice(n) \/ Enqueue(n)
             \/ LoseCallback(n) \/ KeyExpires(n)
      PROVE  Inv'
    BY <1>2, CommitStep, StoreStep, StageStep, EnqueueStep, ExpiryStep
<1>3. ASSUME NEW d \in Devices, RegisterDevice(d) \/ UnregisterDevice(d)
      PROVE  Inv'
    BY <1>3, DeviceStep
<1>4. ASSUME NEW w \in Workers, NEW redis \in BOOLEAN, NEW db \in BOOLEAN,
             \/ CheckDone(w, redis, db) \/ Claim(w, redis) \/ Refuse(w, redis)
             \/ Confirm(w, redis) \/ Release(w, redis) \/ Mark(w, db)
      PROVE  Inv'
    BY <1>4, CheckStep, ClaimStep, RefuseStep, ConfirmStep, ReleaseStep, MarkStep
<1>5. ASSUME NEW w \in Workers, NEW stale \in SUBSET Devices, NEW failed \in SUBSET Devices,
             NEW arrived \in SUBSET Devices, Send(w, stale, failed, arrived)
      PROVE  Inv'
    BY <1>5, SendStep
<1>6. ASSUME NEW w \in Workers, Take(w) \/ Retry(w) \/ Ack(w) \/ LoseWorker(w)
      PROVE  Inv'
    BY <1>6, TakeStep, RetryStep, AckStep, LoseWorkerStep
<1>7. CASE WebNext
    BY <1>2, <1>3, <1>7 DEF WebNext
<1>8. ASSUME NEW w \in Workers, Work(w)
      PROVE  Inv'
    BY <1>4, <1>5, <1>6, <1>8 DEF Work
<1>. QED
    BY <1>1, <1>2, <1>6, <1>7, <1>8 DEF Next

LEMMA Invariance == Spec => []Inv
BY InitInv, StepInv, PushConstants, PTL DEF Spec

\* The variables keep their types: in particular no message is taken that was not queued.
THEOREM TypeCorrect == Spec => []TypeOK
<1>1. Inv => TypeOK
    BY DEF Inv
<1>. QED
    BY <1>1, Invariance, PTL

\* As long as Redis answers, two workers never send one notification at the same time, for
\* any number of workers, copies of a message, retries and lost workers.
THEOREM SendsDoNotOverlap == Spec => []NoOverlap
<1>1. Inv => NoOverlap
    BY DEF Inv, LeaseInv, LeasesMatchSteps, OneLease, UnderLease, Holds, NoOverlap
<1>. QED
    BY <1>1, Invariance, PTL

\* Every push a device gets again is owed to a failed send, a failed look at or write of
\* the marker, or a worker lost in front of it.
THEOREM RepeatsAreExcused == Spec => []RepeatsNeedExcuses
<1>1. Inv => RepeatsNeedExcuses
    BY DEF Inv, RepeatInv, RepeatsExcused, RepeatsNeedExcuses
<1>. QED
    BY <1>1, Invariance, PTL

\* When the durable marker is set, every device that was there all along has the push.
THEOREM MarkerIsTrue == Spec => []MarkerMeansReached
<1>1. Inv => MarkerMeansReached
    BY DEF Inv, MarkInv
<1>. QED
    BY <1>1, Invariance, PTL
=============================================================================
