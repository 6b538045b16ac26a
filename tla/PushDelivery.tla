---------------------------- MODULE PushDelivery ----------------------------
(***************************************************************************)
(* How an order event becomes a push on the customer's devices:            *)
(* notifications/order_services.py stores a Notification after the order's *)
(* commit and enqueues send_notification_push_task (notifications/         *)
(* tasks.py), which Celery workers run with retries and acknowledge late.  *)
(*                                                                         *)
(* Two things are kept between the steps of a request and of the task: the *)
(* on_commit callback, only in the memory of the web process, and the task *)
(* message, in the broker until it is acknowledged.  Redis gives a worker  *)
(* a lease on a notification for 30 s; a worker is stopped after 15 s, so  *)
(* a lease is never lost under a running one.  A message that found the    *)
(* lease taken is retried after 31 s: not before that lease is over.       *)
(*                                                                         *)
(* Notifications share nothing, but one may be queued more than once: a    *)
(* worker lost between publishing a retry and acknowledging leaves both.   *)
(***************************************************************************)
EXTENDS Integers

CONSTANTS
    Notices,    \* order events that concern a customer
    Devices,    \* devices of that customer
    Workers,
    NoJob,
    MaxRetries, \* max_retries of the task
    MaxFaults   \* bound of the model: faults of Redis, Postgres, FCM, workers

Retries == 0..MaxRetries
Messages == [Notices -> [Retries -> Nat]]
Steps == {"check", "claim", "send", "mark", "confirm", "release", "retry", "ack"}
Job == [at: Steps, notice: Notices, retries: Retries, leased: BOOLEAN]

ASSUME PushConstants == MaxRetries \in Nat /\ MaxFaults \in Nat /\ NoJob \notin Job

VARIABLES
    stage,      \* stage[n]: "none"; "committed" with the callback in memory;
                \* "stored" with the enqueue in memory; "published"; "refused"
                \* after a permanent failure; "skipped" or "lost"
    dispatched, \* dispatched[n]: data["push_dispatched"] of the Notification row
    queue,      \* queue[n][r]: task messages of n with r retries that may be delivered
    parked,     \* parked[n][r]: those waiting out the lease they found taken
    key,        \* key[n]: the Redis key yalla:push:sent:<n>
    job,        \* job[w]: the message worker w runs, unacknowledged
    devices,    \* the customer's active devices
    received,   \* ghost, received[n][d]: pushes of n that device d got
    owed,       \* ghost, owed[n]: devices active ever since n was stored
    blind,      \* ghost: notices a worker sent without a lease, Redis failing
    excuses,    \* ghost, excuses[n]: faults after which n may have to be sent again
    faults      \* faults so far

vars == <<stage, dispatched, queue, parked, key, job, devices, received, owed, blind,
          excuses, faults>>

TypeOK ==
    /\ stage \in [Notices -> {"none", "committed", "stored", "published", "refused",
                              "skipped", "lost"}]
    /\ dispatched \in [Notices -> BOOLEAN]
    /\ queue \in Messages /\ parked \in Messages
    /\ key \in [Notices -> {"free", "processing", "completed"}]
    /\ job \in [Workers -> Job \cup {NoJob}]
    /\ devices \subseteq Devices
    /\ received \in [Notices -> [Devices -> Nat]]
    /\ owed \in [Notices -> SUBSET Devices]
    /\ blind \subseteq Notices
    /\ excuses \in [Notices -> Nat]
    /\ faults \in 0..MaxFaults

Init ==
    /\ stage = [n \in Notices |-> "none"]
    /\ dispatched = [n \in Notices |-> FALSE]
    /\ queue = [n \in Notices |-> [r \in Retries |-> 0]]
    /\ parked = [n \in Notices |-> [r \in Retries |-> 0]]
    /\ key = [n \in Notices |-> "free"]
    /\ job = [w \in Workers |-> NoJob]
    /\ devices \in SUBSET Devices
    /\ received = [n \in Notices |-> [d \in Devices |-> 0]]
    /\ owed = [n \in Notices |-> {}]
    /\ blind = {}
    /\ excuses = [n \in Notices |-> 0]
    /\ faults = 0
-----------------------------------------------------------------------------
\* Something the task depends on works, or fails once more.
Works(up) == IF up THEN UNCHANGED faults ELSE faults < MaxFaults /\ faults' = faults + 1

Working(w, step) == job[w] # NoJob /\ job[w].at = step
Goes(w, step) == job' = [job EXCEPT ![w].at = step]
GoesLeased(w, step, leased) ==
    job' = [job EXCEPT ![w] = [@ EXCEPT !.at = step, !.leased = leased]]
Acknowledged(w) == job' = [job EXCEPT ![w] = NoJob]
Excused(n, fault) == excuses' = [excuses EXCEPT ![n] = @ + (IF fault THEN 1 ELSE 0)]

\* Who is between the claim and the end of its attempt.
Holds(w, n) == job[w] # NoJob /\ job[w].notice = n /\ job[w].leased

\* The key of n leaves "processing": the messages waiting for that may come again.
KeyBecomes(n, value) ==
    /\ key' = [key EXCEPT ![n] = value]
    /\ queue' = [queue EXCEPT ![n] = [r \in Retries |-> @[r] + parked[n][r]]]
    /\ parked' = [parked EXCEPT ![n] = [r \in Retries |-> 0]]

KeyKept == UNCHANGED <<key, queue, parked>>

OneMoreForgotten(box, n, r) == box       \* mutant: nothing is published again

\* One more retry of message [n, r]: self.retry, which fails the task for good after
\* max_retries.
OneMore(box, n, r) ==
    IF r < MaxRetries THEN [box EXCEPT ![n][r + 1] = @ + 1] ELSE box

AlreadySentByRedis(n, redis, db) ==      \* mutant: the durable marker is not consulted
    redis /\ key[n] = "completed"

\* Completed according to Redis or to the row; redis and db say whether each of the two
\* could be asked.
AlreadySent(n, redis, db) ==
    \/ redis /\ key[n] = "completed"
    \/ db /\ dispatched[n]

ClaimableAnyway(n) == key[n] # "completed"   \* mutant: a lease is taken over (no NX)

\* SET NX of the key succeeds.
Claimable(n) == key[n] = "free"

AfterSendIgnoringFailures(failed) == "mark"  \* mutant: failed tokens are not looked at

\* Failed tokens fail the attempt.
AfterSend(failed) == IF failed = {} THEN "mark" ELSE "release"
-----------------------------------------------------------------------------
(* The web process.                                                        *)

\* An order transaction with an event for the customer commits.
CommitEvent(n) ==
    /\ stage[n] = "none"
    /\ stage' = [stage EXCEPT ![n] = "committed"]
    /\ UNCHANGED <<dispatched, queue, parked, key, job, devices, received, owed, blind,
                   excuses, faults>>

\* create_order_lifecycle_notification, in a transaction of its own.
StoreNotice(n) ==
    /\ stage[n] = "committed"
    /\ stage' = [stage EXCEPT ![n] = "stored"]
    /\ owed' = [owed EXCEPT ![n] = devices]
    /\ UNCHANGED <<dispatched, queue, parked, key, job, devices, received, blind,
                   excuses, faults>>

\* The customer's account is disabled or deleted: nobody to tell.
SkipNotice(n) ==
    /\ stage[n] = "committed"
    /\ stage' = [stage EXCEPT ![n] = "skipped"]
    /\ UNCHANGED <<dispatched, queue, parked, key, job, devices, received, owed, blind,
                   excuses, faults>>

\* send_notification_push_task.delay, once the notification is committed.
Enqueue(n) ==
    /\ stage[n] = "stored"
    /\ stage' = [stage EXCEPT ![n] = "published"]
    /\ queue' = [queue EXCEPT ![n][0] = @ + 1]
    /\ UNCHANGED <<dispatched, parked, key, job, devices, received, owed, blind,
                   excuses, faults>>

\* The web process dies, or the broker refuses the message: what the callbacks had to
\* do is nowhere else.
LoseCallback(n) ==
    /\ stage[n] \in {"committed", "stored"}
    /\ Works(FALSE)
    /\ stage' = [stage EXCEPT ![n] = "lost"]
    /\ UNCHANGED <<dispatched, queue, parked, key, job, devices, received, owed, blind,
                   excuses>>

RegisterDevice(d) ==
    /\ d \notin devices
    /\ devices' = devices \cup {d}
    /\ UNCHANGED <<stage, dispatched, queue, parked, key, job, received, owed, blind,
                   excuses, faults>>

UnregisterDevice(d) ==
    /\ d \in devices
    /\ devices' = devices \ {d}
    /\ owed' = [n \in Notices |-> owed[n] \ {d}]
    /\ UNCHANGED <<stage, dispatched, queue, parked, key, job, received, blind,
                   excuses, faults>>
-----------------------------------------------------------------------------
(* The worker, in the order of send_notification_push_task.                *)

TakeTwice(w) ==                          \* mutant: the broker's count of messages is not kept
    \E n \in Notices, r \in Retries :
        /\ job[w] = NoJob /\ stage[n] = "published"
        /\ queue' = [queue EXCEPT ![n][r] = @ - 1]
        /\ job' = [job EXCEPT ![w] =
                      [at |-> "check", notice |-> n, retries |-> r, leased |-> FALSE]]
        /\ UNCHANGED <<stage, dispatched, parked, key, devices, received, owed, blind, excuses,
                       faults>>

Take(w) ==
    \E n \in Notices, r \in Retries :
        /\ job[w] = NoJob /\ queue[n][r] > 0
        /\ queue' = [queue EXCEPT ![n][r] = @ - 1]
        /\ job' = [job EXCEPT ![w] =
                      [at |-> "check", notice |-> n, retries |-> r, leased |-> FALSE]]
        /\ UNCHANGED <<stage, dispatched, parked, key, devices, received, owed, blind, excuses,
                       faults>>

\* The row is read after the key; what was dispatched by then is not sent again.
CheckDone(w, redis, db) ==
    LET n == job[w].notice
    IN  /\ Working(w, "check")
        /\ Works(redis /\ db)
        /\ IF AlreadySent(n, redis, db)
           THEN /\ Acknowledged(w)
                /\ IF redis THEN KeyBecomes(n, "completed") ELSE KeyKept
           ELSE Goes(w, "claim") /\ KeyKept
        /\ Excused(n, ~db)
        /\ UNCHANGED <<stage, dispatched, devices, received, owed, blind>>

\* The lease is taken; or the notification is completed; or another worker holds the
\* lease and the task is retried in 31 s; or Redis fails, before or after it has set the
\* key, and the worker goes on without a lease.
Claim(w, redis) ==
    LET n == job[w].notice
    IN  /\ Working(w, "claim")
        /\ Works(redis)
        /\ \/ /\ redis /\ Claimable(n)
              /\ key' = [key EXCEPT ![n] = "processing"]
              /\ GoesLeased(w, "send", TRUE)
              /\ UNCHANGED <<parked, blind>>
           \/ /\ redis /\ key[n] = "completed"
              /\ Acknowledged(w)
              /\ UNCHANGED <<key, parked, blind>>
           \/ /\ redis /\ key[n] = "processing"
              /\ parked' = OneMore(parked, n, job[w].retries)
              /\ Goes(w, "ack")
              /\ UNCHANGED <<key, blind>>
           \/ /\ ~redis
              /\ Goes(w, "send")
              /\ blind' = blind \cup {n}
              /\ \/ UNCHANGED key
                 \/ Claimable(n) /\ key' = [key EXCEPT ![n] = "processing"]
              /\ UNCHANGED parked
        /\ UNCHANGED <<stage, dispatched, queue, devices, received, owed, excuses>>

\* One multicast to every active device: FCM takes it, calls the token unregistered
\* (the device row is deleted) or fails; a request that fails may have arrived.
Send(w, stale, failed, arrived) ==
    LET n == job[w].notice
    IN  /\ Working(w, "send")
        /\ stale \cup failed \subseteq devices /\ stale \cap failed = {}
        /\ arrived \subseteq failed
        /\ Works(failed = {})
        /\ received' = [received EXCEPT ![n] = [d \in Devices |->
               IF d \in (devices \ (stale \cup failed)) \cup arrived THEN @[d] + 1 ELSE @[d]]]
        /\ devices' = devices \ stale
        /\ owed' = [m \in Notices |-> owed[m] \ stale]
        /\ Excused(n, failed # {})
        /\ Goes(w, AfterSend(failed))
        /\ UNCHANGED <<stage, dispatched, queue, parked, key, blind>>

\* A missing Firebase configuration, or an error outside RETRYABLE_EXCEPTIONS: the
\* lease is given back and the task is not tried again.
Refuse(w, redis) ==
    LET n == job[w].notice
    IN  /\ Working(w, "send")
        /\ Works(FALSE)
        /\ stage' = [stage EXCEPT ![n] = "refused"]
        /\ IF job[w].leased /\ redis THEN KeyBecomes(n, "free") ELSE KeyKept
        /\ Acknowledged(w)
        /\ UNCHANGED <<dispatched, devices, received, owed, blind, excuses>>

\* _mark_push_dispatched
Mark(w, db) ==
    LET n == job[w].notice
    IN  /\ Working(w, "mark")
        /\ Works(db)
        /\ dispatched' = [dispatched EXCEPT ![n] = @ \/ db]
        /\ Excused(n, ~db)
        /\ Goes(w, IF db THEN "confirm" ELSE "release")
        /\ UNCHANGED <<stage, queue, parked, key, devices, received, owed, blind>>

\* The key lives 24 h with "completed"; a failure here is ignored.
Confirm(w, redis) ==
    /\ Working(w, "confirm")
    /\ Works(redis)
    /\ IF job[w].leased /\ redis THEN KeyBecomes(job[w].notice, "completed") ELSE KeyKept
    /\ Acknowledged(w)
    /\ UNCHANGED <<stage, dispatched, devices, received, owed, blind, excuses>>

\* A failed attempt deletes the key, if Redis lets it, and then publishes the retry
\* with a backoff.
Release(w, redis) ==
    LET n == job[w].notice
    IN  /\ Working(w, "release")
        /\ Works(redis)
        /\ IF job[w].leased /\ redis THEN KeyBecomes(n, "free") ELSE KeyKept
        /\ GoesLeased(w, "retry", FALSE)
        /\ UNCHANGED <<stage, dispatched, devices, received, owed, blind, excuses>>

Retry(w) ==
    /\ Working(w, "retry")
    /\ queue' = OneMore(queue, job[w].notice, job[w].retries)
    /\ Goes(w, "ack")
    /\ UNCHANGED <<stage, dispatched, parked, key, devices, received, owed, blind, excuses,
                   faults>>

Ack(w) ==
    /\ Working(w, "ack")
    /\ Acknowledged(w)
    /\ UNCHANGED <<stage, dispatched, queue, parked, key, devices, received, owed, blind,
                   excuses, faults>>

\* The worker process is killed: the broker delivers its message again
\* (acks_late, reject_on_worker_lost) and a lease it held stays until it expires.
LoseWorker(w) ==
    /\ job[w] # NoJob
    /\ Works(FALSE)
    /\ queue' = [queue EXCEPT ![job[w].notice][job[w].retries] = @ + 1]
    /\ Excused(job[w].notice, job[w].at = "mark")
    /\ Acknowledged(w)
    /\ UNCHANGED <<stage, dispatched, parked, key, devices, received, owed, blind>>

\* Redis drops a lease 30 s after the claim, a completed mark after 24 h: when its
\* holder has ended, and so much later that a worker about to claim has looked at the
\* marker since.
KeyExpires(n) ==
    /\ key[n] # "free"
    /\ \A w \in Workers : ~Holds(w, n) /\ ~(Working(w, "claim") /\ job[w].notice = n)
    /\ KeyBecomes(n, "free")
    /\ UNCHANGED <<stage, dispatched, job, devices, received, owed, blind,
                   excuses, faults>>
-----------------------------------------------------------------------------
WebNext ==
    \/ \E n \in Notices :
          CommitEvent(n) \/ StoreNotice(n) \/ SkipNotice(n) \/ Enqueue(n) \/ LoseCallback(n)
    \/ \E d \in Devices : RegisterDevice(d) \/ UnregisterDevice(d)

Work(w) ==
    \/ \E redis, db \in BOOLEAN : CheckDone(w, redis, db)
    \/ \E redis \in BOOLEAN :
          Claim(w, redis) \/ Refuse(w, redis) \/ Confirm(w, redis) \/ Release(w, redis)
    \/ \E stale, failed, arrived \in SUBSET Devices : Send(w, stale, failed, arrived)
    \/ \E db \in BOOLEAN : Mark(w, db)
    \/ Retry(w) \/ Ack(w)

Next ==
    \/ WebNext
    \/ \E w \in Workers : Take(w) \/ Work(w) \/ LoseWorker(w)
    \/ \E n \in Notices : KeyExpires(n)

Spec == Init /\ [][Next]_vars

\* A request runs its callbacks, Celery delivers what is queued and goes on with what it
\* runs, Redis expires keys.  Nothing is fair to LoseCallback and LoseWorker.
Fairness ==
    /\ \A n \in Notices : WF_vars(StoreNotice(n) \/ SkipNotice(n) \/ Enqueue(n))
    /\ WF_vars(\E w \in Workers : Take(w))
    /\ \A w \in Workers : WF_vars(Work(w))
    /\ \A n \in Notices : WF_vars(KeyExpires(n))

FairSpec == Spec /\ Fairness
-----------------------------------------------------------------------------
\* "Redis only provides an atomic short-lived claim that prevents concurrent workers
\* from double-sending" (tasks.py): no two workers are sending one notification, unless
\* Redis failed for it.
NoOverlap ==
    \A n \in Notices \ blind, v, w \in Workers :
        (\A x \in {v, w} : job[x] # NoJob /\ job[x].notice = n
                            /\ job[x].at \in {"send", "mark", "confirm"}) => v = w

\* "Delivery tasks use bounded retries and deduplication" (README): a notification is
\* repeated on a device only after a failed send, a failed look at or update of the
\* marker, or a worker lost between the two - not because a message was queued twice, a
\* lease expired or a worker died anywhere else.
RepeatsNeedExcuses ==
    \A n \in Notices \ blind, d \in Devices : received[n][d] <= 1 + excuses[n]

\* The durable marker is true: once it is set no task sends the notification again, so
\* by then it has reached every device that was active from the start.
MarkerMeansReached ==
    \A n \in Notices : dispatched[n] => \A d \in owed[n] : received[n][d] > 0

\* Nothing enqueued is forgotten: with no more faults than max_retries, and none of them
\* permanent, the push is dispatched - abandoned leases and lost workers included.
EnqueuedIsDispatched ==
    \A n \in Notices : stage[n] = "published" ~> dispatched[n] \/ stage[n] = "refused"

\* README: a "transactional push outbox" - an event that committed comes to be queued for
\* its customer, whatever process dies after the commit.
CommittedIsPublished ==
    \A n \in Notices : stage[n] = "committed" ~> stage[n] \in {"published", "refused", "skipped"}
=============================================================================
