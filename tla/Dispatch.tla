------------------------------ MODULE Dispatch ------------------------------
(***************************************************************************)
(* Announcing an offer, a product, a new market or a new delivery area to  *)
(* the customers of its region (notifications/offer_services.py,           *)
(* product_services.py, market_services.py, delivery_area_services.py),    *)
(* and the multicast task that pushes them (notifications/tasks.py).       *)
(*                                                                         *)
(* An administrator announces an offer or a product with a request id of   *)
(* their own and may repeat the request.  A new market is announced once,  *)
(* by the first save of one of its products that finds it ready; an area   *)
(* when it is created.  Each is a transaction under the lock of a dispatch *)
(* row that stores one Notification per customer; after the commit they    *)
(* are queued in batches, and nothing remembers those that were not.       *)
(*                                                                         *)
(* The task has no lease: it reads which notifications of its batch are    *)
(* not marked, sends, marks.  Devices are unregistered here, never added.  *)
(***************************************************************************)
EXTENDS Integers, Bags, SequencesExt

CONSTANTS
    Clients, Devices, Owner,    \* Owner[d]: the client that device d belongs to
    Requests,                   \* request ids
    Offers, Products, Areas,
    Markets, Home,              \* Home[p]: the market that sells p
    Handlers, Workers, None,
    BatchSize,                  \* 500 in the code
    MaxRetries,                 \* max_retries of the task
    MaxRequests, MaxChanges, MaxFaults      \* bounds of the model

\* One row for each request id, and one for each market and area.
Dispatches == Requests \cup Markets \cup Areas
Subjects == Offers \cup Products \cup Markets \cup Areas
Notices == Dispatches \X Clients
Statuses == {"pending", "failed", "completed"}

Row == [subject: Subjects, status: Statuses, trigger: Products \cup {None}]

Request ==
    [dispatch: Dispatches, subject: Subjects, product: Products \cup {None},
     at: {"asked", "locked", "publish"}, batches: SUBSET SUBSET Notices]

Message == [batch: SUBSET Notices, retries: 0..MaxRetries]

Run == [message: Message, at: {"send", "mark", "finish"},
        pending: SUBSET Notices, failed: SUBSET Devices]

ASSUME DispatchConstants ==
    /\ Owner \in [Devices -> Clients] /\ Home \in [Products -> Markets]
    /\ IsFiniteSet(Clients)
    /\ Markets \cap (Offers \cup Products \cup Areas) = {}
    /\ None \notin Dispatches \cup Subjects \cup Row
    /\ BatchSize \in Nat \ {0} /\ MaxRetries \in Nat
    /\ MaxRequests \in Nat /\ MaxChanges \in Nat /\ MaxFaults \in Nat

VARIABLES
    ready,      \* what may be announced: offers running, products on sale, markets open
    dispatch,   \* dispatch[d]: its row, or None
    handler,    \* handler[h]: a request, or a callback after a save, under way
    notices,    \* Notification rows, by dispatch and recipient
    marked,     \* those with data["push_dispatched"]
    queue,      \* bag of task messages
    job,        \* job[w]: the message worker w runs, unacknowledged
    devices,    \* active devices
    done,       \* ghost, done[d]: times d was completed
    queued,     \* ghost, queued[n]: times a handler queued n
    got,        \* ghost, got[n][v]: pushes of n that device v got
    excuse,     \* ghost, excuse[n]: faults after which n may have to be sent again
    requests, changes, faults

shown == <<ready, dispatch, handler, notices, done, queued, requests, changes>>
pushed == <<marked, queue, job, devices, got, excuse>>
vars == <<shown, pushed, faults>>

TypeOK ==
    /\ ready \subseteq Subjects
    /\ dispatch \in [Dispatches -> Row \cup {None}]
    /\ handler \in [Handlers -> Request \cup {None}]
    /\ notices \subseteq Notices /\ marked \subseteq notices
    /\ IsABag(queue) /\ BagToSet(queue) \subseteq Message
    /\ job \in [Workers -> Run \cup {None}]
    /\ devices \subseteq Devices
    /\ done \in [Dispatches -> Nat] /\ queued \in [Notices -> Nat]
    /\ got \in [Notices -> [Devices -> Nat]] /\ excuse \in [Notices -> Nat]
    /\ requests \in 0..MaxRequests /\ changes \in 0..MaxChanges /\ faults \in 0..MaxFaults
    /\ \A h \in Handlers :      \* a dispatch is about one subject for good
          handler[h] # None /\ handler[h].at # "asked" /\ dispatch[handler[h].dispatch] # None
          => dispatch[handler[h].dispatch].subject = handler[h].subject

NewDispatch(s) == [subject |-> s, status |-> "pending", trigger |-> None]

\* Markets were created with send_notification: their intent waits for a product.
Init ==
    /\ ready = Subjects \ Areas
    /\ dispatch = [d \in Dispatches |-> IF d \in Markets THEN NewDispatch(d) ELSE None]
    /\ handler = [h \in Handlers |-> None] /\ job = [w \in Workers |-> None]
    /\ notices = {} /\ marked = {} /\ queue = EmptyBag /\ devices = Devices
    /\ done = [d \in Dispatches |-> 0] /\ queued = [n \in Notices |-> 0]
    /\ got = [n \in Notices |-> [v \in Devices |-> 0]] /\ excuse = [n \in Notices |-> 0]
    /\ requests = 0 /\ changes = 0 /\ faults = 0

Fault == faults < MaxFaults /\ faults' = faults + 1
Changed == changes < MaxChanges /\ changes' = changes + 1
-----------------------------------------------------------------------------
(* The web process.                                                        *)

At(h, step) == handler[h] # None /\ handler[h].at = step

Starts(h, d, s, p) ==
    /\ handler[h] = None /\ requests < MaxRequests /\ requests' = requests + 1
    /\ handler' = [handler EXCEPT ![h] =
          [dispatch |-> d, subject |-> s, product |-> p, at |-> "asked", batches |-> {}]]
    /\ UNCHANGED <<ready, dispatch, notices, done, queued, changes, pushed, faults>>

\* completed_market_dispatch_for_product: the product has announced its market.
Suppressed(s) ==
    \E m \in Markets : dispatch[m].status = "completed" /\ dispatch[m].trigger = s

\* OfferSendNotificationView and ProductSendNotificationView
Ask(h, r, s) == ~Suppressed(s) /\ Starts(h, r, s, None)

\* A product was saved: schedule_pending_market_notification_for_product.
SaveProduct(h, p) == Starts(h, Home[p], Home[p], p)

\* An area was created: schedule_delivery_area_created_notifications.
CreateArea(h, a) ==
    /\ dispatch[a] = None /\ \A g \in Handlers : handler[g] # None => handler[g].dispatch # a
    /\ Starts(h, a, a, None)

\* Mutant: the row is read without select_for_update.
Unlocked(h) == TRUE

\* The rows a handler locks: the dispatch, one being inserted too, and offer or product.
Locks(q) == {q.dispatch, q.subject, q.product} \ {None}

Free(h) == \A g \in Handlers \ {h} :
              At(g, "locked") => Locks(handler[g]) \cap Locks(handler[h]) = {}

\* Mutant: a request id is not compared with what it was used for.
ToDoAnySubject(h) ==
    LET q == handler[h]
    IN  q.subject \in Markets \/ dispatch[q.dispatch] = None
        \/ dispatch[q.dispatch].status # "completed"

\* Whether the dispatch is still to be done, and about this subject; of a market, whether
\* the product is fit to announce it.
ToDo(h) ==
    LET q == handler[h]
        row == dispatch[q.dispatch]
    IN  /\ row # None => row.subject = q.subject
        /\ IF q.subject \in Markets THEN q.product \in ready /\ row.status = "pending"
           ELSE row # None => row.status # "completed"

Lock(h) ==
    /\ At(h, "asked") /\ Free(h)
    /\ handler' = [handler EXCEPT ![h] = IF ToDo(h) THEN [@ EXCEPT !.at = "locked"] ELSE None]
    /\ UNCHANGED <<ready, dispatch, notices, done, queued, requests, changes, pushed, faults>>

\* Recipients that have a notification of the dispatch are skipped; a market's are all
\* queued, those it had before too.
Fresh(d, recipients) ==
    LET rows == {d} \X recipients
    IN  IF d \in Markets THEN rows ELSE rows \ notices

Batches(rows) ==
    LET ids == SetToSeq(rows)
        first == {i \in DOMAIN ids : i % BatchSize = 1 % BatchSize}
    IN  {{ids[j] : j \in {k \in DOMAIN ids : i <= k /\ k < i + BatchSize}} : i \in first}

\* Areas need nothing; a product needs its market, whose status, classification and city
\* are one thing here.
Fit(s) == s \in Areas \/ (s \in ready /\ (s \in Products => Home[s] \in ready))

\* Not fit, a request is recorded as failed; a market goes on waiting.
Refuse(h) ==
    LET q == handler[h]
    IN  /\ At(h, "locked") /\ ~Fit(q.subject)
        /\ dispatch' = IF q.subject \in Markets THEN dispatch
                       ELSE [dispatch EXCEPT ![q.dispatch] =
                               [NewDispatch(q.subject) EXCEPT !.status = "failed"]]
        /\ handler' = [handler EXCEPT ![h] = None]
        /\ UNCHANGED <<ready, notices, done, queued, requests, changes, pushed, faults>>

\* Notifications for the region's customers: those who have not left by now.
Commit(h, left) ==
    LET q == handler[h]
        d == q.dispatch
        recipients == Clients \ left
        batches == Batches(Fresh(d, recipients))
    IN  /\ At(h, "locked") /\ Fit(q.subject)
        /\ notices' = notices \cup ({d} \X recipients)
        /\ dispatch' = [dispatch EXCEPT ![d] =
              [subject |-> q.subject, status |-> "completed", trigger |-> q.product]]
        /\ done' = [done EXCEPT ![d] = @ + 1]
        /\ handler' = [handler EXCEPT ![h] =
              IF batches = {} THEN None ELSE [@ EXCEPT !.at = "publish", !.batches = batches]]
        /\ IF left = {} THEN UNCHANGED changes ELSE Changed
        /\ UNCHANGED <<ready, queued, requests, pushed, faults>>

\* .delay of one batch; an exception of it is logged, and the next is tried.
Publish(h, batch, up) ==
    /\ IF up THEN /\ queue' = queue (+) SetToBag({[batch |-> batch, retries |-> 0]})
                  /\ queued' = [n \in Notices |-> queued[n] + (IF n \in batch THEN 1 ELSE 0)]
                  /\ UNCHANGED faults
       ELSE Fault /\ UNCHANGED <<queue, queued>>
    /\ LET q == handler[h] IN
       handler' = [handler EXCEPT ![h] = IF q.batches = {batch} THEN None
                                         ELSE [q EXCEPT !.batches = @ \ {batch}]]
    /\ UNCHANGED <<ready, dispatch, notices, done, requests, changes,
                   marked, job, devices, got, excuse>>

\* The process dies, or PostgreSQL refuses the transaction.
Crash(h) ==
    /\ At(h, "locked") \/ At(h, "publish")
    /\ Fault
    /\ handler' = [handler EXCEPT ![h] = None]
    /\ UNCHANGED <<ready, dispatch, notices, done, queued, requests, changes, pushed>>

\* An administrator changes what is announced; its row waits for the lock, a market's is
\* not locked.
Change(s) ==
    /\ IF s \in ready THEN Changed ELSE UNCHANGED changes
    /\ s \notin Markets =>
          \A h \in Handlers : At(h, "locked") => s \notin Locks(handler[h])
    /\ ready' = IF s \in ready THEN ready \ {s} ELSE ready \cup {s}
    /\ UNCHANGED <<dispatch, handler, notices, done, queued, requests, pushed, faults>>
-----------------------------------------------------------------------------
(* send_notifications_multicast_batch_task                                 *)

Working(w, step) == job[w] # None /\ job[w].at = step

\* Which of the batch are not marked; with none left the task is over.
Take(w, m) ==
    LET pending == m.batch \ marked
    IN  /\ job[w] = None /\ BagIn(m, queue)
        /\ queue' = queue (-) SetToBag({m})
        /\ job' = [job EXCEPT ![w] =
              IF pending = {} THEN None
              ELSE [message |-> m, at |-> "send", pending |-> pending, failed |-> {}]]
        /\ UNCHANGED <<shown, marked, devices, got, excuse, faults>>

DevicesOf(n) == {v \in devices : Owner[v] = n[2]}

\* One multicast: it fails for some devices, and may have reached some of those all the
\* same; some are unregistered, and forgotten.
Send(w, failed, reached, stale) ==
    LET pending == job[w].pending
        tokens == UNION {DevicesOf(n) : n \in pending}
        pushes(n) == DevicesOf(n) \cap (reached \cup (tokens \ (failed \cup stale)))
    IN  /\ Working(w, "send")
        /\ failed \cup stale \subseteq tokens /\ failed \cap stale = {}
        /\ IF failed = {} THEN UNCHANGED faults ELSE Fault
        /\ IF stale = {} THEN UNCHANGED changes ELSE Changed
        /\ got' = [n \in Notices |-> [v \in Devices |->
                     got[n][v] + (IF n \in pending /\ v \in pushes(n) THEN 1 ELSE 0)]]
        /\ excuse' = [n \in Notices |-> excuse[n] +
                        (IF n \in pending /\ DevicesOf(n) \cap failed # {} THEN 1 ELSE 0)]
        /\ devices' = devices \ stale
        /\ job' = [job EXCEPT ![w] = [@ EXCEPT !.at = "mark", !.failed = failed]]
        /\ UNCHANGED <<ready, dispatch, handler, notices, done, queued, requests, marked, queue>>

\* Mutant: a batch that failed for anybody is not marked at all.
SettledTogether(j) == IF j.failed = {} THEN j.pending ELSE {}

\* dispatched_notification_ids: those none of whose recipient's devices failed
Settled(j) == {n \in j.pending : \A v \in j.failed : Owner[v] # n[2]}

Mark(w) ==
    /\ Working(w, "mark")
    /\ marked' = marked \cup Settled(job[w])
    /\ job' = [job EXCEPT ![w].at = "finish"]
    /\ UNCHANGED <<shown, queue, devices, got, excuse, faults>>

Retried(m) == IF m.retries < MaxRetries
              THEN SetToBag({[m EXCEPT !.retries = @ + 1]}) ELSE EmptyBag

\* Failed tokens raise ConnectionError: self.retry, to the last one.
Finish(w) ==
    /\ Working(w, "finish")
    /\ queue' = IF job[w].failed = {} THEN queue ELSE queue (+) Retried(job[w].message)
    /\ job' = [job EXCEPT ![w] = None]
    /\ UNCHANGED <<shown, marked, devices, got, excuse, faults>>

\* Firebase is not configured, or PostgreSQL fails: not retried.  Some may be marked.
GiveUp(w, some) ==
    /\ job[w] # None /\ job[w].at \in {"send", "mark"} /\ Fault
    /\ some \subseteq (IF job[w].at = "mark" THEN Settled(job[w]) ELSE {})
    /\ marked' = marked \cup some
    /\ job' = [job EXCEPT ![w] = None]
    /\ UNCHANGED <<shown, queue, devices, got, excuse>>

\* The worker is killed: the message is delivered again, beside the retry it published.
LoseWorker(w, published) ==
    LET m == job[w].message
    IN  /\ job[w] # None /\ Fault
        /\ published => job[w].at = "finish" /\ job[w].failed # {}
        /\ queue' = (IF published THEN queue (+) Retried(m) ELSE queue) (+) SetToBag({m})
        /\ excuse' = [n \in Notices |-> excuse[n] + (IF n \in m.batch THEN 1 ELSE 0)]
        /\ job' = [job EXCEPT ![w] = None]
        /\ UNCHANGED <<shown, marked, devices, got>>

Next ==
    \/ \E h \in Handlers :
          \/ \E r \in Requests, s \in Offers \cup Products : Ask(h, r, s)
          \/ \E p \in Products : SaveProduct(h, p)
          \/ \E a \in Areas : CreateArea(h, a)
          \/ Lock(h) \/ Refuse(h) \/ Crash(h)
          \/ \E left \in SUBSET Clients : Commit(h, left)
          \/ At(h, "publish") /\ \E batch \in handler[h].batches, up \in BOOLEAN :
                                     Publish(h, batch, up)
    \/ \E s \in Subjects \ Areas : Change(s)
    \/ \E w \in Workers :
          \/ \E m \in BagToSet(queue) : Take(w, m)
          \/ \E failed, stale \in SUBSET devices : \E reached \in SUBSET failed :
                Send(w, failed, reached, stale)
          \/ Mark(w) \/ Finish(w)
          \/ \E some \in SUBSET notices : GiveUp(w, some)
          \/ \E published \in BOOLEAN : LoseWorker(w, published)

Spec == Init /\ [][Next]_vars
-----------------------------------------------------------------------------
(* Properties.                                                             *)

\* An announcement is made once: however often a request id is repeated, at once or after
\* a failure, and however many products of a market are saved, its notifications are
\* stored by one transaction, none is queued twice, and none is queued before it is stored
\* (dispatch_*_notifications, dispatch_pending_market_notification_for_product).
AnnouncedOnce ==
    /\ \A d \in Dispatches : done[d] <= 1
    /\ \A n \in Notices : queued[n] <= 1 /\ (queued[n] > 0 => n \in notices)

\* A device gets an announcement again only after a fault of its own recipient's pushes or
\* of a worker that had it, not because somebody else's failed in the batch; and one that
\* is marked as dispatched has reached every device its recipient still has
\* (send_notifications_multicast_batch_task, send_notifications_push).
PushAccounted ==
    \A n \in Notices :
        /\ \A v \in Devices : got[n][v] <= 1 + excuse[n]
        /\ n \in marked => \A v \in DevicesOf(n) : got[n][v] > 0
=============================================================================
