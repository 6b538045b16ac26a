--------------------------- MODULE DispatchProofs ---------------------------
(***************************************************************************)
(* Theorems about Dispatch, for any finite set of customers and any        *)
(* devices, requests, offers, products, areas, markets, handlers, workers, *)
(* batch size and number of retries.                                       *)
(***************************************************************************)
EXTENDS Dispatch, FiniteSetTheorems, TLAPS

Completed(d) == dispatch[d] # None /\ dispatch[d].status = "completed"

\* A completed dispatch was completed once, and nobody queues for another.
DoneInv ==
    /\ \A d \in Dispatches : done[d] = IF Completed(d) THEN 1 ELSE 0
    /\ \A m \in Markets : dispatch[m] # None
    /\ \A n \in Notices : queued[n] > 0 => Completed(n[1]) /\ n \in notices
    /\ \A n \in Notices : queued[n] <= 1

\* What a handler has found under its lock stays so until it lets go; what it has to
\* queue was stored, by it, and was not queued before.
HandlerOK(q) ==
    /\ q.subject \in Markets => q.dispatch = q.subject
    /\ q.at # "asked" /\ dispatch[q.dispatch] # None => dispatch[q.dispatch].subject = q.subject
    /\ q.at = "locked" => ~Completed(q.dispatch)
    /\ q.at = "publish" =>
          /\ Completed(q.dispatch)
          /\ \A batch \in q.batches :
                batch \subseteq notices /\ \A n \in batch : n[1] = q.dispatch /\ queued[n] = 0
          /\ \A b1, b2 \in q.batches : b1 # b2 => b1 \cap b2 = {}

\* Two handlers do not hold the same row, nor queue for the same dispatch.
Apart(q, r) ==
    /\ q.at = "locked" /\ r.at = "locked" => Locks(q) \cap Locks(r) = {}
    /\ q.at = "publish" /\ r.at = "publish" => q.dispatch # r.dispatch

HandlerInv ==
    /\ \A h \in Handlers : handler[h] # None => HandlerOK(handler[h])
    /\ \A h, g \in Handlers : h # g /\ handler[h] # None /\ handler[g] # None
          => Apart(handler[h], handler[g])

\* Messages are about stored notifications; a worker leaves out of its message only
\* what is marked, and what it has settled has reached its recipient.
Reached(n) == \A v \in DevicesOf(n) : got[n][v] > 0

WorkOK(j) ==
    /\ j.pending \subseteq j.message.batch /\ j.message.batch \subseteq notices
    /\ j.message.batch \ j.pending \subseteq marked
    /\ j.at = "mark" => \A n \in Settled(j) : Reached(n)
    /\ j.at = "finish" => Settled(j) \subseteq marked

WorkInv ==
    /\ \A m \in BagToSet(queue) : m.batch \subseteq notices
    /\ \A w \in Workers : job[w] # None => WorkOK(job[w])
    /\ \A n \in marked : Reached(n)

\* Copies of a bag's elements of a set K, numbered.
Numbered(B, K) == {x \in BagToSet(B) \X Nat : x[1] \in K /\ x[2] \in 1..B[x[1]]}

\* The messages in the queue that will find notification n unmarked, as it stands, and
\* the workers that may push it now or by a retry.
Awaited(n) == {m \in Message : n \in m.batch \ marked}
Copies(n) == Numbered(queue, Awaited(n))

Pushes(j, n) == n \in j.pending /\ (j.at = "send" \/ n \notin marked \cup Settled(j))
Pushers(n) == {w \in Workers : job[w] # None /\ Pushes(job[w], n)}

\* Every push of n, made or still possible, was paid for by a handler or by a fault.
Accounted(n) ==
    /\ IsFiniteSet(Copies(n)) /\ IsFiniteSet(Pushers(n))
    /\ \A v \in Devices :
          got[n][v] + Cardinality(Copies(n)) + Cardinality(Pushers(n)) <= queued[n] + excuse[n]

PushInv == \A n \in Notices : Accounted(n)

Inv == TypeOK /\ DoneInv /\ HandlerInv /\ WorkInv /\ PushInv
-----------------------------------------------------------------------------
(* Batches and bags.                                                       *)

\* A finite set as a sequence without repetitions.
LEMMA SetAsSeq ==
    ASSUME NEW S, IsFiniteSet(S)
    PROVE  /\ Cardinality(S) \in Nat
           /\ SetToSeq(S) \in [1..Cardinality(S) -> S]
           /\ \A i, j \in 1..Cardinality(S) : SetToSeq(S)[i] = SetToSeq(S)[j] => i = j
<1>1. Cardinality(S) \in Nat /\ ExistsBijection(1..Cardinality(S), S)
    BY FS_CardinalityType
<1>2. \E f \in [1..Cardinality(S) -> S] : IsInjective(f)
    BY <1>1 DEF ExistsBijection, Bijection, Injection, IsInjective
<1>3. SetToSeq(S) \in [1..Cardinality(S) -> S] /\ IsInjective(SetToSeq(S))
    BY <1>2 DEF SetToSeq
<1>. QED
    BY <1>1, <1>3 DEF IsInjective

\* Two multiples of the batch size differ by a batch at least.
LEMMA BatchStarts ==
    ASSUME NEW size \in Nat \ {0}, NEW i \in Nat, NEW k \in Nat, i < k,
           i % size = k % size
    PROVE  i + size <= k
<1>1. PICK p \in Int, r \in Int : i = size * p + r /\ r = i % size
    <2>1. i = size * (i \div size) + (i % size) /\ i \div size \in Int /\ i % size \in Int
        OBVIOUS
    <2>. QED
        BY <2>1
<1>2. PICK q \in Int : k = size * q + r
    <2>1. k = size * (k \div size) + (k % size) /\ k \div size \in Int
        OBVIOUS
    <2>. QED
        BY <1>1, <2>1
<1>3. k - i = size * (q - p)
    BY <1>1, <1>2
<1>4. q - p >= 1
    BY <1>3
<1>5. size * (q - p) >= size
    BY <1>4
<1>. QED
    BY <1>3, <1>5

\* The batches of a set are subsets of it without an element in common.
LEMMA BatchesSplit ==
    ASSUME DispatchConstants, NEW rows, IsFiniteSet(rows)
    PROVE  /\ \A batch \in Batches(rows) : batch \subseteq rows
           /\ \A b1, b2 \in Batches(rows) : b1 # b2 => b1 \cap b2 = {}
<1>. DEFINE N == Cardinality(rows)
            ids == SetToSeq(rows)
            block(i) == {ids[j] : j \in {k \in 1..N : i <= k /\ k < i + BatchSize}}
            first == {i \in 1..N : i % BatchSize = 1 % BatchSize}
<1>1. /\ N \in Nat /\ ids \in [1..N -> rows] /\ DOMAIN ids = 1..N
      /\ \A i, j \in 1..N : ids[i] = ids[j] => i = j
    BY SetAsSeq
<1>2. Batches(rows) = {block(i) : i \in first}
    BY <1>1 DEF Batches
<1>3. BatchSize \in Nat \ {0}
    BY DEF DispatchConstants
<1>. HIDE DEF N, ids
<1>4. \A i \in first : block(i) \subseteq rows
    BY <1>1
<1>5. ASSUME NEW i \in first, NEW k \in first, block(i) \cap block(k) # {}
      PROVE  i = k
    <2>1. PICK j1 \in 1..N, j2 \in 1..N :
                /\ i <= j1 /\ j1 < i + BatchSize /\ k <= j2 /\ j2 < k + BatchSize
                /\ ids[j1] = ids[j2]
        BY <1>5
    <2>2. j1 = j2
        BY <1>1, <2>1
    <2>3. i \in Nat /\ k \in Nat /\ i % BatchSize = k % BatchSize
        BY <1>1, <1>5
    <2>4. i < k => i + BatchSize <= k
        BY ONLY <1>3, <2>3, BatchStarts
    <2>5. k < i => k + BatchSize <= i
        BY ONLY <1>3, <2>3, BatchStarts
    <2>. QED
        BY <1>3, <2>1, <2>2, <2>3, <2>4, <2>5
<1>. HIDE DEF block, first
<1>. QED
    BY <1>2, <1>4, <1>5

LEMMA BagAdd ==
    ASSUME NEW B, IsABag(B), NEW m
    PROVE  /\ IsABag(B (+) SetToBag({m}))
           /\ BagToSet(B (+) SetToBag({m})) = BagToSet(B) \cup {m}
           /\ (B (+) SetToBag({m}))[m] = IF m \in BagToSet(B) THEN B[m] + 1 ELSE 1
           /\ \A x \in BagToSet(B) \ {m} : (B (+) SetToBag({m}))[x] = B[x]
BY DEF IsABag, BagToSet, SetToBag, (+)

LEMMA BagRemove ==
    ASSUME NEW B, IsABag(B), NEW m \in BagToSet(B)
    PROVE  /\ IsABag(B (-) SetToBag({m}))
           /\ BagToSet(B (-) SetToBag({m})) =
                IF B[m] = 1 THEN BagToSet(B) \ {m} ELSE BagToSet(B)
           /\ B[m] # 1 => (B (-) SetToBag({m}))[m] = B[m] - 1
           /\ \A x \in BagToSet(B) \ {m} : (B (-) SetToBag({m}))[x] = B[x]
BY DEF IsABag, BagToSet, SetToBag, (-)

\* One copy more, or one less, than before.
LEMMA NumberedAdd ==
    ASSUME NEW B, IsABag(B), NEW m, NEW K, IsFiniteSet(Numbered(B, K))
    PROVE  /\ IsFiniteSet(Numbered(B (+) SetToBag({m}), K))
           /\ Cardinality(Numbered(B (+) SetToBag({m}), K)) =
                Cardinality(Numbered(B, K)) + (IF m \in K THEN 1 ELSE 0)
<1>. DEFINE n == IF m \in BagToSet(B) THEN B[m] + 1 ELSE 1
            A == B (+) SetToBag({m})
<1>1. /\ BagToSet(A) = BagToSet(B) \cup {m} /\ A[m] = n
      /\ \A x \in BagToSet(B) \ {m} : A[x] = B[x]
    BY BagAdd
<1>2. \A x \in BagToSet(B) : B[x] \in Nat \ {0}
    BY DEF IsABag, BagToSet
<1>. HIDE DEF A
<1>3. CASE m \in K
    <2>1. <<m, n>> \notin Numbered(B, K)
        BY <1>2 DEF Numbered
    <2>2. Numbered(A, K) = Numbered(B, K) \cup {<<m, n>>}
        <3>1. ASSUME NEW x, NEW i PROVE <<x, i>> \in Numbered(A, K)
                        <=> <<x, i>> \in Numbered(B, K) \cup {<<m, n>>}
            BY <1>1, <1>2, <1>3 DEF Numbered
        <3>2. \A y \in Numbered(A, K) \cup Numbered(B, K) \cup {<<m, n>>} : y = <<y[1], y[2]>>
            BY DEF Numbered
        <3>. QED
            BY <3>1, <3>2
    <2>. QED
        BY <1>3, <2>1, <2>2, FS_AddElement DEF A
<1>4. CASE m \notin K
    <2>1. Numbered(A, K) = Numbered(B, K)
        <3>1. ASSUME NEW x, NEW i PROVE <<x, i>> \in Numbered(A, K) <=> <<x, i>> \in Numbered(B, K)
            BY <1>1, <1>2, <1>4 DEF Numbered
        <3>2. \A y \in Numbered(A, K) \cup Numbered(B, K) : y = <<y[1], y[2]>>
            BY DEF Numbered
        <3>. QED
            BY <3>1, <3>2
    <2>. QED
        BY <1>4, <2>1, FS_CardinalityType DEF A
<1>. QED
    BY <1>3, <1>4

\* A retry puts one copy more at most, of a message with the same batch.
LEMMA NumberedRetry ==
    ASSUME DispatchConstants, NEW B, IsABag(B), NEW m \in Message,
           NEW K, IsFiniteSet(Numbered(B, K)),
           \A x \in Message : x.batch = m.batch => (x \in K <=> m \in K)
    PROVE  /\ IsABag(B (+) Retried(m))
           /\ \A x \in BagToSet(B (+) Retried(m)) :
                 x \in BagToSet(B) \/ (x \in Message /\ x.batch = m.batch)
           /\ IsFiniteSet(Numbered(B (+) Retried(m), K))
           /\ Cardinality(Numbered(B (+) Retried(m), K))
                <= Cardinality(Numbered(B, K)) + (IF m \in K THEN 1 ELSE 0)
<1>1. Cardinality(Numbered(B, K)) \in Nat
    BY FS_CardinalityType
<1>2. CASE m.retries < MaxRetries
    <2>1. PICK x \in Message : x.batch = m.batch /\ Retried(m) = SetToBag({x})
        <3>. PICK y : y = [m EXCEPT !.retries = @ + 1]
            OBVIOUS
        <3>1. m.retries + 1 \in 0..MaxRetries
            BY <1>2 DEF Message, DispatchConstants
        <3>2. y \in Message /\ y.batch = m.batch
            BY <3>1 DEF Message
        <3>. QED
            BY <1>2, <3>2 DEF Retried
    <2>2. x \in K <=> m \in K
        BY <2>1
    <2>3. /\ IsABag(B (+) SetToBag({x})) /\ BagToSet(B (+) SetToBag({x})) = BagToSet(B) \cup {x}
          /\ IsFiniteSet(Numbered(B (+) SetToBag({x}), K))
          /\ Cardinality(Numbered(B (+) SetToBag({x}), K)) =
               Cardinality(Numbered(B, K)) + (IF x \in K THEN 1 ELSE 0)
        BY BagAdd, NumberedAdd
    <2>4. B (+) Retried(m) = B (+) SetToBag({x})
        BY <2>1
    <2>5. \A z \in BagToSet(B (+) SetToBag({x})) :
             z \in BagToSet(B) \/ (z \in Message /\ z.batch = m.batch)
        BY <2>1, <2>3
    <2>6. /\ IsABag(B (+) SetToBag({x})) /\ IsFiniteSet(Numbered(B (+) SetToBag({x}), K))
          /\ Cardinality(Numbered(B (+) SetToBag({x}), K))
               <= Cardinality(Numbered(B, K)) + (IF m \in K THEN 1 ELSE 0)
        BY <1>1, <2>2, <2>3
    <2>. QED
        BY ONLY <2>4, <2>5, <2>6, Zenon
<1>3. CASE ~(m.retries < MaxRetries)
    <2>1. B (+) EmptyBag = B
        BY DEF IsABag, BagToSet, SetToBag, EmptyBag, (+)
    <2>. QED
        BY <1>1, <1>3, <2>1 DEF Retried
<1>. QED
    BY <1>2, <1>3

LEMMA NumberedRemove ==
    ASSUME NEW B, IsABag(B), NEW m \in BagToSet(B), NEW K, IsFiniteSet(Numbered(B, K))
    PROVE  /\ IsFiniteSet(Numbered(B (-) SetToBag({m}), K))
           /\ Cardinality(Numbered(B (-) SetToBag({m}), K)) =
                Cardinality(Numbered(B, K)) - (IF m \in K THEN 1 ELSE 0)
<1>. DEFINE A == B (-) SetToBag({m})
<1>1. /\ BagToSet(A) = IF B[m] = 1 THEN BagToSet(B) \ {m} ELSE BagToSet(B)
      /\ B[m] # 1 => A[m] = B[m] - 1
      /\ \A x \in BagToSet(B) \ {m} : A[x] = B[x]
    BY BagRemove
<1>2. \A x \in BagToSet(B) : B[x] \in Nat \ {0}
    BY DEF IsABag, BagToSet
<1>. HIDE DEF A
<1>3. CASE m \in K
    <2>1. <<m, B[m]>> \in Numbered(B, K)
        BY <1>2, <1>3 DEF Numbered
    <2>2. Numbered(A, K) = Numbered(B, K) \ {<<m, B[m]>>}
        <3>1. ASSUME NEW x, NEW i PROVE <<x, i>> \in Numbered(A, K)
                        <=> <<x, i>> \in Numbered(B, K) \ {<<m, B[m]>>}
            BY <1>1, <1>2, <1>3 DEF Numbered
        <3>2. \A y \in Numbered(A, K) \cup Numbered(B, K) : y = <<y[1], y[2]>>
            BY DEF Numbered
        <3>. QED
            BY <3>1, <3>2
    <2>. QED
        BY <1>3, <2>1, <2>2, FS_RemoveElement DEF A
<1>4. CASE m \notin K
    <2>1. Numbered(A, K) = Numbered(B, K)
        <3>1. ASSUME NEW x, NEW i PROVE <<x, i>> \in Numbered(A, K) <=> <<x, i>> \in Numbered(B, K)
            BY <1>1, <1>2, <1>4 DEF Numbered
        <3>2. \A y \in Numbered(A, K) \cup Numbered(B, K) : y = <<y[1], y[2]>>
            BY DEF Numbered
        <3>. QED
            BY <3>1, <3>2
    <2>. QED
        BY <1>4, <2>1, FS_CardinalityType DEF A
<1>. QED
    BY <1>3, <1>4
-----------------------------------------------------------------------------
(* The initial states.                                                     *)

LEMMA InitInv == DispatchConstants /\ Init => Inv
<1>. SUFFICES ASSUME DispatchConstants, Init PROVE Inv
    OBVIOUS
<1>1. /\ ready \subseteq Subjects /\ notices = {} /\ marked = {} /\ devices = Devices
      /\ queue = EmptyBag /\ requests = 0 /\ changes = 0 /\ faults = 0
      /\ dispatch = [d \in Dispatches |-> IF d \in Markets THEN NewDispatch(d) ELSE None]
      /\ handler = [h \in Handlers |-> None] /\ job = [w \in Workers |-> None]
      /\ done = [d \in Dispatches |-> 0] /\ queued = [n \in Notices |-> 0]
      /\ got = [n \in Notices |-> [v \in Devices |-> 0]] /\ excuse = [n \in Notices |-> 0]
    BY DEF Init
<1>2. \A m \in Markets : /\ NewDispatch(m) \in Row /\ NewDispatch(m).status = "pending"
                         /\ m \in Dispatches
    BY DEF NewDispatch, Row, Subjects, Statuses, Dispatches
<1>3. dispatch \in [Dispatches -> Row \cup {None}]
    BY <1>1, <1>2
<1>4. IsABag(queue) /\ BagToSet(queue) = {}
    BY <1>1 DEF EmptyBag, SetToBag, IsABag, BagToSet
<1>5. TypeOK
    BY <1>1, <1>3, <1>4 DEF TypeOK, DispatchConstants
<1>6. DoneInv
    BY <1>1, <1>2 DEF DoneInv, Completed, DispatchConstants
<1>7. HandlerInv
    BY <1>1 DEF HandlerInv
<1>8. WorkInv
    BY <1>1, <1>4 DEF WorkInv
<1>9. PushInv
    <2>1. \A n : Copies(n) = {} /\ Pushers(n) = {}
        BY <1>1, <1>4 DEF Copies, Numbered, Pushers
    <2>. QED
        BY <1>1, <2>1, FS_EmptySet DEF PushInv, Accounted
<1>. QED
    BY <1>5, <1>6, <1>7, <1>8, <1>9 DEF Inv
-----------------------------------------------------------------------------
(* The web process.                                                        *)

\* What a step of the web process must respect for the worker's part to hold.
LEMMA WebKeepsWork ==
    ASSUME Inv, notices \subseteq notices', UNCHANGED <<marked, queue, job, devices, got>>
    PROVE  WorkInv'
<1>1. WorkInv
    BY DEF Inv
<1>2. \A n : Reached(n)' <=> Reached(n)
    BY DEF Reached, DevicesOf
<1>3. ASSUME NEW w \in Workers, job[w] # None PROVE WorkOK(job[w])'
    <2>1. WorkOK(job[w])
        BY <1>1, <1>3 DEF WorkInv
    <2>. QED
        BY <1>2, <2>1 DEF WorkOK
<1>. QED
    BY <1>1, <1>2, <1>3 DEF WorkInv

LEMMA WebKeepsPushes ==
    ASSUME Inv, UNCHANGED <<marked, queue, job, got, excuse, queued>>
    PROVE  PushInv'
<1>1. \A n \in Notices : Copies(n)' = Copies(n) /\ Pushers(n)' = Pushers(n)
    BY DEF Copies, Awaited, Pushers, Pushes
<1>. QED
    BY <1>1 DEF Inv, PushInv, Accounted

\* One handler moves on to q, or ends.  The others keep what they know.
LEMMA HandlerChange ==
    ASSUME Inv, NEW h \in Handlers, NEW q \in Request \cup {None},
           handler' = [handler EXCEPT ![h] = q],
           q # None => HandlerOK(q)',
           \A g \in Handlers \ {h}, r \in Request \ {None} : handler[g] = r =>
                /\ HandlerOK(r)'
                /\ q # None => Apart(q, r)
    PROVE  HandlerInv'
<1>1. handler' \in [Handlers -> Request \cup {None}] /\ handler'[h] = q
      /\ \A g \in Handlers \ {h} : handler'[g] = handler[g]
    BY DEF Inv, TypeOK
<1>2. ASSUME NEW g \in Handlers, handler'[g] # None PROVE HandlerOK(handler[g])'
    <2>1. PICK r \in Request \ {None} : handler'[g] = r
        BY <1>1, <1>2
    <2>2. HandlerOK(r)'
        BY <1>1, <1>2, <2>1
    <2>. QED
        BY <2>1, <2>2
<1>3. \A q1, q2 : Apart(q1, q2) <=> Apart(q2, q1)
    BY DEF Apart
<1>4. ASSUME NEW f \in Handlers, NEW g \in Handlers, f # g,
             handler'[f] # None, handler'[g] # None
      PROVE  Apart(handler'[f], handler'[g])
    <2>1. handler'[f] \in Request /\ handler'[g] \in Request
        BY <1>1, <1>4
    <2>2. CASE f # h /\ g # h
        BY <1>1, <1>4, <2>2 DEF Inv, HandlerInv
    <2>3. CASE f = h
        BY <1>1, <1>4, <2>1, <2>3
    <2>4. CASE g = h
        BY <1>1, <1>3, <1>4, <2>1, <2>4
    <2>. QED
        BY <2>2, <2>3, <2>4
<1>5. ASSUME NEW f \in Handlers, NEW g \in Handlers, f # g,
             handler'[f] # None, handler'[g] # None
      PROVE  Apart(handler[f], handler[g])'
    BY <1>4, <1>5 DEF Apart, Locks
<1>. QED
    BY <1>2, <1>5 DEF HandlerInv

\* Handlers know the same of rows and notifications that have not changed.
LEMMA HandlerStays ==
    ASSUME Inv, UNCHANGED <<dispatch, notices, queued>>
    PROVE  \A h \in Handlers, r \in Request \ {None} : handler[h] = r => HandlerOK(r)'
<1>1. \A r : HandlerOK(r) => HandlerOK(r)'
    BY DEF HandlerOK, Completed
<1>. QED
    BY <1>1 DEF Inv, HandlerInv

LEMMA DoneStays ==
    ASSUME Inv, UNCHANGED <<dispatch, done, queued>>, notices \subseteq notices'
    PROVE  DoneInv'
BY DEF Inv, DoneInv, Completed

LEMMA WebTypes ==
    ASSUME TypeOK, HandlerInv',
           ready' \subseteq Subjects, dispatch' \in [Dispatches -> Row \cup {None}],
           handler' \in [Handlers -> Request \cup {None}],
           notices \subseteq notices', notices' \subseteq Notices,
           IsABag(queue'), BagToSet(queue') \subseteq Message,
           done' \in [Dispatches -> Nat], queued' \in [Notices -> Nat],
           requests' \in 0..MaxRequests, changes' \in 0..MaxChanges, faults' \in 0..MaxFaults,
           UNCHANGED <<marked, job, devices, got, excuse>>
    PROVE  TypeOK'
<1>1. \A h \in Handlers :
        handler'[h] # None /\ handler'[h].at # "asked" /\ dispatch'[handler'[h].dispatch] # None
        => dispatch'[handler'[h].dispatch].subject = handler'[h].subject
    BY DEF HandlerInv, HandlerOK
<1>. QED
    BY <1>1 DEF TypeOK

\* A handler that leaves the dispatches and their notifications as they are.
LEMMA HandlerOnly ==
    ASSUME Inv, NEW h \in Handlers, NEW q \in Request \cup {None},
           handler' = [handler EXCEPT ![h] = q],
           UNCHANGED <<dispatch, notices, done, queued, pushed>>,
           ready' \subseteq Subjects,
           requests' \in 0..MaxRequests, changes' \in 0..MaxChanges, faults' \in 0..MaxFaults,
           q # None => HandlerOK(q)',
           \A g \in Handlers \ {h}, r \in Request \ {None} :
                handler[g] = r /\ q # None => Apart(q, r)
    PROVE  Inv'
<1>1. HandlerInv'
    <2>1. \A g \in Handlers \ {h}, r \in Request \ {None} : handler[g] = r => HandlerOK(r)'
        BY HandlerStays
    <2>. QED
        BY <2>1, HandlerChange
<1>2. TypeOK'
    <2>1. handler' \in [Handlers -> Request \cup {None}]
        BY DEF Inv, TypeOK
    <2>. QED
        BY <1>1, <2>1, WebTypes DEF Inv, TypeOK, pushed
<1>3. DoneInv' /\ WorkInv' /\ PushInv'
    BY DoneStays, WebKeepsWork, WebKeepsPushes DEF pushed
<1>. QED
    BY <1>1, <1>2, <1>3 DEF Inv

\* A request or a callback begins.
LEMMA StartsStep ==
    ASSUME DispatchConstants, Inv, NEW h \in Handlers, NEW d \in Dispatches, NEW s \in Subjects,
           NEW p \in Products \cup {None}, s \in Markets => d = s, Starts(h, d, s, p)
    PROVE  Inv'
<1>. DEFINE q == [dispatch |-> d, subject |-> s, product |-> p, at |-> "asked", batches |-> {}]
<1>1. q \in Request
    BY DEF Request
<1>2. /\ handler' = [handler EXCEPT ![h] = q] /\ requests' \in 0..MaxRequests
      /\ UNCHANGED <<ready, dispatch, notices, done, queued, changes, pushed, faults>>
    BY DEF Starts, Inv, TypeOK, DispatchConstants
<1>3. HandlerOK(q)' /\ \A r : Apart(q, r)
    BY DEF HandlerOK, Apart
<1>. HIDE DEF q
<1>. QED
    BY <1>1, <1>2, <1>3, HandlerOnly DEF Inv, TypeOK

LEMMA LockStep ==
    ASSUME DispatchConstants, Inv, NEW h \in Handlers, Lock(h)
    PROVE  Inv'
<1>1. PICK q \in Request \ {None} : q = handler[h] /\ q.at = "asked"
    BY DEF Lock, At, Inv, TypeOK
<1>. DEFINE locked == [q EXCEPT !.at = "locked"]
<1>2. /\ locked \in Request /\ locked.at = "locked" /\ locked.dispatch = q.dispatch
      /\ locked.subject = q.subject /\ locked.product = q.product
    BY DEF Request
<1>3. handler' = [handler EXCEPT ![h] = IF ToDo(h) THEN locked ELSE None]
    BY <1>1 DEF Lock
<1>. HIDE DEF locked
<1>4. UNCHANGED <<ready, dispatch, notices, done, queued, requests, changes, pushed, faults>>
    BY DEF Lock
<1>5. CASE ToDo(h)
    <2>1. HandlerOK(q)
        BY <1>1 DEF Inv, HandlerInv
    <2>2. ~Completed(q.dispatch)
        BY <1>1, <1>5 DEF ToDo, Completed
    <2>3. HandlerOK(locked)'
        BY <1>1, <1>2, <1>4, <1>5, <2>1, <2>2 DEF HandlerOK, ToDo, Completed
    <2>4. \A g \in Handlers \ {h}, r \in Request \ {None} : handler[g] = r => Apart(locked, r)
        BY <1>1, <1>2 DEF Lock, Free, At, Apart, Locks
    <2>5. handler' = [handler EXCEPT ![h] = locked]
        BY <1>3, <1>5
    <2>. QED
        BY <1>2, <1>4, <2>3, <2>4, <2>5, HandlerOnly DEF Inv, TypeOK
<1>6. CASE ~ToDo(h)
    <2>1. handler' = [handler EXCEPT ![h] = None]
        BY <1>3, <1>6
    <2>. QED
        BY <1>4, <2>1, HandlerOnly DEF Inv, TypeOK
<1>. QED
    BY <1>5, <1>6

LEMMA CrashStep ==
    ASSUME DispatchConstants, Inv, NEW h \in Handlers, Crash(h)
    PROVE  Inv'
<1>1. /\ handler' = [handler EXCEPT ![h] = None] /\ faults' \in 0..MaxFaults
      /\ UNCHANGED <<ready, dispatch, notices, done, queued, requests, changes, pushed>>
    BY DEF Crash, Fault, Inv, TypeOK, DispatchConstants
<1>. QED
    BY <1>1, HandlerOnly DEF Inv, TypeOK

LEMMA ChangeStep ==
    ASSUME DispatchConstants, Inv, NEW s \in Subjects, Change(s)
    PROVE  Inv'
<1>1. /\ ready' \subseteq Subjects /\ changes' \in 0..MaxChanges
      /\ UNCHANGED <<dispatch, handler, notices, done, queued, requests, pushed, faults>>
    BY DEF Change, Changed, Inv, TypeOK, DispatchConstants
<1>2. HandlerInv'
    BY <1>1 DEF Inv, HandlerInv, HandlerOK, Apart, Locks, Completed
<1>3. TypeOK'
    BY <1>1, <1>2, WebTypes DEF Inv, TypeOK, pushed
<1>4. DoneInv' /\ WorkInv' /\ PushInv'
    BY <1>1, DoneStays, WebKeepsWork, WebKeepsPushes DEF pushed
<1>. QED
    BY <1>2, <1>3, <1>4 DEF Inv

\* Whoever holds a dispatch may rewrite its row: nobody else relies on it.
LEMMA OthersStay ==
    ASSUME DispatchConstants, Inv, NEW h \in Handlers, NEW q \in Request \ {None},
           handler[h] = q, q.at = "locked", notices \subseteq notices', queued' = queued,
           \A e \in Dispatches \ {q.dispatch} : dispatch'[e] = dispatch[e]
    PROVE  /\ q.dispatch \in Dispatches /\ ~Completed(q.dispatch)
           /\ \A g \in Handlers \ {h}, r \in Request \ {None} : handler[g] = r =>
                /\ HandlerOK(r)'
                /\ r.at = "publish" => r.dispatch # q.dispatch
<1>1. q.dispatch \in Dispatches /\ ~Completed(q.dispatch)
    BY DEF Request, Inv, HandlerInv, HandlerOK
<1>2. ASSUME NEW g \in Handlers \ {h}, NEW r \in Request \ {None}, handler[g] = r
      PROVE  HandlerOK(r)' /\ (r.at = "publish" => r.dispatch # q.dispatch)
    <2>1. HandlerOK(r) /\ Apart(q, r) /\ r.dispatch \in Dispatches
        BY <1>2 DEF Inv, HandlerInv, Request
    <2>2. r.at # "asked" => r.dispatch # q.dispatch
        <3>1. CASE r.at = "locked"
            <4>1. q.dispatch \in Locks(q) /\ r.dispatch \in Locks(r)
                BY <1>1, <2>1 DEF Locks, DispatchConstants
            <4>. QED
                BY <2>1, <3>1, <4>1 DEF Apart
        <3>2. CASE r.at = "publish"
            BY <1>1, <2>1, <3>2 DEF HandlerOK
        <3>. QED
            BY <3>1, <3>2 DEF Request
    <2>3. r.at # "asked" => dispatch'[r.dispatch] = dispatch[r.dispatch]
        BY <2>1, <2>2
    <2>4. HandlerOK(r)'
        BY <2>1, <2>3 DEF HandlerOK, Completed
    <2>. QED
        BY <2>2, <2>4
<1>. QED
    BY <1>1, <1>2

LEMMA RefuseStep ==
    ASSUME DispatchConstants, Inv, NEW h \in Handlers, Refuse(h)
    PROVE  Inv'
<1>1. PICK q \in Request \ {None} : q = handler[h] /\ q.at = "locked"
    BY DEF Refuse, At, Inv, TypeOK
<1>2. /\ handler' = [handler EXCEPT ![h] = None]
      /\ UNCHANGED <<ready, notices, done, queued, requests, changes, pushed, faults>>
    BY DEF Refuse
<1>. DEFINE row == [NewDispatch(q.subject) EXCEPT !.status = "failed"]
<1>3. row \in Row /\ row.status = "failed" /\ row # None
    <2>1. row \in Row /\ row.status = "failed"
        BY DEF NewDispatch, Row, Request, Statuses
    <2>. QED
        BY <2>1 DEF DispatchConstants
<1>4. dispatch' \in {dispatch, [dispatch EXCEPT ![q.dispatch] = row]}
    BY <1>1 DEF Refuse
<1>. HIDE DEF row
<1>5. dispatch' \in [Dispatches -> Row \cup {None}]
    BY <1>3, <1>4 DEF Inv, TypeOK
<1>6. \A e \in Dispatches \ {q.dispatch} : dispatch'[e] = dispatch[e]
    BY <1>4 DEF Inv, TypeOK
<1>7. /\ q.dispatch \in Dispatches /\ ~Completed(q.dispatch)
      /\ \A g \in Handlers \ {h}, r \in Request \ {None} : handler[g] = r => HandlerOK(r)'
    BY <1>1, <1>2, <1>6, OthersStay
<1>8. HandlerInv'
    BY <1>2, <1>7, HandlerChange
<1>9. \A e \in Dispatches : Completed(e)' <=> Completed(e)
    BY <1>3, <1>4, <1>7 DEF Completed, Inv, TypeOK
<1>10. DoneInv'
    <2>1. \A m \in Markets : m \in Dispatches /\ dispatch'[m] # None
        BY <1>3, <1>4 DEF Inv, TypeOK, DoneInv, Dispatches
    <2>2. \A n \in Notices : n[1] \in Dispatches
        BY DEF Notices
    <2>. QED
        BY <1>2, <1>9, <2>1, <2>2 DEF Inv, DoneInv
<1>11. TypeOK'
    <2>1. handler' \in [Handlers -> Request \cup {None}]
        BY <1>2 DEF Inv, TypeOK
    <2>. QED
        BY <1>2, <1>5, <1>8, <2>1, WebTypes DEF Inv, TypeOK, pushed
<1>12. WorkInv' /\ PushInv'
    BY <1>2, WebKeepsWork, WebKeepsPushes DEF pushed
<1>. QED
    BY <1>8, <1>10, <1>11, <1>12 DEF Inv

\* The dispatch is completed and its notifications stored, for the first time.
LEMMA CommitStep ==
    ASSUME DispatchConstants, Inv, NEW h \in Handlers, NEW left \in SUBSET Clients,
           Commit(h, left)
    PROVE  Inv'
<1>1. PICK q \in Request \ {None} : q = handler[h] /\ q.at = "locked"
    BY DEF Commit, At, Inv, TypeOK
<1>. DEFINE d == q.dispatch
            rows == {d} \X (Clients \ left)
            fresh == Fresh(d, Clients \ left)
            row == [subject |-> q.subject, status |-> "completed", trigger |-> q.product]
<1>2. /\ d \in Dispatches /\ row \in Row /\ row # None
    BY DEF Request, Row, Statuses, DispatchConstants
<1>3. PICK batches : /\ batches = Batches(fresh)
                     /\ handler' = [handler EXCEPT ![h] =
                            IF batches = {} THEN None
                            ELSE [q EXCEPT !.at = "publish", !.batches = batches]]
    BY <1>1 DEF Commit
<1>4. /\ notices' = notices \cup rows
      /\ dispatch' = [dispatch EXCEPT ![d] = row]
      /\ done' = [done EXCEPT ![d] = @ + 1]
      /\ changes' \in 0..MaxChanges
      /\ UNCHANGED <<ready, queued, requests, pushed, faults>>
    BY <1>1 DEF Commit, Changed, Inv, TypeOK, DispatchConstants
<1>5. rows \subseteq Notices
    BY <1>2 DEF Notices
<1>6. /\ \A batch \in batches : batch \subseteq rows
      /\ \A b1, b2 \in batches : b1 # b2 => b1 \cap b2 = {}
    <2>1. IsFiniteSet(rows)
        <3>1. IsFiniteSet(Clients \ left) /\ IsFiniteSet({d})
            BY FS_Difference, FS_Singleton DEF DispatchConstants
        <3>. QED
            BY <3>1, FS_Product
    <2>2. fresh \subseteq rows
        BY DEF Fresh
    <2>3. IsFiniteSet(fresh)
        BY <2>1, <2>2, FS_Subset
    <2>4. PICK S : S = fresh
        OBVIOUS
    <2>. HIDE DEF fresh
    <2>5. /\ \A batch \in Batches(S) : batch \subseteq S
          /\ \A b1, b2 \in Batches(S) : b1 # b2 => b1 \cap b2 = {}
        BY <2>3, <2>4, BatchesSplit
    <2>. QED
        BY <1>3, <2>2, <2>4, <2>5
<1>. DEFINE next == [q EXCEPT !.at = "publish", !.batches = batches]
<1>7. /\ next \in Request /\ next.at = "publish" /\ next.batches = batches
      /\ next.dispatch = d /\ next.subject = q.subject
    BY <1>5, <1>6 DEF Request
<1>8. \A e \in Dispatches \ {d} : dispatch'[e] = dispatch[e]
    BY <1>4 DEF Inv, TypeOK
<1>9. dispatch'[d] = row /\ Completed(d)'
    BY <1>2, <1>4 DEF Inv, TypeOK, Completed
<1>10. /\ ~Completed(d)
       /\ \A g \in Handlers \ {h}, r \in Request \ {None} : handler[g] = r =>
            HandlerOK(r)' /\ (r.at = "publish" => r.dispatch # d)
    BY <1>1, <1>4, <1>8, OthersStay
<1>11. \A n \in rows : n[1] = d /\ queued[n] = 0
    BY <1>5, <1>10 DEF Inv, DoneInv, TypeOK
<1>12. HandlerOK(next)'
    <2>1. HandlerOK(q)
        BY <1>1 DEF Inv, HandlerInv
    <2>2. \A batch \in batches :
            batch \subseteq notices' /\ \A n \in batch : n[1] = d /\ queued'[n] = 0
        BY <1>4, <1>6, <1>11
    <2>3. dispatch'[d].subject = q.subject
        BY <1>9
    <2>. QED
        BY <1>6, <1>7, <1>9, <2>1, <2>2, <2>3 DEF HandlerOK
<1>13. \A g \in Handlers \ {h}, r \in Request \ {None} : handler[g] = r => Apart(next, r)
    BY <1>7, <1>10 DEF Apart
<1>. HIDE DEF d, rows, fresh, row, next
<1>14. HandlerInv'
    <2>1. CASE batches = {}
        <3>1. handler' = [handler EXCEPT ![h] = None]
            BY <1>3, <2>1
        <3>. QED
            BY <1>10, <3>1, HandlerChange
    <2>2. CASE batches # {}
        <3>1. handler' = [handler EXCEPT ![h] = next]
            BY <1>3, <2>2 DEF next
        <3>. QED
            BY <1>7, <1>10, <1>12, <1>13, <3>1, HandlerChange
    <2>. QED
        BY <2>1, <2>2
<1>15. TypeOK'
    <2>1. handler' \in [Handlers -> Request \cup {None}]
        BY <1>3, <1>7 DEF Inv, TypeOK, next
    <2>2. dispatch' \in [Dispatches -> Row \cup {None}] /\ done' \in [Dispatches -> Nat]
        BY <1>2, <1>4 DEF Inv, TypeOK
    <2>3. notices \subseteq notices' /\ notices' \subseteq Notices
        BY <1>4, <1>5 DEF Inv, TypeOK
    <2>. QED
        BY <1>4, <1>14, <2>1, <2>2, <2>3, WebTypes DEF Inv, TypeOK, pushed
<1>16. DoneInv'
    <2>1. \A e \in Dispatches : done'[e] = IF (Completed(e))' THEN 1 ELSE 0
        <3>1. ASSUME NEW e \in Dispatches \ {d} PROVE done'[e] = IF (Completed(e))' THEN 1 ELSE 0
            BY <1>4, <1>8, <3>1 DEF Inv, TypeOK, DoneInv, Completed
        <3>2. done'[d] = 1
            BY <1>2, <1>4, <1>10 DEF Inv, TypeOK, DoneInv
        <3>. QED
            BY <1>9, <3>1, <3>2
    <2>2. \A m \in Markets : dispatch'[m] # None
        BY <1>2, <1>4 DEF Inv, TypeOK, DoneInv, Dispatches
    <2>3. \A e \in Dispatches : Completed(e) => (Completed(e))'
        BY <1>8, <1>9 DEF Completed
    <2>4. \A n \in Notices : n[1] \in Dispatches
        BY DEF Notices
    <2>. QED
        BY <1>4, <2>1, <2>2, <2>3, <2>4 DEF Inv, DoneInv
<1>17. WorkInv' /\ PushInv'
    BY <1>4, WebKeepsWork, WebKeepsPushes DEF pushed
<1>. QED
    BY <1>14, <1>15, <1>16, <1>17 DEF Inv

LEMMA PublishStep ==
    ASSUME DispatchConstants, Inv, NEW h \in Handlers, NEW batch, NEW up \in BOOLEAN,
           At(h, "publish"), batch \in handler[h].batches, Publish(h, batch, up)
    PROVE  Inv'
<1>1. PICK q \in Request \ {None} : q = handler[h] /\ q.at = "publish"
    BY DEF At, Inv, TypeOK
<1>2. batch \in q.batches /\ batch \subseteq Notices
    BY <1>1 DEF Request
<1>. DEFINE left == [q EXCEPT !.batches = @ \ {batch}]
            message == [batch |-> batch, retries |-> 0]
<1>3. /\ left \in Request /\ left.at = "publish" /\ left.batches = q.batches \ {batch}
      /\ left.dispatch = q.dispatch /\ left.subject = q.subject
    BY <1>1 DEF Request
<1>4. message \in Message /\ message.batch = batch
    BY <1>2 DEF Message, DispatchConstants
<1>5. /\ handler' = [handler EXCEPT ![h] = IF q.batches = {batch} THEN None ELSE left]
      /\ UNCHANGED <<ready, dispatch, notices, done, requests, changes,
                     marked, job, devices, got, excuse>>
    <2>1. handler' = [handler EXCEPT ![h] =
                        IF handler[h].batches = {batch} THEN None
                        ELSE [handler[h] EXCEPT !.batches = @ \ {batch}]]
        BY DEF Publish
    <2>2. UNCHANGED <<ready, dispatch, notices, done, requests, changes,
                      marked, job, devices, got, excuse>>
        BY DEF Publish
    <2>. QED
        BY <1>1, <2>1, <2>2
<1>6. HandlerOK(q)
    BY <1>1 DEF Inv, HandlerInv
<1>7. CASE ~up
    <2>1. faults' \in 0..MaxFaults /\ UNCHANGED <<queue, queued>>
        BY <1>7 DEF Publish, Fault, Inv, TypeOK, DispatchConstants
    <2>2. HandlerOK(left)'
        BY <1>1, <1>3, <1>5, <1>6, <2>1 DEF HandlerOK, Completed
    <2>3. \A g \in Handlers \ {h}, r \in Request \ {None} : handler[g] = r => Apart(left, r)
        BY <1>1, <1>3 DEF Inv, HandlerInv, Apart
    <2>. HIDE DEF left
    <2>4. CASE q.batches = {batch}
        <3>1. handler' = [handler EXCEPT ![h] = None]
            BY <1>5, <2>4
        <3>. QED
            BY <1>5, <2>1, <3>1, HandlerOnly DEF Inv, TypeOK, pushed
    <2>5. CASE q.batches # {batch}
        <3>1. handler' = [handler EXCEPT ![h] = left]
            BY <1>5, <2>5
        <3>. QED
            BY <1>3, <1>5, <2>1, <2>2, <2>3, <3>1, HandlerOnly DEF Inv, TypeOK, pushed
    <2>. QED
        BY <2>4, <2>5
<1>8. CASE up
    <2>1. /\ queue' = queue (+) SetToBag({message}) /\ faults' = faults
          /\ queued' = [n \in Notices |-> queued[n] + (IF n \in batch THEN 1 ELSE 0)]
        BY <1>8 DEF Publish
    <2>. HIDE DEF message
    <2>2. IsABag(queue') /\ BagToSet(queue') = BagToSet(queue) \cup {message}
        BY <2>1, BagAdd DEF Inv, TypeOK
    <2>3. /\ queued' \in [Notices -> Nat]
          /\ \A n \in batch : queued[n] = 0 /\ queued'[n] = 1 /\ n[1] = q.dispatch
          /\ \A n \in Notices \ batch : queued'[n] = queued[n]
        BY <1>1, <1>2, <1>6, <2>1 DEF Inv, TypeOK, HandlerOK
    <2>4. batch \subseteq notices
        BY <1>1, <1>2, <1>6 DEF HandlerOK
    <2>5. HandlerOK(left)'
        <3>1. ASSUME NEW b \in left.batches, NEW n \in b PROVE n \in Notices \ batch
            BY <1>1, <1>2, <1>3, <1>6, <3>1 DEF HandlerOK, Request
        <3>. QED
            BY <1>1, <1>3, <1>5, <1>6, <2>3, <3>1 DEF HandlerOK, Completed
    <2>6. ASSUME NEW g \in Handlers \ {h}, NEW r \in Request \ {None}, handler[g] = r
          PROVE  HandlerOK(r)' /\ Apart(left, r)
        <3>1. HandlerOK(r) /\ Apart(q, r)
            BY <1>1, <2>6 DEF Inv, HandlerInv
        <3>2. Apart(left, r)
            BY <1>1, <1>3, <3>1 DEF Apart
        <3>3. ASSUME r.at = "publish", NEW b \in r.batches, NEW n \in b
              PROVE  n \in Notices \ batch
            BY <1>1, <2>3, <3>1, <3>3 DEF HandlerOK, Apart, Request
        <3>4. HandlerOK(r)'
            BY <1>5, <2>3, <3>1, <3>3 DEF HandlerOK, Completed
        <3>. QED
            BY <3>2, <3>4
    <2>. HIDE DEF left
    <2>7. HandlerInv'
        <3>1. CASE q.batches = {batch}
            <4>1. handler' = [handler EXCEPT ![h] = None]
                BY <1>5, <3>1
            <4>. QED
                BY <2>6, <4>1, HandlerChange
        <3>2. CASE q.batches # {batch}
            <4>1. handler' = [handler EXCEPT ![h] = left]
                BY <1>5, <3>2
            <4>. QED
                BY <1>3, <2>5, <2>6, <4>1, HandlerChange
        <3>. QED
            BY <3>1, <3>2
    <2>8. TypeOK'
        <3>1. handler' \in [Handlers -> Request \cup {None}]
            BY <1>3, <1>5 DEF Inv, TypeOK
        <3>2. BagToSet(queue') \subseteq Message
            BY <1>4, <2>2 DEF Inv, TypeOK
        <3>. QED
            BY <1>5, <2>1, <2>2, <2>3, <2>7, <3>1, <3>2, WebTypes DEF Inv, TypeOK
    <2>9. DoneInv'
        <3>1. Completed(q.dispatch)
            BY <1>1, <1>6 DEF HandlerOK
        <3>2. \A n \in Notices : queued'[n] > 0 => Completed(n[1]) /\ n \in notices
            BY <2>3, <2>4, <3>1 DEF Inv, DoneInv
        <3>3. \A n \in Notices : queued'[n] <= 1
            BY <2>3 DEF Inv, DoneInv
        <3>. QED
            BY <1>5, <3>2, <3>3 DEF Inv, DoneInv, Completed
    <2>10. WorkInv'
        <3>1. \A n : Reached(n)' <=> Reached(n)
            BY <1>5 DEF Reached, DevicesOf
        <3>2. ASSUME NEW w \in Workers, job[w] # None PROVE WorkOK(job[w])'
            <4>1. WorkOK(job[w])
                BY <3>2 DEF Inv, WorkInv
            <4>. QED
                BY <1>5, <3>1, <4>1 DEF WorkOK
        <3>3. \A m \in BagToSet(queue') : m.batch \subseteq notices'
            BY <1>4, <1>5, <2>2, <2>4 DEF Inv, WorkInv
        <3>. QED
            BY <1>5, <3>1, <3>2, <3>3 DEF Inv, WorkInv
    <2>11. PushInv'
        <3>. SUFFICES ASSUME NEW n \in Notices
                      PROVE  /\ IsFiniteSet(Copies(n)') /\ IsFiniteSet(Pushers(n)')
                             /\ \A v \in Devices :
                                  got'[n][v] + Cardinality(Copies(n)') + Cardinality(Pushers(n)')
                                    <= queued'[n] + excuse'[n]
            BY DEF PushInv, Accounted
        <3>1. Pushers(n)' = Pushers(n)
            BY <1>5 DEF Pushers, Pushes
        <3>2. /\ IsFiniteSet(Copies(n)) /\ IsFiniteSet(Pushers(n))
              /\ \A v \in Devices : got[n][v] + Cardinality(Copies(n)) + Cardinality(Pushers(n))
                                      <= queued[n] + excuse[n]
            BY DEF Inv, PushInv, Accounted
        <3>3. Copies(n)' = Numbered(queue (+) SetToBag({message}), Awaited(n))
            BY <1>5, <2>1 DEF Copies, Awaited, Numbered
        <3>4. /\ IsFiniteSet(Copies(n)')
              /\ Cardinality(Copies(n)')
                   = Cardinality(Copies(n)) + (IF message \in Awaited(n) THEN 1 ELSE 0)
            BY <3>2, <3>3, NumberedAdd DEF Copies, Inv, TypeOK
        <3>5. message \in Awaited(n) => n \in batch
            BY <1>4 DEF Awaited
        <3>6. /\ Cardinality(Copies(n)) \in Nat /\ Cardinality(Pushers(n)) \in Nat
              /\ queued[n] \in Nat /\ excuse[n] \in Nat /\ \A v \in Devices : got[n][v] \in Nat
            BY <3>2, FS_CardinalityType DEF Inv, TypeOK
        <3>7. queued'[n] = queued[n] + (IF n \in batch THEN 1 ELSE 0)
            BY <2>1
        <3>. QED
            BY <1>5, <3>1, <3>2, <3>4, <3>5, <3>6, <3>7
    <2>. QED
        BY <2>7, <2>8, <2>9, <2>10, <2>11 DEF Inv
<1>. QED
    BY <1>7, <1>8
-----------------------------------------------------------------------------
(* The task.                                                               *)

\* The web process's part does not mention what the task changes.
LEMMA TaskKeepsWeb ==
    ASSUME Inv, UNCHANGED <<dispatch, handler, notices, done, queued>>
    PROVE  DoneInv' /\ HandlerInv'
BY DEF Inv, DoneInv, HandlerInv, HandlerOK, Apart, Locks, Completed

LEMMA TaskTypes ==
    ASSUME TypeOK,
           UNCHANGED <<ready, dispatch, handler, notices, done, queued, requests>>,
           marked' \subseteq notices, devices' \subseteq Devices,
           IsABag(queue'), BagToSet(queue') \subseteq Message,
           job' \in [Workers -> Run \cup {None}],
           got' \in [Notices -> [Devices -> Nat]], excuse' \in [Notices -> Nat],
           changes' \in 0..MaxChanges, faults' \in 0..MaxFaults
    PROVE  TypeOK'
BY DEF TypeOK

\* A worker's run becomes j, or ends; marks and arrivals only grow.
LEMMA WorkChange ==
    ASSUME Inv, NEW w \in Workers, NEW j \in Run \cup {None}, job' = [job EXCEPT ![w] = j],
           notices' = notices, marked \subseteq marked',
           \A n \in Notices : Reached(n) => Reached(n)',
           \A m \in BagToSet(queue') : m.batch \subseteq notices,
           \A n \in marked' : n \in marked \/ Reached(n)',
           j # None => WorkOK(j)'
    PROVE  WorkInv'
<1>1. job'[w] = j /\ \A x \in Workers \ {w} : job'[x] = job[x]
    BY DEF Inv, TypeOK
<1>2. ASSUME NEW x \in Workers \ {w}, job[x] # None PROVE WorkOK(job[x])'
    <2>1. WorkOK(job[x])
        BY <1>2 DEF Inv, WorkInv
    <2>. PICK r : r = job[x]
        OBVIOUS
    <2>2. Settled(r) \subseteq Notices
        BY <2>1 DEF WorkOK, Settled, Inv, TypeOK
    <2>3. WorkOK(r)'
        BY <2>1, <2>2 DEF WorkOK, Settled
    <2>. QED
        BY <1>1, <2>3
<1>3. ASSUME NEW x \in Workers, job'[x] # None PROVE WorkOK(job[x])'
    <2>1. CASE x = w
        BY <1>1, <1>3, <2>1
    <2>2. CASE x # w
        BY <1>1, <1>2, <1>3, <2>2
    <2>. QED
        BY <2>1, <2>2
<1>4. \A n \in marked' : Reached(n)'
    BY DEF Inv, WorkInv, TypeOK
<1>. QED
    BY <1>3, <1>4 DEF WorkInv

\* The workers that may push n, when one of them takes another run.
LEMMA PushersChange ==
    ASSUME Inv, NEW w \in Workers, NEW j \in Run \cup {None}, job' = [job EXCEPT ![w] = j],
           marked \subseteq marked', NEW n \in Notices
    PROVE  /\ IsFiniteSet(Pushers(n)') /\ Cardinality(Pushers(n)') \in Nat
           /\ Cardinality(Pushers(n)') <= Cardinality(Pushers(n))
                - (IF job[w] # None /\ Pushes(job[w], n) THEN 1 ELSE 0)
                + (IF j # None /\ (Pushes(j, n))' THEN 1 ELSE 0)
<1>1. job'[w] = j /\ \A x \in Workers \ {w} : job'[x] = job[x]
    BY DEF Inv, TypeOK
<1>2. IsFiniteSet(Pushers(n)) /\ Cardinality(Pushers(n)) \in Nat
    BY FS_CardinalityType DEF Inv, PushInv, Accounted
<1>. DEFINE rest == Pushers(n) \ {w}
            new == IF j # None /\ (Pushes(j, n))' THEN rest \cup {w} ELSE rest
<1>3. w \in Pushers(n) <=> job[w] # None /\ Pushes(job[w], n)
    BY DEF Pushers
<1>4. IsFiniteSet(rest) /\ Cardinality(rest) = Cardinality(Pushers(n))
                                - (IF job[w] # None /\ Pushes(job[w], n) THEN 1 ELSE 0)
    BY <1>2, <1>3, FS_RemoveElement
<1>5. /\ IsFiniteSet(new) /\ Cardinality(new) \in Nat
      /\ Cardinality(new) = Cardinality(rest) + (IF j # None /\ (Pushes(j, n))' THEN 1 ELSE 0)
    <2>1. /\ IsFiniteSet(rest) /\ Cardinality(rest) \in Nat /\ IsFiniteSet(rest \cup {w})
          /\ Cardinality(rest \cup {w}) = Cardinality(rest) + 1
        BY <1>4, FS_AddElement, FS_CardinalityType
    <2>2. CASE j # None /\ (Pushes(j, n))'
        BY <2>1, <2>2
    <2>3. CASE ~(j # None /\ (Pushes(j, n))')
        BY <2>1, <2>3
    <2>. QED
        BY <2>2, <2>3
<1>6. Pushers(n)' \subseteq new
    <2>. SUFFICES ASSUME NEW x \in Pushers(n)' PROVE x \in new
        OBVIOUS
    <2>1. x \in Workers /\ job'[x] # None /\ (Pushes(job[x], n))'
        BY DEF Pushers
    <2>2. CASE x = w
        BY <1>1, <2>1, <2>2 DEF Pushes
    <2>3. CASE x # w
        <3>1. Pushes(job[x], n)
            BY <1>1, <2>1, <2>3 DEF Pushes
        <3>. QED
            BY <1>1, <2>1, <2>3, <3>1 DEF Pushers
    <2>. QED
        BY <2>2, <2>3
<1>. HIDE DEF new, rest
<1>7. /\ IsFiniteSet(Pushers(n)') /\ Cardinality(Pushers(n)') <= Cardinality(new)
      /\ Cardinality(Pushers(n)') \in Nat
    BY <1>5, <1>6, FS_Subset, FS_CardinalityType
<1>. QED
    BY <1>2, <1>4, <1>5, <1>7

\* The messages that wait for n, when one is added, one is removed, or n is marked.
LEMMA CopiesChange ==
    ASSUME Inv, NEW n \in Notices
    PROVE  /\ IsFiniteSet(Copies(n)) /\ Cardinality(Copies(n)) \in Nat
           /\ queue' = queue /\ marked \subseteq marked' =>
                /\ IsFiniteSet(Copies(n)') /\ Cardinality(Copies(n)') \in Nat
                /\ Cardinality(Copies(n)') <= Cardinality(Copies(n))
           /\ \A m \in Message : queue' = queue (+) SetToBag({m}) /\ marked' = marked =>
                /\ IsFiniteSet(Copies(n)') /\ Cardinality(Copies(n)') \in Nat
                /\ Cardinality(Copies(n)') = Cardinality(Copies(n))
                                               + (IF n \in m.batch \ marked THEN 1 ELSE 0)
           /\ \A m \in BagToSet(queue) : queue' = queue (-) SetToBag({m}) /\ marked' = marked =>
                /\ IsFiniteSet(Copies(n)') /\ Cardinality(Copies(n)') \in Nat
                /\ Cardinality(Copies(n)') = Cardinality(Copies(n))
                                               - (IF n \in m.batch \ marked THEN 1 ELSE 0)
<1>1. IsFiniteSet(Copies(n)) /\ Cardinality(Copies(n)) \in Nat /\ IsABag(queue)
    BY FS_CardinalityType DEF Inv, PushInv, Accounted, TypeOK
<1>2. ASSUME queue' = queue, marked \subseteq marked'
      PROVE  /\ IsFiniteSet(Copies(n)') /\ Cardinality(Copies(n)') \in Nat
             /\ Cardinality(Copies(n)') <= Cardinality(Copies(n))
    <2>1. Awaited(n)' \subseteq Awaited(n)
        BY <1>2 DEF Awaited
    <2>2. Copies(n)' = Numbered(queue, Awaited(n)')
        BY <1>2 DEF Copies, Numbered
    <2>3. Copies(n)' \subseteq Copies(n)
        BY <2>1, <2>2 DEF Copies, Numbered
    <2>. QED
        BY <1>1, <2>3, FS_Subset, FS_CardinalityType
<1>3. ASSUME NEW m \in Message, queue' = queue (+) SetToBag({m}), marked' = marked
      PROVE  /\ IsFiniteSet(Copies(n)') /\ Cardinality(Copies(n)') \in Nat
             /\ Cardinality(Copies(n)') = Cardinality(Copies(n))
                                            + (IF n \in m.batch \ marked THEN 1 ELSE 0)
    <2>1. Copies(n)' = Numbered(queue (+) SetToBag({m}), Awaited(n))
        BY <1>3 DEF Copies, Awaited, Numbered
    <2>2. m \in Awaited(n) <=> n \in m.batch \ marked
        BY DEF Awaited
    <2>. QED
        BY <1>1, <2>1, <2>2, NumberedAdd, FS_CardinalityType DEF Copies
<1>4. ASSUME NEW m \in BagToSet(queue), queue' = queue (-) SetToBag({m}), marked' = marked
      PROVE  /\ IsFiniteSet(Copies(n)') /\ Cardinality(Copies(n)') \in Nat
             /\ Cardinality(Copies(n)') = Cardinality(Copies(n))
                                            - (IF n \in m.batch \ marked THEN 1 ELSE 0)
    <2>1. Copies(n)' = Numbered(queue (-) SetToBag({m}), Awaited(n))
        BY <1>4 DEF Copies, Awaited, Numbered
    <2>2. m \in Awaited(n) <=> n \in m.batch \ marked
        BY DEF Awaited, Inv, TypeOK
    <2>. QED
        BY <1>1, <2>1, <2>2, NumberedRemove, FS_CardinalityType DEF Copies
<1>. QED
    BY <1>1, <1>2, <1>3, <1>4
LEMMA Accounts ==
    ASSUME Inv, NEW n \in Notices
    PROVE  /\ Accounted(n)
           /\ Cardinality(Copies(n)) \in Nat /\ Cardinality(Pushers(n)) \in Nat
           /\ queued[n] \in Nat /\ excuse[n] \in Nat /\ \A v \in Devices : got[n][v] \in Nat
BY FS_CardinalityType DEF Inv, TypeOK, PushInv, Accounted

LEMMA TakeStep ==
    ASSUME Inv, DispatchConstants, NEW w \in Workers, NEW m \in BagToSet(queue), Take(w, m)
    PROVE  Inv'
<1>1. /\ m \in Message /\ IsABag(queue) /\ BagToSet(queue) \subseteq Message
      /\ marked \subseteq notices /\ m.batch \subseteq notices /\ notices \subseteq Notices
    BY DEF Inv, TypeOK, WorkInv
<1>. PICK pending : pending = m.batch \ marked
    OBVIOUS
<1>. PICK run : run = [message |-> m, at |-> "send", pending |-> pending, failed |-> {}]
    OBVIOUS
<1>. PICK j : j = IF pending = {} THEN None ELSE run
    OBVIOUS
<1>2. /\ queue' = queue (-) SetToBag({m}) /\ job[w] = None /\ job' = [job EXCEPT ![w] = j]
      /\ UNCHANGED <<ready, dispatch, handler, notices, done, queued, requests, changes,
                     marked, devices, got, excuse, faults>>
    BY DEF Take, shown
<1>3. run \in Run /\ j \in Run \cup {None}
    BY <1>1 DEF Run
<1>4. /\ IsABag(queue') /\ BagToSet(queue') \subseteq BagToSet(queue)
    BY <1>1, <1>2, BagRemove
<1>5. TypeOK'
    BY <1>1, <1>2, <1>3, <1>4, TaskTypes DEF Inv, TypeOK
<1>6. DoneInv' /\ HandlerInv'
    BY <1>2, TaskKeepsWeb
<1>7. WorkInv'
    <2>1. \A n : Reached(n)' <=> Reached(n)
        BY <1>2 DEF Reached, DevicesOf
    <2>2. WorkOK(run)'
        BY <1>1, <1>2 DEF WorkOK
    <2>3. \A x \in BagToSet(queue') : x.batch \subseteq notices
        BY <1>4 DEF Inv, WorkInv
    <2>. QED
        BY <1>2, <1>3, <2>1, <2>2, <2>3, WorkChange
<1>8. PushInv'
    <2>. SUFFICES ASSUME NEW n \in Notices PROVE Accounted(n)'
        BY DEF PushInv
    <2>1. /\ IsFiniteSet(Copies(n)') /\ Cardinality(Copies(n)') \in Nat
          /\ Cardinality(Copies(n)') = Cardinality(Copies(n)) - (IF n \in pending THEN 1 ELSE 0)
        BY <1>2, CopiesChange
    <2>2. j # None /\ (Pushes(j, n))' => n \in pending
        BY DEF Pushes
    <2>3. /\ IsFiniteSet(Pushers(n)') /\ Cardinality(Pushers(n)') \in Nat
          /\ Cardinality(Pushers(n)') <= Cardinality(Pushers(n))
                - (IF job[w] # None /\ Pushes(job[w], n) THEN 1 ELSE 0)
                + (IF j # None /\ (Pushes(j, n))' THEN 1 ELSE 0)
        BY <1>2, <1>3, PushersChange
    <2>. QED
        BY <1>2, <2>1, <2>2, <2>3, Accounts DEF Accounted
<1>. QED
    BY <1>5, <1>6, <1>7, <1>8 DEF Inv

\* What a worker's run satisfies.
LEMMA Worker ==
    ASSUME Inv, NEW w \in Workers, job[w] # None
    PROVE  /\ job[w] \in Run /\ WorkOK(job[w])
           /\ job[w].pending \subseteq Notices /\ job[w].message \in Message
           /\ job[w].message.batch \subseteq notices
BY DEF Inv, TypeOK, WorkInv, WorkOK, Run

LEMMA SendStep ==
    ASSUME Inv, DispatchConstants, NEW w \in Workers, NEW failed, NEW reached, NEW stale,
           reached \subseteq failed, Send(w, failed, reached, stale)
    PROVE  Inv'
<1>. PICK old : old = job[w]
    OBVIOUS
<1>1. /\ job[w] # None /\ old # None /\ old.at = "send" /\ old \in Run /\ WorkOK(old)
      /\ old.pending \subseteq Notices /\ devices \subseteq Devices
    BY Worker DEF Send, Working, Inv, TypeOK
<1>. PICK tokens : tokens = UNION {DevicesOf(n) : n \in old.pending}
    OBVIOUS
<1>. PICK new : new = [old EXCEPT !.at = "mark", !.failed = failed]
    OBVIOUS
<1>2. /\ failed \subseteq tokens /\ stale \subseteq tokens /\ tokens \subseteq devices
      /\ devices' = devices \ stale /\ job' = [job EXCEPT ![w] = new]
      /\ UNCHANGED <<ready, dispatch, handler, notices, done, queued, requests, marked, queue>>
    BY DEF Send, DevicesOf
<1>3. /\ new \in Run /\ new.at = "mark" /\ new.failed = failed /\ new.pending = old.pending
      /\ new.message = old.message
    BY <1>1, <1>2 DEF Run
<1>4. \A n \in Notices, v \in Devices :
         got'[n][v] = got[n][v]
            + (IF n \in old.pending
                  /\ v \in DevicesOf(n) \cap (reached \cup (tokens \ (failed \cup stale)))
               THEN 1 ELSE 0)
    BY DEF Send
<1>5. \A n \in Notices :
         excuse'[n] = excuse[n]
            + (IF n \in old.pending /\ DevicesOf(n) \cap failed # {} THEN 1 ELSE 0)
    BY DEF Send
<1>6. TypeOK'
    <2>1. got' \in [Notices -> [Devices -> Nat]] /\ excuse' \in [Notices -> Nat]
        BY DEF Send, Inv, TypeOK
    <2>2. faults' \in 0..MaxFaults /\ changes' \in 0..MaxChanges
        BY DEF Send, Fault, Changed, Inv, TypeOK, DispatchConstants
    <2>3. job' \in [Workers -> Run \cup {None}]
        BY <1>2, <1>3 DEF Inv, TypeOK
    <2>. QED
        BY <1>1, <1>2, <2>1, <2>2, <2>3, TaskTypes DEF Inv, TypeOK
<1>7. DoneInv' /\ HandlerInv'
    BY <1>2, TaskKeepsWeb
<1>8. \A n \in old.pending : n \notin Settled(new) <=> DevicesOf(n) \cap failed # {}
    BY <1>1, <1>2, <1>3 DEF Settled, DevicesOf
<1>9. WorkInv'
    <2>1. \A n \in Notices : Reached(n) => Reached(n)'
        BY <1>1, <1>2, <1>4 DEF Reached, DevicesOf, Inv, TypeOK
    <2>2. ASSUME NEW n \in old.pending, n \in Settled(new) PROVE Reached(n)'
        <3>. SUFFICES ASSUME NEW v \in DevicesOf(n)' PROVE got'[n][v] > 0
            BY DEF Reached
        <3>1. v \in DevicesOf(n) /\ v \notin stale
            BY <1>2 DEF DevicesOf
        <3>2. v \in tokens /\ v \notin failed /\ v \in Devices /\ n \in Notices
            BY <1>1, <1>8, <2>2, <3>1 DEF DevicesOf
        <3>3. got'[n][v] = got[n][v] + 1 /\ got[n][v] \in Nat
            BY <1>4, <3>1, <3>2, Accounts
        <3>. QED
            BY <3>3
    <2>3. WorkOK(new)'
        BY <1>1, <1>2, <1>3, <2>2 DEF WorkOK, Settled
    <2>4. \A m \in BagToSet(queue') : m.batch \subseteq notices
        BY <1>2 DEF Inv, WorkInv
    <2>. QED
        BY <1>2, <1>3, <2>1, <2>3, <2>4, WorkChange DEF Inv, TypeOK
<1>10. PushInv'
    <2>. SUFFICES ASSUME NEW n \in Notices PROVE Accounted(n)'
        BY DEF PushInv
    <2>1. /\ IsFiniteSet(Copies(n)') /\ Cardinality(Copies(n)') \in Nat
          /\ Cardinality(Copies(n)') <= Cardinality(Copies(n))
        BY <1>2, CopiesChange
    <2>2. Pushes(old, n) <=> n \in old.pending
        BY <1>1 DEF Pushes
    <2>3. (Pushes(new, n))' => n \in old.pending /\ DevicesOf(n) \cap failed # {}
        BY <1>3, <1>8 DEF Pushes, Settled
    <2>4. /\ IsFiniteSet(Pushers(n)') /\ Cardinality(Pushers(n)') \in Nat
          /\ Cardinality(Pushers(n)') <= Cardinality(Pushers(n))
                - (IF job[w] # None /\ Pushes(job[w], n) THEN 1 ELSE 0)
                + (IF new # None /\ (Pushes(new, n))' THEN 1 ELSE 0)
        BY <1>2, <1>3, PushersChange
    <2>5. Cardinality(Pushers(n)') <= Cardinality(Pushers(n))
                - (IF n \in old.pending THEN 1 ELSE 0)
                + (IF n \in old.pending /\ DevicesOf(n) \cap failed # {} THEN 1 ELSE 0)
        BY <1>1, <2>2, <2>3, <2>4, Accounts
    <2>6. \A v \in Devices : got'[n][v] <= got[n][v] + (IF n \in old.pending THEN 1 ELSE 0)
                            /\ got'[n][v] \in Nat
        BY <1>4, Accounts
    <2>. QED
        BY <1>2, <1>5, <2>1, <2>4, <2>5, <2>6, Accounts DEF Accounted
<1>. QED
    BY <1>6, <1>7, <1>9, <1>10 DEF Inv

LEMMA MarkStep ==
    ASSUME Inv, NEW w \in Workers, Mark(w)
    PROVE  Inv'
<1>. PICK old : old = job[w]
    OBVIOUS
<1>1. /\ job[w] # None /\ old # None /\ old.at = "mark" /\ old \in Run /\ WorkOK(old)
      /\ old.pending \subseteq Notices /\ old.message.batch \subseteq notices
    BY Worker DEF Mark, Working
<1>. PICK new : new = [old EXCEPT !.at = "finish"]
    OBVIOUS
<1>2. /\ marked' = marked \cup Settled(old) /\ job' = [job EXCEPT ![w] = new]
      /\ UNCHANGED <<ready, dispatch, handler, notices, done, queued, requests, changes,
                     queue, devices, got, excuse, faults>>
    BY DEF Mark, shown
<1>3. /\ new \in Run /\ new.at = "finish" /\ new.failed = old.failed
      /\ new.pending = old.pending /\ new.message = old.message
    BY <1>1 DEF Run
<1>4. Settled(new) = Settled(old) /\ Settled(old) \subseteq old.pending
    BY <1>3 DEF Settled
<1>5. TypeOK'
    <2>1. job' \in [Workers -> Run \cup {None}]
        BY <1>2, <1>3 DEF Inv, TypeOK
    <2>2. marked' \subseteq notices
        BY <1>1, <1>2, <1>4 DEF WorkOK, Inv, TypeOK
    <2>. QED
        BY <1>2, <2>1, <2>2, TaskTypes DEF Inv, TypeOK
<1>6. DoneInv' /\ HandlerInv'
    BY <1>2, TaskKeepsWeb
<1>7. WorkInv'
    <2>1. \A n : Reached(n)' <=> Reached(n)
        BY <1>2 DEF Reached, DevicesOf
    <2>2. \A n \in marked' : n \in marked \/ Reached(n)'
        BY <1>1, <1>2, <2>1 DEF WorkOK
    <2>3. WorkOK(new)'
        BY <1>1, <1>2, <1>3, <1>4 DEF WorkOK, Settled
    <2>4. \A m \in BagToSet(queue') : m.batch \subseteq notices
        BY <1>2 DEF Inv, WorkInv
    <2>. QED
        BY <1>2, <1>3, <2>1, <2>2, <2>3, <2>4, WorkChange
<1>8. PushInv'
    <2>. SUFFICES ASSUME NEW n \in Notices PROVE Accounted(n)'
        BY DEF PushInv
    <2>1. /\ IsFiniteSet(Copies(n)') /\ Cardinality(Copies(n)') \in Nat
          /\ Cardinality(Copies(n)') <= Cardinality(Copies(n))
        BY <1>2, CopiesChange
    <2>2. (Pushes(new, n))' => Pushes(old, n)
        BY <1>2, <1>3, <1>4 DEF Pushes, Settled
    <2>3. /\ IsFiniteSet(Pushers(n)') /\ Cardinality(Pushers(n)') \in Nat
          /\ Cardinality(Pushers(n)') <= Cardinality(Pushers(n))
                - (IF job[w] # None /\ Pushes(job[w], n) THEN 1 ELSE 0)
                + (IF new # None /\ (Pushes(new, n))' THEN 1 ELSE 0)
        BY <1>2, <1>3, PushersChange
    <2>4. Cardinality(Pushers(n)') <= Cardinality(Pushers(n))
        BY <1>1, <2>2, <2>3, Accounts
    <2>. QED
        BY <1>2, <2>1, <2>3, <2>4, Accounts DEF Accounted
<1>. QED
    BY <1>5, <1>6, <1>7, <1>8 DEF Inv

\* A worker's run ends.
LEMMA PushersEnd ==
    ASSUME Inv, NEW w \in Workers, job' = [job EXCEPT ![w] = None], marked \subseteq marked',
           NEW n \in Notices
    PROVE  /\ IsFiniteSet(Pushers(n)') /\ Cardinality(Pushers(n)') \in Nat
           /\ Cardinality(Pushers(n)') <= Cardinality(Pushers(n))
           /\ job[w] # None /\ Pushes(job[w], n) =>
                 Cardinality(Pushers(n)') <= Cardinality(Pushers(n)) - 1
<1>. PICK j : j = None
    OBVIOUS
<1>1. /\ IsFiniteSet(Pushers(n)') /\ Cardinality(Pushers(n)') \in Nat
      /\ Cardinality(Pushers(n)') <= Cardinality(Pushers(n))
           - (IF job[w] # None /\ Pushes(job[w], n) THEN 1 ELSE 0)
           + (IF j # None /\ (Pushes(j, n))' THEN 1 ELSE 0)
    BY PushersChange
<1>. QED
    BY <1>1, Accounts

\* The queue after a retry.
LEMMA QueueRetried ==
    ASSUME Inv, DispatchConstants, NEW m \in Message
    PROVE  /\ IsABag(queue (+) Retried(m))
           /\ \A x \in BagToSet(queue (+) Retried(m)) :
                 x \in BagToSet(queue) \/ (x \in Message /\ x.batch = m.batch)
           /\ \A n \in Notices :
                 /\ IsFiniteSet(Numbered(queue (+) Retried(m), Awaited(n)))
                 /\ Cardinality(Numbered(queue (+) Retried(m), Awaited(n))) \in Nat
                 /\ Cardinality(Numbered(queue (+) Retried(m), Awaited(n)))
                      <= Cardinality(Copies(n)) + (IF n \in m.batch \ marked THEN 1 ELSE 0)
<1>. PICK B : B = queue
    OBVIOUS
<1>1. IsABag(B)
    BY DEF Inv, TypeOK
<1>2. IsFiniteSet(Numbered(B, {}))
    <2>1. Numbered(B, {}) = {}
        BY DEF Numbered
    <2>. QED
        BY <2>1, FS_EmptySet
<1>3. /\ IsABag(B (+) Retried(m))
      /\ \A x \in BagToSet(B (+) Retried(m)) :
            x \in BagToSet(B) \/ (x \in Message /\ x.batch = m.batch)
    BY <1>1, <1>2, NumberedRetry
<1>4. ASSUME NEW n \in Notices
      PROVE  /\ IsFiniteSet(Numbered(B (+) Retried(m), Awaited(n)))
             /\ Cardinality(Numbered(B (+) Retried(m), Awaited(n))) \in Nat
             /\ Cardinality(Numbered(B (+) Retried(m), Awaited(n)))
                  <= Cardinality(Copies(n)) + (IF n \in m.batch \ marked THEN 1 ELSE 0)
    <2>. PICK K : K = Awaited(n)
        OBVIOUS
    <2>1. Copies(n) = Numbered(B, K) /\ IsFiniteSet(Numbered(B, K))
        BY Accounts DEF Copies, Accounted
    <2>2. \A x \in Message : (x \in K <=> n \in x.batch \ marked)
        BY DEF Awaited
    <2>3. \A x \in Message : x.batch = m.batch => (x \in K <=> m \in K)
        BY <2>2
    <2>4. /\ IsFiniteSet(Numbered(B (+) Retried(m), K))
          /\ Cardinality(Numbered(B (+) Retried(m), K))
               <= Cardinality(Numbered(B, K)) + (IF m \in K THEN 1 ELSE 0)
        BY <1>1, <2>1, <2>3, NumberedRetry
    <2>. QED
        BY <2>1, <2>2, <2>4, FS_CardinalityType
<1>. QED
    BY <1>3, <1>4

LEMMA GiveUpStep ==
    ASSUME Inv, DispatchConstants, NEW w \in Workers, NEW some, GiveUp(w, some)
    PROVE  Inv'
<1>. PICK old : old = job[w]
    OBVIOUS
<1>1. /\ job[w] # None /\ old \in Run /\ WorkOK(old)
      /\ old.pending \subseteq Notices /\ old.message.batch \subseteq notices
    BY Worker DEF GiveUp
<1>2. /\ marked' = marked \cup some /\ job' = [job EXCEPT ![w] = None]
      /\ \A n \in some : old.at = "mark" /\ n \in Settled(old)
      /\ UNCHANGED <<ready, dispatch, handler, notices, done, queued, requests, changes,
                     queue, devices, got, excuse>>
    BY DEF GiveUp, shown
<1>3. \A n \in some : n \in notices /\ Reached(n)
    BY <1>1, <1>2 DEF WorkOK, Settled
<1>4. TypeOK'
    <2>1. job' \in [Workers -> Run \cup {None}] /\ faults' \in 0..MaxFaults
        BY <1>2 DEF GiveUp, Fault, Inv, TypeOK, DispatchConstants
    <2>2. marked' \subseteq notices
        BY <1>2, <1>3 DEF Inv, TypeOK
    <2>. QED
        BY <1>2, <2>1, <2>2, TaskTypes DEF Inv, TypeOK
<1>5. DoneInv' /\ HandlerInv'
    BY <1>2, TaskKeepsWeb
<1>6. WorkInv'
    <2>1. \A n : Reached(n)' <=> Reached(n)
        BY <1>2 DEF Reached, DevicesOf
    <2>2. \A n \in marked' : n \in marked \/ Reached(n)'
        BY <1>2, <1>3, <2>1
    <2>3. \A m \in BagToSet(queue') : m.batch \subseteq notices
        BY <1>2 DEF Inv, WorkInv
    <2>. QED
        BY <1>2, <2>1, <2>2, <2>3, WorkChange
<1>7. PushInv'
    <2>. SUFFICES ASSUME NEW n \in Notices PROVE Accounted(n)'
        BY DEF PushInv
    <2>1. /\ IsFiniteSet(Copies(n)') /\ Cardinality(Copies(n)') \in Nat
          /\ Cardinality(Copies(n)') <= Cardinality(Copies(n))
        BY <1>2, CopiesChange
    <2>2. /\ IsFiniteSet(Pushers(n)') /\ Cardinality(Pushers(n)') \in Nat
          /\ Cardinality(Pushers(n)') <= Cardinality(Pushers(n))
        BY <1>2, PushersEnd
    <2>. QED
        BY <1>2, <2>1, <2>2, Accounts DEF Accounted
<1>. QED
    BY <1>4, <1>5, <1>6, <1>7 DEF Inv

LEMMA FinishStep ==
    ASSUME Inv, DispatchConstants, NEW w \in Workers, Finish(w)
    PROVE  Inv'
<1>. PICK old : old = job[w]
    OBVIOUS
<1>. PICK m : m = old.message
    OBVIOUS
<1>1. /\ job[w] # None /\ old \in Run /\ old.at = "finish" /\ WorkOK(old)
      /\ m \in Message /\ m.batch \subseteq notices
    BY Worker DEF Finish, Working
<1>2. /\ queue' = queue \/ queue' = queue (+) Retried(m)
      /\ job' = [job EXCEPT ![w] = None]
      /\ UNCHANGED <<ready, dispatch, handler, notices, done, queued, requests, changes,
                     marked, devices, got, excuse, faults>>
    BY DEF Finish, shown
<1>3. IsABag(queue) /\ BagToSet(queue) \subseteq Message
    BY DEF Inv, TypeOK
<1>4. /\ IsABag(queue')
      /\ \A x \in BagToSet(queue') :
            x \in BagToSet(queue) \/ (x \in Message /\ x.batch = m.batch)
      /\ \A n \in Notices :
            /\ IsFiniteSet(Copies(n)') /\ Cardinality(Copies(n)') \in Nat
            /\ Cardinality(Copies(n)') <= Cardinality(Copies(n))
                                           + (IF n \in m.batch \ marked THEN 1 ELSE 0)
    <2>1. PICK Q : Q = queue'
        OBVIOUS
    <2>2. Q = queue \/ Q = queue (+) Retried(m)
        BY <1>2, <2>1
    <2>3. \A n : Copies(n)' = Numbered(Q, Awaited(n))
        BY <1>2, <2>1 DEF Copies, Awaited, Numbered
    <2>4. CASE Q = queue
        BY <1>3, <2>1, <2>3, <2>4, Accounts DEF Copies, Accounted
    <2>5. CASE Q = queue (+) Retried(m)
        BY <1>1, <2>1, <2>3, <2>5, QueueRetried
    <2>. QED
        BY <2>2, <2>4, <2>5
<1>5. TypeOK'
    <2>1. job' \in [Workers -> Run \cup {None}]
        BY <1>2 DEF Inv, TypeOK
    <2>2. BagToSet(queue') \subseteq Message
        BY <1>3, <1>4
    <2>. QED
        BY <1>2, <1>4, <2>1, <2>2, TaskTypes DEF Inv, TypeOK
<1>6. DoneInv' /\ HandlerInv'
    BY <1>2, TaskKeepsWeb
<1>7. WorkInv'
    <2>1. \A n : Reached(n)' <=> Reached(n)
        BY <1>2 DEF Reached, DevicesOf
    <2>2. \A x \in BagToSet(queue') : x.batch \subseteq notices
        BY <1>1, <1>4 DEF Inv, WorkInv
    <2>. QED
        BY <1>2, <2>1, <2>2, WorkChange
<1>8. PushInv'
    <2>. SUFFICES ASSUME NEW n \in Notices PROVE Accounted(n)'
        BY DEF PushInv
    <2>1. n \in m.batch \ marked => Pushes(old, n)
        BY <1>1 DEF WorkOK, Pushes
    <2>2. /\ IsFiniteSet(Pushers(n)') /\ Cardinality(Pushers(n)') \in Nat
          /\ Cardinality(Pushers(n)') <= Cardinality(Pushers(n))
          /\ n \in m.batch \ marked => Cardinality(Pushers(n)') <= Cardinality(Pushers(n)) - 1
        BY <1>1, <1>2, <2>1, PushersEnd
    <2>. QED
        BY <1>2, <1>4, <2>2, Accounts DEF Accounted
<1>. QED
    BY <1>5, <1>6, <1>7, <1>8 DEF Inv

LEMMA LoseWorkerStep ==
    ASSUME Inv, DispatchConstants, NEW w \in Workers, NEW published \in BOOLEAN,
           LoseWorker(w, published)
    PROVE  Inv'
<1>. PICK old : old = job[w]
    OBVIOUS
<1>. PICK m : m = old.message
    OBVIOUS
<1>1. /\ job[w] # None /\ old \in Run /\ WorkOK(old)
      /\ m \in Message /\ m.batch \subseteq notices
    BY Worker DEF LoseWorker
<1>. PICK Q : Q = IF published THEN queue (+) Retried(m) ELSE queue
    OBVIOUS
<1>2. /\ queue' = Q (+) SetToBag({m}) /\ job' = [job EXCEPT ![w] = None]
      /\ published => old.at = "finish"
      /\ UNCHANGED <<ready, dispatch, handler, notices, done, queued, requests, changes,
                     marked, devices, got>>
    BY DEF LoseWorker, shown
<1>3. \A n \in Notices : excuse'[n] = excuse[n] + (IF n \in m.batch THEN 1 ELSE 0)
    BY DEF LoseWorker
<1>4. /\ IsABag(queue) /\ BagToSet(queue) \subseteq Message
    BY DEF Inv, TypeOK
<1>5. /\ IsABag(Q)
      /\ \A x \in BagToSet(Q) : x \in BagToSet(queue) \/ (x \in Message /\ x.batch = m.batch)
      /\ \A n \in Notices :
            /\ IsFiniteSet(Numbered(Q, Awaited(n)))
            /\ Cardinality(Numbered(Q, Awaited(n))) \in Nat
            /\ Cardinality(Numbered(Q, Awaited(n))) <= Cardinality(Copies(n))
                    + (IF published /\ n \in m.batch \ marked THEN 1 ELSE 0)
    <2>1. CASE published
        BY <1>1, <2>1, QueueRetried
    <2>2. CASE ~published
        BY <1>4, <2>2, Accounts DEF Copies, Accounted
    <2>. QED
        BY <2>1, <2>2
<1>6. /\ IsABag(queue')
      /\ \A x \in BagToSet(queue') :
            x \in BagToSet(queue) \/ (x \in Message /\ x.batch = m.batch)
    <2>1. IsABag(queue') /\ BagToSet(queue') = BagToSet(Q) \cup {m}
        BY <1>2, <1>5, BagAdd
    <2>. QED
        BY <1>1, <1>5, <2>1
<1>7. TypeOK'
    <2>1. job' \in [Workers -> Run \cup {None}] /\ faults' \in 0..MaxFaults
        BY <1>2 DEF LoseWorker, Fault, Inv, TypeOK, DispatchConstants
    <2>2. BagToSet(queue') \subseteq Message
        BY <1>4, <1>6
    <2>3. excuse' \in [Notices -> Nat]
        BY DEF LoseWorker, Inv, TypeOK
    <2>. QED
        BY <1>2, <1>6, <2>1, <2>2, <2>3, TaskTypes DEF Inv, TypeOK
<1>8. DoneInv' /\ HandlerInv'
    BY <1>2, TaskKeepsWeb
<1>9. WorkInv'
    <2>1. \A n : Reached(n)' <=> Reached(n)
        BY <1>2 DEF Reached, DevicesOf
    <2>2. \A x \in BagToSet(queue') : x.batch \subseteq notices
        BY <1>1, <1>6 DEF Inv, WorkInv
    <2>. QED
        BY <1>2, <2>1, <2>2, WorkChange
<1>10. PushInv'
    <2>. SUFFICES ASSUME NEW n \in Notices PROVE Accounted(n)'
        BY DEF PushInv
    <2>1. Copies(n)' = Numbered(Q (+) SetToBag({m}), Awaited(n))
        BY <1>2 DEF Copies, Awaited, Numbered
    <2>2. m \in Awaited(n) <=> n \in m.batch \ marked
        BY <1>1 DEF Awaited
    <2>3. /\ IsFiniteSet(Copies(n)') /\ Cardinality(Copies(n)') \in Nat
          /\ Cardinality(Copies(n)') = Cardinality(Numbered(Q, Awaited(n)))
                                         + (IF n \in m.batch \ marked THEN 1 ELSE 0)
        BY <1>5, <2>1, <2>2, NumberedAdd, FS_CardinalityType
    <2>4. published /\ n \in m.batch \ marked => Pushes(old, n)
        BY <1>1, <1>2 DEF WorkOK, Pushes
    <2>5. /\ IsFiniteSet(Pushers(n)') /\ Cardinality(Pushers(n)') \in Nat
          /\ Cardinality(Pushers(n)') <= Cardinality(Pushers(n))
          /\ published /\ n \in m.batch \ marked =>
                Cardinality(Pushers(n)') <= Cardinality(Pushers(n)) - 1
        BY <1>1, <1>2, <2>4, PushersEnd
    <2>6. Cardinality(Copies(n)') + Cardinality(Pushers(n)')
            <= Cardinality(Copies(n)) + Cardinality(Pushers(n)) + (IF n \in m.batch THEN 1 ELSE 0)
        BY <1>5, <2>3, <2>5, Accounts
    <2>. QED
        BY <1>2, <1>3, <2>3, <2>5, <2>6, Accounts DEF Accounted
<1>. QED
    BY <1>7, <1>8, <1>9, <1>10 DEF Inv
-----------------------------------------------------------------------------
(* The theorems.                                                           *)

LEMMA StepInv ==
    ASSUME Inv, DispatchConstants, [Next]_vars
    PROVE  Inv'
<1>1. CASE UNCHANGED vars
    <2>1. UNCHANGED <<dispatch, handler, notices, done, queued, ready, requests, changes,
                     marked, queue, job, devices, got, excuse, faults>>
        BY <1>1 DEF vars, shown, pushed
    <2>2. TypeOK'
        BY <2>1 DEF Inv, TypeOK
    <2>. QED
        BY <2>1, <2>2, TaskKeepsWeb, WebKeepsWork, WebKeepsPushes DEF Inv
<1>2. ASSUME NEW h \in Handlers, NEW r \in Requests, NEW s \in Offers \cup Products, Ask(h, r, s)
      PROVE  Inv'
    BY <1>2, StartsStep DEF Ask, Dispatches, Subjects, DispatchConstants
<1>3. ASSUME NEW h \in Handlers, NEW p \in Products, SaveProduct(h, p) PROVE Inv'
    BY <1>3, StartsStep DEF SaveProduct, Dispatches, Subjects, DispatchConstants
<1>4. ASSUME NEW h \in Handlers, NEW a \in Areas, CreateArea(h, a) PROVE Inv'
    BY <1>4, StartsStep DEF CreateArea, Dispatches, Subjects, DispatchConstants
<1>5. ASSUME NEW h \in Handlers, Lock(h) \/ Refuse(h) \/ Crash(h) PROVE Inv'
    BY <1>5, LockStep, RefuseStep, CrashStep
<1>6. ASSUME NEW h \in Handlers, NEW left \in SUBSET Clients, Commit(h, left) PROVE Inv'
    BY <1>6, CommitStep
<1>7. ASSUME NEW h \in Handlers, At(h, "publish"), NEW batch \in handler[h].batches,
             NEW up \in BOOLEAN, Publish(h, batch, up)
      PROVE  Inv'
    BY <1>7, PublishStep
<1>8. ASSUME NEW s \in Subjects \ Areas, Change(s) PROVE Inv'
    BY <1>8, ChangeStep
<1>9. ASSUME NEW w \in Workers, NEW m \in BagToSet(queue), Take(w, m) PROVE Inv'
    BY <1>9, TakeStep
<1>10. ASSUME NEW w \in Workers, NEW failed, NEW stale, NEW reached \in SUBSET failed,
              Send(w, failed, reached, stale)
       PROVE  Inv'
    BY <1>10, SendStep
<1>11. ASSUME NEW w \in Workers, Mark(w) \/ Finish(w) PROVE Inv'
    BY <1>11, MarkStep, FinishStep
<1>12. ASSUME NEW w \in Workers, NEW some, GiveUp(w, some) PROVE Inv'
    BY <1>12, GiveUpStep
<1>13. ASSUME NEW w \in Workers, NEW published \in BOOLEAN, LoseWorker(w, published) PROVE Inv'
    BY <1>13, LoseWorkerStep
<1>. QED
    BY <1>1, <1>2, <1>3, <1>4, <1>5, <1>6, <1>7, <1>8, <1>9, <1>10, <1>11, <1>12, <1>13 DEF Next

LEMMA Invariance == Spec => []Inv
BY InitInv, StepInv, DispatchConstants, PTL DEF Spec

\* The model keeps its types, and a dispatch row that a handler holds stays about the
\* subject the handler found in it (OfferNotificationDispatch, ProductNotificationDispatch,
\* MarketNotificationDispatch, DeliveryAreaNotificationDispatch).
THEOREM TypeCorrect == Spec => []TypeOK
<1>1. Inv => TypeOK
    BY DEF Inv
<1>. QED
    BY <1>1, Invariance, PTL

\* However many handlers repeat a request, save products or crash, each announcement is
\* completed once, and each of its notifications is stored before it is queued and queued
\* at most once (dispatch_*_notifications and their on_commit callbacks).
THEOREM AnnouncementsAreMadeOnce == Spec => []AnnouncedOnce
<1>1. Inv => AnnouncedOnce
    BY DEF Inv, DoneInv, AnnouncedOnce
<1>. QED
    BY <1>1, Invariance, PTL

\* A device gets a notification again only for a fault of its own recipient's pushes or of
\* a worker that had it, and a marked one has reached every device its recipient still has
\* (send_notifications_multicast_batch_task, send_notifications_push).
THEOREM PushesAreAccounted == Spec => []PushAccounted
<1>1. Inv => PushAccounted
    <2>. SUFFICES ASSUME Inv, NEW n \in Notices
                  PROVE  /\ \A v \in Devices : got[n][v] <= 1 + excuse[n]
                         /\ n \in marked => \A v \in DevicesOf(n) : got[n][v] > 0
        BY DEF PushAccounted
    <2>1. queued[n] <= 1
        BY DEF Inv, DoneInv
    <2>2. n \in marked => Reached(n)
        BY DEF Inv, WorkInv
    <2>. QED
        BY <2>1, <2>2, Accounts DEF Accounted, Reached
<1>. QED
    BY <1>1, Invariance, PTL
=============================================================================
