--------------------------- MODULE MediaJobsProofs ---------------------------
(***************************************************************************)
(* Theorems about MediaJobs, for any jobs, targets, workers, number of     *)
(* automatic retries and number of attempts.                               *)
(***************************************************************************)
EXTENDS MediaJobs, TLAPS

\* The row of a job.  Its token is that of the latest attempt or none; a file is named
\* only by a job that is ready, or was when it was cancelled, and comes from that attempt.
RowCoherent(j) ==
    /\ job[j].token \in {0, job[j].attempt}
    /\ job[j].state = "processing" => job[j].token = job[j].attempt
    /\ job[j].cancelled => job[j].state = "failed"
    /\ job[j].video # NoFile => /\ job[j].state = "ready" \/ job[j].cancelled
                                /\ job[j].video = <<j, job[j].attempt>>

\* What is left of a request's attempts, and of the bound on them.
InBudget(j) ==
    /\ job[j].state = "absent" => tries[j] = 0 /\ job[j].attempt = 0
    /\ job[j].state = "pending" =>
          /\ tries[j] <= job[j].storageRetries
          /\ job[j].attempt + StorageRetries < MaxAttempts + job[j].storageRetries
    /\ job[j].state = "processing" =>
          /\ tries[j] <= job[j].storageRetries + 1
          /\ job[j].attempt + StorageRetries <= MaxAttempts + job[j].storageRetries
    /\ tries[j] <= StorageRetries + 1

RowInv ==
    \A j \in Jobs :
        /\ RowCoherent(j) /\ InBudget(j)
        /\ job[j].cancelled => \A t \in Targets : waitsFor[t] # j

\* The attempt may still write its job's row.
OnRow(w) == Current(run[w].job, run[w].token)

\* Attempts under way are told apart by their token, and the current one has the row's
\* budget.
RunInv ==
    /\ \A w \in Workers : run[w] # NoRun =>
          /\ run[w].token \in 1..job[run[w].job].attempt
          /\ OnRow(w) => run[w].storageRetries = job[run[w].job].storageRetries
    /\ \A v, w \in Workers :
          run[v] # NoRun /\ run[w] # NoRun /\ run[v].job = run[w].job
              /\ run[v].token = run[w].token => v = w

FileOf(w) == <<run[w].job, run[w].token>>

\* Stored files come from attempts there were; what is listed, referenced or saved by a
\* worker is stored.
StoredInv ==
    /\ \A j \in Jobs, a \in 1..MaxAttempts : <<j, a>> \in stored => a <= job[j].attempt
    /\ cleanup \subseteq stored
    /\ check # NoCheck => check.file \in cleanup
    /\ \A f \in Files : Referenced(f) => f \in stored
    /\ \A w \in Workers : run[w] # NoRun /\ run[w].saved => FileOf(w) \in stored

\* The file of an attempt under way is not yet referenced nor listed.
FreshInv ==
    \A w \in Workers : run[w] # NoRun => FileOf(w) \notin cleanup /\ ~Referenced(FileOf(w))

\* What cleanup_due_media found out about its file still holds when it acts on it, or
\* else the file is given up.
CheckInv ==
    check # NoCheck =>
        /\ ~check.referenced => ~Referenced(check.file)
        /\ check.referenced => Referenced(check.file) \/ check.file \in abandoned

FileInv == StoredInv /\ FreshInv /\ CheckInv /\ NoOrphanFiles

Inv == TypeOK /\ RowInv /\ RunInv /\ FileInv
-----------------------------------------------------------------------------
(* Types of parts, and what the helpers compute.                           *)

LEMMA RowParts ==
    ASSUME TypeOK, NEW j \in Jobs
    PROVE  /\ job[j] \in Job /\ job[j].attempt \in Attempts /\ job[j].token \in Attempts
           /\ job[j].storageRetries \in 0..StorageRetries
           /\ job[j].cancelled \in BOOLEAN /\ job[j].source \in BOOLEAN
           /\ job[j].video \in Files \cup {NoFile} /\ tries[j] \in Nat
<1>1. job[j] \in Job /\ tries[j] \in Nat
    BY DEF TypeOK
<1>. QED
    BY <1>1 DEF Job

LEMMA RunParts ==
    ASSUME TypeOK, NEW w \in Workers, run[w] # NoRun
    PROVE  /\ run[w] \in Run /\ run[w].job \in Jobs /\ run[w].token \in Attempts
           /\ run[w].retries \in 0..StorageRetries
           /\ run[w].storageRetries \in 0..StorageRetries
           /\ run[w].saved \in BOOLEAN /\ run[w].source \in BOOLEAN
<1>1. run[w] \in Run
    BY DEF TypeOK
<1>. QED
    BY <1>1 DEF Run

LEMMA FileOfRun ==
    ASSUME MediaConstants, TypeOK, RunInv, NEW w \in Workers, run[w] # NoRun
    PROVE  FileOf(w) \in Files /\ run[w].token \in 1..MaxAttempts /\ run[w].job \in Jobs
<1>1. run[w].job \in Jobs /\ run[w].token \in 1..job[run[w].job].attempt
    BY RunParts DEF RunInv
<1>2. job[run[w].job].attempt \in 0..MaxAttempts
    BY <1>1, RowParts DEF Attempts
<1>3. run[w].token \in 1..MaxAttempts
    BY <1>1, <1>2 DEF MediaConstants
<1>. QED
    BY <1>1, <1>3 DEF FileOf, Files

LEMMA NoFileApart ==
    ASSUME MediaConstants
    PROVE  NoFile \notin Files
BY DEF MediaConstants, Files

\* What schedule_storage_cleanup does for a set of files.
LEMMA Scheduled ==
    ASSUME MediaConstants, TypeOK, NEW files \in SUBSET (Files \cup {NoFile}), Schedule(files)
    PROVE  /\ cleanup' \subseteq Files /\ abandoned' \subseteq Files
           /\ \A f \in Files : f \in cleanup' <=> f \in cleanup \/ f \in files
           /\ abandoned \subseteq abandoned'
           /\ check # NoCheck /\ check.referenced /\ check.file \in files =>
                 check.file \in abandoned'
<1>1. NoFile \notin Files
    BY NoFileApart
<1>2. /\ cleanup' \subseteq Files /\ abandoned' \subseteq Files
      /\ \A f \in Files : f \in cleanup' <=> f \in cleanup \/ f \in files
      /\ abandoned \subseteq abandoned'
    BY <1>1 DEF Schedule, TypeOK
<1>3. ASSUME check # NoCheck, check.referenced, check.file \in files
      PROVE  check.file \in abandoned'
    <2>1. check \in Check
        BY <1>3 DEF TypeOK
    <2>2. check.file \in Files /\ check.referenced = TRUE
        BY <1>3, <2>1 DEF Check
    <2>3. check = [file |-> check.file, referenced |-> TRUE]
        BY <2>1, <2>2 DEF Check
    <2>. QED
        BY <1>1, <1>3, <2>2, <2>3 DEF Schedule
<1>. QED
    BY <1>2, <1>3
-----------------------------------------------------------------------------
(* What a change has to respect.                                           *)

\* Rows and runs: only row j changes, and the attempts under way stay what they are.
OnlyRow(j) ==
    /\ \A k \in Jobs : k # j => job'[k] = job[k] /\ tries'[k] = tries[k]
    /\ job'[j].attempt \in Nat /\ job[j].attempt <= job'[j].attempt

SameRuns ==
    \A w \in Workers : run'[w] # NoRun =>
        /\ run[w] # NoRun /\ run'[w].job = run[w].job /\ run'[w].token = run[w].token
        /\ run'[w].storageRetries = run[w].storageRetries

LEMMA RowChange ==
    ASSUME RowInv, NEW j \in Jobs, OnlyRow(j), RowCoherent(j)', InBudget(j)',
           \A t \in Targets : waitsFor'[t] \in {waitsFor[t], j, NoJob},
           NoJob \notin Jobs,
           job'[j].cancelled => \A t \in Targets : waitsFor'[t] # j
    PROVE  RowInv'
<1>. SUFFICES ASSUME NEW k \in Jobs, k # j
              PROVE  /\ RowCoherent(k)' /\ InBudget(k)'
                     /\ job'[k].cancelled => \A t \in Targets : waitsFor'[t] # k
    BY DEF RowInv
<1>1. /\ RowCoherent(k) /\ InBudget(k)
      /\ job[k].cancelled => \A t \in Targets : waitsFor[t] # k
    BY DEF RowInv
<1>2. job'[k] = job[k] /\ tries'[k] = tries[k]
    BY DEF OnlyRow
<1>3. RowCoherent(k)' /\ InBudget(k)'
    BY <1>1, <1>2 DEF RowCoherent, InBudget
<1>. QED
    BY <1>1, <1>2, <1>3

LEMMA RunChange ==
    ASSUME TypeOK, RunInv, SameRuns, NEW j \in Jobs, OnlyRow(j),
           \A w \in Workers : run'[w] # NoRun /\ run[w].job = j /\ OnRow(w)' =>
               OnRow(w) /\ job'[j].storageRetries = job[j].storageRetries
    PROVE  RunInv'
<1>1. ASSUME NEW w \in Workers, run'[w] # NoRun
      PROVE  /\ run'[w].token \in 1..job'[run'[w].job].attempt
             /\ OnRow(w)' => run'[w].storageRetries = job'[run'[w].job].storageRetries
    <2>1. PICK k \in Jobs, token \in Attempts :
              /\ k = run[w].job /\ token = run[w].token
              /\ run[w] # NoRun /\ run'[w].job = k /\ run'[w].token = token
              /\ run'[w].storageRetries = run[w].storageRetries
        BY <1>1, RunParts DEF SameRuns
    <2>2. /\ token \in 1..job[k].attempt
          /\ OnRow(w) => run[w].storageRetries = job[k].storageRetries
        BY <2>1 DEF RunInv
    <2>3. CASE k = j
        <3>1. job[j].attempt \in Nat
            BY RowParts DEF Attempts
        <3>2. token \in 1..job'[j].attempt
            BY <2>2, <2>3, <3>1 DEF OnlyRow
        <3>3. OnRow(w)' => run'[w].storageRetries = job'[j].storageRetries
            BY <1>1, <2>1, <2>2, <2>3
        <3>. QED
            BY <2>1, <2>3, <3>2, <3>3
    <2>4. CASE k # j
        <3>1. job'[k] = job[k]
            BY <2>4 DEF OnlyRow
        <3>2. OnRow(w)' <=> OnRow(w)
            BY <2>1, <3>1 DEF OnRow, Current
        <3>. QED
            BY <2>1, <2>2, <3>1, <3>2
    <2>. QED
        BY <2>3, <2>4
<1>2. \A v, w \in Workers :
          run'[v] # NoRun /\ run'[w] # NoRun /\ run'[v].job = run'[w].job
              /\ run'[v].token = run'[w].token => v = w
    BY DEF SameRuns, RunInv
<1>. QED
    BY <1>1, <1>2 DEF RunInv

\* Files: no attempt is forgotten.
AttemptsGrow == \A j \in Jobs : job'[j].attempt \in Nat /\ job[j].attempt <= job'[j].attempt

LEMMA StoredStaysOld ==
    ASSUME TypeOK, StoredInv, AttemptsGrow
    PROVE  \A j \in Jobs, a \in 1..MaxAttempts : <<j, a>> \in stored => a <= job'[j].attempt
<1>. SUFFICES ASSUME NEW j \in Jobs, NEW a \in 1..MaxAttempts, <<j, a>> \in stored
              PROVE  a <= job'[j].attempt
    OBVIOUS
<1>1. a <= job[j].attempt /\ job[j].attempt \in Nat
    BY RowParts DEF StoredInv, Attempts
<1>. QED
    BY <1>1 DEF AttemptsGrow

\* Files: no file changes hands.
LEMMA FileFrame ==
    ASSUME TypeOK, FileInv, AttemptsGrow,
           UNCHANGED <<published, run, stored, cleanup, check, abandoned>>,
           \A j \in Jobs : job'[j].video = job[j].video
    PROVE  FileInv'
<1>1. \A f : Referenced(f)' <=> Referenced(f)
    BY DEF Referenced
<1>2. StoredInv'
    BY <1>1, StoredStaysOld DEF FileInv, StoredInv, FileOf
<1>3. FreshInv' /\ CheckInv' /\ NoOrphanFiles'
    BY <1>1 DEF FileInv, FreshInv, CheckInv, NoOrphanFiles, FileOf
<1>. QED
    BY <1>2, <1>3 DEF FileInv

\* Files: a step that lets go of some files and may name a worker's saved file.
LEMMA FileChange ==
    ASSUME MediaConstants, TypeOK, RunInv, FileInv, AttemptsGrow, UNCHANGED <<stored, check>>,
           NEW files \in SUBSET (Files \cup {NoFile}), Schedule(files),
           \A w \in Workers : run'[w] # NoRun => run'[w] = run[w],
           \A f \in Files : f \in files => f \in stored,
           \A f \in Files : Referenced(f)' =>
               \/ Referenced(f)
               \/ \E w \in Workers : run[w] # NoRun /\ run[w].saved /\ f = FileOf(w),
           \A f \in Files : Referenced(f) => Referenced(f)' \/ f \in files,
           \A w \in Workers : run'[w] # NoRun =>
               FileOf(w) \notin files /\ ~Referenced(FileOf(w))',
           \A w \in Workers : run[w] # NoRun /\ run[w].saved /\ run'[w] = NoRun =>
               \A f \in Files : f = FileOf(w) => f \in files \/ Referenced(f)'
    PROVE  FileInv'
<1>1. /\ cleanup' \subseteq Files
      /\ \A f \in Files : f \in cleanup' <=> f \in cleanup \/ f \in files
      /\ abandoned \subseteq abandoned'
      /\ check # NoCheck /\ check.referenced /\ check.file \in files => check.file \in abandoned'
    BY Scheduled
<1>2. \A w \in Workers : run[w] # NoRun => FileOf(w) \in Files
    BY FileOfRun
<1>3. StoredInv'
    <2>1. cleanup' \subseteq stored'
        BY <1>1 DEF FileInv, StoredInv, TypeOK
    <2>2. check' # NoCheck => check'.file \in cleanup'
        BY <1>1 DEF FileInv, StoredInv, TypeOK
    <2>3. \A f \in Files : Referenced(f)' => f \in stored'
        BY <1>2 DEF FileInv, StoredInv
    <2>4. \A w \in Workers : run'[w] # NoRun /\ run'[w].saved => FileOf(w)' \in stored'
        BY DEF FileInv, StoredInv, FileOf
    <2>. QED
        BY <2>1, <2>2, <2>3, <2>4, StoredStaysOld DEF FileInv, StoredInv
<1>4. FreshInv'
    <2>. SUFFICES ASSUME NEW w \in Workers, run'[w] # NoRun
                  PROVE  FileOf(w)' \notin cleanup' /\ ~Referenced(FileOf(w))'
        BY DEF FreshInv
    <2>1. FileOf(w)' = FileOf(w) /\ run[w] # NoRun
        BY DEF FileOf
    <2>2. FileOf(w) \notin cleanup /\ FileOf(w) \in Files
        BY <1>2, <2>1 DEF FileInv, FreshInv
    <2>. QED
        BY <1>1, <2>1, <2>2
<1>5. CheckInv'
    <2>. SUFFICES ASSUME check # NoCheck
                  PROVE  /\ ~check.referenced => ~Referenced(check.file)'
                         /\ check.referenced =>
                              Referenced(check.file)' \/ check.file \in abandoned'
        BY DEF CheckInv
    <2>1. PICK f \in Files : f = check.file
        BY DEF TypeOK, Check
    <2>2. f \in cleanup
        BY <2>1 DEF FileInv, StoredInv
    <2>3. ~check.referenced => ~Referenced(f)'
        BY <2>1, <2>2 DEF FileInv, CheckInv, FreshInv
    <2>4. check.referenced => Referenced(f)' \/ f \in abandoned'
        BY <1>1, <2>1 DEF FileInv, CheckInv
    <2>5. Referenced(check.file)' <=> Referenced(f)'
        BY <2>1 DEF Referenced
    <2>. QED
        BY <2>1, <2>3, <2>4, <2>5
<1>6. NoOrphanFiles'
    <2>. SUFFICES ASSUME NEW f \in stored \ abandoned', f \notin cleanup', ~Referenced(f)'
                  PROVE  \E w \in Workers : run'[w] # NoRun /\ run'[w].saved
                                               /\ f = <<run'[w].job, run'[w].token>>
        BY DEF NoOrphanFiles
    <2>1. f \in Files /\ f \notin abandoned
        BY <1>1 DEF TypeOK
    <2>2. ~Referenced(f) /\ f \notin cleanup
        BY <1>1, <2>1
    <2>3. PICK w \in Workers : run[w] # NoRun /\ run[w].saved /\ f = FileOf(w)
        BY <2>1, <2>2 DEF FileInv, NoOrphanFiles, FileOf
    <2>4. run'[w] # NoRun
        BY <1>1, <2>1, <2>3
    <2>. QED
        BY <2>3, <2>4 DEF FileOf
<1>. QED
    BY <1>3, <1>4, <1>5, <1>6 DEF FileInv
-----------------------------------------------------------------------------
(* The administrator and the monitor.                                      *)

LEMMA UploadStep ==
    ASSUME MediaConstants, Inv, NEW j \in Jobs, NEW t \in Targets \cup {NoJob},
           NEW sent \in BOOLEAN, Upload(j, t, sent)
    PROVE  Inv'
<1>1. /\ job[j].state = "absent"
      /\ job' = [job EXCEPT ![j] = NewJob]
      /\ queue' = [queue EXCEPT ![j] = IF sent THEN {0} ELSE {}]
      /\ waitsFor' = [u \in Targets |-> IF u = t THEN j ELSE waitsFor[u]]
      /\ UNCHANGED <<published, run, stored, cleanup, sweep, check, tries, abandoned>>
    BY DEF Upload
<1>2. /\ NewJob \in Job /\ NewJob.state = "pending" /\ NewJob.attempt = 0 /\ NewJob.token = 0
      /\ NewJob.storageRetries = 0 /\ NewJob.cancelled = FALSE /\ NewJob.video = NoFile
    <2>1. 0 \in Attempts /\ 0 \in 0..StorageRetries
        BY DEF Attempts, MediaConstants
    <2>. QED
        BY <2>1 DEF NewJob, Job
<1>3. /\ job' \in [Jobs -> Job] /\ job'[j] = NewJob
      /\ \A k \in Jobs : k # j => job'[k] = job[k]
    BY <1>1, <1>2 DEF Inv, TypeOK
<1>4. /\ tries[j] = 0 /\ job[j].attempt = 0 /\ job[j].video = NoFile
      /\ ~job[j].cancelled
    BY <1>1 DEF Inv, RowInv, RowCoherent, InBudget
<1>5. TypeOK'
    <2>1. 0 \in 0..StorageRetries
        BY DEF MediaConstants
    <2>2. queue' \in [Jobs -> SUBSET (0..StorageRetries)]
        BY <1>1, <2>1 DEF Inv, TypeOK
    <2>3. waitsFor' \in [Targets -> Jobs \cup {NoJob}]
        BY <1>1 DEF Inv, TypeOK
    <2>. QED
        BY <1>1, <1>3, <2>2, <2>3 DEF Inv, TypeOK
<1>6. OnlyRow(j)
    BY <1>1, <1>2, <1>3, <1>4 DEF OnlyRow
<1>7. RowInv'
    <2>1. RowCoherent(j)'
        BY <1>2, <1>3 DEF RowCoherent
    <2>2. InBudget(j)'
        BY <1>1, <1>2, <1>3, <1>4 DEF InBudget, MediaConstants
    <2>3. \A u \in Targets : waitsFor'[u] \in {waitsFor[u], j, NoJob}
        BY <1>1
    <2>. QED
        BY <1>2, <1>3, <1>6, <2>1, <2>2, <2>3, RowChange DEF Inv, MediaConstants
<1>8. RunInv'
    <2>1. ASSUME NEW w \in Workers, run'[w] # NoRun, run[w].job = j
          PROVE  ~OnRow(w)'
        BY <1>1, <1>2, <1>3, <2>1 DEF OnRow, Current
    <2>2. SameRuns
        BY <1>1 DEF SameRuns
    <2>. QED
        BY <1>6, <2>1, <2>2, RunChange DEF Inv
<1>9. FileInv'
    <2>1. AttemptsGrow
        BY <1>2, <1>3, <1>4, RowParts DEF AttemptsGrow, Attempts, Inv
    <2>2. \A k \in Jobs : job'[k].video = job[k].video
        BY <1>2, <1>3, <1>4
    <2>. QED
        BY <1>1, <2>1, <2>2, FileFrame DEF Inv
<1>. QED
    BY <1>5, <1>7, <1>8, <1>9 DEF Inv

\* Steps that only end or reopen a row.
LEMMA RowStep ==
    ASSUME MediaConstants, Inv, NEW j \in Jobs, NEW row \in Job, job' = [job EXCEPT ![j] = row],
           row.attempt = job[j].attempt, row.video = job[j].video,
           row.state # "processing",
           OnlyRow(j) => RowCoherent(j)' /\ InBudget(j)',
           \A k \in Jobs : k # j => tries'[k] = tries[k],
           tries' \in [Jobs -> Nat], queue' \in [Jobs -> SUBSET (0..StorageRetries)],
           waitsFor' \in [Targets -> Jobs \cup {NoJob}],
           \A t \in Targets : waitsFor'[t] \in {waitsFor[t], j, NoJob},
           row.cancelled => \A t \in Targets : waitsFor'[t] # j,
           UNCHANGED <<published, run, stored, cleanup, sweep, check, abandoned>>
    PROVE  Inv'
<1>1. /\ job' \in [Jobs -> Job] /\ job'[j] = row
      /\ \A k \in Jobs : k # j => job'[k] = job[k]
    BY DEF Inv, TypeOK
<1>2. TypeOK'
    BY <1>1 DEF Inv, TypeOK
<1>3. \A k \in Jobs : job[k].attempt \in Nat
    BY RowParts DEF Inv, Attempts
<1>4. OnlyRow(j) /\ AttemptsGrow
    BY <1>1, <1>3 DEF OnlyRow, AttemptsGrow
<1>5. RowInv'
    BY <1>1, <1>4, RowChange DEF Inv, MediaConstants
<1>6. RunInv'
    <2>1. ASSUME NEW w \in Workers, run'[w] # NoRun, run[w].job = j
          PROVE  ~OnRow(w)'
        BY <1>1, <2>1 DEF OnRow, Current
    <2>2. SameRuns
        BY DEF SameRuns
    <2>. QED
        BY <1>4, <2>1, <2>2, RunChange DEF Inv
<1>7. FileInv'
    <2>1. \A k \in Jobs : job'[k].video = job[k].video
        BY <1>1
    <2>. QED
        BY <1>4, <2>1, FileFrame DEF Inv
<1>. QED
    BY <1>2, <1>5, <1>6, <1>7 DEF Inv

LEMMA CancelStep ==
    ASSUME MediaConstants, Inv, NEW j \in Jobs, Cancel(j)
    PROVE  Inv'
<1>. DEFINE row == [job[j] EXCEPT !.cancelled = TRUE, !.state = "failed", !.code = "cancelled",
                                  !.token = 0]
<1>1. job' = [job EXCEPT ![j] = row]
    BY DEF Cancel
<1>2. 0 \in Attempts /\ job[j] \in Job
    BY RowParts DEF Attempts, MediaConstants, Inv
<1>3. /\ row \in Job /\ row.cancelled = TRUE /\ row.state = "failed" /\ row.token = 0
      /\ row.attempt = job[j].attempt /\ row.video = job[j].video
      /\ row.storageRetries = job[j].storageRetries
    BY <1>2 DEF Job
<1>. HIDE DEF row
<1>4. job'[j] = row
    BY <1>1 DEF Inv, TypeOK
<1>5. /\ waitsFor' \in [Targets -> Jobs \cup {NoJob}]
      /\ \A t \in Targets : waitsFor'[t] \in {waitsFor[t], j, NoJob} /\ waitsFor'[t] # j
    BY DEF Cancel, Inv, TypeOK, MediaConstants
<1>6. RowCoherent(j)'
    BY <1>3, <1>4 DEF Inv, RowInv, RowCoherent
<1>7. InBudget(j)'
    BY <1>3, <1>4 DEF Inv, RowInv, InBudget, Cancel
<1>. QED
    BY <1>1, <1>3, <1>5, <1>6, <1>7, RowStep DEF Cancel, Inv, TypeOK

LEMMA StalledStep ==
    ASSUME MediaConstants, Inv, NEW j \in Jobs, MonitorStalled(j)
    PROVE  Inv'
<1>. DEFINE row == [job[j] EXCEPT !.state = "failed", !.code = "worker_interrupted", !.token = 0]
<1>1. job' = [job EXCEPT ![j] = row]
    BY DEF MonitorStalled
<1>2. 0 \in Attempts /\ job[j] \in Job /\ "worker_interrupted" \in Codes
    BY RowParts DEF Attempts, MediaConstants, Inv, Codes
<1>3. /\ row \in Job /\ row.cancelled = job[j].cancelled /\ row.state = "failed"
      /\ row.token = 0 /\ row.attempt = job[j].attempt /\ row.video = job[j].video
      /\ row.storageRetries = job[j].storageRetries
    BY <1>2 DEF Job
<1>. HIDE DEF row
<1>4. job'[j] = row
    BY <1>1 DEF Inv, TypeOK
<1>5. ~job[j].cancelled /\ job[j].state = "processing"
    BY DEF MonitorStalled
<1>6. RowCoherent(j)'
    BY <1>3, <1>4, <1>5 DEF Inv, RowInv, RowCoherent
<1>7. InBudget(j)'
    BY <1>3, <1>4 DEF Inv, RowInv, InBudget, MonitorStalled
<1>. QED
    BY <1>1, <1>3, <1>5, <1>6, <1>7, RowStep DEF MonitorStalled, Inv, TypeOK

LEMMA AdminRetryStep ==
    ASSUME MediaConstants, Inv, NEW j \in Jobs, NEW sent \in BOOLEAN, AdminRetry(j, sent)
    PROVE  Inv'
<1>. DEFINE row == [job[j] EXCEPT !.state = "pending", !.code = "", !.token = 0,
                                  !.storageRetries = 0]
<1>1. job' = [job EXCEPT ![j] = row]
    BY DEF AdminRetry
<1>2. 0 \in Attempts /\ job[j] \in Job /\ 0 \in 0..StorageRetries
    BY RowParts DEF Attempts, MediaConstants, Inv
<1>3. /\ row \in Job /\ row.cancelled = job[j].cancelled /\ row.state = "pending"
      /\ row.token = 0 /\ row.attempt = job[j].attempt /\ row.video = job[j].video
      /\ row.storageRetries = 0
    BY <1>2 DEF Job
<1>. HIDE DEF row
<1>4. job'[j] = row
    BY <1>1 DEF Inv, TypeOK
<1>5. ~job[j].cancelled /\ job[j].state = "failed"
    BY DEF AdminRetry, Retryable
<1>6. RowCoherent(j)'
    BY <1>3, <1>4, <1>5 DEF Inv, RowInv, RowCoherent
<1>7. tries' \in [Jobs -> Nat] /\ tries'[j] = 0 /\ \A k \in Jobs : k # j => tries'[k] = tries[k]
    BY DEF AdminRetry, Inv, TypeOK
<1>8. InBudget(j)'
    BY <1>3, <1>4, <1>7 DEF InBudget, AdminRetry, MediaConstants
<1>9. queue' \in [Jobs -> SUBSET (0..StorageRetries)]
    BY <1>2 DEF AdminRetry, Inv, TypeOK
<1>. QED
    BY <1>1, <1>3, <1>5, <1>6, <1>7, <1>8, <1>9, RowStep DEF AdminRetry, Inv, TypeOK

\* Rows and runs of steps that change no row.
LEMMA RowsFrame ==
    ASSUME RowInv, RunInv, NoJob \notin Jobs, UNCHANGED <<job, tries, run>>,
           \A t \in Targets : waitsFor'[t] \in {waitsFor[t], NoJob}
    PROVE  RowInv' /\ RunInv'
<1>1. RowInv'
    BY DEF RowInv, RowCoherent, InBudget
<1>2. RunInv'
    BY DEF RunInv, OnRow, Current
<1>. QED
    BY <1>1, <1>2

LEMMA MonitorStep ==
    ASSUME MediaConstants, Inv,
           \/ \E j \in Jobs : MonitorPending(j)
           \/ \E old \in SUBSET Jobs : SweepRead(old)
    PROVE  Inv'
<1>1. UNCHANGED <<job, waitsFor, published, run, stored, cleanup, check, tries, abandoned>>
    BY DEF MonitorPending, SweepRead
<1>2. queue' \in [Jobs -> SUBSET (0..StorageRetries)] /\ sweep' \subseteq Jobs
    <2>1. 0 \in 0..StorageRetries
        BY DEF MediaConstants
    <2>. QED
        BY <2>1 DEF MonitorPending, SweepRead, Inv, TypeOK
<1>3. TypeOK'
    BY <1>1, <1>2 DEF Inv, TypeOK
<1>4. RowInv' /\ RunInv'
    BY <1>1, RowsFrame DEF Inv, MediaConstants
<1>5. FileInv'
    BY <1>1, FileFrame, RowParts DEF Inv, AttemptsGrow, Attempts
<1>. QED
    BY <1>3, <1>4, <1>5 DEF Inv

\* A target shows another video, one that a row names already, or none.
LEMMA PublicationStep ==
    ASSUME MediaConstants, Inv, NEW t \in Targets, NEW video \in Files \cup {NoFile},
           video # NoFile => Referenced(video),
           published' = [published EXCEPT ![t] = video],
           waitsFor' = [waitsFor EXCEPT ![t] = NoJob],
           Schedule({published[t]} \ {video}),
           UNCHANGED <<job, queue, run, stored, sweep, check, tries>>
    PROVE  Inv'
<1>. DEFINE files == {published[t]} \ {video}
<1>1. files \in SUBSET (Files \cup {NoFile})
    BY DEF Inv, TypeOK
<1>2. /\ published' \in [Targets -> Files \cup {NoFile}]
      /\ waitsFor' \in [Targets -> Jobs \cup {NoJob}]
    BY DEF Inv, TypeOK
<1>3. cleanup' \subseteq Files /\ abandoned' \subseteq Files
    BY <1>1, Scheduled DEF Inv
<1>4. TypeOK'
    BY <1>2, <1>3 DEF Inv, TypeOK
<1>5. RowInv' /\ RunInv'
    BY RowsFrame DEF Inv, TypeOK, MediaConstants
<1>6. /\ published'[t] = video
      /\ \A u \in Targets : u # t => published'[u] = published[u]
    BY DEF Inv, TypeOK
<1>7. \A f \in Files : /\ Referenced(f)' => Referenced(f)
                       /\ Referenced(f) => Referenced(f)' \/ f \in files
    <2>. SUFFICES ASSUME NEW f \in Files
                  PROVE  /\ Referenced(f)' => Referenced(f)
                         /\ Referenced(f) => Referenced(f)' \/ f \in files
        OBVIOUS
    <2>1. f # NoFile
        BY NoFileApart
    <2>2. ASSUME Referenced(f)' PROVE Referenced(f)
        <3>1. CASE \E j \in Jobs : job'[j].video = f
            BY <3>1 DEF Referenced
        <3>2. CASE \E u \in Targets : published'[u] = f
            <4>1. PICK u \in Targets : published'[u] = f
                BY <3>2
            <4>2. CASE u = t
                BY <1>6, <2>1, <4>1, <4>2
            <4>3. CASE u # t
                BY <1>6, <4>1, <4>3 DEF Referenced
            <4>. QED
                BY <4>2, <4>3
        <3>. QED
            BY <2>2, <3>1, <3>2 DEF Referenced
    <2>3. ASSUME Referenced(f), f \notin files PROVE Referenced(f)'
        <3>1. CASE \E j \in Jobs : job[j].video = f
            BY <3>1 DEF Referenced
        <3>2. CASE \E u \in Targets : published[u] = f
            <4>1. PICK u \in Targets : published[u] = f
                BY <3>2
            <4>2. published'[u] = f
                BY <1>6, <2>3, <4>1
            <4>. QED
                BY <4>2 DEF Referenced
        <3>. QED
            BY <2>3, <3>1, <3>2 DEF Referenced
    <2>. QED
        BY <2>2, <2>3
<1>8. \A f \in Files : f \in files => Referenced(f)
    BY DEF Referenced
<1>9. FileInv'
    <2>1. AttemptsGrow
        BY RowParts DEF Inv, AttemptsGrow, Attempts
    <2>2. \A f \in Files : f \in files => f \in stored
        BY <1>8 DEF Inv, FileInv, StoredInv
    <2>3. ASSUME NEW w \in Workers, run'[w] # NoRun
          PROVE  FileOf(w) \notin files /\ ~Referenced(FileOf(w))'
        <3>1. PICK f \in Files : f = FileOf(w) /\ ~Referenced(f)
            BY <2>3, FileOfRun DEF Inv, FileInv, FreshInv
        <3>2. ~Referenced(f)' /\ f \notin files
            BY <1>7, <1>8, <3>1
        <3>3. Referenced(FileOf(w))' <=> Referenced(f)'
            BY <3>1 DEF Referenced, FileOf
        <3>. QED
            BY <3>1, <3>2, <3>3
    <2>. QED
        BY <1>1, <1>7, <2>1, <2>2, <2>3, FileChange DEF Inv
<1>. QED
    BY <1>4, <1>5, <1>9 DEF Inv

LEMMA PublishStep ==
    ASSUME MediaConstants, Inv, NEW t \in Targets, NEW j \in Jobs, PublishReady(t, j)
    PROVE  Inv'
<1>1. PICK video \in Files \cup {NoFile} : video = job[j].video
    BY RowParts DEF Inv
<1>2. Referenced(video)
    BY <1>1 DEF Referenced
<1>. QED
    BY <1>1, <1>2, PublicationStep DEF PublishReady

LEMMA UnpublishStep ==
    ASSUME MediaConstants, Inv, NEW t \in Targets, NEW video \in {NoFile, published[t]},
           Unpublish(t, video)
    PROVE  Inv'
<1>1. video \in Files \cup {NoFile} /\ (video # NoFile => Referenced(video))
    BY DEF Inv, TypeOK, Referenced
<1>. QED
    BY <1>1, PublicationStep DEF Unpublish

LEMMA ReleaseStep ==
    ASSUME MediaConstants, Inv, NEW j \in Jobs, SweepRelease(j)
    PROVE  Inv'
<1>1. /\ sweep' = sweep \ {j}
      /\ UNCHANGED <<waitsFor, published, queue, run, stored, check, tries>>
    BY DEF SweepRelease
<1>2. CASE UNCHANGED <<job, cleanup, abandoned>>
    <2>1. TypeOK'
        BY <1>1, <1>2 DEF Inv, TypeOK
    <2>2. RowInv' /\ RunInv'
        BY <1>1, <1>2, RowsFrame DEF Inv, MediaConstants
    <2>3. FileInv'
        BY <1>1, <1>2, FileFrame, RowParts DEF Inv, AttemptsGrow, Attempts
    <2>. QED
        BY <2>1, <2>2, <2>3 DEF Inv
<1>3. CASE /\ job' = [job EXCEPT ![j] = [@ EXCEPT !.source = FALSE, !.video = NoFile]]
           /\ Schedule({job[j].video})
    <2>. DEFINE row == [job[j] EXCEPT !.source = FALSE, !.video = NoFile]
                files == {job[j].video}
    <2>1. job[j] \in Job /\ files \in SUBSET (Files \cup {NoFile})
        BY RowParts DEF Inv
    <2>2. /\ row \in Job /\ row.cancelled = job[j].cancelled /\ row.state = job[j].state
          /\ row.token = job[j].token /\ row.attempt = job[j].attempt /\ row.video = NoFile
          /\ row.storageRetries = job[j].storageRetries
        BY <2>1 DEF Job
    <2>3. job' = [job EXCEPT ![j] = row]
        BY <1>3
    <2>. HIDE DEF row
    <2>4. /\ job' \in [Jobs -> Job] /\ job'[j] = row
          /\ \A k \in Jobs : k # j => job'[k] = job[k]
        BY <2>2, <2>3 DEF Inv, TypeOK
    <2>5. cleanup' \subseteq Files /\ abandoned' \subseteq Files
        BY <1>3, <2>1, Scheduled DEF Inv
    <2>6. TypeOK'
        BY <1>1, <2>4, <2>5 DEF Inv, TypeOK
    <2>7. OnlyRow(j) /\ AttemptsGrow
        BY <1>1, <2>2, <2>4, RowParts DEF Inv, OnlyRow, AttemptsGrow, Attempts
    <2>8. RowInv'
        <3>1. RowCoherent(j)'
            BY <2>2, <2>4 DEF Inv, RowInv, RowCoherent
        <3>2. InBudget(j)'
            BY <1>1, <2>2, <2>4 DEF Inv, RowInv, InBudget
        <3>3. job'[j].cancelled => \A t \in Targets : waitsFor'[t] # j
            BY <1>1, <2>2, <2>4 DEF Inv, RowInv
        <3>. QED
            BY <1>1, <2>7, <3>1, <3>2, <3>3, RowChange DEF Inv, MediaConstants
    <2>9. RunInv'
        <3>1. ASSUME NEW w \in Workers, run'[w] # NoRun, run[w].job = j, OnRow(w)'
              PROVE  OnRow(w) /\ job'[j].storageRetries = job[j].storageRetries
            BY <1>1, <2>2, <2>4, <3>1 DEF OnRow, Current
        <3>2. SameRuns
            BY <1>1 DEF SameRuns
        <3>. QED
            BY <2>7, <3>1, <3>2, RunChange DEF Inv
    <2>10. \A f \in Files : /\ Referenced(f)' => Referenced(f)
                            /\ Referenced(f) => Referenced(f)' \/ f \in files
        <3>. SUFFICES ASSUME NEW f \in Files
                      PROVE  /\ Referenced(f)' => Referenced(f)
                             /\ Referenced(f) => Referenced(f)' \/ f \in files
            OBVIOUS
        <3>1. f # NoFile
            BY NoFileApart
        <3>2. \A k \in Jobs : /\ job'[k].video = f => job[k].video = f
                              /\ job[k].video = f => job'[k].video = f \/ f \in files
            BY <2>2, <2>4, <3>1
        <3>. QED
            BY <1>1, <3>2 DEF Referenced
    <2>11. \A f \in Files : f \in files => Referenced(f)
        BY DEF Referenced
    <2>12. FileInv'
        <3>1. \A f \in Files : f \in files => f \in stored
            BY <2>11 DEF Inv, FileInv, StoredInv
        <3>2. ASSUME NEW w \in Workers, run'[w] # NoRun
              PROVE  FileOf(w) \notin files /\ ~Referenced(FileOf(w))'
            <4>1. PICK f \in Files : f = FileOf(w) /\ ~Referenced(f)
                BY <1>1, <3>2, FileOfRun DEF Inv, FileInv, FreshInv
            <4>2. ~Referenced(f)' /\ f \notin files
                BY <2>10, <2>11, <4>1
            <4>3. Referenced(FileOf(w))' <=> Referenced(f)'
                BY <1>1, <4>1 DEF Referenced, FileOf
            <4>. QED
                BY <4>1, <4>2, <4>3
        <3>. HIDE DEF files
        <3>3. Schedule(files)
            BY <1>3 DEF files
        <3>. QED
            BY <1>1, <2>1, <2>7, <2>10, <3>1, <3>2, <3>3, FileChange DEF Inv
    <2>. QED
        BY <2>6, <2>8, <2>9, <2>12 DEF Inv
<1>. QED
    BY <1>2, <1>3 DEF SweepRelease
-----------------------------------------------------------------------------
(* The worker.                                                             *)

LEMMA StartStep ==
    ASSUME MediaConstants, Inv, NEW w \in Workers, NEW j \in Jobs, Start(w, j)
    PROVE  Inv'
<1>1. PICK r \in queue[j] :
        /\ run[w] = NoRun
        /\ queue' = [queue EXCEPT ![j] = queue[j] \ {r}]
        /\ IF job[j].state = "pending" /\ ~job[j].cancelled
           THEN /\ job' = [job EXCEPT ![j] = [@ EXCEPT !.state = "processing",
                                 !.attempt = job[j].attempt + 1, !.token = job[j].attempt + 1]]
                /\ run' = [run EXCEPT ![w] =
                       [job |-> j, token |-> job[j].attempt + 1, retries |-> r, saved |-> FALSE,
                        source |-> job[j].source, storageRetries |-> job[j].storageRetries]]
                /\ tries' = [tries EXCEPT ![j] = tries[j] + 1]
           ELSE UNCHANGED <<job, run, tries>>
        /\ UNCHANGED <<waitsFor, published, stored, cleanup, sweep, check, abandoned>>
    BY DEF Start
<1>2. queue' \in [Jobs -> SUBSET (0..StorageRetries)] /\ r \in 0..StorageRetries
    BY <1>1 DEF Inv, TypeOK
<1>3. CASE UNCHANGED <<job, run, tries>>
    <2>1. TypeOK'
        BY <1>1, <1>2, <1>3 DEF Inv, TypeOK
    <2>2. RowInv' /\ RunInv'
        BY <1>1, <1>3, RowsFrame DEF Inv, MediaConstants
    <2>3. FileInv'
        BY <1>1, <1>3, FileFrame, RowParts DEF Inv, AttemptsGrow, Attempts
    <2>. QED
        BY <2>1, <2>2, <2>3 DEF Inv
<1>4. CASE job[j].state = "pending" /\ ~job[j].cancelled
    <2>. DEFINE token == job[j].attempt + 1
                row == [job[j] EXCEPT !.state = "processing", !.attempt = token, !.token = token]
                new == [job |-> j, token |-> token, retries |-> r, saved |-> FALSE,
                        source |-> job[j].source, storageRetries |-> job[j].storageRetries]
    <2>1. /\ job[j] \in Job /\ job[j].attempt \in Nat /\ job[j].source \in BOOLEAN
          /\ job[j].storageRetries \in 0..StorageRetries /\ tries[j] \in Nat
        BY RowParts DEF Inv, Attempts
    <2>2. /\ tries[j] <= job[j].storageRetries
          /\ job[j].attempt + StorageRetries < MaxAttempts + job[j].storageRetries
        BY <1>4 DEF Inv, RowInv, InBudget
    <2>3. token \in 1..MaxAttempts /\ token \in Attempts /\ token = job[j].attempt + 1
        BY <2>1, <2>2 DEF MediaConstants, Attempts
    <2>. HIDE DEF token
    <2>4. /\ row \in Job /\ row.cancelled = job[j].cancelled /\ row.state = "processing"
          /\ row.token = token /\ row.attempt = token /\ row.video = job[j].video
          /\ row.storageRetries = job[j].storageRetries
        BY <2>1, <2>3 DEF Job
    <2>5. /\ new \in Run /\ new.job = j /\ new.token = token /\ ~new.saved
          /\ new.storageRetries = job[j].storageRetries
        BY <1>2, <2>1, <2>3 DEF Run
    <2>6. /\ job' = [job EXCEPT ![j] = row] /\ run' = [run EXCEPT ![w] = new]
          /\ tries' = [tries EXCEPT ![j] = tries[j] + 1]
        BY <1>1, <1>4 DEF token
    <2>. HIDE DEF row, new
    <2>7. /\ job' \in [Jobs -> Job] /\ job'[j] = row
          /\ \A k \in Jobs : k # j => job'[k] = job[k]
          /\ run' \in [Workers -> Run \cup {NoRun}] /\ run'[w] = new
          /\ \A v \in Workers : v # w => run'[v] = run[v]
          /\ tries' \in [Jobs -> Nat] /\ tries'[j] = tries[j] + 1
          /\ \A k \in Jobs : k # j => tries'[k] = tries[k]
        BY <2>1, <2>4, <2>5, <2>6 DEF Inv, TypeOK
    <2>8. TypeOK'
        BY <1>1, <1>2, <2>7 DEF Inv, TypeOK
    <2>9. OnlyRow(j) /\ AttemptsGrow
        BY <2>1, <2>3, <2>4, <2>7, RowParts DEF Inv, OnlyRow, AttemptsGrow, Attempts
    <2>10. job[j].video = NoFile
        BY <1>4 DEF Inv, RowInv, RowCoherent
    <2>11. RowInv'
        <3>1. RowCoherent(j)'
            BY <1>4, <2>4, <2>7, <2>10 DEF RowCoherent
        <3>2. InBudget(j)'
            BY <2>1, <2>2, <2>3, <2>4, <2>7 DEF InBudget, MediaConstants
        <3>3. \A t \in Targets : waitsFor'[t] \in {waitsFor[t], j, NoJob}
            BY <1>1
        <3>4. ~job'[j].cancelled
            BY <1>4, <2>4, <2>7
        <3>. QED
            BY <2>9, <3>1, <3>2, <3>3, <3>4, RowChange DEF Inv, MediaConstants
    \* The new token is greater than any there was.
    <2>12. \A v \in Workers : v # w /\ run'[v] # NoRun =>
              /\ run[v] # NoRun /\ run[v].token \in 1..job[run[v].job].attempt
              /\ run[v].job \in Jobs /\ (run[v].job = j => run[v].token # token)
        <3>. SUFFICES ASSUME NEW v \in Workers, v # w, run[v] # NoRun
                      PROVE  /\ run[v].token \in 1..job[run[v].job].attempt
                             /\ run[v].job \in Jobs
                             /\ (run[v].job = j => run[v].token # token)
            BY <2>7
        <3>1. run[v].token \in 1..job[run[v].job].attempt /\ run[v].job \in Jobs
            BY RunParts DEF Inv, RunInv
        <3>2. run[v].job = j => run[v].token # token
            BY <2>1, <2>3, <3>1
        <3>. QED
            BY <3>1, <3>2
    <2>13. RunInv'
        <3>1. ASSUME NEW v \in Workers, run'[v] # NoRun
              PROVE  /\ run'[v].token \in 1..job'[run'[v].job].attempt
                     /\ OnRow(v)' => run'[v].storageRetries = job'[run'[v].job].storageRetries
            <4>1. CASE v = w
                BY <2>3, <2>4, <2>5, <2>7, <4>1
            <4>2. CASE v # w
                <5>1. PICK k \in Jobs : k = run[v].job
                    BY <2>12, <3>1, <4>2
                <5>2. run'[v] = run[v] /\ run[v] # NoRun /\ run[v].token \in 1..job[k].attempt
                    BY <2>7, <2>12, <3>1, <4>2, <5>1
                <5>3. CASE k = j
                    <6>1. run[v].token \in 1..job'[j].attempt
                        BY <2>1, <2>3, <2>4, <2>7, <5>2, <5>3
                    <6>2. ~OnRow(v)'
                        <7>1. run[v].token # token
                            BY <2>12, <3>1, <4>2, <5>1, <5>3
                        <7>2. run'[v].job = j /\ run'[v].token = run[v].token
                            BY <5>1, <5>2, <5>3
                        <7>3. job'[j].token = token
                            BY <2>4, <2>7
                        <7>. QED
                            BY <7>1, <7>2, <7>3 DEF OnRow, Current
                    <6>. QED
                        BY <5>1, <5>2, <5>3, <6>1, <6>2
                <5>4. CASE k # j
                    <6>1. job'[k] = job[k]
                        BY <2>7, <5>4
                    <6>2. OnRow(v)' <=> OnRow(v)
                        BY <5>1, <5>2, <6>1 DEF OnRow, Current
                    <6>3. OnRow(v) => run[v].storageRetries = job[k].storageRetries
                        BY <5>1, <5>2 DEF Inv, RunInv
                    <6>. QED
                        BY <5>1, <5>2, <6>1, <6>2, <6>3
                <5>. QED
                    BY <5>3, <5>4
            <4>. QED
                BY <4>1, <4>2
        <3>2. ASSUME NEW u \in Workers, NEW v \in Workers, run'[u] # NoRun, run'[v] # NoRun,
                     run'[u].job = run'[v].job, run'[u].token = run'[v].token
              PROVE  u = v
            <4>1. CASE u # w /\ v # w
                BY <2>7, <3>2, <4>1 DEF Inv, RunInv
            <4>2. CASE u = w /\ v # w
                BY <2>5, <2>7, <2>12, <3>2, <4>2
            <4>3. CASE u # w /\ v = w
                BY <2>5, <2>7, <2>12, <3>2, <4>3
            <4>. QED
                BY <4>1, <4>2, <4>3
        <3>. QED
            BY <3>1, <3>2 DEF RunInv
    <2>14. \A f : Referenced(f)' <=> Referenced(f)
        <3>1. \A k \in Jobs : job'[k].video = job[k].video
            BY <2>4, <2>7
        <3>. QED
            BY <1>1, <3>1 DEF Referenced
    <2>15. StoredInv'
        <3>1. \A v \in Workers : run'[v] # NoRun /\ run'[v].saved => FileOf(v)' \in stored'
            BY <1>1, <2>5, <2>7 DEF Inv, FileInv, StoredInv, FileOf
        <3>. QED
            BY <1>1, <2>9, <2>14, <3>1, StoredStaysOld DEF Inv, FileInv, StoredInv
    <2>16. FreshInv'
        <3>. SUFFICES ASSUME NEW v \in Workers, run'[v] # NoRun
                      PROVE  FileOf(v)' \notin cleanup' /\ ~Referenced(FileOf(v))'
            BY DEF FreshInv
        <3>1. CASE v # w
            <4>1. FileOf(v)' = FileOf(v) /\ run[v] # NoRun
                BY <2>7, <3>1 DEF FileOf
            <4>. QED
                BY <1>1, <2>14, <4>1 DEF Inv, FileInv, FreshInv
        <3>2. CASE v = w
            <4>. DEFINE f == <<j, token>>
            <4>1. FileOf(v)' = f
                BY <2>5, <2>7, <3>2 DEF FileOf
            <4>2. f \notin stored
                BY <2>1, <2>3 DEF Inv, FileInv, StoredInv
            <4>3. f \in Files
                BY <2>3 DEF Files
            <4>4. f \notin cleanup /\ ~Referenced(f)
                BY <4>2, <4>3 DEF Inv, FileInv, StoredInv
            <4>. HIDE DEF f
            <4>5. Referenced(FileOf(v))' <=> Referenced(f)
                BY <2>14, <4>1
            <4>. QED
                BY <1>1, <4>1, <4>4, <4>5
        <3>. QED
            BY <3>1, <3>2
    <2>17. CheckInv'
        BY <1>1, <2>14 DEF Inv, FileInv, CheckInv
    <2>18. NoOrphanFiles'
        <3>. SUFFICES ASSUME NEW f \in stored \ abandoned, f \notin cleanup, ~Referenced(f)
                      PROVE  \E v \in Workers : run'[v] # NoRun /\ run'[v].saved
                                                   /\ f = <<run'[v].job, run'[v].token>>
            BY <1>1, <2>14 DEF NoOrphanFiles
        <3>1. PICK v \in Workers : run[v] # NoRun /\ run[v].saved
                                      /\ f = <<run[v].job, run[v].token>>
            BY DEF Inv, FileInv, NoOrphanFiles
        <3>2. v # w
            BY <1>1, <3>1
        <3>. QED
            BY <2>7, <3>1, <3>2
    <2>. QED
        BY <2>8, <2>11, <2>13, <2>15, <2>16, <2>17, <2>18 DEF Inv, FileInv
<1>. QED
    BY <1>1, <1>3, <1>4

LEMMA PrepareStep ==
    ASSUME MediaConstants, Inv, NEW w \in Workers, Prepare(w)
    PROVE  Inv'
<1>. DEFINE new == [run[w] EXCEPT !.saved = TRUE]
<1>1. /\ run[w] # NoRun /\ ~run[w].saved
      /\ run' = [run EXCEPT ![w] = new]
      /\ stored' = stored \cup {FileOf(w)}
      /\ UNCHANGED <<job, waitsFor, published, queue, cleanup, sweep, check, tries, abandoned>>
    BY DEF Prepare, FileOf
<1>2. FileOf(w) \in Files /\ run[w] \in Run
    BY <1>1, FileOfRun, RunParts DEF Inv
<1>3. /\ new \in Run /\ new.job = run[w].job /\ new.token = run[w].token /\ new.saved
      /\ new.storageRetries = run[w].storageRetries
    BY <1>2 DEF Run
<1>. HIDE DEF new
<1>4. /\ run' \in [Workers -> Run \cup {NoRun}] /\ run'[w] = new
      /\ \A v \in Workers : v # w => run'[v] = run[v]
    BY <1>1, <1>3 DEF Inv, TypeOK
<1>5. TypeOK'
    BY <1>1, <1>2, <1>4 DEF Inv, TypeOK
<1>6. \A v \in Workers : run'[v] # NoRun =>
          /\ run[v] # NoRun /\ run'[v].job = run[v].job /\ run'[v].token = run[v].token
          /\ run'[v].storageRetries = run[v].storageRetries
    BY <1>1, <1>3, <1>4
<1>7. RowInv'
    BY <1>1 DEF Inv, RowInv, RowCoherent, InBudget
<1>8. RunInv'
    BY <1>1, <1>6 DEF Inv, RunInv, OnRow, Current
<1>9. /\ \A f : Referenced(f)' <=> Referenced(f)
      /\ \A v \in Workers : run'[v] # NoRun => FileOf(v)' = FileOf(v)
    BY <1>1, <1>6 DEF Referenced, FileOf
<1>10. StoredInv'
    <2>1. \A j \in Jobs, a \in 1..MaxAttempts : <<j, a>> \in stored' => a <= job'[j].attempt
        <3>. SUFFICES ASSUME NEW j \in Jobs, NEW a \in 1..MaxAttempts, <<j, a>> = FileOf(w)
                      PROVE  a <= job[j].attempt
            BY <1>1 DEF Inv, FileInv, StoredInv
        <3>1. run[w].job = j /\ run[w].token = a /\ a \in 1..job[run[w].job].attempt
            BY <1>1 DEF FileOf, Inv, RunInv
        <3>. QED
            BY <3>1, RowParts DEF Attempts, Inv
    <2>2. \A v \in Workers : run'[v] # NoRun /\ run'[v].saved => FileOf(v)' \in stored'
        <3>. SUFFICES ASSUME NEW v \in Workers, run'[v] # NoRun, run'[v].saved
                      PROVE  FileOf(v) \in stored'
            BY <1>9
        <3>1. CASE v = w
            BY <1>1, <3>1
        <3>2. CASE v # w
            BY <1>1, <1>4, <3>2 DEF Inv, FileInv, StoredInv
        <3>. QED
            BY <3>1, <3>2
    <2>. QED
        BY <1>1, <1>9, <2>1, <2>2 DEF Inv, FileInv, StoredInv
<1>11. FreshInv' /\ CheckInv'
    BY <1>1, <1>6, <1>9 DEF Inv, FileInv, FreshInv, CheckInv, FileOf, Referenced
<1>12. NoOrphanFiles'
    <2>. SUFFICES ASSUME NEW f \in stored' \ abandoned', ~Referenced(f)', f \notin cleanup'
                  PROVE  \E v \in Workers : run'[v] # NoRun /\ run'[v].saved
                                               /\ f = <<run'[v].job, run'[v].token>>
        BY DEF NoOrphanFiles
    <2>1. CASE f = FileOf(w)
        <3>1. run'[w] # NoRun /\ run'[w].saved /\ f = <<run'[w].job, run'[w].token>>
            BY <1>3, <1>4, <2>1 DEF FileOf, MediaConstants
        <3>. QED
            BY <3>1
    <2>2. CASE f \in stored
        <3>1. f \in stored \ abandoned /\ ~Referenced(f) /\ f \notin cleanup
            BY <1>1, <1>9, <2>2
        <3>2. PICK v \in Workers : run[v] # NoRun /\ run[v].saved
                                      /\ f = <<run[v].job, run[v].token>>
            BY <3>1 DEF Inv, FileInv, NoOrphanFiles
        <3>3. v # w
            BY <1>1, <3>2
        <3>. QED
            BY <1>4, <3>2, <3>3
    <2>. QED
        BY <1>1, <2>1, <2>2
<1>. QED
    BY <1>5, <1>7, <1>8, <1>10, <1>11, <1>12 DEF Inv, FileInv

LEMMA LoseWorkerStep ==
    ASSUME MediaConstants, Inv, NEW w \in Workers, LoseWorker(w)
    PROVE  Inv'
<1>1. /\ run[w] # NoRun
      /\ run' = [run EXCEPT ![w] = NoRun]
      /\ queue' = [queue EXCEPT ![run[w].job] = @ \cup {run[w].retries}]
      /\ abandoned' = IF run[w].saved THEN abandoned \cup {FileOf(w)} ELSE abandoned
      /\ UNCHANGED <<job, waitsFor, published, stored, cleanup, sweep, check, tries>>
    BY DEF LoseWorker, FileOf
<1>2. FileOf(w) \in Files /\ run[w].job \in Jobs /\ run[w].retries \in 0..StorageRetries
    BY <1>1, FileOfRun, RunParts DEF Inv
<1>3. /\ run' \in [Workers -> Run \cup {NoRun}] /\ run'[w] = NoRun
      /\ \A v \in Workers : v # w => run'[v] = run[v]
    BY <1>1 DEF Inv, TypeOK
<1>4. TypeOK'
    <2>1. queue' \in [Jobs -> SUBSET (0..StorageRetries)]
        BY <1>1, <1>2 DEF Inv, TypeOK
    <2>2. abandoned' \subseteq Files
        BY <1>1, <1>2 DEF Inv, TypeOK
    <2>. QED
        BY <1>1, <1>3, <2>1, <2>2 DEF Inv, TypeOK
<1>5. RowInv'
    BY <1>1 DEF Inv, RowInv, RowCoherent, InBudget
<1>6. RunInv'
    BY <1>1, <1>3 DEF Inv, RunInv, OnRow, Current
<1>7. \A f : Referenced(f)' <=> Referenced(f)
    BY <1>1 DEF Referenced
<1>8. StoredInv' /\ FreshInv' /\ CheckInv'
    BY <1>1, <1>3, <1>7 DEF Inv, FileInv, StoredInv, FreshInv, CheckInv, FileOf
<1>9. NoOrphanFiles'
    <2>. SUFFICES ASSUME NEW f \in stored \ abandoned', ~Referenced(f), f \notin cleanup
                  PROVE  \E v \in Workers : run'[v] # NoRun /\ run'[v].saved
                                               /\ f = <<run'[v].job, run'[v].token>>
        BY <1>1, <1>7 DEF NoOrphanFiles
    <2>1. f \in stored \ abandoned
        BY <1>1
    <2>2. PICK v \in Workers : run[v] # NoRun /\ run[v].saved
                                  /\ f = <<run[v].job, run[v].token>>
        BY <2>1 DEF Inv, FileInv, NoOrphanFiles
    <2>3. v # w
        BY <1>1, <2>2 DEF FileOf
    <2>. QED
        BY <1>3, <2>2, <2>3
<1>. QED
    BY <1>4, <1>5, <1>6, <1>8, <1>9 DEF Inv, FileInv

\* Ending an attempt.
LEMMA RunEnds ==
    ASSUME MediaConstants, TypeOK, RunInv, NEW w \in Workers, run[w] # NoRun,
           run' = [run EXCEPT ![w] = NoRun]
    PROVE  /\ run' \in [Workers -> Run \cup {NoRun}] /\ run'[w] = NoRun
           /\ \A v \in Workers : v # w => run'[v] = run[v]
           /\ SameRuns
           /\ \A v \in Workers : run'[v] # NoRun => FileOf(v) # FileOf(w)
           /\ UNCHANGED job => RunInv'
<1>1. /\ run' \in [Workers -> Run \cup {NoRun}] /\ run'[w] = NoRun
      /\ \A v \in Workers : v # w => run'[v] = run[v]
    BY DEF TypeOK
<1>2. SameRuns
    BY <1>1 DEF SameRuns
<1>3. \A v \in Workers : run'[v] # NoRun => FileOf(v) # FileOf(w)
    BY <1>1 DEF RunInv, FileOf
<1>4. ASSUME UNCHANGED job PROVE RunInv'
    BY <1>1, <1>4 DEF RunInv, OnRow, Current
<1>. QED
    BY <1>1, <1>2, <1>3, <1>4

LEMMA FinishStep ==
    ASSUME MediaConstants, Inv, NEW w \in Workers, Finish(w)
    PROVE  Inv'
<1>1. run[w] # NoRun /\ run[w].saved /\ run' = [run EXCEPT ![w] = NoRun]
    BY DEF Finish
<1>2. PICK j \in Jobs, file \in Files :
          j = run[w].job /\ file = FileOf(w) /\ file = <<j, run[w].token>>
    BY <1>1, FileOfRun DEF Inv, FileOf
<1>3. UNCHANGED <<queue, stored, sweep, check, tries>>
    BY DEF Finish
<1>4. /\ run' \in [Workers -> Run \cup {NoRun}] /\ run'[w] = NoRun
      /\ \A v \in Workers : v # w => run'[v] = run[v]
      /\ SameRuns
      /\ \A v \in Workers : run'[v] # NoRun => FileOf(v) # file
      /\ UNCHANGED job => RunInv'
    BY <1>1, <1>2, RunEnds DEF Inv
<1>5. CASE Schedule({file}) /\ UNCHANGED <<job, published, waitsFor>>
    <2>1. cleanup' \subseteq Files /\ abandoned' \subseteq Files
        BY <1>5, Scheduled DEF Inv
    <2>2. TypeOK'
        BY <1>3, <1>4, <1>5, <2>1 DEF Inv, TypeOK
    <2>3. RowInv'
        BY <1>3, <1>5 DEF Inv, RowInv, RowCoherent, InBudget
    <2>4. AttemptsGrow
        BY <1>5, RowParts DEF Inv, AttemptsGrow, Attempts
    <2>5. \A f : Referenced(f)' <=> Referenced(f)
        BY <1>5 DEF Referenced
    <2>6. file \in stored
        BY <1>1, <1>2 DEF Inv, FileInv, StoredInv
    <2>7. ASSUME NEW v \in Workers, run'[v] # NoRun
          PROVE  FileOf(v) \notin {file} /\ ~Referenced(FileOf(v))'
        <3>1. run[v] # NoRun /\ FileOf(v)' = FileOf(v) /\ FileOf(v) # file
            BY <1>4, <2>7 DEF FileOf
        <3>2. ~Referenced(FileOf(v))
            BY <3>1 DEF Inv, FileInv, FreshInv
        <3>. QED
            BY <1>5, <3>1, <3>2 DEF Referenced
    <2>8. FileInv'
        <3>1. \A v \in Workers : run[v] # NoRun /\ run[v].saved /\ run'[v] = NoRun =>
                 \A f \in Files : f = FileOf(v) => f \in {file} \/ Referenced(f)'
            BY <1>2, <1>4
        <3>. QED
            BY <1>3, <1>4, <1>5, <2>4, <2>5, <2>6, <2>7, <3>1, FileChange DEF Inv
    <2>. QED
        BY <1>4, <1>5, <2>2, <2>3, <2>8 DEF Inv
<1>6. CASE Current(j, run[w].token)
    <2>. DEFINE row == [job[j] EXCEPT !.state = "ready", !.video = file, !.code = "",
                                      !.storageRetries = 0]
                waiting == {t \in Targets : waitsFor[t] = j}
                files == {published[t] : t \in waiting}
    <2>1. /\ job' = [job EXCEPT ![j] = row]
          /\ published' = [t \in Targets |-> IF t \in waiting THEN file ELSE published[t]]
          /\ waitsFor' = [t \in Targets |-> IF t \in waiting THEN NoJob ELSE waitsFor[t]]
          /\ Schedule(files)
        BY <1>2, <1>6 DEF Finish
    <2>2. job[j] \in Job /\ 0 \in 0..StorageRetries /\ job[j].attempt \in Nat
        BY RowParts DEF Inv, MediaConstants, Attempts
    <2>3. /\ row \in Job /\ row.cancelled = job[j].cancelled /\ row.state = "ready"
          /\ row.token = job[j].token /\ row.attempt = job[j].attempt /\ row.video = file
          /\ row.storageRetries = 0
        BY <1>2, <2>2 DEF Job
    <2>. HIDE DEF row
    <2>4. /\ job' \in [Jobs -> Job] /\ job'[j] = row
          /\ \A k \in Jobs : k # j => job'[k] = job[k]
        BY <2>1, <2>3 DEF Inv, TypeOK
    <2>5. files \in SUBSET (Files \cup {NoFile})
        BY DEF Inv, TypeOK
    <2>6. /\ ~job[j].cancelled /\ job[j].state = "processing" /\ job[j].token = run[w].token
          /\ job[j].token = job[j].attempt /\ job[j].video = NoFile
        BY <1>6 DEF Current, Inv, RowInv, RowCoherent
    <2>7. file = <<j, job[j].attempt>>
        BY <1>2, <2>6
    <2>8. TypeOK'
        <3>1. cleanup' \subseteq Files /\ abandoned' \subseteq Files
            BY <2>1, <2>5, Scheduled DEF Inv
        <3>2. /\ published' \in [Targets -> Files \cup {NoFile}]
              /\ waitsFor' \in [Targets -> Jobs \cup {NoJob}]
            BY <2>1 DEF Inv, TypeOK
        <3>. QED
            BY <1>3, <1>4, <2>4, <3>1, <3>2 DEF Inv, TypeOK
    <2>9. OnlyRow(j) /\ AttemptsGrow
        BY <1>3, <2>2, <2>3, <2>4, RowParts DEF Inv, OnlyRow, AttemptsGrow, Attempts
    <2>10. RowInv'
        <3>1. RowCoherent(j)'
            BY <2>3, <2>4, <2>6, <2>7 DEF RowCoherent
        <3>2. InBudget(j)'
            BY <1>3, <2>3, <2>4 DEF Inv, RowInv, InBudget
        <3>3. \A t \in Targets : waitsFor'[t] \in {waitsFor[t], j, NoJob}
            BY <2>1
        <3>4. ~job'[j].cancelled
            BY <2>3, <2>4, <2>6
        <3>. QED
            BY <2>9, <3>1, <3>2, <3>3, <3>4, RowChange DEF Inv, MediaConstants
    <2>11. RunInv'
        <3>1. ASSUME NEW v \in Workers, run'[v] # NoRun, run[v].job = j
              PROVE  ~OnRow(v)'
            BY <1>4, <2>3, <2>4, <3>1 DEF OnRow, Current
        <3>. QED
            BY <1>4, <2>9, <3>1, RunChange DEF Inv
    <2>12. \A f \in Files : Referenced(f)' => Referenced(f) \/ f = file
        <3>. SUFFICES ASSUME NEW f \in Files, f # file, Referenced(f)'
                      PROVE  Referenced(f)
            OBVIOUS
        <3>1. ASSUME NEW k \in Jobs, job'[k].video = f PROVE job[k].video = f
            BY <2>3, <2>4, <3>1
        <3>2. ASSUME NEW t \in Targets, published'[t] = f PROVE published[t] = f
            BY <2>1, <3>2
        <3>. QED
            BY <3>1, <3>2 DEF Referenced
    <2>13. \A f \in Files : Referenced(f) => Referenced(f)' \/ f \in files
        <3>. SUFFICES ASSUME NEW f \in Files, f \notin files, Referenced(f)
                      PROVE  Referenced(f)'
            OBVIOUS
        <3>1. f # NoFile
            BY NoFileApart
        <3>2. ASSUME NEW k \in Jobs, job[k].video = f PROVE job'[k].video = f
            BY <2>4, <2>6, <3>1, <3>2
        <3>3. ASSUME NEW t \in Targets, published[t] = f PROVE published'[t] = f
            BY <2>1, <3>3
        <3>. QED
            BY <3>2, <3>3 DEF Referenced
    <2>14. \A f \in Files : f \in files => Referenced(f)
        BY DEF Referenced
    <2>15. Referenced(file)'
        BY <2>3, <2>4 DEF Referenced
    <2>. HIDE DEF files
    <2>16. FileInv'
        <3>1. \A f \in Files : f \in files => f \in stored
            BY <2>14 DEF Inv, FileInv, StoredInv
        <3>2. ASSUME NEW v \in Workers, run'[v] # NoRun
              PROVE  FileOf(v) \notin files /\ ~Referenced(FileOf(v))'
            <4>1. run[v] # NoRun /\ FileOf(v)' = FileOf(v) /\ FileOf(v) # file
                BY <1>4, <3>2 DEF FileOf
            <4>2. PICK f \in Files : f = FileOf(v) /\ ~Referenced(f) /\ f # file
                BY <4>1, FileOfRun DEF Inv, FileInv, FreshInv
            <4>3. f \notin files /\ ~Referenced(f)'
                BY <2>12, <2>14, <4>2
            <4>4. Referenced(FileOf(v))' <=> Referenced(f)'
                BY <4>1, <4>2 DEF Referenced
            <4>. QED
                BY <4>2, <4>3, <4>4
        <3>3. \A f \in Files : Referenced(f)' =>
                 \/ Referenced(f)
                 \/ \E v \in Workers : run[v] # NoRun /\ run[v].saved /\ f = FileOf(v)
            BY <1>1, <1>2, <2>12
        <3>4. \A v \in Workers : run[v] # NoRun /\ run[v].saved /\ run'[v] = NoRun =>
                 \A f \in Files : f = FileOf(v) => f \in files \/ Referenced(f)'
            BY <1>2, <1>4, <2>15
        <3>. QED
            BY <1>3, <1>4, <2>1, <2>5, <2>9, <2>13, <3>1, <3>2, <3>3, <3>4, FileChange DEF Inv
    <2>. QED
        BY <2>8, <2>10, <2>11, <2>16 DEF Inv
<1>. QED
    BY <1>2, <1>5, <1>6 DEF Finish

LEMMA FailStep ==
    ASSUME MediaConstants, Inv, NEW w \in Workers, NEW code \in Codes, Fail(w, code)
    PROVE  Inv'
<1>. DEFINE again == code = "storage_unavailable" /\ RetriesLeft(run[w])
            files == IF run[w].saved THEN {FileOf(w)} ELSE {}
<1>1. run[w] # NoRun /\ run' = [run EXCEPT ![w] = NoRun]
    BY DEF Fail
<1>2. PICK j \in Jobs, file \in Files :
          j = run[w].job /\ file = FileOf(w) /\ file = <<j, run[w].token>>
    BY <1>1, FileOfRun DEF Inv, FileOf
<1>3. /\ UNCHANGED <<waitsFor, published, stored, sweep, check, tries>>
      /\ Schedule(files)
    BY DEF Fail, FileOf
<1>4. /\ run' \in [Workers -> Run \cup {NoRun}] /\ run'[w] = NoRun
      /\ \A v \in Workers : v # w => run'[v] = run[v]
      /\ SameRuns
      /\ \A v \in Workers : run'[v] # NoRun => FileOf(v) # file
      /\ UNCHANGED job => RunInv'
    BY <1>1, <1>2, RunEnds DEF Inv
<1>5. /\ files \in SUBSET (Files \cup {NoFile}) /\ (\A f \in files : f = file)
      /\ run[w].saved => file \in files
    BY <1>2
<1>6. \A f \in files : f \in stored
    BY <1>1, <1>2 DEF Inv, FileInv, StoredInv
<1>7. /\ run[w].retries \in 0..StorageRetries /\ run[w].storageRetries \in 0..StorageRetries
    BY <1>1, RunParts DEF Inv
<1>8. Current(j, run[w].token) => run[w].storageRetries = job[j].storageRetries
    BY <1>1, <1>2 DEF Inv, RunInv, OnRow
<1>9. IF Current(j, run[w].token)
      THEN /\ job' = [job EXCEPT ![j] =
                  [@ EXCEPT !.state = IF again THEN "pending" ELSE "failed",
                            !.code = code,
                            !.storageRetries = run[w].storageRetries + (IF again THEN 1 ELSE 0)]]
           /\ queue' = [queue EXCEPT ![j] = IF again THEN @ \cup {run[w].retries + 1} ELSE @]
      ELSE UNCHANGED <<job, queue>>
    BY <1>2 DEF Fail
<1>10. again => /\ run[w].retries + 1 \in 0..StorageRetries
                /\ run[w].storageRetries + 1 \in 0..StorageRetries
    BY <1>7 DEF RetriesLeft, MediaConstants
<1>11. again \in BOOLEAN
    OBVIOUS
<1>. HIDE DEF again, files
\* Whatever becomes of the row, the files are let go as long as it names the same one.
<1>12. ASSUME AttemptsGrow, \A k \in Jobs : job'[k].video = job[k].video
       PROVE  FileInv'
    <2>1. \A f : Referenced(f)' <=> Referenced(f)
        BY <1>3, <1>12 DEF Referenced
    <2>2. ASSUME NEW v \in Workers, run'[v] # NoRun
          PROVE  FileOf(v) \notin files /\ ~Referenced(FileOf(v))'
        <3>1. run[v] # NoRun /\ FileOf(v)' = FileOf(v) /\ FileOf(v) # file
            BY <1>4, <2>2 DEF FileOf
        <3>2. PICK f \in Files : f = FileOf(v) /\ ~Referenced(f)
            BY <3>1, FileOfRun DEF Inv, FileInv, FreshInv
        <3>3. Referenced(FileOf(v))' <=> Referenced(f)'
            BY <3>1, <3>2 DEF Referenced
        <3>. QED
            BY <1>5, <2>1, <3>1, <3>2, <3>3
    <2>3. \A v \in Workers : run[v] # NoRun /\ run[v].saved /\ run'[v] = NoRun =>
             \A f \in Files : f = FileOf(v) => f \in files \/ Referenced(f)'
        BY <1>2, <1>4, <1>5
    <2>4. \A v \in Workers : run'[v] # NoRun => run'[v] = run[v]
        BY <1>4
    <2>. QED
        BY <1>3, <1>5, <1>6, <1>12, <2>1, <2>2, <2>3, <2>4, FileChange DEF Inv
<1>13. cleanup' \subseteq Files /\ abandoned' \subseteq Files
    BY <1>3, <1>5, Scheduled DEF Inv
<1>14. CASE ~Current(j, run[w].token)
    <2>1. UNCHANGED <<job, queue>>
        BY <1>9, <1>14
    <2>2. TypeOK'
        BY <1>3, <1>4, <1>13, <2>1 DEF Inv, TypeOK
    <2>3. RowInv'
        BY <1>3, <2>1 DEF Inv, RowInv, RowCoherent, InBudget
    <2>4. AttemptsGrow
        BY <2>1, RowParts DEF Inv, AttemptsGrow, Attempts
    <2>. QED
        BY <1>4, <1>12, <2>1, <2>2, <2>3, <2>4 DEF Inv
<1>15. CASE Current(j, run[w].token)
    <2>. DEFINE state == IF again THEN "pending" ELSE "failed"
                spent == job[j].storageRetries + (IF again THEN 1 ELSE 0)
                row == [job[j] EXCEPT !.state = state, !.code = code, !.storageRetries = spent]
    <2>1. job' = [job EXCEPT ![j] = row]
        BY <1>8, <1>9, <1>15
    <2>2. queue' = [queue EXCEPT ![j] = IF again THEN @ \cup {run[w].retries + 1} ELSE @]
        BY <1>9, <1>15
    <2>3. /\ job[j] \in Job /\ job[j].attempt \in Attempts /\ job[j].attempt \in Nat
          /\ job[j].storageRetries \in 0..StorageRetries /\ tries[j] \in Nat
        BY RowParts DEF Inv, Attempts
    <2>4. spent \in 0..StorageRetries
        BY <1>8, <1>10, <1>15, <2>3
    <2>5. /\ state \in {"pending", "failed"} /\ (state = "pending" => again)
          /\ again => spent = job[j].storageRetries + 1
        OBVIOUS
    <2>. HIDE DEF state, spent
    <2>6. /\ row \in Job /\ row.cancelled = job[j].cancelled /\ row.state = state
          /\ row.token = job[j].token /\ row.attempt = job[j].attempt
          /\ row.video = job[j].video /\ row.storageRetries = spent
        BY <2>3, <2>4, <2>5 DEF Job, Codes
    <2>. HIDE DEF row
    <2>7. /\ job' \in [Jobs -> Job] /\ job'[j] = row
          /\ \A k \in Jobs : k # j => job'[k] = job[k]
        BY <2>1, <2>6 DEF Inv, TypeOK
    <2>8. queue' \in [Jobs -> SUBSET (0..StorageRetries)]
        <3>1. queue[j] \in SUBSET (0..StorageRetries)
            BY DEF Inv, TypeOK
        <3>2. (IF again THEN queue[j] \cup {run[w].retries + 1} ELSE queue[j])
                 \in SUBSET (0..StorageRetries)
            BY <1>10, <3>1
        <3>. QED
            BY <2>2, <3>2 DEF Inv, TypeOK
    <2>9. TypeOK'
        BY <1>3, <1>4, <1>13, <2>7, <2>8 DEF Inv, TypeOK
    <2>10. /\ ~job[j].cancelled /\ job[j].state = "processing"
           /\ job[j].token = job[j].attempt /\ job[j].video = NoFile
           /\ job[j].token = run[w].token
        BY <1>15 DEF Current, Inv, RowInv, RowCoherent
    <2>11. OnlyRow(j) /\ AttemptsGrow
        BY <1>3, <2>3, <2>6, <2>7, RowParts DEF Inv, OnlyRow, AttemptsGrow, Attempts
    <2>12. RowInv'
        <3>1. RowCoherent(j)'
            BY <2>5, <2>6, <2>7, <2>10 DEF RowCoherent
        <3>2. InBudget(j)'
            <4>1. /\ tries[j] <= job[j].storageRetries + 1
                  /\ job[j].attempt + StorageRetries <= MaxAttempts + job[j].storageRetries
                  /\ tries[j] <= StorageRetries + 1
                BY <2>10 DEF Inv, RowInv, InBudget
            <4>2. again => /\ tries[j] <= spent
                           /\ job[j].attempt + StorageRetries < MaxAttempts + spent
                BY <2>3, <2>5, <4>1 DEF MediaConstants
            <4>. QED
                BY <1>3, <2>5, <2>6, <2>7, <4>1, <4>2 DEF InBudget
        <3>3. \A t \in Targets : waitsFor'[t] \in {waitsFor[t], j, NoJob}
            BY <1>3
        <3>4. ~job'[j].cancelled
            BY <2>6, <2>7, <2>10
        <3>. QED
            BY <2>11, <3>1, <3>2, <3>3, <3>4, RowChange DEF Inv, MediaConstants
    <2>13. RunInv'
        <3>1. ASSUME NEW v \in Workers, run'[v] # NoRun, run[v].job = j
              PROVE  ~OnRow(v)'
            BY <1>4, <2>5, <2>6, <2>7, <3>1 DEF OnRow, Current
        <3>. QED
            BY <1>4, <2>11, <3>1, RunChange DEF Inv
    <2>14. \A k \in Jobs : job'[k].video = job[k].video
        BY <2>6, <2>7
    <2>. QED
        BY <1>12, <2>9, <2>11, <2>12, <2>13, <2>14 DEF Inv
<1>. QED
    BY <1>14, <1>15
-----------------------------------------------------------------------------
(* cleanup_due_media.                                                      *)

LEMMA CleanupCheckStep ==
    ASSUME MediaConstants, Inv, NEW f \in Files, CleanupCheck(f)
    PROVE  Inv'
<1>. DEFINE row == [file |-> f, referenced |-> Referenced(f)]
<1>1. /\ f \in cleanup /\ check' = row
      /\ UNCHANGED <<job, waitsFor, published, queue, run, stored, cleanup, sweep, tries,
                     abandoned>>
    BY DEF CleanupCheck
<1>2. Referenced(f) \in BOOLEAN
    BY DEF Referenced
<1>3. row \in Check /\ row.file = f /\ (row.referenced <=> Referenced(f))
    BY <1>2 DEF Check
<1>. HIDE DEF row
<1>4. TypeOK'
    BY <1>1, <1>3 DEF Inv, TypeOK
<1>5. RowInv' /\ RunInv'
    BY <1>1 DEF Inv, RowInv, RowCoherent, InBudget, RunInv, OnRow, Current
<1>6. \A g : Referenced(g)' <=> Referenced(g)
    BY <1>1 DEF Referenced
<1>7. StoredInv' /\ FreshInv' /\ NoOrphanFiles'
    BY <1>1, <1>3, <1>6 DEF Inv, FileInv, StoredInv, FreshInv, NoOrphanFiles, FileOf
<1>8. CheckInv'
    <2>1. (Referenced(check.file))' <=> Referenced(f)
        BY <1>1, <1>3 DEF Referenced
    <2>. QED
        BY <1>1, <1>3, <2>1 DEF CheckInv
<1>. QED
    BY <1>4, <1>5, <1>7, <1>8 DEF Inv, FileInv

LEMMA CleanupDeleteStep ==
    ASSUME MediaConstants, Inv, NEW works \in BOOLEAN, CleanupDelete(works)
    PROVE  Inv'
<1>1. /\ check # NoCheck /\ check' = NoCheck
      /\ cleanup' = IF works THEN cleanup \ {check.file} ELSE cleanup
      /\ stored' = IF works /\ ~check.referenced THEN stored \ {check.file} ELSE stored
      /\ UNCHANGED <<job, waitsFor, published, queue, run, sweep, tries, abandoned>>
    BY DEF CleanupDelete
<1>2. PICK gone \in Files : gone = check.file
    BY <1>1 DEF Inv, TypeOK, Check
<1>3. /\ gone \in cleanup /\ (~check.referenced => ~Referenced(gone))
      /\ check.referenced => Referenced(gone) \/ gone \in abandoned
    BY <1>1, <1>2 DEF Inv, FileInv, StoredInv, CheckInv
<1>4. /\ cleanup' \subseteq cleanup /\ stored' \subseteq stored
      /\ \A f : f # gone => (f \in cleanup' <=> f \in cleanup) /\ (f \in stored' <=> f \in stored)
      /\ gone \in cleanup' => stored' = stored
      /\ gone \notin stored' => gone \notin stored \/ ~check.referenced
    BY <1>1, <1>2, <1>3
<1>5. TypeOK'
    BY <1>1, <1>4 DEF Inv, TypeOK
<1>6. RowInv' /\ RunInv'
    BY <1>1 DEF Inv, RowInv, RowCoherent, InBudget, RunInv, OnRow, Current
<1>7. \A f : Referenced(f)' <=> Referenced(f)
    BY <1>1 DEF Referenced
<1>8. \A w \in Workers : run[w] # NoRun => FileOf(w) # gone
    BY <1>3 DEF Inv, FileInv, FreshInv
<1>9. StoredInv'
    <2>1. \A j \in Jobs, a \in 1..MaxAttempts : <<j, a>> \in stored' => a <= job'[j].attempt
        BY <1>1, <1>4 DEF Inv, FileInv, StoredInv
    <2>2. cleanup' \subseteq stored'
        BY <1>1, <1>2, <1>4 DEF Inv, FileInv, StoredInv
    <2>3. ASSUME NEW f \in Files, Referenced(f)
          PROVE  f \in stored'
        <3>1. f \in stored
            BY <2>3 DEF Inv, FileInv, StoredInv
        <3>2. CASE f = gone
            BY <1>3, <1>4, <2>3, <3>1, <3>2
        <3>. QED
            BY <1>4, <3>1, <3>2
    <2>4. \A w \in Workers : run'[w] # NoRun /\ run'[w].saved => FileOf(w)' \in stored'
        BY <1>1, <1>4, <1>8 DEF Inv, FileInv, StoredInv, FileOf
    <2>. QED
        BY <1>1, <1>7, <2>1, <2>2, <2>3, <2>4 DEF StoredInv
<1>10. FreshInv' /\ CheckInv'
    BY <1>1, <1>4, <1>7 DEF Inv, FileInv, FreshInv, CheckInv, FileOf, Referenced
<1>11. NoOrphanFiles'
    <2>. SUFFICES ASSUME NEW f \in stored' \ abandoned, ~Referenced(f), f \notin cleanup'
                  PROVE  \E w \in Workers : run[w] # NoRun /\ run[w].saved
                                               /\ f = <<run[w].job, run[w].token>>
        BY <1>1, <1>7 DEF NoOrphanFiles
    <2>1. f \in stored
        BY <1>4
    <2>2. f # gone
        BY <1>1, <1>2, <1>3, <1>4
    <2>. QED
        BY <1>4, <2>1, <2>2 DEF Inv, FileInv, NoOrphanFiles
<1>. QED
    BY <1>5, <1>6, <1>9, <1>10, <1>11 DEF Inv, FileInv
-----------------------------------------------------------------------------
(* The theorems.                                                           *)

LEMMA InitInv ==
    ASSUME MediaConstants, Init
    PROVE  Inv
<1>. DEFINE row == [NewJob EXCEPT !.state = "absent"]
<1>1. /\ 0 \in Attempts /\ 0 \in 0..StorageRetries /\ StorageRetries \in Nat /\ MaxAttempts \in Nat
      /\ NoFile \notin Files
    BY NoFileApart DEF MediaConstants, Attempts
<1>2. /\ row \in Job /\ row.state = "absent" /\ row.attempt = 0 /\ row.token = 0
      /\ ~row.cancelled /\ row.video = NoFile /\ row.storageRetries = 0
    BY <1>1 DEF NewJob, Job
<1>3. job = [j \in Jobs |-> row]
    BY DEF Init
<1>. HIDE DEF row
<1>4. TypeOK
    BY <1>1, <1>2, <1>3 DEF Init, TypeOK
<1>5. RowInv
    BY <1>1, <1>2, <1>3 DEF Init, RowInv, RowCoherent, InBudget
<1>6. RunInv
    BY DEF Init, RunInv
<1>7. \A f \in Files : ~Referenced(f)
    BY <1>1, <1>2, <1>3 DEF Init, Referenced
<1>8. FileInv
    BY <1>7 DEF Init, FileInv, StoredInv, FreshInv, CheckInv, NoOrphanFiles
<1>. QED
    BY <1>4, <1>5, <1>6, <1>8 DEF Inv

LEMMA StepInv ==
    ASSUME MediaConstants, Inv, [Next]_vars
    PROVE  Inv'
<1>1. CASE AdminNext
    <2>1. ASSUME NEW j \in Jobs, NEW t \in Targets \cup {NoJob}, NEW sent \in BOOLEAN,
                 Upload(j, t, sent)
          PROVE  Inv'
        BY <2>1, UploadStep
    <2>2. ASSUME NEW j \in Jobs, NEW sent \in BOOLEAN, AdminRetry(j, sent)
          PROVE  Inv'
        BY <2>2, AdminRetryStep
    <2>3. ASSUME NEW j \in Jobs, NEW t \in Targets, PublishReady(t, j)
          PROVE  Inv'
        BY <2>3, PublishStep
    <2>4. ASSUME NEW t \in Targets, NEW video \in {NoFile, published[t]}, Unpublish(t, video)
          PROVE  Inv'
        BY <2>4, UnpublishStep
    <2>5. ASSUME NEW j \in Jobs, Cancel(j)
          PROVE  Inv'
        BY <2>5, CancelStep
    <2>. QED
        BY <1>1, <2>1, <2>2, <2>3, <2>4, <2>5 DEF AdminNext
<1>2. CASE PeriodicNext
    <2>1. ASSUME NEW j \in Jobs, MonitorStalled(j)
          PROVE  Inv'
        BY <2>1, StalledStep
    <2>2. ASSUME NEW j \in Jobs, MonitorPending(j)
          PROVE  Inv'
        BY <2>2, MonitorStep
    <2>3. ASSUME NEW j \in Jobs, SweepRelease(j)
          PROVE  Inv'
        BY <2>3, ReleaseStep
    <2>4. ASSUME NEW old \in SUBSET Jobs, SweepRead(old)
          PROVE  Inv'
        BY <2>4, MonitorStep
    <2>5. ASSUME NEW f \in Files, CleanupCheck(f)
          PROVE  Inv'
        BY <2>5, CleanupCheckStep
    <2>6. ASSUME NEW works \in BOOLEAN, CleanupDelete(works)
          PROVE  Inv'
        BY <2>6, CleanupDeleteStep
    <2>. QED
        BY <1>2, <2>1, <2>2, <2>3, <2>4, <2>5, <2>6 DEF PeriodicNext
<1>3. ASSUME NEW w \in Workers, WorkerNext(w)
      PROVE  Inv'
    BY <1>3, PrepareStep, FinishStep, FailStep DEF WorkerNext
<1>4. ASSUME NEW w \in Workers, LoseWorker(w)
      PROVE  Inv'
    BY <1>4, LoseWorkerStep
<1>5. ASSUME NEW w \in Workers, NEW j \in Jobs, Start(w, j)
      PROVE  Inv'
    BY <1>5, StartStep
<1>6. CASE UNCHANGED vars
    <2>1. RowInv' /\ RunInv' /\ TypeOK'
        BY <1>6 DEF vars, Inv, TypeOK, RowInv, RowCoherent, InBudget, RunInv, OnRow, Current
    <2>2. FileInv'
        BY <1>6 DEF vars, Inv, FileInv, StoredInv, FreshInv, CheckInv, NoOrphanFiles, FileOf,
                    Referenced
    <2>. QED
        BY <2>1, <2>2 DEF Inv
<1>. QED
    BY <1>1, <1>2, <1>3, <1>4, <1>5, <1>6 DEF Next

LEMMA Invariance ==
    ASSUME MediaConstants
    PROVE  Spec => []Inv
BY InitInv, StepInv, MediaConstants, PTL DEF Spec

\* Every variable keeps its type.
THEOREM TypeCorrect == Spec => []TypeOK
<1>1. Inv => TypeOK
    BY DEF Inv
<1>. QED
    BY <1>1, Invariance, MediaConstants, PTL

\* A ready job shows the result of its latest attempt: process_media_job writes the row
\* only under its own token, and whatever ends an attempt takes the token away.
THEOREM LatestAttemptWins == Spec => []ReadyIsLatest
<1>1. Inv => ReadyIsLatest
    BY DEF Inv, RowInv, RowCoherent, ReadyIsLatest
<1>. QED
    BY <1>1, Invariance, MediaConstants, PTL

\* What a target shows is in the storage: schedule_storage_cleanup and cleanup_due_media
\* never take a file that is published or can still be.
THEOREM PublishedFilesExist == Spec => []PublishedExists
<1>1. ASSUME Inv, NEW t \in Targets, published[t] # NoFile
      PROVE  published[t] \in stored
    <2>1. published[t] \in Files /\ Referenced(published[t])
        BY <1>1 DEF Inv, TypeOK, Referenced
    <2>. QED
        BY <2>1, <1>1 DEF Inv, FileInv, StoredInv
<1>2. Inv => PublishedExists
    BY <1>1 DEF PublishedExists
<1>. QED
    BY <1>2, Invariance, MediaConstants, PTL

\* One request of the administrator costs at most StorageRetries + 1 attempts: the row
\* keeps the budget that the messages of monitor_media_jobs start anew.
THEOREM RetriesAreBounded == Spec => []AttemptsBounded
<1>1. Inv => AttemptsBounded
    BY DEF Inv, RowInv, InBudget, AttemptsBounded
<1>. QED
    BY <1>1, Invariance, MediaConstants, PTL

\* A stored file is referenced, listed for deletion or in the hands of a worker, unless
\* its worker was lost or its MediaCleanup row refreshed under cleanup_due_media.
THEOREM NoFileIsForgotten == Spec => []NoOrphanFiles
<1>1. Inv => NoOrphanFiles
    BY DEF Inv, FileInv
<1>. QED
    BY <1>1, Invariance, MediaConstants, PTL

\* A step leaves a cancelled job cancelled and publishes no file of it.
LEMMA CancelledStep ==
    ASSUME MediaConstants, Inv, [Next]_vars, NEW j \in Jobs, job[j].cancelled
    PROVE  /\ job'[j].cancelled
           /\ \A t \in Targets : published'[t] # published[t] =>
                 \A a \in 1..MaxAttempts : published'[t] # <<j, a>>
<1>. DEFINE Kept == /\ job'[j].cancelled
                    /\ \A t \in Targets : published'[t] # published[t] =>
                          \A a \in 1..MaxAttempts : published'[t] # <<j, a>>
<1>1. /\ job[j].state = "failed" /\ job[j] \in Job /\ job \in [Jobs -> Job]
      /\ published \in [Targets -> Files \cup {NoFile}]
      /\ \A a \in 1..MaxAttempts : NoFile # <<j, a>>
    <2>1. \A a \in 1..MaxAttempts : <<j, a>> \in Files
        BY DEF Files
    <2>. QED
        BY <2>1, NoFileApart DEF Inv, TypeOK, RowInv, RowCoherent
\* Another row is written, or nothing of this one that matters.
<1>2. ASSUME NEW k \in Jobs, k # j, NEW row, job' = [job EXCEPT ![k] = row], UNCHANGED published
      PROVE  Kept
    BY <1>1, <1>2
<1>3. ASSUME NEW k \in Jobs, NEW t \in Targets \cup {NoJob}, NEW sent \in BOOLEAN,
             Upload(k, t, sent)
      PROVE  Kept
    BY <1>1, <1>2, <1>3 DEF Upload
<1>4. ASSUME NEW k \in Jobs, NEW sent \in BOOLEAN, AdminRetry(k, sent)
      PROVE  Kept
    BY <1>1, <1>2, <1>4 DEF AdminRetry, Retryable
<1>5. ASSUME NEW k \in Jobs, NEW t \in Targets, PublishReady(t, k)
      PROVE  Kept
    <2>1. /\ k # j /\ job[k].video = <<k, job[k].attempt>> /\ UNCHANGED job
          /\ published' = [published EXCEPT ![t] = job[k].video]
        BY <1>5 DEF PublishReady, Inv, RowInv, RowCoherent
    <2>2. \A a \in 1..MaxAttempts : job[k].video # <<j, a>>
        BY <2>1
    <2>. QED
        BY <1>1, <2>1, <2>2
<1>6. ASSUME NEW t \in Targets, NEW video \in {NoFile, published[t]}, Unpublish(t, video)
      PROVE  Kept
    <2>1. UNCHANGED job /\ published' = [published EXCEPT ![t] = video]
        BY <1>6 DEF Unpublish
    <2>. QED
        BY <1>1, <1>6, <2>1
<1>7. ASSUME NEW k \in Jobs, Cancel(k)
      PROVE  Kept
    <2>. DEFINE row == [job[k] EXCEPT !.cancelled = TRUE, !.state = "failed",
                                      !.code = "cancelled", !.token = 0]
    <2>1. job' = [job EXCEPT ![k] = row] /\ UNCHANGED published
        BY <1>7 DEF Cancel
    <2>2. job[k] \in Job
        BY <1>1
    <2>3. row.cancelled
        BY <2>2 DEF Job
    <2>. HIDE DEF row
    <2>. QED
        BY <1>1, <2>1, <2>3
<1>8. ASSUME NEW k \in Jobs, MonitorStalled(k)
      PROVE  Kept
    BY <1>1, <1>2, <1>8 DEF MonitorStalled
<1>9. ASSUME NEW k \in Jobs, SweepRelease(k)
      PROVE  Kept
    <2>. DEFINE row == [job[k] EXCEPT !.source = FALSE, !.video = NoFile]
    <2>1. /\ UNCHANGED published
          /\ \/ UNCHANGED job
             \/ job' = [job EXCEPT ![k] = row]
        BY <1>9 DEF SweepRelease
    <2>2. job[k] \in Job
        BY <1>1
    <2>3. row.cancelled = job[k].cancelled
        BY <2>2 DEF Job
    <2>. HIDE DEF row
    <2>. QED
        BY <1>1, <2>1, <2>3
<1>10. ASSUME NEW w \in Workers, Finish(w)
       PROVE  Kept
    <2>1. PICK k \in Jobs, file \in Files : k = run[w].job /\ file = <<k, run[w].token>>
        BY <1>10, FileOfRun DEF Finish, Inv, FileOf
    <2>2. CASE UNCHANGED <<job, published>>
        BY <2>2
    <2>3. CASE Current(k, run[w].token)
        <3>. DEFINE row == [job[k] EXCEPT !.state = "ready", !.video = file, !.code = "",
                                          !.storageRetries = 0]
        <3>1. /\ job' = [job EXCEPT ![k] = row]
              /\ \A t \in Targets : published'[t] \in {file, published[t]}
            BY <1>10, <2>1, <2>3 DEF Finish
        <3>2. k # j
            BY <1>1, <2>3 DEF Current
        <3>. HIDE DEF row
        <3>. QED
            BY <1>1, <2>1, <3>1, <3>2
    <2>. QED
        BY <1>10, <2>1, <2>2, <2>3 DEF Finish
<1>11. ASSUME NEW w \in Workers, NEW code \in Codes, Fail(w, code)
       PROVE  Kept
    <2>1. PICK k \in Jobs : k = run[w].job
        BY <1>11, RunParts DEF Fail, Inv
    <2>2. /\ UNCHANGED published
          /\ \/ UNCHANGED job
             \/ Current(k, run[w].token) /\ \E row : job' = [job EXCEPT ![k] = row]
        BY <1>11, <2>1 DEF Fail
    <2>. QED
        BY <1>1, <1>2, <2>2 DEF Current
<1>12. ASSUME NEW w \in Workers, NEW k \in Jobs, Start(w, k)
       PROVE  Kept
    <2>1. /\ UNCHANGED published
          /\ \/ UNCHANGED job
             \/ /\ job[k].state = "pending"
                /\ \E row : job' = [job EXCEPT ![k] = row]
        BY <1>12 DEF Start
    <2>. QED
        BY <1>1, <1>2, <2>1
<1>13. ASSUME \/ \E k \in Jobs : MonitorPending(k)
              \/ \E old \in SUBSET Jobs : SweepRead(old)
              \/ \E f \in Files : CleanupCheck(f)
              \/ \E works \in BOOLEAN : CleanupDelete(works)
              \/ \E w \in Workers : Prepare(w) \/ LoseWorker(w)
              \/ UNCHANGED vars
       PROVE  Kept
    <2>1. UNCHANGED <<job, published>>
        BY <1>13 DEF MonitorPending, SweepRead, CleanupCheck, CleanupDelete, Prepare, LoseWorker,
                     vars
    <2>. QED
        BY <2>1
<1>14. CASE AdminNext
    BY <1>3, <1>4, <1>5, <1>6, <1>7, <1>14 DEF AdminNext
<1>15. CASE PeriodicNext
    BY <1>8, <1>9, <1>13, <1>15 DEF PeriodicNext
<1>16. CASE \E w \in Workers : WorkerNext(w) \/ LoseWorker(w) \/ \E k \in Jobs : Start(w, k)
    BY <1>10, <1>11, <1>12, <1>13, <1>16 DEF WorkerNext
<1>. QED
    BY <1>13, <1>14, <1>15, <1>16 DEF Next

\* Cancelling is final, whatever an older worker, a retry, the monitor or a publication
\* does afterwards.
THEOREM CancelledStaysCancelled == Spec => CancelIsFinal
<1>. DEFINE Final == \A j \in Jobs : job[j].cancelled =>
                        /\ job'[j].state = "failed" /\ \A t \in Targets : waitsFor'[t] # j
                        /\ \A t \in Targets : published'[t] # published[t] =>
                              \A a \in 1..MaxAttempts : published'[t] # <<j, a>>
<1>1. ASSUME Inv, Inv', [Next]_vars
      PROVE  Final
    <2>. SUFFICES ASSUME NEW j \in Jobs, job[j].cancelled
                  PROVE  /\ job'[j].state = "failed" /\ \A t \in Targets : waitsFor'[t] # j
                         /\ \A t \in Targets : published'[t] # published[t] =>
                               \A a \in 1..MaxAttempts : published'[t] # <<j, a>>
        OBVIOUS
    <2>1. /\ job'[j].cancelled
          /\ \A t \in Targets : published'[t] # published[t] =>
                \A a \in 1..MaxAttempts : published'[t] # <<j, a>>
        BY <1>1, CancelledStep, MediaConstants
    <2>2. job'[j].state = "failed" /\ \A t \in Targets : waitsFor'[t] # j
        BY <1>1, <2>1 DEF Inv, RowInv, RowCoherent
    <2>. QED
        BY <2>1, <2>2
<1>2. Inv /\ Inv' /\ [Next]_vars => [Final]_vars
    BY <1>1
<1>. QED
    BY <1>2, Invariance, MediaConstants, PTL DEF Spec, CancelIsFinal
-----------------------------------------------------------------------------
(* The implementation of VideoFlow.                                        *)

Stages == [j \in Jobs |-> Stage(job[j])]
Shown == [t \in Targets |-> JobOf(published[t])]

LEMMA StageOf ==
    ASSUME NEW row \in Job
    PROVE  /\ row.state \in {"pending", "processing"} => Stage(row) = "working"
           /\ row.state = "failed" => Stage(row) = IF row.cancelled THEN "cancelled" ELSE "failed"
           /\ row.state = "ready" => Stage(row) = IF row.video = NoFile THEN "released" ELSE "ready"
           /\ row.state = "absent" => Stage(row) = "absent"
BY DEF Stage, Job

\* A step that writes the row of j moves j alone, or nothing.
LEMMA Moved ==
    ASSUME TypeOK, NEW j \in Jobs, NEW row, job' = [job EXCEPT ![j] = row],
           NEW from, Stage(job[j]) \in from
    PROVE  Flow!Move(j, from, Stage(row))
BY DEF Flow!Move, TypeOK

LEMMA NotMoved ==
    ASSUME TypeOK, NEW j \in Jobs, NEW row, job' = [job EXCEPT ![j] = row],
           Stage(row) = Stage(job[j]), UNCHANGED <<waitsFor, published>>
    PROVE  UNCHANGED Flow!flowVars
<1>1. Stages' = Stages
    BY DEF Stages, TypeOK
<1>. QED
    BY <1>1 DEF Flow!flowVars, Stages

LEMMA FileShown ==
    ASSUME MediaConstants, NEW j \in Jobs, NEW a \in 1..MaxAttempts
    PROVE  JobOf(<<j, a>>) = j
<1>1. <<j, a>> # NoFile
    BY NoFileApart DEF Files
<1>. QED
    BY <1>1 DEF JobOf

LEMMA UploadFlows ==
    ASSUME MediaConstants, Inv, NEW j \in Jobs, NEW t \in Targets \cup {NoJob},
           NEW sent \in BOOLEAN, Upload(j, t, sent)
    PROVE  Flow!Request(j)
<1>1. /\ job[j].state = "absent" /\ job' = [job EXCEPT ![j] = NewJob]
      /\ waitsFor' = [u \in Targets |-> IF u = t THEN j ELSE waitsFor[u]]
      /\ UNCHANGED published
    BY DEF Upload
<1>2. NewJob \in Job
    BY DEF NewJob, Job, Attempts, MediaConstants
<1>3. Stage(NewJob) = "working"
    BY <1>2, StageOf DEF NewJob
<1>4. Stage(job[j]) \in {"absent"}
    BY <1>1, StageOf, RowParts DEF Inv
<1>5. Flow!Move(j, {"absent"}, "working")
    BY <1>1, <1>3, <1>4, Moved DEF Inv
<1>6. waitsFor' = waitsFor \/ \E u \in Targets : waitsFor' = [waitsFor EXCEPT ![u] = j]
    <2>. waitsFor = [u \in Targets |-> waitsFor[u]]
        BY DEF Inv, TypeOK
    <2>1. CASE t \in Targets
        <3>1. waitsFor' = [waitsFor EXCEPT ![t] = j]
            BY <1>1
        <3>. QED
            BY <2>1, <3>1
    <2>2. CASE t \notin Targets
        BY <1>1, <2>2
    <2>. QED
        BY <2>1, <2>2
<1>. QED
    BY <1>1, <1>5, <1>6 DEF Flow!Request

LEMMA CancelFlows ==
    ASSUME MediaConstants, Inv, NEW j \in Jobs, Cancel(j)
    PROVE  Flow!Withdraw(j) \/ UNCHANGED Flow!flowVars
<1>. DEFINE row == [job[j] EXCEPT !.cancelled = TRUE, !.state = "failed", !.code = "cancelled",
                                  !.token = 0]
<1>1. /\ job[j].state # "absent" /\ job' = [job EXCEPT ![j] = row]
      /\ waitsFor' = [t \in Targets |-> IF waitsFor[t] = j THEN NoJob ELSE waitsFor[t]]
      /\ UNCHANGED published
    BY DEF Cancel, Exists
<1>2. job[j] \in Job /\ 0 \in Attempts /\ 0 \in 0..StorageRetries
    BY RowParts DEF Inv, Attempts, MediaConstants
<1>3. row \in Job /\ row.state = "failed" /\ row.cancelled
    BY <1>2 DEF Job
<1>. HIDE DEF row
<1>4. Stage(row) = "cancelled"
    BY <1>3, StageOf
<1>5. CASE job[j].cancelled
    <2>1. Stage(job[j]) = "cancelled"
        BY <1>2, <1>5, StageOf DEF Inv, RowInv, RowCoherent
    <2>2. waitsFor' = waitsFor
        BY <1>1, <1>5 DEF Inv, RowInv, TypeOK
    <2>. QED
        BY <1>1, <1>4, <2>1, <2>2, NotMoved DEF Inv
<1>6. CASE ~job[j].cancelled
    <2>1. Stage(job[j]) \in {"working", "ready", "released", "failed"}
        BY <1>1, <1>2, <1>6, StageOf DEF Job
    <2>. QED
        BY <1>1, <1>4, <2>1, Moved DEF Inv, Flow!Withdraw
<1>. QED
    BY <1>5, <1>6

LEMMA AdminRetryFlows ==
    ASSUME MediaConstants, Inv, NEW j \in Jobs, NEW sent \in BOOLEAN, AdminRetry(j, sent)
    PROVE  Flow!Again(j)
<1>. DEFINE row == [job[j] EXCEPT !.state = "pending", !.code = "", !.token = 0,
                                  !.storageRetries = 0]
<1>1. /\ job[j].state = "failed" /\ ~job[j].cancelled /\ job' = [job EXCEPT ![j] = row]
      /\ UNCHANGED <<waitsFor, published>>
    BY DEF AdminRetry, Retryable
<1>2. job[j] \in Job /\ 0 \in Attempts /\ 0 \in 0..StorageRetries
    BY RowParts DEF Inv, Attempts, MediaConstants
<1>3. row \in Job /\ row.state = "pending"
    BY <1>2 DEF Job
<1>. HIDE DEF row
<1>4. Stage(row) = "working" /\ Stage(job[j]) \in {"failed"}
    BY <1>1, <1>2, <1>3, StageOf
<1>. QED
    BY <1>1, <1>4, Moved DEF Inv, Flow!Again

\* A row in processing that fails, or waits for another attempt.
LEMMA FailedFlows ==
    ASSUME Inv, NEW j \in Jobs, NEW row \in Job, job' = [job EXCEPT ![j] = row],
           job[j].state = "processing", row.state \in {"pending", "failed"}, ~row.cancelled,
           UNCHANGED <<waitsFor, published>>
    PROVE  Flow!GiveUp(j) \/ UNCHANGED Flow!flowVars
<1>1. Stage(job[j]) = "working"
    BY StageOf, RowParts DEF Inv
<1>2. CASE row.state = "pending"
    <2>1. Stage(row) = "working"
        BY <1>2, StageOf
    <2>. QED
        BY <1>1, <2>1, NotMoved DEF Inv
<1>3. CASE row.state = "failed"
    <2>1. Stage(row) = "failed"
        BY <1>3, StageOf
    <2>. QED
        BY <1>1, <2>1, Moved DEF Inv, Flow!GiveUp
<1>. QED
    BY <1>2, <1>3

LEMMA StalledFlows ==
    ASSUME MediaConstants, Inv, NEW j \in Jobs, MonitorStalled(j)
    PROVE  Flow!GiveUp(j) \/ UNCHANGED Flow!flowVars
<1>. DEFINE row == [job[j] EXCEPT !.state = "failed", !.code = "worker_interrupted", !.token = 0]
<1>1. /\ job[j].state = "processing" /\ ~job[j].cancelled /\ job' = [job EXCEPT ![j] = row]
      /\ UNCHANGED <<waitsFor, published>>
    BY DEF MonitorStalled
<1>2. job[j] \in Job /\ 0 \in Attempts /\ "worker_interrupted" \in Codes
    BY RowParts DEF Inv, Attempts, MediaConstants, Codes
<1>3. row \in Job /\ row.state = "failed" /\ ~row.cancelled
    BY <1>1, <1>2 DEF Job
<1>. HIDE DEF row
<1>. QED
    BY <1>1, <1>3, FailedFlows

LEMMA FailFlows ==
    ASSUME MediaConstants, Inv, NEW w \in Workers, NEW code \in Codes, Fail(w, code)
    PROVE  (\E j \in Jobs : Flow!GiveUp(j)) \/ UNCHANGED Flow!flowVars
<1>1. PICK j \in Jobs : j = run[w].job
    BY RunParts DEF Fail, Inv
<1>. PICK again : again = (code = "storage_unavailable" /\ RetriesLeft(run[w]))
    OBVIOUS
<1>. DEFINE row == [job[j] EXCEPT
                        !.state = IF again THEN "pending" ELSE "failed", !.code = code,
                        !.storageRetries = run[w].storageRetries + (IF again THEN 1 ELSE 0)]
<1>2. UNCHANGED <<waitsFor, published>> /\ run[w] # NoRun
    BY DEF Fail
<1>3. CASE ~Current(j, run[w].token)
    BY <1>1, <1>2, <1>3 DEF Fail, Flow!flowVars
<1>4. CASE Current(j, run[w].token)
    <2>1. job' = [job EXCEPT ![j] = row]
        BY <1>1, <1>4 DEF Fail
    <2>2. job[j] \in Job /\ job[j].state = "processing" /\ ~job[j].cancelled
        BY <1>4, RowParts DEF Current, Inv
    <2>3. again => run[w].storageRetries < StorageRetries
        BY DEF RetriesLeft
    <2>4. run[w].storageRetries + (IF again THEN 1 ELSE 0) \in 0..StorageRetries
        BY <1>2, <2>3, RunParts DEF Inv, MediaConstants
    <2>5. row \in Job /\ row.state \in {"pending", "failed"} /\ ~row.cancelled
        BY <2>2, <2>4 DEF Job
    <2>. HIDE DEF row
    <2>. QED
        BY <1>2, <2>1, <2>2, <2>5, FailedFlows
<1>. QED
    BY <1>3, <1>4

LEMMA ReleaseFlows ==
    ASSUME MediaConstants, Inv, NEW j \in Jobs, SweepRelease(j)
    PROVE  Flow!Release(j) \/ UNCHANGED Flow!flowVars
<1>. DEFINE row == [job[j] EXCEPT !.source = FALSE, !.video = NoFile]
<1>1. /\ UNCHANGED <<waitsFor, published>>
      /\ UNCHANGED job \/ job' = [job EXCEPT ![j] = row]
    BY DEF SweepRelease
<1>2. CASE UNCHANGED job
    BY <1>1, <1>2 DEF Flow!flowVars
<1>3. CASE job' = [job EXCEPT ![j] = row]
    <2>1. job[j] \in Job
        BY RowParts DEF Inv
    <2>2. /\ row \in Job /\ row.state = job[j].state /\ row.cancelled = job[j].cancelled
          /\ row.video = NoFile
        BY <2>1 DEF Job
    <2>. HIDE DEF row
    <2>3. CASE Stage(job[j]) = "ready"
        <3>1. job[j].state = "ready"
            BY <2>1, <2>3, StageOf DEF Job
        <3>2. Stage(row) = "released"
            BY <2>2, <3>1, StageOf
        <3>. QED
            <4>1. Flow!Move(j, {"ready"}, "released")
                BY <1>3, <2>3, <3>2, Moved DEF Inv
            <4>. QED
                BY <1>1, <4>1 DEF Flow!Release
    <2>4. CASE Stage(job[j]) # "ready"
        <3>1. Stage(row) = Stage(job[j])
            BY <2>1, <2>2, <2>4, StageOf DEF Job
        <3>. QED
            BY <1>1, <1>3, <3>1, NotMoved DEF Inv
    <2>. QED
        BY <2>3, <2>4
<1>. QED
    BY <1>1, <1>2, <1>3

LEMMA PublishFlows ==
    ASSUME MediaConstants, Inv, NEW t \in Targets, NEW j \in Jobs, PublishReady(t, j)
    PROVE  Flow!Show(t, j)
<1>1. /\ job[j].state = "ready" /\ job[j].video # NoFile
      /\ published' = [published EXCEPT ![t] = job[j].video]
      /\ waitsFor' = [waitsFor EXCEPT ![t] = NoJob] /\ UNCHANGED job
    BY DEF PublishReady
<1>2. Stage(job[j]) = "ready"
    BY <1>1, StageOf, RowParts DEF Inv
<1>3. JobOf(job[j].video) = j
    BY <1>1 DEF JobOf, Inv, RowInv, RowCoherent
<1>4. Shown' = [Shown EXCEPT ![t] = j]
    BY <1>1, <1>3 DEF Shown, Inv, TypeOK
<1>. QED
    BY <1>1, <1>2, <1>4 DEF Flow!Show, Shown

LEMMA UnpublishFlows ==
    ASSUME MediaConstants, Inv, NEW t \in Targets, NEW video \in {NoFile, published[t]},
           Unpublish(t, video)
    PROVE  Flow!Replace(t)
<1>1. /\ published' = [published EXCEPT ![t] = video]
      /\ waitsFor' = [waitsFor EXCEPT ![t] = NoJob] /\ UNCHANGED job
    BY DEF Unpublish
<1>2. Shown' = Shown \/ Shown' = [Shown EXCEPT ![t] = NoJob]
    <2>1. CASE video = NoFile
        <3>1. JobOf(video) = NoJob
            BY <2>1 DEF JobOf
        <3>. QED
            BY <1>1, <3>1 DEF Shown, Inv, TypeOK
    <2>2. CASE video = published[t]
        BY <1>1, <2>2 DEF Shown, Inv, TypeOK
    <2>. QED
        BY <2>1, <2>2
<1>. QED
    BY <1>1, <1>2 DEF Flow!Replace, Shown

LEMMA FinishFlows ==
    ASSUME MediaConstants, Inv, NEW w \in Workers, Finish(w)
    PROVE  (\E j \in Jobs : Flow!Deliver(j)) \/ UNCHANGED Flow!flowVars
<1>1. run[w] # NoRun
    BY DEF Finish
<1>2. PICK j \in Jobs, file \in Files : j = run[w].job /\ file = <<j, run[w].token>>
    BY <1>1, FileOfRun DEF Inv, FileOf
<1>3. CASE ~Current(j, run[w].token)
    BY <1>2, <1>3 DEF Finish, Flow!flowVars
<1>4. CASE Current(j, run[w].token)
    <2>. DEFINE row == [job[j] EXCEPT !.state = "ready", !.video = file, !.code = "",
                                      !.storageRetries = 0]
    <2>1. /\ job' = [job EXCEPT ![j] = row]
          /\ published' = [t \in Targets |-> IF waitsFor[t] = j THEN file ELSE published[t]]
          /\ waitsFor' = [t \in Targets |-> IF waitsFor[t] = j THEN NoJob ELSE waitsFor[t]]
        BY <1>2, <1>4 DEF Finish
    <2>2. job[j] \in Job /\ job[j].state = "processing" /\ 0 \in 0..StorageRetries
        BY <1>4, RowParts DEF Current, Inv, MediaConstants
    <2>3. row \in Job /\ row.state = "ready" /\ row.video # NoFile
        BY <2>2, NoFileApart DEF Job
    <2>. HIDE DEF row
    <2>4. Stage(row) = "ready" /\ Stage(job[j]) \in {"working"}
        BY <2>2, <2>3, StageOf
    <2>5. JobOf(file) = j
        BY <1>2, NoFileApart DEF JobOf
    <2>6. Shown' = [t \in Targets |-> IF waitsFor[t] = j THEN j ELSE Shown[t]]
        BY <2>1, <2>5 DEF Shown
    <2>7. Flow!Move(j, {"working"}, "ready")
        BY <2>1, <2>4, Moved DEF Inv
    <2>8. Flow!Deliver(j)
        BY <2>1, <2>6, <2>7 DEF Flow!Deliver, Shown
    <2>. QED
        BY <2>8
<1>. QED
    BY <1>3, <1>4

LEMMA StartFlows ==
    ASSUME MediaConstants, Inv, NEW w \in Workers, NEW j \in Jobs, Start(w, j)
    PROVE  UNCHANGED Flow!flowVars
<1>. PICK token : token = job[j].attempt + 1
    OBVIOUS
<1>. DEFINE row == [job[j] EXCEPT !.state = "processing", !.attempt = token, !.token = token]
<1>1. /\ UNCHANGED <<waitsFor, published>>
      /\ UNCHANGED job \/ (job[j].state = "pending" /\ job' = [job EXCEPT ![j] = row])
    <2>1. CASE job[j].state = "pending" /\ ~job[j].cancelled
        <3>1. job' = [job EXCEPT ![j] = [job[j] EXCEPT !.state = "processing", !.attempt = token,
                                                       !.token = token]]
            BY <2>1 DEF Start
        <3>. QED
            BY <2>1, <3>1 DEF Start
    <2>2. CASE ~(job[j].state = "pending" /\ ~job[j].cancelled)
        BY <2>2 DEF Start
    <2>. QED
        BY <2>1, <2>2
<1>2. CASE UNCHANGED job
    BY <1>1, <1>2 DEF Flow!flowVars
<1>3. CASE job[j].state = "pending" /\ job' = [job EXCEPT ![j] = row]
    <2>1. job[j] \in Job
        BY RowParts DEF Inv
    <2>2. row.state = "processing"
        BY <2>1 DEF Job
    <2>. HIDE DEF row
    <2>3. Stage(row) = "working" /\ Stage(job[j]) = "working"
        BY <1>3, <2>2 DEF Stage
    <2>. QED
        BY <1>1, <1>3, <2>3, NotMoved DEF Inv
<1>. QED
    BY <1>1, <1>2, <1>3

LEMMA FlowInit == ASSUME MediaConstants, Init PROVE Flow!FlowInit
<1>1. \A j \in Jobs : job[j].state = "absent"
    BY DEF Init, NewJob
<1>2. \A j \in Jobs : Stage(job[j]) = "absent"
    BY <1>1 DEF Stage
<1>. QED
    BY <1>2 DEF Init, Flow!FlowInit, JobOf

LEMMA FlowStep ==
    ASSUME MediaConstants, Inv, [Next]_vars
    PROVE  [Flow!FlowNext]_(Flow!flowVars)
<1>. DEFINE Flows == Flow!FlowNext \/ UNCHANGED Flow!flowVars
<1>1. ASSUME NEW j \in Jobs, NEW t \in Targets \cup {NoJob}, NEW sent \in BOOLEAN,
             Upload(j, t, sent)
      PROVE  Flows
    BY <1>1, UploadFlows DEF Flow!FlowNext
<1>2. ASSUME NEW j \in Jobs, NEW sent \in BOOLEAN, AdminRetry(j, sent) PROVE Flows
    BY <1>2, AdminRetryFlows DEF Flow!FlowNext
<1>3. ASSUME NEW j \in Jobs, NEW t \in Targets, PublishReady(t, j) PROVE Flows
    BY <1>3, PublishFlows DEF Flow!FlowNext
<1>4. ASSUME NEW t \in Targets, NEW video \in {NoFile, published[t]}, Unpublish(t, video)
      PROVE  Flows
    BY <1>4, UnpublishFlows DEF Flow!FlowNext
<1>5. ASSUME NEW j \in Jobs, Cancel(j) PROVE Flows
    BY <1>5, CancelFlows DEF Flow!FlowNext
<1>6. ASSUME NEW j \in Jobs, MonitorStalled(j) PROVE Flows
    BY <1>6, StalledFlows DEF Flow!FlowNext
<1>7. ASSUME NEW j \in Jobs, SweepRelease(j) PROVE Flows
    BY <1>7, ReleaseFlows DEF Flow!FlowNext
<1>8. ASSUME NEW w \in Workers, Finish(w) PROVE Flows
    BY <1>8, FinishFlows DEF Flow!FlowNext
<1>9. ASSUME NEW w \in Workers, NEW code \in Codes, Fail(w, code) PROVE Flows
    BY <1>9, FailFlows DEF Flow!FlowNext
<1>10. ASSUME NEW w \in Workers, NEW j \in Jobs, Start(w, j) PROVE Flows
    BY <1>10, StartFlows
<1>11. ASSUME \/ \E j \in Jobs : MonitorPending(j)
              \/ \E old \in SUBSET Jobs : SweepRead(old)
              \/ \E f \in Files : CleanupCheck(f)
              \/ \E works \in BOOLEAN : CleanupDelete(works)
              \/ \E w \in Workers : Prepare(w) \/ LoseWorker(w)
              \/ UNCHANGED vars
       PROVE  Flows
    <2>1. UNCHANGED <<job, waitsFor, published>>
        BY <1>11 DEF MonitorPending, SweepRead, CleanupCheck, CleanupDelete, Prepare, LoseWorker,
                     vars
    <2>. QED
        BY <2>1 DEF Flow!flowVars
<1>12. CASE AdminNext
    BY <1>1, <1>2, <1>3, <1>4, <1>5, <1>12 DEF AdminNext
<1>13. CASE PeriodicNext
    BY <1>6, <1>7, <1>11, <1>13 DEF PeriodicNext
<1>14. CASE \E w \in Workers : WorkerNext(w) \/ LoseWorker(w) \/ \E j \in Jobs : Start(w, j)
    BY <1>8, <1>9, <1>10, <1>11, <1>14 DEF WorkerNext
<1>. QED
    BY <1>11, <1>12, <1>13, <1>14 DEF Next

\* For the dashboard and the apps the workers, messages, attempts, sweeps and deletions do
\* what VideoFlow says and nothing else (process_media_job, ready_job, cleanup_due_media).
THEOREM MediaJobsImplementVideoFlow == Spec => ImplementsVideoFlow
<1>1. Init => Flow!FlowInit
    BY FlowInit, MediaConstants
<1>2. Inv /\ [Next]_vars => [Flow!FlowNext]_(Flow!flowVars)
    BY FlowStep, MediaConstants
<1>. QED
    BY <1>1, <1>2, Invariance, MediaConstants, PTL DEF Spec, ImplementsVideoFlow, Flow!FlowSpec
=============================================================================
