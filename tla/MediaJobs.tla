------------------------------ MODULE MediaJobs ------------------------------
(***************************************************************************)
(* An uploaded video on its way to the login screen or a campaign          *)
(* (dashboard/media_jobs.py, tasks.py, media_views.py; config/             *)
(* media_cleanup.py): a MediaJob row is processed by a Celery worker under *)
(* an attempt token, retried, monitored and cancelled, its result          *)
(* published to the target that waits for it, and its files released.      *)
(*                                                                         *)
(* Every endpoint and every write of the worker locks the job's row and    *)
(* then the target's, so each is one action.  The worker prepares the      *)
(* video between its two transactions.  cleanup_due_media locks nothing:   *)
(* it saves jobs it read earlier, and checks a file before deleting it.    *)
(*                                                                         *)
(* The video and poster of one attempt count as one file.  Ages (24 h      *)
(* before a release, 10 min before a job is called stalled) only say that  *)
(* time has passed: any job and any entry may be that old.                 *)
(***************************************************************************)
EXTENDS Integers, FiniteSets

CONSTANTS
    Jobs, Targets, Workers,
    NoJob, NoFile, NoRun, NoCheck,
    StorageRetries, \* automatic retries of a storage failure: 2 in the code
    MaxAttempts     \* bound of the model: attempts of one job, admin retries included

Codes == {"invalid_video", "tools_unavailable", "storage_unavailable", "worker_interrupted"}
RetryableCodes == Codes \ {"invalid_video"}
Attempts == 0..MaxAttempts
Files == Jobs \X (1..MaxAttempts)

Job == [state: {"absent", "pending", "processing", "ready", "failed"},
        code: Codes \cup {"", "cancelled"}, cancelled: BOOLEAN,
        attempt: Attempts, token: Attempts,     \* token 0: no attempt token
        source: BOOLEAN,                        \* the row still names its source
        video: Files \cup {NoFile}, storageRetries: 0..StorageRetries]

Run == [job: Jobs, token: Attempts, retries: 0..StorageRetries,
        source: BOOLEAN, storageRetries: 0..StorageRetries,     \* as read at the start
        saved: BOOLEAN]

Check == [file: Files, referenced: BOOLEAN]

ASSUME MediaConstants ==
    /\ StorageRetries \in Nat /\ MaxAttempts \in Nat /\ StorageRetries < MaxAttempts
    /\ NoJob \notin Jobs /\ NoFile \notin Jobs \X Nat
    /\ NoRun \notin Run /\ NoCheck \notin Check

VARIABLES
    job,        \* job[j]: the MediaJob row
    waitsFor,   \* waitsFor[t]: pending job of the target
    published,  \* published[t]: the video the target shows
    queue,      \* queue[j]: task messages of j, named by their retries
    run,        \* run[w]: the attempt worker w is in
    stored,     \* files of prepared videos that exist in the storage
    cleanup,    \* files with a MediaCleanup row
    sweep,      \* jobs cleanup_due_media has read and not yet released
    check,      \* the MediaCleanup row it is at, and whether its file was referenced
    tries,      \* ghost, tries[j]: attempts since the upload or the last admin retry
    abandoned   \* ghost: files of lost workers, and those whose MediaCleanup row was
                \* refreshed while cleanup_due_media was at it

vars == <<job, waitsFor, published, queue, run, stored, cleanup, sweep, check, tries, abandoned>>

NewJob == [state |-> "pending", code |-> "", cancelled |-> FALSE, attempt |-> 0, token |-> 0,
           source |-> TRUE, video |-> NoFile, storageRetries |-> 0]

TypeOK ==
    /\ job \in [Jobs -> Job]
    /\ waitsFor \in [Targets -> Jobs \cup {NoJob}]
    /\ published \in [Targets -> Files \cup {NoFile}]
    /\ queue \in [Jobs -> SUBSET (0..StorageRetries)]
    /\ run \in [Workers -> Run \cup {NoRun}]
    /\ stored \subseteq Files /\ cleanup \subseteq Files /\ abandoned \subseteq Files
    /\ sweep \subseteq Jobs
    /\ check \in Check \cup {NoCheck}
    /\ tries \in [Jobs -> Nat]

Init ==
    /\ job = [j \in Jobs |-> [NewJob EXCEPT !.state = "absent"]]
    /\ waitsFor = [t \in Targets |-> NoJob]
    /\ published = [t \in Targets |-> NoFile]
    /\ queue = [j \in Jobs |-> {}]
    /\ run = [w \in Workers |-> NoRun]
    /\ stored = {} /\ cleanup = {} /\ sweep = {} /\ abandoned = {}
    /\ check = NoCheck
    /\ tries = [j \in Jobs |-> 0]
-----------------------------------------------------------------------------
Exists(j) == job[j].state # "absent"
ReferencedByJob(f) == \E j \in Jobs : job[j].video = f  \* mutant: one model is not looked at

\* storage_name_is_referenced
Referenced(f) ==
    \/ \E j \in Jobs : job[j].video = f
    \/ \E t \in Targets : published[t] = f

ScheduleEmptyNames(files) ==             \* mutant: a missing file is scheduled like any other
    cleanup' = cleanup \cup files /\ UNCHANGED abandoned

ScheduleUnreferenced(files) ==           \* mutant: looks before the row that lets go is saved
    /\ cleanup' = cleanup \cup {f \in files \ {NoFile} : ~Referenced(f)}
    /\ UNCHANGED abandoned

\* schedule_storage_cleanup, update_or_create of the rows: one that cleanup_due_media
\* is about to delete is refreshed in vain.
Schedule(files) ==
    /\ cleanup' = cleanup \cup (files \ {NoFile})
    /\ abandoned' = abandoned \cup
           {f \in files \ {NoFile} : check = [file |-> f, referenced |-> TRUE]}

CurrentWithoutToken(j, token) ==         \* mutant: an earlier attempt passes for the current one
    ~job[j].cancelled /\ job[j].state = "processing"

\* The job may still be written by the attempt that holds this token.
Current(j, token) ==
    ~job[j].cancelled /\ job[j].state = "processing" /\ job[j].token = token

RetriesUnbounded(r) ==                   \* mutant: the budget is that of the message alone
    r.retries < StorageRetries

\* A storage failure is retried on a budget kept in the message and in the row.
RetriesLeft(r) == r.storageRetries < StorageRetries /\ r.retries < StorageRetries

RetryableAfterCancel(j) ==               \* mutant: only the code is looked at
    job[j].state = "failed" /\ job[j].code \in RetryableCodes \cup {"cancelled"}

UndispatchedNew(j) ==                    \* mutant: only jobs never started are sent again
    job[j].state = "pending" /\ ~job[j].cancelled /\ job[j].attempt = 0

\* What the monitor takes for waiting.
Undispatched(j) == job[j].state = "pending" /\ ~job[j].cancelled

\* job_data's "retryable"
Retryable(j) ==
    /\ job[j].source /\ job[j].state = "failed" /\ ~job[j].cancelled
    /\ job[j].code \in RetryableCodes
-----------------------------------------------------------------------------
(* The administrator.                                                      *)

\* create_media_job: detached, or inline for the target that waits for it.  The task
\* message may not reach the broker.
Upload(j, t, sent) ==
    /\ job[j].state = "absent"
    /\ job' = [job EXCEPT ![j] = NewJob]
    /\ queue' = [queue EXCEPT ![j] = IF sent THEN {0} ELSE {}]
    /\ waitsFor' = [u \in Targets |-> IF u = t THEN j ELSE waitsFor[u]]
    /\ UNCHANGED <<published, run, stored, cleanup, sweep, check, tries, abandoned>>

\* A PATCH of the target names a ready job of its own.
PublishReady(t, j) ==
    /\ job[j].state = "ready" /\ ~job[j].cancelled /\ job[j].video # NoFile
    /\ published' = [published EXCEPT ![t] = job[j].video]
    /\ waitsFor' = [waitsFor EXCEPT ![t] = NoJob]
    /\ Schedule({published[t]} \ {job[j].video})
    /\ UNCHANGED <<job, queue, run, stored, sweep, check, tries>>

\* An image takes the video's place, or only ends the wait for one (a campaign's sheet
\* image).
Unpublish(t, video) ==
    /\ published[t] # NoFile \/ waitsFor[t] # NoJob
    /\ published' = [published EXCEPT ![t] = video]
    /\ waitsFor' = [waitsFor EXCEPT ![t] = NoJob]
    /\ Schedule({published[t]} \ {video})
    /\ UNCHANGED <<job, queue, run, stored, sweep, check, tries>>

Cancel(j) ==
    /\ Exists(j)
    /\ job' = [job EXCEPT ![j] = [@ EXCEPT !.cancelled = TRUE, !.state = "failed",
                                           !.code = "cancelled", !.token = 0]]
    /\ waitsFor' = [t \in Targets |-> IF waitsFor[t] = j THEN NoJob ELSE waitsFor[t]]
    /\ UNCHANGED <<published, queue, run, stored, cleanup, sweep, check, tries, abandoned>>

AdminRetry(j, sent) ==
    /\ Retryable(j)
    /\ job[j].attempt + StorageRetries < MaxAttempts
    /\ job' = [job EXCEPT ![j] = [@ EXCEPT !.state = "pending", !.code = "", !.token = 0,
                                           !.storageRetries = 0]]
    /\ queue' = [queue EXCEPT ![j] = IF sent THEN @ \cup {0} ELSE @]
    /\ tries' = [tries EXCEPT ![j] = 0]
    /\ UNCHANGED <<waitsFor, published, run, stored, cleanup, sweep, check, abandoned>>
-----------------------------------------------------------------------------
(* process_media_job                                                       *)

\* Any state but pending, and a cancelled job, end the task at once.
Start(w, j) ==
    \E r \in queue[j] :
        /\ run[w] = NoRun
        /\ queue' = [queue EXCEPT ![j] = @ \ {r}]
        /\ IF job[j].state = "pending" /\ ~job[j].cancelled
           THEN LET token == job[j].attempt + 1
                IN  /\ job' = [job EXCEPT ![j] =
                           [@ EXCEPT !.state = "processing", !.attempt = token, !.token = token]]
                    /\ run' = [run EXCEPT ![w] =
                           [job |-> j, token |-> token, retries |-> r, saved |-> FALSE,
                            source |-> job[j].source,
                            storageRetries |-> job[j].storageRetries]]
                    /\ tries' = [tries EXCEPT ![j] = @ + 1]
           ELSE UNCHANGED <<job, run, tries>>
        /\ UNCHANGED <<waitsFor, published, stored, cleanup, sweep, check, abandoned>>

\* The source is read, the video prepared and saved to the storage.
Prepare(w) ==
    /\ run[w] # NoRun /\ run[w].source /\ ~run[w].saved
    /\ run' = [run EXCEPT ![w].saved = TRUE]
    /\ stored' = stored \cup {<<run[w].job, run[w].token>>}
    /\ UNCHANGED <<job, waitsFor, published, queue, cleanup, sweep, check, tries, abandoned>>

\* The row takes the result, if it is still this attempt's to write, and every target
\* that waits for the job shows it; otherwise the files are let go.
Finish(w) ==
    LET j == run[w].job
        file == <<j, run[w].token>>
        waiting == {t \in Targets : waitsFor[t] = j}
    IN  /\ run[w] # NoRun /\ run[w].saved
        /\ run' = [run EXCEPT ![w] = NoRun]
        /\ IF Current(j, run[w].token)
           THEN /\ job' = [job EXCEPT ![j] = [@ EXCEPT !.state = "ready", !.video = file,
                                                       !.code = "", !.storageRetries = 0]]
                /\ published' = [t \in Targets |-> IF t \in waiting THEN file ELSE published[t]]
                /\ waitsFor' = [t \in Targets |-> IF t \in waiting THEN NoJob ELSE waitsFor[t]]
                /\ Schedule({published[t] : t \in waiting})
           ELSE Schedule({file}) /\ UNCHANGED <<job, published, waitsFor>>
        /\ UNCHANGED <<queue, stored, sweep, check, tries>>

\* Preparing or publishing fails, always so without a source; a storage failure makes
\* the job pending again while its budget lasts.
Fail(w, code) ==
    LET r == run[w]
        j == r.job
        again == code = "storage_unavailable" /\ RetriesLeft(r)
    IN  /\ r # NoRun
        /\ r.source \/ code = "worker_interrupted"
        /\ run' = [run EXCEPT ![w] = NoRun]
        /\ IF Current(j, r.token)
           THEN /\ job' = [job EXCEPT ![j] =
                       [@ EXCEPT !.state = IF again THEN "pending" ELSE "failed",
                                 !.code = code,
                                 !.storageRetries = r.storageRetries + (IF again THEN 1 ELSE 0)]]
                /\ queue' = [queue EXCEPT ![j] = IF again THEN @ \cup {r.retries + 1} ELSE @]
           ELSE UNCHANGED <<job, queue>>
        /\ Schedule(IF r.saved THEN {<<j, r.token>>} ELSE {})
        /\ UNCHANGED <<waitsFor, published, stored, sweep, check, tries>>

\* The worker is killed (time limit, deploy): its message is delivered again, its
\* files are nobody's.
LoseWorker(w) ==
    LET r == run[w]
    IN  /\ r # NoRun
        /\ run' = [run EXCEPT ![w] = NoRun]
        /\ queue' = [queue EXCEPT ![r.job] = @ \cup {r.retries}]
        /\ abandoned' = IF r.saved THEN abandoned \cup {<<r.job, r.token>>} ELSE abandoned
        /\ UNCHANGED <<job, waitsFor, published, stored, cleanup, sweep, check, tries>>
-----------------------------------------------------------------------------
(* Periodic tasks.                                                         *)

\* monitor_media_jobs on a job processing for 10 minutes: its worker is gone, or hung
\* with its container and may yet wake up.
MonitorStalled(j) ==
    /\ job[j].state = "processing" /\ ~job[j].cancelled
    /\ job' = [job EXCEPT ![j] = [@ EXCEPT !.state = "failed", !.code = "worker_interrupted",
                                           !.token = 0]]
    /\ UNCHANGED <<waitsFor, published, queue, run, stored, cleanup, sweep, check, tries,
                   abandoned>>

\* A pending job is dispatched afresh every minute, whatever is queued already.
MonitorPending(j) ==
    /\ Undispatched(j)
    /\ queue' = [queue EXCEPT ![j] = @ \cup {0}]
    /\ UNCHANGED <<job, waitsFor, published, run, stored, cleanup, sweep, check, tries, abandoned>>

\* cleanup_due_media reads the jobs that ended 24 h ago,
SweepRead(old) ==
    /\ sweep = {} /\ old # {}
    /\ \A j \in old : job[j].state \in {"ready", "failed"}
    /\ sweep' = old
    /\ UNCHANGED <<job, waitsFor, published, queue, run, stored, cleanup, check, tries, abandoned>>

\* and saves each without its files, unless a target waits for it at this moment.
SweepRelease(j) ==
    /\ j \in sweep
    /\ sweep' = sweep \ {j}
    /\ IF \E t \in Targets : waitsFor[t] = j
       THEN UNCHANGED <<job, cleanup, abandoned>>
       ELSE /\ job' = [job EXCEPT ![j] = [@ EXCEPT !.source = FALSE, !.video = NoFile]]
            /\ Schedule({job[j].video})
    /\ UNCHANGED <<waitsFor, published, queue, run, stored, check, tries>>

CleanupCheck(f) ==
    /\ check = NoCheck /\ f \in cleanup
    /\ check' = [file |-> f, referenced |-> Referenced(f)]
    /\ UNCHANGED <<job, waitsFor, published, queue, run, stored, cleanup, sweep, tries, abandoned>>

\* The row goes, and with it the file if nothing referred to it; if the storage
\* fails both stay.
CleanupDelete(works) ==
    /\ check # NoCheck
    /\ check' = NoCheck
    /\ cleanup' = IF works THEN cleanup \ {check.file} ELSE cleanup
    /\ stored' = IF works /\ ~check.referenced THEN stored \ {check.file} ELSE stored
    /\ UNCHANGED <<job, waitsFor, published, queue, run, sweep, tries, abandoned>>
-----------------------------------------------------------------------------
AdminNext ==
    \/ \E j \in Jobs, t \in Targets \cup {NoJob}, sent \in BOOLEAN : Upload(j, t, sent)
    \/ \E j \in Jobs, sent \in BOOLEAN : AdminRetry(j, sent)
    \/ \E j \in Jobs, t \in Targets : PublishReady(t, j)
    \/ \E t \in Targets : \E video \in {NoFile, published[t]} : Unpublish(t, video)
    \/ \E j \in Jobs : Cancel(j)

WorkerNext(w) == Prepare(w) \/ Finish(w) \/ \E code \in Codes : Fail(w, code)

PeriodicNext ==
    \/ \E j \in Jobs : MonitorStalled(j) \/ MonitorPending(j) \/ SweepRelease(j)
    \/ \E old \in SUBSET Jobs : SweepRead(old)
    \/ \E f \in Files : CleanupCheck(f)
    \/ \E works \in BOOLEAN : CleanupDelete(works)

Next ==
    \/ AdminNext \/ PeriodicNext
    \/ \E w \in Workers : WorkerNext(w) \/ LoseWorker(w) \/ \E j \in Jobs : Start(w, j)

Spec == Init /\ [][Next]_vars

\* Messages are served in the order of the queue, a worker that runs gets on, and the
\* monitor comes every minute.
Fairness ==
    /\ \A j \in Jobs :
          /\ SF_vars(\E w \in Workers : Start(w, j))
          /\ WF_vars(MonitorStalled(j)) /\ WF_vars(MonitorPending(j))
    /\ \A w \in Workers : WF_vars(WorkerNext(w))

FairSpec == Spec /\ Fairness
-----------------------------------------------------------------------------
\* A ready job holds the result of its latest attempt, never that of a worker that was
\* given up and woke up later.
ReadyIsLatest ==
    \A j \in Jobs : job[j].state = "ready" /\ job[j].video # NoFile =>
        job[j].video = <<j, job[j].attempt>>

\* Cancelling is final: the job stays failed, no target waits for it, and no file of it
\* is published from then on (test_cancelled_job_cannot_be_published_by_a_stale_worker).
CancelIsFinal ==
    [][\A j \in Jobs : job[j].cancelled =>
          /\ job'[j].state = "failed" /\ \A t \in Targets : waitsFor'[t] # j
          /\ \A t \in Targets : published'[t] # published[t] =>
                \A a \in 1..MaxAttempts : published'[t] # <<j, a>>]_vars

\* What the apps are pointed to exists, over any order of publications, replacements,
\* releases and deletions.
PublishedExists == \A t \in Targets : published[t] # NoFile => published[t] \in stored

\* "So a new message cannot reset it indefinitely" (tasks.py): one request of the
\* administrator costs at most three attempts, however many messages the monitor sends.
AttemptsBounded == \A j \in Jobs : tries[j] <= StorageRetries + 1

\* A file nobody refers to is in a worker's hands or listed for deletion.
NoOrphanFiles ==
    \A f \in stored \ abandoned :
        \/ Referenced(f) \/ f \in cleanup
        \/ \E w \in Workers : run[w] # NoRun /\ run[w].saved /\ f = <<run[w].job, run[w].token>>

\* Every upload and every retry is answered, lost messages and workers included.
UploadAnswered ==
    \A j \in Jobs : job[j].state = "pending" ~> job[j].state \in {"ready", "failed"}

\* "Keep source files through the retry window, then release job references."
\* (tasks.py): a job that is waiting or running again has its source.
SourceKept ==
    \A j \in Jobs : job[j].state \in {"pending", "processing"} => job[j].source

\* Where a job stands for those who wait for it.
Stage(row) ==
    CASE row.state \in {"pending", "processing"} -> "working"
      [] row.state = "failed" /\ row.cancelled -> "cancelled"
      [] row.state = "ready" /\ row.video = NoFile -> "released"
      [] OTHER -> row.state

JobOf(file) == IF file = NoFile THEN NoJob ELSE file[1]

\* To the dashboard and the apps a job is what VideoFlow says: a result is shown by all who
\* wait for it at once, only results are shown, cancelling is final, and a worker that was
\* given up, a message sent twice or the cleanup is not noticed.
Flow == INSTANCE VideoFlow WITH
    stage <- [j \in Jobs |-> Stage(job[j])],
    awaits <- waitsFor,
    shown <- [t \in Targets |-> JobOf(published[t])]
ImplementsVideoFlow == Flow!FlowSpec
=============================================================================
