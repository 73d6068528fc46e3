---------------------------- MODULE ImportPipeline ----------------------------
(***************************************************************************)
(* The ingestion pipeline of ONE organisation, from the committed upload   *)
(* to the imported entities: users who map, re-map and hand over datasets  *)
(* through the API, and the worker, which polls for IMPORTING jobs on      *)
(* every tick and imports each in one transaction, over Postgres at READ   *)
(* COMMITTED.                                                              *)
(*                                                                         *)
(* A dataset has one import job; jobs are numbered by started_at.  The     *)
(* variables job, row and made are the committed tables; what a            *)
(* transaction has written and not committed is in its local state.  Every *)
(* dataset type has a registered importer.  A column mapping is abstracted *)
(* to what it decides: which rows have every required field.               *)
(*                                                                         *)
(* Two row locks are visible between steps: the import_jobs row, which a   *)
(* mapping request writes before its import_rows, and the import_rows the  *)
(* worker has flushed.  The others are taken and released by one step.     *)
(***************************************************************************)
EXTENDS Integers, FiniteSets

CONSTANTS
    NumJobs,       \* datasets, each with its import job
    NumRows,       \* staged rows of each
    Users,         \* API requests that map or hand over a dataset
    Ragged,        \* <<job, row>> pairs staged with a structural error
    Poison,        \* <<job, row>> pairs whose INSERT the database rejects
    Limit,         \* jobs the worker takes per tick
    NoJob,
    MaxRequests,   \* bound: requests begun in a behaviour
    MaxFailures    \* bound: lost connections and restarts

Jobs == 1..NumJobs
Rows == 1..NumRows

ASSUME SizesAssumption  == NumJobs \in Nat /\ NumRows \in Nat
ASSUME LimitAssumption  == Limit \in Nat \ {0}
ASSUME RowsAssumption   == Ragged \subseteq Jobs \X Rows /\ Poison \subseteq Jobs \X Rows
ASSUME BoundsAssumption == MaxRequests \in Nat /\ MaxFailures \in Nat
ASSUME NullAssumption   == NoJob \notin Jobs

VARIABLES
    job,        \* import_jobs
    row,        \* import_rows: the status of each
    made,       \* entities committed for each row
    worker,     \* local state of the worker
    request,    \* local state of each API request
    begun, failures,   \* bounded counters
    remapped    \* observer: jobs mapped again after their hand-over

vars == <<job, row, made, worker, request, begun, failures, remapped>>

JobStatuses == {"ABSENT", "AWAITING_MAPPING", "MAPPED", "IMPORTING",
                "COMPLETED", "FAILED"}
RowStatuses == {"PENDING", "VALID", "INVALID", "IMPORTED"}

\* mapped: column_mapping is set; handed: handed over at least once.
JobRow == [status : JobStatuses, mapped : BOOLEAN, handed : BOOLEAN]

\* todo: rows still to import; imported, rejected: rows whose status the
\* session has set; flushed: those of them already sent, which are locked.
WorkerState == [pc       : {"idle", "next", "select", "import"},
                queue    : SUBSET Jobs,
                job      : Jobs \union {NoJob},
                todo     : SUBSET Rows,
                imported : SUBSET Rows,
                rejected : SUBSET Rows,
                flushed  : SUBSET Rows,
                verdict  : {"COMPLETED", "FAILED"}]

\* seen: the job status the request loaded; valid, invalid: the row updates
\* of a mapping.
RequestState == [pc      : {"idle", "map", "write_job", "write_rows", "import"},
                 job     : Jobs \union {NoJob},
                 seen    : JobStatuses,
                 valid   : SUBSET Rows,
                 invalid : SUBSET Rows]

Working(pc, queue, j, todo) ==
    [pc |-> pc, queue |-> queue, job |-> j, todo |-> todo, imported |-> {},
     rejected |-> {}, flushed |-> {}, verdict |-> "COMPLETED"]
Resting == Working("idle", {}, NoJob, {})

Asking(pc, j) ==
    [pc |-> pc, job |-> j, seen |-> job[j].status, valid |-> {}, invalid |-> {}]
Idle == [pc |-> "idle", job |-> NoJob, seen |-> "ABSENT",
         valid |-> {}, invalid |-> {}]

Init ==
    /\ job = [j \in Jobs |->
                 [status |-> "ABSENT", mapped |-> FALSE, handed |-> FALSE]]
    /\ row = [j \in Jobs |-> [i \in Rows |-> "PENDING"]]
    /\ made = [j \in Jobs |-> [i \in Rows |-> 0]]
    /\ worker = Resting
    /\ request = [u \in Users |-> Idle]
    /\ begun = 0 /\ failures = 0
    /\ remapped = {}

\* Row locks (see above).
JobLocked(j) ==
    \E u \in Users : request[u].job = j /\ request[u].pc = "write_rows"
RowLocked(j, i) == worker.job = j /\ i \in worker.flushed

(***************************************************************************)
(* The API.                                                                *)
(***************************************************************************)

\* upload_dataset: the job and its staged rows, in one commit.
Upload(j) ==
    /\ job[j].status = "ABSENT"
    /\ \A k \in 1..(j - 1) : job[k].status # "ABSENT"
    /\ job' = [job EXCEPT ![j].status = "AWAITING_MAPPING"]
    /\ row' = [row EXCEPT ![j] =
                  [i \in Rows |->
                      IF <<j, i>> \in Ragged THEN "INVALID" ELSE "PENDING"]]
    /\ UNCHANGED <<made, worker, request, begun, failures, remapped>>

\* apply_dataset_mapping loads the job, whatever its status.
BeginMap(u, j) ==
    /\ request[u].pc = "idle"
    /\ begun < MaxRequests
    /\ job[j].status # "ABSENT"
    /\ request' = [request EXCEPT ![u] = Asking("map", j)]
    /\ begun' = begun + 1
    /\ UNCHANGED <<job, row, made, worker, failures, remapped>>

\* apply_mapping loads the rows and decides each; only a status that changes
\* is written.
ApplyMapping(u) ==
    LET j == request[u].job
        mappable == {i \in Rows : <<j, i>> \notin Ragged}
    IN
    /\ request[u].pc = "map"
    /\ \E usable \in SUBSET mappable :
          request' = [request EXCEPT ![u] =
              [pc |-> "write_job", job |-> j, seen |-> request[u].seen,
               valid |-> {i \in usable : row[j][i] # "VALID"},
               invalid |-> {i \in mappable \ usable : row[j][i] # "INVALID"}]]
    /\ UNCHANGED <<job, row, made, worker, begun, failures, remapped>>

\* The flush updates import_jobs first, which waits for its lock (a request
\* that changes neither the mapping nor the status would not).
WriteJob(u) ==
    /\ request[u].pc = "write_job"
    /\ ~JobLocked(request[u].job)
    /\ request' = [request EXCEPT ![u].pc = "write_rows"]
    /\ UNCHANGED <<job, row, made, worker, begun, failures, remapped>>

\* The rest of the flush, which waits for the rows the worker holds, and the
\* commit.
WriteRows(u) ==
    LET j == request[u].job
        r == request[u]
    IN
    /\ r.pc = "write_rows"
    /\ \A i \in r.valid \union r.invalid : ~RowLocked(j, i)
    /\ job' = [job EXCEPT ![j] =
                  [status |-> IF r.seen = "MAPPED" THEN job[j].status ELSE "MAPPED",
                   mapped |-> TRUE, handed |-> job[j].handed]]
    /\ row' = [row EXCEPT ![j] =
                  [i \in Rows |-> IF i \in r.valid THEN "VALID"
                                  ELSE IF i \in r.invalid THEN "INVALID"
                                  ELSE row[j][i]]]
    /\ remapped' = IF job[j].handed THEN remapped \union {j} ELSE remapped
    /\ request' = [request EXCEPT ![u] = Idle]
    /\ UNCHANGED <<made, worker, begun, failures>>

\* trigger_dataset_import loads the job; all it asks is a mapping.
BeginImport(u, j) ==
    /\ request[u].pc = "idle"
    /\ begun < MaxRequests
    /\ job[j].mapped
    /\ request' = [request EXCEPT ![u] = Asking("import", j)]
    /\ begun' = begun + 1
    /\ UNCHANGED <<job, row, made, worker, failures, remapped>>

HandOver(u) ==
    LET j == request[u].job IN
    /\ request[u].pc = "import"
    /\ ~JobLocked(j)
    /\ job' = [job EXCEPT ![j] =
                  [status |-> IF request[u].seen = "IMPORTING"
                              THEN job[j].status ELSE "IMPORTING",
                   mapped |-> job[j].mapped, handed |-> TRUE]]
    /\ request' = [request EXCEPT ![u] = Idle]
    /\ UNCHANGED <<row, made, worker, begun, failures, remapped>>

\* A request whose transaction ends without effect.
Forget(u) ==
    /\ request' = [request EXCEPT ![u] = Idle]
    /\ UNCHANGED <<job, row, made, worker, begun, remapped>>

(***************************************************************************)
(* The worker.                                                             *)
(***************************************************************************)

\* The worker inside import_dataset, with its job and queue.
InImport(todo, imported, rejected, flushed, verdict) ==
    [pc |-> "import", queue |-> worker.queue, job |-> worker.job, todo |-> todo,
     imported |-> imported, rejected |-> rejected, flushed |-> flushed,
     verdict |-> verdict]

\* The jobs process_pending_import_jobs selects: the Limit oldest of those
\* handed over.
Importing == {j \in Jobs : job[j].status = "IMPORTING"}
PendingJobs ==
    {j \in Importing : Cardinality({k \in Importing : k < j}) < Limit}

Tick ==
    /\ worker.pc = "idle"
    /\ PendingJobs # {}
    /\ worker' = Working("next", PendingJobs, NoJob, {})
    /\ UNCHANGED <<job, row, made, request, begun, failures, remapped>>

\* process_import_job loads the next of them and skips one that is no longer
\* IMPORTING; the tick ends with its queue.
NextJob ==
    /\ worker.pc = "next"
    /\ \/ /\ worker.queue = {}
          /\ worker' = Resting
       \/ \E j \in worker.queue :
             /\ \A k \in worker.queue : j <= k
             /\ worker' = IF job[j].status = "IMPORTING"
                          THEN Working("select", worker.queue \ {j}, j, {})
                          ELSE Working("next", worker.queue \ {j}, NoJob, {})
    /\ UNCHANGED <<job, row, made, request, begun, failures, remapped>>

\* Mutant: rows already imported are selected too.
RowsNotInvalid(j) == {i \in Rows : row[j][i] # "INVALID"}

\* import_dataset takes the rows that are VALID now.
ValidRows(j) == {i \in Rows : row[j][i] = "VALID"}

SelectRows ==
    /\ worker.pc = "select"
    /\ worker' = Working("import", worker.queue, worker.job, ValidRows(worker.job))
    /\ UNCHANGED <<job, row, made, request, begun, failures, remapped>>

\* The transaction of the tick is rolled back and the tick abandoned.
Abandon ==
    /\ worker' = Resting
    /\ UNCHANGED <<job, row, made, request, begun, remapped>>

\* Mutant: every row is committed on its own.
ImportRowAtOnce(i) ==
    /\ worker.pc = "import"
    /\ i \in worker.todo
    /\ <<worker.job, i>> \notin Poison
    /\ worker' = [worker EXCEPT !.todo = @ \ {i}]
    /\ made' = [made EXCEPT ![worker.job][i] = @ + 1]
    /\ row' = [row EXCEPT ![worker.job][i] = "IMPORTED"]
    /\ UNCHANGED <<job, request, begun, failures, remapped>>

\* The importer creates the entity; its flush also sends the row statuses set
\* so far, and the row is marked afterwards.
ImportRow(i) ==
    /\ worker.pc = "import"
    /\ i \in worker.todo
    /\ <<worker.job, i>> \notin Poison
    /\ worker' = InImport(worker.todo \ {i}, worker.imported \union {i},
                          worker.rejected, worker.imported \union worker.rejected,
                          worker.verdict)
    /\ UNCHANGED <<job, row, made, request, begun, failures, remapped>>

\* Mutant: one rejected row ends the job.
RejectRest(i) ==
    /\ worker.pc = "import"
    /\ i \in worker.todo
    /\ <<worker.job, i>> \notin Poison
    /\ worker' = [worker EXCEPT !.todo = {}, !.rejected = @ \union {i}]
    /\ UNCHANGED <<job, row, made, request, begun, failures, remapped>>

\* ImporterRowError: the row does not resolve to something real.
RejectRow(i) ==
    /\ worker.pc = "import"
    /\ i \in worker.todo
    /\ <<worker.job, i>> \notin Poison
    /\ worker' = InImport(worker.todo \ {i}, worker.imported,
                          worker.rejected \union {i}, worker.flushed,
                          worker.verdict)
    /\ UNCHANGED <<job, row, made, request, begun, failures, remapped>>

\* Mutant: the exception escapes the tick.
RowEscapes(i) ==
    /\ worker.pc = "import"
    /\ i \in worker.todo
    /\ Abandon
    /\ UNCHANGED failures

\* Any other exception of the importer (an unknown repair priority, an
\* infinite amount): the loop is left, the job will be FAILED, and what it has
\* imported so far is committed with it.
RowRaises(i) ==
    /\ worker.pc = "import"
    /\ i \in worker.todo
    /\ <<worker.job, i>> \notin Poison
    /\ worker' = InImport({}, worker.imported, worker.rejected, worker.flushed,
                          "FAILED")
    /\ UNCHANGED <<job, row, made, request, begun, failures, remapped>>

\* The database rejects the INSERT (a value too long for its column): the
\* handler marks the job FAILED in a session that can no longer commit, so the
\* commit raises as well and the tick is abandoned.
RowPoisons(i) ==
    /\ worker.pc = "import"
    /\ i \in worker.todo
    /\ <<worker.job, i>> \in Poison
    /\ Abandon
    /\ UNCHANGED failures

\* The verdict is flushed, which waits for the job's lock, and committed with
\* the rows and the entities.
FinishJob ==
    LET j == worker.job IN
    /\ worker.pc = "import"
    /\ worker.todo = {}
    /\ ~JobLocked(j)
    /\ job' = [job EXCEPT ![j].status = worker.verdict]
    /\ row' = [row EXCEPT ![j] =
                  [i \in Rows |-> IF i \in worker.imported THEN "IMPORTED"
                                  ELSE IF i \in worker.rejected THEN "INVALID"
                                  ELSE row[j][i]]]
    /\ made' = [made EXCEPT ![j] =
                  [i \in Rows |-> IF i \in worker.imported
                                  THEN made[j][i] + 1 ELSE made[j][i]]]
    /\ worker' = Working("next", worker.queue, NoJob, {})
    /\ UNCHANGED <<request, begun, failures, remapped>>

(***************************************************************************)
(* What goes wrong outside the handlers.                                   *)
(***************************************************************************)

\* A mapping that holds the job waits for a row of a worker that waits for the
\* job: Postgres aborts either.
Deadlocked(u) ==
    /\ request[u].pc = "write_rows"
    /\ worker.pc = "import" /\ worker.todo = {}
    /\ worker.job = request[u].job
    /\ (request[u].valid \union request[u].invalid) \cap worker.flushed # {}

BreakDeadlock(u) ==
    /\ Deadlocked(u)
    /\ Forget(u) \/ Abandon
    /\ UNCHANGED failures

\* A lost connection or a restart.
Fail ==
    /\ failures < MaxFailures
    /\ failures' = failures + 1
    /\ \/ worker.pc # "idle" /\ Abandon
       \/ \E u \in Users : request[u].pc # "idle" /\ Forget(u)

WorkerStep ==
    \/ Tick \/ NextJob \/ SelectRows \/ FinishJob
    \/ \E i \in Rows : ImportRow(i) \/ RejectRow(i) \/ RowRaises(i) \/ RowPoisons(i)

UserStep(u) ==
    ApplyMapping(u) \/ WriteJob(u) \/ WriteRows(u) \/ HandOver(u) \/ BreakDeadlock(u)

Next ==
    \/ WorkerStep
    \/ \E u \in Users :
          \/ UserStep(u)
          \/ \E j \in Jobs : BeginMap(u, j) \/ BeginImport(u, j)
    \/ \E j \in Jobs : Upload(j)
    \/ Fail

\* The worker ticks for ever, a request that was sent is served, and Postgres
\* breaks deadlocks; nobody has to upload, map or hand over anything.  Row locks
\* are granted in the order they are asked for, so a mapping that waits for the
\* worker's rows gets them in the end, though every tick may take them again.
Fairness ==
    /\ WF_vars(WorkerStep)
    /\ \A u \in Users : WF_vars(UserStep(u)) /\ SF_vars(WriteRows(u))

Spec     == Init /\ [][Next]_vars
FairSpec == Spec /\ Fairness

-----------------------------------------------------------------------------
(***************************************************************************)
(* Properties                                                              *)
(***************************************************************************)

\* Type correctness.
TypeOK ==
    /\ job \in [Jobs -> JobRow]
    /\ row \in [Jobs -> [Rows -> RowStatuses]]
    /\ made \in [Jobs -> [Rows -> Nat]]
    /\ worker \in WorkerState
    /\ request \in [Users -> RequestState]
    /\ begun \in 0..MaxRequests /\ failures \in 0..MaxFailures
    /\ remapped \subseteq Jobs

\* Exactly one entity per imported row and none for any other, whatever ticks
\* were abandoned, jobs failed and datasets handed over again - as long as
\* nobody maps the dataset again after its hand-over.
EntityPerImportedRow ==
    \A j \in Jobs \ remapped : \A i \in Rows :
        made[j][i] = IF row[j][i] = "IMPORTED" THEN 1 ELSE 0

\* A COMPLETED job has dealt with every row: one bad row does not abort the
\* others ("mark it and move on rather than aborting every remaining valid row
\* in the job").
NothingLeftBehind ==
    \A j \in Jobs \ remapped :
        job[j].status = "COMPLETED" => \A i \in Rows : row[j][i] # "VALID"

\* The entities of a job appear in one step, which is the one that gives the job
\* its verdict (a FAILED job may keep those made before the exception): an
\* abandoned tick leaves nothing behind, and no verdict hides a second import.
ImportIsAtomic ==
    [][ \A j \in Jobs :
          made'[j] # made[j]
          => job[j].status # job'[j].status /\ job'[j].status \in {"COMPLETED", "FAILED"} ]_vars

\* A job handed over gets a verdict, or is taken back by mapping it again:
\* older jobs, failures and deadlocks only delay it.
QueueDrains ==
    \A j \in Jobs :
        job[j].status = "IMPORTING"
        ~> job[j].status \in {"COMPLETED", "FAILED"} \/ j \in remapped
=============================================================================
