------------------------- MODULE ImportPipelineProofs -------------------------
(***************************************************************************)
(* Theorems about ImportPipeline, for every number of jobs, rows and       *)
(* users, every set of ragged and refused rows and every tick limit.       *)
(***************************************************************************)
EXTENDS ImportPipeline, TLAPS

(***************************************************************************)
(* The inductive invariant.  What the worker is about to commit was        *)
(* computed long before, from rows that a request may have changed since;  *)
(* the properties survive because only a mapping of a job already handed   *)
(* over does so, and because only the worker gives verdicts.               *)
(***************************************************************************)

Verdicts == {"COMPLETED", "FAILED"}

\* Before the first hand-over nothing was imported and nothing mapped again.
JobInv(j) ==
    /\ job[j].status = "ABSENT" => ~job[j].mapped /\ ~job[j].handed
    /\ job[j].status \in {"IMPORTING"} \union Verdicts => job[j].handed
    /\ ~job[j].handed =>
          j \notin remapped /\ \A i \in Rows : row[j][i] # "IMPORTED"

\* Nobody but the worker gives the job it imports a verdict.
WorkerInv ==
    worker.pc \in {"select", "import"} =>
        /\ worker.job \in Jobs
        /\ job[worker.job].handed
        /\ job[worker.job].status \notin Verdicts

Taken == worker.todo \union worker.imported \union worker.rejected

\* The rows of the import are VALID in the committed table still, and, as long
\* as no exception ended it, they are all the VALID rows there are.
ImportInv ==
    worker.pc = "import" /\ worker.job \notin remapped =>
        /\ \A i \in Taken : row[worker.job][i] = "VALID"
        /\ worker.verdict = "COMPLETED" =>
              \A i \in Rows : row[worker.job][i] = "VALID" => i \in Taken

\* A request is about a job that exists.
RequestInv(u) ==
    request[u].pc # "idle" =>
        request[u].job \in Jobs /\ job[request[u].job].status # "ABSENT"

Safe ==
    /\ \A j \in Jobs : JobInv(j)
    /\ WorkerInv
    /\ ImportInv
    /\ \A u \in Users : RequestInv(u)
    /\ EntityPerImportedRow
    /\ NothingLeftBehind

-----------------------------------------------------------------------------
(***************************************************************************)
(* Type correctness.                                                       *)
(***************************************************************************)

LEMMA LocalTypes ==
    /\ Idle \in RequestState
    /\ Resting \in WorkerState
    /\ \A pc \in {"idle", "next", "select", "import"}, queue \in SUBSET Jobs,
          j \in Jobs \union {NoJob}, todo \in SUBSET Rows :
          Working(pc, queue, j, todo) \in WorkerState
  BY DEF Idle, Resting, Working, RequestState, WorkerState, JobStatuses

LEMMA ImportType ==
    ASSUME TypeOK, NEW todo \in SUBSET Rows, NEW imported \in SUBSET Rows,
           NEW rejected \in SUBSET Rows, NEW flushed \in SUBSET Rows,
           NEW verdict \in Verdicts
    PROVE  InImport(todo, imported, rejected, flushed, verdict) \in WorkerState
  BY DEF InImport, TypeOK, WorkerState, Verdicts

LEMMA AskingType ==
    ASSUME TypeOK, NEW j \in Jobs, NEW pc \in {"map", "import"}
    PROVE  Asking(pc, j) \in RequestState
  BY DEF Asking, TypeOK, JobRow, RequestState

LEMMA UserTypes ==
    ASSUME TypeOK, Safe, NEW u \in Users, NEW j \in Jobs,
           \/ ApplyMapping(u) \/ WriteJob(u) \/ WriteRows(u) \/ HandOver(u)
           \/ BeginMap(u, j) \/ BeginImport(u, j)
    PROVE  TypeOK'
  <1>1. CASE ApplyMapping(u)
    <2>1. PICK usable \in SUBSET Rows, mappable \in SUBSET Rows :
             request' = [request EXCEPT ![u] =
                [pc |-> "write_job", job |-> request[u].job, seen |-> request[u].seen,
                 valid |-> {i \in usable : row[request[u].job][i] # "VALID"},
                 invalid |-> {i \in mappable \ usable :
                                row[request[u].job][i] # "INVALID"}]]
      BY <1>1 DEF ApplyMapping
    <2>2. [pc |-> "write_job", job |-> request[u].job, seen |-> request[u].seen,
           valid |-> {i \in usable : row[request[u].job][i] # "VALID"},
           invalid |-> {i \in mappable \ usable : row[request[u].job][i] # "INVALID"}]
             \in RequestState
      BY DEF TypeOK, RequestState
    <2>3. request' \in [Users -> RequestState]
      BY <2>1, <2>2 DEF TypeOK
    <2> QED BY <1>1, <2>3 DEF ApplyMapping, TypeOK
  <1>2. CASE WriteJob(u)
    <2>1. request' \in [Users -> RequestState]
      BY <1>2 DEF WriteJob, TypeOK, RequestState
    <2> QED BY <1>2, <2>1 DEF WriteJob, TypeOK
  <1>3. CASE WriteRows(u)
    <2>1. PICK k \in Jobs : k = request[u].job
      BY <1>3 DEF WriteRows, Safe, RequestInv
    <2>2. job' \in [Jobs -> JobRow]
      <3>1. [status |-> IF request[u].seen = "MAPPED" THEN job[k].status ELSE "MAPPED",
             mapped |-> TRUE, handed |-> job[k].handed] \in JobRow
        BY DEF TypeOK, JobRow, JobStatuses
      <3> QED BY <1>3, <2>1, <3>1 DEF WriteRows, TypeOK
    <2>3. row' \in [Jobs -> [Rows -> RowStatuses]]
      <3>1. [i \in Rows |-> IF i \in request[u].valid THEN "VALID"
                            ELSE IF i \in request[u].invalid THEN "INVALID"
                            ELSE row[k][i]] \in [Rows -> RowStatuses]
        BY DEF TypeOK, RowStatuses
      <3> QED BY <1>3, <2>1, <3>1 DEF WriteRows, TypeOK
    <2>4. remapped' \subseteq Jobs
      BY <1>3, <2>1 DEF WriteRows, TypeOK
    <2>5. request' \in [Users -> RequestState]
      BY <1>3, LocalTypes DEF WriteRows, TypeOK
    <2> QED BY <1>3, <2>2, <2>3, <2>4, <2>5 DEF WriteRows, TypeOK
  <1>4. CASE HandOver(u)
    <2>1. PICK k \in Jobs : k = request[u].job
      BY <1>4 DEF HandOver, Safe, RequestInv
    <2>2. job' \in [Jobs -> JobRow]
      <3>1. [status |-> IF request[u].seen = "IMPORTING"
                        THEN job[k].status ELSE "IMPORTING",
             mapped |-> job[k].mapped, handed |-> TRUE] \in JobRow
        BY DEF TypeOK, JobRow, JobStatuses
      <3> QED BY <1>4, <2>1, <3>1 DEF HandOver, TypeOK
    <2>3. request' \in [Users -> RequestState]
      BY <1>4, LocalTypes DEF HandOver, TypeOK
    <2> QED BY <1>4, <2>2, <2>3 DEF HandOver, TypeOK
  <1>5. CASE BeginMap(u, j) \/ BeginImport(u, j)
    <2>1. request' \in [Users -> RequestState]
      BY <1>5, AskingType DEF BeginMap, BeginImport, TypeOK
    <2>2. begun' \in 0..MaxRequests
      BY <1>5, BoundsAssumption DEF BeginMap, BeginImport, TypeOK
    <2> QED BY <1>5, <2>1, <2>2 DEF BeginMap, BeginImport, TypeOK
  <1> QED BY <1>1, <1>2, <1>3, <1>4, <1>5

LEMMA WorkerTypes ==
    ASSUME TypeOK, Safe, WorkerStep
    PROVE  TypeOK'
  <1>1. CASE Tick
    BY <1>1, LocalTypes DEF Tick, PendingJobs, Importing, TypeOK
  <1>2. CASE NextJob
    <2>1. worker' \in WorkerState
      <3>1. \A j \in worker.queue : worker.queue \ {j} \in SUBSET Jobs /\ j \in Jobs
        BY DEF TypeOK, WorkerState
      <3>2. CASE worker' = Resting
        BY <3>2, LocalTypes
      <3>3. ASSUME NEW j \in worker.queue,
                   \/ worker' = Working("select", worker.queue \ {j}, j, {})
                   \/ worker' = Working("next", worker.queue \ {j}, NoJob, {})
            PROVE  worker' \in WorkerState
        BY <3>1, <3>3, LocalTypes
      <3> QED BY <1>2, <3>2, <3>3 DEF NextJob
    <2> QED BY <1>2, <2>1 DEF NextJob, TypeOK
  <1>3. CASE SelectRows
    <2>1. worker' \in WorkerState
      BY <1>3, LocalTypes DEF SelectRows, ValidRows, TypeOK, WorkerState
    <2> QED BY <1>3, <2>1 DEF SelectRows, TypeOK
  <1>4. CASE FinishJob
    <2>1. PICK k \in Jobs : k = worker.job
      BY <1>4 DEF FinishJob, Safe, WorkerInv
    <2>2. job' \in [Jobs -> JobRow]
      BY <1>4, <2>1 DEF FinishJob, TypeOK, WorkerState, JobRow, JobStatuses
    <2>3. row' \in [Jobs -> [Rows -> RowStatuses]]
      <3>1. [i \in Rows |-> IF i \in worker.imported THEN "IMPORTED"
                            ELSE IF i \in worker.rejected THEN "INVALID"
                            ELSE row[k][i]] \in [Rows -> RowStatuses]
        BY DEF TypeOK, RowStatuses
      <3> QED BY <1>4, <2>1, <3>1 DEF FinishJob, TypeOK
    <2>4. made' \in [Jobs -> [Rows -> Nat]]
      <3>1. [i \in Rows |-> IF i \in worker.imported
                            THEN made[k][i] + 1 ELSE made[k][i]] \in [Rows -> Nat]
        BY DEF TypeOK
      <3> QED BY <1>4, <2>1, <3>1 DEF FinishJob, TypeOK
    <2>5. worker' \in WorkerState
      BY <1>4, LocalTypes DEF FinishJob, TypeOK, WorkerState
    <2> QED BY <1>4, <2>2, <2>3, <2>4, <2>5 DEF FinishJob, TypeOK
  <1>5. ASSUME NEW i \in Rows, ImportRow(i) \/ RejectRow(i) \/ RowRaises(i) \/ RowPoisons(i)
        PROVE  TypeOK'
    <2>1. /\ worker.todo \ {i} \in SUBSET Rows /\ {} \in SUBSET Rows
          /\ worker.imported \in SUBSET Rows /\ worker.imported \union {i} \in SUBSET Rows
          /\ worker.rejected \in SUBSET Rows /\ worker.rejected \union {i} \in SUBSET Rows
          /\ worker.flushed \in SUBSET Rows
          /\ worker.imported \union worker.rejected \in SUBSET Rows
          /\ worker.verdict \in Verdicts /\ "FAILED" \in Verdicts
      BY DEF TypeOK, WorkerState, Verdicts
    <2>2. worker' \in WorkerState
      <3>1. CASE ImportRow(i)
        BY <2>1, <3>1, ImportType DEF ImportRow
      <3>2. CASE RejectRow(i)
        BY <2>1, <3>2, ImportType DEF RejectRow
      <3>3. CASE RowRaises(i)
        BY <2>1, <3>3, ImportType DEF RowRaises
      <3>4. CASE RowPoisons(i)
        BY <3>4, LocalTypes DEF RowPoisons, Abandon
      <3> QED BY <1>5, <3>1, <3>2, <3>3, <3>4
    <2> QED BY <1>5, <2>2
            DEF ImportRow, RejectRow, RowRaises, RowPoisons, Abandon, TypeOK
  <1> QED BY <1>1, <1>2, <1>3, <1>4, <1>5 DEF WorkerStep

LEMMA TypeStep == TypeOK /\ Safe /\ [Next]_vars => TypeOK'
  <1> SUFFICES ASSUME TypeOK, Safe, [Next]_vars PROVE TypeOK'
    OBVIOUS
  <1>1. ASSUME NEW j \in Jobs, Upload(j) PROVE TypeOK'
    <2>1. job' \in [Jobs -> JobRow]
      BY <1>1 DEF Upload, TypeOK, JobRow, JobStatuses
    <2>2. row' \in [Jobs -> [Rows -> RowStatuses]]
      BY <1>1 DEF Upload, TypeOK, RowStatuses
    <2> QED BY <1>1, <2>1, <2>2 DEF Upload, TypeOK
  <1>2. ASSUME Abandon, failures' \in 0..MaxFailures PROVE TypeOK'
    BY <1>2, LocalTypes DEF Abandon, TypeOK
  <1>3. ASSUME NEW u \in Users, Forget(u), failures' \in 0..MaxFailures PROVE TypeOK'
    BY <1>3, LocalTypes DEF Forget, TypeOK
  <1>4. CASE Fail
    <2>1. failures' \in 0..MaxFailures
      BY <1>4, BoundsAssumption DEF Fail, TypeOK
    <2> QED BY <1>2, <1>3, <1>4, <2>1 DEF Fail
  <1>5. ASSUME NEW u \in Users, BreakDeadlock(u) PROVE TypeOK'
    <2>1. failures' \in 0..MaxFailures
      BY <1>5 DEF BreakDeadlock, TypeOK
    <2> QED BY <1>2, <1>3, <1>5, <2>1 DEF BreakDeadlock
  <1>6. ASSUME NEW u \in Users, UserStep(u) PROVE TypeOK'
    <2>1. CASE BreakDeadlock(u)
      BY <1>5, <2>1
    <2>2. CASE ~BreakDeadlock(u)
      <3>1. request[u].pc # "idle"
        BY <1>6, <2>2 DEF UserStep, ApplyMapping, WriteJob, WriteRows, HandOver
      <3>2. request[u].job \in Jobs
        BY <3>1 DEF Safe, RequestInv
      <3> QED BY <1>6, <2>2, <3>2, UserTypes DEF UserStep
    <2> QED BY <2>1, <2>2
  <1>7. CASE UNCHANGED vars
    BY <1>7 DEF vars, TypeOK
  <1> QED
    BY <1>1, <1>4, <1>6, <1>7, UserTypes, WorkerTypes DEF Next

-----------------------------------------------------------------------------
(***************************************************************************)
(* Safety.                                                                 *)
(***************************************************************************)

\* A step of the requests' local state only.
LEMMA RequestOnly ==
    ASSUME Safe, UNCHANGED <<job, row, made, worker, remapped>>,
           \A u \in Users : RequestInv(u)'
    PROVE  Safe'
  <1>1. \A j \in Jobs : JobInv(j)'
    BY DEF Safe, JobInv
  <1>2. WorkerInv' /\ ImportInv'
    BY DEF Safe, WorkerInv, ImportInv, Taken
  <1>3. EntityPerImportedRow' /\ NothingLeftBehind'
    BY DEF Safe, EntityPerImportedRow, NothingLeftBehind
  <1> QED BY <1>1, <1>2, <1>3 DEF Safe

\* A step of the worker's local state only.
LEMMA WorkerOnly ==
    ASSUME Safe, UNCHANGED <<job, row, made, request, remapped>>,
           WorkerInv', ImportInv'
    PROVE  Safe'
  <1>1. \A j \in Jobs : JobInv(j)'
    BY DEF Safe, JobInv
  <1>2. \A u \in Users : RequestInv(u)'
    BY DEF Safe, RequestInv
  <1>3. EntityPerImportedRow' /\ NothingLeftBehind'
    BY DEF Safe, EntityPerImportedRow, NothingLeftBehind
  <1> QED BY <1>1, <1>2, <1>3 DEF Safe

LEMMA ForgetSafe ==
    ASSUME TypeOK, Safe, NEW u \in Users, Forget(u)
    PROVE  Safe'
  <1>1. \A v \in Users : request'[v] = request[v] \/ request'[v].pc = "idle"
    BY DEF Forget, Idle, TypeOK
  <1>2. \A v \in Users : RequestInv(v)'
    BY <1>1 DEF Forget, Safe, RequestInv
  <1> QED BY <1>2, RequestOnly DEF Forget

LEMMA AbandonSafe ==
    ASSUME Safe, Abandon
    PROVE  Safe'
  <1>1. WorkerInv' /\ ImportInv'
    BY DEF Abandon, Resting, Working, WorkerInv, ImportInv
  <1> QED BY <1>1, WorkerOnly DEF Abandon

LEMMA UploadSafe ==
    ASSUME TypeOK, Safe, NEW j \in Jobs, Upload(j)
    PROVE  Safe'
  <1>1. /\ job[j].status = "ABSENT" /\ ~job[j].handed /\ j \notin remapped
        /\ \A i \in Rows : row[j][i] # "IMPORTED"
    BY DEF Upload, Safe, JobInv
  <1>2. /\ job'[j].status = "AWAITING_MAPPING" /\ job'[j].handed = job[j].handed
        /\ \A i \in Rows : row'[j][i] \in {"INVALID", "PENDING"}
        /\ \A k \in Jobs \ {j} : job'[k] = job[k] /\ row'[k] = row[k]
        /\ UNCHANGED <<made, worker, request, remapped>>
    BY DEF Upload, TypeOK, JobRow
  <1>3. \A k \in Jobs : JobInv(k)'
    BY <1>1, <1>2 DEF Safe, JobInv, Verdicts
  <1>4. worker.pc \in {"select", "import"} => worker.job \in Jobs \ {j}
    BY <1>1 DEF Safe, WorkerInv
  <1>5. WorkerInv' /\ ImportInv'
    BY <1>2, <1>4 DEF Safe, WorkerInv, ImportInv, Taken
  <1>6. \A u \in Users : RequestInv(u)'
    BY <1>2 DEF Safe, RequestInv
  <1>7. EntityPerImportedRow'
    BY <1>1, <1>2 DEF Safe, EntityPerImportedRow
  <1>8. NothingLeftBehind'
    BY <1>2 DEF Safe, NothingLeftBehind
  <1> QED BY <1>3, <1>5, <1>6, <1>7, <1>8 DEF Safe

\* A mapping either meets a job that was never handed over, whose rows nobody
\* has imported, or takes the job out of the reach of the properties.
LEMMA WriteRowsSafe ==
    ASSUME TypeOK, Safe, NEW u \in Users, WriteRows(u)
    PROVE  Safe'
  <1>1. PICK j \in Jobs : j = request[u].job /\ job[j].status # "ABSENT"
    BY DEF WriteRows, Safe, RequestInv
  <1>2. /\ job'[j].status \in {"MAPPED", job[j].status}
        /\ job'[j].handed = job[j].handed
        /\ \A i \in Rows : row'[j][i] = row[j][i] \/ row'[j][i] \in {"VALID", "INVALID"}
        /\ \A k \in Jobs \ {j} : job'[k] = job[k] /\ row'[k] = row[k]
        /\ remapped' = IF job[j].handed THEN remapped \union {j} ELSE remapped
        /\ UNCHANGED <<made, worker>>
    BY <1>1 DEF WriteRows, TypeOK
  <1>3. \A v \in Users : request'[v] = request[v] \/ request'[v].pc = "idle"
    BY DEF WriteRows, Idle, TypeOK
  <1>4. \A k \in Jobs : JobInv(k)'
    <2>1. JobInv(j)'
      BY <1>1, <1>2 DEF Safe, JobInv, Verdicts
    <2>2. \A k \in Jobs \ {j} : JobInv(k)'
      BY <1>2 DEF Safe, JobInv
    <2> QED BY <2>1, <2>2
  <1>5. WorkerInv'
    BY <1>2 DEF Safe, WorkerInv, Verdicts
  <1>6. ImportInv'
    <2>1. worker.pc = "import" /\ worker.job \notin remapped' =>
             worker.job \in Jobs \ {j} /\ worker.job \notin remapped
      BY <1>2 DEF Safe, WorkerInv
    <2> QED BY <1>2, <2>1 DEF Safe, ImportInv, Taken
  <1>7. \A v \in Users : RequestInv(v)'
    BY <1>1, <1>2, <1>3 DEF Safe, RequestInv
  <1>8. EntityPerImportedRow'
    <2>1. j \notin remapped' => \A i \in Rows : row[j][i] # "IMPORTED"
      BY <1>2 DEF Safe, JobInv
    <2> QED BY <1>2, <2>1 DEF Safe, EntityPerImportedRow
  <1>9. NothingLeftBehind'
    <2>1. j \notin remapped' => job'[j].status # "COMPLETED"
      BY <1>2 DEF Safe, JobInv, Verdicts
    <2> QED BY <1>2, <2>1 DEF Safe, NothingLeftBehind
  <1> QED BY <1>4, <1>5, <1>6, <1>7, <1>8, <1>9 DEF Safe

LEMMA HandOverSafe ==
    ASSUME TypeOK, Safe, NEW u \in Users, HandOver(u)
    PROVE  Safe'
  <1>1. PICK j \in Jobs : j = request[u].job /\ job[j].status # "ABSENT"
    BY DEF HandOver, Safe, RequestInv
  <1>2. /\ job'[j].status \in {"IMPORTING", job[j].status} /\ job'[j].handed
        /\ \A k \in Jobs \ {j} : job'[k] = job[k]
        /\ UNCHANGED <<row, made, worker, remapped>>
    BY <1>1 DEF HandOver, TypeOK
  <1>3. \A v \in Users : request'[v] = request[v] \/ request'[v].pc = "idle"
    BY DEF HandOver, Idle, TypeOK
  <1>4. \A k \in Jobs : JobInv(k)'
    BY <1>1, <1>2 DEF Safe, JobInv
  <1>5. WorkerInv'
    BY <1>2 DEF Safe, WorkerInv, Verdicts
  <1>6. ImportInv'
    BY <1>2 DEF Safe, ImportInv, Taken
  <1>7. \A v \in Users : RequestInv(v)'
    BY <1>1, <1>2, <1>3 DEF Safe, RequestInv
  <1>8. EntityPerImportedRow'
    BY <1>2 DEF Safe, EntityPerImportedRow
  <1>9. NothingLeftBehind'
    BY <1>2 DEF Safe, NothingLeftBehind
  <1> QED BY <1>4, <1>5, <1>6, <1>7, <1>8, <1>9 DEF Safe

\* The commit of an import: what it took was VALID to the last.
LEMMA FinishSafe ==
    ASSUME TypeOK, Safe, FinishJob
    PROVE  Safe'
  <1>1. PICK j \in Jobs : j = worker.job /\ job[j].handed /\ job[j].status \notin Verdicts
    BY DEF FinishJob, Safe, WorkerInv
  <1>2. /\ job'[j].status = worker.verdict /\ job'[j].handed
        /\ \A i \in Rows : row'[j][i] = IF i \in worker.imported THEN "IMPORTED"
                                        ELSE IF i \in worker.rejected THEN "INVALID"
                                        ELSE row[j][i]
        /\ \A i \in Rows : made'[j][i] = IF i \in worker.imported
                                         THEN made[j][i] + 1 ELSE made[j][i]
        /\ \A k \in Jobs \ {j} :
              job'[k] = job[k] /\ row'[k] = row[k] /\ made'[k] = made[k]
        /\ UNCHANGED <<request, remapped>>
    BY <1>1 DEF FinishJob, TypeOK, JobRow
  <1>3. worker.verdict \in Verdicts
    BY DEF TypeOK, WorkerState, Verdicts
  <1>4. worker'.pc = "next"
    BY DEF FinishJob, Working
  <1>5. \A k \in Jobs : JobInv(k)'
    <2>1. JobInv(j)'
      BY <1>2, <1>3 DEF JobInv, Verdicts
    <2>2. \A k \in Jobs \ {j} : JobInv(k)'
      BY <1>2 DEF Safe, JobInv
    <2> QED BY <2>1, <2>2
  <1>6. WorkerInv' /\ ImportInv'
    BY <1>4 DEF WorkerInv, ImportInv
  <1>7. \A u \in Users : RequestInv(u)'
    BY <1>2, <1>3 DEF Safe, RequestInv, Verdicts
  <1>8. EntityPerImportedRow'
    <2>1. ASSUME j \notin remapped, NEW i \in Rows
          PROVE  made'[j][i] = IF row'[j][i] = "IMPORTED" THEN 1 ELSE 0
      <3>1. i \in worker.imported \union worker.rejected => row[j][i] = "VALID"
        BY <1>1, <2>1 DEF FinishJob, Safe, ImportInv, Taken
      <3>2. made[j][i] = IF row[j][i] = "IMPORTED" THEN 1 ELSE 0
        BY <2>1 DEF Safe, EntityPerImportedRow
      <3> QED BY <1>2, <3>1, <3>2
    <2>2. ASSUME NEW k \in Jobs \ {j}, k \notin remapped, NEW i \in Rows
          PROVE  made'[k][i] = IF row'[k][i] = "IMPORTED" THEN 1 ELSE 0
      BY <1>2, <2>2 DEF Safe, EntityPerImportedRow
    <2> QED BY <1>2, <2>1, <2>2 DEF EntityPerImportedRow
  <1>9. NothingLeftBehind'
    <2>1. ASSUME j \notin remapped, worker.verdict = "COMPLETED", NEW i \in Rows
          PROVE  row'[j][i] # "VALID"
      <3>1. row[j][i] = "VALID" => i \in worker.imported \union worker.rejected
        BY <1>1, <2>1 DEF FinishJob, Safe, ImportInv, Taken
      <3> QED BY <1>2, <3>1
    <2>2. ASSUME NEW k \in Jobs \ {j}, k \notin remapped,
                 job'[k].status = "COMPLETED", NEW i \in Rows
          PROVE  row'[k][i] # "VALID"
      BY <1>2, <2>2 DEF Safe, NothingLeftBehind
    <2> QED BY <1>2, <2>1, <2>2 DEF NothingLeftBehind
  <1> QED BY <1>5, <1>6, <1>7, <1>8, <1>9 DEF Safe

\* One row of the import: whatever its importer does, the rows taken stay
\* VALID in the table, and an exception gives up the claim to have them all.
LEMMA RowSafe ==
    ASSUME TypeOK, Safe, NEW i \in Rows, ImportRow(i) \/ RejectRow(i) \/ RowRaises(i)
    PROVE  Safe'
  <1>1. /\ worker.pc = "import" /\ worker'.pc = "import"
        /\ worker'.job = worker.job
        /\ Taken' \subseteq Taken
        /\ worker'.verdict = "COMPLETED" =>
              worker.verdict = "COMPLETED" /\ Taken' = Taken
    <2>1. CASE ImportRow(i)
      BY <2>1 DEF ImportRow, InImport, Taken
    <2>2. CASE RejectRow(i)
      BY <2>2 DEF RejectRow, InImport, Taken
    <2>3. CASE RowRaises(i)
      BY <2>3 DEF RowRaises, InImport, Taken
    <2> QED BY <2>1, <2>2, <2>3
  <1>2. UNCHANGED <<job, row, made, request, remapped>>
    BY DEF ImportRow, RejectRow, RowRaises
  <1>3. WorkerInv' /\ ImportInv'
    BY <1>1, <1>2 DEF Safe, WorkerInv, ImportInv
  <1> QED BY <1>2, <1>3, WorkerOnly

LEMMA WorkerSafe ==
    ASSUME TypeOK, Safe, WorkerStep
    PROVE  Safe'
  <1>1. CASE Tick
    <2>1. WorkerInv' /\ ImportInv'
      BY <1>1 DEF Tick, Working, WorkerInv, ImportInv
    <2> QED BY <1>1, <2>1, WorkerOnly DEF Tick
  <1>2. CASE NextJob
    <2>1. ImportInv' /\ UNCHANGED <<job, row, made, request, remapped>>
      BY <1>2 DEF NextJob, Resting, Working, ImportInv
    <2>2. WorkerInv'
      <3>1. CASE worker'.pc # "select"
        BY <1>2, <3>1 DEF NextJob, Resting, Working, WorkerInv
      <3>2. CASE worker'.pc = "select"
        <4>1. PICK j \in Jobs : job[j].status = "IMPORTING" /\ worker'.job = j
          BY <1>2, <3>2 DEF NextJob, Resting, Working, TypeOK, WorkerState
        <4> QED BY <2>1, <4>1 DEF Safe, JobInv, WorkerInv, Verdicts
      <3> QED BY <3>1, <3>2
    <2> QED BY <2>1, <2>2, WorkerOnly
  <1>3. CASE SelectRows
    <2>1. /\ worker.pc = "select" /\ worker'.pc = "import" /\ worker'.job = worker.job
          /\ Taken' = ValidRows(worker.job)
          /\ UNCHANGED <<job, row, made, request, remapped>>
      BY <1>3 DEF SelectRows, Working, Taken
    <2>2. WorkerInv' /\ ImportInv'
      BY <2>1 DEF Safe, WorkerInv, ImportInv, ValidRows
    <2> QED BY <2>1, <2>2, WorkerOnly
  <1>4. CASE FinishJob
    BY <1>4, FinishSafe
  <1>5. ASSUME NEW i \in Rows, ImportRow(i) \/ RejectRow(i) \/ RowRaises(i) \/ RowPoisons(i)
        PROVE  Safe'
    BY <1>5, RowSafe, AbandonSafe DEF RowPoisons
  <1> QED BY <1>1, <1>2, <1>3, <1>4, <1>5 DEF WorkerStep

\* A request that goes on, or begins with a job that exists.
LEMMA RequestSafe ==
    ASSUME TypeOK, Safe, NEW u \in Users, NEW j \in Jobs,
           \/ ApplyMapping(u) \/ WriteJob(u)
           \/ BeginMap(u, j) \/ BeginImport(u, j)
    PROVE  Safe'
  <1>1. UNCHANGED <<job, row, made, worker, remapped>>
    BY DEF ApplyMapping, WriteJob, BeginMap, BeginImport
  <1>2. /\ \A v \in Users \ {u} : request'[v] = request[v]
        /\ \/ request[u].pc # "idle" /\ request'[u].job = request[u].job
           \/ request'[u].job = j /\ job[j].status # "ABSENT"
    <2>1. CASE ApplyMapping(u)
      BY <2>1 DEF ApplyMapping, TypeOK
    <2>2. CASE WriteJob(u)
      BY <2>2 DEF WriteJob, TypeOK, RequestState
    <2>3. CASE BeginMap(u, j)
      BY <2>3 DEF BeginMap, Asking, TypeOK
    <2>4. CASE BeginImport(u, j)
      BY <2>4 DEF BeginImport, Asking, Safe, JobInv, TypeOK
    <2> QED BY <2>1, <2>2, <2>3, <2>4
  <1>3. \A v \in Users : RequestInv(v)'
    BY <1>1, <1>2 DEF Safe, RequestInv
  <1> QED BY <1>1, <1>3, RequestOnly

LEMMA SafeStep == TypeOK /\ Safe /\ [Next]_vars => Safe'
  <1> SUFFICES ASSUME TypeOK, Safe, [Next]_vars PROVE Safe'
    OBVIOUS
  <1>1. ASSUME NEW j \in Jobs, Upload(j) PROVE Safe'
    BY <1>1, UploadSafe
  <1>2. CASE Fail
    BY <1>2, AbandonSafe, ForgetSafe DEF Fail
  <1>3. ASSUME NEW u \in Users, UserStep(u) PROVE Safe'
    <2>1. CASE BreakDeadlock(u)
      BY <2>1, AbandonSafe, ForgetSafe DEF BreakDeadlock
    <2>2. CASE WriteRows(u) \/ HandOver(u)
      BY <2>2, WriteRowsSafe, HandOverSafe
    <2>3. CASE ApplyMapping(u) \/ WriteJob(u)
      <3>1. request[u].job \in Jobs
        BY <2>3 DEF ApplyMapping, WriteJob, Safe, RequestInv
      <3> QED BY <2>3, <3>1, RequestSafe
    <2> QED BY <1>3, <2>1, <2>2, <2>3 DEF UserStep
  <1>4. CASE UNCHANGED vars
    <2>1. \A u \in Users : RequestInv(u)'
      BY <1>4 DEF vars, Safe, RequestInv
    <2> QED BY <1>4, <2>1, RequestOnly DEF vars
  <1> QED
    BY <1>1, <1>2, <1>3, <1>4, RequestSafe, WorkerSafe DEF Next

LEMMA InitSafe == Init => TypeOK /\ Safe
  <1> SUFFICES ASSUME Init PROVE TypeOK /\ Safe
    OBVIOUS
  <1>1. TypeOK
    BY LocalTypes, BoundsAssumption
       DEF Init, TypeOK, JobRow, JobStatuses, RowStatuses
  <1>2. Safe
    BY DEF Init, Safe, JobInv, WorkerInv, ImportInv, RequestInv, Resting, Working,
           Idle, EntityPerImportedRow, NothingLeftBehind, Verdicts
  <1> QED BY <1>1, <1>2

LEMMA Invariant == Spec => [](TypeOK /\ Safe)
  BY InitSafe, TypeStep, SafeStep, PTL DEF Spec

\* Every reachable state is well-typed: among the rest, a job's status is one
\* the code knows, and a running mapping was begun for a job that exists.
THEOREM TypeCorrect == Spec => []TypeOK
  BY Invariant, PTL

\* One entity per imported row and none for any other, through exceptions,
\* abandoned ticks, deadlocks and repeated hand-overs, unless the dataset is
\* mapped again after its hand-over.
THEOREM OneEntityEach == Spec => []EntityPerImportedRow
  <1>1. Safe => EntityPerImportedRow
    BY DEF Safe
  <1> QED BY <1>1, Invariant, PTL

\* A COMPLETED job has no VALID row left, with the same exception.
THEOREM NothingLeft == Spec => []NothingLeftBehind
  <1>1. Safe => NothingLeftBehind
    BY DEF Safe
  <1> QED BY <1>1, Invariant, PTL

\* Entities appear only in the step that gives their job its verdict: it had
\* none before, since only the worker gives one and it has not yet.
THEOREM Atomic == Spec => ImportIsAtomic
  <1> DEFINE WithVerdict ==
        \A j \in Jobs :
          made'[j] # made[j]
          => job[j].status # job'[j].status /\ job'[j].status \in {"COMPLETED", "FAILED"}
  <1>1. TypeOK /\ Safe /\ [Next]_vars => [WithVerdict]_vars
    <2> SUFFICES ASSUME TypeOK, Safe, Next PROVE WithVerdict
      OBVIOUS
    <2>1. CASE FinishJob
      <3> SUFFICES ASSUME NEW j \in Jobs, made'[j] # made[j]
                   PROVE  job[j].status # job'[j].status
                          /\ job'[j].status \in {"COMPLETED", "FAILED"}
        OBVIOUS
      <3>1. j = worker.job
        BY <2>1 DEF FinishJob, TypeOK
      <3>2. job'[j].status = worker.verdict
        BY <2>1, <3>1 DEF FinishJob, TypeOK, JobRow
      <3>3. job[j].status \notin Verdicts
        BY <2>1, <3>1 DEF FinishJob, Safe, WorkerInv
      <3>4. worker.verdict \in Verdicts
        BY DEF TypeOK, WorkerState, Verdicts
      <3> QED BY <3>2, <3>3, <3>4 DEF Verdicts
    <2>2. CASE ~FinishJob
      <3>1. UNCHANGED made
        BY <2>2 DEF Next, WorkerStep, UserStep, Tick, NextJob, SelectRows, ImportRow,
             RejectRow, RowRaises, RowPoisons, Abandon, ApplyMapping, WriteJob, WriteRows,
             HandOver, BreakDeadlock, Forget, BeginMap, BeginImport, Upload, Fail
      <3> QED BY <3>1
    <2> QED BY <2>1, <2>2
  <1> QED BY <1>1, Invariant, PTL DEF Spec, ImportIsAtomic
=============================================================================
