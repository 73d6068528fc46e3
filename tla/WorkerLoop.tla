----------------------------- MODULE WorkerLoop -----------------------------
(***************************************************************************)
(* The one worker process (worker/main.py): at every tick it generates the *)
(* PENDING reports of each organisation, runs the imports, and in one hour *)
(* of the day scans every organisation for attention signals.  Reports are *)
(* requested through the API meanwhile.  What a tick imports is the matter *)
(* of ImportPipeline and what a scan writes that of AttentionEngine: here  *)
(* they take time, and may raise.                                          *)
(*                                                                         *)
(* The process may die at any point (Crash) and may or may not be started  *)
(* again; last_scan_date is a local of main() and does not survive.  The   *)
(* hours of a day are those before, at and after ATTENTION_SCAN_HOUR_UTC.  *)
(***************************************************************************)
EXTENDS Integers, Sequences, FiniteSets, SequencesExt

CONSTANTS
    Organisations,
    Limit,         \* process_pending_report_jobs: limit
    MaxJobs,       \* bound: reports requested
    MaxFaults,     \* bound: crashes, raising scans and statements the database refuses
    LastDay        \* bound: the clock stops at the end of this day

ASSUME WorkerAssumption == Limit \in Nat \ {0} /\ MaxJobs \in Nat /\ MaxFaults \in Nat /\ LastDay \in Nat \ {0}

ReportJobStatus == {"PENDING", "RUNNING", "READY", "FAILED"}
Hours == 0..2
ATTENTION_SCAN_HOUR_UTC == 1
Never == 0         \* last_scan_date: None

VARIABLES
    job,           \* report_jobs, in the order of requested_at
    worker,        \* where the process stands: pc, the organisations left, its jobs, its scan's day
    last_scan_date,
    now,           \* the clock: day and hour
    faults,        \* crashes and database errors so far
    abandoned,     \* observer: jobs whose RUNNING was committed and whose outcome was lost
    checked,       \* observer: days on which a tick reached the scan's check within the hour
    broken,        \* observer: days on which a scan raised or the process died
    scans          \* observer: how often each day's scan committed each organisation

workerVars == <<job, worker, last_scan_date, now, faults, abandoned, checked, broken, scans>>

Asleep == [pc |-> "sleep", left |-> {}, jobs |-> <<>>, day |-> Never]
Tick(pc, left, jobs) == [pc |-> pc, left |-> left, jobs |-> jobs, day |-> Never]

WorkerInit ==
    /\ job = <<>> /\ worker = Asleep /\ last_scan_date = Never
    /\ now = [day |-> 1, hour |-> 0]
    /\ faults = 0 /\ abandoned = {} /\ checked = {} /\ broken = {}
    /\ scans = [d \in 1..LastDay |-> [o \in Organisations |-> 0]]

Doing(pc) == worker.pc = pc
Fault  == faults < MaxFaults /\ faults' = faults + 1
Quiet  == UNCHANGED <<faults, abandoned, broken>>
Outside == UNCHANGED <<last_scan_date, now, checked, scans>>

-----------------------------------------------------------------------------
\* Reports.

create_report_job(o) == Append(job, [organisation_id |-> o, status |-> "PENDING"])

RequestReport(o) ==
    /\ Len(job) < MaxJobs
    /\ job' = create_report_job(o)
    /\ UNCHANGED <<worker>> /\ Quiet /\ Outside

set_status(i, s) == [job EXCEPT ![i].status = s]

Wake ==
    /\ Doing("sleep")
    /\ worker' = Tick("reports", Organisations, <<>>)
    /\ UNCHANGED job /\ Quiet /\ Outside

\* The oldest PENDING jobs of an organisation, at most Limit of them.
pending_ids(o) ==
    LET ids == {i \in 1..Len(job) : job[i].organisation_id = o /\ job[i].status = "PENDING"}
        all == SetToSortSeq(ids, <)
    IN  SubSeq(all, 1, IF Len(all) < Limit THEN Len(all) ELSE Limit)

ListPendingReports ==
    /\ Doing("reports") /\ worker.jobs = <<>>
    /\ \E o \in worker.left : worker' = Tick("reports", worker.left \ {o}, pending_ids(o))
    /\ UNCHANGED job /\ Quiet /\ Outside

StartReport ==
    /\ Doing("reports") /\ worker.jobs # <<>> /\ job[Head(worker.jobs)].status = "PENDING"
    /\ job' = set_status(Head(worker.jobs), "RUNNING")
    /\ worker' = [worker EXCEPT !.pc = "render"]
    /\ Quiet /\ Outside

\* Mutant: the outcome is set in the try block only.
outcomes_of_try == {"READY", "RUNNING"}
\* READY at the end of the try block, FAILED in its except.
outcomes == {"READY", "FAILED"}

FinishReport ==
    /\ Doing("render")
    /\ \E s \in outcomes : job' = set_status(Head(worker.jobs), s)
    /\ worker' = Tick("reports", worker.left, Tail(worker.jobs))
    /\ Quiet /\ Outside

\* A commit the database refuses leaves process_pending_report_jobs, and main() goes on
\* to the imports.  Setting FAILED after a failed statement of _build_content is one.
LoseReportCommit ==
    /\ Doing("render") \/ (Doing("reports") /\ worker.jobs # <<>>)
    /\ Fault
    /\ abandoned' = IF Doing("render") THEN abandoned \union {Head(worker.jobs)} ELSE abandoned
    /\ worker' = Tick("imports", {}, <<>>)
    /\ UNCHANGED <<job, broken>> /\ Outside

ReportsDone ==
    /\ Doing("reports") /\ worker.jobs = <<>> /\ worker.left = {}
    /\ worker' = Tick("imports", {}, <<>>)
    /\ UNCHANGED job /\ Quiet /\ Outside

\* process_pending_import_jobs ends or raises; either way the tick goes on.
Imports ==
    /\ Doing("imports")
    /\ worker' = Tick("check", {}, <<>>)
    /\ UNCHANGED job /\ Quiet /\ Outside

-----------------------------------------------------------------------------
\* The nightly scan.

ScanDue == now.hour = ATTENTION_SCAN_HOUR_UTC /\ last_scan_date # now.day

CheckHour ==
    /\ Doing("check")
    /\ worker' = IF ScanDue THEN [pc |-> "scan", left |-> Organisations, jobs |-> <<>>, day |-> now.day]
                            ELSE Asleep
    /\ checked' = IF now.hour = ATTENTION_SCAN_HOUR_UTC THEN checked \union {now.day} ELSE checked
    /\ UNCHANGED <<job, last_scan_date, now, scans>> /\ Quiet

ScanOrganisation ==
    /\ Doing("scan")
    /\ \E o \in worker.left :
        /\ worker' = [worker EXCEPT !.left = @ \ {o}]
        /\ scans'  = [scans EXCEPT ![worker.day][o] = @ + 1]
    /\ UNCHANGED <<job, last_scan_date, now, checked>> /\ Quiet

\* Mutant: the date is read when the scan is over.
date_after_scan == now.day
\* `now` was read before the scan began.
date_of_scan == worker.day

ScanDone ==
    /\ Doing("scan") /\ worker.left = {}
    /\ last_scan_date' = date_of_scan
    /\ worker' = Asleep
    /\ UNCHANGED <<job, now, checked, scans>> /\ Quiet

\* An exception in one organisation leaves the loop; the day counts as scanned.
ScanRaises ==
    /\ Doing("scan") /\ worker.left # {}
    /\ Fault
    /\ last_scan_date' = date_of_scan
    /\ broken' = broken \union {worker.day}
    /\ worker' = Asleep
    /\ UNCHANGED <<job, now, abandoned, checked, scans>>

-----------------------------------------------------------------------------
\* The process and the clock.

Crash ==
    /\ ~Doing("down")
    /\ Fault
    /\ worker' = [Asleep EXCEPT !.pc = "down"]
    /\ last_scan_date' = Never
    /\ abandoned' = IF Doing("render") THEN abandoned \union {Head(worker.jobs)} ELSE abandoned
    /\ broken' = broken \union {now.day} \union (IF Doing("scan") THEN {worker.day} ELSE {})
    /\ UNCHANGED <<job, now, checked, scans>>

Start ==
    /\ Doing("down")
    /\ worker' = Asleep
    /\ UNCHANGED job /\ Quiet /\ Outside

AdvanceClock ==
    /\ now' = IF now.hour < 2 THEN [now EXCEPT !.hour = @ + 1] ELSE [day |-> now.day + 1, hour |-> 0]
    /\ now'.day <= LastDay
    /\ UNCHANGED <<job, worker, last_scan_date, checked, scans>> /\ Quiet

\* What the process does of itself while it runs.
Work ==
    \/ Wake \/ ListPendingReports \/ StartReport \/ FinishReport \/ ReportsDone \/ Imports
    \/ CheckHour \/ ScanOrganisation \/ ScanDone

WorkerNext ==
    \/ \E o \in Organisations : RequestReport(o)
    \/ Wake \/ ListPendingReports \/ StartReport \/ FinishReport \/ LoseReportCommit \/ ReportsDone
    \/ Imports \/ CheckHour \/ ScanOrganisation \/ ScanDone \/ ScanRaises
    \/ Crash \/ Start \/ AdvanceClock

WorkerSpec == WorkerInit /\ [][WorkerNext]_workerVars

-----------------------------------------------------------------------------
\* Every report requested ends READY or FAILED, or was being generated when the process
\* died or its commit was lost (RUNNING for good: nothing selects it again), unless the
\* process stays down.
Settled(i) == i \in abandoned \/ (i <= Len(job) /\ job[i].status \in {"READY", "FAILED"})

ReportsSettle ==
    \/ <>[](worker.pc = "down")
    \/ \A i \in 1..MaxJobs : (Len(job) >= i) ~> Settled(i)

\* A day on which a tick reached the check within the hour has every organisation scanned
\* exactly once, when its scan is over, unless the scan raised or the process died that day.
ScanAccounted ==
    \A d \in checked \ broken :
        worker.day = d \/ \A o \in Organisations : scans[d][o] = 1
=============================================================================
