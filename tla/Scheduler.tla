------------------------------ MODULE Scheduler ------------------------------
(***************************************************************************)
(* The scheduling loop of the driver: Scheduler::                          *)
(* runJobsTillCompletionAndShutdownWorkers (src/indexer/Driver.cc) with    *)
(* the callbacks that class Driver passes to it.  The other side of the    *)
(* queues is left open: a response is any that satisfies ResponseContract, *)
(* a receive may time out at any moment, and the compilation database      *)
(* yields any batches of commands.  DriverWorkers.tla closes the system    *)
(* with real queues and workers and implements this specification.         *)
(*                                                                         *)
(* phase is the program counter of the loop:                               *)
(*   start     before the first refill                                     *)
(*   loop      head of the loop                                            *)
(*   assign    assignJobsToIdleWorkers                                     *)
(*   shutdown  shutdownIdleWorkers, with jobs still in progress            *)
(*   receive   processOneOrMoreJobResults: the receive with a timeout      *)
(*   drain     ... its loop of receives that do not wait                   *)
(*   kill      ... terminateLongRunningWorkersAndRespawn                   *)
(*   final     shutdownIdleWorkers before the break                        *)
(*   done      after the loop;  exitFailure  no command to index           *)
(***************************************************************************)
EXTENDS SchedulerState

CONSTANTS
    SendErrors    \* kinds of request that may be too large for a queue

ASSUME SendErrorsAssumption == SendErrors \subseteq {SemaKind, EmitKind}

VARIABLES
    sched,          \* the members of class Scheduler
    phase,          \* program counter, see above
    refillCount,    \* result of the last refillJobs
    nextCommand,    \* ResumableParser::currentIndex
    scan,           \* kill: the next worker to look at
    startedBefore   \* kill: jobs started before this instant are overdue

schedVars == <<sched, phase, refillCount, nextCommand, scan, startedBefore>>

Phases == {"start", "loop", "assign", "shutdown", "receive", "drain", "kill",
           "final", "done", "exitFailure"}

Running == sched.enforce = "holds"

(* Driver::refillCount: the most commands that one batch holds.            *)
RefillLimit == 2 * NumWorkers

(* What parseMore may return at command n: the commands that were not      *)
(* skipped, in the order of the database; none only at its end.            *)
Batches(n) ==
    {b \in UNION {[1 .. k -> Tasks] : k \in 0 .. RefillLimit} :
        /\ \A i \in DOMAIN b : b[i] >= n
        /\ \A i, k \in DOMAIN b : i < k => b[i] < b[k]}

(* refillJobs: the batch is queued and the parser is at command next.      *)
RefillJobs(batch, next) ==
    /\ next \in nextCommand .. NumCommands
    /\ \A i \in DOMAIN batch : batch[i] < next
    /\ batch = <<>> => next = NumCommands
    /\ nextCommand' = next
    /\ refillCount' = Len(batch)
    /\ LET s == QueueSemaTasks(CheckInvariants(sched), batch) IN
       sched' = Enforce(s, Len(s.pendingJobs) = Len(batch))

SchedInit ==
    /\ sched = InitialState
    /\ phase = "start"
    /\ refillCount = 0
    /\ nextCommand = 0
    /\ scan = 0
    /\ startedBefore = 0

------------------------------------------------------------------------------
(***************************************************************************)
(* The loop.                                                               *)
(***************************************************************************)
FirstRefill(batch, next) ==
    /\ Running /\ phase = "start"
    /\ RefillJobs(batch, next)
    /\ phase' = IF batch = <<>> THEN "exitFailure" ELSE "loop"
    /\ UNCHANGED <<scan, startedBefore>>

(* The break of the loop: nothing is pending and nothing is in progress.   *)
LeaveLoop ==
    /\ Running /\ phase = "loop"
    /\ sched.pendingJobs = <<>> /\ sched.wipJobs = {}
    /\ sched' = CheckInvariants(sched)
    /\ phase' = "final"
    /\ UNCHANGED <<refillCount, nextCommand, scan, startedBefore>>

RefillPendingJobs(batch, next) ==
    /\ Running /\ phase = "loop"
    /\ sched.pendingJobs = <<>> /\ sched.wipJobs # {} /\ refillCount # 0
    /\ RefillJobs(batch, next)
    /\ phase' = IF batch = <<>> THEN "shutdown" ELSE "assign"
    /\ UNCHANGED <<scan, startedBefore>>

ContinueWithoutRefillVariant ==
    /\ Running /\ phase = "loop"
    /\ sched.pendingJobs # <<>> \/ sched.wipJobs # {}
    /\ sched' = CheckInvariants(sched)
    /\ phase' = IF sched.pendingJobs = <<>> THEN "shutdown" ELSE "assign"
    /\ UNCHANGED <<refillCount, nextCommand, scan, startedBefore>>

ContinueLoop ==
    /\ Running /\ phase = "loop"
    /\ \/ sched.pendingJobs # <<>>
       \/ sched.wipJobs # {} /\ refillCount = 0
    /\ sched' = CheckInvariants(sched)
    /\ phase' = IF sched.pendingJobs = <<>> THEN "shutdown" ELSE "assign"
    /\ UNCHANGED <<refillCount, nextCommand, scan, startedBefore>>

(* tryAssignJobToWorker for the next pair of an idle worker and a pending  *)
(* job; sent says whether the queue took the request.                      *)
AssignJob(sent) ==
    /\ Running /\ phase = "assign"
    /\ sched.idleWorkers # <<>> /\ sched.pendingJobs # <<>>
    /\ sent \/ SemaKind \in SendErrors
    /\ LET s == ScheduleNextPendingJob(sched) IN
       sched' = CheckInvariants(
                    IF sent THEN s
                    ELSE DescheduleJobDueToSendError(s,
                            Head(sched.idleWorkers), Head(sched.pendingJobs)))
    /\ UNCHANGED <<phase, refillCount, nextCommand, scan, startedBefore>>

ShutdownIdleWorker ==
    /\ Running /\ phase \in {"shutdown", "final"}
    /\ sched.idleWorkers # <<>>
    /\ sched' = StopNextIdleWorker(sched)
    /\ UNCHANGED <<phase, refillCount, nextCommand, scan, startedBefore>>

BeginReceive ==
    /\ Running
    /\ \/ phase = "assign" /\ (sched.idleWorkers = <<>> \/ sched.pendingJobs = <<>>)
       \/ phase = "shutdown" /\ sched.idleWorkers = <<>>
    /\ sched' = Enforce(sched, sched.wipJobs # {})
    /\ phase' = "receive"
    /\ UNCHANGED <<refillCount, nextCommand, scan, startedBefore>>

------------------------------------------------------------------------------
(***************************************************************************)
(* processOneOrMoreJobResults.                                             *)
(***************************************************************************)

(* What the driver relies on: a response names the worker that its job was *)
(* assigned to, has the job's kind, and comes once.  After the response    *)
(* the job is neither current nor possibly errored.                        *)
ResponseContract(w, j, kind) ==
    /\ kind = JobKind(j)
    /\ sched.assignedWorker[j] = w
    /\ sched.currentlyProcessing[w] = j \/ j \in sched.maybeErroredJobs

HandleResponse(w, j, kind, sent) ==
    /\ Running /\ phase \in {"receive", "drain"}
    /\ sent \/ EmitKind \in SendErrors
    /\ sched' = ProcessResponse(sched, w, j, kind, sent)
    /\ phase' = "drain"
    /\ UNCHANGED <<refillCount, nextCommand, scan, startedBefore>>

BeginScan(instant) ==
    /\ sched' = CheckInvariants(sched)
    /\ phase' = "kill"
    /\ startedBefore' = instant
    /\ scan' = 0
    /\ UNCHANGED <<refillCount, nextCommand>>

(* The timeout is as long as the limit on a job, and every job in progress *)
(* was started before the receive began.                                   *)
ReceiveTimeout ==
    /\ Running /\ phase = "receive"
    /\ BeginScan(sched.clock)

(* now - workerTimeout lies anywhere between the starts of two jobs.       *)
StopDraining(instant) ==
    /\ Running /\ phase = "drain"
    /\ BeginScan(instant)

Deadlines ==
    {0} \cup {sched.startTime[w] + 1 : w \in {v \in Workers : sched.status[v] = "Busy"}}

ScanWorker ==
    /\ Running /\ phase = "kill" /\ scan < NumWorkers
    /\ sched' = TerminateIfLongRunning(sched, scan, startedBefore)
    /\ scan' = scan + 1
    /\ UNCHANGED <<phase, refillCount, nextCommand, startedBefore>>

EndScan ==
    /\ Running /\ phase = "kill" /\ scan = NumWorkers
    /\ phase' = "loop"
    /\ scan' = 0
    /\ startedBefore' = 0
    /\ UNCHANGED <<sched, refillCount, nextCommand>>

(* After the loop: every worker has been told to stop.                     *)
Finish ==
    /\ Running /\ phase = "final" /\ sched.idleWorkers = <<>>
    /\ sched' = Enforce(CheckInvariants(sched),
                        Len(sched.stoppedWorkers) = NumWorkers)
    /\ phase' = "done"
    /\ UNCHANGED <<refillCount, nextCommand, scan, startedBefore>>

(* The process has returned from the loop or has exited.                   *)
LoopOver == ~ Running \/ phase \in {"done", "exitFailure"}

StayOver == LoopOver /\ UNCHANGED schedVars

SchedNext ==
    \/ \E batch \in Batches(nextCommand), next \in 0 .. NumCommands :
          FirstRefill(batch, next) \/ RefillPendingJobs(batch, next)
    \/ LeaveLoop
    \/ ContinueLoop
    \/ \E sent \in BOOLEAN : AssignJob(sent)
    \/ ShutdownIdleWorker
    \/ BeginReceive
    \/ \E w \in Workers, j \in JobIds, kind \in {SemaKind, EmitKind}, sent \in BOOLEAN :
          ResponseContract(w, j, kind) /\ HandleResponse(w, j, kind, sent)
    \/ ReceiveTimeout
    \/ \E instant \in Deadlines : StopDraining(instant)
    \/ ScanWorker
    \/ EndScan
    \/ Finish
    \/ StayOver

SchedSpec == SchedInit /\ [][SchedNext]_schedVars

------------------------------------------------------------------------------
(***************************************************************************)
(* Properties.                                                             *)
(***************************************************************************)

(* The types of the members of class Scheduler and of the loop's locals.   *)
TypeOK ==
    /\ sched \in SchedulerStates
    /\ phase \in Phases
    /\ refillCount \in Nat
    /\ nextCommand \in 0 .. NumCommands
    /\ scan \in 0 .. NumWorkers
    /\ startedBefore \in Nat

(* None of the ENFORCEs of class Scheduler fails and no empty optional is  *)
(* read, in whatever order results, late results and timeouts arrive.      *)
NoEnforceFails == Running

(* The invariants in the comments of pendingJobs, wipJobs and              *)
(* maybeErroredJobs: a job in progress is processed by exactly one worker, *)
(* the one it was assigned to, and a job that is pending or given up on    *)
(* by none; the three collections are disjoint.                            *)
JobsMatchWorkers ==
    LET processing(j) == {w \in Workers : sched.currentlyProcessing[w] = j}
        pending == Elems(sched.pendingJobs) IN
    /\ \A j \in sched.wipJobs : processing(j) = {sched.assignedWorker[j]}
    /\ \A j \in pending \cup sched.maybeErroredJobs : processing(j) = {}
    /\ pending \cap sched.maybeErroredJobs = {}

(* The deques are a partition of the pool: a worker is in idleWorkers or   *)
(* in stoppedWorkers, once, exactly if its status says so.                 *)
QueuesMatchStatus ==
    LET has(st) == {w \in Workers : sched.status[w] = st} IN
    /\ Elems(sched.idleWorkers) = has("Idle") /\ Distinct(sched.idleWorkers)
    /\ Elems(sched.stoppedWorkers) = has("Stopped") /\ Distinct(sched.stoppedWorkers)

(* A stopped worker is never missed: once a worker was stopped there is    *)
(* nothing pending, and either the loop is over or the compilation         *)
(* database has no more commands to give.                                  *)
StoppedWorkersNotNeeded ==
    sched.stoppedWorkers # <<>> =>
        /\ sched.pendingJobs = <<>>
        /\ refillCount = 0 \/ phase \in {"final", "done"}

(* After a receive that timed out, the scan has given up on every job in   *)
(* progress, because all of them started before the receive did.           *)
TimeoutClearsPool ==
    phase = "kill" /\ startedBefore = sched.clock /\ scan = NumWorkers
        => sched.wipJobs = {}

(* The scheduler implements the lifecycle of jobs.                         *)
JobStateOf(j) ==
    IF j \in Elems(sched.pendingJobs) THEN "pending"
    ELSE IF j \in sched.wipJobs THEN "wip"
    ELSE IF j \in sched.maybeErroredJobs THEN "maybeErrored"
    ELSE IF j \in sched.allJobList THEN "settled"
    ELSE "unknown"

jobStates == [j \in JobIds |-> JobStateOf(j)]

Lifecycle == INSTANCE JobLifecycle WITH
    PoolSize <- NumWorkers,
    jobState <- jobStates

(* Every step of the loop is a step of JobLifecycle or leaves all jobs     *)
(* where they are: jobs run at most once, and never more than workers.     *)
ImplementsLifecycle == Lifecycle!LifecycleSpec
=============================================================================
