--------------------------- MODULE SchedulerState ---------------------------
(***************************************************************************)
(* The bookkeeping of class Scheduler (src/indexer/Driver.cc): which job   *)
(* is pending, in progress or given up on, and which worker is idle, busy  *)
(* or stopped.  The fields of the class are the fields of one record, and  *)
(* every method that changes them is an operator from a record to a        *)
(* record, so that a caller that runs several methods is their             *)
(* composition.                                                            *)
(*                                                                         *)
(* A failed ENFORCE ends the process with std::exit, and a value() of an   *)
(* empty optional ends it with an uncaught exception.  Both set the field  *)
(* enforce to "failed"; the specifications take no further driver step     *)
(* from such a state.                                                      *)
(***************************************************************************)
EXTENDS Naturals, Sequences, FiniteSets

CONSTANTS
    NumWorkers,   \* size of the worker pool, fixed by spawnWorkers
    NumCommands,  \* compdbCommandCount: entries of the compilation database
    None          \* std::nullopt, and the id of the shutdown message

Workers == 0 .. (NumWorkers - 1)

Tasks == 0 .. (NumCommands - 1)

(* A JobId is a task (index in the compilation database) and a subtask:    *)
(* 0 is the semantic analysis, 1 the emission of the index.                *)
JobIds == Tasks \X {0, 1}

ASSUME NumWorkersAssumption == NumWorkers \in Nat \ {0}
ASSUME NumCommandsAssumption == NumCommands \in Nat
ASSUME NoneAssumption == None \notin Workers /\ None \notin JobIds

(* Definitions named ...Variant are slips that this code could have had;   *)
(* a property that is worth its run notices one of them.                   *)
NewTaskOneBasedVariant(t) == <<t + 1, 0>>

NewTask(t) == <<t, 0>>

NextSubtask(j) == <<j[1], j[2] + 1>>

SemaKind == "SemanticAnalysis"

EmitKind == "EmitIndex"

(* allJobList[j].job.kind: queueSemaTask stores only analyses, under       *)
(* subtask 0, and processWorkerResponse creates only emissions, under 1.   *)
JobKind(j) == IF j[2] = 0 THEN SemaKind ELSE EmitKind

SchedulerStates ==
    [status              : [Workers -> {"Idle", "Busy", "Stopped"}],
     currentlyProcessing : [Workers -> JobIds \cup {None}],
     startTime           : [Workers -> Nat],
     idleWorkers         : Seq(Workers),
     stoppedWorkers      : Seq(Workers),
     allJobList          : SUBSET JobIds,
     assignedWorker      : [JobIds -> Workers \cup {None}],
     pendingJobs         : Seq(JobIds),
     wipJobs             : SUBSET JobIds,
     maybeErroredJobs    : SUBSET JobIds,
     clock               : Nat,
     enforce             : {"holds", "failed"}]

(* Elements of a deque or a vector, and that none occurs twice.            *)
Elems(q) == {q[i] : i \in DOMAIN q}

Distinct(q) == \A i, k \in DOMAIN q : q[i] = q[k] => i = k

(* initializeWorkers, on the members of a fresh Scheduler: every worker    *)
(* is spawned idle, in the order of its id.                                *)
InitialState ==
    [status              |-> [w \in Workers |-> "Idle"],
     currentlyProcessing |-> [w \in Workers |-> None],
     startTime           |-> [w \in Workers |-> 0],
     idleWorkers         |-> [i \in 1 .. NumWorkers |-> i - 1],
     stoppedWorkers      |-> <<>>,
     allJobList          |-> {},
     assignedWorker      |-> [j \in JobIds |-> None],
     pendingJobs         |-> <<>>,
     wipJobs             |-> {},
     maybeErroredJobs    |-> {},
     clock               |-> 0,
     enforce             |-> "holds"]

Enforce(s, cond) == IF cond THEN s ELSE [s EXCEPT !.enforce = "failed"]

(* The number of jobs in progress, idle and stopped workers adds up.       *)
CountsAddUp(s) ==
    Cardinality(s.wipJobs) + Len(s.idleWorkers) + Len(s.stoppedWorkers)
        = NumWorkers

CheckInvariants(s) == Enforce(s, CountsAddUp(s))

PopFront(q) == IF q = <<>> THEN q ELSE Tail(q)

PopBack(q) == IF q = <<>> THEN q ELSE SubSeq(q, 1, Len(q) - 1)

(***************************************************************************)
(* The state of one worker.                                                *)
(***************************************************************************)
MarkWorkerIdlePushBackVariant(s, w) ==
    [Enforce(s, s.currentlyProcessing[w] # None /\ s.status[w] = "Busy") EXCEPT
        !.currentlyProcessing[w] = None,
        !.status[w] = "Idle",
        !.idleWorkers = Append(@, w)]

MarkWorkerIdle(s, w) ==
    [Enforce(s, s.currentlyProcessing[w] # None /\ s.status[w] = "Busy") EXCEPT
        !.currentlyProcessing[w] = None,
        !.status[w] = "Idle",
        !.idleWorkers = <<w>> \o @]

(* steady_clock::now() is read once per scheduled job and only compared,   *)
(* so a counter of those reads stands for it.                              *)
MarkWorkerBusy(s, w, j) ==
    [Enforce(s, s.status[w] = "Idle" /\ s.currentlyProcessing[w] = None) EXCEPT
        !.status[w] = "Busy",
        !.currentlyProcessing[w] = j,
        !.startTime[w] = s.clock,
        !.clock = @ + 1]

MarkWorkerStopped(s, w) ==
    [Enforce(s, s.currentlyProcessing[w] = None /\ s.status[w] = "Idle") EXCEPT
        !.status[w] = "Stopped",
        !.stoppedWorkers = Append(@, w)]

(***************************************************************************)
(* Jobs.                                                                   *)
(***************************************************************************)

(* queueSemaTask for every command that one refill parsed.                 *)
QueueSemaTasks(s, batch) ==
    LET jobs == [i \in DOMAIN batch |-> NewTask(batch[i])] IN
    [Enforce(s, Elems(jobs) \cap s.allJobList = {} /\ Distinct(batch))
     EXCEPT !.allJobList = @ \cup Elems(jobs),
            !.pendingJobs = @ \o jobs]

ScheduleJobOnWorker(s, w, j) ==
    [MarkWorkerBusy(Enforce(s, /\ w \notin Elems(s.idleWorkers)
                               /\ j \in s.wipJobs
                               /\ j \in s.allJobList
                               /\ s.assignedWorker[j] = None), w, j)
     EXCEPT !.assignedWorker[j] = w]

(* The body of the loop of assignJobsToIdleWorkers up to the send: both    *)
(* deques are not empty.                                                   *)
ScheduleNextPendingJob(s) ==
    LET j == Head(s.pendingJobs)
        w == Head(s.idleWorkers) IN   \* claimIdleWorker
    ScheduleJobOnWorker(
        [Enforce(s, j \notin s.wipJobs) EXCEPT
            !.pendingJobs = Tail(@),
            !.wipJobs = @ \cup {j},
            !.idleWorkers = Tail(@)], w, j)

CreateSubtaskAndScheduleOnWorker(s, w, previous) ==
    LET j == NextSubtask(previous) IN
    ScheduleJobOnWorker(
        [Enforce(s, s.idleWorkers # <<>> /\ Head(s.idleWorkers) = w) EXCEPT
            !.allJobList = @ \cup {j},
            !.wipJobs = @ \cup {j},
            !.idleWorkers = PopFront(@)], w, j)

CheckAssignedWorker(s, w, j) ==
    Enforce(s, j \in s.allJobList /\ s.assignedWorker[j] = w)

DescheduleJobDueToSendError(s, w, j) ==
    [MarkWorkerIdle(Enforce(CheckAssignedWorker(s, w, j), j \in s.wipJobs), w)
     EXCEPT !.wipJobs = @ \ {j}]

IsCurrentJobByAssignmentVariant(s, w, j) == s.assignedWorker[j] = w

(* markCompleted returns a worker only if the job is the one that worker   *)
(* is processing; otherwise the worker was terminated before the driver    *)
(* read its result.                                                        *)
IsCurrentJob(s, w, j) == s.currentlyProcessing[w] = j

MarkCompleted(s, w, j, responseKind) ==
    LET e == CheckAssignedWorker(Enforce(s, JobKind(j) = responseKind), w, j) IN
    IF IsCurrentJob(s, w, j)
    THEN [MarkWorkerIdle(Enforce(e, j \in s.wipJobs), w) EXCEPT
             !.wipJobs = @ \ {j}]
    ELSE [Enforce(e, j \in s.maybeErroredJobs) EXCEPT
             !.maybeErroredJobs = @ \ {j}]

TerminateWithoutResetVariant(s, w) ==
    LET j == s.currentlyProcessing[w] IN
    [s EXCEPT !.wipJobs = @ \ {j},
              !.maybeErroredJobs = @ \cup {j},
              !.status[w] = "Idle",
              !.idleWorkers = Append(@, w)]

TerminateAndForgetVariant(s, w) ==
    [s EXCEPT !.wipJobs = @ \ {s.currentlyProcessing[w]},
              !.status[w] = "Idle",
              !.currentlyProcessing[w] = None,
              !.idleWorkers = Append(@, w)]

TerminateAndRetryVariant(s, w) ==
    LET j == s.currentlyProcessing[w] IN
    [s EXCEPT !.wipJobs = @ \ {j},
              !.pendingJobs = Append(@, j),
              !.assignedWorker[j] = None,
              !.status[w] = "Idle",
              !.currentlyProcessing[w] = None,
              !.idleWorkers = Append(@, w)]

TerminateRunningWorker(s, w) ==
    LET j == s.currentlyProcessing[w] IN
    IF j = None
    THEN [s EXCEPT !.enforce = "failed"]   \* currentlyProcessing.value()
    ELSE CheckInvariants(
            [Enforce(s, j \in s.wipJobs) EXCEPT
                !.wipJobs = @ \ {j},
                !.maybeErroredJobs = @ \cup {j},
                !.status[w] = "Idle",
                !.currentlyProcessing[w] = None,
                !.startTime[w] = 0,
                !.idleWorkers = Append(@, w)])

IsLongRunningOneLateVariant(s, w, startedBefore) ==
    s.status[w] = "Busy" /\ s.startTime[w] + 1 < startedBefore

(* One round of the loop of terminateLongRunningWorkersAndRespawn.         *)
IsLongRunning(s, w, startedBefore) ==
    s.status[w] = "Busy" /\ s.startTime[w] < startedBefore

TerminateIfLongRunning(s, w, startedBefore) ==
    IF IsLongRunning(s, w, startedBefore) THEN TerminateRunningWorker(s, w)
                                          ELSE s

NextWorkerToStopFrontVariant(s) == Head(s.idleWorkers)

(* One round of the loop of shutdownIdleWorkers.                           *)
NextWorkerToStop(s) == s.idleWorkers[Len(s.idleWorkers)]

StopNextIdleWorker(s) ==
    MarkWorkerStopped([s EXCEPT !.idleWorkers = PopBack(@)],
                      NextWorkerToStop(s))

(* The scheduler's part of Driver::processWorkerResponse: an analysis that *)
(* its worker is still known for is followed by its emission, on the same  *)
(* worker.  sent says whether the queue took the new request.              *)
ProcessResponse(s, w, j, responseKind, sent) ==
    LET m == MarkCompleted(s, w, j, responseKind)
        c == CreateSubtaskAndScheduleOnWorker(m, w, j)
        d == DescheduleJobDueToSendError(c, w, NextSubtask(j)) IN
    IF ~ IsCurrentJob(s, w, j) \/ responseKind = EmitKind THEN m
    ELSE IF sent THEN c
    ELSE TerminateRunningWorker(d, w)
=============================================================================
