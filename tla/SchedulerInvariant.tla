------------------------- MODULE SchedulerInvariant -------------------------
(***************************************************************************)
(* An inductive invariant of the scheduling loop.  The comments in class   *)
(* Scheduler relate the jobs to the workers; none of them is preserved by  *)
(* every step on its own.  What is missing is the role of assignedWorker   *)
(* (a job has one before it runs and keeps it), the fact that a task has   *)
(* an emission only after its analysis left every collection, and where in *)
(* the loop there is work.                                                 *)
(***************************************************************************)
EXTENDS Scheduler

(* idleWorkers and stoppedWorkers list the workers of that status, once.   *)
IdleInv(s) ==
    /\ Distinct(s.idleWorkers)
    /\ \A w \in Workers : w \in Elems(s.idleWorkers) <=> s.status[w] = "Idle"

StoppedInv(s) ==
    /\ Distinct(s.stoppedWorkers)
    /\ \A w \in Workers : w \in Elems(s.stoppedWorkers) <=> s.status[w] = "Stopped"

BusyInv(s) ==
    \A w \in Workers :
        /\ s.status[w] = "Busy" <=> s.currentlyProcessing[w] # None
        /\ s.status[w] = "Busy" => s.startTime[w] < s.clock

(* A worker's job is in progress and assigned to it, and conversely.       *)
WipInv(s) ==
    /\ \A w \in Workers : s.currentlyProcessing[w] # None =>
          /\ s.currentlyProcessing[w] \in s.wipJobs
          /\ s.assignedWorker[s.currentlyProcessing[w]] = w
    /\ \A j \in s.wipJobs :
          /\ j \in s.allJobList
          /\ s.assignedWorker[j] \in Workers
          /\ s.currentlyProcessing[s.assignedWorker[j]] = j

(* Pending jobs are analyses that were never assigned.                     *)
PendingInv(s) ==
    /\ Distinct(s.pendingJobs)
    /\ \A j \in Elems(s.pendingJobs) :
          j \in s.allJobList /\ s.assignedWorker[j] = None /\ j[2] = 0

(* A job that was given up on was assigned, and is no longer in progress.  *)
ErroredInv(s) ==
    \A j \in s.maybeErroredJobs :
        j \in s.allJobList /\ s.assignedWorker[j] \in Workers /\ j \notin s.wipJobs

(* Only known jobs are assigned, and an emission is known only after its   *)
(* analysis was completed.                                                 *)
KnownInv(s) ==
    /\ \A j \in JobIds : j \notin s.allJobList => s.assignedWorker[j] = None
    /\ \A t \in Tasks : <<t, 1>> \in s.allJobList =>
          /\ <<t, 0>> \in s.allJobList
          /\ <<t, 0>> \notin s.wipJobs
          /\ <<t, 0>> \notin s.maybeErroredJobs
          /\ <<t, 0>> \notin Elems(s.pendingJobs)

StateInv(s) ==
    /\ IdleInv(s)
    /\ StoppedInv(s)
    /\ BusyInv(s)
    /\ WipInv(s)
    /\ PendingInv(s)
    /\ ErroredInv(s)
    /\ KnownInv(s)
    /\ IsFiniteSet(s.wipJobs)
    /\ CountsAddUp(s)

(* Where the loop has work.  Only a request for an analysis that does not  *)
(* fit into its queue can leave the loop without any.                      *)
LoopInv ==
    /\ phase = "start" => sched.pendingJobs = <<>> /\ sched.stoppedWorkers = <<>>
    /\ phase = "assign" /\ SemaKind \notin SendErrors =>
          sched.pendingJobs # <<>> \/ sched.wipJobs # {}
    /\ phase = "shutdown" =>
          sched.wipJobs # {} /\ sched.pendingJobs = <<>> /\ refillCount = 0
    /\ phase \in {"final", "done"} =>
          sched.wipJobs = {} /\ sched.pendingJobs = <<>>
    /\ StoppedWorkersNotNeeded
    /\ \A j \in sched.allJobList : j[1] < nextCommand
    /\ phase = "kill" =>
          \A w \in Workers : w < scan => ~ IsLongRunning(sched, w, startedBefore)

(* Nothing is claimed of the members after an ENFORCE failed.              *)
IndInv ==
    /\ TypeOK
    /\ Running => StateInv(sched) /\ LoopInv
    /\ SendErrors = {} => Running
=============================================================================
