---------------------------- MODULE JobFlowProofs ----------------------------
(***************************************************************************)
(* Proofs about the jobs between the driver and the workers, for runs in   *)
(* which every command gets an analysis: no job is duplicated, every       *)
(* response keeps the contract that the scheduler relies on, and every     *)
(* file of a merged unit is in the index unless its unit failed.           *)
(***************************************************************************)
EXTENDS DriverWorkersProofs

------------------------------------------------------------------------------
(***************************************************************************)
(* Where the jobs are.                                                     *)
(***************************************************************************)

(* A new request is the only new copy in the queues.                       *)
LEMMA PutsRequest ==
    ASSUME NEW w \in Workers, NEW r, Puts(w, r), NEW v \in Workers, NEW j
    PROVE  HasRequest(v, j)' <=> HasRequest(v, j) \/ (v = w /\ r.id = j)
BY DEF Puts, HasRequest

(* Taking a request removes its copy from the queue.                       *)
LEMMA TakesRequest ==
    ASSUME NEW w \in Workers, Takes(w), NEW v \in Workers, NEW j
    PROVE  HasRequest(v, j)' <=> HasRequest(v, j) /\ v # w
BY DEF Takes, HasRequest

(* A process that turns to p has the job of p in hand.                     *)
LEMMA TurnsHand ==
    ASSUME NEW w \in Workers, NEW p, Turns(w, p), NEW v \in Workers, NEW j
    PROVE  InHand(v, j)' <=> IF v = w THEN p.job = j /\ p.pc \in {"sema"} \cup EmitPcs
                                      ELSE InHand(v, j)
BY DEF Turns, InHand, EmitPcs

(* A process that drops its work takes nothing else in hand.               *)
LEMMA DropsHand ==
    ASSUME NEW w \in Workers, Drops(w), NEW v \in Workers, NEW j, InHand(v, j)'
    PROVE  InHand(v, j)
<1>1. PICK p \in ProcessStates : AtRest(p) /\ Turns(w, p)
  BY DEF Drops
<1> QED BY <1>1, TurnsHand DEF AtRest, EmitPcs

(* A reported result is the only new copy on the way to the driver.        *)
LEMMA ReportsResponse ==
    ASSUME NEW r, Reports(r), NEW v, NEW j
    PROVE  HasResponse(v, j)' <=> HasResponse(v, j) \/ (r.worker = v /\ r.job = j)
BY DEF Reports, HasResponse

(* A result that is read is no longer on its way, and no other is lost.    *)
LEMMA PopsResponse ==
    ASSUME CopiesInv, NEW r, Pops(r), NEW v, NEW j
    PROVE  HasResponse(v, j)' <=> HasResponse(v, j) /\ ~ (r.worker = v /\ r.job = j)
<1>1. Elems(w2d') = Elems(w2d) \ {r} /\ r \in Elems(w2d)
  BY DEF Pops, CopiesInv
<1>2. \A q \in Elems(w2d) : q.job = r.job => q = r
  BY <1>1 DEF CopiesInv
<1> QED BY <1>1, <1>2 DEF HasResponse

(* What does not change holds the copies it did.                           *)
LEMMA SameCopies ==
    /\ UNCHANGED d2w => \A v, j : HasRequest(v, j)' = HasRequest(v, j)
    /\ UNCHANGED proc => \A v, j : InHand(v, j)' = InHand(v, j)
    /\ UNCHANGED w2d => \A v, j : HasResponse(v, j)' = HasResponse(v, j)
BY DEF HasRequest, InHand, HasResponse

------------------------------------------------------------------------------
(***************************************************************************)
(* What the driver does to its jobs.                                       *)
(***************************************************************************)

(* Steps that leave the jobs in progress alone.                            *)
LeavesJobs(s, t) ==
    /\ t.currentlyProcessing = s.currentlyProcessing
    /\ \A j \in JobIds : s.assignedWorker[j] # None =>
          t.assignedWorker[j] = s.assignedWorker[j]
    /\ t.maybeErroredJobs = s.maybeErroredJobs
    /\ s.allJobList \subseteq t.allJobList
    /\ \A u \in Tasks : <<u, 1>> \in t.allJobList => <<u, 1>> \in s.allJobList
    /\ t.wipJobs = s.wipJobs

(* A failed ENFORCE and a killed driver leave the jobs alone.              *)
LEMMA EnforceLeavesJobs ==
    ASSUME NEW s \in SchedulerStates, NEW c
    PROVE  LeavesJobs(s, Enforce(s, c)) /\ LeavesJobs(s, [s EXCEPT !.enforce = "failed"])
<1>1. LeavesJobs(s, s)
  BY DEF LeavesJobs
<1>2. LET t == [s EXCEPT !.enforce = "failed"] IN
      /\ t.currentlyProcessing = s.currentlyProcessing
      /\ t.assignedWorker = s.assignedWorker
      /\ t.maybeErroredJobs = s.maybeErroredJobs
      /\ t.allJobList = s.allJobList
      /\ t.wipJobs = s.wipJobs
  BY DEF SchedulerStates
<1>3. LeavesJobs(s, [s EXCEPT !.enforce = "failed"])
  BY <1>2 DEF LeavesJobs
<1> QED BY <1>1, <1>3 DEF Enforce

(* A job that was not assigned and could not be sent is not in progress    *)
(* before or after.                                                        *)
LEMMA FailedAssignLeavesJobs ==
    ASSUME DriverInv, AssignJob(FALSE)
    PROVE  LeavesJobs(sched, sched')
<1> DEFINE s == ScheduleNextPendingJob(sched)
           w == Head(sched.idleWorkers)
           j == Head(sched.pendingJobs)
           d == DescheduleJobDueToSendError(s, w, j)
<1>1. /\ Running /\ sched.pendingJobs # <<>> /\ sched.idleWorkers # <<>>
      /\ sched' = CheckInvariants(d)
  BY DEF AssignJob
<1>2. sched \in SchedulerStates /\ StateInv(sched) /\ sched.enforce = "holds"
  BY <1>1, RunningLoop
<1>3. /\ s \in SchedulerStates /\ StateInv(s) /\ s.enforce = "holds"
      /\ w \in Workers /\ j \in JobIds /\ s.currentlyProcessing[w] = j
      /\ Processes(sched, s, w, j) /\ IsAssigned(sched, s, w, j)
      /\ s.allJobList = sched.allJobList /\ s.wipJobs = sched.wipJobs \cup {j}
      /\ s.maybeErroredJobs = sched.maybeErroredJobs
  BY <1>1, <1>2, ScheduleNextPendingJobKeepsInv
<1> HIDE DEF s
<1>4. /\ d \in SchedulerStates /\ StateInv(d) /\ Processes(s, d, w, None)
      /\ d.assignedWorker = s.assignedWorker /\ d.allJobList = s.allJobList
      /\ d.wipJobs = s.wipJobs \ {j} /\ d.maybeErroredJobs = s.maybeErroredJobs
  BY <1>3, DescheduleKeepsInv
<1> HIDE DEF d
<1>5. sched' = d
  BY <1>1, <1>4, CheckInvariantsPasses
<1>6. w \in Elems(sched.idleWorkers) /\ j \in Elems(sched.pendingJobs)
  BY <1>1, <1>2, FieldTypes, PopFrontDeque
<1>7. sched.currentlyProcessing[w] = None /\ sched.assignedWorker[j] = None
  BY <1>2, <1>3, <1>6 DEF StateInv, IdleInv, BusyInv, PendingInv
<1>8. j \notin sched.wipJobs
  BY <1>2, <1>7, NoneIsNoValue DEF StateInv, WipInv
<1>9. d.currentlyProcessing = sched.currentlyProcessing
  <2>1. sched.currentlyProcessing \in [Workers -> JobIds \cup {None}]
    BY <1>2, FieldTypes
  <2> QED BY <1>3, <1>4, <1>7, <2>1 DEF Processes
<1>10. \A i \in JobIds : sched.assignedWorker[i] # None =>
          d.assignedWorker[i] = sched.assignedWorker[i]
  <2>1. sched.assignedWorker \in [JobIds -> Workers \cup {None}]
    BY <1>2, FieldTypes
  <2> QED BY <1>3, <1>4, <1>7, <2>1 DEF IsAssigned
<1> QED BY <1>3, <1>4, <1>5, <1>8, <1>9, <1>10 DEF LeavesJobs

(* A refill adds analyses only.                                            *)
LEMMA RefillLeavesJobs ==
    ASSUME DriverInv, DriverRefill
    PROVE  LeavesJobs(sched, sched')
<1>1. PICK batch \in Batches(nextCommand), next \in 0 .. NumCommands :
         FirstRefill(batch, next) \/ RefillPendingJobs(batch, next)
  BY RefillIsBatch
<1>2. Running /\ RefillJobs(batch, next)
  BY <1>1 DEF FirstRefill, RefillPendingJobs
<1>3. sched.pendingJobs = <<>> /\ IndInv
  BY <1>1, <1>2, RunningLoop DEF FirstRefill, RefillPendingJobs, LoopInv
<1>4. /\ sched'.wipJobs = sched.wipJobs
      /\ sched'.currentlyProcessing = sched.currentlyProcessing
      /\ sched'.assignedWorker = sched.assignedWorker
      /\ sched'.maybeErroredJobs = sched.maybeErroredJobs
      /\ sched'.allJobList = sched.allJobList \cup Elems(sched'.pendingJobs)
      /\ \A j \in Elems(sched'.pendingJobs) : j \in JobIds /\ j[2] = 0
  BY <1>2, <1>3, RefillJobsKeepsInv
<1>5. \A u \in Tasks : <<u, 1>>[2] = 1
  OBVIOUS
<1> QED BY <1>4, <1>5 DEF LeavesJobs

(* So do all steps that do nothing outside the scheduler.                  *)
LEMMA QuietLeavesJobs ==
    ASSUME TypeOK, DriverInv, QuietStep
    PROVE  LeavesJobs(sched, sched')
<1>0. sched \in SchedulerStates
  BY DEF TypeOK
<1>1. CASE UNCHANGED schedVars
  BY <1>1 DEF schedVars, LeavesJobs
<1>2. CASE DriverCrash
  BY <1>0, <1>2, EnforceLeavesJobs DEF DriverCrash
<1>3. CASE DriverRefill
  BY <1>3, RefillLeavesJobs
<1>4. CASE DriverInternal
  <2>1. Running
    BY <1>4 DEF DriverInternal, LeaveLoop, ContinueLoop, BeginReceive, EndScan, Finish
  <2>2. CheckInvariants(sched) = sched
    BY <2>1, RunningLoop, CheckInvariantsPasses
  <2>3. \E c : sched' = Enforce(sched, c)
    <3>1. sched = Enforce(sched, TRUE)
      BY DEF Enforce
    <3> QED BY <1>4, <2>2, <3>1
            DEF DriverInternal, LeaveLoop, ContinueLoop, BeginReceive, EndScan, Finish
  <2> QED BY <1>0, <2>3, EnforceLeavesJobs
<1>5. CASE AssignJob(FALSE)
  BY <1>5, FailedAssignLeavesJobs
<1>6. CASE NoMoreResults
  <2>1. Running /\ sched' = CheckInvariants(sched)
    BY <1>6 DEF NoMoreResults, ReceiveTimeout, StopDraining, BeginScan
  <2>2. sched' = sched
    BY <2>1, RunningLoop, CheckInvariantsPasses
  <2> QED BY <2>2 DEF LeavesJobs
<1>7. CASE ScanWorker /\ ~ IsLongRunning(sched, scan, startedBefore)
  BY <1>7 DEF ScanWorker, TerminateIfLongRunning, LeavesJobs
<1> QED BY <1>1, <1>2, <1>3, <1>4, <1>5, <1>6, <1>7 DEF QuietStep

(* Stopping a worker leaves the jobs alone.                                *)
LEMMA ShutdownLeavesJobs ==
    ASSUME DriverInv, SendsShutdown
    PROVE  LeavesJobs(sched, sched')
<1>1. Running /\ sched.idleWorkers # <<>> /\ sched' = StopNextIdleWorker(sched)
  BY DEF SendsShutdown, ShutdownIdleWorker
<1> QED BY <1>1, RunningLoop, StopNextIdleWorkerKeepsInv DEF LeavesJobs

(* An analysis is assigned to a worker without a job.                      *)
Assigns(s, t, w, j) ==
    /\ s.currentlyProcessing[w] = None /\ s.assignedWorker[j] = None
    /\ t.currentlyProcessing[w] = j /\ t.assignedWorker[j] = w
    /\ \A v \in Workers : v # w => t.currentlyProcessing[v] = s.currentlyProcessing[v]
    /\ \A i \in JobIds : i # j => t.assignedWorker[i] = s.assignedWorker[i]
    /\ t.maybeErroredJobs = s.maybeErroredJobs
    /\ t.allJobList = s.allJobList
    /\ t.wipJobs = s.wipJobs \cup {j}

(* An analysis that is sent is assigned.                                   *)
LEMMA AnalysisIsAssigned ==
    ASSUME DriverInv, SendsAnalysis
    PROVE  Assigns(sched, sched', Head(sched.idleWorkers), Head(sched.pendingJobs))
<1> DEFINE s == ScheduleNextPendingJob(sched)
           w == Head(sched.idleWorkers)
           j == Head(sched.pendingJobs)
<1>1. /\ Running /\ sched.pendingJobs # <<>> /\ sched.idleWorkers # <<>>
      /\ sched' = CheckInvariants(s)
  BY DEF SendsAnalysis, AssignJob
<1>2. sched \in SchedulerStates /\ StateInv(sched) /\ sched.enforce = "holds"
  BY <1>1, RunningLoop
<1>3. /\ s \in SchedulerStates /\ StateInv(s) /\ s.enforce = "holds"
      /\ w \in Workers /\ j \in JobIds
      /\ Processes(sched, s, w, j) /\ IsAssigned(sched, s, w, j)
      /\ s.allJobList = sched.allJobList /\ s.wipJobs = sched.wipJobs \cup {j}
      /\ s.maybeErroredJobs = sched.maybeErroredJobs
  BY <1>1, <1>2, ScheduleNextPendingJobKeepsInv
<1> HIDE DEF s
<1>4. sched' = s
  BY <1>1, <1>3, CheckInvariantsPasses
<1>5. w \in Elems(sched.idleWorkers) /\ j \in Elems(sched.pendingJobs)
  BY <1>1, <1>2, FieldTypes, PopFrontDeque
<1>6. sched.currentlyProcessing[w] = None /\ sched.assignedWorker[j] = None
  BY <1>2, <1>3, <1>5 DEF StateInv, IdleInv, BusyInv, PendingInv
<1>7. /\ sched.currentlyProcessing \in [Workers -> JobIds \cup {None}]
      /\ sched.assignedWorker \in [JobIds -> Workers \cup {None}]
  BY <1>2, FieldTypes
<1>8. /\ s.currentlyProcessing[w] = j
      /\ \A v \in Workers : v # w => s.currentlyProcessing[v] = sched.currentlyProcessing[v]
  BY <1>3, <1>7 DEF Processes
<1>9. /\ s.assignedWorker[j] = w
      /\ \A i \in JobIds : i # j => s.assignedWorker[i] = sched.assignedWorker[i]
  BY <1>3, <1>7 DEF IsAssigned
<1> QED BY <1>3, <1>4, <1>6, <1>8, <1>9 DEF Assigns

(* The same with names for the worker and the job.                         *)
LEMMA AnalysisHasNames ==
    ASSUME DriverInv, SendsAnalysis
    PROVE  \E w \in Workers, j \in JobIds :
              /\ j[2] = 0 /\ w = Head(sched.idleWorkers) /\ j = Head(sched.pendingJobs)
              /\ Puts(w, Request(j, SemaKind, {})) /\ Assigns(sched, sched', w, j)
              /\ UNCHANGED <<driverVars, w2d, disk, proc>>
BY AnalysisIsAssigned DEF SendsAnalysis

(* Giving up on a worker moves its job to maybeErroredJobs.                *)
LEMMA ScanGivesUp ==
    ASSUME DriverInv, GivesUpWorker
    PROVE  GivesUp(sched, sched', scan) /\ sched \in SchedulerStates
<1>1. /\ Running /\ sched.status[scan] = "Busy" /\ scan \in Workers
      /\ sched' = TerminateRunningWorker(sched, scan)
  BY DEF GivesUpWorker, ScanWorker, TerminateIfLongRunning, IsLongRunning
<1> QED BY <1>1, RunningLoop, TerminateKeepsInv

(* A response of worker w to job j settles j and no other job.             *)
Settles(s, t, w, j) ==
    /\ \A v \in Workers : v # w \/ s.currentlyProcessing[w] # j =>
          t.currentlyProcessing[v] = s.currentlyProcessing[v]
    /\ \A i \in JobIds : s.assignedWorker[i] # None =>
          t.assignedWorker[i] = s.assignedWorker[i]
    /\ \A i \in s.maybeErroredJobs : i # j => i \in t.maybeErroredJobs
    /\ s.allJobList \subseteq t.allJobList
    /\ j \in s.allJobList

(* The emission e follows an analysis on worker w, if it is sent.          *)
Follows(s, t, w, e, sent) ==
    /\ e \in JobIds /\ e \notin s.allJobList /\ s.assignedWorker[e] = None
    /\ t.allJobList = s.allJobList \cup {e}
    /\ t.wipJobs \subseteq s.wipJobs \cup {e}
    /\ t.assignedWorker[e] = w
    /\ t.currentlyProcessing[w] = IF sent THEN e ELSE None

(* The contract holds for every response in the queue.                     *)
LEMMA ContractHolds ==
    ASSUME CopiesInv, KindInv, NEW r \in Responses, r \in Elems(w2d)
    PROVE  ResponseContract(r.worker, r.job, r.kind)
<1>1. r.worker \in Workers /\ r.job \in JobIds
  BY MessageFields
<1>2. HasResponse(r.worker, r.job) /\ r.kind = JobKind(r.job)
  BY DEF HasResponse, KindInv, ResponseKinds
<1> QED BY <1>1, <1>2 DEF CopiesInv, IsExpected, ResponseContract

(* A response is processed without a failed ENFORCE, unless a request for  *)
(* an emission is not sent.                                                *)
LEMMA ResponseIsProcessed ==
    ASSUME DriverInv, CopiesInv, KindInv, NEW r \in Responses, r \in Elems(w2d),
           NEW sent \in BOOLEAN, HandleResponse(r.worker, r.job, r.kind, sent)
    PROVE  /\ Running /\ sched \in SchedulerStates /\ StateInv(sched)
           /\ r.worker \in Workers /\ r.job \in JobIds /\ r.kind = JobKind(r.job)
           /\ r.job \in sched.allJobList
           /\ IsProcessed(sched, sched', r.worker, r.job, sent)
           /\ sent => sched'.enforce = "holds"
           /\ sched'.enforce = "holds" => sent \/ ~ IsCurrentJob(sched, r.worker, r.job)
                                               \/ r.kind = EmitKind
<1>1. ResponseContract(r.worker, r.job, r.kind) /\ r.worker \in Workers /\ r.job \in JobIds
  BY ContractHolds, MessageFields
<1>2. /\ Running /\ r.kind = JobKind(r.job)
      /\ sched' = ProcessResponse(sched, r.worker, r.job, JobKind(r.job), sent)
      /\ sched.assignedWorker[r.job] = r.worker
      /\ IsCurrentJob(sched, r.worker, r.job) \/ r.job \in sched.maybeErroredJobs
  BY <1>1 DEF HandleResponse, ResponseContract, IsCurrentJob
<1>3. sched \in SchedulerStates /\ StateInv(sched) /\ sched.enforce = "holds"
  BY <1>2, RunningLoop
<1>4. /\ r.job \in sched.allJobList
      /\ IsProcessed(sched, sched', r.worker, r.job, sent)
      /\ sent => sched'.enforce = "holds"
  BY <1>1, <1>2, <1>3, ProcessResponseKeepsInv
<1>5. sched'.enforce = "holds" => sent \/ ~ IsCurrentJob(sched, r.worker, r.job)
                                       \/ r.kind = EmitKind
  BY <1>2, <1>4 DEF IsProcessed, LosesEmission
<1> QED BY <1>1, <1>2, <1>3, <1>4, <1>5

(* What each case of processWorkerResponse changes.                        *)
LEMMA ProcessedSettles ==
    ASSUME NEW s \in SchedulerStates, StateInv(s), NEW t, NEW w \in Workers, NEW j \in JobIds,
           NEW sent \in BOOLEAN, IsProcessed(s, t, w, j, sent), j \in s.allJobList
    PROVE  /\ Settles(s, t, w, j)
           /\ ~ IsCurrentJob(s, w, j) =>
                 t.allJobList = s.allJobList /\ t.wipJobs = s.wipJobs
           /\ IsCurrentJob(s, w, j) /\ JobKind(j) = EmitKind =>
                 /\ j \in s.wipJobs /\ t.currentlyProcessing[w] = None
                 /\ t.allJobList = s.allJobList /\ t.wipJobs = s.wipJobs \ {j}
           /\ IsCurrentJob(s, w, j) /\ JobKind(j) # EmitKind =>
                 Follows(s, t, w, <<j[1], 1>>, sent)
<1>1. /\ s.currentlyProcessing \in [Workers -> JobIds \cup {None}]
      /\ s.assignedWorker \in [JobIds -> Workers \cup {None}]
      /\ s.maybeErroredJobs \subseteq JobIds /\ j # None
  BY FieldTypes, NoneIsNoValue
<1>2. CASE ~ IsCurrentJob(s, w, j)
  <2>1. IsLateAnswer(s, t, j)
    BY <1>2 DEF IsProcessed
  <2>2. Settles(s, t, w, j)
    BY <2>1 DEF IsLateAnswer, Settles
  <2> QED BY <1>2, <2>1, <2>2 DEF IsLateAnswer
<1>3. CASE IsCurrentJob(s, w, j) /\ JobKind(j) = EmitKind
  <2>1. IsAnswer(s, t, w, j) /\ s.currentlyProcessing[w] = j
    BY <1>3 DEF IsProcessed, IsCurrentJob
  <2>2. Settles(s, t, w, j) /\ t.currentlyProcessing[w] = None
    BY <1>1, <2>1 DEF IsAnswer, Settles
  <2>3. j \in s.wipJobs
    BY <1>1, <2>1 DEF StateInv, WipInv
  <2> QED BY <1>3, <2>1, <2>2, <2>3 DEF IsAnswer
<1>4. CASE IsCurrentJob(s, w, j) /\ JobKind(j) # EmitKind
  <2> DEFINE e == <<j[1], 1>>
  <2>1. /\ e \in JobIds /\ e \notin s.allJobList /\ s.currentlyProcessing[w] = j
        /\ sent => StartsEmission(s, t, w, j[1])
        /\ ~ sent => LosesEmission(s, t, w, j[1])
    BY <1>4 DEF IsProcessed, IsCurrentJob
  <2>2. s.assignedWorker[e] = None
    BY <2>1 DEF StateInv, KnownInv
  <2>3. /\ t.assignedWorker = [s.assignedWorker EXCEPT ![e] = w]
        /\ t.allJobList = s.allJobList \cup {e} /\ t.maybeErroredJobs = s.maybeErroredJobs
        /\ t.wipJobs \subseteq s.wipJobs \cup {e}
        /\ \/ sent /\ t.currentlyProcessing = [s.currentlyProcessing EXCEPT ![w] = e]
           \/ ~ sent /\ t.currentlyProcessing = [s.currentlyProcessing EXCEPT ![w] = None]
    BY <2>1 DEF StartsEmission, LosesEmission
  <2> HIDE DEF e
  <2>4. /\ t.assignedWorker[e] = w
        /\ \A i \in JobIds : s.assignedWorker[i] # None => t.assignedWorker[i] = s.assignedWorker[i]
    BY <1>1, <2>1, <2>2, <2>3
  <2>5. /\ t.currentlyProcessing[w] = IF sent THEN e ELSE None
        /\ \A v \in Workers : v # w => t.currentlyProcessing[v] = s.currentlyProcessing[v]
    BY <1>1, <2>3
  <2>6. Settles(s, t, w, j)
    BY <2>1, <2>3, <2>4, <2>5 DEF Settles
  <2>7. Follows(s, t, w, e, sent)
    BY <2>1, <2>2, <2>3, <2>4, <2>5 DEF Follows
  <2> QED BY <1>4, <2>6, <2>7 DEF e
<1> QED BY <1>2, <1>3, <1>4

(* The cases together.                                                     *)
LEMMA ResultSettles ==
    ASSUME DriverInv, CopiesInv, KindInv, NEW r \in Responses, HandlesResult(r)
    PROVE  /\ Pops(r) /\ Running /\ Settles(sched, sched', r.worker, r.job)
           /\ r.kind = JobKind(r.job)
           /\ DropsResult(r) => /\ sched'.allJobList = sched.allJobList
                                /\ sched'.wipJobs = sched.wipJobs
           /\ MergesResult(r) =>
                 /\ sched'.enforce = "holds" /\ r.job \in sched.wipJobs
                 /\ sched'.currentlyProcessing[r.worker] = None
                 /\ sched'.allJobList = sched.allJobList
                 /\ sched'.wipJobs = sched.wipJobs \ {r.job}
           /\ PlansResult(r) =>
                 Follows(sched, sched', r.worker, <<r.job[1], 1>>, TRUE)
           /\ LosesResult(r) =>
                 /\ Follows(sched, sched', r.worker, <<r.job[1], 1>>, FALSE)
                 /\ sched'.enforce # "holds"
<1>1. Pops(r) /\ r \in Elems(w2d)
  BY DEF Pops, HandlesResult, DropsResult, MergesResult, PlansResult, LosesResult
<1>2. ASSUME DropsResult(r)
      PROVE  /\ Running /\ Settles(sched, sched', r.worker, r.job) /\ r.kind = JobKind(r.job)
             /\ sched'.allJobList = sched.allJobList /\ sched'.wipJobs = sched.wipJobs
  <2>1. HandleResponse(r.worker, r.job, r.kind, TRUE) /\ ~ IsCurrentJob(sched, r.worker, r.job)
    BY <1>2 DEF DropsResult
  <2> QED BY <1>1, <2>1, ResponseIsProcessed, ProcessedSettles
<1>3. ASSUME MergesResult(r)
      PROVE  /\ Running /\ Settles(sched, sched', r.worker, r.job) /\ r.kind = JobKind(r.job)
             /\ sched'.enforce = "holds" /\ r.job \in sched.wipJobs
             /\ sched'.currentlyProcessing[r.worker] = None
             /\ sched'.allJobList = sched.allJobList
             /\ sched'.wipJobs = sched.wipJobs \ {r.job}
  <2>1. /\ HandleResponse(r.worker, r.job, r.kind, TRUE) /\ IsCurrentJob(sched, r.worker, r.job)
        /\ r.kind = EmitKind
    BY <1>3 DEF MergesResult
  <2>2. /\ Running /\ sched \in SchedulerStates /\ StateInv(sched)
        /\ r.worker \in Workers /\ r.job \in JobIds /\ r.kind = JobKind(r.job)
        /\ r.job \in sched.allJobList /\ sched'.enforce = "holds"
        /\ IsProcessed(sched, sched', r.worker, r.job, TRUE)
    BY <1>1, <2>1, ResponseIsProcessed
  <2>3. IsCurrentJob(sched, r.worker, r.job) /\ JobKind(r.job) = EmitKind
    BY <2>1, <2>2
  <2>4. /\ Settles(sched, sched', r.worker, r.job) /\ r.job \in sched.wipJobs
        /\ sched'.currentlyProcessing[r.worker] = None
        /\ sched'.allJobList = sched.allJobList
        /\ sched'.wipJobs = sched.wipJobs \ {r.job}
    BY <2>2, <2>3, ProcessedSettles
  <2> QED BY <2>2, <2>4
<1>4. ASSUME PlansResult(r)
      PROVE  /\ Running /\ Settles(sched, sched', r.worker, r.job) /\ r.kind = JobKind(r.job)
             /\ Follows(sched, sched', r.worker, <<r.job[1], 1>>, TRUE)
  <2>1. /\ HandleResponse(r.worker, r.job, r.kind, TRUE) /\ IsCurrentJob(sched, r.worker, r.job)
        /\ r.kind # EmitKind
    BY <1>4 DEF PlansResult, SemaKind, EmitKind
  <2>2. /\ Running /\ sched \in SchedulerStates /\ StateInv(sched)
        /\ r.worker \in Workers /\ r.job \in JobIds /\ r.kind = JobKind(r.job)
        /\ r.job \in sched.allJobList
        /\ IsProcessed(sched, sched', r.worker, r.job, TRUE)
    BY <1>1, <2>1, ResponseIsProcessed
  <2> QED BY <2>1, <2>2, ProcessedSettles
<1>5. ASSUME LosesResult(r)
      PROVE  /\ Running /\ Settles(sched, sched', r.worker, r.job) /\ r.kind = JobKind(r.job)
             /\ Follows(sched, sched', r.worker, <<r.job[1], 1>>, FALSE)
             /\ sched'.enforce # "holds"
  <2>1. /\ HandleResponse(r.worker, r.job, r.kind, FALSE) /\ IsCurrentJob(sched, r.worker, r.job)
        /\ r.kind # EmitKind
    BY <1>5 DEF LosesResult, SemaKind, EmitKind
  <2>2. /\ Running /\ sched \in SchedulerStates /\ StateInv(sched)
        /\ r.worker \in Workers /\ r.job \in JobIds /\ r.kind = JobKind(r.job)
        /\ r.job \in sched.allJobList /\ sched'.enforce # "holds"
        /\ IsProcessed(sched, sched', r.worker, r.job, FALSE)
    BY <1>1, <2>1, ResponseIsProcessed
  <2> QED BY <2>1, <2>2, ProcessedSettles
<1> QED BY <1>1, <1>2, <1>3, <1>4, <1>5 DEF HandlesResult

------------------------------------------------------------------------------
(***************************************************************************)
(* Copies of jobs.                                                         *)
(***************************************************************************)

(* The driver goes on expecting the answers it expects.                    *)
LEMMA ExpectedKept ==
    ASSUME TypeOK, NEW v \in Workers, NEW i \in JobIds, IsExpected(v, i)
    PROVE  /\ LeavesJobs(sched, sched') => IsExpected(v, i)'
           /\ \A w \in Workers : GivesUp(sched, sched', w) => IsExpected(v, i)'
           /\ \A w \in Workers, j \in JobIds :
                 Assigns(sched, sched', w, j) => i # j /\ IsExpected(v, i)'
           /\ \A w \in Workers, j \in JobIds :
                 Settles(sched, sched', w, j) /\ i # j => IsExpected(v, i)'
<1>1. /\ sched.currentlyProcessing \in [Workers -> JobIds \cup {None}]
      /\ sched.assignedWorker[i] = v /\ v # None /\ i # None
      /\ sched.currentlyProcessing[v] = i \/ i \in sched.maybeErroredJobs
  BY FieldTypes, NoneIsNoValue DEF TypeOK, IsExpected
<1>2. LeavesJobs(sched, sched') => IsExpected(v, i)'
  BY <1>1 DEF LeavesJobs, IsExpected
<1>3. ASSUME NEW w \in Workers, GivesUp(sched, sched', w) PROVE IsExpected(v, i)'
  <2>1. /\ sched'.currentlyProcessing = [sched.currentlyProcessing EXCEPT ![w] = None]
        /\ sched'.assignedWorker = sched.assignedWorker
        /\ sched'.maybeErroredJobs = sched.maybeErroredJobs \cup {sched.currentlyProcessing[w]}
    BY <1>3 DEF GivesUp
  <2>2. CASE v = w
    BY <1>1, <2>1, <2>2 DEF IsExpected
  <2>3. CASE v # w
    BY <1>1, <2>1, <2>3 DEF IsExpected
  <2> QED BY <2>2, <2>3
<1>4. ASSUME NEW w \in Workers, NEW j \in JobIds, Assigns(sched, sched', w, j)
      PROVE  i # j /\ IsExpected(v, i)'
  BY <1>1, <1>4 DEF Assigns, IsExpected
<1>5. ASSUME NEW w \in Workers, NEW j \in JobIds, Settles(sched, sched', w, j), i # j
      PROVE  IsExpected(v, i)'
  BY <1>1, <1>5 DEF Settles, IsExpected
<1> QED BY <1>2, <1>3, <1>4, <1>5

(* A job is expected of one worker.                                        *)
LEMMA ExpectedOfOne ==
    ASSUME NEW v, NEW w, NEW j, IsExpected(v, j), IsExpected(w, j)
    PROVE  v = w
BY DEF IsExpected

(* Results of different jobs are different.                                *)
ResultsUnique == Distinct(w2d) /\ \A q, r \in Elems(w2d) : q.job = r.job => q = r

(* Steps that create no copy and forget no job.                            *)
LEMMA CopiesShrink ==
    ASSUME CopiesInv, UNCHANGED w2d,
           \A v \in Workers, j \in JobIds : /\ HasRequest(v, j)' => HasRequest(v, j)
                                            /\ InHand(v, j)' => InHand(v, j)
                                            /\ IsExpected(v, j) => IsExpected(v, j)'
    PROVE  CopiesInv'
BY SameCopies DEF CopiesInv

(* A new request for a job that was not expected of any worker.            *)
LEMMA CopiesOfNewRequest ==
    ASSUME CopiesInv, NEW w \in Workers, NEW j \in JobIds,
           \A v \in Workers : ~ IsExpected(v, j),
           IsExpected(w, j)', ResultsUnique',
           \A v \in Workers, i \in JobIds :
              /\ HasRequest(v, i)' => HasRequest(v, i) \/ (v = w /\ i = j)
              /\ InHand(v, i)' => InHand(v, i)
              /\ HasResponse(v, i)' => HasResponse(v, i)
              /\ HasRequest(v, i) \/ InHand(v, i) \/ HasResponse(v, i)' => IsExpected(v, i)'
    PROVE  CopiesInv'
<1>1. ASSUME NEW v \in Workers, NEW i \in JobIds
      PROVE  /\ HasRequest(v, i)' \/ InHand(v, i)' \/ HasResponse(v, i)' => IsExpected(v, i)'
             /\ HasRequest(v, i)' => ~ InHand(v, i)' /\ ~ HasResponse(v, i)'
             /\ InHand(v, i)' => ~ HasResponse(v, i)'
  BY DEF CopiesInv
<1> QED BY <1>1 DEF CopiesInv, ResultsUnique

(* A worker takes the request for job j.                                   *)
LEMMA CopiesOfTakenRequest ==
    ASSUME CopiesInv, UNCHANGED <<w2d, sched>>, NEW w \in Workers, NEW j \in JobIds,
           Takes(w), HasRequest(w, j), NEW p, Turns(w, p), p.job = j
    PROVE  CopiesInv'
<1>1. \A v \in Workers, i \in JobIds :
         /\ HasRequest(v, i)' => HasRequest(v, i) /\ v # w
         /\ InHand(v, i)' => IF v = w THEN i = j ELSE InHand(v, i)
         /\ HasResponse(v, i)' = HasResponse(v, i)
         /\ IsExpected(v, i)' = IsExpected(v, i)
  BY TakesRequest, TurnsHand, SameCopies DEF IsExpected
<1>2. ASSUME NEW v \in Workers, NEW i \in JobIds
      PROVE  /\ HasRequest(v, i)' \/ InHand(v, i)' \/ HasResponse(v, i)' => IsExpected(v, i)'
             /\ HasRequest(v, i)' => ~ InHand(v, i)' /\ ~ HasResponse(v, i)'
             /\ InHand(v, i)' => ~ HasResponse(v, i)'
  BY <1>1 DEF CopiesInv
<1> QED BY <1>2 DEF CopiesInv

(* A worker answers the job it has in hand.                                *)
LEMMA CopiesOfSentResult ==
    ASSUME ShapeInv, CopiesInv, UNCHANGED <<d2w, sched>>,
           NEW w \in Workers, InHand(w, proc[w].job), proc[w].job \in JobIds,
           NEW r \in Responses, Reports(r), r.worker = w, r.job = proc[w].job,
           NEW p, Turns(w, p), p.pc \notin {"sema"} \cup EmitPcs
    PROVE  CopiesInv'
<1> DEFINE j == proc[w].job
<1>1. \A v \in Workers, i \in JobIds :
         /\ HasRequest(v, i)' = HasRequest(v, i)
         /\ InHand(v, i)' => v # w /\ InHand(v, i)
         /\ HasResponse(v, i)' <=> HasResponse(v, i) \/ (v = w /\ i = j)
         /\ IsExpected(v, i)' = IsExpected(v, i)
  BY ReportsResponse, TurnsHand, SameCopies DEF IsExpected
<1>2. ASSUME NEW q \in Elems(w2d) PROVE q.job # j
  <2>1. q.worker \in Workers /\ q.job \in JobIds
    BY <1>2, MessageFields DEF ShapeInv, ResponseShape, Elems
  <2>2. HasResponse(q.worker, q.job)
    BY <1>2 DEF HasResponse
  <2>3. IsExpected(q.worker, q.job) /\ IsExpected(w, j) /\ ~ HasResponse(w, j)
    BY <2>1, <2>2 DEF CopiesInv
  <2> QED BY <2>2, <2>3, ExpectedOfOne
<1>3. Distinct(w2d) /\ \A q \in Elems(w2d) : \A u \in Elems(w2d) : q.job = u.job => q = u
  BY DEF CopiesInv
<1>4. Distinct(w2d') /\ Elems(w2d') = Elems(w2d) \cup {r}
  BY <1>2, <1>3 DEF Reports
<1>5. \A q, u \in Elems(w2d') : q.job = u.job => q = u
  BY <1>2, <1>3, <1>4
<1>6. ASSUME NEW v \in Workers, NEW i \in JobIds
      PROVE  /\ HasRequest(v, i)' \/ InHand(v, i)' \/ HasResponse(v, i)' => IsExpected(v, i)'
             /\ HasRequest(v, i)' => ~ InHand(v, i)' /\ ~ HasResponse(v, i)'
             /\ InHand(v, i)' => ~ HasResponse(v, i)'
  BY <1>1 DEF CopiesInv
<1> QED BY <1>4, <1>5, <1>6 DEF CopiesInv

(* Worker steps move copies and create none.                               *)
LEMMA WorkerKeepsCopies ==
    ASSUME ShapeInv, CopiesInv, NEW w \in Workers, WorkerStep(w)
    PROVE  CopiesInv'
<1>1. UNCHANGED sched /\ \A v, i : IsExpected(v, i)' = IsExpected(v, i)
  BY DEF WorkerStep, schedVars, IsExpected
<1>2. CASE Drops(w) /\ UNCHANGED d2w
  BY <1>1, <1>2, DropsHand, SameCopies, CopiesShrink DEF Drops
<1>3. CASE Drops(w) /\ Takes(w)
  BY <1>1, <1>3, DropsHand, TakesRequest, CopiesShrink DEF Drops
<1>4. CASE (Analyses(w) \/ Emits(w)) /\ Takes(w)
  <2>1. /\ HasRequest(w, d2w[w][1].id) /\ d2w[w][1].id \in JobIds
        /\ Turns(w, proc'[w]) /\ proc'[w].job = d2w[w][1].id /\ UNCHANGED w2d
    BY <1>4 DEF Analyses, Emits, Takes, HasRequest
  <2> QED BY <1>1, <1>4, <2>1, CopiesOfTakenRequest
<1>5. CASE SendSemaResult(w)
  <2> DEFINE r == SemaResult(w)
  <2>1. /\ r \in Responses /\ Reports(r) /\ r.worker = w /\ r.job = proc[w].job
        /\ proc[w].pc = "sema" /\ proc[w].job \in JobIds
        /\ Turns(w, proc'[w]) /\ proc'[w].pc = "waitEmit" /\ UNCHANGED d2w
    BY <1>5, SendSemaEffect
  <2> HIDE DEF r
  <2>2. InHand(w, proc[w].job) /\ proc'[w].pc \notin {"sema"} \cup EmitPcs
    BY <2>1 DEF InHand, EmitPcs
  <2> QED BY <1>1, <2>1, <2>2, CopiesOfSentResult
<1>6. CASE SendEmitResult(w)
  <2> DEFINE r == Response(w, proc[w].job, EmitKind, {})
  <2>1. /\ r \in Responses /\ Reports(r) /\ r.worker = w /\ r.job = proc[w].job
        /\ proc[w].pc = "emitted" /\ proc[w].job \in JobIds
        /\ Turns(w, proc'[w]) /\ proc'[w].pc = "idle" /\ UNCHANGED d2w
    BY <1>6, SendEmitEffect
  <2> HIDE DEF r
  <2>2. InHand(w, proc[w].job) /\ proc'[w].pc \notin {"sema"} \cup EmitPcs
    BY <2>1 DEF InHand, EmitPcs
  <2> QED BY <1>1, <2>1, <2>2, CopiesOfSentResult
<1>7. ASSUME NEW part, NEW pc, Writes(w, part, pc) PROVE CopiesInv'
  <2>1. /\ Turns(w, proc'[w]) /\ proc'[w].job = proc[w].job /\ proc[w].pc \in EmitPcs
        /\ UNCHANGED <<d2w, w2d>>
    BY <1>7 DEF Writes
  <2>2. \A v \in Workers, i \in JobIds : InHand(v, i)' => InHand(v, i)
    BY <2>1, TurnsHand DEF InHand, EmitPcs
  <2> QED BY <1>1, <2>1, <2>2, SameCopies, CopiesShrink
<1> QED BY <1>2, <1>3, <1>4, <1>5, <1>6, <1>7 DEF WorkerStep

(* A response takes its job out of circulation, and may start another.     *)
LEMMA ResultKeepsCopies ==
    ASSUME TypeOK, DriverInv, CopiesInv, KindInv, NEW r \in Responses, HandlesResult(r)
    PROVE  CopiesInv'
<1> DEFINE w == r.worker
           j == r.job
           e == <<r.job[1], 1>>
<1>1. /\ Pops(r) /\ Settles(sched, sched', w, j) /\ w \in Workers /\ j \in JobIds
      /\ HasResponse(w, j)
  BY ResultSettles, MessageFields DEF Pops, HasResponse
<1>2. ResultsUnique'
  <2>1. /\ Distinct(w2d) /\ \A q, u \in Elems(w2d) : q.job = u.job => q = u
    BY DEF CopiesInv
  <2> QED BY <1>1, <2>1 DEF Pops, ResultsUnique
<1>3. \A v \in Workers, i \in JobIds : InHand(v, i)' = InHand(v, i)
  <2>1. UNCHANGED proc
    BY ResultSettles DEF HandlesResult, DropsResult, MergesResult, PlansResult, LosesResult
  <2> QED BY <2>1, SameCopies
<1>4. \A v \in Workers, i \in JobIds :
         HasResponse(v, i)' <=> HasResponse(v, i) /\ ~ (v = w /\ i = j)
  BY <1>1, PopsResponse
<1>5. IsExpected(w, j) /\ ~ HasRequest(w, j) /\ ~ InHand(w, j)
  BY <1>1 DEF CopiesInv
<1>6. ASSUME NEW v \in Workers, NEW i \in JobIds,
             HasRequest(v, i) \/ InHand(v, i) \/ HasResponse(v, i)'
      PROVE  IsExpected(v, i)'
  <2>1. IsExpected(v, i)
    BY <1>4, <1>6 DEF CopiesInv
  <2>2. i # j
    BY <1>4, <1>5, <1>6, <2>1, ExpectedOfOne
  <2> QED BY <1>1, <2>1, <2>2, ExpectedKept
<1>7. CASE UNCHANGED d2w
  <2>1. \A v \in Workers, i \in JobIds : HasRequest(v, i)' = HasRequest(v, i)
    BY <1>7, SameCopies
  <2>2. ASSUME NEW v \in Workers, NEW i \in JobIds
        PROVE  /\ HasRequest(v, i)' \/ InHand(v, i)' \/ HasResponse(v, i)' => IsExpected(v, i)'
               /\ HasRequest(v, i)' => ~ InHand(v, i)' /\ ~ HasResponse(v, i)'
               /\ InHand(v, i)' => ~ HasResponse(v, i)'
    BY <1>3, <1>4, <1>6, <2>1 DEF CopiesInv
  <2> QED BY <1>2, <2>2 DEF CopiesInv, ResultsUnique
<1>8. CASE PlansResult(r)
  <2>1. Follows(sched, sched', w, e, TRUE)
    BY <1>8, ResultSettles
  <2>2. e \in JobIds /\ IsExpected(w, e)' /\ \A v \in Workers : ~ IsExpected(v, e)
    BY <1>1, <2>1, NoneIsNoValue DEF Follows, IsExpected
  <2>3. \A v \in Workers, i \in JobIds : HasRequest(v, i)' => HasRequest(v, i) \/ (v = w /\ i = e)
    <3> DEFINE m == Request(NextSubtask(r.job), EmitKind, r.files \ hashesSoFar)
    <3>1. Puts(w, m) /\ NextSubtask(r.job) = e
      BY <1>8 DEF PlansResult
    <3>2. m.id = e
      BY <3>1 DEF Request
    <3> HIDE DEF m, e
    <3> QED BY <1>1, <3>1, <3>2, PutsRequest
  <2> QED BY <1>1, <1>2, <1>3, <1>4, <1>6, <2>2, <2>3, CopiesOfNewRequest
<1> QED BY <1>7, <1>8 DEF HandlesResult, DropsResult, MergesResult, LosesResult

(* Every step keeps CopiesInv.                                             *)
LEMMA CopiesKept ==
    ASSUME ShapeInv, DriverInv, TypeOK, CopiesInv, KindInv, [Next]_vars
    PROVE  CopiesInv'
<1>1. CASE QuietStep
  <2>1. LeavesJobs(sched, sched') /\ UNCHANGED <<d2w, w2d, proc>>
    BY <1>1, QuietLeavesJobs DEF QuietStep, Quiet
  <2> QED BY <2>1, SameCopies, ExpectedKept, CopiesShrink
<1>2. CASE SendsAnalysis
  <2>0. PICK w \in Workers, j \in JobIds :
           /\ Puts(w, Request(j, SemaKind, {})) /\ Assigns(sched, sched', w, j)
           /\ UNCHANGED <<w2d, proc>>
    BY <1>2, AnalysisHasNames
  <2> DEFINE m == Request(j, SemaKind, {})
  <2>1. Puts(w, m) /\ UNCHANGED <<w2d, proc>> /\ Assigns(sched, sched', w, j)
    BY <2>0
  <2>2. m.id = j
    BY DEF Request
  <2> HIDE DEF m
  <2>3. IsExpected(w, j)' /\ \A v \in Workers : ~ IsExpected(v, j)
    BY <2>1, NoneIsNoValue DEF Assigns, IsExpected
  <2>4. ResultsUnique'
    BY <2>1 DEF CopiesInv, ResultsUnique
  <2>5. \A v \in Workers, i \in JobIds :
           /\ HasRequest(v, i)' => HasRequest(v, i) \/ (v = w /\ i = j)
           /\ InHand(v, i)' = InHand(v, i)
           /\ HasResponse(v, i)' = HasResponse(v, i)
    BY <2>1, <2>2, PutsRequest, SameCopies
  <2>6. \A v \in Workers, i \in JobIds : IsExpected(v, i) => IsExpected(v, i)'
    BY <2>1, ExpectedKept
  <2>7. \A v \in Workers, i \in JobIds :
           HasRequest(v, i) \/ InHand(v, i) \/ HasResponse(v, i) => IsExpected(v, i)
    BY DEF CopiesInv
  <2> QED BY <2>1, <2>3, <2>4, <2>5, <2>6, <2>7, CopiesOfNewRequest
<1>3. CASE SendsShutdown
  <2>1. /\ LeavesJobs(sched, sched') /\ UNCHANGED <<w2d, proc>>
        /\ NextWorkerToStop(sched) \in Workers
        /\ Puts(NextWorkerToStop(sched), ShutdownRequest)
    BY <1>3, ShutdownLeavesJobs DEF SendsShutdown
  <2>2. ShutdownRequest.id = None
    BY DEF ShutdownRequest, Request
  <2>3. \A v \in Workers, i \in JobIds : HasRequest(v, i)' => HasRequest(v, i)
    BY <2>1, <2>2, PutsRequest, NoneIsNoValue
  <2> QED BY <2>1, <2>3, SameCopies, ExpectedKept, CopiesShrink
<1>4. CASE \E r \in Responses : HandlesResult(r)
  BY <1>4, ResultKeepsCopies
<1>5. CASE GivesUpWorker
  <2>1. /\ GivesUp(sched, sched', scan) /\ scan \in Workers /\ Drops(scan)
        /\ UNCHANGED <<d2w, w2d>>
    BY <1>5, ScanGivesUp DEF GivesUpWorker, Drops
  <2> QED BY <2>1, SameCopies, DropsHand, ExpectedKept, CopiesShrink
<1>6. CASE EmitScipIndex
  <2>1. UNCHANGED <<sched, d2w, w2d, proc>>
    BY <1>6 DEF EmitScipIndex, schedVars
  <2>2. \A v, i : IsExpected(v, i)' = IsExpected(v, i)
    BY <2>1 DEF IsExpected
  <2> QED BY <2>1, <2>2, SameCopies, CopiesShrink
<1>7. CASE \E w \in Workers : WorkerStep(w)
  BY <1>7, WorkerKeepsCopies
<1> QED BY <1>1, <1>2, <1>3, <1>4, <1>5, <1>6, <1>7, StepCases

------------------------------------------------------------------------------
(***************************************************************************)
(* The steps of the driver are steps of Scheduler.tla.                     *)
(***************************************************************************)

(* Outside the scheduler, as far as it is concerned, nothing happens, and  *)
(* a step of the driver is one of Scheduler.tla or its crash.              *)
LEMMA StepIsSchedStep ==
    ASSUME ShapeInv, DriverInv, CopiesInv, KindInv, [Next]_vars
    PROVE  [SchedNext]_schedVars \/ DriverCrash
<1>1. CASE QuietStep
  <2>1. CASE DriverRefill
    BY <2>1, RefillIsBatch DEF SchedNext
  <2>2. CASE DriverInternal
    BY <2>2 DEF DriverInternal, SchedNext
  <2>3. CASE AssignJob(FALSE)
    BY <2>3 DEF SchedNext
  <2>4. CASE NoMoreResults
    <3>1. ReceiveTimeout \/ \E instant \in Deadlines : StopDraining(instant)
      BY <2>4 DEF NoMoreResults, Deadlines
    <3> QED BY <3>1 DEF SchedNext
  <2>5. CASE ScanWorker
    BY <2>5 DEF SchedNext
  <2> QED BY <1>1, <2>1, <2>2, <2>3, <2>4, <2>5 DEF QuietStep
<1>2. CASE SendsAnalysis
  BY <1>2 DEF SendsAnalysis, SchedNext
<1>3. CASE SendsShutdown
  BY <1>3 DEF SendsShutdown, SchedNext
<1>4. ASSUME NEW r \in Responses, HandlesResult(r) PROVE SchedNext
  <2>1. PICK sent \in BOOLEAN : HandleResponse(r.worker, r.job, r.kind, sent)
    BY <1>4 DEF HandlesResult, DropsResult, MergesResult, PlansResult, LosesResult
  <2>2. r \in Elems(w2d)
    BY <1>4 DEF HandlesResult, DropsResult, MergesResult, PlansResult, LosesResult, Pops
  <2>3. /\ r.worker \in Workers /\ r.job \in JobIds /\ r.kind \in {SemaKind, EmitKind}
        /\ ResponseContract(r.worker, r.job, r.kind)
    BY <1>4, <2>2, MessageFields, ContractHolds
  <2> QED BY <2>1, <2>3 DEF SchedNext
<1>5. CASE GivesUpWorker
  BY <1>5 DEF GivesUpWorker, SchedNext
<1>6. CASE EmitScipIndex \/ \E w \in Workers : WorkerStep(w)
  BY <1>6 DEF EmitScipIndex, WorkerStep
<1> QED BY <1>1, <1>2, <1>3, <1>4, <1>5, <1>6, StepCases

(* After an ENFORCE failed the scheduler stands still.                     *)
LEMMA StandsStill ==
    ASSUME ~ Running, [SchedNext]_schedVars \/ DriverCrash
    PROVE  UNCHANGED <<sched, phase, refillCount, nextCommand, scan, startedBefore>>
BY DEF SchedNext, DriverCrash, FirstRefill, RefillPendingJobs, LeaveLoop, ContinueLoop,
       AssignJob, ShutdownIdleWorker, BeginReceive, HandleResponse, ReceiveTimeout,
       StopDraining, ScanWorker, EndScan, Finish, StayOver, schedVars

(* Every step keeps the types of the scheduler, also one that fails, and   *)
(* only a request that is too large or a crash makes the driver fail.      *)
LEMMA TypeKept ==
    ASSUME ShapeInv, DriverInv, TypeOK, CopiesInv, KindInv, [Next]_vars
    PROVE  /\ TypeOK'
           /\ Running /\ SendErrors = {} /\ "driverCrash" \notin Faults => Running'
<1>1. [SchedNext]_schedVars \/ DriverCrash
  BY StepIsSchedStep
<1>2. CASE ~ Running
  BY <1>1, <1>2, StandsStill DEF TypeOK
<1>3. CASE Running /\ [SchedNext]_schedVars
  <2>1. IndInv'
    BY <1>3, RunningLoop, NextKeepsInv
  <2> QED BY <2>1 DEF IndInv
<1>4. CASE DriverCrash
  <2>1. [sched EXCEPT !.enforce = "failed"] \in SchedulerStates
    BY DEF TypeOK, SchedulerStates
  <2>2. TypeOK'
    BY <1>4, <2>1 DEF DriverCrash, TypeOK
  <2> QED BY <1>4, <2>2 DEF DriverCrash
<1> QED BY <1>1, <1>2, <1>3, <1>4

------------------------------------------------------------------------------
(***************************************************************************)
(* Kinds of messages.                                                      *)
(***************************************************************************)

(* A message is put into a queue with the kind of its job.                 *)
LEMMA PutsKinds ==
    ASSUME RequestKinds, NEW w \in Workers, NEW r, Puts(w, r),
           r.id # None => r.kind = JobKind(r.id)
    PROVE  RequestKinds'
BY DEF RequestKinds, Puts

(* A request that is taken out of a queue leaves none.                     *)
LEMMA TakesKinds ==
    ASSUME RequestKinds, NEW w \in Workers, Takes(w)
    PROVE  RequestKinds'
BY DEF RequestKinds, Takes

(* A process that turns to p is as ProcessKinds says.                      *)
LEMMA TurnsKinds ==
    ASSUME ProcessKinds, NEW w \in Workers, NEW p, Turns(w, p),
           p.pc \in {"sema", "waitEmit"} => p.ran,
           p.pc \in EmitPcs => p.job[2] = 1
    PROVE  ProcessKinds'
BY DEF ProcessKinds, Turns

(* A process that drops its work works on nothing.                         *)
LEMMA DropsKinds ==
    ASSUME ProcessKinds, NEW w \in Workers, Drops(w)
    PROVE  ProcessKinds'
<1>1. PICK p \in ProcessStates : AtRest(p) /\ Turns(w, p)
  BY DEF Drops
<1>2. p.pc \notin {"sema", "waitEmit"} /\ p.pc \notin EmitPcs
  BY <1>1 DEF AtRest, EmitPcs
<1> QED BY <1>1, <1>2, TurnsKinds

(* What does not change keeps its kind.                                    *)
LEMMA SameKinds ==
    ASSUME KindInv
    PROVE  /\ UNCHANGED d2w => RequestKinds'
           /\ UNCHANGED proc => ProcessKinds'
           /\ UNCHANGED w2d => ResponseKinds'
           /\ Elems(w2d)' \subseteq Elems(w2d) => ResponseKinds'
BY DEF KindInv, RequestKinds, ProcessKinds, ResponseKinds

(* The emission of an analysed task is requested as an emission.           *)
LEMMA ResultKeepsKinds ==
    ASSUME ShapeInv, DriverInv, CopiesInv, KindInv, NEW r \in Responses, HandlesResult(r)
    PROVE  KindInv'
<1>1. Pops(r) /\ r.job \in JobIds /\ ResponseKinds'
  BY ResultSettles, MessageFields, SameKinds DEF Pops
<1>2. CASE UNCHANGED <<d2w, proc>>
  BY <1>1, <1>2, SameKinds DEF KindInv
<1>3. CASE PlansResult(r)
  <2> DEFINE e == NextSubtask(r.job)
             m == Request(e, EmitKind, r.files \ hashesSoFar)
  <2>1. /\ e \in JobIds /\ e[2] = 1 /\ r.worker \in Workers /\ Puts(r.worker, m)
        /\ UNCHANGED proc
    BY <1>1, <1>3, JobParts, MessageFields DEF PlansResult
  <2>2. m.id = e /\ m.kind = EmitKind
    BY DEF Request
  <2>3. JobKind(e) = EmitKind
    BY <2>1, JobParts
  <2> HIDE DEF m, e
  <2>4. RequestKinds'
    BY <2>1, <2>2, <2>3, PutsKinds DEF KindInv
  <2> QED BY <1>1, <2>1, <2>4, SameKinds DEF KindInv
<1>4. ~ (sched'.enforce = "holds" /\ LosesResult(r))
  BY ResultSettles
<1> QED BY <1>2, <1>3, <1>4 DEF HandlesResult, DropsResult, MergesResult, LosesResult

(* A worker analyses, emits and reports according to its request.          *)
LEMMA WorkerKeepsKinds ==
    ASSUME NoSemaTasks = {}, ShapeInv, KindInv, NEW w \in Workers, WorkerStep(w)
    PROVE  KindInv'
<1>1. CASE Drops(w) /\ UNCHANGED d2w
  BY <1>1, DropsKinds, SameKinds DEF Drops, KindInv
<1>2. CASE Drops(w) /\ Takes(w)
  BY <1>2, DropsKinds, TakesKinds, SameKinds DEF Drops, KindInv
<1>3. CASE Analyses(w) /\ Takes(w)
  <2>1. /\ Turns(w, proc'[w]) /\ proc'[w].pc = "sema" /\ proc'[w].ran /\ UNCHANGED w2d
    BY <1>3 DEF Analyses
  <2>2. ProcessKinds'
    BY <2>1, TurnsKinds DEF EmitPcs, KindInv
  <2> QED BY <1>3, <2>1, <2>2, TakesKinds, SameKinds DEF KindInv
<1>4. CASE Emits(w) /\ Takes(w)
  <2>1. proc[w].ran
    BY <1>4 DEF Emits, KindInv, ProcessKinds
  <2>2. /\ d2w[w] # <<>> /\ d2w[w][1].id \in JobIds /\ d2w[w][1].kind = EmitKind
        /\ Turns(w, proc'[w]) /\ proc'[w].pc = "emit" /\ proc'[w].job = d2w[w][1].id
        /\ UNCHANGED w2d
    BY <1>4, <2>1 DEF Emits, Takes
  <2>3. JobKind(d2w[w][1].id) = EmitKind
    BY <2>2, NoneIsNoValue DEF KindInv, RequestKinds
  <2>4. proc'[w].job[2] = 1
    BY <2>2, <2>3, JobParts
  <2>5. ProcessKinds'
    BY <2>2, <2>4, TurnsKinds DEF KindInv
  <2> QED BY <1>4, <2>2, <2>5, TakesKinds, SameKinds DEF KindInv
<1>5. CASE SendSemaResult(w)
  <2> DEFINE r == SemaResult(w)
  <2>1. /\ Reports(r) /\ r.job = proc[w].job /\ r.kind = SemaKind
        /\ r.files = IF proc[w].ran THEN SemaFiles[proc[w].job[1]] ELSE {}
        /\ proc[w].pc = "sema" /\ proc[w].job \in JobIds /\ proc[w].job[2] = 0
        /\ Turns(w, proc'[w]) /\ proc'[w].pc = "waitEmit" /\ proc'[w].ran = proc[w].ran
        /\ UNCHANGED d2w
    BY <1>5, SendSemaEffect
  <2> HIDE DEF r
  <2>2. proc[w].ran
    BY <2>1 DEF KindInv, ProcessKinds
  <2>3. JobKind(r.job) = SemaKind /\ r.files = SemaFiles[r.job[1]]
    BY <2>1, <2>2, JobParts
  <2>4. ResponseKinds'
    BY <2>1, <2>3 DEF Reports, KindInv, ResponseKinds
  <2>5. ProcessKinds'
    BY <2>1, <2>2, TurnsKinds DEF KindInv, EmitPcs
  <2> QED BY <2>1, <2>4, <2>5, SameKinds DEF KindInv
<1>6. CASE SendEmitResult(w)
  <2> DEFINE r == Response(w, proc[w].job, EmitKind, {})
  <2>1. /\ Reports(r) /\ r.job = proc[w].job /\ r.kind = EmitKind
        /\ proc[w].pc = "emitted" /\ proc[w].job \in JobIds
        /\ Turns(w, proc'[w]) /\ proc'[w].pc = "idle" /\ UNCHANGED d2w
    BY <1>6, SendEmitEffect
  <2> HIDE DEF r
  <2>2. proc[w].job[2] = 1
    BY <2>1 DEF KindInv, ProcessKinds, EmitPcs
  <2>3. JobKind(r.job) = EmitKind /\ EmitKind # SemaKind
    BY <2>1, <2>2, JobParts DEF SemaKind, EmitKind
  <2>4. ResponseKinds'
    BY <2>1, <2>3 DEF Reports, KindInv, ResponseKinds
  <2>5. ProcessKinds'
    BY <2>1, TurnsKinds DEF KindInv, EmitPcs
  <2> QED BY <2>1, <2>4, <2>5, SameKinds DEF KindInv
<1>7. ASSUME NEW part, NEW pc \in EmitPcs, Writes(w, part, pc) PROVE KindInv'
  <2>1. /\ Turns(w, proc'[w]) /\ proc'[w].pc = pc /\ proc'[w].job = proc[w].job
        /\ proc[w].pc \in EmitPcs /\ UNCHANGED <<d2w, w2d>>
    BY <1>7 DEF Writes
  <2>2. proc'[w].job[2] = 1 /\ pc \notin {"sema", "waitEmit"}
    BY <2>1 DEF KindInv, ProcessKinds, EmitPcs
  <2>3. ProcessKinds'
    BY <2>1, <2>2, TurnsKinds DEF KindInv
  <2> QED BY <2>1, <2>3, SameKinds DEF KindInv
<1> QED BY <1>1, <1>2, <1>3, <1>4, <1>5, <1>6, <1>7 DEF WorkerStep, EmitPcs

(* Every step keeps KindInv.                                               *)
LEMMA KindKept ==
    ASSUME NoSemaTasks = {}, ShapeInv, DriverInv, CopiesInv, KindInv, [Next]_vars
    PROVE  KindInv'
<1>1. CASE QuietStep
  BY <1>1, SameKinds DEF QuietStep, Quiet, KindInv
<1>2. CASE SendsAnalysis
  <2>1. PICK w \in Workers, j \in JobIds :
           /\ j[2] = 0 /\ Puts(w, Request(j, SemaKind, {})) /\ UNCHANGED <<w2d, proc>>
    BY <1>2, AnalysisHasNames
  <2> DEFINE m == Request(j, SemaKind, {})
  <2>2. m.id = j /\ m.kind = JobKind(j)
    BY <2>1, JobParts DEF Request
  <2>3. Puts(w, m)
    BY <2>1
  <2> HIDE DEF m
  <2>4. RequestKinds'
    BY <2>2, <2>3, PutsKinds DEF KindInv
  <2> QED BY <2>1, <2>4, SameKinds DEF KindInv
<1>3. CASE SendsShutdown
  <2>1. /\ NextWorkerToStop(sched) \in Workers /\ UNCHANGED <<w2d, proc>>
        /\ Puts(NextWorkerToStop(sched), ShutdownRequest)
    BY <1>3 DEF SendsShutdown
  <2>2. ShutdownRequest.id = None
    BY DEF ShutdownRequest, Request
  <2>3. RequestKinds'
    BY <2>1, <2>2, PutsKinds DEF KindInv
  <2> QED BY <2>1, <2>3, SameKinds DEF KindInv
<1>4. CASE \E r \in Responses : HandlesResult(r)
  BY <1>4, ResultKeepsKinds
<1>5. CASE GivesUpWorker
  BY <1>5, DropsKinds, SameKinds DEF GivesUpWorker, Drops, KindInv
<1>6. CASE EmitScipIndex
  BY <1>6, SameKinds DEF EmitScipIndex, KindInv
<1>7. CASE \E w \in Workers : WorkerStep(w)
  BY <1>7, WorkerKeepsKinds
<1> QED BY <1>1, <1>2, <1>3, <1>4, <1>5, <1>6, <1>7, StepCases

------------------------------------------------------------------------------
(***************************************************************************)
(* Queues of busy workers.                                                 *)
(***************************************************************************)

(* A step that gives no worker a new current job and puts nothing into     *)
(* the queue of a worker that has one keeps QueueInv.                      *)
LEMMA QueueShrinks ==
    ASSUME QueueInv,
           \A v \in Workers :
              \/ sched'.currentlyProcessing[v] = None
              \/ /\ sched'.currentlyProcessing[v] = sched.currentlyProcessing[v]
                 /\ d2w'[v] = d2w[v] \/ d2w'[v] = <<>>
              \/ d2w'[v] # <<>> /\ d2w'[v][1].id = sched'.currentlyProcessing[v]
    PROVE  QueueInv'
BY DEF QueueInv

(* Every step keeps QueueInv.                                              *)
LEMMA QueueKept ==
    ASSUME ShapeInv, DriverInv, TypeOK, CopiesInv, KindInv, QueueInv, [Next]_vars
    PROVE  QueueInv'
<1>1. CASE QuietStep
  BY <1>1, QuietLeavesJobs, QueueShrinks DEF QuietStep, Quiet, LeavesJobs
<1>2. CASE SendsAnalysis
  <2>1. PICK w \in Workers, j \in JobIds :
           Puts(w, Request(j, SemaKind, {})) /\ Assigns(sched, sched', w, j)
    BY <1>2, AnalysisHasNames
  <2> DEFINE m == Request(j, SemaKind, {})
  <2>2. m.id = j /\ Puts(w, m)
    BY <2>1 DEF Request
  <2> HIDE DEF m
  <2> QED BY <2>1, <2>2, QueueShrinks DEF Puts, Assigns
<1>3. CASE SendsShutdown
  <2>1. /\ NextWorkerToStop(sched) \in Workers
        /\ sched.currentlyProcessing[NextWorkerToStop(sched)] = None
        /\ Puts(NextWorkerToStop(sched), ShutdownRequest)
        /\ sched'.currentlyProcessing = sched.currentlyProcessing
    BY <1>3, ShutdownLeavesJobs DEF SendsShutdown, LeavesJobs
  <2> QED BY <2>1, QueueShrinks DEF Puts
<1>4. ASSUME NEW r \in Responses, HandlesResult(r) PROVE QueueInv'
  <2>1. /\ Settles(sched, sched', r.worker, r.job) /\ r.worker \in Workers
    BY <1>4, ResultSettles, MessageFields
  <2>2. CASE DropsResult(r)
    BY <2>1, <2>2, QueueShrinks DEF DropsResult, Settles, IsCurrentJob
  <2>3. CASE MergesResult(r)
    <3>1. sched'.currentlyProcessing[r.worker] = None /\ UNCHANGED d2w
      BY <1>4, <2>3, ResultSettles DEF MergesResult
    <3> QED BY <2>1, <3>1, QueueShrinks DEF Settles
  <2>4. CASE PlansResult(r)
    <3> DEFINE e == <<r.job[1], 1>>
               m == Request(NextSubtask(r.job), EmitKind, r.files \ hashesSoFar)
    <3>1. sched'.currentlyProcessing[r.worker] = e
      BY <1>4, <2>4, ResultSettles DEF Follows
    <3>2. Puts(r.worker, m) /\ NextSubtask(r.job) = e
      BY <2>4 DEF PlansResult
    <3>3. m.id = e
      BY <3>2 DEF Request
    <3> HIDE DEF m, e
    <3> QED BY <2>1, <3>1, <3>2, <3>3, QueueShrinks DEF Settles, Puts
  <2>5. CASE LosesResult(r)
    <3>1. sched'.currentlyProcessing[r.worker] = None /\ UNCHANGED d2w
      BY <1>4, <2>5, ResultSettles DEF LosesResult, Follows
    <3> QED BY <2>1, <3>1, QueueShrinks DEF Settles
  <2> QED BY <1>4, <2>2, <2>3, <2>4, <2>5 DEF HandlesResult
<1>5. CASE GivesUpWorker
  <2>1. /\ GivesUp(sched, sched', scan) /\ scan \in Workers /\ UNCHANGED d2w
        /\ sched.currentlyProcessing \in [Workers -> JobIds \cup {None}]
    BY <1>5, ScanGivesUp, FieldTypes DEF GivesUpWorker
  <2>2. sched'.currentlyProcessing = [sched.currentlyProcessing EXCEPT ![scan] = None]
    BY <2>1 DEF GivesUp
  <2>3. \A v \in Workers : \/ sched'.currentlyProcessing[v] = None
                            \/ sched'.currentlyProcessing[v] = sched.currentlyProcessing[v]
    BY <2>1, <2>2
  <2> QED BY <2>1, <2>3, QueueShrinks
<1>6. CASE EmitScipIndex
  BY <1>6, QueueShrinks DEF EmitScipIndex, schedVars
<1>7. ASSUME NEW w \in Workers, WorkerStep(w) PROVE QueueInv'
  <2>1. UNCHANGED sched /\ (UNCHANGED d2w \/ Takes(w))
    BY <1>7, SendSemaEffect, SendEmitEffect DEF WorkerStep, Writes, schedVars
  <2> QED BY <2>1, QueueShrinks DEF Takes
<1> QED BY <1>1, <1>2, <1>3, <1>4, <1>5, <1>6, <1>7, StepCases

------------------------------------------------------------------------------
(***************************************************************************)
(* The process that takes an emission.                                     *)
(***************************************************************************)

(* A process at rest takes no emission.                                    *)
LEMMA RestAwaits ==
    ASSUME NEW w \in Workers, NEW t, AtRest(proc'[w])
    PROVE  AwaitsEmission(w, t)'
BY DEF AtRest, AwaitsEmission

(* A step that makes no emission due and leaves the processes alone, or    *)
(* puts them to rest, keeps AnalystInv.                                    *)
LEMMA AnalystShrinks ==
    ASSUME AnalystInv,
           \A w \in Workers, t \in Tasks :
              EmissionDue(w, t)' => /\ EmissionDue(w, t) \/ AwaitsEmission(w, t)
                                    /\ proc'[w] = proc[w] \/ AtRest(proc'[w])
    PROVE  AnalystInv'
<1> SUFFICES ASSUME NEW w \in Workers, NEW t \in Tasks, EmissionDue(w, t)'
             PROVE  AwaitsEmission(w, t)'
  BY DEF AnalystInv
<1>1. AwaitsEmission(w, t)
  BY DEF AnalystInv
<1>2. CASE proc'[w] = proc[w]
  BY <1>1, <1>2 DEF AwaitsEmission
<1>3. CASE AtRest(proc'[w])
  BY <1>3, RestAwaits
<1> QED BY <1>2, <1>3

(* No emission is due at a worker that takes a request.                    *)
LEMMA NoneDueAfterTake ==
    ASSUME CopiesInv, QueueInv, NEW w \in Workers, Takes(w), d2w[w][1].id \in JobIds,
           UNCHANGED <<sched, w2d>>, NEW t \in Tasks
    PROVE  ~ EmissionDue(w, t)'
<1>1. ~ HasRequest(w, <<t, 1>>)'
  BY DEF Takes, HasRequest
<1>2. ASSUME HasResponse(w, <<t, 0>>), sched.currentlyProcessing[w] = <<t, 0>> PROVE FALSE
  <2>1. <<t, 0>> \in JobIds
    BY DEF JobIds
  <2>2. <<t, 0>> # None
    BY <2>1, NoneIsNoValue
  <2>3. HasRequest(w, <<t, 0>>)
    BY <1>2, <2>2 DEF QueueInv, Takes, HasRequest
  <2> QED BY <1>2, <2>1, <2>3 DEF CopiesInv
<1>3. HasResponse(w, <<t, 0>>)' = HasResponse(w, <<t, 0>>)
  BY SameCopies
<1> QED BY <1>1, <1>2, <1>3 DEF EmissionDue

(* A worker's step makes an emission due only at the worker that has done  *)
(* the analysis.                                                           *)
LEMMA WorkerKeepsAnalyst ==
    ASSUME ShapeInv, CopiesInv, QueueInv, AnalystInv, NEW w \in Workers, WorkerStep(w)
    PROVE  AnalystInv'
<1>1. UNCHANGED sched
  BY DEF WorkerStep, schedVars
<1>2. /\ \A v \in Workers : v # w => proc'[v] = proc[v] /\ d2w'[v] = d2w[v]
      /\ \A v \in Workers : \A j : v # w => HasResponse(v, j)' = HasResponse(v, j)
  <2>1. CASE SendSemaResult(w) \/ SendEmitResult(w)
    <3>1. PICK r : Reports(r) /\ r.worker = w
      BY <2>1, SendSemaEffect, SendEmitEffect
    <3>2. UNCHANGED d2w /\ \A v \in Workers : v # w => proc'[v] = proc[v]
      BY <2>1, SendSemaEffect, SendEmitEffect DEF Turns
    <3>3. ASSUME NEW v \in Workers, NEW j, v # w PROVE HasResponse(v, j)' = HasResponse(v, j)
      <4>1. HasResponse(v, j)' <=> HasResponse(v, j)
        BY <3>1, <3>3, ReportsResponse
      <4> QED BY <4>1 DEF HasResponse
    <3> QED BY <3>2, <3>3
  <2>2. CASE ~ (SendSemaResult(w) \/ SendEmitResult(w))
    <3>1. UNCHANGED w2d
      BY <2>2 DEF WorkerStep, Drops, Analyses, Emits, Writes
    <3>2. UNCHANGED d2w \/ Takes(w)
      BY <2>2 DEF WorkerStep, Writes
    <3>3. \E q : Turns(w, q)
      BY <2>2 DEF WorkerStep, Drops, Analyses, Emits, Writes
    <3>4. \A v \in Workers : v # w => d2w'[v] = d2w[v]
      BY <3>2 DEF Takes
    <3>5. \A v \in Workers : v # w => proc'[v] = proc[v]
      BY <3>3 DEF Turns
    <3> QED BY <3>1, <3>4, <3>5, SameCopies
  <2> QED BY <2>1, <2>2
<1> SUFFICES ASSUME NEW v \in Workers, NEW t \in Tasks, EmissionDue(v, t)'
             PROVE  AwaitsEmission(v, t)'
  BY DEF AnalystInv
<1>3. CASE v # w
  <2>1. EmissionDue(v, t)
    BY <1>1, <1>2, <1>3 DEF EmissionDue, HasRequest
  <2>2. AwaitsEmission(v, t)
    BY <2>1 DEF AnalystInv
  <2> QED BY <1>2, <1>3, <2>2 DEF AwaitsEmission
<1>4. CASE v = w
  <2>1. CASE Drops(w)
    BY <1>4, <2>1, RestAwaits DEF Drops, Turns
  <2>2. CASE (Analyses(w) \/ Emits(w)) /\ Takes(w)
    <3>1. d2w[w][1].id \in JobIds /\ UNCHANGED w2d
      BY <2>2 DEF Analyses, Emits
    <3> QED BY <1>1, <1>4, <2>2, <3>1, NoneDueAfterTake
  <2>3. CASE SendSemaResult(w)
    <3> DEFINE r == SemaResult(w)
    <3>1. /\ Reports(r) /\ r.worker = w /\ r.job = proc[w].job /\ UNCHANGED d2w
          /\ proc[w].pc = "sema" /\ proc'[w].pc = "waitEmit" /\ proc'[w].job = proc[w].job
      BY <2>3, SendSemaEffect
    <3> HIDE DEF r
    <3>2. ~ EmissionDue(w, t)
      BY <3>1 DEF AnalystInv, AwaitsEmission
    <3>3. HasRequest(w, <<t, 1>>)' = HasRequest(w, <<t, 1>>)
      BY <3>1, SameCopies
    <3>4. proc[w].job = <<t, 0>>
      BY <1>1, <1>4, <3>1, <3>2, <3>3, ReportsResponse DEF EmissionDue
    <3> QED BY <1>4, <3>1, <3>4 DEF AwaitsEmission
  <2>4. CASE SendEmitResult(w)
    BY <1>4, <2>4, SendEmitEffect, RestAwaits DEF AtRest
  <2>5. ASSUME NEW part, NEW pc, Writes(w, part, pc) PROVE FALSE
    <3>1. proc[w].pc \in EmitPcs /\ UNCHANGED <<d2w, w2d>>
      BY <2>5 DEF Writes
    <3>2. EmissionDue(w, t)
      BY <1>1, <1>4, <3>1, SameCopies DEF EmissionDue
    <3> QED BY <3>1, <3>2 DEF AnalystInv, AwaitsEmission, EmitPcs
  <2> QED BY <2>1, <2>2, <2>3, <2>4, <2>5 DEF WorkerStep
<1> QED BY <1>3, <1>4

(* A result that is read makes its emission due, if it was awaited.        *)
LEMMA ResultKeepsAnalyst ==
    ASSUME DriverInv, CopiesInv, KindInv, AnalystInv, NEW r \in Responses, HandlesResult(r)
    PROVE  AnalystInv'
<1> DEFINE w == r.worker
           j == r.job
<1>1. /\ Pops(r) /\ Settles(sched, sched', w, j) /\ w \in Workers /\ j \in JobIds
      /\ HasResponse(w, j)
  BY ResultSettles, MessageFields DEF Pops, HasResponse
<1>2. UNCHANGED proc
  BY ResultSettles DEF HandlesResult, DropsResult, MergesResult, PlansResult, LosesResult
<1>3. \A v \in Workers, i \in JobIds : HasResponse(v, i)' => HasResponse(v, i)
  BY <1>1, PopsResponse
<1>4. \A v \in Workers, t \in Tasks :
         sched'.currentlyProcessing[v] = <<t, 0>> => sched.currentlyProcessing[v] = <<t, 0>>
  <2> SUFFICES ASSUME NEW v \in Workers, NEW t \in Tasks,
                      sched'.currentlyProcessing[v] = <<t, 0>>
               PROVE  sched.currentlyProcessing[v] = <<t, 0>>
    OBVIOUS
  <2>1. <<t, 0>> # None
    BY NoneIsNoValue DEF JobIds
  <2>2. CASE v # w
    BY <1>1, <2>2 DEF Settles
  <2>3. CASE DropsResult(r)
    BY <1>1, <2>3 DEF Settles, DropsResult, IsCurrentJob
  <2>4. CASE v = w /\ (MergesResult(r) \/ LosesResult(r))
    BY <2>1, <2>4, ResultSettles DEF Follows
  <2>5. CASE v = w /\ PlansResult(r)
    <3>1. sched'.currentlyProcessing[w] = <<r.job[1], 1>>
      BY <2>5, ResultSettles DEF Follows
    <3>2. <<r.job[1], 1>> # <<t, 0>>
      OBVIOUS
    <3> QED BY <2>5, <3>1, <3>2
  <2> QED BY <2>2, <2>3, <2>4, <2>5 DEF HandlesResult
<1>5. CASE UNCHANGED d2w
  <2>1. \A v \in Workers, t \in Tasks : EmissionDue(v, t)' => EmissionDue(v, t)
    <3> SUFFICES ASSUME NEW v \in Workers, NEW t \in Tasks, EmissionDue(v, t)'
                 PROVE  EmissionDue(v, t)
      OBVIOUS
    <3>1. <<t, 0>> \in JobIds
      BY DEF JobIds
    <3> QED BY <1>3, <1>4, <1>5, <3>1, SameCopies DEF EmissionDue
  <2> QED BY <1>2, <2>1, AnalystShrinks
<1>6. CASE PlansResult(r)
  <2> DEFINE m == Request(NextSubtask(r.job), EmitKind, r.files \ hashesSoFar)
             u == j[1]
  <2>1. /\ Puts(w, m) /\ NextSubtask(r.job) = <<u, 1>> /\ j[2] = 0
        /\ IsCurrentJob(sched, w, j)
    BY <1>6 DEF PlansResult
  <2>2. m.id = <<u, 1>>
    BY <2>1 DEF Request
  <2>3. j = <<u, 0>> /\ u \in Tasks
    BY <1>1, <2>1, JobParts
  <2>4. EmissionDue(w, u)
    BY <1>1, <2>1, <2>3 DEF EmissionDue, IsCurrentJob
  <2> HIDE DEF m
  <2>5. ASSUME NEW v \in Workers, NEW t \in Tasks, EmissionDue(v, t)'
        PROVE  EmissionDue(v, t)
    <3>1. <<t, 0>> \in JobIds
      BY DEF JobIds
    <3>2. CASE HasRequest(v, <<t, 1>>)'
      <4>1. HasRequest(v, <<t, 1>>) \/ (v = w /\ m.id = <<t, 1>>)
        BY <1>1, <2>1, <3>2, PutsRequest
      <4>2. m.id = <<t, 1>> => t = u
        BY <2>2
      <4> QED BY <2>4, <4>1, <4>2 DEF EmissionDue
    <3>3. CASE ~ HasRequest(v, <<t, 1>>)'
      BY <1>3, <1>4, <2>5, <3>1, <3>3 DEF EmissionDue
    <3> QED BY <3>2, <3>3
  <2> QED BY <1>2, <2>5, AnalystShrinks
<1> QED BY <1>5, <1>6 DEF HandlesResult, DropsResult, MergesResult, LosesResult

(* Every step keeps AnalystInv.                                            *)
LEMMA AnalystKept ==
    ASSUME ShapeInv, DriverInv, TypeOK, CopiesInv, KindInv, QueueInv, AnalystInv, [Next]_vars
    PROVE  AnalystInv'
<1>1. CASE QuietStep
  <2>1. /\ UNCHANGED <<d2w, w2d, proc>>
        /\ sched'.currentlyProcessing = sched.currentlyProcessing
    BY <1>1, QuietLeavesJobs DEF QuietStep, Quiet, LeavesJobs
  <2>2. \A v \in Workers, t \in Tasks : EmissionDue(v, t)' => EmissionDue(v, t)
    BY <2>1, SameCopies DEF EmissionDue
  <2> QED BY <2>1, <2>2, AnalystShrinks
<1>2. CASE SendsAnalysis
  <2>1. PICK w \in Workers, j \in JobIds :
           /\ j[2] = 0 /\ Puts(w, Request(j, SemaKind, {}))
           /\ Assigns(sched, sched', w, j) /\ UNCHANGED <<w2d, proc>>
    BY <1>2, AnalysisHasNames
  <2> DEFINE m == Request(j, SemaKind, {})
  <2>2. m.id = j /\ Puts(w, m)
    BY <2>1 DEF Request
  <2> HIDE DEF m
  <2>3. ASSUME NEW v \in Workers, NEW t \in Tasks, EmissionDue(v, t)'
        PROVE  EmissionDue(v, t)
    <3>1. <<t, 0>> \in JobIds /\ <<t, 1>>[2] = 1
      BY DEF JobIds
    <3>2. HasRequest(v, <<t, 1>>)' => HasRequest(v, <<t, 1>>)
      BY <2>1, <2>2, <3>1, PutsRequest
    <3>3. HasResponse(v, <<t, 0>>)' = HasResponse(v, <<t, 0>>)
      BY <2>1, SameCopies
    <3>4. CASE v # w
      BY <2>1, <2>3, <3>2, <3>3, <3>4 DEF EmissionDue, Assigns
    <3>5. CASE v = w /\ HasResponse(w, <<t, 0>>)
      <4>1. sched.assignedWorker[<<t, 0>>] = w /\ w # None
        BY <3>1, <3>5, NoneIsNoValue DEF CopiesInv, IsExpected
      <4>2. j # <<t, 0>>
        BY <2>1, <4>1 DEF Assigns
      <4> QED BY <2>1, <2>3, <3>2, <3>5, <4>2 DEF EmissionDue, Assigns
    <3> QED BY <2>3, <3>2, <3>3, <3>4, <3>5 DEF EmissionDue
  <2> QED BY <2>1, <2>3, AnalystShrinks
<1>3. CASE SendsShutdown
  <2> DEFINE w == NextWorkerToStop(sched)
  <2>1. /\ w \in Workers /\ Puts(w, ShutdownRequest) /\ UNCHANGED <<w2d, proc>>
        /\ sched'.currentlyProcessing = sched.currentlyProcessing
    BY <1>3, ShutdownLeavesJobs DEF SendsShutdown, LeavesJobs
  <2> HIDE DEF w
  <2>2. ShutdownRequest.id = None
    BY DEF ShutdownRequest, Request
  <2>3. ASSUME NEW v \in Workers, NEW t \in Tasks, EmissionDue(v, t)'
        PROVE  EmissionDue(v, t)
    <3>1. <<t, 1>> # None
      BY NoneIsNoValue DEF JobIds
    <3>2. HasRequest(v, <<t, 1>>)' => HasRequest(v, <<t, 1>>)
      BY <2>1, <2>2, <3>1, PutsRequest
    <3> QED BY <2>1, <2>3, <3>2, SameCopies DEF EmissionDue
  <2> QED BY <2>1, <2>3, AnalystShrinks
<1>4. ASSUME NEW r \in Responses, HandlesResult(r) PROVE AnalystInv'
  BY <1>4, ResultKeepsAnalyst
<1>5. CASE GivesUpWorker
  <2>1. /\ GivesUp(sched, sched', scan) /\ scan \in Workers /\ UNCHANGED <<d2w, w2d>>
        /\ sched.currentlyProcessing \in [Workers -> JobIds \cup {None}]
    BY <1>5, ScanGivesUp, FieldTypes DEF GivesUpWorker, Drops
  <2>2. sched'.currentlyProcessing = [sched.currentlyProcessing EXCEPT ![scan] = None]
    BY <2>1 DEF GivesUp
  <2>3. AtRest(proc'[scan]) /\ \A v \in Workers : v # scan => proc'[v] = proc[v]
    BY <1>5 DEF GivesUpWorker, Drops, Turns
  <2>4. ASSUME NEW v \in Workers, NEW t \in Tasks, EmissionDue(v, t)'
        PROVE  EmissionDue(v, t)
    <3>1. <<t, 0>> # None
      BY NoneIsNoValue DEF JobIds
    <3>2. sched'.currentlyProcessing[v] = <<t, 0>> => sched.currentlyProcessing[v] = <<t, 0>>
      BY <2>1, <2>2, <3>1
    <3> QED BY <2>1, <2>4, <3>2, SameCopies DEF EmissionDue
  <2> QED BY <2>3, <2>4, AnalystShrinks
<1>6. CASE EmitScipIndex
  <2>1. UNCHANGED <<sched, d2w, w2d, proc>>
    BY <1>6 DEF EmitScipIndex, schedVars
  <2>2. \A v \in Workers, t \in Tasks : EmissionDue(v, t)' => EmissionDue(v, t)
    BY <2>1, SameCopies DEF EmissionDue
  <2> QED BY <2>1, <2>2, AnalystShrinks
<1>7. ASSUME NEW w \in Workers, WorkerStep(w) PROVE AnalystInv'
  BY <1>7, WorkerKeepsAnalyst
<1> QED BY <1>1, <1>2, <1>3, <1>4, <1>5, <1>6, <1>7, StepCases

(* A shard holds the main file of its unit, and so does the process that   *)
(* is about to write it.                                                   *)
LEMMA MainKept ==
    ASSUME ShapeInv, DriverInv, CopiesInv, KindInv, AnalystInv, MainInv, [Next]_vars
    PROVE  MainInv'
<1>1. ASSUME UNCHANGED disk,
             \A v \in Workers : proc'[v] = proc[v] \/ proc'[v].pc \notin EmitPcs
      PROVE  MainInv'
  BY <1>1 DEF MainInv
<1>2. CASE QuietStep \/ SendsAnalysis \/ SendsShutdown \/ EmitScipIndex
  BY <1>1, <1>2 DEF QuietStep, Quiet, SendsAnalysis, SendsShutdown, EmitScipIndex
<1>3. ASSUME NEW r \in Responses, HandlesResult(r) PROVE MainInv'
  <2>1. UNCHANGED <<proc, disk>>
    BY <1>3, ResultSettles
       DEF HandlesResult, DropsResult, MergesResult, PlansResult, LosesResult, Pops
  <2> QED BY <1>1, <2>1
<1>4. CASE GivesUpWorker
  <2>1. UNCHANGED disk /\ AtRest(proc'[scan])
        /\ \A v \in Workers : v # scan => proc'[v] = proc[v]
    BY <1>4 DEF GivesUpWorker, Drops, Turns
  <2> QED BY <1>1, <2>1 DEF AtRest, EmitPcs
<1>5. ASSUME NEW w \in Workers, WorkerStep(w) PROVE MainInv'
  <2>1. CASE Drops(w)
    <3>1. UNCHANGED disk /\ AtRest(proc'[w]) /\ \A v \in Workers : v # w => proc'[v] = proc[v]
      BY <2>1 DEF Drops, Turns
    <3> QED BY <1>1, <3>1 DEF AtRest, EmitPcs
  <2>2. CASE Analyses(w)
    <3>1. /\ UNCHANGED disk /\ proc'[w].pc = "sema"
          /\ \A v \in Workers : v # w => proc'[v] = proc[v]
      BY <2>2 DEF Analyses, Turns
    <3> QED BY <1>1, <3>1 DEF EmitPcs
  <2>3. CASE Emits(w) /\ Takes(w)
    <3> DEFINE i == d2w[w][1].id
    <3>1. /\ proc[w].pc = "waitEmit" /\ proc[w].ran /\ i \in JobIds /\ d2w[w] # <<>>
          /\ d2w[w][1].kind = EmitKind /\ d2w[w][1].kind = JobKind(i)
      BY <2>3, NoneIsNoValue DEF Emits, Takes, KindInv, ProcessKinds, RequestKinds
    <3>2. i = <<i[1], 1>> /\ i[1] \in Tasks
      BY <3>1, JobParts
    <3>3. HasRequest(w, <<i[1], 1>>)
      BY <3>1, <3>2 DEF HasRequest
    <3>4. proc[w].job = <<i[1], 0>>
      BY <3>1, <3>2, <3>3 DEF AnalystInv, EmissionDue, AwaitsEmission
    <3>5. /\ proc'[w].main = {MainFile[proc[w].job[1]]} /\ proc'[w].job = i
          /\ UNCHANGED disk /\ \A v \in Workers : v # w => proc'[v] = proc[v]
      BY <2>3, <3>1 DEF Emits, Turns
    <3>6. proc'[w].main = {MainFile[proc'[w].job[1]]}
      BY <3>4, <3>5
    <3> QED BY <3>5, <3>6 DEF MainInv
  <2>4. CASE SendSemaResult(w) \/ SendEmitResult(w)
    <3>1. /\ UNCHANGED disk /\ proc'[w].pc \in {"waitEmit", "idle"}
          /\ \A v \in Workers : v # w => proc'[v] = proc[v]
      BY <2>4, SendSemaEffect, SendEmitEffect DEF Turns
    <3> QED BY <1>1, <3>1 DEF EmitPcs
  <2>5. ASSUME NEW part, NEW pc, Writes(w, part, pc) PROVE MainInv'
    <3> DEFINE n == Shard(w, part)
    <3>1. /\ proc[w].pc \in EmitPcs /\ n.task = proc[w].job[1] /\ n.main = proc[w].main
          /\ proc'[w].job = proc[w].job /\ proc'[w].main = proc[w].main
          /\ \A v \in Workers : v # w => proc'[v] = proc[v]
      BY <2>5 DEF Writes, Turns
    <3>2. \A d \in disk' : d \in disk \/ d = n
      BY <2>5 DEF Writes, EmitIndex
    <3> HIDE DEF n
    <3>3. \A d \in disk' : d.main = {MainFile[d.task]}
      BY <3>1, <3>2 DEF MainInv
    <3>4. \A v \in Workers : proc'[v].pc \in EmitPcs => proc'[v].main = {MainFile[proc'[v].job[1]]}
      BY <3>1 DEF MainInv
    <3> QED BY <3>3, <3>4 DEF MainInv
  <2> QED BY <1>5, <2>1, <2>2, <2>3, <2>4, <2>5 DEF WorkerStep
<1> QED BY <1>2, <1>3, <1>4, <1>5, StepCases

------------------------------------------------------------------------------
(***************************************************************************)
(* Merged tasks and the index.                                             *)
(***************************************************************************)

(* The driver takes no step of the loop after its end.                     *)
LEMMA DoneStandsStill ==
    ASSUME phase = "done", [SchedNext]_schedVars
    PROVE  UNCHANGED <<sched, phase>>
BY DEF SchedNext, FirstRefill, RefillPendingJobs, LeaveLoop, ContinueLoop,
       AssignJob, ShutdownIdleWorker, BeginReceive, HandleResponse, ReceiveTimeout,
       StopDraining, ScanWorker, EndScan, Finish, StayOver, schedVars

(* The index is written once, and nothing happens to the loop afterwards.  *)
LEMMA OutputKept ==
    ASSUME ShapeInv, DriverInv, CopiesInv, KindInv, OutputInv, [Next]_vars
    PROVE  /\ OutputInv' /\ (UNCHANGED output \/ EmitScipIndex)
           /\ output.written => UNCHANGED <<sched, phase>>
<1>1. [SchedNext]_schedVars \/ DriverCrash
  BY StepIsSchedStep
<1>2. output.written => UNCHANGED <<sched, phase>>
  BY <1>1, DoneStandsStill DEF OutputInv, DriverCrash
<1>3. UNCHANGED output \/ EmitScipIndex
  <2>1. CASE QuietStep
    BY <2>1 DEF QuietStep, Quiet, driverVars
  <2>2. CASE SendsAnalysis \/ SendsShutdown \/ GivesUpWorker
    BY <2>2 DEF SendsAnalysis, SendsShutdown, GivesUpWorker, Drops, driverVars
  <2>3. CASE \E r \in Responses : HandlesResult(r)
    BY <2>3 DEF HandlesResult, DropsResult, MergesResult, PlansResult, LosesResult, Pops
  <2>4. CASE \E w \in Workers : WorkerStep(w)
    BY <2>4, SendSemaEffect, SendEmitEffect
       DEF WorkerStep, Drops, Analyses, Emits, Writes, driverVars
  <2> QED BY <2>1, <2>2, <2>3, <2>4, StepCases
<1>4. CASE EmitScipIndex
  BY <1>4 DEF EmitScipIndex, OutputInv, schedVars, Running
<1>5. CASE UNCHANGED output
  BY <1>2, <1>5 DEF OutputInv, Running
<1> QED BY <1>2, <1>3, <1>4, <1>5

(* A step that merges nothing and restarts no job of a merged task.        *)
LEMMA PathsSame ==
    ASSUME PathsInv, UNCHANGED shardPaths, sched.allJobList \subseteq sched'.allJobList,
           \A u \in Tasks : <<u, 1>> \in sched'.wipJobs =>
              <<u, 1>> \in sched.wipJobs \/ <<u, 1>> \notin sched.allJobList,
           \A p \in Elems(shardPaths) : p[1] \in Tasks
    PROVE  PathsInv'
BY DEF PathsInv, Elems

(* Shards are of tasks.                                                    *)
LEMMA PathParts ==
    ASSUME ShapeInv
    PROVE  /\ shardPaths \in Seq(Tasks \X Workers)
           /\ \A p \in Elems(shardPaths) :
                 p = <<p[1], p[2]>> /\ p[1] \in Tasks /\ p[2] \in Workers
BY DEF ShapeInv, FileShape, Elems

(* A task that is merged was in progress until then, so that it was not    *)
(* merged before.                                                          *)
LEMMA ResultKeepsPaths ==
    ASSUME ShapeInv, DriverInv, CopiesInv, KindInv, PathsInv,
           NEW r \in Responses, HandlesResult(r)
    PROVE  PathsInv'
<1>1. /\ Settles(sched, sched', r.worker, r.job) /\ r.worker \in Workers /\ r.job \in JobIds
      /\ sched.allJobList \subseteq sched'.allJobList /\ r.job \in sched.allJobList
  BY ResultSettles, MessageFields DEF Settles
<1>2. CASE DropsResult(r)
  BY <1>1, <1>2, ResultSettles, PathsSame, PathParts DEF DropsResult
<1>3. CASE PlansResult(r) \/ LosesResult(r)
  <2>1. /\ sched'.wipJobs \subseteq sched.wipJobs \cup {<<r.job[1], 1>>}
        /\ <<r.job[1], 1>> \notin sched.allJobList /\ UNCHANGED shardPaths
    BY <1>3, ResultSettles DEF Follows, PlansResult, LosesResult
  <2> QED BY <1>1, <2>1, PathsSame, PathParts
<1>4. CASE MergesResult(r)
  <2> DEFINE n == <<r.job[1], r.worker>>
  <2>1. /\ shardPaths' = Append(shardPaths, n) /\ r.job \in sched.wipJobs
        /\ sched'.wipJobs = sched.wipJobs \ {r.job} /\ JobKind(r.job) = EmitKind
        /\ sched'.allJobList = sched.allJobList
    BY <1>4, ResultSettles DEF MergesResult
  <2>2. r.job = <<r.job[1], 1>> /\ n \in Tasks \X Workers /\ n[1] = r.job[1]
    BY <1>1, <2>1, JobParts
  <2> HIDE DEF n
  <2>3. \A p \in Elems(shardPaths) : p[1] # n[1]
    BY <2>1, <2>2 DEF PathsInv
  <2>4. Elems(shardPaths') = Elems(shardPaths) \cup {n} /\ Distinct(shardPaths')
    BY <2>1, <2>2, <2>3, PathParts, PushBackDeque DEF PathsInv
  <2>5. \A p, q \in Elems(shardPaths') : p[1] = q[1] => p = q
    BY <2>3, <2>4 DEF PathsInv
  <2>6. ASSUME NEW p \in Elems(shardPaths')
        PROVE  <<p[1], 1>> \in sched'.allJobList /\ <<p[1], 1>> \notin sched'.wipJobs
    BY <1>1, <2>1, <2>2, <2>4 DEF PathsInv
  <2> QED BY <2>4, <2>5, <2>6 DEF PathsInv
<1> QED BY <1>2, <1>3, <1>4 DEF HandlesResult

(* Every step keeps PathsInv.                                              *)
LEMMA PathsKept ==
    ASSUME ShapeInv, DriverInv, TypeOK, CopiesInv, KindInv, PathsInv, [Next]_vars
    PROVE  PathsInv'
<1>1. CASE QuietStep
  <2>1. LeavesJobs(sched, sched') /\ UNCHANGED shardPaths
    BY <1>1, QuietLeavesJobs DEF QuietStep, Quiet, driverVars
  <2> QED BY <2>1, PathsSame, PathParts DEF LeavesJobs
<1>2. CASE SendsAnalysis
  <2>1. PICK w \in Workers, j \in JobIds :
           j[2] = 0 /\ Assigns(sched, sched', w, j) /\ UNCHANGED driverVars
    BY <1>2, AnalysisHasNames
  <2>2. \A u \in Tasks : <<u, 1>>[2] = 1
    OBVIOUS
  <2>3. \A u \in Tasks : <<u, 1>> \in sched'.wipJobs => <<u, 1>> \in sched.wipJobs
    BY <2>1, <2>2 DEF Assigns
  <2> QED BY <2>1, <2>3, PathsSame, PathParts DEF Assigns, driverVars
<1>3. CASE SendsShutdown
  <2>1. LeavesJobs(sched, sched') /\ UNCHANGED shardPaths
    BY <1>3, ShutdownLeavesJobs DEF SendsShutdown, driverVars
  <2> QED BY <2>1, PathsSame, PathParts DEF LeavesJobs
<1>4. CASE \E r \in Responses : HandlesResult(r)
  BY <1>4, ResultKeepsPaths
<1>5. CASE GivesUpWorker
  <2>1. GivesUp(sched, sched', scan) /\ UNCHANGED shardPaths
    BY <1>5, ScanGivesUp DEF GivesUpWorker, Drops, driverVars
  <2> QED BY <2>1, PathsSame, PathParts DEF GivesUp
<1>6. CASE EmitScipIndex \/ \E w \in Workers : WorkerStep(w)
  <2>1. UNCHANGED <<sched, shardPaths>>
    BY <1>6, SendSemaEffect, SendEmitEffect
       DEF EmitScipIndex, WorkerStep, Drops, Analyses, Emits, Writes, driverVars, schedVars
  <2> QED BY <2>1, PathsSame, PathParts
<1> QED BY <1>1, <1>2, <1>3, <1>4, <1>5, <1>6, StepCases

------------------------------------------------------------------------------
(***************************************************************************)
(* Planned files.                                                          *)
(***************************************************************************)

(* Only the result of an analysis plans files and creates an emission.     *)
PlansNothing ==
    /\ UNCHANGED hashesSoFar
    /\ sched.allJobList \subseteq sched'.allJobList
    /\ \A u \in Tasks : <<u, 1>> \in sched'.allJobList => <<u, 1>> \in sched.allJobList

(* The result r of an analysis is planned.                                 *)
PlansFiles(r) ==
    /\ r \in Responses
    /\ PlansResult(r) \/ LosesResult(r)
    /\ r.worker \in Workers /\ r.job \in JobIds /\ r.files = SemaFiles[r.job[1]]
    /\ hashesSoFar' = hashesSoFar \cup r.files
    /\ <<r.job[1], 1>> \in JobIds /\ <<r.job[1], 1>> \notin sched.allJobList
    /\ sched.assignedWorker[<<r.job[1], 1>>] = None
    /\ sched'.allJobList = sched.allJobList \cup {<<r.job[1], 1>>}
    /\ UNCHANGED <<proc, disk, shardPaths>>

(* Every step plans nothing or the files of one analysis.                  *)
LEMMA PlanCases ==
    ASSUME ShapeInv, DriverInv, TypeOK, CopiesInv, KindInv, [Next]_vars
    PROVE  PlansNothing \/ \E r : PlansFiles(r)
<1>1. CASE QuietStep
  <2>1. LeavesJobs(sched, sched') /\ UNCHANGED hashesSoFar
    BY <1>1, QuietLeavesJobs DEF QuietStep, Quiet, driverVars
  <2> QED BY <2>1 DEF LeavesJobs, PlansNothing
<1>2. CASE SendsAnalysis
  <2>1. PICK w \in Workers, j \in JobIds :
           Assigns(sched, sched', w, j) /\ UNCHANGED driverVars
    BY <1>2, AnalysisHasNames
  <2> QED BY <2>1 DEF Assigns, driverVars, PlansNothing
<1>3. CASE SendsShutdown
  <2>1. LeavesJobs(sched, sched') /\ UNCHANGED hashesSoFar
    BY <1>3, ShutdownLeavesJobs DEF SendsShutdown, driverVars
  <2> QED BY <2>1 DEF LeavesJobs, PlansNothing
<1>4. ASSUME NEW r \in Responses, HandlesResult(r) PROVE PlansNothing \/ PlansFiles(r)
  <2>1. CASE DropsResult(r) \/ MergesResult(r)
    <3>1. sched'.allJobList = sched.allJobList /\ UNCHANGED hashesSoFar
      BY <1>4, <2>1, ResultSettles DEF DropsResult, MergesResult
    <3> QED BY <3>1 DEF PlansNothing
  <2>2. CASE PlansResult(r) \/ LosesResult(r)
    <3>1. /\ r.worker \in Workers /\ r.job \in JobIds /\ r \in Elems(w2d) /\ r.kind = SemaKind
          /\ hashesSoFar' = hashesSoFar \cup r.files /\ UNCHANGED <<shardPaths, disk>>
      BY <2>2, MessageFields DEF PlansResult, LosesResult, Pops
    <3>2. r.files = SemaFiles[r.job[1]]
      BY <3>1 DEF KindInv, ResponseKinds
    <3>3. \E sent \in BOOLEAN : Follows(sched, sched', r.worker, <<r.job[1], 1>>, sent)
      BY <1>4, <2>2, ResultSettles
    <3>4. UNCHANGED proc
      BY <1>4, <2>2, ResultSettles DEF PlansResult, LosesResult
    <3> QED BY <2>2, <3>1, <3>2, <3>3, <3>4 DEF Follows, PlansFiles
  <2> QED BY <1>4, <2>1, <2>2 DEF HandlesResult
<1>5. CASE GivesUpWorker
  <2>1. GivesUp(sched, sched', scan) /\ UNCHANGED hashesSoFar
    BY <1>5, ScanGivesUp DEF GivesUpWorker, Drops, driverVars
  <2> QED BY <2>1 DEF GivesUp, PlansNothing
<1>6. CASE EmitScipIndex \/ \E w \in Workers : WorkerStep(w)
  <2>1. UNCHANGED <<sched, hashesSoFar>>
    BY <1>6, SendSemaEffect, SendEmitEffect
       DEF EmitScipIndex, WorkerStep, Drops, Analyses, Emits, Writes, driverVars, schedVars
  <2> QED BY <2>1 DEF PlansNothing
<1> QED BY <1>1, <1>2, <1>3, <1>4, <1>5, <1>6, StepCases

(* Every step keeps PlannedInv.                                            *)
LEMMA PlannedKept ==
    ASSUME ShapeInv, DriverInv, TypeOK, CopiesInv, KindInv, PlannedInv, [Next]_vars
    PROVE  PlannedInv'
<1>1. CASE PlansNothing
  BY <1>1 DEF PlansNothing, PlannedInv
<1>2. ASSUME NEW r, PlansFiles(r) PROVE PlannedInv'
  <2>1. \A t \in Tasks : <<t, 1>> = <<r.job[1], 1>> => t = r.job[1]
    OBVIOUS
  <2> QED BY <1>2, <2>1 DEF PlansFiles, PlannedInv
<1> QED BY <1>1, <1>2, PlanCases

(* A new request for another job or with the file f.                       *)
LEMMA PutsCarries ==
    ASSUME NEW u, NEW f, RequestCarries(u, f), NEW w \in Workers, NEW m, Puts(w, m),
           m.id = <<u, 1>> => f \in m.files
    PROVE  RequestCarries(u, f)'
BY DEF RequestCarries, HasRequest, Puts

(* A request is taken.                                                     *)
LEMMA TakesCarries ==
    ASSUME NEW u, NEW f, RequestCarries(u, f), NEW w \in Workers, Takes(w)
    PROVE  RequestCarries(u, f)'
BY DEF RequestCarries, HasRequest, Takes

(* A process that turns to the emission of u holds f.                      *)
LEMMA TurnsCarries ==
    ASSUME NEW u, NEW f, HandCarries(u, f), NEW w \in Workers, NEW p, Turns(w, p),
           \A v \in Workers : InShard(disk, u, v, f) => InShard(disk', u, v, f),
           p.pc \in EmitPcs /\ p.job = <<u, 1>> =>
              f \in p.files /\ (p.pc # "emit" => InShard(disk', u, w, f))
    PROVE  HandCarries(u, f)'
BY DEF HandCarries, Turns

(* A process that drops its work holds nothing.                            *)
LEMMA DropsCarries ==
    ASSUME NEW u, NEW f, HandCarries(u, f), NEW w \in Workers, Drops(w)
    PROVE  HandCarries(u, f)'
<1>1. PICK p \in ProcessStates : AtRest(p) /\ Turns(w, p)
  BY DEF Drops
<1>2. p.pc \notin EmitPcs /\ UNCHANGED disk
  BY <1>1 DEF AtRest, EmitPcs, Drops
<1> QED BY <1>1, <1>2, TurnsCarries

(* What does not change goes on carrying f.                                *)
LEMMA SameCarries ==
    ASSUME NEW u, NEW f, Carries(u, f)
    PROVE  /\ UNCHANGED d2w => RequestCarries(u, f)'
           /\ UNCHANGED <<proc, disk>> => HandCarries(u, f)'
           /\ UNCHANGED disk /\ Elems(w2d') \subseteq Elems(w2d) => ResultCarries(u, f)'
           /\ UNCHANGED <<w2d, disk>> => ResultCarries(u, f)'
           /\ UNCHANGED <<shardPaths, disk>> => PathCarries(u, f)'
BY DEF Carries, RequestCarries, HandCarries, ResultCarries, PathCarries, HasRequest, HasResponse

(* A result passes on what its worker wrote.                               *)
LEMMA ResultKeepsCarries ==
    ASSUME ShapeInv, DriverInv, CopiesInv, KindInv, NEW r \in Responses, HandlesResult(r),
           NEW u \in Tasks, NEW f, Carries(u, f), <<u, 1>> \in sched.allJobList
    PROVE  Carries(u, f)'
<1>1. /\ Pops(r) /\ UNCHANGED disk /\ r.worker \in Workers /\ r.job \in JobIds
      /\ r \in Elems(w2d)
  BY ResultSettles, MessageFields DEF Pops
<1>2. ResultCarries(u, f)'
  BY <1>1, SameCarries DEF Pops
<1>3. CASE DropsResult(r)
  BY <1>1, <1>2, <1>3, SameCarries DEF DropsResult, Carries
<1>4. CASE MergesResult(r)
  <2> DEFINE n == <<r.job[1], r.worker>>
  <2>1. /\ shardPaths' = Append(shardPaths, n) /\ JobKind(r.job) = EmitKind
        /\ UNCHANGED <<d2w, proc>>
    BY <1>4, ResultSettles DEF MergesResult
  <2>2. /\ r.job = <<r.job[1], 1>> /\ n \in Tasks \X Workers /\ n[1] = r.job[1]
        /\ n[2] = r.worker
    BY <1>1, <2>1, JobParts
  <2> HIDE DEF n
  <2>3. Elems(shardPaths') = Elems(shardPaths) \cup {n}
    BY <2>1, <2>2, PathParts, PushBackDeque
  <2>4. HasResponse(r.worker, r.job)
    BY <1>1 DEF HasResponse
  <2>5. n[1] = u => InShard(disk, u, n[2], f)
    BY <1>1, <2>2, <2>4 DEF Carries, ResultCarries
  <2>6. PathCarries(u, f)'
    BY <1>1, <2>3, <2>5 DEF Carries, PathCarries
  <2> QED BY <1>1, <1>2, <2>1, <2>6, SameCarries DEF Carries
<1>5. CASE PlansResult(r)
  <2> DEFINE e == <<r.job[1], 1>>
             m == Request(NextSubtask(r.job), EmitKind, r.files \ hashesSoFar)
  <2>1. Puts(r.worker, m) /\ NextSubtask(r.job) = e /\ UNCHANGED <<proc, shardPaths>>
    BY <1>5 DEF PlansResult
  <2>2. m.id = e /\ e # <<u, 1>>
    <3>1. e \notin sched.allJobList
      BY <1>5, ResultSettles DEF Follows
    <3> QED BY <2>1, <3>1 DEF Request
  <2> HIDE DEF m, e
  <2>3. RequestCarries(u, f)'
    BY <1>1, <2>1, <2>2, PutsCarries DEF Carries
  <2> QED BY <1>1, <1>2, <2>1, <2>3, SameCarries DEF Carries
<1>6. CASE LosesResult(r)
  <2>1. UNCHANGED <<d2w, proc, shardPaths>>
    BY <1>6, ResultSettles DEF LosesResult
  <2> QED BY <1>1, <1>2, <2>1, SameCarries DEF Carries
<1> QED BY <1>3, <1>4, <1>5, <1>6 DEF HandlesResult

(* Writing a file of a shard loses no file that the emission carries.      *)
LEMMA WritesKeepShard ==
    ASSUME ProcessKinds, NEW u, NEW f, HandCarries(u, f),
           NEW w \in Workers, NEW part, NEW pc, Writes(w, part, pc)
    PROVE  /\ \A v \in Workers : InShard(disk, u, v, f) => InShard(disk', u, v, f)
           /\ part = "docsAndExternals" /\ proc[w].job = <<u, 1>> => InShard(disk', u, w, f)
<1> DEFINE n == Shard(w, part)
<1>1. /\ n.task = proc[w].job[1] /\ n.worker = w /\ n.part = part /\ n.files = proc[w].files
      /\ disk' = {d \in disk : ~ SameFile(d, n)} \cup {n}
      /\ proc[w].pc \in EmitPcs /\ proc[w].job \in JobIds
  BY DEF Writes, EmitIndex
<1> HIDE DEF n
<1>2. proc[w].job = <<proc[w].job[1], 1>>
  BY <1>1, JobParts DEF ProcessKinds
<1>3. proc[w].job[1] = u => f \in n.files
  BY <1>1, <1>2 DEF HandCarries
<1>4. ASSUME NEW v \in Workers, InShard(disk, u, v, f) PROVE InShard(disk', u, v, f)
  <2>1. PICK d \in disk : /\ d.task = u /\ d.worker = v /\ d.part = "docsAndExternals"
                          /\ f \in d.files
    BY <1>4 DEF InShard
  <2>2. CASE SameFile(d, n)
    BY <1>1, <1>3, <2>1, <2>2 DEF SameFile, InShard
  <2>3. CASE ~ SameFile(d, n)
    BY <1>1, <2>1, <2>3 DEF InShard
  <2> QED BY <2>2, <2>3
<1>5. ASSUME part = "docsAndExternals", proc[w].job = <<u, 1>> PROVE InShard(disk', u, w, f)
  <2>1. proc[w].job[1] = u
    BY <1>5
  <2> QED BY <1>1, <1>3, <1>5, <2>1 DEF InShard
<1> QED BY <1>4, <1>5

(* A worker passes on the files it was told to index.                      *)
LEMMA WorkerKeepsCarries ==
    ASSUME ShapeInv, KindInv, NEW w \in Workers, WorkerStep(w),
           NEW u \in Tasks, NEW f, Carries(u, f)
    PROVE  Carries(u, f)'
<1>1. UNCHANGED shardPaths
  BY SendSemaEffect, SendEmitEffect
     DEF WorkerStep, Drops, Analyses, Emits, Writes, driverVars
<1>2. CASE Drops(w) /\ UNCHANGED d2w
  BY <1>1, <1>2, DropsCarries, SameCarries DEF Drops, Carries
<1>3. CASE Drops(w) /\ Takes(w)
  BY <1>1, <1>3, DropsCarries, TakesCarries, SameCarries DEF Drops, Carries
<1>4. CASE Analyses(w) /\ Takes(w)
  <2>1. Turns(w, proc'[w]) /\ proc'[w].pc = "sema" /\ UNCHANGED <<w2d, disk>>
    BY <1>4 DEF Analyses
  <2>2. HandCarries(u, f)'
    BY <2>1, TurnsCarries DEF EmitPcs, Carries
  <2> QED BY <1>1, <1>4, <2>1, <2>2, TakesCarries, SameCarries DEF Carries
<1>5. CASE Emits(w) /\ Takes(w)
  <2>1. /\ Turns(w, proc'[w]) /\ proc'[w].pc = "emit" /\ proc'[w].job = d2w[w][1].id
        /\ proc'[w].files = d2w[w][1].files /\ d2w[w] # <<>> /\ UNCHANGED <<w2d, disk>>
    BY <1>5 DEF Emits, Takes, KindInv, ProcessKinds
  <2>2. proc'[w].job = <<u, 1>> => f \in proc'[w].files
    BY <2>1 DEF Carries, RequestCarries, HasRequest
  <2>3. HandCarries(u, f)'
    BY <2>1, <2>2, TurnsCarries DEF Carries
  <2> QED BY <1>1, <1>5, <2>1, <2>3, TakesCarries, SameCarries DEF Carries
<1>6. CASE SendSemaResult(w)
  <2> DEFINE r == SemaResult(w)
  <2>1. /\ Reports(r) /\ r.worker = w /\ r.job = proc[w].job /\ proc[w].job[2] = 0
        /\ Turns(w, proc'[w]) /\ proc'[w].pc = "waitEmit" /\ UNCHANGED <<d2w, disk>>
    BY <1>6, SendSemaEffect
  <2> HIDE DEF r
  <2>2. r.job # <<u, 1>>
    <3>1. <<u, 1>>[2] = 1
      OBVIOUS
    <3> QED BY <2>1, <3>1
  <2>3. ResultCarries(u, f)'
    BY <2>1, <2>2, ReportsResponse DEF Carries, ResultCarries
  <2>4. HandCarries(u, f)'
    BY <2>1, TurnsCarries DEF EmitPcs, Carries
  <2> QED BY <1>1, <2>1, <2>3, <2>4, SameCarries DEF Carries
<1>7. CASE SendEmitResult(w)
  <2> DEFINE r == Response(w, proc[w].job, EmitKind, {})
  <2>1. /\ Reports(r) /\ r.worker = w /\ r.job = proc[w].job /\ proc[w].pc = "emitted"
        /\ Turns(w, proc'[w]) /\ proc'[w].pc = "idle" /\ UNCHANGED <<d2w, disk>>
    BY <1>7, SendEmitEffect
  <2> HIDE DEF r
  <2>2. r.job = <<u, 1>> => InShard(disk, u, w, f)
    BY <2>1 DEF Carries, HandCarries, EmitPcs
  <2>3. ResultCarries(u, f)'
    BY <2>1, <2>2, ReportsResponse DEF Carries, ResultCarries
  <2>4. HandCarries(u, f)'
    BY <2>1, TurnsCarries DEF EmitPcs, Carries
  <2> QED BY <1>1, <2>1, <2>3, <2>4, SameCarries DEF Carries
<1>8. ASSUME NEW part, NEW pc \in {"emitDecls", "emitted"}, Writes(w, part, pc),
             proc[w].pc = "emit" => part = "docsAndExternals"
      PROVE  Carries(u, f)'
  <2>1. /\ Turns(w, proc'[w]) /\ proc'[w].pc = pc /\ proc'[w].job = proc[w].job
        /\ proc'[w].files = proc[w].files /\ proc[w].pc \in EmitPcs /\ UNCHANGED <<d2w, w2d>>
    BY <1>8 DEF Writes
  <2>2. /\ \A v \in Workers : InShard(disk, u, v, f) => InShard(disk', u, v, f)
        /\ part = "docsAndExternals" /\ proc[w].job = <<u, 1>> => InShard(disk', u, w, f)
    BY <1>8, WritesKeepShard DEF Carries, KindInv
  <2>3. proc[w].job = <<u, 1>> => f \in proc[w].files /\ InShard(disk', u, w, f)
    BY <1>8, <2>1, <2>2 DEF Carries, HandCarries
  <2>4. HandCarries(u, f)'
    BY <2>1, <2>2, <2>3, TurnsCarries DEF Carries
  <2>5. ResultCarries(u, f)'
    BY <2>1, <2>2, SameCopies DEF Carries, ResultCarries
  <2>6. PathCarries(u, f)'
    BY <1>1, <2>2, PathParts DEF Carries, PathCarries
  <2> QED BY <2>1, <2>4, <2>5, <2>6, SameCarries DEF Carries
<1> QED BY <1>2, <1>3, <1>4, <1>5, <1>6, <1>7, <1>8 DEF WorkerStep

(* No step loses a file that the emission of a task carries.               *)
LEMMA CarriesKept ==
    ASSUME ShapeInv, DriverInv, CopiesInv, KindInv, [Next]_vars,
           NEW u \in Tasks, NEW f, Carries(u, f), <<u, 1>> \in sched.allJobList
    PROVE  Carries(u, f)'
<1>1. CASE QuietStep
  <2>1. UNCHANGED <<shardPaths, d2w, w2d, disk, proc>>
    BY <1>1 DEF QuietStep, Quiet, driverVars
  <2> QED BY <2>1, SameCarries DEF Carries
<1>2. CASE SendsAnalysis
  <2>1. PICK w \in Workers, j \in JobIds :
           /\ j[2] = 0 /\ Puts(w, Request(j, SemaKind, {}))
           /\ UNCHANGED <<driverVars, w2d, disk, proc>>
    BY <1>2, AnalysisHasNames
  <2> DEFINE m == Request(j, SemaKind, {})
  <2>2. Puts(w, m) /\ m.id = j
    BY <2>1 DEF Request
  <2>3. <<u, 1>>[2] = 1
    OBVIOUS
  <2> HIDE DEF m
  <2>4. RequestCarries(u, f)'
    BY <2>1, <2>2, <2>3, PutsCarries DEF Carries
  <2> QED BY <2>1, <2>4, SameCarries DEF Carries, driverVars
<1>3. CASE SendsShutdown
  <2>1. /\ NextWorkerToStop(sched) \in Workers
        /\ Puts(NextWorkerToStop(sched), ShutdownRequest)
        /\ UNCHANGED <<driverVars, w2d, disk, proc>>
    BY <1>3 DEF SendsShutdown
  <2>2. ShutdownRequest.id = None /\ <<u, 1>> \in JobIds
    BY DEF ShutdownRequest, Request, JobIds
  <2>3. RequestCarries(u, f)'
    BY <2>1, <2>2, NoneIsNoValue, PutsCarries DEF Carries
  <2> QED BY <2>1, <2>3, SameCarries DEF Carries, driverVars
<1>4. CASE \E r \in Responses : HandlesResult(r)
  BY <1>4, ResultKeepsCarries
<1>5. CASE GivesUpWorker
  <2>1. scan \in Workers /\ Drops(scan) /\ UNCHANGED <<shardPaths, d2w, w2d, disk>>
    BY <1>5 DEF GivesUpWorker, Drops, driverVars
  <2> QED BY <2>1, DropsCarries, SameCarries DEF Carries
<1>6. CASE EmitScipIndex
  <2>1. UNCHANGED <<shardPaths, d2w, w2d, disk, proc>>
    BY <1>6 DEF EmitScipIndex
  <2> QED BY <2>1, SameCarries DEF Carries
<1>7. CASE \E w \in Workers : WorkerStep(w)
  BY <1>7, WorkerKeepsCarries
<1> QED BY <1>1, <1>2, <1>3, <1>4, <1>5, <1>6, <1>7, StepCases

(* A file that is planned now is carried by the task it is planned for,    *)
(* whose emission was not anywhere before.                                 *)
LEMMA NewFileCarried ==
    ASSUME ShapeInv, CopiesInv, PathsInv, NEW r, PlansFiles(r),
           NEW f \in r.files, f \notin hashesSoFar
    PROVE  Carries(r.job[1], f)'
<1>0. PICK u : u = r.job[1]
  OBVIOUS
<1> DEFINE e == <<u, 1>>
<1>1. /\ e \in JobIds /\ e \notin sched.allJobList /\ sched.assignedWorker[e] = None
      /\ r.worker \in Workers /\ UNCHANGED <<proc, disk, shardPaths>>
      /\ PlansResult(r) \/ LosesResult(r)
  BY <1>0 DEF PlansFiles
<1>2. \A v \in Workers : ~ HasRequest(v, e) /\ ~ InHand(v, e) /\ ~ HasResponse(v, e)
  BY <1>1, NoneIsNoValue DEF CopiesInv, IsExpected
<1>3. PathCarries(u, f)'
  BY <1>1 DEF PathCarries, PathsInv
<1>4. HandCarries(u, f)'
  BY <1>1, <1>2 DEF HandCarries, InHand, EmitPcs
<1>5. ResultCarries(u, f)'
  <2>1. Pops(r)
    BY <1>1 DEF PlansResult, LosesResult
  <2>2. \A v \in Workers : ~ HasResponse(v, e)'
    BY <1>2, <2>1, PopsResponse
  <2> QED BY <2>2 DEF ResultCarries
<1>6. RequestCarries(u, f)'
  <2>1. CASE PlansResult(r)
    <3> DEFINE m == Request(NextSubtask(r.job), EmitKind, r.files \ hashesSoFar)
    <3>1. Puts(r.worker, m) /\ f \in m.files
      BY <2>1 DEF PlansResult, Request
    <3> HIDE DEF m
    <3>2. RequestCarries(u, f)
      BY <1>2 DEF RequestCarries
    <3> QED BY <1>1, <3>1, <3>2, PutsCarries
  <2>2. CASE LosesResult(r)
    <3>1. UNCHANGED d2w
      BY <2>2 DEF LosesResult
    <3> QED BY <1>2, <3>1 DEF RequestCarries, HasRequest
  <2> QED BY <1>1, <2>1, <2>2
<1>7. Carries(u, f)'
  BY <1>3, <1>4, <1>5, <1>6 DEF Carries
<1> QED BY <1>0, <1>7

(* Every step keeps CarriedInv.                                            *)
LEMMA CarriedKept ==
    ASSUME ShapeInv, DriverInv, TypeOK, CopiesInv, KindInv, PathsInv, CarriedInv, [Next]_vars
    PROVE  CarriedInv'
<1>1. ASSUME NEW f \in hashesSoFar
      PROVE  \E u \in Tasks : /\ f \in SemaFiles[u] /\ <<u, 1>> \in sched.allJobList
                              /\ Carries(u, f)'
  BY <1>1, CarriesKept DEF CarriedInv
<1>2. CASE PlansNothing
  BY <1>1, <1>2 DEF PlansNothing, CarriedInv
<1>3. ASSUME NEW r, PlansFiles(r) PROVE CarriedInv'
  <2>1. /\ hashesSoFar' = hashesSoFar \cup r.files
        /\ sched'.allJobList = sched.allJobList \cup {<<r.job[1], 1>>}
        /\ r.job[1] \in Tasks /\ r.files = SemaFiles[r.job[1]]
    BY <1>3, JobParts DEF PlansFiles
  <2>2. ASSUME NEW f \in r.files, f \notin hashesSoFar PROVE Carries(r.job[1], f)'
    BY <1>3, <2>2, NewFileCarried
  <2>3. ASSUME NEW f \in hashesSoFar'
        PROVE  \E u \in Tasks : /\ f \in SemaFiles[u] /\ <<u, 1>> \in sched'.allJobList
                                /\ Carries(u, f)'
    <3>1. CASE f \in hashesSoFar
      BY <1>1, <2>1, <3>1
    <3>2. CASE f \notin hashesSoFar
      <4>0. PICK t : t = r.job[1]
        OBVIOUS
      <4>1. Carries(t, f)' /\ t \in Tasks /\ f \in SemaFiles[t] /\ <<t, 1>> \in sched'.allJobList
        BY <2>1, <2>2, <3>2, <4>0
      <4> QED BY <4>1
    <3> QED BY <3>1, <3>2
  <2> QED BY <2>3 DEF CarriedInv
<1> QED BY <1>2, <1>3, PlanCases

(* A file of a merged task that is not in the merged index was planned for *)
(* a task that was not merged: the shards of all others are in the index.  *)
LEMMA WrittenIndex ==
    ASSUME ShapeInv, CompleteInv, MainInv, PathsInv, PlannedInv, CarriedInv, EmitScipIndex
    PROVE  LostFilesWereAssigned'
<1>1. /\ output'.documents = UNION {d.files \cup d.main : d \in
             {e \in disk : /\ e.part = "docsAndExternals"
                           /\ <<e.task, e.worker>> \in Elems(shardPaths)}}
      /\ UNCHANGED <<sched, shardPaths>>
  BY DEF EmitScipIndex, schedVars
<1> DEFINE merged == {e \in disk : /\ e.part = "docsAndExternals"
                                   /\ <<e.task, e.worker>> \in Elems(shardPaths)}
           All == {d.files \cup d.main : d \in merged}
<1>a. ASSUME NEW d \in merged
      PROVE  d.files \subseteq output'.documents /\ d.main \subseteq output'.documents
  <2>1. output'.documents = UNION All
    BY <1>1
  <2>2. d.files \cup d.main \in All
    OBVIOUS
  <2> HIDE DEF All
  <2> QED BY <2>1, <2>2
<1>2. MergedTasks' = MergedTasks
  BY <1>1 DEF MergedTasks
<1>3. ASSUME NEW t \in MergedTasks, NEW f \in SemaFiles[t] \ output'.documents
      PROVE  /\ f # MainFile[t]
             /\ \E u \in Tasks \ MergedTasks :
                   f \in SemaFiles[u] /\ NextSubtask(NewTask(u)) \in sched.allJobList
  <2>1. PICK p \in Elems(shardPaths) : p[1] = t
    BY <1>3 DEF MergedTasks, Elems
  <2>2. t \in Tasks /\ <<t, 1>> \in sched.allJobList
    BY <2>1, PathParts DEF PathsInv
  <2>3. f \in hashesSoFar
    BY <1>3, <2>2 DEF PlannedInv
  <2>4. PICK u \in Tasks : /\ f \in SemaFiles[u] /\ <<u, 1>> \in sched.allJobList
                           /\ Carries(u, f)
    BY <2>3 DEF CarriedInv
  <2>5. u \notin MergedTasks
    <3> SUFFICES ASSUME u \in MergedTasks PROVE FALSE
      OBVIOUS
    <3>1. PICK q \in Elems(shardPaths) : q[1] = u
      BY DEF MergedTasks, Elems
    <3>2. q = <<u, q[2]>>
      BY <3>1, PathParts
    <3>3. InShard(disk, u, q[2], f)
      BY <2>4, <3>1 DEF Carries, PathCarries
    <3>4. PICK d \in disk : /\ d.task = u /\ d.worker = q[2] /\ d.part = "docsAndExternals"
                            /\ f \in d.files
      BY <3>3 DEF InShard
    <3>5. <<d.task, d.worker>> \in Elems(shardPaths)
      BY <3>1, <3>2, <3>4
    <3>6. f \in output'.documents
      BY <1>a, <3>4, <3>5
    <3> QED BY <1>3, <3>6
  <2>6. NextSubtask(NewTask(u)) = <<u, 1>>
    BY DEF NextSubtask, NewTask
  <2>7. f # MainFile[t]
    <3>1. p = <<t, p[2]>>
      BY <2>1, PathParts
    <3>2. PICK d \in disk : d.task = t /\ d.worker = p[2] /\ d.part = "docsAndExternals"
      BY <2>1 DEF CompleteInv, ShardComplete, OnDisk
    <3>3. <<d.task, d.worker>> \in Elems(shardPaths)
      BY <2>1, <3>1, <3>2
    <3>4. MainFile[t] \in d.main
      BY <3>2 DEF MainInv
    <3>5. MainFile[t] \in output'.documents
      BY <1>a, <3>2, <3>3, <3>4
    <3> QED BY <1>3, <3>5
  <2> QED BY <2>4, <2>5, <2>6, <2>7
<1> QED BY <1>1, <1>2, <1>3 DEF LostFilesWereAssigned

(* Every step keeps LostFilesWereAssigned.                                 *)
LEMMA LostKept ==
    ASSUME ShapeInv, DriverInv, DataInv, FlowInv, PlanInv, [Next]_vars
    PROVE  LostFilesWereAssigned'
<1>1. /\ OutputInv /\ PathsInv /\ PlannedInv /\ CarriedInv /\ LostFilesWereAssigned
      /\ TypeOK /\ CopiesInv /\ KindInv /\ CompleteInv /\ MainInv
  BY DEF FlowInv, MergedInv, DataInv, PlanInv
<1>2. CASE EmitScipIndex
  BY <1>1, <1>2, WrittenIndex
<1>3. CASE UNCHANGED output /\ ~ output.written
  BY <1>3 DEF LostFilesWereAssigned
<1>4. CASE UNCHANGED output /\ output.written
  <2>1. UNCHANGED <<sched, phase>> /\ phase = "done"
    BY <1>1, <1>4, OutputKept DEF OutputInv
  <2>2. UNCHANGED shardPaths
    <3>1. CASE QuietStep
      BY <3>1 DEF QuietStep, Quiet, driverVars
    <3>2. CASE SendsAnalysis \/ SendsShutdown \/ GivesUpWorker
      BY <3>2 DEF SendsAnalysis, SendsShutdown, GivesUpWorker, Drops, driverVars
    <3>3. CASE \E r \in Responses : HandlesResult(r)
      BY <2>1, <3>3 DEF HandlesResult, DropsResult, MergesResult, PlansResult, LosesResult,
                        HandleResponse
    <3>4. CASE EmitScipIndex
      BY <3>4 DEF EmitScipIndex
    <3>5. CASE \E w \in Workers : WorkerStep(w)
      BY <3>5, SendSemaEffect, SendEmitEffect
         DEF WorkerStep, Drops, Analyses, Emits, Writes, driverVars
    <3> QED BY <3>1, <3>2, <3>3, <3>4, <3>5, StepCases
  <2>3. MergedTasks' = MergedTasks
    BY <2>2 DEF MergedTasks
  <2> QED BY <1>1, <1>4, <2>1, <2>3 DEF LostFilesWereAssigned
<1> QED BY <1>1, <1>2, <1>3, <1>4, OutputKept

------------------------------------------------------------------------------
(***************************************************************************)
(* Theorems.                                                               *)
(***************************************************************************)

(* There is no job anywhere at the start.                                  *)
LEMMA InitFlow == Init => FlowInv /\ PlanInv /\ Running
<1> SUFFICES ASSUME Init PROVE FlowInv /\ PlanInv /\ Running
  OBVIOUS
<1>1. /\ \A w \in Workers : d2w[w] = <<>> /\ proc[w] = Spawned
      /\ w2d = <<>> /\ shardPaths = <<>> /\ hashesSoFar = {} /\ ~ output.written
      /\ sched = InitialState /\ SchedInit
  BY DEF Init, SchedInit
<1>2. /\ Elems(<<>>) = {} /\ Distinct(<<>>) /\ Spawned.pc = "starting"
      /\ "starting" \notin {"sema", "waitEmit"} \cup EmitPcs
  BY IdleProcesses DEF Elems, Distinct, EmitPcs
<1>3. TypeOK
  BY <1>1, InitEstablishesInv DEF IndInv
<1>4. CopiesInv
  <2>1. \A w \in Workers, j \in JobIds :
           ~ HasRequest(w, j) /\ ~ InHand(w, j) /\ ~ HasResponse(w, j)
    BY <1>1, <1>2 DEF HasRequest, InHand, HasResponse
  <2> QED BY <1>1, <1>2, <2>1 DEF CopiesInv
<1>5. KindInv
  BY <1>1, <1>2 DEF KindInv, RequestKinds, ProcessKinds, ResponseKinds
<1>6. QueueInv /\ AnalystInv /\ MainInv
  <2>1. QueueInv
    BY <1>1 DEF QueueInv
  <2>2. AnalystInv
    BY <1>1, <1>2 DEF AnalystInv, AwaitsEmission
  <2>3. MainInv
    BY <1>1, <1>2 DEF MainInv, Init
  <2> QED BY <2>1, <2>2, <2>3
<1>7. MergedInv
  BY <1>1, <1>2 DEF MergedInv, PathsInv, OutputInv
<1>8. PlanInv
  <2>1. sched.allJobList = {}
    BY <1>1 DEF InitialState
  <2> QED BY <1>1, <2>1 DEF PlanInv, PlannedInv, CarriedInv, LostFilesWereAssigned
<1>9. Running
  BY <1>1 DEF Running, InitialState
<1> QED BY <1>3, <1>4, <1>5, <1>6, <1>7, <1>8, <1>9 DEF FlowInv

(* Every step keeps FlowInv.                                               *)
LEMMA FlowKept ==
    ASSUME NoSemaTasks = {}, ShapeInv, DriverInv, FlowInv, [Next]_vars
    PROVE  FlowInv'
<1>1. /\ TypeOK /\ CopiesInv /\ KindInv /\ QueueInv /\ AnalystInv /\ MainInv
      /\ PathsInv /\ OutputInv
  BY DEF FlowInv, MergedInv
<1>2. TypeOK' /\ CopiesInv' /\ KindInv' /\ QueueInv' /\ PathsInv' /\ OutputInv'
  BY <1>1, TypeKept, CopiesKept, KindKept, QueueKept, PathsKept, OutputKept
<1>3. AnalystInv' /\ MainInv'
  BY <1>1, AnalystKept, MainKept
<1> QED BY <1>2, <1>3 DEF FlowInv, MergedInv

(* SystemInv is an invariant of the driver with its queues and workers:    *)
(* what is in the queues, in the hands of the workers and on disk fits     *)
(* what the driver believes.                                               *)
THEOREM SystemInvariance == Spec => []SystemInv
<1>1. Init => SystemInv
  BY InitShape, InitDriver, InitData, InitFlow DEF SystemInv
<1>2. SystemInv /\ [Next]_vars => SystemInv'
  <2> SUFFICES ASSUME SystemInv, [Next]_vars PROVE SystemInv'
    OBVIOUS
  <2>1. ShapeInv /\ DriverInv /\ DataInv
    BY DEF SystemInv
  <2>2. ShapeInv' /\ DriverInv' /\ DataInv'
    BY <2>1, ShapeKept, DriverKept, DataKept
  <2>3. ASSUME NoSemaTasks = {} PROVE FlowInv' /\ PlanInv'
    <3>1. FlowInv /\ PlanInv
      BY <2>3 DEF SystemInv
    <3>2. FlowInv'
      BY <2>1, <2>3, <3>1, FlowKept
    <3>3. PlannedInv' /\ CarriedInv' /\ LostFilesWereAssigned'
      <4>1. PlannedInv' /\ CarriedInv'
        BY <2>1, <3>1, PlannedKept, CarriedKept DEF FlowInv, MergedInv, PlanInv
      <4> QED BY <2>1, <3>1, <4>1, LostKept
    <3> QED BY <3>2, <3>3 DEF PlanInv
  <2>4. ASSUME NoSemaTasks = {}, SendErrors = {}, "driverCrash" \notin Faults PROVE Running'
    <3>1. FlowInv /\ Running
      BY <2>4 DEF SystemInv
    <3> QED BY <2>1, <2>4, <3>1, TypeKept DEF FlowInv
  <2> QED BY <2>2, <2>3, <2>4 DEF SystemInv
<1> QED BY <1>1, <1>2, PTL DEF Spec

(* No driver step breaks the contract of Scheduler.tla: the driver with    *)
(* its queues and workers implements the scheduling loop.  A killed driver *)
(* stops in the middle of a step of the loop, which Scheduler.tla does not *)
(* model.                                                                  *)
THEOREM SchedulerImplemented ==
    ASSUME NoSemaTasks = {}, "driverCrash" \notin Faults
    PROVE  Spec => ImplementsScheduler
<1>1. Init => SchedInit
  BY DEF Init
<1>2. SystemInv /\ [Next]_vars => [SchedNext]_schedVars
  <2> SUFFICES ASSUME SystemInv, [Next]_vars PROVE [SchedNext]_schedVars
    OBVIOUS
  <2>1. ShapeInv /\ DriverInv /\ CopiesInv /\ KindInv
    BY DEF SystemInv, FlowInv
  <2> QED BY <2>1, StepIsSchedStep DEF DriverCrash
<1> QED BY <1>1, <1>2, SystemInvariance, PTL DEF Spec, ImplementsScheduler, SchedSpec

(* No ENFORCE of class Scheduler fails and no empty optional is read,      *)
(* whatever workers do: hang, crash, die at startup, answer late or not at *)
(* all.                                                                    *)
THEOREM DriverEnforcesHold ==
    ASSUME NoSemaTasks = {}, SendErrors = {}, "driverCrash" \notin Faults
    PROVE  Spec => []NoEnforceFails
<1>1. SystemInv => NoEnforceFails
  BY DEF SystemInv, NoEnforceFails
<1> QED BY <1>1, SystemInvariance, PTL

(* The positions of a queue of at most one element.                        *)
LEMMA DomainOfOne ==
    ASSUME NEW S, NEW q \in Seq(S), Len(q) <= 1
    PROVE  DOMAIN q = IF q = <<>> THEN {} ELSE {1}
<1>1. CASE q = <<>>
  BY <1>1
<1>2. CASE q # <<>>
  <2>1. PICK n \in Nat : n = Len(q)
    OBVIOUS
  <2>2. n < 1 => q = <<>>
    BY <2>1
  <2>3. n = 1
    <3>1. n <= 1
      BY <2>1
    <3> QED BY ONLY <1>2, <2>2, <3>1, n \in Nat
  <2>4. DOMAIN q = 1 .. n
    BY <2>1
  <2>5. 1 .. n = {1}
    BY <2>3
  <2> QED BY <1>2, <2>4, <2>5
<1> QED BY <1>1, <1>2

(* Queues, kills and restarts neither duplicate a job nor move it to       *)
(* another worker, and the driver remembers every job that may still be    *)
(* answered.                                                               *)
THEOREM OneCopy ==
    ASSUME NoSemaTasks = {}
    PROVE  Spec => []OneCopyPerJob
<1>1. SystemInv => OneCopyPerJob
  <2> SUFFICES ASSUME SystemInv, NEW w \in Workers, NEW j \in JobIds, Copies(w, j) > 0
               PROVE  Copies(w, j) = 1 /\ IsExpected(w, j)
    BY DEF OneCopyPerJob, IsExpected
  <2>1. ShapeInv /\ CopiesInv
    BY DEF SystemInv, FlowInv
  <2>2. Cardinality(RequestsFor(w, j)) = IF HasRequest(w, j) THEN 1 ELSE 0
    <3>1. d2w[w] \in Seq(Requests) /\ Len(d2w[w]) \in Nat /\ Len(d2w[w]) <= 1
      BY <2>1 DEF ShapeInv, RequestShape
    <3>2. DOMAIN d2w[w] = IF d2w[w] = <<>> THEN {} ELSE {1}
      BY <3>1, DomainOfOne
    <3>3. RequestsFor(w, j) = IF HasRequest(w, j) THEN {1} ELSE {}
      BY <3>2 DEF RequestsFor, HasRequest
    <3> QED BY <3>3, FS_EmptySet, FS_Singleton
  <2>3. Cardinality(ResponsesOf(w, j)) = IF HasResponse(w, j) THEN 1 ELSE 0
    <3>1. CASE ~ HasResponse(w, j)
      <4>1. ResponsesOf(w, j) = {}
        BY <3>1 DEF ResponsesOf, HasResponse, Elems
      <4> QED BY <3>1, <4>1, FS_EmptySet
    <3>2. CASE HasResponse(w, j)
      <4>1. PICK i \in DOMAIN w2d : w2d[i].worker = w /\ w2d[i].job = j
        BY <3>2 DEF HasResponse, Elems
      <4>2. \A k \in DOMAIN w2d : w2d[k].job = j => k = i
        BY <2>1, <4>1 DEF CopiesInv, Distinct, Elems
      <4>3. ResponsesOf(w, j) = {i}
        BY <4>1, <4>2 DEF ResponsesOf
      <4> QED BY <3>2, <4>3, FS_Singleton
    <3> QED BY <3>1, <3>2
  <2>4. /\ HasRequest(w, j) \/ InHand(w, j) \/ HasResponse(w, j) => IsExpected(w, j)
        /\ HasRequest(w, j) => ~ InHand(w, j) /\ ~ HasResponse(w, j)
        /\ InHand(w, j) => ~ HasResponse(w, j)
    BY <2>1 DEF CopiesInv
  <2>5. CASE HasRequest(w, j)
    BY <2>2, <2>3, <2>4, <2>5 DEF Copies
  <2>6. CASE InHand(w, j) /\ ~ HasRequest(w, j)
    BY <2>2, <2>3, <2>4, <2>6 DEF Copies
  <2>7. CASE HasResponse(w, j) /\ ~ InHand(w, j) /\ ~ HasRequest(w, j)
    BY <2>2, <2>3, <2>4, <2>7 DEF Copies
  <2>8. HasRequest(w, j) \/ InHand(w, j) \/ HasResponse(w, j)
    BY <2>2, <2>3 DEF Copies
  <2> QED BY <2>5, <2>6, <2>7, <2>8
<1> QED BY <1>1, SystemInvariance, PTL

(* The send of an emission from inside the loop that reads results always  *)
(* finds room, so that the driver and a worker never wait for each other.  *)
THEOREM EmitNeverWaits ==
    ASSUME NoSemaTasks = {}
    PROVE  Spec => []EmitSendNeverWaits
<1>1. SystemInv => EmitSendNeverWaits
  <2> SUFFICES ASSUME SystemInv, NEW i \in DOMAIN w2d,
                      IsCurrentJob(sched, w2d[i].worker, w2d[i].job)
               PROVE  CanSendToWorker(w2d[i].worker)
    BY DEF EmitSendNeverWaits
  <2> DEFINE w == w2d[i].worker
             j == w2d[i].job
  <2>1. ShapeInv /\ CopiesInv /\ QueueInv
    BY DEF SystemInv, FlowInv
  <2>2. w2d[i] \in Responses /\ w2d[i] \in Elems(w2d)
    BY <2>1 DEF ShapeInv, ResponseShape, Elems
  <2>3. /\ w \in Workers /\ j \in JobIds /\ j # None /\ HasResponse(w, j)
        /\ sched.currentlyProcessing[w] = j
    BY <2>2, MessageFields, NoneIsNoValue DEF HasResponse, IsCurrentJob
  <2> HIDE DEF w, j
  <2>4. ~ HasRequest(w, j)
    BY <2>1, <2>3 DEF CopiesInv
  <2>5. d2w[w] = <<>>
    BY <2>1, <2>3, <2>4 DEF QueueInv, HasRequest
  <2>6. CanSendToWorker(w)
    BY <2>5 DEF CanSendToWorker
  <2> QED BY <2>6 DEF w
<1> QED BY <1>1, SystemInvariance, PTL

(* The members of class Driver, the queues, the disk and the processes     *)
(* have their types, the queues stay within their capacities, and at most  *)
(* one shard per command is counted.                                       *)
THEOREM SystemTypes ==
    ASSUME NoSemaTasks = {}
    PROVE  Spec => []SystemTypeOK
<1>1. SystemInv => SystemTypeOK
  <2> SUFFICES ASSUME SystemInv PROVE SystemTypeOK
    OBVIOUS
  <2>1. ShapeInv /\ TypeOK /\ PathsInv
    BY DEF SystemInv, FlowInv, MergedInv
  <2>2. Len(shardPaths) \in 0 .. NumCommands
    <3> DEFINE n == Len(shardPaths)
               f == [i \in 1 .. n |-> shardPaths[i][1]]
    <3>1. n \in Nat /\ DOMAIN shardPaths = 1 .. n /\ \A i \in 1 .. n : shardPaths[i] \in Elems(shardPaths)
      BY <2>1, PathParts DEF Elems
    <3>2. f \in [1 .. n -> Tasks]
      BY <2>1, <3>1, PathParts
    <3>3. \A i, k \in 1 .. n : f[i] = f[k] => i = k
      BY <2>1, <3>1 DEF PathsInv, Distinct
    <3>4. f \in Injection(1 .. n, Tasks)
      BY <3>2, <3>3 DEF Injection, IsInjective
    <3>5. IsFiniteSet(Tasks) /\ Cardinality(Tasks) = NumCommands
      BY FS_Interval, NumCommandsAssumption DEF Tasks
    <3>6. Cardinality(1 .. n) = n
      BY <3>1, FS_Interval
    <3>7. Cardinality(1 .. n) <= Cardinality(Tasks)
      BY <3>4, <3>5, FS_Injection
    <3> QED BY <3>1, <3>5, <3>6, <3>7, NumCommandsAssumption
  <2>3. /\ hashesSoFar \subseteq Files /\ indexedSoFar \in 0 .. NumCommands
        /\ output.written \in BOOLEAN /\ output.documents \subseteq Files
        /\ Elems(shardPaths) \subseteq Tasks \X Workers
    BY <2>1, <2>2 DEF ShapeInv, FileShape, Elems
  <2>4. \A w \in Workers : Len(d2w[w]) <= 1 /\ Elems(d2w[w]) \subseteq Requests
    BY <2>1 DEF ShapeInv, RequestShape, Elems
  <2>5. Len(w2d) <= NumWorkers /\ Elems(w2d) \subseteq Responses
    BY <2>1 DEF ShapeInv, ResponseShape, Elems
  <2>6. /\ disk \subseteq [task : Tasks, worker : Workers,
                           part : {"docsAndExternals", "forwardDecls"},
                           files : SUBSET Files, main : SUBSET Files]
        /\ proc \in [Workers ->
                       [pc : {"starting", "idle", "sema", "waitEmit", "emit",
                              "emitDecls", "emitted", "exited"},
                        job : JobIds \cup {None}, ran : BOOLEAN,
                        files : SUBSET Files, main : SUBSET Files]]
    <3>1. {"starting", "idle", "sema", "waitEmit", "exited"} \cup EmitPcs
             = {"starting", "idle", "sema", "waitEmit", "emit", "emitDecls", "emitted", "exited"}
      BY DEF EmitPcs
    <3> QED BY <2>1, <3>1 DEF ShapeInv, FileShape, Shards, ProcessShape, ProcessStates
  <2> QED BY <2>1, <2>3, <2>4, <2>5, <2>6 DEF SystemTypeOK
<1> QED BY <1>1, SystemInvariance, PTL

(* A <<path, hash>> pair that is indexed for two translation units is the  *)
(* main file of one of them: the driver assigns it to one unit, whatever   *)
(* fails and in whatever order analyses are answered, and a process adds   *)
(* only the main file of the unit whose emission it was sent.              *)
THEOREM IndexedOnce ==
    ASSUME NoSemaTasks = {}
    PROVE  Spec => []FilesIndexedOnce
<1>1. SystemInv => FilesIndexedOnce
  <2> SUFFICES ASSUME SystemInv, NEW t \in Tasks, NEW u \in Tasks, t # u,
                      NEW f \in ShardFiles(t) \cap ShardFiles(u)
               PROVE  f \in {MainFile[t], MainFile[u]}
    BY DEF FilesIndexedOnce
  <2>1. ShapeInv /\ DataInv /\ MainInv
    BY DEF SystemInv, FlowInv
  <2>2. PICK d \in disk : d.task = t /\ f \in d.files \cup d.main
    BY DEF ShardFiles
  <2>3. PICK e \in disk : e.task = u /\ f \in e.files \cup e.main
    BY DEF ShardFiles
  <2>4. d.main = {MainFile[t]} /\ e.main = {MainFile[u]}
    BY <2>1, <2>2, <2>3 DEF MainInv
  <2>5. d.files \cap e.files = {}
    BY <2>1, <2>2, <2>3, AssignedOnce
  <2> QED BY <2>2, <2>3, <2>4, <2>5
<1> QED BY <1>1, SystemInvariance, PTL

(* A file of a merged translation unit is missing from the index only if   *)
(* it is not the main file and was assigned to a unit that was not merged. *)
THEOREM LostFilesAssigned ==
    ASSUME NoSemaTasks = {}
    PROVE  Spec => []LostFilesWereAssigned
<1>1. SystemInv => LostFilesWereAssigned
  BY DEF SystemInv, PlanInv
<1> QED BY <1>1, SystemInvariance, PTL
=============================================================================
