------------------------ MODULE DriverWorkersInvariant ------------------------
(***************************************************************************)
(* An inductive invariant of the whole system: what is in the queues, in   *)
(* the hands of the workers and on disk, and how it relates to what the    *)
(* driver knows.                                                           *)
(*                                                                         *)
(* LoopInv of SchedulerInvariant.tla speaks of the driver alone and cannot *)
(* say that a response keeps the contract.  FlowInv follows every job from *)
(* its request over the worker to its response, and DataInv follows every  *)
(* file from the plan to the shard.                                        *)
(***************************************************************************)
EXTENDS DriverWorkers, SchedulerInvariant

Shards ==
    [task : Tasks, worker : Workers, part : {"docsAndExternals", "forwardDecls"},
     files : SUBSET Files, main : SUBSET Files]

EmitPcs == {"emit", "emitDecls", "emitted"}

ProcessStates ==
    [pc : {"starting", "idle", "sema", "waitEmit", "exited"} \cup EmitPcs,
     job : JobIds \cup {None}, ran : BOOLEAN,
     files : SUBSET Files, main : SUBSET Files]

(* Only analyses are subtask 0, and a process that works on a request      *)
(* works on a job.                                                         *)
RequestShape ==
    /\ d2w \in [Workers -> Seq(Requests)]
    /\ \A w \in Workers : Len(d2w[w]) <= 1
    /\ \A w \in Workers : d2w[w] # <<>> /\ d2w[w][1].id # None =>
          (d2w[w][1].kind = SemaKind => d2w[w][1].id[2] = 0)

ResponseShape ==
    /\ w2d \in Seq(Responses) /\ Len(w2d) <= NumWorkers
    /\ \A r \in Elems(w2d) : r.kind = SemaKind => r.job[2] = 0

ProcessShape ==
    /\ proc \in [Workers -> ProcessStates]
    /\ \A w \in Workers :
          /\ proc[w].pc \in {"sema", "waitEmit"} =>
                proc[w].job # None /\ proc[w].job[2] = 0
          /\ proc[w].pc \in EmitPcs => proc[w].job # None

FileShape ==
    /\ disk \subseteq Shards
    /\ shardPaths \in Seq(Tasks \X Workers)
    /\ hashesSoFar \subseteq Files
    /\ indexedSoFar = Len(shardPaths)
    /\ output \in [written : BOOLEAN, documents : SUBSET Files]

(* The queues, the processes, the disk and the members of class Driver     *)
(* hold what they should.                                                  *)
ShapeInv == RequestShape /\ ResponseShape /\ ProcessShape /\ FileShape

(* While no ENFORCE failed the loop is in a state of Scheduler.tla.        *)
DriverInv == Running => TypeOK /\ StateInv(sched) /\ LoopInv

------------------------------------------------------------------------------
(***************************************************************************)
(* Files.                                                                  *)
(***************************************************************************)

(* The request for the emission of task t, its worker, or a shard of t     *)
(* holds the file f as one that the driver assigned to t.                  *)
RequestClaims(t, f) ==
    \E w \in Workers : /\ d2w[w] # <<>> /\ d2w[w][1].kind = EmitKind
                       /\ d2w[w][1].id # None
                       /\ d2w[w][1].id[1] = t /\ f \in d2w[w][1].files

WorkerClaims(t, f) ==
    \E w \in Workers : /\ proc[w].pc \in EmitPcs
                       /\ proc[w].job[1] = t /\ f \in proc[w].files

ShardClaims(t, f) == \E d \in disk : d.task = t /\ f \in d.files

Claims(t, f) == RequestClaims(t, f) \/ WorkerClaims(t, f) \/ ShardClaims(t, f)

OnDisk(dir, t, w, part) == \E d \in dir : d.task = t /\ d.worker = w /\ d.part = part

ShardComplete(dir, t, w) ==
    OnDisk(dir, t, w, "docsAndExternals") /\ OnDisk(dir, t, w, "forwardDecls")

(* A file is claimed only after the driver planned it, by one task that    *)
(* reported it.                                                            *)
ClaimInv ==
    /\ \A t \in Tasks, f \in Files : Claims(t, f) => f \in hashesSoFar /\ f \in SemaFiles[t]
    /\ \A t, u \in Tasks, f \in Files : Claims(t, f) /\ Claims(u, f) => t = u

(* An analysis reports files of its own unit.                              *)
ReportInv ==
    \A r \in Elems(w2d) : r.kind = SemaKind => r.files \subseteq SemaFiles[r.job[1]]

(* A shard that the driver hears of is complete.                           *)
CompleteInv ==
    /\ \A w \in Workers :
          /\ proc[w].pc = "emitDecls" => OnDisk(disk, proc[w].job[1], w, "docsAndExternals")
          /\ proc[w].pc = "emitted" => ShardComplete(disk, proc[w].job[1], w)
    /\ \A r \in Elems(w2d) : r.kind = EmitKind => ShardComplete(disk, r.job[1], r.worker)
    /\ \A p \in Elems(shardPaths) : ShardComplete(disk, p[1], p[2])

DataInv == ClaimInv /\ ReportInv /\ CompleteInv

------------------------------------------------------------------------------
(***************************************************************************)
(* Jobs.                                                                   *)
(***************************************************************************)
HasRequest(w, j) == d2w[w] # <<>> /\ d2w[w][1].id = j

HasResponse(w, j) == \E r \in Elems(w2d) : r.worker = w /\ r.job = j

(* The driver expects an answer of worker w to job j.                      *)
IsExpected(w, j) ==
    /\ sched.assignedWorker[j] = w
    /\ sched.currentlyProcessing[w] = j \/ j \in sched.maybeErroredJobs

CopiesInv ==
    /\ \A w \in Workers, j \in JobIds :
          /\ HasRequest(w, j) \/ InHand(w, j) \/ HasResponse(w, j) => IsExpected(w, j)
          /\ HasRequest(w, j) => ~ InHand(w, j) /\ ~ HasResponse(w, j)
          /\ InHand(w, j) => ~ HasResponse(w, j)
    /\ Distinct(w2d)
    /\ \A q, r \in Elems(w2d) : q.job = r.job => q = r

(* Messages have the kind of their job, and a worker that analyses knows   *)
(* that its analysis runs.                                                 *)
RequestKinds ==
    \A w \in Workers : d2w[w] # <<>> /\ d2w[w][1].id # None =>
        d2w[w][1].kind = JobKind(d2w[w][1].id)

ProcessKinds ==
    \A w \in Workers :
        /\ proc[w].pc \in {"sema", "waitEmit"} => proc[w].ran
        /\ proc[w].pc \in EmitPcs => proc[w].job[2] = 1

ResponseKinds ==
    \A r \in Elems(w2d) :
        /\ r.kind = JobKind(r.job)
        /\ r.kind = SemaKind => r.files = SemaFiles[r.job[1]]

KindInv == RequestKinds /\ ProcessKinds /\ ResponseKinds

(* The queue of a worker that has a current job holds nothing else.        *)
QueueInv ==
    \A w \in Workers :
        sched.currentlyProcessing[w] # None /\ d2w[w] # <<>> =>
            d2w[w][1].id = sched.currentlyProcessing[w]

(* The emission of task t is in the queue of worker w, or will be put      *)
(* there when the answer to the analysis is read.                          *)
EmissionDue(w, t) ==
    \/ HasRequest(w, <<t, 1>>)
    \/ HasResponse(w, <<t, 0>>) /\ sched.currentlyProcessing[w] = <<t, 0>>

(* It is taken by the process that analysed t, or by one that exits when   *)
(* it sees an emission.                                                    *)
AwaitsEmission(w, t) ==
    \/ proc[w].pc \in {"starting", "idle", "exited"}
    \/ proc[w].pc = "waitEmit" /\ proc[w].job = <<t, 0>>

AnalystInv ==
    \A w \in Workers, t \in Tasks : EmissionDue(w, t) => AwaitsEmission(w, t)

(* So the main file in a shard is that of its unit.                        *)
MainInv ==
    /\ \A w \in Workers :
          proc[w].pc \in EmitPcs => proc[w].main = {MainFile[proc[w].job[1]]}
    /\ \A d \in disk : d.main = {MainFile[d.task]}

(* Every merged task is finished, and is merged once; the index is written *)
(* after the loop.                                                         *)
PathsInv ==
    /\ Distinct(shardPaths)
    /\ \A p, q \in Elems(shardPaths) : p[1] = q[1] => p = q
    /\ \A p \in Elems(shardPaths) :
          <<p[1], 1>> \in sched.allJobList /\ <<p[1], 1>> \notin sched.wipJobs

OutputInv == output.written => phase = "done" /\ Running

MergedInv == PathsInv /\ OutputInv

FlowInv ==
    /\ TypeOK /\ CopiesInv /\ KindInv /\ QueueInv
    /\ AnalystInv /\ MainInv /\ MergedInv

------------------------------------------------------------------------------
(***************************************************************************)
(* Planned files.                                                          *)
(***************************************************************************)

(* Some shard of documents of task t, written by worker w, holds f.        *)
InShard(dir, t, w, f) ==
    \E d \in dir : /\ d.task = t /\ d.worker = w /\ d.part = "docsAndExternals"
                   /\ f \in d.files

(* Wherever the emission of task u has got to, it has not lost f.          *)
RequestCarries(u, f) ==
    \A w \in Workers : HasRequest(w, <<u, 1>>) => f \in d2w[w][1].files

HandCarries(u, f) ==
    \A w \in Workers : proc[w].pc \in EmitPcs /\ proc[w].job = <<u, 1>> =>
        /\ f \in proc[w].files
        /\ proc[w].pc # "emit" => InShard(disk, u, w, f)

ResultCarries(u, f) ==
    \A w \in Workers : HasResponse(w, <<u, 1>>) => InShard(disk, u, w, f)

PathCarries(u, f) ==
    \A p \in Elems(shardPaths) : p[1] = u => InShard(disk, u, p[2], f)

Carries(u, f) ==
    RequestCarries(u, f) /\ HandCarries(u, f) /\ ResultCarries(u, f) /\ PathCarries(u, f)

(* A task whose emission was created had its files planned.                *)
PlannedInv ==
    \A t \in Tasks : <<t, 1>> \in sched.allJobList => SemaFiles[t] \subseteq hashesSoFar

(* A planned file is carried by a task that reported it.                   *)
CarriedInv ==
    \A f \in hashesSoFar :
        \E u \in Tasks : /\ f \in SemaFiles[u] /\ <<u, 1>> \in sched.allJobList
                         /\ Carries(u, f)

PlanInv == PlannedInv /\ CarriedInv /\ LostFilesWereAssigned

(* Without commands whose analysis is skipped all of it is inductive.  The *)
(* first three parts are also inductive with such commands.                *)
SystemInv ==
    /\ ShapeInv
    /\ DriverInv
    /\ DataInv
    /\ NoSemaTasks = {} => FlowInv /\ PlanInv
    /\ NoSemaTasks = {} /\ SendErrors = {} /\ "driverCrash" \notin Faults => Running
=============================================================================
