---------------------------- MODULE DriverWorkers ----------------------------
(***************************************************************************)
(* One indexing run of scip-clang: the driver process, its worker          *)
(* processes and the message queues between them (src/indexer/Driver.cc,   *)
(* Worker.cc, JsonIpcQueue.cc).  The driver runs the loop of Scheduler.tla *)
(* with the callbacks of class Driver; what Scheduler.tla leaves open is   *)
(* here a bounded queue per worker, one bounded queue of results, and      *)
(* workers that analyse, hang, crash, time out and are killed.             *)
(*                                                                         *)
(* Between two queue operations a process only touches its own state, so a *)
(* step is one queue operation with the computation around it, or one      *)
(* kill, or one file.                                                      *)
(***************************************************************************)
EXTENDS Scheduler

CONSTANTS
    SemaFiles,     \* SemaFiles[t]: the <<path, hash>> pairs t's analysis reports
    MainFile,      \* MainFile[t]: the pair of t's main file
    Skipped,       \* commands that parseMore filters out
    NoSemaTasks,   \* commands whose clang invocation never runs the analysis
    Faults         \* what may go wrong, see FaultKinds

(*   timeout        a job takes longer than the receive timeout            *)
(*   crash          a worker dies while it works on a job                  *)
(*   driverTimeout  a worker waits longer than the receive timeout         *)
(*   startup        a worker dies before it opens its queues               *)
(*   driverCrash    the driver process is killed                           *)
FaultKinds == {"timeout", "crash", "driverTimeout", "startup", "driverCrash"}

ASSUME FaultsAssumption == Faults \subseteq FaultKinds
ASSUME CommandsAssumption == Skipped \subseteq Tasks /\ NoSemaTasks \subseteq Tasks

(* flushState reports the main file, the last one to be left.  Two units   *)
(* may have one main file: a source may be compiled by several commands.   *)
ASSUME MainFileAssumption == \A t \in Tasks : MainFile[t] \in SemaFiles[t]

VARIABLES
    (* driver *)
    hashesSoFar,   \* FileIndexingPlanner: <<path, hash>> pairs seen so far
    shardPaths,    \* Driver::shardPaths, as <<task, worker>> pairs
    indexedSoFar,  \* Driver::indexedSoFar
    output,        \* the merged index: written or not, and its documents
    (* shared memory and disk *)
    d2w,           \* d2w[w]: queue from the driver to worker w, capacity 1
    w2d,           \* queue from the workers to the driver, capacity NumWorkers
    disk,          \* shards in the temporary output directory
    (* worker processes *)
    proc           \* proc[w]: the process that currently runs as worker w

driverVars == <<hashesSoFar, shardPaths, indexedSoFar, output>>
vars == <<schedVars, driverVars, d2w, w2d, disk, proc>>

(* IndexJobRequest; the id of a shutdown message is no job's id.           *)
Request(id, kind, files) == [id |-> id, kind |-> kind, files |-> files]

ShutdownRequest == Request(None, SemaKind, {})

(* IndexJobResponse; files is the result of an analysis.                   *)
Response(w, j, kind, files) ==
    [worker |-> w, job |-> j, kind |-> kind, files |-> files]

(* A worker process: where it is, the request it works on, whether the     *)
(* analysis ran, the files it was told to index, and the main file that it *)
(* indexes without being told to.                                          *)
Process(pc, job, ran, files, main) ==
    [pc |-> pc, job |-> job, ran |-> ran, files |-> files, main |-> main]

Spawned == Process("starting", None, FALSE, {}, {})

Exited == Process("exited", None, FALSE, {}, {})

Init ==
    /\ SchedInit
    /\ hashesSoFar = {}
    /\ shardPaths = <<>>
    /\ indexedSoFar = 0
    /\ output = [written |-> FALSE, documents |-> {}]
    /\ d2w = [w \in Workers |-> <<>>]
    /\ w2d = <<>>
    /\ disk = {}
    /\ proc = [w \in Workers |-> Spawned]

------------------------------------------------------------------------------
(***************************************************************************)
(* Queues.  send() waits for room; only a receive has a timeout.           *)
(***************************************************************************)
CanSendToWorkerTwoVariant(w) == Len(d2w[w]) < 2

CanSendToWorker(w) == Len(d2w[w]) < 1

SendToWorker(w, request) == d2w' = [d2w EXCEPT ![w] = Append(@, request)]

ReceiveFromDriver(w) == d2w' = [d2w EXCEPT ![w] = Tail(@)]

CanSendToDriver == Len(w2d) < NumWorkers

SendToDriver(response) == w2d' = Append(w2d, response)

------------------------------------------------------------------------------
(***************************************************************************)
(* The driver.                                                             *)
(***************************************************************************)

(* ResumableParser::parseMore at command n reads groups of RefillLimit     *)
(* commands, until one of them is not skipped, or to the end.              *)
Group(n, k) ==
    {c \in Tasks : n + k * RefillLimit <= c /\ c < n + (k + 1) * RefillLimit}

LastGroup(n) ==
    LET ends == {k \in 0 .. NumCommands :
                   \/ ~ (Group(n, k) \subseteq Skipped)
                   \/ n + (k + 1) * RefillLimit >= NumCommands}
    IN CHOOSE k \in ends : \A i \in ends : k <= i

ParseEnd(n) ==
    LET end == n + (LastGroup(n) + 1) * RefillLimit
    IN IF end <= NumCommands THEN end ELSE NumCommands

ParseMore(n) ==
    LET batch == Group(n, LastGroup(n)) \ Skipped
    IN CHOOSE b \in [1 .. Cardinality(batch) -> batch] :
           \A i, k \in DOMAIN b : i < k => b[i] < b[k]

DriverRefill ==
    /\ LET batch == ParseMore(nextCommand)
           next == ParseEnd(nextCommand) IN
       FirstRefill(batch, next) \/ RefillPendingJobs(batch, next)
    /\ UNCHANGED <<driverVars, d2w, w2d, disk, proc>>

(* Steps of the loop that touch no queue and no process.                   *)
DriverInternal ==
    /\ LeaveLoop \/ ContinueLoop \/ BeginReceive \/ EndScan \/ Finish
    /\ UNCHANGED <<driverVars, d2w, w2d, disk, proc>>

TryAssignJobToWorker ==
    /\ \/ /\ AssignJob(TRUE)
          /\ CanSendToWorker(Head(sched.idleWorkers))
          /\ SendToWorker(Head(sched.idleWorkers),
                          Request(Head(sched.pendingJobs), SemaKind, {}))
       \/ AssignJob(FALSE) /\ UNCHANGED d2w
    /\ UNCHANGED <<driverVars, w2d, disk, proc>>

ShutdownWorker ==
    /\ ShutdownIdleWorker
    /\ CanSendToWorker(NextWorkerToStop(sched))
    /\ SendToWorker(NextWorkerToStop(sched), ShutdownRequest)
    /\ UNCHANGED <<driverVars, w2d, disk, proc>>

FilesToBeIndexedAllVariant(files) == files

FilesToBeIndexedByPathVariant(files) ==
    {f \in files : \A g \in hashesSoFar : g[1] # f[1]}

(* FileIndexingPlanner::saveSemaResult: the pairs not seen before.         *)
FilesToBeIndexed(files) == files \ hashesSoFar

(* processWorkerResponse, when the response r is the one of the job that   *)
(* its worker is known to process and r is an analysis.                    *)
ProcessSemaResult(r, sent) ==
    /\ HandleResponse(r.worker, r.job, r.kind, sent)
    /\ hashesSoFar' = hashesSoFar \cup r.files
    /\ IF sent
       THEN /\ CanSendToWorker(r.worker)
            /\ SendToWorker(r.worker, Request(NextSubtask(r.job), EmitKind,
                                              FilesToBeIndexed(r.files)))
            /\ UNCHANGED proc
       ELSE /\ UNCHANGED d2w
            /\ proc' = IF sched'.enforce = "holds"
                       THEN [proc EXCEPT ![r.worker] = Spawned] ELSE proc
    /\ UNCHANGED <<shardPaths, indexedSoFar>>

ProcessEmitResult(r) ==
    /\ HandleResponse(r.worker, r.job, r.kind, TRUE)
    /\ IF sched'.enforce = "holds"
       THEN /\ shardPaths' = Append(shardPaths, <<r.job[1], r.worker>>)
            /\ indexedSoFar' = indexedSoFar + 1
       ELSE UNCHANGED <<shardPaths, indexedSoFar>>
    /\ UNCHANGED <<hashesSoFar, d2w, proc>>

DropLateResultAfterPlanningVariant(r) ==
    /\ HandleResponse(r.worker, r.job, r.kind, TRUE)
    /\ hashesSoFar' = hashesSoFar \cup r.files
    /\ UNCHANGED <<shardPaths, indexedSoFar, d2w, proc>>

(* The worker was terminated before its result was read: nothing of the    *)
(* result is used.                                                         *)
DropLateResult(r) ==
    /\ HandleResponse(r.worker, r.job, r.kind, TRUE)
    /\ UNCHANGED <<hashesSoFar, shardPaths, indexedSoFar, d2w, proc>>

ProcessWorkerResponse ==
    /\ w2d # <<>>
    /\ LET r == Head(w2d) IN
       IF ~ IsCurrentJob(sched, r.worker, r.job) THEN DropLateResult(r)
       ELSE IF r.kind = EmitKind THEN ProcessEmitResult(r)
       ELSE \E sent \in BOOLEAN : ProcessSemaResult(r, sent)
    /\ w2d' = Tail(w2d)
    /\ UNCHANGED <<output, disk>>

NoMoreResultsWithoutTimeoutVariant ==
    /\ w2d = <<>>
    /\ StopDraining(0)
    /\ UNCHANGED <<driverVars, d2w, w2d, disk, proc>>

NoMoreResults ==
    /\ w2d = <<>>
    /\ \/ "timeout" \in Faults /\ ReceiveTimeout
       \/ \E instant \in IF "timeout" \in Faults THEN Deadlines ELSE {0} :
             StopDraining(instant)
    /\ UNCHANGED <<driverVars, d2w, w2d, disk, proc>>

(* A killed process is replaced by a fresh one; its queue is not emptied.  *)
TerminateLongRunningWorker ==
    /\ ScanWorker
    /\ proc' = IF IsLongRunning(sched, scan, startedBefore)
               THEN [proc EXCEPT ![scan] = Spawned] ELSE proc
    /\ UNCHANGED <<driverVars, d2w, w2d, disk>>

(* emitScipIndex: the documents of the shards that can be read.            *)
EmitScipIndex ==
    /\ Running /\ phase = "done" /\ ~ output.written
    /\ output' = [written |-> TRUE,
                  documents |-> UNION {d.files \cup d.main : d \in
                     {e \in disk : /\ e.part = "docsAndExternals"
                                   /\ <<e.task, e.worker>> \in Elems(shardPaths)}}]
    /\ UNCHANGED <<schedVars, hashesSoFar, shardPaths, indexedSoFar,
                   d2w, w2d, disk, proc>>

DriverNext ==
    \/ DriverRefill
    \/ DriverInternal
    \/ TryAssignJobToWorker
    \/ ShutdownWorker
    \/ ProcessWorkerResponse
    \/ NoMoreResults
    \/ TerminateLongRunningWorker
    \/ EmitScipIndex

(* A killed driver takes no more steps, like one that failed an ENFORCE.   *)
DriverCrash ==
    /\ "driverCrash" \in Faults
    /\ Running /\ phase # "exitFailure" /\ ~ output.written
    /\ sched' = [sched EXCEPT !.enforce = "failed"]
    /\ UNCHANGED <<phase, refillCount, nextCommand, scan, startedBefore,
                   driverVars, d2w, w2d, disk, proc>>

(* The driver process is gone; only a normal return removes the queues.    *)
DriverOver == ~ Running \/ phase = "exitFailure" \/ output.written

QueuesRemoved == output.written

------------------------------------------------------------------------------
(***************************************************************************)
(* Worker w.                                                               *)
(***************************************************************************)
Become(w, p) == proc' = [proc EXCEPT ![w] = p]

workerUnchanged == <<schedVars, driverVars>>

OpenQueues(w) ==
    /\ proc[w].pc = "starting" /\ ~ QueuesRemoved
    /\ Become(w, [proc[w] EXCEPT !.pc = "idle"])
    /\ UNCHANGED <<workerUnchanged, d2w, w2d, disk>>

FailToStart(w) ==
    /\ proc[w].pc = "starting"
    /\ QueuesRemoved \/ "startup" \in Faults
    /\ Become(w, Exited)
    /\ UNCHANGED <<workerUnchanged, d2w, w2d, disk>>

(* Worker::run: the first request of a translation unit must be for an     *)
(* analysis, or ENFORCE ends the process.                                  *)
ReceiveSemaRequest(w) ==
    /\ proc[w].pc = "idle" /\ d2w[w] # <<>>
    /\ LET r == Head(d2w[w]) IN
       Become(w, IF r.id = None \/ r.kind # SemaKind THEN Exited
                 ELSE Process("sema", r.id, r.id[1] \notin NoSemaTasks, {}, {}))
    /\ ReceiveFromDriver(w)
    /\ UNCHANGED <<workerUnchanged, w2d, disk>>

(* The analysis is over.  If it did not run the result is empty.           *)
SendSemaResult(w) ==
    /\ proc[w].pc = "sema" /\ CanSendToDriver
    /\ SendToDriver(Response(w, proc[w].job, SemaKind,
                             IF proc[w].ran THEN SemaFiles[proc[w].job[1]] ELSE {}))
    /\ Become(w, [proc[w] EXCEPT !.pc = "waitEmit"])
    /\ UNCHANGED <<workerUnchanged, d2w, disk>>

(* Only if the analysis ran does ENFORCE look at the kind of the request.  *)
(* HandleTranslationUnit then indexes the files of the request, and always *)
(* the main file of the unit it analysed, which the driver may have given  *)
(* to another unit.                                                        *)
ReceiveEmitRequest(w) ==
    /\ proc[w].pc = "waitEmit" /\ d2w[w] # <<>>
    /\ LET r == Head(d2w[w]) IN
       Become(w, IF r.id = None \/ (proc[w].ran /\ r.kind # EmitKind) THEN Exited
                 ELSE IF proc[w].ran
                 THEN Process("emit", r.id, TRUE, r.files, {MainFile[proc[w].job[1]]})
                 ELSE Process("emit", r.id, FALSE, {}, {}))
    /\ ReceiveFromDriver(w)
    /\ UNCHANGED <<workerUnchanged, w2d, disk>>

Shard(w, part) ==
    [task |-> proc[w].job[1], worker |-> w, part |-> part,
     files |-> proc[w].files, main |-> proc[w].main]

SameFile(d, e) == d.task = e.task /\ d.worker = e.worker /\ d.part = e.part

(* emitIndex: opening the file truncates what is there.                    *)
EmitIndex(w, part) ==
    disk' = {d \in disk : ~ SameFile(d, Shard(w, part))} \cup {Shard(w, part)}

EmitDocsOnlyVariant(w) ==
    /\ proc[w].pc = "emit"
    /\ EmitIndex(w, "docsAndExternals")
    /\ Become(w, [proc[w] EXCEPT !.pc = "emitted"])
    /\ UNCHANGED <<workerUnchanged, d2w, w2d>>

EmitDocsAndExternals(w) ==
    /\ proc[w].pc = "emit"
    /\ EmitIndex(w, "docsAndExternals")
    /\ Become(w, [proc[w] EXCEPT !.pc = "emitDecls"])
    /\ UNCHANGED <<workerUnchanged, d2w, w2d>>

EmitForwardDecls(w) ==
    /\ proc[w].pc = "emitDecls"
    /\ EmitIndex(w, "forwardDecls")
    /\ Become(w, [proc[w] EXCEPT !.pc = "emitted"])
    /\ UNCHANGED <<workerUnchanged, d2w, w2d>>

SendEmitResultForAnalysisVariant(w) ==
    /\ proc[w].pc = "emitted" /\ CanSendToDriver
    /\ SendToDriver(Response(w, NewTask(proc[w].job[1]), EmitKind, {}))
    /\ Become(w, Process("idle", None, FALSE, {}, {}))
    /\ UNCHANGED <<workerUnchanged, d2w, disk>>

SendEmitResult(w) ==
    /\ proc[w].pc = "emitted" /\ CanSendToDriver
    /\ SendToDriver(Response(w, proc[w].job, EmitKind, {}))
    /\ Become(w, Process("idle", None, FALSE, {}, {}))
    /\ UNCHANGED <<workerUnchanged, d2w, disk>>

DriverTimeoutWhenIdleVariant(w) ==
    /\ proc[w].pc = "idle" /\ d2w[w] = <<>>
    /\ "driverTimeout" \in Faults \/ DriverOver
    /\ Become(w, Exited)
    /\ UNCHANGED <<workerUnchanged, d2w, w2d, disk>>

(* waitForRequest gives up on the driver.                                  *)
DriverTimeout(w) ==
    /\ proc[w].pc \in {"idle", "waitEmit"} /\ d2w[w] = <<>>
    /\ "driverTimeout" \in Faults \/ DriverOver
    /\ Become(w, Exited)
    /\ UNCHANGED <<workerUnchanged, d2w, w2d, disk>>

Crash(w) ==
    /\ "crash" \in Faults
    /\ proc[w].pc \in {"sema", "waitEmit", "emit", "emitDecls", "emitted"}
    /\ Become(w, Exited)
    /\ UNCHANGED <<workerUnchanged, d2w, w2d, disk>>

(* What a worker does without running clang on a translation unit.         *)
Wait(w) ==
    \/ OpenQueues(w) \/ FailToStart(w)
    \/ ReceiveSemaRequest(w) \/ ReceiveEmitRequest(w)
    \/ DriverTimeout(w)

Work(w) ==
    \/ SendSemaResult(w)
    \/ EmitDocsAndExternals(w) \/ EmitForwardDecls(w) \/ SendEmitResult(w)

(* All processes are gone.                                                 *)
Terminated ==
    /\ DriverOver
    /\ \A w \in Workers : proc[w].pc = "exited"
    /\ UNCHANGED vars

Next ==
    \/ DriverNext
    \/ DriverCrash
    \/ \E w \in Workers : Wait(w) \/ Work(w) \/ Crash(w)
    \/ Terminated

Spec == Init /\ [][Next]_vars

(* The driver is never descheduled forever, and neither is a worker that   *)
(* starts or waits for a request.  Nothing is assumed about clang: a       *)
(* worker may stay forever in a translation unit.                          *)
FairSpec ==
    /\ Spec
    /\ WF_vars(DriverNext)
    /\ \A w \in Workers : WF_vars(Wait(w))

(* For runs without faults: no translation unit takes forever.             *)
FairWorkersSpec == FairSpec /\ \A w \in Workers : WF_vars(Work(w))

------------------------------------------------------------------------------
(***************************************************************************)
(* Properties.                                                             *)
(***************************************************************************)
Files == UNION {SemaFiles[t] : t \in Tasks}

Requests == [id : JobIds \cup {None}, kind : {SemaKind, EmitKind}, files : SUBSET Files]

Responses ==
    [worker : Workers, job : JobIds, kind : {SemaKind, EmitKind}, files : SUBSET Files]

(* The types of the driver's members, the queues, the disk and the         *)
(* processes; the queues stay within their capacities.                     *)
SystemTypeOK ==
    /\ TypeOK
    /\ hashesSoFar \subseteq Files
    /\ Elems(shardPaths) \subseteq Tasks \X Workers
    /\ indexedSoFar \in 0 .. NumCommands
    /\ output.written \in BOOLEAN /\ output.documents \subseteq Files
    /\ \A w \in Workers : Len(d2w[w]) <= 1 /\ Elems(d2w[w]) \subseteq Requests
    /\ Len(w2d) <= NumWorkers /\ Elems(w2d) \subseteq Responses
    /\ disk \subseteq [task : Tasks, worker : Workers,
                       part : {"docsAndExternals", "forwardDecls"},
                       files : SUBSET Files, main : SUBSET Files]
    /\ proc \in [Workers ->
                   [pc : {"starting", "idle", "sema", "waitEmit", "emit",
                          "emitDecls", "emitted", "exited"},
                    job : JobIds \cup {None}, ran : BOOLEAN,
                    files : SUBSET Files, main : SUBSET Files]]

(* The driver with real queues and workers is an instance of the loop of   *)
(* Scheduler.tla: every response that arrives keeps ResponseContract.      *)
ImplementsScheduler == SchedSpec

(* Where job j is: in the queue of worker w, in the hands of w's process,  *)
(* or as a response of w on its way to the driver.                         *)
RequestsFor(w, j) == {i \in DOMAIN d2w[w] : d2w[w][i].id = j}

ResponsesOf(w, j) ==
    {i \in DOMAIN w2d : w2d[i].worker = w /\ w2d[i].job = j}

InHand(w, j) == proc[w].job = j /\ proc[w].pc \in {"sema", "emit", "emitDecls", "emitted"}

Copies(w, j) ==
    Cardinality(RequestsFor(w, j)) + Cardinality(ResponsesOf(w, j))
        + (IF InHand(w, j) THEN 1 ELSE 0)

(* Queues, kills and restarts neither duplicate a job nor move it to       *)
(* another worker, and the driver has not forgotten a job that may still   *)
(* be answered: there is at most one copy of it, with the worker it was    *)
(* assigned to, which processes it unless the driver gave up on it.        *)
OneCopyPerJob ==
    \A w \in Workers, j \in JobIds :
        Copies(w, j) > 0 =>
            /\ Copies(w, j) = 1
            /\ sched.assignedWorker[j] = w
            /\ sched.currentlyProcessing[w] = j \/ j \in sched.maybeErroredJobs

(* Driver::processWorkerResponse sends the emission from inside the loop   *)
(* that reads results, with a send that waits for room.  It never has to   *)
(* wait: the queue of a worker whose current analysis is answered is empty.*)
EmitSendNeverWaits ==
    \A i \in DOMAIN w2d :
        LET r == w2d[i] IN
        r.kind = SemaKind /\ IsCurrentJob(sched, r.worker, r.job)
            => CanSendToWorker(r.worker)

(* Every shard that the driver will merge was written completely, both     *)
(* files of it, before the driver learnt of it, and no successor of the    *)
(* worker overwrote it.                                                    *)
ShardsAreOnDisk ==
    \A i \in DOMAIN shardPaths :
        \A part \in {"docsAndExternals", "forwardDecls"} :
            \E d \in disk : /\ <<d.task, d.worker>> = shardPaths[i]
                            /\ d.part = part
                            /\ d.files \subseteq SemaFiles[d.task]

ShardFiles(t) ==
    UNION {d.files \cup d.main :
             d \in {e \in disk : e.task = t /\ e.part = "docsAndExternals"}}

(* A <<path, hash>> pair is indexed for at most one translation unit, no   *)
(* matter in which order analyses are answered and workers replaced.  The  *)
(* exception is a main file: its unit indexes it even when the driver gave *)
(* it to another unit, one that has the same main file or includes it.     *)
FilesIndexedOnce ==
    \A t, u \in Tasks :
        t # u => ShardFiles(t) \cap ShardFiles(u) \subseteq {MainFile[t], MainFile[u]}

MergedTasks == {shardPaths[i][1] : i \in DOMAIN shardPaths}

(* A file of a merged translation unit is missing from the index only if   *)
(* it is not the unit's main file and the driver had assigned it to a unit *)
(* that was not merged, the loss that NOTE(def: header-recovery) accepts.  *)
LostFilesWereAssigned ==
    output.written =>
        \A t \in MergedTasks :
            \A f \in SemaFiles[t] \ output.documents :
                \/ t \in NoSemaTasks
                \/ /\ f # MainFile[t]
                   /\ \E u \in Tasks \ MergedTasks :
                         /\ f \in SemaFiles[u]
                         /\ NextSubtask(NewTask(u)) \in sched.allJobList

QueuedTasks == {j[1] : j \in sched.allJobList}

(* Without faults an index is written in the end, every queued translation *)
(* unit is merged, with all its files, and the summary says so.            *)
CompleteIndexIsWritten ==
    <>(/\ output.written
       /\ MergedTasks = QueuedTasks
       /\ indexedSoFar = Cardinality(QueuedTasks)
       /\ sched.maybeErroredJobs = {}
       /\ \A t \in QueuedTasks \ NoSemaTasks : SemaFiles[t] \subseteq output.documents)

(* The indexing run ends: no crash, hang or kill of workers keeps the      *)
(* driver waiting forever.                                                 *)
DriverTerminates == <>DriverOver

(* However the driver ends, no worker is left waiting for a request.       *)
WorkersNoticeDriverExit ==
    \A w \in Workers :
        DriverOver ~> proc[w].pc \in {"exited", "sema", "emit", "emitDecls", "emitted"}

------------------------------------------------------------------------------
(***************************************************************************)
(* What the repository says of the program and the program does not do;    *)
(* the runs that check these expect a violation.                           *)
(***************************************************************************)

(* NOTE(def: scheduling-invariant): while a translation unit is left, the  *)
(* loop has jobs pending or in progress, so it ends only after the last    *)
(* command of the compilation database was parsed.                         *)
LoopEndsAfterLastCommand == phase = "final" => nextCommand = NumCommands
=============================================================================
