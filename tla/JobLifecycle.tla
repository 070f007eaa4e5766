---------------------------- MODULE JobLifecycle ----------------------------
(***************************************************************************)
(* What the driver promises about the jobs of a translation unit, without  *)
(* workers, queues or deques: an analysis is queued once and run at most   *)
(* once, an emission starts in the very step that settles its analysis, a  *)
(* job that was given up on can still be settled by a late answer but is   *)
(* never run again, and no more jobs run than there are workers.           *)
(***************************************************************************)
EXTENDS Naturals, FiniteSets

CONSTANTS
    Tasks,      \* the translation units
    PoolSize    \* the number of workers

VARIABLE
    jobState    \* jobState[<<t, 0>>]: t's analysis, jobState[<<t, 1>>]: its emission

JobStates == {"unknown", "pending", "wip", "maybeErrored", "settled"}

Sema(t) == <<t, 0>>

Emit(t) == <<t, 1>>

Subtasks == Tasks \X {0, 1}

InProgress == {j \in Subtasks : jobState[j] = "wip"}

LifecycleInit == jobState = [j \in Subtasks |-> "unknown"]

Move(j, from, to) ==
    /\ jobState[j] = from
    /\ jobState' = [jobState EXCEPT ![j] = to]

Queue(S) ==
    /\ \A t \in S : jobState[Sema(t)] = "unknown"
    /\ jobState' = [j \in Subtasks |->
                       IF j[1] \in S /\ j[2] = 0 THEN "pending" ELSE jobState[j]]

Start(t) ==
    /\ Cardinality(InProgress) < PoolSize
    /\ Move(Sema(t), "pending", "wip")

(* The request did not fit into the worker's queue.                        *)
Drop(t) ==
    /\ Cardinality(InProgress) < PoolSize
    /\ Move(Sema(t), "pending", "settled")

(* The analysis is over; the emission runs, or its request did not fit.    *)
StartEmission(t) ==
    /\ jobState[Sema(t)] = "wip" /\ jobState[Emit(t)] = "unknown"
    /\ \E next \in {"wip", "settled"} :
          jobState' = [jobState EXCEPT ![Sema(t)] = "settled", ![Emit(t)] = next]

FinishEmission(t) == Move(Emit(t), "wip", "settled")

GiveUp(j) == Move(j, "wip", "maybeErrored")

LateAnswer(j) == Move(j, "maybeErrored", "settled")

LifecycleNext ==
    \/ \E S \in SUBSET Tasks : Queue(S)
    \/ \E t \in Tasks : Start(t) \/ Drop(t) \/ StartEmission(t) \/ FinishEmission(t)
    \/ \E j \in Subtasks : GiveUp(j) \/ LateAnswer(j)

LifecycleSpec == LifecycleInit /\ [][LifecycleNext]_jobState
=============================================================================
