--------------------------- MODULE SchedulerProofs ---------------------------
(***************************************************************************)
(* Proofs about the scheduling loop, for every size of the worker pool and *)
(* of the compilation database.                                            *)
(***************************************************************************)
EXTENDS SchedulerInvariant, FiniteSetTheorems, SequenceTheorems, TLAPS

------------------------------------------------------------------------------
(***************************************************************************)
(* Deques.                                                                 *)
(***************************************************************************)

(* push_front adds one element, at the front.                              *)
LEMMA PushFrontDeque ==
    ASSUME NEW S, NEW q \in Seq(S), NEW e \in S
    PROVE  /\ <<e>> \o q \in Seq(S)
           /\ Len(<<e>> \o q) = Len(q) + 1
           /\ <<e>> \o q # <<>> /\ Head(<<e>> \o q) = e
           /\ Elems(<<e>> \o q) = Elems(q) \cup {e}
           /\ Distinct(q) /\ e \notin Elems(q) => Distinct(<<e>> \o q)
<1> DEFINE r == <<e>> \o q
<1>1. r \in Seq(S) /\ Len(r) = Len(q) + 1 /\ DOMAIN r = 1 .. Len(r) /\ DOMAIN q = 1 .. Len(q)
  OBVIOUS
<1>2. r[1] = e /\ \A i \in 1 .. Len(q) : r[i + 1] = q[i]
  OBVIOUS
<1>3. \A i \in 2 .. Len(r) : i - 1 \in 1 .. Len(q) /\ r[i] = q[i - 1]
  BY <1>1, <1>2
<1>4. Elems(r) = Elems(q) \cup {e}
  <2>1. \A x \in Elems(r) : x \in Elems(q) \cup {e}
    BY <1>1, <1>2, <1>3 DEF Elems
  <2>2. \A i \in 1 .. Len(q) : i + 1 \in DOMAIN r /\ r[i + 1] = q[i]
    BY <1>1, <1>2
  <2>3. \A x \in Elems(q) : x \in Elems(r)
    BY <1>1, <2>2 DEF Elems
  <2>4. e \in Elems(r)
    BY <1>1, <1>2 DEF Elems
  <2> QED BY <2>1, <2>3, <2>4
<1>5. ASSUME Distinct(q), e \notin Elems(q) PROVE Distinct(r)
  <2> SUFFICES ASSUME NEW i \in 1 .. Len(r), NEW k \in 1 .. Len(r), r[i] = r[k]
               PROVE  i = k
    BY <1>1 DEF Distinct
  <2>1. CASE i = 1 /\ k = 1
    BY <2>1
  <2>2. CASE i > 1 /\ k > 1
    BY <1>5, <1>1, <1>3, <2>2 DEF Distinct
  <2>3. CASE (i = 1 /\ k > 1) \/ (i > 1 /\ k = 1)
    BY <1>5, <1>1, <1>2, <1>3, <2>3 DEF Elems
  <2> QED BY <1>1, <2>1, <2>2, <2>3
<1> QED BY <1>1, <1>2, <1>4, <1>5

(* push_back adds one element.                                             *)
LEMMA PushBackDeque ==
    ASSUME NEW S, NEW q \in Seq(S), NEW e \in S
    PROVE  /\ Append(q, e) \in Seq(S)
           /\ Len(Append(q, e)) = Len(q) + 1
           /\ Append(q, e) # <<>>
           /\ Elems(Append(q, e)) = Elems(q) \cup {e}
           /\ Distinct(q) /\ e \notin Elems(q) => Distinct(Append(q, e))
<1> DEFINE r == Append(q, e)
<1>1. r \in Seq(S) /\ Len(r) = Len(q) + 1 /\ DOMAIN r = 1 .. Len(r) /\ DOMAIN q = 1 .. Len(q)
  OBVIOUS
<1>2. r[Len(q) + 1] = e /\ \A i \in 1 .. Len(q) : r[i] = q[i]
  OBVIOUS
<1>3. Elems(r) = Elems(q) \cup {e}
  BY <1>1, <1>2 DEF Elems
<1>4. Distinct(q) /\ e \notin Elems(q) => Distinct(r)
  BY <1>1, <1>2 DEF Elems, Distinct
<1> QED BY <1>1, <1>2, <1>3, <1>4

(* pop_front removes the front, and nothing else if elements are distinct. *)
LEMMA PopFrontDeque ==
    ASSUME NEW S, NEW q \in Seq(S), q # <<>>
    PROVE  /\ Tail(q) \in Seq(S)
           /\ Len(Tail(q)) = Len(q) - 1 /\ Len(q) \in Nat \ {0}
           /\ Head(q) \in S /\ Head(q) \in Elems(q)
           /\ Elems(Tail(q)) \subseteq Elems(q)
           /\ Distinct(q) => /\ Distinct(Tail(q))
                             /\ Elems(Tail(q)) = Elems(q) \ {Head(q)}
<1> DEFINE r == Tail(q)
<1>1. r \in Seq(S) /\ Len(r) = Len(q) - 1 /\ Len(q) \in Nat \ {0}
      /\ DOMAIN r = 1 .. Len(r) /\ DOMAIN q = 1 .. Len(q)
  OBVIOUS
<1>2. Head(q) = q[1] /\ q[1] \in S /\ \A i \in 1 .. Len(r) : r[i] = q[i + 1]
  OBVIOUS
<1>3. \A i \in 1 .. Len(q) : i # 1 => i - 1 \in 1 .. Len(r) /\ q[i] = r[i - 1]
  BY <1>1, <1>2
<1>4. Elems(r) \subseteq Elems(q) /\ Head(q) \in Elems(q)
  BY <1>1, <1>2 DEF Elems
<1>5. ASSUME Distinct(q) PROVE Distinct(r) /\ Elems(r) = Elems(q) \ {Head(q)}
  <2>1. Distinct(r)
    <3> SUFFICES ASSUME NEW i \in 1 .. Len(r), NEW k \in 1 .. Len(r), r[i] = r[k]
                 PROVE  i = k
      BY <1>1 DEF Distinct
    <3> q[i + 1] = q[k + 1] /\ i + 1 \in 1 .. Len(q) /\ k + 1 \in 1 .. Len(q)
      BY <1>1, <1>2
    <3> QED BY <1>1, <1>5 DEF Distinct
  <2>2. Head(q) \notin Elems(r)
    <3> SUFFICES ASSUME NEW i \in 1 .. Len(r), r[i] = q[1] PROVE FALSE
      BY <1>1, <1>2 DEF Elems
    <3> q[i + 1] = q[1] /\ i + 1 \in 1 .. Len(q) /\ 1 \in 1 .. Len(q)
      BY <1>1, <1>2
    <3> QED BY <1>1, <1>5 DEF Distinct
  <2>3. ASSUME NEW x \in Elems(q), x # Head(q) PROVE x \in Elems(r)
    <3>1. PICK i \in 1 .. Len(q) : x = q[i]
      BY <1>1 DEF Elems
    <3>2. i # 1
      BY <1>2, <2>3, <3>1
    <3>3. i - 1 \in DOMAIN r /\ x = r[i - 1]
      BY <1>1, <1>3, <3>1, <3>2
    <3> QED BY <3>3 DEF Elems
  <2> QED BY <1>4, <2>1, <2>2, <2>3
<1> QED BY <1>1, <1>2, <1>4, <1>5

(* pop_back removes the back, and nothing else if elements are distinct.   *)
LEMMA PopBackDeque ==
    ASSUME NEW S, NEW q \in Seq(S), q # <<>>
    PROVE  /\ PopBack(q) \in Seq(S)
           /\ Len(PopBack(q)) = Len(q) - 1 /\ Len(q) \in Nat \ {0}
           /\ q[Len(q)] \in S /\ q[Len(q)] \in Elems(q)
           /\ Distinct(q) => /\ Distinct(PopBack(q))
                             /\ Elems(PopBack(q)) = Elems(q) \ {q[Len(q)]}
<1> DEFINE r == SubSeq(q, 1, Len(q) - 1)
<1>1. PopBack(q) = r /\ Len(q) \in Nat \ {0} /\ DOMAIN q = 1 .. Len(q)
  BY DEF PopBack
<1>2. r \in Seq(S) /\ Len(r) = Len(q) - 1 /\ DOMAIN r = 1 .. (Len(q) - 1)
  BY <1>1
<1>3. q[Len(q)] \in S /\ \A i \in 1 .. (Len(q) - 1) : r[i] = q[i]
  BY <1>1
<1>4. q[Len(q)] \in Elems(q)
  BY <1>1 DEF Elems
<1>5. ASSUME Distinct(q) PROVE Distinct(r) /\ Elems(r) = Elems(q) \ {q[Len(q)]}
  <2>1. Distinct(r)
    BY <1>1, <1>2, <1>3, <1>5 DEF Distinct
  <2>2. q[Len(q)] \notin Elems(r)
    BY <1>1, <1>2, <1>3, <1>5 DEF Distinct, Elems
  <2>3. Elems(r) \subseteq Elems(q)
    BY <1>1, <1>2, <1>3 DEF Elems
  <2>4. ASSUME NEW x \in Elems(q), x # q[Len(q)] PROVE x \in Elems(r)
    <3>1. PICK i \in 1 .. Len(q) : x = q[i]
      BY <1>1 DEF Elems
    <3>2. i \in DOMAIN r /\ x = r[i]
      BY <1>1, <1>2, <1>3, <2>4, <3>1
    <3> QED BY <3>2 DEF Elems
  <2> QED BY <2>1, <2>2, <2>3, <2>4
<1> QED BY <1>1, <1>2, <1>3, <1>4, <1>5

------------------------------------------------------------------------------
(***************************************************************************)
(* Methods of class Scheduler.  Each one, called in a state that satisfies *)
(* the invariant, keeps it and passes all of its ENFORCEs.                 *)
(***************************************************************************)

(* An optional that is empty holds no worker and no job.                   *)
LEMMA NoneIsNoValue == None \notin Workers /\ \A j \in JobIds : j # None
BY NoneAssumption

(* The fields of the record that stands for class Scheduler.               *)
LEMMA FieldTypes ==
    ASSUME NEW s \in SchedulerStates
    PROVE  /\ s.status \in [Workers -> {"Idle", "Busy", "Stopped"}]
           /\ s.currentlyProcessing \in [Workers -> JobIds \cup {None}]
           /\ s.startTime \in [Workers -> Nat] /\ s.clock \in Nat
           /\ s.idleWorkers \in Seq(Workers) /\ s.stoppedWorkers \in Seq(Workers)
           /\ s.allJobList \subseteq JobIds
           /\ s.assignedWorker \in [JobIds -> Workers \cup {None}]
           /\ s.pendingJobs \in Seq(JobIds)
           /\ s.wipJobs \subseteq JobIds /\ s.maybeErroredJobs \subseteq JobIds
           /\ s.enforce \in {"holds", "failed"}
BY DEF SchedulerStates

(* What scheduleJobOnWorker expects, and the fields it changes.            *)
CanSchedule(s, w, j) ==
    /\ w \notin Elems(s.idleWorkers) /\ j \in s.wipJobs /\ j \in s.allJobList
    /\ s.assignedWorker[j] = None /\ s.status[w] = "Idle"
    /\ s.currentlyProcessing[w] = None

IsScheduled(s, t, w, j) ==
    /\ t \in SchedulerStates /\ t.enforce = s.enforce
    /\ t.status = [s.status EXCEPT ![w] = "Busy"]
    /\ t.currentlyProcessing = [s.currentlyProcessing EXCEPT ![w] = j]
    /\ t.startTime = [s.startTime EXCEPT ![w] = s.clock]
    /\ t.clock = s.clock + 1
    /\ t.idleWorkers = s.idleWorkers
    /\ t.stoppedWorkers = s.stoppedWorkers
    /\ t.allJobList = s.allJobList
    /\ t.assignedWorker = [s.assignedWorker EXCEPT ![j] = w]
    /\ t.pendingJobs = s.pendingJobs
    /\ t.wipJobs = s.wipJobs
    /\ t.maybeErroredJobs = s.maybeErroredJobs

(* scheduleJobOnWorker on an idle worker and a job that was never assigned *)
(* passes its ENFORCEs.                                                    *)
LEMMA ScheduleJobOnWorkerEffect ==
    ASSUME NEW s \in SchedulerStates, NEW w \in Workers, NEW j \in JobIds,
           CanSchedule(s, w, j)
    PROVE  IsScheduled(s, ScheduleJobOnWorker(s, w, j), w, j)
<1> DEFINE t == ScheduleJobOnWorker(s, w, j)
           status == [s.status EXCEPT ![w] = "Busy"]
           current == [s.currentlyProcessing EXCEPT ![w] = j]
           start == [s.startTime EXCEPT ![w] = s.clock]
           assigned == [s.assignedWorker EXCEPT ![j] = w]
           u == [s EXCEPT !.status = status, !.currentlyProcessing = current,
                          !.startTime = start, !.clock = s.clock + 1,
                          !.assignedWorker = assigned]
<1>1. t = u
  BY DEF CanSchedule, ScheduleJobOnWorker, MarkWorkerBusy, Enforce, SchedulerStates
<1>2. /\ status \in [Workers -> {"Idle", "Busy", "Stopped"}]
      /\ current \in [Workers -> JobIds \cup {None}]
      /\ start \in [Workers -> Nat]
      /\ assigned \in [JobIds -> Workers \cup {None}]
      /\ s.clock + 1 \in Nat
  BY FieldTypes
<1> HIDE DEF status, current, start, assigned, t
<1>3. /\ u \in SchedulerStates /\ u.enforce = s.enforce
      /\ u.status = status /\ u.currentlyProcessing = current
      /\ u.startTime = start /\ u.clock = s.clock + 1
      /\ u.assignedWorker = assigned
      /\ u.idleWorkers = s.idleWorkers /\ u.stoppedWorkers = s.stoppedWorkers
      /\ u.allJobList = s.allJobList /\ u.pendingJobs = s.pendingJobs
      /\ u.wipJobs = s.wipJobs /\ u.maybeErroredJobs = s.maybeErroredJobs
  BY <1>2 DEF SchedulerStates
<1> QED BY <1>1, <1>3 DEF IsScheduled, t, status, current, start, assigned

(* The fields that markWorkerIdle changes.                                 *)
IsMarkedIdle(s, t, w) ==
    /\ t \in SchedulerStates /\ t.enforce = s.enforce
    /\ t.status = [s.status EXCEPT ![w] = "Idle"]
    /\ t.currentlyProcessing = [s.currentlyProcessing EXCEPT ![w] = None]
    /\ t.startTime = s.startTime /\ t.clock = s.clock
    /\ t.idleWorkers = <<w>> \o s.idleWorkers
    /\ t.stoppedWorkers = s.stoppedWorkers
    /\ t.allJobList = s.allJobList
    /\ t.assignedWorker = s.assignedWorker
    /\ t.pendingJobs = s.pendingJobs
    /\ t.wipJobs = s.wipJobs
    /\ t.maybeErroredJobs = s.maybeErroredJobs

(* markWorkerIdle on a busy worker passes its ENFORCEs.                    *)
LEMMA MarkWorkerIdleEffect ==
    ASSUME NEW s \in SchedulerStates, NEW w \in Workers,
           s.currentlyProcessing[w] # None, s.status[w] = "Busy"
    PROVE  IsMarkedIdle(s, MarkWorkerIdle(s, w), w)
<1> DEFINE t == MarkWorkerIdle(s, w)
           status == [s.status EXCEPT ![w] = "Idle"]
           current == [s.currentlyProcessing EXCEPT ![w] = None]
           idle == <<w>> \o s.idleWorkers
           u == [s EXCEPT !.status = status, !.currentlyProcessing = current,
                          !.idleWorkers = idle]
<1>1. t = u
  BY DEF MarkWorkerIdle, Enforce, SchedulerStates
<1>2. /\ status \in [Workers -> {"Idle", "Busy", "Stopped"}]
      /\ current \in [Workers -> JobIds \cup {None}]
      /\ idle \in Seq(Workers)
  BY FieldTypes
<1> HIDE DEF status, current, idle, t
<1>3. /\ u \in SchedulerStates /\ u.enforce = s.enforce
      /\ u.status = status /\ u.currentlyProcessing = current
      /\ u.idleWorkers = idle
      /\ u.startTime = s.startTime /\ u.clock = s.clock
      /\ u.assignedWorker = s.assignedWorker /\ u.stoppedWorkers = s.stoppedWorkers
      /\ u.allJobList = s.allJobList /\ u.pendingJobs = s.pendingJobs
      /\ u.wipJobs = s.wipJobs /\ u.maybeErroredJobs = s.maybeErroredJobs
  BY <1>2 DEF SchedulerStates
<1> QED BY <1>1, <1>3 DEF IsMarkedIdle, t, status, current, idle

(* From s to t, the idle worker w takes the job j, which is pending or is  *)
(* the emission of a task whose analysis is in no collection any more.     *)
Acquires(s, t, w, j) ==
    /\ s.status[w] = "Idle"
    /\ j \notin s.wipJobs
    /\ j \notin s.maybeErroredJobs
    /\ s.assignedWorker[j] = None
    /\ \/ j \in Elems(s.pendingJobs)
       \/ /\ j[2] = 1
          /\ <<j[1], 0>> \in s.allJobList
          /\ <<j[1], 0>> \notin s.wipJobs
          /\ <<j[1], 0>> \notin s.maybeErroredJobs
          /\ <<j[1], 0>> \notin Elems(s.pendingJobs)
    /\ t.status = [s.status EXCEPT ![w] = "Busy"]
    /\ t.currentlyProcessing = [s.currentlyProcessing EXCEPT ![w] = j]
    /\ t.startTime = [s.startTime EXCEPT ![w] = s.clock]
    /\ t.clock = s.clock + 1
    /\ Distinct(t.idleWorkers)
    /\ Len(t.idleWorkers) = Len(s.idleWorkers) - 1
    /\ Elems(t.idleWorkers) = Elems(s.idleWorkers) \ {w}
    /\ t.stoppedWorkers = s.stoppedWorkers
    /\ t.allJobList = s.allJobList \cup {j}
    /\ t.assignedWorker = [s.assignedWorker EXCEPT ![j] = w]
    /\ Distinct(t.pendingJobs)
    /\ Elems(t.pendingJobs) = Elems(s.pendingJobs) \ {j}
    /\ t.wipJobs = s.wipJobs \cup {j}
    /\ t.maybeErroredJobs = s.maybeErroredJobs

(* A worker that takes a job as in Acquires keeps the invariant.           *)
LEMMA AcquireKeepsInv ==
    ASSUME NEW s \in SchedulerStates, NEW t \in SchedulerStates, StateInv(s),
           NEW w \in Workers, NEW j \in JobIds, Acquires(s, t, w, j)
    PROVE  StateInv(t)
<1> USE DEF Acquires
<1>1. IdleInv(t)
  BY FieldTypes DEF StateInv, IdleInv
<1>2. StoppedInv(t)
  BY FieldTypes DEF StateInv, StoppedInv
<1>3. BusyInv(t)
  <2> SUFFICES ASSUME NEW v \in Workers
               PROVE  /\ t.status[v] = "Busy" <=> t.currentlyProcessing[v] # None
                      /\ t.status[v] = "Busy" => t.startTime[v] < t.clock
    BY DEF BusyInv
  <2>1. CASE v = w
    <3>0. /\ s.status \in [Workers -> {"Idle", "Busy", "Stopped"}]
          /\ s.currentlyProcessing \in [Workers -> JobIds \cup {None}]
          /\ s.startTime \in [Workers -> Nat]
      BY FieldTypes
    <3>1. /\ t.status[v] = "Busy" /\ t.currentlyProcessing[v] = j
          /\ t.startTime[v] = s.clock
      BY <2>1, <3>0
    <3> QED BY <3>1, FieldTypes, NoneIsNoValue
  <2>2. CASE v # w
    <3>1. /\ t.status[v] = s.status[v]
          /\ t.currentlyProcessing[v] = s.currentlyProcessing[v]
          /\ t.startTime[v] = s.startTime[v] /\ s.startTime[v] \in Nat
      BY <2>2, FieldTypes
    <3>2. /\ s.status[v] = "Busy" <=> s.currentlyProcessing[v] # None
          /\ s.status[v] = "Busy" => s.startTime[v] < s.clock
      BY DEF StateInv, BusyInv
    <3> QED BY <3>1, <3>2, FieldTypes
  <2> QED BY <2>1, <2>2
<1>4. WipInv(t)
  <2>0. s.currentlyProcessing[w] = None
    BY FieldTypes DEF StateInv, BusyInv
  <2>1. ASSUME NEW v \in Workers, t.currentlyProcessing[v] # None
        PROVE  /\ t.currentlyProcessing[v] \in t.wipJobs
               /\ t.assignedWorker[t.currentlyProcessing[v]] = v
    BY <2>1, FieldTypes DEF StateInv, WipInv
  <2>2. ASSUME NEW i \in t.wipJobs
        PROVE  /\ i \in t.allJobList
               /\ t.assignedWorker[i] \in Workers
               /\ t.currentlyProcessing[t.assignedWorker[i]] = i
    <3>1. CASE i = j
      BY <3>1, FieldTypes DEF StateInv, WipInv
    <3>2. CASE i # j
      <4>1. i \in s.wipJobs /\ i \in JobIds /\ s.assignedWorker[i] \in Workers
            /\ s.currentlyProcessing[s.assignedWorker[i]] = i /\ i \in s.allJobList
        BY <3>2, FieldTypes DEF StateInv, WipInv
      <4>2. s.assignedWorker[i] # w
        BY <4>1, <2>0, NoneIsNoValue
      <4> QED BY <3>2, <4>1, <4>2, FieldTypes
    <3> QED BY <3>1, <3>2
  <2> QED BY <2>1, <2>2 DEF WipInv
<1>5. PendingInv(t)
  <2>1. ASSUME NEW i \in Elems(t.pendingJobs)
        PROVE  i \in t.allJobList /\ t.assignedWorker[i] = None /\ i[2] = 0
    <3>1. i # j /\ i \in Elems(s.pendingJobs) /\ i \in s.allJobList
          /\ s.assignedWorker[i] = None /\ i[2] = 0
      BY <2>1 DEF StateInv, PendingInv
    <3> QED BY <3>1, FieldTypes
  <2> QED BY <2>1 DEF PendingInv
<1>6. ErroredInv(t)
  BY FieldTypes DEF StateInv, ErroredInv
<1>7. KnownInv(t)
  <2>1. ASSUME NEW i \in JobIds, i \notin t.allJobList
        PROVE  t.assignedWorker[i] = None
    BY <2>1, FieldTypes DEF StateInv, KnownInv
  <2>2. ASSUME NEW k \in Tasks, <<k, 1>> \in t.allJobList
        PROVE  /\ <<k, 0>> \in t.allJobList
               /\ <<k, 0>> \notin t.wipJobs
               /\ <<k, 0>> \notin t.maybeErroredJobs
               /\ <<k, 0>> \notin Elems(t.pendingJobs)
    <3>1. CASE j = <<k, 1>>
      <4>1. j \notin Elems(s.pendingJobs)
        BY <3>1 DEF StateInv, PendingInv
      <4>2. j[1] = k
        BY <3>1
      <4> QED BY <3>1, <4>1, <4>2
    <3>2. CASE j # <<k, 1>>
      <4>1. /\ <<k, 0>> \in s.allJobList
            /\ <<k, 0>> \notin s.wipJobs
            /\ <<k, 0>> \notin s.maybeErroredJobs
            /\ <<k, 0>> \notin Elems(s.pendingJobs)
        BY <2>2, <3>2 DEF StateInv, KnownInv
      <4>2. j # <<k, 0>>
        <5>1. CASE j \in Elems(s.pendingJobs)
          BY <4>1, <5>1
        <5>2. CASE j[2] = 1
          BY <5>2
        <5> QED BY <5>1, <5>2
      <4> QED BY <4>1, <4>2
    <3> QED BY <3>1, <3>2
  <2> QED BY <2>1, <2>2 DEF KnownInv
<1>8. IsFiniteSet(t.wipJobs) /\ CountsAddUp(t)
  <2>1. IsFiniteSet(t.wipJobs) /\ Cardinality(t.wipJobs) = Cardinality(s.wipJobs) + 1
    <3>1. IsFiniteSet(s.wipJobs) /\ j \notin s.wipJobs /\ t.wipJobs = s.wipJobs \cup {j}
      BY DEF StateInv
    <3> QED BY ONLY <3>1, FS_AddElement
  <2>2. /\ Cardinality(s.wipJobs) \in Nat /\ Len(s.stoppedWorkers) \in Nat
        /\ Len(s.idleWorkers) \in Nat
    <3>1. IsFiniteSet(s.wipJobs)
      BY DEF StateInv
    <3>2. Cardinality(s.wipJobs) \in Nat
      BY ONLY <3>1, FS_CardinalityType
    <3>3. s.stoppedWorkers \in Seq(Workers) /\ s.idleWorkers \in Seq(Workers)
      BY ONLY FieldTypes, s \in SchedulerStates
    <3> QED BY ONLY <3>2, <3>3
  <2>3. Cardinality(s.wipJobs) + Len(s.idleWorkers) + Len(s.stoppedWorkers) = NumWorkers
    BY DEF StateInv, CountsAddUp
  <2>4. Cardinality(t.wipJobs) + Len(t.idleWorkers) + Len(t.stoppedWorkers) = NumWorkers
    <3>1. Len(t.stoppedWorkers) = Len(s.stoppedWorkers)
      OBVIOUS
    <3>2. Len(t.idleWorkers) = Len(s.idleWorkers) - 1
      OBVIOUS
    <3> QED BY ONLY <2>1, <2>2, <2>3, <3>1, <3>2, NumWorkersAssumption
  <2> QED BY <2>1, <2>4 DEF CountsAddUp
<1> QED BY <1>1, <1>2, <1>3, <1>4, <1>5, <1>6, <1>7, <1>8 DEF StateInv

(* From s to t, the busy worker w gives its job j back and is idle.  The   *)
(* job was answered, or the driver gave up on it.                          *)
Releases(s, t, w, j) ==
    /\ s.currentlyProcessing[w] = j
    /\ t.status = [s.status EXCEPT ![w] = "Idle"]
    /\ t.currentlyProcessing = [s.currentlyProcessing EXCEPT ![w] = None]
    /\ \A v \in Workers : v # w => t.startTime[v] = s.startTime[v]
    /\ t.clock = s.clock
    /\ Distinct(t.idleWorkers)
    /\ Len(t.idleWorkers) = Len(s.idleWorkers) + 1
    /\ Elems(t.idleWorkers) = Elems(s.idleWorkers) \cup {w}
    /\ t.stoppedWorkers = s.stoppedWorkers
    /\ t.allJobList = s.allJobList
    /\ t.assignedWorker = s.assignedWorker
    /\ t.pendingJobs = s.pendingJobs
    /\ t.wipJobs = s.wipJobs \ {j}
    /\ t.maybeErroredJobs \subseteq s.maybeErroredJobs \cup {j}

(* A worker that gives its job back as in Releases keeps the invariant.    *)
LEMMA ReleaseKeepsInv ==
    ASSUME NEW s \in SchedulerStates, NEW t \in SchedulerStates, StateInv(s),
           NEW w \in Workers, NEW j \in JobIds, Releases(s, t, w, j)
    PROVE  StateInv(t)
<1> USE DEF Releases
<1>0. /\ s.status[w] = "Busy" /\ j \in s.wipJobs /\ s.assignedWorker[j] = w
      /\ j \in s.allJobList
  BY NoneIsNoValue DEF StateInv, BusyInv, WipInv
<1>1. IdleInv(t)
  BY FieldTypes DEF StateInv, IdleInv
<1>2. StoppedInv(t)
  BY <1>0, FieldTypes DEF StateInv, StoppedInv
<1>3. BusyInv(t)
  BY FieldTypes DEF StateInv, BusyInv
<1>4. WipInv(t)
  <2>1. ASSUME NEW v \in Workers, t.currentlyProcessing[v] # None
        PROVE  /\ t.currentlyProcessing[v] \in t.wipJobs
               /\ t.assignedWorker[t.currentlyProcessing[v]] = v
    <3>1. v # w /\ t.currentlyProcessing[v] = s.currentlyProcessing[v]
      BY <2>1, FieldTypes
    <3>2. /\ s.currentlyProcessing[v] \in s.wipJobs
          /\ s.assignedWorker[s.currentlyProcessing[v]] = v
      BY <2>1, <3>1 DEF StateInv, WipInv
    <3>3. s.currentlyProcessing[v] # j
      BY <1>0, <3>1, <3>2
    <3> QED BY <3>1, <3>2, <3>3
  <2>2. ASSUME NEW i \in t.wipJobs
        PROVE  /\ i \in t.allJobList
               /\ t.assignedWorker[i] \in Workers
               /\ t.currentlyProcessing[t.assignedWorker[i]] = i
    <3>1. i \in s.wipJobs /\ i # j /\ s.assignedWorker[i] \in Workers
          /\ s.currentlyProcessing[s.assignedWorker[i]] = i /\ i \in s.allJobList
      BY DEF StateInv, WipInv
    <3>2. s.assignedWorker[i] # w
      BY <3>1
    <3> QED BY <3>1, <3>2, FieldTypes
  <2> QED BY <2>1, <2>2 DEF WipInv
<1>5. PendingInv(t)
  BY DEF StateInv, PendingInv
<1>6. ErroredInv(t)
  BY <1>0 DEF StateInv, ErroredInv
<1>7. KnownInv(t)
  BY <1>0 DEF StateInv, KnownInv
<1>8. IsFiniteSet(t.wipJobs) /\ CountsAddUp(t)
  <2>1. IsFiniteSet(t.wipJobs) /\ Cardinality(t.wipJobs) = Cardinality(s.wipJobs) - 1
    BY <1>0, FS_RemoveElement DEF StateInv
  <2>2. /\ Cardinality(s.wipJobs) \in Nat /\ Len(s.stoppedWorkers) \in Nat
        /\ Len(s.idleWorkers) \in Nat
    <3>1. IsFiniteSet(s.wipJobs)
      BY DEF StateInv
    <3>2. Cardinality(s.wipJobs) \in Nat
      BY ONLY <3>1, FS_CardinalityType
    <3>3. s.stoppedWorkers \in Seq(Workers) /\ s.idleWorkers \in Seq(Workers)
      BY ONLY FieldTypes, s \in SchedulerStates
    <3> QED BY ONLY <3>2, <3>3
  <2>3. Cardinality(s.wipJobs) + Len(s.idleWorkers) + Len(s.stoppedWorkers) = NumWorkers
    BY DEF StateInv, CountsAddUp
  <2>4. Cardinality(t.wipJobs) + Len(t.idleWorkers) + Len(t.stoppedWorkers) = NumWorkers
    BY <2>1, <2>2, <2>3
  <2> QED BY <2>1, <2>4 DEF CountsAddUp
<1> QED BY <1>1, <1>2, <1>3, <1>4, <1>5, <1>6, <1>7, <1>8 DEF StateInv

(* From s to t, worker w turns to job j; j is assigned to w.               *)
Processes(s, t, w, j) ==
    t.currentlyProcessing = [s.currentlyProcessing EXCEPT ![w] = j]

IsAssigned(s, t, w, j) ==
    t.assignedWorker = [s.assignedWorker EXCEPT ![j] = w]

(* assignJobsToIdleWorkers up to the send: the job and the worker at the   *)
(* fronts of the deques are matched.                                       *)
LEMMA ScheduleNextPendingJobKeepsInv ==
    ASSUME NEW s \in SchedulerStates, StateInv(s), s.enforce = "holds",
           s.pendingJobs # <<>>, s.idleWorkers # <<>>
    PROVE  LET t == ScheduleNextPendingJob(s)
               w == Head(s.idleWorkers)
               j == Head(s.pendingJobs) IN
           /\ t \in SchedulerStates /\ StateInv(t) /\ t.enforce = "holds"
           /\ w \in Workers /\ j \in JobIds
           /\ t.currentlyProcessing[w] = j
           /\ Processes(s, t, w, j)
           /\ IsAssigned(s, t, w, j)
           /\ t.pendingJobs = Tail(s.pendingJobs)
           /\ t.stoppedWorkers = s.stoppedWorkers
           /\ t.allJobList = s.allJobList
           /\ t.wipJobs = s.wipJobs \cup {j}
           /\ t.maybeErroredJobs = s.maybeErroredJobs
<1> DEFINE t == ScheduleNextPendingJob(s)
           w == Head(s.idleWorkers)
           j == Head(s.pendingJobs)
           a == [s EXCEPT !.pendingJobs = Tail(s.pendingJobs),
                          !.wipJobs = s.wipJobs \cup {j},
                          !.idleWorkers = Tail(s.idleWorkers)]
<1>1. /\ w \in Workers /\ w \in Elems(s.idleWorkers)
      /\ Tail(s.idleWorkers) \in Seq(Workers)
      /\ Len(Tail(s.idleWorkers)) = Len(s.idleWorkers) - 1
      /\ Distinct(Tail(s.idleWorkers))
      /\ Elems(Tail(s.idleWorkers)) = Elems(s.idleWorkers) \ {w}
  BY FieldTypes, PopFrontDeque DEF StateInv, IdleInv
<1>2. /\ j \in JobIds /\ j \in Elems(s.pendingJobs)
      /\ Tail(s.pendingJobs) \in Seq(JobIds)
      /\ Distinct(Tail(s.pendingJobs))
      /\ Elems(Tail(s.pendingJobs)) = Elems(s.pendingJobs) \ {j}
  BY FieldTypes, PopFrontDeque DEF StateInv, PendingInv
<1>3. s.status[w] = "Idle" /\ s.currentlyProcessing[w] = None
  BY <1>1 DEF StateInv, IdleInv, BusyInv
<1>4. /\ j \in s.allJobList /\ s.assignedWorker[j] = None
      /\ j \notin s.wipJobs /\ j \notin s.maybeErroredJobs
  BY <1>2, NoneIsNoValue DEF StateInv, PendingInv, WipInv, ErroredInv
<1>5. t = ScheduleJobOnWorker(a, w, j)
  BY <1>4 DEF ScheduleNextPendingJob, Enforce
<1> HIDE DEF t, w, j
<1>6. /\ a \in SchedulerStates /\ a.enforce = "holds"
      /\ a.status = s.status /\ a.currentlyProcessing = s.currentlyProcessing
      /\ a.startTime = s.startTime /\ a.clock = s.clock
      /\ a.idleWorkers = Tail(s.idleWorkers)
      /\ a.stoppedWorkers = s.stoppedWorkers
      /\ a.allJobList = s.allJobList /\ a.assignedWorker = s.assignedWorker
      /\ a.pendingJobs = Tail(s.pendingJobs)
      /\ a.wipJobs = s.wipJobs \cup {j}
      /\ a.maybeErroredJobs = s.maybeErroredJobs
  BY <1>1, <1>2 DEF SchedulerStates
<1> HIDE DEF a
<1>7. /\ t \in SchedulerStates /\ t.enforce = "holds"
      /\ t.status = [s.status EXCEPT ![w] = "Busy"]
      /\ t.currentlyProcessing = [s.currentlyProcessing EXCEPT ![w] = j]
      /\ t.startTime = [s.startTime EXCEPT ![w] = s.clock]
      /\ t.clock = s.clock + 1
      /\ t.idleWorkers = Tail(s.idleWorkers)
      /\ t.stoppedWorkers = s.stoppedWorkers
      /\ t.allJobList = s.allJobList
      /\ t.assignedWorker = [s.assignedWorker EXCEPT ![j] = w]
      /\ t.pendingJobs = Tail(s.pendingJobs)
      /\ t.wipJobs = s.wipJobs \cup {j}
      /\ t.maybeErroredJobs = s.maybeErroredJobs
  <2>1. CanSchedule(a, w, j)
    BY <1>1, <1>3, <1>4, <1>6 DEF CanSchedule
  <2>2. IsScheduled(a, t, w, j)
    BY <1>1, <1>2, <1>5, <1>6, <2>1, ScheduleJobOnWorkerEffect
  <2> QED BY <1>6, <2>2 DEF IsScheduled
<1>8. StateInv(t)
  <2>1. t.allJobList = s.allJobList \cup {j}
    BY <1>4, <1>7
  <2>2. Acquires(s, t, w, j)
    BY <1>1, <1>2, <1>3, <1>4, <1>7, <2>1 DEF Acquires
  <2> QED BY <1>1, <1>2, <1>7, <2>2, AcquireKeepsInv
<1>9. t.currentlyProcessing[w] = j
  BY <1>1, <1>7, FieldTypes
<1> QED BY <1>1, <1>2, <1>7, <1>8, <1>9 DEF t, w, j, Processes, IsAssigned

(* markCompleted for the job that the worker is processing.                *)
LEMMA MarkCompletedKeepsInv ==
    ASSUME NEW s \in SchedulerStates, StateInv(s), s.enforce = "holds",
           NEW w \in Workers, NEW j \in JobIds, IsCurrentJob(s, w, j)
    PROVE  LET t == MarkCompleted(s, w, j, JobKind(j)) IN
           /\ t \in SchedulerStates /\ StateInv(t) /\ t.enforce = "holds"
           /\ t.idleWorkers # <<>> /\ Head(t.idleWorkers) = w
           /\ Processes(s, t, w, None)
           /\ t.assignedWorker = s.assignedWorker
           /\ t.stoppedWorkers = s.stoppedWorkers
           /\ t.allJobList = s.allJobList
           /\ t.pendingJobs = s.pendingJobs
           /\ t.wipJobs = s.wipJobs \ {j}
           /\ t.maybeErroredJobs = s.maybeErroredJobs
<1> DEFINE t == MarkCompleted(s, w, j, JobKind(j))
           m == MarkWorkerIdle(s, w)
<1>1. s.currentlyProcessing[w] = j /\ j # None
  BY NoneIsNoValue DEF IsCurrentJob
<1>2. /\ s.status[w] = "Busy" /\ j \in s.wipJobs /\ s.assignedWorker[j] = w
      /\ j \in s.allJobList /\ w \notin Elems(s.idleWorkers)
      /\ j \notin s.maybeErroredJobs
  BY <1>1 DEF StateInv, BusyInv, WipInv, IdleInv, ErroredInv
<1>3. t = [m EXCEPT !.wipJobs = m.wipJobs \ {j}]
  BY <1>2 DEF MarkCompleted, CheckAssignedWorker, Enforce
<1>4. /\ m \in SchedulerStates /\ m.enforce = s.enforce
      /\ m.status = [s.status EXCEPT ![w] = "Idle"]
      /\ m.currentlyProcessing = [s.currentlyProcessing EXCEPT ![w] = None]
      /\ m.startTime = s.startTime /\ m.clock = s.clock
      /\ m.idleWorkers = <<w>> \o s.idleWorkers
      /\ m.stoppedWorkers = s.stoppedWorkers
      /\ m.allJobList = s.allJobList
      /\ m.assignedWorker = s.assignedWorker
      /\ m.pendingJobs = s.pendingJobs
      /\ m.wipJobs = s.wipJobs
      /\ m.maybeErroredJobs = s.maybeErroredJobs
  BY <1>1, <1>2, MarkWorkerIdleEffect DEF IsMarkedIdle
<1> HIDE DEF t, m
<1>5. /\ t \in SchedulerStates /\ t.enforce = "holds"
      /\ t.status = [s.status EXCEPT ![w] = "Idle"]
      /\ t.currentlyProcessing = [s.currentlyProcessing EXCEPT ![w] = None]
      /\ t.startTime = s.startTime /\ t.clock = s.clock
      /\ t.idleWorkers = <<w>> \o s.idleWorkers
      /\ t.stoppedWorkers = s.stoppedWorkers
      /\ t.allJobList = s.allJobList
      /\ t.assignedWorker = s.assignedWorker
      /\ t.pendingJobs = s.pendingJobs
      /\ t.wipJobs = s.wipJobs \ {j}
      /\ t.maybeErroredJobs = s.maybeErroredJobs
  BY <1>3, <1>4 DEF SchedulerStates
<1>6. /\ Len(t.idleWorkers) = Len(s.idleWorkers) + 1 /\ Distinct(t.idleWorkers)
      /\ Elems(t.idleWorkers) = Elems(s.idleWorkers) \cup {w}
      /\ t.idleWorkers # <<>> /\ Head(t.idleWorkers) = w
  BY <1>2, <1>5, FieldTypes, PushFrontDeque DEF StateInv, IdleInv
<1>7. StateInv(t)
  <2>1. Releases(s, t, w, j)
    BY <1>1, <1>5, <1>6 DEF Releases
  <2> QED BY <1>5, <2>1, ReleaseKeepsInv
<1> QED BY <1>5, <1>6, <1>7 DEF t, Processes

(* markCompleted for a job whose worker was terminated.                    *)
LEMMA LateResultKeepsInv ==
    ASSUME NEW s \in SchedulerStates, StateInv(s), s.enforce = "holds",
           NEW w \in Workers, NEW j \in JobIds, ~ IsCurrentJob(s, w, j),
           j \in s.maybeErroredJobs, s.assignedWorker[j] = w
    PROVE  LET t == MarkCompleted(s, w, j, JobKind(j)) IN
           /\ t \in SchedulerStates /\ StateInv(t) /\ t.enforce = "holds"
           /\ t = [s EXCEPT !.maybeErroredJobs = s.maybeErroredJobs \ {j}]
<1> DEFINE t == [s EXCEPT !.maybeErroredJobs = s.maybeErroredJobs \ {j}]
<1>1. j \in s.allJobList
  BY DEF StateInv, ErroredInv
<1>2. MarkCompleted(s, w, j, JobKind(j)) = t
  BY <1>1 DEF MarkCompleted, CheckAssignedWorker, Enforce
<1>3. /\ t \in SchedulerStates /\ t.enforce = "holds"
      /\ t.status = s.status /\ t.currentlyProcessing = s.currentlyProcessing
      /\ t.startTime = s.startTime /\ t.clock = s.clock
      /\ t.idleWorkers = s.idleWorkers /\ t.stoppedWorkers = s.stoppedWorkers
      /\ t.allJobList = s.allJobList /\ t.assignedWorker = s.assignedWorker
      /\ t.pendingJobs = s.pendingJobs /\ t.wipJobs = s.wipJobs
      /\ t.maybeErroredJobs = s.maybeErroredJobs \ {j}
  BY DEF SchedulerStates
<1> HIDE DEF t
<1>4. IdleInv(t) /\ StoppedInv(t) /\ BusyInv(t) /\ WipInv(t) /\ PendingInv(t)
  BY <1>3 DEF StateInv, IdleInv, StoppedInv, BusyInv, WipInv, PendingInv
<1>5. ErroredInv(t) /\ KnownInv(t)
  BY <1>3 DEF StateInv, ErroredInv, KnownInv
<1>6. IsFiniteSet(t.wipJobs) /\ CountsAddUp(t)
  BY <1>3 DEF StateInv, CountsAddUp
<1> QED BY <1>2, <1>3, <1>4, <1>5, <1>6 DEF StateInv, t

(* createSubtaskAndScheduleOnWorker after markCompleted of an analysis:    *)
(* the worker is at the front of the idle workers and the task has no      *)
(* emission yet.                                                           *)
LEMMA CreateSubtaskKeepsInv ==
    ASSUME NEW s \in SchedulerStates, StateInv(s), s.enforce = "holds",
           NEW w \in Workers, NEW k \in Tasks,
           s.idleWorkers # <<>>, Head(s.idleWorkers) = w,
           <<k, 0>> \in s.allJobList, <<k, 0>> \notin s.wipJobs,
           <<k, 0>> \notin s.maybeErroredJobs,
           <<k, 0>> \notin Elems(s.pendingJobs), <<k, 1>> \notin s.allJobList
    PROVE  LET t == CreateSubtaskAndScheduleOnWorker(s, w, <<k, 0>>) IN
           /\ t \in SchedulerStates /\ StateInv(t) /\ t.enforce = "holds"
           /\ t.currentlyProcessing[w] = <<k, 1>>
           /\ Processes(s, t, w, <<k, 1>>)
           /\ IsAssigned(s, t, w, <<k, 1>>)
           /\ t.pendingJobs = s.pendingJobs
           /\ t.stoppedWorkers = s.stoppedWorkers
           /\ t.allJobList = s.allJobList \cup {<<k, 1>>}
           /\ t.wipJobs = s.wipJobs \cup {<<k, 1>>}
           /\ t.maybeErroredJobs = s.maybeErroredJobs
<1> DEFINE j == <<k, 1>>
           t == CreateSubtaskAndScheduleOnWorker(s, w, <<k, 0>>)
           a == [s EXCEPT !.allJobList = s.allJobList \cup {j},
                          !.wipJobs = s.wipJobs \cup {j},
                          !.idleWorkers = Tail(s.idleWorkers)]
<1>0. j \in JobIds /\ j[1] = k /\ j[2] = 1 /\ NextSubtask(<<k, 0>>) = j
  BY DEF JobIds, NextSubtask
<1>1. /\ w \in Elems(s.idleWorkers)
      /\ Tail(s.idleWorkers) \in Seq(Workers)
      /\ Len(Tail(s.idleWorkers)) = Len(s.idleWorkers) - 1
      /\ Distinct(Tail(s.idleWorkers))
      /\ Elems(Tail(s.idleWorkers)) = Elems(s.idleWorkers) \ {w}
  BY FieldTypes, PopFrontDeque DEF StateInv, IdleInv
<1>2. s.status[w] = "Idle" /\ s.currentlyProcessing[w] = None
  BY <1>1 DEF StateInv, IdleInv, BusyInv
<1>3. /\ s.assignedWorker[j] = None
      /\ j \notin s.wipJobs /\ j \notin s.maybeErroredJobs
      /\ j \notin Elems(s.pendingJobs) /\ Distinct(s.pendingJobs)
  BY <1>0 DEF StateInv, KnownInv, WipInv, ErroredInv, PendingInv
<1>4. t = ScheduleJobOnWorker(a, w, j)
  BY <1>0 DEF CreateSubtaskAndScheduleOnWorker, Enforce, PopFront
<1> HIDE DEF t, j
<1>5. /\ a \in SchedulerStates /\ a.enforce = "holds"
      /\ a.status = s.status /\ a.currentlyProcessing = s.currentlyProcessing
      /\ a.startTime = s.startTime /\ a.clock = s.clock
      /\ a.idleWorkers = Tail(s.idleWorkers)
      /\ a.stoppedWorkers = s.stoppedWorkers
      /\ a.allJobList = s.allJobList \cup {j} /\ a.assignedWorker = s.assignedWorker
      /\ a.pendingJobs = s.pendingJobs
      /\ a.wipJobs = s.wipJobs \cup {j}
      /\ a.maybeErroredJobs = s.maybeErroredJobs
  BY <1>0, <1>1 DEF SchedulerStates
<1> HIDE DEF a
<1>6. IsScheduled(a, t, w, j)
  <2>1. CanSchedule(a, w, j)
    BY <1>1, <1>2, <1>3, <1>5 DEF CanSchedule
  <2> QED BY <1>0, <1>4, <1>5, <2>1, ScheduleJobOnWorkerEffect
<1>7. /\ t \in SchedulerStates /\ t.enforce = "holds"
      /\ t.currentlyProcessing = [s.currentlyProcessing EXCEPT ![w] = j]
      /\ t.assignedWorker = [s.assignedWorker EXCEPT ![j] = w]
      /\ t.pendingJobs = s.pendingJobs /\ t.stoppedWorkers = s.stoppedWorkers
      /\ t.allJobList = s.allJobList \cup {j}
      /\ t.wipJobs = s.wipJobs \cup {j}
      /\ t.maybeErroredJobs = s.maybeErroredJobs
  BY <1>5, <1>6 DEF IsScheduled
<1>8. Acquires(s, t, w, j)
  <2>1. Elems(s.pendingJobs) = Elems(s.pendingJobs) \ {j}
    BY <1>3
  <2> QED BY <1>0, <1>1, <1>2, <1>3, <1>5, <1>6, <2>1 DEF IsScheduled, Acquires
<1>9. StateInv(t)
  BY <1>0, <1>7, <1>8, AcquireKeepsInv
<1>10. t.currentlyProcessing[w] = j
  BY <1>0, <1>7, FieldTypes
<1> QED BY <1>7, <1>9, <1>10 DEF t, j, Processes, IsAssigned

(* descheduleJobDueToSendError for the job just scheduled.                 *)
LEMMA DescheduleKeepsInv ==
    ASSUME NEW s \in SchedulerStates, StateInv(s), s.enforce = "holds",
           NEW w \in Workers, NEW j \in JobIds, s.currentlyProcessing[w] = j
    PROVE  LET t == DescheduleJobDueToSendError(s, w, j) IN
           /\ t \in SchedulerStates /\ StateInv(t) /\ t.enforce = "holds"
           /\ t.currentlyProcessing[w] = None
           /\ Processes(s, t, w, None)
           /\ t.assignedWorker = s.assignedWorker
           /\ t.stoppedWorkers = s.stoppedWorkers
           /\ t.allJobList = s.allJobList
           /\ t.pendingJobs = s.pendingJobs
           /\ t.wipJobs = s.wipJobs \ {j}
           /\ t.maybeErroredJobs = s.maybeErroredJobs
<1> DEFINE t == DescheduleJobDueToSendError(s, w, j)
           m == MarkWorkerIdle(s, w)
<1>1. /\ s.status[w] = "Busy" /\ j \in s.wipJobs /\ s.assignedWorker[j] = w
      /\ j \in s.allJobList /\ w \notin Elems(s.idleWorkers) /\ j # None
  BY NoneIsNoValue DEF StateInv, BusyInv, WipInv, IdleInv
<1>2. t = [m EXCEPT !.wipJobs = m.wipJobs \ {j}]
  BY <1>1 DEF DescheduleJobDueToSendError, CheckAssignedWorker, Enforce
<1>3. IsMarkedIdle(s, m, w)
  BY <1>1, MarkWorkerIdleEffect
<1> HIDE DEF t, m
<1>4. /\ t \in SchedulerStates /\ t.enforce = "holds"
      /\ t.status = [s.status EXCEPT ![w] = "Idle"]
      /\ t.currentlyProcessing = [s.currentlyProcessing EXCEPT ![w] = None]
      /\ t.startTime = s.startTime /\ t.clock = s.clock
      /\ t.idleWorkers = <<w>> \o s.idleWorkers
      /\ t.stoppedWorkers = s.stoppedWorkers
      /\ t.allJobList = s.allJobList
      /\ t.assignedWorker = s.assignedWorker
      /\ t.pendingJobs = s.pendingJobs
      /\ t.wipJobs = s.wipJobs \ {j}
      /\ t.maybeErroredJobs = s.maybeErroredJobs
  BY <1>2, <1>3 DEF IsMarkedIdle, SchedulerStates
<1>5. /\ Len(t.idleWorkers) = Len(s.idleWorkers) + 1 /\ Distinct(t.idleWorkers)
      /\ Elems(t.idleWorkers) = Elems(s.idleWorkers) \cup {w}
  BY <1>1, <1>4, FieldTypes, PushFrontDeque DEF StateInv, IdleInv
<1>6. Releases(s, t, w, j)
  BY <1>4, <1>5 DEF Releases
<1>7. StateInv(t)
  BY <1>4, <1>6, ReleaseKeepsInv
<1>8. t.currentlyProcessing[w] = None
  BY <1>4, FieldTypes
<1> QED BY <1>4, <1>7, <1>8 DEF t, Processes

(* From s to t, the driver gives up on the job of worker w.                *)
GivesUp(s, t, w) ==
    /\ s.currentlyProcessing[w] \in s.wipJobs
    /\ t.currentlyProcessing = [s.currentlyProcessing EXCEPT ![w] = None]
    /\ t.assignedWorker = s.assignedWorker
    /\ t.allJobList = s.allJobList
    /\ t.pendingJobs = s.pendingJobs
    /\ t.wipJobs = s.wipJobs \ {s.currentlyProcessing[w]}
    /\ t.maybeErroredJobs = s.maybeErroredJobs \cup {s.currentlyProcessing[w]}

(* terminateRunningWorker on a busy worker: the driver gives up on its job *)
(* and the new process is idle.                                            *)
LEMMA TerminateKeepsInv ==
    ASSUME NEW s \in SchedulerStates, StateInv(s), s.enforce = "holds",
           NEW w \in Workers, s.status[w] = "Busy"
    PROVE  LET t == TerminateRunningWorker(s, w) IN
           /\ t \in SchedulerStates /\ StateInv(t) /\ t.enforce = "holds"
           /\ t.status = [s.status EXCEPT ![w] = "Idle"]
           /\ \A v \in Workers : v # w => t.startTime[v] = s.startTime[v]
           /\ t.clock = s.clock
           /\ t.stoppedWorkers = s.stoppedWorkers
           /\ t.allJobList = s.allJobList
           /\ t.pendingJobs = s.pendingJobs
           /\ GivesUp(s, t, w)
<1> DEFINE t == TerminateRunningWorker(s, w)
           j == s.currentlyProcessing[w]
           status == [s.status EXCEPT ![w] = "Idle"]
           current == [s.currentlyProcessing EXCEPT ![w] = None]
           start == [s.startTime EXCEPT ![w] = 0]
           idle == Append(s.idleWorkers, w)
           u == [s EXCEPT !.wipJobs = s.wipJobs \ {j},
                          !.maybeErroredJobs = s.maybeErroredJobs \cup {j},
                          !.status = status,
                          !.currentlyProcessing = current,
                          !.startTime = start,
                          !.idleWorkers = idle]
<1>1. /\ j # None /\ j \in JobIds /\ j \in s.wipJobs /\ s.assignedWorker[j] = w
      /\ w \notin Elems(s.idleWorkers)
  <2>1. j # None /\ w \notin Elems(s.idleWorkers)
    BY DEF StateInv, BusyInv, IdleInv
  <2> QED BY <2>1, FieldTypes DEF StateInv, WipInv
<1>2. t = CheckInvariants(u)
  BY <1>1 DEF TerminateRunningWorker, Enforce, SchedulerStates
<1>3. /\ status \in [Workers -> {"Idle", "Busy", "Stopped"}]
      /\ current \in [Workers -> JobIds \cup {None}]
      /\ start \in [Workers -> Nat] /\ idle \in Seq(Workers)
      /\ \A v \in Workers : v # w => start[v] = s.startTime[v]
  BY FieldTypes
<1>4. /\ Len(idle) = Len(s.idleWorkers) + 1 /\ Distinct(idle)
      /\ Elems(idle) = Elems(s.idleWorkers) \cup {w}
  BY <1>1, FieldTypes, PushBackDeque DEF StateInv, IdleInv
<1> HIDE DEF t, status, current, start, idle, j
<1>5. /\ u \in SchedulerStates /\ u.enforce = "holds"
      /\ u.status = status /\ u.currentlyProcessing = current
      /\ u.startTime = start /\ u.clock = s.clock
      /\ u.idleWorkers = idle /\ u.stoppedWorkers = s.stoppedWorkers
      /\ u.allJobList = s.allJobList /\ u.assignedWorker = s.assignedWorker
      /\ u.pendingJobs = s.pendingJobs /\ u.wipJobs = s.wipJobs \ {j}
      /\ u.maybeErroredJobs = s.maybeErroredJobs \cup {j}
  BY <1>1, <1>3 DEF SchedulerStates
<1> HIDE DEF u
<1>6. Releases(s, u, w, j)
  BY <1>3, <1>4, <1>5 DEF Releases, j, status, current
<1>7. StateInv(u)
  BY <1>1, <1>5, <1>6, ReleaseKeepsInv
<1>8. t = u
  BY <1>2, <1>7 DEF CheckInvariants, Enforce, StateInv
<1>9. GivesUp(s, u, w)
  BY <1>1, <1>5 DEF GivesUp, current, j
<1> QED BY <1>3, <1>5, <1>7, <1>8, <1>9 DEF t, status

(* One round of shutdownIdleWorkers.                                       *)
LEMMA StopNextIdleWorkerKeepsInv ==
    ASSUME NEW s \in SchedulerStates, StateInv(s), s.enforce = "holds",
           s.idleWorkers # <<>>
    PROVE  LET t == StopNextIdleWorker(s) IN
           /\ t \in SchedulerStates /\ StateInv(t) /\ t.enforce = "holds"
           /\ NextWorkerToStop(s) \in Workers
           /\ s.currentlyProcessing[NextWorkerToStop(s)] = None
           /\ t.currentlyProcessing = s.currentlyProcessing
           /\ t.assignedWorker = s.assignedWorker
           /\ t.allJobList = s.allJobList
           /\ t.pendingJobs = s.pendingJobs
           /\ t.wipJobs = s.wipJobs
           /\ t.maybeErroredJobs = s.maybeErroredJobs
<1> DEFINE t == StopNextIdleWorker(s)
           w == NextWorkerToStop(s)
           idle == PopBack(s.idleWorkers)
           status == [s.status EXCEPT ![w] = "Stopped"]
           stopped == Append(s.stoppedWorkers, w)
           u == [s EXCEPT !.idleWorkers = idle, !.status = status,
                          !.stoppedWorkers = stopped]
<1>1. /\ w \in Workers /\ w \in Elems(s.idleWorkers)
      /\ idle \in Seq(Workers) /\ Len(idle) = Len(s.idleWorkers) - 1
      /\ Len(s.idleWorkers) \in Nat
      /\ Distinct(idle) /\ Elems(idle) = Elems(s.idleWorkers) \ {w}
  BY FieldTypes, PopBackDeque DEF StateInv, IdleInv, NextWorkerToStop
<1>2. /\ s.status[w] = "Idle" /\ s.currentlyProcessing[w] = None
      /\ w \notin Elems(s.stoppedWorkers)
  BY <1>1 DEF StateInv, IdleInv, BusyInv, StoppedInv
<1>3. t = u
  BY <1>2 DEF StopNextIdleWorker, MarkWorkerStopped, Enforce, SchedulerStates
<1>4. status \in [Workers -> {"Idle", "Busy", "Stopped"}]
  BY FieldTypes
<1>5. /\ stopped \in Seq(Workers) /\ Len(stopped) = Len(s.stoppedWorkers) + 1
      /\ Distinct(stopped) /\ Elems(stopped) = Elems(s.stoppedWorkers) \cup {w}
      /\ Len(s.stoppedWorkers) \in Nat
  BY <1>1, <1>2, FieldTypes, PushBackDeque DEF StateInv, StoppedInv
<1> HIDE DEF t, w, idle, status, stopped
<1>6. /\ u \in SchedulerStates /\ u.enforce = "holds"
      /\ u.status = status /\ u.currentlyProcessing = s.currentlyProcessing
      /\ u.startTime = s.startTime /\ u.clock = s.clock
      /\ u.idleWorkers = idle /\ u.stoppedWorkers = stopped
      /\ u.allJobList = s.allJobList /\ u.assignedWorker = s.assignedWorker
      /\ u.pendingJobs = s.pendingJobs /\ u.wipJobs = s.wipJobs
      /\ u.maybeErroredJobs = s.maybeErroredJobs
  BY <1>1, <1>4, <1>5 DEF SchedulerStates
<1> HIDE DEF u
<1>7. u.status = [s.status EXCEPT ![w] = "Stopped"]
  BY <1>6 DEF status
<1>8. IdleInv(u)
  BY <1>1, <1>6, <1>7, FieldTypes DEF StateInv, IdleInv
<1>9. StoppedInv(u)
  BY <1>1, <1>5, <1>6, <1>7, FieldTypes DEF StateInv, StoppedInv
<1>10. BusyInv(u)
  BY <1>1, <1>2, <1>6, <1>7, FieldTypes DEF StateInv, BusyInv
<1>11. WipInv(u) /\ PendingInv(u) /\ ErroredInv(u) /\ KnownInv(u)
  BY <1>6 DEF StateInv, WipInv, PendingInv, ErroredInv, KnownInv
<1>12. IsFiniteSet(u.wipJobs) /\ CountsAddUp(u)
  <2>1. IsFiniteSet(s.wipJobs) /\ Cardinality(s.wipJobs) \in Nat
    BY FS_CardinalityType DEF StateInv
  <2>2. Cardinality(s.wipJobs) + Len(s.idleWorkers) + Len(s.stoppedWorkers) = NumWorkers
    BY DEF StateInv, CountsAddUp
  <2>3. Cardinality(s.wipJobs) + Len(idle) + Len(stopped) = NumWorkers
    <3>1. /\ Len(idle) = Len(s.idleWorkers) - 1 /\ Len(s.idleWorkers) \in Nat
          /\ Len(stopped) = Len(s.stoppedWorkers) + 1 /\ Len(s.stoppedWorkers) \in Nat
          /\ Cardinality(s.wipJobs) \in Nat
      BY <1>1, <1>5, <2>1
    <3> QED BY ONLY <2>2, <3>1, NumWorkersAssumption
  <2> QED BY <1>6, <2>1, <2>3 DEF CountsAddUp
<1> QED BY <1>1, <1>2, <1>3, <1>6, <1>8, <1>9, <1>10, <1>11, <1>12 DEF StateInv, t, w

(* The batch of one refill: commands in the order of the database.         *)
IsBatch(batch, first) ==
    /\ batch \in Seq(Tasks)
    /\ \A i \in DOMAIN batch : batch[i] >= first
    /\ \A i, k \in DOMAIN batch : i < k => batch[i] < batch[k]

(* The jobs that a batch is queued as: analyses, none of them twice.       *)
LEMMA BatchJobs ==
    ASSUME NEW first \in Nat, NEW batch, IsBatch(batch, first)
    PROVE  LET jobs == [i \in DOMAIN batch |-> NewTask(batch[i])] IN
           /\ jobs \in Seq(JobIds) /\ Len(jobs) = Len(batch)
           /\ Distinct(batch) /\ Distinct(jobs)
           /\ \A j \in Elems(jobs) : j[1] \in Tasks /\ j[1] >= first /\ j[2] = 0
           /\ \A j \in Elems(jobs) : \E i \in DOMAIN batch : j = <<batch[i], 0>>
<1> DEFINE jobs == [i \in DOMAIN batch |-> NewTask(batch[i])]
<1>1. /\ batch \in Seq(Tasks) /\ DOMAIN batch = 1 .. Len(batch) /\ Len(batch) \in Nat
      /\ \A i \in 1 .. Len(batch) : batch[i] \in Tasks /\ batch[i] \in Nat /\ batch[i] >= first
  BY NumCommandsAssumption DEF IsBatch, Tasks
<1>2. \A i \in 1 .. Len(batch) : jobs[i] = <<batch[i], 0>> /\ jobs[i] \in JobIds
  BY <1>1 DEF NewTask, JobIds
<1>3. jobs \in Seq(JobIds) /\ Len(jobs) = Len(batch) /\ DOMAIN jobs = 1 .. Len(batch)
  BY <1>1, <1>2
<1>4. Distinct(batch)
  <2> SUFFICES ASSUME NEW i \in 1 .. Len(batch), NEW k \in 1 .. Len(batch), batch[i] = batch[k]
               PROVE  i = k
    BY <1>1 DEF Distinct
  <2>1. ~ (i < k) /\ ~ (k < i)
    BY <1>1 DEF IsBatch
  <2> QED BY <1>1, <2>1
<1> HIDE DEF jobs
<1>5. Distinct(jobs)
  <2> SUFFICES ASSUME NEW i \in 1 .. Len(batch), NEW k \in 1 .. Len(batch), jobs[i] = jobs[k]
               PROVE  i = k
    BY <1>3 DEF Distinct
  <2>1. batch[i] = batch[k]
    BY <1>2
  <2> QED BY <1>1, <1>4, <2>1 DEF Distinct
<1>6. \A j \in Elems(jobs) : \E i \in DOMAIN batch : j = <<batch[i], 0>>
  BY <1>1, <1>2, <1>3 DEF Elems
<1>7. \A j \in Elems(jobs) : j[1] \in Tasks /\ j[1] >= first /\ j[2] = 0
  BY <1>1, <1>6
<1> QED BY <1>3, <1>4, <1>5, <1>6, <1>7 DEF jobs

(* Appending one deque to another.                                         *)
LEMMA ConcatDeque ==
    ASSUME NEW S, NEW p \in Seq(S), NEW q \in Seq(S)
    PROVE  /\ p \o q \in Seq(S) /\ Len(p \o q) = Len(p) + Len(q)
           /\ Elems(p \o q) = Elems(p) \cup Elems(q)
           /\ Distinct(p) /\ Distinct(q) /\ Elems(p) \cap Elems(q) = {}
                 => Distinct(p \o q)
<1> DEFINE r == p \o q
<1>1. /\ r \in Seq(S) /\ Len(r) = Len(p) + Len(q)
      /\ DOMAIN r = 1 .. (Len(p) + Len(q)) /\ Len(p) \in Nat /\ Len(q) \in Nat
      /\ DOMAIN p = 1 .. Len(p) /\ DOMAIN q = 1 .. Len(q)
  OBVIOUS
<1>2. /\ \A i \in 1 .. Len(p) : r[i] = p[i]
      /\ \A i \in (Len(p) + 1) .. (Len(p) + Len(q)) : r[i] = q[i - Len(p)]
  OBVIOUS
<1>3. \A i \in (Len(p) + 1) .. (Len(p) + Len(q)) : i - Len(p) \in 1 .. Len(q)
  BY <1>1
<1>4. \A i \in 1 .. Len(q) : /\ i + Len(p) \in (Len(p) + 1) .. (Len(p) + Len(q))
                             /\ (i + Len(p)) - Len(p) = i
  BY <1>1
<1>5. Elems(r) = Elems(p) \cup Elems(q)
  <2>1. \A x \in Elems(r) : x \in Elems(p) \cup Elems(q)
    <3> SUFFICES ASSUME NEW i \in 1 .. (Len(p) + Len(q)) PROVE r[i] \in Elems(p) \cup Elems(q)
      BY <1>1 DEF Elems
    <3>1. CASE i \in 1 .. Len(p)
      BY <1>1, <1>2, <3>1 DEF Elems
    <3>2. CASE i \in (Len(p) + 1) .. (Len(p) + Len(q))
      BY <1>1, <1>2, <1>3, <3>2 DEF Elems
    <3> QED BY <1>1, <3>1, <3>2
  <2>2. \A i \in 1 .. Len(p) : i \in DOMAIN r
    BY <1>1
  <2>3. \A i \in 1 .. Len(q) : i + Len(p) \in DOMAIN r /\ r[i + Len(p)] = q[i]
    BY <1>1, <1>2, <1>4
  <2>4. \A x \in Elems(p) : x \in Elems(r)
    BY <1>1, <1>2, <2>2 DEF Elems
  <2>5. \A x \in Elems(q) : x \in Elems(r)
    BY <1>1, <2>3 DEF Elems
  <2> QED BY <2>1, <2>4, <2>5
<1>6. ASSUME Distinct(p), Distinct(q), Elems(p) \cap Elems(q) = {} PROVE Distinct(r)
  <2>1. \A i \in 1 .. Len(p), k \in 1 .. Len(q) : p[i] # q[k]
    BY <1>1, <1>6 DEF Elems
  <2> SUFFICES ASSUME NEW i \in 1 .. (Len(p) + Len(q)),
                      NEW k \in 1 .. (Len(p) + Len(q)), r[i] = r[k]
               PROVE  i = k
    BY <1>1 DEF Distinct
  <2>2. CASE i \in 1 .. Len(p) /\ k \in 1 .. Len(p)
    BY <1>1, <1>2, <1>6, <2>2 DEF Distinct
  <2>3. CASE i > Len(p) /\ k > Len(p)
    <3>1. /\ i - Len(p) \in 1 .. Len(q) /\ k - Len(p) \in 1 .. Len(q)
          /\ q[i - Len(p)] = q[k - Len(p)]
      BY <1>1, <1>2, <1>3, <2>3
    <3>2. i - Len(p) = k - Len(p)
      BY <1>1, <1>6, <3>1 DEF Distinct
    <3> QED BY <1>1, <3>2
  <2>4. CASE i \in 1 .. Len(p) /\ k > Len(p)
    BY <1>1, <1>2, <1>3, <2>1, <2>4
  <2>5. CASE k \in 1 .. Len(p) /\ i > Len(p)
    BY <1>1, <1>2, <1>3, <2>1, <2>5
  <2> QED BY <1>1, <2>2, <2>3, <2>4, <2>5
<1> QED BY <1>1, <1>5, <1>6

(* queueSemaTask for a batch of commands that were never queued before.    *)
LEMMA QueueSemaTasksKeepsInv ==
    ASSUME NEW s \in SchedulerStates, StateInv(s), s.enforce = "holds",
           NEW first \in Nat, NEW batch, IsBatch(batch, first),
           \A j \in s.allJobList : j[1] < first
    PROVE  LET t == QueueSemaTasks(s, batch)
               jobs == [i \in DOMAIN batch |-> NewTask(batch[i])] IN
           /\ t \in SchedulerStates /\ StateInv(t) /\ t.enforce = "holds"
           /\ t.pendingJobs = s.pendingJobs \o jobs
           /\ jobs \in Seq(JobIds) /\ Len(jobs) = Len(batch)
           /\ t.allJobList = s.allJobList \cup Elems(jobs)
           /\ \A j \in Elems(jobs) : j \in JobIds /\ j[2] = 0 /\ j \notin s.allJobList
           /\ t.currentlyProcessing = s.currentlyProcessing
           /\ t.assignedWorker = s.assignedWorker
           /\ t.wipJobs = s.wipJobs
           /\ t.maybeErroredJobs = s.maybeErroredJobs
           /\ t.stoppedWorkers = s.stoppedWorkers
<1> DEFINE t == QueueSemaTasks(s, batch)
           jobs == [i \in DOMAIN batch |-> NewTask(batch[i])]
           u == [s EXCEPT !.allJobList = s.allJobList \cup Elems(jobs),
                          !.pendingJobs = s.pendingJobs \o jobs]
<1>1. /\ jobs \in Seq(JobIds) /\ Len(jobs) = Len(batch)
      /\ Distinct(batch) /\ Distinct(jobs)
      /\ \A j \in Elems(jobs) : j[1] \in Tasks /\ j[1] >= first /\ j[2] = 0
      /\ \A j \in Elems(jobs) : \E i \in DOMAIN batch : j = <<batch[i], 0>>
  BY BatchJobs
<1>2. t = [Enforce(s, Elems(jobs) \cap s.allJobList = {} /\ Distinct(batch)) EXCEPT
              !.allJobList = @ \cup Elems(jobs), !.pendingJobs = @ \o jobs]
  BY DEF QueueSemaTasks
<1> HIDE DEF t, jobs
<1>3. Elems(jobs) \subseteq JobIds
  BY <1>1 DEF Elems
<1>4. \A j \in Elems(jobs) : j \notin s.allJobList
  <2> SUFFICES ASSUME NEW j \in Elems(jobs), j \in s.allJobList PROVE FALSE
    OBVIOUS
  <2>1. j[1] < first /\ j[1] >= first /\ j[1] \in Nat
    BY <1>1, NumCommandsAssumption DEF Tasks
  <2> QED BY <2>1
<1>5. t = u
  BY <1>1, <1>2, <1>4 DEF Enforce
<1>6. /\ s.pendingJobs \o jobs \in Seq(JobIds)
      /\ Elems(s.pendingJobs \o jobs) = Elems(s.pendingJobs) \cup Elems(jobs)
      /\ Distinct(s.pendingJobs \o jobs)
  <2>1. Elems(s.pendingJobs) \cap Elems(jobs) = {} /\ Distinct(s.pendingJobs)
    BY <1>4 DEF StateInv, PendingInv
  <2> QED BY <1>1, <2>1, FieldTypes, ConcatDeque
<1>7. /\ u \in SchedulerStates /\ u.enforce = "holds"
      /\ u.status = s.status /\ u.currentlyProcessing = s.currentlyProcessing
      /\ u.startTime = s.startTime /\ u.clock = s.clock
      /\ u.idleWorkers = s.idleWorkers /\ u.stoppedWorkers = s.stoppedWorkers
      /\ u.allJobList = s.allJobList \cup Elems(jobs)
      /\ u.assignedWorker = s.assignedWorker
      /\ u.pendingJobs = s.pendingJobs \o jobs /\ u.wipJobs = s.wipJobs
      /\ u.maybeErroredJobs = s.maybeErroredJobs
  BY <1>3, <1>6 DEF SchedulerStates
<1> HIDE DEF u
<1>8. IdleInv(u) /\ StoppedInv(u) /\ BusyInv(u)
  BY <1>7 DEF StateInv, IdleInv, StoppedInv, BusyInv
<1>9. WipInv(u) /\ ErroredInv(u)
  BY <1>7 DEF StateInv, WipInv, ErroredInv
<1>10. PendingInv(u)
  <2>1. \A j \in Elems(jobs) : s.assignedWorker[j] = None
    BY <1>3, <1>4 DEF StateInv, KnownInv
  <2> QED BY <1>1, <1>6, <1>7, <2>1 DEF StateInv, PendingInv
<1>11. KnownInv(u)
  <2>1. ASSUME NEW i \in JobIds, i \notin u.allJobList PROVE u.assignedWorker[i] = None
    BY <1>7, <2>1 DEF StateInv, KnownInv
  <2>2. ASSUME NEW k \in Tasks, <<k, 1>> \in u.allJobList
        PROVE  /\ <<k, 0>> \in u.allJobList
               /\ <<k, 0>> \notin u.wipJobs
               /\ <<k, 0>> \notin u.maybeErroredJobs
               /\ <<k, 0>> \notin Elems(u.pendingJobs)
    <3>1. <<k, 1>> \notin Elems(jobs)
      <4>1. <<k, 1>>[2] = 1
        OBVIOUS
      <4> QED BY <1>1, <4>1
    <3>2. /\ <<k, 0>> \in s.allJobList
          /\ <<k, 0>> \notin s.wipJobs
          /\ <<k, 0>> \notin s.maybeErroredJobs
          /\ <<k, 0>> \notin Elems(s.pendingJobs)
      BY <1>7, <2>2, <3>1 DEF StateInv, KnownInv
    <3>3. <<k, 0>> \notin Elems(jobs)
      BY <1>4, <3>2
    <3> QED BY <1>6, <1>7, <3>2, <3>3
  <2> QED BY <2>1, <2>2 DEF KnownInv
<1>12. IsFiniteSet(u.wipJobs) /\ CountsAddUp(u)
  BY <1>7 DEF StateInv, CountsAddUp
<1> QED BY <1>1, <1>3, <1>4, <1>5, <1>7, <1>8, <1>9, <1>10, <1>11, <1>12
       DEF StateInv, t, jobs

(* checkInvariants changes nothing while the counts add up.                *)
LEMMA CheckInvariantsPasses ==
    ASSUME NEW s, StateInv(s)
    PROVE  CheckInvariants(s) = s
BY DEF CheckInvariants, Enforce, StateInv

(* What a response of worker w to job j does to the jobs: it is late; or   *)
(* it settles j and w is idle; or w continues with the emission j; or the  *)
(* request for that emission did not fit into the queue.                   *)
IsLateAnswer(s, t, j) ==
    /\ t.currentlyProcessing = s.currentlyProcessing
    /\ t.assignedWorker = s.assignedWorker
    /\ t.allJobList = s.allJobList
    /\ t.wipJobs = s.wipJobs
    /\ t.maybeErroredJobs = s.maybeErroredJobs \ {j}

IsAnswer(s, t, w, j) ==
    /\ t.currentlyProcessing = [s.currentlyProcessing EXCEPT ![w] = None]
    /\ t.assignedWorker = s.assignedWorker
    /\ t.allJobList = s.allJobList
    /\ t.wipJobs = s.wipJobs \ {j}
    /\ t.maybeErroredJobs = s.maybeErroredJobs

StartsEmission(s, t, w, k) ==
    /\ t.currentlyProcessing = [s.currentlyProcessing EXCEPT ![w] = <<k, 1>>]
    /\ t.assignedWorker = [s.assignedWorker EXCEPT ![<<k, 1>>] = w]
    /\ t.allJobList = s.allJobList \cup {<<k, 1>>}
    /\ t.wipJobs = (s.wipJobs \ {<<k, 0>>}) \cup {<<k, 1>>}
    /\ t.maybeErroredJobs = s.maybeErroredJobs

LosesEmission(s, t, w, k) ==
    /\ t.currentlyProcessing = [s.currentlyProcessing EXCEPT ![w] = None]
    /\ t.assignedWorker = [s.assignedWorker EXCEPT ![<<k, 1>>] = w]
    /\ t.allJobList = s.allJobList \cup {<<k, 1>>}
    /\ t.wipJobs = s.wipJobs \ {<<k, 0>>}
    /\ t.maybeErroredJobs = s.maybeErroredJobs
    /\ t.enforce = "failed"

(* What processWorkerResponse does, by the kind of the response.           *)
IsProcessed(s, t, w, j, sent) ==
    /\ ~ IsCurrentJob(s, w, j) => IsLateAnswer(s, t, j)
    /\ IsCurrentJob(s, w, j) /\ JobKind(j) = EmitKind => IsAnswer(s, t, w, j)
    /\ IsCurrentJob(s, w, j) /\ JobKind(j) # EmitKind =>
          /\ <<j[1], 1>> \in JobIds /\ j = <<j[1], 0>> /\ NextSubtask(j) = <<j[1], 1>>
          /\ <<j[1], 1>> \notin s.allJobList
          /\ sent => StartsEmission(s, t, w, j[1])
          /\ ~ sent => LosesEmission(s, t, w, j[1])
    /\ t.pendingJobs = s.pendingJobs

(* processWorkerResponse for a response that keeps the contract.  Only an  *)
(* emission that does not fit into its queue makes an ENFORCE fail.        *)
LEMMA ProcessResponseKeepsInv ==
    ASSUME NEW s \in SchedulerStates, StateInv(s), s.enforce = "holds",
           NEW w \in Workers, NEW j \in JobIds, NEW sent \in BOOLEAN,
           s.assignedWorker[j] = w,
           IsCurrentJob(s, w, j) \/ j \in s.maybeErroredJobs
    PROVE  LET t == ProcessResponse(s, w, j, JobKind(j), sent) IN
           /\ t \in SchedulerStates
           /\ sent => t.enforce = "holds"
           /\ t.enforce = "holds" =>
                 /\ StateInv(t)
                 /\ t.pendingJobs = s.pendingJobs
                 /\ t.stoppedWorkers = s.stoppedWorkers
                 /\ \A i \in t.allJobList : i \in s.allJobList \/ i[1] = j[1]
           /\ j \in s.allJobList
           /\ IsProcessed(s, t, w, j, sent)
<1> DEFINE t == ProcessResponse(s, w, j, JobKind(j), sent)
           m == MarkCompleted(s, w, j, JobKind(j))
           c == CreateSubtaskAndScheduleOnWorker(m, w, j)
           d == DescheduleJobDueToSendError(c, w, NextSubtask(j))
<1>1. j \in s.allJobList
  BY NoneIsNoValue DEF StateInv, WipInv, ErroredInv, IsCurrentJob
<1>2. CASE ~ IsCurrentJob(s, w, j)
  <2>1. t = m
    BY <1>2 DEF ProcessResponse
  <2>2. /\ m \in SchedulerStates /\ StateInv(m) /\ m.enforce = "holds"
        /\ m = [s EXCEPT !.maybeErroredJobs = s.maybeErroredJobs \ {j}]
    BY <1>2, LateResultKeepsInv
  <2>3. /\ m.pendingJobs = s.pendingJobs /\ m.stoppedWorkers = s.stoppedWorkers
        /\ m.allJobList = s.allJobList /\ IsLateAnswer(s, m, j)
    BY <2>2 DEF SchedulerStates, IsLateAnswer
  <2>4. IsProcessed(s, m, w, j, sent)
    BY <1>2, <2>3 DEF IsProcessed
  <2> QED BY <1>1, <2>1, <2>2, <2>3, <2>4
<1>3. ASSUME IsCurrentJob(s, w, j)
      PROVE  /\ m \in SchedulerStates /\ StateInv(m) /\ m.enforce = "holds"
             /\ m.idleWorkers # <<>> /\ Head(m.idleWorkers) = w
             /\ m.stoppedWorkers = s.stoppedWorkers
             /\ m.pendingJobs = s.pendingJobs
             /\ IsAnswer(s, m, w, j)
  BY <1>3, MarkCompletedKeepsInv DEF IsAnswer, Processes
<1>4. CASE IsCurrentJob(s, w, j) /\ JobKind(j) = EmitKind
  <2>1. t = m
    BY <1>4 DEF ProcessResponse
  <2>2. IsProcessed(s, m, w, j, sent)
    BY <1>3, <1>4 DEF IsProcessed
  <2>3. m.allJobList = s.allJobList
    BY <1>3, <1>4 DEF IsAnswer
  <2> QED BY <1>1, <1>3, <1>4, <2>1, <2>2, <2>3
<1>5. CASE IsCurrentJob(s, w, j) /\ JobKind(j) # EmitKind
  <2>0. t = IF sent THEN c ELSE TerminateRunningWorker(d, w)
    BY <1>5 DEF ProcessResponse
  <2> HIDE DEF m, c, d, t
  <2>1. PICK k \in Tasks : j = <<k, 0>>
    BY <1>5 DEF JobKind, JobIds
  <2>2. NextSubtask(j) = <<k, 1>> /\ <<k, 1>> \in JobIds /\ j[1] = k
    BY <2>1 DEF NextSubtask, JobIds
  <2>3. /\ j \in s.wipJobs /\ j \notin s.maybeErroredJobs
        /\ j \notin Elems(s.pendingJobs) /\ <<k, 1>> \notin s.allJobList
        /\ <<k, 1>> \notin s.wipJobs
    <3>1. j \in s.wipJobs /\ s.assignedWorker[j] = w
      BY <1>5, NoneIsNoValue DEF StateInv, WipInv, IsCurrentJob
    <3>2. j \notin s.maybeErroredJobs /\ j \notin Elems(s.pendingJobs)
      BY <3>1, NoneIsNoValue DEF StateInv, ErroredInv, PendingInv
    <3>3. <<k, 1>> \notin s.allJobList
      BY <2>1, <3>1 DEF StateInv, KnownInv
    <3> QED BY <3>1, <3>2, <3>3 DEF StateInv, WipInv
  <2>4. /\ m \in SchedulerStates /\ StateInv(m) /\ m.enforce = "holds"
        /\ m.idleWorkers # <<>> /\ Head(m.idleWorkers) = w
        /\ m.stoppedWorkers = s.stoppedWorkers
        /\ m.pendingJobs = s.pendingJobs
        /\ IsAnswer(s, m, w, j)
    BY <1>3, <1>5
  <2>5. /\ c \in SchedulerStates /\ StateInv(c) /\ c.enforce = "holds"
        /\ c.currentlyProcessing[w] = <<k, 1>>
        /\ Processes(m, c, w, <<k, 1>>) /\ IsAssigned(m, c, w, <<k, 1>>)
        /\ c.pendingJobs = m.pendingJobs
        /\ c.stoppedWorkers = m.stoppedWorkers
        /\ c.allJobList = m.allJobList \cup {<<k, 1>>}
        /\ c.wipJobs = m.wipJobs \cup {<<k, 1>>}
        /\ c.maybeErroredJobs = m.maybeErroredJobs
    <3>1. /\ <<k, 0>> \in m.allJobList /\ <<k, 0>> \notin m.wipJobs
          /\ <<k, 0>> \notin m.maybeErroredJobs
          /\ <<k, 0>> \notin Elems(m.pendingJobs) /\ <<k, 1>> \notin m.allJobList
      BY <1>1, <2>1, <2>3, <2>4 DEF IsAnswer
    <3> QED BY <2>1, <2>4, <3>1, CreateSubtaskKeepsInv DEF c
  <2>6. c.currentlyProcessing = [s.currentlyProcessing EXCEPT ![w] = <<k, 1>>]
    BY <2>4, <2>5, FieldTypes DEF IsAnswer, Processes
  <2>7. StartsEmission(s, c, w, k) /\ c.pendingJobs = s.pendingJobs
    BY <2>1, <2>4, <2>5, <2>6 DEF IsAnswer, StartsEmission, IsAssigned
  <2>8. CASE sent
    <3>1. t = c
      BY <2>0, <2>8
    <3>2. \A i \in c.allJobList : i \in s.allJobList \/ i[1] = j[1]
      BY <2>2, <2>7 DEF StartsEmission
    <3>3. IsProcessed(s, c, w, j, sent)
      BY <1>5, <2>1, <2>2, <2>3, <2>7, <2>8 DEF IsProcessed
    <3> QED BY <1>1, <2>4, <2>5, <3>1, <3>2, <3>3 DEF t
  <2>9. CASE ~ sent
    <3>1. /\ d \in SchedulerStates /\ d.currentlyProcessing[w] = None
          /\ Processes(c, d, w, None)
          /\ d.assignedWorker = c.assignedWorker
          /\ d.allJobList = c.allJobList
          /\ d.pendingJobs = c.pendingJobs
          /\ d.wipJobs = c.wipJobs \ {<<k, 1>>}
          /\ d.maybeErroredJobs = c.maybeErroredJobs
      BY <2>2, <2>5, DescheduleKeepsInv DEF d
    <3>2. t = [d EXCEPT !.enforce = "failed"]
      BY <2>0, <2>9, <3>1 DEF TerminateRunningWorker
    <3>3. /\ t \in SchedulerStates /\ t.enforce = "failed"
          /\ t.currentlyProcessing = d.currentlyProcessing
          /\ t.assignedWorker = d.assignedWorker
          /\ t.allJobList = d.allJobList
          /\ t.pendingJobs = d.pendingJobs
          /\ t.wipJobs = d.wipJobs
          /\ t.maybeErroredJobs = d.maybeErroredJobs
      BY <3>1, <3>2 DEF SchedulerStates
    <3>4. t.currentlyProcessing = [s.currentlyProcessing EXCEPT ![w] = None]
      BY <2>6, <3>1, <3>3, FieldTypes DEF Processes
    <3>5. t.wipJobs = s.wipJobs \ {<<k, 0>>}
      BY <2>3, <2>7, <3>1, <3>3 DEF StartsEmission
    <3>6. LosesEmission(s, t, w, k) /\ t.pendingJobs = s.pendingJobs
      BY <2>7, <3>1, <3>3, <3>4, <3>5 DEF StartsEmission, LosesEmission
    <3>7. IsProcessed(s, t, w, j, sent)
      BY <1>5, <2>1, <2>2, <2>3, <2>9, <3>6 DEF IsProcessed
    <3> QED BY <1>1, <2>9, <3>3, <3>7 DEF t
  <2> QED BY <2>8, <2>9
<1> QED BY <1>2, <1>4, <1>5

------------------------------------------------------------------------------
(***************************************************************************)
(* The loop.  One lemma per action: it keeps the inductive invariant.      *)
(***************************************************************************)

(* initializeWorkers establishes the invariant.                            *)
LEMMA InitEstablishesInv == SchedInit => IndInv
<1> SUFFICES ASSUME SchedInit PROVE IndInv
  OBVIOUS
<1> DEFINE idle == [i \in 1 .. NumWorkers |-> i - 1]
<1>1. /\ idle \in Seq(Workers) /\ Len(idle) = NumWorkers
      /\ DOMAIN idle = 1 .. NumWorkers /\ NumWorkers \in Nat
  BY NumWorkersAssumption DEF Workers
<1>2. Distinct(idle) /\ Elems(idle) = Workers
  <2>1. Distinct(idle)
    BY <1>1 DEF Distinct
  <2>2. Elems(idle) \subseteq Workers
    BY <1>1 DEF Elems, Workers
  <2>3. \A w \in Workers : w + 1 \in DOMAIN idle /\ idle[w + 1] = w
    BY <1>1 DEF Workers
  <2>4. \A w \in Workers : w \in Elems(idle)
    BY <2>3 DEF Elems
  <2> QED BY <2>1, <2>2, <2>4
<1>3. InitialState.idleWorkers = idle
  BY DEF InitialState
<1>4. InitialState \in SchedulerStates
  <2> DEFINE status == [w \in Workers |-> "Idle"]
             current == [w \in Workers |-> None]
             start == [w \in Workers |-> 0]
             assigned == [j \in JobIds |-> None]
  <2>1. /\ status \in [Workers -> {"Idle", "Busy", "Stopped"}]
        /\ current \in [Workers -> JobIds \cup {None}]
        /\ start \in [Workers -> Nat]
        /\ assigned \in [JobIds -> Workers \cup {None}]
    OBVIOUS
  <2>2. InitialState =
          [status |-> status, currentlyProcessing |-> current, startTime |-> start,
           idleWorkers |-> idle, stoppedWorkers |-> <<>>, allJobList |-> {},
           assignedWorker |-> assigned, pendingJobs |-> <<>>, wipJobs |-> {},
           maybeErroredJobs |-> {}, clock |-> 0, enforce |-> "holds"]
    BY DEF InitialState
  <2>3. idle \in Seq(Workers)
    BY <1>1
  <2> HIDE DEF status, current, start, assigned, idle
  <2> QED BY <2>1, <2>2, <2>3 DEF SchedulerStates
<1> HIDE DEF idle
<1>5. Distinct(<<>>) /\ Elems(<<>>) = {}
  BY DEF Distinct, Elems
<1>6. IdleInv(InitialState) /\ StoppedInv(InitialState)
  BY <1>2, <1>3, <1>5 DEF InitialState, IdleInv, StoppedInv
<1>7. BusyInv(InitialState) /\ WipInv(InitialState)
  BY DEF InitialState, BusyInv, WipInv
<1>8. PendingInv(InitialState) /\ ErroredInv(InitialState) /\ KnownInv(InitialState)
  BY <1>5 DEF InitialState, PendingInv, ErroredInv, KnownInv
<1>9. IsFiniteSet(InitialState.wipJobs) /\ CountsAddUp(InitialState)
  <2>1. /\ InitialState.wipJobs = {} /\ InitialState.stoppedWorkers = <<>>
        /\ Len(InitialState.idleWorkers) = NumWorkers
    BY <1>1, <1>3 DEF InitialState
  <2>2. IsFiniteSet({}) /\ Cardinality({}) = 0
    BY FS_EmptySet
  <2> QED BY <1>1, <2>1, <2>2 DEF CountsAddUp
<1>10. StateInv(sched)
  BY <1>6, <1>7, <1>8, <1>9 DEF SchedInit, StateInv
<1>11. TypeOK /\ Running
  <2>1. 0 \in 0 .. NumCommands /\ 0 \in 0 .. NumWorkers
    BY NumCommandsAssumption, NumWorkersAssumption
  <2>2. InitialState.enforce = "holds"
    BY DEF InitialState
  <2> QED BY <1>4, <2>1, <2>2 DEF SchedInit, TypeOK, Phases, Running
<1>12. LoopInv
  <2>1. /\ sched.pendingJobs = <<>> /\ sched.stoppedWorkers = <<>>
        /\ sched.allJobList = {} /\ phase = "start"
    BY DEF SchedInit, InitialState
  <2> QED BY <2>1 DEF LoopInv, StoppedWorkersNotNeeded
<1> QED BY <1>10, <1>11, <1>12 DEF IndInv

(* What a batch that parseMore may return is.                              *)
LEMMA BatchesAreBatches ==
    ASSUME NEW n \in Nat, NEW batch \in Batches(n)
    PROVE  IsBatch(batch, n)
<1>1. RefillLimit \in Nat
  BY NumWorkersAssumption DEF RefillLimit
<1>2. PICK k \in 0 .. RefillLimit : batch \in [1 .. k -> Tasks]
  BY DEF Batches
<1>3. batch \in Seq(Tasks)
  BY <1>1, <1>2
<1> QED BY <1>3 DEF Batches, IsBatch

(* refillJobs with nothing pending: the batch is what is pending.          *)
LEMMA RefillJobsKeepsInv ==
    ASSUME IndInv, Running, sched.pendingJobs = <<>>,
           NEW batch \in Batches(nextCommand), NEW next \in 0 .. NumCommands,
           RefillJobs(batch, next)
    PROVE  /\ sched' \in SchedulerStates /\ Running' /\ StateInv(sched')
           /\ sched'.wipJobs = sched.wipJobs
           /\ sched'.stoppedWorkers = sched.stoppedWorkers
           /\ batch = <<>> <=> sched'.pendingJobs = <<>>
           /\ \A j \in sched'.allJobList : j[1] < nextCommand'
           /\ refillCount' \in Nat /\ nextCommand' \in 0 .. NumCommands
           /\ batch = <<>> => refillCount' = 0
           /\ sched'.currentlyProcessing = sched.currentlyProcessing
           /\ sched'.assignedWorker = sched.assignedWorker
           /\ sched'.maybeErroredJobs = sched.maybeErroredJobs
           /\ sched'.allJobList = sched.allJobList \cup Elems(sched'.pendingJobs)
           /\ \A j \in Elems(sched'.pendingJobs) :
                 j \in JobIds /\ j[2] = 0 /\ j \notin sched.allJobList
<1> DEFINE t == QueueSemaTasks(sched, batch)
           jobs == [i \in DOMAIN batch |-> NewTask(batch[i])]
<1>1. /\ sched \in SchedulerStates /\ StateInv(sched) /\ sched.enforce = "holds"
      /\ nextCommand \in Nat /\ \A j \in sched.allJobList : j[1] < nextCommand
  BY NumCommandsAssumption DEF IndInv, TypeOK, Running, LoopInv
<1>2. IsBatch(batch, nextCommand)
  BY <1>1, BatchesAreBatches
<1>3. /\ t \in SchedulerStates /\ StateInv(t) /\ t.enforce = "holds"
      /\ t.pendingJobs = sched.pendingJobs \o jobs
      /\ jobs \in Seq(JobIds) /\ Len(jobs) = Len(batch)
      /\ t.allJobList = sched.allJobList \cup Elems(jobs)
      /\ \A j \in Elems(jobs) : j \in JobIds /\ j[2] = 0 /\ j \notin sched.allJobList
      /\ t.currentlyProcessing = sched.currentlyProcessing
      /\ t.assignedWorker = sched.assignedWorker
      /\ t.wipJobs = sched.wipJobs
      /\ t.maybeErroredJobs = sched.maybeErroredJobs
      /\ t.stoppedWorkers = sched.stoppedWorkers
  BY <1>1, <1>2, QueueSemaTasksKeepsInv
<1>4. \A j \in Elems(jobs) : \E i \in DOMAIN batch : j = <<batch[i], 0>>
  BY <1>1, <1>2, BatchJobs
<1>5. sched' = Enforce(t, Len(t.pendingJobs) = Len(batch))
  BY <1>1, CheckInvariantsPasses DEF RefillJobs
<1> HIDE DEF t, jobs
<1>6. t.pendingJobs = jobs
  BY <1>3
<1>7. sched' = t
  BY <1>3, <1>5, <1>6 DEF Enforce
<1>8. batch \in Seq(Tasks) /\ Len(batch) \in Nat
  BY <1>2 DEF IsBatch
<1>9. batch = <<>> <=> jobs = <<>>
  BY <1>3, <1>8
<1>10. /\ nextCommand' = next /\ refillCount' = Len(batch)
       /\ \A i \in DOMAIN batch : batch[i] < next
       /\ next \in nextCommand .. NumCommands
  BY DEF RefillJobs
<1>11. \A j \in sched'.allJobList : j[1] < nextCommand'
  <2> SUFFICES ASSUME NEW j \in t.allJobList PROVE j[1] < next
    BY <1>7, <1>10
  <2>1. CASE j \in sched.allJobList
    <3>1. j[1] \in Nat
      BY <1>1, <2>1, NumCommandsAssumption DEF SchedulerStates, JobIds, Tasks
    <3> QED BY <1>1, <1>10, <2>1, <3>1, NumCommandsAssumption
  <2>2. CASE j \in Elems(jobs)
    BY <1>4, <1>10, <2>2
  <2> QED BY <1>3, <2>1, <2>2
<1>12. batch = <<>> => refillCount' = 0
  BY <1>10
<1> QED BY <1>3, <1>6, <1>7, <1>8, <1>9, <1>10, <1>11, <1>12 DEF Running

(* The first refill, before the loop, keeps the inductive invariant.       *)
LEMMA FirstRefillKeepsInv ==
    ASSUME IndInv, NEW batch \in Batches(nextCommand), NEW next \in 0 .. NumCommands,
           FirstRefill(batch, next)
    PROVE  IndInv'
<1>1. Running /\ sched.pendingJobs = <<>> /\ sched.stoppedWorkers = <<>>
  BY DEF FirstRefill, IndInv, LoopInv
<1>2. /\ sched' \in SchedulerStates /\ Running' /\ StateInv(sched')
      /\ sched'.stoppedWorkers = sched.stoppedWorkers
      /\ \A j \in sched'.allJobList : j[1] < nextCommand'
      /\ refillCount' \in Nat /\ nextCommand' \in 0 .. NumCommands
  BY <1>1, RefillJobsKeepsInv DEF FirstRefill
<1>3. /\ phase' \in {"exitFailure", "loop"}
      /\ scan' = scan /\ startedBefore' = startedBefore
  BY DEF FirstRefill
<1>4. TypeOK'
  BY <1>2, <1>3 DEF IndInv, TypeOK, Phases
<1>5. LoopInv'
  BY <1>1, <1>2, <1>3 DEF LoopInv, StoppedWorkersNotNeeded
<1> QED BY <1>2, <1>4, <1>5 DEF IndInv

(* A refill at the head of the loop keeps the inductive invariant.         *)
LEMMA RefillPendingJobsKeepsInv ==
    ASSUME IndInv, NEW batch \in Batches(nextCommand), NEW next \in 0 .. NumCommands,
           RefillPendingJobs(batch, next)
    PROVE  IndInv'
<1>1. /\ Running /\ sched.pendingJobs = <<>> /\ sched.wipJobs # {}
      /\ sched.stoppedWorkers = <<>>
  BY DEF RefillPendingJobs, IndInv, LoopInv, StoppedWorkersNotNeeded
<1>2. /\ sched' \in SchedulerStates /\ Running' /\ StateInv(sched')
      /\ sched'.wipJobs = sched.wipJobs
      /\ sched'.stoppedWorkers = sched.stoppedWorkers
      /\ batch = <<>> <=> sched'.pendingJobs = <<>>
      /\ \A j \in sched'.allJobList : j[1] < nextCommand'
      /\ refillCount' \in Nat /\ nextCommand' \in 0 .. NumCommands
      /\ batch = <<>> => refillCount' = 0
  BY <1>1, RefillJobsKeepsInv DEF RefillPendingJobs
<1>3. /\ phase' = IF batch = <<>> THEN "shutdown" ELSE "assign"
      /\ scan' = scan /\ startedBefore' = startedBefore
  BY DEF RefillPendingJobs
<1>4. TypeOK'
  BY <1>2, <1>3 DEF IndInv, TypeOK, Phases
<1>5. LoopInv'
  BY <1>1, <1>2, <1>3 DEF LoopInv, StoppedWorkersNotNeeded
<1> QED BY <1>2, <1>4, <1>5 DEF IndInv

(* The break of the loop keeps the inductive invariant.                    *)
LEMMA LeaveLoopKeepsInv == IndInv /\ LeaveLoop => IndInv'
<1> SUFFICES ASSUME IndInv, LeaveLoop PROVE IndInv'
  OBVIOUS
<1>1. TypeOK /\ Running /\ StateInv(sched) /\ LoopInv
  BY DEF IndInv, LeaveLoop
<1>2. sched' = sched /\ phase' = "final"
      /\ UNCHANGED <<refillCount, nextCommand, scan, startedBefore>>
  BY <1>1, CheckInvariantsPasses DEF LeaveLoop
<1>3. TypeOK'
  BY <1>1, <1>2 DEF TypeOK, Phases
<1>4. LoopInv'
  BY <1>1, <1>2 DEF LeaveLoop, LoopInv, StoppedWorkersNotNeeded
<1>5. StateInv(sched') /\ Running'
  BY <1>1, <1>2 DEF Running
<1> QED BY <1>3, <1>4, <1>5 DEF IndInv

(* A round without a refill keeps the inductive invariant.                 *)
LEMMA ContinueLoopKeepsInv == IndInv /\ ContinueLoop => IndInv'
<1> SUFFICES ASSUME IndInv, ContinueLoop PROVE IndInv'
  OBVIOUS
<1>1. TypeOK /\ Running /\ StateInv(sched) /\ LoopInv /\ phase = "loop"
  BY DEF IndInv, ContinueLoop
<1>2. /\ sched' = sched
      /\ phase' = IF sched.pendingJobs = <<>> THEN "shutdown" ELSE "assign"
      /\ UNCHANGED <<refillCount, nextCommand, scan, startedBefore>>
  BY <1>1, CheckInvariantsPasses DEF ContinueLoop
<1>3. TypeOK'
  BY <1>1, <1>2 DEF TypeOK, Phases
<1>4. LoopInv'
  BY <1>1, <1>2 DEF ContinueLoop, LoopInv, StoppedWorkersNotNeeded
<1>5. StateInv(sched') /\ Running'
  BY <1>1, <1>2 DEF Running
<1> QED BY <1>3, <1>4, <1>5 DEF IndInv

(* One round of assignJobsToIdleWorkers keeps the inductive invariant.     *)
LEMMA AssignJobKeepsInv ==
    ASSUME IndInv, NEW sent \in BOOLEAN, AssignJob(sent)
    PROVE  IndInv'
<1> DEFINE s == ScheduleNextPendingJob(sched)
           w == Head(sched.idleWorkers)
           j == Head(sched.pendingJobs)
           d == DescheduleJobDueToSendError(s, w, j)
<1>1. /\ TypeOK /\ Running /\ StateInv(sched) /\ LoopInv /\ phase = "assign"
      /\ sched \in SchedulerStates /\ sched.enforce = "holds"
      /\ sched.idleWorkers # <<>> /\ sched.pendingJobs # <<>>
  BY DEF IndInv, AssignJob, TypeOK, Running
<1>2. /\ s \in SchedulerStates /\ StateInv(s) /\ s.enforce = "holds"
      /\ w \in Workers /\ j \in JobIds
      /\ s.currentlyProcessing[w] = j
      /\ s.stoppedWorkers = sched.stoppedWorkers
      /\ s.allJobList = sched.allJobList
      /\ s.wipJobs = sched.wipJobs \cup {j}
  BY <1>1, ScheduleNextPendingJobKeepsInv
<1>3. /\ sched' = CheckInvariants(IF sent THEN s ELSE d)
      /\ sent \/ SemaKind \in SendErrors
      /\ UNCHANGED <<phase, refillCount, nextCommand, scan, startedBefore>>
  BY DEF AssignJob
<1> HIDE DEF s, w, j
<1>4. /\ d \in SchedulerStates /\ StateInv(d) /\ d.enforce = "holds"
      /\ d.stoppedWorkers = s.stoppedWorkers /\ d.allJobList = s.allJobList
  BY <1>2, DescheduleKeepsInv
<1> HIDE DEF d
<1>5. sched' = IF sent THEN s ELSE d
  BY <1>2, <1>3, <1>4, CheckInvariantsPasses
<1>6. /\ sched' \in SchedulerStates /\ StateInv(sched') /\ Running'
      /\ sched'.stoppedWorkers = sched.stoppedWorkers
      /\ sched'.allJobList = sched.allJobList
      /\ SemaKind \notin SendErrors => sched'.wipJobs # {}
  BY <1>2, <1>3, <1>4, <1>5 DEF Running
<1>7. TypeOK'
  BY <1>1, <1>3, <1>6 DEF TypeOK, Phases
<1>8. LoopInv'
  <2>1. sched.stoppedWorkers = <<>>
    BY <1>1 DEF LoopInv, StoppedWorkersNotNeeded
  <2> QED BY <1>1, <1>3, <1>6, <2>1 DEF LoopInv, StoppedWorkersNotNeeded
<1> QED BY <1>6, <1>7, <1>8 DEF IndInv

(* One round of shutdownIdleWorkers keeps the inductive invariant.         *)
LEMMA ShutdownIdleWorkerKeepsInv == IndInv /\ ShutdownIdleWorker => IndInv'
<1> SUFFICES ASSUME IndInv, ShutdownIdleWorker PROVE IndInv'
  OBVIOUS
<1>1. /\ TypeOK /\ Running /\ StateInv(sched) /\ LoopInv
      /\ sched \in SchedulerStates /\ sched.enforce = "holds"
      /\ sched.idleWorkers # <<>> /\ phase \in {"shutdown", "final"}
      /\ sched' = StopNextIdleWorker(sched)
      /\ UNCHANGED <<phase, refillCount, nextCommand, scan, startedBefore>>
  BY DEF IndInv, ShutdownIdleWorker, TypeOK, Running
<1>2. /\ sched' \in SchedulerStates /\ StateInv(sched') /\ sched'.enforce = "holds"
      /\ sched'.allJobList = sched.allJobList
      /\ sched'.pendingJobs = sched.pendingJobs
      /\ sched'.wipJobs = sched.wipJobs
  BY <1>1, StopNextIdleWorkerKeepsInv
<1>3. TypeOK'
  BY <1>1, <1>2 DEF TypeOK
<1>4. LoopInv'
  BY <1>1, <1>2 DEF LoopInv, StoppedWorkersNotNeeded
<1> QED BY <1>2, <1>3, <1>4 DEF IndInv, Running

(* With no idle worker, none stopped and something pending, all workers    *)
(* are busy; so the ENFORCE before the receive holds, unless an analysis   *)
(* did not fit into its queue.                                             *)
LEMMA BeginReceiveKeepsInv == IndInv /\ BeginReceive => IndInv'
<1> SUFFICES ASSUME IndInv, BeginReceive PROVE IndInv'
  OBVIOUS
<1>1. /\ TypeOK /\ Running /\ StateInv(sched) /\ LoopInv
      /\ sched \in SchedulerStates /\ sched.enforce = "holds"
      /\ \/ phase = "assign" /\ (sched.idleWorkers = <<>> \/ sched.pendingJobs = <<>>)
         \/ phase = "shutdown" /\ sched.idleWorkers = <<>>
      /\ sched' = Enforce(sched, sched.wipJobs # {})
      /\ phase' = "receive"
      /\ UNCHANGED <<refillCount, nextCommand, scan, startedBefore>>
  BY DEF IndInv, BeginReceive, TypeOK, Running
<1>2. CASE sched.wipJobs # {}
  <2>1. sched' = sched
    BY <1>1, <1>2 DEF Enforce
  <2>2. TypeOK'
    BY <1>1, <2>1 DEF TypeOK, Phases
  <2>3. LoopInv'
    BY <1>1, <2>1 DEF LoopInv, StoppedWorkersNotNeeded
  <2> QED BY <1>1, <2>1, <2>2, <2>3 DEF IndInv, Running
<1>3. CASE sched.wipJobs = {}
  <2>1. sched' = [sched EXCEPT !.enforce = "failed"]
    BY <1>1, <1>3 DEF Enforce
  <2>2. sched' \in SchedulerStates /\ sched'.enforce = "failed"
    BY <1>1, <2>1 DEF SchedulerStates
  <2>3. TypeOK'
    BY <1>1, <2>2 DEF TypeOK, Phases
  <2>4. SemaKind \in SendErrors
    <3> SUFFICES ASSUME SemaKind \notin SendErrors PROVE FALSE
      OBVIOUS
    <3>1. phase = "assign" /\ sched.pendingJobs # <<>> /\ sched.idleWorkers = <<>>
      BY <1>1, <1>3 DEF LoopInv
    <3>2. sched.stoppedWorkers = <<>>
      BY <1>1, <3>1 DEF LoopInv, StoppedWorkersNotNeeded
    <3>3. Cardinality({}) + Len(<<>>) + Len(<<>>) = NumWorkers
      BY <1>1, <1>3, <3>1, <3>2 DEF StateInv, CountsAddUp
    <3> QED BY <3>3, FS_EmptySet, NumWorkersAssumption
  <2> QED BY <2>2, <2>3, <2>4 DEF IndInv, Running
<1> QED BY <1>2, <1>3

(* processWorkerResponse keeps the inductive invariant.                    *)
LEMMA HandleResponseKeepsInv ==
    ASSUME IndInv, NEW w \in Workers, NEW j \in JobIds,
           NEW kind \in {SemaKind, EmitKind}, NEW sent \in BOOLEAN,
           ResponseContract(w, j, kind), HandleResponse(w, j, kind, sent)
    PROVE  IndInv'
<1>1. /\ TypeOK /\ Running /\ StateInv(sched) /\ LoopInv
      /\ sched \in SchedulerStates /\ sched.enforce = "holds"
      /\ phase \in {"receive", "drain"}
      /\ sent \/ EmitKind \in SendErrors
      /\ phase' = "drain"
      /\ UNCHANGED <<refillCount, nextCommand, scan, startedBefore>>
  BY DEF IndInv, HandleResponse, TypeOK, Running
<1>2. sched' = ProcessResponse(sched, w, j, JobKind(j), sent)
  BY DEF HandleResponse, ResponseContract
<1>3. /\ sched.assignedWorker[j] = w
      /\ IsCurrentJob(sched, w, j) \/ j \in sched.maybeErroredJobs
  BY DEF ResponseContract, IsCurrentJob
<1>4. /\ sched' \in SchedulerStates
      /\ sent => sched'.enforce = "holds"
      /\ sched'.enforce = "holds" =>
            /\ StateInv(sched')
            /\ sched'.pendingJobs = sched.pendingJobs
            /\ sched'.stoppedWorkers = sched.stoppedWorkers
            /\ \A i \in sched'.allJobList : i \in sched.allJobList \/ i[1] = j[1]
      /\ j \in sched.allJobList
  BY <1>1, <1>2, <1>3, ProcessResponseKeepsInv
<1>5. TypeOK'
  BY <1>1, <1>4 DEF TypeOK, Phases
<1>6. sched'.enforce = "holds" => LoopInv'
  BY <1>1, <1>4 DEF LoopInv, StoppedWorkersNotNeeded
<1>7. SendErrors = {} => sent
  BY <1>1
<1> QED BY <1>4, <1>5, <1>6, <1>7 DEF IndInv, Running

(* Starting the scan for overdue jobs keeps the inductive invariant.       *)
LEMMA BeginScanKeepsInv ==
    ASSUME IndInv, Running, phase \in {"receive", "drain"},
           NEW instant \in Nat, BeginScan(instant)
    PROVE  IndInv'
<1>1. TypeOK /\ StateInv(sched) /\ LoopInv
  BY DEF IndInv
<1>2. /\ sched' = sched /\ phase' = "kill" /\ scan' = 0
      /\ startedBefore' = instant
      /\ UNCHANGED <<refillCount, nextCommand>>
  BY <1>1, CheckInvariantsPasses DEF BeginScan
<1>3. TypeOK'
  BY <1>1, <1>2, NumWorkersAssumption DEF TypeOK, Phases
<1>4. \A w \in Workers : ~ (w < scan')
  BY <1>2, NumWorkersAssumption DEF Workers
<1>5. LoopInv'
  BY <1>1, <1>2, <1>4 DEF LoopInv, StoppedWorkersNotNeeded
<1> QED BY <1>1, <1>2, <1>3, <1>5 DEF IndInv, Running

(* A receive that timed out keeps the inductive invariant.                 *)
LEMMA ReceiveTimeoutKeepsInv == IndInv /\ ReceiveTimeout => IndInv'
<1> SUFFICES ASSUME IndInv, ReceiveTimeout PROVE IndInv'
  OBVIOUS
<1>1. sched.clock \in Nat
  BY FieldTypes DEF IndInv, TypeOK
<1> QED BY <1>1, BeginScanKeepsInv DEF ReceiveTimeout

(* The end of the drain keeps the inductive invariant.                     *)
LEMMA StopDrainingKeepsInv ==
    ASSUME IndInv, NEW instant \in Deadlines, StopDraining(instant)
    PROVE  IndInv'
<1>1. instant \in Nat
  BY FieldTypes DEF IndInv, TypeOK, Deadlines
<1> QED BY <1>1, BeginScanKeepsInv DEF StopDraining

(* Looking at one worker, and killing it, keeps the inductive invariant.   *)
LEMMA ScanWorkerKeepsInv == IndInv /\ ScanWorker => IndInv'
<1> SUFFICES ASSUME IndInv, ScanWorker PROVE IndInv'
  OBVIOUS
<1>1. /\ TypeOK /\ Running /\ StateInv(sched) /\ LoopInv
      /\ sched \in SchedulerStates /\ sched.enforce = "holds"
      /\ phase = "kill" /\ scan < NumWorkers
      /\ sched' = TerminateIfLongRunning(sched, scan, startedBefore)
      /\ scan' = scan + 1
      /\ UNCHANGED <<phase, refillCount, nextCommand, startedBefore>>
  BY DEF IndInv, ScanWorker, TypeOK, Running
<1>2. scan \in Workers /\ scan + 1 \in 0 .. NumWorkers
  BY <1>1, NumWorkersAssumption DEF TypeOK, Workers
<1>3. /\ sched' \in SchedulerStates /\ StateInv(sched') /\ sched'.enforce = "holds"
      /\ sched'.stoppedWorkers = sched.stoppedWorkers
      /\ sched'.allJobList = sched.allJobList
      /\ sched'.pendingJobs = sched.pendingJobs
      /\ \A v \in Workers : v # scan =>
            sched'.status[v] = sched.status[v] /\ sched'.startTime[v] = sched.startTime[v]
      /\ ~ IsLongRunning(sched', scan, startedBefore)
  <2>1. CASE IsLongRunning(sched, scan, startedBefore)
    <3>1. sched' = TerminateRunningWorker(sched, scan) /\ sched.status[scan] = "Busy"
      BY <1>1, <2>1 DEF TerminateIfLongRunning, IsLongRunning
    <3>2. /\ sched' \in SchedulerStates /\ StateInv(sched') /\ sched'.enforce = "holds"
          /\ sched'.status = [sched.status EXCEPT ![scan] = "Idle"]
          /\ \A v \in Workers : v # scan => sched'.startTime[v] = sched.startTime[v]
          /\ sched'.stoppedWorkers = sched.stoppedWorkers
          /\ sched'.allJobList = sched.allJobList
          /\ sched'.pendingJobs = sched.pendingJobs
      BY <1>1, <1>2, <3>1, TerminateKeepsInv
    <3>3. sched.status \in [Workers -> {"Idle", "Busy", "Stopped"}]
      BY <1>1, FieldTypes
    <3>4. /\ sched'.status[scan] = "Idle"
          /\ \A v \in Workers : v # scan => sched'.status[v] = sched.status[v]
      BY <1>2, <3>2, <3>3
    <3>5. ~ IsLongRunning(sched', scan, startedBefore)
      BY <3>4 DEF IsLongRunning
    <3> QED BY <3>2, <3>4, <3>5
  <2>2. CASE ~ IsLongRunning(sched, scan, startedBefore)
    <3>1. sched' = sched
      BY <1>1, <2>2 DEF TerminateIfLongRunning
    <3> QED BY <1>1, <2>2, <3>1
  <2> QED BY <2>1, <2>2
<1>4. TypeOK'
  BY <1>1, <1>2, <1>3 DEF TypeOK
<1>5. \A w \in Workers : w < scan' => ~ IsLongRunning(sched', w, startedBefore')
  <2> SUFFICES ASSUME NEW w \in Workers, w < scan + 1
               PROVE  ~ IsLongRunning(sched', w, startedBefore)
    BY <1>1
  <2>1. w < scan \/ w = scan
    BY <1>2, NumWorkersAssumption DEF Workers
  <2>2. CASE w < scan
    <3>1. ~ IsLongRunning(sched, w, startedBefore) /\ w # scan
      BY <1>1, <1>2, <2>2, NumWorkersAssumption DEF LoopInv, Workers
    <3> QED BY <1>3, <3>1 DEF IsLongRunning
  <2> QED BY <1>3, <2>1, <2>2
<1>6. LoopInv'
  BY <1>1, <1>3, <1>5 DEF LoopInv, StoppedWorkersNotNeeded
<1> QED BY <1>3, <1>4, <1>6 DEF IndInv, Running

(* The end of the scan keeps the inductive invariant.                      *)
LEMMA EndScanKeepsInv == IndInv /\ EndScan => IndInv'
<1> SUFFICES ASSUME IndInv, EndScan PROVE IndInv'
  OBVIOUS
<1>1. TypeOK /\ Running /\ StateInv(sched) /\ LoopInv /\ phase = "kill"
  BY DEF IndInv, EndScan
<1>2. /\ phase' = "loop" /\ scan' = 0 /\ startedBefore' = 0
      /\ UNCHANGED <<sched, refillCount, nextCommand>>
  BY DEF EndScan
<1>3. TypeOK'
  BY <1>1, <1>2, NumWorkersAssumption DEF TypeOK, Phases
<1>4. LoopInv'
  BY <1>1, <1>2 DEF LoopInv, StoppedWorkersNotNeeded
<1> QED BY <1>1, <1>2, <1>3, <1>4 DEF IndInv, Running

(* At the end all workers are stopped: nothing is in progress and none is  *)
(* idle.                                                                   *)
LEMMA FinishKeepsInv == IndInv /\ Finish => IndInv'
<1> SUFFICES ASSUME IndInv, Finish PROVE IndInv'
  OBVIOUS
<1>1. /\ TypeOK /\ Running /\ StateInv(sched) /\ LoopInv
      /\ sched \in SchedulerStates /\ phase = "final" /\ sched.idleWorkers = <<>>
  BY DEF IndInv, Finish, TypeOK
<1>2. sched' = Enforce(sched, Len(sched.stoppedWorkers) = NumWorkers)
  BY <1>1, CheckInvariantsPasses DEF Finish
<1>3. Len(sched.stoppedWorkers) = NumWorkers
  <2>1. Cardinality({}) + Len(<<>>) + Len(sched.stoppedWorkers) = NumWorkers
    BY <1>1 DEF LoopInv, StateInv, CountsAddUp
  <2>2. Len(sched.stoppedWorkers) \in Nat
    BY <1>1, FieldTypes
  <2> QED BY <2>1, <2>2, FS_EmptySet
<1>4. /\ sched' = sched /\ phase' = "done"
      /\ UNCHANGED <<refillCount, nextCommand, scan, startedBefore>>
  BY <1>2, <1>3 DEF Enforce, Finish
<1>5. TypeOK'
  BY <1>1, <1>4 DEF TypeOK, Phases
<1>6. LoopInv'
  BY <1>1, <1>4 DEF LoopInv, StoppedWorkersNotNeeded
<1> QED BY <1>1, <1>4, <1>5, <1>6 DEF IndInv, Running

(* A stuttering step keeps the inductive invariant.                        *)
LEMMA StutterKeepsInv == IndInv /\ UNCHANGED schedVars => IndInv'
<1> SUFFICES ASSUME IndInv, UNCHANGED schedVars PROVE IndInv'
  OBVIOUS
<1>1. /\ sched' = sched /\ phase' = phase /\ refillCount' = refillCount
      /\ nextCommand' = nextCommand /\ scan' = scan
      /\ startedBefore' = startedBefore
  BY DEF schedVars
<1> QED BY <1>1 DEF IndInv, TypeOK, Running, LoopInv, StoppedWorkersNotNeeded

(* Every step of the loop keeps the inductive invariant.                   *)
LEMMA NextKeepsInv == IndInv /\ [SchedNext]_schedVars => IndInv'
<1> SUFFICES ASSUME IndInv, [SchedNext]_schedVars PROVE IndInv'
  OBVIOUS
<1>1. ASSUME NEW batch \in Batches(nextCommand), NEW next \in 0 .. NumCommands,
             FirstRefill(batch, next) \/ RefillPendingJobs(batch, next)
      PROVE  IndInv'
  BY <1>1, FirstRefillKeepsInv, RefillPendingJobsKeepsInv
<1>2. CASE LeaveLoop
  BY <1>2, LeaveLoopKeepsInv
<1>3. CASE ContinueLoop
  BY <1>3, ContinueLoopKeepsInv
<1>4. ASSUME NEW sent \in BOOLEAN, AssignJob(sent) PROVE IndInv'
  BY <1>4, AssignJobKeepsInv
<1>5. CASE ShutdownIdleWorker
  BY <1>5, ShutdownIdleWorkerKeepsInv
<1>6. CASE BeginReceive
  BY <1>6, BeginReceiveKeepsInv
<1>7. ASSUME NEW w \in Workers, NEW j \in JobIds, NEW kind \in {SemaKind, EmitKind},
             NEW sent \in BOOLEAN,
             ResponseContract(w, j, kind) /\ HandleResponse(w, j, kind, sent)
      PROVE  IndInv'
  BY <1>7, HandleResponseKeepsInv
<1>8. CASE ReceiveTimeout
  BY <1>8, ReceiveTimeoutKeepsInv
<1>9. ASSUME NEW instant \in Deadlines, StopDraining(instant) PROVE IndInv'
  BY <1>9, StopDrainingKeepsInv
<1>10. CASE ScanWorker
  BY <1>10, ScanWorkerKeepsInv
<1>11. CASE EndScan
  BY <1>11, EndScanKeepsInv
<1>12. CASE Finish
  BY <1>12, FinishKeepsInv
<1>13. CASE StayOver \/ UNCHANGED schedVars
  BY <1>13, StutterKeepsInv DEF StayOver
<1> QED
  BY <1>1, <1>2, <1>3, <1>4, <1>5, <1>6, <1>7, <1>8, <1>9, <1>10, <1>11, <1>12, <1>13
     DEF SchedNext

------------------------------------------------------------------------------
(***************************************************************************)
(* Theorems.                                                               *)
(***************************************************************************)

(* The invariant holds in every state of the loop, whatever the responses, *)
(* timeouts and batches are.                                               *)
THEOREM Invariance == SchedSpec => []IndInv
<1>1. SchedInit => IndInv
  BY InitEstablishesInv
<1>2. IndInv /\ [SchedNext]_schedVars => IndInv'
  BY NextKeepsInv
<1> QED BY <1>1, <1>2, PTL DEF SchedSpec

(* The members of class Scheduler keep their types, in particular ids of   *)
(* jobs and workers stay in range, even after an ENFORCE failed.           *)
THEOREM TypeCorrect == SchedSpec => []TypeOK
<1>1. IndInv => TypeOK
  BY DEF IndInv
<1> QED BY <1>1, Invariance, PTL

(* If every request fits into its queue, no ENFORCE of class Scheduler     *)
(* fails, for any number of workers and commands and in any order of       *)
(* results, late results and timeouts.                                     *)
THEOREM EnforcesHold ==
    ASSUME SendErrors = {}
    PROVE  SchedSpec => []NoEnforceFails
<1>1. IndInv => NoEnforceFails
  BY DEF IndInv, NoEnforceFails
<1> QED BY <1>1, Invariance, PTL

(* As long as no ENFORCE failed, the comments on pendingJobs, wipJobs and  *)
(* maybeErroredJobs are true.                                              *)
THEOREM JobsMatch == SchedSpec => [](Running => JobsMatchWorkers)
<1>1. IndInv /\ Running => JobsMatchWorkers
  <2> SUFFICES ASSUME IndInv, Running PROVE JobsMatchWorkers
    OBVIOUS
  <2>1. StateInv(sched) /\ sched \in SchedulerStates
    BY DEF IndInv, TypeOK
  <2>2. ASSUME NEW j \in sched.wipJobs
        PROVE  {w \in Workers : sched.currentlyProcessing[w] = j}
                  = {sched.assignedWorker[j]}
    <3>1. /\ sched.assignedWorker[j] \in Workers
          /\ sched.currentlyProcessing[sched.assignedWorker[j]] = j /\ j # None
      BY <2>1, FieldTypes, NoneIsNoValue DEF StateInv, WipInv
    <3>2. \A w \in Workers : sched.currentlyProcessing[w] = j =>
             w = sched.assignedWorker[j]
      BY <2>1, <3>1 DEF StateInv, WipInv
    <3> QED BY <3>1, <3>2
  <2>3. ASSUME NEW j \in Elems(sched.pendingJobs) \cup sched.maybeErroredJobs
        PROVE  {w \in Workers : sched.currentlyProcessing[w] = j} = {}
    <3>1. j \in sched.allJobList /\ j \notin sched.wipJobs
      BY <2>1, NoneIsNoValue DEF StateInv, PendingInv, ErroredInv, WipInv
    <3>2. j # None
      BY <2>1, <3>1, FieldTypes, NoneIsNoValue
    <3> QED BY <2>1, <3>1, <3>2 DEF StateInv, WipInv
  <2>4. Elems(sched.pendingJobs) \cap sched.maybeErroredJobs = {}
    BY <2>1, NoneIsNoValue DEF StateInv, PendingInv, ErroredInv
  <2> QED BY <2>2, <2>3, <2>4 DEF JobsMatchWorkers
<1> QED BY <1>1, Invariance, PTL

(* As long as no ENFORCE failed, the deques partition the pool.            *)
THEOREM QueuesMatch == SchedSpec => [](Running => QueuesMatchStatus)
<1>1. IndInv /\ Running => QueuesMatchStatus
  <2> SUFFICES ASSUME IndInv, Running PROVE QueuesMatchStatus
    OBVIOUS
  <2>1. StateInv(sched) /\ sched \in SchedulerStates
    BY DEF IndInv, TypeOK
  <2>2. /\ Elems(sched.idleWorkers) \subseteq Workers
        /\ Elems(sched.stoppedWorkers) \subseteq Workers
    BY <2>1, FieldTypes DEF Elems
  <2> QED BY <2>1, <2>2 DEF StateInv, IdleInv, StoppedInv, QueuesMatchStatus
<1> QED BY <1>1, Invariance, PTL

(* As long as no ENFORCE failed, a worker is stopped only when there is no *)
(* more work for it.                                                       *)
THEOREM StoppedNotNeeded == SchedSpec => [](Running => StoppedWorkersNotNeeded)
<1>1. IndInv /\ Running => StoppedWorkersNotNeeded
  BY DEF IndInv, LoopInv
<1> QED BY <1>1, Invariance, PTL

(* A receive that timed out gives up on every job in progress: the strict  *)
(* comparison of start times spares none.                                  *)
THEOREM TimeoutClears == SchedSpec => [](Running => TimeoutClearsPool)
<1>1. IndInv /\ Running => TimeoutClearsPool
  <2> SUFFICES ASSUME IndInv, Running, phase = "kill",
                      startedBefore = sched.clock, scan = NumWorkers,
                      NEW j \in sched.wipJobs
               PROVE  FALSE
    BY DEF TimeoutClearsPool
  <2>1. StateInv(sched) /\ sched \in SchedulerStates /\ LoopInv
    BY DEF IndInv, TypeOK
  <2>2. PICK w \in Workers : sched.currentlyProcessing[w] = j /\ j # None
    BY <2>1, FieldTypes, NoneIsNoValue DEF StateInv, WipInv
  <2>3. IsLongRunning(sched, w, startedBefore)
    BY <2>1, <2>2 DEF StateInv, BusyInv, IsLongRunning
  <2>4. w < scan
    BY NumWorkersAssumption DEF Workers
  <2> QED BY <2>1, <2>3, <2>4 DEF LoopInv
<1> QED BY <1>1, Invariance, PTL

------------------------------------------------------------------------------
(***************************************************************************)
(* The scheduling loop implements JobLifecycle: under the refinement       *)
(* mapping of Scheduler.tla every step of the loop is a step of the        *)
(* lifecycle or moves no job.                                              *)
(***************************************************************************)

(* The collections of class Scheduler are disjoint, so that membership in  *)
(* one of them is the state of a job.                                      *)
LEMMA StatesOfJobs ==
    ASSUME StateInv(sched), sched \in SchedulerStates, NEW j \in JobIds
    PROVE  /\ j \in Elems(sched.pendingJobs) <=> jobStates[j] = "pending"
           /\ j \in sched.wipJobs <=> jobStates[j] = "wip"
           /\ j \in sched.maybeErroredJobs <=> jobStates[j] = "maybeErrored"
           /\ j \notin sched.allJobList <=> jobStates[j] = "unknown"
<1>1. jobStates[j] = JobStateOf(j)
  BY DEF jobStates
<1>2. j \in Elems(sched.pendingJobs) => j \in sched.allJobList /\ sched.assignedWorker[j] = None
  BY DEF StateInv, PendingInv
<1>3. j \in sched.wipJobs => j \in sched.allJobList /\ sched.assignedWorker[j] # None
  BY NoneIsNoValue DEF StateInv, WipInv
<1>4. j \in sched.maybeErroredJobs =>
         j \in sched.allJobList /\ sched.assignedWorker[j] # None /\ j \notin sched.wipJobs
  BY NoneIsNoValue DEF StateInv, ErroredInv
<1> QED BY <1>1, <1>2, <1>3, <1>4 DEF JobStateOf

(* A step that leaves the four collections alone moves no job.             *)
LEMMA SameCollections ==
    ASSUME /\ Elems(sched'.pendingJobs) = Elems(sched.pendingJobs)
           /\ sched'.wipJobs = sched.wipJobs
           /\ sched'.maybeErroredJobs = sched.maybeErroredJobs
           /\ sched'.allJobList = sched.allJobList
    PROVE  UNCHANGED jobStates
BY DEF jobStates, JobStateOf

(* checkInvariants and other ENFORCEs move no job.                         *)
LEMMA EnforceMovesNoJob ==
    ASSUME sched \in SchedulerStates, NEW cond, sched' = Enforce(sched, cond)
    PROVE  UNCHANGED jobStates
<1>1. /\ sched'.pendingJobs = sched.pendingJobs
      /\ sched'.wipJobs = sched.wipJobs
      /\ sched'.maybeErroredJobs = sched.maybeErroredJobs
      /\ sched'.allJobList = sched.allJobList
  BY DEF Enforce, SchedulerStates
<1> QED BY <1>1, SameCollections

(* No more jobs are in progress than there are workers, and fewer if a     *)
(* worker is idle.                                                         *)
LEMMA IdleWorkerIsRoom ==
    ASSUME StateInv(sched), sched \in SchedulerStates, sched.idleWorkers # <<>>
    PROVE  Lifecycle!Cardinality(Lifecycle!InProgress) < NumWorkers
<1>1. Lifecycle!InProgress = sched.wipJobs
  <2>1. Lifecycle!InProgress = {j \in JobIds : jobStates[j] = "wip"}
    BY DEF Lifecycle!InProgress, Lifecycle!Subtasks, JobIds
  <2>2. \A j \in JobIds : j \in sched.wipJobs <=> jobStates[j] = "wip"
    BY StatesOfJobs
  <2> QED BY <2>1, <2>2, FieldTypes
<1>2. Cardinality(sched.wipJobs) \in Nat
  BY FS_CardinalityType DEF StateInv
<1>3. Len(sched.idleWorkers) \in Nat \ {0} /\ Len(sched.stoppedWorkers) \in Nat
  BY FieldTypes, PopFrontDeque
<1>4. Cardinality(sched.wipJobs) + Len(sched.idleWorkers) + Len(sched.stoppedWorkers)
         = NumWorkers
  BY DEF StateInv, CountsAddUp
<1>5. Lifecycle!Cardinality(sched.wipJobs) = Cardinality(sched.wipJobs)
  BY Zenon DEF Lifecycle!Cardinality, Cardinality
<1> QED BY <1>1, <1>2, <1>3, <1>4, <1>5, NumWorkersAssumption
------------------------------------------------------------------------------
(***************************************************************************)
(* One lemma per action that moves a job.                                  *)
(***************************************************************************)

(* Refilling queues analyses that were never queued before.                *)
LEMMA RefillIsQueue ==
    ASSUME IndInv, Running, sched.pendingJobs = <<>>,
           NEW batch \in Batches(nextCommand), NEW next \in 0 .. NumCommands,
           RefillJobs(batch, next)
    PROVE  Lifecycle!LifecycleNext
<1> DEFINE new == Elems(sched'.pendingJobs)
           S == {t \in Tasks : <<t, 0>> \in new}
<1>1. StateInv(sched) /\ sched \in SchedulerStates /\ Elems(sched.pendingJobs) = {}
  BY DEF IndInv, TypeOK, Elems
<1>2. /\ sched'.wipJobs = sched.wipJobs
      /\ sched'.maybeErroredJobs = sched.maybeErroredJobs
      /\ sched'.allJobList = sched.allJobList \cup new
      /\ \A j \in new : j \in JobIds /\ j[2] = 0 /\ j \notin sched.allJobList
  BY RefillJobsKeepsInv
<1> HIDE DEF new
<1>3. \A j \in JobIds : j \in new <=> j[1] \in S /\ j[2] = 0
  <2> SUFFICES ASSUME NEW j \in JobIds PROVE j \in new <=> j[1] \in S /\ j[2] = 0
    OBVIOUS
  <2>1. PICK t \in Tasks, b \in {0, 1} : j = <<t, b>>
    BY DEF JobIds
  <2>2. j[1] = t /\ j[2] = b
    BY <2>1
  <2> QED BY <1>2, <2>1, <2>2
<1>4. \A t \in S : jobStates[<<t, 0>>] = "unknown"
  <2> SUFFICES ASSUME NEW t \in S PROVE jobStates[<<t, 0>>] = "unknown"
    OBVIOUS
  <2>1. <<t, 0>> \in JobIds /\ <<t, 0>> \notin sched.allJobList
    BY <1>2
  <2> QED BY <1>1, <2>1, StatesOfJobs
<1>5. \A j \in JobIds : JobStateOf(j)' = IF j \in new THEN "pending" ELSE jobStates[j]
  <2> SUFFICES ASSUME NEW j \in JobIds
               PROVE  JobStateOf(j)' = IF j \in new THEN "pending" ELSE jobStates[j]
    OBVIOUS
  <2>1. jobStates[j] = JobStateOf(j)
    BY DEF jobStates
  <2> QED BY <1>1, <1>2, <2>1 DEF JobStateOf, new
<1>6. Lifecycle!Queue(S)
  <2>1. jobStates' = [j \in JobIds |->
                         IF j[1] \in S /\ j[2] = 0 THEN "pending" ELSE jobStates[j]]
    BY <1>3, <1>5 DEF jobStates
  <2> QED BY <1>4, <2>1 DEF Lifecycle!Queue, Lifecycle!Sema, Lifecycle!Subtasks, JobIds
<1>7. S \in SUBSET Tasks
  OBVIOUS
<1> HIDE DEF S
<1> QED BY <1>6, <1>7 DEF Lifecycle!LifecycleNext

(* A job that is assigned starts, or is dropped if its request is too      *)
(* large.                                                                  *)
LEMMA AssignIsStartOrDrop ==
    ASSUME IndInv, NEW sent \in BOOLEAN, AssignJob(sent)
    PROVE  Lifecycle!LifecycleNext
<1> DEFINE s == ScheduleNextPendingJob(sched)
           w == Head(sched.idleWorkers)
           j == Head(sched.pendingJobs)
           d == DescheduleJobDueToSendError(s, w, j)
<1>1. /\ StateInv(sched) /\ sched \in SchedulerStates /\ sched.enforce = "holds"
      /\ sched.idleWorkers # <<>> /\ sched.pendingJobs # <<>>
  BY DEF IndInv, AssignJob, TypeOK, Running
<1>2. /\ s \in SchedulerStates /\ StateInv(s) /\ s.enforce = "holds"
      /\ w \in Workers /\ j \in JobIds
      /\ s.currentlyProcessing[w] = j
      /\ s.pendingJobs = Tail(sched.pendingJobs)
      /\ s.allJobList = sched.allJobList
      /\ s.wipJobs = sched.wipJobs \cup {j}
      /\ s.maybeErroredJobs = sched.maybeErroredJobs
  BY <1>1, ScheduleNextPendingJobKeepsInv
<1>3. sched' = CheckInvariants(IF sent THEN s ELSE d)
  BY DEF AssignJob
<1>4. /\ j \in Elems(sched.pendingJobs)
      /\ Elems(Tail(sched.pendingJobs)) = Elems(sched.pendingJobs) \ {j}
  BY <1>1, FieldTypes, PopFrontDeque DEF StateInv, PendingInv
<1> HIDE DEF s, w, j
<1>5. PICK k \in Tasks : j = <<k, 0>>
  BY <1>1, <1>2, <1>4 DEF StateInv, PendingInv, JobIds
<1>6. /\ jobStates[j] = "pending" /\ j \in sched.allJobList
      /\ j \notin sched.wipJobs /\ j \notin sched.maybeErroredJobs
  BY <1>1, <1>2, <1>4, StatesOfJobs
<1>7. Lifecycle!Cardinality(Lifecycle!InProgress) < NumWorkers
  BY <1>1, IdleWorkerIsRoom
<1>8. CASE sent
  <2>1. sched' = s
    BY <1>2, <1>3, <1>8, CheckInvariantsPasses
  <2>2. \A i \in JobIds : JobStateOf(i)' = IF i = j THEN "wip" ELSE JobStateOf(i)
    BY <1>2, <1>4, <1>6, <2>1 DEF JobStateOf
  <2>3. jobStates' = [jobStates EXCEPT ![<<k, 0>>] = "wip"]
    BY <1>2, <1>5, <2>2 DEF jobStates
  <2>4. Lifecycle!Start(k)
    BY <1>5, <1>6, <1>7, <2>3 DEF Lifecycle!Start, Lifecycle!Move, Lifecycle!Sema
  <2> QED BY <2>4 DEF Lifecycle!LifecycleNext
<1>9. CASE ~ sent
  <2>1. /\ d \in SchedulerStates /\ StateInv(d)
        /\ d.allJobList = s.allJobList /\ d.pendingJobs = s.pendingJobs
        /\ d.wipJobs = s.wipJobs \ {j} /\ d.maybeErroredJobs = s.maybeErroredJobs
    BY <1>2, DescheduleKeepsInv
  <2>2. sched' = d
    BY <1>3, <1>9, <2>1, CheckInvariantsPasses
  <2> HIDE DEF d
  <2>3. \A i \in JobIds : JobStateOf(i)' = IF i = j THEN "settled" ELSE JobStateOf(i)
    BY <1>2, <1>4, <1>6, <2>1, <2>2 DEF JobStateOf
  <2>4. jobStates' = [jobStates EXCEPT ![<<k, 0>>] = "settled"]
    BY <1>2, <1>5, <2>3 DEF jobStates
  <2>5. Lifecycle!Drop(k)
    BY <1>5, <1>6, <1>7, <2>4 DEF Lifecycle!Drop, Lifecycle!Move, Lifecycle!Sema
  <2> QED BY <2>5 DEF Lifecycle!LifecycleNext
<1> QED BY <1>8, <1>9
(* A response settles its job; if it is the current analysis of its worker *)
(* the emission starts in the same step, or is lost.                       *)
LEMMA ResponseIsAnswer ==
    ASSUME IndInv, NEW w \in Workers, NEW j \in JobIds,
           NEW kind \in {SemaKind, EmitKind}, NEW sent \in BOOLEAN,
           ResponseContract(w, j, kind), HandleResponse(w, j, kind, sent)
    PROVE  Lifecycle!LifecycleNext
<1>1. /\ StateInv(sched) /\ sched \in SchedulerStates /\ sched.enforce = "holds"
  BY DEF IndInv, HandleResponse, TypeOK, Running
<1>2. /\ sched' = ProcessResponse(sched, w, j, JobKind(j), sent)
      /\ sched.assignedWorker[j] = w
      /\ IsCurrentJob(sched, w, j) \/ j \in sched.maybeErroredJobs
  BY DEF HandleResponse, ResponseContract, IsCurrentJob
<1>3. IsProcessed(sched, sched', w, j, sent) /\ j \in sched.allJobList
  BY <1>1, <1>2, ProcessResponseKeepsInv
<1>4. sched'.pendingJobs = sched.pendingJobs
  BY <1>3 DEF IsProcessed
<1>5. ASSUME NEW i \in JobIds
      PROVE  /\ i \in Elems(sched.pendingJobs) <=> jobStates[i] = "pending"
             /\ i \in sched.wipJobs <=> jobStates[i] = "wip"
             /\ i \in sched.maybeErroredJobs <=> jobStates[i] = "maybeErrored"
             /\ i \notin sched.allJobList <=> jobStates[i] = "unknown"
             /\ jobStates[i] = JobStateOf(i)
  BY <1>1, <1>5, StatesOfJobs DEF jobStates
<1>6. CASE ~ IsCurrentJob(sched, w, j)
  <2>1. IsLateAnswer(sched, sched', j) /\ j \in sched.maybeErroredJobs
    BY <1>2, <1>3, <1>6 DEF IsProcessed
  <2>2. \A i \in JobIds : JobStateOf(i)' = IF i = j THEN "settled" ELSE JobStateOf(i)
    BY <1>3, <1>4, <1>5, <2>1 DEF IsLateAnswer, JobStateOf
  <2>3. jobStates' = [jobStates EXCEPT ![j] = "settled"]
    BY <2>2 DEF jobStates
  <2>4. Lifecycle!LateAnswer(j) /\ j \in Lifecycle!Subtasks
    BY <1>5, <2>1, <2>3
       DEF Lifecycle!LateAnswer, Lifecycle!Move, Lifecycle!Subtasks, JobIds
  <2> QED BY <2>4 DEF Lifecycle!LifecycleNext
<1>7. ASSUME IsCurrentJob(sched, w, j)
      PROVE  j \in sched.wipJobs /\ jobStates[j] = "wip"
             /\ j \notin Elems(sched.pendingJobs) /\ j \notin sched.maybeErroredJobs
  <2>1. j \in sched.wipJobs
    BY <1>1, <1>7, NoneIsNoValue DEF StateInv, WipInv, IsCurrentJob
  <2> QED BY <1>5, <2>1
<1>8. CASE IsCurrentJob(sched, w, j) /\ JobKind(j) = EmitKind
  <2>1. IsAnswer(sched, sched', w, j)
    BY <1>3, <1>8 DEF IsProcessed
  <2>2. \A i \in JobIds : JobStateOf(i)' = IF i = j THEN "settled" ELSE JobStateOf(i)
    BY <1>3, <1>4, <1>5, <1>7, <1>8, <2>1 DEF IsAnswer, JobStateOf
  <2>3. jobStates' = [jobStates EXCEPT ![j] = "settled"]
    BY <2>2 DEF jobStates
  <2>4. PICK k \in Tasks : j = <<k, 1>>
    BY <1>8 DEF JobKind, JobIds, SemaKind, EmitKind
  <2>5. Lifecycle!FinishEmission(k)
    BY <1>7, <1>8, <2>3, <2>4
       DEF Lifecycle!FinishEmission, Lifecycle!Move, Lifecycle!Emit
  <2> QED BY <2>5 DEF Lifecycle!LifecycleNext
<1>9. CASE IsCurrentJob(sched, w, j) /\ JobKind(j) # EmitKind
  <2> DEFINE k == j[1]
             e == <<k, 1>>
  <2>1. /\ e \in JobIds /\ j = <<k, 0>> /\ e \notin sched.allJobList
        /\ sent => StartsEmission(sched, sched', w, k)
        /\ ~ sent => LosesEmission(sched, sched', w, k)
    BY <1>3, <1>9 DEF IsProcessed
  <2>2. k \in Tasks /\ e # j
    BY <2>1 DEF JobIds
  <2> HIDE DEF k
  <2>3. /\ jobStates[e] = "unknown" /\ e \notin sched.wipJobs
        /\ e \notin Elems(sched.pendingJobs) /\ e \notin sched.maybeErroredJobs
    BY <1>5, <2>1
  <2>4. PICK next \in {"wip", "settled"} :
           \A i \in JobIds : JobStateOf(i)' =
              IF i = j THEN "settled" ELSE IF i = e THEN next ELSE JobStateOf(i)
    <3>1. CASE sent
      <4>1. \A i \in JobIds : JobStateOf(i)' =
               IF i = j THEN "settled" ELSE IF i = e THEN "wip" ELSE JobStateOf(i)
        BY <1>3, <1>4, <1>7, <1>9, <2>1, <2>2, <2>3, <3>1 DEF StartsEmission, JobStateOf
      <4> QED BY <4>1
    <3>2. CASE ~ sent
      <4>1. \A i \in JobIds : JobStateOf(i)' =
               IF i = j THEN "settled" ELSE IF i = e THEN "settled" ELSE JobStateOf(i)
        BY <1>3, <1>4, <1>7, <1>9, <2>1, <2>2, <2>3, <3>2 DEF LosesEmission, JobStateOf
      <4> QED BY <4>1
    <3> QED BY <3>1, <3>2
  <2>5. jobStates' = [jobStates EXCEPT ![<<k, 0>>] = "settled", ![<<k, 1>>] = next]
    BY <2>1, <2>2, <2>4 DEF jobStates
  <2>6. Lifecycle!StartEmission(k)
    BY <1>7, <1>9, <2>1, <2>3, <2>5
       DEF Lifecycle!StartEmission, Lifecycle!Sema, Lifecycle!Emit
  <2> QED BY <2>2, <2>6 DEF Lifecycle!LifecycleNext
<1> QED BY <1>6, <1>8, <1>9

(* The kill of a long running worker gives up on its job.                  *)
LEMMA ScanIsGiveUp ==
    ASSUME IndInv, ScanWorker
    PROVE  Lifecycle!LifecycleNext \/ UNCHANGED jobStates
<1>1. /\ StateInv(sched) /\ sched \in SchedulerStates /\ sched.enforce = "holds"
      /\ scan \in Workers
      /\ sched' = TerminateIfLongRunning(sched, scan, startedBefore)
  BY NumWorkersAssumption DEF IndInv, ScanWorker, TypeOK, Running, Workers
<1>2. CASE ~ IsLongRunning(sched, scan, startedBefore)
  <2>1. sched' = sched
    BY <1>1, <1>2 DEF TerminateIfLongRunning
  <2> QED BY <2>1, SameCollections
<1>3. CASE IsLongRunning(sched, scan, startedBefore)
  <2> DEFINE j == sched.currentlyProcessing[scan]
  <2>1. sched' = TerminateRunningWorker(sched, scan) /\ sched.status[scan] = "Busy"
    BY <1>1, <1>3 DEF TerminateIfLongRunning, IsLongRunning
  <2>2. /\ sched'.allJobList = sched.allJobList
        /\ sched'.pendingJobs = sched.pendingJobs
        /\ sched'.wipJobs = sched.wipJobs \ {j}
        /\ sched'.maybeErroredJobs = sched.maybeErroredJobs \cup {j}
    <3>1. GivesUp(sched, sched', scan)
      BY <1>1, <2>1, TerminateKeepsInv
    <3> QED BY <3>1 DEF GivesUp
  <2>3. j \in JobIds /\ j \in sched.wipJobs
    BY <1>1, <2>1, FieldTypes, NoneIsNoValue DEF StateInv, BusyInv, WipInv
  <2> HIDE DEF j
  <2>4. jobStates[j] = "wip" /\ j \notin Elems(sched.pendingJobs)
    BY <1>1, <2>3, StatesOfJobs
  <2>5. \A i \in JobIds : JobStateOf(i)' = IF i = j THEN "maybeErrored" ELSE JobStateOf(i)
    BY <2>2, <2>3, <2>4 DEF JobStateOf
  <2>6. jobStates' = [jobStates EXCEPT ![j] = "maybeErrored"]
    BY <2>5 DEF jobStates
  <2>7. Lifecycle!GiveUp(j) /\ j \in Lifecycle!Subtasks
    BY <2>3, <2>4, <2>6 DEF Lifecycle!GiveUp, Lifecycle!Move, Lifecycle!Subtasks, JobIds
  <2> QED BY <2>7 DEF Lifecycle!LifecycleNext
<1> QED BY <1>2, <1>3

(* Stopping a worker moves no job.                                         *)
LEMMA ShutdownMovesNoJob ==
    ASSUME IndInv, ShutdownIdleWorker
    PROVE  UNCHANGED jobStates
<1>1. /\ StateInv(sched) /\ sched \in SchedulerStates /\ sched.enforce = "holds"
      /\ sched.idleWorkers # <<>> /\ sched' = StopNextIdleWorker(sched)
  BY DEF IndInv, ShutdownIdleWorker, TypeOK, Running
<1>2. /\ sched'.allJobList = sched.allJobList
      /\ sched'.pendingJobs = sched.pendingJobs
      /\ sched'.wipJobs = sched.wipJobs
      /\ sched'.maybeErroredJobs = sched.maybeErroredJobs
  BY <1>1, StopNextIdleWorkerKeepsInv
<1> QED BY <1>2, SameCollections

(* Every step of the loop is a step of the lifecycle or moves no job.      *)
LEMMA NextIsLifecycle ==
    IndInv /\ [SchedNext]_schedVars => [Lifecycle!LifecycleNext]_jobStates
<1> SUFFICES ASSUME IndInv, [SchedNext]_schedVars
             PROVE  Lifecycle!LifecycleNext \/ UNCHANGED jobStates
  OBVIOUS
<1>0. sched \in SchedulerStates
  BY DEF IndInv, TypeOK
<1>1. ASSUME NEW batch \in Batches(nextCommand), NEW next \in 0 .. NumCommands,
             FirstRefill(batch, next) \/ RefillPendingJobs(batch, next)
      PROVE  Lifecycle!LifecycleNext
  <2>1. Running /\ sched.pendingJobs = <<>> /\ RefillJobs(batch, next)
    BY <1>1 DEF FirstRefill, RefillPendingJobs, IndInv, LoopInv
  <2> QED BY <2>1, RefillIsQueue
<1>2. CASE LeaveLoop \/ ContinueLoop
  <2>1. sched' = Enforce(sched, CountsAddUp(sched))
    BY <1>2 DEF LeaveLoop, ContinueLoop, CheckInvariants
  <2> QED BY <1>0, <2>1, EnforceMovesNoJob
<1>3. ASSUME NEW sent \in BOOLEAN, AssignJob(sent) PROVE Lifecycle!LifecycleNext
  BY <1>3, AssignIsStartOrDrop
<1>4. CASE ShutdownIdleWorker
  BY <1>4, ShutdownMovesNoJob
<1>5. CASE BeginReceive
  <2>1. sched' = Enforce(sched, sched.wipJobs # {})
    BY <1>5 DEF BeginReceive
  <2> QED BY <1>0, <2>1, EnforceMovesNoJob
<1>6. ASSUME NEW w \in Workers, NEW j \in JobIds, NEW kind \in {SemaKind, EmitKind},
             NEW sent \in BOOLEAN,
             ResponseContract(w, j, kind), HandleResponse(w, j, kind, sent)
      PROVE  Lifecycle!LifecycleNext
  BY <1>6, ResponseIsAnswer
<1>7. ASSUME NEW instant, BeginScan(instant) PROVE UNCHANGED jobStates
  <2>1. sched' = Enforce(sched, CountsAddUp(sched))
    BY <1>7 DEF BeginScan, CheckInvariants
  <2> QED BY <1>0, <2>1, EnforceMovesNoJob
<1>8. CASE ReceiveTimeout \/ \E instant \in Deadlines : StopDraining(instant)
  BY <1>7, <1>8 DEF ReceiveTimeout, StopDraining
<1>9. CASE ScanWorker
  BY <1>9, ScanIsGiveUp
<1>10. CASE EndScan \/ StayOver \/ UNCHANGED schedVars
  <2>1. sched' = sched
    BY <1>10 DEF EndScan, StayOver, schedVars
  <2> QED BY <2>1, SameCollections
<1>11. CASE Finish
  <2>1. StateInv(sched)
    BY <1>11 DEF Finish, IndInv
  <2>2. sched' = Enforce(sched, Len(sched.stoppedWorkers) = NumWorkers)
    BY <1>11, <2>1, CheckInvariantsPasses DEF Finish
  <2> QED BY <1>0, <2>2, EnforceMovesNoJob
<1> QED BY <1>1, <1>2, <1>3, <1>4, <1>5, <1>6, <1>8, <1>9, <1>10, <1>11 DEF SchedNext

------------------------------------------------------------------------------
(* The loop of class Scheduler implements the lifecycle of jobs, for any   *)
(* number of workers and commands and whichever requests are too large: an *)
(* analysis is queued once and run at most once, its emission starts in    *)
(* the step that settles it, and no more jobs run than there are workers.  *)
THEOREM LifecycleImplemented == SchedSpec => ImplementsLifecycle
<1>1. SchedInit => Lifecycle!LifecycleInit
  <2> SUFFICES ASSUME SchedInit PROVE jobStates = [j \in JobIds |-> "unknown"]
    BY DEF Lifecycle!LifecycleInit, Lifecycle!Subtasks, JobIds
  <2>1. /\ sched.pendingJobs = <<>> /\ sched.wipJobs = {}
        /\ sched.maybeErroredJobs = {} /\ sched.allJobList = {}
    BY DEF SchedInit, InitialState
  <2>2. Elems(sched.pendingJobs) = {}
    BY <2>1 DEF Elems
  <2> QED BY <2>1, <2>2 DEF jobStates, JobStateOf
<1>2. IndInv /\ [SchedNext]_schedVars => [Lifecycle!LifecycleNext]_jobStates
  BY NextIsLifecycle
<1> QED
  BY <1>1, <1>2, Invariance, PTL
     DEF SchedSpec, ImplementsLifecycle, Lifecycle!LifecycleSpec
=============================================================================
