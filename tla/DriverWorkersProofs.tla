------------------------- MODULE DriverWorkersProofs -------------------------
(***************************************************************************)
(* Proofs about the driver with its queues and workers that hold for every *)
(* fault and every kind of command: the shape of the state, the loop while *)
(* no ENFORCE failed, and the files from the plan to the shards.           *)
(***************************************************************************)
EXTENDS DriverWorkersInvariant, SchedulerProofs, NumberProofs

------------------------------------------------------------------------------
(***************************************************************************)
(* What ResumableParser::parseMore returns is what refillJobs of           *)
(* Scheduler.tla expects: a batch of later commands, in order, of at most  *)
(* RefillLimit commands, and none only at the end of the database.         *)
(***************************************************************************)

(* The sequence b lists the elements of S in increasing order.             *)
Lists(b, S) ==
    /\ Elems(b) = S
    /\ \A i, k \in DOMAIN b : i < k => b[i] < b[k]

(* A set of m consecutive numbers, with some left out, can be listed in a  *)
(* sequence of at most m elements.                                         *)
LEMMA Listing ==
    ASSUME NEW S, S \subseteq Nat, NEW a \in Nat, NEW n \in Nat,
           \A x \in S : a <= x /\ x < a + n
    PROVE  \E b \in Seq(Nat) : Len(b) <= n /\ Lists(b, S)
<1> DEFINE BelowBound(m) == {x \in Nat : x \in S /\ x < a + m}
           Listed(m) == \E b \in Seq(Nat) : Len(b) <= m /\ Lists(b, BelowBound(m))
           T == {m \in Nat : ~ Listed(m)}
<1>1. Listed(0)
  <2>1. BelowBound(0) = {}
    OBVIOUS
  <2>2. <<>> \in Seq(Nat) /\ Len(<<>>) <= 0 /\ Lists(<<>>, {})
    BY DEF Lists, Elems
  <2> QED BY <2>1, <2>2
<1>2. ASSUME NEW m \in Nat, Listed(m) PROVE Listed(m + 1)
  <2>1. PICK b \in Seq(Nat) : Len(b) <= m /\ Lists(b, BelowBound(m))
    BY <1>2
  <2>2. CASE a + m \notin S
    <3>1. BelowBound(m + 1) = BelowBound(m)
      BY <2>2
    <3>2. Len(b) <= m + 1
      BY <2>1
    <3> QED BY <2>1, <3>1, <3>2
  <2>3. CASE a + m \in S
    <3> DEFINE c == Append(b, a + m)
    <3>1. /\ c \in Seq(Nat) /\ Len(c) = Len(b) + 1
          /\ Elems(c) = Elems(b) \cup {a + m}
      BY PushBackDeque
    <3>2. BelowBound(m + 1) = BelowBound(m) \cup {a + m}
      BY <2>3
    <3>3. \A i \in 1 .. Len(b) : c[i] = b[i] /\ b[i] < a + m
      <4>1. \A i \in 1 .. Len(b) : b[i] \in BelowBound(m) /\ c[i] = b[i]
        BY <2>1 DEF Lists, Elems
      <4> QED BY <4>1
    <3>4. c[Len(b) + 1] = a + m /\ DOMAIN c = 1 .. (Len(b) + 1) /\ DOMAIN b = 1 .. Len(b)
      BY <3>1
    <3> HIDE DEF c
    <3>5. ASSUME NEW i \in DOMAIN c, NEW k \in DOMAIN c, i < k PROVE c[i] < c[k]
      <4>1. i \in 1 .. Len(b)
        BY <3>4, <3>5
      <4>2. CASE k = Len(b) + 1
        BY <3>3, <3>4, <4>1, <4>2
      <4>3. CASE k \in 1 .. Len(b)
        BY <2>1, <3>3, <3>4, <3>5, <4>1, <4>3 DEF Lists
      <4> QED BY <3>4, <4>2, <4>3
    <3>6. Lists(c, BelowBound(m + 1))
      BY <2>1, <3>1, <3>2, <3>5 DEF Lists
    <3>7. Len(c) <= m + 1
      BY <2>1, <3>1
    <3> QED BY <3>1, <3>6, <3>7
  <2> QED BY <2>2, <2>3
<1> HIDE DEF Listed
<1>3. T = {}
  <2> SUFFICES ASSUME T # {} PROVE FALSE
    OBVIOUS
  <2>1. PICK m \in T : \A k \in T : m <= k
    BY LeastNatural
  <2>2. m \in Nat /\ m # 0
    BY <1>1, <2>1
  <2>3. m - 1 \in Nat /\ m - 1 \notin T /\ (m - 1) + 1 = m
    BY <2>1, <2>2
  <2>4. Listed(m)
    BY <1>2, <2>3
  <2> QED BY <2>1, <2>4
<1>4. Listed(n)
  BY <1>3
<1>5. BelowBound(n) = S
  OBVIOUS
<1> QED BY <1>4, <1>5 DEF Listed

(* The group that parseMore stops at exists.                               *)
LEMMA LastGroupExists ==
    ASSUME NEW n \in 0 .. NumCommands
    PROVE  /\ RefillLimit \in Nat \ {0}
           /\ LastGroup(n) \in 0 .. NumCommands
           /\ \/ ~ (Group(n, LastGroup(n)) \subseteq Skipped)
              \/ n + (LastGroup(n) + 1) * RefillLimit >= NumCommands
<1> DEFINE ends == {k \in 0 .. NumCommands :
                      \/ ~ (Group(n, k) \subseteq Skipped)
                      \/ n + (k + 1) * RefillLimit >= NumCommands}
<1>1. RefillLimit \in Nat \ {0}
  BY NumWorkersAssumption DEF RefillLimit
<1>2. n + (NumCommands + 1) * RefillLimit >= NumCommands
  <2>1. \A R \in Nat \ {0}, c \in Nat : (c + 1) * R >= c
    OBVIOUS
  <2>2. \A x \in Nat : x >= NumCommands => n + x >= NumCommands
    BY NumCommandsAssumption
  <2>3. (NumCommands + 1) * RefillLimit \in Nat
    BY <1>1, NumCommandsAssumption
  <2> QED BY <1>1, <2>1, <2>2, <2>3, NumCommandsAssumption
<1>3. NumCommands \in ends
  BY <1>2, NumCommandsAssumption
<1>4. ends \subseteq Nat
  BY NumCommandsAssumption
<1>5. PICK k \in ends : \A i \in ends : k <= i
  BY <1>3, <1>4, LeastNatural
<1>6. LastGroup(n) \in ends
  BY <1>5 DEF LastGroup
<1> QED BY <1>1, <1>6

(* parseMore returns a batch of refillJobs.                                *)
LEMMA ParseMoreIsBatch ==
    ASSUME NEW n \in 0 .. NumCommands
    PROVE  /\ ParseMore(n) \in Batches(n)
           /\ ParseEnd(n) \in n .. NumCommands
           /\ \A i \in DOMAIN ParseMore(n) : ParseMore(n)[i] < ParseEnd(n)
           /\ ParseMore(n) = <<>> => ParseEnd(n) = NumCommands
<1> DEFINE k == LastGroup(n)
           start == n + k * RefillLimit
           S == Group(n, k) \ Skipped
<1>1. /\ RefillLimit \in Nat \ {0} /\ k \in Nat /\ NumCommands \in Nat /\ n \in Nat
      /\ ~ (Group(n, k) \subseteq Skipped) \/ n + (k + 1) * RefillLimit >= NumCommands
  BY LastGroupExists, NumCommandsAssumption
<1>2. n + (k + 1) * RefillLimit = start + RefillLimit /\ start \in Nat /\ start >= n
  <2>1. \A x, R \in Nat : (x + 1) * R = x * R + R /\ x * R \in Nat
    OBVIOUS
  <2>2. (k + 1) * RefillLimit = k * RefillLimit + RefillLimit /\ k * RefillLimit \in Nat
    BY <1>1, <2>1
  <2> HIDE DEF k
  <2> QED BY <1>1, <2>2
<1>3. ParseEnd(n) = IF start + RefillLimit <= NumCommands THEN start + RefillLimit
                                                         ELSE NumCommands
  BY <1>2 DEF ParseEnd
<1>4. Group(n, k) = {c \in Tasks : start <= c /\ c < start + RefillLimit}
  BY <1>2 DEF Group
<1> HIDE DEF k, start
<1>5. ParseEnd(n) \in n .. NumCommands
  BY <1>1, <1>2, <1>3
<1>6. S \subseteq Nat /\ S \subseteq Tasks /\ \A x \in S : start <= x /\ x < start + RefillLimit
  BY <1>4, NumCommandsAssumption DEF Tasks
<1>7. \A x \in S : x >= n /\ x < ParseEnd(n)
  BY <1>1, <1>2, <1>3, <1>6, NumCommandsAssumption DEF Tasks
<1> HIDE DEF S
<1>8. PICK c \in Seq(Nat) : Len(c) <= RefillLimit /\ Lists(c, S)
  BY <1>1, <1>2, <1>6, Listing
<1> DEFINE b == ParseMore(n)
<1>9. b \in Batches(n) /\ Elems(b) = S
  <2>1. /\ DOMAIN c = 1 .. Len(c) /\ Len(c) \in Nat /\ Len(c) <= RefillLimit
        /\ Elems(c) = S /\ \A i, j \in DOMAIN c : i < j => c[i] < c[j]
        /\ \A i \in DOMAIN c : c[i] \in Nat
    BY <1>8 DEF Lists
  <2>2. c \in Bijection(1 .. Len(c), S)
    <3>1. c \in [1 .. Len(c) -> S] /\ \A x \in S : \E i \in 1 .. Len(c) : c[i] = x
      BY <2>1 DEF Elems
    <3>2. ASSUME NEW i \in 1 .. Len(c), NEW j \in 1 .. Len(c), c[i] = c[j] PROVE i = j
      <4>1. ~ (i < j) /\ ~ (j < i)
        BY <2>1, <3>2
      <4> QED BY <2>1, <4>1
    <3> QED BY <3>1, <3>2 DEF Bijection, Injection, Surjection, IsInjective
  <2>3. IsFiniteSet(1 .. Len(c)) /\ Cardinality(1 .. Len(c)) = Len(c)
    <3>1. \A m \in Nat : IsFiniteSet(1 .. m) /\ Cardinality(1 .. m) = m
      BY FS_Interval
    <3> QED BY <2>1, <3>1
  <2>4. IsFiniteSet(S) /\ Cardinality(S) = Len(c)
    BY <2>2, <2>3, FS_Bijection DEF ExistsBijection
  <2>5. c \in [1 .. Cardinality(S) -> S]
    BY <2>2, <2>4 DEF Bijection, Injection
  <2>6. /\ b \in [1 .. Cardinality(S) -> S]
        /\ \A i, j \in DOMAIN b : i < j => b[i] < b[j]
    BY <2>1, <2>5 DEF ParseMore, S, k
  <2> HIDE DEF b
  <2>7. b \in Injection(1 .. Cardinality(S), S)
    <3>1. ASSUME NEW i \in 1 .. Cardinality(S), NEW j \in 1 .. Cardinality(S), b[i] = b[j]
          PROVE  i = j
      <4>1. /\ i \in Nat /\ j \in Nat
            /\ i \in DOMAIN b /\ j \in DOMAIN b /\ b[i] \in Nat
        <5>1. i \in Nat /\ j \in Nat
          BY <2>1, <2>4
        <5>2. i \in DOMAIN b /\ j \in DOMAIN b /\ b[i] \in S
          BY <2>6
        <5> QED BY <1>6, <5>1, <5>2
      <4>2. ~ (i < j) /\ ~ (j < i)
        BY <2>6, <3>1, <4>1
      <4> QED BY <4>1, <4>2
    <3> QED BY <2>6, <3>1 DEF Injection, IsInjective
  <2>8. b \in Surjection(1 .. Cardinality(S), S)
    BY <2>3, <2>4, <2>7, FS_Injection
  <2>9. Elems(b) = S
    BY <2>6, <2>8 DEF Elems, Surjection
  <2>10. b \in UNION {[1 .. m -> Tasks] : m \in 0 .. RefillLimit}
    <3>1. Cardinality(S) \in 0 .. RefillLimit
      BY <1>1, <2>1, <2>4
    <3>2. b \in [1 .. Cardinality(S) -> Tasks]
      BY <1>6, <2>6
    <3> QED BY <3>1, <3>2
  <2>11. \A i \in DOMAIN b : b[i] >= n
    BY <1>7, <2>6
  <2> QED BY <2>6, <2>9, <2>10, <2>11 DEF Batches
<1>10. \A i \in DOMAIN ParseMore(n) : ParseMore(n)[i] < ParseEnd(n)
  BY <1>7, <1>9 DEF Elems
<1>11. ASSUME ParseMore(n) = <<>> PROVE ParseEnd(n) = NumCommands
  <2>1. S = {}
    BY <1>9, <1>11 DEF Elems
  <2>2. n + (k + 1) * RefillLimit >= NumCommands
    BY <1>1, <2>1 DEF S
  <2> QED BY <1>1, <1>2, <1>3, <2>2
<1> QED BY <1>5, <1>9, <1>10, <1>11

------------------------------------------------------------------------------
(***************************************************************************)
(* Queues, processes and ids.                                              *)
(***************************************************************************)

(* A job id is a task and a subtask.                                       *)
LEMMA JobParts ==
    ASSUME NEW j \in JobIds
    PROVE  /\ j = <<j[1], j[2]>> /\ j[1] \in Tasks /\ j[2] \in {0, 1} /\ j # None
           /\ j[2] = 0 => NextSubtask(j) = <<j[1], 1>>
           /\ <<j[1], 1>> \in JobIds /\ <<j[1], 0>> \in JobIds
           /\ JobKind(j) = SemaKind <=> j[2] = 0
           /\ JobKind(j) = EmitKind <=> j[2] = 1
BY NoneIsNoValue DEF JobIds, NextSubtask, JobKind, SemaKind, EmitKind

(* The fields of the messages.                                             *)
LEMMA MessageFields ==
    /\ \A r \in Requests : /\ r.id \in JobIds \cup {None} /\ r.files \subseteq Files
                           /\ r.kind \in {SemaKind, EmitKind}
    /\ \A r \in Responses : /\ r.worker \in Workers /\ r.job \in JobIds
                            /\ r.kind \in {SemaKind, EmitKind} /\ r.files \subseteq Files
BY DEF Requests, Responses

(* Worker w gets the request r in its queue, which was empty.              *)
Puts(w, r) ==
    /\ d2w[w] = <<>> /\ d2w'[w] # <<>> /\ d2w'[w][1] = r
    /\ \A v \in Workers : v # w => d2w'[v] = d2w[v]
    /\ d2w' \in [Workers -> Seq(Requests)]
    /\ \A v \in Workers : Len(d2w'[v]) <= 1

(* Worker w takes the request out of its queue, which is empty then.       *)
Takes(w) ==
    /\ d2w[w] # <<>> /\ d2w[w][1] = Head(d2w[w]) /\ d2w[w][1] \in Requests
    /\ d2w'[w] = <<>>
    /\ \A v \in Workers : v # w => d2w'[v] = d2w[v]
    /\ d2w' \in [Workers -> Seq(Requests)]
    /\ \A v \in Workers : Len(d2w'[v]) <= 1

(* The process of worker w becomes p.                                      *)
Turns(w, p) ==
    /\ proc'[w] = p /\ \A v \in Workers : v # w => proc'[v] = proc[v]
    /\ proc' \in [Workers -> ProcessStates]

(* A queue of one element is full.                                         *)
LEMMA QueueOfOne ==
    ASSUME NEW S, NEW q \in Seq(S), NEW e \in S
    PROVE  /\ Len(q) < 1 => q = <<>>
           /\ q = <<>> => Append(q, e) = <<e>>
           /\ Len(q) <= 1 /\ q # <<>> => Tail(q) = <<>> /\ Head(q) = q[1] /\ q[1] \in S
           /\ <<e>> \in Seq(S) /\ <<e>> # <<>> /\ <<e>>[1] = e /\ Len(<<e>>) = 1
           /\ <<>> \in Seq(S) /\ Len(<<>>) = 0
<1>1. Len(q) < 1 => q = <<>>
  OBVIOUS
<1>2. q = <<>> => Append(q, e) = <<e>>
  OBVIOUS
<1>3. ASSUME Len(q) <= 1, q # <<>> PROVE Tail(q) = <<>> /\ Head(q) = q[1] /\ q[1] \in S
  <2>1. Len(q) = 1 /\ q[1] \in S
    BY <1>3
  <2>2. Tail(q) \in Seq(S) /\ Len(Tail(q)) = 0
    BY <2>1
  <2>3. Tail(q) = <<>>
    BY <2>2, EmptySeq
  <2>4. Head(q) = q[1]
    OBVIOUS
  <2> QED BY <2>1, <2>3, <2>4
<1>4. <<e>> \in Seq(S) /\ <<e>> # <<>> /\ <<e>>[1] = e /\ Len(<<e>>) = 1
  OBVIOUS
<1>5. <<>> \in Seq(S) /\ Len(<<>>) = 0
  OBVIOUS
<1> QED BY <1>1, <1>2, <1>3, <1>4, <1>5

(* A send finds the queue empty and fills it.                              *)
LEMMA SendEffect ==
    ASSUME ShapeInv, NEW w \in Workers, NEW r \in Requests,
           CanSendToWorker(w), SendToWorker(w, r)
    PROVE  Puts(w, r)
<1>1. d2w \in [Workers -> Seq(Requests)] /\ \A v \in Workers : Len(d2w[v]) <= 1
  BY DEF ShapeInv, RequestShape
<1>2. d2w[w] = <<>> /\ Append(d2w[w], r) = <<r>>
  BY <1>1, QueueOfOne DEF CanSendToWorker
<1>3. d2w' = [d2w EXCEPT ![w] = <<r>>]
  BY <1>2 DEF SendToWorker
<1>4. <<r>> \in Seq(Requests) /\ <<r>> # <<>> /\ <<r>>[1] = r /\ Len(<<r>>) <= 1
  BY QueueOfOne
<1> DEFINE q == <<r>>
<1>5. d2w' = [d2w EXCEPT ![w] = q] /\ q \in Seq(Requests) /\ q # <<>> /\ q[1] = r /\ Len(q) <= 1
  BY <1>3, <1>4
<1> HIDE DEF q
<1> QED BY <1>1, <1>2, <1>5 DEF Puts

(* A receive empties the queue.                                            *)
LEMMA ReceiveEffect ==
    ASSUME ShapeInv, NEW w \in Workers, d2w[w] # <<>>, ReceiveFromDriver(w)
    PROVE  Takes(w)
<1>1. d2w \in [Workers -> Seq(Requests)] /\ \A v \in Workers : Len(d2w[v]) <= 1
  BY DEF ShapeInv, RequestShape
<1>2. /\ Tail(d2w[w]) = <<>> /\ d2w[w][1] = Head(d2w[w]) /\ d2w[w][1] \in Requests
      /\ <<>> \in Seq(Requests) /\ Len(<<>>) <= 1
  BY <1>1, QueueOfOne
<1>3. d2w' = [d2w EXCEPT ![w] = <<>>]
  BY <1>2 DEF ReceiveFromDriver
<1> QED BY <1>1, <1>2, <1>3 DEF Takes

(* A step of a process changes only its own entry.                         *)
LEMMA BecomeEffect ==
    ASSUME ShapeInv, NEW w \in Workers, NEW p \in ProcessStates,
           proc' = [proc EXCEPT ![w] = p]
    PROVE  Turns(w, p)
BY DEF ShapeInv, ProcessShape, Turns

(* A process record has the fields it is built from.                       *)
LEMMA ProcessFields ==
    ASSUME NEW pc \in {"starting", "idle", "sema", "waitEmit", "exited"} \cup EmitPcs,
           NEW job \in JobIds \cup {None}, NEW ran \in BOOLEAN,
           NEW files \in SUBSET Files, NEW main \in SUBSET Files
    PROVE  LET p == Process(pc, job, ran, files, main) IN
           /\ p \in ProcessStates
           /\ p.pc = pc /\ p.job = job /\ p.ran = ran /\ p.files = files /\ p.main = main
BY DEF Process, ProcessStates

(* The processes of a started, an exited and an idle worker.               *)
LEMMA IdleProcesses ==
    LET idle == Process("idle", None, FALSE, {}, {}) IN
    /\ Spawned \in ProcessStates /\ Spawned.pc = "starting"
    /\ Exited \in ProcessStates /\ Exited.pc = "exited"
    /\ idle \in ProcessStates /\ idle.pc = "idle"
BY DEF Spawned, Exited, Process, ProcessStates

(* A step to the next program counter leaves the request alone.            *)
LEMMA AdvanceEffect ==
    ASSUME ShapeInv, NEW w \in Workers,
           NEW pc \in {"starting", "idle", "sema", "waitEmit", "exited"} \cup EmitPcs,
           Become(w, [proc[w] EXCEPT !.pc = pc])
    PROVE  /\ Turns(w, [proc[w] EXCEPT !.pc = pc])
           /\ proc'[w].pc = pc /\ proc'[w].job = proc[w].job
           /\ proc'[w].ran = proc[w].ran /\ proc'[w].files = proc[w].files
           /\ proc'[w].main = proc[w].main
<1>1. proc \in [Workers -> ProcessStates]
  BY DEF ShapeInv, ProcessShape
<1>2. /\ [proc[w] EXCEPT !.pc = pc] \in ProcessStates
      /\ [proc[w] EXCEPT !.pc = pc].pc = pc
      /\ [proc[w] EXCEPT !.pc = pc].job = proc[w].job
      /\ [proc[w] EXCEPT !.pc = pc].ran = proc[w].ran
      /\ [proc[w] EXCEPT !.pc = pc].files = proc[w].files
      /\ [proc[w] EXCEPT !.pc = pc].main = proc[w].main
  BY <1>1 DEF ProcessStates
<1>3. Turns(w, [proc[w] EXCEPT !.pc = pc])
  BY <1>2, BecomeEffect DEF Become
<1> QED BY <1>2, <1>3 DEF Turns

------------------------------------------------------------------------------
(***************************************************************************)
(* Effects of the steps.                                                   *)
(***************************************************************************)

(* The driver's step is over for everything but the scheduler.             *)
Quiet == UNCHANGED <<driverVars, d2w, w2d, disk, proc>>

(* A process that works on no request.                                     *)
AtRest(p) == p.pc \in {"starting", "idle", "exited"}

(* Worker w drops what it was doing, if anything, and nothing else.        *)
Drops(w) ==
    /\ \E p \in ProcessStates : AtRest(p) /\ Turns(w, p)
    /\ UNCHANGED <<driverVars, w2d, disk>>

(* Starting, failing to start, giving up on the driver and dying of a      *)
(* crash leave a process that works on nothing.                            *)
LEMMA RestEffect ==
    ASSUME ShapeInv, NEW w \in Workers,
           OpenQueues(w) \/ FailToStart(w) \/ DriverTimeout(w) \/ Crash(w)
    PROVE  Drops(w) /\ UNCHANGED <<schedVars, d2w>>
<1>1. CASE OpenQueues(w)
  <2>1. /\ Turns(w, [proc[w] EXCEPT !.pc = "idle"]) /\ proc'[w].pc = "idle"
        /\ UNCHANGED <<schedVars, driverVars, d2w, w2d, disk>>
    BY <1>1, AdvanceEffect DEF OpenQueues, workerUnchanged
  <2>2. proc'[w] \in ProcessStates /\ AtRest(proc'[w]) /\ Turns(w, proc'[w])
    BY <2>1 DEF Turns, AtRest
  <2> QED BY <2>1, <2>2 DEF Drops
<1>2. CASE FailToStart(w) \/ DriverTimeout(w) \/ Crash(w)
  <2>1. /\ proc' = [proc EXCEPT ![w] = Exited]
        /\ UNCHANGED <<schedVars, driverVars, d2w, w2d, disk>>
    BY <1>2 DEF FailToStart, DriverTimeout, Crash, Become, workerUnchanged
  <2>2. Exited \in ProcessStates /\ AtRest(Exited) /\ Turns(w, Exited)
    BY <2>1, IdleProcesses, BecomeEffect DEF AtRest
  <2> QED BY <2>1, <2>2 DEF Drops
<1> QED BY <1>1, <1>2

(* A worker that takes its first request exits or analyses.                *)
Analyses(w) ==
    /\ d2w[w][1].id \in JobIds /\ d2w[w][1].kind = SemaKind
    /\ proc'[w].pc = "sema" /\ proc'[w].job = d2w[w][1].id
    /\ proc'[w].ran = (d2w[w][1].id[1] \notin NoSemaTasks)
    /\ proc'[w].files = {} /\ Turns(w, proc'[w])
    /\ UNCHANGED <<driverVars, w2d, disk>>

(* A worker that takes its first request exits or analyses.                *)
LEMMA ReceiveSemaEffect ==
    ASSUME ShapeInv, NEW w \in Workers, ReceiveSemaRequest(w)
    PROVE  Takes(w) /\ (Drops(w) \/ Analyses(w)) /\ UNCHANGED schedVars
<1>1. Takes(w) /\ UNCHANGED <<schedVars, driverVars, w2d, disk>>
  BY ReceiveEffect DEF ReceiveSemaRequest, workerUnchanged
<1> DEFINE r == d2w[w][1]
<1>2. r = Head(d2w[w]) /\ r.id \in JobIds \cup {None}
  BY <1>1, MessageFields DEF Takes
<1>3. CASE r.id = None \/ r.kind # SemaKind
  <2>1. proc' = [proc EXCEPT ![w] = Exited]
    BY <1>2, <1>3 DEF ReceiveSemaRequest, Become
  <2>2. Exited \in ProcessStates /\ AtRest(Exited) /\ Turns(w, Exited)
    BY <2>1, IdleProcesses, BecomeEffect DEF AtRest
  <2> QED BY <1>1, <2>2 DEF Drops
<1>4. CASE r.id # None /\ r.kind = SemaKind
  <2>1. PICK ran \in BOOLEAN : ran = (r.id[1] \notin NoSemaTasks)
    OBVIOUS
  <2> DEFINE p == Process("sema", r.id, ran, {}, {})
  <2>2. p \in ProcessStates /\ p.pc = "sema" /\ p.job = r.id /\ p.ran = ran /\ p.files = {}
    BY <1>2 DEF Process, ProcessStates
  <2>3. proc' = [proc EXCEPT ![w] = p]
    BY <1>2, <1>4, <2>1 DEF ReceiveSemaRequest, Become
  <2>4. Turns(w, p) /\ proc'[w] = p
    BY <2>2, <2>3, BecomeEffect DEF Turns
  <2> QED BY <1>1, <1>2, <1>4, <2>1, <2>2, <2>4 DEF Analyses
<1> QED BY <1>3, <1>4

(* A worker that waits for the emission exits or emits.                    *)
Emits(w) ==
    /\ d2w[w][1].id \in JobIds /\ proc[w].pc = "waitEmit"
    /\ proc[w].ran => d2w[w][1].kind = EmitKind
    /\ proc'[w].pc = "emit" /\ proc'[w].job = d2w[w][1].id
    /\ proc'[w].files = IF proc[w].ran THEN d2w[w][1].files ELSE {}
    /\ proc[w].ran => proc'[w].main = {MainFile[proc[w].job[1]]}
    /\ Turns(w, proc'[w])
    /\ UNCHANGED <<driverVars, w2d, disk>>

(* A worker that waits for the emission exits or emits.                    *)
LEMMA ReceiveEmitEffect ==
    ASSUME ShapeInv, NEW w \in Workers, ReceiveEmitRequest(w)
    PROVE  Takes(w) /\ (Drops(w) \/ Emits(w)) /\ UNCHANGED schedVars
<1>1. /\ Takes(w) /\ UNCHANGED <<schedVars, driverVars, w2d, disk>>
      /\ proc[w].pc = "waitEmit"
  BY ReceiveEffect DEF ReceiveEmitRequest, workerUnchanged
<1> DEFINE r == d2w[w][1]
<1>2. r = Head(d2w[w]) /\ r.id \in JobIds \cup {None} /\ r.files \subseteq Files
  BY <1>1, MessageFields DEF Takes
<1>3. CASE r.id = None \/ (proc[w].ran /\ r.kind # EmitKind)
  <2>1. proc' = [proc EXCEPT ![w] = Exited]
    BY <1>2, <1>3 DEF ReceiveEmitRequest, Become
  <2>2. Exited \in ProcessStates /\ AtRest(Exited) /\ Turns(w, Exited)
    BY <2>1, IdleProcesses, BecomeEffect DEF AtRest
  <2> QED BY <1>1, <2>2 DEF Drops
<1>4. CASE r.id # None /\ ~ (proc[w].ran /\ r.kind # EmitKind)
  <2> DEFINE files == IF proc[w].ran THEN r.files ELSE {}
             main == IF proc[w].ran THEN {MainFile[proc[w].job[1]]} ELSE {}
             p == Process("emit", r.id, proc[w].ran, files, main)
  <2>1. proc' = [proc EXCEPT ![w] = p]
    <3>1. proc[w].ran \in BOOLEAN
      BY DEF ShapeInv, ProcessShape, ProcessStates
    <3>2. CASE proc[w].ran = TRUE
      BY <1>2, <1>4, <3>2 DEF ReceiveEmitRequest, Become
    <3>3. CASE proc[w].ran = FALSE
      BY <1>2, <1>4, <3>3 DEF ReceiveEmitRequest, Become
    <3> QED BY <3>1, <3>2, <3>3
  <2>2. files \in SUBSET Files /\ proc[w].ran \in BOOLEAN /\ "emit" \in EmitPcs
    BY <1>2 DEF ShapeInv, ProcessShape, ProcessStates, EmitPcs
  <2>3. main \in SUBSET Files
    <3>1. proc[w].job \in JobIds
      BY <1>1 DEF ShapeInv, ProcessShape, ProcessStates
    <3>2. MainFile[proc[w].job[1]] \in Files
      BY <3>1, JobParts, MainFileAssumption DEF Files
    <3> QED BY <3>2
  <2> HIDE DEF files, main
  <2>4. p \in ProcessStates /\ p.pc = "emit" /\ p.job = r.id /\ p.files = files /\ p.main = main
    BY <1>2, <1>4, <2>2, <2>3, ProcessFields
  <2>5. Turns(w, p) /\ proc'[w] = p
    BY <2>1, <2>4, BecomeEffect DEF Turns
  <2> QED BY <1>1, <1>2, <1>4, <2>4, <2>5 DEF Emits, files, main
<1> QED BY <1>3, <1>4

(* A worker sends the result of its analysis.                              *)
SemaResult(w) ==
    Response(w, proc[w].job, SemaKind, IF proc[w].ran THEN SemaFiles[proc[w].job[1]] ELSE {})

(* The result r is appended to the queue of results.                       *)
Reports(r) ==
    /\ w2d' = Append(w2d, r) /\ w2d' \in Seq(Responses) /\ Len(w2d') <= NumWorkers
    /\ Elems(w2d') = Elems(w2d) \cup {r}
    /\ Distinct(w2d) /\ r \notin Elems(w2d) => Distinct(w2d')

(* A send to the driver appends one result and stays within the capacity.  *)
LEMMA ReportEffect ==
    ASSUME ShapeInv, NEW r \in Responses, CanSendToDriver, SendToDriver(r)
    PROVE  Reports(r)
<1>1. w2d \in Seq(Responses) /\ Len(w2d) < NumWorkers
  BY DEF ShapeInv, ResponseShape, CanSendToDriver
<1>2. Len(w2d) \in Nat /\ Len(w2d) + 1 <= NumWorkers
  BY <1>1, NumWorkersAssumption
<1> QED BY <1>1, <1>2, PushBackDeque DEF Reports, SendToDriver

(* A worker reports its own analysis and then waits for the emission.      *)
LEMMA SendSemaEffect ==
    ASSUME ShapeInv, NEW w \in Workers, SendSemaResult(w)
    PROVE  /\ LET r == SemaResult(w) IN
              /\ r \in Responses /\ Reports(r)
              /\ r.worker = w /\ r.job = proc[w].job /\ r.kind = SemaKind
              /\ r.files = IF proc[w].ran THEN SemaFiles[proc[w].job[1]] ELSE {}
           /\ proc[w].pc = "sema" /\ proc[w].job \in JobIds /\ proc[w].job[2] = 0
           /\ Turns(w, proc'[w]) /\ proc'[w].pc = "waitEmit" /\ proc'[w].ran = proc[w].ran
           /\ proc'[w].job = proc[w].job
           /\ UNCHANGED <<schedVars, driverVars, d2w, disk>>
<1>1. /\ proc[w].pc = "sema" /\ proc[w].job \in JobIds /\ proc[w].job[2] = 0
      /\ UNCHANGED <<schedVars, driverVars, d2w, disk>>
  BY DEF SendSemaResult, ShapeInv, ProcessShape, ProcessStates, workerUnchanged
<1>2. /\ Turns(w, proc'[w]) /\ proc'[w].pc = "waitEmit" /\ proc'[w].ran = proc[w].ran
      /\ proc'[w].job = proc[w].job
  BY AdvanceEffect DEF SendSemaResult, Turns
<1> DEFINE files == IF proc[w].ran THEN SemaFiles[proc[w].job[1]] ELSE {}
           r == Response(w, proc[w].job, SemaKind, files)
<1>3. files \subseteq Files
  BY <1>1, JobParts DEF Files
<1> HIDE DEF files
<1>4. /\ r \in Responses /\ r.worker = w /\ r.job = proc[w].job /\ r.kind = SemaKind
      /\ r.files = files
  BY <1>1, <1>3 DEF Response, Responses
<1>5. r = SemaResult(w) /\ Reports(r)
  <2>1. r = SemaResult(w)
    BY DEF SemaResult, files
  <2>2. CanSendToDriver /\ SendToDriver(r)
    BY DEF SendSemaResult, files
  <2> QED BY <1>4, <2>1, <2>2, ReportEffect
<1> QED BY <1>1, <1>2, <1>4, <1>5 DEF files

(* A worker reports its shard.                                             *)
LEMMA SendEmitEffect ==
    ASSUME ShapeInv, NEW w \in Workers, SendEmitResult(w)
    PROVE  /\ LET r == Response(w, proc[w].job, EmitKind, {}) IN
              /\ r \in Responses /\ Reports(r)
              /\ r.worker = w /\ r.job = proc[w].job /\ r.kind = EmitKind
           /\ proc[w].pc = "emitted" /\ proc[w].job \in JobIds
           /\ Turns(w, proc'[w]) /\ proc'[w].pc = "idle"
           /\ UNCHANGED <<schedVars, driverVars, d2w, disk>>
<1>1. /\ proc[w].pc = "emitted" /\ proc[w].job \in JobIds
      /\ UNCHANGED <<schedVars, driverVars, d2w, disk>>
  BY DEF SendEmitResult, ShapeInv, ProcessShape, ProcessStates, EmitPcs, workerUnchanged
<1>2. Turns(w, proc'[w]) /\ proc'[w].pc = "idle"
  BY IdleProcesses, BecomeEffect DEF SendEmitResult, Become, Turns
<1> DEFINE r == Response(w, proc[w].job, EmitKind, {})
<1>3. r \in Responses /\ r.worker = w /\ r.job = proc[w].job /\ r.kind = EmitKind
  BY <1>1 DEF Response, Responses
<1>4. Reports(r)
  BY <1>3, ReportEffect DEF SendEmitResult
<1> QED BY <1>1, <1>2, <1>3, <1>4

(* A worker writes one file of its shard and goes on to pc.                *)
Writes(w, part, pc) ==
    /\ proc[w].pc \in EmitPcs /\ proc[w].job \in JobIds
    /\ Shard(w, part) \in Shards
    /\ Shard(w, part).task = proc[w].job[1] /\ Shard(w, part).worker = w
    /\ Shard(w, part).part = part /\ Shard(w, part).files = proc[w].files
    /\ Shard(w, part).main = proc[w].main
    /\ EmitIndex(w, part)
    /\ Turns(w, proc'[w]) /\ proc'[w].pc = pc /\ proc'[w].job = proc[w].job
    /\ proc'[w].files = proc[w].files /\ proc'[w].main = proc[w].main
    /\ UNCHANGED <<driverVars, d2w, w2d>>

(* A worker writes the documents first and the forward declarations next.  *)
LEMMA EmitEffect ==
    ASSUME ShapeInv, NEW w \in Workers
    PROVE  /\ EmitDocsAndExternals(w) =>
                 /\ proc[w].pc = "emit" /\ UNCHANGED schedVars
                 /\ Writes(w, "docsAndExternals", "emitDecls")
           /\ EmitForwardDecls(w) =>
                 /\ proc[w].pc = "emitDecls" /\ UNCHANGED schedVars
                 /\ Writes(w, "forwardDecls", "emitted")
<1>1. ASSUME proc[w].pc \in EmitPcs, NEW part \in {"docsAndExternals", "forwardDecls"}
      PROVE  /\ proc[w].job \in JobIds /\ Shard(w, part) \in Shards
             /\ Shard(w, part).task = proc[w].job[1] /\ Shard(w, part).worker = w
             /\ Shard(w, part).part = part /\ Shard(w, part).files = proc[w].files
             /\ Shard(w, part).main = proc[w].main
  <2>1. proc[w].job \in JobIds /\ proc[w].files \subseteq Files /\ proc[w].main \subseteq Files
    BY <1>1 DEF ShapeInv, ProcessShape, ProcessStates
  <2>2. proc[w].job[1] \in Tasks
    BY <2>1, JobParts
  <2> QED BY <2>1, <2>2 DEF Shard, Shards
<1>2. ASSUME EmitDocsAndExternals(w)
      PROVE  /\ proc[w].pc = "emit" /\ UNCHANGED schedVars
             /\ Writes(w, "docsAndExternals", "emitDecls")
  <2>1. /\ proc[w].pc = "emit" /\ UNCHANGED <<schedVars, driverVars, d2w, w2d>>
        /\ EmitIndex(w, "docsAndExternals")
        /\ Become(w, [proc[w] EXCEPT !.pc = "emitDecls"])
    BY <1>2 DEF EmitDocsAndExternals, workerUnchanged
  <2>2. proc[w].pc \in EmitPcs /\ "emitDecls" \in EmitPcs
    BY <2>1 DEF EmitPcs
  <2>3. /\ Turns(w, proc'[w]) /\ proc'[w].pc = "emitDecls" /\ proc'[w].job = proc[w].job
        /\ proc'[w].files = proc[w].files /\ proc'[w].main = proc[w].main
    BY <2>1, <2>2, AdvanceEffect DEF Turns
  <2> QED BY <1>1, <2>1, <2>2, <2>3 DEF Writes
<1>3. ASSUME EmitForwardDecls(w)
      PROVE  /\ proc[w].pc = "emitDecls" /\ UNCHANGED schedVars
             /\ Writes(w, "forwardDecls", "emitted")
  <2>1. /\ proc[w].pc = "emitDecls" /\ UNCHANGED <<schedVars, driverVars, d2w, w2d>>
        /\ EmitIndex(w, "forwardDecls")
        /\ Become(w, [proc[w] EXCEPT !.pc = "emitted"])
    BY <1>3 DEF EmitForwardDecls, workerUnchanged
  <2>2. proc[w].pc \in EmitPcs /\ "emitted" \in EmitPcs
    BY <2>1 DEF EmitPcs
  <2>3. /\ Turns(w, proc'[w]) /\ proc'[w].pc = "emitted" /\ proc'[w].job = proc[w].job
        /\ proc'[w].files = proc[w].files /\ proc'[w].main = proc[w].main
    BY <2>1, <2>2, AdvanceEffect DEF Turns
  <2> QED BY <1>1, <2>1, <2>2, <2>3 DEF Writes
<1> QED BY <1>2, <1>3

(* A request has the fields it is built from.                              *)
LEMMA RequestFields ==
    ASSUME NEW id \in JobIds \cup {None}, NEW kind \in {SemaKind, EmitKind},
           NEW files \in SUBSET Files
    PROVE  LET r == Request(id, kind, files) IN
           r \in Requests /\ r.id = id /\ r.kind = kind /\ r.files = files
BY DEF Request, Requests

(* While it runs the loop satisfies the invariant of Scheduler.tla.        *)
LEMMA RunningLoop ==
    ASSUME DriverInv, Running
    PROVE  /\ IndInv /\ StateInv(sched) /\ LoopInv /\ TypeOK
           /\ sched \in SchedulerStates /\ sched.enforce = "holds"
BY DEF DriverInv, IndInv, Running, TypeOK

(* An analysis is sent to the next idle worker.                            *)
SendsAnalysis ==
    LET w == Head(sched.idleWorkers)
        j == Head(sched.pendingJobs) IN
    /\ AssignJob(TRUE)
    /\ w \in Workers /\ j \in JobIds /\ j[2] = 0
    /\ Puts(w, Request(j, SemaKind, {}))
    /\ UNCHANGED <<driverVars, w2d, disk, proc>>

(* tryAssignJobToWorker sends an analysis, or changes the scheduler only.  *)
LEMMA AssignEffect ==
    ASSUME ShapeInv, DriverInv, TryAssignJobToWorker
    PROVE  SendsAnalysis \/ (AssignJob(FALSE) /\ Quiet)
<1> DEFINE w == Head(sched.idleWorkers)
           j == Head(sched.pendingJobs)
<1>1. CASE AssignJob(FALSE) /\ UNCHANGED d2w
  BY <1>1 DEF TryAssignJobToWorker, Quiet
<1>2. CASE AssignJob(TRUE) /\ CanSendToWorker(w)
           /\ SendToWorker(w, Request(j, SemaKind, {}))
  <2>1. Running /\ sched.idleWorkers # <<>> /\ sched.pendingJobs # <<>>
    BY <1>2 DEF AssignJob
  <2>2. /\ sched.idleWorkers \in Seq(Workers) /\ sched.pendingJobs \in Seq(JobIds)
        /\ PendingInv(sched)
    BY <2>1, RunningLoop, FieldTypes DEF StateInv
  <2>3. w \in Workers /\ j \in JobIds /\ j \in Elems(sched.pendingJobs)
    BY <2>1, <2>2, PopFrontDeque
  <2>4. j[2] = 0
    BY <2>2, <2>3 DEF PendingInv
  <2>5. Request(j, SemaKind, {}) \in Requests
    BY <2>3, RequestFields
  <2>6. Puts(w, Request(j, SemaKind, {}))
    BY <1>2, <2>3, <2>5, SendEffect
  <2> QED BY <1>2, <2>3, <2>4, <2>6 DEF SendsAnalysis, TryAssignJobToWorker
<1> QED BY <1>1, <1>2 DEF TryAssignJobToWorker

(* An idle worker is told to stop.                                         *)
SendsShutdown ==
    LET w == NextWorkerToStop(sched) IN
    /\ ShutdownIdleWorker
    /\ w \in Workers /\ sched.currentlyProcessing[w] = None
    /\ Puts(w, ShutdownRequest)
    /\ UNCHANGED <<driverVars, w2d, disk, proc>>

(* shutdownWorker sends to a worker that has no job.                       *)
LEMMA ShutdownEffect ==
    ASSUME ShapeInv, DriverInv, ShutdownWorker
    PROVE  SendsShutdown
<1>1. ShutdownIdleWorker /\ Running /\ sched.idleWorkers # <<>>
  BY DEF ShutdownWorker, ShutdownIdleWorker
<1>2. /\ NextWorkerToStop(sched) \in Workers
      /\ sched.currentlyProcessing[NextWorkerToStop(sched)] = None
  BY <1>1, RunningLoop, StopNextIdleWorkerKeepsInv
<1>3. ShutdownRequest \in Requests
  BY RequestFields DEF ShutdownRequest
<1>4. Puts(NextWorkerToStop(sched), ShutdownRequest)
  BY <1>2, <1>3, SendEffect DEF ShutdownWorker
<1> QED BY <1>1, <1>2, <1>4 DEF SendsShutdown, ShutdownWorker

(* The driver takes the result r out of the queue.                         *)
Pops(r) ==
    /\ w2d # <<>> /\ r = Head(w2d) /\ r \in Responses /\ r \in Elems(w2d)
    /\ w2d' \in Seq(Responses) /\ Len(w2d') <= NumWorkers
    /\ Elems(w2d') \subseteq Elems(w2d)
    /\ Distinct(w2d) => Distinct(w2d') /\ Elems(w2d') = Elems(w2d) \ {r}
    /\ UNCHANGED <<output, disk>>

(* The driver takes the first result out of the queue.                     *)
LEMMA PopEffect ==
    ASSUME ShapeInv, w2d # <<>>, w2d' = Tail(w2d), UNCHANGED <<output, disk>>
    PROVE  Pops(Head(w2d))
<1>1. w2d \in Seq(Responses) /\ Len(w2d) <= NumWorkers
  BY DEF ShapeInv, ResponseShape
<1>2. Len(Tail(w2d)) <= NumWorkers
  BY <1>1, PopFrontDeque, NumWorkersAssumption
<1> QED BY <1>1, <1>2, PopFrontDeque DEF Pops

(* The cases of processWorkerResponse.                                     *)
DropsResult(r) ==
    /\ Pops(r) /\ ~ IsCurrentJob(sched, r.worker, r.job)
    /\ HandleResponse(r.worker, r.job, r.kind, TRUE)
    /\ UNCHANGED <<hashesSoFar, shardPaths, indexedSoFar, d2w, proc>>

MergesResult(r) ==
    /\ Pops(r) /\ IsCurrentJob(sched, r.worker, r.job) /\ r.kind = EmitKind
    /\ HandleResponse(r.worker, r.job, r.kind, TRUE)
    /\ \/ /\ sched'.enforce = "holds"
          /\ shardPaths' = Append(shardPaths, <<r.job[1], r.worker>>)
          /\ indexedSoFar' = indexedSoFar + 1
       \/ sched'.enforce # "holds" /\ UNCHANGED <<shardPaths, indexedSoFar>>
    /\ UNCHANGED <<hashesSoFar, d2w, proc>>

PlansResult(r) ==
    /\ Pops(r) /\ IsCurrentJob(sched, r.worker, r.job) /\ r.kind = SemaKind
    /\ r.job[2] = 0 /\ NextSubtask(r.job) = <<r.job[1], 1>>
    /\ HandleResponse(r.worker, r.job, r.kind, TRUE)
    /\ hashesSoFar' = hashesSoFar \cup r.files
    /\ Puts(r.worker, Request(NextSubtask(r.job), EmitKind, r.files \ hashesSoFar))
    /\ UNCHANGED <<shardPaths, indexedSoFar, proc>>

LosesResult(r) ==
    /\ Pops(r) /\ IsCurrentJob(sched, r.worker, r.job) /\ r.kind = SemaKind
    /\ r.job[2] = 0 /\ NextSubtask(r.job) = <<r.job[1], 1>>
    /\ HandleResponse(r.worker, r.job, r.kind, FALSE)
    /\ hashesSoFar' = hashesSoFar \cup r.files
    /\ \/ sched'.enforce # "holds" /\ UNCHANGED proc
       \/ sched'.enforce = "holds" /\ Turns(r.worker, Spawned)
    /\ UNCHANGED <<shardPaths, indexedSoFar, d2w>>

HandlesResult(r) ==
    DropsResult(r) \/ MergesResult(r) \/ PlansResult(r) \/ LosesResult(r)

(* processWorkerResponse is one of the four cases for the first result.    *)
LEMMA ResponseEffect ==
    ASSUME ShapeInv, ProcessWorkerResponse
    PROVE  Head(w2d) \in Responses /\ HandlesResult(Head(w2d))
<1> DEFINE r == Head(w2d)
<1>1. Pops(r)
  BY PopEffect DEF ProcessWorkerResponse
<1>2. /\ r \in Responses /\ r.worker \in Workers /\ r.job \in JobIds
      /\ r.kind \in {SemaKind, EmitKind} /\ r.files \subseteq Files
      /\ r.kind = SemaKind => r.job[2] = 0
  BY <1>1, MessageFields DEF Pops, ShapeInv, ResponseShape
<1>3. CASE ~ IsCurrentJob(sched, r.worker, r.job)
  BY <1>1, <1>2, <1>3 DEF ProcessWorkerResponse, DropLateResult, DropsResult, HandlesResult
<1>4. CASE IsCurrentJob(sched, r.worker, r.job) /\ r.kind = EmitKind
  <2>1. ProcessEmitResult(r)
    BY <1>4 DEF ProcessWorkerResponse
  <2>2. MergesResult(r)
    BY <1>1, <1>4, <2>1 DEF ProcessEmitResult, MergesResult
  <2> QED BY <1>2, <2>2 DEF HandlesResult
<1>5. CASE IsCurrentJob(sched, r.worker, r.job) /\ r.kind # EmitKind
  <2>1. PICK sent \in BOOLEAN : ProcessSemaResult(r, sent)
    BY <1>5 DEF ProcessWorkerResponse
  <2>2. /\ r.kind = SemaKind /\ r.job[2] = 0 /\ NextSubtask(r.job) = <<r.job[1], 1>>
        /\ NextSubtask(r.job) \in JobIds
    BY <1>2, <1>5, JobParts
  <2>3. /\ HandleResponse(r.worker, r.job, r.kind, sent)
        /\ hashesSoFar' = hashesSoFar \cup r.files
        /\ UNCHANGED <<shardPaths, indexedSoFar>>
    BY <2>1 DEF ProcessSemaResult
  <2>4. CASE sent
    <3> DEFINE e == Request(NextSubtask(r.job), EmitKind, r.files \ hashesSoFar)
    <3>1. CanSendToWorker(r.worker) /\ SendToWorker(r.worker, e) /\ UNCHANGED proc
      BY <2>1, <2>4 DEF ProcessSemaResult, FilesToBeIndexed
    <3>2. e \in Requests
      <4>1. r.files \ hashesSoFar \in SUBSET Files
        BY <1>2
      <4> QED BY <2>2, <4>1, RequestFields
    <3>3. Puts(r.worker, e)
      BY <1>2, <3>1, <3>2, SendEffect
    <3>4. HandleResponse(r.worker, r.job, r.kind, TRUE)
      BY <2>3, <2>4
    <3> QED BY <1>1, <1>2, <1>5, <2>2, <2>3, <3>1, <3>3, <3>4 DEF PlansResult, HandlesResult
  <2>5. CASE ~ sent
    <3>1. /\ UNCHANGED d2w
          /\ proc' = IF sched'.enforce = "holds"
                     THEN [proc EXCEPT ![r.worker] = Spawned] ELSE proc
      BY <2>1, <2>5 DEF ProcessSemaResult
    <3>2. \/ sched'.enforce # "holds" /\ UNCHANGED proc
          \/ sched'.enforce = "holds" /\ Turns(r.worker, Spawned)
      BY <1>2, <3>1, IdleProcesses, BecomeEffect
    <3>3. HandleResponse(r.worker, r.job, r.kind, FALSE)
      <4>1. sent = FALSE
        BY <2>5
      <4> QED BY <2>3, <4>1
    <3> QED BY <1>1, <1>2, <1>5, <2>2, <2>3, <3>1, <3>2, <3>3 DEF LosesResult, HandlesResult
  <2> QED BY <2>4, <2>5
<1> QED BY <1>3, <1>4, <1>5

(* The scan replaces the process of a worker it gives up on.               *)
LEMMA ScanEffect ==
    ASSUME ShapeInv, DriverInv, TerminateLongRunningWorker
    PROVE  /\ ScanWorker /\ scan \in Workers
           /\ \/ ~ IsLongRunning(sched, scan, startedBefore) /\ Quiet
              \/ /\ IsLongRunning(sched, scan, startedBefore)
                 /\ Drops(scan) /\ UNCHANGED d2w
<1>1. ScanWorker /\ Running /\ scan < NumWorkers /\ UNCHANGED <<driverVars, d2w, w2d, disk>>
  BY DEF TerminateLongRunningWorker, ScanWorker
<1>2. scan \in Workers
  BY <1>1, RunningLoop, NumWorkersAssumption DEF TypeOK, Workers
<1>3. CASE IsLongRunning(sched, scan, startedBefore)
  <2>1. proc' = [proc EXCEPT ![scan] = Spawned]
    BY <1>3 DEF TerminateLongRunningWorker
  <2>2. Spawned \in ProcessStates /\ AtRest(Spawned) /\ Turns(scan, Spawned)
    BY <1>2, <2>1, IdleProcesses, BecomeEffect DEF AtRest
  <2> QED BY <1>1, <1>2, <1>3, <2>2 DEF Drops
<1>4. CASE ~ IsLongRunning(sched, scan, startedBefore)
  BY <1>1, <1>2, <1>4 DEF TerminateLongRunningWorker, Quiet
<1> QED BY <1>3, <1>4

(* The steps by what they do outside the scheduler.  A quiet one does      *)
(* nothing there.                                                          *)
QuietStep ==
    /\ Quiet
    /\ \/ DriverRefill
       \/ DriverInternal
       \/ AssignJob(FALSE)
       \/ NoMoreResults
       \/ ScanWorker /\ scan \in Workers /\ ~ IsLongRunning(sched, scan, startedBefore)
       \/ DriverCrash
       \/ UNCHANGED schedVars

GivesUpWorker ==
    /\ ScanWorker /\ scan \in Workers /\ IsLongRunning(sched, scan, startedBefore)
    /\ Drops(scan) /\ UNCHANGED d2w

WorkerStep(w) ==
    /\ UNCHANGED schedVars
    /\ \/ Drops(w) /\ UNCHANGED d2w
       \/ Drops(w) /\ Takes(w)
       \/ Analyses(w) /\ Takes(w)
       \/ Emits(w) /\ Takes(w)
       \/ SendSemaResult(w)
       \/ SendEmitResult(w)
       \/ proc[w].pc = "emit" /\ Writes(w, "docsAndExternals", "emitDecls")
       \/ proc[w].pc = "emitDecls" /\ Writes(w, "forwardDecls", "emitted")

(* Every step is one of these.                                             *)
LEMMA StepCases ==
    ASSUME ShapeInv, DriverInv, [Next]_vars
    PROVE  \/ QuietStep
           \/ SendsAnalysis
           \/ SendsShutdown
           \/ \E r \in Responses : HandlesResult(r)
           \/ GivesUpWorker
           \/ EmitScipIndex
           \/ \E w \in Workers : WorkerStep(w)
<1>1. CASE DriverRefill \/ DriverInternal \/ NoMoreResults \/ DriverCrash
  BY <1>1 DEF DriverRefill, DriverInternal, NoMoreResults, DriverCrash, QuietStep, Quiet
<1>2. CASE TryAssignJobToWorker
  BY <1>2, AssignEffect DEF QuietStep
<1>3. CASE ShutdownWorker
  BY <1>3, ShutdownEffect
<1>4. CASE ProcessWorkerResponse
  BY <1>4, ResponseEffect
<1>5. CASE TerminateLongRunningWorker
  BY <1>5, ScanEffect DEF QuietStep, GivesUpWorker
<1>6. CASE Terminated \/ UNCHANGED vars
  BY <1>6 DEF Terminated, vars, QuietStep, Quiet
<1>7. ASSUME NEW w \in Workers, Wait(w) \/ Work(w) \/ Crash(w)
      PROVE  WorkerStep(w)
  <2>1. CASE OpenQueues(w) \/ FailToStart(w) \/ DriverTimeout(w) \/ Crash(w)
    BY <2>1, RestEffect DEF WorkerStep
  <2>2. CASE ReceiveSemaRequest(w)
    BY <2>2, ReceiveSemaEffect DEF WorkerStep
  <2>3. CASE ReceiveEmitRequest(w)
    BY <2>3, ReceiveEmitEffect DEF WorkerStep
  <2>4. CASE SendSemaResult(w)
    BY <2>4, SendSemaEffect DEF WorkerStep
  <2>5. CASE SendEmitResult(w)
    BY <2>5, SendEmitEffect DEF WorkerStep
  <2>6. CASE EmitDocsAndExternals(w) \/ EmitForwardDecls(w)
    BY <2>6, EmitEffect DEF WorkerStep
  <2> QED BY <1>7, <2>1, <2>2, <2>3, <2>4, <2>5, <2>6 DEF Wait, Work
<1> QED BY <1>1, <1>2, <1>3, <1>4, <1>5, <1>6, <1>7 DEF Next, DriverNext

------------------------------------------------------------------------------
(***************************************************************************)
(* The shape of the state.                                                 *)
(***************************************************************************)

(* All queues are empty and all processes starting.                        *)
LEMMA InitShape == Init => ShapeInv
<1> SUFFICES ASSUME Init PROVE ShapeInv
  OBVIOUS
<1>1. RequestShape
  <2>1. <<>> \in Seq(Requests) /\ Len(<<>>) <= 1
    OBVIOUS
  <2>2. \A w \in Workers : d2w[w] = <<>>
    BY DEF Init
  <2>3. d2w \in [Workers -> Seq(Requests)]
    BY <2>1 DEF Init
  <2> QED BY <2>1, <2>2, <2>3 DEF RequestShape
<1>2. ResponseShape
  <2>1. w2d = <<>> /\ <<>> \in Seq(Responses) /\ Len(<<>>) = 0 /\ Elems(<<>>) = {}
    BY DEF Init, Elems
  <2> QED BY <2>1, NumWorkersAssumption DEF ResponseShape
<1>3. ProcessShape
  BY IdleProcesses DEF Init, ProcessShape, EmitPcs
<1>4. FileShape
  BY DEF Init, FileShape
<1> QED BY <1>1, <1>2, <1>3, <1>4 DEF ShapeInv

(* A new request for an analysis is for subtask 0.                         *)
LEMMA PutsShape ==
    ASSUME ShapeInv, NEW w \in Workers, NEW r \in Requests, Puts(w, r),
           r.id # None => (r.kind = SemaKind => r.id[2] = 0)
    PROVE  RequestShape'
BY DEF ShapeInv, RequestShape, Puts

(* A queue that a request was taken from is empty.                         *)
LEMMA TakesShape ==
    ASSUME ShapeInv, NEW w \in Workers, Takes(w)
    PROVE  RequestShape'
BY DEF ShapeInv, RequestShape, Takes

(* A process that turns to a request turns to a job of the right subtask.  *)
LEMMA TurnsShape ==
    ASSUME ShapeInv, NEW w \in Workers, NEW p, Turns(w, p),
           p.pc \in {"sema", "waitEmit"} => p.job # None /\ p.job[2] = 0,
           p.pc \in EmitPcs => p.job # None
    PROVE  ProcessShape'
BY DEF ShapeInv, ProcessShape, Turns

(* A reported analysis is subtask 0.                                       *)
LEMMA ReportsShape ==
    ASSUME ShapeInv, NEW r \in Responses, Reports(r), r.kind = SemaKind => r.job[2] = 0
    PROVE  ResponseShape'
BY DEF ShapeInv, ResponseShape, Reports

(* What does not change keeps its shape.                                   *)
LEMMA SameShape ==
    ASSUME ShapeInv
    PROVE  /\ UNCHANGED d2w => RequestShape'
           /\ UNCHANGED w2d => ResponseShape'
           /\ UNCHANGED proc => ProcessShape'
           /\ UNCHANGED <<driverVars, disk>> => FileShape'
BY DEF ShapeInv, RequestShape, ResponseShape, ProcessShape, FileShape, driverVars

(* A result keeps the shape of the state.                                  *)
LEMMA ResultShape ==
    ASSUME ShapeInv, NEW r \in Responses, HandlesResult(r)
    PROVE  ShapeInv'
<1>1. Pops(r) /\ r.worker \in Workers /\ r.job \in JobIds /\ r.files \subseteq Files
  BY MessageFields DEF HandlesResult, DropsResult, MergesResult, PlansResult, LosesResult
<1>2. ResponseShape'
  BY <1>1 DEF ShapeInv, ResponseShape, Pops
<1>3. RequestShape'
  <2>1. CASE UNCHANGED d2w
    BY <2>1, SameShape
  <2>2. CASE PlansResult(r)
    <3> DEFINE e == Request(NextSubtask(r.job), EmitKind, r.files \ hashesSoFar)
    <3>1. r.files \ hashesSoFar \in SUBSET Files /\ NextSubtask(r.job) \in JobIds
      BY <1>1, <2>2, JobParts DEF PlansResult
    <3>2. e \in Requests /\ e.kind = EmitKind /\ Puts(r.worker, e)
      BY <2>2, <3>1, RequestFields DEF PlansResult
    <3>3. EmitKind # SemaKind
      BY DEF EmitKind, SemaKind
    <3> HIDE DEF e
    <3> QED BY <1>1, <3>2, <3>3, PutsShape
  <2> QED BY <2>1, <2>2 DEF HandlesResult, DropsResult, MergesResult, LosesResult
<1>4. ProcessShape'
  <2>1. CASE UNCHANGED proc
    BY <2>1, SameShape
  <2>2. CASE Turns(r.worker, Spawned)
    BY <1>1, <2>2, IdleProcesses, TurnsShape DEF EmitPcs
  <2> QED BY <2>1, <2>2 DEF HandlesResult, DropsResult, MergesResult, PlansResult, LosesResult
<1>5. FileShape'
  <2>1. /\ FileShape /\ disk' = disk /\ output' = output
        /\ shardPaths \in Seq(Tasks \X Workers) /\ indexedSoFar = Len(shardPaths)
    BY <1>1 DEF ShapeInv, FileShape, Pops
  <2>2. hashesSoFar' \subseteq Files
    BY <1>1, <2>1 DEF HandlesResult, DropsResult, MergesResult, PlansResult, LosesResult, FileShape
  <2>3. shardPaths' \in Seq(Tasks \X Workers) /\ indexedSoFar' = Len(shardPaths')
    <3>1. CASE UNCHANGED <<shardPaths, indexedSoFar>>
      BY <2>1, <3>1
    <3>2. CASE /\ shardPaths' = Append(shardPaths, <<r.job[1], r.worker>>)
               /\ indexedSoFar' = indexedSoFar + 1
      <4>1. <<r.job[1], r.worker>> \in Tasks \X Workers
        BY <1>1, JobParts
      <4> QED BY <2>1, <3>2, <4>1, PushBackDeque
    <3> QED BY <3>1, <3>2 DEF HandlesResult, DropsResult, MergesResult, PlansResult, LosesResult
  <2> QED BY <2>1, <2>2, <2>3 DEF FileShape
<1> QED BY <1>2, <1>3, <1>4, <1>5 DEF ShapeInv

(* A worker's step keeps the shape of the state.                           *)
LEMMA WorkerShape ==
    ASSUME ShapeInv, NEW w \in Workers, WorkerStep(w)
    PROVE  ShapeInv'
<1>1. ASSUME Drops(w) PROVE ProcessShape' /\ ResponseShape' /\ FileShape'
  <2>1. PICK p \in ProcessStates : AtRest(p) /\ Turns(w, p)
    BY <1>1 DEF Drops
  <2>2. ProcessShape'
    BY <2>1, TurnsShape DEF AtRest, EmitPcs
  <2> QED BY <1>1, <2>2, SameShape DEF Drops
<1>2. CASE Drops(w) /\ (UNCHANGED d2w \/ Takes(w))
  BY <1>1, <1>2, SameShape, TakesShape DEF ShapeInv
<1>3. CASE Analyses(w) /\ Takes(w)
  <2>1. d2w[w][1].id # None /\ d2w[w][1].id[2] = 0
    BY <1>3, JobParts DEF Analyses, Takes, ShapeInv, RequestShape
  <2>2. ProcessShape'
    BY <1>3, <2>1, TurnsShape DEF Analyses, EmitPcs
  <2> QED BY <1>3, <2>2, SameShape, TakesShape DEF Analyses, ShapeInv
<1>4. CASE Emits(w) /\ Takes(w)
  <2>1. ProcessShape'
    BY <1>4, JobParts, TurnsShape DEF Emits, EmitPcs
  <2> QED BY <1>4, <2>1, SameShape, TakesShape DEF Emits, ShapeInv
<1>5. CASE SendSemaResult(w)
  <2>1. ResponseShape'
    BY <1>5, SendSemaEffect, ReportsShape
  <2>2. /\ proc'[w].pc = "waitEmit" /\ Turns(w, proc'[w])
        /\ proc'[w].job # None /\ proc'[w].job[2] = 0
    BY <1>5, SendSemaEffect, NoneIsNoValue
  <2>3. ProcessShape'
    BY <2>2, TurnsShape DEF EmitPcs
  <2> QED BY <1>5, <2>1, <2>3, SendSemaEffect, SameShape DEF ShapeInv
<1>6. CASE SendEmitResult(w)
  <2>1. ResponseShape'
    BY <1>6, SendEmitEffect, ReportsShape DEF EmitKind, SemaKind
  <2>2. ProcessShape'
    BY <1>6, SendEmitEffect, TurnsShape DEF EmitPcs
  <2> QED BY <1>6, <2>1, <2>2, SendEmitEffect, SameShape DEF ShapeInv
<1>7. ASSUME NEW part, NEW pc \in {"emitDecls", "emitted"}, Writes(w, part, pc)
      PROVE  ShapeInv'
  <2>1. ProcessShape'
    BY <1>7, JobParts, TurnsShape DEF Writes
  <2>2. FileShape'
    BY <1>7 DEF ShapeInv, FileShape, Writes, EmitIndex, driverVars
  <2> QED BY <1>7, <2>1, <2>2, SameShape DEF Writes, ShapeInv
<1> QED BY <1>2, <1>3, <1>4, <1>5, <1>6, <1>7 DEF WorkerStep

(* Every step keeps the shape of the state.                                *)
LEMMA ShapeKept == ShapeInv /\ DriverInv /\ [Next]_vars => ShapeInv'
<1> SUFFICES ASSUME ShapeInv, DriverInv, [Next]_vars PROVE ShapeInv'
  OBVIOUS
<1>1. CASE QuietStep
  BY <1>1, SameShape DEF QuietStep, Quiet, ShapeInv
<1>2. CASE SendsAnalysis
  <2>1. RequestShape'
    BY <1>2, RequestFields, PutsShape DEF SendsAnalysis
  <2> QED BY <1>2, <2>1, SameShape DEF SendsAnalysis, ShapeInv
<1>3. CASE SendsShutdown
  <2>1. ShutdownRequest \in Requests /\ ShutdownRequest.id = None
    BY RequestFields DEF ShutdownRequest
  <2>2. RequestShape'
    BY <1>3, <2>1, PutsShape DEF SendsShutdown
  <2> QED BY <1>3, <2>2, SameShape DEF SendsShutdown, ShapeInv
<1>4. CASE \E r \in Responses : HandlesResult(r)
  BY <1>4, ResultShape
<1>5. CASE GivesUpWorker
  <2>1. PICK p \in ProcessStates : AtRest(p) /\ Turns(scan, p)
    BY <1>5 DEF GivesUpWorker, Drops
  <2>2. scan \in Workers /\ UNCHANGED <<driverVars, d2w, w2d, disk>>
    BY <1>5 DEF GivesUpWorker, Drops
  <2>3. ProcessShape'
    BY <2>1, <2>2, TurnsShape DEF AtRest, EmitPcs
  <2> QED BY <2>2, <2>3, SameShape DEF ShapeInv
<1>6. CASE EmitScipIndex
  <2> DEFINE merged == {e \in disk : /\ e.part = "docsAndExternals"
                                     /\ <<e.task, e.worker>> \in Elems(shardPaths)}
             documents == UNION {d.files \cup d.main : d \in merged}
  <2>1. output' = [written |-> TRUE, documents |-> documents]
    BY <1>6 DEF EmitScipIndex
  <2>2. \A d \in disk : d.files \subseteq Files /\ d.main \subseteq Files
    BY DEF ShapeInv, FileShape, Shards
  <2>3. documents \subseteq Files
    BY <2>2
  <2> HIDE DEF documents
  <2>4. output' \in [written : BOOLEAN, documents : SUBSET Files]
    BY <2>1, <2>3
  <2>5. FileShape'
    BY <1>6, <2>4 DEF EmitScipIndex, ShapeInv, FileShape
  <2> QED BY <1>6, <2>5, SameShape DEF EmitScipIndex, ShapeInv
<1>7. CASE \E w \in Workers : WorkerStep(w)
  BY <1>7, WorkerShape
<1> QED BY <1>1, <1>2, <1>3, <1>4, <1>5, <1>6, <1>7, StepCases

------------------------------------------------------------------------------
(***************************************************************************)
(* The loop while no ENFORCE failed.                                       *)
(***************************************************************************)

(* A failed ENFORCE stays failed.                                          *)
HasFailed(s) == "enforce" \in DOMAIN s /\ s.enforce = "failed"

(* The methods that processWorkerResponse calls after markCompleted leave  *)
(* a failed ENFORCE failed.                                                *)
LEMMA FailureStays ==
    ASSUME NEW s, HasFailed(s), NEW w, NEW j
    PROVE  /\ \A c : HasFailed(Enforce(s, c))
           /\ HasFailed(MarkWorkerIdle(s, w))
           /\ HasFailed(ScheduleJobOnWorker(s, w, j))
           /\ HasFailed(CheckInvariants(s))
<1>1. \A t, c : HasFailed(t) => HasFailed(Enforce(t, c))
  BY DEF HasFailed, Enforce
<1>2. HasFailed(MarkWorkerIdle(s, w))
  <2> DEFINE t == Enforce(s, s.currentlyProcessing[w] # None /\ s.status[w] = "Busy")
  <2>1. HasFailed(t)
    BY <1>1
  <2> HIDE DEF t
  <2>2. HasFailed([t EXCEPT !.currentlyProcessing[w] = None, !.status[w] = "Idle",
                            !.idleWorkers = <<w>> \o @])
    BY <2>1 DEF HasFailed
  <2> QED BY <2>2 DEF MarkWorkerIdle, t
<1>3. ASSUME NEW t, HasFailed(t) PROVE HasFailed(MarkWorkerBusy(t, w, j))
  <2> DEFINE u == Enforce(t, t.status[w] = "Idle" /\ t.currentlyProcessing[w] = None)
  <2>1. HasFailed(u)
    BY <1>1, <1>3
  <2> HIDE DEF u
  <2>2. HasFailed([u EXCEPT !.status[w] = "Busy", !.currentlyProcessing[w] = j,
                            !.startTime[w] = t.clock, !.clock = @ + 1])
    BY <2>1 DEF HasFailed
  <2> QED BY <2>2 DEF MarkWorkerBusy, u
<1>4. HasFailed(ScheduleJobOnWorker(s, w, j))
  <2> DEFINE t == Enforce(s, /\ w \notin Elems(s.idleWorkers) /\ j \in s.wipJobs
                             /\ j \in s.allJobList /\ s.assignedWorker[j] = None)
             u == MarkWorkerBusy(t, w, j)
  <2>1. HasFailed(u)
    BY <1>1, <1>3
  <2> HIDE DEF u
  <2>2. HasFailed([u EXCEPT !.assignedWorker[j] = w])
    BY <2>1 DEF HasFailed
  <2> QED BY <2>2 DEF ScheduleJobOnWorker, u
<1> QED BY <1>1, <1>2, <1>4 DEF CheckInvariants

(* markCompleted fails on a response that breaks the contract.             *)
LEMMA MarkCompletedChecks ==
    ASSUME NEW s \in SchedulerStates, StateInv(s), NEW w \in Workers, NEW j \in JobIds,
           NEW kind,
           ~ (/\ kind = JobKind(j) /\ s.assignedWorker[j] = w
              /\ s.currentlyProcessing[w] = j \/ j \in s.maybeErroredJobs)
    PROVE  HasFailed(MarkCompleted(s, w, j, kind))
<1> DEFINE t == Enforce(s, JobKind(j) = kind)
           e == CheckAssignedWorker(t, w, j)
<1>0. /\ "enforce" \in DOMAIN s
      /\ \A u, c : /\ "enforce" \in DOMAIN u => "enforce" \in DOMAIN Enforce(u, c)
                   /\ "enforce" \in DOMAIN u /\ ~ c => HasFailed(Enforce(u, c))
                   /\ HasFailed(u) => HasFailed(Enforce(u, c))
  BY DEF SchedulerStates, Enforce, HasFailed
<1>1. "enforce" \in DOMAIN t /\ "enforce" \in DOMAIN e
  BY <1>0 DEF CheckAssignedWorker
<1>2. JobKind(j) # kind => HasFailed(e)
  BY <1>0 DEF CheckAssignedWorker
<1>3. s.assignedWorker[j] # w => HasFailed(e)
  <2>1. t.assignedWorker = s.assignedWorker
    BY DEF Enforce, SchedulerStates
  <2> QED BY <1>0, <1>1, <2>1 DEF CheckAssignedWorker
<1> HIDE DEF e
<1>4. CASE IsCurrentJob(s, w, j)
  <2>1. HasFailed(e)
    BY <1>2, <1>3, <1>4 DEF IsCurrentJob
  <2> DEFINE u == MarkWorkerIdle(Enforce(e, j \in s.wipJobs), w)
  <2>2. HasFailed(u)
    <3>1. HasFailed(Enforce(e, j \in s.wipJobs))
      BY <1>0, <2>1
    <3> QED BY <3>1, FailureStays
  <2> HIDE DEF u
  <2>3. HasFailed([u EXCEPT !.wipJobs = @ \ {j}])
    BY <2>2 DEF HasFailed
  <2> QED BY <1>4, <2>3 DEF MarkCompleted, u, e
<1>5. CASE ~ IsCurrentJob(s, w, j)
  <2> DEFINE u == Enforce(e, j \in s.maybeErroredJobs)
  <2>1. HasFailed(u)
    BY <1>0, <1>1, <1>2, <1>3, <1>5 DEF IsCurrentJob
  <2> HIDE DEF u
  <2>2. HasFailed([u EXCEPT !.maybeErroredJobs = @ \ {j}])
    BY <2>1 DEF HasFailed
  <2> QED BY <1>5, <2>2 DEF MarkCompleted, u, e
<1> QED BY <1>4, <1>5

(* A response that breaks the contract ends the driver in an ENFORCE.      *)
LEMMA BadResponseFails ==
    ASSUME DriverInv, NEW w \in Workers, NEW j \in JobIds, NEW kind, NEW sent \in BOOLEAN,
           ~ ResponseContract(w, j, kind), HandleResponse(w, j, kind, sent)
    PROVE  sched'.enforce = "failed"
<1>1. Running /\ sched' = ProcessResponse(sched, w, j, kind, sent)
  BY DEF HandleResponse
<1>2. sched \in SchedulerStates /\ StateInv(sched)
  BY <1>1, RunningLoop
<1> DEFINE m == MarkCompleted(sched, w, j, kind)
           c == CreateSubtaskAndScheduleOnWorker(m, w, j)
           d == DescheduleJobDueToSendError(c, w, NextSubtask(j))
<1>3. HasFailed(m)
  BY <1>2, MarkCompletedChecks DEF ResponseContract
<1> HIDE DEF m
<1>4. HasFailed(c)
  <2> DEFINE i == NextSubtask(j)
             e == Enforce(m, m.idleWorkers # <<>> /\ Head(m.idleWorkers) = w)
             u == [e EXCEPT !.allJobList = @ \cup {i}, !.wipJobs = @ \cup {i},
                            !.idleWorkers = PopFront(@)]
  <2>1. HasFailed(e)
    BY <1>3, FailureStays
  <2> HIDE DEF e
  <2>2. HasFailed(u)
    BY <2>1 DEF HasFailed
  <2> HIDE DEF u
  <2>3. HasFailed(ScheduleJobOnWorker(u, w, i))
    BY <2>2, FailureStays
  <2> QED BY <2>3 DEF CreateSubtaskAndScheduleOnWorker, u, e
<1> HIDE DEF c
<1>5. HasFailed(d)
  <2> DEFINE i == NextSubtask(j)
             a == CheckAssignedWorker(c, w, i)
             e == Enforce(a, i \in c.wipJobs)
             u == MarkWorkerIdle(e, w)
  <2>1. HasFailed(a)
    BY <1>4, FailureStays DEF CheckAssignedWorker
  <2> HIDE DEF a
  <2>2. HasFailed(e)
    BY <2>1, FailureStays
  <2> HIDE DEF e
  <2>3. HasFailed(u)
    BY <2>2, FailureStays
  <2> HIDE DEF u
  <2>4. HasFailed([u EXCEPT !.wipJobs = @ \ {i}])
    BY <2>3 DEF HasFailed
  <2> QED BY <2>4 DEF DescheduleJobDueToSendError, u, e, a
<1> HIDE DEF d
<1>6. HasFailed(TerminateRunningWorker(d, w))
  <2> DEFINE i == d.currentlyProcessing[w]
             e == Enforce(d, i \in d.wipJobs)
             u == [e EXCEPT !.wipJobs = @ \ {i}, !.maybeErroredJobs = @ \cup {i},
                            !.status[w] = "Idle", !.currentlyProcessing[w] = None,
                            !.startTime[w] = 0, !.idleWorkers = Append(@, w)]
  <2>1. HasFailed(e)
    BY <1>5, FailureStays
  <2> HIDE DEF e
  <2>2. HasFailed(u)
    BY <2>1 DEF HasFailed
  <2> HIDE DEF u
  <2>3. HasFailed(CheckInvariants(u))
    BY <2>2, FailureStays
  <2>4. HasFailed([d EXCEPT !.enforce = "failed"])
    BY <1>5 DEF HasFailed
  <2> QED BY <2>3, <2>4 DEF TerminateRunningWorker, u, e
<1>7. HasFailed(ProcessResponse(sched, w, j, kind, sent))
  BY <1>3, <1>4, <1>6 DEF ProcessResponse, m, c, d
<1> QED BY <1>1, <1>7 DEF HasFailed

(* A refill with what parseMore returns is a refill of Scheduler.tla.      *)
LEMMA RefillIsBatch ==
    ASSUME DriverInv, DriverRefill
    PROVE  \E batch \in Batches(nextCommand), next \in 0 .. NumCommands :
              FirstRefill(batch, next) \/ RefillPendingJobs(batch, next)
<1>1. Running
  BY DEF DriverRefill, FirstRefill, RefillPendingJobs
<1>2. nextCommand \in 0 .. NumCommands
  BY <1>1, RunningLoop DEF TypeOK
<1>3. ParseMore(nextCommand) \in Batches(nextCommand) /\ ParseEnd(nextCommand) \in 0 .. NumCommands
  BY <1>2, ParseMoreIsBatch
<1> QED BY <1>3 DEF DriverRefill

(* A step of the driver that does nothing outside the scheduler.           *)
LEMMA QuietKeepsDriverInv ==
    ASSUME DriverInv, QuietStep
    PROVE  DriverInv'
<1>1. CASE UNCHANGED schedVars
  <2>1. UNCHANGED <<sched, phase, refillCount, nextCommand, scan, startedBefore>>
    BY <1>1 DEF schedVars
  <2> QED BY <2>1 DEF DriverInv, TypeOK, Running, LoopInv, StoppedWorkersNotNeeded
<1>2. CASE DriverCrash
  <2>1. Running /\ sched \in SchedulerStates /\ sched' = [sched EXCEPT !.enforce = "failed"]
    BY <1>2, RunningLoop DEF DriverCrash
  <2>2. sched'.enforce = "failed"
    BY <2>1 DEF SchedulerStates
  <2> QED BY <2>2 DEF DriverInv, Running
<1>3. CASE DriverRefill
  <2>1. Running /\ \E batch \in Batches(nextCommand), next \in 0 .. NumCommands :
              FirstRefill(batch, next) \/ RefillPendingJobs(batch, next)
    BY <1>3, RefillIsBatch DEF FirstRefill, RefillPendingJobs
  <2> QED BY <2>1, RunningLoop, FirstRefillKeepsInv, RefillPendingJobsKeepsInv DEF DriverInv, IndInv
<1>4. CASE DriverInternal
  <2>1. Running /\ (LeaveLoop \/ ContinueLoop \/ BeginReceive \/ EndScan \/ Finish)
    BY <1>4 DEF DriverInternal, LeaveLoop, ContinueLoop, BeginReceive, EndScan, Finish
  <2>2. IndInv'
    BY <2>1, RunningLoop, LeaveLoopKeepsInv, ContinueLoopKeepsInv, BeginReceiveKeepsInv,
       EndScanKeepsInv, FinishKeepsInv
  <2> QED BY <2>2 DEF DriverInv, IndInv
<1>5. CASE AssignJob(FALSE)
  <2>1. Running
    BY <1>5 DEF AssignJob
  <2>2. IndInv'
    BY <1>5, <2>1, RunningLoop, AssignJobKeepsInv
  <2> QED BY <2>2 DEF DriverInv, IndInv
<1>6. CASE NoMoreResults
  <2>1. Running /\ (ReceiveTimeout \/ \E instant \in Deadlines : StopDraining(instant))
    BY <1>6 DEF NoMoreResults, ReceiveTimeout, StopDraining, Deadlines
  <2>2. IndInv'
    BY <2>1, RunningLoop, ReceiveTimeoutKeepsInv, StopDrainingKeepsInv
  <2> QED BY <2>2 DEF DriverInv, IndInv
<1>7. CASE ScanWorker
  <2>1. Running
    BY <1>7 DEF ScanWorker
  <2>2. IndInv'
    BY <1>7, <2>1, RunningLoop, ScanWorkerKeepsInv
  <2> QED BY <2>2 DEF DriverInv, IndInv
<1> QED BY <1>1, <1>2, <1>3, <1>4, <1>5, <1>6, <1>7 DEF QuietStep

(* Every step keeps the invariant of the loop, or ends it.                 *)
LEMMA DriverKept == ShapeInv /\ DriverInv /\ [Next]_vars => DriverInv'
<1> SUFFICES ASSUME ShapeInv, DriverInv, [Next]_vars PROVE DriverInv'
  OBVIOUS
<1>1. CASE QuietStep
  BY <1>1, QuietKeepsDriverInv
<1>2. CASE SendsAnalysis
  <2>1. AssignJob(TRUE) /\ Running
    BY <1>2 DEF SendsAnalysis, AssignJob
  <2>2. IndInv'
    BY <2>1, RunningLoop, AssignJobKeepsInv
  <2> QED BY <2>2 DEF DriverInv, IndInv
<1>3. CASE SendsShutdown
  <2>1. ShutdownIdleWorker /\ Running
    BY <1>3 DEF SendsShutdown, ShutdownIdleWorker
  <2>2. IndInv'
    BY <2>1, RunningLoop, ShutdownIdleWorkerKeepsInv
  <2> QED BY <2>2 DEF DriverInv, IndInv
<1>4. ASSUME NEW r \in Responses, HandlesResult(r) PROVE DriverInv'
  <2>1. PICK sent \in BOOLEAN : HandleResponse(r.worker, r.job, r.kind, sent)
    BY <1>4 DEF HandlesResult, DropsResult, MergesResult, PlansResult, LosesResult
  <2>2. Running /\ r.worker \in Workers /\ r.job \in JobIds /\ r.kind \in {SemaKind, EmitKind}
    BY <2>1, MessageFields DEF HandleResponse
  <2>3. CASE ResponseContract(r.worker, r.job, r.kind)
    <3>1. IndInv'
      BY <2>1, <2>2, <2>3, RunningLoop, HandleResponseKeepsInv
    <3> QED BY <3>1 DEF DriverInv, IndInv
  <2>4. CASE ~ ResponseContract(r.worker, r.job, r.kind)
    <3>1. sched'.enforce = "failed"
      BY <2>1, <2>2, <2>4, BadResponseFails
    <3> QED BY <3>1 DEF DriverInv, Running
  <2> QED BY <2>3, <2>4
<1>5. CASE GivesUpWorker
  <2>1. ScanWorker /\ Running
    BY <1>5 DEF GivesUpWorker, ScanWorker
  <2>2. IndInv'
    BY <2>1, RunningLoop, ScanWorkerKeepsInv
  <2> QED BY <2>2 DEF DriverInv, IndInv
<1>6. CASE EmitScipIndex \/ \E w \in Workers : WorkerStep(w)
  <2>1. UNCHANGED <<sched, phase, refillCount, nextCommand, scan, startedBefore>>
    BY <1>6 DEF EmitScipIndex, WorkerStep, schedVars
  <2> QED BY <2>1 DEF DriverInv, TypeOK, Running, LoopInv, StoppedWorkersNotNeeded
<1> QED BY <1>1, <1>2, <1>3, <1>4, <1>5, <1>6, StepCases

------------------------------------------------------------------------------
(***************************************************************************)
(* Files.                                                                  *)
(***************************************************************************)

(* No file is planned and no shard written.                                *)
LEMMA InitData == Init => DataInv
<1> SUFFICES ASSUME Init PROVE DataInv
  OBVIOUS
<1>1. /\ \A w \in Workers : d2w[w] = <<>> /\ proc[w] = Spawned
      /\ disk = {} /\ w2d = <<>> /\ shardPaths = <<>> /\ Elems(<<>>) = {}
  BY DEF Init, Elems
<1>2. Spawned.pc = "starting" /\ "starting" \notin EmitPcs
  BY IdleProcesses DEF EmitPcs
<1>3. \A t, f : ~ Claims(t, f)
  BY <1>1, <1>2 DEF Claims, RequestClaims, WorkerClaims, ShardClaims
<1>4. ClaimInv
  BY <1>3 DEF ClaimInv
<1>5. ReportInv /\ CompleteInv
  BY <1>1, <1>2 DEF ReportInv, CompleteInv
<1> QED BY <1>4, <1>5 DEF DataInv

(* A step that makes no new claim keeps ClaimInv.                          *)
LEMMA NoNewClaims ==
    ASSUME ClaimInv, hashesSoFar \subseteq hashesSoFar',
           \A t \in Tasks, f \in Files : Claims(t, f)' => Claims(t, f)
    PROVE  ClaimInv'
BY DEF ClaimInv

(* What does not change claims what it did.                                *)
LEMMA SameClaims ==
    /\ UNCHANGED d2w => \A t, f : RequestClaims(t, f)' = RequestClaims(t, f)
    /\ UNCHANGED proc => \A t, f : WorkerClaims(t, f)' = WorkerClaims(t, f)
    /\ UNCHANGED disk => \A t, f : ShardClaims(t, f)' = ShardClaims(t, f)
BY DEF RequestClaims, WorkerClaims, ShardClaims

(* Taking a request makes no new claim in the queues.                      *)
LEMMA TakesClaims ==
    ASSUME NEW w \in Workers, Takes(w), NEW t, NEW f, RequestClaims(t, f)'
    PROVE  RequestClaims(t, f)
BY DEF RequestClaims, Takes

(* A new request claims its own files for its own task.                    *)
LEMMA PutsClaims ==
    ASSUME NEW w \in Workers, NEW r, Puts(w, r), NEW t, NEW f, RequestClaims(t, f)'
    PROVE  \/ RequestClaims(t, f)
           \/ r.kind = EmitKind /\ r.id # None /\ r.id[1] = t /\ f \in r.files
BY DEF RequestClaims, Puts

(* A process that turns to p claims the files of p.                        *)
LEMMA TurnsClaims ==
    ASSUME NEW w \in Workers, NEW p, Turns(w, p), NEW t, NEW f, WorkerClaims(t, f)'
    PROVE  \/ WorkerClaims(t, f)
           \/ p.pc \in EmitPcs /\ p.job[1] = t /\ f \in p.files
BY DEF WorkerClaims, Turns

(* A file that is written was claimed by its worker.                       *)
LEMMA WritesClaims ==
    ASSUME NEW w \in Workers, NEW part, NEW pc, Writes(w, part, pc), NEW t, NEW f
    PROVE  /\ ShardClaims(t, f)' => ShardClaims(t, f) \/ WorkerClaims(t, f)
           /\ WorkerClaims(t, f)' => WorkerClaims(t, f)
<1>1. ASSUME ShardClaims(t, f)' PROVE ShardClaims(t, f) \/ WorkerClaims(t, f)
  <2>1. PICK d \in disk' : d.task = t /\ f \in d.files
    BY <1>1 DEF ShardClaims
  <2>2. d \in disk \/ d = Shard(w, part)
    BY <2>1 DEF Writes, EmitIndex
  <2> QED BY <2>1, <2>2 DEF Writes, ShardClaims, WorkerClaims
<1>2. ASSUME WorkerClaims(t, f)' PROVE WorkerClaims(t, f)
  <2>1. Turns(w, proc'[w])
    BY DEF Writes
  <2>2. WorkerClaims(t, f) \/ (proc'[w].job[1] = t /\ f \in proc'[w].files)
    BY <1>2, <2>1, TurnsClaims
  <2> QED BY <2>2 DEF Writes, WorkerClaims
<1> QED BY <1>1, <1>2

(* A planned file goes to one task only, because files planned before are  *)
(* taken out of the request.                                               *)
LEMMA ResultKeepsClaims ==
    ASSUME ShapeInv, DataInv, NEW r \in Responses, HandlesResult(r)
    PROVE  ClaimInv'
<1>1. /\ ClaimInv /\ Pops(r) /\ UNCHANGED disk
      /\ r.worker \in Workers /\ r.job \in JobIds /\ r.job[1] \in Tasks
  BY MessageFields, JobParts
     DEF DataInv, Pops, HandlesResult, DropsResult, MergesResult, PlansResult, LosesResult
<1>2. hashesSoFar \subseteq hashesSoFar'
  BY DEF HandlesResult, DropsResult, MergesResult, PlansResult, LosesResult
<1>3. ASSUME NEW t, NEW f, WorkerClaims(t, f)' PROVE WorkerClaims(t, f)
  <2>1. CASE UNCHANGED proc
    BY <1>3, <2>1, SameClaims
  <2>2. CASE Turns(r.worker, Spawned)
    BY <1>1, <1>3, <2>2, TurnsClaims, IdleProcesses DEF EmitPcs
  <2> QED BY <2>1, <2>2 DEF HandlesResult, DropsResult, MergesResult, PlansResult, LosesResult
<1>4. CASE UNCHANGED d2w
  BY <1>1, <1>2, <1>3, <1>4, SameClaims, NoNewClaims DEF Claims
<1>5. CASE PlansResult(r)
  <2> DEFINE e == Request(NextSubtask(r.job), EmitKind, r.files \ hashesSoFar)
  <2>1. /\ Puts(r.worker, e) /\ hashesSoFar' = hashesSoFar \cup r.files
        /\ NextSubtask(r.job) = <<r.job[1], 1>> /\ r.kind = SemaKind
    BY <1>5 DEF PlansResult
  <2>2. r.files \ hashesSoFar \in SUBSET Files /\ NextSubtask(r.job) \in JobIds
    BY <1>1, <2>1, MessageFields, JobParts
  <2>3. e.id = <<r.job[1], 1>> /\ e.files = r.files \ hashesSoFar
    BY <2>1, <2>2, RequestFields
  <2> HIDE DEF e
  <2>4. r.files \subseteq SemaFiles[r.job[1]]
    BY <1>1, <2>1 DEF DataInv, ReportInv, Pops
  <2>5. \A t, f : Claims(t, f)' =>
           Claims(t, f) \/ (t = r.job[1] /\ f \in r.files \ hashesSoFar)
    BY <1>1, <1>3, <2>1, <2>3, PutsClaims, SameClaims DEF Claims
  <2>6. ASSUME NEW t \in Tasks, NEW f \in Files, Claims(t, f)'
        PROVE  f \in hashesSoFar' /\ f \in SemaFiles[t]
    BY <1>1, <2>1, <2>4, <2>5, <2>6 DEF ClaimInv
  <2>7. ASSUME NEW t \in Tasks, NEW u \in Tasks, NEW f \in Files, Claims(t, f)', Claims(u, f)'
        PROVE  t = u
    <3>1. CASE f \in hashesSoFar
      BY <1>1, <2>5, <2>7, <3>1 DEF ClaimInv
    <3>2. CASE f \notin hashesSoFar
      BY <1>1, <2>5, <2>7, <3>2 DEF ClaimInv
    <3> QED BY <3>1, <3>2
  <2> QED BY <2>6, <2>7 DEF ClaimInv
<1> QED BY <1>4, <1>5 DEF HandlesResult, DropsResult, MergesResult, LosesResult

(* Worker steps pass claims on and make none.                              *)
LEMMA WorkerKeepsClaims ==
    ASSUME ShapeInv, ClaimInv, NEW w \in Workers, WorkerStep(w)
    PROVE  ClaimInv'
<1>1. ASSUME NEW t, NEW f, Drops(w), WorkerClaims(t, f)' PROVE WorkerClaims(t, f)
  <2>1. PICK p \in ProcessStates : AtRest(p) /\ Turns(w, p)
    BY <1>1 DEF Drops
  <2> QED BY <1>1, <2>1, TurnsClaims DEF AtRest, EmitPcs
<1>2. hashesSoFar' = hashesSoFar
  BY SendSemaEffect, SendEmitEffect DEF WorkerStep, Drops, Analyses, Emits, Writes, driverVars
<1> SUFFICES ASSUME NEW t \in Tasks, NEW f \in Files, Claims(t, f)' PROVE Claims(t, f)
  BY <1>2, NoNewClaims
<1>3. CASE Drops(w) /\ UNCHANGED d2w
  BY <1>1, <1>3, SameClaims DEF Claims, Drops
<1>4. CASE Drops(w) /\ Takes(w)
  BY <1>1, <1>4, SameClaims, TakesClaims DEF Claims, Drops
<1>5. CASE Analyses(w) /\ Takes(w)
  BY <1>5, SameClaims, TakesClaims, TurnsClaims DEF Claims, Analyses, EmitPcs
<1>6. CASE Emits(w) /\ Takes(w)
  <2>1. CASE RequestClaims(t, f)' \/ ShardClaims(t, f)'
    BY <1>6, <2>1, SameClaims, TakesClaims DEF Claims, Emits
  <2>2. CASE WorkerClaims(t, f)'
    <3>1. WorkerClaims(t, f) \/ (proc'[w].job[1] = t /\ f \in proc'[w].files)
      BY <1>6, <2>2, TurnsClaims DEF Emits
    <3>2. CASE proc'[w].job[1] = t /\ f \in proc'[w].files
      <4>1. proc[w].ran /\ f \in d2w[w][1].files /\ d2w[w][1].kind = EmitKind
        BY <1>6, <3>2 DEF Emits
      <4>2. d2w[w] # <<>> /\ d2w[w][1].id # None /\ d2w[w][1].id[1] = t
        BY <1>6, <3>2, JobParts DEF Emits, Takes
      <4> QED BY <4>1, <4>2 DEF Claims, RequestClaims
    <3> QED BY <3>1, <3>2 DEF Claims
  <2> QED BY <2>1, <2>2 DEF Claims
<1>7. CASE SendSemaResult(w)
  BY <1>7, SendSemaEffect, SameClaims, TurnsClaims DEF Claims, EmitPcs
<1>8. CASE SendEmitResult(w)
  BY <1>8, SendEmitEffect, SameClaims, TurnsClaims DEF Claims, EmitPcs
<1>9. ASSUME NEW part, NEW pc, Writes(w, part, pc) PROVE Claims(t, f)
  BY <1>9, SameClaims, WritesClaims DEF Claims, Writes
<1> QED BY <1>3, <1>4, <1>5, <1>6, <1>7, <1>8, <1>9 DEF WorkerStep

(* Writing a file removes none.                                            *)
LEMMA WritesKeepDisk ==
    ASSUME NEW w \in Workers, NEW part, NEW pc, Writes(w, part, pc)
    PROVE  /\ \A t, v, q : OnDisk(disk, t, v, q) => OnDisk(disk', t, v, q)
           /\ OnDisk(disk', proc[w].job[1], w, part)
<1>1. /\ Shard(w, part) \in disk'
      /\ \A d \in disk : d \in disk' \/ SameFile(d, Shard(w, part))
  BY DEF Writes, EmitIndex
<1>2. OnDisk(disk', proc[w].job[1], w, part)
  BY <1>1 DEF Writes, OnDisk
<1>3. ASSUME NEW t, NEW v, NEW q, OnDisk(disk, t, v, q) PROVE OnDisk(disk', t, v, q)
  <2>1. PICK d \in disk : d.task = t /\ d.worker = v /\ d.part = q
    BY <1>3 DEF OnDisk
  <2> QED BY <1>1, <2>1 DEF OnDisk, SameFile
<1> QED BY <1>2, <1>3

(* A step that removes no file keeps CompleteInv if the workers, results   *)
(* and shards that are new in it are complete.                             *)
LEMMA CompleteKept ==
    ASSUME CompleteInv, \A t, v, q : OnDisk(disk, t, v, q) => OnDisk(disk', t, v, q),
           \A w \in Workers :
              \/ proc'[w] = proc[w] \/ proc'[w].pc \notin {"emitDecls", "emitted"}
              \/ /\ proc'[w].pc = "emitDecls" => OnDisk(disk', proc'[w].job[1], w, "docsAndExternals")
                 /\ proc'[w].pc = "emitted" => ShardComplete(disk', proc'[w].job[1], w),
           \A r \in Elems(w2d)' :
              \/ r \in Elems(w2d) \/ r.kind # EmitKind
              \/ ShardComplete(disk', r.job[1], r.worker),
           \A p \in Elems(shardPaths)' : p \in Elems(shardPaths) \/ ShardComplete(disk, p[1], p[2])
    PROVE  CompleteInv'
<1>1. \A t, v : ShardComplete(disk, t, v) => ShardComplete(disk', t, v)
  BY DEF ShardComplete
<1>2. ASSUME NEW w \in Workers
      PROVE  /\ proc'[w].pc = "emitDecls" => OnDisk(disk', proc'[w].job[1], w, "docsAndExternals")
             /\ proc'[w].pc = "emitted" => ShardComplete(disk', proc'[w].job[1], w)
  <2>1. CASE proc'[w] = proc[w]
    BY <1>1, <2>1 DEF CompleteInv
  <2> QED BY <2>1
<1>3. \A r \in Elems(w2d)' : r.kind = EmitKind => ShardComplete(disk', r.job[1], r.worker)
  BY <1>1 DEF CompleteInv
<1>4. \A p \in Elems(shardPaths)' : ShardComplete(disk', p[1], p[2])
  BY <1>1 DEF CompleteInv
<1> QED BY <1>2, <1>3, <1>4 DEF CompleteInv

(* Files stay on a disk that does not change.                              *)
LEMMA SameDisk == UNCHANGED disk => \A t, v, q : OnDisk(disk, t, v, q) => OnDisk(disk', t, v, q)
BY DEF OnDisk

(* A result that is merged was complete.                                   *)
LEMMA ResultKeepsComplete ==
    ASSUME ShapeInv, CompleteInv, NEW r \in Responses, HandlesResult(r)
    PROVE  CompleteInv'
<1>1. Pops(r) /\ UNCHANGED disk
  BY DEF Pops, HandlesResult, DropsResult, MergesResult, PlansResult, LosesResult
<1>2. \A v \in Workers : proc'[v] = proc[v] \/ proc'[v].pc \notin {"emitDecls", "emitted"}
  <2>1. CASE UNCHANGED proc
    BY <2>1
  <2>2. CASE Turns(r.worker, Spawned)
    BY <2>2, IdleProcesses DEF Turns
  <2> QED BY <2>1, <2>2 DEF HandlesResult, DropsResult, MergesResult, PlansResult, LosesResult
<1>3. \A p \in Elems(shardPaths)' : p \in Elems(shardPaths) \/ ShardComplete(disk, p[1], p[2])
  <2>1. CASE UNCHANGED shardPaths
    BY <2>1 DEF Elems
  <2>2. CASE /\ r.kind = EmitKind
             /\ shardPaths' = Append(shardPaths, <<r.job[1], r.worker>>)
    <3> DEFINE p == <<r.job[1], r.worker>>
    <3>1. p \in Tasks \X Workers /\ shardPaths \in Seq(Tasks \X Workers)
      BY MessageFields, JobParts DEF ShapeInv, FileShape
    <3>2. Elems(shardPaths)' = Elems(shardPaths) \cup {p}
      BY <2>2, <3>1, PushBackDeque
    <3>3. ShardComplete(disk, r.job[1], r.worker)
      BY <1>1, <2>2 DEF CompleteInv, Pops
    <3>4. p[1] = r.job[1] /\ p[2] = r.worker
      OBVIOUS
    <3> HIDE DEF p
    <3> QED BY <3>2, <3>3, <3>4
  <2> QED BY <2>1, <2>2 DEF HandlesResult, DropsResult, MergesResult, PlansResult, LosesResult
<1>4. \A q \in Elems(w2d)' : q \in Elems(w2d)
  BY <1>1 DEF Pops
<1> QED BY <1>1, <1>2, <1>3, <1>4, SameDisk, CompleteKept

(* A worker reports a shard after it wrote both files.                     *)
LEMMA WorkerKeepsComplete ==
    ASSUME ShapeInv, CompleteInv, NEW w \in Workers, WorkerStep(w)
    PROVE  CompleteInv'
<1>1. \A p \in Elems(shardPaths)' : p \in Elems(shardPaths)
  <2>1. UNCHANGED shardPaths
    BY SendSemaEffect, SendEmitEffect DEF WorkerStep, Drops, Analyses, Emits, Writes, driverVars
  <2> QED BY <2>1 DEF Elems
<1>2. CASE Drops(w) \/ Analyses(w) \/ Emits(w)
  <2>1. UNCHANGED <<w2d, disk>>
    BY <1>2 DEF Drops, Analyses, Emits
  <2>2. PICK p : Turns(w, p) /\ p.pc \notin {"emitDecls", "emitted"}
    BY <1>2 DEF Drops, AtRest, Analyses, Emits
  <2>3. \A v \in Workers : proc'[v] = proc[v] \/ proc'[v].pc \notin {"emitDecls", "emitted"}
    BY <2>2 DEF Turns
  <2>4. Elems(w2d)' = Elems(w2d)
    BY <2>1
  <2> QED BY <1>1, <2>1, <2>3, <2>4, SameDisk, CompleteKept
<1>3. CASE SendSemaResult(w)
  <2> DEFINE r == SemaResult(w)
  <2>1. /\ r.kind = SemaKind /\ Elems(w2d)' = Elems(w2d) \cup {r} /\ UNCHANGED disk
        /\ Turns(w, proc'[w]) /\ proc'[w].pc = "waitEmit"
    BY <1>3, SendSemaEffect DEF Reports
  <2> HIDE DEF r
  <2>2. \A q \in Elems(w2d)' : q \in Elems(w2d) \/ q.kind # EmitKind
    BY <2>1 DEF SemaKind, EmitKind
  <2>3. \A v \in Workers : proc'[v] = proc[v] \/ proc'[v].pc \notin {"emitDecls", "emitted"}
    BY <2>1 DEF Turns
  <2> QED BY <1>1, <2>1, <2>2, <2>3, SameDisk, CompleteKept
<1>4. CASE SendEmitResult(w)
  <2> DEFINE r == Response(w, proc[w].job, EmitKind, {})
  <2>1. /\ r.worker = w /\ r.job = proc[w].job /\ proc[w].pc = "emitted"
        /\ Elems(w2d)' = Elems(w2d) \cup {r} /\ UNCHANGED disk
        /\ Turns(w, proc'[w]) /\ proc'[w].pc = "idle"
    BY <1>4, SendEmitEffect DEF Reports
  <2> HIDE DEF r
  <2>2. ShardComplete(disk', r.job[1], r.worker)
    BY <2>1, SameDisk DEF CompleteInv, ShardComplete
  <2>3. \A q \in Elems(w2d)' : q \in Elems(w2d) \/ ShardComplete(disk', q.job[1], q.worker)
    BY <2>1, <2>2
  <2>4. \A v \in Workers : proc'[v] = proc[v] \/ proc'[v].pc \notin {"emitDecls", "emitted"}
    BY <2>1 DEF Turns
  <2> QED BY <1>1, <2>1, <2>3, <2>4, SameDisk, CompleteKept
<1>5. CASE proc[w].pc = "emit" /\ Writes(w, "docsAndExternals", "emitDecls")
  <2>1. /\ proc'[w].pc = "emitDecls" /\ proc'[w].job = proc[w].job
        /\ \A v \in Workers : v # w => proc'[v] = proc[v]
        /\ Elems(w2d)' = Elems(w2d)
    BY <1>5 DEF Writes, Turns, Elems
  <2>2. OnDisk(disk', proc'[w].job[1], w, "docsAndExternals")
    BY <1>5, <2>1, WritesKeepDisk
  <2>3. \A t, v, q : OnDisk(disk, t, v, q) => OnDisk(disk', t, v, q)
    BY <1>5, WritesKeepDisk
  <2> QED BY <1>1, <2>1, <2>2, <2>3, CompleteKept
<1>6. CASE proc[w].pc = "emitDecls" /\ Writes(w, "forwardDecls", "emitted")
  <2>1. /\ proc'[w].pc = "emitted" /\ proc'[w].job = proc[w].job
        /\ \A v \in Workers : v # w => proc'[v] = proc[v]
        /\ Elems(w2d)' = Elems(w2d)
    BY <1>6 DEF Writes, Turns, Elems
  <2>2. \A t, v, q : OnDisk(disk, t, v, q) => OnDisk(disk', t, v, q)
    BY <1>6, WritesKeepDisk
  <2>3. ShardComplete(disk', proc'[w].job[1], w)
    <3>1. OnDisk(disk', proc'[w].job[1], w, "forwardDecls")
      BY <1>6, <2>1, WritesKeepDisk
    <3>2. OnDisk(disk, proc[w].job[1], w, "docsAndExternals")
      BY <1>6 DEF CompleteInv
    <3> QED BY <2>1, <2>2, <3>1, <3>2 DEF ShardComplete
  <2> QED BY <1>1, <2>1, <2>2, <2>3, CompleteKept
<1> QED BY <1>2, <1>3, <1>4, <1>5, <1>6 DEF WorkerStep

(* Results in the queue stay what they were reported as.                   *)
LEMMA ReportKept ==
    ASSUME ShapeInv, DriverInv, ReportInv, [Next]_vars
    PROVE  ReportInv'
<1>1. CASE UNCHANGED w2d
  BY <1>1 DEF ReportInv
<1>2. ASSUME NEW r \in Responses, HandlesResult(r) PROVE ReportInv'
  <2>1. Elems(w2d') \subseteq Elems(w2d)
    BY <1>2 DEF HandlesResult, DropsResult, MergesResult, PlansResult, LosesResult, Pops
  <2> QED BY <2>1 DEF ReportInv
<1>3. ASSUME NEW w \in Workers, SendSemaResult(w) PROVE ReportInv'
  <2> DEFINE r == SemaResult(w)
  <2>1. /\ Elems(w2d)' = Elems(w2d) \cup {r} /\ r.job = proc[w].job
        /\ r.files = IF proc[w].ran THEN SemaFiles[proc[w].job[1]] ELSE {}
    BY <1>3, SendSemaEffect DEF Reports
  <2>2. r.files \subseteq SemaFiles[r.job[1]]
    BY <2>1
  <2> HIDE DEF r
  <2> QED BY <2>1, <2>2 DEF ReportInv
<1>4. ASSUME NEW w \in Workers, SendEmitResult(w) PROVE ReportInv'
  <2> DEFINE r == Response(w, proc[w].job, EmitKind, {})
  <2>1. Elems(w2d)' = Elems(w2d) \cup {r} /\ r.kind # SemaKind
    BY <1>4, SendEmitEffect DEF Reports, EmitKind, SemaKind
  <2> HIDE DEF r
  <2> QED BY <2>1 DEF ReportInv
<1> QED BY <1>1, <1>2, <1>3, <1>4, StepCases
       DEF QuietStep, Quiet, SendsAnalysis, SendsShutdown, GivesUpWorker, EmitScipIndex,
           WorkerStep, Drops, Analyses, Emits, Writes

(* Every step keeps DataInv.                                               *)
LEMMA DataKept == ShapeInv /\ DriverInv /\ DataInv /\ [Next]_vars => DataInv'
<1> SUFFICES ASSUME ShapeInv, DriverInv, DataInv, [Next]_vars PROVE DataInv'
  OBVIOUS
<1>1. ClaimInv /\ ReportInv /\ CompleteInv
  BY DEF DataInv
<1>2. ReportInv'
  BY <1>1, ReportKept
<1>3. ASSUME UNCHANGED <<hashesSoFar, shardPaths, w2d, disk>>,
             UNCHANGED proc \/ \E w \in Workers : Drops(w),
             \A t, f : RequestClaims(t, f)' => RequestClaims(t, f)
      PROVE  ClaimInv' /\ CompleteInv'
  <2>1. ASSUME NEW t, NEW f, WorkerClaims(t, f)' PROVE WorkerClaims(t, f)
    <3>1. CASE UNCHANGED proc
      BY <2>1, <3>1, SameClaims
    <3>2. ASSUME NEW w \in Workers, Drops(w) PROVE WorkerClaims(t, f)
      BY <2>1, <3>2, TurnsClaims DEF Drops, AtRest, EmitPcs
    <3> QED BY <1>3, <3>1, <3>2
  <2>2. ClaimInv'
    BY <1>1, <1>3, <2>1, SameClaims, NoNewClaims DEF Claims
  <2>3. \A v \in Workers : proc'[v] = proc[v] \/ proc'[v].pc \notin {"emitDecls", "emitted"}
    BY <1>3 DEF Drops, AtRest, Turns
  <2>4. Elems(w2d)' = Elems(w2d) /\ Elems(shardPaths)' = Elems(shardPaths)
    BY <1>3
  <2>5. CompleteInv'
    BY <1>1, <1>3, <2>3, <2>4, SameDisk, CompleteKept
  <2> QED BY <2>2, <2>5
<1>4. CASE QuietStep \/ EmitScipIndex
  BY <1>2, <1>3, <1>4, SameClaims DEF QuietStep, Quiet, EmitScipIndex, driverVars, DataInv
<1>5. CASE SendsAnalysis
  <2> DEFINE r == Request(Head(sched.pendingJobs), SemaKind, {})
  <2>1. Puts(Head(sched.idleWorkers), r) /\ Head(sched.idleWorkers) \in Workers
    BY <1>5 DEF SendsAnalysis
  <2>2. r.kind # EmitKind
    BY <1>5, RequestFields DEF SendsAnalysis, SemaKind, EmitKind
  <2>3. \A t, f : RequestClaims(t, f)' => RequestClaims(t, f)
    BY <2>1, <2>2, PutsClaims
  <2> QED BY <1>2, <1>3, <1>5, <2>3 DEF SendsAnalysis, driverVars, DataInv
<1>6. CASE SendsShutdown
  <2>1. /\ Puts(NextWorkerToStop(sched), ShutdownRequest)
        /\ NextWorkerToStop(sched) \in Workers /\ ShutdownRequest.id = None
    BY <1>6, RequestFields DEF SendsShutdown, ShutdownRequest
  <2>2. \A t, f : RequestClaims(t, f)' => RequestClaims(t, f)
    BY <2>1, PutsClaims
  <2> QED BY <1>2, <1>3, <1>6, <2>2 DEF SendsShutdown, driverVars, DataInv
<1>7. CASE \E r \in Responses : HandlesResult(r)
  BY <1>1, <1>2, <1>7, ResultKeepsClaims, ResultKeepsComplete DEF DataInv
<1>8. CASE GivesUpWorker
  BY <1>2, <1>3, <1>8, SameClaims DEF GivesUpWorker, Drops, driverVars, DataInv
<1>9. CASE \E w \in Workers : WorkerStep(w)
  BY <1>1, <1>2, <1>9, WorkerKeepsClaims, WorkerKeepsComplete DEF DataInv
<1> QED BY <1>4, <1>5, <1>6, <1>7, <1>8, <1>9, StepCases

------------------------------------------------------------------------------
(***************************************************************************)
(* Theorems.                                                               *)
(***************************************************************************)

(* The initial state of the loop is one of Scheduler.tla.                  *)
LEMMA InitDriver == Init => DriverInv
BY InitEstablishesInv DEF Init, DriverInv, IndInv

(* Whatever fails, the state has its shape, the loop satisfies the         *)
(* invariant of Scheduler.tla until it ends, and no file is lost or        *)
(* claimed twice on its way to the disk.                                   *)
THEOREM SafeWhateverFails == Spec => [](ShapeInv /\ DriverInv /\ DataInv)
<1>1. Init => ShapeInv /\ DriverInv /\ DataInv
  BY InitShape, InitDriver, InitData
<1>2. ShapeInv /\ DriverInv /\ DataInv /\ [Next]_vars => (ShapeInv /\ DriverInv /\ DataInv)'
  BY ShapeKept, DriverKept, DataKept
<1> QED BY <1>1, <1>2, PTL DEF Spec

(* Every shard that the driver merges is complete on disk, with files of   *)
(* its own unit only, whatever workers, messages or the driver itself      *)
(* failed, and for every kind of command.                                  *)
THEOREM ShardsOnDisk == Spec => []ShardsAreOnDisk
<1>1. ShapeInv /\ DataInv => ShardsAreOnDisk
  <2> SUFFICES ASSUME ShapeInv, DataInv, NEW i \in DOMAIN shardPaths,
                      NEW part \in {"docsAndExternals", "forwardDecls"}
               PROVE  \E d \in disk : /\ <<d.task, d.worker>> = shardPaths[i]
                                      /\ d.part = part /\ d.files \subseteq SemaFiles[d.task]
    BY DEF ShardsAreOnDisk
  <2>1. shardPaths[i] \in Elems(shardPaths) /\ shardPaths[i] \in Tasks \X Workers
    BY DEF Elems, ShapeInv, FileShape
  <2>2. PICK d \in disk : d.task = shardPaths[i][1] /\ d.worker = shardPaths[i][2] /\ d.part = part
    BY <2>1 DEF DataInv, CompleteInv, ShardComplete, OnDisk
  <2>3. <<d.task, d.worker>> = shardPaths[i]
    BY <2>1, <2>2
  <2>4. d.task \in Tasks /\ d.files \subseteq Files
    BY DEF ShapeInv, FileShape, Shards
  <2>5. \A f \in d.files : Claims(d.task, f)
    BY DEF Claims, ShardClaims
  <2>6. d.files \subseteq SemaFiles[d.task]
    BY <2>4, <2>5 DEF DataInv, ClaimInv
  <2> QED BY <2>2, <2>3, <2>6
<1> QED BY <1>1, SafeWhateverFails, PTL

(* No file is assigned to two units, whatever fails and in whatever order  *)
(* analyses are answered.                                                  *)
LEMMA AssignedOnce ==
    ASSUME ShapeInv, DataInv, NEW d \in disk, NEW e \in disk, d.task # e.task
    PROVE  d.files \cap e.files = {}
<1> SUFFICES ASSUME NEW f \in d.files \cap e.files PROVE FALSE
  OBVIOUS
<1>1. f \in Files /\ d.task \in Tasks /\ e.task \in Tasks
  BY DEF ShapeInv, FileShape, Shards
<1>2. Claims(d.task, f) /\ Claims(e.task, f)
  BY DEF Claims, ShardClaims
<1> QED BY <1>1, <1>2 DEF DataInv, ClaimInv
=============================================================================
