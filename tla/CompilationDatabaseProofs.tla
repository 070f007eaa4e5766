---------------------- MODULE CompilationDatabaseProofs ----------------------
(***************************************************************************)
(* Proofs about CompilationDatabase.tla: DatabaseInv is an invariant, and  *)
(* the properties of what the driver queues follow from it.                *)
(*                                                                         *)
(* The model reads a file event by event with recursive functions; what    *)
(* they compute is proved by induction in its set form, UpTo.              *)
(***************************************************************************)
EXTENDS CompilationDatabaseInvariant, NumberProofs, SequenceTheorems

(***************************************************************************)
(* What the recursive functions of the model compute.                      *)
(***************************************************************************)

(* The handler's states: each is what the next event makes of the last.    *)
LEMMA HandledSteps ==
    ASSUME NEW h, NEW d, Len(d) \in Nat, NEW p \in 1 .. (Len(d) + 1)
    PROVE  /\ Handled(h, d, p)[0] = h
           /\ \A i \in 1 .. (Len(d) - p + 1) :
                 Handled(h, d, p)[i] = HandleEvent(Handled(h, d, p)[i - 1], d[p + i - 1])
<1> DEFINE n == Len(d) - p + 1
           Step(x, i) == The({HandleEvent(before, d[p + i - 1]) : before \in {x}})
           Start == h
           Fix(f, m) == f = [i \in 0 .. m |-> IF i = 0 THEN Start ELSE Step(f[i - 1], i)]
           S == {m \in 0 .. n : \E f : Fix(f, m)}
<1>1. n \in Nat
  OBVIOUS
<1>2. ASSUME NEW x, NEW i PROVE Step(x, i) = HandleEvent(x, d[p + i - 1])
  <2>1. {HandleEvent(before, d[p + i - 1]) : before \in {x}} = {HandleEvent(x, d[p + i - 1])}
    OBVIOUS
  <2> QED BY <2>1, TheElement
<1>3. Handled(h, d, p) = CHOOSE f : Fix(f, n)
  BY Zenon DEF Handled
<1> HIDE DEF Step, Start, n
<1>4. 0 \in S
  <2>1. Fix([i \in 0 .. 0 |-> Start], 0)
    OBVIOUS
  <2>2. \E f : Fix(f, 0)
    BY <2>1, Zenon
  <2> HIDE DEF Fix
  <2> QED BY <1>1, <2>2
<1>5. ASSUME NEW m \in 0 .. (n - 1), m \in S PROVE m + 1 \in S
  <2>1. PICK f : Fix(f, m)
    BY <1>5
  <2> DEFINE g == [i \in 0 .. (m + 1) |-> IF i <= m THEN f[i] ELSE Step(f[m], i)]
  <2>2. ASSUME NEW i \in 0 .. (m + 1)
        PROVE  g[i] = IF i = 0 THEN Start ELSE Step(g[i - 1], i)
    <3>1. CASE i = 0
      BY <2>1, <3>1
    <3>2. CASE i \in 1 .. m
      <4>1. g[i] = f[i] /\ g[i - 1] = f[i - 1]
        BY <3>2
      <4>2. f[i] = Step(f[i - 1], i)
        BY <2>1, <3>2
      <4> QED BY <4>1, <4>2, <3>2
    <3>3. CASE i = m + 1
      BY <3>3
    <3> QED BY <3>1, <3>2, <3>3
  <2>3. Fix(g, m + 1)
    BY <2>2
  <2>4. \E f1 : Fix(f1, m + 1)
    BY <2>3, Zenon
  <2>5. m + 1 \in 0 .. n
    BY <1>1
  <2> HIDE DEF Fix, g
  <2> QED BY <2>4, <2>5
<1>6. \E f : Fix(f, n)
  <2>1. n \in S
    <3> HIDE DEF S
    <3>1. \A i \in 0 .. n : i \in S
      BY <1>1, <1>4, <1>5, UpTo
    <3> QED BY <3>1, <1>1
  <2> HIDE DEF Fix
  <2> QED BY <2>1
<1> DEFINE f0 == Handled(h, d, p)
<1>7. Fix(f0, n)
  <2> HIDE DEF Fix
  <2> QED BY <1>3, <1>6, Zenon
<1> HIDE DEF f0
<1>8. f0[0] = Start
  BY <1>7, <1>1
<1>9. ASSUME NEW i \in 1 .. n PROVE f0[i] = Step(f0[i - 1], i)
  BY <1>7, <1>1
<1>10. \A i \in 1 .. n : f0[i] = HandleEvent(f0[i - 1], d[p + i - 1])
  BY <1>2, <1>9
<1> QED BY <1>8, <1>10 DEF f0, Start, n

(* The states of the validation.                                           *)
LEMMA ValidatedSteps ==
    ASSUME NEW d, Len(d) \in Nat
    PROVE  /\ Validated(d)[0] = [context |-> "Outermost", lastKey |-> "unset",
                         error |-> FALSE, count |-> 0]
           /\ \A i \in 1 .. Len(d) :
                 Validated(d)[i] = ValidateStep(Validated(d)[i - 1], d[i])
<1> DEFINE n == Len(d)
           Step(x, i) == The({ValidateStep(before, d[i]) : before \in {x}})
           Start == [context |-> "Outermost", lastKey |-> "unset",
                         error |-> FALSE, count |-> 0]
           Fix(f, m) == f = [i \in 0 .. m |-> IF i = 0 THEN Start ELSE Step(f[i - 1], i)]
           S == {m \in 0 .. n : \E f : Fix(f, m)}
<1>1. n \in Nat
  OBVIOUS
<1>2. ASSUME NEW x, NEW i PROVE Step(x, i) = ValidateStep(x, d[i])
  <2>1. {ValidateStep(before, d[i]) : before \in {x}} = {ValidateStep(x, d[i])}
    OBVIOUS
  <2> QED BY <2>1, TheElement
<1>3. Validated(d) = CHOOSE f : Fix(f, n)
  BY Zenon DEF Validated
<1> HIDE DEF Step, Start, n
<1>4. 0 \in S
  <2>1. Fix([i \in 0 .. 0 |-> Start], 0)
    OBVIOUS
  <2>2. \E f : Fix(f, 0)
    BY <2>1, Zenon
  <2> HIDE DEF Fix
  <2> QED BY <1>1, <2>2
<1>5. ASSUME NEW m \in 0 .. (n - 1), m \in S PROVE m + 1 \in S
  <2>1. PICK f : Fix(f, m)
    BY <1>5
  <2> DEFINE g == [i \in 0 .. (m + 1) |-> IF i <= m THEN f[i] ELSE Step(f[m], i)]
  <2>2. ASSUME NEW i \in 0 .. (m + 1)
        PROVE  g[i] = IF i = 0 THEN Start ELSE Step(g[i - 1], i)
    <3>1. CASE i = 0
      BY <2>1, <3>1
    <3>2. CASE i \in 1 .. m
      <4>1. g[i] = f[i] /\ g[i - 1] = f[i - 1]
        BY <3>2
      <4>2. f[i] = Step(f[i - 1], i)
        BY <2>1, <3>2
      <4> QED BY <4>1, <4>2, <3>2
    <3>3. CASE i = m + 1
      BY <3>3
    <3> QED BY <3>1, <3>2, <3>3
  <2>3. Fix(g, m + 1)
    BY <2>2
  <2>4. \E f1 : Fix(f1, m + 1)
    BY <2>3, Zenon
  <2>5. m + 1 \in 0 .. n
    BY <1>1
  <2> HIDE DEF Fix, g
  <2> QED BY <2>4, <2>5
<1>6. \E f : Fix(f, n)
  <2>1. n \in S
    <3> HIDE DEF S
    <3>1. \A i \in 0 .. n : i \in S
      BY <1>1, <1>4, <1>5, UpTo
    <3> QED BY <3>1, <1>1
  <2> HIDE DEF Fix
  <2> QED BY <2>1
<1> DEFINE f0 == Validated(d)
<1>7. Fix(f0, n)
  <2> HIDE DEF Fix
  <2> QED BY <1>3, <1>6, Zenon
<1> HIDE DEF f0
<1>8. f0[0] = Start
  BY <1>7, <1>1
<1>9. ASSUME NEW i \in 1 .. n PROVE f0[i] = Step(f0[i - 1], i)
  BY <1>7, <1>1
<1>10. \A i \in 1 .. n : f0[i] = ValidateStep(f0[i - 1], d[i])
  BY <1>2, <1>9
<1> QED BY <1>8, <1>10 DEF f0, Start, n

(* The stack of open arrays and objects.                                   *)
LEMMA OpenSteps ==
    ASSUME NEW d, Len(d) \in Nat
    PROVE  /\ OpenAfter(d)[0] = <<>>
           /\ \A i \in 1 .. Len(d) :
                 OpenAfter(d)[i] = OpenStep(OpenAfter(d)[i - 1], d[i].e)
<1> DEFINE n == Len(d)
           Step(x, i) == The({OpenStep(before, d[i].e) : before \in {x}})
           Start == <<>>
           Fix(f, m) == f = [i \in 0 .. m |-> IF i = 0 THEN Start ELSE Step(f[i - 1], i)]
           S == {m \in 0 .. n : \E f : Fix(f, m)}
<1>1. n \in Nat
  OBVIOUS
<1>2. ASSUME NEW x, NEW i PROVE Step(x, i) = OpenStep(x, d[i].e)
  <2>1. {OpenStep(before, d[i].e) : before \in {x}} = {OpenStep(x, d[i].e)}
    OBVIOUS
  <2> QED BY <2>1, TheElement
<1>3. OpenAfter(d) = CHOOSE f : Fix(f, n)
  BY Zenon DEF OpenAfter
<1> HIDE DEF Step, Start, n
<1>4. 0 \in S
  <2>1. Fix([i \in 0 .. 0 |-> Start], 0)
    OBVIOUS
  <2>2. \E f : Fix(f, 0)
    BY <2>1, Zenon
  <2> HIDE DEF Fix
  <2> QED BY <1>1, <2>2
<1>5. ASSUME NEW m \in 0 .. (n - 1), m \in S PROVE m + 1 \in S
  <2>1. PICK f : Fix(f, m)
    BY <1>5
  <2> DEFINE g == [i \in 0 .. (m + 1) |-> IF i <= m THEN f[i] ELSE Step(f[m], i)]
  <2>2. ASSUME NEW i \in 0 .. (m + 1)
        PROVE  g[i] = IF i = 0 THEN Start ELSE Step(g[i - 1], i)
    <3>1. CASE i = 0
      BY <2>1, <3>1
    <3>2. CASE i \in 1 .. m
      <4>1. g[i] = f[i] /\ g[i - 1] = f[i - 1]
        BY <3>2
      <4>2. f[i] = Step(f[i - 1], i)
        BY <2>1, <3>2
      <4> QED BY <4>1, <4>2, <3>2
    <3>3. CASE i = m + 1
      BY <3>3
    <3> QED BY <3>1, <3>2, <3>3
  <2>3. Fix(g, m + 1)
    BY <2>2
  <2>4. \E f1 : Fix(f1, m + 1)
    BY <2>3, Zenon
  <2>5. m + 1 \in 0 .. n
    BY <1>1
  <2> HIDE DEF Fix, g
  <2> QED BY <2>4, <2>5
<1>6. \E f : Fix(f, n)
  <2>1. n \in S
    <3> HIDE DEF S
    <3>1. \A i \in 0 .. n : i \in S
      BY <1>1, <1>4, <1>5, UpTo
    <3> QED BY <3>1, <1>1
  <2> HIDE DEF Fix
  <2> QED BY <2>1
<1> DEFINE f0 == OpenAfter(d)
<1>7. Fix(f0, n)
  <2> HIDE DEF Fix
  <2> QED BY <1>3, <1>6, Zenon
<1> HIDE DEF f0
<1>8. f0[0] = Start
  BY <1>7, <1>1
<1>9. ASSUME NEW i \in 1 .. n PROVE f0[i] = Step(f0[i - 1], i)
  BY <1>7, <1>1
<1>10. \A i \in 1 .. n : f0[i] = OpenStep(f0[i - 1], d[i].e)
  BY <1>2, <1>9
<1> QED BY <1>8, <1>10 DEF f0, Start, n

(* The commands that have been adjusted.                                   *)
LEMMA AdjustedSteps ==
    ASSUME NEW map, NEW cmds, Len(cmds) \in Nat
    PROVE  /\ Adjusted(map, cmds)[0] = [map |-> map, out |-> <<>>]
           /\ \A i \in 1 .. Len(cmds) :
                 Adjusted(map, cmds)[i] = AdjustCommandLine(Adjusted(map, cmds)[i - 1], cmds[i])
<1> DEFINE n == Len(cmds)
           Step(x, i) == The({AdjustCommandLine(before, cmds[i]) : before \in {x}})
           Start == [map |-> map, out |-> <<>>]
           Fix(f, m) == f = [i \in 0 .. m |-> IF i = 0 THEN Start ELSE Step(f[i - 1], i)]
           S == {m \in 0 .. n : \E f : Fix(f, m)}
<1>1. n \in Nat
  OBVIOUS
<1>2. ASSUME NEW x, NEW i PROVE Step(x, i) = AdjustCommandLine(x, cmds[i])
  <2>1. {AdjustCommandLine(before, cmds[i]) : before \in {x}} = {AdjustCommandLine(x, cmds[i])}
    OBVIOUS
  <2> QED BY <2>1, TheElement
<1>3. Adjusted(map, cmds) = CHOOSE f : Fix(f, n)
  BY Zenon DEF Adjusted
<1> HIDE DEF Step, Start, n
<1>4. 0 \in S
  <2>1. Fix([i \in 0 .. 0 |-> Start], 0)
    OBVIOUS
  <2>2. \E f : Fix(f, 0)
    BY <2>1, Zenon
  <2> HIDE DEF Fix
  <2> QED BY <1>1, <2>2
<1>5. ASSUME NEW m \in 0 .. (n - 1), m \in S PROVE m + 1 \in S
  <2>1. PICK f : Fix(f, m)
    BY <1>5
  <2> DEFINE g == [i \in 0 .. (m + 1) |-> IF i <= m THEN f[i] ELSE Step(f[m], i)]
  <2>2. ASSUME NEW i \in 0 .. (m + 1)
        PROVE  g[i] = IF i = 0 THEN Start ELSE Step(g[i - 1], i)
    <3>1. CASE i = 0
      BY <2>1, <3>1
    <3>2. CASE i \in 1 .. m
      <4>1. g[i] = f[i] /\ g[i - 1] = f[i - 1]
        BY <3>2
      <4>2. f[i] = Step(f[i - 1], i)
        BY <2>1, <3>2
      <4> QED BY <4>1, <4>2, <3>2
    <3>3. CASE i = m + 1
      BY <3>3
    <3> QED BY <3>1, <3>2, <3>3
  <2>3. Fix(g, m + 1)
    BY <2>2
  <2>4. \E f1 : Fix(f1, m + 1)
    BY <2>3, Zenon
  <2>5. m + 1 \in 0 .. n
    BY <1>1
  <2> HIDE DEF Fix, g
  <2> QED BY <2>4, <2>5
<1>6. \E f : Fix(f, n)
  <2>1. n \in S
    <3> HIDE DEF S
    <3>1. \A i \in 0 .. n : i \in S
      BY <1>1, <1>4, <1>5, UpTo
    <3> QED BY <3>1, <1>1
  <2> HIDE DEF Fix
  <2> QED BY <2>1
<1> DEFINE f0 == Adjusted(map, cmds)
<1>7. Fix(f0, n)
  <2> HIDE DEF Fix
  <2> QED BY <1>3, <1>6, Zenon
<1> HIDE DEF f0
<1>8. f0[0] = Start
  BY <1>7, <1>1
<1>9. ASSUME NEW i \in 1 .. n PROVE f0[i] = Step(f0[i - 1], i)
  BY <1>7, <1>1
<1>10. \A i \in 1 .. n : f0[i] = AdjustCommandLine(f0[i - 1], cmds[i])
  BY <1>2, <1>9
<1> QED BY <1>8, <1>10 DEF f0, Start, n

(***************************************************************************)
(* Validation.                                                             *)
(***************************************************************************)

(* How their number grows.                                                 *)
LEMMA EndsGrow ==
    ASSUME NEW d, NEW p \in Nat
    PROVE  /\ IsFiniteSet(EndsOf(d, p)) /\ Cardinality(EndsOf(d, p)) \in Nat
           /\ EndsOf(d, 0) = {} /\ Cardinality(EndsOf(d, 0)) = 0
           /\ Cardinality(EndsOf(d, p + 1)) =
                 Cardinality(EndsOf(d, p)) + (IF d[p + 1].e = "EndObject" THEN 1 ELSE 0)
<1>1. \A n \in Nat : IsFiniteSet(EndsOf(d, n)) /\ Cardinality(EndsOf(d, n)) \in Nat
  <2> SUFFICES ASSUME NEW n \in Nat
               PROVE  IsFiniteSet(EndsOf(d, n)) /\ Cardinality(EndsOf(d, n)) \in Nat
    OBVIOUS
  <2>1. IsFiniteSet(1 .. n)
    BY FS_Interval
  <2>2. EndsOf(d, n) \subseteq 1 .. n
    BY DEF EndsOf
  <2> HIDE DEF EndsOf
  <2> QED BY <2>1, <2>2, FS_Subset, FS_CardinalityType
<1>2. EndsOf(d, 0) = {}
  BY DEF EndsOf
<1>3. CASE d[p + 1].e = "EndObject"
  <2>1. EndsOf(d, p + 1) = EndsOf(d, p) \cup {p + 1} /\ p + 1 \notin EndsOf(d, p)
    BY <1>3 DEF EndsOf
  <2> HIDE DEF EndsOf
  <2>2. Cardinality(EndsOf(d, p + 1)) = Cardinality(EndsOf(d, p)) + 1
    BY <1>1, <2>1, FS_AddElement
  <2> QED BY <1>1, <1>2, <1>3, <2>2, FS_EmptySet
<1>4. CASE d[p + 1].e # "EndObject"
  <2>1. EndsOf(d, p + 1) = EndsOf(d, p)
    BY <1>4 DEF EndsOf
  <2> HIDE DEF EndsOf
  <2> QED BY <1>1, <1>2, <1>4, <2>1, FS_EmptySet
<1> QED BY <1>3, <1>4

(* A state of ValidateHandler.                                             *)
IsValidation(v) ==
    /\ v = [context |-> v.context, lastKey |-> v.lastKey, error |-> v.error, count |-> v.count]
    /\ v.error \in BOOLEAN

(* A legal event, with the contexts before and after it.                   *)
Legal(before, event, after) ==
    \/ event.e = "StartArray" /\ before = "Outermost" /\ after = "InTopLevelArray"
    \/ event.e = "StartObject" /\ before = "InTopLevelArray" /\ after = "InObject"
    \/ event.e = "EndArray" /\ before = "InTopLevelArray" /\ after = "Outermost"
    \/ event.e = "Key" /\ before = "InObject" /\ after \in {"InObject", "InArgumentsValue"}
    \/ event.e = "String" /\ before = "InObject" /\ after = "InObject"
    \/ event.e = "EndObject" /\ before = "InObject" /\ after = "InTopLevelArray"
    \/ event.e = "StartArray" /\ before = "InArgumentsValue" /\ after = "InArgumentsValueArray"
    \/ event.e = "String" /\ before = "InArgumentsValueArray" /\ after = "InArgumentsValueArray"
    \/ event.e = "EndArray" /\ before = "InArgumentsValueArray" /\ after = "InObject"

(* One step of the validation.                                             *)
LEMMA ValidateOne ==
    ASSUME NEW v, NEW event, IsValidation(v)
    PROVE  /\ IsValidation(ValidateStep(v, event))
           /\ v.error => ValidateStep(v, event).error
           /\ ~ ValidateStep(v, event).error =>
                 /\ Legal(v.context, event, ValidateStep(v, event).context)
                 /\ ValidateStep(v, event).count =
                       IF event.e = "EndArray" THEN event.v ELSE v.count
<1> DEFINE w == ValidateStep(v, event)
           bad == \/ v.error
                  \/ ContextAfter(v.context, event.e) = "illegal"
                  \/ BadDirectory(v, event)
<1>1. CASE bad
  <2>1. w = [v EXCEPT !.error = TRUE]
    BY <1>1 DEF ValidateStep
  <2>2. w = [context |-> v.context, lastKey |-> v.lastKey, error |-> TRUE, count |-> v.count]
    BY <2>1 DEF IsValidation
  <2> HIDE DEF w, bad
  <2>3. IsValidation(w) /\ w.error
    BY <2>2 DEF IsValidation
  <2> QED BY <2>3 DEF w
<1>2. CASE ~ bad /\ event.e = "Key"
  <2>1. w = ValidateKey(v, event.v)
    BY <1>2 DEF ValidateStep
  <2>2. w = [context |-> IF event.v = "arguments" THEN "InArgumentsValue" ELSE v.context,
             lastKey |-> IF event.v \in Keys THEN event.v ELSE v.lastKey,
             error |-> v.error, count |-> v.count]
    BY <2>1 DEF IsValidation, ValidateKey
  <2>3. ~ v.error /\ v.context = "InObject"
    BY <1>2 DEF ContextAfter
  <2> HIDE DEF w, bad
  <2>4. IsValidation(w) /\ ~ w.error /\ w.count = v.count
        /\ w.context \in {"InObject", "InArgumentsValue"}
    BY <2>2, <2>3 DEF IsValidation
  <2> QED BY <1>2, <2>3, <2>4 DEF w, Legal
<1>3. CASE ~ bad /\ event.e # "Key"
  <2>1. w = [v EXCEPT !.context = ContextAfter(v.context, event.e),
                      !.count = IF event.e = "EndArray" THEN event.v ELSE @]
    BY <1>3 DEF ValidateStep
  <2>2. w = [context |-> ContextAfter(v.context, event.e), lastKey |-> v.lastKey,
             error |-> v.error, count |-> IF event.e = "EndArray" THEN event.v ELSE v.count]
    BY <2>1 DEF IsValidation
  <2>3. Legal(v.context, event, ContextAfter(v.context, event.e)) /\ ~ v.error
    BY <1>3 DEF ContextAfter, Legal
  <2> HIDE DEF w, bad
  <2>4. IsValidation(w) /\ ~ w.error /\ w.context = ContextAfter(v.context, event.e)
        /\ w.count = IF event.e = "EndArray" THEN event.v ELSE v.count
    BY <2>2, <2>3 DEF IsValidation
  <2> QED BY <2>3, <2>4 DEF w
<1> QED BY <1>1, <1>2, <1>3

(* No event of a file that is accepted was an error.                       *)
LEMMA NoErrorBefore ==
    ASSUME NEW d, IsJson(d), ~ Validated(d)[Len(d)].error
    PROVE  /\ \A i \in 0 .. Len(d) : IsValidation(Validated(d)[i]) /\ ~ Validated(d)[i].error
           /\ \A i \in 1 .. Len(d) :
                 /\ Legal(Validated(d)[i - 1].context, d[i], Validated(d)[i].context)
                 /\ Validated(d)[i].count =
                       IF d[i].e = "EndArray" THEN d[i].v ELSE Validated(d)[i - 1].count
           /\ Validated(d)[0].context = "Outermost" /\ Validated(d)[0].count = 0
<1> DEFINE v == Validated(d)
           n == Len(d)
<1>1. n \in Nat
  BY DEF IsJson
<1>2. /\ v[0] = [context |-> "Outermost", lastKey |-> "unset", error |-> FALSE, count |-> 0]
      /\ \A i \in 1 .. n : v[i] = ValidateStep(v[i - 1], d[i])
  BY <1>1, ValidatedSteps
<1>3. ~ v[n].error
  OBVIOUS
<1> HIDE DEF v, n
<1>4. \A i \in 0 .. n : IsValidation(v[i])
  <2> DEFINE S == {i \in 0 .. n : IsValidation(v[i])}
  <2>1. 0 \in S
    <3>1. IsValidation([context |-> "Outermost", lastKey |-> "unset",
                        error |-> FALSE, count |-> 0])
      BY DEF IsValidation
    <3>2. IsValidation(v[0])
      BY <1>2, <3>1
    <3> QED BY <1>1, <3>2
  <2>2. ASSUME NEW i \in 0 .. (n - 1), i \in S PROVE i + 1 \in S
    <3>1. i + 1 \in 1 .. n /\ (i + 1) - 1 = i
      BY <1>1
    <3>2. v[i + 1] = ValidateStep(v[i], d[i + 1]) /\ IsValidation(v[i])
      BY <1>2, <2>2, <3>1
    <3>3. IsValidation(v[i + 1])
      BY <3>2, ValidateOne
    <3> QED BY <3>1, <3>3
  <2> HIDE DEF S
  <2>3. \A i \in 0 .. n : i \in S
    BY <1>1, <2>1, <2>2, UpTo
  <2> QED BY <2>3 DEF S
<1>5. \A i \in 0 .. n : ~ v[i].error
  <2> DEFINE S == {j \in 0 .. n : \A i \in 0 .. j : v[i].error => v[j].error}
  <2>1. 0 \in S
    BY <1>1
  <2>2. ASSUME NEW j \in 0 .. (n - 1), j \in S PROVE j + 1 \in S
    <3>1. j + 1 \in 1 .. n /\ (j + 1) - 1 = j /\ j \in 0 .. n
      BY <1>1
    <3>2. v[j + 1] = ValidateStep(v[j], d[j + 1]) /\ IsValidation(v[j])
      BY <1>2, <1>4, <3>1
    <3>3. v[j].error => v[j + 1].error
      BY <3>2, ValidateOne
    <3> SUFFICES ASSUME NEW i \in 0 .. (j + 1), v[i].error PROVE v[j + 1].error
      BY <3>1
    <3>4. CASE i = j + 1
      BY <3>4
    <3>5. CASE i \in 0 .. j
      BY <2>2, <3>3, <3>5
    <3> QED BY <3>4, <3>5
  <2> HIDE DEF S
  <2>3. \A i \in 0 .. n : i \in S
    BY <1>1, <2>1, <2>2, UpTo
  <2>4. n \in S
    BY <1>1, <2>3
  <2> QED BY <1>3, <2>4 DEF S
<1>6. ASSUME NEW i \in 1 .. n
      PROVE  /\ Legal(v[i - 1].context, d[i], v[i].context)
             /\ v[i].count = IF d[i].e = "EndArray" THEN d[i].v ELSE v[i - 1].count
  <2>1. IsValidation(v[i - 1]) /\ ~ v[i].error
    BY <1>1, <1>4, <1>5
  <2>2. v[i] = ValidateStep(v[i - 1], d[i])
    BY <1>2
  <2> QED BY <2>1, <2>2, ValidateOne
<1> QED BY <1>2, <1>4, <1>5, <1>6 DEF v, n

(***************************************************************************)
(* Validation and nesting: the count of the last array is that of the file. *)
(***************************************************************************)

(* How many arrays and objects are open in a context.                      *)
DepthOf(context) ==
    CASE context = "Outermost" -> 0
      [] context = "InTopLevelArray" -> 1
      [] context \in {"InObject", "InArgumentsValue"} -> 2
      [] OTHER -> 3

(* What is open in a context when n objects have ended: the outermost      *)
(* array has those n elements.                                             *)
OpenIn(context, open, n) ==
    /\ open \in Seq(Nat)
    /\ Len(open) = DepthOf(context)
    /\ Len(open) > 0 => open[1] = n

(* What an event does to the lengths and to the outermost count.           *)
LEMMA OpenOne ==
    ASSUME NEW open \in Seq(Nat), NEW e
    PROVE  /\ OpenStep(open, e) \in Seq(Nat)
           /\ e \in {"StartArray", "StartObject"} =>
                 /\ Len(OpenStep(open, e)) = Len(open) + 1
                 /\ OpenStep(open, e)[1] = IF Len(open) = 0 THEN 0 ELSE open[1]
           /\ e \in {"EndArray", "EndObject"} /\ Len(open) > 0 =>
                 /\ Len(OpenStep(open, e)) = Len(open) - 1
                 /\ Len(open) = 2 => OpenStep(open, e)[1] = open[1] + 1
                 /\ Len(open) > 2 => OpenStep(open, e)[1] = open[1]
           /\ e = "Key" => OpenStep(open, e) = open
           /\ e = "String" /\ Len(open) > 1 =>
                 Len(OpenStep(open, e)) = Len(open) /\ OpenStep(open, e)[1] = open[1]
<1> DEFINE new == OpenStep(open, e)
<1>0. Len(open) \in Nat /\ (open = <<>> <=> Len(open) = 0)
  OBVIOUS
<1>1. ASSUME NEW s \in Seq(Nat)
      PROVE  /\ OneMore(s) \in Seq(Nat) /\ Len(OneMore(s)) = Len(s) /\ Len(s) \in Nat
             /\ Len(s) = 1 => OneMore(s)[1] = s[1] + 1
             /\ Len(s) > 1 => OneMore(s)[1] = s[1]
  <2>1. CASE s = <<>>
    BY <2>1 DEF OneMore
  <2>2. CASE s # <<>>
    <3>1. OneMore(s) = [s EXCEPT ![Len(s)] = s[Len(s)] + 1]
      BY <2>2 DEF OneMore
    <3>2. Len(s) \in Nat \ {0} /\ s[Len(s)] + 1 \in Nat
      BY <2>2
    <3> QED BY <3>1, <3>2
  <2> QED BY <2>1, <2>2
<1>2. CASE e \in {"StartArray", "StartObject"}
  <2>1. new = Append(open, 0)
    BY <1>2 DEF OpenStep
  <2>2. /\ new \in Seq(Nat) /\ Len(new) = Len(open) + 1
        /\ \A i \in 1 .. Len(open) : new[i] = open[i]
        /\ new[Len(open) + 1] = 0
    BY <2>1
  <2> HIDE DEF new
  <2>3. new[1] = IF Len(open) = 0 THEN 0 ELSE open[1]
    BY <1>0, <2>2
  <2> QED BY <1>2, <2>2, <2>3 DEF new
<1>3. CASE e \in {"EndArray", "EndObject"}
  <2> DEFINE s == SubSeq(open, 1, Len(open) - 1)
  <2>1. new = OneMore(s)
    BY <1>3 DEF OpenStep
  <2>2. s \in Seq(Nat)
    BY <1>0
  <2>3. ASSUME Len(open) > 0
        PROVE  Len(s) = Len(open) - 1 /\ \A i \in 1 .. (Len(open) - 1) : s[i] = open[i]
    <3>1. PICK k \in Nat : k = Len(open)
      BY <1>0
    <3>2. k - 1 \in 0 .. Len(open) /\ k > 0 /\ 1 \in 1 .. (Len(open) + 1)
      BY <2>3, <3>1
    <3>3. /\ Len(SubSeq(open, 1, k - 1)) = IF 1 <= k - 1 THEN (k - 1) - 1 + 1 ELSE 0
          /\ \A i \in 1 .. ((k - 1) - 1 + 1) : SubSeq(open, 1, k - 1)[i] = open[1 + i - 1]
      BY <3>2, SubSeqProperties
    <3>4. Len(SubSeq(open, 1, k - 1)) = k - 1
      BY <3>2, <3>3
    <3>5. \A i \in 1 .. (k - 1) : SubSeq(open, 1, k - 1)[i] = open[i]
      BY <3>3
    <3> QED BY <3>1, <3>4, <3>5
  <2> HIDE DEF s, new
  <2>4. new \in Seq(Nat)
    BY <1>1, <2>1, <2>2
  <2>5. ASSUME Len(open) > 0
        PROVE  /\ Len(new) = Len(open) - 1
               /\ Len(open) = 2 => new[1] = open[1] + 1
               /\ Len(open) > 2 => new[1] = open[1]
    <3>1. PICK k \in Nat : k = Len(open) /\ k > 0 /\ Len(s) = k - 1
      BY <1>0, <2>3, <2>5
    <3>2. Len(new) = k - 1 /\ (k - 1 = 1 => new[1] = s[1] + 1) /\ (k - 1 > 1 => new[1] = s[1])
      BY <1>1, <2>1, <2>2, <3>1
    <3>3. k > 1 => s[1] = open[1]
      BY <2>3, <2>5, <3>1
    <3>4. k = 2 => new[1] = open[1] + 1
      BY <3>2, <3>3
    <3>5. k > 2 => new[1] = open[1]
      BY <3>2, <3>3
    <3>6. Len(new) = Len(open) - 1
      BY <3>1, <3>2
    <3>7. (Len(open) = 2 => k = 2) /\ (Len(open) > 2 => k > 2)
      BY <3>1
    <3> QED BY <3>4, <3>5, <3>6, <3>7, Zenon
  <2> QED BY <1>3, <2>4, <2>5 DEF new
<1>4. CASE e \in {"String", "Scalar"}
  <2>1. new = OneMore(open)
    BY <1>4 DEF OpenStep
  <2> HIDE DEF new
  <2> QED BY <1>0, <1>1, <1>4, <2>1 DEF new
<1>5. CASE e \notin {"StartArray", "StartObject", "EndArray", "EndObject", "String", "Scalar"}
  <2>1. new = open
    BY <1>5 DEF OpenStep
  <2> QED BY <1>5, <2>1
<1> QED BY <1>2, <1>3, <1>4, <1>5

(* A legal event keeps the contexts in step with what is open.             *)
LEMMA OpenInStep ==
    ASSUME NEW before, NEW after, NEW event, NEW open, NEW n \in Nat,
           Legal(before, event, after), OpenIn(before, open, n),
           before = "Outermost" => n = 0
    PROVE  OpenIn(after, OpenStep(open, event.e), IF event.e = "EndObject" THEN n + 1 ELSE n)
<1> DEFINE new == OpenStep(open, event.e)
           m == IF event.e = "EndObject" THEN n + 1 ELSE n
<1>0. open \in Seq(Nat) /\ Len(open) \in Nat /\ new \in Seq(Nat)
  BY OpenOne DEF OpenIn
<1>d. /\ DepthOf("Outermost") = 0 /\ DepthOf("InTopLevelArray") = 1 /\ DepthOf("InObject") = 2
      /\ DepthOf("InArgumentsValue") = 2 /\ DepthOf("InArgumentsValueArray") = 3
  BY DEF DepthOf
<1> SUFFICES Len(new) = DepthOf(after) /\ (Len(new) > 0 => new[1] = m)
  BY <1>0 DEF OpenIn
<1>e. PICK k \in Nat : k = Len(open) /\ k = DepthOf(before) /\ (k > 0 => open[1] = n)
  BY <1>0 DEF OpenIn
<1>f. /\ event.e \in {"StartArray", "StartObject"} =>
            Len(new) = k + 1 /\ new[1] = IF k = 0 THEN 0 ELSE open[1]
      /\ event.e \in {"EndArray", "EndObject"} /\ k > 0 =>
            /\ Len(new) = k - 1
            /\ k = 2 => new[1] = open[1] + 1
            /\ k > 2 => new[1] = open[1]
      /\ event.e = "Key" => new = open
      /\ event.e = "String" /\ k > 1 => Len(new) = k /\ new[1] = open[1]
  BY <1>0, <1>e, OpenOne
<1> HIDE DEF new
<1>1. CASE event.e = "StartArray" /\ before = "Outermost" /\ after = "InTopLevelArray"
  BY <1>d, <1>e, <1>f, <1>1
<1>2. CASE event.e = "StartObject" /\ before = "InTopLevelArray" /\ after = "InObject"
  BY <1>d, <1>e, <1>f, <1>2
<1>3. CASE event.e = "EndArray" /\ before = "InTopLevelArray" /\ after = "Outermost"
  BY <1>d, <1>e, <1>f, <1>3
<1>4. CASE event.e = "Key" /\ before = "InObject" /\ after \in {"InObject", "InArgumentsValue"}
  <2>1. DepthOf(after) = 2
    BY <1>d, <1>4
  <2> QED BY <1>d, <1>e, <1>f, <1>4, <2>1
<1>5. CASE event.e = "String" /\ before = "InObject" /\ after = "InObject"
  BY <1>d, <1>e, <1>f, <1>5
<1>6. CASE event.e = "EndObject" /\ before = "InObject" /\ after = "InTopLevelArray"
  BY <1>d, <1>e, <1>f, <1>6
<1>7. CASE event.e = "StartArray" /\ before = "InArgumentsValue" /\ after = "InArgumentsValueArray"
  BY <1>d, <1>e, <1>f, <1>7
<1>8. CASE event.e = "String" /\ before = "InArgumentsValueArray" /\ after = "InArgumentsValueArray"
  BY <1>d, <1>e, <1>f, <1>8
<1>9. CASE event.e = "EndArray" /\ before = "InArgumentsValueArray" /\ after = "InObject"
  BY <1>d, <1>e, <1>f, <1>9
<1> QED BY <1>1, <1>2, <1>3, <1>4, <1>5, <1>6, <1>7, <1>8, <1>9 DEF Legal

(* After every event of an accepted file the context tells what is open.   *)
LEMMA OpenInAccepted ==
    ASSUME NEW d, IsJson(d), ~ Validated(d)[Len(d)].error
    PROVE  \A i \in 0 .. Len(d) :
              /\ OpenIn(Validated(d)[i].context, OpenAfter(d)[i], Cardinality(EndsOf(d, i)))
              /\ Validated(d)[i].context = "Outermost" => i \in {0, Len(d)}
<1> DEFINE v == Validated(d)
           o == OpenAfter(d)
           n == Len(d)
           S == {i \in 0 .. n : OpenIn(v[i].context, o[i], Cardinality(EndsOf(d, i)))}
<1>1. n \in Nat
  BY DEF IsJson
<1>2. /\ \A i \in 1 .. n : Legal(v[i - 1].context, d[i], v[i].context)
      /\ v[0].context = "Outermost"
  BY NoErrorBefore
<1>3. o[0] = <<>> /\ \A i \in 1 .. n : o[i] = OpenStep(o[i - 1], d[i].e)
  BY <1>1, OpenSteps
<1>4. \A i \in 1 .. n : i > 1 /\ o[i - 1] = <<>> => d[i].e = "SyntaxError"
  BY DEF IsJson
<1> HIDE DEF v, o, n
<1>5. 0 \in S
  <2>1. o[0] \in Seq(Nat) /\ Len(o[0]) = 0
    BY <1>3
  <2> QED BY <1>1, <1>2, <2>1 DEF OpenIn, DepthOf
<1>6. ASSUME NEW i \in 0 .. n, i < n, OpenIn(v[i].context, o[i], Cardinality(EndsOf(d, i))),
             v[i].context = "Outermost"
      PROVE  i = 0
  <2>1. o[i] = <<>>
    BY <1>6 DEF OpenIn, DepthOf
  <2>2. i + 1 \in 1 .. n /\ (i + 1) - 1 = i
    BY <1>1, <1>6
  <2>3. d[i + 1].e # "SyntaxError"
    BY <1>2, <2>2 DEF Legal
  <2> QED BY <1>4, <2>1, <2>2, <2>3
<1>7. ASSUME NEW i \in 0 .. (n - 1), i \in S PROVE i + 1 \in S
  <2>1. i + 1 \in 1 .. n /\ (i + 1) - 1 = i /\ i < n /\ i \in 0 .. n /\ i + 1 \in 0 .. n /\ i \in Nat
    BY <1>1
  <2>2. OpenIn(v[i].context, o[i], Cardinality(EndsOf(d, i)))
    BY <1>7
  <2>3. v[i].context = "Outermost" => i = 0
    BY <1>6, <2>1, <2>2
  <2>4. PICK c \in Nat : /\ c = Cardinality(EndsOf(d, i)) /\ (i = 0 => c = 0)
                         /\ Cardinality(EndsOf(d, i + 1)) =
                               IF d[i + 1].e = "EndObject" THEN c + 1 ELSE c
    <3>1. /\ Cardinality(EndsOf(d, i)) \in Nat /\ Cardinality(EndsOf(d, 0)) = 0
          /\ Cardinality(EndsOf(d, i + 1)) =
                Cardinality(EndsOf(d, i)) + (IF d[i + 1].e = "EndObject" THEN 1 ELSE 0)
      BY <2>1, EndsGrow
    <3>2. Cardinality(EndsOf(d, i + 1)) =
             IF d[i + 1].e = "EndObject" THEN Cardinality(EndsOf(d, i)) + 1
             ELSE Cardinality(EndsOf(d, i))
      BY <3>1
    <3> QED BY <3>1, <3>2
  <2>5. Legal(v[i].context, d[i + 1], v[i + 1].context) /\ o[i + 1] = OpenStep(o[i], d[i + 1].e)
    BY <1>2, <1>3, <2>1
  <2>6. OpenIn(v[i + 1].context, OpenStep(o[i], d[i + 1].e),
               IF d[i + 1].e = "EndObject" THEN c + 1 ELSE c)
    BY <2>2, <2>3, <2>4, <2>5, OpenInStep
  <2> QED BY <2>1, <2>4, <2>5, <2>6
<1>8. \A i \in 0 .. n : i \in S
  <2> HIDE DEF S
  <2> QED BY <1>1, <1>5, <1>7, UpTo
<1>9. \A i \in 0 .. n : v[i].context = "Outermost" => i \in {0, n}
  <2> SUFFICES ASSUME NEW i \in 0 .. n, v[i].context = "Outermost", i # n PROVE i = 0
    OBVIOUS
  <2>1. i < n /\ i \in S
    BY <1>1, <1>8
  <2> QED BY <1>6, <2>1
<1> QED BY <1>8, <1>9 DEF v, o, n

(* An accepted file is read to the end of its one value.                   *)
LEMMA EndsOutermost ==
    ASSUME NEW d, IsJson(d), ~ Validated(d)[Len(d)].error
    PROVE  Validated(d)[Len(d)].context = "Outermost"
<1> DEFINE v == Validated(d)
           o == OpenAfter(d)
           n == Len(d)
<1>1. n \in Nat
  BY DEF IsJson
<1>2. /\ \A i \in 1 .. n : Legal(v[i - 1].context, d[i], v[i].context)
      /\ v[0].context = "Outermost"
  BY NoErrorBefore
<1>3. OpenIn(v[n].context, o[n], Cardinality(EndsOf(d, n)))
  BY <1>1, OpenInAccepted
<1>4. o[n] = <<>> \/ d[n].e = "SyntaxError"
  BY DEF IsJson
<1> HIDE DEF v, o, n
<1>5. CASE n = 0
  BY <1>2, <1>5 DEF v, n
<1>6. CASE n # 0
  <2>1. n \in 1 .. n
    BY <1>1, <1>6
  <2>2. o[n] = <<>>
    BY <1>2, <1>4, <2>1 DEF Legal
  <2>3. DepthOf(v[n].context) = 0
    BY <1>3, <2>2 DEF OpenIn
  <2>4. v[n].context = "Outermost"
    BY <2>3 DEF DepthOf
  <2> QED BY <2>4 DEF v, n
<1> QED BY <1>5, <1>6

(* The count of an accepted file is the number of its objects.             *)
LEMMA CountOfAccepted ==
    ASSUME NEW d, IsJson(d), ~ Validated(d)[Len(d)].error, Validated(d)[Len(d)].count # 0
    PROVE  Validated(d)[Len(d)].count = Cardinality(EndsOf(d, Len(d)))
<1> DEFINE v == Validated(d)
           o == OpenAfter(d)
           n == Len(d)
<1>1. n \in Nat
  BY DEF IsJson
<1>2. /\ \A i \in 1 .. n :
            /\ Legal(v[i - 1].context, d[i], v[i].context)
            /\ v[i].count = IF d[i].e = "EndArray" THEN d[i].v ELSE v[i - 1].count
      /\ v[0].context = "Outermost" /\ v[0].count = 0
  BY NoErrorBefore
<1>3. \A i \in 0 .. n : OpenIn(v[i].context, o[i], Cardinality(EndsOf(d, i)))
  BY OpenInAccepted
<1>4. \A i \in 1 .. n : d[i].e = "EndArray" => d[i].v = o[i - 1][Len(o[i - 1])]
  BY DEF IsJson
<1>5. v[n].count # 0
  OBVIOUS
<1> HIDE DEF v, o, n
<1>6. n \in 1 .. n /\ n # 0 /\ n - 1 \in 0 .. n /\ n - 1 \in Nat /\ (n - 1) + 1 = n
  BY <1>1, <1>2, <1>5
<1>8. v[n].context = "Outermost"
  BY EndsOutermost DEF v, n
<1>9. d[n].e = "EndArray" /\ v[n - 1].context = "InTopLevelArray"
  BY <1>2, <1>6, <1>8 DEF Legal
<1>10. Len(o[n - 1]) = 1 /\ o[n - 1][1] = Cardinality(EndsOf(d, n - 1))
  <2>1. OpenIn(v[n - 1].context, o[n - 1], Cardinality(EndsOf(d, n - 1)))
    BY <1>3, <1>6
  <2>2. DepthOf(v[n - 1].context) = 1
    BY <1>9 DEF DepthOf
  <2> QED BY <2>1, <2>2 DEF OpenIn
<1>11. v[n].count = Cardinality(EndsOf(d, n - 1))
  BY <1>2, <1>4, <1>6, <1>9, <1>10
<1>12. Cardinality(EndsOf(d, n)) = Cardinality(EndsOf(d, n - 1))
  <2>1. PICK m \in Nat : m = n - 1 /\ m + 1 = n
    BY <1>6
  <2>2. /\ Cardinality(EndsOf(d, m)) \in Nat
        /\ Cardinality(EndsOf(d, m + 1)) =
              Cardinality(EndsOf(d, m)) + (IF d[m + 1].e = "EndObject" THEN 1 ELSE 0)
    BY EndsGrow
  <2>3. d[m + 1].e # "EndObject"
    BY <1>9, <2>1
  <2>4. Cardinality(EndsOf(d, m + 1)) = Cardinality(EndsOf(d, m))
    BY <2>2, <2>3
  <2> QED BY <2>1, <2>4
<1> QED BY <1>11, <1>12 DEF v, n

(***************************************************************************)
(* Keys and fields of an object.                                           *)
(***************************************************************************)

(* There is one last key.                                                  *)
LEMMA LastKeyUnique ==
    ASSUME NEW d, NEW s \in Nat, NEW q \in Nat, NEW k, NEW j,
           LastKey(d, s, q, k), LastKey(d, s, q, j)
    PROVE  k = j
<1>1. PICK r \in s + 1 .. q : /\ d[r].e = "Key" /\ d[r].v = k
                              /\ \A t \in r + 1 .. q : d[t].e # "Key"
  BY DEF LastKey
<1>2. PICK u \in s + 1 .. q : /\ d[u].e = "Key" /\ d[u].v = j
                              /\ \A t \in u + 1 .. q : d[t].e # "Key"
  BY DEF LastKey
<1>3. ~ (r < u) /\ ~ (u < r)
  BY <1>1, <1>2
<1>4. r = u
  BY <1>3
<1> QED BY <1>1, <1>2, <1>4

(* What one more event does to the last key.                               *)
LEMMA LastKeyStep ==
    ASSUME NEW d, NEW s \in Nat, NEW q \in Nat, s <= q
    PROVE  /\ d[q + 1].e # "Key" => \A k : LastKey(d, s, q + 1, k) <=> LastKey(d, s, q, k)
           /\ d[q + 1].e = "Key" => LastKey(d, s, q + 1, d[q + 1].v)
<1>1. ASSUME d[q + 1].e # "Key", NEW k, LastKey(d, s, q, k) PROVE LastKey(d, s, q + 1, k)
  <2>1. PICK r \in s + 1 .. q : /\ d[r].e = "Key" /\ d[r].v = k
                                /\ \A t \in r + 1 .. q : d[t].e # "Key"
    BY <1>1 DEF LastKey
  <2>2. \A t \in r + 1 .. (q + 1) : t = q + 1 \/ t \in r + 1 .. q
    OBVIOUS
  <2>3. \A t \in r + 1 .. (q + 1) : d[t].e # "Key"
    BY <1>1, <2>1, <2>2
  <2>4. r \in s + 1 .. (q + 1)
    OBVIOUS
  <2> QED BY <2>1, <2>3, <2>4 DEF LastKey
<1>2. ASSUME d[q + 1].e # "Key", NEW k, LastKey(d, s, q + 1, k) PROVE LastKey(d, s, q, k)
  <2>1. PICK r \in s + 1 .. (q + 1) : /\ d[r].e = "Key" /\ d[r].v = k
                                      /\ \A t \in r + 1 .. (q + 1) : d[t].e # "Key"
    BY <1>2 DEF LastKey
  <2>2. r # q + 1
    BY <1>2, <2>1
  <2>3. r \in s + 1 .. q /\ \A t \in r + 1 .. q : t \in r + 1 .. (q + 1)
    BY <2>2
  <2> QED BY <2>1, <2>3 DEF LastKey
<1>3. ASSUME d[q + 1].e = "Key" PROVE LastKey(d, s, q + 1, d[q + 1].v)
  <2>1. q + 1 \in s + 1 .. (q + 1) /\ (q + 1) + 1 .. (q + 1) = {}
    OBVIOUS
  <2> QED BY <1>3, <2>1 DEF LastKey
<1> QED BY <1>1, <1>2, <1>3

(* What one more event does to the value of a field.                       *)
LEMMA FieldStep ==
    ASSUME NEW d, NEW s \in Nat, NEW q \in Nat, s <= q, NEW k, NEW x
    PROVE  /\ FieldIs(d, s, q, k, x) /\ ~ ValueAt(d, s, q + 1, k) => FieldIs(d, s, q + 1, k, x)
           /\ ValueAt(d, s, q + 1, k) => FieldIs(d, s, q + 1, k, d[q + 1].v)
<1>1. ASSUME FieldIs(d, s, q, k, x), ~ ValueAt(d, s, q + 1, k) PROVE FieldIs(d, s, q + 1, k, x)
  <2>1. CASE x = "" /\ \A p \in s + 1 .. q : ~ ValueAt(d, s, p, k)
    <3>1. \A p \in s + 1 .. (q + 1) : p = q + 1 \/ p \in s + 1 .. q
      OBVIOUS
    <3>2. \A p \in s + 1 .. (q + 1) : ~ ValueAt(d, s, p, k)
      BY <1>1, <2>1, <3>1
    <3> QED BY <2>1, <3>2 DEF FieldIs
  <2>2. CASE \E p \in s + 1 .. q : /\ ValueAt(d, s, p, k) /\ d[p].v = x
                                   /\ \A t \in p + 1 .. q : ~ ValueAt(d, s, t, k)
    <3>1. PICK p \in s + 1 .. q : /\ ValueAt(d, s, p, k) /\ d[p].v = x
                                  /\ \A t \in p + 1 .. q : ~ ValueAt(d, s, t, k)
      BY <2>2
    <3>2. p \in s + 1 .. (q + 1) /\ \A t \in p + 1 .. (q + 1) : t = q + 1 \/ t \in p + 1 .. q
      OBVIOUS
    <3>3. \A t \in p + 1 .. (q + 1) : ~ ValueAt(d, s, t, k)
      BY <1>1, <3>1, <3>2
    <3> QED BY <3>1, <3>2, <3>3 DEF FieldIs
  <2> QED BY <1>1, <2>1, <2>2 DEF FieldIs
<1>2. ASSUME ValueAt(d, s, q + 1, k) PROVE FieldIs(d, s, q + 1, k, d[q + 1].v)
  <2>1. q + 1 \in s + 1 .. (q + 1) /\ (q + 1) + 1 .. (q + 1) = {}
    OBVIOUS
  <2> QED BY <1>2, <2>1 DEF FieldIs
<1> QED BY <1>1, <1>2

(* The events of an object, by their positions in the file.                *)
LEMMA ObjectEvents ==
    ASSUME NEW d, IsJson(d), NEW s \in 1 .. Len(d), NEW e \in 1 .. Len(d), s <= e
    PROVE  /\ Len(SubSeq(d, s, e)) = e - s + 1
           /\ DOMAIN SubSeq(d, s, e) = 1 .. (e - s + 1)
           /\ \A j \in 1 .. (e - s + 1) : SubSeq(d, s, e)[j] = d[s + j - 1]
<1>1. Len(d) \in Nat /\ d = [p \in 1 .. Len(d) |-> [e |-> d[p].e, v |-> d[p].v]]
  BY DEF IsJson
<1> DEFINE R == {d[p] : p \in 1 .. Len(d)}
<1>2. d \in Seq(R)
  BY <1>1
<1> HIDE DEF R
<1>3. s \in 1 .. (Len(d) + 1) /\ e \in 0 .. Len(d)
  BY <1>1
<1>4. /\ SubSeq(d, s, e) \in Seq(R)
      /\ Len(SubSeq(d, s, e)) = IF s <= e THEN e - s + 1 ELSE 0
      /\ \A i \in 1 .. (e - s + 1) : SubSeq(d, s, e)[i] = d[s + i - 1]
  BY <1>2, <1>3, SubSeqProperties
<1> QED BY <1>4

(* Event j of the events from s on, which is event p of d, has key k.      *)
IsStringAt(d, s, p, k, j, events) ==
    /\ s \in Nat /\ p \in Nat /\ s < p /\ j = p - s + 1
    /\ d[s].e # "Key" /\ LastKey(d, s, p, k)
    /\ \A i \in 1 .. j : events[i] = d[s + i - 1]

(* The last key among the first p events.                                  *)
KeyBefore(events, p) ==
    CHOOSE q \in 1 .. p : /\ events[q].e = "Key"
                          /\ \A r \in q + 1 .. p : events[r].e # "Key"

(* The key that the reference definition gives to a string of an object is *)
(* its last key.                                                           *)
LEMMA KeyOfString ==
    ASSUME NEW d, NEW s, NEW p, NEW k, NEW j, NEW events, IsStringAt(d, s, p, k, j, events)
    PROVE  events[KeyBefore(events, j)].v = k
<1> USE DEF IsStringAt
<1> DEFINE Is(q) == events[q].e = "Key" /\ \A r \in q + 1 .. j : events[r].e # "Key"
<1>0. j \in Nat
  OBVIOUS
<1>1. PICK r \in s + 1 .. p : /\ d[r].e = "Key" /\ d[r].v = k
                              /\ \A t \in r + 1 .. p : d[t].e # "Key"
  BY DEF LastKey
<1>2. r - s + 1 \in 1 .. j /\ s + (r - s + 1) - 1 = r
  OBVIOUS
<1>3. \A i \in (r - s + 1) + 1 .. j : i \in 1 .. j /\ s + i - 1 \in r + 1 .. p
  OBVIOUS
<1>4. Is(r - s + 1)
  <2>1. events[r - s + 1] = d[r]
    BY <1>2
  <2>2. ASSUME NEW i \in (r - s + 1) + 1 .. j PROVE events[i].e # "Key"
    <3>1. events[i] = d[s + i - 1] /\ s + i - 1 \in r + 1 .. p
      BY <1>3
    <3> QED BY <1>1, <3>1
  <2> QED BY <1>1, <2>1, <2>2
<1> DEFINE c == CHOOSE q \in 1 .. j : Is(q)
<1>5. c \in 1 .. j /\ Is(c)
  BY <1>2, <1>4
<1> HIDE DEF c
<1>6. events[c] = d[s + c - 1] /\ s + c - 1 \in s .. p /\ c # 1
  BY <1>5
<1>7. LastKey(d, s, p, events[c].v)
  <2>1. s + c - 1 \in s + 1 .. p
    BY <1>5, <1>6
  <2>2. ASSUME NEW t \in (s + c - 1) + 1 .. p PROVE d[t].e # "Key"
    <3>1. t - s + 1 \in c + 1 .. j /\ t - s + 1 \in 1 .. j /\ s + (t - s + 1) - 1 = t
      BY <1>5
    <3>2. events[t - s + 1] = d[t]
      BY <3>1
    <3> QED BY <1>5, <3>1, <3>2
  <2> QED BY <1>5, <1>6, <2>1, <2>2 DEF LastKey
<1>8. events[c].v = k
  BY <1>7, LastKeyUnique
<1>9. c = KeyBefore(events, j)
  BY Zenon DEF c, KeyBefore
<1> QED BY <1>8, <1>9

(***************************************************************************)
(* The reference definitions EventsOfObject and ValuesOf.                  *)
(***************************************************************************)

(* The field that the handler keeps is the last of the values that the     *)
(* reference definition reads off the text of the object.                  *)
LEMMA ReferenceField ==
    ASSUME NEW d, IsJson(d), NEW s \in 1 .. Len(d), NEW e \in 1 .. Len(d), s < e,
           d[s].e = "StartObject", StringsHaveKeys(d, s, e),
           NEW k, NEW x, FieldIs(d, s, e, k, x)
    PROVE  LastOf(ValuesOf(SubSeq(d, s, e), k)) = x
<1> DEFINE events == SubSeq(d, s, e)
           n == e - s + 1
           KeyOf(p) == KeyBefore(events, p)
           mine == {p \in DOMAIN events : events[p].e = "String" /\ events[KeyOf(p)].v = k}
<1>1. /\ Len(d) \in Nat /\ n \in Nat
      /\ DOMAIN events = 1 .. n /\ \A j \in 1 .. n : events[j] = d[s + j - 1]
  BY ObjectEvents DEF IsJson
<1>2. ValuesOf(events, k) = [i \in 1 .. Cardinality(mine) |-> events[Nth(mine, i)].v]
  BY Zenon DEF ValuesOf, KeyBefore
<1> HIDE DEF events
<1>3. ASSUME NEW j \in 1 .. n
      PROVE  j \in mine <=> s + j - 1 \in s + 1 .. e /\ ValueAt(d, s, s + j - 1, k)
  <2>1. events[j] = d[s + j - 1] /\ s + j - 1 \in s .. e /\ s \in Nat
    BY <1>1
  <2>2. CASE events[j].e # "String"
    BY <2>1, <2>2 DEF ValueAt
  <2>3. CASE events[j].e = "String"
    <3>1. s + j - 1 # s /\ s + j - 1 \in s + 1 .. e
      BY <2>1, <2>3
    <3>2. PICK p \in Nat : p = s + j - 1 /\ s < p /\ j = p - s + 1 /\ p \in s + 1 .. e
      BY <2>1, <3>1
    <3>3. PICK k1 \in Keys : LastKey(d, s, p, k1)
      BY <2>1, <2>3, <3>2 DEF StringsHaveKeys
    <3>4. \A i \in 1 .. j : events[i] = d[s + i - 1]
      BY <1>1, <3>2
    <3>5. events[KeyOf(j)].v = k1
      <4>1. d[s].e # "Key" /\ s \in Nat
        BY <2>1
      <4>2. IsStringAt(d, s, p, k1, j, events)
        BY <3>2, <3>3, <3>4, <4>1 DEF IsStringAt
      <4> QED BY <4>2, KeyOfString
    <3> HIDE DEF KeyOf
    <3>6. j \in mine <=> k1 = k
      BY <1>1, <2>3, <3>5
    <3>7. ValueAt(d, s, p, k) <=> k1 = k
      BY <2>1, <2>3, <3>2, <3>3, LastKeyUnique DEF ValueAt
    <3> QED BY <3>1, <3>2, <3>6, <3>7
  <2> QED BY <2>2, <2>3
<1>4. mine \subseteq 1 .. n /\ mine \subseteq Nat /\ IsFiniteSet(mine)
  <2>1. mine \subseteq 1 .. n
    BY <1>1
  <2> HIDE DEF mine
  <2>2. IsFiniteSet(1 .. n)
    BY <1>1, FS_Interval
  <2>3. IsFiniteSet(mine)
    BY <2>1, <2>2, FS_Subset
  <2>4. \A i \in 1 .. n : i \in Nat
    OBVIOUS
  <2> HIDE DEF n
  <2> QED BY <2>1, <2>3, <2>4
<1> HIDE DEF mine
<1>5. CASE x = "" /\ \A p \in s + 1 .. e : ~ ValueAt(d, s, p, k)
  <2>1. mine = {}
    BY <1>3, <1>4, <1>5
  <2>2. Cardinality(mine) = 0
    BY <2>1, FS_EmptySet
  <2>3. ValuesOf(events, k) = <<>>
    BY <1>2, <2>2
  <2>4. LastOf(ValuesOf(events, k)) = ""
    BY <2>3 DEF LastOf
  <2> QED BY <1>5, <2>4 DEF events
<1>6. CASE \E p \in s + 1 .. e : /\ ValueAt(d, s, p, k) /\ d[p].v = x
                                 /\ \A t \in p + 1 .. e : ~ ValueAt(d, s, t, k)
  <2>1. PICK p \in s + 1 .. e : /\ ValueAt(d, s, p, k) /\ d[p].v = x
                                /\ \A t \in p + 1 .. e : ~ ValueAt(d, s, t, k)
    BY <1>6
  <2>2. PICK j \in 1 .. n : j = p - s + 1 /\ s + j - 1 = p
    BY <1>1
  <2>3. j \in mine /\ events[j].v = x
    BY <1>1, <1>3, <2>1, <2>2
  <2>4. ASSUME NEW i \in mine PROVE i <= j
    <3>1. i \in 1 .. n /\ s + i - 1 \in s + 1 .. e /\ ValueAt(d, s, s + i - 1, k)
      BY <1>3, <1>4
    <3>2. s + i - 1 \notin p + 1 .. e
      BY <2>1, <3>1
    <3> QED BY <2>2, <3>1, <3>2
  <2>5. Cardinality(mine) \in Nat /\ Cardinality(mine) > 0 /\ Nth(mine, Cardinality(mine)) = j
    BY <1>4, <2>3, <2>4, NthLast
  <2>6. PICK c \in Nat : c = Cardinality(mine) /\ c > 0
    BY <2>5
  <2> DEFINE values == ValuesOf(events, k)
  <2>7. values = [i \in 1 .. c |-> events[Nth(mine, i)].v]
    BY <1>2, <2>6
  <2> HIDE DEF values
  <2>8. Len(values) = c /\ values # <<>> /\ values[c] = events[Nth(mine, c)].v
    BY <2>6, <2>7
  <2>9. LastOf(values) = x
    BY <2>3, <2>5, <2>6, <2>8 DEF LastOf
  <2> QED BY <2>9 DEF values, events
<1> QED BY <1>5, <1>6 DEF FieldIs

(* The events that the reference definition takes for object n.            *)
LEMMA ReferenceObject ==
    ASSUME IsJson(doc), NEW e \in 1 .. Len(doc), doc[e].e = "EndObject", NEW n \in Nat,
           Cardinality(EndsOf(doc, e - 1)) = n, NEW s \in 1 .. (e - 1), OpenObject(doc, s, e - 1)
    PROVE  EventsOfObject(n) = SubSeq(doc, s, e)
<1>1. Len(doc) \in Nat /\ DOMAIN doc = 1 .. Len(doc)
  BY DEF IsJson
<1>2. ObjectEnds = EndsOf(doc, Len(doc)) /\ e \in ObjectEnds
  BY <1>1 DEF ObjectEnds, EndsOf
<1>3. ObjectEnds \subseteq Nat /\ IsFiniteSet(ObjectEnds)
  <2>1. IsFiniteSet(EndsOf(doc, Len(doc)))
    BY <1>1, EndsGrow
  <2> QED BY <1>1, <1>2, <2>1 DEF EndsOf
<1>4. Below(ObjectEnds, e) = EndsOf(doc, e - 1)
  BY <1>1, <1>2 DEF Below, EndsOf
<1>5. Cardinality(ObjectEnds) \in Nat /\ Cardinality(Below(ObjectEnds, e)) < Cardinality(ObjectEnds)
  BY <1>2, <1>3, Ranks
<1>6. Nth(ObjectEnds, n + 1) = e
  <2>1. n + 1 \in 1 .. Cardinality(ObjectEnds) /\ Cardinality(Below(ObjectEnds, e)) = (n + 1) - 1
    BY <1>4, <1>5
  <2> QED BY <1>2, <1>3, <2>1, NthIs
<1> DEFINE Is(p) == doc[p].e = "StartObject" /\ \A q \in p + 1 .. e : doc[q].e # "StartObject"
<1>7. Is(s) /\ s \in 1 .. e
  <2>1. doc[s].e = "StartObject" /\ \A q \in s + 1 .. (e - 1) : doc[q].e # "StartObject"
    BY DEF OpenObject
  <2>2. \A q \in s + 1 .. e : q = e \/ q \in s + 1 .. (e - 1)
    OBVIOUS
  <2>3. doc[e].e # "StartObject"
    OBVIOUS
  <2> QED BY <2>1, <2>2, <2>3
<1>8. ASSUME NEW p \in 1 .. e, Is(p) PROVE p = s
  <2>1. ~ (p < s) /\ ~ (s < p)
    BY <1>7, <1>8
  <2> QED BY <2>1
<1>9. (CHOOSE p \in 1 .. e : Is(p)) = s
  <2> HIDE DEF Is
  <2> QED BY <1>7, <1>8
<1>10. EventsOfObject(n) =
          SubSeq(doc, CHOOSE p \in 1 .. Nth(ObjectEnds, n + 1) :
                        /\ doc[p].e = "StartObject"
                        /\ \A q \in p + 1 .. Nth(ObjectEnds, n + 1) : doc[q].e # "StartObject",
                 Nth(ObjectEnds, n + 1))
  BY Zenon DEF EventsOfObject
<1>11. EventsOfObject(n) = SubSeq(doc, CHOOSE p \in 1 .. e : Is(p), e)
  BY <1>6, <1>10, Zenon
<1> HIDE DEF Is
<1> QED BY <1>9, <1>11

(* A command that was read from its object has the fields of its object.   *)
LEMMA OwnFields ==
    ASSUME IsJson(doc), NEW n \in Nat, NEW c, ReadFrom(doc, n, c)
    PROVE  /\ c.directory = LastOf(ValuesOf(EventsOfObject(n), "directory"))
           /\ c.file = LastOf(ValuesOf(EventsOfObject(n), "file"))
<1>1. PICK e \in 1 .. Len(doc) :
        /\ doc[e].e = "EndObject" /\ Cardinality(EndsOf(doc, e - 1)) = n
        /\ \E s \in 1 .. e - 1 :
            /\ OpenObject(doc, s, e - 1)
            /\ StringsHaveKeys(doc, s, e)
            /\ FieldIs(doc, s, e, "directory", c.directory)
            /\ FieldIs(doc, s, e, "file", c.file)
  BY DEF ReadFrom
<1>2. PICK s \in 1 .. e - 1 :
            /\ OpenObject(doc, s, e - 1)
            /\ StringsHaveKeys(doc, s, e)
            /\ FieldIs(doc, s, e, "directory", c.directory)
            /\ FieldIs(doc, s, e, "file", c.file)
  BY <1>1
<1>3. EventsOfObject(n) = SubSeq(doc, s, e)
  BY <1>1, <1>2, ReferenceObject
<1>4. s \in 1 .. Len(doc) /\ s < e /\ doc[s].e = "StartObject"
  BY <1>1, <1>2 DEF OpenObject, IsJson
<1> QED BY <1>1, <1>2, <1>3, <1>4, ReferenceField

(***************************************************************************)
(* CommandObjectHandler, one event at a time.                              *)
(***************************************************************************)

(* The empty sequence.                                                     *)
LEMMA NoCommands == IsSequence(<<>>) /\ Len(<<>>) = 0 /\ DOMAIN <<>> = {}
BY DEF IsSequence, ToSet

(* The domain of a sequence.                                               *)
LEMMA DomainOf ==
    ASSUME NEW s, IsSequence(s)
    PROVE  Len(s) \in Nat /\ DOMAIN s = 1 .. Len(s)
BY DEF IsSequence

(* A sequence with one more element.                                       *)
LEMMA OneAppended ==
    ASSUME NEW s, IsSequence(s), NEW x
    PROVE  /\ IsSequence(Append(s, x))
           /\ Len(s) \in Nat /\ DOMAIN s = 1 .. Len(s)
           /\ Len(Append(s, x)) = Len(s) + 1
           /\ DOMAIN Append(s, x) = 1 .. (Len(s) + 1)
           /\ \A i \in 1 .. Len(s) : Append(s, x)[i] = s[i]
           /\ Append(s, x)[Len(s) + 1] = x
BY DEF IsSequence, ToSet

(* A function on 1 .. n is a sequence.                                     *)
LEMMA FunctionIsSequence ==
    ASSUME NEW n \in Nat, NEW f, f = [i \in 1 .. n |-> f[i]]
    PROVE  IsSequence(f) /\ Len(f) = n
BY DEF IsSequence, ToSet

(* A state of CommandObjectHandler.                                        *)
IsHandler(h) ==
    /\ h = [previousKey |-> h.previousKey, wipCommand |-> h.wipCommand,
            commands |-> h.commands, enforceFailed |-> h.enforceFailed]
    /\ h.enforceFailed \in BOOLEAN
    /\ IsCommand(h.wipCommand)
    /\ IsSequence(h.commands)
    /\ \A i \in DOMAIN h.commands : IsCommand(h.commands[i])

(* The handler that ResumableParser::initialize makes.                     *)
LEMMA NewIsHandler ==
    /\ IsHandler(NewHandler) /\ ~ NewHandler.enforceFailed /\ NewHandler.commands = <<>>
    /\ NewHandler.wipCommand = EmptyCommand /\ NewHandler.previousKey = "unset"
    /\ IsCommand(EmptyCommand) /\ EmptyCommand.directory = "" /\ EmptyCommand.file = ""
<1>1. IsCommand(EmptyCommand) /\ EmptyCommand.directory = "" /\ EmptyCommand.file = ""
  BY DEF IsCommand, EmptyCommand
<1>2. NewHandler = [previousKey |-> "unset", wipCommand |-> EmptyCommand,
                    commands |-> <<>>, enforceFailed |-> FALSE]
  BY DEF NewHandler
<1>3. IsHandler([previousKey |-> "unset", wipCommand |-> EmptyCommand,
                 commands |-> <<>>, enforceFailed |-> FALSE])
  BY <1>1, NoCommands DEF IsHandler
<1> QED BY <1>1, <1>2, <1>3

(* What a key does.                                                        *)
LEMMA HandleOneKey ==
    ASSUME NEW h, IsHandler(h), NEW key
    PROVE  /\ IsHandler(HandleKey(h, key))
           /\ ~ HandleKey(h, key).enforceFailed =>
                 /\ ~ h.enforceFailed /\ key \in Keys /\ HandleKey(h, key).previousKey = key
                 /\ HandleKey(h, key).wipCommand = h.wipCommand
                 /\ HandleKey(h, key).commands = h.commands
<1>1. CASE key \in Keys
  <2>1. HandleKey(h, key) = [previousKey |-> key, wipCommand |-> h.wipCommand,
                             commands |-> h.commands, enforceFailed |-> h.enforceFailed]
    BY <1>1 DEF HandleKey, IsHandler
  <2> QED BY <1>1, <2>1 DEF IsHandler
<1>2. CASE key \notin Keys
  <2>1. HandleKey(h, key) = [previousKey |-> h.previousKey, wipCommand |-> h.wipCommand,
                             commands |-> h.commands, enforceFailed |-> TRUE]
    BY <1>2 DEF HandleKey, IsHandler
  <2> QED BY <1>2, <2>1 DEF IsHandler
<1> QED BY <1>1, <1>2

(* What a string does.                                                     *)
LEMMA HandleOneString ==
    ASSUME NEW h, IsHandler(h), NEW v
    PROVE  /\ IsHandler(HandleString(h, v))
           /\ ~ HandleString(h, v).enforceFailed =>
                 /\ ~ h.enforceFailed /\ h.previousKey \in Keys
                 /\ HandleString(h, v).previousKey = h.previousKey
                 /\ HandleString(h, v).commands = h.commands
                 /\ HandleString(h, v).wipCommand.directory =
                       IF h.previousKey = "directory" THEN v ELSE h.wipCommand.directory
                 /\ HandleString(h, v).wipCommand.file =
                       IF h.previousKey = "file" THEN v ELSE h.wipCommand.file
<1> DEFINE g == HandleString(h, v)
           w == h.wipCommand
           With(c, failed) == [previousKey |-> h.previousKey, wipCommand |-> c,
                               commands |-> h.commands, enforceFailed |-> failed]
           Cmd(dir, file, args) == [index |-> w.index, directory |-> dir, file |-> file,
                                    arguments |-> args]
<1>1. h = With(w, h.enforceFailed) /\ w = Cmd(w.directory, w.file, w.arguments)
  BY DEF IsHandler, IsCommand
<1>2. ASSUME NEW c, IsCommand(c), NEW failed \in BOOLEAN
      PROVE  /\ IsHandler(With(c, failed)) /\ With(c, failed).wipCommand = c
             /\ With(c, failed).enforceFailed = failed
             /\ With(c, failed).previousKey = h.previousKey
             /\ With(c, failed).commands = h.commands
  BY <1>2 DEF IsHandler
<1>3. ASSUME NEW dir, NEW file, NEW args
      PROVE  /\ IsCommand(Cmd(dir, file, args)) /\ Cmd(dir, file, args).directory = dir
             /\ Cmd(dir, file, args).file = file
  BY DEF IsCommand
<1>4. h.enforceFailed \in BOOLEAN /\ IsCommand(w)
  BY DEF IsHandler
<1>5. CASE h.previousKey = "directory"
  <2>1. g = [h EXCEPT !.wipCommand.directory = v]
    BY <1>5 DEF HandleString
  <2>2. g = With(Cmd(v, w.file, w.arguments), h.enforceFailed)
    BY <1>1, <2>1
  <2> HIDE DEF g, With, Cmd
  <2>3. h.previousKey \in Keys /\ h.previousKey # "file"
    BY <1>5 DEF Keys
  <2> QED BY <1>2, <1>3, <1>4, <1>5, <2>2, <2>3 DEF g
<1>6. CASE h.previousKey = "file"
  <2>1. g = [h EXCEPT !.wipCommand.file = v]
    BY <1>6 DEF HandleString
  <2>2. g = With(Cmd(w.directory, v, w.arguments), h.enforceFailed)
    BY <1>1, <2>1
  <2> HIDE DEF g, With, Cmd
  <2>3. h.previousKey \in Keys /\ h.previousKey # "directory"
    BY <1>6 DEF Keys
  <2> QED BY <1>2, <1>3, <1>4, <1>6, <2>2, <2>3 DEF g
<1>7. CASE h.previousKey \in {"command", "arguments"}
  <2>1. PICK args : g = [h EXCEPT !.wipCommand.arguments = args]
    <3>1. CASE h.previousKey = "command"
      <4>1. g = [h EXCEPT !.wipCommand.arguments = unescapeCommandLine(v)]
        BY <3>1 DEF HandleString
      <4> QED BY <4>1
    <3>2. CASE h.previousKey = "arguments"
      <4>1. g = [h EXCEPT !.wipCommand.arguments = Append(h.wipCommand.arguments, v)]
        BY <3>2 DEF HandleString
      <4> QED BY <4>1
    <3> QED BY <1>7, <3>1, <3>2
  <2>2. g = With(Cmd(w.directory, w.file, args), h.enforceFailed)
    BY <1>1, <2>1
  <2> HIDE DEF g, With, Cmd
  <2>3. h.previousKey \in Keys /\ h.previousKey # "directory" /\ h.previousKey # "file"
    BY <1>7 DEF Keys
  <2> QED BY <1>2, <1>3, <1>4, <2>2, <2>3 DEF g
<1>8. CASE h.previousKey = "output"
  <2>1. g = h
    BY <1>8 DEF HandleString
  <2>2. h.previousKey \in Keys /\ h.previousKey # "directory" /\ h.previousKey # "file"
    BY <1>8 DEF Keys
  <2> HIDE DEF g
  <2> QED BY <2>1, <2>2 DEF g
<1>9. CASE h.previousKey \notin {"directory", "file", "command", "arguments", "output"}
  <2>1. g = [h EXCEPT !.enforceFailed = TRUE]
    BY <1>9 DEF HandleString
  <2>2. g = With(w, TRUE)
    BY <1>1, <2>1
  <2> HIDE DEF g, With
  <2> QED BY <1>2, <1>4, <2>2 DEF g
<1> QED BY <1>5, <1>6, <1>7, <1>8, <1>9

(* What the end of an object does.                                         *)
LEMMA HandleOneEnd ==
    ASSUME NEW h, IsHandler(h)
    PROVE  /\ IsHandler(HandleEndObject(h))
           /\ HandleEndObject(h).enforceFailed = h.enforceFailed
           /\ HandleEndObject(h).previousKey = "unset"
           /\ HandleEndObject(h).wipCommand = EmptyCommand
           /\ HandleEndObject(h).commands = Append(h.commands, h.wipCommand)
<1> DEFINE cmds == Append(h.commands, h.wipCommand)
<1>1. HandleEndObject(h) = [previousKey |-> "unset", wipCommand |-> EmptyCommand,
                            commands |-> cmds, enforceFailed |-> h.enforceFailed]
  <2>1. HandleEndObject(h) = [h EXCEPT !.commands = cmds, !.wipCommand = EmptyCommand,
                                       !.previousKey = "unset"]
    BY DEF HandleEndObject
  <2>2. h = [previousKey |-> h.previousKey, wipCommand |-> h.wipCommand,
             commands |-> h.commands, enforceFailed |-> h.enforceFailed]
    BY DEF IsHandler
  <2> HIDE DEF cmds
  <2> QED BY <2>1, <2>2
<1>2. /\ IsSequence(cmds) /\ DOMAIN cmds = 1 .. (Len(h.commands) + 1)
      /\ Len(h.commands) \in Nat /\ DOMAIN h.commands = 1 .. Len(h.commands)
      /\ \A i \in 1 .. Len(h.commands) : cmds[i] = h.commands[i]
      /\ cmds[Len(h.commands) + 1] = h.wipCommand
  BY OneAppended DEF IsHandler
<1> HIDE DEF cmds
<1>3. ASSUME NEW i \in DOMAIN cmds PROVE IsCommand(cmds[i])
  <2>1. PICK n \in Nat : n = Len(h.commands)
    BY <1>2
  <2>2. i = n + 1 \/ i \in 1 .. n
    BY <1>2, <2>1
  <2>3. CASE i = n + 1
    BY <1>2, <2>1, <2>3 DEF IsHandler
  <2>4. CASE i \in 1 .. n
    BY <1>2, <2>1, <2>4 DEF IsHandler
  <2> QED BY <2>2, <2>3, <2>4
<1>4. IsCommand(EmptyCommand) /\ h.enforceFailed \in BOOLEAN
  BY NewIsHandler DEF IsHandler
<1>5. IsHandler([previousKey |-> "unset", wipCommand |-> EmptyCommand,
                 commands |-> cmds, enforceFailed |-> h.enforceFailed])
  BY <1>2, <1>3, <1>4 DEF IsHandler
<1> QED BY <1>1, <1>5 DEF cmds

(* What any event does.                                                    *)
LEMMA HandleOne ==
    ASSUME NEW h, IsHandler(h), NEW event
    PROVE  /\ IsHandler(HandleEvent(h, event))
           /\ h.enforceFailed => HandleEvent(h, event).enforceFailed
           /\ ~ h.enforceFailed =>
                 /\ event.e = "Key" => HandleEvent(h, event) = HandleKey(h, event.v)
                 /\ event.e = "String" => HandleEvent(h, event) = HandleString(h, event.v)
                 /\ event.e = "EndObject" => HandleEvent(h, event) = HandleEndObject(h)
                 /\ event.e \notin {"Key", "String", "EndObject"} => HandleEvent(h, event) = h
<1>0. h.enforceFailed \in BOOLEAN
  BY DEF IsHandler
<1>1. CASE h.enforceFailed
  <2>1. HandleEvent(h, event) = h
    BY <1>1 DEF HandleEvent
  <2> QED BY <1>1, <2>1
<1>2. CASE ~ h.enforceFailed
  <2>1. CASE event.e = "Key"
    <3>1. HandleEvent(h, event) = HandleKey(h, event.v)
      BY <1>2, <2>1 DEF HandleEvent
    <3> QED BY <1>2, <2>1, <3>1, HandleOneKey
  <2>2. CASE event.e = "String"
    <3>1. HandleEvent(h, event) = HandleString(h, event.v)
      BY <1>2, <2>2 DEF HandleEvent
    <3> QED BY <1>2, <2>2, <3>1, HandleOneString
  <2>3. CASE event.e = "EndObject"
    <3>1. HandleEvent(h, event) = HandleEndObject(h)
      BY <1>2, <2>3 DEF HandleEvent
    <3> QED BY <1>2, <2>3, <3>1, HandleOneEnd
  <2>4. CASE event.e \notin {"Key", "String", "EndObject"}
    <3>1. HandleEvent(h, event) = h
      BY <1>2, <2>4 DEF HandleEvent
    <3> QED BY <1>2, <2>4, <3>1
  <2> QED BY <2>1, <2>2, <2>3, <2>4
<1> QED BY <1>0, <1>1, <1>2

(***************************************************************************)
(* CommandObjectHandler over the events of a round.                        *)
(***************************************************************************)

(* The handler has read the object that starts at s up to q.               *)
WipOf(d, s, q, h) ==
    /\ \/ h.previousKey = "unset"
       \/ h.previousKey \in Keys /\ LastKey(d, s, q, h.previousKey)
    /\ StringsHaveKeys(d, s, q)
    /\ FieldIs(d, s, q, "directory", h.wipCommand.directory)
    /\ FieldIs(d, s, q, "file", h.wipCommand.file)

(* What is left of the strings' keys after one more event.                 *)
LEMMA StringsStep ==
    ASSUME NEW d, NEW s \in Nat, NEW q \in Nat, s <= q, StringsHaveKeys(d, s, q),
           d[q + 1].e = "String" => \E k \in Keys : LastKey(d, s, q + 1, k)
    PROVE  StringsHaveKeys(d, s, q + 1)
<1>1. \A p \in s + 1 .. (q + 1) : p = q + 1 \/ p \in s + 1 .. q
  OBVIOUS
<1> QED BY <1>1 DEF StringsHaveKeys

(* One event inside an object.                                             *)
LEMMA WipStep ==
    ASSUME NEW d, NEW s \in Nat, NEW q \in Nat, s <= q, NEW h, IsHandler(h),
           OpenObject(d, s, q), WipOf(d, s, q, h), ~ h.enforceFailed,
           d[q + 1].e \in {"Key", "String", "StartArray", "EndArray"},
           ~ HandleEvent(h, d[q + 1]).enforceFailed
    PROVE  /\ OpenObject(d, s, q + 1) /\ WipOf(d, s, q + 1, HandleEvent(h, d[q + 1]))
           /\ HandleEvent(h, d[q + 1]).commands = h.commands
<1> DEFINE g == HandleEvent(h, d[q + 1])
<1>1. OpenObject(d, s, q + 1)
  <2>1. \A t \in s + 1 .. (q + 1) : t = q + 1 \/ t \in s + 1 .. q
    OBVIOUS
  <2>2. d[q + 1].e \notin {"StartObject", "EndObject"}
    OBVIOUS
  <2> QED BY <2>1, <2>2 DEF OpenObject
<1>2. /\ StringsHaveKeys(d, s, q)
      /\ FieldIs(d, s, q, "directory", h.wipCommand.directory)
      /\ FieldIs(d, s, q, "file", h.wipCommand.file)
  BY DEF WipOf
<1>3. ASSUME d[q + 1].e # "String"
      PROVE  /\ StringsHaveKeys(d, s, q + 1)
             /\ FieldIs(d, s, q + 1, "directory", h.wipCommand.directory)
             /\ FieldIs(d, s, q + 1, "file", h.wipCommand.file)
  <2>1. ~ ValueAt(d, s, q + 1, "directory") /\ ~ ValueAt(d, s, q + 1, "file")
    BY <1>3 DEF ValueAt
  <2> QED BY <1>2, <1>3, <2>1, StringsStep, FieldStep
<1>4. CASE d[q + 1].e = "Key"
  <2>1. g = HandleKey(h, d[q + 1].v)
    BY <1>4, HandleOne
  <2>2. /\ g.previousKey = d[q + 1].v /\ d[q + 1].v \in Keys
        /\ g.wipCommand = h.wipCommand /\ g.commands = h.commands
    BY <2>1, HandleOneKey
  <2>3. LastKey(d, s, q + 1, d[q + 1].v)
    BY <1>4, LastKeyStep
  <2> HIDE DEF g
  <2>4. WipOf(d, s, q + 1, g)
    BY <1>3, <1>4, <2>2, <2>3 DEF WipOf
  <2> QED BY <1>1, <2>2, <2>4 DEF g
<1>5. CASE d[q + 1].e = "String"
  <2>1. g = HandleString(h, d[q + 1].v)
    BY <1>5, HandleOne
  <2>2. /\ h.previousKey \in Keys /\ g.previousKey = h.previousKey /\ g.commands = h.commands
        /\ g.wipCommand.directory =
              IF h.previousKey = "directory" THEN d[q + 1].v ELSE h.wipCommand.directory
        /\ g.wipCommand.file = IF h.previousKey = "file" THEN d[q + 1].v ELSE h.wipCommand.file
    BY <2>1, HandleOneString
  <2>3. LastKey(d, s, q, h.previousKey)
    BY <2>2 DEF WipOf, Keys
  <2>4. LastKey(d, s, q + 1, h.previousKey)
    BY <1>5, <2>3, LastKeyStep
  <2>5. ASSUME NEW k PROVE ValueAt(d, s, q + 1, k) <=> h.previousKey = k
    BY <1>5, <2>4, LastKeyUnique DEF ValueAt
  <2>6. StringsHaveKeys(d, s, q + 1)
    BY <1>2, <2>2, <2>4, StringsStep
  <2> HIDE DEF g
  <2>7. ASSUME NEW k, NEW x, FieldIs(d, s, q, k, x)
        PROVE  FieldIs(d, s, q + 1, k, IF h.previousKey = k THEN d[q + 1].v ELSE x)
    BY <2>5, <2>7, FieldStep
  <2>8. /\ FieldIs(d, s, q + 1, "directory", g.wipCommand.directory)
        /\ FieldIs(d, s, q + 1, "file", g.wipCommand.file)
    BY <1>2, <2>2, <2>7
  <2>9. WipOf(d, s, q + 1, g)
    BY <2>2, <2>4, <2>6, <2>8 DEF WipOf
  <2> QED BY <1>1, <2>2, <2>9 DEF g
<1>6. CASE d[q + 1].e \in {"StartArray", "EndArray"}
  <2>1. g = h
    BY <1>6, HandleOne
  <2>2. h.previousKey \in Keys /\ LastKey(d, s, q, h.previousKey) =>
           LastKey(d, s, q + 1, h.previousKey)
    BY <1>6, LastKeyStep
  <2> HIDE DEF g
  <2>3. WipOf(d, s, q + 1, h)
    BY <1>3, <1>6, <2>2 DEF WipOf
  <2> QED BY <1>1, <2>1, <2>3 DEF g
<1> QED BY <1>4, <1>5, <1>6

(* The handler h has read up to q, where the context is given, and has the *)
(* commands of the objects from number c on.                               *)
HasRead(d, c, q, h, context) ==
    /\ IsHandler(h) /\ ~ h.enforceFailed
    /\ c + Len(h.commands) = Cardinality(EndsOf(d, q))
    /\ \A j \in DOMAIN h.commands : ReadFrom(d, c + j - 1, h.commands[j])
    /\ context \in {"Outermost", "InTopLevelArray"} =>
          h.wipCommand = EmptyCommand /\ h.previousKey = "unset"
    /\ context \notin {"Outermost", "InTopLevelArray"} =>
          \E s \in 1 .. q : OpenObject(d, s, q) /\ WipOf(d, s, q, h)

(* Reading one more event.                                                 *)
LEMMA ReadOne ==
    ASSUME NEW d, NEW q \in Nat, q < Len(d), Len(d) \in Nat, NEW c \in Nat, NEW h, NEW before, NEW after,
           HasRead(d, c, q, h, before), Legal(before, d[q + 1], after),
           ~ HandleEvent(h, d[q + 1]).enforceFailed
    PROVE  HasRead(d, c, q + 1, HandleEvent(h, d[q + 1]), after)
<1> DEFINE g == HandleEvent(h, d[q + 1])
<1>1. /\ IsHandler(h) /\ ~ h.enforceFailed /\ IsHandler(g) /\ ~ g.enforceFailed
      /\ IsSequence(h.commands)
  BY HandleOne DEF HasRead, IsHandler
<1>2. PICK n \in Nat : n = Len(h.commands) /\ DOMAIN h.commands = 1 .. n
  BY <1>1, DomainOf
<1>3. PICK m \in Nat : m = Cardinality(EndsOf(d, q)) /\ c + n = m
  BY <1>2, EndsGrow DEF HasRead
<1>4. Cardinality(EndsOf(d, q + 1)) = IF d[q + 1].e = "EndObject" THEN m + 1 ELSE m
  <2>1. Cardinality(EndsOf(d, q + 1)) =
           Cardinality(EndsOf(d, q)) + (IF d[q + 1].e = "EndObject" THEN 1 ELSE 0)
    BY EndsGrow
  <2> QED BY <1>3, <2>1
<1>5. \A j \in 1 .. n : ReadFrom(d, c + j - 1, h.commands[j])
  BY <1>2 DEF HasRead
<1>6. CASE d[q + 1].e \in {"StartArray", "StartObject", "EndArray"}
           /\ before \in {"Outermost", "InTopLevelArray"}
  <2>1. g = h
    BY <1>1, <1>6, HandleOne
  <2>2. h.wipCommand = EmptyCommand /\ h.previousKey = "unset"
    BY <1>6 DEF HasRead
  <2>3. Cardinality(EndsOf(d, q + 1)) = m
    BY <1>4, <1>6
  <2>4. after \notin {"Outermost", "InTopLevelArray"} =>
          \E s \in 1 .. (q + 1) : OpenObject(d, s, q + 1) /\ WipOf(d, s, q + 1, h)
    <3> SUFFICES ASSUME after \notin {"Outermost", "InTopLevelArray"}
                 PROVE  OpenObject(d, q + 1, q + 1) /\ WipOf(d, q + 1, q + 1, h)
      OBVIOUS
    <3>1. d[q + 1].e = "StartObject"
      BY <1>6 DEF Legal
    <3>2. (q + 1) + 1 .. (q + 1) = {}
      OBVIOUS
    <3>3. OpenObject(d, q + 1, q + 1) /\ StringsHaveKeys(d, q + 1, q + 1)
          /\ FieldIs(d, q + 1, q + 1, "directory", "") /\ FieldIs(d, q + 1, q + 1, "file", "")
      BY <3>1, <3>2 DEF OpenObject, StringsHaveKeys, FieldIs
    <3>4. h.wipCommand.directory = "" /\ h.wipCommand.file = ""
      BY <2>2, NewIsHandler
    <3> QED BY <2>2, <3>3, <3>4 DEF WipOf
  <2> HIDE DEF g
  <2>5. HasRead(d, c, q + 1, h, after)
    BY <1>1, <1>2, <1>3, <1>5, <2>2, <2>3, <2>4 DEF HasRead
  <2> QED BY <2>1, <2>5 DEF g
<1>7. CASE before \notin {"Outermost", "InTopLevelArray"}
           /\ d[q + 1].e \in {"Key", "String", "StartArray", "EndArray"}
  <2>1. PICK s \in 1 .. q : OpenObject(d, s, q) /\ WipOf(d, s, q, h)
    BY <1>7 DEF HasRead
  <2>2. s \in Nat /\ s <= q /\ s \in 1 .. (q + 1)
    OBVIOUS
  <2>3. /\ OpenObject(d, s, q + 1) /\ WipOf(d, s, q + 1, g)
        /\ g.commands = h.commands
    BY <1>1, <1>7, <2>1, <2>2, WipStep
  <2>4. after \notin {"Outermost", "InTopLevelArray"}
    BY <1>7 DEF Legal
  <2>5. Cardinality(EndsOf(d, q + 1)) = m
    BY <1>4, <1>7
  <2> HIDE DEF g
  <2>6. HasRead(d, c, q + 1, g, after)
    BY <1>1, <1>2, <1>3, <1>5, <2>2, <2>3, <2>4, <2>5 DEF HasRead
  <2> QED BY <2>6 DEF g
<1>8. CASE before = "InObject" /\ d[q + 1].e = "EndObject"
  <2>1. PICK s \in 1 .. q : OpenObject(d, s, q) /\ WipOf(d, s, q, h)
    BY <1>8 DEF HasRead
  <2>2. g = HandleEndObject(h)
    BY <1>1, <1>8, HandleOne
  <2>3. /\ g.previousKey = "unset" /\ g.wipCommand = EmptyCommand
        /\ g.commands = Append(h.commands, h.wipCommand)
    BY <1>1, <2>2, HandleOneEnd
  <2>4. after = "InTopLevelArray"
    BY <1>8 DEF Legal
  <2> HIDE DEF g
  <2>5. /\ Len(g.commands) = n + 1 /\ DOMAIN g.commands = 1 .. (n + 1)
        /\ \A i \in 1 .. n : g.commands[i] = h.commands[i]
        /\ g.commands[n + 1] = h.wipCommand
    BY <1>1, <1>2, <2>3, OneAppended
  <2>6. ReadFrom(d, m, h.wipCommand)
    <3>1. (q + 1) - 1 = q /\ q + 1 \in 1 .. Len(d) /\ s \in 1 .. (q + 1) - 1 /\ s \in Nat /\ s <= q
      OBVIOUS
    <3>2. ~ ValueAt(d, s, q + 1, "directory") /\ ~ ValueAt(d, s, q + 1, "file")
      BY <1>8 DEF ValueAt
    <3>3. /\ StringsHaveKeys(d, s, q + 1)
          /\ FieldIs(d, s, q + 1, "directory", h.wipCommand.directory)
          /\ FieldIs(d, s, q + 1, "file", h.wipCommand.file)
      BY <1>8, <2>1, <3>1, <3>2, StringsStep, FieldStep DEF WipOf
    <3>4. OpenObject(d, s, (q + 1) - 1) /\ Cardinality(EndsOf(d, (q + 1) - 1)) = m
      BY <1>3, <2>1, <3>1
    <3>5. q + 1 \in {p \in 1 .. Len(d) : d[p].e = "EndObject"}
      BY <1>8, <3>1
    <3> QED BY <3>1, <3>3, <3>4, <3>5 DEF ReadFrom
  <2>7. ASSUME NEW j \in 1 .. (n + 1) PROVE ReadFrom(d, c + j - 1, g.commands[j])
    <3>1. CASE j = n + 1
      <4>1. c + j - 1 = m
        BY <1>3, <3>1
      <4> QED BY <2>5, <2>6, <3>1, <4>1
    <3>2. CASE j \in 1 .. n
      BY <1>5, <2>5, <3>2
    <3> QED BY <3>1, <3>2
  <2>8. c + Len(g.commands) = Cardinality(EndsOf(d, q + 1))
    BY <1>3, <1>4, <1>8, <2>5
  <2>9. HasRead(d, c, q + 1, g, after)
    BY <1>1, <2>3, <2>4, <2>5, <2>7, <2>8 DEF HasRead
  <2> QED BY <2>9 DEF g
<1> QED BY <1>6, <1>7, <1>8 DEF Legal

(* A run of the inner loop of parseMore, from a place between two objects. *)
LEMMA ReadMany ==
    ASSUME NEW d, IsJson(d), ~ Validated(d)[Len(d)].error, NEW p \in 1 .. (Len(d) + 1),
           Validated(d)[p - 1].context \in {"Outermost", "InTopLevelArray"},
           NEW i \in 0 .. (Len(d) - p + 1)
    PROVE  /\ IsHandler(Handled(NewHandler, d, p)[i])
           /\ ~ Handled(NewHandler, d, p)[i].enforceFailed =>
                 HasRead(d, Cardinality(EndsOf(d, p - 1)), p - 1 + i,
                         Handled(NewHandler, d, p)[i], Validated(d)[p - 1 + i].context)
<1> DEFINE r == Handled(NewHandler, d, p)
           v == Validated(d)
           c == Cardinality(EndsOf(d, p - 1))
           n == Len(d) - p + 1
           S == {k \in 0 .. n : /\ IsHandler(r[k])
                                /\ ~ r[k].enforceFailed =>
                                      HasRead(d, c, p - 1 + k, r[k], v[p - 1 + k].context)}
<1>1. Len(d) \in Nat /\ n \in Nat /\ p - 1 \in Nat
  BY DEF IsJson
<1>2. r[0] = NewHandler /\ \A k \in 1 .. n : r[k] = HandleEvent(r[k - 1], d[p + k - 1])
  <2>1. Len(d) \in Nat /\ p \in 1 .. (Len(d) + 1)
    BY <1>1
  <2>2. ASSUME NEW h
        PROVE  /\ Handled(h, d, p)[0] = h
               /\ \A k \in 1 .. (Len(d) - p + 1) :
                     Handled(h, d, p)[k] = HandleEvent(Handled(h, d, p)[k - 1], d[p + k - 1])
    BY <2>1, HandledSteps
  <2> QED BY <2>2, Zenon
<1>3. \A k \in 1 .. Len(d) : Legal(v[k - 1].context, d[k], v[k].context)
  BY NoErrorBefore
<1>4. c \in Nat
  BY <1>1, EndsGrow
<1>5. v[p - 1].context \in {"Outermost", "InTopLevelArray"}
  OBVIOUS
<1> HIDE DEF r, v
<1>6. 0 \in S
  <2>1. HasRead(d, c, p - 1, NewHandler, v[p - 1].context)
    <3> HIDE DEF c
    <3>1. Len(NewHandler.commands) = 0 /\ DOMAIN NewHandler.commands = {}
      BY NewIsHandler, NoCommands, Zenon
    <3>2. c + Len(NewHandler.commands) = c
      BY <1>4, <3>1
    <3> QED BY <1>5, <3>1, <3>2, NewIsHandler DEF HasRead, c
  <2>2. p - 1 + 0 = p - 1
    BY <1>1
  <2>3. IsHandler(r[0]) /\ HasRead(d, c, p - 1 + 0, r[0], v[p - 1 + 0].context)
    BY <1>2, <2>1, <2>2, NewIsHandler
  <2> QED BY <1>1, <2>3
<1>7. ASSUME NEW k \in 0 .. (n - 1), k \in S PROVE k + 1 \in S
  <2>1. PICK q \in Nat : /\ q = p - 1 + k /\ q + 1 = p + (k + 1) - 1 /\ q + 1 = p - 1 + (k + 1)
                         /\ q < Len(d) /\ q + 1 \in 1 .. Len(d) /\ (q + 1) - 1 = q
                         /\ k + 1 \in 1 .. n /\ k + 1 \in 0 .. n /\ (k + 1) - 1 = k
    BY <1>1
  <2>2. r[k + 1] = HandleEvent(r[k], d[q + 1])
    BY <1>2, <2>1
  <2>3. IsHandler(r[k]) /\ (~ r[k].enforceFailed => HasRead(d, c, q, r[k], v[q].context))
    BY <1>7, <2>1
  <2>4. IsHandler(r[k + 1]) /\ (~ r[k + 1].enforceFailed => ~ r[k].enforceFailed)
    <3>1. IsHandler(HandleEvent(r[k], d[q + 1]))
          /\ (r[k].enforceFailed => HandleEvent(r[k], d[q + 1]).enforceFailed)
      BY <2>3, HandleOne
    <3> QED BY <2>2, <3>1
  <2>5. Legal(v[q].context, d[q + 1], v[q + 1].context)
    BY <1>3, <2>1
  <2>6. ~ r[k + 1].enforceFailed => HasRead(d, c, q + 1, r[k + 1], v[q + 1].context)
    BY <1>1, <1>4, <2>1, <2>2, <2>3, <2>4, <2>5, ReadOne
  <2> HIDE DEF c, n
  <2> QED BY <2>1, <2>4, <2>6
<1>8. \A k \in 0 .. n : k \in S
  <2> HIDE DEF S, n
  <2> QED BY <1>1, <1>6, <1>7, UpTo
<1>9. i \in S
  BY <1>8
<1> QED BY <1>9 DEF r, v

(***************************************************************************)
(* The filters and the adjustment of command lines.                        *)
(***************************************************************************)

(* Fewer events have fewer ends.                                           *)
LEMMA EndsMonotone ==
    ASSUME NEW d, NEW p \in Nat, NEW q \in Nat, p <= q
    PROVE  Cardinality(EndsOf(d, p)) <= Cardinality(EndsOf(d, q))
<1>1. EndsOf(d, p) \subseteq EndsOf(d, q)
  BY DEF EndsOf
<1>2. IsFiniteSet(EndsOf(d, q))
  BY EndsGrow
<1> QED BY <1>1, <1>2, FS_Subset

(* Two commands that differ in their arguments only.                       *)
SameButArguments(a, c) ==
    IsCommand(a) /\ a.index = c.index /\ a.directory = c.directory /\ a.file = c.file

(* A state of the loop over the commands of a batch.                       *)
IsAdjusting(s) == s = [map |-> s.map, out |-> s.out]

(* One command of adjustCommandLine.                                       *)
LEMMA AdjustOne ==
    ASSUME NEW s, IsAdjusting(s), NEW cmd, IsCommand(cmd)
    PROVE  \E m, a : /\ SameButArguments(a, cmd)
                     /\ AdjustCommandLine(s, cmd) = [map |-> m, out |-> Append(s.out, a)]
<1> DEFINE t == AdjustCommandLine(s, cmd)
<1>1. CASE cmd.arguments = <<>>
  <2>1. t = [s EXCEPT !.out = Append(s.out, cmd)]
    BY <1>1 DEF AdjustCommandLine
  <2>2. t = [map |-> s.map, out |-> Append(s.out, cmd)]
    BY <2>1 DEF IsAdjusting
  <2>3. SameButArguments(cmd, cmd)
    BY DEF SameButArguments
  <2> HIDE DEF t
  <2> QED BY <2>2, <2>3 DEF t
<1>2. CASE cmd.arguments # <<>>
  <2>1. PICK m, args : t = [map |-> m, out |-> Append(s.out, [cmd EXCEPT !.arguments = args])]
    <3>1. \E m : t = [map |-> m, out |-> Append(s.out, [cmd EXCEPT !.arguments =
                                  Adjust(m[cmd.arguments[1][1].flag], cmd.arguments)])]
      BY <1>2, Zenon DEF AdjustCommandLine
    <3> QED BY <3>1
  <2> DEFINE a == [cmd EXCEPT !.arguments = args]
  <2>2. a = [index |-> cmd.index, directory |-> cmd.directory, file |-> cmd.file,
             arguments |-> args]
    BY DEF IsCommand
  <2>3. t = [map |-> m, out |-> Append(s.out, a)]
    BY <2>1
  <2> HIDE DEF t, a
  <2>4. SameButArguments(a, cmd)
    BY <2>2 DEF SameButArguments, IsCommand
  <2> QED BY <2>3, <2>4 DEF t
<1> QED BY <1>1, <1>2

(* The end of parseMore keeps every command, in its place, and changes     *)
(* nothing but its arguments.                                              *)
LEMMA AdjustKeeps ==
    ASSUME NEW map, NEW cmds, IsSequence(cmds), \A i \in DOMAIN cmds : IsCommand(cmds[i])
    PROVE  LET out == Adjusted(map, cmds)[Len(cmds)].out
           IN  /\ IsSequence(out) /\ Len(out) = Len(cmds)
               /\ \A i \in DOMAIN cmds : SameButArguments(out[i], cmds[i])
<1> DEFINE f == Adjusted(map, cmds)
           n == Len(cmds)
           Good(k) == /\ IsAdjusting(f[k])
                      /\ IsSequence(f[k].out) /\ Len(f[k].out) = k
                      /\ \A i \in 1 .. k : SameButArguments(f[k].out[i], cmds[i])
           S == {k \in 0 .. n : Good(k)}
<1>1. n \in Nat /\ DOMAIN cmds = 1 .. n
  BY DomainOf
<1>2. /\ f[0] = [map |-> map, out |-> <<>>]
      /\ \A k \in 1 .. n : f[k] = AdjustCommandLine(f[k - 1], cmds[k])
  BY <1>1, AdjustedSteps
<1> HIDE DEF f
<1>3. 0 \in S
  <2>1. IsAdjusting(f[0]) /\ f[0].out = <<>>
    BY <1>2 DEF IsAdjusting
  <2>2. IsSequence(f[0].out) /\ Len(f[0].out) = 0
    BY <2>1, NoCommands
  <2> QED BY <1>1, <2>1, <2>2
<1>4. ASSUME NEW k \in 0 .. (n - 1), k \in S PROVE k + 1 \in S
  <2>1. k + 1 \in 1 .. n /\ k + 1 \in 0 .. n /\ (k + 1) - 1 = k /\ k \in Nat /\ k + 1 \in DOMAIN cmds
    BY <1>1
  <2>2. Good(k)
    BY <1>4
  <2>3. f[k + 1] = AdjustCommandLine(f[k], cmds[k + 1]) /\ IsCommand(cmds[k + 1])
    BY <1>2, <2>1
  <2>4. PICK s : s = f[k] /\ IsAdjusting(s)
    BY <2>2
  <2>5. PICK m, a : /\ SameButArguments(a, cmds[k + 1])
                    /\ AdjustCommandLine(s, cmds[k + 1]) = [map |-> m, out |-> Append(s.out, a)]
    <3>1. PICK c : c = cmds[k + 1] /\ IsCommand(c)
      BY <2>3
    <3>2. IsAdjusting(s)
      BY <2>4
    <3>3. \E m, a : /\ SameButArguments(a, c)
                    /\ AdjustCommandLine(s, c) = [map |-> m, out |-> Append(s.out, a)]
      BY <3>1, <3>2, AdjustOne, Zenon
    <3> QED BY <3>1, <3>3
  <2>6. PICK t : t = f[k + 1] /\ t = [map |-> m, out |-> Append(s.out, a)]
    BY <2>3, <2>4, <2>5
  <2>7. SameButArguments(a, cmds[k + 1]) /\ t.out = Append(s.out, a)
        /\ IsAdjusting(t)
    BY <2>5, <2>6 DEF IsAdjusting
  <2>8. /\ IsSequence(s.out) /\ Len(s.out) = k
        /\ \A i \in 1 .. k : SameButArguments(s.out[i], cmds[i])
    BY <2>2, <2>4
  <2>9. /\ IsSequence(t.out) /\ Len(t.out) = k + 1
        /\ \A i \in 1 .. k : t.out[i] = s.out[i]
        /\ t.out[k + 1] = a
    BY <2>7, <2>8, OneAppended
  <2>10. \A i \in 1 .. (k + 1) : SameButArguments(t.out[i], cmds[i])
    <3>1. \A i \in 1 .. (k + 1) : i = k + 1 \/ i \in 1 .. k
      BY <2>1
    <3> QED BY <2>7, <2>8, <2>9, <3>1
  <2>11. Good(k + 1)
    BY <2>6, <2>7, <2>9, <2>10
  <2> HIDE DEF Good
  <2> QED BY <2>1, <2>11
<1>5. \A k \in 0 .. n : k \in S
  <2> HIDE DEF S, n
  <2> QED BY <1>1, <1>3, <1>4, UpTo
<1>6. Good(n)
  BY <1>1, <1>5
<1> QED BY <1>1, <1>6 DEF f

(* The m elements of s are among the n elements of r, in the same order.   *)
InOrder(s, m, r, n) ==
    \E f \in [1 .. m -> 1 .. n] :
        /\ \A k \in 1 .. m : s[k] = r[f[k]]
        /\ \A i, k \in 1 .. m : i < k => f[i] < f[k]

(* The filters keep the order of the commands.                             *)
LEMMA AcceptedKeeps ==
    ASSUME NEW cmds, IsSequence(cmds)
    PROVE  /\ IsSequence(Accepted(cmds)) /\ Len(Accepted(cmds)) <= Len(cmds)
           /\ InOrder(Accepted(cmds), Len(Accepted(cmds)), cmds, Len(cmds))
<1> DEFINE kept == {i \in DOMAIN cmds : IsMainFile(cmds[i]) /\ DoesFileExist(cmds[i])}
           n == Len(cmds)
           m == Cardinality(kept)
           f == [k \in 1 .. m |-> Nth(kept, k)]
           A == Accepted(cmds)
<1>1. n \in Nat /\ DOMAIN cmds = 1 .. n
  BY DomainOf
<1>2. A = [k \in 1 .. m |-> cmds[Nth(kept, k)]]
  BY Zenon DEF Accepted
<1>3. kept \subseteq 1 .. n
  BY <1>1
<1> HIDE DEF kept, A
<1>4. kept \subseteq Nat /\ IsFiniteSet(kept) /\ m \in Nat /\ m <= n
  <2>1. IsFiniteSet(1 .. n) /\ Cardinality(1 .. n) = n
    <3>1. \A a \in Nat : IsFiniteSet(1 .. a) /\ Cardinality(1 .. a) = a
      <4> TAKE a \in Nat
      <4>1. Cardinality(1 .. a) = IF 1 > a THEN 0 ELSE a - 1 + 1
        BY FS_Interval
      <4> QED BY <4>1, FS_Interval
    <3> QED BY <1>1, <3>1
  <2>2. \A i \in 1 .. n : i \in Nat
    OBVIOUS
  <2>3. IsFiniteSet(kept) /\ Cardinality(kept) <= Cardinality(1 .. n)
    BY <1>3, <2>1, FS_Subset
  <2>4. Cardinality(kept) \in Nat
    BY <2>3, FS_CardinalityType
  <2> HIDE DEF n
  <2> QED BY <1>3, <2>1, <2>2, <2>3, <2>4
<1>5. \A k \in 1 .. m : Nth(kept, k) \in 1 .. n
  BY <1>3, <1>4, NthExists
<1>6. IsSequence(A) /\ Len(A) = m
  <2>1. A = [k \in 1 .. m |-> A[k]]
    BY <1>2
  <2> HIDE DEF m
  <2> QED BY <1>4, <2>1, FunctionIsSequence
<1>7. f \in [1 .. m -> 1 .. n] /\ \A k \in 1 .. m : f[k] = Nth(kept, k)
  BY <1>5
<1>8. \A i, k \in 1 .. m : i < k => f[i] < f[k]
  <2> SUFFICES ASSUME NEW i \in 1 .. m, NEW k \in 1 .. m, i < k PROVE f[i] < f[k]
    OBVIOUS
  <2>1. Nth(kept, i) < Nth(kept, k)
    BY <1>4, NthOrder
  <2> QED BY <1>7, <2>1
<1>9. \A k \in 1 .. m : A[k] = cmds[f[k]]
  BY <1>2, <1>7
<1> HIDE DEF f, m, n
<1>10. \E g \in [1 .. Len(A) -> 1 .. n] :
          /\ \A k \in 1 .. Len(A) : A[k] = cmds[g[k]]
          /\ \A i, k \in 1 .. Len(A) : i < k => g[i] < g[k]
  BY <1>6, <1>7, <1>8, <1>9
<1>11. Len(A) <= n
  BY <1>4, <1>6
<1>12. InOrder(A, Len(A), cmds, n)
  BY <1>10, Zenon DEF InOrder
<1> QED BY <1>6, <1>11, <1>12 DEF A, n

(***************************************************************************)
(* A round of parseMore.                                                   *)
(***************************************************************************)

(* Where the inner loop of parseMore stops.                                *)
LEMMA ReadToStops ==
    ASSUME Len(doc) \in Nat, pos \in 1 .. (Len(doc) + 1)
    PROVE  /\ ReadTo \in (pos - 1) .. Len(doc)
           /\ ReadTo = Len(doc) \/ (ReadTo >= pos /\ doc[ReadTo].e = "EndObject")
<1>1. CASE \E p \in pos .. Len(doc) : ReachedLimitAt(p)
  <2>1. ReadTo \in pos .. Len(doc) /\ ReachedLimitAt(ReadTo)
    <3>1. ReadTo = CHOOSE p \in pos .. Len(doc) : ReachedLimitAt(p)
      BY <1>1 DEF ReadTo
    <3> HIDE DEF ReachedLimitAt
    <3> QED BY <1>1, <3>1
  <2>2. doc[ReadTo].e = "EndObject"
    BY <2>1 DEF ReachedLimitAt
  <2> QED BY <2>1, <2>2
<1>2. CASE ~ \E p \in pos .. Len(doc) : ReachedLimitAt(p)
  <2>1. ReadTo = Len(doc)
    BY <1>2 DEF ReadTo
  <2> QED BY <2>1
<1> QED BY <1>1, <1>2

(* The object that a command was read from does not depend on its index or *)
(* its arguments.                                                          *)
LEMMA ReadFromSame ==
    ASSUME NEW d, NEW n, NEW c, NEW a, ReadFrom(d, n, c), a.directory = c.directory, a.file = c.file
    PROVE  ReadFrom(d, n, a)
BY DEF ReadFrom

(* Numbering the commands of a round changes their index only.             *)
LEMMA NumberedKeeps ==
    ASSUME NEW c \in Nat, NEW cmds, IsSequence(cmds), \A i \in DOMAIN cmds : IsCommand(cmds[i])
    PROVE  /\ IsSequence(Numbered(c, cmds)) /\ Len(Numbered(c, cmds)) = Len(cmds)
           /\ \A i \in DOMAIN cmds :
                 /\ IsCommand(Numbered(c, cmds)[i]) /\ Numbered(c, cmds)[i].index = c + i - 1
                 /\ Numbered(c, cmds)[i].directory = cmds[i].directory
                 /\ Numbered(c, cmds)[i].file = cmds[i].file
<1> DEFINE N == Numbered(c, cmds)
<1>1. PICK n \in Nat : n = Len(cmds) /\ DOMAIN cmds = 1 .. n
  BY DomainOf
<1>2. N = [i \in 1 .. n |-> [cmds[i] EXCEPT !.index = c + i - 1]]
  BY <1>1 DEF Numbered
<1>3. IsSequence(N) /\ Len(N) = n
  <2>1. N = [i \in 1 .. n |-> N[i]]
    BY <1>2
  <2> HIDE DEF N
  <2> QED BY <2>1, FunctionIsSequence
<1>4. ASSUME NEW i \in 1 .. n
      PROVE  /\ IsCommand(N[i]) /\ N[i].index = c + i - 1
             /\ N[i].directory = cmds[i].directory /\ N[i].file = cmds[i].file
  <2>1. PICK w : w = cmds[i] /\ IsCommand(w)
    BY <1>1
  <2>2. N[i] = [w EXCEPT !.index = c + i - 1]
    BY <1>2, <2>1
  <2> HIDE DEF N
  <2>3. PICK x : x = c + i - 1
    OBVIOUS
  <2>4. N[i] = [index |-> x, directory |-> w.directory, file |-> w.file,
                arguments |-> w.arguments]
    BY <2>1, <2>2, <2>3 DEF IsCommand
  <2>5. PICK a : a = N[i]
    OBVIOUS
  <2>6. IsCommand(a) /\ a.index = x /\ a.directory = w.directory /\ a.file = w.file
    BY <2>4, <2>5 DEF IsCommand
  <2> QED BY <2>1, <2>3, <2>5, <2>6
<1> QED BY <1>1, <1>3, <1>4

(* A record of a handler with another list of commands.                    *)
LEMMA OtherCommands ==
    ASSUME NEW h, NEW k, NEW w, NEW cs, NEW f, NEW new,
           h = [previousKey |-> k, wipCommand |-> w, commands |-> cs, enforceFailed |-> f]
    PROVE  [h EXCEPT !.commands = new] =
           [previousKey |-> k, wipCommand |-> w, commands |-> new, enforceFailed |-> f]
OBVIOUS

(* The handler after its commands have been taken.                         *)
Emptied(h) == [h EXCEPT !.commands = <<>>]

(* Emptying the list of commands of a handler that carries nothing else.   *)
LEMMA HandlerEmptied ==
    ASSUME NEW h, IsHandler(h), ~ h.enforceFailed, h.wipCommand = EmptyCommand,
           h.previousKey = "unset"
    PROVE  Emptied(h) = NewHandler
<1>1. PICK k, w, cs, f, new : /\ k = h.previousKey /\ w = h.wipCommand /\ cs = h.commands
                              /\ f = h.enforceFailed /\ new = <<>>
  OBVIOUS
<1>2. h = [previousKey |-> k, wipCommand |-> w, commands |-> cs, enforceFailed |-> f]
  BY <1>1 DEF IsHandler
<1>3. [h EXCEPT !.commands = new] =
      [previousKey |-> k, wipCommand |-> w, commands |-> new, enforceFailed |-> f]
  BY <1>2, OtherCommands
<1>4. k = "unset" /\ w = EmptyCommand /\ f = FALSE
  BY <1>1 DEF IsHandler
<1> QED BY <1>1, <1>3, <1>4, Zenon DEF NewHandler, Emptied

(* The n commands in cmds are those of the objects of d from number c on.  *)
NumberedFrom(d, c, n, cmds) ==
    \A j \in 1 .. n : /\ IsCommand(cmds[j]) /\ cmds[j].index = c + j - 1
                      /\ ReadFrom(d, c + j - 1, cmds[j])

(* Commands of the n objects of d from number c on, in their order.        *)
SelectedFrom(d, c, n, b) ==
    /\ ReadCorrectly(d, b)
    /\ \A k \in DOMAIN b : c <= b[k].index /\ b[k].index < c + n

(* What the filters select is read correctly if the numbered commands are. *)
LEMMA SelectionKeeps ==
    ASSUME NEW d, NEW c \in Nat, NEW cmds, NEW n \in Nat, NumberedFrom(d, c, n, cmds),
           NEW b, IsSequence(b), InOrder(b, Len(b), cmds, n)
    PROVE  SelectedFrom(d, c, n, b)
<1>1. PICK m \in Nat : m = Len(b) /\ DOMAIN b = 1 .. m
  BY DomainOf
<1>2. PICK f \in [1 .. m -> 1 .. n] :
          /\ \A k \in 1 .. m : b[k] = cmds[f[k]]
          /\ \A i, k \in 1 .. m : i < k => f[i] < f[k]
  <2>1. InOrder(b, m, cmds, n)
    BY <1>1
  <2> QED BY <2>1 DEF InOrder
<1>3. ASSUME NEW k \in 1 .. m
       PROVE  /\ IsCommand(b[k]) /\ b[k].index \in Nat /\ ReadFrom(d, b[k].index, b[k])
              /\ b[k].index = c + f[k] - 1 /\ f[k] \in 1 .. n
  <2>1. PICK j \in 1 .. n : j = f[k] /\ b[k] = cmds[j]
    BY <1>2
  <2>2. IsCommand(cmds[j]) /\ cmds[j].index = c + j - 1 /\ ReadFrom(d, c + j - 1, cmds[j])
    BY DEF NumberedFrom
  <2>3. c + j - 1 \in Nat
    OBVIOUS
  <2> QED BY <2>1, <2>2, <2>3
<1>4. ReadCorrectly(d, b)
  <2>1. ASSUME NEW i \in 1 .. m, NEW k \in 1 .. m, i < k PROVE b[i].index < b[k].index
    <3>1. f[i] < f[k] /\ f[i] \in 1 .. n /\ f[k] \in 1 .. n
      BY <1>2, <2>1
    <3>2. b[i].index = c + f[i] - 1 /\ b[k].index = c + f[k] - 1
      BY <1>3
    <3> QED BY <3>1, <3>2
  <2>2. \A i \in DOMAIN b : IsCommand(b[i]) /\ b[i].index \in Nat /\ ReadFrom(d, b[i].index, b[i])
    BY <1>1, <1>3
  <2>3. \A i, k \in DOMAIN b : i < k => b[i].index < b[k].index
    BY <1>1, <2>1
  <2> QED BY <2>2, <2>3, Zenon DEF ReadCorrectly
<1>5. \A k \in DOMAIN b : c <= b[k].index /\ b[k].index < c + n
  <2> SUFFICES ASSUME NEW k \in 1 .. m PROVE c <= b[k].index /\ b[k].index < c + n
    BY <1>1
  <2>1. b[k].index = c + f[k] - 1 /\ f[k] \in 1 .. n
    BY <1>3
  <2> QED BY <2>1
<1> QED BY <1>4, <1>5 DEF SelectedFrom

(* What holds after a round of parseMore that has read c objects before    *)
(* and stops at t: cmds are the commands of the round, b what is accepted. *)
RoundKept(d, c, t, h, cmds, b) ==
    /\ Validated(d)[t].context \in {"Outermost", "InTopLevelArray"}
    /\ Emptied(h) = NewHandler
    /\ Len(cmds) \in Nat /\ c + Len(cmds) = Cardinality(EndsOf(d, t))
    /\ ReadCorrectly(d, b) /\ Len(b) \in Nat /\ Len(b) <= Len(cmds)
    /\ \A k \in DOMAIN b : c <= b[k].index /\ b[k].index < c + Len(cmds)
    /\ Len(cmds) = 0 => t = Len(d)

(* A round of parseMore from p to t, where c objects have ended before p.  *)
LEMMA RoundKeeps ==
    ASSUME NEW d, IsJson(d), ~ Validated(d)[Len(d)].error,
           NEW p \in 1 .. (Len(d) + 1),
           Validated(d)[p - 1].context \in {"Outermost", "InTopLevelArray"},
           NEW c \in Nat, c = Cardinality(EndsOf(d, p - 1)),
           NEW t \in (p - 1) .. Len(d), t = Len(d) \/ (t >= p /\ d[t].e = "EndObject"),
           NEW h, h = Handled(NewHandler, d, p)[t - p + 1], ~ h.enforceFailed,
           NEW cmds, cmds = Numbered(c, h.commands),
           NEW b, b = Accepted(cmds)
    PROVE  RoundKept(d, c, t, h, cmds, b)
<1>1. Len(d) \in Nat /\ p - 1 \in Nat /\ t \in Nat
  BY DEF IsJson
<1>2. t - p + 1 \in 0 .. (Len(d) - p + 1) /\ p - 1 + (t - p + 1) = t
  BY <1>1
<1>3. IsHandler(h) /\ HasRead(d, c, t, h, Validated(d)[t].context)
  <2>1. /\ IsHandler(Handled(NewHandler, d, p)[t - p + 1])
        /\ ~ Handled(NewHandler, d, p)[t - p + 1].enforceFailed =>
              HasRead(d, Cardinality(EndsOf(d, p - 1)), p - 1 + (t - p + 1),
                      Handled(NewHandler, d, p)[t - p + 1],
                      Validated(d)[p - 1 + (t - p + 1)].context)
    BY <1>2, ReadMany
  <2> QED BY <1>2, <2>1
<1>4. Validated(d)[t].context \in {"Outermost", "InTopLevelArray"}
  <2>1. CASE t = Len(d)
    BY <2>1, EndsOutermost
  <2>2. CASE t >= p /\ d[t].e = "EndObject"
    <3>1. t \in 1 .. Len(d)
      BY <1>1, <2>2
    <3>2. Legal(Validated(d)[t - 1].context, d[t], Validated(d)[t].context)
      BY <3>1, NoErrorBefore
    <3> QED BY <2>2, <3>2 DEF Legal
  <2> QED BY <2>1, <2>2
<1>5. Emptied(h) = NewHandler
  <2>1. h.wipCommand = EmptyCommand /\ h.previousKey = "unset" /\ h.enforceFailed = FALSE
    BY <1>3, <1>4 DEF HasRead, IsHandler
  <2> QED BY <1>3, <2>1, HandlerEmptied
<1>6. PICK n \in Nat : n = Len(h.commands) /\ DOMAIN h.commands = 1 .. n
  BY <1>3, DomainOf DEF IsHandler
<1>7. /\ IsSequence(cmds) /\ Len(cmds) = n
      /\ \A j \in 1 .. n :
            /\ IsCommand(cmds[j]) /\ cmds[j].index = c + j - 1
            /\ cmds[j].directory = h.commands[j].directory
            /\ cmds[j].file = h.commands[j].file
  <2>1. PICK cs : cs = h.commands /\ IsSequence(cs) /\ \A i \in DOMAIN cs : IsCommand(cs[i])
    BY <1>3 DEF IsHandler
  <2>2. /\ IsSequence(Numbered(c, cs)) /\ Len(Numbered(c, cs)) = Len(cs)
        /\ \A i \in DOMAIN cs :
              /\ IsCommand(Numbered(c, cs)[i]) /\ Numbered(c, cs)[i].index = c + i - 1
              /\ Numbered(c, cs)[i].directory = cs[i].directory
              /\ Numbered(c, cs)[i].file = cs[i].file
    BY <2>1, NumberedKeeps
  <2>3. cmds = Numbered(c, cs)
    BY <2>1
  <2> QED BY <1>6, <2>1, <2>2, <2>3
<1>8. ASSUME NEW j \in 1 .. n
      PROVE  IsCommand(cmds[j]) /\ cmds[j].index = c + j - 1 /\ ReadFrom(d, c + j - 1, cmds[j])
  <2>1. ReadFrom(d, c + j - 1, h.commands[j])
    BY <1>3, <1>6 DEF HasRead
  <2> QED BY <1>7, <2>1, ReadFromSame
<1>9. c + n = Cardinality(EndsOf(d, t))
  BY <1>3, <1>6 DEF HasRead
<1>10. IsSequence(b) /\ Len(b) <= n
  BY <1>7, AcceptedKeeps
<1>11. /\ ReadCorrectly(d, b)
       /\ \A k \in DOMAIN b : c <= b[k].index /\ b[k].index < c + n
  <2>1. InOrder(b, Len(b), cmds, n)
    <3>1. InOrder(Accepted(cmds), Len(Accepted(cmds)), cmds, Len(cmds))
      BY <1>7, AcceptedKeeps
    <3> QED BY <1>7, <3>1
  <2>2. NumberedFrom(d, c, n, cmds)
    BY <1>8 DEF NumberedFrom
  <2>3. SelectedFrom(d, c, n, b)
    BY <1>10, <2>1, <2>2, SelectionKeeps
  <2> QED BY <2>3 DEF SelectedFrom
<1>12. Len(b) \in Nat
  BY <1>10, DomainOf
<1>13. n = 0 => t = Len(d)
  <2> SUFFICES ASSUME n = 0, t >= p, d[t].e = "EndObject" PROVE FALSE
    OBVIOUS
  <2>1. PICK q \in Nat : q + 1 = t /\ p - 1 <= q
    BY <1>1
  <2>2. /\ Cardinality(EndsOf(d, q)) \in Nat
        /\ Cardinality(EndsOf(d, q + 1)) =
              Cardinality(EndsOf(d, q)) + (IF d[q + 1].e = "EndObject" THEN 1 ELSE 0)
    BY EndsGrow
  <2>3. Cardinality(EndsOf(d, q + 1)) = Cardinality(EndsOf(d, q)) + 1
    BY <2>1, <2>2
  <2>4. Cardinality(EndsOf(d, p - 1)) <= Cardinality(EndsOf(d, q))
    BY <1>1, <2>1, EndsMonotone
  <2> QED BY <1>9, <2>1, <2>2, <2>3, <2>4
<1> QED BY <1>4, <1>5, <1>7, <1>9, <1>10, <1>11, <1>12, <1>13 DEF RoundKept

(***************************************************************************)
(* The queue.                                                              *)
(***************************************************************************)

(* A sequence over any set is one.                                         *)
LEMMA SequenceOver ==
    ASSUME NEW U, NEW r \in Seq(U) PROVE IsSequence(r)
<1>1. PICK n \in Nat : n = Len(r) /\ DOMAIN r = 1 .. n /\ r \in [1 .. n -> U]
  OBVIOUS
<1>2. r = [i \in 1 .. n |-> r[i]]
  BY <1>1
<1> QED BY <1>2, FunctionIsSequence

(* Two sequences one after the other.                                      *)
LEMMA Joined ==
    ASSUME NEW s, NEW t, IsSequence(s), IsSequence(t)
    PROVE  /\ IsSequence(s \o t)
           /\ Len(s) \in Nat /\ Len(t) \in Nat
           /\ DOMAIN s = 1 .. Len(s) /\ DOMAIN t = 1 .. Len(t)
           /\ Len(s \o t) = Len(s) + Len(t)
           /\ DOMAIN (s \o t) = 1 .. (Len(s) + Len(t))
           /\ \A i \in 1 .. (Len(s) + Len(t)) :
                 (s \o t)[i] = IF i <= Len(s) THEN s[i] ELSE t[i - Len(s)]
<1> DEFINE U == ToSet(s) \cup ToSet(t)
<1>1. s \in Seq(U) /\ t \in Seq(U)
  BY DEF IsSequence
<1> HIDE DEF U
<1>2. /\ s \o t \in Seq(U)
      /\ Len(s) \in Nat /\ Len(t) \in Nat
      /\ DOMAIN s = 1 .. Len(s) /\ DOMAIN t = 1 .. Len(t)
      /\ Len(s \o t) = Len(s) + Len(t)
      /\ DOMAIN (s \o t) = 1 .. (Len(s) + Len(t))
  BY <1>1
<1>3. \A i \in 1 .. (Len(s) + Len(t)) :
          (s \o t)[i] = IF i <= Len(s) THEN s[i] ELSE t[i - Len(s)]
  BY <1>1, <1>2
<1>4. IsSequence(s \o t)
  BY <1>2, SequenceOver
<1> QED BY <1>2, <1>3, <1>4

(* Commands that were read correctly still are when their arguments have   *)
(* been adjusted.                                                          *)
LEMMA AdjustedReadCorrectly ==
    ASSUME NEW d, NEW b, ReadCorrectly(d, b), NEW out, IsSequence(out), Len(out) = Len(b),
           \A i \in DOMAIN b : SameButArguments(out[i], b[i])
    PROVE  /\ ReadCorrectly(d, out) /\ DOMAIN out = DOMAIN b
           /\ \A i \in DOMAIN b : out[i].index = b[i].index
<1>1. PICK m \in Nat : m = Len(b) /\ DOMAIN b = 1 .. m /\ DOMAIN out = 1 .. m
  BY DomainOf DEF ReadCorrectly
<1>2. ASSUME NEW i \in 1 .. m
      PROVE  /\ IsCommand(out[i]) /\ out[i].index = b[i].index /\ out[i].index \in Nat
             /\ ReadFrom(d, out[i].index, out[i])
  <2>1. IsCommand(out[i]) /\ out[i].index = b[i].index
        /\ out[i].directory = b[i].directory /\ out[i].file = b[i].file
    BY <1>1 DEF SameButArguments
  <2>2. b[i].index \in Nat /\ ReadFrom(d, b[i].index, b[i])
    BY <1>1 DEF ReadCorrectly
  <2>3. ReadFrom(d, b[i].index, out[i])
    BY <2>1, <2>2, ReadFromSame
  <2> QED BY <2>1, <2>2, <2>3
<1>3. ASSUME NEW i \in 1 .. m, NEW k \in 1 .. m, i < k PROVE out[i].index < out[k].index
  <2>1. b[i].index < b[k].index
    BY <1>1, <1>3 DEF ReadCorrectly
  <2> QED BY <1>2, <2>1
<1>4. ReadCorrectly(d, out)
  <2>1. \A i \in DOMAIN out : /\ IsCommand(out[i]) /\ out[i].index \in Nat
                              /\ ReadFrom(d, out[i].index, out[i])
    BY <1>1, <1>2
  <2>2. \A i, k \in DOMAIN out : i < k => out[i].index < out[k].index
    BY <1>1, <1>3
  <2> QED BY <2>1, <2>2, Zenon DEF ReadCorrectly
<1> QED BY <1>1, <1>2, <1>4

(* The queue with the next commands of the file behind it.                 *)
LEMMA QueueGrows ==
    ASSUME NEW d, NEW q, ReadCorrectly(d, q), NEW b, ReadCorrectly(d, b), NEW c \in Nat,
           \A k \in DOMAIN b : b[k].index < c,
           \A k \in DOMAIN b : \A i \in DOMAIN q : q[i].index < b[k].index,
           \A i \in DOMAIN q : q[i].index < c
    PROVE  /\ ReadCorrectly(d, q \o b)
           /\ Len(q) \in Nat /\ Len(b) \in Nat /\ Len(q \o b) = Len(q) + Len(b)
           /\ \A i \in DOMAIN (q \o b) : (q \o b)[i].index < c
<1>1. PICK m \in Nat, n \in Nat : m = Len(q) /\ n = Len(b) /\ DOMAIN q = 1 .. m /\ DOMAIN b = 1 .. n
  BY Joined DEF ReadCorrectly
<1>2. PICK r : /\ r = q \o b /\ IsSequence(r) /\ Len(r) = m + n /\ DOMAIN r = 1 .. (m + n)
               /\ \A i \in 1 .. (m + n) : r[i] = IF i <= m THEN q[i] ELSE b[i - m]
  <2>1. IsSequence(q) /\ IsSequence(b)
    BY DEF ReadCorrectly
  <2>2. PICK r : r = q \o b
    OBVIOUS
  <2>3. /\ IsSequence(r) /\ Len(r) = Len(q) + Len(b) /\ DOMAIN r = 1 .. (Len(q) + Len(b))
        /\ \A i \in 1 .. (Len(q) + Len(b)) : r[i] = IF i <= Len(q) THEN q[i] ELSE b[i - Len(q)]
    BY <2>1, <2>2, Joined
  <2>4. /\ IsSequence(r) /\ Len(r) = m + n /\ DOMAIN r = 1 .. (m + n)
        /\ \A i \in 1 .. (m + n) : r[i] = IF i <= m THEN q[i] ELSE b[i - m]
    BY <1>1, <2>3
  <2> QED BY <2>2, <2>4
<1>3. ASSUME NEW i \in 1 .. (m + n)
      PROVE  \/ i \in 1 .. m /\ r[i] = q[i]
             \/ i > m /\ i - m \in 1 .. n /\ r[i] = b[i - m]
  BY <1>2
<1>4. ASSUME NEW i \in 1 .. m
      PROVE  IsCommand(q[i]) /\ q[i].index \in Nat /\ ReadFrom(d, q[i].index, q[i]) /\ q[i].index < c
  BY <1>1 DEF ReadCorrectly
<1>5. ASSUME NEW i \in 1 .. n
      PROVE  IsCommand(b[i]) /\ b[i].index \in Nat /\ ReadFrom(d, b[i].index, b[i]) /\ b[i].index < c
  BY <1>1 DEF ReadCorrectly
<1>6. ASSUME NEW i \in 1 .. (m + n)
      PROVE  IsCommand(r[i]) /\ r[i].index \in Nat /\ ReadFrom(d, r[i].index, r[i]) /\ r[i].index < c
  BY <1>3, <1>4, <1>5
<1>7. ASSUME NEW i \in 1 .. (m + n), NEW k \in 1 .. (m + n), i < k PROVE r[i].index < r[k].index
  <2>1. CASE i \in 1 .. m /\ k \in 1 .. m
    <3>1. q[i].index < q[k].index
      BY <1>1, <1>7, <2>1 DEF ReadCorrectly
    <3>2. r[i] = q[i] /\ r[k] = q[k]
      BY <1>2, <2>1
    <3> QED BY <3>1, <3>2
  <2>2. CASE i \in 1 .. m /\ k > m
    <3>1. k - m \in 1 .. n
      BY <2>2
    <3>2. q[i].index < b[k - m].index
      BY <1>1, <2>2, <3>1
    <3>3. r[i] = q[i] /\ r[k] = b[k - m]
      BY <1>2, <2>2
    <3> QED BY <3>2, <3>3
  <2>3. CASE i > m
    <3>1. PICK x \in 1 .. n, y \in 1 .. n : x = i - m /\ y = k - m /\ x < y
      BY <1>7, <2>3
    <3>2. b[x].index < b[y].index
      BY <1>1, <3>1 DEF ReadCorrectly
    <3>3. r[i] = b[x] /\ r[k] = b[y]
      BY <1>2, <1>7, <2>3, <3>1
    <3> QED BY <3>2, <3>3
  <2> QED BY <1>7, <2>1, <2>2, <2>3
<1>8. ReadCorrectly(d, r)
  <2>1. \A i \in DOMAIN r : IsCommand(r[i]) /\ r[i].index \in Nat /\ ReadFrom(d, r[i].index, r[i])
    BY <1>2, <1>6
  <2>2. \A i, k \in DOMAIN r : i < k => r[i].index < r[k].index
    BY <1>2, <1>7
  <2> QED BY <1>2, <2>1, <2>2, Zenon DEF ReadCorrectly
<1>9. \A i \in DOMAIN r : r[i].index < c
  BY <1>2, <1>6
<1> QED BY <1>1, <1>2, <1>8, <1>9

(* No commands are read correctly.                                         *)
LEMMA NoneReadCorrectly ==
    ASSUME NEW d PROVE ReadCorrectly(d, <<>>)
<1>1. PICK none : none = <<>> /\ IsSequence(none) /\ DOMAIN none = {}
  BY NoCommands
<1>2. ReadCorrectly(d, none)
  BY <1>1 DEF ReadCorrectly
<1> QED BY <1>1, <1>2

(* A batch of no commands is the empty one.                                *)
LEMMA EmptyBatch ==
    ASSUME NEW s, IsSequence(s), Len(s) = 0 PROVE s = <<>>
BY DEF IsSequence

(***************************************************************************)
(* The steps of the driver.                                                *)
(***************************************************************************)

(* The driver starts with nothing read.                                    *)
LEMMA InitDatabaseInv == Init => DatabaseInv
<1> SUFFICES ASSUME Init PROVE DatabaseInv
  OBVIOUS
<1>1. PICK d : d = doc
  OBVIOUS
<1>2. ReadCorrectly(d, queued)
  BY NoneReadCorrectly DEF Init
<1>3. ReadCorrectly(doc, queued)
  BY <1>1, <1>2
<1> QED BY <1>3 DEF Init, DatabaseInv

(* What validation accepts is counted correctly, and the parser starts at  *)
(* its first event.                                                        *)
LEMMA OpenPreserves ==
    ASSUME DatabaseInv, OpenAndInitialize PROVE DatabaseInv'
<1>1. PICK d \in Docs : d = doc /\ IsJson(d) /\ Len(d) \in Nat
  BY DocsAssumption DEF DatabaseInv, IsJson
<1>2. PICK v : v = Validated(d)[Len(d)]
  OBVIOUS
<1>3. v = validateAndCountJobs
  BY <1>1, <1>2 DEF validateAndCountJobs
<1>4. /\ phase = "closed"
      /\ phase' = IF v.error \/ v.count = 0 THEN "exitFailure" ELSE "idle"
      /\ commandCount' = v.count /\ handler' = NewHandler /\ pos' = 1
      /\ doc' = d /\ currentIndex' = currentIndex /\ skipped' = skipped /\ batch' = batch
      /\ lastRound' = lastRound /\ queued' = queued /\ lastRefill' = lastRefill
  BY <1>1, <1>3 DEF OpenAndInitialize
<1>5. /\ ReadCorrectly(d, queued') /\ currentIndex' = 0 /\ skipped' = 0 /\ batch' = <<>>
      /\ queued' = <<>> /\ lastRound' = -1 /\ lastRefill' = -1
  BY <1>1, <1>4 DEF DatabaseInv
<1>6. CASE v.error \/ v.count = 0
  BY <1>1, <1>4, <1>5, <1>6 DEF DatabaseInv
<1>7. CASE ~ (v.error \/ v.count = 0)
  <2>1. v.count = Cardinality(EndsOf(d, Len(d)))
    BY <1>1, <1>2, <1>7, CountOfAccepted
  <2>2. Validated(d)[0].context = "Outermost"
    BY <1>1, <1>2, <1>7, NoErrorBefore
  <2>3. Cardinality(EndsOf(d, 0)) = 0
    BY EndsGrow
  <2>4. pos' - 1 = 0 /\ pos' \in 1 .. Len(d) + 1
    BY <1>1, <1>4
  <2>5. PICK none : none = <<>> /\ DOMAIN none = {} /\ Len(none) = 0 /\ ReadCorrectly(d, none)
    BY NoCommands, NoneReadCorrectly
  <2>6. /\ Len(queued') + Len(batch') + skipped' = currentIndex'
        /\ DOMAIN queued' = {} /\ DOMAIN batch' = {} /\ ReadCorrectly(d, batch')
    BY <1>5, <2>5
  <2>7. ~ (lastRound' = 0 \/ lastRefill' = 0) /\ skipped' \in Nat
    BY <1>5
  <2>8. currentIndex' = Cardinality(EndsOf(d, pos' - 1))
        /\ Validated(d)[pos' - 1].context \in {"Outermost", "InTopLevelArray"}
        /\ ~ Validated(d)[Len(d)].error
    BY <1>2, <1>5, <1>7, <2>2, <2>3, <2>4
  <2>9. StandsAt(d)'
    BY <1>4, <1>5, <2>1, <2>4, <2>6, <2>7, <2>8 DEF StandsAt
  <2> QED BY <1>1, <1>4, <1>5, <1>7, <2>9 DEF DatabaseInv
<1> QED BY <1>6, <1>7

(* refillJobs starts with an empty batch.                                  *)
LEMMA RefillPreserves ==
    ASSUME DatabaseInv, RefillJobs PROVE DatabaseInv'
<1>1. PICK d \in Docs : d = doc /\ IsJson(d) /\ Len(d) \in Nat
  BY DocsAssumption DEF DatabaseInv, IsJson
<1>2. /\ phase = "idle" /\ batch' = <<>>
      /\ \/ pos > Len(d) /\ lastRefill' = 0 /\ phase' = "idle"
         \/ phase' = "parseMore" /\ lastRefill' = lastRefill
      /\ doc' = d /\ commandCount' = commandCount /\ pos' = pos /\ handler' = handler
      /\ currentIndex' = currentIndex /\ skipped' = skipped
      /\ lastRound' = lastRound /\ queued' = queued
  BY <1>1 DEF RefillJobs, IterativeParseComplete
<1>3. StandsAt(d) /\ ReadCorrectly(d, queued)
  BY <1>1, <1>2 DEF DatabaseInv
<1>4. batch' = batch
  BY <1>2, <1>3 DEF StandsAt
<1>5. lastRound' = 0 \/ lastRefill' = 0 => pos' = Len(d) + 1
  <2>1. pos \in 1 .. (Len(d) + 1) /\ (lastRound = 0 \/ lastRefill = 0 => pos = Len(d) + 1)
    BY <1>3 DEF StandsAt
  <2> QED BY <1>1, <1>2, <2>1
<1>6. StandsAt(d)'
  BY <1>2, <1>3, <1>4, <1>5 DEF StandsAt
<1> QED BY <1>1, <1>2, <1>3, <1>6 DEF DatabaseInv

(* A round of parseMore reads whole objects, each into a command of its    *)
(* own, and counts the ones that its filters leave out.                    *)
LEMMA RoundPreserves ==
    ASSUME DatabaseInv, ParseRound PROVE DatabaseInv'
<1>1. PICK d \in Docs : d = doc /\ IsJson(d) /\ Len(d) \in Nat
  BY DocsAssumption DEF DatabaseInv, IsJson
<1>2. phase = "parseMore" /\ batch = <<>>
  BY DEF ParseRound, Looping
<1>3. StandsAt(d) /\ ReadCorrectly(d, queued)
  BY <1>1, <1>2 DEF DatabaseInv
<1>4. PICK p \in 1 .. (Len(d) + 1), c \in Nat, k \in Nat :
        /\ p = pos /\ c = currentIndex /\ k = skipped
        /\ c = Cardinality(EndsOf(d, p - 1))
  <2>1. pos \in 1 .. (Len(d) + 1) /\ skipped \in Nat
        /\ currentIndex = Cardinality(EndsOf(d, pos - 1))
    BY <1>3 DEF StandsAt
  <2>2. PICK q \in Nat : q = pos - 1
    BY <1>1, <2>1
  <2>3. Cardinality(EndsOf(d, q)) \in Nat
    BY EndsGrow
  <2> QED BY <2>1, <2>2, <2>3
<1>5. PICK t \in (p - 1) .. Len(d) :
        t = ReadTo /\ (t = Len(d) \/ (t >= p /\ d[t].e = "EndObject"))
  <2>1. Len(doc) \in Nat /\ pos \in 1 .. (Len(doc) + 1)
    BY <1>1, <1>4
  <2>2. /\ ReadTo \in (pos - 1) .. Len(doc)
        /\ ReadTo = Len(doc) \/ (ReadTo >= pos /\ doc[ReadTo].e = "EndObject")
    BY <2>1, ReadToStops
  <2> QED BY <1>1, <1>4, <2>2
<1>6. PICK h : h = Handled(NewHandler, d, p)[t - p + 1]
  OBVIOUS
<1>7. h = ReadCommands
  BY <1>1, <1>3, <1>4, <1>5, <1>6 DEF ReadCommands, StandsAt
<1>8. PICK cmds, b : cmds = Numbered(c, h.commands) /\ b = Accepted(cmds)
  OBVIOUS
<1>9. /\ batch' = b
      /\ currentIndex' = c + Len(cmds)
      /\ skipped' = k + Len(cmds) - Len(b)
      /\ lastRound' = Len(cmds)
      /\ handler' = Emptied(h)
      /\ pos' = t + 1
      /\ phase' = IF h.enforceFailed THEN "enforceFailed" ELSE "parseMore"
      /\ doc' = d /\ commandCount' = commandCount /\ queued' = queued
      /\ lastRefill' = lastRefill
  BY <1>1, <1>2, <1>4, <1>5, <1>7, <1>8, Zenon DEF ParseRound, Emptied
<1>10. CASE h.enforceFailed
  BY <1>1, <1>3, <1>9, <1>10 DEF DatabaseInv
<1>11. CASE ~ h.enforceFailed
  <2>1. ~ Validated(d)[Len(d)].error
        /\ Validated(d)[p - 1].context \in {"Outermost", "InTopLevelArray"}
    BY <1>3, <1>4 DEF StandsAt
  <2>2. /\ Validated(d)[t].context \in {"Outermost", "InTopLevelArray"}
        /\ Emptied(h) = NewHandler
        /\ Len(cmds) \in Nat /\ c + Len(cmds) = Cardinality(EndsOf(d, t))
        /\ ReadCorrectly(d, b) /\ Len(b) \in Nat /\ Len(b) <= Len(cmds)
        /\ \A i \in DOMAIN b : c <= b[i].index /\ b[i].index < c + Len(cmds)
        /\ Len(cmds) = 0 => t = Len(d)
    <3>1. RoundKept(d, c, t, h, cmds, b)
      BY <1>1, <1>4, <1>5, <1>6, <1>8, <1>11, <2>1, RoundKeeps
    <3> QED BY <3>1 DEF RoundKept
  <2>3. PICK n \in Nat, m \in Nat : n = Len(cmds) /\ m = Len(b) /\ m <= n
    BY <2>2
  <2>4. handler' = NewHandler /\ pos' - 1 = t /\ pos' \in 1 .. (Len(d) + 1)
    <3>1. t + 1 - 1 = t /\ t + 1 \in 1 .. (Len(d) + 1)
      BY <1>1
    <3>2. handler' = NewHandler
      BY <1>9, <2>2, Zenon
    <3>3. pos' = t + 1
      BY <1>9
    <3> QED BY <3>1, <3>2, <3>3
  <2>5. PICK u \in Nat : u = Len(queued) /\ DOMAIN queued = 1 .. u
    BY <1>3, DomainOf DEF ReadCorrectly
  <2>6. u + k = c
    <3>1. Len(queued) + Len(batch) + skipped = currentIndex
      BY <1>3 DEF StandsAt
    <3>2. Len(batch) = 0
      BY <1>2, NoCommands
    <3> QED BY <1>4, <2>5, <3>1, <3>2
  <2>7. skipped' \in Nat /\ Len(queued') + Len(batch') + skipped' = currentIndex'
    <3>1. skipped' = k + n - m /\ currentIndex' = c + n /\ Len(queued') = u /\ Len(batch') = m
      BY <1>9, <2>3, <2>5
    <3> QED BY <2>3, <2>6, <3>1
  <2>8. \A i \in DOMAIN queued : queued[i].index \in Nat /\ queued[i].index < c
    BY <1>3, <1>4 DEF StandsAt, ReadCorrectly
  <2>9. \A j \in DOMAIN b : /\ b[j].index \in Nat /\ c <= b[j].index /\ b[j].index < c + n
    BY <2>2, <2>3 DEF ReadCorrectly
  <2>10. \A j \in DOMAIN batch' : /\ batch'[j].index < currentIndex'
                                  /\ \A i \in DOMAIN queued' : queued'[i].index < batch'[j].index
    <3>1. ASSUME NEW j \in DOMAIN b, NEW i \in DOMAIN queued PROVE queued[i].index < b[j].index
      BY <2>8, <2>9
    <3>2. batch' = b /\ currentIndex' = c + n /\ queued' = queued
      BY <1>9, <2>3
    <3> QED BY <2>9, <3>1, <3>2
  <2>11. \A i \in DOMAIN queued' : queued'[i].index < currentIndex'
    <3>1. currentIndex' = c + n /\ queued' = queued
      BY <1>9, <2>3
    <3> QED BY <2>8, <3>1
  <2>12. lastRound' = 0 \/ lastRefill' = 0 => pos' = Len(d) + 1
    <3>1. lastRefill = 0 => p = Len(d) + 1
      BY <1>3, <1>4 DEF StandsAt
    <3>2. lastRefill = 0 => t = Len(d)
      BY <1>1, <3>1
    <3>3. n = 0 => t = Len(d)
      BY <2>2, <2>3
    <3>4. lastRound' = n /\ lastRefill' = lastRefill /\ pos' = t + 1
      BY <1>9, <2>3
    <3> QED BY <3>2, <3>3, <3>4
  <2>13. /\ Validated(d)[pos' - 1].context \in {"Outermost", "InTopLevelArray"}
         /\ currentIndex' = Cardinality(EndsOf(d, pos' - 1))
         /\ ReadCorrectly(d, batch') /\ phase' = "parseMore"
    BY <1>9, <1>11, <2>2, <2>4
  <2>14. commandCount' = Cardinality(EndsOf(d, Len(d)))
    BY <1>3, <1>9 DEF StandsAt
  <2>15. StandsAt(d)'
    BY <2>1, <2>4, <2>7, <2>10, <2>11, <2>12, <2>13, <2>14 DEF StandsAt
  <2>16. doc' = d /\ ReadCorrectly(d, queued')
    BY <1>3, <1>9
  <2> QED BY <1>1, <2>13, <2>15, <2>16 DEF DatabaseInv
<1> QED BY <1>10, <1>11

(* The end of parseMore puts the batch behind the queue.                   *)
LEMMA ReturnPreserves ==
    ASSUME DatabaseInv, ReturnBatch PROVE DatabaseInv'
<1>1. PICK d \in Docs : d = doc /\ IsJson(d) /\ Len(d) \in Nat
  BY DocsAssumption DEF DatabaseInv, IsJson
<1>2. phase = "parseMore" /\ (batch # <<>> \/ lastRound = 0)
  BY DEF ReturnBatch, Looping
<1>3. StandsAt(d) /\ ReadCorrectly(d, queued)
  BY <1>1, <1>2 DEF DatabaseInv
<1>4. PICK b, q, map : b = batch /\ q = queued /\ map = toolchainInfoMap
  OBVIOUS
<1>5. PICK s : s = Adjusted(map, b)[Len(b)]
  OBVIOUS
<1>6. /\ queued' = q \o s.out /\ lastRefill' = Len(s.out) /\ phase' = "idle"
      /\ batch' = <<>> /\ lastRound' = -1
      /\ doc' = d /\ commandCount' = commandCount /\ pos' = pos /\ handler' = handler
      /\ currentIndex' = currentIndex /\ skipped' = skipped
  BY <1>1, <1>4, <1>5 DEF ReturnBatch
<1>7. PICK c \in Nat : c = currentIndex
  <2>1. pos - 1 \in Nat
    BY <1>1, <1>3 DEF StandsAt
  <2>2. PICK x \in Nat : x = pos - 1
    BY <2>1
  <2>3. Cardinality(EndsOf(d, x)) \in Nat
    BY EndsGrow
  <2> QED BY <1>3, <2>2, <2>3 DEF StandsAt
<1>8. /\ ReadCorrectly(d, b) /\ ReadCorrectly(d, q)
      /\ \A k \in DOMAIN b : b[k].index < c
      /\ \A k \in DOMAIN b : \A i \in DOMAIN q : q[i].index < b[k].index
      /\ \A i \in DOMAIN q : q[i].index < c
  BY <1>3, <1>4, <1>7 DEF StandsAt
<1>9. PICK out : out = s.out /\ IsSequence(out) /\ Len(out) = Len(b)
                 /\ \A i \in DOMAIN b : SameButArguments(out[i], b[i])
  <2>1. IsSequence(b) /\ \A i \in DOMAIN b : IsCommand(b[i])
    BY <1>8 DEF ReadCorrectly
  <2>2. /\ IsSequence(Adjusted(map, b)[Len(b)].out) /\ Len(Adjusted(map, b)[Len(b)].out) = Len(b)
        /\ \A i \in DOMAIN b : SameButArguments(Adjusted(map, b)[Len(b)].out[i], b[i])
    BY <2>1, AdjustKeeps
  <2> QED BY <1>5, <2>2
<1>10. /\ ReadCorrectly(d, out) /\ DOMAIN out = DOMAIN b
       /\ \A i \in DOMAIN b : out[i].index = b[i].index
  BY <1>8, <1>9, AdjustedReadCorrectly
<1>11. /\ ReadCorrectly(d, q \o out)
       /\ Len(q) \in Nat /\ Len(out) \in Nat /\ Len(q \o out) = Len(q) + Len(out)
       /\ \A i \in DOMAIN (q \o out) : (q \o out)[i].index < c
  <2>1. /\ \A k \in DOMAIN out : out[k].index < c
        /\ \A k \in DOMAIN out : \A i \in DOMAIN q : q[i].index < out[k].index
    BY <1>8, <1>10
  <2> QED BY <1>8, <1>10, <2>1, QueueGrows
<1>12. PICK r : r = q \o out /\ ReadCorrectly(d, r) /\ Len(r) = Len(q) + Len(b)
                /\ \A i \in DOMAIN r : r[i].index < c
  BY <1>9, <1>11
<1>13. PICK none : none = <<>> /\ DOMAIN none = {} /\ Len(none) = 0 /\ ReadCorrectly(d, none)
  BY NoCommands, NoneReadCorrectly
<1>14. queued' = r /\ batch' = none /\ currentIndex' = c
  BY <1>6, <1>7, <1>9, <1>12, <1>13
<1>15. skipped' \in Nat /\ Len(queued') + Len(batch') + skipped' = currentIndex'
  <2>1. Len(q) + Len(b) + skipped = c /\ skipped \in Nat
    BY <1>3, <1>4, <1>7 DEF StandsAt
  <2>2. PICK x \in Nat, y \in Nat : x = Len(q) /\ y = Len(b)
    BY <1>9, <1>11
  <2>3. Len(queued') = x + y /\ Len(batch') = 0 /\ skipped' = skipped
    BY <1>6, <1>12, <1>13, <1>14, <2>2
  <2> QED BY <1>14, <2>1, <2>2, <2>3
<1>16. /\ \A i \in DOMAIN queued' : queued'[i].index < currentIndex'
       /\ DOMAIN batch' = {} /\ ReadCorrectly(d, batch')
  BY <1>12, <1>13, <1>14
<1>17. lastRound' = 0 \/ lastRefill' = 0 => pos' = Len(d) + 1
  <2> SUFFICES ASSUME lastRefill' = 0 PROVE pos = Len(d) + 1
    BY <1>6
  <2>1. Len(b) = 0 /\ IsSequence(b)
    BY <1>6, <1>8, <1>9 DEF ReadCorrectly
  <2>2. b = <<>>
    BY <2>1, EmptyBatch
  <2>3. lastRound = 0
    BY <1>2, <1>4, <2>2
  <2> QED BY <1>3, <2>3 DEF StandsAt
<1>18. /\ ~ Validated(d)[Len(d)].error
       /\ commandCount' = Cardinality(EndsOf(d, Len(d)))
       /\ pos' \in 1 .. Len(d) + 1
       /\ Validated(d)[pos' - 1].context \in {"Outermost", "InTopLevelArray"}
       /\ handler' = NewHandler
       /\ currentIndex' = Cardinality(EndsOf(d, pos' - 1))
  BY <1>3, <1>6 DEF StandsAt
<1>19. StandsAt(d)'
  BY <1>6, <1>15, <1>16, <1>17, <1>18 DEF StandsAt
<1>20. ReadCorrectly(d, queued')
  BY <1>12, <1>14
<1> QED BY <1>1, <1>6, <1>19, <1>20 DEF DatabaseInv

(* A step that changes nothing.                                            *)
LEMMA StutterPreserves ==
    ASSUME DatabaseInv, UNCHANGED dbVars PROVE DatabaseInv'
<1>1. PICK d : d = doc
  OBVIOUS
<1>2. /\ doc' = d /\ phase' = phase /\ commandCount' = commandCount /\ pos' = pos
      /\ handler' = handler /\ currentIndex' = currentIndex /\ skipped' = skipped
      /\ batch' = batch /\ lastRound' = lastRound /\ queued' = queued /\ lastRefill' = lastRefill
  BY <1>1 DEF dbVars
<1>3. StandsAt(d) => StandsAt(d)'
  BY <1>2 DEF StandsAt
<1> QED BY <1>1, <1>2, <1>3 DEF DatabaseInv

(***************************************************************************)
(* Theorems.                                                               *)
(***************************************************************************)

(* DatabaseInv holds throughout: in every file that rapidjson can report,  *)
(* with any limit, parseMore stops between objects, carries nothing from   *)
(* one object to the next, and has read each command from its own object.  *)
THEOREM DatabaseInvariant == Spec => []DatabaseInv
<1>1. Init => DatabaseInv
  BY InitDatabaseInv
<1>2. DatabaseInv /\ [Next]_dbVars => DatabaseInv'
  <2> SUFFICES ASSUME DatabaseInv, [Next]_dbVars PROVE DatabaseInv'
    OBVIOUS
  <2>1. CASE OpenAndInitialize
    BY <2>1, OpenPreserves
  <2>2. CASE RefillJobs
    BY <2>2, RefillPreserves
  <2>3. CASE ParseRound
    BY <2>3, RoundPreserves
  <2>4. CASE ReturnBatch
    BY <2>4, ReturnPreserves
  <2>5. CASE Exited
    BY <2>5, StutterPreserves DEF Exited
  <2>6. CASE UNCHANGED dbVars
    BY <2>6, StutterPreserves
  <2> QED BY <2>1, <2>2, <2>3, <2>4, <2>5, <2>6 DEF Next
<1> QED BY <1>1, <1>2, PTL DEF Spec

(* The ends of objects of the file, in the two ways they are written.      *)
LEMMA AllEnds ==
    ASSUME IsJson(doc) PROVE ObjectEnds = EndsOf(doc, Len(doc))
<1>1. DOMAIN doc = 1 .. Len(doc)
  BY DEF IsJson
<1> QED BY <1>1 DEF ObjectEnds, EndsOf

(* Whatever arrays of arguments are nested in the objects of a file that   *)
(* is accepted, File::_commandCount is the number of its objects.          *)
THEOREM CountTheorem == Spec => []CountIsNumberOfObjects
<1>1. DatabaseInv => CountIsNumberOfObjects
  <2> SUFFICES ASSUME DatabaseInv, phase \in {"idle", "parseMore"}
               PROVE  commandCount = Cardinality(ObjectEnds)
    BY DEF CountIsNumberOfObjects
  <2>1. IsJson(doc)
    BY DocsAssumption DEF DatabaseInv
  <2>2. commandCount = Cardinality(EndsOf(doc, Len(doc)))
    BY DEF DatabaseInv, StandsAt
  <2> QED BY <2>1, <2>2, AllEnds
<1> QED BY <1>1, DatabaseInvariant, PTL

(* parseMore accounts for every object that it has passed, in the order of *)
(* the file, and returns nothing only at the end of the file.              *)
THEOREM NoEntryLostTheorem == Spec => []NoEntryLost
<1>1. DatabaseInv => NoEntryLost
  <2> SUFFICES ASSUME DatabaseInv, phase = "idle"
               PROVE  /\ Len(queued) + skipped = currentIndex
                      /\ \A i, k \in DOMAIN queued : i < k => queued[i].index < queued[k].index
                      /\ lastRefill = 0 => currentIndex = commandCount
    BY DEF NoEntryLost
  <2>1. PICK d : d = doc /\ IsJson(d) /\ Len(d) \in Nat
    BY DocsAssumption DEF DatabaseInv, IsJson
  <2>2. StandsAt(d) /\ ReadCorrectly(d, queued)
    BY <2>1 DEF DatabaseInv
  <2>3. Len(queued) + skipped = currentIndex
    <3>1. PICK u \in Nat : u = Len(queued)
      BY <2>2, DomainOf DEF ReadCorrectly
    <3>2. Len(queued) + Len(batch) + skipped = currentIndex /\ batch = <<>> /\ skipped \in Nat
      BY <2>2 DEF StandsAt
    <3>3. Len(batch) = 0
      BY <3>2, NoCommands
    <3> QED BY <3>1, <3>2, <3>3
  <2>4. \A i, k \in DOMAIN queued : i < k => queued[i].index < queued[k].index
    BY <2>2 DEF ReadCorrectly
  <2>5. ASSUME lastRefill = 0 PROVE currentIndex = commandCount
    <3>1. /\ pos = Len(d) + 1 /\ currentIndex = Cardinality(EndsOf(d, pos - 1))
          /\ commandCount = Cardinality(EndsOf(d, Len(d)))
      BY <2>2, <2>5 DEF StandsAt
    <3>2. pos - 1 = Len(d)
      BY <2>1, <3>1
    <3> QED BY <3>1, <3>2
  <2> QED BY <2>3, <2>4, <2>5
<1> QED BY <1>1, DatabaseInvariant, PTL

(* A queued command has the directory and the file of the object at its    *)
(* index, whatever was read, refilled or left out before it.               *)
THEOREM FieldsTheorem == Spec => []FieldsFromOwnKeys
<1>1. DatabaseInv => FieldsFromOwnKeys
  <2> SUFFICES ASSUME DatabaseInv, NEW n \in DOMAIN queued
               PROVE  /\ queued[n].directory =
                            LastOf(ValuesOf(EventsOfObject(queued[n].index), "directory"))
                      /\ queued[n].file =
                            LastOf(ValuesOf(EventsOfObject(queued[n].index), "file"))
    BY DEF FieldsFromOwnKeys
  <2>1. IsJson(doc)
    BY DocsAssumption DEF DatabaseInv
  <2>2. queued[n].index \in Nat /\ ReadFrom(doc, queued[n].index, queued[n])
    BY DEF DatabaseInv, ReadCorrectly
  <2>3. PICK i, c : i \in Nat /\ i = queued[n].index /\ c = queued[n] /\ ReadFrom(doc, i, c)
    BY <2>2
  <2>4. /\ c.directory = LastOf(ValuesOf(EventsOfObject(i), "directory"))
        /\ c.file = LastOf(ValuesOf(EventsOfObject(i), "file"))
    BY <2>1, <2>3, OwnFields
  <2> QED BY <2>3, <2>4
<1> QED BY <1>1, DatabaseInvariant, PTL
==============================================================================
