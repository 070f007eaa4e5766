------------------------ MODULE PreprocessingProofs ------------------------
(***************************************************************************)
(* Proofs about Preprocessing.tla: the stack of builders is in step with   *)
(* the files that clang has open, and the hash of a file is the tree of    *)
(* what it includes.                                                       *)
(***************************************************************************)
EXTENDS PreprocessingInvariant, NumberProofs, SequenceTheorems

(***************************************************************************)
(* How deep the files are nested.                                          *)
(***************************************************************************)

(* The events of a kind among the first p.                                 *)
Positions(e, kind, p) == {m \in 1 .. p : e[m].ev = kind}

(* How their number grows.                                                 *)
LEMMA PositionsGrow ==
    ASSUME NEW e, NEW kind, NEW p \in Nat
    PROVE  /\ Cardinality(Positions(e, kind, p)) \in Nat
           /\ Cardinality(Positions(e, kind, 0)) = 0
           /\ Cardinality(Positions(e, kind, p + 1)) =
                 Cardinality(Positions(e, kind, p)) + (IF e[p + 1].ev = kind THEN 1 ELSE 0)
<1>1. IsFiniteSet(Positions(e, kind, p)) /\ Cardinality(Positions(e, kind, p)) \in Nat
  <2>1. IsFiniteSet(1 .. p)
    BY FS_Interval
  <2>2. Positions(e, kind, p) \subseteq 1 .. p
    BY DEF Positions
  <2> HIDE DEF Positions
  <2> QED BY <2>1, <2>2, FS_Subset, FS_CardinalityType
<1>2. Positions(e, kind, 0) = {}
  BY DEF Positions
<1>3. CASE e[p + 1].ev = kind
  <2>1. Positions(e, kind, p + 1) = Positions(e, kind, p) \cup {p + 1} /\ p + 1 \notin Positions(e, kind, p)
    BY <1>3 DEF Positions
  <2> HIDE DEF Positions
  <2>2. Cardinality(Positions(e, kind, p + 1)) = Cardinality(Positions(e, kind, p)) + 1
    BY <1>1, <2>1, FS_AddElement
  <2> QED BY <1>1, <1>2, <1>3, <2>2, FS_EmptySet
<1>4. CASE e[p + 1].ev # kind
  <2>1. Positions(e, kind, p + 1) = Positions(e, kind, p)
    BY <1>4 DEF Positions
  <2> HIDE DEF Positions
  <2> QED BY <1>1, <1>2, <1>4, <2>1, FS_EmptySet
<1> QED BY <1>3, <1>4

(* An Enter event is one level deeper than the event before it, an Exit    *)
(* event one less, and the others are at the same level.                   *)
LEMMA DepthStep ==
    ASSUME NEW e, NEW p \in Nat
    PROVE  /\ IncludeDepth(e, p) \in Int
           /\ IncludeDepth(e, 0) = 0
           /\ e[p + 1].ev = "Enter" => IncludeDepth(e, p + 1) = IncludeDepth(e, p) + 1
           /\ e[p + 1].ev = "Exit" => IncludeDepth(e, p + 1) = IncludeDepth(e, p) - 1
           /\ e[p + 1].ev \notin {"Enter", "Exit"} => IncludeDepth(e, p + 1) = IncludeDepth(e, p)
<1>1. \A k \in Nat : IncludeDepth(e, k) =
         Cardinality(Positions(e, "Enter", k)) - Cardinality(Positions(e, "Exit", k))
  BY DEF IncludeDepth, Positions
<1>2. PICK a \in Nat, b \in Nat :
         a = Cardinality(Positions(e, "Enter", p)) /\ b = Cardinality(Positions(e, "Exit", p))
  BY PositionsGrow
<1>3. /\ Cardinality(Positions(e, "Enter", p + 1)) = a + (IF e[p + 1].ev = "Enter" THEN 1 ELSE 0)
      /\ Cardinality(Positions(e, "Exit", p + 1)) = b + (IF e[p + 1].ev = "Exit" THEN 1 ELSE 0)
      /\ Cardinality(Positions(e, "Enter", 0)) = 0 /\ Cardinality(Positions(e, "Exit", 0)) = 0
  BY <1>2, PositionsGrow
<1>4. IncludeDepth(e, p) = a - b /\ IncludeDepth(e, 0) = 0
  BY <1>1, <1>2, <1>3
<1>5. IncludeDepth(e, p + 1) = (a + (IF e[p + 1].ev = "Enter" THEN 1 ELSE 0))
                                   - (b + (IF e[p + 1].ev = "Exit" THEN 1 ELSE 0))
  BY <1>1, <1>3
<1> QED BY <1>4, <1>5

(* Of two that are open, the later one is deeper, and neither is deeper    *)
(* than where they are open.                                               *)
LEMMA OpenOrder ==
    ASSUME NEW e, NEW p \in Nat, NEW j \in OpenAt(e, p), NEW k \in OpenAt(e, p)
    PROVE  /\ j \in 1 .. p /\ e[j].ev = "Enter"
           /\ IncludeDepth(e, j) \in Int /\ IncludeDepth(e, j) <= IncludeDepth(e, p)
           /\ j < k => IncludeDepth(e, j) < IncludeDepth(e, k)
<1>1. \A n \in Nat : IncludeDepth(e, n) \in Int
  BY DepthStep
<1>2. /\ j \in 1 .. p /\ k \in 1 .. p /\ e[j].ev = "Enter" /\ e[k].ev = "Enter"
      /\ \A l \in j .. p : IncludeDepth(e, l) >= IncludeDepth(e, j)
  BY DEF OpenAt
<1>3. IncludeDepth(e, j) <= IncludeDepth(e, p)
  BY <1>1, <1>2
<1>4. ASSUME j < k PROVE IncludeDepth(e, j) < IncludeDepth(e, k)
  <2>1. k - 1 \in j .. p /\ k - 1 \in Nat /\ (k - 1) + 1 = k
    BY <1>2, <1>4
  <2>2. IncludeDepth(e, k - 1) >= IncludeDepth(e, j)
    BY <1>2, <2>1
  <2>3. IncludeDepth(e, k) = IncludeDepth(e, k - 1) + 1
    BY <1>2, <2>1, DepthStep
  <2> QED BY <1>1, <1>2, <2>1, <2>2, <2>3
<1> QED BY <1>1, <1>2, <1>3, <1>4

(* What is open at p was so since it was entered.                          *)
LEMMA OpenBefore ==
    ASSUME NEW e, NEW p \in Nat, NEW j \in OpenAt(e, p), NEW q \in j .. p
    PROVE  j \in OpenAt(e, q)
BY DEF OpenAt

(* What is open where k is entered is open as long as k is.                *)
LEMMA OpenThrough ==
    ASSUME NEW e, NEW p \in Nat, NEW k \in OpenAt(e, p), NEW j \in OpenAt(e, k)
    PROVE  j \in OpenAt(e, p)
<1>1. \A n \in Nat : IncludeDepth(e, n) \in Int
  BY DepthStep
<1>2. /\ k \in 1 .. p /\ j \in 1 .. k /\ e[j].ev = "Enter"
      /\ \A l \in k .. p : IncludeDepth(e, l) >= IncludeDepth(e, k)
      /\ \A l \in j .. k : IncludeDepth(e, l) >= IncludeDepth(e, j)
  BY DEF OpenAt
<1>3. ASSUME NEW l \in j .. p PROVE IncludeDepth(e, l) >= IncludeDepth(e, j)
  <2>1. CASE l \in j .. k
    BY <1>2, <2>1
  <2>2. CASE l \in k .. p
    <3>1. IncludeDepth(e, l) >= IncludeDepth(e, k) /\ IncludeDepth(e, k) >= IncludeDepth(e, j)
      BY <1>2, <2>2
    <3>2. l \in Nat /\ k \in Nat /\ j \in Nat
      BY <1>2
    <3> QED BY <1>1, <3>1, <3>2
  <2> QED BY <1>2, <2>1, <2>2
<1> QED BY <1>2, <1>3 DEF OpenAt

(* What is open stays so unless the next event leaves it.                  *)
LEMMA OpenAfterStep ==
    ASSUME NEW e, NEW p \in Nat, NEW j \in OpenAt(e, p), IncludeDepth(e, j) <= IncludeDepth(e, p + 1)
    PROVE  j \in OpenAt(e, p + 1)
<1>1. IncludeDepth(e, j) \in Int /\ IncludeDepth(e, p + 1) \in Int
  <2>1. j \in Nat /\ p + 1 \in Nat
    BY DEF OpenAt
  <2> QED BY <2>1, DepthStep
<1>2. /\ j \in 1 .. p /\ e[j].ev = "Enter"
      /\ \A l \in j .. p : IncludeDepth(e, l) >= IncludeDepth(e, j)
  BY DEF OpenAt
<1>3. ASSUME NEW l \in j .. (p + 1) PROVE IncludeDepth(e, l) >= IncludeDepth(e, j)
  <2>1. l \in j .. p \/ l = p + 1
    BY <1>2
  <2> QED BY <1>1, <1>2, <2>1
<1> QED BY <1>2, <1>3 DEF OpenAt

(* What an Enter event enters is open after it.                            *)
LEMMA OpenWhenEntered ==
    ASSUME NEW e, NEW p \in Nat \ {0}, e[p].ev = "Enter"
    PROVE  p \in OpenAt(e, p)
<1>1. IncludeDepth(e, p) \in Int
  BY DepthStep
<1>2. \A l \in p .. p : l = p
  OBVIOUS
<1> QED BY <1>1, <1>2 DEF OpenAt

(***************************************************************************)
(* Clang's nesting.                                                        *)
(***************************************************************************)

(* Something is open at level i.                                           *)
OpenLevel(e, p, i) == \E j \in OpenAt(e, p) : IncludeDepth(e, j) = i

(* The main file is open, and something at each level.                     *)
Nesting(e, p) ==
    /\ IncludeDepth(e, p) \in Nat /\ (p > 0 => IncludeDepth(e, p) >= 1)
    /\ \A i \in 1 .. IncludeDepth(e, p) : OpenLevel(e, p, i)

(* A level that the next event does not leave.                             *)
LEMMA LevelStays ==
    ASSUME NEW e, NEW p \in Nat, NEW i \in Nat, OpenLevel(e, p, i), i <= IncludeDepth(e, p + 1)
    PROVE  OpenLevel(e, p + 1, i)
<1>1. PICK j \in OpenAt(e, p) : IncludeDepth(e, j) = i
  BY DEF OpenLevel
<1>2. j \in OpenAt(e, p + 1)
  BY <1>1, OpenAfterStep
<1> QED BY <1>1, <1>2 DEF OpenLevel

(* One event of the nesting.                                               *)
LEMMA NestingStep ==
    ASSUME NEW e, IsNested(e), NEW p \in 0 .. (Len(e) - 1), Nesting(e, p)
    PROVE  Nesting(e, p + 1)
<1>1. p \in Nat /\ Len(e) \in Nat /\ p + 1 \in DOMAIN e /\ p + 1 \in Nat \ {0}
  BY DEF IsNested
<1>2. IncludeDepth(e, p) \in Nat /\ IncludeDepth(e, p + 1) \in Int
  BY <1>1, DepthStep DEF Nesting
<1>3. p = 0 => e[1].ev = "Enter" /\ IncludeDepth(e, 0) = 0
  BY <1>1, DepthStep DEF IsNested
<1>4. CASE e[p + 1].ev = "Enter"
  <2>1. IncludeDepth(e, p + 1) = IncludeDepth(e, p) + 1
    BY <1>1, <1>4, DepthStep
  <2>2. ASSUME NEW i \in 1 .. IncludeDepth(e, p + 1) PROVE OpenLevel(e, p + 1, i)
    <3>1. CASE i <= IncludeDepth(e, p)
      <4>1. OpenLevel(e, p, i) /\ i \in Nat /\ i <= IncludeDepth(e, p + 1)
        BY <1>2, <3>1 DEF Nesting
      <4> QED BY <1>1, <4>1, LevelStays
    <3>2. CASE i = IncludeDepth(e, p + 1)
      BY <1>1, <1>4, <3>2, OpenWhenEntered DEF OpenLevel
    <3> QED BY <1>2, <2>1, <3>1, <3>2
  <2> QED BY <1>2, <2>1, <2>2 DEF Nesting
<1>5. CASE e[p + 1].ev # "Enter"
  <2>1. IncludeDepth(e, p + 1) <= IncludeDepth(e, p) /\ IncludeDepth(e, p + 1) >= 1
    <3>1. CASE e[p + 1].ev = "Exit"
      <4>1. IncludeDepth(e, (p + 1) - 1) >= 2 /\ (p + 1) - 1 = p
        BY <1>1, <3>1 DEF IsNested
      <4>2. IncludeDepth(e, p + 1) = IncludeDepth(e, p) - 1
        BY <1>1, <3>1, DepthStep
      <4> QED BY <1>2, <4>1, <4>2
    <3>2. CASE e[p + 1].ev # "Exit"
      <4>1. IncludeDepth(e, p + 1) = IncludeDepth(e, p)
        BY <1>1, <1>5, <3>2, DepthStep
      <4>2. p > 0
        BY <1>1, <1>3, <1>5
      <4> QED BY <1>2, <4>1, <4>2 DEF Nesting
    <3> QED BY <3>1, <3>2
  <2>2. ASSUME NEW i \in 1 .. IncludeDepth(e, p + 1) PROVE OpenLevel(e, p + 1, i)
    <3>1. OpenLevel(e, p, i) /\ i \in Nat /\ i <= IncludeDepth(e, p + 1)
      BY <1>2, <2>1 DEF Nesting
    <3> QED BY <1>1, <3>1, LevelStays
  <2> QED BY <1>2, <2>1, <2>2 DEF Nesting
<1> QED BY <1>4, <1>5

(* After every event.                                                      *)
LEMMA Nested ==
    ASSUME NEW e, IsNested(e)
    PROVE  \A p \in 0 .. Len(e) : Nesting(e, p)
<1> DEFINE S == {p \in 0 .. Len(e) : Nesting(e, p)}
<1>1. Len(e) \in Nat
  BY DEF IsNested
<1>2. 0 \in S
  <2>1. IncludeDepth(e, 0) = 0
    BY DepthStep
  <2>2. 1 .. 0 = {}
    OBVIOUS
  <2> QED BY <1>1, <2>1, <2>2 DEF Nesting
<1>3. ASSUME NEW i \in 0 .. (Len(e) - 1), i \in S PROVE i + 1 \in S
  BY <1>1, <1>3, NestingStep
<1> HIDE DEF S
<1>4. \A i \in 0 .. Len(e) : i \in S
  BY <1>1, <1>2, <1>3, UpTo
<1> QED BY <1>4 DEF S

(* The innermost is the one at the level of the event, and the last.       *)
LEMMA InnermostIs ==
    ASSUME NEW e, IsNested(e), NEW p \in 1 .. Len(e)
    PROVE  /\ LastOpened(OpenAt(e, p)) \in OpenAt(e, p)
           /\ IncludeDepth(e, LastOpened(OpenAt(e, p))) = IncludeDepth(e, p)
           /\ \A j \in OpenAt(e, p) : /\ j <= LastOpened(OpenAt(e, p))
                                      /\ IncludeDepth(e, j) = IncludeDepth(e, p) =>
                                            j = LastOpened(OpenAt(e, p))
<1>1. p \in Nat /\ Nesting(e, p)
  <2>1. Len(e) \in Nat
    BY DEF IsNested
  <2> QED BY <2>1, Nested
<1>2. IncludeDepth(e, p) \in Nat /\ OpenLevel(e, p, IncludeDepth(e, p))
  BY <1>1 DEF Nesting
<1>3. PICK k \in OpenAt(e, p) : IncludeDepth(e, k) = IncludeDepth(e, p)
  BY <1>2 DEF OpenLevel
<1>4. ASSUME NEW j \in OpenAt(e, p) PROVE j <= k /\ (IncludeDepth(e, j) = IncludeDepth(e, p) => j = k)
  <2>1. j \in Nat /\ k \in Nat /\ IncludeDepth(e, j) \in Int
    BY <1>1, OpenOrder
  <2>2. IncludeDepth(e, j) <= IncludeDepth(e, p)
    BY <1>1, OpenOrder
  <2>3. k < j => IncludeDepth(e, k) < IncludeDepth(e, j)
    BY <1>1, OpenOrder
  <2>4. j < k => IncludeDepth(e, j) < IncludeDepth(e, k)
    BY <1>1, OpenOrder
  <2> QED BY <1>2, <1>3, <2>1, <2>2, <2>3, <2>4
<1> DEFINE m == LastOpened(OpenAt(e, p))
<1>5. m \in OpenAt(e, p) /\ \A l \in OpenAt(e, p) : l <= m
  <2>1. \E j \in OpenAt(e, p) : \A l \in OpenAt(e, p) : l <= j
    BY <1>4
  <2>2. m = CHOOSE j \in OpenAt(e, p) : \A l \in OpenAt(e, p) : l <= j
    BY DEF LastOpened
  <2> HIDE DEF m
  <2> QED BY <2>1, <2>2
<1>6. m = k
  <2>1. m <= k /\ k <= m
    BY <1>4, <1>5
  <2>2. m \in Nat /\ k \in Nat
    BY <1>1, <1>5, OpenOrder
  <2> HIDE DEF m
  <2> QED BY <2>1, <2>2
<1> QED BY <1>3, <1>4, <1>6

(***************************************************************************)
(* What clang says of a unit.                                              *)
(***************************************************************************)

(* A unit as clang reports it.                                             *)
IsUnit(u) ==
    /\ IsNested(u.events)
    /\ u.file = FileIds(u.events) /\ u.inside = Innermost(u.events)

(* The units that a worker is given.                                       *)
LEMMA UnitsAreUnits ==
    ASSUME NEW u \in Units PROVE IsUnit(u)
<1>1. PICK j \in DOMAIN Jobs : u = ClangUnit(Jobs[j].events)
  BY DEF Units
<1>2. IsNested(Jobs[j].events)
  BY JobsAssumption
<1>3. u.events = Jobs[j].events /\ u.file = FileIds(u.events) /\ u.inside = Innermost(u.events)
  BY <1>1 DEF ClangUnit
<1> QED BY <1>2, <1>3 DEF IsUnit

(* Its size.                                                               *)
LEMMA UnitSize ==
    ASSUME NEW u, IsUnit(u)
    PROVE  /\ Len(u.events) \in Nat /\ Len(u.events) > 0
           /\ DOMAIN u.events = 1 .. Len(u.events) /\ u.events # <<>>
<1>1. Len(u.events) \in Nat /\ DOMAIN u.events = 1 .. Len(u.events) /\ u.events # <<>>
  BY DEF IsUnit, IsNested
<1>2. Len(u.events) # 0
  <2> SUFFICES ASSUME Len(u.events) = 0 PROVE FALSE
    OBVIOUS
  <2>1. DOMAIN u.events = {}
    BY <1>1
  <2> QED BY <1>1, <2>1
<1> QED BY <1>1, <1>2

(* The innermost after p events is the one at their level, and the last.   *)
LEMMA InsideIs ==
    ASSUME NEW u, IsUnit(u), NEW p \in 1 .. Len(u.events)
    PROVE  /\ u.inside[p] \in OpenAt(u.events, p) /\ u.inside[p] \in 1 .. p
           /\ u.events[u.inside[p]].ev = "Enter"
           /\ IncludeDepth(u.events, u.inside[p]) = IncludeDepth(u.events, p)
           /\ IncludeDepth(u.events, p) \in Nat \ {0}
           /\ \A j \in OpenAt(u.events, p) :
                 /\ j <= u.inside[p]
                 /\ IncludeDepth(u.events, j) = IncludeDepth(u.events, p) => j = u.inside[p]
<1>1. u.inside[p] = LastOpened(OpenAt(u.events, p))
  BY UnitSize DEF IsUnit, Innermost
<1>2. IsNested(u.events) /\ Len(u.events) \in Nat /\ p \in Nat
  BY UnitSize DEF IsUnit
<1>3. Nesting(u.events, p)
  BY <1>2, Nested
<1>4. u.inside[p] \in OpenAt(u.events, p)
  BY <1>1, <1>2, InnermostIs
<1>5. u.inside[p] \in 1 .. p /\ u.events[u.inside[p]].ev = "Enter"
  BY <1>4 DEF OpenAt
<1>6. IncludeDepth(u.events, p) \in Nat \ {0}
  BY <1>2, <1>3 DEF Nesting
<1> QED BY <1>1, <1>2, <1>4, <1>5, <1>6, InnermostIs

(* Where the innermost is no line marker it is the file.                   *)
LEMMA FileOfInnermost ==
    ASSUME NEW u, IsUnit(u), NEW p \in 1 .. Len(u.events),
           u.events[u.inside[p]].path # LineMarker
    PROVE  u.file[p] = IF u.events[u.inside[p]].path = NoLocation THEN InvalidFileId ELSE u.inside[p]
<1> DEFINE k == u.inside[p]
           T == {i \in OpenAt(u.events, p) : u.events[i].path # LineMarker}
<1>1. k \in OpenAt(u.events, p) /\ \A j \in OpenAt(u.events, p) : j <= k
  BY InsideIs
<1>2. k \in T /\ \A j \in T : j <= k
  BY <1>1
<1>3. T \subseteq Int
  BY DEF OpenAt
<1> HIDE DEF T
<1>4. LastOpened(T) = k
  <2>1. \E j \in T : \A l \in T : l <= j
    BY <1>2
  <2>2. LastOpened(T) \in T /\ \A l \in T : l <= LastOpened(T)
    BY <2>1 DEF LastOpened
  <2>3. k <= LastOpened(T) /\ LastOpened(T) <= k
    BY <1>2, <2>2
  <2>4. k \in Int /\ LastOpened(T) \in Int
    BY <1>2, <1>3, <2>2
  <2> HIDE DEF k
  <2> QED BY <2>3, <2>4
<1>5. u.file[p] = IF u.events[LastOpened(T)].path = NoLocation THEN InvalidFileId ELSE LastOpened(T)
  BY UnitSize DEF IsUnit, FileIds, T
<1> QED BY <1>4, <1>5

(* Where a file or line marker is entered it is the innermost.             *)
LEMMA InsideEntered ==
    ASSUME NEW u, IsUnit(u), NEW k \in 1 .. Len(u.events), u.events[k].ev = "Enter"
    PROVE  u.inside[k] = k
<1>1. k \in OpenAt(u.events, k)
  BY UnitSize, OpenWhenEntered
<1>2. k <= u.inside[k] /\ u.inside[k] \in 1 .. k
  BY <1>1, InsideIs
<1> QED BY <1>2

(* The FileID of a file that has a location is its position.               *)
LEMMA FileEnteredIs ==
    ASSUME NEW u, IsUnit(u), NEW k \in 1 .. Len(u.events), u.events[k].ev = "Enter",
           u.events[k].path # LineMarker
    PROVE  u.file[k] = IF u.events[k].path = NoLocation THEN InvalidFileId ELSE k
BY InsideEntered, FileOfInnermost

(* At the end only the main file and line markers in it are open.          *)
LEMMA MainFileAtEnd ==
    ASSUME NEW u, IsUnit(u)
    PROVE  u.file[u.inside[Len(u.events)]] = MainFileId
<1> DEFINE n == Len(u.events)
           k == u.inside[n]
           T == {i \in OpenAt(u.events, k) : u.events[i].path # LineMarker}
<1>1. n \in Nat /\ n > 0 /\ n \in 1 .. Len(u.events)
  BY UnitSize
<1>2. k \in OpenAt(u.events, n) /\ k \in 1 .. n
  BY <1>1, InsideIs
<1>3. MainFileId \in T
  <2>1. /\ u.events[1].ev = "Enter" /\ u.events[1].path \notin {NoLocation, LineMarker}
    BY DEF IsUnit, IsNested
  <2>2. IncludeDepth(u.events, 1) = 1
    <3>1. IncludeDepth(u.events, 0 + 1) = IncludeDepth(u.events, 0) + 1 /\ IncludeDepth(u.events, 0) = 0
      BY <2>1, DepthStep
    <3> QED BY <3>1
  <2>3. ASSUME NEW l \in 1 .. k PROVE IncludeDepth(u.events, l) >= IncludeDepth(u.events, 1)
    <3>1. l \in 1 .. Len(u.events)
      BY <1>1, <1>2
    <3>2. IncludeDepth(u.events, l) \in Nat \ {0}
      BY <3>1, InsideIs
    <3> QED BY <2>2, <3>2
  <2>4. 1 \in 1 .. k
    BY <1>1, <1>2
  <2> QED BY <2>1, <2>3, <2>4 DEF OpenAt, MainFileId
<1>4. ASSUME NEW j \in T PROVE j = MainFileId
  <2>1. j \in OpenAt(u.events, n)
    BY <1>1, <1>2, OpenThrough
  <2> QED BY <2>1 DEF IsUnit, IsNested
<1>5. LastOpened(T) = MainFileId
  <2>1. T = {MainFileId}
    BY <1>3, <1>4
  <2> HIDE DEF T
  <2>2. LastOpened(T) \in T
    <3>1. \E j \in T : \A l \in T : l <= j
      BY <2>1 DEF MainFileId
    <3> QED BY <3>1 DEF LastOpened
  <2> QED BY <2>1, <2>2
<1>6. u.file[k] = IF u.events[LastOpened(T)].path = NoLocation THEN InvalidFileId ELSE LastOpened(T)
  BY <1>1, <1>2, UnitSize DEF IsUnit, FileIds
<1>7. u.events[MainFileId].path # NoLocation
  BY DEF IsUnit, IsNested, MainFileId
<1> HIDE DEF T, k
<1> QED BY <1>5, <1>6, <1>7 DEF k

(* An Exit event leaves the innermost, which is not the main file.         *)
LEMMA ExitOf ==
    ASSUME NEW u, IsUnit(u), NEW p \in 1 .. (Len(u.events) - 1), u.events[p + 1].ev = "Exit"
    PROVE  /\ IncludeDepth(u.events, p) >= 2
           /\ IncludeDepth(u.events, p + 1) = IncludeDepth(u.events, p) - 1
           /\ u.events[u.inside[p]].path # NoLocation =>
                 (u.events[p + 1].valid <=> u.events[u.inside[p]].path # LineMarker)
           /\ u.inside[p] # MainFileId
<1>1. Len(u.events) \in Nat /\ p \in Nat /\ p \in 1 .. Len(u.events) /\ p + 1 \in DOMAIN u.events /\ (p + 1) - 1 = p
  BY UnitSize
<1>2. u.inside[p] = LastOpened(OpenAt(u.events, p))
  BY <1>1, UnitSize DEF IsUnit, Innermost
<1>3. /\ IncludeDepth(u.events, p) >= 2
      /\ u.events[u.inside[p]].path # NoLocation =>
            (u.events[p + 1].valid <=> u.events[u.inside[p]].path # LineMarker)
  <2>1. /\ IncludeDepth(u.events, (p + 1) - 1) >= 2
        /\ LET path == u.events[LastOpened(OpenAt(u.events, (p + 1) - 1))].path
           IN  path # NoLocation => (u.events[p + 1].valid <=> path # LineMarker)
    BY <1>1 DEF IsUnit, IsNested
  <2> QED BY <1>1, <1>2, <2>1
<1>4. IncludeDepth(u.events, p + 1) = IncludeDepth(u.events, p) - 1
  BY <1>1, DepthStep
<1>5. IncludeDepth(u.events, 1) = 1
  <2>1. u.events[0 + 1].ev = "Enter"
    BY DEF IsUnit, IsNested
  <2>2. IncludeDepth(u.events, 0 + 1) = IncludeDepth(u.events, 0) + 1 /\ IncludeDepth(u.events, 0) = 0
    BY <2>1, DepthStep
  <2> QED BY <2>2
<1>6. IncludeDepth(u.events, u.inside[p]) = IncludeDepth(u.events, p)
  BY <1>1, InsideIs
<1> QED BY <1>3, <1>4, <1>5, <1>6 DEF MainFileId

(***************************************************************************)
(* The files that are included at a level, and those left so far.          *)
(***************************************************************************)

(* Enter event k is that of a file with a location.                        *)
EntersFile(u, k) ==
    u.events[k].ev = "Enter" /\ u.events[k].path \notin {NoLocation, LineMarker}

(* They are finitely many numbers.                                         *)
LEMMA IncludedFinite ==
    ASSUME NEW u, IsUnit(u), NEW j \in Nat, NEW p \in Nat
    PROVE  /\ Included(u, j) \subseteq (j + 1) .. Len(u.events) /\ Included(u, j) \subseteq Nat
           /\ IsFiniteSet(Included(u, j)) /\ Cardinality(Included(u, j)) \in Nat
           /\ Left(u, j, p) \subseteq Nat
           /\ IsFiniteSet(Left(u, j, p)) /\ Cardinality(Left(u, j, p)) \in Nat
<1>1. Len(u.events) \in Nat
  BY UnitSize
<1>2. Included(u, j) \subseteq (j + 1) .. Len(u.events)
  BY DEF Included
<1>3. Included(u, j) \subseteq Nat /\ (j + 1) .. Len(u.events) \subseteq Nat
  BY <1>1, <1>2
<1>4. IsFiniteSet((j + 1) .. Len(u.events))
  BY <1>1, FS_Interval
<1>5. Left(u, j, p) \subseteq Included(u, j)
  BY DEF Left
<1> QED BY <1>2, <1>3, <1>4, <1>5, FS_Subset, FS_CardinalityType

(* Nothing is left before it is entered.                                   *)
LEMMA LeftNone ==
    ASSUME NEW u, IsUnit(u), NEW j \in Nat
    PROVE  Left(u, j, j) = {}
<1> SUFFICES ASSUME NEW k \in Left(u, j, j) PROVE FALSE
  OBVIOUS
<1>1. k \in (j + 1) .. Len(u.events) /\ Len(u.events) \in Nat
  BY UnitSize, IncludedFinite DEF Left
<1>2. PICK l \in (k + 1) .. j : TRUE
  BY DEF Left
<1> QED BY <1>1, <1>2

(* At the end of the unit all have been left.                              *)
LEMMA LeftAtEnd ==
    ASSUME NEW u, IsUnit(u), NEW j \in Nat
    PROVE  Left(u, j, Len(u.events)) = Included(u, j)
BY DEF Left, Included

(* An event that leaves nothing.                                           *)
LEMMA LeftSame ==
    ASSUME NEW u, IsUnit(u), NEW j \in Nat, NEW p \in Nat,
           u.events[p + 1].ev = "Exit" => u.inside[p] \notin Included(u, j)
    PROVE  Left(u, j, p + 1) = Left(u, j, p)
<1>1. Included(u, j) \subseteq Nat
  BY IncludedFinite
<1>2. ASSUME NEW k \in Included(u, j)
      PROVE  k \in Left(u, j, p + 1) <=> k \in Left(u, j, p)
  <2>1. k \in Nat
    BY <1>1
  <2>2. ASSUME NEW l \in (k + 1) .. (p + 1), u.events[l].ev = "Exit", u.inside[l - 1] = k
        PROVE  l \in (k + 1) .. p
    <3>1. CASE l = p + 1
      <4>1. (p + 1) - 1 = p
        OBVIOUS
      <4> QED BY <2>2, <3>1, <4>1
    <3> QED BY <2>1, <3>1
  <2>3. \A l \in (k + 1) .. p : l \in (k + 1) .. (p + 1)
    BY <2>1
  <2> QED BY <2>2, <2>3 DEF Left
<1>3. Left(u, j, p + 1) \subseteq Included(u, j) /\ Left(u, j, p) \subseteq Included(u, j)
  BY DEF Left
<1> QED BY <1>2, <1>3

(* An event that leaves k.                                                 *)
LEMMA LeftOneMore ==
    ASSUME NEW u, IsUnit(u), NEW j \in Nat, NEW p \in 1 .. (Len(u.events) - 1),
           u.events[p + 1].ev = "Exit", u.inside[p] \in Included(u, j)
    PROVE  Left(u, j, p + 1) = Left(u, j, p) \cup {u.inside[p]}
<1> DEFINE k == u.inside[p]
<1>1. Len(u.events) \in Nat /\ p \in Nat /\ p \in 1 .. Len(u.events) /\ (p + 1) - 1 = p
  BY UnitSize
<1>2. k \in 1 .. p /\ Included(u, j) \subseteq Nat
  BY <1>1, InsideIs, IncludedFinite
<1>3. k \in Left(u, j, p + 1)
  <2>1. p + 1 \in (k + 1) .. (p + 1)
    BY <1>1, <1>2
  <2> QED BY <1>1, <2>1 DEF Left
<1> HIDE DEF k
<1>4. ASSUME NEW i \in Included(u, j), i # k
      PROVE  i \in Left(u, j, p + 1) <=> i \in Left(u, j, p)
  <2>1. i \in Nat
    BY <1>2
  <2>2. ASSUME NEW l \in (i + 1) .. (p + 1), u.inside[l - 1] = i PROVE l \in (i + 1) .. p
    <3>1. l # p + 1
      BY <1>1, <1>4, <2>2 DEF k
    <3> QED BY <1>1, <2>1, <3>1
  <2>3. \A l \in (i + 1) .. p : l \in (i + 1) .. (p + 1)
    BY <1>1, <2>1
  <2> QED BY <2>2, <2>3 DEF Left
<1>5. Left(u, j, p + 1) \subseteq Included(u, j) /\ Left(u, j, p) \subseteq Included(u, j)
  BY DEF Left
<1> QED BY <1>3, <1>4, <1>5 DEF k

(* The file that is left at p + 1 is included at the level just below it,  *)
(* and at no other.                                                        *)
LEMMA IncludedAt ==
    ASSUME NEW u, IsUnit(u), NEW p \in 1 .. (Len(u.events) - 1), u.events[p + 1].ev = "Exit",
           NEW j \in OpenAt(u.events, p)
    PROVE  u.inside[p] \in Included(u, j) <=>
              /\ EntersFile(u, u.inside[p])
              /\ IncludeDepth(u.events, j) = IncludeDepth(u.events, p) - 1
<1> DEFINE k == u.inside[p]
           D(n) == IncludeDepth(u.events, n)
<1>1. Len(u.events) \in Nat /\ p \in Nat /\ p \in 1 .. Len(u.events) /\ (p + 1) - 1 = p
      /\ p + 1 \in 1 .. Len(u.events)
  BY UnitSize
<1>2. /\ k \in OpenAt(u.events, p) /\ k \in 1 .. p /\ u.events[k].ev = "Enter" /\ D(k) = D(p)
      /\ D(p) \in Nat
  BY <1>1, InsideIs
<1>3. D(p) >= 2 /\ k # MainFileId
  BY ExitOf
<1>4. k - 1 \in 1 .. Len(u.events) /\ k - 1 \in Nat /\ (k - 1) + 1 = k
  BY <1>1, <1>2, <1>3 DEF MainFileId
<1>5. D(k - 1) \in Int /\ D(k) = D(k - 1) + 1
  BY <1>2, <1>4, DepthStep
<1>6. /\ u.inside[k - 1] \in 1 .. (k - 1) /\ D(u.inside[k - 1]) = D(k - 1)
      /\ \A i \in OpenAt(u.events, k - 1) : D(i) = D(k - 1) => i = u.inside[k - 1]
  <2>1. PICK q \in 1 .. Len(u.events) : q = k - 1
    BY <1>4
  <2>2. /\ u.inside[q] \in 1 .. q /\ D(u.inside[q]) = D(q)
        /\ \A i \in OpenAt(u.events, q) : D(i) = D(q) => i = u.inside[q]
    BY InsideIs
  <2> QED BY <2>1, <2>2
<1>7. j \in 1 .. p /\ D(j) \in Int /\ (k < j => D(k) < D(j)) /\ D(j) <= D(p)
  BY <1>1, <1>2, OpenOrder
<1> HIDE DEF k
<1>8. CASE D(j) = D(p) - 1
  <2>1. j # k /\ ~ (k < j)
    BY <1>2, <1>7, <1>8
  <2>2. (k - 1) \in j .. p
    BY <1>1, <1>2, <1>7, <2>1
  <2>3. j \in OpenAt(u.events, k - 1)
    BY <1>1, <2>2, OpenBefore
  <2>4. u.inside[k - 1] = j
    <3>1. D(j) = D(k - 1)
      <4>1. PICK c \in Int, d \in Int : c = D(k - 1) /\ d = D(p)
        BY <1>2, <1>5
      <4>2. d = c + 1 /\ D(j) = d - 1
        BY <1>2, <1>5, <1>8, <4>1
      <4> QED BY <4>1, <4>2
    <3> QED BY <1>6, <2>3, <3>1
  <2>5. k \in (j + 1) .. Len(u.events) /\ p + 1 \in (k + 1) .. Len(u.events)
    BY <1>1, <1>2, <1>7, <2>2
  <2>6. EntersFile(u, k) => k \in Included(u, j)
    BY <1>1, <2>4, <2>5 DEF Included, EntersFile, k
  <2>7. k \in Included(u, j) => EntersFile(u, k)
    BY DEF Included, EntersFile
  <2> QED BY <1>8, <2>6, <2>7 DEF k
<1>9. CASE D(j) # D(p) - 1
  <2>1. u.inside[k - 1] # j
    BY <1>2, <1>5, <1>6, <1>9
  <2> QED BY <1>9, <2>1 DEF Included, k
<1> QED BY <1>8, <1>9

(* The files that were left at its level before k were entered before k.   *)
LEMMA LeftEarlier ==
    ASSUME NEW u, IsUnit(u), NEW p \in 1 .. (Len(u.events) - 1), NEW j \in OpenAt(u.events, p),
           u.inside[p] \in Included(u, j), NEW i \in Left(u, j, p)
    PROVE  i < u.inside[p]
<1> DEFINE k == u.inside[p]
           D(n) == IncludeDepth(u.events, n)
<1>1. Len(u.events) \in Nat /\ p \in Nat /\ p \in 1 .. Len(u.events)
  BY UnitSize
<1>2. k \in OpenAt(u.events, p) /\ k \in 1 .. p /\ j \in Nat
  BY <1>1, InsideIs, OpenOrder
<1>3. /\ i \in (j + 1) .. Len(u.events) /\ u.inside[i - 1] = j
      /\ k \in (j + 1) .. Len(u.events) /\ u.inside[k - 1] = j
  BY DEF Left, Included
<1>4. PICK l \in (i + 1) .. p : u.events[l].ev = "Exit" /\ u.inside[l - 1] = i
  BY DEF Left
<1>5. l - 1 \in 1 .. Len(u.events) /\ l - 1 \in Nat /\ (l - 1) + 1 = l /\ i \in Nat /\ i <= p
  <2>1. i \in Nat /\ i >= 1
    BY <1>1, <1>2, <1>3
  <2>2. l \in Nat /\ i + 1 <= l /\ l <= p
    BY <1>1, <2>1
  <2> HIDE DEF k
  <2> QED BY <1>1, <2>1, <2>2
<1>6. D(i) = D(l - 1) /\ D(l) = D(l - 1) - 1 /\ D(l - 1) \in Int
  <2>1. D(i) = D(l - 1)
    BY <1>4, <1>5, InsideIs
  <2>2. D((l - 1) + 1) = D(l - 1) - 1 /\ D(l - 1) \in Int
    <3>1. u.events[(l - 1) + 1].ev = "Exit"
      BY <1>4, <1>5
    <3> QED BY <1>5, <3>1, DepthStep
  <2> QED BY <1>5, <2>1, <2>2
<1>7. i # k
  <2>1. \A m \in k .. p : D(m) >= D(k)
    BY <1>2 DEF OpenAt
  <2>2. ASSUME i = k PROVE FALSE
    <3>1. D(l) >= D(i)
      BY <1>3, <1>4, <1>5, <2>1, <2>2
    <3> QED BY <1>6, <3>1
  <2> QED BY <2>2
<1>8. ~ (k < i)
  <2> SUFFICES ASSUME k < i PROVE FALSE
    OBVIOUS
  <2>1. i - 1 \in k .. p /\ i - 1 \in 1 .. Len(u.events)
    BY <1>1, <1>2, <1>5
  <2>2. k \in OpenAt(u.events, i - 1)
    BY <1>1, <1>2, <2>1, OpenBefore
  <2>3. k <= u.inside[i - 1]
    BY <2>1, <2>2, InsideIs
  <2> QED BY <1>2, <1>3, <2>3
<1>9. k \in Nat /\ i \in Nat
  BY <1>2, <1>5
<1> HIDE DEF k
<1> QED BY <1>7, <1>8, <1>9 DEF k

(* Whatever is included in a file has been left before the file is.        *)
LEMMA LeftAll ==
    ASSUME NEW u, IsUnit(u), NEW p \in 1 .. (Len(u.events) - 1), u.events[p + 1].ev = "Exit"
    PROVE  Left(u, u.inside[p], p) = Included(u, u.inside[p])
<1> DEFINE k == u.inside[p]
           D(n) == IncludeDepth(u.events, n)
<1>1. Len(u.events) \in Nat /\ p \in Nat /\ p \in 1 .. Len(u.events) /\ p + 1 \in Nat
  BY UnitSize
<1>2. k \in 1 .. p /\ D(k) = D(p) /\ D(p) \in Nat /\ D(p + 1) = D(p) - 1
  BY <1>1, InsideIs, ExitOf
<1> SUFFICES ASSUME NEW i \in Included(u, k) PROVE i \in Left(u, k, p)
  BY DEF Left
<1>3. /\ i \in (k + 1) .. Len(u.events) /\ u.events[i].ev = "Enter" /\ u.inside[i - 1] = k
  BY DEF Included
<1>4. PICK l \in (i + 1) .. Len(u.events) : u.events[l].ev = "Exit" /\ u.inside[l - 1] = i
  BY DEF Included
<1> HIDE DEF k
<1>5. /\ i - 1 \in 1 .. Len(u.events) /\ i - 1 \in Nat /\ (i - 1) + 1 = i /\ i \in Nat
      /\ l - 1 \in 1 .. Len(u.events) /\ l - 1 \in Nat
  BY <1>1, <1>2, <1>3, <1>4
<1>6. D(i) = D(k) + 1
  <2>1. D(i - 1) = D(k)
    BY <1>3, <1>5, InsideIs
  <2>2. D((i - 1) + 1) = D(i - 1) + 1
    <3>1. u.events[(i - 1) + 1].ev = "Enter"
      BY <1>3, <1>5
    <3> QED BY <1>5, <3>1, DepthStep
  <2> QED BY <1>5, <2>1, <2>2
<1>7. i <= p
  <2> SUFFICES ASSUME p + 1 <= i - 1 PROVE FALSE
    <3>1. i # p + 1
      BY <1>3
    <3> QED BY <1>1, <1>5, <3>1
  <2>1. k \in OpenAt(u.events, i - 1)
    BY <1>3, <1>5, InsideIs
  <2>2. p + 1 \in k .. (i - 1)
    BY <1>1, <1>2, <1>5
  <2>3. D(p + 1) >= D(k)
    BY <2>1, <2>2 DEF OpenAt
  <2> QED BY <1>2, <2>3
<1>8. l <= p
  <2> SUFFICES ASSUME p < l PROVE FALSE
    BY <1>1, <1>4, <1>5
  <2>1. CASE l = p + 1
    <3>1. l - 1 = p
      BY <1>1, <2>1
    <3> QED BY <1>2, <1>3, <1>4, <3>1 DEF k
  <2>2. CASE p + 1 <= l - 1
    <3>1. i \in OpenAt(u.events, l - 1)
      BY <1>4, <1>5, InsideIs
    <3>2. p + 1 \in i .. (l - 1)
      BY <1>1, <1>5, <1>7, <2>2
    <3>3. D(p + 1) >= D(i)
      BY <3>1, <3>2 DEF OpenAt
    <3> QED BY <1>2, <1>6, <3>3
  <2> QED BY <1>1, <1>5, <2>1, <2>2
<1>9. l \in (i + 1) .. p
  BY <1>1, <1>4, <1>5, <1>8
<1> QED BY <1>4, <1>9 DEF Left

(***************************************************************************)
(* Trees and hashes.                                                       *)
(***************************************************************************)

(* The n-th file that is included is one of them.                          *)
LEMMA NthIncluded ==
    ASSUME NEW u, IsUnit(u), NEW f \in Nat, NEW n \in 1 .. Cardinality(Included(u, f))
    PROVE  Nth(Included(u, f), n) \in (f + 1) .. Len(u.events)
<1>1. /\ Included(u, f) \subseteq Nat /\ IsFiniteSet(Included(u, f))
      /\ Included(u, f) \subseteq (f + 1) .. Len(u.events)
  BY IncludedFinite
<1>2. Nth(Included(u, f), n) \in Included(u, f)
  BY <1>1, NthExists
<1> QED BY <1>1, <1>2

(* The tree of a file has the trees of the files that it includes: the     *)
(* recursion ends, because they are entered later.                         *)
LEMMA TreeSteps ==
    ASSUME NEW u, IsUnit(u), NEW f \in 1 .. Len(u.events)
    PROVE  IncludeTrees(u)[f] = TreesOf(u, Included(u, f))
<1> DEFINE N == Len(u.events)
           Step(g, i) == [n \in 1 .. Cardinality(Included(u, i)) |-> g[Nth(Included(u, i), n)]]
           From(m) == ((N - m) + 1) .. N
           Fix(g, m) == g = [i \in From(m) |-> Step(g, i)]
           S == {m \in 0 .. N : \E g : Fix(g, m)}
<1>1. N \in Nat /\ DOMAIN u.events = 1 .. N
  BY UnitSize
<1>2. ASSUME NEW g, NEW h, NEW i \in 1 .. N, \A k \in (i + 1) .. N : g[k] = h[k]
      PROVE  Step(g, i) = Step(h, i)
  <2>1. ASSUME NEW n \in 1 .. Cardinality(Included(u, i))
        PROVE  g[Nth(Included(u, i), n)] = h[Nth(Included(u, i), n)]
    <3>1. Nth(Included(u, i), n) \in (i + 1) .. N
      BY <1>1, NthIncluded
    <3> HIDE DEF N
    <3> QED BY <1>2, <3>1
  <2> QED BY <2>1
<1>3. IncludeTrees(u) = CHOOSE g : g = [i \in DOMAIN u.events |-> Step(g, i)]
  BY Zenon DEF IncludeTrees
<1> HIDE DEF N, Step
<1>4. 0 \in S
  <2>1. From(0) = {}
    BY <1>1
  <2>2. Fix([i \in From(0) |-> 0], 0)
    BY <2>1
  <2>3. \E g : Fix(g, 0)
    BY <2>2, Zenon
  <2> HIDE DEF Fix
  <2> QED BY <1>1, <2>3
<1>5. ASSUME NEW m \in 0 .. (N - 1), m \in S PROVE m + 1 \in S
  <2>1. PICK g : Fix(g, m)
    BY <1>5
  <2> DEFINE a == N - m
             h == [i \in From(m + 1) |-> IF i = a THEN Step(g, a) ELSE g[i]]
  <2>2. /\ a \in 1 .. N /\ From(m + 1) = a .. N /\ From(m) = (a + 1) .. N
    BY <1>1
  <2>3. ASSUME NEW i \in From(m + 1) PROVE h[i] = Step(h, i)
    <3>1. i \in 1 .. N /\ \A k \in (i + 1) .. N : k \in From(m + 1) /\ k # a
      BY <1>1, <2>2
    <3>2. \A k \in (i + 1) .. N : g[k] = h[k]
      BY <3>1
    <3>3. Step(g, i) = Step(h, i)
      BY <1>2, <3>1, <3>2
    <3>4. CASE i = a
      BY <3>3, <3>4
    <3>5. CASE i # a
      <4>1. i \in From(m)
        BY <1>1, <2>2, <3>5
      <4>2. g[i] = Step(g, i)
        BY <2>1, <4>1
      <4> QED BY <3>3, <3>5, <4>2
    <3> QED BY <3>4, <3>5
  <2>4. Fix(h, m + 1)
    BY <2>3
  <2>5. \E g1 : Fix(g1, m + 1)
    BY <2>4, Zenon
  <2>6. m + 1 \in 0 .. N
    BY <1>1
  <2> HIDE DEF Fix, h
  <2> QED BY <2>5, <2>6
<1>6. \E g : Fix(g, N)
  <2>1. \A i \in 0 .. N : i \in S
    <3> HIDE DEF S
    <3> QED BY <1>1, <1>4, <1>5, UpTo
  <2> HIDE DEF Fix
  <2> QED BY <1>1, <2>1
<1>7. From(N) = DOMAIN u.events
  BY <1>1
<1> DEFINE t == IncludeTrees(u)
<1>8. t = [i \in DOMAIN u.events |-> Step(t, i)]
  <2>1. \E g : g = [i \in DOMAIN u.events |-> Step(g, i)]
    BY <1>6, <1>7, Zenon
  <2> HIDE DEF t
  <2> QED BY <1>3, <2>1, Zenon DEF t
<1> HIDE DEF t
<1>9. t[f] = Step(t, f)
  BY <1>1, <1>8 DEF N
<1> QED BY <1>9 DEF t, Step, TreesOf

(* No files have no trees.                                                 *)
LEMMA NoTrees == \A u : TreesOf(u, {}) = <<>>
BY FS_EmptySet DEF TreesOf

(* The tree of one more file, entered after the others.                    *)
LEMMA TreesAppend ==
    ASSUME NEW u, NEW files, files \subseteq Nat, IsFiniteSet(files), NEW k \in Nat,
           \A i \in files : i < k
    PROVE  /\ TreesOf(u, files \cup {k}) = Append(TreesOf(u, files), IncludeTrees(u)[k])
           /\ Len(TreesOf(u, files)) \in Nat
<1> DEFINE T == files \cup {k}
           c == Cardinality(files)
<1>1. k \notin files
  <2>1. ~ (k < k)
    OBVIOUS
  <2> QED BY <2>1
<1>2. IsFiniteSet(T) /\ Cardinality(T) = c + 1 /\ c \in Nat /\ T \subseteq Nat
  BY <1>1, FS_AddElement, FS_CardinalityType
<1>3. Nth(T, c + 1) = k
  <2>1. k \in T /\ \A q \in T : q <= k
    <3>1. \A q \in files : q \in Nat /\ q < k
      OBVIOUS
    <3> QED BY <3>1
  <2> HIDE DEF T
  <2>2. Nth(T, Cardinality(T)) = k
    BY <1>2, <2>1, NthLast
  <2> QED BY <1>2, <2>2
<1>4. ASSUME NEW n \in 1 .. c PROVE Nth(T, n) = Nth(files, n)
  <2>1. Nth(files, n) \in files /\ Cardinality(Below(files, Nth(files, n))) = n - 1
    BY NthExists
  <2>2. PICK q \in files : q = Nth(files, n)
    BY <2>1
  <2>3. Below(T, q) = Below(files, q)
    <3>1. ~ (k < q)
      <4>1. q \in Nat /\ q < k
        BY <2>2
      <4> QED BY <4>1
    <3> QED BY <3>1 DEF Below
  <2>4. n \in 1 .. Cardinality(T) /\ q \in T
    BY <1>2
  <2> HIDE DEF T
  <2>5. Cardinality(Below(T, q)) = n - 1
    BY <2>1, <2>2, <2>3
  <2>6. Nth(T, n) = q
    BY <1>2, <2>4, <2>5, NthIs
  <2> QED BY <2>2, <2>6
<1> DEFINE old == TreesOf(u, files)
           t == IncludeTrees(u)
<1>5. old = [n \in 1 .. c |-> t[Nth(files, n)]]
  BY DEF TreesOf
<1>6. TreesOf(u, T) = [n \in 1 .. (c + 1) |-> t[Nth(T, n)]]
  BY <1>2 DEF TreesOf
<1> HIDE DEF T, c, t, old
<1>7. Len(old) = c /\ DOMAIN old = 1 .. c
  BY <1>2, <1>5
<1>8. [n \in 1 .. (c + 1) |-> t[Nth(T, n)]] = Append(old, t[k])
  <2>1. Append(old, t[k]) = [n \in 1 .. (Len(old) + 1) |-> IF n \in 1 .. Len(old) THEN old[n] ELSE t[k]]
    OBVIOUS
  <2>2. ASSUME NEW n \in 1 .. (c + 1)
        PROVE  t[Nth(T, n)] = IF n \in 1 .. c THEN old[n] ELSE t[k]
    <3>1. CASE n \in 1 .. c
      BY <1>4, <1>5, <3>1
    <3>2. CASE n = c + 1
      BY <1>2, <1>3, <3>2
    <3> QED BY <1>2, <3>1, <3>2
  <2> QED BY <1>7, <2>1, <2>2
<1> QED BY <1>2, <1>6, <1>7, <1>8 DEF T, t, old

(***************************************************************************)
(* The stack.                                                              *)
(***************************************************************************)

(* The stack has what it should have for level i.                          *)
LevelInStep(u, s, p, i) ==
    \E j \in OpenAt(u.events, p) : IncludeDepth(u.events, j) = i /\ s[i] = Builder(u, j, p)

(* The stack level by level.                                               *)
LEMMA InStepIs ==
    ASSUME NEW u, NEW s, NEW p
    PROVE  InStep(u, s, p) <=>
              /\ Len(s) = IncludeDepth(u.events, p) /\ s = [i \in 1 .. Len(s) |-> s[i]]
              /\ \A i \in 1 .. Len(s) : LevelInStep(u, s, p, i)
BY DEF InStep, LevelInStep

(* The level of every event is a number.                                   *)
LEMMA DepthIsNat ==
    ASSUME NEW u, IsUnit(u), NEW p \in 0 .. Len(u.events)
    PROVE  IncludeDepth(u.events, p) \in Nat
<1>1. CASE p = 0
  BY <1>1, DepthStep
<1>2. CASE p \in 1 .. Len(u.events)
  BY <1>2, InsideIs
<1> QED BY <1>1, <1>2, UnitSize

(* The builder on top is that of the innermost.                            *)
LEMMA TopIs ==
    ASSUME NEW u, IsUnit(u), NEW p \in 1 .. Len(u.events), NEW s, InStep(u, s, p)
    PROVE  /\ Len(s) \in Nat \ {0} /\ s # <<>>
           /\ s[Len(s)] = Builder(u, u.inside[p], p)
<1>1. /\ Len(s) = IncludeDepth(u.events, p) /\ Len(s) \in Nat \ {0}
      /\ LevelInStep(u, s, p, Len(s))
  BY InStepIs, InsideIs
<1>2. PICK j \in OpenAt(u.events, p) :
         IncludeDepth(u.events, j) = Len(s) /\ s[Len(s)] = Builder(u, j, p)
  BY <1>1 DEF LevelInStep
<1>3. j = u.inside[p]
  <2>1. IncludeDepth(u.events, j) = IncludeDepth(u.events, p)
    BY <1>1, <1>2
  <2> QED BY <2>1, InsideIs
<1>4. s # <<>>
  BY <1>1
<1> QED BY <1>1, <1>2, <1>3, <1>4

(* A level that the next event does not touch.                             *)
LEMMA LevelKept ==
    ASSUME NEW u, IsUnit(u), NEW p \in 0 .. (Len(u.events) - 1), NEW s, NEW t, NEW i \in Nat,
           LevelInStep(u, s, p, i), t[i] = s[i], i <= IncludeDepth(u.events, p + 1),
           u.events[p + 1].ev = "Exit" =>
              ~ EntersFile(u, u.inside[p]) \/ i # IncludeDepth(u.events, p) - 1
    PROVE  LevelInStep(u, t, p + 1, i)
<1>1. Len(u.events) \in Nat /\ p \in Nat /\ p + 1 \in 1 .. Len(u.events)
  BY UnitSize
<1>2. PICK j \in OpenAt(u.events, p) : IncludeDepth(u.events, j) = i /\ s[i] = Builder(u, j, p)
  BY DEF LevelInStep
<1>3. j \in OpenAt(u.events, p + 1) /\ j \in 1 .. p /\ j \in Nat
  <2>1. j \in 1 .. p
    BY DEF OpenAt
  <2> QED BY <1>1, <1>2, <2>1, OpenAfterStep
<1>4. u.events[p + 1].ev = "Exit" => u.inside[p] \notin Included(u, j)
  <2>1. p \in 1 .. (Len(u.events) - 1)
    BY <1>1, <1>3
  <2> QED BY <1>2, <2>1, IncludedAt
<1>5. Left(u, j, p + 1) = Left(u, j, p)
  BY <1>1, <1>3, <1>4, LeftSame
<1>6. Builder(u, j, p + 1) = Builder(u, j, p)
  BY <1>5 DEF Builder
<1> QED BY <1>2, <1>3, <1>6 DEF LevelInStep

(* EnterFile: a new builder.                                               *)
LEMMA EnterKeeps ==
    ASSUME NEW u, IsUnit(u), NEW p \in 0 .. (Len(u.events) - 1), NEW s, InStep(u, s, p),
           u.events[p + 1].ev = "Enter"
    PROVE  InStep(u, Append(s, [fileId |-> u.file[p + 1], hash |-> <<>>]), p + 1)
<1> DEFINE b == [fileId |-> u.file[p + 1], hash |-> <<>>]
           t == Append(s, b)
           D(n) == IncludeDepth(u.events, n)
<1>1. Len(u.events) \in Nat /\ p \in Nat /\ p + 1 \in 1 .. Len(u.events) /\ p \in 0 .. Len(u.events)
  BY UnitSize
<1>2. /\ Len(s) = D(p) /\ s = [i \in 1 .. Len(s) |-> s[i]] /\ Len(s) \in Nat
      /\ \A i \in 1 .. Len(s) : LevelInStep(u, s, p, i)
  BY <1>1, InStepIs, DepthIsNat
<1>3. D(p + 1) = D(p) + 1
  BY <1>1, DepthStep
<1>4. b = Builder(u, p + 1, p + 1)
  <2>1. Left(u, p + 1, p + 1) = {}
    BY <1>1, LeftNone
  <2>2. TreesOf(u, Left(u, p + 1, p + 1)) = <<>>
    BY <2>1, NoTrees
  <2> QED BY <2>2 DEF Builder
<1>5. /\ Len(t) = Len(s) + 1 /\ t = [i \in 1 .. Len(t) |-> t[i]]
      /\ t[Len(s) + 1] = b /\ \A i \in 1 .. Len(s) : t[i] = s[i]
  <2>1. t = [i \in 1 .. (Len(s) + 1) |-> IF i \in 1 .. Len(s) THEN s[i] ELSE b]
    OBVIOUS
  <2> HIDE DEF t, b
  <2>2. Len(t) = Len(s) + 1
    BY <1>2, <2>1
  <2> QED BY <1>2, <2>1, <2>2
<1> HIDE DEF t, b
<1>6. ASSUME NEW i \in 1 .. Len(t) PROVE LevelInStep(u, t, p + 1, i)
  <2>1. CASE i \in 1 .. Len(s)
    <3>1. LevelInStep(u, s, p, i) /\ t[i] = s[i] /\ i \in Nat /\ i <= D(p + 1)
      BY <1>2, <1>3, <1>5, <2>1
    <3> QED BY <1>1, <3>1, LevelKept
  <2>2. CASE i = Len(s) + 1
    <3>1. p + 1 \in OpenAt(u.events, p + 1)
      BY <1>1, OpenWhenEntered
    <3>2. D(p + 1) = i /\ t[i] = Builder(u, p + 1, p + 1)
      BY <1>2, <1>3, <1>4, <1>5, <2>2
    <3> QED BY <3>1, <3>2 DEF LevelInStep
  <2> QED BY <1>2, <1>5, <2>1, <2>2
<1>7. Len(t) = D(p + 1)
  BY <1>2, <1>3, <1>5
<1>8. InStep(u, t, p + 1)
  BY <1>5, <1>6, <1>7, InStepIs
<1> QED BY <1>8 DEF t, b

(* Callbacks that neither enter nor leave.                                 *)
LEMMA OtherKeeps ==
    ASSUME NEW u, IsUnit(u), NEW p \in 0 .. (Len(u.events) - 1), NEW s, InStep(u, s, p),
           u.events[p + 1].ev \notin {"Enter", "Exit"}
    PROVE  InStep(u, s, p + 1)
<1> DEFINE D(n) == IncludeDepth(u.events, n)
<1>1. p \in Nat /\ p \in 0 .. Len(u.events)
  BY UnitSize
<1>2. /\ Len(s) = D(p) /\ s = [i \in 1 .. Len(s) |-> s[i]] /\ Len(s) \in Nat
      /\ \A i \in 1 .. Len(s) : LevelInStep(u, s, p, i)
  BY <1>1, InStepIs, DepthIsNat
<1>3. D(p + 1) = D(p)
  BY <1>1, DepthStep
<1>4. ASSUME NEW i \in 1 .. Len(s) PROVE LevelInStep(u, s, p + 1, i)
  <2>1. LevelInStep(u, s, p, i) /\ i \in Nat /\ i <= D(p + 1)
    BY <1>2, <1>3
  <2> QED BY <1>1, <2>1, LevelKept
<1> QED BY <1>2, <1>3, <1>4, InStepIs

(* What is left of the stack without its top.                              *)
LEMMA Popped ==
    ASSUME NEW s, Len(s) \in Nat \ {0}
    PROVE  /\ Len(SubSeq(s, 1, Len(s) - 1)) = Len(s) - 1
           /\ SubSeq(s, 1, Len(s) - 1) = [i \in 1 .. (Len(s) - 1) |-> s[i]]
<1>1. SubSeq(s, 1, Len(s) - 1) = [i \in 1 .. (Len(s) - 1) |-> s[i]]
  OBVIOUS
<1>2. PICK n \in Nat : n = Len(s) - 1
  OBVIOUS
<1>3. PICK r : r = SubSeq(s, 1, Len(s) - 1)
  OBVIOUS
<1>4. r = [i \in 1 .. n |-> s[i]]
  BY <1>1, <1>2, <1>3
<1>5. Len(r) = n
  BY ONLY <1>4, n \in Nat
<1> QED BY <1>1, <1>2, <1>3, <1>5

(* ExitFile for a line marker or a buffer without location: the builder is *)
(* dropped with what was mixed into it.                                    *)
LEMMA DropKeeps ==
    ASSUME NEW u, IsUnit(u), NEW p \in 1 .. (Len(u.events) - 1), NEW s, InStep(u, s, p),
           u.events[p + 1].ev = "Exit", ~ EntersFile(u, u.inside[p])
    PROVE  InStep(u, SubSeq(s, 1, Len(s) - 1), p + 1)
<1> DEFINE t == SubSeq(s, 1, Len(s) - 1)
           D(n) == IncludeDepth(u.events, n)
<1>1. p \in Nat /\ p \in 1 .. Len(u.events) /\ p \in 0 .. (Len(u.events) - 1)
  BY UnitSize
<1>2. /\ Len(s) = D(p) /\ Len(s) \in Nat \ {0} /\ \A i \in 1 .. Len(s) : LevelInStep(u, s, p, i)
  BY <1>1, InStepIs, TopIs
<1>3. D(p + 1) = D(p) - 1
  BY ExitOf
<1>4. Len(t) = Len(s) - 1 /\ t = [i \in 1 .. (Len(s) - 1) |-> s[i]]
  BY <1>2, Popped
<1> HIDE DEF t
<1>5. ASSUME NEW i \in 1 .. Len(t) PROVE LevelInStep(u, t, p + 1, i)
  <2>1. LevelInStep(u, s, p, i) /\ t[i] = s[i] /\ i \in Nat /\ i <= D(p + 1)
    BY <1>2, <1>3, <1>4
  <2> QED BY <1>1, <2>1, LevelKept
<1>6. Len(t) = D(p + 1) /\ t = [i \in 1 .. Len(t) |-> t[i]]
  BY <1>2, <1>3, <1>4
<1>7. InStep(u, t, p + 1)
  BY <1>5, <1>6, InStepIs
<1> QED BY <1>7 DEF t

(* The tree of k becomes part of the hash that is now on top.              *)
LEMMA MixedLevel ==
    ASSUME NEW u, IsUnit(u), NEW p \in 1 .. (Len(u.events) - 1), u.events[p + 1].ev = "Exit",
           EntersFile(u, u.inside[p]), NEW j \in OpenAt(u.events, p),
           IncludeDepth(u.events, j) = IncludeDepth(u.events, p) - 1
    PROVE  /\ j \in OpenAt(u.events, p + 1)
           /\ IF u.file[j] = InvalidFileId THEN Builder(u, j, p + 1) = Builder(u, j, p)
              ELSE Builder(u, j, p + 1) =
                      [fileId |-> u.file[j],
                       hash   |-> Append(Builder(u, j, p).hash, IncludeTrees(u)[u.inside[p]])]
<1> DEFINE k == u.inside[p]
<1>1. p \in Nat /\ p \in 1 .. Len(u.events) /\ j \in Nat
  BY UnitSize DEF OpenAt
<1>2. k \in Included(u, j)
  BY IncludedAt
<1>3. Left(u, j, p + 1) = Left(u, j, p) \cup {k}
  BY <1>1, <1>2, LeftOneMore
<1>4. \A i \in Left(u, j, p) : i < k
  BY <1>2, LeftEarlier
<1>5. k \in Nat /\ Left(u, j, p) \subseteq Nat /\ IsFiniteSet(Left(u, j, p))
  BY <1>1, <1>2, IncludedFinite
<1> HIDE DEF k
<1>6. TreesOf(u, Left(u, j, p + 1)) = Append(TreesOf(u, Left(u, j, p)), IncludeTrees(u)[k])
  BY <1>3, <1>4, <1>5, TreesAppend
<1>7. j \in OpenAt(u.events, p + 1)
  <2>1. IncludeDepth(u.events, p + 1) = IncludeDepth(u.events, p) - 1
    BY ExitOf
  <2>2. IncludeDepth(u.events, j) \in Int
    BY <1>1, DepthStep
  <2> QED BY <1>1, <2>1, <2>2, OpenAfterStep
<1> QED BY <1>6, <1>7 DEF Builder, k

(* A value mixed into the hash of a builder.                               *)
LEMMA MixedBuilder ==
    ASSUME NEW b, NEW f, NEW h, NEW x, b = [fileId |-> f, hash |-> h]
    PROVE  [b EXCEPT !.hash = Append(@, x)] = [fileId |-> f, hash |-> Append(h, x)]
OBVIOUS

(* ExitFile for a file: its hash is mixed into the one below it.           *)
LEMMA MixKeeps ==
    ASSUME NEW u, IsUnit(u), NEW p \in 1 .. (Len(u.events) - 1), NEW s, InStep(u, s, p),
           u.events[p + 1].ev = "Exit", EntersFile(u, u.inside[p])
    PROVE  InStep(u, Mix(SubSeq(s, 1, Len(s) - 1), IncludeTrees(u)[u.inside[p]]), p + 1)
<1> DEFINE r == SubSeq(s, 1, Len(s) - 1)
           tree == IncludeTrees(u)[u.inside[p]]
           t == Mix(r, tree)
           D(n) == IncludeDepth(u.events, n)
           top == Len(s) - 1
<1>1. p \in Nat /\ p \in 1 .. Len(u.events) /\ p \in 0 .. (Len(u.events) - 1)
  BY UnitSize
<1>2. /\ Len(s) = D(p) /\ Len(s) \in Nat \ {0} /\ \A i \in 1 .. Len(s) : LevelInStep(u, s, p, i)
  BY <1>1, InStepIs, TopIs
<1>3. D(p + 1) = D(p) - 1 /\ D(p) >= 2
  BY ExitOf
<1>4. Len(r) = top /\ r = [i \in 1 .. top |-> s[i]] /\ top \in Nat \ {0} /\ top \in 1 .. Len(s)
  BY <1>2, <1>3, Popped
<1>5. PICK j \in OpenAt(u.events, p) : D(j) = top /\ s[top] = Builder(u, j, p)
  BY <1>2, <1>4 DEF LevelInStep
<1> HIDE DEF r, tree, top
<1>6. r[top] = s[top] /\ r # <<>>
  <2>1. top \in 1 .. top
    BY <1>4
  <2> QED BY <1>4, <2>1
<1>7. r[top] = [fileId |-> u.file[j], hash |-> Builder(u, j, p).hash] /\ r[top].fileId = u.file[j]
  BY <1>5, <1>6 DEF Builder
<1>8. /\ j \in OpenAt(u.events, p + 1)
      /\ IF u.file[j] = InvalidFileId THEN Builder(u, j, p + 1) = Builder(u, j, p)
         ELSE Builder(u, j, p + 1) =
                 [fileId |-> u.file[j], hash |-> Append(Builder(u, j, p).hash, tree)]
  BY <1>2, <1>5, MixedLevel DEF tree, top
<1>9. /\ Len(t) = top /\ t = [i \in 1 .. top |-> t[i]]
      /\ \A i \in 1 .. top : i # top => t[i] = r[i]
      /\ t[top] = Builder(u, j, p + 1)
  <2>1. CASE u.file[j] = InvalidFileId
    <3>1. t = r
      BY <1>4, <1>7, <2>1 DEF Mix
    <3> HIDE DEF t
    <3> QED BY <1>4, <1>5, <1>6, <1>8, <2>1, <3>1
  <2>2. CASE u.file[j] # InvalidFileId
    <3>1. t = [r EXCEPT ![top].hash = Append(@, tree)]
      BY <1>4, <1>6, <1>7, <2>2 DEF Mix
    <3>2. t = [i \in 1 .. top |-> IF i = top THEN [r[top] EXCEPT !.hash = Append(@, tree)] ELSE r[i]]
      BY <1>4, <3>1
    <3> HIDE DEF t
    <3>3. [r[top] EXCEPT !.hash = Append(@, tree)] =
             [fileId |-> u.file[j], hash |-> Append(Builder(u, j, p).hash, tree)]
      BY <1>7, MixedBuilder
    <3>4. t[top] = Builder(u, j, p + 1)
      <4>1. t[top] = [r[top] EXCEPT !.hash = Append(@, tree)]
        <5>1. top \in 1 .. top
          BY <1>4
        <5> QED BY <3>2, <5>1
      <4> QED BY <1>8, <2>2, <3>3, <4>1
    <3> QED BY <1>4, <3>2, <3>4
  <2> QED BY <2>1, <2>2
<1> HIDE DEF t
<1>10. ASSUME NEW i \in 1 .. Len(t) PROVE LevelInStep(u, t, p + 1, i)
  <2>1. CASE i = top
    BY <1>5, <1>8, <1>9, <2>1 DEF LevelInStep
  <2>2. CASE i # top
    <3>1. LevelInStep(u, s, p, i) /\ t[i] = s[i] /\ i \in Nat /\ i <= D(p + 1) /\ i # D(p) - 1
      BY <1>2, <1>3, <1>4, <1>9, <2>2 DEF top
    <3> QED BY <1>1, <3>1, LevelKept
  <2> QED BY <2>1, <2>2
<1>11. Len(t) = D(p + 1) /\ t = [i \in 1 .. Len(t) |-> t[i]]
  BY <1>2, <1>3, <1>9 DEF top
<1>12. InStep(u, t, p + 1)
  BY <1>10, <1>11, InStepIs
<1> QED BY <1>12 DEF t, r, tree

(***************************************************************************)
(* The callbacks.                                                          *)
(***************************************************************************)

(* The FileID that FileChanged hands to exitFile.                          *)
FileLeft(u, p) == IF u.events[p + 1].valid THEN u.file[p] ELSE InvalidFileId

(* It is valid for the files that have a location, and for them alone.     *)
LEMMA FileLeftIs ==
    ASSUME NEW u, IsUnit(u), NEW p \in 1 .. (Len(u.events) - 1), u.events[p + 1].ev = "Exit"
    PROVE  /\ EntersFile(u, u.inside[p]) => FileLeft(u, p) = u.inside[p]
           /\ ~ EntersFile(u, u.inside[p]) => FileLeft(u, p) = InvalidFileId
           /\ u.inside[p] \in Nat /\ u.inside[p] # InvalidFileId /\ u.inside[p] # MainFileId
<1> DEFINE path == u.events[u.inside[p]].path
<1>1. p \in 1 .. Len(u.events)
  BY UnitSize
<1>2. u.events[u.inside[p]].ev = "Enter" /\ u.inside[p] \in Nat
  BY <1>1, InsideIs
<1>3. path # NoLocation => (u.events[p + 1].valid <=> path # LineMarker)
  BY ExitOf
<1>4. path # LineMarker =>
         u.file[p] = IF path = NoLocation THEN InvalidFileId ELSE u.inside[p]
  BY <1>1, FileOfInnermost
<1>5. u.inside[p] # MainFileId
  BY ExitOf
<1> QED BY <1>2, <1>3, <1>4, <1>5, LineMarkerAssumption, InvalidFileIdAssumption DEF EntersFile, FileLeft

(* The builder on top when a file is left: the hash is the whole tree.     *)
LEMMA TopWhenLeft ==
    ASSUME NEW u, IsUnit(u), NEW p \in 1 .. (Len(u.events) - 1), u.events[p + 1].ev = "Exit",
           EntersFile(u, u.inside[p]), NEW s, InStep(u, s, p)
    PROVE  /\ s # <<>> /\ s[Len(s)].fileId = u.inside[p]
           /\ s[Len(s)].hash = IncludeTrees(u)[u.inside[p]]
<1> DEFINE k == u.inside[p]
<1>1. p \in 1 .. Len(u.events)
  BY UnitSize
<1>2. k \in 1 .. Len(u.events) /\ k \in Nat /\ k # InvalidFileId
  BY <1>1, InsideIs, FileLeftIs
<1>3. u.file[k] = k
  BY <1>2, FileEnteredIs DEF EntersFile
<1>4. s # <<>> /\ s[Len(s)] = Builder(u, k, p)
  BY <1>1, TopIs
<1>5. TreesOf(u, Left(u, k, p)) = IncludeTrees(u)[k]
  BY <1>2, LeftAll, TreeSteps
<1> HIDE DEF k
<1>6. Builder(u, k, p) = [fileId |-> k, hash |-> IncludeTrees(u)[k]]
  BY <1>2, <1>3, <1>5 DEF Builder
<1> QED BY <1>4, <1>6 DEF k

(* The builder on top after the last event.                                *)
LEMMA TopAtEnd ==
    ASSUME NEW u, IsUnit(u), NEW s, InStep(u, s, Len(u.events))
    PROVE  /\ s # <<>> /\ s[Len(s)].fileId = MainFileId
           /\ s[Len(s)].hash = IncludeTrees(u)[u.inside[Len(u.events)]]
<1> DEFINE n == Len(u.events)
           k == u.inside[n]
<1>1. n \in 1 .. Len(u.events) /\ n \in Nat
  BY UnitSize
<1>2. k \in 1 .. Len(u.events) /\ k \in Nat
  BY <1>1, InsideIs
<1>3. u.file[k] = MainFileId /\ MainFileId # InvalidFileId
  BY MainFileAtEnd, InvalidFileIdAssumption DEF MainFileId
<1>4. s # <<>> /\ s[Len(s)] = Builder(u, k, n)
  BY <1>1, TopIs
<1>5. TreesOf(u, Left(u, k, n)) = IncludeTrees(u)[k]
  BY <1>2, LeftAtEnd, TreeSteps
<1> HIDE DEF k, n
<1>6. Builder(u, k, n) = [fileId |-> MainFileId, hash |-> IncludeTrees(u)[k]]
  BY <1>3, <1>5 DEF Builder
<1> QED BY <1>4, <1>6 DEF k, n

(* The hash that a file should have.                                       *)
TreeFor(u, f) == IncludeTrees(u)[IF f = MainFileId THEN u.inside[Len(u.events)] ELSE f]

(* The hash that is added is a tree, and none is replaced.                 *)
LEMMA TreeAdded ==
    ASSUME NEW u, NEW h, NEW f, HashesAreTrees(u, h)
    PROVE  /\ HashesAreTrees(u, InsertNew(h, f, TreeFor(u, f)))
           /\ DOMAIN InsertNew(h, f, TreeFor(u, f)) = DOMAIN h \cup {f}
BY DEF HashesAreTrees, InsertNew, TreeFor

(* The invariant for a unit of work, and its steps.                        *)
UnitInv(u, pos, s, h) ==
    /\ pos \in 1 .. Len(u.events) + 1
    /\ IF MainFileId \in DOMAIN h THEN pos = Len(u.events) + 1 ELSE InStep(u, s, pos - 1)
    /\ HashesAreTrees(u, h)

(* exitFile of the FileID f: stack s becomes t and the hashes h become g.  *)
Leaves(f, s, h, t, g) ==
    IF f = InvalidFileId THEN t = SubSeq(s, 1, Len(s) - 1) /\ g = h
    ELSE /\ g = InsertNew(h, s[Len(s)].fileId, s[Len(s)].hash)
         /\ t = Mix(SubSeq(s, 1, Len(s) - 1), s[Len(s)].hash)

(* enterFile, or no change of the stack.                                   *)
Enters(u, pos, s, t) ==
    t = IF u.events[pos].ev = "Enter" THEN Append(s, [fileId |-> u.file[pos], hash |-> <<>>]) ELSE s

(* A file or a line marker is left.                                        *)
LEMMA ExitKeeps ==
    ASSUME NEW u, IsUnit(u), NEW pos, NEW s, NEW h, UnitInv(u, pos, s, h),
           pos \in DOMAIN u.events, u.events[pos].ev = "Exit",
           NEW t, NEW g, Leaves(FileLeft(u, pos - 1), s, h, t, g)
    PROVE  UnitInv(u, pos + 1, t, g)
<1>1. Len(u.events) \in Nat /\ pos \in 1 .. Len(u.events) /\ u.events[1].ev = "Enter"
  BY UnitSize DEF IsUnit, IsNested
<1>2. PICK p \in 1 .. (Len(u.events) - 1) : pos = p + 1
  <2>1. pos # 1
    BY <1>1
  <2>2. pos - 1 \in 1 .. (Len(u.events) - 1) /\ pos = (pos - 1) + 1
    BY <1>1, <2>1
  <2> QED BY <2>2
<1>3. pos - 1 = p /\ (pos + 1) - 1 = p + 1 /\ pos + 1 \in 1 .. Len(u.events) + 1
  BY <1>1, <1>2
<1>4. MainFileId \notin DOMAIN h /\ InStep(u, s, p) /\ HashesAreTrees(u, h)
  BY <1>1, <1>3 DEF UnitInv
<1>5. u.events[p + 1].ev = "Exit"
  BY <1>2
<1>6. CASE ~ EntersFile(u, u.inside[p])
  <2>1. FileLeft(u, pos - 1) = InvalidFileId
    BY <1>3, <1>5, <1>6, FileLeftIs
  <2>2. t = SubSeq(s, 1, Len(s) - 1) /\ g = h
    BY <2>1 DEF Leaves
  <2>3. InStep(u, t, p + 1)
    BY <1>4, <1>5, <1>6, <2>2, DropKeeps
  <2> QED BY <1>3, <1>4, <2>2, <2>3 DEF UnitInv
<1>7. CASE EntersFile(u, u.inside[p])
  <2>1. FileLeft(u, pos - 1) # InvalidFileId /\ u.inside[p] # MainFileId
    BY <1>3, <1>5, <1>7, FileLeftIs
  <2>2. s[Len(s)].fileId = u.inside[p] /\ s[Len(s)].hash = IncludeTrees(u)[u.inside[p]]
    BY <1>4, <1>5, <1>7, TopWhenLeft
  <2>3. /\ g = InsertNew(h, u.inside[p], IncludeTrees(u)[u.inside[p]])
        /\ t = Mix(SubSeq(s, 1, Len(s) - 1), IncludeTrees(u)[u.inside[p]])
    BY <2>1, <2>2 DEF Leaves
  <2>4. InStep(u, t, p + 1)
    BY <1>4, <1>5, <1>7, <2>3, MixKeeps
  <2>5. HashesAreTrees(u, g) /\ DOMAIN g = DOMAIN h \cup {u.inside[p]}
    <3>1. TreeFor(u, u.inside[p]) = IncludeTrees(u)[u.inside[p]]
      BY <2>1 DEF TreeFor
    <3>2. g = InsertNew(h, u.inside[p], TreeFor(u, u.inside[p]))
      BY <2>3, <3>1
    <3>3. HashesAreTrees(u, h)
      BY <1>4
    <3>4. PICK k : k = u.inside[p]
      OBVIOUS
    <3>5. g = InsertNew(h, k, TreeFor(u, k))
      BY <3>2, <3>4
    <3>6. HashesAreTrees(u, g) /\ DOMAIN g = DOMAIN h \cup {k}
      BY ONLY <3>3, <3>5, TreeAdded
    <3> QED BY <3>4, <3>6
  <2>6. MainFileId \notin DOMAIN g
    BY <1>4, <2>1, <2>5
  <2> QED BY <1>3, <2>4, <2>5, <2>6 DEF UnitInv
<1> QED BY <1>6, <1>7

(* A file is entered, or neither entered nor left.                         *)
LEMMA OthersKeep ==
    ASSUME NEW u, IsUnit(u), NEW pos, NEW s, NEW h, UnitInv(u, pos, s, h),
           pos \in DOMAIN u.events, u.events[pos].ev # "Exit", NEW t, Enters(u, pos, s, t)
    PROVE  UnitInv(u, pos + 1, t, h)
<1>1. Len(u.events) \in Nat /\ pos \in 1 .. Len(u.events)
  BY UnitSize
<1>2. PICK p \in 0 .. (Len(u.events) - 1) : pos = p + 1
  <2>1. pos - 1 \in 0 .. (Len(u.events) - 1) /\ pos = (pos - 1) + 1
    BY <1>1
  <2> QED BY <2>1
<1>3. pos - 1 = p /\ (pos + 1) - 1 = p + 1 /\ pos + 1 \in 1 .. Len(u.events) + 1
  BY <1>1, <1>2
<1>4. MainFileId \notin DOMAIN h /\ InStep(u, s, p) /\ HashesAreTrees(u, h)
  BY <1>1, <1>3 DEF UnitInv
<1>5. InStep(u, t, p + 1)
  <2>1. CASE u.events[pos].ev = "Enter"
    <3>1. t = Append(s, [fileId |-> u.file[p + 1], hash |-> <<>>]) /\ u.events[p + 1].ev = "Enter"
      BY <1>2, <2>1 DEF Enters
    <3> QED BY <1>4, <3>1, EnterKeeps
  <2>2. CASE u.events[pos].ev # "Enter"
    <3>1. t = s /\ u.events[p + 1].ev \notin {"Enter", "Exit"}
      BY <1>2, <2>2 DEF Enters
    <3> QED BY <1>4, <3>1, OtherKeeps
  <2> QED BY <2>1, <2>2
<1> QED BY <1>3, <1>4, <1>5 DEF UnitInv

(* flushState.                                                             *)
LEMMA FlushKeeps ==
    ASSUME NEW u, IsUnit(u), NEW pos, NEW s, NEW h, UnitInv(u, pos, s, h),
           pos > Len(u.events), MainFileId \notin DOMAIN h,
           NEW t, NEW g, Leaves(MainFileId, s, h, t, g)
    PROVE  UnitInv(u, pos, t, g)
<1>1. Len(u.events) \in Nat /\ pos = Len(u.events) + 1 /\ pos - 1 = Len(u.events)
  BY UnitSize DEF UnitInv
<1>2. InStep(u, s, Len(u.events)) /\ HashesAreTrees(u, h)
  BY <1>1 DEF UnitInv
<1>3. g = InsertNew(h, MainFileId, IncludeTrees(u)[u.inside[Len(u.events)]])
  BY <1>2, TopAtEnd, InvalidFileIdAssumption DEF Leaves, MainFileId
<1>4. HashesAreTrees(u, g) /\ DOMAIN g = DOMAIN h \cup {MainFileId}
  <2>1. TreeFor(u, MainFileId) = IncludeTrees(u)[u.inside[Len(u.events)]]
    BY DEF TreeFor
  <2> QED BY <1>2, <1>3, <2>1, TreeAdded
<1> QED BY <1>1, <1>4 DEF UnitInv

(* A unit that has been started is in step, with no file open.             *)
LEMMA StartKeeps ==
    ASSUME NEW u, IsUnit(u), NEW h, DOMAIN h = {}
    PROVE  UnitInv(u, 1, <<>>, h)
<1>1. Len(u.events) \in Nat /\ 1 \in 1 .. Len(u.events) + 1
  BY UnitSize
<1>2. IncludeDepth(u.events, 0) = 0
  BY DepthStep
<1>3. InStep(u, <<>>, 0)
  <2> DEFINE s == <<>>
  <2>1. Len(s) = 0 /\ s = [i \in 1 .. Len(s) |-> s[i]]
    OBVIOUS
  <2> HIDE DEF s
  <2>2. InStep(u, s, 0)
    BY <1>2, <2>1 DEF InStep
  <2> QED BY <2>2 DEF s
<1>4. HashesAreTrees(u, h)
  BY DEF HashesAreTrees
<1> QED BY <1>1, <1>3, <1>4 DEF UnitInv

(* The invariant in the words of the steps above.                          *)
LEMMA InvIs ==
    PreprocessorInv <=>
       \/ unit.events = <<>> /\ position = 1 /\ DOMAIN finishedProcessing = {}
       \/ unit \in Units /\ UnitInv(unit, position, stack, finishedProcessing)
BY DEF PreprocessorInv, UnitInv, Flushed

(* The callbacks leave a unit without events alone.                        *)
LEMMA NoEventNoStep ==
    ASSUME unit.events = <<>> PROVE ~ Preprocess /\ ~ LeaveMainFile
BY DEF Preprocess, LeaveMainFile, FileEntered, FileExited, MacroDefined, MacroUsed,
       InclusionDirective, NotPreprocessed, Event

(* exitFile on the stack.                                                  *)
LEMMA ExitFileLeaves ==
    ASSUME NEW f, exitFile(f)
    PROVE  Leaves(f, stack, finishedProcessing, stack', finishedProcessing')
BY DEF exitFile, Leaves

(* Every callback keeps the invariant.                                     *)
LEMMA PreprocessKeeps ==
    ASSUME unit \in Units, UnitInv(unit, position, stack, finishedProcessing),
           Preprocess, UNCHANGED unit
    PROVE  UnitInv(unit, position, stack, finishedProcessing)'
<1>1. IsUnit(unit)
  BY UnitsAreUnits
<1>2. position' = position + 1 /\ unit' = unit
  BY DEF Preprocess
<1>3. CASE FileExited
  <2>1. /\ position \in DOMAIN unit.events /\ unit.events[position].ev = "Exit"
        /\ exitFile(IF unit.events[position].valid THEN FileIdAt(position - 1) ELSE InvalidFileId)
    BY <1>3 DEF FileExited, Event
  <2>2. (position - 1) + 1 = position
    BY <1>1, <2>1, UnitSize
  <2>3. exitFile(FileLeft(unit, position - 1))
    BY <2>1, <2>2 DEF FileLeft, FileIdAt
  <2>4. Leaves(FileLeft(unit, position - 1), stack, finishedProcessing, stack', finishedProcessing')
    BY <2>3, ExitFileLeaves
  <2>5. UnitInv(unit, position + 1, stack', finishedProcessing')
    BY <1>1, <2>1, <2>4, ExitKeeps
  <2> QED BY <1>2, <2>5 DEF UnitInv
<1>4. CASE ~ FileExited
  <2>1. /\ position \in DOMAIN unit.events /\ unit.events[position].ev # "Exit"
        /\ Enters(unit, position, stack, stack') /\ finishedProcessing' = finishedProcessing
    <3>1. CASE FileEntered
      BY <3>1 DEF FileEntered, Event, enterFile, FileIdAt, Enters
    <3>2. CASE MacroDefined \/ MacroUsed \/ InclusionDirective
      BY <3>2 DEF MacroDefined, MacroUsed, InclusionDirective, Event, Enters
    <3>3. CASE NotPreprocessed
      BY <3>3 DEF NotPreprocessed, Enters
    <3> QED BY <1>4, <3>1, <3>2, <3>3 DEF Preprocess
  <2>2. UnitInv(unit, position + 1, stack', finishedProcessing')
    BY <1>1, <2>1, OthersKeep
  <2> QED BY <1>2, <2>2 DEF UnitInv
<1> QED BY <1>3, <1>4

(* So does flushState.                                                     *)
LEMMA LeaveMainFileKeeps ==
    ASSUME unit \in Units, UnitInv(unit, position, stack, finishedProcessing),
           LeaveMainFile, UNCHANGED unit
    PROVE  UnitInv(unit, position, stack, finishedProcessing)'
<1>1. IsUnit(unit)
  BY UnitsAreUnits
<1>2. /\ position' = position /\ unit' = unit
      /\ position > Len(unit.events) /\ MainFileId \notin DOMAIN finishedProcessing
      /\ exitFile(MainFileId)
  BY DEF LeaveMainFile, Flushed
<1>3. Leaves(MainFileId, stack, finishedProcessing, stack', finishedProcessing')
  BY <1>2, ExitFileLeaves
<1>4. UnitInv(unit, position, stack', finishedProcessing')
  BY <1>1, <1>2, <1>3, FlushKeeps
<1> QED BY <1>2, <1>4 DEF UnitInv

(* The next translation unit.                                              *)
LEMMA PreprocessorStartKeeps ==
    ASSUME NEW j \in DOMAIN Jobs, PreprocessorStart(j)
    PROVE  PreprocessorInv'
<1>1. /\ unit' = ClangUnit(Jobs[j].events) /\ position' = 1 /\ stack' = <<>>
      /\ DOMAIN finishedProcessing' = {}
  BY DEF PreprocessorStart
<1>2. unit' \in Units
  BY <1>1 DEF Units
<1>3. IsUnit(unit')
  BY <1>2, UnitsAreUnits
<1>4. UnitInv(unit', 1, <<>>, finishedProcessing')
  BY <1>1, <1>3, StartKeeps
<1> QED BY <1>1, <1>2, <1>4 DEF PreprocessorInv, UnitInv, Flushed, Units

(* The invariant is what HashIsIncludeTree follows from.                   *)
LEMMA HashFollows ==
    PreprocessorInv => HashIsIncludeTree
<1> SUFFICES ASSUME PreprocessorInv PROVE HashIsIncludeTree
  OBVIOUS
<1>1. CASE unit.events = <<>> /\ position = 1 /\ DOMAIN finishedProcessing = {}
  BY <1>1 DEF HashIsIncludeTree, Event
<1>2. CASE unit \in Units /\ UnitInv(unit, position, stack, finishedProcessing)
  <2>1. IsUnit(unit) /\ Len(unit.events) \in Nat /\ DOMAIN unit.events = 1 .. Len(unit.events)
    BY <1>2, UnitsAreUnits, UnitSize
  <2>2. HashesAreTrees(unit, finishedProcessing)
    BY <1>2 DEF UnitInv
  <2>3. ASSUME Event("Exit"), unit.events[position].valid, FileIdAt(position - 1) # InvalidFileId
        PROVE  stack # <<>> /\ stack[Len(stack)].fileId = FileIdAt(position - 1)
    <3>1. position \in 1 .. Len(unit.events) /\ unit.events[position].ev = "Exit"
      BY <2>1, <2>3 DEF Event
    <3>2. position # 1
      BY <2>1, <3>1 DEF IsUnit, IsNested
    <3>3. PICK p \in 1 .. (Len(unit.events) - 1) : position = p + 1
      <4>1. position - 1 \in 1 .. (Len(unit.events) - 1) /\ position = (position - 1) + 1
        BY <2>1, <3>1, <3>2
      <4> QED BY <4>1
    <3>4. position - 1 = p /\ position # Len(unit.events) + 1
      BY <2>1, <3>3
    <3>5. InStep(unit, stack, p)
      BY <1>2, <3>4 DEF UnitInv
    <3>6. FileLeft(unit, p) = FileIdAt(position - 1)
      BY <2>3, <3>3, <3>4 DEF FileLeft, FileIdAt
    <3>7. EntersFile(unit, unit.inside[p]) /\ FileLeft(unit, p) = unit.inside[p]
      BY <2>1, <2>3, <3>1, <3>3, <3>6, FileLeftIs
    <3>8. unit.events[p + 1].ev = "Exit"
      BY <3>1, <3>3
    <3> QED BY <2>1, <3>5, <3>6, <3>7, <3>8, TopWhenLeft
  <2>4. ASSUME position > Len(unit.events), ~ Flushed
        PROVE  stack # <<>> /\ stack[Len(stack)].fileId = MainFileId
    <3>1. position - 1 = Len(unit.events)
      BY <1>2, <2>1, <2>4 DEF UnitInv
    <3>2. InStep(unit, stack, Len(unit.events))
      BY <1>2, <2>4, <3>1 DEF UnitInv, Flushed
    <3> QED BY <2>1, <3>2, TopAtEnd
  <2> QED BY <2>2, <2>3, <2>4 DEF HashIsIncludeTree, HashesAreTrees
<1> QED BY <1>1, <1>2, InvIs

(* Between two callbacks of clang's preprocessor, for every sequence of    *)
(* translation units: IndexerPreprocessorStack has one builder for each    *)
(* file and line marker that is open, with the trees of the files that     *)
(* were left at its level, and every hash of finishedProcessing is the     *)
(* include tree of its file.                                               *)
THEOREM PreprocessorInvariance == PreprocessorSpec => []PreprocessorInv
<1>1. PreprocessorInit => PreprocessorInv
  BY DEF PreprocessorInit, PreprocessorInv, ClangUnit
<1>2. PreprocessorInv /\ [PreprocessorNext]_<<unit, preprocessorVars>> => PreprocessorInv'
  <2> SUFFICES ASSUME PreprocessorInv, [PreprocessorNext]_<<unit, preprocessorVars>>
               PROVE  PreprocessorInv'
    OBVIOUS
  <2>1. ASSUME NEW j \in DOMAIN Jobs, PreprocessorStart(j) PROVE PreprocessorInv'
    BY <2>1, PreprocessorStartKeeps
  <2>2. CASE (Preprocess \/ LeaveMainFile) /\ UNCHANGED unit
    <3>1. unit \in Units /\ UnitInv(unit, position, stack, finishedProcessing)
      BY <2>2, NoEventNoStep, InvIs
    <3>2. UnitInv(unit, position, stack, finishedProcessing)'
      BY <2>2, <3>1, PreprocessKeeps, LeaveMainFileKeeps
    <3>3. unit' \in Units
      BY <2>2, <3>1
    <3> QED BY <3>2, <3>3 DEF PreprocessorInv, UnitInv, Flushed, Units
  <2>3. CASE UNCHANGED <<unit, preprocessorVars>>
    BY <2>3 DEF preprocessorVars, PreprocessorInv, Flushed, Units
  <2> QED BY <2>1, <2>2, <2>3 DEF PreprocessorNext
<1> QED BY <1>1, <1>2, PTL DEF PreprocessorSpec

(* The hash of every file that has been left is the tree of what it        *)
(* includes, and the ENFORCEs of exitFileImpl on the top of the stack hold *)
(* at every exit and in flushState, for all translation units whose files  *)
(* clang nests.                                                            *)
THEOREM HashesAreIncludeTrees == PreprocessorSpec => []HashIsIncludeTree
<1>1. PreprocessorSpec => []PreprocessorInv
  BY PreprocessorInvariance
<1> QED BY <1>1, HashFollows, PTL
=============================================================================
