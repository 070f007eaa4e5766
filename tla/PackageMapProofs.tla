-------------------------- MODULE PackageMapProofs --------------------------
(***************************************************************************)
(* LookupIsNearest, for every package map and every tree of directories.   *)
(***************************************************************************)
EXTENDS PackageMap, TLAPS

(* While the file is read the map holds exactly the directories of the     *)
(* entries read so far, each with its first entry.                         *)
ReadSoFar ==
    /\ \A p \in DOMAIN map :
          \E i \in 1 .. reading - 1 :
             /\ Declares(i) /\ Entries[i].root = p
             /\ \A j \in 1 .. i - 1 : ~ (Declares(j) /\ Entries[j].root = p)
             /\ map[p] = Metadata(Entries[i].id, p)
    /\ \A i \in 1 .. reading - 1 : Declares(i) => Entries[i].root \in DOMAIN map

(* Once it has been read, every declared directory is in the map, and      *)
(* whatever else is there has the package of the nearest one.              *)
MapIsSound ==
    /\ ProjectRoot \in DOMAIN map
    /\ \A p \in Path : IsRoot(p) => p \in DOMAIN map
    /\ \A p \in DOMAIN map : NearestPackage(p, map[p])

PackageInv ==
    /\ DOMAIN map \subseteq Path
    /\ \A p \in DOMAIN map : Normal(p) = p
    /\ reading \in Nat \ {0}
    /\ reading <= Len(Entries) + 1
    /\ started # "ready" => asked = NoPath
    /\ HasPackageMap /\ started = "populating" => ReadSoFar
    /\ HasPackageMap /\ started = "ready" => MapIsSound
    /\ LookupIsNearest

-----------------------------------------------------------------------------
(* A declared package is a record, so it is never NoPackage.               *)
LEMMA NearestIsAPackage ==
    ASSUME NEW p, NEW m, NearestPackage(p, m)
    PROVE  m # NoPackage
<1>1. PICK i \in DOMAIN Entries :
          Declares(i) /\ m = Metadata(Entries[i].id, Entries[i].root)
  BY DEF NearestPackage, DeclaredPackage
<1> DEFINE root == Entries[i].root
<1>2. Entries[i] \in Entry
  BY EntriesAssumption
<1>3. root \in Path /\ Entries[i].id \in STRING
  BY <1>1, <1>2 DEF Declares, Valid, Entry
<1>4. (root = ProjectRoot) \in BOOLEAN
  OBVIOUS
<1>5. m = [id |-> Entries[i].id, rootPath |-> root, isMainPackage |-> (root = ProjectRoot)]
  BY <1>1 DEF Metadata
<1>6. m \in [id : STRING, rootPath : Path, isMainPackage : BOOLEAN]
  BY <1>3, <1>4, <1>5
<1> QED
  BY <1>6, PathAssumption

(* The nearest package of a prefix of p with no declared directory between *)
(* the two is the nearest package of p.                                    *)
LEMMA NearestBelow ==
    ASSUME NEW p \in Path, NEW q \in Prefixes(p), NEW m,
           NearestPackage(q, m),
           \A r \in Prefixes(p) : Depth(r) > Depth(q) => ~ IsRoot(r)
    PROVE  NearestPackage(p, m)
<1>1. PICK root \in Prefixes(q) :
          /\ DeclaredPackage(root, m)
          /\ \A r \in Prefixes(q) : Depth(r) > Depth(root) => ~ IsRoot(r)
  BY DEF NearestPackage
<1>2. /\ Prefixes(q) = {r \in Prefixes(p) : Depth(r) <= Depth(q)}
      /\ Prefixes(p) \subseteq Path
  BY PrefixesAssumption
<1>3. root \in Prefixes(p)
  BY <1>2
<1>4. ASSUME NEW r \in Prefixes(p), Depth(r) > Depth(root)
      PROVE  ~ IsRoot(r)
  <2>1. CASE Depth(r) > Depth(q)
    BY <2>1
  <2>2. CASE ~ (Depth(r) > Depth(q))
    <3>1. Depth(r) \in Nat /\ Depth(q) \in Nat
      BY <1>2, PathAssumption
    <3>2. r \in Prefixes(q)
      BY <1>2, <2>2, <3>1
    <3> QED
      BY <1>1, <1>4, <3>2
  <2> QED
    BY <2>1, <2>2
<1> QED
  BY <1>1, <1>3, <1>4 DEF NearestPackage

(* A declared directory is its own nearest one.                            *)
LEMMA DeclaredIsNearest ==
    ASSUME NEW p \in Path, NEW m, DeclaredPackage(p, m)
    PROVE  NearestPackage(p, m)
<1>1. p \in Prefixes(p) /\ Prefixes(p) \subseteq Path
      /\ Prefixes(p) = {r \in Prefixes(p) : Depth(r) <= Depth(p)}
  BY PrefixesAssumption
<1>2. \A q \in Prefixes(p) : Depth(q) <= Depth(p) /\ Depth(q) \in Nat /\ Depth(p) \in Nat
  BY <1>1, PathAssumption
<1> QED
  BY <1>1, <1>2 DEF NearestPackage

-----------------------------------------------------------------------------
(* The maps are empty at the start.                                        *)
LEMMA InitEstablishes == PackageInit => PackageInv
<1> SUFFICES ASSUME PackageInit PROVE PackageInv
  OBVIOUS
<1>1. DOMAIN map = {} /\ reading = 1 /\ asked = NoPath
  BY DEF PackageInit
<1>2. HasPackageMap => started = "populating"
  BY DEF PackageInit
<1>3. Len(Entries) \in Nat
  BY EntriesAssumption
<1>4. ReadSoFar
  BY <1>1 DEF ReadSoFar
<1> QED
  BY <1>1, <1>2, <1>3, <1>4 DEF PackageInv, LookupIsNearest

(* An entry of the file is stored under its own root.                      *)
LEMMA ReadEntryPreserves ==
    ASSUME PackageInv, ReadEntry
    PROVE  PackageInv'
<1> DEFINE entry == Entries[reading]
<1>1. /\ started = "populating" /\ reading \in DOMAIN Entries
      /\ reading' = reading + 1 /\ asked' = asked /\ answer' = answer
  BY DEF ReadEntry
<1>3. reading \in Nat \ {0} /\ reading <= Len(Entries) /\ Len(Entries) \in Nat
      /\ DOMAIN Entries = 1 .. Len(Entries)
  BY <1>1, EntriesAssumption
<1>4. asked = NoPath /\ (HasPackageMap => ReadSoFar)
  BY <1>1 DEF PackageInv
<1>5. LookupIsNearest'
  BY <1>1, <1>4 DEF LookupIsNearest
<1>6. started' # "ready"
  BY <1>1 DEF ReadEntry
<1>7. CASE ~ Valid(entry)
  <2>1. map' = map /\ started' = started
    BY <1>7 DEF ReadEntry
  <2>2. ~ Declares(reading)
    BY <1>7 DEF Declares
  <2>3. ReadSoFar => ReadSoFar'
    BY <1>1, <1>3, <2>1, <2>2 DEF ReadSoFar
  <2> QED
    BY <1>1, <1>3, <1>4, <1>5, <1>6, <2>1, <2>3 DEF PackageInv
<1>8. CASE Valid(entry) /\ entry.root = RootDirectory
  <2>1. map' = map /\ started' = "exited"
    BY <1>8 DEF ReadEntry
  <2> QED
    BY <1>1, <1>3, <1>4, <1>5, <2>1 DEF PackageInv
<1>9. CASE Valid(entry) /\ entry.root # RootDirectory
  <2>1. /\ map' = Emplace(map, entry.root, Metadata(entry.id, entry.root))
        /\ started' = started
    BY <1>9 DEF ReadEntry
  <2>2. /\ DOMAIN map' = DOMAIN map \cup {entry.root}
        /\ \A p \in DOMAIN map : map'[p] = map[p]
        /\ entry.root \notin DOMAIN map => map'[entry.root] = Metadata(entry.id, entry.root)
    BY <2>1 DEF Emplace
  <2>3. Declares(reading) /\ entry.root \in Path
    BY <1>1, <1>9 DEF Declares, Valid
  <2>4. ASSUME ReadSoFar PROVE ReadSoFar'
    <3>1. ASSUME NEW p \in DOMAIN map'
          PROVE  \E i \in 1 .. reading :
                    /\ Declares(i) /\ Entries[i].root = p
                    /\ \A j \in 1 .. i - 1 : ~ (Declares(j) /\ Entries[j].root = p)
                    /\ map'[p] = Metadata(Entries[i].id, p)
      <4>1. CASE p \in DOMAIN map
        BY <1>3, <2>2, <2>4, <4>1 DEF ReadSoFar
      <4>2. CASE p \notin DOMAIN map
        <5>1. p = entry.root /\ map'[p] = Metadata(entry.id, p)
          BY <2>2, <4>2
        <5>2. \A j \in 1 .. reading - 1 : ~ (Declares(j) /\ Entries[j].root = p)
          BY <2>4, <4>2 DEF ReadSoFar
        <5>3. reading \in 1 .. reading
          BY <1>3
        <5> QED
          BY <2>3, <5>1, <5>2, <5>3
      <4> QED
        BY <4>1, <4>2
    <3>2. ASSUME NEW i \in 1 .. reading, Declares(i)
          PROVE  Entries[i].root \in DOMAIN map'
      BY <1>3, <2>2, <2>4, <3>2 DEF ReadSoFar
    <3>3. reading' - 1 = reading
      BY <1>1, <1>3
    <3> QED
      BY <3>1, <3>2, <3>3 DEF ReadSoFar
  <2>5. DOMAIN map' \subseteq Path /\ \A p \in DOMAIN map' : Normal(p) = p
    BY <1>1, <2>2, <2>3, NormalAssumption DEF PackageInv
  <2> QED
    BY <1>1, <1>3, <1>4, <1>5, <1>6, <2>1, <2>4, <2>5 DEF PackageInv
<1> QED
  BY <1>7, <1>8, <1>9

(* The end of the file changes neither the map nor an answer.              *)
LEMMA FinishPreserves ==
    ASSUME PackageInv, FinishPopulate
    PROVE  PackageInv'
<1>1. /\ started = "populating" /\ reading \notin DOMAIN Entries
      /\ map' = map /\ reading' = reading /\ asked' = asked /\ answer' = answer
      /\ started' # "populating"
  BY DEF FinishPopulate
<1>2. asked = NoPath
  BY <1>1 DEF PackageInv
<1>3. ASSUME HasPackageMap, started' = "ready" PROVE MapIsSound
  <2>0. ProjectRoot \in DOMAIN map
    BY <1>3 DEF FinishPopulate
  <2>1. ReadSoFar
    BY <1>1, <1>3 DEF PackageInv
  <2>2. reading = Len(Entries) + 1 /\ DOMAIN Entries = 1 .. Len(Entries) /\ Len(Entries) \in Nat
    BY <1>1, EntriesAssumption DEF PackageInv
  <2>3. \A p \in DOMAIN map : DeclaredPackage(p, map[p])
    BY <2>1, <2>2 DEF ReadSoFar, DeclaredPackage
  <2>4. \A p \in Path : IsRoot(p) => p \in DOMAIN map
    BY <2>1, <2>2 DEF ReadSoFar, IsRoot
  <2> QED
    BY <2>0, <2>3, <2>4, DeclaredIsNearest DEF MapIsSound, PackageInv
<1>4. HasPackageMap /\ started' = "ready" => MapIsSound'
  BY <1>1, <1>3 DEF MapIsSound
<1> QED
  BY <1>1, <1>2, <1>4 DEF PackageInv, LookupIsNearest

(* What a lookup finds, gives and remembers is the nearest package.        *)
LEMMA LookupPreserves ==
    ASSUME PackageInv, NEW p \in Path, lookup(p)
    PROVE  PackageInv'
<1> DEFINE path == Normal(p)
<1>1. started = "ready" /\ started' = "ready" /\ reading' = reading /\ asked' = p
  BY DEF lookup
<1>2. path \in Path /\ path \in Prefixes(path) /\ Prefixes(path) \subseteq Path
  BY PathAssumption, PrefixesAssumption
<1>3. HasPackageMap => MapIsSound
  BY <1>1 DEF PackageInv
<1>4. CASE LookupFound(p)
  <2>1. PICK found \in Prefixes(path) \cap DOMAIN map :
          /\ \A q \in Remembered(path, found) : q \notin DOMAIN map
          /\ answer' = map[found]
          /\ map' = [q \in DOMAIN map \cup Remembered(path, found) |->
                        IF q \in DOMAIN map THEN map[q] ELSE map[found]]
    BY <1>4 DEF LookupFound
  <2>2. DOMAIN map' = DOMAIN map \cup Remembered(path, found)
    BY <2>1
  <2>3. DOMAIN map' \subseteq Path /\ \A q \in DOMAIN map' : Normal(q) = q
    BY <1>2, <2>2, NormalAssumption DEF PackageInv, Remembered
  <2>4. ASSUME HasPackageMap, NEW q \in Prefixes(path), Depth(q) >= Depth(found)
        PROVE  NearestPackage(q, map[found])
    <3>1. NearestPackage(found, map[found])
      BY <1>3, <2>4 DEF MapIsSound
    <3>2. /\ q \in Path /\ found \in Path
          /\ Prefixes(q) = {r \in Prefixes(path) : Depth(r) <= Depth(q)}
      BY <1>2, PrefixesAssumption
    <3>3. found \in Prefixes(q)
      BY <2>4, <3>2, PathAssumption
    <3>4. \A r \in Prefixes(q) : Depth(r) > Depth(found) => ~ IsRoot(r)
      <4> SUFFICES ASSUME NEW r \in Prefixes(q), Depth(r) > Depth(found)
                   PROVE  ~ IsRoot(r)
        OBVIOUS
      <4>1. r \in Remembered(path, found) /\ r \in Path
        BY <1>2, <3>2 DEF Remembered
      <4> QED
        BY <1>3, <2>1, <2>4, <4>1 DEF MapIsSound
    <3> QED
      BY <3>1, <3>2, <3>3, <3>4, NearestBelow
  <2>5. HasPackageMap => MapIsSound'
    <3> SUFFICES ASSUME HasPackageMap PROVE MapIsSound'
      OBVIOUS
    <3>1. ProjectRoot \in DOMAIN map' /\ \A q \in Path : IsRoot(q) => q \in DOMAIN map'
      BY <1>3, <2>2 DEF MapIsSound
    <3>2. ASSUME NEW q \in DOMAIN map' PROVE NearestPackage(q, map'[q])
      <4>1. CASE q \in DOMAIN map
        BY <1>3, <2>1, <4>1 DEF MapIsSound
      <4>2. CASE q \notin DOMAIN map
        <5>1. q \in Remembered(path, found) /\ map'[q] = map[found]
          BY <2>1, <2>2, <4>2
        <5>2. q \in Prefixes(path) /\ Depth(q) > Depth(found) /\ q \in Path /\ found \in Path
          BY <1>2, <5>1 DEF Remembered
        <5>3. Depth(q) >= Depth(found)
          BY <5>2, PathAssumption
        <5> QED
          BY <2>4, <5>1, <5>2, <5>3
      <4> QED
        BY <4>1, <4>2
    <3> QED
      BY <3>1, <3>2 DEF MapIsSound
  <2>6. LookupIsNearest'
    <3> SUFFICES ASSUME HasPackageMap
                 PROVE  answer' # NoPackage /\ NearestPackage(path, answer')
      BY <1>1 DEF LookupIsNearest
    <3>1. Prefixes(path) = {r \in Prefixes(path) : Depth(r) <= Depth(path)}
      BY <1>2, PrefixesAssumption
    <3>2. Depth(path) >= Depth(found)
      BY <1>2, <3>1, PathAssumption
    <3>3. NearestPackage(path, map[found])
      BY <1>2, <2>4, <3>2
    <3> QED
      BY <2>1, <3>3, NearestIsAPackage
  <2> QED
    BY <1>1, <2>3, <2>5, <2>6 DEF PackageInv
<1>5. CASE LookupMissed(p)
  <2>1. map' = map /\ (\A q \in Prefixes(path) : q \notin DOMAIN map)
    BY <1>5 DEF LookupMissed
  <2>2. HasPackageMap => MapIsSound'
    BY <1>3, <2>1 DEF MapIsSound
  <2>3. HasPackageMap => \A q \in Prefixes(path) : ~ IsRoot(q)
    BY <1>2, <1>3, <2>1 DEF MapIsSound
  <2>4. HasPackageMap => answer' = NoPackage
    BY <1>3, <1>5 DEF LookupMissed, MapIsSound
  <2>5. LookupIsNearest'
    BY <1>1, <2>3, <2>4 DEF LookupIsNearest
  <2> QED
    BY <1>1, <2>1, <2>2, <2>5 DEF PackageInv
<1>6. CASE p \in DOMAIN map /\ LookupKnown(p)
  <2>1. map' = map /\ answer' = map[p] /\ path = p
    BY <1>6 DEF LookupKnown, PackageInv
  <2>2. HasPackageMap => MapIsSound'
    BY <1>3, <2>1 DEF MapIsSound
  <2>3. HasPackageMap => NearestPackage(path, answer')
    BY <1>3, <1>6, <2>1 DEF MapIsSound
  <2>4. LookupIsNearest'
    BY <1>1, <2>3, NearestIsAPackage DEF LookupIsNearest
  <2> QED
    BY <1>1, <2>1, <2>2, <2>4 DEF PackageInv
<1> QED
  BY <1>4, <1>5, <1>6 DEF lookup

(* Every step of the package map keeps its invariant.                      *)
LEMMA PackageStep == PackageInv /\ [PackageNext]_packageVars => PackageInv'
<1> SUFFICES ASSUME PackageInv, [PackageNext]_packageVars PROVE PackageInv'
  OBVIOUS
<1>1. CASE ReadEntry
  BY <1>1, ReadEntryPreserves
<1>2. CASE FinishPopulate
  BY <1>2, FinishPreserves
<1>3. CASE \E p \in Path : lookup(p)
  BY <1>3, LookupPreserves
<1>4. CASE UNCHANGED packageVars
  BY <1>4 DEF packageVars, PackageInv, ReadSoFar, MapIsSound, LookupIsNearest
<1> QED
  BY <1>1, <1>2, <1>3, <1>4 DEF PackageNext

(* For every package map file, every tree of directories and every         *)
(* sequence of lookups: PackageMap::lookup gives the package of the        *)
(* innermost declared directory, however its map was filled before.        *)
THEOREM LookupIsAlwaysNearest == PackageSpec => []LookupIsNearest
<1>1. PackageInv => LookupIsNearest
  BY DEF PackageInv
<1> QED
  BY <1>1, InitEstablishes, PackageStep, PTL DEF PackageSpec
=============================================================================
