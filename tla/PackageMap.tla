----------------------------- MODULE PackageMap -----------------------------
(***************************************************************************)
(* PackageMap (src/indexer/PackageMap.cc): the packages of the package map *)
(* file, and the lookup of the package of a file, which remembers what it  *)
(* found in the same map.  A worker has one PackageMap for all the         *)
(* translation units it indexes.                                           *)
(***************************************************************************)
EXTENDS Integers, Sequences

CONSTANTS
    Path,             \* absolute paths
    Prefixes(_),      \* a path and the directories above it
    Depth(_),         \* the length of a path
    Normal(_),        \* a path without "." components
    RootDirectory,    \* "/"
    ProjectRoot,
    HasPackageMap,    \* was --package-map-path given?
    Entries,          \* the entries of that file; empty if it cannot be read
    IsTesting,
    NoPackage,
    NoPath

(* An entry: the real path of its "path" key (NoPath if there is none),    *)
(* whether that is a directory, and its "package" key, NoPackage unless it *)
(* is name@version in the allowed characters.                              *)
Entry == [root : Path \cup {NoPath}, isDirectory : BOOLEAN, id : STRING \cup {NoPackage}]

ASSUME EntriesAssumption == Entries \in Seq(Entry)

ASSUME PathAssumption ==
    /\ NoPath \notin Path
    /\ NoPackage \notin STRING
    /\ NoPackage \notin [id : STRING, rootPath : Path, isMainPackage : BOOLEAN]
    /\ RootDirectory \in Path
    /\ HasPackageMap \in BOOLEAN
    /\ \A p \in Path : Normal(p) \in Path /\ Depth(p) \in Nat

(* The prefixes of a path are a chain, and the prefixes of one of them are *)
(* the shorter ones.                                                       *)
ASSUME PrefixesAssumption ==
    \A p \in Path :
        /\ p \in Prefixes(p)
        /\ Prefixes(p) \subseteq Path
        /\ \A q, r \in Prefixes(p) : Depth(q) = Depth(r) => q = r
        /\ \A q \in Prefixes(p) : Prefixes(q) = {r \in Prefixes(p) : Depth(r) <= Depth(q)}

(* A package root is a real path, and normalizing leaves the prefixes of a *)
(* normalized path alone.                                                  *)
ASSUME NormalAssumption ==
    /\ \A i \in DOMAIN Entries : Entries[i].root \in Path => Normal(Entries[i].root) = Entries[i].root
    /\ \A p \in Path : \A q \in Prefixes(Normal(p)) : Normal(q) = q

VARIABLES
    map,         \* PackageMap::map
    reading,     \* the next entry populate reads
    started,     \* "populating", "ready", or "exited"
    asked,       \* the argument of the last lookup
    answer       \* and its result

packageVars == <<map, reading, started, asked, answer>>

Metadata(id, root) == [id |-> id, rootPath |-> root, isMainPackage |-> root = ProjectRoot]

TestPackage == [id |-> "test-pkg", rootPath |-> RootDirectory, isMainPackage |-> TRUE]

PackageInit ==
    /\ map = [p \in {} |-> NoPackage]
    /\ reading = 1
    /\ started = IF HasPackageMap THEN "populating" ELSE "ready"
    /\ asked = NoPath /\ answer = NoPackage

-----------------------------------------------------------------------------
Valid(entry) == entry.root \in Path /\ entry.isDirectory /\ entry.id # NoPackage

(* flat_hash_map::emplace leaves a key that is there alone.                *)
Emplace(m, key, value) ==
    [p \in DOMAIN m \cup {key} |-> IF p \in DOMAIN m THEN m[p] ELSE value]

(* One iteration of the loop of populate.  The trailing separator of "/"   *)
(* is removed as well, and the empty path aborts the process.              *)
ReadEntry ==
    /\ started = "populating" /\ reading \in DOMAIN Entries
    /\ LET entry == Entries[reading]
       IN  IF ~ Valid(entry) THEN UNCHANGED <<map, started>>
           ELSE IF entry.root = RootDirectory THEN started' = "exited" /\ UNCHANGED map
           ELSE map' = Emplace(map, entry.root, Metadata(entry.id, entry.root)) /\ UNCHANGED started
    /\ reading' = reading + 1
    /\ UNCHANGED <<asked, answer>>

(* Without information for the current project, and so for an empty or     *)
(* unreadable file, the process exits.                                     *)
FinishPopulate ==
    /\ started = "populating" /\ reading \notin DOMAIN Entries
    /\ started' = IF ProjectRoot \in DOMAIN map THEN "ready" ELSE "exited"
    /\ UNCHANGED <<map, reading, asked, answer>>

-----------------------------------------------------------------------------
(* The prefixes that were looked up before the one that was found.         *)
Remembered(path, found) == {q \in Prefixes(path) : Depth(q) > Depth(found)}

(* The directories above the package are remembered as well.               *)
LookupFoundVariant(p) ==
    \E found \in Prefixes(Normal(p)) \cap DOMAIN map :
        /\ \A q \in Remembered(Normal(p), found) : q \notin DOMAIN map
        /\ answer' = map[found]
        /\ map' = [q \in DOMAIN map \cup Prefixes(Normal(p)) |->
                      IF q \in DOMAIN map THEN map[q] ELSE map[found]]

(* The loop over the prefixes of the path finds one in the map.            *)
LookupFound(p) ==
    \E found \in Prefixes(Normal(p)) \cap DOMAIN map :
        /\ \A q \in Remembered(Normal(p), found) : q \notin DOMAIN map
        /\ answer' = map[found]
        /\ map' = [q \in DOMAIN map \cup Remembered(Normal(p), found) |->
                      IF q \in DOMAIN map THEN map[q] ELSE map[found]]

LookupMissed(p) ==
    /\ \A q \in Prefixes(Normal(p)) : q \notin DOMAIN map
    /\ answer' = IF DOMAIN map = {} /\ IsTesting THEN TestPackage ELSE NoPackage
    /\ UNCHANGED map

LookupKnown(p) == answer' = map[p] /\ UNCHANGED map

(* PackageMap::lookup of p.                                                *)
lookup(p) ==
    /\ started = "ready"
    /\ \/ p \in DOMAIN map /\ LookupKnown(p)
       \/ p \notin DOMAIN map /\ (LookupFound(p) \/ LookupMissed(p))
    /\ asked' = p
    /\ UNCHANGED <<reading, started>>

PackageNext ==
    \/ ReadEntry
    \/ FinishPopulate
    \/ \E p \in Path : lookup(p)

PackageSpec == PackageInit /\ [][PackageNext]_packageVars

-----------------------------------------------------------------------------
(* What the package map file says, without the map and its memory.         *)
Declares(i) == i \in DOMAIN Entries /\ Valid(Entries[i])

IsRoot(p) == \E i \in DOMAIN Entries : Declares(i) /\ Entries[i].root = p

(* The first entry for a directory counts.                                 *)
DeclaredPackage(p, metadata) ==
    \E i \in DOMAIN Entries :
        /\ Declares(i) /\ Entries[i].root = p
        /\ \A j \in 1 .. i - 1 : ~ (Declares(j) /\ Entries[j].root = p)
        /\ metadata = Metadata(Entries[i].id, p)

NearestPackage(p, metadata) ==
    \E root \in Prefixes(p) :
        /\ DeclaredPackage(root, metadata)
        /\ \A q \in Prefixes(p) : Depth(q) > Depth(root) => ~ IsRoot(q)

(* Whatever was looked up before, by this translation unit or an earlier   *)
(* one of the worker, a lookup gives the package of the innermost declared *)
(* directory that holds the file, and none only if there is none: what     *)
(* lookup remembers never gives a file to another package.                 *)
LookupIsNearest ==
    (HasPackageMap /\ asked # NoPath) =>
        IF answer = NoPackage THEN \A q \in Prefixes(Normal(asked)) : ~ IsRoot(q)
        ELSE NearestPackage(Normal(asked), answer)
=============================================================================
