------------------------------ MODULE ClangUnit ------------------------------
(***************************************************************************)
(* What clang tells scip-clang about one translation unit, in order: files *)
(* that are entered and left, #include directives, macros, and the nodes   *)
(* of the syntax tree.  A FileID is the position of an Enter event, so a   *)
(* header that is entered twice has two.  A line marker (# 1 "a.h" 1) is   *)
(* an Enter event as well, but what follows it is in the file around it.   *)
(* A declaration is the position of its Decl event, whose field "of" names *)
(* the entity that it declares or redeclares.  The field "at" of an event  *)
(* is its range in its file.                                               *)
(***************************************************************************)
EXTENDS Integers, Sequences, FiniteSets

CONSTANTS
    NoLocation,      \* the path of an Enter event without a valid location
    NoFileEntry,     \* the path of an imaginary buffer, such as <built-in>
    LineMarker,      \* the path of an Enter event that is a line marker
    InvalidFileId

ASSUME InvalidFileIdAssumption == InvalidFileId \notin Nat
ASSUME LineMarkerAssumption == NoLocation # LineMarker

MainFileId == 1

(* How many files and line markers are open after the first k events.      *)
IncludeDepth(events, k) ==
    Cardinality({m \in 1 .. k : events[m].ev = "Enter"})
        - Cardinality({m \in 1 .. k : events[m].ev = "Exit"})

(* The ones that have been entered and not left.                           *)
OpenAt(events, k) ==
    {j \in 1 .. k : /\ events[j].ev = "Enter"
                    /\ \A l \in j .. k : IncludeDepth(events, l) >= IncludeDepth(events, j)}

LastOpened(positions) == CHOOSE j \in positions : \A l \in positions : l <= j

(* The innermost of them at each event.                                    *)
Innermost(events) == [k \in DOMAIN events |-> LastOpened(OpenAt(events, k))]

(* SourceManager::getFileID of the locations of each event: the innermost  *)
(* file.                                                                   *)
FileIds(events) ==
    [k \in DOMAIN events |->
        LET j == LastOpened({i \in OpenAt(events, k) : events[i].path # LineMarker})
        IN  IF events[j].path = NoLocation THEN InvalidFileId ELSE j]

(* FileChanged as clang calls it: the main file is entered first; files    *)
(* are left with their FileID, line markers without one, innermost first;  *)
(* and only line markers can be without an end.                            *)
IsNested(events) ==
    /\ Len(events) \in Nat /\ DOMAIN events = 1 .. Len(events)
    /\ events # <<>> /\ events[1].ev = "Enter" /\ events[1].path \notin {NoLocation, LineMarker}
    /\ \A k \in DOMAIN events : events[k].ev = "Exit" =>
          /\ IncludeDepth(events, k - 1) >= 2
          /\ LET path == events[LastOpened(OpenAt(events, k - 1))].path
             IN  path # NoLocation => (events[k].valid <=> path # LineMarker)
    /\ \A j \in OpenAt(events, Len(events)) : j # MainFileId => events[j].path = LineMarker

(* Clang links the redeclarations of an entity.                            *)
RedeclChains(events) ==
    LET decls == {k \in DOMAIN events : events[k].ev = "Decl"}
    IN  [e \in {events[k].of : k \in decls} |-> {k \in decls : events[k].of = e}]

ClangUnit(events) ==
    [events |-> events, file |-> FileIds(events), inside |-> Innermost(events),
     redecls |-> RedeclChains(events)]

PathOf(u, fileId) == u.events[fileId].path

-----------------------------------------------------------------------------
Redecls(u, e) == IF e \in DOMAIN u.redecls THEN u.redecls[e] ELSE {}

LOCAL First(positions) == CHOOSE k \in positions : \A l \in positions : k <= l

LOCAL Definitions(u, e) == {k \in Redecls(u, e) : u.events[k].def}

hasDefinition(u, e) == Definitions(u, e) # {}

getDefinition(u, e) == First(Definitions(u, e))

getCanonicalDecl(u, d) == First(Redecls(u, u.events[d].of))

(* The declaration that a reference or a context finds.                    *)
FoundDecl(u, e) ==
    IF hasDefinition(u, e) THEN getDefinition(u, e) ELSE First(Redecls(u, e))

IsDeclared(u, e) == Redecls(u, e) # {}
=============================================================================
