----------------------- MODULE PreprocessingInvariant -----------------------
(***************************************************************************)
(* The inductive invariant behind HashIsIncludeTree of Preprocessing: the  *)
(* stack has one builder for each file and line marker that clang has      *)
(* open, and a builder has mixed the files that were left at its level.    *)
(***************************************************************************)
EXTENDS Preprocessing

Units == {ClangUnit(Jobs[j].events) : j \in DOMAIN Jobs}

(* The files included at the level of j that have been left after p events.*)
Left(u, j, p) ==
    {k \in Included(u, j) :
        \E l \in k + 1 .. p : u.events[l].ev = "Exit" /\ u.inside[l - 1] = k}

(* The trees of the given files, in order.                                 *)
TreesOf(u, files) == [n \in 1 .. Cardinality(files) |-> IncludeTrees(u)[Nth(files, n)]]

(* What the stack has after p events for the Enter event j.                *)
Builder(u, j, p) ==
    [fileId |-> u.file[j],
     hash   |-> IF u.file[j] = InvalidFileId THEN <<>> ELSE TreesOf(u, Left(u, j, p))]

InStep(u, s, p) ==
    /\ Len(s) = IncludeDepth(u.events, p) /\ s = [i \in 1 .. Len(s) |-> s[i]]
    /\ \A i \in 1 .. Len(s) : \E j \in OpenAt(u.events, p) :
          IncludeDepth(u.events, j) = i /\ s[i] = Builder(u, j, p)

HashesAreTrees(u, hashes) ==
    \A f \in DOMAIN hashes :
        hashes[f] = IncludeTrees(u)[IF f = MainFileId THEN u.inside[Len(u.events)] ELSE f]

(* Between two callbacks the stack is in step with clang's, until the main *)
(* file has been left, and the hashes of the files so far are their trees. *)
PreprocessorInv ==
    \/ unit.events = <<>> /\ position = 1 /\ DOMAIN finishedProcessing = {}
    \/ /\ unit \in Units
       /\ position \in 1 .. Len(unit.events) + 1
       /\ IF Flushed THEN position = Len(unit.events) + 1
                     ELSE InStep(unit, stack, position - 1)
       /\ HashesAreTrees(unit, finishedProcessing)
=============================================================================
