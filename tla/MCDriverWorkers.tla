-------------------------- MODULE MCDriverWorkers --------------------------
(* Constants of the runs of DriverWorkers.                                 *)
EXTENDS DriverWorkersInvariant

(* Commands 0 and 1 compile one main file, path 0; a later unit t has main *)
(* file t and includes the main file of the first two.                     *)
MCMainFile == [t \in Tasks |-> <<IF t <= 1 THEN 0 ELSE t, 0>>]

(* Each unit reports the main files it reads and a header that all units   *)
(* include.  Units 0 and 1 expand the header in the same way, later units  *)
(* in that way and in another (an ill-behaved file, with two hashes).      *)
MCSemaFiles ==
    [t \in Tasks |->
        {<<0, 0>>, MCMainFile[t]}
            \cup {<<NumCommands, h>> : h \in IF t <= 1 THEN {0} ELSE {0, 1}}]
=============================================================================
