---------------------------- MODULE MCIndexMerge ----------------------------
EXTENDS IndexMergeInvariant

Sym(pkg, suffix) == [pkg |-> pkg, suffix |-> suffix]
Info(doc, rels)  == [docs |-> <<doc>>, rels |-> rels]
Occ(range, name) == [range |-> range, name |-> name]
Doc(path, occs, syms) == [path |-> path, occs |-> occs, syms |-> syms]
Fwd(suffix, doc, refs) ==
    [suffix |-> suffix, doc |-> doc,
     references |-> {[path |-> r[1], range |-> r[2]] : r \in refs}]
Ext(name, info) == [name |-> name, info |-> info]

F == Sym("main", "f")
S == Sym("main", "S")
T == Sym("lib", "S")
X == Sym("lib", "X")
Z == Sym("lib2", "X")
Y == Sym("main", "Y")
L == Sym("local 0", "none")

(* What a worker emits for a file with a hash.  h.h and k.h are ill-behaved *)
(* and both define S.                                                      *)
Content(path, hash) ==
    CASE path = "a.cc" -> Doc("a.cc", {Occ(1, F), Occ(2, S)}, F :> Info(Placeholder, {}))
      [] path = "b.cc" -> Doc("b.cc", {Occ(1, T), Occ(2, X)}, T :> Info("t", {}))
      [] path = "c.cc" -> Doc("c.cc", {Occ(1, Y)}, Y :> Info(Placeholder, {X}))
      [] path = "gen.h" -> Doc("gen.h", {Occ(hash, L)}, L :> Info(Placeholder, {}))
      [] path = "h.h" /\ hash = 1 ->
             Doc("h.h", {Occ(1, S), Occ(3, L)}, S :> Info(Placeholder, {X}) @@ L :> Info(Placeholder, {}))
      [] path = "h.h" /\ hash = 2 ->
             Doc("h.h", {Occ(1, S), Occ(4, F)}, S :> Info("s", {F}))
      [] path = "k.h" /\ hash = 1 -> Doc("k.h", {Occ(1, S)}, S :> Info(Placeholder, {}))
      [] OTHER -> Doc("k.h", {Occ(2, S)}, S :> Info("", {}))

File(root, path, hash) == [root |-> root, path |-> path, hash |-> hash]
Header(path, hash) == File("project", path, hash)

Tu(main, files, externals, fwds) ==
    [main |-> Header(main, 1), files |-> files, externals |-> externals, fwds |-> fwds]

(* a.cc is compiled by two commands and included by c.cc; there is a gen.h *)
(* in the project and another one in the build directory.                  *)
Tus ==
    { Tu("a.cc", <<Header("h.h", 1), Header("k.h", 1)>>,
         <<Ext(X, Info(Placeholder, {})), Ext(Sym("", "S"), Info(Placeholder, {}))>>,
         <<Fwd("S", "fs", {<<"a.cc", 9>>, <<"k.h", 8>>}), Fwd("Y", "y", {<<"h.h", 8>>})>>),
      Tu("b.cc", <<Header("h.h", 2), Header("gen.h", 1)>>,
         <<Ext(X, Info("x", {F})), Ext(Z, Info(Placeholder, {}))>>,
         <<Fwd("X", "fx", {<<"b.cc", 5>>}), Fwd("Y", Placeholder, {<<"b.cc", 6>>})>>),
      Tu("a.cc", <<Header("k.h", 2)>>,
         <<Ext(X, [docs |-> <<>>, rels |-> {S}])>>,
         <<Fwd("f", "ff", {<<"k.h", 7>>}), Fwd("X", Placeholder, {<<"k.h", 6>>})>>),
      Tu("c.cc", <<Header("h.h", 1), File("build", "gen.h", 2), Header("a.cc", 1)>>,
         <<Ext(Sym("", "Y"), Info("ey", {}))>>,
         <<Fwd("Y", "", {<<"c.cc", 7>>}), Fwd("W", "w", {<<"c.cc", 4>>})>>) }

Orders == {s \in BoundedSeq(Tus, 4) : s # <<>> /\ IsInjective(s)}

FilesOf(tu) == ToSet(tu.files) \cup {tu.main}

(* FileIndexingPlanner: a file goes to the first unit that reports it, and *)
(* the main file to its own unit as well.                                  *)
Assigned(tus, i) ==
    LET earlier == UNION {FilesOf(tus[k]) : k \in 1 .. i - 1}
    IN  <<tus[i].main>> \o SelectSeq(tus[i].files, LAMBDA f : f \notin earlier)

Shard(tus, i, lostDocs, lostFwds) ==
    LET files == Assigned(tus, i)
    IN  [main |-> tus[i].main,
         files |-> files,
         docs |-> [k \in DOMAIN files |-> Content(files[k].path, files[k].hash)],
         externals |-> tus[i].externals,
         fwds |-> tus[i].fwds,
         docsReadable |-> i # lostDocs,
         fwdReadable |-> i # lostFwds]

Hashes(tus) ==
    LET all == {f \in UNION {FilesOf(tus[k]) : k \in DOMAIN tus} : f.root = "project"}
    IN  [p \in {f.path : f \in all} |-> {f.hash : f \in {g \in all : g.path = p}}]

MCInputs ==
    {[shards |-> [i \in DOMAIN tus |-> Shard(tus, i, lostDocs, lostFwds)],
      hashes |-> Hashes(tus)] : tus \in Orders, lostDocs \in 0 .. 2, lostFwds \in 0 .. 2}
=============================================================================
