----------------------------- MODULE FilePaths -----------------------------
(***************************************************************************)
(* The path functions of src/indexer/Path.cc.  A path is the sequence of   *)
(* the pieces of its string, each separator a piece of its own: "/a/b-c/d" *)
(* may be <<"/", "a", "/", "b", "-c", "/", "d">>, so that a string prefix  *)
(* that ends inside a name is a prefix here too.                           *)
(***************************************************************************)
EXTENDS Integers, Sequences

LOCAL INSTANCE SequencesExt

Slash == <<"/">>

(* AbsolutePathRef::prefixesBegin, prefix: the path and the directories    *)
(* above it, without trailing separators.                                  *)
PathPrefixes(p) ==
    {p, Slash} \cup {SubSeq(p, 1, k - 1) : k \in {j \in 2 .. Len(p) : p[j] = "/" /\ p[j - 1] # "/"}}

PathDepth(p) == Len(p)

isNormalized(p) ==
    /\ \A k \in DOMAIN p : p[k] \notin {".", ".."}
    /\ \A k \in 2 .. Len(p) : ~ (p[k - 1] = "/" /\ p[k] = "/")

(* remove_dots leaves ".." alone; the separators between two names become  *)
(* one.                                                                    *)
normalize(p) ==
    LET names == {k \in DOMAIN p : p[k] \notin {"/", "."}}
        Kept(k) == \/ k = 1 \/ k \in names
                   \/ p[k] = "/" /\ k + 1 \in names /\ \E n \in names : n < k
    IN  IF isNormalized(p) THEN p
        ELSE FoldLeftDomain(LAMBDA q, k : IF Kept(k) THEN Append(q, p[k]) ELSE q, <<>>, p)

(* A test on the strings, so that /a-b/c is "-b/c" relative to /a.         *)
makeRelative(root, longer) ==
    LET rest == SubSeq(longer, Len(root) + 1, Len(longer))
        from == {k \in DOMAIN rest : rest[k] # "/" /\ \A j \in 1 .. k - 1 : rest[j] = "/"}
    IN  IF ~ IsPrefix(root, longer) THEN {}
        ELSE {SubSeq(rest, k, Len(rest)) : k \in from}

joinPath(s1, s2) == (IF Last(s1) = "/" THEN s1 ELSE Append(s1, "/")) \o s2
=============================================================================
