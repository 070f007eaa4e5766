-------------------- MODULE CompilationDatabaseInvariant --------------------
(***************************************************************************)
(* The inductive invariant behind NoEntryLost and FieldsFromOwnKeys of     *)
(* CompilationDatabase: where in the file the parser stands, which object  *)
(* each command was read from, and that the handler carries nothing over   *)
(* from one call of parseMore to the next.                                 *)
(***************************************************************************)
EXTENDS CompilationDatabase

(* The ends of objects among the first p events of d.                      *)
EndsOf(d, p) == {q \in 1 .. p : d[q].e = "EndObject"}

(* The last key of d after s, up to q, is k.                               *)
LastKey(d, s, q, k) ==
    \E r \in s + 1 .. q : /\ d[r].e = "Key" /\ d[r].v = k
                          /\ \A t \in r + 1 .. q : d[t].e # "Key"

(* Event p of the object that starts at s is a string under key k.         *)
ValueAt(d, s, p, k) == d[p].e = "String" /\ LastKey(d, s, p, k)

(* The last string under key k in the object that starts at s, up to q, is *)
(* x; the empty string if there is none.                                   *)
FieldIs(d, s, q, k, x) ==
    \/ x = "" /\ \A p \in s + 1 .. q : ~ ValueAt(d, s, p, k)
    \/ \E p \in s + 1 .. q : /\ ValueAt(d, s, p, k) /\ d[p].v = x
                             /\ \A t \in p + 1 .. q : ~ ValueAt(d, s, t, k)

StringsHaveKeys(d, s, q) ==
    \A p \in s + 1 .. q : d[p].e = "String" => \E k \in Keys : LastKey(d, s, p, k)

(* An object of d starts at s and has not ended at q.                      *)
OpenObject(d, s, q) ==
    /\ d[s].e = "StartObject"
    /\ \A t \in s + 1 .. q : d[t].e \notin {"StartObject", "EndObject"}

(* Object n of d is the one from s to e, and c has its fields.             *)
ReadFrom(d, n, c) ==
    \E e \in {q \in 1 .. Len(d) : d[q].e = "EndObject"} :
        /\ Cardinality(EndsOf(d, e - 1)) = n
        /\ \E s \in 1 .. e - 1 :
            /\ OpenObject(d, s, e - 1)
            /\ StringsHaveKeys(d, s, e)
            /\ FieldIs(d, s, e, "directory", c.directory)
            /\ FieldIs(d, s, e, "file", c.file)

IsSequence(s) == s \in Seq(ToSet(s))

IsCommand(c) == c = [index |-> c.index, directory |-> c.directory, file |-> c.file,
                     arguments |-> c.arguments]

(* Commands with the fields of their objects, in the order of the file.    *)
ReadCorrectly(d, cmds) ==
    /\ IsSequence(cmds)
    /\ \A i \in DOMAIN cmds : /\ IsCommand(cmds[i]) /\ cmds[i].index \in Nat
                              /\ ReadFrom(d, cmds[i].index, cmds[i])
    /\ \A i, k \in DOMAIN cmds : i < k => cmds[i].index < cmds[k].index

(* The parser stands between two objects, with an empty handler, and has   *)
(* passed on or counted as skipped every command before pos.               *)
StandsAt(d) ==
    /\ ~ Validated(d)[Len(d)].error
    /\ commandCount = Cardinality(EndsOf(d, Len(d)))
    /\ pos \in 1 .. Len(d) + 1
    /\ Validated(d)[pos - 1].context \in {"Outermost", "InTopLevelArray"}
    /\ handler = NewHandler
    /\ currentIndex = Cardinality(EndsOf(d, pos - 1))
    /\ skipped \in Nat
    /\ Len(queued) + Len(batch) + skipped = currentIndex
    /\ ReadCorrectly(d, batch)
    /\ \A k \in DOMAIN batch : /\ batch[k].index < currentIndex
                               /\ \A i \in DOMAIN queued : queued[i].index < batch[k].index
    /\ \A i \in DOMAIN queued : queued[i].index < currentIndex
    /\ lastRound = 0 \/ lastRefill = 0 => pos = Len(d) + 1
    /\ phase = "idle" => batch = <<>>

(* Whenever the driver is not inside an iteration of parseMore, the queue  *)
(* holds commands with the fields of their own objects, and between calls  *)
(* the parser's own position, index and handler agree with the file.       *)
DatabaseInv ==
    /\ doc \in Docs
    /\ phase \in {"closed", "idle", "parseMore", "exitFailure", "enforceFailed"}
    /\ ReadCorrectly(doc, queued)
    /\ phase = "closed" => /\ currentIndex = 0 /\ skipped = 0
                           /\ batch = <<>> /\ queued = <<>>
                           /\ lastRound = -1 /\ lastRefill = -1
    /\ phase \in {"idle", "parseMore"} => StandsAt(doc)
=============================================================================
