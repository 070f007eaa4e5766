-------------------------- MODULE IndexMergeProofs --------------------------
(***************************************************************************)
(* Proofs about IndexMerge.tla: MergeInv is an invariant, and the          *)
(* properties of the index follow from it.                                 *)
(***************************************************************************)
EXTENDS IndexMergeInvariant, FiniteSetTheorems, SequenceTheorems, TLAPS

(***************************************************************************)
(* Sequences.                                                              *)
(***************************************************************************)

(* A sequence over any set is one.                                         *)
LEMMA SeqIsSequence ==
    ASSUME NEW T, NEW s \in Seq(T)
    PROVE  IsSequence(s)
BY DEF IsSequence, ToSet

(* The domain of a sequence.                                               *)
LEMMA SequenceDomain ==
    ASSUME NEW s, IsSequence(s)
    PROVE  Len(s) \in Nat /\ DOMAIN s = 1 .. Len(s)
BY DEF IsSequence

(* A function on 1 .. n is a sequence.                                     *)
LEMMA FunctionSequence ==
    ASSUME NEW n \in Nat, NEW f, f = [i \in 1 .. n |-> f[i]]
    PROVE  IsSequence(f) /\ Len(f) = n
BY DEF IsSequence, ToSet

(* The empty queue.                                                        *)
LEMMA EmptySequence == IsSequence(<<>>) /\ ToSet(<<>>) = {} /\ DOMAIN <<>> = {}
BY DEF IsSequence, ToSet

(* Taking the first element of a queue.                                    *)
LEMMA TakeFirst ==
    ASSUME NEW s, IsSequence(s), s # <<>>
    PROVE  /\ IsSequence(Tail(s))
           /\ 1 \in DOMAIN s /\ Head(s) = s[1]
           /\ \A i \in DOMAIN Tail(s) : i + 1 \in DOMAIN s /\ i + 1 # 1 /\ Tail(s)[i] = s[i + 1]
           /\ ToSet(s) = {Head(s)} \cup ToSet(Tail(s))
<1>1. /\ IsSequence(Tail(s)) /\ Len(s) \in Nat \ {0} /\ Len(Tail(s)) = Len(s) - 1
      /\ DOMAIN s = 1 .. Len(s) /\ DOMAIN Tail(s) = 1 .. (Len(s) - 1) /\ Head(s) = s[1]
      /\ \A i \in 1 .. (Len(s) - 1) : Tail(s)[i] = s[i + 1]
  <2> DEFINE T == ToSet(s)
  <2>1. s \in Seq(T) /\ s # <<>>
    BY DEF IsSequence
  <2> HIDE DEF T
  <2>2. /\ Tail(s) \in Seq(T) /\ Len(s) \in Nat \ {0} /\ Len(Tail(s)) = Len(s) - 1
        /\ DOMAIN s = 1 .. Len(s) /\ Head(s) = s[1]
    BY <2>1
  <2>3. DOMAIN Tail(s) = 1 .. (Len(s) - 1)
    BY <2>2
  <2>4. \A i \in 1 .. (Len(s) - 1) : Tail(s)[i] = s[i + 1]
    BY <2>1, <2>2
  <2> QED BY <2>2, <2>3, <2>4, SeqIsSequence
<1>2. \A i \in DOMAIN Tail(s) : i + 1 \in DOMAIN s /\ i + 1 # 1
  BY <1>1
<1>3. ASSUME NEW x \in ToSet(s) PROVE x = Head(s) \/ x \in ToSet(Tail(s))
  <2>1. PICK i \in DOMAIN s : x = s[i]
    BY DEF ToSet
  <2>2. CASE i = 1
    BY <1>1, <2>1, <2>2
  <2>3. CASE i # 1
    <3>1. i - 1 \in 1 .. (Len(s) - 1) /\ (i - 1) + 1 = i
      BY <1>1, <2>3
    <3> QED BY <1>1, <2>1, <3>1 DEF ToSet
  <2> QED BY <2>2, <2>3
<1>4. Head(s) \in ToSet(s) /\ ToSet(Tail(s)) \subseteq ToSet(s)
  BY <1>1, <1>2 DEF ToSet
<1> QED BY <1>1, <1>2, <1>3, <1>4

(* Appending an element.                                                   *)
LEMMA AppendOne ==
    ASSUME NEW s, IsSequence(s), NEW x
    PROVE  /\ IsSequence(Append(s, x))
           /\ Len(s) \in Nat /\ DOMAIN s = 1 .. Len(s)
           /\ DOMAIN Append(s, x) = 1 .. (Len(s) + 1)
           /\ \A i \in DOMAIN s : Append(s, x)[i] = s[i]
           /\ Append(s, x)[Len(s) + 1] = x
           /\ ToSet(Append(s, x)) = {x} \cup ToSet(s)
BY DEF IsSequence, ToSet

(* Two sequences in a row.                                                 *)
LEMMA Concatenation ==
    ASSUME NEW s, NEW t, IsSequence(s), IsSequence(t)
    PROVE  /\ IsSequence(s \o t)
           /\ Len(s) \in Nat /\ Len(t) \in Nat
           /\ DOMAIN s = 1 .. Len(s) /\ DOMAIN t = 1 .. Len(t)
           /\ DOMAIN (s \o t) = 1 .. (Len(s) + Len(t))
           /\ \A i \in 1 .. (Len(s) + Len(t)) :
                 (s \o t)[i] = IF i <= Len(s) THEN s[i] ELSE t[i - Len(s)]
           /\ ToSet(s \o t) = ToSet(s) \cup ToSet(t)
<1>1. s \in Seq(ToSet(s) \cup ToSet(t)) /\ t \in Seq(ToSet(s) \cup ToSet(t))
  BY DEF IsSequence
<1>2. /\ s \o t \in Seq(ToSet(s) \cup ToSet(t))
      /\ Len(s) \in Nat /\ Len(t) \in Nat
      /\ DOMAIN s = 1 .. Len(s) /\ DOMAIN t = 1 .. Len(t)
      /\ Len(s \o t) = Len(s) + Len(t)
      /\ DOMAIN (s \o t) = 1 .. (Len(s) + Len(t))
  BY <1>1
<1>3. \A i \in 1 .. (Len(s) + Len(t)) :
          (s \o t)[i] = IF i <= Len(s) THEN s[i] ELSE t[i - Len(s)]
  BY <1>1, <1>2
<1>4. ToSet(s \o t) \subseteq ToSet(s) \cup ToSet(t)
  <2> SUFFICES ASSUME NEW i \in DOMAIN (s \o t) PROVE (s \o t)[i] \in ToSet(s) \cup ToSet(t)
    BY DEF ToSet
  <2>1. CASE i <= Len(s)
    BY <1>2, <1>3, <2>1 DEF ToSet
  <2>2. CASE ~ (i <= Len(s))
    <3>1. i - Len(s) \in DOMAIN t
      BY <1>2, <2>2
    <3> QED BY <1>2, <1>3, <2>2, <3>1 DEF ToSet
  <2> QED BY <2>1, <2>2
<1>5. ASSUME NEW i \in DOMAIN s PROVE s[i] \in ToSet(s \o t)
  BY <1>2, <1>3 DEF ToSet
<1>6. ASSUME NEW i \in DOMAIN t PROVE t[i] \in ToSet(s \o t)
  <2>1. /\ i + Len(s) \in 1 .. (Len(s) + Len(t))
        /\ ~ (i + Len(s) <= Len(s)) /\ (i + Len(s)) - Len(s) = i
    BY <1>2
  <2> QED BY <1>2, <1>3, <2>1 DEF ToSet
<1>7. ToSet(s) \subseteq ToSet(s \o t) /\ ToSet(t) \subseteq ToSet(s \o t)
  BY <1>5, <1>6 DEF ToSet
<1>8. IsSequence(s \o t)
  BY <1>2, SeqIsSequence
<1> QED BY <1>2, <1>3, <1>4, <1>7, <1>8

(* A finite set in some order.                                             *)
LEMMA AnyOrder ==
    ASSUME NEW S, IsFiniteSet(S)
    PROVE  /\ Cardinality(S) \in Nat
           /\ \A f \in [1 .. Cardinality(S) -> S] : IsInjective(f) =>
                 IsSequence(f) /\ Len(f) = Cardinality(S) /\ ToSet(f) = S
           /\ SetToSeq(S) \in [1 .. Cardinality(S) -> S]
           /\ IsInjective(SetToSeq(S))
<1>1. Cardinality(S) \in Nat /\ ExistsBijection(1 .. Cardinality(S), S)
  BY FS_CardinalityType
<1> DEFINE n == Cardinality(S)
<1>2. IsFiniteSet(1 .. n) /\ Cardinality(1 .. n) = n
  <2>1. \A m \in Nat : IsFiniteSet(1 .. m) /\ Cardinality(1 .. m) = m
    BY FS_Interval
  <2> QED BY <1>1, <2>1
<1>3. ASSUME NEW f \in [1 .. n -> S], IsInjective(f)
      PROVE  IsSequence(f) /\ Len(f) = n /\ ToSet(f) = S
  <2>1. f \in Injection(1 .. n, S)
    BY <1>3 DEF Injection
  <2>2. f \in Surjection(1 .. n, S)
    BY <1>2, <2>1, FS_Injection
  <2>3. IsSequence(f) /\ Len(f) = n
    BY <1>1, FunctionSequence
  <2> QED BY <2>2, <2>3 DEF Surjection, ToSet
<1>4. PICK f \in Bijection(1 .. n, S) : TRUE
  BY <1>1 DEF ExistsBijection
<1>5. f \in [1 .. n -> S] /\ IsInjective(f)
  BY <1>4 DEF Bijection, Injection
<1>6. SetToSeq(S) \in [1 .. n -> S] /\ IsInjective(SetToSeq(S))
  BY <1>5 DEF SetToSeq
<1> QED BY <1>1, <1>3, <1>6

-----------------------------------------------------------------------------
(***************************************************************************)
(* Documents.                                                              *)
(***************************************************************************)

(* Covering is a preorder.                                                 *)
LEMMA CoversItself ==
    ASSUME NEW d
    PROVE  Covers(d, d)
BY DEF Covers

(* What covers a document covers all that it covers.                       *)
LEMMA CoversTransitive ==
    ASSUME NEW d, NEW e, NEW r, Covers(e, d), Covers(d, r)
    PROVE  Covers(e, r)
BY DEF Covers

(* Merging and filling the information of one symbol.                      *)
LEMMA MergeInfo ==
    ASSUME NEW a, NEW b
    PROVE  /\ IsSymbolInfo(MergeSymbolInfo(a, b))
           /\ MergeSymbolInfo(a, b).rels = a.rels \cup b.rels
           /\ hasDocumentation(a.docs) \/ hasDocumentation(b.docs) =>
                 hasDocumentation(MergeSymbolInfo(a, b).docs)
<1>1. /\ MergeSymbolInfo(a, b).rels = a.rels \cup b.rels
      /\ MergeSymbolInfo(a, b).docs = IF hasDocumentation(a.docs) THEN a.docs ELSE b.docs
  BY DEF MergeSymbolInfo
<1>2. IsSymbolInfo(MergeSymbolInfo(a, b))
  BY DEF MergeSymbolInfo, IsSymbolInfo
<1>3. CASE hasDocumentation(a.docs)
  BY <1>1, <1>2, <1>3
<1>4. CASE ~ hasDocumentation(a.docs)
  BY <1>1, <1>2, <1>4
<1> QED BY <1>3, <1>4

(* A forward declaration adds its text where there was none.               *)
LEMMA FillInfo ==
    ASSUME NEW a, IsSymbolInfo(a), NEW fwd
    PROVE  /\ IsSymbolInfo(FillDocs(a, fwd)) /\ FillDocs(a, fwd).rels = a.rels
           /\ hasDocumentation(a.docs) => hasDocumentation(FillDocs(a, fwd).docs)
           /\ RealText(<<fwd.doc>>) => hasDocumentation(FillDocs(a, fwd).docs)
<1>1. CASE hasDocumentation(a.docs)
  <2>1. FillDocs(a, fwd) = a
    BY <1>1 DEF FillDocs
  <2> QED BY <1>1, <2>1
<1>2. CASE ~ hasDocumentation(a.docs)
  <2>1. FillDocs(a, fwd) = [docs |-> <<fwd.doc>>, rels |-> a.rels]
    BY <1>2 DEF FillDocs, IsSymbolInfo
  <2>2. RealText(<<fwd.doc>>) => hasDocumentation(<<fwd.doc>>)
    BY DEF RealText
  <2> QED BY <1>2, <2>1, <2>2 DEF IsSymbolInfo
<1> QED BY <1>1, <1>2

(* DocumentBuilder::merge keeps all that either document has, and adds     *)
(* nothing.                                                                *)
LEMMA MergeKeeps ==
    ASSUME NEW d, NEW new, IsDocument(d), IsDocument(new), d.path = new.path,
           NEW docs, ComesFrom(d, docs), ComesFrom(new, docs)
    PROVE  /\ IsDocument(merge(d, new)) /\ merge(d, new).path = d.path
           /\ Covers(merge(d, new), d) /\ Covers(merge(d, new), new)
           /\ ComesFrom(merge(d, new), docs)
<1> DEFINE m == merge(d, new)
<1>1. /\ m = [path |-> m.path, occs |-> m.occs, syms |-> m.syms]
      /\ m.path = d.path /\ m.occs = d.occs \cup new.occs
      /\ DOMAIN m.syms = DOMAIN d.syms \cup DOMAIN new.syms
      /\ m.syms = [n \in DOMAIN m.syms |-> m.syms[n]]
  BY DEF merge
<1>2. \A n \in DOMAIN m.syms : m.syms[n] =
          IF n \notin DOMAIN d.syms THEN new.syms[n]
          ELSE IF n \notin DOMAIN new.syms THEN d.syms[n]
          ELSE MergeSymbolInfo(d.syms[n], new.syms[n])
  BY DEF merge
<1> HIDE DEF m
<1>3. \A n \in DOMAIN m.syms : IsSymbolInfo(m.syms[n])
  BY <1>1, <1>2, MergeInfo DEF IsDocument, IsSymbolTable
<1>4. IsDocument(m)
  BY <1>1, <1>3 DEF IsDocument, IsSymbolTable
<1>5. Covers(m, d)
  BY <1>1, <1>2, MergeInfo DEF Covers
<1>6. Covers(m, new)
  BY <1>1, <1>2, MergeInfo DEF Covers
<1>7. ComesFrom(m, docs)
  <2>1. \E r \in docs : r.path = m.path
    BY <1>1 DEF ComesFrom
  <2>2. \A o \in m.occs : \E r \in docs : r.path = m.path /\ o \in r.occs
    BY <1>1 DEF ComesFrom
  <2>3. \A n \in DOMAIN m.syms : \E r \in docs : r.path = m.path /\ n \in DOMAIN r.syms
    BY <1>1 DEF ComesFrom
  <2>4. ASSUME NEW n \in DOMAIN m.syms, NEW x \in m.syms[n].rels
        PROVE  \E r \in docs : r.path = m.path /\ n \in DOMAIN r.syms /\ x \in r.syms[n].rels
    <3>1. \/ n \in DOMAIN d.syms /\ x \in d.syms[n].rels
          \/ n \in DOMAIN new.syms /\ x \in new.syms[n].rels
      BY <1>1, <1>2, <2>4, MergeInfo
    <3> QED BY <1>1, <3>1 DEF ComesFrom
  <2> QED BY <2>1, <2>2, <2>3, <2>4 DEF ComesFrom
<1> QED BY <1>1, <1>4, <1>5, <1>6, <1>7 DEF m

(* The documents d and e differ at most in documentation that d had not.   *)
SameButText(e, d) ==
    /\ IsDocument(e)
    /\ e.path = d.path /\ e.occs = d.occs /\ DOMAIN e.syms = DOMAIN d.syms
    /\ \A n \in DOMAIN d.syms :
          /\ e.syms[n].rels = d.syms[n].rels
          /\ hasDocumentation(d.syms[n].docs) => hasDocumentation(e.syms[n].docs)

(* Such a document covers the old one and adds nothing to it.              *)
LEMMA SameButTextKeeps ==
    ASSUME NEW e, NEW d, SameButText(e, d)
    PROVE  /\ Covers(e, d)
           /\ \A docs : ComesFrom(d, docs) => ComesFrom(e, docs)
BY DEF SameButText, Covers, ComesFrom

(* A document that is left alone.                                          *)
LEMMA SameIsSameButText ==
    ASSUME NEW d, IsDocument(d)
    PROVE  SameButText(d, d)
BY DEF SameButText

(* What a forward declaration does to the document of its definition.      *)
FilledWith(doc, name, fwd) ==
    IF fwd.doc = "" THEN doc
    ELSE [doc EXCEPT !.syms[name] = FillDocs(@, fwd)]

(* Only the text of the one symbol changes, and a real comment is then     *)
(* there.                                                                  *)
LEMMA FilledKeeps ==
    ASSUME NEW d, IsDocument(d), NEW n \in DOMAIN d.syms, NEW fwd
    PROVE  /\ SameButText(FilledWith(d, n, fwd), d)
           /\ RealText(<<fwd.doc>>) =>
                 hasDocumentation(FilledWith(d, n, fwd).syms[n].docs)
<1> DEFINE e == FilledWith(d, n, fwd)
           new == FillDocs(d.syms[n], fwd)
<1>1. /\ IsSymbolInfo(new) /\ new.rels = d.syms[n].rels
      /\ hasDocumentation(d.syms[n].docs) => hasDocumentation(new.docs)
      /\ RealText(<<fwd.doc>>) => hasDocumentation(new.docs)
  BY FillInfo DEF IsDocument, IsSymbolTable
<1>2. CASE fwd.doc = ""
  <2>1. e = d /\ ~ RealText(<<fwd.doc>>)
    BY <1>2 DEF FilledWith, RealText
  <2> QED BY <2>1, SameIsSameButText
<1>3. CASE fwd.doc # ""
  <2>1. e = [d EXCEPT !.syms = [d.syms EXCEPT ![n] = new]]
    BY <1>3 DEF FilledWith
  <2> DEFINE t == [d.syms EXCEPT ![n] = new]
  <2>2. /\ DOMAIN t = DOMAIN d.syms /\ t = [k \in DOMAIN t |-> t[k]]
        /\ t[n] = new /\ \A k \in DOMAIN t : k # n => t[k] = d.syms[k]
    BY DEF IsDocument, IsSymbolTable
  <2> HIDE DEF t, new
  <2>3. IsSymbolTable(t)
    BY <1>1, <2>2 DEF IsDocument, IsSymbolTable
  <2>4. e = [path |-> d.path, occs |-> d.occs, syms |-> t]
    BY <2>1 DEF IsDocument, t, new
  <2> HIDE DEF e
  <2>5. IsDocument(e) /\ e.path = d.path /\ e.occs = d.occs /\ e.syms = t
    BY <2>3, <2>4 DEF IsDocument
  <2>6. SameButText(e, d)
    BY <1>1, <2>2, <2>5 DEF SameButText
  <2> QED BY <1>1, <2>2, <2>5, <2>6 DEF e
<1> QED BY <1>2, <1>3

(* A step that keeps what the builder has, and adds to it what is no       *)
(* longer to come, loses nothing.                                          *)
LEMMA NoneLostStep ==
    ASSUME NEW read, NEW P, NEW D, NoneLost(read, P, D),
           NEW P2, NEW D2,
           \A d \in D : \E e \in D2 : Covers(e, d),
           \A r \in P : r \in P2 \/ \E e \in D2 : Covers(e, r)
    PROVE  NoneLost(read, P2, D2)
<1> SUFFICES ASSUME NEW r \in read PROVE r \in P2 \/ \E e \in D2 : Covers(e, r)
  BY DEF NoneLost
<1>1. CASE r \in P
  BY <1>1
<1>2. CASE \E d \in D : Covers(d, r)
  <2>1. PICK d \in D : Covers(d, r)
    BY <1>2
  <2>2. PICK e \in D2 : Covers(e, d)
    OBVIOUS
  <2> QED BY <2>1, <2>2, CoversTransitive
<1> QED BY <1>1, <1>2 DEF NoneLost

-----------------------------------------------------------------------------
(***************************************************************************)
(* Reading a shard.                                                        *)
(***************************************************************************)

(* The queue of a shard that was read: its documents and then its external *)
(* symbols.                                                                *)
QueueOf(sh) ==
    [i \in DOMAIN sh.docs |-> [kind |-> "document", item |-> sh.docs[i]]]
    \o [i \in DOMAIN sh.externals |-> [kind |-> "external", item |-> sh.externals[i]]]

(* The queue has the documents at their own positions, and nothing else of *)
(* that kind.                                                              *)
LEMMA QueueOfShard ==
    ASSUME NEW sh, IsShard(sh)
    PROVE  /\ IsSequence(QueueOf(sh))
           /\ \A i \in DOMAIN QueueOf(sh) :
                 /\ QueueOf(sh)[i].kind \in {"document", "external"}
                 /\ QueueOf(sh)[i].kind = "document" =>
                       i \in DOMAIN sh.docs /\ QueueOf(sh)[i].item = sh.docs[i]
           /\ Items(QueueOf(sh), "document") = ToSet(sh.docs)
           /\ Items(QueueOf(sh), "external") = ToSet(sh.externals)
<1> DEFINE d == [i \in DOMAIN sh.docs |-> [kind |-> "document", item |-> sh.docs[i]]]
           e == [i \in DOMAIN sh.externals |-> [kind |-> "external", item |-> sh.externals[i]]]
           q == QueueOf(sh)
<1>1. /\ Len(sh.docs) \in Nat /\ DOMAIN sh.docs = 1 .. Len(sh.docs)
      /\ Len(sh.externals) \in Nat /\ DOMAIN sh.externals = 1 .. Len(sh.externals)
  BY SequenceDomain DEF IsShard
<1>2. IsSequence(d) /\ Len(d) = Len(sh.docs)
  <2>1. d = [i \in 1 .. Len(sh.docs) |-> d[i]]
    BY <1>1
  <2> QED BY <1>1, <2>1, FunctionSequence
<1>3. IsSequence(e) /\ Len(e) = Len(sh.externals)
  <2>1. e = [i \in 1 .. Len(sh.externals) |-> e[i]]
    BY <1>1
  <2> QED BY <1>1, <2>1, FunctionSequence
<1>4. /\ \A i \in DOMAIN sh.docs : d[i].kind = "document" /\ d[i].item = sh.docs[i]
      /\ \A i \in DOMAIN sh.externals : e[i].kind = "external" /\ e[i].item = sh.externals[i]
  OBVIOUS
<1>5. q = d \o e
  BY DEF QueueOf
<1> HIDE DEF d, e, q
<1>6. /\ IsSequence(q) /\ DOMAIN q = 1 .. (Len(d) + Len(e))
      /\ \A i \in 1 .. (Len(d) + Len(e)) : q[i] = IF i <= Len(d) THEN d[i] ELSE e[i - Len(d)]
      /\ ToSet(q) = ToSet(d) \cup ToSet(e)
  BY <1>2, <1>3, <1>5, Concatenation
<1>7. ASSUME NEW i \in DOMAIN q
      PROVE  /\ q[i].kind \in {"document", "external"}
             /\ q[i].kind = "document" => i \in DOMAIN sh.docs /\ q[i].item = sh.docs[i]
  <2>0. PICK m \in Nat, n \in Nat : m = Len(d) /\ n = Len(e)
    BY <1>1, <1>2, <1>3
  <2>1. CASE i <= m
    <3>1. i \in 1 .. m /\ q[i] = d[i]
      BY <1>6, <2>0, <2>1
    <3>2. i \in DOMAIN sh.docs
      BY <1>1, <1>2, <2>0, <3>1
    <3> QED BY <1>4, <3>1, <3>2
  <2>2. CASE ~ (i <= m)
    <3>1. i - m \in 1 .. n /\ q[i] = e[i - m]
      BY <1>6, <2>0, <2>2
    <3>2. i - m \in DOMAIN sh.externals
      BY <1>1, <1>3, <2>0, <3>1
    <3> QED BY <1>4, <3>1, <3>2
  <2> QED BY <2>1, <2>2
<1>8. /\ DOMAIN d = DOMAIN sh.docs /\ DOMAIN e = DOMAIN sh.externals
  BY DEF d, e
<1>9. /\ \A x \in ToSet(d) : x.kind = "document" /\ x.item \in ToSet(sh.docs)
      /\ \A x \in ToSet(e) : x.kind = "external" /\ x.item \in ToSet(sh.externals)
      /\ \A y \in ToSet(sh.docs) : \E x \in ToSet(d) : x.item = y
      /\ \A y \in ToSet(sh.externals) : \E x \in ToSet(e) : x.item = y
  BY <1>4, <1>8 DEF ToSet
<1>10. Items(q, "document") = ToSet(sh.docs) /\ Items(q, "external") = ToSet(sh.externals)
  BY <1>6, <1>9 DEF Items
<1> QED BY <1>6, <1>7, <1>10 DEF q

(* The shards that are left after the next one.                            *)
LEMMA ShardsLeft ==
    ASSUME InputInv, next \in Nat \ {0}, next <= Len(shards),
           next' = next + 1, shards' = shards
    PROVE  /\ next \in DOMAIN shards /\ IsShard(shards[next])
           /\ LaterShards = LaterShards' \cup
                 (IF shards[next].docsReadable THEN {next} ELSE {})
           /\ LaterForwards = LaterForwards' \cup
                 (IF shards[next].fwdReadable THEN {next} ELSE {})
<1>1. Len(shards) \in Nat /\ DOMAIN shards = 1 .. Len(shards)
  BY SequenceDomain DEF InputInv, AreShards
<1>2. next \in DOMAIN shards /\ IsShard(shards[next])
  BY <1>1 DEF InputInv, AreShards
<1>3. \A i : i \in next .. Len(shards) <=> i = next \/ i \in (next + 1) .. Len(shards)
  BY <1>1
<1>4. LaterShards' = {i \in (next + 1) .. Len(shards) : shards[i].docsReadable}
  BY DEF LaterShards
<1>5. LaterForwards' = {i \in (next + 1) .. Len(shards) : shards[i].fwdReadable}
  BY DEF LaterForwards
<1>6. LaterShards = LaterShards' \cup (IF shards[next].docsReadable THEN {next} ELSE {})
  BY <1>3, <1>4 DEF LaterShards
<1>7. LaterForwards = LaterForwards' \cup (IF shards[next].fwdReadable THEN {next} ELSE {})
  BY <1>3, <1>5 DEF LaterForwards
<1> QED BY <1>2, <1>6, <1>7

(* What the shards hold does not change.                                   *)
LEMMA InputStays ==
    ASSUME UNCHANGED input
    PROVE  /\ ReadDocuments' = ReadDocuments /\ ReadExternals' = ReadExternals
           /\ ReadForwards' = ReadForwards /\ InputInv' = InputInv
           /\ shards' = shards /\ hashesSoFar' = hashesSoFar
BY DEF input, ReadDocuments, ReadExternals, ReadForwards, InputInv

(* A shard that is read, or left out, moves from the later ones into the   *)
(* queue.                                                                  *)
LEMMA ReadIndexShardPending ==
    ASSUME InputInv, ReaderInv, ReadIndexShard
    PROVE  /\ PendingDocuments' = PendingDocuments
           /\ PendingExternals' = PendingExternals
           /\ PendingForwards' = PendingForwards
           /\ ReaderInv'
<1>1. /\ phase = "documents" /\ phase' = "documents" /\ queue = <<>> /\ next <= Len(shards)
      /\ queue' = (IF shards[next].docsReadable THEN QueueOf(shards[next]) ELSE <<>>)
      /\ next' = next + 1 /\ UNCHANGED input
  BY DEF ReadIndexShard, QueueOf
<1>2. shards' = shards /\ ReadDocuments' = ReadDocuments /\ ReadExternals' = ReadExternals
      /\ ReadForwards' = ReadForwards
  BY <1>1, InputStays
<1>3. /\ next \in DOMAIN shards /\ IsShard(shards[next])
      /\ LaterShards = LaterShards' \cup (IF shards[next].docsReadable THEN {next} ELSE {})
  BY <1>1, <1>2, ShardsLeft DEF ReaderInv
<1>4. /\ Items(queue, "document") = {} /\ Items(queue, "external") = {}
      /\ Items(<<>>, "document") = {} /\ Items(<<>>, "external") = {}
  BY <1>1, EmptySequence DEF Items
<1>5. CASE ~ shards[next].docsReadable
  <2>1. queue' = <<>> /\ LaterShards' = LaterShards
    BY <1>1, <1>3, <1>5
  <2>2. /\ PendingDocuments' = PendingDocuments
        /\ PendingExternals' = PendingExternals
        /\ PendingForwards' = PendingForwards
    BY <1>1, <1>2, <1>4, <2>1 DEF PendingDocuments, PendingExternals, PendingForwards
  <2>3. ReaderInv'
    BY <1>1, <1>2, <1>4, <2>1, EmptySequence DEF ReaderInv
  <2> QED BY <2>2, <2>3
<1>6. CASE shards[next].docsReadable
  <2>1. queue' = QueueOf(shards[next]) /\ LaterShards = LaterShards' \cup {next}
    BY <1>1, <1>3, <1>6
  <2>2. /\ IsSequence(queue')
        /\ \A i \in DOMAIN queue' : queue'[i].kind \in {"document", "external"}
        /\ Items(queue', "document") = ToSet(shards[next].docs)
        /\ Items(queue', "external") = ToSet(shards[next].externals)
    BY <1>3, <2>1, QueueOfShard
  <2>3. PendingDocuments' = PendingDocuments
    <3>1. PendingDocuments = UNION {ToSet(shards[i].docs) : i \in LaterShards}
      BY <1>1, <1>4 DEF PendingDocuments
    <3>2. PendingDocuments' = ToSet(shards[next].docs) \cup
                                UNION {ToSet(shards[i].docs) : i \in LaterShards'}
      BY <1>1, <1>2, <2>2 DEF PendingDocuments
    <3> QED BY <2>1, <3>1, <3>2
  <2>4. PendingExternals' = PendingExternals
    <3>1. PendingExternals = UNION {ToSet(shards[i].externals) : i \in LaterShards}
      BY <1>1, <1>4 DEF PendingExternals
    <3>2. PendingExternals' = ToSet(shards[next].externals) \cup
                                UNION {ToSet(shards[i].externals) : i \in LaterShards'}
      BY <1>1, <1>2, <2>2 DEF PendingExternals
    <3> QED BY <2>1, <3>1, <3>2
  <2>5. PendingForwards' = PendingForwards
    BY <1>1, <1>2 DEF PendingForwards
  <2>6. ReaderInv'
    <3>1. /\ ToSet(shards[next].docs) \subseteq ReadDocuments
          /\ ToSet(shards[next].externals) \subseteq ReadExternals
      BY <1>3, <1>6 DEF ReadDocuments, ReadExternals
    <3>2. next' \in Nat \ {0}
      BY <1>1 DEF ReaderInv
    <3> QED BY <1>1, <1>2, <2>2, <3>1, <3>2 DEF ReaderInv
  <2> QED BY <2>3, <2>4, <2>5, <2>6
<1> QED BY <1>5, <1>6

(* What the shards hold.                                                   *)
LEMMA ReadItems ==
    ASSUME InputInv
    PROVE  /\ \A d \in ReadDocuments : IsDocument(d)
           /\ \A e \in ReadExternals : IsSymbolInfo(e.info)
           /\ \A f \in ReadForwards : f.suffix # NoSuffix
<1>1. \A i \in DOMAIN shards : IsShard(shards[i])
  BY DEF InputInv, AreShards
<1>2. \A i \in DOMAIN shards :
          /\ \A d \in ToSet(shards[i].docs) : IsDocument(d)
          /\ \A e \in ToSet(shards[i].externals) : IsSymbolInfo(e.info)
          /\ \A f \in ToSet(shards[i].fwds) : f.suffix # NoSuffix
  BY <1>1 DEF IsShard, ToSet
<1> QED BY <1>2 DEF ReadDocuments, ReadExternals, ReadForwards

(* The first item of the queue is no longer to come.                       *)
LEMMA TakeItemPending ==
    ASSUME InputInv, ReaderInv, phase = "documents", phase' = "documents",
           queue # <<>>, queue' = Tail(queue), next' = next, UNCHANGED input
    PROVE  /\ ReaderInv'
           /\ PendingForwards' = PendingForwards
           /\ Head(queue).kind = "document" =>
                 /\ PendingDocuments = {Head(queue).item} \cup PendingDocuments'
                 /\ PendingExternals' = PendingExternals
                 /\ Head(queue).item \in ReadDocuments
           /\ Head(queue).kind = "external" =>
                 /\ PendingExternals = {Head(queue).item} \cup PendingExternals'
                 /\ PendingDocuments' = PendingDocuments
                 /\ Head(queue).item \in ReadExternals
<1>1. /\ shards' = shards /\ ReadDocuments' = ReadDocuments
      /\ ReadExternals' = ReadExternals /\ ReadForwards' = ReadForwards
  BY InputStays
<1>2. /\ IsSequence(queue') /\ ToSet(queue) = {Head(queue)} \cup ToSet(queue')
      /\ 1 \in DOMAIN queue /\ Head(queue) = queue[1]
      /\ \A i \in DOMAIN queue' : i + 1 \in DOMAIN queue /\ queue'[i] = queue[i + 1]
  BY TakeFirst DEF ReaderInv
<1>3. \A kind : Items(queue, kind) = Items(queue', kind) \cup
          (IF Head(queue).kind = kind THEN {Head(queue).item} ELSE {})
  BY <1>2 DEF Items
<1>4. LaterShards' = LaterShards
  BY <1>1 DEF LaterShards
<1>5. ReaderInv'
  <2>1. /\ Items(queue', "document") \subseteq ReadDocuments
        /\ Items(queue', "external") \subseteq ReadExternals
    BY <1>3 DEF ReaderInv
  <2>2. \A i \in DOMAIN queue' : queue'[i].kind \in {"document", "external"}
    BY <1>2 DEF ReaderInv
  <2> QED BY <1>1, <1>2, <2>1, <2>2 DEF ReaderInv
<1>6. PendingForwards' = PendingForwards
  BY <1>1 DEF PendingForwards
<1>7. /\ PendingDocuments = Items(queue, "document") \cup
                              UNION {ToSet(shards[i].docs) : i \in LaterShards}
      /\ PendingExternals = Items(queue, "external") \cup
                              UNION {ToSet(shards[i].externals) : i \in LaterShards}
  BY DEF PendingDocuments, PendingExternals
<1>8. /\ PendingDocuments' = Items(queue', "document") \cup
                              UNION {ToSet(shards[i].docs) : i \in LaterShards}
      /\ PendingExternals' = Items(queue', "external") \cup
                              UNION {ToSet(shards[i].externals) : i \in LaterShards}
  BY <1>1, <1>4 DEF PendingDocuments, PendingExternals
<1>9. ASSUME Head(queue).kind = "document"
      PROVE  /\ PendingDocuments = {Head(queue).item} \cup PendingDocuments'
             /\ PendingExternals' = PendingExternals
             /\ Head(queue).item \in ReadDocuments
  <2>1. /\ Items(queue, "document") = Items(queue', "document") \cup {Head(queue).item}
        /\ Items(queue, "external") = Items(queue', "external")
    BY <1>3, <1>9
  <2> QED BY <1>7, <1>8, <2>1 DEF ReaderInv
<1>10. ASSUME Head(queue).kind = "external"
       PROVE  /\ PendingExternals = {Head(queue).item} \cup PendingExternals'
              /\ PendingDocuments' = PendingDocuments
              /\ Head(queue).item \in ReadExternals
  <2>1. /\ Items(queue, "external") = Items(queue', "external") \cup {Head(queue).item}
        /\ Items(queue, "document") = Items(queue', "document")
    BY <1>3, <1>10
  <2> QED BY <1>7, <1>8, <2>1 DEF ReaderInv
<1> QED BY <1>5, <1>6, <1>9, <1>10

-----------------------------------------------------------------------------
(***************************************************************************)
(* One document per path.                                                  *)
(***************************************************************************)

(* These speak of the shards alone.                                        *)
LEMMA PathsStay ==
    ASSUME UNCHANGED input
    PROVE  /\ \A p : RepeatedDocument(p)' = RepeatedDocument(p)
           /\ \A p : isMultiplyIndexedApproximate(p)' = isMultiplyIndexedApproximate(p)
           /\ \A d, e : Clash(d, e)' = Clash(d, e)
BY InputStays DEF RepeatedDocument, IsMain, IsAliased, isMultiplyIndexedApproximate, Clash

(* A finite set of at most one element has no two.                         *)
LEMMA AtMostOne ==
    ASSUME NEW S, IsFiniteSet(S), ~ (Cardinality(S) > 1), NEW x \in S, NEW y \in S
    PROVE  x = y
<1> SUFFICES ASSUME x # y PROVE FALSE
  OBVIOUS
<1>1. IsFiniteSet(S \ {x}) /\ Cardinality(S \ {x}) = Cardinality(S) - 1
  BY FS_RemoveElement
<1>2. Cardinality(S \ {x}) # 0
  BY <1>1, FS_EmptySet
<1>3. Cardinality(S) \in Nat /\ Cardinality(S \ {x}) \in Nat
  BY <1>1, FS_CardinalityType
<1> QED BY <1>1, <1>2, <1>3

(* Documents of one shard, or of two, clash only if one of them is of a    *)
(* main file or aliased: if not, both are of the only hash of the path,    *)
(* that is of one and the same file.                                       *)
LEMMA ClashOfShards ==
    ASSUME InputInv, NEW i \in DOMAIN shards, NEW k \in DOMAIN shards,
           NEW a \in DOMAIN shards[i].docs, NEW b \in DOMAIN shards[k].docs,
           i # k \/ a # b, Clash(shards[i].docs[a], shards[k].docs[b])
    PROVE  RepeatedDocument(shards[i].docs[a].path)
<1>1. /\ \A path \in DOMAIN hashesSoFar : IsFiniteSet(hashesSoFar[path])
      /\ \A j \in DOMAIN shards : \A c \in DOMAIN shards[j].docs :
            \/ IsMain(shards[j], c) \/ IsAliased(shards[j], c)
            \/ /\ shards[j].files[c].path \in DOMAIN hashesSoFar
               /\ shards[j].files[c].hash \in hashesSoFar[shards[j].files[c].path]
      /\ shards[i].files[a] = shards[k].files[b] =>
            IsMain(shards[i], a) \/ IsMain(shards[k], b)
  BY DEF InputInv, ArePlanned
<1>2. PICK p : p = shards[i].docs[a].path
  OBVIOUS
<1>3. /\ shards[k].docs[b].path = p
      /\ p \in DOMAIN hashesSoFar /\ ~ (Cardinality(hashesSoFar[p]) > 1)
  BY <1>2 DEF Clash, isMultiplyIndexedApproximate
<1>4. /\ IsFile(shards[i].files[a]) /\ shards[i].files[a].path = p
      /\ IsFile(shards[k].files[b]) /\ shards[k].files[b].path = p
  BY <1>2, <1>3 DEF InputInv, AreShards, IsShard
<1>5. \/ IsMain(shards[i], a) \/ IsAliased(shards[i], a)
      \/ IsMain(shards[k], b) \/ IsAliased(shards[k], b)
  <2> SUFFICES ASSUME ~IsMain(shards[i], a), ~IsAliased(shards[i], a),
                      ~IsMain(shards[k], b), ~IsAliased(shards[k], b)
               PROVE  FALSE
    OBVIOUS
  <2>1. /\ shards[i].files[a].hash \in hashesSoFar[p]
        /\ shards[k].files[b].hash \in hashesSoFar[p]
    BY <1>1, <1>4
  <2>2. shards[i].files[a].hash = shards[k].files[b].hash
    BY <1>1, <1>3, <2>1, AtMostOne
  <2>3. shards[i].files[a].root = "project" /\ shards[k].files[b].root = "project"
    BY DEF IsAliased
  <2>4. shards[i].files[a] = shards[k].files[b]
    BY <1>4, <2>2, <2>3 DEF IsFile
  <2> QED BY <1>1, <2>4
<1> QED BY <1>2, <1>3, <1>5 DEF RepeatedDocument

(* A shard that is opened clashes with none before it, by the plan.        *)
LEMMA ReadIndexShardOnce ==
    ASSUME InputInv, ReaderInv, OnceInv, ReadIndexShard
    PROVE  OnceInv'
<1>1. /\ phase = "documents" /\ phase' = "documents" /\ next <= Len(shards)
      /\ queue' = (IF shards[next].docsReadable THEN QueueOf(shards[next]) ELSE <<>>)
      /\ next' = next + 1 /\ UNCHANGED input /\ documents' = documents
  BY DEF ReadIndexShard, QueueOf, builder
<1>2. shards' = shards
  BY <1>1, InputStays
<1>3. next \in DOMAIN shards /\ IsShard(shards[next])
  BY <1>1, <1>2, ShardsLeft DEF ReaderInv
<1>4. PendingDocuments' = PendingDocuments
  BY ReadIndexShardPending
<1>5. AddedOnce'
  BY <1>1, PathsStay DEF OnceInv, AddedOnce
<1>6. PendingOnce'
  BY <1>1, <1>4, PathsStay DEF OnceInv, PendingOnce
<1>7. PICK n : n = next
  OBVIOUS
<1>8. ASSUME NEW a \in DOMAIN queue', queue'[a].kind = "document"
      PROVE  a \in DOMAIN shards[n].docs /\ queue'[a].item = shards[n].docs[a]
  <2>1. queue' = QueueOf(shards[n])
    BY <1>1, <1>7, <1>8, EmptySequence
  <2> QED BY <1>3, <1>7, <1>8, <2>1, QueueOfShard
<1>9. ASSUME NEW a \in DOMAIN queue', queue'[a].kind = "document",
             NEW k \in DOMAIN shards, NEW b \in DOMAIN shards[k].docs,
             k # n \/ a # b, Clash(queue'[a].item, shards[k].docs[b])
      PROVE  RepeatedDocument(queue'[a].item.path)
  BY <1>3, <1>7, <1>8, <1>9, ClashOfShards
<1>10. QueueOnce'
  <2> SUFFICES ASSUME NEW a \in DOMAIN queue', queue'[a].kind = "document"
               PROVE  /\ \A b \in DOMAIN queue' :
                            /\ a # b /\ queue'[b].kind = "document"
                            /\ Clash(queue'[a].item, queue'[b].item)
                            => RepeatedDocument(queue'[a].item.path)
                      /\ \A k \in (n + 1) .. Len(shards) : \A b \in DOMAIN shards[k].docs :
                            Clash(queue'[a].item, shards[k].docs[b])
                            => RepeatedDocument(queue'[a].item.path)
    BY <1>1, <1>2, <1>7, PathsStay DEF QueueOnce
  <2>1. ASSUME NEW b \in DOMAIN queue', a # b, queue'[b].kind = "document",
               Clash(queue'[a].item, queue'[b].item)
        PROVE  RepeatedDocument(queue'[a].item.path)
    BY <1>3, <1>7, <1>8, <1>9, <2>1
  <2>2. ASSUME NEW k \in (n + 1) .. Len(shards), NEW b \in DOMAIN shards[k].docs,
               Clash(queue'[a].item, shards[k].docs[b])
        PROVE  RepeatedDocument(queue'[a].item.path)
    <3>1. k \in DOMAIN shards /\ k # n
      BY <1>7, SequenceDomain DEF InputInv, AreShards, ReaderInv
    <3> QED BY <1>9, <2>2, <3>1
  <2> QED BY <2>1, <2>2
<1> QED BY <1>5, <1>6, <1>10 DEF OnceInv

(* The rest of the queue.                                                  *)
LEMMA TakeItemOnce ==
    ASSUME InputInv, ReaderInv, QueueOnce, phase = "documents",
           queue # <<>>, queue' = Tail(queue), next' = next, UNCHANGED input
    PROVE  QueueOnce'
<1>1. /\ \A i \in DOMAIN queue' : i + 1 \in DOMAIN queue /\ queue'[i] = queue[i + 1]
      /\ IsSequence(queue')
  BY TakeFirst DEF ReaderInv
<1>2. shards' = shards /\ DOMAIN queue' \subseteq Nat
  BY <1>1, InputStays, SequenceDomain
<1>3. PICK n : n = next
  OBVIOUS
<1> SUFFICES ASSUME NEW a \in DOMAIN queue', queue'[a].kind = "document"
             PROVE  /\ \A b \in DOMAIN queue' :
                          /\ a # b /\ queue'[b].kind = "document"
                          /\ Clash(queue'[a].item, queue'[b].item)
                          => RepeatedDocument(queue'[a].item.path)
                    /\ \A k \in n .. Len(shards) : \A b \in DOMAIN shards[k].docs :
                          Clash(queue'[a].item, shards[k].docs[b])
                          => RepeatedDocument(queue'[a].item.path)
  BY <1>2, <1>3, PathsStay DEF QueueOnce
<1>4. a + 1 \in DOMAIN queue /\ queue'[a] = queue[a + 1]
  BY <1>1
<1>5. ASSUME NEW b \in DOMAIN queue', a # b
      PROVE  b + 1 \in DOMAIN queue /\ queue'[b] = queue[b + 1] /\ a + 1 # b + 1
  BY <1>1, <1>2, <1>5
<1> QED BY <1>3, <1>4, <1>5 DEF QueueOnce

-----------------------------------------------------------------------------
(***************************************************************************)
(* Adding documents and external symbols.                                  *)
(***************************************************************************)

(* An assignment to a hash table.                                          *)
LEMMA PutOne ==
    ASSUME NEW f, NEW key, NEW value
    PROVE  /\ DOMAIN Put(f, key, value) = DOMAIN f \cup {key}
           /\ Put(f, key, value)[key] = value
           /\ \A k \in DOMAIN f : k # key => Put(f, key, value)[k] = f[k]
           /\ Put(f, key, value) =
                 [k \in DOMAIN Put(f, key, value) |-> Put(f, key, value)[k]]
BY DEF Put

(* A document is its own source.                                           *)
LEMMA ComesFromItself ==
    ASSUME NEW docs, NEW d \in docs
    PROVE  ComesFrom(d, docs)
BY DEF ComesFrom

(* AddDocument when the path is multiply indexed: v is what is stored.     *)
LEMMA AddMultiplyIndexed ==
    ASSUME BuilderInv, ContentInv, NEW doc, NEW v, UNCHANGED input,
           multiplyIndexed' = Put(multiplyIndexed, doc.path, v),
           documents' = documents, externalSymbols' = externalSymbols,
           isMultiplyIndexedApproximate(doc.path),
           PendingDocuments = {doc} \cup PendingDocuments',
           IsDocument(v), v.path = doc.path, Covers(v, doc),
           ComesFrom(v, ReadDocuments),
           doc.path \in DOMAIN multiplyIndexed => Covers(v, multiplyIndexed[doc.path])
    PROVE  BuilderInv' /\ ContentInv'
<1> DEFINE m == multiplyIndexed'
           p == doc.path
<1>1. /\ DOMAIN m = DOMAIN multiplyIndexed \cup {p} /\ m[p] = v
      /\ \A k \in DOMAIN multiplyIndexed : k # p => m[k] = multiplyIndexed[k]
      /\ m = [k \in DOMAIN m |-> m[k]]
  <2>1. m = Put(multiplyIndexed, p, v)
    OBVIOUS
  <2> HIDE DEF m, p
  <2> QED BY <2>1 DEF Put
<1>2. ReadDocuments' = ReadDocuments
  BY InputStays
<1>3. \A k \in DOMAIN m : IsDocument(m[k]) /\ m[k].path = k /\ isMultiplyIndexedApproximate(k)
  BY <1>1 DEF BuilderInv
<1>4. IsFiniteSet(DOMAIN m)
  BY <1>1, FS_AddElement DEF BuilderInv
<1> HIDE DEF m, p
<1>5. BuilderInv'
  BY <1>1, <1>3, <1>4, PathsStay DEF BuilderInv, m
<1>6. BuilderDocs' = ToSet(documents) \cup Range(m)
  BY DEF BuilderDocs, m
<1>7. v \in BuilderDocs'
  BY <1>1, <1>6 DEF Range
<1>8. \A d \in BuilderDocs : \E e \in BuilderDocs' : Covers(e, d)
  <2> SUFFICES ASSUME NEW d \in BuilderDocs PROVE \E e \in BuilderDocs' : Covers(e, d)
    OBVIOUS
  <2>1. CASE d \in ToSet(documents)
    BY <1>6, <2>1, CoversItself
  <2>2. CASE d \in Range(multiplyIndexed)
    <3>1. PICK k \in DOMAIN multiplyIndexed : d = multiplyIndexed[k]
      BY <2>2 DEF Range
    <3>2. CASE k = p
      BY <1>7, <3>1, <3>2 DEF p
    <3>3. CASE k # p
      <4>1. d \in BuilderDocs'
        BY <1>1, <1>6, <3>1, <3>3 DEF Range
      <4> QED BY <4>1, CoversItself
    <3> QED BY <3>2, <3>3
  <2> QED BY <2>1, <2>2 DEF BuilderDocs
<1>9. \A r \in PendingDocuments : r \in PendingDocuments' \/ \E e \in BuilderDocs' : Covers(e, r)
  BY <1>7
<1>10. NoneLost(ReadDocuments, PendingDocuments', BuilderDocs')
  BY <1>8, <1>9, NoneLostStep DEF ContentInv
<1>11. \A e \in BuilderDocs' : e = v \/ e \in BuilderDocs
  BY <1>1, <1>6 DEF BuilderDocs, Range
<1>12. NoneMadeUp(ReadDocuments, BuilderDocs')
  BY <1>11 DEF ContentInv, NoneMadeUp
<1> QED BY <1>2, <1>5, <1>10, <1>12 DEF ContentInv

(* AddDocument when the path has one hash.                                 *)
LEMMA AddSinglyIndexed ==
    ASSUME BuilderInv, ContentInv, NEW doc, UNCHANGED input,
           documents' = Append(documents, doc),
           multiplyIndexed' = multiplyIndexed, externalSymbols' = externalSymbols,
           ~ isMultiplyIndexedApproximate(doc.path), IsDocument(doc),
           PendingDocuments = {doc} \cup PendingDocuments', doc \in ReadDocuments
    PROVE  BuilderInv' /\ ContentInv'
<1>1. /\ IsSequence(documents') /\ ToSet(documents') = {doc} \cup ToSet(documents)
      /\ Len(documents) \in Nat /\ DOMAIN documents = 1 .. Len(documents)
      /\ DOMAIN documents' = 1 .. (Len(documents) + 1)
      /\ \A i \in DOMAIN documents : documents'[i] = documents[i]
      /\ documents'[Len(documents) + 1] = doc
  BY AppendOne DEF BuilderInv
<1>2. \A i \in DOMAIN documents' : i \in DOMAIN documents \/ i = Len(documents) + 1
  BY <1>1
<1>3. \A i \in DOMAIN documents' :
          IsDocument(documents'[i]) /\ ~ isMultiplyIndexedApproximate(documents'[i].path)
  BY <1>1, <1>2 DEF BuilderInv
<1>4. BuilderInv'
  BY <1>1, <1>3, PathsStay DEF BuilderInv
<1>5. BuilderDocs' = {doc} \cup BuilderDocs
  BY <1>1 DEF BuilderDocs
<1>6. NoneLost(ReadDocuments, PendingDocuments', BuilderDocs')
  <2>1. \A d \in BuilderDocs : \E e \in BuilderDocs' : Covers(e, d)
    BY <1>5, CoversItself
  <2>2. \A r \in PendingDocuments :
            r \in PendingDocuments' \/ \E e \in BuilderDocs' : Covers(e, r)
    BY <1>5, CoversItself
  <2> QED BY <2>1, <2>2, NoneLostStep DEF ContentInv
<1>7. NoneMadeUp(ReadDocuments, BuilderDocs')
  BY <1>5, ComesFromItself DEF ContentInv, NoneMadeUp
<1> QED BY <1>4, <1>6, <1>7, InputStays DEF ContentInv

(* A document that is added clashes with none that is not of a main file   *)
(* of two commands.                                                        *)
LEMMA AddDocumentOnce ==
    ASSUME InputInv, ReaderInv, BuilderInv, OnceInv, phase = "documents",
           queue # <<>>, queue' = Tail(queue), next' = next, UNCHANGED input,
           NEW doc, Head(queue) = queue[1], queue[1].kind = "document",
           queue[1].item = doc,
           PendingDocuments = {doc} \cup PendingDocuments', phase' = "documents",
           documents' = Append(documents, doc)
    PROVE  AddedOnce' /\ PendingOnce'
<1>1. /\ Len(documents) \in Nat /\ DOMAIN documents = 1 .. Len(documents)
      /\ DOMAIN documents' = 1 .. (Len(documents) + 1)
      /\ \A i \in DOMAIN documents : documents'[i] = documents[i]
      /\ documents'[Len(documents) + 1] = doc
  BY AppendOne DEF BuilderInv
<1>2. PICK n : n = Len(documents) + 1
  OBVIOUS
<1>3. /\ documents'[n] = doc
      /\ \A i \in DOMAIN documents' :
            i = n \/ (i \in DOMAIN documents /\ documents'[i] = documents[i])
  BY <1>1, <1>2
<1>4. ASSUME NEW i \in DOMAIN documents, Clash(documents[i], doc)
      PROVE  RepeatedDocument(doc.path)
  BY <1>4 DEF OnceInv, PendingOnce
<1>5. AddedOnce'
  <2> SUFFICES ASSUME NEW i \in DOMAIN documents', NEW k \in DOMAIN documents', i # k,
                      Clash(documents'[i], documents'[k])
               PROVE  RepeatedDocument(documents'[i].path)
    BY PathsStay DEF AddedOnce
  <2>1. documents'[i].path = documents'[k].path
    BY DEF Clash
  <2>2. CASE i = n
    <3>1. k \in DOMAIN documents /\ Clash(documents[k], doc)
      BY <1>3, <2>2 DEF Clash
    <3> QED BY <1>3, <1>4, <2>2, <3>1
  <2>3. CASE k = n
    <3>1. i \in DOMAIN documents /\ Clash(documents[i], doc)
      BY <1>3, <2>3
    <3> QED BY <1>3, <1>4, <2>1, <2>3, <3>1
  <2>4. CASE i # n /\ k # n
    <3>1. i \in DOMAIN documents /\ k \in DOMAIN documents
          /\ documents'[i] = documents[i] /\ documents'[k] = documents[k]
      BY <1>3, <2>4
    <3> QED BY <3>1 DEF OnceInv, AddedOnce
  <2> QED BY <2>2, <2>3, <2>4
<1>6. ASSUME NEW e \in PendingDocuments', Clash(doc, e)
      PROVE  RepeatedDocument(doc.path)
  <2>1. /\ \A i \in DOMAIN queue' : i + 1 \in DOMAIN queue /\ i + 1 # 1 /\ queue'[i] = queue[i + 1]
        /\ 1 \in DOMAIN queue
    BY TakeFirst DEF ReaderInv
  <2>2. CASE e \in Items(queue', "document")
    <3>1. PICK i \in DOMAIN queue' : queue'[i].kind = "document" /\ queue'[i].item = e
      BY <2>2 DEF Items, ToSet
    <3>2. /\ i + 1 \in DOMAIN queue /\ i + 1 # 1
          /\ queue[i + 1].kind = "document" /\ queue[i + 1].item = e
      BY <2>1, <3>1
    <3> QED BY <1>6, <2>1, <3>2 DEF OnceInv, QueueOnce
  <2>3. CASE e \in UNION {ToSet(shards[k].docs) : k \in LaterShards}
    <3>1. PICK k \in LaterShards : e \in ToSet(shards[k].docs)
      BY <2>3
    <3>2. PICK b \in DOMAIN shards[k].docs : e = shards[k].docs[b]
      BY <3>1 DEF ToSet
    <3>3. k \in next .. Len(shards)
      BY <3>1 DEF LaterShards
    <3> QED BY <1>6, <2>1, <3>2, <3>3 DEF OnceInv, QueueOnce
  <2>4. LaterShards' = LaterShards /\ shards' = shards
    BY InputStays DEF LaterShards
  <2> QED BY <2>2, <2>3, <2>4 DEF PendingDocuments
<1>7. PendingOnce'
  <2> SUFFICES ASSUME NEW i \in DOMAIN documents', NEW e \in PendingDocuments',
                      Clash(documents'[i], e)
               PROVE  RepeatedDocument(e.path)
    BY PathsStay DEF PendingOnce
  <2>1. CASE i = n
    BY <1>3, <1>6, <2>1 DEF Clash
  <2>2. CASE i # n
    <3>1. i \in DOMAIN documents /\ documents'[i] = documents[i] /\ e \in PendingDocuments
      BY <1>3, <2>2
    <3> QED BY <3>1 DEF OnceInv, PendingOnce
  <2> QED BY <2>1, <2>2
<1> QED BY <1>5, <1>7

(* In the first pass nothing is resolved and nothing is written.           *)
LEMMA FirstPass ==
    ASSUME MergeInv, phase = "documents", phase' = "documents", UNCHANGED input,
           forwardDeclOccurrences' = forwardDeclOccurrences
    PROVE  InputInv' /\ ResolverInv' /\ ForwardInv' /\ OutputInv'
<1>1. ReadForwards' = ReadForwards /\ InputInv'
  BY InputStays DEF MergeInv, ShapeInv
<1>2. PendingForwards' = ReadForwards'
  BY DEF PendingForwards
<1>3. forwardDeclOccurrences' = {}
  BY DEF MergeInv, ForwardInv
<1>4. ForwardInv'
  BY <1>2, <1>3 DEF ForwardInv
<1> QED BY <1>1, <1>4 DEF ResolverInv, OutputInv

(* Opening a shard, readable or not, keeps the invariant.                  *)
LEMMA ReadIndexShardKeeps ==
    ASSUME MergeInv, ReadIndexShard
    PROVE  MergeInv'
<1>1. /\ phase = "documents" /\ phase' = "documents" /\ UNCHANGED <<input, builder>>
  BY DEF ReadIndexShard
<1>2. /\ documents' = documents /\ multiplyIndexed' = multiplyIndexed
      /\ externalSymbols' = externalSymbols
      /\ forwardDeclOccurrences' = forwardDeclOccurrences
  BY <1>1 DEF builder
<1>3. InputInv /\ ReaderInv /\ BuilderInv /\ ContentInv /\ OnceInv /\ ExternalInv
  BY DEF MergeInv, ShapeInv
<1>4. /\ PendingDocuments' = PendingDocuments /\ PendingExternals' = PendingExternals
      /\ ReaderInv'
  BY <1>3, ReadIndexShardPending
<1>5. ReadDocuments' = ReadDocuments /\ ReadExternals' = ReadExternals
  BY <1>1, InputStays
<1>6. BuilderInv'
  BY <1>1, <1>2, <1>3, PathsStay DEF BuilderInv
<1>7. BuilderDocs' = BuilderDocs
  BY <1>2 DEF BuilderDocs
<1>8. ContentInv'
  BY <1>3, <1>4, <1>5, <1>7 DEF ContentInv
<1>9. ExternalInv'
  BY <1>1, <1>2, <1>3, <1>4, <1>5 DEF ExternalInv
<1> QED BY <1>1, <1>2, <1>3, <1>4, <1>6, <1>8, <1>9, FirstPass, ReadIndexShardOnce
        DEF MergeInv, ShapeInv

(* IndexBuilder::addDocument keeps the invariant, for a path of one hash   *)
(* and of several.                                                         *)
LEMMA AddDocumentKeeps ==
    ASSUME MergeInv, AddDocument
    PROVE  MergeInv'
<1>1. PICK doc : doc = Head(queue).item
  OBVIOUS
<1>2. /\ phase = "documents" /\ phase' = "documents" /\ queue # <<>> /\ queue' = Tail(queue)
      /\ Head(queue).kind = "document" /\ next' = next /\ UNCHANGED input
      /\ externalSymbols' = externalSymbols
      /\ forwardDeclOccurrences' = forwardDeclOccurrences
  BY DEF AddDocument
<1>3. InputInv /\ ReaderInv /\ BuilderInv /\ ContentInv /\ OnceInv /\ ExternalInv
  BY DEF MergeInv, ShapeInv
<1>4. /\ PendingDocuments = {doc} \cup PendingDocuments'
      /\ PendingExternals' = PendingExternals
      /\ ReaderInv' /\ doc \in ReadDocuments
  BY <1>1, <1>2, <1>3, TakeItemPending
<1>5. IsDocument(doc) /\ ComesFrom(doc, ReadDocuments)
  BY <1>3, <1>4, ReadItems, ComesFromItself
<1>6. ReadExternals' = ReadExternals
  BY <1>2, InputStays
<1>7. ExternalInv'
  BY <1>2, <1>3, <1>4, <1>6 DEF ExternalInv
<1>8. QueueOnce'
  BY <1>2, <1>3, TakeItemOnce DEF OnceInv
<1>9. CASE isMultiplyIndexedApproximate(doc.path)
  <2> DEFINE v == IF doc.path \in DOMAIN multiplyIndexed
                  THEN merge(multiplyIndexed[doc.path], doc) ELSE doc
  <2>1. multiplyIndexed' = Put(multiplyIndexed, doc.path, v) /\ documents' = documents
    BY <1>1, <1>9 DEF AddDocument
  <2>2. /\ IsDocument(v) /\ v.path = doc.path /\ Covers(v, doc)
        /\ ComesFrom(v, ReadDocuments)
        /\ doc.path \in DOMAIN multiplyIndexed => Covers(v, multiplyIndexed[doc.path])
    <3>1. CASE doc.path \in DOMAIN multiplyIndexed
      <4>1. PICK d : d = multiplyIndexed[doc.path]
        OBVIOUS
      <4>2. IsDocument(d) /\ d.path = doc.path
        BY <1>3, <3>1, <4>1 DEF BuilderInv
      <4>3. d \in BuilderDocs
        BY <3>1, <4>1 DEF BuilderDocs, Range
      <4>4. ComesFrom(d, ReadDocuments)
        BY <1>3, <4>3 DEF ContentInv, NoneMadeUp
      <4>5. v = merge(d, doc)
        BY <3>1, <4>1
      <4> QED BY <1>5, <4>1, <4>2, <4>4, <4>5, MergeKeeps
    <3>2. CASE doc.path \notin DOMAIN multiplyIndexed
      BY <1>5, <3>2, CoversItself
    <3> QED BY <3>1, <3>2
  <2> HIDE DEF v
  <2>3. BuilderInv' /\ ContentInv'
    BY <1>2, <1>3, <1>4, <1>9, <2>1, <2>2, AddMultiplyIndexed
  <2>4. AddedOnce' /\ PendingOnce'
    <3>1. AddedOnce'
      BY <1>2, <1>3, <2>1, PathsStay DEF OnceInv, AddedOnce
    <3>2. PendingOnce'
      BY <1>2, <1>3, <1>4, <2>1, PathsStay DEF OnceInv, PendingOnce
    <3> QED BY <3>1, <3>2
  <2> QED BY <1>2, <1>4, <1>7, <1>8, <2>3, <2>4, FirstPass DEF MergeInv, ShapeInv, OnceInv
<1>10. CASE ~ isMultiplyIndexedApproximate(doc.path)
  <2>1. documents' = Append(documents, doc) /\ multiplyIndexed' = multiplyIndexed
    BY <1>1, <1>10 DEF AddDocument
  <2>2. BuilderInv' /\ ContentInv'
    BY <1>2, <1>3, <1>4, <1>5, <1>10, <2>1, AddSinglyIndexed
  <2>3. Head(queue) = queue[1]
    BY <1>2, <1>3, TakeFirst DEF ReaderInv
  <2>4. AddedOnce' /\ PendingOnce'
    BY <1>1, <1>2, <1>3, <1>4, <2>1, <2>3, AddDocumentOnce
  <2> QED BY <1>2, <1>4, <1>7, <1>8, <2>2, <2>4, FirstPass DEF MergeInv, ShapeInv, OnceInv
<1> QED BY <1>9, <1>10

(* IndexBuilder::addExternalSymbol keeps the invariant.                    *)
LEMMA AddExternalSymbolKeeps ==
    ASSUME MergeInv, AddExternalSymbol
    PROVE  MergeInv'
<1>1. PICK ext : ext = Head(queue).item
  OBVIOUS
<1> DEFINE old == externalSymbols[ext.name]
           v == IF ext.name \in DOMAIN externalSymbols
                THEN IF ext.info.docs = <<>>
                     THEN [old EXCEPT !.rels = @ \cup ext.info.rels]
                     ELSE MergeSymbolInfo(old, ext.info)
                ELSE ext.info
<1>2. /\ phase = "documents" /\ phase' = "documents" /\ queue # <<>> /\ queue' = Tail(queue)
      /\ Head(queue).kind = "external" /\ next' = next /\ UNCHANGED input
      /\ documents' = documents /\ multiplyIndexed' = multiplyIndexed
      /\ forwardDeclOccurrences' = forwardDeclOccurrences
      /\ externalSymbols' = Put(externalSymbols, ext.name, v)
  BY <1>1 DEF AddExternalSymbol
<1>3. InputInv /\ ReaderInv /\ BuilderInv /\ ContentInv /\ OnceInv /\ ExternalInv
  BY DEF MergeInv, ShapeInv
<1>4. /\ PendingExternals = {ext} \cup PendingExternals'
      /\ PendingDocuments' = PendingDocuments
      /\ ReaderInv' /\ ext \in ReadExternals
  BY <1>1, <1>2, <1>3, TakeItemPending
<1>5. /\ IsSymbolInfo(v)
      /\ hasDocumentation(ext.info.docs) => hasDocumentation(v.docs)
      /\ ext.name \in DOMAIN externalSymbols /\ hasDocumentation(old.docs) =>
            hasDocumentation(v.docs)
  <2>1. IsSymbolInfo(ext.info)
    BY <1>3, <1>4, ReadItems
  <2>2. CASE ext.name \notin DOMAIN externalSymbols
    BY <2>1, <2>2
  <2>3. CASE ext.name \in DOMAIN externalSymbols
    <3>1. IsSymbolInfo(old)
      BY <1>3, <2>3 DEF BuilderInv, IsSymbolTable
    <3>2. CASE ext.info.docs = <<>>
      <4>1. ~ hasDocumentation(ext.info.docs)
        BY <3>2 DEF hasDocumentation
      <4>2. v = [old EXCEPT !.rels = @ \cup ext.info.rels]
        BY <2>3, <3>2
      <4>3. v = [docs |-> old.docs, rels |-> old.rels \cup ext.info.rels]
        BY <3>1, <4>2 DEF IsSymbolInfo
      <4> HIDE DEF v, old
      <4> QED BY <4>1, <4>3 DEF IsSymbolInfo
    <3>3. CASE ext.info.docs # <<>>
      <4>1. v = MergeSymbolInfo(old, ext.info)
        BY <2>3, <3>3
      <4> HIDE DEF v, old
      <4> QED BY <4>1, MergeInfo
    <3> QED BY <3>2, <3>3
  <2> QED BY <2>2, <2>3
<1>6. /\ DOMAIN externalSymbols' = DOMAIN externalSymbols \cup {ext.name}
      /\ externalSymbols'[ext.name] = v
      /\ \A k \in DOMAIN externalSymbols : k # ext.name => externalSymbols'[k] = externalSymbols[k]
      /\ externalSymbols' = [k \in DOMAIN externalSymbols' |-> externalSymbols'[k]]
  <2> HIDE DEF v
  <2> QED BY <1>2 DEF Put
<1> HIDE DEF v, old
<1>7. IsSymbolTable(externalSymbols')
  BY <1>3, <1>5, <1>6 DEF BuilderInv, IsSymbolTable
<1>8. BuilderInv'
  BY <1>2, <1>3, <1>7, PathsStay DEF BuilderInv
<1>9. ReadDocuments' = ReadDocuments /\ ReadExternals' = ReadExternals
  BY <1>2, InputStays
<1>10. BuilderDocs' = BuilderDocs
  BY <1>2 DEF BuilderDocs
<1>11. ContentInv'
  BY <1>3, <1>4, <1>9, <1>10 DEF ContentInv
<1>12. ExternalInv'
  <2> SUFFICES ASSUME NEW e \in ReadExternals, e \notin PendingExternals'
               PROVE  /\ e.name \in DOMAIN externalSymbols'
                      /\ hasDocumentation(e.info.docs) =>
                            hasDocumentation(externalSymbols'[e.name].docs)
    BY <1>9 DEF ExternalInv
  <2>1. CASE e = ext
    BY <1>5, <1>6, <2>1
  <2>2. CASE e # ext
    <3>1. /\ e.name \in DOMAIN externalSymbols
          /\ hasDocumentation(e.info.docs) => hasDocumentation(externalSymbols[e.name].docs)
      BY <1>2, <1>3, <1>4, <2>2 DEF ExternalInv
    <3>2. CASE e.name = ext.name
      BY <1>5, <1>6, <3>1, <3>2 DEF old
    <3>3. CASE e.name # ext.name
      BY <1>6, <3>1, <3>3
    <3> QED BY <3>2, <3>3
  <2> QED BY <2>1, <2>2
<1>13. OnceInv'
  <2>1. QueueOnce'
    BY <1>2, <1>3, TakeItemOnce DEF OnceInv
  <2>2. AddedOnce'
    BY <1>2, <1>3, PathsStay DEF OnceInv, AddedOnce
  <2>3. PendingOnce'
    BY <1>2, <1>3, <1>4, PathsStay DEF OnceInv, PendingOnce
  <2> QED BY <2>1, <2>2, <2>3 DEF OnceInv
<1> QED BY <1>2, <1>4, <1>8, <1>11, <1>12, <1>13, FirstPass DEF MergeInv, ShapeInv

-----------------------------------------------------------------------------
(***************************************************************************)
(* Between the passes.                                                     *)
(***************************************************************************)

(* The slots of the resolver are the symbols of the documents, in          *)
(* whichever order the hash table is.                                      *)
LEMMA SlotsOfOrder ==
    ASSUME BuilderInv,
           NEW order \in [1 .. Cardinality(DOMAIN multiplyIndexed) -> DOMAIN multiplyIndexed],
           IsInjective(order)
    PROVE  \A x : x \in UNION Range(SlotGroups(order)) <=>
               \/ \E i \in DOMAIN documents : x \in SlotsIn("documents", i, documents[i])
               \/ \E p \in DOMAIN multiplyIndexed :
                     x \in SlotsIn("multiplyIndexed", p, multiplyIndexed[p])
<1> DEFINE a == [i \in DOMAIN documents |-> SlotsIn("documents", i, documents[i])]
           b == [i \in DOMAIN order |->
                   SlotsIn("multiplyIndexed", order[i], multiplyIndexed[order[i]])]
<1>1. IsSequence(order) /\ ToSet(order) = DOMAIN multiplyIndexed
  BY AnyOrder DEF BuilderInv
<1>2. Len(order) \in Nat /\ DOMAIN order = 1 .. Len(order)
      /\ Len(documents) \in Nat /\ DOMAIN documents = 1 .. Len(documents)
  BY <1>1, SequenceDomain DEF BuilderInv
<1>3. IsSequence(a)
  <2>1. a = [i \in 1 .. Len(documents) |-> a[i]]
    BY <1>2
  <2> QED BY <1>2, <2>1, FunctionSequence
<1>4. IsSequence(b)
  <2>1. b = [i \in 1 .. Len(order) |-> b[i]]
    BY <1>2
  <2> QED BY <1>2, <2>1, FunctionSequence
<1>5. SlotGroups(order) = a \o b
  BY DEF SlotGroups
<1>6. /\ \A x : x \in UNION ToSet(a) <=>
            \E i \in DOMAIN documents : x \in SlotsIn("documents", i, documents[i])
      /\ \A x : x \in UNION ToSet(b) <=>
            \E i \in DOMAIN order :
                x \in SlotsIn("multiplyIndexed", order[i], multiplyIndexed[order[i]])
  BY DEF ToSet
<1> HIDE DEF a, b
<1>7. Range(SlotGroups(order)) = ToSet(a) \cup ToSet(b)
  <2>1. ToSet(a \o b) = ToSet(a) \cup ToSet(b)
    BY <1>3, <1>4, Concatenation
  <2> QED BY <1>5, <2>1 DEF Range, ToSet
<1>8. \A x : (\E i \in DOMAIN order :
                x \in SlotsIn("multiplyIndexed", order[i], multiplyIndexed[order[i]]))
             <=> \E p \in DOMAIN multiplyIndexed :
                     x \in SlotsIn("multiplyIndexed", p, multiplyIndexed[p])
  BY <1>1 DEF ToSet
<1> QED BY <1>6, <1>7, <1>8

(* Nothing is left of a pass that is at its end.                           *)
LEMMA NothingPending ==
    ASSUME InputInv, ReaderInv, queue = <<>>, next > Len(shards)
    PROVE  /\ phase = "documents" => PendingDocuments = {} /\ PendingExternals = {}
           /\ phase = "forwardDecls" => PendingForwards = {}
<1>1. Len(shards) \in Nat
  BY SequenceDomain DEF InputInv, AreShards
<1>2. LaterShards = {} /\ LaterForwards = {}
  BY <1>1 DEF LaterShards, LaterForwards, ReaderInv
<1>3. ToSet(queue) = {} /\ Items(queue, "document") = {} /\ Items(queue, "external") = {}
  BY EmptySequence DEF Items
<1> QED BY <1>2, <1>3 DEF PendingDocuments, PendingExternals, PendingForwards

(* The resolver knows what the builder has.                                *)
LEMMA PopulateResolver ==
    ASSUME BuilderInv, PopulateForwardDeclResolver
    PROVE  ResolverInv'
<1>1. PICK order \in [1 .. Cardinality(DOMAIN multiplyIndexed) -> DOMAIN multiplyIndexed] :
          /\ IsInjective(order)
          /\ LET slots == UNION Range(SlotGroups(order))
             IN  /\ docInternalMap' \in [SuffixesOf(slots) -> slots]
                 /\ \A s \in SuffixesOf(slots) :
                       docInternalMap'[s] \in FirstHaving(SlotGroups(order), s)
  BY DEF PopulateForwardDeclResolver
<1> DEFINE slots == UNION Range(SlotGroups(order))
           m == docInternalMap'
<1>2. m \in [SuffixesOf(slots) -> slots] /\ \A s \in SuffixesOf(slots) : m[s].name.suffix = s
  BY <1>1 DEF FirstHaving, Having
<1>3. /\ documents' = documents /\ multiplyIndexed' = multiplyIndexed
      /\ externalSymbols' = externalSymbols
      /\ externalsMap' =
            [suffix \in {n.suffix : n \in DOMAIN externalSymbols} \ {NoSuffix} |->
                {n \in DOMAIN externalSymbols : n.suffix = suffix}]
  BY DEF PopulateForwardDeclResolver, builder
<1>4. \A x : x \in slots <=>
          \/ \E i \in DOMAIN documents : x \in SlotsIn("documents", i, documents[i])
          \/ \E p \in DOMAIN multiplyIndexed :
                x \in SlotsIn("multiplyIndexed", p, multiplyIndexed[p])
  BY <1>1, SlotsOfOrder
<1> HIDE DEF slots, m
<1>5. ASSUME NEW x \in slots PROVE IsSlot(x)
  BY <1>4 DEF IsSlot, SlotsIn
<1>6. ASSUME NEW d \in BuilderDocs, NEW n \in DOMAIN d.syms
      PROVE  n.suffix = NoSuffix \/ n.suffix \in DOMAIN m
  <2>1. \E x \in slots : x.name = n
    <3>1. CASE d \in ToSet(documents)
      <4>1. PICK i \in DOMAIN documents : d = documents[i]
        BY <3>1 DEF ToSet
      <4>2. [list |-> "documents", key |-> i, name |-> n] \in slots
        BY <1>4, <4>1 DEF SlotsIn
      <4> QED BY <4>2
    <3>2. CASE d \in Range(multiplyIndexed)
      <4>1. PICK p \in DOMAIN multiplyIndexed : d = multiplyIndexed[p]
        BY <3>2 DEF Range
      <4>2. [list |-> "multiplyIndexed", key |-> p, name |-> n] \in slots
        BY <1>4, <4>1 DEF SlotsIn
      <4> QED BY <4>2
    <3> QED BY <3>1, <3>2 DEF BuilderDocs
  <2> QED BY <1>2, <2>1 DEF SuffixesOf
<1>7. \A s \in DOMAIN m : IsSlot(m[s]) /\ m[s].name.suffix = s
  BY <1>2, <1>5
<1>8. BuilderDocs' = BuilderDocs /\ \A x : IsSlot(x)' = IsSlot(x)
  BY <1>3 DEF BuilderDocs, IsSlot
<1>9. /\ \A s \in DOMAIN externalsMap' :
            /\ externalsMap'[s] = {n \in DOMAIN externalSymbols : n.suffix = s}
            /\ externalsMap'[s] # {}
      /\ \A n \in DOMAIN externalSymbols :
            n.suffix = NoSuffix \/ n.suffix \in DOMAIN externalsMap'
  BY <1>3
<1> QED BY <1>3, <1>6, <1>7, <1>8, <1>9 DEF ResolverInv, m

(* IndexBuilder::populateForwardDeclResolver keeps the invariant: it runs  *)
(* when no document is left to be read.                                    *)
LEMMA PopulateForwardDeclResolverKeeps ==
    ASSUME MergeInv, PopulateForwardDeclResolver
    PROVE  MergeInv'
<1>1. /\ phase = "documents" /\ queue = <<>> /\ next > Len(shards)
      /\ phase' = "forwardDecls" /\ queue' = <<>> /\ next' = 1 /\ UNCHANGED <<input, builder>>
  BY DEF PopulateForwardDeclResolver
<1>2. /\ documents' = documents /\ multiplyIndexed' = multiplyIndexed
      /\ externalSymbols' = externalSymbols
      /\ forwardDeclOccurrences' = forwardDeclOccurrences
  BY <1>1 DEF builder
<1>3. InputInv /\ ReaderInv /\ BuilderInv /\ ContentInv /\ OnceInv /\ ExternalInv /\ ForwardInv
  BY DEF MergeInv, ShapeInv
<1>4. /\ ReadDocuments' = ReadDocuments /\ ReadExternals' = ReadExternals
      /\ ReadForwards' = ReadForwards /\ InputInv' /\ shards' = shards
  BY <1>1, <1>3, InputStays
<1>5. PendingDocuments = {} /\ PendingExternals = {}
  BY <1>1, <1>3, NothingPending
<1>6. PendingDocuments' = {} /\ PendingExternals' = {}
  BY <1>1 DEF PendingDocuments, PendingExternals
<1>7. PendingForwards' = ReadForwards'
  <2>1. Len(shards) \in Nat /\ DOMAIN shards = 1 .. Len(shards)
    BY <1>3, SequenceDomain DEF InputInv, AreShards
  <2>2. LaterForwards' = {i \in DOMAIN shards : shards[i].fwdReadable}
    BY <1>1, <1>4, <2>1 DEF LaterForwards
  <2>3. ToSet(queue') = {}
    BY <1>1, EmptySequence
  <2> QED BY <1>1, <1>4, <2>2, <2>3 DEF PendingForwards, ReadForwards
<1>8. ReaderInv'
  BY <1>1, EmptySequence DEF ReaderInv
<1>9. BuilderInv'
  BY <1>1, <1>2, <1>3, PathsStay DEF BuilderInv
<1>10. ContentInv'
  <2>1. BuilderDocs' = BuilderDocs
    BY <1>2 DEF BuilderDocs
  <2> QED BY <1>3, <1>4, <1>5, <1>6, <2>1 DEF ContentInv
<1>11. OnceInv'
  <2>1. AddedOnce'
    BY <1>1, <1>2, <1>3, PathsStay DEF OnceInv, AddedOnce
  <2> QED BY <1>1, <1>6, <2>1 DEF OnceInv, PendingOnce, QueueOnce
<1>12. ForwardInv'
  <2>1. forwardDeclOccurrences' = {}
    BY <1>1, <1>2, <1>3 DEF ForwardInv
  <2> QED BY <1>7, <2>1 DEF ForwardInv
<1>13. ExternalInv'
  BY <1>1, <1>2, <1>3, <1>4, <1>5 DEF ExternalInv
<1>14. OutputInv'
  BY <1>1 DEF OutputInv
<1>15. ResolverInv'
  BY <1>3, PopulateResolver
<1> QED BY <1>4, <1>8, <1>9, <1>10, <1>11, <1>12, <1>13, <1>14, <1>15 DEF MergeInv, ShapeInv

-----------------------------------------------------------------------------
(***************************************************************************)
(* The second pass.                                                        *)
(***************************************************************************)

(* The forward declarations of a shard move into the queue.                *)
LEMMA ReadForwardDeclsPending ==
    ASSUME InputInv, ReaderInv, ReadForwardDecls
    PROVE  PendingForwards' = PendingForwards /\ ReaderInv'
<1>1. /\ phase = "forwardDecls" /\ phase' = "forwardDecls" /\ queue = <<>>
      /\ next <= Len(shards) /\ next' = next + 1 /\ UNCHANGED input
      /\ queue' = IF shards[next].fwdReadable THEN shards[next].fwds ELSE <<>>
  BY DEF ReadForwardDecls
<1>2. shards' = shards /\ ReadForwards' = ReadForwards
  BY <1>1, InputStays
<1>3. /\ next \in DOMAIN shards /\ IsShard(shards[next])
      /\ LaterForwards = LaterForwards' \cup (IF shards[next].fwdReadable THEN {next} ELSE {})
  BY <1>1, <1>2, ShardsLeft DEF ReaderInv
<1>4. next' \in Nat \ {0}
  BY <1>1 DEF ReaderInv
<1>5. PendingForwards = UNION {ToSet(shards[i].fwds) : i \in LaterForwards}
  BY <1>1, EmptySequence DEF PendingForwards
<1>6. PendingForwards' = ToSet(queue') \cup UNION {ToSet(shards[i].fwds) : i \in LaterForwards'}
  BY <1>1, <1>2 DEF PendingForwards
<1>7. CASE ~ shards[next].fwdReadable
  <2>1. queue' = <<>> /\ LaterForwards' = LaterForwards
    BY <1>1, <1>3, <1>7
  <2>2. IsSequence(queue') /\ ToSet(queue') = {}
    BY <2>1, EmptySequence
  <2> QED BY <1>1, <1>4, <1>5, <1>6, <2>1, <2>2 DEF ReaderInv
<1>8. CASE shards[next].fwdReadable
  <2>1. queue' = shards[next].fwds /\ LaterForwards = LaterForwards' \cup {next}
    BY <1>1, <1>3, <1>8
  <2>2. PendingForwards' = PendingForwards
    BY <1>5, <1>6, <2>1
  <2>3. IsSequence(queue') /\ ToSet(queue') \subseteq ReadForwards
    BY <1>3, <1>8, <2>1 DEF IsShard, ReadForwards
  <2> QED BY <1>1, <1>2, <1>4, <2>2, <2>3 DEF ReaderInv
<1> QED BY <1>7, <1>8

(* Opening a shard of the second pass keeps the invariant.                 *)
LEMMA ReadForwardDeclsKeeps ==
    ASSUME MergeInv, ReadForwardDecls
    PROVE  MergeInv'
<1>1. /\ phase = "forwardDecls" /\ phase' = "forwardDecls"
      /\ UNCHANGED <<input, builder, resolver>>
  BY DEF ReadForwardDecls
<1>2. /\ documents' = documents /\ multiplyIndexed' = multiplyIndexed
      /\ externalSymbols' = externalSymbols
      /\ forwardDeclOccurrences' = forwardDeclOccurrences
      /\ docInternalMap' = docInternalMap /\ externalsMap' = externalsMap
  BY <1>1 DEF builder, resolver
<1>3. /\ InputInv /\ ReaderInv /\ BuilderInv /\ ContentInv /\ OnceInv
      /\ ResolverInv /\ ForwardInv /\ ExternalInv
  BY DEF MergeInv, ShapeInv
<1>4. /\ ReadDocuments' = ReadDocuments /\ ReadExternals' = ReadExternals
      /\ ReadForwards' = ReadForwards /\ InputInv' /\ shards' = shards
  BY <1>1, <1>3, InputStays
<1>5. PendingForwards' = PendingForwards /\ ReaderInv'
  BY <1>3, ReadForwardDeclsPending
<1>6. /\ PendingDocuments' = {} /\ PendingExternals' = {}
      /\ PendingDocuments = {} /\ PendingExternals = {}
  BY <1>1 DEF PendingDocuments, PendingExternals
<1>7. BuilderInv'
  BY <1>1, <1>2, <1>3, PathsStay DEF BuilderInv
<1>8. BuilderDocs' = BuilderDocs
  BY <1>2 DEF BuilderDocs
<1>9. ContentInv'
  BY <1>3, <1>4, <1>6, <1>8 DEF ContentInv
<1>10. OnceInv'
  <2>1. AddedOnce'
    BY <1>1, <1>2, <1>3, PathsStay DEF OnceInv, AddedOnce
  <2> QED BY <1>1, <1>6, <2>1 DEF OnceInv, PendingOnce, QueueOnce
<1>11. ResolverInv'
  BY <1>1, <1>2, <1>3, <1>8 DEF ResolverInv, IsSlot
<1>12. /\ \A f : Resolved(f)' = Resolved(f)
       /\ \A s : TargetsOf(s)' = TargetsOf(s)
  BY <1>2 DEF Resolved, TargetsOf, Documented, DocumentOf
<1>13. ForwardInv'
  BY <1>1, <1>2, <1>3, <1>4, <1>5, <1>12 DEF ForwardInv
<1>14. ExternalInv'
  BY <1>1, <1>2, <1>3, <1>4, <1>6 DEF ExternalInv
<1>15. OutputInv'
  BY <1>1 DEF OutputInv
<1> QED BY <1>4, <1>5, <1>7, <1>9, <1>10, <1>11, <1>13, <1>14, <1>15 DEF MergeInv, ShapeInv

(* The documents of the builder after a forward declaration: they are the  *)
(* same, but for documentation that was missing.                           *)
KeptDocuments ==
    /\ IsSequence(documents') /\ DOMAIN documents' = DOMAIN documents
    /\ \A i \in DOMAIN documents : SameButText(documents'[i], documents[i])
    /\ DOMAIN multiplyIndexed' = DOMAIN multiplyIndexed
    /\ multiplyIndexed' = [p \in DOMAIN multiplyIndexed |-> multiplyIndexed'[p]]
    /\ \A p \in DOMAIN multiplyIndexed : SameButText(multiplyIndexed'[p], multiplyIndexed[p])

(* Documents that are left alone are kept.                                 *)
LEMMA UnchangedKept ==
    ASSUME BuilderInv, documents' = documents, multiplyIndexed' = multiplyIndexed
    PROVE  KeptDocuments
BY SameIsSameButText DEF BuilderInv, KeptDocuments

(* If the documents are kept, so is all that the invariant says of them.   *)
LEMMA KeptBuilder ==
    ASSUME BuilderInv, ContentInv, OnceInv, KeptDocuments, IsSymbolTable(externalSymbols'),
           phase = "forwardDecls", phase' = "forwardDecls", UNCHANGED input
    PROVE  /\ BuilderInv' /\ ContentInv' /\ OnceInv'
           /\ \A e \in BuilderDocs' : \E d \in BuilderDocs : DOMAIN e.syms = DOMAIN d.syms
<1>1. BuilderInv'
  BY PathsStay DEF BuilderInv, KeptDocuments, SameButText
<1>2. \A e \in BuilderDocs' : \E d \in BuilderDocs : SameButText(e, d)
  BY DEF BuilderDocs, ToSet, Range, KeptDocuments
<1>3. \A d \in BuilderDocs : \E e \in BuilderDocs' : SameButText(e, d)
  <2> SUFFICES ASSUME NEW d \in BuilderDocs PROVE \E e \in BuilderDocs' : SameButText(e, d)
    OBVIOUS
  <2>1. CASE d \in ToSet(documents)
    <3>1. PICK i \in DOMAIN documents : d = documents[i]
      BY <2>1 DEF ToSet
    <3>2. documents'[i] \in BuilderDocs'
      BY DEF KeptDocuments, BuilderDocs, ToSet
    <3> QED BY <3>1, <3>2 DEF KeptDocuments
  <2>2. CASE d \in Range(multiplyIndexed)
    <3>1. PICK p \in DOMAIN multiplyIndexed : d = multiplyIndexed[p]
      BY <2>2 DEF Range
    <3>2. multiplyIndexed'[p] \in BuilderDocs'
      BY DEF KeptDocuments, BuilderDocs, Range
    <3> QED BY <3>1, <3>2 DEF KeptDocuments
  <2> QED BY <2>1, <2>2 DEF BuilderDocs
<1>4. ReadDocuments' = ReadDocuments /\ PendingDocuments = {} /\ PendingDocuments' = {}
  BY InputStays DEF PendingDocuments
<1>5. NoneLost(ReadDocuments, PendingDocuments', BuilderDocs')
  <2>1. \A d \in BuilderDocs : \E e \in BuilderDocs' : Covers(e, d)
    BY <1>3, SameButTextKeeps
  <2> QED BY <1>4, <2>1, NoneLostStep DEF ContentInv
<1>6. NoneMadeUp(ReadDocuments, BuilderDocs')
  BY <1>2, SameButTextKeeps DEF ContentInv, NoneMadeUp
<1>7. AddedOnce'
  <2> SUFFICES ASSUME NEW i \in DOMAIN documents, NEW k \in DOMAIN documents, i # k,
                      Clash(documents'[i], documents'[k])
               PROVE  RepeatedDocument(documents'[i].path)
    BY PathsStay DEF AddedOnce, KeptDocuments
  <2>1. documents'[i].path = documents[i].path /\ documents'[k].path = documents[k].path
    BY DEF KeptDocuments, SameButText
  <2>2. Clash(documents[i], documents[k])
    BY <2>1 DEF Clash
  <2> QED BY <2>1, <2>2 DEF OnceInv, AddedOnce
<1> QED BY <1>1, <1>2, <1>4, <1>5, <1>6, <1>7
        DEF ContentInv, OnceInv, PendingOnce, QueueOnce, SameButText

(* A slot stays one, and so does the documentation of its symbol.          *)
LEMMA KeptSlots ==
    ASSUME KeptDocuments, NEW slot, IsSlot(slot)
    PROVE  /\ IsSlot(slot)'
           /\ hasDocumentation(DocumentOf(slot).syms[slot.name].docs) =>
                 hasDocumentation(DocumentOf(slot)'.syms[slot.name].docs)
<1>1. CASE slot.list = "documents"
  <2>1. slot.key \in DOMAIN documents /\ slot.name \in DOMAIN documents[slot.key].syms
    BY <1>1 DEF IsSlot
  <2>2. SameButText(documents'[slot.key], documents[slot.key]) /\ slot.key \in DOMAIN documents'
    BY <2>1 DEF KeptDocuments
  <2> QED BY <1>1, <2>1, <2>2 DEF IsSlot, DocumentOf, SameButText
<1>2. CASE slot.list = "multiplyIndexed"
  <2>1. slot.key \in DOMAIN multiplyIndexed /\ slot.name \in DOMAIN multiplyIndexed[slot.key].syms
    BY <1>2 DEF IsSlot
  <2>2. /\ SameButText(multiplyIndexed'[slot.key], multiplyIndexed[slot.key])
        /\ slot.key \in DOMAIN multiplyIndexed'
    BY <2>1 DEF KeptDocuments
  <2> QED BY <1>2, <2>1, <2>2 DEF IsSlot, DocumentOf, SameButText
<1> QED BY <1>1, <1>2 DEF IsSlot

(* What every way of resolving a forward declaration does.                 *)
ExternalsKnown(m, syms) ==
    /\ \A s \in DOMAIN m : m[s] = {n \in DOMAIN syms : n.suffix = s} /\ m[s] # {}
    /\ \A n \in DOMAIN syms : n.suffix = NoSuffix \/ n.suffix \in DOMAIN m

Resolves(fwd) ==
    /\ KeptDocuments /\ docInternalMap' = docInternalMap
    /\ IsSymbolTable(externalSymbols') /\ ExternalsKnown(externalsMap', externalSymbols')
    /\ \A n \in DOMAIN externalSymbols :
          \/ /\ n \in DOMAIN externalSymbols'
             /\ hasDocumentation(externalSymbols[n].docs) =>
                   hasDocumentation(externalSymbols'[n].docs)
          \/ n \notin DOMAIN externalSymbols' /\ n.suffix \in DOMAIN docInternalMap
    /\ \A n \in DOMAIN externalSymbols' :
          n \in DOMAIN externalSymbols \/ n.suffix \notin DOMAIN docInternalMap
    /\ \A s \in DOMAIN externalsMap : s \notin DOMAIN docInternalMap =>
          s \in DOMAIN externalsMap' /\ externalsMap'[s] = externalsMap[s]
    /\ \A s \in DOMAIN externalsMap' : s \in DOMAIN externalsMap \/ s = fwd.suffix
    /\ fwd.suffix \in DOMAIN docInternalMap <=> fwd.suffix \notin DOMAIN externalsMap'
    /\ forwardDeclOccurrences' = forwardDeclOccurrences \cup
          {[path |-> ref.path, range |-> ref.range, name |-> n] :
              ref \in fwd.references, n \in TargetsOf(fwd.suffix)'}
    /\ RealText(<<fwd.doc>>) => Documented(fwd.suffix)'

(* A forward declaration whose suffix a document defines.                  *)
LEMMA UseDocumentResolves ==
    ASSUME BuilderInv, ResolverInv, phase = "forwardDecls", NEW fwd,
           fwd.suffix \in DOMAIN docInternalMap, UseDocument(fwd)
    PROVE  Resolves(fwd)
<1>1. PICK slot : slot = docInternalMap[fwd.suffix]
  OBVIOUS
<1>2. /\ dropExternals(fwd.suffix) /\ docInternalMap' = docInternalMap
      /\ IF slot.list = "multiplyIndexed"
         THEN /\ multiplyIndexed' = [multiplyIndexed EXCEPT
                       ![slot.key] = FilledWith(@, slot.name, fwd)]
              /\ documents' = documents
         ELSE /\ documents' = [documents EXCEPT ![slot.key] = FilledWith(@, slot.name, fwd)]
              /\ multiplyIndexed' = multiplyIndexed
      /\ addForwardDeclOccurrences({slot.name}, fwd)
  BY <1>1 DEF UseDocument, FilledWith
<1>3. IsSlot(slot) /\ slot.name.suffix = fwd.suffix
  BY <1>1 DEF ResolverInv
<1>4. /\ KeptDocuments
      /\ RealText(<<fwd.doc>>) => hasDocumentation(DocumentOf(slot)'.syms[slot.name].docs)
  <2>1. CASE slot.list = "multiplyIndexed"
    <3>0. multiplyIndexed = [p \in DOMAIN multiplyIndexed |-> multiplyIndexed[p]]
      BY DEF BuilderInv
    <3>1. PICK v : v = FilledWith(multiplyIndexed[slot.key], slot.name, fwd)
      OBVIOUS
    <3>2. multiplyIndexed' = [multiplyIndexed EXCEPT ![slot.key] = v] /\ documents' = documents
      BY <1>2, <2>1, <3>1
    <3>3. slot.key \in DOMAIN multiplyIndexed
          /\ slot.name \in DOMAIN multiplyIndexed[slot.key].syms
      BY <1>3, <2>1 DEF IsSlot
    <3>4. /\ SameButText(v, multiplyIndexed[slot.key])
          /\ RealText(<<fwd.doc>>) => hasDocumentation(v.syms[slot.name].docs)
      BY <3>1, <3>3, FilledKeeps DEF BuilderInv
    <3>5. /\ DOMAIN multiplyIndexed' = DOMAIN multiplyIndexed
          /\ multiplyIndexed'[slot.key] = v
          /\ \A p \in DOMAIN multiplyIndexed :
                p # slot.key => multiplyIndexed'[p] = multiplyIndexed[p]
          /\ multiplyIndexed' = [p \in DOMAIN multiplyIndexed |-> multiplyIndexed'[p]]
      BY <3>0, <3>2, <3>3
    <3>6. \A p \in DOMAIN multiplyIndexed : SameButText(multiplyIndexed'[p], multiplyIndexed[p])
      BY <3>4, <3>5, SameIsSameButText DEF BuilderInv
    <3>7. \A i \in DOMAIN documents : SameButText(documents'[i], documents[i])
      BY <3>2, SameIsSameButText DEF BuilderInv
    <3>8. KeptDocuments
      BY <3>2, <3>5, <3>6, <3>7 DEF KeptDocuments, BuilderInv
    <3> QED BY <2>1, <3>4, <3>5, <3>8 DEF DocumentOf
  <2>2. CASE slot.list # "multiplyIndexed"
    <3>1. PICK v : v = FilledWith(documents[slot.key], slot.name, fwd)
      OBVIOUS
    <3>2. documents' = [documents EXCEPT ![slot.key] = v] /\ multiplyIndexed' = multiplyIndexed
      BY <1>2, <2>2, <3>1
    <3>3. /\ slot.list = "documents"
          /\ slot.key \in DOMAIN documents /\ slot.name \in DOMAIN documents[slot.key].syms
      BY <1>3, <2>2 DEF IsSlot
    <3>4. /\ SameButText(v, documents[slot.key])
          /\ RealText(<<fwd.doc>>) => hasDocumentation(v.syms[slot.name].docs)
      BY <3>1, <3>3, FilledKeeps DEF BuilderInv
    <3>5. Len(documents) \in Nat /\ DOMAIN documents = 1 .. Len(documents)
      BY SequenceDomain DEF BuilderInv
    <3>6. /\ DOMAIN documents' = DOMAIN documents
          /\ documents'[slot.key] = v
          /\ \A i \in DOMAIN documents : i # slot.key => documents'[i] = documents[i]
      BY <3>2, <3>3
    <3>7. IsSequence(documents')
      <4>1. documents' = [i \in 1 .. Len(documents) |-> documents'[i]]
        BY <3>2, <3>5, <3>6
      <4> QED BY <3>5, <4>1, FunctionSequence
    <3>8. \A i \in DOMAIN documents : SameButText(documents'[i], documents[i])
      BY <3>4, <3>6, SameIsSameButText DEF BuilderInv
    <3>9. \A p \in DOMAIN multiplyIndexed : SameButText(multiplyIndexed'[p], multiplyIndexed[p])
      BY <3>2, SameIsSameButText DEF BuilderInv
    <3>10. KeptDocuments
      BY <3>2, <3>6, <3>7, <3>8, <3>9 DEF KeptDocuments, BuilderInv
    <3> QED BY <3>3, <3>4, <3>6, <3>10 DEF DocumentOf
  <2> QED BY <2>1, <2>2
<1>5. RealText(<<fwd.doc>>) => Documented(fwd.suffix)'
  BY <1>1, <1>2, <1>4 DEF Documented
<1>6. TargetsOf(fwd.suffix)' = {slot.name}
  BY <1>1, <1>2 DEF TargetsOf
<1>7. forwardDeclOccurrences' = forwardDeclOccurrences \cup
          {[path |-> ref.path, range |-> ref.range, name |-> n] :
              ref \in fwd.references, n \in TargetsOf(fwd.suffix)'}
  BY <1>2, <1>6 DEF addForwardDeclOccurrences
<1>8. /\ IsSymbolTable(externalSymbols') /\ ExternalsKnown(externalsMap', externalSymbols')
      /\ fwd.suffix \notin DOMAIN externalsMap'
      /\ \A n \in DOMAIN externalSymbols :
            \/ /\ n \in DOMAIN externalSymbols'
               /\ hasDocumentation(externalSymbols[n].docs) =>
                     hasDocumentation(externalSymbols'[n].docs)
            \/ n \notin DOMAIN externalSymbols' /\ n.suffix \in DOMAIN docInternalMap
      /\ DOMAIN externalSymbols' \subseteq DOMAIN externalSymbols
      /\ \A s \in DOMAIN externalsMap : s # fwd.suffix =>
            s \in DOMAIN externalsMap' /\ externalsMap'[s] = externalsMap[s]
      /\ DOMAIN externalsMap' \subseteq DOMAIN externalsMap
  <2>0. ExternalsKnown(externalsMap, externalSymbols) /\ IsSymbolTable(externalSymbols)
    BY DEF ResolverInv, BuilderInv, ExternalsKnown
  <2>1. CASE fwd.suffix \notin DOMAIN externalsMap
    <3>1. externalSymbols' = externalSymbols /\ externalsMap' = externalsMap
      BY <1>2, <2>1 DEF dropExternals
    <3> QED BY <2>0, <2>1, <3>1
  <2>2. CASE fwd.suffix \in DOMAIN externalsMap
    <3>1. /\ externalSymbols' = [n \in DOMAIN externalSymbols \ externalsMap[fwd.suffix] |->
                                    externalSymbols[n]]
          /\ externalsMap' = [s \in DOMAIN externalsMap \ {fwd.suffix} |-> externalsMap[s]]
      BY <1>2, <2>2 DEF dropExternals
    <3>2. externalsMap[fwd.suffix] = {n \in DOMAIN externalSymbols : n.suffix = fwd.suffix}
      BY <2>0, <2>2 DEF ExternalsKnown
    <3>3. /\ DOMAIN externalSymbols' = {n \in DOMAIN externalSymbols : n.suffix # fwd.suffix}
          /\ \A n \in DOMAIN externalSymbols' : externalSymbols'[n] = externalSymbols[n]
          /\ externalSymbols' = [n \in DOMAIN externalSymbols' |-> externalSymbols'[n]]
      BY <3>1, <3>2
    <3>4. /\ DOMAIN externalsMap' = DOMAIN externalsMap \ {fwd.suffix}
          /\ \A s \in DOMAIN externalsMap' : externalsMap'[s] = externalsMap[s]
      BY <3>1
    <3>5. IsSymbolTable(externalSymbols')
      BY <2>0, <3>3 DEF IsSymbolTable
    <3>6. ExternalsKnown(externalsMap', externalSymbols')
      BY <2>0, <3>3, <3>4 DEF ExternalsKnown
    <3> QED BY <3>3, <3>4, <3>5, <3>6
  <2> QED BY <2>1, <2>2
<1> QED BY <1>2, <1>4, <1>5, <1>7, <1>8 DEF Resolves

(* A forward declaration whose suffix only external symbols have.          *)
LEMMA UseExternalsResolves ==
    ASSUME BuilderInv, ResolverInv, phase = "forwardDecls", NEW fwd,
           fwd.suffix \notin DOMAIN docInternalMap, fwd.suffix \in DOMAIN externalsMap,
           UseExternals(fwd)
    PROVE  Resolves(fwd)
<1>1. PICK names : names = externalsMap[fwd.suffix]
  OBVIOUS
<1>2. /\ externalSymbols' = [n \in DOMAIN externalSymbols |->
               IF n \in names THEN FillDocs(externalSymbols[n], fwd) ELSE externalSymbols[n]]
      /\ addForwardDeclOccurrences(names, fwd)
      /\ documents' = documents /\ multiplyIndexed' = multiplyIndexed
      /\ docInternalMap' = docInternalMap /\ externalsMap' = externalsMap
  BY <1>1 DEF UseExternals, resolver
<1>3. ExternalsKnown(externalsMap, externalSymbols) /\ IsSymbolTable(externalSymbols)
  BY DEF ResolverInv, BuilderInv, ExternalsKnown
<1>4. \A n \in DOMAIN externalSymbols : externalSymbols'[n] =
          IF n \in names THEN FillDocs(externalSymbols[n], fwd) ELSE externalSymbols[n]
  BY <1>2
<1>5. /\ DOMAIN externalSymbols' = DOMAIN externalSymbols
      /\ externalSymbols' = [n \in DOMAIN externalSymbols' |-> externalSymbols'[n]]
  BY <1>2
<1>6. \A n \in DOMAIN externalSymbols :
          /\ IsSymbolInfo(externalSymbols'[n])
          /\ hasDocumentation(externalSymbols[n].docs) =>
                hasDocumentation(externalSymbols'[n].docs)
          /\ n \in names /\ RealText(<<fwd.doc>>) => hasDocumentation(externalSymbols'[n].docs)
  BY <1>3, <1>4, FillInfo DEF IsSymbolTable
<1>7. IsSymbolTable(externalSymbols')
  BY <1>5, <1>6 DEF IsSymbolTable
<1>8. ExternalsKnown(externalsMap', externalSymbols')
  BY <1>2, <1>3, <1>5 DEF ExternalsKnown
<1>9. KeptDocuments
  BY <1>2, UnchangedKept
<1>10. TargetsOf(fwd.suffix)' = names
  BY <1>1, <1>2 DEF TargetsOf
<1>11. forwardDeclOccurrences' = forwardDeclOccurrences \cup
          {[path |-> ref.path, range |-> ref.range, name |-> n] :
              ref \in fwd.references, n \in TargetsOf(fwd.suffix)'}
  BY <1>2, <1>10 DEF addForwardDeclOccurrences
<1>12. RealText(<<fwd.doc>>) => Documented(fwd.suffix)'
  <2>1. names \subseteq DOMAIN externalSymbols
    BY <1>1, <1>3 DEF ExternalsKnown
  <2> QED BY <1>1, <1>2, <1>6, <2>1 DEF Documented
<1> QED BY <1>2, <1>5, <1>6, <1>7, <1>8, <1>9, <1>11, <1>12 DEF Resolves

(* A forward declaration of which nothing is known: the name that is made  *)
(* up is new, so that nothing is overwritten.                              *)
LEMMA MakeUpExternalResolves ==
    ASSUME BuilderInv, ResolverInv, phase = "forwardDecls", NEW fwd, fwd.suffix # NoSuffix,
           fwd.suffix \notin DOMAIN docInternalMap, fwd.suffix \notin DOMAIN externalsMap,
           MakeUpExternal(fwd)
    PROVE  Resolves(fwd)
<1>1. PICK name, info : /\ name = addFakePrefix(fwd.suffix)
                        /\ info = [docs |-> <<fwd.doc>>, rels |-> {}]
  OBVIOUS
<1>2. /\ externalSymbols' = Put(externalSymbols, name, info)
      /\ externalsMap' = Put(externalsMap, fwd.suffix, {name})
      /\ addForwardDeclOccurrences({name}, fwd)
      /\ documents' = documents /\ multiplyIndexed' = multiplyIndexed
      /\ docInternalMap' = docInternalMap
  BY <1>1 DEF MakeUpExternal
<1>3. ExternalsKnown(externalsMap, externalSymbols) /\ IsSymbolTable(externalSymbols)
  BY DEF ResolverInv, BuilderInv, ExternalsKnown
<1>4. name.suffix = fwd.suffix /\ name \notin DOMAIN externalSymbols
  <2>1. name.suffix = fwd.suffix
    BY <1>1 DEF addFakePrefix
  <2> QED BY <1>3, <2>1 DEF ExternalsKnown
<1>5. /\ IsSymbolInfo(info) /\ info.docs = <<fwd.doc>>
  BY <1>1 DEF IsSymbolInfo
<1>6. /\ DOMAIN externalSymbols' = DOMAIN externalSymbols \cup {name}
      /\ externalSymbols'[name] = info
      /\ \A n \in DOMAIN externalSymbols : externalSymbols'[n] = externalSymbols[n]
      /\ externalSymbols' = [n \in DOMAIN externalSymbols' |-> externalSymbols'[n]]
  BY <1>2, <1>4 DEF Put
<1>7. /\ DOMAIN externalsMap' = DOMAIN externalsMap \cup {fwd.suffix}
      /\ externalsMap'[fwd.suffix] = {name}
      /\ \A s \in DOMAIN externalsMap : externalsMap'[s] = externalsMap[s]
  BY <1>2 DEF Put
<1>8. IsSymbolTable(externalSymbols')
  BY <1>3, <1>5, <1>6 DEF IsSymbolTable
<1>9. ExternalsKnown(externalsMap', externalSymbols')
  <2>1. \A n \in DOMAIN externalSymbols : n.suffix # fwd.suffix
    BY <1>3 DEF ExternalsKnown
  <2>2. \A s \in DOMAIN externalsMap' :
            externalsMap'[s] = {n \in DOMAIN externalSymbols' : n.suffix = s}
    <3> SUFFICES ASSUME NEW s \in DOMAIN externalsMap'
                 PROVE  externalsMap'[s] = {n \in DOMAIN externalSymbols' : n.suffix = s}
      OBVIOUS
    <3>1. CASE s = fwd.suffix
      BY <1>4, <1>6, <1>7, <2>1, <3>1
    <3>2. CASE s # fwd.suffix
      BY <1>3, <1>4, <1>6, <1>7, <3>2 DEF ExternalsKnown
    <3> QED BY <3>1, <3>2
  <2>3. \A s \in DOMAIN externalsMap' : externalsMap'[s] # {}
    BY <1>3, <1>7 DEF ExternalsKnown
  <2>4. \A n \in DOMAIN externalSymbols' : n.suffix = NoSuffix \/ n.suffix \in DOMAIN externalsMap'
    BY <1>3, <1>4, <1>6, <1>7 DEF ExternalsKnown
  <2> QED BY <2>2, <2>3, <2>4 DEF ExternalsKnown
<1>10. KeptDocuments
  BY <1>2, UnchangedKept
<1>11. TargetsOf(fwd.suffix)' = {name}
  BY <1>2, <1>7 DEF TargetsOf
<1>12. forwardDeclOccurrences' = forwardDeclOccurrences \cup
          {[path |-> ref.path, range |-> ref.range, name |-> n] :
              ref \in fwd.references, n \in TargetsOf(fwd.suffix)'}
  BY <1>2, <1>11 DEF addForwardDeclOccurrences
<1>13. RealText(<<fwd.doc>>) => Documented(fwd.suffix)'
  <2>1. RealText(<<fwd.doc>>) => hasDocumentation(externalSymbols'[name].docs)
    BY <1>5, <1>6 DEF RealText
  <2> QED BY <1>2, <1>7, <2>1 DEF Documented
<1> QED BY <1>2, <1>4, <1>6, <1>7, <1>8, <1>9, <1>10, <1>12, <1>13 DEF Resolves

(* The first forward declaration of the queue is no longer to come.        *)
LEMMA TakeForwardPending ==
    ASSUME InputInv, ReaderInv, phase = "forwardDecls", phase' = "forwardDecls",
           queue # <<>>, queue' = Tail(queue), next' = next, UNCHANGED input
    PROVE  /\ ReaderInv' /\ Head(queue) \in ReadForwards
           /\ PendingForwards = {Head(queue)} \cup PendingForwards'
<1>1. shards' = shards /\ ReadForwards' = ReadForwards
  BY InputStays
<1>2. IsSequence(queue') /\ ToSet(queue) = {Head(queue)} \cup ToSet(queue')
  BY TakeFirst DEF ReaderInv
<1>3. LaterForwards' = LaterForwards
  BY <1>1 DEF LaterForwards
<1>4. PendingForwards = ToSet(queue) \cup UNION {ToSet(shards[i].fwds) : i \in LaterForwards}
  BY DEF PendingForwards
<1>5. PendingForwards' = ToSet(queue') \cup UNION {ToSet(shards[i].fwds) : i \in LaterForwards}
  BY <1>1, <1>3 DEF PendingForwards
<1>6. ReaderInv' /\ Head(queue) \in ReadForwards
  BY <1>1, <1>2 DEF ReaderInv
<1> QED BY <1>2, <1>4, <1>5, <1>6

(* What was resolved stays so.                                             *)
LEMMA ResolvedStays ==
    ASSUME ResolverInv, phase = "forwardDecls", NEW fwd, Resolves(fwd)
    PROVE  /\ \A s : s \in DOMAIN docInternalMap \/ s \in DOMAIN externalsMap =>
                 /\ s \in DOMAIN docInternalMap' \/ s \in DOMAIN externalsMap'
                 /\ TargetsOf(s)' = TargetsOf(s)
                 /\ Documented(s) => Documented(s)'
           /\ \A f : Resolved(f) => Resolved(f)'
<1>1. ASSUME NEW s, s \in DOMAIN docInternalMap \/ s \in DOMAIN externalsMap
      PROVE  /\ s \in DOMAIN docInternalMap' \/ s \in DOMAIN externalsMap'
             /\ TargetsOf(s)' = TargetsOf(s)
             /\ Documented(s) => Documented(s)'
  <2>1. CASE s \in DOMAIN docInternalMap
    <3>1. PICK slot : slot = docInternalMap[s]
      OBVIOUS
    <3>2. docInternalMap' = docInternalMap /\ KeptDocuments
      BY DEF Resolves
    <3>3. IsSlot(slot)
      BY <2>1, <3>1 DEF ResolverInv
    <3>4. hasDocumentation(DocumentOf(slot).syms[slot.name].docs) =>
              hasDocumentation(DocumentOf(slot)'.syms[slot.name].docs)
      BY <3>2, <3>3, KeptSlots
    <3>5. Documented(s) => hasDocumentation(DocumentOf(slot).syms[slot.name].docs)
      BY <2>1, <3>1 DEF Documented
    <3>6. hasDocumentation(DocumentOf(slot)'.syms[slot.name].docs) => Documented(s)'
      BY <2>1, <3>1, <3>2 DEF Documented
    <3> QED BY <2>1, <3>1, <3>2, <3>4, <3>5, <3>6 DEF TargetsOf
  <2>2. CASE s \notin DOMAIN docInternalMap
    <3>1. /\ s \in DOMAIN externalsMap' /\ externalsMap'[s] = externalsMap[s]
          /\ docInternalMap' = docInternalMap
      BY <1>1, <2>2 DEF Resolves
    <3>2. \A n \in externalsMap[s] : n \in DOMAIN externalSymbols /\ n.suffix = s
      BY <1>1, <2>2 DEF ResolverInv
    <3>3. \A n \in externalsMap[s] : hasDocumentation(externalSymbols[n].docs) =>
                                        hasDocumentation(externalSymbols'[n].docs)
      BY <2>2, <3>2 DEF Resolves
    <3> QED BY <2>2, <3>1, <3>3 DEF TargetsOf, Documented
  <2> QED BY <2>1, <2>2
<1>2. ASSUME NEW f, Resolved(f) PROVE Resolved(f)'
  <2>1. /\ f.suffix \in DOMAIN docInternalMap <=> f.suffix \notin DOMAIN externalsMap
        /\ \A ref \in f.references, n \in TargetsOf(f.suffix) :
              [path |-> ref.path, range |-> ref.range, name |-> n] \in forwardDeclOccurrences
        /\ RealText(<<f.doc>>) => Documented(f.suffix)
    BY <1>2 DEF Resolved
  <2>2. /\ TargetsOf(f.suffix)' = TargetsOf(f.suffix)
        /\ Documented(f.suffix) => Documented(f.suffix)'
    BY <1>1, <2>1
  <2>3. f.suffix \in DOMAIN docInternalMap' <=> f.suffix \notin DOMAIN externalsMap'
    BY <2>1 DEF Resolves
  <2>4. forwardDeclOccurrences \subseteq forwardDeclOccurrences'
    BY DEF Resolves
  <2>5. \A ref \in f.references, n \in TargetsOf(f.suffix) :
              [path |-> ref.path, range |-> ref.range, name |-> n] \in forwardDeclOccurrences'
    BY <2>1, <2>4
  <2> QED BY <2>1, <2>2, <2>3, <2>5 DEF Resolved
<1> QED BY <1>1, <1>2

(* IndexBuilder::addForwardDeclaration keeps the invariant.                *)
LEMMA AddForwardDeclarationKeeps ==
    ASSUME MergeInv, AddForwardDeclaration
    PROVE  MergeInv'
<1>1. PICK fwd : fwd = Head(queue)
  OBVIOUS
<1>2. /\ phase = "forwardDecls" /\ phase' = "forwardDecls" /\ queue # <<>>
      /\ queue' = Tail(queue) /\ next' = next /\ UNCHANGED input
      /\ IF fwd.suffix \in DOMAIN docInternalMap THEN UseDocument(fwd)
         ELSE IF fwd.suffix \in DOMAIN externalsMap THEN UseExternals(fwd)
         ELSE MakeUpExternal(fwd)
  BY <1>1 DEF AddForwardDeclaration
<1>3. /\ InputInv /\ ReaderInv /\ BuilderInv /\ ContentInv /\ OnceInv
      /\ ResolverInv /\ ForwardInv /\ ExternalInv
  BY DEF MergeInv, ShapeInv
<1>4. /\ ReaderInv' /\ fwd \in ReadForwards
      /\ PendingForwards = {fwd} \cup PendingForwards'
  BY <1>1, <1>2, <1>3, TakeForwardPending
<1>5. Resolves(fwd)
  <2>1. fwd.suffix # NoSuffix
    BY <1>3, <1>4, ReadItems
  <2>2. CASE fwd.suffix \in DOMAIN docInternalMap
    BY <1>2, <1>3, <2>2, UseDocumentResolves
  <2>3. CASE fwd.suffix \notin DOMAIN docInternalMap /\ fwd.suffix \in DOMAIN externalsMap
    BY <1>2, <1>3, <2>3, UseExternalsResolves
  <2>4. CASE fwd.suffix \notin DOMAIN docInternalMap /\ fwd.suffix \notin DOMAIN externalsMap
    BY <1>2, <1>3, <2>1, <2>4, MakeUpExternalResolves
  <2> QED BY <2>2, <2>3, <2>4
<1>6. /\ KeptDocuments /\ docInternalMap' = docInternalMap
      /\ IsSymbolTable(externalSymbols') /\ ExternalsKnown(externalsMap', externalSymbols')
  BY <1>5 DEF Resolves
<1>7. /\ BuilderInv' /\ ContentInv' /\ OnceInv'
      /\ \A e \in BuilderDocs' : \E d \in BuilderDocs : DOMAIN e.syms = DOMAIN d.syms
  BY <1>2, <1>3, <1>6, KeptBuilder
<1>8. /\ ReadExternals' = ReadExternals /\ ReadForwards' = ReadForwards /\ InputInv'
  BY <1>2, <1>3, InputStays
<1>9. ResolverInv'
  <2>1. \A e \in BuilderDocs' : \A n \in DOMAIN e.syms :
            n.suffix = NoSuffix \/ n.suffix \in DOMAIN docInternalMap'
    BY <1>2, <1>3, <1>6, <1>7 DEF ResolverInv
  <2>2. \A s \in DOMAIN docInternalMap :
            IsSlot(docInternalMap[s]) /\ docInternalMap[s].name.suffix = s
    BY <1>2, <1>3 DEF ResolverInv
  <2>3. \A slot : IsSlot(slot) => IsSlot(slot)'
    BY <1>6, KeptSlots
  <2>4. ASSUME NEW s \in DOMAIN docInternalMap'
        PROVE  IsSlot(docInternalMap[s])' /\ docInternalMap'[s].name.suffix = s
    <3>1. PICK slot : slot = docInternalMap[s]
      OBVIOUS
    <3>2. IsSlot(slot)' /\ docInternalMap'[s] = slot /\ slot.name.suffix = s
      BY <1>6, <2>2, <2>3, <3>1
    <3> QED BY <3>2
  <2> QED BY <1>6, <2>1, <2>4 DEF ResolverInv, ExternalsKnown
<1>10. /\ \A s : s \in DOMAIN docInternalMap \/ s \in DOMAIN externalsMap =>
             /\ s \in DOMAIN docInternalMap' \/ s \in DOMAIN externalsMap'
             /\ TargetsOf(s)' = TargetsOf(s)
       /\ \A f : Resolved(f) => Resolved(f)'
  BY <1>2, <1>3, <1>5, ResolvedStays
<1>11. forwardDeclOccurrences' = forwardDeclOccurrences \cup
           {[path |-> ref.path, range |-> ref.range, name |-> n] :
               ref \in fwd.references, n \in TargetsOf(fwd.suffix)'}
  BY <1>5 DEF Resolves
<1>12. /\ \A n \in TargetsOf(fwd.suffix)' : n.suffix = fwd.suffix
       /\ fwd.suffix \in DOMAIN docInternalMap' <=> fwd.suffix \notin DOMAIN externalsMap'
  <2>1. fwd.suffix \in DOMAIN docInternalMap' <=> fwd.suffix \notin DOMAIN externalsMap'
    BY <1>5 DEF Resolves
  <2>2. CASE fwd.suffix \in DOMAIN docInternalMap'
    BY <1>2, <1>9, <2>1, <2>2 DEF TargetsOf, ResolverInv
  <2>3. CASE fwd.suffix \notin DOMAIN docInternalMap'
    BY <1>2, <1>6, <2>1, <2>3 DEF TargetsOf, ExternalsKnown
  <2> QED BY <2>1, <2>2, <2>3
<1>13. Resolved(fwd)'
  <2>1. RealText(<<fwd.doc>>) => Documented(fwd.suffix)'
    BY <1>5 DEF Resolves
  <2>2. \A ref \in fwd.references, n \in TargetsOf(fwd.suffix)' :
            [path |-> ref.path, range |-> ref.range, name |-> n] \in forwardDeclOccurrences'
    <3> SUFFICES ASSUME NEW ref \in fwd.references, NEW n \in TargetsOf(fwd.suffix)'
                 PROVE  [path |-> ref.path, range |-> ref.range, name |-> n]
                            \in forwardDeclOccurrences'
      OBVIOUS
    <3> QED BY <1>11
  <2> QED BY <1>12, <2>1, <2>2 DEF Resolved
<1>14. ForwardInv'
  <2>1. \A f \in ReadForwards : f \in PendingForwards' \/ Resolved(f)'
    BY <1>3, <1>4, <1>10, <1>13 DEF ForwardInv
  <2>2. ASSUME NEW o \in forwardDeclOccurrences'
        PROVE  /\ \E f \in ReadForwards : \E ref \in f.references :
                     o.path = ref.path /\ o.range = ref.range /\ o.name.suffix = f.suffix
               /\ o.name.suffix \in DOMAIN docInternalMap' \/ o.name.suffix \in DOMAIN externalsMap'
               /\ \E s : s = o.name.suffix /\ o.name \in TargetsOf(s)'
    <3>1. CASE o \in forwardDeclOccurrences
      <4>1. /\ \E f \in ReadForwards : \E ref \in f.references :
                  o.path = ref.path /\ o.range = ref.range /\ o.name.suffix = f.suffix
            /\ o.name.suffix \in DOMAIN docInternalMap \/ o.name.suffix \in DOMAIN externalsMap
            /\ o.name \in TargetsOf(o.name.suffix)
        BY <1>3, <3>1 DEF ForwardInv
      <4>2. PICK s : s = o.name.suffix
        OBVIOUS
      <4> QED BY <1>10, <4>1, <4>2
    <3>2. CASE o \notin forwardDeclOccurrences
      <4>1. PICK ref \in fwd.references, n \in TargetsOf(fwd.suffix)' :
                o = [path |-> ref.path, range |-> ref.range, name |-> n]
        BY <1>11, <3>2
      <4>2. o.path = ref.path /\ o.range = ref.range /\ o.name = n /\ n.suffix = fwd.suffix
        BY <1>12, <4>1
      <4> QED BY <1>4, <1>12, <4>1, <4>2
    <3> QED BY <3>1, <3>2
  <2> QED BY <1>2, <1>8, <2>1, <2>2 DEF ForwardInv
<1>15. ExternalInv'
  <2> SUFFICES ASSUME NEW e \in ReadExternals
               PROVE  \/ /\ e.name \in DOMAIN externalSymbols'
                         /\ hasDocumentation(e.info.docs) =>
                               hasDocumentation(externalSymbols'[e.name].docs)
                      \/ /\ e.name \notin DOMAIN externalSymbols'
                         /\ e.name.suffix \in DOMAIN docInternalMap'
    BY <1>2, <1>8 DEF ExternalInv
  <2>1. \/ /\ e.name \in DOMAIN externalSymbols
           /\ hasDocumentation(e.info.docs) => hasDocumentation(externalSymbols[e.name].docs)
        \/ e.name \notin DOMAIN externalSymbols /\ e.name.suffix \in DOMAIN docInternalMap
    BY <1>2, <1>3 DEF ExternalInv, PendingExternals
  <2> QED BY <1>5, <1>6, <2>1 DEF Resolves
<1>16. OutputInv'
  BY <1>2 DEF OutputInv
<1> QED BY <1>4, <1>7, <1>8, <1>9, <1>14, <1>15, <1>16 DEF MergeInv, ShapeInv

-----------------------------------------------------------------------------
(***************************************************************************)
(* The index is written.                                                   *)
(***************************************************************************)

(* IndexWriter::writeDocument adds occurrences and nothing else.           *)
LEMMA WrittenDocument ==
    ASSUME NEW d, IsDocument(d)
    PROVE  /\ WithForwardDecls(d).path = d.path
           /\ WithForwardDecls(d).syms = d.syms
           /\ WithForwardDecls(d).occs = d.occs \cup
                 {[range |-> o.range, name |-> o.name] :
                     o \in {f \in forwardDeclOccurrences : f.path = d.path}}
BY DEF IsDocument, WithForwardDecls

(* The documents in the order in which they are written.                   *)
AllDocuments == documents \o SetToSeq(Range(multiplyIndexed))

(* Two of them with one path are of a main file of two commands.           *)
LEMMA DocumentsToWrite ==
    ASSUME BuilderInv, AddedOnce
    PROVE  /\ ToSet(AllDocuments) = BuilderDocs
           /\ \A i, k \in DOMAIN AllDocuments :
                 i # k /\ AllDocuments[i].path = AllDocuments[k].path =>
                     RepeatedDocument(AllDocuments[i].path)
<1>1. IsFiniteSet(Range(multiplyIndexed))
  <2>1. multiplyIndexed \in Surjection(DOMAIN multiplyIndexed, Range(multiplyIndexed))
    BY DEF BuilderInv, Surjection, Range
  <2> QED BY <2>1, FS_Surjection DEF BuilderInv
<1>2. PICK t : t = SetToSeq(Range(multiplyIndexed))
  OBVIOUS
<1>3. IsSequence(t) /\ ToSet(t) = Range(multiplyIndexed) /\ IsInjective(t)
  BY <1>1, <1>2, AnyOrder
<1>4. PICK m \in Nat, n \in Nat : m = Len(documents) /\ n = Len(t)
  BY <1>3, SequenceDomain DEF BuilderInv
<1>5. PICK all : all = AllDocuments
  OBVIOUS
<1>6. /\ DOMAIN documents = 1 .. m /\ DOMAIN t = 1 .. n /\ DOMAIN all = 1 .. (m + n)
      /\ \A i \in 1 .. (m + n) : all[i] = IF i <= m THEN documents[i] ELSE t[i - m]
      /\ ToSet(all) = ToSet(documents) \cup ToSet(t)
  BY <1>2, <1>3, <1>4, <1>5, Concatenation DEF AllDocuments, BuilderInv
<1>7. ASSUME NEW i \in DOMAIN all
      PROVE  \/ /\ i \in DOMAIN documents /\ all[i] = documents[i]
                /\ ~ isMultiplyIndexedApproximate(all[i].path)
             \/ /\ i - m \in DOMAIN t /\ all[i] = t[i - m] /\ i \in Int
                /\ all[i].path \in DOMAIN multiplyIndexed
                /\ all[i] = multiplyIndexed[all[i].path]
                /\ isMultiplyIndexedApproximate(all[i].path)
  <2>1. CASE i <= m
    <3>1. i \in DOMAIN documents /\ all[i] = documents[i]
      BY <1>6, <2>1
    <3> QED BY <3>1 DEF BuilderInv
  <2>2. CASE ~ (i <= m)
    <3>1. i - m \in DOMAIN t /\ all[i] = t[i - m] /\ i \in Int
      BY <1>6, <2>2
    <3>2. all[i] \in Range(multiplyIndexed)
      BY <1>3, <3>1 DEF ToSet
    <3>3. PICK p \in DOMAIN multiplyIndexed : all[i] = multiplyIndexed[p]
      BY <3>2 DEF Range
    <3>4. all[i].path = p /\ isMultiplyIndexedApproximate(p)
      BY <3>3 DEF BuilderInv
    <3> QED BY <3>1, <3>3, <3>4
  <2> QED BY <2>1, <2>2
<1>8. ASSUME NEW i \in DOMAIN all, NEW k \in DOMAIN all, i # k, all[i].path = all[k].path
      PROVE  RepeatedDocument(all[i].path)
  <2>1. CASE isMultiplyIndexedApproximate(all[i].path)
    <3>1. /\ i - m \in DOMAIN t /\ k - m \in DOMAIN t /\ i \in Int /\ k \in Int
          /\ t[i - m] = t[k - m]
      BY <1>7, <1>8, <2>1
    <3>2. i - m = k - m
      BY <1>3, <3>1 DEF IsInjective
    <3> QED BY <1>8, <3>1, <3>2
  <2>2. CASE ~ isMultiplyIndexedApproximate(all[i].path)
    <3>1. /\ i \in DOMAIN documents /\ k \in DOMAIN documents
          /\ all[i] = documents[i] /\ all[k] = documents[k]
      BY <1>7, <1>8, <2>2
    <3>2. Clash(documents[i], documents[k])
      BY <1>8, <2>2, <3>1 DEF Clash
    <3> QED BY <1>8, <3>1, <3>2 DEF AddedOnce
  <2> QED BY <2>1, <2>2
<1>9. ToSet(all) = BuilderDocs
  BY <1>3, <1>6 DEF BuilderDocs
<1> QED BY <1>5, <1>8, <1>9

(* IndexBuilder::finish keeps the invariant.                               *)
LEMMA FinishKeeps ==
    ASSUME MergeInv, Finish
    PROVE  MergeInv'
<1>1. /\ phase = "forwardDecls" /\ phase' = "written" /\ queue = <<>> /\ next > Len(shards)
      /\ queue' = queue /\ next' = next /\ UNCHANGED <<input, builder, resolver>>
      /\ output' = [documents |-> [i \in DOMAIN AllDocuments |->
                                      WithForwardDecls(AllDocuments[i])],
                    externals |-> externalSymbols]
  BY DEF Finish, AllDocuments
<1>2. /\ documents' = documents /\ multiplyIndexed' = multiplyIndexed
      /\ externalSymbols' = externalSymbols
      /\ forwardDeclOccurrences' = forwardDeclOccurrences
      /\ docInternalMap' = docInternalMap /\ externalsMap' = externalsMap
  BY <1>1 DEF builder, resolver
<1>3. /\ InputInv /\ ReaderInv /\ BuilderInv /\ ContentInv /\ OnceInv
      /\ ResolverInv /\ ForwardInv /\ ExternalInv
  BY DEF MergeInv, ShapeInv
<1>4. /\ ReadDocuments' = ReadDocuments /\ ReadExternals' = ReadExternals
      /\ ReadForwards' = ReadForwards /\ InputInv'
  BY <1>1, <1>3, InputStays
<1>5. PendingForwards = {}
  BY <1>1, <1>3, NothingPending
<1>6. /\ PendingForwards' = {} /\ PendingDocuments' = {} /\ PendingExternals' = {}
      /\ PendingDocuments = {} /\ PendingExternals = {}
  BY <1>1 DEF PendingForwards, PendingDocuments, PendingExternals
<1>7. ReaderInv'
  BY <1>1, <1>3 DEF ReaderInv
<1>8. BuilderInv'
  BY <1>1, <1>2, <1>3, PathsStay DEF BuilderInv
<1>9. BuilderDocs' = BuilderDocs
  BY <1>2 DEF BuilderDocs
<1>10. ContentInv'
  BY <1>3, <1>4, <1>6, <1>9 DEF ContentInv
<1>11. OnceInv'
  <2>1. AddedOnce'
    BY <1>1, <1>2, <1>3, PathsStay DEF OnceInv, AddedOnce
  <2> QED BY <1>1, <1>6, <2>1 DEF OnceInv, PendingOnce, QueueOnce
<1>12. ResolverInv'
  BY <1>1, <1>2, <1>3, <1>9 DEF ResolverInv, IsSlot
<1>13. /\ \A f : Resolved(f)' = Resolved(f)
       /\ \A s : TargetsOf(s)' = TargetsOf(s)
  BY <1>2 DEF Resolved, TargetsOf, Documented, DocumentOf
<1>14. ForwardInv'
  BY <1>1, <1>2, <1>3, <1>4, <1>5, <1>6, <1>13 DEF ForwardInv
<1>15. ExternalInv'
  BY <1>1, <1>2, <1>3, <1>4, <1>6 DEF ExternalInv
<1>16. OutputInv'
  <2>1. PICK all : all = AllDocuments
    OBVIOUS
  <2>2. /\ ToSet(all) = BuilderDocs
        /\ \A i, k \in DOMAIN all : i # k /\ all[i].path = all[k].path => RepeatedDocument(all[i].path)
    BY <1>3, <2>1, DocumentsToWrite DEF OnceInv
  <2>3. \A d : WithForwardDecls(d)' = WithForwardDecls(d)
    BY <1>2 DEF WithForwardDecls
  <2>4. PICK out : out = output'
    OBVIOUS
  <2>5. /\ out.externals = externalSymbols /\ DOMAIN out.documents = DOMAIN all
        /\ \A i \in DOMAIN all : out.documents[i] = WithForwardDecls(all[i])
    BY <1>1, <2>1, <2>4
  <2>6. \A i \in DOMAIN all : all[i] \in BuilderDocs
    BY <2>2 DEF ToSet
  <2>7. \A d \in BuilderDocs : WithForwardDecls(d) \in ToSet(out.documents)
    BY <2>2, <2>5 DEF ToSet
  <2>8. \A d \in BuilderDocs : IsDocument(d)
    BY <1>3 DEF BuilderDocs, BuilderInv, ToSet, Range
  <2>9. \A i \in DOMAIN all : out.documents[i].path = all[i].path
    BY <2>5, <2>6, <2>8, WrittenDocument
  <2>10. \A i, k \in DOMAIN out.documents :
             i # k /\ out.documents[i].path = out.documents[k].path =>
                 RepeatedDocument(out.documents[i].path)
    BY <2>2, <2>5, <2>9
  <2>11. OneDocumentPerPath'
    BY <1>1, <2>4, <2>10, PathsStay DEF OneDocumentPerPath
  <2>12. \A i \in DOMAIN out.documents :
             \E d \in BuilderDocs : out.documents[i] = WithForwardDecls(d)
    BY <2>5, <2>6
  <2> QED BY <1>2, <1>9, <2>3, <2>4, <2>5, <2>7, <2>11, <2>12 DEF OutputInv, Documents
<1> QED BY <1>4, <1>7, <1>8, <1>10, <1>11, <1>12, <1>14, <1>15, <1>16 DEF MergeInv, ShapeInv

-----------------------------------------------------------------------------
(***************************************************************************)
(* The invariant.                                                          *)
(***************************************************************************)
LEMMA InitMergeInv == Init => MergeInv
<1> SUFFICES ASSUME Init PROVE MergeInv
  OBVIOUS
<1>1. /\ phase = "documents" /\ next = 1 /\ queue = <<>>
      /\ documents = <<>> /\ multiplyIndexed = <<>> /\ externalSymbols = <<>>
      /\ forwardDeclOccurrences = {}
  BY DEF Init
<1>2. InputInv
  BY InputsAssumption DEF Init, InputInv
<1>3. /\ IsSequence(<<>>) /\ ToSet(<<>>) = {} /\ DOMAIN <<>> = {}
      /\ Items(<<>>, "document") = {} /\ Items(<<>>, "external") = {}
  BY EmptySequence DEF Items
<1>4. ReaderInv
  BY <1>1, <1>3 DEF ReaderInv
<1>5. BuilderInv
  <2>1. IsFiniteSet(DOMAIN multiplyIndexed)
    BY <1>1, <1>3, FS_EmptySet
  <2>2. multiplyIndexed = [p \in DOMAIN multiplyIndexed |-> multiplyIndexed[p]]
    BY <1>1
  <2>3. IsSymbolTable(externalSymbols)
    BY <1>1 DEF IsSymbolTable
  <2> QED BY <1>1, <1>3, <2>1, <2>2, <2>3 DEF BuilderInv
<1>6. BuilderDocs = {}
  BY <1>1, <1>3 DEF BuilderDocs, Range
<1>7. PendingDocuments = ReadDocuments /\ PendingExternals = ReadExternals
  <2>1. Len(shards) \in Nat /\ DOMAIN shards = 1 .. Len(shards)
    BY <1>2, SequenceDomain DEF InputInv, AreShards
  <2>2. LaterShards = {i \in DOMAIN shards : shards[i].docsReadable}
    BY <1>1, <2>1 DEF LaterShards
  <2>3. PendingDocuments = ReadDocuments
    BY <1>1, <1>3, <2>2 DEF PendingDocuments, ReadDocuments
  <2>4. PendingExternals = ReadExternals
    BY <1>1, <1>3, <2>2 DEF PendingExternals, ReadExternals
  <2> QED BY <2>3, <2>4
<1>8. ContentInv
  BY <1>6, <1>7 DEF ContentInv, NoneLost, NoneMadeUp
<1>9. OnceInv
  BY <1>1, <1>3 DEF OnceInv, AddedOnce, PendingOnce, QueueOnce
<1>10. ResolverInv /\ OutputInv
  BY <1>1 DEF ResolverInv, OutputInv
<1>11. ForwardInv /\ ExternalInv
  BY <1>1, <1>7 DEF ForwardInv, ExternalInv, PendingForwards
<1> QED BY <1>2, <1>4, <1>5, <1>8, <1>9, <1>10, <1>11 DEF MergeInv, ShapeInv

(* A stuttering step keeps the invariant.                                  *)
LEMMA StutterKeeps ==
    ASSUME MergeInv, UNCHANGED mergeVars
    PROVE  MergeInv'
<1>1. /\ phase' = phase /\ next' = next /\ queue' = queue
      /\ output' = output /\ UNCHANGED <<input, builder, resolver>>
  BY DEF mergeVars
<1>2. /\ shards' = shards /\ hashesSoFar' = hashesSoFar
      /\ documents' = documents /\ multiplyIndexed' = multiplyIndexed
      /\ externalSymbols' = externalSymbols
      /\ forwardDeclOccurrences' = forwardDeclOccurrences
      /\ docInternalMap' = docInternalMap /\ externalsMap' = externalsMap
  BY <1>1 DEF input, builder, resolver
<1>3. /\ ReadDocuments' = ReadDocuments /\ ReadExternals' = ReadExternals
      /\ ReadForwards' = ReadForwards /\ InputInv' = InputInv
      /\ LaterShards' = LaterShards /\ LaterForwards' = LaterForwards
  BY <1>1, <1>2, InputStays DEF LaterShards, LaterForwards
<1>4. /\ PendingDocuments' = PendingDocuments /\ PendingExternals' = PendingExternals
      /\ PendingForwards' = PendingForwards /\ BuilderDocs' = BuilderDocs
      /\ Documents' = Documents
  BY <1>1, <1>2, <1>3
     DEF PendingDocuments, PendingExternals, PendingForwards, BuilderDocs, Documents
<1>5. /\ \A f : Resolved(f)' = Resolved(f)
      /\ \A s : TargetsOf(s)' = TargetsOf(s)
      /\ \A s : IsSlot(s)' = IsSlot(s)
      /\ \A d : WithForwardDecls(d)' = WithForwardDecls(d)
  BY <1>2 DEF Resolved, TargetsOf, Documented, DocumentOf, IsSlot, WithForwardDecls
<1>6. ShapeInv' /\ ContentInv'
  BY <1>1, <1>2, <1>3, <1>4, PathsStay
     DEF MergeInv, ShapeInv, ReaderInv, BuilderInv, ContentInv
<1>7. OnceInv'
  BY <1>1, <1>2, <1>4, PathsStay DEF MergeInv, OnceInv, AddedOnce, PendingOnce, QueueOnce
<1>8. ResolverInv' /\ ForwardInv' /\ ExternalInv'
  BY <1>1, <1>2, <1>3, <1>4, <1>5 DEF MergeInv, ResolverInv, ForwardInv, ExternalInv
<1>9. OutputInv'
  BY <1>1, <1>2, <1>4, <1>5, PathsStay DEF MergeInv, OutputInv, OneDocumentPerPath
<1> QED BY <1>6, <1>7, <1>8, <1>9 DEF MergeInv

(* Every step of the merge keeps the invariant.                            *)
LEMMA NextMergeInv == MergeInv /\ [Next]_mergeVars => MergeInv'
<1> SUFFICES ASSUME MergeInv, [Next]_mergeVars PROVE MergeInv'
  OBVIOUS
<1>1. CASE ReadIndexShard
  BY <1>1, ReadIndexShardKeeps
<1>2. CASE AddDocument
  BY <1>2, AddDocumentKeeps
<1>3. CASE AddExternalSymbol
  BY <1>3, AddExternalSymbolKeeps
<1>4. CASE PopulateForwardDeclResolver
  BY <1>4, PopulateForwardDeclResolverKeeps
<1>5. CASE ReadForwardDecls
  BY <1>5, ReadForwardDeclsKeeps
<1>6. CASE AddForwardDeclaration
  BY <1>6, AddForwardDeclarationKeeps
<1>7. CASE Finish
  BY <1>7, FinishKeeps
<1>8. CASE UNCHANGED mergeVars
  BY <1>8, StutterKeeps
<1> QED BY <1>1, <1>2, <1>3, <1>4, <1>5, <1>6, <1>7, <1>8 DEF Next, Written

(* At every moment of the merge, for all shards and hashes: what a shard   *)
(* has is in the builder or still to be read, what the builder has comes   *)
(* from a shard, and the resolver knows all of it.                         *)
THEOREM MergeInvariance == Spec => []MergeInv
BY InitMergeInv, NextMergeInv, PTL DEF Spec

-----------------------------------------------------------------------------
(***************************************************************************)
(* What the invariant says of the index.                                   *)
(***************************************************************************)

(* The documents of the index are those of the builder, with the           *)
(* occurrences of forward declarations, and nothing is left to be read.    *)
LEMMA IndexOfBuilder ==
    ASSUME MergeInv, phase = "written"
    PROVE  /\ \A e \in Documents : \E d \in BuilderDocs : e = WithForwardDecls(d)
           /\ \A d \in BuilderDocs : WithForwardDecls(d) \in Documents /\ IsDocument(d)
           /\ \A r \in ReadDocuments : \E d \in BuilderDocs : Covers(d, r)
           /\ \A d \in BuilderDocs : ComesFrom(d, ReadDocuments)
           /\ \A f \in ReadForwards : Resolved(f) /\ f.suffix # NoSuffix
<1>1. \A e \in Documents : \E d \in BuilderDocs : e = WithForwardDecls(d)
  BY DEF MergeInv, OutputInv, Documents, ToSet
<1>2. \A d \in BuilderDocs : WithForwardDecls(d) \in Documents
  BY DEF MergeInv, OutputInv
<1>3. \A d \in BuilderDocs : IsDocument(d)
  BY DEF MergeInv, ShapeInv, BuilderInv, BuilderDocs, ToSet, Range
<1>4. PendingDocuments = {} /\ PendingForwards = {}
  BY DEF PendingDocuments, PendingForwards
<1>5. \A r \in ReadDocuments : \E d \in BuilderDocs : Covers(d, r)
  BY <1>4 DEF MergeInv, ContentInv, NoneLost
<1>6. \A d \in BuilderDocs : ComesFrom(d, ReadDocuments)
  BY DEF MergeInv, ContentInv, NoneMadeUp
<1>7. \A f \in ReadForwards : Resolved(f) /\ f.suffix # NoSuffix
  BY <1>4, ReadItems DEF MergeInv, ForwardInv, ShapeInv
<1> QED BY <1>1, <1>2, <1>3, <1>5, <1>6, <1>7

(* The slot of a suffix is a symbol of the builder.                        *)
LEMMA SlotOfSuffix ==
    ASSUME ResolverInv, phase = "written", NEW s \in DOMAIN docInternalMap
    PROVE  /\ DocumentOf(docInternalMap[s]) \in BuilderDocs
           /\ docInternalMap[s].name \in DOMAIN DocumentOf(docInternalMap[s]).syms
           /\ docInternalMap[s].name.suffix = s
<1>1. PICK slot : slot = docInternalMap[s]
  OBVIOUS
<1>2. IsSlot(slot) /\ slot.name.suffix = s
  BY <1>1 DEF ResolverInv
<1>3. CASE slot.list = "documents"
  <2>1. slot.key \in DOMAIN documents /\ slot.name \in DOMAIN documents[slot.key].syms
    BY <1>2, <1>3 DEF IsSlot
  <2>2. documents[slot.key] \in BuilderDocs
    BY <2>1 DEF BuilderDocs, ToSet
  <2> QED BY <1>1, <1>2, <1>3, <2>1, <2>2 DEF DocumentOf
<1>4. CASE slot.list = "multiplyIndexed"
  <2>1. slot.key \in DOMAIN multiplyIndexed /\ slot.name \in DOMAIN multiplyIndexed[slot.key].syms
    BY <1>2, <1>4 DEF IsSlot
  <2>2. multiplyIndexed[slot.key] \in BuilderDocs
    BY <2>1 DEF BuilderDocs, Range
  <2> QED BY <1>1, <1>2, <1>4, <2>1, <2>2 DEF DocumentOf
<1> QED BY <1>2, <1>3, <1>4 DEF IsSlot

(* Every place of a forward declaration has an occurrence of its suffix.   *)
LEMMA ForwardsOccur ==
    ASSUME MergeInv, phase = "written", NEW f \in ReadForwards, NEW ref \in f.references
    PROVE  \E o \in forwardDeclOccurrences :
               o.path = ref.path /\ o.range = ref.range /\ o.name.suffix = f.suffix
<1>1. Resolved(f)
  BY IndexOfBuilder
<1>2. ResolverInv
  BY DEF MergeInv
<1>3. \E n \in TargetsOf(f.suffix) : n.suffix = f.suffix
  <2>1. CASE f.suffix \in DOMAIN docInternalMap
    BY <1>2, <2>1 DEF TargetsOf, ResolverInv
  <2>2. CASE f.suffix \notin DOMAIN docInternalMap
    <3>1. f.suffix \in DOMAIN externalsMap
      BY <1>1, <2>2 DEF Resolved
    <3> QED BY <1>2, <2>2, <3>1 DEF TargetsOf, ResolverInv
  <2> QED BY <2>1, <2>2
<1>4. PICK n \in TargetsOf(f.suffix) : n.suffix = f.suffix
  BY <1>3
<1>5. PICK o : o = [path |-> ref.path, range |-> ref.range, name |-> n]
  OBVIOUS
<1>6. o \in forwardDeclOccurrences
  BY <1>1, <1>4, <1>5 DEF Resolved
<1> QED BY <1>4, <1>5, <1>6

(* The triples of the properties.                                          *)
LEMMA LocatedAt ==
    ASSUME NEW docs
    PROVE  \A x : x \in Located(OccurrencesIn(docs)) <=>
               \E d \in docs : \E o \in d.occs : x = <<d.path, o.range, o.name.suffix>>
<1>1. \A p : p \in OccurrencesIn(docs) <=> \E d \in docs : \E o \in d.occs : p = <<d.path, o>>
  BY DEF OccurrencesIn
<1>2. \A x : x \in Located(OccurrencesIn(docs)) <=>
          \E p \in OccurrencesIn(docs) : x = <<p[1], p[2].range, p[2].name.suffix>>
  BY DEF Located
<1>3. ASSUME NEW x \in Located(OccurrencesIn(docs))
      PROVE  \E d \in docs : \E o \in d.occs : x = <<d.path, o.range, o.name.suffix>>
  <2>1. PICK p \in OccurrencesIn(docs) : x = <<p[1], p[2].range, p[2].name.suffix>>
    BY <1>2
  <2>2. PICK d \in docs : \E o \in d.occs : p = <<d.path, o>>
    BY <1>1
  <2>3. PICK o \in d.occs : p = <<d.path, o>>
    BY <2>2
  <2>4. p[1] = d.path /\ p[2] = o
    BY <2>3
  <2> QED BY <2>1, <2>4
<1>4. ASSUME NEW d \in docs, NEW o \in d.occs
      PROVE  <<d.path, o.range, o.name.suffix>> \in Located(OccurrencesIn(docs))
  <2>1. PICK p : p = <<d.path, o>>
    OBVIOUS
  <2>2. p \in OccurrencesIn(docs) /\ p[1] = d.path /\ p[2] = o
    BY <1>1, <2>1
  <2> QED BY <1>2, <2>2
<1> QED BY <1>3, <1>4

(* A relationship of an index with its place.                              *)
LEMMA RelatedAt ==
    ASSUME NEW docs
    PROVE  \A x : x \in RelationshipsIn(docs) <=>
               \E d \in docs : \E n \in DOMAIN d.syms : \E y \in d.syms[n].rels :
                   x = <<d.path, n, y>>
BY DEF RelationshipsIn

(* The index is the union of what the builder was given.                   *)
LEMMA UnionOfShards == MergeInv => MergedIndexIsUnion
<1> SUFFICES ASSUME MergeInv, phase = "written"
             PROVE  /\ Paths(Documents) = Paths(ReadDocuments)
                    /\ SymbolsIn(Documents) = SymbolsIn(ReadDocuments)
                    /\ RelationshipsIn(Documents) = RelationshipsIn(ReadDocuments)
                    /\ OccurrencesIn(ReadDocuments) \subseteq OccurrencesIn(Documents)
                    /\ Located(OccurrencesIn(Documents)) =
                          Located(OccurrencesIn(ReadDocuments)) \cup
                          ForwardsIn(Paths(ReadDocuments))
  BY DEF MergedIndexIsUnion
<1>1. /\ \A e \in Documents : \E d \in BuilderDocs : e = WithForwardDecls(d)
      /\ \A d \in BuilderDocs : WithForwardDecls(d) \in Documents /\ IsDocument(d)
      /\ \A r \in ReadDocuments : \E d \in BuilderDocs : Covers(d, r)
      /\ \A d \in BuilderDocs : ComesFrom(d, ReadDocuments)
  BY IndexOfBuilder
<1>2. \A d \in BuilderDocs :
          /\ WithForwardDecls(d).path = d.path /\ WithForwardDecls(d).syms = d.syms
          /\ WithForwardDecls(d).occs = d.occs \cup
                {[range |-> o.range, name |-> o.name] :
                    o \in {f \in forwardDeclOccurrences : f.path = d.path}}
  BY <1>1, WrittenDocument
<1>3. ASSUME NEW r \in ReadDocuments
      PROVE  \E e \in Documents : Covers(e, r)
  <2>1. PICK d \in BuilderDocs : Covers(d, r)
    BY <1>1
  <2>2. Covers(WithForwardDecls(d), r)
    BY <1>2, <2>1 DEF Covers
  <2> QED BY <1>1, <2>2
<1>4. ASSUME NEW e \in Documents
      PROVE  /\ \E r \in ReadDocuments : r.path = e.path
             /\ \A n \in DOMAIN e.syms :
                   /\ \E r \in ReadDocuments : r.path = e.path /\ n \in DOMAIN r.syms
                   /\ \A x \in e.syms[n].rels : \E r \in ReadDocuments :
                         r.path = e.path /\ n \in DOMAIN r.syms /\ x \in r.syms[n].rels
             /\ \A o \in e.occs :
                   \/ \E r \in ReadDocuments : r.path = e.path /\ o \in r.occs
                   \/ \E g \in forwardDeclOccurrences :
                         g.path = e.path /\ g.range = o.range /\ g.name = o.name
  <2>1. PICK d \in BuilderDocs : e = WithForwardDecls(d)
    BY <1>1
  <2>2. ComesFrom(d, ReadDocuments)
    BY <1>1
  <2>3. e.path = d.path /\ e.syms = d.syms
    BY <1>2, <2>1
  <2>4. \A o \in e.occs :
            \/ o \in d.occs
            \/ \E g \in forwardDeclOccurrences :
                  g.path = e.path /\ g.range = o.range /\ g.name = o.name
    BY <1>2, <2>1
  <2> QED BY <2>2, <2>3, <2>4 DEF ComesFrom
<1>5. Paths(Documents) = Paths(ReadDocuments)
  BY <1>3, <1>4 DEF Paths, Covers
<1>6. SymbolsIn(Documents) = SymbolsIn(ReadDocuments)
  BY <1>3, <1>4 DEF SymbolsIn, Covers
<1>7. RelationshipsIn(Documents) = RelationshipsIn(ReadDocuments)
  <2>1. ASSUME NEW x \in RelationshipsIn(Documents) PROVE x \in RelationshipsIn(ReadDocuments)
    <3>1. PICK e \in Documents : \E n \in DOMAIN e.syms : \E y \in e.syms[n].rels :
              x = <<e.path, n, y>>
      BY RelatedAt
    <3>2. PICK n \in DOMAIN e.syms : \E y \in e.syms[n].rels : x = <<e.path, n, y>>
      BY <3>1
    <3>3. PICK y \in e.syms[n].rels : x = <<e.path, n, y>>
      BY <3>2
    <3>4. PICK r \in ReadDocuments : r.path = e.path /\ n \in DOMAIN r.syms /\ y \in r.syms[n].rels
      BY <1>4
    <3> QED BY <3>3, <3>4, RelatedAt
  <2>2. ASSUME NEW x \in RelationshipsIn(ReadDocuments) PROVE x \in RelationshipsIn(Documents)
    <3>1. PICK r \in ReadDocuments : \E n \in DOMAIN r.syms : \E y \in r.syms[n].rels :
              x = <<r.path, n, y>>
      BY RelatedAt
    <3>2. PICK e \in Documents : Covers(e, r)
      BY <1>3
    <3> QED BY <3>1, <3>2, RelatedAt DEF Covers
  <2> QED BY <2>1, <2>2
<1>8. OccurrencesIn(ReadDocuments) \subseteq OccurrencesIn(Documents)
  BY <1>3 DEF OccurrencesIn, Covers
<1>9. \A docs : \A x : x \in Located(OccurrencesIn(docs)) <=>
          \E d \in docs : \E o \in d.occs : x = <<d.path, o.range, o.name.suffix>>
  BY LocatedAt
<1>10. \A paths : \A x : x \in ForwardsIn(paths) <=>
          \E f \in ReadForwards : \E ref \in f.references :
              ref.path \in paths /\ x = <<ref.path, ref.range, f.suffix>>
  BY DEF ForwardsIn
<1>11. ASSUME NEW x \in Located(OccurrencesIn(Documents))
       PROVE  \/ x \in Located(OccurrencesIn(ReadDocuments))
              \/ x \in ForwardsIn(Paths(ReadDocuments))
  <2>0. PICK e \in Documents : \E o \in e.occs : x = <<e.path, o.range, o.name.suffix>>
    BY <1>9
  <2>1. PICK o \in e.occs : x = <<e.path, o.range, o.name.suffix>>
    BY <2>0
  <2>2. CASE \E r \in ReadDocuments : r.path = e.path /\ o \in r.occs
    BY <1>9, <2>1, <2>2
  <2>3. CASE \E g \in forwardDeclOccurrences :
                 g.path = e.path /\ g.range = o.range /\ g.name = o.name
    <3>1. PICK g \in forwardDeclOccurrences :
              g.path = e.path /\ g.range = o.range /\ g.name = o.name
      BY <2>3
    <3>2. PICK f \in ReadForwards : \E ref \in f.references :
              g.path = ref.path /\ g.range = ref.range /\ g.name.suffix = f.suffix
      BY DEF MergeInv, ForwardInv
    <3>3. PICK ref \in f.references :
              g.path = ref.path /\ g.range = ref.range /\ g.name.suffix = f.suffix
      BY <3>2
    <3>4. ref.path \in Paths(ReadDocuments)
      <4>1. PICK r \in ReadDocuments : r.path = e.path
        BY <1>4
      <4> QED BY <3>1, <3>3, <4>1 DEF Paths
    <3>5. x = <<ref.path, ref.range, f.suffix>>
      BY <2>1, <3>1, <3>3
    <3> QED BY <1>10, <3>4, <3>5
  <2> QED BY <1>4, <2>1, <2>2, <2>3
<1>12. ASSUME NEW x \in Located(OccurrencesIn(ReadDocuments))
       PROVE  x \in Located(OccurrencesIn(Documents))
  <2>0. PICK r \in ReadDocuments : \E o \in r.occs : x = <<r.path, o.range, o.name.suffix>>
    BY <1>9
  <2>1. PICK o \in r.occs : x = <<r.path, o.range, o.name.suffix>>
    BY <2>0
  <2>2. PICK e \in Documents : e.path = r.path /\ o \in e.occs
    BY <1>3 DEF Covers
  <2> QED BY <1>9, <2>1, <2>2
<1>13. ASSUME NEW x \in ForwardsIn(Paths(ReadDocuments))
       PROVE  x \in Located(OccurrencesIn(Documents))
  <2>0. PICK f \in ReadForwards : \E ref \in f.references :
            ref.path \in Paths(ReadDocuments) /\ x = <<ref.path, ref.range, f.suffix>>
    BY <1>10
  <2>1. PICK ref \in f.references :
            ref.path \in Paths(ReadDocuments) /\ x = <<ref.path, ref.range, f.suffix>>
    BY <2>0
  <2>2. PICK g \in forwardDeclOccurrences :
            g.path = ref.path /\ g.range = ref.range /\ g.name.suffix = f.suffix
    BY ForwardsOccur
  <2>3. PICK d \in BuilderDocs : d.path = ref.path
    BY <1>1, <2>1 DEF Paths, Covers
  <2>4. PICK o : o = [range |-> g.range, name |-> g.name]
    OBVIOUS
  <2>5. o \in WithForwardDecls(d).occs
    BY <1>2, <2>2, <2>3, <2>4
  <2>6. PICK e \in Documents : e = WithForwardDecls(d)
    BY <1>1
  <2>7. e.path = ref.path /\ o \in e.occs /\ o.range = ref.range /\ o.name.suffix = f.suffix
    BY <1>2, <2>2, <2>3, <2>4, <2>5, <2>6
  <2> QED BY <1>9, <2>1, <2>7
<1> QED BY <1>5, <1>6, <1>7, <1>8, <1>11, <1>12, <1>13

(* The occurrences of a suffix are at its targets.                         *)
LEMMA ForwardsResolved == MergeInv => ForwardDeclsResolved
<1> SUFFICES ASSUME MergeInv, phase = "written", NEW f \in ReadForwards
             PROVE  LET external == {n \in DOMAIN output.externals : n.suffix = f.suffix}
                        used == {o.name : o \in {g \in forwardDeclOccurrences :
                                                    g.name.suffix = f.suffix}}
                    IN  IF DefinitionsOf(f.suffix) # {}
                        THEN external = {} /\ \E n \in DefinitionsOf(f.suffix) : used \subseteq {n}
                        ELSE external # {} /\ (f.references # {} => used = external)
  BY DEF ForwardDeclsResolved
<1> DEFINE external == {n \in DOMAIN output.externals : n.suffix = f.suffix}
           used == {o.name : o \in {g \in forwardDeclOccurrences : g.name.suffix = f.suffix}}
<1>1. /\ \A e \in Documents : \E d \in BuilderDocs : e = WithForwardDecls(d)
      /\ \A d \in BuilderDocs : WithForwardDecls(d) \in Documents /\ IsDocument(d)
      /\ Resolved(f) /\ f.suffix # NoSuffix
  BY IndexOfBuilder
<1>2. \A d \in BuilderDocs : WithForwardDecls(d).syms = d.syms
  BY <1>1, WrittenDocument
<1>3. ResolverInv
  BY DEF MergeInv
<1>4. external = {n \in DOMAIN externalSymbols : n.suffix = f.suffix}
  BY DEF MergeInv, OutputInv
<1>5. used \subseteq TargetsOf(f.suffix)
  <2> SUFFICES ASSUME NEW o \in forwardDeclOccurrences, o.name.suffix = f.suffix
               PROVE  o.name \in TargetsOf(f.suffix)
    OBVIOUS
  <2> QED BY DEF MergeInv, ForwardInv
<1> HIDE DEF external, used
<1>6. CASE f.suffix \in DOMAIN docInternalMap
  <2>1. PICK n : n = docInternalMap[f.suffix].name
    OBVIOUS
  <2>2. \E d \in BuilderDocs : n \in DOMAIN d.syms /\ n.suffix = f.suffix
    BY <1>3, <1>6, <2>1, SlotOfSuffix
  <2>3. n \in DefinitionsOf(f.suffix)
    BY <1>1, <1>2, <2>2 DEF DefinitionsOf, Symbols
  <2>4. TargetsOf(f.suffix) = {n}
    BY <1>6, <2>1 DEF TargetsOf
  <2>5. external = {}
    BY <1>1, <1>3, <1>4, <1>6 DEF Resolved, ResolverInv
  <2> QED BY <1>5, <2>3, <2>4, <2>5 DEF external, used
<1>7. CASE f.suffix \notin DOMAIN docInternalMap
  <2>1. DefinitionsOf(f.suffix) = {}
    <3> SUFFICES ASSUME NEW n \in DefinitionsOf(f.suffix) PROVE FALSE
      OBVIOUS
    <3>1. PICK e \in Documents : n \in DOMAIN e.syms /\ n.suffix = f.suffix
      BY DEF DefinitionsOf, Symbols
    <3>2. PICK d \in BuilderDocs : e = WithForwardDecls(d)
      BY <1>1
    <3> QED BY <1>1, <1>2, <1>3, <1>7, <3>1, <3>2 DEF ResolverInv
  <2>2. /\ f.suffix \in DOMAIN externalsMap /\ TargetsOf(f.suffix) = externalsMap[f.suffix]
    BY <1>1, <1>7 DEF Resolved, TargetsOf
  <2>3. TargetsOf(f.suffix) = external /\ external # {}
    BY <1>3, <1>4, <2>2 DEF ResolverInv
  <2>4. ASSUME NEW ref \in f.references, NEW n \in external PROVE n \in used
    <3>1. PICK o : o = [path |-> ref.path, range |-> ref.range, name |-> n]
      OBVIOUS
    <3>2. o \in forwardDeclOccurrences /\ o.name = n
      BY <1>1, <2>3, <3>1 DEF Resolved
    <3>3. n.suffix = f.suffix
      BY <1>4
    <3> QED BY <3>2, <3>3 DEF used
  <2>5. f.references # {} => used = external
    BY <1>5, <2>3, <2>4
  <2> QED BY <2>1, <2>3, <2>5 DEF external, used
<1> QED BY <1>6, <1>7

(* A comment in a shard or at a forward declaration is in the index.       *)
LEMMA CommentsShown == MergeInv => PlaceholderHidesNoComment
<1> SUFFICES ASSUME MergeInv, phase = "written"
             PROVE  PlaceholderHidesNoComment
  BY DEF PlaceholderHidesNoComment
<1>1. /\ \A e \in Documents : \E d \in BuilderDocs : e = WithForwardDecls(d)
      /\ \A d \in BuilderDocs : WithForwardDecls(d) \in Documents /\ IsDocument(d)
      /\ \A r \in ReadDocuments : \E d \in BuilderDocs : Covers(d, r)
      /\ \A f \in ReadForwards : Resolved(f) /\ f.suffix # NoSuffix
  BY IndexOfBuilder
<1>2. \A d \in BuilderDocs : WithForwardDecls(d).path = d.path /\ WithForwardDecls(d).syms = d.syms
  BY <1>1, WrittenDocument
<1>3. ResolverInv /\ ExternalInv /\ output.externals = externalSymbols
  BY DEF MergeInv, OutputInv
<1>4. ASSUME NEW e \in Documents, NEW n \in DOMAIN e.syms, ~ hasDocumentation(e.syms[n].docs),
             NEW r \in ReadDocuments, r.path = e.path, n \in DOMAIN r.syms,
             hasDocumentation(r.syms[n].docs)
      PROVE  \E c \in Documents : c.path = e.path /\ c # e
  <2>1. PICK d \in BuilderDocs : Covers(d, r)
    BY <1>1
  <2>2. d.path = r.path /\ hasDocumentation(d.syms[n].docs)
    BY <1>4, <2>1 DEF Covers
  <2> QED BY <1>1, <1>2, <1>4, <2>2
<1>5. ASSUME NEW e \in Documents, NEW n \in DOMAIN e.syms, ~ hasDocumentation(e.syms[n].docs),
             NEW f \in ReadForwards, f.suffix = n.suffix, RealText(<<f.doc>>)
      PROVE  \E c \in Documents : \E m \in DOMAIN c.syms :
                 m.suffix = n.suffix /\ (c # e \/ m # n)
  <2>1. PICK d \in BuilderDocs : e = WithForwardDecls(d)
    BY <1>1
  <2>2. f.suffix \in DOMAIN docInternalMap
    BY <1>1, <1>2, <1>3, <1>5, <2>1 DEF ResolverInv
  <2>3. PICK slot : slot = docInternalMap[f.suffix]
    OBVIOUS
  <2>4. PICK b : b = DocumentOf(slot)
    OBVIOUS
  <2>5. b \in BuilderDocs /\ slot.name \in DOMAIN b.syms /\ slot.name.suffix = f.suffix
    BY <1>3, <2>2, <2>3, <2>4, SlotOfSuffix
  <2>6. hasDocumentation(b.syms[slot.name].docs)
    BY <1>1, <1>5, <2>2, <2>3, <2>4 DEF Resolved, Documented
  <2>7. PICK c \in Documents : c = WithForwardDecls(b)
    BY <1>1, <2>5
  <2>8. c.syms = b.syms
    BY <1>2, <2>5, <2>7
  <2> QED BY <1>5, <2>5, <2>6, <2>7, <2>8
<1>6. ASSUME NEW n \in DOMAIN externalSymbols, ~ hasDocumentation(externalSymbols[n].docs),
             NEW x \in ReadExternals, x.name = n
      PROVE  ~ hasDocumentation(x.info.docs)
  BY <1>3, <1>6 DEF ExternalInv, PendingExternals
<1>7. ASSUME NEW n \in DOMAIN externalSymbols, ~ hasDocumentation(externalSymbols[n].docs),
             NEW f \in ReadForwards, f.suffix = n.suffix
      PROVE  ~ RealText(<<f.doc>>)
  <2>1. Resolved(f) /\ f.suffix # NoSuffix
    BY <1>1
  <2>2. f.suffix \in DOMAIN externalsMap /\ n \in externalsMap[f.suffix]
    BY <1>3, <1>7, <2>1 DEF ResolverInv
  <2>3. f.suffix \notin DOMAIN docInternalMap
    BY <2>1, <2>2 DEF Resolved
  <2> QED BY <1>7, <2>1, <2>2, <2>3 DEF Resolved, Documented
<1> QED BY <1>3, <1>4, <1>5, <1>6, <1>7 DEF PlaceholderHidesNoComment

(* IndexBuilder::addDocument and finish: for all shards, readable or not,  *)
(* and in whatever order, the index has what the shards have.              *)
THEOREM IndexIsUnion == Spec => []MergedIndexIsUnion
BY MergeInvariance, UnionOfShards, PTL

(* IndexBuilder::addDocument: no path has two documents, except a main     *)
(* file of two compile commands.                                           *)
THEOREM IndexHasOneDocument == Spec => []OneDocumentPerPath
<1>1. MergeInv => OneDocumentPerPath
  BY DEF MergeInv, OutputInv, OneDocumentPerPath
<1> QED BY <1>1, MergeInvariance, PTL

(* IndexBuilder::addForwardDeclaration: every forward declaration ends up  *)
(* at definitions of the project or at external symbols, never at both.    *)
THEOREM IndexResolvesForwards == Spec => []ForwardDeclsResolved
BY MergeInvariance, ForwardsResolved, PTL

(* DocumentBuilder::merge, addExternalSymbol, addForwardDeclaration: no    *)
(* order of the shards makes the placeholder win over a comment.           *)
THEOREM IndexShowsComments == Spec => []PlaceholderHidesNoComment
BY MergeInvariance, CommentsShown, PTL
=============================================================================
