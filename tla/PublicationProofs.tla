------------------------- MODULE PublicationProofs -------------------------
(***************************************************************************)
(* Proofs about Publication, for any feeds, texts, saved catalogs, results *)
(* and direct callers.                                                     *)
(***************************************************************************)
EXTENDS Publication, RankingProofs

-----------------------------------------------------------------------------
(* Sequences made of sets and of sequences.                                *)

\* What SetToSeq makes of a finite set is a sequence of its members, empty only if the
\* set is.
LEMMA SeqOfSet ==
  ASSUME NEW S, IsFiniteSet(S)
  PROVE  /\ SetToSeq(S) \in Seq(S) /\ IsInjective(SetToSeq(S))
         /\ SetToSeq(S) = <<>> <=> S = {}
<1> DEFINE n == Cardinality(S)
<1>1. n \in Nat /\ (n = 0 <=> S = {})
  BY FS_CardinalityType, FS_EmptySet
<1>2. \E f \in [1..n -> S] : IsInjective(f)
  <2>1. PICK f : f \in Bijection(1..n, S)
    BY FS_CardinalityType DEF ExistsBijection
  <2> HIDE DEF n
  <2> QED BY <2>1 DEF Bijection, Injection, IsInjective
<1>3. SetToSeq(S) \in [1..n -> S] /\ IsInjective(SetToSeq(S))
  BY <1>2 DEF SetToSeq
<1> HIDE DEF n
<1> QED BY <1>1, <1>3

\* The texts one after another are a sequence of what the texts are sequences of.
LEMMA FlattenedTexts ==
  ASSUME NEW n \in Nat, NEW R, NEW seqs, seqs \in [1..n -> Seq(R)]
  PROVE  FlattenSeq(seqs) \in Seq(R)
<1> DEFINE S == Seq(R)
           step == [p \in S \X (1..n) |-> p[1] \o seqs[p[2]]]
           Flat(f) == f = [i \in 1..n |-> IF i = 1 THEN seqs[i] ELSE f[i - 1] \o seqs[i]]
<1>1. Len(seqs) = n /\ <<>> \in S
  OBVIOUS
<1>2. CASE n = 0
  <2>1. FlattenSeq(seqs) = seqs
    BY <1>1, <1>2 DEF FlattenSeq
  <2> QED BY <2>1, <1>2
<1>3. CASE n > 0
  <2>1. IsStep(step, S, n)
    BY DEF IsStep
  <2>2. PICK it : IsFold(it, S, <<>>, step, n)
    <3> HIDE DEF S, step
    <3> QED BY <1>1, <2>1, FoldExists
  <2> DEFINE flat == [i \in 1..n |-> it[1..i]]
  <2>3. ASSUME NEW i \in 1..n PROVE it[1..i] = it[1..(i - 1)] \o seqs[i]
    <3> HIDE DEF S, step, flat
    <3>1. Max(1..i) = i
      <4>1. i \in Nat \ {0} /\ 1..i \in SUBSET (1..i) /\ i \in 1..i
        OBVIOUS
      <4> QED BY <4>1, MaxOfInterval
    <3>2. (1..i) \ {i} = 1..(i - 1) /\ 1..i # {}
          /\ 1..i \in SUBSET (1..n) /\ 1..(i - 1) \in SUBSET (1..n)
      <4>1. (1..i) \ {i} = 1..(i - 1)
        OBVIOUS
      <4>2. 1..i # {}
        <5>1. i \in 1..i
          OBVIOUS
        <5> QED BY <5>1
      <4>3. 1..i \in SUBSET (1..n) /\ 1..(i - 1) \in SUBSET (1..n)
        OBVIOUS
      <4> QED BY <4>1, <4>2, <4>3
    <3>3. it[1..i] = step[<<it[1..(i - 1)], i>>] /\ it[1..(i - 1)] \in S
      <4> HIDE DEF S, step
      <4> QED BY <2>2, <3>1, <3>2 DEF IsFold
    <3> QED BY <3>3 DEF S, step
  <2>4. it[1..1] = seqs[1]
    <3>1. it[1..0] = <<>> /\ 1 \in 1..n
      <4>1. 1..0 = {}
        OBVIOUS
      <4> QED BY <4>1, <2>2, <1>3 DEF IsFold
    <3>2. it[1..1] = it[1..(1 - 1)] \o seqs[1]
      <4> HIDE DEF S, step, flat
      <4> QED BY <3>1, <2>3
    <3> QED BY <3>1, <3>2
  <2>5. Flat(flat)
    <3>1. ASSUME NEW i \in 1..n
          PROVE  flat[i] = IF i = 1 THEN seqs[i] ELSE flat[i - 1] \o seqs[i]
      <4>1. CASE i = 1
        BY <4>1, <2>4
      <4>2. CASE i # 1
        BY <4>2, <2>3
      <4> QED BY <4>1, <4>2
    <3>2. flat = [i \in 1..n |-> flat[i]]
      OBVIOUS
    <3> HIDE DEF flat
    <3> QED BY <3>1, <3>2
  <2>6. FlattenSeq(seqs) = (CHOOSE f : Flat(f))[n]
    BY <1>1, <1>3 DEF FlattenSeq
  <2>7. PICK f : Flat(f) /\ FlattenSeq(seqs) = f[n]
    <3> HIDE DEF Flat, flat
    <3> QED BY <2>5, <2>6
  <2> DEFINE Good == {0} \cup {i \in 1..n : f[i] \in S}
  <2>8. ASSUME NEW i \in 1..n, i - 1 \in Good PROVE i \in Good
    <3>1. f[i] = IF i = 1 THEN seqs[i] ELSE f[i - 1] \o seqs[i]
      BY <2>7
    <3>2. i = 1 \/ f[i - 1] \in S
      BY <2>8
    <3>3. f[i] \in S
      <4>1. CASE i = 1
        BY <3>1, <4>1
      <4>2. CASE i # 1
        BY <3>1, <3>2, <4>2
      <4> QED BY <4>1, <4>2
    <3> QED BY <3>3
  <2>9. 0..n \subseteq Good
    <3>1. 0 \in Good
      OBVIOUS
    <3> HIDE DEF Good
    <3> QED BY <3>1, <2>8, Induction
  <2>10. f[n] \in S
    <3>1. n \in 0..n /\ n # 0
      BY <1>3
    <3>2. n \in Good
      <4> HIDE DEF Good
      <4> QED BY <2>9, <3>1
    <3> QED BY <3>1, <3>2
  <2> QED BY <2>7, <2>10
<1> QED BY <1>2, <1>3

-----------------------------------------------------------------------------
(* The merge.                                                              *)

\* The loop over the lines, after each of them.
LEMMA MergeLoop ==
  ASSUME NEW servers, NEW R, NEW c \in Seq(R)
  PROVE  \E merged : /\ merged[0] = Listed(servers)
                     /\ \A k \in 1..Len(c) : merged[k] = MergeLine(merged[k - 1], c[k])
                     /\ Merged(servers, c) = merged[Len(c)]
<1> DEFINE n == Len(c)
           base == Listed(servers)
           S == SUBSET (base \cup R)
           step == [p \in S \X (1..n) |-> MergeLine(p[1], c[p[2]])]
           Fold(it) == it = [s \in SUBSET DOMAIN c |->
                               IF s = {} THEN base ELSE MergeLine(it[s \ {Max(s)}], c[Max(s)])]
<1>1. n \in Nat /\ DOMAIN c = 1..n /\ base \in S
  OBVIOUS
<1>2. IsStep(step, S, n)
  <2>1. ASSUME NEW m \in S, NEW i \in 1..n PROVE MergeLine(m, c[i]) \in S
    BY DEF MergeLine
  <2> HIDE DEF S, n
  <2> QED BY <2>1 DEF IsStep
<1>3. PICK it : IsFold(it, S, base, step, n)
  <2> HIDE DEF n, S, step
  <2> QED BY <1>1, <1>2, FoldExists
<1>4. ASSUME NEW s \in SUBSET (1..n), s # {}
      PROVE  it[s] = MergeLine(it[s \ {Max(s)}], c[Max(s)])
  <2>1. Max(s) \in 1..n /\ it[s \ {Max(s)}] \in S
    <3> HIDE DEF S, n
    <3> QED BY <1>1, <1>3, <1>4, MaxIsMember DEF IsFold
  <2> HIDE DEF S, n
  <2> QED BY <2>1, <1>3, <1>4 DEF IsFold
<1>5. Fold(it)
  <2> HIDE DEF S, step, n
  <2> QED BY <1>1, <1>3, <1>4 DEF IsFold
<1>6. Merged(servers, c) = (CHOOSE it2 : Fold(it2))[DOMAIN c]
  BY DEF Merged, FoldLeft, MapThenFoldSet
<1>7. PICK f : Fold(f) /\ Merged(servers, c) = f[1..n]
  <2> HIDE DEF Fold, n
  <2> QED BY <1>1, <1>5, <1>6
<1> DEFINE merged == [k \in 0..n |-> f[1..k]]
<1>8. merged[0] = base
  BY <1>1, <1>7
<1>9. ASSUME NEW k \in 1..n PROVE merged[k] = MergeLine(merged[k - 1], c[k])
  <2> HIDE DEF n
  <2>1. Max(1..k) = k
    BY <1>1, MaxOfInterval
  <2>2. (1..k) \ {k} = 1..(k - 1) /\ 1..k \in SUBSET (1..n) /\ k \in 1..k
    BY <1>1
  <2>3. f[1..k] = MergeLine(f[1..(k - 1)], c[k])
    BY <1>7, <2>1, <2>2, <1>1
  <2> QED BY <2>3, <1>1
<1>10. Merged(servers, c) = merged[n]
  <2>1. n \in 0..n
    BY <1>1
  <2> HIDE DEF n, Fold
  <2> QED BY <1>7, <2>1
<1> QED BY <1>8, <1>9, <1>10

\* Before the loop the candidates are the published routes.
LEMMA MergeBegins ==
  ASSUME NEW servers, OneServerForEachRoute(ToSet(servers)),
         \A s \in ToSet(servers) : s.route # Invalid
  PROVE  IsMergeOf(Listed(servers), ToSet(servers), {})
<1> DEFINE H == ToSet(servers)
           M == Listed(servers)
           Had(r) == {s.source : s \in {s \in H : s.route = r}}
<1>1. M = {[route |-> s.route, source |-> s.source] : s \in H}
  BY DEF Listed
<1> HIDE DEF H, M
<1>2. {c.route : c \in M} = {e.route : e \in H \cup {}} \ {Invalid}
  <2> DEFINE As(s) == [route |-> s.route, source |-> s.source]
  <2>1. M = {As(s) : s \in H} /\ \A s : As(s).route = s.route
    BY <1>1
  <2>2. {c.route : c \in M} = {s.route : s \in H}
    <3> HIDE DEF As
    <3> QED BY <2>1
  <2>3. Invalid \notin {s.route : s \in H}
    BY DEF H
  <2> QED BY <2>2, <2>3
<1>3. OneServerForEachRoute(M)
  BY <1>1 DEF H, OneServerForEachRoute
<1>4. ASSUME NEW c \in M PROVE Had(c.route) = {c.source}
  <2>1. PICK s \in H : c = [route |-> s.route, source |-> s.source]
    BY <1>1
  <2>2. c.route = s.route /\ c.source = s.source
    BY <2>1
  <2>3. {t \in H : t.route = c.route} = {s}
    BY <2>2 DEF H, OneServerForEachRoute
  <2> QED BY <2>2, <2>3
<1> QED BY <1>2, <1>3, <1>4 DEF IsMergeOf, H, M

\* Each line keeps them a merge of what was published and the lines so far.
LEMMA MergeContinues ==
  ASSUME NEW H, NEW T, NEW m, NEW l, IsMergeOf(m, H, T)
  PROVE  IsMergeOf(MergeLine(m, l), H, T \cup {l})
<1> DEFINE Had(r)  == {s.source : s \in {s \in H : s.route = r}}
           Told(r) == {x.source : x \in {x \in T : x.route = r}}
           Now(r)  == {x.source : x \in {x \in T \cup {l} : x.route = r}}
           Routes(U) == {e.route : e \in H \cup U} \ {Invalid}
           Good(c, told) ==
             /\ c.source \in Had(c.route) \cup told
             /\ (Had(c.route) \cup told) \cap Curated # {} => c.source \in Curated
             /\ (Had(c.route) \cap Curated # {} \/ told \cap Curated = {}) =>
                  Had(c.route) \in {{}, {c.source}}
           next == MergeLine(m, l)
<1>1. /\ {c.route : c \in m} = Routes(T)
      /\ OneServerForEachRoute(m)
      /\ \A c \in m : Good(c, Told(c.route))
  BY DEF IsMergeOf
<1>2. SUFFICES /\ {c.route : c \in next} = Routes(T \cup {l})
               /\ OneServerForEachRoute(next)
               /\ \A c \in next : Good(c, Now(c.route))
  BY DEF IsMergeOf
<1>3. /\ \A r : r # l.route => Now(r) = Told(r)
      /\ Now(l.route) = Told(l.route) \cup {l.source}
      /\ Routes(T \cup {l}) = Routes(T) \cup ({l.route} \ {Invalid})
  OBVIOUS
<1> HIDE DEF Had, Told, Now, Routes, next
<1>4. CASE l.route = Invalid
  <2>1. next = m
    BY <1>4 DEF MergeLine, next
  <2>2. \A c \in m : c.route # l.route
    BY <1>1, <1>4 DEF Routes
  <2> QED BY <2>1, <2>2, <1>1, <1>3, <1>4
<1>5. CASE l.route # Invalid /\ \A c \in m : c.route # l.route
  <2>1. next = m \cup {l}
    BY <1>5 DEF MergeLine, next
  <2>2. Told(l.route) = {} /\ Had(l.route) = {}
    <3>1. l.route \notin Routes(T)
      BY <1>1, <1>5
    <3> QED BY <3>1, <1>5 DEF Routes, Told, Had
  <2>3. {c.route : c \in next} = Routes(T \cup {l})
    BY <2>1, <1>1, <1>3, <1>5
  <2>4. OneServerForEachRoute(next)
    BY <2>1, <1>1, <1>5 DEF OneServerForEachRoute
  <2>5. ASSUME NEW c \in next PROVE Good(c, Now(c.route))
    <3>1. CASE c = l
      BY <3>1, <2>2, <1>3
    <3>2. CASE c \in m
      BY <3>2, <1>1, <1>3, <1>5
    <3> QED BY <3>1, <3>2, <2>1
  <2> QED BY <2>3, <2>4, <2>5
<1>6. CASE l.route # Invalid /\ \E c \in m : c.route = l.route
  <2> DEFINE Up(c) == IF c.route = l.route /\ PreferredSource(l.source, c.source) THEN l ELSE c
  <2>1. next = {Up(c) : c \in m}
    BY <1>6 DEF MergeLine, next
  <2>2. \A c : Up(c).route = c.route
    OBVIOUS
  <2>3. {c.route : c \in next} = Routes(T \cup {l})
    <3>1. l.route \in Routes(T)
      BY <1>1, <1>6
    <3>2. {c.route : c \in next} = {c.route : c \in m}
      <4> HIDE DEF Up
      <4> QED BY <2>1, <2>2
    <3> QED BY <3>1, <3>2, <1>1, <1>3
  <2>4. OneServerForEachRoute(next)
    <3> HIDE DEF Up
    <3> QED BY <2>1, <2>2, <1>1 DEF OneServerForEachRoute
  <2>5. ASSUME NEW c \in m PROVE Good(Up(c), Now(c.route))
    <3>1. Good(c, Told(c.route))
      BY <1>1
    <3>2. CASE c.route # l.route
      BY <3>1, <3>2, <1>3
    <3>3. CASE c.route = l.route /\ PreferredSource(l.source, c.source)
      <4>1. Up(c) = l /\ Now(c.route) = Told(c.route) \cup {l.source}
        BY <3>3, <1>3
      <4> QED BY <3>1, <3>3, <4>1 DEF PreferredSource
    <3>4. CASE c.route = l.route /\ ~PreferredSource(l.source, c.source)
      <4>1. Up(c) = c /\ Now(c.route) = Told(c.route) \cup {l.source}
        BY <3>4, <1>3
      <4> QED BY <3>1, <3>4, <4>1 DEF PreferredSource
    <3> QED BY <3>2, <3>3, <3>4
  <2>6. ASSUME NEW c \in next PROVE Good(c, Now(c.route))
    <3>1. PICK x \in m : c = Up(x)
      BY <2>1
    <3>2. c.route = x.route
      BY <3>1, <2>2
    <3> HIDE DEF Good, Up
    <3> QED BY <3>1, <3>2, <2>5
  <2> QED BY <2>3, <2>4, <2>6
<1> QED BY <1>4, <1>5, <1>6

\* After the merge loop the candidates are a merge of the catalog and the lines.
THEOREM MergeIsOfAll ==
  ASSUME NEW servers, OneServerForEachRoute(ToSet(servers)),
         \A s \in ToSet(servers) : s.route # Invalid, servers \in Seq(ToSet(servers)),
         NEW R, NEW c \in Seq(R)
  PROVE  LET m == Merged(servers, c)
         IN IsMergeOf(m, ToSet(servers), ToSet(c)) /\ IsFiniteSet(m)
<1> DEFINE H == ToSet(servers)
           n == Len(c)
           T(k) == {c[i] : i \in 1..k}
<1>1. n \in Nat /\ ToSet(c) = T(n)
  BY DEF ToSet
<1>2. PICK merged : /\ merged[0] = Listed(servers)
                    /\ \A k \in 1..n : merged[k] = MergeLine(merged[k - 1], c[k])
                    /\ Merged(servers, c) = merged[n]
  BY MergeLoop
<1> HIDE DEF n
<1> DEFINE Good == {k \in 0..n : IsMergeOf(merged[k], H, T(k)) /\ IsFiniteSet(merged[k])}
<1>3. 0 \in Good
  <2>1. T(0) = {}
    OBVIOUS
  <2>2. IsMergeOf(merged[0], H, T(0))
    BY <1>2, <2>1, MergeBegins
  <2>3. IsFiniteSet(Listed(servers))
    <3> DEFINE g == [i \in 1..Len(servers) |->
                       [route |-> servers[i].route, source |-> servers[i].source]]
    <3>1. Len(servers) \in Nat /\ DOMAIN servers = 1..Len(servers)
      OBVIOUS
    <3>2. Listed(servers) = {g[i] : i \in 1..Len(servers)}
      BY <3>1 DEF Listed, ToSet
    <3> HIDE DEF g
    <3> QED BY <3>1, <3>2, ImageIsFinite
  <2> HIDE DEF T, H
  <2> QED BY <2>2, <2>3, <1>1, <1>2
<1>4. ASSUME NEW k \in 1..n, k - 1 \in Good PROVE k \in Good
  <2>1. T(k) = T(k - 1) \cup {c[k]}
    <3>1. 1..k = 1..(k - 1) \cup {k}
      BY <1>1
    <3> QED BY <3>1
  <2> HIDE DEF T, H
  <2>2. merged[k] = MergeLine(merged[k - 1], c[k])
    BY <1>2
  <2>3. IsMergeOf(merged[k], H, T(k))
    BY <2>1, <2>2, <1>4, MergeContinues
  <2>4. IsFiniteSet(merged[k])
    <3> DEFINE m == merged[k - 1]
               l == c[k]
               g == [x \in m |-> IF x.route = l.route /\ PreferredSource(l.source, x.source)
                                   THEN l ELSE x]
               T2 == {g[x] : x \in m}
    <3>1. IsFiniteSet(m)
      BY <1>4
    <3>2. IsFiniteSet(m \cup {l})
      BY <3>1, FS_AddElement
    <3>3. IsFiniteSet(T2)
      <4>1. g \in Surjection(m, T2)
        BY DEF Surjection
      <4> HIDE DEF g, T2
      <4> QED BY <4>1, <3>1, FS_Surjection
    <3>4. merged[k] \in {m, m \cup {l}, T2}
      BY <2>2 DEF MergeLine
    <3> HIDE DEF m, T2, l
    <3> QED BY <3>1, <3>2, <3>3, <3>4
  <2>5. k \in 0..n
    BY <1>1
  <2> QED BY <2>3, <2>4, <2>5
<1>5. n \in Good
  <2>1. 0..n \subseteq Good
    <3> HIDE DEF Good
    <3> QED BY <1>1, <1>3, <1>4, Induction
  <2> HIDE DEF Good
  <2> QED BY <2>1, <1>1
<1> QED BY <1>1, <1>2, <1>5

-----------------------------------------------------------------------------
(* The types.                                                              *)

\* A sequence over a set is one over its own elements.
LEMMA OwnElements ==
  ASSUME NEW R, NEW s \in Seq(R)
  PROVE  s \in Seq(ToSet(s)) /\ ToSet(s) \subseteq R
BY DEF ToSet

\* The type invariant, and what it takes to make a sequence of the candidates.
IInv == TypeOK /\ IsFiniteSet(candidates)

\* A process starts with what an earlier one published.
LEMMA InitTyped ==
  ASSUME Init
  PROVE  IInv
<1>1. IsCatalog(catalog)
  BY PublicationAssumption DEF Init
<1>2. lines = <<>> /\ batch = <<>> /\ candidates = {} /\ phase = "idle"
  BY DEF Init
<1>3. AreLines(<<>>) /\ IsBatch(<<>>)
  <2>1. ToSet(<<>>) = {}
    BY DEF ToSet
  <2> QED BY <2>1 DEF AreLines, IsBatch
<1> QED BY <1>1, <1>2, <1>3, FS_EmptySet DEF IInv, TypeOK, OneServerForEachRoute

\* A download gives lines.
LEMMA DownloadTyped ==
  ASSUME IInv, Download
  PROVE  IInv'
<1>1. PICK text \in [ToSet(Feeds) -> UNION {Texts[f] : f \in ToSet(Feeds)}] :
        /\ \A f \in ToSet(Feeds) : text[f] \in Texts[f]
        /\ lines' = FlattenSeq([i \in DOMAIN Feeds |->
                      [j \in DOMAIN text[Feeds[i]] |->
                         [route |-> text[Feeds[i]][j], source |-> Feeds[i]]]])
  BY DEF Download
<1> DEFINE n == Len(Feeds)
           R == [route : Nat, source : ToSet(Feeds)]
           sourced(i) == [j \in DOMAIN text[Feeds[i]] |->
                            [route |-> text[Feeds[i]][j], source |-> Feeds[i]]]
           texts == [i \in DOMAIN Feeds |-> sourced(i)]
<1>2. n \in Nat /\ DOMAIN Feeds = 1..n /\ \A i \in 1..n : Feeds[i] \in ToSet(Feeds)
  BY PublicationAssumption
<1>3. ASSUME NEW i \in 1..n PROVE sourced(i) \in Seq(R)
  <2>2. text[Feeds[i]] \in Seq(Nat)
    BY <1>1, <1>2, PublicationAssumption
  <2> HIDE DEF n
  <2>3. DOMAIN text[Feeds[i]] = 1..Len(text[Feeds[i]]) /\ Len(text[Feeds[i]]) \in Nat
    BY <2>2
  <2>4. \A j \in 1..Len(text[Feeds[i]]) : text[Feeds[i]][j] \in Nat
    BY <2>2
  <2> QED BY <2>3, <2>4, <1>2
<1>4. texts \in [1..n -> Seq(R)]
  <2> HIDE DEF sourced, R, n
  <2> QED BY <1>2, <1>3
<1>5. lines' \in Seq(R)
  <2> HIDE DEF R, n
  <2> QED BY <1>1, <1>2, <1>4, FlattenedTexts
<1>6. AreLines(lines')
  <2>1. lines' \in Seq(ToSet(lines')) /\ ToSet(lines') \subseteq R
    BY <1>5, OwnElements
  <2> QED BY <2>1 DEF AreLines
<1> QED BY <1>6 DEF IInv, TypeOK, Download

\* The merge gives candidates, as many as there are routes.
LEMMA MergeTyped ==
  ASSUME IInv, Merge
  PROVE  IInv' /\ IsMergeOf(candidates', ToSet(catalog), ToSet(lines))
<1>1. /\ OneServerForEachRoute(ToSet(catalog)) /\ catalog \in Seq(ToSet(catalog))
      /\ \A s \in ToSet(catalog) : s.route \in Nat /\ s.route # Invalid
      /\ lines \in Seq(ToSet(lines)) /\ \A l \in ToSet(lines) : l.route \in Nat
  BY DEF IInv, TypeOK, IsCatalog, IsBatch, AreLines, IsOffer, IsServer, Comparable
<1>2. IsMergeOf(candidates', ToSet(catalog), ToSet(lines)) /\ IsFiniteSet(candidates')
  <2>1. candidates' = Merged(catalog, lines)
    BY DEF Merge
  <2> QED BY <1>1, <2>1, MergeIsOfAll
<1>3. OneServerForEachRoute(candidates') /\ \A c \in candidates' : c.route \in Nat \ {Invalid}
  <2>1. /\ OneServerForEachRoute(candidates')
        /\ {c.route : c \in candidates'} =
             {e.route : e \in ToSet(catalog) \cup ToSet(lines)} \ {Invalid}
    BY <1>2 DEF IsMergeOf
  <2>2. \A e \in ToSet(catalog) \cup ToSet(lines) : e.route \in Nat
    BY <1>1
  <2> QED BY <2>1, <2>2
<1>4. AreLines(lines')
  <2>1. lines' = <<>> /\ ToSet(<<>>) = {}
    BY DEF Merge, ToSet
  <2> QED BY <2>1 DEF AreLines
<1> QED BY <1>2, <1>3, <1>4 DEF IInv, TypeOK, Merge

\* A check offers each candidate once, with what was measured of it.
LEMMA CheckTyped ==
  ASSUME IInv, Check
  PROVE  IInv' /\ OneServerForEachRoute(ToSet(batch'))
<1> DEFINE Measured(c, m) == [route   |-> c.route,
                              source  |-> c.source,
                              country |-> m.country,
                              latency |-> m.latency,
                              speed   |-> m.speed]
<1>1. PICK accepted \in SUBSET candidates : \E measured \in [accepted -> Measurements] :
        /\ batch' = SetToSeq({Measured(c, measured[c]) : c \in accepted})
        /\ phase' = IF accepted = {} THEN "done" ELSE "replace"
  BY DEF Check
<1>2. PICK measured \in [accepted -> Measurements] :
        /\ batch' = SetToSeq({Measured(c, measured[c]) : c \in accepted})
        /\ phase' = IF accepted = {} THEN "done" ELSE "replace"
  BY <1>1
<1> DEFINE offer(c) == Measured(c, measured[c])
           S == {offer(c) : c \in accepted}
<1>3. IsFiniteSet(S) /\ (S = {} <=> accepted = {})
  <2> DEFINE g == [c \in accepted |-> offer(c)]
  <2>1. g \in Surjection(accepted, S)
    <3> HIDE DEF offer
    <3> QED BY DEF Surjection
  <2>2. IsFiniteSet(accepted)
    BY FS_Subset DEF IInv
  <2>3. IsFiniteSet(S)
    <3> HIDE DEF g, S
    <3> QED BY <2>1, <2>2, FS_Surjection
  <2> HIDE DEF offer
  <2> QED BY <2>3
<1>4. ASSUME NEW c \in accepted
      PROVE  IsOffer(offer(c)) /\ offer(c).route = c.route
  <2>1. c.route \in Nat \ {Invalid}
    BY DEF IInv, TypeOK
  <2>2. measured[c].latency \in Nat /\ measured[c].speed \in Nat
    BY PublicationAssumption
  <2> QED BY <2>1, <2>2 DEF IsOffer, IsServer, Comparable
<1>5. batch' \in Seq(S) /\ (batch' = <<>> <=> accepted = {})
  <2>1. batch' = SetToSeq(S)
    BY <1>2
  <2> HIDE DEF S
  <2> QED BY <1>3, <2>1, SeqOfSet
<1>6. IsBatch(batch') /\ OneServerForEachRoute(ToSet(batch'))
  <2>1. batch' \in Seq(ToSet(batch')) /\ ToSet(batch') \subseteq S
    <3> HIDE DEF S
    <3> QED BY <1>5, OwnElements
  <2>2. \A x \in S : IsOffer(x)
    <3> HIDE DEF offer
    <3> QED BY <1>4
  <2>3. OneServerForEachRoute(S)
    <3>1. \A c, d \in accepted : c.route = d.route => c = d
      BY DEF IInv, TypeOK, OneServerForEachRoute
    <3> HIDE DEF offer
    <3> QED BY <1>4, <3>1 DEF OneServerForEachRoute
  <2> HIDE DEF S
  <2> QED BY <2>1, <2>2, <2>3 DEF IsBatch, OneServerForEachRoute
<1>7. candidates' = {} /\ OneServerForEachRoute({}) /\ IsFiniteSet({})
  BY FS_EmptySet DEF Check, OneServerForEachRoute
<1>8. phase' \in {"done", "replace"} /\ (phase' = "replace" <=> batch' # <<>>)
  BY <1>2, <1>5
<1> QED BY <1>6, <1>7, <1>8 DEF IInv, TypeOK, Check

\* A direct caller offers what a caller may.
LEMMA CallReplaceTyped ==
  ASSUME IInv, CallReplace
  PROVE  IInv'
<1>1. IsBatch(batch')
  BY PublicationAssumption DEF CallReplace
<1> QED BY <1>1 DEF IInv, TypeOK, CallReplace

\* What may be published is sorted and made of the offers, one for each route.
LEMMA Listing ==
  ASSUME NEW c, IsBatch(c), NEW cat \in Catalogs(c, DefaultLabel)
  PROVE  /\ Catalogs(c, DefaultLabel) = {cat}
         /\ IsPool(ToSet(cat)) /\ IsSorting(cat, ToSet(cat))
         /\ ToSet(cat) \subseteq Unique(c, DefaultLabel)
         /\ Unique(c, DefaultLabel) \subseteq {Labelled(x, DefaultLabel) : x \in ToSet(c)}
         /\ SharesThePool(cat, Unique(c, DefaultLabel))
<1> DEFINE U == Unique(c, DefaultLabel)
           X == ToSet(c)
           Pool(ranked) == DiverseCountryPool(ranked, PoolCap, MaxPerCountry)
<1>1. c \in Seq(X) /\ \A x \in X : IsServer(x)
  BY DEF IsBatch, IsOffer
<1>2. PICK ranked, listed :
        /\ Catalogs(c, DefaultLabel) = {listed}
        /\ IsPool(U) /\ IsSorting(ranked, U) /\ IsSorting(listed, Pool(ranked))
  <2> HIDE DEF X
  <2> QED BY <1>1, CatalogHasOneResult
<1>3. cat = listed
  BY <1>2
<1>4. U \subseteq {Labelled(x, DefaultLabel) : x \in X}
  <2> HIDE DEF X
  <2>1. U \subseteq {Labelled(x, DefaultLabel) : x \in ToSet(c)}
    BY <1>1, UniqueKeepsTheBest
  <2> QED BY <2>1 DEF X
<1> HIDE DEF U, X
<1>5. SharesThePool(cat, U)
  BY <1>2, <1>3, PoolSharesThePool
<1>6. IsPool(Pool(ranked)) /\ Pool(ranked) \subseteq U
  <2>1. IsPool(Pool(ranked))
    BY <1>2, PoolOfServers
  <2> DEFINE n == Cardinality(U)
             J == Pooled(ranked, PoolCap, MaxPerCountry)
  <2>2. n \in Nat /\ DOMAIN ranked = 1..n /\ Len(ranked) = n /\ ranked \in [1..n -> U]
    BY <1>2, FS_CardinalityType DEF IsPool, IsSorting
  <2>3. PoolCap \in Nat \ {0} /\ MaxPerCountry \in Nat \ {0}
    BY RankingAssumption
  <2>4. J \subseteq 1..n
    <3> HIDE DEF n
    <3> QED BY <2>2, <2>3, PooledPositions
  <2>5. {ranked[i] : i \in J} \subseteq U
    <3> HIDE DEF n, J
    <3> QED BY <2>2, <2>4
  <2> QED BY <2>1, <2>5 DEF DiverseCountryPool
<1> HIDE DEF Pool
<1>7. ToSet(cat) = Pool(ranked)
  <2>1. cat \in [1..Cardinality(Pool(ranked)) -> Pool(ranked)]
        /\ \A x \in Pool(ranked) : \E k \in 1..Cardinality(Pool(ranked)) : cat[k] = x
    BY <1>2, <1>3 DEF IsSorting
  <2> QED BY <2>1 DEF ToSet
<1> QED BY <1>2, <1>3, <1>4, <1>5, <1>6, <1>7 DEF U, X

\* The new catalog is one a later process may start with.
LEMMA ReplaceTyped ==
  ASSUME IInv, Replace
  PROVE  IInv'
<1>1. IsBatch(batch) /\ catalog' \in Catalogs(batch, DefaultLabel)
  BY DEF IInv, TypeOK, Replace
<1>2. /\ IsPool(ToSet(catalog')) /\ IsSorting(catalog', ToSet(catalog'))
      /\ ToSet(catalog') \subseteq {Labelled(x, DefaultLabel) : x \in ToSet(batch)}
  BY <1>1, Listing
<1>3. ASSUME NEW s \in ToSet(catalog') PROVE IsOffer(s) /\ s.source # NoLabel
  <2>1. PICK x \in ToSet(batch) : s = Labelled(x, DefaultLabel)
    BY <1>2
  <2>2. IsOffer(x)
    BY <1>1 DEF IsBatch
  <2>3. /\ IsServer(s) /\ s.route = x.route /\ s.latency = x.latency /\ s.speed = x.speed
        /\ s.source = IF x.source = NoLabel THEN DefaultLabel ELSE x.source
    BY <2>1, <2>2, LabelledServer DEF IsOffer
  <2> QED BY <2>2, <2>3, PublicationAssumption DEF IsOffer
<1>4. catalog' \in Seq(ToSet(catalog'))
  <2>1. Cardinality(ToSet(catalog')) \in Nat
    BY <1>2, FS_CardinalityType DEF IsPool
  <2> QED BY <1>2, <2>1 DEF IsSorting
<1>5. OneServerForEachRoute(ToSet(catalog')) /\ IsInjective(catalog')
  BY <1>2 DEF IsPool, IsSorting
<1>6. IsCatalog(catalog')
  BY <1>3, <1>4, <1>5 DEF IsCatalog, IsBatch
<1>7. IsBatch(batch')
  <2>1. batch' = <<>> /\ ToSet(<<>>) = {}
    BY DEF Replace, ToSet
  <2> QED BY <2>1 DEF IsBatch
<1> QED BY <1>6, <1>7 DEF IInv, TypeOK, Replace

\* A failure only drops the offers.
LEMMA ReplaceFailsTyped ==
  ASSUME IInv, ReplaceFails
  PROVE  IInv'
<1>1. batch' = <<>> /\ ToSet(<<>>) = {}
  BY DEF ReplaceFails, ToSet
<1>2. IsBatch(batch')
  BY <1>1 DEF IsBatch
<1> QED BY <1>1, <1>2 DEF IInv, TypeOK, ReplaceFails

\* The invariant holds at every step of a publication.
LEMMA Inductive == Spec => []IInv
<1>1. Init => IInv
  BY InitTyped
<1>2. IInv /\ [Next]_vars => IInv'
  <2> SUFFICES ASSUME IInv, [Next]_vars PROVE IInv'
    OBVIOUS
  <2>1. CASE Next
    BY <2>1, DownloadTyped, MergeTyped, CheckTyped, CallReplaceTyped, ReplaceTyped,
       ReplaceFailsTyped DEF Next
  <2>2. CASE UNCHANGED vars
    BY <2>2 DEF IInv, TypeOK, vars
  <2> QED BY <2>1, <2>2
<1> QED BY <1>1, <1>2, PTL DEF Spec

-----------------------------------------------------------------------------
(* The properties.                                                         *)

\* The type invariant of a publication, for any feeds, texts, saved catalogs, results
\* and callers: in particular the catalog has one server for each route, and a batch
\* is only ever there to be published.
THEOREM Typing == Spec => []TypeOK
<1>1. IInv => TypeOK
  BY DEF IInv
<1> QED BY <1>1, Inductive, PTL

\* The merge loop of Refresh keeps every route and the best of its labels, whatever the
\* feeds list in whatever order.
THEOREM ProvenanceIsKept == Spec => MergeKeepsProvenance
<1>1. IInv /\ [Next]_vars =>
        [phase = "merge" => IsMergeOf(candidates', ToSet(catalog), ToSet(lines))]_vars
  <2> SUFFICES ASSUME IInv, Next, phase = "merge"
               PROVE  IsMergeOf(candidates', ToSet(catalog), ToSet(lines))
    OBVIOUS
  <2>1. Merge
    BY DEF Next, Download, Merge, Check, CallReplace, Replace, ReplaceFails
  <2> QED BY <2>1, MergeTyped
<1> QED BY <1>1, Inductive, PTL DEF Spec, MergeKeepsProvenance

\* The steps of a publication that change the catalog.
LEMMA ReplacedStep ==
  ASSUME IInv, Next, Replaced
  PROVE  IsBatch(batch) /\ catalog' \in Catalogs(batch, DefaultLabel)
BY DEF IInv, TypeOK, Replaced, Next, Download, Merge, Check, CallReplace, Replace, ReplaceFails

\* For any offers of any measurements: each route is published with the best of them,
\* and the catalog is ordered by speed.
THEOREM BestIsPublished == Spec => BestOfferIsPublished
<1> DEFINE Best == /\ \A s \in ToSet(catalog') : \A c \in ToSet(batch) :
                        c.route = s.route =>
                          /\ ~Faster(c, s)
                          /\ SameSpeed(c, s) /\ c.source \in Curated => s.source \in Curated
                   /\ \A j \in DOMAIN catalog' : \A i \in 1..(j - 1) :
                        ~Faster(catalog'[j], catalog'[i])
<1>1. ASSUME IInv, Next, Replaced PROVE Best
  <2>1. IsBatch(batch) /\ catalog' \in Catalogs(batch, DefaultLabel)
    BY <1>1, ReplacedStep
  <2> DEFINE X == ToSet(batch)
             U == Unique(batch, DefaultLabel)
             K == ToSet(catalog')
  <2>2. batch \in Seq(X) /\ \A x \in X : IsServer(x)
    BY <2>1 DEF IsBatch, IsOffer
  <2>3. K \subseteq U /\ IsPool(K) /\ IsSorting(catalog', K)
    BY <2>1, Listing
  <2>4. /\ OneServerForEachRoute(U)
        /\ U \subseteq {Labelled(x, DefaultLabel) : x \in X}
        /\ \A x \in X : \E s \in U : s.route = x.route /\ ~Better(Labelled(x, DefaultLabel), s)
    <3> HIDE DEF X
    <3>1. /\ U \subseteq {Labelled(x, DefaultLabel) : x \in ToSet(batch)}
          /\ OneServerForEachRoute(U)
          /\ \A x \in ToSet(batch) : \E s \in U :
               s.route = x.route /\ ~Better(Labelled(x, DefaultLabel), s)
      BY <2>2, UniqueKeepsTheBest
    <3> QED BY <3>1 DEF X
  <2>5. ASSUME NEW s \in K, NEW c \in X, c.route = s.route
        PROVE  ~Faster(c, s) /\ (SameSpeed(c, s) /\ c.source \in Curated => s.source \in Curated)
    <3> HIDE DEF X, U, K
    <3>1. PICK t \in U : t.route = c.route /\ ~Better(Labelled(c, DefaultLabel), t)
      BY <2>4
    <3>2. t = s
      BY <2>3, <2>4, <2>5, <3>1 DEF OneServerForEachRoute
    <3> DEFINE l == Labelled(c, DefaultLabel)
    <3>3. /\ l.latency = c.latency /\ l.speed = c.speed
          /\ l.source = IF c.source = NoLabel THEN DefaultLabel ELSE c.source
      BY <2>2, LabelledServer
    <3>4. c.source \in Curated => l.source \in Curated
      BY <3>3, RankingAssumption
    <3>5. (Faster(l, s) <=> Faster(c, s)) /\ (SameSpeed(l, s) <=> SameSpeed(c, s))
      <4> HIDE DEF l
      <4> QED BY <3>3 DEF Faster, SameSpeed, QualityBand, LatencyRank
    <3> HIDE DEF l
    <3> QED BY <3>1, <3>2, <3>4, <3>5 DEF Better, PreferredSource, l
  <2>6. ASSUME NEW j \in DOMAIN catalog', NEW i \in 1..(j - 1)
        PROVE  ~Faster(catalog'[j], catalog'[i])
    <3> HIDE DEF K
    <3>1. /\ catalog' \in [1..Cardinality(K) -> K] /\ IsRanked(catalog')
          /\ Cardinality(K) \in Nat
      BY <2>3, FS_CardinalityType DEF IsSorting, IsPool
    <3>2. i \in DOMAIN catalog' /\ j \in DOMAIN catalog' /\ i < j
      BY <3>1
    <3>3. ~RankedBefore(catalog'[j], catalog'[i])
      BY <3>1, <3>2 DEF IsRanked
    <3>4. Comparable(catalog'[i]) /\ Comparable(catalog'[j])
      BY <2>3, <3>1, <3>2 DEF IsPool
    <3> QED BY <3>3, <3>4, FasterIsAsymmetric DEF RankedBefore, SameSpeed
  <2> QED BY <2>5, <2>6
<1>2. IInv /\ [Next]_vars => [Replaced => Best]_vars
  <2> HIDE DEF Best
  <2> QED BY <1>1
<1> QED BY <1>2, Inductive, PTL DEF Spec, BestOfferIsPublished

\* For any offers from any countries: what is published of them shares the pool.
THEOREM PoolIsShared == Spec => CountriesShareThePool
<1>1. IInv /\ [Next]_vars =>
        [Replaced => SharesThePool(catalog', Unique(batch, DefaultLabel))]_vars
  <2> SUFFICES ASSUME IInv, Next, Replaced
               PROVE  SharesThePool(catalog', Unique(batch, DefaultLabel))
    OBVIOUS
  <2> QED BY ReplacedStep, Listing
<1> QED BY <1>1, Inductive, PTL DEF Spec, CountriesShareThePool

\* What is published is a function of what is offered, for any offers.
THEOREM PublicationHasOneResult == Spec => []PublicationIsDetermined
<1>1. IInv => PublicationIsDetermined
  <2> SUFFICES ASSUME IInv, phase = "replace"
               PROVE  /\ Cardinality(Catalogs(batch, DefaultLabel)) = 1
                      /\ CountriesAgree(ToSet(batch)) =>
                           \A c \in Catalogs(batch, DefaultLabel) :
                             \A d \in Catalogs(Reverse(batch), DefaultLabel) :
                               Len(c) = Len(d) /\ \A i \in DOMAIN c : Similar(c[i], d[i])
    BY DEF PublicationIsDetermined
  <2> DEFINE X == ToSet(batch)
  <2>1. batch \in Seq(X) /\ \A x \in X : IsServer(x) /\ x.latency \in Nat
    BY DEF IInv, TypeOK, IsBatch, IsOffer
  <2>2. Cardinality(Catalogs(batch, DefaultLabel)) = 1
    <3>1. \E listed : Catalogs(batch, DefaultLabel) = {listed}
      <4> HIDE DEF X
      <4> QED BY <2>1, CatalogHasOneResult
    <3> QED BY <3>1, FS_Singleton
  <2>3. Reverse(batch) \in Seq(X) /\ ToSet(Reverse(batch)) = X
    <3> DEFINE n == Len(batch)
    <3>1. n \in Nat /\ DOMAIN batch = 1..n /\ X = {batch[i] : i \in 1..n}
      BY <2>1 DEF ToSet
    <3>2. Reverse(batch) = [i \in 1..n |-> batch[(n - i) + 1]]
      BY DEF Reverse
    <3> HIDE DEF n, X
    <3>3. \A i \in 1..n : (n - i) + 1 \in 1..n /\ (n - ((n - i) + 1)) + 1 = i
      BY <3>1
    <3>4. Reverse(batch) \in [1..n -> X]
      BY <3>1, <3>2, <3>3
    <3>5. ToSet(Reverse(batch)) = {batch[(n - i) + 1] : i \in 1..n}
      BY <3>2 DEF ToSet
    <3>6. ASSUME NEW x \in X PROVE x \in ToSet(Reverse(batch))
      <4>1. PICK i \in 1..n : x = batch[i]
        BY <3>1
      <4>2. batch[i] = batch[(n - ((n - i) + 1)) + 1]
        BY <3>3
      <4> QED BY <4>1, <4>2, <3>3, <3>5
    <3>7. ToSet(Reverse(batch)) \subseteq X
      BY <3>1, <3>3, <3>5
    <3> QED BY <3>1, <3>4, <3>6, <3>7
  <2> QED BY <2>1, <2>2, <2>3, OrderOfOffersDoesNotShow
<1> QED BY <1>1, Inductive, PTL

\* A batch with one offer for each route is published whole, up to the choice by
\* country: each offer is the server kept for its route.
LEMMA OneOfferForEachRoute ==
  ASSUME NEW b, IsBatch(b), OneServerForEachRoute(ToSet(b))
  PROVE  Unique(b, DefaultLabel) = {Labelled(x, DefaultLabel) : x \in ToSet(b)}
<1> DEFINE X == ToSet(b)
           U == Unique(b, DefaultLabel)
<1>1. b \in Seq(X) /\ \A x \in X : IsServer(x)
  BY DEF IsBatch, IsOffer
<1> HIDE DEF X
<1>2. /\ U \subseteq {Labelled(x, DefaultLabel) : x \in ToSet(b)}
      /\ \A x \in ToSet(b) : \E s \in U : s.route = x.route
  BY <1>1, UniqueKeepsTheBest
<1> HIDE DEF U
<1>3. ASSUME NEW x \in X PROVE Labelled(x, DefaultLabel) \in U
  <2>1. PICK s \in U : s.route = x.route
    BY <1>2 DEF X
  <2>2. PICK y \in X : s = Labelled(y, DefaultLabel)
    BY <1>2 DEF X
  <2>3. s.route = y.route
    BY <2>2, <1>1, LabelledServer
  <2>4. x = y
    BY <2>1, <2>3 DEF X, OneServerForEachRoute
  <2> QED BY <2>2, <2>4
<1> QED BY <1>2, <1>3 DEF X, U

\* The model lets a check return its results in one order.  Replace would do the same
\* with any other, because a check returns no route twice.
THEOREM OneOrderIsEnough ==
  ASSUME IInv, Check, NEW results, IsBatch(results), ToSet(results) = ToSet(batch')
  PROVE  Catalogs(results, DefaultLabel) = Catalogs(batch', DefaultLabel)
<1>1. IsBatch(batch') /\ OneServerForEachRoute(ToSet(batch'))
  BY CheckTyped DEF IInv, TypeOK
<1>2. Unique(results, DefaultLabel) = Unique(batch', DefaultLabel)
  BY <1>1, OneOfferForEachRoute
<1> QED BY <1>2 DEF Catalogs

-----------------------------------------------------------------------------
(* The choice that Refresh leaves open.                                    *)

RoutesOf(servers) == {s.route : s \in servers}

\* With one server for each route there are as many routes as servers.
LEMMA RoutesCounted ==
  ASSUME NEW S, IsFiniteSet(S), OneServerForEachRoute(S)
  PROVE  IsFiniteSet(RoutesOf(S)) /\ Cardinality(RoutesOf(S)) = Cardinality(S)
<1> DEFINE f == [s \in S |-> s.route]
<1>1. f \in Bijection(S, RoutesOf(S))
  BY DEF OneServerForEachRoute, RoutesOf, Bijection, Injection, Surjection, IsInjective
<1>2. ExistsBijection(S, RoutesOf(S))
  BY <1>1 DEF ExistsBijection
<1> QED BY <1>2, FS_Bijection

\* Refresh for the same bounds of the pool, on which alone Kept depends.
Worker == INSTANCE Refresh WITH
  Sources <- {}, Preferred <- {}, Routes <- {}, Contents <- <<>>, InitialPools <- {},
  Checkers <- {TRUE}, MaxCandidates <- 0, FetchSlots <- 4, Parallelism <- 6,
  pool <- {}, curated <- {}, checker <- TRUE, cache <- <<>>, phase <- "replace",
  ctxDone <- FALSE, fetch <- <<>>, got <- <<>>, prev <- {}, label <- {}, verdict <- <<>>,
  left <- <<>>, failures <- <<>>, exit <- <<>>, late <- {}, outcome <- "failed"

\* Both count in the same way.
LEMMA SameCounting ==
  /\ \A s : Worker!Cardinality(s) = Cardinality(s)
  /\ \A m, n : Worker!Least(m, n) = Least(m, n)
<1>1. ASSUME NEW s PROVE Worker!Cardinality(s) = Cardinality(s)
  BY DEF Cardinality, Worker!Cardinality
<1>2. ASSUME NEW m, NEW n PROVE Worker!Least(m, n) = Least(m, n)
  BY DEF Least, Worker!Least
<1> QED BY <1>1, <1>2

\* Ranking, duplicates and the choice by country included, a replacement keeps of the
\* routes it is given what Refresh says it may keep.
THEOREM PoolIsAllowed ==
  Spec => [][Replace => RoutesOf(ToSet(catalog')) \in Worker!Kept(RoutesOf(ToSet(batch)))]_vars
<1>1. ASSUME IInv, Replace
      PROVE  RoutesOf(ToSet(catalog')) \in Worker!Kept(RoutesOf(ToSet(batch)))
  <2> DEFINE U == Unique(batch, DefaultLabel)
             X == ToSet(batch)
             K == ToSet(catalog')
  <2>1. IsBatch(batch) /\ catalog' \in Catalogs(batch, DefaultLabel)
    BY <1>1 DEF IInv, TypeOK, Replace
  <2>2. /\ IsSorting(catalog', K) /\ K \subseteq U
        /\ SharesThePool(catalog', U)
    BY <2>1, Listing
  <2>3. batch \in Seq(X) /\ \A x \in X : IsServer(x)
    BY <2>1 DEF IsBatch, IsOffer
  <2> HIDE DEF X
  <2>4. /\ U \subseteq {Labelled(x, DefaultLabel) : x \in ToSet(batch)}
        /\ IsFiniteSet(U) /\ OneServerForEachRoute(U)
        /\ \A x \in ToSet(batch) : \E s \in U : s.route = x.route
    BY <2>3, UniqueKeepsTheBest
  <2> HIDE DEF U
  <2>5. RoutesOf(U) = RoutesOf(ToSet(batch))
    <3>1. \A x \in ToSet(batch) : Labelled(x, DefaultLabel).route = x.route
      BY <2>3, LabelledServer DEF X
    <3> QED BY <3>1, <2>4 DEF RoutesOf
  <2>6. Cardinality(RoutesOf(U)) = Cardinality(U)
    BY <2>4, RoutesCounted
  <2>7. Cardinality(RoutesOf(K)) = Len(catalog')
    <3>1. Len(catalog') = Cardinality(K) /\ IsFiniteSet(K)
      <4>1. IsFiniteSet(K)
        BY <2>2, <2>4, FS_Subset
      <4>2. Cardinality(K) \in Nat
        BY <4>1, FS_CardinalityType
      <4>3. catalog' \in [1..Cardinality(K) -> K]
        BY <2>2 DEF IsSorting
      <4> HIDE DEF K
      <4> QED BY <4>1, <4>2, <4>3
    <3>2. OneServerForEachRoute(K)
      BY <2>2, <2>4 DEF OneServerForEachRoute
    <3> QED BY <3>1, <3>2, RoutesCounted
  <2>8. RoutesOf(K) \subseteq RoutesOf(ToSet(batch))
    BY <2>2, <2>5 DEF RoutesOf
  <2>9. Len(catalog') <= PoolCap
        /\ Len(catalog') >= Least(PoolCap, Least(UsefulFloor, Cardinality(U)))
    BY <2>2 DEF SharesThePool
  <2> DEFINE R == RoutesOf(ToSet(batch))
  <2> HIDE DEF K, R
  <2>10. Cardinality(RoutesOf(K)) <= PoolCap
         /\ Cardinality(RoutesOf(K)) >= Least(PoolCap, Least(UsefulFloor, Cardinality(R)))
    BY <2>5, <2>6, <2>7, <2>9 DEF R
  <2>11. RoutesOf(K) \in Worker!Kept(R)
    BY <2>8, <2>10, SameCounting DEF Worker!Kept, R
  <2> QED BY <2>11 DEF K, R
<1>2. IInv /\ [Next]_vars
        => [Replace => RoutesOf(ToSet(catalog')) \in Worker!Kept(RoutesOf(ToSet(batch)))]_vars
  BY <1>1
<1> QED BY <1>2, Inductive, PTL DEF Spec
=============================================================================
