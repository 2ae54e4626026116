--------------------------- MODULE RankingProofs ---------------------------
(***************************************************************************)
(* What Replace lists of any offers, measured in any way: the order of     *)
(* servers has one sorted result; of the offers of a route the best is     *)
(* kept; the pool is shared by the countries; and the catalog is a         *)
(* function of what is offered.                                            *)
(*                                                                         *)
(* The loops of the model are folds.  FoldExists gives a fold the function *)
(* that its definition chooses; Induction, which stands for an induction   *)
(* over its steps, is the minimality of a first step that goes wrong.      *)
(***************************************************************************)
EXTENDS Ranking, FiniteSetTheorems, SequenceTheorems, WellFoundedInduction, TLAPS

(* The order of servers.                                                   *)

\* Faster compares three numbers.
LEMMA FasterByNumbers ==
  ASSUME NEW a, NEW b, Comparable(a), Comparable(b)
  PROVE  /\ QualityBand(a) \in 0..2 /\ LatencyRank(a) \in Int
         /\ QualityBand(b) \in 0..2 /\ LatencyRank(b) \in Int
  BY DEF Comparable, QualityBand, LatencyRank, MaxInt, HighLatency, LowSpeed

\* Faster is a strict order, and SameSpeed an equivalence.
LEMMA FasterIsAsymmetric ==
  ASSUME NEW a, NEW b, Comparable(a), Comparable(b), Faster(a, b)
  PROVE  ~Faster(b, a)
  BY FasterByNumbers DEF Comparable, Faster

\* The same: a chain of faster servers.
LEMMA FasterIsTransitive ==
  ASSUME NEW a, NEW b, NEW c, Comparable(a), Comparable(b), Comparable(c),
         Faster(a, b), Faster(b, c)
  PROVE  Faster(a, c)
  BY FasterByNumbers DEF Comparable, Faster

\* The same: servers as fast as a third.
LEMMA SameSpeedIsTransitive ==
  ASSUME NEW a, NEW b, NEW c, Comparable(a), Comparable(b), Comparable(c),
         SameSpeed(a, b), SameSpeed(b, c)
  PROVE  SameSpeed(a, c)
  BY FasterByNumbers DEF Comparable, Faster, SameSpeed

\* Speed, and the ID among equally fast servers, is a strict order of servers and
\* total over routes: sort.Slice is given a comparison it can work with.
THEOREM RankingIsStrictOrder ==
  ASSUME NEW a, NEW b, NEW c, Comparable(a), Comparable(b), Comparable(c)
  PROVE  /\ RankedBefore(a, b) => ~RankedBefore(b, a)
         /\ RankedBefore(a, b) /\ RankedBefore(b, c) => RankedBefore(a, c)
         /\ a.route # b.route => RankedBefore(a, b) \/ RankedBefore(b, a)
<1>1. RankedBefore(a, b) => ~RankedBefore(b, a)
  BY FasterIsAsymmetric DEF RankedBefore, SameSpeed, Comparable
<1>2. ASSUME RankedBefore(a, b), RankedBefore(b, c) PROVE RankedBefore(a, c)
  BY <1>2, FasterByNumbers DEF RankedBefore, SameSpeed, Faster, Comparable
<1>3. a.route # b.route => RankedBefore(a, b) \/ RankedBefore(b, a)
  BY FasterIsAsymmetric DEF RankedBefore, SameSpeed, Comparable
<1> QED BY <1>1, <1>2, <1>3

\* The offers of a route are compared by a strict order too, so the one Replace
\* keeps is not worse than any other of its route.
THEOREM BetterIsStrictOrder ==
  ASSUME NEW a, NEW b, NEW c, Comparable(a), Comparable(b), Comparable(c)
  PROVE  /\ Better(a, b) => ~Better(b, a)
         /\ Better(a, b) /\ Better(b, c) => Better(a, c)
         /\ ~Better(a, b) /\ ~Better(b, c) => ~Better(a, c)
<1>1. Better(a, b) => ~Better(b, a)
  BY FasterIsAsymmetric DEF Better, SameSpeed, PreferredSource
<1>2. ASSUME Better(a, b), Better(b, c) PROVE Better(a, c)
  BY <1>2, FasterByNumbers DEF Better, SameSpeed, PreferredSource, Faster, Comparable
<1>3. ASSUME ~Better(a, b), ~Better(b, c) PROVE ~Better(a, c)
  BY <1>3, FasterByNumbers DEF Better, SameSpeed, PreferredSource, Faster, Comparable
<1> QED BY <1>1, <1>2, <1>3

-----------------------------------------------------------------------------
\* At the first place where two ranked sequences of the same servers differ, each
\* server comes later in the other one, so neither is ranked before the other.
LEMMA LaterInTheOther ==
  ASSUME NEW S, NEW n \in Nat, NEW s \in [1..n -> S], NEW t \in [1..n -> S],
         IsInjective(s), \A x \in S : \E k \in 1..n : t[k] = x,
         IsRanked(t), NEW i \in 1..n, s[i] # t[i], \A j \in 1..(i - 1) : s[j] = t[j]
  PROVE  ~RankedBefore(s[i], t[i])
<1>1. PICK k \in 1..n : t[k] = s[i]
  OBVIOUS
<1>2. k # i
  BY <1>1
<1>3. ~(k < i)
  <2> SUFFICES ASSUME k < i PROVE FALSE
    OBVIOUS
  <2>1. s[k] = s[i]
    BY <1>1
  <2> QED BY <2>1, <1>2 DEF IsInjective
<1>4. i < k
  BY <1>2, <1>3
<1>5. DOMAIN t = 1..n
  OBVIOUS
<1> QED BY <1>1, <1>4, <1>5 DEF IsRanked

\* Whatever sort.Slice does with a map in random order, its result is the same: two
\* ranked sequences of the same servers, one for each route, are equal.
THEOREM SortIsDetermined ==
  ASSUME NEW S, \A x \in S : Comparable(x), \A x, y \in S : x.route = y.route => x = y,
         NEW n \in Nat, NEW s \in [1..n -> S], NEW t \in [1..n -> S],
         IsInjective(s), \A x \in S : \E k \in 1..n : s[k] = x, IsRanked(s),
         IsInjective(t), \A x \in S : \E k \in 1..n : t[k] = x, IsRanked(t)
  PROVE  s = t
<1> SUFFICES ASSUME s # t PROVE FALSE
  OBVIOUS
<1> DEFINE Differ == {i \in 1..n : s[i] # t[i]}
<1>1. PICK i \in Differ : \A j \in Differ : <<j, i>> \notin OpToRel(<, Nat)
  <2>1. PICK k \in 1..n : s[k] # t[k]
    OBVIOUS
  <2>2. Differ \subseteq Nat
    <3>1. Differ \subseteq 1..n
      OBVIOUS
    <3> HIDE DEF Differ
    <3> QED BY <3>1
  <2>3. Differ # {}
    <3>1. k \in Differ
      BY <2>1
    <3> HIDE DEF Differ
    <3> QED BY <3>1
  <2> HIDE DEF Differ
  <2> QED BY <2>2, <2>3, NatLessThanWellFounded, WFMin
<1>2. i \in 1..n /\ s[i] # t[i] /\ \A j \in 1..(i - 1) : s[j] = t[j]
  <2>1. i \in Nat /\ i \in 1..n /\ s[i] # t[i] /\ Differ \subseteq 1..n
    OBVIOUS
  <2>2. \A j \in Differ : ~(j < i)
    <3>1. Differ \subseteq Nat
      BY <2>1
    <3> HIDE DEF Differ
    <3> QED BY <1>1, <2>1, <3>1, Zenon DEF OpToRel
  <2> QED BY <2>1, <2>2
<1>3. ~RankedBefore(s[i], t[i]) /\ ~RankedBefore(t[i], s[i])
  BY <1>2, LaterInTheOther
<1>4. s[i].route # t[i].route /\ Comparable(s[i]) /\ Comparable(t[i])
  BY <1>2
<1> QED BY <1>3, <1>4, RankingIsStrictOrder

-----------------------------------------------------------------------------
(* Induction, the bounds of sets of positions, and folds.                  *)

\* Induction up to n, over the set of numbers that have the property.
LEMMA Induction ==
  ASSUME NEW n \in Nat, NEW Good, 0 \in Good, \A k \in 1..n : k - 1 \in Good => k \in Good
  PROVE  0..n \subseteq Good
<1> DEFINE Bad == (0..n) \ Good
<1> SUFFICES ASSUME Bad # {} PROVE FALSE
  OBVIOUS
<1>1. Bad \subseteq Nat
  OBVIOUS
<1>2. PICK k \in Bad : \A j \in Bad : <<j, k>> \notin OpToRel(<, Nat)
  <2> HIDE DEF Bad
  <2> QED BY <1>1, NatLessThanWellFounded, WFMin
<1>3. k \in 1..n /\ k - 1 \in 0..n
  OBVIOUS
<1>4. k - 1 \in Bad
  BY <1>3
<1>5. k - 1 < k /\ k - 1 \in Nat /\ k \in Nat
  BY <1>3
<1> HIDE DEF Bad
<1> QED BY <1>2, <1>4, <1>5, Zenon DEF OpToRel

\* The largest of the first m positions.
LEMMA MaxOfInterval ==
  ASSUME NEW m \in Nat \ {0}, NEW s \in SUBSET (1..m), m \in s
  PROVE  Max(s) = m
<1> DEFINE IsMax(x) == x \in s /\ \A y \in s : x >= y
<1>1. IsMax(m)
  OBVIOUS
<1>2. \A x : IsMax(x) => x = m
  OBVIOUS
<1>3. Max(s) = CHOOSE x : IsMax(x)
  BY DEF Max
<1> HIDE DEF IsMax
<1> QED BY <1>1, <1>2, <1>3

\* A set of positions has a last one.
LEMMA MaxIsMember ==
  ASSUME NEW n \in Nat, NEW s \in SUBSET (1..n), s # {}
  PROVE  Max(s) \in s /\ \A y \in s : Max(s) >= y
<1> DEFINE HasMax(t) == \E x \in t : \A y \in t : x >= y
           Good == {m \in 0..n : \A t \in SUBSET (1..m) : t # {} => HasMax(t)}
<1>1. 0 \in Good
  <2>1. 1..0 = {}
    OBVIOUS
  <2> SUFFICES ASSUME NEW t \in SUBSET (1..0), t # {} PROVE HasMax(t)
    OBVIOUS
  <2> QED BY <2>1
<1>2. ASSUME NEW m \in 1..n, m - 1 \in Good PROVE m \in Good
  <2> SUFFICES ASSUME NEW t \in SUBSET (1..m), t # {} PROVE HasMax(t)
    OBVIOUS
  <2>1. CASE m \in t
    BY <2>1
  <2>2. CASE m \notin t
    <3>1. t \in SUBSET (1..(m - 1))
      BY <2>2
    <3> HIDE DEF HasMax
    <3> QED BY <3>1, <1>2
  <2> QED BY <2>1, <2>2
<1>3. 0..n \subseteq Good
  <2> HIDE DEF Good
  <2> QED BY <1>1, <1>2, Induction
<1>4. HasMax(s)
  <2> HIDE DEF HasMax
  <2> QED BY <1>3
<1> QED BY <1>4 DEF Max

\* A set of positions has a first one.
LEMMA MinIsMember ==
  ASSUME NEW n \in Nat, NEW s \in SUBSET (1..n), s # {}
  PROVE  Min(s) \in s /\ \A y \in s : Min(s) <= y
<1>1. s \subseteq Nat
  OBVIOUS
<1>2. PICK x \in s : \A y \in s : <<y, x>> \notin OpToRel(<, Nat)
  BY <1>1, NatLessThanWellFounded, WFMin
<1>3. \A y \in s : ~(y < x)
  BY <1>1, <1>2, Zenon DEF OpToRel
<1>4. \A y \in s : x <= y
  BY <1>1, <1>3
<1> QED BY <1>4 DEF Min

\* One step of a loop over the positions 1..n whose states are in S, and the fold of
\* these steps from a base: its value at 1..k is the state after k positions.
IsStep(step, S, n) == step \in [S \X (1..n) -> S]

IsFold(it, S, base, step, n) ==
  /\ it \in [SUBSET (1..n) -> S]
  /\ it[{}] = base
  /\ \A s \in SUBSET (1..n) : s # {} => it[s] = step[<<it[s \ {Max(s)}], Max(s)>>]

\* The fold of any step exists.
LEMMA FoldExists ==
  ASSUME NEW n \in Nat, NEW S, NEW base \in S, NEW step, IsStep(step, S, n)
  PROVE  \E it : IsFold(it, S, base, step, n)
<1> DEFINE Fold(it, m) == /\ it[{}] = base
                          /\ \A s \in SUBSET (1..m) :
                               s # {} => it[s] = step[<<it[s \ {Max(s)}], Max(s)>>]
           Good == {m \in 0..n : \E it \in [SUBSET (1..m) -> S] : Fold(it, m)}
<1>0. step \in [S \X (1..n) -> S]
  BY DEF IsStep
<1>1. 0 \in Good
  <2>1. 1..0 = {}
    OBVIOUS
  <2>2. [s \in SUBSET (1..0) |-> base] \in [SUBSET (1..0) -> S]
    OBVIOUS
  <2>3. Fold([s \in SUBSET (1..0) |-> base], 0)
    BY <2>1
  <2> HIDE DEF Fold
  <2> QED BY <2>2, <2>3
<1>2. ASSUME NEW m \in 1..n, m - 1 \in Good PROVE m \in Good
  <2>1. PICK it \in [SUBSET (1..(m - 1)) -> S] : Fold(it, m - 1)
    BY <1>2
  <2> DEFINE next == [s \in SUBSET (1..m) |->
                        IF m \in s THEN step[<<it[s \ {m}], m>>] ELSE it[s]]
  <2>2. ASSUME NEW s \in SUBSET (1..m)
        PROVE  /\ s \ {m} \in SUBSET (1..(m - 1))
               /\ m \notin s => s \in SUBSET (1..(m - 1))
    OBVIOUS
  <2>3. next \in [SUBSET (1..m) -> S]
    <3> SUFFICES ASSUME NEW s \in SUBSET (1..m)
                 PROVE (IF m \in s THEN step[<<it[s \ {m}], m>>] ELSE it[s]) \in S
      OBVIOUS
    <3>1. CASE m \in s
      <4>1. it[s \ {m}] \in S
        BY <2>2
      <4> QED BY <4>1, <3>1, <1>0
    <3>2. CASE m \notin s
      BY <2>2, <3>2
    <3> QED BY <3>1, <3>2
  <2>4. Fold(next, m)
    <3> SUFFICES ASSUME NEW s \in SUBSET (1..m), s # {}
                 PROVE  next[s] = step[<<next[s \ {Max(s)}], Max(s)>>]
      <4>1. next[{}] = base
        BY <2>1
      <4> QED BY <4>1
    <3>1. CASE m \in s
      <4>1. Max(s) = m
        BY <3>1, MaxOfInterval
      <4>2. next[s \ {m}] = it[s \ {m}]
        OBVIOUS
      <4> QED BY <4>1, <4>2, <3>1
    <3>2. CASE m \notin s
      <4>1. s \in SUBSET (1..(m - 1))
        BY <2>2, <3>2
      <4>2. it[s] = step[<<it[s \ {Max(s)}], Max(s)>>]
        BY <4>1, <2>1
      <4>3. next[s \ {Max(s)}] = it[s \ {Max(s)}]
        BY <3>2
      <4> QED BY <4>2, <4>3, <3>2
    <3> QED BY <3>1, <3>2
  <2> HIDE DEF next, Fold
  <2> QED BY <2>3, <2>4
<1>3. 0..n \subseteq Good
  <2> HIDE DEF Good
  <2> QED BY <1>1, <1>2, Induction
<1>4. n \in Good
  <2> HIDE DEF Good
  <2> QED BY <1>3
<1>5. \E it \in [SUBSET (1..n) -> S] : Fold(it, n)
  <2> HIDE DEF Fold
  <2> QED BY <1>4
<1> QED BY <1>5 DEF IsFold

-----------------------------------------------------------------------------
(* One server for each route.                                              *)

\* The loop over the candidates, after each of them.
LEMMA UniqueLoop ==
  ASSUME NEW X, NEW c \in Seq(X), NEW default
  PROVE  \E kept : /\ kept[0] = {}
                   /\ \A k \in 1..Len(c) :
                        kept[k] = Keep(kept[k - 1], Labelled(c[k], default))
                   /\ Unique(c, default) = kept[Len(c)]
<1> DEFINE n == Len(c)
           o == [i \in DOMAIN c |-> Labelled(c[i], default)]
           S == SUBSET {o[i] : i \in 1..n}
           step == [p \in S \X (1..n) |-> Keep(p[1], o[p[2]])]
           Fold(it) == it = [s \in SUBSET DOMAIN o |->
                               IF s = {} THEN {} ELSE Keep(it[s \ {Max(s)}], o[Max(s)])]
<1>1. n \in Nat /\ DOMAIN o = 1..n /\ {} \in S
  OBVIOUS
<1>2. IsStep(step, S, n)
  BY DEF Keep, IsStep
<1>3. PICK it : IsFold(it, S, {}, step, n)
  <2> HIDE DEF n, S, step
  <2> QED BY <1>1, <1>2, FoldExists
<1>4. ASSUME NEW s \in SUBSET (1..n)
      PROVE  it[s] = IF s = {} THEN {} ELSE Keep(it[s \ {Max(s)}], o[Max(s)])
  <2>1. CASE s = {}
    BY <2>1, <1>3 DEF IsFold
  <2>2. CASE s # {}
    <3>1. Max(s) \in 1..n /\ it[s \ {Max(s)}] \in S
      BY <2>2, <1>1, <1>3, MaxIsMember DEF IsFold
    <3> QED BY <3>1, <2>2, <1>3 DEF IsFold
  <2> QED BY <2>1, <2>2
<1>5. Fold(it)
  <2> HIDE DEF S, step, o
  <2> QED BY <1>1, <1>3, <1>4 DEF IsFold
<1>6. Unique(c, default) = (CHOOSE it2 : Fold(it2))[DOMAIN o]
  BY DEF Unique, FoldLeft, MapThenFoldSet
<1>7. PICK f : Fold(f) /\ Unique(c, default) = f[1..n]
  <2> HIDE DEF Fold, o, n
  <2> QED BY <1>1, <1>5, <1>6
<1> DEFINE kept == [k \in 0..n |-> f[1..k]]
<1>8. kept[0] = {}
  BY <1>1, <1>7
<1>9. ASSUME NEW k \in 1..n
      PROVE  kept[k] = Keep(kept[k - 1], Labelled(c[k], default))
  <2>1. Max(1..k) = k
    BY <1>1, MaxOfInterval
  <2>2. (1..k) \ {k} = 1..(k - 1) /\ 1..k \in SUBSET (1..n) /\ k \in 1..k
    <3> HIDE DEF n
    <3> QED BY <1>1
  <2>3. f[1..k] = Keep(f[1..(k - 1)], o[k])
    <3> HIDE DEF o
    <3> QED BY <1>7, <2>1, <2>2, <1>1
  <2> QED BY <2>3, <1>1
<1>10. Unique(c, default) = kept[n]
  BY <1>1, <1>7
<1> QED BY <1>8, <1>9, <1>10

\* A label is all that Labelled changes.
LEMMA LabelledServer ==
  ASSUME NEW s, IsServer(s), NEW default, NEW t, t = Labelled(s, default)
  PROVE  /\ IsServer(t) /\ Comparable(t)
         /\ t.route = s.route /\ t.latency = s.latency /\ t.speed = s.speed
         /\ t.country = s.country
         /\ t.source = IF s.source = NoLabel THEN default ELSE s.source
<1>1. CASE s.source = NoLabel
  <2>1. t = [s EXCEPT !.source = default]
    BY <1>1 DEF Labelled
  <2>2. t = [route |-> s.route, source |-> default, country |-> s.country,
             latency |-> s.latency, speed |-> s.speed]
    BY <2>1 DEF IsServer
  <2> QED BY <1>1, <2>2 DEF IsServer, Comparable
<1>2. CASE s.source # NoLabel
  BY <1>2 DEF IsServer, Labelled
<1> QED BY <1>1, <1>2

\* A sequence has finitely many elements.
LEMMA ImageIsFinite ==
  ASSUME NEW n \in Nat, NEW f
  PROVE  IsFiniteSet({f[i] : i \in 1..n})
<1> DEFINE g == [i \in 1..n |-> f[i]]
           T == {f[i] : i \in 1..n}
<1>1. g \in Surjection(1..n, T)
  BY DEF Surjection
<1>2. IsFiniteSet(1..n)
  BY FS_Interval
<1> HIDE DEF g, T
<1> QED BY <1>1, <1>2, FS_Surjection DEF T

\* After the first loop of Replace every route offered has one server, that of one of
\* its offers, and no offer of the route is better.
THEOREM UniqueKeepsTheBest ==
  ASSUME NEW X, \A x \in X : IsServer(x), NEW c \in Seq(X), NEW default
  PROVE  /\ Unique(c, default) \subseteq {Labelled(x, default) : x \in ToSet(c)}
         /\ IsFiniteSet(Unique(c, default))
         /\ OneServerForEachRoute(Unique(c, default))
         /\ \A x \in ToSet(c) : \E s \in Unique(c, default) :
              s.route = x.route /\ ~Better(Labelled(x, default), s)
<1> DEFINE n == Len(c)
           o == [i \in 1..n |-> Labelled(c[i], default)]
<1>1. PICK kept : /\ kept[0] = {}
                  /\ \A k \in 1..n : kept[k] = Keep(kept[k - 1], o[k])
                  /\ Unique(c, default) = kept[n]
  BY UniqueLoop
<1>2. n \in Nat /\ ToSet(c) = {c[i] : i \in 1..n}
  BY DEF ToSet
<1>3. ASSUME NEW i \in 1..n
      PROVE  Comparable(o[i]) /\ o[i].route = c[i].route
  BY LabelledServer
<1> DEFINE Holds(k) == /\ kept[k] \subseteq {o[i] : i \in 1..k}
                       /\ OneServerForEachRoute(kept[k])
                       /\ \A i \in 1..k : \E s \in kept[k] :
                            s.route = o[i].route /\ ~Better(o[i], s)
           Good == {k \in 0..n : Holds(k)}
<1>4. 0 \in Good
  <2>1. 1..0 = {}
    OBVIOUS
  <2> QED BY <2>1, <1>1, <1>2 DEF OneServerForEachRoute
<1>5. ASSUME NEW k \in 1..n, k - 1 \in Good PROVE k \in Good
  <2>1. Holds(k - 1)
    BY <1>5
  <2>2. kept[k] = Keep(kept[k - 1], o[k])
    BY <1>1
  <2> SUFFICES Holds(k)
    <3>1. k \in 0..n
      BY <1>2
    <3> HIDE DEF Holds, n
    <3> QED BY <3>1
  <2>3. 1..k = 1..(k - 1) \cup {k} /\ 1..(k - 1) \subseteq 1..n
    BY <1>2
  <2>4. \A s \in kept[k - 1] : Comparable(s)
    BY <2>1, <2>3, <1>3
  <2> HIDE DEF o, n
  <2>5. ~Better(o[k], o[k])
    BY <1>3, BetterIsStrictOrder
  <2>6. CASE \E s \in kept[k - 1] : s.route = o[k].route /\ ~Better(o[k], s)
    <3>1. kept[k] = kept[k - 1]
      BY <2>2, <2>6 DEF Keep
    <3>2. kept[k] \subseteq {o[i] : i \in 1..k} /\ OneServerForEachRoute(kept[k])
      BY <2>1, <2>3, <3>1
    <3>3. \A i \in 1..(k - 1) : \E s \in kept[k] : s.route = o[i].route /\ ~Better(o[i], s)
      BY <2>1, <3>1
    <3> QED BY <3>1, <3>2, <3>3, <2>3, <2>6
  <2>7. CASE ~\E s \in kept[k - 1] : s.route = o[k].route /\ ~Better(o[k], s)
    <3>1. kept[k] = {s \in kept[k - 1] : s.route # o[k].route} \cup {o[k]}
      BY <2>2, <2>7 DEF Keep
    <3>2. kept[k] \subseteq {o[i] : i \in 1..k} /\ OneServerForEachRoute(kept[k])
      BY <2>1, <2>3, <3>1 DEF OneServerForEachRoute
    <3>3. ASSUME NEW i \in 1..(k - 1)
          PROVE  \E s \in kept[k] : s.route = o[i].route /\ ~Better(o[i], s)
      <4>1. PICK s \in kept[k - 1] : s.route = o[i].route /\ ~Better(o[i], s)
        BY <2>1
      <4>2. CASE s.route # o[k].route
        BY <4>1, <4>2, <3>1
      <4>3. CASE s.route = o[k].route
        <5>1. Better(o[k], s)
          BY <4>3, <2>7
        <5>2. Comparable(o[i]) /\ Comparable(o[k]) /\ Comparable(s)
          BY <2>3, <2>4, <1>3
        <5>3. ~Better(o[i], o[k])
          BY <5>1, <5>2, <4>1, BetterIsStrictOrder
        <5> QED BY <5>3, <4>1, <4>3, <3>1
      <4> QED BY <4>2, <4>3
    <3> QED BY <3>1, <3>2, <3>3, <2>3, <2>5
  <2> QED BY <2>6, <2>7
<1>6. Holds(n)
  <2>1. 0..n \subseteq Good
    <3> HIDE DEF Good, n
    <3> QED BY <1>2, <1>4, <1>5, Induction
  <2> HIDE DEF Holds, n
  <2> QED BY <2>1, <1>2
<1>7. IsFiniteSet({o[i] : i \in 1..n})
  <2>1. DOMAIN o = 1..n
    OBVIOUS
  <2> HIDE DEF o, n
  <2> QED BY <2>1, <1>2, ImageIsFinite
<1>8. {o[i] : i \in 1..n} = {Labelled(x, default) : x \in ToSet(c)}
  BY <1>2
<1>9. ASSUME NEW x \in ToSet(c)
      PROVE  \E s \in Unique(c, default) : s.route = x.route /\ ~Better(Labelled(x, default), s)
  <2>1. PICK i \in 1..n : x = c[i]
    BY <1>2
  <2>2. o[i] = Labelled(x, default) /\ o[i].route = x.route
    BY <2>1, <1>3
  <2> QED BY <2>2, <1>1, <1>6
<1>10. IsFiniteSet(kept[n])
  <2> HIDE DEF o, n
  <2> QED BY <1>6, <1>7, FS_Subset
<1> QED BY <1>1, <1>6, <1>8, <1>9, <1>10

-----------------------------------------------------------------------------
(* Sorting.                                                                *)

\* A finite set of servers, one for each route.
IsPool(S) == /\ IsFiniteSet(S)
             /\ \A x \in S : Comparable(x)
             /\ OneServerForEachRoute(S)

\* Some server of a finite set has none ranked before it.
LEMMA SomeServerIsFirst ==
  ASSUME NEW S, IsPool(S), S # {}
  PROVE  Firsts(S) # {}
<1> DEFINE n == Cardinality(S)
           Good == {m \in 0..n : \A T \in SUBSET S :
                      Cardinality(T) = m /\ T # {} => Firsts(T) # {}}
<1>1. n \in Nat /\ IsFiniteSet(S)
  BY FS_CardinalityType DEF IsPool
<1>2. \A T \in SUBSET S : IsFiniteSet(T)
  BY <1>1, FS_Subset
<1>3. 0 \in Good
  <2> SUFFICES ASSUME NEW T \in SUBSET S, Cardinality(T) = 0 PROVE T = {}
    BY <1>1
  <2> QED BY <1>2, FS_EmptySet
<1>4. ASSUME NEW m \in 1..n, m - 1 \in Good PROVE m \in Good
  <2> SUFFICES ASSUME NEW T \in SUBSET S, Cardinality(T) = m, NEW x \in T
               PROVE  Firsts(T) # {}
    BY <1>1
  <2> HIDE DEF n
  <2>1. \A y \in T : Comparable(y)
    BY DEF IsPool
  <2>2. ~RankedBefore(x, x)
    BY <2>1, RankingIsStrictOrder
  <2>3. Cardinality(T \ {x}) = m - 1 /\ T \ {x} \in SUBSET S
    BY <1>2, FS_RemoveElement
  <2>4. CASE T \ {x} = {}
    <3>1. x \in Firsts(T)
      BY <2>2, <2>4 DEF Firsts
    <3> QED BY <3>1
  <2>5. CASE T \ {x} # {}
    <3>1. PICK y : y \in Firsts(T \ {x})
      BY <2>3, <2>5, <1>4
    <3>2. y \in T /\ \A z \in T : z # x => ~RankedBefore(z, y)
      BY <3>1 DEF Firsts
    <3>3. CASE RankedBefore(x, y)
      <4>1. ASSUME NEW z \in T PROVE ~RankedBefore(z, x)
        BY <2>1, <2>2, <3>2, <3>3, RankingIsStrictOrder
      <4>2. x \in Firsts(T)
        BY <4>1 DEF Firsts
      <4> QED BY <4>2
    <3>4. CASE ~RankedBefore(x, y)
      <4>1. y \in Firsts(T)
        BY <3>2, <3>4 DEF Firsts
      <4> QED BY <4>1
    <3> QED BY <3>3, <3>4
  <2> QED BY <2>4, <2>5
<1>5. n \in Good
  <2>1. 0..n \subseteq Good
    <3> HIDE DEF Good, n
    <3> QED BY <1>1, <1>3, <1>4, Induction
  <2> HIDE DEF Good, n
  <2> QED BY <2>1, <1>1
<1> QED BY <1>5

\* The sequences built so far, after each server.
LEMMA ArrangementsLoop ==
  ASSUME NEW S, IsFiniteSet(S)
  PROVE  \E begun : /\ begun[0] = {<<>>}
                    /\ \A k \in 1..Cardinality(S) : begun[k] = Continued(begun[k - 1], S)
                    /\ Arrangements(S) = begun[Cardinality(S)]
<1> DEFINE n == Cardinality(S)
           o == [k \in 1..n |-> k]
           B == SUBSET Seq(S)
           step == [p \in B \X (1..n) |-> Continued(p[1], S)]
           Fold(it) == it = [s \in SUBSET DOMAIN o |->
                               IF s = {} THEN {<<>>} ELSE Continued(it[s \ {Max(s)}], S)]
<1>1. n \in Nat /\ DOMAIN o = 1..n /\ {<<>>} \in B
  BY FS_CardinalityType
<1>2. IsStep(step, B, n)
  <2>1. ASSUME NEW b \in B PROVE Continued(b, S) \in B
    BY DEF Continued, Firsts
  <2> HIDE DEF B, n
  <2> QED BY <2>1 DEF IsStep
<1>3. PICK it : IsFold(it, B, {<<>>}, step, n)
  <2> HIDE DEF n, B, step
  <2> QED BY <1>1, <1>2, FoldExists
<1>4. ASSUME NEW s \in SUBSET (1..n), s # {}
      PROVE  it[s] = Continued(it[s \ {Max(s)}], S)
  <2>1. Max(s) \in 1..n /\ it[s \ {Max(s)}] \in B
    <3> HIDE DEF B, n
    <3> QED BY <1>1, <1>3, <1>4, MaxIsMember DEF IsFold
  <2> HIDE DEF B, n
  <2> QED BY <2>1, <1>3, <1>4 DEF IsFold
<1>5. Fold(it)
  <2> HIDE DEF B, step, o, n
  <2> QED BY <1>1, <1>3, <1>4 DEF IsFold
<1>6. Arrangements(S) = (CHOOSE it2 : Fold(it2))[DOMAIN o]
  BY DEF Arrangements, FoldLeft, MapThenFoldSet
<1>7. PICK f : Fold(f) /\ Arrangements(S) = f[1..n]
  <2> HIDE DEF Fold, o, n
  <2> QED BY <1>1, <1>5, <1>6
<1> DEFINE begun == [k \in 0..n |-> f[1..k]]
<1>8. begun[0] = {<<>>}
  BY <1>1, <1>7
<1>9. ASSUME NEW k \in 1..n PROVE begun[k] = Continued(begun[k - 1], S)
  <2>1. Max(1..k) = k
    BY <1>1, MaxOfInterval
  <2>2. (1..k) \ {k} = 1..(k - 1) /\ 1..k \in SUBSET (1..n) /\ k \in 1..k
    <3> HIDE DEF n
    <3> QED BY <1>1
  <2>3. f[1..k] = Continued(f[1..(k - 1)], S)
    <3> HIDE DEF o
    <3> QED BY <1>7, <2>1, <2>2, <1>1
  <2> HIDE DEF n
  <2> QED BY <2>3, <1>1
<1>10. Arrangements(S) = begun[n]
  <2>1. n \in 0..n
    BY <1>1
  <2> HIDE DEF n, Fold
  <2> QED BY <1>7, <2>1
<1> QED BY <1>8, <1>9, <1>10

\* A ranked sequence of all servers of S, each once.
IsSorting(s, S) ==
  /\ s \in [1..Cardinality(S) -> S]
  /\ IsInjective(s) /\ IsRanked(s)
  /\ \A x \in S : \E k \in 1..Cardinality(S) : s[k] = x

\* A sequence of k servers of S that can be continued to one.
Begins(s, S, k) ==
  /\ s \in [1..k -> S]
  /\ IsInjective(s) /\ IsRanked(s)
  /\ \A x \in S \ ToSet(s) : \A i \in 1..k : ~RankedBefore(x, s[i])
  /\ Cardinality(S \ ToSet(s)) = Cardinality(S) - k

\* The next server may be any of those that none of the rest is ranked before.
LEMMA ContinuedBegins ==
  ASSUME NEW S, IsPool(S), NEW k \in 1..Cardinality(S), NEW s, Begins(s, S, k - 1),
         NEW x \in Firsts(S \ ToSet(s))
  PROVE  Begins(Append(s, x), S, k)
<1> DEFINE t == Append(s, x)
<1>1. Cardinality(S) \in Nat /\ k \in Nat /\ k >= 1
  BY FS_CardinalityType DEF IsPool
<1>2. x \in S /\ x \notin ToSet(s) /\ \A y \in S \ ToSet(s) : ~RankedBefore(y, x)
  BY DEF Firsts
<1>3. s \in Seq(S) /\ Len(s) = k - 1
  BY <1>1 DEF Begins
<1>4. t \in [1..k -> S] /\ t[k] = x /\ \A i \in 1..(k - 1) : t[i] = s[i]
  <2>1. /\ t \in Seq(S) /\ Len(t) = k /\ t[k] = x
        /\ \A i \in 1..Len(s) : t[i] = s[i]
    BY <1>1, <1>2, <1>3, AppendProperties
  <2> HIDE DEF t
  <2> QED BY <2>1, <1>1, <1>3
<1>5. ToSet(s) = {s[i] : i \in 1..(k - 1)}
  BY <1>1, <1>3 DEF ToSet
<1>6. 1..k = 1..(k - 1) \cup {k} /\ k \notin 1..(k - 1)
  BY <1>1
<1>7. ToSet(t) = ToSet(s) \cup {x}
  <2>1. ToSet(t) = {t[i] : i \in 1..k}
    BY <1>4 DEF ToSet
  <2> HIDE DEF t
  <2> QED BY <2>1, <1>4, <1>5, <1>6
<1> HIDE DEF t
<1>8. IsInjective(t)
  <2> SUFFICES ASSUME NEW i \in 1..k, NEW j \in 1..k, t[i] = t[j], i # j PROVE FALSE
    BY <1>4 DEF IsInjective
  <2>1. DOMAIN s = 1..(k - 1)
    BY DEF Begins
  <2>2. CASE i \in 1..(k - 1) /\ j \in 1..(k - 1)
    BY <2>1, <2>2, <1>4 DEF Begins, IsInjective
  <2>3. CASE i = k \/ j = k
    BY <2>3, <1>2, <1>4, <1>5, <1>6
  <2> QED BY <2>2, <2>3, <1>6
<1>9. IsRanked(t)
  <2> SUFFICES ASSUME NEW i \in 1..k, NEW j \in 1..k, i < j PROVE ~RankedBefore(t[j], t[i])
    BY <1>4 DEF IsRanked
  <2>1. i \in 1..(k - 1)
    BY <1>1
  <2>2. DOMAIN s = 1..(k - 1)
    BY DEF Begins
  <2>3. CASE j \in 1..(k - 1)
    BY <2>1, <2>2, <2>3, <1>4 DEF Begins, IsRanked
  <2>4. CASE j = k
    BY <2>1, <2>4, <1>2, <1>4 DEF Begins
  <2> QED BY <2>3, <2>4, <1>6
<1>10. ASSUME NEW y \in S \ ToSet(t), NEW i \in 1..k PROVE ~RankedBefore(y, t[i])
  BY <1>2, <1>4, <1>6, <1>7 DEF Begins
<1>11. Cardinality(S \ ToSet(t)) = Cardinality(S) - k
  <2>1. S \ ToSet(t) = (S \ ToSet(s)) \ {x}
    BY <1>7
  <2>2. IsFiniteSet(S \ ToSet(s))
    BY FS_Subset DEF IsPool
  <2>3. Cardinality(S \ ToSet(t)) = Cardinality(S \ ToSet(s)) - 1
    BY <2>1, <2>2, <1>2, FS_RemoveElement
  <2> QED BY <2>3, <1>1 DEF Begins
<1> QED BY <1>4, <1>8, <1>9, <1>10, <1>11 DEF Begins, t

\* What is built to the end is a sorting, and something is.
LEMMA ArrangementsAreSortings ==
  ASSUME NEW S, IsPool(S)
  PROVE  Arrangements(S) # {} /\ \A s \in Arrangements(S) : IsSorting(s, S)
<1> DEFINE n == Cardinality(S)
<1>1. n \in Nat /\ IsFiniteSet(S)
  BY FS_CardinalityType DEF IsPool
<1>2. PICK begun : /\ begun[0] = {<<>>}
                   /\ \A k \in 1..n : begun[k] = Continued(begun[k - 1], S)
                   /\ Arrangements(S) = begun[n]
  BY <1>1, ArrangementsLoop
<1> DEFINE Good == {k \in 0..n : begun[k] # {} /\ \A s \in begun[k] : Begins(s, S, k)}
<1>3. 0 \in Good
  <2>1. 1..0 = {} /\ ToSet(<<>>) = {} /\ S \ {} = S /\ DOMAIN <<>> = {}
    BY DEF ToSet
  <2>2. <<>> \in [1..0 -> S] /\ IsInjective(<<>>) /\ IsRanked(<<>>)
    BY <2>1 DEF IsInjective, IsRanked
  <2>3. Begins(<<>>, S, 0)
    <3>1. \A x \in S \ ToSet(<<>>) : \A i \in 1..0 : ~RankedBefore(x, <<>>[i])
      BY <2>1
    <3>2. Cardinality(S \ ToSet(<<>>)) = Cardinality(S) - 0
      BY <2>1, <1>1
    <3> QED BY <2>2, <3>1, <3>2 DEF Begins
  <2>4. 0 \in 0..n
    BY <1>1
  <2> HIDE DEF n
  <2> QED BY <2>3, <2>4, <1>2
<1>4. ASSUME NEW k \in 1..n, k - 1 \in Good PROVE k \in Good
  <2>1. begun[k] = Continued(begun[k - 1], S) /\ k \in 0..n
    BY <1>1, <1>2
  <2>2. ASSUME NEW t \in begun[k] PROVE Begins(t, S, k)
    <3>1. PICK s \in begun[k - 1] : \E x \in Firsts(S \ ToSet(s)) : t = Append(s, x)
      BY <2>1 DEF Continued
    <3> QED BY <3>1, <1>4, ContinuedBegins
  <2>3. begun[k] # {}
    <3>1. PICK s \in begun[k - 1] : Begins(s, S, k - 1)
      BY <1>4
    <3>2. Cardinality(S \ ToSet(s)) > 0
      BY <3>1, <1>1 DEF Begins
    <3>3. S \ ToSet(s) # {} /\ IsPool(S \ ToSet(s))
      BY <3>2, FS_EmptySet, FS_Subset DEF IsPool, OneServerForEachRoute
    <3>4. PICK x : x \in Firsts(S \ ToSet(s))
      BY <3>3, SomeServerIsFirst
    <3>5. Append(s, x) \in begun[k]
      <4> DEFINE R(u) == {Append(u, y) : y \in Firsts(S \ ToSet(u))}
      <4>1. Append(s, x) \in R(s)
        BY <3>4
      <4>2. begun[k] = UNION {R(u) : u \in begun[k - 1]}
        BY <2>1 DEF Continued
      <4> HIDE DEF R
      <4> QED BY <3>1, <4>1, <4>2
    <3> QED BY <3>5
  <2> HIDE DEF n
  <2> QED BY <2>1, <2>2, <2>3
<1>5. n \in Good
  <2>1. 0..n \subseteq Good
    <3> HIDE DEF Good, n
    <3> QED BY <1>1, <1>3, <1>4, Induction
  <2> HIDE DEF Good, n
  <2> QED BY <2>1, <1>1
<1>6. ASSUME NEW s, Begins(s, S, n) PROVE IsSorting(s, S)
  <2>1. Cardinality(S \ ToSet(s)) = 0 /\ IsFiniteSet(S \ ToSet(s))
    BY <1>1, <1>6, FS_Subset DEF Begins
  <2>2. S \ ToSet(s) = {}
    BY <2>1, FS_EmptySet
  <2>3. DOMAIN s = 1..n
    BY <1>6 DEF Begins
  <2> QED BY <2>2, <2>3, <1>6 DEF Begins, IsSorting, ToSet
<1> QED BY <1>2, <1>5, <1>6

\* Whatever the order in which a map gives its servers and whatever an unstable sort
\* does with them, there is a result and it is the same.
THEOREM SortHasOneResult ==
  ASSUME NEW S, IsPool(S)
  PROVE  \E s : Arrangements(S) = {s} /\ IsSorting(s, S)
<1>1. PICK s : s \in Arrangements(S) /\ IsSorting(s, S)
  BY ArrangementsAreSortings
<1>2. ASSUME NEW t \in Arrangements(S) PROVE t = s
  <2>1. IsSorting(t, S) /\ Cardinality(S) \in Nat
    BY ArrangementsAreSortings, FS_CardinalityType DEF IsPool
  <2>2. \A x \in S : Comparable(x)
    BY DEF IsPool
  <2>3. \A x, y \in S : x.route = y.route => x = y
    BY DEF IsPool, OneServerForEachRoute
  <2> QED BY <1>1, <2>1, <2>2, <2>3, SortIsDetermined DEF IsSorting
<1> QED BY <1>1, <1>2

-----------------------------------------------------------------------------
(* The choice by country.                                                  *)

\* A strict order, a set of pairs, that is total on S.
IsOrderOf(order, S) ==
  /\ \A i \in S : <<i, i>> \notin order
  /\ \A i, j, k \in S : <<i, j>> \in order /\ <<j, k>> \in order => <<i, k>> \in order
  /\ \A i, j \in S : i # j => <<i, j>> \in order \/ <<j, i>> \in order

\* The first n are n, or all of them, and none of the others comes before one of them.
LEMMA FirstOfOrder ==
  ASSUME NEW S, IsFiniteSet(S), NEW n \in Int, NEW order, IsOrderOf(order, S)
  PROVE  LET F == FirstOf(S, n, order)
         IN /\ F \subseteq S /\ IsFiniteSet(F)
            /\ Cardinality(F) = IF n <= 0 THEN 0 ELSE Least(n, Cardinality(S))
            /\ \A i \in F, j \in S : <<j, i>> \in order => j \in F
<1> DEFINE N == Cardinality(S)
           Before(i) == {j \in S : <<j, i>> \in order}
           rank == [i \in S |-> Cardinality(Before(i))]
           F == FirstOf(S, n, order)
<1>1. N \in Nat
  BY FS_CardinalityType
<1>2. ASSUME NEW i \in S
      PROVE  IsFiniteSet(Before(i)) /\ rank[i] \in 0..(N - 1)
  <2>1. IsFiniteSet(Before(i)) /\ IsFiniteSet(S \ {i})
    BY FS_Subset
  <2>2. Before(i) \subseteq S \ {i}
    BY DEF IsOrderOf
  <2>3. Cardinality(Before(i)) \in Nat /\ Cardinality(S \ {i}) = N - 1
    BY <2>1, FS_CardinalityType, FS_RemoveElement
  <2>4. Cardinality(Before(i)) <= Cardinality(S \ {i})
    <3> HIDE DEF Before
    <3> QED BY <2>1, <2>2, FS_Subset
  <2> HIDE DEF Before
  <2> QED BY <2>1, <2>3, <2>4, <1>1
<1>3. \A i \in S : rank[i] \in Int /\ 0 <= rank[i] /\ rank[i] < N
  <2> SUFFICES ASSUME NEW i \in S PROVE rank[i] \in Int /\ 0 <= rank[i] /\ rank[i] < N
    OBVIOUS
  <2>1. rank[i] \in 0..(N - 1)
    BY <1>2
  <2> HIDE DEF rank, N
  <2> QED BY <2>1, <1>1
<1>4. ASSUME NEW i \in S, NEW j \in S, <<j, i>> \in order PROVE rank[j] < rank[i]
  <2>1. Before(j) \subseteq Before(i) /\ j \in Before(i) /\ j \notin Before(j)
    BY <1>4 DEF IsOrderOf
  <2>2. Cardinality(Before(j)) <= Cardinality(Before(i)) /\ Before(j) # Before(i)
    <3> HIDE DEF Before
    <3> QED BY <2>1, <1>2, FS_Subset
  <2>3. Cardinality(Before(j)) # Cardinality(Before(i))
    <3> HIDE DEF Before
    <3> QED BY <2>1, <2>2, <1>2, FS_Subset
  <2> HIDE DEF Before
  <2> QED BY <2>2, <2>3, <1>2
<1>5. ASSUME NEW i \in S, NEW j \in S, rank[i] = rank[j] PROVE i = j
  <2> HIDE DEF rank
  <2>1. rank[i] \in Int /\ rank[j] \in Int
    BY <1>3
  <2>2. ~(rank[i] < rank[j]) /\ ~(rank[j] < rank[i])
    BY <2>1, <1>5
  <2> QED BY <2>2, <1>4 DEF IsOrderOf
<1>6. \A k \in 0..(N - 1) : \E i \in S : rank[i] = k
  <2>1. rank \in Injection(S, 0..(N - 1))
    <3>1. rank \in [S -> 0..(N - 1)]
      BY <1>2
    <3> HIDE DEF rank
    <3> QED BY <3>1, <1>5 DEF Injection, IsInjective
  <2>2. IsFiniteSet(0..(N - 1)) /\ Cardinality(0..(N - 1)) = N
    <3> HIDE DEF N
    <3> QED BY <1>1, FS_Interval
  <2>3. rank \in Surjection(S, 0..(N - 1))
    <3> HIDE DEF rank
    <3> QED BY <2>1, <2>2, FS_Injection
  <2> HIDE DEF rank
  <2> QED BY <2>3 DEF Surjection
<1>7. F = {i \in S : rank[i] < n}
  BY DEF FirstOf
<1>8. F \subseteq S /\ IsFiniteSet(F)
  <2> HIDE DEF rank, F
  <2> QED BY <1>7, FS_Subset
<1>9. ASSUME NEW i \in F, NEW j \in S, <<j, i>> \in order PROVE j \in F
  <2> HIDE DEF rank, F
  <2>1. i \in S /\ rank[i] < n
    BY <1>7
  <2>2. rank[j] < rank[i] /\ rank[j] \in Int /\ rank[i] \in Int
    BY <2>1, <1>3, <1>4, <1>9
  <2> QED BY <2>1, <2>2, <1>7
<1>10. Cardinality(F) = IF n <= 0 THEN 0 ELSE Least(n, N)
  <2>1. CASE n <= 0
    <3>1. F = {}
      <4> HIDE DEF rank, F
      <4> QED BY <1>3, <1>7, <2>1
    <3> HIDE DEF rank, F
    <3> QED BY <3>1, <2>1, FS_EmptySet
  <2>2. CASE n > 0
    <3> DEFINE m == Least(n, N)
               T == 0..(m - 1)
               short == [i \in F |-> rank[i]]
    <3>1. m \in Nat /\ m <= N /\ m <= n
      BY <1>1, <2>2 DEF Least
    <3>2. IsFiniteSet(T) /\ Cardinality(T) = m
      <4> HIDE DEF m
      <4> QED BY <3>1, FS_Interval
    <3>3. \A i \in F : i \in S /\ rank[i] \in T
      <4> HIDE DEF rank, F
      <4> QED BY <1>1, <1>3, <1>7, <2>2 DEF Least
    <3>4. short \in [F -> T]
      <4> HIDE DEF rank, F, T
      <4> QED BY <3>3
    <3>5. short \in Injection(F, T)
      <4> HIDE DEF rank, F, T
      <4> QED BY <3>3, <3>4, <1>5 DEF Injection, IsInjective
    <3>6. \A k \in T : \E i \in F : rank[i] = k
      <4> HIDE DEF rank, F
      <4>1. ASSUME NEW k \in T PROVE k \in 0..(N - 1) /\ k < n
        BY <3>1, <1>1, <2>2
      <4> QED BY <4>1, <1>6, <1>7
    <3>7. short \in Surjection(F, T)
      <4> HIDE DEF rank, F, T
      <4> QED BY <3>4, <3>6 DEF Surjection
    <3>8. Cardinality(F) = Cardinality(T)
      <4> HIDE DEF short, F, T
      <4> QED BY <3>2, <3>5, <3>7, FS_Injection
    <3> HIDE DEF F, T
    <3> QED BY <3>2, <3>8, <2>2
  <2> QED BY <2>1, <2>2
<1> HIDE DEF F
<1> QED BY <1>8, <1>9, <1>10 DEF F

\* The positions of the servers of a country.
At(s, b) == {i \in DOMAIN s : CountryBucket(s[i]) = b}

\* The turns of a country's servers number them.
LEMMA TurnsOfACountry ==
  ASSUME NEW n \in Nat, NEW s, DOMAIN s = 1..n, NEW i \in 1..n
  PROVE  /\ Turn(s)[i] \in Nat /\ Turn(s)[i] >= 1
         /\ Turn(s)[i] = Cardinality({j \in At(s, CountryBucket(s[i])) : j <= i})
         /\ \A j \in 1..n : j < i /\ CountryBucket(s[j]) = CountryBucket(s[i]) =>
              Turn(s)[j] < Turn(s)[i]
<1> DEFINE UpTo(k) == {j \in 1..k : CountryBucket(s[j]) = CountryBucket(s[k])}
<1>1. \A k \in 1..n : Turn(s)[k] = Cardinality(UpTo(k))
  BY DEF Turn
<1>2. ASSUME NEW k \in 1..n PROVE IsFiniteSet(UpTo(k)) /\ Cardinality(UpTo(k)) \in Nat
  <2>1. UpTo(k) \subseteq 1..k /\ IsFiniteSet(1..k)
    BY FS_Interval
  <2> HIDE DEF UpTo
  <2> QED BY <2>1, FS_Subset, FS_CardinalityType
<1>3. UpTo(i) = {j \in At(s, CountryBucket(s[i])) : j <= i}
  BY DEF At
<1>4. Cardinality(UpTo(i)) >= 1
  <2>1. i \in UpTo(i)
    OBVIOUS
  <2> HIDE DEF UpTo
  <2> QED BY <2>1, <1>2, FS_EmptySet
<1>5. ASSUME NEW j \in 1..n, j < i, CountryBucket(s[j]) = CountryBucket(s[i])
      PROVE  Cardinality(UpTo(j)) < Cardinality(UpTo(i))
  <2>1. UpTo(j) \subseteq UpTo(i) /\ i \in UpTo(i) /\ i \notin UpTo(j)
    BY <1>5
  <2> HIDE DEF UpTo
  <2>2. Cardinality(UpTo(j)) <= Cardinality(UpTo(i))
    BY <2>1, <1>2, FS_Subset
  <2>3. Cardinality(UpTo(j)) # Cardinality(UpTo(i))
    BY <2>1, <1>2, FS_Subset
  <2> QED BY <2>2, <2>3, <1>2
<1> HIDE DEF UpTo
<1> QED BY <1>1, <1>2, <1>3, <1>4, <1>5

\* The first servers of a country are those whose turn is not beyond their number.
LEMMA FirstOfACountry ==
  ASSUME NEW n \in Nat, NEW s, DOMAIN s = 1..n, NEW b, NEW D \in SUBSET At(s, b),
         \A i \in D, j \in At(s, b) : j < i => j \in D
  PROVE  /\ IsFiniteSet(D) /\ Cardinality(D) \in Nat
         /\ \A i \in At(s, b) : i \in D <=> Turn(s)[i] <= Cardinality(D)
         /\ Cardinality(D) > 0 => \E i \in D : Turn(s)[i] = Cardinality(D)
<1> DEFINE UpTo(i) == {j \in At(s, b) : j <= i}
<1>1. At(s, b) \subseteq 1..n /\ IsFiniteSet(1..n)
  BY FS_Interval DEF At
<1>2. IsFiniteSet(At(s, b)) /\ IsFiniteSet(D) /\ Cardinality(D) \in Nat
  <2>1. D \subseteq 1..n
    BY <1>1
  <2> QED BY <1>1, <2>1, FS_Subset, FS_CardinalityType
<1>3. ASSUME NEW i \in At(s, b)
      PROVE  /\ Turn(s)[i] = Cardinality(UpTo(i)) /\ Turn(s)[i] \in Nat
             /\ IsFiniteSet(UpTo(i))
  <2>1. i \in 1..n /\ CountryBucket(s[i]) = b
    BY DEF At
  <2>2. Turn(s)[i] = Cardinality(UpTo(i)) /\ Turn(s)[i] \in Nat
    BY <2>1, TurnsOfACountry
  <2>3. UpTo(i) \subseteq At(s, b)
    OBVIOUS
  <2> HIDE DEF UpTo
  <2> QED BY <2>2, <2>3, <1>2, FS_Subset
<1>4. ASSUME NEW i \in D PROVE Turn(s)[i] <= Cardinality(D)
  <2>1. i \in At(s, b) /\ UpTo(i) \subseteq D
    BY <1>1
  <2> HIDE DEF UpTo
  <2> QED BY <2>1, <1>2, <1>3, FS_Subset
<1>5. ASSUME NEW i \in At(s, b), i \notin D PROVE Turn(s)[i] > Cardinality(D)
  <2>1. D \subseteq UpTo(i) \ {i} /\ i \in UpTo(i)
    BY <1>1, <1>5
  <2>2. IsFiniteSet(UpTo(i) \ {i}) /\ Cardinality(UpTo(i) \ {i}) = Turn(s)[i] - 1
    <3> HIDE DEF UpTo
    <3> QED BY <2>1, <1>3, FS_RemoveElement
  <2>3. Cardinality(D) <= Turn(s)[i] - 1
    <3> HIDE DEF UpTo
    <3> QED BY <2>1, <2>2, FS_Subset
  <2> HIDE DEF UpTo
  <2> QED BY <2>3, <1>2, <1>3
<1>6. ASSUME Cardinality(D) > 0 PROVE \E i \in D : Turn(s)[i] = Cardinality(D)
  <2>1. D # {} /\ D \in SUBSET (1..n) /\ D \subseteq At(s, b)
    <3>1. D # {}
      BY <1>6, FS_EmptySet
    <3> QED BY <3>1, <1>1
  <2>2. PICK i \in D : \A j \in D : j <= i
    <3>1. Max(D) \in D /\ \A j \in D : Max(D) >= j
      BY <2>1, MaxIsMember
    <3> QED BY <3>1, <2>1
  <2>3. UpTo(i) = D
    <3>1. ASSUME NEW j \in At(s, b), j <= i PROVE j \in D
      <4>1. j \in Int /\ i \in Int
        BY <2>1, <1>1
      <4> QED BY <4>1, <3>1
    <3>2. \A j \in D : j \in At(s, b) /\ j <= i
      BY <2>1, <2>2
    <3> QED BY <3>1, <3>2
  <2> HIDE DEF UpTo
  <2> QED BY <2>3, <1>3
<1> HIDE DEF UpTo
<1> QED BY <1>2, <1>3, <1>4, <1>5, <1>6

\* The place of a country: its preference, or its first server after all preferences.
LEMMA PlaceOfACountry ==
  ASSUME NEW n \in Nat, NEW s, DOMAIN s = 1..n, NEW i \in 1..n
  PROVE  /\ Place(s)[i] \in Int
         /\ s[i].country \in ToSet(Nearby) =>
              Place(s)[i] \in DOMAIN Nearby /\ Nearby[Place(s)[i]] = s[i].country
         /\ s[i].country \notin ToSet(Nearby) =>
              \E j \in 1..n : /\ CountryBucket(s[j]) = CountryBucket(s[i])
                              /\ Place(s)[i] = Len(Nearby) + j
<1>1. Nearby \in Seq(ToSet(Nearby)) /\ Len(Nearby) \in Nat /\ DOMAIN Nearby = 1..Len(Nearby)
  BY RankingAssumption
<1>2. CASE s[i].country \in ToSet(Nearby)
  <2>1. \E k \in DOMAIN Nearby : Nearby[k] = s[i].country
    BY <1>2 DEF ToSet
  <2>2. Place(s)[i] = CHOOSE k \in DOMAIN Nearby : Nearby[k] = s[i].country
    BY <1>2 DEF Place
  <2> QED BY <2>1, <2>2, <1>1, <1>2
<1>3. CASE s[i].country \notin ToSet(Nearby)
  <2> DEFINE C == {j \in 1..n : CountryBucket(s[j]) = CountryBucket(s[i])}
  <2>1. Place(s)[i] = Len(Nearby) + Min(C)
    BY <1>3 DEF Place
  <2>2. C \in SUBSET (1..n) /\ i \in C
    OBVIOUS
  <2>3. Min(C) \in C
    <3> HIDE DEF C
    <3> QED BY <2>2, MinIsMember
  <2>4. Min(C) \in 1..n /\ CountryBucket(s[Min(C)]) = CountryBucket(s[i])
    BY <2>3
  <2> HIDE DEF C
  <2> QED BY <2>1, <2>4, <1>1, <1>3
<1> QED BY <1>2, <1>3

\* The rounds visit every server at a time of its own.
LEMMA RoundsAreAnOrder ==
  ASSUME NEW n \in Nat, NEW s, DOMAIN s = 1..n
  PROVE  IsOrderOf(RoundByRound(s), 1..n)
<1> DEFINE turn == Turn(s)  place == Place(s)
<1>1. \A i \in 1..n : turn[i] \in Int /\ place[i] \in Int
  <2> SUFFICES ASSUME NEW i \in 1..n PROVE turn[i] \in Int /\ place[i] \in Int
    OBVIOUS
  <2>1. turn[i] \in Nat
    BY TurnsOfACountry
  <2>2. place[i] \in Int
    BY PlaceOfACountry
  <2> HIDE DEF turn, place
  <2> QED BY <2>1, <2>2
<1>2. \A i, j \in 1..n : <<i, j>> \in RoundByRound(s) <=>
         turn[i] < turn[j] \/ (turn[i] = turn[j] /\ place[i] < place[j])
  <2>1. RoundByRound(s) = {p \in (DOMAIN s) \X (DOMAIN s) :
          turn[p[1]] < turn[p[2]] \/ (turn[p[1]] = turn[p[2]] /\ place[p[1]] < place[p[2]])}
    BY DEF RoundByRound
  <2> HIDE DEF turn, place
  <2> QED BY <2>1
<1>3. ASSUME NEW i \in 1..n, NEW j \in 1..n, place[i] = place[j]
      PROVE  CountryBucket(s[i]) = CountryBucket(s[j])
  <2>1. DOMAIN Nearby = 1..Len(Nearby) /\ Len(Nearby) \in Nat
    BY RankingAssumption
  <2>2. CASE s[i].country \in ToSet(Nearby) /\ s[j].country \in ToSet(Nearby)
    <3>1. s[i].country = s[j].country
      BY <1>3, <2>2, PlaceOfACountry
    <3> QED BY <3>1, <2>2, RankingAssumption DEF CountryBucket
  <2>3. CASE s[i].country \notin ToSet(Nearby) /\ s[j].country \notin ToSet(Nearby)
    <3>1. PICK k \in 1..n : /\ CountryBucket(s[k]) = CountryBucket(s[i])
                            /\ place[i] = Len(Nearby) + k
      BY <2>3, PlaceOfACountry
    <3>2. PICK l \in 1..n : /\ CountryBucket(s[l]) = CountryBucket(s[j])
                            /\ place[j] = Len(Nearby) + l
      BY <2>3, PlaceOfACountry
    <3>3. k = l
      <4> HIDE DEF place
      <4> QED BY <3>1, <3>2, <1>3, <2>1
    <3> QED BY <3>1, <3>2, <3>3
  <2>4. ASSUME NEW k \in 1..n, NEW l \in 1..n, s[k].country \in ToSet(Nearby),
               s[l].country \notin ToSet(Nearby)
        PROVE  place[k] < place[l]
    <3>1. place[k] \in 1..Len(Nearby)
      BY <2>1, <2>4, PlaceOfACountry
    <3>2. \E m \in 1..n : place[l] = Len(Nearby) + m
      BY <2>4, PlaceOfACountry
    <3> HIDE DEF place
    <3> QED BY <3>1, <3>2, <2>1
  <2> HIDE DEF place
  <2>5. place[i] \in Int /\ place[j] \in Int
    BY <1>1
  <2> QED BY <2>2, <2>3, <2>4, <2>5, <1>3
<1>4. ASSUME NEW i \in 1..n, NEW j \in 1..n, i # j, turn[i] = turn[j], place[i] = place[j]
      PROVE  FALSE
  <2>1. CountryBucket(s[i]) = CountryBucket(s[j])
    BY <1>3, <1>4
  <2>2. i < j => turn[i] < turn[j]
    BY <2>1, TurnsOfACountry
  <2>3. j < i => turn[j] < turn[i]
    BY <2>1, TurnsOfACountry
  <2> HIDE DEF turn
  <2> QED BY <2>2, <2>3, <1>1, <1>4
<1> HIDE DEF turn, place
<1>5. \A i \in 1..n : <<i, i>> \notin RoundByRound(s)
  BY <1>1, <1>2
<1>6. ASSUME NEW i \in 1..n, NEW j \in 1..n, NEW k \in 1..n,
             <<i, j>> \in RoundByRound(s), <<j, k>> \in RoundByRound(s)
      PROVE  <<i, k>> \in RoundByRound(s)
  <2>1. turn[i] < turn[j] \/ (turn[i] = turn[j] /\ place[i] < place[j])
    BY <1>2, <1>6
  <2>2. turn[j] < turn[k] \/ (turn[j] = turn[k] /\ place[j] < place[k])
    BY <1>2, <1>6
  <2>3. turn[i] < turn[k] \/ (turn[i] = turn[k] /\ place[i] < place[k])
    BY <2>1, <2>2, <1>1
  <2> QED BY <2>3, <1>2
<1>7. ASSUME NEW i \in 1..n, NEW j \in 1..n, i # j
      PROVE  <<i, j>> \in RoundByRound(s) \/ <<j, i>> \in RoundByRound(s)
  <2>1. turn[i] # turn[j] \/ place[i] # place[j]
    BY <1>4, <1>7
  <2>2. \/ turn[i] < turn[j] \/ turn[j] < turn[i]
        \/ (turn[i] = turn[j] /\ place[i] < place[j])
        \/ (turn[j] = turn[i] /\ place[j] < place[i])
    BY <2>1, <1>1
  <2>3. <<i, j>> \in RoundByRound(s) <=>
          turn[i] < turn[j] \/ (turn[i] = turn[j] /\ place[i] < place[j])
    BY <1>2
  <2>4. <<j, i>> \in RoundByRound(s) <=>
          turn[j] < turn[i] \/ (turn[j] = turn[i] /\ place[j] < place[i])
    BY <1>2
  <2> QED BY <2>2, <2>3, <2>4
<1> QED BY <1>5, <1>6, <1>7 DEF IsOrderOf

\* So do the positions themselves.
LEMMA AsRankedIsAnOrder ==
  ASSUME NEW n \in Nat, NEW T \in SUBSET (1..n)
  PROVE  IsOrderOf({p \in T \X T : p[1] < p[2]}, T)
<1> DEFINE order == {p \in T \X T : p[1] < p[2]}
<1>1. T \subseteq Nat
  OBVIOUS
<1>2. \A i, j \in T : <<i, j>> \in order <=> i < j
  OBVIOUS
<1> HIDE DEF order
<1>3. \A i \in T : <<i, i>> \notin order
  BY <1>1, <1>2
<1>4. \A i, j, k \in T : <<i, j>> \in order /\ <<j, k>> \in order => <<i, k>> \in order
  BY <1>1, <1>2
<1>5. \A i, j \in T : i # j => <<i, j>> \in order \/ <<j, i>> \in order
  BY <1>1, <1>2
<1>6. IsOrderOf(order, T)
  BY <1>3, <1>4, <1>5 DEF IsOrderOf
<1> QED BY <1>6 DEF order

\* Of two servers of a country the one ranked first is in the pool if the other is.  A
\* server within the cap that is not in it comes after all that are.  More servers of a
\* country than its cap are there only to fill the pool up to the floor, and the pool is
\* as large as the floor allows and the limit demands.
LEMMA PooledPositions ==
  ASSUME NEW n \in Nat, NEW s, DOMAIN s = 1..n, Len(s) = n,
         NEW limit \in Nat \ {0}, NEW cap \in Nat \ {0}
  PROVE  LET J == Pooled(s, limit, cap)
         IN /\ J \subseteq 1..n /\ IsFiniteSet(J) /\ Cardinality(J) \in Nat
            /\ Cardinality(J) <= limit
            /\ Cardinality(J) >= Least(limit, Least(UsefulFloor, n))
            /\ \A i \in J, j \in 1..n :
                 j < i /\ CountryBucket(s[j]) = CountryBucket(s[i]) => j \in J
            /\ \A i \in J : Turn(s)[i] > cap => Cardinality(J) <= UsefulFloor
            /\ \A i \in J, k \in (1..n) \ J :
                 Turn(s)[k] <= cap => <<k, i>> \notin RoundByRound(s)
<1> DEFINE J == Pooled(s, limit, cap)
           due == Due(s, cap)
           order == RoundByRound(s)
           sel == FirstOf(due, limit, order)
           left == (1..n) \ sel
           asRanked == {p \in left \X left : p[1] < p[2]}
           floor == Least(limit, Least(UsefulFloor, n))
           more == floor - Cardinality(sel)
           fill == FirstOf(left, more, asRanked)
<1>1. J = sel \cup fill
  BY DEF Pooled
<1>2. IsFiniteSet(1..n) /\ Cardinality(1..n) = n
  BY FS_Interval
<1>3. UsefulFloor \in Nat \ {0}
  BY RankingAssumption
<1>4. /\ due \subseteq 1..n
      /\ \A i \in 1..n : i \in due <=> Turn(s)[i] <= cap
  BY DEF Due
<1>5. \A i \in 1..n : Turn(s)[i] \in Nat
  BY TurnsOfACountry
<1>6. IsOrderOf(order, 1..n)
  BY RoundsAreAnOrder
<1>7. IsFiniteSet(due) /\ Cardinality(due) \in Nat /\ Cardinality(due) <= n /\ IsOrderOf(order, due)
  <2> HIDE DEF due, order
  <2>1. IsFiniteSet(due) /\ Cardinality(due) <= n
    <3>1. due \in SUBSET (1..n)
      BY <1>4
    <3>2. IsFiniteSet(due) /\ Cardinality(due) <= Cardinality(1..n)
      BY <1>2, <3>1, FS_Subset
    <3> QED BY <1>2, <3>2
  <2>2. IsOrderOf(order, due)
    BY <1>4, <1>6 DEF IsOrderOf
  <2> QED BY <2>1, <2>2, FS_CardinalityType
<1>8. /\ sel \subseteq due /\ IsFiniteSet(sel)
      /\ Cardinality(sel) = Least(limit, Cardinality(due))
      /\ \A i \in sel, j \in due : <<j, i>> \in order => j \in sel
  <2>1. limit \in Int /\ ~(limit <= 0)
    OBVIOUS
  <2> HIDE DEF due, order
  <2> QED BY <1>7, <2>1, FirstOfOrder
<1>9. /\ Cardinality(sel) \in Nat /\ Cardinality(sel) <= limit /\ Cardinality(sel) <= n
      /\ sel # due => Cardinality(sel) = limit
  <2> HIDE DEF due, order, sel
  <2>1. Cardinality(sel) = Cardinality(due) => sel = due
    BY <1>7, <1>8, FS_Subset
  <2> QED BY <2>1, <1>7, <1>8 DEF Least
<1>10. floor \in Nat /\ floor <= limit /\ floor <= UsefulFloor /\ floor <= n
  BY <1>3 DEF Least
<1>11. IsFiniteSet(left) /\ Cardinality(left) = n - Cardinality(sel)
  <2>1. sel \subseteq 1..n
    BY <1>4, <1>8
  <2> HIDE DEF sel
  <2>2. IsFiniteSet(left) /\ Cardinality(left) = n - Cardinality((1..n) \cap sel)
    BY <1>2, FS_Difference
  <2>3. (1..n) \cap sel = sel
    BY <2>1
  <2> HIDE DEF left
  <2> QED BY <2>2, <2>3
<1>12. /\ fill \subseteq left /\ IsFiniteSet(fill)
       /\ Cardinality(fill) = IF more <= 0 THEN 0 ELSE Least(more, Cardinality(left))
       /\ \A i \in fill, j \in left : j < i => j \in fill
  <2>1. more \in Int
    <3> HIDE DEF floor, sel
    <3> QED BY <1>9, <1>10
  <2>2. IsOrderOf(asRanked, left)
    <3>1. left \in SUBSET (1..n)
      OBVIOUS
    <3> HIDE DEF left
    <3> QED BY <3>1, AsRankedIsAnOrder
  <2>3. \A i, j \in left : j < i => <<j, i>> \in asRanked
    OBVIOUS
  <2> HIDE DEF left, asRanked, more
  <2>4. /\ fill \subseteq left /\ IsFiniteSet(fill)
        /\ Cardinality(fill) = IF more <= 0 THEN 0 ELSE Least(more, Cardinality(left))
        /\ \A i \in fill, j \in left : <<j, i>> \in asRanked => j \in fill
    BY <2>1, <2>2, <1>11, FirstOfOrder
  <2> QED BY <2>3, <2>4
<1>13. IF more <= 0 THEN fill = {} /\ Cardinality(fill) = 0 ELSE Cardinality(fill) = more
  <2>1. more > 0 => more <= Cardinality(left)
    <3> HIDE DEF floor, sel, left
    <3> QED BY <1>9, <1>10, <1>11
  <2>2. more \in Int /\ Cardinality(left) \in Int
    <3> HIDE DEF floor, sel, left
    <3> QED BY <1>2, <1>9, <1>10, <1>11
  <2> HIDE DEF left, more, fill
  <2>3. more <= 0 => fill = {}
    BY <1>12, FS_EmptySet
  <2> QED BY <2>1, <2>2, <2>3, <1>12 DEF Least
<1>14. /\ J \subseteq 1..n /\ IsFiniteSet(J)
       /\ Cardinality(J) = Cardinality(sel) + Cardinality(fill)
  <2>1. sel \cap fill = {} /\ sel \subseteq 1..n /\ left \subseteq 1..n
    <3> HIDE DEF fill
    <3> QED BY <1>4, <1>8, <1>12
  <2> HIDE DEF sel, fill, J, left
  <2>2. IsFiniteSet(J) /\ Cardinality(J) = Cardinality(sel) + Cardinality(fill) - Cardinality(sel \cap fill)
    BY <1>1, <1>8, <1>12, FS_Union
  <2>3. Cardinality(sel) \in Nat /\ Cardinality(fill) \in Nat
    BY <1>8, <1>12, FS_CardinalityType
  <2>4. Cardinality(sel \cap fill) = 0
    BY <2>1, FS_EmptySet
  <2>5. J \subseteq 1..n
    BY <2>1, <1>1, <1>12
  <2> QED BY <2>2, <2>3, <2>4, <2>5
<1>15. Cardinality(J) \in Nat /\ Cardinality(J) <= limit /\ Cardinality(J) >= floor
  <2> HIDE DEF sel, fill, J, floor
  <2> QED BY <1>9, <1>10, <1>13, <1>14
<1>16. fill # {} => Cardinality(J) <= UsefulFloor /\ sel = due
  <2>1. fill # {} => more > 0
    <3> HIDE DEF sel, fill, floor
    <3> QED BY <1>9, <1>10, <1>13
  <2> HIDE DEF sel, fill, J, floor, due
  <2> QED BY <2>1, <1>9, <1>10, <1>13, <1>14
<1>17. ASSUME NEW i \in J, NEW j \in 1..n, j < i, CountryBucket(s[j]) = CountryBucket(s[i])
       PROVE  j \in J
  <2>1. i \in 1..n
    <3> HIDE DEF J
    <3> QED BY <1>14
  <2>2. Turn(s)[j] < Turn(s)[i]
    BY <2>1, <1>17, TurnsOfACountry
  <2>3. <<j, i>> \in order
    BY <2>1, <2>2 DEF RoundByRound
  <2>4. CASE i \in sel
    <3>1. j \in due
      <4> HIDE DEF sel, due
      <4> QED BY <2>1, <2>2, <2>4, <1>4, <1>5, <1>8
    <3> HIDE DEF sel, due, order
    <3> QED BY <3>1, <2>3, <2>4, <1>1, <1>8
  <2>5. CASE i \in fill
    <3>1. j \in sel \/ j \in left
      OBVIOUS
    <3> HIDE DEF sel, fill, left
    <3> QED BY <3>1, <2>5, <1>1, <1>12, <1>17
  <2> HIDE DEF sel, fill
  <2> QED BY <2>4, <2>5, <1>1
<1>18. ASSUME NEW i \in J, Turn(s)[i] > cap PROVE Cardinality(J) <= UsefulFloor
  <2>1. i \in 1..n
    <3> HIDE DEF J
    <3> QED BY <1>14
  <2> HIDE DEF sel, fill, J, due
  <2>2. i \notin sel
    BY <2>1, <1>4, <1>5, <1>8, <1>18
  <2> QED BY <2>2, <1>1, <1>16
<1>19. ASSUME NEW i \in J, NEW k \in (1..n) \ J, Turn(s)[k] <= cap PROVE <<k, i>> \notin order
  <2> HIDE DEF sel, fill, J, due, order
  <2>1. k \in due /\ k \notin sel
    BY <1>1, <1>4, <1>19
  <2>2. i \in sel
    BY <2>1, <1>1, <1>16
  <2> QED BY <2>1, <2>2, <1>8
<1> HIDE DEF sel, fill, due
<1> QED BY <1>14, <1>15, <1>17, <1>18, <1>19

\* As many servers as positions.
LEMMA InjectiveImage ==
  ASSUME NEW s, IsInjective(s), NEW D \in SUBSET (DOMAIN s), IsFiniteSet(D)
  PROVE  IsFiniteSet({s[i] : i \in D}) /\ Cardinality({s[i] : i \in D}) = Cardinality(D)
<1> DEFINE g == [i \in D |-> s[i]]
           T == {s[i] : i \in D}
<1>1. g \in Injection(D, T) /\ g \in Surjection(D, T)
  BY DEF Injection, Surjection, IsInjective
<1> HIDE DEF g, T
<1>2. IsFiniteSet(T) /\ Cardinality(T) = Cardinality(D)
  BY <1>1, FS_Surjection
<1> QED BY <1>2 DEF T

\* Of a country the pool holds the servers ranked first, as many as its size says.
LEMMA PoolOfACountry ==
  ASSUME NEW S, IsPool(S), NEW s, IsSorting(s, S), NEW b,
         NEW J, J = Pooled(s, PoolCap, MaxPerCountry), NEW D, D = J \cap At(s, b)
  PROVE  /\ OfCountry({s[i] : i \in J}, b) = {s[i] : i \in D}
         /\ Cardinality(OfCountry({s[i] : i \in J}, b)) = Cardinality(D)
         /\ Cardinality(D) \in Nat
         /\ \A i \in At(s, b) : i \in J <=> Turn(s)[i] <= Cardinality(D)
         /\ Cardinality(D) > 0 => \E i \in D : Turn(s)[i] = Cardinality(D)
<1> DEFINE n == Cardinality(S)
<1>1. n \in Nat /\ DOMAIN s = 1..n /\ Len(s) = n /\ IsInjective(s)
  BY FS_CardinalityType DEF IsPool, IsSorting
<1>2. PoolCap \in Nat \ {0} /\ MaxPerCountry \in Nat \ {0}
  BY RankingAssumption
<1>3. /\ J \subseteq 1..n
      /\ \A i \in J, j \in 1..n :
           j < i /\ CountryBucket(s[j]) = CountryBucket(s[i]) => j \in J
  <2> HIDE DEF n
  <2> QED BY <1>1, <1>2, PooledPositions
<1>4. D \in SUBSET At(s, b) /\ \A i \in D, j \in At(s, b) : j < i => j \in D
  BY <1>1, <1>3 DEF At
<1>5. /\ IsFiniteSet(D) /\ Cardinality(D) \in Nat
      /\ \A i \in At(s, b) : i \in D <=> Turn(s)[i] <= Cardinality(D)
      /\ Cardinality(D) > 0 => \E i \in D : Turn(s)[i] = Cardinality(D)
  <2> HIDE DEF n
  <2> QED BY <1>1, <1>4, FirstOfACountry
<1>6. OfCountry({s[i] : i \in J}, b) = {s[i] : i \in D}
  BY <1>1, <1>3 DEF OfCountry, At
<1>7. D \in SUBSET (DOMAIN s)
  BY <1>1, <1>3
<1>8. Cardinality({s[i] : i \in D}) = Cardinality(D)
  <2>1. IsInjective(s) /\ D \in SUBSET (DOMAIN s) /\ IsFiniteSet(D)
    BY <1>1, <1>5, <1>7
  <2> QED BY <2>1, InjectiveImage
<1> QED BY <1>5, <1>6, <1>8

\* The pool diverseCountryPool takes of sorted servers, in any order, is shared by the
\* countries as SharesThePool says.
THEOREM PoolSharesThePool ==
  ASSUME NEW S, IsPool(S), NEW s, IsSorting(s, S), NEW c,
         IsSorting(c, DiverseCountryPool(s, PoolCap, MaxPerCountry))
  PROVE  SharesThePool(c, S)
<1> DEFINE n == Cardinality(S)
           J == Pooled(s, PoolCap, MaxPerCountry)
           K == {s[i] : i \in J}
           D(b) == J \cap At(s, b)
           Size(b) == Cardinality(OfCountry(K, b))
<1>1. n \in Nat /\ DOMAIN s = 1..n /\ Len(s) = n /\ IsInjective(s) /\ IsRanked(s)
      /\ S = {s[i] : i \in 1..n}
  BY FS_CardinalityType DEF IsPool, IsSorting
<1>2. PoolCap \in Nat \ {0} /\ MaxPerCountry \in Nat \ {0} /\ UsefulFloor \in Nat \ {0}
  BY RankingAssumption
<1>3. /\ J \subseteq 1..n /\ IsFiniteSet(J) /\ Cardinality(J) \in Nat
      /\ Cardinality(J) <= PoolCap
      /\ Cardinality(J) >= Least(PoolCap, Least(UsefulFloor, n))
      /\ \A i \in J, j \in 1..n :
           j < i /\ CountryBucket(s[j]) = CountryBucket(s[i]) => j \in J
      /\ \A i \in J : Turn(s)[i] > MaxPerCountry => Cardinality(J) <= UsefulFloor
      /\ \A i \in J, k \in (1..n) \ J :
           Turn(s)[k] <= MaxPerCountry => <<k, i>> \notin RoundByRound(s)
  <2> HIDE DEF n
  <2> QED BY <1>1, <1>2, PooledPositions
<1>4. DiverseCountryPool(s, PoolCap, MaxPerCountry) = K
  BY DEF DiverseCountryPool
<1>5. Cardinality(K) = Cardinality(J)
  <2> HIDE DEF J, n
  <2> QED BY <1>1, <1>3, InjectiveImage
<1>6. ToSet(c) = K /\ Len(c) = Cardinality(J)
  <2>1. /\ c \in [1..Cardinality(J) -> K]
        /\ \A x \in K : \E k \in 1..Cardinality(J) : c[k] = x
    BY <1>4, <1>5 DEF IsSorting
  <2> HIDE DEF J, K
  <2> QED BY <2>1, <1>3 DEF ToSet
<1>7. ASSUME NEW b
      PROVE  /\ OfCountry(K, b) = {s[i] : i \in D(b)}
             /\ Size(b) = Cardinality(D(b)) /\ Size(b) \in Nat
             /\ \A i \in At(s, b) : i \in J <=> Turn(s)[i] <= Size(b)
             /\ Size(b) > 0 => \E i \in D(b) : Turn(s)[i] = Size(b)
  <2> HIDE DEF J
  <2>1. /\ OfCountry(K, b) = {s[i] : i \in D(b)}
        /\ Size(b) = Cardinality(D(b)) /\ Cardinality(D(b)) \in Nat
        /\ \A i \in At(s, b) : i \in J <=> Turn(s)[i] <= Cardinality(D(b))
        /\ Cardinality(D(b)) > 0 => \E i \in D(b) : Turn(s)[i] = Cardinality(D(b))
    BY PoolOfACountry DEF J
  <2> HIDE DEF D, Size
  <2> QED BY <2>1
<1>8. ASSUME NEW b, Size(b) > MaxPerCountry PROVE Cardinality(J) <= UsefulFloor
  <2>1. PICK i \in D(b) : Turn(s)[i] = Size(b)
    <3> HIDE DEF D, Size
    <3> QED BY <1>2, <1>7, <1>8
  <2> HIDE DEF Size, J
  <2> QED BY <2>1, <1>3, <1>8
<1>9. ASSUME NEW b, NEW d, Size(b) > Size(d), OfCountry(K, d) # OfCountry(S, d),
             Size(d) < MaxPerCountry
      PROVE  Size(b) = Size(d) + 1 /\ (d[1] \in ToSet(Nearby) => b[1] \in ToSet(Nearby))
  <2>1. PICK k \in At(s, d) \ J : Turn(s)[k] = Size(d) + 1
    <3> DEFINE Missing == At(s, d) \ J
    <3>1. Missing # {} /\ Missing \in SUBSET (1..n)
      <4>1. OfCountry(S, d) = {s[i] : i \in At(s, d)} /\ At(s, d) \subseteq 1..n
        <5> HIDE DEF n
        <5> QED BY <1>1 DEF OfCountry, At
      <4> HIDE DEF J, K, n
      <4> QED BY <4>1, <1>7, <1>9
    <3> DEFINE k == Min(Missing)
    <3>2. k \in Missing /\ \A j \in Missing : k <= j
      <4> HIDE DEF Missing, n
      <4> QED BY <3>1, <1>1, MinIsMember
    <3>3. Turn(s)[k] > Size(d)
      <4>1. k \in At(s, d) /\ k \notin J
        <5> HIDE DEF k
        <5> QED BY <3>2
      <4>2. Turn(s)[k] \in Nat
        <5>1. k \in 1..n
          <6> HIDE DEF n, k, Missing
          <6> QED BY <3>1, <3>2
        <5> HIDE DEF n, k
        <5> QED BY <5>1, <1>1, TurnsOfACountry
      <4>3. Size(d) \in Nat /\ ~(Turn(s)[k] <= Size(d))
        <5> HIDE DEF k, J, D, K, Size
        <5> QED BY <4>1, <1>7
      <4> HIDE DEF k, Size
      <4> QED BY <4>2, <4>3
    <3>4. Turn(s)[k] <= Size(d) + 1
      <4> DEFINE UpTo == {j \in At(s, CountryBucket(s[k])) : j <= k}
      <4>1. k \in 1..n /\ CountryBucket(s[k]) = d
        <5>1. k \in At(s, d)
          <6> HIDE DEF k
          <6> QED BY <3>2
        <5> HIDE DEF k
        <5> QED BY <5>1, <1>1 DEF At
      <4>2. Turn(s)[k] = Cardinality(UpTo)
        <5> HIDE DEF k, n
        <5> QED BY <4>1, <1>1, TurnsOfACountry
      <4>3. UpTo \subseteq D(d) \cup {k}
        <5> SUFFICES ASSUME NEW j \in At(s, d), j <= k, j # k PROVE j \in J
          BY <4>1
        <5>1. j \in 1..n
          BY <1>1 DEF At
        <5> HIDE DEF k, J, n
        <5> QED BY <5>1, <4>1, <3>2
      <4>4. IsFiniteSet(D(d)) /\ Cardinality(D(d)) = Size(d)
        <5>1. D(d) \subseteq J
          OBVIOUS
        <5> HIDE DEF D, J, Size
        <5> QED BY <5>1, <1>3, <1>7, FS_Subset
      <4>5. IsFiniteSet(D(d) \cup {k}) /\ Cardinality(D(d) \cup {k}) <= Size(d) + 1
        <5> HIDE DEF D, k, Size
        <5> QED BY <4>4, <1>7, FS_AddElement
      <4>6. Cardinality(UpTo) <= Cardinality(D(d) \cup {k}) /\ Cardinality(UpTo) \in Nat
            /\ Cardinality(D(d) \cup {k}) \in Nat
        <5> HIDE DEF UpTo, D, k
        <5> QED BY <4>3, <4>5, FS_Subset, FS_CardinalityType
      <4> HIDE DEF UpTo, D, k, Size
      <4> QED BY <4>2, <4>5, <4>6, <1>7
    <3>5. Turn(s)[k] \in Nat /\ Size(d) \in Nat
      <4>1. k \in 1..n
        <5> HIDE DEF n, k, Missing
        <5> QED BY <3>1, <3>2
      <4>2. Turn(s)[k] \in Nat
        <5> HIDE DEF n, k
        <5> QED BY <4>1, <1>1, TurnsOfACountry
      <4> HIDE DEF Size, K, D, J, k
      <4> QED BY <4>2, <1>7
    <3> HIDE DEF k, Size
    <3>6. Turn(s)[k] = Size(d) + 1
      BY <3>3, <3>4, <3>5
    <3> QED BY <3>2, <3>6
  <2>2. PICK i \in D(b) : Turn(s)[i] = Size(b)
    <3> HIDE DEF D, Size
    <3> QED BY <1>7, <1>9
  <2>3. /\ k \in (1..n) \ J /\ i \in J /\ i \in 1..n
        /\ CountryBucket(s[k]) = d /\ CountryBucket(s[i]) = b
    <3> HIDE DEF J, n
    <3> QED BY <2>1, <2>2, <1>1, <1>3 DEF At
  <2>4. <<k, i>> \notin RoundByRound(s)
    <3>1. Size(d) \in Nat
      <4> HIDE DEF Size, K, D, J
      <4> QED BY <1>7
    <3>2. Turn(s)[k] <= MaxPerCountry
      <4> HIDE DEF Size
      <4> QED BY <3>1, <2>1, <1>2, <1>9
    <3> HIDE DEF J, n
    <3> QED BY <3>2, <2>3, <1>3
  <2>5. ~(Turn(s)[k] < Turn(s)[i]) /\ ~(Turn(s)[k] = Turn(s)[i] /\ Place(s)[k] < Place(s)[i])
    <3> HIDE DEF J, n
    <3> QED BY <2>3, <2>4, <1>1 DEF RoundByRound
  <2>6. Size(b) = Size(d) + 1 /\ Turn(s)[k] = Turn(s)[i]
    <3>1. Size(d) \in Nat /\ Size(b) \in Nat
      <4> HIDE DEF Size, K, D, J
      <4> QED BY <1>7
    <3> HIDE DEF Size
    <3> QED BY <3>1, <2>1, <2>2, <2>5, <1>9
  <2>7. ASSUME d[1] \in ToSet(Nearby), b[1] \notin ToSet(Nearby) PROVE FALSE
    <3>1. s[k].country \in ToSet(Nearby) /\ s[i].country \notin ToSet(Nearby)
      BY <2>3, <2>7 DEF CountryBucket
    <3>2. Place(s)[k] \in DOMAIN Nearby
      <4>1. k \in 1..n
        BY <2>3
      <4> HIDE DEF n
      <4>2. n \in Nat /\ DOMAIN s = 1..n
        BY <1>1
      <4>3. s[k].country \in ToSet(Nearby) =>
              Place(s)[k] \in DOMAIN Nearby /\ Nearby[Place(s)[k]] = s[k].country
        BY ONLY <4>1, <4>2, PlaceOfACountry
      <4> QED BY <4>3, <3>1
    <3>3. \E j \in 1..n : Place(s)[i] = Len(Nearby) + j
      <4>1. i \in 1..n
        BY <2>3
      <4> HIDE DEF n
      <4>2. n \in Nat /\ DOMAIN s = 1..n
        BY <1>1
      <4>3. s[i].country \notin ToSet(Nearby) =>
              \E j \in 1..n : /\ CountryBucket(s[j]) = CountryBucket(s[i])
                             /\ Place(s)[i] = Len(Nearby) + j
        BY ONLY <4>1, <4>2, PlaceOfACountry
      <4> QED BY <4>3, <3>1
    <3>4. Place(s)[k] < Place(s)[i]
      <4>1. DOMAIN Nearby = 1..Len(Nearby) /\ Len(Nearby) \in Nat
        BY RankingAssumption
      <4> HIDE DEF n
      <4> QED BY <3>2, <3>3, <4>1, <1>1
    <3> QED BY <3>4, <2>5, <2>6
  <2> HIDE DEF Size
  <2> QED BY <2>6, <2>7
<1>10. ASSUME NEW x \in K, NEW y \in S \ K, CountryBucket(x) = CountryBucket(y)
       PROVE  ~Faster(y, x)
  <2>1. PICK i \in J : x = s[i]
    OBVIOUS
  <2>2. PICK k \in 1..n : y = s[k]
    <3> HIDE DEF n
    <3> QED BY <1>1
  <2>3. k \notin J
    BY <2>2
  <2> HIDE DEF J, K, n
  <2>4. i < k
    <3>1. ~(k < i) /\ k # i /\ i \in 1..n
      BY <2>1, <2>2, <2>3, <1>3, <1>10
    <3> QED BY <3>1
  <2>5. ~RankedBefore(y, x)
    BY <2>1, <2>2, <2>4, <1>1, <1>3 DEF IsRanked
  <2>6. Comparable(x) /\ Comparable(y)
    BY <2>1, <2>2, <1>1, <1>3 DEF IsPool
  <2> QED BY <2>5, <2>6, FasterIsAsymmetric DEF RankedBefore, SameSpeed
<1>11. \A b, d : (\/ Size(b) > Size(d) + 1
                  \/ (Size(b) > Size(d) /\ d[1] \in ToSet(Nearby) /\ b[1] \notin ToSet(Nearby)))
                 => (OfCountry(K, d) = OfCountry(S, d) \/ Size(d) >= MaxPerCountry)
  <2> SUFFICES ASSUME NEW b, NEW d, Size(b) > Size(d),
                      OfCountry(K, d) # OfCountry(S, d), ~(Size(d) >= MaxPerCountry)
               PROVE  /\ ~(Size(b) > Size(d) + 1)
                      /\ d[1] \in ToSet(Nearby) => b[1] \in ToSet(Nearby)
    <3>1. \A b, d : Size(b) \in Nat /\ Size(d) \in Nat
      <4> HIDE DEF Size
      <4> QED BY <1>7
    <3> HIDE DEF Size, K
    <3> QED BY <3>1
  <2>1. Size(b) \in Nat /\ Size(d) \in Nat
    <3> HIDE DEF Size
    <3> QED BY <1>7
  <2> HIDE DEF Size, K
  <2>2. Size(d) < MaxPerCountry
    BY <2>1, <1>2
  <2> QED BY <2>1, <2>2, <1>9
<1>12. /\ Len(c) <= PoolCap
       /\ Len(c) >= Least(PoolCap, Least(UsefulFloor, Cardinality(S)))
  BY <1>3, <1>6
<1>13. \A b : Cardinality(OfCountry(ToSet(c), b)) > MaxPerCountry => Len(c) <= UsefulFloor
  <2> HIDE DEF K, J
  <2> QED BY <1>6, <1>8
<1>14. \A x \in ToSet(c), y \in S \ ToSet(c) : CountryBucket(x) = CountryBucket(y) => ~Faster(y, x)
  <2> HIDE DEF K, J
  <2> QED BY <1>6, <1>10
<1> QED BY <1>6, <1>11, <1>12, <1>13, <1>14 DEF SharesThePool

-----------------------------------------------------------------------------
(* The catalog.                                                            *)

\* The pool is sorted as the servers were.
LEMMA PoolOfServers ==
  ASSUME NEW S, IsPool(S), NEW s, IsSorting(s, S)
  PROVE  IsPool(DiverseCountryPool(s, PoolCap, MaxPerCountry))
<1> DEFINE n == Cardinality(S)
           J == Pooled(s, PoolCap, MaxPerCountry)
           K == {s[i] : i \in J}
<1>1. n \in Nat /\ DOMAIN s = 1..n /\ Len(s) = n /\ s \in [1..n -> S]
  BY FS_CardinalityType DEF IsPool, IsSorting
<1>2. PoolCap \in Nat \ {0} /\ MaxPerCountry \in Nat \ {0}
  BY RankingAssumption
<1>3. J \subseteq 1..n
  <2> HIDE DEF n
  <2> QED BY <1>1, <1>2, PooledPositions
<1>4. K \subseteq S
  <2> HIDE DEF J, n
  <2> QED BY <1>1, <1>3
<1>5. IsPool(K)
  <2> HIDE DEF K
  <2> QED BY <1>4, FS_Subset DEF IsPool, OneServerForEachRoute
<1> QED BY <1>5 DEF DiverseCountryPool

\* The catalog of some offers is one sequence: the sorting of the pool of the sorting
\* of one server for each route.
THEOREM CatalogHasOneResult ==
  ASSUME NEW X, \A x \in X : IsServer(x), NEW c \in Seq(X), NEW default
  PROVE  /\ IsPool(Unique(c, default))
         /\ \E ranked, listed :
              /\ Catalogs(c, default) = {listed}
              /\ IsSorting(ranked, Unique(c, default))
              /\ IsSorting(listed, DiverseCountryPool(ranked, PoolCap, MaxPerCountry))
<1> DEFINE U == Unique(c, default)
           Pool(ranked) == DiverseCountryPool(ranked, PoolCap, MaxPerCountry)
<1>1. IsPool(U)
  <2>1. /\ U \subseteq {Labelled(x, default) : x \in ToSet(c)}
        /\ IsFiniteSet(U) /\ OneServerForEachRoute(U)
    BY UniqueKeepsTheBest
  <2>2. ASSUME NEW x \in ToSet(c) PROVE Comparable(Labelled(x, default))
    <3>1. x \in X
      BY DEF ToSet
    <3> QED BY <3>1, LabelledServer
  <2> HIDE DEF U
  <2> QED BY <2>1, <2>2 DEF IsPool
<1> HIDE DEF U
<1>2. PICK ranked : Arrangements(U) = {ranked} /\ IsSorting(ranked, U)
  BY <1>1, SortHasOneResult
<1>3. IsPool(Pool(ranked))
  BY <1>1, <1>2, PoolOfServers
<1>4. PICK listed : Arrangements(Pool(ranked)) = {listed} /\ IsSorting(listed, Pool(ranked))
  <2> HIDE DEF Pool
  <2> QED BY <1>3, SortHasOneResult
<1>5. Catalogs(c, default) = UNION {Arrangements(Pool(r)) : r \in {ranked}}
  BY <1>2 DEF Catalogs, U
<1>6. Catalogs(c, default) = {listed}
  <2> HIDE DEF Pool
  <2> QED BY <1>4, <1>5
<1> QED BY <1>1, <1>2, <1>4, <1>6 DEF U

\* Sets of servers that may be exchanged for each other.
AreSimilar(S, T) ==
  /\ \A x \in S : \E y \in T : Similar(x, y)
  /\ \A y \in T : \E x \in S : Similar(x, y)

\* They are as many, and sorting puts similar servers in the same places.
LEMMA SimilarSortings ==
  ASSUME NEW S, NEW T, IsPool(S), IsPool(T), AreSimilar(S, T),
         NEW s, IsSorting(s, S), NEW t, IsSorting(t, T)
  PROVE  /\ Cardinality(S) = Cardinality(T)
         /\ \A i \in 1..Cardinality(S) : Similar(s[i], t[i])
<1> DEFINE n == Cardinality(S)
           u == [i \in 1..n |-> CHOOSE y \in T : Similar(s[i], y)]
<1>1. n \in Nat /\ s \in [1..n -> S] /\ IsInjective(s) /\ IsRanked(s)
      /\ \A x \in S : \E k \in 1..n : s[k] = x
  BY FS_CardinalityType DEF IsPool, IsSorting
<1>2. ASSUME NEW i \in 1..n PROVE u[i] \in T /\ Similar(s[i], u[i])
  <2>1. \E y \in T : Similar(s[i], y)
    BY <1>1 DEF AreSimilar
  <2> QED BY <2>1
<1>3. u \in [1..n -> T] /\ DOMAIN u = 1..n
  <2>1. u = [i \in 1..n |-> u[i]]
    OBVIOUS
  <2> HIDE DEF u, n
  <2> QED BY <1>2, <2>1
<1> HIDE DEF u, n
<1>4. IsInjective(u)
  <2> SUFFICES ASSUME NEW i \in 1..n, NEW j \in 1..n, u[i] = u[j] PROVE i = j
    BY <1>3 DEF IsInjective
  <2>1. s[i].route = s[j].route
    BY <1>2 DEF Similar
  <2>2. s[i] = s[j]
    BY <1>1, <2>1 DEF IsPool, OneServerForEachRoute
  <2> QED BY <1>1, <2>2 DEF IsInjective
<1>5. ASSUME NEW y \in T PROVE \E k \in 1..n : u[k] = y
  <2>1. PICK x \in S : Similar(x, y)
    BY DEF AreSimilar
  <2>2. PICK k \in 1..n : s[k] = x
    BY <1>1
  <2>3. u[k].route = y.route
    BY <1>2, <2>1, <2>2 DEF Similar
  <2> QED BY <1>2, <2>3 DEF IsPool, OneServerForEachRoute
<1>6. IsRanked(u)
  <2> SUFFICES ASSUME NEW i \in 1..n, NEW j \in 1..n, i < j, RankedBefore(u[j], u[i])
               PROVE  FALSE
    BY <1>3 DEF IsRanked
  <2>1. Similar(s[i], u[i]) /\ Similar(s[j], u[j])
    BY <1>2
  <2>2. RankedBefore(s[j], s[i])
    BY <2>1 DEF Similar, RankedBefore, SameSpeed, Faster, QualityBand, LatencyRank
  <2> QED BY <2>2, <1>1 DEF IsRanked
<1>7. Cardinality(T) = n
  <2>1. u \in Injection(1..n, T) /\ u \in Surjection(1..n, T)
    BY <1>3, <1>4, <1>5 DEF Injection, Surjection, IsInjective
  <2>2. IsFiniteSet(1..n) /\ Cardinality(1..n) = n
    BY <1>1, FS_Interval
  <2> QED BY <2>1, <2>2, FS_Surjection
<1>8. /\ t \in [1..n -> T] /\ IsInjective(t) /\ IsRanked(t)
      /\ \A y \in T : \E k \in 1..n : t[k] = y
  BY <1>7 DEF IsSorting
<1>9. u = t
  <2>1. \A y \in T : Comparable(y)
    BY DEF IsPool
  <2>2. \A x, y \in T : x.route = y.route => x = y
    BY DEF IsPool, OneServerForEachRoute
  <2>3. \A y \in T : \E k \in 1..n : u[k] = y
    BY <1>5
  <2>4. n \in Nat /\ u \in [1..n -> T] /\ t \in [1..n -> T]
    BY <1>1, <1>3, <1>8
  <2>5. IsInjective(t) /\ IsRanked(t) /\ \A y \in T : \E k \in 1..n : t[k] = y
    BY <1>8
  <2> QED BY ONLY <1>4, <1>6, <2>1, <2>2, <2>3, <2>4, <2>5, SortIsDetermined
<1> QED BY <1>2, <1>7, <1>9 DEF n

\* The pool is chosen by routes and countries, position by position.
LEMMA PooledAlike ==
  ASSUME NEW n \in Nat, NEW s, DOMAIN s = 1..n, Len(s) = n,
         NEW t, DOMAIN t = 1..n, Len(t) = n, \A i \in 1..n : Similar(s[i], t[i]),
         NEW limit, NEW cap
  PROVE  Pooled(s, limit, cap) = Pooled(t, limit, cap)
<1>1. \A i \in 1..n : CountryBucket(s[i]) = CountryBucket(t[i]) /\ s[i].country = t[i].country
  BY DEF Similar, CountryBucket
<1>2. Turn(s) = Turn(t)
  <2>1. ASSUME NEW i \in 1..n
        PROVE  {j \in 1..i : CountryBucket(s[j]) = CountryBucket(s[i])} =
               {j \in 1..i : CountryBucket(t[j]) = CountryBucket(t[i])}
    <3>1. 1..i \subseteq 1..n
      OBVIOUS
    <3> QED BY <1>1, <3>1
  <2> QED BY <2>1 DEF Turn
<1>3. Place(s) = Place(t)
  <2>1. ASSUME NEW i \in 1..n
        PROVE  {j \in 1..n : CountryBucket(s[j]) = CountryBucket(s[i])} =
               {j \in 1..n : CountryBucket(t[j]) = CountryBucket(t[i])}
    BY <1>1
  <2> DEFINE W(country, first) == IF country \in ToSet(Nearby)
                                    THEN CHOOSE k \in DOMAIN Nearby : Nearby[k] = country
                                    ELSE Len(Nearby) + Min(first)
             B(r, i) == {j \in 1..n : CountryBucket(r[j]) = CountryBucket(r[i])}
  <2>2. /\ Place(s) = [i \in 1..n |-> W(s[i].country, B(s, i))]
        /\ Place(t) = [i \in 1..n |-> W(t[i].country, B(t, i))]
    BY DEF Place
  <2>3. \A i \in 1..n : s[i].country = t[i].country /\ B(s, i) = B(t, i)
    BY <1>1, <2>1
  <2> HIDE DEF W, B
  <2> QED BY <2>2, <2>3
<1>4. RoundByRound(s) = RoundByRound(t) /\ Due(s, cap) = Due(t, cap)
  BY <1>2, <1>3 DEF RoundByRound, Due
<1> QED BY <1>4 DEF Pooled

\* The server kept for a route does not depend on the order of the offers.
LEMMA UniqueAlike ==
  ASSUME NEW X, \A x \in X : IsServer(x) /\ x.latency \in Nat,
         NEW c \in Seq(X), NEW d \in Seq(X), ToSet(c) = ToSet(d), CountriesAgree(ToSet(c)),
         NEW default
  PROVE  \A s \in Unique(c, default) : \E t \in Unique(d, default) : Similar(s, t)
<1> SUFFICES ASSUME NEW s \in Unique(c, default)
             PROVE  \E t \in Unique(d, default) : Similar(s, t)
  OBVIOUS
<1>1. PICK x \in ToSet(c) : s = Labelled(x, default)
  BY UniqueKeepsTheBest
<1>2. PICK t \in Unique(d, default) : t.route = x.route /\ ~Better(s, t)
  BY <1>1, UniqueKeepsTheBest
<1>3. PICK y \in ToSet(c) : t = Labelled(y, default)
  BY UniqueKeepsTheBest
<1>4. PICK r \in Unique(c, default) : r.route = y.route /\ ~Better(t, r)
  BY <1>3, UniqueKeepsTheBest
<1>5. x \in X /\ y \in X
  BY DEF ToSet
<1>6. /\ s.route = x.route /\ s.latency = x.latency /\ s.speed = x.speed
      /\ s.country = x.country /\ Comparable(s)
  BY <1>1, <1>5, LabelledServer
<1>7. /\ t.route = y.route /\ t.latency = y.latency /\ t.speed = y.speed
      /\ t.country = y.country /\ Comparable(t)
  BY <1>3, <1>5, LabelledServer
<1>8. r = s
  <2>1. OneServerForEachRoute(Unique(c, default))
    BY UniqueKeepsTheBest
  <2> QED BY <2>1, <1>2, <1>4, <1>6, <1>7 DEF OneServerForEachRoute
<1>9. ~Faster(s, t) /\ ~Faster(t, s) /\ (s.source \in Curated <=> t.source \in Curated)
  BY <1>2, <1>4, <1>8 DEF Better, SameSpeed, PreferredSource
<1>10. s.latency \in Nat /\ t.latency \in Nat /\ s.speed \in Int /\ t.speed \in Int
  BY <1>5, <1>6, <1>7 DEF Comparable
<1>11. s.latency = t.latency /\ s.speed = t.speed
  BY <1>9, <1>10 DEF Faster, QualityBand, LatencyRank, HighLatency, LowSpeed, MaxInt
<1>12. x.country = y.country
  <2>1. SameSpeed(x, y)
    BY <1>6, <1>7, <1>11 DEF SameSpeed, Faster, QualityBand, LatencyRank
  <2> QED BY <2>1, <1>2, <1>7 DEF CountriesAgree
<1> QED BY <1>2, <1>6, <1>7, <1>9, <1>11, <1>12 DEF Similar

\* The order in which results arrive does not show: the same offers in another order
\* give the same catalog, but for labels of offers that are both curated or both not.
THEOREM OrderOfOffersDoesNotShow ==
  ASSUME NEW X, \A x \in X : IsServer(x) /\ x.latency \in Nat,
         NEW c \in Seq(X), NEW d \in Seq(X), ToSet(c) = ToSet(d), CountriesAgree(ToSet(c)),
         NEW default, NEW p \in Catalogs(c, default), NEW q \in Catalogs(d, default)
  PROVE  Len(p) = Len(q) /\ \A i \in DOMAIN p : Similar(p[i], q[i])
<1> DEFINE S == Unique(c, default)
           T == Unique(d, default)
           J(s) == Pooled(s, PoolCap, MaxPerCountry)
           K(s) == {s[i] : i \in J(s)}
<1>1. \A x \in X : IsServer(x)
  OBVIOUS
<1>2. PICK s : /\ IsSorting(s, S)
               /\ IsSorting(p, DiverseCountryPool(s, PoolCap, MaxPerCountry))
  BY <1>1, CatalogHasOneResult
<1>3. PICK t : /\ IsSorting(t, T)
               /\ IsSorting(q, DiverseCountryPool(t, PoolCap, MaxPerCountry))
  BY <1>1, CatalogHasOneResult
<1>4. IsPool(S) /\ IsPool(T)
  BY <1>1, CatalogHasOneResult
<1>5. AreSimilar(S, T)
  <2>1. \A x \in S : \E y \in T : Similar(x, y)
    BY UniqueAlike
  <2>2. \A y \in T : \E x \in S : Similar(y, x)
    BY UniqueAlike
  <2> HIDE DEF S, T
  <2> QED BY <2>1, <2>2 DEF AreSimilar, Similar
<1> HIDE DEF S, T
<1>6. PICK n \in Nat : /\ DOMAIN s = 1..n /\ Len(s) = n /\ DOMAIN t = 1..n /\ Len(t) = n
                       /\ \A i \in 1..n : Similar(s[i], t[i])
  <2>1. /\ Cardinality(S) = Cardinality(T)
        /\ \A i \in 1..Cardinality(S) : Similar(s[i], t[i])
    BY <1>2, <1>3, <1>4, <1>5, SimilarSortings
  <2>2. Cardinality(S) \in Nat
    BY <1>4, FS_CardinalityType DEF IsPool
  <2> QED BY <2>1, <2>2, <1>2, <1>3 DEF IsSorting
<1>7. J(s) = J(t) /\ J(s) \subseteq 1..n
  <2>1. PoolCap \in Nat \ {0} /\ MaxPerCountry \in Nat \ {0}
    BY RankingAssumption
  <2>2. J(s) = J(t)
    BY <1>6, PooledAlike
  <2>3. J(s) \subseteq 1..n
    BY <1>6, <2>1, PooledPositions
  <2> QED BY <2>2, <2>3
<1>8. AreSimilar(K(s), K(t))
  <2> HIDE DEF J
  <2> QED BY <1>6, <1>7 DEF AreSimilar
<1>9. IsPool(K(s)) /\ IsPool(K(t)) /\ IsSorting(p, K(s)) /\ IsSorting(q, K(t))
  <2>1. IsPool(DiverseCountryPool(s, PoolCap, MaxPerCountry))
    BY <1>2, <1>4, PoolOfServers
  <2>2. IsPool(DiverseCountryPool(t, PoolCap, MaxPerCountry))
    BY <1>3, <1>4, PoolOfServers
  <2> QED BY <2>1, <2>2, <1>2, <1>3 DEF DiverseCountryPool
<1> HIDE DEF K
<1>10. /\ Cardinality(K(s)) = Cardinality(K(t))
       /\ \A i \in 1..Cardinality(K(s)) : Similar(p[i], q[i])
  BY <1>8, <1>9, SimilarSortings
<1>11. Cardinality(K(s)) \in Nat
  BY <1>9, FS_CardinalityType DEF IsPool
<1> QED BY <1>9, <1>10, <1>11 DEF IsSorting
=============================================================================
