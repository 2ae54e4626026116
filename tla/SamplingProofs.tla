--------------------------- MODULE SamplingProofs --------------------------
(***************************************************************************)
(* The selection of a worker, for any limit, feeds and hour: it fills the  *)
(* worker without probing a route twice, gives every curated source its    *)
(* turn, reaches every route in time and never repeats itself.             *)
(*                                                                         *)
(* The loops of the model are folds.  As in RankingProofs, FoldExists      *)
(* gives a fold the function that its definition chooses, and Induction    *)
(* stands for an induction over its steps.                                 *)
(***************************************************************************)
EXTENDS Sampling, FiniteSetTheorems, SequenceTheorems, WellFoundedInduction, TLAPS

(* Induction, and the loops that folds stand for.                          *)

\* Induction up to n, over the set of numbers that have the property.
LEMMA Induction ==
  ASSUME NEW n \in Nat, NEW Good, 0 \in Good, \A k \in 1..n : k - 1 \in Good => k \in Good
  PROVE  0..n \subseteq Good
<1> DEFINE Bad == (0..n) \ Good
<1> SUFFICES ASSUME Bad # {} PROVE FALSE
  OBVIOUS
<1>1. Bad \subseteq Nat
  OBVIOUS
<1>2. PICK k \in Bad : \A j \in Bad : <<j, k>> \notin OpToRel(<, Nat)
  <2> HIDE DEF Bad
  <2> QED BY <1>1, NatLessThanWellFounded, WFMin
<1>3. k \in 1..n /\ k - 1 \in 0..n
  OBVIOUS
<1>4. k - 1 \in Bad
  BY <1>3
<1>5. k - 1 < k /\ k - 1 \in Nat /\ k \in Nat
  BY <1>3
<1> HIDE DEF Bad
<1> QED BY <1>2, <1>4, <1>5, Zenon DEF OpToRel

\* The largest of the first m positions.
LEMMA MaxOfInterval ==
  ASSUME NEW m \in Nat \ {0}, NEW s \in SUBSET (1..m), m \in s
  PROVE  Max(s) = m
<1> DEFINE IsMax(x) == x \in s /\ \A y \in s : x >= y
<1>1. IsMax(m)
  OBVIOUS
<1>2. \A x : IsMax(x) => x = m
  OBVIOUS
<1>3. Max(s) = CHOOSE x : IsMax(x)
  BY DEF Max
<1> HIDE DEF IsMax
<1> QED BY <1>1, <1>2, <1>3

\* A set of positions has a last one.
LEMMA MaxIsMember ==
  ASSUME NEW n \in Nat, NEW s \in SUBSET (1..n), s # {}
  PROVE  Max(s) \in s /\ \A y \in s : Max(s) >= y
<1> DEFINE HasMax(t) == \E x \in t : \A y \in t : x >= y
           Good == {m \in 0..n : \A t \in SUBSET (1..m) : t # {} => HasMax(t)}
<1>1. 0 \in Good
  <2>1. 1..0 = {}
    OBVIOUS
  <2> SUFFICES ASSUME NEW t \in SUBSET (1..0), t # {} PROVE HasMax(t)
    OBVIOUS
  <2> QED BY <2>1
<1>2. ASSUME NEW m \in 1..n, m - 1 \in Good PROVE m \in Good
  <2> SUFFICES ASSUME NEW t \in SUBSET (1..m), t # {} PROVE HasMax(t)
    OBVIOUS
  <2>1. CASE m \in t
    BY <2>1
  <2>2. CASE m \notin t
    <3>1. t \in SUBSET (1..(m - 1))
      BY <2>2
    <3> HIDE DEF HasMax
    <3> QED BY <3>1, <1>2
  <2> QED BY <2>1, <2>2
<1>3. 0..n \subseteq Good
  <2> HIDE DEF Good
  <2> QED BY <1>1, <1>2, Induction
<1>4. HasMax(s)
  <2> HIDE DEF HasMax
  <2> QED BY <1>3
<1> QED BY <1>4 DEF Max


\* One step of a loop over the positions 1..n whose states are in S, and the fold of
\* these steps from a base: its value at 1..k is the state after k positions.
IsStep(step, S, n) == step \in [S \X (1..n) -> S]

IsFold(it, S, base, step, n) ==
  /\ it \in [SUBSET (1..n) -> S]
  /\ it[{}] = base
  /\ \A s \in SUBSET (1..n) : s # {} => it[s] = step[<<it[s \ {Max(s)}], Max(s)>>]

\* The fold of any step exists.
LEMMA FoldExists ==
  ASSUME NEW n \in Nat, NEW S, NEW base \in S, NEW step, IsStep(step, S, n)
  PROVE  \E it : IsFold(it, S, base, step, n)
<1> DEFINE Fold(it, m) == /\ it[{}] = base
                          /\ \A s \in SUBSET (1..m) :
                               s # {} => it[s] = step[<<it[s \ {Max(s)}], Max(s)>>]
           Good == {m \in 0..n : \E it \in [SUBSET (1..m) -> S] : Fold(it, m)}
<1>0. step \in [S \X (1..n) -> S]
  BY DEF IsStep
<1>1. 0 \in Good
  <2>1. 1..0 = {}
    OBVIOUS
  <2>2. [s \in SUBSET (1..0) |-> base] \in [SUBSET (1..0) -> S]
    OBVIOUS
  <2>3. Fold([s \in SUBSET (1..0) |-> base], 0)
    BY <2>1
  <2> HIDE DEF Fold
  <2> QED BY <2>2, <2>3
<1>2. ASSUME NEW m \in 1..n, m - 1 \in Good PROVE m \in Good
  <2>1. PICK it \in [SUBSET (1..(m - 1)) -> S] : Fold(it, m - 1)
    BY <1>2
  <2> DEFINE next == [s \in SUBSET (1..m) |->
                        IF m \in s THEN step[<<it[s \ {m}], m>>] ELSE it[s]]
  <2>2. ASSUME NEW s \in SUBSET (1..m)
        PROVE  /\ s \ {m} \in SUBSET (1..(m - 1))
               /\ m \notin s => s \in SUBSET (1..(m - 1))
    OBVIOUS
  <2>3. next \in [SUBSET (1..m) -> S]
    <3> SUFFICES ASSUME NEW s \in SUBSET (1..m)
                 PROVE (IF m \in s THEN step[<<it[s \ {m}], m>>] ELSE it[s]) \in S
      OBVIOUS
    <3>1. CASE m \in s
      <4>1. it[s \ {m}] \in S
        BY <2>2
      <4> QED BY <4>1, <3>1, <1>0
    <3>2. CASE m \notin s
      BY <2>2, <3>2
    <3> QED BY <3>1, <3>2
  <2>4. Fold(next, m)
    <3> SUFFICES ASSUME NEW s \in SUBSET (1..m), s # {}
                 PROVE  next[s] = step[<<next[s \ {Max(s)}], Max(s)>>]
      <4>1. next[{}] = base
        BY <2>1
      <4> QED BY <4>1
    <3>1. CASE m \in s
      <4>1. Max(s) = m
        BY <3>1, MaxOfInterval
      <4>2. next[s \ {m}] = it[s \ {m}]
        OBVIOUS
      <4> QED BY <4>1, <4>2, <3>1
    <3>2. CASE m \notin s
      <4>1. s \in SUBSET (1..(m - 1))
        BY <2>2, <3>2
      <4>2. it[s] = step[<<it[s \ {Max(s)}], Max(s)>>]
        BY <4>1, <2>1
      <4>3. next[s \ {Max(s)}] = it[s \ {Max(s)}]
        BY <3>2
      <4> QED BY <4>2, <4>3, <3>2
    <3> QED BY <3>1, <3>2
  <2> HIDE DEF next, Fold
  <2> QED BY <2>3, <2>4
<1>3. 0..n \subseteq Good
  <2> HIDE DEF Good
  <2> QED BY <1>1, <1>2, Induction
<1>4. n \in Good
  <2> HIDE DEF Good
  <2> QED BY <1>3
<1>5. \E it \in [SUBSET (1..n) -> S] : Fold(it, n)
  <2> HIDE DEF Fold
  <2> QED BY <1>4
<1> QED BY <1>5 DEF IsFold

-----------------------------------------------------------------------------
\* The first k positions, as a fold takes them.
LEMMA FirstPositions ==
  ASSUME NEW n \in Nat, NEW k \in 1..n
  PROVE  /\ Max(1..k) = k /\ (1..k) \ {k} = 1..(k - 1) /\ 1..k # {}
         /\ 1..k \in SUBSET (1..n) /\ 1..(k - 1) \in SUBSET (1..n)
<1>1. k \in Nat \ {0} /\ 1..k \in SUBSET (1..k) /\ k \in 1..k
  OBVIOUS
<1>2. Max(1..k) = k
  BY <1>1, MaxOfInterval
<1>3. (1..k) \ {k} = 1..(k - 1)
  OBVIOUS
<1>4. 1..k \in SUBSET (1..n) /\ 1..(k - 1) \in SUBSET (1..n)
  OBVIOUS
<1> QED BY <1>1, <1>2, <1>3, <1>4

-----------------------------------------------------------------------------
(* Lists of candidates.                                                    *)

\* A list that names no route twice.
Distinct(s) == \A i, j \in DOMAIN s : s[i].route = s[j].route => i = j

\* Such a list has as many routes as places.
LEMMA LengthOfRoutes ==
  ASSUME NEW X, NEW s \in Seq(X), Distinct(s)
  PROVE  IsFiniteSet(RoutesOf(s)) /\ Cardinality(RoutesOf(s)) = Len(s)
<1> DEFINE n == Len(s)
           g == [i \in 1..n |-> s[i].route]
           T == {s[i].route : i \in 1..n}
<1>1. g \in Injection(1..n, T) /\ g \in Surjection(1..n, T)
  BY DEF Injection, Surjection, IsInjective, Distinct
<1>2. n \in Nat /\ IsFiniteSet(1..n) /\ Cardinality(1..n) = n
  <2>1. n \in Nat /\ 1 \in Int /\ n \in Int
    OBVIOUS
  <2> HIDE DEF n
  <2>2. IsFiniteSet(1..n) /\ Cardinality(1..n) = IF 1 > n THEN 0 ELSE n - 1 + 1
    BY <2>1, FS_Interval
  <2> QED BY <2>1, <2>2
<1>3. RoutesOf(s) = T
  BY DEF RoutesOf, ToSet
<1> HIDE DEF g, T, n
<1>4. IsFiniteSet(T) /\ Cardinality(T) = Cardinality(1..n)
  BY <1>1, <1>2, FS_Surjection
<1> QED BY <1>2, <1>3, <1>4 DEF n

\* The loop of Those, after each candidate.
LEMMA ThoseLoop ==
  ASSUME NEW X, NEW c \in Seq(X), NEW chosen
  PROVE  \E f : /\ f[0] = <<>>
                /\ \A k \in 1..Len(c) :
                     f[k] = IF c[k] \in chosen THEN Append(f[k - 1], c[k]) ELSE f[k - 1]
                /\ Those(c, chosen) = f[Len(c)]
<1> DEFINE n == Len(c)
           S == Seq(X)
           Add(sofar, x) == IF x \in chosen THEN Append(sofar, x) ELSE sofar
           step == [p \in S \X (1..n) |-> Add(p[1], c[p[2]])]
           Fold(it) == it = [s \in SUBSET DOMAIN c |->
                               IF s = {} THEN <<>> ELSE Add(it[s \ {Max(s)}], c[Max(s)])]
<1>1. n \in Nat /\ DOMAIN c = 1..n /\ <<>> \in S
  OBVIOUS
<1>2. IsStep(step, S, n)
  BY DEF IsStep
<1>3. PICK it : IsFold(it, S, <<>>, step, n)
  <2> HIDE DEF n, S, step
  <2> QED BY <1>1, <1>2, FoldExists
<1>4. ASSUME NEW s \in SUBSET (1..n)
      PROVE  it[s] = IF s = {} THEN <<>> ELSE Add(it[s \ {Max(s)}], c[Max(s)])
  <2>1. CASE s = {}
    BY <2>1, <1>3 DEF IsFold
  <2>2. CASE s # {}
    <3>1. Max(s) \in 1..n /\ it[s \ {Max(s)}] \in S
      BY <2>2, <1>1, <1>3, MaxIsMember DEF IsFold
    <3> HIDE DEF S, Add
    <3> QED BY <3>1, <2>2, <1>3 DEF IsFold
  <2> QED BY <2>1, <2>2
<1>5. Fold(it)
  <2> HIDE DEF S, step, Add
  <2> QED BY <1>1, <1>3, <1>4 DEF IsFold
<1>6. Those(c, chosen) = (CHOOSE it2 : Fold(it2))[DOMAIN c]
  BY DEF Those, FoldLeft, MapThenFoldSet
<1>7. PICK g : Fold(g) /\ Those(c, chosen) = g[1..n]
  <2> HIDE DEF Fold, n
  <2> QED BY <1>1, <1>5, <1>6
<1> DEFINE f == [k \in 0..n |-> g[1..k]]
<1>8. f[0] = <<>>
  BY <1>1, <1>7
<1>9. ASSUME NEW k \in 1..n PROVE f[k] = Add(f[k - 1], c[k])
  <2>1. g[1..k] = Add(g[1..(k - 1)], c[k])
    <3>1. /\ Max(1..k) = k /\ (1..k) \ {k} = 1..(k - 1) /\ 1..k # {}
          /\ 1..k \in SUBSET DOMAIN c
      <4> HIDE DEF n
      <4> QED BY <1>1, FirstPositions
    <3> HIDE DEF Add
    <3> QED BY <1>7, <3>1
  <2> HIDE DEF Add
  <2> QED BY <2>1, <1>1
<1>10. Those(c, chosen) = f[n]
  BY <1>1, <1>7
<1> QED BY <1>8, <1>9, <1>10

\* What appending a candidate does to a list.
LEMMA Appended ==
  ASSUME NEW X, NEW s \in Seq(X), NEW x \in X
  PROVE  /\ Append(s, x) \in Seq(X) /\ Len(Append(s, x)) = Len(s) + 1
         /\ ToSet(Append(s, x)) = ToSet(s) \cup {x}
         /\ Distinct(s) /\ x.route \notin RoutesOf(s) => Distinct(Append(s, x))
<1> DEFINE n == Len(s)
           t == Append(s, x)
<1>1. /\ t \in Seq(X) /\ n \in Nat /\ Len(t) = n + 1
      /\ DOMAIN t = 1..(n + 1) /\ DOMAIN s = 1..n
      /\ t[n + 1] = x /\ \A i \in 1..n : t[i] = s[i]
  OBVIOUS
<1> HIDE DEF n, t
<1>2. ToSet(t) = ToSet(s) \cup {x}
  <2>1. 1..(n + 1) = 1..n \cup {n + 1}
    BY <1>1
  <2> QED BY <1>1, <2>1 DEF ToSet
<1>3. ASSUME Distinct(s), x.route \notin RoutesOf(s) PROVE Distinct(t)
  <2>1. \A i \in 1..n : t[i].route # x.route
    BY <1>1, <1>3 DEF RoutesOf, ToSet
  <2>2. 1..(n + 1) = 1..n \cup {n + 1}
    BY <1>1
  <2> QED BY <1>1, <1>3, <2>1, <2>2 DEF Distinct
<1> QED BY <1>1, <1>2, <1>3 DEF n, t

\* What one list after another is.
LEMMA Joined ==
  ASSUME NEW X, NEW s \in Seq(X), NEW t \in Seq(X)
  PROVE  /\ s \o t \in Seq(X) /\ Len(s \o t) = Len(s) + Len(t)
         /\ ToSet(s \o t) = ToSet(s) \cup ToSet(t)
         /\ Distinct(s) /\ Distinct(t) /\ RoutesOf(s) \cap RoutesOf(t) = {}
              => Distinct(s \o t)
<1> DEFINE m == Len(s)
           n == Len(t)
           u == s \o t
<1>1. /\ u \in Seq(X) /\ m \in Nat /\ n \in Nat /\ Len(u) = m + n
      /\ DOMAIN u = 1..(m + n) /\ DOMAIN s = 1..m /\ DOMAIN t = 1..n
  OBVIOUS
<1>2. (\A i \in 1..m : u[i] = s[i]) /\ (\A i \in 1..n : u[m + i] = t[i])
  OBVIOUS
<1> HIDE DEF m, n, u
<1>3. \A i \in 1..(m + n) : i \in 1..m \/ (i - m \in 1..n /\ i = m + (i - m))
  BY <1>1
<1>4. ToSet(u) = ToSet(s) \cup ToSet(t)
  <2>1. \A i \in 1..m : i \in 1..(m + n)
    BY <1>1
  <2>2. \A i \in 1..n : m + i \in 1..(m + n)
    BY <1>1
  <2>3. ASSUME NEW x \in ToSet(u) PROVE x \in ToSet(s) \cup ToSet(t)
    <3>1. PICK i \in 1..(m + n) : x = u[i]
      BY <1>1 DEF ToSet
    <3> QED BY <3>1, <1>1, <1>2, <1>3 DEF ToSet
  <2>4. ToSet(s) \subseteq ToSet(u) /\ ToSet(t) \subseteq ToSet(u)
    BY <1>1, <1>2, <2>1, <2>2 DEF ToSet
  <2> QED BY <2>3, <2>4
<1>5. ASSUME Distinct(s), Distinct(t), RoutesOf(s) \cap RoutesOf(t) = {}
      PROVE  Distinct(u)
  <2>1. \A i \in 1..m, j \in 1..n : s[i].route # t[j].route
    BY <1>1, <1>5 DEF RoutesOf, ToSet
  <2> SUFFICES ASSUME NEW i \in 1..(m + n), NEW j \in 1..(m + n),
                      u[i].route = u[j].route
               PROVE  i = j
    BY <1>1 DEF Distinct
  <2>2. CASE i \in 1..m /\ j \in 1..m
    BY <2>2, <1>1, <1>2, <1>5 DEF Distinct
  <2>3. CASE i \in 1..m /\ j \notin 1..m
    BY <2>1, <2>3, <1>2, <1>3
  <2>4. CASE i \notin 1..m /\ j \in 1..m
    BY <2>1, <2>4, <1>2, <1>3
  <2>5. CASE i \notin 1..m /\ j \notin 1..m
    <3>1. /\ i - m \in 1..n /\ u[i] = t[i - m]
          /\ j - m \in 1..n /\ u[j] = t[j - m]
      BY <2>5, <1>2, <1>3
    <3>2. i - m = j - m
      BY <3>1, <1>1, <1>5 DEF Distinct
    <3> QED BY <3>2, <1>1
  <2> QED BY <2>2, <2>3, <2>4, <2>5
<1> QED BY <1>1, <1>4, <1>5 DEF m, n, u

\* Those of a list are its candidates among the chosen.
LEMMA ThoseAreChosen ==
  ASSUME NEW X, NEW c \in Seq(X), NEW chosen
  PROVE  /\ Those(c, chosen) \in Seq(X)
         /\ ToSet(Those(c, chosen)) = ToSet(c) \cap chosen
         /\ Distinct(c) => Distinct(Those(c, chosen))
<1> DEFINE n == Len(c)
<1>1. n \in Nat /\ DOMAIN c = 1..n /\ \A i \in 1..n : c[i] \in X
  OBVIOUS
<1>2. PICK f : /\ f[0] = <<>>
               /\ \A k \in 1..n :
                    f[k] = IF c[k] \in chosen THEN Append(f[k - 1], c[k]) ELSE f[k - 1]
               /\ Those(c, chosen) = f[n]
  BY ThoseLoop
<1> HIDE DEF n
<1> DEFINE Holds(k) == /\ f[k] \in Seq(X)
                       /\ ToSet(f[k]) = {c[i] : i \in 1..k} \cap chosen
                       /\ Distinct(c) => Distinct(f[k])
           Good == {k \in 0..n : Holds(k)}
<1>3. 0 \in Good
  <2>1. 1..0 = {}
    OBVIOUS
  <2>2. f[0] \in Seq(X) /\ DOMAIN f[0] = {}
    BY <1>2
  <2>3. ToSet(f[0]) = {} /\ Distinct(f[0])
    BY <2>2 DEF ToSet, Distinct
  <2> QED BY <2>1, <2>2, <2>3, <1>1
<1>4. ASSUME NEW k \in 1..n, k - 1 \in Good PROVE k \in Good
  <2>1. Holds(k - 1)
    BY <1>4
  <2>2. /\ 1..k = 1..(k - 1) \cup {k} /\ k \notin 1..(k - 1)
        /\ \A i \in 1..(k - 1) : i \in 1..n
    BY <1>1
  <2>3. CASE c[k] \in chosen
    <3>1. f[k] = Append(f[k - 1], c[k]) /\ c[k] \in X /\ f[k - 1] \in Seq(X)
      BY <2>1, <2>3, <1>1, <1>2
    <3>2. Distinct(c) => c[k].route \notin RoutesOf(f[k - 1])
      BY <1>1, <2>1, <2>2 DEF RoutesOf, Distinct
    <3>3. ToSet(f[k]) = ToSet(f[k - 1]) \cup {c[k]}
      BY <3>1, Appended
    <3>4. ToSet(f[k]) = {c[i] : i \in 1..k} \cap chosen
      BY <2>1, <2>2, <2>3, <3>3
    <3>5. f[k] \in Seq(X) /\ (Distinct(c) => Distinct(f[k]))
      BY <2>1, <3>1, <3>2, Appended
    <3> QED BY <3>4, <3>5, <1>1
  <2>4. CASE c[k] \notin chosen
    BY <2>1, <2>2, <2>4, <1>1, <1>2
  <2> QED BY <2>3, <2>4
<1>5. 0..n \subseteq Good
  <2> HIDE DEF Good
  <2> QED BY <1>1, <1>3, <1>4, Induction
<1>6. Holds(n)
  <2>1. n \in 0..n
    BY <1>1
  <2> HIDE DEF Holds
  <2> QED BY <2>1, <1>5
<1>7. {c[i] : i \in 1..n} = ToSet(c)
  BY <1>1 DEF ToSet
<1> QED BY <1>2, <1>6, <1>7

-----------------------------------------------------------------------------
(* The rotation.                                                           *)

\* A quotient.
LEMMA Division ==
  ASSUME NEW a \in Nat, NEW d \in Nat \ {0}
  PROVE  a \div d \in Nat /\ d * (a \div d) <= a /\ a < d * (a \div d) + d
  OBVIOUS

\* A remainder.
LEMMA Remainder ==
  ASSUME NEW a \in Nat, NEW d \in Nat \ {0}
  PROVE  a % d \in 0..(d - 1)
  OBVIOUS

\* The places of a sample are places of the list.
LEMMA PlaceInList ==
  ASSUME NEW n \in Nat \ {0}, NEW limit \in Nat \ {0}, NEW i \in 0..(limit - 1)
  PROVE  (i * n) \div limit \in 0..(n - 1)
  BY Division

\* They are spread over it: no two of them fall together.
LEMMA SpreadPlaces ==
  ASSUME NEW n \in Nat, NEW limit \in Nat \ {0}, limit < n,
         NEW i \in Nat, NEW j \in Nat, i < j
  PROVE  (i * n) \div limit < (j * n) \div limit
  BY Division

\* A rotation.
LEMMA Rotated ==
  ASSUME NEW n \in Nat \ {0}, NEW x \in 0..(n - 1), NEW offset \in 0..(n - 1)
  PROVE  (x + offset) % n = IF x + offset < n THEN x + offset ELSE x + offset - n
  OBVIOUS

\* A number and its quotient and remainder.
LEMMA Quotient ==
  ASSUME NEW a \in Nat, NEW d \in Nat \ {0}
  PROVE  a = d * (a \div d) + (a % d) /\ a \div d \in Nat /\ a % d \in 0..(d - 1)
<1>1. a = d * (a \div d) + (a % d)
  OBVIOUS
<1> QED BY <1>1, Division, Remainder

LEMMA RemainderOf ==
  ASSUME NEW d \in Nat \ {0}, NEW q \in Nat, NEW r \in 0..(d - 1)
  PROVE  (d * q + r) % d = r
  OBVIOUS

Divides(d, a) == \E q \in Nat : a = d * q

LEMMA LeastMultiple ==
  ASSUME NEW n \in Nat \ {0}, NEW x \in Nat, NEW d \in Nat \ {0}, NEW g \in Nat \ {0},
         Divides(n, d * x), Divides(n, g * x),
         \A h \in Nat \ {0} : Divides(n, h * x) => ~(h < g)
  PROVE  d % g = 0
<1> SUFFICES ASSUME d % g # 0 PROVE FALSE
  OBVIOUS
<1> DEFINE r == d % g
           q == d \div g
<1>1. d = g * q + r /\ q \in Nat /\ r \in 1..(g - 1)
  <2>1. d = g * (d \div g) + (d % g) /\ d \div g \in Nat /\ d % g \in 0..(g - 1)
    BY Quotient
  <2>2. r \in 0..(g - 1) /\ r # 0
    BY <2>1
  <2> HIDE DEF r
  <2>3. r \in 1..(g - 1)
    BY <2>2
  <2> QED BY <2>1, <2>3 DEF r
<1> HIDE DEF r, q
<1>2. PICK a \in Nat : d * x = n * a
  BY DEF Divides
<1>3. PICK b \in Nat : g * x = n * b
  BY DEF Divides
<1>4. r * x = n * (a - q * b)
  <2>1. r * x = d * x - q * (g * x)
    BY <1>1
  <2>2. q * (g * x) = n * (q * b)
    BY <1>1, <1>3
  <2> QED BY <2>1, <2>2, <1>1, <1>2
<1>5. a - q * b \in Nat
  <2>1. a - q * b \in Int /\ r * x >= 0
    BY <1>1
  <2> QED BY <2>1, <1>4
<1>6. Divides(n, r * x)
  BY <1>4, <1>5 DEF Divides
<1> QED BY <1>1, <1>6

LEMMA CoprimeFactor ==
  ASSUME NEW n \in Nat \ {0}, NEW s \in Nat \ {0}, NEW x \in Nat,
         Coprime(s, n), Divides(n, s * x)
  PROVE  Divides(n, x)
<1> DEFINE J == {d \in Nat \ {0} : Divides(n, d * x)}
<1>1. n \in J /\ s \in J
  <2>1. Divides(n, n * x)
    BY DEF Divides
  <2> QED BY <2>1
<1>2. J \subseteq Nat
  OBVIOUS
<1>3. PICK g \in J : \A d \in J : <<d, g>> \notin OpToRel(<, Nat)
  <2> HIDE DEF J
  <2> QED BY <1>1, <1>2, NatLessThanWellFounded, WFMin
<1>4. \A d \in J : ~(d < g)
  <2> HIDE DEF J
  <2> QED BY <1>2, <1>3, Zenon DEF OpToRel
<1>5. g \in Nat \ {0} /\ Divides(n, g * x)
      /\ \A h \in Nat \ {0} : Divides(n, h * x) => ~(h < g)
  BY <1>4
<1>6. n % g = 0 /\ s % g = 0
  <2>1. Divides(n, n * x)
    BY <1>1
  <2> QED BY <2>1, <1>5, LeastMultiple
<1>7. g <= n /\ g <= s
  BY <1>1, <1>4
<1>8. g = 1
  <2> SUFFICES ASSUME g # 1 PROVE FALSE
    OBVIOUS
  <2>1. g \in 2..Least(s, n)
    BY <1>5, <1>7 DEF Least
  <2> QED BY <2>1, <1>6 DEF Coprime
<1>9. g * x = x
  BY <1>8
<1> QED BY <1>5, <1>9

\* A stride that is coprime with the length reaches every place.
LEMMA StrideReachesAll ==
  ASSUME NEW n \in Nat \ {0}, NEW s \in Nat \ {0}, Coprime(s, n), NEW r \in 0..(n - 1)
  PROVE  \E t \in 0..(n - 1) : (t * s) % n = r
<1> DEFINE P == 0..(n - 1)
           g == [t \in P |-> (t * s) % n]
<1>1. ASSUME NEW t \in P, NEW u \in P, t < u PROVE (t * s) % n # (u * s) % n
  <2> SUFFICES ASSUME (t * s) % n = (u * s) % n PROVE FALSE
    OBVIOUS
  <2> DEFINE a == (t * s) \div n
             b == (u * s) \div n
             c == (t * s) % n
  <2>0. t * s \in Nat /\ u * s \in Nat /\ u - t \in Nat \ {0} /\ u - t < n
    BY <1>1
  <2>1. t * s = n * a + c /\ u * s = n * b + c /\ a \in Nat /\ b \in Nat /\ c \in Nat
    <3>1. t * s = n * ((t * s) \div n) + ((t * s) % n)
          /\ (t * s) \div n \in Nat /\ (t * s) % n \in 0..(n - 1)
      BY <2>0, Quotient
    <3>2. u * s = n * ((u * s) \div n) + ((u * s) % n) /\ (u * s) \div n \in Nat
      BY <2>0, Quotient
    <3> QED BY <3>1, <3>2
  <2> HIDE DEF a, b, c
  <2>2. s * (u - t) = n * (b - a)
    BY <2>1, <2>0
  <2>3. b - a \in Nat
    <3>1. s * (u - t) >= 0 /\ b - a \in Int
      BY <2>0, <2>1
    <3> QED BY <3>1, <2>2
  <2>4. Divides(n, s * (u - t))
    BY <2>2, <2>3 DEF Divides
  <2>5. Divides(n, u - t)
    BY <2>0, <2>4, CoprimeFactor
  <2>6. PICK q \in Nat : u - t = n * q
    BY <2>5 DEF Divides
  <2>7. q # 0
    BY <2>0, <2>6
  <2> QED BY <2>0, <2>6, <2>7
<1>2. \A t \in P : g[t] \in P
  <2> SUFFICES ASSUME NEW t \in P PROVE (t * s) % n \in P
    OBVIOUS
  <2>1. t * s \in Nat
    OBVIOUS
  <2> QED BY <2>1, Remainder
<1>3. \A t, u \in P : g[t] = g[u] => t = u
  <2> SUFFICES ASSUME NEW t \in P, NEW u \in P, g[t] = g[u] PROVE t = u
    OBVIOUS
  <2>1. ~(t < u) /\ ~(u < t)
    BY <1>1
  <2> QED BY <2>1
<1>4. IsFiniteSet(P)
  BY FS_Interval
<1>5. g \in [P -> P]
  BY <1>2
<1>6. \A t \in P : g[t] = (t * s) % n
  OBVIOUS
<1> HIDE DEF P, g
<1>7. g \in Surjection(P, P)
  <2>1. g \in Injection(P, P)
    BY <1>2, <1>3, <1>5 DEF Injection, IsInjective
  <2> QED BY <2>1, <1>4, FS_Injection
<1>8. r \in P
  BY DEF P
<1>9. PICK t \in P : g[t] = r
  BY <1>7, <1>8 DEF Surjection
<1> QED BY <1>6, <1>9 DEF P

\* The search of a coprime stride ends: one is coprime with every length.
LEMMA StrideIsCoprime ==
  ASSUME NEW size \in Nat, NEW preferred \in Nat
  PROVE  /\ CoprimeRotationStride(size, preferred) \in Nat
         /\ size > 1 => /\ CoprimeRotationStride(size, preferred) > 0
                        /\ Coprime(CoprimeRotationStride(size, preferred), size)
<1> DEFINE first == IF preferred % size = 0 THEN 1 ELSE preferred % size
           Stride(k) == IF first + k < size THEN first + k ELSE first + k - size + 1
           Found == {k \in 0..size : Coprime(Stride(k), size)}
           First(k) == /\ Coprime(Stride(k), size)
                       /\ \A j \in 0..(k - 1) : ~Coprime(Stride(j), size)
<1>1. CASE size <= 1
  BY <1>1 DEF CoprimeRotationStride
<1>2. CASE size > 1
  <2>1. first \in 1..(size - 1)
    BY <1>2, Remainder
  <2> HIDE DEF first
  <2>2. \A k \in 0..size : Stride(k) \in Nat /\ Stride(k) > 0
    BY <2>1
  <2>3. \E k \in 0..size : Stride(k) = 1
    <3>1. CASE first = 1
      <4>1. 0 \in 0..size /\ Stride(0) = 1
        BY <3>1, <1>2
      <4> QED BY <4>1
    <3>2. CASE first # 1
      <4>1. size - first \in 0..size /\ Stride(size - first) = 1
        BY <2>1
      <4> QED BY <4>1
    <3> QED BY <3>1, <3>2
  <2>4. Coprime(1, size)
    <3>1. 2..Least(1, size) = {}
      BY <1>2 DEF Least
    <3> QED BY <3>1 DEF Coprime
  <2>5. Found # {} /\ Found \subseteq Nat
    BY <2>3, <2>4
  <2>6. PICK k \in Found : \A j \in Found : <<j, k>> \notin OpToRel(<, Nat)
    <3> HIDE DEF Found
    <3> QED BY <2>5, NatLessThanWellFounded, WFMin
  <2>7. \A j \in Found : ~(j < k)
    <3> HIDE DEF Found
    <3> QED BY <2>5, <2>6, Zenon DEF OpToRel
  <2>8. k \in 0..size /\ First(k)
    <3> HIDE DEF Stride
    <3>1. k \in 0..size /\ Coprime(Stride(k), size)
      BY <2>6
    <3>2. ASSUME NEW j \in 0..(k - 1), Coprime(Stride(j), size) PROVE FALSE
      <4>1. j \in 0..size /\ j < k
        BY <3>1
      <4>2. j \in Found
        BY <4>1, <3>2
      <4> QED BY <4>1, <4>2, <2>7
    <3> QED BY <3>1, <3>2
  <2> DEFINE found == CHOOSE m \in 0..size : First(m)
  <2>9. found \in 0..size /\ First(found)
    <3> HIDE DEF First
    <3> QED BY <2>8
  <2>10. CoprimeRotationStride(size, preferred) = Stride(found)
    BY <1>2 DEF CoprimeRotationStride, first
  <2> HIDE DEF found
  <2>11. Coprime(Stride(found), size)
    BY <2>9
  <2> HIDE DEF Stride, First
  <2> QED BY <2>2, <2>9, <2>10, <2>11
<1> QED BY <1>1, <1>2

\* A sample has as many candidates as are asked for or there are, each from another
\* place of the list.
LEMMA SampleIsSpread ==
  ASSUME NEW X, NEW c \in Seq(X), Distinct(c), NEW limit \in Nat \ {0}, NEW now \in Nat
  PROVE  /\ SampleAt(c, limit, now) \in Seq(X)
         /\ Distinct(SampleAt(c, limit, now))
         /\ ToSet(SampleAt(c, limit, now)) \subseteq ToSet(c)
         /\ Len(SampleAt(c, limit, now)) = Least(limit, Len(c))
<1> DEFINE n == Len(c)
<1>0. n \in Nat /\ DOMAIN c = 1..n /\ \A i \in 1..n : c[i] \in X
  OBVIOUS
<1>1. CASE n <= limit
  <2>1. SampleAt(c, limit, now) = c
    BY <1>1 DEF SampleAt
  <2>2. Least(limit, n) = n
    <3> HIDE DEF n
    <3> QED BY <1>1, <1>0 DEF Least
  <2> QED BY <2>1, <2>2
<1>2. CASE limit < n
  <2> DEFINE offset == ((now % n) * CoprimeRotationStride(n, limit + 1)) % n
             Place(i) == (((i * n) \div limit + offset) % n) + 1
             t == [i \in 1..limit |-> c[(((((i - 1) * n) \div limit) + offset) % n) + 1]]
  <2>1. SampleAt(c, limit, now) = t
    BY <1>2, <1>0 DEF SampleAt
  <2>2. offset \in 0..(n - 1)
    <3>1. now % n \in Nat
      BY <1>0, <1>2, Remainder
    <3>2. CoprimeRotationStride(n, limit + 1) \in Nat
      <4>1. n \in Nat /\ limit + 1 \in Nat
        BY <1>0
      <4> HIDE DEF n
      <4> QED BY <4>1, StrideIsCoprime
    <3> DEFINE turned == (now % n) * CoprimeRotationStride(n, limit + 1)
    <3>3. turned \in Nat
      BY <3>1, <3>2
    <3>4. n \in Nat \ {0}
      BY <1>0, <1>2
    <3> HIDE DEF n, turned
    <3>5. turned % n \in 0..(n - 1)
      BY <3>3, <3>4, Remainder
    <3> QED BY <3>5 DEF turned
  <2> HIDE DEF n, offset
  <2>3. ASSUME NEW i \in 0..(limit - 1), NEW j \in 0..(limit - 1), i < j
        PROVE  Place(i) # Place(j) /\ Place(i) \in 1..n /\ Place(j) \in 1..n
    <3> DEFINE x == (i * n) \div limit
               y == (j * n) \div limit
    <3>1. x \in 0..(n - 1) /\ y \in 0..(n - 1) /\ x < y
      <4>1. n \in Nat \ {0} /\ i \in Nat /\ j \in Nat
        BY <1>0, <1>2
      <4> QED BY <4>1, <1>2, <2>3, PlaceInList, SpreadPlaces
    <3> HIDE DEF x, y
    <3>2. /\ (x + offset) % n = IF x + offset < n THEN x + offset ELSE x + offset - n
          /\ (y + offset) % n = IF y + offset < n THEN y + offset ELSE y + offset - n
      BY <3>1, <2>2, <1>0, <1>2, Rotated
    <3>3. /\ (x + offset) % n # (y + offset) % n
          /\ (x + offset) % n \in 0..(n - 1) /\ (y + offset) % n \in 0..(n - 1)
      BY <3>1, <3>2, <2>2, <1>0
    <3>4. Place(i) = ((x + offset) % n) + 1 /\ Place(j) = ((y + offset) % n) + 1
      BY DEF x, y
    <3> HIDE DEF Place
    <3> QED BY <3>3, <3>4, <1>0
  <2>4. ASSUME NEW i \in 0..(limit - 1) PROVE Place(i) \in 1..n
    <3>1. n \in Nat \ {0}
      BY <1>0, <1>2
    <3>2. (i * n) \div limit \in 0..(n - 1)
      BY <3>1, PlaceInList
    <3> DEFINE moved == (i * n) \div limit + offset
    <3>3. moved \in Nat
      BY <3>2, <2>2
    <3> HIDE DEF moved
    <3>4. moved % n \in 0..(n - 1)
      BY <3>1, <3>3, Remainder
    <3> QED BY <3>4, <1>0 DEF moved
  <2>5. ASSUME NEW i \in 1..limit
        PROVE  i - 1 \in 0..(limit - 1) /\ t[i] = c[Place(i - 1)]
    OBVIOUS
  <2> HIDE DEF Place
  <2>6. \A i \in 1..limit : t[i] \in X /\ t[i] \in ToSet(c)
    BY <2>4, <2>5, <1>0 DEF ToSet
  <2>7. DOMAIN t = 1..limit /\ Len(t) = limit
    OBVIOUS
  <2>8. t \in Seq(X)
    <3>1. t \in [1..limit -> X]
      BY <2>6
    <3> HIDE DEF t
    <3> QED BY <3>1
  <2> HIDE DEF t
  <2>9. Distinct(t)
    <3> SUFFICES ASSUME NEW i \in 1..limit, NEW j \in 1..limit, t[i].route = t[j].route
                 PROVE  i = j
      BY <2>7 DEF Distinct
    <3>1. Place(i - 1) \in 1..n /\ Place(j - 1) \in 1..n
      BY <2>4, <2>5
    <3>2. Place(i - 1) = Place(j - 1)
      BY <3>1, <2>5, <1>0 DEF Distinct
    <3>3. ~(i - 1 < j - 1) /\ ~(j - 1 < i - 1)
      BY <3>2, <2>3, <2>5
    <3> QED BY <3>3
  <2>10. ToSet(t) \subseteq ToSet(c)
    BY <2>6, <2>7 DEF ToSet
  <2>11. Least(limit, n) = limit
    BY <1>2, <1>0 DEF Least
  <2> QED BY <2>1, <2>7, <2>8, <2>9, <2>10, <2>11 DEF n
<1> QED BY <1>0, <1>1, <1>2

\* The places of a sample, counted from 0: the spread ones, moved by the offset of
\* the hour.
Offset(n, limit, now) == ((now % n) * CoprimeRotationStride(n, limit + 1)) % n
PlaceOf(n, limit, now, i) == ((i * n) \div limit + Offset(n, limit, now)) % n
Places(n, limit, now) == {PlaceOf(n, limit, now, i) : i \in 0..(limit - 1)}

\* Where the first place is in an hour.
LEMMA OffsetInList ==
  ASSUME NEW n \in Nat \ {0}, NEW limit \in Nat, NEW now \in Nat
  PROVE  Offset(n, limit, now) \in 0..(n - 1)
<1>1. now % n \in Nat
  BY Remainder
<1>2. CoprimeRotationStride(n, limit + 1) \in Nat
  <2>1. limit + 1 \in Nat
    OBVIOUS
  <2> QED BY <2>1, StrideIsCoprime
<1> DEFINE turned == (now % n) * CoprimeRotationStride(n, limit + 1)
<1>3. turned \in Nat
  BY <1>1, <1>2
<1> HIDE DEF turned
<1>4. turned % n \in 0..(n - 1)
  BY <1>3, Remainder
<1> QED BY <1>4 DEF turned, Offset

\* A place is one of the list, and the place of the first index is the offset.
LEMMA PlaceInRange ==
  ASSUME NEW n \in Nat \ {0}, NEW limit \in Nat \ {0}, NEW now \in Nat,
         NEW i \in 0..(limit - 1)
  PROVE  /\ PlaceOf(n, limit, now, i) \in 0..(n - 1)
         /\ i = 0 => PlaceOf(n, limit, now, i) = Offset(n, limit, now)
<1> DEFINE x == (i * n) \div limit
           o == Offset(n, limit, now)
<1>1. x \in 0..(n - 1) /\ o \in 0..(n - 1)
  BY PlaceInList, OffsetInList
<1>2. i = 0 => x = 0
  <2> SUFFICES ASSUME i = 0 PROVE (0 * n) \div limit = 0
    OBVIOUS
  <2>1. 0 * n = 0 /\ 0 \in Nat
    OBVIOUS
  <2>2. limit * (0 \div limit) <= 0 /\ 0 \div limit \in Nat
    BY <2>1, Division
  <2>3. 0 \div limit = 0
    BY <2>2
  <2> QED BY <2>1, <2>3
<1>3. PlaceOf(n, limit, now, i) = (x + o) % n
  BY DEF PlaceOf
<1> HIDE DEF x, o
<1>4. (x + o) % n = IF x + o < n THEN x + o ELSE x + o - n
  BY <1>1, Rotated
<1>5. (x + o) % n \in 0..(n - 1) /\ (x = 0 => (x + o) % n = o)
  BY <1>1, <1>4
<1> QED BY <1>2, <1>3, <1>5 DEF o

\* The candidates of a sample are those at its places.
LEMMA SampleAtPlaces ==
  ASSUME NEW X, NEW c \in Seq(X), NEW limit \in Nat \ {0}, limit < Len(c), NEW now \in Nat
  PROVE  /\ Places(Len(c), limit, now) \subseteq 0..(Len(c) - 1)
         /\ ToSet(SampleAt(c, limit, now)) = {c[p + 1] : p \in Places(Len(c), limit, now)}
<1> DEFINE n == Len(c)
           t == [i \in 1..limit |-> c[PlaceOf(n, limit, now, i - 1) + 1]]
<1>1. n \in Nat \ {0} /\ limit < n
  OBVIOUS
<1>2. SampleAt(c, limit, now) = t
  <2>1. ~(limit <= 0 \/ Len(c) <= limit)
    OBVIOUS
  <2> QED BY <2>1 DEF SampleAt, PlaceOf, Offset
<1> HIDE DEF n
<1>3. Places(n, limit, now) \subseteq 0..(n - 1)
  BY <1>1, PlaceInRange DEF Places
<1>4. ToSet(t) = {c[p + 1] : p \in Places(n, limit, now)}
  <2>1. ToSet(t) = {t[i] : i \in 1..limit}
    BY DEF ToSet
  <2>2. \A i \in 1..limit : i - 1 \in 0..(limit - 1)
                           /\ t[i] = c[PlaceOf(n, limit, now, i - 1) + 1]
    OBVIOUS
  <2>3. \A i \in 0..(limit - 1) : i + 1 \in 1..limit /\ (i + 1) - 1 = i
    OBVIOUS
  <2> HIDE DEF t
  <2>4. ASSUME NEW x \in ToSet(t) PROVE x \in {c[p + 1] : p \in Places(n, limit, now)}
    BY <2>1, <2>2 DEF Places
  <2>5. ASSUME NEW i \in 0..(limit - 1)
        PROVE  c[PlaceOf(n, limit, now, i) + 1] \in ToSet(t)
    <3>1. i + 1 \in 1..limit /\ t[i + 1] = c[PlaceOf(n, limit, now, i) + 1]
      BY <2>2, <2>3
    <3> QED BY <3>1, <2>1
  <2>6. {c[p + 1] : p \in Places(n, limit, now)} \subseteq ToSet(t)
    BY <2>5 DEF Places
  <2> QED BY <2>4, <2>6
<1> QED BY <1>2, <1>3, <1>4 DEF n

\* The hours from any on that are as many as places leave every remainder.
LEMMA HourOfRemainder ==
  ASSUME NEW n \in Nat \ {0}, NEW from \in Nat, NEW k \in 0..(n - 1)
  PROVE  \E now \in from..(from + n - 1) : now % n = k
<1> DEFINE q == from \div n
           r == from % n
<1>1. from = n * q + r /\ q \in Nat /\ r \in 0..(n - 1)
  BY Quotient
<1> HIDE DEF q, r
<1>2. CASE r <= k
  <2>1. from + (k - r) = n * q + k
    BY <1>1
  <2>2. (n * q + k) % n = k
    BY <1>1, RemainderOf
  <2>3. from + (k - r) \in from..(from + n - 1)
    BY <1>1, <1>2
  <2> QED BY <2>1, <2>2, <2>3
<1>3. CASE k < r
  <2>1. from + (k - r + n) = n * (q + 1) + k
    BY <1>1
  <2>2. (n * (q + 1) + k) % n = k
    <3>1. q + 1 \in Nat
      BY <1>1
    <3> QED BY <3>1, RemainderOf
  <2>3. from + (k - r + n) \in from..(from + n - 1)
    BY <1>1, <1>3
  <2> QED BY <2>1, <2>2, <2>3
<1> QED BY <1>1, <1>2, <1>3

\* In as many consecutive hours as the list has candidates, each of them is sampled.
LEMMA SampleReachesAll ==
  ASSUME NEW X, NEW c \in Seq(X), NEW limit \in Nat \ {0}, NEW from \in Nat,
         NEW x \in ToSet(c)
  PROVE  \E now \in from..(from + Len(c) - 1) : x \in ToSet(SampleAt(c, limit, now))
<1> DEFINE n == Len(c)
<1>1. PICK j \in 1..n : x = c[j]
  BY DEF ToSet
<1>2. n \in Nat \ {0}
  BY <1>1
<1>3. CASE n <= limit
  <2>1. SampleAt(c, limit, from) = c
    BY <1>3 DEF SampleAt
  <2>2. from \in from..(from + n - 1)
    BY <1>2
  <2> QED BY <2>1, <2>2
<1>4. CASE limit < n
  <2> DEFINE s == CoprimeRotationStride(n, limit + 1)
  <2> HIDE DEF n
  <2>1. s \in Nat \ {0} /\ Coprime(s, n)
    <3>1. limit + 1 \in Nat /\ n \in Nat /\ n > 1
      BY <1>2, <1>4
    <3>2. s \in Nat /\ s > 0 /\ Coprime(s, n)
      BY <3>1, StrideIsCoprime
    <3> QED BY <3>2
  <2> HIDE DEF s
  <2>2. j - 1 \in 0..(n - 1) /\ (j - 1) + 1 = j
    BY <1>1, <1>2
  <2>3. PICK k \in 0..(n - 1) : (k * s) % n = j - 1
    BY <2>1, <2>2, <1>2, StrideReachesAll
  <2>4. PICK now \in from..(from + n - 1) : now % n = k
    BY <1>2, HourOfRemainder
  <2>5. Offset(n, limit, now) = j - 1
    BY <2>3, <2>4 DEF Offset, s
  <2>6. now \in Nat /\ 0 \in 0..(limit - 1)
    BY <2>4, <1>2
  <2>7. j - 1 \in Places(n, limit, now)
    <3>1. PlaceOf(n, limit, now, 0) = j - 1
      BY <2>5, <2>6, <1>2, PlaceInRange
    <3> QED BY <3>1, <2>6 DEF Places
  <2>8. ToSet(SampleAt(c, limit, now)) = {c[p + 1] : p \in Places(n, limit, now)}
    BY <2>6, <1>4, SampleAtPlaces DEF n
  <2>9. x \in ToSet(SampleAt(c, limit, now))
    BY <2>2, <2>7, <2>8, <1>1
  <2> QED BY <2>4, <2>9 DEF n
<1> QED BY <1>2, <1>3, <1>4

\* Remainders of a product and of a sum.
LEMMA RemainderOfProduct ==
  ASSUME NEW n \in Nat \ {0}, NEW a \in Nat, NEW s \in Nat
  PROVE  ((a % n) * s) % n = (a * s) % n
<1> DEFINE q == a \div n
           r == a % n
           b == r * s
           p == b \div n
           u == b % n
<1>1. a = n * q + r /\ q \in Nat /\ r \in Nat
  BY Quotient
<1>2. b \in Nat
  BY <1>1
<1>3. b = n * p + u /\ p \in Nat /\ u \in 0..(n - 1)
  <2> HIDE DEF b
  <2> QED BY <1>2, Quotient
<1>4. a * s = n * (q * s) + b
  <2> HIDE DEF q, r
  <2> QED BY <1>1 DEF b
<1> HIDE DEF q, r, b, p, u
<1>5. a * s = n * (q * s + p) + u
  BY <1>1, <1>3, <1>4
<1>6. q * s + p \in Nat
  BY <1>1, <1>3
<1>7. (a * s) % n = u
  BY <1>3, <1>5, <1>6, RemainderOf
<1> QED BY <1>7 DEF u, b, r

LEMMA RemainderOfSum ==
  ASSUME NEW n \in Nat \ {0}, NEW a \in Nat, NEW s \in Nat
  PROVE  ((a % n) + s) % n = (a + s) % n
<1> DEFINE q == a \div n
           r == a % n
           b == r + s
           p == b \div n
           u == b % n
<1>1. a = n * q + r /\ q \in Nat /\ r \in Nat
  BY Quotient
<1>2. b \in Nat
  BY <1>1
<1>3. b = n * p + u /\ p \in Nat /\ u \in 0..(n - 1)
  <2> HIDE DEF b
  <2> QED BY <1>2, Quotient
<1>4. a + s = n * q + b
  <2> HIDE DEF q, r
  <2> QED BY <1>1 DEF b
<1> HIDE DEF q, r, b, p, u
<1>5. a + s = n * (q + p) + u
  BY <1>1, <1>3, <1>4
<1>6. q + p \in Nat
  BY <1>1, <1>3
<1>7. (a + s) % n = u
  BY <1>3, <1>5, <1>6, RemainderOf
<1> QED BY <1>7 DEF u, b, r

\* In the next hour every place has moved on by the stride.
LEMMA PlaceMoves ==
  ASSUME NEW n \in Nat \ {0}, NEW limit \in Nat \ {0}, NEW now \in Nat,
         NEW i \in 0..(limit - 1)
  PROVE  PlaceOf(n, limit, now + 1, i)
           = (PlaceOf(n, limit, now, i) + CoprimeRotationStride(n, limit + 1)) % n
<1> DEFINE s  == CoprimeRotationStride(n, limit + 1)
           x  == (i * n) \div limit
           o  == Offset(n, limit, now)
           o2 == Offset(n, limit, now + 1)
<1>1. s \in Nat /\ now + 1 \in Nat
  <2>1. limit + 1 \in Nat
    OBVIOUS
  <2> QED BY <2>1, StrideIsCoprime
<1>2. x \in Nat /\ o \in Nat
  <2>1. x \in 0..(n - 1) /\ o \in 0..(n - 1)
    BY PlaceInList, OffsetInList
  <2> HIDE DEF x, o
  <2> QED BY <2>1
<1>3. o = ((now % n) * s) % n /\ o2 = (((now + 1) % n) * s) % n
  BY DEF Offset
<1>4. PlaceOf(n, limit, now, i) = (x + o) % n /\ PlaceOf(n, limit, now + 1, i) = (x + o2) % n
  BY DEF PlaceOf
<1> HIDE DEF s, x, o, o2
<1>5. o = (now * s) % n /\ o2 = ((now + 1) * s) % n
  BY <1>1, <1>3, RemainderOfProduct
<1>6. now * s \in Nat /\ (now + 1) * s = now * s + s
  BY <1>1
<1>7. o2 = (o + s) % n
  <2> DEFINE a == now * s
  <2>1. a \in Nat /\ o = a % n /\ o2 = (a + s) % n
    BY <1>5, <1>6
  <2> HIDE DEF a
  <2>2. ((a % n) + s) % n = (a + s) % n
    BY <2>1, <1>1, RemainderOfSum
  <2> QED BY <2>1, <2>2
<1>8. (x + o2) % n = (((x + o) % n) + s) % n
  <2> DEFINE y == x + o
             z == o + s
             w == z % n
  <2>1. y \in Nat /\ z \in Nat /\ z + x = y + s
    BY <1>1, <1>2
  <2>2. o2 = w
    BY <1>7
  <2> HIDE DEF y
  <2>3. ((y % n) + s) % n = (y + s) % n
    BY <2>1, <1>1, RemainderOfSum
  <2> HIDE DEF z
  <2>4. w \in Nat /\ (w + x) % n = (z + x) % n
    <3>1. ((z % n) + x) % n = (z + x) % n
      BY <2>1, <1>2, RemainderOfSum
    <3>2. z % n \in Nat
      BY <2>1, Remainder
    <3> QED BY <3>1, <3>2
  <2> HIDE DEF w
  <2>5. x + w = w + x
    BY <2>4, <1>2
  <2>6. (x + o2) % n = (y + s) % n
    BY <2>1, <2>2, <2>4, <2>5
  <2> QED BY <2>3, <2>6 DEF y
<1> QED BY <1>4, <1>8 DEF s

\* A set of places that such a move maps to itself has all of them.
LEMMA NoSetStays ==
  ASSUME NEW n \in Nat \ {0}, NEW s \in Nat \ {0}, Coprime(s, n),
         NEW P \in SUBSET (0..(n - 1)), P # {}, \A p \in P : (p + s) % n \in P
  PROVE  0..(n - 1) \subseteq P
<1>1. PICK p \in P : TRUE
  OBVIOUS
<1>2. p \in 0..(n - 1)
  OBVIOUS
<1> DEFINE Good == {k \in 0..(n - 1) : (p + k * s) % n \in P}
<1>3. 0 \in Good
  <2>1. p + 0 * s = n * 0 + p /\ 0 \in Nat
    BY <1>2
  <2>2. (n * 0 + p) % n = p
    BY <2>1, <1>2, RemainderOf
  <2> QED BY <2>1, <2>2
<1>4. ASSUME NEW k \in 1..(n - 1), k - 1 \in Good PROVE k \in Good
  <2> DEFINE a == p + (k - 1) * s
  <2>1. a % n \in P
    BY <1>4
  <2>2. a \in Nat /\ p + k * s = a + s
    <3>1. k - 1 \in Nat /\ p \in Nat
      BY <1>2
    <3>2. (k - 1) * s \in Nat /\ k * s = (k - 1) * s + s
      BY <3>1
    <3> QED BY <3>1, <3>2
  <2> HIDE DEF a
  <2>3. (a + s) % n = ((a % n) + s) % n
    BY <2>2, RemainderOfSum
  <2>4. (p + k * s) % n \in P
    BY <2>1, <2>2, <2>3
  <2> QED BY <2>4
<1>5. 0..(n - 1) \subseteq Good
  <2>1. n - 1 \in Nat
    OBVIOUS
  <2> HIDE DEF Good
  <2> QED BY <2>1, <1>3, <1>4, Induction
<1> SUFFICES ASSUME NEW r \in 0..(n - 1) PROVE r \in P
  OBVIOUS
<1> DEFINE d == IF r >= p THEN r - p ELSE r - p + n
<1>6. d \in 0..(n - 1) /\ (d + p < n => d + p = r) /\ (d + p >= n => d + p - n = r)
  BY <1>2
<1> HIDE DEF d
<1>7. PICK k \in 0..(n - 1) : (k * s) % n = d
  BY <1>6, StrideReachesAll
<1>8. (d + p) % n = r
  <2>1. (d + p) % n = IF d + p < n THEN d + p ELSE d + p - n
    BY <1>2, <1>6, Rotated
  <2>2. d + p \in Nat
    BY <1>2, <1>6
  <2> QED BY <2>1, <2>2, <1>6
<1>9. (p + k * s) % n = r
  <2>1. k * s \in Nat /\ p \in Nat
    BY <1>2, <1>7
  <2>2. (((k * s) % n) + p) % n = (k * s + p) % n
    BY <2>1, RemainderOfSum
  <2>3. k * s + p = p + k * s
    BY <2>1
  <2> QED BY <2>2, <2>3, <1>7, <1>8
<1>10. k \in Good
  BY <1>5, <1>7
<1> QED BY <1>9, <1>10

\* While a list does not fit, two adjacent hours never sample the same routes.
LEMMA SampleMoves ==
  ASSUME NEW X, NEW c \in Seq(X), Distinct(c), NEW limit \in Nat \ {0}, limit < Len(c),
         NEW now \in Nat
  PROVE  RoutesOf(SampleAt(c, limit, now + 1)) # RoutesOf(SampleAt(c, limit, now))
<1> SUFFICES ASSUME RoutesOf(SampleAt(c, limit, now + 1)) = RoutesOf(SampleAt(c, limit, now))
             PROVE  FALSE
  OBVIOUS
<1> DEFINE n == Len(c)
           s == CoprimeRotationStride(n, limit + 1)
           P == Places(n, limit, now)
           Q == Places(n, limit, now + 1)
<1>1. n \in Nat \ {0} /\ n > 1 /\ limit < n /\ DOMAIN c = 1..n /\ now + 1 \in Nat
  OBVIOUS
<1>2. /\ P \subseteq 0..(n - 1) /\ ToSet(SampleAt(c, limit, now)) = {c[p + 1] : p \in P}
      /\ Q \subseteq 0..(n - 1) /\ ToSet(SampleAt(c, limit, now + 1)) = {c[p + 1] : p \in Q}
  BY <1>1, SampleAtPlaces
<1>3. s \in Nat \ {0} /\ Coprime(s, n)
  <2>1. n \in Nat /\ limit + 1 \in Nat
    OBVIOUS
  <2> HIDE DEF n
  <2>2. s \in Nat /\ s > 0 /\ Coprime(s, n)
    BY <2>1, <1>1, StrideIsCoprime
  <2> QED BY <2>2
<1> HIDE DEF n
<1>4. \A p \in P : (p + s) % n \in Q
  <2> SUFFICES ASSUME NEW p \in P PROVE (p + s) % n \in Q
    OBVIOUS
  <2>1. PICK i \in 0..(limit - 1) : p = PlaceOf(n, limit, now, i)
    BY DEF Places
  <2>2. PlaceOf(n, limit, now + 1, i) = (p + s) % n
    BY <2>1, <1>1, PlaceMoves
  <2> QED BY <2>2 DEF Places
<1>5. PlaceOf(n, limit, now, 0) \in P
  <2>1. 0 \in 0..(limit - 1)
    OBVIOUS
  <2> QED BY <2>1 DEF Places
<1> HIDE DEF s, P, Q
<1>6. Q \subseteq P
  <2> SUFFICES ASSUME NEW q \in Q PROVE q \in P
    OBVIOUS
  <2>1. c[q + 1].route \in RoutesOf(SampleAt(c, limit, now))
    BY <1>2 DEF RoutesOf
  <2>2. PICK p \in P : c[p + 1].route = c[q + 1].route
    BY <2>1, <1>2 DEF RoutesOf
  <2>3. p \in 0..(n - 1) /\ q \in 0..(n - 1)
    BY <1>2
  <2>4. p + 1 \in DOMAIN c /\ q + 1 \in DOMAIN c
    BY <2>3, <1>1
  <2>5. p + 1 = q + 1
    BY <2>2, <2>4 DEF Distinct
  <2> QED BY <2>3, <2>5
<1>7. 0..(n - 1) \subseteq P
  BY <1>1, <1>2, <1>3, <1>4, <1>5, <1>6, NoSetStays
<1>8. ToSet(SampleAt(c, limit, now)) = ToSet(c)
  <2>1. {c[p + 1] : p \in P} \subseteq ToSet(c)
    <3>1. \A p \in P : p + 1 \in DOMAIN c
      BY <1>1, <1>2
    <3> QED BY <3>1 DEF ToSet
  <2>2. ToSet(c) \subseteq {c[p + 1] : p \in P}
    <3> SUFFICES ASSUME NEW j \in 1..n PROVE c[j] \in {c[p + 1] : p \in P}
      BY <1>1 DEF ToSet
    <3>1. j - 1 \in P /\ (j - 1) + 1 = j
      BY <1>1, <1>7
    <3> QED BY <3>1
  <2> QED BY <2>1, <2>2, <1>2
<1>9. Len(SampleAt(c, limit, now)) = Len(c)
  <2>1. RoutesOf(SampleAt(c, limit, now)) = RoutesOf(c)
    BY <1>8 DEF RoutesOf
  <2>2. SampleAt(c, limit, now) \in Seq(X) /\ Distinct(SampleAt(c, limit, now))
    BY SampleIsSpread
  <2> QED BY <2>1, <2>2, LengthOfRoutes
<1>10. Len(SampleAt(c, limit, now)) = limit
  BY SampleIsSpread DEF Least
<1> QED BY <1>9, <1>10

-----------------------------------------------------------------------------
(* The passes over the curated sources.                                    *)

\* The loop of TakeNew, after each choice.
LEMMA TakeNewLoop ==
  ASSUME NEW X, NEW taken \in Seq(X), NEW choices \in Seq(X), NEW limit
  PROVE  \E f : /\ f[0] = taken
                /\ \A k \in 1..Len(choices) :
                     f[k] = IF choices[k].route \in RoutesOf(f[k - 1]) \/ Len(f[k - 1]) >= limit
                              THEN f[k - 1] ELSE Append(f[k - 1], choices[k])
                /\ TakeNew(taken, choices, limit) = f[Len(choices)]
<1> DEFINE n == Len(choices)
           S == Seq(X)
           Take(sofar, x) == IF x.route \in RoutesOf(sofar) \/ Len(sofar) >= limit
                               THEN sofar ELSE Append(sofar, x)
           step == [p \in S \X (1..n) |-> Take(p[1], choices[p[2]])]
           Fold(it) == it = [s \in SUBSET DOMAIN choices |->
                               IF s = {} THEN taken
                               ELSE Take(it[s \ {Max(s)}], choices[Max(s)])]
<1>1. n \in Nat /\ DOMAIN choices = 1..n /\ taken \in S
  OBVIOUS
<1>2. IsStep(step, S, n)
  BY DEF IsStep
<1>3. PICK it : IsFold(it, S, taken, step, n)
  <2> HIDE DEF n, S, step
  <2> QED BY <1>1, <1>2, FoldExists
<1>4. ASSUME NEW s \in SUBSET (1..n)
      PROVE  it[s] = IF s = {} THEN taken ELSE Take(it[s \ {Max(s)}], choices[Max(s)])
  <2>1. CASE s = {}
    BY <2>1, <1>3 DEF IsFold
  <2>2. CASE s # {}
    <3>1. Max(s) \in 1..n /\ it[s \ {Max(s)}] \in S
      BY <2>2, <1>1, <1>3, MaxIsMember DEF IsFold
    <3> HIDE DEF S, Take
    <3> QED BY <3>1, <2>2, <1>3 DEF IsFold
  <2> QED BY <2>1, <2>2
<1>5. Fold(it)
  <2> HIDE DEF S, step, Take
  <2> QED BY <1>1, <1>3, <1>4 DEF IsFold
<1>6. TakeNew(taken, choices, limit) = (CHOOSE it2 : Fold(it2))[DOMAIN choices]
  BY DEF TakeNew, FoldLeft, MapThenFoldSet
<1>7. PICK g : Fold(g) /\ TakeNew(taken, choices, limit) = g[1..n]
  <2> HIDE DEF Fold, n
  <2> QED BY <1>1, <1>5, <1>6
<1> DEFINE f == [k \in 0..n |-> g[1..k]]
<1>8. f[0] = taken
  BY <1>1, <1>7
<1>9. ASSUME NEW k \in 1..n PROVE f[k] = Take(f[k - 1], choices[k])
  <2>1. g[1..k] = Take(g[1..(k - 1)], choices[k])
    <3>1. /\ Max(1..k) = k /\ (1..k) \ {k} = 1..(k - 1) /\ 1..k # {}
          /\ 1..k \in SUBSET DOMAIN choices
      <4> HIDE DEF n
      <4> QED BY <1>1, FirstPositions
    <3> HIDE DEF Take
    <3> QED BY <1>7, <3>1
  <2> HIDE DEF Take
  <2> QED BY <2>1, <1>1
<1>10. TakeNew(taken, choices, limit) = f[n]
  BY <1>1, <1>7
<1> QED BY <1>8, <1>9, <1>10

\* Taking new routes loses none, exceeds no limit, and takes the first choice if it
\* is new and there is room.
LEMMA TakeNewKeeps ==
  ASSUME NEW X, NEW taken \in Seq(X), NEW choices \in Seq(X), NEW limit \in Nat
  PROVE  /\ TakeNew(taken, choices, limit) \in Seq(X)
         /\ ToSet(taken) \subseteq ToSet(TakeNew(taken, choices, limit))
         /\ ToSet(TakeNew(taken, choices, limit)) \subseteq ToSet(taken) \cup ToSet(choices)
         /\ Distinct(taken) => Distinct(TakeNew(taken, choices, limit))
         /\ Len(taken) <= limit => Len(TakeNew(taken, choices, limit)) <= limit
         /\ Len(TakeNew(taken, choices, limit)) <= Len(taken) + Len(choices)
         /\ Len(choices) > 0 /\ choices[1].route \notin RoutesOf(taken) /\ Len(taken) < limit
              => choices[1] \in ToSet(TakeNew(taken, choices, limit))
<1> DEFINE n == Len(choices)
           new == choices[1].route \notin RoutesOf(taken) /\ Len(taken) < limit
<1>1. n \in Nat /\ DOMAIN choices = 1..n /\ \A i \in 1..n : choices[i] \in X
  OBVIOUS
<1>2. PICK f : /\ f[0] = taken
               /\ \A k \in 1..n :
                    f[k] = IF choices[k].route \in RoutesOf(f[k - 1]) \/ Len(f[k - 1]) >= limit
                             THEN f[k - 1] ELSE Append(f[k - 1], choices[k])
               /\ TakeNew(taken, choices, limit) = f[n]
  BY TakeNewLoop
<1> HIDE DEF n
<1>2a. \A i \in 1..n : choices[i] \in ToSet(choices)
  BY <1>1 DEF ToSet
<1> DEFINE Holds(k) == /\ f[k] \in Seq(X)
                       /\ ToSet(taken) \subseteq ToSet(f[k])
                       /\ ToSet(f[k]) \subseteq ToSet(taken) \cup ToSet(choices)
                       /\ Distinct(taken) => Distinct(f[k])
                       /\ Len(taken) <= limit => Len(f[k]) <= limit
                       /\ Len(f[k]) <= Len(taken) + k
                       /\ k > 0 /\ new => choices[1] \in ToSet(f[k])
           Good == {k \in 0..n : Holds(k)}
<1>3. 0 \in Good
  <2>1. Len(taken) \in Nat
    OBVIOUS
  <2> QED BY <2>1, <1>1, <1>2
<1>4. ASSUME NEW k \in 1..n, k - 1 \in Good PROVE k \in Good
  <2>1. Holds(k - 1) /\ k \in Nat
    BY <1>4, <1>1
  <2>2. Len(f[k - 1]) \in Nat /\ Len(taken) \in Nat
    BY <2>1
  <2>3. CASE choices[k].route \in RoutesOf(f[k - 1]) \/ Len(f[k - 1]) >= limit
    <3>1. f[k] = f[k - 1]
      BY <2>3, <1>2
    <3>2. ~(k = 1 /\ new)
      BY <2>3, <2>2, <1>2
    <3>3. k > 0 /\ new => choices[1] \in ToSet(f[k])
      BY <3>1, <3>2, <2>1
    <3> QED BY <3>1, <3>3, <2>1, <2>2
  <2>4. CASE ~(choices[k].route \in RoutesOf(f[k - 1]) \/ Len(f[k - 1]) >= limit)
    <3>1. f[k] = Append(f[k - 1], choices[k]) /\ choices[k] \in X
      BY <2>4, <1>1, <1>2
    <3>2. /\ f[k] \in Seq(X) /\ Len(f[k]) = Len(f[k - 1]) + 1
          /\ ToSet(f[k]) = ToSet(f[k - 1]) \cup {choices[k]}
          /\ Distinct(f[k - 1]) => Distinct(f[k])
      BY <3>1, <2>1, <2>4, Appended
    <3>3. Len(f[k]) <= limit /\ Len(f[k]) <= Len(taken) + k
      BY <3>2, <2>1, <2>2, <2>4
    <3>4. k > 0 /\ new => choices[1] \in ToSet(f[k])
      BY <3>2, <2>1
    <3>5. choices[k] \in ToSet(choices)
      BY <1>2a
    <3> QED BY <3>2, <3>3, <3>4, <3>5, <2>1
  <2> QED BY <2>3, <2>4
<1>5. 0..n \subseteq Good
  <2> HIDE DEF Good
  <2> QED BY <1>1, <1>3, <1>4, Induction
<1>6. Holds(n)
  <2>1. n \in 0..n
    BY <1>1
  <2> HIDE DEF Holds
  <2> QED BY <2>1, <1>5
<1> QED BY <1>1, <1>2, <1>6 DEF n

LabelsOf(s) == {x.source : x \in ToSet(s)}

\* What a source offers in a pass is in the list and carries its label.
ChoicesFrom(candidates, source, now, pass) ==
  SampleAt(OfSource(candidates, source), pass + 1, now)

LEMMA ChoicesOfASource ==
  ASSUME NEW X, NEW c \in Seq(X), Distinct(c), NEW source, NEW now \in Nat, NEW pass \in Nat
  PROVE  /\ ChoicesFrom(c, source, now, pass) \in Seq(X)
         /\ ToSet(ChoicesFrom(c, source, now, pass)) \subseteq {x \in ToSet(c) : x.source = source}
         /\ Len(ChoicesFrom(c, source, now, pass)) <= pass + 1
         /\ source \in LabelsOf(c) => Len(ChoicesFrom(c, source, now, pass)) > 0
<1> DEFINE all == OfSource(c, source)
           those == {x \in ToSet(c) : x.source = source}
<1>1. all \in Seq(X) /\ Distinct(all) /\ ToSet(all) = those
  <2>1. all = Those(c, those)
    BY DEF OfSource
  <2>2. ToSet(c) \cap those = those
    OBVIOUS
  <2> HIDE DEF all, those
  <2> QED BY <2>1, <2>2, ThoseAreChosen
<1>2. pass + 1 \in Nat \ {0}
  OBVIOUS
<1>3. ChoicesFrom(c, source, now, pass) = SampleAt(all, pass + 1, now)
  BY DEF ChoicesFrom
<1> HIDE DEF all
<1>4. /\ SampleAt(all, pass + 1, now) \in Seq(X)
      /\ ToSet(SampleAt(all, pass + 1, now)) \subseteq ToSet(all)
      /\ Len(SampleAt(all, pass + 1, now)) = Least(pass + 1, Len(all))
  BY <1>1, <1>2, SampleIsSpread
<1>5. Len(all) \in Nat
  BY <1>1
<1>6. source \in LabelsOf(c) => Len(all) > 0
  <2> SUFFICES ASSUME those # {} PROVE Len(all) > 0
    BY DEF LabelsOf
  <2>1. PICK i \in DOMAIN all : TRUE
    BY <1>1 DEF ToSet
  <2> QED BY <2>1, <1>1
<1> QED BY <1>1, <1>2, <1>3, <1>4, <1>5, <1>6 DEF Least

\* f holds what is taken after each of the sources.
IsPass(f, c, limit, now, taken, pass) ==
  /\ f[0] = taken
  /\ \A k \in 1..Len(CuratedSources) :
       f[k] = TakeNew(f[k - 1], ChoicesFrom(c, CuratedSources[k], now, pass), limit)
  /\ SourcesPass(c, limit, now, taken, pass) = f[Len(CuratedSources)]

\* The loop over the sources.
LEMMA SourcesLoop ==
  ASSUME NEW X, NEW c \in Seq(X), Distinct(c), NEW limit \in Nat, NEW now \in Nat,
         NEW taken \in Seq(X), NEW pass \in Nat
  PROVE  \E f : IsPass(f, c, limit, now, taken, pass)
<1> DEFINE n == Len(CuratedSources)
           S == Seq(X)
           Offer(sofar, source) == TakeNew(sofar, ChoicesFrom(c, source, now, pass), limit)
           step == [p \in S \X (1..n) |-> Offer(p[1], CuratedSources[p[2]])]
           Fold(it) == it = [s \in SUBSET DOMAIN CuratedSources |->
                               IF s = {} THEN taken
                               ELSE Offer(it[s \ {Max(s)}], CuratedSources[Max(s)])]
<1>1. n \in Nat /\ DOMAIN CuratedSources = 1..n /\ taken \in S
  BY SamplingAssumption
<1>2. IsStep(step, S, n)
  <2>1. ASSUME NEW s \in S, NEW i \in 1..n PROVE Offer(s, CuratedSources[i]) \in S
    <3>1. ChoicesFrom(c, CuratedSources[i], now, pass) \in S
      BY ChoicesOfASource
    <3> QED BY <3>1, TakeNewKeeps
  <2> HIDE DEF S, n, Offer
  <2> QED BY <2>1 DEF IsStep
<1>3. PICK it : IsFold(it, S, taken, step, n)
  <2> HIDE DEF n, S, step
  <2> QED BY <1>1, <1>2, FoldExists
<1>4. ASSUME NEW s \in SUBSET (1..n)
      PROVE  it[s] = IF s = {} THEN taken ELSE Offer(it[s \ {Max(s)}], CuratedSources[Max(s)])
  <2>1. CASE s = {}
    BY <2>1, <1>3 DEF IsFold
  <2>2. CASE s # {}
    <3>1. Max(s) \in 1..n /\ it[s \ {Max(s)}] \in S
      BY <2>2, <1>1, <1>3, MaxIsMember DEF IsFold
    <3> HIDE DEF S, Offer
    <3> QED BY <3>1, <2>2, <1>3 DEF IsFold
  <2> QED BY <2>1, <2>2
<1>5. Fold(it)
  <2> HIDE DEF S, step, Offer
  <2> QED BY <1>1, <1>3, <1>4 DEF IsFold
<1>6. SourcesPass(c, limit, now, taken, pass)
        = (CHOOSE it2 : Fold(it2))[DOMAIN CuratedSources]
  BY DEF SourcesPass, FoldLeft, MapThenFoldSet, ChoicesFrom
<1>7. PICK g : Fold(g) /\ SourcesPass(c, limit, now, taken, pass) = g[1..n]
  <2> HIDE DEF Fold, n
  <2> QED BY <1>1, <1>5, <1>6
<1> DEFINE f == [k \in 0..n |-> g[1..k]]
<1>8. f[0] = taken
  BY <1>1, <1>7
<1>9. ASSUME NEW k \in 1..n PROVE f[k] = Offer(f[k - 1], CuratedSources[k])
  <2>1. g[1..k] = Offer(g[1..(k - 1)], CuratedSources[k])
    <3>1. /\ Max(1..k) = k /\ (1..k) \ {k} = 1..(k - 1) /\ 1..k # {}
          /\ 1..k \in SUBSET DOMAIN CuratedSources
      <4> HIDE DEF n
      <4> QED BY <1>1, FirstPositions
    <3> HIDE DEF Offer
    <3> QED BY <1>7, <3>1
  <2> HIDE DEF Offer
  <2> QED BY <2>1, <1>1
<1>10. SourcesPass(c, limit, now, taken, pass) = f[n]
  BY <1>1, <1>7
<1> QED BY <1>8, <1>9, <1>10 DEF IsPass

\* A pass loses no route and exceeds no limit.
LEMMA SourcesPassKeeps ==
  ASSUME NEW X, NEW c \in Seq(X), Distinct(c), NEW limit \in Nat, NEW now \in Nat,
         NEW taken \in Seq(X), NEW pass \in Nat,
         Distinct(taken), Len(taken) <= limit, ToSet(taken) \subseteq ToSet(c)
  PROVE  /\ SourcesPass(c, limit, now, taken, pass) \in Seq(X)
         /\ Distinct(SourcesPass(c, limit, now, taken, pass))
         /\ Len(SourcesPass(c, limit, now, taken, pass)) <= limit
         /\ ToSet(taken) \subseteq ToSet(SourcesPass(c, limit, now, taken, pass))
         /\ ToSet(SourcesPass(c, limit, now, taken, pass)) \subseteq ToSet(c)
<1> DEFINE n == Len(CuratedSources)
<1>1. n \in Nat
  BY SamplingAssumption
<1>2. PICK f : IsPass(f, c, limit, now, taken, pass)
  BY SourcesLoop
<1>2a. /\ f[0] = taken
       /\ \A k \in 1..n :
            f[k] = TakeNew(f[k - 1], ChoicesFrom(c, CuratedSources[k], now, pass), limit)
       /\ SourcesPass(c, limit, now, taken, pass) = f[n]
  BY <1>2 DEF IsPass
<1> HIDE DEF n
<1> DEFINE Holds(s) == /\ s \in Seq(X) /\ Distinct(s) /\ Len(s) <= limit
                       /\ ToSet(taken) \subseteq ToSet(s) /\ ToSet(s) \subseteq ToSet(c)
           Good == {k \in 0..n : Holds(f[k])}
<1>3. 0 \in Good
  BY <1>1, <1>2a
<1>4. ASSUME NEW k \in 1..n, k - 1 \in Good PROVE k \in Good
  <2> DEFINE choices == ChoicesFrom(c, CuratedSources[k], now, pass)
             s == f[k - 1]
  <2>1. Holds(s)
    BY <1>4
  <2>2. choices \in Seq(X) /\ ToSet(choices) \subseteq ToSet(c)
    BY ChoicesOfASource
  <2>3. f[k] = TakeNew(s, choices, limit)
    BY <1>2a
  <2> HIDE DEF s, choices
  <2>4. Holds(f[k])
    <3>1. /\ TakeNew(s, choices, limit) \in Seq(X)
          /\ ToSet(s) \subseteq ToSet(TakeNew(s, choices, limit))
          /\ ToSet(TakeNew(s, choices, limit)) \subseteq ToSet(s) \cup ToSet(choices)
          /\ Distinct(TakeNew(s, choices, limit))
          /\ Len(TakeNew(s, choices, limit)) <= limit
      BY <2>1, <2>2, TakeNewKeeps
    <3> QED BY <3>1, <2>1, <2>2, <2>3
  <2> QED BY <2>4, <1>1
<1>5. 0..n \subseteq Good
  <2> HIDE DEF Good
  <2> QED BY <1>1, <1>3, <1>4, Induction
<1>6. Holds(f[n])
  <2>1. n \in 0..n
    BY <1>1
  <2> HIDE DEF Holds
  <2> QED BY <2>1, <1>5
<1> QED BY <1>2a, <1>6

\* In a list that names no route twice a route has one candidate.
LEMMA OneForEachRoute ==
  ASSUME NEW X, NEW c \in Seq(X), Distinct(c),
         NEW x \in ToSet(c), NEW y \in ToSet(c), x.route = y.route
  PROVE  x = y
<1>1. PICK i \in DOMAIN c : x = c[i]
  BY DEF ToSet
<1>2. PICK j \in DOMAIN c : y = c[j]
  BY DEF ToSet
<1> QED BY <1>1, <1>2 DEF Distinct

\* s has the one route that each curated source offers in the first pass.
OffersTaken(c, now, s) ==
  \A source \in ToSet(CuratedSources) : ToSet(ChoicesFrom(c, source, now, 0)) \subseteq ToSet(s)

\* Each source that lists a route offers one.
LEMMA TakenFromAll ==
  ASSUME NEW X, NEW c \in Seq(X), Distinct(c), NEW now \in Nat, NEW s, OffersTaken(c, now, s)
  PROVE  Offering(c) \subseteq Offering(s)
<1> SUFFICES ASSUME NEW source \in ToSet(CuratedSources), NEW x \in ToSet(c), x.source = source
             PROVE  \E y \in ToSet(s) : y.source = source
  BY DEF Offering
<1> DEFINE choices == ChoicesFrom(c, source, now, 0)
<1>1. /\ choices \in Seq(X) /\ ToSet(choices) \subseteq {y \in ToSet(c) : y.source = source}
      /\ Len(choices) > 0
  <2>1. 0 \in Nat /\ source \in LabelsOf(c)
    BY DEF LabelsOf
  <2> QED BY <2>1, ChoicesOfASource
<1> HIDE DEF choices
<1>2. choices[1] \in ToSet(choices)
  BY <1>1 DEF ToSet
<1>3. ToSet(choices) \subseteq ToSet(s)
  BY DEF OffersTaken, choices
<1> QED BY <1>1, <1>2, <1>3

\* A list has what its sources offer.
LEMMA OffersOfAll ==
  ASSUME NEW X, NEW c \in Seq(X), Distinct(c), NEW now \in Nat
  PROVE  OffersTaken(c, now, c)
<1>1. 0 \in Nat
  OBVIOUS
<1>2. ASSUME NEW source
      PROVE  ToSet(ChoicesFrom(c, source, now, 0)) \subseteq {x \in ToSet(c) : x.source = source}
  BY <1>1, ChoicesOfASource
<1> QED BY <1>2 DEF OffersTaken

\* If the limit has room for all of them, the first pass takes the route that each
\* curated source offers.
LEMMA FirstPass ==
  ASSUME NEW X, NEW c \in Seq(X), Distinct(c), NEW limit \in Nat, NEW now \in Nat,
         Len(CuratedSources) <= limit
  PROVE  OffersTaken(c, now, SourcesPass(c, limit, now, <<>>, 0))
<1> DEFINE n == Len(CuratedSources)
<1>1. n \in Nat /\ DOMAIN CuratedSources = 1..n
  BY SamplingAssumption
<1>2. PICK f : IsPass(f, c, limit, now, <<>>, 0)
  <2>1. <<>> \in Seq(X) /\ 0 \in Nat
    OBVIOUS
  <2> QED BY <2>1, SourcesLoop
<1>3. /\ f[0] = <<>>
      /\ \A k \in 1..n :
           f[k] = TakeNew(f[k - 1], ChoicesFrom(c, CuratedSources[k], now, 0), limit)
      /\ SourcesPass(c, limit, now, <<>>, 0) = f[n]
  BY <1>2 DEF IsPass
<1> HIDE DEF n
<1> DEFINE Holds(k) ==
             /\ f[k] \in Seq(X) /\ ToSet(f[k]) \subseteq ToSet(c) /\ Len(f[k]) <= k
             /\ \A x \in ToSet(f[k]) : \E i \in 1..k : x.source = CuratedSources[i]
             /\ \A i \in 1..k :
                  ToSet(ChoicesFrom(c, CuratedSources[i], now, 0)) \subseteq ToSet(f[k])
           Good == {k \in 0..n : Holds(k)}
<1>4. 0 \in Good
  <2>1. 1..0 = {}
    OBVIOUS
  <2>2. f[0] \in Seq(X) /\ DOMAIN f[0] = {} /\ Len(f[0]) = 0
    BY <1>3
  <2>3. ToSet(f[0]) = {}
    BY <2>2 DEF ToSet
  <2> QED BY <2>1, <2>2, <2>3, <1>1
<1>5. ASSUME NEW k \in 1..n, k - 1 \in Good PROVE k \in Good
  <2> DEFINE source == CuratedSources[k]
             choices == ChoicesFrom(c, source, now, 0)
             s == f[k - 1]
             t == f[k]
  <2>1. Holds(k - 1) /\ k \in Nat
    BY <1>1, <1>5
  <2>2. t = TakeNew(s, choices, limit)
    BY <1>3
  <2>3. /\ choices \in Seq(X)
        /\ ToSet(choices) \subseteq {x \in ToSet(c) : x.source = source}
        /\ Len(choices) <= 1
    <3> HIDE DEF source
    <3>1. 0 \in Nat /\ 0 + 1 = 1
      OBVIOUS
    <3>2. /\ choices \in Seq(X) /\ Len(choices) <= 0 + 1
          /\ ToSet(choices) \subseteq {x \in ToSet(c) : x.source = source}
      BY <3>1, ChoicesOfASource
    <3> HIDE DEF choices
    <3> QED BY <3>1, <3>2
  <2>4. /\ s \in Seq(X) /\ ToSet(s) \subseteq ToSet(c) /\ Len(s) <= k - 1
        /\ \A x \in ToSet(s) : \E i \in 1..(k - 1) : x.source = CuratedSources[i]
        /\ \A i \in 1..(k - 1) :
             ToSet(ChoicesFrom(c, CuratedSources[i], now, 0)) \subseteq ToSet(s)
    BY <2>1
  <2>5. /\ 1..k = 1..(k - 1) \cup {k} /\ k \notin 1..(k - 1)
        /\ \A i \in 1..(k - 1) : i \in 1..n
    BY <1>1
  <2>6. \A x \in ToSet(s) : x.source # source
    <3> SUFFICES ASSUME NEW x \in ToSet(s), x.source = source PROVE FALSE
      OBVIOUS
    <3>1. PICK i \in 1..(k - 1) : x.source = CuratedSources[i]
      BY <2>4
    <3>2. i \in DOMAIN CuratedSources /\ k \in DOMAIN CuratedSources /\ i # k
      BY <2>5, <1>1
    <3>3. CuratedSources[i] = CuratedSources[k]
      BY <3>1
    <3> QED BY <3>2, <3>3, SamplingAssumption DEF IsInjective
  <2>7. Len(s) \in Nat /\ Len(choices) \in Nat /\ Len(s) < limit
    <3>1. Len(s) \in Nat /\ Len(choices) \in Nat
      BY <2>3, <2>4
    <3>2. k <= n /\ n <= limit
      BY <1>1 DEF n
    <3> HIDE DEF s, choices
    <3> QED BY <3>1, <3>2, <2>1, <2>4, <1>1
  <2> HIDE DEF source, choices, s, t
  <2>8. /\ t \in Seq(X) /\ ToSet(s) \subseteq ToSet(t)
        /\ ToSet(t) \subseteq ToSet(s) \cup ToSet(choices)
        /\ Len(t) <= Len(s) + Len(choices)
        /\ Len(choices) > 0 /\ choices[1].route \notin RoutesOf(s) /\ Len(s) < limit
             => choices[1] \in ToSet(t)
    BY <2>2, <2>3, <2>4, TakeNewKeeps
  <2>9. ToSet(choices) \subseteq ToSet(t)
    <3> SUFFICES ASSUME NEW y \in ToSet(choices) PROVE y \in ToSet(t)
      OBVIOUS
    <3>1. PICK j \in DOMAIN choices : y = choices[j]
      BY DEF ToSet
    <3>2. j = 1 /\ Len(choices) > 0
      <4>1. j \in 1..Len(choices)
        BY <3>1, <2>3
      <4> QED BY <4>1, <2>3, <2>7
    <3>3. y \in ToSet(c) /\ y.source = source
      BY <2>3
    <3>4. choices[1].route \notin RoutesOf(s)
      <4> SUFFICES ASSUME NEW x \in ToSet(s), x.route = choices[1].route PROVE FALSE
        BY DEF RoutesOf
      <4>1. x = y
        BY <3>1, <3>2, <3>3, <2>4, OneForEachRoute
      <4> QED BY <4>1, <3>3, <2>6
    <3> QED BY <3>1, <3>2, <3>4, <2>7, <2>8
  <2>10. Holds(k)
    <3>1. t \in Seq(X) /\ ToSet(t) \subseteq ToSet(c)
      BY <2>3, <2>4, <2>8
    <3>2. Len(t) <= k
      <4>1. Len(t) \in Nat
        BY <2>8
      <4> QED BY <4>1, <2>1, <2>3, <2>4, <2>7, <2>8
    <3>3. \A x \in ToSet(t) : \E i \in 1..k : x.source = CuratedSources[i]
      BY <2>3, <2>4, <2>5, <2>8 DEF source
    <3>4. \A i \in 1..k : ToSet(ChoicesFrom(c, CuratedSources[i], now, 0)) \subseteq ToSet(t)
      BY <2>4, <2>5, <2>8, <2>9 DEF source, choices
    <3> QED BY <3>1, <3>2, <3>3, <3>4 DEF t
  <2> HIDE DEF Holds
  <2> QED BY <2>10, <1>1
<1>6. 0..n \subseteq Good
  <2> HIDE DEF Good
  <2> QED BY <1>1, <1>4, <1>5, Induction
<1>7. Holds(n)
  <2>1. n \in 0..n
    BY <1>1
  <2> HIDE DEF Holds
  <2> QED BY <2>1, <1>6
<1>8. OffersTaken(c, now, f[n])
  <2> SUFFICES ASSUME NEW source \in ToSet(CuratedSources)
               PROVE  ToSet(ChoicesFrom(c, source, now, 0)) \subseteq ToSet(f[n])
    BY DEF OffersTaken
  <2>1. PICK i \in 1..n : source = CuratedSources[i]
    BY <1>1 DEF ToSet
  <2> QED BY <2>1, <1>7
<1> QED BY <1>3, <1>8

\* f holds the state of the loop of SamplePreferredBySource after each pass.
IsPasses(f, c, limit, now) ==
  /\ f[0] = [taken |-> <<>>, over |-> FALSE]
  /\ \A k \in 1..limit :
       f[k] = IF f[k - 1].over THEN f[k - 1]
              ELSE [taken |-> SourcesPass(c, limit, now, f[k - 1].taken, k - 1),
                    over  |-> SourcesPass(c, limit, now, f[k - 1].taken, k - 1)
                                = f[k - 1].taken]
  /\ SamplePreferredBySource(c, limit, now) = f[limit].taken

\* What a pass may leave: some of the candidates, not more than the limit.
Takings(X, c, limit) ==
  {s \in Seq(X) : Distinct(s) /\ Len(s) <= limit /\ ToSet(s) \subseteq ToSet(c)}

\* The loop of the passes.
LEMMA PassesLoop ==
  ASSUME NEW X, NEW c \in Seq(X), Distinct(c), NEW limit \in Nat \ {0}, NEW now \in Nat,
         limit < Len(c)
  PROVE  \E f : IsPasses(f, c, limit, now)
<1> DEFINE base == [taken |-> <<>>, over |-> FALSE]
           T == Takings(X, c, limit)
           S == [taken : T, over : BOOLEAN]
           passes == [i \in 1..limit |-> i - 1]
           Pass(loop, pass) ==
             IF loop.over THEN loop
             ELSE [taken |-> SourcesPass(c, limit, now, loop.taken, pass),
                   over  |-> SourcesPass(c, limit, now, loop.taken, pass) = loop.taken]
           step == [p \in S \X (1..limit) |-> Pass(p[1], passes[p[2]])]
           Fold(it) == it = [s \in SUBSET DOMAIN passes |->
                               IF s = {} THEN base
                               ELSE Pass(it[s \ {Max(s)}], passes[Max(s)])]
<1>1. base \in S /\ DOMAIN passes = 1..limit /\ limit \in Nat
  <2>1. <<>> \in T
    BY DEF Takings, Distinct, ToSet
  <2> HIDE DEF T
  <2> QED BY <2>1
<1>2. IsStep(step, S, limit)
  <2>1. ASSUME NEW loop \in S, NEW i \in 1..limit PROVE Pass(loop, passes[i]) \in S
    <3>1. /\ passes[i] \in Nat /\ loop.taken \in Seq(X) /\ Distinct(loop.taken)
          /\ Len(loop.taken) <= limit /\ ToSet(loop.taken) \subseteq ToSet(c)
      BY DEF Takings
    <3> DEFINE next == SourcesPass(c, limit, now, loop.taken, passes[i])
    <3>2. next \in Seq(X) /\ Distinct(next) /\ Len(next) <= limit
          /\ ToSet(next) \subseteq ToSet(c)
      <4> HIDE DEF passes, S
      <4> QED BY <3>1, <1>1, SourcesPassKeeps
    <3>3. next \in T
      BY <3>2 DEF Takings
    <3> DEFINE over == next = loop.taken
    <3>4. Pass(loop, passes[i]) = IF loop.over THEN loop
                                  ELSE [taken |-> next, over |-> over]
      OBVIOUS
    <3>5. over \in BOOLEAN
      OBVIOUS
    <3> HIDE DEF T, next, over, Pass, passes
    <3>6. [taken |-> next, over |-> over] \in S
      BY <3>3, <3>5
    <3> HIDE DEF S
    <3> QED BY <3>4, <3>6
  <2> HIDE DEF S, Pass, passes
  <2> QED BY <2>1 DEF IsStep
<1>3. PICK it : IsFold(it, S, base, step, limit)
  <2> HIDE DEF S, step, base
  <2> QED BY <1>1, <1>2, FoldExists
<1>4. ASSUME NEW s \in SUBSET (1..limit)
      PROVE  it[s] = IF s = {} THEN base ELSE Pass(it[s \ {Max(s)}], passes[Max(s)])
  <2> HIDE DEF S, Pass, base, passes
  <2>1. CASE s = {}
    BY <2>1, <1>3 DEF IsFold
  <2>2. CASE s # {}
    <3>1. Max(s) \in 1..limit /\ it[s \ {Max(s)}] \in S
      BY <2>2, <1>1, <1>3, MaxIsMember DEF IsFold
    <3> QED BY <3>1, <2>2, <1>3 DEF IsFold
  <2> QED BY <2>1, <2>2
<1>5. Fold(it)
  <2> HIDE DEF S, step, Pass, base, passes
  <2> QED BY <1>1, <1>3, <1>4 DEF IsFold
<1>6. SamplePreferredBySource(c, limit, now)
        = (CHOOSE it2 : Fold(it2))[DOMAIN passes].taken
  <2>1. ~(limit <= 0 \/ Len(c) <= limit)
    OBVIOUS
  <2> QED BY <2>1 DEF SamplePreferredBySource, FoldLeft, MapThenFoldSet
<1>7. PICK g : Fold(g) /\ SamplePreferredBySource(c, limit, now) = g[1..limit].taken
  <2> HIDE DEF Fold, passes
  <2> QED BY <1>1, <1>5, <1>6
<1> DEFINE f == [k \in 0..limit |-> g[1..k]]
<1>8. f[0] = base
  <2>1. 1..0 = {} /\ {} \in SUBSET DOMAIN passes
    OBVIOUS
  <2> HIDE DEF Pass, base, passes
  <2> QED BY <2>1, <1>1, <1>7
<1>9. ASSUME NEW k \in 1..limit PROVE f[k] = Pass(f[k - 1], k - 1)
  <2>1. g[1..k] = Pass(g[1..(k - 1)], passes[k])
    <3>1. /\ Max(1..k) = k /\ (1..k) \ {k} = 1..(k - 1) /\ 1..k # {}
          /\ 1..k \in SUBSET DOMAIN passes
      BY <1>1, FirstPositions
    <3> HIDE DEF Pass, passes, base
    <3> QED BY <1>7, <3>1
  <2>2. passes[k] = k - 1
    OBVIOUS
  <2> HIDE DEF Pass, passes
  <2> QED BY <2>1, <2>2, <1>1
<1>10. SamplePreferredBySource(c, limit, now) = f[limit].taken
  <2>1. limit \in 0..limit
    OBVIOUS
  <2>2. f[limit] = g[1..limit]
    BY <2>1
  <2> HIDE DEF f, Fold
  <2> QED BY <2>2, <1>7
<1> HIDE DEF f
<1> QED BY <1>8, <1>9, <1>10 DEF IsPasses

\* The sample of the curated routes names none twice and exceeds no limit; with room
\* for every source or for every route, it has the route that each of them offers.
LEMMA PreferredSample ==
  ASSUME NEW X, NEW c \in Seq(X), Distinct(c), NEW limit \in Nat \ {0}, NEW now \in Nat
  PROVE  /\ SamplePreferredBySource(c, limit, now) \in Takings(X, c, limit)
         /\ Len(CuratedSources) <= limit \/ Len(c) <= limit
              => OffersTaken(c, now, SamplePreferredBySource(c, limit, now))
<1>1. CASE Len(c) <= limit
  <2>1. SamplePreferredBySource(c, limit, now) = c
    BY <1>1 DEF SamplePreferredBySource
  <2>2. OffersTaken(c, now, c)
    BY OffersOfAll
  <2> QED BY <2>1, <2>2, <1>1 DEF Takings
<1>2. CASE ~(Len(c) <= limit)
  <2>1. PICK f : IsPasses(f, c, limit, now)
    <3>1. limit < Len(c)
      BY <1>2
    <3> QED BY <3>1, PassesLoop
  <2>2. f[0] = [taken |-> <<>>, over |-> FALSE]
    BY <2>1 DEF IsPasses
  <2>3. SamplePreferredBySource(c, limit, now) = f[limit].taken
    BY <2>1 DEF IsPasses
  <2> DEFINE room == Len(CuratedSources) <= limit
             Holds(k) == /\ f[k].taken \in Takings(X, c, limit)
                         /\ k > 0 /\ room => OffersTaken(c, now, f[k].taken)
             Good == {k \in 0..limit : Holds(k)}
  <2>4. 0 \in Good
    <3>1. <<>> \in Takings(X, c, limit)
      BY DEF Takings, Distinct, ToSet
    <3> QED BY <3>1, <2>2
  <2>5. ASSUME NEW k \in 1..limit, k - 1 \in Good PROVE k \in Good
    <3> DEFINE s == f[k - 1].taken
               t == SourcesPass(c, limit, now, s, k - 1)
    <3>1. Holds(k - 1) /\ k - 1 \in Nat /\ limit \in Nat
      BY <2>5
    <3>2. s \in Seq(X) /\ Distinct(s) /\ Len(s) <= limit /\ ToSet(s) \subseteq ToSet(c)
      BY <3>1 DEF Takings
    <3>3. f[k] = IF f[k - 1].over THEN f[k - 1] ELSE [taken |-> t, over |-> t = s]
      BY <2>1 DEF IsPasses
    <3> HIDE DEF s
    <3>4. /\ t \in Seq(X) /\ Distinct(t) /\ Len(t) <= limit
          /\ ToSet(s) \subseteq ToSet(t) /\ ToSet(t) \subseteq ToSet(c)
      BY <3>1, <3>2, SourcesPassKeeps
    <3>5. CASE f[k - 1].over
      <4>1. f[k] = f[k - 1] /\ k - 1 # 0
        BY <3>3, <3>5, <2>2
      <4>2. k - 1 > 0
        BY <4>1
      <4> QED BY <4>1, <4>2, <3>1
    <3>6. CASE ~f[k - 1].over
      <4>1. f[k].taken = t
        BY <3>3, <3>6
      <4>2. t \in Takings(X, c, limit)
        BY <3>4 DEF Takings
      <4>3. room => OffersTaken(c, now, t)
        <5> SUFFICES ASSUME room PROVE OffersTaken(c, now, t)
          OBVIOUS
        <5>1. CASE k = 1
          <6>1. s = <<>> /\ k - 1 = 0
            BY <5>1, <2>2 DEF s
          <6> QED BY <6>1, <3>1, FirstPass
        <5>2. CASE k # 1
          <6>1. k - 1 > 0
            BY <5>2
          <6>2. OffersTaken(c, now, s)
            BY <6>1, <3>1 DEF s
          <6> QED BY <6>2, <3>4 DEF OffersTaken
        <5> QED BY <5>1, <5>2
      <4> HIDE DEF t
      <4> QED BY <4>1, <4>2, <4>3
    <3> QED BY <3>5, <3>6
  <2>6. 0..limit \subseteq Good
    <3>1. limit \in Nat
      OBVIOUS
    <3> HIDE DEF Good
    <3> QED BY <3>1, <2>4, <2>5, Induction
  <2>7. Holds(limit)
    <3>1. limit \in 0..limit
      OBVIOUS
    <3> HIDE DEF Holds
    <3> QED BY <3>1, <2>6
  <2>8. Len(CuratedSources) <= limit \/ Len(c) <= limit => room
    BY <1>2
  <2> HIDE DEF room
  <2> QED BY <2>3, <2>7, <2>8
<1> QED BY <1>1, <1>2

-----------------------------------------------------------------------------
(* The selection.                                                          *)

\* The routes of a list that another does not name.
OthersOf(c, s) == RoutesOf(c) \ RoutesOf(s)

\* w is a sample of such routes that fills what the limit leaves, as long as there
\* are any.
IsSampleOfOthers(X, c, s, limit, w) ==
  /\ w \in Seq(X) /\ ToSet(w) \subseteq ToSet(c) /\ Distinct(s \o w)
  /\ Len(w) = Least(limit, Cardinality(OthersOf(c, s)))

\* The sample SampleWithoutRoutes takes.
LEMMA SampleOfOthers ==
  ASSUME NEW X, NEW c \in Seq(X), Distinct(c), NEW s \in Seq(X), Distinct(s),
         NEW limit \in Nat, NEW now \in Nat
  PROVE  IsSampleOfOthers(X, c, s, limit, SampleWithoutRoutes(c, s, limit, now))
<1> DEFINE others == {x \in ToSet(c) : x.route \notin RoutesOf(s)}
           fresh  == FreshOf(c, s)
           w      == SampleWithoutRoutes(c, s, limit, now)
<1>1. fresh \in Seq(X) /\ Distinct(fresh) /\ ToSet(fresh) = others
  <2>1. fresh = Those(c, others)
    BY DEF FreshOf
  <2>2. ToSet(c) \cap others = others
    OBVIOUS
  <2> HIDE DEF fresh, others
  <2> QED BY <2>1, <2>2, ThoseAreChosen
<1>2. RoutesOf(fresh) = OthersOf(c, s)
  BY <1>1 DEF RoutesOf, OthersOf
<1>3. w = IF limit <= 0 THEN <<>> ELSE SampleAt(fresh, limit, now)
  BY DEF SampleWithoutRoutes
<1> HIDE DEF fresh, w
<1>4. Cardinality(OthersOf(c, s)) = Len(fresh)
  BY <1>1, <1>2, LengthOfRoutes
<1>5. Len(fresh) \in Nat
  BY <1>1
<1>6. /\ w \in Seq(X) /\ Distinct(w) /\ ToSet(w) \subseteq ToSet(fresh)
      /\ Len(w) = Least(limit, Len(fresh))
  <2>1. CASE limit = 0
    <3>1. w = <<>>
      BY <2>1, <1>3
    <3>2. Distinct(w) /\ ToSet(w) = {} /\ w \in Seq(X) /\ Len(w) = 0
      BY <3>1 DEF Distinct, ToSet
    <3> QED BY <3>2, <2>1, <1>5 DEF Least
  <2>2. CASE limit # 0
    <3>1. w = SampleAt(fresh, limit, now) /\ limit \in Nat \ {0}
      BY <2>2, <1>3
    <3> QED BY <3>1, <1>1, SampleIsSpread
  <2> QED BY <2>1, <2>2
<1>7. RoutesOf(s) \cap RoutesOf(w) = {} /\ ToSet(w) \subseteq ToSet(c)
  BY <1>1, <1>6 DEF RoutesOf
<1>8. Distinct(s \o w)
  BY <1>6, <1>7, Joined
<1> QED BY <1>4, <1>6, <1>7, <1>8 DEF w, IsSampleOfOthers

\* The curated routes and the others share out the incoming ones.
LEMMA CuratedAndBroader ==
  ASSUME NEW X, NEW c \in Seq(X), Distinct(c)
  PROVE  /\ CuratedOf(c) \in Seq(X) /\ Distinct(CuratedOf(c))
         /\ ToSet(CuratedOf(c)) \subseteq ToSet(c)
         /\ LabelsOf(CuratedOf(c)) \subseteq ToSet(CuratedSources)
         /\ BroaderOf(c) \in Seq(X) /\ Distinct(BroaderOf(c))
         /\ ToSet(BroaderOf(c)) \subseteq ToSet(c)
         /\ ToSet(CuratedOf(c)) \cup ToSet(BroaderOf(c)) = ToSet(c)
         /\ ToSet(CuratedOf(c)) = {x \in ToSet(c) : x.source \in ToSet(CuratedSources)}
         /\ RoutesOf(CuratedOf(c)) \cap RoutesOf(BroaderOf(c)) = {}
         /\ Len(CuratedOf(c)) + Len(BroaderOf(c)) = Len(c)
         /\ Offering(CuratedOf(c)) = Offering(c)
<1> DEFINE own   == {x \in ToSet(c) : x.source \in ToSet(CuratedSources)}
           other == {x \in ToSet(c) : x.source \notin ToSet(CuratedSources)}
           p == CuratedOf(c)
           b == BroaderOf(c)
<1>1. p \in Seq(X) /\ Distinct(p) /\ ToSet(p) = own
  <2>1. p = Those(c, own) /\ ToSet(c) \cap own = own
    BY DEF CuratedOf
  <2> HIDE DEF p, own
  <2> QED BY <2>1, ThoseAreChosen
<1>2. b \in Seq(X) /\ Distinct(b) /\ ToSet(b) = other
  <2>1. b = Those(c, other) /\ ToSet(c) \cap other = other
    BY DEF BroaderOf
  <2> HIDE DEF b, other
  <2> QED BY <2>1, ThoseAreChosen
<1> HIDE DEF p, b
<1>3. RoutesOf(p) \cap RoutesOf(b) = {}
  <2> SUFFICES ASSUME NEW x \in ToSet(p), NEW y \in ToSet(b), x.route = y.route
               PROVE  FALSE
    BY DEF RoutesOf
  <2>1. x = y
    BY <1>1, <1>2, OneForEachRoute
  <2> QED BY <2>1, <1>1, <1>2
<1>4. RoutesOf(p) \cup RoutesOf(b) = RoutesOf(c)
  BY <1>1, <1>2 DEF RoutesOf
<1>5. Len(p) + Len(b) = Len(c)
  <2>1. /\ IsFiniteSet(RoutesOf(p)) /\ Cardinality(RoutesOf(p)) = Len(p)
        /\ IsFiniteSet(RoutesOf(b)) /\ Cardinality(RoutesOf(b)) = Len(b)
        /\ Cardinality(RoutesOf(c)) = Len(c)
    BY <1>1, <1>2, LengthOfRoutes
  <2>2. Len(p) \in Nat /\ Len(b) \in Nat
    BY <1>1, <1>2
  <2>3. Cardinality(RoutesOf(p) \cup RoutesOf(b))
          = Cardinality(RoutesOf(p)) + Cardinality(RoutesOf(b))
              - Cardinality(RoutesOf(p) \cap RoutesOf(b))
    BY <2>1, FS_Union
  <2>4. Cardinality({}) = 0
    BY FS_EmptySet
  <2>5. Cardinality(RoutesOf(p) \cap RoutesOf(b)) = 0
    BY <2>4, <1>3, Zenon
  <2>6. Cardinality(RoutesOf(p) \cup RoutesOf(b)) = Len(c)
    BY <2>1, <1>4, Zenon
  <2> QED BY <2>1, <2>2, <2>3, <2>5, <2>6
<1>6. Offering(p) = Offering(c) /\ LabelsOf(p) \subseteq ToSet(CuratedSources)
  BY <1>1 DEF Offering, LabelsOf
<1>7. ToSet(p) \cup ToSet(b) = ToSet(c)
  BY <1>1, <1>2
<1> QED BY <1>1, <1>2, <1>3, <1>5, <1>6, <1>7 DEF p, b

\* With slots reserved for one route of each curated source, or for all their routes,
\* s has the route that each of them offers.
HaveATurn(e, c, now, s) ==
  (Reserved(e, c, Limit) >= Len(CuratedSources) \/ Reserved(e, c, Limit) >= Len(CuratedOf(c)))
    => OffersTaken(CuratedOf(c), now, s)

\* s is the list e and some of the list c.
IsExtension(e, c, s) == ToSet(e) \subseteq ToSet(s) /\ ToSet(s) \subseteq ToSet(e) \cup ToSet(c)

\* The sample for the reserved slots fits the worker.
LEMMA ReservedSample ==
  ASSUME NEW X, NEW e \in Seq(X), NEW c \in Seq(X), Distinct(c), NEW now \in Nat,
         Len(e) < Limit,
         NEW p, p = SamplePreferredBySource(CuratedOf(c), Reserved(e, c, Limit), now)
  PROVE  /\ p \in Seq(X) /\ Distinct(p) /\ ToSet(p) \subseteq ToSet(CuratedOf(c))
         /\ Len(p) <= Limit - Len(e)
         /\ HaveATurn(e, c, now, p)
<1> DEFINE own == CuratedOf(c)
           r   == Reserved(e, c, Limit)
<1>1. /\ own \in Seq(X) /\ Distinct(own)
      /\ Limit \in Nat \ {0} /\ CuratedSlots \in Nat \ {0} /\ Len(e) \in Nat
  BY CuratedAndBroader, SamplingAssumption
<1>2. Len(own) \in Nat
  BY <1>1
<1>3. r = Least(Least(Limit - Len(e), CuratedSlots), Len(own))
  BY DEF Reserved
<1> HIDE DEF own, r
<1>4. r \in Nat /\ r <= Limit - Len(e) /\ (r = 0 => Len(own) = 0)
  BY <1>1, <1>2, <1>3 DEF Least
<1>5. CASE r = 0
  <2>1. SamplePreferredBySource(own, r, now) = own
    <3>1. r <= 0
      BY <1>4, <1>5
    <3> QED BY <3>1, Zenon DEF SamplePreferredBySource
  <2>2. p = own
    BY <2>1 DEF own, r
  <2>3. HaveATurn(e, c, now, p)
    BY <2>2, <1>1, OffersOfAll DEF HaveATurn, own
  <2> QED BY <2>2, <2>3, <1>1, <1>4, <1>5 DEF own
<1>6. CASE r # 0
  <2>1. r \in Nat \ {0} /\ p = SamplePreferredBySource(own, r, now)
    BY <1>4, <1>6 DEF own, r
  <2>2. /\ p \in Takings(X, own, r)
        /\ Len(CuratedSources) <= r \/ Len(own) <= r => OffersTaken(own, now, p)
    BY <2>1, <1>1, PreferredSample
  <2>3. p \in Seq(X) /\ Distinct(p) /\ Len(p) <= r /\ ToSet(p) \subseteq ToSet(own)
    BY <2>2 DEF Takings
  <2>4. Len(p) <= Limit - Len(e)
    <3>1. Len(p) \in Nat
      BY <2>3
    <3> QED BY <3>1, <2>3, <1>1, <1>4
  <2>5. HaveATurn(e, c, now, p)
    <3>1. Len(CuratedSources) \in Nat
      BY SamplingAssumption
    <3>2. r >= Len(CuratedSources) \/ r >= Len(own) => OffersTaken(own, now, p)
      BY <3>1, <2>2, <1>2, <1>4
    <3> QED BY <3>2 DEF own, r, HaveATurn
  <2> QED BY <2>3, <2>4, <2>5 DEF own
<1> QED BY <1>5, <1>6

\* A selection names no route twice and has as many as the limit admits or there are;
\* and with a reserve for all of them it has the route that each curated source offers.
LEMMA Selection ==
  ASSUME NEW X, NEW e \in Seq(X), NEW c \in Seq(X), Distinct(e), Distinct(c),
         RoutesOf(e) \cap RoutesOf(c) = {}, NEW now \in Nat, Len(e) < Limit
  PROVE  /\ SelectRefreshCandidates(e, c, Limit, now) \in Seq(X)
         /\ Distinct(SelectRefreshCandidates(e, c, Limit, now))
         /\ Len(SelectRefreshCandidates(e, c, Limit, now)) = Least(Limit, Len(e) + Len(c))
         /\ HaveATurn(e, c, now, SelectRefreshCandidates(e, c, Limit, now))
         /\ IsExtension(e, c, SelectRefreshCandidates(e, c, Limit, now))
<1> DEFINE own    == CuratedOf(c)
           broad  == BroaderOf(c)
           p      == SamplePreferredBySource(own, Reserved(e, c, Limit), now)
           first  == e \o p
           left   == Limit - Len(first)
           w      == SampleWithoutRoutes(broad, first, left, now)
           second == first \o w
           rest   == Limit - Len(second)
           v      == SampleWithoutRoutes(own, second, rest, now)
           all    == second \o v
<1>1. SelectRefreshCandidates(e, c, Limit, now) = all
  <2>1. ~(Len(e) > Limit)
    BY SamplingAssumption
  <2> QED BY <2>1 DEF SelectRefreshCandidates
<1>2. /\ own \in Seq(X) /\ Distinct(own) /\ ToSet(own) \subseteq ToSet(c)
      /\ broad \in Seq(X) /\ Distinct(broad) /\ ToSet(broad) \subseteq ToSet(c)
      /\ RoutesOf(own) \cap RoutesOf(broad) = {}
      /\ Len(own) + Len(broad) = Len(c)
  BY CuratedAndBroader
<1>3. /\ p \in Seq(X) /\ Distinct(p) /\ ToSet(p) \subseteq ToSet(own)
      /\ Len(p) <= Limit - Len(e)
      /\ HaveATurn(e, c, now, p)
  <2>1. p = SamplePreferredBySource(CuratedOf(c), Reserved(e, c, Limit), now)
    OBVIOUS
  <2> HIDE DEF p
  <2>2. /\ p \in Seq(X) /\ Distinct(p) /\ ToSet(p) \subseteq ToSet(CuratedOf(c))
        /\ Len(p) <= Limit - Len(e)
    BY <2>1, ReservedSample
  <2>3. HaveATurn(e, c, now, p)
    BY <2>1, ReservedSample
  <2> QED BY <2>2, <2>3
<1>4. /\ RoutesOf(p) \subseteq RoutesOf(own) /\ RoutesOf(own) \subseteq RoutesOf(c)
      /\ RoutesOf(broad) \subseteq RoutesOf(c)
  BY <1>2, <1>3 DEF RoutesOf
<1>5. Limit \in Nat /\ Len(e) \in Nat
  BY SamplingAssumption
<1> HIDE DEF own, broad, p
<1>6. /\ first \in Seq(X) /\ Distinct(first) /\ Len(first) = Len(e) + Len(p)
      /\ ToSet(first) = ToSet(e) \cup ToSet(p)
  <2>1. RoutesOf(e) \cap RoutesOf(p) = {}
    BY <1>4
  <2> QED BY <2>1, <1>3, Joined
<1>7. RoutesOf(first) = RoutesOf(e) \cup RoutesOf(p)
  BY <1>6 DEF RoutesOf
<1>8. Len(p) \in Nat /\ Len(own) \in Nat /\ Len(broad) \in Nat
  BY <1>2, <1>3
<1> HIDE DEF first
<1>9. left \in Nat
  BY <1>3, <1>5, <1>6, <1>8
<1>10. /\ w \in Seq(X) /\ ToSet(w) \subseteq ToSet(broad) /\ Distinct(second)
       /\ Len(w) = Least(left, Cardinality(OthersOf(broad, first)))
  <2> HIDE DEF left
  <2>1. broad \in Seq(X) /\ Distinct(broad) /\ first \in Seq(X) /\ Distinct(first)
    BY <1>2, <1>6
  <2>2. IsSampleOfOthers(X, broad, first, left, w)
    BY <2>1, <1>9, SampleOfOthers
  <2> QED BY <2>2 DEF IsSampleOfOthers
<1>11. Cardinality(OthersOf(broad, first)) = Len(broad)
  <2>1. OthersOf(broad, first) = RoutesOf(broad)
    BY <1>2, <1>4, <1>7 DEF OthersOf
  <2> QED BY <2>1, <1>2, LengthOfRoutes
<1>12. RoutesOf(w) \subseteq RoutesOf(broad)
  BY <1>10 DEF RoutesOf
<1> HIDE DEF w
<1>13. /\ second \in Seq(X) /\ Len(second) = Len(first) + Len(w)
       /\ ToSet(second) = ToSet(first) \cup ToSet(w)
  <2>1. w \in Seq(X) /\ first \in Seq(X)
    BY <1>6, <1>10
  <2> QED BY <2>1, Joined
<1>14. RoutesOf(second) = RoutesOf(first) \cup RoutesOf(w)
  BY <1>13 DEF RoutesOf
<1>15. rest \in Nat /\ Len(w) \in Nat
  <2>1. Len(w) \in Nat /\ Len(w) <= left
    <3> HIDE DEF left
    <3> QED BY <1>8, <1>9, <1>10, <1>11 DEF Least
  <2> QED BY <2>1, <1>9, <1>13, <1>5, <1>6, <1>8
<1> HIDE DEF second
<1>16. /\ v \in Seq(X) /\ Distinct(all) /\ ToSet(v) \subseteq ToSet(own)
       /\ Len(v) = Least(rest, Cardinality(OthersOf(own, second)))
  <2>1. Distinct(second) /\ second \in Seq(X)
    BY <1>10, <1>13
  <2>2. own \in Seq(X) /\ Distinct(own) /\ rest \in Nat
    BY <1>2, <1>15
  <2> HIDE DEF rest
  <2>3. IsSampleOfOthers(X, own, second, rest, v)
    BY <2>1, <2>2, SampleOfOthers
  <2> QED BY <2>3 DEF IsSampleOfOthers
<1>17. Cardinality(OthersOf(own, second)) = Len(own) - Len(p)
       /\ Len(p) <= Len(own)
  <2>1. OthersOf(own, second) = RoutesOf(own) \ RoutesOf(p)
    BY <1>2, <1>4, <1>7, <1>12, <1>14 DEF OthersOf
  <2>2. /\ IsFiniteSet(RoutesOf(own)) /\ Cardinality(RoutesOf(own)) = Len(own)
        /\ IsFiniteSet(RoutesOf(p)) /\ Cardinality(RoutesOf(p)) = Len(p)
    BY <1>2, <1>3, LengthOfRoutes
  <2>3. RoutesOf(own) \cap RoutesOf(p) = RoutesOf(p)
    BY <1>4
  <2>4. Cardinality(RoutesOf(own) \ RoutesOf(p))
          = Cardinality(RoutesOf(own)) - Cardinality(RoutesOf(own) \cap RoutesOf(p))
    BY <2>2, FS_Difference
  <2>5. Cardinality(RoutesOf(p)) <= Cardinality(RoutesOf(own))
    BY <2>2, <1>4, FS_Subset
  <2>6. Cardinality(OthersOf(own, second)) = Len(own) - Len(p)
    BY <2>1, <2>2, <2>3, <2>4
  <2> QED BY <2>2, <2>5, <2>6
<1> HIDE DEF v
<1>18. /\ all \in Seq(X) /\ Len(all) = Len(second) + Len(v)
       /\ ToSet(all) = ToSet(second) \cup ToSet(v)
  <2>1. second \in Seq(X) /\ v \in Seq(X)
    BY <1>13, <1>16
  <2> QED BY <2>1, Joined
<1>19. Len(all) = Least(Limit, Len(e) + Len(c))
  <2> DEFINE ne == Len(e)
             np == Len(p)
             nw == Len(w)
             nv == Len(v)
             no == Len(own)
             nb == Len(broad)
  <2>1. /\ nw = Least(Limit - (ne + np), nb)
        /\ nv = Least(Limit - (ne + np + nw), no - np)
    BY <1>6, <1>10, <1>11, <1>13, <1>16, <1>17
  <2>2. /\ ne \in Nat /\ np \in Nat /\ nw \in Nat /\ nv \in Nat /\ no \in Nat /\ nb \in Nat
        /\ np <= Limit - ne /\ np <= no /\ Limit \in Nat
    BY <1>3, <1>5, <1>8, <1>15, <1>16, <1>17
  <2>3. Len(all) = ne + np + nw + nv /\ no + nb = Len(c)
    BY <1>2, <1>6, <1>13, <1>18
  <2> HIDE DEF ne, np, nw, nv, no, nb
  <2>4. ne + np + nw + nv = Least(Limit, ne + (no + nb))
    BY <2>1, <2>2 DEF Least
  <2>5. Len(all) = Least(Limit, ne + Len(c))
    BY <2>3, <2>4
  <2> QED BY <2>5 DEF ne
<1>20. HaveATurn(e, c, now, all)
  <2>1. ToSet(p) \subseteq ToSet(all)
    BY <1>6, <1>13, <1>18
  <2> QED BY <2>1, <1>3 DEF HaveATurn, OffersTaken
<1>21. IsExtension(e, c, all)
  BY <1>2, <1>3, <1>6, <1>10, <1>13, <1>16, <1>18 DEF IsExtension
<1> QED BY <1>1, <1>3, <1>16, <1>18, <1>19, <1>20, <1>21

\* A catalog that does not fit is sampled.
LEMMA SelectionOfMany ==
  ASSUME NEW X, NEW e \in Seq(X), NEW c \in Seq(X), Distinct(e), NEW now \in Nat,
         Len(e) > Limit
  PROVE  /\ Distinct(SelectRefreshCandidates(e, c, Limit, now))
         /\ SelectRefreshCandidates(e, c, Limit, now) \in Seq(X)
         /\ Len(SelectRefreshCandidates(e, c, Limit, now)) = Least(Limit, Len(e) + Len(c))
         /\ ToSet(SelectRefreshCandidates(e, c, Limit, now)) \subseteq ToSet(e)
<1>1. SelectRefreshCandidates(e, c, Limit, now) = SampleAt(e, Limit, now)
  BY DEF SelectRefreshCandidates
<1>2. Limit \in Nat \ {0} /\ Len(e) \in Nat /\ Len(c) \in Nat
  BY SamplingAssumption
<1>3. /\ Distinct(SampleAt(e, Limit, now)) /\ SampleAt(e, Limit, now) \in Seq(X)
      /\ Len(SampleAt(e, Limit, now)) = Least(Limit, Len(e))
      /\ ToSet(SampleAt(e, Limit, now)) \subseteq ToSet(e)
  BY <1>2, SampleIsSpread
<1>4. Least(Limit, Len(e)) = Least(Limit, Len(e) + Len(c))
  BY <1>2 DEF Least
<1> QED BY <1>1, <1>3, <1>4

\* A catalog that fills the worker exactly takes every curated route with it.
LEMMA SelectionOfExactly ==
  ASSUME NEW X, NEW e \in Seq(X), NEW c \in Seq(X), Distinct(c), NEW now \in Nat,
         Len(e) = Limit
  PROVE  ToSet(SelectRefreshCandidates(e, c, Limit, now)) = ToSet(e) \cup ToSet(CuratedOf(c))
<1> DEFINE own    == CuratedOf(c)
           p      == SamplePreferredBySource(own, Reserved(e, c, Limit), now)
           first  == e \o p
           w      == SampleWithoutRoutes(BroaderOf(c), first, Limit - Len(first), now)
           second == first \o w
           v      == SampleWithoutRoutes(own, second, Limit - Len(second), now)
<1>1. Limit \in Nat /\ CuratedSlots \in Nat \ {0} /\ own \in Seq(X)
  BY CuratedAndBroader, SamplingAssumption
<1>2. SelectRefreshCandidates(e, c, Limit, now) = second \o v
  <2>1. ~(Len(e) > Limit)
    BY <1>1
  <2> QED BY <2>1 DEF SelectRefreshCandidates
<1>3. p = own
  <2>1. Len(own) \in Nat
    BY <1>1
  <2> HIDE DEF own
  <2>2. Reserved(e, c, Limit) <= 0
    BY <2>1, <1>1 DEF Reserved, Least, own
  <2> QED BY <2>2 DEF SamplePreferredBySource
<1> HIDE DEF own, p
<1>4. /\ first \in Seq(X) /\ Limit - Len(first) <= 0
      /\ ToSet(first) = ToSet(e) \cup ToSet(own)
  <2>1. /\ first \in Seq(X) /\ Len(first) = Len(e) + Len(p)
        /\ ToSet(first) = ToSet(e) \cup ToSet(p)
    BY <1>1, <1>3, Joined
  <2>2. Len(p) \in Nat
    BY <1>1, <1>3
  <2> HIDE DEF first
  <2> QED BY <2>1, <2>2, <1>1, <1>3
<1> HIDE DEF first
<1>5. w = <<>>
  BY <1>4 DEF SampleWithoutRoutes
<1> HIDE DEF w
<1>6. second = first
  BY <1>4, <1>5
<1> HIDE DEF second
<1>7. v = <<>>
  BY <1>4, <1>6 DEF SampleWithoutRoutes
<1> HIDE DEF v
<1>8. second \o v = first
  BY <1>4, <1>6, <1>7
<1> QED BY <1>2, <1>4, <1>8 DEF own

-----------------------------------------------------------------------------
(* What the hours reach.                                                   *)

\* The routes of a source in a list.
LEMMA RoutesOfASource ==
  ASSUME NEW X, NEW c \in Seq(X), Distinct(c), NEW source
  PROVE  /\ OfSource(c, source) \in Seq(X)
         /\ ToSet(OfSource(c, source)) = {x \in ToSet(c) : x.source = source}
         /\ Len(OfSource(c, source)) <= Len(c)
<1> DEFINE all   == OfSource(c, source)
           those == {x \in ToSet(c) : x.source = source}
<1>1. all \in Seq(X) /\ Distinct(all) /\ ToSet(all) = those
  <2>1. all = Those(c, those) /\ ToSet(c) \cap those = those
    BY DEF OfSource
  <2> HIDE DEF all, those
  <2> QED BY <2>1, ThoseAreChosen
<1> HIDE DEF all
<1>2. RoutesOf(all) \subseteq RoutesOf(c)
  BY <1>1 DEF RoutesOf
<1>3. /\ Cardinality(RoutesOf(all)) = Len(all)
      /\ IsFiniteSet(RoutesOf(c)) /\ Cardinality(RoutesOf(c)) = Len(c)
  BY <1>1, LengthOfRoutes
<1>4. Len(all) <= Len(c)
  BY <1>2, <1>3, FS_Subset
<1> QED BY <1>1, <1>4 DEF all

\* With a slot for each curated source, every curated route is selected in one of as
\* many hours as routes are offered, whatever the others list.
LEMMA CuratedRoutesAppear ==
  ASSUME NEW X, NEW e \in Seq(X), NEW c \in Seq(X), Distinct(e), Distinct(c),
         RoutesOf(e) \cap RoutesOf(c) = {},
         Len(CuratedSources) <= Least(Limit - Len(e), CuratedSlots),
         NEW from \in Nat, NEW x \in ToSet(CuratedOf(c))
  PROVE  \E now \in from..(from + Len(c) - 1) :
           x \in ToSet(SelectRefreshCandidates(e, c, Limit, now))
<1> DEFINE own    == CuratedOf(c)
           source == x.source
           all    == OfSource(own, source)
           r      == Reserved(e, c, Limit)
<1>1. /\ own \in Seq(X) /\ Distinct(own) /\ LabelsOf(own) \subseteq ToSet(CuratedSources)
      /\ Len(own) <= Len(c)
  <2>1. /\ own \in Seq(X) /\ Distinct(own) /\ LabelsOf(own) \subseteq ToSet(CuratedSources)
        /\ BroaderOf(c) \in Seq(X) /\ Len(own) + Len(BroaderOf(c)) = Len(c)
    BY CuratedAndBroader
  <2>2. Len(own) \in Nat /\ Len(BroaderOf(c)) \in Nat /\ Len(c) \in Nat
    BY <2>1
  <2> HIDE DEF own
  <2> QED BY <2>1, <2>2
<1>2. source \in ToSet(CuratedSources)
  BY <1>1 DEF LabelsOf
<1>3. /\ Limit \in Nat /\ CuratedSlots \in Nat /\ Len(e) \in Nat /\ Len(own) \in Nat
      /\ Len(c) \in Nat /\ Len(CuratedSources) \in Nat
  BY <1>1, SamplingAssumption
<1>4. Len(CuratedSources) > 0
  BY <1>2, SamplingAssumption DEF ToSet
<1>5. r = Least(Least(Limit - Len(e), CuratedSlots), Len(own))
  BY DEF Reserved
<1> HIDE DEF own, source, r
<1>6. Len(e) < Limit
  BY <1>3, <1>4 DEF Least
<1>7. r >= Len(CuratedSources) \/ r >= Len(own)
  BY <1>3, <1>5 DEF Least
<1>8. all \in Seq(X) /\ x \in ToSet(all) /\ Len(all) <= Len(own)
  <2>1. ToSet(all) = {y \in ToSet(own) : y.source = source}
    BY <1>1, RoutesOfASource
  <2>2. all \in Seq(X) /\ Len(all) <= Len(own)
    BY <1>1, RoutesOfASource
  <2> HIDE DEF all
  <2> QED BY <2>1, <2>2 DEF own, source
<1>9. PICK now \in from..(from + Len(all) - 1) : x \in ToSet(SampleAt(all, 1, now))
  <2>1. 1 \in Nat \ {0}
    OBVIOUS
  <2> HIDE DEF all
  <2> QED BY <2>1, <1>8, SampleReachesAll
<1>10. x \in ToSet(ChoicesFrom(own, source, now, 0))
  <2>1. 0 + 1 = 1
    OBVIOUS
  <2> QED BY <2>1, <1>9 DEF ChoicesFrom
<1> HIDE DEF all
<1>11. Len(all) \in Nat
  BY <1>8
<1>12. now \in Nat /\ now \in from..(from + Len(c) - 1)
  BY <1>1, <1>3, <1>8, <1>9, <1>11
<1>13. HaveATurn(e, c, now, SelectRefreshCandidates(e, c, Limit, now))
  BY <1>6, <1>12, Selection
<1>14. OffersTaken(own, now, SelectRefreshCandidates(e, c, Limit, now))
  BY <1>7, <1>13 DEF HaveATurn, own, r
<1>15. x \in ToSet(SelectRefreshCandidates(e, c, Limit, now))
  BY <1>2, <1>10, <1>14 DEF OffersTaken
<1> QED BY <1>12, <1>15

\* The list that is sampled when no source is curated.
Waiting(e, c) == FreshOf(BroaderOf(c), e \o CuratedOf(c))

\* It is all that is offered, in every hour.
LEMMA WaitingRoutes ==
  ASSUME NEW X, NEW e \in Seq(X), NEW c \in Seq(X), Distinct(c),
         RoutesOf(e) \cap RoutesOf(c) = {}, CuratedOf(c) = <<>>
  PROVE  /\ Waiting(e, c) \in Seq(X) /\ Distinct(Waiting(e, c))
         /\ ToSet(Waiting(e, c)) = ToSet(c) /\ Len(Waiting(e, c)) = Len(c)
<1> DEFINE broad == BroaderOf(c)
           first == e \o CuratedOf(c)
           those == {x \in ToSet(broad) : x.route \notin RoutesOf(first)}
           fresh == Waiting(e, c)
<1>1. broad \in Seq(X) /\ Distinct(broad) /\ ToSet(broad) = ToSet(c)
  <2>1. /\ broad \in Seq(X) /\ Distinct(broad)
        /\ ToSet(CuratedOf(c)) \cup ToSet(broad) = ToSet(c)
    BY CuratedAndBroader
  <2>2. ToSet(CuratedOf(c)) = {}
    BY DEF ToSet
  <2> HIDE DEF broad
  <2> QED BY <2>1, <2>2
<1>2. first = e
  OBVIOUS
<1> HIDE DEF broad, first
<1>3. those = ToSet(c)
  BY <1>1, <1>2 DEF RoutesOf
<1>4. fresh \in Seq(X) /\ Distinct(fresh) /\ ToSet(fresh) = ToSet(c)
  <2>1. fresh = Those(broad, those)
    BY DEF Waiting, FreshOf, broad, first
  <2> HIDE DEF fresh, those
  <2>2. ToSet(broad) \cap those = ToSet(c)
    BY <1>1, <1>3
  <2>3. /\ Those(broad, those) \in Seq(X) /\ Distinct(Those(broad, those))
        /\ ToSet(Those(broad, those)) = ToSet(broad) \cap those
    BY <1>1, ThoseAreChosen
  <2> QED BY <2>1, <2>2, <2>3
<1> HIDE DEF fresh
<1>5. Len(fresh) = Len(c)
  <2>1. RoutesOf(fresh) = RoutesOf(c)
    BY <1>4 DEF RoutesOf
  <2> QED BY <2>1, <1>4, LengthOfRoutes
<1> QED BY <1>4, <1>5 DEF fresh

\* Without curated sources an hour selects the catalog and a sample of that list.
LEMMA SampleOfWaiting ==
  ASSUME NEW X, NEW e \in Seq(X), NEW c \in Seq(X), Distinct(e), Distinct(c),
         RoutesOf(e) \cap RoutesOf(c) = {}, Len(e) < Limit, CuratedOf(c) = <<>>,
         NEW now \in Nat
  PROVE  ToSet(SelectRefreshCandidates(e, c, Limit, now))
           = ToSet(e) \cup ToSet(SampleAt(Waiting(e, c), Limit - Len(e), now))
<1> DEFINE own    == CuratedOf(c)
           broad  == BroaderOf(c)
           p      == SamplePreferredBySource(own, Reserved(e, c, Limit), now)
           first  == e \o p
           left   == Limit - Len(first)
           w      == SampleWithoutRoutes(broad, first, left, now)
           second == first \o w
           rest   == Limit - Len(second)
           v      == SampleWithoutRoutes(own, second, rest, now)
<1>1. Limit \in Nat /\ CuratedSlots \in Nat \ {0} /\ Len(e) \in Nat
  BY SamplingAssumption
<1>2. SelectRefreshCandidates(e, c, Limit, now) = second \o v
  <2>1. ~(Len(e) > Limit)
    BY <1>1
  <2> QED BY <2>1 DEF SelectRefreshCandidates
<1>3. p = <<>> /\ own = <<>>
  <2>1. Len(own) <= Reserved(e, c, Limit)
    BY <1>1 DEF Reserved, Least
  <2> QED BY <2>1 DEF SamplePreferredBySource
<1> HIDE DEF own, p
<1>4. first = e /\ left = Limit - Len(e)
  BY <1>3
<1>5. left \in Nat \ {0}
  BY <1>1, <1>4
<1> HIDE DEF first, left
<1>6. w = SampleAt(Waiting(e, c), left, now)
  <2>1. ~(left <= 0)
    BY <1>5
  <2>2. FreshOf(broad, first) = Waiting(e, c)
    BY <1>3, <1>4 DEF Waiting, own
  <2> HIDE DEF broad
  <2> QED BY <2>1, <2>2 DEF SampleWithoutRoutes
<1>7. w \in Seq(X) /\ Distinct(second) /\ Len(w) <= left
  <2>1. Waiting(e, c) \in Seq(X) /\ Distinct(Waiting(e, c)) /\ ToSet(Waiting(e, c)) = ToSet(c)
    BY WaitingRoutes
  <2> HIDE DEF w
  <2>2. /\ w \in Seq(X) /\ Distinct(w) /\ ToSet(w) \subseteq ToSet(Waiting(e, c))
        /\ Len(w) = Least(left, Len(Waiting(e, c)))
    BY <2>1, <1>5, <1>6, SampleIsSpread
  <2>3. RoutesOf(e) \cap RoutesOf(w) = {}
    BY <2>1, <2>2 DEF RoutesOf
  <2>4. Distinct(e \o w)
    BY <2>2, <2>3, Joined
  <2>5. Len(Waiting(e, c)) \in Nat
    BY <2>1
  <2>6. Len(w) <= left
    BY <2>2, <2>5, <1>5 DEF Least
  <2> QED BY <2>2, <2>4, <2>6, <1>4
<1> HIDE DEF w
<1>8. /\ second \in Seq(X) /\ Len(second) = Len(e) + Len(w)
      /\ ToSet(second) = ToSet(e) \cup ToSet(w)
  BY <1>4, <1>7, Joined
<1> HIDE DEF second
<1>9. rest \in Nat
  <2>1. Len(w) \in Nat
    BY <1>7
  <2> QED BY <2>1, <1>1, <1>4, <1>7, <1>8
<1>10. v \in Seq(X) /\ ToSet(v) = {}
  <2>1. own \in Seq(X) /\ Distinct(own) /\ ToSet(own) = {}
    BY <1>3 DEF ToSet, Distinct
  <2> HIDE DEF rest
  <2>2. IsSampleOfOthers(X, own, second, rest, v)
    BY <2>1, <1>7, <1>8, <1>9, SampleOfOthers
  <2> QED BY <2>1, <2>2 DEF IsSampleOfOthers
<1> HIDE DEF v
<1>11. ToSet(second \o v) = ToSet(e) \cup ToSet(w)
  <2>1. ToSet(second \o v) = ToSet(second) \cup ToSet(v)
    BY <1>8, <1>10, Joined
  <2> QED BY <2>1, <1>8, <1>10
<1> QED BY <1>2, <1>4, <1>6, <1>11

\* Without curated sources every route is selected in one of as many hours as routes
\* are offered.
LEMMA BroaderRoutesAppear ==
  ASSUME NEW X, NEW e \in Seq(X), NEW c \in Seq(X), Distinct(e), Distinct(c),
         RoutesOf(e) \cap RoutesOf(c) = {}, Len(e) < Limit, CuratedOf(c) = <<>>,
         NEW from \in Nat, NEW x \in ToSet(c)
  PROVE  \E now \in from..(from + Len(c) - 1) :
           x \in ToSet(SelectRefreshCandidates(e, c, Limit, now))
<1> DEFINE fresh == Waiting(e, c)
           left  == Limit - Len(e)
<1>1. fresh \in Seq(X) /\ x \in ToSet(fresh) /\ Len(fresh) = Len(c)
  BY WaitingRoutes
<1>2. left \in Nat \ {0}
  BY SamplingAssumption
<1> HIDE DEF fresh, left
<1>3. PICK now \in from..(from + Len(fresh) - 1) : x \in ToSet(SampleAt(fresh, left, now))
  BY <1>1, <1>2, SampleReachesAll
<1>4. now \in Nat
  BY <1>3
<1>5. ToSet(SelectRefreshCandidates(e, c, Limit, now))
        = ToSet(e) \cup ToSet(SampleAt(fresh, left, now))
  BY <1>4, SampleOfWaiting DEF fresh, left
<1> QED BY <1>1, <1>3, <1>5

\* While they do not fit, two adjacent hours do not select the same routes.
LEMMA BroaderRoutesMove ==
  ASSUME NEW X, NEW e \in Seq(X), NEW c \in Seq(X), Distinct(e), Distinct(c),
         RoutesOf(e) \cap RoutesOf(c) = {}, Len(e) < Limit, CuratedOf(c) = <<>>,
         Limit < Len(e) + Len(c), NEW now \in Nat
  PROVE  RoutesOf(SelectRefreshCandidates(e, c, Limit, now + 1))
           # RoutesOf(SelectRefreshCandidates(e, c, Limit, now))
<1> DEFINE fresh == Waiting(e, c)
           left  == Limit - Len(e)
           s     == SampleAt(fresh, left, now)
           t     == SampleAt(fresh, left, now + 1)
<1>1. /\ fresh \in Seq(X) /\ Distinct(fresh) /\ ToSet(fresh) = ToSet(c)
      /\ Len(fresh) = Len(c)
  BY WaitingRoutes
<1>2. left \in Nat \ {0} /\ left < Len(c) /\ now + 1 \in Nat
  BY SamplingAssumption
<1>3. /\ ToSet(SelectRefreshCandidates(e, c, Limit, now)) = ToSet(e) \cup ToSet(s)
      /\ ToSet(SelectRefreshCandidates(e, c, Limit, now + 1)) = ToSet(e) \cup ToSet(t)
  BY <1>2, SampleOfWaiting
<1> HIDE DEF fresh, left
<1>4. RoutesOf(t) # RoutesOf(s)
  BY <1>1, <1>2, SampleMoves
<1>5. ToSet(s) \subseteq ToSet(c) /\ ToSet(t) \subseteq ToSet(c)
  BY <1>1, <1>2, SampleIsSpread
<1> HIDE DEF s, t
<1>6. RoutesOf(e) \cap RoutesOf(s) = {} /\ RoutesOf(e) \cap RoutesOf(t) = {}
  BY <1>5 DEF RoutesOf
<1>7. /\ RoutesOf(SelectRefreshCandidates(e, c, Limit, now)) = RoutesOf(e) \cup RoutesOf(s)
      /\ RoutesOf(SelectRefreshCandidates(e, c, Limit, now + 1)) = RoutesOf(e) \cup RoutesOf(t)
  BY <1>3 DEF RoutesOf
<1> QED BY <1>4, <1>6, <1>7

-----------------------------------------------------------------------------
(* What the feeds list.                                                    *)

Labels    == ToSet(CuratedSources) \cup {"published", "broader"}
Candidate == [route : Labels \X Nat, source : Labels]

\* A list that names no route twice, and whose routes tell their sources.
IsListing(s) ==
  s \in Seq(Candidate) /\ Distinct(s) /\ \A x \in ToSet(s) : x.route[1] = x.source

\* The routes of one source are a listing.
LEMMA OneSource ==
  ASSUME NEW source \in Labels, NEW n \in Nat
  PROVE  IsListing(From(source, n)) /\ LabelsOf(From(source, n)) \subseteq {source}
<1> DEFINE s == From(source, n)
<1>1. /\ DOMAIN s = 1..n /\ Len(s) = n /\ s \in [1..n -> Candidate]
      /\ \A i \in 1..n : s[i].route = <<source, i>> /\ s[i].source = source
  BY DEF From, Candidate
<1> HIDE DEF s
<1>2. s \in Seq(Candidate)
  BY <1>1
<1>3. Distinct(s)
  BY <1>1 DEF Distinct
<1>4. \A x \in ToSet(s) : x.route[1] = x.source /\ x.source = source
  BY <1>1 DEF ToSet
<1> QED BY <1>2, <1>3, <1>4 DEF IsListing, LabelsOf, s

\* Listings of other sources make a listing.
LEMMA JoinedListings ==
  ASSUME NEW s, NEW t, IsListing(s), IsListing(t), LabelsOf(s) \cap LabelsOf(t) = {}
  PROVE  /\ IsListing(s \o t) /\ LabelsOf(s \o t) = LabelsOf(s) \cup LabelsOf(t)
         /\ RoutesOf(s) \cap RoutesOf(t) = {}
<1>1. RoutesOf(s) \cap RoutesOf(t) = {}
  <2> SUFFICES ASSUME NEW x \in ToSet(s), NEW y \in ToSet(t), x.route = y.route
               PROVE  FALSE
    BY DEF RoutesOf
  <2>1. x.source = y.source
    BY DEF IsListing
  <2> QED BY <2>1 DEF LabelsOf
<1>2. /\ s \o t \in Seq(Candidate) /\ ToSet(s \o t) = ToSet(s) \cup ToSet(t)
      /\ Distinct(s \o t)
  BY <1>1, Joined DEF IsListing
<1> QED BY <1>1, <1>2 DEF IsListing, LabelsOf

\* f holds the listing after each curated source.
IsFeedLoop(f, n) ==
  /\ f[0] = <<>>
  /\ \A k \in 1..Len(CuratedSources) : f[k] = f[k - 1] \o From(CuratedSources[k], n[k])
  /\ CuratedFeeds(n) = f[Len(CuratedSources)]

\* The loop over the curated feeds.
LEMMA FeedLoop ==
  ASSUME NEW n \in [DOMAIN CuratedSources -> Nat]
  PROVE  \E f : IsFeedLoop(f, n)
<1> DEFINE m == Len(CuratedSources)
           S == Seq(Candidate)
           places == [i \in DOMAIN CuratedSources |-> i]
           Join(sofar, i) == sofar \o From(CuratedSources[i], n[i])
           step == [p \in S \X (1..m) |-> Join(p[1], places[p[2]])]
           Fold(it) == it = [s \in SUBSET DOMAIN places |->
                               IF s = {} THEN <<>> ELSE Join(it[s \ {Max(s)}], places[Max(s)])]
<1>1. /\ m \in Nat /\ DOMAIN CuratedSources = 1..m /\ <<>> \in S /\ DOMAIN places = 1..m
      /\ \A i \in 1..m : CuratedSources[i] \in Labels /\ n[i] \in Nat /\ places[i] = i
  BY SamplingAssumption DEF Labels, ToSet
<1>2. IsStep(step, S, m)
  <2>1. ASSUME NEW s \in S, NEW i \in 1..m PROVE Join(s, places[i]) \in S
    <3>1. From(CuratedSources[i], n[i]) \in Seq(Candidate)
      <4> HIDE DEF m, places
      <4> QED BY <1>1, OneSource DEF IsListing
    <3> HIDE DEF m
    <3> QED BY <3>1, <1>1
  <2> HIDE DEF S, m, Join, places
  <2> QED BY <2>1 DEF IsStep
<1>3. PICK it : IsFold(it, S, <<>>, step, m)
  <2> HIDE DEF S, step, m
  <2> QED BY <1>1, <1>2, FoldExists
<1>4. ASSUME NEW s \in SUBSET (1..m)
      PROVE  it[s] = IF s = {} THEN <<>> ELSE Join(it[s \ {Max(s)}], places[Max(s)])
  <2> HIDE DEF S, Join, places, m
  <2>1. CASE s = {}
    BY <2>1, <1>3 DEF IsFold
  <2>2. CASE s # {}
    <3>1. Max(s) \in 1..m /\ it[s \ {Max(s)}] \in S
      BY <2>2, <1>1, <1>3, MaxIsMember DEF IsFold
    <3> QED BY <3>1, <2>2, <1>3 DEF IsFold
  <2> QED BY <2>1, <2>2
<1>5. Fold(it)
  <2> HIDE DEF S, step, Join, places, m
  <2> QED BY <1>1, <1>3, <1>4 DEF IsFold
<1>6. CuratedFeeds(n) = (CHOOSE it2 : Fold(it2))[DOMAIN places]
  BY DEF CuratedFeeds, FoldLeftDomain, FoldLeft, MapThenFoldSet
<1>7. PICK g : Fold(g) /\ CuratedFeeds(n) = g[1..m]
  <2> HIDE DEF Fold, places, m
  <2> QED BY <1>1, <1>5, <1>6
<1> DEFINE f == [k \in 0..m |-> g[1..k]]
<1>8. f[0] = <<>>
  <2>1. 1..0 = {} /\ {} \in SUBSET DOMAIN places /\ 0 \in 0..m
    BY <1>1
  <2> HIDE DEF Join, places, m
  <2> QED BY <2>1, <1>1, <1>7
<1>9. ASSUME NEW k \in 1..m PROVE f[k] = Join(f[k - 1], k)
  <2>1. g[1..k] = Join(g[1..(k - 1)], places[k])
    <3>1. /\ Max(1..k) = k /\ (1..k) \ {k} = 1..(k - 1) /\ 1..k # {}
          /\ 1..k \in SUBSET DOMAIN places
      <4> HIDE DEF m, places
      <4> QED BY <1>1, FirstPositions
    <3> HIDE DEF Join, places
    <3> QED BY <1>7, <3>1
  <2> HIDE DEF Join, places
  <2> QED BY <2>1, <1>1
<1>10. CuratedFeeds(n) = f[m]
  <2>1. m \in 0..m
    BY <1>1
  <2>2. f[m] = g[1..m]
    BY <2>1
  <2> HIDE DEF f, Fold
  <2> QED BY <2>2, <1>7
<1> HIDE DEF f
<1> QED BY <1>8, <1>9, <1>10 DEF IsFeedLoop

\* The curated feeds are a listing of curated routes.
LEMMA FeedsAreListings ==
  ASSUME NEW n \in [DOMAIN CuratedSources -> Nat]
  PROVE  IsListing(CuratedFeeds(n)) /\ LabelsOf(CuratedFeeds(n)) \subseteq ToSet(CuratedSources)
<1> DEFINE m == Len(CuratedSources)
<1>1. /\ m \in Nat /\ DOMAIN CuratedSources = 1..m
      /\ \A i \in 1..m : CuratedSources[i] \in Labels /\ n[i] \in Nat
  BY SamplingAssumption DEF Labels, ToSet
<1>2. PICK f : IsFeedLoop(f, n)
  BY FeedLoop
<1>3. /\ f[0] = <<>> /\ CuratedFeeds(n) = f[m]
      /\ \A k \in 1..m : f[k] = f[k - 1] \o From(CuratedSources[k], n[k])
  BY <1>2 DEF IsFeedLoop
<1> HIDE DEF m
<1> DEFINE Holds(k) == /\ IsListing(f[k])
                       /\ \A x \in LabelsOf(f[k]) : \E i \in 1..k : x = CuratedSources[i]
           Good == {k \in 0..m : Holds(k)}
<1>4. 0 \in Good
  <2>1. f[0] \in Seq(Candidate) /\ DOMAIN f[0] = {}
    BY <1>3
  <2>2. ToSet(f[0]) = {} /\ Distinct(f[0])
    BY <2>1 DEF ToSet, Distinct
  <2> QED BY <2>1, <2>2, <1>1 DEF IsListing, LabelsOf
<1>5. ASSUME NEW k \in 1..m, k - 1 \in Good PROVE k \in Good
  <2> DEFINE s == f[k - 1]
             t == From(CuratedSources[k], n[k])
  <2>1. IsListing(s) /\ \A x \in LabelsOf(s) : \E i \in 1..(k - 1) : x = CuratedSources[i]
    BY <1>5
  <2>2. IsListing(t) /\ LabelsOf(t) \subseteq {CuratedSources[k]}
    BY <1>1, OneSource
  <2>3. /\ 1..k = 1..(k - 1) \cup {k} /\ k \notin 1..(k - 1)
        /\ \A i \in 1..(k - 1) : i \in 1..m
    BY <1>1
  <2> HIDE DEF s, t
  <2>4. LabelsOf(s) \cap LabelsOf(t) = {}
    <3> SUFFICES ASSUME CuratedSources[k] \in LabelsOf(s) PROVE FALSE
      BY <2>2
    <3>1. PICK i \in 1..(k - 1) : CuratedSources[k] = CuratedSources[i]
      BY <2>1
    <3>2. i \in DOMAIN CuratedSources /\ k \in DOMAIN CuratedSources /\ i # k
      BY <2>3, <1>1
    <3> QED BY <3>1, <3>2, SamplingAssumption DEF IsInjective
  <2>5. f[k] = s \o t
    BY <1>3 DEF s, t
  <2>6. IsListing(f[k]) /\ LabelsOf(f[k]) = LabelsOf(s) \cup LabelsOf(t)
    BY <2>1, <2>2, <2>4, <2>5, JoinedListings
  <2>7. \A x \in LabelsOf(f[k]) : \E i \in 1..k : x = CuratedSources[i]
    BY <2>1, <2>2, <2>3, <2>6
  <2> QED BY <2>6, <2>7, <1>1
<1>6. 0..m \subseteq Good
  <2> HIDE DEF Good
  <2> QED BY <1>1, <1>4, <1>5, Induction
<1>7. Holds(m)
  <2>1. m \in 0..m
    BY <1>1
  <2> HIDE DEF Holds
  <2> QED BY <2>1, <1>6
<1>8. LabelsOf(f[m]) \subseteq ToSet(CuratedSources)
  BY <1>1, <1>7 DEF ToSet
<1> QED BY <1>3, <1>7, <1>8

-----------------------------------------------------------------------------
(* The workers.                                                            *)

\* Catalog and feeds are listings that share no route, and what was selected is the
\* selection of the last hour.
SelectionInv ==
  /\ IsListing(existing) /\ IsListing(incoming)
  /\ RoutesOf(existing) \cap RoutesOf(incoming) = {}
  /\ slot \in Nat /\ hours \in Nat
  /\ hours > 0 =>
       /\ slot - 1 \in Nat
       /\ selected = SelectRefreshCandidates(existing, incoming, Limit, slot - 1)

\* The sources of the model make listings of that kind.
LEMMA SelectionInit == Init => SelectionInv
<1> SUFFICES ASSUME Init PROVE SelectionInv
  OBVIOUS
<1>1. {MaxExisting, MaxPerSource, MaxBroader, MaxSlot} \subseteq Nat
      /\ {"published", "broader"} \cap ToSet(CuratedSources) = {}
  BY SamplingAssumption
<1>2. PICK n \in 0..MaxExisting : existing = From("published", n)
  BY DEF Init
<1>3. IsListing(existing) /\ LabelsOf(existing) \subseteq {"published"}
  <2>1. n \in Nat
    BY <1>1, <1>2
  <2>2. "published" \in Labels
    BY DEF Labels
  <2> QED BY <2>1, <2>2, <1>2, OneSource
<1>4. PICK k \in [DOMAIN CuratedSources -> 0..MaxPerSource] :
        \E m \in 0..MaxBroader : incoming = CuratedFeeds(k) \o From("broader", m)
  BY DEF Init
<1>5. PICK m \in 0..MaxBroader : incoming = CuratedFeeds(k) \o From("broader", m)
  BY <1>4
<1>6. IsListing(CuratedFeeds(k)) /\ LabelsOf(CuratedFeeds(k)) \subseteq ToSet(CuratedSources)
  <2>1. k \in [DOMAIN CuratedSources -> Nat]
    BY <1>1
  <2> QED BY <2>1, FeedsAreListings
<1>7. IsListing(From("broader", m)) /\ LabelsOf(From("broader", m)) \subseteq {"broader"}
  <2>1. m \in Nat
    BY <1>1, <1>5
  <2>2. "broader" \in Labels
    BY DEF Labels
  <2> QED BY <2>1, <2>2, OneSource
<1>8. LabelsOf(CuratedFeeds(k)) \cap LabelsOf(From("broader", m)) = {}
  BY <1>1, <1>6, <1>7
<1>9. IsListing(incoming)
      /\ LabelsOf(incoming) \subseteq ToSet(CuratedSources) \cup {"broader"}
  BY <1>5, <1>6, <1>7, <1>8, JoinedListings
<1>10. LabelsOf(existing) \cap LabelsOf(incoming) = {}
  <2>1. "published" # "broader"
    OBVIOUS
  <2> QED BY <2>1, <1>1, <1>3, <1>9
<1>11. RoutesOf(existing) \cap RoutesOf(incoming) = {}
  BY <1>3, <1>9, <1>10, JoinedListings
<1>12. slot \in Nat /\ hours \in Nat /\ ~(hours > 0)
  BY <1>1 DEF Init
<1> QED BY <1>3, <1>9, <1>11, <1>12 DEF SelectionInv

\* A worker reads catalog and feeds, and the hour moves on.
LEMMA SelectionStep == SelectionInv /\ [Next]_vars => SelectionInv'
<1> SUFFICES ASSUME SelectionInv, [Next]_vars PROVE SelectionInv'
  OBVIOUS
<1>1. CASE Refresh
  <2>1. /\ UNCHANGED <<existing, incoming>> /\ slot' = slot + 1 /\ hours' = hours + 1
        /\ selected' = SelectRefreshCandidates(existing, incoming, Limit, slot)
    BY <1>1 DEF Refresh
  <2>2. slot \in Nat /\ hours \in Nat
    BY DEF SelectionInv
  <2>3. slot' \in Nat /\ hours' \in Nat /\ slot' - 1 = slot
    BY <2>1, <2>2
  <2>4. selected' = SelectRefreshCandidates(existing', incoming', Limit, slot' - 1)
    BY <2>1, <2>3
  <2> QED BY <2>1, <2>2, <2>3, <2>4 DEF SelectionInv
<1>2. CASE UNCHANGED vars
  BY <1>2 DEF vars, SelectionInv
<1> QED BY <1>1, <1>2 DEF Next

\* The invariant holds throughout.
THEOREM SelectionTyping == Spec => []SelectionInv
  BY SelectionInit, SelectionStep, PTL DEF Spec

\* Whatever feeds and catalog list, a worker probes no route twice and leaves no slot
\* free while a candidate is left.
LEMMA SelectionFills == SelectionInv => SelectionIsFull
<1> SUFFICES ASSUME SelectionInv, hours > 0, Len(existing) # Limit
             PROVE  /\ Cardinality(RoutesOf(selected)) = Len(selected)
                    /\ Len(selected) = Least(Limit, Len(existing) + Len(incoming))
  BY DEF SelectionIsFull
<1> DEFINE now == slot - 1
<1>1. /\ existing \in Seq(Candidate) /\ Distinct(existing)
      /\ incoming \in Seq(Candidate) /\ Distinct(incoming)
      /\ RoutesOf(existing) \cap RoutesOf(incoming) = {} /\ now \in Nat
      /\ selected = SelectRefreshCandidates(existing, incoming, Limit, now)
  BY DEF SelectionInv, IsListing
<1> HIDE DEF now
<1>2. Limit \in Nat /\ Len(existing) \in Nat
  BY <1>1, SamplingAssumption
<1>3. /\ selected \in Seq(Candidate) /\ Distinct(selected)
      /\ Len(selected) = Least(Limit, Len(existing) + Len(incoming))
  <2>1. CASE Len(existing) < Limit
    BY <2>1, <1>1, Selection
  <2>2. CASE Len(existing) > Limit
    BY <2>2, <1>1, SelectionOfMany
  <2> QED BY <2>1, <2>2, <1>2
<1> QED BY <1>3, LengthOfRoutes

\* The same as an invariant.
THEOREM SelectionIsAlwaysFull == Spec => []SelectionIsFull
  BY SelectionTyping, SelectionFills, PTL

\* Whatever they list, an hour that reserves a slot for each curated source leaves none
\* of them out.
LEMMA SourcesHaveTurns == SelectionInv => EverySourceHasATurn
<1> SUFFICES ASSUME SelectionInv, hours > 0, Len(existing) <= Limit,
                    Reserved(existing, incoming, Limit) >= Len(CuratedSources)
             PROVE  Offering(incoming) \subseteq Offering(selected)
  BY DEF EverySourceHasATurn
<1> DEFINE now == slot - 1
<1>1. /\ existing \in Seq(Candidate) /\ Distinct(existing)
      /\ incoming \in Seq(Candidate) /\ Distinct(incoming)
      /\ RoutesOf(existing) \cap RoutesOf(incoming) = {} /\ now \in Nat
      /\ selected = SelectRefreshCandidates(existing, incoming, Limit, now)
  BY DEF SelectionInv, IsListing
<1> HIDE DEF now
<1>2. Limit \in Nat /\ Len(existing) \in Nat /\ Len(CuratedSources) \in Nat
  BY <1>1, SamplingAssumption
<1>3. CASE Len(existing) < Limit
  <2>1. HaveATurn(existing, incoming, now, selected)
    BY <1>1, <1>3, Selection
  <2>2. CuratedOf(incoming) \in Seq(Candidate) /\ Distinct(CuratedOf(incoming))
        /\ Offering(CuratedOf(incoming)) = Offering(incoming)
    BY <1>1, CuratedAndBroader
  <2>3. OffersTaken(CuratedOf(incoming), now, selected)
    BY <2>1 DEF HaveATurn
  <2> QED BY <2>2, <2>3, <1>1, TakenFromAll
\* A catalog that fills the worker leaves no slot to reserve.
<1>4. CASE Len(existing) = Limit
  <2>1. /\ CuratedSlots \in Nat \ {0} /\ Len(CuratedOf(incoming)) \in Nat
    BY <1>1, CuratedAndBroader, SamplingAssumption
  <2>2. Reserved(existing, incoming, Limit) <= 0
    BY <2>1, <1>2, <1>4 DEF Reserved, Least
  <2>3. Len(CuratedSources) = 0
    <3>1. Reserved(existing, incoming, Limit) \in Int
      BY <2>1, <1>2 DEF Reserved, Least
    <3> QED BY <3>1, <2>2, <1>2
  <2>4. DOMAIN CuratedSources = {}
    BY <2>3, SamplingAssumption
  <2> QED BY <2>4 DEF Offering, ToSet
<1> QED BY <1>2, <1>3, <1>4

\* The same as an invariant.
THEOREM EverySourceHasItsTurn == Spec => []EverySourceHasATurn
  BY SelectionTyping, SourcesHaveTurns, PTL

\* The hours so far, and that their routes were probed.
HoursInv ==
  /\ slot - hours \in Nat
  /\ \A now \in (slot - hours)..(slot - 1) :
       RoutesOf(SelectRefreshCandidates(existing, incoming, Limit, now)) \subseteq tried

LEMMA HoursStep == SelectionInv /\ HoursInv /\ [Next]_vars => HoursInv'
<1> SUFFICES ASSUME SelectionInv, HoursInv, [Next]_vars PROVE HoursInv'
  OBVIOUS
<1>1. CASE Refresh
  <2>1. /\ UNCHANGED <<existing, incoming>> /\ slot' = slot + 1 /\ hours' = hours + 1
        /\ selected' = SelectRefreshCandidates(existing, incoming, Limit, slot)
        /\ tried' = tried \cup RoutesOf(selected')
    BY <1>1 DEF Refresh
  <2>2. slot \in Nat /\ hours \in Nat
    BY DEF SelectionInv
  <2>3. slot' - hours' = slot - hours /\ slot' - 1 = slot
    BY <2>1, <2>2
  <2>4. ASSUME NEW now \in (slot - hours)..slot
        PROVE  RoutesOf(SelectRefreshCandidates(existing, incoming, Limit, now)) \subseteq tried'
    <3>1. CASE now = slot
      BY <3>1, <2>1
    <3>2. CASE now # slot
      <4>1. now \in (slot - hours)..(slot - 1)
        BY <3>2, <2>2
      <4> QED BY <4>1, <2>1 DEF HoursInv
    <3> QED BY <3>1, <3>2
  <2>5. slot' - hours' \in Nat
    BY <2>3 DEF HoursInv
  <2>6. \A now \in (slot' - hours')..(slot' - 1) :
          RoutesOf(SelectRefreshCandidates(existing', incoming', Limit, now)) \subseteq tried'
    BY <2>1, <2>3, <2>4
  <2> QED BY <2>5, <2>6 DEF HoursInv
<1>2. CASE UNCHANGED vars
  BY <1>2 DEF vars, HoursInv
<1> QED BY <1>1, <1>2 DEF Next

\* The routes of the hours since the first were probed.
THEOREM HoursAreRemembered == Spec => []HoursInv
<1>1. Init => HoursInv
  <2> SUFFICES ASSUME Init PROVE HoursInv
    OBVIOUS
  <2>1. slot \in Nat /\ hours = 0
    BY SamplingAssumption DEF Init
  <2> QED BY <2>1 DEF HoursInv
<1> QED BY <1>1, SelectionTyping, HoursStep, PTL DEF Spec

\* After as many hours as routes are offered, whatever appears in one of so many hours
\* was probed.
LEMMA ProbedByThen ==
  ASSUME SelectionInv, HoursInv, hours = Len(incoming), NEW x,
         NEW now \in (slot - hours)..((slot - hours) + Len(incoming) - 1),
         x \in ToSet(SelectRefreshCandidates(existing, incoming, Limit, now))
  PROVE  x.route \in tried
<1>1. now \in (slot - hours)..(slot - 1)
  BY DEF SelectionInv
<1>2. RoutesOf(SelectRefreshCandidates(existing, incoming, Limit, now)) \subseteq tried
  BY <1>1 DEF HoursInv
<1> QED BY <1>2 DEF RoutesOf

\* Whatever the hour of the first, as many workers as a feed has routes probe all.
LEMMA BroaderCovered == SelectionInv /\ HoursInv => BroaderIsCovered
<1> SUFFICES ASSUME SelectionInv, HoursInv, hours = Len(incoming), Curated = <<>>,
                    Len(existing) < Limit, NEW x \in ToSet(incoming)
             PROVE  x.route \in tried
  BY DEF BroaderIsCovered, RoutesOf
<1>1. /\ existing \in Seq(Candidate) /\ Distinct(existing)
      /\ incoming \in Seq(Candidate) /\ Distinct(incoming)
      /\ RoutesOf(existing) \cap RoutesOf(incoming) = {}
  BY DEF SelectionInv, IsListing
<1>2. slot - hours \in Nat /\ CuratedOf(incoming) = <<>>
  BY DEF HoursInv, Curated
<1> DEFINE from == slot - hours
<1>3. PICK now \in from..(from + Len(incoming) - 1) :
        x \in ToSet(SelectRefreshCandidates(existing, incoming, Limit, now))
  <2> HIDE DEF from
  <2>1. from \in Nat
    BY <1>2 DEF from
  <2> QED BY <2>1, <1>1, <1>2, BroaderRoutesAppear
<1> QED BY <1>3, ProbedByThen

\* The same as an invariant.
THEOREM RotationCoversTheFeed == Spec => []BroaderIsCovered
  BY SelectionTyping, HoursAreRemembered, BroaderCovered, PTL

\* With a slot for each curated source, as many workers as routes are offered probe
\* every curated route, whatever the other feeds list.
LEMMA CuratedCovered == SelectionInv /\ HoursInv => CuratedIsCovered
<1> SUFFICES ASSUME SelectionInv, HoursInv, hours = Len(incoming),
                    Len(CuratedSources) <= Least(Limit - Len(existing), CuratedSlots),
                    NEW x \in ToSet(CuratedOf(incoming))
             PROVE  x.route \in tried
  BY DEF CuratedIsCovered, RoutesOf, Curated
<1>1. /\ existing \in Seq(Candidate) /\ Distinct(existing)
      /\ incoming \in Seq(Candidate) /\ Distinct(incoming)
      /\ RoutesOf(existing) \cap RoutesOf(incoming) = {}
  BY DEF SelectionInv, IsListing
<1> DEFINE from == slot - hours
<1>2. PICK now \in from..(from + Len(incoming) - 1) :
        x \in ToSet(SelectRefreshCandidates(existing, incoming, Limit, now))
  <2>1. from \in Nat
    BY DEF HoursInv
  <2> HIDE DEF from
  <2> QED BY <2>1, <1>1, CuratedRoutesAppear
<1> QED BY <1>2, ProbedByThen

\* The same as an invariant.
THEOREM RotationCoversCuratedSources == Spec => []CuratedIsCovered
  BY SelectionTyping, HoursAreRemembered, CuratedCovered, PTL

\* While a feed does not fit, no two adjacent hours probe the same routes, however many
\* the feed lists.
THEOREM NoHourRepeats == Spec => AdjacentHoursDiffer
<1>1. ASSUME SelectionInv, Next, hours > 0, Curated = <<>>, Overflowing
      PROVE  RoutesOf(selected') # RoutesOf(selected)
  <2>1. /\ existing \in Seq(Candidate) /\ Distinct(existing)
        /\ incoming \in Seq(Candidate) /\ Distinct(incoming)
        /\ RoutesOf(existing) \cap RoutesOf(incoming) = {}
    BY <1>1 DEF SelectionInv, IsListing
  <2> DEFINE now == slot - 1
  <2>2. /\ now \in Nat /\ now + 1 = slot
        /\ selected = SelectRefreshCandidates(existing, incoming, Limit, now)
    BY <1>1 DEF SelectionInv
  <2>3. selected' = SelectRefreshCandidates(existing, incoming, Limit, now + 1)
    BY <1>1, <2>2 DEF Next, Refresh
  <2> HIDE DEF now
  <2>4. Len(existing) < Limit /\ Limit < Len(existing) + Len(incoming)
        /\ CuratedOf(incoming) = <<>>
    BY <1>1 DEF Overflowing, Curated
  <2> QED BY <2>1, <2>2, <2>3, <2>4, BroaderRoutesMove
<1>2. SelectionInv /\ [Next]_vars
        => [hours > 0 /\ Curated = <<>> /\ Overflowing
              => RoutesOf(selected') # RoutesOf(selected)]_vars
  BY <1>1
<1> QED BY <1>2, SelectionTyping, PTL DEF Spec, AdjacentHoursDiffer

-----------------------------------------------------------------------------
(* The choice that Refresh leaves open.                                    *)

\* The worker of an hour as Refresh describes it, when every feed was downloaded.
Feed(source) == {x.route : x \in {y \in ToSet(incoming) : y.source = source}}

\* All the routes that catalog and feeds are made of.
Universe == Labels \X (0..(MaxExisting + MaxPerSource + MaxBroader))

Worker == INSTANCE Refresh WITH
  Sources <- Labels, Preferred <- ToSet(CuratedSources),
  Routes <- Universe, Contents <- [source \in Labels |-> SUBSET Universe],
  InitialPools <- SUBSET Universe, Checkers <- {TRUE}, MaxCandidates <- Limit,
  FetchSlots <- 4, Parallelism <- 6, PoolCap <- 64, UsefulFloor <- 12,
  pool <- RoutesOf(existing), curated <- {}, checker <- TRUE,
  cache <- [source \in Labels |-> [lines |-> {}, tagged |-> FALSE]],
  phase <- "fetch", ctxDone <- FALSE,
  fetch <- [source \in Labels |-> "updated"],
  got <- [source \in Labels |-> [lines |-> Feed(source), tagged |-> FALSE]],
  prev <- {}, label <- {}, verdict <- <<>>, left <- <<>>, failures <- <<>>,
  exit <- <<>>, late <- {}, outcome <- "failed"

\* Both count in the same way.
LEMMA SameCounting ==
  /\ \A s : Worker!Cardinality(s) = Cardinality(s)
  /\ \A m, n : Worker!Least(m, n) = Least(m, n)
<1>1. ASSUME NEW s PROVE Worker!Cardinality(s) = Cardinality(s)
  BY DEF Cardinality, Worker!Cardinality
<1>2. ASSUME NEW m, NEW n PROVE Worker!Least(m, n) = Least(m, n)
  BY DEF Least, Worker!Least
<1> QED BY <1>1, <1>2

\* What the feeds of some labels list.
LEMMA ListedByLabels ==
  ASSUME NEW labels \in SUBSET Labels
  PROVE  Worker!ListedBy(labels) = {x.route : x \in {y \in ToSet(incoming) : y.source \in labels}}
<1>1. ASSUME NEW source \in labels PROVE Worker!Lines(source) = Feed(source)
  BY <1>1 DEF Worker!Lines
<1>2. Worker!ListedBy(labels) = UNION {Feed(source) : source \in labels}
  BY <1>1 DEF Worker!ListedBy
<1> QED BY <1>2 DEF Feed

\* The worker selects what Refresh says it may: Selections leaves open which routes are
\* chosen, and nothing else.
SelectionIsAllowed == hours > 0 => RoutesOf(selected) \in Worker!Selections

LEMMA WorkerSelects == SelectionInv => SelectionIsAllowed
<1> SUFFICES ASSUME SelectionInv, hours > 0 PROVE RoutesOf(selected) \in Worker!Selections
  BY DEF SelectionIsAllowed
<1> DEFINE now == slot - 1
           E   == RoutesOf(existing)
           C   == RoutesOf(incoming)
<1>1. /\ existing \in Seq(Candidate) /\ Distinct(existing)
      /\ incoming \in Seq(Candidate) /\ Distinct(incoming)
      /\ E \cap C = {} /\ now \in Nat
      /\ selected = SelectRefreshCandidates(existing, incoming, Limit, now)
  BY DEF SelectionInv, IsListing
<1>2. Worker!Existing = E
  BY DEF Worker!Existing
<1>3. Worker!Incoming = C
  <2>1. Labels \in SUBSET Labels
    OBVIOUS
  <2>2. \A y \in ToSet(incoming) : y.source \in Labels
    <3>1. \A i \in DOMAIN incoming : incoming[i] \in Candidate
      BY <1>1
    <3> QED BY <3>1 DEF ToSet, Candidate
  <2>3. Worker!ListedBy(Labels) = C
    BY <2>1, <2>2, ListedByLabels DEF RoutesOf
  <2> QED BY <2>3, <1>1, <1>2 DEF Worker!Incoming
<1>4. C \cap Worker!ListedBy(ToSet(CuratedSources)) = RoutesOf(CuratedOf(incoming))
  <2>1. ToSet(CuratedSources) \in SUBSET Labels
    BY DEF Labels
  <2>2. Worker!ListedBy(ToSet(CuratedSources))
          = {x.route : x \in {y \in ToSet(incoming) : y.source \in ToSet(CuratedSources)}}
    BY <2>1, ListedByLabels
  <2>3. ToSet(CuratedOf(incoming))
          = {x \in ToSet(incoming) : x.source \in ToSet(CuratedSources)}
    BY <1>1, CuratedAndBroader
  <2> QED BY <2>2, <2>3 DEF RoutesOf
<1>5. /\ IsFiniteSet(E) /\ Cardinality(E) = Len(existing)
      /\ IsFiniteSet(C) /\ Cardinality(C) = Len(incoming)
      /\ Len(existing) \in Nat /\ Len(incoming) \in Nat /\ Limit \in Nat \ {0}
  BY <1>1, LengthOfRoutes, SamplingAssumption
<1> HIDE DEF now
<1>6. CASE Len(existing) > Limit
  <2>1. /\ selected \in Seq(Candidate) /\ Distinct(selected)
        /\ Len(selected) = Least(Limit, Len(existing) + Len(incoming))
        /\ ToSet(selected) \subseteq ToSet(existing)
    BY <1>1, <1>6, SelectionOfMany
  <2>2. Cardinality(RoutesOf(selected)) = Limit
    BY <2>1, <1>5, <1>6, LengthOfRoutes DEF Least
  <2>3. RoutesOf(selected) \in SUBSET E
    BY <2>1 DEF RoutesOf
  <2> HIDE DEF E, C
  <2>4. Worker!Selections = {chosen \in SUBSET E : Cardinality(chosen) = Limit}
    BY <1>2, <1>5, <1>6, SameCounting DEF Worker!Selections
  <2> QED BY <2>2, <2>3, <2>4
<1>7. CASE Len(existing) = Limit
  <2>1. ToSet(selected) = ToSet(existing) \cup ToSet(CuratedOf(incoming))
    BY <1>1, <1>7, SelectionOfExactly
  <2>2. RoutesOf(selected) = E \cup RoutesOf(CuratedOf(incoming))
    BY <2>1 DEF RoutesOf
  <2> HIDE DEF E, C
  <2>3. Worker!Selections = {E \cup RoutesOf(CuratedOf(incoming))}
    <3>1. ~(Limit = 0) /\ ~(Cardinality(E) > Limit) /\ Cardinality(E) = Limit
      BY <1>5, <1>7
    <3> QED BY <3>1, <1>2, <1>3, <1>4, SameCounting DEF Worker!Selections
  <2> QED BY <2>2, <2>3
<1>8. CASE Len(existing) < Limit
  <2>1. /\ selected \in Seq(Candidate) /\ Distinct(selected)
        /\ Len(selected) = Least(Limit, Len(existing) + Len(incoming))
        /\ IsExtension(existing, incoming, selected)
    BY <1>1, <1>8, Selection
  <2> DEFINE S == RoutesOf(selected)
             chosen == S \ E
  <2>2. E \subseteq S /\ S \subseteq E \cup C
    BY <2>1 DEF RoutesOf, IsExtension
  <2>3. IsFiniteSet(S) /\ Cardinality(S) = Least(Limit, Len(existing) + Len(incoming))
    BY <2>1, LengthOfRoutes
  <2> HIDE DEF E, C, S
  <2>4. S = E \cup chosen /\ chosen \in SUBSET C
    BY <2>2
  <2>5. Cardinality(chosen) = Least(Limit - Len(existing), Len(incoming))
    <3>1. Cardinality(chosen) = Cardinality(S) - Cardinality(S \cap E)
      BY <2>3, FS_Difference
    <3>2. S \cap E = E
      BY <2>2
    <3> DEFINE a == Len(existing)
               b == Len(incoming)
    <3>3. Cardinality(chosen) = Least(Limit, a + b) - a
      <4>1. Cardinality(S \cap E) = a
        BY <3>2, <1>5, Zenon
      <4> HIDE DEF chosen
      <4> QED BY <3>1, <4>1, <2>3
    <3>4. a \in Nat /\ b \in Nat /\ Limit \in Nat /\ a < Limit
      BY <1>5, <1>8
    <3> HIDE DEF chosen, a, b
    <3>5. Least(Limit, a + b) - a = Least(Limit - a, b)
      BY <3>4 DEF Least
    <3> QED BY <3>3, <3>5 DEF a, b
  <2> HIDE DEF chosen
  <2>6. Worker!Selections = {E \cup more : more \in
           {d \in SUBSET C : Cardinality(d) = Least(Limit - Len(existing), Len(incoming))}}
    <3>1. ~(Limit = 0) /\ ~(Cardinality(E) > Limit) /\ ~(Cardinality(E) = Limit)
      BY <1>5, <1>8
    <3>2. Cardinality(E) = Len(existing) /\ Cardinality(C) = Len(incoming)
      BY <1>5
    <3> QED BY <3>1, <3>2, <1>2, <1>3, SameCounting DEF Worker!Selections
  <2>7. S \in Worker!Selections
    BY <2>4, <2>5, <2>6
  <2> QED BY <2>7 DEF S
<1> QED BY <1>5, <1>6, <1>7, <1>8

\* The same as an invariant: what is shown of Refresh for any choice holds of the
\* selection the code makes.
THEOREM SelectionIsAlwaysAllowed == Spec => []SelectionIsAllowed
  BY SelectionTyping, WorkerSelects, PTL

=============================================================================
