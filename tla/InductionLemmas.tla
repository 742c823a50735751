-------------------------- MODULE InductionLemmas --------------------------
(***************************************************************************)
(* Induction with a set in the place of the predicate. The library states   *)
(* it for an operator P(_), which the provers here cannot instantiate; with *)
(* the set of the numbers that have P it is a matter of first-order facts.  *)
(***************************************************************************)
EXTENDS Collections, SequencesExt, WellFoundedInduction, TLAPS

\* Every set of natural numbers that is not empty has a least one.
LEMMA LeastNatural ==
    ASSUME NEW T \in SUBSET Nat, T # {}
    PROVE  \E x \in T : \A y \in T : x <= y
<1> DEFINE R == {ss \in Nat \X Nat : ss[1] < ss[2]}
<1>1. IsWellFoundedOn(R, Nat)
  <2>1. OpToRel(<, Nat) = R
    BY DEF OpToRel
  <2> QED BY <2>1, NatLessThanWellFounded
<1>2. PICK x \in T : \A y \in T : ~(<<y, x>> \in R)
  <2> HIDE DEF R
  <2> QED BY <1>1, WFMin
<1>3. ASSUME NEW y \in T PROVE x <= y
  <2>1. x \in Nat /\ y \in Nat
    OBVIOUS
  <2>2. ~(y < x)
    BY <1>2, <2>1
  <2> QED BY <2>1, <2>2
<1> QED BY <1>3

\* A set that has a and with every number from a on the next one has them all.
LEMMA UpwardInduction ==
    ASSUME NEW a \in Nat, NEW S, a \in S,
           \A k \in Nat : k >= a /\ k \in S => k + 1 \in S
    PROVE  \A k \in Nat : k >= a => k \in S
<1> DEFINE T == {k \in Nat : k >= a /\ k \notin S}
<1> SUFFICES ASSUME T # {} PROVE FALSE
  OBVIOUS
<1>1. PICK x \in T : \A y \in T : x <= y
  <2>1. T \in SUBSET Nat
    OBVIOUS
  <2> HIDE DEF T
  <2> QED BY <2>1, LeastNatural
<1>2. x \in Nat /\ x > a
  OBVIOUS
<1>3. x - 1 \in Nat /\ x - 1 >= a /\ x - 1 \notin T
  BY <1>1, <1>2
<1> QED BY <1>2, <1>3

\* A bounded set of numbers that is not empty has a greatest one.
LEMMA GreatestBelow ==
    ASSUME NEW n \in Nat, NEW S \in SUBSET (1..n), S # {}
    PROVE  \E x \in S : \A y \in S : y <= x
<1> DEFINE T == {k \in Nat : n - k \in S}
<1>1. T \in SUBSET Nat /\ T # {}
  <2>1. PICK s \in S : TRUE
    OBVIOUS
  <2>2. n - s \in Nat /\ n - (n - s) = s
    OBVIOUS
  <2> QED BY <2>2
<1>2. PICK x \in T : \A y \in T : x <= y
  <2> HIDE DEF T
  <2> QED BY <1>1, LeastNatural
<1>3. ASSUME NEW s \in S PROVE s <= n - x
  <2>1. s \in 1..n /\ n - s \in Nat /\ n - (n - s) = s
    OBVIOUS
  <2>2. x <= n - s /\ x \in Nat
    BY <1>2, <2>1
  <2> QED BY <2>1, <2>2
<1> QED BY <1>3

\* f is v0 at 0, and goes on a step at a time up to n.
Recurs(f, n, v0, step) ==
    f = [i \in 0..n |-> IF i = 0 THEN v0 ELSE step[<<f[i - 1], i>>]]

\* There is a function that is defined so.
LEMMA RecursionExists ==
    ASSUME NEW n \in Nat, NEW V, NEW v0 \in V, NEW step \in [V \X (1..n) -> V]
    PROVE  \E f \in [0..n -> V] : Recurs(f, n, v0, step)
<1> DEFINE Leads(k, f) == f = [i \in 0..k |-> IF i = 0 THEN v0 ELSE step[<<f[i - 1], i>>]]
<1> DEFINE S == {k \in Nat : k <= n => \E f \in [0..k -> V] : Leads(k, f)}
<1>1. 0 \in S
  <2> DEFINE f0 == [i \in 0..0 |-> v0]
  <2>1. f0 \in [0..0 -> V] /\ Leads(0, f0)
    OBVIOUS
  <2> HIDE DEF f0, Leads
  <2> QED BY <2>1
<1>2. ASSUME NEW k \in Nat, k >= 0, k \in S PROVE k + 1 \in S
  <2> SUFFICES ASSUME k + 1 <= n PROVE \E f \in [0..(k + 1) -> V] : Leads(k + 1, f)
    OBVIOUS
  <2>1. PICK f \in [0..k -> V] : Leads(k, f)
    BY <1>2
  <2> DEFINE last == step[<<f[k], k + 1>>]
  <2> DEFINE g == [i \in 0..(k + 1) |-> IF i = k + 1 THEN last ELSE f[i]]
  <2>2. last \in V
    OBVIOUS
  <2>3. g \in [0..(k + 1) -> V]
    <3> HIDE DEF last
    <3> QED BY <2>2
  <2>4. ASSUME NEW i \in 0..(k + 1)
        PROVE  g[i] = IF i = 0 THEN v0 ELSE step[<<g[i - 1], i>>]
    <3>1. CASE i = k + 1
      <4>1. g[i] = last /\ g[i - 1] = f[k] /\ i # 0
        BY <3>1
      <4> QED BY <3>1, <4>1
    <3>2. CASE i # k + 1
      <4>1. i \in 0..k /\ g[i] = f[i] /\ (i # 0 => g[i - 1] = f[i - 1])
        BY <3>2
      <4>2. f[i] = IF i = 0 THEN v0 ELSE step[<<f[i - 1], i>>]
        BY <2>1, <4>1
      <4> HIDE DEF g
      <4> QED BY <4>1, <4>2
    <3> QED BY <3>1, <3>2
  <2>5. Leads(k + 1, g)
    <3>1. g = [i \in 0..(k + 1) |-> g[i]]
      OBVIOUS
    <3> HIDE DEF g
    <3> QED BY <2>4, <3>1
  <2> HIDE DEF g, Leads
  <2> QED BY <2>3, <2>5
<1>3. n \in S
  <2> HIDE DEF S
  <2> QED BY <1>1, <1>2, UpwardInduction
<1> QED BY <1>3 DEF Recurs

\* Those of a sequence are put together one element at a time.
LEMMA ThoseRecur ==
    ASSUME NEW S, NEW s \in Seq(S), NEW wanted
    PROVE  \E f : /\ Those(s, wanted) = f[Len(s)]
                  /\ \A i \in 0..Len(s) :
                        f[i] = IF i = 0 THEN <<>>
                               ELSE IF s[i] \in wanted THEN Append(f[i - 1], s[i]) ELSE f[i - 1]
<1> DEFINE n == Len(s)
<1> DEFINE next(x, i) == IF s[i] \in wanted THEN Append(x, s[i]) ELSE x
<1> DEFINE step == [x \in Seq(S) \X (1..n) |-> next(x[1], x[2])]
<1>1. n \in Nat /\ \A i \in 1..n : s[i] \in S
  OBVIOUS
<1>2. PICK f \in [0..n -> Seq(S)] :
          f = [i \in 0..n |-> IF i = 0 THEN <<>> ELSE step[<<f[i - 1], i>>]]
  <2>1. step \in [Seq(S) \X (1..n) -> Seq(S)]
    BY <1>1
  <2> DEFINE V == Seq(S)
  <2> DEFINE v0 == <<>>
  <2>2. n \in Nat /\ v0 \in V /\ step \in [V \X (1..n) -> V]
    BY <1>1, <2>1
  <2> HIDE DEF step, n, V, v0
  <2>3. \E f \in [0..n -> V] : Recurs(f, n, v0, step)
    BY <2>2, RecursionExists
  <2> QED BY <2>3 DEF V, v0, Recurs
<1>3. \A i \in 0..n : f[i] = IF i = 0 THEN <<>> ELSE next(f[i - 1], i)
  <2>1. ASSUME NEW i \in 0..n, i # 0 PROVE step[<<f[i - 1], i>>] = next(f[i - 1], i)
    <3>1. <<f[i - 1], i>> \in Seq(S) \X (1..n)
      BY <1>1, <2>1
    <3> HIDE DEF n, next
    <3> QED BY <3>1
  <2> HIDE DEF step, next, n
  <2> QED BY <1>2, <2>1
<1> DEFINE those == CHOOSE g : g = [i \in 0..n |-> IF i = 0 THEN <<>>
                                     ELSE IF s[i] \in wanted THEN Append(g[i - 1], s[i]) ELSE g[i - 1]]
<1>4. those = [i \in 0..n |-> IF i = 0 THEN <<>>
                 ELSE IF s[i] \in wanted THEN Append(those[i - 1], s[i]) ELSE those[i - 1]]
  <2>1. f = [i \in 0..n |-> IF i = 0 THEN <<>>
               ELSE IF s[i] \in wanted THEN Append(f[i - 1], s[i]) ELSE f[i - 1]]
    <3>1. f = [i \in 0..n |-> f[i]]
      BY <1>2
    <3> HIDE DEF n
    <3> QED BY <1>3, <3>1
  <2> QED BY <2>1
<1>5. Those(s, wanted) = those[n]
  BY DEF Those
<1>6. \A i \in 0..n : those[i] = IF i = 0 THEN <<>>
                               ELSE IF s[i] \in wanted THEN Append(those[i - 1], s[i]) ELSE those[i - 1]
  <2> HIDE DEF those
  <2> QED BY <1>4
<1> HIDE DEF those
<1> QED BY <1>5, <1>6

\* Those of a sequence are a sequence of its elements that are wanted, and of all of them.
LEMMA ThoseAreWanted ==
    ASSUME NEW S, NEW s \in Seq(S), NEW wanted
    PROVE  Those(s, wanted) \in Seq(S) /\ ToSet(Those(s, wanted)) = ToSet(s) \intersect wanted
<1> DEFINE n == Len(s)
<1>1. n \in Nat /\ \A i \in 1..n : s[i] \in S
  OBVIOUS
<1>2. PICK those : /\ Those(s, wanted) = those[n]
                   /\ \A i \in 0..n : those[i] = IF i = 0 THEN <<>>
                         ELSE IF s[i] \in wanted THEN Append(those[i - 1], s[i]) ELSE those[i - 1]
  BY ThoseRecur
<1> DEFINE T == {k \in Nat : k <= n => /\ those[k] \in Seq(S)
                                       /\ ToSet(those[k]) = {s[i] : i \in 1..k} \intersect wanted}
<1>6. 0 \in T
  <2>1. those[0] = <<>>
    BY <1>1, <1>2
  <2>2. <<>> \in Seq(S) /\ ToSet(<<>>) = {} /\ {s[i] : i \in 1..0} = {}
    BY DEF ToSet
  <2> QED BY <2>1, <2>2
<1>7. ASSUME NEW k \in Nat, k >= 0, k \in T PROVE k + 1 \in T
  <2> SUFFICES ASSUME k + 1 <= n
               PROVE  /\ those[k + 1] \in Seq(S)
                      /\ ToSet(those[k + 1]) = {s[i] : i \in 1..(k + 1)} \intersect wanted
    OBVIOUS
  <2> DEFINE x == those[k]
  <2> DEFINE e == s[k + 1]
  <2>1. x \in Seq(S) /\ ToSet(x) = {s[i] : i \in 1..k} \intersect wanted
    BY <1>7
  <2>2. those[k + 1] = IF e \in wanted THEN Append(x, e) ELSE x
    <3>1. k + 1 \in 0..n /\ k + 1 # 0 /\ (k + 1) - 1 = k
      BY <1>1
    <3> HIDE DEF n
    <3> QED BY <1>2, <3>1
  <2>3. {s[i] : i \in 1..(k + 1)} = {s[i] : i \in 1..k} \union {e}
    OBVIOUS
  <2>4. e \in S
    BY <1>1
  <2> HIDE DEF x, e
  <2>5. CASE e \in wanted
    <3>1. ToSet(Append(x, e)) = ToSet(x) \union {e}
      <4>1. DOMAIN Append(x, e) = DOMAIN x \union {Len(x) + 1}
        BY <2>1, <2>4
      <4>2. \A i \in DOMAIN x : Append(x, e)[i] = x[i]
        BY <2>1, <2>4
      <4>3. Append(x, e)[Len(x) + 1] = e
        BY <2>1, <2>4
      <4>4. Len(x) + 1 \notin DOMAIN x
        BY <2>1
      <4> DEFINE y == Append(x, e)
      <4> DEFINE l == Len(x) + 1
      <4>5. DOMAIN y = DOMAIN x \union {l} /\ y[l] = e /\ \A i \in DOMAIN x : y[i] = x[i]
        BY <4>1, <4>2, <4>3
      <4> HIDE DEF y, l
      <4>6. {y[i] : i \in DOMAIN y} = {x[i] : i \in DOMAIN x} \union {e}
        BY <4>5
      <4> QED BY <4>6 DEF ToSet, y
    <3>2. Append(x, e) \in Seq(S)
      BY <2>1, <2>4
    <3> QED BY <2>1, <2>2, <2>3, <2>5, <3>1, <3>2
  <2>6. CASE e \notin wanted
    BY <2>1, <2>2, <2>3, <2>6
  <2> QED BY <2>5, <2>6
<1>8. n \in T
  <2>1. \A k \in Nat : k >= 0 => k \in T
    <3> HIDE DEF T
    <3> QED BY <1>6, <1>7, UpwardInduction
  <2> HIDE DEF T, n
  <2> QED BY <1>1, <2>1
<1>9. ToSet(s) = {s[i] : i \in 1..n}
  BY DEF ToSet
<1> QED BY <1>1, <1>2, <1>8, <1>9

\* The last that is wanted, where there is one: no later one is wanted.
IsLast(s, wanted, i) ==
    i \in DOMAIN s /\ s[i] \in wanted /\ \A j \in DOMAIN s : s[j] \in wanted => j <= i

\* Where it is, it is the only one.
LEMMA LastAt ==
    ASSUME NEW S, NEW s \in Seq(S), NEW wanted, NEW i, IsLast(s, wanted, i)
    PROVE  LastIn(s, wanted) = s[i]
<1> DEFINE Stands(x) == s[x] \in wanted /\ \A j \in DOMAIN s : s[j] \in wanted => j <= x
<1>1. DOMAIN s \subseteq Nat /\ i \in DOMAIN s /\ Stands(i)
  BY DEF IsLast
<1>2. ASSUME NEW x \in DOMAIN s, Stands(x) PROVE x = i
  <2>1. x <= i /\ i <= x
    BY <1>1, <1>2
  <2> QED BY <1>1, <2>1
<1>3. (CHOOSE x \in DOMAIN s : Stands(x)) = i
  <2> HIDE DEF Stands
  <2> QED BY <1>1, <1>2
<1> QED BY <1>3 DEF LastIn

\* There is one once anything is wanted.
LEMMA LastExists ==
    ASSUME NEW S, NEW s \in Seq(S), NEW wanted, NEW e \in ToSet(s), e \in wanted
    PROVE  \E i : IsLast(s, wanted, i)
<1> DEFINE n == Len(s)
<1> DEFINE at == {i \in 1..n : s[i] \in wanted}
<1>1. n \in Nat /\ DOMAIN s = 1..n
  OBVIOUS
<1>2. at \in SUBSET (1..n) /\ at # {}
  BY <1>1 DEF ToSet
<1>3. PICK x \in at : \A y \in at : y <= x
  <2> HIDE DEF at, n
  <2> QED BY <1>1, <1>2, GreatestBelow
<1>4. IsLast(s, wanted, x)
  BY <1>1, <1>3 DEF IsLast
<1> QED BY <1>4

\* Nothing that is left out of a sequence is the last of what is looked for.
LEMMA ThoseKeepLast ==
    ASSUME NEW S, NEW s \in Seq(S), NEW wanted, NEW V, V \subseteq wanted, NEW l, IsLast(s, V, l)
    PROVE  \E m : IsLast(Those(s, wanted), V, m) /\ Those(s, wanted)[m] = s[l]
<1> DEFINE n == Len(s)
<1>1. /\ n \in Nat /\ DOMAIN s = 1..n /\ \A i \in 1..n : s[i] \in S
      /\ l \in 1..n /\ s[l] \in V /\ \A j \in 1..n : s[j] \in V => j <= l
  BY DEF IsLast
<1>2. PICK those : /\ Those(s, wanted) = those[n]
                   /\ \A i \in 0..n : those[i] = IF i = 0 THEN <<>>
                         ELSE IF s[i] \in wanted THEN Append(those[i - 1], s[i]) ELSE those[i - 1]
  BY ThoseRecur
<1> DEFINE Kept(x) == \E m : IsLast(x, V, m) /\ x[m] = s[l]
<1> DEFINE T == {k \in Nat : k <= n => those[k] \in Seq(S) /\ (k >= l => Kept(those[k]))}
<1> HIDE DEF Kept
<1>3. 0 \in T
  <2>1. those[0] = <<>>
    BY <1>1, <1>2
  <2>2. <<>> \in Seq(S) /\ ~(0 >= l)
    BY <1>1
  <2> QED BY <2>1, <2>2
<1>4. ASSUME NEW k \in Nat, k >= 0, k \in T PROVE k + 1 \in T
  <2> SUFFICES ASSUME k + 1 <= n
               PROVE  those[k + 1] \in Seq(S) /\ (k + 1 >= l => Kept(those[k + 1]))
    OBVIOUS
  <2> DEFINE x == those[k]
  <2> DEFINE e == s[k + 1]
  <2> DEFINE y == Append(x, e)
  <2> DEFINE z == Len(x) + 1
  <2>1. x \in Seq(S) /\ (k >= l => Kept(x))
    BY <1>4
  <2>2. those[k + 1] = IF e \in wanted THEN y ELSE x
    <3>1. k + 1 \in 0..n /\ k + 1 # 0 /\ (k + 1) - 1 = k
      BY <1>1
    <3> HIDE DEF n
    <3> QED BY <1>2, <3>1
  <2>3. e \in S /\ (e \in V => k + 1 <= l)
    BY <1>1
  <2> HIDE DEF x
  <2>4. /\ y \in Seq(S) /\ z \in Nat /\ DOMAIN y = DOMAIN x \union {z} /\ y[z] = e
        /\ \A i \in DOMAIN x : y[i] = x[i] /\ i <= z /\ i \in Nat
    BY <2>1, <2>3
  <2>5. CASE k + 1 = l
    <3>1. e = s[l] /\ e \in V /\ e \in wanted
      BY <1>1, <2>5
    <3> HIDE DEF e, y, z
    <3>2. IsLast(y, V, z) /\ y[z] = s[l]
      BY <2>4, <3>1 DEF IsLast
    <3> QED BY <2>2, <2>4, <3>1, <3>2 DEF Kept
  <2>6. CASE k + 1 # l
    <3>1. e \in V => ~(k + 1 >= l)
      BY <1>1, <2>3, <2>6
    <3>2. k + 1 >= l => k >= l
      BY <1>1, <2>6
    <3> HIDE DEF e, y, z
    <3>3. ASSUME k + 1 >= l PROVE Kept(y)
      <4>1. PICK m : IsLast(x, V, m) /\ x[m] = s[l]
        BY <2>1, <3>2, <3>3 DEF Kept
      <4>2. IsLast(y, V, m) /\ y[m] = s[l]
        BY <2>4, <3>1, <3>3, <4>1 DEF IsLast
      <4> QED BY <4>2 DEF Kept
    <3> QED BY <2>1, <2>2, <2>4, <3>2, <3>3
  <2> QED BY <2>5, <2>6
<1>5. n \in T
  <2>1. \A k \in Nat : k >= 0 => k \in T
    <3> HIDE DEF T
    <3> QED BY <1>3, <1>4, UpwardInduction
  <2> HIDE DEF T, n
  <2> QED BY <1>1, <2>1
<1> QED BY <1>1, <1>2, <1>5 DEF Kept

\* The lists of a list, joined, are a list of their elements.
LEMMA JoinedIsList ==
    ASSUME NEW S, NEW lists \in Seq(Seq(S))
    PROVE  Joined(lists) \in Seq(S)
<1> DEFINE n == Len(lists)
<1> DEFINE V == Seq(S)
<1> DEFINE v0 == <<>>
<1> DEFINE step == [x \in V \X (1..n) |-> x[1] \o lists[x[2]]]
<1>1. n \in Nat /\ \A i \in 1..n : lists[i] \in V
  OBVIOUS
<1>2. step \in [V \X (1..n) -> V] /\ v0 \in V
  <2>1. ASSUME NEW x \in V, NEW y \in V PROVE x \o y \in V
    OBVIOUS
  <2>2. v0 \in V
    OBVIOUS
  <2> HIDE DEF n, V, v0
  <2> QED BY <1>1, <2>1, <2>2
<1>3. PICK f \in [0..n -> V] : Recurs(f, n, v0, step)
  <2> HIDE DEF step, n, V, v0
  <2> QED BY <1>1, <1>2, RecursionExists
<1> DEFINE Joins(g) == g = [i \in 0..n |-> IF i = 0 THEN <<>> ELSE g[i - 1] \o lists[i]]
<1>4. Joins(f)
  <2>1. ASSUME NEW i \in 0..n PROVE f[i] = IF i = 0 THEN v0 ELSE f[i - 1] \o lists[i]
    <3>1. f[i] = IF i = 0 THEN v0 ELSE step[<<f[i - 1], i>>]
      <4> HIDE DEF step, n, v0
      <4> QED BY <1>3 DEF Recurs
    <3>2. i # 0 => <<f[i - 1], i>> \in V \X (1..n)
      <4>1. i # 0 => i - 1 \in 0..n /\ i \in 1..n
        BY <1>1
      <4> HIDE DEF n, V
      <4> QED BY <4>1
    <3> HIDE DEF n, V, v0
    <3> QED BY <3>1, <3>2
  <2>2. f = [i \in 0..n |-> f[i]]
    OBVIOUS
  <2> HIDE DEF n
  <2> QED BY <2>1, <2>2
<1> DEFINE joined == CHOOSE g : Joins(g)
<1>5. Joins(joined)
  <2> HIDE DEF Joins
  <2> QED BY <1>4
<1>6. Joined(lists) = joined[n]
  BY DEF Joined
<1> DEFINE T == {k \in Nat : k <= n => joined[k] \in V}
<1> HIDE DEF joined, V
<1>7. 0 \in T
  <2>1. joined[0] = <<>>
    BY <1>1, <1>5
  <2> QED BY <1>2, <2>1
<1>8. ASSUME NEW k \in Nat, k >= 0, k \in T PROVE k + 1 \in T
  <2> SUFFICES ASSUME k + 1 <= n PROVE joined[k + 1] \in V
    OBVIOUS
  <2>1. joined[k + 1] = joined[k] \o lists[k + 1]
    <3>1. k + 1 \in 0..n /\ k + 1 # 0 /\ (k + 1) - 1 = k
      BY <1>1
    <3> HIDE DEF n
    <3> QED BY <1>5, <3>1
  <2>2. joined[k] \in V /\ lists[k + 1] \in V
    BY <1>1, <1>8
  <2>3. ASSUME NEW x \in V, NEW y \in V PROVE x \o y \in V
    BY DEF V
  <2> QED BY <2>1, <2>2, <2>3
<1>9. n \in T
  <2>1. \A k \in Nat : k >= 0 => k \in T
    <3> HIDE DEF T
    <3> QED BY <1>7, <1>8, UpwardInduction
  <2> HIDE DEF T, n
  <2> QED BY <1>1, <2>1
<1> QED BY <1>1, <1>6, <1>9 DEF V
=============================================================================
