------------------------- MODULE IncludeWalkProofs -------------------------
(***************************************************************************)
(* What the include walk leaves behind, for every project. The visits under *)
(* way spell an address, and what has been visited is what comes before it  *)
(* in the order of the addresses; that order has no two addresses level, so *)
(* the first to declare a service and the first problem are single ones.    *)
(***************************************************************************)
EXTENDS IncludeWalk, InductionLemmas, FiniteSetTheorems, SequenceTheorems

\* The first k positions of an address.
Upto(p, k) == [j \in 1..k |-> p[j]]

\* They are an address of that length.
LEMMA UptoIsSequence ==
    ASSUME NEW p \in Seq(Nat), NEW k \in 0..Len(p)
    PROVE  /\ Upto(p, k) \in Seq(Nat) /\ Len(Upto(p, k)) = k
           /\ \A j \in 1..k : Upto(p, k)[j] = p[j]
BY DEF Upto

\* All of them are the address itself.
LEMMA UptoAll ==
    ASSUME NEW p \in Seq(Nat)
    PROVE  Upto(p, Len(p)) = p
BY DEF Upto

\* Addresses that agree so far have the same first positions.
LEMMA UptoAgree ==
    ASSUME NEW p, NEW q, NEW k \in Nat, \A j \in 1..k : p[j] = q[j]
    PROVE  Upto(p, k) = Upto(q, k)
BY DEF Upto

\* An address is that of its includer and a position.
LEMMA LastPosition ==
    ASSUME NEW p \in Seq(Nat), p # <<>>
    PROVE  /\ Len(p) - 1 \in 0..Len(p) /\ p[Len(p)] \in Nat
           /\ p = Append(Upto(p, Len(p) - 1), p[Len(p)])
<1>1. Len(p) \in Nat /\ Len(p) > 0 /\ p[Len(p)] \in Nat
  OBVIOUS
<1> DEFINE q == Upto(p, Len(p) - 1)
<1>2. q \in Seq(Nat) /\ Len(q) = Len(p) - 1 /\ \A j \in 1..(Len(p) - 1) : q[j] = p[j]
  <2>1. Len(p) - 1 \in 0..Len(p)
    BY <1>1
  <2> QED BY <2>1, UptoIsSequence
<1> HIDE DEF q
<1>3. p = Append(q, p[Len(p)])
  <2> DEFINE r == Append(q, p[Len(p)])
  <2>1. r \in Seq(Nat) /\ Len(r) = Len(p)
    BY <1>1, <1>2
  <2>2. ASSUME NEW j \in 1..Len(p) PROVE r[j] = p[j]
    BY <1>1, <1>2
  <2> HIDE DEF r
  <2>3. r = p
    BY <2>1, <2>2, SeqEqual
  <2> QED BY <2>3 DEF r
<1> QED BY <1>1, <1>3 DEF q

\* What Append does to an address.
LEMMA Appended ==
    ASSUME NEW p \in Seq(Nat), NEW i \in Nat
    PROVE  /\ Append(p, i) \in Seq(Nat) /\ Len(Append(p, i)) = Len(p) + 1
           /\ Append(p, i)[Len(p) + 1] = i
           /\ \A j \in 1..Len(p) : Append(p, i)[j] = p[j]
           /\ Upto(Append(p, i), Len(p)) = p
<1>1. /\ Append(p, i) \in Seq(Nat) /\ Len(Append(p, i)) = Len(p) + 1
      /\ Append(p, i)[Len(p) + 1] = i
      /\ \A j \in 1..Len(p) : Append(p, i)[j] = p[j]
  OBVIOUS
<1>2. Upto(Append(p, i), Len(p)) = Upto(p, Len(p))
  <2> DEFINE q == Append(p, i)
  <2>1. Len(p) \in Nat /\ \A j \in 1..Len(p) : q[j] = p[j]
    BY <1>1
  <2> HIDE DEF q
  <2>2. Upto(q, Len(p)) = Upto(p, Len(p))
    BY <2>1, UptoAgree
  <2> QED BY <2>2 DEF q
<1> QED BY <1>1, <1>2, UptoAll
-----------------------------------------------------------------------------
\* No two visits happen each before the other, and none before itself.
LEMMA BeforeIsStrict ==
    ASSUME NEW a \in Seq(Nat), NEW b \in Seq(Nat), Before(a, b)
    PROVE  a # b /\ ~Before(b, a)
<1>1. /\ Len(a) \in Nat /\ Len(b) \in Nat /\ DOMAIN a = 1..Len(a) /\ DOMAIN b = 1..Len(b)
      /\ \A j \in 1..Len(a) : a[j] \in Nat
      /\ \A j \in 1..Len(b) : b[j] \in Nat
  OBVIOUS
<1>2. ~Before(b, a)
  <2> SUFFICES ASSUME Before(b, a) PROVE FALSE
    OBVIOUS
  <2>1. CASE Len(a) < Len(b) /\ \A j \in DOMAIN a : a[j] = b[j]
    <3>1. ~(Len(b) < Len(a))
      BY <1>1, <2>1
    <3>2. ASSUME NEW k \in DOMAIN b \intersect DOMAIN a PROVE ~(b[k] < a[k])
      <4>1. a[k] = b[k] /\ a[k] \in Nat
        BY <1>1, <2>1
      <4> QED BY <4>1
    <3> QED BY <3>1, <3>2 DEF Before
  <2>2. CASE \E k \in DOMAIN a \intersect DOMAIN b :
                a[k] < b[k] /\ \A j \in 1..(k - 1) : a[j] = b[j]
    <3>1. PICK k \in DOMAIN a \intersect DOMAIN b :
                a[k] < b[k] /\ \A j \in 1..(k - 1) : a[j] = b[j]
      BY <2>2
    <3>2. CASE Len(b) < Len(a) /\ \A j \in DOMAIN b : b[j] = a[j]
      <4>1. b[k] = a[k] /\ a[k] \in Nat
        BY <1>1, <3>1, <3>2
      <4> QED BY <3>1, <4>1
    <3>3. CASE \E l \in DOMAIN b \intersect DOMAIN a :
                  b[l] < a[l] /\ \A j \in 1..(l - 1) : b[j] = a[j]
      <4>1. PICK l \in DOMAIN b \intersect DOMAIN a :
                  b[l] < a[l] /\ \A j \in 1..(l - 1) : b[j] = a[j]
        BY <3>3
      <4>2. k \in 1..Len(a) /\ l \in 1..Len(a) /\ a[k] \in Nat /\ b[k] \in Nat /\ a[l] \in Nat /\ b[l] \in Nat
        BY <1>1, <3>1, <4>1
      <4>3. CASE k < l
        <5>1. k \in 1..(l - 1)
          BY <4>2, <4>3
        <5> QED BY <3>1, <4>1, <4>2, <5>1
      <4>4. CASE l < k
        <5>1. l \in 1..(k - 1)
          BY <4>2, <4>4
        <5> QED BY <3>1, <4>1, <4>2, <5>1
      <4>5. CASE k = l
        BY <3>1, <4>1, <4>2, <4>5
      <4> QED BY <4>2, <4>3, <4>4, <4>5
    <3> QED BY <3>2, <3>3 DEF Before
  <2> QED BY <2>1, <2>2 DEF Before
<1> QED BY <1>2

\* Of any two visits one happens before the other.
LEMMA BeforeIsTotal ==
    ASSUME NEW a \in Seq(Nat), NEW b \in Seq(Nat), a # b
    PROVE  Before(a, b) \/ Before(b, a)
<1>1. /\ Len(a) \in Nat /\ Len(b) \in Nat /\ DOMAIN a = 1..Len(a) /\ DOMAIN b = 1..Len(b)
      /\ \A j \in 1..Len(a) : a[j] \in Nat
      /\ \A j \in 1..Len(b) : b[j] \in Nat
  OBVIOUS
<1> DEFINE T == {k \in Nat : k \in DOMAIN a \intersect DOMAIN b /\ a[k] # b[k]}
<1>2. CASE T # {}
  <2>1. PICK k \in T : \A l \in T : k <= l
    <3>1. T \in SUBSET Nat
      OBVIOUS
    <3> HIDE DEF T
    <3> QED BY <1>2, <3>1, LeastNatural
  <2>2. k \in DOMAIN a \intersect DOMAIN b /\ k \in 1..Len(a) /\ k \in 1..Len(b) /\ a[k] # b[k]
    BY <1>1, <2>1
  <2>3. ASSUME NEW j \in 1..(k - 1) PROVE a[j] = b[j]
    <3>1. j \in Nat /\ j < k /\ j \in DOMAIN a \intersect DOMAIN b
      BY <1>1, <2>2
    <3>2. j \notin T
      BY <2>1, <3>1
    <3> QED BY <3>1, <3>2
  <2>4. a[k] < b[k] \/ b[k] < a[k]
    BY <1>1, <2>2
  <2> QED BY <2>2, <2>3, <2>4 DEF Before
<1>3. CASE T = {}
  <2>1. ASSUME NEW j \in DOMAIN a \intersect DOMAIN b PROVE a[j] = b[j]
    <3>1. j \in Nat /\ j \notin T
      BY <1>1, <1>3
    <3> QED BY <3>1
  <2>2. Len(a) # Len(b)
    <3> SUFFICES ASSUME Len(a) = Len(b) PROVE a = b
      OBVIOUS
    <3> QED BY <1>1, <2>1, SeqEqual
  <2>3. CASE Len(a) < Len(b)
    BY <1>1, <2>1, <2>3 DEF Before
  <2>4. CASE Len(b) < Len(a)
    BY <1>1, <2>1, <2>4 DEF Before
  <2>5. Len(a) < Len(b) \/ Len(b) < Len(a)
    <3> DEFINE m == Len(a)
    <3> DEFINE n == Len(b)
    <3>1. m \in Nat /\ n \in Nat /\ m # n
      BY <2>2
    <3> HIDE DEF m, n
    <3>2. m < n \/ n < m
      BY <3>1
    <3> QED BY <3>2 DEF m, n
  <2> QED BY <2>3, <2>4, <2>5
<1> QED BY <1>2, <1>3
-----------------------------------------------------------------------------
\* f gives the visits along an address, the walk's own first.
Route(t, p, f) ==
    f = [n \in 0..Len(p) |-> IF n = 0 THEN Start(t) ELSE Child(t, f[n - 1], p[n])]

\* There is such a route, and Node is where it ends.
LEMMA NodeEndsRoute ==
    ASSUME NEW t, NEW p \in Seq(Nat)
    PROVE  \E f : Route(t, p, f) /\ Node(t, p) = f[Len(p)]
<1> DEFINE m == Len(p)
<1> DEFINE Leads(k, f) == f = [n \in 0..k |-> IF n = 0 THEN Start(t) ELSE Child(t, f[n - 1], p[n])]
<1> DEFINE T == {k \in Nat : \E f : Leads(k, f)}
<1>1. 0 \in T
  <2> DEFINE f0 == [n \in 0..0 |-> Start(t)]
  <2>1. Leads(0, f0)
    OBVIOUS
  <2> HIDE DEF f0, Leads
  <2> QED BY <2>1
<1>2. ASSUME NEW k \in Nat, k >= 0, k \in T PROVE k + 1 \in T
  <2>1. PICK f : Leads(k, f)
    BY <1>2
  <2> DEFINE last == Child(t, f[k], p[k + 1])
  <2> DEFINE g == [n \in 0..(k + 1) |-> IF n = k + 1 THEN last ELSE f[n]]
  <2>2. ASSUME NEW n \in 0..(k + 1)
        PROVE  g[n] = IF n = 0 THEN Start(t) ELSE Child(t, g[n - 1], p[n])
    <3>1. CASE n = k + 1
      <4>1. g[n] = last /\ g[n - 1] = f[k] /\ n # 0
        BY <3>1
      <4> QED BY <3>1, <4>1
    <3>2. CASE n # k + 1
      <4>1. n \in 0..k /\ g[n] = f[n] /\ (n # 0 => g[n - 1] = f[n - 1])
        BY <3>2
      <4>2. f[n] = IF n = 0 THEN Start(t) ELSE Child(t, f[n - 1], p[n])
        BY <2>1, <4>1
      <4> HIDE DEF g
      <4> QED BY <4>1, <4>2
    <3> QED BY <3>1, <3>2
  <2>3. Leads(k + 1, g)
    <3>1. g = [n \in 0..(k + 1) |-> g[n]]
      OBVIOUS
    <3> HIDE DEF g
    <3> QED BY <2>2, <3>1
  <2> HIDE DEF g, Leads
  <2> QED BY <2>3
<1>3. m \in T
  <2>1. m \in Nat
    OBVIOUS
  <2>2. \A k \in Nat : k >= 0 => k \in T
    <3> HIDE DEF T
    <3> QED BY <1>1, <1>2, UpwardInduction
  <2> HIDE DEF T, m
  <2> QED BY <2>1, <2>2
<1>4. \E f : Route(t, p, f)
  BY <1>3 DEF Route
<1> DEFINE node == CHOOSE f : Route(t, p, f)
<1>5. Node(t, p) = node[m]
  BY DEF Node, Route
<1> HIDE DEF m
<1> QED BY <1>4, <1>5 DEF m

\* Routes agree for as long as their addresses do.
LEMMA RoutesAgree ==
    ASSUME NEW t, NEW p \in Seq(Nat), NEW q \in Seq(Nat), NEW f, NEW g,
           Route(t, p, f), Route(t, q, g),
           NEW k \in Nat, k <= Len(p), k <= Len(q), \A j \in 1..k : p[j] = q[j]
    PROVE  f[k] = g[k]
<1> DEFINE T == {l \in Nat : l <= k => f[l] = g[l]}
<1>1. /\ \A n \in 0..Len(p) : f[n] = IF n = 0 THEN Start(t) ELSE Child(t, f[n - 1], p[n])
      /\ \A n \in 0..Len(q) : g[n] = IF n = 0 THEN Start(t) ELSE Child(t, g[n - 1], q[n])
  BY DEF Route
<1>2. 0 \in T
  <2>1. 0 \in 0..Len(p) /\ 0 \in 0..Len(q)
    OBVIOUS
  <2> QED BY <1>1, <2>1
<1>3. ASSUME NEW l \in Nat, l >= 0, l \in T PROVE l + 1 \in T
  <2> SUFFICES ASSUME l + 1 <= k PROVE f[l + 1] = g[l + 1]
    OBVIOUS
  <2>1. l + 1 \in 0..Len(p) /\ l + 1 \in 0..Len(q) /\ l + 1 # 0 /\ (l + 1) - 1 = l
    OBVIOUS
  <2>2. f[l] = g[l] /\ p[l + 1] = q[l + 1]
    BY <1>3
  <2> QED BY <1>1, <2>1, <2>2
<1>4. k \in T
  <2>1. \A l \in Nat : l >= 0 => l \in T
    <3> HIDE DEF T
    <3> QED BY <1>2, <1>3, UpwardInduction
  <2> HIDE DEF T
  <2> QED BY <2>1
<1> QED BY <1>4

\* A longer address leads from the visit of the shorter one by its last position.
LEMMA NodeSteps ==
    ASSUME NEW t, NEW p \in Seq(Nat), NEW q \in Seq(Nat), NEW n \in Nat,
           Len(p) = n, Len(q) = n + 1, \A j \in 1..n : p[j] = q[j]
    PROVE  Node(t, q) = Child(t, Node(t, p), q[n + 1])
<1>1. PICK f : Route(t, p, f) /\ Node(t, p) = f[n]
  BY NodeEndsRoute
<1>2. PICK g : Route(t, q, g) /\ Node(t, q) = g[n + 1]
  BY NodeEndsRoute
<1>3. g[n + 1] = Child(t, g[n], q[n + 1])
  <2>1. n + 1 \in 0..Len(q) /\ n + 1 # 0 /\ (n + 1) - 1 = n
    OBVIOUS
  <2> QED BY <1>2, <2>1 DEF Route
<1>4. f[n] = g[n]
  <2>1. n <= Len(p) /\ n <= Len(q)
    OBVIOUS
  <2>2. Route(t, p, f) /\ Route(t, q, g)
    BY <1>1, <1>2
  <2> QED BY <2>1, <2>2, RoutesAgree
<1> QED BY <1>1, <1>2, <1>3, <1>4

\* The visit at an address is the one its includer's visit leads to by the last position.
LEMMA NodeUnfolds ==
    ASSUME NEW t
    PROVE  /\ Node(t, <<>>) = Start(t)
           /\ \A p \in Seq(Nat), i \in Nat : Node(t, Append(p, i)) = Child(t, Node(t, p), i)
<1>1. Node(t, <<>>) = Start(t)
  <2> DEFINE p == <<>>
  <2>1. p \in Seq(Nat) /\ Len(p) = 0
    OBVIOUS
  <2> HIDE DEF p
  <2>2. PICK f : Route(t, p, f) /\ Node(t, p) = f[Len(p)]
    BY <2>1, NodeEndsRoute
  <2>3. f[0] = Start(t)
    BY <2>1, <2>2 DEF Route
  <2> QED BY <2>1, <2>2, <2>3 DEF p
<1>2. ASSUME NEW p \in Seq(Nat), NEW i \in Nat PROVE Node(t, Append(p, i)) = Child(t, Node(t, p), i)
  <2> DEFINE q == Append(p, i)
  <2> DEFINE n == Len(p)
  <2>1. q \in Seq(Nat) /\ Len(q) = n + 1 /\ n \in Nat /\ q[n + 1] = i /\ \A j \in 1..n : p[j] = q[j]
    BY Appended
  <2> HIDE DEF q
  <2>2. Node(t, q) = Child(t, Node(t, p), q[n + 1])
    BY <2>1, NodeSteps
  <2> QED BY <2>1, <2>2 DEF q
<1> QED BY <1>1, <1>2
-----------------------------------------------------------------------------
\* A list has its positions from 1 to its length.
LEMMA ListPositions ==
    ASSUME NEW s, IsList(s)
    PROVE  Len(s) \in Nat /\ DOMAIN s = 1..Len(s) /\ \A i \in 1..Len(s) : s[i] \in ToSet(s)
<1> DEFINE S == ToSet(s)
<1>1. s \in Seq(S)
  BY DEF IsList
<1> HIDE DEF S
<1>2. Len(s) \in Nat /\ DOMAIN s = 1..Len(s)
  BY <1>1
<1> QED BY <1>2 DEF ToSet

\* A sequence is a list, and so is what one computes from each element of a list.
LEMMA ListIsMapped ==
    ASSUME NEW n \in Nat, NEW s, s = [i \in 1..n |-> s[i]]
    PROVE  IsList(s) /\ Len(s) = n
<1> DEFINE S == ToSet(s)
<1>1. \A i \in 1..n : s[i] \in S
  BY DEF ToSet
<1> HIDE DEF S
<1>2. s \in [1..n -> S]
  BY <1>1
<1>3. s \in Seq(S) /\ Len(s) = n
  BY <1>2
<1> QED BY <1>3 DEF IsList, S

\* The includes of files that are there are a list, and each has a list of paths.
LEMMA IncludesAreList ==
    ASSUME NEW t \in Trees, NEW files, IsList(files), ToSet(files) \subseteq DOMAIN t.files
    PROVE  /\ IsList(includeConfigs(t, files))
           /\ \A i \in DOMAIN includeConfigs(t, files) : IsList(includeConfigs(t, files)[i].paths)
<1> DEFINE S == {inc \in UNION {ToSet(t.files[f].includes) : f \in DOMAIN t.files} : IsList(inc.paths)}
<1> DEFINE lists == [i \in DOMAIN files |-> t.files[files[i]].includes]
<1>1. Len(files) \in Nat /\ DOMAIN files = 1..Len(files) /\ \A i \in 1..Len(files) : files[i] \in ToSet(files)
  BY ListPositions
<1>2. ASSUME NEW f \in DOMAIN t.files PROVE t.files[f].includes \in Seq(S)
  <2> DEFINE s == t.files[f].includes
  <2>1. IsList(s) /\ \A inc \in ToSet(s) : IsList(inc.paths)
    BY TreesAssumption
  <2>2. Len(s) \in Nat /\ DOMAIN s = 1..Len(s) /\ \A i \in 1..Len(s) : s[i] \in ToSet(s)
    <3> HIDE DEF s
    <3> QED BY <2>1, ListPositions
  <2>3. \A i \in 1..Len(s) : s[i] \in S
    BY <2>1, <2>2
  <2>4. s = [i \in 1..Len(s) |-> s[i]]
    <3> DEFINE X == ToSet(s)
    <3>1. s \in Seq(X)
      BY <2>1 DEF IsList
    <3> HIDE DEF X, s
    <3> QED BY <3>1
  <2> HIDE DEF s, S
  <2>5. s \in Seq(S)
    <3>1. s \in [1..Len(s) -> S]
      BY <2>2, <2>3, <2>4
    <3> QED BY <2>2, <3>1
  <2> QED BY <2>5 DEF s
<1>3. lists \in Seq(Seq(S))
  <2>1. \A i \in 1..Len(files) : files[i] \in DOMAIN t.files
    BY <1>1
  <2>2. \A i \in 1..Len(files) : lists[i] \in Seq(S)
    <3> HIDE DEF S
    <3> QED BY <1>1, <1>2, <2>1
  <2> DEFINE V == Seq(S)
  <2> DEFINE n == Len(files)
  <2>3. lists = [i \in 1..n |-> lists[i]] /\ n \in Nat
    BY <1>1
  <2> HIDE DEF lists, V, n
  <2>4. lists \in [1..n -> V]
    BY <2>2, <2>3 DEF V, n
  <2>5. lists \in Seq(V)
    BY <2>3, <2>4
  <2> QED BY <2>5 DEF V
<1> DEFINE incs == Joined(lists)
<1>4. incs \in Seq(S)
  <2> HIDE DEF lists, S
  <2> QED BY <1>3, JoinedIsList
<1>5. includeConfigs(t, files) = incs
  BY DEF includeConfigs
<1>6. IsList(incs) /\ \A i \in DOMAIN incs : incs[i] \in S
  <2> HIDE DEF incs, S
  <2>1. Len(incs) \in Nat /\ incs = [i \in 1..Len(incs) |-> incs[i]] /\ \A i \in DOMAIN incs : incs[i] \in S
    BY <1>4
  <2> QED BY <2>1, ListIsMapped
<1>7. \A inc \in S : IsList(inc.paths)
  OBVIOUS
<1> HIDE DEF incs, S
<1> QED BY <1>5, <1>6, <1>7

\* What an include resolves to is a list of files.
LEMMA ChildIsList ==
    ASSUME NEW t, NEW dir, NEW inc, IsList(inc.paths)
    PROVE  IsList(resolveInclude(t, dir, inc).files)
<1> DEFINE n == Len(inc.paths)
<1> DEFINE s == [i \in DOMAIN inc.paths |-> absoluteTo(dir, inc.paths[i])]
<1>1. n \in Nat /\ DOMAIN inc.paths = 1..n
  BY ListPositions
<1>2. resolveInclude(t, dir, inc).files = s
  BY DEF resolveInclude
<1>3. s = [i \in 1..n |-> s[i]]
  BY <1>1
<1> HIDE DEF s, n
<1> QED BY <1>1, <1>2, <1>3, ListIsMapped
-----------------------------------------------------------------------------
\* The files of a visit that can be read are there.
LEMMA ReadFilesExist ==
    ASSUME NEW t, NEW node, Readable(t, node)
    PROVE  node.files # <<>> /\ ToSet(node.files) \subseteq DOMAIN t.files
  BY DEF Readable, Loads

\* The visit at p, if it is read, follows its include i.
Leads(t, p, i) ==
    /\ Readable(t, Node(t, p))
    /\ i \in 1..Len(includeConfigs(t, Node(t, p).files))

\* Each position of an address is of an include that the positions before it lead to.
Follows(t, a) ==
    /\ a \in Seq(Nat) /\ IsList(Node(t, a).files)
    /\ \A k \in 1..Len(a) : Leads(t, Upto(a, k - 1), a[k])

\* The empty address is one, and an address goes on with each include it leads to.
LEMMA FollowsOn ==
    ASSUME NEW t \in Trees
    PROVE  /\ Follows(t, <<>>)
           /\ \A a, i : Follows(t, a) /\ Leads(t, a, i) => i \in Nat /\ Follows(t, Append(a, i))
<1>1. Follows(t, <<>>)
  <2>1. Node(t, <<>>).files = t.root
    BY NodeUnfolds DEF Start
  <2>2. IsList(t.root)
    BY TreesAssumption
  <2> QED BY <2>1, <2>2 DEF Follows
<1>2. ASSUME NEW a, NEW i, Follows(t, a), Leads(t, a, i)
      PROVE  i \in Nat /\ Follows(t, Append(a, i))
  <2> DEFINE node == Node(t, a)
  <2> DEFINE incs == includeConfigs(t, node.files)
  <2> DEFINE b == Append(a, i)
  <2> DEFINE n == Len(a)
  <2>1. /\ a \in Seq(Nat) /\ IsList(node.files) /\ i \in 1..Len(incs)
        /\ ToSet(node.files) \subseteq DOMAIN t.files
    BY <1>2, ReadFilesExist DEF Follows, Leads
  <2>2. IsList(incs) /\ \A j \in DOMAIN incs : IsList(incs[j].paths)
    <3> HIDE DEF node
    <3> QED BY <2>1, IncludesAreList
  <2>3. Len(incs) \in Nat /\ i \in Nat /\ IsList(incs[i].paths)
    <3> HIDE DEF incs
    <3>1. Len(incs) \in Nat /\ DOMAIN incs = 1..Len(incs)
      BY <2>2, ListPositions
    <3> QED BY <2>1, <2>2, <3>1
  <2>4. Node(t, b) = resolveInclude(t, node.dir, incs[i])
    <3>1. Node(t, b) = Child(t, node, i)
      BY <2>1, <2>3, NodeUnfolds
    <3> QED BY <3>1 DEF Child
  <2>5. IsList(Node(t, b).files)
    <3> HIDE DEF incs, node, b
    <3> QED BY <2>3, <2>4, ChildIsList
  <2>6. /\ b \in Seq(Nat) /\ Len(b) = n + 1 /\ b[n + 1] = i /\ n \in Nat
        /\ \A j \in 1..n : b[j] = a[j]
        /\ Upto(b, n) = a
    BY <2>1, <2>3, Appended
  <2> HIDE DEF b, n
  <2>7. ASSUME NEW k \in 1..(n + 1) PROVE Leads(t, Upto(b, k - 1), b[k])
    <3>1. CASE k = n + 1
      <4>1. k - 1 = n
        BY <2>6, <3>1
      <4> QED BY <1>2, <2>6, <3>1, <4>1
    <3>2. CASE k # n + 1
      <4>1. k \in 1..n /\ k - 1 \in Nat /\ \A j \in 1..(k - 1) : b[j] = a[j]
        BY <2>6, <3>2
      <4>2. Upto(b, k - 1) = Upto(a, k - 1)
        BY <4>1, UptoAgree
      <4>3. Leads(t, Upto(a, k - 1), a[k])
        BY <1>2, <4>1 DEF Follows, n
      <4> QED BY <2>6, <4>1, <4>2, <4>3
    <3> QED BY <3>1, <3>2
  <2>8. Follows(t, b)
    BY <2>5, <2>6, <2>7 DEF Follows
  <2> QED BY <2>3, <2>8 DEF b
<1> QED BY <1>1, <1>2

\* How far the addresses are followed.
Files(t) == Cardinality(DOMAIN t.files)

\* f gives the addresses of each length and shorter.
Levels(t, f) ==
    f = [n \in 0..Files(t) |-> IF n = 0 THEN {<<>>} ELSE Below(t, f[n - 1])]

\* There are such levels, and the addresses are the last of them.
LEMMA AddressesAreLevels ==
    ASSUME NEW t \in Trees
    PROVE  Files(t) \in Nat /\ \E f : Levels(t, f) /\ Addresses(t) = f[Files(t)]
<1> DEFINE m == Files(t)
<1>1. m \in Nat
  <2>1. IsFiniteSet(DOMAIN t.files)
    BY TreesAssumption
  <2> QED BY <2>1, FS_CardinalityType DEF Files
<1> DEFINE Rises(k, f) == f = [n \in 0..k |-> IF n = 0 THEN {<<>>} ELSE Below(t, f[n - 1])]
<1> DEFINE T == {k \in Nat : \E f : Rises(k, f)}
<1>2. 0 \in T
  <2> DEFINE f0 == [n \in 0..0 |-> {<<>>}]
  <2>1. Rises(0, f0)
    OBVIOUS
  <2> HIDE DEF f0, Rises
  <2> QED BY <2>1
<1>3. ASSUME NEW k \in Nat, k >= 0, k \in T PROVE k + 1 \in T
  <2>1. PICK f : Rises(k, f)
    BY <1>3
  <2> DEFINE last == Below(t, f[k])
  <2> DEFINE g == [n \in 0..(k + 1) |-> IF n = k + 1 THEN last ELSE f[n]]
  <2>2. ASSUME NEW n \in 0..(k + 1) PROVE g[n] = IF n = 0 THEN {<<>>} ELSE Below(t, g[n - 1])
    <3>1. CASE n = k + 1
      <4>1. g[n] = last /\ g[n - 1] = f[k] /\ n # 0
        BY <3>1
      <4> QED BY <3>1, <4>1
    <3>2. CASE n # k + 1
      <4>1. n \in 0..k /\ g[n] = f[n] /\ (n # 0 => g[n - 1] = f[n - 1])
        BY <3>2
      <4>2. f[n] = IF n = 0 THEN {<<>>} ELSE Below(t, f[n - 1])
        BY <2>1, <4>1
      <4> HIDE DEF g
      <4> QED BY <4>1, <4>2
    <3> QED BY <3>1, <3>2
  <2>3. Rises(k + 1, g)
    <3>1. g = [n \in 0..(k + 1) |-> g[n]]
      OBVIOUS
    <3> HIDE DEF g
    <3> QED BY <2>2, <3>1
  <2> HIDE DEF g, Rises
  <2> QED BY <2>3
<1>4. \A k \in Nat : k >= 0 => k \in T
  <2> HIDE DEF T
  <2> QED BY <1>2, <1>3, UpwardInduction
<1>5. \E f : Levels(t, f)
  <2>1. m \in T
    <3> HIDE DEF T, m
    <3> QED BY <1>1, <1>4
  <2> QED BY <2>1 DEF Levels
<1> DEFINE level == CHOOSE f : Levels(t, f)
<1>6. Addresses(t) = level[m]
  BY DEF Addresses, Levels, Files
<1> HIDE DEF m
<1> QED BY <1>1, <1>5, <1>6 DEF m

\* What Below adds are the includes that addresses which have their place lead to.
LEMMA BelowAre ==
    ASSUME NEW t \in Trees, NEW as, \A a \in as : Follows(t, a)
    PROVE  \A x : x \in Below(t, as) <=> \/ x \in as
                                         \/ \E a \in as, i \in Nat : Leads(t, a, i) /\ x = Append(a, i)
<1> DEFINE incs(a) == includeConfigs(t, Node(t, a).files)
<1>1. ASSUME NEW a \in as, Readable(t, Node(t, a))
      PROVE  DOMAIN incs(a) = 1..Len(incs(a)) /\ Len(incs(a)) \in Nat
  <2>1. IsList(Node(t, a).files) /\ ToSet(Node(t, a).files) \subseteq DOMAIN t.files
    BY <1>1, ReadFilesExist DEF Follows
  <2>2. IsList(incs(a))
    <3> DEFINE files == Node(t, a).files
    <3>1. IsList(files) /\ ToSet(files) \subseteq DOMAIN t.files
      BY <2>1
    <3> HIDE DEF files
    <3>2. IsList(includeConfigs(t, files))
      BY <3>1, IncludesAreList
    <3> QED BY <3>2 DEF files
  <2> HIDE DEF incs
  <2> QED BY <2>2, ListPositions
<1>2. ASSUME NEW x
      PROVE  x \in Below(t, as) <=> \/ x \in as
                                    \/ \E a \in as : Readable(t, Node(t, a))
                                                     /\ \E i \in DOMAIN incs(a) : x = Append(a, i)
  <2> DEFINE read == {b \in as : Readable(t, Node(t, b))}
  <2> DEFINE grown(a) == {Append(a, i) : i \in DOMAIN incs(a)}
  <2>1. Below(t, as) = as \union UNION {grown(a) : a \in read}
    BY DEF Below
  <2>2. \A a : x \in grown(a) <=> \E i \in DOMAIN incs(a) : x = Append(a, i)
    OBVIOUS
  <2>3. \A a : a \in read <=> a \in as /\ Readable(t, Node(t, a))
    OBVIOUS
  <2> HIDE DEF read, grown, incs
  <2> QED BY <2>1, <2>2, <2>3
<1>3. ASSUME NEW a \in as, NEW x
      PROVE  (Readable(t, Node(t, a)) /\ \E i \in DOMAIN incs(a) : x = Append(a, i))
             <=> \E i \in Nat : Leads(t, a, i) /\ x = Append(a, i)
  <2>1. CASE Readable(t, Node(t, a))
    <3>1. DOMAIN incs(a) = 1..Len(incs(a)) /\ Len(incs(a)) \in Nat
      BY <1>1, <2>1
    <3>2. \A i : Leads(t, a, i) <=> i \in 1..Len(incs(a))
      BY <2>1 DEF Leads
    <3> HIDE DEF incs
    <3>3. \A i : i \in DOMAIN incs(a) <=> i \in Nat /\ Leads(t, a, i)
      BY <3>1, <3>2
    <3> QED BY <2>1, <3>3
  <2>2. CASE ~Readable(t, Node(t, a))
    BY <2>2 DEF Leads
  <2> QED BY <2>1, <2>2
<1>4. ASSUME NEW x
      PROVE  x \in Below(t, as) <=> \/ x \in as
                                    \/ \E a \in as, i \in Nat : Leads(t, a, i) /\ x = Append(a, i)
  <2> DEFINE in(a) == Readable(t, Node(t, a)) /\ \E i \in DOMAIN incs(a) : x = Append(a, i)
  <2> DEFINE out(a) == \E i \in Nat : Leads(t, a, i) /\ x = Append(a, i)
  <2>1. \A a \in as : in(a) <=> out(a)
    BY <1>3
  <2>2. x \in Below(t, as) <=> x \in as \/ \E a \in as : in(a)
    BY <1>2
  <2>3. x \in Below(t, as) <=> x \in as \/ \E a \in as : out(a)
    <3> HIDE DEF in, out
    <3> QED BY <2>1, <2>2
  <2> QED BY <2>3
<1> QED BY <1>4

\* A level has the addresses up to its number, with their beginnings in the levels of
\* their lengths, and the next level has what these lead to.
LEMMA LevelsHaveAddresses ==
    ASSUME NEW t \in Trees, NEW f, Levels(t, f)
    PROVE  \A n \in 0..Files(t) :
               /\ \A a \in f[n] : Follows(t, a) /\ Len(a) <= n /\ \A k \in 0..Len(a) : Upto(a, k) \in f[k]
               /\ n < Files(t) => /\ f[n] \subseteq f[n + 1]
                                  /\ \A a \in f[n], i \in Nat : Leads(t, a, i) => Append(a, i) \in f[n + 1]
<1> DEFINE m == Files(t)
<1> DEFINE Has(n) == \A a \in f[n] : /\ Follows(t, a) /\ Len(a) <= n
                                     /\ \A k \in 0..Len(a) : Upto(a, k) \in f[k]
<1> DEFINE T == {n \in Nat : n <= m => \A l \in 0..n : Has(l)}
<1>1. m \in Nat
  BY AddressesAreLevels
<1>2. \A n \in 0..m : f[n] = IF n = 0 THEN {<<>>} ELSE Below(t, f[n - 1])
  BY DEF Levels
<1>3. ASSUME NEW n \in Nat, n + 1 <= m, Has(n)
      PROVE  \A x : x \in f[n + 1] <=> \/ x \in f[n]
                                       \/ \E a \in f[n], i \in Nat : Leads(t, a, i) /\ x = Append(a, i)
  <2>1. n + 1 \in 0..m /\ n + 1 # 0 /\ (n + 1) - 1 = n
    BY <1>1, <1>3
  <2>2. f[n + 1] = Below(t, f[n])
    <3> HIDE DEF m
    <3> QED BY <1>2, <2>1
  <2>3. \A a \in f[n] : Follows(t, a)
    BY <1>3
  <2> QED BY <2>2, <2>3, BelowAre
<1>4. 0 \in T
  <2> SUFFICES ASSUME NEW a \in f[0]
               PROVE  Follows(t, a) /\ Len(a) <= 0 /\ \A k \in 0..Len(a) : Upto(a, k) \in f[k]
    <3>1. \A l \in 0..0 : l = 0
      OBVIOUS
    <3> QED BY <3>1
  <2>1. f[0] = {<<>>}
    BY <1>1, <1>2
  <2>2. a = <<>> /\ a \in Seq(Nat) /\ Len(a) = 0
    BY <2>1
  <2>3. Follows(t, a)
    BY <2>2, FollowsOn
  <2>4. Upto(a, 0) = a
    BY <2>2, UptoAll
  <2> QED BY <2>1, <2>2, <2>3, <2>4
<1>5. ASSUME NEW n \in Nat, n >= 0, n \in T PROVE n + 1 \in T
  <2> SUFFICES ASSUME n + 1 <= m PROVE \A l \in 0..(n + 1) : Has(l)
    OBVIOUS
  <2>1. \A l \in 0..n : Has(l)
    <3>1. n <= m
      BY <1>1
    <3> QED BY <1>5, <3>1
  <2>2. ASSUME NEW x \in f[n + 1]
        PROVE  Follows(t, x) /\ Len(x) <= n + 1 /\ \A k \in 0..Len(x) : Upto(x, k) \in f[k]
    <3>1. Has(n)
      BY <2>1
    <3>2. CASE x \in f[n]
      <4>1. Follows(t, x) /\ Len(x) <= n /\ \A k \in 0..Len(x) : Upto(x, k) \in f[k]
        BY <3>1, <3>2
      <4>2. Len(x) \in Nat
        BY <4>1 DEF Follows
      <4> QED BY <4>1, <4>2
    <3>3. CASE x \notin f[n]
      <4>1. PICK a \in f[n], i \in Nat : Leads(t, a, i) /\ x = Append(a, i)
        <5> HIDE DEF T, Has, m
        <5> QED BY <1>3, <3>1, <3>3
      <4>2. Follows(t, a) /\ Len(a) <= n /\ \A k \in 0..Len(a) : Upto(a, k) \in f[k]
        BY <3>1
      <4> DEFINE l == Len(a)
      <4>3. a \in Seq(Nat) /\ Follows(t, x) /\ x \in Seq(Nat)
        BY <4>1, <4>2, FollowsOn DEF Follows
      <4>4. Len(x) = l + 1 /\ l \in Nat /\ \A j \in 1..l : x[j] = a[j]
        BY <4>1, <4>3, Appended
      <4>5. ASSUME NEW k \in 0..l PROVE Upto(x, k) \in f[k]
        <5>1. k \in Nat /\ \A j \in 1..k : x[j] = a[j]
          BY <4>4
        <5>2. Upto(x, k) = Upto(a, k)
          BY <5>1, UptoAgree
        <5> QED BY <4>2, <5>2
      <4>6. Upto(x, l + 1) = x
        BY <4>3, <4>4, UptoAll
      <4>7. x \in f[l + 1]
        <5>1. a \in f[l]
          <6>1. Upto(a, l) = a
            BY <4>3, UptoAll
          <6>2. l \in 0..l
            BY <4>4
          <6> QED BY <4>2, <6>1, <6>2
        <5>2. Has(l) /\ l + 1 <= m
          <6>1. l \in 0..n /\ l + 1 <= m
            BY <1>1, <4>2, <4>4
          <6> QED BY <2>1, <6>1
        <5> HIDE DEF T, Has, m, l
        <5> QED BY <1>3, <4>1, <4>4, <5>1, <5>2
      <4>8. \A k \in 0..(l + 1) : Upto(x, k) \in f[k]
        <5>1. \A k \in 0..(l + 1) : k \in 0..l \/ k = l + 1
          BY <4>4
        <5> QED BY <4>5, <4>6, <4>7, <5>1
      <4>9. l + 1 <= n + 1
        BY <4>2, <4>4
      <4> QED BY <4>3, <4>4, <4>8, <4>9
    <3> QED BY <3>2, <3>3
  <2>3. \A l \in 0..(n + 1) : l \in 0..n \/ l = n + 1
    OBVIOUS
  <2> QED BY <2>1, <2>2, <2>3
<1>6. \A n \in 0..m : Has(n)
  <2>1. \A n \in Nat : n >= 0 => n \in T
    <3> HIDE DEF T
    <3> QED BY <1>4, <1>5, UpwardInduction
  <2>2. m \in T
    <3> HIDE DEF T, m
    <3> QED BY <1>1, <2>1
  <2> HIDE DEF Has, m
  <2> QED BY <1>1, <2>2
<1>7. ASSUME NEW n \in 0..m, n < m
      PROVE  /\ f[n] \subseteq f[n + 1]
             /\ \A a \in f[n], i \in Nat : Leads(t, a, i) => Append(a, i) \in f[n + 1]
  <2>1. n \in Nat /\ n + 1 <= m /\ Has(n)
    BY <1>1, <1>6, <1>7
  <2> HIDE DEF T, Has, m
  <2>2. \A x : x \in f[n + 1] <=> \/ x \in f[n]
                                   \/ \E a \in f[n], i \in Nat : Leads(t, a, i) /\ x = Append(a, i)
    BY <1>3, <2>1
  <2> QED BY <2>2
<1> QED BY <1>6, <1>7

\* The address of the project itself is one; the beginnings of an address are; and what an
\* address leads to is, as long as there are more files than it has positions.
LEMMA AddressFacts ==
    ASSUME NEW t \in Trees
    PROVE  /\ <<>> \in Addresses(t)
           /\ \A a \in Addresses(t) :
                 Follows(t, a) /\ a \in Seq(Nat) /\ \A k \in 0..Len(a) : Upto(a, k) \in Addresses(t)
           /\ \A a \in Addresses(t), i \in Nat :
                 Leads(t, a, i) /\ Len(a) < Files(t) => Append(a, i) \in Addresses(t)
<1> DEFINE m == Files(t)
<1>1. PICK f : Levels(t, f) /\ Addresses(t) = f[m]
  BY AddressesAreLevels
<1>2. m \in Nat
  BY AddressesAreLevels
<1>3. \A n \in 0..m :
         /\ \A a \in f[n] : Follows(t, a) /\ Len(a) <= n /\ \A k \in 0..Len(a) : Upto(a, k) \in f[k]
         /\ n < m => /\ f[n] \subseteq f[n + 1]
                     /\ \A a \in f[n], i \in Nat : Leads(t, a, i) => Append(a, i) \in f[n + 1]
  BY <1>1, LevelsHaveAddresses
<1> DEFINE T == {k \in Nat : k <= m => f[m - k] \subseteq f[m]}
<1> HIDE DEF m
<1>4. \A k \in 0..m : f[k] \subseteq f[m]
  <2>1. 0 \in T
    BY <1>2
  <2>2. ASSUME NEW k \in Nat, k >= 0, k \in T PROVE k + 1 \in T
    <3> SUFFICES ASSUME k + 1 <= m PROVE f[m - (k + 1)] \subseteq f[m]
      OBVIOUS
    <3> DEFINE n == m - (k + 1)
    <3>1. n \in 0..m /\ n < m /\ n + 1 = m - k /\ k <= m
      BY <1>2
    <3>2. f[m - k] \subseteq f[m]
      BY <2>2, <3>1
    <3> HIDE DEF n
    <3>3. f[n] \subseteq f[n + 1]
      BY <1>3, <3>1
    <3> QED BY <3>1, <3>2, <3>3 DEF n
  <2>3. \A k \in Nat : k >= 0 => k \in T
    <3> HIDE DEF T
    <3> QED BY <2>1, <2>2, UpwardInduction
  <2> SUFFICES ASSUME NEW k \in 0..m PROVE f[k] \subseteq f[m]
    OBVIOUS
  <2>4. m - k \in Nat /\ m - k >= 0 /\ m - k <= m /\ m - (m - k) = k
    BY <1>2
  <2>5. m - k \in T
    <3> HIDE DEF T
    <3> QED BY <2>3, <2>4
  <2> QED BY <2>4, <2>5
<1>5. <<>> \in f[m]
  <2>1. 0 \in 0..m
    BY <1>2
  <2>2. f[0] = {<<>>}
    BY <1>1, <2>1 DEF Levels, m
  <2> QED BY <1>4, <2>1, <2>2
<1>6. ASSUME NEW a \in f[m] PROVE Follows(t, a) /\ a \in Seq(Nat) /\ \A k \in 0..Len(a) : Upto(a, k) \in f[m]
  <2>1. m \in 0..m
    BY <1>2
  <2>2. Follows(t, a) /\ Len(a) <= m /\ \A k \in 0..Len(a) : Upto(a, k) \in f[k]
    BY <1>3, <2>1
  <2>3. a \in Seq(Nat) /\ Len(a) \in Nat
    BY <2>2 DEF Follows
  <2>4. ASSUME NEW k \in 0..Len(a) PROVE Upto(a, k) \in f[m]
    <3>1. k \in 0..m
      BY <1>2, <2>2, <2>3
    <3> QED BY <1>4, <2>2, <3>1
  <2> QED BY <2>2, <2>3, <2>4
<1>7. ASSUME NEW a \in f[m], NEW i \in Nat, Leads(t, a, i), Len(a) < m PROVE Append(a, i) \in f[m]
  <2> DEFINE l == Len(a)
  <2>1. a \in Seq(Nat) /\ l \in Nat
    BY <1>6
  <2>2. a \in f[l]
    <3>1. Upto(a, l) = a /\ l \in 0..l /\ m \in 0..m
      BY <1>2, <2>1, UptoAll
    <3> QED BY <1>3, <3>1
  <2>3. l \in 0..m /\ l < m /\ l + 1 \in 0..m
    BY <1>2, <1>7, <2>1
  <2> HIDE DEF l
  <2>4. Append(a, i) \in f[l + 1]
    BY <1>3, <1>7, <2>2, <2>3
  <2> QED BY <1>4, <2>3, <2>4
<1> QED BY <1>1, <1>5, <1>6, <1>7 DEF m
-----------------------------------------------------------------------------
\* The addresses whose visits come before p.
Past(t, p) == {b \in Addresses(t) : Before(b, p)}

\* p with its last position moved on.
Beyond(p) == [p EXCEPT ![Len(p)] = @ + 1]

\* Only that position changes.
LEMMA BeyondMoves ==
    ASSUME NEW p \in Seq(Nat), p # <<>>
    PROVE  /\ Beyond(p) \in Seq(Nat) /\ Len(Beyond(p)) = Len(p) /\ Len(p) \in Nat /\ Len(p) > 0
           /\ Beyond(p)[Len(p)] = p[Len(p)] + 1
           /\ \A j \in 1..(Len(p) - 1) : Beyond(p)[j] = p[j]
<1>1. Len(p) \in Nat /\ Len(p) > 0 /\ DOMAIN p = 1..Len(p) /\ \A j \in 1..Len(p) : p[j] \in Nat
  OBVIOUS
<1> DEFINE n == Len(p)
<1> DEFINE q == [j \in 1..n |-> IF j = n THEN p[j] + 1 ELSE p[j]]
<1>2. Beyond(p) = q
  BY <1>1 DEF Beyond
<1>3. q \in Seq(Nat) /\ Len(q) = n
  <2>1. q \in [1..n -> Nat] /\ n \in Nat
    BY <1>1
  <2> HIDE DEF q, n
  <2> QED BY <2>1
<1>4. q[n] = p[n] + 1 /\ \A j \in 1..(n - 1) : q[j] = p[j]
  <2>1. n \in Nat /\ n > 0
    BY <1>1
  <2> HIDE DEF n
  <2>2. n \in 1..n /\ \A j \in 1..(n - 1) : j \in 1..n /\ j # n
    BY <2>1
  <2> QED BY <2>2
<1> HIDE DEF q, n
<1> QED BY <1>1, <1>2, <1>3, <1>4 DEF n

\* The positions of an address start at 1, and are of includes that are there.
LEMMA PositionsCount ==
    ASSUME NEW t \in Trees, NEW b \in Addresses(t), NEW k \in 1..Len(b)
    PROVE  b[k] \in Nat /\ b[k] >= 1 /\ Leads(t, Upto(b, k - 1), b[k])
<1>1. Follows(t, b) /\ b \in Seq(Nat)
  BY AddressFacts
<1>2. Leads(t, Upto(b, k - 1), b[k])
  BY <1>1 DEF Follows
<1>3. b[k] \in Nat
  BY <1>1
<1>4. b[k] >= 1
  <2> DEFINE l == Len(includeConfigs(t, Node(t, Upto(b, k - 1)).files))
  <2>1. b[k] \in 1..l
    BY <1>2 DEF Leads
  <2> HIDE DEF l
  <2> QED BY <1>3, <2>1
<1> QED BY <1>2, <1>3, <1>4

\* Nothing comes before the project's own visit.
LEMMA NothingPast ==
    ASSUME NEW t \in Trees
    PROVE  Past(t, <<>>) = {}
<1> SUFFICES ASSUME NEW b \in Addresses(t), Before(b, <<>>) PROVE FALSE
  BY DEF Past
<1>1. b \in Seq(Nat)
  BY AddressFacts
<1> QED BY <1>1 DEF Before

\* Once the visit at a has begun it is past, with all that was before it.
LEMMA PastEntered ==
    ASSUME NEW t \in Trees, NEW a \in Addresses(t)
    PROVE  Past(t, Append(a, 1)) = Past(t, a) \union {a}
<1> DEFINE c == Append(a, 1)
<1> DEFINE n == Len(a)
<1>1. a \in Seq(Nat) /\ n \in Nat
  BY AddressFacts
<1>2. c \in Seq(Nat) /\ Len(c) = n + 1 /\ c[n + 1] = 1 /\ \A j \in 1..n : c[j] = a[j]
  BY <1>1, Appended
<1> HIDE DEF c
<1>3. ASSUME NEW b \in Addresses(t), Before(b, c) PROVE b = a \/ Before(b, a)
  <2>1. b \in Seq(Nat) /\ Len(b) \in Nat /\ DOMAIN b = 1..Len(b) /\ DOMAIN a = 1..n /\ DOMAIN c = 1..(n + 1)
    BY <1>1, <1>2, AddressFacts
  <2>2. CASE Len(b) < Len(c) /\ \A j \in DOMAIN b : b[j] = c[j]
    <3>1. Len(b) <= n /\ \A j \in 1..Len(b) : b[j] = a[j]
      <4> DEFINE l == Len(b)
      <4>1. l \in Nat /\ l < n + 1 /\ \A j \in 1..l : b[j] = c[j]
        BY <1>2, <2>1, <2>2
      <4> HIDE DEF l, n
      <4>2. l <= n /\ \A j \in 1..l : j \in 1..n
        BY <1>1, <4>1
      <4>3. l <= n /\ \A j \in 1..l : b[j] = a[j]
        BY <1>2, <4>1, <4>2
      <4> QED BY <4>3 DEF l
    <3>2. CASE Len(b) = n
      BY <1>1, <2>1, <3>1, <3>2, SeqEqual
    <3>3. CASE Len(b) < n
      BY <2>1, <3>1, <3>3 DEF Before
    <3>4. Len(b) = n \/ Len(b) < n
      <4> DEFINE l == Len(b)
      <4>1. l \in Nat /\ l <= n
        BY <2>1, <3>1
      <4> HIDE DEF l, n
      <4>2. l = n \/ l < n
        BY <1>1, <4>1
      <4> QED BY <4>2 DEF l
    <3> QED BY <3>2, <3>3, <3>4
  <2>3. CASE \E k \in DOMAIN b \intersect DOMAIN c : b[k] < c[k] /\ \A j \in 1..(k - 1) : b[j] = c[j]
    <3>1. PICK k \in DOMAIN b \intersect DOMAIN c : b[k] < c[k] /\ \A j \in 1..(k - 1) : b[j] = c[j]
      BY <2>3
    <3>2. k \in 1..Len(b) /\ k \in 1..(n + 1)
      BY <2>1, <3>1
    <3>3. k # n + 1
      <4>1. b[k] \in Nat /\ b[k] >= 1
        BY <3>2, PositionsCount
      <4> QED BY <1>2, <3>1, <4>1
    <3>4. k \in DOMAIN b \intersect DOMAIN a /\ b[k] < a[k] /\ \A j \in 1..(k - 1) : b[j] = a[j]
      <4>1. k \in 1..n /\ \A j \in 1..(k - 1) : j \in 1..n
        BY <1>1, <3>2, <3>3
      <4> QED BY <1>2, <2>1, <3>1, <3>2, <4>1
    <3> QED BY <3>4 DEF Before
  <2> QED BY <1>3, <2>2, <2>3 DEF Before
<1>4. ASSUME NEW b \in Addresses(t), b = a \/ Before(b, a) PROVE Before(b, c)
  <2>1. b \in Seq(Nat) /\ Len(b) \in Nat /\ DOMAIN b = 1..Len(b) /\ DOMAIN a = 1..n /\ DOMAIN c = 1..(n + 1)
    BY <1>1, <1>2, AddressFacts
  <2>2. CASE b = a
    BY <1>1, <1>2, <2>1, <2>2 DEF Before
  <2>3. CASE Len(b) < Len(a) /\ \A j \in DOMAIN b : b[j] = a[j]
    BY <1>1, <1>2, <2>1, <2>3 DEF Before
  <2>4. CASE \E k \in DOMAIN b \intersect DOMAIN a : b[k] < a[k] /\ \A j \in 1..(k - 1) : b[j] = a[j]
    <3>1. PICK k \in DOMAIN b \intersect DOMAIN a : b[k] < a[k] /\ \A j \in 1..(k - 1) : b[j] = a[j]
      BY <2>4
    <3>2. k \in DOMAIN b \intersect DOMAIN c /\ b[k] < c[k] /\ \A j \in 1..(k - 1) : b[j] = c[j]
      <4>1. k \in 1..n /\ k \in 1..(n + 1) /\ \A j \in 1..(k - 1) : j \in 1..n
        BY <1>1, <2>1, <3>1
      <4> QED BY <1>2, <2>1, <3>1, <4>1
    <3> QED BY <3>2 DEF Before
  <2> QED BY <1>4, <2>2, <2>3, <2>4 DEF Before
<1> QED BY <1>3, <1>4 DEF Past, c

\* An address that goes on from a goes on with one of the includes there.
LEMMA GoesOn ==
    ASSUME NEW t \in Trees, NEW a \in Addresses(t), NEW b \in Addresses(t),
           NEW n \in Nat, n = Len(a), n < Len(b), \A j \in 1..n : b[j] = a[j]
    PROVE  b[n + 1] \in 1..Len(includeConfigs(t, Node(t, a).files))
<1>1. a \in Seq(Nat) /\ b \in Seq(Nat) /\ Len(b) \in Nat
  BY AddressFacts
<1>2. n + 1 \in 1..Len(b) /\ (n + 1) - 1 = n
  BY <1>1
<1>3. Upto(b, n) = a
  <2>1. Upto(b, n) = Upto(a, n)
    BY UptoAgree
  <2> QED BY <1>1, <2>1, UptoAll
<1>4. Leads(t, a, b[n + 1])
  BY <1>2, <1>3, PositionsCount
<1> QED BY <1>4 DEF Leads

\* When the project's own includes have all been taken, every visit is past.
LEMMA PastAll ==
    ASSUME NEW t \in Trees, NEW l \in Nat, l >= Len(includeConfigs(t, Node(t, <<>>).files)),
           Len(includeConfigs(t, Node(t, <<>>).files)) \in Nat
    PROVE  Past(t, <<l + 1>>) = Addresses(t)
<1> DEFINE c == <<l + 1>>
<1> DEFINE a == <<>>
<1> DEFINE incs == Len(includeConfigs(t, Node(t, a).files))
<1>1. c \in Seq(Nat) /\ Len(c) = 1 /\ c[1] = l + 1 /\ DOMAIN c = 1..1 /\ a \in Seq(Nat) /\ Len(a) = 0
  OBVIOUS
<1>2. a \in Addresses(t) /\ incs \in Nat /\ l >= incs
  BY AddressFacts
<1> HIDE DEF c, a, incs
<1> SUFFICES ASSUME NEW b \in Addresses(t) PROVE Before(b, c)
  BY DEF Past, c
<1>3. b \in Seq(Nat) /\ Len(b) \in Nat /\ DOMAIN b = 1..Len(b)
  BY AddressFacts
<1>4. CASE Len(b) = 0
  BY <1>1, <1>3, <1>4 DEF Before
<1>5. CASE Len(b) # 0
  <2>1. 0 < Len(b) /\ 0 = Len(a) /\ \A j \in 1..0 : b[j] = a[j]
    BY <1>1, <1>3, <1>5
  <2>2. b[0 + 1] \in 1..incs
    BY <1>2, <2>1, GoesOn DEF incs
  <2>3. 1 \in DOMAIN b \intersect DOMAIN c /\ b[1] < c[1] /\ \A j \in 1..(1 - 1) : b[j] = c[j]
    BY <1>1, <1>2, <1>3, <2>1, <2>2
  <2> QED BY <2>3 DEF Before
<1> QED BY <1>4, <1>5

\* When all the includes at a have been taken, what is past is what comes before the next
\* include of the visit that includes a.
LEMMA PastReturned ==
    ASSUME NEW t \in Trees, NEW a \in Addresses(t), a # <<>>,
           NEW l \in Nat, l >= Len(includeConfigs(t, Node(t, a).files)),
           Len(includeConfigs(t, Node(t, a).files)) \in Nat
    PROVE  Past(t, Append(a, l + 1)) = Past(t, Beyond(a))
<1> DEFINE c == Append(a, l + 1)
<1> DEFINE d == Beyond(a)
<1> DEFINE n == Len(a)
<1> DEFINE incs == Len(includeConfigs(t, Node(t, a).files))
<1>1. a \in Seq(Nat) /\ n \in Nat /\ DOMAIN a = 1..n /\ n > 0 /\ a[n] \in Nat
  <2>1. a \in Seq(Nat)
    BY AddressFacts
  <2> QED BY <2>1
<1>2. /\ c \in Seq(Nat) /\ Len(c) = n + 1 /\ c[n + 1] = l + 1 /\ \A j \in 1..n : c[j] = a[j]
      /\ DOMAIN c = 1..(n + 1)
  <2>1. c \in Seq(Nat) /\ Len(c) = n + 1 /\ c[n + 1] = l + 1 /\ \A j \in 1..n : c[j] = a[j]
    BY <1>1, Appended
  <2> HIDE DEF c, n
  <2> QED BY <2>1
<1>3. /\ d \in Seq(Nat) /\ Len(d) = n /\ d[n] = a[n] + 1 /\ \A j \in 1..(n - 1) : d[j] = a[j]
      /\ DOMAIN d = 1..n
  <2>1. d \in Seq(Nat) /\ Len(d) = n /\ d[n] = a[n] + 1 /\ \A j \in 1..(n - 1) : d[j] = a[j]
    BY <1>1, BeyondMoves
  <2> HIDE DEF d, n
  <2> QED BY <2>1
<1>4. incs \in Nat /\ l >= incs
  OBVIOUS
<1>5. ASSUME NEW b \in Addresses(t), n < Len(b), \A j \in 1..n : b[j] = a[j]
      PROVE  b[n + 1] \in Nat /\ b[n + 1] < l + 1
  <2>1. b[n + 1] \in 1..incs
    BY <1>1, <1>5, GoesOn
  <2> HIDE DEF incs, n
  <2> QED BY <1>4, <2>1
<1> HIDE DEF c, d, n, incs
<1>6. ASSUME NEW b \in Addresses(t), Before(b, c) PROVE Before(b, d)
  <2> DEFINE m == Len(b)
  <2>1. b \in Seq(Nat) /\ m \in Nat /\ DOMAIN b = 1..m
    BY AddressFacts
  <2> HIDE DEF m
  <2>2. CASE Len(b) < Len(c) /\ \A j \in DOMAIN b : b[j] = c[j]
    <3>1. m <= n /\ \A j \in 1..m : b[j] = a[j]
      <4>1. m < n + 1 /\ \A j \in 1..m : b[j] = c[j]
        BY <1>2, <2>1, <2>2 DEF m
      <4>2. m <= n /\ \A j \in 1..m : j \in 1..n
        BY <1>1, <2>1, <4>1
      <4> QED BY <1>2, <4>1, <4>2
    <3>2. CASE m = n
      <4>1. n \in DOMAIN b \intersect DOMAIN d /\ b[n] = a[n] /\ b[n] < d[n]
        BY <1>1, <1>3, <2>1, <3>1, <3>2
      <4>2. \A j \in 1..(n - 1) : b[j] = d[j]
        <5>1. \A j \in 1..(n - 1) : j \in 1..m
          BY <1>1, <3>2
        <5> QED BY <1>3, <3>1, <5>1
      <4> QED BY <4>1, <4>2 DEF Before
    <3>3. CASE m # n
      <4>1. m < n /\ \A j \in 1..m : j \in 1..(n - 1)
        BY <1>1, <2>1, <3>1, <3>3
      <4>2. m < Len(d) /\ \A j \in 1..m : b[j] = d[j]
        BY <1>3, <3>1, <4>1
      <4> QED BY <2>1, <4>2 DEF Before, m
    <3> QED BY <3>2, <3>3
  <2>3. CASE \E k \in DOMAIN b \intersect DOMAIN c : b[k] < c[k] /\ \A j \in 1..(k - 1) : b[j] = c[j]
    <3>1. PICK k \in DOMAIN b \intersect DOMAIN c : b[k] < c[k] /\ \A j \in 1..(k - 1) : b[j] = c[j]
      BY <2>3
    <3>2. k \in 1..m /\ k \in 1..(n + 1) /\ b[k] \in Nat
      BY <1>2, <2>1, <3>1
    <3>3. \A j \in 1..(k - 1) : b[j] = a[j]
      <4>1. \A j \in 1..(k - 1) : j \in 1..n
        BY <1>1, <3>2
      <4> QED BY <1>2, <3>1, <4>1
    <3>4. CASE k < n
      <4>1. k \in 1..n /\ b[k] < a[k] /\ k \in 1..(n - 1) /\ \A j \in 1..(k - 1) : j \in 1..(n - 1)
        BY <1>1, <1>2, <3>1, <3>2, <3>4
      <4>2. k \in DOMAIN b \intersect DOMAIN d /\ b[k] < d[k] /\ \A j \in 1..(k - 1) : b[j] = d[j]
        BY <1>3, <2>1, <3>2, <3>3, <4>1
      <4> QED BY <4>2 DEF Before
    <3>5. CASE k = n
      <4>1. b[n] < a[n] /\ n \in 1..n
        BY <1>1, <1>2, <3>1, <3>5
      <4>2. b[n] < d[n]
        BY <1>1, <1>3, <3>2, <3>5, <4>1
      <4>3. n \in DOMAIN b \intersect DOMAIN d /\ \A j \in 1..(n - 1) : b[j] = d[j]
        BY <1>3, <2>1, <3>2, <3>3, <3>5, <4>1
      <4> QED BY <4>2, <4>3 DEF Before
    <3>6. CASE k = n + 1
      <4>1. k - 1 = n /\ n \in 1..n /\ n \in 1..m
        BY <1>1, <2>1, <3>2, <3>6
      <4>2. b[n] = a[n] /\ \A j \in 1..(n - 1) : b[j] = a[j]
        <5>1. \A j \in 1..(n - 1) : j \in 1..n
          BY <1>1
        <5> QED BY <3>3, <4>1, <5>1
      <4>3. b[n] < d[n] /\ \A j \in 1..(n - 1) : b[j] = d[j]
        BY <1>1, <1>3, <4>2
      <4> QED BY <1>3, <2>1, <4>1, <4>3 DEF Before
    <3>7. k < n \/ k = n \/ k = n + 1
      BY <1>1, <3>2
    <3> QED BY <3>4, <3>5, <3>6, <3>7
  <2> QED BY <1>6, <2>2, <2>3 DEF Before
<1>7. ASSUME NEW b \in Addresses(t), Before(b, d) PROVE Before(b, c)
  <2> DEFINE m == Len(b)
  <2>1. b \in Seq(Nat) /\ m \in Nat /\ DOMAIN b = 1..m
    BY AddressFacts
  <2> HIDE DEF m
  <2>2. CASE Len(b) < Len(d) /\ \A j \in DOMAIN b : b[j] = d[j]
    <3>1. m < n /\ \A j \in 1..m : b[j] = d[j]
      BY <1>3, <2>1, <2>2 DEF m
    <3>2. m < n + 1 /\ \A j \in 1..m : j \in 1..(n - 1) /\ j \in 1..n
      BY <1>1, <2>1, <3>1
    <3>3. m < n + 1 /\ \A j \in 1..m : b[j] = c[j]
      BY <1>2, <1>3, <3>1, <3>2
    <3> QED BY <1>2, <2>1, <3>3 DEF Before, m
  <2>3. CASE \E k \in DOMAIN b \intersect DOMAIN d : b[k] < d[k] /\ \A j \in 1..(k - 1) : b[j] = d[j]
    <3>1. PICK k \in DOMAIN b \intersect DOMAIN d : b[k] < d[k] /\ \A j \in 1..(k - 1) : b[j] = d[j]
      BY <2>3
    <3>2. k \in 1..m /\ k \in 1..n /\ b[k] \in Nat /\ a[k] \in Nat
      <4>1. k \in 1..m /\ k \in 1..n /\ k \in DOMAIN a /\ k \in DOMAIN b
        BY <1>1, <1>3, <2>1, <3>1
      <4>2. \A s \in Seq(Nat) : k \in DOMAIN s => s[k] \in Nat
        OBVIOUS
      <4> QED BY <1>1, <2>1, <4>1, <4>2
    <3>3. \A j \in 1..(k - 1) : b[j] = a[j] /\ b[j] = c[j]
      <4>1. \A j \in 1..(k - 1) : j \in 1..(n - 1) /\ j \in 1..n
        BY <1>1, <3>2
      <4> QED BY <1>2, <1>3, <3>1, <4>1
    <3>4. k \in DOMAIN b \intersect DOMAIN c /\ c[k] = a[k]
      <4>1. k \in 1..(n + 1)
        BY <1>1, <3>2
      <4> QED BY <1>2, <2>1, <3>2, <4>1
    <3>5. CASE b[k] < a[k]
      BY <3>3, <3>4, <3>5 DEF Before
    <3>6. CASE ~(b[k] < a[k])
      <4>1. k = n /\ b[n] = a[n]
        <5>1. CASE k # n
          <6>1. k \in 1..(n - 1)
            BY <1>1, <3>2, <5>1
          <6>2. d[k] = a[k]
            BY <1>3, <6>1
          <6> QED BY <3>1, <3>6, <6>2
        <5>2. CASE k = n
          BY <1>1, <1>3, <3>1, <3>2, <3>6, <5>2
        <5> QED BY <5>1, <5>2
      <4>2. \A j \in 1..n : b[j] = a[j]
        <5>1. \A j \in 1..n : j \in 1..(n - 1) \/ j = n
          BY <1>1
        <5> QED BY <3>3, <4>1, <5>1
      <4>3. CASE m = n
        <5>1. m < n + 1 /\ \A j \in 1..m : b[j] = c[j]
          BY <1>1, <1>2, <4>2, <4>3
        <5> QED BY <1>2, <2>1, <5>1 DEF Before, m
      <4>4. CASE m # n
        <5>1. n < m /\ n + 1 \in 1..m /\ n + 1 \in 1..(n + 1) /\ (n + 1) - 1 = n
          BY <1>1, <2>1, <3>2, <4>1, <4>4
        <5>2. b[n + 1] \in Nat /\ b[n + 1] < l + 1
          BY <1>5, <4>2, <5>1 DEF m
        <5>3. n + 1 \in DOMAIN b \intersect DOMAIN c /\ b[n + 1] < c[n + 1]
                /\ \A j \in 1..((n + 1) - 1) : b[j] = c[j]
          BY <1>2, <2>1, <4>2, <5>1, <5>2
        <5> QED BY <5>3 DEF Before
      <4> QED BY <4>3, <4>4
    <3> QED BY <3>5, <3>6
  <2> QED BY <1>7, <2>2, <2>3 DEF Before
<1> QED BY <1>6, <1>7 DEF Past, c, d
-----------------------------------------------------------------------------
\* A visit that has no problem is read, and of a file nothing before it is of.
LEMMA NoProblem ==
    ASSUME NEW t, NEW wr, NEW b
    PROVE  Problem(t, wr, b) = "none" <=>
              /\ Readable(t, Node(t, b)) /\ (wr => LoadsRaw(t, Node(t, b).files))
              /\ \A c \in Addresses(t) : Before(c, b) /\ Node(t, c).files # <<>>
                                            => Node(t, c).files[1] # Node(t, b).files[1]
<1> DEFINE again == \E c \in Addresses(t) : Before(c, b) /\ Node(t, c).files # <<>>
                                              /\ Node(t, c).files[1] = Node(t, b).files[1]
<1> DEFINE files == Node(t, b).files
<1> DEFINE fault == Fault(t, wr, Node(t, b))
<1>1. Problem(t, wr, b) = IF files = <<>> THEN "include_decode"
                          ELSE IF again THEN "include_cycle"
                          ELSE fault
  BY DEF Problem
<1>2. again <=> ~(\A c \in Addresses(t) : Before(c, b) /\ Node(t, c).files # <<>>
                                             => Node(t, c).files[1] # files[1])
  OBVIOUS
<1>3. files # <<>> /\ fault = "none" <=> Readable(t, Node(t, b)) /\ (wr => LoadsRaw(t, files))
  BY DEF Fault, Readable
<1> HIDE DEF again, files, fault
<1>4. Problem(t, wr, b) = "none" <=> files # <<>> /\ ~again /\ fault = "none"
  BY <1>1
<1> QED BY <1>2, <1>3, <1>4 DEF files

\* The beginnings of an address come before whatever goes on from them.
LEMMA BeginningsAreBefore ==
    ASSUME NEW p \in Seq(Nat), NEW i \in 0..Len(p), NEW c \in Seq(Nat), i < Len(c),
           \A j \in 1..i : c[j] = p[j]
    PROVE  Before(Upto(p, i), c)
<1> DEFINE q == Upto(p, i)
<1>1. i \in Nat /\ q \in Seq(Nat) /\ Len(q) = i /\ DOMAIN q = 1..i /\ \A j \in 1..i : q[j] = p[j]
  <2>1. q \in Seq(Nat) /\ Len(q) = i /\ \A j \in 1..i : q[j] = p[j]
    BY UptoIsSequence
  <2> HIDE DEF q
  <2> QED BY <2>1
<1> HIDE DEF q
<1>2. Len(q) < Len(c) /\ \A j \in DOMAIN q : q[j] = c[j]
  BY <1>1
<1>3. Before(q, c)
  BY <1>2 DEF Before
<1> QED BY <1>3 DEF q

\* The visits along a path without a problem are of different files, so the path has
\* fewer includes than there are files.
LEMMA PathIsShort ==
    ASSUME NEW t \in Trees, NEW wr, NEW a \in Addresses(t),
           \A k \in 0..Len(a) : Problem(t, wr, Upto(a, k)) = "none"
    PROVE  Len(a) < Files(t)
<1> DEFINE n == Len(a)
<1> DEFINE file == [k \in 0..n |-> Node(t, Upto(a, k)).files[1]]
<1>1. a \in Seq(Nat) /\ n \in Nat /\ \A k \in 0..n : Upto(a, k) \in Addresses(t)
  BY AddressFacts
<1>2. ASSUME NEW k \in 0..n PROVE file[k] \in DOMAIN t.files
  <2> DEFINE s == Node(t, Upto(a, k)).files
  <2>1. Readable(t, Node(t, Upto(a, k)))
    BY NoProblem
  <2>2. s # <<>> /\ ToSet(s) \subseteq DOMAIN t.files
    BY <2>1, ReadFilesExist
  <2>3. IsList(s)
    BY <1>1, AddressFacts DEF Follows
  <2>4. s[1] \in ToSet(s)
    <3> DEFINE S == ToSet(s)
    <3>1. s \in Seq(S)
      BY <2>3 DEF IsList
    <3> HIDE DEF S, s
    <3>2. 1 \in 1..Len(s)
      BY <2>2, <3>1
    <3> QED BY <2>3, <3>2, ListPositions
  <2>5. s[1] \in DOMAIN t.files
    <3> HIDE DEF s
    <3> QED BY <2>2, <2>4
  <2> QED BY <2>5
<1>3. ASSUME NEW i \in 0..n, NEW j \in 0..n, i < j PROVE file[i] # file[j]
  <2>1. Before(Upto(a, i), Upto(a, j))
    <3> DEFINE c == Upto(a, j)
    <3>1. c \in Seq(Nat) /\ Len(c) = j /\ \A l \in 1..j : c[l] = a[l]
      BY <1>1, UptoIsSequence
    <3>2. \A l \in 1..i : l \in 1..j
      BY <1>3
    <3> HIDE DEF c, n
    <3>3. i \in 0..Len(a) /\ i < Len(c) /\ \A l \in 1..i : c[l] = a[l]
      BY <1>3, <3>1, <3>2 DEF n
    <3>4. Before(Upto(a, i), c)
      BY <1>1, <3>1, <3>3, BeginningsAreBefore
    <3> QED BY <3>4 DEF c
  <2>2. Upto(a, i) \in Addresses(t) /\ Problem(t, wr, Upto(a, i)) = "none" /\ Problem(t, wr, Upto(a, j)) = "none"
    BY <1>1
  <2>3. Node(t, Upto(a, i)).files # <<>>
    BY <2>2, NoProblem DEF Readable
  <2>4. Node(t, Upto(a, i)).files[1] # Node(t, Upto(a, j)).files[1]
    BY <2>1, <2>2, <2>3, NoProblem
  <2> QED BY <2>4
<1> HIDE DEF file, n
<1>4. file \in Injection(0..n, DOMAIN t.files)
  <2>1. file \in [0..n -> DOMAIN t.files]
    <3>1. file = [k \in 0..n |-> file[k]]
      BY DEF file
    <3> QED BY <1>2, <3>1
  <2>2. ASSUME NEW i \in 0..n, NEW j \in 0..n, file[i] = file[j] PROVE i = j
    <3>1. ~(i < j) /\ ~(j < i)
      BY <1>3, <2>2
    <3> QED BY <1>1, <3>1
  <2> QED BY <2>1, <2>2 DEF Injection, IsInjective
<1>5. Cardinality(0..n) <= Files(t)
  <2>1. IsFiniteSet(DOMAIN t.files)
    BY TreesAssumption
  <2> QED BY <1>4, <2>1, FS_Injection DEF Files
<1>6. Cardinality(0..n) = n + 1
  <2>1. 0 \in Int /\ n \in Int /\ ~(0 > n)
    BY <1>1
  <2>2. Cardinality(0..n) = n - 0 + 1
    BY <2>1, FS_Interval
  <2> QED BY <1>1, <2>2
<1>7. Files(t) \in Nat
  BY AddressesAreLevels
<1>8. n < Files(t)
  BY <1>1, <1>5, <1>6, <1>7
<1> QED BY <1>8 DEF n
-----------------------------------------------------------------------------
\* The address a stack of visits spells: what each has taken of its includes.
Position(st) == [k \in DOMAIN st |-> st[k].taken]

\* f is the visit at the address a, under way.
VisitAt(t, f, a) ==
    /\ a \in Addresses(t) /\ Readable(t, Node(t, a))
    /\ f = [dir |-> Node(t, a).dir, taken |-> f.taken,
            includes |-> includeConfigs(t, Node(t, a).files)]
    /\ f.taken \in 0..Len(f.includes)

\* Each visit of the stack is the one that the visits below it lead to.
Visiting(t, st) ==
    IsList(st) /\ \A k \in DOMAIN st : VisitAt(t, st[k], Upto(Position(st), k - 1))

\* What the visit at b declares, of the services or, bodied, of those with a body; and what
\* is kept of it as their owner.
Declared(t, b, bodied) ==
    IF bodied THEN DeclaresRaw(t, Node(t, b).files) ELSE Declares(t, Node(t, b).files)

OwnerAt(t, b, bodied) == IF bodied THEN Node(t, b).files ELSE Node(t, b).dir

\* o is the first of as to declare s.
FirstOf(t, s, as, o, bodied) ==
    /\ o \in as /\ s \in Declared(t, o, bodied)
    /\ \A b \in as \ {o} : s \in Declared(t, b, bodied) => Before(o, b)

\* claims has what the visits of as declare, each with the first of them as its owner.
Owned(t, as, claims, bodied) ==
    /\ DOMAIN claims = UNION {Declared(t, b, bodied) : b \in as}
    /\ \A s \in DOMAIN claims :
          \E o \in as : FirstOf(t, s, as, o, bodied) /\ claims[s] = OwnerAt(t, o, bodied)

\* The visits of as are done, without a problem: their first files are visited, and each
\* service they declare is owned by the first of them that does.
Walked(t, wr, as, vs, ds, rs) ==
    /\ \A b \in as : Problem(t, wr, b) = "none"
    /\ vs = {Node(t, b).files[1] : b \in as}
    /\ Owned(t, as, ds, FALSE)
    /\ IF wr THEN Owned(t, as, rs, TRUE) ELSE DOMAIN rs = {}

\* The visit at a is the first with a problem, and kind is the problem.
FailedAt(t, wr, kind, a) ==
    /\ a \in Addresses(t) /\ Problem(t, wr, a) = kind /\ kind # "none"
    /\ \A b \in Past(t, a) : Problem(t, wr, b) = "none"

\* A visit is about to start at the address of the stack; what comes before is walked.
AtVisit(t, wr, st, c, vs, ds, rs) ==
    /\ Visiting(t, st) /\ Position(st) \in Addresses(t) /\ c = Node(t, Position(st))
    /\ Walked(t, wr, Past(t, Position(st)), vs, ds, rs)

\* The visit on top looks for its next include; what comes before that is walked.
AtNext(t, wr, st, vs, ds, rs) ==
    /\ Visiting(t, st) /\ st # <<>>
    /\ Walked(t, wr, Past(t, Beyond(Position(st))), vs, ds, rs)

\* The walk failed: with the first problem, or with none but a service undeclared.
AtErr(t, wr, kind, ds) ==
    \/ \E a \in Addresses(t) : FailedAt(t, wr, kind, a)
    \/ /\ \A a \in Addresses(t) : Problem(t, wr, a) = "none"
       /\ kind = "service_dir_missing" /\ ~(t.services \subseteq DOMAIN ds)

\* The inductive invariant: the stack spells an address, and what comes before it - or
\* before what it will spell next - has been walked.
WalkInv ==
    /\ IncludeTypeOK
    /\ pc = "visit" => AtVisit(tree, withRaw, stack, call, visited, dirs, raw)
    /\ pc = "next" => AtNext(tree, withRaw, stack, visited, dirs, raw)
    /\ pc \in {"check", "ok"} =>
          stack = <<>> /\ Walked(tree, withRaw, Addresses(tree), visited, dirs, raw)
    /\ pc = "ok" => tree.services \subseteq DOMAIN dirs
    /\ pc = "err" => AtErr(tree, withRaw, error, dirs)

\* A list is the one with its elements.
LEMMA ListIsItself ==
    ASSUME NEW s, IsList(s)
    PROVE  s = [i \in 1..Len(s) |-> s[i]]
<1> DEFINE S == ToSet(s)
<1>1. s \in Seq(S)
  BY DEF IsList
<1> HIDE DEF S
<1> QED BY <1>1

\* The address of a stack has a position for each visit.
LEMMA StackPosition ==
    ASSUME NEW t, NEW st, Visiting(t, st)
    PROVE  /\ Position(st) \in Seq(Nat) /\ Len(Position(st)) = Len(st)
           /\ Len(st) \in Nat /\ DOMAIN st = 1..Len(st)
           /\ \A k \in 1..Len(st) : Position(st)[k] = st[k].taken /\ st[k].taken \in Nat
<1> DEFINE n == Len(st)
<1>1. n \in Nat /\ DOMAIN st = 1..n
  BY ListPositions DEF Visiting
<1>2. ASSUME NEW k \in 1..n PROVE st[k].taken \in Nat
  <2>1. st[k].taken \in 0..Len(st[k].includes)
    BY <1>1 DEF Visiting, VisitAt
  <2> QED BY <2>1
<1> HIDE DEF n
<1>3. Position(st) \in [1..n -> Nat] /\ \A k \in 1..n : Position(st)[k] = st[k].taken
  BY <1>1, <1>2 DEF Position
<1>4. Position(st) \in Seq(Nat) /\ Len(Position(st)) = n
  BY <1>1, <1>3
<1> QED BY <1>1, <1>2, <1>3, <1>4 DEF n

\* Visits below a change of the stack are where they were.
LEMMA VisitsKept ==
    ASSUME NEW t, NEW st, NEW su, Visiting(t, st), IsList(su),
           NEW l \in Nat, l <= Len(st), l <= Len(su), \A j \in 1..l : su[j] = st[j]
    PROVE  /\ \A k \in 1..l : VisitAt(t, su[k], Upto(Position(su), k - 1))
           /\ \A k \in 0..l : Upto(Position(su), k) = Upto(Position(st), k)
<1>1. /\ Len(st) \in Nat /\ DOMAIN st = 1..Len(st)
      /\ Len(su) \in Nat /\ DOMAIN su = 1..Len(su)
  BY ListPositions DEF Visiting
<1>2. \A j \in 1..l : j \in DOMAIN st /\ j \in DOMAIN su
  BY <1>1
<1>3. \A j \in 1..l : Position(su)[j] = Position(st)[j]
  BY <1>2 DEF Position
<1>4. ASSUME NEW k \in 0..l PROVE Upto(Position(su), k) = Upto(Position(st), k)
  <2>1. k \in Nat /\ \A j \in 1..k : j \in 1..l
    OBVIOUS
  <2>2. \A j \in 1..k : Position(su)[j] = Position(st)[j]
    BY <1>3, <2>1
  <2> QED BY <2>1, <2>2, UptoAgree
<1>5. ASSUME NEW k \in 1..l PROVE VisitAt(t, su[k], Upto(Position(su), k - 1))
  <2>1. k - 1 \in 0..l
    OBVIOUS
  <2>2. VisitAt(t, st[k], Upto(Position(st), k - 1))
    BY <1>2 DEF Visiting
  <2>3. Upto(Position(su), k - 1) = Upto(Position(st), k - 1)
    BY <1>4, <2>1
  <2> QED BY <2>2, <2>3
<1> QED BY <1>4, <1>5

\* What Enter puts on the stack is the visit it enters, with nothing past but that and
\* what was past before.
LEMMA EnterStack ==
    ASSUME NEW t \in Trees, NEW st, Visiting(t, st), NEW a, a = Position(st), a \in Addresses(t),
           Readable(t, Node(t, a)), NEW fr,
           fr = [dir |-> Node(t, a).dir, taken |-> 0, includes |-> includeConfigs(t, Node(t, a).files)]
    PROVE  /\ Visiting(t, Append(st, fr)) /\ Append(st, fr) # <<>>
           /\ Past(t, Beyond(Position(Append(st, fr)))) = Past(t, a) \union {a}
<1> DEFINE n == Len(st)
<1> DEFINE su == Append(st, fr)
<1>1. a \in Seq(Nat) /\ Len(a) = n /\ n \in Nat /\ DOMAIN st = 1..n
  BY StackPosition
<1>2. IsList(su) /\ Len(su) = n + 1 /\ su # <<>> /\ su[n + 1] = fr /\ \A j \in 1..n : su[j] = st[j]
  <2> DEFINE S == ToSet(st) \union {fr}
  <2>1. st \in Seq(S)
    <3>1. st = [i \in 1..n |-> st[i]] /\ \A i \in 1..n : st[i] \in ToSet(st)
      BY ListIsItself, ListPositions DEF Visiting
    <3> HIDE DEF n
    <3>2. st \in [1..n -> S]
      BY <3>1
    <3> QED BY <1>1, <3>2
  <2>2. fr \in S
    OBVIOUS
  <2> HIDE DEF S
  <2>3. su \in Seq(S) /\ Len(su) = n + 1 /\ su # <<>> /\ su[n + 1] = fr /\ \A j \in 1..n : su[j] = st[j]
    BY <2>1, <2>2
  <2> HIDE DEF su, n
  <2>4. su = [i \in 1..(n + 1) |-> su[i]]
    BY <2>3
  <2>5. n + 1 \in Nat
    BY <1>1
  <2>6. IsList(su)
    BY <2>4, <2>5, ListIsMapped
  <2> QED BY <2>3, <2>6
<1> HIDE DEF su, n
<1>3. /\ \A k \in 1..n : VisitAt(t, su[k], Upto(Position(su), k - 1))
      /\ \A k \in 0..n : Upto(Position(su), k) = Upto(a, k)
  <2>1. n <= Len(st) /\ n <= Len(su)
    BY <1>1, <1>2 DEF n
  <2>2. n \in Nat /\ IsList(su) /\ \A j \in 1..n : su[j] = st[j]
    BY <1>1, <1>2
  <2>3. /\ \A k \in 1..n : VisitAt(t, su[k], Upto(Position(su), k - 1))
        /\ \A k \in 0..n : Upto(Position(su), k) = Upto(Position(st), k)
    BY <2>1, <2>2, VisitsKept
  <2> QED BY <2>3
<1>4. Upto(Position(su), n) = a
  <2>1. n \in 0..n
    BY <1>1
  <2>2. Upto(a, n) = a
    BY <1>1, UptoAll
  <2> QED BY <1>3, <2>1, <2>2
<1>5. VisitAt(t, su[n + 1], Upto(Position(su), n))
  <2> DEFINE incs == includeConfigs(t, Node(t, a).files)
  <2>1. Len(incs) \in Nat
    <3>1. IsList(Node(t, a).files) /\ ToSet(Node(t, a).files) \subseteq DOMAIN t.files
      BY AddressFacts, ReadFilesExist DEF Follows
    <3> DEFINE files == Node(t, a).files
    <3> HIDE DEF files
    <3>2. IsList(includeConfigs(t, files))
      BY <3>1, IncludesAreList DEF files
    <3> QED BY <3>2, ListPositions DEF files
  <2> HIDE DEF incs
  <2>2. fr = [dir |-> Node(t, a).dir, taken |-> 0, includes |-> incs]
    BY DEF incs
  <2>3. fr.taken \in 0..Len(fr.includes)
    BY <2>1, <2>2
  <2>4. fr = [dir |-> Node(t, a).dir, taken |-> fr.taken, includes |-> incs]
    BY <2>2
  <2>5. VisitAt(t, fr, a)
    BY <2>3, <2>4 DEF VisitAt, incs
  <2> QED BY <1>2, <1>4, <2>5
<1>6. Visiting(t, su)
  <2>1. DOMAIN su = 1..(n + 1)
    BY <1>2, ListPositions
  <2>2. ASSUME NEW k \in 1..(n + 1) PROVE VisitAt(t, su[k], Upto(Position(su), k - 1))
    <3>1. CASE k = n + 1
      <4>1. k - 1 = n
        BY <1>1, <3>1
      <4> QED BY <1>5, <3>1, <4>1
    <3>2. CASE k # n + 1
      <4>1. k \in 1..n
        BY <1>1, <3>2
      <4> QED BY <1>3, <4>1
    <3> QED BY <3>1, <3>2
  <2> QED BY <1>2, <2>1, <2>2 DEF Visiting
<1>7. Beyond(Position(su)) = Append(a, 1)
  <2> DEFINE p == Position(su)
  <2> DEFINE b == Beyond(p)
  <2> DEFINE c == Append(a, 1)
  <2>1. p \in Seq(Nat) /\ Len(p) = n + 1 /\ p[n + 1] = su[n + 1].taken
    <3>1. n + 1 \in 1..Len(su)
      BY <1>1, <1>2
    <3> QED BY <1>2, <1>6, <3>1, StackPosition
  <2>2. p[n + 1] = 0
    BY <1>2, <2>1
  <2>3. \A j \in 1..n : p[j] = a[j]
    <3>1. ASSUME NEW j \in 1..n PROVE p[j] = a[j]
      <4>1. Upto(p, n)[j] = p[j]
        BY DEF Upto
      <4> QED BY <1>4, <4>1
    <3> QED BY <3>1
  <2> HIDE DEF p
  <2>4. b \in Seq(Nat) /\ Len(b) = n + 1 /\ b[n + 1] = 1 /\ \A j \in 1..n : b[j] = p[j]
    <3>1. p # <<>>
      BY <1>1, <2>1
    <3>2. (n + 1) - 1 = n
      BY <1>1
    <3> HIDE DEF b
    <3>3. /\ b \in Seq(Nat) /\ Len(b) = Len(p) /\ b[Len(p)] = p[Len(p)] + 1
          /\ \A j \in 1..(Len(p) - 1) : b[j] = p[j]
      BY <2>1, <3>1, BeyondMoves DEF b
    <3> QED BY <2>1, <2>2, <3>2, <3>3
  <2>5. c \in Seq(Nat) /\ Len(c) = n + 1 /\ c[n + 1] = 1 /\ \A j \in 1..n : c[j] = a[j]
    BY <1>1, Appended
  <2> HIDE DEF b, c
  <2>6. \A j \in 1..(n + 1) : b[j] = c[j]
    <3>1. \A j \in 1..(n + 1) : j \in 1..n \/ j = n + 1
      BY <1>1
    <3> QED BY <2>3, <2>4, <2>5, <3>1
  <2>7. b = c
    BY <2>4, <2>5, <2>6, SeqEqual
  <2> QED BY <2>7 DEF b, c, p
<1>8. Past(t, Append(a, 1)) = Past(t, a) \union {a}
  BY PastEntered
<1> QED BY <1>2, <1>6, <1>7, <1>8 DEF su

\* p is the address of a stack of n visits, q that of its top one, which has taken l.
Tops(t, st, n, p, q, l) ==
    /\ n \in Nat /\ n > 0 /\ p \in Seq(Nat) /\ Len(p) = n /\ q \in Seq(Nat) /\ Len(q) = n - 1
    /\ l \in Nat /\ p = Append(q, l) /\ Beyond(p) = Append(q, l + 1)
    /\ VisitAt(t, st[n], q) /\ Len(includeConfigs(t, Node(t, q).files)) \in Nat

\* The visit on top of the stack is the one its address without the last position leads
\* to; that position is what it has taken.
LEMMA TopOfStack ==
    ASSUME NEW t \in Trees, NEW st, Visiting(t, st), st # <<>>,
           NEW n, n = Len(st), NEW p, p = Position(st), NEW q, q = Upto(p, n - 1),
           NEW l, l = st[n].taken
    PROVE  Tops(t, st, n, p, q, l)
<1>1. p \in Seq(Nat) /\ Len(p) = n /\ n \in Nat /\ DOMAIN st = 1..n
      /\ \A k \in 1..n : p[k] = st[k].taken /\ st[k].taken \in Nat
  BY StackPosition
<1>2. n > 0
  <2>1. IsList(st)
    BY DEF Visiting
  <2>2. st = [i \in 1..n |-> st[i]]
    BY <2>1, ListIsItself
  <2> SUFFICES ASSUME n = 0 PROVE FALSE
    BY <1>1
  <2>3. st = [i \in 1..0 |-> st[i]]
    BY <2>2
  <2> QED BY <2>3
<1>3. n \in 1..n /\ n - 1 \in 0..n /\ p # <<>> /\ n + 1 > n
  BY <1>1, <1>2
<1>4. q \in Seq(Nat) /\ Len(q) = n - 1 /\ \A j \in 1..(n - 1) : q[j] = p[j]
  BY <1>1, <1>3, UptoIsSequence
<1>5. l \in Nat /\ p[n] = l
  BY <1>1, <1>3
<1>6. p = Append(q, l)
  BY <1>1, <1>3, <1>5, LastPosition
<1>7. Beyond(p) = Append(q, l + 1)
  <2> DEFINE b == Beyond(p)
  <2> DEFINE c == Append(q, l + 1)
  <2>1. b \in Seq(Nat) /\ Len(b) = n /\ b[n] = l + 1 /\ \A j \in 1..(n - 1) : b[j] = p[j]
    BY <1>1, <1>3, <1>5, BeyondMoves
  <2>2. c \in Seq(Nat) /\ Len(c) = n /\ c[n] = l + 1 /\ \A j \in 1..(n - 1) : c[j] = q[j]
    <3>1. l + 1 \in Nat /\ (n - 1) + 1 = n
      BY <1>1, <1>5
    <3> QED BY <1>4, <3>1, Appended
  <2> HIDE DEF b, c
  <2>3. \A j \in 1..n : b[j] = c[j]
    <3>1. \A j \in 1..n : j \in 1..(n - 1) \/ j = n
      BY <1>1
    <3> QED BY <1>4, <2>1, <2>2, <3>1
  <2>4. b = c
    BY <2>1, <2>2, <2>3, SeqEqual
  <2> QED BY <2>4 DEF b, c
<1>8. VisitAt(t, st[n], q)
  BY <1>1, <1>3 DEF Visiting
<1>9. Len(includeConfigs(t, Node(t, q).files)) \in Nat
  <2> DEFINE files == Node(t, q).files
  <2>1. IsList(files) /\ ToSet(files) \subseteq DOMAIN t.files
    BY <1>8, AddressFacts, ReadFilesExist DEF VisitAt, Follows
  <2> HIDE DEF files
  <2>2. IsList(includeConfigs(t, files))
    BY <2>1, IncludesAreList
  <2> QED BY <2>2, ListPositions DEF files
<1> QED BY <1>1, <1>2, <1>4, <1>5, <1>6, <1>7, <1>8, <1>9 DEF Tops

\* NextInclude moves on to the visit the include leads to: what is past stays the same.
LEMMA NextIncludeVisits ==
    ASSUME NEW t \in Trees, NEW wr, NEW st, NEW vs, NEW ds, NEW rs, AtNext(t, wr, st, vs, ds, rs),
           Last(st).taken < Len(Last(st).includes)
    PROVE  AtVisit(t, wr, [st EXCEPT ![Len(st)].taken = @ + 1],
                   resolveInclude(t, Last(st).dir, Last(st).includes[Last(st).taken + 1]), vs, ds, rs)
<1> DEFINE n == Len(st)
<1> DEFINE p == Position(st)
<1> DEFINE q == Upto(p, n - 1)
<1> DEFINE f == st[n]
<1> DEFINE l == f.taken
<1> DEFINE incs == includeConfigs(t, Node(t, q).files)
<1> DEFINE su == [st EXCEPT ![n].taken = @ + 1]
<1>1. Visiting(t, st) /\ st # <<>> /\ Walked(t, wr, Past(t, Beyond(p)), vs, ds, rs) /\ Last(st) = f
  BY DEF AtNext, Last
<1>2. /\ n \in Nat /\ n > 0 /\ p \in Seq(Nat) /\ Len(p) = n /\ q \in Seq(Nat) /\ Len(q) = n - 1
      /\ l \in Nat /\ p = Append(q, l) /\ Beyond(p) = Append(q, l + 1)
      /\ VisitAt(t, st[n], q) /\ Len(incs) \in Nat
  <2>1. n = Len(st) /\ p = Position(st) /\ q = Upto(p, n - 1) /\ l = st[n].taken
    OBVIOUS
  <2>2. Tops(t, st, n, p, q, l)
    <3> HIDE DEF n, p, q, l
    <3> QED BY <1>1, <2>1, TopOfStack
  <2> HIDE DEF n, p, q, l
  <2> QED BY <2>2 DEF Tops
<1>3. /\ q \in Addresses(t) /\ Readable(t, Node(t, q)) /\ l < Len(incs)
      /\ f = [dir |-> Node(t, q).dir, taken |-> l, includes |-> incs]
  <2>1. f = [dir |-> Node(t, q).dir, taken |-> l, includes |-> incs] /\ l < Len(f.includes)
    BY <1>1, <1>2 DEF VisitAt
  <2>2. f.includes = incs
    <3> HIDE DEF f, incs, l
    <3> QED BY <2>1
  <2> QED BY <1>2, <2>1, <2>2 DEF VisitAt
<1>4. l + 1 \in 1..Len(incs) /\ Leads(t, q, l + 1)
  <2>1. l + 1 \in 1..Len(incs)
    <3> DEFINE m == Len(incs)
    <3>1. m \in Nat /\ l \in Nat /\ l < m
      BY <1>2, <1>3
    <3> HIDE DEF m, l
    <3> QED BY <3>1 DEF m
  <2> QED BY <1>3, <2>1 DEF Leads
<1>5. Len(q) < Files(t)
  <2>1. ASSUME NEW k \in 0..Len(q) PROVE Problem(t, wr, Upto(q, k)) = "none"
    <3>1. k \in 0..(n - 1) /\ k \in 0..n /\ k < n /\ k \in Nat
      BY <1>2
    <3>2. Upto(q, k) = Upto(p, k)
      <4>1. \A j \in 1..k : q[j] = p[j]
        <5>1. \A j \in 1..k : j \in 1..(n - 1)
          BY <3>1
        <5> HIDE DEF p, n
        <5> QED BY <5>1 DEF Upto
      <4> HIDE DEF q
      <4> QED BY <3>1, <4>1, UptoAgree
    <3>3. Upto(q, k) \in Addresses(t)
      BY <1>3, AddressFacts
    <3>4. Before(Upto(p, k), Beyond(p))
      <4> DEFINE b == Beyond(p)
      <4>1. b \in Seq(Nat) /\ Len(b) = n /\ \A j \in 1..(n - 1) : b[j] = p[j]
        <5>1. p # <<>>
          BY <1>2
        <5> QED BY <1>2, <5>1, BeyondMoves
      <4>2. \A j \in 1..k : j \in 1..(n - 1)
        BY <3>1
      <4> HIDE DEF b, p, n
      <4>3. k \in 0..Len(p) /\ k < Len(b) /\ \A j \in 1..k : b[j] = p[j]
        BY <1>2, <3>1, <4>1, <4>2
      <4>4. Before(Upto(p, k), b)
        BY <1>2, <4>1, <4>3, BeginningsAreBefore
      <4> QED BY <4>4 DEF b
    <3>5. Upto(q, k) \in Past(t, Beyond(p))
      BY <3>2, <3>3, <3>4 DEF Past
    <3> QED BY <1>1, <3>5 DEF Walked
  <2> HIDE DEF q
  <2> QED BY <1>3, <2>1, PathIsShort
<1>6. Append(q, l + 1) \in Addresses(t)
  <2> HIDE DEF q, l
  <2>1. l + 1 \in Nat
    BY <1>2
  <2> QED BY <1>3, <1>4, <1>5, <2>1, AddressFacts
<1>7. Node(t, Append(q, l + 1)) = resolveInclude(t, f.dir, f.includes[l + 1])
  <2>1. Node(t, Append(q, l + 1)) = Child(t, Node(t, q), l + 1)
    <3>1. q \in Seq(Nat) /\ l + 1 \in Nat
      BY <1>2
    <3> HIDE DEF q, l
    <3> QED BY <3>1, NodeUnfolds
  <2>2. f.dir = Node(t, q).dir /\ f.includes = incs
    <3> DEFINE dir == Node(t, q).dir
    <3> HIDE DEF f, incs, l, dir
    <3> QED BY <1>3 DEF dir
  <2> QED BY <2>1, <2>2 DEF Child
<1>8. /\ IsList(su) /\ Len(su) = n /\ su[n] = [f EXCEPT !.taken = @ + 1]
      /\ \A j \in 1..(n - 1) : su[j] = st[j]
  <2> DEFINE r == [i \in 1..n |-> IF i = n THEN [f EXCEPT !.taken = @ + 1] ELSE st[i]]
  <2>1. DOMAIN st = 1..n /\ st = [i \in 1..n |-> st[i]]
    BY <1>1, ListPositions, ListIsItself DEF Visiting
  <2>2. su = r
    BY <2>1
  <2>3. r = [i \in 1..n |-> r[i]]
    OBVIOUS
  <2>4. n \in 1..n /\ \A j \in 1..(n - 1) : j \in 1..n /\ j # n
    BY <1>2
  <2>5. r[n] = [f EXCEPT !.taken = @ + 1] /\ \A j \in 1..(n - 1) : r[j] = st[j]
    BY <2>4
  <2>6. IsList(r) /\ Len(r) = n
    <3> HIDE DEF r, n
    <3> QED BY <1>2, <2>3, ListIsMapped
  <2> HIDE DEF r, su
  <2> QED BY <2>2, <2>5, <2>6
<1>9. su[n] = [dir |-> Node(t, q).dir, taken |-> l + 1, includes |-> incs]
  <2> DEFINE dir == Node(t, q).dir
  <2>1. f = [dir |-> dir, taken |-> l, includes |-> incs]
    BY <1>3
  <2>2. [f EXCEPT !.taken = @ + 1] = [dir |-> dir, taken |-> l + 1, includes |-> incs]
    <3> DEFINE g == [dir |-> dir, taken |-> l, includes |-> incs]
    <3>1. [g EXCEPT !.taken = @ + 1] = [dir |-> dir, taken |-> l + 1, includes |-> incs]
      <4> HIDE DEF dir, l, incs
      <4> QED OBVIOUS
    <3>2. f = g
      BY <2>1
    <3> HIDE DEF g, f
    <3> QED BY <3>1, <3>2
  <2> HIDE DEF su, dir
  <2> QED BY <1>8, <2>2 DEF dir
<1>10. /\ \A k \in 1..(n - 1) : VisitAt(t, su[k], Upto(Position(su), k - 1))
       /\ \A k \in 0..(n - 1) : Upto(Position(su), k) = Upto(Position(st), k)
  <2> DEFINE m == n - 1
  <2>1. m \in Nat /\ m <= Len(st) /\ m <= Len(su) /\ IsList(su) /\ \A j \in 1..m : su[j] = st[j]
    <3> HIDE DEF su
    <3>1. m \in Nat /\ m <= n
      BY <1>2
    <3> QED BY <1>8, <3>1
  <2> HIDE DEF su, m, n
  <2>2. /\ \A k \in 1..m : VisitAt(t, su[k], Upto(Position(su), k - 1))
        /\ \A k \in 0..m : Upto(Position(su), k) = Upto(Position(st), k)
    BY <1>1, <2>1, VisitsKept
  <2> QED BY <2>2 DEF m
<1>11. Upto(Position(su), n - 1) = q
  <2>1. n - 1 \in 0..(n - 1)
    BY <1>2
  <2> HIDE DEF su
  <2> QED BY <1>10, <2>1
<1> HIDE DEF su, n, q, p
<1>12. VisitAt(t, su[n], q)
  <2> DEFINE g == su[n]
  <2> DEFINE dir == Node(t, q).dir
  <2>1. g = [dir |-> dir, taken |-> l + 1, includes |-> incs]
    BY <1>9
  <2>2. g.taken = l + 1 /\ g.includes = incs
    <3> HIDE DEF g, dir, l, incs
    <3> QED BY <2>1
  <2>3. g.taken \in 0..Len(g.includes)
    <3>1. l + 1 \in 0..Len(incs)
      BY <1>4
    <3> QED BY <2>2, <3>1
  <2>4. g = [dir |-> dir, taken |-> g.taken, includes |-> incs]
    BY <2>1, <2>2
  <2> HIDE DEF g
  <2>5. VisitAt(t, g, q)
    BY <1>3, <2>3, <2>4 DEF VisitAt
  <2> QED BY <2>5 DEF g
<1>13. Visiting(t, su)
  <2>1. DOMAIN su = 1..n
    BY <1>8, ListPositions
  <2>2. ASSUME NEW k \in 1..n PROVE VisitAt(t, su[k], Upto(Position(su), k - 1))
    <3>1. CASE k = n
      BY <1>11, <1>12, <3>1
    <3>2. CASE k # n
      <4>1. k \in 1..(n - 1)
        BY <1>2, <3>2
      <4> QED BY <1>10, <4>1
    <3> QED BY <3>1, <3>2
  <2> QED BY <1>8, <2>1, <2>2 DEF Visiting
<1>14. Position(su) = Append(q, l + 1)
  <2> DEFINE s == Position(su)
  <2>1. s \in Seq(Nat) /\ Len(s) = n /\ s[n] = su[n].taken
    <3>1. n \in 1..Len(su)
      BY <1>2, <1>8
    <3> QED BY <1>8, <1>13, <3>1, StackPosition
  <2>2. s[n] = l + 1
    <3> DEFINE dir == Node(t, q).dir
    <3>1. su[n] = [dir |-> dir, taken |-> l + 1, includes |-> incs]
      BY <1>9
    <3>2. su[n].taken = l + 1
      <4> HIDE DEF dir, l, incs
      <4> QED BY <3>1
    <3> QED BY <2>1, <3>2
  <2> HIDE DEF s
  <2>3. s # <<>>
    BY <1>2, <2>1
  <2>4. s = Append(Upto(s, n - 1), s[n])
    BY <2>1, <2>3, LastPosition
  <2> QED BY <1>11, <2>2, <2>4 DEF s
<1> QED BY <1>1, <1>2, <1>6, <1>7, <1>13, <1>14 DEF AtVisit, su, n

\* Return leaves the visits below: with none, everything is past.
LEMMA ReturnLeaves ==
    ASSUME NEW t \in Trees, NEW wr, NEW st, NEW vs, NEW ds, NEW rs, AtNext(t, wr, st, vs, ds, rs),
           ~(Last(st).taken < Len(Last(st).includes))
    PROVE  IF Len(st) = 1 THEN Front(st) = <<>> /\ Walked(t, wr, Addresses(t), vs, ds, rs)
           ELSE AtNext(t, wr, Front(st), vs, ds, rs)
<1> DEFINE n == Len(st)
<1> DEFINE p == Position(st)
<1> DEFINE q == Upto(p, n - 1)
<1> DEFINE f == st[n]
<1> DEFINE l == f.taken
<1> DEFINE incs == includeConfigs(t, Node(t, q).files)
<1> DEFINE su == Front(st)
<1>1. Visiting(t, st) /\ st # <<>> /\ Walked(t, wr, Past(t, Beyond(p)), vs, ds, rs) /\ Last(st) = f
  BY DEF AtNext, Last
<1>2. /\ n \in Nat /\ n > 0 /\ p \in Seq(Nat) /\ Len(p) = n /\ q \in Seq(Nat) /\ Len(q) = n - 1
      /\ l \in Nat /\ p = Append(q, l) /\ Beyond(p) = Append(q, l + 1)
      /\ VisitAt(t, st[n], q) /\ Len(incs) \in Nat
  <2>1. n = Len(st) /\ p = Position(st) /\ q = Upto(p, n - 1) /\ l = st[n].taken
    OBVIOUS
  <2>2. Tops(t, st, n, p, q, l)
    <3> HIDE DEF n, p, q, l
    <3> QED BY <1>1, <2>1, TopOfStack
  <2> HIDE DEF n, p, q, l
  <2> QED BY <2>2 DEF Tops
<1>3. q \in Addresses(t) /\ l >= Len(incs)
  <2>1. f = [dir |-> Node(t, q).dir, taken |-> l, includes |-> incs] /\ ~(l < Len(f.includes))
    BY <1>1, <1>2 DEF VisitAt
  <2>2. f.includes = incs
    <3> HIDE DEF f, incs, l
    <3> QED BY <2>1
  <2>3. l >= Len(incs)
    <3> DEFINE m == Len(incs)
    <3>1. m \in Nat /\ l \in Nat /\ ~(l < m)
      BY <1>2, <2>1, <2>2
    <3> HIDE DEF m, l
    <3> QED BY <3>1 DEF m
  <2> QED BY <1>2, <2>3 DEF VisitAt
<1>4. IsList(su) /\ Len(su) = n - 1 /\ \A j \in 1..(n - 1) : su[j] = st[j]
  <2> DEFINE S == ToSet(st)
  <2>1. st \in Seq(S)
    BY <1>1 DEF Visiting, IsList
  <2> HIDE DEF S
  <2>2. su \in Seq(S) /\ Len(su) = n - 1 /\ \A j \in 1..(n - 1) : su[j] = st[j]
    <3>1. su = SubSeq(st, 1, n - 1)
      BY DEF Front
    <3>2. 1 \in 1..(n + 1) /\ n - 1 \in Int /\ n - 1 \in 0..n
      BY <1>2
    <3> HIDE DEF su
    <3> QED BY <1>2, <2>1, <3>1, <3>2
  <2>3. su = [i \in 1..(n - 1) |-> su[i]]
    BY <2>2
  <2>4. n - 1 \in Nat
    BY <1>2
  <2> HIDE DEF su, n
  <2> QED BY <2>2, <2>3, <2>4, ListIsMapped
<1> HIDE DEF su
<1>5. CASE n = 1
  <2>1. q = <<>>
    BY <1>2, <1>5
  <2>2. Past(t, <<l + 1>>) = Addresses(t)
    <3> DEFINE m == Len(includeConfigs(t, Node(t, <<>>).files))
    <3>1. l \in Nat /\ m \in Nat /\ l >= m
      BY <1>2, <1>3, <2>1
    <3> HIDE DEF l
    <3> QED BY <3>1, PastAll
  <2>3. Append(q, l + 1) = <<l + 1>>
    <3> HIDE DEF q, l
    <3> QED BY <2>1
  <2>4. su = <<>>
    <3> DEFINE S == ToSet(su)
    <3>1. su \in Seq(S)
      BY <1>4 DEF IsList
    <3> HIDE DEF S
    <3>2. Len(su) = 0
      BY <1>4, <1>5
    <3> QED BY <3>1, <3>2
  <2> QED BY <1>1, <1>2, <1>5, <2>2, <2>3, <2>4 DEF su
<1>6. CASE n # 1
  <2> DEFINE m == n - 1
  <2>1. /\ \A k \in 1..m : VisitAt(t, su[k], Upto(Position(su), k - 1))
        /\ \A k \in 0..m : Upto(Position(su), k) = Upto(p, k)
    <3>1. m \in Nat /\ m <= Len(st) /\ m <= Len(su) /\ IsList(su) /\ \A j \in 1..m : su[j] = st[j]
      <4>1. m \in Nat /\ m <= n
        BY <1>2
      <4> QED BY <1>4, <4>1
    <3> HIDE DEF m, n
    <3> QED BY <1>1, <3>1, VisitsKept
  <2>2. Visiting(t, su)
    <3>1. DOMAIN su = 1..m
      BY <1>4, ListPositions
    <3> QED BY <1>4, <2>1, <3>1 DEF Visiting
  <2>3. Position(su) = q
    <3> DEFINE s == Position(su)
    <3>1. s \in Seq(Nat) /\ Len(s) = m
      BY <1>4, <2>2, StackPosition
    <3>2. Upto(s, m) = Upto(p, m)
      <4>1. m \in 0..m
        BY <1>2
      <4> HIDE DEF m, p
      <4> QED BY <2>1, <4>1
    <3> HIDE DEF s, m
    <3>3. Upto(s, m) = s
      BY <3>1, UptoAll
    <3> QED BY <3>2, <3>3 DEF s, m
  <2>4. q # <<>> /\ su # <<>>
    <3>1. Len(q) > 0 /\ Len(su) > 0
      BY <1>2, <1>4, <1>6
    <3> HIDE DEF q
    <3>2. Len(<<>>) = 0
      OBVIOUS
    <3> QED BY <3>1, <3>2
  <2>5. Past(t, Append(q, l + 1)) = Past(t, Beyond(q))
    <3> HIDE DEF q, l
    <3> QED BY <1>2, <1>3, <2>4, PastReturned
  <2>6. AtNext(t, wr, su, vs, ds, rs)
    BY <1>1, <1>2, <2>2, <2>3, <2>4, <2>5 DEF AtNext
  <2> QED BY <1>6, <2>6 DEF su
<1> QED BY <1>5, <1>6
-----------------------------------------------------------------------------
\* What a visit at a fails with, told from what has been visited before it.
LEMMA VisitFinds ==
    ASSUME NEW t \in Trees, NEW wr, NEW a, NEW vs, NEW ds, NEW rs, NEW files,
           files = Node(t, a).files, Walked(t, wr, Past(t, a), vs, ds, rs)
    PROVE  /\ files = <<>> => Problem(t, wr, a) = "include_decode"
           /\ files # <<>> =>
                 /\ files[1] \in vs => Problem(t, wr, a) = "include_cycle"
                 /\ files[1] \notin vs =>
                       Problem(t, wr, a) = Fault(t, wr, Node(t, a))
<1> DEFINE again == \E c \in Addresses(t) : Before(c, a) /\ Node(t, c).files # <<>>
                                              /\ Node(t, c).files[1] = files[1]
<1>1. Problem(t, wr, a) = IF files = <<>> THEN "include_decode"
                          ELSE IF again THEN "include_cycle"
                          ELSE Fault(t, wr, Node(t, a))
  BY DEF Problem
<1>2. again <=> files[1] \in vs
  <2>1. vs = {Node(t, b).files[1] : b \in Past(t, a)}
    BY DEF Walked
  <2>2. \A b \in Past(t, a) : Node(t, b).files # <<>>
    BY NoProblem DEF Walked, Readable
  <2>3. \A c : c \in Past(t, a) <=> c \in Addresses(t) /\ Before(c, a)
    BY DEF Past
  <2> DEFINE first(b) == Node(t, b).files[1]
  <2> DEFINE named(b) == Node(t, b).files # <<>>
  <2>4. again <=> \E c \in Addresses(t) : Before(c, a) /\ named(c) /\ first(c) = files[1]
    OBVIOUS
  <2>5. vs = {first(b) : b \in Past(t, a)} /\ \A b \in Past(t, a) : named(b)
    BY <2>1, <2>2
  <2> HIDE DEF first, named, again
  <2> QED BY <2>3, <2>4, <2>5
<1> HIDE DEF again
<1> QED BY <1>1, <1>2

\* Before anything is visited nothing is claimed.
LEMMA WalkedNothing ==
    ASSUME NEW t, NEW wr, NEW rs, DOMAIN rs = {}
    PROVE  Walked(t, wr, {}, {}, Unclaimed, rs)
<1>1. DOMAIN Unclaimed = {}
  BY DEF Unclaimed
<1> HIDE DEF Unclaimed
<1> QED BY <1>1 DEF Walked, Owned

\* A claim of what the visit at a declares, after all the others, gives it the services none
\* of them declares.
LEMMA OwnedOneMore ==
    ASSUME NEW t, NEW bodied \in BOOLEAN, NEW a, NEW as, \A b \in as : Before(b, a),
           NEW claims, Owned(t, as, claims, bodied), NEW new, new = Declared(t, a, bodied),
           NEW owner, owner = OwnerAt(t, a, bodied)
    PROVE  Owned(t, as \union {a}, claim(claims, new, owner), bodied)
<1> DEFINE au == as \union {a}
<1> DEFINE out == claim(claims, new, owner)
<1> DEFINE decl(b) == Declared(t, b, bodied)
<1>1. /\ DOMAIN out = DOMAIN claims \union new
      /\ \A s \in DOMAIN out : out[s] = IF s \in DOMAIN claims THEN claims[s] ELSE owner
  BY DEF claim, Over
<1>2. DOMAIN claims = UNION {decl(b) : b \in as} /\ new = decl(a)
  BY DEF Owned
<1> HIDE DEF out
<1>3. DOMAIN out = UNION {decl(b) : b \in au}
  <2> HIDE DEF decl
  <2> QED BY <1>1, <1>2
<1>4. ASSUME NEW s \in DOMAIN out
      PROVE  \E o \in au : FirstOf(t, s, au, o, bodied) /\ out[s] = OwnerAt(t, o, bodied)
  <2>1. CASE s \in DOMAIN claims
    <3>1. PICK o \in as : FirstOf(t, s, as, o, bodied) /\ claims[s] = OwnerAt(t, o, bodied)
      BY <2>1 DEF Owned
    <3>2. FirstOf(t, s, au, o, bodied)
      BY <3>1 DEF FirstOf
    <3> QED BY <1>1, <2>1, <3>1, <3>2
  <2>2. CASE s \notin DOMAIN claims
    <3>1. s \in decl(a)
      <4> HIDE DEF decl
      <4> QED BY <1>1, <1>2, <2>2
    <3>2. \A b \in as : s \notin decl(b)
      <4> HIDE DEF decl
      <4> QED BY <1>2, <2>2
    <3>3. FirstOf(t, s, au, a, bodied)
      BY <3>1, <3>2 DEF FirstOf
    <3> QED BY <1>1, <2>2, <3>3
  <2> QED BY <2>1, <2>2
<1>5. Owned(t, au, out, bodied)
  <2> HIDE DEF au
  <2> QED BY <1>3, <1>4 DEF Owned
<1> QED BY <1>5 DEF out

\* A visit without a problem that comes after all the others is added to them.
LEMMA WalkedOneMore ==
    ASSUME NEW t \in Trees, NEW wr \in BOOLEAN, NEW a \in Addresses(t), NEW vs, NEW ds, NEW rs,
           Walked(t, wr, Past(t, a), vs, ds, rs), Problem(t, wr, a) = "none",
           NEW node, node = Node(t, a), NEW rt,
           rt = IF wr THEN claim(rs, DeclaresRaw(t, node.files), node.files) ELSE rs
    PROVE  Walked(t, wr, Past(t, a) \union {a}, vs \union {node.files[1]},
                  claim(ds, Declares(t, node.files), node.dir), rt)
<1> DEFINE as == Past(t, a)
<1> DEFINE au == as \union {a}
<1> DEFINE dt == claim(ds, Declares(t, node.files), node.dir)
<1>1. \A b \in au : Problem(t, wr, b) = "none"
  BY DEF Walked
<1>2. vs \union {node.files[1]} = {Node(t, b).files[1] : b \in au}
  <2> DEFINE first(b) == Node(t, b).files[1]
  <2>1. vs = {first(b) : b \in as} /\ node.files[1] = first(a)
    BY DEF Walked
  <2> HIDE DEF first, as
  <2>2. vs \union {node.files[1]} = {first(b) : b \in au}
    BY <2>1
  <2> QED BY <2>2 DEF first
<1>3. \A b \in as : Before(b, a)
  BY DEF Past
<1> HIDE DEF as
<1>4. Owned(t, au, dt, FALSE)
  <2>1. Owned(t, as, ds, FALSE)
    BY DEF Walked, as
  <2>2. Declares(t, node.files) = Declared(t, a, FALSE) /\ node.dir = OwnerAt(t, a, FALSE)
    BY DEF Declared, OwnerAt
  <2> QED BY <1>3, <2>1, <2>2, OwnedOneMore
<1>5. IF wr THEN Owned(t, au, rt, TRUE) ELSE DOMAIN rt = {}
  <2>1. CASE wr
    <3>1. Owned(t, as, rs, TRUE)
      BY <2>1 DEF Walked, as
    <3>2. DeclaresRaw(t, node.files) = Declared(t, a, TRUE) /\ node.files = OwnerAt(t, a, TRUE)
      BY DEF Declared, OwnerAt
    <3>3. rt = claim(rs, DeclaresRaw(t, node.files), node.files)
      BY <2>1
    <3>4. Owned(t, au, claim(rs, DeclaresRaw(t, node.files), node.files), TRUE)
      BY <1>3, <3>1, <3>2, OwnedOneMore
    <3> HIDE DEF au
    <3> QED BY <2>1, <3>3, <3>4
  <2>2. CASE ~wr
    BY <2>2 DEF Walked
  <2> HIDE DEF au
  <2> QED BY <2>1, <2>2
<1> HIDE DEF dt, au
<1>6. Walked(t, wr, au, vs \union {node.files[1]}, dt, rt)
  BY <1>1, <1>2, <1>4, <1>5 DEF Walked
<1> QED BY <1>6 DEF dt, au, as

\* What IncludeTypeOK says of the results of a walk.
Claims(t, vs, ds, rs) ==
    /\ DOMAIN ds \subseteq Service /\ DOMAIN rs \subseteq DOMAIN ds
    /\ \A s \in DOMAIN rs : rs[s] # <<>> /\ rs[s][1] \in vs
    /\ vs \subseteq {Node(t, a).files[1] : a \in {b \in Addresses(t) : Node(t, b).files # <<>>}}

\* Files that are there declare services, some of them with a body.
LEMMA DeclaresServices ==
    ASSUME NEW t \in Trees, NEW files, ToSet(files) \subseteq DOMAIN t.files
    PROVE  Declares(t, files) \subseteq Service /\ DeclaresRaw(t, files) \subseteq Declares(t, files)
<1>1. \A f \in DOMAIN t.files : /\ t.files[f].services \subseteq Service
                               /\ t.files[f].bodies \subseteq t.files[f].services
  BY TreesAssumption
<1> DEFINE named == ToSet(files)
<1> HIDE DEF named
<1>2. named \subseteq DOMAIN t.files
  BY DEF named
<1>3. /\ UNION {t.files[f].services : f \in named} \subseteq Service
      /\ UNION {t.files[f].bodies : f \in named} \subseteq UNION {t.files[f].services : f \in named}
  BY <1>1, <1>2
<1> QED BY <1>3 DEF Declares, DeclaresRaw, named

\* The results of a walk of visits without a problem are such.
LEMMA WalkedClaims ==
    ASSUME NEW t \in Trees, NEW wr \in BOOLEAN, NEW as \in SUBSET Addresses(t), NEW vs, NEW ds, NEW rs,
           Walked(t, wr, as, vs, ds, rs)
    PROVE  Claims(t, vs, ds, rs)
<1>1. \A b \in as : Node(t, b).files # <<>> /\ ToSet(Node(t, b).files) \subseteq DOMAIN t.files
  BY NoProblem, ReadFilesExist DEF Walked
<1> DEFINE decl(b) == Declared(t, b, FALSE)
<1> DEFINE bodied(b) == Declared(t, b, TRUE)
<1>0. /\ DOMAIN ds = UNION {decl(b) : b \in as}
      /\ wr => DOMAIN rs = UNION {bodied(b) : b \in as}
      /\ ~wr => DOMAIN rs = {}
      /\ \A b \in as : decl(b) \subseteq Service /\ bodied(b) \subseteq decl(b)
  <2>1. \A b \in as : decl(b) \subseteq Service /\ bodied(b) \subseteq decl(b)
    BY <1>1, DeclaresServices DEF Declared
  <2> QED BY <2>1 DEF Walked, Owned
<1> HIDE DEF decl, bodied
<1>2. DOMAIN ds \subseteq Service
  <2>1. DOMAIN ds = UNION {decl(b) : b \in as} /\ \A b \in as : decl(b) \subseteq Service
    BY <1>0
  <2> QED BY <2>1
<1>3. DOMAIN rs \subseteq DOMAIN ds
  <2>1. CASE wr
    <3>1. /\ DOMAIN ds = UNION {decl(b) : b \in as} /\ DOMAIN rs = UNION {bodied(b) : b \in as}
          /\ \A b \in as : bodied(b) \subseteq decl(b)
      BY <1>0, <2>1
    <3> QED BY <3>1
  <2>2. CASE ~wr
    BY <1>0, <2>2
  <2> QED BY <2>1, <2>2
<1>4. ASSUME NEW s \in DOMAIN rs PROVE rs[s] # <<>> /\ rs[s][1] \in vs
  <2>1. wr
    BY <1>0
  <2>2. PICK o \in as : rs[s] = Node(t, o).files
    BY <2>1 DEF Walked, Owned, OwnerAt
  <2>3. Node(t, o).files[1] \in vs
    BY DEF Walked
  <2> QED BY <1>1, <2>2, <2>3
<1>5. vs \subseteq {Node(t, a).files[1] : a \in {b \in Addresses(t) : Node(t, b).files # <<>>}}
  <2> DEFINE first(b) == Node(t, b).files[1]
  <2> DEFINE named == {b \in Addresses(t) : Node(t, b).files # <<>>}
  <2>1. vs = {first(b) : b \in as} /\ as \subseteq named
    BY <1>1 DEF Walked
  <2> HIDE DEF first, named
  <2>2. vs \subseteq {first(b) : b \in named}
    BY <2>1
  <2> QED BY <2>2 DEF first, named
<1> QED BY <1>2, <1>3, <1>4, <1>5 DEF Claims

\* They stay such when the visit at a marks its file and claims services.
LEMMA ClaimsOneMore ==
    ASSUME NEW t, NEW vs, NEW ds, NEW rs, Claims(t, vs, ds, rs),
           NEW a \in Addresses(t), NEW files, files = Node(t, a).files, files # <<>>,
           NEW new \in SUBSET Service, NEW owner, NEW bodied \in SUBSET new
    PROVE  /\ Claims(t, vs \union {files[1]}, ds, rs)
           /\ Claims(t, vs \union {files[1]}, claim(ds, new, owner), rs)
           /\ Claims(t, vs \union {files[1]}, claim(ds, new, owner), claim(rs, bodied, files))
<1> DEFINE firsts == {Node(t, b).files[1] : b \in {c \in Addresses(t) : Node(t, c).files # <<>>}}
<1>1. files[1] \in firsts
  OBVIOUS
<1>2. vs \subseteq firsts
  BY DEF Claims
<1> HIDE DEF firsts
<1>3. vs \union {files[1]} \subseteq firsts
  BY <1>1, <1>2
<1> DEFINE dt == claim(ds, new, owner)
<1> DEFINE rt == claim(rs, bodied, files)
<1>4. /\ DOMAIN dt = DOMAIN ds \union new
      /\ DOMAIN rt = DOMAIN rs \union bodied
      /\ \A s \in DOMAIN rt : rt[s] = IF s \in DOMAIN rs THEN rs[s] ELSE files
  BY DEF claim, Over
<1> HIDE DEF dt, rt
<1>5. \A s \in DOMAIN rt : rt[s] # <<>> /\ rt[s][1] \in vs \union {files[1]}
  BY <1>4 DEF Claims
<1>6. /\ Claims(t, vs \union {files[1]}, ds, rs)
      /\ Claims(t, vs \union {files[1]}, dt, rs)
      /\ Claims(t, vs \union {files[1]}, dt, rt)
  BY <1>3, <1>4, <1>5 DEF Claims, firsts
<1> QED BY <1>6 DEF dt, rt
-----------------------------------------------------------------------------
\* The simple part of the types.
Typed(t, wr, c, e) ==
    /\ t \in Trees /\ wr \in BOOLEAN /\ c \in {"visit", "next", "check", "ok", "err"}
    /\ e \in Kind /\ (e = "none" <=> c # "err")

\* The invariant as a condition on the values of the variables.
InvOf(t, wr, c, cl, st, vs, ds, rs, e) ==
    /\ Typed(t, wr, c, e) /\ Claims(t, vs, ds, rs)
    /\ c = "visit" => AtVisit(t, wr, st, cl, vs, ds, rs)
    /\ c = "next" => AtNext(t, wr, st, vs, ds, rs)
    /\ c \in {"check", "ok"} => st = <<>> /\ Walked(t, wr, Addresses(t), vs, ds, rs)
    /\ c = "ok" => t.services \subseteq DOMAIN ds
    /\ c = "err" => AtErr(t, wr, e, ds)

\* It says the same, of this state and of the next.
LEMMA InvIsOfValues ==
    /\ WalkInv <=> InvOf(tree, withRaw, pc, call, stack, visited, dirs, raw, error)
    /\ WalkInv' <=> InvOf(tree', withRaw', pc', call', stack', visited', dirs', raw', error')
<1>1. WalkInv <=> InvOf(tree, withRaw, pc, call, stack, visited, dirs, raw, error)
  BY DEF WalkInv, InvOf, IncludeTypeOK, Typed, Claims
<1>2. WalkInv' <=> InvOf(tree', withRaw', pc', call', stack', visited', dirs', raw', error')
  BY DEF WalkInv, InvOf, IncludeTypeOK, Typed, Claims
<1> QED BY <1>1, <1>2

\* Where a walk starts.
LEMMA AtStart ==
    ASSUME NEW t \in Trees, NEW wr, NEW rs, DOMAIN rs = {}
    PROVE  AtVisit(t, wr, <<>>, Start(t), {}, Unclaimed, rs) /\ Claims(t, {}, Unclaimed, rs)
<1>1. Position(<<>>) = <<>>
  BY DEF Position
<1>2. Visiting(t, <<>>)
  <2>1. IsList(<<>>)
    BY DEF IsList
  <2>2. DOMAIN <<>> = {}
    OBVIOUS
  <2> QED BY <2>1, <2>2 DEF Visiting
<1>3. <<>> \in Addresses(t) /\ Node(t, <<>>) = Start(t) /\ Past(t, <<>>) = {}
  BY AddressFacts, NodeUnfolds, NothingPast
<1>4. Walked(t, wr, {}, {}, Unclaimed, rs)
  BY WalkedNothing
<1>5. AtVisit(t, wr, <<>>, Start(t), {}, Unclaimed, rs)
  BY <1>1, <1>2, <1>3, <1>4 DEF AtVisit
<1>6. Claims(t, {}, Unclaimed, rs)
  <2>1. DOMAIN Unclaimed = {}
    BY DEF Unclaimed
  <2> HIDE DEF Unclaimed
  <2> QED BY <2>1 DEF Claims
<1> QED BY <1>5, <1>6

\* A walk starts as the invariant says.
LEMMA WalkInvInit == Init => WalkInv
<1> SUFFICES ASSUME Init PROVE WalkInv
  OBVIOUS
<1>1. /\ tree \in Trees /\ withRaw = FALSE /\ pc = "visit" /\ call = Start(tree) /\ stack = <<>>
      /\ visited = {} /\ dirs = Unclaimed /\ raw = Unclaimed /\ error = "none"
  BY DEF Init
<1>2. DOMAIN Unclaimed = {}
  BY DEF Unclaimed
<1>3. AtVisit(tree, withRaw, stack, call, visited, dirs, raw) /\ Claims(tree, visited, dirs, raw)
  <2> HIDE DEF Unclaimed
  <2> QED BY <1>1, <1>2, AtStart
<1>4. Typed(tree, withRaw, pc, error)
  BY <1>1 DEF Typed, Kind
<1>5. InvOf(tree, withRaw, pc, call, stack, visited, dirs, raw, error)
  BY <1>1, <1>3, <1>4 DEF InvOf
<1> QED BY <1>5, InvIsOfValues

\* What the invariant says of a visit about to be made: its place, its files, its problem.
LEMMA Visits ==
    ASSUME WalkInv, pc = "visit", NEW a, a = Position(stack)
    PROVE  /\ tree \in Trees /\ withRaw \in BOOLEAN /\ error = "none" /\ a \in Addresses(tree)
           /\ Visiting(tree, stack) /\ call = Node(tree, a)
           /\ Walked(tree, withRaw, Past(tree, a), visited, dirs, raw)
           /\ Claims(tree, visited, dirs, raw)
           /\ call.files = <<>> => Problem(tree, withRaw, a) = "include_decode"
           /\ call.files # <<>> =>
                 /\ call.files[1] \in visited => Problem(tree, withRaw, a) = "include_cycle"
                 /\ call.files[1] \notin visited =>
                       Problem(tree, withRaw, a) = Fault(tree, withRaw, call)
<1>1. InvOf(tree, withRaw, pc, call, stack, visited, dirs, raw, error)
  BY InvIsOfValues
<1>2. /\ tree \in Trees /\ withRaw \in BOOLEAN /\ error = "none"
      /\ Claims(tree, visited, dirs, raw) /\ AtVisit(tree, withRaw, stack, call, visited, dirs, raw)
  BY <1>1 DEF InvOf, Typed
<1>3. /\ a \in Addresses(tree) /\ Visiting(tree, stack) /\ call = Node(tree, a)
      /\ Walked(tree, withRaw, Past(tree, a), visited, dirs, raw)
  BY <1>2 DEF AtVisit
<1> DEFINE files == call.files
<1>4. files = Node(tree, a).files
  BY <1>3
<1> HIDE DEF files
<1>5. /\ files = <<>> => Problem(tree, withRaw, a) = "include_decode"
      /\ files # <<>> =>
            /\ files[1] \in visited => Problem(tree, withRaw, a) = "include_cycle"
            /\ files[1] \notin visited =>
                  Problem(tree, withRaw, a) = Fault(tree, withRaw, Node(tree, a))
  BY <1>2, <1>3, <1>4, VisitFinds
<1> QED BY <1>2, <1>3, <1>5 DEF files

\* A visit that fails ends the walk with the first problem there is.
LEMMA FailKeepsInv ==
    ASSUME WalkInv, pc = "visit", NEW a, a = Position(stack), NEW kind \in Kind, kind # "none",
           Problem(tree, withRaw, a) = kind, Fail(kind), Claims(tree, visited', dirs', raw')
    PROVE  WalkInv'
<1>1. tree' = tree /\ withRaw' = withRaw /\ pc' = "err" /\ error' = kind
  BY DEF Fail
<1>2. /\ tree \in Trees /\ withRaw \in BOOLEAN /\ a \in Addresses(tree)
      /\ Walked(tree, withRaw, Past(tree, a), visited, dirs, raw)
  BY Visits
<1>3. FailedAt(tree, withRaw, kind, a)
  BY <1>2 DEF FailedAt, Walked
<1>4. AtErr(tree, withRaw, kind, dirs')
  BY <1>2, <1>3 DEF AtErr
<1>5. Typed(tree', withRaw', pc', error')
  BY <1>1, <1>2 DEF Typed
<1>6. InvOf(tree', withRaw', pc', call', stack', visited', dirs', raw', error')
  BY <1>1, <1>4, <1>5 DEF InvOf
<1> QED BY <1>6, InvIsOfValues

\* A visit that is entered is added to what has been walked.
LEMMA EnterKeepsInv ==
    ASSUME WalkInv, Enter
    PROVE  WalkInv'
<1> DEFINE a == Position(stack)
<1> DEFINE files == call.files
<1> DEFINE new == Declares(tree, files)
<1> DEFINE fr == [dir |-> call.dir, taken |-> 0, includes |-> includeConfigs(tree, files)]
<1>1. /\ pc = "visit" /\ files # <<>> /\ files[1] \notin visited
      /\ Fault(tree, withRaw, call) = "none"
      /\ visited' = visited \union {files[1]} /\ dirs' = claim(dirs, new, call.dir)
      /\ raw' = IF withRaw THEN claim(raw, DeclaresRaw(tree, files), files) ELSE raw
      /\ stack' = Append(stack, fr) /\ pc' = "next"
      /\ tree' = tree /\ withRaw' = withRaw /\ error' = error
  BY DEF Enter, Enters, Mark, Claim, Fault
<1> HIDE DEF a
<1>2. /\ tree \in Trees /\ withRaw \in BOOLEAN /\ error = "none" /\ a \in Addresses(tree)
      /\ Visiting(tree, stack) /\ call = Node(tree, a)
      /\ Walked(tree, withRaw, Past(tree, a), visited, dirs, raw)
      /\ Problem(tree, withRaw, a) = "none"
  <2>1. a = Position(stack)
    BY DEF a
  <2> HIDE DEF files
  <2>2. files # <<>> /\ files[1] \notin visited =>
           Problem(tree, withRaw, a) = Fault(tree, withRaw, call)
    BY <1>1, <2>1, Visits DEF files
  <2>3. Problem(tree, withRaw, a) = "none"
    BY <1>1, <2>2
  <2> QED BY <1>1, <2>1, <2>3, Visits
<1>3. Walked(tree, withRaw, Past(tree, a) \union {a}, visited', dirs', raw')
  <2> DEFINE node == call
  <2>1. node = Node(tree, a)
    BY <1>2
  <2> DEFINE rt == IF withRaw THEN claim(raw, DeclaresRaw(tree, node.files), node.files) ELSE raw
  <2>2. /\ visited' = visited \union {node.files[1]} /\ raw' = rt
        /\ dirs' = claim(dirs, Declares(tree, node.files), node.dir)
    BY <1>1
  <2> HIDE DEF node
  <2>3. rt = IF withRaw THEN claim(raw, DeclaresRaw(tree, node.files), node.files) ELSE raw
    OBVIOUS
  <2> HIDE DEF rt
  <2>4. Walked(tree, withRaw, Past(tree, a) \union {a}, visited \union {node.files[1]},
               claim(dirs, Declares(tree, node.files), node.dir), rt)
    BY <1>2, <2>1, <2>3, WalkedOneMore
  <2> QED BY <2>2, <2>4
<1>4. /\ Visiting(tree, stack') /\ stack' # <<>>
      /\ Past(tree, Beyond(Position(stack'))) = Past(tree, a) \union {a}
  <2>1. fr = [dir |-> Node(tree, a).dir, taken |-> 0, includes |-> includeConfigs(tree, Node(tree, a).files)]
    BY <1>2
  <2>2. Readable(tree, Node(tree, a)) /\ a = Position(stack)
    BY <1>2, NoProblem DEF a
  <2>3. stack' = Append(stack, fr)
    BY <1>1
  <2> HIDE DEF fr
  <2>4. /\ Visiting(tree, Append(stack, fr)) /\ Append(stack, fr) # <<>>
        /\ Past(tree, Beyond(Position(Append(stack, fr)))) = Past(tree, a) \union {a}
    BY <1>2, <2>1, <2>2, EnterStack
  <2> QED BY <2>3, <2>4
<1>5. AtNext(tree, withRaw, stack', visited', dirs', raw')
  BY <1>3, <1>4 DEF AtNext
<1>6. Claims(tree, visited', dirs', raw')
  <2>1. Past(tree, a) \union {a} \in SUBSET Addresses(tree)
    BY <1>2 DEF Past
  <2> QED BY <1>2, <1>3, <2>1, WalkedClaims
<1>7. Typed(tree', withRaw', pc', error')
  BY <1>1, <1>2 DEF Typed, Kind
<1>8. InvOf(tree', withRaw', pc', call', stack', visited', dirs', raw', error')
  BY <1>1, <1>5, <1>6, <1>7 DEF InvOf
<1> QED BY <1>8, InvIsOfValues

\* Each of the steps keeps the invariant.
LEMMA WalkInvStep == WalkInv /\ [Next]_vars => WalkInv'
<1> SUFFICES ASSUME WalkInv, [Next]_vars PROVE WalkInv'
  OBVIOUS
<1> DEFINE a == Position(stack)
<1> DEFINE files == call.files
<1>0. InvOf(tree, withRaw, pc, call, stack, visited, dirs, raw, error)
  BY InvIsOfValues
<1>1. tree \in Trees /\ withRaw \in BOOLEAN /\ Claims(tree, visited, dirs, raw)
  BY <1>0 DEF InvOf, Typed
<1>2. CASE RefuseEmpty
  <2>1. pc = "visit" /\ files = <<>> /\ Fail("include_decode") /\ UNCHANGED <<visited, dirs, raw>>
    BY <1>2 DEF RefuseEmpty
  <2>2. Problem(tree, withRaw, a) = "include_decode"
    BY <2>1, Visits
  <2>3. "include_decode" \in Kind /\ "include_decode" # "none" /\ tree' = tree
    BY <2>1 DEF Kind, Fail
  <2>4. Claims(tree, visited', dirs', raw')
    BY <1>1, <2>1
  <2> HIDE DEF a
  <2> QED BY <2>1, <2>2, <2>3, <2>4, FailKeepsInv DEF a
<1>3. CASE RefuseRepeated
  <2>1. /\ pc = "visit" /\ files # <<>> /\ files[1] \in visited
        /\ Fail("include_cycle") /\ UNCHANGED <<visited, dirs, raw>>
    BY <1>3 DEF RefuseRepeated
  <2>2. Problem(tree, withRaw, a) = "include_cycle"
    BY <2>1, Visits
  <2>3. "include_cycle" \in Kind /\ "include_cycle" # "none"
    BY DEF Kind
  <2>4. Claims(tree, visited', dirs', raw')
    BY <1>1, <2>1
  <2> HIDE DEF a
  <2> QED BY <2>1, <2>2, <2>3, <2>4, FailKeepsInv DEF a
<1>4. CASE FailModel
  <2>1. /\ pc = "visit" /\ files # <<>> /\ files[1] \notin visited
        /\ Fault(tree, withRaw, call) = "include_model"
        /\ visited' = visited \union {files[1]} /\ Fail("include_model") /\ UNCHANGED <<dirs, raw>>
    BY <1>4 DEF FailModel, Enters, Mark, Fault
  <2>2. Problem(tree, withRaw, a) = "include_model" /\ a \in Addresses(tree) /\ call = Node(tree, a)
    BY <2>1, Visits
  <2>3. "include_model" \in Kind /\ "include_model" # "none"
    BY DEF Kind
  <2>4. Claims(tree, visited', dirs', raw')
    <3>1. files = Node(tree, a).files
      BY <2>2
    <3>2. {} \in SUBSET Service /\ {} \in SUBSET {}
      OBVIOUS
    <3> HIDE DEF files, a
    <3>3. Claims(tree, visited \union {files[1]}, dirs, raw)
      BY <1>1, <2>1, <2>2, <3>1, <3>2, ClaimsOneMore
    <3> QED BY <2>1, <3>3
  <2> HIDE DEF a
  <2> QED BY <2>1, <2>2, <2>3, <2>4, FailKeepsInv DEF a
<1>5. CASE FailRawModel
  <2> DEFINE new == Declares(tree, files)
  <2>1. /\ pc = "visit" /\ files # <<>> /\ files[1] \notin visited
        /\ Loads(tree, call) /\ Fault(tree, withRaw, call) = "raw_model"
        /\ visited' = visited \union {files[1]} /\ dirs' = claim(dirs, new, call.dir)
        /\ Fail("raw_model") /\ UNCHANGED raw
    BY <1>5 DEF FailRawModel, Enters, Mark, Fault
  <2>2. Problem(tree, withRaw, a) = "raw_model" /\ a \in Addresses(tree) /\ call = Node(tree, a)
    BY <2>1, Visits
  <2>3. "raw_model" \in Kind /\ "raw_model" # "none"
    BY DEF Kind
  <2>4. Claims(tree, visited', dirs', raw')
    <3>1. files = Node(tree, a).files
      BY <2>2
    <3> HIDE DEF files, a
    <3>2. new \in SUBSET Service /\ {} \in SUBSET new
      BY <1>1, <2>1, DeclaresServices DEF Loads, files
    <3> HIDE DEF new
    <3>3. Claims(tree, visited \union {files[1]}, claim(dirs, new, call.dir), raw)
      BY <1>1, <2>1, <2>2, <3>1, <3>2, ClaimsOneMore
    <3> QED BY <2>1, <3>3
  <2> HIDE DEF a
  <2> QED BY <2>1, <2>2, <2>3, <2>4, FailKeepsInv DEF a
<1>12. CASE FailIncludes
  <2> DEFINE new == Declares(tree, files)
  <2> DEFINE bodied == DeclaresRaw(tree, files)
  <2>1. /\ pc = "visit" /\ files # <<>> /\ files[1] \notin visited
        /\ Loads(tree, call) /\ Fault(tree, withRaw, call) = "include_decode"
        /\ visited' = visited \union {files[1]} /\ dirs' = claim(dirs, new, call.dir)
        /\ raw' = IF withRaw THEN claim(raw, bodied, files) ELSE raw
        /\ Fail("include_decode")
    BY <1>12 DEF FailIncludes, Enters, Mark, Claim, Fault
  <2>2. Problem(tree, withRaw, a) = "include_decode" /\ a \in Addresses(tree) /\ call = Node(tree, a)
    BY <2>1, Visits
  <2>3. "include_decode" \in Kind /\ "include_decode" # "none"
    BY DEF Kind
  <2>4. Claims(tree, visited', dirs', raw')
    <3>1. files = Node(tree, a).files
      BY <2>2
    <3> HIDE DEF files, a
    <3>2. new \in SUBSET Service /\ bodied \in SUBSET new
      BY <1>1, <2>1, DeclaresServices DEF Loads, files
    <3> HIDE DEF new, bodied
    <3>3. /\ Claims(tree, visited \union {files[1]}, claim(dirs, new, call.dir), raw)
          /\ Claims(tree, visited \union {files[1]}, claim(dirs, new, call.dir), claim(raw, bodied, files))
      BY <1>1, <2>1, <2>2, <3>1, <3>2, ClaimsOneMore
    <3> QED BY <2>1, <3>3
  <2> HIDE DEF a
  <2> QED BY <2>1, <2>2, <2>3, <2>4, FailKeepsInv DEF a
<1>6. CASE Enter
  BY <1>6, EnterKeepsInv
<1>7. CASE NextInclude
  <2>1. /\ pc = "next" /\ Last(stack).taken < Len(Last(stack).includes)
        /\ call' = resolveInclude(tree, Last(stack).dir, Last(stack).includes[Last(stack).taken + 1])
        /\ stack' = [stack EXCEPT ![Len(stack)].taken = @ + 1] /\ pc' = "visit"
        /\ UNCHANGED <<tree, withRaw, visited, dirs, raw, error>>
    BY <1>7 DEF NextInclude, HasMore
  <2>2. AtNext(tree, withRaw, stack, visited, dirs, raw) /\ error = "none"
    BY <1>0, <2>1 DEF InvOf, Typed
  <2>3. AtVisit(tree, withRaw, stack', call', visited, dirs, raw)
    BY <1>1, <2>1, <2>2, NextIncludeVisits
  <2>4. Typed(tree', withRaw', pc', error')
    BY <1>1, <2>1, <2>2 DEF Typed, Kind
  <2>5. InvOf(tree', withRaw', pc', call', stack', visited', dirs', raw', error')
    BY <1>1, <2>1, <2>3, <2>4 DEF InvOf
  <2> QED BY <2>5, InvIsOfValues
<1>8. CASE Return
  <2>1. /\ pc = "next" /\ ~(Last(stack).taken < Len(Last(stack).includes))
        /\ stack' = Front(stack) /\ pc' = IF Len(stack) = 1 THEN "check" ELSE "next"
        /\ UNCHANGED <<tree, withRaw, call, visited, dirs, raw, error>>
    BY <1>8 DEF Return, HasMore
  <2>2. AtNext(tree, withRaw, stack, visited, dirs, raw) /\ error = "none"
    BY <1>0, <2>1 DEF InvOf, Typed
  <2>3. IF Len(stack) = 1 THEN stack' = <<>> /\ Walked(tree, withRaw, Addresses(tree), visited, dirs, raw)
        ELSE AtNext(tree, withRaw, stack', visited, dirs, raw)
    BY <1>1, <2>1, <2>2, ReturnLeaves
  <2>4. Typed(tree', withRaw', pc', error')
    BY <1>1, <2>1, <2>2 DEF Typed, Kind
  <2>5. InvOf(tree', withRaw', pc', call', stack', visited', dirs', raw', error')
    BY <1>1, <2>1, <2>3, <2>4 DEF InvOf
  <2> QED BY <2>5, InvIsOfValues
<1>9. CASE FailMissing
  <2>1. /\ pc = "check" /\ ~(tree.services \subseteq DOMAIN dirs)
        /\ Fail("service_dir_missing") /\ UNCHANGED <<visited, dirs, raw>>
    BY <1>9 DEF FailMissing
  <2>2. tree' = tree /\ withRaw' = withRaw /\ pc' = "err" /\ error' = "service_dir_missing"
    BY <2>1 DEF Fail
  <2>3. Walked(tree, withRaw, Addresses(tree), visited, dirs, raw)
    BY <1>0, <2>1 DEF InvOf
  <2>4. AtErr(tree, withRaw, "service_dir_missing", dirs)
    BY <2>1, <2>3 DEF AtErr, Walked
  <2>5. Typed(tree', withRaw', pc', error')
    BY <1>1, <2>2 DEF Typed, Kind
  <2>6. InvOf(tree', withRaw', pc', call', stack', visited', dirs', raw', error')
    BY <1>1, <2>1, <2>2, <2>4, <2>5 DEF InvOf
  <2> QED BY <2>6, InvIsOfValues
<1>10. CASE Found
  <2>1. /\ pc = "check" /\ tree.services \subseteq DOMAIN dirs
        /\ tree' = tree /\ stack' = stack /\ raw' = raw /\ error' = error
    BY <1>10 DEF Found
  <2>2. stack = <<>> /\ Walked(tree, withRaw, Addresses(tree), visited, dirs, raw) /\ error = "none"
    BY <1>0, <2>1 DEF InvOf, Typed
  <2>3. CASE withRaw
    <3>1. pc' = "ok" /\ withRaw' = withRaw /\ visited' = visited /\ dirs' = dirs
      BY <1>10, <2>3 DEF Found
    <3>2. Typed(tree', withRaw', pc', error')
      BY <1>1, <2>1, <2>2, <3>1 DEF Typed, Kind
    <3>3. InvOf(tree', withRaw', pc', call', stack', visited', dirs', raw', error')
      BY <1>1, <2>1, <2>2, <3>1, <3>2 DEF InvOf
    <3> QED BY <3>3, InvIsOfValues
  <2>4. CASE ~withRaw
    <3>1. pc' = "visit" /\ withRaw' = TRUE /\ call' = Start(tree) /\ visited' = {} /\ dirs' = Unclaimed
      BY <1>10, <2>4 DEF Found
    <3>2. DOMAIN raw = {}
      BY <2>2, <2>4 DEF Walked
    <3>3. AtVisit(tree, withRaw', stack, call', visited', dirs', raw) /\ Claims(tree, visited', dirs', raw)
      <4> HIDE DEF Unclaimed
      <4> QED BY <1>1, <2>2, <3>1, <3>2, AtStart
    <3>4. Typed(tree', withRaw', pc', error')
      BY <1>1, <2>1, <2>2, <3>1 DEF Typed, Kind
    <3>5. InvOf(tree', withRaw', pc', call', stack', visited', dirs', raw', error')
      BY <2>1, <3>1, <3>3, <3>4 DEF InvOf
    <3> QED BY <3>5, InvIsOfValues
  <2> QED BY <2>3, <2>4
<1>11. CASE UNCHANGED vars
  <2>1. InvOf(tree', withRaw', pc', call', stack', visited', dirs', raw', error')
    BY <1>0, <1>11 DEF vars
  <2> QED BY <2>1, InvIsOfValues
<1> QED BY <1>2, <1>3, <1>4, <1>5, <1>6, <1>7, <1>8, <1>9, <1>10, <1>11, <1>12
        DEF Next, Finished

\* Throughout a walk, what has been claimed is what the visits past claim, in their order.
THEOREM WalkIsInOrder == Spec => []WalkInv
<1>1. Init => WalkInv
  BY WalkInvInit
<1>2. WalkInv /\ [Next]_vars => WalkInv'
  BY WalkInvStep
<1> QED BY <1>1, <1>2, PTL DEF Spec
-----------------------------------------------------------------------------
\* The earliest of a set of addresses is the one before the others, if there is one.
LEMMA EarliestIs ==
    ASSUME NEW as \in SUBSET Seq(Nat), NEW o \in as, \A b \in as \ {o} : Before(o, b)
    PROVE  Earliest(as) = o
<1> DEFINE e == CHOOSE a \in as : \A b \in as \ {a} : Before(a, b)
<1>1. e \in as /\ \A b \in as \ {e} : Before(e, b)
  OBVIOUS
<1>2. Earliest(as) = e
  BY DEF Earliest
<1> HIDE DEF e
<1>3. e = o
  <2> SUFFICES ASSUME e # o PROVE FALSE
    OBVIOUS
  <2>1. o \in as \ {e} /\ e \in as \ {o}
    BY <1>1
  <2>2. Before(e, o) /\ Before(o, e)
    BY <1>1, <2>1
  <2>3. e \in Seq(Nat) /\ o \in Seq(Nat)
    BY <1>1
  <2> QED BY <2>2, <2>3, BeforeIsStrict
<1> QED BY <1>2, <1>3

\* Both maps only ever hold services, owned by something the walk has read.
THEOREM IncludeTypes == Spec => []IncludeTypeOK
<1>1. WalkInv => IncludeTypeOK
  BY DEF WalkInv
<1> QED BY <1>1, WalkIsInOrder, PTL

\* The earliest of the visits that declare s, of all there are, owns it.
LEMMA EarliestOwns ==
    ASSUME NEW t \in Trees, NEW bodied \in BOOLEAN, NEW claims,
           Owned(t, Addresses(t), claims, bodied), NEW s \in DOMAIN claims
    PROVE  claims[s] = OwnerAt(t, Earliest({a \in Addresses(t) : s \in Declared(t, a, bodied)}), bodied)
<1> DEFINE as == {a \in Addresses(t) : s \in Declared(t, a, bodied)}
<1>1. PICK o \in Addresses(t) : /\ FirstOf(t, s, Addresses(t), o, bodied)
                                /\ claims[s] = OwnerAt(t, o, bodied)
  BY DEF Owned
<1>2. as \in SUBSET Seq(Nat)
  BY AddressFacts
<1>3. o \in as /\ \A b \in as \ {o} : Before(o, b)
  BY <1>1 DEF FirstOf
<1> HIDE DEF as
<1>4. Earliest(as) = o
  BY <1>2, <1>3, EarliestIs
<1> QED BY <1>1, <1>4 DEF as

\* Each service ends up with the directory of the first visit to declare it, and
\* LoadRawServices keeps the first declaration that has a body.
THEOREM FirstDeclarerOwns == Spec => []OwnerIsFirstDeclarer
<1>1. WalkInv => OwnerIsFirstDeclarer
  <2> SUFFICES ASSUME WalkInv, pc \in {"check", "ok"} PROVE OwnerIsFirstDeclarer
    BY DEF OwnerIsFirstDeclarer
  <2>1. tree \in Trees /\ Walked(tree, withRaw, Addresses(tree), visited, dirs, raw)
    BY DEF WalkInv, IncludeTypeOK
  <2>2. Owned(tree, Addresses(tree), dirs, FALSE)
    BY <2>1 DEF Walked
  <2>3. withRaw => Owned(tree, Addresses(tree), raw, TRUE)
    BY <2>1 DEF Walked
  <2>4. DOMAIN dirs = UNION {Declares(tree, Node(tree, a).files) : a \in Addresses(tree)}
    BY <2>2 DEF Owned, Declared
  <2>5. ASSUME NEW s \in DOMAIN dirs PROVE dirs[s] = Node(tree, Earliest(Declarers(tree, s))).dir
    <3>1. {a \in Addresses(tree) : s \in Declared(tree, a, FALSE)} = Declarers(tree, s)
      BY DEF Declared, Declarers
    <3>2. dirs[s] = OwnerAt(tree, Earliest({a \in Addresses(tree) : s \in Declared(tree, a, FALSE)}), FALSE)
      BY <2>1, <2>2, EarliestOwns
    <3> QED BY <3>1, <3>2, Zenon DEF OwnerAt
  <2>6. ASSUME withRaw
        PROVE  DOMAIN raw = UNION {DeclaresRaw(tree, Node(tree, a).files) : a \in Addresses(tree)}
    BY <2>3, <2>6 DEF Owned, Declared
  <2>7. ASSUME withRaw, NEW s \in DOMAIN raw
        PROVE  raw[s] = Node(tree, Earliest(RawDeclarers(tree, s))).files
    <3>1. {a \in Addresses(tree) : s \in Declared(tree, a, TRUE)} = RawDeclarers(tree, s)
      BY DEF Declared, RawDeclarers
    <3>2. raw[s] = OwnerAt(tree, Earliest({a \in Addresses(tree) : s \in Declared(tree, a, TRUE)}), TRUE)
      BY <2>1, <2>3, <2>7, EarliestOwns
    <3> QED BY <3>1, <3>2, Zenon DEF OwnerAt
  <2> QED BY <2>4, <2>5, <2>6, <2>7 DEF OwnerIsFirstDeclarer
<1> QED BY <1>1, WalkIsInOrder, PTL

\* A walk succeeds exactly when no include has a problem and each service is found, and
\* otherwise fails with the problem that comes first.
THEOREM FirstProblemReported == Spec => []ReportsFirstProblem
<1>1. WalkInv => ReportsFirstProblem
  <2> DEFINE problems == {a \in Addresses(tree) : Problem(tree, withRaw, a) # "none"}
  <2> SUFFICES ASSUME WalkInv, Ended
               PROVE  error = IF problems # {} THEN Problem(tree, withRaw, Earliest(problems))
                              ELSE IF tree.services \subseteq DOMAIN dirs THEN "none"
                              ELSE "service_dir_missing"
    BY DEF ReportsFirstProblem
  <2>1. tree \in Trees /\ (error = "none" <=> pc # "err")
    BY DEF WalkInv, IncludeTypeOK
  <2>2. CASE pc = "ok"
    <3>1. Walked(tree, withRaw, Addresses(tree), visited, dirs, raw) /\ tree.services \subseteq DOMAIN dirs
      BY <2>2 DEF WalkInv
    <3>2. problems = {}
      BY <3>1 DEF Walked
    <3> QED BY <2>1, <2>2, <3>1, <3>2
  <2>3. CASE pc = "err"
    <3>1. AtErr(tree, withRaw, error, dirs)
      BY <2>3 DEF WalkInv
    <3>2. CASE \E a \in Addresses(tree) : FailedAt(tree, withRaw, error, a)
      <4>1. PICK a \in Addresses(tree) : FailedAt(tree, withRaw, error, a)
        BY <3>2
      <4>2. Problem(tree, withRaw, a) = error /\ a \in problems
        BY <4>1 DEF FailedAt
      <4>3. problems \in SUBSET Seq(Nat)
        BY <2>1, AddressFacts
      <4>4. ASSUME NEW b \in problems \ {a} PROVE Before(a, b)
        <5>1. b \in Addresses(tree) /\ ~Before(b, a)
          BY <4>1 DEF FailedAt, Past
        <5>2. a \in Seq(Nat) /\ b \in Seq(Nat) /\ a # b
          BY <4>2, <4>3
        <5> QED BY <5>1, <5>2, BeforeIsTotal
      <4> HIDE DEF problems
      <4>5. Earliest(problems) = a
        BY <4>2, <4>3, <4>4, EarliestIs
      <4> QED BY <4>2, <4>5
    <3>3. CASE /\ \A a \in Addresses(tree) : Problem(tree, withRaw, a) = "none"
               /\ error = "service_dir_missing" /\ ~(tree.services \subseteq DOMAIN dirs)
      BY <3>3
    <3> QED BY <3>1, <3>2, <3>3 DEF AtErr
  <2> QED BY <2>2, <2>3 DEF Ended
<1> QED BY <1>1, WalkIsInOrder, PTL
=============================================================================
