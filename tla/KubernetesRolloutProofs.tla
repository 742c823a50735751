---------------------- MODULE KubernetesRolloutProofs ----------------------
(***************************************************************************)
(* Theorems about one service deployed over and over, for every set of      *)
(* inputs and however often: what the pods have read is what was deployed.  *)
(***************************************************************************)
EXTENDS KubernetesRollout, InductionLemmas

-----------------------------------------------------------------------------
(* The resolver's split of the environment, of any input.                   *)

\* The one order the keys are met in.
Sorted(names) == Those(NameOrder, names)

\* The variables of the input: where each comes from, and what it is worth.
Worth(in, k) == Interpolated(k, Source(in, k), in.host)

\* What resolveEnvironment should give: every value is in one of the two places and as it
\* should be; and which place it is, for what the declaring file says itself.
IsSplit(in, split) ==
    \A k :
        LET inline == k \in Names(split.env)
            hidden == k \in DOMAIN split.secretEnv
        IN /\ Unmixed(in.service, k) =>
                 /\ inline => LastNamed(split.env, k).value = Worth(in, k)
                 /\ hidden => split.secretEnv[k] = Worth(in, k)
                 /\ Worth(in, k) # Nil <=> inline \/ hidden
                 /\ GivenHere(in.service, k) =>
                       (inline <=> Worth(in, k) # Nil /\ Source(in, k).from \in {"literal", "ref"})
           /\ inline /\ k \notin Names(in.service.env) => Source(in, k).from = "literal"

\* The names of a sequence of entries.
LEMMA NamesOf ==
    ASSUME NEW env
    PROVE  Names(env) = {e.name : e \in ToSet(env)}
<1>1. ASSUME NEW k \in Names(env) PROVE k \in {e.name : e \in ToSet(env)}
  BY DEF Names, ToSet
<1>2. ASSUME NEW e \in ToSet(env) PROVE e.name \in Names(env)
  BY DEF Names, ToSet
<1> QED BY <1>1, <1>2

\* The last entry of a name.
LEMMA LastEntry ==
    ASSUME NEW S, NEW env \in Seq(S), NEW k \in Names(env)
    PROVE  \E l : IsLast(env, Named(ToSet(env), k), l) /\ LastNamed(env, k) = env[l]
<1>1. PICK e \in ToSet(env) : e \in Named(ToSet(env), k)
  BY NamesOf DEF Named
<1>2. PICK l : IsLast(env, Named(ToSet(env), k), l)
  BY <1>1, LastExists
<1> QED BY <1>2, LastAt DEF LastNamed

\* It has that name and is one of the entries.
LEMMA LastIsNamed ==
    ASSUME NEW S, NEW env \in Seq(S), NEW k \in Names(env)
    PROVE  LastNamed(env, k) \in ToSet(env) /\ LastNamed(env, k).name = k
<1>1. PICK l : IsLast(env, Named(ToSet(env), k), l) /\ LastNamed(env, k) = env[l]
  BY LastEntry
<1> QED BY <1>1 DEF IsLast, Named

\* A name that has no entry there is compose's, or nobody's.
LEMMA NoEntry ==
    ASSUME NEW in, NEW k, k \notin Names(in.service.env)
    PROVE  Source(in, k) = IF k \in DOMAIN in.service.environment
                           THEN in.service.environment[k] ELSE [from |-> "nowhere", value |-> Nil]
  BY DEF Source

\* A list whose entries end the list of another: the last of a name is the same.
LEMMA TailKeepsLast ==
    ASSUME NEW S, NEW env \in Seq(S), NEW n \in 0..Len(env), NEW V, NEW j,
           SubSeq(env, n + 1, Len(env))[j] \in V, j \in DOMAIN SubSeq(env, n + 1, Len(env))
    PROVE  LastIn(SubSeq(env, n + 1, Len(env)), V) = LastIn(env, V)
<1> DEFINE m == Len(env)
<1> DEFINE tail == SubSeq(env, n + 1, m)
<1>1. m \in Nat /\ DOMAIN env = 1..m /\ n \in 0..m
  OBVIOUS
<1>2. tail \in Seq(S) /\ DOMAIN tail = 1..(m - n) /\ \A i \in 1..(m - n) : tail[i] = env[i + n]
  OBVIOUS
<1> HIDE DEF tail, m
<1>3. j \in 1..(m - n) /\ tail[j] \in V
  BY <1>2 DEF tail, m
<1>4. j + n \in 1..m /\ env[j + n] \in V
  BY <1>1, <1>2, <1>3
<1>5. PICK l : IsLast(env, V, l)
  <2>1. env[j + n] \in ToSet(env)
    BY <1>1, <1>4 DEF ToSet
  <2> QED BY <1>4, <2>1, LastExists
<1>6. l \in 1..m /\ j + n <= l /\ env[l] \in V /\ \A i \in 1..m : env[i] \in V => i <= l
  BY <1>1, <1>4, <1>5 DEF IsLast
<1>7. l - n \in 1..(m - n) /\ tail[l - n] = env[l]
  <2>1. l - n \in 1..(m - n) /\ (l - n) + n = l
    BY <1>1, <1>3, <1>6
  <2> QED BY <1>2, <2>1
<1>8. IsLast(tail, V, l - n)
  <2>1. ASSUME NEW i \in 1..(m - n), tail[i] \in V PROVE i <= l - n
    <3>1. i + n \in 1..m /\ env[i + n] \in V
      BY <1>1, <1>2, <2>1
    <3> QED BY <1>1, <1>6, <3>1
  <2> QED BY <1>2, <1>6, <1>7, <2>1 DEF IsLast
<1>9. LastIn(tail, V) = env[l] /\ LastIn(env, V) = env[l]
  BY <1>2, <1>5, <1>7, <1>8, LastAt
<1> QED BY <1>9 DEF tail, m

\* Two lists, one after the other.
LEMMA LengthOfBoth ==
    ASSUME NEW A, NEW a \in Seq(A), NEW b \in Seq(A)
    PROVE  /\ a \o b \in Seq(A) /\ Len(a \o b) = Len(a) + Len(b)
           /\ \A i \in 1..(Len(a) + Len(b)) :
                  (a \o b)[i] = IF i <= Len(a) THEN a[i] ELSE b[i - Len(a)]
  OBVIOUS

\* What is in two lists, one after the other.
LEMMA InEither ==
    ASSUME NEW A, NEW B, NEW a \in Seq(A), NEW b \in Seq(B)
    PROVE  ToSet(a \o b) = ToSet(a) \union ToSet(b)
<1> DEFINE C == A \union B
<1>0. a \in Seq(C) /\ b \in Seq(C)
  OBVIOUS
<1> HIDE DEF C
<1> DEFINE c == a \o b
<1>1. /\ Len(a) \in Nat /\ Len(b) \in Nat /\ DOMAIN a = 1..Len(a) /\ DOMAIN b = 1..Len(b)
      /\ DOMAIN c = 1..(Len(a) + Len(b))
      /\ \A i \in 1..(Len(a) + Len(b)) : c[i] = IF i <= Len(a) THEN a[i] ELSE b[i - Len(a)]
  BY <1>0
<1> HIDE DEF c
<1>2. ASSUME NEW x \in ToSet(c) PROVE x \in ToSet(a) \union ToSet(b)
  <2>1. PICK i \in DOMAIN c : x = c[i]
    BY DEF ToSet
  <2>2. CASE i <= Len(a)
    BY <1>1, <2>1, <2>2 DEF ToSet
  <2>3. CASE ~(i <= Len(a))
    <3>1. i - Len(a) \in DOMAIN b /\ x = b[i - Len(a)]
      BY <1>1, <2>1, <2>3
    <3> QED BY <3>1 DEF ToSet
  <2> QED BY <2>2, <2>3
<1>3. ASSUME NEW x \in ToSet(a) PROVE x \in ToSet(c)
  <2>1. PICK i \in DOMAIN a : x = a[i]
    BY DEF ToSet
  <2>2. i \in DOMAIN c /\ c[i] = x
    BY <1>1, <2>1
  <2> QED BY <2>2 DEF ToSet
<1>4. ASSUME NEW x \in ToSet(b) PROVE x \in ToSet(c)
  <2>1. PICK i \in DOMAIN b : x = b[i]
    BY DEF ToSet
  <2>2. i + Len(a) \in DOMAIN c /\ c[i + Len(a)] = x
    BY <1>1, <2>1
  <2> QED BY <2>2 DEF ToSet
<1> QED BY <1>2, <1>3, <1>4 DEF c

\* What is looked for is in the first of two lists only: so is the last of it.
LEMMA LastInFirst ==
    ASSUME NEW C, NEW a \in Seq(C), NEW b \in Seq(C), NEW V, NEW m, IsLast(a, V, m),
           \A j \in DOMAIN b : b[j] \notin V
    PROVE  LastIn(a \o b, V) = a[m]
<1> DEFINE c == a \o b
<1>1. /\ Len(a) \in Nat /\ Len(b) \in Nat /\ DOMAIN a = 1..Len(a) /\ DOMAIN b = 1..Len(b)
      /\ c \in Seq(C) /\ DOMAIN c = 1..(Len(a) + Len(b))
      /\ \A i \in 1..(Len(a) + Len(b)) : c[i] = IF i <= Len(a) THEN a[i] ELSE b[i - Len(a)]
  OBVIOUS
<1> HIDE DEF c
<1>2. m \in 1..Len(a) /\ a[m] \in V /\ \A j \in 1..Len(a) : a[j] \in V => j <= m
  BY <1>1 DEF IsLast
<1>3. m \in DOMAIN c /\ c[m] = a[m]
  BY <1>1, <1>2
<1>4. ASSUME NEW j \in DOMAIN c, c[j] \in V PROVE j <= m
  <2>1. j <= Len(a)
    <3> SUFFICES ASSUME ~(j <= Len(a)) PROVE FALSE
      OBVIOUS
    <3>1. j - Len(a) \in DOMAIN b /\ c[j] = b[j - Len(a)]
      BY <1>1
    <3> QED BY <1>4, <3>1
  <2>2. j \in 1..Len(a) /\ a[j] \in V
    BY <1>1, <1>4, <2>1
  <2> QED BY <1>2, <2>2
<1>5. IsLast(c, V, m)
  BY <1>2, <1>3, <1>4 DEF IsLast
<1>6. LastIn(c, V) = c[m]
  BY <1>1, <1>5, LastAt
<1> QED BY <1>3, <1>6 DEF c

\* The sorted keys are all of them.
LEMMA SortedKeys ==
    ASSUME NEW names, names \subseteq ToSet(NameOrder)
    PROVE  Sorted(names) \in Seq(ToSet(NameOrder)) /\ ToSet(Sorted(names)) = names
<1>1. NameOrder \in Seq(ToSet(NameOrder))
  BY InputsAssumption
<1>2. /\ Those(NameOrder, names) \in Seq(ToSet(NameOrder))
      /\ ToSet(Those(NameOrder, names)) = ToSet(NameOrder) \intersect names
  BY <1>1, ThoseAreWanted
<1> QED BY <1>2 DEF Sorted

\* What a name of the extension is worth: its last entry.
LEMMA EntryWorth ==
    ASSUME NEW in \in Inputs, NEW k \in Names(in.service.env)
    PROVE  LET e == LastNamed(in.service.env, k)
           IN /\ e \in ToSet(in.service.env) /\ e.name = k /\ Source(in, k) = e.source
              /\ Worth(in, k) = Interpolated(k, e.source, in.host) /\ Worth(in, k) # Nil
              /\ e.source.from \in {"literal", "template", "ref"}
<1> DEFINE e == LastNamed(in.service.env, k)
<1>1. in.service.env \in Seq(ToSet(in.service.env))
  BY InputsAssumption
<1>2. e \in ToSet(in.service.env) /\ e.name = k
  BY <1>1, LastIsNamed
<1>3. Source(in, k) = e.source
  BY DEF Source
<1> HIDE DEF e
<1>4. e.source.from \in {"literal", "template", "ref"} /\ e.source.value # Nil
  BY <1>2, InputsAssumption
<1>5. (\A v \in DOMAIN in.host : in.host[v] # Nil) /\ Nil # ""
  BY InputsAssumption
<1>6. Interpolated(k, e.source, in.host) # Nil
  BY <1>4, <1>5 DEF Interpolated
<1> QED BY <1>2, <1>3, <1>4, <1>6 DEF Worth, e

\* A name that the extension does not give, and what the host is the source of then.
LEMMA ComposeSecret ==
    ASSUME NEW in \in Inputs, NEW k, k \notin Names(in.service.env)
    PROVE  LET s == in.service
               worth == Interpolated(k, s.environment[k], in.host)
           IN /\ k \in hostSourcedKeys(s, in.host) <=>
                    /\ k \in DOMAIN s.environment /\ worth # Nil
                    /\ k \notin LiteralEnvKeys(s.raw.environment)
              /\ k \in LiteralEnvKeys(s.raw.environment) =>
                    k \in DOMAIN s.environment /\ s.environment[k].from = "literal"
              /\ k \in DOMAIN s.environment /\ s.environment[k].from = "literal" /\ GivenHere(s, k)
                    => k \in LiteralEnvKeys(s.raw.environment)
<1> DEFINE s == in.service
<1> DEFINE given == {e.name : e \in Strings(s.raw.env)}
<1>1. k \notin given
  <2>1. PICK n \in 0..Len(s.env) : s.raw.env = SubSeq(s.env, n + 1, Len(s.env))
    BY InputsAssumption
  <2>2. s.env \in Seq(ToSet(s.env))
    BY InputsAssumption
  <2>3. ToSet(s.raw.env) \subseteq ToSet(s.env)
    <3> DEFINE env == s.env
    <3> DEFINE m == Len(env)
    <3>1. env \in Seq(ToSet(env)) /\ n \in 0..m /\ m \in Nat /\ DOMAIN env = 1..m
      BY <2>2
    <3>2. DOMAIN SubSeq(env, n + 1, m) = 1..(m - n)
          /\ \A i \in 1..(m - n) : SubSeq(env, n + 1, m)[i] = env[i + n] /\ i + n \in 1..m
      <4> HIDE DEF env
      <4> QED BY <3>1
    <3> HIDE DEF m
    <3> QED BY <2>1, <3>1, <3>2 DEF ToSet, m
  <2>4. \A e \in ToSet(s.env) : e.name # k
    BY NamesOf
  <2> QED BY <2>3, <2>4 DEF Strings
<1>2. k \in hostSourcedKeys(s, in.host) <=> k \in hostSourcedByCompose(s, in.host)
  BY <1>1 DEF hostSourcedKeys
<1>3. k \in LiteralEnvKeys(s.raw.environment) =>
          k \in DOMAIN s.environment /\ s.environment[k].from = "literal"
  BY InputsAssumption DEF LiteralEnvKeys
<1>4. k \in DOMAIN s.environment /\ s.environment[k].from = "literal" /\ GivenHere(s, k)
          => k \in LiteralEnvKeys(s.raw.environment)
  BY InputsAssumption DEF LiteralEnvKeys, GivenHere
<1> QED BY <1>2, <1>3, <1>4 DEF hostSourcedByCompose

\* A value that the declaring file's extension gives is the host's if its last entry is.
LEMMA GivenSecret ==
    ASSUME NEW in \in Inputs, NEW k \in Names(in.service.raw.env), k \in Names(in.service.env),
           \A e \in Named(ToSet(in.service.env), k) : e.source.from # "ref"
    PROVE  k \in hostSourcedKeys(in.service, in.host) <=>
               LastNamed(in.service.env, k).source.from = "template"
<1> DEFINE s == in.service
<1> DEFINE env == s.env
<1> DEFINE raw == s.raw.env
<1> DEFINE V == Named(ToSet(env), k)
<1> DEFINE W == Named(Strings(raw), k)
<1>1. env \in Seq(ToSet(env))
  BY InputsAssumption
<1>2. PICK n \in 0..Len(env) : raw = SubSeq(env, n + 1, Len(env))
  BY InputsAssumption
<1>3. ToSet(raw) \subseteq ToSet(env)
  <2> DEFINE m == Len(env)
  <2>1. n \in 0..m /\ m \in Nat /\ DOMAIN env = 1..m
    BY <1>1
  <2>2. DOMAIN SubSeq(env, n + 1, m) = 1..(m - n)
        /\ \A i \in 1..(m - n) : SubSeq(env, n + 1, m)[i] = env[i + n] /\ i + n \in 1..m
    <3> HIDE DEF env
    <3> QED BY <1>1, <2>1
  <2> HIDE DEF m
  <2> QED BY <1>2, <2>1, <2>2 DEF ToSet, m
<1>4. PICK j \in DOMAIN raw : raw[j].name = k
  BY DEF Names
<1>5. raw[j] \in W /\ raw[j] \in V
  <2>1. raw[j] \in ToSet(raw) /\ raw[j] \in ToSet(env)
    BY <1>3, <1>4 DEF ToSet
  <2>2. raw[j].source.from # "ref"
    BY <1>4, <2>1 DEF Named
  <2> QED BY <1>4, <2>1, <2>2 DEF Named, Strings
<1> DEFINE x == LastIn(raw, W)
<1>6. x = LastNamed(env, k)
  <2>1. LastIn(raw, V) = LastIn(env, V)
    <3> HIDE DEF V, env, raw
    <3>1. SubSeq(env, n + 1, Len(env))[j] \in V /\ j \in DOMAIN SubSeq(env, n + 1, Len(env))
      BY <1>2, <1>4, <1>5
    <3>2. LastIn(SubSeq(env, n + 1, Len(env)), V) = LastIn(env, V)
      BY <1>1, <3>1, TailKeepsLast
    <3> QED BY <1>2, <3>2
  <2>2. \A i \in DOMAIN raw : raw[i] \in V <=> raw[i] \in W
    <3>1. \A i \in DOMAIN raw : raw[i] \in ToSet(raw)
      BY DEF ToSet
    <3>2. \A e \in ToSet(raw) : e \in V <=> e \in W
      BY <1>3 DEF Named, Strings
    <3> HIDE DEF V, W, raw
    <3> QED BY <3>1, <3>2
  <2>3. LastIn(raw, V) = LastIn(raw, W)
    <3> HIDE DEF V, W, raw
    <3> QED BY <2>2 DEF LastIn
  <2> QED BY <2>1, <2>3 DEF LastNamed
<1>7. k \in {e.name : e \in Strings(raw)}
  BY <1>5 DEF Named
<1> DEFINE given == {e.name : e \in Strings(raw)}
<1> DEFINE last(y) == LastIn(raw, Named(Strings(raw), y))
<1>8. hostSourcedKeys(s, in.host) =
          (hostSourcedByCompose(s, in.host) \ given)
          \union {y \in given : last(y).source.from = "template"}
  BY DEF hostSourcedKeys
<1>9. last(k) = x
  OBVIOUS
<1> HIDE DEF last, given, x, env
<1>10. k \in hostSourcedKeys(s, in.host) <=> last(k).source.from = "template"
  BY <1>7, <1>8 DEF given
<1> QED BY <1>6, <1>9, <1>10 DEF env

\* The entries that the code takes out of the extension's, compose's own variables, and
\* what it makes of them.
Moved(in) == {e \in Strings(in.service.env) : e.name \in hostSourcedKeys(in.service, in.host)}
OwnValue(in, k) == Interpolated(k, in.service.environment[k], in.host)
Own(in) == {k \in DOMAIN in.service.environment : OwnValue(in, k) # Nil} \ Names(in.service.env)
SplitFor(in) ==
    resolveEnvironment(in.service, in.host, Sorted(DOMAIN in.service.environment))

\* What the Secret has.
LEMMA SecretPart ==
    ASSUME NEW in
    PROVE  LET data == SplitFor(in).secretEnv
               own == Own(in) \intersect hostSourcedKeys(in.service, in.host)
           IN /\ DOMAIN data = own \union {e.name : e \in Moved(in)}
              /\ \A k \in own : data[k] = OwnValue(in, k)
              /\ \A k \in {e.name : e \in Moved(in)} \ own :
                    data[k] = Interpolated(k, LastIn(in.service.env, Named(Moved(in), k)).source, in.host)
<1> DEFINE own == Own(in) \intersect hostSourcedKeys(in.service, in.host)
<1> DEFINE f == [k \in own |-> OwnValue(in, k)]
<1> DEFINE g == [k \in {e.name : e \in Moved(in)} |->
                    Interpolated(k, LastIn(in.service.env, Named(Moved(in), k)).source, in.host)]
<1>1. SplitFor(in).secretEnv = Over(f, g)
  BY DEF SplitFor, resolveEnvironment, Own, OwnValue, Moved
<1> HIDE DEF own
<1>2. /\ DOMAIN Over(f, g) = DOMAIN f \union DOMAIN g
      /\ \A k \in DOMAIN f \union DOMAIN g : Over(f, g)[k] = IF k \in DOMAIN f THEN f[k] ELSE g[k]
  BY DEF Over
<1> QED BY <1>1, <1>2 DEF own

\* What the manifest has: the extension's other entries, as kept, and compose's other
\* variables, in this order.
IsInline(in, a, b, kept) ==
    LET env == in.service.env
    IN /\ SplitFor(in).env = a \o b
       /\ kept = Those(env, ToSet(env) \ Moved(in)) /\ kept \in Seq(ToSet(env))
       /\ ToSet(kept) = ToSet(env) \ Moved(in)
       /\ a \in Seq(ToSet(a) \union ToSet(b)) /\ b \in Seq(ToSet(a) \union ToSet(b))
       /\ DOMAIN a = DOMAIN kept
       /\ \A i \in DOMAIN kept :
             a[i] = Entry(kept[i].name, Interpolated(kept[i].name, kept[i].source, in.host))
       /\ ToSet(b) = {Entry(k, OwnValue(in, k)) :
                         k \in Own(in) \ hostSourcedKeys(in.service, in.host)}

LEMMA InlinePart ==
    ASSUME NEW in \in Inputs
    PROVE  \E a, b, kept : IsInline(in, a, b, kept)
<1> DEFINE env == in.service.env
<1> DEFINE environment == in.service.environment
<1> DEFINE order == Sorted(DOMAIN environment)
<1> DEFINE secret == hostSourcedKeys(in.service, in.host)
<1> DEFINE kept == Those(env, ToSet(env) \ Moved(in))
<1> DEFINE inline == Those(order, Own(in) \ secret)
<1> DEFINE a == [i \in DOMAIN kept |->
                    Entry(kept[i].name, Interpolated(kept[i].name, kept[i].source, in.host))]
<1> DEFINE b == [i \in DOMAIN inline |-> Entry(inline[i], OwnValue(in, inline[i]))]
<1>1. SplitFor(in).env = a \o b
  BY DEF SplitFor, resolveEnvironment, Own, OwnValue, Moved
<1>2. env \in Seq(ToSet(env)) /\ DOMAIN environment \subseteq ToSet(NameOrder)
  BY InputsAssumption
<1>3. kept \in Seq(ToSet(env)) /\ ToSet(kept) = ToSet(env) \ Moved(in)
  <2> HIDE DEF env
  <2> QED BY <1>2, ThoseAreWanted
<1>4. inline \in Seq(ToSet(NameOrder)) /\ ToSet(inline) = Own(in) \ secret
  <2>1. order \in Seq(ToSet(NameOrder)) /\ ToSet(order) = DOMAIN environment
    BY <1>2, SortedKeys
  <2>2. Own(in) \subseteq DOMAIN environment
    BY DEF Own
  <2> HIDE DEF order, secret, environment
  <2> QED BY <2>1, <2>2, ThoseAreWanted
<1>5. /\ DOMAIN a = DOMAIN kept
      /\ \A i \in DOMAIN kept :
            a[i] = Entry(kept[i].name, Interpolated(kept[i].name, kept[i].source, in.host))
  <2> HIDE DEF kept
  <2> QED OBVIOUS
<1>6. a \in Seq(ToSet(a) \union ToSet(b)) /\ b \in Seq(ToSet(a) \union ToSet(b))
  <2> HIDE DEF kept, inline
  <2>1. Len(kept) \in Nat /\ DOMAIN kept = 1..Len(kept)
    BY <1>3
  <2>2. Len(inline) \in Nat /\ DOMAIN inline = 1..Len(inline)
    BY <1>4
  <2>3. DOMAIN a = 1..Len(kept) /\ DOMAIN b = 1..Len(inline)
    BY <2>1, <2>2
  <2>4. a = [i \in 1..Len(kept) |-> a[i]] /\ b = [i \in 1..Len(inline) |-> b[i]]
    BY <2>1, <2>2
  <2> HIDE DEF a, b
  <2> QED BY <2>1, <2>2, <2>3, <2>4 DEF ToSet
<1>7. ToSet(b) = {Entry(k, OwnValue(in, k)) : k \in Own(in) \ secret}
  <2> HIDE DEF inline, secret
  <2>1. ToSet(b) = {Entry(k, OwnValue(in, k)) : k \in ToSet(inline)}
    BY DEF ToSet
  <2> QED BY <1>4, <2>1
<1> HIDE DEF a, b, kept
<1>8. kept = Those(env, ToSet(env) \ Moved(in))
  BY DEF kept
<1>9. IsInline(in, a, b, kept)
  BY <1>1, <1>3, <1>5, <1>6, <1>7, <1>8 DEF IsInline
<1> QED BY <1>9

\* Which names those are, and with which values.
LEMMA InlineNames ==
    ASSUME NEW in \in Inputs
    PROVE  LET s == in.service
               own == Own(in) \ hostSourcedKeys(s, in.host)
               split == SplitFor(in)
           IN /\ split.env \in Seq(ToSet(split.env))
              /\ Names(split.env) = {e.name : e \in ToSet(s.env) \ Moved(in)} \union own
              /\ \A k \in own : LastNamed(split.env, k).value = OwnValue(in, k)
              /\ \A k \in Names(s.env) :
                    Named(ToSet(s.env), k) \intersect Moved(in) = {} =>
                        LastNamed(split.env, k).value
                            = Interpolated(k, LastNamed(s.env, k).source, in.host)
<1> DEFINE env == in.service.env
<1> DEFINE own == Own(in) \ hostSourcedKeys(in.service, in.host)
<1> DEFINE worth(e) == Interpolated(e.name, e.source, in.host)
<1> DEFINE wanted == ToSet(env) \ Moved(in)
<1>0. PICK a, b, kept : IsInline(in, a, b, kept)
  BY InlinePart
<1>1. /\ SplitFor(in).env = a \o b
      /\ kept = Those(env, wanted) /\ kept \in Seq(ToSet(env)) /\ ToSet(kept) = wanted
      /\ a \in Seq(ToSet(a) \union ToSet(b)) /\ b \in Seq(ToSet(a) \union ToSet(b))
      /\ DOMAIN a = DOMAIN kept
      /\ \A i \in DOMAIN kept : a[i] = Entry(kept[i].name, worth(kept[i]))
      /\ ToSet(b) = {Entry(k, OwnValue(in, k)) : k \in own}
  BY <1>0 DEF IsInline
<1> DEFINE C == ToSet(a) \union ToSet(b)
<1> DEFINE inl == SplitFor(in).env
<1>2. env \in Seq(ToSet(env))
  BY InputsAssumption
<1>3. own \intersect Names(env) = {}
  BY DEF Own
<1> HIDE DEF env, own, worth, wanted
<1>4. ToSet(a) = {Entry(e.name, worth(e)) : e \in wanted}
  BY <1>1 DEF ToSet
<1>5. ToSet(inl) = C
  BY <1>1, InEither
<1>6. inl \in Seq(ToSet(inl))
  <2>1. inl \in Seq(C)
    BY <1>1, LengthOfBoth
  <2> QED BY <1>5, <2>1
<1>7. Names(inl) = {e.name : e \in wanted} \union own
  <2>1. Names(inl) = {e.name : e \in ToSet(inl)}
    BY NamesOf
  <2>0. \A x, y : Entry(x, y).name = x
    BY DEF Entry
  <2>2. {e.name : e \in ToSet(a)} = {e.name : e \in wanted}
    <3>1. ASSUME NEW e \in ToSet(a) PROVE e.name \in {d.name : d \in wanted}
      <4>1. PICK d \in wanted : e = Entry(d.name, worth(d))
        BY <1>4
      <4> QED BY <2>0, <4>1
    <3>2. ASSUME NEW d \in wanted PROVE d.name \in {e.name : e \in ToSet(a)}
      <4>1. Entry(d.name, worth(d)) \in ToSet(a) /\ Entry(d.name, worth(d)).name = d.name
        BY <1>4, <2>0
      <4> QED BY <4>1
    <3> QED BY <3>1, <3>2
  <2>3. {e.name : e \in ToSet(b)} = own
    <3>1. ASSUME NEW e \in ToSet(b) PROVE e.name \in own
      <4>1. PICK k \in own : e = Entry(k, OwnValue(in, k))
        BY <1>1
      <4> QED BY <2>0, <4>1
    <3>2. ASSUME NEW k \in own PROVE k \in {e.name : e \in ToSet(b)}
      <4>1. Entry(k, OwnValue(in, k)) \in ToSet(b) /\ Entry(k, OwnValue(in, k)).name = k
        BY <1>1, <2>0
      <4> QED BY <4>1
    <3> QED BY <3>1, <3>2
  <2> HIDE DEF inl
  <2> QED BY <1>5, <2>1, <2>2, <2>3
<1>8. \A e \in wanted : e.name \in Names(env)
  BY NamesOf DEF wanted
<1>9. ASSUME NEW k \in own PROVE LastNamed(inl, k).value = OwnValue(in, k)
  <2> DEFINE e == LastNamed(inl, k)
  <2>1. k \in Names(inl)
    BY <1>7
  <2>2. e \in ToSet(inl) /\ e.name = k
    <3> HIDE DEF inl
    <3> QED BY <1>6, <2>1, LastIsNamed
  <2> HIDE DEF e, inl
  <2>3. e \notin ToSet(a)
    BY <1>3, <1>4, <1>8, <2>2 DEF Entry
  <2>4. PICK n \in own : e = Entry(n, OwnValue(in, n))
    BY <1>1, <1>5, <2>2, <2>3
  <2> QED BY <2>2, <2>4 DEF Entry, e
<1>10. ASSUME NEW k \in Names(env), Named(ToSet(env), k) \intersect Moved(in) = {}
       PROVE  LastNamed(inl, k).value = Interpolated(k, LastNamed(env, k).source, in.host)
  <2> DEFINE V == Named(ToSet(env), k)
  <2> DEFINE U == Named(ToSet(inl), k)
  <2>1. PICK l : IsLast(env, V, l) /\ LastNamed(env, k) = env[l]
    BY <1>2, LastEntry
  <2>2. V \subseteq wanted
    BY <1>10 DEF Named, wanted
  <2>3. PICK m : IsLast(kept, V, m) /\ kept[m] = env[l]
    <3> HIDE DEF V
    <3>1. \E m : IsLast(Those(env, wanted), V, m) /\ Those(env, wanted)[m] = env[l]
      BY <1>2, <2>1, <2>2, ThoseKeepLast
    <3>2. kept = Those(env, wanted)
      BY <1>1
    <3> QED BY <3>1, <3>2
  <2>4. \A i \in DOMAIN a : a[i] \in U <=> kept[i] \in V
    <3>1. ASSUME NEW i \in DOMAIN a PROVE a[i] \in U <=> kept[i] \in V
      <4>1. a[i] \in ToSet(inl) /\ kept[i] \in ToSet(env) /\ a[i].name = kept[i].name
        <5>1. a[i] \in ToSet(a) /\ kept[i] \in ToSet(kept) /\ a[i] = Entry(kept[i].name, worth(kept[i]))
          BY <1>1 DEF ToSet
        <5> QED BY <1>1, <1>5, <5>1 DEF Entry, wanted
      <4> QED BY <4>1 DEF Named
    <3> QED BY <3>1
  <2>5. \A j \in DOMAIN b : b[j] \notin U
    <3>1. ASSUME NEW j \in DOMAIN b PROVE b[j].name \in own
      <4>1. b[j] \in ToSet(b)
        BY DEF ToSet
      <4> QED BY <1>1, <4>1 DEF Entry
    <3> QED BY <1>3, <3>1 DEF Named
  <2> HIDE DEF U
  <2>6. IsLast(a, U, m)
    BY <1>1, <2>3, <2>4 DEF IsLast
  <2>7. LastIn(a \o b, U) = a[m]
    BY <1>1, <2>5, <2>6, LastInFirst
  <2>8. m \in DOMAIN kept /\ kept[m].name = k
    BY <2>3 DEF IsLast, Named
  <2>9. a[m].value = Interpolated(k, env[l].source, in.host)
    BY <1>1, <2>3, <2>8 DEF Entry, worth
  <2> QED BY <1>1, <2>1, <2>7, <2>9 DEF LastNamed, U
<1> QED BY <1>6, <1>7, <1>9, <1>10 DEF env, own, wanted

\* A variable that only compose has.
LEMMA SplitOfCompose ==
    ASSUME NEW in \in Inputs, NEW k, k \notin Names(in.service.env)
    PROVE  LET s == in.service
               split == SplitFor(in)
               inline == k \in Names(split.env)
               hidden == k \in DOMAIN split.secretEnv
           IN /\ inline => LastNamed(split.env, k).value = Worth(in, k)
              /\ hidden => split.secretEnv[k] = Worth(in, k)
              /\ Worth(in, k) # Nil <=> inline \/ hidden
              /\ inline => Source(in, k).from = "literal"
              /\ GivenHere(s, k) =>
                    (inline <=> Worth(in, k) # Nil /\ Source(in, k).from \in {"literal", "ref"})
<1> DEFINE s == in.service
<1> DEFINE split == SplitFor(in)
<1> DEFINE secret == hostSourcedKeys(s, in.host)
<1>1. \A e \in ToSet(s.env) : e.name # k
  BY NamesOf
<1>2. \A e \in Moved(in) : e.name # k
  BY <1>1 DEF Moved, Strings
<1>3. k \in Names(split.env) <=> k \in Own(in) \ secret
  BY <1>1, InlineNames
<1>4. k \in DOMAIN split.secretEnv <=> k \in Own(in) \intersect secret
  BY <1>2, SecretPart
<1>5. k \in Own(in) <=> k \in DOMAIN s.environment /\ OwnValue(in, k) # Nil
  BY DEF Own
<1>6. k \in DOMAIN s.environment => Source(in, k) = s.environment[k] /\ Worth(in, k) = OwnValue(in, k)
  BY NoEntry DEF Worth, OwnValue
<1>7. k \notin DOMAIN s.environment => Worth(in, k) = Nil
  <2> SUFFICES ASSUME k \notin DOMAIN s.environment PROVE Worth(in, k) = Nil
    OBVIOUS
  <2>1. Source(in, k) = [from |-> "nowhere", value |-> Nil]
    BY NoEntry
  <2> QED BY <2>1 DEF Worth, Interpolated
<1>8. k \in secret <=> /\ k \in DOMAIN s.environment /\ OwnValue(in, k) # Nil
                       /\ k \notin LiteralEnvKeys(s.raw.environment)
  BY ComposeSecret DEF OwnValue
<1>9. /\ k \in LiteralEnvKeys(s.raw.environment) =>
            k \in DOMAIN s.environment /\ s.environment[k].from = "literal"
      /\ k \in DOMAIN s.environment /\ s.environment[k].from = "literal" /\ GivenHere(s, k)
            => k \in LiteralEnvKeys(s.raw.environment)
  BY ComposeSecret
<1>10. k \in Own(in) \ secret => LastNamed(split.env, k).value = OwnValue(in, k)
  BY InlineNames
<1>11. k \in Own(in) \intersect secret => split.secretEnv[k] = OwnValue(in, k)
  BY SecretPart
<1>12. k \in DOMAIN s.environment => s.environment[k].from # "ref"
  BY InputsAssumption
<1> HIDE DEF s, split, secret
<1> QED BY <1>3, <1>4, <1>5, <1>6, <1>7, <1>8, <1>9, <1>10, <1>11, <1>12 DEF s, split

\* A variable that the extension has.
LEMMA SplitOfExtension ==
    ASSUME NEW in \in Inputs, NEW k \in Names(in.service.env), Unmixed(in.service, k)
    PROVE  LET s == in.service
               split == SplitFor(in)
               inline == k \in Names(split.env)
               hidden == k \in DOMAIN split.secretEnv
           IN /\ inline => LastNamed(split.env, k).value = Worth(in, k)
              /\ hidden => split.secretEnv[k] = Worth(in, k)
              /\ Worth(in, k) # Nil <=> inline \/ hidden
              /\ GivenHere(s, k) =>
                    (inline <=> Worth(in, k) # Nil /\ Source(in, k).from \in {"literal", "ref"})
<1> DEFINE s == in.service
<1> DEFINE split == SplitFor(in)
<1> DEFINE secret == hostSourcedKeys(s, in.host)
<1> DEFINE V == Named(ToSet(s.env), k)
<1> DEFINE e == LastNamed(s.env, k)
<1>1. /\ e \in V /\ Source(in, k) = e.source
      /\ Worth(in, k) = Interpolated(k, e.source, in.host) /\ Worth(in, k) # Nil
      /\ e.source.from \in {"literal", "template", "ref"}
  BY EntryWorth DEF Named
<1>2. k \notin Own(in)
  BY DEF Own
<1>3. k \in Names(split.env) <=> \E d \in V : d \notin Moved(in)
  <2>1. k \in Names(split.env) <=> k \in {d.name : d \in ToSet(s.env) \ Moved(in)}
    BY <1>2, InlineNames
  <2> QED BY <2>1 DEF Named
<1>4. k \in DOMAIN split.secretEnv <=> \E d \in V : d \in Moved(in)
  <2>1. k \in DOMAIN split.secretEnv <=> k \in {d.name : d \in Moved(in)}
    BY <1>2, SecretPart
  <2>2. Moved(in) \subseteq ToSet(s.env)
    BY DEF Moved, Strings
  <2> QED BY <2>1, <2>2 DEF Named
<1>5. \A d \in V : d \in Moved(in) <=> d.source.from # "ref" /\ k \in secret
  BY DEF Named, Moved, Strings
<1>6. \A c, d \in V : c.source.from = "ref" => d.source.from = "ref"
  BY DEF Unmixed
<1>7. GivenHere(s, k) => k \in Names(s.raw.env)
  BY DEF GivenHere
<1>8. (\A d \in V : d.source.from # "ref") /\ GivenHere(s, k)
          => (k \in secret <=> e.source.from = "template")
  BY <1>7, GivenSecret
<1>9. V \intersect Moved(in) = {} => LastNamed(split.env, k).value = Worth(in, k)
  BY <1>1, InlineNames
<1>10. V \subseteq Moved(in) => split.secretEnv[k] = Worth(in, k)
  <2> SUFFICES ASSUME V \subseteq Moved(in) PROVE split.secretEnv[k] = Worth(in, k)
    OBVIOUS
  <2>1. Named(Moved(in), k) = V
    BY DEF Named, Moved, Strings
  <2>2. k \in {d.name : d \in Moved(in)}
    BY <1>1 DEF Named
  <2>3. split.secretEnv[k] = Interpolated(k, LastIn(s.env, Named(Moved(in), k)).source, in.host)
    BY <1>2, <2>2, SecretPart
  <2> QED BY <1>1, <2>1, <2>3 DEF LastNamed
<1> HIDE DEF s, split, secret, V, e
<1>11. CASE e.source.from # "ref" /\ k \in secret
  <2>1. \A d \in V : d.source.from # "ref" /\ d \in Moved(in)
    BY <1>1, <1>5, <1>6, <1>11
  <2> QED BY <1>1, <1>3, <1>4, <1>8, <1>10, <1>11, <2>1 DEF s, split
<1>12. CASE ~(e.source.from # "ref" /\ k \in secret)
  <2>1. \A d \in V : d \notin Moved(in)
    BY <1>1, <1>5, <1>6, <1>12
  <2>2. GivenHere(s, k) => e.source.from \in {"literal", "ref"}
    BY <1>1, <1>6, <1>8, <1>12
  <2>3. V \intersect Moved(in) = {}
    BY <2>1
  <2> QED BY <1>1, <1>3, <1>4, <1>9, <2>1, <2>2, <2>3 DEF s, split
<1> QED BY <1>11, <1>12

\* What the code gives is that split.
LEMMA Splits ==
    ASSUME NEW in \in Inputs
    PROVE  IsSplit(in, SplitFor(in))
<1> SUFFICES ASSUME NEW k
             PROVE  LET split == SplitFor(in)
                        inline == k \in Names(split.env)
                        hidden == k \in DOMAIN split.secretEnv
                    IN /\ Unmixed(in.service, k) =>
                             /\ inline => LastNamed(split.env, k).value = Worth(in, k)
                             /\ hidden => split.secretEnv[k] = Worth(in, k)
                             /\ Worth(in, k) # Nil <=> inline \/ hidden
                             /\ GivenHere(in.service, k) =>
                                   (inline <=> Worth(in, k) # Nil
                                               /\ Source(in, k).from \in {"literal", "ref"})
                       /\ inline /\ k \notin Names(in.service.env) => Source(in, k).from = "literal"
  BY DEF IsSplit
<1>1. CASE k \in Names(in.service.env)
  BY <1>1, SplitOfExtension
<1>2. CASE k \notin Names(in.service.env)
  BY <1>2, SplitOfCompose
<1> QED BY <1>1, <1>2
-----------------------------------------------------------------------------
(* The charts of an input, and the pods of a chart.                         *)

ServiceOf(in) ==
    resolve(in.service, in.host, "sha", in.token # "", Sorted(DOMAIN in.service.environment))

EndpointsOf(in) ==
    Endpoints(ServiceOf(in),
              Sorted(Publishing(ServiceOf(in), IF in.token = "" THEN {} ELSE in.neighbours)))

ChartFor(r, in) ==
    IF r = Self THEN Build(ServiceOf(in), in.disk) ELSE BuildNgrok(EndpointsOf(in), in.token)

\* The data that a pod template is annotated with.
SecretOf(r, template) ==
    IF r = Self THEN template.annotations.secret ELSE AgentSecret(template.annotations.secret)
FilesOf(r, template) ==
    IF r = Self THEN template.annotations.configMap ELSE AgentConfig(template.annotations.configMap)

Agrees(part, whole) == \A k \in DOMAIN part : k \in DOMAIN whole /\ whole[k] = part[k]

\* Pods have read what their template is annotated with, and more of the Secret at most.
ReadAsAnnotated(r, pods) ==
    /\ pods.files = FilesOf(r, pods.template)
    /\ \E secret :
          /\ Agrees(SecretOf(r, pods.template), secret)
          /\ pods.env = PodEnv(pods.template, secret)
          /\ pods.retained = DOMAIN secret \ DOMAIN SecretOf(r, pods.template)

Run(chart, in, secret, pods) == [chart |-> chart, input |-> in, secret |-> secret, pods |-> pods]

\* A release of the chart of some input, that input for the service's own.
IsRelease(r, R) ==
    /\ R = Run(R.chart, R.input, R.secret, R.pods)
    /\ \E in \in Inputs : R.chart = ChartFor(r, in) /\ (r = Self => R.input = in)
    /\ Agrees(R.chart.secret, R.secret)
    /\ R.pods # Absent => ReadAsAnnotated(r, R.pods)

HasRolled(R) == R.pods # Absent /\ R.pods.template = R.chart.template

\* What the resolver passes on of the service.
LEMMA ServiceFields ==
    ASSUME NEW in
    PROVE  LET r == ServiceOf(in)
               split == resolveEnvironment(in.service, in.host,
                                           Sorted(DOMAIN in.service.environment))
           IN /\ r.skip = in.service.skip /\ r.job = (in.service.deploymentType = "job")
              /\ r.env = split.env /\ r.secretEnv = split.secretEnv
              /\ r.envFrom = in.service.envFrom /\ r.configMapFrom = in.service.configMapFrom
              /\ r.probes = resolveHealthCheck(in.service, resolveServicePorts(in.service))
              /\ r.ngrok = resolveNgrok(in.service.topPolicy, in.service.ngrok,
                              {p.port : p \in ToSet(resolveServicePorts(in.service))},
                              in.token # "").ngrok
  BY DEF ServiceOf, resolve

\* What the chart of a service is made of.
LEMMA ServiceChart ==
    ASSUME NEW in
    PROVE  LET c == ChartFor(Self, in)
               r == ServiceOf(in)
           IN /\ c.workload = IF r.job THEN "job" ELSE "deployment"
              /\ c.secret = r.secretEnv /\ c.configMap = Contents(r.configMapFrom, in.disk)
              /\ c.template.env = r.env
              /\ c.template.envFrom = EnvFrom(r.secretEnv, r.envFrom)
              /\ c.template.declares = r.envFrom
              /\ c.template.annotations = [configMap |-> c.configMap, secret |-> c.secret]
              /\ ~r.job => c.template.probes = r.probes
<1> DEFINE r == ServiceOf(in)
<1> DEFINE files == Contents(r.configMapFrom, in.disk)
<1> DEFINE pod == PodTemplate(r, files)
<1>1. ChartFor(Self, in) = IF r.job THEN jobFiles(r, in.disk) ELSE serviceFiles(r, in.disk)
  BY DEF ChartFor, Build
<1>2. /\ pod.env = r.env /\ pod.envFrom = EnvFrom(r.secretEnv, r.envFrom)
      /\ pod.declares = r.envFrom
      /\ pod.annotations = [configMap |-> files, secret |-> r.secretEnv]
      /\ DOMAIN pod = {"image", "command", "ports", "env", "envFrom", "declares", "spec",
                     "account", "annotations"}
  BY DEF PodTemplate, Annotations
<1> DEFINE probed == DeploymentPod(r, files)
<1>3. /\ probed.env = pod.env /\ probed.envFrom = pod.envFrom
      /\ probed.declares = pod.declares /\ probed.annotations = pod.annotations
      /\ probed.probes = r.probes
  <2> HIDE DEF pod, r, files
  <2>1. probed = Over(pod, [probes |-> r.probes])
    BY DEF DeploymentPod, pod
  <2> HIDE DEF probed
  <2> QED BY <1>2, <2>1 DEF Over
<1>4. /\ Shared(r, in.disk).secret = r.secretEnv /\ Shared(r, in.disk).configMap = files
      /\ DOMAIN Shared(r, in.disk) = {"secret", "configMap", "account", "manifests"}
  BY DEF Shared, SecretData, ConfigMapData
<1>5. LET c == jobFiles(r, in.disk)
      IN c.workload = "job" /\ c.template = pod /\ c.secret = r.secretEnv /\ c.configMap = files
  <2> DEFINE head == [workload |-> "job", template |-> pod, service |-> <<>>]
  <2>1. jobFiles(r, in.disk) = Over(head, Shared(r, in.disk))
    BY DEF jobFiles, ConfigMapData
  <2>2. head.workload = "job" /\ head.template = pod /\ DOMAIN head = {"workload", "template", "service"}
    OBVIOUS
  <2> HIDE DEF head, r, files, pod
  <2> QED BY <1>4, <2>1, <2>2 DEF Over
<1>6. LET c == serviceFiles(r, in.disk)
      IN c.workload = "deployment" /\ c.template = probed /\ c.secret = r.secretEnv /\ c.configMap = files
  <2> DEFINE head == [workload |-> "deployment", template |-> probed, service |-> ServicePorts(r)]
  <2>1. serviceFiles(r, in.disk) = Over(head, Shared(r, in.disk))
    BY DEF serviceFiles, ConfigMapData
  <2>2. head.workload = "deployment" /\ head.template = probed
        /\ DOMAIN head = {"workload", "template", "service"}
    OBVIOUS
  <2> HIDE DEF head, r, files, probed
  <2> QED BY <1>4, <2>1, <2>2 DEF Over
<1> HIDE DEF pod, probed
<1>7. CASE r.job
  BY <1>1, <1>2, <1>5, <1>7
<1>8. CASE ~r.job
  BY <1>1, <1>2, <1>3, <1>6, <1>8
<1> QED BY <1>7, <1>8

\* What the agent's chart is made of.
LEMMA AgentChart ==
    ASSUME NEW in
    PROVE  LET c == ChartFor(NgrokRelease, in)
           IN /\ c.workload = "deployment"
              /\ c.secret = AgentSecret(in.token) /\ c.configMap = AgentConfig(EndpointsOf(in))
              /\ c.template.env = <<>> /\ c.template.envFrom = <<"secret">>
              /\ c.template.declares = {}
              /\ c.template.annotations = [configMap |-> EndpointsOf(in), secret |-> in.token]
<1>1. ChartFor(NgrokRelease, in) = BuildNgrok(EndpointsOf(in), in.token)
  BY InputsAssumption DEF ChartFor
<1> QED BY <1>1 DEF BuildNgrok, AgentPod, agentAnnotations

\* The Secret and the ConfigMap of a chart are what its pods are annotated with.
LEMMA Annotated ==
    ASSUME NEW r \in Release, NEW in
    PROVE  LET c == ChartFor(r, in)
           IN /\ c.secret = SecretOf(r, c.template) /\ c.configMap = FilesOf(r, c.template)
              /\ c.workload \in Type
<1>1. CASE r = Self
  <2> DEFINE c == ChartFor(Self, in)
  <2>1. /\ c.template.annotations = [configMap |-> c.configMap, secret |-> c.secret]
        /\ c.workload \in Type
    BY ServiceChart DEF Type
  <2> HIDE DEF c
  <2>2. c.secret = SecretOf(Self, c.template) /\ c.configMap = FilesOf(Self, c.template)
    BY <2>1 DEF SecretOf, FilesOf
  <2> QED BY <1>1, <2>1, <2>2 DEF c
<1>2. CASE r = NgrokRelease
  <2> DEFINE c == ChartFor(NgrokRelease, in)
  <2>1. /\ c.template.annotations = [configMap |-> EndpointsOf(in), secret |-> in.token]
        /\ c.secret = AgentSecret(in.token) /\ c.configMap = AgentConfig(EndpointsOf(in))
        /\ c.workload \in Type
    BY AgentChart DEF Type
  <2> HIDE DEF c
  <2>2. c.secret = SecretOf(NgrokRelease, c.template) /\ c.configMap = FilesOf(NgrokRelease, c.template)
    <3>1. NgrokRelease # Self
      BY InputsAssumption
    <3> QED BY <2>1, <3>1 DEF SecretOf, FilesOf
  <2> QED BY <1>2, <2>1, <2>2 DEF c
<1> QED BY <1>1, <1>2 DEF Release

\* Pods that start have read what they are annotated with.
LEMMA Starts ==
    ASSUME NEW r \in Release, NEW in, NEW secret,
           Agrees(ChartFor(r, in).secret, secret)
    PROVE  LET p == Start(ChartFor(r, in), secret)
           IN p # Absent /\ p.template = ChartFor(r, in).template /\ ReadAsAnnotated(r, p)
<1> DEFINE c == ChartFor(r, in)
<1> DEFINE p == Start(c, secret)
<1>1. c.secret = SecretOf(r, c.template) /\ c.configMap = FilesOf(r, c.template)
  BY Annotated
<1> HIDE DEF c
<1>2. /\ p.template = c.template /\ p.env = PodEnv(c.template, secret)
      /\ p.files = c.configMap /\ p.retained = DOMAIN secret \ DOMAIN c.secret
      /\ DOMAIN p = {"template", "env", "files", "retained"}
  BY DEF Start
<1>3. DOMAIN Absent = {}
  BY DEF Absent, NoData
<1>4. p # Absent
  BY <1>2, <1>3
<1> HIDE DEF p
<1>5. ReadAsAnnotated(r, p)
  <2>1. Agrees(SecretOf(r, p.template), secret)
    BY <1>1, <1>2 DEF c
  <2>2. /\ p.env = PodEnv(p.template, secret)
        /\ p.retained = DOMAIN secret \ DOMAIN SecretOf(r, p.template)
        /\ p.files = FilesOf(r, p.template)
    BY <1>1, <1>2
  <2> QED BY <2>1, <2>2 DEF ReadAsAnnotated
<1> QED BY <1>2, <1>4, <1>5 DEF c, p

\* A patch leaves no key of the new Secret out.
LEMMA PatchAgrees ==
    ASSUME NEW chart, NEW data, NEW secret
    PROVE  Agrees(secret, Patched(chart, data, secret))
<1>1. CASE Patched(chart, data, secret) = secret
  BY <1>1 DEF Agrees
<1>2. CASE Patched(chart, data, secret) = Over(secret, data)
  BY <1>2 DEF Agrees, Over
<1> QED BY <1>1, <1>2 DEF Patched

\* The fields of a release that was put together, and what it is with one of them changed.
LEMMA RunFields ==
    ASSUME NEW c, NEW i, NEW s, NEW p
    PROVE  /\ Run(c, i, s, p).chart = c /\ Run(c, i, s, p).input = i
           /\ Run(c, i, s, p).secret = s /\ Run(c, i, s, p).pods = p
           /\ Run(c, i, s, p) # Absent
<1>1. DOMAIN Absent = {} /\ DOMAIN Run(c, i, s, p) = {"chart", "input", "secret", "pods"}
  BY DEF Absent, NoData, Run
<1>2. Run(c, i, s, p) # Absent
  BY <1>1
<1> QED BY <1>2 DEF Run

\* A release with other pods, or with another Secret.
LEMMA RunWith ==
    ASSUME NEW R, R = Run(R.chart, R.input, R.secret, R.pods), NEW q
    PROVE  /\ [R EXCEPT !.pods = q] = Run(R.chart, R.input, R.secret, q)
           /\ [R EXCEPT !.secret = q] = Run(R.chart, R.input, q, R.pods)
<1>1. PICK c, i, s, p : R = [chart |-> c, input |-> i, secret |-> s, pods |-> p]
  BY DEF Run
<1> QED BY <1>1 DEF Run

\* Once rolled, the pods are those of the release they were rolled to.
LEMMA Rolls ==
    ASSUME NEW r \in Release, NEW old, NEW new, IsRelease(r, new),
           old.pods # Absent => ReadAsAnnotated(r, old.pods)
    PROVE  LET R == Rolled(old, new)
           IN /\ IsRelease(r, R) /\ HasRolled(R) /\ R # Absent
              /\ R.chart = new.chart /\ R.input = new.input /\ R.secret = new.secret
<1> DEFINE q == IF MustRoll(old, new) THEN Start(new.chart, new.secret) ELSE old.pods
<1> DEFINE R == Run(new.chart, new.input, new.secret, q)
<1>1. new = Run(new.chart, new.input, new.secret, new.pods)
  BY DEF IsRelease
<1>2. Rolled(old, new) = R
  <2>1. [new EXCEPT !.pods = q] = R
    <3> HIDE DEF q
    <3> QED BY <1>1, RunWith
  <2> QED BY <2>1 DEF Rolled
<1>3. PICK in \in Inputs : new.chart = ChartFor(r, in) /\ (r = Self => new.input = in)
  BY DEF IsRelease
<1>4. Agrees(new.chart.secret, new.secret)
  BY DEF IsRelease
<1>5. q # Absent /\ q.template = new.chart.template /\ ReadAsAnnotated(r, q)
  <2>1. CASE MustRoll(old, new)
    BY <1>3, <1>4, <2>1, Starts
  <2>2. CASE ~MustRoll(old, new)
    BY <2>2 DEF MustRoll
  <2> QED BY <2>1, <2>2
<1> HIDE DEF q
<1>6. /\ R.chart = new.chart /\ R.input = new.input /\ R.secret = new.secret /\ R.pods = q
      /\ R # Absent
  BY RunFields
<1>8. R = Run(R.chart, R.input, R.secret, R.pods)
  BY <1>6
<1> HIDE DEF R
<1>7. IsRelease(r, R) /\ HasRolled(R)
  BY <1>3, <1>4, <1>5, <1>6, <1>8 DEF IsRelease, HasRolled
<1> QED BY <1>2, <1>6, <1>7
-----------------------------------------------------------------------------
(* The invariant.                                                           *)

Deploying(d) ==
    /\ d = [input |-> d.input, service |-> d.service, before |-> d.before,
            endpoints |-> d.endpoints]
    /\ d.input \in Inputs
    /\ d.service = ServiceOf(d.input) /\ d.endpoints = EndpointsOf(d.input)

TypeInv ==
    /\ input \in Inputs /\ target \in Release /\ DOMAIN live = Release
    /\ pc \in {"idle", "build", "wait", "rolled"}
    /\ outcome \in {"none", "ok", "err"}

\* Whatever is deployed was resolved from one input.
DeployInv == pc # "idle" \/ outcome = "ok" => Deploying(deploy)

\* Every release is one of some input, and has rolled unless the deploy waits for it.
LiveInv ==
    \A r \in Release :
        live[r] # Absent =>
            /\ IsRelease(r, live[r])
            /\ (target # r \/ pc # "wait") => HasRolled(live[r])

\* On its way the target is of the deploy's input, and can go back to what was there.
TargetInv ==
    pc \in {"wait", "rolled"} =>
        /\ live[target] # Absent
        /\ live[target].chart = ChartFor(target, deploy.input)
        /\ target = NgrokRelease => deploy.endpoints # <<>>
        /\ deploy.before # Absent => IsRelease(target, deploy.before) /\ HasRolled(deploy.before)
        /\ pc = "wait" /\ live[target].pods # Absent =>
              deploy.before # Absent /\ live[target].pods.template = deploy.before.chart.template

\* A deploy that ended well has left the agent as it should be.
AgentInv ==
    pc = "idle" /\ outcome = "ok" =>
        IF deploy.endpoints = <<>> THEN live[NgrokRelease] = Absent
        ELSE /\ live[NgrokRelease] # Absent
             /\ live[NgrokRelease].chart = ChartFor(NgrokRelease, deploy.input)

RolloutInv == TypeInv /\ DeployInv /\ LiveInv /\ TargetInv /\ AgentInv

\* The names of the two releases differ.
LEMMA Releases == NgrokRelease # Self /\ Release = {Self, NgrokRelease}
  BY InputsAssumption DEF Release

\* Nothing is deployed at first.
LEMMA InitRollout == Init => RolloutInv
<1> SUFFICES ASSUME Init PROVE RolloutInv
  OBVIOUS
<1>1. TypeInv
  BY DEF Init, TypeInv, Release
<1>2. DeployInv /\ TargetInv /\ AgentInv /\ LiveInv
  BY DEF Init, DeployInv, TargetInv, AgentInv, LiveInv
<1> QED BY <1>1, <1>2 DEF RolloutInv

\* What is deployed is resolved from the input of that moment.
LEMMA ResolveStep == RolloutInv /\ Resolve => RolloutInv'
<1> SUFFICES ASSUME RolloutInv, Resolve PROVE RolloutInv'
  OBVIOUS
<1>1. /\ pc = "idle" /\ pc' = "build" /\ target' = Self /\ outcome' = "none"
      /\ UNCHANGED <<input, live>>
  BY DEF Resolve
<1>2. deploy' = [input |-> input, service |-> ServiceOf(input), before |-> Absent,
                 endpoints |-> EndpointsOf(input)]
  BY DEF Resolve, KeyOrders, Sorted, ServiceOf, EndpointsOf
<1>3. Deploying(deploy')
  <2>1. input \in Inputs
    BY DEF RolloutInv, TypeInv
  <2> QED BY <1>2, <2>1 DEF Deploying
<1>4. TypeInv'
  BY <1>1, Releases DEF RolloutInv, TypeInv
<1>5. LiveInv'
  BY <1>1 DEF RolloutInv, LiveInv
<1> QED BY <1>1, <1>3, <1>4, <1>5 DEF RolloutInv, DeployInv, TargetInv, AgentInv

\* Before a release is touched: an edit, a refusal, a service that is skipped.
LEMMA QuietSteps ==
    RolloutInv /\ (Edit \/ RefuseInput \/ RefuseFiles \/ PassOver \/ UNCHANGED vars) => RolloutInv'
<1> SUFFICES ASSUME RolloutInv, Edit \/ RefuseInput \/ RefuseFiles \/ PassOver \/ UNCHANGED vars
             PROVE  RolloutInv'
  OBVIOUS
<1>1. CASE Edit \/ RefuseInput \/ RefuseFiles
  <2>1. /\ pc # "wait" /\ pc' = "idle" /\ outcome' # "ok" /\ outcome' \in {"none", "err"}
        /\ input' \in Inputs /\ UNCHANGED <<target, live>>
    BY <1>1 DEF Edit, RefuseInput, RefuseFiles, RolloutInv, TypeInv
  <2>2. TypeInv' /\ LiveInv'
    BY <2>1 DEF RolloutInv, TypeInv, LiveInv
  <2> QED BY <2>1, <2>2 DEF RolloutInv, DeployInv, TargetInv, AgentInv
<1>2. CASE PassOver
  <2>1. /\ pc = "build" /\ target = Self /\ pc' = "build" /\ target' = NgrokRelease
        /\ UNCHANGED <<input, deploy, live, outcome>>
    BY <1>2, Releases DEF PassOver, Succeed
  <2>2. TypeInv' /\ LiveInv'
    BY <2>1, Releases DEF RolloutInv, TypeInv, LiveInv
  <2>3. DeployInv'
    BY <2>1 DEF RolloutInv, DeployInv
  <2> QED BY <2>1, <2>2, <2>3 DEF RolloutInv, TargetInv, AgentInv
<1>3. CASE UNCHANGED vars
  BY <1>3 DEF vars, RolloutInv, TypeInv, DeployInv, LiveInv, TargetInv, AgentInv
<1> QED BY <1>1, <1>2, <1>3

\* Nothing is published: the agent goes.
LEMMA RemoveAgentStep == RolloutInv /\ RemoveAgent => RolloutInv'
<1> SUFFICES ASSUME RolloutInv, RemoveAgent PROVE RolloutInv'
  OBVIOUS
<1>1. /\ pc = "build" /\ target = NgrokRelease /\ deploy.endpoints = <<>>
      /\ live' = [live EXCEPT ![NgrokRelease] = Absent]
      /\ pc' = "idle" /\ outcome' = "ok" /\ UNCHANGED <<input, target, deploy>>
  BY Releases DEF RemoveAgent, Succeed
<1>2. /\ DOMAIN live' = Release /\ live'[NgrokRelease] = Absent
      /\ \A r \in Release : r # NgrokRelease => live'[r] = live[r]
  BY <1>1, Releases DEF RolloutInv, TypeInv
<1>3. TypeInv' /\ DeployInv'
  BY <1>1, <1>2 DEF RolloutInv, TypeInv, DeployInv
<1>4. LiveInv'
  BY <1>1, <1>2 DEF RolloutInv, LiveInv
<1>5. TargetInv' /\ AgentInv'
  BY <1>1, <1>2 DEF TargetInv, AgentInv
<1> QED BY <1>3, <1>4, <1>5 DEF RolloutInv

\* The chart that is applied is that of the deploy's input.
LEMMA ApplyStep == RolloutInv /\ Apply => RolloutInv'
<1> SUFFICES ASSUME RolloutInv, Apply PROVE RolloutInv'
  OBVIOUS
<1> DEFINE old == live[target]
<1> DEFINE in == deploy.input
<1> DEFINE fresh == Run(Chart, IF target = Self THEN in ELSE Absent, Chart.secret, Absent)
<1> DEFINE upgraded == Run(Chart, IF target = Self THEN in ELSE Absent,
                           Patched(old.chart, old.secret, Chart.secret), old.pods)
<1> DEFINE R == IF old = Absent THEN fresh ELSE upgraded
<1>1. /\ pc = "build" /\ pc' = "wait" /\ UNCHANGED <<input, target, outcome>>
      /\ target = NgrokRelease => deploy.endpoints # <<>>
  BY Releases DEF Apply
<1>2. deploy' = [deploy EXCEPT !.before = old] /\ live' = [live EXCEPT ![target] = R]
  BY DEF Apply, Run
<1>3. /\ target \in Release /\ DOMAIN live = Release /\ Deploying(deploy)
  BY <1>1 DEF RolloutInv, TypeInv, DeployInv
<1>4. Chart = ChartFor(target, in)
  BY <1>3, Releases DEF Chart, ChartFor, Deploying
<1>5. Deploying(deploy') /\ deploy'.before = old /\ deploy'.input = in
      /\ deploy'.endpoints = deploy.endpoints
  <2>1. PICK i, s, b, e : deploy = [input |-> i, service |-> s, before |-> b, endpoints |-> e]
    BY <1>3 DEF Deploying
  <2>2. deploy' = [input |-> i, service |-> s, before |-> old, endpoints |-> e]
    <3> HIDE DEF old
    <3> QED BY <1>2, <2>1
  <2> HIDE DEF old
  <2> QED BY <1>3, <2>1, <2>2 DEF Deploying
<1>6. old # Absent => IsRelease(target, old) /\ HasRolled(old)
  BY <1>1, <1>3 DEF RolloutInv, LiveInv
<1>7. /\ R # Absent /\ IsRelease(target, R) /\ R.chart = ChartFor(target, in)
      /\ R.pods = IF old = Absent THEN Absent ELSE old.pods
  <2> HIDE DEF old
  <2>0. in \in Inputs
    BY <1>3 DEF Deploying
  <2>1. CASE old = Absent
    <3>1. /\ fresh # Absent /\ fresh.chart = Chart /\ fresh.secret = Chart.secret
          /\ fresh.pods = Absent /\ fresh.input = IF target = Self THEN in ELSE Absent
      BY RunFields
    <3>2. fresh = Run(fresh.chart, fresh.input, fresh.secret, fresh.pods)
      BY <3>1
    <3> HIDE DEF fresh
    <3>3. Agrees(fresh.chart.secret, fresh.secret)
      BY <3>1 DEF Agrees
    <3>4. IsRelease(target, fresh)
      BY <1>4, <2>0, <3>1, <3>2, <3>3 DEF IsRelease
    <3> QED BY <1>4, <2>1, <3>1, <3>4
  <2>2. CASE old # Absent
    <3>1. /\ upgraded # Absent /\ upgraded.chart = Chart
          /\ upgraded.secret = Patched(old.chart, old.secret, Chart.secret)
          /\ upgraded.pods = old.pods /\ upgraded.input = IF target = Self THEN in ELSE Absent
      BY RunFields
    <3>2. upgraded = Run(upgraded.chart, upgraded.input, upgraded.secret, upgraded.pods)
      BY <3>1
    <3> HIDE DEF upgraded
    <3>3. Agrees(upgraded.chart.secret, upgraded.secret)
      BY <3>1, PatchAgrees
    <3>4. ReadAsAnnotated(target, old.pods)
      BY <1>6, <2>2 DEF IsRelease, HasRolled
    <3>5. IsRelease(target, upgraded)
      BY <1>4, <2>0, <3>1, <3>2, <3>3, <3>4 DEF IsRelease
    <3> QED BY <1>4, <2>2, <3>1, <3>5
  <2> QED BY <2>1, <2>2
<1> HIDE DEF R
<1>8. /\ DOMAIN live' = Release /\ live'[target] = R
      /\ \A r \in Release : r # target => live'[r] = live[r]
  BY <1>2, <1>3
<1>9. TypeInv' /\ DeployInv'
  BY <1>1, <1>3, <1>5, <1>8 DEF RolloutInv, TypeInv, DeployInv
<1>10. LiveInv'
  BY <1>1, <1>7, <1>8 DEF RolloutInv, LiveInv
<1>11. TargetInv'
  <2>1. R.pods # Absent => old # Absent /\ R.pods.template = old.chart.template
    BY <1>6, <1>7 DEF HasRolled
  <2> HIDE DEF old, in
  <2> QED BY <1>1, <1>5, <1>6, <1>7, <1>8, <2>1 DEF TargetInv
<1>12. AgentInv'
  BY <1>1 DEF AgentInv
<1> QED BY <1>9, <1>10, <1>11, <1>12 DEF RolloutInv

\* The pods follow.
LEMMA RollStep == RolloutInv /\ Roll => RolloutInv'
<1> SUFFICES ASSUME RolloutInv, Roll PROVE RolloutInv'
  OBVIOUS
<1> DEFINE now == live[target]
<1> DEFINE R == Rolled(now, now)
<1>1. /\ pc = "wait" /\ pc' = "rolled" /\ live' = [live EXCEPT ![target] = R]
      /\ UNCHANGED <<input, target, deploy, outcome>>
  BY DEF Roll
<1>2. target \in Release /\ DOMAIN live = Release
  BY DEF RolloutInv, TypeInv
<1>3. now # Absent /\ IsRelease(target, now)
  BY <1>1, <1>2 DEF RolloutInv, TargetInv, LiveInv
<1>4. IsRelease(target, R) /\ HasRolled(R) /\ R # Absent /\ R.chart = now.chart
  <2>1. now.pods # Absent => ReadAsAnnotated(target, now.pods)
    BY <1>3 DEF IsRelease
  <2> HIDE DEF now
  <2> QED BY <1>2, <1>3, <2>1, Rolls
<1> HIDE DEF R
<1>5. /\ DOMAIN live' = Release /\ live'[target] = R
      /\ \A r \in Release : r # target => live'[r] = live[r]
  BY <1>1, <1>2
<1>6. TypeInv' /\ DeployInv'
  BY <1>1, <1>5 DEF RolloutInv, TypeInv, DeployInv
<1>7. LiveInv'
  BY <1>1, <1>4, <1>5 DEF RolloutInv, LiveInv
<1>8. TargetInv'
  BY <1>1, <1>4, <1>5 DEF RolloutInv, TargetInv
<1> QED BY <1>1, <1>6, <1>7, <1>8 DEF RolloutInv, AgentInv

\* Helm is done with the target.
LEMMA SettleStep == RolloutInv /\ Settle => RolloutInv'
<1> SUFFICES ASSUME RolloutInv, Settle PROVE RolloutInv'
  OBVIOUS
<1>1. pc = "rolled" /\ UNCHANGED <<input, deploy, live>> /\ Succeed
  BY DEF Settle
<1>2. LiveInv'
  <2>1. pc' # "wait"
    BY <1>1 DEF Succeed
  <2>2. \A r \in Release : live[r] # Absent => IsRelease(r, live[r]) /\ HasRolled(live[r])
    BY <1>1 DEF RolloutInv, LiveInv
  <2> QED BY <1>1, <2>1, <2>2 DEF LiveInv
<1>3. TypeInv' /\ DeployInv' /\ TargetInv'
  BY <1>1, Releases DEF RolloutInv, TypeInv, DeployInv, TargetInv, Succeed
<1>4. AgentInv'
  BY <1>1, Releases DEF RolloutInv, TypeInv, TargetInv, AgentInv, Succeed
<1> QED BY <1>2, <1>3, <1>4 DEF RolloutInv

\* What an undone deploy leaves is what it found, with its own Secret and what the other
\* one had over that.
LEMMA UndoRestoresChart ==
    ASSUME RolloutInv, Undo, live'[target] # Absent
    PROVE  /\ deploy.before # Absent /\ IsRelease(target, live'[target])
           /\ HasRolled(live'[target]) /\ live'[target].chart = deploy.before.chart
<1> DEFINE now == live[target]
<1> DEFINE old == deploy.before
<1> DEFINE patched == Patched(now.chart, now.secret, old.chart.secret)
<1> DEFINE R == IF old = Absent THEN Absent ELSE Rolled(now, [old EXCEPT !.secret = patched])
<1>1. pc \in {"wait", "rolled"} /\ live' = [live EXCEPT ![target] = R]
  BY DEF Undo
<1>2. target \in Release /\ DOMAIN live = Release
  BY DEF RolloutInv, TypeInv
<1>3. now # Absent /\ IsRelease(target, now)
  BY <1>1, <1>2 DEF RolloutInv, TargetInv, LiveInv
<1>4. live'[target] = R
  <2> HIDE DEF R
  <2> QED BY <1>1, <1>2
<1>5. old # Absent
  BY <1>4
<1>6. IsRelease(target, old)
  BY <1>1, <1>5 DEF RolloutInv, TargetInv
<1> DEFINE back == Run(old.chart, old.input, patched, old.pods)
<1>7. [old EXCEPT !.secret = patched] = back
  <2> HIDE DEF patched, old
  <2> QED BY <1>6, RunWith DEF IsRelease
<1>8. IsRelease(target, back) /\ back.chart = old.chart
  <2>1. Agrees(old.chart.secret, patched)
    BY PatchAgrees
  <2> HIDE DEF patched, old
  <2>2. back.chart = old.chart /\ back.input = old.input /\ back.secret = patched
        /\ back.pods = old.pods
    BY RunFields
  <2>3. back = Run(back.chart, back.input, back.secret, back.pods)
    BY <2>2
  <2> HIDE DEF back
  <2> QED BY <1>6, <2>1, <2>2, <2>3 DEF IsRelease
<1>9. now.pods # Absent => ReadAsAnnotated(target, now.pods)
  BY <1>3 DEF IsRelease
<1> HIDE DEF back, now
<1>10. R = Rolled(now, back)
  BY <1>5, <1>7
<1>11. IsRelease(target, R) /\ HasRolled(R) /\ R.chart = back.chart
  <2> HIDE DEF R
  <2> QED BY <1>2, <1>8, <1>9, <1>10, Rolls
<1> HIDE DEF R
<1> QED BY <1>4, <1>5, <1>8, <1>11

\* The target goes back to what was there.
LEMMA UndoStep == RolloutInv /\ Undo => RolloutInv'
<1> SUFFICES ASSUME RolloutInv, Undo PROVE RolloutInv'
  OBVIOUS
<1>1. /\ pc \in {"wait", "rolled"} /\ pc' = "idle" /\ outcome' = "err"
      /\ \E R : live' = [live EXCEPT ![target] = R]
      /\ UNCHANGED <<input, target, deploy>>
  BY DEF Undo
<1>2. target \in Release /\ DOMAIN live = Release
  BY DEF RolloutInv, TypeInv
<1>3. DOMAIN live' = Release /\ \A r \in Release : r # target => live'[r] = live[r]
  BY <1>1, <1>2
<1>4. live'[target] # Absent => IsRelease(target, live'[target]) /\ HasRolled(live'[target])
  BY UndoRestoresChart
<1>5. TypeInv' /\ DeployInv'
  BY <1>1, <1>3 DEF RolloutInv, TypeInv, DeployInv
<1>6. LiveInv'
  BY <1>1, <1>3, <1>4 DEF RolloutInv, LiveInv
<1> QED BY <1>1, <1>5, <1>6 DEF RolloutInv, TargetInv, AgentInv

\* A container that comes back reads the Secret once more.
LEMMA RestartStep == ASSUME NEW r \in Release PROVE RolloutInv /\ Restart(r) => RolloutInv'
<1> SUFFICES ASSUME RolloutInv, Restart(r) PROVE RolloutInv'
  OBVIOUS
<1> DEFINE now == live[r]
<1> DEFINE p == Start(now.chart, now.secret)
<1> DEFINE R == Run(now.chart, now.input, now.secret, p)
<1>1. pc = "idle" /\ now # Absent /\ UNCHANGED <<input, pc, target, deploy, outcome>>
  BY DEF Restart
<1>2. DOMAIN live = Release
  BY DEF RolloutInv, TypeInv
<1>3. IsRelease(r, now)
  BY <1>1 DEF RolloutInv, LiveInv
<1>4. live' = [live EXCEPT ![r] = R]
  <2>1. live' = [live EXCEPT ![r] = [now EXCEPT !.pods = p]]
    BY DEF Restart
  <2>2. [now EXCEPT !.pods = p] = R
    <3> HIDE DEF now, p
    <3> QED BY <1>3, RunWith DEF IsRelease
  <2> HIDE DEF R
  <2> QED BY <2>1, <2>2
<1> HIDE DEF now
<1>5. p # Absent /\ p.template = now.chart.template /\ ReadAsAnnotated(r, p)
  BY <1>3, Starts DEF IsRelease
<1>6. IsRelease(r, R) /\ HasRolled(R) /\ R # Absent /\ R.chart = now.chart
  <2> HIDE DEF p
  <2>1. R.chart = now.chart /\ R.input = now.input /\ R.secret = now.secret /\ R.pods = p /\ R # Absent
    BY RunFields
  <2>2. R = Run(R.chart, R.input, R.secret, R.pods)
    BY <2>1
  <2> HIDE DEF R
  <2> QED BY <1>3, <1>5, <2>1, <2>2 DEF IsRelease, HasRolled
<1> HIDE DEF R
<1>7. /\ DOMAIN live' = Release /\ live'[r] = R
      /\ \A q \in Release : q # r => live'[q] = live[q]
  BY <1>2, <1>4
<1>8. TypeInv' /\ DeployInv'
  BY <1>1, <1>7 DEF RolloutInv, TypeInv, DeployInv
<1>9. LiveInv'
  BY <1>1, <1>6, <1>7 DEF RolloutInv, LiveInv
<1>10. AgentInv'
  BY <1>1, <1>6, <1>7, Releases DEF RolloutInv, AgentInv, now
<1> QED BY <1>1, <1>8, <1>9, <1>10 DEF RolloutInv, TargetInv

\* The invariant holds in every behaviour.
LEMMA RolloutInvariant == Spec => []RolloutInv
<1>1. RolloutInv /\ [Next]_vars => RolloutInv'
  BY ResolveStep, QuietSteps, RemoveAgentStep, ApplyStep, RollStep, SettleStep, UndoStep,
     RestartStep DEF Next
<1> QED BY <1>1, InitRollout, PTL DEF Spec

\* The types of the rollout, with every key of a chart's Secret in the cluster's.
THEOREM RolloutTypeCorrect == Spec => []RolloutTypeOK
<1>1. RolloutInv => RolloutTypeOK
  <2> SUFFICES ASSUME RolloutInv PROVE RolloutTypeOK
    OBVIOUS
  <2>1. ASSUME NEW r \in Release, live[r] # Absent
        PROVE  /\ live[r].chart.workload \in Type
               /\ \A k \in DOMAIN live[r].chart.secret :
                     k \in DOMAIN live[r].secret /\ live[r].secret[k] = live[r].chart.secret[k]
               /\ pc = "idle" => live[r].pods # Absent
    <3>1. IsRelease(r, live[r]) /\ (pc = "idle" => HasRolled(live[r]))
      BY <2>1 DEF RolloutInv, LiveInv
    <3>2. live[r].chart.workload \in Type
      BY <3>1, Annotated DEF IsRelease
    <3> QED BY <3>1, <3>2 DEF IsRelease, HasRolled, Agrees
  <2> QED BY <2>1 DEF RolloutInv, TypeInv, RolloutTypeOK
<1> QED BY <1>1, RolloutInvariant, PTL
-----------------------------------------------------------------------------
(* What the developer is promised.                                          *)

\* The pods alone are others after a restart.
LEMMA RestartKeepsChart ==
    ASSUME RolloutInv, NEW r \in Release, Restart(r)
    PROVE  live'[r].chart = live[r].chart
<1>1. /\ DOMAIN live = Release /\ pc = "idle" /\ live[r] # Absent
      /\ \E p : live' = [live EXCEPT ![r] = [live[r] EXCEPT !.pods = p]]
  BY DEF Restart, RolloutInv, TypeInv
<1>2. IsRelease(r, live[r])
  BY <1>1 DEF RolloutInv, LiveInv
<1>3. PICK p : live'[r] = [live[r] EXCEPT !.pods = p]
  BY <1>1
<1>4. live'[r] = Run(live[r].chart, live[r].input, live[r].secret, p)
  BY <1>2, <1>3, RunWith DEF IsRelease
<1> QED BY <1>4, RunFields

\* The service's release is the chart of the input it was deployed from.
LEMMA OwnRelease ==
    ASSUME RolloutInv, live[Self] # Absent
    PROVE  /\ live[Self].input \in Inputs /\ live[Self].chart = ChartFor(Self, live[Self].input)
           /\ live[Self].pods # Absent => ReadAsAnnotated(Self, live[Self].pods)
           /\ pc = "idle" => HasRolled(live[Self])
  BY Releases DEF RolloutInv, LiveInv, IsRelease

\* The environment of its chart is the split of the input's.
LEMMA ChartSplit ==
    ASSUME NEW in \in Inputs
    PROVE  \E split : /\ IsSplit(in, split)
                      /\ ChartFor(Self, in).template.env = split.env
                      /\ ChartFor(Self, in).secret = split.secretEnv
<1> DEFINE split == SplitFor(in)
<1>1. IsSplit(in, split)
  BY Splits
<1>2. ChartFor(Self, in).template.env = split.env /\ ChartFor(Self, in).secret = split.secretEnv
  BY ServiceChart, ServiceFields DEF SplitFor
<1> QED BY <1>1, <1>2

\* No value of the local environment or of an env_file is in a manifest, of the variables
\* that the extension does not give or that the declaring file's gives, in one way.
THEOREM HostValuesAreSecret == Spec => []HostValuesInSecret
<1>1. RolloutInv => HostValuesInSecret
  <2> DEFINE in == live[Self].input
  <2> SUFFICES ASSUME RolloutInv, live[Self] # Absent,
                      NEW e \in ToSet(live[Self].chart.template.env),
                      e.name \in Names(in.service.env) =>
                          GivenHere(in.service, e.name) /\ GivenOneWay(in.service, e.name)
               PROVE  Source(in, e.name).from \in {"literal", "ref"}
    BY DEF HostValuesInSecret
  <2>1. PICK split : IsSplit(in, split) /\ live[Self].chart.template.env = split.env
    BY OwnRelease, ChartSplit
  <2>2. e.name \in Names(split.env)
    BY <2>1, NamesOf
  <2>3. e.name \in Names(in.service.env) => Unmixed(in.service, e.name)
    BY DEF GivenOneWay, Unmixed
  <2> HIDE DEF in
  <2> QED BY <2>1, <2>2, <2>3 DEF IsSplit
<1> QED BY <1>1, RolloutInvariant, PTL

\* Rounding up takes enough steps, and no step too many.
LEMMA CeilBounds ==
    ASSUME NEW a \in Nat, NEW b \in Nat, b > 0
    PROVE  Ceil(a, b) * b >= a /\ (Ceil(a, b) - 1) * b < a
  BY DEF Ceil

\* What a duration is cut by.
LEMMA CutSeconds ==
    ASSUME NEW ms \in Nat
    PROVE  /\ Seconds(ms) \in Nat /\ Seconds(ms) * 1000 <= ms /\ ms < Seconds(ms) * 1000 + 1000
           /\ ms >= 1000 => Seconds(ms) > 0
  BY DEF Seconds

\* A startup probe that is derived from durations of a second or more covers the start
\* period but for less than a second, and less than an interval more.
THEOREM StartupIsCovered == Spec => []StartupWindow
<1>1. RolloutInv => StartupWindow
  <2> DEFINE in == live[Self].input
  <2> DEFINE check == in.service.healthcheck
  <2> DEFINE probe == live[Self].chart.template.probes.startup
  <2> DEFINE window == Seconds(check.startPeriod)
  <2> SUFFICES ASSUME RolloutInv, live[Self] # Absent, live[Self].chart.workload = "deployment",
                      in.service.probes.startup = NoProbe, probe # NoProbe,
                      check.startInterval >= 1000, check.startPeriod >= 1000
               PROVE  /\ probe.threshold * probe.period * 1000 > check.startPeriod - 1000
                      /\ (probe.threshold - 1) * probe.period * 1000 < check.startPeriod
    BY Zenon DEF StartupWindow
  <2>1. in \in Inputs /\ live[Self].chart = ChartFor(Self, in)
    BY OwnRelease
  <2>2. probe = resolveHealthCheck(in.service, resolveServicePorts(in.service)).startup
    <3>1. ~ServiceOf(in).job
      BY <2>1, ServiceChart
    <3>2. ChartFor(Self, in).template.probes = ServiceOf(in).probes
      BY <3>1, ServiceChart
    <3>3. ServiceOf(in).probes = resolveHealthCheck(in.service, resolveServicePorts(in.service))
      BY ServiceFields
    <3> HIDE DEF in
    <3> QED BY <2>1, <3>2, <3>3
  <2> DEFINE base == probeForCmd(check, resolveServicePorts(in.service))
  <2> DEFINE period == Seconds(check.startInterval)
  <2> DEFINE extra == [period |-> period, timeout |-> Seconds(check.timeout),
                       threshold |-> IF period > 0 /\ window > 0 THEN Ceil(window, period) ELSE 0]
  <2> HIDE DEF probe
  <2>3. probe = Over(base, extra)
    BY <2>2 DEF resolveHealthCheck, addStartUpIntervals
  <2>4. DOMAIN base \subseteq {"action", "port"}
    BY DEF probeForCmd, NoProbe
  <2> DEFINE start == check.startPeriod
  <2> DEFINE interval == check.startInterval
  <2>5. /\ window \in Nat /\ period \in Nat /\ period > 0 /\ start \in Nat /\ window > 0
        /\ window * 1000 <= start /\ start < window * 1000 + 1000
    <3>1. start \in Nat /\ interval \in Nat
      BY <2>1, InputsAssumption
    <3>2. start >= 1000 /\ interval >= 1000
      OBVIOUS
    <3>3. window = Seconds(start) /\ period = Seconds(interval)
      OBVIOUS
    <3> HIDE DEF start, interval, window, period
    <3> QED BY <3>1, <3>2, <3>3, CutSeconds
  <2>6. /\ extra.period = period /\ DOMAIN extra = {"period", "timeout", "threshold"}
        /\ extra.threshold = Ceil(window, period)
    <3> HIDE DEF window, period
    <3> QED BY <2>5
  <2> HIDE DEF base, extra, period, window, in
  <2>7. probe.period = period /\ probe.threshold = extra.threshold
    BY <2>3, <2>4, <2>6 DEF Over
  <2> DEFINE n == Ceil(window, period)
  <2>8. n \in Int /\ n * period >= window /\ (n - 1) * period < window
    <3>1. n \in Int
      BY <2>5 DEF Ceil
    <3> QED BY <2>5, <3>1, CeilBounds
  <2>9. probe.period = period /\ probe.threshold = n
    BY <2>6, <2>7
  <2> HIDE DEF n, start
  <2> DEFINE covered == n * period
  <2> DEFINE before == (n - 1) * period
  <2>11. covered \in Int /\ before \in Int /\ covered >= window /\ before < window
    BY <2>5, <2>8
  <2> HIDE DEF covered, before
  <2>12. covered * 1000 > start - 1000 /\ before * 1000 < start
    BY <2>5, <2>11
  <2> QED BY <2>9, <2>12 DEF covered, before, start
<1> QED BY <1>1, RolloutInvariant, PTL

\* The sources of a template, one by one.
LEMMA SourcesOf ==
    ASSUME NEW own, NEW declares
    PROVE  EnvFrom(own, declares) =
               IF own # NoData
               THEN IF declares # {} THEN <<"secret", "declared">> ELSE <<"secret">>
               ELSE IF declares # {} THEN <<"declared">> ELSE <<>>
<1> DEFINE a == <<"secret">>
<1> DEFINE b == <<"declared">>
<1> DEFINE A == {"secret", "declared"}
<1>1. a \in Seq(A) /\ Len(a) = 1 /\ a[1] = "secret" /\ b \in Seq(A) /\ Len(b) = 1 /\ b[1] = "declared"
  OBVIOUS
<1>2. a \o b = <<"secret", "declared">>
  <2> HIDE DEF a, b, A
  <2>0. a \in Seq(A) /\ b \in Seq(A)
    BY <1>1
  <2>1. a \o b \in Seq(A)
    BY <2>0, LengthOfBoth
  <2>2. Len(a \o b) = Len(a) + Len(b)
    BY <2>0, LengthOfBoth
  <2>3. \A i \in 1..(Len(a) + Len(b)) : (a \o b)[i] = IF i <= Len(a) THEN a[i] ELSE b[i - Len(a)]
    BY <2>0, LengthOfBoth
  <2>4. (a \o b)[1] = "secret" /\ (a \o b)[2] = "declared"
    BY <1>1, <2>3
  <2> DEFINE both == a \o b
  <2>5. both \in Seq(A) /\ Len(both) = 2 /\ both[1] = "secret" /\ both[2] = "declared"
    BY <1>1, <2>1, <2>2, <2>4
  <2> HIDE DEF both
  <2>6. both = <<"secret", "declared">>
    BY <2>5
  <2> QED BY <2>6 DEF both
<1>3. <<"secret">> \o <<>> = <<"secret">> /\ <<>> \o <<"declared">> = <<"declared">>
      /\ <<>> \o <<>> = <<>>
  OBVIOUS
<1> QED BY <1>2, <1>3 DEF EnvFrom, a, b

\* What that template makes of k, with that Secret.
IsSeen(template, secret, own, declares, k) ==
    LET env == PodEnv(template, secret)
    IN /\ k \in Names(template.env) =>
              /\ k \in DOMAIN env
              /\ env[k] = LastNamed(template.env, k).value
       /\ k \notin Names(template.env) /\ k \in declares =>
              k \in DOMAIN env /\ env[k] = "declared"
       /\ k \notin Names(template.env) /\ k \notin declares /\ k \in DOMAIN own =>
              k \in DOMAIN env /\ env[k] = own[k]
       /\ k \notin Names(template.env) /\ k \notin declares /\ k \notin DOMAIN secret =>
              k \notin DOMAIN env

\* What a container of the service sees, of any pods that have read what they are annotated
\* with: its own env first, then the declared sources, then the Secret.
LEMMA Sees ==
    ASSUME NEW template, NEW secret, NEW own, NEW declares, NEW k,
           template.envFrom = EnvFrom(own, declares), template.declares = declares,
           Agrees(own, secret)
    PROVE  IsSeen(template, secret, own, declares, k)
<1> DEFINE sources == template.envFrom
<1> DEFINE of(i) == SourceData(template, secret, sources[i])
<1> DEFINE having(n) == {i \in DOMAIN sources : n \in DOMAIN of(i)}
<1> DEFINE last(n) == CHOOSE i \in having(n) : \A j \in having(n) : j <= i
<1> DEFINE first == [n \in Names(template.env) |->
                        LastNamed(template.env, n).value]
<1> DEFINE rest == [n \in UNION {DOMAIN of(i) : i \in DOMAIN sources} |-> of(last(n))[n]]
<1> DEFINE env == PodEnv(template, secret)
<1>1. env = Over(first, rest)
  BY DEF PodEnv
<1> HIDE DEF env
<1>2. DOMAIN first = Names(template.env)
  OBVIOUS
<1>3. DOMAIN rest = UNION {DOMAIN of(i) : i \in DOMAIN sources}
  OBVIOUS
<1>4. sources = IF own # NoData
                THEN IF declares # {} THEN <<"secret", "declared">> ELSE <<"secret">>
                ELSE IF declares # {} THEN <<"declared">> ELSE <<>>
  BY SourcesOf
<1>5. \A i \in DOMAIN sources :
          of(i) = IF sources[i] = "secret" THEN secret ELSE [n \in declares |-> "declared"]
  BY DEF SourceData
<1>6. DOMAIN own # {} => own # NoData
  BY DEF NoData
<1>7. k \in Names(template.env) =>
          k \in DOMAIN env /\ env[k] = LastNamed(template.env, k).value
  <2> HIDE DEF rest
  <2> QED BY <1>1 DEF Over
<1>8. k \notin Names(template.env) =>
          /\ k \in DOMAIN env <=> k \in DOMAIN rest
          /\ k \in DOMAIN rest => env[k] = rest[k]
  <2> HIDE DEF rest, first
  <2> QED BY <1>1, <1>2 DEF Over
<1>9. k \in DOMAIN rest <=> \E i \in DOMAIN sources : k \in DOMAIN of(i)
  <2> HIDE DEF of, sources
  <2> QED OBVIOUS
<1>10. k \in DOMAIN rest => rest[k] = of(last(k))[k]
  <2> HIDE DEF of, last, sources
  <2> QED OBVIOUS
<1>11. CASE k \in declares
  <2>1. declares # {}
    BY <1>11
  <2>2. \E n \in DOMAIN sources :
            /\ n \in Nat /\ sources[n] = "declared"
            /\ \A j \in DOMAIN sources : j <= n
            /\ DOMAIN sources \subseteq Nat
    <3>1. CASE own # NoData
      <4>1. sources = <<"secret", "declared">>
        BY <1>4, <2>1, <3>1
      <4> HIDE DEF sources
      <4> QED BY <4>1
    <3>2. CASE own = NoData
      <4>1. sources = <<"declared">>
        BY <1>4, <2>1, <3>2
      <4> HIDE DEF sources
      <4> QED BY <4>1
    <3> QED BY <3>1, <3>2
  <2>3. PICK n \in DOMAIN sources :
            /\ n \in Nat /\ sources[n] = "declared"
            /\ \A j \in DOMAIN sources : j <= n
            /\ DOMAIN sources \subseteq Nat
    BY <2>2
  <2>4. of(n) = [m \in declares |-> "declared"]
    BY <1>5, <2>3
  <2> HIDE DEF of, sources
  <2>5. n \in having(k) /\ \A j \in having(k) : j <= n /\ j \in Nat
    BY <1>11, <2>3, <2>4
  <2>6. last(k) = n
    <3> HIDE DEF having
    <3>1. \A i \in having(k) : (\A j \in having(k) : j <= i) => i = n
      BY <2>3, <2>5
    <3> QED BY <2>5, <3>1
  <2>7. k \in DOMAIN rest /\ rest[k] = "declared"
    <3> HIDE DEF rest, last
    <3> QED BY <1>9, <1>10, <1>11, <2>4, <2>6
  <2> HIDE DEF rest
  <2> QED BY <1>7, <1>8, <1>11, <2>7 DEF env, IsSeen
<1>12. CASE k \notin declares
  <2>1. ASSUME NEW i \in DOMAIN sources, k \in DOMAIN of(i)
        PROVE  sources[i] = "secret" /\ of(i) = secret
    BY <1>5, <1>12, <2>1
  <2>2. k \in DOMAIN own => \E i \in DOMAIN sources : sources[i] = "secret"
    <3> SUFFICES ASSUME k \in DOMAIN own PROVE \E i \in DOMAIN sources : sources[i] = "secret"
      OBVIOUS
    <3>1. sources \in {<<"secret", "declared">>, <<"secret">>}
      BY <1>4, <1>6
    <3> HIDE DEF sources
    <3>2. 1 \in DOMAIN sources /\ sources[1] = "secret"
      BY <3>1
    <3> QED BY <3>2
  <2>3. k \in DOMAIN own => k \in DOMAIN secret /\ secret[k] = own[k]
    BY DEF Agrees
  <2>4. \A i, j \in DOMAIN sources : sources[i] = "secret" /\ sources[j] = "secret" => i = j
    <3>1. sources \in {<<"secret", "declared">>, <<"secret">>, <<"declared">>, <<>>}
      BY <1>4
    <3> HIDE DEF sources
    <3> QED BY <3>1
  <2>5. k \in DOMAIN own => k \in DOMAIN rest /\ rest[k] = own[k]
    <3> SUFFICES ASSUME k \in DOMAIN own PROVE k \in DOMAIN rest /\ rest[k] = own[k]
      OBVIOUS
    <3>1. PICK i \in DOMAIN sources : sources[i] = "secret"
      BY <2>2
    <3>2. of(i) = secret
      BY <1>5, <3>1
    <3> HIDE DEF of, sources
    <3>3. having(k) = {i}
      <4>1. i \in having(k)
        BY <2>3, <3>2
      <4>2. \A j \in having(k) : j = i
        BY <2>1, <2>4, <3>1
      <4> HIDE DEF having
      <4> QED BY <4>1, <4>2
    <3>4. i <= i
      <4>1. i \in Nat
        <5>1. sources \in {<<"secret", "declared">>, <<"secret">>}
          BY <1>4, <1>6 DEF sources
        <5> QED BY <5>1
      <4> QED BY <4>1
    <3>5. last(k) = i
      <4> HIDE DEF having
      <4> QED BY <3>3, <3>4
    <3> HIDE DEF rest, last
    <3> QED BY <1>9, <1>10, <2>3, <3>2, <3>5
  <2>6. k \notin DOMAIN secret => k \notin DOMAIN rest
    <3> HIDE DEF rest, of, sources
    <3> QED BY <1>9, <2>1
  <2> HIDE DEF rest
  <2> QED BY <1>7, <1>8, <1>12, <2>5, <2>6 DEF env, IsSeen
<1> QED BY <1>11, <1>12
-----------------------------------------------------------------------------
(* What the pods see.                                                       *)

\* What a container of that environment sees.
SeenIn(env, k) == IF k \in DOMAIN env THEN env[k] ELSE Unset

\* Where a variable is worth something, and in no case elsewhere, it is found: in the
\* template, a declared source or the Secret.
LEMMA SplitSeen ==
    ASSUME NEW in \in Inputs, NEW split, IsSplit(in, split), NEW template, NEW secret,
           NEW k, Comparable(in.service, k), template.env = split.env,
           template.envFrom = EnvFrom(split.secretEnv, in.service.envFrom),
           template.declares = in.service.envFrom,
           Agrees(split.secretEnv, secret)
    PROVE  \/ SeenIn(PodEnv(template, secret), k) = Expected(in, k)
           \/ Expected(in, k) = Unset /\ k \in DOMAIN secret \ DOMAIN split.secretEnv
<1> DEFINE env == PodEnv(template, secret)
<1> DEFINE inline == k \in Names(split.env)
<1>1. /\ inline => k \in DOMAIN env
                   /\ env[k] = LastNamed(split.env, k).value
      /\ ~inline /\ k \in in.service.envFrom => k \in DOMAIN env /\ env[k] = "declared"
      /\ ~inline /\ k \notin in.service.envFrom /\ k \in DOMAIN split.secretEnv =>
             k \in DOMAIN env /\ env[k] = split.secretEnv[k]
      /\ ~inline /\ k \notin in.service.envFrom /\ k \notin DOMAIN secret => k \notin DOMAIN env
  <2> DEFINE own == split.secretEnv
  <2> DEFINE declares == in.service.envFrom
  <2> HIDE DEF env
  <2>1. template.envFrom = EnvFrom(own, declares) /\ template.declares = declares /\ Agrees(own, secret)
    OBVIOUS
  <2> HIDE DEF own, declares
  <2>2. /\ k \in Names(template.env) =>
             k \in DOMAIN env /\ env[k] = LastNamed(template.env, k).value
        /\ k \notin Names(template.env) /\ k \in declares => k \in DOMAIN env /\ env[k] = "declared"
        /\ k \notin Names(template.env) /\ k \notin declares /\ k \in DOMAIN own =>
              k \in DOMAIN env /\ env[k] = own[k]
        /\ k \notin Names(template.env) /\ k \notin declares /\ k \notin DOMAIN secret =>
              k \notin DOMAIN env
    <3>1. IsSeen(template, secret, own, declares, k)
      BY <2>1, Sees
    <3> QED BY <3>1 DEF IsSeen, env
  <2> QED BY <2>2 DEF own, declares
<1> HIDE DEF env
<1>2. Expected(in, k) =
          IF Worth(in, k) # Nil /\ Source(in, k).from \in {"literal", "ref"} THEN Worth(in, k)
          ELSE IF k \in in.service.envFrom THEN "declared"
          ELSE IF Worth(in, k) # Nil THEN Worth(in, k) ELSE Unset
  BY DEF Expected, Worth
<1>3. /\ inline => LastNamed(split.env, k).value = Worth(in, k)
      /\ k \in DOMAIN split.secretEnv => split.secretEnv[k] = Worth(in, k)
      /\ Worth(in, k) # Nil <=> inline \/ k \in DOMAIN split.secretEnv
      /\ k \in in.service.envFrom =>
            (inline <=> Worth(in, k) # Nil /\ Source(in, k).from \in {"literal", "ref"})
  BY DEF IsSplit, Comparable
<1>4. CASE inline
  <2> HIDE DEF inline
  <2>9. \/ SeenIn(env, k) = Expected(in, k)
        \/ Expected(in, k) = Unset /\ k \in DOMAIN secret \ DOMAIN split.secretEnv
    BY <1>1, <1>2, <1>3, <1>4 DEF SeenIn
  <2> QED BY <2>9 DEF env
<1>5. CASE ~inline /\ k \in in.service.envFrom
  <2> HIDE DEF inline
  <2>9. \/ SeenIn(env, k) = Expected(in, k)
        \/ Expected(in, k) = Unset /\ k \in DOMAIN secret \ DOMAIN split.secretEnv
    BY <1>1, <1>2, <1>3, <1>5 DEF SeenIn
  <2> QED BY <2>9 DEF env
<1>6. CASE ~inline /\ k \notin in.service.envFrom
  <2> HIDE DEF inline
  <2>9. \/ SeenIn(env, k) = Expected(in, k)
        \/ Expected(in, k) = Unset /\ k \in DOMAIN secret \ DOMAIN split.secretEnv
    BY <1>1, <1>2, <1>3, <1>6 DEF SeenIn
  <2> QED BY <2>9 DEF env
<1> QED BY <1>4, <1>5, <1>6

\* Between deploys the pods see each variable with the value that the deployed input gives
\* it, and the files as they were read; over that the Secret retains a variable at most.
\* Left out are a name given both as a reference and as a value, and one that an envFrom
\* source has as well as an included file, but not the declaring one.
THEOREM ValuesAreRead == Spec => []ValuesReachPods
<1>1. RolloutInv => ValuesReachPods
  <2> DEFINE in == live[Self].input
  <2> DEFINE pods == live[Self].pods
  <2> SUFFICES ASSUME RolloutInv, Settled
               PROVE  /\ \A k \in {n \in ToSet(NameOrder) : Comparable(in.service, n)} :
                            \/ Seen(Self, k) = Expected(in, k)
                            \/ Expected(in, k) = Unset /\ k \in pods.retained
                      /\ pods.files = Contents(in.service.configMapFrom, in.disk)
    BY DEF ValuesReachPods
  <2>1. /\ in \in Inputs /\ live[Self].chart = ChartFor(Self, in)
        /\ ReadAsAnnotated(Self, pods) /\ pods.template = ChartFor(Self, in).template
    BY OwnRelease DEF Settled, HasRolled
  <2> DEFINE split == SplitFor(in)
  <2> DEFINE template == pods.template
  <2> DEFINE files == Contents(in.service.configMapFrom, in.disk)
  <2>2. IsSplit(in, split)
    BY <2>1, Splits
  <2>3. /\ template.env = split.env
        /\ template.envFrom = EnvFrom(split.secretEnv, in.service.envFrom)
        /\ template.declares = in.service.envFrom
        /\ template.annotations = [configMap |-> files, secret |-> split.secretEnv]
    <3>1. template = ChartFor(Self, in).template
      BY <2>1
    <3> HIDE DEF in, pods, template
    <3>2. /\ ServiceOf(in).env = split.env /\ ServiceOf(in).secretEnv = split.secretEnv
          /\ ServiceOf(in).envFrom = in.service.envFrom
          /\ ServiceOf(in).configMapFrom = in.service.configMapFrom
      BY ServiceFields DEF SplitFor
    <3> DEFINE c == ChartFor(Self, in)
    <3> DEFINE r == ServiceOf(in)
    <3>3. /\ c.secret = r.secretEnv /\ c.configMap = Contents(r.configMapFrom, in.disk)
          /\ c.template.env = r.env
          /\ c.template.envFrom = EnvFrom(r.secretEnv, r.envFrom)
          /\ c.template.declares = r.envFrom
          /\ c.template.annotations = [configMap |-> c.configMap, secret |-> c.secret]
      BY ServiceChart
    <3> HIDE DEF split
    <3> QED BY <3>1, <3>2, <3>3
  <2> HIDE DEF split, template, files, in
  <2>4. pods.files = files
    BY <2>1, <2>3 DEF ReadAsAnnotated, FilesOf, template
  <2>5. PICK secret :
            /\ Agrees(split.secretEnv, secret) /\ pods.env = PodEnv(template, secret)
            /\ pods.retained = DOMAIN secret \ DOMAIN split.secretEnv
    BY <2>1, <2>3 DEF ReadAsAnnotated, SecretOf, template
  <2>6. ASSUME NEW k \in ToSet(NameOrder), Comparable(in.service, k)
        PROVE  \/ Seen(Self, k) = Expected(in, k)
               \/ Expected(in, k) = Unset /\ k \in pods.retained
    <3>1. Seen(Self, k) = SeenIn(pods.env, k)
      BY DEF Seen, SeenIn
    <3> HIDE DEF pods
    <3> QED BY <2>1, <2>2, <2>3, <2>5, <2>6, <3>1, SplitSeen
  <2> QED BY <2>4, <2>6 DEF files
<1> QED BY <1>1, RolloutInvariant, PTL
-----------------------------------------------------------------------------
(* The agent.                                                               *)

\* The services an input publishes.
PublishedBy(in) ==
    IF in.token = "" THEN {}
    ELSE in.neighbours \union
         {n \in {Self} : in.service.ngrok.port # 0 /\ ~in.service.skip
                         /\ in.service.deploymentType # "job"}

\* One endpoint for each, in the one order, with the port and the URL that were asked for.
LEMMA EndpointsMatch ==
    ASSUME NEW in \in Inputs
    PROVE  LET endpoints == EndpointsOf(in)
           IN /\ {e.service : e \in ToSet(endpoints)} = PublishedBy(in)
              /\ endpoints = <<>> <=> PublishedBy(in) = {}
              /\ endpoints = Endpoints(ServiceOf(in), Sorted(PublishedBy(in)))
              /\ \A e \in ToSet(endpoints) :
                    e.service = Self => /\ e.ngrok = ServiceOf(in).ngrok
                                        /\ e.ngrok.port = in.service.ngrok.port
                                        /\ e.ngrok.url = in.service.ngrok.url
<1> DEFINE r == ServiceOf(in)
<1> DEFINE own == in.service.ngrok
<1> DEFINE published == PublishedBy(in)
<1> DEFINE order == Sorted(published)
<1> DEFINE endpoints == EndpointsOf(in)
<1>1. /\ own \in [port : Nat, trafficPolicy : STRING, url : STRING]
      /\ in.neighbours \subseteq ToSet(NameOrder) \ {Self} /\ Self \in ToSet(NameOrder)
  BY InputsAssumption
<1>2. /\ in.token = "" => r.ngrok = NoNgrok
      /\ in.token # "" => r.ngrok.port = own.port /\ r.ngrok.url = own.url
  <2> DEFINE ports == {p.port : p \in ToSet(resolveServicePorts(in.service))}
  <2> DEFINE policy == in.service.topPolicy
  <2>1. r.ngrok = resolveNgrok(policy, own, ports, in.token # "").ngrok
    BY ServiceFields
  <2> HIDE DEF r, ports, policy, own
  <2>2. r.ngrok = IF in.token # "" THEN [own EXCEPT !.trafficPolicy = First(@, policy)] ELSE NoNgrok
    BY <2>1 DEF resolveNgrok
  <2> QED BY <1>1, <2>2
<1>3. r.skip = in.service.skip /\ r.job = (in.service.deploymentType = "job")
  BY ServiceFields
<1> DEFINE neighbours == IF in.token = "" THEN {} ELSE in.neighbours
<1>4. Publishing(r, neighbours) = published
  <2> HIDE DEF r
  <2>1. CASE in.token = ""
    <3>1. r.ngrok.port = 0
      <4>1. NoNgrok.port = 0
        BY DEF NoNgrok
      <4>2. r.ngrok = NoNgrok
        BY <1>2, <2>1
      <4> QED BY <4>1, <4>2
    <3> QED BY <2>1, <3>1 DEF Publishing, Publishes, PublishedBy
  <2>2. CASE in.token # ""
    <3>1. r.ngrok.port = own.port
      BY <1>2, <2>2
    <3>2. Publishes(r) <=> own.port # 0 /\ ~in.service.skip /\ in.service.deploymentType # "job"
      <4>1. ~r.job <=> in.service.deploymentType # "job"
        BY <1>3
      <4> QED BY <1>3, <3>1, <4>1, Zenon DEF Publishes
    <3>3. CASE Publishes(r)
      BY <2>2, <3>2, <3>3 DEF Publishing, PublishedBy
    <3>4. CASE ~Publishes(r)
      BY <2>2, <3>2, <3>4 DEF Publishing, PublishedBy
    <3> QED BY <3>3, <3>4
  <2> QED BY <2>1, <2>2
<1>5. endpoints = Endpoints(r, order)
  BY <1>4 DEF EndpointsOf
<1>6. order \in Seq(ToSet(NameOrder)) /\ ToSet(order) = published
  <2>1. published \subseteq ToSet(NameOrder)
    BY <1>1 DEF PublishedBy
  <2> HIDE DEF published
  <2> QED BY <2>1, SortedKeys
<1>7. Self \in published => in.token # ""
  BY <1>1 DEF PublishedBy
<1> HIDE DEF r, order, endpoints, published
<1>8. endpoints = [i \in DOMAIN order |->
                      [service |-> order[i], ngrok |-> IF order[i] = Self THEN r.ngrok ELSE NoNgrok]]
  BY <1>5 DEF Endpoints
<1>9. {e.service : e \in ToSet(endpoints)} = published
  BY <1>6, <1>8 DEF ToSet
<1>10. endpoints = <<>> <=> published = {}
  <2>1. DOMAIN order = 1..Len(order) /\ Len(order) \in Nat
    BY <1>6
  <2>2. published = {} <=> DOMAIN order = {}
    BY <1>6 DEF ToSet
  <2>3. DOMAIN endpoints = DOMAIN order
    BY <1>8
  <2>4. endpoints = <<>> <=> DOMAIN endpoints = {}
    <3>1. DOMAIN <<>> = {}
      OBVIOUS
    <3>2. ASSUME DOMAIN endpoints = {} PROVE endpoints = <<>>
      <4>1. Len(order) = 0
        BY <2>1, <2>3, <3>2
      <4>2. endpoints \in Seq({}) /\ Len(endpoints) = 0
        <5>1. endpoints = [i \in 1..0 |-> i]
          BY <1>8, <2>3, <3>2
        <5> QED BY <5>1
      <4> QED BY <4>2
    <3> QED BY <3>1, <3>2
  <2> QED BY <2>2, <2>3, <2>4
<1>11. ASSUME NEW e \in ToSet(endpoints), e.service = Self
       PROVE  /\ e.ngrok = r.ngrok
              /\ e.ngrok.port = in.service.ngrok.port /\ e.ngrok.url = in.service.ngrok.url
  <2>1. e.ngrok = r.ngrok
    BY <1>8, <1>11 DEF ToSet
  <2>2. Self \in published
    BY <1>9, <1>11
  <2> QED BY <1>2, <1>7, <2>1, <2>2
<1> QED BY <1>5, <1>9, <1>10, <1>11 DEF r, order, endpoints, published

\* The token of its Secret is what the agent sees.
LEMMA AgentToken ==
    ASSUME NEW pods, ReadAsAnnotated(NgrokRelease, pods), NEW in,
           pods.template = ChartFor(NgrokRelease, in).template
    PROVE  /\ pods.env["NGROK_AUTHTOKEN"] = in.token
           /\ pods.files["ngrok.yml"] = EndpointsOf(in)
<1> DEFINE template == pods.template
<1> DEFINE k == "NGROK_AUTHTOKEN"
<1> DEFINE own == AgentSecret(in.token)
<1>1. /\ template.env = <<>> /\ template.envFrom = <<"secret">> /\ template.declares = {}
      /\ template.annotations = [configMap |-> EndpointsOf(in), secret |-> in.token]
  BY AgentChart
<1> HIDE DEF template
<1>2. /\ SecretOf(NgrokRelease, template) = own
      /\ FilesOf(NgrokRelease, template) = AgentConfig(EndpointsOf(in))
  BY <1>1, Releases DEF SecretOf, FilesOf
<1>3. PICK secret : Agrees(own, secret) /\ pods.env = PodEnv(template, secret)
  BY <1>2 DEF ReadAsAnnotated, template
<1>4. pods.files = AgentConfig(EndpointsOf(in))
  BY <1>2 DEF ReadAsAnnotated, template
<1>5. DOMAIN own = {k} /\ own[k] = in.token
  BY DEF AgentSecret
<1>6. own # NoData
  <2>1. DOMAIN NoData = {}
    BY DEF NoData
  <2> QED BY <1>5, <2>1
<1>7. EnvFrom(own, {}) = <<"secret">>
  BY <1>6, SourcesOf
<1> DEFINE none == {}
<1>8. IsSeen(template, secret, own, none, k)
  <2>1. template.envFrom = EnvFrom(own, none) /\ template.declares = none
    BY <1>1, <1>7
  <2> HIDE DEF none, own, k
  <2> QED BY <1>3, <2>1, Sees
<1>9. k \notin Names(template.env)
  BY <1>1 DEF Names
<1> DEFINE env == PodEnv(template, secret)
<1>10. env[k] = own[k]
  <2>1. k \notin none /\ k \in DOMAIN own
    BY <1>5
  <2> HIDE DEF own, none, k
  <2> QED BY <1>8, <1>9, <2>1 DEF IsSeen
<1>11. AgentConfig(EndpointsOf(in))["ngrok.yml"] = EndpointsOf(in)
  BY DEF AgentConfig
<1> HIDE DEF own
<1> QED BY <1>3, <1>4, <1>5, <1>10, <1>11

\* After a successful deploy the agent runs exactly when something is published, and has
\* read the token and the endpoints of that deploy.
THEOREM AgentHasRead == Spec => []AgentIsCurrent
<1>1. RolloutInv => AgentIsCurrent
  <2> DEFINE in == deploy.input
  <2> DEFINE agent == live[NgrokRelease]
  <2> DEFINE s == in.service
  <2> SUFFICES ASSUME RolloutInv, pc = "idle", outcome = "ok"
               PROVE  IF PublishedBy(in) = {} THEN agent = Absent
                      ELSE /\ agent # Absent
                           /\ agent.pods.env["NGROK_AUTHTOKEN"] = in.token
                           /\ {e.service : e \in ToSet(agent.pods.files["ngrok.yml"])} = PublishedBy(in)
                           /\ \A e \in ToSet(agent.pods.files["ngrok.yml"]) :
                                 e.service = Self => e.ngrok.port = s.ngrok.port /\ e.ngrok.url = s.ngrok.url
    BY Zenon DEF AgentIsCurrent, PublishedBy
  <2>1. in \in Inputs /\ deploy.endpoints = EndpointsOf(in)
    BY DEF RolloutInv, DeployInv, Deploying
  <2>2. IF deploy.endpoints = <<>> THEN agent = Absent
        ELSE agent # Absent /\ agent.chart = ChartFor(NgrokRelease, in)
    BY DEF RolloutInv, AgentInv
  <2>3. agent # Absent => IsRelease(NgrokRelease, agent) /\ HasRolled(agent)
    BY Releases DEF RolloutInv, LiveInv
  <2> DEFINE endpoints == EndpointsOf(in)
  <2>4. /\ {e.service : e \in ToSet(endpoints)} = PublishedBy(in)
        /\ endpoints = <<>> <=> PublishedBy(in) = {}
        /\ \A e \in ToSet(endpoints) :
              e.service = Self => e.ngrok.port = s.ngrok.port /\ e.ngrok.url = s.ngrok.url
    <3> HIDE DEF in
    <3> QED BY <2>1, EndpointsMatch DEF s
  <2>5. CASE PublishedBy(in) = {}
    BY <2>1, <2>2, <2>4, <2>5
  <2>6. CASE PublishedBy(in) # {}
    <3>1. agent # Absent /\ agent.chart = ChartFor(NgrokRelease, in)
      BY <2>1, <2>2, <2>4, <2>6
    <3> DEFINE pods == agent.pods
    <3>2. ReadAsAnnotated(NgrokRelease, pods) /\ pods.template = ChartFor(NgrokRelease, in).template
      BY <2>3, <3>1 DEF IsRelease, HasRolled
    <3> HIDE DEF pods, in, agent
    <3>3. pods.env["NGROK_AUTHTOKEN"] = in.token /\ pods.files["ngrok.yml"] = endpoints
      BY <3>2, AgentToken
    <3> HIDE DEF endpoints, s
    <3> QED BY <2>4, <2>6, <3>1, <3>3 DEF pods
  <2> QED BY <2>5, <2>6
<1> QED BY <1>1, RolloutInvariant, PTL

\* The same endpoints, in whatever order, are the same list.
LEMMA SameEndpoints ==
    ASSUME NEW a \in Inputs, NEW b \in Inputs, ToSet(EndpointsOf(a)) = ToSet(EndpointsOf(b))
    PROVE  EndpointsOf(a) = EndpointsOf(b)
<1>1. PublishedBy(a) = PublishedBy(b)
  BY EndpointsMatch
<1> DEFINE order == Sorted(PublishedBy(a))
<1> DEFINE r == ServiceOf(a)
<1> DEFINE q == ServiceOf(b)
<1>2. EndpointsOf(a) = Endpoints(r, order) /\ EndpointsOf(b) = Endpoints(q, order)
  BY <1>1, EndpointsMatch
<1>3. \A e \in ToSet(EndpointsOf(a)) : e.service = Self => e.ngrok = r.ngrok
  BY EndpointsMatch
<1>4. \A e \in ToSet(EndpointsOf(a)) : e.service = Self => e.ngrok = q.ngrok
  BY EndpointsMatch
<1> HIDE DEF order, r, q
<1>5. ASSUME NEW i \in DOMAIN order, order[i] = Self PROVE r.ngrok = q.ngrok
  <2> DEFINE e == EndpointsOf(a)[i]
  <2>1. e \in ToSet(EndpointsOf(a)) /\ e.service = Self
    BY <1>2, <1>5 DEF Endpoints, ToSet
  <2> HIDE DEF e
  <2> QED BY <1>3, <1>4, <2>1
<1>6. Endpoints(r, order) = Endpoints(q, order)
  BY <1>5 DEF Endpoints
<1> QED BY <1>2, <1>6

\* What is another template comes of another input.
LEMMA OtherTemplate ==
    ASSUME RolloutInv, pc \in {"wait", "rolled"}, deploy.before # Absent,
           ChartFor(target, deploy.input).template # deploy.before.chart.template
    PROVE  IF target = Self THEN deploy.before.input # deploy.input
           ELSE \/ ToSet(deploy.before.chart.configMap["ngrok.yml"]) # ToSet(deploy.endpoints)
                \/ deploy.before.chart.secret["NGROK_AUTHTOKEN"] # deploy.input.token
<1> DEFINE old == deploy.before
<1> DEFINE in == deploy.input
<1>1. in \in Inputs /\ deploy.endpoints = EndpointsOf(in)
  BY DEF RolloutInv, DeployInv, Deploying
<1>2. IsRelease(target, old) /\ target \in Release
  BY DEF RolloutInv, TypeInv, TargetInv
<1>3. PICK b \in Inputs : old.chart = ChartFor(target, b) /\ (target = Self => old.input = b)
  BY <1>2 DEF IsRelease
<1>4. CASE target = Self
  BY <1>3, <1>4
<1>5. CASE target = NgrokRelease
  <2> SUFFICES ASSUME ToSet(old.chart.configMap["ngrok.yml"]) = ToSet(deploy.endpoints),
                      old.chart.secret["NGROK_AUTHTOKEN"] = in.token
               PROVE  FALSE
    BY <1>5, Releases
  <2> HIDE DEF in, old
  <2>0. old.chart.configMap = AgentConfig(EndpointsOf(b)) /\ old.chart.secret = AgentSecret(b.token)
    BY <1>3, <1>5, AgentChart
  <2>1. old.chart.configMap["ngrok.yml"] = EndpointsOf(b)
    BY <2>0 DEF AgentConfig
  <2>2. old.chart.secret["NGROK_AUTHTOKEN"] = b.token
    BY <2>0 DEF AgentSecret
  <2>3. EndpointsOf(b) = EndpointsOf(in)
    BY <1>1, <2>1, SameEndpoints
  <2>4. ChartFor(NgrokRelease, b) = ChartFor(NgrokRelease, in)
    BY <2>2, <2>3, Releases DEF ChartFor
  <2> QED BY <1>3, <1>5, <2>4 DEF in, old
<1> QED BY <1>2, <1>4, <1>5 DEF Release

\* A deploy of the same input gives the service's pods no other template; the agent keeps its
\* own while the same services publish the same ports under the same token.
THEOREM UnchangedPodsStay == Spec => UnchangedKeepsPods
<1> DEFINE Other(r) ==
        IF r = Self THEN deploy.before.input # deploy.input
        ELSE \/ ToSet(deploy.before.chart.configMap["ngrok.yml"]) # ToSet(deploy.endpoints)
             \/ deploy.before.chart.secret["NGROK_AUTHTOKEN"] # deploy.input.token
<1> DEFINE Stays ==
        \A r \in Release :
            /\ live[r] # Absent /\ live[r].pods # Absent /\ live'[r] # Absent
            /\ live'[r].pods # Absent /\ live'[r].pods.template # live[r].pods.template
            => Other(r)
<1>1. RolloutInv /\ RolloutInv' /\ [Next]_vars => [Stays]_vars
  <2> SUFFICES ASSUME RolloutInv, RolloutInv', [Next]_vars, NEW r \in Release,
                      live[r] # Absent, live[r].pods # Absent, live'[r] # Absent,
                      live'[r].pods # Absent, live'[r].pods.template # live[r].pods.template
               PROVE  Other(r)
    OBVIOUS
  <2> HIDE DEF Other
  <2>1. DOMAIN live = Release /\ target \in Release
    BY DEF RolloutInv, TypeInv
  <2>2. CASE Edit \/ RefuseInput \/ Resolve \/ RefuseFiles \/ PassOver \/ Settle \/ UNCHANGED vars
    <3>1. live' = live
      BY <2>2 DEF Edit, RefuseInput, Resolve, RefuseFiles, PassOver, Settle, vars
    <3> QED BY <3>1
  <2>3. CASE RemoveAgent
    <3>1. live' = [live EXCEPT ![NgrokRelease] = Absent]
      BY <2>3 DEF RemoveAgent
    <3> QED BY <2>1, <3>1
  <2>4. CASE Apply
    <3> DEFINE old == live[target]
    <3> DEFINE R == IF old = Absent
                    THEN Run(Chart, IF target = Self THEN deploy.input ELSE Absent, Chart.secret, Absent)
                    ELSE Run(Chart, IF target = Self THEN deploy.input ELSE Absent,
                             Patched(old.chart, old.secret, Chart.secret), old.pods)
    <3>1. live' = [live EXCEPT ![target] = R]
      BY <2>4 DEF Apply, Run
    <3>2. R.pods = IF old = Absent THEN Absent ELSE old.pods
      BY RunFields
    <3> HIDE DEF R
    <3> QED BY <2>1, <3>1, <3>2
  <2>5. CASE \E q \in Release : Restart(q)
    <3>1. PICK q \in Release : Restart(q)
      BY <2>5
    <3>2. pc = "idle" /\ pc' = "idle" /\ \A p \in Release : p # q => live'[p] = live[p]
      BY <2>1, <3>1 DEF Restart
    <3>3. r = q
      BY <3>2
    <3>4. live'[r].chart = live[r].chart
      BY <2>1, <3>1, <3>3, RestartKeepsChart
    <3>5. HasRolled(live[r]) /\ HasRolled(live'[r])
      BY <3>2 DEF RolloutInv, LiveInv
    <3> QED BY <3>4, <3>5 DEF HasRolled
  <2>6. CASE Roll
    <3>1. /\ pc = "wait" /\ pc' = "rolled" /\ deploy' = deploy /\ target' = target
          /\ \A q \in Release : q # target => live'[q] = live[q]
      BY <2>1, <2>6 DEF Roll
    <3>2. r = target
      BY <3>1
    <3>3. deploy.before # Absent /\ live[r].pods.template = deploy.before.chart.template
      BY <3>1, <3>2 DEF RolloutInv, TargetInv
    <3>4. live'[r].pods.template = ChartFor(r, deploy.input).template
      <4>1. HasRolled(live'[r])
        BY <3>1, <3>2 DEF RolloutInv, LiveInv
      <4>2. live'[r].chart = ChartFor(r, deploy.input)
        BY <3>1, <3>2 DEF RolloutInv, TargetInv
      <4> QED BY <4>1, <4>2 DEF HasRolled
    <3> QED BY <3>1, <3>2, <3>3, <3>4, OtherTemplate DEF Other
  <2>7. CASE Undo
    <3>1. /\ pc \in {"wait", "rolled"} /\ pc' = "idle"
          /\ \A q \in Release : q # target => live'[q] = live[q]
      BY <2>1, <2>7 DEF Undo
    <3>2. r = target
      BY <3>1
    <3>3. deploy.before # Absent /\ live'[r].chart = deploy.before.chart
      BY <2>7, <3>2, UndoRestoresChart
    <3>4. live'[r].pods.template = deploy.before.chart.template
      <4>1. HasRolled(live'[r])
        BY <3>1, <3>2 DEF RolloutInv, LiveInv
      <4> QED BY <3>3, <4>1 DEF HasRolled
    <3>5. pc = "rolled"
      BY <3>1, <3>2, <3>4 DEF RolloutInv, TargetInv
    <3>6. live[r].pods.template = ChartFor(r, deploy.input).template
      <4>1. HasRolled(live[r])
        BY <3>5 DEF RolloutInv, LiveInv
      <4>2. live[r].chart = ChartFor(r, deploy.input)
        BY <3>2, <3>5 DEF RolloutInv, TargetInv
      <4> QED BY <4>1, <4>2 DEF HasRolled
    <3> QED BY <3>1, <3>2, <3>3, <3>4, <3>6, OtherTemplate DEF Other
  <2> QED BY <2>2, <2>3, <2>4, <2>5, <2>6, <2>7 DEF Next
<1>2. Stays <=> \A r \in Release :
          /\ live[r] # Absent /\ live[r].pods # Absent /\ live'[r] # Absent
          /\ live'[r].pods # Absent /\ live'[r].pods.template # live[r].pods.template
          => IF r = Self THEN deploy.before.input # deploy.input
             ELSE \/ ToSet(deploy.before.chart.configMap["ngrok.yml"]) # ToSet(deploy.endpoints)
                  \/ deploy.before.chart.secret["NGROK_AUTHTOKEN"] # deploy.input.token
  OBVIOUS
<1> QED BY <1>1, RolloutInvariant, PTL DEF Spec, UnchangedKeepsPods
=============================================================================
